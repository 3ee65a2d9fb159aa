---------------------------- MODULE ClientAccounts ----------------------------
(***************************************************************************)
(* The accounts of one window or phone: the stored list, the tokens in     *)
(* memory and the credentials in the native store (frontend/services/      *)
(* cloudAuth.ts, supabaseCloudAuth.ts, supabaseTokenStorage.ts).  Sign-in, *)
(* refresh, sign-out and removal are chains of awaited calls over shared   *)
(* memory; any number of them may be suspended, of one account or several. *)
(*                                                                         *)
(* A step is what happens between two awaits.  Three things are awaited:   *)
(* the native store, whose calls about one account run one after another   *)
(* (queue); the identity provider; and the cloud, which renews the grant   *)
(* of the device.  Each may fail.  A token is a number, used again once    *)
(* nothing holds it; only whether two places hold the same one matters.    *)
(* The sign-in before the session is accepted is GoogleSignIn's subject.   *)
(***************************************************************************)
EXTENDS Naturals, Sequences, FiniteSets

CONSTANTS
    Owners,        \* accounts of the cloud this device may hold
    LegacyOwners,  \* those the device may hold since the former sign-in
    Jobs,          \* slots for the calls under way
    MaxCalls,      \* bound: calls begun, restarts included, with (TRUE) and
                   \* without accounts of the former sign-in
    Platforms,     \* "desktop", "android"
    Local          \* the owner without an account

ASSUME LegacyAssumption == LegacyOwners \subseteq Owners
ASSUME LocalAssumption == Local \notin Owners
ASSUME JobsAssumption == IsFiniteSet(Jobs)

VARIABLES
    platform,   \* isDesktopAuthRuntime
    accounts,   \* the stored list: provider and whether to be remembered
    active,     \* activeOwnerId
    access,     \* runtimeAccessTokenCache: none, good, or old
    outcome,    \* accountRuntimeAuthStateCache
    mem,        \* sessions: the provider's session in memory
    grant,      \* the saved metadata of the device's grant
    saved,      \* the native store: refresh token of each account
    legacyKey,  \* the former native store has a refresh token
    queue,      \* calls waiting for the native store, per account
    job,        \* the calls under way
    begun,      \* calls begun
    incomplete, \* history: a clean-up of the account was cut short or failed
    mixed,      \* history: the device held an account of the former sign-in
    overlooked  \* history: the account was not there when a token of it was
                \* saved, or its calls were when the list was emptied

storeVars == <<accounts, active>>
memVars == <<access, outcome, mem, grant>>
vars == <<platform, accounts, active, access, outcome, mem, grant, saved,
          legacyKey, queue, job, begun, incomplete, mixed, overlooked>>

Providers == {"none", "legacy", "kept", "temporary"}
Outcomes == {"none", "active", "saved_without_token", "refresh_failed",
             "session_expired"}
NoEntry == [id |-> 0, token |-> 0, keep |-> FALSE]
NoJob == [op |-> "none", o |-> Local, pc |-> "idle", id |-> 0, prev |-> NoEntry,
          outer |-> FALSE, list |-> [o \in Owners |-> "none"], owner |-> Local,
          left |-> {}]

Supabase(o) == accounts[o] \in {"kept", "temporary"}
OnDesktop == platform = "desktop"
Idle(j) == job[j] = NoJob
Running(op, o) == \E j \in Jobs : job[j].op = op /\ job[j].o = o
Begin(j, op, o, pc) ==
    job' = [job EXCEPT ![j] = [NoJob EXCEPT !.op = op, !.o = o, !.pc = pc]]
End(j) == job' = [job EXCEPT ![j] = NoJob]
At(j, op, pc) == job[j].op = op /\ job[j].pc = pc
Goto(j, pc) == job' = [job EXCEPT ![j].pc = pc]

\* A number for a session and its token that nothing about the account holds.
Used(o) == {saved[o], mem[o].id, mem[o].token}
           \cup {queue[o][i].token : i \in DOMAIN queue[o]}
           \cup UNION {{job[j].id, job[j].prev.id, job[j].prev.token} : j \in Jobs}
Fresh(o) == CHOOSE t \in 1 .. Cardinality(Used(o)) + 1 : t \notin Used(o)

-----------------------------------------------------------------------------
(* The stored list and the native store *)

\* saveStoredAuthState: an owner that is not in the list is not in use.
Write(list, owner) ==
    /\ accounts' = list
    /\ active' = IF owner \in Owners /\ list[owner] # "none" THEN owner ELSE Local

\* What removal leaves of a list.
Without(o) == [accounts EXCEPT ![o] = "none"]

Call(kind, token, j) == [kind |-> kind, token |-> token, j |-> j]
\* Variant: a call does not wait for those before it.
Ask_First(q, o, call) == [q EXCEPT ![o] = <<call>> \o @]
Ask(q, o, call) == [q EXCEPT ![o] = Append(@, call)]

\* What a call leaves in the store.  A save is verified by reading it back, so
\* one that fails may have written.
After(call, old, ok) ==
    CASE call.kind = "load" -> {old}
      [] call.kind = "save" -> IF ok THEN {call.token} ELSE {old, call.token}
      [] call.kind = "delete" -> IF ok THEN {0} ELSE {old}

\* command: the first waiting call about the account is executed; the step of
\* its caller follows before the next call is.
Answered(j, o, ok) ==
    /\ queue[o] # <<>>
    /\ LET call == Head(queue[o])
       IN /\ call.j = j
          /\ saved' \in {[saved EXCEPT ![o] = t] : t \in After(call, saved[o], ok)}
          /\ incomplete' = IF ~ok THEN incomplete \cup {o}
                           ELSE IF call.kind = "delete" THEN incomplete \ {o}
                           ELSE incomplete

Rest(o) == [queue EXCEPT ![o] = Tail(@)]

\* The former native store, whose calls are not queued: each may fail with or
\* without having been executed.
FormerSave(o) == legacyKey' \in {legacyKey, [legacyKey EXCEPT ![o] = TRUE]}
FormerDelete(o) == legacyKey' \in {legacyKey, [legacyKey EXCEPT ![o] = FALSE]}
FormerLoads(o, found) == found => legacyKey[o]

-----------------------------------------------------------------------------
(* Signing in *)

\* acceptAuthorizedSession, up to the native store: the session in memory is
\* replaced at once.
LoginBegins(j, o, keep) ==
    /\ Idle(j)
    /\ LET n == Fresh(o)
           entry == [id |-> n, token |-> n, keep |-> keep]
       IN /\ mem' = [mem EXCEPT ![o] = entry]
          /\ queue' = Ask(queue, o, IF keep THEN Call("save", n, j)
                                            ELSE Call("delete", 0, j))
          /\ job' = [job EXCEPT ![j] = [NoJob EXCEPT !.op = "login", !.o = o,
                       !.pc = "storing", !.id = n, !.prev = mem[o]]]
    /\ UNCHANGED <<platform, storeVars, access, outcome, grant, saved,
                   legacyKey, incomplete, mixed, overlooked>>

\* storeSession, addOrUpdateAccount: the account is listed with its token.
Store(o, keep, owner) ==
    /\ Write([accounts EXCEPT ![o] = IF keep THEN "kept" ELSE "temporary"], owner)
    /\ access' = [access EXCEPT ![o] = "good"]
    /\ outcome' = [outcome EXCEPT ![o] = "active"]

\* What a refused sign-in saved stays, unless the account is kept or another
\* call deletes it.
LeftBehind(o, ok) ==
    IF /\ ok /\ Head(queue[o]).kind = "save" /\ accounts[o] # "kept"
       /\ \A i \in DOMAIN queue[o] : queue[o][i].kind # "delete"
    THEN {o} ELSE {}

\* acceptAuthorizedSession after it: refused if another sign-in or a sign-out
\* came between, and undone if the store failed.
LoginStored(j) ==
    LET o == job[j].o IN
    /\ At(j, "login", "storing")
    /\ \E ok \in BOOLEAN :
         /\ Answered(j, o, ok)
         /\ \/ /\ mem[o].id = job[j].id /\ ok
               /\ Store(o, mem[o].keep, o)
               /\ grant' = [grant EXCEPT ![o] = TRUE]
               /\ overlooked' = overlooked \ {o}
               /\ UNCHANGED mem
            \/ /\ mem[o].id = job[j].id /\ ~ok
               /\ mem' = [mem EXCEPT ![o] = job[j].prev]
               /\ UNCHANGED <<storeVars, access, outcome, grant, overlooked>>
            \/ /\ mem[o].id # job[j].id
               /\ overlooked' = overlooked \cup LeftBehind(o, ok)
               /\ UNCHANGED <<storeVars, memVars>>
    /\ queue' = Rest(o)
    /\ End(j)
    /\ UNCHANGED <<platform, legacyKey, mixed>>

-----------------------------------------------------------------------------
(* Refreshing a session of the provider *)

\* recordDesktopSupabaseRefresh, then what refreshAccessTokenForAccount keeps.
OutcomeAfter(o, result, outer) ==
    LET recorded ==
          IF ~(OnDesktop /\ Supabase(o)) THEN outcome[o]
          ELSE CASE result = "nothing" -> "saved_without_token"
                 [] result = "retry" -> "refresh_failed"
                 [] result = "rejected" -> "session_expired"
    IN IF ~outer THEN recorded
       ELSE CASE result = "nothing" /\ access[o] = "good" -> recorded
              [] result = "nothing" /\ access[o] # "good" ->
                   IF OnDesktop /\ accounts[o] = "kept" /\ recorded # "session_expired"
                   THEN "saved_without_token" ELSE "session_expired"
              [] result = "retry" -> IF OnDesktop THEN recorded ELSE "refresh_failed"
              [] result = "rejected" -> recorded

\* The refresh of j ends without a session; q, m and g are the queue, the
\* sessions and the grants this step leaves.  A rejection seen by
\* getValidAccessToken also deletes what is saved.
Fails(j, result, q, m, g) ==
    LET o == job[j].o IN
    /\ IF job[j].outer /\ result = "rejected"
       THEN /\ mem' = [m EXCEPT ![o] = NoEntry]
            /\ grant' = [g EXCEPT ![o] = FALSE]
            /\ queue' = Ask(q, o, Call("delete", 0, j))
            /\ job' = [job EXCEPT ![j].op = "reject", ![j].pc = "deleting"]
       ELSE mem' = m /\ grant' = g /\ queue' = q /\ End(j)
    /\ outcome' = [outcome EXCEPT ![o] = OutcomeAfter(o, result, job[j].outer)]

\* Expired access tokens are dropped where nothing came of the refresh.
Drop(j, result) ==
    access' = IF job[j].outer /\ result = "nothing" /\ access[job[j].o] = "old"
              THEN [access EXCEPT ![job[j].o] = "none"] ELSE access

Current(j) == mem[job[j].o].id = job[j].id

\* refreshSession: one refresh per account; later callers wait for it.
RefreshBegins(j, o, outer) ==
    /\ Idle(j) /\ Supabase(o) /\ ~Running("refresh", o)
    /\ outer => ~Running("reject", o)
    /\ \/ /\ mem[o] # NoEntry
          /\ job' = [job EXCEPT ![j] = [NoJob EXCEPT !.op = "refresh", !.o = o,
                       !.pc = "provider", !.id = mem[o].id, !.outer = outer]]
          /\ UNCHANGED <<mem, queue>>
       \/ /\ mem[o] = NoEntry /\ accounts[o] = "kept"
          /\ LET n == Fresh(o)
             IN /\ mem' = [mem EXCEPT ![o] = [id |-> n, token |-> 0, keep |-> TRUE]]
                /\ job' = [job EXCEPT ![j] = [NoJob EXCEPT !.op = "refresh",
                             !.o = o, !.pc = "load", !.id = n, !.outer = outer]]
          /\ queue' = Ask(queue, o, Call("load", 0, j))
    /\ UNCHANGED <<platform, storeVars, access, outcome, grant, saved,
                   legacyKey, incomplete, mixed, overlooked>>

\* A session that was not remembered and is no longer in memory.
RefreshHasNothing(o) ==
    /\ accounts[o] = "temporary" /\ mem[o] = NoEntry /\ access[o] = "old"
    /\ access' = [access EXCEPT ![o] = "none"]
    /\ outcome' = [outcome EXCEPT ![o] = "session_expired"]
    /\ UNCHANGED <<platform, storeVars, mem, grant, saved, legacyKey, queue,
                   job, incomplete, mixed, overlooked>>

\* getValidAccessToken joins a refresh MobileAccountProvider or hydration began.
RefreshJoins(j) ==
    /\ job[j].op = "refresh" /\ ~job[j].outer /\ ~Running("reject", job[j].o)
    /\ job' = [job EXCEPT ![j].outer = TRUE]
    /\ UNCHANGED <<platform, storeVars, memVars, saved, legacyKey, queue,
                   incomplete, mixed, overlooked>>

\* The saved token is read.
RefreshLoaded(j) ==
    LET o == job[j].o
        gone == [mem EXCEPT ![o] = NoEntry]
    IN
    /\ At(j, "refresh", "load")
    /\ \E ok \in BOOLEAN :
         /\ Answered(j, o, ok)
         /\ \/ /\ Current(j) /\ ok /\ saved[o] # 0
               /\ mem' = [mem EXCEPT ![o].token = saved[o]]
               /\ Goto(j, "provider")
               /\ queue' = Rest(o)
               /\ UNCHANGED <<access, outcome, grant>>
            \/ /\ Current(j) /\ ok /\ saved[o] = 0
               /\ Fails(j, "nothing", Rest(o), gone, grant)
               /\ Drop(j, "nothing")
            \/ /\ Current(j) /\ ~ok
               /\ Fails(j, "retry", Rest(o), gone, grant)
               /\ Drop(j, "retry")
            \/ /\ ~Current(j) /\ ok
               /\ Fails(j, "nothing", Rest(o), mem, grant)
               /\ Drop(j, "nothing")
            \/ /\ ~Current(j) /\ ~ok
               /\ Fails(j, "retry", Rest(o), mem, grant)
               /\ Drop(j, "retry")
    /\ UNCHANGED <<platform, storeVars, legacyKey, mixed, overlooked>>

\* The provider answers: a new token in place of the old, a refusal, or nothing.
\* On the desktop a new token is saved before anything else.
Rotated(j) ==
    LET o == job[j].o
        n == Fresh(o)
    IN
    /\ At(j, "refresh", "provider")
    /\ Current(j)
    /\ mem' = [mem EXCEPT ![o].token = n]
    /\ IF OnDesktop /\ mem[o].keep
       THEN queue' = Ask(queue, o, Call("save", n, j)) /\ Goto(j, "save")
       ELSE UNCHANGED queue /\ Goto(j, "grant")
    /\ UNCHANGED <<platform, storeVars, access, outcome, grant, saved,
                   legacyKey, incomplete, mixed, overlooked>>

\* It refuses, or cannot be reached; what it says of a session replaced or
\* forgotten meanwhile is ignored.
NotRotated(j) ==
    /\ At(j, "refresh", "provider")
    /\ \E result \in IF Current(j) THEN {"rejected", "retry"} ELSE {"nothing"} :
         Fails(j, result, queue, mem, grant) /\ Drop(j, result)
    /\ UNCHANGED <<platform, storeVars, saved, legacyKey, incomplete, mixed, overlooked>>

\* The desktop's new token was saved, or could not be.
RotationSaved(j) ==
    LET o == job[j].o IN
    /\ At(j, "refresh", "save")
    /\ \E ok \in BOOLEAN :
         /\ Answered(j, o, ok)
         /\ IF ok THEN /\ Goto(j, "grant")
                       /\ queue' = Rest(o)
                       /\ UNCHANGED memVars
            ELSE Fails(j, "retry", Rest(o), mem, grant) /\ Drop(j, "retry")
    /\ UNCHANGED <<platform, storeVars, legacyKey, mixed, overlooked>>

\* The refresh ends with a session: listed again, without putting it in use.
\* Variant: without looking whether the account is still there.
Renew_Unchecked(j) ==
    LET o == job[j].o IN
    /\ Store(o, TRUE, active)
    /\ End(j)

Renew(j) ==
    LET o == job[j].o IN
    IF Current(j) /\ Supabase(o)
    THEN Store(o, mem[o].keep, active) /\ End(j)
    ELSE /\ job' = [job EXCEPT ![j] = NoJob]
         /\ outcome' = [outcome EXCEPT ![o] = OutcomeAfter(o, "nothing", job[j].outer)]
         /\ Drop(j, "nothing")
         /\ UNCHANGED storeVars

\* restoreDeviceGrant: the cloud renews the grant.  A phone saves the new token
\* only now.
Granted(j) ==
    LET o == job[j].o IN
    /\ At(j, "refresh", "grant") /\ grant[o]
    /\ \/ /\ Current(j) /\ mem[o].keep /\ ~OnDesktop
          /\ queue' = Ask(queue, o, Call("save", mem[o].token, j))
          /\ Goto(j, "lastsave")
          /\ UNCHANGED <<storeVars, memVars>>
       \/ /\ Current(j) /\ (OnDesktop \/ ~mem[o].keep)
          /\ Renew(j)
          /\ UNCHANGED <<mem, grant, queue>>
       \/ /\ ~Current(j)
          /\ Fails(j, "nothing", queue, mem, grant)
          /\ Drop(j, "nothing")
          /\ UNCHANGED storeVars
    /\ UNCHANGED <<platform, saved, legacyKey, incomplete, mixed, overlooked>>

\* The cloud refuses the device, or cannot be reached.  A refusal removes the
\* account here.
NotGranted(j) ==
    LET o == job[j].o IN
    /\ At(j, "refresh", "grant")
    /\ \/ /\ ~Current(j)
          /\ Fails(j, "nothing", queue, mem, grant) /\ Drop(j, "nothing")
       \/ /\ Current(j) /\ grant[o]
          /\ Fails(j, "retry", queue, mem, grant) /\ Drop(j, "retry")
       \/ /\ Current(j)
          /\ mem' = [mem EXCEPT ![o] = NoEntry]
          /\ grant' = [grant EXCEPT ![o] = FALSE]
          /\ queue' = Ask(queue, o, Call("delete", 0, j))
          /\ Goto(j, "removing")
          /\ UNCHANGED <<access, outcome>>
    /\ UNCHANGED <<platform, storeVars, saved, legacyKey, incomplete, mixed, overlooked>>

\* A phone's new token was saved; rememberDeviceGrant comes before the check.
LastSaved(j) ==
    LET o == job[j].o IN
    /\ At(j, "refresh", "lastsave")
    /\ \E ok \in BOOLEAN :
         /\ Answered(j, o, ok)
         /\ IF ok THEN /\ Renew(j)
                       /\ grant' = [grant EXCEPT ![o] = TRUE]
                       /\ queue' = Rest(o)
                       /\ UNCHANGED mem
            ELSE /\ Fails(j, "retry", Rest(o), mem, grant)
                 /\ Drop(j, "retry")
                 /\ UNCHANGED storeVars
    /\ UNCHANGED <<platform, legacyKey, mixed, overlooked>>

\* The account of a refused device leaves the list; the refresh is rejected.
RefusedRemoved(j) ==
    LET o == job[j].o IN
    /\ At(j, "refresh", "removing")
    /\ \E ok \in BOOLEAN : Answered(j, o, ok)
    /\ Write(Without(o), active)
    /\ access' = [access EXCEPT ![o] = "none"]
    /\ Fails(j, "rejected", Rest(o), mem, grant)
    /\ UNCHANGED <<platform, legacyKey, mixed, overlooked>>

\* refreshAccessTokenForAccount after the deletion a rejection asks for.
RejectedDeleted(j) ==
    LET o == job[j].o IN
    /\ At(j, "reject", "deleting")
    /\ \E ok \in BOOLEAN : Answered(j, o, ok)
    /\ access' = [access EXCEPT ![o] = "none"]
    /\ outcome' = [outcome EXCEPT ![o] =
         IF OnDesktop /\ accounts[o] = "kept" /\ @ # "session_expired"
         THEN "saved_without_token" ELSE "session_expired"]
    /\ queue' = Rest(o)
    /\ End(j)
    /\ UNCHANGED <<platform, storeVars, mem, grant, legacyKey, mixed, overlooked>>

-----------------------------------------------------------------------------
(* Signing out and removing *)

\* removeAccount, up to the native store.  For an account of the former sign-in
\* the list it will write back is read before the wait.
Removes(j, o) ==
    IF Supabase(o)
    THEN /\ mem' = [mem EXCEPT ![o] = NoEntry]
         /\ grant' = [grant EXCEPT ![o] = FALSE]
         /\ queue' = Ask(queue, o, Call("delete", 0, j))
         /\ Begin(j, "remove", o, "deleting")
         /\ UNCHANGED <<access, outcome>>
    ELSE /\ access' = [access EXCEPT ![o] = "none"]
         /\ outcome' = [outcome EXCEPT ![o] = "none"]
         /\ job' = [job EXCEPT ![j] = [NoJob EXCEPT !.op = "remove", !.o = o,
                      !.pc = "former", !.list = Without(o),
                      !.owner = IF active = o THEN Local ELSE active]]
         /\ UNCHANGED <<mem, grant, queue>>

RemoveBegins(j, o) ==
    /\ Idle(j) /\ accounts[o] # "none"
    /\ Removes(j, o)
    /\ UNCHANGED <<platform, storeVars, saved, legacyKey, incomplete, mixed, overlooked>>

\* The rest of removeAccount: the list is read after the wait.
RemoveEnds(j) ==
    LET o == job[j].o IN
    /\ At(j, "remove", "deleting")
    /\ \E ok \in BOOLEAN : Answered(j, o, ok)
    /\ Write(Without(o), active)
    /\ access' = [access EXCEPT ![o] = "none"]
    /\ queue' = Rest(o)
    /\ End(j)
    /\ UNCHANGED <<platform, outcome, mem, grant, legacyKey, mixed, overlooked>>

\* ... or it is the list of before the wait.
FormerRemoveEnds(j) ==
    LET o == job[j].o IN
    /\ At(j, "remove", "former")
    /\ FormerDelete(o)
    /\ Write(job[j].list, job[j].owner)
    /\ incomplete' = incomplete \cup
                     {x \in Owners : accounts[x] # "none" /\ job[j].list[x] = "none"}
    /\ End(j)
    /\ UNCHANGED <<platform, memVars, saved, queue, mixed, overlooked>>

\* signOut: the session leaves memory before the provider is told.
SignOut(j, o) ==
    /\ Idle(j) /\ Supabase(o)
    /\ mem' = [mem EXCEPT ![o] = NoEntry]
    /\ Begin(j, "signout", o, "network")
    /\ UNCHANGED <<platform, storeVars, access, outcome, grant, saved, legacyKey,
                   queue, incomplete, mixed, overlooked>>

\* ... and the account is removed unless it was signed in again meanwhile.
SignOutEnds(j) ==
    LET o == job[j].o IN
    /\ At(j, "signout", "network")
    /\ IF mem[o] # NoEntry \/ ~Supabase(o)
       THEN End(j) /\ UNCHANGED <<memVars, queue>>
       ELSE Removes(j, o)
    /\ UNCHANGED <<platform, storeVars, saved, legacyKey, incomplete, mixed, overlooked>>

\* logoutAccount of the former sign-in: the cloud is told first.
FormerLogout(j, o) ==
    /\ Idle(j) /\ accounts[o] = "legacy"
    /\ Begin(j, "logout", o, "network")
    /\ UNCHANGED <<platform, storeVars, memVars, saved, legacyKey, queue,
                   incomplete, mixed, overlooked>>

\* It fails without removing anything, or removes whatever is listed by then.
FormerLogoutEnds(j) ==
    /\ At(j, "logout", "network")
    /\ \/ Removes(j, job[j].o)
       \/ End(j) /\ UNCHANGED <<memVars, queue>>
    /\ UNCHANGED <<platform, storeVars, saved, legacyKey, incomplete, mixed, overlooked>>

\* clearAllAccounts: every session is forgotten and every deletion asked for.
ClearAll(j) ==
    LET listed == {o \in Owners : accounts[o] # "none"}
        theirs == {o \in listed : Supabase(o)}
    IN
    /\ Idle(j) /\ listed # {}
    /\ mem' = [o \in Owners |-> IF theirs # {} /\ o \in listed THEN NoEntry ELSE mem[o]]
    /\ grant' = [o \in Owners |-> grant[o] /\ o \notin theirs]
    /\ access' = [o \in Owners |-> IF o \in listed THEN "none" ELSE access[o]]
    /\ outcome' = [o \in Owners |-> IF o \in listed \ theirs THEN "none" ELSE outcome[o]]
    /\ queue' = [o \in Owners |-> IF o \in theirs
                    THEN Append(queue[o], Call("delete", 0, j)) ELSE queue[o]]
    /\ job' = [job EXCEPT ![j] = [NoJob EXCEPT !.op = "clear", !.pc = "deleting",
                                             !.left = listed]]
    /\ UNCHANGED <<platform, storeVars, saved, legacyKey, incomplete, mixed, overlooked>>

Cleared(j, o) ==
    /\ At(j, "clear", "deleting") /\ o \in job[j].left
    /\ \/ /\ \E ok \in BOOLEAN : Answered(j, o, ok)
          /\ queue' = Rest(o)
          /\ UNCHANGED legacyKey
       \/ /\ \A i \in DOMAIN queue[o] : queue[o][i].j # j
          /\ FormerDelete(o)
          /\ UNCHANGED <<queue, saved, incomplete>>
    /\ job' = [job EXCEPT ![j].left = @ \ {o}]
    /\ UNCHANGED <<platform, storeVars, memVars, mixed, overlooked>>

\* Once all have answered the empty list is written, over what signed in since.
ClearEnds(j) ==
    LET inUse == {o \in Owners : \/ mem[o] # NoEntry \/ queue[o] # <<>> \/ access[o] # "none"
                                \/ \E i \in Jobs : job[i].o = o}
    IN
    /\ At(j, "clear", "deleting") /\ job[j].left = {}
    /\ Write([o \in Owners |-> "none"], Local)
    /\ incomplete' = incomplete \cup inUse
    /\ overlooked' = overlooked \cup inUse
    /\ End(j)
    /\ UNCHANGED <<platform, memVars, saved, legacyKey, queue, mixed>>

\* handleDeletedAccountResponse, forgetDeletedAccount: the cloud answered that
\* the account whose access token was used is deleted.
ForgetDeleted(j, o) ==
    /\ Idle(j) /\ accounts[o] # "none" /\ access[o] # "none"
    /\ ~Running("remove", o)
    /\ active' = IF active = o THEN Local ELSE active
    /\ IF Supabase(o) THEN Removes(j, o)
       ELSE /\ mem' = [mem EXCEPT ![o] = NoEntry]
            /\ access' = [access EXCEPT ![o] = "none"]
            /\ outcome' = [outcome EXCEPT ![o] = "none"]
            /\ job' = [job EXCEPT ![j] = [NoJob EXCEPT !.op = "remove", !.o = o,
                         !.pc = "former", !.list = Without(o),
                         !.owner = IF active = o THEN Local ELSE active]]
            /\ UNCHANGED <<grant, queue>>
    /\ UNCHANGED <<platform, accounts, saved, legacyKey, incomplete, mixed, overlooked>>

\* handleLogout of the account panel: it awaits the session of the account in
\* use, and without one removes the account in use by then.
PanelLogout(j) ==
    /\ Idle(j) /\ active # Local
    /\ Begin(j, "panel", active, "session")
    /\ UNCHANGED <<platform, storeVars, memVars, saved, legacyKey, queue,
                   incomplete, mixed, overlooked>>

PanelLogoutEnds(j) ==
    LET o == job[j].o IN
    /\ At(j, "panel", "session")
    /\ \/ /\ access[o] # "none" /\ Supabase(o)
          /\ mem' = [mem EXCEPT ![o] = NoEntry]
          /\ Begin(j, "signout", o, "network")
          /\ UNCHANGED <<access, outcome, grant, queue>>
       \/ /\ access[o] # "none" /\ accounts[o] = "legacy"
          /\ Begin(j, "logout", o, "network")
          /\ UNCHANGED <<memVars, queue>>
       \/ /\ active = Local \/ (access[o] # "none" /\ accounts[o] = "none")
          /\ End(j)
          /\ UNCHANGED <<memVars, queue>>
       \/ active # Local /\ Removes(j, active)
    /\ UNCHANGED <<platform, storeVars, saved, legacyKey, incomplete, mixed, overlooked>>

-----------------------------------------------------------------------------
(* Accounts of the former sign-in *)

\* refreshAccessTokenForAccount, the former provider: the token is read from
\* the cache or the store and sent.
FormerRefresh(j, o) ==
    /\ Idle(j) /\ accounts[o] = "legacy" /\ ~Running("former", o)
    /\ \/ /\ FormerLoads(o, TRUE)
          /\ Begin(j, "former", o, "provider")
          /\ UNCHANGED outcome
       \/ /\ FormerLoads(o, FALSE)
          /\ outcome' = [outcome EXCEPT ![o] = "saved_without_token"]
          /\ UNCHANGED job
    /\ UNCHANGED <<platform, storeVars, access, mem, grant, saved, legacyKey,
                   queue, incomplete, mixed, overlooked>>

\* The provider answers, or the call fails.  Either is ignored if the account
\* moved to the new sign-in meanwhile.
FormerAnswered(j) ==
    LET o == job[j].o IN
    /\ At(j, "former", "provider")
    /\ \/ Supabase(o) /\ End(j) /\ UNCHANGED <<access, outcome>>
       \/ /\ ~Supabase(o)
          /\ access' = [access EXCEPT ![o] = "good"]
          /\ Goto(j, "save")
          /\ UNCHANGED outcome
       \/ /\ ~Supabase(o)
          /\ access' = [access EXCEPT ![o] = "none"]
          /\ \E r \in {"refresh_failed", "session_expired"} :
               outcome' = [outcome EXCEPT ![o] = r]
          /\ End(j)
    /\ UNCHANGED <<platform, storeVars, mem, grant, saved, legacyKey, queue,
                   incomplete, mixed, overlooked>>

\* Variant: the account is written back whatever its provider is now.
FormerSaved_Unchecked(j) ==
    LET o == job[j].o IN
    /\ At(j, "former", "save")
    /\ FormerSave(o)
    /\ Write([accounts EXCEPT ![o] = "legacy"], active)
    /\ outcome' = [outcome EXCEPT ![o] = "active"]
    /\ End(j)
    /\ UNCHANGED <<platform, access, mem, grant, saved, queue, incomplete, mixed, overlooked>>

\* The new token was saved or not; the account is written to the list, whether
\* or not it is still there.
FormerSaved(j) ==
    LET o == job[j].o IN
    /\ At(j, "former", "save")
    /\ FormerSave(o)
    /\ IF Supabase(o) THEN UNCHANGED <<storeVars, outcome>>
       ELSE /\ Write([accounts EXCEPT ![o] = "legacy"], active)
            /\ outcome' = [outcome EXCEPT ![o] = "active"]
    /\ End(j)
    /\ UNCHANGED <<platform, access, mem, grant, saved, queue, incomplete, mixed, overlooked>>

-----------------------------------------------------------------------------
(* The user, time, and the end of the program *)

\* switchActiveOwner
Switch(o) ==
    /\ o # active
    /\ Write(accounts, o)
    /\ UNCHANGED <<platform, accounts, memVars, saved, legacyKey, queue, job,
                   incomplete, mixed, overlooked>>

\* An access token is no longer accepted, or nearly so.
Expire(o) ==
    /\ access[o] = "good"
    /\ access' = [access EXCEPT ![o] = "old"]
    /\ UNCHANGED <<platform, storeVars, outcome, mem, grant, saved, legacyKey,
                   queue, job, incomplete, mixed, overlooked>>

\* The program is closed, or its page reloaded.  Sessions and calls under way
\* are lost; a call the store has begun may have been executed.  On a reload
\* accounts not to be remembered stay, and a desktop's access tokens too.
Restart(reload) ==
    LET stays(o) == accounts[o] \in {"legacy", "kept"} \/ reload
        cut == {o \in Owners : queue[o] # <<>>
                  \/ \E j \in Jobs : job[j].o = o \/ o \in job[j].left}
    IN
    /\ Write([o \in Owners |-> IF stays(o) THEN accounts[o] ELSE "none"], active)
    /\ access' = [o \in Owners |-> IF reload /\ OnDesktop THEN access[o] ELSE "none"]
    /\ outcome' = [o \in Owners |-> "none"]
    /\ mem' = [o \in Owners |-> NoEntry]
    /\ queue' = [o \in Owners |-> <<>>]
    /\ job' = [j \in Jobs |-> NoJob]
    /\ incomplete' = incomplete \cup cut
    /\ \E o \in Owners : saved' \in
         {saved} \cup IF queue[o] = <<>> THEN {}
                      ELSE {[saved EXCEPT ![o] = t] : t \in After(Head(queue[o]), saved[o], TRUE)}
    /\ UNCHANGED <<platform, grant, legacyKey, mixed, overlooked>>

-----------------------------------------------------------------------------
Init ==
    /\ platform \in Platforms
    /\ \E former \in SUBSET LegacyOwners :
         /\ accounts = [o \in Owners |-> IF o \in former THEN "legacy" ELSE "none"]
         /\ active \in former \cup {Local}
         /\ legacyKey = [o \in Owners |-> o \in former]
         /\ mixed = (former # {})
    /\ access = [o \in Owners |-> "none"]
    /\ outcome = [o \in Owners |-> "none"]
    /\ mem = [o \in Owners |-> NoEntry]
    /\ grant = [o \in Owners |-> FALSE]
    /\ saved = [o \in Owners |-> 0]
    /\ queue = [o \in Owners |-> <<>>]
    /\ job = [j \in Jobs |-> NoJob]
    /\ incomplete = {}
    /\ overlooked = {}
    /\ begun = 0

\* A call begins, or the program starts again.
Begins ==
    \/ \E j \in Jobs, o \in Owners :
         \/ \E keep \in BOOLEAN : LoginBegins(j, o, keep)
         \/ \E outer \in BOOLEAN : RefreshBegins(j, o, outer)
         \/ RemoveBegins(j, o)
         \/ SignOut(j, o)
         \/ FormerLogout(j, o)
         \/ ForgetDeleted(j, o)
         \/ FormerRefresh(j, o)
    \/ \E j \in Jobs : ClearAll(j) \/ PanelLogout(j)
    \/ \E reload \in BOOLEAN : Restart(reload)

\* A call goes on after something it awaited.
Continues ==
    \/ \E j \in Jobs, o \in Owners : Cleared(j, o)
    \/ \E j \in Jobs :
         \/ LoginStored(j) \/ RefreshJoins(j) \/ RefreshLoaded(j)
         \/ Rotated(j) \/ NotRotated(j) \/ RotationSaved(j)
         \/ Granted(j) \/ NotGranted(j) \/ LastSaved(j) \/ RefusedRemoved(j)
         \/ RejectedDeleted(j) \/ RemoveEnds(j) \/ FormerRemoveEnds(j)
         \/ SignOutEnds(j) \/ FormerLogoutEnds(j) \/ ClearEnds(j)
         \/ PanelLogoutEnds(j) \/ FormerAnswered(j) \/ FormerSaved(j)
    \/ \E o \in Owners : RefreshHasNothing(o) \/ Expire(o)
    \/ \E o \in Owners \cup {Local} : Switch(o)

Next == \/ begun < MaxCalls[mixed] /\ begun' = begun + 1 /\ Begins
        \/ UNCHANGED begun /\ Continues

Spec == Init /\ [][Next]_vars

-----------------------------------------------------------------------------
(* Properties *)

Listed == {o \in Owners : accounts[o] # "none"}
Quiet(o) == queue[o] = <<>> /\ \A j \in Jobs : job[j].o # o /\ o \notin job[j].left

List == INSTANCE AccountList WITH list <- Listed

\* The window keeps what AccountList promises: between any two awaits of any
\* calls, an account is listed only by a sign-in, and the one in use changes
\* only as the user asks.
AccountsSpec == List!Spec

\* AUTH_MIGRATION.md: "La limpieza local funciona aunque no se pueda revocar
\* remotamente", "Quitar una cuenta Supabase elimina exclusivamente su
\* credencial externa".  Once nothing is under way and no clean-up failed, a
\* credential in the native store belongs to a listed account to be remembered,
\* but for what the code leaves behind (overlooked): the token of a sign-in
\* refused because the account left meanwhile, and what is under the list that
\* clearAllAccounts writes over calls under way.  But for that list an access
\* token is of a listed account.
CredentialsLeft ==
    \A o \in Owners : ~mixed =>
        /\ Quiet(o) /\ o \notin incomplete \cup overlooked =>
              (saved[o] # 0 => accounts[o] = "kept")
        /\ access[o] # "none" => o \in Listed \cup overlooked

\* On the desktop the token in the native store is the one the provider gave
\* last, whether or not the cloud answered after it: nothing is lost if the
\* program ends now.
RotationSurvives ==
    \A o \in Owners :
        (OnDesktop /\ ~mixed /\ Quiet(o) /\ accounts[o] = "kept" /\ mem[o].token # 0) =>
        saved[o] = mem[o].token \/ o \in incomplete

\* The promise of AUTH_MIGRATION.md for every platform: "Los tokens rotados se
\* conservan en memoria y storage seguro ANTES de validar el backend".
RotationSavedFirst ==
    \A j \in Jobs : LET o == job[j].o IN
        (At(j, "refresh", "grant") /\ Current(j) /\ mem[o].keep) =>
        saved[o] = mem[o].token

\* refreshAccessTokenForAccount: "A late legacy refresh must not replace a newly
\* selected auth provider."  An account of the new sign-in becomes one of the
\* former again only where a removal writes back an old list.
ProviderStays ==
    [][\A o \in Owners : (Supabase(o) /\ accounts'[o] = "legacy") =>
         \E j \in Jobs : At(j, "remove", "former") /\ job'[j] = NoJob]_vars
=============================================================================
