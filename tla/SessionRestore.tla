---------------------------- MODULE SessionRestore ----------------------------
(***************************************************************************)
(* How a desktop window finds the session of its accounts again            *)
(* (frontend/services/cloudAuth.ts, supabaseCloudAuth.ts): the hydration,  *)
(* which restores every remembered account one after another; the refresh  *)
(* of one account, which callers share; and the readers of the state,      *)
(* the sidebar and the account panel, which wait for both.                 *)
(*                                                                         *)
(* Every account is one of the identity provider.  What the native store   *)
(* holds and the steps of signing in and out are ClientAccounts's; here a  *)
(* load finds a token, finds none or fails.  Storing a session changes the *)
(* stored list, so that the next reader begins another hydration.          *)
(***************************************************************************)
EXTENDS Naturals, FiniteSets

CONSTANTS
    Owners, Local,   \* cloud accounts, and the owner without one
    Readers,         \* calls of getActiveCloudAuthState at once
    MaxEvents        \* bound: sign-ins, removals, switches, expiries, reads

VARIABLES
    listed,      \* the stored list
    temporary,   \* accounts signed in without being remembered
    active,      \* activeOwnerId
    token,       \* runtimeAccessTokenCache: none, good, late (near expiry), old
    mem,         \* sessions: accounts with an entry
    state,       \* accountRuntimeAuthStateCache: the availability
    rejected,    \* accountAuthStatusCache: the last refresh was refused
    current,     \* the last hydration is of the present authStateRevision
    hydration,   \* hydratePersistentTokens: accounts left, the one it waits for
    refresh,     \* refreshes: what each awaits, and whether its entry is in sessions
    shared,      \* activeRefreshPromises: none, waits, deleting
    reader,      \* what each reader awaits, for which account
    due,         \* the sidebar was notified of a change
    refused,     \* history: accounts refused since they signed in
    inVain,      \* history: accounts the hydration could not restore
    events

listVars == <<listed, temporary, active>>
cacheVars == <<token, mem, state, rejected>>
history == <<refused, inVain>>
vars == <<listVars, cacheVars, current, hydration, refresh, shared, reader, due,
          history, events>>

NoHydration == [pc |-> "off", left |-> {}, at |-> Local]
NoRefresh == [pc |-> "none", live |-> FALSE]
NoReader == [pc |-> "idle", of |-> Local]

Kept(o) == o \in listed \ temporary
Usable(o) == token[o] \in {"good", "late"}
Hydrating == hydration.pc # "off"
Pending == Hydrating \/ ~current

\* What is said of an account without a session.
Unavailable(o, refusals) ==
    IF o \notin temporary /\ o \notin refusals THEN "saved_without_token" ELSE "session_expired"

-----------------------------------------------------------------------------
(* Refreshing one account *)

\* refreshSession: begun for those that find none under way.
Begins(o) ==
    IF refresh[o].pc # "none" THEN UNCHANGED <<refresh, mem>>
    ELSE /\ mem' = IF Kept(o) THEN mem \cup {o} ELSE mem
         /\ refresh' = [refresh EXCEPT ![o] =
              [live |-> TRUE,
               pc |-> IF o \in listed /\ o \in mem THEN "provider"
                      ELSE IF Kept(o) THEN "load" ELSE "nothing"]]

\* The shared refresh has its answer, and so have its readers.
SharedAnswers(o) ==
    /\ shared' = [shared EXCEPT ![o] = "none"]
    /\ reader' = [r \in Readers |->
                    IF reader[r] = [pc |-> "refresh", of |-> o] THEN NoReader ELSE reader[r]]

\* The hydration has it, and goes on with the next account.
HydrationAnswers(o, got) ==
    IF hydration.at = o
    THEN /\ hydration' = [hydration EXCEPT !.pc = "next", !.at = Local]
         /\ inVain' = IF got THEN inVain \ {o} ELSE inVain \cup {o}
    ELSE UNCHANGED hydration /\ inVain' = IF got THEN inVain \ {o} ELSE inVain

Waits(o) == hydration.at = o /\ hydration.pc = "waits"

\* A refresh of an account of the list ends: its outcome is recorded, then each
\* caller acts on it.  Nothing came, or it failed: a valid token held in memory
\* serves.
Ends(o, result, what, list, held) ==
    LET seen == IF o \in list THEN [state EXCEPT ![o] = what] ELSE state
        refusals == CASE o \notin list -> rejected
                      [] result = "refused" -> rejected \cup {o}
                      [] result # "refused" -> rejected \ {o}
        got == result = "session" \/ held
        said == IF result = "nothing" /\ ~got
                THEN [seen EXCEPT ![o] = Unavailable(o, refusals)] ELSE seen
    IN /\ refresh' = [refresh EXCEPT ![o] = NoRefresh]
       /\ rejected' = refusals
       /\ state' = said
       /\ IF result = "refused"
          THEN \* forgetSession, deleteSavedSession
               /\ hydration' = IF Waits(o) THEN [hydration EXCEPT !.pc = "deleting"] ELSE hydration
               /\ shared' = IF shared[o] = "waits"
                            THEN [shared EXCEPT ![o] = "deleting"] ELSE shared
               /\ UNCHANGED <<reader, inVain>>
          ELSE SharedAnswers(o) /\ HydrationAnswers(o, got)

\* What a refresh that ends without a session does to its entry and the token.
EndsWithout(o, result, forgets) ==
    /\ Ends(o, result,
            CASE result = "nothing" -> "saved_without_token"
              [] result = "failed" -> "refresh_failed"
              [] result = "refused" -> "session_expired", listed, Usable(o))
    /\ mem' = IF forgets THEN mem \ {o} ELSE mem
    /\ token' = IF result = "nothing" /\ ~Usable(o)
                THEN [token EXCEPT ![o] = "none"] ELSE token
    /\ UNCHANGED <<listVars, current, due, events>>

RefreshAt(o, pc) ==
    /\ refresh' = [refresh EXCEPT ![o].pc = pc]
    /\ UNCHANGED <<listVars, cacheVars, current, hydration, shared, reader, due,
                   history, events>>

\* loadSupabaseRefreshToken
Loaded(o) ==
    /\ refresh[o].pc = "load"
    /\ \/ refresh[o].live /\ RefreshAt(o, "provider")
       \/ EndsWithout(o, "nothing", refresh[o].live) /\ UNCHANGED refused
       \/ EndsWithout(o, "failed", refresh[o].live) /\ UNCHANGED refused

\* The account left the list, or is not remembered and has no session.
Nothing(o) ==
    /\ refresh[o].pc = "nothing"
    /\ EndsWithout(o, "nothing", FALSE) /\ UNCHANGED refused

Refuses(o) == EndsWithout(o, "refused", TRUE) /\ refused' = refused \cup {o}

\* auth.refreshSession: the provider rotates the token, refuses or fails.  A
\* remembered account's new token is saved at once.
Provider(o) ==
    /\ refresh[o].pc = "provider"
    /\ IF refresh[o].live
       THEN \/ RefreshAt(o, IF o \in temporary THEN "device" ELSE "save")
            \/ Refuses(o)
            \/ EndsWithout(o, "failed", FALSE) /\ UNCHANGED refused
       ELSE EndsWithout(o, "nothing", FALSE) /\ UNCHANGED refused

\* saveSupabaseRefreshToken
Saved(o) ==
    /\ refresh[o].pc = "save"
    /\ \/ RefreshAt(o, "device")
       \/ EndsWithout(o, "failed", FALSE) /\ UNCHANGED refused

\* storeSession
Stores(o) ==
    /\ Ends(o, "session", "active", listed, TRUE)
    /\ token' = [token EXCEPT ![o] = "good"]
    /\ current' = FALSE /\ due' = TRUE
    /\ UNCHANGED <<listVars, mem, refused, events>>

\* restoreDeviceGrant: the cloud renews the grant, refuses, fails, or no longer
\* lets the account be here, which removes it.
Device(o) ==
    /\ refresh[o].pc = "device"
    /\ IF refresh[o].live /\ o \in listed
       THEN \/ Stores(o)
            \/ Refuses(o)
            \/ EndsWithout(o, "failed", FALSE) /\ UNCHANGED refused
            \/ /\ refresh' = [refresh EXCEPT ![o].pc = "removing"]
               /\ mem' = mem \ {o}
               /\ UNCHANGED <<listVars, token, state, rejected, current, hydration, shared,
                              reader, due, history, events>>
       ELSE EndsWithout(o, "nothing", FALSE) /\ UNCHANGED refused

\* removeAccount within a refresh, which then fails: with an error of the
\* session or, if the account was deleted, with another.
Removed(o) ==
    /\ refresh[o].pc = "removing"
    /\ listed' = listed \ {o} /\ active' = IF active = o THEN Local ELSE active
    /\ token' = [token EXCEPT ![o] = "none"]
    /\ current' = FALSE /\ due' = TRUE
    /\ \E result \in {"refused", "failed"} :
         /\ Ends(o, result, "session_expired", listed \ {o}, FALSE)
         /\ mem' = IF result = "refused" THEN mem \ {o} ELSE mem
    /\ UNCHANGED <<temporary, refused, events>>

RefreshSteps(o) ==
    Loaded(o) \/ Nothing(o) \/ Provider(o) \/ Saved(o) \/ Device(o) \/ Removed(o)

\* The refused token was deleted: the session is gone.
Gone(o) ==
    /\ token' = [token EXCEPT ![o] = "none"]
    /\ state' = [state EXCEPT ![o] = Unavailable(o, rejected)]

SharedDeleted(o) ==
    /\ shared[o] = "deleting"
    /\ Gone(o)
    /\ SharedAnswers(o)
    /\ UNCHANGED <<listVars, mem, rejected, current, hydration, refresh, due, history, events>>

HydrationDeleted ==
    /\ hydration.pc = "deleting"
    /\ Gone(hydration.at)
    /\ HydrationAnswers(hydration.at, FALSE)
    /\ UNCHANGED <<listVars, mem, rejected, current, refresh, shared, reader, due,
                   refused, events>>

-----------------------------------------------------------------------------
(* The hydration *)

\* queueTokenMigration, hydratePersistentTokens: at most one at a time.
Hydrates ==
    IF Pending /\ ~Hydrating
    THEN /\ hydration' = [pc |-> "next", left |-> {o \in Owners : Kept(o)}, at |-> Local]
         /\ inVain' = {}
    ELSE UNCHANGED <<hydration, inVain>>

\* Variant: an account is restored as for any other caller, which waits for the
\* hydration first.
Restores_Gated(o) ==
    /\ hydration.pc = "next" /\ o \in hydration.left
    /\ hydration' = [hydration EXCEPT !.left = @ \ {o}, !.at = o,
                        !.pc = IF o \in mem \/ o \notin listed THEN "next" ELSE "itself"]
    /\ UNCHANGED <<listVars, cacheVars, current, refresh, shared, reader, due, history, events>>

\* hydrateStoredSessions: an account with a session in memory is passed over.
Restores(o) ==
    /\ hydration.pc = "next" /\ o \in hydration.left
    /\ IF o \in mem
       THEN /\ hydration' = [hydration EXCEPT !.left = @ \ {o}]
            /\ UNCHANGED <<refresh, mem, inVain>>
       ELSE IF o \notin listed
       THEN /\ hydration' = [hydration EXCEPT !.left = @ \ {o}]
            /\ inVain' = inVain \cup {o}
            /\ UNCHANGED <<refresh, mem>>
       ELSE /\ hydration' = [hydration EXCEPT !.pc = "waits", !.left = @ \ {o}, !.at = o]
            /\ Begins(o)
            /\ UNCHANGED inVain
    /\ UNCHANGED <<listVars, token, state, rejected, current, shared, reader, due, refused, events>>

HydrationEnds ==
    /\ hydration.pc = "next" /\ hydration.left = {}
    /\ hydration' = NoHydration
    /\ current' = TRUE /\ due' = TRUE
    /\ reader' = [r \in Readers |->
                    IF reader[r].pc = "hydration" THEN [reader[r] EXCEPT !.pc = "woken"] ELSE reader[r]]
    /\ UNCHANGED <<listVars, cacheVars, refresh, shared, history, events>>

HydrationSteps == HydrationDeleted \/ (\E o \in Owners : Restores(o)) \/ HydrationEnds

-----------------------------------------------------------------------------
(* Readers *)

\* getValidAccessToken, once no hydration is pending.
Resolves(r, o) ==
    IF o \in rejected \/ token[o] = "good"
    THEN /\ state' = IF o \in rejected THEN state ELSE [state EXCEPT ![o] = "active"]
         /\ reader' = [reader EXCEPT ![r] = NoReader]
         /\ UNCHANGED <<shared, refresh, mem>>
    ELSE /\ shared' = IF shared[o] = "none" THEN [shared EXCEPT ![o] = "waits"] ELSE shared
         /\ IF shared[o] = "none" THEN Begins(o) ELSE UNCHANGED <<refresh, mem>>
         /\ reader' = [reader EXCEPT ![r] = [pc |-> "refresh", of |-> o]]
         /\ UNCHANGED state

\* getActiveCloudAuthState: a session that is not remembered is taken as it is,
\* a remembered one once the hydration is over.
Reads(r) ==
    /\ reader[r] = NoReader
    /\ Hydrates
    /\ IF active = Local \/ (active \in temporary /\ token[active] = "good")
       THEN UNCHANGED <<state, shared, refresh, mem, reader>>
       ELSE IF active \notin temporary /\ Pending
       THEN /\ reader' = [reader EXCEPT ![r] = [pc |-> "hydration", of |-> active]]
            /\ UNCHANGED <<state, shared, refresh, mem>>
       ELSE Resolves(r, active)
    /\ UNCHANGED <<listVars, token, rejected, current, refused>>

WokenUnchanged == <<listVars, token, rejected, current, hydration, due, history, events>>

\* getValidAccessToken after the hydration: what it could not restore is not
\* asked for again.
Woken(r) ==
    /\ reader[r].pc = "woken"
    /\ IF reader[r].of \notin listed \/ state[reader[r].of] \notin {"none", "active"}
       THEN reader' = [reader EXCEPT ![r] = NoReader] /\ UNCHANGED <<state, shared, refresh, mem>>
       ELSE Resolves(r, reader[r].of)
    /\ UNCHANGED WokenUnchanged

\* The sidebar reads whenever it is notified.
SidebarReads(r) == due /\ due' = FALSE /\ Reads(r) /\ UNCHANGED events

Event == events < MaxEvents /\ events' = events + 1

\* A page is opened, the window is focused, the check is tried again.
PageReads(r) == Event /\ Reads(r) /\ UNCHANGED due

\* forceRefreshActiveCloudSession, after the cloud refused a request.
Force(o) ==
    /\ Event /\ o \in listed /\ shared[o] = "none"
    /\ shared' = [shared EXCEPT ![o] = "waits"]
    /\ Begins(o)
    /\ Hydrates
    /\ UNCHANGED <<listVars, token, state, rejected, current, reader, due, refused>>

-----------------------------------------------------------------------------
(* The stored list and time *)

\* saveStoredAuthState
ListChanges == current' = FALSE /\ due' = TRUE

Supersedes(o) == refresh' = [refresh EXCEPT ![o].live = FALSE]

\* acceptAuthorizedSession
SignIn(o, keep) ==
    /\ Event /\ ListChanges
    /\ listed' = listed \cup {o} /\ active' = o
    /\ temporary' = IF keep THEN temporary \ {o} ELSE temporary \cup {o}
    /\ mem' = mem \cup {o} /\ Supersedes(o)
    /\ token' = [token EXCEPT ![o] = "good"]
    /\ state' = [state EXCEPT ![o] = "active"]
    /\ rejected' = rejected \ {o} /\ refused' = refused \ {o} /\ inVain' = inVain \ {o}
    /\ UNCHANGED <<hydration, shared, reader>>

\* signOut, removeAccount
Remove(o) ==
    /\ Event /\ ListChanges
    /\ o \in listed
    /\ listed' = listed \ {o} /\ active' = IF active = o THEN Local ELSE active
    /\ mem' = mem \ {o} /\ Supersedes(o)
    /\ token' = [token EXCEPT ![o] = "none"]
    /\ UNCHANGED <<temporary, state, rejected, hydration, shared, reader, history>>

\* switchActiveOwner
Switch(o) ==
    /\ Event /\ ListChanges
    /\ o # active /\ active' = o
    /\ UNCHANGED <<listed, temporary, cacheVars, hydration, refresh, shared, reader, history>>

\* The access token comes near its expiry, or passes it.
Expire(o) ==
    /\ Event
    /\ \/ token[o] = "good" /\ token' = [token EXCEPT ![o] = "late"]
       \/ Usable(o) /\ token' = [token EXCEPT ![o] = "old"]
    /\ UNCHANGED <<listVars, mem, state, rejected, current, hydration, refresh, shared,
                   reader, due, history>>

\* The window was loaded: no session is in memory, but the access tokens outlive
\* a reload (hydrateRuntimeTokenCache).  Any number of the events is still to come.
Init ==
    /\ listed \in SUBSET Owners /\ temporary \in SUBSET listed
    /\ active \in listed \cup {Local}
    /\ token \in [Owners -> {"none", "good", "late", "old"}]
    /\ \A o \in Owners \ listed : token[o] = "none"
    /\ mem = {}
    /\ state = [o \in Owners |-> "none"] /\ rejected = {}
    /\ current = FALSE /\ hydration = NoHydration
    /\ refresh = [o \in Owners |-> NoRefresh]
    /\ shared = [o \in Owners |-> "none"]
    /\ reader = [r \in Readers |-> NoReader]
    /\ due = TRUE
    /\ refused = {} /\ inVain = {} /\ events \in 0 .. MaxEvents

\* What goes on by itself.
Progress ==
    \/ HydrationSteps
    \/ \E o \in Owners : RefreshSteps(o) \/ SharedDeleted(o)
    \/ \E r \in Readers : Woken(r) \/ SidebarReads(r)

Next ==
    \/ Progress
    \/ \E r \in Readers : PageReads(r)
    \/ \E o \in Owners :
         \/ Force(o) \/ Remove(o) \/ Expire(o)
         \/ \E keep \in BOOLEAN : SignIn(o, keep)
    \/ \E o \in listed \cup {Local} : Switch(o)

\* Every call ends, by an answer or by its limit of time.
Spec == Init /\ [][Next]_vars /\ WF_vars(Progress)

-----------------------------------------------------------------------------
(* Properties *)

\* What the readers are told of a remembered account is "session expired" only
\* if the provider or the cloud refused it since it signed in: no failure of the
\* store or of the network is made into one (recordDesktopSupabaseRefresh).
ExpiredWasRefused ==
    \A o \in Owners : Kept(o) /\ state[o] = "session_expired" => o \in refused

\* A reader that waited for the hydration begins no second refresh of an account
\* it could not restore (cloudAuth.ts, getValidAccessToken).
WokenAskNoMore ==
    [][\A r \in Readers :
         reader[r].pc = "woken" /\ reader'[r].pc # "woken" /\ reader[r].of \in inVain
         => refresh' = refresh]_vars

\* Nothing is under way.
Quiet ==
    /\ ~due /\ ~Hydrating
    /\ \A o \in Owners : refresh[o] = NoRefresh /\ shared[o] = "none"
    /\ \A r \in Readers : reader[r] = NoReader

\* The hydration, the refreshes and the readers wait for one another and notify
\* one another; once nothing new happens they come to rest.
Settles == <>[]Quiet
=============================================================================
