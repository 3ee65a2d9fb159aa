---------------------------- MODULE Entitlements ----------------------------
(***************************************************************************)
(* What the client believes each account has paid for                      *)
(* (frontend/services/entitlements.ts, signedEntitlements.ts).             *)
(*                                                                         *)
(* Several screens ask at once; each request takes a number, and only the  *)
(* newest of its account may write the cache.  The phone keeps the signed  *)
(* licence and believes it until it expires; the desktop keeps the plan.   *)
(***************************************************************************)
EXTENDS Naturals

CONSTANTS
    Accounts,     \* cloud accounts
    NoAccount,    \* the owner "local"
    Requests,     \* calls of loadEntitlements under way at once
    LicenceLife,  \* how long a signed licence is good (24 hours)
    MaxNow,       \* bound of the clock
    MaxAsked,     \* bound: calls of loadEntitlements
    MaxChanges    \* bound: sign-ins, switches, payments, deletions, restarts

VARIABLES
    mobile,       \* the runtime: signed licences, or plain answers
    now,
    active,       \* getActiveOwnerId
    signedIn,     \* accounts of the device
    plan,         \* the cloud: what each account has
    gone,         \* the cloud: deleted accounts
    cache,        \* entitlementsCache
    until,        \* signedExpiry
    stored,       \* localStorage: the licence, or the plan
    version,      \* entitlementsRequestVersion
    requests,     \* loadEntitlements: what each call awaits
    writer,       \* history: the number of the call that wrote cache
    forgotten,    \* history: accounts this device learnt are deleted
    licensed,     \* history: when the last premium licence given ends
    asked, changes

worldVars == <<active, signedIn, plan, gone>>
cacheVars == <<cache, until, stored, version, writer>>
historyVars == <<forgotten, licensed>>
vars == <<mobile, now, worldVars, cacheVars, requests, historyVars, asked, changes>>

Nothing == [plan |-> "none", ends |-> 0]
Free == [pc |-> "free", of |-> NoAccount, version |-> 0, answer |-> Nothing]

-----------------------------------------------------------------------------
(* The cache *)

\* getCachedEntitlements
Shown(o) ==
    CASE cache[o] # "none" /\ (mobile => until[o] > now) -> cache[o]
      [] stored[o] # Nothing /\ ~mobile /\ cache[o] = "none" -> stored[o].plan
      [] OTHER -> "free"

Writes(r, licence) ==
    /\ cache' = [cache EXCEPT ![r.of] = licence.plan]
    /\ until' = [until EXCEPT ![r.of] = licence.ends]
    /\ writer' = [writer EXCEPT ![r.of] = r.version]

Clears(o) ==
    /\ cache' = [cache EXCEPT ![o] = "none"]
    /\ until' = [until EXCEPT ![o] = 0]

\* forgetAccountEntitlements
Forget(o) ==
    /\ Clears(o)
    /\ version' = [version EXCEPT ![o] = @ + 1]
    /\ stored' = [stored EXCEPT ![o] = Nothing]
    /\ UNCHANGED writer

\* forgetDeletedAccount: local mode, no account, nothing remembered.
Leaves(o) ==
    /\ active' = IF active = o THEN NoAccount ELSE active
    /\ signedIn' = signedIn \ {o}
    /\ forgotten' = forgotten \cup {o}
    /\ Forget(o)

-----------------------------------------------------------------------------
(* loadEntitlements *)

\* Variant: any call of the active account may write.
Current_AnyCall(r) == active = r.of

\* isCurrent
Current(r) == active = r.of /\ version[r.of] = r.version

GoesOn(r) == IF Current(r) /\ r.of \in signedIn THEN [r EXCEPT !.pc = "session"] ELSE Free

Ask(i, o) ==
    /\ requests[i] = Free /\ asked < MaxAsked
    /\ asked' = asked + 1
    /\ version' = [version EXCEPT ![o] = @ + 1]
    /\ LET r == [pc |-> "saved", of |-> o, version |-> version[o] + 1, answer |-> stored[o]]
       IN requests' = [requests EXCEPT ![i] =
              IF mobile /\ stored[o] # Nothing THEN r
              ELSE IF active = o /\ o \in signedIn THEN [r EXCEPT !.pc = "session"]
              ELSE Free]
    /\ UNCHANGED <<mobile, now, worldVars, cache, until, stored, writer, historyVars, changes>>

\* The saved licence was verified, or found expired.
SavedVerified(i) ==
    LET r == requests[i] IN
    /\ r.pc = "saved"
    /\ IF ~Current(r) THEN UNCHANGED cacheVars
       ELSE /\ IF r.answer.ends > now THEN Writes(r, r.answer)
               ELSE Clears(r.of) /\ UNCHANGED writer
            /\ UNCHANGED <<stored, version>>
    /\ requests' = [requests EXCEPT ![i] = GoesOn(r)]
    /\ UNCHANGED <<mobile, now, worldVars, historyVars, asked, changes>>

\* getActiveCloudSessionAsync answered; the request is sent, or there is no session.
SessionCame(i) ==
    LET r == requests[i] IN
    /\ r.pc = "session"
    /\ requests' \in {[requests EXCEPT ![i] = Free]} \cup
           (IF Current(r) THEN {[requests EXCEPT ![i].pc = "sent"]} ELSE {})
    /\ UNCHANGED <<mobile, now, worldVars, cacheVars, historyVars, asked, changes>>

\* The cloud answers with a licence signed now.
CloudAnswers(i) ==
    LET r == requests[i]
        ends == IF mobile THEN now + LicenceLife ELSE 0 IN
    /\ r.pc = "sent"
    /\ IF r.of \in gone
       THEN /\ requests' = [requests EXCEPT ![i].pc = "closed"]
            /\ UNCHANGED licensed
       ELSE /\ requests' = [requests EXCEPT ![i].pc = "answer",
                   ![i].answer = [plan |-> plan[r.of], ends |-> ends]]
            /\ licensed' = IF plan[r.of] = "premium" THEN [licensed EXCEPT ![r.of] = ends]
                           ELSE licensed
    /\ UNCHANGED <<mobile, now, worldVars, cacheVars, forgotten, asked, changes>>

\* The answer is lost: what is cached is shown.
AnswerLost(i) ==
    /\ requests[i].pc \in {"sent", "answer"}
    /\ requests' = [requests EXCEPT ![i] = Free]
    /\ UNCHANGED <<mobile, now, worldVars, cacheVars, historyVars, asked, changes>>

\* The licence is verified and kept, if the call is still the newest.
AnswerCame(i) ==
    LET r == requests[i] IN
    /\ r.pc = "answer"
    /\ requests' = [requests EXCEPT ![i] = Free]
    /\ IF Current(r) /\ r.of \in signedIn /\ (mobile => r.answer.ends > now)
       THEN /\ Writes(r, r.answer)
            /\ stored' = [stored EXCEPT ![r.of] = r.answer]
            /\ UNCHANGED version
       ELSE UNCHANGED cacheVars
    /\ UNCHANGED <<mobile, now, worldVars, historyVars, asked, changes>>

\* HTTP 410: the account was deleted elsewhere.  The account is found by the
\* token of the request; if that one was replaced or dropped meanwhile, nothing
\* is learnt (handleDeletedAccountResponse).
ClosedCame(i) ==
    LET o == requests[i].of IN
    /\ requests[i].pc = "closed"
    /\ requests' = [requests EXCEPT ![i] = Free]
    /\ \/ o \in signedIn /\ Leaves(o)
       \/ UNCHANGED <<active, signedIn, forgotten, cacheVars>>
    /\ UNCHANGED <<mobile, now, plan, gone, licensed, asked, changes>>

-----------------------------------------------------------------------------
(* What happens around it *)

Change == changes < MaxChanges /\ changes' = changes + 1

SignIn(o) ==
    /\ Change
    /\ o \notin gone
    /\ signedIn' = signedIn \cup {o} /\ active' = o
    /\ UNCHANGED <<mobile, now, plan, gone, cacheVars, requests, historyVars, asked>>

SignOut(o) ==
    /\ Change
    /\ o \in signedIn
    /\ signedIn' = signedIn \ {o}
    /\ active' = IF active = o THEN NoAccount ELSE active
    /\ UNCHANGED <<mobile, now, plan, gone, cacheVars, requests, historyVars, asked>>

Pays(o) ==
    /\ Change
    /\ plan' = [plan EXCEPT ![o] = IF @ = "free" THEN "premium" ELSE "free"]
    /\ UNCHANGED <<mobile, now, active, signedIn, gone, cacheVars, requests, historyVars, asked>>

DeletedElsewhere(o) ==
    /\ Change
    /\ gone' = gone \cup {o}
    /\ UNCHANGED <<mobile, now, active, signedIn, plan, cacheVars, requests, historyVars, asked>>

DeletedHere(o) ==
    /\ Change
    /\ o \in signedIn \ gone
    /\ gone' = gone \cup {o}
    /\ Leaves(o)
    /\ UNCHANGED <<mobile, now, plan, requests, licensed, asked>>

Tick ==
    /\ now < MaxNow /\ now' = now + 1
    /\ UNCHANGED <<mobile, worldVars, cacheVars, requests, historyVars, asked, changes>>

\* The program ends: only localStorage stays.
Restart ==
    /\ Change
    /\ cache' = [o \in Accounts |-> "none"] /\ until' = [o \in Accounts |-> 0]
    /\ version' = [o \in Accounts |-> 0] /\ writer' = [o \in Accounts |-> 0]
    /\ requests' = [i \in Requests |-> Free]
    /\ UNCHANGED <<mobile, now, worldVars, stored, historyVars, asked>>

Init ==
    /\ mobile \in BOOLEAN
    /\ now = 0
    /\ signedIn \in SUBSET Accounts
    /\ active \in signedIn \cup {NoAccount}
    /\ plan = [o \in Accounts |-> "free"]
    /\ gone = {}
    /\ cache = [o \in Accounts |-> "none"] /\ until = [o \in Accounts |-> 0]
    /\ stored = [o \in Accounts |-> Nothing]
    /\ version = [o \in Accounts |-> 0] /\ writer = [o \in Accounts |-> 0]
    /\ requests = [i \in Requests |-> Free]
    /\ forgotten = {} /\ licensed = [o \in Accounts |-> 0]
    /\ asked = 0 /\ changes = 0

Next ==
    \/ \E i \in Requests :
         \/ \E o \in Accounts : Ask(i, o)
         \/ SavedVerified(i) \/ SessionCame(i) \/ CloudAnswers(i) \/ AnswerLost(i)
         \/ AnswerCame(i) \/ ClosedCame(i)
    \/ \E o \in Accounts :
         SignIn(o) \/ SignOut(o) \/ Pays(o) \/ DeletedElsewhere(o) \/ DeletedHere(o)
    \/ Tick \/ Restart

Spec == Init /\ [][Next]_vars

-----------------------------------------------------------------------------
(* Properties *)

\* The phone shows Premium only while a licence the cloud signed for that
\* account is good, however its answers, restarts and the clock interleave.
PremiumIsLicensed ==
    mobile => \A o \in Accounts : Shown(o) = "premium" => now < licensed[o]

\* Nothing is kept, or comes back, of an account this device learnt is deleted:
\* neither a late answer nor a restart shows its plan again.
DeletedIsForgotten ==
    \A o \in forgotten : cache[o] = "none" /\ stored[o] = Nothing

\* A plan is replaced only by the answer to a later request: an answer that
\* was overtaken changes nothing.
NewestAnswerStays ==
    [][\A o \in Accounts : writer'[o] >= writer[o] \/ version'[o] = 0]_vars
=============================================================================
