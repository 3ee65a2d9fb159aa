---------------------------- MODULE AccountLease ----------------------------
(***************************************************************************)
(* Whose data the phone works on (MobileAccountProvider.tsx).  The account *)
(* in use may change at any moment; the provider finds out, over several   *)
(* calls, whether the new one may be used on this device, and publishes a  *)
(* financial context: an owner, and a question, isCurrent, that everything *)
(* holding the context asks before it shows or writes anything.  A context *)
(* stays current while the lease it was published under is in force; the   *)
(* lease is ended as soon as the account is seen to have changed.          *)
(*                                                                         *)
(* What is done under a context (useMobileFinance.ts, the analysis pages   *)
(* and the repository of movements) takes several calls as well, and asks  *)
(* again between them.                                                     *)
(*                                                                         *)
(* A lease is an owner and a generation that only grows: here a context    *)
(* says whether it is of the generation in force (fresh).                  *)
(***************************************************************************)
EXTENDS Naturals, FiniteSets

CONSTANTS
  Owners,     \* the accounts of the device, Supabase's and remembered
  MaxTasks,   \* tasks under way at once (bound)
  Local, Unresolved, None

VARIABLES
  listed,     \* getStoredAccounts()
  active,     \* getActiveAccount(), or Local
  granted,    \* hasCachedDeviceGrant
  tokens,     \* secure storage: the accounts with a refresh token
  lease,      \* lease.current.ownerId
  context,    \* financialContext
  ready,      \* financialReady: the pages are mounted
  failed,     \* error # ""
  run,        \* the last refresh, while it is under way; older ones do nothing
  removing,   \* removeAccount under way, begun by a refresh
  tasks       \* what the pages show or save, under way

vars == <<listed, active, granted, tokens, lease, context, ready, failed, run,
          removing, tasks>>
deviceVars == <<listed, active, granted, tokens>>
published == <<lease, context, ready, failed>>

-----------------------------------------------------------------------------
(* The lease and its contexts. *)

\* isCurrent
IsCurrent(c) ==
  /\ c.fresh /\ lease = c.owner
  /\ IF c.owner = Local THEN active = c.account ELSE active = c.owner /\ c.owner \in granted

Stale(c) == [c EXCEPT !.fresh = FALSE]

\* The tasks after a step: their contexts are of an older generation, or not;
\* they began before a change of account, or not (moved, a history variable).
Tasks(generation, change) ==
  tasks' = {[t EXCEPT !.context = IF generation THEN Stale(@) ELSE @,
                      !.moved = (@ \/ (change /\ t.at # "done"))] : t \in tasks}

\* publish: a new generation only for another owner.
Publish(o) ==
  /\ lease' = o
  /\ context' = [owner |-> o, account |-> active, fresh |-> TRUE]
  /\ ready' = TRUE
  /\ Tasks(o # lease, FALSE)

\* What a refresh of account o does before it waits for anything: without an
\* account the local data are published; for another account than that of the
\* lease, every editor of the former is given up.
Leases(o) ==
  IF o = Local
  THEN /\ lease' = Local /\ ready' = TRUE /\ failed' = FALSE
       /\ context' = [owner |-> Local, account |-> Local, fresh |-> TRUE]
       /\ Tasks(lease # Local, o # active)
  ELSE IF lease = o
  THEN UNCHANGED published /\ Tasks(FALSE, o # active)
  ELSE /\ lease' = Unresolved /\ ready' = FALSE
       /\ context' = Stale(context)
       /\ UNCHANGED failed
       /\ Tasks(TRUE, o # active)

\* refresh, of account o, the one in use from now on.  A cached grant lets it
\* look for the stored token first.
Refresh(o) ==
  /\ active' = o
  /\ Leases(o)
  /\ run' = IF o = Local THEN None
            ELSE [account |-> o, at |-> IF o \in granted' THEN "stored" ELSE "session"]

-----------------------------------------------------------------------------
(* The device. *)

\* ACCOUNT_SESSION_CHANGED_EVENT for any other reason, or "Reintentar".
Again ==
  /\ UNCHANGED <<listed, granted, tokens, removing>>
  /\ Refresh(active)

\* Another account, or none: OWNER_CHANGED_EVENT.
Switch(o) ==
  /\ o # active
  /\ UNCHANGED <<listed, granted, tokens, removing>>
  /\ Refresh(o)

\* A sign-in ends, with its token and its grant stored.
SignIn(o) ==
  /\ listed' = listed \cup {o}
  /\ tokens' = tokens \cup {o}
  /\ granted' = granted \cup {o}
  /\ UNCHANGED removing
  /\ Refresh(o)

\* A token is gone from the secure storage, or a grant is withdrawn.
Loses(o) ==
  /\ \/ o \in tokens /\ tokens' = tokens \ {o} /\ UNCHANGED granted
     \/ o \in granted /\ granted' = granted \ {o} /\ UNCHANGED tokens
  /\ UNCHANGED <<listed, active, published, run, removing, tasks>>

-----------------------------------------------------------------------------
(* The refresh. *)

At(place) == run # None /\ run.at = place

Goes(place) == run' = [run EXCEPT !.at = place]

\* The stored token was read: with it the account's data open without network.
Stored ==
  /\ At("stored")
  /\ IF run.account \in tokens
     THEN Publish(run.account) /\ UNCHANGED failed
     ELSE UNCHANGED <<published, tasks>>
  /\ Goes("session")
  /\ UNCHANGED <<deviceVars, removing>>

\* getSession, refreshSession: a session, published if the device has its grant.
Restored ==
  /\ At("session") /\ run.account \in tokens
  /\ Publish(IF run.account \in granted THEN run.account ELSE Local)
  /\ failed' = FALSE /\ run' = None
  /\ UNCHANGED <<deviceVars, removing>>

\* Variant: the account is removed without asking the storage.
NotRestored_Unconfirmed ==
  /\ At("session")
  /\ Goes("absent")
  /\ UNCHANGED <<deviceVars, published, removing, tasks>>

\* No session: whether the token is really gone is asked of the storage.
NotRestored ==
  /\ At("session")
  /\ Goes("confirm")
  /\ UNCHANGED <<deviceVars, published, removing, tasks>>

\* Without the account's grant the local data are published, otherwise what was.
LeavesWithError ==
  /\ IF run.account \in granted THEN UNCHANGED <<lease, context, ready, tasks>> ELSE Publish(Local)
  /\ failed' = TRUE /\ run' = None
  /\ UNCHANGED <<deviceVars, removing>>

\* The token is there: the session is to be tried again.
Kept == At("confirm") /\ run.account \in tokens /\ LeavesWithError

Absent ==
  /\ At("confirm") /\ run.account \notin tokens
  /\ Goes("absent")
  /\ UNCHANGED <<deviceVars, published, removing, tasks>>

\* The absence was confirmed and no other refresh has begun: removeAccount.
Removes ==
  /\ At("absent")
  /\ removing' = removing \cup {run.account}
  /\ Goes("removing")
  /\ UNCHANGED <<deviceVars, published, tasks>>

\* It ends, and tells of it as any change of the accounts.
Removed(o) ==
  /\ o \in removing
  /\ removing' = removing \ {o}
  /\ listed' = listed \ {o} /\ tokens' = tokens \ {o} /\ granted' = granted \ {o}
  /\ Refresh(IF active = o THEN Local ELSE active)

\* Or fails: the refresh that began it, if it is still the last, says so.
NotRemoved(o) ==
  /\ o \in removing
  /\ removing' = removing \ {o}
  /\ IF At("removing")
     THEN /\ IF o \in granted THEN UNCHANGED <<lease, context, ready, tasks>> ELSE Publish(Local)
          /\ failed' = TRUE /\ run' = None
     ELSE UNCHANGED <<published, run, tasks>>
  /\ UNCHANGED deviceVars

\* A call fails: the network or the storage, or the server rejects the session,
\* which ends the use of the account's data.
Fails ==
  /\ run # None /\ run.at \in {"stored", "session", "confirm"}
  /\ LeavesWithError

Rejected ==
  /\ At("session")
  /\ Publish(Local)
  /\ failed' = TRUE /\ run' = None
  /\ UNCHANGED <<deviceVars, removing>>

-----------------------------------------------------------------------------
(* The pages. *)

\* A page loads its rows (an editor does nothing before it saves).
Opens(kind) ==
  /\ ready /\ Cardinality(tasks) < MaxTasks
  /\ tasks' = tasks \cup {[kind |-> kind, context |-> context, moved |-> FALSE,
                           at |-> IF kind = "rows" THEN "begun" ELSE "open"]}
  /\ UNCHANGED <<deviceVars, published, run, removing>>

TaskGoes(t, next) ==
  /\ tasks' = (tasks \ {t}) \cup next
  /\ UNCHANGED <<deviceVars, published, run, removing>>

NextPlace == [open |-> "begun", begun |-> "checked", checked |-> "done"]

\* mutate; then, with the repository, its check; then, with the category read,
\* the check just before the write - or the rows are shown.
Advances(t) ==
  /\ t.at # "done" /\ IsCurrent(t.context)
  /\ TaskGoes(t, {[t EXCEPT !.at = NextPlace[@]]})

\* A check fails, a call fails, or the page is left; or it is over.
Finishes(t) == TaskGoes(t, {})

-----------------------------------------------------------------------------
Init ==
  /\ listed \in SUBSET Owners /\ active \in listed \cup {Local}
  /\ granted \in SUBSET listed /\ tokens \in SUBSET listed
  /\ lease = (IF active = Local THEN Local ELSE Unresolved)
  /\ context = [owner |-> Local, account |-> Local, fresh |-> active = Local]
  /\ ready = (active = Local) /\ failed = FALSE
  /\ run = (IF active = Local THEN None
            ELSE [account |-> active, at |-> IF active \in granted THEN "stored" ELSE "session"])
  /\ removing = {} /\ tasks = {}

Next ==
  \/ Again
  \/ \E o \in listed \cup {Local} : Switch(o)
  \/ \E o \in Owners : SignIn(o) \/ Loses(o) \/ Removed(o) \/ NotRemoved(o)
  \/ Stored \/ Restored \/ NotRestored \/ Kept \/ Absent \/ Removes \/ Fails \/ Rejected
  \/ \E kind \in {"rows", "change"} : Opens(kind)
  \/ \E t \in tasks : Advances(t) \/ Finishes(t)

Spec == Init /\ [][Next]_vars

-----------------------------------------------------------------------------
(* Properties. *)

\* Nothing is written, and no rows are shown, for an editor or a page that was
\* opened before the account last changed, also when the user came back to it.
DoneUnderOneAccount == \A t \in tasks : t.at = "done" => ~t.moved

\* The phone is not left preparing the data with nothing under way and no error
\* to try again from.
NotLeftWaiting == run = None => ready \/ failed

\* An account is removed only while its token is gone from the storage.
RemovesTheAbsent == \A o \in Owners : o \in removing' \ removing => o \notin tokens

\* The data worked on are of the account in use, an account is not lost for a
\* failed call, and the phone recovers its data (MobileAccountProvider.tsx).
LeaseIsKept == [][DoneUnderOneAccount' /\ NotLeftWaiting' /\ RemovesTheAbsent]_vars
=============================================================================
