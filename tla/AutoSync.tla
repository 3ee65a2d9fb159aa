------------------------------ MODULE AutoSync ------------------------------
(***************************************************************************)
(* When the desktop window synchronises by itself: the effect of           *)
(* components/sync/AutoSyncProvider.tsx together with the entry and the    *)
(* exit of runSyncWithReason in services/cloudSync.ts.                     *)
(*                                                                         *)
(* JavaScript runs one callback at a time, so a step is what happens       *)
(* between two awaits.  Several calls of executeSync can be suspended at   *)
(* once (the timer, the startup timer and a drained reason each start      *)
(* one), and the Account screen can start a manual run beside them.        *)
(*                                                                         *)
(* Delays are not measured: an armed timer may fire at any moment.  One    *)
(* account signs in and out; the phases of a run between its first and its *)
(* last request are DesktopSync's subject, here a run reads the pending    *)
(* changes, then succeeds or fails.                                        *)
(***************************************************************************)
EXTENDS Naturals, FiniteSets

CONSTANTS
  Calls,        \* calls of executeSync that can be suspended at once (bound)
  Manual,       \* the run started from the Account screen
  None,         \* no reason: a timer that is not armed
  MaxChanges    \* local changes the user makes (bound)

ASSUME MaxChangesAssumption == MaxChanges \in Nat
ASSUME ManualAssumption == Manual \notin Calls

Reasons == {"app_start", "data_change", "interval"}

Runs == Calls \union {Manual}

VARIABLES
  owner,         \* an account is selected (getActiveOwnerId() is not "local")
  enabled,       \* the user turned automatic synchronisation on for it
  timer,         \* timerRef: the reason it was armed with, or None
  startupTimer,  \* startupTimerRef is armed
  started,       \* the account is in startupSyncedOwners
  pendingAfter,  \* pendingAfterCurrentRef
  backoff,       \* less than AUTO_SYNC_ERROR_RETRY_MS since lastErrorAt
  call,          \* each suspended call: where it is and what it was called with
  inFlight,      \* syncInFlight of cloudSync.ts
  changes,       \* how many local changes there have been
  sent,          \* how many of them each run read from /sync/pending
  synced         \* how many of them are in the cloud

accountVars == <<owner, enabled>>
providerVars == <<timer, startupTimer, started, pendingAfter, backoff>>
runVars == <<call, inFlight, changes, sent, synced>>
vars == <<accountVars, providerVars, runVars>>

Places == {"idle", "session", "token", "reading", "sending"}

Idle == [pc |-> "idle", reason |-> None, starter |-> FALSE]

Init ==
  /\ owner \in BOOLEAN
  /\ enabled = FALSE
  /\ timer = None
  /\ startupTimer = owner
  /\ started = FALSE
  /\ pendingAfter = None
  /\ backoff = FALSE
  /\ call = [r \in Runs |-> Idle]
  /\ inFlight = FALSE
  /\ changes = 0
  /\ sent = [r \in Runs |-> 0]
  /\ synced = 0

-----------------------------------------------------------------------------
(* Arming the timers *)

\* isAutoSyncEnabled: the preference is kept per account.
AutoSyncEnabled == owner /\ enabled

\* scheduleSync without force: what timerRef becomes.  The pending timer is
\* cleared first, even when nothing replaces it.
ScheduleSync(reason) == timer' = IF AutoSyncEnabled THEN reason ELSE None

\* A local change, announced by notifyDataChanged.
Edit ==
  /\ changes < MaxChanges
  /\ changes' = changes + 1
  /\ ScheduleSync("data_change")
  /\ UNCHANGED <<accountVars, startupTimer, started, pendingAfter,
                 backoff, call, inFlight, sent, synced>>

\* The interval elapses, or the window gets the focus more than a minute after
\* the last attempt: nothing tells the two reasons apart.
IntervalTick ==
  /\ ScheduleSync("interval")
  /\ UNCHANGED <<accountVars, startupTimer, started, pendingAfter,
                 backoff, runVars>>

\* Turning the preference on counts as a change.
SetEnabled ==
  /\ owner
  /\ enabled' = ~enabled
  /\ timer' = IF enabled' THEN "data_change" ELSE timer
  /\ UNCHANGED <<owner, startupTimer, started,
                 pendingAfter, backoff, runVars>>

-----------------------------------------------------------------------------
(* The account.  Whether a token can be had for it is not a state but an answer:
   the stored one may have expired, the service that renews it may not answer. *)

\* Signing in or out is announced by ACCOUNT_SESSION_CHANGED_EVENT:
\* onSessionChanged forgets what was planned and schedules a start round for
\* the account that is active now.  The sign-out of the Account screen also
\* turns the preference off; an account that is only switched away keeps it.
SessionChanged ==
  /\ owner' = ~owner
  /\ \/ UNCHANGED enabled
     \/ owner /\ enabled' = FALSE
  /\ timer' = None
  /\ startupTimer' = owner'
  /\ started' = (started /\ ~owner')
  /\ pendingAfter' = None
  /\ backoff' = FALSE
  /\ UNCHANGED runVars

-----------------------------------------------------------------------------
(* executeSync *)

\* Every caller passes force for "app_start" and for no other reason (the
\* close round is AppClose's).
Forced(reason) == reason = "app_start"

\* Up to its first await: without force it is refused when the preference is off.
Entered(reason, starter) ==
  IF Forced(reason) \/ AutoSyncEnabled
    THEN [pc |-> "session", reason |-> reason, starter |-> starter]
    ELSE Idle

\* The callback of timerRef.
TimerFires ==
  \E c \in Calls :
    /\ timer # None
    /\ call[c].pc = "idle"
    /\ timer' = None
    /\ call' = [call EXCEPT ![c] = Entered(timer, FALSE)]
    /\ UNCHANGED <<accountVars, startupTimer, started, pendingAfter,
                   backoff, inFlight, changes, sent, synced>>

\* The callback of startupTimerRef calls executeSync("app_start", true) unless
\* the account has had its start round.  (While the tokens are still being read
\* from the secure store it rearms the timer instead, once: a longer delay.)
StartupFires ==
  \E c \in Calls :
    /\ startupTimer
    /\ call[c].pc = "idle"
    /\ startupTimer' = FALSE
    /\ call' = [call EXCEPT ![c] = IF started THEN Idle
                                   ELSE Entered("app_start", TRUE)]
    /\ UNCHANGED <<accountVars, timer, started, pendingAfter,
                   backoff, inFlight, changes, sent, synced>>

\* Variant: a start round that fails is not planned again.
Settle_Once(c, outcome) ==
  IF ~call[c].starter
    THEN UNCHANGED <<startupTimer, started>>
    ELSE /\ started' = (started \/ outcome # "failed")
         /\ UNCHANGED startupTimer

\* What the caller of a start round does with its outcome.
Settle(c, outcome) ==
  IF ~call[c].starter
    THEN UNCHANGED <<startupTimer, started>>
    ELSE /\ started' = (started \/ outcome # "failed")
         /\ startupTimer' = (startupTimer \/ (outcome = "failed" /\ owner /\ ~started))

\* After the session was awaited: the early returns of executeSync.  They do not
\* drain pendingAfter.
Leave(c, outcome) ==
  /\ Settle(c, outcome)
  /\ call' = [call EXCEPT ![c] = Idle]
  /\ UNCHANGED <<accountVars, timer, backoff, inFlight, changes, sent, synced>>

NoSession(c) ==
  /\ call[c].pc = "session"
  /\ Leave(c, "skipped_no_session")
  /\ UNCHANGED pendingAfter

Busy(c) ==
  /\ call[c].pc = "session" /\ owner /\ inFlight
  /\ pendingAfter' = call[c].reason
  /\ Leave(c, "failed")

Suspended(c) == backoff /\ ~Forced(call[c].reason) /\ call[c].reason # "data_change"

BackedOff(c) ==
  /\ call[c].pc = "session" /\ owner /\ ~inFlight /\ Suspended(c)
  /\ Leave(c, "failed")
  /\ UNCHANGED pendingAfter

\* runAutoSync is called, and awaits a token.  From here on the reason is only
\* written to the log.
Proceed(c) ==
  /\ call[c].pc = "session" /\ owner /\ ~inFlight /\ ~Suspended(c)
  /\ call' = [call EXCEPT ![c].pc = "token", ![c].reason = None]
  /\ UNCHANGED <<accountVars, providerVars, inFlight, changes, sent, synced>>

-----------------------------------------------------------------------------
(* runSyncWithReason *)

\* The Account screen calls runManualSync.
ManualStart ==
  /\ owner
  /\ call[Manual].pc = "idle"
  /\ call' = [call EXCEPT ![Manual].pc = "token"]
  /\ UNCHANGED <<accountVars, providerVars, inFlight, changes, sent, synced>>

\* Variant: the flag is only tested by executeSync, before the token is awaited.
Acquire_Untested(r) ==
  /\ call[r].pc = "token" /\ owner
  /\ inFlight' = TRUE
  /\ call' = [call EXCEPT ![r].pc = "reading"]
  /\ UNCHANGED <<accountVars, providerVars, changes, sent, synced>>

\* The token has come; the flag is read and set without an await between.
Acquire(r) ==
  /\ call[r].pc = "token" /\ owner /\ ~inFlight
  /\ inFlight' = TRUE
  /\ call' = [call EXCEPT ![r].pc = "reading"]
  /\ UNCHANGED <<accountVars, providerVars, changes, sent, synced>>

\* The pending rows are read.
ReadPending(r) ==
  /\ call[r].pc = "reading"
  /\ sent' = [sent EXCEPT ![r] = changes]
  /\ call' = [call EXCEPT ![r].pc = "sending"]
  /\ UNCHANGED <<accountVars, providerVars, inFlight, changes, synced>>

\* The finally of executeSync: the reason that was refused meanwhile is tried
\* now.  A manual run has no such finally.
Drain(r) ==
  IF r = Manual
    THEN /\ call' = [call EXCEPT ![r] = Idle]
         /\ UNCHANGED pendingAfter
    ELSE /\ call' = [call EXCEPT ![r] =
                       IF pendingAfter = None THEN Idle
                       ELSE Entered(pendingAfter, FALSE)]
         /\ pendingAfter' = None

Succeed(r) ==
  /\ call[r].pc = "sending"
  /\ inFlight' = FALSE
  /\ synced' = IF sent[r] > synced THEN sent[r] ELSE synced
  /\ sent' = [sent EXCEPT ![r] = 0]
  /\ backoff' = (backoff /\ r = Manual)
  /\ Settle(r, "success")
  /\ Drain(r)
  /\ UNCHANGED <<accountVars, timer, changes>>

\* Variant: a run that fails leaves the flag set: no finally.
Fail_KeepsFlag(r) ==
  /\ call[r].pc \in {"reading", "sending"}
  /\ UNCHANGED inFlight
  /\ sent' = [sent EXCEPT ![r] = 0]
  /\ backoff' = (backoff \/ r # Manual)
  /\ \/ Settle(r, "failed")
     \/ Settle(r, "skipped_db_critical")
  /\ Drain(r)
  /\ UNCHANGED <<accountVars, timer, changes, synced>>

\* A run ends with an error.  A start round that failed because the local
\* database needs repair is not repeated.
Fail(r) ==
  /\ call[r].pc \in {"reading", "sending"}
  /\ inFlight' = FALSE
  /\ sent' = [sent EXCEPT ![r] = 0]
  /\ backoff' = (backoff \/ r # Manual)
  /\ \/ Settle(r, "failed")
     \/ Settle(r, "skipped_db_critical")
  /\ Drain(r)
  /\ UNCHANGED <<accountVars, timer, changes, synced>>

\* There is no token any more, or another run took the flag during the await:
\* an error like any other, but the flag is not this run's to release.
Refuse(r) ==
  /\ call[r].pc = "token"
  /\ backoff' = (backoff \/ r # Manual)
  /\ Settle(r, "failed")
  /\ Drain(r)
  /\ UNCHANGED <<accountVars, timer, inFlight, changes, sent, synced>>

\* Five minutes have passed since the last error.
BackoffEnds ==
  /\ backoff
  /\ backoff' = FALSE
  /\ UNCHANGED <<accountVars, timer, startupTimer, started,
                 pendingAfter, runVars>>

\* The steps of one suspended call.
Resume(r) ==
  \/ r # Manual /\ (NoSession(r) \/ Busy(r) \/ BackedOff(r) \/ Proceed(r))
  \/ Acquire(r) \/ Refuse(r) \/ ReadPending(r) \/ Succeed(r) \/ Fail(r)

Next ==
  \/ Edit \/ IntervalTick \/ SetEnabled
  \/ SessionChanged
  \/ TimerFires \/ StartupFires
  \/ ManualStart \/ BackoffEnds
  \/ \E r \in Runs : Resume(r)

\* Timers fire, promises settle and every request ends, with an answer or with
\* its own timeout (weak fairness); the token service, the sidecar and the cloud
\* do not fail for ever (strong fairness of the steps that need them).
Fairness ==
  /\ WF_vars(IntervalTick) /\ WF_vars(TimerFires)
  /\ WF_vars(StartupFires) /\ WF_vars(BackoffEnds)
  /\ \A r \in Runs : WF_vars(Resume(r))
  /\ SF_vars(\E c \in Calls : Proceed(c))
  /\ SF_vars(\E r \in Runs : Acquire(r))
  /\ SF_vars(\E r \in Runs : ReadPending(r))
  /\ SF_vars(\E r \in Runs : Succeed(r))

Spec == Init /\ [][Next]_vars /\ Fairness

-----------------------------------------------------------------------------
(* Properties *)

\* The shape of the state.
AutoSyncTypeOK ==
  /\ owner \in BOOLEAN /\ enabled \in BOOLEAN
  /\ timer \in Reasons \union {None}
  /\ startupTimer \in BOOLEAN /\ started \in BOOLEAN
  /\ pendingAfter \in Reasons \union {None}
  /\ backoff \in BOOLEAN
  /\ call \in [Runs -> [pc : Places, reason : Reasons \union {None},
                        starter : BOOLEAN]]
  /\ inFlight \in BOOLEAN
  /\ changes \in 0..MaxChanges
  /\ sent \in [Runs -> 0..MaxChanges]
  /\ synced \in 0..MaxChanges

InProgress(r) == call[r].pc \in {"reading", "sending"}

\* Two runs are never in progress together, however many calls of executeSync
\* are suspended and whatever the user starts beside them, and the flag the rest
\* of the window reads says whether one is (cloudSync.ts:1979-1998, 2153).
SingleFlight ==
  /\ \A r, q \in Runs : InProgress(r) /\ InProgress(q) => r = q
  /\ inFlight <=> \E r \in Runs : InProgress(r)

\* With an account and the preference on, no change waits for ever for the user
\* to ask, although refused reasons are dropped, timers replace each other and
\* errors suspend the automatic runs.
EditsReachCloud == []<>(owner /\ enabled => synced = changes)

\* With the preference off, and the user not synchronising by hand, only the
\* start round can exchange anything: an account has it sooner or later, because
\* a round that fails is planned again.  (One that finds another run going on is
\* repeated by it, which does not count as the start round but does the work.)
StartupSettles ==
  []<>(owner /\ ~enabled /\ call[Manual].pc = "idle"
         => started \/ synced = changes)

=============================================================================
