--------------------------- MODULE AutoSync_proofs --------------------------
(***************************************************************************)
(* For any number of suspended calls and of local changes: the state of    *)
(* AutoSync keeps its shape, and two runs are never in progress together.  *)
(*                                                                         *)
(* SingleFlight is inductive once the types are known: only Acquire begins *)
(* a run, under a flag that says there is none; only the run in progress   *)
(* can succeed or fail, and so release the flag.  That a call which        *)
(* finishes may begin again at once, with the reason kept in pendingAfter, *)
(* is harmless because it begins before its first await.                   *)
(***************************************************************************)
EXTENDS AutoSync, TLAPS

Record == [pc : Places, reason : Reasons \union {None}, starter : BOOLEAN]

\* The calls that do not hold the flag, idle ones included.
Waiting == {"idle", "session", "token"}

\* The record a call enters executeSync with is one, and holds no flag.
LEMMA EnteredIsWaiting ==
  ASSUME NEW reason \in Reasons \union {None}, NEW starter \in BOOLEAN
  PROVE  /\ Entered(reason, starter) \in Record
         /\ Entered(reason, starter).pc \in Waiting
         /\ Idle \in Record /\ Idle.pc \in Waiting
BY DEF Entered, Idle, Record, Waiting, Places

\* Drain leaves the call of r waiting, and the other calls alone.
LEMMA DrainReleases ==
  ASSUME AutoSyncTypeOK, NEW r \in Runs, Drain(r)
  PROVE  /\ call' \in [Runs -> Record]
         /\ call'[r].pc \in Waiting
         /\ \A q \in Runs \ {r} : call'[q] = call[q]
         /\ pendingAfter' \in Reasons \union {None}
<1> USE DEF Record
<1>0. /\ call \in [Runs -> Record]
      /\ pendingAfter \in Reasons \union {None}
  BY DEF AutoSyncTypeOK
<1>1. CASE r = Manual
  BY <1>0, <1>1, EnteredIsWaiting DEF Drain
<1>2. CASE r # Manual
  <2> DEFINE next == IF pendingAfter = None THEN Idle
                     ELSE Entered(pendingAfter, FALSE)
  <2>1. next \in Record /\ next.pc \in Waiting
    BY <1>0, EnteredIsWaiting
  <2>2. call' = [call EXCEPT ![r] = next] /\ pendingAfter' = None
    BY <1>2 DEF Drain
  <2> QED  BY <1>0, <2>1, <2>2
<1> QED  BY <1>1, <1>2

\* What a start round leaves behind has its types.
LEMMA SettleKeepsTypes ==
  ASSUME AutoSyncTypeOK, NEW r \in Runs, NEW outcome, Settle(r, outcome)
  PROVE  startupTimer' \in BOOLEAN /\ started' \in BOOLEAN
BY DEF Settle, AutoSyncTypeOK

\* No call is suspended at first, and no run is in progress.
LEMMA InitEstablishes == Init => AutoSyncTypeOK /\ SingleFlight
<1> SUFFICES ASSUME Init PROVE AutoSyncTypeOK /\ SingleFlight
  OBVIOUS
<1>0. /\ 0 \in 0..MaxChanges
      /\ Idle \in Record
  BY MaxChangesAssumption DEF Idle, Record, Places
<1>1. AutoSyncTypeOK
  <2>1. /\ owner \in BOOLEAN /\ enabled \in BOOLEAN
        /\ startupTimer \in BOOLEAN /\ started \in BOOLEAN
        /\ backoff \in BOOLEAN /\ inFlight \in BOOLEAN
    BY Zenon DEF Init
  <2> QED  BY <1>0, <2>1 DEF Init, AutoSyncTypeOK, Record
<1>2. SingleFlight
  BY DEF Init, SingleFlight, InProgress, Idle
<1> QED  BY <1>1, <1>2

\* Ending a run keeps both: the one that held the flag gives it up.
LEMMA EndReleases ==
  ASSUME SingleFlight, NEW r \in Runs, InProgress(r),
         call'[r].pc \in Waiting,
         \A q \in Runs \ {r} : call'[q] = call[q],
         inFlight' = FALSE
  PROVE  SingleFlight'
BY DEF SingleFlight, InProgress, Waiting

\* A step that begins and ends no run keeps SingleFlight.
LEMMA NoRunChanges ==
  ASSUME SingleFlight, inFlight' = inFlight,
         \A q \in Runs : InProgress(q)' <=> InProgress(q)
  PROVE  SingleFlight'
BY DEF SingleFlight

LEMMA StepPreserves ==
  AutoSyncTypeOK /\ SingleFlight /\ [Next]_vars => (AutoSyncTypeOK /\ SingleFlight)'
<1> SUFFICES ASSUME AutoSyncTypeOK, SingleFlight, [Next]_vars
             PROVE  (AutoSyncTypeOK /\ SingleFlight)'
  OBVIOUS
<1> USE DEF accountVars, providerVars, runVars
<1>0. call \in [Runs -> Record]
  BY DEF AutoSyncTypeOK, Record
<1>1. CASE Edit
  <2>1. AutoSyncTypeOK'
    BY <1>1, MaxChangesAssumption
       DEF Edit, ScheduleSync, AutoSyncTypeOK, Reasons
  <2>2. SingleFlight'
    BY <1>1, NoRunChanges DEF Edit, InProgress
  <2> QED  BY <2>1, <2>2
<1>2. CASE IntervalTick
  <2>1. AutoSyncTypeOK'
    BY <1>2 DEF IntervalTick, ScheduleSync, AutoSyncTypeOK, Reasons
  <2>2. SingleFlight'
    BY <1>2, NoRunChanges DEF IntervalTick, InProgress
  <2> QED  BY <2>1, <2>2
<1>3. CASE SetEnabled
  <2>1. AutoSyncTypeOK'
    BY <1>3 DEF SetEnabled, AutoSyncTypeOK, Reasons
  <2>2. SingleFlight'
    BY <1>3, NoRunChanges DEF SetEnabled, InProgress
  <2> QED  BY <2>1, <2>2
<1>4. CASE SessionChanged
  <2>1. AutoSyncTypeOK'
    BY <1>4 DEF SessionChanged, AutoSyncTypeOK
  <2>2. SingleFlight'
    BY <1>4, NoRunChanges DEF SessionChanged, InProgress
  <2> QED  BY <2>1, <2>2
<1>5. CASE TimerFires
  <2>1. PICK c \in Calls :
          /\ call[c].pc = "idle"
          /\ timer' = None
          /\ call' = [call EXCEPT ![c] = Entered(timer, FALSE)]
    BY <1>5 DEF TimerFires
  <2>2. UNCHANGED <<accountVars, startupTimer, started, pendingAfter,
                    backoff, inFlight, changes, sent, synced>>
    BY <1>5 DEF TimerFires
  <2>3. /\ Entered(timer, FALSE) \in Record
        /\ Entered(timer, FALSE).pc \in Waiting
    BY EnteredIsWaiting DEF AutoSyncTypeOK
  <2>4. c \in Runs
    BY DEF Runs
  <2>5. AutoSyncTypeOK'
    BY <1>0, <2>1, <2>2, <2>3, <2>4 DEF AutoSyncTypeOK, Record
  <2>6. SingleFlight'
    BY <1>0, <2>1, <2>2, <2>3, <2>4, NoRunChanges DEF InProgress, Waiting
  <2> QED  BY <2>5, <2>6
<1>6. CASE StartupFires
  <2> DEFINE next == IF started THEN Idle ELSE Entered("app_start", TRUE)
  <2>1. PICK c \in Calls :
          /\ call[c].pc = "idle"
          /\ startupTimer' = FALSE
          /\ call' = [call EXCEPT ![c] = next]
    BY <1>6 DEF StartupFires
  <2>2. UNCHANGED <<accountVars, timer, started, pendingAfter,
                    backoff, inFlight, changes, sent, synced>>
    BY <1>6 DEF StartupFires
  <2>3. next \in Record /\ next.pc \in Waiting
    BY EnteredIsWaiting DEF Reasons
  <2>4. c \in Runs
    BY DEF Runs
  <2>5. AutoSyncTypeOK'
    BY <1>0, <2>1, <2>2, <2>3, <2>4 DEF AutoSyncTypeOK, Record
  <2>6. SingleFlight'
    BY <1>0, <2>1, <2>2, <2>3, <2>4, NoRunChanges DEF InProgress, Waiting
  <2> QED  BY <2>5, <2>6
<1>7. CASE ManualStart
  <2>1. /\ Manual \in Runs
        /\ call[Manual].pc = "idle"
        /\ call' = [call EXCEPT ![Manual].pc = "token"]
        /\ UNCHANGED <<accountVars, providerVars, inFlight, changes, sent, synced>>
    BY <1>7 DEF ManualStart, Runs
  <2>2. AutoSyncTypeOK'
    BY <2>1 DEF AutoSyncTypeOK, Places
  <2>3. SingleFlight'
    BY <1>0, <2>1, NoRunChanges DEF InProgress, Record
  <2> QED  BY <2>2, <2>3
<1>8. CASE BackoffEnds
  <2>1. AutoSyncTypeOK'
    BY <1>8 DEF BackoffEnds, AutoSyncTypeOK
  <2>2. SingleFlight'
    BY <1>8, NoRunChanges DEF BackoffEnds, InProgress
  <2> QED  BY <2>1, <2>2
<1>9. ASSUME NEW r \in Runs, Resume(r)
      PROVE  (AutoSyncTypeOK /\ SingleFlight)'
  <2>1. ASSUME NEW outcome, Leave(r, outcome), call[r].pc = "session",
               pendingAfter' \in Reasons \union {None}
        PROVE  (AutoSyncTypeOK /\ SingleFlight)'
    <3>1. /\ call' = [call EXCEPT ![r] = Idle]
          /\ UNCHANGED <<accountVars, timer, backoff, inFlight, changes, sent, synced>>
      BY <2>1 DEF Leave
    <3>2. startupTimer' \in BOOLEAN /\ started' \in BOOLEAN
      BY <2>1, SettleKeepsTypes DEF Leave
    <3>3. AutoSyncTypeOK'
      BY <1>0, <2>1, <3>1, <3>2 DEF AutoSyncTypeOK, Idle, Places
    <3>4. SingleFlight'
      BY <1>0, <2>1, <3>1, NoRunChanges DEF InProgress, Idle
    <3> QED  BY <3>3, <3>4
  <2>2. CASE NoSession(r)
    BY <2>1, <2>2 DEF NoSession, AutoSyncTypeOK
  <2>3. CASE Busy(r)
    BY <2>1, <2>3 DEF Busy, AutoSyncTypeOK
  <2>4. CASE BackedOff(r)
    BY <2>1, <2>4 DEF BackedOff, AutoSyncTypeOK
  <2>5. CASE Proceed(r)
    <3>1. AutoSyncTypeOK'
      BY <2>5 DEF Proceed, AutoSyncTypeOK, Places
    <3>2. SingleFlight'
      BY <1>0, <2>5, NoRunChanges DEF Proceed, InProgress, Record
    <3> QED  BY <3>1, <3>2
  <2>6. CASE Acquire(r)
    <3>1. AutoSyncTypeOK'
      BY <2>6 DEF Acquire, AutoSyncTypeOK, Places
    <3>2. /\ inFlight' = TRUE
          /\ call'[r].pc = "reading"
          /\ \A q \in Runs \ {r} : call'[q] = call[q]
      BY <1>0, <2>6 DEF Acquire, Record
    <3>3. \A q \in Runs : ~InProgress(q)
      BY <2>6 DEF Acquire, SingleFlight
    <3>4. SingleFlight'
      BY <3>2, <3>3 DEF SingleFlight, InProgress
    <3> QED  BY <3>1, <3>4
  <2>7. CASE ReadPending(r)
    <3>1. AutoSyncTypeOK'
      BY <2>7 DEF ReadPending, AutoSyncTypeOK, Places
    <3>2. SingleFlight'
      BY <1>0, <2>7, NoRunChanges DEF ReadPending, InProgress, Record
    <3> QED  BY <3>1, <3>2
  <2>8. ASSUME NEW outcome, Settle(r, outcome), Drain(r),
               UNCHANGED <<accountVars, timer, changes>>,
               backoff' \in BOOLEAN, inFlight' \in BOOLEAN,
               sent' \in [Runs -> 0..MaxChanges], synced' \in 0..MaxChanges
        PROVE  AutoSyncTypeOK'
    <3>1. startupTimer' \in BOOLEAN /\ started' \in BOOLEAN
      BY <2>8, SettleKeepsTypes
    <3>2. call' \in [Runs -> Record] /\ pendingAfter' \in Reasons \union {None}
      BY <2>8, DrainReleases
    <3> QED  BY <2>8, <3>1, <3>2 DEF AutoSyncTypeOK, Record
  <2>9. CASE Succeed(r)
    <3>1. /\ backoff' \in BOOLEAN /\ inFlight' = FALSE
          /\ sent' \in [Runs -> 0..MaxChanges] /\ synced' \in 0..MaxChanges
      BY <2>9, MaxChangesAssumption DEF Succeed, AutoSyncTypeOK
    <3>2. AutoSyncTypeOK'
      BY <2>8, <2>9, <3>1 DEF Succeed
    <3>3. SingleFlight'
      BY <2>9, DrainReleases, EndReleases DEF Succeed, InProgress
    <3> QED  BY <3>2, <3>3
  <2>10. CASE Fail(r)
    <3>1. /\ backoff' \in BOOLEAN /\ inFlight' = FALSE
          /\ sent' \in [Runs -> 0..MaxChanges] /\ synced' \in 0..MaxChanges
      BY <2>10, MaxChangesAssumption DEF Fail, AutoSyncTypeOK
    <3>2. AutoSyncTypeOK'
      BY <2>8, <2>10, <3>1 DEF Fail
    <3>3. SingleFlight'
      BY <2>10, DrainReleases, EndReleases DEF Fail, InProgress
    <3> QED  BY <3>2, <3>3
  <2>11. CASE Refuse(r)
    <3>1. /\ backoff' \in BOOLEAN /\ inFlight' \in BOOLEAN
          /\ sent' \in [Runs -> 0..MaxChanges] /\ synced' \in 0..MaxChanges
      BY <2>11 DEF Refuse, AutoSyncTypeOK
    <3>2. AutoSyncTypeOK'
      BY <2>8, <2>11, <3>1 DEF Refuse
    <3>3. /\ call'[r].pc \in Waiting
          /\ \A q \in Runs \ {r} : call'[q] = call[q]
      BY <2>11, DrainReleases DEF Refuse
    <3>4. SingleFlight'
      BY <2>11, <3>3, NoRunChanges DEF Refuse, InProgress, Waiting
    <3> QED  BY <3>2, <3>4
  <2> QED
    BY <1>9, <2>2, <2>3, <2>4, <2>5, <2>6, <2>7, <2>9, <2>10, <2>11 DEF Resume
<1>10. CASE UNCHANGED vars
  <2>1. AutoSyncTypeOK'
    BY <1>10 DEF vars, AutoSyncTypeOK
  <2>2. SingleFlight'
    BY <1>10, NoRunChanges DEF vars, InProgress
  <2> QED  BY <2>1, <2>2
<1> QED
  BY <1>1, <1>2, <1>3, <1>4, <1>5, <1>6, <1>7, <1>8, <1>9, <1>10 DEF Next

\* The state keeps its shape, whatever order timers, events and answers come in.
THEOREM AutoSyncTypeCorrect == Spec => []AutoSyncTypeOK
BY InitEstablishes, StepPreserves, PTL DEF Spec

\* Two runs are never in progress together, and the flag says whether one is:
\* cloudSync.ts tests syncInFlight and sets it without an await between.
THEOREM RunsNeverOverlap == Spec => []SingleFlight
BY InitEstablishes, StepPreserves, PTL DEF Spec

=============================================================================
