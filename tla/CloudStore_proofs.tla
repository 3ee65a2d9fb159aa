------------------------- MODULE CloudStore_proofs --------------------------
(***************************************************************************)
(* Proofs about CloudSpec, the cloud under clients of any kind: its type   *)
(* correctness, and that the revision of a record only grows.              *)
(***************************************************************************)
EXTENDS CloudStore, TLAPS

(* The largest clock value still is a revision. *)
LEMMA ExactIsRevision ==
    ASSUME NEW t \in 0..MaxClock
    PROVE  Exact(t) \in Revisions
<1>1. MaxClock \in Nat /\ TicksPerSecond \in Nat /\ TicksPerSecond >= 1
  BY CloudAssumption, TicksAssumption
<1>2. TicksPerSecond * (MaxClock + 2) >= MaxClock + 2
  <2>1. \A a, b \in Nat : a >= 1 => a * b >= b
    OBVIOUS
  <2> QED
    BY <1>1, <2>1
<1>3. /\ TicksPerSecond * (MaxClock + 2) \in Nat
      /\ 2 * TicksPerSecond * (MaxClock + 2) = 2 * (TicksPerSecond * (MaxClock + 2))
  BY <1>1
<1> QED
  BY <1>1, <1>2, <1>3 DEF Exact, Revisions

LEMMA ZeroIsRevision == NoRevision \in Revisions
  BY CloudAssumption, TicksAssumption DEF NoRevision, Revisions

LEMMA NoCallIsCall == NoCall \in Calls
  BY CloudAssumption, ZeroIsRevision DEF NoCall, Calls, NoRevision

(* What the two requests are; a client that sends one keeps the types. *)
LEMMA RequestsAreCalls ==
    /\ \A items \in SUBSET Items : PushCall(items) \in Calls
    /\ \A since \in Revisions : PullCall(since) \in Calls
  BY NoCallIsCall, CloudAssumption, ZeroIsRevision
  DEF PushCall, PullCall, NoCall, Calls, NoRevision

-----------------------------------------------------------------------------
LEMMA CloudInitType == CloudInit => CloudTypeOK
<1> SUFFICES ASSUME CloudInit PROVE CloudTypeOK
  OBVIOUS
<1>1. NoRow \in CloudRows
  BY ZeroIsRevision DEF NoRow, CloudRows, Contents
<1>2. edits \in Seq([dev : Devices, rec : Records]) /\ Len(edits) <= MaxEdits
  BY CloudAssumption DEF CloudInit
<1> QED
  BY <1>1, <1>2, NoCallIsCall, CloudAssumption
  DEF CloudInit, CloudTypeOK, Contents

LEMMA UpsertType ==
    ASSUME CloudTypeOK, NEW items \in SUBSET Items, NEW d \in Devices,
           NEW now \in 0..MaxClock, Upsert(items, d, now)
    PROVE  /\ cloud' \in [Records -> CloudRows]
           /\ stored' \in [Records -> SUBSET Contents]
<1> DEFINE taken == Accepted(items, d)
<1>1. taken \subseteq Items
  BY DEF Accepted
<1>2. ASSUME NEW r \in Records
      PROVE  cloud'[r] \in CloudRows
  <2>1. CASE \E i \in taken : i.id = r
    <3> DEFINE i == CHOOSE x \in taken : x.id = r
    <3>1. i \in taken
      BY <2>1
    <3>2. i.val \in Contents
      BY <1>1, <3>1 DEF Items
    <3>3. cloud'[r] = [val |-> i.val, rev |-> Exact(now), dev |-> d]
      BY <2>1 DEF Upsert
    <3> QED
      BY <3>2, <3>3, ExactIsRevision DEF CloudRows
  <2>2. CASE ~ \E i \in taken : i.id = r
    BY <2>2 DEF Upsert, CloudTypeOK
  <2> QED
    BY <2>1, <2>2
<1>3. ASSUME NEW r \in Records
      PROVE  stored'[r] \in SUBSET Contents
  <2>1. stored'[r] = stored[r] \cup {i.val : i \in {j \in taken : j.id = r}}
    BY DEF Upsert
  <2>2. \A i \in taken : i.val \in Contents
    BY <1>1 DEF Items
  <2> QED
    BY <2>1, <2>2 DEF CloudTypeOK
<1>4. cloud' = [r \in Records |-> cloud'[r]] /\ stored' = [r \in Records |-> stored'[r]]
  BY DEF Upsert
<1> QED
  BY <1>2, <1>3, <1>4

(* A row of the cloud, as /sync/pull returns it. *)
LEMMA PulledType ==
    ASSUME CloudTypeOK, NEW since, NEW until
    PROVE  RowsBetween(since, until) \in SUBSET PulledRows
<1>1. ASSUME NEW r \in Records
      PROVE  [id |-> r, val |-> cloud[r].val, rev |-> cloud[r].rev,
              dev |-> cloud[r].dev] \in PulledRows
  BY DEF CloudTypeOK, CloudRows, PulledRows
<1> QED
  BY <1>1 DEF RowsBetween

(* A call keeps its type when it reaches its handler and when it is done. *)
LEMMA CallStepType ==
    ASSUME CloudTypeOK, NEW d \in Devices, NEW o \in Roles,
           NEW c \in Calls, call' = [call EXCEPT ![d][o] = c]
    PROVE  call' \in [Devices -> [Roles -> Calls]]
  BY DEF CloudTypeOK

LEMMA ArriveType ==
    ASSUME CloudTypeOK, NEW d \in Devices, NEW o \in Roles, Arrive(d, o),
           UNCHANGED <<edits, fails>>
    PROVE  CloudTypeOK'
<1> DEFINE c == [call[d][o] EXCEPT !.st = "running", !.now = clock + 1]
<1>1. call[d][o] \in Calls /\ clock + 1 \in 0..MaxClock
  BY CloudAssumption DEF CloudTypeOK, Arrive
<1>2. c \in Calls
  BY <1>1 DEF Calls
<1>3. call' = [call EXCEPT ![d][o] = c]
  BY DEF Arrive, CloudTypeOK
<1>4. call' \in [Devices -> [Roles -> Calls]]
  BY <1>2, <1>3, CallStepType
<1> QED
  BY <1>1, <1>4 DEF Arrive, CloudTypeOK

LEMMA RunPushType ==
    ASSUME CloudTypeOK, NEW d \in Devices, NEW o \in Roles, RunPush(d, o),
           UNCHANGED <<edits, fails>>
    PROVE  CloudTypeOK'
<1> DEFINE old == call[d][o]
           taken == {i.id : i \in Accepted(old.items, d)}
           c == [old EXCEPT !.st = "done", !.accepted = taken,
                            !.rejected = {i.id : i \in old.items} \ taken]
<1>1. old \in Calls
  BY DEF CloudTypeOK
<1>2. /\ old.items \in SUBSET Items /\ old.now \in 0..MaxClock
      /\ \A i \in old.items : i.id \in Records
  BY <1>1 DEF Calls, Items
<1>3. taken \in SUBSET Records /\ {i.id : i \in old.items} \in SUBSET Records
  BY <1>2 DEF Accepted
<1>4. c \in Calls
  BY <1>1, <1>3 DEF Calls
<1>5. call' = [call EXCEPT ![d][o] = c]
  BY DEF RunPush
<1>6. call' \in [Devices -> [Roles -> Calls]]
  BY <1>4, <1>5, CallStepType
<1>7. /\ cloud' \in [Records -> CloudRows]
      /\ stored' \in [Records -> SUBSET Contents]
  BY <1>2, UpsertType DEF RunPush
<1> QED
  BY <1>6, <1>7 DEF RunPush, CloudTypeOK

LEMMA RunPullType ==
    ASSUME CloudTypeOK, NEW d \in Devices, NEW o \in Roles, RunPull(d, o),
           UNCHANGED <<edits, fails>>
    PROVE  CloudTypeOK'
<1> DEFINE old == call[d][o]
           rows == RowsBetween(old.since, Exact(old.now))
           c == [old EXCEPT !.st = "done", !.rows = rows]
<1>1. old \in Calls
  BY DEF CloudTypeOK
<1>2. rows \in SUBSET PulledRows
  BY PulledType
<1>3. c \in Calls
  BY <1>1, <1>2 DEF Calls
<1>4. call' = [call EXCEPT ![d][o] = c]
  BY DEF RunPull
<1>5. call' \in [Devices -> [Roles -> Calls]]
  BY <1>3, <1>4, CallStepType
<1> QED
  BY <1>5 DEF RunPull, CloudTypeOK

LEMMA ArriveLateType ==
    ASSUME CloudTypeOK, NEW q \in late, ArriveLate(q), UNCHANGED <<edits, fails>>
    PROVE  CloudTypeOK'
<1>1. clock + 1 \in 0..MaxClock
  BY CloudAssumption DEF CloudTypeOK, ArriveLate
<1>2. [q EXCEPT !.now = clock + 1] \in LatePushes
  BY <1>1 DEF CloudTypeOK, LatePushes
<1> QED
  BY <1>1, <1>2 DEF ArriveLate, CloudTypeOK

LEMMA RunLateType ==
    ASSUME CloudTypeOK, NEW q \in late, RunLate(q), UNCHANGED <<edits, fails>>
    PROVE  CloudTypeOK'
<1>1. q.items \in SUBSET Items /\ q.dev \in Devices /\ q.now \in 0..MaxClock
  BY DEF CloudTypeOK, LatePushes
<1>2. /\ cloud' \in [Records -> CloudRows]
      /\ stored' \in [Records -> SUBSET Contents]
  BY <1>1, UpsertType DEF RunLate
<1> QED
  BY <1>2 DEF RunLate, CloudTypeOK

LEMMA AbandonType ==
    ASSUME CloudTypeOK, NEW d \in Devices, NEW o \in Roles, Abandon(d, o)
    PROVE  CloudTypeOK'
<1> DEFINE c == call[d][o]
           q == [dev |-> d, items |-> c.items, now |-> c.now]
<1>1. c \in Calls
  BY DEF CloudTypeOK
<1>2. q \in LatePushes
  BY <1>1 DEF Calls, LatePushes
<1>3. late' \subseteq LatePushes
  BY <1>2 DEF Abandon, CloudTypeOK
<1>4. call' \in [Devices -> [Roles -> Calls]]
  BY NoCallIsCall, CallStepType DEF Abandon
<1>5. fails' \in 0..MaxFails
  BY CloudAssumption DEF Abandon, CloudTypeOK
<1> QED
  BY <1>3, <1>4, <1>5 DEF Abandon, CloudTypeOK

LEMMA MakeEditType ==
    ASSUME CloudTypeOK, NEW d \in Devices, NEW r \in Records, MakeEdit(d, r)
    PROVE  CloudTypeOK'
<1>1. [dev |-> d, rec |-> r] \in [dev : Devices, rec : Records]
  OBVIOUS
<1>2. /\ edits' \in Seq([dev : Devices, rec : Records])
      /\ Len(edits') <= MaxEdits
  BY <1>1, CloudAssumption DEF MakeEdit, CloudTypeOK
<1> QED
  BY <1>2 DEF MakeEdit, CloudTypeOK, serverVars

LEMMA ClientCallType ==
    ASSUME CloudTypeOK, NEW d \in Devices, NEW o \in Roles, ClientCall(d, o)
    PROVE  CloudTypeOK'
<1>1. call' \in [Devices -> [Roles -> Calls]]
  BY CallStepType DEF ClientCall
<1> QED
  BY <1>1 DEF ClientCall, CloudTypeOK

LEMMA CloudStepType ==
    ASSUME CloudTypeOK, [CloudStep]_cloudVars
    PROVE  CloudTypeOK'
<1>1. CASE CloudNext
  BY <1>1, ArriveType, RunPushType, RunPullType, ArriveLateType, RunLateType
  DEF CloudNext
<1>2. ASSUME NEW d \in Devices, NEW o \in Roles, ClientCall(d, o) \/ Abandon(d, o)
      PROVE  CloudTypeOK'
  BY <1>2, ClientCallType, AbandonType
<1>3. ASSUME NEW d \in Devices, NEW r \in Records, MakeEdit(d, r)
      PROVE  CloudTypeOK'
  BY <1>3, MakeEditType
<1>4. CASE UNCHANGED cloudVars
  BY <1>4 DEF cloudVars, serverVars, CloudTypeOK
<1> QED
  BY <1>1, <1>2, <1>3, <1>4 DEF CloudStep

(* Whatever the clients do, the state of the cloud keeps its type. *)
THEOREM CloudTypeCorrect == CloudSpec => []CloudTypeOK
<1>1. CloudInit => CloudTypeOK
  BY CloudInitType
<1>2. CloudTypeOK /\ [CloudStep]_cloudVars => CloudTypeOK'
  BY CloudStepType
<1> QED
  BY <1>1, <1>2, PTL DEF CloudSpec

-----------------------------------------------------------------------------
(* Why revisions grow.  Pushes are executed one at a time, and the one     *)
(* being executed took its timestamp after every row was written.          *)
Executing(c) == c.kind = "push" /\ c.st = "running"

OneAtATime ==
    /\ \A d, e \in Devices, o, p \in Roles :
          Executing(call[d][o]) /\ Executing(call[e][p]) => d = e /\ o = p
    /\ \A q, s \in late : q.now # 0 /\ s.now # 0 => q = s
    /\ \A d \in Devices, o \in Roles, q \in late :
          Executing(call[d][o]) => q.now = 0

Newest(now, last, rows) ==
    now <= last /\ \A r \in Records : rows[r].rev < Exact(now)

ExecutingIsNewest ==
    /\ \A r \in Records : cloud[r].rev <= Exact(clock)
    /\ \A d \in Devices, o \in Roles :
          /\ Executing(call[d][o]) => Newest(call[d][o].now, clock, cloud)
          /\ call[d][o].st \in {"idle", "sent"} => call[d][o].now = 0
    /\ \A q \in late : q.now # 0 => Newest(q.now, clock, cloud)

PushInv == CloudTypeOK /\ OneAtATime /\ ExecutingIsNewest

(* The condition RevisionsGrow puts on a step. *)
Grow == \A r \in Records : cloud'[r] # cloud[r] => cloud'[r].rev > cloud[r].rev

LEMMA PushInvInit == CloudInit => PushInv
<1> SUFFICES ASSUME CloudInit PROVE PushInv
  OBVIOUS
<1>1. OneAtATime
  BY DEF CloudInit, OneAtATime, NoCall, Executing
<1>2. ExecutingIsNewest
  BY DEF CloudInit, ExecutingIsNewest, NoCall, Executing, NoRow, NoRevision, Exact
<1> QED
  BY <1>1, <1>2, CloudInitType DEF PushInv

(* Numbers behind the types. *)
LEMMA Numbers ==
    ASSUME CloudTypeOK
    PROVE  /\ clock \in Nat
           /\ \A r \in Records : cloud[r].rev \in Nat
           /\ \A d \in Devices, o \in Roles :
                 call[d][o] \in Calls /\ call[d][o].now \in Nat
           /\ \A q \in late : q.now \in Nat
<1>1. MaxClock \in Nat /\ 0..MaxClock \subseteq Nat /\ Revisions \subseteq Nat
  BY CloudAssumption DEF Revisions
<1>2. clock \in Nat
  BY <1>1 DEF CloudTypeOK
<1>3. \A r \in Records : cloud[r].rev \in Nat
  BY <1>1 DEF CloudTypeOK, CloudRows
<1>4. \A d \in Devices, o \in Roles : call[d][o] \in Calls
  BY DEF CloudTypeOK
<1>5. \A c \in Calls : c.now \in Nat
  BY <1>1 DEF Calls
<1>6. \A q \in late : q.now \in Nat
  BY <1>1 DEF CloudTypeOK, LatePushes
<1> QED
  BY <1>2, <1>3, <1>4, <1>5, <1>6

LEMMA ArriveGrows ==
    ASSUME PushInv, NEW d \in Devices, NEW o \in Roles, Arrive(d, o)
    PROVE  OneAtATime' /\ ExecutingIsNewest' /\ Grow
<1>1. /\ clock' = clock + 1 /\ cloud' = cloud /\ late' = late
      /\ \A e \in Devices, p \in Roles :
            e # d \/ p # o => call'[e][p] = call[e][p]
      /\ call'[d][o] = [call[d][o] EXCEPT !.st = "running", !.now = clock + 1]
  BY DEF Arrive, PushInv, CloudTypeOK
<1>2. /\ call'[d][o].kind = call[d][o].kind /\ call'[d][o].st = "running"
      /\ call'[d][o].now = clock + 1
  BY <1>1, Numbers DEF Calls, PushInv
<1>3. OneAtATime'
  <2>1. CASE call[d][o].kind = "push"
    <3>1. ~PushRunning
      BY <2>1 DEF Arrive
    <3> QED
      BY <1>1, <1>2, <3>1 DEF PushRunning, OneAtATime, Executing, PushInv
  <2>2. CASE call[d][o].kind # "push"
    <3>1. \A e \in Devices, p \in Roles :
             Executing(call'[e][p]) => Executing(call[e][p])
      BY <1>1, <1>2, <2>2 DEF Executing
    <3> QED
      BY <1>1, <3>1 DEF OneAtATime, PushInv
  <2> QED
    BY <2>1, <2>2
<1>4. ExecutingIsNewest'
  <2>1. \A r \in Records : /\ cloud'[r].rev <= Exact(clock')
                           /\ cloud'[r].rev < Exact(clock + 1)
    BY <1>1, Numbers DEF PushInv, ExecutingIsNewest, Exact
  <2>2. \A now \in Nat : Newest(now, clock, cloud) => Newest(now, clock', cloud')
    BY <1>1, Numbers DEF PushInv, Newest
  <2>3. Newest(clock + 1, clock', cloud')
    BY <1>1, <2>1, Numbers DEF PushInv, Newest
  <2>4. ASSUME NEW e \in Devices, NEW p \in Roles
        PROVE  /\ Executing(call'[e][p]) => Newest(call'[e][p].now, clock', cloud')
               /\ call'[e][p].st \in {"idle", "sent"} => call'[e][p].now = 0
    <3>1. CASE e = d /\ p = o
      BY <1>2, <2>3, <3>1
    <3>2. CASE e # d \/ p # o
      BY <1>1, <2>2, <3>2, Numbers DEF PushInv, ExecutingIsNewest
    <3> QED
      BY <3>1, <3>2
  <2>5. \A q \in late' : q.now # 0 => Newest(q.now, clock', cloud')
    BY <1>1, <2>2, Numbers DEF PushInv, ExecutingIsNewest
  <2> QED
    BY <2>1, <2>4, <2>5 DEF ExecutingIsNewest
<1> QED
  BY <1>1, <1>3, <1>4 DEF Grow

(* An upsert with a timestamp newer than every row. *)
LEMMA UpsertGrows ==
    ASSUME CloudTypeOK, NEW items, NEW d \in Devices, NEW now \in Nat,
           Newest(now, clock, cloud), clock' = clock, Upsert(items, d, now)
    PROVE  Grow /\ \A r \in Records : cloud'[r].rev <= Exact(now)
<1> DEFINE taken == Accepted(items, d)
<1>1. ASSUME NEW r \in Records
      PROVE  cloud'[r] = cloud[r] \/ cloud'[r].rev = Exact(now)
  BY DEF Upsert
<1>2. \A r \in Records : cloud[r].rev < Exact(now) /\ cloud[r].rev \in Nat
  BY Numbers DEF Newest
<1>3. Exact(now) \in Nat
  BY DEF Exact
<1> QED
  BY <1>1, <1>2, <1>3 DEF Grow

LEMMA RunPushGrows ==
    ASSUME PushInv, NEW d \in Devices, NEW o \in Roles, RunPush(d, o)
    PROVE  OneAtATime' /\ ExecutingIsNewest' /\ Grow
<1> DEFINE now == call[d][o].now
<1>1. /\ clock' = clock /\ late' = late
      /\ \A e \in Devices, p \in Roles :
            e # d \/ p # o => call'[e][p] = call[e][p]
      /\ Upsert(call[d][o].items, d, now)
      /\ Executing(call[d][o])
  BY DEF RunPush, PushInv, CloudTypeOK, Executing
<1>2. call'[d][o].st = "done"
  BY Numbers DEF RunPush, Calls, PushInv, CloudTypeOK
<1>3. Newest(now, clock, cloud) /\ now \in Nat
  BY <1>1, Numbers DEF PushInv, ExecutingIsNewest
<1>4. Grow /\ \A r \in Records : cloud'[r].rev <= Exact(now)
  BY <1>1, <1>3, UpsertGrows DEF PushInv
<1>5. \A e \in Devices, p \in Roles : ~Executing(call'[e][p])
  BY <1>1, <1>2 DEF Executing, OneAtATime, PushInv
<1>6. \A q \in late' : q.now = 0
  BY <1>1 DEF OneAtATime, PushInv
<1>7. \A r \in Records : cloud'[r].rev <= Exact(clock')
  <2>1. \A r \in Records : cloud'[r].rev <= Exact(now) /\ cloud'[r].rev \in Nat
    BY <1>1, <1>3, <1>4, Numbers DEF Upsert, PushInv, Exact
  <2> QED
    BY <1>1, <1>3, <2>1, Numbers DEF Newest, Exact, PushInv
<1> QED
  BY <1>1, <1>2, <1>4, <1>5, <1>6, <1>7 DEF OneAtATime, ExecutingIsNewest, PushInv

LEMMA RunPullGrows ==
    ASSUME PushInv, NEW d \in Devices, NEW o \in Roles, RunPull(d, o)
    PROVE  OneAtATime' /\ ExecutingIsNewest' /\ Grow
<1>1. /\ clock' = clock /\ late' = late /\ cloud' = cloud
      /\ \A e \in Devices, p \in Roles :
            e # d \/ p # o => call'[e][p] = call[e][p]
  BY DEF RunPull, PushInv, CloudTypeOK
<1>2. call'[d][o].st = "done"
  BY Numbers DEF RunPull, Calls, PushInv, CloudTypeOK
<1>3. \A e \in Devices, p \in Roles :
         \/ call'[e][p] = call[e][p]
         \/ ~Executing(call'[e][p]) /\ call'[e][p].st = "done"
  BY <1>1, <1>2 DEF Executing
<1> QED
  BY <1>1, <1>3 DEF OneAtATime, ExecutingIsNewest, PushInv, Grow

LEMMA ArriveLateGrows ==
    ASSUME PushInv, NEW s \in late, ArriveLate(s)
    PROVE  OneAtATime' /\ ExecutingIsNewest' /\ Grow
<1> DEFINE t == [s EXCEPT !.now = clock + 1]
<1>1. /\ clock' = clock + 1 /\ cloud' = cloud /\ call' = call
      /\ late' = (late \ {s}) \cup {t} /\ ~PushRunning
  BY DEF ArriveLate
<1>2. t.now = clock + 1
  BY DEF PushInv, CloudTypeOK, LatePushes
<1>3. OneAtATime'
  BY <1>1 DEF PushRunning, OneAtATime, Executing
<1>4. \A r \in Records : /\ cloud'[r].rev <= Exact(clock')
                         /\ cloud'[r].rev < Exact(clock + 1)
  BY <1>1, Numbers DEF PushInv, ExecutingIsNewest, Exact
<1>5. \A q \in late' : q.now # 0 => Newest(q.now, clock', cloud')
  <2>1. \A q \in late' : q.now # 0 => q = t
    BY <1>1 DEF PushRunning
  <2>2. Newest(clock + 1, clock', cloud')
    BY <1>1, <1>4, Numbers DEF Newest, PushInv
  <2> QED
    BY <1>2, <2>1, <2>2
<1>6. \A d \in Devices, o \in Roles : ~Executing(call'[d][o])
  BY <1>1 DEF PushRunning, Executing
<1>7. ExecutingIsNewest'
  BY <1>1, <1>4, <1>5, <1>6 DEF ExecutingIsNewest, PushInv
<1> QED
  BY <1>1, <1>3, <1>7 DEF Grow

LEMMA RunLateGrows ==
    ASSUME PushInv, NEW s \in late, RunLate(s)
    PROVE  OneAtATime' /\ ExecutingIsNewest' /\ Grow
<1>1. /\ clock' = clock /\ call' = call /\ late' = late \ {s}
      /\ Upsert(s.items, s.dev, s.now) /\ s.now # 0
  BY DEF RunLate
<1>2. Newest(s.now, clock, cloud) /\ s.now \in Nat /\ s.dev \in Devices
  BY <1>1, Numbers DEF PushInv, ExecutingIsNewest, CloudTypeOK, LatePushes
<1>3. Grow /\ \A r \in Records : cloud'[r].rev <= Exact(s.now)
  BY <1>1, <1>2, UpsertGrows DEF PushInv
<1>4. \A d \in Devices, o \in Roles : ~Executing(call'[d][o])
  BY <1>1 DEF OneAtATime, PushInv
<1>5. \A q \in late' : q.now = 0
  BY <1>1 DEF OneAtATime, PushInv
<1>6. \A r \in Records : cloud'[r].rev <= Exact(clock')
  <2>1. \A r \in Records : cloud'[r].rev <= Exact(s.now) /\ cloud'[r].rev \in Nat
    BY <1>1, <1>2, <1>3, Numbers DEF Upsert, PushInv, Exact
  <2> QED
    BY <1>1, <1>2, <2>1, Numbers DEF Newest, Exact, PushInv
<1> QED
  BY <1>1, <1>3, <1>4, <1>5, <1>6 DEF OneAtATime, ExecutingIsNewest, PushInv

(* The steps of the clients do not touch the rows, start no push and leave *)
(* the timestamp of the one being executed alone.                          *)
LEMMA ClientCallGrows ==
    ASSUME PushInv, NEW d \in Devices, NEW o \in Roles, ClientCall(d, o)
    PROVE  OneAtATime' /\ ExecutingIsNewest' /\ Grow
<1>1. /\ clock' = clock /\ late' = late /\ cloud' = cloud
      /\ \A e \in Devices, p \in Roles :
            e # d \/ p # o => call'[e][p] = call[e][p]
      /\ call'[d][o].st \in {"idle", "sent"} /\ call'[d][o].now = 0
  BY DEF ClientCall, PushInv, CloudTypeOK, NoCall
<1>2. \A e \in Devices, p \in Roles :
         \/ call'[e][p] = call[e][p]
         \/ ~Executing(call'[e][p]) /\ call'[e][p].now = 0
  BY <1>1 DEF Executing
<1> QED
  BY <1>1, <1>2 DEF OneAtATime, ExecutingIsNewest, PushInv, Grow

LEMMA AbandonGrows ==
    ASSUME PushInv, NEW d \in Devices, NEW o \in Roles, Abandon(d, o)
    PROVE  OneAtATime' /\ ExecutingIsNewest' /\ Grow
<1> DEFINE c == call[d][o]
           s == [dev |-> d, items |-> c.items, now |-> c.now]
<1>1. /\ clock' = clock /\ cloud' = cloud
      /\ \A e \in Devices, p \in Roles :
            e # d \/ p # o => call'[e][p] = call[e][p]
      /\ call'[d][o] = NoCall
  BY DEF Abandon, PushInv, CloudTypeOK
<1>2. \A e \in Devices, p \in Roles :
         \/ call'[e][p] = call[e][p] /\ (e # d \/ p # o)
         \/ ~Executing(call'[e][p]) /\ call'[e][p].now = 0
  BY <1>1 DEF Executing, NoCall
<1>3. CASE late' = late
  BY <1>1, <1>2, <1>3 DEF OneAtATime, ExecutingIsNewest, PushInv, Grow
<1>4. CASE /\ c.kind = "push" /\ c.st \in {"sent", "running"}
           /\ late' = late \cup {s}
  <2>1. s.now # 0 => Executing(c)
    BY <1>4 DEF PushInv, ExecutingIsNewest, Executing
  <2>2. OneAtATime'
    BY <1>1, <1>2, <1>4, <2>1 DEF OneAtATime, PushInv
  <2>3. \A q \in late' : q.now # 0 => Newest(q.now, clock', cloud')
    BY <1>1, <1>4, <2>1 DEF ExecutingIsNewest, PushInv
  <2> QED
    BY <1>1, <1>2, <2>2, <2>3 DEF ExecutingIsNewest, PushInv, Grow
<1> QED
  BY <1>3, <1>4 DEF Abandon

LEMMA PushInvStep ==
    ASSUME PushInv, [CloudStep]_cloudVars
    PROVE  PushInv' /\ Grow
<1>1. CloudTypeOK'
  BY CloudStepType DEF PushInv
<1>2. CASE CloudNext
  BY <1>1, <1>2, ArriveGrows, RunPushGrows, RunPullGrows, ArriveLateGrows,
     RunLateGrows
  DEF CloudNext, PushInv
<1>3. ASSUME NEW d \in Devices, NEW o \in Roles, ClientCall(d, o) \/ Abandon(d, o)
      PROVE  PushInv' /\ Grow
  BY <1>1, <1>3, ClientCallGrows, AbandonGrows DEF PushInv
<1>4. ASSUME NEW d \in Devices, NEW r \in Records, MakeEdit(d, r)
      PROVE  PushInv' /\ Grow
  BY <1>1, <1>4
  DEF MakeEdit, serverVars, PushInv, OneAtATime, ExecutingIsNewest, Grow
<1>5. CASE UNCHANGED cloudVars
  BY <1>1, <1>5
  DEF cloudVars, serverVars, PushInv, OneAtATime, ExecutingIsNewest, Grow
<1> QED
  BY <1>2, <1>3, <1>4, <1>5 DEF CloudStep

(* The revision of a record only grows, for any number of devices and      *)
(* records and whatever the clients send, lose or abandon, because pushes  *)
(* are executed one at a time from their timestamp to their commit.        *)
THEOREM RevisionsOnlyGrow == CloudSpec => RevisionsGrow
<1>1. CloudInit => PushInv
  BY PushInvInit
<1>2. PushInv /\ [CloudStep]_cloudVars => PushInv' /\ [Grow]_cloudVars
  BY PushInvStep
<1>3. CloudSpec => [][Grow]_cloudVars
  BY <1>1, <1>2, PTL DEF CloudSpec
<1> QED
  BY <1>3 DEF RevisionsGrow, Grow
-----------------------------------------------------------------------------
(* What the clients' proofs need: what a step does to the calls and to     *)
(* what was stored.                                                        *)

LEMMA UpDown == "up" \in Roles /\ "down" \in Roles /\ "up" # "down"
  BY DEF Roles

(* A step of the cloud leaves the kind of a call, and the absence of one,  *)
(* as they are.                                                            *)
LEMMA CloudNextKeepsKinds ==
    ASSUME CloudTypeOK, CloudNext, NEW d \in Devices, NEW o \in Roles
    PROVE  /\ call'[d][o].kind = call[d][o].kind
           /\ call[d][o] = NoCall => call'[d][o] = NoCall
           /\ edits' = edits
<1>1. ASSUME NEW e \in Devices, NEW p \in Roles, Arrive(e, p)
      PROVE  /\ call'[d][o].kind = call[d][o].kind
             /\ call[d][o] = NoCall => call'[d][o] = NoCall
  BY <1>1, Numbers DEF Arrive, CloudTypeOK, Calls, NoCall
<1>2. ASSUME NEW e \in Devices, NEW p \in Roles, RunPush(e, p)
      PROVE  /\ call'[d][o].kind = call[d][o].kind
             /\ call[d][o] = NoCall => call'[d][o] = NoCall
  BY <1>2, Numbers DEF RunPush, CloudTypeOK, Calls, NoCall
<1>3. ASSUME NEW e \in Devices, NEW p \in Roles, RunPull(e, p)
      PROVE  /\ call'[d][o].kind = call[d][o].kind
             /\ call[d][o] = NoCall => call'[d][o] = NoCall
  BY <1>3, Numbers DEF RunPull, CloudTypeOK, Calls, NoCall
<1>4. ASSUME NEW q \in late, ArriveLate(q) \/ RunLate(q)
      PROVE  call' = call
  BY <1>4 DEF ArriveLate, RunLate
<1> QED
  BY <1>1, <1>2, <1>3, <1>4 DEF CloudNext

LEMMA PushCallIs ==
    \A items : /\ PushCall(items).st = "sent" /\ PushCall(items).now = 0
               /\ PushCall(items).kind = "push"
               /\ PushCall(items).items = items
  BY DEF PushCall, NoCall

LEMMA PullCallIs ==
    \A since : /\ PullCall(since).st = "sent" /\ PullCall(since).now = 0
               /\ PullCall(since).kind = "pull"
  BY DEF PullCall, NoCall

(* Sending, and freeing the call, is what CloudSpec lets a client do. *)
LEMMA SendIsClientCall ==
    ASSUME CloudTypeOK, NEW d \in Devices, NEW o \in Roles, NEW request \in Calls,
           call[d][o].st \in {"idle", "done"},
           request = NoCall \/ (request.st = "sent" /\ request.now = 0),
           Send(d, o, request)
    PROVE  /\ ClientCall(d, o)
           /\ call'[d][o] = request
           /\ \A e \in Devices, p \in Roles :
                 e # d \/ p # o => call'[e][p] = call[e][p]
           /\ edits' = edits
  BY DEF Send, ClientCall, CloudTypeOK

LEMMA AbandonEffect ==
    ASSUME CloudTypeOK, NEW d \in Devices, NEW o \in Roles, Abandon(d, o)
    PROVE  /\ call'[d][o] = NoCall
           /\ \A e \in Devices, p \in Roles :
                 e # d \/ p # o => call'[e][p] = call[e][p]
           /\ edits' = edits
  BY DEF Abandon, CloudTypeOK

LEMMA SendEffect ==
    ASSUME CloudTypeOK, NEW d \in Devices, NEW o \in Roles, NEW request,
           Send(d, o, request)
    PROVE  /\ call'[d][o] = request
           /\ \A e \in Devices, p \in Roles :
                 e # d \/ p # o => call'[e][p] = call[e][p]
           /\ cloud' = cloud /\ stored' = stored
  BY DEF Send, CloudTypeOK

-----------------------------------------------------------------------------
(* A row of the cloud holds a content the cloud stored. *)
CloudKept == \A r \in Records : IsRow(cloud[r]) => cloud[r].val \in stored[r]

(* What the cloud stored stays stored. *)
LEMMA UpsertStores ==
    ASSUME CloudTypeOK, CloudKept, NEW items \in SUBSET Items, NEW d, NEW now,
           Upsert(items, d, now)
    PROVE  /\ \A r \in Records : stored[r] \subseteq stored'[r]
           /\ \A i \in Accepted(items, d) : i.val \in stored'[i.id]
           /\ CloudKept'
<1> DEFINE taken == Accepted(items, d)
<1>1. \A i \in taken : i.id \in Records
  BY DEF Accepted, Items
<1>2. stored' = [r \in Records |->
         stored[r] \cup {i.val : i \in {j \in taken : j.id = r}}]
  BY DEF Upsert
<1>3. \A r \in Records : stored[r] \subseteq stored'[r]
  BY <1>2
<1>4. \A i \in taken : i.val \in stored'[i.id]
  BY <1>1, <1>2
<1>5. ASSUME NEW r \in Records, IsRow(cloud'[r])
      PROVE  cloud'[r].val \in stored'[r]
  <2>1. CASE \E i \in taken : i.id = r
    <3>1. /\ (CHOOSE i \in taken : i.id = r) \in taken
          /\ (CHOOSE i \in taken : i.id = r).id = r
      BY <2>1
    <3>2. cloud'[r].val = (CHOOSE i \in taken : i.id = r).val
      BY <2>1 DEF Upsert
    <3> QED
      BY <1>4, <3>1, <3>2
  <2>2. CASE ~ \E i \in taken : i.id = r
    <3>1. cloud'[r] = cloud[r]
      BY <2>2 DEF Upsert
    <3> QED
      BY <1>3, <1>5, <3>1 DEF CloudKept
  <2> QED
    BY <2>1, <2>2
<1> QED
  BY <1>3, <1>4, <1>5 DEF CloudKept

(* What a step of the cloud does to one call. *)
CallStep(d, o) ==
    LET c == call[d][o]
        n == call'[d][o]
    IN  /\ n.kind = c.kind /\ n.items = c.items
        /\ n.kind = "push" /\ n.st = "done" =>
              \A r \in n.accepted :
                 \/ c.st = "done" /\ r \in c.accepted
                 \/ \E i \in c.items : i.id = r /\ i.val \in stored'[r]
        /\ n.kind = "pull" /\ n.st = "done" =>
              \A q \in n.rows :
                 \/ c.st = "done" /\ q \in c.rows
                 \/ q.id \in Records /\ q.val \in stored[q.id]

(* A step of the cloud as the history sees it: nothing leaves stored, and  *)
(* a reply speaks of what is in it.                                        *)
CloudHistory ==
    /\ \A r \in Records : stored[r] \subseteq stored'[r]
    /\ CloudKept'
    /\ \A d \in Devices, o \in Roles : CallStep(d, o)

LEMMA ArriveHistory ==
    ASSUME CloudTypeOK, CloudKept, NEW e \in Devices, NEW p \in Roles,
           Arrive(e, p)
    PROVE  CloudHistory
<1>1. stored' = stored /\ cloud' = cloud
  BY DEF Arrive
<1>2. ASSUME NEW d \in Devices, NEW o \in Roles
      PROVE  CallStep(d, o)
  <2>1. CASE d = e /\ o = p
    <3>1. /\ call'[d][o].kind = call[d][o].kind
          /\ call'[d][o].items = call[d][o].items
          /\ call'[d][o].st = "running"
      BY <2>1 DEF Arrive, CloudTypeOK, Calls
    <3> QED
      BY <3>1 DEF CallStep
  <2>2. CASE d # e \/ o # p
    <3>1. call'[d][o] = call[d][o]
      BY <2>2 DEF Arrive, CloudTypeOK
    <3> QED
      BY <3>1 DEF CallStep
  <2> QED
    BY <2>1, <2>2
<1> QED
  BY <1>1, <1>2 DEF CloudHistory, CloudKept

LEMMA RunPushHistory ==
    ASSUME CloudTypeOK, CloudKept, NEW e \in Devices, NEW p \in Roles,
           RunPush(e, p)
    PROVE  CloudHistory
<1> DEFINE c == call[e][p]
           taken == {i.id : i \in Accepted(c.items, e)}
           rejected == {i.id : i \in c.items} \ taken
<1>1. c \in Calls /\ c.items \in SUBSET Items
  BY DEF CloudTypeOK, Calls
<1>2. /\ Upsert(c.items, e, c.now)
      /\ call' = [call EXCEPT ![e][p] =
            [c EXCEPT !.st = "done", !.accepted = taken, !.rejected = rejected]]
  BY DEF RunPush
<1>3. /\ \A r \in Records : stored[r] \subseteq stored'[r]
      /\ \A i \in Accepted(c.items, e) : i.val \in stored'[i.id]
      /\ CloudKept'
  BY <1>1, <1>2, UpsertStores
<1>4. ASSUME NEW d \in Devices, NEW o \in Roles
      PROVE  CallStep(d, o)
  <2>1. CASE d = e /\ o = p
    <3>1. \A r \in taken : \E i \in c.items : i.id = r /\ i.val \in stored'[r]
      BY <1>3 DEF Accepted
    <3> HIDE DEF taken, rejected
    <3>2. /\ call'[d][o].kind = c.kind /\ call'[d][o].items = c.items
          /\ call'[d][o].accepted = taken
      BY <1>1, <1>2, <2>1 DEF CloudTypeOK, Calls
    <3>3. c.kind = "push"
      BY DEF RunPush
    <3> QED
      BY <2>1, <3>1, <3>2, <3>3 DEF CallStep
  <2>2. CASE d # e \/ o # p
    <3>1. call'[d][o] = call[d][o]
      BY <1>2, <2>2 DEF CloudTypeOK
    <3> QED
      BY <3>1 DEF CallStep
  <2> QED
    BY <2>1, <2>2
<1> QED
  BY <1>3, <1>4 DEF CloudHistory

LEMMA RunPullHistory ==
    ASSUME CloudTypeOK, CloudKept, NEW e \in Devices, NEW p \in Roles,
           RunPull(e, p)
    PROVE  CloudHistory
<1> DEFINE c == call[e][p]
           rows == RowsBetween(c.since, Exact(c.now))
<1>1. /\ stored' = stored /\ cloud' = cloud /\ c.kind = "pull" /\ c \in Calls
      /\ call' = [call EXCEPT ![e][p] = [c EXCEPT !.st = "done", !.rows = rows]]
  BY DEF RunPull, CloudTypeOK
<1>2. \A q \in rows : q.id \in Records /\ q.val \in stored[q.id]
  BY DEF RowsBetween, CloudKept
<1> HIDE DEF rows
<1>3. ASSUME NEW d \in Devices, NEW o \in Roles
      PROVE  CallStep(d, o)
  <2>1. CASE d = e /\ o = p
    <3>1. /\ call'[d][o].kind = c.kind /\ call'[d][o].items = c.items
          /\ call'[d][o].rows = rows
      BY <1>1, <2>1 DEF CloudTypeOK, Calls
    <3> QED
      BY <1>1, <1>2, <2>1, <3>1 DEF CallStep
  <2>2. CASE d # e \/ o # p
    <3>1. call'[d][o] = call[d][o]
      BY <1>1, <2>2 DEF CloudTypeOK
    <3> QED
      BY <3>1 DEF CallStep
  <2> QED
    BY <2>1, <2>2
<1> QED
  BY <1>1, <1>3 DEF CloudHistory, CloudKept

LEMMA LateHistory ==
    ASSUME CloudTypeOK, CloudKept, NEW q \in late, ArriveLate(q) \/ RunLate(q)
    PROVE  CloudHistory
<1>1. call' = call /\ q.items \in SUBSET Items
  BY DEF ArriveLate, RunLate, CloudTypeOK, LatePushes
<1>2. \A d \in Devices, o \in Roles : CallStep(d, o)
  BY <1>1 DEF CallStep
<1>3. CASE ArriveLate(q)
  BY <1>2, <1>3 DEF ArriveLate, CloudHistory, CloudKept
<1>4. CASE RunLate(q)
  BY <1>1, <1>2, <1>4, UpsertStores DEF RunLate, CloudHistory
<1> QED
  BY <1>3, <1>4

LEMMA CloudNextStores ==
    ASSUME CloudTypeOK, CloudKept, CloudNext
    PROVE  CloudHistory
  BY ArriveHistory, RunPushHistory, RunPullHistory, LateHistory DEF CloudNext
=============================================================================
