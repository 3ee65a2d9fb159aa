------------------------- MODULE MobileSync_proofs --------------------------
(***************************************************************************)
(* Proofs about MobileSync: it keeps its types, it implements CloudSpec    *)
(* (so that a record's revision only grows under phones too), a row shown  *)
(* as synced was uploaded, an unconfirmed edit survives, no movement comes *)
(* before its category, a write with a baseline replaces only what it      *)
(* descends from, and an upload whose answer was lost is recognised.       *)
(***************************************************************************)
EXTENDS MobileSync, CloudStore_proofs, FiniteSetTheorems

-----------------------------------------------------------------------------
(* The phase of a run says what its call is.                               *)
Phases ==
    \A d \in Phones :
        /\ mup[d].pc \in {"idle", "ack"} => call[d]["up"] = NoCall
        /\ mup[d].pc = "preflight" => call[d]["up"].kind = "pull"
        /\ mup[d].pc \in {"categories", "movements"} => call[d]["up"].kind = "push"
        /\ mdown[d].pc = "idle" => call[d]["down"] = NoCall
        /\ mdown[d].pc = "wait" => call[d]["down"].kind = "pull"

(* A version counts edits. *)
Versions == \A d \in Phones, r \in Records : mrow[d][r].ver <= Len(edits)

TypeInv == MobileTypeOK /\ Versions /\ Phases

PhoneTypeOK ==
    /\ mrow \in [Phones -> [Records -> Rows]]
    /\ mcursor \in [Phones -> Revisions]
    /\ mup \in [Phones -> Ups]
    /\ mdown \in [Phones -> Downs]

(* What a phone's step shows the cloud, and what it keeps. *)
Step == [CloudStep]_cloudVars /\ PhoneTypeOK' /\ Versions' /\ Phases'

LEMMA EditsAreCounted ==
    ASSUME CloudTypeOK
    PROVE  Len(edits) \in Nat /\ Len(edits) <= MaxEdits /\ MaxEdits \in Nat
  BY CloudAssumption DEF CloudTypeOK

LEMMA NoRuns == NoUp \in Ups /\ NoDown \in Downs
  BY ZeroIsRevision DEF NoUp, Ups, NoDown, Downs, NoRevision

LEMMA TypeInvInit == Init => TypeInv
<1> SUFFICES ASSUME Init PROVE TypeInv
  OBVIOUS
<1>1. CloudTypeOK
  BY CloudInitType DEF Init
<1>2. Absent \in Rows
  BY CloudAssumption, ZeroIsRevision DEF Absent, Rows, Contents, Errors
<1>3. PhoneTypeOK
  BY <1>2, NoRuns, ZeroIsRevision DEF Init, MobileInit, PhoneTypeOK
<1>4. Versions
  BY <1>1, EditsAreCounted DEF Init, MobileInit, Versions, Absent
<1>5. Phases
  BY PhonesAssumption
  DEF Init, MobileInit, CloudInit, Phases, NoUp, NoDown, Roles
<1> QED
  BY <1>1, <1>3, <1>4, <1>5 DEF TypeInv, MobileTypeOK, PhoneTypeOK

-----------------------------------------------------------------------------
LEMMA PhonesAreDevices == \A d \in Phones : d \in Devices
  BY PhonesAssumption

LEMMA CloudNextStep ==
    ASSUME TypeInv, CloudNext, UNCHANGED mobileVars
    PROVE  Step
<1>1. mrow' = mrow /\ mcursor' = mcursor /\ mup' = mup /\ mdown' = mdown
  BY DEF mobileVars
<1>2. Phases'
  BY <1>1, CloudNextKeepsKinds, PhonesAreDevices, UpDown
  DEF TypeInv, MobileTypeOK, Phases
<1>3. edits' = edits
  BY DEF CloudNext
<1> QED
  BY <1>1, <1>2, <1>3
  DEF Step, CloudStep, TypeInv, MobileTypeOK, PhoneTypeOK, Versions

LEMMA EditStep ==
    ASSUME TypeInv, NEW d \in Phones, NEW r \in Records, Edit(d, r)
    PROVE  Step
<1> DEFINE old == mrow[d][r]
           new == Edited(old)
<1>1. /\ MakeEdit(d, r) /\ d \in Devices
      /\ mcursor' = mcursor /\ mup' = mup /\ mdown' = mdown
      /\ mrow' = [mrow EXCEPT ![d][r] = new]
  BY PhonesAreDevices DEF Edit
<1>2. /\ Len(edits) \in Nat /\ Len(edits) < MaxEdits /\ MaxEdits \in Nat
      /\ Len(edits') = Len(edits) + 1 /\ call' = call
  <2>1. CloudTypeOK
    BY DEF TypeInv, MobileTypeOK
  <2>2. Len(Append(edits, [dev |-> d, rec |-> r])) = Len(edits) + 1
    BY <1>1, <2>1 DEF CloudTypeOK
  <2> QED
    BY <1>1, <2>1, <2>2, EditsAreCounted DEF MakeEdit, serverVars
<1>3. old \in Rows /\ old.ver \in Nat /\ old.ver <= Len(edits)
  BY <1>2 DEF TypeInv, MobileTypeOK, Versions, Rows
<1>4. new \in Rows /\ new.ver <= Len(edits')
  <2>1. NewEdit \in Edits
    BY <1>2 DEF NewEdit, Edits
  <2>2. old.val \cup {NewEdit} \in Contents
    BY <1>3, <2>1 DEF Rows, Contents
  <2> DEFINE ver == IF old.st = "absent" THEN 0 ELSE old.ver + 1
  <2>3. ver \in 0..MaxEdits /\ ver <= Len(edits')
    <3>1. ver \in Nat /\ ver <= Len(edits) + 1
      BY <1>2, <1>3
    <3> HIDE DEF ver
    <3> QED
      BY <1>2, <3>1
  <2>4. new = [old EXCEPT !.val = old.val \cup {NewEdit}, !.st = "pending",
                          !.ver = ver, !.err = "none"]
    BY DEF Edited
  <2> HIDE DEF ver
  <2>5. new.ver = ver
    BY <1>3, <2>4 DEF Rows
  <2> QED
    BY <1>3, <2>2, <2>3, <2>4, <2>5 DEF Rows, Errors
<1>5. mrow' \in [Phones -> [Records -> Rows]]
  BY <1>1, <1>4 DEF TypeInv, MobileTypeOK
<1>6. Versions'
  <2> SUFFICES ASSUME NEW e \in Phones, NEW s \in Records
               PROVE  mrow'[e][s].ver <= Len(edits')
    BY DEF Versions
  <2>1. CASE e = d /\ s = r
    BY <1>1, <1>4, <2>1 DEF TypeInv, MobileTypeOK
  <2>2. CASE e # d \/ s # r
    <3>1. mrow'[e][s] = mrow[e][s]
      BY <1>1, <2>2 DEF TypeInv, MobileTypeOK
    <3>2. mrow[e][s].ver \in Nat /\ mrow[e][s].ver <= Len(edits)
      BY <1>2 DEF TypeInv, MobileTypeOK, Versions, Rows
    <3> QED
      BY <1>2, <3>1, <3>2
  <2> QED
    BY <2>1, <2>2
<1> QED
  BY <1>1, <1>2, <1>5, <1>6
  DEF Step, CloudStep, TypeInv, MobileTypeOK, PhoneTypeOK, Phases

-----------------------------------------------------------------------------
(* Steps of push(): the new run and its call agree. *)
PhaseOf(run, request) ==
    \/ run.pc \in {"idle", "ack"} /\ request = NoCall
    \/ /\ run.pc = "preflight" /\ request.kind = "pull"
       /\ request.st = "sent" /\ request.now = 0
    \/ /\ run.pc \in {"categories", "movements"} /\ request.kind = "push"
       /\ request.st = "sent" /\ request.now = 0

LEMMA UpSendStep ==
    ASSUME TypeInv, NEW d \in Phones, NEW run \in Ups, NEW request \in Calls,
           PhaseOf(run, request),
           call[d]["up"].st \in {"idle", "done"}, Send(d, "up", request),
           mup' = [mup EXCEPT ![d] = run], UNCHANGED <<mrow, mcursor, mdown>>
    PROVE  Step
<1>1. /\ ClientCall(d, "up") /\ call'[d]["up"] = request /\ edits' = edits
      /\ \A e \in Devices, p \in Roles :
            e # d \/ p # "up" => call'[e][p] = call[e][p]
  BY SendIsClientCall, PhonesAreDevices, UpDown
  DEF TypeInv, MobileTypeOK, PhaseOf
<1>2. mup'[d] = run /\ \A e \in Phones : e # d => mup'[e] = mup[e]
  BY DEF TypeInv, MobileTypeOK
<1>3. Phases'
  <2> SUFFICES ASSUME NEW e \in Phones
               PROVE  /\ mup'[e].pc \in {"idle", "ack"} => call'[e]["up"] = NoCall
                      /\ mup'[e].pc = "preflight" => call'[e]["up"].kind = "pull"
                      /\ mup'[e].pc \in {"categories", "movements"}
                            => call'[e]["up"].kind = "push"
                      /\ mdown'[e].pc = "idle" => call'[e]["down"] = NoCall
                      /\ mdown'[e].pc = "wait" => call'[e]["down"].kind = "pull"
    BY DEF Phases
  <2>1. call'[e]["down"] = call[e]["down"]
    BY <1>1, PhonesAreDevices, UpDown
  <2>2. CASE e = d
    BY <1>1, <1>2, <2>1, <2>2 DEF PhaseOf, TypeInv, Phases
  <2>3. CASE e # d
    BY <1>1, <1>2, <2>1, <2>3, PhonesAreDevices, UpDown DEF TypeInv, Phases
  <2> QED
    BY <2>2, <2>3
<1> QED
  BY <1>1, <1>2, <1>3, PhonesAreDevices, UpDown
  DEF Step, CloudStep, TypeInv, MobileTypeOK, PhoneTypeOK, Versions

LEMMA PushBeginStep ==
    ASSUME TypeInv, NEW d \in Phones, PushBegin(d)
    PROVE  Step
<1> DEFINE pend == {[id |-> r, val |-> mrow[d][r].val, ver |-> mrow[d][r].ver,
                     rev |-> mrow[d][r].rev] :
                        r \in {s \in Records : IsPending(d, s)}}
           run == [NoUp EXCEPT !.pc = "preflight", !.pend = pend]
<1>1. pend \in SUBSET Changes
  <2>1. \A r \in Records : mrow[d][r] \in Rows
    BY DEF TypeInv, MobileTypeOK
  <2> QED
    BY <2>1 DEF Changes, Rows
<1>2. run \in Ups /\ run.pc = "preflight"
  BY <1>1, NoRuns DEF NoUp, Ups
<1>3. PullCall(NoRevision) \in Calls
  BY RequestsAreCalls, ZeroIsRevision
<1>4. PhaseOf(run, PullCall(NoRevision))
  BY <1>2, PullCallIs DEF PhaseOf
<1>5. call[d]["up"].st \in {"idle", "done"}
  BY DEF PushBegin, TypeInv, Phases, NoCall
<1>6. /\ Send(d, "up", PullCall(NoRevision))
      /\ mup' = [mup EXCEPT ![d] = run] /\ UNCHANGED <<mrow, mcursor, mdown>>
  BY DEF PushBegin
<1> HIDE DEF run
<1> QED
  BY <1>2, <1>3, <1>4, <1>5, <1>6, UpSendStep

LEMMA NextPhaseStep ==
    ASSUME TypeInv, NEW d \in Phones, NEW run \in Ups,
           call[d]["up"].st = "done", NextPhase(d, run),
           UNCHANGED <<mrow, mcursor, mdown>>
    PROVE  Step
<1>1. /\ CategoryItems(run.send) \in SUBSET Items
      /\ MovementItems(run.send) \in SUBSET Items
  BY DEF Ups, CategoryItems, MovementItems
<1>2. \A pc \in {"categories", "movements", "ack"} :
         /\ [run EXCEPT !.pc = pc] \in Ups
         /\ [run EXCEPT !.pc = pc].pc = pc
  BY DEF Ups
<1>3. CASE /\ mup' = [mup EXCEPT ![d] = [run EXCEPT !.pc = "categories"]]
           /\ Send(d, "up", PushCall(CategoryItems(run.send)))
  BY <1>1, <1>2, <1>3, RequestsAreCalls, PushCallIs, UpSendStep DEF PhaseOf
<1>4. CASE /\ mup' = [mup EXCEPT ![d] = [run EXCEPT !.pc = "movements"]]
           /\ Send(d, "up", PushCall(MovementItems(run.send)))
  BY <1>1, <1>2, <1>4, RequestsAreCalls, PushCallIs, UpSendStep DEF PhaseOf
<1>5. CASE /\ mup' = [mup EXCEPT ![d] = [run EXCEPT !.pc = "ack"]]
           /\ Send(d, "up", NoCall)
  BY <1>2, <1>5, NoCallIsCall, UpSendStep DEF PhaseOf
<1> QED
  BY <1>3, <1>4, <1>5 DEF NextPhase, Finish

(* The items the preflight makes, and the rejections, are well formed. *)
LEMMA ItemType ==
    ASSUME NEW rows \in SUBSET PulledRows, NEW p \in Changes
    PROVE  ItemOf(p, rows) \in Items
<1>1. Baseline(p, rows) \in Revisions
  <2>1. CASE CloudRowOf(rows, p) = {}
    BY <2>1 DEF Baseline, Changes
  <2>2. CASE CloudRowOf(rows, p) # {}
    <3> DEFINE q == CHOOSE q \in CloudRowOf(rows, p) : TRUE
    <3>1. q \in CloudRowOf(rows, p)
      BY <2>2
    <3>2. q \in PulledRows
      BY <3>1 DEF CloudRowOf
    <3>3. q.rev \in Revisions
      BY <3>2 DEF PulledRows
    <3> QED
      BY <2>2, <3>3 DEF Baseline
  <2> QED
    BY <2>1, <2>2
<1> QED
  BY <1>1 DEF ItemOf, Items, Changes

LEMMA RejectType ==
    ASSUME NEW changes \in SUBSET Changes, NEW err \in Errors
    PROVE  Reject(changes, err) \in SUBSET Rejections
  BY DEF Reject, Rejections, Changes

LEMMA PreflightStep ==
    ASSUME TypeInv, NEW d \in Phones, Preflight(d)
    PROVE  Step
<1> DEFINE run == mup[d]
           rows == call[d]["up"].rows
           clash == {p \in run.pend : Clashes(d, p, rows)}
           items == {ItemOf(p, rows) : p \in run.pend \ clash}
           orphans == OfRejectedCategory(items, Reject(clash, "conflict_remote_newer"))
           dropped == clash \cup {p \in run.pend : p.id \in {i.id : i \in orphans}}
           next == [run EXCEPT !.send = items \ orphans,
                               !.rej = Reject(dropped, "conflict_remote_newer")]
<1>1. run \in Ups /\ run.pend \in SUBSET Changes
  BY DEF TypeInv, MobileTypeOK, Ups
<1>2. rows \in SUBSET PulledRows
  BY PhonesAreDevices, UpDown DEF TypeInv, MobileTypeOK, CloudTypeOK, Calls
<1>3. items \in SUBSET Items
  BY <1>1, <1>2, ItemType
<1>4. Reject(dropped, "conflict_remote_newer") \in SUBSET Rejections
  BY <1>1, RejectType DEF Errors
<1>5. items \ orphans \in SUBSET Items
  BY <1>3
<1>6. next \in Ups
  <2> HIDE DEF items, orphans, dropped
  <2> QED
    BY <1>1, <1>4, <1>5 DEF Ups
<1>7. /\ call[d]["up"].st = "done" /\ NextPhase(d, next)
      /\ UNCHANGED <<mrow, mcursor, mdown>>
  BY DEF Preflight, Replied
<1> HIDE DEF next
<1> QED
  BY <1>6, <1>7, NextPhaseStep

LEMMA PhaseDoneStep ==
    ASSUME TypeInv, NEW d \in Phones, PhaseDone(d)
    PROVE  Step
<1> DEFINE run == mup[d]
           c == call[d]["up"]
           of(ids) == {p \in run.pend : p.id \in ids}
           acked == {[id |-> p.id, ver |-> p.ver, rev |-> Exact(c.now)] :
                        p \in of(c.accepted)}
           rej == run.rej \cup Reject(of(c.rejected), "conflict_remote_newer")
           rest == run.send \ c.items
           orphans == OfRejectedCategory(rest, rej)
           rej2 == rej \cup Reject(of({i.id : i \in orphans}), "category_rejected")
           next == [run EXCEPT !.send = rest \ orphans,
                               !.acked = run.acked \cup acked,
                               !.rej = rej2]
<1>1. /\ run \in Ups /\ run.pend \in SUBSET Changes
      /\ run.send \in SUBSET Items /\ run.acked \in SUBSET Acks
      /\ run.rej \in SUBSET Rejections
  BY DEF TypeInv, MobileTypeOK, Ups
<1>2. c \in Calls /\ c.now \in 0..MaxClock
  BY PhonesAreDevices, UpDown DEF TypeInv, MobileTypeOK, CloudTypeOK, Calls
<1>3. run.acked \cup acked \in SUBSET Acks
  BY <1>1, <1>2, ExactIsRevision DEF Changes, Acks
<1>4. rej2 \in SUBSET Rejections
  BY <1>1, RejectType DEF Errors
<1>5. rest \ orphans \in SUBSET Items
  BY <1>1
<1>6. next \in Ups
  <2> HIDE DEF acked, rest, orphans, rej2
  <2> QED
    BY <1>1, <1>3, <1>4, <1>5 DEF Ups
<1>7. /\ call[d]["up"].st = "done" /\ NextPhase(d, next)
      /\ UNCHANGED <<mrow, mcursor, mdown>>
  BY DEF PhaseDone, Replied
<1> HIDE DEF next
<1> QED
  BY <1>6, <1>7, NextPhaseStep

(* A row keeps its type and its version when it is confirmed or rejected. *)
LEMMA AckType ==
    ASSUME NEW d \in Devices, NEW row \in Rows
    PROVE  /\ \A a \in Acks : /\ AckRow(d, row, a) \in Rows
                              /\ AckRow(d, row, a).ver = row.ver
                              /\ AckRow(d, row, a).val = row.val
           /\ \A x \in Rejections : /\ RejectRow(row, x) \in Rows
                                    /\ RejectRow(row, x).ver = row.ver
                                    /\ RejectRow(row, x).val = row.val
                                    /\ RejectRow(row, x).st = row.st
<1>1. ASSUME NEW a \in Acks
      PROVE  /\ AckRow(d, row, a) \in Rows
             /\ AckRow(d, row, a).ver = row.ver
             /\ AckRow(d, row, a).val = row.val
  BY DEF AckRow, Rows, Acks, Errors
<1>2. ASSUME NEW x \in Rejections
      PROVE  /\ RejectRow(row, x) \in Rows
             /\ RejectRow(row, x).ver = row.ver
             /\ RejectRow(row, x).val = row.val
             /\ RejectRow(row, x).st = row.st
  BY DEF RejectRow, Rows, Rejections, Errors
<1> QED
  BY <1>1, <1>2

(* What acknowledge() makes of each row. *)
Acked(d, r) ==
    IF \E a \in mup[d].acked : a.id = r
    THEN AckRow(d, mrow[d][r], CHOOSE a \in mup[d].acked : a.id = r)
    ELSE IF \E x \in mup[d].rej : x.id = r
    THEN RejectRow(mrow[d][r], CHOOSE x \in mup[d].rej : x.id = r)
    ELSE mrow[d][r]

LEMMA AckedType ==
    ASSUME MobileTypeOK, NEW d \in Phones, NEW r \in Records
    PROVE  /\ Acked(d, r) \in Rows
           /\ Acked(d, r).ver = mrow[d][r].ver
           /\ Acked(d, r).val = mrow[d][r].val
<1>1. mrow[d][r] \in Rows /\ mup[d].acked \subseteq Acks /\ mup[d].rej \subseteq Rejections
  BY DEF MobileTypeOK, Ups
<1>2. (\E a \in mup[d].acked : a.id = r) =>
         (CHOOSE a \in mup[d].acked : a.id = r) \in Acks
  BY <1>1
<1>3. (\E x \in mup[d].rej : x.id = r) =>
         (CHOOSE x \in mup[d].rej : x.id = r) \in Rejections
  BY <1>1
<1> QED
  BY <1>1, <1>2, <1>3, AckType, PhonesAreDevices DEF Acked

(* A step that changes the rows of one phone and keeps their versions. *)
LEMMA VersionsKept ==
    ASSUME TypeInv, NEW d \in Phones, NEW new \in [Records -> Rows],
           mrow' = [mrow EXCEPT ![d] = new], edits' = edits,
           \A r \in Records : new[r].ver = mrow[d][r].ver
    PROVE  mrow' \in [Phones -> [Records -> Rows]] /\ Versions'
  BY DEF TypeInv, MobileTypeOK, Versions

LEMMA AcknowledgeStep ==
    ASSUME TypeInv, NEW d \in Phones, Acknowledge(d)
    PROVE  Step
<1> DEFINE new == [r \in Records |-> Acked(d, r)]
<1>1. /\ mrow' = [mrow EXCEPT ![d] = new] /\ mup' = [mup EXCEPT ![d] = NoUp]
      /\ mup[d].pc = "ack"
      /\ UNCHANGED cloudVars /\ mcursor' = mcursor /\ mdown' = mdown
  BY DEF Acknowledge, Acked
<1>2. new \in [Records -> Rows] /\ \A r \in Records : new[r].ver = mrow[d][r].ver
  BY AckedType DEF TypeInv
<1>3. edits' = edits /\ call' = call
  BY <1>1 DEF cloudVars, serverVars
<1> HIDE DEF new
<1>4. mrow' \in [Phones -> [Records -> Rows]] /\ Versions'
  BY <1>1, <1>2, <1>3, VersionsKept
<1>5. PhoneTypeOK'
  BY <1>1, <1>4, NoRuns DEF PhoneTypeOK, TypeInv, MobileTypeOK
<1>6. Phases'
  BY <1>1, <1>3 DEF Phases, TypeInv, MobileTypeOK, NoUp
<1> QED
  BY <1>1, <1>4, <1>5, <1>6 DEF Step

LEMMA PushFailStep ==
    ASSUME TypeInv, NEW d \in Phones, PushFail(d)
    PROVE  Step
<1>1. /\ mup' = [mup EXCEPT ![d] = NoUp] /\ Abandon(d, "up")
      /\ mrow' = mrow /\ mcursor' = mcursor /\ mdown' = mdown
  BY DEF PushFail
<1>2. /\ call'[d]["up"] = NoCall /\ edits' = edits
      /\ \A e \in Devices, p \in Roles :
            e # d \/ p # "up" => call'[e][p] = call[e][p]
  BY <1>1, AbandonEffect, PhonesAreDevices, UpDown DEF TypeInv, MobileTypeOK
<1>3. Phases'
  <2>1. \A e \in Phones : call'[e]["down"] = call[e]["down"]
    BY <1>2, PhonesAreDevices, UpDown
  <2>2. \A e \in Phones : e # d => call'[e]["up"] = call[e]["up"] /\ mup'[e] = mup[e]
    BY <1>1, <1>2, PhonesAreDevices, UpDown DEF TypeInv, MobileTypeOK
  <2>3. mup'[d].pc = "idle"
    BY <1>1 DEF TypeInv, MobileTypeOK, NoUp
  <2> QED
    BY <1>1, <1>2, <2>1, <2>2, <2>3 DEF Phases, TypeInv
<1> QED
  BY <1>1, <1>2, <1>3, NoRuns, PhonesAreDevices, UpDown
  DEF Step, CloudStep, TypeInv, MobileTypeOK, PhoneTypeOK, Versions

-----------------------------------------------------------------------------
(* Steps of pull(). *)
LEMMA DownSendStep ==
    ASSUME TypeInv, NEW d \in Phones, NEW run \in Downs, NEW request \in Calls,
           \/ run.pc = "idle" /\ request = NoCall
           \/ /\ run.pc = "wait" /\ request.kind = "pull"
              /\ request.st = "sent" /\ request.now = 0,
           call[d]["down"].st \in {"idle", "done"}, Send(d, "down", request),
           mdown' = [mdown EXCEPT ![d] = run], mup' = mup
    PROVE  /\ CloudStep /\ edits' = edits /\ Phases'
           /\ mdown' \in [Phones -> Downs]
<1>1. /\ ClientCall(d, "down") /\ call'[d]["down"] = request /\ edits' = edits
      /\ \A e \in Devices, p \in Roles :
            e # d \/ p # "down" => call'[e][p] = call[e][p]
  BY SendIsClientCall, PhonesAreDevices, UpDown DEF TypeInv, MobileTypeOK
<1>2. mdown'[d] = run /\ \A e \in Phones : e # d => mdown'[e] = mdown[e]
  BY DEF TypeInv, MobileTypeOK
<1>3. Phases'
  <2> SUFFICES ASSUME NEW e \in Phones
               PROVE  /\ call'[e]["up"] = call[e]["up"]
                      /\ mdown'[e].pc = "idle" => call'[e]["down"] = NoCall
                      /\ mdown'[e].pc = "wait" => call'[e]["down"].kind = "pull"
    BY DEF Phases, TypeInv
  <2>1. call'[e]["up"] = call[e]["up"]
    BY <1>1, PhonesAreDevices, UpDown
  <2>2. CASE e = d
    BY <1>1, <1>2, <2>1, <2>2
  <2>3. CASE e # d
    BY <1>1, <1>2, <2>1, <2>3, PhonesAreDevices, UpDown DEF TypeInv, Phases
  <2> QED
    BY <2>2, <2>3
<1> QED
  BY <1>1, <1>3, PhonesAreDevices, UpDown DEF CloudStep, TypeInv, MobileTypeOK

LEMMA PullBeginStep ==
    ASSUME TypeInv, NEW d \in Phones, PullBegin(d)
    PROVE  Step
<1> DEFINE run == [pc |-> "wait", before |-> mcursor[d]]
<1>1. run \in Downs /\ PullCall(mcursor[d]) \in Calls
  BY RequestsAreCalls DEF TypeInv, MobileTypeOK, Downs
<1>2. call[d]["down"].st = "idle"
  BY DEF PullBegin, TypeInv, Phases, NoCall
<1>3. /\ CloudStep /\ edits' = edits /\ Phases'
      /\ mdown' \in [Phones -> Downs]
  BY <1>1, <1>2, DownSendStep, PullCallIs DEF PullBegin
<1> QED
  BY <1>3 DEF PullBegin, Step, PhoneTypeOK, Versions, TypeInv, MobileTypeOK

(* The row of a batch for a record, and the types of what is applied. *)
LEMMA BatchRow ==
    ASSUME NEW rows, NEW r, \E q \in rows : q.id = r
    PROVE  /\ (CHOOSE q \in rows : q.id = r) \in rows
           /\ (CHOOSE q \in rows : q.id = r).id = r
  OBVIOUS

LEMMA ApplyType ==
    ASSUME NEW row \in Rows, NEW q \in PulledRows
    PROVE  ApplyRow(row, q) \in Rows /\ ApplyRow(row, q).ver = row.ver
<1>1. Adopt(row, q) \in Rows /\ Adopt(row, q).ver = row.ver
  BY DEF Adopt, Rows, PulledRows, Errors
<1> QED
  BY <1>1 DEF ApplyRow

Pulled(d, r) ==
    LET rows == call[d]["down"].rows
    IN  IF \E q \in rows : q.id = r
        THEN ApplyRow(mrow[d][r], CHOOSE q \in rows : q.id = r)
        ELSE mrow[d][r]

LEMMA PulledRowType ==
    ASSUME MobileTypeOK, NEW d \in Phones, NEW r \in Records
    PROVE  Pulled(d, r) \in Rows /\ Pulled(d, r).ver = mrow[d][r].ver
<1>1. mrow[d][r] \in Rows /\ call[d]["down"].rows \subseteq PulledRows
  BY PhonesAreDevices, UpDown DEF MobileTypeOK, CloudTypeOK, Calls
<1> QED
  BY <1>1, ApplyType, BatchRow DEF Pulled

LEMMA PullApplyStep ==
    ASSUME TypeInv, NEW d \in Phones, PullApply(d)
    PROVE  Step
<1> DEFINE new == [r \in Records |-> Pulled(d, r)]
<1>1. /\ mrow' = [mrow EXCEPT ![d] = new]
      /\ mcursor' = [mcursor EXCEPT ![d] = Exact(call[d]["down"].now)]
      /\ mdown' = [mdown EXCEPT ![d] = NoDown]
      /\ Send(d, "down", NoCall) /\ mup' = mup /\ call[d]["down"].st = "done"
  BY DEF PullApply, Pulled, Finish, Replied
<1>2. new \in [Records -> Rows] /\ \A r \in Records : new[r].ver = mrow[d][r].ver
  BY PulledRowType DEF TypeInv
<1> HIDE DEF new
<1>3. /\ CloudStep /\ edits' = edits /\ Phases'
      /\ mdown' \in [Phones -> Downs]
  BY <1>1, NoCallIsCall, NoRuns, DownSendStep DEF NoDown
<1>4. mrow' \in [Phones -> [Records -> Rows]] /\ Versions'
  BY <1>1, <1>2, <1>3, VersionsKept
<1>5. call[d]["down"].now \in 0..MaxClock
  BY PhonesAreDevices, UpDown DEF TypeInv, MobileTypeOK, CloudTypeOK, Calls
<1>6. mcursor' \in [Phones -> Revisions]
  BY <1>1, <1>5, ExactIsRevision DEF TypeInv, MobileTypeOK
<1> QED
  BY <1>1, <1>3, <1>4, <1>6 DEF Step, PhoneTypeOK, TypeInv, MobileTypeOK

LEMMA PullRollbackStep ==
    ASSUME TypeInv, NEW d \in Phones, PullRollback(d)
    PROVE  Step
<1>1. /\ CloudStep /\ edits' = edits /\ Phases'
      /\ mdown' \in [Phones -> Downs]
  BY NoCallIsCall, NoRuns, DownSendStep
  DEF PullRollback, Finish, Replied, NoDown
<1> QED
  BY <1>1 DEF PullRollback, Step, PhoneTypeOK, Versions, TypeInv, MobileTypeOK

LEMMA PullFailStep ==
    ASSUME TypeInv, NEW d \in Phones, PullFail(d)
    PROVE  Step
<1>1. /\ mdown' = [mdown EXCEPT ![d] = NoDown] /\ Abandon(d, "down")
      /\ mrow' = mrow /\ mcursor' = mcursor /\ mup' = mup
  BY DEF PullFail
<1>2. /\ call'[d]["down"] = NoCall /\ edits' = edits
      /\ \A e \in Devices, p \in Roles :
            e # d \/ p # "down" => call'[e][p] = call[e][p]
  BY <1>1, AbandonEffect, PhonesAreDevices, UpDown DEF TypeInv, MobileTypeOK
<1>3. Phases'
  <2>1. \A e \in Phones : call'[e]["up"] = call[e]["up"]
    BY <1>2, PhonesAreDevices, UpDown
  <2>2. \A e \in Phones : e # d =>
           call'[e]["down"] = call[e]["down"] /\ mdown'[e] = mdown[e]
    BY <1>1, <1>2, PhonesAreDevices, UpDown DEF TypeInv, MobileTypeOK
  <2>3. mdown'[d].pc = "idle"
    BY <1>1 DEF TypeInv, MobileTypeOK, NoDown
  <2> QED
    BY <1>1, <1>2, <2>1, <2>2, <2>3 DEF Phases, TypeInv
<1> QED
  BY <1>1, <1>2, <1>3, NoRuns, PhonesAreDevices, UpDown
  DEF Step, CloudStep, TypeInv, MobileTypeOK, PhoneTypeOK, Versions

-----------------------------------------------------------------------------
LEMMA NextStep ==
    ASSUME TypeInv, [Next]_vars
    PROVE  TypeInv' /\ [CloudStep]_cloudVars
<1>1. ASSUME Step
      PROVE  TypeInv' /\ [CloudStep]_cloudVars
  BY <1>1, CloudStepType DEF Step, TypeInv, MobileTypeOK, PhoneTypeOK
<1>2. CASE CloudNext /\ UNCHANGED mobileVars
  BY <1>1, <1>2, CloudNextStep
<1>3. ASSUME NEW d \in Phones, PhoneNext(d)
      PROVE  Step
  BY <1>3, EditStep, PushBeginStep, PreflightStep, PhaseDoneStep,
     AcknowledgeStep, PushFailStep, PullBeginStep, PullApplyStep,
     PullRollbackStep, PullFailStep
  DEF PhoneNext
<1>4. CASE UNCHANGED vars
  BY <1>4
  DEF vars, mobileVars, cloudVars, serverVars, TypeInv, MobileTypeOK,
      CloudTypeOK, Versions, Phases
<1> QED
  BY <1>1, <1>2, <1>3, <1>4 DEF Next

(* The rows, cursors, runs and calls of every number of phones keep their  *)
(* types; in particular a row is never in a state that neither             *)
(* getMobileCloudPending nor the pull's upsert knows.                      *)
THEOREM MobileTypeCorrect == Spec => []MobileTypeOK
<1>1. Init => TypeInv
  BY TypeInvInit
<1>2. TypeInv /\ [Next]_vars => TypeInv'
  BY NextStep
<1>3. TypeInv => MobileTypeOK
  BY DEF TypeInv
<1> QED
  BY <1>1, <1>2, <1>3, PTL DEF Spec

(* Phones are clients the cloud allows: each request of push() and pull()  *)
(* is sent when the one before it was answered or given up, so that at     *)
(* most one of each is under way (the two inFlight maps).                  *)
THEOREM MobileImplementsCloud == Spec => CloudSpec
<1>1. Init => CloudInit
  BY DEF Init
<1>2. Init => TypeInv
  BY TypeInvInit
<1>3. TypeInv /\ [Next]_vars => TypeInv' /\ [CloudStep]_cloudVars
  BY NextStep
<1> QED
  BY <1>1, <1>2, <1>3, PTL DEF Spec, CloudSpec

(* So the revisions of the cloud only grow under any number of phones.     *)
THEOREM MobileRevisionsGrow == Spec => RevisionsGrow
  BY MobileImplementsCloud, RevisionsOnlyGrow, PTL

-----------------------------------------------------------------------------
(* Why a synced row was uploaded.  A pending row keeps what push() read of *)
(* it until its version moves on; what is sent is what was read; what is   *)
(* accepted, pulled or shown as synced is among what the cloud ever held.  *)

SyncedKept(d) ==
    \A r \in Records : mrow[d][r].st = "synced" => mrow[d][r].val \in stored[r]

Snapshot(d) ==
    \A p \in mup[d].pend :
        /\ IsPending(d, p.id)
        /\ p.ver <= mrow[d][p.id].ver
        /\ p.ver = mrow[d][p.id].ver => p.val = mrow[d][p.id].val
        /\ \A q \in mup[d].pend : p.id = q.id => p = q

IsOf(i, changes) == \E p \in changes : p.id = i.id /\ p.val = i.val

SentIsSnapshot(d) ==
    /\ \A i \in mup[d].send : IsOf(i, mup[d].pend)
    /\ call[d]["up"].kind = "push" =>
          \A i \in call[d]["up"].items : IsOf(i, mup[d].pend)

AcceptedKept(d) ==
    call[d]["up"].kind = "push" /\ call[d]["up"].st = "done" =>
        \A r \in call[d]["up"].accepted :
            \E i \in call[d]["up"].items : i.id = r /\ i.val \in stored[r]

AckedKept(d) ==
    \A a \in mup[d].acked :
        \E p \in mup[d].pend :
            p.id = a.id /\ p.ver = a.ver /\ p.val \in stored[a.id]

PulledKept(d) ==
    call[d]["down"].st = "done" =>
        \A q \in call[d]["down"].rows : q.val \in stored[q.id]

PhoneHistory(d) ==
    /\ SyncedKept(d) /\ Snapshot(d) /\ SentIsSnapshot(d)
    /\ AcceptedKept(d) /\ AckedKept(d) /\ PulledKept(d)

History == CloudKept /\ \A d \in Phones : PhoneHistory(d)

LEMMA HistoryInit == Init => History
<1> SUFFICES ASSUME Init PROVE History
  OBVIOUS
<1>1. CloudKept
  BY DEF Init, CloudInit, CloudKept, IsRow, NoRow
<1>2. ASSUME NEW d \in Phones
      PROVE  PhoneHistory(d)
  <2>1. /\ mup[d] = NoUp /\ mdown[d] = NoDown
        /\ \A r \in Records : mrow[d][r].st = "absent"
        /\ call[d]["up"] = NoCall /\ call[d]["down"] = NoCall
    BY <1>2, PhonesAreDevices, UpDown DEF Init, CloudInit, MobileInit, Absent
  <2> QED
    BY <2>1
    DEF PhoneHistory, SyncedKept, Snapshot, SentIsSnapshot, AcceptedKept,
        AckedKept, PulledKept, NoUp, NoCall
<1> QED
  BY <1>1, <1>2 DEF History

-----------------------------------------------------------------------------
(* A step of phone d that the rest of the system does not see. *)
Only(d) ==
    /\ cloud' = cloud /\ stored' = stored
    /\ \A e \in Phones : e # d =>
          /\ mrow'[e] = mrow[e] /\ mup'[e] = mup[e]
          /\ call'[e]["up"] = call[e]["up"]
          /\ call'[e]["down"] = call[e]["down"]

LEMMA OnlyOne ==
    ASSUME History, NEW d \in Phones, Only(d), PhoneHistory(d)'
    PROVE  History'
<1>1. CloudKept'
  BY DEF Only, History, CloudKept
<1>2. ASSUME NEW e \in Phones, e # d
      PROVE  PhoneHistory(e)'
  BY <1>2
  DEF Only, History, PhoneHistory, SyncedKept, Snapshot, SentIsSnapshot,
      AcceptedKept, AckedKept, PulledKept, IsPending
<1> QED
  BY <1>1, <1>2 DEF History

LEMMA EditHistory ==
    ASSUME TypeInv, History, NEW d \in Phones, NEW r \in Records, Edit(d, r)
    PROVE  History'
<1>1. /\ mup' = mup /\ call' = call /\ cloud' = cloud /\ stored' = stored
      /\ mrow' = [mrow EXCEPT ![d][r] = Edited(mrow[d][r])]
  BY DEF Edit, MakeEdit, serverVars
<1>2. Only(d)
  BY <1>1 DEF Only, TypeInv, MobileTypeOK
<1>3. /\ mrow'[d][r] = Edited(mrow[d][r])
      /\ \A s \in Records : s # r => mrow'[d][s] = mrow[d][s]
  BY <1>1 DEF TypeInv, MobileTypeOK
<1>4. /\ mrow'[d][r].st = "pending"
      /\ mrow[d][r].st # "absent" => mrow'[d][r].ver = mrow[d][r].ver + 1
      /\ mrow[d][r].ver \in Nat
  <2>1. mrow[d][r] \in Rows /\ MaxEdits \in Nat
    BY CloudAssumption DEF TypeInv, MobileTypeOK
  <2> QED
    BY <1>3, <2>1 DEF Edited, Rows
<1>5. SyncedKept(d)'
  BY <1>1, <1>3, <1>4 DEF SyncedKept, History, PhoneHistory
<1>6. Snapshot(d)'
  <2> SUFFICES ASSUME NEW p \in mup[d].pend
               PROVE  /\ mrow'[d][p.id].st = "pending"
                      /\ p.ver <= mrow'[d][p.id].ver
                      /\ p.ver = mrow'[d][p.id].ver => p.val = mrow'[d][p.id].val
    BY <1>1 DEF Snapshot, IsPending, History, PhoneHistory
  <2>1. /\ p.id \in Records /\ p.ver \in Nat
        /\ mrow[d][p.id].st = "pending" /\ p.ver <= mrow[d][p.id].ver
        /\ p.ver = mrow[d][p.id].ver => p.val = mrow[d][p.id].val
    BY CloudAssumption
    DEF History, PhoneHistory, Snapshot, IsPending, TypeInv, MobileTypeOK, Ups, Changes
  <2>2. CASE p.id = r
    BY <1>4, <2>1, <2>2
  <2>3. CASE p.id # r
    BY <1>3, <2>1, <2>3
  <2> QED
    BY <2>2, <2>3
<1>7. PhoneHistory(d)'
  BY <1>1, <1>5, <1>6
  DEF History, PhoneHistory, SentIsSnapshot, AcceptedKept, AckedKept, PulledKept
<1> QED
  BY <1>2, <1>7, OnlyOne

(* A step of push() up to the acknowledgement: rows stay as they are. *)
LEMMA UpHistory ==
    ASSUME TypeInv, History, NEW d \in Phones, NEW run, NEW request,
           mrow' = mrow, mup' = [mup EXCEPT ![d] = run],
           Send(d, "up", request), request = NoCall \/ request.st = "sent",
           \/ run.pend = mup[d].pend
           \/ /\ run.acked = {} /\ run.send = {} /\ request.kind # "push"
              /\ \A p \in run.pend :
                    /\ IsPending(d, p.id) /\ p.ver <= mrow[d][p.id].ver
                    /\ p.val = mrow[d][p.id].val
                    /\ \A q \in run.pend : p.id = q.id => p = q,
           \A i \in run.send : IsOf(i, run.pend),
           request.kind = "push" => \A i \in request.items : IsOf(i, run.pend),
           \A a \in run.acked :
              \E p \in run.pend :
                 p.id = a.id /\ p.ver = a.ver /\ p.val \in stored[a.id]
    PROVE  History'
<1>1. /\ call'[d]["up"] = request /\ call'[d]["down"] = call[d]["down"]
      /\ \A e \in Phones : e # d => /\ call'[e]["up"] = call[e]["up"]
                                   /\ call'[e]["down"] = call[e]["down"]
      /\ cloud' = cloud /\ stored' = stored
  BY SendEffect, PhonesAreDevices, UpDown DEF TypeInv, MobileTypeOK
<1>2. mup'[d] = run /\ \A e \in Phones : e # d => mup'[e] = mup[e]
  BY DEF TypeInv, MobileTypeOK
<1>3. Only(d)
  BY <1>1, <1>2 DEF Only
<1>4. Snapshot(d)'
  BY <1>2 DEF History, PhoneHistory, Snapshot, IsPending
<1>5. SentIsSnapshot(d)' /\ AckedKept(d)'
  BY <1>1, <1>2 DEF SentIsSnapshot, AckedKept, IsOf
<1>6. AcceptedKept(d)'
  BY <1>1 DEF AcceptedKept, NoCall
<1>7. SyncedKept(d)' /\ PulledKept(d)'
  BY <1>1 DEF History, PhoneHistory, SyncedKept, PulledKept
<1> QED
  BY <1>3, <1>4, <1>5, <1>6, <1>7, OnlyOne DEF PhoneHistory

LEMMA PushBeginHistory ==
    ASSUME TypeInv, History, NEW d \in Phones, PushBegin(d)
    PROVE  History'
<1> DEFINE pend == {[id |-> r, val |-> mrow[d][r].val, ver |-> mrow[d][r].ver,
                     rev |-> mrow[d][r].rev] :
                        r \in {s \in Records : IsPending(d, s)}}
           run == [NoUp EXCEPT !.pc = "preflight", !.pend = pend]
<1>1. run.pend = pend /\ run.acked = {} /\ run.send = {}
  BY DEF NoUp
<1>2. \A p \in pend :
         /\ IsPending(d, p.id) /\ p.ver <= mrow[d][p.id].ver
         /\ p.val = mrow[d][p.id].val
         /\ \A q \in pend : p.id = q.id => p = q
  <2>1. \A r \in Records : mrow[d][r].ver \in Nat
    BY CloudAssumption DEF TypeInv, MobileTypeOK, Rows
  <2> QED
    BY <2>1
<1>3. /\ mrow' = mrow /\ mup' = [mup EXCEPT ![d] = run]
      /\ Send(d, "up", PullCall(NoRevision))
  BY DEF PushBegin
<1>4. PullCall(NoRevision).st = "sent" /\ PullCall(NoRevision).kind # "push"
  BY PullCallIs
<1> HIDE DEF pend, run
<1> QED
  BY <1>1, <1>2, <1>3, <1>4, UpHistory

LEMMA NextPhaseHistory ==
    ASSUME TypeInv, History, NEW d \in Phones, NEW run \in Ups,
           NextPhase(d, run), mrow' = mrow, run.pend = mup[d].pend,
           \A i \in run.send : IsOf(i, run.pend),
           \A a \in run.acked :
              \E p \in run.pend :
                 p.id = a.id /\ p.ver = a.ver /\ p.val \in stored[a.id]
    PROVE  History'
<1>1. ASSUME NEW pc \in {"categories", "movements", "ack"}
      PROVE  /\ [run EXCEPT !.pc = pc].pend = run.pend
             /\ [run EXCEPT !.pc = pc].send = run.send
             /\ [run EXCEPT !.pc = pc].acked = run.acked
  BY DEF Ups
<1>2. /\ \A i \in CategoryItems(run.send) : i \in run.send
      /\ \A i \in MovementItems(run.send) : i \in run.send
  BY DEF CategoryItems, MovementItems
<1>3. ASSUME NEW pc \in {"categories", "movements", "ack"}, NEW items \in SUBSET run.send,
             mup' = [mup EXCEPT ![d] = [run EXCEPT !.pc = pc]],
             Send(d, "up", PushCall(items)) \/ Send(d, "up", NoCall)
      PROVE  History'
  <2> DEFINE new == [run EXCEPT !.pc = pc]
  <2>1. new.pend = run.pend /\ new.send = run.send /\ new.acked = run.acked
    BY <1>1
  <2>2. /\ PushCall(items).st = "sent" /\ PushCall(items).items = items
        /\ NoCall.kind # "push"
    BY PushCallIs DEF NoCall
  <2> HIDE DEF new
  <2>3. mup' = [mup EXCEPT ![d] = new]
    BY <1>3 DEF new
  <2>4. CASE Send(d, "up", PushCall(items))
    BY <2>1, <2>2, <2>3, <2>4, UpHistory
  <2>5. CASE Send(d, "up", NoCall)
    BY <2>1, <2>2, <2>3, <2>5, UpHistory
  <2> QED
    BY <1>3, <2>4, <2>5
<1> QED
  BY <1>2, <1>3 DEF NextPhase, Finish

LEMMA PreflightHistory ==
    ASSUME TypeInv, History, NEW d \in Phones, Preflight(d)
    PROVE  History'
<1> DEFINE run == mup[d]
           rows == call[d]["up"].rows
           clash == {p \in run.pend : Clashes(d, p, rows)}
           items == {ItemOf(p, rows) : p \in run.pend \ clash}
           orphans == OfRejectedCategory(items, Reject(clash, "conflict_remote_newer"))
           dropped == clash \cup {p \in run.pend : p.id \in {i.id : i \in orphans}}
           send == items \ orphans
           rej == Reject(dropped, "conflict_remote_newer")
           next == [run EXCEPT !.send = send, !.rej = rej]
<1>1. /\ run \in Ups /\ run.pend \in SUBSET Changes
      /\ rows \in SUBSET PulledRows
  BY PhonesAreDevices, UpDown DEF TypeInv, MobileTypeOK, CloudTypeOK, Calls, Ups
<1>2. items \in SUBSET Items /\ rej \in SUBSET Rejections
  BY <1>1, ItemType, RejectType DEF Errors
<1>3. \A i \in items : IsOf(i, run.pend)
  BY DEF IsOf, ItemOf
<1>4. \A i \in send : i \in items
  OBVIOUS
<1>5. NextPhase(d, next) /\ mrow' = mrow
  BY DEF Preflight
<1>6. \A a \in run.acked :
         \E p \in run.pend :
            p.id = a.id /\ p.ver = a.ver /\ p.val \in stored[a.id]
  BY DEF History, PhoneHistory, AckedKept
<1> HIDE DEF send, rej, items
<1>7. /\ next \in Ups /\ next.pend = run.pend /\ next.send = send
      /\ next.acked = run.acked
  BY <1>1, <1>2, <1>4 DEF Ups
<1> HIDE DEF next
<1> QED
  BY <1>3, <1>4, <1>5, <1>6, <1>7, NextPhaseHistory

LEMMA PhaseDoneHistory ==
    ASSUME TypeInv, History, NEW d \in Phones, PhaseDone(d)
    PROVE  History'
<1> DEFINE run == mup[d]
           c == call[d]["up"]
           of(ids) == {p \in run.pend : p.id \in ids}
           acked == {[id |-> p.id, ver |-> p.ver, rev |-> Exact(c.now)] :
                        p \in of(c.accepted)}
           rej == run.rej \cup Reject(of(c.rejected), "conflict_remote_newer")
           rest == run.send \ c.items
           orphans == OfRejectedCategory(rest, rej)
           send == rest \ orphans
           rej2 == rej \cup Reject(of({i.id : i \in orphans}), "category_rejected")
           next == [run EXCEPT !.send = send, !.acked = run.acked \cup acked,
                               !.rej = rej2]
<1>1. /\ run \in Ups /\ run.pend \in SUBSET Changes
      /\ run.send \in SUBSET Items /\ run.acked \in SUBSET Acks
      /\ run.rej \in SUBSET Rejections /\ c.now \in 0..MaxClock
  BY PhonesAreDevices, UpDown DEF TypeInv, MobileTypeOK, Ups, CloudTypeOK, Calls
<1>2. /\ c.kind = "push" /\ c.st = "done"
      /\ NextPhase(d, next) /\ mrow' = mrow
  BY DEF PhaseDone, Replied
<1>3. acked \in SUBSET Acks /\ rej2 \in SUBSET Rejections
  BY <1>1, ExactIsRevision, RejectType DEF Changes, Acks, Errors
<1>4. ASSUME NEW p \in run.pend, p.id \in c.accepted
      PROVE  p.val \in stored[p.id]
  <2>1. PICK i \in c.items : i.id = p.id /\ i.val \in stored[p.id]
    BY <1>2, <1>4 DEF History, PhoneHistory, AcceptedKept
  <2>2. PICK q \in run.pend : q.id = i.id /\ q.val = i.val
    BY <1>2 DEF History, PhoneHistory, SentIsSnapshot, IsOf
  <2>3. p = q
    BY <2>1, <2>2 DEF History, PhoneHistory, Snapshot
  <2> QED
    BY <2>1, <2>2, <2>3
<1>5. \A a \in run.acked \cup acked :
         \E p \in run.pend :
            p.id = a.id /\ p.ver = a.ver /\ p.val \in stored[a.id]
  <2>1. \A a \in run.acked :
           \E p \in run.pend :
              p.id = a.id /\ p.ver = a.ver /\ p.val \in stored[a.id]
    BY DEF History, PhoneHistory, AckedKept
  <2> QED
    BY <1>4, <2>1
<1>6. \A i \in send : i \in Items /\ IsOf(i, run.pend)
  BY <1>1 DEF History, PhoneHistory, SentIsSnapshot
<1> HIDE DEF send, rej2, acked
<1>7. /\ next \in Ups /\ next.pend = run.pend /\ next.send = send
      /\ next.acked = run.acked \cup acked
  BY <1>1, <1>3, <1>6 DEF Ups
<1> HIDE DEF next
<1> QED
  BY <1>2, <1>5, <1>6, <1>7, NextPhaseHistory

(* acknowledge() shows a row as synced only at the version push() read, so *)
(* with the content the cloud accepted.                                    *)
LEMMA AckedIsStored ==
    ASSUME TypeInv, History, NEW d \in Phones, NEW r \in Records,
           Acked(d, r).st = "synced"
    PROVE  Acked(d, r).val \in stored[r]
<1> DEFINE row == mrow[d][r]
<1>1. row \in Rows /\ mup[d].acked \subseteq Acks /\ mup[d].rej \subseteq Rejections
  BY DEF TypeInv, MobileTypeOK, Ups
<1>2. Acked(d, r).val = row.val
  BY AckedType DEF TypeInv
<1>3. row.st = "synced" => row.val \in stored[r]
  BY DEF History, PhoneHistory, SyncedKept
<1>4. CASE \E a \in mup[d].acked : a.id = r
  <2> DEFINE a == CHOOSE a \in mup[d].acked : a.id = r
  <2>1. a \in mup[d].acked /\ a.id = r
    BY <1>4
  <2>2. PICK p \in mup[d].pend :
           p.id = r /\ p.ver = a.ver /\ p.val \in stored[r]
    BY <2>1 DEF History, PhoneHistory, AckedKept
  <2>3. p.ver = row.ver => p.val = row.val
    BY <2>2 DEF History, PhoneHistory, Snapshot
  <2>4. Acked(d, r) = AckRow(d, row, a)
    BY <1>4 DEF Acked
  <2> HIDE DEF a
  <2>5. AckRow(d, row, a).st = "synced" => row.st = "synced" \/ row.ver = a.ver
    BY <1>1 DEF AckRow, Rows
  <2> QED
    BY <1>2, <1>3, <2>2, <2>3, <2>4, <2>5
<1>5. CASE ~ \E a \in mup[d].acked : a.id = r
  <2>1. Acked(d, r).st = row.st
    <3>1. (\E x \in mup[d].rej : x.id = r) =>
             (CHOOSE x \in mup[d].rej : x.id = r) \in Rejections
      BY <1>1
    <3> QED
      BY <1>1, <1>5, <3>1, AckType, PhonesAreDevices DEF Acked
  <2> QED
    BY <1>2, <1>3, <2>1
<1> QED
  BY <1>4, <1>5

(* A run that ends leaves nothing to account for but the rows. *)
LEMMA IdleHistory ==
    ASSUME TypeInv, History, NEW d \in Phones, mup'[d] = NoUp,
           SyncedKept(d)', call'[d]["up"] = NoCall, call'[d]["down"] = call[d]["down"],
           cloud' = cloud, stored' = stored,
           \A e \in Phones : e # d =>
              /\ mrow'[e] = mrow[e] /\ mup'[e] = mup[e]
              /\ call'[e]["up"] = call[e]["up"]
              /\ call'[e]["down"] = call[e]["down"]
    PROVE  History'
<1>1. Only(d)
  BY DEF Only
<1>2. PhoneHistory(d)'
  BY DEF PhoneHistory, Snapshot, SentIsSnapshot, AcceptedKept, AckedKept,
         PulledKept, NoUp, NoCall, History
<1> QED
  BY <1>1, <1>2, OnlyOne

LEMMA AcknowledgeHistory ==
    ASSUME TypeInv, History, NEW d \in Phones, Acknowledge(d)
    PROVE  History'
<1>1. /\ mrow' = [mrow EXCEPT ![d] = [r \in Records |-> Acked(d, r)]]
      /\ mup' = [mup EXCEPT ![d] = NoUp] /\ mup[d].pc = "ack"
      /\ call' = call /\ cloud' = cloud /\ stored' = stored
  BY DEF Acknowledge, Acked, cloudVars, serverVars
<1>2. /\ \A r \in Records : mrow'[d][r] = Acked(d, r)
      /\ mup'[d] = NoUp
      /\ \A e \in Phones : e # d => mrow'[e] = mrow[e] /\ mup'[e] = mup[e]
  BY <1>1 DEF TypeInv, MobileTypeOK
<1>3. SyncedKept(d)'
  BY <1>1, <1>2, AckedIsStored DEF SyncedKept
<1>4. call'[d]["up"] = NoCall
  BY <1>1 DEF TypeInv, Phases
<1> QED
  BY <1>1, <1>2, <1>3, <1>4, IdleHistory

LEMMA PushFailHistory ==
    ASSUME TypeInv, History, NEW d \in Phones, PushFail(d)
    PROVE  History'
<1>1. /\ mup' = [mup EXCEPT ![d] = NoUp] /\ Abandon(d, "up") /\ mrow' = mrow
  BY DEF PushFail
<1>2. /\ call'[d]["up"] = NoCall /\ call'[d]["down"] = call[d]["down"]
      /\ cloud' = cloud /\ stored' = stored
      /\ \A e \in Phones : e # d => /\ call'[e]["up"] = call[e]["up"]
                                   /\ call'[e]["down"] = call[e]["down"]
  BY <1>1, PhonesAreDevices, UpDown DEF Abandon, TypeInv, MobileTypeOK, CloudTypeOK
<1>3. mup'[d] = NoUp /\ \A e \in Phones : e # d => mup'[e] = mup[e]
  BY <1>1 DEF TypeInv, MobileTypeOK
<1>4. SyncedKept(d)'
  BY <1>1, <1>2 DEF History, PhoneHistory, SyncedKept
<1> QED
  BY <1>1, <1>2, <1>3, <1>4, IdleHistory

-----------------------------------------------------------------------------
(* Steps of pull() and of the cloud. *)
LEMMA DownHistory ==
    ASSUME TypeInv, History, NEW d \in Phones, UNCHANGED <<mrow, mup>>,
           cloud' = cloud, stored' = stored,
           \A e \in Devices, p \in Roles :
              e # d \/ p # "down" => call'[e][p] = call[e][p],
           call'[d]["down"].st # "done"
    PROVE  History'
<1>1. Only(d) /\ call'[d]["up"] = call[d]["up"]
  BY PhonesAreDevices, UpDown DEF Only
<1>2. PhoneHistory(d)'
  BY <1>1
  DEF History, PhoneHistory, SyncedKept, Snapshot, SentIsSnapshot, IsPending,
      AcceptedKept, AckedKept, PulledKept
<1> QED
  BY <1>1, <1>2, OnlyOne

LEMMA PullBeginHistory ==
    ASSUME TypeInv, History, NEW d \in Phones, PullBegin(d)
    PROVE  History'
<1>1. Send(d, "down", PullCall(mcursor[d])) /\ UNCHANGED <<mrow, mup>>
  BY DEF PullBegin
<1> QED
  BY <1>1, SendEffect, DownHistory, PullCallIs, PhonesAreDevices, UpDown
  DEF TypeInv, MobileTypeOK

LEMMA PullRollbackHistory ==
    ASSUME TypeInv, History, NEW d \in Phones, PullRollback(d)
    PROVE  History'
<1>1. Send(d, "down", NoCall) /\ UNCHANGED <<mrow, mup>>
  BY DEF PullRollback, Finish
<1>2. NoCall.st # "done"
  BY DEF NoCall
<1> QED
  BY <1>1, <1>2, SendEffect, DownHistory, PhonesAreDevices, UpDown
  DEF TypeInv, MobileTypeOK

LEMMA PullFailHistory ==
    ASSUME TypeInv, History, NEW d \in Phones, PullFail(d)
    PROVE  History'
<1>1. /\ Abandon(d, "down") /\ UNCHANGED <<mrow, mup>>
      /\ cloud' = cloud /\ stored' = stored
  BY DEF PullFail, Abandon
<1>2. NoCall.st # "done"
  BY DEF NoCall
<1> QED
  BY <1>1, <1>2, AbandonEffect, DownHistory, PhonesAreDevices, UpDown
  DEF TypeInv, MobileTypeOK

(* A batch that is applied leaves the pending rows alone and brings what   *)
(* the cloud stored.                                                       *)
LEMMA PulledIsStored ==
    ASSUME TypeInv, History, NEW d \in Phones, NEW r \in Records,
           Replied(d, "down", "pull"), Applicable(d)
    PROVE  /\ IsPending(d, r) => Pulled(d, r) = mrow[d][r]
           /\ Pulled(d, r).st = "synced" => Pulled(d, r).val \in stored[r]
<1> DEFINE rows == call[d]["down"].rows
           row == mrow[d][r]
<1>1. row \in Rows
  BY DEF TypeInv, MobileTypeOK
<1>2. row.st = "synced" => row.val \in stored[r]
  BY DEF History, PhoneHistory, SyncedKept
<1>3. CASE \E q \in rows : q.id = r
  <2> DEFINE q == CHOOSE q \in rows : q.id = r
  <2>1. q \in rows /\ q.id = r
    BY <1>3
  <2>2. q.val \in stored[r]
    BY <2>1 DEF Replied, History, PhoneHistory, PulledKept
  <2>3. Pulled(d, r) = ApplyRow(row, q)
    BY <1>3 DEF Pulled
  <2> HIDE DEF q
  <2>4. ApplyRow(row, q) = row \/ ApplyRow(row, q).val = q.val
    BY <1>1 DEF ApplyRow, Adopt, Rows
  <2>5. row.st = "pending" => ApplyRow(row, q) = row
    BY DEF ApplyRow
  <2> QED
    BY <1>2, <2>2, <2>3, <2>4, <2>5 DEF IsPending
<1>4. CASE ~ \E q \in rows : q.id = r
  BY <1>2, <1>4 DEF Pulled
<1> QED
  BY <1>3, <1>4

LEMMA PullApplyHistory ==
    ASSUME TypeInv, History, NEW d \in Phones, PullApply(d)
    PROVE  History'
<1>1. /\ mrow' = [mrow EXCEPT ![d] = [r \in Records |-> Pulled(d, r)]]
      /\ Send(d, "down", NoCall) /\ mup' = mup
      /\ Replied(d, "down", "pull") /\ Applicable(d)
  BY DEF PullApply, Pulled, Finish
<1>2. /\ \A r \in Records : mrow'[d][r] = Pulled(d, r)
      /\ \A e \in Phones : e # d => mrow'[e] = mrow[e]
  BY <1>1 DEF TypeInv, MobileTypeOK
<1>3. /\ call'[d]["down"] = NoCall /\ call'[d]["up"] = call[d]["up"]
      /\ cloud' = cloud /\ stored' = stored
      /\ \A e \in Phones : e # d => /\ call'[e]["up"] = call[e]["up"]
                                   /\ call'[e]["down"] = call[e]["down"]
  BY <1>1, SendEffect, PhonesAreDevices, UpDown DEF TypeInv, MobileTypeOK
<1>4. Only(d)
  BY <1>1, <1>2, <1>3 DEF Only
<1>5. SyncedKept(d)'
  BY <1>1, <1>2, <1>3, PulledIsStored DEF SyncedKept
<1>6. Snapshot(d)'
  <2> SUFFICES ASSUME NEW p \in mup[d].pend
               PROVE  mrow'[d][p.id] = mrow[d][p.id]
    BY <1>1 DEF History, PhoneHistory, Snapshot, IsPending
  <2>1. p.id \in Records /\ IsPending(d, p.id)
    BY DEF History, PhoneHistory, Snapshot, TypeInv, MobileTypeOK, Ups, Changes
  <2> QED
    BY <1>1, <1>2, <2>1, PulledIsStored
<1>7. PhoneHistory(d)'
  BY <1>1, <1>3, <1>5, <1>6
  DEF History, PhoneHistory, SentIsSnapshot, AcceptedKept, AckedKept,
      PulledKept, NoCall
<1> QED
  BY <1>4, <1>7, OnlyOne

LEMMA CloudNextHistory ==
    ASSUME TypeInv, History, CloudNext, UNCHANGED mobileVars
    PROVE  History'
<1>1. CloudTypeOK /\ CloudKept
  BY DEF TypeInv, MobileTypeOK, History
<1>2. CloudHistory
  BY <1>1, CloudNextStores
<1>3. ASSUME NEW d \in Phones
      PROVE  PhoneHistory(d)'
  <2>1. /\ mrow'[d] = mrow[d] /\ mup'[d] = mup[d] /\ mdown'[d] = mdown[d]
        /\ mup[d].pend \subseteq Changes /\ mup[d].acked \subseteq Acks
    BY DEF mobileVars, TypeInv, MobileTypeOK, Ups
  <2>2. CallStep(d, "up") /\ CallStep(d, "down")
    BY <1>2, PhonesAreDevices, UpDown DEF CloudHistory
  <2>3. SyncedKept(d)'
    BY <1>2, <2>1 DEF CloudHistory, History, PhoneHistory, SyncedKept
  <2>4. Snapshot(d)'
    BY <2>1 DEF History, PhoneHistory, Snapshot, IsPending
  <2>5. SentIsSnapshot(d)'
    BY <2>1, <2>2 DEF History, PhoneHistory, SentIsSnapshot, CallStep, IsOf
  <2>6. AcceptedKept(d)'
    <3> SUFFICES ASSUME call'[d]["up"].kind = "push", call'[d]["up"].st = "done",
                        NEW r \in call'[d]["up"].accepted
                 PROVE  \E i \in call'[d]["up"].items :
                           i.id = r /\ i.val \in stored'[r]
      BY DEF AcceptedKept
    <3>1. CASE call[d]["up"].st = "done" /\ r \in call[d]["up"].accepted
      <4>1. PICK i \in call[d]["up"].items : i.id = r /\ i.val \in stored[r]
        BY <2>2, <3>1 DEF CallStep, History, PhoneHistory, AcceptedKept
      <4>2. i.id \in Records
        BY PhonesAreDevices, UpDown
        DEF TypeInv, MobileTypeOK, CloudTypeOK, Calls, Items
      <4> QED
        BY <1>2, <2>2, <4>1, <4>2 DEF CallStep, CloudHistory
    <3>2. CASE \E i \in call[d]["up"].items : i.id = r /\ i.val \in stored'[r]
      BY <2>2, <3>2 DEF CallStep
    <3> QED
      BY <2>2, <3>1, <3>2 DEF CallStep
  <2>7. AckedKept(d)'
    <3> SUFFICES ASSUME NEW a \in mup[d].acked
                 PROVE  \E p \in mup[d].pend :
                           p.id = a.id /\ p.ver = a.ver /\ p.val \in stored'[a.id]
      BY <2>1 DEF AckedKept
    <3>1. a.id \in Records
      BY <2>1 DEF Acks
    <3> QED
      BY <1>2, <3>1 DEF CloudHistory, History, PhoneHistory, AckedKept
  <2>8. PulledKept(d)'
    <3> SUFFICES ASSUME call'[d]["down"].st = "done",
                        NEW q \in call'[d]["down"].rows
                 PROVE  q.val \in stored'[q.id]
      BY DEF PulledKept
    <3>1. call'[d]["down"].kind = "pull"
      <4>1. call'[d]["down"] # NoCall
        BY DEF NoCall
      <4>2. call[d]["down"] # NoCall
        BY <1>1, <4>1, CloudNextKeepsKinds, PhonesAreDevices, UpDown
      <4>3. mdown[d].pc = "wait"
        BY <4>2 DEF TypeInv, Phases, MobileTypeOK, Downs
      <4> QED
        BY <2>2, <4>3 DEF TypeInv, Phases, CallStep
    <3>2. CASE call[d]["down"].st = "done" /\ q \in call[d]["down"].rows
      <4>1. q.id \in Records
        BY <3>2, PhonesAreDevices, UpDown
        DEF TypeInv, MobileTypeOK, CloudTypeOK, Calls, PulledRows
      <4> QED
        BY <1>2, <3>2, <4>1 DEF CloudHistory, History, PhoneHistory, PulledKept
    <3>3. CASE q.id \in Records /\ q.val \in stored[q.id]
      BY <1>2, <3>3 DEF CloudHistory
    <3> QED
      BY <2>2, <3>1, <3>2, <3>3 DEF CallStep
  <2> QED
    BY <2>3, <2>4, <2>5, <2>6, <2>7, <2>8 DEF PhoneHistory
<1> QED
  BY <1>2, <1>3 DEF History, CloudHistory

-----------------------------------------------------------------------------
LEMMA HistoryStep ==
    ASSUME TypeInv, History, [Next]_vars
    PROVE  History'
<1>1. CASE CloudNext /\ UNCHANGED mobileVars
  BY <1>1, CloudNextHistory
<1>2. ASSUME NEW d \in Phones, PhoneNext(d)
      PROVE  History'
  BY <1>2, EditHistory, PushBeginHistory, PreflightHistory, PhaseDoneHistory,
     AcknowledgeHistory, PushFailHistory, PullBeginHistory, PullApplyHistory,
     PullRollbackHistory, PullFailHistory
  DEF PhoneNext
<1>3. CASE UNCHANGED vars
  BY <1>3
  DEF vars, mobileVars, cloudVars, serverVars, History, CloudKept, PhoneHistory,
      SyncedKept, Snapshot, SentIsSnapshot, AcceptedKept, AckedKept, PulledKept,
      IsPending
<1> QED
  BY <1>1, <1>2, <1>3 DEF Next

(* A row the phone shows as synced holds a content the cloud stored, for   *)
(* every number of phones, of records and of failures: the comparison of   *)
(* local_change_version in acknowledge() is enough.                        *)
THEOREM SyncedMeansUploaded == Spec => []SyncedWasUploaded
<1>1. Init => TypeInv /\ History
  BY TypeInvInit, HistoryInit
<1>2. TypeInv /\ History /\ [Next]_vars => TypeInv' /\ History'
  BY NextStep, HistoryStep
<1>3. History => SyncedWasUploaded
  BY DEF History, PhoneHistory, SyncedKept, SyncedWasUploaded
<1> QED
  BY <1>1, <1>2, <1>3, PTL DEF Spec

-----------------------------------------------------------------------------
(* A step keeps what a pending row holds. *)
Kept ==
    \A d \in Phones, r \in Records :
        IsPending(d, r) => mrow[d][r].val \subseteq mrow'[d][r].val

LEMMA PendingStep ==
    ASSUME TypeInv, History, [Next]_vars
    PROVE  Kept
<1>1. CASE mrow' = mrow
  BY <1>1 DEF Kept
<1>2. ASSUME NEW d \in Phones, NEW r \in Records, Edit(d, r)
      PROVE  Kept
  <2>1. mrow' = [mrow EXCEPT ![d][r] = Edited(mrow[d][r])]
    BY <1>2 DEF Edit
  <2>2. mrow[d][r] \in Rows
    BY DEF TypeInv, MobileTypeOK
  <2>3. mrow[d][r].val \subseteq Edited(mrow[d][r]).val
    BY <2>2 DEF Edited, Rows
  <2> QED
    BY <2>1, <2>3 DEF Kept, TypeInv, MobileTypeOK
<1>3. ASSUME NEW d \in Phones, Acknowledge(d)
      PROVE  Kept
  <2>1. mrow' = [mrow EXCEPT ![d] = [r \in Records |-> Acked(d, r)]]
    BY <1>3 DEF Acknowledge, Acked
  <2>2. \A r \in Records : Acked(d, r).val = mrow[d][r].val
    BY AckedType DEF TypeInv
  <2> QED
    BY <2>1, <2>2 DEF Kept, TypeInv, MobileTypeOK
<1>4. ASSUME NEW d \in Phones, PullApply(d)
      PROVE  Kept
  <2>1. /\ mrow' = [mrow EXCEPT ![d] = [r \in Records |-> Pulled(d, r)]]
        /\ Replied(d, "down", "pull") /\ Applicable(d)
    BY <1>4 DEF PullApply, Pulled
  <2>2. \A r \in Records : IsPending(d, r) => Pulled(d, r) = mrow[d][r]
    BY <2>1, PulledIsStored
  <2> QED
    BY <2>1, <2>2 DEF Kept, TypeInv, MobileTypeOK
<1>5. ASSUME NEW d \in Phones,
             \/ PushBegin(d) \/ Preflight(d) \/ PhaseDone(d) \/ PushFail(d)
             \/ PullBegin(d) \/ PullRollback(d) \/ PullFail(d)
      PROVE  mrow' = mrow
  BY <1>5
  DEF PushBegin, Preflight, PhaseDone, PushFail, PullBegin, PullRollback, PullFail
<1> QED
  BY <1>1, <1>2, <1>3, <1>4, <1>5 DEF Next, PhoneNext, vars, mobileVars

(* No answer, late reply, failure or download takes an unconfirmed edit    *)
(* away from a phone.                                                      *)
THEOREM EditsSurvive == Spec => PendingSurvives
<1>1. Init => TypeInv /\ History
  BY TypeInvInit, HistoryInit
<1>2. TypeInv /\ History /\ [Next]_vars => TypeInv' /\ History'
  BY NextStep, HistoryStep
<1>3. TypeInv /\ History /\ [Next]_vars =>
         [\A d \in Phones, r \in Records :
             IsPending(d, r) => mrow[d][r].val \subseteq mrow'[d][r].val]_vars
  BY PendingStep DEF Kept
<1> QED
  BY <1>1, <1>2, <1>3, PTL DEF Spec, PendingSurvives
-----------------------------------------------------------------------------
(* What a phone writes descends from what it replaces, and a movement      *)
(* never comes before its category.  The reason is what phones, requests   *)
(* and answers know of the cloud's rows.                                   *)

(* The cloud is not behind a revision somebody knows; if it still is at    *)
(* that revision, the content he has descends from the cloud's.            *)
Saw(r, rev, val) ==
    /\ rev <= cloud[r].rev
    /\ IsRow(cloud[r]) /\ rev = cloud[r].rev => cloud[r].val \subseteq val

(* The category of a movement is in the cloud. *)
Led(r) == r \in Movements => IsRow(cloud[CategoryOf[r]])

OncePerRecord(changes) == \A i, j \in changes : i.id = j.id => i = j

RequestFollows(items) ==
    /\ OncePerRecord(items)
    /\ \A i \in items : Saw(i.id, i.base, i.val) /\ Led(i.id)

AnswerFollows(c) ==
    /\ c.kind = "push" /\ c.st = "done" =>
          \A i \in c.items :
             /\ IsRow(cloud[i.id])
             /\ i.id \in c.accepted => Saw(i.id, Exact(c.now), i.val)
    /\ c.kind = "pull" /\ c.st = "done" =>
          \A q \in c.rows : IsRow(cloud[q.id]) /\ Saw(q.id, q.rev, q.val)

CallFollows(d, o) == RequestFollows(call[d][o].items) /\ AnswerFollows(call[d][o])

LateFollows == \A q \in late : \A i \in q.items : Led(i.id)

RowFollows(d, r) ==
    /\ Saw(r, mrow[d][r].rev, mrow[d][r].val)
    /\ mrow[d][r].st = "synced" => IsRow(cloud[r])
    /\ r \in Movements /\ Present(d, r) => Present(d, CategoryOf[r])

(* A pending row stays at the revision push() read, and only grows; the    *)
(* category of a movement that was read was read with it, or is known.     *)
ReadFollows(d, pend) ==
    \A p \in pend :
        /\ Saw(p.id, p.rev, p.val)
        /\ p.rev = mrow[d][p.id].rev /\ p.val \subseteq mrow[d][p.id].val
        /\ p.id \in Movements =>
              Led(p.id) \/ \E q \in pend : q.id = CategoryOf[p.id]

(* The category of a movement to be sent is on its way or has arrived. *)
SendFollows(run, items) ==
    /\ OncePerRecord(run.send)
    /\ \A i \in run.send :
          /\ Saw(i.id, i.base, i.val)
          /\ i.id \in Movements =>
                \/ Led(i.id)
                \/ /\ run.pc = "categories"
                   /\ \E j \in items : j.id = CategoryOf[i.id]

AckedFollows(run) ==
    \A a \in run.acked :
        /\ IsRow(cloud[a.id])
        /\ \A p \in run.pend : p.id = a.id => Saw(a.id, a.rev, p.val)

RunFollows(d, run, items) ==
    ReadFollows(d, run.pend) /\ SendFollows(run, items) /\ AckedFollows(run)

PhoneFollows(d) ==
    /\ \A r \in Records : RowFollows(d, r)
    /\ RunFollows(d, mup[d], call[d]["up"].items)

Follows ==
    /\ CloudReferences
    /\ \A d \in Devices, o \in Roles : CallFollows(d, o)
    /\ LateFollows
    /\ \A d \in Phones : PhoneFollows(d)

WriteInv == TypeInv /\ History /\ PushInv /\ Follows

LEMMA FollowsInit == Init => Follows
<1> SUFFICES ASSUME Init PROVE Follows
  OBVIOUS
<1>1. CloudReferences
  BY CloudAssumption DEF Init, CloudInit, CloudReferences, IsRow, NoRow, Movements
<1>2. \A d \in Devices, o \in Roles : CallFollows(d, o)
  BY DEF Init, CloudInit, CallFollows, RequestFollows, AnswerFollows,
         OncePerRecord, NoCall
<1>3. LateFollows
  BY DEF Init, CloudInit, LateFollows
<1>4. ASSUME NEW d \in Phones
      PROVE  PhoneFollows(d)
  <2>1. mup[d] = NoUp /\ \A r \in Records : mrow[d][r] = Absent /\ cloud[r] = NoRow
    BY DEF Init, CloudInit, MobileInit
  <2>2. \A r \in Records : RowFollows(d, r)
    BY <2>1 DEF RowFollows, Saw, Absent, NoRow, IsRow, NoRevision, Present
  <2>3. RunFollows(d, mup[d], call[d]["up"].items)
    BY <2>1 DEF RunFollows, ReadFollows, SendFollows, AckedFollows,
                OncePerRecord, NoUp
  <2> QED
    BY <2>2, <2>3 DEF PhoneFollows
<1> QED
  BY <1>1, <1>2, <1>3, <1>4 DEF Follows

-----------------------------------------------------------------------------
(* What is known stays known while rows only grow. *)
LEMMA GrowKeeps ==
    ASSUME CloudTypeOK, CloudTypeOK', Grow
    PROVE  /\ \A r \in Records : IsRow(cloud[r]) => IsRow(cloud[r])'
           /\ \A r \in Records : Led(r) => Led(r)'
           /\ \A r \in Records, rev \in Revisions : \A val :
                 Saw(r, rev, val) => Saw(r, rev, val)'
<1>1. /\ \A r \in Records : cloud[r].rev \in Nat /\ cloud'[r].rev \in Nat
      /\ Revisions \subseteq Nat
  <2>1. \A r \in Records : cloud'[r].rev \in Revisions
    BY DEF CloudTypeOK, CloudRows
  <2>2. Revisions \subseteq Nat
    BY DEF Revisions
  <2> QED
    BY <2>1, <2>2, Numbers
<1>2. \A r \in Records : IsRow(cloud[r]) => IsRow(cloud[r])'
  BY <1>1 DEF Grow, IsRow, NoRevision
<1>3. \A r \in Records : Led(r) => Led(r)'
  <2>1. \A r \in Movements : CategoryOf[r] \in Records
    BY CloudAssumption
  <2> QED
    BY <1>2, <2>1 DEF Led
<1>4. ASSUME NEW r \in Records, NEW rev \in Revisions, NEW val, Saw(r, rev, val)
      PROVE  Saw(r, rev, val)'
  <2>1. CASE cloud'[r] = cloud[r]
    BY <1>4, <2>1 DEF Saw
  <2>2. CASE cloud'[r] # cloud[r]
    <3>1. cloud'[r].rev > cloud[r].rev /\ rev \in Nat
      BY <1>1, <2>2 DEF Grow
    <3> QED
      BY <1>1, <1>4, <3>1 DEF Saw
  <2> QED
    BY <2>1, <2>2
<1> QED
  BY <1>2, <1>3, <1>4

(* So a phone knows no less when the cloud has taken a step, as long as    *)
(* its rows, its run and the request of its run are the same.              *)
LEMMA PhoneKnows ==
    ASSUME TypeInv, CloudTypeOK', Grow, NEW d \in Phones, PhoneFollows(d),
           mrow'[d] = mrow[d], mup'[d] = mup[d],
           call'[d]["up"].items = call[d]["up"].items
    PROVE  PhoneFollows(d)'
<1> DEFINE run == mup[d]
           items == call[d]["up"].items
<1>1. /\ run \in Ups /\ run.pend \subseteq Changes /\ run.send \subseteq Items
      /\ run.acked \subseteq Acks /\ \A r \in Records : mrow[d][r] \in Rows
      /\ CloudTypeOK
  BY DEF TypeInv, MobileTypeOK, Ups
<1>2. /\ \A r \in Records : IsRow(cloud[r]) => IsRow(cloud[r])'
      /\ \A r \in Records : Led(r) => Led(r)'
      /\ \A r \in Records, rev \in Revisions : \A val :
            Saw(r, rev, val) => Saw(r, rev, val)'
  BY <1>1, GrowKeeps
<1>3. ASSUME NEW r \in Records
      PROVE  RowFollows(d, r)'
  <2>1. mrow[d][r].rev \in Revisions
    BY <1>1 DEF Rows
  <2>2. RowFollows(d, r)
    BY DEF PhoneFollows
  <2>3. Saw(r, mrow[d][r].rev, mrow[d][r].val)'
    BY <1>2, <2>1, <2>2 DEF RowFollows, Saw
  <2> QED
    BY <1>2, <2>2, <2>3 DEF RowFollows, Present
<1>4. ReadFollows(d, run.pend)'
  <2> SUFFICES ASSUME NEW p \in run.pend
               PROVE  /\ Saw(p.id, p.rev, p.val)'
                      /\ p.rev = mrow[d][p.id].rev /\ p.val \subseteq mrow[d][p.id].val
                      /\ p.id \in Movements =>
                            \/ Led(p.id)'
                            \/ \E q \in run.pend : q.id = CategoryOf[p.id]
    BY DEF ReadFollows
  <2>1. p.id \in Records /\ p.rev \in Revisions
    BY <1>1 DEF Changes
  <2> QED
    BY <1>2, <2>1 DEF PhoneFollows, RunFollows, ReadFollows
<1>5. SendFollows(run, items)'
  <2> SUFFICES ASSUME NEW i \in run.send
               PROVE  /\ Saw(i.id, i.base, i.val)'
                      /\ i.id \in Movements =>
                            \/ Led(i.id)'
                            \/ /\ run.pc = "categories"
                               /\ \E j \in items : j.id = CategoryOf[i.id]
    BY DEF SendFollows, OncePerRecord, PhoneFollows, RunFollows
  <2>1. i.id \in Records /\ i.base \in Revisions
    BY <1>1 DEF Items
  <2> QED
    BY <1>2, <2>1 DEF PhoneFollows, RunFollows, SendFollows
<1>6. AckedFollows(run)'
  <2> SUFFICES ASSUME NEW a \in run.acked
               PROVE  /\ IsRow(cloud[a.id])'
                      /\ \A p \in run.pend :
                            p.id = a.id => Saw(a.id, a.rev, p.val)'
    BY DEF AckedFollows
  <2>1. a.id \in Records /\ a.rev \in Revisions
    BY <1>1 DEF Acks
  <2> QED
    BY <1>2, <2>1 DEF PhoneFollows, RunFollows, AckedFollows
<1> QED
  BY <1>3, <1>4, <1>5, <1>6 DEF PhoneFollows, RunFollows

(* The same of a request, and of an answer that is not new. *)
LEMMA RequestKnows ==
    ASSUME CloudTypeOK, CloudTypeOK', Grow, NEW items \in SUBSET Items,
           RequestFollows(items)
    PROVE  RequestFollows(items)'
<1>1. \A i \in items : i.id \in Records /\ i.base \in Revisions
  BY DEF Items
<1> QED
  BY <1>1, GrowKeeps DEF RequestFollows, OncePerRecord

LEMMA AnswerKnows ==
    ASSUME CloudTypeOK, CloudTypeOK', Grow, NEW c \in Calls, AnswerFollows(c)
    PROVE  AnswerFollows(c)'
<1>1. /\ \A i \in c.items : i.id \in Records
      /\ \A q \in c.rows : q.id \in Records /\ q.rev \in Revisions
      /\ Exact(c.now) \in Revisions
  BY ExactIsRevision DEF Calls, Items, PulledRows
<1> QED
  BY <1>1, GrowKeeps DEF AnswerFollows

LEMMA OldCall ==
    ASSUME CloudTypeOK, CloudTypeOK', Grow, NEW d \in Devices, NEW o \in Roles,
           CallFollows(d, o),
           \/ call'[d][o] = call[d][o]
           \/ call'[d][o].items = call[d][o].items /\ call'[d][o].st # "done"
    PROVE  CallFollows(d, o)'
<1>1. /\ call[d][o] \in Calls /\ call[d][o].items \in SUBSET Items
      /\ call'[d][o] \in Calls /\ RequestFollows(call[d][o].items)
  BY DEF CloudTypeOK, Calls, CallFollows
<1>2. PICK c \in Calls : c = call'[d][o]
  BY <1>1
<1>3. RequestFollows(c.items)'
  <2>1. c.items \in SUBSET Items /\ RequestFollows(c.items)
    BY <1>1, <1>2
  <2> QED
    BY <2>1, RequestKnows
<1>4. AnswerFollows(c)'
  <2>1. AnswerFollows(c)
    BY <1>2 DEF CallFollows, AnswerFollows
  <2> QED
    BY <2>1, AnswerKnows
<1> QED
  BY <1>2, <1>3, <1>4 DEF CallFollows

(* What an upsert does to the rows, when a request names a record once. *)
LEMMA UpsertRows ==
    ASSUME CloudTypeOK, NEW items \in SUBSET Items, OncePerRecord(items),
           NEW d, NEW now, Upsert(items, d, now)
    PROVE  \A i \in Accepted(items, d) :
              cloud'[i.id] = [val |-> i.val, rev |-> Exact(now), dev |-> d]
<1> SUFFICES ASSUME NEW i \in Accepted(items, d)
             PROVE  cloud'[i.id] = [val |-> i.val, rev |-> Exact(now), dev |-> d]
  OBVIOUS
<1>1. i \in items /\ i.id \in Records
  BY DEF Accepted, Items
<1> DEFINE j == CHOOSE j \in Accepted(items, d) : j.id = i.id
<1>2. j \in Accepted(items, d) /\ j.id = i.id
  OBVIOUS
<1>3. j = i
  BY <1>1, <1>2 DEF OncePerRecord, Accepted
<1>4. cloud'[i.id] = [val |-> j.val, rev |-> Exact(now), dev |-> d]
  BY <1>1, <1>2 DEF Upsert
<1> QED
  BY <1>3, <1>4

LEMMA OtherRows ==
    ASSUME NEW items, NEW d, NEW now, Upsert(items, d, now), NEW r \in Records,
           cloud'[r] # cloud[r]
    PROVE  \E i \in Accepted(items, d) : i.id = r
  BY DEF Upsert

(* An executed push: its items are rows, the accepted ones at its own      *)
(* revision.                                                               *)
LEMMA PushAnswered ==
    ASSUME WriteInv, PushInv', Grow, NEW d \in Devices, NEW o \in Roles,
           RunPush(d, o)
    PROVE  CallFollows(d, o)'
<1> DEFINE c == call[d][o]
           taken == {i.id : i \in Accepted(c.items, d)}
           rejected == {i.id : i \in c.items} \ taken
<1>1. /\ c \in Calls /\ c.items \in SUBSET Items /\ c.now \in Nat
      /\ c.kind = "push" /\ Upsert(c.items, d, c.now) /\ RequestFollows(c.items)
      /\ call' = [call EXCEPT ![d][o] = [c EXCEPT !.st = "done",
                                         !.accepted = taken, !.rejected = rejected]]
  BY Numbers DEF WriteInv, TypeInv, MobileTypeOK, CloudTypeOK, Calls, RunPush,
                 Follows, CallFollows
<1>2. /\ CloudTypeOK /\ CloudTypeOK' /\ \A r \in Records : cloud[r].rev < Exact(c.now)
  <2>1. Newest(c.now, clock, cloud)
    BY DEF WriteInv, PushInv, ExecutingIsNewest, Executing, RunPush
  <2> QED
    BY <2>1 DEF WriteInv, PushInv, Newest
<1>3. PICK items \in SUBSET Items : items = c.items
  BY <1>1
<1>4. PICK now \in 0..MaxClock : now = c.now
  BY <1>1 DEF Calls
<1>5. RequestFollows(items)'
  BY <1>1, <1>2, <1>3, RequestKnows
<1>6. ASSUME NEW i \in items
      PROVE  /\ IsRow(cloud[i.id])'
             /\ i.id \in taken => Saw(i.id, Exact(now), i.val)'
  <2>1. i.id \in Records /\ cloud[i.id].rev \in Nat /\ Exact(now) \in Nat
    BY <1>1, <1>2, <1>3, <1>4, Numbers DEF Items, Exact
  <2>2. \A j \in items : j.id = i.id => j = i
    BY <1>1, <1>3 DEF RequestFollows, OncePerRecord
  <2>3. CASE i.id \in taken
    <3>1. i \in Accepted(items, d)
      BY <1>3, <2>2, <2>3 DEF Accepted
    <3>2. cloud'[i.id] = [val |-> i.val, rev |-> Exact(now), dev |-> d]
      BY <1>1, <1>2, <1>3, <1>4, <3>1, UpsertRows DEF RequestFollows
    <3>3. Exact(now) # 0
      BY <1>2, <1>4, <2>1
    <3> QED
      BY <2>1, <3>2, <3>3 DEF Saw, IsRow, NoRevision
  <2>4. CASE i.id \notin taken
    <3>1. ~Accepts(cloud[i.id], i, d)
      BY <1>3, <2>4 DEF Accepted
    <3>2. IsRow(cloud[i.id])
      BY <3>1 DEF Accepts
    <3> QED
      BY <1>2, <2>1, <2>4, <3>2, GrowKeeps
  <2> QED
    BY <2>3, <2>4
<1> HIDE DEF taken, rejected
<1>7. /\ call'[d][o].items = items /\ call'[d][o].kind = "push"
      /\ call'[d][o].accepted = taken /\ call'[d][o].now = now
  BY <1>1, <1>2, <1>3, <1>4 DEF CloudTypeOK, Calls
<1> QED
  BY <1>5, <1>6, <1>7 DEF CallFollows, AnswerFollows

LEMMA PullAnswered ==
    ASSUME WriteInv, PushInv', Grow, NEW d \in Devices, NEW o \in Roles,
           RunPull(d, o)
    PROVE  CallFollows(d, o)'
<1> DEFINE c == call[d][o]
           rows == RowsBetween(c.since, Exact(c.now))
<1>1. /\ c \in Calls /\ c.items \in SUBSET Items /\ c.kind = "pull"
      /\ RequestFollows(c.items) /\ cloud' = cloud
      /\ CloudTypeOK /\ CloudTypeOK'
      /\ call' = [call EXCEPT ![d][o] = [c EXCEPT !.st = "done", !.rows = rows]]
  BY DEF WriteInv, TypeInv, MobileTypeOK, CloudTypeOK, Calls, RunPull, Follows,
         CallFollows, PushInv
<1>2. PICK items \in SUBSET Items : items = c.items
  BY <1>1
<1>3. RequestFollows(items)'
  BY <1>1, <1>2, RequestKnows
<1>4. \A q \in rows : IsRow(cloud'[q.id]) /\ Saw(q.id, q.rev, q.val)'
  <2> SUFFICES ASSUME NEW q \in rows
               PROVE  IsRow(cloud'[q.id]) /\ Saw(q.id, q.rev, q.val)'
    OBVIOUS
  <2>1. PICK r \in Records :
           /\ q = [id |-> r, val |-> cloud[r].val, rev |-> cloud[r].rev,
                   dev |-> cloud[r].dev]
           /\ IsRow(cloud[r])
    BY DEF RowsBetween
  <2>2. cloud[r].rev \in Nat
    BY <1>1, Numbers
  <2> QED
    BY <1>1, <2>1, <2>2 DEF Saw
<1> HIDE DEF rows
<1>5. /\ call'[d][o].items = items /\ call'[d][o].kind = "pull"
      /\ call'[d][o].rows = rows
  BY <1>1, <1>2 DEF CloudTypeOK, Calls
<1> QED
  BY <1>3, <1>4, <1>5 DEF CallFollows, AnswerFollows

(* No step of the cloud brings a movement before its category. *)
LEMMA ReferencesKept ==
    ASSUME CloudTypeOK, CloudTypeOK', Grow, CloudReferences,
           \A r \in Movements : cloud'[r] # cloud[r] => Led(r)
    PROVE  CloudReferences'
<1>1. \A r \in Movements : Led(r) => Led(r)'
  BY GrowKeeps DEF Movements
<1> QED
  BY <1>1 DEF CloudReferences, Led

LEMMA CloudNextFollows ==
    ASSUME WriteInv, PushInv', Grow, CloudNext, UNCHANGED mobileVars
    PROVE  Follows'
<1>1. /\ CloudTypeOK /\ CloudTypeOK' /\ Follows /\ TypeInv
      /\ mrow' = mrow /\ mup' = mup
  BY DEF WriteInv, PushInv, TypeInv, MobileTypeOK, mobileVars
<1>2. \A d \in Phones : PhoneFollows(d)'
  <2>1. \A d \in Devices, o \in Roles : call'[d][o].items = call[d][o].items
    BY <1>1, CloudNextStores DEF WriteInv, History, CloudHistory, CallStep
  <2> QED
    BY <1>1, <2>1, PhoneKnows, PhonesAreDevices, UpDown DEF Follows
<1>3. ASSUME NEW e \in Devices, NEW p \in Roles, Arrive(e, p)
      PROVE  Follows'
  <2>1. \A d \in Devices, o \in Roles :
           \/ call'[d][o] = call[d][o]
           \/ call'[d][o].items = call[d][o].items /\ call'[d][o].st # "done"
    BY <1>1, <1>3 DEF Arrive, CloudTypeOK, Calls
  <2>2. \A d \in Devices, o \in Roles : CallFollows(d, o)'
    BY <1>1, <2>1, OldCall DEF Follows
  <2>3. cloud' = cloud /\ late' = late
    BY <1>3 DEF Arrive
  <2> QED
    BY <1>1, <1>2, <2>2, <2>3 DEF Follows, CloudReferences, LateFollows, Led
<1>4. ASSUME NEW e \in Devices, NEW p \in Roles, RunPush(e, p)
      PROVE  Follows'
  <2>1. \A d \in Devices, o \in Roles : d # e \/ o # p => call'[d][o] = call[d][o]
    BY <1>1, <1>4 DEF RunPush, CloudTypeOK
  <2>2. \A d \in Devices, o \in Roles : CallFollows(d, o)'
    BY <1>1, <1>4, <2>1, OldCall, PushAnswered DEF Follows
  <2>3. /\ Upsert(call[e][p].items, e, call[e][p].now) /\ late' = late
        /\ \A i \in call[e][p].items : Led(i.id)
    BY <1>1, <1>4 DEF RunPush, Follows, CallFollows, RequestFollows
  <2>4. \A r \in Movements : cloud'[r] # cloud[r] => Led(r)
    BY <2>3, OtherRows DEF Accepted, Movements
  <2>5. CloudReferences'
    BY <1>1, <2>4, ReferencesKept DEF Follows
  <2>6. LateFollows'
    <3>1. \A q \in late : \A i \in q.items : i.id \in Records
      BY <1>1 DEF CloudTypeOK, LatePushes, Items
    <3> QED
      BY <1>1, <2>3, <3>1, GrowKeeps DEF Follows, LateFollows
  <2> QED
    BY <1>2, <2>2, <2>5, <2>6 DEF Follows
<1>5. ASSUME NEW e \in Devices, NEW p \in Roles, RunPull(e, p)
      PROVE  Follows'
  <2>1. \A d \in Devices, o \in Roles : d # e \/ o # p => call'[d][o] = call[d][o]
    BY <1>1, <1>5 DEF RunPull, CloudTypeOK
  <2>2. \A d \in Devices, o \in Roles : CallFollows(d, o)'
    BY <1>1, <1>5, <2>1, OldCall, PullAnswered DEF Follows
  <2>3. cloud' = cloud /\ late' = late
    BY <1>5 DEF RunPull
  <2> QED
    BY <1>1, <1>2, <2>2, <2>3 DEF Follows, CloudReferences, LateFollows, Led
<1>6. ASSUME NEW s \in late, ArriveLate(s) \/ RunLate(s)
      PROVE  Follows'
  <2>1. /\ call' = call
        /\ \A q \in late' : \E t \in late : q.items = t.items
    BY <1>1, <1>6 DEF ArriveLate, RunLate, CloudTypeOK, LatePushes
  <2>2. \A d \in Devices, o \in Roles : CallFollows(d, o)'
    BY <1>1, <2>1, OldCall DEF Follows
  <2>3. \A q \in late : \A i \in q.items : i.id \in Records /\ Led(i.id)
    BY <1>1 DEF Follows, LateFollows, CloudTypeOK, LatePushes, Items
  <2>4. LateFollows'
    BY <1>1, <2>1, <2>3, GrowKeeps DEF LateFollows
  <2>5. \A r \in Movements : cloud'[r] # cloud[r] => Led(r)
    <3>1. CASE ArriveLate(s)
      BY <3>1 DEF ArriveLate
    <3>2. CASE RunLate(s)
      BY <2>3, <3>2, OtherRows DEF RunLate, Accepted, Movements
    <3> QED
      BY <1>6, <3>1, <3>2
  <2>6. CloudReferences'
    BY <1>1, <2>5, ReferencesKept DEF Follows
  <2> QED
    BY <1>2, <2>2, <2>4, <2>6 DEF Follows
<1> QED
  BY <1>3, <1>4, <1>5, <1>6 DEF CloudNext

-----------------------------------------------------------------------------
(* A step of phone d alone; the cloud's rows stay as they are. *)
Alone(d) ==
    /\ cloud' = cloud
    /\ \A e \in Devices, o \in Roles : e # d => call'[e][o] = call[e][o]
    /\ \A e \in Phones : e # d => mrow'[e] = mrow[e] /\ mup'[e] = mup[e]

LEMMA AloneFollows ==
    ASSUME Follows, NEW d \in Phones, Alone(d),
           CallFollows(d, "up")', CallFollows(d, "down")',
           LateFollows', PhoneFollows(d)'
    PROVE  Follows'
<1>1. CloudReferences'
  BY DEF Alone, Follows, CloudReferences
<1>2. ASSUME NEW e \in Devices, NEW o \in Roles
      PROVE  CallFollows(e, o)'
  <2>1. CASE e = d
    BY <2>1 DEF Roles
  <2>2. CASE e # d
    BY <2>2 DEF Alone, Follows, CallFollows, RequestFollows, AnswerFollows,
                OncePerRecord, Saw, Led
  <2> QED
    BY <2>1, <2>2
<1>3. ASSUME NEW e \in Phones, e # d
      PROVE  PhoneFollows(e)'
  <2>1. /\ mrow'[e] = mrow[e] /\ mup'[e] = mup[e] /\ cloud' = cloud
        /\ call'[e]["up"] = call[e]["up"] /\ PhoneFollows(e)
    BY <1>3, PhonesAreDevices, UpDown DEF Alone, Follows
  <2> QED
    BY <2>1
    DEF PhoneFollows, RowFollows, RunFollows, ReadFollows, SendFollows,
        AckedFollows, Saw, Led, Present
<1> QED
  BY <1>1, <1>2, <1>3 DEF Follows

(* What a phone does to its rows, while its run and its calls wait. *)
LEMMA RowsStep ==
    ASSUME TypeInv, Follows, NEW d \in Phones, cloud' = cloud, late' = late,
           mup' = mup, call'[d]["up"] = call[d]["up"], CallFollows(d, "down")',
           \A e \in Devices, o \in Roles : e # d => call'[e][o] = call[e][o],
           \A e \in Phones : e # d => mrow'[e] = mrow[e],
           \A r \in Records : RowFollows(d, r)',
           \A p \in mup[d].pend :
              mrow'[d][p.id].rev = mrow[d][p.id].rev
              /\ mrow[d][p.id].val \subseteq mrow'[d][p.id].val
    PROVE  Follows'
<1>1. Alone(d)
  BY DEF Alone
<1>2. CallFollows(d, "up")' /\ LateFollows'
  BY PhonesAreDevices, UpDown
  DEF Follows, CallFollows, RequestFollows, AnswerFollows, OncePerRecord, Saw,
      Led, LateFollows
<1>3. PhoneFollows(d)'
  <2>1. PhoneFollows(d)
    BY DEF Follows
  <2>2. ReadFollows(d, mup[d].pend)'
    BY <2>1 DEF PhoneFollows, RunFollows, ReadFollows, Saw, Led
  <2>3. /\ SendFollows(mup[d], call[d]["up"].items)'
        /\ AckedFollows(mup[d])'
    BY <2>1 DEF PhoneFollows, RunFollows, SendFollows, AckedFollows, Saw, Led
  <2> QED
    BY <2>2, <2>3 DEF PhoneFollows, RunFollows
<1> QED
  BY <1>1, <1>2, <1>3, AloneFollows

LEMMA EditFollows ==
    ASSUME WriteInv, NEW d \in Phones, NEW r \in Records, Edit(d, r)
    PROVE  Follows'
<1> DEFINE old == mrow[d][r]
<1>1. /\ mup' = mup /\ call' = call /\ cloud' = cloud /\ late' = late
      /\ mrow' = [mrow EXCEPT ![d][r] = Edited(old)] /\ old \in Rows
      /\ TypeInv /\ Follows
  BY DEF Edit, MakeEdit, serverVars, WriteInv, TypeInv, MobileTypeOK
<1>2. /\ mrow'[d][r] = Edited(old)
      /\ \A s \in Records : s # r => mrow'[d][s] = mrow[d][s]
      /\ \A e \in Phones : e # d => mrow'[e] = mrow[e]
  BY <1>1 DEF WriteInv, TypeInv, MobileTypeOK
<1>3. /\ Edited(old).rev = old.rev /\ old.val \subseteq Edited(old).val
      /\ Edited(old).st = "pending"
  BY <1>1 DEF Edited, Rows
<1>4. \A s \in Records : /\ mrow'[d][s].rev = mrow[d][s].rev
                         /\ mrow[d][s].val \subseteq mrow'[d][s].val
  BY <1>2, <1>3
<1>5. ASSUME NEW s \in Records
      PROVE  RowFollows(d, s)'
  <2>1. RowFollows(d, s)
    BY <1>1 DEF Follows, PhoneFollows
  <2>2. Saw(s, mrow[d][s].rev, mrow[d][s].val)'
    BY <1>1, <1>4, <2>1 DEF RowFollows, Saw
  <2>3. mrow'[d][s].st = "synced" => mrow[d][s].st = "synced"
    BY <1>2, <1>3
  <2>4. s \in Movements /\ Present(d, s)' => Present(d, CategoryOf[s])'
    <3>1. \A t \in Records : Present(d, t) => Present(d, t)'
      BY <1>2, <1>3 DEF Present
    <3>2. s \in Movements => CategoryOf[s] \in Records
      BY CloudAssumption
    <3>3. Present(d, s)' => Present(d, s) \/ s = r
      BY <1>2 DEF Present
    <3>4. r \in Movements => Present(d, CategoryOf[r])
      BY DEF Edit
    <3> QED
      BY <2>1, <3>1, <3>2, <3>3, <3>4 DEF RowFollows
  <2> QED
    BY <1>1, <2>1, <2>2, <2>3, <2>4 DEF RowFollows
<1>6. CallFollows(d, "down")'
  BY <1>1, PhonesAreDevices, UpDown
  DEF Follows, CallFollows, RequestFollows, AnswerFollows, OncePerRecord, Saw, Led
<1>7. \A p \in mup[d].pend : p.id \in Records
  BY <1>1 DEF TypeInv, MobileTypeOK, Ups, Changes
<1> QED
  BY <1>1, <1>2, <1>4, <1>5, <1>6, <1>7, RowsStep

(* A step of push() that sends its next request, or that is done sending. *)
LEMMA SendStep ==
    ASSUME TypeInv, Follows, NEW d \in Phones, NEW run, NEW request,
           mrow' = mrow, mup' = [mup EXCEPT ![d] = run],
           Send(d, "up", request), request.st # "done",
           RequestFollows(request.items), RunFollows(d, run, request.items)
    PROVE  Follows'
<1>1. /\ call'[d]["up"] = request /\ cloud' = cloud /\ late' = late
      /\ \A e \in Devices, o \in Roles :
            e # d \/ o # "up" => call'[e][o] = call[e][o]
      /\ mup'[d] = run /\ \A e \in Phones : e # d => mup'[e] = mup[e]
  <2>1. mup'[d] = run /\ \A e \in Phones : e # d => mup'[e] = mup[e]
    BY DEF TypeInv, MobileTypeOK
  <2>2. late' = late
    BY DEF Send
  <2> QED
    BY <2>1, <2>2, SendEffect, PhonesAreDevices, UpDown DEF TypeInv, MobileTypeOK
<1>2. Alone(d)
  BY <1>1 DEF Alone
<1>3. CallFollows(d, "up")'
  BY <1>1 DEF CallFollows, RequestFollows, AnswerFollows, OncePerRecord, Saw, Led
<1>4. CallFollows(d, "down")' /\ LateFollows'
  <2>1. call'[d]["down"] = call[d]["down"] /\ CallFollows(d, "down")
    BY <1>1, PhonesAreDevices, UpDown DEF Follows
  <2> QED
    BY <1>1, <2>1
    DEF Follows, CallFollows, RequestFollows, AnswerFollows, OncePerRecord, Saw,
        Led, LateFollows
<1>5. PhoneFollows(d)'
  <2>1. \A r \in Records : RowFollows(d, r)'
    BY <1>1 DEF Follows, PhoneFollows, RowFollows, Saw, Present
  <2>2. RunFollows(d, mup[d], call[d]["up"].items)'
    BY <1>1 DEF RunFollows, ReadFollows, SendFollows, AckedFollows,
                OncePerRecord, Saw, Led
  <2> QED
    BY <2>1, <2>2 DEF PhoneFollows
<1> QED
  BY <1>2, <1>3, <1>4, <1>5, AloneFollows

LEMMA PushBeginFollows ==
    ASSUME WriteInv, NEW d \in Phones, PushBegin(d)
    PROVE  Follows'
<1> DEFINE pend == {[id |-> r, val |-> mrow[d][r].val, ver |-> mrow[d][r].ver,
                     rev |-> mrow[d][r].rev] :
                        r \in {s \in Records : IsPending(d, s)}}
           run == [NoUp EXCEPT !.pc = "preflight", !.pend = pend]
           request == PullCall(NoRevision)
<1>1. run.pend = pend /\ run.acked = {} /\ run.send = {}
  BY DEF NoUp
<1>2. request.items = {} /\ request.st = "sent"
  BY DEF PullCall, NoCall
<1>3. TypeInv /\ Follows /\ \A r \in Records : RowFollows(d, r)
  BY DEF WriteInv, Follows, PhoneFollows
<1>4. ReadFollows(d, pend)
  <2> SUFFICES ASSUME NEW r \in Records, IsPending(d, r)
               PROVE  /\ Saw(r, mrow[d][r].rev, mrow[d][r].val)
                      /\ r \in Movements =>
                            Led(r) \/ \E q \in pend : q.id = CategoryOf[r]
    BY DEF ReadFollows
  <2>1. RowFollows(d, r)
    BY <1>3
  <2>2. CASE r \in Movements
    <3> DEFINE c == CategoryOf[r]
    <3>1. c \in Records /\ Present(d, c) /\ mrow[d][c] \in Rows /\ RowFollows(d, c)
      BY <1>3, <2>1, <2>2, CloudAssumption
      DEF RowFollows, Present, IsPending, TypeInv, MobileTypeOK
    <3>2. CASE IsPending(d, c)
      <4>1. [id |-> c, val |-> mrow[d][c].val, ver |-> mrow[d][c].ver,
             rev |-> mrow[d][c].rev] \in pend
        BY <3>1, <3>2
      <4> QED
        BY <2>1, <4>1 DEF RowFollows
    <3>3. CASE ~IsPending(d, c)
      BY <2>1, <3>1, <3>3 DEF RowFollows, Led, Present, IsPending, Rows
    <3> QED
      BY <3>2, <3>3
  <2> QED
    BY <2>1, <2>2 DEF RowFollows
<1>5. /\ mrow' = mrow /\ mup' = [mup EXCEPT ![d] = run] /\ Send(d, "up", request)
  BY DEF PushBegin
<1> HIDE DEF pend, run, request
<1>6. RunFollows(d, run, request.items) /\ RequestFollows(request.items)
  BY <1>1, <1>2, <1>4
  DEF RunFollows, SendFollows, AckedFollows, RequestFollows, OncePerRecord
<1> QED
  BY <1>2, <1>3, <1>5, <1>6, SendStep

(* The next phase sends what is left, movements only when no category is. *)
LEMMA NextPhaseFollows ==
    ASSUME WriteInv, NEW d \in Phones, NEW run \in Ups,
           NextPhase(d, run), mrow' = mrow, ReadFollows(d, run.pend),
           AckedFollows(run), OncePerRecord(run.send),
           \A i \in run.send :
              /\ Saw(i.id, i.base, i.val)
              /\ i.id \in Movements =>
                    Led(i.id) \/ \E j \in run.send : j.id = CategoryOf[i.id]
    PROVE  Follows'
<1> DEFINE cats == CategoryItems(run.send)
           movs == MovementItems(run.send)
<1>1. \A pc \in {"categories", "movements", "ack"} :
         /\ [run EXCEPT !.pc = pc].pc = pc
         /\ [run EXCEPT !.pc = pc].pend = run.pend
         /\ [run EXCEPT !.pc = pc].send = run.send
         /\ [run EXCEPT !.pc = pc].acked = run.acked
  BY DEF Ups
<1>2. \A i \in run.send : i.id \in Movements => CategoryOf[i.id] \in Categories
  BY CloudAssumption
<1>3. ASSUME NEW pc \in {"categories", "movements", "ack"}, NEW request,
             mup' = [mup EXCEPT ![d] = [run EXCEPT !.pc = pc]],
             Send(d, "up", request), request.st # "done",
             request.items \in SUBSET run.send,
             \A i \in request.items : Led(i.id),
             \A i \in run.send : i.id \in Movements =>
                \/ Led(i.id)
                \/ /\ pc = "categories"
                   /\ \E j \in request.items : j.id = CategoryOf[i.id]
      PROVE  Follows'
  <2> DEFINE new == [run EXCEPT !.pc = pc]
  <2>1. /\ new.pc = pc /\ new.pend = run.pend /\ new.send = run.send
        /\ new.acked = run.acked
    BY <1>1
  <2> HIDE DEF new
  <2>2. mup' = [mup EXCEPT ![d] = new]
    BY <1>3 DEF new
  <2>3. RequestFollows(request.items)
    BY <1>3 DEF RequestFollows, OncePerRecord
  <2>4. RunFollows(d, new, request.items)
    BY <1>3, <2>1 DEF RunFollows, SendFollows, AckedFollows
  <2> QED
    BY <1>3, <2>2, <2>3, <2>4, SendStep DEF WriteInv
<1>4. CASE /\ cats # {}
           /\ mup' = [mup EXCEPT ![d] = [run EXCEPT !.pc = "categories"]]
           /\ Send(d, "up", PushCall(cats))
  <2>1. \A i \in run.send : i.id \in Movements =>
           Led(i.id) \/ \E j \in cats : j.id = CategoryOf[i.id]
    BY <1>2 DEF CategoryItems
  <2>2. cats \in SUBSET run.send /\ \A i \in cats : Led(i.id)
    BY DEF CategoryItems, Led, Movements
  <2> HIDE DEF cats
  <2> QED
    BY <1>3, <1>4, <2>1, <2>2, PushCallIs
<1>5. ASSUME cats = {}
      PROVE  \A i \in run.send : i.id \in Movements => Led(i.id)
  BY <1>2, <1>5 DEF CategoryItems
<1>6. CASE /\ cats = {}
           /\ mup' = [mup EXCEPT ![d] = [run EXCEPT !.pc = "movements"]]
           /\ Send(d, "up", PushCall(movs))
  <2>1. movs \in SUBSET run.send /\ \A i \in movs : Led(i.id)
    BY <1>5, <1>6 DEF MovementItems, Led
  <2>2. \A i \in run.send : i.id \in Movements => Led(i.id)
    BY <1>5, <1>6
  <2> HIDE DEF cats, movs
  <2> QED
    BY <1>3, <1>6, <2>1, <2>2, PushCallIs
<1>7. CASE /\ cats = {}
           /\ mup' = [mup EXCEPT ![d] = [run EXCEPT !.pc = "ack"]]
           /\ Send(d, "up", NoCall)
  <2>1. NoCall.st # "done" /\ NoCall.items = {}
    BY DEF NoCall
  <2>2. \A i \in run.send : i.id \in Movements => Led(i.id)
    BY <1>5, <1>7
  <2> QED
    BY <1>3, <1>7, <2>1, <2>2
<1> QED
  BY <1>4, <1>6, <1>7 DEF NextPhase, Finish

(* What the preflight sends carries the revision of a row whose content it *)
(* descends from.                                                          *)
LEMMA BaselineSeen ==
    ASSUME NEW d, NEW rows \in SUBSET PulledRows, NEW p \in Changes,
           Saw(p.id, p.rev, p.val), ~Clashes(d, p, rows),
           \A q \in rows : Saw(q.id, q.rev, q.val)
    PROVE  Saw(p.id, Baseline(p, rows), p.val)
<1>1. CASE CloudRowOf(rows, p) = {}
  BY <1>1 DEF Baseline
<1>2. CASE CloudRowOf(rows, p) # {}
  <2> DEFINE q == CHOOSE q \in CloudRowOf(rows, p) : TRUE
  <2>1. q \in CloudRowOf(rows, p)
    BY <1>2
  <2>2. q \in rows /\ q.id = p.id
    BY <2>1 DEF CloudRowOf
  <2>3. Matches(p, q) \/ IsRetry(d, p, q)
    BY <2>1 DEF Clashes
  <2>4. Baseline(p, rows) = q.rev
    BY <1>2 DEF Baseline
  <2> HIDE DEF q
  <2>5. CASE Matches(p, q)
    BY <2>4, <2>5 DEF Matches
  <2>6. CASE IsRetry(d, p, q)
    BY <2>2, <2>4, <2>6 DEF IsRetry
  <2> QED
    BY <2>3, <2>5, <2>6
<1> QED
  BY <1>1, <1>2

LEMMA RejectedId ==
    ASSUME NEW changes, NEW p \in changes, NEW err
    PROVE  p.id \in RejectedIds(Reject(changes, err))
<1>1. [id |-> p.id, ver |-> p.ver, err |-> err] \in Reject(changes, err)
  BY DEF Reject
<1> QED
  BY <1>1 DEF RejectedIds

LEMMA PreflightFollows ==
    ASSUME WriteInv, NEW d \in Phones, Preflight(d)
    PROVE  Follows'
<1> DEFINE run == mup[d]
           rows == call[d]["up"].rows
           clash == {p \in run.pend : Clashes(d, p, rows)}
           items == {ItemOf(p, rows) : p \in run.pend \ clash}
           orphans == OfRejectedCategory(items, Reject(clash, "conflict_remote_newer"))
           dropped == clash \cup {p \in run.pend : p.id \in {i.id : i \in orphans}}
           send == items \ orphans
           rej == Reject(dropped, "conflict_remote_newer")
           next == [run EXCEPT !.send = send, !.rej = rej]
<1>1. /\ run \in Ups /\ run.pend \in SUBSET Changes
      /\ rows \in SUBSET PulledRows
  BY PhonesAreDevices, UpDown
  DEF WriteInv, TypeInv, MobileTypeOK, CloudTypeOK, Calls, Ups
<1>2. items \in SUBSET Items /\ rej \in SUBSET Rejections
  BY <1>1, ItemType, RejectType DEF Errors
<1>3. NextPhase(d, next) /\ mrow' = mrow /\ Replied(d, "up", "pull")
  BY DEF Preflight
<1>4. /\ ReadFollows(d, run.pend) /\ AckedFollows(run)
      /\ \A p, q \in run.pend : p.id = q.id => p = q
      /\ \A q \in rows : Saw(q.id, q.rev, q.val)
  BY <1>3, PhonesAreDevices, UpDown
  DEF WriteInv, Follows, PhoneFollows, RunFollows, History, PhoneHistory,
      Snapshot, CallFollows, AnswerFollows, Replied
<1>5. ASSUME NEW i \in items
      PROVE  \E p \in run.pend : /\ p.id = i.id /\ i = ItemOf(p, rows)
                                 /\ ~Clashes(d, p, rows)
                                 /\ Saw(i.id, i.base, i.val)
  <2>1. PICK p \in run.pend : i = ItemOf(p, rows) /\ ~Clashes(d, p, rows)
    OBVIOUS
  <2>2. p \in Changes /\ Saw(p.id, p.rev, p.val)
    BY <1>1, <1>4 DEF ReadFollows
  <2>3. i.id = p.id /\ i.val = p.val /\ i.base = Baseline(p, rows)
    BY <2>1 DEF ItemOf
  <2> QED
    BY <1>1, <1>4, <2>1, <2>2, <2>3, BaselineSeen
<1>6. OncePerRecord(send)
  BY <1>4, <1>5 DEF OncePerRecord
<1>7. ASSUME NEW i \in send
      PROVE  /\ Saw(i.id, i.base, i.val)
             /\ i.id \in Movements =>
                   Led(i.id) \/ \E j \in send : j.id = CategoryOf[i.id]
  <2>1. PICK p \in run.pend : p.id = i.id /\ Saw(i.id, i.base, i.val)
    BY <1>5
  <2>2. ASSUME i.id \in Movements, ~Led(i.id)
        PROVE  \E j \in send : j.id = CategoryOf[i.id]
    <3>1. PICK q \in run.pend : q.id = CategoryOf[i.id]
      BY <1>4, <2>1, <2>2 DEF ReadFollows
    <3>2. q \notin clash
      <4>1. CASE q \in clash
        <5>1. q.id \in RejectedIds(Reject(clash, "conflict_remote_newer"))
          BY <4>1, RejectedId
        <5>2. i \in orphans
          BY <2>2, <3>1, <5>1 DEF OfRejectedCategory
        <5> QED
          BY <5>2
      <4> QED
        BY <4>1
    <3>3. ItemOf(q, rows) \in items /\ ItemOf(q, rows).id = q.id
      BY <3>2 DEF ItemOf
    <3>4. q.id \in Categories
      BY <2>2, <3>1, CloudAssumption
    <3>5. ItemOf(q, rows) \notin orphans
      BY <3>3, <3>4 DEF OfRejectedCategory, Movements
    <3> QED
      BY <3>1, <3>3, <3>5
  <2> QED
    BY <2>1, <2>2
<1>8. send \in SUBSET Items
  BY <1>2
<1> HIDE DEF send, rej, items
<1>9. /\ next \in Ups /\ next.pend = run.pend /\ next.send = send
      /\ next.acked = run.acked
  BY <1>1, <1>2, <1>8 DEF Ups
<1> HIDE DEF next
<1>10. AckedFollows(next)
  BY <1>4, <1>9 DEF AckedFollows
<1> QED
  BY <1>3, <1>4, <1>6, <1>7, <1>9, <1>10, NextPhaseFollows

LEMMA PhaseDoneFollows ==
    ASSUME WriteInv, NEW d \in Phones, PhaseDone(d)
    PROVE  Follows'
<1> DEFINE run == mup[d]
           c == call[d]["up"]
           of(ids) == {p \in run.pend : p.id \in ids}
           acked == {[id |-> p.id, ver |-> p.ver, rev |-> Exact(c.now)] :
                        p \in of(c.accepted)}
           rej == run.rej \cup Reject(of(c.rejected), "conflict_remote_newer")
           rest == run.send \ c.items
           orphans == OfRejectedCategory(rest, rej)
           send == rest \ orphans
           rej2 == rej \cup Reject(of({i.id : i \in orphans}), "category_rejected")
           next == [run EXCEPT !.send = send, !.acked = run.acked \cup acked,
                               !.rej = rej2]
<1>1. /\ run \in Ups /\ run.pend \in SUBSET Changes
      /\ run.send \in SUBSET Items /\ run.acked \in SUBSET Acks
      /\ run.rej \in SUBSET Rejections /\ c.now \in 0..MaxClock
  BY PhonesAreDevices, UpDown
  DEF WriteInv, TypeInv, MobileTypeOK, Ups, CloudTypeOK, Calls
<1>2. /\ c.kind = "push" /\ c.st = "done"
      /\ NextPhase(d, next) /\ mrow' = mrow
  BY DEF PhaseDone, Replied
<1>3. acked \in SUBSET Acks /\ rej2 \in SUBSET Rejections /\ send \in SUBSET Items
  BY <1>1, ExactIsRevision, RejectType DEF Changes, Acks, Errors
<1>4. /\ ReadFollows(d, run.pend) /\ AckedFollows(run) /\ SendFollows(run, c.items)
      /\ \A i \in c.items :
            /\ IsRow(cloud[i.id])
            /\ i.id \in c.accepted => Saw(i.id, Exact(c.now), i.val)
  BY <1>2, PhonesAreDevices, UpDown
  DEF WriteInv, Follows, PhoneFollows, RunFollows, CallFollows, AnswerFollows
<1>5. ASSUME NEW p \in run.pend, p.id \in c.accepted
      PROVE  /\ IsRow(cloud[p.id])
             /\ Saw(p.id, Exact(c.now), p.val)
  <2>1. PICK i \in c.items : i.id = p.id
    BY <1>2, <1>5 DEF WriteInv, History, PhoneHistory, AcceptedKept
  <2>2. PICK q \in run.pend : q.id = i.id /\ q.val = i.val
    BY <1>2 DEF WriteInv, History, PhoneHistory, SentIsSnapshot, IsOf
  <2>3. p = q
    BY <2>1, <2>2 DEF WriteInv, History, PhoneHistory, Snapshot
  <2> QED
    BY <1>4, <1>5, <2>1, <2>2, <2>3
<1>6. \A p, q \in run.pend : p.id = q.id => p = q
  BY DEF WriteInv, History, PhoneHistory, Snapshot
<1>7. \A a \in acked :
         /\ IsRow(cloud[a.id])
         /\ \A p \in run.pend : p.id = a.id => Saw(a.id, a.rev, p.val)
  BY <1>5, <1>6
<1>8. OncePerRecord(send)
  BY <1>4 DEF SendFollows, OncePerRecord
<1>9. ASSUME NEW i \in send
      PROVE  /\ Saw(i.id, i.base, i.val)
             /\ i.id \in Movements => Led(i.id)
  BY <1>4 DEF SendFollows, Led
<1> HIDE DEF send, rej2, acked
<1>10. /\ next \in Ups /\ next.pend = run.pend /\ next.send = send
       /\ next.acked = run.acked \cup acked
  BY <1>1, <1>3 DEF Ups
<1> HIDE DEF next
<1>11. AckedFollows(next)
  BY <1>4, <1>7, <1>10 DEF AckedFollows
<1> QED
  BY <1>2, <1>4, <1>8, <1>9, <1>10, <1>11, NextPhaseFollows

(* A run of push() that ends, whatever it did to the rows. *)
LEMMA EndFollows ==
    ASSUME TypeInv, Follows, NEW d \in Phones, cloud' = cloud,
           mup' = [mup EXCEPT ![d] = NoUp],
           call'[d]["up"] = NoCall, call'[d]["down"] = call[d]["down"],
           \A e \in Devices, o \in Roles : e # d => call'[e][o] = call[e][o],
           \A e \in Phones : e # d => mrow'[e] = mrow[e],
           \A r \in Records : RowFollows(d, r)', LateFollows'
    PROVE  Follows'
<1>1. mup'[d] = NoUp /\ \A e \in Phones : e # d => mup'[e] = mup[e]
  BY DEF TypeInv, MobileTypeOK
<1>2. Alone(d)
  BY <1>1 DEF Alone
<1>3. CallFollows(d, "up")'
  BY DEF CallFollows, RequestFollows, AnswerFollows, OncePerRecord, NoCall
<1>4. CallFollows(d, "down")'
  BY PhonesAreDevices, UpDown
  DEF Follows, CallFollows, RequestFollows, AnswerFollows, OncePerRecord, Saw, Led
<1>5. PhoneFollows(d)'
  BY <1>1
  DEF PhoneFollows, RunFollows, ReadFollows, SendFollows, AckedFollows,
      OncePerRecord, NoUp
<1> QED
  BY <1>2, <1>3, <1>4, <1>5, AloneFollows

LEMMA AckedRowFollows ==
    ASSUME WriteInv, NEW d \in Phones, NEW r \in Records
    PROVE  /\ Saw(r, Acked(d, r).rev, Acked(d, r).val)
           /\ Acked(d, r).st = "synced" => IsRow(cloud[r])
           /\ Acked(d, r).st = "absent" <=> mrow[d][r].st = "absent"
<1> DEFINE row == mrow[d][r]
<1>1. /\ row \in Rows /\ mup[d].acked \subseteq Acks /\ mup[d].rej \subseteq Rejections
      /\ RowFollows(d, r) /\ ReadFollows(d, mup[d].pend) /\ AckedFollows(mup[d])
  BY DEF WriteInv, TypeInv, MobileTypeOK, Ups, Follows, PhoneFollows, RunFollows
<1>2. CASE \E a \in mup[d].acked : a.id = r
  <2> DEFINE a == CHOOSE a \in mup[d].acked : a.id = r
  <2>1. a \in mup[d].acked /\ a.id = r
    BY <1>2
  <2>2. Acked(d, r) = AckRow(d, row, a)
    BY <1>2 DEF Acked
  <2> HIDE DEF a
  <2>3. PICK p \in mup[d].pend : p.id = r
    BY <2>1 DEF WriteInv, History, PhoneHistory, AckedKept
  <2>4. row.st = "pending"
    BY <2>3 DEF WriteInv, History, PhoneHistory, Snapshot, IsPending
  <2>5. IsRow(cloud[r]) /\ Saw(r, a.rev, p.val) /\ p.val \subseteq row.val
    BY <1>1, <2>1, <2>3 DEF AckedFollows, ReadFollows
  <2>6. CASE row.ver >= a.ver /\ row.rev <= a.rev
    <3>1. /\ AckRow(d, row, a).rev = a.rev /\ AckRow(d, row, a).val = row.val
          /\ AckRow(d, row, a).st \in {"synced", "pending"}
      BY <1>1, <2>4, <2>6 DEF AckRow, Rows
    <3>2. Saw(r, a.rev, row.val)
      BY <2>5 DEF Saw
    <3> QED
      BY <2>2, <2>4, <2>5, <3>1, <3>2
  <2>7. CASE ~(row.ver >= a.ver /\ row.rev <= a.rev)
    BY <1>1, <2>2, <2>7 DEF AckRow, RowFollows
  <2> QED
    BY <2>6, <2>7
<1>3. CASE ~ \E a \in mup[d].acked : a.id = r
  <2>1. /\ Acked(d, r).st = row.st /\ Acked(d, r).rev = row.rev
        /\ Acked(d, r).val = row.val
    <3>1. ASSUME NEW x \in Rejections
          PROVE  /\ RejectRow(row, x).st = row.st /\ RejectRow(row, x).rev = row.rev
                 /\ RejectRow(row, x).val = row.val
      BY <1>1 DEF RejectRow, Rows, Rejections
    <3>2. (\E x \in mup[d].rej : x.id = r) =>
             (CHOOSE x \in mup[d].rej : x.id = r) \in Rejections
      BY <1>1
    <3> QED
      BY <1>3, <3>1, <3>2 DEF Acked
  <2> QED
    BY <1>1, <2>1 DEF RowFollows
<1> QED
  BY <1>2, <1>3

LEMMA AcknowledgeFollows ==
    ASSUME WriteInv, NEW d \in Phones, Acknowledge(d)
    PROVE  Follows'
<1>1. /\ mrow' = [mrow EXCEPT ![d] = [r \in Records |-> Acked(d, r)]]
      /\ mup' = [mup EXCEPT ![d] = NoUp] /\ mup[d].pc = "ack"
      /\ call' = call /\ cloud' = cloud /\ late' = late /\ TypeInv /\ Follows
  BY DEF Acknowledge, Acked, cloudVars, serverVars, WriteInv
<1>2. /\ \A r \in Records : mrow'[d][r] = Acked(d, r)
      /\ \A e \in Phones : e # d => mrow'[e] = mrow[e]
  BY <1>1 DEF TypeInv, MobileTypeOK
<1>3. \A r \in Records : RowFollows(d, r)'
  <2> SUFFICES ASSUME NEW r \in Records PROVE RowFollows(d, r)'
    OBVIOUS
  <2>1. \A s \in Records :
           /\ Saw(s, Acked(d, s).rev, Acked(d, s).val)
           /\ Acked(d, s).st = "synced" => IsRow(cloud[s])
           /\ Acked(d, s).st = "absent" <=> mrow[d][s].st = "absent"
    BY AckedRowFollows
  <2>2. Saw(r, mrow[d][r].rev, mrow[d][r].val)'
    BY <1>1, <1>2, <2>1 DEF Saw
  <2>3. \A s \in Records : Present(d, s)' <=> Present(d, s)
    BY <1>2, <2>1 DEF Present
  <2>4. r \in Movements => CategoryOf[r] \in Records
    BY CloudAssumption
  <2>5. RowFollows(d, r)
    BY <1>1 DEF Follows, PhoneFollows
  <2>6. mrow'[d][r].st = "synced" => IsRow(cloud'[r])
    BY <1>1, <1>2, <2>1
  <2> QED
    BY <1>1, <2>2, <2>3, <2>4, <2>5, <2>6 DEF RowFollows
<1>4. call'[d]["up"] = NoCall
  BY <1>1 DEF TypeInv, Phases
<1>5. LateFollows'
  BY <1>1 DEF Follows, LateFollows, Led
<1> QED
  BY <1>1, <1>2, <1>3, <1>4, <1>5, EndFollows

(* A push that is given up may be executed later: its items stay led. *)
LEMMA AbandonFollows ==
    ASSUME WriteInv, NEW d \in Devices, NEW o \in Roles, Abandon(d, o)
    PROVE  LateFollows' /\ cloud' = cloud
<1> DEFINE q == [dev |-> d, items |-> call[d][o].items, now |-> call[d][o].now]
<1>1. cloud' = cloud /\ late' \subseteq late \cup {q}
  BY DEF Abandon
<1>2. \A i \in call[d][o].items : Led(i.id)
  BY DEF WriteInv, Follows, CallFollows, RequestFollows
<1>3. \A s \in late \cup {q} : \A i \in s.items : Led(i.id)
  BY <1>2 DEF WriteInv, Follows, LateFollows
<1> HIDE DEF q
<1> QED
  BY <1>1, <1>3 DEF LateFollows, Led

LEMMA PushFailFollows ==
    ASSUME WriteInv, NEW d \in Phones, PushFail(d)
    PROVE  Follows'
<1>1. /\ mup' = [mup EXCEPT ![d] = NoUp] /\ Abandon(d, "up") /\ mrow' = mrow
      /\ TypeInv /\ Follows
  BY DEF PushFail, WriteInv
<1>2. LateFollows' /\ cloud' = cloud
  BY <1>1, AbandonFollows, PhonesAreDevices, UpDown
<1>3. /\ call'[d]["up"] = NoCall
      /\ \A e \in Devices, o \in Roles :
            e # d \/ o # "up" => call'[e][o] = call[e][o]
  BY <1>1, AbandonEffect, PhonesAreDevices, UpDown DEF TypeInv, MobileTypeOK
<1>4. \A r \in Records : RowFollows(d, r)'
  BY <1>1, <1>2 DEF Follows, PhoneFollows, RowFollows, Saw, Present
<1> QED
  BY <1>1, <1>2, <1>3, <1>4, EndFollows, PhonesAreDevices, UpDown

-----------------------------------------------------------------------------
(* Steps of pull(). *)
LEMMA DownFollows ==
    ASSUME TypeInv, Follows, NEW d \in Phones, UNCHANGED <<mrow, mup>>,
           cloud' = cloud, LateFollows',
           call'[d]["down"].items = {}, call'[d]["down"].st # "done",
           \A e \in Devices, o \in Roles :
              e # d \/ o # "down" => call'[e][o] = call[e][o]
    PROVE  Follows'
<1>1. Alone(d)
  BY DEF Alone
<1>2. call'[d]["up"] = call[d]["up"] /\ CallFollows(d, "up") /\ PhoneFollows(d)
  BY PhonesAreDevices, UpDown DEF Follows
<1>3. CallFollows(d, "down")'
  BY DEF CallFollows, RequestFollows, AnswerFollows, OncePerRecord
<1>4. CallFollows(d, "up")'
  BY <1>2 DEF CallFollows, RequestFollows, AnswerFollows, OncePerRecord, Saw, Led
<1>5. PhoneFollows(d)'
  BY <1>2
  DEF PhoneFollows, RowFollows, RunFollows, ReadFollows, SendFollows,
      AckedFollows, OncePerRecord, Saw, Led, Present
<1> QED
  BY <1>1, <1>3, <1>4, <1>5, AloneFollows

LEMMA PullFollows ==
    ASSUME WriteInv, NEW d \in Phones,
           PullBegin(d) \/ PullRollback(d) \/ PullFail(d)
    PROVE  Follows'
<1>1. TypeInv /\ Follows /\ CloudTypeOK /\ d \in Devices
  BY PhonesAreDevices DEF WriteInv, TypeInv, MobileTypeOK
<1>2. ASSUME NEW request, Send(d, "down", request), UNCHANGED <<mrow, mup>>,
             request.items = {}, request.st # "done"
      PROVE  Follows'
  <2>1. late' = late
    BY <1>2 DEF Send
  <2>2. /\ call'[d]["down"] = request /\ cloud' = cloud
        /\ \A e \in Devices, o \in Roles :
              e # d \/ o # "down" => call'[e][o] = call[e][o]
    BY <1>1, <1>2, SendEffect, UpDown
  <2>3. LateFollows'
    BY <1>1, <2>1, <2>2 DEF Follows, LateFollows, Led
  <2> QED
    BY <1>1, <1>2, <2>2, <2>3, DownFollows
<1>3. NoCall.items = {} /\ NoCall.st # "done"
  BY DEF NoCall
<1>4. CASE PullBegin(d)
  BY <1>2, <1>4 DEF PullBegin, PullCall, NoCall
<1>5. CASE PullRollback(d)
  BY <1>2, <1>3, <1>5 DEF PullRollback, Finish
<1>6. CASE PullFail(d)
  <2>1. Abandon(d, "down") /\ UNCHANGED <<mrow, mup>>
    BY <1>6 DEF PullFail
  <2> QED
    BY <1>1, <1>3, <2>1, AbandonFollows, AbandonEffect, DownFollows, UpDown
<1> QED
  BY <1>4, <1>5, <1>6

(* What is downloaded is known, and a movement is adopted with its         *)
(* category or after it (the test that rolls the transaction back).        *)
LEMMA PulledRowFollows ==
    ASSUME WriteInv, NEW d \in Phones, NEW r \in Records,
           Replied(d, "down", "pull")
    PROVE  /\ Saw(r, Pulled(d, r).rev, Pulled(d, r).val)
           /\ Pulled(d, r).st = "synced" => IsRow(cloud[r])
           /\ Pulled(d, r).st # "absent" <=>
                 mrow[d][r].st # "absent" \/ \E q \in call[d]["down"].rows : q.id = r
<1> DEFINE rows == call[d]["down"].rows
           row == mrow[d][r]
<1>1. /\ row \in Rows /\ RowFollows(d, r)
      /\ \A q \in rows : IsRow(cloud[q.id]) /\ Saw(q.id, q.rev, q.val)
  BY PhonesAreDevices, UpDown
  DEF WriteInv, TypeInv, MobileTypeOK, Follows, PhoneFollows, CallFollows,
      AnswerFollows, Replied
<1>2. CASE \E q \in rows : q.id = r
  <2> DEFINE q == CHOOSE q \in rows : q.id = r
  <2>1. q \in rows /\ q.id = r
    BY <1>2
  <2>2. Pulled(d, r) = ApplyRow(row, q)
    BY <1>2 DEF Pulled
  <2> HIDE DEF q
  <2>3. CASE ApplyRow(row, q) = row
    <3>1. row.st # "absent"
      BY <1>1, <2>3 DEF ApplyRow, Adopt, Rows
    <3> QED
      BY <1>1, <2>1, <2>2, <2>3, <3>1 DEF RowFollows
  <2>4. CASE ApplyRow(row, q) # row
    <3>1. /\ ApplyRow(row, q).val = q.val /\ ApplyRow(row, q).rev = q.rev
          /\ ApplyRow(row, q).st = "synced"
      BY <1>1, <2>4 DEF ApplyRow, Adopt, Rows
    <3> QED
      BY <1>1, <2>1, <2>2, <3>1
  <2> QED
    BY <2>3, <2>4
<1>3. CASE ~ \E q \in rows : q.id = r
  BY <1>1, <1>3 DEF Pulled, RowFollows
<1> QED
  BY <1>2, <1>3

LEMMA PullApplyFollows ==
    ASSUME WriteInv, NEW d \in Phones, PullApply(d)
    PROVE  Follows'
<1>1. /\ mrow' = [mrow EXCEPT ![d] = [r \in Records |-> Pulled(d, r)]]
      /\ Send(d, "down", NoCall) /\ mup' = mup
      /\ Replied(d, "down", "pull") /\ Applicable(d)
      /\ TypeInv /\ History /\ Follows
  BY DEF PullApply, Pulled, Finish, WriteInv
<1>2. /\ \A r \in Records : mrow'[d][r] = Pulled(d, r)
      /\ \A e \in Phones : e # d => mrow'[e] = mrow[e]
  BY <1>1 DEF TypeInv, MobileTypeOK
<1>3. /\ call'[d]["down"] = NoCall /\ call'[d]["up"] = call[d]["up"]
      /\ cloud' = cloud
      /\ \A e \in Devices, o \in Roles : e # d => call'[e][o] = call[e][o]
  BY <1>1, SendEffect, PhonesAreDevices, UpDown DEF TypeInv, MobileTypeOK
<1>4. late' = late
  BY <1>1 DEF Send
<1>5. CallFollows(d, "down")'
  BY <1>3 DEF CallFollows, RequestFollows, AnswerFollows, OncePerRecord, NoCall
<1>6. \A s \in Records :
         /\ Saw(s, Pulled(d, s).rev, Pulled(d, s).val)
         /\ Pulled(d, s).st = "synced" => IsRow(cloud[s])
         /\ Pulled(d, s).st # "absent" <=>
               mrow[d][s].st # "absent" \/ \E q \in call[d]["down"].rows : q.id = s
  BY <1>1, PulledRowFollows
<1>7. ASSUME NEW r \in Records
      PROVE  RowFollows(d, r)'
  <2>1. Saw(r, mrow[d][r].rev, mrow[d][r].val)'
    BY <1>2, <1>3, <1>6 DEF Saw
  <2>2. mrow'[d][r].st = "synced" => IsRow(cloud'[r])
    BY <1>2, <1>3, <1>6
  <2>3. r \in Movements /\ Present(d, r)' => Present(d, CategoryOf[r])'
    <3> SUFFICES ASSUME r \in Movements, Present(d, r)'
                 PROVE  Present(d, CategoryOf[r])'
      OBVIOUS
    <3>1. CategoryOf[r] \in Records
      BY CloudAssumption
    <3>2. \/ Present(d, r)
          \/ \E q \in call[d]["down"].rows : q.id = r
      BY <1>2, <1>6 DEF Present
    <3>3. Present(d, r) => Present(d, CategoryOf[r])
      BY <1>1 DEF Follows, PhoneFollows, RowFollows
    <3>4. \/ Present(d, CategoryOf[r])
          \/ \E q \in call[d]["down"].rows : q.id = CategoryOf[r]
      BY <1>1, <3>2, <3>3 DEF Applicable, Unresolved
    <3> QED
      BY <1>2, <1>6, <3>1, <3>4 DEF Present
  <2> QED
    BY <2>1, <2>2, <2>3 DEF RowFollows
<1>8. ASSUME NEW p \in mup[d].pend
      PROVE  mrow'[d][p.id] = mrow[d][p.id]
  <2>1. p.id \in Records /\ IsPending(d, p.id)
    BY <1>1 DEF History, PhoneHistory, Snapshot, TypeInv, MobileTypeOK, Ups, Changes
  <2> QED
    BY <1>1, <1>2, <2>1, PulledIsStored
<1> QED
  BY <1>1, <1>2, <1>3, <1>4, <1>5, <1>7, <1>8, RowsStep

-----------------------------------------------------------------------------
LEMMA WriteStep ==
    ASSUME WriteInv, [Next]_vars
    PROVE  WriteInv' /\ [CloudStep]_cloudVars /\ Grow
<1>1. TypeInv' /\ History' /\ [CloudStep]_cloudVars
  BY NextStep, HistoryStep DEF WriteInv
<1>2. PushInv' /\ Grow
  BY <1>1, PushInvStep DEF WriteInv
<1>3. CASE CloudNext /\ UNCHANGED mobileVars
  BY <1>1, <1>2, <1>3, CloudNextFollows DEF WriteInv
<1>4. ASSUME NEW d \in Phones, PhoneNext(d)
      PROVE  Follows'
  BY <1>4, EditFollows, PushBeginFollows, PreflightFollows, PhaseDoneFollows,
     AcknowledgeFollows, PushFailFollows, PullFollows, PullApplyFollows
  DEF PhoneNext
<1>5. CASE UNCHANGED vars
  <2>1. Follows
    BY DEF WriteInv
  <2>2. /\ cloud' = cloud /\ call' = call /\ late' = late /\ mrow' = mrow
        /\ mup' = mup
    BY <1>5 DEF vars, mobileVars, cloudVars, serverVars
  <2>3. Follows'
    BY <2>1, <2>2
    DEF Follows, CloudReferences, CallFollows, RequestFollows, AnswerFollows,
        OncePerRecord, Saw, Led, LateFollows, PhoneFollows, RowFollows,
        RunFollows, ReadFollows, SendFollows, AckedFollows, Present
  <2> QED
    BY <1>1, <1>2, <2>3 DEF WriteInv
<1> QED
  BY <1>1, <1>2, <1>3, <1>4, <1>5 DEF Next, WriteInv

LEMMA WriteInvInit == Init => WriteInv
  BY TypeInvInit, HistoryInit, PushInvInit, FollowsInit DEF Init, WriteInv

(* No movement is in the cloud before its category, for every number of    *)
(* phones, records, failures and late requests: push() sends categories    *)
(* first and drops the movements of those that were rejected, and pull()   *)
(* adopts no movement whose category it does not have.                     *)
THEOREM MovementsComeAfter == Spec => []CloudReferences
<1>1. WriteInv => CloudReferences
  BY DEF WriteInv, Follows
<1>2. WriteInv /\ [Next]_vars => WriteInv'
  BY WriteStep
<1> QED
  BY <1>1, <1>2, WriteInvInit, PTL DEF Spec

(* The condition BaselinedWriteDescends puts on a step. *)
Descends ==
    \A d \in Devices, o \in Roles : \A i \in call[d][o].items :
        (/\ call[d][o].st = "running" /\ call'[d][o].st = "done"
         /\ i.base # NoRevision
         /\ IsRow(cloud[i.id]) /\ cloud[i.id].dev # d
         /\ cloud'[i.id] # cloud[i.id])
        => cloud[i.id].val \subseteq cloud'[i.id].val

(* A request is answered by its own handler only. *)
LEMMA AnsweredByRun ==
    ASSUME WriteInv, [Next]_vars, NEW d \in Devices, NEW o \in Roles,
           call[d][o].st = "running", call'[d][o].st = "done"
    PROVE  RunPush(d, o) \/ RunPull(d, o)
<1>1. CloudTypeOK /\ [CloudStep]_cloudVars /\ call[d][o].st # call'[d][o].st
  BY NextStep DEF WriteInv, PushInv
<1>2. NoCall.st # "done"
  BY DEF NoCall
<1>3. ASSUME NEW e \in Devices, NEW p \in Roles,
             Arrive(e, p) \/ RunPush(e, p) \/ RunPull(e, p)
      PROVE  e = d /\ o = p /\ (RunPush(e, p) \/ RunPull(e, p))
  <2>1. call'[e][p].st = "running" \/ RunPush(e, p) \/ RunPull(e, p)
    BY <1>1, <1>3 DEF Arrive, CloudTypeOK, Calls
  <2>2. e # d \/ p # o => call'[d][o] = call[d][o]
    BY <1>1, <1>3 DEF Arrive, RunPush, RunPull, CloudTypeOK
  <2> QED
    BY <1>1, <2>1, <2>2
<1>4. ASSUME NEW q \in late, ArriveLate(q) \/ RunLate(q)
      PROVE  FALSE
  BY <1>1, <1>4 DEF ArriveLate, RunLate
<1>5. ASSUME NEW e \in Devices, NEW p \in Roles, ClientCall(e, p) \/ Abandon(e, p)
      PROVE  FALSE
  <2>1. CASE e = d /\ p = o
    BY <1>1, <1>2, <1>5, <2>1 DEF ClientCall, Abandon, CloudTypeOK
  <2>2. CASE e # d \/ p # o
    <3>1. call'[d][o] = call[d][o]
      BY <1>1, <1>5, <2>2 DEF ClientCall, Abandon, CloudTypeOK
    <3> QED
      BY <1>1, <3>1
  <2> QED
    BY <2>1, <2>2
<1>6. ASSUME NEW e \in Devices, NEW r \in Records, MakeEdit(e, r)
      PROVE  FALSE
  BY <1>1, <1>6 DEF MakeEdit, serverVars
<1>7. CASE UNCHANGED cloudVars
  BY <1>1, <1>7 DEF cloudVars, serverVars
<1> QED
  BY <1>1, <1>3, <1>4, <1>5, <1>6, <1>7 DEF CloudStep, CloudNext

LEMMA DescendsStep ==
    ASSUME WriteInv, [Next]_vars
    PROVE  Descends
<1> SUFFICES ASSUME NEW d \in Devices, NEW o \in Roles, NEW i \in call[d][o].items,
                    call[d][o].st = "running", call'[d][o].st = "done",
                    i.base # NoRevision, IsRow(cloud[i.id]), cloud[i.id].dev # d,
                    cloud'[i.id] # cloud[i.id]
             PROVE  cloud[i.id].val \subseteq cloud'[i.id].val
  BY DEF Descends
<1> DEFINE c == call[d][o]
<1>1. /\ CloudTypeOK /\ c.items \in SUBSET Items /\ RequestFollows(c.items)
      /\ i.id \in Records
  BY DEF WriteInv, PushInv, CloudTypeOK, Calls, Items, Follows, CallFollows
<1>2. RunPush(d, o)
  <2>1. ~RunPull(d, o)
    BY DEF RunPull
  <2> QED
    BY <2>1, AnsweredByRun
<1>3. Upsert(c.items, d, c.now)
  BY <1>2 DEF RunPush
<1>4. PICK j \in Accepted(c.items, d) : j.id = i.id
  BY <1>1, <1>3, OtherRows
<1>5. j = i
  BY <1>1, <1>4 DEF RequestFollows, OncePerRecord, Accepted
<1>6. cloud'[i.id].val = i.val
  <2>1. OncePerRecord(c.items)
    BY <1>1 DEF RequestFollows
  <2>2. PICK items \in SUBSET Items : items = c.items
    BY <1>1
  <2>3. PICK now : now = c.now
    OBVIOUS
  <2>4. Upsert(items, d, now) /\ i \in Accepted(items, d) /\ OncePerRecord(items)
    BY <1>3, <1>4, <1>5, <2>1, <2>2, <2>3
  <2>5. cloud'[i.id] = [val |-> i.val, rev |-> Exact(now), dev |-> d]
    BY <1>1, <2>4, UpsertRows
  <2> QED
    BY <2>5
<1>7. i.base = cloud[i.id].rev
  BY <1>4, <1>5 DEF Accepted, Accepts
<1>8. Saw(i.id, i.base, i.val)
  BY <1>1 DEF RequestFollows
<1> QED
  BY <1>6, <1>7, <1>8 DEF Saw

(* A write that carries a baseline replaces another device's content only  *)
(* by one that descends from it.  It is what Saw says of the request when  *)
(* its baseline is still the row's revision.                               *)
THEOREM BaselinesProtect == Spec => BaselinedWriteDescends
<1>1. WriteInv /\ [Next]_vars => WriteInv' /\ [Descends]_vars
  BY WriteStep, DescendsStep
<1>2. Spec => [][Descends]_vars
  BY <1>1, WriteInvInit, PTL DEF Spec
<1> QED
  BY <1>2 DEF BaselinedWriteDescends, Descends
-----------------------------------------------------------------------------
(* Why an upload whose answer was lost is recognised.  It holds when no    *)
(* request that was given up is executed later (MaxLate = 0), so that what *)
(* the preflight sees stays true until the run ends.                       *)

(* The cloud holds what push() read of a row, from this very phone. *)
Mine(d, p) == cloud[p.id].dev = d /\ cloud[p.id].val = p.val

(* What a run knows of a category the cloud holds from this phone: the     *)
(* preflight's answer has it as a retry, so it is sent, accepted whatever  *)
(* its baseline, and acknowledged at a revision that is not older.         *)
Told(d, run, c) ==
    \A p \in run.pend : p.id \in Categories =>
        /\ run.pc = "preflight" /\ Mine(d, p) =>
              /\ c.st = "running" => cloud[p.id].rev <= Exact(c.now)
              /\ c.st = "done" =>
                    /\ \E q \in c.rows : q.id = p.id
                    /\ \A q \in c.rows : q.id = p.id => IsRetry(d, p, q)
        /\ run.pc = "categories" /\ Mine(d, p) =>
              /\ \E i \in c.items : i.id = p.id
              /\ c.st = "done" => p.id \in c.accepted
        /\ run.pc \in {"categories", "movements"} /\ c.st = "done" =>
              (p.id \in c.accepted => p.rev <= Exact(c.now))
        /\ run.pc \in {"movements", "ack"} /\ Mine(d, p) =>
              \E a \in run.acked : a.id = p.id
        /\ \A a \in run.acked : a.id = p.id => p.rev <= a.rev

(* The preflight asks for everything; categories go out, then the rest. *)
Shape(run, c) ==
    /\ run.pc = "preflight" => c.since = NoRevision /\ run.acked = {}
    /\ run.pc = "categories" => c.items = CategoryItems(run.send)
    /\ run.pc = "movements" =>
          c.items = run.send /\ CategoryItems(run.send) = {}

Tell(d) == Told(d, mup[d], call[d]["up"]) /\ Shape(mup[d], call[d]["up"])

Written == \A r \in Records : cloud[r].dev # NoDevice => IsRow(cloud[r])

Recognised == late = {} /\ Written /\ \A d \in Phones : Tell(d)

TellInv == WriteInv /\ (MaxLate = 0 => Recognised)

LEMMA TellInvInit == Init => TellInv
<1> SUFFICES ASSUME Init PROVE TellInv
  OBVIOUS
<1>1. Written /\ late = {}
  BY DEF Init, CloudInit, Written, NoRow
<1>2. ASSUME NEW d \in Phones
      PROVE  Tell(d)
  <2>1. mup[d] = NoUp
    BY DEF Init, MobileInit
  <2> QED
    BY <2>1 DEF Tell, Told, Shape, NoUp
<1> QED
  BY <1>1, <1>2, WriteInvInit DEF TellInv, Recognised

(* A step that leaves the run and its request as they are, and writes a    *)
(* row as another device.                                                  *)
LEMMA TellKept ==
    ASSUME TypeInv, NEW d \in Phones, Tell(d),
           mup'[d] = mup[d], call'[d]["up"] = call[d]["up"],
           \A r \in Records : cloud'[r] = cloud[r] \/ cloud'[r].dev # d
    PROVE  Tell(d)'
<1>1. PICK run \in Ups : run = mup[d]
  BY DEF TypeInv, MobileTypeOK
<1>2. PICK c : c = call[d]["up"]
  OBVIOUS
<1>3. \A p \in run.pend : p.id \in Records
  BY DEF Ups, Changes
<1>4. \A p \in run.pend : Mine(d, p)' => Mine(d, p) /\ cloud'[p.id] = cloud[p.id]
  BY <1>3 DEF Mine
<1>5. Told(d, run, c) /\ Shape(run, c)
  BY <1>1, <1>2 DEF Tell
<1>6. Told(d, run, c)'
  BY <1>4, <1>5 DEF Told
<1>7. Shape(run, c)'
  BY <1>5 DEF Shape, CategoryItems
<1> QED
  BY <1>1, <1>2, <1>6, <1>7 DEF Tell

(* A step of phone d that leaves the cloud's rows and every other phone's  *)
(* run as they are.                                                        *)
LEMMA AloneTells ==
    ASSUME TypeInv, Recognised, NEW d \in Phones, Alone(d), late' = late, Tell(d)'
    PROVE  Recognised'
<1>1. ASSUME NEW e \in Phones, e # d
      PROVE  Tell(e)'
  <2>1. /\ mup'[e] = mup[e] /\ call'[e]["up"] = call[e]["up"] /\ cloud' = cloud
        /\ Tell(e)
    BY <1>1, PhonesAreDevices, UpDown DEF Alone, Recognised
  <2> QED
    BY <2>1, TellKept
<1>2. late' = {} /\ Written'
  BY DEF Alone, Recognised, Written
<1> QED
  BY <1>1, <1>2 DEF Recognised

(* Steps that neither touch a run nor its request. *)
LEMMA AsideTells ==
    ASSUME TypeInv, Recognised, cloud' = cloud, late' = late, mup' = mup,
           \A d \in Phones : call'[d]["up"] = call[d]["up"]
    PROVE  Recognised'
<1>1. \A d \in Phones : Tell(d)'
  BY TellKept DEF Recognised
<1> QED
  BY <1>1 DEF Recognised, Written

-----------------------------------------------------------------------------
(* Steps of push(). *)
LEMMA SendTells ==
    ASSUME TypeInv, Recognised, NEW d \in Phones, NEW run, NEW request,
           mrow' = mrow, mup' = [mup EXCEPT ![d] = run], Send(d, "up", request),
           Told(d, run, request), Shape(run, request)
    PROVE  Recognised'
<1>1. /\ call'[d]["up"] = request /\ cloud' = cloud
      /\ \A e \in Devices, o \in Roles :
            e # d \/ o # "up" => call'[e][o] = call[e][o]
  BY SendEffect, PhonesAreDevices, UpDown DEF TypeInv, MobileTypeOK
<1>2. mup'[d] = run /\ \A e \in Phones : e # d => mup'[e] = mup[e]
  BY DEF TypeInv, MobileTypeOK
<1>3. late' = late
  BY DEF Send
<1>4. Alone(d)
  BY <1>1, <1>2 DEF Alone
<1>5. Tell(d)'
  <2>1. Told(d, run, request)' /\ Shape(run, request)'
    BY <1>1 DEF Told, Shape, Mine, CategoryItems
  <2> QED
    BY <1>1, <1>2, <2>1 DEF Tell
<1> QED
  BY <1>3, <1>4, <1>5, AloneTells

LEMMA PushBeginTells ==
    ASSUME TypeInv, Recognised, NEW d \in Phones, PushBegin(d)
    PROVE  Recognised'
<1> DEFINE pend == {[id |-> r, val |-> mrow[d][r].val, ver |-> mrow[d][r].ver,
                     rev |-> mrow[d][r].rev] :
                        r \in {s \in Records : IsPending(d, s)}}
           run == [NoUp EXCEPT !.pc = "preflight", !.pend = pend]
           request == PullCall(NoRevision)
<1>1. run.pc = "preflight" /\ run.acked = {}
  BY DEF NoUp
<1>2. request.since = NoRevision /\ request.st = "sent"
  BY DEF PullCall, NoCall
<1>3. /\ mrow' = mrow /\ mup' = [mup EXCEPT ![d] = run] /\ Send(d, "up", request)
  BY DEF PushBegin
<1> HIDE DEF pend, run, request
<1>4. Told(d, run, request) /\ Shape(run, request)
  BY <1>1, <1>2 DEF Told, Shape
<1> QED
  BY <1>3, <1>4, SendTells

(* A category the cloud holds from this phone is sent or was acknowledged. *)
LEMMA NextPhaseTells ==
    ASSUME TypeInv, Recognised, NEW d \in Phones, NEW run \in Ups,
           NextPhase(d, run), mrow' = mrow,
           \A p \in run.pend : p.id \in Categories =>
              /\ Mine(d, p) =>
                    \/ \E i \in run.send : i.id = p.id
                    \/ /\ CategoryItems(run.send) = {}
                       /\ \E a \in run.acked : a.id = p.id
              /\ \A a \in run.acked : a.id = p.id => p.rev <= a.rev
    PROVE  Recognised'
<1> DEFINE cats == CategoryItems(run.send)
           movs == MovementItems(run.send)
<1>1. ASSUME NEW pc \in {"categories", "movements", "ack"}, NEW request,
             mup' = [mup EXCEPT ![d] = [run EXCEPT !.pc = pc]],
             Send(d, "up", request), request.st # "done",
             Shape([run EXCEPT !.pc = pc], request),
             \A p \in run.pend : p.id \in Categories /\ Mine(d, p) =>
                IF pc = "categories" THEN \E i \in request.items : i.id = p.id
                ELSE \E a \in run.acked : a.id = p.id
      PROVE  Recognised'
  <2> DEFINE new == [run EXCEPT !.pc = pc]
  <2>1. new.pc = pc /\ new.pend = run.pend /\ new.acked = run.acked
    BY DEF Ups
  <2>2. mup' = [mup EXCEPT ![d] = new] /\ Shape(new, request)
    BY <1>1
  <2> HIDE DEF new
  <2>3. Told(d, new, request)
    BY <1>1, <2>1 DEF Told
  <2> QED
    BY <1>1, <2>2, <2>3, SendTells
<1>2. CASE /\ cats # {}
           /\ mup' = [mup EXCEPT ![d] = [run EXCEPT !.pc = "categories"]]
           /\ Send(d, "up", PushCall(cats))
  <2> DEFINE new == [run EXCEPT !.pc = "categories"]
             request == PushCall(cats)
  <2>1. new.pc = "categories" /\ new.send = run.send
    BY DEF Ups
  <2>2. request.items = cats /\ request.st = "sent"
    BY PushCallIs
  <2>3. mup' = [mup EXCEPT ![d] = new] /\ Send(d, "up", request)
    BY <1>2
  <2>4. Shape(new, request)
    BY <2>1, <2>2 DEF Shape
  <2>5. \A p \in run.pend : p.id \in Categories /\ Mine(d, p) =>
           \E i \in request.items : i.id = p.id
    BY <1>2, <2>2 DEF CategoryItems
  <2> QED
    BY <1>1, <2>2, <2>3, <2>4, <2>5
<1>3. ASSUME cats = {}
      PROVE  /\ movs = run.send
             /\ \A p \in run.pend : p.id \in Categories /\ Mine(d, p) =>
                   \E a \in run.acked : a.id = p.id
  BY <1>3 DEF CategoryItems, MovementItems
<1>4. CASE /\ cats = {}
           /\ mup' = [mup EXCEPT ![d] = [run EXCEPT !.pc = "movements"]]
           /\ Send(d, "up", PushCall(movs))
  <2> DEFINE new == [run EXCEPT !.pc = "movements"]
             request == PushCall(movs)
  <2>1. new.pc = "movements" /\ new.send = run.send
    BY DEF Ups
  <2>2. request.items = movs /\ request.st = "sent"
    BY PushCallIs
  <2>3. mup' = [mup EXCEPT ![d] = new] /\ Send(d, "up", request)
    BY <1>4
  <2>4. Shape(new, request)
    BY <1>3, <1>4, <2>1, <2>2 DEF Shape
  <2> QED
    BY <1>1, <1>3, <1>4, <2>2, <2>3, <2>4
<1>5. CASE /\ cats = {}
           /\ mup' = [mup EXCEPT ![d] = [run EXCEPT !.pc = "ack"]]
           /\ Send(d, "up", NoCall)
  <2>1. [run EXCEPT !.pc = "ack"].pc = "ack" /\ NoCall.st # "done"
    BY DEF Ups, NoCall
  <2>2. Shape([run EXCEPT !.pc = "ack"], NoCall)
    BY <2>1 DEF Shape
  <2> QED
    BY <1>1, <1>3, <1>5, <2>1, <2>2
<1> QED
  BY <1>2, <1>4, <1>5 DEF NextPhase, Finish

LEMMA PreflightTells ==
    ASSUME WriteInv, Recognised, NEW d \in Phones, Preflight(d)
    PROVE  Recognised'
<1> DEFINE run == mup[d]
           c == call[d]["up"]
           rows == c.rows
           clash == {p \in run.pend : Clashes(d, p, rows)}
           items == {ItemOf(p, rows) : p \in run.pend \ clash}
           orphans == OfRejectedCategory(items, Reject(clash, "conflict_remote_newer"))
           dropped == clash \cup {p \in run.pend : p.id \in {i.id : i \in orphans}}
           send == items \ orphans
           rej == Reject(dropped, "conflict_remote_newer")
           next == [run EXCEPT !.send = send, !.rej = rej]
<1>1. /\ run \in Ups /\ run.pend \in SUBSET Changes
      /\ rows \in SUBSET PulledRows
  BY PhonesAreDevices, UpDown
  DEF WriteInv, TypeInv, MobileTypeOK, CloudTypeOK, Calls, Ups
<1>2. send \in SUBSET Items /\ rej \in SUBSET Rejections
  BY <1>1, ItemType, RejectType DEF Errors
<1>3. /\ NextPhase(d, next) /\ mrow' = mrow /\ Replied(d, "up", "pull")
      /\ run.pc = "preflight"
  BY DEF Preflight
<1>4. Told(d, run, c) /\ run.acked = {}
  BY <1>3 DEF Recognised, Tell, Shape
<1>5. ASSUME NEW p \in run.pend, p.id \in Categories, Mine(d, p)
      PROVE  \E i \in send : i.id = p.id
  <2>1. \A q \in rows : q.id = p.id => IsRetry(d, p, q)
    BY <1>3, <1>4, <1>5 DEF Told, Replied
  <2>2. p \notin clash
    BY <2>1 DEF Clashes, CloudRowOf
  <2>3. ItemOf(p, rows) \in items /\ ItemOf(p, rows).id = p.id
    BY <2>2 DEF ItemOf
  <2>4. ItemOf(p, rows) \notin orphans
    BY <1>5, <2>3 DEF OfRejectedCategory, Movements
  <2> QED
    BY <2>3, <2>4
<1> HIDE DEF send, rej
<1>6. next \in Ups /\ next.pend = run.pend /\ next.send = send /\ next.acked = {}
  BY <1>1, <1>2, <1>4 DEF Ups
<1> HIDE DEF next
<1> QED
  BY <1>3, <1>5, <1>6, NextPhaseTells DEF WriteInv

LEMMA PhaseDoneTells ==
    ASSUME WriteInv, Recognised, NEW d \in Phones, PhaseDone(d)
    PROVE  Recognised'
<1> DEFINE run == mup[d]
           c == call[d]["up"]
           of(ids) == {p \in run.pend : p.id \in ids}
           acked == {[id |-> p.id, ver |-> p.ver, rev |-> Exact(c.now)] :
                        p \in of(c.accepted)}
           rej == run.rej \cup Reject(of(c.rejected), "conflict_remote_newer")
           rest == run.send \ c.items
           orphans == OfRejectedCategory(rest, rej)
           send == rest \ orphans
           rej2 == rej \cup Reject(of({i.id : i \in orphans}), "category_rejected")
           next == [run EXCEPT !.send = send, !.acked = run.acked \cup acked,
                               !.rej = rej2]
<1>1. /\ run \in Ups /\ run.pend \in SUBSET Changes
      /\ run.send \in SUBSET Items /\ run.acked \in SUBSET Acks
      /\ run.rej \in SUBSET Rejections /\ c.now \in 0..MaxClock
  BY PhonesAreDevices, UpDown
  DEF WriteInv, TypeInv, MobileTypeOK, Ups, CloudTypeOK, Calls
<1>2. /\ run.pc \in {"categories", "movements"} /\ c.st = "done"
      /\ NextPhase(d, next) /\ mrow' = mrow
  BY DEF PhaseDone, Replied
<1>3. acked \in SUBSET Acks /\ rej2 \in SUBSET Rejections /\ send \in SUBSET Items
  BY <1>1, ExactIsRevision, RejectType DEF Changes, Acks, Errors
<1>4. Told(d, run, c) /\ Shape(run, c)
  BY DEF Recognised, Tell
<1>5. CategoryItems(send) = {}
  BY <1>2, <1>4 DEF Shape, CategoryItems
<1>6. \A p \in run.pend : p.id \in Categories /\ Mine(d, p) =>
         \E a \in run.acked \cup acked : a.id = p.id
  <2> SUFFICES ASSUME NEW p \in run.pend, p.id \in Categories, Mine(d, p)
               PROVE  \E a \in run.acked \cup acked : a.id = p.id
    OBVIOUS
  <2>1. CASE run.pc = "categories"
    <3>1. p.id \in c.accepted
      BY <1>2, <1>4, <2>1 DEF Told
    <3>2. p \in of(c.accepted)
      BY <3>1
    <3> DEFINE a == [id |-> p.id, ver |-> p.ver, rev |-> Exact(c.now)]
    <3>3. a \in acked
      BY <3>2
    <3>4. a.id = p.id
      OBVIOUS
    <3> QED
      BY <3>3, <3>4
  <2>2. CASE run.pc = "movements"
    BY <1>4, <2>2 DEF Told
  <2> QED
    BY <1>2, <2>1, <2>2
<1>7. \A p \in run.pend : p.id \in Categories =>
         \A a \in run.acked \cup acked : a.id = p.id => p.rev <= a.rev
  <2>1. \A p \in run.pend : p.id \in Categories =>
           /\ p.id \in c.accepted => p.rev <= Exact(c.now)
           /\ \A a \in run.acked : a.id = p.id => p.rev <= a.rev
    BY <1>2, <1>4 DEF Told
  <2>2. \A a \in acked : a.id \in c.accepted /\ a.rev = Exact(c.now)
    OBVIOUS
  <2> QED
    BY <2>1, <2>2
<1> HIDE DEF send, rej2, acked
<1>8. /\ next \in Ups /\ next.pend = run.pend /\ next.send = send
      /\ next.acked = run.acked \cup acked
  BY <1>1, <1>3 DEF Ups
<1> HIDE DEF next
<1> QED
  BY <1>2, <1>5, <1>6, <1>7, <1>8, NextPhaseTells DEF WriteInv

-----------------------------------------------------------------------------
(* Steps of the cloud.  Those of the phone's own request: *)
LEMMA ArriveTells ==
    ASSUME WriteInv, NEW d \in Phones, Tell(d), Arrive(d, "up"),
           mup'[d] = mup[d]
    PROVE  Tell(d)'
<1>1. PICK run \in Ups : run = mup[d]
  BY DEF WriteInv, TypeInv, MobileTypeOK
<1>2. PICK c \in Calls : c = call[d]["up"]
  BY PhonesAreDevices, UpDown DEF WriteInv, PushInv, CloudTypeOK
<1>3. PICK n : n = call'[d]["up"]
  OBVIOUS
<1>4. /\ cloud' = cloud /\ n.st = "running" /\ n.now = clock + 1
      /\ n.items = c.items /\ n.since = c.since
  <2>1. n = [c EXCEPT !.st = "running", !.now = clock + 1] /\ cloud' = cloud
    BY <1>2, <1>3, PhonesAreDevices, UpDown
    DEF Arrive, WriteInv, PushInv, CloudTypeOK
  <2> QED
    BY <2>1 DEF Calls
<1>5. \A p \in run.pend : cloud[p.id].rev <= Exact(n.now)
  <2>1. clock \in Nat /\ \A r \in Records : cloud[r].rev \in Nat
    BY Numbers DEF WriteInv, PushInv
  <2>2. \A r \in Records : cloud[r].rev <= Exact(clock)
    BY DEF WriteInv, PushInv, ExecutingIsNewest
  <2>3. \A p \in run.pend : p.id \in Records
    BY DEF Ups, Changes
  <2> QED
    BY <1>4, <2>1, <2>2, <2>3 DEF Exact
<1>6. Told(d, run, c) /\ Shape(run, c)
  BY <1>1, <1>2 DEF Tell
<1>7. Told(d, run, n)'
  BY <1>4, <1>5, <1>6 DEF Told, Mine
<1>8. Shape(run, n)'
  BY <1>4, <1>6 DEF Shape, CategoryItems
<1> QED
  BY <1>1, <1>3, <1>7, <1>8 DEF Tell

(* The preflight's answer has every category the cloud holds. *)
LEMMA PullTells ==
    ASSUME WriteInv, NEW d \in Phones, Tell(d), RunPull(d, "up"), Written,
           mup'[d] = mup[d]
    PROVE  Tell(d)'
<1>1. PICK run \in Ups : run = mup[d]
  BY DEF WriteInv, TypeInv, MobileTypeOK
<1>2. PICK c \in Calls : c = call[d]["up"]
  BY PhonesAreDevices, UpDown DEF WriteInv, PushInv, CloudTypeOK
<1>3. PICK n : n = call'[d]["up"]
  OBVIOUS
<1>4. /\ cloud' = cloud /\ n.st = "done" /\ n.items = c.items /\ n.since = c.since
      /\ n.rows = RowsBetween(c.since, Exact(c.now))
      /\ c.st = "running" /\ c.kind = "pull"
  <2>1. /\ n = [c EXCEPT !.st = "done",
                         !.rows = RowsBetween(c.since, Exact(c.now))]
        /\ cloud' = cloud /\ c.st = "running" /\ c.kind = "pull"
    BY <1>2, <1>3, PhonesAreDevices, UpDown
    DEF RunPull, WriteInv, PushInv, CloudTypeOK
  <2> QED
    BY <2>1 DEF Calls
<1>5. run.pc = "preflight"
  BY <1>1, <1>2, <1>4 DEF WriteInv, TypeInv, Phases, NoCall, Ups
<1>6. Told(d, run, c) /\ Shape(run, c) /\ c.since = NoRevision
  BY <1>1, <1>2, <1>5 DEF Tell, Shape
<1>7. ASSUME NEW p \in run.pend, p.id \in Categories, Mine(d, p)
      PROVE  /\ \E q \in n.rows : q.id = p.id
             /\ \A q \in n.rows : q.id = p.id => IsRetry(d, p, q)
  <2>1. p.id \in Records /\ cloud[p.id].rev \in Nat
    BY Numbers DEF Ups, Changes, WriteInv, PushInv
  <2>2. IsRow(cloud[p.id])
    BY <1>7, <2>1, PhonesAreDevices, CloudAssumption DEF Written, Mine, NoDevice
  <2>3. cloud[p.id].rev > NoRevision /\ cloud[p.id].rev <= Exact(c.now)
    BY <1>4, <1>5, <1>6, <1>7, <2>1, <2>2 DEF Told, IsRow, NoRevision
  <2>4. [id |-> p.id, val |-> cloud[p.id].val, rev |-> cloud[p.id].rev,
         dev |-> cloud[p.id].dev] \in n.rows
    BY <1>4, <1>6, <2>1, <2>2, <2>3 DEF RowsBetween
  <2>5. \A q \in n.rows : q.dev = cloud[q.id].dev /\ q.val = cloud[q.id].val
    BY <1>4 DEF RowsBetween
  <2> QED
    BY <1>7, <2>4, <2>5 DEF IsRetry, Mine
<1>8. Told(d, run, n)'
  BY <1>4, <1>5, <1>6, <1>7 DEF Told, Mine
<1>9. Shape(run, n)'
  BY <1>4, <1>5, <1>6 DEF Shape
<1> QED
  BY <1>1, <1>3, <1>8, <1>9 DEF Tell

(* The push takes what the row's last writer sends, and what it takes is   *)
(* newer than what the phone had read.                                     *)
LEMMA PushTells ==
    ASSUME WriteInv, NEW d \in Phones, Tell(d), RunPush(d, "up"),
           mup'[d] = mup[d]
    PROVE  Tell(d)'
<1>1. PICK run \in Ups : run = mup[d]
  BY DEF WriteInv, TypeInv, MobileTypeOK
<1>2. PICK c \in Calls : c = call[d]["up"]
  BY PhonesAreDevices, UpDown DEF WriteInv, PushInv, CloudTypeOK
<1>3. PICK n : n = call'[d]["up"]
  OBVIOUS
<1> DEFINE taken == {i.id : i \in Accepted(c.items, d)}
<1>4. /\ n.st = "done" /\ n.items = c.items /\ n.since = c.since
      /\ n.now = c.now /\ n.accepted = taken
      /\ c.st = "running" /\ c.kind = "push" /\ Upsert(c.items, d, c.now)
  <2>1. /\ n = [c EXCEPT !.st = "done", !.accepted = taken,
                         !.rejected = {i.id : i \in c.items} \ taken]
        /\ c.st = "running" /\ c.kind = "push" /\ Upsert(c.items, d, c.now)
    BY <1>2, <1>3, PhonesAreDevices, UpDown
    DEF RunPush, WriteInv, PushInv, CloudTypeOK
  <2> HIDE DEF taken
  <2> QED
    BY <2>1 DEF Calls
<1>5. run.pc \in {"categories", "movements"}
  BY <1>1, <1>2, <1>4 DEF WriteInv, TypeInv, Phases, NoCall, Ups
<1>6. Told(d, run, c) /\ Shape(run, c)
  BY <1>1, <1>2 DEF Tell
<1>7. \A p \in run.pend : p.id \in Records /\ p.rev \in Nat
  <2>1. Revisions \subseteq Nat
    BY CloudAssumption DEF Revisions
  <2> QED
    BY <2>1 DEF Ups, Changes
<1>8. ASSUME NEW p \in run.pend, p.id \in Categories
      PROVE  p.rev <= Exact(c.now)
  <2>1. Saw(p.id, p.rev, p.val)
    BY <1>1 DEF WriteInv, Follows, PhoneFollows, RunFollows, ReadFollows
  <2>2. Newest(c.now, clock, cloud)
    BY <1>2, <1>4, PhonesAreDevices, UpDown
    DEF WriteInv, PushInv, ExecutingIsNewest, Executing
  <2>3. cloud[p.id].rev \in Nat /\ c.now \in Nat
    BY <1>2, <1>7, Numbers, PhonesAreDevices, UpDown DEF WriteInv, PushInv
  <2> QED
    BY <1>7, <2>1, <2>2, <2>3 DEF Saw, Newest, Exact
<1>9. ASSUME NEW p \in run.pend, p.id \in Categories, cloud'[p.id] # cloud[p.id]
      PROVE  \E i \in Accepted(c.items, d) : i.id = p.id
  BY <1>4, <1>7, <1>9, OtherRows
<1>10. ASSUME NEW p \in run.pend, p.id \in Categories, Mine(d, p)',
              run.pc = "categories"
       PROVE  (\E i \in c.items : i.id = p.id) /\ p.id \in taken
  <2>1. CASE cloud'[p.id] # cloud[p.id]
    BY <1>9, <1>10, <2>1 DEF Accepted
  <2>2. CASE cloud'[p.id] = cloud[p.id]
    <3>1. Mine(d, p)
      BY <1>10, <2>2 DEF Mine
    <3>2. PICK i \in c.items : i.id = p.id
      BY <1>6, <1>10, <3>1 DEF Told
    <3>3. i \in Accepted(c.items, d)
      BY <3>1, <3>2 DEF Accepted, Accepts, Mine
    <3> QED
      BY <3>2, <3>3
  <2> QED
    BY <2>1, <2>2
<1>11. ASSUME NEW p \in run.pend, p.id \in Categories, Mine(d, p)',
              run.pc = "movements"
       PROVE  \E a \in run.acked : a.id = p.id
  <2>1. \A i \in c.items : i.id \notin Categories
    BY <1>6, <1>11 DEF Shape, CategoryItems
  <2>2. cloud'[p.id] = cloud[p.id]
    BY <1>9, <1>11, <2>1 DEF Accepted
  <2>3. Mine(d, p)
    BY <1>11, <2>2 DEF Mine
  <2> QED
    BY <1>6, <1>11, <2>3 DEF Told
<1> HIDE DEF taken
<1>12. \A p \in run.pend : p.id \in Categories =>
          \A a \in run.acked : a.id = p.id => p.rev <= a.rev
  BY <1>6 DEF Told
<1>13. Told(d, run, n)'
  BY <1>4, <1>5, <1>8, <1>10, <1>11, <1>12 DEF Told
<1>14. Shape(run, n)'
  BY <1>4, <1>5, <1>6 DEF Shape, CategoryItems
<1> QED
  BY <1>1, <1>3, <1>13, <1>14 DEF Tell

(* A push writes rows, as the device it comes from. *)
LEMMA UpsertWrites ==
    ASSUME PushInv, Written, NEW e \in Devices, NEW p \in Roles, RunPush(e, p)
    PROVE  /\ Written'
           /\ \A r \in Records : cloud'[r] = cloud[r] \/ cloud'[r].dev = e
<1> DEFINE c == call[e][p]
<1>1. Upsert(c.items, e, c.now)
  BY DEF RunPush
<1>2. \A r \in Records :
         \/ cloud'[r] = cloud[r]
         \/ cloud'[r].dev = e /\ cloud'[r].rev = Exact(c.now)
  BY <1>1 DEF Upsert
<1>3. ASSUME NEW r \in Records
      PROVE  Exact(c.now) # NoRevision
  <2>1. Newest(c.now, clock, cloud)
    BY DEF PushInv, ExecutingIsNewest, Executing, RunPush
  <2>2. cloud[r].rev \in Nat /\ c.now \in Nat
    BY Numbers DEF PushInv
  <2> QED
    BY <2>1, <2>2 DEF Newest, NoRevision, Exact
<1> QED
  BY <1>2, <1>3 DEF Written, IsRow

LEMMA CloudTells ==
    ASSUME WriteInv, Recognised, CloudNext, UNCHANGED mobileVars
    PROVE  Recognised'
<1>1. /\ TypeInv /\ PushInv /\ CloudTypeOK /\ mup' = mup
      /\ late = {} /\ Written /\ \A d \in Phones : Tell(d)
  BY DEF WriteInv, TypeInv, MobileTypeOK, mobileVars, Recognised
<1>2. PICK e \in Devices, p \in Roles :
         Arrive(e, p) \/ RunPush(e, p) \/ RunPull(e, p)
  BY <1>1 DEF CloudNext
<1>3. /\ late' = late
      /\ \A d \in Devices, o \in Roles : d # e \/ o # p => call'[d][o] = call[d][o]
  BY <1>1, <1>2 DEF Arrive, RunPush, RunPull, CloudTypeOK
<1>4. Written' /\ \A r \in Records : cloud'[r] = cloud[r] \/ cloud'[r].dev = e
  <2>1. CASE RunPush(e, p)
    BY <1>1, <2>1, UpsertWrites
  <2>2. CASE Arrive(e, p) \/ RunPull(e, p)
    BY <1>1, <2>2 DEF Arrive, RunPull, Written
  <2> QED
    BY <1>2, <2>1, <2>2
<1>5. ASSUME NEW d \in Phones
      PROVE  Tell(d)'
  <2>1. CASE e # d
    BY <1>1, <1>3, <1>4, <2>1, PhonesAreDevices, UpDown, TellKept
  <2>2. CASE e = d /\ p = "down"
    <3>1. ~RunPush(e, p)
      BY <1>1, <2>2 DEF RunPush, TypeInv, Phases, Downs, MobileTypeOK, NoCall
    <3>2. cloud' = cloud
      BY <1>2, <3>1 DEF Arrive, RunPull
    <3> QED
      BY <1>1, <1>3, <2>2, <3>2, PhonesAreDevices, UpDown, TellKept
  <2>3. CASE e = d /\ p = "up"
    BY <1>1, <1>2, <2>3, ArriveTells, PullTells, PushTells
  <2> QED
    BY <2>1, <2>2, <2>3 DEF Roles
<1> QED
  BY <1>1, <1>3, <1>4, <1>5 DEF Recognised

-----------------------------------------------------------------------------
(* A run that ends. *)
LEMMA EndTells ==
    ASSUME TypeInv, Recognised, NEW d \in Phones, Alone(d), late' = late,
           mup'[d] = NoUp
    PROVE  Recognised'
<1>1. Tell(d)'
  BY DEF Tell, Told, Shape, NoUp
<1> QED
  BY <1>1, AloneTells

(* With MaxLate = 0 a request that is given up is never executed. *)
LEMMA NothingIsLate ==
    ASSUME MaxLate = 0, late = {}, NEW d, NEW o, Abandon(d, o)
    PROVE  late' = late
<1>1. Cardinality(late) = 0
  BY FS_EmptySet
<1> QED
  BY <1>1 DEF Abandon

LEMMA PhoneTells ==
    ASSUME MaxLate = 0, WriteInv, Recognised, NEW d \in Phones, PhoneNext(d)
    PROVE  Recognised'
<1>1. TypeInv /\ CloudTypeOK /\ late = {} /\ d \in Devices
  BY PhonesAreDevices DEF WriteInv, TypeInv, MobileTypeOK, Recognised
<1>2. ASSUME NEW r \in Records, Edit(d, r)
      PROVE  Recognised'
  <2>1. UNCHANGED <<cloud, late, call, mup>>
    BY <1>2 DEF Edit, MakeEdit, serverVars
  <2> QED
    BY <1>1, <2>1, AsideTells
<1>3. CASE Acknowledge(d)
  <2>1. /\ UNCHANGED <<cloud, late, call>>
        /\ mup' = [mup EXCEPT ![d] = NoUp]
        /\ mrow' = [mrow EXCEPT ![d] = [r \in Records |-> Acked(d, r)]]
    BY <1>3 DEF Acknowledge, Acked, cloudVars, serverVars
  <2>2. /\ mup'[d] = NoUp /\ \A e \in Phones : e # d => mup'[e] = mup[e]
        /\ \A e \in Phones : e # d => mrow'[e] = mrow[e]
    BY <1>1, <2>1 DEF TypeInv, MobileTypeOK
  <2> QED
    BY <1>1, <2>1, <2>2, EndTells DEF Alone
<1>4. CASE PushFail(d)
  <2>1. /\ mup' = [mup EXCEPT ![d] = NoUp] /\ Abandon(d, "up") /\ mrow' = mrow
    BY <1>4 DEF PushFail
  <2>2. mup'[d] = NoUp /\ \A e \in Phones : e # d => mup'[e] = mup[e]
    BY <1>1, <2>1 DEF TypeInv, MobileTypeOK
  <2>3. late' = late /\ cloud' = cloud
    BY <1>1, <2>1, NothingIsLate DEF Abandon
  <2>4. \A e \in Devices, o \in Roles : e # d => call'[e][o] = call[e][o]
    BY <1>1, <2>1, AbandonEffect, UpDown
  <2> QED
    BY <1>1, <2>1, <2>2, <2>3, <2>4, EndTells DEF Alone
<1>5. ASSUME NEW request, Send(d, "down", request), mup' = mup
      PROVE  Recognised'
  <2>1. late' = late
    BY <1>5 DEF Send
  <2>2. cloud' = cloud /\ \A e \in Phones : call'[e]["up"] = call[e]["up"]
    BY <1>1, <1>5, SendEffect, UpDown, PhonesAreDevices
  <2> QED
    BY <1>1, <1>5, <2>1, <2>2, AsideTells
<1>6. CASE PullBegin(d) \/ PullApply(d) \/ PullRollback(d)
  BY <1>5, <1>6 DEF PullBegin, PullApply, PullRollback, Finish
<1>7. CASE PullFail(d)
  <2>1. Abandon(d, "down") /\ mup' = mup
    BY <1>7 DEF PullFail
  <2>2. late' = late /\ cloud' = cloud
    BY <1>1, <2>1, NothingIsLate DEF Abandon
  <2>3. \A e \in Phones : call'[e]["up"] = call[e]["up"]
    BY <1>1, <2>1, AbandonEffect, UpDown, PhonesAreDevices
  <2> QED
    BY <1>1, <2>1, <2>2, <2>3, AsideTells
<1> QED
  BY <1>1, <1>2, <1>3, <1>4, <1>6, <1>7, PushBeginTells, PreflightTells,
     PhaseDoneTells
  DEF PhoneNext

LEMMA TellStep ==
    ASSUME TellInv, [Next]_vars
    PROVE  TellInv'
<1>1. WriteInv'
  BY WriteStep DEF TellInv
<1>2. ASSUME MaxLate = 0
      PROVE  Recognised'
  <2>1. WriteInv /\ TypeInv /\ Recognised
    BY <1>2 DEF TellInv, WriteInv
  <2>2. CASE CloudNext /\ UNCHANGED mobileVars
    BY <2>1, <2>2, CloudTells
  <2>3. ASSUME NEW d \in Phones, PhoneNext(d)
        PROVE  Recognised'
    BY <1>2, <2>1, <2>3, PhoneTells
  <2>4. CASE UNCHANGED vars
    <3>1. UNCHANGED <<cloud, late, call, mup>>
      BY <2>4 DEF vars, mobileVars, cloudVars, serverVars
    <3> QED
      BY <2>1, <3>1, AsideTells
  <2> QED
    BY <2>2, <2>3, <2>4 DEF Next
<1> QED
  BY <1>1, <1>2 DEF TellInv

(* The condition LostAnswerRecognised puts on a step. *)
Recognises ==
    MaxLate = 0 =>
      \A d \in Phones : \A p \in mup[d].pend :
         (/\ mup[d].pc = "ack" /\ mup'[d].pc = "idle" /\ fails' = fails
          /\ p.id \in Categories
          /\ mrow[d][p.id].ver = p.ver
          /\ cloud[p.id].dev = d /\ cloud[p.id].val = p.val)
         => mrow'[d][p.id].st = "synced"

(* A run that was about to acknowledge ends by acknowledging or failing. *)
LEMMA EndsByAck ==
    ASSUME TypeInv, [Next]_vars, NEW d \in Phones,
           mup[d].pc = "ack", mup'[d].pc = "idle", fails' = fails
    PROVE  Acknowledge(d)
<1>1. CASE mup' = mup
  BY <1>1
<1>2. ASSUME NEW e \in Phones, NEW run, mup' = [mup EXCEPT ![e] = run], e # d
      PROVE  FALSE
  BY <1>2 DEF TypeInv, MobileTypeOK
<1>3. ASSUME NEW e \in Phones, PushFail(e)
      PROVE  FALSE
  <2>1. fails \in Nat /\ fails' = fails + 1
    BY <1>3, CloudAssumption DEF PushFail, Abandon, TypeInv, MobileTypeOK, CloudTypeOK
  <2> QED
    BY <2>1
<1>4. ASSUME NEW e \in Phones, Acknowledge(e)
      PROVE  e = d
  BY <1>2, <1>4 DEF Acknowledge
<1>5. ASSUME NEW e \in Phones, PushBegin(e)
      PROVE  FALSE
  BY <1>2, <1>5 DEF PushBegin
<1>6. ASSUME NEW e \in Phones, Preflight(e) \/ PhaseDone(e)
      PROVE  FALSE
  <2>1. mup[e].pc # "ack"
    BY <1>6 DEF Preflight, PhaseDone
  <2>2. \E run : mup' = [mup EXCEPT ![e] = run]
    BY <1>6 DEF Preflight, PhaseDone, NextPhase
  <2> QED
    BY <1>2, <2>1, <2>2
<1>7. ASSUME NEW e \in Phones,
             \/ \E r \in Records : Edit(e, r)
             \/ PullBegin(e) \/ PullApply(e) \/ PullRollback(e) \/ PullFail(e)
      PROVE  mup' = mup
  BY <1>7 DEF Edit, PullBegin, PullApply, PullRollback, PullFail
<1> QED
  BY <1>1, <1>3, <1>4, <1>5, <1>6, <1>7 DEF Next, PhoneNext, vars, mobileVars

LEMMA RecogniseStep ==
    ASSUME TellInv, [Next]_vars
    PROVE  Recognises
<1> SUFFICES ASSUME MaxLate = 0, NEW d \in Phones, NEW p \in mup[d].pend,
                    mup[d].pc = "ack", mup'[d].pc = "idle", fails' = fails,
                    p.id \in Categories, mrow[d][p.id].ver = p.ver, Mine(d, p)
             PROVE  mrow'[d][p.id].st = "synced"
  BY DEF Recognises, Mine
<1> DEFINE r == p.id
           row == mrow[d][r]
           a == CHOOSE a \in mup[d].acked : a.id = r
<1>1. TypeInv /\ History /\ Follows /\ Recognised
  BY DEF TellInv, WriteInv
<1>2. Acknowledge(d)
  BY <1>1, EndsByAck
<1>3. row \in Rows /\ r \in Records
  BY <1>1 DEF TypeInv, MobileTypeOK, Ups, Changes
<1>4. mrow'[d][r] = Acked(d, r)
  BY <1>1, <1>2, <1>3 DEF Acknowledge, Acked, TypeInv, MobileTypeOK
<1>5. /\ \E b \in mup[d].acked : b.id = r
      /\ \A b \in mup[d].acked : b.id = r => p.rev <= b.rev
  BY <1>1 DEF Recognised, Tell, Told
<1>6. a \in mup[d].acked /\ a.id = r /\ p.rev <= a.rev
  BY <1>5
<1>7. a.ver = p.ver
  BY <1>1, <1>6 DEF History, PhoneHistory, AckedKept, Snapshot
<1>8. p.rev = row.rev
  BY <1>1 DEF Follows, PhoneFollows, RunFollows, ReadFollows
<1>9. Acked(d, r) = AckRow(d, row, a)
  BY <1>5 DEF Acked
<1> HIDE DEF a
<1>10. row.ver >= a.ver /\ row.rev <= a.rev /\ row.ver = a.ver
  BY <1>3, <1>6, <1>7, <1>8 DEF Rows
<1>11. AckRow(d, row, a).st = "synced"
  BY <1>3, <1>10 DEF AckRow, Rows
<1> QED
  BY <1>4, <1>9, <1>11

(* A push that completes leaves no category pending that the cloud already *)
(* holds from this phone, for every number of phones, records and failures *)
(* when what was given up is not executed later: the preflight sees the    *)
(* upload whose answer was lost, the handler takes it again, and the ACK's *)
(* guards let the answer through.                                          *)
THEOREM RetriesAreRecognised == Spec => LostAnswerRecognised
<1>1. TellInv /\ [Next]_vars => TellInv' /\ [Recognises]_vars
  BY TellStep, RecogniseStep
<1>2. Spec => [][Recognises]_vars
  BY <1>1, TellInvInit, PTL DEF Spec
<1> QED
  BY <1>2 DEF LostAnswerRecognised, Recognises
=============================================================================
