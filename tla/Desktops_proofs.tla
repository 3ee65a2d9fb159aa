--------------------------- MODULE Desktops_proofs ---------------------------
(***************************************************************************)
(* Proofs about the scenes of MCDesktops.                                  *)
(*                                                                         *)
(* DesktopSync keeps its types (a revision cut to the second still is one) *)
(* and implements CloudSpec, an overwritten change is on record, and on a  *)
(* desktop whose user does not edit during a run what is shown as synced   *)
(* was uploaded and the cursor follows the rows.  A desktop alone with the *)
(* cloud catches up when it records another contract.                      *)
(*                                                                         *)
(* PlayReconciliation never makes an account premium without a purchase of *)
(* its own that Google has as acknowledged, and keeps what it knows.       *)
(*                                                                         *)
(* GoogleSignIn sends a verifier once, leaves none behind, and disposes no *)
(* client in use.                                                          *)
(***************************************************************************)
EXTENDS MCDesktops, CloudStore_proofs, SequenceTheorems

-----------------------------------------------------------------------------
(* DesktopSync *)

(* The strings the cloud writes, and what the sidecar makes of them. *)
Exacts == {Exact(t) : t \in 0..MaxClock}
Seconds == {ToSeconds(t) : t \in 0..MaxClock}

LEMMA SecondBounds ==
    ASSUME NEW t \in Nat
    PROVE  /\ SecondOf(t) \in Nat
           /\ TicksPerSecond * SecondOf(t) <= t
           /\ t < TicksPerSecond * (SecondOf(t) + 1)
  BY TicksAssumption DEF SecondOf

LEMMA Halves ==
    ASSUME NEW n \in Nat
    PROVE  /\ (2 * n) % 2 = 0 /\ (2 * n) \div 2 = n
           /\ n >= 1 => (2 * n - 1) % 2 = 1
  OBVIOUS

LEMMA Products ==
    ASSUME NEW a \in Nat, NEW b \in Nat, NEW c \in Nat, b <= c
    PROVE  a * b \in Nat /\ a * b <= a * c
  OBVIOUS

(* A string of the cloud is even, and denotes the instant it was made of;  *)
(* one of the sidecar is odd, and denotes the beginning of its second.     *)
LEMMA ParseExact ==
    ASSUME NEW t \in Nat
    PROVE  Parse(Exact(t)) = t /\ Truncate(Exact(t)) = ToSeconds(t)
<1>1. Parse(Exact(t)) = t
  BY Halves DEF Parse, Exact
<1> QED
  BY <1>1 DEF Truncate

LEMMA ParseSecond ==
    ASSUME NEW t \in Nat
    PROVE  /\ ToSeconds(t) \in Nat /\ ToSeconds(t) % 2 = 1
           /\ Parse(ToSeconds(t)) = TicksPerSecond * SecondOf(t)
<1> DEFINE n == TicksPerSecond * (SecondOf(t) + 1)
<1>1. n \in Nat /\ n >= 1 /\ n = TicksPerSecond * SecondOf(t) + TicksPerSecond
  BY SecondBounds, TicksAssumption
<1>2. ToSeconds(t) = 2 * n - 1
  BY SecondBounds, TicksAssumption DEF ToSeconds
<1> HIDE DEF n
<1>3. (2 * n - 1) % 2 = 1 /\ 2 * n - 1 + 1 = 2 * n /\ (2 * n) \div 2 = n
  BY <1>1, Halves
<1>4. TicksPerSecond \in Nat /\ TicksPerSecond * SecondOf(t) \in Nat
  BY SecondBounds, TicksAssumption
<1>5. Parse(2 * n - 1) = n - TicksPerSecond
  BY <1>3 DEF Parse
<1> QED
  BY <1>1, <1>2, <1>3, <1>4, <1>5

(* Cutting to the second keeps the order, as far as instants tell. *)
LEMMA SecondsFollow ==
    ASSUME NEW t \in Nat, NEW u \in Nat, t <= TicksPerSecond * SecondOf(u)
    PROVE  ToSeconds(t) <= ToSeconds(u)
<1> DEFINE s == SecondOf(t)
           v == SecondOf(u)
<1>1. s \in Nat /\ v \in Nat /\ TicksPerSecond \in Nat \ {0}
  BY SecondBounds, TicksAssumption
<1>2. TicksPerSecond * s <= TicksPerSecond * v
  BY SecondBounds, TicksAssumption
<1> HIDE DEF s, v
<1>3. s <= v
  <2> SUFFICES ASSUME v + 1 <= s PROVE FALSE
    BY <1>1
  <2>1. TicksPerSecond * (v + 1) <= TicksPerSecond * s
    BY <1>1, Products
  <2> QED
    BY <1>1, <1>2, <2>1
<1>4. TicksPerSecond * (s + 1) <= TicksPerSecond * (v + 1)
  BY <1>1, <1>3, Products
<1>5. /\ ToSeconds(t) = 2 * (TicksPerSecond * (s + 1)) - 1
      /\ ToSeconds(u) = 2 * (TicksPerSecond * (v + 1)) - 1
  BY <1>1 DEF ToSeconds, s, v
<1>6. TicksPerSecond * (s + 1) \in Nat /\ TicksPerSecond * (v + 1) \in Nat
  BY <1>1
<1> QED
  BY <1>4, <1>5, <1>6

LEMMA SecondIsRevision ==
    ASSUME NEW t \in 0..MaxClock
    PROVE  ToSeconds(t) \in Revisions
<1>1. t \in Nat /\ t <= MaxClock /\ MaxClock \in Nat /\ TicksPerSecond \in Nat \ {0}
  BY CloudAssumption, TicksAssumption
<1>2. SecondOf(t) \in Nat /\ SecondOf(t) <= t
  <2>1. SecondOf(t) \in Nat /\ TicksPerSecond * SecondOf(t) <= t
    BY <1>1, SecondBounds
  <2>2. \A a, b \in Nat : a >= 1 => b <= a * b
    OBVIOUS
  <2>3. SecondOf(t) <= TicksPerSecond * SecondOf(t)
    BY <1>1, <2>1, <2>2
  <2> QED
    BY <1>1, <2>1, <2>3
<1>3. TicksPerSecond * (SecondOf(t) + 1) <= TicksPerSecond * (MaxClock + 2)
  BY <1>1, <1>2, Products
<1>4. /\ TicksPerSecond * (SecondOf(t) + 1) \in Nat
      /\ TicksPerSecond * (MaxClock + 2) \in Nat
      /\ ToSeconds(t) = 2 * (TicksPerSecond * (SecondOf(t) + 1)) - 1
      /\ 2 * TicksPerSecond * (MaxClock + 2) = 2 * (TicksPerSecond * (MaxClock + 2))
  BY <1>1, <1>2 DEF ToSeconds
<1>5. ToSeconds(t) \in Nat
  BY <1>1, ParseSecond
<1> QED
  BY <1>3, <1>4, <1>5 DEF Revisions

(* All that the proofs below use of the strings. *)
LEMMA StringsAre ==
    /\ Exacts \subseteq Revisions /\ Seconds \subseteq Revisions
    /\ NoRevision \in Exacts /\ Parse(NoRevision) = 0
    /\ Revisions \subseteq Nat
    /\ \A e \in Exacts :
          /\ Parse(e) \in Nat /\ e = 2 * Parse(e)
          /\ Truncate(e) \in Seconds /\ Parse(Truncate(e)) <= Parse(e)
    /\ \A s \in Seconds :
          /\ Parse(s) \in Nat /\ s # NoRevision /\ s \notin Exacts
          /\ \A e \in Exacts : Parse(e) <= Parse(s) => Truncate(e) <= s
<1>1. 0..MaxClock \subseteq Nat /\ 0 \in 0..MaxClock
  BY CloudAssumption
<1>2. Exacts \subseteq Revisions /\ Seconds \subseteq Revisions
  BY ExactIsRevision, SecondIsRevision DEF Exacts, Seconds
<1>3. NoRevision = Exact(0) /\ NoRevision \in Exacts
  BY <1>1 DEF NoRevision, Exact, Exacts
<1>4. Parse(NoRevision) = 0
  BY <1>3, ParseExact
<1>5. Revisions \subseteq Nat
  BY CloudAssumption, TicksAssumption DEF Revisions
<1>6. ASSUME NEW t \in 0..MaxClock
      PROVE  /\ Parse(Exact(t)) = t /\ Exact(t) = 2 * t /\ Exact(t) % 2 = 0
             /\ Truncate(Exact(t)) = ToSeconds(t)
             /\ Parse(ToSeconds(t)) = TicksPerSecond * SecondOf(t)
             /\ Parse(ToSeconds(t)) \in Nat /\ Parse(ToSeconds(t)) <= t
             /\ ToSeconds(t) % 2 = 1
  <2>1. t \in Nat
    BY <1>1
  <2>2. Exact(t) = 2 * t /\ Exact(t) % 2 = 0
    BY <2>1, Halves DEF Exact
  <2>3. TicksPerSecond * SecondOf(t) \in Nat /\ TicksPerSecond * SecondOf(t) <= t
    BY <2>1, SecondBounds, TicksAssumption
  <2> QED
    BY <2>1, <2>2, <2>3, ParseExact, ParseSecond
<1>7. ASSUME NEW e \in Exacts
      PROVE  /\ Parse(e) \in Nat /\ e = 2 * Parse(e)
             /\ Truncate(e) \in Seconds /\ Parse(Truncate(e)) <= Parse(e)
  <2>1. PICK t \in 0..MaxClock : e = Exact(t)
    BY DEF Exacts
  <2> QED
    BY <1>1, <1>6, <2>1 DEF Seconds
<1>8. ASSUME NEW s \in Seconds
      PROVE  /\ Parse(s) \in Nat /\ s # NoRevision /\ s \notin Exacts
             /\ \A e \in Exacts : Parse(e) <= Parse(s) => Truncate(e) <= s
  <2>1. PICK u \in 0..MaxClock : s = ToSeconds(u)
    BY DEF Seconds
  <2>2. Parse(s) \in Nat /\ s % 2 = 1
    BY <1>6, <2>1
  <2>3. \A e \in Exacts : e % 2 = 0
    BY <1>6 DEF Exacts
  <2>4. s \notin Exacts /\ s # NoRevision
    BY <1>3, <2>2, <2>3
  <2>5. ASSUME NEW e \in Exacts, Parse(e) <= Parse(s)
        PROVE  Truncate(e) <= s
    <3>1. PICK t \in 0..MaxClock : e = Exact(t)
      BY DEF Exacts
    <3> QED
      BY <1>1, <1>6, <2>1, <2>5, <3>1, SecondsFollow
  <2> QED
    BY <2>2, <2>4, <2>5
<1> QED
  BY <1>2, <1>3, <1>4, <1>5, <1>7, <1>8

-----------------------------------------------------------------------------
(* The station of a run says what its calls are.                           *)
Phase(d) ==
    /\ drun[d].pc = "push" => call[d]["up"].kind = "push"
    /\ drun[d].pc # "push" => call[d]["up"] = NoCall
    /\ drun[d].pc = "pull" => call[d]["down"].kind = "pull"
    /\ drun[d].pc # "pull" => call[d]["down"] = NoCall
    /\ drun[d].pc = "idle" => drun[d] = NoRun

(* Revisions of the cloud, and of what came from it, are exact; those of   *)
(* the desktop's rows are cut to the second.                               *)
CloudExact == \A r \in Records : cloud[r].rev \in Exacts
ExactRows(rows) == \A q \in rows : q.rev \in Exacts \ {NoRevision}

Instants(d) ==
    /\ \A r \in Records : drow[d][r].rev \in Seconds \cup {NoRevision}
    /\ drun[d].cursor \in Exacts
    /\ ExactRows(drun[d].rows)
    /\ call[d]["down"].st = "done" => ExactRows(call[d]["down"].rows)

TypeInv ==
    DesktopTypeOK /\ CloudExact /\ \A d \in Desktops : Phase(d) /\ Instants(d)

DeskTypeOK ==
    /\ drow \in [Desktops -> [Records -> Rows]]
    /\ dcursor \in [Desktops -> Revisions]
    /\ drun \in [Desktops -> Runs]
    /\ dcontract \in [Desktops -> 0..MaxContract]
    /\ contract \in 1..MaxContract
    /\ dconflict \in [Desktops -> [Records -> SUBSET Contents]]
    /\ drejected \in [Desktops -> SUBSET Records]
    /\ dexact \in [Desktops -> Revisions]
    /\ dquiet \in [Desktops -> BOOLEAN]

LEMMA TypeParts == DesktopTypeOK <=> CloudTypeOK /\ DeskTypeOK
  BY DEF DesktopTypeOK, DeskTypeOK

(* A step of desktop d that the rest of the system does not see. *)
Only(d) ==
    /\ cloud' = cloud /\ stored' = stored
    /\ \A e \in Desktops : e # d =>
          /\ drow'[e] = drow[e] /\ drun'[e] = drun[e]
          /\ dconflict'[e] = dconflict[e] /\ drejected'[e] = drejected[e]
          /\ dexact'[e] = dexact[e] /\ dquiet'[e] = dquiet[e]
          /\ call'[e]["up"] = call[e]["up"]
          /\ call'[e]["down"] = call[e]["down"]

(* What a step shows the cloud, and what it keeps. *)
Step ==
    /\ [CloudStep]_cloudVars /\ DeskTypeOK' /\ CloudExact'
    /\ \A d \in Desktops : Phase(d)' /\ Instants(d)'

LEMMA OnlyStep ==
    ASSUME TypeInv, NEW d \in Desktops, Only(d), [CloudStep]_cloudVars,
           DeskTypeOK', Phase(d)', Instants(d)'
    PROVE  Step
<1>1. CloudExact'
  BY DEF Only, CloudExact, TypeInv
<1>2. ASSUME NEW e \in Desktops, e # d
      PROVE  Phase(e)' /\ Instants(e)'
  BY <1>2 DEF Only, TypeInv, Phase, Instants
<1> QED
  BY <1>1, <1>2 DEF Step

LEMMA DesktopsAreDevices == \A d \in Desktops : d \in Devices
  BY DesktopsAssumption

LEMMA NoRunIsRun ==
    /\ NoRun \in Runs /\ NoRun.pc = "idle" /\ NoRun.cursor \in Exacts
    /\ NoRun.rows = {} /\ NoRun.accepted = {}
<1>1. MaxContract \in Nat /\ 0 \in 0..MaxContract
  BY DesktopsAssumption
<1> QED
  BY <1>1, StringsAre DEF NoRun, Runs

LEMMA TypeInvInit == Init => TypeInv
<1> SUFFICES ASSUME Init PROVE TypeInv
  OBVIOUS
<1>1. CloudTypeOK
  BY CloudInitType DEF Init
<1>2. Absent \in Rows
  BY CloudAssumption, ZeroIsRevision DEF Absent, Rows, Contents
<1>3. 0 \in 0..MaxContract /\ 1 \in 1..MaxContract
  BY DesktopsAssumption
<1>4. DeskTypeOK
  <2>1. \A d \in Desktops : drow[d] = [r \in Records |-> Absent]
    BY DEF Init, DesktopInit
  <2> QED
    BY <1>2, <1>3, NoRunIsRun, ZeroIsRevision DEF Init, DesktopInit, DeskTypeOK
<1>5. CloudExact
  BY StringsAre DEF Init, CloudInit, CloudExact, NoRow
<1>6. ASSUME NEW d \in Desktops
      PROVE  Phase(d) /\ Instants(d)
  <2>1. /\ call[d]["up"] = NoCall /\ call[d]["down"] = NoCall
        /\ drun[d] = NoRun /\ \A r \in Records : drow[d][r].rev = NoRevision
    BY DesktopsAreDevices, UpDown DEF Init, CloudInit, DesktopInit, Absent
  <2> QED
    BY <2>1, NoRunIsRun DEF Phase, Instants, ExactRows, NoCall
<1> QED
  BY <1>1, <1>4, <1>5, <1>6, TypeParts DEF TypeInv

-----------------------------------------------------------------------------
(* Editing, and the steps of a run that leave the cloud and the calls as   *)
(* they are.                                                               *)
LEMMA EditStep ==
    ASSUME TypeInv, NEW d \in Desktops, NEW r \in Records, Edit(d, r)
    PROVE  Step /\ Only(d)
<1> DEFINE old == drow[d][r]
           new == [old EXCEPT !.val = old.val \cup {NewEdit}, !.st = "pending"]
<1>1. CloudTypeOK /\ DeskTypeOK
  BY TypeParts DEF TypeInv
<1>2. /\ MakeEdit(d, r) /\ d \in Devices /\ UNCHANGED serverVars
      /\ drow' = [drow EXCEPT ![d][r] = new]
      /\ drejected' = [drejected EXCEPT ![d] = drejected[d] \ {r}]
      /\ dquiet' = [dquiet EXCEPT ![d] = dquiet[d] /\ At(d, "idle")]
      /\ UNCHANGED <<dcursor, drun, dcontract, contract, dconflict, dexact>>
  BY <1>1, DesktopsAreDevices DEF Edit, MakeEdit, DeskTypeOK
<1>3. old \in Rows /\ new \in Rows /\ new.rev = old.rev
  <2>1. Len(edits) \in Nat /\ Len(edits) < MaxEdits /\ MaxEdits \in Nat
    BY <1>1, <1>2, CloudAssumption DEF MakeEdit, CloudTypeOK
  <2>2. NewEdit \in Edits
    BY <2>1 DEF NewEdit, Edits
  <2>3. old \in Rows
    BY <1>1 DEF DeskTypeOK
  <2> QED
    BY <2>2, <2>3 DEF Rows, Contents
<1> HIDE DEF new
<1>4. DeskTypeOK'
  <2>1. drow' \in [Desktops -> [Records -> Rows]]
    BY <1>1, <1>2, <1>3 DEF DeskTypeOK
  <2>2. drejected' \in [Desktops -> SUBSET Records]
    BY <1>1, <1>2 DEF DeskTypeOK
  <2>3. dquiet' \in [Desktops -> BOOLEAN]
    BY <1>1, <1>2 DEF DeskTypeOK, At
  <2> QED
    BY <1>1, <1>2, <2>1, <2>2, <2>3 DEF DeskTypeOK
<1>5. Only(d)
  BY <1>1, <1>2 DEF Only, DeskTypeOK, serverVars
<1>6. Phase(d)' /\ Instants(d)'
  <2>1. drun' = drun /\ call' = call
    BY <1>2 DEF serverVars
  <2>2. \A s \in Records : drow'[d][s].rev = drow[d][s].rev
    BY <1>1, <1>2, <1>3 DEF DeskTypeOK
  <2> QED
    BY <2>1, <2>2 DEF TypeInv, Phase, Instants
<1>7. [CloudStep]_cloudVars
  BY <1>2 DEF CloudStep
<1> QED
  BY <1>4, <1>5, <1>6, <1>7, OnlyStep

(* The next station of a run whose calls are done. *)
LEMMA MovesOn ==
    ASSUME TypeInv, NEW d \in Desktops, UNCHANGED cloudVars,
           drun[d].pc \notin {"idle", "push", "pull"},
           drun' = [drun EXCEPT ![d].pc = "cursor"]
           \/ drun' = [drun EXCEPT ![d].pc = "mark"]
           \/ drun' = [drun EXCEPT ![d].pc = "save"]
           \/ drun' = [drun EXCEPT ![d].pc = "contract"]
           \/ drun' = [drun EXCEPT ![d] = NoRun]
    PROVE  /\ drun' \in [Desktops -> Runs]
           /\ \A e \in Desktops : e # d => drun'[e] = drun[e]
           /\ Phase(d)'
           /\ drun'[d].cursor \in Exacts /\ ExactRows(drun'[d].rows)
           /\ call' = call /\ [CloudStep]_cloudVars
<1>1. DeskTypeOK /\ drun[d] \in Runs
  BY TypeParts DEF TypeInv, DeskTypeOK
<1>2. call' = call /\ call[d]["up"] = NoCall /\ call[d]["down"] = NoCall
  BY DEF TypeInv, Phase, cloudVars, serverVars
<1>3. ASSUME NEW pc \in {"cursor", "mark", "save", "contract"},
             drun' = [drun EXCEPT ![d].pc = pc]
      PROVE  /\ drun'[d] \in Runs /\ drun'[d].pc = pc
             /\ drun'[d].cursor = drun[d].cursor /\ drun'[d].rows = drun[d].rows
             /\ drun' \in [Desktops -> Runs]
             /\ \A e \in Desktops : e # d => drun'[e] = drun[e]
  BY <1>1, <1>3 DEF DeskTypeOK, Runs
<1>4. CASE drun' = [drun EXCEPT ![d] = NoRun]
  BY <1>1, <1>2, <1>4, NoRunIsRun DEF DeskTypeOK, Phase, ExactRows
<1>5. CASE \E pc \in {"cursor", "mark", "save", "contract"} :
              drun' = [drun EXCEPT ![d].pc = pc]
  <2>1. PICK pc \in {"cursor", "mark", "save", "contract"} :
           drun' = [drun EXCEPT ![d].pc = pc]
    BY <1>5
  <2> QED
    BY <1>2, <1>3, <2>1 DEF Phase, TypeInv, Instants
<1> QED
  BY <1>4, <1>5

LEMMA QuietStep ==
    ASSUME TypeInv, NEW d \in Desktops, UNCHANGED cloudVars,
           NEW rows \in [Records -> Rows],
           drow' = [drow EXCEPT ![d] = rows],
           \A r \in Records : rows[r].rev \in Seconds \cup {NoRevision},
           UNCHANGED <<contract, dquiet>>,
           dconflict' \in [Desktops -> [Records -> SUBSET Contents]],
           drejected' \in [Desktops -> SUBSET Records],
           dcursor' \in [Desktops -> Revisions],
           dexact' \in [Desktops -> Revisions],
           dcontract' \in [Desktops -> 0..MaxContract],
           \A e \in Desktops : e # d =>
              /\ dconflict'[e] = dconflict[e] /\ drejected'[e] = drejected[e]
              /\ dexact'[e] = dexact[e] /\ drun'[e] = drun[e],
           drun' \in [Desktops -> Runs], Phase(d)',
           drun'[d].cursor \in Exacts, ExactRows(drun'[d].rows)
    PROVE  Step /\ Only(d) /\ drow'[d] = rows
<1>1. DeskTypeOK
  BY TypeParts DEF TypeInv
<1>2. drow' \in [Desktops -> [Records -> Rows]] /\ drow'[d] = rows
      /\ \A e \in Desktops : e # d => drow'[e] = drow[e]
  BY <1>1 DEF DeskTypeOK
<1>3. DeskTypeOK'
  BY <1>1, <1>2 DEF DeskTypeOK
<1>4. Only(d)
  BY <1>2 DEF Only, cloudVars, serverVars
<1>5. Instants(d)'
  BY <1>2 DEF Instants, TypeInv, cloudVars, serverVars
<1> QED
  BY <1>2, <1>3, <1>4, <1>5, OnlyStep

LEMMA MarkRejectedStep ==
    ASSUME TypeInv, NEW d \in Desktops, MarkRejected(d)
    PROVE  Step /\ Only(d)
<1> DEFINE rows == [r \in Records |->
                IF r \in drun[d].rejected
                THEN [drow[d][r] EXCEPT !.st = "sync_error"] ELSE drow[d][r]]
<1>1. DeskTypeOK /\ drow[d] \in [Records -> Rows] /\ drun[d].rejected \subseteq Records
  BY TypeParts DEF TypeInv, DeskTypeOK, Runs
<1>2. ASSUME NEW r \in Records
      PROVE  rows[r] \in Rows /\ rows[r].rev = drow[d][r].rev
  BY <1>1 DEF Rows
<1>3. rows \in [Records -> Rows]
  BY <1>2
<1>4. \A r \in Records : rows[r].rev \in Seconds \cup {NoRevision}
  BY <1>2 DEF TypeInv, Instants
<1>5. drow' = [drow EXCEPT ![d] = rows]
  BY DEF MarkRejected
<1>6. /\ UNCHANGED <<cloudVars, contract, dquiet, dconflict, dcursor, dexact, dcontract>>
      /\ drejected' = [drejected EXCEPT ![d] = drejected[d] \cup drun[d].rejected]
      /\ drun' = [drun EXCEPT ![d].pc = "cursor"]
      /\ drun[d].pc \notin {"idle", "push", "pull"}
  BY <1>1 DEF MarkRejected, Goto, At, DeskTypeOK
<1> HIDE DEF rows
<1>7. /\ drejected' \in [Desktops -> SUBSET Records]
      /\ \A e \in Desktops : e # d => drejected'[e] = drejected[e]
  BY <1>1, <1>6 DEF DeskTypeOK
<1>8. /\ drun' \in [Desktops -> Runs] /\ Phase(d)'
      /\ \A e \in Desktops : e # d => drun'[e] = drun[e]
      /\ drun'[d].cursor \in Exacts /\ ExactRows(drun'[d].rows)
  BY <1>6, MovesOn
<1> QED
  BY <1>1, <1>3, <1>4, <1>5, <1>6, <1>7, <1>8, QuietStep DEF DeskTypeOK

(* What a row is once the batch was applied. *)
Merged(d, r) ==
    IF \E q \in drun[d].rows : q.id = r
    THEN ApplyRow(CHOOSE q \in drun[d].rows : q.id = r, drow[d][r])
    ELSE drow[d][r]

LEMMA AdoptIs ==
    ASSUME NEW q \in PulledRows, q.rev \in Exacts
    PROVE  /\ Adopt(q) \in Rows /\ Adopt(q).rev = Truncate(q.rev)
           /\ Adopt(q).val = q.val /\ Adopt(q).dev = q.dev
           /\ Adopt(q).st = "synced" /\ Truncate(q.rev) \in Seconds
  BY StringsAre DEF Adopt, Rows, PulledRows

LEMMA MergedIs ==
    ASSUME TypeInv, NEW d \in Desktops, NEW r \in Records
    PROVE  \/ Merged(d, r) = drow[d][r]
           \/ \E q \in drun[d].rows :
                 /\ q.id = r /\ Merged(d, r) = Adopt(q)
                 /\ drow[d][r].st = "absent" \/ Newer(q, drow[d][r])
  BY DEF Merged, ApplyRow

LEMMA ApplyRemoteStep ==
    ASSUME TypeInv, NEW d \in Desktops, ApplyRemote(d)
    PROVE  /\ Step /\ Only(d)
           /\ \A r \in Records : drow'[d][r] = Merged(d, r)
<1> DEFINE rows == [r \in Records |-> Merged(d, r)]
           rowOf(r) == CHOOSE q \in drun[d].rows : q.id = r
           log == [r \in Records |->
              IF \E q \in drun[d].rows : q.id = r
              THEN dconflict[d][r] \cup Logged(d, rowOf(r), drow[d][r])
              ELSE dconflict[d][r]]
<1>1. /\ DeskTypeOK /\ drow[d] \in [Records -> Rows]
      /\ drun[d].rows \in SUBSET PulledRows /\ ExactRows(drun[d].rows)
  BY TypeParts DEF TypeInv, DeskTypeOK, Runs, Instants
<1>2. ASSUME NEW r \in Records
      PROVE  Merged(d, r) \in Rows /\ Merged(d, r).rev \in Seconds \cup {NoRevision}
  BY <1>1, MergedIs, AdoptIs DEF ExactRows, TypeInv, Instants
<1>3. rows \in [Records -> Rows]
      /\ \A r \in Records : rows[r].rev \in Seconds \cup {NoRevision}
  BY <1>2
<1>4. log \in [Records -> SUBSET Contents]
  <2> SUFFICES ASSUME NEW r \in Records
               PROVE  log[r] \in SUBSET Contents
    OBVIOUS
  <2>1. Logged(d, rowOf(r), drow[d][r]) \in SUBSET Contents
    BY <1>1 DEF Logged, Rows
  <2>2. dconflict[d][r] \in SUBSET Contents
    BY <1>1 DEF DeskTypeOK
  <2> QED
    BY <2>1, <2>2
<1>5. drow' = [drow EXCEPT ![d] = rows]
  BY DEF ApplyRemote, Merged
<1>6. dconflict' = [dconflict EXCEPT ![d] = log]
  BY <1>1 DEF ApplyRemote, DeskTypeOK
<1>7. /\ UNCHANGED <<cloudVars, contract, dquiet, drejected, dcursor, dexact, dcontract>>
      /\ drun' = [drun EXCEPT ![d].pc = "mark"]
      /\ drun[d].pc \notin {"idle", "push", "pull"}
  BY DEF ApplyRemote, Goto, At
<1>8. /\ drun' \in [Desktops -> Runs] /\ Phase(d)'
      /\ \A e \in Desktops : e # d => drun'[e] = drun[e]
      /\ drun'[d].cursor \in Exacts /\ ExactRows(drun'[d].rows)
  BY <1>7, MovesOn
<1> HIDE DEF log
<1>9. /\ dconflict' \in [Desktops -> [Records -> SUBSET Contents]]
      /\ \A e \in Desktops : e # d => dconflict'[e] = dconflict[e]
  BY <1>1, <1>4, <1>6 DEF DeskTypeOK
<1>10. \A r \in Records : rows[r] = Merged(d, r)
  OBVIOUS
<1> HIDE DEF rows
<1>11. Step /\ Only(d) /\ drow'[d] = rows
  BY <1>1, <1>3, <1>5, <1>7, <1>8, <1>9, QuietStep DEF DeskTypeOK
<1> QED
  BY <1>10, <1>11

LEMMA MarkSyncedStep ==
    ASSUME TypeInv, NEW d \in Desktops, MarkSynced(d)
    PROVE  Step /\ Only(d)
<1> DEFINE rows == [r \in Records |->
                IF r \in drun[d].accepted
                THEN [drow[d][r] EXCEPT !.st = "synced"] ELSE drow[d][r]]
<1>1. DeskTypeOK /\ drow[d] \in [Records -> Rows]
  BY TypeParts DEF TypeInv, DeskTypeOK
<1>2. ASSUME NEW r \in Records
      PROVE  rows[r] \in Rows /\ rows[r].rev = drow[d][r].rev
  BY <1>1 DEF Rows
<1>3. rows \in [Records -> Rows]
  BY <1>2
<1>4. \A r \in Records : rows[r].rev \in Seconds \cup {NoRevision}
  BY <1>2 DEF TypeInv, Instants
<1>5. drow' = [drow EXCEPT ![d] = rows]
  BY DEF MarkSynced
<1>6. /\ UNCHANGED <<cloudVars, contract, dquiet, dconflict, dcursor, dexact, dcontract>>
      /\ drejected' = [drejected EXCEPT ![d] = drejected[d] \ drun[d].accepted]
      /\ drun' = [drun EXCEPT ![d].pc = "save"]
      /\ drun[d].pc \notin {"idle", "push", "pull"}
  BY <1>1 DEF MarkSynced, Goto, At, DeskTypeOK
<1> HIDE DEF rows
<1>7. /\ drejected' \in [Desktops -> SUBSET Records]
      /\ \A e \in Desktops : e # d => drejected'[e] = drejected[e]
  BY <1>1, <1>6 DEF DeskTypeOK
<1>8. /\ drun' \in [Desktops -> Runs] /\ Phase(d)'
      /\ \A e \in Desktops : e # d => drun'[e] = drun[e]
      /\ drun'[d].cursor \in Exacts /\ ExactRows(drun'[d].rows)
  BY <1>6, MovesOn
<1> QED
  BY <1>1, <1>3, <1>4, <1>5, <1>6, <1>7, <1>8, QuietStep DEF DeskTypeOK

LEMMA SameRows ==
    ASSUME TypeInv, NEW d \in Desktops, drow' = drow
    PROVE  /\ drow[d] \in [Records -> Rows] /\ drow' = [drow EXCEPT ![d] = drow[d]]
           /\ \A r \in Records : drow[d][r].rev \in Seconds \cup {NoRevision}
<1>1. DeskTypeOK
  BY TypeParts DEF TypeInv
<1> QED
  BY <1>1 DEF DeskTypeOK, TypeInv, Instants

LEMMA SaveCursorStep ==
    ASSUME TypeInv, NEW d \in Desktops, SaveCursor(d)
    PROVE  Step /\ Only(d)
<1>1. DeskTypeOK /\ drun[d] \in Runs /\ drun[d].cursor \in Exacts
  BY TypeParts DEF TypeInv, DeskTypeOK, Instants
<1>2. Truncate(drun[d].cursor) \in Revisions /\ drun[d].cursor \in Revisions
  BY <1>1, StringsAre
<1>3. /\ UNCHANGED <<cloudVars, drow, contract, dquiet, dconflict, drejected, dcontract>>
      /\ dcursor' = [dcursor EXCEPT ![d] = Truncate(drun[d].cursor)]
      /\ dexact' = [dexact EXCEPT ![d] = drun[d].cursor]
      /\ drun' = [drun EXCEPT ![d].pc = "contract"]
      /\ drun[d].pc \notin {"idle", "push", "pull"}
  BY DEF SaveCursor, Goto, At
<1>4. /\ dcursor' \in [Desktops -> Revisions] /\ dexact' \in [Desktops -> Revisions]
      /\ \A e \in Desktops : e # d => dexact'[e] = dexact[e]
  BY <1>1, <1>2, <1>3 DEF DeskTypeOK
<1>5. /\ drun' \in [Desktops -> Runs] /\ Phase(d)'
      /\ \A e \in Desktops : e # d => drun'[e] = drun[e]
      /\ drun'[d].cursor \in Exacts /\ ExactRows(drun'[d].rows)
  BY <1>3, MovesOn
<1> QED
  BY <1>1, <1>3, <1>4, <1>5, SameRows, QuietStep DEF DeskTypeOK

LEMMA SaveContractStep ==
    ASSUME TypeInv, NEW d \in Desktops, SaveContract(d)
    PROVE  Step /\ Only(d)
<1>1. DeskTypeOK /\ drun[d] \in Runs
  BY TypeParts DEF TypeInv, DeskTypeOK
<1>2. /\ UNCHANGED <<cloudVars, drow, contract, dquiet, dconflict, drejected,
                     dcursor, dexact>>
      /\ dcontract' = [dcontract EXCEPT ![d] = drun[d].health]
      /\ drun' = [drun EXCEPT ![d] = NoRun]
      /\ drun[d].pc \notin {"idle", "push", "pull"}
  BY DEF SaveContract, At
<1>3. dcontract' \in [Desktops -> 0..MaxContract]
  BY <1>1, <1>2 DEF DeskTypeOK, Runs
<1>4. /\ drun' \in [Desktops -> Runs] /\ Phase(d)'
      /\ \A e \in Desktops : e # d => drun'[e] = drun[e]
      /\ drun'[d].cursor \in Exacts /\ ExactRows(drun'[d].rows)
  BY <1>2, MovesOn
<1> QED
  BY <1>1, <1>2, <1>3, <1>4, SameRows, QuietStep DEF DeskTypeOK

-----------------------------------------------------------------------------
(* The steps that send a request, or take its answer. *)
Fits(d, o, run, request) ==
    \/ /\ o = "up" /\ drun[d].pc \in {"idle", "push"}
       /\ \/ run.pc = "push" /\ request.kind = "push"
          \/ run.pc \in {"reject", "cursor"} /\ request = NoCall
    \/ /\ o = "down" /\ drun[d].pc \in {"cursor", "pull"}
       /\ \/ run.pc = "pull" /\ request.kind = "pull"
          \/ run.pc \in {"apply", "mark"} /\ request = NoCall

Sends(d, o, run, request) ==
    /\ request = NoCall \/ (request.st = "sent" /\ request.now = 0)
    /\ call[d][o].st \in {"idle", "done"} /\ Send(d, o, request)
    /\ run.cursor \in Exacts /\ ExactRows(run.rows) /\ Fits(d, o, run, request)
    /\ drun' = [drun EXCEPT ![d] = run]
    /\ UNCHANGED <<drow, dcursor, dcontract, contract, dconflict, drejected,
                   dexact, dquiet>>

LEMMA SendStep ==
    ASSUME TypeInv, NEW d \in Desktops, NEW o \in Roles, NEW request \in Calls,
           NEW run \in Runs, Sends(d, o, run, request)
    PROVE  /\ Step /\ Only(d) /\ drun'[d] = run /\ call'[d][o] = request
           /\ \A p \in Roles : p # o => call'[d][p] = call[d][p]
<1>1. CloudTypeOK /\ DeskTypeOK /\ d \in Devices
  BY TypeParts, DesktopsAreDevices DEF TypeInv
<1>2. /\ ClientCall(d, o) /\ call'[d][o] = request /\ edits' = edits
      /\ \A e \in Devices, p \in Roles :
            e # d \/ p # o => call'[e][p] = call[e][p]
  BY <1>1, SendIsClientCall DEF Sends
<1>3. /\ drun'[d] = run /\ drun' \in [Desktops -> Runs]
      /\ \A e \in Desktops : e # d => drun'[e] = drun[e]
  BY <1>1 DEF DeskTypeOK, Sends
<1>4. DeskTypeOK'
  BY <1>1, <1>3 DEF DeskTypeOK, Sends
<1>5. Only(d)
  BY <1>2, <1>3, DesktopsAreDevices, UpDown DEF Only, Send, Sends
<1>6. /\ o = "up" => call'[d]["down"] = call[d]["down"]
      /\ o = "down" => call'[d]["up"] = call[d]["up"]
  BY <1>1, <1>2, UpDown
<1>7. Phase(d)'
  BY <1>2, <1>3, <1>6 DEF Fits, TypeInv, Phase, Sends
<1>8. Instants(d)'
  <2>1. call'[d]["down"].st # "done"
    BY <1>2, <1>6, UpDown DEF NoCall, Fits, TypeInv, Phase, Sends
  <2> QED
    BY <1>3, <2>1 DEF TypeInv, Instants, Sends
<1>9. [CloudStep]_cloudVars
  BY <1>1, <1>2 DEF CloudStep
<1> QED
  BY <1>1, <1>2, <1>3, <1>4, <1>5, <1>7, <1>8, <1>9, OnlyStep

Payload(d) ==
    {[id |-> r, val |-> drow[d][r].val, base |-> drow[d][r].rev] :
        r \in {s \in Records : drow[d][s].st = "pending"}}

LEMMA PushBeginStep ==
    ASSUME TypeInv, NEW d \in Desktops, PushBegin(d)
    PROVE  /\ Step /\ Only(d) /\ drow' = drow
           /\ call'[d]["up"] = PushCall(Payload(d))
           /\ call'[d]["down"] = call[d]["down"]
           /\ drun'[d].pc = "push" /\ drun'[d].rows = {} /\ drun'[d].accepted = {}
<1> DEFINE run == [NoRun EXCEPT !.pc = "push", !.health = contract]
<1>1. CloudTypeOK /\ DeskTypeOK
  BY TypeParts DEF TypeInv
<1>2. /\ run \in Runs /\ run.pc = "push" /\ run.rows = {} /\ run.accepted = {}
      /\ run.cursor \in Exacts
  <2>1. contract \in 0..MaxContract
    BY <1>1, DesktopsAssumption DEF DeskTypeOK
  <2> QED
    BY <2>1, NoRunIsRun DEF NoRun, Runs
<1>3. Payload(d) \in SUBSET Items
  <2>1. \A r \in Records : drow[d][r] \in Rows
    BY <1>1 DEF DeskTypeOK
  <2> QED
    BY <2>1 DEF Payload, Items, Rows
<1>4. PushCall(Payload(d)) \in Calls
  BY <1>3, RequestsAreCalls
<1>5. /\ Send(d, "up", PushCall(Payload(d))) /\ drun' = [drun EXCEPT ![d] = run]
      /\ UNCHANGED <<drow, dcursor, dcontract, contract, dconflict, drejected,
                     dexact, dquiet>>
      /\ drun[d].pc = "idle"
  BY DEF PushBegin, Payload, At
<1>6. call[d]["up"].st \in {"idle", "done"}
  BY <1>5 DEF TypeInv, Phase, NoCall
<1> HIDE DEF run
<1>7. ExactRows(run.rows) /\ Fits(d, "up", run, PushCall(Payload(d)))
  BY <1>2, <1>5, PushCallIs DEF ExactRows, Fits
<1>8. Sends(d, "up", run, PushCall(Payload(d)))
  BY <1>2, <1>5, <1>6, <1>7, PushCallIs DEF Sends
<1>9. /\ Step /\ Only(d) /\ drun'[d] = run
      /\ call'[d]["up"] = PushCall(Payload(d))
      /\ \A p \in Roles : p # "up" => call'[d][p] = call[d][p]
  BY <1>2, <1>4, <1>8, UpDown, SendStep
<1> QED
  BY <1>2, <1>5, <1>9, UpDown

LEMMA PushRepliedStep ==
    ASSUME TypeInv, NEW d \in Desktops, PushReplied(d)
    PROVE  /\ Step /\ Only(d) /\ drow' = drow
           /\ call'[d]["up"] = NoCall /\ call'[d]["down"] = call[d]["down"]
           /\ drun'[d].pc \in {"reject", "cursor"}
           /\ drun'[d].rows = drun[d].rows
           /\ drun'[d].accepted = call[d]["up"].accepted
<1> DEFINE c == call[d]["up"]
           pc == IF c.rejected # {} THEN "reject" ELSE "cursor"
           run == [drun[d] EXCEPT !.pc = pc, !.accepted = c.accepted,
                                  !.rejected = c.rejected]
<1>1. /\ CloudTypeOK /\ DeskTypeOK /\ drun[d] \in Runs /\ d \in Devices
      /\ drun[d].cursor \in Exacts /\ ExactRows(drun[d].rows)
  BY TypeParts, DesktopsAreDevices DEF TypeInv, DeskTypeOK, Instants
<1>2. c \in Calls
  BY <1>1, UpDown DEF CloudTypeOK
<1>3. pc \in {"reject", "cursor"}
  OBVIOUS
<1>4. /\ Send(d, "up", NoCall) /\ drun' = [drun EXCEPT ![d] = run]
      /\ UNCHANGED <<drow, dcursor, dcontract, contract, dconflict, drejected,
                     dexact, dquiet>>
      /\ drun[d].pc = "push" /\ c.st = "done"
  BY <1>1 DEF PushReplied, Finish, At, Replied, DeskTypeOK
<1> HIDE DEF c, pc
<1>5. /\ run \in Runs /\ run.pc = pc /\ run.rows = drun[d].rows
      /\ run.accepted = c.accepted /\ run.cursor = drun[d].cursor
  BY <1>1, <1>2, <1>3 DEF Runs, Calls
<1> HIDE DEF run
<1>6. Fits(d, "up", run, NoCall)
  BY <1>3, <1>4, <1>5 DEF Fits
<1>7. call[d]["up"].st \in {"idle", "done"}
  BY <1>4 DEF c
<1>8. Sends(d, "up", run, NoCall)
  BY <1>1, <1>4, <1>5, <1>6, <1>7 DEF Sends
<1>9. /\ Step /\ Only(d) /\ drun'[d] = run /\ call'[d]["up"] = NoCall
      /\ \A p \in Roles : p # "up" => call'[d][p] = call[d][p]
  BY <1>5, <1>8, NoCallIsCall, UpDown, SendStep
<1> QED
  BY <1>3, <1>4, <1>5, <1>9, UpDown DEF c

LEMMA PullBeginStep ==
    ASSUME TypeInv, NEW d \in Desktops, PullBegin(d)
    PROVE  /\ Step /\ Only(d) /\ drow' = drow
           /\ call'[d]["down"].st = "sent" /\ call'[d]["up"] = call[d]["up"]
           /\ drun'[d].pc = "pull" /\ drun'[d].rows = drun[d].rows
           /\ drun'[d].accepted = drun[d].accepted
<1> DEFINE since == IF drun[d].health # dcontract[d] THEN NoRevision ELSE dcursor[d]
           run == [drun[d] EXCEPT !.pc = "pull"]
<1>1. /\ DeskTypeOK /\ drun[d] \in Runs /\ dcursor[d] \in Revisions
      /\ drun[d].cursor \in Exacts /\ ExactRows(drun[d].rows)
  BY TypeParts DEF TypeInv, DeskTypeOK, Instants
<1>2. since \in Revisions
  BY <1>1, ZeroIsRevision
<1>3. /\ Send(d, "down", PullCall(since)) /\ drun' = [drun EXCEPT ![d] = run]
      /\ UNCHANGED <<drow, dcursor, dcontract, contract, dconflict, drejected,
                     dexact, dquiet>>
      /\ drun[d].pc = "cursor"
  BY <1>1 DEF PullBegin, Goto, At, DeskTypeOK
<1> HIDE DEF since
<1>4. /\ run \in Runs /\ run.pc = "pull" /\ run.rows = drun[d].rows
      /\ run.accepted = drun[d].accepted /\ run.cursor = drun[d].cursor
  BY <1>1 DEF Runs
<1> HIDE DEF run
<1>5. PullCall(since) \in Calls
  BY <1>2, RequestsAreCalls
<1>6. call[d]["down"].st \in {"idle", "done"}
  BY <1>3 DEF TypeInv, Phase, NoCall
<1>7. Fits(d, "down", run, PullCall(since))
  BY <1>3, <1>4, PullCallIs DEF Fits
<1>8. Sends(d, "down", run, PullCall(since))
  BY <1>1, <1>3, <1>4, <1>6, <1>7, PullCallIs DEF Sends
<1>9. /\ Step /\ Only(d) /\ drun'[d] = run
      /\ call'[d]["down"] = PullCall(since)
      /\ \A p \in Roles : p # "down" => call'[d][p] = call[d][p]
  BY <1>4, <1>5, <1>8, UpDown, SendStep
<1> QED
  BY <1>3, <1>4, <1>9, PullCallIs, UpDown

LEMMA PullRepliedStep ==
    ASSUME TypeInv, NEW d \in Desktops, PullReplied(d)
    PROVE  /\ Step /\ Only(d) /\ drow' = drow
           /\ call'[d]["down"] = NoCall /\ call'[d]["up"] = call[d]["up"]
           /\ drun'[d].pc \in {"apply", "mark"}
           /\ drun'[d].pc = "mark" => drun'[d].rows = {}
           /\ drun'[d].rows = call[d]["down"].rows
           /\ drun'[d].accepted = drun[d].accepted
           /\ call[d]["down"].st = "done"
<1> DEFINE c == call[d]["down"]
           pc == IF c.rows # {} THEN "apply" ELSE "mark"
           run == [drun[d] EXCEPT !.pc = pc, !.rows = c.rows,
                                  !.cursor = Exact(c.now)]
<1>1. /\ CloudTypeOK /\ DeskTypeOK /\ drun[d] \in Runs /\ d \in Devices
  BY TypeParts, DesktopsAreDevices DEF TypeInv, DeskTypeOK
<1>2. c \in Calls /\ Exact(c.now) \in Exacts
  <2>1. c \in Calls
    BY <1>1, UpDown DEF CloudTypeOK
  <2> QED
    BY <2>1 DEF Calls, Exacts
<1>3. pc \in {"apply", "mark"} /\ (pc = "mark" => c.rows = {})
  OBVIOUS
<1>4. /\ Send(d, "down", NoCall) /\ drun' = [drun EXCEPT ![d] = run]
      /\ UNCHANGED <<drow, dcursor, dcontract, contract, dconflict, drejected,
                     dexact, dquiet>>
      /\ drun[d].pc = "pull" /\ c.st = "done"
  BY <1>1 DEF PullReplied, Finish, At, Replied, DeskTypeOK
<1>5. ExactRows(c.rows)
  BY <1>4 DEF TypeInv, Instants
<1> HIDE DEF c, pc
<1>6. /\ run \in Runs /\ run.pc = pc /\ run.rows = c.rows
      /\ run.accepted = drun[d].accepted /\ run.cursor = Exact(c.now)
  BY <1>1, <1>2, <1>3, StringsAre DEF Runs, Calls
<1> HIDE DEF run
<1>7. Fits(d, "down", run, NoCall)
  BY <1>3, <1>4, <1>6 DEF Fits
<1>8. call[d]["down"].st \in {"idle", "done"}
  BY <1>4 DEF c
<1>9. Sends(d, "down", run, NoCall)
  BY <1>2, <1>4, <1>5, <1>6, <1>7, <1>8 DEF Sends
<1>10. /\ Step /\ Only(d) /\ drun'[d] = run /\ call'[d]["down"] = NoCall
       /\ \A p \in Roles : p # "down" => call'[d][p] = call[d][p]
  BY <1>6, <1>9, NoCallIsCall, UpDown, SendStep
<1> QED
  BY <1>3, <1>4, <1>6, <1>10, UpDown DEF c

LEMMA RunFailsStep ==
    ASSUME TypeInv, NEW d \in Desktops, RunFails(d)
    PROVE  /\ Step /\ Only(d) /\ drow' = drow /\ drun'[d] = NoRun
           /\ call'[d]["up"] = NoCall /\ call'[d]["down"] = NoCall
<1>1. CloudTypeOK /\ DeskTypeOK /\ d \in Devices
  BY TypeParts, DesktopsAreDevices DEF TypeInv
<1>2. PICK o \in Roles :
         /\ call[d][o] # NoCall \/ (o = "up" /\ call[d]["down"] = NoCall)
         /\ Abandon(d, o)
  BY DEF RunFails
<1>3. /\ call'[d][o] = NoCall /\ edits' = edits
      /\ \A e \in Devices, p \in Roles :
            e # d \/ p # o => call'[e][p] = call[e][p]
  BY <1>1, <1>2, AbandonEffect
<1>4. /\ drun'[d] = NoRun /\ drun' \in [Desktops -> Runs]
      /\ \A e \in Desktops : e # d => drun'[e] = drun[e]
      /\ UNCHANGED <<drow, dcursor, dcontract, contract, dconflict, drejected,
                     dexact, dquiet>>
  BY <1>1, NoRunIsRun DEF RunFails, DeskTypeOK
<1>5. call'[d]["up"] = NoCall /\ call'[d]["down"] = NoCall
  <2>1. call[d]["up"] = NoCall \/ call[d]["down"] = NoCall
    BY DEF TypeInv, Phase
  <2> QED
    BY <1>1, <1>2, <1>3, <2>1, UpDown DEF Roles
<1>6. DeskTypeOK'
  BY <1>1, <1>4 DEF DeskTypeOK
<1>7. Only(d)
  BY <1>2, <1>3, <1>4, DesktopsAreDevices, UpDown DEF Only, Abandon
<1>8. Phase(d)' /\ Instants(d)'
  BY <1>4, <1>5, NoRunIsRun DEF Phase, Instants, ExactRows, NoCall, TypeInv
<1>9. [CloudStep]_cloudVars
  BY <1>1, <1>2 DEF CloudStep
<1> QED
  BY <1>4, <1>5, <1>6, <1>7, <1>8, <1>9, OnlyStep

-----------------------------------------------------------------------------
(* The steps of the cloud. *)

(* A batch as the cloud's rows are when it is fetched. *)
Fetched(rows) ==
    /\ cloud' = cloud
    /\ \A q \in rows :
          /\ q.id \in Records /\ IsRow(cloud[q.id])
          /\ q.val = cloud[q.id].val /\ q.rev = cloud[q.id].rev
          /\ \A p \in rows : p.id = q.id => p = q

(* What a step of the cloud does to one call: an answer is as it was, or   *)
(* speaks of rows just written, or of the rows as they are.                *)
ReplyStep(d, o) ==
    LET c == call[d][o]
        n == call'[d][o]
    IN  /\ n.kind = c.kind /\ n.items = c.items
        /\ n.kind = "push" /\ n.st = "done" =>
              \/ n = c
              \/ \A r \in n.accepted :
                    /\ cloud[r].rev < cloud'[r].rev
                    /\ \E i \in c.items : i.id = r /\ i.val \in stored'[r]
        /\ n.kind = "pull" /\ n.st = "done" => n = c \/ Fetched(n.rows)

Fresh == \A r \in Records : cloud'[r] = cloud[r] \/ cloud'[r].rev \in Exacts

CloudReplies ==
    /\ Fresh /\ Grow /\ CloudHistory
    /\ \A d \in Devices, o \in Roles : ReplyStep(d, o)

LEMMA UpsertFresh ==
    ASSUME NEW items, NEW d, NEW now \in 0..MaxClock, Upsert(items, d, now)
    PROVE  Fresh
<1>1. Exact(now) \in Exacts
  BY DEF Exacts
<1> HIDE DEF Exacts
<1> QED
  BY <1>1 DEF Upsert, Fresh

LEMMA ArriveReplies ==
    ASSUME CloudTypeOK, NEW e \in Devices, NEW p \in Roles, Arrive(e, p)
    PROVE  Fresh /\ \A d \in Devices, o \in Roles : ReplyStep(d, o)
<1>1. ASSUME NEW d \in Devices, NEW o \in Roles
      PROVE  ReplyStep(d, o)
  <2>1. CASE d = e /\ o = p
    <3>1. /\ call'[d][o].kind = call[d][o].kind
          /\ call'[d][o].items = call[d][o].items
          /\ call'[d][o].st = "running"
      BY <2>1 DEF Arrive, CloudTypeOK, Calls
    <3> QED
      BY <3>1 DEF ReplyStep
  <2>2. CASE d # e \/ o # p
    <3>1. call'[d][o] = call[d][o]
      BY <2>2 DEF Arrive, CloudTypeOK
    <3> QED
      BY <3>1 DEF ReplyStep
  <2> QED
    BY <2>1, <2>2
<1> QED
  BY <1>1 DEF Fresh, Arrive

LEMMA RunPushReplies ==
    ASSUME PushInv, CloudKept, NEW e \in Devices, NEW p \in Roles, RunPush(e, p)
    PROVE  Fresh /\ \A d \in Devices, o \in Roles : ReplyStep(d, o)
<1> DEFINE c == call[e][p]
           taken == {i.id : i \in Accepted(c.items, e)}
           rejected == {i.id : i \in c.items} \ taken
<1>1. CloudTypeOK /\ c \in Calls /\ c.items \in SUBSET Items /\ c.now \in 0..MaxClock
  BY DEF CloudTypeOK, Calls, PushInv
<1>2. /\ Upsert(c.items, e, c.now) /\ c.kind = "push"
      /\ call' = [call EXCEPT ![e][p] =
            [c EXCEPT !.st = "done", !.accepted = taken, !.rejected = rejected]]
  BY DEF RunPush
<1>3. \A i \in Accepted(c.items, e) : i.val \in stored'[i.id]
  BY <1>1, <1>2, UpsertStores
<1>4. \A r \in Records : cloud[r].rev < Exact(c.now)
  <2>1. Executing(c)
    BY DEF RunPush, Executing
  <2> QED
    BY <2>1 DEF PushInv, ExecutingIsNewest, Newest
<1>5. \A r \in taken : /\ r \in Records /\ cloud[r].rev < cloud'[r].rev
                       /\ \E i \in c.items : i.id = r /\ i.val \in stored'[r]
  <2> SUFFICES ASSUME NEW i \in Accepted(c.items, e)
               PROVE  /\ i.id \in Records /\ cloud[i.id].rev < cloud'[i.id].rev
                      /\ i \in c.items
    BY <1>3
  <2>1. i \in c.items /\ i.id \in Records
    BY <1>1 DEF Accepted, Items
  <2>2. cloud'[i.id].rev = Exact(c.now)
    BY <1>2, <2>1 DEF Upsert
  <2> QED
    BY <1>4, <2>1, <2>2
<1> HIDE DEF taken, rejected
<1>6. ASSUME NEW d \in Devices, NEW o \in Roles
      PROVE  ReplyStep(d, o)
  <2>1. CASE d = e /\ o = p
    <3>1. /\ call'[d][o].kind = c.kind /\ call'[d][o].items = c.items
          /\ call'[d][o].accepted = taken
      BY <1>1, <1>2, <2>1 DEF CloudTypeOK, Calls
    <3> QED
      BY <1>2, <1>5, <2>1, <3>1 DEF ReplyStep
  <2>2. CASE d # e \/ o # p
    <3>1. call'[d][o] = call[d][o]
      BY <1>1, <1>2, <2>2 DEF CloudTypeOK
    <3> QED
      BY <3>1 DEF ReplyStep
  <2> QED
    BY <2>1, <2>2
<1>7. Fresh
  BY <1>1, <1>2, UpsertFresh
<1> QED
  BY <1>6, <1>7

LEMMA RunPullReplies ==
    ASSUME CloudTypeOK, NEW e \in Devices, NEW p \in Roles, RunPull(e, p)
    PROVE  Fresh /\ \A d \in Devices, o \in Roles : ReplyStep(d, o)
<1> DEFINE c == call[e][p]
           rows == RowsBetween(c.since, Exact(c.now))
<1>1. /\ cloud' = cloud /\ c.kind = "pull" /\ c \in Calls
      /\ call' = [call EXCEPT ![e][p] = [c EXCEPT !.st = "done", !.rows = rows]]
  BY DEF RunPull, CloudTypeOK
<1>2. Fetched(rows)
  <2>1. \A q \in rows : /\ q.id \in Records /\ IsRow(cloud[q.id])
                        /\ q = [id |-> q.id, val |-> cloud[q.id].val,
                                rev |-> cloud[q.id].rev, dev |-> cloud[q.id].dev]
    BY DEF RowsBetween
  <2> HIDE DEF rows
  <2> QED
    BY <1>1, <2>1 DEF Fetched
<1> HIDE DEF rows
<1>3. ASSUME NEW d \in Devices, NEW o \in Roles
      PROVE  ReplyStep(d, o)
  <2>1. CASE d = e /\ o = p
    <3>1. /\ call'[d][o].kind = c.kind /\ call'[d][o].items = c.items
          /\ call'[d][o].rows = rows
      BY <1>1, <2>1 DEF CloudTypeOK, Calls
    <3> QED
      BY <1>1, <1>2, <2>1, <3>1 DEF ReplyStep
  <2>2. CASE d # e \/ o # p
    <3>1. call'[d][o] = call[d][o]
      BY <1>1, <2>2 DEF CloudTypeOK
    <3> QED
      BY <3>1 DEF ReplyStep
  <2> QED
    BY <2>1, <2>2
<1> QED
  BY <1>1, <1>3 DEF Fresh

LEMMA LateReplies ==
    ASSUME CloudTypeOK, NEW q \in late, ArriveLate(q) \/ RunLate(q)
    PROVE  Fresh /\ \A d \in Devices, o \in Roles : ReplyStep(d, o)
<1>1. call' = call /\ q.now \in 0..MaxClock
  BY DEF ArriveLate, RunLate, CloudTypeOK, LatePushes
<1>2. \A d \in Devices, o \in Roles : ReplyStep(d, o)
  BY <1>1 DEF ReplyStep
<1>3. CASE ArriveLate(q)
  BY <1>2, <1>3 DEF ArriveLate, Fresh
<1>4. CASE RunLate(q)
  BY <1>1, <1>2, <1>4, UpsertFresh DEF RunLate
<1> QED
  BY <1>3, <1>4

LEMMA CloudNextReplies ==
    ASSUME PushInv, CloudKept, CloudNext
    PROVE  CloudReplies
<1>1. CloudTypeOK /\ [CloudStep]_cloudVars
  BY DEF PushInv, CloudStep
<1>2. Grow /\ CloudHistory
  BY <1>1, PushInvStep, CloudNextStores
<1>3. Fresh /\ \A d \in Devices, o \in Roles : ReplyStep(d, o)
  <2>1. ASSUME NEW e \in Devices, NEW p \in Roles,
               Arrive(e, p) \/ RunPush(e, p) \/ RunPull(e, p)
        PROVE  Fresh /\ \A d \in Devices, o \in Roles : ReplyStep(d, o)
    BY <1>1, <2>1, ArriveReplies, RunPushReplies, RunPullReplies
  <2>2. ASSUME NEW q \in late, ArriveLate(q) \/ RunLate(q)
        PROVE  Fresh /\ \A d \in Devices, o \in Roles : ReplyStep(d, o)
    BY <1>1, <2>2, LateReplies
  <2> QED
    BY <2>1, <2>2 DEF CloudNext
<1> QED
  BY <1>2, <1>3 DEF CloudReplies

(* The invariants of the cloud that these steps rest on. *)
CloudInv == PushInv /\ CloudKept

LEMMA CloudNextStep ==
    ASSUME TypeInv, CloudInv, CloudNext, UNCHANGED desktopVars
    PROVE  Step /\ CloudReplies
<1>1. CloudReplies
  BY CloudNextReplies DEF CloudInv
<1>2. drow' = drow /\ drun' = drun
  BY DEF desktopVars
<1>3. DeskTypeOK'
  BY TypeParts DEF TypeInv, DeskTypeOK, desktopVars
<1>4. CloudExact'
  BY <1>1 DEF CloudReplies, Fresh, CloudExact, TypeInv
<1>5. ASSUME NEW d \in Desktops
      PROVE  Phase(d)' /\ Instants(d)'
  <2>1. /\ call'[d]["up"].kind = call[d]["up"].kind
        /\ call'[d]["down"].kind = call[d]["down"].kind
        /\ call[d]["up"] = NoCall => call'[d]["up"] = NoCall
        /\ call[d]["down"] = NoCall => call'[d]["down"] = NoCall
    BY CloudNextKeepsKinds, DesktopsAreDevices, UpDown, TypeParts DEF TypeInv
  <2>2. Phase(d)'
    BY <1>2, <2>1 DEF TypeInv, Phase
  <2>3. ASSUME call'[d]["down"].st = "done"
        PROVE  ExactRows(call'[d]["down"].rows)
    <3>1. ReplyStep(d, "down")
      BY <1>1, DesktopsAreDevices, UpDown DEF CloudReplies
    <3>2. call'[d]["down"].kind = "pull"
      BY <2>2, <2>3 DEF Phase, NoCall
    <3>3. CASE call'[d]["down"] = call[d]["down"]
      BY <2>3, <3>3 DEF TypeInv, Instants
    <3>4. CASE Fetched(call'[d]["down"].rows)
      BY <3>4 DEF Fetched, TypeInv, CloudExact, ExactRows, IsRow
    <3> QED
      BY <2>3, <3>1, <3>2, <3>3, <3>4 DEF ReplyStep
  <2> QED
    BY <1>2, <2>2, <2>3 DEF TypeInv, Instants
<1>6. [CloudStep]_cloudVars
  BY DEF CloudStep
<1> QED
  BY <1>1, <1>3, <1>4, <1>5, <1>6 DEF Step

LEMMA UnseenStep ==
    ASSUME TypeInv, UNCHANGED cloudVars,
           contract' \in 1..MaxContract,
           UNCHANGED <<drow, dcursor, drun, dcontract, dconflict, drejected,
                       dexact, dquiet>>
    PROVE  Step
<1>1. call' = call /\ cloud' = cloud
  BY DEF cloudVars, serverVars
<1>2. DeskTypeOK'
  BY TypeParts DEF TypeInv, DeskTypeOK
<1>3. \A d \in Desktops : Phase(d)' /\ Instants(d)'
  BY <1>1 DEF TypeInv, Phase, Instants
<1> QED
  BY <1>1, <1>2, <1>3 DEF Step, CloudExact, TypeInv

LEMMA UpgradeStep == TypeInv /\ Upgrade => Step
<1> SUFFICES ASSUME TypeInv, Upgrade PROVE Step
  OBVIOUS
<1>1. contract' \in 1..MaxContract
  BY TypeParts, DesktopsAssumption DEF Upgrade, TypeInv, DeskTypeOK
<1> QED
  BY <1>1, UnseenStep DEF Upgrade

LEMMA NextStep ==
    ASSUME TypeInv, CloudInv, [Next]_vars
    PROVE  Step
<1>1. CASE CloudNext /\ UNCHANGED desktopVars
  BY <1>1, CloudNextStep
<1>2. CASE Upgrade
  BY <1>2, UpgradeStep
<1>3. ASSUME NEW d \in Desktops, DesktopNext(d)
      PROVE  Step
  BY <1>3, EditStep, PushBeginStep, PushRepliedStep, MarkRejectedStep,
     PullBeginStep, PullRepliedStep, ApplyRemoteStep, MarkSyncedStep,
     SaveCursorStep, SaveContractStep, RunFailsStep
  DEF DesktopNext
<1>4. CASE UNCHANGED vars
  <2>1. contract' \in 1..MaxContract
    BY <1>4, TypeParts DEF TypeInv, DeskTypeOK, vars, desktopVars
  <2> QED
    BY <1>4, <2>1, UnseenStep DEF vars, desktopVars
<1> QED
  BY <1>1, <1>2, <1>3, <1>4 DEF Next

(* The client's steps change no row of the cloud, so what was stored of    *)
(* them stays so.                                                          *)
LEMMA CloudInvStep ==
    ASSUME TypeInv, CloudInv, [Next]_vars
    PROVE  CloudInv' /\ Grow
<1>1. [CloudStep]_cloudVars
  BY NextStep DEF Step
<1>2. PushInv' /\ Grow
  BY <1>1, PushInvStep DEF CloudInv
<1>3. CloudKept'
  <2>1. CASE CloudNext /\ UNCHANGED desktopVars
    BY <2>1, CloudNextStep DEF CloudReplies, CloudHistory
  <2>2. CASE cloud' = cloud /\ stored' = stored
    BY <2>2 DEF CloudInv, CloudKept
  <2>3. ASSUME NEW d \in Desktops, DesktopNext(d)
        PROVE  Only(d)
    BY <2>3, EditStep, PushBeginStep, PushRepliedStep, MarkRejectedStep,
       PullBeginStep, PullRepliedStep, ApplyRemoteStep, MarkSyncedStep,
       SaveCursorStep, SaveContractStep, RunFailsStep
    DEF DesktopNext
  <2>4. CASE Upgrade \/ UNCHANGED vars
    BY <2>2, <2>4 DEF Upgrade, vars, cloudVars, serverVars
  <2> QED
    BY <2>1, <2>2, <2>3, <2>4 DEF Next, Only
<1> QED
  BY <1>2, <1>3 DEF CloudInv

LEMMA TypeInvStep ==
    ASSUME TypeInv, CloudInv, [Next]_vars
    PROVE  TypeInv' /\ CloudInv' /\ [CloudStep]_cloudVars
<1>1. Step
  BY NextStep
<1>2. CloudInv'
  BY CloudInvStep
<1> QED
  BY <1>1, <1>2, TypeParts DEF Step, TypeInv, CloudInv, PushInv, DeskTypeOK, DesktopTypeOK

LEMMA InvInit == Init => TypeInv /\ CloudInv
<1>1. CloudInit => CloudKept
  BY DEF CloudInit, CloudKept, IsRow, NoRow
<1> QED
  BY <1>1, TypeInvInit, PushInvInit DEF CloudInv, Init

(* The state of the desktops keeps its shape, and every revision fits,     *)
(* also when it is cut to the second, for any length of a second.          *)
THEOREM DesktopTypeCorrect == Spec => []DesktopTypeOK
<1>1. Init => TypeInv /\ CloudInv
  BY InvInit
<1>2. TypeInv /\ CloudInv /\ [Next]_vars => TypeInv' /\ CloudInv'
  BY TypeInvStep
<1>3. TypeInv => DesktopTypeOK
  BY DEF TypeInv
<1> QED
  BY <1>1, <1>2, <1>3, PTL DEF Spec

(* Every step of the desktops is a step of the cloud with arbitrary        *)
(* clients, or leaves the cloud alone.                                     *)
THEOREM DesktopImplementsCloud == Spec => CloudSpec
<1>1. Init => TypeInv /\ CloudInv /\ CloudInit
  BY InvInit DEF Init
<1>2. TypeInv /\ CloudInv /\ [Next]_vars
      => TypeInv' /\ CloudInv' /\ [CloudStep]_cloudVars
  BY TypeInvStep
<1> QED
  BY <1>1, <1>2, PTL DEF Spec, CloudSpec

(* A record's revision only grows in a system of desktops too.             *)
THEOREM DesktopRevisionsGrow == Spec => RevisionsGrow
  BY DesktopImplementsCloud, RevisionsOnlyGrow, PTL

-----------------------------------------------------------------------------
(* Why the desktop's guarantees hold.  A batch holds rows as the cloud has *)
(* or had them, one per record.                                            *)
Batch(rows) ==
    \A q \in rows :
        /\ q.rev <= cloud[q.id].rev
        /\ q.rev = cloud[q.id].rev => q.val = cloud[q.id].val
        /\ q.val \in stored[q.id]
        /\ \A p \in rows : p.id = q.id => p = q

Batches(d) ==
    /\ Batch(drun[d].rows)
    /\ call[d]["down"].st = "done" => Batch(call[d]["down"].rows)

(* A rejected row has its rejection. *)
Recorded(d) ==
    \A r \in Records : drow[d][r].st = "sync_error" => r \in drejected[d]

(* The revision of a row is one the cloud had. *)
Known(d) == \A r \in Records : Parse(drow[d][r].rev) <= Parse(cloud[r].rev)

(* Once applied, the batch is in the rows. *)
Applied(d) ==
    drun[d].pc \in {"mark", "save"} =>
        \A q \in drun[d].rows :
            drow[d][q.id].st # "absent" /\ drow[d][q.id].rev >= Truncate(q.rev)

(* The content of a row was stored, and is the cloud's unless the cloud's  *)
(* revision is above the row's.                                            *)
Settled(d, r) ==
    /\ drow[d][r].val \in stored[r]
    /\ Parse(cloud[r].rev) <= Parse(drow[d][r].rev) =>
          drow[d][r].val = cloud[r].val

(* The row is shown as synced, or will be at the end of the run. *)
Finished(d, r) == drow[d][r].st = "synced" \/ r \in drun[d].accepted

(* A finished row that a batch will not replace is as the batch has it. *)
Agrees(d, rows) ==
    \A q \in rows :
        Finished(d, q.id) /\ Parse(q.rev) <= Parse(drow[d][q.id].rev) =>
            drow[d][q.id].val = q.val

(* Of a desktop whose user never edited during a run. *)
Uploaded(d) ==
    /\ \A r \in Records : Finished(d, r) => Settled(d, r)
    /\ \A i \in call[d]["up"].items : i.val = drow[d][i.id].val
    /\ call[d]["up"].st = "done" => \A r \in call[d]["up"].accepted : Settled(d, r)
    /\ call[d]["down"].st = "done" => Agrees(d, call[d]["down"].rows)
    /\ drun[d].pc = "apply" => Agrees(d, drun[d].rows)
    /\ drun[d].pc \in {"mark", "save"} =>
          \A q \in drun[d].rows :
              Finished(d, q.id) => drow[d][q.id].val = q.val

Desk(d) ==
    /\ Batches(d) /\ Recorded(d) /\ Known(d) /\ Applied(d)
    /\ dquiet[d] => Uploaded(d)

DeskInv == TypeInv /\ CloudInv /\ \A d \in Desktops : Desk(d)

LEMMA DeskInit == Init => \A d \in Desktops : Desk(d)
<1> SUFFICES ASSUME Init, NEW d \in Desktops PROVE Desk(d)
  OBVIOUS
<1>1. /\ call[d]["up"] = NoCall /\ call[d]["down"] = NoCall /\ drun[d] = NoRun
      /\ \A r \in Records :
            /\ drow[d][r].rev = NoRevision /\ drow[d][r].st = "absent"
            /\ cloud[r].rev = NoRevision
  BY DesktopsAreDevices, UpDown DEF Init, CloudInit, DesktopInit, Absent, NoRow
<1>2. Known(d)
  BY <1>1, StringsAre DEF Known
<1>3. Batches(d) /\ Recorded(d) /\ Applied(d) /\ Uploaded(d)
  BY <1>1, NoRunIsRun
  DEF Batches, Batch, Recorded, Applied, Uploaded, Finished, Agrees, NoCall
<1> QED
  BY <1>2, <1>3 DEF Desk

LEMMA OnlyDesk ==
    ASSUME DeskInv, NEW d \in Desktops, Only(d), Desk(d)'
    PROVE  \A e \in Desktops : Desk(e)'
<1> SUFFICES ASSUME NEW e \in Desktops, e # d PROVE Desk(e)'
  OBVIOUS
<1>1. /\ drow'[e] = drow[e] /\ drun'[e] = drun[e] /\ drejected'[e] = drejected[e]
      /\ dquiet'[e] = dquiet[e] /\ cloud' = cloud /\ stored' = stored
      /\ call'[e]["up"] = call[e]["up"] /\ call'[e]["down"] = call[e]["down"]
      /\ Desk(e)
  BY DEF Only, DeskInv
<1>2. Batches(e)' /\ Recorded(e)' /\ Known(e)' /\ Applied(e)'
  BY <1>1 DEF Desk, Batches, Batch, Recorded, Known, Applied
<1>3. Uploaded(e) => Uploaded(e)'
  BY <1>1 DEF Uploaded, Finished, Settled, Agrees
<1> QED
  BY <1>1, <1>2, <1>3 DEF Desk

LEMMA EditDesk ==
    ASSUME DeskInv, NEW d \in Desktops, NEW r \in Records, Edit(d, r)
    PROVE  Desk(d)'
<1>1. DeskTypeOK /\ Desk(d) /\ Phase(d) /\ drow[d][r] \in Rows
  BY TypeParts DEF DeskInv, TypeInv, DeskTypeOK
<1>2. /\ drun' = drun /\ call' = call /\ cloud' = cloud /\ stored' = stored
      /\ drow'[d][r].rev = drow[d][r].rev /\ drow'[d][r].st = "pending"
      /\ \A s \in Records : s # r => drow'[d][s] = drow[d][s]
      /\ drejected'[d] = drejected[d] \ {r}
      /\ dquiet'[d] => dquiet[d] /\ drun[d].pc = "idle"
  BY <1>1 DEF Edit, MakeEdit, serverVars, DeskTypeOK, Rows, At
<1>3. Batches(d)'
  BY <1>1, <1>2 DEF Desk, Batches, Batch
<1>4. Recorded(d)' /\ Known(d)'
  BY <1>1, <1>2 DEF Desk, Recorded, Known
<1>5. Applied(d)'
  <2>1. \A q \in drun[d].rows : q.id \in Records
    BY <1>1 DEF DeskTypeOK, Runs, PulledRows
  <2> QED
    BY <1>1, <1>2, <2>1 DEF Desk, Applied
<1>6. dquiet'[d] => Uploaded(d)'
  <2> SUFFICES ASSUME dquiet[d], drun[d].pc = "idle" PROVE Uploaded(d)'
    BY <1>2
  <2>1. /\ call'[d]["up"] = NoCall /\ call'[d]["down"] = NoCall
        /\ drun'[d].pc = "idle" /\ drun'[d].accepted = {}
    BY <1>1, <1>2, NoRunIsRun DEF Phase
  <2>2. ASSUME NEW s \in Records, Finished(d, s)'
        PROVE  Settled(d, s)'
    <3>1. s # r /\ drow'[d][s] = drow[d][s] /\ Finished(d, s)
      BY <1>2, <2>1, <2>2 DEF Finished
    <3> QED
      BY <1>1, <1>2, <3>1 DEF Desk, Uploaded, Settled
  <2> QED
    BY <2>1, <2>2 DEF Uploaded, NoCall
<1> QED
  BY <1>3, <1>4, <1>5, <1>6 DEF Desk

(* What Desk says of the rows needs no proof again when they stay.         *)
LEMMA SameRowsDesk ==
    ASSUME DeskInv, NEW d \in Desktops, Only(d), drow'[d] = drow[d],
           drejected' = drejected, dquiet' = dquiet
    PROVE  /\ Recorded(d)' /\ Known(d)'
           /\ \A r \in Records : Settled(d, r)' <=> Settled(d, r)
           /\ \A rows : Batch(rows)' <=> Batch(rows)
  BY DEF DeskInv, Desk, Recorded, Known, Settled, Only, Batch

LEMMA PushBeginDesk ==
    ASSUME DeskInv, NEW d \in Desktops, PushBegin(d)
    PROVE  Desk(d)'
<1>1. Desk(d) /\ Phase(d) /\ TypeInv
  BY DEF DeskInv, TypeInv
<1>2. /\ Only(d) /\ drow' = drow
      /\ call'[d]["up"] = PushCall(Payload(d))
      /\ call'[d]["down"] = call[d]["down"]
      /\ drun'[d].pc = "push" /\ drun'[d].rows = {} /\ drun'[d].accepted = {}
  BY <1>1, PushBeginStep
<1>3. drejected' = drejected /\ dquiet' = dquiet /\ drun[d].pc = "idle"
  BY DEF PushBegin, At
<1>4. /\ Recorded(d)' /\ Known(d)'
      /\ \A r \in Records : Settled(d, r)' <=> Settled(d, r)
  BY <1>2, <1>3, SameRowsDesk
<1>5. call'[d]["down"] = NoCall
  BY <1>1, <1>2, <1>3 DEF Phase
<1>6. Batches(d)' /\ Applied(d)'
  BY <1>2, <1>5 DEF Batches, Batch, Applied, NoCall
<1>7. \A i \in Payload(d) : i.val = drow'[d][i.id].val
  BY <1>2 DEF Payload
<1>8. Uploaded(d) => Uploaded(d)'
  <2>1. \A r \in Records : Finished(d, r)' => Finished(d, r)
    BY <1>2 DEF Finished
  <2> QED
    BY <1>2, <1>4, <1>5, <1>7, <2>1, PushCallIs DEF Uploaded, NoCall
<1> QED
  BY <1>1, <1>3, <1>4, <1>6, <1>8 DEF Desk

LEMMA PushRepliedDesk ==
    ASSUME DeskInv, NEW d \in Desktops, PushReplied(d)
    PROVE  Desk(d)'
<1>1. Desk(d) /\ Phase(d) /\ TypeInv
  BY DEF DeskInv, TypeInv
<1>2. /\ Only(d) /\ drow' = drow
      /\ call'[d]["up"] = NoCall /\ call'[d]["down"] = call[d]["down"]
      /\ drun'[d].pc \in {"reject", "cursor"} /\ drun'[d].rows = drun[d].rows
      /\ drun'[d].accepted = call[d]["up"].accepted
  BY <1>1, PushRepliedStep
<1>3. /\ drejected' = drejected /\ dquiet' = dquiet /\ drun[d].pc = "push"
      /\ call[d]["up"].st = "done"
  BY DEF PushReplied, At, Replied
<1>4. /\ Recorded(d)' /\ Known(d)'
      /\ \A r \in Records : Settled(d, r)' <=> Settled(d, r)
      /\ \A rows : Batch(rows)' <=> Batch(rows)
  BY <1>2, <1>3, SameRowsDesk
<1>5. call'[d]["down"] = NoCall
  BY <1>1, <1>2, <1>3 DEF Phase
<1>6. Batches(d)' /\ Applied(d)'
  BY <1>1, <1>2, <1>4, <1>5 DEF Desk, Batches, Applied, NoCall
<1>7. Uploaded(d) => Uploaded(d)'
  <2>1. ASSUME Uploaded(d), NEW r \in Records, Finished(d, r)'
        PROVE  Settled(d, r)'
    BY <1>2, <1>3, <1>4, <2>1 DEF Uploaded, Finished
  <2> QED
    BY <1>2, <1>5, <2>1 DEF Uploaded, NoCall
<1> QED
  BY <1>1, <1>3, <1>4, <1>6, <1>7 DEF Desk

LEMMA MarkRejectedDesk ==
    ASSUME DeskInv, NEW d \in Desktops, MarkRejected(d)
    PROVE  Desk(d)'
<1>1. DeskTypeOK /\ Desk(d) /\ Phase(d) /\ TypeInv /\ drun[d] \in Runs
  BY TypeParts DEF DeskInv, TypeInv, DeskTypeOK
<1>2. /\ cloud' = cloud /\ stored' = stored /\ call' = call /\ dquiet' = dquiet
      /\ drejected'[d] = drejected[d] \cup drun[d].rejected
      /\ drun'[d].pc = "cursor" /\ drun'[d].rows = drun[d].rows
      /\ drun'[d].accepted = drun[d].accepted
      /\ drun[d].pc = "reject"
  BY <1>1
  DEF MarkRejected, Goto, At, cloudVars, serverVars, DeskTypeOK, Runs
<1>3. ASSUME NEW r \in Records
      PROVE  /\ drow'[d][r].val = drow[d][r].val /\ drow'[d][r].rev = drow[d][r].rev
             /\ drow'[d][r].st = "synced" => drow[d][r].st = "synced"
             /\ drow'[d][r].st = "sync_error" =>
                   drow[d][r].st = "sync_error" \/ r \in drun[d].rejected
  BY <1>1 DEF MarkRejected, DeskTypeOK, Rows
<1>4. Batches(d)' /\ Recorded(d)' /\ Known(d)' /\ Applied(d)'
  BY <1>1, <1>2, <1>3 DEF Desk, Batches, Batch, Recorded, Known, Applied
<1>5. Uploaded(d) => Uploaded(d)'
  <2>1. ASSUME NEW r \in Records
        PROVE  (Finished(d, r)' => Finished(d, r)) /\ (Settled(d, r) => Settled(d, r)')
    BY <1>2, <1>3 DEF Finished, Settled
  <2>2. call'[d]["up"] = NoCall /\ call'[d]["down"] = NoCall
    BY <1>1, <1>2 DEF Phase
  <2> QED
    BY <1>2, <2>1, <2>2 DEF Uploaded, NoCall
<1> QED
  BY <1>1, <1>2, <1>4, <1>5 DEF Desk

LEMMA PullBeginDesk ==
    ASSUME DeskInv, NEW d \in Desktops, PullBegin(d)
    PROVE  Desk(d)'
<1>1. Desk(d) /\ Phase(d) /\ TypeInv
  BY DEF DeskInv, TypeInv
<1>2. /\ Only(d) /\ drow' = drow
      /\ call'[d]["down"].st = "sent" /\ call'[d]["up"] = call[d]["up"]
      /\ drun'[d].pc = "pull" /\ drun'[d].rows = drun[d].rows
      /\ drun'[d].accepted = drun[d].accepted
  BY <1>1, PullBeginStep
<1>3. drejected' = drejected /\ dquiet' = dquiet /\ drun[d].pc = "cursor"
  BY DEF PullBegin, At
<1>4. /\ Recorded(d)' /\ Known(d)'
      /\ \A r \in Records : Settled(d, r)' <=> Settled(d, r)
      /\ \A rows : Batch(rows)' <=> Batch(rows)
  BY <1>2, <1>3, SameRowsDesk
<1>5. Batches(d)' /\ Applied(d)'
  BY <1>1, <1>2, <1>4 DEF Desk, Batches, Applied
<1>6. Uploaded(d) => Uploaded(d)'
  <2>1. \A r \in Records : Finished(d, r)' => Finished(d, r)
    BY <1>2 DEF Finished
  <2>2. call'[d]["up"] = NoCall
    BY <1>1, <1>2, <1>3 DEF Phase
  <2> QED
    BY <1>2, <1>4, <2>1, <2>2 DEF Uploaded, NoCall
<1> QED
  BY <1>1, <1>3, <1>4, <1>5, <1>6 DEF Desk

LEMMA PullRepliedDesk ==
    ASSUME DeskInv, NEW d \in Desktops, PullReplied(d)
    PROVE  Desk(d)'
<1>1. Desk(d) /\ Phase(d) /\ TypeInv
  BY DEF DeskInv, TypeInv
<1>2. /\ Only(d) /\ drow' = drow
      /\ call'[d]["down"] = NoCall /\ call'[d]["up"] = call[d]["up"]
      /\ drun'[d].pc \in {"apply", "mark"}
      /\ drun'[d].pc = "mark" => drun'[d].rows = {}
      /\ drun'[d].rows = call[d]["down"].rows
      /\ drun'[d].accepted = drun[d].accepted
      /\ call[d]["down"].st = "done"
  BY <1>1, PullRepliedStep
<1>3. drejected' = drejected /\ dquiet' = dquiet /\ drun[d].pc = "pull"
  BY DEF PullReplied, At
<1>4. /\ Recorded(d)' /\ Known(d)'
      /\ \A r \in Records : Settled(d, r)' <=> Settled(d, r)
      /\ \A rows : Batch(rows)' <=> Batch(rows)
  BY <1>2, <1>3, SameRowsDesk
<1>5. Batches(d)' /\ Applied(d)'
  BY <1>1, <1>2, <1>4 DEF Desk, Batches, Applied, NoCall
<1>6. Uploaded(d) => Uploaded(d)'
  <2>1. \A r \in Records : Finished(d, r)' => Finished(d, r)
    BY <1>2 DEF Finished
  <2>2. call'[d]["up"] = NoCall
    BY <1>1, <1>2, <1>3 DEF Phase
  <2>3. Uploaded(d) => Agrees(d, drun[d].rows)'
    BY <1>2 DEF Uploaded, Agrees, Finished
  <2> QED
    BY <1>2, <1>4, <2>1, <2>2, <2>3 DEF Uploaded, NoCall
<1> QED
  BY <1>1, <1>3, <1>4, <1>5, <1>6 DEF Desk

(* A row of the batch takes the place of a row, or is not newer.           *)
LEMMA MergedOne ==
    ASSUME DeskInv, NEW d \in Desktops, NEW q \in drun[d].rows
    PROVE  /\ q \in PulledRows /\ q.id \in Records
           /\ q.rev \in Exacts /\ q.rev # NoRevision
           /\ Merged(d, q.id) = Adopt(q) \/
                 /\ Merged(d, q.id) = drow[d][q.id]
                 /\ drow[d][q.id].st # "absent" /\ ~Newer(q, drow[d][q.id])
<1>1. q \in PulledRows /\ q.id \in Records
  BY TypeParts DEF DeskInv, TypeInv, DeskTypeOK, Runs, PulledRows
<1>2. q.rev \in Exacts /\ q.rev # NoRevision
  BY DEF DeskInv, TypeInv, Instants, ExactRows
<1>3. \A p \in drun[d].rows : p.id = q.id => p = q
  BY DEF DeskInv, Desk, Batches, Batch
<1>4. (CHOOSE p \in drun[d].rows : p.id = q.id) = q
  <2>1. /\ (CHOOSE p \in drun[d].rows : p.id = q.id) \in drun[d].rows
        /\ (CHOOSE p \in drun[d].rows : p.id = q.id).id = q.id
    OBVIOUS
  <2> QED
    BY <1>3, <2>1
<1> QED
  BY <1>1, <1>2, <1>4 DEF Merged, ApplyRow

(* A row that is kept is at the batch's revision or above. *)
LEMMA NotNewer ==
    ASSUME TypeInv, NEW d \in Desktops, NEW r \in Records, NEW q \in PulledRows,
           q.rev \in Exacts, ~Newer(q, drow[d][r])
    PROVE  /\ Parse(q.rev) <= Parse(drow[d][r].rev)
           /\ drow[d][r].rev >= Truncate(q.rev)
<1>1. drow[d][r].rev \in Seconds
  BY DEF TypeInv, Instants, Newer
<1>2. /\ Parse(q.rev) \in Nat /\ Parse(drow[d][r].rev) \in Nat
      /\ ~(Parse(q.rev) > Parse(drow[d][r].rev))
  BY <1>1, StringsAre DEF Newer
<1>3. Truncate(q.rev) \in Nat /\ drow[d][r].rev \in Nat
  BY <1>1, StringsAre
<1>4. Parse(q.rev) <= Parse(drow[d][r].rev)
  BY <1>2
<1> QED
  BY <1>1, <1>3, <1>4, StringsAre

(* An adopted row is known to the cloud, and settled.                      *)
LEMMA AdoptedIs ==
    ASSUME DeskInv, NEW d \in Desktops, NEW q \in drun[d].rows
    PROVE  /\ Parse(Adopt(q).rev) <= Parse(cloud[q.id].rev)
           /\ q.val \in stored[q.id]
           /\ Parse(cloud[q.id].rev) <= Parse(Adopt(q).rev) =>
                 q.val = cloud[q.id].val
<1>1. /\ q \in PulledRows /\ q.id \in Records /\ q.rev \in Exacts
      /\ cloud[q.id].rev \in Exacts
  BY MergedOne DEF DeskInv, TypeInv, CloudExact
<1>2. /\ Parse(q.rev) \in Nat /\ q.rev = 2 * Parse(q.rev)
      /\ Parse(cloud[q.id].rev) \in Nat
      /\ cloud[q.id].rev = 2 * Parse(cloud[q.id].rev)
      /\ Parse(Truncate(q.rev)) \in Nat /\ Parse(Truncate(q.rev)) <= Parse(q.rev)
  BY <1>1, StringsAre
<1>3. /\ q.rev <= cloud[q.id].rev /\ q.val \in stored[q.id]
      /\ q.rev = cloud[q.id].rev => q.val = cloud[q.id].val
  BY DEF DeskInv, Desk, Batches, Batch
<1>4. Adopt(q).rev = Truncate(q.rev)
  BY <1>1, AdoptIs
<1>5. Parse(q.rev) <= Parse(cloud[q.id].rev)
  BY <1>2, <1>3
<1>6. ASSUME Parse(cloud[q.id].rev) <= Parse(Adopt(q).rev)
      PROVE  q.rev = cloud[q.id].rev
  BY <1>2, <1>4, <1>5, <1>6
<1> QED
  BY <1>2, <1>3, <1>4, <1>5, <1>6

LEMMA ApplyRemoteDesk ==
    ASSUME DeskInv, NEW d \in Desktops, ApplyRemote(d)
    PROVE  Desk(d)'
<1>1. /\ DeskTypeOK /\ Desk(d) /\ Phase(d) /\ TypeInv /\ drun[d] \in Runs
  BY TypeParts DEF DeskInv, TypeInv, DeskTypeOK
<1>2. \A r \in Records : drow'[d][r] = Merged(d, r)
  BY <1>1, ApplyRemoteStep
<1>3. /\ cloud' = cloud /\ stored' = stored /\ call' = call /\ dquiet' = dquiet
      /\ drejected' = drejected
      /\ drun'[d].pc = "mark" /\ drun'[d].rows = drun[d].rows
      /\ drun'[d].accepted = drun[d].accepted
      /\ drun[d].pc = "apply"
  BY <1>1
  DEF ApplyRemote, Goto, At, cloudVars, serverVars, DeskTypeOK, Runs
<1>4. ASSUME NEW r \in Records
      PROVE  \/ drow'[d][r] = drow[d][r]
             \/ \E q \in drun[d].rows :
                   /\ q.id = r /\ drow'[d][r].rev = Adopt(q).rev
                   /\ drow'[d][r].val = q.val /\ drow'[d][r].st = "synced"
  BY <1>1, <1>2, MergedIs, MergedOne, AdoptIs
<1>5. Batches(d)'
  BY <1>1, <1>3 DEF Desk, Batches, Batch
<1>6. Recorded(d)'
  BY <1>1, <1>3, <1>4 DEF Desk, Recorded
<1>7. Known(d)'
  BY <1>1, <1>3, <1>4, AdoptedIs DEF Desk, Known
<1>8. Applied(d)'
  <2> SUFFICES ASSUME NEW q \in drun[d].rows
               PROVE  /\ drow'[d][q.id].st # "absent"
                      /\ drow'[d][q.id].rev >= Truncate(q.rev)
    BY <1>3 DEF Applied
  <2>1. /\ q \in PulledRows /\ q.id \in Records /\ q.rev \in Exacts
        /\ drow'[d][q.id] = Merged(d, q.id)
    BY <1>2, MergedOne
  <2>2. CASE Merged(d, q.id) = Adopt(q)
    <3>1. Truncate(q.rev) \in Nat
      BY <2>1, StringsAre
    <3> QED
      BY <2>1, <2>2, <3>1, AdoptIs
  <2>3. CASE /\ Merged(d, q.id) = drow[d][q.id]
             /\ drow[d][q.id].st # "absent" /\ ~Newer(q, drow[d][q.id])
    BY <1>1, <2>1, <2>3, NotNewer
  <2> QED
    BY <2>2, <2>3, MergedOne
<1>9. Uploaded(d) => Uploaded(d)'
  <2> SUFFICES ASSUME Uploaded(d) PROVE Uploaded(d)'
    OBVIOUS
  <2>1. ASSUME NEW r \in Records, Finished(d, r)'
        PROVE  Settled(d, r)'
    <3>1. CASE drow'[d][r] = drow[d][r]
      <4>1. Settled(d, r)
        BY <1>3, <2>1, <3>1 DEF Finished, Uploaded
      <4> QED
        BY <1>3, <3>1, <4>1 DEF Settled
    <3>2. ASSUME NEW q \in drun[d].rows, q.id = r,
                 drow'[d][r].rev = Adopt(q).rev, drow'[d][r].val = q.val
          PROVE  Settled(d, r)'
      BY <1>3, <3>2, AdoptedIs DEF Settled
    <3> QED
      BY <1>4, <3>1, <3>2
  <2>2. ASSUME NEW q \in drun[d].rows, Finished(d, q.id)'
        PROVE  drow'[d][q.id].val = q.val
    <3>1. /\ q \in PulledRows /\ q.id \in Records /\ q.rev \in Exacts
          /\ drow'[d][q.id] = Merged(d, q.id)
      BY <1>2, MergedOne
    <3>2. CASE Merged(d, q.id) = Adopt(q)
      BY <3>1, <3>2, AdoptIs
    <3>3. CASE /\ Merged(d, q.id) = drow[d][q.id]
               /\ drow[d][q.id].st # "absent" /\ ~Newer(q, drow[d][q.id])
      <4>1. Parse(q.rev) <= Parse(drow[d][q.id].rev)
        BY <1>1, <3>1, <3>3, NotNewer
      <4>2. Finished(d, q.id)
        BY <1>3, <2>2, <3>1, <3>3 DEF Finished
      <4> QED
        BY <1>3, <3>1, <3>3, <4>1, <4>2 DEF Uploaded, Agrees
    <3> QED
      BY <3>2, <3>3, MergedOne
  <2>3. call'[d]["up"] = NoCall /\ call'[d]["down"] = NoCall
    BY <1>1, <1>3 DEF Phase
  <2> QED
    BY <1>3, <2>1, <2>2, <2>3 DEF Uploaded, NoCall
<1> QED
  BY <1>1, <1>3, <1>5, <1>6, <1>7, <1>8, <1>9 DEF Desk

LEMMA MarkSyncedDesk ==
    ASSUME DeskInv, NEW d \in Desktops, MarkSynced(d)
    PROVE  Desk(d)'
<1>1. DeskTypeOK /\ Desk(d) /\ Phase(d) /\ TypeInv /\ drun[d] \in Runs
  BY TypeParts DEF DeskInv, TypeInv, DeskTypeOK
<1>2. /\ cloud' = cloud /\ stored' = stored /\ call' = call /\ dquiet' = dquiet
      /\ drejected'[d] = drejected[d] \ drun[d].accepted
      /\ drun'[d].pc = "save" /\ drun'[d].rows = drun[d].rows
      /\ drun'[d].accepted = drun[d].accepted
      /\ drun[d].pc = "mark"
  BY <1>1
  DEF MarkSynced, Goto, At, cloudVars, serverVars, DeskTypeOK, Runs
<1>3. ASSUME NEW r \in Records
      PROVE  /\ drow'[d][r].val = drow[d][r].val /\ drow'[d][r].rev = drow[d][r].rev
             /\ r \in drun[d].accepted => drow'[d][r].st = "synced"
             /\ r \notin drun[d].accepted => drow'[d][r].st = drow[d][r].st
  BY <1>1 DEF MarkSynced, DeskTypeOK, Rows
<1>4. Batches(d)' /\ Recorded(d)' /\ Known(d)'
  BY <1>1, <1>2, <1>3 DEF Desk, Batches, Batch, Recorded, Known
<1>5. \A q \in drun[d].rows : q.id \in Records
  BY <1>1 DEF Runs, PulledRows
<1>6. Applied(d)'
  BY <1>1, <1>2, <1>3, <1>5 DEF Desk, Applied
<1>7. Uploaded(d) => Uploaded(d)'
  <2>1. ASSUME NEW r \in Records
        PROVE  (Finished(d, r)' => Finished(d, r)) /\ (Settled(d, r) => Settled(d, r)')
    BY <1>2, <1>3 DEF Finished, Settled
  <2>2. call'[d]["up"] = NoCall /\ call'[d]["down"] = NoCall
    BY <1>1, <1>2 DEF Phase
  <2> QED
    BY <1>2, <1>3, <1>5, <2>1, <2>2 DEF Uploaded, NoCall
<1> QED
  BY <1>1, <1>2, <1>4, <1>6, <1>7 DEF Desk

(* The rest of a run, or its failure. *)
LEMMA EndsDesk ==
    ASSUME DeskInv, NEW d \in Desktops, Only(d), drow' = drow,
           drejected' = drejected, dquiet' = dquiet,
           \/ drun'[d] = NoRun
           \/ /\ drun'[d].pc = "contract" /\ drun'[d].rows = drun[d].rows
              /\ drun'[d].accepted = drun[d].accepted,
           call'[d]["up"] = NoCall, call'[d]["down"] = NoCall
    PROVE  Desk(d)'
<1>1. Desk(d)
  BY DEF DeskInv
<1>2. /\ Recorded(d)' /\ Known(d)'
      /\ \A r \in Records : Settled(d, r)' <=> Settled(d, r)
      /\ \A rows : Batch(rows)' <=> Batch(rows)
  BY SameRowsDesk
<1>3. Batches(d)'
  BY <1>1, <1>2, NoRunIsRun DEF Desk, Batches, Batch, NoCall
<1>4. Applied(d)' /\ drun'[d].pc \notin {"apply", "mark", "save"}
  BY NoRunIsRun DEF Applied
<1>5. Uploaded(d) => Uploaded(d)'
  <2>1. \A r \in Records : Finished(d, r)' => Finished(d, r)
    BY NoRunIsRun DEF Finished
  <2> QED
    BY <1>2, <1>4, <2>1 DEF Uploaded, NoCall
<1> QED
  BY <1>1, <1>2, <1>3, <1>4, <1>5 DEF Desk

LEMMA SaveCursorDesk ==
    ASSUME DeskInv, NEW d \in Desktops, SaveCursor(d)
    PROVE  Desk(d)'
<1>1. TypeInv /\ Phase(d) /\ DeskTypeOK /\ drun[d] \in Runs
  BY TypeParts DEF DeskInv, TypeInv, DeskTypeOK
<1>2. Only(d)
  BY <1>1, SaveCursorStep
<1>3. /\ drow' = drow /\ drejected' = drejected /\ dquiet' = dquiet /\ call' = call
      /\ drun'[d].pc = "contract" /\ drun'[d].rows = drun[d].rows
      /\ drun'[d].accepted = drun[d].accepted /\ drun[d].pc = "save"
  BY <1>1 DEF SaveCursor, Goto, At, cloudVars, serverVars, DeskTypeOK, Runs
<1> QED
  BY <1>1, <1>2, <1>3, EndsDesk DEF Phase

LEMMA SaveContractDesk ==
    ASSUME DeskInv, NEW d \in Desktops, SaveContract(d)
    PROVE  Desk(d)'
<1>1. TypeInv /\ Phase(d) /\ DeskTypeOK
  BY TypeParts DEF DeskInv, TypeInv
<1>2. Only(d)
  BY <1>1, SaveContractStep
<1>3. /\ drow' = drow /\ drejected' = drejected /\ dquiet' = dquiet /\ call' = call
      /\ drun'[d] = NoRun /\ drun[d].pc = "contract"
  BY <1>1 DEF SaveContract, At, cloudVars, serverVars, DeskTypeOK
<1> QED
  BY <1>1, <1>2, <1>3, EndsDesk DEF Phase

LEMMA RunFailsDesk ==
    ASSUME DeskInv, NEW d \in Desktops, RunFails(d)
    PROVE  Desk(d)'
<1>1. /\ Only(d) /\ drow' = drow /\ drun'[d] = NoRun
      /\ call'[d]["up"] = NoCall /\ call'[d]["down"] = NoCall
  BY RunFailsStep DEF DeskInv
<1>2. drejected' = drejected /\ dquiet' = dquiet
  BY DEF RunFails
<1> QED
  BY <1>1, <1>2, EndsDesk

-----------------------------------------------------------------------------
(* A step of the cloud: what it writes is above every row there was. *)
LEMMA CloudRevs ==
    ASSUME DeskInv, CloudReplies, CloudExact', NEW r \in Records
    PROVE  /\ Parse(cloud[r].rev) \in Nat /\ cloud[r].rev = 2 * Parse(cloud[r].rev)
           /\ Parse(cloud'[r].rev) \in Nat
           /\ cloud'[r].rev = 2 * Parse(cloud'[r].rev)
           /\ \/ cloud'[r] = cloud[r]
              \/ /\ cloud[r].rev < cloud'[r].rev
                 /\ Parse(cloud[r].rev) < Parse(cloud'[r].rev)
           /\ stored[r] \subseteq stored'[r]
<1>1. cloud[r].rev \in Exacts /\ cloud'[r].rev \in Exacts
  BY DEF DeskInv, TypeInv, CloudExact
<1>2. /\ Parse(cloud[r].rev) \in Nat /\ cloud[r].rev = 2 * Parse(cloud[r].rev)
      /\ Parse(cloud'[r].rev) \in Nat
      /\ cloud'[r].rev = 2 * Parse(cloud'[r].rev)
  BY <1>1, StringsAre
<1>3. cloud'[r] = cloud[r] \/ cloud'[r].rev > cloud[r].rev
  BY DEF CloudReplies, Grow
<1>4. stored[r] \subseteq stored'[r]
  BY DEF CloudReplies, CloudHistory
<1> QED
  BY <1>2, <1>3, <1>4

LEMMA CloudKeepsBatch ==
    ASSUME DeskInv, CloudReplies, CloudExact',
           NEW rows \in SUBSET PulledRows, ExactRows(rows), Batch(rows)
    PROVE  Batch(rows)'
<1> SUFFICES ASSUME NEW q \in rows
             PROVE  /\ q.rev <= cloud'[q.id].rev
                    /\ q.rev = cloud'[q.id].rev => q.val = cloud'[q.id].val
                    /\ q.val \in stored'[q.id]
  BY DEF Batch
<1>1. q.id \in Records /\ q.rev \in Nat
  BY StringsAre DEF PulledRows, ExactRows
<1>2. /\ q.rev <= cloud[q.id].rev /\ q.val \in stored[q.id]
      /\ q.rev = cloud[q.id].rev => q.val = cloud[q.id].val
  BY DEF Batch
<1>3. cloud[q.id].rev \in Nat /\ cloud'[q.id].rev \in Nat
  BY <1>1, StringsAre DEF DeskInv, TypeInv, CloudExact
<1> QED
  BY <1>1, <1>2, <1>3, CloudRevs

LEMMA CloudKeepsSettled ==
    ASSUME DeskInv, CloudReplies, CloudExact', drow' = drow,
           NEW d \in Desktops, NEW r \in Records
    PROVE  /\ Settled(d, r) => Settled(d, r)'
           /\ Parse(drow[d][r].rev) <= Parse(cloud'[r].rev)
           /\ cloud[r].rev < cloud'[r].rev /\ drow[d][r].val \in stored'[r]
                 => Settled(d, r)'
<1>1. Parse(drow[d][r].rev) \in Nat
  BY StringsAre DEF DeskInv, TypeInv, Instants
<1>2. Parse(drow[d][r].rev) <= Parse(cloud[r].rev)
  BY DEF DeskInv, Desk, Known
<1>3. /\ Parse(cloud[r].rev) \in Nat /\ Parse(cloud'[r].rev) \in Nat
      /\ stored[r] \subseteq stored'[r]
      /\ \/ cloud'[r] = cloud[r]
         \/ Parse(cloud[r].rev) < Parse(cloud'[r].rev)
  BY CloudRevs
<1>4. Parse(drow[d][r].rev) <= Parse(cloud'[r].rev)
  BY <1>1, <1>2, <1>3
<1>5. cloud'[r] # cloud[r] => ~(Parse(cloud'[r].rev) <= Parse(drow[d][r].rev))
  BY <1>1, <1>2, <1>3
<1>6. cloud[r].rev < cloud'[r].rev => cloud'[r] # cloud[r]
  <2>1. cloud[r].rev \in Nat
    BY StringsAre DEF DeskInv, TypeInv, CloudExact
  <2> QED
    BY <2>1
<1> QED
  BY <1>3, <1>4, <1>5, <1>6 DEF Settled

LEMMA CloudNextDesk ==
    ASSUME DeskInv, CloudNext, UNCHANGED desktopVars, NEW d \in Desktops
    PROVE  Desk(d)'
<1> DEFINE up == call[d]["up"]
           down == call[d]["down"]
<1>1. /\ TypeInv /\ CloudInv /\ CloudTypeOK /\ DeskTypeOK /\ Desk(d) /\ d \in Devices
      /\ Phase(d) /\ drun[d] \in Runs
  BY TypeParts, DesktopsAreDevices DEF DeskInv, TypeInv, DeskTypeOK
<1>2. Step /\ CloudReplies
  BY <1>1, CloudNextStep
<1>3. CloudExact' /\ Phase(d)' /\ CloudKept /\ CloudKept'
  BY <1>1, <1>2 DEF Step, CloudReplies, CloudHistory, CloudInv
<1>4. drow' = drow /\ drun' = drun /\ drejected' = drejected /\ dquiet' = dquiet
  BY DEF desktopVars
<1>5. ReplyStep(d, "up") /\ ReplyStep(d, "down")
  BY <1>1, <1>2, UpDown DEF CloudReplies
<1>6. up \in Calls /\ down \in Calls
  BY <1>1, UpDown DEF CloudTypeOK
<1>7. call'[d]["up"].items = up.items
  BY <1>5 DEF ReplyStep
<1>8. call'[d]["down"].st = "done" =>
         call'[d]["down"] = down \/ Fetched(call'[d]["down"].rows)
  BY <1>3, <1>5 DEF ReplyStep, Phase, NoCall
<1>9. call'[d]["up"].st = "done" =>
         \/ call'[d]["up"] = up
         \/ \A r \in call'[d]["up"].accepted :
               /\ cloud[r].rev < cloud'[r].rev
               /\ \E i \in up.items : i.id = r /\ i.val \in stored'[r]
  BY <1>3, <1>5 DEF ReplyStep, Phase, NoCall
<1>10. Batches(d)'
  <2>1. Batch(drun[d].rows)'
    <3>1. drun[d].rows \in SUBSET PulledRows /\ ExactRows(drun[d].rows)
      BY <1>1 DEF Runs, TypeInv, Instants
    <3>2. Batch(drun[d].rows)
      BY <1>1 DEF Desk, Batches
    <3> DEFINE rows == drun[d].rows
    <3>3. PICK b \in SUBSET PulledRows : b = rows
      BY <3>1
    <3>4. Batch(b)'
      BY <1>2, <1>3, <3>1, <3>2, <3>3, CloudKeepsBatch
    <3> QED
      BY <1>4, <3>3, <3>4
  <2>2. ASSUME call'[d]["down"].st = "done"
        PROVE  Batch(call[d]["down"].rows)'
    <3>1. CASE call'[d]["down"] = down
      <4>1. PICK b \in SUBSET PulledRows : b = down.rows
        BY <1>6 DEF Calls
      <4>2. ExactRows(b) /\ Batch(b)
        BY <1>1, <2>2, <3>1, <4>1 DEF Desk, Batches, TypeInv, Instants
      <4>3. Batch(b)'
        BY <1>2, <1>3, <4>2, CloudKeepsBatch
      <4> QED
        BY <3>1, <4>1, <4>3
    <3>2. CASE Fetched(call'[d]["down"].rows)
      <4>1. \A r \in Records : cloud'[r].rev \in Nat
        BY <1>3, StringsAre DEF CloudExact
      <4> QED
        BY <1>3, <3>2, <4>1 DEF Fetched, Batch, CloudKept
    <3> QED
      BY <1>8, <2>2, <3>1, <3>2
  <2> QED
    BY <1>4, <2>1, <2>2 DEF Batches
<1>11. Recorded(d)' /\ Applied(d)'
  BY <1>1, <1>4 DEF Desk, Recorded, Applied
<1>12. Known(d)'
  BY <1>2, <1>3, <1>4, CloudKeepsSettled DEF Known
<1>13. Uploaded(d) => Uploaded(d)'
  <2> SUFFICES ASSUME Uploaded(d) PROVE Uploaded(d)'
    OBVIOUS
  <2>1. \A r \in Records : Settled(d, r) => Settled(d, r)'
    BY <1>2, <1>3, <1>4, CloudKeepsSettled
  <2>2. \A r \in Records : Finished(d, r)' <=> Finished(d, r)
    BY <1>4 DEF Finished
  <2>3. ASSUME call'[d]["up"].st = "done", NEW r \in call'[d]["up"].accepted
        PROVE  Settled(d, r)'
    <3>1. CASE call'[d]["up"] = up
      <4>1. r \in Records
        BY <1>6, <2>3, <3>1 DEF Calls
      <4> QED
        BY <2>1, <2>3, <3>1, <4>1 DEF Uploaded
    <3>2. ASSUME cloud[r].rev < cloud'[r].rev,
                 NEW i \in up.items, i.id = r, i.val \in stored'[r]
          PROVE  Settled(d, r)'
      <4>1. r \in Records
        BY <1>6, <3>2 DEF Calls, Items
      <4>2. drow[d][r].val \in stored'[r]
        BY <3>2 DEF Uploaded
      <4> QED
        BY <1>2, <1>3, <1>4, <3>2, <4>1, <4>2, CloudKeepsSettled
    <3> QED
      BY <1>9, <2>3, <3>1, <3>2
  <2>4. ASSUME call'[d]["down"].st = "done"
        PROVE  Agrees(d, call[d]["down"].rows)'
    <3>1. CASE call'[d]["down"] = down
      BY <1>4, <2>4, <3>1 DEF Uploaded, Agrees, Finished
    <3>2. CASE Fetched(call'[d]["down"].rows)
      BY <1>4, <2>2, <3>2 DEF Fetched, Agrees, Uploaded, Settled
    <3> QED
      BY <1>8, <2>4, <3>1, <3>2
  <2>5. Agrees(d, drun[d].rows) => Agrees(d, drun[d].rows)'
    BY <1>4 DEF Agrees, Finished
  <2>6. \A q \in drun[d].rows : Finished(d, q.id)' <=> Finished(d, q.id)
    BY <1>4 DEF Finished
  <2> QED
    BY <1>4, <1>7, <2>1, <2>2, <2>3, <2>4, <2>5, <2>6 DEF Uploaded
<1> QED
  BY <1>1, <1>4, <1>10, <1>11, <1>12, <1>13 DEF Desk

LEMMA UnseenDesk ==
    ASSUME DeskInv, UNCHANGED cloudVars,
           UNCHANGED <<drow, drun, drejected, dquiet>>, NEW d \in Desktops
    PROVE  Desk(d)'
<1>1. Desk(d) /\ cloud' = cloud /\ stored' = stored /\ call' = call
  BY DEF DeskInv, cloudVars, serverVars
<1>2. Batches(d)' /\ Recorded(d)' /\ Known(d)' /\ Applied(d)'
  BY <1>1 DEF Desk, Batches, Batch, Recorded, Known, Applied
<1>3. Uploaded(d) => Uploaded(d)'
  BY <1>1 DEF Uploaded, Finished, Settled, Agrees
<1> QED
  BY <1>1, <1>2, <1>3 DEF Desk

LEMMA DeskStep ==
    ASSUME DeskInv, [Next]_vars
    PROVE  \A d \in Desktops : Desk(d)'
<1>1. CASE CloudNext /\ UNCHANGED desktopVars
  BY <1>1, CloudNextDesk
<1>2. CASE Upgrade
  BY <1>2, UnseenDesk DEF Upgrade
<1>3. ASSUME NEW d \in Desktops, DesktopNext(d)
      PROVE  \A e \in Desktops : Desk(e)'
  <2>1. Desk(d)'
    BY <1>3, EditDesk, PushBeginDesk, PushRepliedDesk, MarkRejectedDesk,
       PullBeginDesk, PullRepliedDesk, ApplyRemoteDesk, MarkSyncedDesk,
       SaveCursorDesk, SaveContractDesk, RunFailsDesk
    DEF DesktopNext
  <2>2. Only(d)
    BY <1>3, EditStep, PushBeginStep, PushRepliedStep, MarkRejectedStep,
       PullBeginStep, PullRepliedStep, ApplyRemoteStep, MarkSyncedStep,
       SaveCursorStep, SaveContractStep, RunFailsStep
    DEF DesktopNext, DeskInv
  <2> QED
    BY <2>1, <2>2, OnlyDesk
<1>4. CASE UNCHANGED vars
  BY <1>4, UnseenDesk DEF vars, desktopVars
<1> QED
  BY <1>1, <1>2, <1>3, <1>4 DEF Next

LEMMA DeskInvInit == Init => DeskInv
  BY InvInit, DeskInit DEF DeskInv

LEMMA DeskInvStep == DeskInv /\ [Next]_vars => DeskInv'
  BY TypeInvStep, DeskStep DEF DeskInv

(* On a desktop whose user never edits during a run, a row shown as synced *)
(* holds a content the cloud stored, for every number of desktops, records *)
(* and failures, and whatever the other desktops do: the marking of what   *)
(* was accepted errs only about edits made in between.                     *)
THEOREM QuietRowsAreUploaded == Spec => []QuietSyncedWasUploaded
<1>1. DeskInv => QuietSyncedWasUploaded
  BY DEF DeskInv, Desk, Uploaded, Finished, Settled, QuietSyncedWasUploaded
<1> QED
  BY <1>1, DeskInvInit, DeskInvStep, PTL DEF Spec

-----------------------------------------------------------------------------
(* What the run's last station asks of a step. *)
Covered ==
    \A d \in Desktops :
        /\ dexact'[d] # dexact[d] =>
            \A q \in drun[d].rows :
                /\ drow[d][q.id].st # "absent"
                /\ drow[d][q.id].rev >= Truncate(q.rev)
        /\ At(d, "save") /\ drun'[d].pc = "contract" /\ dquiet[d] =>
            \A q \in drun[d].rows :
                drow[d][q.id].st = "synced" => drow[d][q.id].val = q.val

LEMMA CursorStep ==
    ASSUME DeskInv, [Next]_vars
    PROVE  Covered
<1>1. ASSUME NEW d \in Desktops, dexact'[d] # dexact[d]
      PROVE  drun[d].pc = "save"
  <2>1. PICK e \in Desktops : DesktopNext(e)
    BY <1>1 DEF Next, desktopVars, vars, Upgrade
  <2>2. SaveCursor(e)
    BY <1>1, <2>1
    DEF DesktopNext, Edit, PushBegin, PushReplied, MarkRejected, PullBegin,
        PullReplied, ApplyRemote, MarkSynced, SaveContract, RunFails
  <2>3. e = d
    BY <1>1, <2>2, SaveCursorStep DEF DeskInv, Only
  <2> QED
    BY <2>2, <2>3 DEF SaveCursor, At
<1>2. ASSUME NEW d \in Desktops, drun[d].pc = "save"
      PROVE  /\ \A q \in drun[d].rows :
                   /\ drow[d][q.id].st # "absent"
                   /\ drow[d][q.id].rev >= Truncate(q.rev)
             /\ dquiet[d] => \A q \in drun[d].rows :
                   drow[d][q.id].st = "synced" => drow[d][q.id].val = q.val
  BY <1>2 DEF DeskInv, Desk, Applied, Uploaded, Finished
<1> QED
  BY <1>1, <1>2 DEF Covered, At

(* The cursor is saved over a batch that is in the rows, whatever fails    *)
(* and whatever the user edits meanwhile; and if the user does not, the    *)
(* rows of the batch that are shown as synced are as the cloud had them.   *)
THEOREM CursorFollowsRows == Spec => CursorAdvancesOverBatch
<1>1. DeskInv /\ [Next]_vars => [Covered]_vars
  BY CursorStep
<1>2. Spec => [][Covered]_vars
  BY <1>1, DeskInvInit, DeskInvStep, PTL DEF Spec
<1> QED
  BY <1>2 DEF CursorAdvancesOverBatch, Covered

(* A local change that another device's version replaces is on record. *)
OnRecord ==
    \A d \in Desktops, r \in Records :
        (/\ drow[d][r].st \in {"pending", "sync_error"}
         /\ ~(drow[d][r].val \subseteq drow'[d][r].val)
         /\ drow'[d][r].dev # d)
        => drow[d][r].val \in dconflict'[d][r] \/ r \in drejected'[d]

LEMMA ApplyRecords ==
    ASSUME DeskInv, NEW d \in Desktops, ApplyRemote(d), NEW r \in Records,
           drow[d][r].st \in {"pending", "sync_error"},
           drow'[d][r] # drow[d][r], drow'[d][r].dev # d
    PROVE  drow[d][r].val \in dconflict'[d][r] \/ r \in drejected'[d]
<1>1. TypeInv /\ DeskTypeOK /\ Desk(d)
  BY TypeParts DEF DeskInv, TypeInv
<1>2. drejected' = drejected /\ drow'[d][r] = Merged(d, r)
  BY <1>1, ApplyRemoteStep DEF ApplyRemote
<1>3. PICK q \in drun[d].rows : q.id = r
  BY <1>1, <1>2, MergedIs
<1>4. /\ Merged(d, r) = Adopt(q) /\ q \in PulledRows
      /\ q.rev \in Exacts /\ q.rev # NoRevision
  BY <1>2, <1>3, MergedOne
<1>5. (CHOOSE p \in drun[d].rows : p.id = r) = q
  <2>1. \A p \in drun[d].rows : p.id = q.id => p = q
    BY <1>1 DEF Desk, Batches, Batch
  <2>2. /\ (CHOOSE p \in drun[d].rows : p.id = r) \in drun[d].rows
        /\ (CHOOSE p \in drun[d].rows : p.id = r).id = r
    BY <1>3
  <2> QED
    BY <1>3, <2>1, <2>2
<1>6. CASE drow[d][r].st = "sync_error"
  BY <1>1, <1>2, <1>6 DEF Desk, Recorded
<1>7. CASE drow[d][r].st = "pending"
  <2>1. q.dev # d
    BY <1>2, <1>4, AdoptIs
  <2>2. q.rev # drow[d][r].rev
    BY <1>1, <1>4, StringsAre DEF TypeInv, Instants
  <2>3. Newer(q, drow[d][r])
    BY <1>2, <1>3, <1>5, <1>7 DEF Merged, ApplyRow
  <2>4. Logged(d, q, drow[d][r]) = {drow[d][r].val}
    BY <1>7, <2>1, <2>2, <2>3 DEF Logged, Conflicts
  <2>5. dconflict'[d][r] = dconflict[d][r] \cup Logged(d, q, drow[d][r])
    BY <1>1, <1>3, <1>5 DEF ApplyRemote, DeskTypeOK
  <2> QED
    BY <2>4, <2>5
<1> QED
  BY <1>6, <1>7

LEMMA OverwriteStep ==
    ASSUME DeskInv, [Next]_vars
    PROVE  OnRecord
<1> SUFFICES ASSUME NEW d \in Desktops, NEW r \in Records,
                    drow[d][r].st \in {"pending", "sync_error"},
                    ~(drow[d][r].val \subseteq drow'[d][r].val),
                    drow'[d][r].dev # d
             PROVE  drow[d][r].val \in dconflict'[d][r] \/ r \in drejected'[d]
  BY DEF OnRecord
<1>1. TypeInv /\ DeskTypeOK
  BY TypeParts DEF DeskInv, TypeInv
<1>2. drow'[d][r] # drow[d][r] /\ drow' # drow
  OBVIOUS
<1>3. PICK e \in Desktops : DesktopNext(e)
  BY <1>2 DEF Next, desktopVars, vars, Upgrade
<1>4. e = d
  <2>1. Only(e)
    BY <1>1, <1>3, EditStep, PushBeginStep, PushRepliedStep, MarkRejectedStep,
       PullBeginStep, PullRepliedStep, ApplyRemoteStep, MarkSyncedStep,
       SaveCursorStep, SaveContractStep, RunFailsStep
    DEF DesktopNext
  <2> QED
    BY <1>2, <2>1 DEF Only
<1>5. ASSUME NEW s \in Records, Edit(d, s)
      PROVE  FALSE
  BY <1>1, <1>5 DEF Edit, DeskTypeOK, Rows
<1>6. ASSUME MarkRejected(d) \/ MarkSynced(d)
      PROVE  FALSE
  <2>1. drow[d][r] \in Rows
    BY <1>1 DEF DeskTypeOK
  <2>2. MarkRejected(d) => drow'[d][r].val = drow[d][r].val
    BY <1>1, <2>1 DEF MarkRejected, DeskTypeOK, Rows
  <2>3. MarkSynced(d) => drow'[d][r].val = drow[d][r].val
    BY <1>1, <2>1 DEF MarkSynced, DeskTypeOK, Rows
  <2> QED
    BY <1>6, <2>2, <2>3
<1>7. ASSUME \/ PushBegin(d) \/ PushReplied(d) \/ PullBegin(d) \/ PullReplied(d)
             \/ SaveCursor(d) \/ SaveContract(d) \/ RunFails(d)
      PROVE  FALSE
  BY <1>2, <1>7
  DEF PushBegin, PushReplied, PullBegin, PullReplied, SaveCursor, SaveContract,
      RunFails
<1>8. ApplyRemote(d)
  BY <1>3, <1>4, <1>5, <1>6, <1>7 DEF DesktopNext
<1> QED
  BY <1>2, <1>8, ApplyRecords

(* A local change not in the cloud that another device's version replaces  *)
(* is in sync_conflicts or among the rejections: comparing the strings     *)
(* never takes a row of the cloud for the one the change was made on,      *)
(* because no string of the sidecar is one of the cloud.                   *)
THEOREM OverwritesAreRecorded == Spec => ForeignOverwriteIsRecorded
<1>1. DeskInv /\ [Next]_vars => [OnRecord]_vars
  BY OverwriteStep
<1>2. Spec => [][OnRecord]_vars
  BY <1>1, DeskInvInit, DeskInvStep, PTL DEF Spec
<1> QED
  BY <1>2 DEF ForeignOverwriteIsRecorded, OnRecord

-----------------------------------------------------------------------------
(* The scene "contract": one desktop alone with the cloud.                 *)

(* No other device has a call under way. *)
Alone(d) == \A e \in Devices, o \in Roles : e # d => call[e][o] = NoCall

(* A push that still commits gets a revision above this one. *)
Passed(until) ==
    /\ until <= Exact(clock)
    /\ \A q \in late : q.now = 0 \/ Exact(q.now) > until

(* No push commits below what the desktop downloaded. *)
Timely(d) ==
    /\ call[d]["down"].now <= clock
    /\ drun[d].pc = "pull" /\ call[d]["down"].st = "done" =>
          Passed(Exact(call[d]["down"].now))
    /\ drun[d].pc \in {"apply", "mark", "save", "contract"} => Passed(drun[d].cursor)

(* The rows are all that the cloud has up to the cursor. *)
Whole(rows, cursor) ==
    \A r \in Records : IsRow(cloud[r]) /\ cloud[r].rev <= cursor =>
        \E q \in rows : q.id = r /\ q.rev = cloud[r].rev

Reached(d) ==
    \A r \in Records : IsRow(cloud[r]) /\ cloud[r].rev <= drun[d].cursor =>
        drow[d][r].rev >= Truncate(cloud[r].rev)

(* A run that will record another contract downloads everything. *)
Renewing(d) ==
    drun[d].health # dcontract[d] =>
        /\ drun[d].pc = "pull" => call[d]["down"].since = NoRevision
        /\ drun[d].pc = "pull" /\ call[d]["down"].st = "done" =>
              Whole(call[d]["down"].rows, Exact(call[d]["down"].now))
        /\ drun[d].pc \in {"apply", "mark", "save"} => Whole(drun[d].rows, drun[d].cursor)
        /\ drun[d].pc = "contract" => Reached(d)

(* The rows up to here stay as they are. *)
StaysUpTo(until) ==
    \A r \in Records : cloud'[r] = cloud[r] \/ cloud'[r].rev > until

LEMMA WholeStays ==
    ASSUME DeskInv, CloudTypeOK', NEW until \in Nat, StaysUpTo(until), NEW rows,
           Whole(rows, until)
    PROVE  Whole(rows, until)'
<1> SUFFICES ASSUME NEW r \in Records, IsRow(cloud[r])', cloud'[r].rev <= until
             PROVE  \E q \in rows : q.id = r /\ q.rev = cloud'[r].rev
  BY DEF Whole
<1>1. cloud'[r].rev \in Nat
  BY DEF CloudTypeOK, CloudRows, Revisions
<1>2. cloud'[r] = cloud[r]
  BY <1>1 DEF StaysUpTo
<1> QED
  BY <1>2 DEF Whole, IsRow

LEMMA ReachedStays ==
    ASSUME DeskInv, CloudTypeOK', NEW d \in Desktops, Reached(d), drun' = drun, drow' = drow,
           StaysUpTo(drun[d].cursor)
    PROVE  Reached(d)'
<1> SUFFICES ASSUME NEW r \in Records, IsRow(cloud[r])', cloud'[r].rev <= drun[d].cursor
             PROVE  drow[d][r].rev >= Truncate(cloud'[r].rev)
  BY DEF Reached
<1>1. cloud'[r].rev \in Nat /\ drun[d].cursor \in Nat
  BY DEF DeskInv, TypeInv, DesktopTypeOK, CloudTypeOK, CloudRows, Runs, Revisions
<1>2. cloud'[r] = cloud[r]
  BY <1>1 DEF StaysUpTo
<1> QED
  BY <1>2 DEF Reached, IsRow

(* What a late push does beyond what is passed. *)
LEMMA LatePasses ==
    ASSUME DeskInv, NEW until \in Nat, Passed(until), NEW q \in late, ArriveLate(q) \/ RunLate(q)
    PROVE  Passed(until)' /\ StaysUpTo(until)
<1>1. clock \in Nat /\ \A p \in late : p.now \in Nat
  BY CloudAssumption DEF DeskInv, TypeInv, DesktopTypeOK, CloudTypeOK, LatePushes
<1>2. CASE ArriveLate(q)
  <2>1. Exact(clock + 1) > until /\ until <= Exact(clock')
    BY <1>1, <1>2 DEF Passed, Exact, ArriveLate
  <2>2. \A p \in late' : p \in late \/ p.now = clock + 1
    <3>1. [q EXCEPT !.now = clock + 1].now = clock + 1
      BY DEF DeskInv, TypeInv, DesktopTypeOK, CloudTypeOK, LatePushes
    <3> QED
      BY <1>2, <3>1 DEF ArriveLate
  <2> QED
    BY <1>2, <2>1, <2>2 DEF Passed, StaysUpTo, ArriveLate
<1>3. CASE RunLate(q)
  <2>1. Passed(until)'
    BY <1>3 DEF RunLate, Passed
  <2>2. \A r \in Records : cloud'[r] = cloud[r] \/ cloud'[r].rev = Exact(q.now)
    BY <1>3 DEF RunLate, Upsert
  <2> QED
    BY <1>3, <2>1, <2>2 DEF RunLate, Passed, StaysUpTo
<1> QED
  BY <1>2, <1>3

(* The steps of the cloud: one of the desktop's own call, or of a push it  *)
(* gave up on.                                                             *)
LEMMA LoneCloudIs ==
    ASSUME DeskInv, NEW d \in Desktops, Alone(d), CloudNext
    PROVE  \/ \E o \in Roles : Arrive(d, o) \/ RunPush(d, o) \/ RunPull(d, o)
           \/ \E q \in late : ArriveLate(q) \/ RunLate(q)
<1>1. NoCall.st = "idle" /\ NoCall.kind = "none"
  BY DEF NoCall
<1>2. ASSUME NEW e \in Devices, NEW o \in Roles, Arrive(e, o) \/ RunPush(e, o) \/ RunPull(e, o)
      PROVE  e = d
  BY <1>1, <1>2 DEF Alone, Arrive, RunPush, RunPull
<1> QED
  BY <1>2 DEF CloudNext

(* Beyond its push, the cloud moves above the download only. *)
LEMMA LoneCloud ==
    ASSUME DeskInv, NEW d \in Desktops, Alone(d), Timely(d), CloudNext, NoPushStraddles(d),
           UNCHANGED desktopVars
    PROVE  /\ Alone(d)' /\ Timely(d)'
           /\ drun[d].pc # "push" =>
                /\ call'[d]["down"] = call[d]["down"] =>
                     \A until \in Nat : Passed(until) => StaysUpTo(until)
                /\ call'[d]["down"] # call[d]["down"] =>
                     /\ drun[d].pc = "pull"
                     /\ call'[d]["down"].since = call[d]["down"].since
                     /\ cloud' = cloud
                     /\ call'[d]["down"].st = "done" =>
                          call'[d]["down"].rows =
                              RowsBetween(call[d]["down"].since, Exact(call'[d]["down"].now))
<1>1. /\ d \in Devices /\ "up" \in Roles /\ "down" \in Roles /\ "up" # "down"
      /\ call \in [Devices -> [Roles -> Calls]]
      /\ drun[d].pc # "push" => call[d]["up"] = NoCall
      /\ drun[d].pc # "pull" => call[d]["down"] = NoCall
      /\ drun[d].pc = "pull" => call[d]["down"].kind = "pull"
  BY DesktopsAreDevices DEF Roles, DeskInv, TypeInv, DesktopTypeOK, CloudTypeOK, Phase
<1>2. NoCall.st = "idle" /\ NoCall.kind = "none"
  BY DEF NoCall
<1>3. /\ clock \in Nat /\ call[d]["down"] \in Calls /\ call[d]["down"].now \in Nat
      /\ drun[d].cursor \in Nat /\ \A t \in Nat : Exact(t) \in Nat
  BY <1>1, CloudAssumption
  DEF DeskInv, TypeInv, DesktopTypeOK, CloudTypeOK, Calls, Runs, Revisions, Exact
<1>4. drun' = drun
  BY DEF desktopVars
<1>5. ASSUME NEW q \in late, ArriveLate(q) \/ RunLate(q)
      PROVE  /\ Alone(d)' /\ Timely(d)' /\ call' = call
             /\ \A until \in Nat : Passed(until) => StaysUpTo(until)
  <2>1. call' = call /\ clock' \in Nat /\ clock <= clock'
    BY <1>3, <1>5 DEF ArriveLate, RunLate
  <2>2. \A until \in Nat : Passed(until) => Passed(until)' /\ StaysUpTo(until)
    BY <1>5, LatePasses
  <2>3. call[d]["down"].now <= clock'
    BY <1>3, <2>1 DEF Timely
  <2> QED
    BY <1>3, <1>4, <2>1, <2>2, <2>3 DEF Alone, Timely
<1>6. ASSUME NEW o \in Roles, Arrive(d, o) \/ RunPush(d, o)
      PROVE  /\ Alone(d)' /\ Timely(d)'
             /\ drun[d].pc # "push" => cloud' = cloud /\ o = "down"
  <2>1. /\ late' = late /\ clock' \in Nat /\ clock <= clock'
        /\ \E c : call' = [call EXCEPT ![d][o] = c]
    BY <1>3, <1>6 DEF Arrive, RunPush
  <2>2. Alone(d)'
    BY <1>1, <2>1 DEF Alone
  <2>3. \A until \in Nat : Passed(until) => Passed(until)'
    BY <1>3, <2>1 DEF Passed, Exact
  <2>4. drun[d].pc # "push" => cloud' = cloud /\ o = "down"
    BY <1>1, <1>2, <1>6 DEF Arrive, RunPush, Roles
  <2>5. CASE o = "up"
    <3>1. call'[d]["down"] = call[d]["down"]
      BY <1>1, <2>1, <2>5
    <3>2. call[d]["down"].now <= clock'
      BY <1>3, <2>1 DEF Timely
    <3> QED
      BY <1>3, <1>4, <2>2, <2>3, <2>4, <3>1, <3>2 DEF Timely
  <2>6. CASE o = "down"
    <3>1. Arrive(d, "down") /\ drun[d].pc = "pull"
      BY <1>1, <1>2, <1>6, <2>6 DEF Arrive, RunPush
    <3>2. call'[d]["down"].st = "running" /\ call'[d]["down"].now <= clock'
      BY <1>1, <1>3, <3>1 DEF Arrive, Calls
    <3> QED
      BY <1>4, <2>2, <2>4, <3>1, <3>2 DEF Timely
  <2> QED
    BY <2>5, <2>6 DEF Roles
<1>7. ASSUME NEW o \in Roles, RunPull(d, o)
      PROVE  /\ Alone(d)' /\ Timely(d)' /\ o = "down" /\ drun[d].pc = "pull" /\ cloud' = cloud
             /\ call'[d]["down"].since = call[d]["down"].since
             /\ call'[d]["down"].rows =
                   RowsBetween(call[d]["down"].since, Exact(call'[d]["down"].now))
  <2>1. o = "down" /\ drun[d].pc = "pull"
    <3>1. o = "up" => call[d]["up"].kind # "pull"
      BY <1>2 DEF DeskInv, TypeInv, Phase
    <3> QED
      BY <1>1, <1>2, <1>7, <3>1 DEF RunPull, Roles
  <2>2. /\ call'[d]["down"].st = "done" /\ call'[d]["down"].now = call[d]["down"].now
        /\ call'[d]["down"].since = call[d]["down"].since
        /\ call'[d]["down"].rows = RowsBetween(call[d]["down"].since, Exact(call[d]["down"].now))
    BY <1>1, <1>3, <1>7, <2>1 DEF RunPull, Calls
  <2>3. /\ cloud' = cloud /\ clock' = clock /\ late' = late
        /\ \A e \in Devices, p \in Roles : e # d => call'[e][p] = call[e][p]
    BY <1>1, <1>7 DEF RunPull
  <2>4. \A q \in late : q.now \in Nat
    BY CloudAssumption DEF DeskInv, TypeInv, DesktopTypeOK, CloudTypeOK, LatePushes
  <2>5. Passed(Exact(call[d]["down"].now))'
    <3>1. \A q \in late : q.now = 0 \/ q.now > call[d]["down"].now
      BY <2>2, <2>3 DEF NoPushStraddles
    <3> QED
      BY <1>3, <2>2, <2>3, <2>4, <3>1 DEF Passed, Exact, Timely
  <2> QED
    BY <1>4, <2>1, <2>2, <2>3, <2>5 DEF Alone, Timely
<1>8. CASE \E q \in late : ArriveLate(q) \/ RunLate(q)
  BY <1>5, <1>8
<1>9. CASE \E o \in Roles : Arrive(d, o) \/ RunPush(d, o)
  <2>1. PICK o \in Roles : Arrive(d, o) \/ RunPush(d, o)
    BY <1>9
  <2>2. Alone(d)' /\ Timely(d)' /\ (drun[d].pc # "push" => cloud' = cloud /\ o = "down")
    BY <1>6, <2>1
  <2>3. ASSUME drun[d].pc # "push"
        PROVE  /\ call'[d]["down"].since = call[d]["down"].since
               /\ call'[d]["down"].st # "done" /\ drun[d].pc = "pull"
    <3>1. Arrive(d, "down") /\ drun[d].pc = "pull"
      BY <1>1, <1>2, <2>1, <2>2, <2>3 DEF Arrive, RunPush
    <3> QED
      BY <1>1, <1>3, <3>1 DEF Arrive, Calls
  <2> QED
    BY <2>2, <2>3 DEF StaysUpTo
<1>10. CASE \E o \in Roles : RunPull(d, o)
  BY <1>7, <1>10 DEF StaysUpTo
<1> QED
  BY <1>8, <1>9, <1>10, LoneCloudIs

LEMMA LoneDesktop ==
    ASSUME DeskInv, NEW d \in Desktops, Alone(d), DesktopNext(d)
    PROVE  Alone(d)'
<1>1. d \in Devices /\ call \in [Devices -> [Roles -> Calls]]
  BY DesktopsAreDevices DEF DeskInv, TypeInv, DesktopTypeOK, CloudTypeOK
<1>2. \/ call' = call
      \/ \E o \in Roles : \E c : call' = [call EXCEPT ![d][o] = c]
  BY UpDown
  DEF DesktopNext, Edit, MakeEdit, serverVars, cloudVars, PushBegin, PushReplied, MarkRejected,
      PullBegin, PullReplied, ApplyRemote, MarkSynced, SaveCursor, SaveContract, RunFails, Send,
      Finish, Abandon
<1>3. ASSUME NEW e \in Devices, NEW o \in Roles, e # d PROVE call'[e][o] = call[e][o]
  BY <1>1, <1>2, <1>3
<1> QED
  BY <1>3 DEF Alone

LEMMA TimelyDesk ==
    ASSUME DeskInv, NEW d \in Desktops, Timely(d), DesktopNext(d)
    PROVE  Timely(d)'
<1>1. /\ d \in Devices /\ "up" \in Roles /\ "down" \in Roles /\ "up" # "down"
      /\ call \in [Devices -> [Roles -> Calls]]
      /\ drun \in [Desktops -> Runs] /\ drun[d] \in Runs
      /\ clock \in Nat
  BY DesktopsAreDevices, CloudAssumption
  DEF Roles, DeskInv, TypeInv, DesktopTypeOK, CloudTypeOK
<1>0. clock' = clock
  BY DEF DesktopNext, Edit, MakeEdit, serverVars, cloudVars, PushBegin, PushReplied, MarkRejected,
      PullBegin, PullReplied, ApplyRemote, MarkSynced, SaveCursor, SaveContract, RunFails, Send,
      Finish, Abandon
<1>2. NoCall.now = 0 /\ \A since : PullCall(since).now = 0 /\ PullCall(since).st = "sent"
  BY DEF NoCall, PullCall
<1>3. ASSUME \E r \in Records : Edit(d, r) PROVE Timely(d)'
  BY <1>3 DEF Edit, MakeEdit, serverVars, Timely, Passed
<1>4. ASSUME PushBegin(d) \/ PushReplied(d) \/ MarkRejected(d) PROVE Timely(d)'
  <2>1. drun'[d].pc \in {"push", "reject", "cursor"}
    <3>1. CASE PushBegin(d)
      BY <1>1, <3>1 DEF PushBegin, NoRun
    <3>2. CASE PushReplied(d)
      BY <1>1, <3>2 DEF PushReplied, Runs
    <3>3. CASE MarkRejected(d)
      BY <1>1, <3>3 DEF MarkRejected, Goto, Runs
    <3> QED
      BY <1>4, <3>1, <3>2, <3>3
  <2>2. call'[d]["down"] = call[d]["down"]
    BY <1>1, <1>4 DEF PushBegin, PushReplied, MarkRejected, Send, Finish, cloudVars, serverVars
  <2> QED
    BY <1>0, <1>1, <2>1, <2>2 DEF Timely
<1>5. CASE PullBegin(d)
  <2>1. drun'[d].pc = "pull"
    BY <1>1, <1>5 DEF PullBegin, Goto, Runs
  <2>2. call'[d]["down"].now = 0 /\ call'[d]["down"].st = "sent"
    BY <1>1, <1>2, <1>5 DEF PullBegin, Send
  <2> QED
    BY <1>0, <1>1, <2>1, <2>2 DEF Timely
<1>6. CASE PullReplied(d)
  <2>1. /\ drun[d].pc = "pull" /\ call[d]["down"].st = "done"
        /\ drun'[d].pc \in {"apply", "mark"}
        /\ drun'[d].cursor = Exact(call[d]["down"].now)
        /\ late' = late
    BY <1>1, <1>6 DEF PullReplied, At, Replied, Finish, Send, Runs
  <2>2. call'[d]["down"].now = 0
    BY <1>1, <1>2, <1>6 DEF PullReplied, Finish, Send
  <2> QED
    BY <1>0, <1>1, <2>1, <2>2 DEF Timely, Passed
<1>7. ASSUME ApplyRemote(d) \/ MarkSynced(d) \/ SaveCursor(d) PROVE Timely(d)'
  <2>1. /\ drun[d].pc \in {"apply", "mark", "save"}
        /\ drun'[d].pc \in {"mark", "save", "contract"}
        /\ drun'[d].cursor = drun[d].cursor /\ call' = call /\ late' = late
    BY <1>1, <1>7 DEF ApplyRemote, MarkSynced, SaveCursor, At, Goto, Runs, cloudVars, serverVars
  <2> QED
    BY <1>0, <1>1, <2>1 DEF Timely, Passed
<1>8. CASE SaveContract(d)
  BY <1>0, <1>1, <1>8 DEF SaveContract, NoRun, Timely, cloudVars, serverVars
<1>9. CASE RunFails(d)
  <2>1. drun'[d].pc = "idle"
    BY <1>1, <1>9 DEF RunFails, NoRun
  <2>2. call'[d]["down"].now = call[d]["down"].now \/ call'[d]["down"].now = 0
    BY <1>1, <1>2, <1>9 DEF RunFails, Abandon
  <2> QED
    BY <1>0, <1>1, <2>1, <2>2 DEF Timely
<1> QED
  BY <1>3, <1>4, <1>5, <1>6, <1>7, <1>8, <1>9 DEF DesktopNext

(* A full download has every row up to its cursor. *)
LEMMA WholeIs ==
    ASSUME DeskInv, NEW until
    PROVE  Whole(RowsBetween(NoRevision, until), until)
<1> SUFFICES ASSUME NEW r \in Records, IsRow(cloud[r]), cloud[r].rev <= until
             PROVE  \E q \in RowsBetween(NoRevision, until) : q.id = r /\ q.rev = cloud[r].rev
  BY DEF Whole
<1> DEFINE q == [id |-> r, val |-> cloud[r].val, rev |-> cloud[r].rev, dev |-> cloud[r].dev]
<1>1. cloud[r].rev > NoRevision
  <2>1. cloud[r].rev \in Revisions
    BY DEF DeskInv, TypeInv, DesktopTypeOK, CloudTypeOK, CloudRows
  <2> QED
    BY <2>1, TicksAssumption, CloudAssumption DEF Revisions, IsRow, NoRevision
<1>2. q \in RowsBetween(NoRevision, until)
  BY <1>1 DEF RowsBetween
<1> QED
  BY <1>2

LEMMA RenewingRests ==
    ASSUME NEW d \in Desktops, Renewing(d), drun'[d] = drun[d], dcontract'[d] = dcontract[d],
           cloud' = cloud, call'[d]["down"] = call[d]["down"],
           \A r \in Records : drow'[d][r].rev = drow[d][r].rev
    PROVE  Renewing(d)'
  BY DEF Renewing, Whole, Reached

LEMMA RenewingCloud ==
    ASSUME DeskInv, CloudTypeOK', NEW d \in Desktops, Alone(d), Timely(d), Renewing(d), CloudNext,
           UNCHANGED desktopVars, NoPushStraddles(d)
    PROVE  Alone(d)' /\ Timely(d)' /\ Renewing(d)'
<1>1. drun' = drun /\ dcontract' = dcontract /\ drow' = drow
  BY DEF desktopVars
<1>2. /\ Alone(d)' /\ Timely(d)'
      /\ drun[d].pc # "push" =>
           /\ call'[d]["down"] = call[d]["down"] =>
                \A until \in Nat : Passed(until) => StaysUpTo(until)
           /\ call'[d]["down"] # call[d]["down"] =>
                /\ drun[d].pc = "pull"
                /\ call'[d]["down"].since = call[d]["down"].since
                /\ cloud' = cloud
                /\ call'[d]["down"].st = "done" =>
                     call'[d]["down"].rows =
                         RowsBetween(call[d]["down"].since, Exact(call'[d]["down"].now))
  BY LoneCloud
<1>3. CASE drun[d].pc = "push"
  <2>1. drun'[d].pc = "push"
    BY <1>1, <1>3
  <2> QED
    BY <1>2, <2>1 DEF Renewing
<1>4. CASE drun[d].pc # "push" /\ call'[d]["down"] = call[d]["down"]
  <2>1. Exact(call[d]["down"].now) \in Nat /\ drun[d].cursor \in Nat
    <3>1. /\ call[d]["down"] \in Calls /\ drun[d] \in Runs
      BY DesktopsAreDevices DEF Roles, DeskInv, TypeInv, DesktopTypeOK, CloudTypeOK
    <3> QED
      BY <3>1, CloudAssumption DEF Calls, Runs, Revisions, Exact
  <2>2. \A rows : \A until \in Nat : Passed(until) /\ Whole(rows, until) => Whole(rows, until)'
    BY <1>2, <1>4, WholeStays
  <2>3. Passed(drun[d].cursor) /\ Reached(d) => Reached(d)'
    BY <1>1, <1>2, <1>4, <2>1, ReachedStays
  <2> QED
    BY <1>1, <1>2, <1>4, <2>1, <2>2, <2>3 DEF Renewing, Timely
<1>5. CASE drun[d].pc # "push" /\ call'[d]["down"] # call[d]["down"]
  <2>0. PICK until, rows : /\ until = Exact(call'[d]["down"].now)
                           /\ rows = RowsBetween(NoRevision, until)
    OBVIOUS
  <2>1. Whole(rows, until) /\ cloud' = cloud /\ drun[d].pc = "pull"
    BY <1>2, <1>5, <2>0, WholeIs
  <2>2. drun[d].health # dcontract[d] =>
          /\ call'[d]["down"].since = NoRevision
          /\ call'[d]["down"].st = "done" => call'[d]["down"].rows = rows
    BY <1>2, <1>5, <2>0, <2>1 DEF Renewing
  <2>3. Whole(rows, until)'
    BY <2>1 DEF Whole
  <2> QED
    BY <1>1, <1>2, <2>0, <2>1, <2>2, <2>3 DEF Renewing
<1> QED
  BY <1>2, <1>3, <1>4, <1>5

LEMMA RenewingPullBegin ==
    ASSUME DeskInv, NEW d \in Desktops, PullBegin(d)
    PROVE  Renewing(d)'
<1>1. /\ d \in Devices /\ "down" \in Roles /\ call \in [Devices -> [Roles -> Calls]]
      /\ drun \in [Desktops -> Runs] /\ drun[d] \in Runs
  BY DesktopsAreDevices DEF Roles, DeskInv, TypeInv, DesktopTypeOK, CloudTypeOK
<1>2. drun'[d].pc = "pull" /\ drun'[d].health = drun[d].health /\ dcontract' = dcontract
  BY <1>1 DEF PullBegin, Goto, Runs
<1>3. drun[d].health # dcontract[d] => call'[d]["down"] = PullCall(NoRevision)
  BY <1>1 DEF PullBegin, Send
<1> QED
  BY <1>2, <1>3 DEF Renewing, PullCall, NoCall

LEMMA RenewingPullReplied ==
    ASSUME DeskInv, NEW d \in Desktops, Renewing(d), PullReplied(d)
    PROVE  Renewing(d)'
<1>1. drun \in [Desktops -> Runs] /\ drun[d] \in Runs
  BY DEF DeskInv, TypeInv, DesktopTypeOK
<1>2. /\ drun[d].pc = "pull" /\ call[d]["down"].st = "done"
      /\ drun'[d].pc \in {"apply", "mark"} /\ drun'[d].health = drun[d].health
      /\ drun'[d].rows = call[d]["down"].rows
      /\ drun'[d].cursor = Exact(call[d]["down"].now)
      /\ dcontract' = dcontract /\ cloud' = cloud
  BY <1>1 DEF PullReplied, At, Replied, Finish, Send, Runs
<1> QED
  BY <1>2 DEF Renewing, Whole

(* The stations between the download and the end keep the batch.           *)
LEMMA RenewingMoves ==
    ASSUME DeskInv, NEW d \in Desktops, Renewing(d),
           ApplyRemote(d) \/ MarkSynced(d) \/ SaveCursor(d)
    PROVE  Renewing(d)'
<1>1. drun \in [Desktops -> Runs] /\ drun[d] \in Runs
  BY DEF DeskInv, TypeInv, DesktopTypeOK
<1>2. /\ drun[d].pc \in {"apply", "mark", "save"}
      /\ drun'[d].health = drun[d].health /\ drun'[d].rows = drun[d].rows
      /\ drun'[d].cursor = drun[d].cursor
      /\ drun'[d].pc = "contract" => drun[d].pc = "save" /\ drow' = drow
      /\ drun'[d].pc \in {"mark", "save", "contract"}
      /\ dcontract' = dcontract /\ cloud' = cloud
  BY <1>1 DEF ApplyRemote, MarkSynced, SaveCursor, At, Goto, Runs, cloudVars, serverVars
<1>3. drun[d].health # dcontract[d] =>
        Whole(drun[d].rows, drun[d].cursor) /\ Whole(drun[d].rows, drun[d].cursor)'
  BY <1>2 DEF Renewing, Whole
<1>4. ASSUME drun[d].health # dcontract[d], drun'[d].pc = "contract" PROVE Reached(d)'
  <2>1. \A q \in drun[d].rows : drow[d][q.id].rev >= Truncate(q.rev)
    BY <1>2, <1>4 DEF DeskInv, Desk, Applied
  <2> QED
    BY <1>2, <1>3, <1>4, <2>1 DEF Reached, Whole
<1> QED
  BY <1>2, <1>3, <1>4 DEF Renewing, Whole

LEMMA RenewingDesk ==
    ASSUME DeskInv, NEW d \in Desktops, Renewing(d), DesktopNext(d)
    PROVE  Renewing(d)'
<1>1. drun \in [Desktops -> Runs] /\ drow \in [Desktops -> [Records -> Rows]]
  BY DEF DeskInv, TypeInv, DesktopTypeOK
<1>2. ASSUME NEW r \in Records, Edit(d, r) PROVE Renewing(d)'
  <2>1. /\ drun' = drun /\ dcontract' = dcontract /\ cloud' = cloud /\ call' = call
        /\ drow' = [drow EXCEPT ![d][r].val = @ \cup {NewEdit}, ![d][r].st = "pending"]
    BY <1>2 DEF Edit, MakeEdit, serverVars
  <2>2. \A s \in Records : drow'[d][s].rev = drow[d][s].rev
    BY <1>1, <2>1 DEF Rows
  <2> QED
    BY <2>1, <2>2, RenewingRests
<1>3. ASSUME PushBegin(d) \/ PushReplied(d) \/ MarkRejected(d) PROVE Renewing(d)'
  <2>1. drun'[d].pc \in {"push", "reject", "cursor"}
    <3>1. CASE PushBegin(d)
      BY <1>1, <3>1 DEF PushBegin, NoRun
    <3>2. CASE PushReplied(d)
      BY <1>1, <3>2 DEF PushReplied, Runs
    <3>3. CASE MarkRejected(d)
      BY <1>1, <3>3 DEF MarkRejected, Goto, Runs
    <3> QED
      BY <1>3, <3>1, <3>2, <3>3
  <2> QED
    BY <2>1 DEF Renewing
<1>4. ASSUME SaveContract(d) \/ RunFails(d) PROVE Renewing(d)'
  <2>1. drun'[d].pc = "idle"
    BY <1>1, <1>4 DEF SaveContract, RunFails, NoRun
  <2> QED
    BY <2>1 DEF Renewing
<1> QED
  BY <1>2, <1>3, <1>4, RenewingPullBegin, RenewingPullReplied, RenewingMoves DEF DesktopNext

(* A step of the scene "contract". *)
LoneInv == scene = "contract" => Alone(1) /\ Timely(1) /\ Renewing(1)

LEMMA LoneStep ==
    ASSUME DeskInv, DeskInv', LoneInv, scene = "contract", SceneNext
    PROVE  LoneInv' /\ CatchesUp
<1>1. /\ 1 \in Desktops /\ Alone(1) /\ Timely(1) /\ Renewing(1) /\ NoPushStraddles(1)
      /\ (CloudNext /\ UNCHANGED desktopVars) \/ Upgrade \/ DesktopNext(1)
  BY LoneAssumption DEF LoneInv, SceneNext
<1>2. CASE CloudNext /\ UNCHANGED desktopVars
  <2>1. CloudTypeOK'
    BY DEF DeskInv, TypeInv, DesktopTypeOK
  <2> QED
    BY <1>1, <1>2, <2>1, RenewingCloud DEF LoneInv, CatchesUp, desktopVars
<1>3. CASE Upgrade
  <2>1. /\ drun' = drun /\ dcontract' = dcontract /\ drow' = drow
        /\ cloud' = cloud /\ call' = call /\ late' = late /\ clock' = clock
    BY <1>3 DEF Upgrade, cloudVars, serverVars
  <2>2. Renewing(1)'
    BY <1>1, <2>1, RenewingRests
  <2> QED
    BY <1>1, <2>1, <2>2 DEF LoneInv, CatchesUp, Alone, Timely, Passed
<1>4. CASE DesktopNext(1)
  <2>1. Alone(1)' /\ Timely(1)' /\ Renewing(1)'
    BY <1>1, <1>4, LoneDesktop, TimelyDesk, RenewingDesk
  <2>2. ASSUME NEW d \in Desktops, dcontract'[d] # dcontract[d]
        PROVE  d = 1 /\ drun[1].pc = "contract" /\ drun[1].health # dcontract[1]
    <3>1. SaveContract(1)
      BY <1>4, <2>2
      DEF DesktopNext, Edit, PushBegin, PushReplied, MarkRejected, PullBegin,
          PullReplied, ApplyRemote, MarkSynced, SaveCursor, RunFails
    <3>2. dcontract \in [Desktops -> 0..MaxContract]
      BY DEF DeskInv, TypeInv, DesktopTypeOK
    <3> QED
      BY <1>1, <2>2, <3>1, <3>2 DEF SaveContract, At
  <2>3. CatchesUp
    BY <1>1, <2>2 DEF CatchesUp, Renewing, Reached
  <2> QED
    BY <2>1, <2>3 DEF LoneInv
<1> QED
  BY <1>1, <1>2, <1>3, <1>4

(* Every scene's step is one of the desktops, or leaves them alone. *)
LEMMA SceneIsNext == SceneNext => [Next]_vars
  BY LoneAssumption DEF SceneNext, Next

(* When the lone desktop of the scene "contract" records another contract, *)
(* every row of the cloud up to its cursor is in its database at that      *)
(* revision or a newer one: the full download of runSyncWithReason makes   *)
(* good what earlier cursors skipped.  The scene bounds nothing but by the *)
(* constants, so this is for any number of records, edits, upgrades,       *)
(* failed runs and late pushes; the one thing it excludes is a late push   *)
(* that commits across the answer of the download (NoPushStraddles).       *)
THEOREM RenewalsCatchUp == SceneSpec => ContractChangeCatchesUp
<1>1. SceneInit => DeskInv /\ LoneInv
  <2>1. SceneInit => DeskInv
    BY DeskInvInit DEF SceneInit
  <2>2. SceneInit => LoneInv
    <3>1. SceneInit => Alone(1) /\ Renewing(1)
      BY LoneAssumption, NoRunIsRun DEF SceneInit, Init, CloudInit, DesktopInit, Alone, Renewing
    <3>2. SceneInit => Timely(1)
      BY LoneAssumption, DesktopsAreDevices, UpDown
      DEF SceneInit, Init, CloudInit, DesktopInit, Timely, NoCall, NoRun
    <3> QED
      BY <3>1, <3>2 DEF LoneInv
  <2> QED
    BY <2>1, <2>2
<1>2. DeskInv /\ LoneInv /\ [SceneNext]_sceneVars =>
        DeskInv' /\ LoneInv' /\ [scene = "contract" => CatchesUp]_sceneVars
  <2> SUFFICES ASSUME DeskInv, LoneInv, [SceneNext]_sceneVars
               PROVE  DeskInv' /\ LoneInv' /\ [scene = "contract" => CatchesUp]_sceneVars
    OBVIOUS
  <2>1. DeskInv'
    BY SceneIsNext, DeskInvStep DEF sceneVars
  <2>2. CASE UNCHANGED sceneVars
    <3>1. /\ scene' = scene /\ late' = late /\ call' = call /\ cloud' = cloud /\ clock' = clock
          /\ drun' = drun /\ dcontract' = dcontract /\ drow' = drow
      BY <2>2 DEF sceneVars, vars, cloudVars, serverVars, desktopVars
    <3>2. (Alone(1) => Alone(1)') /\ (Timely(1) => Timely(1)')
      BY <3>1 DEF Alone, Timely, Passed
    <3>3. Renewing(1) => Renewing(1)'
      BY <3>1, LoneAssumption, RenewingRests
    <3> QED
      BY <2>1, <2>2, <3>1, <3>2, <3>3 DEF LoneInv
  <2>3. CASE SceneNext /\ scene = "contract"
    BY <2>1, <2>3, LoneStep
  <2>4. CASE SceneNext /\ scene # "contract"
    BY <2>1, <2>4 DEF SceneNext, LoneInv
  <2> QED
    BY <2>1, <2>2, <2>3, <2>4
<1>3. QED
  BY <1>1, <1>2, PTL DEF SceneSpec, ContractChangeCatchesUp

-----------------------------------------------------------------------------
(* PlayReconciliation *)

Bodies == [version : Nat, acked : BOOLEAN]
PlaySteps == {"idle", "proves", "asks", "claims", "fetches", "stores", "acks", "checks", "saves"}
PlayCalls == [step : PlaySteps, p : Purchases \cup {None}, user : Accounts \cup {None},
              system : BOOLEAN, event : Nat, early : BOOLEAN, body : Bodies \cup {None},
              closed : BOOLEAN]

PlayTypeOK ==
  /\ at \in [Purchases -> Nat]
  /\ account \in [Accounts -> {"open", "deleted"}]
  /\ bound \in [Accounts -> {"no", "user", "closed"}]
  /\ record \in [Purchases -> PurchaseRecords \cup {None}]
  /\ latest \in [Purchases -> Reconciliations \cup {None}]
  /\ watermark \in [Purchases -> Nat]
  /\ plan \in [Accounts -> {"free", "premium"}]
  /\ calls \in [Reconciliations -> PlayCalls]

(* What is recorded of a purchase was so at Google, and is the buyer's      *)
(* while the buyer is there.                                                *)
RecordOK(p) ==
  record[p] # None =>
    /\ record[p].version <= at[p]
    /\ record[p].acked => p \in confirmed
    /\ record[p].owner # None => record[p].owner = Buyer[p] /\ account[Buyer[p]] = "open"

(* What a reconciliation knows: the answer it has was Google's; who it is  *)
(* for is the buyer, once it may write; and without one the purchase is    *)
(* recorded or its account is closed.                                      *)
CallOK(k) ==
  k.step # "idle" =>
    /\ k.p \in Purchases
    /\ k.body # None => k.body.version <= at[k.p] /\ (k.body.acked => k.p \in confirmed)
    /\ k.step = "stores" => k.body # None
    /\ k.early => k.step \notin {"proves", "asks", "fetches"}
    /\ k.step = "claims" /\ k.early => k.body # None
    /\ k.step = "saves" => k.body # None /\ k.body.acked
    /\ k.closed => account[Buyer[k.p]] = "deleted"
    /\ k.step \in {"claims", "fetches", "stores"} /\ k.user = None =>
         record[k.p] # None \/ k.closed
    /\ k.step \in {"claims", "fetches", "stores"} /\ k.user # None =>
         \/ k.user = Buyer[k.p]
         \/ k.step = "claims" /\ ~k.system /\ record[k.p] # None
    /\ k.step \in {"acks", "checks", "saves"} => record[k.p] # None /\ k.user = Buyer[k.p]

(* Nobody has written since the last claim but its own call: the answer    *)
(* that call asked for afterwards is not older than the record.            *)
NotOlder(k, c) ==
  k.step = "saves" \/ (k.step = "stores" /\ ~k.early) =>
    (latest[k.p] = c /\ record[k.p] # None => record[k.p].version <= k.body.version)

CallsOK ==
  \A c \in Reconciliations : \A k \in PlayCalls : k = calls[c] => CallOK(k) /\ NotOlder(k, c)

PlayInv ==
  /\ PlayTypeOK
  /\ \A p \in Purchases : RecordOK(p)
  /\ CallsOK
  /\ \A a \in Accounts : bound[a] = "closed" => account[a] = "deleted"
  /\ \A a \in Accounts : plan[a] = Play!PlanOf(a, record)

(* The action that KnownStays speaks of. *)
KnownHolds ==
  \A p \in Purchases : record[p] # None =>
    /\ record'[p] # None
    /\ record[p].acked => record'[p].acked
    /\ record'[p].owner \in {record[p].owner, None}
    /\ \/ record'[p].version >= record[p].version
       \/ \E c \in Reconciliations : calls[c].early /\ latest[p] = c /\ calls[c].step = "stores"

LEMMA PlayConstants ==
  /\ Buyer \in [Purchases -> Accounts]
  /\ Previous \in [Purchases -> Purchases \cup {None}]
  /\ \A p \in Purchases : Previous[p] # p
  /\ None \notin Accounts /\ None \notin Purchases /\ None \notin PurchaseRecords
  /\ None \notin Bodies
<1>1. Buyer \in [Purchases -> Accounts]
  BY PlayAssumption DEF Buyer
<1>2. Previous \in [Purchases -> Purchases \cup {None}] /\ \A p \in Purchases : Previous[p] # p
  BY PlayAssumption DEF Previous, Purchases
<1>3. QED
  BY <1>1, <1>2, PlayAssumption DEF Purchases, Bodies

LEMMA PlayStarts == ASSUME Play!Init PROVE PlayInv
<1>1. PlayTypeOK
  BY DEF Play!Init, PlayTypeOK, Play!Idle, PlayCalls, PlaySteps
<1>2. \A p \in Purchases : RecordOK(p)
  BY DEF Play!Init, RecordOK
<1>3. CallsOK
  BY DEF Play!Init, CallsOK, CallOK, NotOlder, Play!Idle
<1>4. \A a \in Accounts : bound[a] = "closed" => account[a] = "deleted"
  BY DEF Play!Init
<1>5. \A a \in Accounts : plan[a] = Play!PlanOf(a, record)
  BY DEF Play!Init, Play!PlanOf
<1>6. QED
  BY <1>1, <1>2, <1>3, <1>4, <1>5 DEF PlayInv

LEMMA PlayIsSound ==
  ASSUME PlayInv
  PROVE  Play!PremiumIsConfirmed
<1>1. ASSUME NEW a \in Accounts, plan[a] = "premium"
      PROVE  \E p \in Purchases : Buyer[p] = a /\ p \in confirmed
  <2>1. PICK p \in Purchases : record[p] # None /\ record[p].owner = a /\ record[p].acked
    BY <1>1 DEF PlayInv, Play!PlanOf
  <2>2. QED
    BY <2>1, PlayConstants DEF PlayInv, RecordOK
<1>2. \A p \in Purchases : Play!Kept(p) => account[record[p].owner] = "open"
  BY DEF PlayInv, RecordOK, Play!Kept
<1>3. QED
  BY <1>1, <1>2 DEF PlayInv, Play!PremiumIsConfirmed

(* What is known only grows. *)
Grows ==
  /\ \A p \in Purchases : /\ at'[p] >= at[p]
                          /\ record[p] # None => record'[p] # None
  /\ confirmed \subseteq confirmed'
  /\ \A a \in Accounts : account[a] = "deleted" => account'[a] = "deleted"

LEMMA CallStays ==
  ASSUME PlayTypeOK, PlayTypeOK', Grows, NEW k \in PlayCalls, CallOK(k)
  PROVE  CallOK(k)'
<1>1. k.body # None => k.body.version \in Nat
  BY DEF PlayCalls, Bodies
<1>2. CASE k.step = "idle"
  BY <1>2 DEF CallOK
<1>3. CASE k.step # "idle"
  <2>1. /\ k.p \in Purchases /\ Buyer[k.p] \in Accounts
        /\ at[k.p] \in Nat /\ at'[k.p] \in Nat /\ at'[k.p] >= at[k.p]
        /\ k.p \in confirmed => k.p \in confirmed'
        /\ record[k.p] # None => record'[k.p] # None
        /\ account[Buyer[k.p]] = "deleted" => account'[Buyer[k.p]] = "deleted"
    BY <1>3, PlayConstants DEF CallOK, Grows, PlayTypeOK
  <2>2. QED
    BY <1>1, <1>3, <2>1 DEF CallOK
<1>4. QED
  BY <1>2, <1>3

(* One call goes on as k; purchases and the claims on them are as they were. *)
LEMMA CallGoes ==
  ASSUME PlayInv, NEW c \in Reconciliations, NEW k \in PlayCalls,
         calls' = [calls EXCEPT ![c] = k],
         UNCHANGED <<course, at, account, bound, record, plan>>,
         confirmed \subseteq confirmed',
         latest' \in [Purchases -> Reconciliations \cup {None}],
         watermark' \in [Purchases -> Nat],
         \A p \in Purchases : latest'[p] \in {latest[p], c},
         CallOK(k)', NotOlder(k, c)'
  PROVE  PlayInv' /\ KnownHolds
<1>1. PlayTypeOK'
  BY DEF PlayInv, PlayTypeOK
<1>2. Grows
  BY DEF Grows, PlayInv, PlayTypeOK
<1>3. calls'[c] = k /\ \A d \in Reconciliations \ {c} : calls'[d] = calls[d]
  BY DEF PlayInv, PlayTypeOK
<1>4. ASSUME NEW d \in Reconciliations, NEW x \in PlayCalls, x = calls'[d], d # c
      PROVE  CallOK(x)' /\ NotOlder(x, d)'
  <2>1. x = calls[d] /\ CallOK(x) /\ NotOlder(x, d)
    BY <1>3, <1>4 DEF PlayInv, CallsOK
  <2>2. CallOK(x)'
    BY <1>1, <1>2, <2>1, CallStays DEF PlayInv
  <2>3. NotOlder(x, d)'
    BY <1>4, <2>1 DEF NotOlder, CallOK
  <2>4. QED
    BY <2>2, <2>3
<1>5. CallsOK'
  BY <1>3, <1>4 DEF CallsOK
<1>6. \A p \in Purchases : RecordOK(p)'
  BY DEF PlayInv, RecordOK
<1>7. \A a \in Accounts : /\ bound'[a] = "closed" => account'[a] = "deleted"
                          /\ plan'[a] = Play!PlanOf(a, record)'
  BY DEF PlayInv, Play!PlanOf, Play!StatusOf
<1>8. KnownHolds
  <2>1. \A p \in Purchases : record[p] # None => record[p].version \in Nat
    BY DEF PlayInv, PlayTypeOK, PurchaseRecords
  <2>2. QED
    BY <2>1 DEF KnownHolds
<1>9. QED
  BY <1>1, <1>5, <1>6, <1>7, <1>8 DEF PlayInv

LEMMA CallIs ==
  ASSUME PlayInv, NEW c \in Reconciliations
  PROVE  /\ calls[c] \in PlayCalls /\ CallOK(calls[c]) /\ NotOlder(calls[c], c)
         /\ calls[c].step # "idle" => calls[c].p \in Purchases
<1>1. calls[c] \in PlayCalls
  BY DEF PlayInv, PlayTypeOK
<1>2. QED
  BY <1>1 DEF PlayInv, CallsOK, CallOK

(* A call that ends says nothing any more. *)
LEMMA CallEnds ==
  ASSUME PlayInv, NEW c \in Reconciliations, Play!Ends(c),
         UNCHANGED <<course, at, account, bound, record, plan, latest, watermark, confirmed>>
  PROVE  PlayInv' /\ KnownHolds
<1>1. Play!Idle \in PlayCalls /\ CallOK(Play!Idle)' /\ NotOlder(Play!Idle, c)'
  BY DEF Play!Idle, PlayCalls, PlaySteps, CallOK, NotOlder
<1>2. calls' = [calls EXCEPT ![c] = Play!Idle]
  BY DEF Play!Ends, Play!Set
<1>3. latest' \in [Purchases -> Reconciliations \cup {None}] /\ watermark' \in [Purchases -> Nat]
  BY DEF PlayInv, PlayTypeOK
<1>4. QED
  BY <1>1, <1>2, <1>3, CallGoes

LEMMA BeginStep ==
  ASSUME PlayInv, NEW c \in Reconciliations, NEW p \in Purchases,
         NEW user \in Accounts \cup {None}, NEW event \in Nat,
         NEW unknown \in {"proves", "asks", "claims"},
         unknown = "claims" => record[p] # None,
         Play!Begin(c, p, user, event, unknown)
  PROVE  PlayInv' /\ KnownHolds
<1>1. UNCHANGED <<course, at, confirmed, account, bound, record, latest, watermark, plan>>
  BY DEF Play!Begin, Play!googleVars
<1>2. PICK step \in {"proves", "asks", "claims"} :
        step = IF record[p] = None THEN unknown ELSE "claims"
  OBVIOUS
<1>3. PICK system \in BOOLEAN : system <=> user = None
  OBVIOUS
<1>4. PICK k \in PlayCalls :
        k = [Play!Idle EXCEPT !.step = step, !.p = p, !.user = user, !.system = system,
                              !.event = event]
  BY DEF PlayCalls, PlaySteps, Play!Idle
<1>5. k.step \in {"proves", "asks", "claims"} /\ (k.step = "claims" => record[k.p] # None)
      /\ k.p \in Purchases /\ k.body = None /\ k.early = FALSE /\ k.closed = FALSE
      /\ (k.system <=> k.user = None)
  BY <1>2, <1>3, <1>4 DEF Play!Idle
<1>6. calls' = [calls EXCEPT ![c] = k]
  <2>1. [Play!Idle EXCEPT !.step = IF record[p] = None THEN unknown ELSE "claims",
                          !.p = p, !.user = user, !.system = user = None,
                          !.event = event] = k
    <3>1. (user = None) = system
      BY <1>3
    <3>2. QED
      BY <1>2, <1>4, <3>1, Zenon
  <2>2. QED
    BY <2>1 DEF Play!Begin, Play!Set
<1>7. CallOK(k)' /\ NotOlder(k, c)'
  BY <1>1, <1>5 DEF CallOK, NotOlder
<1>8. latest' \in [Purchases -> Reconciliations \cup {None}] /\ watermark' \in [Purchases -> Nat]
  BY <1>1 DEF PlayInv, PlayTypeOK
<1>9. QED
  BY <1>1, <1>6, <1>7, <1>8, CallGoes

LEMMA ProvesStep ==
  ASSUME PlayInv, NEW c \in Reconciliations, Play!Proves(c)
  PROVE  PlayInv' /\ KnownHolds
<1>1. UNCHANGED <<course, at, confirmed, account, bound, record, latest, watermark, plan>>
  BY DEF Play!Proves, Play!googleVars
<1>2. CASE Play!Ends(c)
  BY <1>1, <1>2, CallEnds
<1>3. CASE Buyer[calls[c].p] = calls[c].user /\ Play!Goes(c, "claims")
  <2>1. PICK w \in PlayCalls : w = calls[c]
    BY CallIs
  <2>2. CallOK(w) /\ w.step = "proves"
    BY <2>1, CallIs DEF Play!Proves
  <2>3. PICK k \in PlayCalls : k = [w EXCEPT !.step = "claims"]
    BY DEF PlayCalls, PlaySteps
  <2>a. calls' = [calls EXCEPT ![c] = k]
    BY <1>3, <2>1, <2>3 DEF Play!Goes, PlayInv, PlayTypeOK
  <2>b. /\ k.step = "claims" /\ k.p = w.p /\ k.user = w.user /\ k.body = w.body
        /\ k.closed = w.closed /\ k.early = w.early /\ k.user = Buyer[k.p]
    BY <1>3, <2>1, <2>3 DEF PlayCalls
  <2>4. k.user = Buyer[k.p] /\ k.user # None /\ k.p \in Purchases
    BY <2>2, <2>b, PlayConstants DEF CallOK
  <2>5. CallOK(k)' /\ NotOlder(k, c)'
    BY <1>1, <2>2, <2>b, <2>4 DEF CallOK, NotOlder
  <2>6. latest' \in [Purchases -> Reconciliations \cup {None}] /\ watermark' \in [Purchases -> Nat]
    BY <1>1 DEF PlayInv, PlayTypeOK
  <2>7. QED
    BY <1>1, <2>a, <2>5, <2>6, CallGoes
<1>4. QED
  BY <1>2, <1>3 DEF Play!Proves

LEMMA AnswerIs ==
  ASSUME PlayInv, NEW p \in Purchases
  PROVE  /\ Play!Answer(p) \in Bodies /\ Play!Answer(p) # None
         /\ Play!Answer(p).version = at[p] /\ (Play!Answer(p).acked <=> p \in confirmed)
<1>1. \E acked \in BOOLEAN : acked = (p \in confirmed)
  <2>1. CASE p \in confirmed
    <3>1. TRUE = (p \in confirmed)
      BY <2>1, Zenon
    <3>2. QED
      BY <3>1, Zenon
  <2>2. CASE ~(p \in confirmed)
    <3>1. FALSE = (p \in confirmed)
      BY <2>2
    <3>2. QED
      BY <3>1, Zenon
  <2>3. QED
    BY <2>1, <2>2
<1>2. at[p] \in Nat
  BY DEF PlayInv, PlayTypeOK
<1>3. PICK acked \in BOOLEAN : acked = (p \in confirmed)
  BY <1>1, Zenon
<1>4. Play!Answer(p) = [version |-> at[p], acked |-> acked]
  BY <1>3, Zenon DEF Play!Answer
<1>5. Play!Answer(p) \in Bodies /\ Play!Answer(p).version = at[p] /\ Play!Answer(p).acked = acked
  BY <1>2, <1>4 DEF Bodies
<1>6. Play!Answer(p) # None
  BY <1>5, PlayConstants
<1>7. QED
  BY <1>3, <1>5, <1>6

LEMMA AsksStep ==
  ASSUME PlayInv, NEW c \in Reconciliations, Play!Asks(c)
  PROVE  PlayInv' /\ KnownHolds
<1>1. UNCHANGED <<course, at, confirmed, account, bound, record, latest, watermark, plan>>
  BY DEF Play!Asks, Play!googleVars
<1>2. CASE Play!Ends(c)
  BY <1>1, <1>2, CallEnds
<1>3. CASE ~Play!Ends(c)
  <2>1. PICK w \in PlayCalls : w = calls[c]
    BY CallIs
  <2>2. CallOK(w) /\ w.step = "asks" /\ w.p \in Purchases
    BY <2>1, CallIs DEF Play!Asks
  <2>3. PICK a \in Accounts : a = Buyer[w.p]
    BY <2>2, PlayConstants
  <2>4. PICK closed \in BOOLEAN : closed = (bound[a] = "closed")
    OBVIOUS
  <2>5. PICK body \in Bodies : body = Play!Answer(w.p)
    BY <2>2, AnswerIs
  <2>6. PICK k \in PlayCalls :
          k = [w EXCEPT !.step = "claims", !.body = body, !.early = TRUE, !.closed = closed,
                        !.user = IF bound[a] = "user" THEN a ELSE None]
    BY DEF PlayCalls, PlaySteps
  <2>7. bound[a] # "no" /\ calls' = [calls EXCEPT ![c] = k]
    BY <1>3, <2>1, <2>3, <2>4, <2>5, <2>6, Zenon DEF Play!Asks, Play!Set
  <2>8. /\ k.step = "claims" /\ k.p = w.p /\ k.body = body /\ k.early = TRUE
        /\ k.closed = closed /\ k.user = IF bound[a] = "user" THEN a ELSE None
    BY <2>6 DEF PlayCalls
  <2>9. bound[a] \in {"user", "closed"} /\ a # None /\ (bound[a] = "closed" => account[a] = "deleted")
    BY <2>7, PlayConstants DEF PlayInv, PlayTypeOK
  <2>10. body # None /\ body.version <= at[w.p] /\ (body.acked => w.p \in confirmed)
    <3>1. at[w.p] \in Nat
      BY <2>2 DEF PlayInv, PlayTypeOK
    <3>2. QED
      BY <2>2, <2>5, <3>1, AnswerIs
  <2>11. CallOK(k)' /\ NotOlder(k, c)'
    BY <1>1, <2>2, <2>3, <2>4, <2>8, <2>9, <2>10 DEF CallOK, NotOlder
  <2>12. latest' \in [Purchases -> Reconciliations \cup {None}] /\ watermark' \in [Purchases -> Nat]
    BY <1>1 DEF PlayInv, PlayTypeOK
  <2>13. QED
    BY <1>1, <2>7, <2>11, <2>12, CallGoes
<1>4. QED
  BY <1>2, <1>3

LEMMA ClaimsStep ==
  ASSUME PlayInv, NEW c \in Reconciliations, Play!Claims(c)
  PROVE  PlayInv' /\ KnownHolds
<1>1. UNCHANGED <<course, at, confirmed, account, bound, record, plan>>
  BY DEF Play!Claims, Play!googleVars
<1>2. CASE Play!Ends(c) /\ UNCHANGED <<latest, watermark>>
  BY <1>1, <1>2, CallEnds
<1>3. CASE ~(Play!Ends(c) /\ UNCHANGED <<latest, watermark>>)
  <2>1. PICK w \in PlayCalls : w = calls[c]
    BY CallIs
  <2>2. CallOK(w) /\ w.step = "claims" /\ w.p \in Purchases
    BY <2>1, CallIs DEF Play!Claims
  <2>3. /\ ~Play!Refused(w)
        /\ latest' = [latest EXCEPT ![w.p] = c]
        /\ watermark' = [watermark EXCEPT ![w.p] = IF @ < w.event THEN w.event ELSE @]
        /\ Play!Set(c, [w EXCEPT
              !.step = IF w.early THEN "stores" ELSE "fetches",
              !.closed = @ \/ (Play!OwnerGone(w) /\ ~Play!Archived(w.p)),
              !.user = IF Play!OwnerGone(w) THEN None ELSE @])
    BY <1>3, <2>1, Zenon DEF Play!Claims
  <2>4. PICK closed \in BOOLEAN : closed = (w.closed \/ (Play!OwnerGone(w) /\ ~Play!Archived(w.p)))
    OBVIOUS
  <2>5. PICK k \in PlayCalls :
          k = [w EXCEPT !.step = IF w.early THEN "stores" ELSE "fetches", !.closed = closed,
                        !.user = IF Play!OwnerGone(w) THEN None ELSE w.user]
    BY DEF PlayCalls, PlaySteps
  <2>6. calls' = [calls EXCEPT ![c] = k]
    BY <2>3, <2>4, <2>5, Zenon DEF Play!Set
  <2>7. /\ k.step = IF w.early THEN "stores" ELSE "fetches"
        /\ k.p = w.p /\ k.body = w.body /\ k.early = w.early /\ k.event = w.event
        /\ k.closed = closed /\ k.user = IF Play!OwnerGone(w) THEN None ELSE w.user
    BY <2>5 DEF PlayCalls
  <2>8. latest' \in [Purchases -> Reconciliations \cup {None}] /\ latest'[w.p] = c
        /\ \A p \in Purchases : latest'[p] \in {latest[p], c}
    BY <2>2, <2>3 DEF PlayInv, PlayTypeOK
  <2>9. watermark' \in [Purchases -> Nat]
    BY <2>2, <2>3 DEF PlayInv, PlayTypeOK, PlayCalls
  \* Whoever may write for an account writes for the buyer.
  <2>10. w.user # None /\ w.user # Buyer[w.p] => FALSE
    <3>1. SUFFICES ASSUME w.user # None, w.user # Buyer[w.p] PROVE FALSE
      OBVIOUS
    <3>2. ~w.system /\ record[w.p] # None
      BY <2>2, <3>1 DEF CallOK
    <3>3. record[w.p].owner = w.user
      BY <2>3, <3>2 DEF Play!Refused
    <3>4. QED
      BY <2>2, <3>1, <3>2, <3>3 DEF PlayInv, RecordOK
  <2>11. /\ closed => account[Buyer[w.p]] = "deleted"
         /\ k.user = None => record[w.p] # None \/ closed
         /\ k.user # None => k.user = Buyer[w.p]
    BY <2>2, <2>4, <2>7, <2>10 DEF CallOK, Play!OwnerGone, Play!Archived
  <2>12. CallOK(k)'
    BY <1>1, <2>2, <2>7, <2>11 DEF CallOK
  <2>13. NotOlder(k, c)'
    BY <2>7 DEF NotOlder
  <2>14. QED
    BY <1>1, <2>6, <2>8, <2>9, <2>12, <2>13, CallGoes
<1>4. QED
  BY <1>2, <1>3

LEMMA FetchesStep ==
  ASSUME PlayInv, NEW c \in Reconciliations, Play!Fetches(c)
  PROVE  PlayInv' /\ KnownHolds
<1>1. UNCHANGED <<course, at, confirmed, account, bound, record, latest, watermark, plan>>
  BY DEF Play!Fetches, Play!googleVars
<1>2. PICK w \in PlayCalls : w = calls[c]
  BY CallIs
<1>3. CallOK(w) /\ w.step = "fetches" /\ w.p \in Purchases
  BY <1>2, CallIs DEF Play!Fetches
<1>4. PICK body \in Bodies : body = Play!Answer(w.p)
  BY <1>3, AnswerIs
<1>5. PICK k \in PlayCalls : k = [w EXCEPT !.step = "stores", !.body = body]
  BY DEF PlayCalls, PlaySteps
<1>6. calls' = [calls EXCEPT ![c] = k]
  BY <1>2, <1>4, <1>5, Zenon DEF Play!Fetches, Play!Set
<1>7. /\ k.step = "stores" /\ k.p = w.p /\ k.body = body /\ k.early = w.early
      /\ k.closed = w.closed /\ k.user = w.user
  BY <1>5 DEF PlayCalls
<1>8. body # None /\ body.version = at[w.p] /\ (body.acked => w.p \in confirmed) /\ at[w.p] \in Nat
  BY <1>3, <1>4, AnswerIs DEF PlayInv, PlayTypeOK
<1>9. CallOK(k)'
  BY <1>1, <1>3, <1>7, <1>8 DEF CallOK
<1>10. NotOlder(k, c)'
  BY <1>1, <1>3, <1>7, <1>8 DEF NotOlder, PlayInv, RecordOK
<1>11. latest' \in [Purchases -> Reconciliations \cup {None}] /\ watermark' \in [Purchases -> Nat]
  BY <1>1 DEF PlayInv, PlayTypeOK
<1>12. QED
  BY <1>1, <1>6, <1>9, <1>10, <1>11, CallGoes

LEMMA AcksStep ==
  ASSUME PlayInv, NEW c \in Reconciliations, Play!Acks(c)
  PROVE  PlayInv' /\ KnownHolds
<1>1. UNCHANGED <<course, at, account, bound, record, latest, watermark, plan>>
      /\ confirmed \subseteq confirmed'
  BY DEF Play!Acks
<1>2. PICK w \in PlayCalls : w = calls[c]
  BY CallIs
<1>3. CallOK(w) /\ w.step = "acks"
  BY <1>2, CallIs DEF Play!Acks
<1>4. PICK k \in PlayCalls : k = [w EXCEPT !.step = "checks"]
  BY DEF PlayCalls, PlaySteps
<1>5. calls' = [calls EXCEPT ![c] = k]
  BY <1>2, <1>4 DEF Play!Acks, Play!Goes, PlayInv, PlayTypeOK
<1>6. /\ k.step = "checks" /\ k.p = w.p /\ k.body = w.body /\ k.early = w.early
      /\ k.closed = w.closed /\ k.user = w.user
  BY <1>4 DEF PlayCalls
<1>7. CallOK(k)' /\ NotOlder(k, c)'
  BY <1>1, <1>3, <1>6 DEF CallOK, NotOlder
<1>8. latest' \in [Purchases -> Reconciliations \cup {None}] /\ watermark' \in [Purchases -> Nat]
  BY <1>1 DEF PlayInv, PlayTypeOK
<1>9. QED
  BY <1>1, <1>5, <1>7, <1>8, CallGoes

LEMMA ChecksStep ==
  ASSUME PlayInv, NEW c \in Reconciliations, Play!Checks(c)
  PROVE  PlayInv' /\ KnownHolds
<1>1. UNCHANGED <<course, at, confirmed, account, bound, record, latest, watermark, plan>>
  BY DEF Play!Checks, Play!googleVars
<1>2. CASE Play!Ends(c)
  BY <1>1, <1>2, CallEnds
<1>3. CASE ~Play!Ends(c)
  <2>1. PICK w \in PlayCalls : w = calls[c]
    BY CallIs
  <2>2. CallOK(w) /\ w.step = "checks" /\ w.p \in Purchases
    BY <2>1, CallIs DEF Play!Checks
  <2>3. PICK body \in Bodies : body = Play!Answer(w.p)
    BY <2>2, AnswerIs
  <2>4. PICK k \in PlayCalls : k = [w EXCEPT !.step = "saves", !.body = body]
    BY DEF PlayCalls, PlaySteps
  <2>5. w.p \in confirmed /\ calls' = [calls EXCEPT ![c] = k]
    BY <1>3, <2>1, <2>3, <2>4, Zenon DEF Play!Checks, Play!Set
  <2>6. /\ k.step = "saves" /\ k.p = w.p /\ k.body = body /\ k.early = w.early
        /\ k.closed = w.closed /\ k.user = w.user
    BY <2>4 DEF PlayCalls
  <2>7. body # None /\ body.version = at[w.p] /\ body.acked /\ at[w.p] \in Nat
    BY <2>2, <2>3, <2>5, AnswerIs DEF PlayInv, PlayTypeOK
  <2>8. CallOK(k)'
    BY <1>1, <2>2, <2>5, <2>6, <2>7 DEF CallOK
  <2>9. NotOlder(k, c)'
    BY <1>1, <2>2, <2>6, <2>7 DEF NotOlder, PlayInv, RecordOK
  <2>10. latest' \in [Purchases -> Reconciliations \cup {None}] /\ watermark' \in [Purchases -> Nat]
    BY <1>1 DEF PlayInv, PlayTypeOK
  <2>11. QED
    BY <1>1, <2>5, <2>8, <2>9, <2>10, CallGoes
<1>4. QED
  BY <1>2, <1>3

(* The call that claimed the purchase last writes what it was answered;    *)
(* of the other purchases nothing but a replacement changes.               *)
LEMMA CallWrites ==
  ASSUME PlayInv, PlayTypeOK', NEW c \in Reconciliations, NEW p \in Purchases,
         NEW k \in PlayCalls, calls' = [calls EXCEPT ![c] = k],
         UNCHANGED <<at, confirmed, account, latest>>, latest[p] = c, record'[p] # None,
         \A r \in Purchases \ {p} : /\ record[r] # None <=> record'[r] # None
                                    /\ record[r] # None => record'[r].version = record[r].version,
         CallOK(k)', NotOlder(k, c)'
  PROVE  CallsOK'
<1>1. Grows
  BY DEF Grows, PlayInv, PlayTypeOK
<1>2. calls'[c] = k /\ \A d \in Reconciliations \ {c} : calls'[d] = calls[d]
  BY DEF PlayInv, PlayTypeOK
<1>3. ASSUME NEW d \in Reconciliations, NEW x \in PlayCalls, x = calls'[d], d # c
      PROVE  CallOK(x)' /\ NotOlder(x, d)'
  <2>1. x = calls[d] /\ CallOK(x) /\ NotOlder(x, d)
    BY <1>2, <1>3 DEF PlayInv, CallsOK
  <2>2. CallOK(x)'
    BY <1>1, <2>1, CallStays DEF PlayInv
  <2>3. NotOlder(x, d)'
    BY <1>3, <2>1 DEF NotOlder, CallOK
  <2>4. QED
    BY <2>2, <2>3
<1>4. QED
  BY <1>2, <1>3 DEF CallsOK

LEMMA RecordIs ==
  ASSUME PlayInv, NEW p \in Purchases, record[p] # None
  PROVE  /\ record[p] \in PurchaseRecords /\ record[p].version \in Nat
         /\ record[p].owner \in {Buyer[p], None} /\ Buyer[p] \in Accounts
  BY PlayConstants DEF PlayInv, PlayTypeOK, PurchaseRecords, RecordOK

LEMMA EntryIs ==
  ASSUME PlayInv, NEW w \in PlayCalls, w.p \in Purchases, w.body # None,
         NEW owner \in Accounts \cup {None}
  PROVE  LET e == Play!Entry(w, owner) IN
         /\ e \in PurchaseRecords /\ e # None /\ e.owner = owner
         /\ e.version = w.body.version /\ w.body \in Bodies
         /\ e.acked <=> w.body.acked \/ (record[w.p] # None /\ record[w.p].acked)
<1>1. w.body \in Bodies /\ w.event \in Nat
  BY DEF PlayCalls
<1>2. record[w.p] # None => record[w.p] \in PurchaseRecords
  BY DEF PlayInv, PlayTypeOK
<1>3. PICK acked \in BOOLEAN : acked = (w.body.acked \/ (record[w.p] # None /\ record[w.p].acked))
  OBVIOUS
<1>4. PICK superseded \in BOOLEAN : superseded = (record[w.p] # None /\ record[w.p].superseded)
  OBVIOUS
<1>5. PICK event \in Nat : event = IF record[w.p] # None /\ record[w.p].event > w.event
                                   THEN record[w.p].event ELSE w.event
  BY <1>1, <1>2 DEF PurchaseRecords
<1>6. Play!Entry(w, owner) = [version |-> w.body.version, acked |-> acked, event |-> event,
                              superseded |-> superseded, owner |-> owner]
  BY <1>3, <1>4, <1>5, Zenon DEF Play!Entry
<1>7. w.body.version \in Nat
  BY <1>1 DEF Bodies
<1>8. PICK e \in PurchaseRecords :
        e = [version |-> w.body.version, acked |-> acked, event |-> event,
             superseded |-> superseded, owner |-> owner]
  BY <1>7 DEF PurchaseRecords
<1>9. e.owner = owner /\ e.version = w.body.version /\ e.acked = acked
  BY <1>8
<1>10. e # None /\ e = Play!Entry(w, owner)
  BY <1>6, <1>8, PlayConstants
<1>11. QED
  BY <1>1, <1>3, <1>9, <1>10

LEMMA SupersedeIs ==
  ASSUME PlayInv, NEW p \in Purchases, NEW e \in PurchaseRecords, NEW owner,
         NEW wrote \in [Purchases -> PurchaseRecords \cup {None}], wrote[p] = e,
         \A r \in Purchases \ {p} : wrote[r] = record[r],
         NEW rec, rec = Play!Supersede(p, owner, wrote)
  PROVE  /\ rec \in [Purchases -> PurchaseRecords \cup {None}] /\ rec[p] = e
         /\ \A r \in Purchases \ {p} :
              \/ rec[r] = record[r]
              \/ /\ record[r] # None /\ record[r].owner = owner /\ rec[r] # None
                 /\ rec[r].owner = owner /\ rec[r].version = record[r].version
                 /\ rec[r].acked = record[r].acked /\ rec[r].event = record[r].event
<1>1. CASE rec = wrote
  BY <1>1
<1>2. CASE rec # wrote
  <2>1. PICK q \in Purchases : q = Previous[p] /\ q # p
    BY <1>2, PlayConstants DEF Play!Supersede
  <2>2. wrote[q] # None /\ wrote[q].owner = owner /\ rec = [wrote EXCEPT ![q].superseded = TRUE]
    BY <1>2, <2>1 DEF Play!Supersede
  <2>3. PICK x \in PurchaseRecords : x = wrote[q]
    BY <2>2
  <2>4. PICK y \in PurchaseRecords : y = [x EXCEPT !.superseded = TRUE]
    BY DEF PurchaseRecords
  <2>5. y.owner = x.owner /\ y.version = x.version /\ y.acked = x.acked /\ y.event = x.event
    BY <2>4 DEF PurchaseRecords
  <2>6. rec = [wrote EXCEPT ![q] = y]
    BY <2>2, <2>3, <2>4
  <2>7. y # None
    BY <2>4, PlayConstants
  <2>8. rec \in [Purchases -> PurchaseRecords \cup {None}] /\ rec[p] = e /\ rec[q] = y
        /\ \A r \in Purchases \ {p, q} : rec[r] = record[r]
    BY <2>1, <2>6
  <2>9. record[q] = x /\ x # None /\ x.owner = owner
    BY <2>1, <2>2, <2>3
  <2>10. QED
    BY <2>5, <2>7, <2>8, <2>9
<1>3. QED
  BY <1>1, <1>2

LEMMA ArchiveStep ==
  ASSUME PlayInv, NEW c \in Reconciliations, NEW w \in PlayCalls, w = calls[c],
         w.step = "stores", latest[w.p] = c, Play!Ends(c), Play!StoresForArchive(w),
         \/ w.closed \/ Play!Archived(w.p)
         \/ Play!OwnerOf(w) # None /\ account[Play!OwnerOf(w)] = "deleted",
         UNCHANGED <<course, at, confirmed, account, latest, watermark>>
  PROVE  PlayInv' /\ KnownHolds
<1> DEFINE p == w.p
           e == Play!Entry(w, None)
<1>1. CallOK(w) /\ NotOlder(w, c) /\ p \in Purchases /\ w.body # None
  BY CallIs DEF CallOK
<1>2. /\ e \in PurchaseRecords /\ e # None /\ e.owner = None /\ e.version = w.body.version
      /\ e.acked <=> w.body.acked \/ (record[p] # None /\ record[p].acked)
      /\ w.body \in Bodies
  BY <1>1, EntryIs
<1>3. record' = [record EXCEPT ![p] = e] /\ UNCHANGED <<bound, plan>>
  BY DEF Play!StoresForArchive
<1> HIDE DEF e
<1>4. record'[p] = e /\ \A r \in Purchases \ {p} : record'[r] = record[r]
  BY <1>1, <1>3 DEF PlayInv, PlayTypeOK
<1>5. record[p] # None => record[p].owner = None
  <2>1. SUFFICES ASSUME record[p] # None, record[p].owner # None PROVE FALSE
    OBVIOUS
  <2>2. record[p].owner = Buyer[p] /\ account[Buyer[p]] = "open"
    BY <1>1, <2>1 DEF PlayInv, RecordOK
  <2>3. QED
    BY <1>1, <2>1, <2>2 DEF CallOK, Play!Archived, Play!OwnerOf, Play!Kept
<1>6. PICK k \in PlayCalls : k = Play!Idle
  BY DEF Play!Idle, PlayCalls, PlaySteps
<1>7. calls' = [calls EXCEPT ![c] = k] /\ CallOK(k)' /\ NotOlder(k, c)'
  BY <1>6 DEF Play!Ends, Play!Set, CallOK, NotOlder, Play!Idle
<1>8. PlayTypeOK'
  BY <1>1, <1>2, <1>3, <1>7 DEF PlayInv, PlayTypeOK
<1>9. ASSUME NEW r \in Purchases PROVE RecordOK(r)'
  <2>1. CASE r = p
    BY <1>1, <1>2, <1>4, <2>1 DEF RecordOK, CallOK, PlayInv
  <2>2. CASE r # p
    BY <1>4, <2>2 DEF RecordOK, PlayInv
  <2>3. QED
    BY <2>1, <2>2
<1>10. CallsOK'
  BY <1>1, <1>2, <1>4, <1>7, <1>8, CallWrites
<1>11. ASSUME NEW a \in Accounts
       PROVE  (bound'[a] = "closed" => account'[a] = "deleted") /\ plan'[a] = Play!PlanOf(a, record)'
  <2>1. a # None
    BY PlayConstants
  <2>2. \A r \in Purchases : record'[r] # None /\ record'[r].owner = a => record'[r] = record[r]
    BY <1>2, <1>4, <2>1
  <2>3. \A r \in Purchases : record[r] # None /\ record[r].owner = a => record'[r] = record[r]
    BY <1>4, <1>5, <2>1
  <2>4. Play!PlanOf(a, record)' = Play!PlanOf(a, record)
    BY <2>2, <2>3 DEF Play!PlanOf, Play!StatusOf
  <2>5. QED
    BY <1>3, <2>4 DEF PlayInv
<1>12. KnownHolds
  <2>1. ASSUME NEW r \in Purchases, record[r] # None
        PROVE  /\ record'[r] # None /\ (record[r].acked => record'[r].acked)
               /\ record'[r].owner \in {record[r].owner, None}
               /\ \/ record'[r].version >= record[r].version
                  \/ \E d \in Reconciliations : calls[d].early /\ latest[r] = d /\ calls[d].step = "stores"
    <3>1. CASE r = p
      <4>1. CASE w.early
        BY <1>2, <1>4, <2>1, <3>1, <4>1
      <4>2. CASE ~w.early
        BY <1>1, <1>2, <1>4, <2>1, <3>1, <4>2, RecordIs DEF NotOlder, Bodies
      <4>3. QED
        BY <4>1, <4>2
    <3>2. CASE r # p
      BY <1>4, <2>1, <3>2, RecordIs
    <3>3. QED
      BY <3>1, <3>2
  <2>2. QED
    BY <2>1 DEF KnownHolds
<1>13. QED
  BY <1>8, <1>9, <1>10, <1>11, <1>12 DEF PlayInv

LEMMA OwnerStep ==
  ASSUME PlayInv, NEW c \in Reconciliations, NEW w \in PlayCalls, w = calls[c],
         w.step = "stores", latest[w.p] = c,
         NEW owner, owner = Play!OwnerOf(w), Play!StoresForOwner(w, owner),
         ~w.closed, ~Play!Archived(w.p), owner # None => account[owner] # "deleted",
         \/ calls' = [calls EXCEPT ![c] = [w EXCEPT !.step = "acks", !.user = owner, !.body = None]]
         \/ Play!Ends(c),
         UNCHANGED <<course, at, confirmed, account, latest, watermark>>
  PROVE  PlayInv' /\ KnownHolds
<1> DEFINE p == w.p
           e == Play!Entry(w, owner)
<1>1. CallOK(w) /\ NotOlder(w, c) /\ p \in Purchases /\ w.body # None
  BY CallIs DEF CallOK
<1>2. owner = Buyer[p] /\ owner \in Accounts /\ owner # None /\ account[owner] = "open"
  <2>1. owner = Buyer[p]
    <3>1. CASE w.user # None
      BY <1>1, <3>1 DEF CallOK, Play!OwnerOf
    <3>2. CASE w.user = None
      <4>1. record[p] # None /\ record[p].owner # None
        BY <1>1, <3>2 DEF CallOK, Play!Archived
      <4>2. QED
        BY <1>1, <3>2, <4>1 DEF Play!OwnerOf, Play!Kept, PlayInv, RecordOK
    <3>3. QED
      BY <3>1, <3>2
  <2>2. QED
    BY <1>1, <2>1, PlayConstants DEF PlayInv, PlayTypeOK
<1>3. /\ e \in PurchaseRecords /\ e # None /\ e.owner = owner /\ e.version = w.body.version
      /\ e.acked <=> w.body.acked \/ (record[p] # None /\ record[p].acked)
      /\ w.body \in Bodies
  BY <1>1, <1>2, EntryIs
<1>4. /\ record' = Play!Supersede(p, owner, [record EXCEPT ![p] = e])
      /\ bound' = [bound EXCEPT ![owner] = IF @ = "no" THEN "user" ELSE @]
      /\ plan' = [plan EXCEPT ![owner] = Play!PlanOf(owner, record')]
  BY DEF Play!StoresForOwner
<1> HIDE DEF e
<1>5. /\ record' \in [Purchases -> PurchaseRecords \cup {None}] /\ record'[p] = e
      /\ \A r \in Purchases \ {p} :
           \/ record'[r] = record[r]
           \/ /\ record[r] # None /\ record[r].owner = owner /\ record'[r] # None
              /\ record'[r].owner = owner /\ record'[r].version = record[r].version
              /\ record'[r].acked = record[r].acked /\ record'[r].event = record[r].event
  <2>1. PICK x \in PurchaseRecords : x = e
    BY <1>3
  <2>2. PICK q \in Purchases : q = p
    BY <1>1
  <2>3. [record EXCEPT ![q] = x] \in [Purchases -> PurchaseRecords \cup {None}]
    BY <2>1 DEF PlayInv, PlayTypeOK
  <2>4. PICK wrote \in [Purchases -> PurchaseRecords \cup {None}] : wrote = [record EXCEPT ![q] = x]
    BY <2>3
  <2>5. wrote[q] = x /\ \A r \in Purchases \ {q} : wrote[r] = record[r]
    BY <2>2, <2>4 DEF PlayInv, PlayTypeOK
  <2>6. record' = Play!Supersede(q, owner, wrote)
    BY <1>4, <2>1, <2>2, <2>4
  <2>7. /\ record' \in [Purchases -> PurchaseRecords \cup {None}] /\ record'[q] = x
        /\ \A r \in Purchases \ {q} :
             \/ record'[r] = record[r]
             \/ /\ record[r] # None /\ record[r].owner = owner /\ record'[r] # None
                /\ record'[r].owner = owner /\ record'[r].version = record[r].version
                /\ record'[r].acked = record[r].acked /\ record'[r].event = record[r].event
    <3>1. x \in PurchaseRecords /\ q \in Purchases
          /\ wrote \in [Purchases -> PurchaseRecords \cup {None}]
      BY <2>1, <2>2, <2>4
    <3>2. QED
      BY <2>5, <2>6, <3>1, SupersedeIs
  <2>8. QED
    BY <2>1, <2>2, <2>7
<1>6. record[p] # None => record[p].owner = owner
  BY <1>1, <1>2 DEF PlayInv, RecordOK, Play!Archived
<1>7. PICK k \in PlayCalls : /\ calls' = [calls EXCEPT ![c] = k]
                             /\ \/ k = Play!Idle
                                \/ k = [w EXCEPT !.step = "acks", !.user = owner, !.body = None]
  <2>1. [w EXCEPT !.step = "acks", !.user = owner, !.body = None] \in PlayCalls
    BY <1>2 DEF PlayCalls, PlaySteps
  <2>2. Play!Idle \in PlayCalls
    BY DEF Play!Idle, PlayCalls, PlaySteps
  <2>3. QED
    BY <2>1, <2>2 DEF Play!Ends, Play!Set
<1>8. \/ k.step = "idle"
      \/ /\ k.step = "acks" /\ k.p = p /\ k.user = owner /\ k.body = None
         /\ k.early = w.early /\ ~k.closed
  <2>1. CASE k = Play!Idle
    BY <2>1 DEF Play!Idle
  <2>2. CASE k = [w EXCEPT !.step = "acks", !.user = owner, !.body = None]
    BY <2>2 DEF PlayCalls
  <2>3. QED
    BY <1>7, <2>1, <2>2
<1>9. CallOK(k)' /\ NotOlder(k, c)'
  BY <1>1, <1>2, <1>3, <1>5, <1>8 DEF CallOK, NotOlder
<1>10. plan' \in [Accounts -> {"free", "premium"}] /\ bound' \in [Accounts -> {"no", "user", "closed"}]
       /\ \A a \in Accounts : bound'[a] = "closed" => bound[a] = "closed"
  BY <1>2, <1>4 DEF PlayInv, PlayTypeOK, Play!PlanOf
<1>11. PlayTypeOK'
  BY <1>5, <1>7, <1>10 DEF PlayInv, PlayTypeOK
<1>12. ASSUME NEW r \in Purchases PROVE RecordOK(r)'
  <2>1. CASE r = p
    BY <1>1, <1>2, <1>3, <1>5, <2>1 DEF RecordOK, CallOK, PlayInv
  <2>2. CASE r # p
    BY <1>2, <1>5, <2>2 DEF RecordOK, PlayInv
  <2>3. QED
    BY <2>1, <2>2
<1>13. CallsOK'
  <2>1. \A r \in Purchases \ {p} : /\ record[r] # None <=> record'[r] # None
                                   /\ record[r] # None => record'[r].version = record[r].version
    BY <1>5
  <2>2. QED
    BY <1>1, <1>3, <1>5, <1>7, <1>9, <1>11, <2>1, CallWrites
<1>14. ASSUME NEW a \in Accounts
       PROVE  (bound'[a] = "closed" => account'[a] = "deleted") /\ plan'[a] = Play!PlanOf(a, record)'
  <2>1. Play!PlanOf(a, record)' = Play!PlanOf(a, record')
    BY DEF Play!PlanOf, Play!StatusOf
  <2>2. CASE a = owner
    BY <1>4, <1>10, <2>1, <2>2 DEF PlayInv, PlayTypeOK
  <2>3. CASE a # owner
    <3>1. \A r \in Purchases : /\ record'[r] # None /\ record'[r].owner = a => record'[r] = record[r]
                               /\ record[r] # None /\ record[r].owner = a => record'[r] = record[r]
      BY <1>3, <1>5, <1>6, <2>3
    <3>2. Play!PlanOf(a, record)' = Play!PlanOf(a, record)
      BY <3>1 DEF Play!PlanOf, Play!StatusOf
    <3>3. plan'[a] = plan[a]
      BY <1>4, <2>3 DEF PlayInv, PlayTypeOK
    <3>4. QED
      BY <1>10, <3>2, <3>3 DEF PlayInv
  <2>4. QED
    BY <2>2, <2>3
<1>15. KnownHolds
  <2>1. ASSUME NEW r \in Purchases, record[r] # None
        PROVE  /\ record'[r] # None /\ (record[r].acked => record'[r].acked)
               /\ record'[r].owner \in {record[r].owner, None}
               /\ \/ record'[r].version >= record[r].version
                  \/ \E d \in Reconciliations : calls[d].early /\ latest[r] = d /\ calls[d].step = "stores"
    <3>1. CASE r = p
      <4>1. CASE w.early
        BY <1>3, <1>5, <1>6, <2>1, <3>1, <4>1
      <4>2. CASE ~w.early
        BY <1>1, <1>3, <1>5, <1>6, <2>1, <3>1, <4>2, RecordIs DEF NotOlder, Bodies
      <4>3. QED
        BY <4>1, <4>2
    <3>2. CASE r # p
      BY <1>5, <2>1, <3>2, RecordIs
    <3>3. QED
      BY <3>1, <3>2
  <2>2. QED
    BY <2>1 DEF KnownHolds
<1>16. QED
  BY <1>11, <1>12, <1>13, <1>14, <1>15 DEF PlayInv

LEMMA StoresStep ==
  ASSUME PlayInv, NEW c \in Reconciliations, Play!Stores(c)
  PROVE  PlayInv' /\ KnownHolds
<1>1. UNCHANGED <<course, at, confirmed, account, latest, watermark>>
  BY DEF Play!Stores, Play!googleVars
<1>2. PICK w \in PlayCalls : w = calls[c]
  BY CallIs
<1>3. w.step = "stores"
  BY <1>2 DEF Play!Stores
<1> DEFINE gone == w.closed \/ Play!Archived(w.p)
                   \/ (Play!OwnerOf(w) # None /\ account[Play!OwnerOf(w)] = "deleted")
<1>4. CASE latest[w.p] # c
  <2>1. Play!Ends(c) /\ UNCHANGED <<bound, record, plan>>
    BY <1>2, <1>4 DEF Play!Stores
  <2>2. QED
    BY <1>1, <2>1, CallEnds
<1>5. CASE latest[w.p] = c /\ gone
  <2>1. Play!Ends(c) /\ Play!StoresForArchive(w)
    BY <1>2, <1>5, Zenon DEF Play!Stores
  <2>2. QED
    BY <1>1, <1>2, <1>3, <1>5, <2>1, ArchiveStep
<1>6. CASE latest[w.p] = c /\ ~gone
  <2>1. /\ Play!StoresForOwner(w, Play!OwnerOf(w))
        /\ \/ Play!Set(c, [w EXCEPT !.step = "acks", !.user = Play!OwnerOf(w), !.body = None])
           \/ Play!Ends(c)
    BY <1>2, <1>6, Zenon DEF Play!Stores
  <2>2. QED
    BY <1>1, <1>2, <1>3, <1>6, <2>1, OwnerStep DEF Play!Set
<1>7. QED
  BY <1>4, <1>5, <1>6

LEMMA SavesStep ==
  ASSUME PlayInv, NEW c \in Reconciliations, Play!Saves(c)
  PROVE  PlayInv' /\ KnownHolds
<1>1. UNCHANGED <<course, at, confirmed, account, bound, latest, watermark>> /\ Play!Ends(c)
  BY DEF Play!Saves, Play!googleVars
<1>2. PICK w \in PlayCalls : w = calls[c]
  BY CallIs
<1>3. CallOK(w) /\ NotOlder(w, c) /\ w.step = "saves" /\ w.p \in Purchases
  BY <1>2, CallIs DEF Play!Saves
<1>4. CASE latest[w.p] # c
  <2>1. UNCHANGED <<record, plan>>
    BY <1>2, <1>4, Zenon DEF Play!Saves
  <2>2. QED
    BY <1>1, <2>1, CallEnds
<1>5. CASE latest[w.p] = c
  <2> DEFINE saved == [record EXCEPT ![w.p].version = w.body.version, ![w.p].acked = w.body.acked]
  <2>1. /\ record' = saved
        /\ plan' = IF Play!Archived(w.p) THEN plan
                   ELSE [plan EXCEPT ![w.user] = Play!PlanOf(w.user, saved)]
    BY <1>2, <1>5 DEF Play!Saves
  <2>2. /\ w.body \in Bodies /\ w.body.acked /\ w.body.version <= at[w.p] /\ w.p \in confirmed
        /\ record[w.p] # None /\ w.user = Buyer[w.p] /\ w.user \in Accounts /\ w.user # None
    BY <1>3, PlayConstants DEF CallOK, PlayCalls
  <2>3. PICK x \in PurchaseRecords : x = record[w.p]
    BY <1>3, <2>2, RecordIs
  <2>4. PICK e \in PurchaseRecords : e = [x EXCEPT !.version = w.body.version, !.acked = w.body.acked]
    BY <2>2 DEF PurchaseRecords, Bodies
  <2>5. e.owner = x.owner /\ e.version = w.body.version /\ e.acked
    BY <2>2, <2>4 DEF PurchaseRecords
  <2>6. e # None
    BY <2>4, PlayConstants
  <2>7. record' = [record EXCEPT ![w.p] = e]
    BY <1>3, <2>1, <2>3, <2>4 DEF PlayInv, PlayTypeOK
  <2>8. record'[w.p] = e /\ \A r \in Purchases \ {w.p} : record'[r] = record[r]
    BY <1>3, <2>7 DEF PlayInv, PlayTypeOK
  <2>9. e.owner \in {Buyer[w.p], None} /\ (e.owner # None => account[Buyer[w.p]] = "open")
        /\ x.version <= e.version
    BY <1>3, <1>5, <2>2, <2>3, <2>5 DEF PlayInv, RecordOK, NotOlder
  <2> HIDE DEF saved
  <2>10. PICK k \in PlayCalls : k = Play!Idle
    BY DEF Play!Idle, PlayCalls, PlaySteps
  <2>11. calls' = [calls EXCEPT ![c] = k] /\ CallOK(k)' /\ NotOlder(k, c)'
    BY <1>1, <2>10 DEF Play!Ends, Play!Set, CallOK, NotOlder, Play!Idle
  <2>12. record' \in [Purchases -> PurchaseRecords \cup {None}]
    BY <1>3, <2>4, <2>7 DEF PlayInv, PlayTypeOK
  <2>13. plan' \in [Accounts -> {"free", "premium"}]
    BY <2>1, <2>2 DEF PlayInv, PlayTypeOK, Play!PlanOf
  <2>14. PlayTypeOK'
    BY <1>1, <2>11, <2>12, <2>13 DEF PlayInv, PlayTypeOK
  <2>15. ASSUME NEW r \in Purchases PROVE RecordOK(r)'
    <3>1. CASE r = w.p
      BY <1>1, <2>2, <2>5, <2>8, <2>9, <3>1 DEF RecordOK
    <3>2. CASE r # w.p
      BY <1>1, <2>8, <3>2 DEF RecordOK, PlayInv
    <3>3. QED
      BY <3>1, <3>2
  <2>16. CallsOK'
    <3>1. PICK p \in Purchases : p = w.p
      BY <1>3
    <3>2. latest[p] = c /\ record'[p] # None /\ UNCHANGED <<at, confirmed, account, latest>>
      BY <1>1, <1>5, <2>6, <2>8, <3>1
    <3>3. \A r \in Purchases \ {p} : record'[r] = record[r]
      BY <2>8, <3>1
    <3>4. QED
      BY <2>11, <2>14, <3>2, <3>3, CallWrites
  <2>17. ASSUME NEW a \in Accounts
         PROVE  (bound'[a] = "closed" => account'[a] = "deleted") /\ plan'[a] = Play!PlanOf(a, record)'
    <3>1. Play!PlanOf(a, record)' = Play!PlanOf(a, record')
      BY <1>1 DEF Play!PlanOf, Play!StatusOf
    <3>2. CASE ~Play!Archived(w.p) /\ a = w.user
      BY <1>1, <2>1, <3>1, <3>2 DEF PlayInv, PlayTypeOK
    <3>3. CASE Play!Archived(w.p) \/ a # w.user
      <4>1. e.owner # a /\ x.owner # a
        <5>1. a # None
          BY PlayConstants
        <5>2. CASE Play!Archived(w.p)
          BY <2>3, <2>5, <5>1, <5>2 DEF Play!Archived
        <5>3. CASE a # w.user
          BY <2>2, <2>5, <2>9, <5>1, <5>3
        <5>4. QED
          BY <3>3, <5>2, <5>3
      <4>2. \A r \in Purchases : /\ record'[r] # None /\ record'[r].owner = a => record'[r] = record[r]
                                 /\ record[r] # None /\ record[r].owner = a => record'[r] = record[r]
        BY <2>3, <2>8, <4>1
      <4>3. Play!PlanOf(a, record)' = Play!PlanOf(a, record)
        BY <1>1, <4>2 DEF Play!PlanOf, Play!StatusOf
      <4>4. plan'[a] = plan[a]
        BY <2>1, <3>3 DEF PlayInv, PlayTypeOK
      <4>5. QED
        BY <1>1, <4>3, <4>4 DEF PlayInv
    <3>4. QED
      BY <3>2, <3>3
  <2>18. KnownHolds
    <3>1. \A r \in Purchases : record[r] # None => record[r].version \in Nat
      BY RecordIs
    <3>2. QED
      BY <2>3, <2>5, <2>6, <2>8, <2>9, <3>1 DEF KnownHolds
  <2>19. QED
    BY <2>14, <2>15, <2>16, <2>17, <2>18 DEF PlayInv
<1>6. QED
  BY <1>4, <1>5

LEMMA FailsStep ==
  ASSUME PlayInv, NEW c \in Reconciliations, Play!Fails(c)
  PROVE  PlayInv' /\ KnownHolds
<1>1. UNCHANGED <<course, at, confirmed, account, bound, record, latest, watermark, plan>>
      /\ Play!Ends(c)
  BY DEF Play!Fails, Play!googleVars
<1>2. QED
  BY <1>1, CallEnds

(* Around the calls: what they know stays true.                            *)
LEMMA CallsRest ==
  ASSUME PlayInv, PlayTypeOK', Grows, UNCHANGED <<calls, latest>>,
         \A r \in Purchases : /\ record[r] # None <=> record'[r] # None
                              /\ record[r] # None => record'[r].version = record[r].version
  PROVE  CallsOK'
<1>1. ASSUME NEW d \in Reconciliations, NEW x \in PlayCalls, x = calls'[d]
      PROVE  CallOK(x)' /\ NotOlder(x, d)'
  <2>1. x = calls[d] /\ CallOK(x) /\ NotOlder(x, d)
    BY <1>1 DEF PlayInv, CallsOK
  <2>2. CallOK(x)'
    BY <2>1, CallStays DEF PlayInv
  <2>3. NotOlder(x, d)'
    BY <2>1 DEF NotOlder, CallOK
  <2>4. QED
    BY <2>2, <2>3
<1>2. QED
  BY <1>1 DEF CallsOK

LEMMA ContextStep ==
  ASSUME PlayInv, NEW a \in Accounts, Play!Context(a)
  PROVE  PlayInv' /\ KnownHolds
<1>1. /\ UNCHANGED <<course, at, confirmed, account, record, latest, watermark, plan, calls>>
      /\ bound' = [bound EXCEPT ![a] = "user"]
  BY DEF Play!Context, Play!googleVars
<1>2. PlayTypeOK' /\ Grows
  BY <1>1 DEF PlayInv, PlayTypeOK, Grows
<1>3. CallsOK'
  BY <1>1, <1>2, CallsRest
<1>4. \A p \in Purchases : RecordOK(p)'
  BY <1>1 DEF PlayInv, RecordOK
<1>5. \A b \in Accounts : /\ bound'[b] = "closed" => account'[b] = "deleted"
                          /\ plan'[b] = Play!PlanOf(b, record)'
  BY <1>1 DEF PlayInv, PlayTypeOK, Play!PlanOf, Play!StatusOf
<1>6. KnownHolds
  BY <1>1, RecordIs DEF KnownHolds
<1>7. QED
  BY <1>2, <1>3, <1>4, <1>5, <1>6 DEF PlayInv

LEMMA MovesStep ==
  ASSUME PlayInv, NEW p \in Purchases, Play!Moves(p)
  PROVE  PlayInv' /\ KnownHolds
<1>1. /\ UNCHANGED <<course, confirmed, account, bound, record, latest, watermark, plan, calls>>
      /\ at' = [at EXCEPT ![p] = @ + 1]
  BY DEF Play!Moves
<1>2. PlayTypeOK' /\ Grows
  BY <1>1 DEF PlayInv, PlayTypeOK, Grows
<1>3. CallsOK'
  BY <1>1, <1>2, CallsRest
<1>4. ASSUME NEW q \in Purchases PROVE RecordOK(q)'
  <2>1. RecordOK(q) /\ at[q] \in Nat /\ at'[q] \in Nat /\ at'[q] >= at[q]
    BY <1>2 DEF PlayInv, PlayTypeOK, Grows
  <2>2. QED
    BY <1>1, <2>1, RecordIs DEF RecordOK
<1>5. \A b \in Accounts : /\ bound'[b] = "closed" => account'[b] = "deleted"
                          /\ plan'[b] = Play!PlanOf(b, record)'
  BY <1>1 DEF PlayInv, Play!PlanOf, Play!StatusOf
<1>6. KnownHolds
  BY <1>1, RecordIs DEF KnownHolds
<1>7. QED
  BY <1>2, <1>3, <1>4, <1>5, <1>6 DEF PlayInv

LEMMA DeletesStep ==
  ASSUME PlayInv, NEW a \in Accounts, Play!Deletes(a)
  PROVE  PlayInv' /\ KnownHolds
<1>1. /\ UNCHANGED <<course, at, confirmed, latest, watermark, calls>>
      /\ account' = [account EXCEPT ![a] = "deleted"]
      /\ bound' = [bound EXCEPT ![a] = IF @ = "user" THEN "closed" ELSE @]
      /\ plan' = [plan EXCEPT ![a] = "free"]
      /\ record' = [p \in Purchases |-> IF Play!Kept(p) /\ record[p].owner = a
                                        THEN [record[p] EXCEPT !.owner = None]
                                        ELSE record[p]]
  BY DEF Play!Deletes, Play!googleVars
<1>2. ASSUME NEW p \in Purchases
      PROVE  /\ record'[p] \in PurchaseRecords \cup {None}
             /\ record[p] # None <=> record'[p] # None
             /\ record[p] # None => /\ record'[p].version = record[p].version
                                    /\ record'[p].acked = record[p].acked
                                    /\ record'[p].owner = IF record[p].owner = a THEN None
                                                          ELSE record[p].owner
             /\ record[p] # None /\ record[p].owner # a => record'[p] = record[p]
  <2>1. a # None
    BY PlayConstants
  <2>2. CASE record[p] # None /\ record[p].owner = a
    <3>1. PICK x \in PurchaseRecords : x = record[p]
      BY <2>2, RecordIs
    <3>2. PICK y \in PurchaseRecords : y = [x EXCEPT !.owner = None]
      BY DEF PurchaseRecords
    <3>3. y.version = x.version /\ y.acked = x.acked /\ y.owner = None
      BY <3>2 DEF PurchaseRecords
    <3>4. record'[p] = y
      BY <1>1, <2>1, <2>2, <3>1, <3>2 DEF Play!Kept
    <3>5. y # None
      BY <3>2, PlayConstants
    <3>6. QED
      BY <2>2, <3>1, <3>2, <3>3, <3>4, <3>5
  <2>3. CASE ~(record[p] # None /\ record[p].owner = a)
    <3>1. record'[p] = record[p]
      BY <1>1, <2>3 DEF Play!Kept
    <3>2. QED
      BY <2>3, <3>1 DEF PlayInv, PlayTypeOK
  <2>4. QED
    BY <2>2, <2>3
<1>3. record' \in [Purchases -> PurchaseRecords \cup {None}]
  <2>1. record' = [p \in Purchases |-> record'[p]]
    BY <1>1
  <2>2. QED
    BY <1>2, <2>1
<1>4. account'[a] = "deleted" /\ \A b \in Accounts \ {a} : account'[b] = account[b]
  BY <1>1 DEF PlayInv, PlayTypeOK
<1>5. PlayTypeOK'
  BY <1>1, <1>3 DEF PlayInv, PlayTypeOK
<1>6. Grows
  BY <1>1, <1>2, <1>4 DEF PlayInv, PlayTypeOK, Grows
<1>7. CallsOK'
  BY <1>1, <1>2, <1>5, <1>6, CallsRest
<1>8. ASSUME NEW p \in Purchases PROVE RecordOK(p)'
  <2>1. CASE record[p] = None
    BY <1>2, <2>1 DEF RecordOK
  <2>2. CASE record[p] # None
    <3>1. RecordOK(p) /\ Buyer[p] \in Accounts
      BY PlayConstants DEF PlayInv
    <3>2. QED
      BY <1>1, <1>2, <1>4, <2>2, <3>1 DEF RecordOK
  <2>3. QED
    BY <2>1, <2>2
<1>9. ASSUME NEW b \in Accounts
      PROVE  (bound'[b] = "closed" => account'[b] = "deleted") /\ plan'[b] = Play!PlanOf(b, record)'
  <2>1. bound'[b] = "closed" => account'[b] = "deleted"
    BY <1>1, <1>4 DEF PlayInv, PlayTypeOK
  <2>2. b # None
    BY PlayConstants
  <2>3. CASE b = a
    <3>1. \A p \in Purchases : record'[p] # None => record'[p].owner # a
      BY <1>2, <2>2, <2>3
    <3>2. Play!PlanOf(b, record)' = "free"
      BY <2>3, <3>1 DEF Play!PlanOf
    <3>3. QED
      BY <1>1, <2>1, <2>3, <3>2 DEF PlayInv, PlayTypeOK
  <2>4. CASE b # a
    <3>1. \A p \in Purchases : /\ record'[p] # None /\ record'[p].owner = b => record'[p] = record[p]
                               /\ record[p] # None /\ record[p].owner = b => record'[p] = record[p]
      BY <1>2, <2>2, <2>4
    <3>2. Play!PlanOf(b, record)' = Play!PlanOf(b, record)
      BY <1>1, <3>1 DEF Play!PlanOf, Play!StatusOf
    <3>3. plan'[b] = plan[b]
      BY <1>1, <2>4 DEF PlayInv, PlayTypeOK
    <3>4. QED
      BY <2>1, <3>2, <3>3 DEF PlayInv
  <2>5. QED
    BY <2>3, <2>4
<1>10. KnownHolds
  BY <1>2, RecordIs DEF KnownHolds
<1>11. QED
  BY <1>5, <1>7, <1>8, <1>9, <1>10 DEF PlayInv

LEMMA PlayActs ==
  ASSUME PlayInv, Play!Next
  PROVE  PlayInv' /\ KnownHolds
<1>1. ASSUME NEW a \in Play!Buyers, Play!Context(a) \/ Play!Deletes(a) PROVE PlayInv' /\ KnownHolds
  <2>1. a \in Accounts
    BY PlayConstants DEF Play!Buyers
  <2>2. QED
    BY <1>1, <2>1, ContextStep, DeletesStep
<1>2. ASSUME NEW p \in Purchases, Play!Moves(p) PROVE PlayInv' /\ KnownHolds
  BY <1>2, MovesStep
<1>3. ASSUME NEW c \in Reconciliations, NEW p \in Purchases, Play!Sweep(c, p)
      PROVE  PlayInv' /\ KnownHolds
  BY <1>3, BeginStep DEF Play!Sweep
<1>4. ASSUME NEW c \in Reconciliations, NEW p \in Purchases, NEW a \in Accounts,
             Play!Validate(c, a, p)
      PROVE  PlayInv' /\ KnownHolds
  BY <1>4, BeginStep DEF Play!Validate
<1>5. ASSUME NEW c \in Reconciliations, NEW p \in Purchases, NEW e \in 1 .. at[p],
             Play!Notify(c, p, e)
      PROVE  PlayInv' /\ KnownHolds
  <2>1. e \in Nat
    BY DEF PlayInv, PlayTypeOK
  <2>2. QED
    BY <1>5, <2>1, BeginStep DEF Play!Notify
<1>6. QED
  BY <1>1, <1>2, <1>3, <1>4, <1>5, ProvesStep, AsksStep, ClaimsStep, FetchesStep,
     StoresStep, AcksStep, ChecksStep, SavesStep, FailsStep
     DEF Play!Next

LEMMA PlayRests ==
  ASSUME PlayInv, UNCHANGED playState
  PROVE  PlayInv' /\ KnownHolds
<1>1. UNCHANGED <<course, at, confirmed, account, bound, record, latest, watermark, plan, calls>>
  BY DEF playState
<1>2. PlayTypeOK' /\ Grows
  BY <1>1 DEF PlayInv, PlayTypeOK, Grows
<1>3. CallsOK'
  BY <1>1, <1>2, CallsRest
<1>4. \A p \in Purchases : RecordOK(p)'
  BY <1>1 DEF PlayInv, RecordOK
<1>5. \A b \in Accounts : /\ bound'[b] = "closed" => account'[b] = "deleted"
                          /\ plan'[b] = Play!PlanOf(b, record)'
  BY <1>1 DEF PlayInv, Play!PlanOf, Play!StatusOf
<1>6. KnownHolds
  BY <1>1, RecordIs DEF KnownHolds
<1>7. QED
  BY <1>2, <1>3, <1>4, <1>5, <1>6 DEF PlayInv

(* Whichever reconciliation answers last, an account is premium only by a  *)
(* purchase of its own that Google has as acknowledged, and what is known  *)
(* of a purchase follows Google's course, for any accounts: EvidenceIsKept *)
(* (google_play_billing.py).                                               *)
THEOREM EvidenceStays == SceneSpec => EvidenceIsKept
<1>1. SceneInit => PlayInv
  BY PlayStarts DEF SceneInit
<1>2. PlayInv /\ [SceneNext]_sceneVars => PlayInv' /\ KnownHolds
  <2>1. PlayInv /\ SceneNext => PlayInv' /\ KnownHolds
    BY PlayActs, PlayRests DEF SceneNext
  <2>2. PlayInv /\ UNCHANGED sceneVars => PlayInv' /\ KnownHolds
    BY PlayRests DEF sceneVars
  <2>3. QED
    BY <2>1, <2>2
<1>3. PlayInv => Play!PremiumIsConfirmed
  BY PlayIsSound
<1>4. KnownHolds => [\A p \in Purchases : record[p] # None =>
        /\ record'[p] # None
        /\ record[p].acked => record'[p].acked
        /\ record'[p].owner \in {record[p].owner, None}
        /\ \/ record'[p].version >= record[p].version
           \/ \E c \in Reconciliations : calls[c].early /\ latest[p] = c
                               /\ calls[c].step = "stores"]_record
  BY DEF KnownHolds
<1>5. QED
  BY <1>1, <1>2, <1>3, <1>4, PTL DEF SceneSpec, EvidenceIsKept, Play!KnownStays

-----------------------------------------------------------------------------
(* GoogleSignIn *)

FlowSteps == {"none", "url", "save", "open", "opening", "opened", "release", "done"}
LinkSteps == {"idle", "digest", "load", "stale", "consume", "exchange", "bootstrap",
              "authorize", "store", "end"}
Spent == {"exchange", "bootstrap", "authorize", "store"}
AttemptNumbers == 0 .. MaxAttempts
Thens == {"saved", "failed", "idle", "error", "loaded", "stale", "consumed", "end"}
LinkThens == {"loaded", "stale", "consumed", "end"}
KindOf(then) == IF then = "saved" THEN "save" ELSE IF then = "loaded" THEN "load" ELSE "delete"
StepOf(then) == IF then = "loaded" THEN "load" ELSE IF then = "consumed" THEN "consume" ELSE then
StoreOps == [kind : {"save", "delete", "load"}, id : AttemptNumbers, then : Thens]

GoogleTypeOK ==
  /\ attempt \in AttemptNumbers /\ pending \in AttemptNumbers
  /\ flow \in [Google!Attempts -> FlowSteps]
  /\ ready \subseteq Google!Attempts /\ issued \subseteq Google!Attempts
  /\ callback \in [pc : LinkSteps, code : 0 .. MaxAttempts + 1, cur : AttemptNumbers, prev : AttemptNumbers]
  /\ verify \in [pc : {"idle", "enroll", "store"}, cur : AttemptNumbers, prev : AttemptNumbers]
  /\ device \in AttemptNumbers /\ session \in AttemptNumbers
  /\ exchanges \in [Google!Attempts -> Nat]

KindsOK(q) == \A i \in DOMAIN q : q[i].kind = KindOf(q[i].then)
SavesOK(q, f) ==
  \A i \in DOMAIN q : q[i].then = "saved" =>
     /\ q[i].id \in Google!Attempts /\ f[q[i].id] = "save"
     /\ \A j \in DOMAIN q : q[j].then = "saved" /\ q[j].id = q[i].id => j = i
CleanedOK(q, a) ==
  \A i \in DOMAIN q : q[i].then = "saved" /\ q[i].id # a =>
     \E j \in DOMAIN q : j > i /\ q[j].kind = "delete"
LinksOK(q, pc) ==
  /\ \A i \in DOMAIN q : q[i].then \in LinkThens =>
       /\ pc = StepOf(q[i].then)
       /\ \A j \in DOMAIN q : q[j].then \in LinkThens => j = i
  /\ pc = "load" => Len(q) > 0 /\ q[Len(q)].then = "loaded"
FailedOK(q, f) ==
  \A n \in Google!Attempts : f[n] = "release" =>
     \E i \in DOMAIN q : q[i].then = "failed" /\ q[i].id = n
CancelsOK(q, f, N) ==
  \A i \in DOMAIN q : q[i].then \in {"idle", "error"} =>
     q[i].id \notin N /\ (q[i].id # 0 => f[q[i].id] # "none")

(* The calls that wait, given the flows, the attempt, where the link is,   *)
(* and the attempts that nothing may give up any more.                     *)
QueueGood(q, f, a, pc, N) ==
  /\ q \in Seq(StoreOps) /\ KindsOK(q) /\ SavesOK(q, f) /\ CleanedOK(q, a)
  /\ LinksOK(q, pc) /\ FailedOK(q, f) /\ CancelsOK(q, f, N)

Protected == ({attempt} \ {0}) \cup {n \in Google!Attempts : exchanges[n] >= 1}
             \cup (IF callback.pc = "consume" THEN {callback.cur} ELSE {})

QueueOK == QueueGood(ops, flow, attempt, callback.pc, Protected)

FlowsOK ==
  \A n \in Google!Attempts :
    /\ flow[n] \in {"none", "url", "save"} => n \notin ready /\ pending # n /\ exchanges[n] = 0
    /\ flow[n] \in {"none", "url", "save", "open", "release"} => n \notin issued

OnceOK ==
  \A n \in Google!Attempts : exchanges[n] >= 1 =>
    /\ exchanges[n] = 1 /\ pending # n
    /\ attempt = n => callback.cur = n /\ callback.pc \in Spent

SecretOK == ~lost /\ pending \notin {0, attempt} => \E i \in DOMAIN ops : ops[i].kind = "delete"

AttemptOK ==
  /\ attempt # 0 => attempt \in open /\ flow[attempt] \notin {"none", "release"}
  /\ callback.pc \in {"load", "stale", "end"} => attempt = 0
  /\ callback.pc \in Spent \cup {"consume"} => attempt \in {0, callback.cur}

LinkOK ==
  /\ callback.pc = "idle" <=> callback = Google!NoCallback
  /\ callback.code \in Google!Attempts => callback.code \in issued
  /\ callback.pc = "consume" => callback.cur \in ready /\ exchanges[callback.cur] = 0
  /\ callback.pc \in Spent => callback.cur \in Google!Attempts /\ exchanges[callback.cur] >= 1
  /\ callback.pc \in {"consume", "exchange"} =>
       callback.cur \in open \/ (callback.cur \notin issued /\ flow[callback.cur] = "done")
  /\ callback.pc \in {"bootstrap", "authorize", "store"} => callback.cur \in issued
  /\ callback.pc \in {"bootstrap", "authorize"} => callback.cur \in open

Used(n) == n = 0 \/ (n \in issued /\ exchanges[n] >= 1)

ClientsOK ==
  /\ Used(device) /\ Used(session) /\ Used(verify.cur) /\ Used(verify.prev)
  /\ device \in open \cup {0} /\ session \in open \cup {0}
  /\ callback.pc \in {"exchange", "bootstrap", "authorize"} =>
       callback.cur \notin {device, session, verify.cur, verify.prev}
  /\ callback.pc = "authorize" => device = 0
  /\ callback.pc = "store" =>
       /\ device = 0 /\ session = callback.cur /\ callback.prev # callback.cur
       /\ Used(callback.prev) /\ callback.prev \in open \cup {0}
       /\ callback.cur \notin {verify.cur, verify.prev}
  /\ callback.pc = "end" /\ callback.cur # 0 =>
       /\ session = callback.cur => device = 0 \/ (verify.pc = "store" /\ verify.cur = callback.cur)
       /\ verify.pc = "store" => verify.prev # callback.cur

VerifyOK ==
  /\ verify.pc = "idle" <=> verify = Google!NoVerify
  /\ verify.pc # "idle" => verify.cur # 0
  /\ device # 0 /\ device = session => verify.pc = "store" /\ verify.cur = device
  /\ verify.pc = "store" =>
       /\ verify.prev # verify.cur
       /\ verify.prev # 0 => verify.prev # device
       /\ session = verify.cur \/ (callback.pc = "store" /\ callback.prev = verify.cur) =>
            verify.prev \in open \cup {0}

GoogleInv ==
  /\ GoogleTypeOK /\ QueueOK /\ FlowsOK /\ OnceOK /\ SecretOK /\ AttemptOK
  /\ LinkOK /\ ClientsOK /\ VerifyOK


LEMMA NumbersAre ==
  /\ MaxAttempts \in Nat /\ Google!Attempts = 1 .. MaxAttempts
  /\ \A n \in Google!Attempts : n \in AttemptNumbers /\ n # 0 /\ n \in Nat
  /\ 0 \in AttemptNumbers /\ Google!Denied \notin Google!Attempts /\ Google!Denied \in 0 .. MaxAttempts + 1
  /\ \A n \in AttemptNumbers : n # 0 => n \in Google!Attempts
  BY AttemptsAssumption DEF Google!Attempts, AttemptNumbers, Google!Denied

LEMMA GoogleIsSound ==
  ASSUME GoogleInv
  PROVE  AttemptsStayApart
<1>1. Google!VerifierUsedOnce
  BY DEF GoogleInv, GoogleTypeOK, OnceOK, Google!VerifierUsedOnce
<1>2. Google!SecretsHaveAttempt
  BY DEF GoogleInv, SecretOK, Google!SecretsHaveAttempt
<1>3. Google!ClientsInUseAreOpen
  BY DEF GoogleInv, ClientsOK, Google!ClientsInUseAreOpen
<1>4. QED
  BY <1>1, <1>2, <1>3 DEF AttemptsStayApart

LEMMA GoogleStarts == ASSUME Google!Init PROVE GoogleInv
<1> USE NumbersAre
<1>1. GoogleTypeOK
  BY DEF Google!Init, GoogleTypeOK, Google!NoCallback, Google!NoVerify, FlowSteps, LinkSteps
<1>2. QueueOK
  BY DEF Google!Init, QueueOK, QueueGood, KindsOK, SavesOK, CleanedOK, LinksOK, FailedOK, CancelsOK,
         Google!NoCallback
<1>3. FlowsOK /\ OnceOK /\ SecretOK /\ AttemptOK
  BY DEF Google!Init, FlowsOK, OnceOK, SecretOK, AttemptOK, Google!NoCallback, Spent
<1>4. LinkOK
  BY DEF Google!Init, LinkOK, Google!NoCallback, Spent
<1>5. ClientsOK /\ VerifyOK
  BY DEF Google!Init, ClientsOK, VerifyOK, Used, Google!NoCallback, Google!NoVerify
<1>6. QED
  BY <1>1, <1>2, <1>3, <1>4, <1>5 DEF GoogleInv

LEMMA QueueGrows ==
  ASSUME NEW q \in Seq(StoreOps), NEW o \in StoreOps
  PROVE  Append(q, o) \in Seq(StoreOps)
  OBVIOUS

LEMMA QueueMoves ==
  ASSUME NEW q \in Seq(StoreOps), q # <<>>
  PROVE  Tail(q) \in Seq(StoreOps) /\ Head(q) \in StoreOps
  OBVIOUS

LEMMA QueueRests ==
  ASSUME NEW q, NEW f, NEW a, NEW pc, NEW N, QueueGood(q, f, a, pc, N),
         NEW g, NEW b, NEW pd, NEW M,
         \A n \in Google!Attempts : /\ f[n] = "save" => g[n] = "save"
                                    /\ g[n] = "release" => f[n] = "release"
                                    /\ f[n] # "none" => g[n] # "none",
         b = a \/ a = 0,
         \/ pd = pc
         \/ {pc, pd} \cap {"load", "stale", "consume", "end"} = {},
         \A i \in DOMAIN q : q[i].then \in {"idle", "error"} => q[i].id \notin M
  PROVE  QueueGood(q, g, b, pd, M)
<1> USE NumbersAre
<1>a. q \in Seq(StoreOps)
  BY DEF QueueGood
<1>0. \A i \in DOMAIN q : q[i].id \in AttemptNumbers
  <2>1. \A i \in DOMAIN q : q[i] \in StoreOps
    BY <1>a
  <2>2. QED
    BY <2>1 DEF StoreOps
<1>1. SavesOK(q, g)
  BY DEF QueueGood, SavesOK
<1>2. CleanedOK(q, b)
  BY <1>1 DEF QueueGood, CleanedOK, SavesOK
<1>3. LinksOK(q, pd)
  BY DEF QueueGood, LinksOK, StepOf, LinkThens
<1>4. FailedOK(q, g)
  BY DEF QueueGood, FailedOK
<1>5. CancelsOK(q, g, M)
  BY <1>0 DEF QueueGood, CancelsOK
<1>6. QED
  BY <1>1, <1>2, <1>3, <1>4, <1>5 DEF QueueGood

LEMMA QueueLonger ==
  ASSUME NEW q, NEW f, NEW a, NEW pc, NEW N, QueueGood(q, f, a, pc, N),
         NEW g, NEW b, NEW pd, NEW M, NEW o \in StoreOps, o.kind = KindOf(o.then),
         \A n \in Google!Attempts : /\ f[n] = "save" => g[n] = "save"
                                    /\ g[n] = "release" =>
                                         f[n] = "release" \/ (o.then = "failed" /\ o.id = n)
                                    /\ f[n] # "none" => g[n] # "none",
         b = a \/ a = 0 \/ o.kind = "delete",
         o.then = "saved" => /\ o.id \in Google!Attempts /\ f[o.id] # "save" /\ g[o.id] = "save"
                             /\ o.id = b,
         IF o.then \in LinkThens
         THEN pd = StepOf(o.then) /\ pc \notin {"load", "stale", "consume", "end"}
         ELSE pd = pc /\ pc # "load",
         \A i \in DOMAIN q : q[i].then \in {"idle", "error"} => q[i].id \notin M,
         o.then \in {"idle", "error"} => o.id \notin M /\ (o.id # 0 => g[o.id] # "none")
  PROVE  QueueGood(Append(q, o), g, b, pd, M)
<1> USE NumbersAre
<1>a. q \in Seq(StoreOps)
  BY DEF QueueGood
<1>0. \A i \in DOMAIN q : q[i].id \in AttemptNumbers
  <2>1. \A i \in DOMAIN q : q[i] \in StoreOps
    BY <1>a
  <2>2. QED
    BY <2>1 DEF StoreOps
<1>1. PICK r \in Seq(StoreOps) : r = Append(q, o)
  BY <1>a, QueueGrows
<1>2. /\ Len(q) \in Nat /\ DOMAIN q = 1 .. Len(q) /\ Len(r) = Len(q) + 1 /\ DOMAIN r = 1 .. Len(r)
      /\ r[Len(q) + 1] = o /\ \A i \in DOMAIN q : r[i] = q[i] /\ i \in DOMAIN r
      /\ \A i \in DOMAIN r : i \in DOMAIN q \/ i = Len(q) + 1
  BY <1>a, <1>1
<1>3. KindsOK(r)
  BY <1>2 DEF QueueGood, KindsOK
<1>4. SavesOK(r, g)
  BY <1>2 DEF QueueGood, SavesOK
<1>5. CleanedOK(r, b)
  <2>1. ASSUME NEW i \in DOMAIN r, r[i].then = "saved", r[i].id # b
        PROVE  \E j \in DOMAIN r : j > i /\ r[j].kind = "delete"
    <3>1. i \in DOMAIN q /\ i < Len(q) + 1
      BY <1>2, <2>1
    <3>2. CASE o.kind = "delete"
      BY <1>2, <3>1, <3>2
    <3>3. CASE o.kind # "delete"
      <4>1. q[i].id # a
        BY <1>2, <2>1, <3>1, <3>3 DEF QueueGood, SavesOK
      <4>2. PICK j \in DOMAIN q : j > i /\ q[j].kind = "delete"
        BY <1>2, <2>1, <3>1, <4>1 DEF QueueGood, CleanedOK
      <4>3. QED
        BY <1>2, <4>2
    <3>4. QED
      BY <3>2, <3>3
  <2>2. QED
    BY <2>1 DEF CleanedOK
<1>6. LinksOK(r, pd)
  BY <1>2 DEF QueueGood, LinksOK, StepOf, LinkThens
<1>7. FailedOK(r, g)
  <2>1. ASSUME NEW n \in Google!Attempts, g[n] = "release"
        PROVE  \E i \in DOMAIN r : r[i].then = "failed" /\ r[i].id = n
    BY <1>2, <2>1 DEF QueueGood, FailedOK
  <2>2. QED
    BY <2>1 DEF FailedOK
<1>8. CancelsOK(r, g, M)
  BY <1>0, <1>2 DEF QueueGood, CancelsOK
<1>9. QED
  BY <1>1, <1>3, <1>4, <1>5, <1>6, <1>7, <1>8 DEF QueueGood

LEMMA QueueShorter ==
  ASSUME NEW q, NEW f, NEW a, NEW pc, NEW N, QueueGood(q, f, a, pc, N), q # <<>>,
         NEW g, NEW b, NEW pd, NEW M,
         \A n \in Google!Attempts :
            /\ f[n] = "save" /\ ~(Head(q).then = "saved" /\ Head(q).id = n) => g[n] = "save"
            /\ g[n] = "release" => f[n] = "release" /\ ~(Head(q).then = "failed" /\ Head(q).id = n)
            /\ f[n] # "none" => g[n] # "none",
         b = a \/ a = 0,
         IF Head(q).then \in LinkThens THEN pd # "load" ELSE pd = pc,
         \A i \in DOMAIN q : q[i].then \in {"idle", "error"} => q[i].id \notin M
  PROVE  QueueGood(Tail(q), g, b, pd, M)
<1> USE NumbersAre
<1>a. q \in Seq(StoreOps)
  BY DEF QueueGood
<1>0. \A i \in DOMAIN q : q[i].id \in AttemptNumbers
  <2>1. \A i \in DOMAIN q : q[i] \in StoreOps
    BY <1>a
  <2>2. QED
    BY <2>1 DEF StoreOps
<1>1. PICK r \in Seq(StoreOps) : r = Tail(q)
  BY <1>a, QueueMoves
<1>2. /\ Len(q) \in Nat /\ DOMAIN q = 1 .. Len(q) /\ 1 \in DOMAIN q /\ q[1] = Head(q)
      /\ Len(r) = Len(q) - 1 /\ Len(r) \in Nat /\ DOMAIN r = 1 .. Len(r)
      /\ \A i \in DOMAIN r : r[i] = q[i + 1] /\ i + 1 \in DOMAIN q /\ i + 1 > 1 /\ i \in Nat
  BY <1>a, <1>1
<1>3. \A j \in DOMAIN q : j # 1 => j - 1 \in DOMAIN r /\ r[j - 1] = q[j] /\ j \in Nat
  BY <1>2
<1>4. KindsOK(r)
  BY <1>2 DEF QueueGood, KindsOK
<1>5. SavesOK(r, g)
  <2>1. ASSUME NEW i \in DOMAIN r, r[i].then = "saved"
        PROVE  /\ r[i].id \in Google!Attempts /\ g[r[i].id] = "save"
               /\ \A j \in DOMAIN r : r[j].then = "saved" /\ r[j].id = r[i].id => j = i
    <3>1. /\ q[i + 1].id \in Google!Attempts /\ f[q[i + 1].id] = "save"
          /\ \A j \in DOMAIN q : q[j].then = "saved" /\ q[j].id = q[i + 1].id => j = i + 1
      BY <1>2, <2>1 DEF QueueGood, SavesOK
    <3>2. ~(Head(q).then = "saved" /\ Head(q).id = q[i + 1].id)
      BY <1>2, <2>1, <3>1
    <3>3. ASSUME NEW j \in DOMAIN r, r[j].then = "saved", r[j].id = r[i].id PROVE j = i
      <4>1. j + 1 = i + 1
        BY <1>2, <2>1, <3>1, <3>3
      <4>2. QED
        BY <1>2, <4>1
    <3>4. QED
      BY <1>2, <2>1, <3>1, <3>2, <3>3
  <2>2. QED
    BY <2>1 DEF SavesOK
<1>6. CleanedOK(r, b)
  <2>1. ASSUME NEW i \in DOMAIN r, r[i].then = "saved", r[i].id # b
        PROVE  \E j \in DOMAIN r : j > i /\ r[j].kind = "delete"
    <3>1. q[i + 1].id # a /\ q[i + 1].then = "saved" /\ i + 1 \in DOMAIN q
      BY <1>2, <2>1 DEF QueueGood, SavesOK
    <3>2. PICK j \in DOMAIN q : j > i + 1 /\ q[j].kind = "delete"
      BY <3>1 DEF QueueGood, CleanedOK
    <3>3. j # 1 /\ j - 1 > i
      BY <1>2, <3>2
    <3>4. QED
      BY <1>3, <3>2, <3>3
  <2>2. QED
    BY <2>1 DEF CleanedOK
<1>7. LinksOK(r, pd)
  <2>1. ASSUME NEW i \in DOMAIN r, r[i].then \in LinkThens
        PROVE  pd = StepOf(r[i].then) /\ \A j \in DOMAIN r : r[j].then \in LinkThens => j = i
    <3>1. /\ q[i + 1].then \in LinkThens /\ pc = StepOf(q[i + 1].then)
          /\ \A j \in DOMAIN q : q[j].then \in LinkThens => j = i + 1
      BY <1>2, <2>1 DEF QueueGood, LinksOK
    <3>2. Head(q).then \notin LinkThens
      BY <1>2, <3>1
    <3>3. ASSUME NEW j \in DOMAIN r, r[j].then \in LinkThens PROVE j = i
      <4>1. j + 1 = i + 1
        BY <1>2, <3>1, <3>3
      <4>2. QED
        BY <1>2, <4>1
    <3>4. QED
      BY <1>2, <2>1, <3>1, <3>2, <3>3
  <2>2. ASSUME pd = "load" PROVE Len(r) > 0 /\ r[Len(r)].then = "loaded"
    <3>1. Head(q).then \notin LinkThens /\ pc = "load"
      BY <2>2
    <3>2. q[Len(q)].then = "loaded" /\ Len(q) # 1
      BY <1>2, <3>1 DEF QueueGood, LinksOK, LinkThens
    <3>3. QED
      BY <1>2, <3>2
  <2>3. QED
    BY <2>1, <2>2 DEF LinksOK
<1>8. FailedOK(r, g)
  <2>1. ASSUME NEW n \in Google!Attempts, g[n] = "release"
        PROVE  \E i \in DOMAIN r : r[i].then = "failed" /\ r[i].id = n
    <3>1. PICK j \in DOMAIN q : q[j].then = "failed" /\ q[j].id = n
      BY <2>1 DEF QueueGood, FailedOK
    <3>2. j # 1
      BY <1>2, <2>1, <3>1
    <3>3. QED
      BY <1>3, <3>1, <3>2
  <2>2. QED
    BY <2>1 DEF FailedOK
<1>9. CancelsOK(r, g, M)
  BY <1>0, <1>2 DEF QueueGood, CancelsOK
<1>10. QED
  BY <1>1, <1>4, <1>5, <1>6, <1>7, <1>8, <1>9 DEF QueueGood

LEMMA QueueIs ==
  ASSUME GoogleInv
  PROVE  /\ QueueGood(ops, flow, attempt, callback.pc, Protected) /\ ops \in Seq(StoreOps)
         /\ \A i \in DOMAIN ops : ops[i].then \in {"idle", "error"} =>
              ops[i].id \notin Protected /\ (ops[i].id # 0 => flow[ops[i].id] # "none")
  BY DEF GoogleInv, QueueOK, QueueGood, CancelsOK

LEMMA HeadIs ==
  ASSUME GoogleInv, ops # <<>>
  PROVE  /\ Head(ops) \in StoreOps /\ Head(ops).id \in AttemptNumbers
         /\ Head(ops).kind = KindOf(Head(ops).then)
         /\ Head(ops).then = "saved" => /\ Head(ops).id \in Google!Attempts
                                        /\ flow[Head(ops).id] = "save"
         /\ Head(ops).then \in {"idle", "error"} => Head(ops).id \notin Protected
         /\ Head(ops).then \in LinkThens => callback.pc = StepOf(Head(ops).then)
         /\ Head(ops).then = "loaded" => Len(ops) = 1
<1>1. ops \in Seq(StoreOps)
  BY QueueIs
<1>2. Head(ops) \in StoreOps /\ Head(ops) = ops[1] /\ 1 \in DOMAIN ops /\ Len(ops) \in DOMAIN ops
  BY <1>1
<1>3. Head(ops).id \in AttemptNumbers
  BY <1>2 DEF StoreOps
<1>4. /\ Head(ops).kind = KindOf(Head(ops).then)
      /\ Head(ops).then = "saved" => /\ Head(ops).id \in Google!Attempts
                                     /\ flow[Head(ops).id] = "save"
      /\ Head(ops).then \in {"idle", "error"} => Head(ops).id \notin Protected
      /\ Head(ops).then \in LinkThens => callback.pc = StepOf(Head(ops).then)
  BY <1>2, QueueIs DEF QueueGood, KindsOK, SavesOK, LinksOK
<1>5. ASSUME Head(ops).then = "loaded" PROVE Len(ops) = 1
  <2>1. callback.pc = "load" /\ Len(ops) > 0 /\ ops[Len(ops)].then = "loaded"
    BY <1>2, <1>5, QueueIs DEF QueueGood, LinksOK, LinkThens, StepOf
  <2>2. QED
    BY <1>2, <1>5, <2>1, QueueIs DEF QueueGood, LinksOK, LinkThens
<1>6. QED
  BY <1>2, <1>3, <1>4, <1>5

(* The deletion that will clean the store up is still to come. *)
LEMMA DeletionWaits ==
  ASSUME GoogleInv, ops # <<>>, Head(ops).kind # "delete",
         \E i \in DOMAIN ops : ops[i].kind = "delete"
  PROVE  \E i \in DOMAIN Tail(ops) : Tail(ops)[i].kind = "delete"
<1>1. ops \in Seq(StoreOps)
  BY QueueIs
<1>2. PICK i \in DOMAIN ops : ops[i].kind = "delete"
  OBVIOUS
<1>3. PICK r \in Seq(StoreOps) : r = Tail(ops)
  BY <1>1, QueueMoves
<1>4. i # 1 /\ i - 1 \in DOMAIN r /\ r[i - 1] = ops[i]
  BY <1>1, <1>2, <1>3
<1>5. QED
  BY <1>2, <1>3, <1>4

LEMMA DeletionLast ==
  ASSUME NEW q \in Seq(StoreOps), NEW o \in StoreOps, o.kind = "delete"
  PROVE  \E i \in DOMAIN Append(q, o) : Append(q, o)[i].kind = "delete"
<1>1. Len(q) + 1 \in DOMAIN Append(q, o) /\ Append(q, o)[Len(q) + 1] = o
  OBVIOUS
<1>2. QED
  BY <1>1

LEMMA DeletionStays ==
  ASSUME NEW q \in Seq(StoreOps), NEW o \in StoreOps, \E i \in DOMAIN q : q[i].kind = "delete"
  PROVE  \E i \in DOMAIN Append(q, o) : Append(q, o)[i].kind = "delete"
<1>1. PICK i \in DOMAIN q : q[i].kind = "delete"
  OBVIOUS
<1>2. i \in DOMAIN Append(q, o) /\ Append(q, o)[i] = q[i]
  OBVIOUS
<1>3. QED
  BY <1>1, <1>2

LEMMA OpIs ==
  ASSUME NEW id \in AttemptNumbers, NEW then \in Thens
  PROVE  /\ Google!Op(KindOf(then), id, then) \in StoreOps
         /\ Google!Op(KindOf(then), id, then).kind = KindOf(then)
         /\ Google!Op(KindOf(then), id, then).id = id
         /\ Google!Op(KindOf(then), id, then).then = then
  BY DEF Google!Op, StoreOps, KindOf

(* Who is not of a client in use, nor of one that may be again, may be     *)
(* disposed.                                                               *)
LEMMA ClientsStay ==
  ASSUME GoogleInv, UNCHANGED <<callback, device, session, verify>>,
         issued \subseteq issued',
         exchanges' = exchanges,
         NEW c, open \ {c} \subseteq open',
         \/ c = 0
         \/ c \notin {device, session} /\ (Used(c) => c \notin {verify.prev, callback.prev})
  PROVE  ClientsOK' /\ VerifyOK'
<1>1. \A n : Used(n) => Used(n)'
  BY DEF Used
<1>2. Used(verify.prev) /\ (callback.pc = "store" => Used(callback.prev))
      /\ Used(device) /\ Used(session) /\ Used(verify.cur)
  BY DEF GoogleInv, ClientsOK
<1>3. /\ device \in open' \cup {0} /\ session \in open' \cup {0}
      /\ verify.prev \in open \cup {0} => verify.prev \in open' \cup {0}
      /\ callback.pc = "store" /\ callback.prev \in open \cup {0} => callback.prev \in open' \cup {0}
  BY <1>2 DEF GoogleInv, ClientsOK, Used
<1>4. ClientsOK'
  BY <1>1, <1>2, <1>3 DEF GoogleInv, ClientsOK, Used
<1>5. VerifyOK'
  BY <1>3 DEF GoogleInv, VerifyOK
<1>6. QED
  BY <1>4, <1>5

LEMMA ClientsRest ==
  ASSUME GoogleInv, UNCHANGED <<callback, device, session, verify>>,
         issued \subseteq issued', exchanges' = exchanges, open \subseteq open'
  PROVE  ClientsOK' /\ VerifyOK'
<1>1. open \ {0} \subseteq open'
  OBVIOUS
<1>2. QED
  BY <1>1, ClientsStay

LEMMA SignInStep ==
  ASSUME GoogleInv, NEW n \in Google!Attempts, Google!SignIn(n)
  PROVE  GoogleInv'
<1> USE NumbersAre
<1>1. /\ flow[n] = "none" /\ attempt = 0 /\ ~Google!Busy
      /\ attempt' = n /\ open' = open \cup {n} /\ flow' = [flow EXCEPT ![n] = "url"]
      /\ UNCHANGED <<ready, pending, ops, lost, issued, callback, device, verify, session, exchanges>>
  BY DEF Google!SignIn, Google!storeVars, Google!linkVars, Google!deviceVars
<1>2. flow'[n] = "url" /\ flow' \in [Google!Attempts -> FlowSteps]
      /\ \A m \in Google!Attempts : m # n => flow'[m] = flow[m]
  BY <1>1 DEF GoogleInv, GoogleTypeOK, FlowSteps
<1>3. callback.pc = "idle"
  BY <1>1 DEF GoogleInv, LinkOK, Google!Busy
<1>4. GoogleTypeOK'
  BY <1>1, <1>2 DEF GoogleInv, GoogleTypeOK
<1>5. QueueOK'
  <2>1. \A i \in DOMAIN ops : ops[i].then \in {"idle", "error"} => ops[i].id \notin Protected'
    <3>1. Protected' \subseteq Protected \cup {n}
      BY <1>1 DEF Protected
    <3>2. QED
      BY <1>1, <3>1, QueueIs
  <2>2. PICK f, a, M : f = flow' /\ a = attempt' /\ M = Protected'
    OBVIOUS
  <2>3. QueueGood(ops, f, a, callback.pc, M)
    BY <1>1, <1>2, <2>1, <2>2, QueueIs, QueueRests
  <2>4. QED
    BY <1>1, <2>2, <2>3 DEF QueueOK
<1>6. FlowsOK' /\ OnceOK' /\ SecretOK' /\ AttemptOK' /\ LinkOK'
  BY <1>1, <1>2, <1>3 DEF GoogleInv, FlowsOK, OnceOK, SecretOK, AttemptOK, LinkOK, Spent
<1>7. ClientsOK' /\ VerifyOK'
  BY <1>1, ClientsRest
<1>8. QED
  BY <1>4, <1>5, <1>6, <1>7 DEF GoogleInv

(* The catch of an attempt. *)
LEMMA FailsKeeps ==
  ASSUME GoogleInv, NEW n \in Google!Attempts, NEW q,
         QueueGood(q, [flow EXCEPT ![n] = "done"], attempt, callback.pc, Protected),
         flow[n] \in {"url", "save", "opening"}, n \notin issued,
         ~lost /\ pending \notin {0, attempt} => \E i \in DOMAIN q : q[i].kind = "delete",
         Google!SignInFails(n, q),
         UNCHANGED <<ready, pending, lost, issued, callback, device, verify, session, open, exchanges>>
  PROVE  GoogleInv'
<1> USE NumbersAre
<1>1. PICK f \in [Google!Attempts -> FlowSteps] : f = [flow EXCEPT ![n] = "done"]
  BY DEF GoogleInv, GoogleTypeOK, FlowSteps
<1>2. f[n] = "done" /\ \A m \in Google!Attempts : m # n => f[m] = flow[m]
  BY <1>1 DEF GoogleInv, GoogleTypeOK
<1>3. QueueGood(q, f, attempt, callback.pc, Protected) /\ q \in Seq(StoreOps)
  BY <1>1 DEF QueueGood
<1>4. CASE attempt # n
  <2>1. flow' = f /\ UNCHANGED <<attempt>> /\ ops' = q
    BY <1>1, <1>4 DEF Google!SignInFails
  <2>2. GoogleTypeOK'
    BY <2>1 DEF GoogleInv, GoogleTypeOK
  <2>3. QueueOK'
    <3>1. Protected' = Protected
      BY <2>1 DEF Protected
    <3>2. QED
      BY <1>3, <2>1, <3>1 DEF QueueOK
  <2>4. FlowsOK' /\ OnceOK' /\ SecretOK'
    BY <1>2, <2>1 DEF GoogleInv, FlowsOK, OnceOK, SecretOK
  <2>a. AttemptOK'
    BY <1>2, <1>4, <2>1 DEF GoogleInv, GoogleTypeOK, AttemptOK
  <2>b. LinkOK'
    BY <1>2, <2>1 DEF GoogleInv, GoogleTypeOK, LinkOK, Spent
  <2>5. ClientsOK' /\ VerifyOK'
    BY ClientsRest
  <2>6. QED
    BY <2>2, <2>3, <2>4, <2>a, <2>b, <2>5 DEF GoogleInv
<1>5. CASE attempt = n
  <2>1. PICK g \in [Google!Attempts -> FlowSteps] : g = [flow EXCEPT ![n] = "release"]
    BY DEF GoogleInv, GoogleTypeOK, FlowSteps
  <2>2. g[n] = "release" /\ \A m \in Google!Attempts : m # n => g[m] = flow[m]
    BY <2>1 DEF GoogleInv, GoogleTypeOK
  <2>3. PICK o \in StoreOps : o = Google!Op("delete", n, "failed") /\ o.kind = "delete"
                              /\ o.kind = KindOf(o.then) /\ o.id = n /\ o.then = "failed"
    BY OpIs DEF KindOf, Thens
  <2>4. flow' = g /\ attempt' = 0 /\ ops' = Append(q, o)
    BY <1>5, <2>1, <2>3 DEF Google!SignInFails
  <2>5. GoogleTypeOK'
    BY <2>4 DEF GoogleInv, GoogleTypeOK
  <2>6. QueueOK'
    <3>1. Protected' \subseteq Protected
      BY <2>4 DEF Protected
    <3>2. PICK M : M = Protected'
      OBVIOUS
    <3>3. \A i \in DOMAIN q : q[i].then \in {"idle", "error"} => q[i].id \notin M
      BY <1>3, <3>1, <3>2 DEF QueueGood, CancelsOK
    <3>4. callback.pc # "load"
      BY <1>5 DEF GoogleInv, AttemptOK
    <3>5. QueueGood(Append(q, o), g, 0, callback.pc, M)
      <4>1. \A m \in Google!Attempts :
               /\ f[m] = "save" => g[m] = "save"
               /\ g[m] = "release" => f[m] = "release" \/ (o.then = "failed" /\ o.id = m)
               /\ f[m] # "none" => g[m] # "none"
        BY <1>2, <2>2, <2>3
      <4>2. o.then \notin LinkThens /\ o.then # "saved" /\ o.then \notin {"idle", "error"}
        BY <2>3 DEF LinkThens
      <4>3. PICK pc : pc = callback.pc /\ pc # "load"
        BY <3>4
      <4>4. QueueGood(q, f, attempt, pc, Protected)
        BY <1>3, <4>3
      <4>5. QueueGood(Append(q, o), g, 0, pc, M)
        BY <2>3, <3>3, <4>1, <4>2, <4>3, <4>4, QueueLonger
      <4>6. QED
        BY <4>3, <4>5
    <3>6. QED
      BY <2>4, <3>2, <3>5 DEF QueueOK
  <2>7. SecretOK'
    BY <1>3, <2>3, <2>4, DeletionLast DEF SecretOK
  <2>8. FlowsOK' /\ OnceOK'
    BY <2>2, <2>4 DEF GoogleInv, FlowsOK, OnceOK
  <2>a. AttemptOK'
    BY <2>4 DEF GoogleInv, AttemptOK
  <2>b. LinkOK'
    BY <2>2, <2>4 DEF GoogleInv, GoogleTypeOK, LinkOK, Spent
  <2>9. ClientsOK' /\ VerifyOK'
    BY ClientsRest
  <2>10. QED
    BY <2>5, <2>6, <2>7, <2>8, <2>9, <2>a, <2>b DEF GoogleInv
<1>6. QED
  BY <1>4, <1>5

LEMMA SameQueue ==
  ASSUME GoogleInv, UNCHANGED <<ops, attempt, callback, exchanges>>,
         \A n \in Google!Attempts : /\ flow[n] = "save" => flow'[n] = "save"
                                    /\ flow'[n] = "release" => flow[n] = "release"
                                    /\ flow[n] # "none" => flow'[n] # "none"
  PROVE  QueueOK'
<1>1. Protected' = Protected
  BY DEF Protected
<1>2. PICK f : f = flow'
  OBVIOUS
<1>3. QueueGood(ops, f, attempt, callback.pc, Protected)
  <2>1. \A i \in DOMAIN ops : ops[i].then \in {"idle", "error"} => ops[i].id \notin Protected
    BY QueueIs
  <2>2. \A n \in Google!Attempts : /\ flow[n] = "save" => f[n] = "save"
                                   /\ f[n] = "release" => flow[n] = "release"
                                   /\ flow[n] # "none" => f[n] # "none"
    BY <1>2
  <2>3. QED
    BY <2>1, <2>2, QueueIs, QueueRests
<1>4. QED
  BY <1>1, <1>2, <1>3 DEF QueueOK

LEMMA GoogleRests ==
  ASSUME GoogleInv,
         UNCHANGED <<attempt, flow, ready, pending, ops, lost, issued, callback, device, verify,
                     session, open, exchanges>>
  PROVE  GoogleInv'
<1>1. GoogleTypeOK' /\ FlowsOK' /\ OnceOK' /\ SecretOK' /\ AttemptOK' /\ LinkOK'
  BY DEF GoogleInv, GoogleTypeOK, FlowsOK, OnceOK, SecretOK, AttemptOK, LinkOK
<1>2. QueueOK'
  BY SameQueue
<1>3. ClientsOK' /\ VerifyOK'
  BY ClientsRest
<1>4. QED
  BY <1>1, <1>2, <1>3 DEF GoogleInv

(* A flow goes on, and nothing else. *)
LEMMA FlowGoes ==
  ASSUME GoogleInv, NEW n \in Google!Attempts, NEW x \in {"done", "opening", "opened"},
         flow[n] \in {"url", "open", "opening"}, flow' = [flow EXCEPT ![n] = x],
         UNCHANGED <<attempt, ready, pending, ops, lost, issued, callback, device, verify, session,
                     open, exchanges>>
  PROVE  GoogleInv'
<1>1. flow' \in [Google!Attempts -> FlowSteps] /\ flow'[n] = x
      /\ \A m \in Google!Attempts : m # n => flow'[m] = flow[m]
  BY DEF GoogleInv, GoogleTypeOK, FlowSteps
<1>2. GoogleTypeOK' /\ FlowsOK' /\ OnceOK' /\ SecretOK'
  BY <1>1 DEF GoogleInv, GoogleTypeOK, FlowsOK, OnceOK, SecretOK
<1>3. AttemptOK'
  BY <1>1, NumbersAre DEF GoogleInv, GoogleTypeOK, AttemptOK
<1>4. LinkOK'
  BY <1>1, NumbersAre DEF GoogleInv, GoogleTypeOK, LinkOK, Spent
<1>5. QueueOK'
  BY <1>1, SameQueue
<1>6. ClientsOK' /\ VerifyOK'
  BY ClientsRest
<1>7. QED
  BY <1>2, <1>3, <1>4, <1>5, <1>6 DEF GoogleInv

LEMMA UrlReadyStep ==
  ASSUME GoogleInv, NEW n \in Google!Attempts, Google!UrlReady(n)
  PROVE  GoogleInv'
<1> USE NumbersAre
<1>1. /\ flow[n] = "url"
      /\ UNCHANGED <<ready, pending, lost, issued, callback, device, verify, session, open, exchanges>>
  BY DEF Google!UrlReady, Google!linkVars, Google!deviceVars
<1>2. flow \in [Google!Attempts -> FlowSteps] /\ n \notin issued
  BY <1>1 DEF GoogleInv, GoogleTypeOK, FlowsOK
<1>3. CASE Google!SignInFails(n, ops)
  <2>1. PICK f : f = [flow EXCEPT ![n] = "done"]
    OBVIOUS
  <2>2. f[n] = "done" /\ \A m \in Google!Attempts : m # n => f[m] = flow[m]
    BY <1>2, <2>1
  <2>3. QueueGood(ops, f, attempt, callback.pc, Protected)
    BY <1>1, <2>2, QueueIs, QueueRests
  <2>4. ~lost /\ pending \notin {0, attempt} => \E i \in DOMAIN ops : ops[i].kind = "delete"
    BY DEF GoogleInv, SecretOK
  <2>5. QED
    BY <1>1, <1>2, <1>3, <2>1, <2>3, <2>4, FailsKeeps
<1>4. CASE /\ attempt = n /\ flow' = [flow EXCEPT ![n] = "save"]
           /\ Google!Ask(Google!Op("save", n, "saved")) /\ UNCHANGED <<attempt>>
  <2>1. PICK o \in StoreOps : o = Google!Op("save", n, "saved") /\ o.kind = "save"
                              /\ o.kind = KindOf(o.then) /\ o.id = n /\ o.then = "saved"
    BY OpIs DEF KindOf, Thens
  <2>2. PICK f \in [Google!Attempts -> FlowSteps] : f = [flow EXCEPT ![n] = "save"]
    BY <1>2 DEF FlowSteps
  <2>3. f[n] = "save" /\ \A m \in Google!Attempts : m # n => f[m] = flow[m]
    BY <1>2, <2>2
  <2>4. attempt' = attempt /\ flow' = f /\ ops' = Append(ops, o)
    BY <1>4, <2>1, <2>2 DEF Google!Ask
  <2>5. callback.pc # "load"
    BY <1>4 DEF GoogleInv, AttemptOK
  <2>6. QueueOK'
    <3>1. Protected' = Protected
      BY <1>1, <2>4 DEF Protected
    <3>2. QueueGood(Append(ops, o), f, attempt, callback.pc, Protected)
      <4>1. \A m \in Google!Attempts :
               /\ flow[m] = "save" => f[m] = "save"
               /\ f[m] = "release" => flow[m] = "release" \/ (o.then = "failed" /\ o.id = m)
               /\ flow[m] # "none" => f[m] # "none"
        BY <1>1, <2>3
      <4>2. o.then \notin LinkThens /\ o.then \notin {"idle", "error"}
        BY <2>1 DEF LinkThens
      <4>3. o.id \in Google!Attempts /\ flow[o.id] # "save" /\ f[o.id] = "save" /\ o.id = attempt
        BY <1>1, <1>4, <2>1, <2>3
      <4>4. QED
        BY <2>1, <2>5, <4>1, <4>2, <4>3, QueueIs, QueueLonger
    <3>3. QED
      BY <1>1, <2>4, <3>1, <3>2 DEF QueueOK
  <2>7. GoogleTypeOK' /\ FlowsOK' /\ OnceOK'
    BY <1>1, <2>3, <2>4 DEF GoogleInv, GoogleTypeOK, FlowsOK, OnceOK
  <2>8. SecretOK'
    BY <1>1, <2>1, <2>4, DeletionStays, QueueIs DEF GoogleInv, SecretOK
  <2>9. AttemptOK'
    BY <1>1, <2>3, <2>4 DEF GoogleInv, GoogleTypeOK, AttemptOK
  <2>10. LinkOK'
    BY <1>1, <2>3, <2>4 DEF GoogleInv, GoogleTypeOK, LinkOK, Spent
  <2>11. ClientsOK' /\ VerifyOK'
    BY <1>1, ClientsRest
  <2>12. QED
    BY <2>6, <2>7, <2>8, <2>9, <2>10, <2>11 DEF GoogleInv
<1>5. CASE flow' = [flow EXCEPT ![n] = "done"] /\ UNCHANGED <<attempt, timers, ops>>
  BY <1>1, <1>5, FlowGoes
<1>6. QED
  BY <1>3, <1>4, <1>5 DEF Google!UrlReady

LEMMA SavedStep ==
  ASSUME GoogleInv, NEW n \in Google!Attempts, Google!Saved(n)
  PROVE  GoogleInv'
<1> USE NumbersAre
<1>1. PICK ok \in BOOLEAN :
        /\ Google!Answers("save", "saved", ok) /\ Head(ops).id = n
        /\ \/ /\ ok /\ attempt = n /\ ready' = ready \cup {n}
              /\ flow' = [flow EXCEPT ![n] = "open"] /\ ops' = Tail(ops) /\ UNCHANGED attempt
           \/ /\ ok /\ attempt # n /\ flow' = [flow EXCEPT ![n] = "done"]
              /\ ops' = Tail(ops) /\ UNCHANGED <<attempt, ready>>
           \/ ~ok /\ Google!SignInFails(n, Tail(ops)) /\ UNCHANGED ready
  BY DEF Google!Saved
<1>2. flow[n] = "save" /\ UNCHANGED <<issued, callback, device, verify, session, open, exchanges>>
  BY DEF Google!Saved, Google!linkVars, Google!deviceVars
<1>3. /\ ops # <<>> /\ Head(ops).kind = "save" /\ Head(ops).then = "saved" /\ Head(ops).id = n
      /\ pending' = IF ok THEN n ELSE pending
      /\ lost' = IF ok THEN FALSE ELSE lost
  BY <1>1 DEF Google!Answers, Google!Executed, Google!Remembered
<1>4. flow \in [Google!Attempts -> FlowSteps] /\ n \notin issued /\ n \notin ready /\ exchanges[n] = 0
  BY <1>2 DEF GoogleInv, GoogleTypeOK, FlowsOK
<1>5. PICK r \in Seq(StoreOps) : r = Tail(ops)
  BY <1>3, QueueIs, QueueMoves
<1>6. ASSUME NEW x \in {"open", "done"}
      PROVE  QueueGood(r, [flow EXCEPT ![n] = x], attempt, callback.pc, Protected)
  <2>1. PICK f : f = [flow EXCEPT ![n] = x]
    OBVIOUS
  <2>2. f[n] = x /\ \A m \in Google!Attempts : m # n => f[m] = flow[m]
    BY <1>4, <2>1
  <2>3. \A m \in Google!Attempts :
           /\ flow[m] = "save" /\ ~(Head(ops).then = "saved" /\ Head(ops).id = m) => f[m] = "save"
           /\ f[m] = "release" => flow[m] = "release" /\ ~(Head(ops).then = "failed" /\ Head(ops).id = m)
           /\ flow[m] # "none" => f[m] # "none"
    BY <1>3, <2>2
  <2>4. Head(ops).then \notin LinkThens
    BY <1>3 DEF LinkThens
  <2>5. QueueGood(Tail(ops), f, attempt, callback.pc, Protected)
    BY <1>3, <2>3, <2>4, QueueIs, QueueShorter
  <2>6. QED
    BY <1>5, <2>1, <2>5
<1>7. (\E i \in DOMAIN ops : ops[i].kind = "delete") => \E i \in DOMAIN r : r[i].kind = "delete"
  BY <1>3, <1>5, DeletionWaits
<1>8. n # attempt => \E i \in DOMAIN r : r[i].kind = "delete"
  <2>1. SUFFICES ASSUME n # attempt PROVE \E i \in DOMAIN r : r[i].kind = "delete"
    OBVIOUS
  <2>2. 1 \in DOMAIN ops /\ ops[1] = Head(ops)
    BY <1>3, QueueIs
  <2>3. \E j \in DOMAIN ops : j > 1 /\ ops[j].kind = "delete"
    BY <1>3, <2>1, <2>2, QueueIs DEF QueueGood, CleanedOK
  <2>4. QED
    BY <1>7, <2>3
<1>9. CASE ~ok
  <2>1. Google!SignInFails(n, r) /\ UNCHANGED <<ready, pending, lost>>
    BY <1>1, <1>3, <1>5, <1>9
  <2>2. ~lost /\ pending \notin {0, attempt} => \E i \in DOMAIN r : r[i].kind = "delete"
    BY <1>7 DEF GoogleInv, SecretOK
  <2>3. QueueGood(r, [flow EXCEPT ![n] = "done"], attempt, callback.pc, Protected)
    BY <1>6
  <2>4. QED
    BY <1>2, <1>4, <2>1, <2>2, <2>3, FailsKeeps
<1>10. CASE ok
  <2>1. PICK x \in {"open", "done"} :
          flow' = [flow EXCEPT ![n] = x] /\ (x = "open" <=> attempt = n)
    BY <1>1, <1>10
  <2>2. ops' = r /\ attempt' = attempt /\ ready \subseteq ready' /\ ready' \subseteq ready \cup {n}
        /\ pending' = n
    BY <1>1, <1>3, <1>5, <1>10
  <2>3. flow' \in [Google!Attempts -> FlowSteps] /\ flow'[n] = x
        /\ \A m \in Google!Attempts : m # n => flow'[m] = flow[m]
    BY <1>4, <2>1 DEF FlowSteps
  <2>4. QueueOK'
    <3>1. Protected' = Protected
      BY <1>2, <2>2 DEF Protected
    <3>2. QED
      BY <1>2, <1>6, <2>1, <2>2, <3>1 DEF QueueOK
  <2>5. GoogleTypeOK'
    BY <1>2, <2>2, <2>3 DEF GoogleInv, GoogleTypeOK
  <2>6. FlowsOK'
    BY <1>2, <1>4, <2>2, <2>3 DEF GoogleInv, FlowsOK
  <2>7. OnceOK'
    BY <1>2, <1>4, <2>2 DEF GoogleInv, OnceOK
  <2>8. SecretOK'
    BY <1>8, <2>2 DEF SecretOK
  <2>9. AttemptOK'
    BY <1>2, <2>2, <2>3 DEF GoogleInv, GoogleTypeOK, AttemptOK
  <2>10. LinkOK'
    BY <1>2, <2>2, <2>3 DEF GoogleInv, GoogleTypeOK, LinkOK, Spent
  <2>11. ClientsOK' /\ VerifyOK'
    BY <1>2, ClientsRest
  <2>12. QED
    BY <2>4, <2>5, <2>6, <2>7, <2>8, <2>9, <2>10, <2>11 DEF GoogleInv
<1>11. QED
  BY <1>9, <1>10

LEMMA OpensStep ==
  ASSUME GoogleInv, NEW n \in Google!Attempts, Google!Opens(n)
  PROVE  GoogleInv'
<1>1. UNCHANGED <<attempt, ready, pending, ops, lost, issued, callback, device, verify, session,
                  open, exchanges>> /\ flow[n] = "open"
  BY DEF Google!Opens, Google!storeVars, Google!linkVars, Google!deviceVars
<1>2. PICK x \in {"done", "opening", "opened"} : flow' = [flow EXCEPT ![n] = x]
  BY DEF Google!Opens
<1>3. QED
  BY <1>1, <1>2, FlowGoes

LEMMA OpenedStep ==
  ASSUME GoogleInv, NEW n \in Google!Attempts, Google!Opened(n)
  PROVE  GoogleInv'
<1> USE NumbersAre
<1>1. /\ flow[n] = "opening"
      /\ UNCHANGED <<ready, pending, lost, issued, callback, device, verify, session, open, exchanges>>
  BY DEF Google!Opened, Google!linkVars, Google!deviceVars
<1>2. CASE flow' = [flow EXCEPT ![n] = "opened"] /\ UNCHANGED <<attempt, timers, ops>>
  BY <1>1, <1>2, FlowGoes
<1>3. CASE n \notin issued /\ Google!SignInFails(n, ops)
  <2>1. PICK f : f = [flow EXCEPT ![n] = "done"]
    OBVIOUS
  <2>2. f[n] = "done" /\ \A m \in Google!Attempts : m # n => f[m] = flow[m]
    BY <2>1 DEF GoogleInv, GoogleTypeOK
  <2>3. QueueGood(ops, f, attempt, callback.pc, Protected)
    BY <1>1, <2>2, QueueIs, QueueRests
  <2>4. ~lost /\ pending \notin {0, attempt} => \E i \in DOMAIN ops : ops[i].kind = "delete"
    BY DEF GoogleInv, SecretOK
  <2>5. QED
    BY <1>1, <1>3, <2>1, <2>3, <2>4, FailsKeeps
<1>4. QED
  BY <1>2, <1>3 DEF Google!Opened

LEMMA IssuesStep ==
  ASSUME GoogleInv, NEW n \in Google!Attempts, Google!GoogleIssues(n)
  PROVE  GoogleInv'
<1> USE NumbersAre
<1>1. /\ flow[n] \in {"opening", "opened"} /\ issued' = issued \cup {n}
      /\ UNCHANGED <<attempt, flow, ready, pending, ops, lost, callback, device, verify, session,
                     open, exchanges>>
  BY DEF Google!GoogleIssues, Google!flowVars, Google!storeVars, Google!linkVars, Google!deviceVars
<1>2. GoogleTypeOK' /\ FlowsOK' /\ OnceOK' /\ SecretOK' /\ AttemptOK'
  BY <1>1 DEF GoogleInv, GoogleTypeOK, FlowsOK, OnceOK, SecretOK, AttemptOK
<1>3. LinkOK'
  BY <1>1 DEF GoogleInv, LinkOK
<1>4. QueueOK'
  BY <1>1, SameQueue
<1>5. ClientsOK' /\ VerifyOK'
  BY <1>1, ClientsRest
<1>6. QED
  BY <1>2, <1>3, <1>4, <1>5 DEF GoogleInv

(* The answer to a deletion. *)
LEMMA DeleteIs ==
  ASSUME NEW then, NEW ok \in BOOLEAN, Google!Answers("delete", then, ok)
  PROVE  /\ ops # <<>> /\ Head(ops).kind = "delete" /\ Head(ops).then = then
         /\ pending' \in {0, pending} /\ (ok => pending' = 0) /\ (~lost' => pending' = 0)
  BY DEF Google!Answers, Google!Executed, Google!Remembered

LEMMA OpenedIs ==
  ASSUME NEW c, NEW d, NEW s, open' = Google!OpenWithout(c, d, s)
  PROVE  open \ {c} \subseteq open' /\ open' \subseteq open /\ (c \in {d, s} => open' = open)
  BY DEF Google!OpenWithout

LEMMA FailedReleasedStep ==
  ASSUME GoogleInv, NEW n \in Google!Attempts, Google!FailedReleased(n)
  PROVE  GoogleInv'
<1> USE NumbersAre
<1>1. PICK ok \in BOOLEAN : Google!Answers("delete", "failed", ok)
  BY DEF Google!FailedReleased
<1>2. /\ flow[n] = "release" /\ Head(ops).id = n /\ ops' = Tail(ops)
      /\ open' = Google!OpenWithout(n, device, session)
      /\ flow' = [flow EXCEPT ![n] = "done"]
      /\ UNCHANGED <<attempt, ready, issued, callback, device, verify, session, exchanges>>
  BY DEF Google!FailedReleased, Google!linkVars, Google!deviceVars
<1>3. /\ ops # <<>> /\ Head(ops).kind = "delete" /\ Head(ops).then = "failed"
      /\ pending' \in {0, pending} /\ (~lost' => pending' = 0)
  BY <1>1, DeleteIs
<1>4. flow' \in [Google!Attempts -> FlowSteps] /\ flow'[n] = "done" /\ n \notin issued
      /\ attempt # n /\ \A m \in Google!Attempts : m # n => flow'[m] = flow[m]
  BY <1>2 DEF GoogleInv, GoogleTypeOK, FlowsOK, AttemptOK, FlowSteps
<1>5. open \ {n} \subseteq open' /\ (n \in {device, session} => open' = open)
  BY <1>2, OpenedIs
<1>6. GoogleTypeOK'
  BY <1>2, <1>3, <1>4 DEF GoogleInv, GoogleTypeOK
<1>7. QueueOK'
  <2>1. Protected' = Protected
    BY <1>2 DEF Protected
  <2>2. PICK f : f = flow'
    OBVIOUS
  <2>3. \A m \in Google!Attempts :
           /\ flow[m] = "save" /\ ~(Head(ops).then = "saved" /\ Head(ops).id = m) => f[m] = "save"
           /\ f[m] = "release" => flow[m] = "release" /\ ~(Head(ops).then = "failed" /\ Head(ops).id = m)
           /\ flow[m] # "none" => f[m] # "none"
    BY <1>2, <1>4, <2>2
  <2>4. Head(ops).then \notin LinkThens
    BY <1>3 DEF LinkThens
  <2>5. QueueGood(Tail(ops), f, attempt, callback.pc, Protected)
    BY <1>3, <2>3, <2>4, QueueIs, QueueShorter
  <2>6. QED
    BY <1>2, <2>1, <2>2, <2>5 DEF QueueOK
<1>8. FlowsOK' /\ OnceOK' /\ SecretOK'
  BY <1>2, <1>3, <1>4 DEF GoogleInv, FlowsOK, OnceOK, SecretOK
<1>9. AttemptOK'
  BY <1>2, <1>4, <1>5 DEF GoogleInv, GoogleTypeOK, AttemptOK
<1>10. LinkOK'
  BY <1>2, <1>4, <1>5 DEF GoogleInv, GoogleTypeOK, LinkOK, Spent
<1>11. ClientsOK' /\ VerifyOK'
  <2>1. CASE n \in {device, session}
    BY <1>2, <1>5, <2>1, ClientsRest
  <2>2. CASE n \notin {device, session}
    <3>1. ~Used(n)
      BY <1>4 DEF Used
    <3>2. QED
      BY <1>2, <1>5, <2>2, <3>1, ClientsStay
  <2>3. QED
    BY <2>1, <2>2
<1>12. QED
  BY <1>6, <1>7, <1>8, <1>9, <1>10, <1>11 DEF GoogleInv

(* The attempt is given up. *)
LEMMA CancelsKeeps ==
  ASSUME GoogleInv, NEW then \in {"idle", "error"}, Google!Cancels(then),
         UNCHANGED <<flow, ready, pending, lost, issued, callback, device, verify, session, open,
                     exchanges>>
  PROVE  GoogleInv'
<1> USE NumbersAre
<1>1. attempt \in AttemptNumbers /\ callback.pc = "idle"
  BY DEF GoogleInv, GoogleTypeOK, LinkOK, Google!Cancels, Google!Busy
<1>2. PICK o \in StoreOps : o = Google!Op("delete", attempt, then) /\ o.kind = "delete"
                            /\ o.kind = KindOf(o.then) /\ o.id = attempt /\ o.then = then
  BY <1>1, OpIs DEF KindOf, Thens
<1>3. attempt' = 0 /\ ops' = Append(ops, o)
  BY <1>2 DEF Google!Cancels, Google!Ask
<1>4. attempt # 0 => exchanges[attempt] = 0 /\ flow[attempt] # "none"
  BY <1>1 DEF GoogleInv, GoogleTypeOK, OnceOK, AttemptOK, Spent
<1>5. QueueOK'
  <2>1. PICK M : M = Protected'
    OBVIOUS
  <2>2. M \subseteq Protected /\ attempt \notin M
    BY <1>1, <1>3, <1>4, <2>1 DEF Protected
  <2>3. \A i \in DOMAIN ops : ops[i].then \in {"idle", "error"} => ops[i].id \notin M
    BY <2>2, QueueIs
  <2>4. o.then \notin LinkThens /\ o.then # "saved" /\ o.then # "failed"
    BY <1>2 DEF LinkThens
  <2>5. \A m \in Google!Attempts : /\ flow[m] = "save" => flow[m] = "save"
                                   /\ flow[m] = "release" =>
                                        flow[m] = "release" \/ (o.then = "failed" /\ o.id = m)
                                   /\ flow[m] # "none" => flow[m] # "none"
    OBVIOUS
  <2>6. QueueGood(Append(ops, o), flow, 0, callback.pc, M)
    BY <1>1, <1>2, <1>4, <2>2, <2>3, <2>4, <2>5, QueueIs, QueueLonger
  <2>7. QED
    BY <1>3, <2>1, <2>6 DEF QueueOK
<1>6. SecretOK'
  BY <1>2, <1>3, QueueIs, DeletionLast DEF SecretOK
<1>7. GoogleTypeOK' /\ FlowsOK' /\ OnceOK' /\ AttemptOK' /\ LinkOK'
  BY <1>1, <1>3 DEF GoogleInv, GoogleTypeOK, FlowsOK, OnceOK, AttemptOK, LinkOK
<1>8. ClientsOK' /\ VerifyOK'
  BY ClientsRest
<1>9. QED
  BY <1>5, <1>6, <1>7, <1>8 DEF GoogleInv

LEMMA GivesUpStep ==
  ASSUME GoogleInv,
         \/ Google!UserCancels \/ Google!InvalidLink
         \/ \E n \in Google!Attempts : Google!TimerFires(n)
  PROVE  GoogleInv'
<1>1. UNCHANGED <<flow, ready, pending, lost, issued, callback, device, verify, session, open,
                  exchanges>>
  BY DEF Google!UserCancels, Google!InvalidLink, Google!TimerFires, Google!linkVars,
         Google!deviceVars
<1>2. \/ Google!Cancels("idle") \/ Google!Cancels("error")
      \/ UNCHANGED <<attempt, ops>>
  BY DEF Google!UserCancels, Google!InvalidLink, Google!TimerFires
<1>3. CASE Google!Cancels("idle")
  BY <1>1, <1>3, CancelsKeeps
<1>4. CASE Google!Cancels("error")
  BY <1>1, <1>4, CancelsKeeps
<1>5. CASE UNCHANGED <<attempt, ops>>
  BY <1>1, <1>5, GoogleRests
<1>6. QED
  BY <1>2, <1>3, <1>4, <1>5

LEMMA CancelledStep == ASSUME GoogleInv, Google!Cancelled PROVE GoogleInv'
<1> USE NumbersAre
<1>1. PICK ok \in BOOLEAN, then \in {"idle", "error"} :
        /\ Google!Answers("delete", then, ok)
        /\ open' = Google!OpenWithout(Head(ops).id, device, session)
  BY DEF Google!Cancelled
<1>2. /\ ops' = Tail(ops)
      /\ UNCHANGED <<attempt, flow, ready, issued, callback, device, verify, session, exchanges>>
  BY DEF Google!Cancelled, Google!linkVars, Google!deviceVars
<1>3. /\ ops # <<>> /\ Head(ops).then \in {"idle", "error"}
      /\ pending' \in {0, pending} /\ (~lost' => pending' = 0)
  BY <1>1, DeleteIs
<1>4. PICK c \in AttemptNumbers : c = Head(ops).id /\ c \notin Protected
  BY <1>3, HeadIs
<1>5. open \ {c} \subseteq open' /\ (c \in {device, session} => open' = open)
  BY <1>1, <1>4, OpenedIs
<1>6. /\ attempt # 0 => attempt # c
      /\ callback.pc = "consume" => callback.cur # c
      /\ \A m \in Google!Attempts : exchanges[m] >= 1 => m # c
  BY <1>4 DEF Protected
<1>7. GoogleTypeOK'
  BY <1>2, <1>3 DEF GoogleInv, GoogleTypeOK
<1>8. QueueOK'
  <2>1. Protected' = Protected
    BY <1>2 DEF Protected
  <2>2. \A m \in Google!Attempts :
           /\ flow[m] = "save" /\ ~(Head(ops).then = "saved" /\ Head(ops).id = m) => flow[m] = "save"
           /\ flow[m] = "release" => flow[m] = "release" /\ ~(Head(ops).then = "failed" /\ Head(ops).id = m)
           /\ flow[m] # "none" => flow[m] # "none"
    BY <1>3
  <2>3. Head(ops).then \notin LinkThens
    BY <1>3 DEF LinkThens
  <2>4. QueueGood(Tail(ops), flow, attempt, callback.pc, Protected)
    BY <1>3, <2>2, <2>3, QueueIs, QueueShorter
  <2>5. QED
    BY <1>2, <2>1, <2>4 DEF QueueOK
<1>9. FlowsOK' /\ OnceOK' /\ SecretOK'
  BY <1>2, <1>3 DEF GoogleInv, FlowsOK, OnceOK, SecretOK
<1>10. AttemptOK'
  BY <1>2, <1>5, <1>6 DEF GoogleInv, AttemptOK
<1>11. LinkOK'
  BY <1>2, <1>5, <1>6 DEF GoogleInv, LinkOK, Spent
<1>12. ClientsOK' /\ VerifyOK'
  <2>1. CASE c \in {device, session}
    BY <1>2, <1>5, <2>1, ClientsRest
  <2>2. CASE c \notin {device, session}
    <3>1. c = 0 \/ ~Used(c)
      BY <1>4, <1>6 DEF Used
    <3>2. QED
      BY <1>2, <1>5, <2>2, <3>1, ClientsStay
  <2>3. QED
    BY <2>1, <2>2
<1>13. QED
  BY <1>7, <1>8, <1>9, <1>10, <1>11, <1>12 DEF GoogleInv

(* The link ends: the attempt is forgotten and its verifier deleted. *)
LEMMA LinkFailsKeeps ==
  ASSUME GoogleInv, NEW cur \in AttemptNumbers, NEW q, NEW pc,
         QueueGood(q, flow, attempt, pc, Protected),
         pc \notin {"load", "stale", "consume", "end"},
         Google!LinkFails(cur, q), pending' \in {0, pending},
         ready \subseteq ready', ready' \subseteq ready \cup ({pending} \ {0}),
         device' \in AttemptNumbers, session' \in AttemptNumbers,
         UNCHANGED <<flow, issued, verify, exchanges>>
  PROVE  /\ GoogleTypeOK' /\ QueueOK' /\ FlowsOK' /\ OnceOK' /\ SecretOK' /\ AttemptOK' /\ LinkOK'
         /\ callback'.pc = "end" /\ callback'.cur = cur /\ callback'.prev = callback.prev
<1> USE NumbersAre
<1>1. PICK o \in StoreOps : o = Google!Op("delete", cur, "end") /\ o.kind = "delete"
                            /\ o.kind = KindOf(o.then) /\ o.id = cur /\ o.then = "end"
  BY OpIs DEF KindOf, Thens
<1>2. attempt' = 0 /\ ops' = Append(q, o) /\ callback' = [callback EXCEPT !.pc = "end", !.cur = cur]
  BY <1>1 DEF Google!LinkFails
<1>3. /\ callback' \in [pc : LinkSteps, code : 0 .. MaxAttempts + 1, cur : AttemptNumbers, prev : AttemptNumbers]
      /\ callback'.pc = "end" /\ callback'.cur = cur /\ callback'.code = callback.code
      /\ callback'.prev = callback.prev
  BY <1>2 DEF GoogleInv, GoogleTypeOK, LinkSteps
<1>4. q \in Seq(StoreOps)
  BY DEF QueueGood
<1>5. GoogleTypeOK'
  BY <1>2, <1>3 DEF GoogleInv, GoogleTypeOK
<1>6. QueueOK'
  <2>1. PICK M : M = Protected'
    OBVIOUS
  <2>2. M \subseteq Protected
    BY <1>2, <1>3, <2>1 DEF Protected
  <2>3. \A i \in DOMAIN q : q[i].then \in {"idle", "error"} => q[i].id \notin M
    BY <2>2 DEF QueueGood, CancelsOK
  <2>4. o.then \in LinkThens /\ o.then # "saved" /\ o.then # "failed" /\ StepOf(o.then) = "end"
        /\ o.then \notin {"idle", "error"}
    BY <1>1 DEF LinkThens, StepOf
  <2>5. \A m \in Google!Attempts : /\ flow[m] = "save" => flow[m] = "save"
                                   /\ flow[m] = "release" =>
                                        flow[m] = "release" \/ (o.then = "failed" /\ o.id = m)
                                   /\ flow[m] # "none" => flow[m] # "none"
    OBVIOUS
  <2>6. QueueGood(Append(q, o), flow, 0, "end", M)
    BY <1>1, <2>3, <2>4, <2>5, QueueLonger
  <2>7. QED
    BY <1>2, <1>3, <2>1, <2>6 DEF QueueOK
<1>7. FlowsOK'
  BY DEF GoogleInv, FlowsOK
<1>8. OnceOK'
  BY <1>2 DEF GoogleInv, OnceOK
<1>9. SecretOK'
  BY <1>1, <1>2, <1>4, DeletionLast DEF SecretOK
<1>10. AttemptOK'
  BY <1>2, <1>3 DEF AttemptOK, Spent
<1>11. LinkOK'
  <2>1. callback' # Google!NoCallback
    BY <1>3 DEF Google!NoCallback
  <2>2. QED
    BY <1>3, <2>1 DEF GoogleInv, LinkOK, Spent
<1>12. QED
  BY <1>3, <1>5, <1>6, <1>7, <1>8, <1>9, <1>10, <1>11

LEMMA LinkFailsClients ==
  ASSUME GoogleInv, NEW cur, callback'.pc = "end", callback'.cur = cur,
         UNCHANGED <<device, session, verify, issued, exchanges>>, open \subseteq open',
         cur = 0 \/ cur \notin {session, verify.prev}
  PROVE  ClientsOK' /\ VerifyOK'
  BY DEF GoogleInv, ClientsOK, VerifyOK, Used

(* The attempt is known: it ends, or its verifier is consumed. *)
LEMMA ProceedsKeeps ==
  ASSUME GoogleInv, NEW cur \in AttemptNumbers, NEW q, NEW code \in 0 .. MaxAttempts + 1,
         code \in Google!Attempts => code \in issued,
         callback.code \in Google!Attempts => callback.code \in issued,
         NEW pc, QueueGood(q, flow, attempt, pc, Protected),
         pc \notin {"load", "stale", "consume", "end"},
         Google!Proceeds(code, cur, q), pending' \in {0, pending},
         ready \subseteq ready', ready' \subseteq ready \cup ({pending} \ {0}),
         open \subseteq open', attempt \in {0, cur},
         cur # 0 => /\ exchanges[cur] = 0 /\ cur \in open' /\ flow[cur] \notin {"none", "release"}
                    /\ \A i \in DOMAIN q : q[i].then \in {"idle", "error"} => q[i].id # cur,
         UNCHANGED <<flow, issued, device, session, verify>>
  PROVE  GoogleInv'
<1> USE NumbersAre
<1>1. exchanges' = exchanges
  BY DEF Google!Proceeds
<1>2. device' \in AttemptNumbers /\ session' \in AttemptNumbers
  BY DEF GoogleInv, GoogleTypeOK
<1>3. CASE Google!LinkFails(cur, q)
  <2>1. /\ GoogleTypeOK' /\ QueueOK' /\ FlowsOK' /\ OnceOK' /\ SecretOK' /\ AttemptOK' /\ LinkOK'
        /\ callback'.pc = "end" /\ callback'.cur = cur
    BY <1>1, <1>2, <1>3, LinkFailsKeeps
  <2>2. cur = 0 \/ cur \notin {session, verify.prev}
    BY DEF GoogleInv, ClientsOK, Used
  <2>3. ClientsOK' /\ VerifyOK'
    BY <1>1, <2>1, <2>2, LinkFailsClients
  <2>4. QED
    BY <2>1, <2>3 DEF GoogleInv
<1>4. CASE ~Google!LinkFails(cur, q)
  <2>1. PICK o \in StoreOps : o = Google!Op("delete", cur, "consumed") /\ o.kind = "delete"
                              /\ o.kind = KindOf(o.then) /\ o.id = cur /\ o.then = "consumed"
    BY OpIs DEF KindOf, Thens
  <2>2. /\ cur # 0 /\ cur \in ready' /\ attempt' = cur /\ ops' = Append(q, o)
        /\ callback' = [callback EXCEPT !.pc = "consume", !.cur = cur, !.code = code]
    BY <1>4, <2>1 DEF Google!Proceeds
  <2>3. /\ callback' \in [pc : LinkSteps, code : 0 .. MaxAttempts + 1, cur : AttemptNumbers, prev : AttemptNumbers]
        /\ callback'.pc = "consume" /\ callback'.cur = cur /\ callback'.code = code
    BY <2>2 DEF GoogleInv, GoogleTypeOK, LinkSteps
  <2>4. q \in Seq(StoreOps)
    BY DEF QueueGood
  <2>5. GoogleTypeOK'
    BY <1>1, <2>2, <2>3 DEF GoogleInv, GoogleTypeOK
  <2>6. QueueOK'
    <3>1. PICK M : M = Protected'
      OBVIOUS
    <3>2. M \subseteq Protected \cup {cur}
      BY <1>1, <2>2, <2>3, <3>1 DEF Protected
    <3>3. \A i \in DOMAIN q : q[i].then \in {"idle", "error"} => q[i].id \notin M
      BY <2>2, <3>2 DEF QueueGood, CancelsOK
    <3>4. o.then \in LinkThens /\ o.then # "saved" /\ o.then # "failed" /\ StepOf(o.then) = "consume"
          /\ o.then \notin {"idle", "error"}
      BY <2>1 DEF LinkThens, StepOf
    <3>5. \A m \in Google!Attempts : /\ flow[m] = "save" => flow[m] = "save"
                                     /\ flow[m] = "release" =>
                                          flow[m] = "release" \/ (o.then = "failed" /\ o.id = m)
                                     /\ flow[m] # "none" => flow[m] # "none"
      OBVIOUS
    <3>6. QueueGood(Append(q, o), flow, cur, "consume", M)
      BY <2>1, <3>3, <3>4, <3>5, QueueLonger
    <3>7. QED
      BY <2>2, <2>3, <3>1, <3>6 DEF QueueOK
  <2>7. FlowsOK'
    BY <1>1 DEF GoogleInv, FlowsOK
  <2>8. OnceOK'
    BY <1>1, <2>2 DEF GoogleInv, OnceOK
  <2>9. SecretOK'
    BY <2>1, <2>2, <2>4, DeletionLast DEF SecretOK
  <2>10. AttemptOK'
    BY <2>2, <2>3 DEF AttemptOK, Spent
  <2>11. LinkOK'
    <3>1. callback' # Google!NoCallback
      BY <2>3 DEF Google!NoCallback
    <3>2. QED
      BY <1>1, <2>2, <2>3, <3>1 DEF LinkOK, Spent
  <2>12. ClientsOK' /\ VerifyOK'
    BY <1>1, <2>3 DEF GoogleInv, ClientsOK, VerifyOK, Used
  <2>13. QED
    BY <2>5, <2>6, <2>7, <2>8, <2>9, <2>10, <2>11, <2>12 DEF GoogleInv
<1>5. QED
  BY <1>3, <1>4

(* The attempt is looked for, here or in the store. *)
LEMMA LooksKeeps ==
  ASSUME GoogleInv, callback.pc \in {"idle", "digest"}, NEW code \in 0 .. MaxAttempts + 1,
         code \in Google!Attempts => code \in issued, Google!Looks(code),
         UNCHANGED <<flow, issued, pending, lost, device, session, verify, open>>
  PROVE  GoogleInv'
<1> USE NumbersAre
<1>1. attempt \in AttemptNumbers /\ pending \in AttemptNumbers
  BY DEF GoogleInv, GoogleTypeOK
<1>2. CASE attempt # 0
  <2>1. Google!Proceeds(code, attempt, ops) /\ ready' = ready
    BY <1>2 DEF Google!Looks
  <2>2. /\ exchanges[attempt] = 0 /\ attempt \in open'
        /\ flow[attempt] \notin {"none", "release"}
    BY <1>1, <1>2 DEF GoogleInv, GoogleTypeOK, OnceOK, AttemptOK, Spent
  <2>3. \A i \in DOMAIN ops : ops[i].then \in {"idle", "error"} => ops[i].id # attempt
    BY <1>2, QueueIs DEF Protected
  <2>4. callback.code \in Google!Attempts => callback.code \in issued
    BY DEF GoogleInv, LinkOK
  <2>5. QED
    BY <1>1, <2>1, <2>2, <2>3, <2>4, QueueIs, ProceedsKeeps
<1>3. CASE attempt = 0
  <2>1. PICK o \in StoreOps : o = Google!Op("load", 0, "loaded") /\ o.kind = "load"
                              /\ o.kind = KindOf(o.then) /\ o.id = 0 /\ o.then = "loaded"
    BY OpIs DEF KindOf, Thens
  <2>2. /\ ops' = Append(ops, o) /\ callback' = [callback EXCEPT !.pc = "load", !.code = code]
        /\ UNCHANGED <<attempt, ready, exchanges>>
    BY <1>3, <2>1 DEF Google!Looks, Google!Ask
  <2>3. /\ callback' \in [pc : LinkSteps, code : 0 .. MaxAttempts + 1, cur : AttemptNumbers, prev : AttemptNumbers]
        /\ callback'.pc = "load" /\ callback'.code = code
    BY <2>2 DEF GoogleInv, GoogleTypeOK, LinkSteps
  <2>4. GoogleTypeOK'
    BY <2>2, <2>3 DEF GoogleInv, GoogleTypeOK
  <2>5. QueueOK'
    <3>1. Protected' = Protected
      BY <2>2, <2>3 DEF Protected
    <3>2. o.then \in LinkThens /\ o.then # "saved" /\ o.then # "failed" /\ StepOf(o.then) = "load"
          /\ o.then \notin {"idle", "error"}
      BY <2>1 DEF LinkThens, StepOf
    <3>3. \A m \in Google!Attempts : /\ flow[m] = "save" => flow[m] = "save"
                                     /\ flow[m] = "release" =>
                                          flow[m] = "release" \/ (o.then = "failed" /\ o.id = m)
                                     /\ flow[m] # "none" => flow[m] # "none"
      OBVIOUS
    <3>4. QueueGood(Append(ops, o), flow, attempt, "load", Protected)
      BY <2>1, <3>2, <3>3, QueueIs, QueueLonger
    <3>5. QED
      BY <2>2, <2>3, <3>1, <3>4 DEF QueueOK
  <2>6. FlowsOK' /\ OnceOK' /\ AttemptOK'
    BY <1>3, <2>2, <2>3 DEF GoogleInv, FlowsOK, OnceOK, AttemptOK, Spent
  <2>7. SecretOK'
    BY <2>1, <2>2, DeletionStays, QueueIs DEF GoogleInv, SecretOK
  <2>8. LinkOK'
    <3>1. callback' # Google!NoCallback
      BY <2>3 DEF Google!NoCallback
    <3>2. QED
      BY <2>3, <3>1 DEF LinkOK, Spent
  <2>9. ClientsOK' /\ VerifyOK'
    BY <2>2, <2>3 DEF GoogleInv, ClientsOK, VerifyOK, Used
  <2>10. QED
    BY <2>4, <2>5, <2>6, <2>7, <2>8, <2>9 DEF GoogleInv
<1>4. QED
  BY <1>2, <1>3

(* What the link waits for is no call of the store, before and after. *)
LEMMA QueueStays ==
  ASSUME GoogleInv, UNCHANGED <<ops, flow, exchanges>>, attempt' \in {0, attempt},
         attempt = 0 \/ attempt' = attempt \/ flow[attempt] # "save",
         {callback.pc, callback'.pc} \cap {"load", "stale", "consume", "end"} = {}
  PROVE  QueueOK'
<1> USE NumbersAre
<1>1. PICK a, pc, M : a = attempt' /\ pc = callback'.pc /\ M = Protected'
  OBVIOUS
<1>2. M \subseteq Protected
  BY <1>1 DEF Protected
<1>3. QueueGood(ops, flow, a, callback.pc, Protected)
  <2>1. CleanedOK(ops, a)
    BY <1>1, QueueIs DEF QueueGood, CleanedOK, SavesOK
  <2>2. QED
    BY <2>1, QueueIs DEF QueueGood
<1>4. \A i \in DOMAIN ops : ops[i].then \in {"idle", "error"} => ops[i].id \notin M
  BY <1>2, QueueIs
<1>5. \A m \in Google!Attempts : /\ flow[m] = "save" => flow[m] = "save"
                                 /\ flow[m] = "release" => flow[m] = "release"
                                 /\ flow[m] # "none" => flow[m] # "none"
  OBVIOUS
<1>6. QueueGood(ops, flow, a, pc, M)
  BY <1>1, <1>3, <1>4, <1>5, QueueRests
<1>7. QED
  BY <1>1, <1>6 DEF QueueOK

LEMMA LinkArrivesStep ==
  ASSUME GoogleInv, NEW code \in Google!Attempts, Google!LinkArrives(code)
  PROVE  GoogleInv'
<1> USE NumbersAre
<1>1. /\ code \in issued /\ ~Google!Busy
      /\ callback' = [callback EXCEPT !.pc = "digest", !.code = code]
      /\ UNCHANGED <<attempt, flow, ready, pending, ops, lost, issued, device, verify, session, open,
                     exchanges>>
  BY DEF Google!LinkArrives, Google!flowVars, Google!storeVars, Google!deviceVars
<1>2. /\ callback' \in [pc : LinkSteps, code : 0 .. MaxAttempts + 1, cur : AttemptNumbers, prev : AttemptNumbers]
      /\ callback'.pc = "digest" /\ callback'.code = code /\ callback.pc = "idle"
      /\ callback' # Google!NoCallback
  <2>1. callback.pc = "idle"
    BY <1>1 DEF GoogleInv, LinkOK, Google!Busy
  <2>2. code \in 0 .. MaxAttempts + 1
    OBVIOUS
  <2>3. QED
    BY <1>1, <2>1, <2>2 DEF GoogleInv, GoogleTypeOK, LinkSteps, Google!NoCallback
<1>3. GoogleTypeOK' /\ FlowsOK' /\ OnceOK' /\ SecretOK' /\ AttemptOK'
  BY <1>1, <1>2 DEF GoogleInv, GoogleTypeOK, FlowsOK, OnceOK, SecretOK, AttemptOK, Spent
<1>4. LinkOK'
  BY <1>1, <1>2 DEF LinkOK, Spent
<1>5. QueueOK'
  BY <1>1, <1>2, QueueStays
<1>6. ClientsOK' /\ VerifyOK'
  BY <1>1, <1>2 DEF GoogleInv, ClientsOK, VerifyOK, Used
<1>7. QED
  BY <1>3, <1>4, <1>5, <1>6 DEF GoogleInv

LEMMA DenialArrivesStep == ASSUME GoogleInv, Google!DenialArrives PROVE GoogleInv'
<1>1. /\ ~Google!Busy /\ Google!Looks(Google!Denied)
      /\ UNCHANGED <<flow, pending, lost, issued, device, verify, session, open>>
  BY DEF Google!DenialArrives, Google!deviceVars
<1>2. callback.pc = "idle"
  BY <1>1 DEF GoogleInv, LinkOK, Google!Busy
<1>3. QED
  BY <1>1, <1>2, NumbersAre, LooksKeeps

LEMMA DigestedStep == ASSUME GoogleInv, Google!Digested PROVE GoogleInv'
<1> USE NumbersAre
<1>1. /\ callback.pc = "digest"
      /\ UNCHANGED <<flow, pending, lost, issued, device, verify, session, open>>
  BY DEF Google!Digested, Google!deviceVars
<1>2. CASE callback' = Google!NoCallback /\ UNCHANGED <<attempt, ready, ops, exchanges>>
  <2>1. callback'.pc = "idle" /\ callback'.code = 0
        /\ callback' \in [pc : LinkSteps, code : 0 .. MaxAttempts + 1, cur : AttemptNumbers, prev : AttemptNumbers]
    BY <1>2 DEF Google!NoCallback, LinkSteps
  <2>2. GoogleTypeOK' /\ FlowsOK' /\ OnceOK' /\ SecretOK' /\ AttemptOK'
    BY <1>1, <1>2, <2>1 DEF GoogleInv, GoogleTypeOK, FlowsOK, OnceOK, SecretOK, AttemptOK, Spent
  <2>3. LinkOK'
    BY <1>1, <1>2, <2>1 DEF LinkOK, Spent
  <2>4. QueueOK'
    BY <1>1, <1>2, <2>1, QueueStays
  <2>5. ClientsOK' /\ VerifyOK'
    BY <1>1, <1>2, <2>1 DEF GoogleInv, ClientsOK, VerifyOK, Used
  <2>6. QED
    BY <2>2, <2>3, <2>4, <2>5 DEF GoogleInv
<1>3. CASE Google!Looks(callback.code)
  <2>1. PICK code \in 0 .. MaxAttempts + 1 : code = callback.code
    BY DEF GoogleInv, GoogleTypeOK
  <2>2. code \in Google!Attempts => code \in issued
    BY <2>1 DEF GoogleInv, LinkOK
  <2>3. Google!Looks(code)
    BY <1>3, <2>1
  <2>4. QED
    BY <1>1, <2>2, <2>3, LooksKeeps
<1>4. QED
  BY <1>2, <1>3 DEF Google!Digested

(* The first call of the queue was answered to the link. *)
LEMMA LinkAnswered ==
  ASSUME GoogleInv, ops # <<>>, Head(ops).then \in LinkThens, NEW pc, pc # "load",
         NEW M, \A i \in DOMAIN ops : ops[i].then \in {"idle", "error"} => ops[i].id \notin M
  PROVE  QueueGood(Tail(ops), flow, attempt, pc, M)
<1>1. \A m \in Google!Attempts :
         /\ flow[m] = "save" /\ ~(Head(ops).then = "saved" /\ Head(ops).id = m) => flow[m] = "save"
         /\ flow[m] = "release" => flow[m] = "release" /\ ~(Head(ops).then = "failed" /\ Head(ops).id = m)
         /\ flow[m] # "none" => flow[m] # "none"
  BY DEF LinkThens
<1>2. QED
  BY <1>1, QueueIs, QueueShorter

LEMMA LoadedStep == ASSUME GoogleInv, Google!Loaded PROVE GoogleInv'
<1> USE NumbersAre
<1>1. PICK ok \in BOOLEAN :
        /\ Google!Answers("load", "loaded", ok)
        /\ \/ /\ ok /\ pending # 0 /\ ready' = ready \cup {pending} /\ open' = open \cup {pending}
              /\ Google!Proceeds(callback.code, pending, Tail(ops))
           \/ /\ callback' = [callback EXCEPT !.pc = "stale"]
              /\ ops' = Append(Tail(ops), Google!Op("delete", 0, "stale"))
              /\ UNCHANGED <<attempt, ready, open, exchanges>>
           \/ UNCHANGED <<ready, open>> /\ Google!Proceeds(callback.code, 0, Tail(ops))
  BY DEF Google!Loaded
<1>2. UNCHANGED <<flow, issued, device, verify, session>>
  BY DEF Google!Loaded, Google!deviceVars
<1>3. /\ ops # <<>> /\ Head(ops).kind = "load" /\ Head(ops).then = "loaded"
      /\ pending' = pending /\ lost' = lost
  BY <1>1 DEF Google!Answers, Google!Executed, Google!Remembered
<1>4. /\ callback.pc = "load" /\ attempt = 0 /\ ops \in Seq(StoreOps) /\ Len(ops) = 1
      /\ Head(ops).then \in LinkThens
  BY <1>3, HeadIs, QueueIs DEF GoogleInv, AttemptOK, LinkThens, StepOf
<1>5. PICK q \in Seq(StoreOps) : q = Tail(ops) /\ Len(q) = 0 /\ DOMAIN q = {}
  <2>1. PICK r \in Seq(StoreOps) : r = Tail(ops)
    BY <1>3, <1>4, QueueMoves
  <2>2. Len(r) = 0
    BY <1>4, <2>1
  <2>3. DOMAIN r = {}
    BY <2>2
  <2>4. QED
    BY <2>1, <2>2, <2>3
<1>6. QueueGood(q, flow, attempt, "idle", Protected)
  BY <1>3, <1>4, <1>5, QueueIs, LinkAnswered
<1>7. PICK code \in 0 .. MaxAttempts + 1 :
        code = callback.code /\ (code \in Google!Attempts => code \in issued)
  BY DEF GoogleInv, GoogleTypeOK, LinkOK
<1>8. pending \in AttemptNumbers
  BY DEF GoogleInv, GoogleTypeOK
<1>9. CASE /\ pending # 0 /\ ready' = ready \cup {pending} /\ open' = open \cup {pending}
           /\ Google!Proceeds(callback.code, pending, Tail(ops))
  <2>1. exchanges[pending] = 0
    BY <1>8, <1>9 DEF GoogleInv, GoogleTypeOK, OnceOK
  <2>2. flow[pending] \notin {"none", "release"}
    <3>1. flow[pending] # "none"
      BY <1>8, <1>9 DEF GoogleInv, FlowsOK
    <3>2. ASSUME flow[pending] = "release" PROVE FALSE
      <4>1. PICK i \in DOMAIN ops : ops[i].then = "failed"
        BY <1>8, <1>9, <3>2, QueueIs DEF QueueGood, FailedOK
      <4>2. i = 1 /\ ops[1] = Head(ops)
        BY <1>4, <4>1
      <4>3. QED
        BY <1>3, <4>1, <4>2
    <3>3. QED
      BY <3>1, <3>2
  <2>3. Google!Proceeds(code, pending, q)
    BY <1>5, <1>7, <1>9
  <2>4. QED
    BY <1>2, <1>3, <1>4, <1>5, <1>6, <1>7, <1>8, <1>9, <2>1, <2>2, <2>3, ProceedsKeeps
<1>10. CASE /\ callback' = [callback EXCEPT !.pc = "stale"]
            /\ ops' = Append(Tail(ops), Google!Op("delete", 0, "stale"))
            /\ UNCHANGED <<attempt, ready, open, exchanges>>
  <2>1. PICK o \in StoreOps : o = Google!Op("delete", 0, "stale") /\ o.kind = "delete"
                              /\ o.kind = KindOf(o.then) /\ o.id = 0 /\ o.then = "stale"
    BY OpIs DEF KindOf, Thens
  <2>2. /\ callback' \in [pc : LinkSteps, code : 0 .. MaxAttempts + 1, cur : AttemptNumbers, prev : AttemptNumbers]
        /\ callback'.pc = "stale" /\ callback'.code = code /\ callback' # Google!NoCallback
    BY <1>7, <1>10 DEF GoogleInv, GoogleTypeOK, LinkSteps, Google!NoCallback
  <2>3. ops' = Append(q, o)
    BY <1>5, <1>10, <2>1
  <2>4. GoogleTypeOK'
    BY <1>2, <1>3, <1>10, <2>2 DEF GoogleInv, GoogleTypeOK
  <2>5. QueueOK'
    <3>1. Protected' = Protected
      BY <1>4, <1>10, <2>2 DEF Protected
    <3>2. o.then \in LinkThens /\ o.then # "saved" /\ o.then # "failed" /\ StepOf(o.then) = "stale"
          /\ o.then \notin {"idle", "error"}
      BY <2>1 DEF LinkThens, StepOf
    <3>3. \A m \in Google!Attempts : /\ flow[m] = "save" => flow[m] = "save"
                                     /\ flow[m] = "release" =>
                                          flow[m] = "release" \/ (o.then = "failed" /\ o.id = m)
                                     /\ flow[m] # "none" => flow[m] # "none"
      OBVIOUS
    <3>4. \A i \in DOMAIN q : q[i].then \in {"idle", "error"} => q[i].id \notin Protected
      BY <1>5
    <3>5. QueueGood(Append(q, o), flow, attempt, "stale", Protected)
      BY <1>6, <2>1, <3>2, <3>3, <3>4, QueueLonger
    <3>6. QED
      BY <1>2, <1>10, <2>2, <2>3, <3>1, <3>5 DEF QueueOK
  <2>6. FlowsOK' /\ OnceOK' /\ AttemptOK'
    BY <1>2, <1>3, <1>4, <1>10, <2>2 DEF GoogleInv, FlowsOK, OnceOK, AttemptOK, Spent
  <2>7. SecretOK'
    BY <2>1, <2>3, DeletionLast DEF SecretOK
  <2>8. LinkOK'
    BY <1>2, <1>7, <2>2 DEF LinkOK, Spent
  <2>9. ClientsOK' /\ VerifyOK'
    BY <1>2, <1>10, <2>2 DEF GoogleInv, ClientsOK, VerifyOK, Used
  <2>10. QED
    BY <2>4, <2>5, <2>6, <2>7, <2>8, <2>9 DEF GoogleInv
<1>11. CASE UNCHANGED <<ready, open>> /\ Google!Proceeds(callback.code, 0, Tail(ops))
  <2>1. Google!Proceeds(code, 0, q)
    BY <1>5, <1>7, <1>11
  <2>2. QED
    BY <1>2, <1>3, <1>4, <1>6, <1>7, <1>11, <2>1, ProceedsKeeps
<1>12. QED
  BY <1>1, <1>9, <1>10, <1>11

LEMMA StaleDeletedStep == ASSUME GoogleInv, Google!StaleDeleted PROVE GoogleInv'
<1>1. PICK ok \in BOOLEAN : Google!Answers("delete", "stale", ok)
  BY DEF Google!StaleDeleted
<1>2. /\ Google!LinkFails(0, Tail(ops))
      /\ UNCHANGED <<flow, ready, issued, device, verify, session, open, exchanges>>
  BY DEF Google!StaleDeleted, Google!deviceVars
<1>3. ops # <<>> /\ Head(ops).then \in LinkThens /\ pending' \in {0, pending}
  BY <1>1, DeleteIs DEF LinkThens
<1>4. PICK q : q = Tail(ops)
  OBVIOUS
<1>5. QueueGood(q, flow, attempt, "idle", Protected)
  BY <1>3, <1>4, QueueIs, LinkAnswered
<1>6. device' \in AttemptNumbers /\ session' \in AttemptNumbers
  BY <1>2 DEF GoogleInv, GoogleTypeOK
<1>7. Google!LinkFails(0, q)
  BY <1>2, <1>4
<1>8. /\ GoogleTypeOK' /\ QueueOK' /\ FlowsOK' /\ OnceOK' /\ SecretOK' /\ AttemptOK' /\ LinkOK'
      /\ callback'.pc = "end" /\ callback'.cur = 0
  BY <1>2, <1>3, <1>5, <1>6, <1>7, NumbersAre, LinkFailsKeeps
<1>9. ClientsOK' /\ VerifyOK'
  BY <1>2, <1>8, LinkFailsClients
<1>10. QED
  BY <1>8, <1>9 DEF GoogleInv

(* A call of the cloud, or of the store that was answered, failed. *)
LEMMA LinkFailsStep ==
  ASSUME GoogleInv, NEW q, NEW pc, QueueGood(q, flow, attempt, pc, Protected),
         pc \notin {"load", "stale", "consume", "end"},
         callback.pc \in {"consume", "exchange", "bootstrap", "authorize"},
         Google!LinkFails(callback.cur, q), pending' \in {0, pending},
         UNCHANGED <<flow, ready, issued, device, verify, session, open, exchanges>>
  PROVE  GoogleInv'
<1>1. PICK cur \in AttemptNumbers : cur = callback.cur
  BY DEF GoogleInv, GoogleTypeOK
<1>2. cur = 0 \/ cur \notin {session, verify.prev}
  BY <1>1 DEF GoogleInv, ClientsOK, LinkOK, Used
<1>3. device' \in AttemptNumbers /\ session' \in AttemptNumbers
  BY DEF GoogleInv, GoogleTypeOK
<1>4. Google!LinkFails(cur, q)
  BY <1>1
<1>5. /\ GoogleTypeOK' /\ QueueOK' /\ FlowsOK' /\ OnceOK' /\ SecretOK' /\ AttemptOK' /\ LinkOK'
      /\ callback'.pc = "end" /\ callback'.cur = cur
  BY <1>3, <1>4, LinkFailsKeeps
<1>6. ClientsOK' /\ VerifyOK'
  BY <1>2, <1>5, LinkFailsClients
<1>7. QED
  BY <1>5, <1>6 DEF GoogleInv

LEMMA ConsumedStep == ASSUME GoogleInv, Google!Consumed PROVE GoogleInv'
<1> USE NumbersAre
<1>1. PICK ok \in BOOLEAN :
        /\ Google!Answers("delete", "consumed", ok)
        /\ IF ok THEN /\ callback' = [callback EXCEPT !.pc = "exchange"]
                      /\ exchanges' = [exchanges EXCEPT ![callback.cur] = @ + 1]
                      /\ ops' = Tail(ops) /\ UNCHANGED attempt
           ELSE Google!LinkFails(callback.cur, Tail(ops)) /\ UNCHANGED exchanges
  BY DEF Google!Consumed
<1>2. UNCHANGED <<flow, ready, issued, device, verify, session, open>>
  BY DEF Google!Consumed, Google!deviceVars
<1>3. /\ ops # <<>> /\ Head(ops).then = "consumed" /\ Head(ops).then \in LinkThens
      /\ pending' \in {0, pending} /\ (ok => pending' = 0)
  BY <1>1, DeleteIs DEF LinkThens
<1>4. callback.pc = "consume"
  BY <1>3, HeadIs DEF StepOf
<1>5. PICK cur \in Google!Attempts : cur = callback.cur /\ exchanges[cur] = 0 /\ cur \in ready
  BY <1>4 DEF GoogleInv, GoogleTypeOK, LinkOK
<1>6. CASE ok
  <2>1. /\ callback' \in [pc : LinkSteps, code : 0 .. MaxAttempts + 1, cur : AttemptNumbers, prev : AttemptNumbers]
        /\ callback'.pc = "exchange" /\ callback'.code = callback.code /\ callback'.cur = cur
        /\ callback' # Google!NoCallback
    BY <1>1, <1>5, <1>6 DEF GoogleInv, GoogleTypeOK, LinkSteps, Google!NoCallback
  <2>2. /\ exchanges' \in [Google!Attempts -> Nat] /\ exchanges'[cur] = 1
        /\ \A m \in Google!Attempts : m # cur => exchanges'[m] = exchanges[m]
    BY <1>1, <1>5, <1>6 DEF GoogleInv, GoogleTypeOK
  <2>3. ops' = Tail(ops) /\ attempt' = attempt /\ pending' = 0
    BY <1>1, <1>3, <1>6
  <2>4. attempt \in {0, cur}
    BY <1>4, <1>5 DEF GoogleInv, AttemptOK
  <2>5. GoogleTypeOK'
    BY <1>2, <2>1, <2>2, <2>3 DEF GoogleInv, GoogleTypeOK
  <2>6. QueueOK'
    <3>1. PICK M : M = Protected'
      OBVIOUS
    <3>2. M \subseteq Protected
      BY <1>4, <1>5, <2>1, <2>2, <2>3, <3>1 DEF Protected
    <3>3. \A i \in DOMAIN ops : ops[i].then \in {"idle", "error"} => ops[i].id \notin M
      BY <3>2, QueueIs
    <3>4. QueueGood(Tail(ops), flow, attempt, "exchange", M)
      BY <1>3, <3>3, LinkAnswered
    <3>5. QED
      BY <1>2, <2>1, <2>3, <3>1, <3>4 DEF QueueOK
  <2>7. FlowsOK'
    BY <1>2, <1>5, <2>2, <2>3 DEF GoogleInv, FlowsOK
  <2>8. OnceOK'
    BY <1>4, <2>1, <2>2, <2>3, <2>4 DEF GoogleInv, OnceOK, Spent
  <2>9. SecretOK'
    BY <2>3 DEF SecretOK
  <2>10. AttemptOK'
    BY <1>2, <2>1, <2>3, <2>4 DEF GoogleInv, AttemptOK
  <2>11. LinkOK'
    BY <1>2, <1>4, <1>5, <2>1, <2>2 DEF GoogleInv, LinkOK, Spent
  <2>12. ClientsOK'
    <3>1. ASSUME NEW n, Used(n) PROVE Used(n)'
      <4>1. CASE n = 0
        BY <4>1 DEF Used
      <4>2. CASE n \in issued /\ exchanges[n] >= 1
        <5>1. n \in Google!Attempts /\ n \in issued'
          BY <1>2, <4>2 DEF GoogleInv, GoogleTypeOK
        <5>2. exchanges'[n] >= 1
          BY <2>2, <4>2, <5>1
        <5>3. QED
          BY <5>1, <5>2 DEF Used
      <4>3. QED
        BY <3>1, <4>1, <4>2 DEF Used
    <3>2. ~Used(cur)
      BY <1>5 DEF Used
    <3>3. Used(device) /\ Used(session) /\ Used(verify.cur) /\ Used(verify.prev)
          /\ device \in open \cup {0} /\ session \in open \cup {0}
      BY DEF GoogleInv, ClientsOK
    <3>4. Used(device)' /\ Used(session)' /\ Used(verify.cur)' /\ Used(verify.prev)'
      BY <1>2, <3>1, <3>3 DEF Used
    <3>5. QED
      BY <1>2, <2>1, <3>2, <3>3, <3>4 DEF ClientsOK
  <2>13. VerifyOK'
    BY <1>2, <2>1 DEF GoogleInv, VerifyOK
  <2>14. QED
    BY <2>5, <2>6, <2>7, <2>8, <2>9, <2>10, <2>11, <2>12, <2>13 DEF GoogleInv
<1>7. CASE ~ok
  <2>1. PICK q : q = Tail(ops)
    OBVIOUS
  <2>2. QueueGood(q, flow, attempt, "idle", Protected)
    BY <1>3, <2>1, QueueIs, LinkAnswered
  <2>3. Google!LinkFails(callback.cur, q) /\ UNCHANGED exchanges
    BY <1>1, <1>7, <2>1
  <2>4. QED
    BY <1>2, <1>3, <1>4, <2>2, <2>3, LinkFailsStep
<1>8. QED
  BY <1>6, <1>7

LEMMA ExchangedStep == ASSUME GoogleInv, Google!Exchanged PROVE GoogleInv'
<1> USE NumbersAre
<1>1. callback.pc = "exchange" /\ callback.pc \notin {"load", "stale", "consume", "end"}
      /\ UNCHANGED <<flow, ready, pending, lost, issued, device, verify, session, open, exchanges>>
  BY DEF Google!Exchanged, Google!deviceVars
<1>2. CASE /\ callback.code = callback.cur /\ callback' = [callback EXCEPT !.pc = "bootstrap"]
           /\ UNCHANGED <<attempt, ops>>
  <2>1. /\ callback' \in [pc : LinkSteps, code : 0 .. MaxAttempts + 1, cur : AttemptNumbers, prev : AttemptNumbers]
        /\ callback'.pc = "bootstrap" /\ callback'.code = callback.code
        /\ callback'.cur = callback.cur /\ callback'.prev = callback.prev
        /\ callback' # Google!NoCallback
    BY <1>2 DEF GoogleInv, GoogleTypeOK, LinkSteps, Google!NoCallback
  <2>2. GoogleTypeOK' /\ FlowsOK' /\ OnceOK' /\ SecretOK' /\ AttemptOK'
    BY <1>1, <1>2, <2>1 DEF GoogleInv, GoogleTypeOK, FlowsOK, OnceOK, SecretOK, AttemptOK, Spent
  <2>3. LinkOK'
    BY <1>1, <1>2, <2>1 DEF GoogleInv, LinkOK, Spent
  <2>4. QueueOK'
    BY <1>1, <1>2, <2>1, QueueStays
  <2>5. ClientsOK' /\ VerifyOK'
    BY <1>1, <1>2, <2>1 DEF GoogleInv, ClientsOK, VerifyOK, Used
  <2>6. QED
    BY <2>2, <2>3, <2>4, <2>5 DEF GoogleInv
<1>3. CASE Google!LinkFails(callback.cur, ops)
  BY <1>1, <1>3, QueueIs, LinkFailsStep
<1>4. QED
  BY <1>2, <1>3 DEF Google!Exchanged

LEMMA BootstrappedStep == ASSUME GoogleInv, Google!Bootstrapped PROVE GoogleInv'
<1> USE NumbersAre
<1>1. callback.pc = "bootstrap" /\ callback.pc \notin {"load", "stale", "consume", "end"}
      /\ UNCHANGED <<flow, ready, pending, lost, issued, verify, session, exchanges>>
  BY DEF Google!Bootstrapped
<1>2. CASE /\ callback' = [callback EXCEPT !.pc = "authorize"] /\ device' = 0
           /\ open' = Google!OpenWithout(device, 0, session) /\ UNCHANGED <<attempt, ops>>
  <2>1. /\ callback' \in [pc : LinkSteps, code : 0 .. MaxAttempts + 1, cur : AttemptNumbers, prev : AttemptNumbers]
        /\ callback'.pc = "authorize" /\ callback'.code = callback.code
        /\ callback'.cur = callback.cur /\ callback'.prev = callback.prev
        /\ callback' # Google!NoCallback
    BY <1>2 DEF GoogleInv, GoogleTypeOK, LinkSteps, Google!NoCallback
  <2>2. open \ {device} \subseteq open' /\ (device \in {0, session} => open' = open)
    BY <1>2, OpenedIs
  <2>3. callback.cur # device /\ callback.cur \in open'
    BY <1>1, <2>2 DEF GoogleInv, ClientsOK, LinkOK
  <2>4. GoogleTypeOK' /\ FlowsOK' /\ OnceOK' /\ SecretOK'
    BY <1>1, <1>2, <2>1 DEF GoogleInv, GoogleTypeOK, FlowsOK, OnceOK, SecretOK, Spent
  <2>5. AttemptOK'
    BY <1>1, <1>2, <2>1, <2>3 DEF GoogleInv, AttemptOK, Spent
  <2>6. LinkOK'
    BY <1>1, <1>2, <2>1, <2>3 DEF GoogleInv, LinkOK, Spent
  <2>7. QueueOK'
    BY <1>1, <1>2, <2>1, QueueStays
  <2>8. ClientsOK'
    <3>1. /\ Used(device)' /\ Used(session)' /\ Used(verify.cur)' /\ Used(verify.prev)'
      BY <1>1, <1>2 DEF GoogleInv, ClientsOK, Used
    <3>2. device' \in open' \cup {0} /\ session' \in open' \cup {0}
      BY <1>1, <1>2, <2>2 DEF GoogleInv, ClientsOK
    <3>3. callback'.cur \notin {device', session', verify'.cur, verify'.prev} /\ device' = 0
      BY <1>1, <1>2, <2>1, NumbersAre DEF GoogleInv, ClientsOK, LinkOK, Spent
    <3>4. QED
      BY <2>1, <3>1, <3>2, <3>3 DEF ClientsOK
  <2>9. VerifyOK'
    BY <1>1, <1>2, <2>1, <2>2 DEF GoogleInv, VerifyOK, ClientsOK
  <2>10. QED
    BY <2>4, <2>5, <2>6, <2>7, <2>8, <2>9 DEF GoogleInv
<1>3. CASE Google!LinkFails(callback.cur, ops) /\ UNCHANGED <<device, open>>
  BY <1>1, <1>3, QueueIs, LinkFailsStep
<1>4. QED
  BY <1>2, <1>3 DEF Google!Bootstrapped

LEMMA AuthorizedStep == ASSUME GoogleInv, Google!Authorized PROVE GoogleInv'
<1> USE NumbersAre
<1>1. callback.pc = "authorize" /\ callback.pc \notin {"load", "stale", "consume", "end"}
      /\ UNCHANGED <<flow, ready, pending, lost, issued, verify, open, exchanges>>
  BY DEF Google!Authorized
<1>2. PICK cur \in Google!Attempts :
        /\ cur = callback.cur /\ cur \in issued /\ exchanges[cur] >= 1 /\ cur \in open
        /\ cur \notin {device, session, verify.cur, verify.prev} /\ device = 0
  BY <1>1 DEF GoogleInv, LinkOK, ClientsOK, Spent
<1>3. CASE /\ callback' = [callback EXCEPT !.pc = "store", !.prev = session]
           /\ session' = callback.cur /\ UNCHANGED <<attempt, ops, device>>
  <2>1. /\ callback' \in [pc : LinkSteps, code : 0 .. MaxAttempts + 1, cur : AttemptNumbers, prev : AttemptNumbers]
        /\ callback'.pc = "store" /\ callback'.code = callback.code
        /\ callback'.cur = cur /\ callback'.prev = session
        /\ callback' # Google!NoCallback
    BY <1>2, <1>3 DEF GoogleInv, GoogleTypeOK, LinkSteps, Google!NoCallback
  <2>2. GoogleTypeOK' /\ FlowsOK' /\ OnceOK' /\ SecretOK'
    BY <1>1, <1>2, <1>3, <2>1 DEF GoogleInv, GoogleTypeOK, FlowsOK, OnceOK, SecretOK, Spent
  <2>3. AttemptOK' /\ LinkOK'
    BY <1>1, <1>2, <1>3, <2>1 DEF GoogleInv, AttemptOK, LinkOK, Spent
  <2>4. QueueOK'
    BY <1>1, <1>3, <2>1, QueueStays
  <2>5. ClientsOK'
    BY <1>1, <1>2, <1>3, <2>1 DEF GoogleInv, ClientsOK, Used
  <2>6. VerifyOK'
    BY <1>1, <1>2, <1>3, <2>1 DEF GoogleInv, VerifyOK
  <2>7. QED
    BY <2>2, <2>3, <2>4, <2>5, <2>6 DEF GoogleInv
<1>4. CASE device' = callback.cur /\ Google!LinkFails(callback.cur, ops) /\ UNCHANGED session
  <2>1. device' = cur /\ session' = session /\ Google!LinkFails(cur, ops)
        /\ device' \in AttemptNumbers /\ session' \in AttemptNumbers
    BY <1>2, <1>4 DEF GoogleInv, GoogleTypeOK
  <2>2. /\ GoogleTypeOK' /\ QueueOK' /\ FlowsOK' /\ OnceOK' /\ SecretOK' /\ AttemptOK' /\ LinkOK'
        /\ callback'.pc = "end" /\ callback'.cur = cur
    BY <1>1, <2>1, QueueIs, LinkFailsKeeps
  <2>3. ClientsOK'
    BY <1>1, <1>2, <2>1, <2>2 DEF GoogleInv, ClientsOK, Used
  <2>4. VerifyOK'
    BY <1>1, <1>2, <2>1, <2>2 DEF GoogleInv, VerifyOK
  <2>5. QED
    BY <2>2, <2>3, <2>4 DEF GoogleInv
<1>5. CASE Google!LinkFails(callback.cur, ops) /\ UNCHANGED <<device, session>>
  BY <1>1, <1>5, QueueIs, LinkFailsStep
<1>6. QED
  BY <1>3, <1>4, <1>5 DEF Google!Authorized

LEMMA StoredStep == ASSUME GoogleInv, Google!Stored PROVE GoogleInv'
<1> USE NumbersAre
<1>1. callback.pc = "store" /\ callback.pc \notin {"load", "stale", "consume", "end"}
      /\ UNCHANGED <<flow, ready, pending, lost, issued, device, verify, exchanges>>
  BY DEF Google!Stored
<1>2. PICK cur \in Google!Attempts :
        /\ cur = callback.cur /\ cur \in issued /\ exchanges[cur] >= 1 /\ session = cur
        /\ cur \notin {verify.cur, verify.prev} /\ device = 0 /\ callback.prev # cur
        /\ attempt \in {0, cur} /\ pending # cur /\ flow[cur] # "save"
  BY <1>1 DEF GoogleInv, LinkOK, ClientsOK, AttemptOK, OnceOK, FlowsOK, Spent
<1>3. CASE /\ open' = open \ ({callback.prev} \ {0}) /\ attempt' = 0
           /\ callback' = Google!NoCallback /\ UNCHANGED <<session, ops>>
  <2>1. /\ callback' \in [pc : LinkSteps, code : 0 .. MaxAttempts + 1, cur : AttemptNumbers, prev : AttemptNumbers]
        /\ callback'.pc = "idle" /\ callback'.code = 0 /\ callback'.cur = 0
    BY <1>3 DEF LinkSteps, Google!NoCallback
  <2>2. GoogleTypeOK' /\ FlowsOK' /\ OnceOK'
    BY <1>1, <1>2, <1>3, <2>1 DEF GoogleInv, GoogleTypeOK, FlowsOK, OnceOK
  <2>3. SecretOK' /\ AttemptOK' /\ LinkOK'
    BY <1>1, <1>2, <1>3, <2>1 DEF GoogleInv, SecretOK, AttemptOK, LinkOK, Spent
  <2>4. QueueOK'
    BY <1>1, <1>2, <1>3, <2>1, QueueStays
  <2>5. ClientsOK'
    BY <1>1, <1>2, <1>3, <2>1 DEF GoogleInv, ClientsOK, Used
  <2>6. VerifyOK'
    BY <1>1, <1>2, <1>3, <2>1 DEF GoogleInv, VerifyOK
  <2>7. QED
    BY <2>2, <2>3, <2>4, <2>5, <2>6 DEF GoogleInv
<1>4. CASE /\ session' = IF session = callback.cur THEN callback.prev ELSE session
           /\ Google!LinkFails(callback.cur, ops) /\ UNCHANGED open
  <2>1. session' = callback.prev /\ Google!LinkFails(cur, ops)
        /\ device' \in AttemptNumbers /\ session' \in AttemptNumbers
    BY <1>1, <1>2, <1>4 DEF GoogleInv, GoogleTypeOK
  <2>2. /\ GoogleTypeOK' /\ QueueOK' /\ FlowsOK' /\ OnceOK' /\ SecretOK' /\ AttemptOK' /\ LinkOK'
        /\ callback'.pc = "end" /\ callback'.cur = cur
    BY <1>1, <2>1, QueueIs, LinkFailsKeeps
  <2>3. ClientsOK'
    BY <1>1, <1>2, <1>4, <2>1, <2>2 DEF GoogleInv, ClientsOK, Used
  <2>4. VerifyOK'
    BY <1>1, <1>2, <1>4, <2>1, <2>2 DEF GoogleInv, VerifyOK
  <2>5. QED
    BY <2>2, <2>3, <2>4 DEF GoogleInv
<1>5. QED
  BY <1>3, <1>4 DEF Google!Stored

LEMMA LinkEndsStep == ASSUME GoogleInv, Google!LinkEnds PROVE GoogleInv'
<1> USE NumbersAre
<1>1. PICK ok \in BOOLEAN : Google!Answers("delete", "end", ok)
  BY DEF Google!LinkEnds
<1>2. /\ ops' = Tail(ops) /\ callback' = Google!NoCallback
      /\ open' = Google!OpenWithout(callback.cur, device, session)
      /\ UNCHANGED <<attempt, flow, ready, issued, device, verify, session, exchanges>>
  BY DEF Google!LinkEnds, Google!deviceVars
<1>3. /\ ops # <<>> /\ Head(ops).then = "end" /\ Head(ops).then \in LinkThens
      /\ pending' \in {0, pending} /\ (~lost' => pending' = 0)
  BY <1>1, DeleteIs DEF LinkThens
<1>4. callback.pc = "end" /\ attempt = 0
  BY <1>3, HeadIs DEF StepOf, GoogleInv, AttemptOK
<1>5. /\ callback' \in [pc : LinkSteps, code : 0 .. MaxAttempts + 1, cur : AttemptNumbers, prev : AttemptNumbers]
      /\ callback'.pc = "idle" /\ callback'.code = 0
  BY <1>2 DEF LinkSteps, Google!NoCallback
<1>6. open \ {callback.cur} \subseteq open' /\ (callback.cur \in {device, session} => open' = open)
  BY <1>2, OpenedIs
<1>7. GoogleTypeOK' /\ FlowsOK' /\ OnceOK' /\ SecretOK'
  BY <1>2, <1>3, <1>4, <1>5 DEF GoogleInv, GoogleTypeOK, FlowsOK, OnceOK, SecretOK
<1>8. AttemptOK' /\ LinkOK'
  BY <1>2, <1>4, <1>5 DEF AttemptOK, LinkOK, Spent
<1>9. QueueOK'
  <2>1. PICK M : M = Protected'
    OBVIOUS
  <2>2. M \subseteq Protected
    BY <1>2, <1>5, <2>1 DEF Protected
  <2>3. \A i \in DOMAIN ops : ops[i].then \in {"idle", "error"} => ops[i].id \notin M
    BY <2>2, QueueIs
  <2>4. QueueGood(Tail(ops), flow, attempt, "idle", M)
    BY <1>3, <2>3, LinkAnswered
  <2>5. QED
    BY <1>2, <1>5, <2>1, <2>4 DEF QueueOK
<1>10. ClientsOK'
  BY <1>2, <1>4, <1>5, <1>6 DEF GoogleInv, ClientsOK, Used
<1>11. VerifyOK'
  BY <1>2, <1>4, <1>5, <1>6 DEF GoogleInv, VerifyOK, ClientsOK
<1>12. QED
  BY <1>7, <1>8, <1>9, <1>10, <1>11 DEF GoogleInv

(* A client in use was exchanged, so no link is about to use it. *)
LEMMA UsedIsApart ==
  ASSUME GoogleInv, NEW c, c # 0, Used(c), c \in {device, verify.prev}
  PROVE  /\ attempt # c
         /\ callback.pc \in {"consume", "exchange", "bootstrap", "authorize"} => callback.cur # c
  BY NumbersAre DEF GoogleInv, GoogleTypeOK, Used, OnceOK, ClientsOK, LinkOK, Spent

LEMMA DeviceCancelledStep == ASSUME GoogleInv, Google!DeviceCancelled PROVE GoogleInv'
<1> USE NumbersAre
<1>1. /\ device # 0 /\ device' = 0 /\ open' = Google!OpenWithout(device, 0, session)
      /\ UNCHANGED <<attempt, flow, ready, pending, ops, lost, issued, callback, verify, session,
                     exchanges>>
  BY DEF Google!DeviceCancelled, Google!flowVars, Google!storeVars, Google!linkVars
<1>2. open \ {device} \subseteq open' /\ (device \in {0, session} => open' = open)
  BY <1>1, OpenedIs
<1>3. /\ attempt # device /\ callback.pc # "store"
      /\ callback.pc \in {"consume", "exchange", "bootstrap", "authorize"} => callback.cur # device
  BY <1>1, UsedIsApart DEF GoogleInv, ClientsOK
<1>4. GoogleTypeOK' /\ FlowsOK' /\ OnceOK' /\ SecretOK'
  BY <1>1 DEF GoogleInv, GoogleTypeOK, FlowsOK, OnceOK, SecretOK
<1>5. AttemptOK' /\ LinkOK'
  BY <1>1, <1>2, <1>3 DEF GoogleInv, AttemptOK, LinkOK
<1>6. QueueOK'
  BY <1>1, SameQueue
<1>7. ClientsOK'
  <2>1. Used(device)' /\ Used(session)' /\ Used(verify.cur)' /\ Used(verify.prev)'
    BY <1>1 DEF GoogleInv, ClientsOK, Used
  <2>2. device' \in open' \cup {0} /\ session' \in open' \cup {0}
    BY <1>1, <1>2 DEF GoogleInv, ClientsOK
  <2>3. callback.pc \in {"exchange", "bootstrap", "authorize"} =>
          callback.cur \notin {device', session', verify'.cur, verify'.prev}
    BY <1>1 DEF GoogleInv, ClientsOK, LinkOK, Spent
  <2>4. QED
    BY <1>1, <1>3, <2>1, <2>2, <2>3 DEF GoogleInv, ClientsOK
<1>8. VerifyOK'
  BY <1>1, <1>2, <1>3 DEF GoogleInv, VerifyOK, ClientsOK
<1>9. QED
  BY <1>4, <1>5, <1>6, <1>7, <1>8 DEF GoogleInv

LEMMA VerifyBeginsStep == ASSUME GoogleInv, Google!VerifyBegins PROVE GoogleInv'
<1> USE NumbersAre
<1>1. /\ device # 0 /\ verify = Google!NoVerify
      /\ verify' = [verify EXCEPT !.pc = "enroll", !.cur = device]
      /\ UNCHANGED <<attempt, flow, ready, pending, ops, lost, issued, callback, device, session, open,
                     exchanges>>
  BY DEF Google!VerifyBegins, Google!flowVars, Google!storeVars, Google!linkVars
<1>2. /\ verify' \in [pc : {"idle", "enroll", "store"}, cur : AttemptNumbers, prev : AttemptNumbers]
      /\ verify'.pc = "enroll" /\ verify'.cur = device /\ verify'.prev = 0
      /\ verify' # Google!NoVerify /\ verify.pc = "idle"
  BY <1>1 DEF GoogleInv, GoogleTypeOK, Google!NoVerify
<1>3. GoogleTypeOK' /\ FlowsOK' /\ OnceOK' /\ SecretOK' /\ AttemptOK' /\ LinkOK'
  BY <1>1, <1>2 DEF GoogleInv, GoogleTypeOK, FlowsOK, OnceOK, SecretOK, AttemptOK, LinkOK
<1>4. QueueOK'
  BY <1>1, SameQueue
<1>5. ClientsOK'
  BY <1>1, <1>2 DEF GoogleInv, ClientsOK, LinkOK, Used, Spent
<1>6. VerifyOK'
  BY <1>1, <1>2 DEF GoogleInv, VerifyOK
<1>7. QED
  BY <1>3, <1>4, <1>5, <1>6 DEF GoogleInv

LEMMA EnrolledStep == ASSUME GoogleInv, Google!Enrolled PROVE GoogleInv'
<1> USE NumbersAre
<1>1. /\ verify.pc = "enroll"
      /\ UNCHANGED <<attempt, flow, ready, pending, ops, lost, issued, callback, device, open,
                     exchanges>>
  BY DEF Google!Enrolled, Google!flowVars, Google!storeVars, Google!linkVars
<1>2. CASE /\ device = verify.cur /\ verify' = [verify EXCEPT !.pc = "store", !.prev = session]
           /\ session' = verify.cur
  <2>1. /\ verify' \in [pc : {"idle", "enroll", "store"}, cur : AttemptNumbers, prev : AttemptNumbers]
        /\ verify'.pc = "store" /\ verify'.cur = device /\ verify'.prev = session
        /\ session' = device /\ verify' # Google!NoVerify
    BY <1>2 DEF GoogleInv, GoogleTypeOK, Google!NoVerify
  <2>2. device # 0 /\ device # session
    BY <1>1, <1>2 DEF GoogleInv, VerifyOK
  <2>3. GoogleTypeOK' /\ FlowsOK' /\ OnceOK' /\ SecretOK' /\ AttemptOK' /\ LinkOK'
    BY <1>1, <2>1 DEF GoogleInv, GoogleTypeOK, FlowsOK, OnceOK, SecretOK, AttemptOK, LinkOK
  <2>4. QueueOK'
    BY <1>1, SameQueue
  <2>5. ClientsOK'
    BY <1>1, <2>1, <2>2 DEF GoogleInv, ClientsOK, Used
  <2>6. VerifyOK'
    BY <1>1, <2>1, <2>2 DEF GoogleInv, VerifyOK, ClientsOK
  <2>7. QED
    BY <2>3, <2>4, <2>5, <2>6 DEF GoogleInv
<1>3. CASE verify' = Google!NoVerify /\ UNCHANGED session
  <2>1. /\ verify' \in [pc : {"idle", "enroll", "store"}, cur : AttemptNumbers, prev : AttemptNumbers]
        /\ verify'.pc = "idle" /\ verify'.cur = 0 /\ verify'.prev = 0
    BY <1>3 DEF Google!NoVerify
  <2>2. GoogleTypeOK' /\ FlowsOK' /\ OnceOK' /\ SecretOK' /\ AttemptOK' /\ LinkOK'
    BY <1>1, <1>3, <2>1 DEF GoogleInv, GoogleTypeOK, FlowsOK, OnceOK, SecretOK, AttemptOK, LinkOK
  <2>3. QueueOK'
    BY <1>1, SameQueue
  <2>4. ClientsOK'
    BY <1>1, <1>3, <2>1 DEF GoogleInv, ClientsOK, LinkOK, Used, Spent
  <2>5. VerifyOK'
    BY <1>1, <1>3, <2>1 DEF GoogleInv, VerifyOK
  <2>6. QED
    BY <2>2, <2>3, <2>4, <2>5 DEF GoogleInv
<1>4. QED
  BY <1>2, <1>3 DEF Google!Enrolled

LEMMA VerifyStoredStep == ASSUME GoogleInv, Google!VerifyStored PROVE GoogleInv'
<1> USE NumbersAre
<1>1. /\ verify.pc = "store" /\ verify' = Google!NoVerify
      /\ UNCHANGED <<attempt, flow, ready, pending, ops, lost, issued, callback, exchanges>>
  BY DEF Google!VerifyStored, Google!flowVars, Google!storeVars, Google!linkVars
<1>2. /\ verify' \in [pc : {"idle", "enroll", "store"}, cur : AttemptNumbers, prev : AttemptNumbers]
      /\ verify'.pc = "idle" /\ verify'.cur = 0 /\ verify'.prev = 0
  BY <1>1 DEF Google!NoVerify
<1>3. CASE /\ session = verify.cur /\ open' = open \ ({verify.prev} \ {0}) /\ device' = 0
           /\ UNCHANGED session
  <2>1. /\ verify.prev # 0 => attempt # verify.prev
        /\ verify.prev # 0 /\ callback.pc \in {"consume", "exchange", "bootstrap", "authorize"}
             => callback.cur # verify.prev
    BY UsedIsApart DEF GoogleInv, ClientsOK
  <2>2. callback.pc # "store" /\ session # verify.prev
    BY <1>1, <1>3 DEF GoogleInv, ClientsOK, VerifyOK
  <2>3. open \ {verify.prev} \subseteq open' /\ (verify.prev = 0 => open' = open)
    BY <1>3
  <2>4. GoogleTypeOK' /\ FlowsOK' /\ OnceOK' /\ SecretOK'
    BY <1>1, <1>2, <1>3 DEF GoogleInv, GoogleTypeOK, FlowsOK, OnceOK, SecretOK
  <2>5. AttemptOK' /\ LinkOK'
    BY <1>1, <2>1, <2>2, <2>3 DEF GoogleInv, AttemptOK, LinkOK
  <2>6. QueueOK'
    BY <1>1, SameQueue
  <2>7. ClientsOK'
    BY <1>1, <1>2, <1>3, <2>2, <2>3 DEF GoogleInv, ClientsOK, LinkOK, Used, Spent
  <2>8. VerifyOK'
    BY <1>1, <1>2, <1>3 DEF VerifyOK
  <2>9. QED
    BY <2>4, <2>5, <2>6, <2>7, <2>8 DEF GoogleInv
<1>4. CASE /\ session' = IF session = verify.cur THEN verify.prev ELSE session
           /\ UNCHANGED <<open, device>>
  <2>1. GoogleTypeOK' /\ FlowsOK' /\ OnceOK' /\ SecretOK' /\ AttemptOK' /\ LinkOK'
    BY <1>1, <1>2, <1>4 DEF GoogleInv, GoogleTypeOK, FlowsOK, OnceOK, SecretOK, AttemptOK, LinkOK
  <2>2. QueueOK'
    BY <1>1, SameQueue
  <2>3. ClientsOK'
    BY <1>1, <1>2, <1>4 DEF GoogleInv, ClientsOK, VerifyOK, LinkOK, Used, Spent
  <2>4. VerifyOK'
    BY <1>1, <1>2, <1>4 DEF GoogleInv, VerifyOK
  <2>5. QED
    BY <2>1, <2>2, <2>3, <2>4 DEF GoogleInv
<1>5. QED
  BY <1>3, <1>4 DEF Google!VerifyStored

LEMMA RestartStep == ASSUME GoogleInv, Google!Restart PROVE GoogleInv'
<1> USE NumbersAre
<1>1. /\ lost' = TRUE /\ ops' = <<>> /\ attempt' = 0 /\ callback' = Google!NoCallback
      /\ device' = 0 /\ verify' = Google!NoVerify /\ session' = 0
      /\ UNCHANGED <<ready, issued, exchanges>>
  BY DEF Google!Restart
<1>2. /\ flow' \in [Google!Attempts -> {"none", "opened", "done"}]
      /\ \A n \in Google!Attempts : flow'[n] = "none" => flow[n] = "none"
  BY DEF Google!Restart
<1>3. /\ pending' \in AttemptNumbers
      /\ pending' \in {0, pending} \/ (pending' \in Google!Attempts /\ flow[pending'] = "save")
  <2>1. CASE UNCHANGED pending
    BY <2>1 DEF GoogleInv, GoogleTypeOK
  <2>2. CASE ops # <<>> /\ Google!Executed(TRUE)
    <3>1. \/ Head(ops).kind = "save" /\ pending' = Head(ops).id
          \/ pending' \in {0, pending}
      BY <2>2 DEF Google!Executed
    <3>2. Head(ops).kind = "save" => Head(ops).then = "saved"
      BY <2>2, HeadIs DEF KindOf
    <3>3. QED
      BY <2>2, <3>1, <3>2, HeadIs DEF GoogleInv, GoogleTypeOK
  <2>3. QED
    BY <2>1, <2>2 DEF Google!Restart
<1>4. GoogleTypeOK'
  BY <1>1, <1>2, <1>3 DEF GoogleInv, GoogleTypeOK, Google!NoCallback, Google!NoVerify, FlowSteps,
                          LinkSteps
<1>5. QueueOK'
  BY <1>1, <1>2 DEF QueueOK, QueueGood, KindsOK, SavesOK, CleanedOK, LinksOK, FailedOK, CancelsOK,
                    Google!NoCallback
<1>6. FlowsOK'
  BY <1>1, <1>2, <1>3 DEF GoogleInv, FlowsOK
<1>7. OnceOK'
  BY <1>1, <1>3 DEF GoogleInv, FlowsOK, OnceOK
<1>8. SecretOK' /\ AttemptOK' /\ LinkOK'
  BY <1>1 DEF SecretOK, AttemptOK, LinkOK, Google!NoCallback, Spent
<1>9. ClientsOK' /\ VerifyOK'
  BY <1>1 DEF ClientsOK, VerifyOK, Used, Google!NoCallback, Google!NoVerify
<1>10. QED
  BY <1>4, <1>5, <1>6, <1>7, <1>8, <1>9 DEF GoogleInv

LEMMA GoogleActs == ASSUME GoogleInv, Google!Next PROVE GoogleInv'
<1>1. ASSUME NEW n \in Google!Attempts,
             \/ Google!SignIn(n) \/ Google!UrlReady(n) \/ Google!Saved(n) \/ Google!Opens(n)
             \/ Google!Opened(n) \/ Google!GoogleIssues(n) \/ Google!FailedReleased(n)
             \/ Google!TimeIsOver(n) \/ Google!TimerFires(n) \/ Google!LinkArrives(n)
      PROVE  GoogleInv'
  <2>1. CASE Google!TimeIsOver(n)
    BY <2>1, GoogleRests DEF Google!TimeIsOver, Google!flowVars, Google!storeVars, Google!linkVars,
                             Google!deviceVars
  <2>2. CASE Google!TimerFires(n)
    BY <2>2, GivesUpStep
  <2>3. QED
    BY <1>1, <2>1, <2>2, SignInStep, UrlReadyStep, SavedStep, OpensStep, OpenedStep, IssuesStep,
       FailedReleasedStep, LinkArrivesStep
<1>2. CASE Google!UserCancels \/ Google!InvalidLink
  BY <1>2, GivesUpStep
<1>3. CASE Google!Dismiss
  BY <1>3, GoogleRests DEF Google!Dismiss, Google!storeVars, Google!linkVars, Google!deviceVars
<1>4. CASE \/ Google!Cancelled \/ Google!DenialArrives \/ Google!Digested \/ Google!Loaded
           \/ Google!StaleDeleted \/ Google!Consumed \/ Google!Exchanged \/ Google!Bootstrapped
           \/ Google!Authorized \/ Google!Stored \/ Google!LinkEnds
  BY <1>4, CancelledStep, DenialArrivesStep, DigestedStep, LoadedStep, StaleDeletedStep,
     ConsumedStep, ExchangedStep, BootstrappedStep, AuthorizedStep, StoredStep, LinkEndsStep
<1>5. CASE \/ Google!DeviceCancelled \/ Google!VerifyBegins \/ Google!Enrolled
           \/ Google!VerifyStored \/ Google!Restart
  BY <1>5, DeviceCancelledStep, VerifyBeginsStep, EnrolledStep, VerifyStoredStep, RestartStep
<1>6. QED
  BY <1>1, <1>2, <1>3, <1>4, <1>5 DEF Google!Next

(* An attempt to sign in never uses what is of another: a verifier is sent *)
(* once, none is left behind, and no client in use is disposed.            *)
THEOREM AttemptsApart == SceneSpec => []AttemptsStayApart
<1>1. SceneInit => GoogleInv
  BY GoogleStarts DEF SceneInit
<1>2. GoogleInv /\ [SceneNext]_sceneVars => GoogleInv'
  <2>1. GoogleInv /\ SceneNext => GoogleInv'
    BY GoogleActs, GoogleRests DEF SceneNext, googleState
  <2>2. GoogleInv /\ UNCHANGED sceneVars => GoogleInv'
    BY GoogleRests DEF sceneVars, googleState
  <2>3. QED
    BY <2>1, <2>2
<1>3. GoogleInv => AttemptsStayApart
  BY GoogleIsSound
<1>4. QED
  BY <1>1, <1>2, <1>3, PTL DEF SceneSpec
=============================================================================
