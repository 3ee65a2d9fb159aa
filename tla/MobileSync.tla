----------------------------- MODULE MobileSync -----------------------------
(***************************************************************************)
(* Push and pull of the phone (mobileCloudPush.ts, mobileCloudPull.ts) for *)
(* one account, on every device in Phones, against CloudStore.             *)
(*                                                                         *)
(* The phone keeps one SQLite row per record with its sync status, the     *)
(* cloud revision it last knew and local_change_version, which every edit  *)
(* increments.  push() and pull() are two single-flight processes that may *)
(* run side by side; the user edits rows between any two of their awaits.  *)
(* Only categories and movements are synchronised.                         *)
(***************************************************************************)
EXTENDS CloudStore

CONSTANT Phones    \* the devices that run this client
ASSUME PhonesAssumption == Phones \subseteq Devices

VARIABLES
    mrow,       \* the SQLite rows of each phone
    mcursor,    \* mobile_pull_state.cursor, 0 when there is none
    mup,        \* the run of push()
    mdown       \* the run of pull()

mobileVars == <<mrow, mcursor, mup, mdown>>
vars == <<cloudVars, mobileVars>>

-----------------------------------------------------------------------------
Absent == [val |-> {}, st |-> "absent", ver |-> 0, rev |-> NoRevision,
           dev |-> NoDevice, err |-> "none"]
Errors == {"none", "conflict_remote_newer", "category_rejected"}
Rows == [val : Contents, st : {"absent", "pending", "synced"},
         ver : 0..MaxEdits, rev : Revisions, dev : Devices \cup {NoDevice},
         err : Errors]

(* A row of getMobileCloudPending: what push() remembers of it. *)
Changes == [id : Records, val : Contents, ver : 0..MaxEdits, rev : Revisions]
Acks == [id : Records, ver : 0..MaxEdits, rev : Revisions]
Rejections == [id : Records, ver : 0..MaxEdits, err : Errors]

NoUp == [pc |-> "idle", pend |-> {}, send |-> {}, acked |-> {}, rej |-> {}]
Ups == [pc : {"idle", "preflight", "categories", "movements", "ack"},
        pend : SUBSET Changes,       \* the snapshot of the pending rows
        send : SUBSET Items,         \* what is still to be sent
        acked : SUBSET Acks,         \* accepted, with the phase's revision
        rej : SUBSET Rejections]

NoDown == [pc |-> "idle", before |-> 0]
Downs == [pc : {"idle", "wait"}, before : Revisions]

MobileInit ==
    /\ mrow = [d \in Phones |-> [r \in Records |-> Absent]]
    /\ mcursor = [d \in Phones |-> NoRevision]
    /\ mup = [d \in Phones |-> NoUp]
    /\ mdown = [d \in Phones |-> NoDown]

Init == CloudInit /\ MobileInit

Present(d, r) == mrow[d][r].st # "absent"
IsPending(d, r) == mrow[d][r].st = "pending"

-----------------------------------------------------------------------------
(* The user creates, changes or deletes a row.  A movement needs its       *)
(* category; a new row is pending at version 0, every later change         *)
(* increments the version and clears the error.                            *)
Edited(row) ==
    [row EXCEPT !.val = row.val \cup {NewEdit}, !.st = "pending",
                !.ver = IF row.st = "absent" THEN 0 ELSE row.ver + 1,
                !.err = "none"]
Edit(d, r) ==
    /\ Present(d, r) \/ CreatorOf[r] = d
    /\ r \in Movements => Present(d, CategoryOf[r])
    /\ MakeEdit(d, r)
    /\ mrow' = [mrow EXCEPT ![d][r] = Edited(mrow[d][r])]
    /\ UNCHANGED <<mcursor, mup, mdown>>

-----------------------------------------------------------------------------
(* Variant: two runs of push() may overlap. *)
PushBegin_NoSingleFlight(d) ==
    LET pend == {[id |-> r, val |-> mrow[d][r].val, ver |-> mrow[d][r].ver,
                  rev |-> mrow[d][r].rev] : r \in {s \in Records : IsPending(d, s)}}
    IN  /\ pend # {}
        /\ mup' = [mup EXCEPT ![d] = [NoUp EXCEPT !.pc = "preflight",
                                                  !.pend = pend]]
        /\ Send(d, "up", PullCall(NoRevision))
        /\ UNCHANGED <<mrow, mcursor, mdown>>

(* push(): read the pending rows, then ask for the whole cloud table.  The  *)
(* selects of the two tables are issued together and taken as one reading.  *)
PushBegin(d) ==
    LET pend == {[id |-> r, val |-> mrow[d][r].val, ver |-> mrow[d][r].ver,
                  rev |-> mrow[d][r].rev] : r \in {s \in Records : IsPending(d, s)}}
    IN  /\ mup[d].pc = "idle"
        /\ pend # {}
        /\ mup' = [mup EXCEPT ![d] = [NoUp EXCEPT !.pc = "preflight",
                                                  !.pend = pend]]
        /\ Send(d, "up", PullCall(NoRevision))
        /\ UNCHANGED <<mrow, mcursor, mdown>>

(* What the preflight decides of a pending row.  A row the cloud does not  *)
(* have goes out with the baseline it has.  A row the cloud has goes out   *)
(* with the cloud's own revision, if that is the revision the phone knew   *)
(* or the cloud already holds exactly this change from this device.        *)
CloudRowOf(rows, p) == {q \in rows : q.id = p.id}
Matches(p, q) == p.rev # NoRevision /\ p.rev = q.rev
(* Variant: a retry is not recognised. *)
IsRetry_Never(d, p, q) == FALSE
IsRetry(d, p, q) == q.dev = d /\ q.val = p.val
(* Variant: the preflight forces every upload. *)
Clashes_Never(d, p, rows) == FALSE
Clashes(d, p, rows) ==
    \E q \in CloudRowOf(rows, p) : ~Matches(p, q) /\ ~IsRetry(d, p, q)
Baseline(p, rows) ==
    IF CloudRowOf(rows, p) = {} THEN p.rev
    ELSE (CHOOSE q \in CloudRowOf(rows, p) : TRUE).rev
ItemOf(p, rows) == [id |-> p.id, val |-> p.val, base |-> Baseline(p, rows)]

Reject(changes, err) ==
    {[id |-> p.id, ver |-> p.ver, err |-> err] : p \in changes}
RejectedIds(rej) == {x.id : x \in rej}
OfRejectedCategory(items, rej) ==
    {i \in items : i.id \in Movements /\ CategoryOf[i.id] \in RejectedIds(rej)}

CategoryItems(items) == {i \in items : i.id \in Categories}
MovementItems(items) == items \ CategoryItems(items)

(* Variant: movements go out before their categories. *)
NextPhase_MovementsFirst(d, run) ==
    LET cats == CategoryItems(run.send)
        movs == MovementItems(run.send)
    IN  IF movs # {}
        THEN /\ mup' = [mup EXCEPT ![d] = [run EXCEPT !.pc = "movements"]]
             /\ Send(d, "up", PushCall(movs))
        ELSE IF cats # {}
        THEN /\ mup' = [mup EXCEPT ![d] = [run EXCEPT !.pc = "categories"]]
             /\ Send(d, "up", PushCall(cats))
        ELSE /\ mup' = [mup EXCEPT ![d] = [run EXCEPT !.pc = "ack"]]
             /\ Finish(d, "up")

(* Send the next phase that has anything to send, categories first, and    *)
(* free the call when there is none.                                       *)
NextPhase(d, run) ==
    LET cats == CategoryItems(run.send)
        movs == MovementItems(run.send)
    IN  IF cats # {}
        THEN /\ mup' = [mup EXCEPT ![d] = [run EXCEPT !.pc = "categories"]]
             /\ Send(d, "up", PushCall(cats))
        ELSE IF movs # {}
        THEN /\ mup' = [mup EXCEPT ![d] = [run EXCEPT !.pc = "movements"]]
             /\ Send(d, "up", PushCall(movs))
        ELSE /\ mup' = [mup EXCEPT ![d] = [run EXCEPT !.pc = "ack"]]
             /\ Finish(d, "up")

Preflight(d) ==
    LET run == mup[d]
        rows == call[d]["up"].rows
        clash == {p \in run.pend : Clashes(d, p, rows)}
        items == {ItemOf(p, rows) : p \in run.pend \ clash}
        orphans == OfRejectedCategory(items, Reject(clash, "conflict_remote_newer"))
        dropped == clash \cup {p \in run.pend : p.id \in {i.id : i \in orphans}}
    IN  /\ run.pc = "preflight"
        /\ Replied(d, "up", "pull")
        /\ NextPhase(d, [run EXCEPT !.send = items \ orphans,
                                    !.rej = Reject(dropped, "conflict_remote_newer")])
        /\ UNCHANGED <<mrow, mcursor, mdown>>

(* The reply of one POST: accepted rows take the handler's timestamp as    *)
(* their revision; movements of a rejected category are not sent.          *)
PhaseDone(d) ==
    LET run == mup[d]
        c == call[d]["up"]
        of(ids) == {p \in run.pend : p.id \in ids}
        acked == {[id |-> p.id, ver |-> p.ver, rev |-> Exact(c.now)] :
                     p \in of(c.accepted)}
        rej == run.rej \cup Reject(of(c.rejected), "conflict_remote_newer")
        rest == run.send \ c.items
        orphans == OfRejectedCategory(rest, rej)
    IN  /\ run.pc \in {"categories", "movements"}
        /\ Replied(d, "up", "push")
        /\ NextPhase(d, [run EXCEPT
              !.send = rest \ orphans,
              !.acked = @ \cup acked,
              !.rej = rej \cup Reject(of({i.id : i \in orphans}),
                                      "category_rejected")])
        /\ UNCHANGED <<mrow, mcursor, mdown>>

(* Variant: the ACK ignores local_change_version. *)
AckRow_AnyVersion(d, row, ack) ==
    [row EXCEPT !.st = "synced", !.rev = ack.rev, !.dev = d, !.err = "none"]

(* acknowledge(): one SQLite transaction over both tables. *)
AckRow(d, row, ack) ==
    IF row.ver >= ack.ver /\ row.rev <= ack.rev
    THEN [row EXCEPT !.st = IF row.ver = ack.ver THEN "synced" ELSE @,
                     !.rev = ack.rev, !.dev = d, !.err = "none"]
    ELSE row
RejectRow(row, rejection) ==
    IF row.ver = rejection.ver THEN [row EXCEPT !.err = rejection.err] ELSE row

Acknowledge(d) ==
    LET run == mup[d]
        after(r) ==
            IF \E a \in run.acked : a.id = r
            THEN AckRow(d, mrow[d][r], CHOOSE a \in run.acked : a.id = r)
            ELSE IF \E x \in run.rej : x.id = r
            THEN RejectRow(mrow[d][r], CHOOSE x \in run.rej : x.id = r)
            ELSE mrow[d][r]
    IN  /\ run.pc = "ack"
        /\ mrow' = [mrow EXCEPT ![d] = [r \in Records |-> after(r)]]
        /\ mup' = [mup EXCEPT ![d] = NoUp]
        /\ UNCHANGED <<cloudVars, mcursor, mdown>>

(* Any await of push() throws: transport error, timeout, invalid reply,    *)
(* changed account, failed transaction, or the process is killed.          *)
PushFail(d) ==
    /\ mup[d].pc # "idle"
    /\ mup' = [mup EXCEPT ![d] = NoUp]
    /\ Abandon(d, "up")
    /\ UNCHANGED <<mrow, mcursor, mdown>>

-----------------------------------------------------------------------------
(* pull(): ask for what is newer than the cursor. *)
PullBegin(d) ==
    /\ mdown[d].pc = "idle"
    /\ mdown' = [mdown EXCEPT ![d] = [pc |-> "wait", before |-> mcursor[d]]]
    /\ Send(d, "down", PullCall(mcursor[d]))
    /\ UNCHANGED <<mrow, mcursor, mup>>

RevisionWins(row, q) ==
    \/ row.rev = NoRevision
    \/ q.rev > row.rev
    \/ q.rev = row.rev /\ q.dev > row.dev

Adopt(row, q) ==
    [row EXCEPT !.val = q.val, !.st = "synced", !.rev = q.rev, !.dev = q.dev,
                !.err = "none"]

(* The upsert of one downloaded row; a pending row is left alone. *)
ApplyRow(row, q) ==
    IF row.st = "pending" \/ (row.st = "synced" /\ ~RevisionWins(row, q))
    THEN row ELSE Adopt(row, q)

(* Downloaded rows the user has edited meanwhile: the batch is not applied. *)
Touched(d, rows) == {q \in rows : IsPending(d, q.id)}

(* The transaction aborts if a movement's category is nowhere to be found. *)
Unresolved(d, rows) ==
    {q \in rows : /\ q.id \in Movements
                  /\ ~Present(d, CategoryOf[q.id])
                  /\ CategoryOf[q.id] \notin {x.id : x \in rows}}

(* What the transaction checks on the way; any failure rolls it back. *)
Applicable(d) ==
    /\ mcursor[d] = mdown[d].before
    /\ Touched(d, call[d]["down"].rows) = {}
    /\ Unresolved(d, call[d]["down"].rows) = {}

(* Variant: newer revisions replace pending rows, as on the desktop. *)
PullApply_NewerWins(d) ==
    LET c == call[d]["down"]
        rowOf(r) == CHOOSE q \in c.rows : q.id = r
    IN  /\ mdown[d].pc = "wait"
        /\ Replied(d, "down", "pull")
        /\ mrow' = [mrow EXCEPT ![d] = [r \in Records |->
              IF \E q \in c.rows : q.id = r /\ RevisionWins(mrow[d][r], q)
              THEN Adopt(mrow[d][r], rowOf(r)) ELSE mrow[d][r]]]
        /\ mcursor' = [mcursor EXCEPT ![d] = Exact(c.now)]
        /\ mdown' = [mdown EXCEPT ![d] = NoDown]
        /\ Finish(d, "down")
        /\ UNCHANGED mup

(* applyMobilePull: the cursor and the upserts, in one transaction. *)
PullApply(d) ==
    LET c == call[d]["down"]
        rowOf(r) == CHOOSE q \in c.rows : q.id = r
    IN  /\ mdown[d].pc = "wait"
        /\ Replied(d, "down", "pull")
        /\ Applicable(d)
        /\ mrow' = [mrow EXCEPT ![d] = [r \in Records |->
              IF \E q \in c.rows : q.id = r
              THEN ApplyRow(mrow[d][r], rowOf(r)) ELSE mrow[d][r]]]
        /\ mcursor' = [mcursor EXCEPT ![d] = Exact(c.now)]
        /\ mdown' = [mdown EXCEPT ![d] = NoDown]
        /\ Finish(d, "down")
        /\ UNCHANGED <<mup>>

(* The transaction rolls back: nothing changes but the run ends. *)
PullRollback(d) ==
    /\ mdown[d].pc = "wait"
    /\ Replied(d, "down", "pull")
    /\ ~Applicable(d)
    /\ mdown' = [mdown EXCEPT ![d] = NoDown]
    /\ Finish(d, "down")
    /\ UNCHANGED <<mrow, mcursor, mup>>

PullFail(d) ==
    /\ mdown[d].pc # "idle"
    /\ mdown' = [mdown EXCEPT ![d] = NoDown]
    /\ Abandon(d, "down")
    /\ UNCHANGED <<mrow, mcursor, mup>>

-----------------------------------------------------------------------------
PhoneNext(d) ==
    \/ \E r \in Records : Edit(d, r)
    \/ PushBegin(d) \/ Preflight(d) \/ PhaseDone(d) \/ Acknowledge(d)
    \/ PushFail(d)
    \/ PullBegin(d) \/ PullApply(d) \/ PullRollback(d) \/ PullFail(d)

Next ==
    \/ CloudNext /\ UNCHANGED mobileVars
    \/ \E d \in Phones : PhoneNext(d)

Spec == Init /\ [][Next]_vars

-----------------------------------------------------------------------------
(* Properties.                                                             *)

MobileTypeOK ==
    /\ CloudTypeOK
    /\ mrow \in [Phones -> [Records -> Rows]]
    /\ mcursor \in [Phones -> Revisions]
    /\ mup \in [Phones -> Ups]
    /\ mdown \in [Phones -> Downs]

(* A row the phone shows as synced holds a content the cloud really stored *)
(* at some time: an ACK never covers an edit made while it was under way,  *)
(* whatever is lost, late or interleaved (acknowledge's comparison of      *)
(* local_change_version).                                                  *)
SyncedWasUploaded ==
    \A d \in Phones, r \in Records :
        mrow[d][r].st = "synced" => mrow[d][r].val \in stored[r]

(* An edit that was not confirmed survives everything push() and pull()    *)
(* do: a pending row only grows.                                           *)
PendingSurvives ==
    [][\A d \in Phones, r \in Records :
          IsPending(d, r) => mrow[d][r].val \subseteq mrow'[d][r].val]_vars

(* The optimistic baseline means what it is taken to mean: a write that    *)
(* carries one replaces another device's content only by a content that    *)
(* descends from it, so nothing unseen is overwritten.                     *)
BaselinedWriteDescends ==
    [][\A d \in Devices, o \in Roles : \A i \in call[d][o].items :
          (/\ call[d][o].st = "running" /\ call'[d][o].st = "done"
           /\ i.base # NoRevision
           /\ IsRow(cloud[i.id]) /\ cloud[i.id].dev # d
           /\ cloud'[i.id] # cloud[i.id])
          => cloud[i.id].val \subseteq cloud'[i.id].val]_vars

(* A push that completes recognises an upload whose answer was lost: a     *)
(* category the cloud already holds from this very phone, unchanged since, *)
(* does not stay pending, whatever failed before.  It may stay pending if  *)
(* requests that were given up can still be executed (MaxLate > 0): one    *)
(* that reaches the cloud after this run's preflight is not seen by it.    *)
LostAnswerRecognised ==
    [][MaxLate = 0 =>
         \A d \in Phones : \A p \in mup[d].pend :
            (/\ mup[d].pc = "ack" /\ mup'[d].pc = "idle" /\ fails' = fails
             /\ p.id \in Categories
             /\ mrow[d][p.id].ver = p.ver
             /\ cloud[p.id].dev = d /\ cloud[p.id].val = p.val)
            => mrow'[d][p.id].st = "synced"]_vars

(* What the cursor is for: every row revised up to the cursor has reached  *)
(* the phone, which never asks for it again.                               *)
CursorCovers ==
    \A d \in Phones, r \in Records :
        IsRow(cloud[r]) /\ cloud[r].rev <= mcursor[d] =>
            IsPending(d, r) \/ mrow[d][r].rev >= cloud[r].rev
=============================================================================
