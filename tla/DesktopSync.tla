---------------------------- MODULE DesktopSync -----------------------------
(***************************************************************************)
(* The desktop's synchronisation for one account: runSyncWithReason in     *)
(* cloudSync.ts, the /sync endpoints of the local sidecar it drives, and   *)
(* the row edits of services.py, on every device in Desktops, against      *)
(* CloudStore.                                                             *)
(*                                                                         *)
(* A run is a chain of awaited calls: pending rows, push, mark rejected,   *)
(* cursor, pull, apply, mark synced, cursor save.  Each sidecar call is    *)
(* one SQLite transaction.  The user edits rows between any two of them,   *)
(* and any of them may throw, which ends the run where it is.              *)
(***************************************************************************)
EXTENDS CloudStore

CONSTANTS
    Desktops,      \* the devices that run this client
    MaxContract    \* bound on the versions of the cloud's sync contract

ASSUME DesktopsAssumption ==
    Desktops \subseteq Devices /\ MaxContract \in Nat \ {0}

VARIABLES
    drow,        \* the SQLite rows of each desktop
    dcursor,     \* sync_pull_cursor: a string in seconds, 0 when unset
    drun,        \* the run of runSyncWithReason
    dcontract,   \* the contract version the desktop last stored, 0 for none
    contract,    \* the version /health reports
    dconflict,   \* sync_conflicts: the contents logged as overwritten
    drejected,   \* sync_rejections that are not resolved
    dexact,      \* history: the exact cursor behind dcursor
    dquiet       \* history: no edit was ever made during a run

desktopVars == <<drow, dcursor, drun, dcontract, contract,
                 dconflict, drejected, dexact, dquiet>>
vars == <<cloudVars, desktopVars>>

-----------------------------------------------------------------------------
Absent == [val |-> {}, st |-> "absent", rev |-> NoRevision, dev |-> NoDevice]
Rows == [val : Contents, st : {"absent", "pending", "synced", "sync_error"},
         rev : Revisions,    \* last_remote_updated_at, cut to the second
         dev : Devices \cup {NoDevice}]

NoRun == [pc |-> "idle", health |-> 0, accepted |-> {}, rejected |-> {},
          rows |-> {}, cursor |-> NoRevision]
Runs == [pc : {"idle", "push", "reject", "cursor", "pull", "apply", "mark",
               "save", "contract"},
         health : 0..MaxContract,
         accepted : SUBSET Records, rejected : SUBSET Records,
         rows : SUBSET PulledRows, cursor : Revisions]

DesktopInit ==
    /\ drow = [d \in Desktops |-> [r \in Records |-> Absent]]
    /\ dcursor = [d \in Desktops |-> NoRevision]
    /\ drun = [d \in Desktops |-> NoRun]
    /\ dcontract = [d \in Desktops |-> 0]
    /\ contract = 1
    /\ dconflict = [d \in Desktops |-> [r \in Records |-> {}]]
    /\ drejected = [d \in Desktops |-> {}]
    /\ dexact = [d \in Desktops |-> NoRevision]
    /\ dquiet = [d \in Desktops |-> TRUE]

Init == CloudInit /\ DesktopInit

Present(d, r) == drow[d][r].st # "absent"
At(d, pc) == drun[d].pc = pc
Goto(d, pc) == drun' = [drun EXCEPT ![d].pc = pc]

-----------------------------------------------------------------------------
(* create, update and _soft_delete of a synchronised row.  Whatever its    *)
(* state was it becomes pending, and its rejections are resolved.          *)
Edit(d, r) ==
    /\ Present(d, r) \/ CreatorOf[r] = d
    /\ r \in Movements => Present(d, CategoryOf[r])
    /\ MakeEdit(d, r)
    /\ drow' = [drow EXCEPT ![d][r].val = @ \cup {NewEdit},
                            ![d][r].st = "pending"]
    /\ drejected' = [drejected EXCEPT ![d] = @ \ {r}]
    /\ dquiet' = [dquiet EXCEPT ![d] = @ /\ At(d, "idle")]
    /\ UNCHANGED <<dcursor, drun, dcontract, contract, dconflict, dexact>>

(* A new version of the cloud service is deployed. *)
Upgrade ==
    /\ contract < MaxContract
    /\ contract' = contract + 1
    /\ UNCHANGED <<cloudVars, drow, dcursor, drun, dcontract, dconflict,
                   drejected, dexact, dquiet>>

-----------------------------------------------------------------------------
(* /health, /sync/pending, then POST /sync/push, which is sent even when   *)
(* nothing is pending.  The baseline of a row is its cut-down revision.    *)
PushBegin(d) ==
    /\ At(d, "idle")
    /\ drun' = [drun EXCEPT ![d] = [NoRun EXCEPT !.pc = "push",
                                                 !.health = contract]]
    /\ Send(d, "up", PushCall(
          {[id |-> r, val |-> drow[d][r].val, base |-> drow[d][r].rev] :
              r \in {s \in Records : drow[d][s].st = "pending"}}))
    /\ UNCHANGED <<drow, dcursor, dcontract, contract, dconflict,
                   drejected, dexact, dquiet>>

PushReplied(d) ==
    LET c == call[d]["up"]
    IN  /\ At(d, "push")
        /\ Replied(d, "up", "push")
        /\ drun' = [drun EXCEPT ![d] =
              [@ EXCEPT !.pc = IF c.rejected # {} THEN "reject" ELSE "cursor",
                        !.accepted = c.accepted, !.rejected = c.rejected]]
        /\ Finish(d, "up")
        /\ UNCHANGED <<drow, dcursor, dcontract, contract, dconflict,
                       drejected, dexact, dquiet>>

(* /sync/mark-rejected. *)
MarkRejected(d) ==
    /\ At(d, "reject")
    /\ drow' = [drow EXCEPT ![d] = [r \in Records |->
          IF r \in drun[d].rejected
          THEN [drow[d][r] EXCEPT !.st = "sync_error"] ELSE drow[d][r]]]
    /\ drejected' = [drejected EXCEPT ![d] = @ \cup drun[d].rejected]
    /\ Goto(d, "cursor")
    /\ UNCHANGED <<cloudVars, dcursor, dcontract, contract, dconflict, dexact, dquiet>>

(* Variant: a changed contract does not force a full pull. *)
PullBegin_Incremental(d) ==
    /\ At(d, "cursor")
    /\ Send(d, "down", PullCall(dcursor[d]))
    /\ Goto(d, "pull")
    /\ UNCHANGED <<drow, dcursor, dcontract, contract, dconflict,
                   drejected, dexact, dquiet>>

(* /sync/cursor and GET /sync/pull: in full when there is no cursor yet or *)
(* the contract changed since the last complete run.                       *)
PullBegin(d) ==
    /\ At(d, "cursor")
    /\ Send(d, "down", PullCall(IF drun[d].health # dcontract[d]
                                THEN NoRevision ELSE dcursor[d]))
    /\ Goto(d, "pull")
    /\ UNCHANGED <<drow, dcursor, dcontract, contract, dconflict,
                   drejected, dexact, dquiet>>

PullReplied(d) ==
    LET c == call[d]["down"]
    IN  /\ At(d, "pull")
        /\ Replied(d, "down", "pull")
        /\ drun' = [drun EXCEPT ![d] =
              [@ EXCEPT !.pc = IF c.rows # {} THEN "apply" ELSE "mark",
                        !.rows = c.rows, !.cursor = Exact(c.now)]]
        /\ Finish(d, "down")
        /\ UNCHANGED <<drow, dcursor, dcontract, contract, dconflict,
                       drejected, dexact, dquiet>>

-----------------------------------------------------------------------------
(* _remote_is_newer compares instants, _basic_conflict_detected strings.   *)
Newer(q, row) ==
    \/ row.rev = NoRevision
    \/ Parse(q.rev) > Parse(row.rev)
    \/ Parse(q.rev) = Parse(row.rev) /\ q.dev > row.dev

(* Variant: the revisions are compared to the second. *)
Conflicts_ToSeconds(d, q, row) ==
    row.st = "pending" /\ q.dev # d /\ Truncate(q.rev) # row.rev
Conflicts(d, q, row) ==
    row.st = "pending" /\ q.dev # d /\ q.rev # row.rev

Adopt(q) == [val |-> q.val, st |-> "synced", rev |-> Truncate(q.rev),
             dev |-> q.dev]

(* Variant: a pending row is never replaced. *)
ApplyRow_KeepsPending(q, row) ==
    IF row.st # "pending" /\ (row.st = "absent" \/ Newer(q, row))
    THEN Adopt(q) ELSE row
ApplyRow(q, row) ==
    IF row.st = "absent" \/ Newer(q, row) THEN Adopt(q) ELSE row

Logged(d, q, row) ==
    IF row.st # "absent" /\ Newer(q, row) /\ Conflicts(d, q, row)
    THEN {row.val} ELSE {}

(* A movement whose category is neither here nor in the batch fails the    *)
(* whole transaction.                                                      *)
Resolvable(d) ==
    \A q \in drun[d].rows : q.id \in Movements =>
        \/ Present(d, CategoryOf[q.id])
        \/ CategoryOf[q.id] \in {x.id : x \in drun[d].rows}

(* /sync/apply-remote: every row of the batch in one transaction. *)
ApplyRemote(d) ==
    LET rows == drun[d].rows
        rowOf(r) == CHOOSE q \in rows : q.id = r
    IN  /\ At(d, "apply")
        /\ Resolvable(d)
        /\ drow' = [drow EXCEPT ![d] = [r \in Records |->
              IF \E q \in rows : q.id = r
              THEN ApplyRow(rowOf(r), drow[d][r]) ELSE drow[d][r]]]
        /\ dconflict' = [dconflict EXCEPT ![d] = [r \in Records |->
              IF \E q \in rows : q.id = r
              THEN @[r] \cup Logged(d, rowOf(r), drow[d][r]) ELSE @[r]]]
        /\ Goto(d, "mark")
        /\ UNCHANGED <<cloudVars, dcursor, dcontract, contract, drejected,
                       dexact, dquiet>>

(* Variant: every id of the push is marked, the rejected ones too. *)
MarkSynced_AllSent(d) ==
    LET sent == drun[d].accepted \cup drun[d].rejected
    IN  /\ At(d, "mark")
        /\ drow' = [drow EXCEPT ![d] = [r \in Records |->
              IF r \in sent
              THEN [drow[d][r] EXCEPT !.st = "synced"] ELSE drow[d][r]]]
        /\ drejected' = [drejected EXCEPT ![d] = @ \ sent]
        /\ Goto(d, "save")
        /\ UNCHANGED <<cloudVars, dcursor, dcontract, contract, dconflict,
                       dexact, dquiet>>

(* /sync/mark-synced: every accepted id, whatever the row holds by now. *)
MarkSynced(d) ==
    /\ At(d, "mark")
    /\ drow' = [drow EXCEPT ![d] = [r \in Records |->
          IF r \in drun[d].accepted
          THEN [drow[d][r] EXCEPT !.st = "synced"] ELSE drow[d][r]]]
    /\ drejected' = [drejected EXCEPT ![d] = @ \ drun[d].accepted]
    /\ Goto(d, "save")
    /\ UNCHANGED <<cloudVars, dcursor, dcontract, contract, dconflict, dexact, dquiet>>

(* POST /sync/cursor cuts the cursor to the second. *)
SaveCursor(d) ==
    /\ At(d, "save")
    /\ dcursor' = [dcursor EXCEPT ![d] = Truncate(drun[d].cursor)]
    /\ dexact' = [dexact EXCEPT ![d] = drun[d].cursor]
    /\ Goto(d, "contract")
    /\ UNCHANGED <<cloudVars, drow, dcontract, contract, dconflict, drejected,
                   dquiet>>

(* POST of the contract state; the run is complete. *)
SaveContract(d) ==
    /\ At(d, "contract")
    /\ dcontract' = [dcontract EXCEPT ![d] = drun[d].health]
    /\ drun' = [drun EXCEPT ![d] = NoRun]
    /\ UNCHANGED <<cloudVars, drow, dcursor, contract, dconflict, drejected,
                   dexact, dquiet>>

(* Any await throws, apply-remote rolls back, or the app is closed. *)
RunFails(d) ==
    /\ ~At(d, "idle")
    /\ \E o \in Roles :
          /\ call[d][o] # NoCall \/ (o = "up" /\ call[d]["down"] = NoCall)
          /\ Abandon(d, o)
    /\ drun' = [drun EXCEPT ![d] = NoRun]
    /\ UNCHANGED <<drow, dcursor, dcontract, contract, dconflict, drejected,
                   dexact, dquiet>>

-----------------------------------------------------------------------------
DesktopNext(d) ==
    \/ \E r \in Records : Edit(d, r)
    \/ PushBegin(d) \/ PushReplied(d) \/ MarkRejected(d)
    \/ PullBegin(d) \/ PullReplied(d) \/ ApplyRemote(d) \/ MarkSynced(d)
    \/ SaveCursor(d) \/ SaveContract(d) \/ RunFails(d)

Next ==
    \/ CloudNext /\ UNCHANGED desktopVars
    \/ Upgrade
    \/ \E d \in Desktops : DesktopNext(d)

Spec == Init /\ [][Next]_vars

-----------------------------------------------------------------------------
(* Properties.                                                             *)

DesktopTypeOK ==
    /\ CloudTypeOK
    /\ drow \in [Desktops -> [Records -> Rows]]
    /\ dcursor \in [Desktops -> Revisions]
    /\ drun \in [Desktops -> Runs]
    /\ dcontract \in [Desktops -> 0..MaxContract]
    /\ contract \in 1..MaxContract
    /\ dconflict \in [Desktops -> [Records -> SUBSET Contents]]
    /\ drejected \in [Desktops -> SUBSET Records]
    /\ dexact \in [Desktops -> Revisions]
    /\ dquiet \in [Desktops -> BOOLEAN]

(* The cursor is saved only after every row of its batch is in the local   *)
(* database at that revision or a newer one, so a run that dies between    *)
(* applying and saving downloads the batch again and never skips it; on a  *)
(* desktop whose user never edits during a run, a row of the batch that is *)
(* shown as synced has the content the cloud had.                          *)
CursorAdvancesOverBatch ==
    [][\A d \in Desktops :
          /\ dexact'[d] # dexact[d] =>
              \A q \in drun[d].rows :
                  /\ drow[d][q.id].st # "absent"
                  /\ drow[d][q.id].rev >= Truncate(q.rev)
          /\ At(d, "save") /\ drun'[d].pc = "contract" /\ dquiet[d] =>
              \A q \in drun[d].rows :
                  drow[d][q.id].st = "synced" => drow[d][q.id].val = q.val]_vars

(* On a desktop whose user never edits during a run, a row shown as synced *)
(* holds a content the cloud stored: lost replies, failed runs and retries *)
(* alone lose nothing.                                                     *)
QuietSyncedWasUploaded ==
    \A d \in Desktops, r \in Records :
        dquiet[d] /\ drow[d][r].st = "synced" => drow[d][r].val \in stored[r]

(* A run that finds the cloud's contract changed downloads everything, so  *)
(* when it records the new contract every row up to its cursor is here, in *)
(* spite of what earlier cursors skipped. Said of one desktop: the push of *)
(* another may commit below the cursor (see CursorCovers of MobileSync).    *)
CatchesUp ==
    \A d \in Desktops, r \in Records :
        (/\ dcontract'[d] # dcontract[d]
         /\ IsRow(cloud[r]) /\ cloud[r].rev <= drun[d].cursor)
        => drow[d][r].rev >= Truncate(cloud[r].rev)

(* When another device's version replaces a local change that is not in    *)
(* the cloud, the change is on record: README, "se registra un historial   *)
(* local de conflictos", or the rejection of its upload.                   *)
ForeignOverwriteIsRecorded ==
    [][\A d \in Desktops, r \in Records :
          (/\ drow[d][r].st \in {"pending", "sync_error"}
           /\ ~(drow[d][r].val \subseteq drow'[d][r].val)
           /\ drow'[d][r].dev # d)
          => drow[d][r].val \in dconflict'[d][r] \/ r \in drejected'[d]]_vars

(* README: "Si la sincronización falla, los cambios quedan guardados       *)
(* localmente y pendientes de sincronización": after a failed run every    *)
(* edit made here is still in its row, and waits to be uploaded unless the *)
(* cloud already has it.                                                   *)
FailedRunKeepsChanges ==
    [][fails' # fails =>
          \A d \in Desktops, r \in Records :
              /\ EditsOf(d, r) \subseteq drow'[d][r].val
              /\ drow'[d][r].st = "synced" => drow'[d][r].val \in stored[r]]_vars

(* The cloud's message for conflict_remote_newer is "El registro fue       *)
(* actualizado por otro dispositivo": the sender had not seen the cloud's  *)
(* version.                                                                *)
RejectedOnlyIfUnseen ==
    [][\A d \in Devices : \A i \in call[d]["up"].items :
          i.id \in call'[d]["up"].rejected => ~(cloud[i.id].val \subseteq i.val)]_vars
=============================================================================
