----------------------------- MODULE CloudStore -----------------------------
(***************************************************************************)
(* The cloud side of synchronisation: POST /sync/push and GET /sync/pull   *)
(* for one account, and the calls its devices have in flight.              *)
(*                                                                         *)
(* A handler takes its timestamp first, now_iso(), and the lock of the     *)
(* user row later, so each request runs in two steps here.  sync_push is   *)
(* an "async def" that never awaits: the single server process runs one    *)
(* push from its timestamp to its commit before it starts another.         *)
(* sync_pull is a "def", runs in the thread pool, and overlaps with both.  *)
(*                                                                         *)
(* The content of a record is the set of the edits it descends from, which *)
(* is what "this version knew that one" means; sync_id, fields and         *)
(* deleted_at are not told apart further.                                  *)
(***************************************************************************)
EXTENDS SyncTime, FiniteSets, Sequences

CONSTANTS
    Devices,      \* device ids; natural numbers, they are compared
    Records,      \* sync ids
    Categories,   \* the records of table categorias; the rest are movements
    CategoryOf,   \* the category of each movement
    CreatorOf,    \* the device a record is created on (sync ids are UUIDs)
    MaxClock,     \* bound on the timestamps the server hands out
    MaxEdits,     \* bound on the edits users make
    MaxLate,      \* bound on pushes still pending after their client gave up
    MaxFails      \* bound on the client runs that fail

Movements == Records \ Categories

ASSUME CloudAssumption ==
    /\ Devices \subseteq Nat \ {0}
    /\ Categories \subseteq Records
    /\ CategoryOf \in [Movements -> Categories]
    /\ CreatorOf \in [Records -> Devices]
    /\ MaxClock \in Nat /\ MaxEdits \in Nat
    /\ MaxLate \in Nat /\ MaxFails \in Nat

VARIABLES
    clock,     \* the last instant handed out by now_iso()
    cloud,     \* the table row of each record
    call,      \* the HTTP call of each device and role
    late,      \* pushes abandoned by their client, still to be executed
    edits,     \* history: the edits users made, in order
    stored,    \* history: every content the cloud ever held, per record
    fails      \* history: how many client runs failed

serverVars == <<clock, cloud, call, late, stored>>
cloudVars == <<serverVars, edits, fails>>

-----------------------------------------------------------------------------
Edits == 1..MaxEdits
Contents == SUBSET Edits

(* A pushing and a pulling process per device; the desktop uses them in    *)
(* turn, on a phone they may run side by side.                             *)
Roles == {"up", "down"}

NoRevision == 0
NoDevice == 0
NoRow == [val |-> {}, rev |-> NoRevision, dev |-> NoDevice]
IsRow(row) == row.rev # NoRevision

Revisions == 0..(2 * TicksPerSecond * (MaxClock + 2))
CloudRows == [val : Contents, rev : Revisions, dev : Devices \cup {NoDevice}]
Items == [id : Records, val : Contents, base : Revisions]
PulledRows == [id : Records, val : Contents, rev : Revisions,
               dev : Devices \cup {NoDevice}]
Calls == [st : {"idle", "sent", "running", "done"},
          kind : {"none", "push", "pull"},
          items : SUBSET Items,          \* push: the payload
          since : Revisions,             \* pull: the cursor sent, or 0
          now : 0..MaxClock,             \* the handler's now_iso()
          accepted : SUBSET Records,     \* push reply
          rejected : SUBSET Records,     \* push reply: conflict_remote_newer
          rows : SUBSET PulledRows]      \* pull reply
LatePushes == [dev : Devices, items : SUBSET Items, now : 0..MaxClock]

NoCall == [st |-> "idle", kind |-> "none", items |-> {}, since |-> 0,
           now |-> 0, accepted |-> {}, rejected |-> {}, rows |-> {}]

PushCall(items) == [NoCall EXCEPT !.st = "sent", !.kind = "push",
                                  !.items = items]
PullCall(since) == [NoCall EXCEPT !.st = "sent", !.kind = "pull",
                                  !.since = since]

CloudInit ==
    /\ clock = 0
    /\ cloud = [r \in Records |-> NoRow]
    /\ call = [d \in Devices |-> [o \in Roles |-> NoCall]]
    /\ late = {}
    /\ edits = <<>>
    /\ stored = [r \in Records |-> {}]
    /\ fails = 0

-----------------------------------------------------------------------------
(* _push_table's decision on one item.  An item with no baseline, or from  *)
(* the device that wrote the row last, is never a conflict.                *)
Accepts(row, item, d) ==
    ~ /\ IsRow(row)
      /\ item.base # NoRevision
      /\ item.base # row.rev
      /\ row.dev # d

Accepted(items, d) == {i \in items : Accepts(cloud[i.id], i, d)}

(* _push_table's upsert: every accepted item becomes the row, with the     *)
(* handler's timestamp as its revision.                                    *)
Upsert(items, d, now) ==
    LET taken == Accepted(items, d)
    IN  /\ cloud' = [r \in Records |->
              IF \E i \in taken : i.id = r
              THEN [val |-> (CHOOSE i \in taken : i.id = r).val,
                    rev |-> Exact(now), dev |-> d]
              ELSE cloud[r]]
        /\ stored' = [r \in Records |->
              stored[r] \cup {i.val : i \in {j \in taken : j.id = r}}]

(* _pull_table: since < remote_updated_at <= until, on strings. *)
RowsBetween(since, until) ==
    {[id |-> r, val |-> cloud[r].val, rev |-> cloud[r].rev,
      dev |-> cloud[r].dev] :
        r \in {s \in Records : /\ IsRow(cloud[s])
                               /\ cloud[s].rev > since
                               /\ cloud[s].rev <= until}}

PushRunning ==
    \/ \E d \in Devices, o \in Roles :
          call[d][o].kind = "push" /\ call[d][o].st = "running"
    \/ \E q \in late : q.now # 0

(* Variant: the push handler runs in the thread pool, as the pull does. *)
Arrive_Threaded(d, o) ==
    /\ call[d][o].st = "sent"
    /\ clock < MaxClock
    /\ clock' = clock + 1
    /\ call' = [call EXCEPT ![d][o].st = "running", ![d][o].now = clock + 1]
    /\ UNCHANGED <<cloud, late, stored>>

(* A request reaches its handler, which reads the clock. *)
Arrive(d, o) ==
    /\ call[d][o].st = "sent"
    /\ call[d][o].kind = "push" => ~PushRunning
    /\ clock < MaxClock
    /\ clock' = clock + 1
    /\ call' = [call EXCEPT ![d][o].st = "running", ![d][o].now = clock + 1]
    /\ UNCHANGED <<cloud, late, stored>>

(* sync_push under the lock: all items in one transaction, and the reply. *)
RunPush(d, o) ==
    LET c == call[d][o]
        taken == {i.id : i \in Accepted(c.items, d)}
    IN  /\ c.st = "running" /\ c.kind = "push"
        /\ Upsert(c.items, d, c.now)
        /\ call' = [call EXCEPT ![d][o] =
              [@ EXCEPT !.st = "done", !.accepted = taken,
                        !.rejected = {i.id : i \in c.items} \ taken]]
        /\ UNCHANGED <<clock, late>>

(* sync_pull under the lock; the cursor it returns is its timestamp. *)
RunPull(d, o) ==
    LET c == call[d][o]
    IN  /\ c.st = "running" /\ c.kind = "pull"
        /\ call' = [call EXCEPT ![d][o] =
              [@ EXCEPT !.st = "done",
                        !.rows = RowsBetween(c.since, Exact(c.now))]]
        /\ UNCHANGED <<clock, cloud, late, stored>>

(* The same two steps for a push whose client timed out or was killed. *)
ArriveLate(q) ==
    /\ q.now = 0
    /\ ~PushRunning
    /\ clock < MaxClock
    /\ clock' = clock + 1
    /\ late' = (late \ {q}) \cup {[q EXCEPT !.now = clock + 1]}
    /\ UNCHANGED <<cloud, call, stored>>

RunLate(q) ==
    /\ q.now # 0
    /\ Upsert(q.items, q.dev, q.now)
    /\ late' = late \ {q}
    /\ UNCHANGED <<clock, call>>

CloudNext ==
    /\ \/ \E d \in Devices, o \in Roles :
             Arrive(d, o) \/ RunPush(d, o) \/ RunPull(d, o)
       \/ \E q \in late : ArriveLate(q) \/ RunLate(q)
    /\ UNCHANGED <<edits, fails>>

-----------------------------------------------------------------------------
(* How a client uses its call.  These are conjuncts of the client actions. *)

Send(d, o, request) ==
    /\ call' = [call EXCEPT ![d][o] = request]
    /\ UNCHANGED <<clock, cloud, late, stored, edits, fails>>

Replied(d, o, kind) == call[d][o].st = "done" /\ call[d][o].kind = kind

Finish(d, o) == Send(d, o, NoCall)

(* A run of the client ends in failure while it may have a call open.  A   *)
(* push that has not committed may be lost, or executed later.             *)
Abandon(d, o) ==
    LET c == call[d][o]
        q == [dev |-> d, items |-> c.items, now |-> c.now]
    IN  /\ fails < MaxFails
        /\ fails' = fails + 1
        /\ call' = [call EXCEPT ![d][o] = NoCall]
        /\ \/ late' = late
           \/ /\ c.kind = "push" /\ c.st \in {"sent", "running"}
              /\ Cardinality(late) < MaxLate
              /\ late' = late \cup {q}
        /\ UNCHANGED <<clock, cloud, stored, edits>>

(* A user edits record r on device d; the edit gets the next number. *)
NewEdit == Len(edits) + 1
MakeEdit(d, r) ==
    /\ Len(edits) < MaxEdits
    /\ edits' = Append(edits, [dev |-> d, rec |-> r])
    /\ UNCHANGED <<serverVars, fails>>

(* The edits that were made to record r on device d. *)
EditsOf(d, r) == {e \in 1..Len(edits) : edits[e] = [dev |-> d, rec |-> r]}

-----------------------------------------------------------------------------
(* The cloud with clients of any kind: what MobileSync and DesktopSync     *)
(* must implement, and all that the cloud's own guarantees rest on.  A     *)
(* device has at most one request of each role under way: it sends one     *)
(* when it has none, and frees it, or sends the next, after the reply.     *)
ClientCall(d, o) ==
    /\ call[d][o].st \in {"idle", "done"}
    /\ call'[d][o] \in Calls
    /\ \/ call'[d][o] = NoCall
       \/ call'[d][o].st = "sent" /\ call'[d][o].now = 0
    /\ call' = [call EXCEPT ![d][o] = call'[d][o]]
    /\ UNCHANGED <<clock, cloud, late, stored, edits, fails>>

CloudStep ==
    \/ CloudNext
    \/ \E d \in Devices, o \in Roles : ClientCall(d, o) \/ Abandon(d, o)
    \/ \E d \in Devices, r \in Records : MakeEdit(d, r)

CloudSpec == CloudInit /\ [][CloudStep]_cloudVars

CloudTypeOK ==
    /\ clock \in 0..MaxClock
    /\ cloud \in [Records -> CloudRows]
    /\ call \in [Devices -> [Roles -> Calls]]
    /\ late \subseteq LatePushes
    /\ edits \in Seq([dev : Devices, rec : Records]) /\ Len(edits) <= MaxEdits
    /\ stored \in [Records -> SUBSET Contents]
    /\ fails \in 0..MaxFails

-----------------------------------------------------------------------------
(* What clients rely on; stated over the behaviours of a client module.    *)

(* No movement is in the cloud before its category is (push's two phases). *)
CloudReferences ==
    \A r \in Movements : IsRow(cloud[r]) => IsRow(cloud[CategoryOf[r]])

(* A record's revision only grows, although the timestamp is taken before  *)
(* the lock: what every cursor and every _remote_is_newer relies on.       *)
RevisionsGrow ==
    [][\A r \in Records :
          cloud'[r] # cloud[r] => cloud'[r].rev > cloud[r].rev]_cloudVars
=============================================================================
