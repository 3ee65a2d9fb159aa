---------------------------- MODULE SyncFailures ----------------------------
(***************************************************************************)
(* What the desktop says of a synchronisation that fails                   *)
(* (services/cloudSync.ts).  DesktopSync has the data of a run; this       *)
(* module has its requests, one by one, to the local service and to the    *)
(* cloud, every way in which each may fail, the second attempt of a        *)
(* request the cloud refuses with 401, the classification of the failure,  *)
(* what is recorded of it, and the session tests of the settings page,     *)
(* while the user changes account.                                         *)
(*                                                                         *)
(* A failure is what cloudSyncError carries: the phase it came from, its   *)
(* type, the HTTP status, and the classification the server gave, if any.  *)
(***************************************************************************)
EXTENDS Naturals

CONSTANTS
  Owners,     \* the accounts of this computer
  Local,      \* using the application without an account
  None

VARIABLES
  active,     \* the account in use
  accounts,   \* those whose session is kept
  run,        \* the run in flight
  call,       \* the request each caller has at the cloud
  row,        \* the history row of the last run
  shown,      \* the failure the screens show
  tested      \* the result of each session test

vars == <<active, accounts, run, call, row, shown, tested>>

-----------------------------------------------------------------------------
(* Requests and failures. *)

CloudSteps == {"health", "push", "pull"}
LocalSteps == {"integrity", "device", "pending", "mark_rejected", "contract", "cursor",
               "apply", "mark_synced", "cursor_save", "contract_save"}

\* The phase a request is accounted to.
PhaseOf(step) ==
  CASE step = "health" -> "cloud_health"
    [] step \in {"push", "pull"} -> "cloud"
    [] step = "mark_rejected" -> "local_mark_rejected"
    [] step = "apply" -> "local_apply_remote"
    [] OTHER -> "local"

\* How a request may end besides well.
LocalFaults   == {"network", "denied", "invalid", "constraint", "failed", "garbled"}
CloudFaults   == {"network", "timeout", "denied", "forbidden", "invalid", "closed",
                  "failed", "garbled"}
ReadyAnswers  == {"ok", "network", "preparing", "broken", "garbled"}
HealthAnswers == {"ok", "incompatible", "network", "timeout", "failed", "garbled"}

Status(out) ==
  CASE out = "denied" -> 401
    [] out = "forbidden" -> 403
    [] out = "constraint" -> 409
    [] out = "closed" -> 410
    [] out = "invalid" -> 422
    [] out = "failed" -> 500
    [] out \in {"garbled", "refused"} -> 200
    [] OTHER -> 0

classifyHttpStatus(status) ==
  CASE status = 401 -> "unauthorized"
    [] status = 403 -> "forbidden"
    [] status >= 500 -> "server_error"
    [] OTHER -> "unknown"

\* classifyFetchError for a request without an answer, parseResponse for one.
TypeOf(out) ==
  IF out \in {"network", "timeout"} THEN out
  ELSE IF out \in {"garbled", "refused"} THEN "invalid_response"
  ELSE classifyHttpStatus(Status(out))

\* The classification in the body of the local service's structured errors.
Told(step, out) ==
  IF out = "constraint"
  THEN IF step = "apply" THEN "local_apply_constraint" ELSE "local_repair_required"
  ELSE IF out = "refused" THEN "cloud_confirmation" ELSE None

Failure(step, out) ==
  [step |-> step, phase |-> PhaseOf(step), type |-> TypeOf(out),
   status |-> Status(out), told |-> Told(step, out)]

\* classifySyncFailure once the local data and the rejections are excluded.
ByRequest(f) ==
  IF f.told # None THEN f.told
  ELSE IF f.phase = "local_mark_rejected" THEN "record_rejected"
  ELSE IF f.phase = "local_apply_remote" /\ f.status = 409 THEN "local_apply_constraint"
  ELSE IF f.phase \in {"local", "local_apply_remote"}
  THEN CASE f.type \in {"network", "timeout"} -> "local_service_unreachable"
         [] f.status >= 500 -> "local_service_error"
         [] f.status \in {400, 422} -> "local_apply_invalid_payload"
         [] OTHER -> "unknown"
  ELSE CASE f.status \in {400, 422} -> "cloud_validation"
         [] f.status >= 500 -> "cloud_service_error"
         [] f.type \in {"network", "timeout"} -> "cloud_connection"
         [] f.type \in {"unauthorized", "forbidden"} -> "cloud_confirmation"
         [] OTHER -> "unknown"

\* Variant: the cloud's words for every request without an answer.
Classification_NoPhase(f, r) ==
  IF r.blocked THEN "local_repair_required"
  ELSE IF r.rejected THEN "record_rejected"
  ELSE IF f.type \in {"network", "timeout"} THEN "cloud_connection"
  ELSE ByRequest(f)

Classification(f, r) ==
  IF r.blocked THEN "local_repair_required"
  ELSE IF r.rejected THEN "record_rejected"
  ELSE IF ByRequest(f) = "cloud_connection" /\ r.health = "unreachable"
  THEN "cloud_unreachable"
  ELSE ByRequest(f)

-----------------------------------------------------------------------------
(* The cloud, and the session a request is made with. *)

Tests   == {"session_test", "sync_test"}
Callers == {"run"} \cup Tests
NoCall  == [state |-> "none", owner |-> None, token |-> None, again |-> FALSE,
            out |-> None]

NoResult == [out |-> None, own |-> TRUE]

\* cloudFetch with the access token of an account.
Fetch(o) == [NoCall EXCEPT !.state = "sent", !.owner = o, !.token = o]

\* The owner a caller names for the refresh: the session test names none.
Named(who) == IF who = "session_test" THEN active ELSE call[who].owner

\* An answer.  410 closes the account of the token; a first 401 is not
\* returned before the session has been refreshed.
Answered(who, out) ==
  /\ call[who].state = "sent"
  /\ out = "refused" => who = "run" /\ run.at = "push"
  /\ IF out = "denied" /\ ~call[who].again
     THEN call' = [call EXCEPT ![who].state = "refreshing"]
     ELSE call' = [call EXCEPT ![who].state = "back", ![who].out = out]
  /\ LET gone == IF out = "closed" THEN {call[who].token} ELSE {}
     IN /\ accounts' = accounts \ gone
        /\ active' = IF active \in gone THEN Local ELSE active
  /\ UNCHANGED <<run, row, shown, tested>>

\* forceRefreshActiveCloudSession, and the request again with the new token.
Refreshed(who, ok) ==
  /\ call[who].state = "refreshing"
  /\ call' = IF ok /\ Named(who) \in accounts
             THEN [call EXCEPT ![who].state = "sent", ![who].token = Named(who),
                               ![who].again = TRUE]
             ELSE [call EXCEPT ![who].state = "back", ![who].out = "denied"]
  /\ UNCHANGED <<active, accounts, run, row, shown, tested>>

-----------------------------------------------------------------------------
(* The run. *)

NoRow == [owner |-> None, class |-> None]
NoRun == [owner |-> None, at |-> None, rejected |-> FALSE, blocked |-> FALSE,
          health |-> "healthy", failed |-> None]

At(step) == run.owner # None /\ run.failed = None /\ run.at = step
Fails(f) == run' = [run EXCEPT !.failed = f] /\ UNCHANGED shown

\* The request after each.  Four are made only if there is something to send.
Following(step, rejected) ==
  CASE step = "ready" -> {"health"}
    [] step = "health" -> {"integrity"}
    [] step = "integrity" -> {"device"}
    [] step = "device" -> {"pending"}
    [] step = "pending" -> {"push"}
    [] step = "push" -> IF rejected THEN {"mark_rejected"} ELSE {"contract"}
    [] step = "mark_rejected" -> {"contract"}
    [] step = "contract" -> {"cursor"}
    [] step = "cursor" -> {"pull"}
    [] step = "pull" -> {"apply", "mark_synced", "cursor_save", "contract_save"}
    [] step = "apply" -> {"mark_synced", "cursor_save", "contract_save"}
    [] step = "mark_synced" -> {"cursor_save", "contract_save"}
    [] step = "cursor_save" -> {"contract_save"}
    [] step = "contract_save" -> {}

\* What is shown once the changes are in place, before the cursor is saved: if
\* the account is still the one in use.
Settled == IF run.rejected THEN [owner |-> run.owner, class |-> "record_rejected"] ELSE NoRow
Advance(r) ==
  \E next \in Following(r.at, r.rejected) :
    /\ run' = [r EXCEPT !.at = next]
    /\ shown' = IF /\ r.at \in {"pull", "apply", "mark_synced"}
                   /\ next \in {"cursor_save", "contract_save"}
                   /\ active = r.owner
                THEN Settled ELSE shown

\* One run or one test is followed (bound): they meet only in the sessions, which
\* the user changes as much.  DesktopSync follows one run after another.
Idle == /\ run.owner = None /\ row.owner = None
        /\ \A t \in Tests : call[t] = NoCall /\ tested[t] = NoResult

\* runSyncWithReason: the session of the account in use, and one run at a time.
Begin(o) ==
  /\ Idle
  /\ o = active /\ o \in accounts
  /\ run' = [NoRun EXCEPT !.owner = o, !.at = "ready"]
  /\ UNCHANGED <<active, accounts, call, row, shown, tested>>

\* getLocalReadyState: an answer that cannot be read counts as "critical", and
\* a database that is being prepared is not one to synchronise.
Ready(out) ==
  /\ At("ready")
  /\ CASE out = "ok" -> Advance(run)
       [] out = "network" -> Fails(Failure("ready", "network"))
       [] OTHER -> /\ run' = [run EXCEPT !.blocked = TRUE,
                                         !.failed = Failure("ready", out)]
                   /\ UNCHANGED shown
  /\ UNCHANGED <<active, accounts, call, row, tested>>

\* ensureCloudSyncCompatible: a health check that fails blocks nothing; a cloud
\* without the tables or capabilities of this version does.
Health(out) ==
  /\ At("health")
  /\ CASE out = "ok" -> Advance(run)
       [] out = "incompatible" -> Fails(Failure("health", "garbled"))
       [] out \in {"network", "timeout"} -> Advance([run EXCEPT !.health = "unreachable"])
       [] OTHER -> Advance([run EXCEPT !.health = "degraded"])
  /\ UNCHANGED <<active, accounts, call, row, tested>>

\* localGet and localPost.
LocalStep(step, out) ==
  /\ At(step)
  /\ CASE out = "ok" -> Advance(run)
       [] out = "critical" -> /\ step = "integrity"
                              /\ run' = [run EXCEPT !.blocked = TRUE,
                                           !.failed = Failure(step, "constraint")]
                              /\ UNCHANGED shown
       [] OTHER -> Fails(Failure(step, out))
  /\ UNCHANGED <<active, accounts, call, row, tested>>

\* cloudPost and cloudGet.
Sends(step) ==
  /\ At(step) /\ call["run"].state = "none"
  /\ call' = [call EXCEPT !["run"] = Fetch(run.owner)]
  /\ UNCHANGED <<active, accounts, run, row, shown, tested>>

\* Their answers: rejected says whether the push had changes refused one by
\* one, "refused" that its confirmation does not add up.
Returns(step, rejected) ==
  /\ At(step) /\ call["run"].state = "back"
  /\ rejected => step = "push"
  /\ LET out == call["run"].out
         r   == [run EXCEPT !.rejected = @ \/ rejected]
     IN CASE out = "ok" -> Advance(r)
          [] out = "refused" -> run' = [r EXCEPT !.failed = Failure(step, out)] /\ UNCHANGED shown
          [] OTHER -> Fails(Failure(step, out)) /\ ~rejected
  /\ call' = [call EXCEPT !["run"] = NoCall]
  /\ UNCHANGED <<active, accounts, row, tested>>

\* The contract of the cloud is saved and the run recorded in the history.
Succeed ==
  /\ At("contract_save")
  /\ row' = [owner |-> run.owner, class |-> "success", failed |-> None, health |-> run.health]
  /\ run' = NoRun
  /\ UNCHANGED <<active, accounts, call, shown, tested>>

\* The catch of runSyncWithReason.
Recorded ==
  /\ run.failed # None
  /\ LET class == Classification(run.failed, run)
     IN /\ row' = [owner |-> run.owner, class |-> class, failed |-> run.failed,
                   health |-> run.health]
        /\ shown' = IF active = run.owner THEN [owner |-> run.owner, class |-> class]
                                          ELSE shown
  /\ run' = NoRun
  /\ UNCHANGED <<active, accounts, call, tested>>

-----------------------------------------------------------------------------
(* The session tests, and the user. *)

\* testCloudSession and testCloudSync, with the session of the account in use.
Test(who) ==
  /\ active \in accounts /\ Idle
  /\ call' = [call EXCEPT ![who] = Fetch(active)]
  /\ UNCHANGED <<active, accounts, run, row, shown, tested>>

Tested(who) ==
  /\ call[who].state = "back"
  /\ tested' = [tested EXCEPT ![who] = [out |-> call[who].out,
                                            own |-> call[who].token = call[who].owner]]
  /\ call' = [call EXCEPT ![who] = NoCall]
  /\ UNCHANGED <<active, accounts, run, row, shown>>

Switch(o) ==
  /\ o # active /\ o \in accounts \cup {Local}
  /\ active' = o
  /\ UNCHANGED <<accounts, run, call, row, shown, tested>>

\* The account is removed from this computer.
SignOut(o) ==
  /\ o \in accounts
  /\ accounts' = accounts \ {o}
  /\ active' = IF active = o THEN Local ELSE active
  /\ UNCHANGED <<run, call, row, shown, tested>>

Init ==
  /\ active \in Owners
  /\ accounts = Owners
  /\ run = NoRun
  /\ call = [who \in Callers |-> NoCall]
  /\ row = [owner |-> None, class |-> None, failed |-> None, health |-> "healthy"]
  /\ shown = NoRow
  /\ tested = [who \in Tests |-> NoResult]

Next ==
  \/ \E o \in Owners : Begin(o) \/ SignOut(o)
  \/ \E o \in Owners \cup {Local} : Switch(o)
  \/ \E out \in ReadyAnswers : Ready(out)
  \/ \E out \in HealthAnswers : Health(out)
  \/ \E step \in LocalSteps, out \in LocalFaults \cup {"ok", "critical"} : LocalStep(step, out)
  \/ \E step \in {"push", "pull"} : Sends(step)
  \/ \E step \in {"push", "pull"}, rejected \in BOOLEAN : Returns(step, rejected)
  \/ \E who \in Callers, out \in CloudFaults \cup {"ok", "refused"} : Answered(who, out)
  \/ \E who \in Callers, ok \in BOOLEAN : Refreshed(who, ok)
  \/ Succeed \/ Recorded
  \/ \E who \in Tests : Test(who) \/ Tested(who)

Spec == Init /\ [][Next]_vars
-----------------------------------------------------------------------------
(* Properties. *)

OfLocal == {"local_repair_required", "local_apply_constraint", "local_service_unreachable",
            "local_service_error", "local_apply_invalid_payload"}
OfCloud == {"cloud_validation", "cloud_service_error", "cloud_connection",
            "cloud_unreachable", "cloud_confirmation"}

\* A failure is attributed to the side whose request failed; a repair is asked
\* for only when the local service refused its data; and the cloud is called
\* unreachable only by a run whose health check did not reach it either.
Attributed ==
  /\ row.class \in OfLocal => row.failed.step \notin CloudSteps
  /\ row.class \in OfCloud => row.failed.step \in CloudSteps
  /\ row.class = "cloud_unreachable" => row.health = "unreachable"
  /\ row.class = "local_repair_required" =>
       row.failed.step = "ready" \/ row.failed.status = 409

\* A request of a run, or of the synchronisation test, carries the session of
\* the account it began with, also after the refresh that a 401 starts, and
\* whatever the user has changed to meanwhile.
OwnSession ==
  \A who \in {"run", "sync_test"} : call[who].token = call[who].owner

\* What is told of a failed synchronisation is about what failed: the right
\* side of the wire, with the right account's session (cloudSync.ts,
\* classifySyncFailure and cloudFetch).
FailuresAreTold ==
  Attributed /\ OwnSession /\ tested["sync_test"].own
=============================================================================
