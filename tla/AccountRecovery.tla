--------------------------- MODULE AccountRecovery ---------------------------
(***************************************************************************)
(* The phone keeps what an account of a former environment left in it      *)
(* (mobileRecoveryState.ts, mobileAccountRecovery.ts).  When the program    *)
(* starts, such an account leaves the list of accounts and becomes a       *)
(* source: its rows stay in SQLite under its id, and nothing is            *)
(* synchronised until the user, signed in with the same address, has the   *)
(* rows moved to the account in use or kept apart.                         *)
(*                                                                         *)
(* The decision is recorded twice: the move itself in SQLite, by the       *)
(* transaction that makes it (ledger), and the status of the source in the *)
(* storage of the WebView, which is written after it and which Android may *)
(* set back to an older state when it kills the program.                   *)
(***************************************************************************)
EXTENDS Naturals, FiniteSets

CONSTANTS
  Sources,     \* the accounts of the former environment
  Targets,     \* the accounts of this one
  SameMail,    \* <<source, target>>: the same address
  MaxReviews,  \* reviews of the sources under way at once (bound)
  Local, None

VARIABLES
  active,      \* getActiveOwnerId()
  status,      \* recoverySources(): of each source; "listed" is still an account
  flushed,     \* what of status the storage of the WebView has kept
  failed,      \* storageFailed: the sources could not be archived
  at,          \* the account the rows of a source belong to, or None
  own,         \* the accounts that have rows of their own
  ledger,      \* table mobile_account_recovery: the target of a source
  reviews,     \* evaluateRecoveryInventory and findMobileRecovery under way
  due,         \* the effect of the dialog is to run
  candidate,   \* what the dialog offers
  decision     \* what the user decided, under way (busy)

vars == <<active, status, flushed, failed, at, own, ledger, reviews, due,
          candidate, decision>>
dataVars == <<at, own, ledger>>
screenVars == <<reviews, due, candidate, decision>>

HasRows(o) == o \in own \/ \E s \in Sources : at[s] = o

Pending == {s \in Sources : status[s] = "pending"}

\* isMobileRecoveryBlocked: nothing is synchronised.
Blocked == failed \/ Pending # {}

\* finishRecoverySource: the status is written, and its event makes the dialog
\* review the sources again.
Finish(s, how) == status' = [status EXCEPT ![s] = how] /\ due' = TRUE

-----------------------------------------------------------------------------
(* The program starts and ends. *)

\* quarantineMobileAccounts, whenever the accounts are read: those of another
\* environment are archived.  If the archive cannot be written nothing changes,
\* and the program works without an account.
Quarantine(stored, o) ==
  \/ /\ status' = [s \in Sources |-> IF stored[s] = "listed" THEN "pending" ELSE stored[s]]
     /\ failed' = FALSE
     /\ active' = o
  \/ /\ \E s \in Sources : stored[s] = "listed"
     /\ status' = stored
     /\ failed' = TRUE
     /\ active' = Local

\* The accounts are read again, where the archive had failed.
Hydrate ==
  /\ failed
  /\ \E o \in Targets \cup {Local} : Quarantine(status, o)
  /\ due' = TRUE
  /\ UNCHANGED <<flushed, dataVars, reviews, candidate, decision>>

\* The storage of the WebView reaches the disk.
Flush ==
  /\ flushed # status
  /\ flushed' = status
  /\ UNCHANGED <<active, status, failed, dataVars, screenVars>>

\* The program is killed: calls and dialogs are gone, a transaction is either
\* committed or not, and it starts again with what was kept of the storage.
Restart ==
  /\ \E o \in Targets \cup {Local} : Quarantine(flushed, o)
  /\ reviews' = {} /\ candidate' = None /\ decision' = None /\ due' = TRUE
  /\ UNCHANGED <<flushed, dataVars>>

-----------------------------------------------------------------------------
(* The accounts in use and their rows. *)

\* Another account, or none; its list is not written while the archive failed.
Switch(o) ==
  /\ o # active /\ ~failed
  /\ active' = o
  /\ due' = TRUE
  /\ UNCHANGED <<status, flushed, failed, dataVars, reviews, candidate, decision>>

\* The user enters a row.
Create ==
  /\ active \in Targets
  /\ own' = own \cup {active}
  /\ UNCHANGED <<active, status, flushed, failed, at, ledger, screenVars>>

\* A synchronisation brings the first row.
Synchronise ==
  /\ active \in Targets /\ ~Blocked
  /\ own' = own \cup {active}
  /\ UNCHANGED <<active, status, flushed, failed, at, ledger, screenVars>>

-----------------------------------------------------------------------------
(* The review. *)

\* The effect runs: an older review goes on but offers nothing any more.
Review ==
  /\ due
  /\ Cardinality(reviews) < MaxReviews
  /\ due' = FALSE
  /\ candidate' = None
  /\ reviews' = {[r EXCEPT !.last = FALSE] : r \in reviews}
                \cup {[todo |-> Pending, source |-> None, found |-> None, rows |-> TRUE,
                       match |-> None, target |-> active, last |-> TRUE]}
  /\ UNCHANGED <<active, status, flushed, failed, dataVars, decision>>

Goes(r, next) == reviews' = (reviews \ {r}) \cup next

\* The ledger is read for the next source.
LooksUp(r, s) ==
  /\ s \in r.todo /\ r.source = None
  /\ Goes(r, {[r EXCEPT !.source = s, !.found = ledger[s]]})
  /\ UNCHANGED <<active, status, flushed, failed, dataVars, due, candidate, decision>>

Through(r) == [r EXCEPT !.todo = @ \ {r.source}, !.source = None, !.rows = TRUE]

\* It was moved: a decision that the storage forgot is recorded again.
Heals(r) ==
  /\ r.source # None /\ r.found # None
  /\ Finish(r.source, "migrated")
  /\ Goes(r, {Through(r)})
  /\ UNCHANGED <<active, flushed, failed, dataVars, candidate, decision>>

\* Its rows are counted; a source without rows is done with.
Counts(r) ==
  /\ r.source # None /\ r.found = None /\ r.rows
  /\ Goes(r, {IF HasRows(r.source) THEN Through(r) ELSE [r EXCEPT !.rows = FALSE]})
  /\ UNCHANGED <<active, status, flushed, failed, dataVars, due, candidate, decision>>

IsEmpty(r) ==
  /\ r.source # None /\ ~r.rows
  /\ Finish(r.source, "empty")
  /\ Goes(r, {Through(r)})
  /\ UNCHANGED <<active, flushed, failed, dataVars, candidate, decision>>

\* findMobileRecovery: the session is that of the account in use, and one source
\* has its address.
Matches(r) ==
  /\ r.todo = {} /\ r.source = None /\ r.match = None
  /\ r.target \in Targets /\ r.target = active
  /\ \E s \in Pending :
        /\ {x \in Pending : <<x, r.target>> \in SameMail} = {s}
        /\ Goes(r, {[r EXCEPT !.match = s]})
  /\ UNCHANGED <<active, status, flushed, failed, dataVars, due, candidate, decision>>

\* The rows of both were counted: the match is offered, by the last review only.
\* If the effect is to run again, what is set now it takes back as it starts.
Offers(r) ==
  /\ r.match # None
  /\ Goes(r, {})
  /\ candidate' = IF r.last /\ ~due
                  THEN [source |-> r.match, target |-> r.target,
                        blocked |-> HasRows(r.target)]
                  ELSE candidate
  /\ UNCHANGED <<active, status, flushed, failed, dataVars, due, decision>>

\* No source is offered, or several would be, or a call fails.
Ends(r) ==
  /\ r.todo = {} /\ r.source = None
  /\ Goes(r, {})
  /\ UNCHANGED <<active, status, flushed, failed, dataVars, due, candidate, decision>>

-----------------------------------------------------------------------------
(* The decision. *)

\* MobileAccountRecovery.decide: one at a time.
Decide(move) ==
  /\ candidate # None /\ decision = None
  /\ move => ~candidate.blocked
  /\ decision' = [source |-> candidate.source, target |-> candidate.target,
                  move |-> move, at |-> "asked", status |-> None, found |-> None,
                  rows |-> FALSE, taken |-> FALSE]
  /\ UNCHANGED <<active, status, flushed, failed, dataVars, reviews, due, candidate>>

DecisionAt(place) == decision # None /\ decision.at = place

\* It ends well: the dialog is closed.
DecisionEnds ==
  /\ decision' = None
  /\ candidate' = None
  /\ UNCHANGED <<active, flushed, failed, dataVars, reviews>>

\* It ends with an error, under the same question.
DecisionFails ==
  /\ decision' = None
  /\ UNCHANGED <<active, status, flushed, failed, dataVars, reviews, due, candidate>>

DecisionGoes(d) ==
  /\ decision' = d
  /\ UNCHANGED <<active, status, flushed, failed, dataVars, reviews, due, candidate>>

\* Any call of it fails, the transaction is refused, or the account in use has
\* no session or is another.
GivesUp ==
  /\ decision # None /\ decision.at # "committed"
  /\ DecisionFails

\* validateSource; to keep the rows apart nothing else is needed.
Validates ==
  /\ DecisionAt("asked") /\ active = decision.target
  /\ IF decision.move
     THEN DecisionGoes([decision EXCEPT !.at = "valid", !.status = status[decision.source]])
     ELSE Finish(decision.source, "separate") /\ DecisionEnds

\* The ledger is read.
Looks ==
  /\ DecisionAt("valid")
  /\ DecisionGoes([decision EXCEPT !.at = "looked", !.found = ledger[decision.source]])

\* The rows are counted, unless they were moved before.
CountsBoth ==
  /\ DecisionAt("looked")
  /\ IF decision.found = None
     THEN DecisionGoes([decision EXCEPT !.at = "counted", !.rows = HasRows(decision.source),
                                        !.taken = HasRows(decision.target)])
     ELSE IF decision.found = decision.target
     THEN Finish(decision.source, "migrated") /\ DecisionEnds
     ELSE DecisionFails

\* The transaction is sent, for an account still in use.
Sends ==
  /\ DecisionAt("counted")
  /\ IF ~decision.rows
     THEN Finish(decision.source, "empty") /\ DecisionEnds
     ELSE /\ decision.status = "pending" /\ ~decision.taken /\ active = decision.target
          /\ DecisionGoes([decision EXCEPT !.at = "sent"])

\* The guards of the transaction: the source is not in the ledger (its primary
\* key), the target has no rows.
Moves(s, t) ==
  /\ ledger[s] = None /\ ~HasRows(t)
  /\ at' = [at EXCEPT ![s] = t]
  /\ ledger' = [ledger EXCEPT ![s] = t]

\* mobile_sql_transaction: rows and ledger together, or neither.
Commits ==
  /\ DecisionAt("sent")
  /\ Moves(decision.source, decision.target)
  /\ decision' = [decision EXCEPT !.at = "committed"]
  /\ UNCHANGED <<active, status, flushed, failed, own, reviews, due, candidate>>

Records ==
  /\ DecisionAt("committed")
  /\ Finish(decision.source, "migrated")
  /\ DecisionEnds

\* The user closes the dialog, or has the sources reviewed again.
Close ==
  /\ candidate # None /\ decision = None
  /\ candidate' = None
  /\ UNCHANGED <<active, status, flushed, failed, dataVars, reviews, due, decision>>

ReviewAgain ==
  /\ ~due /\ candidate = None
  /\ due' = TRUE
  /\ UNCHANGED <<active, status, flushed, failed, dataVars, reviews, candidate, decision>>

-----------------------------------------------------------------------------
Init ==
  /\ active \in Targets \cup {Local}
  /\ flushed = [s \in Sources |-> "listed"]
  /\ status = [s \in Sources |-> "pending"]
  /\ failed = FALSE
  /\ at \in [Sources -> Sources \cup {None}]
  /\ \A s \in Sources : at[s] \in {s, None}
  /\ own = {}
  /\ ledger = [s \in Sources |-> None]
  /\ reviews = {} /\ due = TRUE
  /\ candidate = None /\ decision = None

Next ==
  \/ Hydrate \/ Flush \/ Restart
  \/ \E o \in Targets \cup {Local} : Switch(o)
  \/ Create \/ Synchronise
  \/ Review
  \/ \E r \in reviews : \/ \E s \in Sources : LooksUp(r, s)
                        \/ Heals(r) \/ Counts(r) \/ IsEmpty(r)
                        \/ Matches(r) \/ Offers(r) \/ Ends(r)
  \/ \E move \in BOOLEAN : Decide(move)
  \/ GivesUp \/ Validates \/ Looks \/ CountsBoth \/ Sends \/ Commits
  \/ Records \/ Close \/ ReviewAgain

Spec == Init /\ [][Next]_vars

-----------------------------------------------------------------------------
(* Properties. *)

\* The rows of a source are where the ledger says.
RowsFollowLedger ==
  \A s \in Sources : at[s] = (IF ledger[s] # None THEN ledger[s] ELSE s) \/ at[s] = None

\* The status of a source, where it is written, is true of its rows.
StatusIsTrue ==
  \A s \in Sources :
    /\ status[s] = "migrated" => ledger[s] # None
    /\ status[s] = "empty"    => at[s] # s
    /\ status[s] = "separate" => ledger[s] = None

\* Rows are moved into an account that has none, once, and while no decision on
\* any source is lost: what the user was told stays true however the calls
\* interleave and wherever the program is killed (mobileAccountRecovery.ts).
RecoveredOnce ==
  [][/\ RowsFollowLedger' /\ StatusIsTrue'
     /\ \A s \in Sources : ledger'[s] # ledger[s] =>
          ledger[s] = None /\ ~HasRows(ledger'[s]) /\ status[s] # "separate"]_vars
=============================================================================
