------------------------------ MODULE MCPhones ------------------------------
(***************************************************************************)
(* What the phone keeps, in parts that share no state, so that one run     *)
(* shows them all.  Three scenes of MCMobileSync:                          *)
(*   race     two phones edit one category, and one run may fail;          *)
(*   rewrite  they edit it three times, in turns, and no run fails;        *)
(*   tables   one phone edits a category and a movement of it;             *)
(* the planning of one phone (planning, PhonePlanning) and its quick       *)
(* entries (entries, QuickEntry).                                          *)
(***************************************************************************)
EXTENDS MCMobileSync

CONSTANTS RaceTicks, RaceEdits                                 \* the scene "race"
CONSTANT TableTicks                                            \* the scene "tables"
CONSTANTS PlanCategories, Months, MaxRows, MaxReopens, Payers  \* PhonePlanning
CONSTANTS Forms, rent, dues                                    \* what is paid
CONSTANT MaxEntries                                            \* QuickEntry

\* A series that meets a shorter month, one that meets a year without its day
\* and may be what follows the former, a week that ends in the next month, and
\* a payment that does not come back.
MCForms == {
  [what |-> rent, due |-> [month |-> 1, day |-> 31], frequency |-> "mensual"],
  [what |-> rent, due |-> [month |-> 2, day |-> 29], frequency |-> "anual"],
  [what |-> dues, due |-> [month |-> 2, day |-> 27], frequency |-> "semanal"],
  [what |-> dues, due |-> [month |-> 1, day |-> 31], frequency |-> "none"]}

VARIABLES
    scene,
    page, categories, rows, registered, charged, reopened, settled, paying,
    budgets, fixed, goal, saved,
    issued, expired, queue, consumed, events, bridge, answer, moved, pending,
    completed, consuming, waits, ready, dialog, opened

Planning == INSTANCE PhonePlanning WITH Categories <- PlanCategories, Calls <- Payers
Entries == INSTANCE QuickEntry

\* validateGastoProgramado lets only real dates and known frequencies pass.
ASSUME PartsAssumption ==
    /\ MaxRows \in Nat /\ MaxEntries \in Nat
    /\ \A form \in Forms : /\ form.due \in Planning!Dates
                           /\ form.frequency \in Planning!Frequencies \cup {"none"}

planningState == <<page, categories, rows, registered, charged, reopened, settled,
                   paying, budgets, fixed, goal, saved>>
entriesState == <<issued, expired, queue, consumed, events, bridge, answer, moved,
                  pending, completed, consuming, waits, ready, dialog, opened>>
sceneVars == <<vars, scene, planningState, entriesState>>

\* Two phones edit the category, and the other table stays empty.
OfCategory == \A i \in DOMAIN edits' : edits'[i].rec = cat
RaceWithin == OfCategory /\ clock' <= RaceTicks /\ Len(edits') <= RaceEdits

\* No run fails, and the phones edit in turns.
Rewrites ==
    /\ OfCategory /\ fails' = 0
    /\ \A i \in 2 .. Len(edits') : edits'[i - 1].dev # edits'[i].dev

\* The last row that fits is one that a payment made, and ends the behaviour.
PlanWithin ==
    /\ Len(rows) < MaxRows
    /\ Len(rows') = MaxRows => rows'[MaxRows].made

SceneInit ==
    /\ Init /\ Planning!Init /\ Entries!Init
    /\ scene \in {"race", "rewrite", "tables", "planning", "entries"}
    /\ scene # "planning" => page = "plans"

SceneNext ==
    /\ UNCHANGED scene
    /\ \/ /\ scene = "race" /\ Next
          /\ RaceWithin
          /\ UNCHANGED <<planningState, entriesState>>
       \/ /\ scene = "rewrite" /\ Next
          /\ Rewrites
          /\ UNCHANGED <<planningState, entriesState>>
       \/ /\ scene = "tables"
          /\ (CloudNext /\ UNCHANGED mobileVars) \/ PhoneNext(1)
          /\ clock' <= TableTicks
          /\ UNCHANGED <<planningState, entriesState>>
       \/ /\ scene = "planning" /\ Planning!Next
          /\ PlanWithin
          /\ UNCHANGED <<vars, entriesState>>
       \/ scene = "entries" /\ Entries!Next /\ UNCHANGED <<vars, planningState>>

SceneSpec == SceneInit /\ [][SceneNext]_sceneVars

-----------------------------------------------------------------------------
\* A payment is charged once, a series goes on in turn and its rows have no
\* twins, nothing hangs from what was deleted (mobileSchedulingRepository.ts),
\* and a tap on a tile opens its form once at most (mobileQuickEntry.ts).
OneCallOneEffect == Planning!PlanningIsExact /\ Entries!TapOpensOnce
=============================================================================
