------------------------------ MODULE MCWindow ------------------------------
(***************************************************************************)
(* The window of the desktop, in parts that share no state: a behaviour is *)
(* one of AppClose (close), Screens (screens) or SyncFailures (failures).  *)
(* Only AppClose asks for fairness.                                        *)
(***************************************************************************)
EXTENDS AppClose

CONSTANTS Viewed, Months, MaxLoads, \* Screens
          Accounts, Local            \* SyncFailures

\* The window is always of somebody, be it of nobody's account.
ASSUME ViewedAssumption == None \notin Viewed

VARIABLES
    part,
    kind, active, key, timer, hurried, gate, period, reload, loads, shown, error,
    syncing, accounts, run, call, row, told, tested

Views == INSTANCE Screens WITH Owners <- Viewed, Periods <- Months
Failures == INSTANCE SyncFailures WITH
    Owners <- Accounts, active <- syncing, shown <- told

\* A run that has not failed has no failure, and no class of one.
ASSUME FailureAssumption ==
    /\ None \notin Failures!OfLocal \union Failures!OfCloud
    /\ \A step \in Failures!LocalSteps \union Failures!CloudSteps \union {"ready"},
          out \in Failures!LocalFaults \union Failures!CloudFaults
                  \union Failures!ReadyAnswers \union {"refused"} :
         None # Failures!Failure(step, out)

viewsState == <<kind, active, key, timer, hurried, gate, period, reload, loads,
                shown, error>>
failuresState == <<syncing, accounts, run, call, row, told, tested>>
windowVars == <<part, vars, viewsState, failuresState>>

WindowInit ==
    /\ Init /\ Views!Init /\ Failures!Init
    /\ part \in {"close", "screens", "failures"}
    /\ part # "screens" =>
         kind = "plain" /\ active = Local
    /\ part # "failures" => syncing = CHOOSE o \in Accounts : TRUE

WindowNext ==
    \/ part = "close" /\ Next /\ UNCHANGED <<part, viewsState, failuresState>>
    \/ part = "screens" /\ Views!Next /\ UNCHANGED <<part, vars, failuresState>>
    \/ part = "failures" /\ Failures!Next /\ UNCHANGED <<part, vars, viewsState>>

WindowSpec ==
    /\ WindowInit
    /\ [][WindowNext]_windowVars
    /\ WF_windowVars(part = "close" /\ CloserStep /\ UNCHANGED <<part, viewsState, failuresState>>)

-----------------------------------------------------------------------------
\* Answers that arrive late do not put another account's rows, or another
\* month's, on the screen (layout.tsx, dashboardRefresh.ts, dashboard/page.tsx).
ScreensAreTheAccounts == Views!ScreensAreTheAccounts

\* What is told of a failed synchronisation is about what failed: the right
\* side of the wire, with the right account's session (cloudSync.ts,
\* classifySyncFailure and cloudFetch).
FailuresAreTold == Failures!FailuresAreTold
=============================================================================
