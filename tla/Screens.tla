------------------------------ MODULE Screens ------------------------------
(***************************************************************************)
(* The desktop screens and the account they show.  When the user changes   *)
(* account, layout.tsx waits 90 ms and then mounts everything again under  *)
(* the new account: the gate that asks the local service whether it is     *)
(* ready (BackendStartupGate), and behind it the screen, which loads its   *)
(* rows with the account in use at that moment (http.ts).  What is left of *)
(* the former screen, its answers included, is discarded.  Between a       *)
(* change and its mount the former screen is alive, and each kind of       *)
(* screen has its own defence:                                             *)
(*                                                                         *)
(*   summary     the dashboard: an epoch and the account of the request;   *)
(*   cancelling  statistics and reports: only the last request counts;     *)
(*   plain       movements, budgets, goals, calendar: none;                *)
(*   account     the account panel: none, but what it changes it loads;    *)
(*   settings    configuration: loads again on every change of account;    *)
(*   sidebar     the account menu: checks the account between two waits.   *)
(***************************************************************************)
EXTENDS Naturals

CONSTANTS
  Owners,     \* the accounts, and using the application without one
  Periods,    \* the months a screen can be asked for
  MaxLoads,   \* loads awaiting their answer at once (bound)
  None

VARIABLES
  kind,       \* which screen is open
  active,     \* getActiveOwnerId()
  key,        \* layout.tsx: the account everything is mounted under
  timer,      \* the account the 90 ms timer will mount, or None
  hurried,    \* history: the user went back to the mounted account in time
  gate,       \* BackendStartupGate: "asking", "failed", or "open"
  period,     \* the month chosen
  reload,     \* the dashboard's 120 ms timer: "no", "due", or "first"
  loads,      \* the loads without an answer; the last one is not void
              \* (requestEpochRef, or the clean-up of the effect before)
  shown,      \* whose rows, of which month, are on the screen
  error       \* the screen says that they could not be loaded

vars == <<kind, active, key, timer, hurried, gate, period, reload, loads,
          shown, error>>
shownVars == <<shown, error>>
layoutVars == <<kind, active, key, timer, hurried, gate>>

Kinds   == {"summary", "cancelling", "plain", "account", "settings", "sidebar"}
Nothing == [owner |-> None, period |-> None]

\* The month every screen begins with.
Today == CHOOSE p \in Periods : TRUE

-----------------------------------------------------------------------------
(* Loads. *)

\* The load number n.  The account menu learns the account before it asks for
\* its plan, so it has a second wait, begun with the account of that moment.
Load(n, o, p) == [n |-> n, owner |-> o, period |-> p, last |-> TRUE, second |-> None]

Void(ls) == {[l EXCEPT !.last = FALSE] : l \in ls}

\* A screen begins a load of month p with the account o in use.
BeginLoad(o, p) ==
  \E n \in 1 .. MaxLoads :
    /\ \A l \in loads : l.n # n
    /\ \A i \in 1 .. n - 1 : \E l \in loads : l.n = i
    /\ loads' = Void(loads) \cup {Load(n, o, p)}

\* subscribeDashboardRefresh: older requests are void, and a reload is due; the
\* first one of a mounted dashboard stays the first.
Invalidate ==
  /\ loads' = Void(loads)
  /\ reload' = IF reload = "no" THEN "due" ELSE reload
  /\ error' = FALSE

\* Variant: a dashboard that discards only what was asked for another account.
Current_NoEpoch(l) ==
  CASE kind = "summary" -> l.owner = active
    [] kind = "cancelling" -> l.last
    [] kind = "sidebar" -> l.second = active
    [] OTHER -> TRUE

\* isCurrent, cancelled, or nothing.
Current(l) ==
  CASE kind = "summary" -> l.last /\ l.owner = active
    [] kind = "cancelling" -> l.last
    [] kind = "sidebar" -> l.second = active
    [] OTHER -> TRUE

\* The answer of a load.
Answered(l) ==
  /\ l \in loads
  /\ kind = "sidebar" => l.second # None
  /\ loads' = loads \ {l}
  /\ IF Current(l)
     THEN shown' = [owner |-> l.owner, period |-> l.period] /\ error' = FALSE
     ELSE UNCHANGED shownVars
  /\ UNCHANGED <<layoutVars, period, reload>>

\* loadAccount: the session is known, the plan is asked for.
Second(l) ==
  /\ l \in loads /\ kind = "sidebar" /\ l.second = None
  /\ loads' = (loads \ {l}) \cup {[l EXCEPT !.second = active]}
  /\ UNCHANGED <<layoutVars, period, reload, shownVars>>

\* The load fails: the screen says so, above the rows it had or in their place.
Failed(l) ==
  /\ l \in loads
  /\ loads' = loads \ {l}
  /\ error' = (error \/ Current(l))
  /\ UNCHANGED <<layoutVars, period, reload, shown>>

-----------------------------------------------------------------------------
(* The window. *)

\* What a mounted screen does at once about a change of account: the dashboard
\* clears its rows and plans a reload, the configuration loads, the account
\* menu asks for the account, and so does the panel if the user changed it there.
Notices(o) ==
  CASE kind = "summary" -> Invalidate /\ shown' = Nothing
    [] kind \in {"settings", "sidebar"} -> BeginLoad(o, period) /\ UNCHANGED <<reload, shownVars>>
    [] kind = "account" -> /\ BeginLoad(o, period) \/ UNCHANGED loads
                           /\ UNCHANGED <<reload, shownVars>>
    [] OTHER -> UNCHANGED <<reload, loads, shownVars>>

\* setActiveOwner and its events.  Layout: a change to the account mounted
\* leaves a timer of another one alone.
Switch(o) ==
  /\ o # active
  /\ active' = o
  /\ timer' = IF o = key THEN timer ELSE o
  /\ hurried' = (hurried \/ (o = key /\ timer # None))
  /\ IF gate = "open" THEN Notices(o) ELSE UNCHANGED <<reload, loads, shownVars>>
  /\ UNCHANGED <<kind, key, gate, period>>

\* What is left of a screen that is unmounted.
Forgets == loads' = {} /\ shown' = Nothing /\ error' = FALSE /\ reload' = "no"

\* The timer: everything is mounted again, behind the gate, in this month.
Mounts ==
  /\ timer # None
  /\ key' = timer
  /\ timer' = None
  /\ gate' = "asking"
  /\ period' = Today
  /\ Forgets
  /\ UNCHANGED <<kind, active, hurried>>

\* The local service answered in time that it is ready, or that it is not but
\* the window may open (limited); or it did not.
GateOpens ==
  /\ gate = "asking"
  /\ gate' = "open"
  /\ UNCHANGED <<kind, active, key, timer, hurried, period, shownVars>>
  /\ IF kind = "summary"
     THEN reload' = "first" /\ UNCHANGED loads
     ELSE BeginLoad(active, period) /\ UNCHANGED reload

GateFails ==
  /\ gate = "asking"
  /\ gate' = "failed"
  /\ UNCHANGED <<kind, active, key, timer, hurried, period, reload, loads, shownVars>>

\* "Reintentar", and the retry of the notice of the limited mode, which
\* unmounts the screen: some screens keep the month themselves.
Retry ==
  /\ gate \in {"failed", "open"}
  /\ gate' = "asking"
  /\ period' \in {period, Today}
  /\ Forgets
  /\ UNCHANGED <<kind, active, key, timer, hurried>>

-----------------------------------------------------------------------------
(* The screen. *)

\* Another month: the effect of the screen loads again.
ChoosePeriod(p) ==
  /\ gate = "open" /\ kind \in {"summary", "cancelling", "plain"}
  /\ p # period
  /\ period' = p
  /\ IF reload = "first" THEN UNCHANGED loads ELSE BeginLoad(active, p)
  /\ UNCHANGED <<layoutVars, reload, shownVars>>

\* The reload of the dashboard.
Reloads ==
  /\ reload # "no" /\ gate = "open"
  /\ reload' = "no"
  /\ BeginLoad(active, period)
  /\ UNCHANGED <<layoutVars, period, shownVars>>

\* A synchronisation of the account in use ends: its event.
Synced ==
  /\ gate = "open"
  /\ CASE kind = "summary" -> Invalidate
       [] kind = "settings" -> BeginLoad(active, period) /\ UNCHANGED <<reload, error>>
       [] OTHER -> FALSE
  /\ UNCHANGED <<layoutVars, period, shown>>

\* A screen loads again as a whole, with the account of the moment.
LoadsAgain(k) ==
  /\ gate = "open" /\ kind = k
  /\ BeginLoad(active, period)
  /\ UNCHANGED <<layoutVars, period, reload, shownVars>>

\* A change made on the screen was saved.
Saved == LoadsAgain("plain")

\* The session of the account panel is checked again.
SessionChecked == LoadsAgain("account")

\* A synchronisation that the user began in the settings has ended.
SettingsSynced == LoadsAgain("settings")

\* The window is focused: the account menu asks again.
Focused == LoadsAgain("sidebar")

\* "Reintentar", where a load failed.
TriesAgain == error /\ \E k \in {"summary", "cancelling", "plain", "settings"} : LoadsAgain(k)

Init ==
  /\ kind \in Kinds
  /\ active \in Owners /\ key = active
  /\ timer = None /\ hurried = FALSE
  /\ gate = "asking"
  /\ period = Today
  /\ reload = "no"
  /\ loads = {}
  /\ shown = Nothing /\ error = FALSE

Next ==
  \/ \E o \in Owners : Switch(o)
  \/ Mounts \/ GateOpens \/ GateFails \/ Retry
  \/ \E p \in Periods : ChoosePeriod(p)
  \/ Reloads \/ Synced \/ Saved \/ SessionChecked \/ SettingsSynced \/ Focused
  \/ TriesAgain
  \/ \E l \in loads : Answered(l) \/ Second(l) \/ Failed(l)

Spec == Init /\ [][Next]_vars

-----------------------------------------------------------------------------
(* Properties. *)

Settled == timer = None /\ reload = "no" /\ loads = {} /\ gate = "open" /\ ~error /\ shown # Nothing

\* The dashboard never shows the rows of an account that is not in use, not
\* even before it is mounted again.
SummaryIsActives == kind = "summary" => shown.owner \in {None, active}

\* On any screen, once nothing is awaited, the rows are of the account in use,
\* unless the user came back to the mounted account within the 90 ms.
SettledIsActives == Settled /\ ~hurried => shown.owner = active

\* On a screen that discards older answers they are also of the month chosen.
SettledIsChosen ==
  Settled /\ kind \in {"summary", "cancelling"} => shown.period \in {period, None}

\* Answers that arrive late do not put another account's rows, or another
\* month's, on the screen (layout.tsx, dashboardRefresh.ts, dashboard/page.tsx).
ScreensAreTheAccounts == SummaryIsActives /\ SettledIsActives /\ SettledIsChosen
=============================================================================
