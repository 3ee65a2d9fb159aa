--------------------------- MODULE Window_proofs ---------------------------
(***************************************************************************)
(* Proofs about the parts of the window of the desktop:                    *)
(*                                                                         *)
(*   AppUpdater, AppClose  an update in use is open and closed once; a     *)
(*                         synchronisation is not cut in its critical      *)
(*                         section; the backend is stopped for an update   *)
(*                         only after a closing round that succeeded;      *)
(*   Screens               a screen shows the account in use, and the      *)
(*                         month chosen;                                   *)
(*   SyncFailures          a failure is attributed to the side that        *)
(*                         failed, a request made as the right account.    *)
(*                                                                         *)
(* Each part has its inductive invariant; the last section puts them       *)
(* together for the window as MCWindow composes it.                        *)
(***************************************************************************)
EXTENDS MCWindow, TLAPS

-----------------------------------------------------------------------------
(* The open resources are the candidate, or the update that is about to    *)
(* take its place; an installation has the candidate, and no check runs    *)
(* beside it.                                                              *)
Owned ==
  /\ candidate # None => candidate \in Updates
  /\ check.pc = "replacing" => /\ candidate = None /\ check.found \in Updates
                               /\ open = {check.found}
  /\ check.pc # "replacing" => open = {candidate} \ {None}
  /\ install # NoInstall =>
       check = NoCheck /\ candidate # None /\ install.update = candidate

(* Whose answers count: while nobody has insisted, a closing round is      *)
(* answered by its own listener, and a run that was in flight when the     *)
(* native side asked keeps that listener, and so the native side, waiting. *)
Active(h) == listener[h] \notin {"unused", "done"}

OneRound ==
  ~insisted /\ ~closing =>
    /\ \A g, h \in Rounds : Active(g) /\ Active(h) => g = h
    /\ \/ preparer = "waiting" /\ ~signal.completed
       \/ \A h \in Rounds : ~Active(h)

Early == sync # NoSync /\ ~sync.late

EarlyIsAwaited ==
  ~insisted /\ Early =>
    /\ \A h \in Rounds : Active(h) => listener[h] = "waiting"
    /\ closer \in {"none", "waiting"}
    /\ preparer \in {"none", "waiting"}
    /\ closer = "waiting" \/ preparer = "waiting" => ~signal.completed

(* What the preparation of an update has seen and done. *)
IsPrepared ==
  /\ signal.success => answered
  /\ install.pc = "installing" => sidecar = "down"

CloseInv == AppCloseTypeOK /\ Owned /\ OneRound /\ EarlyIsAwaited /\ IsPrepared

LEMMA NoneIsNoUpdate == None \notin Updates
  BY NoneAssumption

LEMMA CloseInit == Init => CloseInv
<1> SUFFICES ASSUME Init PROVE CloseInv
  OBVIOUS
<1>1. UpdaterTypeOK
  <2>1. asked \in 0..MaxChecks
    BY MaxChecksAssumption DEF Init, UpdaterInit
  <2>2. {manual, hasChecked, postponed, disposed} \subseteq BOOLEAN
    BY DEF Init, UpdaterInit
  <2> QED
    BY <2>1, <2>2
    DEF Init, UpdaterInit, UpdaterTypeOK, Statuses, NoCheck, NoInstall
<1>2. AppCloseTypeOK
  BY <1>1 DEF Init, AppCloseTypeOK, UpdaterInit, NoInstall, NoSync
<1>3. Owned
  BY DEF Init, UpdaterInit, Owned, NoCheck
<1>4. OneRound /\ EarlyIsAwaited /\ IsPrepared
  BY DEF Init, UpdaterInit, OneRound, EarlyIsAwaited, Early, IsPrepared, Active,
         NoInstall
<1> QED
  BY <1>2, <1>3, <1>4 DEF CloseInv

-----------------------------------------------------------------------------
(* The updater. *)

(* What an installation's step does: it goes on, or ends. *)
Installs(pc) == install' = NoInstall \/ install' = [install EXCEPT !.pc = pc]

LEMMA InstallStep ==
  ASSUME UpdaterTypeOK, Owned, NEW pc \in {"preparing", "installing", "restarting"},
         install.pc # "none", Installs(pc), InstallUnchanged,
         status' \in Statuses
  PROVE  UpdaterTypeOK' /\ Owned' /\ install'.pc \in {"none", pc}
<1>1. /\ install' \in [pc : {"none", "downloading", "preparing", "installing",
                             "restarting"}, update : Updates \union {None}]
      /\ install'.pc \in {"none", pc}
      /\ install' # NoInstall => install'.update = install.update
  BY DEF Installs, UpdaterTypeOK, NoInstall
<1>2. install # NoInstall
  BY DEF NoInstall
<1>3. Owned'
  BY <1>1, <1>2 DEF Owned, InstallUnchanged
<1>4. {manual, hasChecked, postponed, disposed}' \subseteq BOOLEAN
  BY DEF InstallUnchanged, UpdaterTypeOK
<1> QED
  BY <1>1, <1>3, <1>4 DEF UpdaterTypeOK, InstallUnchanged

LEMMA Publishes ==
  ASSUME status \in Statuses, NEW s \in Statuses, Publish(s)
  PROVE  status' \in Statuses
  BY DEF Publish

LEMMA CheckStep ==
  ASSUME UpdaterTypeOK, Owned,
         \/ \E byUser \in BOOLEAN : CheckBegin(byUser)
         \/ CheckJoin \/ CheckFails \/ CheckClosed \/ CheckReplaces
         \/ \E answer \in {"invalid", "current", "newer"} : CheckAnswers(answer)
  PROVE  UpdaterTypeOK' /\ Owned' /\ install' = install
<1>1. /\ status \in Statuses /\ None \notin Updates
      /\ "checking" \in Statuses /\ "available" \in Statuses /\ "idle" \in Statuses
      /\ {manual, hasChecked, postponed, disposed} \subseteq BOOLEAN
  BY NoneIsNoUpdate DEF UpdaterTypeOK, Statuses
<1>2. ASSUME NEW byUser \in BOOLEAN, CheckBegin(byUser)
      PROVE  UpdaterTypeOK' /\ Owned' /\ install' = install
  <2>1. status' \in Statuses
    BY <1>1, <1>2, Publishes DEF CheckBegin
  <2>2. {manual, hasChecked, postponed, disposed}' \subseteq BOOLEAN
    BY <1>1, <1>2 DEF CheckBegin
  <2>3. Owned'
    BY <1>2 DEF CheckBegin, Owned, NoCheck
  <2> QED
    BY <1>2, <2>1, <2>2, <2>3 DEF CheckBegin, UpdaterTypeOK
<1>3. CASE CheckJoin
  <2>1. {manual, hasChecked, postponed, disposed}' \subseteq BOOLEAN
    BY <1>1, <1>3 DEF CheckJoin
  <2> QED
    BY <1>3, <2>1 DEF CheckJoin, Owned, UpdaterTypeOK
<1>4. CASE CheckFails \/ CheckClosed
  <2>1. status' \in Statuses
    BY <1>1, <1>4, Publishes DEF CheckFails, CheckClosed
  <2>2. {manual, hasChecked, postponed, disposed}' \subseteq BOOLEAN
    BY <1>1, <1>4 DEF CheckFails, CheckClosed
  <2>3. check' = NoCheck /\ UNCHANGED <<candidate, install, asked, open>>
        /\ check.pc \in {"asking", "closing", "dropping"}
    BY <1>4 DEF CheckFails, CheckClosed, EndCheck
  <2> QED
    BY <2>1, <2>2, <2>3 DEF Owned, UpdaterTypeOK, NoCheck
<1>5. CASE CheckReplaces
  <2>1. {manual, hasChecked, postponed, disposed}' \subseteq BOOLEAN
    BY <1>1, <1>5 DEF CheckReplaces
  <2>2. /\ check' = NoCheck /\ UNCHANGED <<install, asked>>
        /\ status' \in Statuses
        /\ candidate' \in {None, check.found} /\ check.pc = "replacing"
        /\ open' = {candidate'} \ {None} /\ check.found \in Updates
    BY <1>1, <1>5 DEF CheckReplaces, EndCheck, Owned
  <2>3. Owned'
    BY <2>2 DEF Owned, NoCheck
  <2> QED
    BY <2>1, <2>2, <2>3 DEF UpdaterTypeOK, NoCheck
<1>6. ASSUME NEW answer \in {"invalid", "current", "newer"}, CheckAnswers(answer)
      PROVE  UpdaterTypeOK' /\ Owned' /\ install' = install
  <2> DEFINE u == asked + 1
  <2>1. u \in Updates /\ asked' = u /\ asked' \in 0..MaxChecks
    BY <1>6, MaxChecksAssumption DEF CheckAnswers, UpdaterTypeOK, Updates
  <2>2. {manual, hasChecked, postponed, disposed}' \subseteq BOOLEAN
    BY <1>1, <1>6 DEF CheckAnswers
  <2>3. /\ UNCHANGED <<status, install>> /\ install = NoInstall
        /\ open = {candidate} \ {None}
    BY <1>6 DEF CheckAnswers, Owned, NoCheck
  <2>4. \/ /\ check' = [pc |-> "closing", found |-> u]
           /\ UNCHANGED <<candidate, open>>
        \/ /\ check' = [pc |-> "dropping", found |-> None]
           /\ candidate' = None /\ open' = {}
        \/ /\ check' = [pc |-> "replacing", found |-> u]
           /\ candidate' = None /\ open' = {u}
    BY <1>6, <2>3 DEF CheckAnswers
  <2> HIDE DEF u
  <2>5. Owned'
    BY <2>1, <2>3, <2>4 DEF Owned
  <2> QED
    BY <2>1, <2>2, <2>3, <2>4, <2>5 DEF UpdaterTypeOK
<1> QED
  BY <1>2, <1>3, <1>4, <1>5, <1>6

(* No step of the updater alone ends a preparation or begins to install. *)
LEMMA UpdaterStep ==
  ASSUME UpdaterTypeOK, Owned, UpdaterNext
  PROVE  /\ UpdaterTypeOK' /\ Owned'
         /\ install.pc = "preparing" => install' = install
         /\ install'.pc = "installing" => install.pc = "installing"
<1>1. /\ status \in Statuses
      /\ {"idle", "downloading", "preparing", "ready", "error"} \subseteq Statuses
      /\ {manual, hasChecked, postponed, disposed} \subseteq BOOLEAN
  BY DEF UpdaterTypeOK, Statuses
<1>2. CASE Postpone
  <2>1. status' \in Statuses
    BY <1>1, <1>2, Publishes DEF Postpone
  <2>2. {manual, hasChecked, postponed, disposed}' \subseteq BOOLEAN
    BY <1>1, <1>2 DEF Postpone
  <2> QED
    BY <1>2, <2>1, <2>2 DEF Postpone, Owned, UpdaterTypeOK
<1>3. CASE InstallBegin
  <2>1. status' \in Statuses
    BY <1>1, <1>3, Publishes DEF InstallBegin
  <2>2. {manual, hasChecked, postponed, disposed}' \subseteq BOOLEAN
    BY <1>1, <1>3 DEF InstallBegin
  <2>3. /\ install' = [pc |-> "downloading", update |-> candidate]
        /\ UNCHANGED <<candidate, check, asked, open>>
        /\ install.pc = "none" /\ check = NoCheck /\ candidate # None
    BY <1>3 DEF InstallBegin, NoInstall
  <2> QED
    BY <2>1, <2>2, <2>3 DEF Owned, UpdaterTypeOK
<1>4. CASE Downloaded
  <2>1. status' \in Statuses
    BY <1>1, <1>4, Publishes DEF Downloaded
  <2>2. Installs("preparing") /\ InstallUnchanged /\ install.pc = "downloading"
    BY <1>4 DEF Downloaded, Installs, EndInstall, At
  <2> QED
    BY <2>1, <2>2, InstallStep
<1>5. CASE InstallFails("downloading") \/ Installed \/ RestartFails
  <2>1. status' \in Statuses
    BY <1>1, <1>5, Publishes DEF InstallFails, Installed, RestartFails
  <2>2. /\ Installs("preparing") /\ InstallUnchanged
        /\ install.pc \in {"downloading", "installing", "restarting"}
    BY <1>5 DEF InstallFails, Installed, RestartFails, Installs, EndInstall
  <2> QED
    BY <2>1, <2>2, InstallStep
<1>6. CASE InstallBreaks
  <2>1. status' \in Statuses
    BY <1>1, <1>6, Publishes DEF InstallBreaks
  <2>2. Installs("restarting") /\ InstallUnchanged /\ install.pc = "installing"
    BY <1>6 DEF InstallBreaks, Installs, At
  <2> QED
    BY <2>1, <2>2, InstallStep
<1>7. CASE Dispose
  <2>1. {manual, hasChecked, postponed, disposed}' \subseteq BOOLEAN
    BY <1>1, <1>7 DEF Dispose
  <2> QED
    BY <1>7, <2>1 DEF Dispose, Owned, UpdaterTypeOK
<1>8. CASE DisposeReleases
  <2>1. {manual, hasChecked, postponed, disposed}' \subseteq BOOLEAN
    BY <1>1, <1>8 DEF DisposeReleases
  <2>2. Owned'
    BY <1>8 DEF DisposeReleases, Owned, NoCheck
  <2> QED
    BY <1>8, <2>1, <2>2 DEF DisposeReleases, UpdaterTypeOK
<1> QED
  BY <1>2, <1>3, <1>4, <1>5, <1>6, <1>7, <1>8, CheckStep DEF UpdaterNext

-----------------------------------------------------------------------------
(* The closing round. *)

LEMMA UpdaterRests ==
  ASSUME UpdaterTypeOK, Owned, UNCHANGED updaterVars
  PROVE  UpdaterTypeOK' /\ Owned' /\ install' = install
  BY DEF UpdaterTypeOK, Owned, updaterVars

ListenerStates == {"unused", "waiting", "starting", "syncing", "succeeded",
                   "failed", "done"}
SyncStates == [of : Rounds \union {Background, None}, critical : BOOLEAN,
               late : BOOLEAN]

LEMMA NoSyncType ==
  ASSUME AppCloseTypeOK
  PROVE  NoSync \in SyncStates /\ sync \in SyncStates
<1>1. NoSync \in SyncStates
  BY DEF NoSync, SyncStates
<1> QED
  BY <1>1 DEF AppCloseTypeOK, SyncStates

LEMMA BeginsType ==
  ASSUME AppCloseTypeOK, NEW who \in Rounds \union {Background}
  PROVE  /\ Begins(who) \in SyncStates /\ ~Begins(who).critical
         /\ Begins(who).late <=> closing \/ preparer # "none"
  BY DEF Begins, SyncStates

(* A step of one listener. *)
LEMMA ListensTo ==
  ASSUME AppCloseTypeOK, NEW h \in Rounds, NEW from, NEW to \in ListenerStates,
         Listens(h, from, to)
  PROVE  /\ listener' \in [Rounds -> ListenerStates]
         /\ listener[h] = from /\ listener'[h] = to
         /\ \A g \in Rounds : g # h => listener'[g] = listener[g]
  BY DEF Listens, AppCloseTypeOK, ListenerStates

LEMMA SyncStep ==
  ASSUME CloseInv,
         SyncBegins \/ SyncCritical \/ \E ok \in BOOLEAN : SyncEnds(ok)
  PROVE  CloseInv'
<1>1. /\ UpdaterTypeOK' /\ Owned' /\ install' = install
      /\ UNCHANGED <<window, closing, closer, preparer, signal, sidecar,
                     insisted, answered>>
      /\ AppCloseTypeOK /\ OneRound /\ EarlyIsAwaited /\ IsPrepared
  BY UpdaterRests
  DEF CloseInv, AppCloseTypeOK, SyncBegins, SyncCritical, SyncEnds
<1>2. IsPrepared'
  BY <1>1 DEF IsPrepared
<1>3. CASE SyncBegins
  <2>1. listener' = listener /\ sync' = Begins(Background) /\ sync = NoSync
    BY <1>3 DEF SyncBegins
  <2>2. sync' \in SyncStates /\ (Early' => ~closing /\ preparer = "none")
    BY <1>1, <2>1, BeginsType DEF Early
  <2>3. AppCloseTypeOK' /\ OneRound'
    BY <1>1, <2>1, <2>2 DEF AppCloseTypeOK, SyncStates, OneRound, Active
  <2>4. EarlyIsAwaited'
    BY <1>1, <2>1, <2>2
    DEF EarlyIsAwaited, Early, OneRound, Active, AppCloseTypeOK
  <2> QED
    BY <1>1, <1>2, <2>3, <2>4 DEF CloseInv
<1>4. CASE SyncCritical
  <2>1. /\ listener' = listener /\ sync # NoSync
        /\ sync' \in SyncStates /\ sync'.late = sync.late
    BY <1>1, <1>4 DEF SyncCritical, AppCloseTypeOK, SyncStates
  <2>2. Early' => Early
    BY <2>1 DEF Early
  <2>3. AppCloseTypeOK' /\ OneRound'
    BY <1>1, <2>1 DEF AppCloseTypeOK, SyncStates, OneRound, Active
  <2>4. EarlyIsAwaited'
    BY <1>1, <2>1, <2>2 DEF EarlyIsAwaited, Active
  <2> QED
    BY <1>1, <1>2, <2>3, <2>4 DEF CloseInv
<1>5. ASSUME NEW ok \in BOOLEAN, SyncEnds(ok)
      PROVE  CloseInv'
  <2>1. /\ sync' = NoSync /\ sync' \in SyncStates
        /\ \A h \in Rounds :
              \/ listener'[h] = listener[h]
              \/ listener[h] = "syncing" /\ listener'[h] \in {"succeeded", "failed"}
    BY <1>5 DEF SyncEnds, NoSync, SyncStates
  <2>2. listener' \in [Rounds -> ListenerStates]
    BY <1>1, <1>5 DEF SyncEnds, AppCloseTypeOK, ListenerStates
  <2>3. \A h \in Rounds : Active(h)' => Active(h)
    BY <2>1 DEF Active
  <2>4. AppCloseTypeOK'
    BY <1>1, <2>1, <2>2 DEF AppCloseTypeOK, SyncStates, ListenerStates
  <2>5. OneRound' /\ EarlyIsAwaited'
    BY <1>1, <2>1, <2>3 DEF OneRound, EarlyIsAwaited, Early
  <2> QED
    BY <1>1, <1>2, <2>4, <2>5 DEF CloseInv
<1> QED
  BY <1>3, <1>4, <1>5

LEMMA ListenerKept ==
  ASSUME CloseInv, NEW h \in Rounds, ListenerStep(h)
  PROVE  CloseInv'
<1>1. /\ UpdaterTypeOK' /\ Owned' /\ install' = install
      /\ UNCHANGED <<window, closing, closer, preparer, sidecar>>
      /\ AppCloseTypeOK /\ OneRound /\ EarlyIsAwaited /\ IsPrepared
  BY UpdaterRests
  DEF CloseInv, AppCloseTypeOK, ListenerStep, FindsIdle, GivesUp, NoSession,
      FindsBusy, StartsRun, Reports
<1> DEFINE Moves(from, to) ==
             /\ listener[h] = from /\ listener'[h] = to
             /\ listener' \in [Rounds -> ListenerStates]
             /\ \A g \in Rounds : g # h => listener'[g] = listener[g]
<1>2. ASSUME NEW to \in {"starting", "failed", "succeeded", "syncing"},
             NEW from \in {"waiting", "starting", "syncing"}, Moves(from, to),
             UNCHANGED <<signal, answered>>,
             sync' \in SyncStates,
             insisted' \/ (insisted' = insisted /\ (from = "starting" \/ sync = NoSync)),
             \/ sync' = sync
             \/ /\ from = "starting" /\ sync = NoSync
                /\ Early' => ~closing /\ preparer = "none"
      PROVE  CloseInv'
  <2>1. \A g \in Rounds : Active(g)' <=> Active(g)
    BY <1>2 DEF Active
  <2>2. AppCloseTypeOK' /\ IsPrepared'
    BY <1>1, <1>2 DEF AppCloseTypeOK, SyncStates, ListenerStates, IsPrepared
  <2>3. OneRound'
    BY <1>1, <1>2, <2>1 DEF OneRound
  <2>4. EarlyIsAwaited'
    <3> SUFFICES ASSUME ~insisted', Early'
                 PROVE  FALSE
      BY DEF EarlyIsAwaited
    <3>1. Active(h) /\ ~insisted
      BY <1>2 DEF Active
    <3>2. CASE sync' = sync
      BY <1>1, <1>2, <3>1, <3>2 DEF EarlyIsAwaited, Early
    <3>3. CASE Early' => ~closing /\ preparer = "none"
      BY <1>1, <3>1, <3>3 DEF OneRound
    <3> QED
      BY <1>2, <3>2, <3>3
  <2> QED
    BY <1>1, <2>2, <2>3, <2>4 DEF CloseInv
<1>3. /\ {"starting", "failed", "succeeded", "syncing", "done"} \subseteq ListenerStates
      /\ sync \in SyncStates
  BY <1>1 DEF ListenerStates, AppCloseTypeOK, SyncStates
<1>4. CASE FindsIdle(h)
  <2>1. Moves("waiting", "starting")
    BY <1>1, <1>3, <1>4, ListensTo DEF FindsIdle
  <2> QED
    BY <1>2, <1>3, <1>4, <2>1 DEF FindsIdle
<1>5. CASE GivesUp(h)
  <2>1. PICK from \in {"waiting", "starting", "syncing"} : Listens(h, from, "failed")
    BY <1>5 DEF GivesUp
  <2>2. Moves(from, "failed")
    BY <1>1, <1>3, <2>1, ListensTo
  <2> QED
    BY <1>2, <1>3, <1>5, <2>2 DEF GivesUp
<1>6. CASE NoSession(h)
  <2>1. Moves("starting", "succeeded")
    BY <1>1, <1>3, <1>6, ListensTo DEF NoSession
  <2> QED
    BY <1>2, <1>3, <1>6, <2>1 DEF NoSession
<1>7. CASE FindsBusy(h)
  <2>1. Moves("starting", "failed")
    BY <1>1, <1>3, <1>7, ListensTo DEF FindsBusy
  <2> QED
    BY <1>2, <1>3, <1>7, <2>1 DEF FindsBusy
<1>8. CASE StartsRun(h)
  <2>1. Moves("starting", "syncing")
    BY <1>1, <1>3, <1>8, ListensTo DEF StartsRun
  <2>2. sync' \in SyncStates /\ (Early' => ~closing /\ preparer = "none")
    BY <1>1, <1>8, BeginsType DEF StartsRun, Early
  <2> QED
    BY <1>2, <1>8, <2>1, <2>2 DEF StartsRun
<1>9. CASE Reports(h)
  <2> DEFINE ok == listener[h] = "succeeded"
  <2>1. PICK from \in {"succeeded", "failed"} : Listens(h, from, "done")
    BY <1>9 DEF Reports
  <2>2. Moves(from, "done")
    BY <1>1, <1>3, <2>1, ListensTo
  <2>3. /\ signal' = [completed |-> TRUE, success |-> ok]
        /\ answered' = (answered \/ ok) /\ sync' = sync /\ insisted' = insisted
    BY <1>9 DEF Reports
  <2>4. AppCloseTypeOK'
    <3>1. signal' \in [completed : BOOLEAN, success : BOOLEAN]
      BY <2>3
    <3> QED
      BY <1>1, <2>2, <2>3, <3>1 DEF AppCloseTypeOK, ListenerStates
  <2>5. IsPrepared'
    BY <1>1, <2>3 DEF IsPrepared
  <2>6. Active(h) /\ ~Active(h)' /\ \A g \in Rounds : g # h => (Active(g)' <=> Active(g))
    BY <2>2 DEF Active
  <2>7. OneRound'
    BY <1>1, <2>3, <2>6 DEF OneRound
  <2>8. EarlyIsAwaited'
    BY <1>1, <2>2, <2>3, <2>6 DEF EarlyIsAwaited, Early
  <2> QED
    BY <1>1, <2>4, <2>5, <2>7, <2>8 DEF CloseInv
<1> QED
  BY <1>4, <1>5, <1>6, <1>7, <1>8, <1>9 DEF ListenerStep

(* A request: one listener more, of a new round, with the signal reset. *)
LEMMA Requested ==
  ASSUME CloseInv, NEW h \in Rounds, Request(h)
  PROVE  /\ listener' \in [Rounds -> ListenerStates]
         /\ ~Active(h) /\ listener'[h] \in {"waiting", "done"}
         /\ \A g \in Rounds : g # h => listener'[g] = listener[g]
<1>1. /\ listener \in [Rounds -> ListenerStates] /\ listener[h] = "unused"
      /\ {"waiting", "done"} \subseteq ListenerStates
      /\ \E to \in {"waiting", "done"} : listener' = [listener EXCEPT ![h] = to]
  BY DEF Request, CloseInv, AppCloseTypeOK, ListenerStates
<1> QED
  BY <1>1 DEF Active

LEMMA CloseRequestedKept ==
  ASSUME CloseInv, NEW h \in Rounds, CloseRequested(h)
  PROVE  CloseInv'
<1>1. /\ UpdaterTypeOK' /\ Owned' /\ install' = install
      /\ UNCHANGED <<window, preparer, sync, sidecar, insisted, answered>>
      /\ ~closing /\ closing' = TRUE /\ closer' = "waiting"
      /\ signal' = [completed |-> FALSE, success |-> FALSE]
      /\ AppCloseTypeOK /\ OneRound /\ EarlyIsAwaited /\ IsPrepared
  BY UpdaterRests DEF CloseInv, AppCloseTypeOK, CloseRequested, Reset
<1>2. /\ listener' \in [Rounds -> ListenerStates]
      /\ listener'[h] \in {"waiting", "done"}
      /\ \A g \in Rounds : g # h => listener'[g] = listener[g]
  BY Requested DEF CloseRequested
<1>3. AppCloseTypeOK'
  BY <1>1, <1>2 DEF AppCloseTypeOK, ListenerStates
<1>4. OneRound' /\ IsPrepared'
  BY <1>1 DEF OneRound, IsPrepared
<1>5. EarlyIsAwaited'
  <2> SUFFICES ASSUME ~insisted', Early'
               PROVE  /\ \A g \in Rounds : Active(g)' => listener'[g] = "waiting"
                      /\ preparer' \in {"none", "waiting"}
    BY <1>1 DEF EarlyIsAwaited
  <2>1. Early /\ ~insisted
    BY <1>1 DEF Early
  <2> QED
    BY <1>1, <1>2, <2>1 DEF EarlyIsAwaited, Active
<1> QED
  BY <1>1, <1>3, <1>4, <1>5 DEF CloseInv

LEMMA PrepareBeginsKept ==
  ASSUME CloseInv, NEW h \in Rounds, PrepareBegins(h)
  PROVE  CloseInv'
<1>1. /\ UpdaterTypeOK' /\ Owned' /\ install' = install
      /\ UNCHANGED <<window, closing, closer, sync, sidecar, insisted>>
      /\ install.pc = "preparing" /\ preparer = "none" /\ preparer' = "waiting"
      /\ answered' = FALSE
      /\ signal' = [completed |-> FALSE, success |-> FALSE]
      /\ AppCloseTypeOK /\ OneRound /\ EarlyIsAwaited /\ IsPrepared
  BY UpdaterRests DEF CloseInv, AppCloseTypeOK, PrepareBegins, Reset
<1>2. /\ listener' \in [Rounds -> ListenerStates]
      /\ listener'[h] \in {"waiting", "done"}
      /\ \A g \in Rounds : g # h => listener'[g] = listener[g]
  BY Requested DEF PrepareBegins
<1>3. AppCloseTypeOK'
  BY <1>1, <1>2 DEF AppCloseTypeOK, ListenerStates
<1>4. OneRound'
  <2> SUFFICES ASSUME ~insisted', ~closing'
               PROVE  \A g, f \in Rounds : Active(g)' /\ Active(f)' => g = f
    BY <1>1 DEF OneRound
  <2>1. \A g \in Rounds : ~Active(g)
    BY <1>1 DEF OneRound
  <2> QED
    BY <1>2, <2>1 DEF Active
<1>5. IsPrepared'
  BY <1>1 DEF IsPrepared
<1>6. EarlyIsAwaited'
  <2> SUFFICES ASSUME ~insisted', Early'
               PROVE  /\ \A g \in Rounds : Active(g)' => listener'[g] = "waiting"
                      /\ closer' \in {"none", "waiting"}
    BY <1>1 DEF EarlyIsAwaited
  <2>1. Early /\ ~insisted
    BY <1>1 DEF Early
  <2> QED
    BY <1>1, <1>2, <2>1 DEF EarlyIsAwaited, Active
<1> QED
  BY <1>1, <1>3, <1>4, <1>5, <1>6 DEF CloseInv

(* The waiters: the one that closes the window, *)
LEMMA CloserKept ==
  ASSUME CloseInv, CloserStep
  PROVE  CloseInv'
<1>1. /\ UpdaterTypeOK' /\ Owned' /\ install' = install
      /\ UNCHANGED <<closing, preparer, signal, listener, answered>>
      /\ AppCloseTypeOK /\ OneRound /\ EarlyIsAwaited /\ IsPrepared
  BY UpdaterRests
  DEF CloseInv, AppCloseTypeOK, CloserStep, CloserWakes, CloserStops, CloserCloses
<1>2. /\ closer \in {"waiting", "stopping", "closing"} /\ closing
      /\ closer' \in {"stopping", "closing", "done"}
      /\ window' \in {"open", "closed", "restarting"}
      /\ sync' \in {sync, NoSync}
      /\ insisted => insisted'
  BY <1>1
  DEF CloserStep, CloserWakes, CloserStops, CloserCloses, Exit, AppCloseTypeOK
<1>3. sidecar' \in {"up", "down", "held"} /\ (sidecar = "down" => sidecar' = "down")
  BY <1>1
  DEF CloserStep, CloserWakes, CloserStops, CloserCloses, Exit, StopSidecar,
      AppCloseTypeOK
<1>4. sync' \in SyncStates
  BY <1>1, <1>2, NoSyncType
<1>5. AppCloseTypeOK'
  BY <1>1, <1>2, <1>3, <1>4 DEF AppCloseTypeOK, SyncStates
<1>6. OneRound' /\ IsPrepared'
  BY <1>1, <1>2, <1>3 DEF OneRound, IsPrepared
<1>7. EarlyIsAwaited'
  <2> SUFFICES ASSUME ~insisted', Early'
               PROVE  FALSE
    BY DEF EarlyIsAwaited
  <2>1. Early /\ ~insisted
    BY <1>2 DEF Early
  <2>2. closer = "waiting" /\ ~signal.completed
    BY <1>1, <1>2, <2>1 DEF EarlyIsAwaited
  <2> QED
    BY <2>2 DEF CloserStep, CloserWakes, CloserStops, CloserCloses
<1> QED
  BY <1>1, <1>5, <1>6, <1>7 DEF CloseInv

(* and the one that prepares an update. *)
LEMMA PreparerKept ==
  ASSUME CloseInv, PreparerStep
  PROVE  CloseInv'
<1>1. /\ UNCHANGED <<window, closing, closer, signal, listener, sync, answered>>
      /\ AppCloseTypeOK /\ UpdaterTypeOK /\ Owned /\ OneRound /\ EarlyIsAwaited
      /\ IsPrepared /\ preparer \in {"waiting", "stopping"}
      /\ install.pc = "preparing"
  BY DEF CloseInv, AppCloseTypeOK, PreparerStep, PreparerWakes, PreparerRefuses,
         PreparerStops
<1>2. /\ preparer' \in {"none", "stopping"}
      /\ preparer' = "stopping" => preparer = "waiting" /\ UNCHANGED updaterVars
      /\ preparer = "waiting" => signal.completed \/ insisted'
      /\ insisted => insisted'
  <2>1. CASE PreparerWakes
    BY <2>1 DEF PreparerWakes
  <2>2. CASE PreparerStops
    BY <2>2 DEF PreparerStops
  <2>3. ASSUME NEW timedOut \in BOOLEAN, PreparerRefuses(timedOut)
        PROVE  /\ preparer = "waiting" /\ preparer' = "none"
               /\ signal.completed \/ insisted'
               /\ insisted => insisted'
    BY <2>3 DEF PreparerRefuses
  <2> QED
    BY <2>1, <2>2, <2>3 DEF PreparerStep
<1>3. /\ sidecar' \in {"up", "down", "held"}
      /\ sidecar = "down" => sidecar' = "down"
  <2>1. sidecar' = sidecar \/ StopSidecar
    BY DEF PreparerStep, PreparerWakes, PreparerRefuses, PreparerStops
  <2> QED
    BY <1>1, <2>1 DEF StopSidecar, AppCloseTypeOK
<1>4. \/ UNCHANGED updaterVars
      \/ InstallFails("preparing")
      \/ Prepared /\ sidecar' = "down"
  BY DEF PreparerStep, PreparerWakes, PreparerRefuses, PreparerStops
<1>5. /\ UpdaterTypeOK' /\ Owned'
      /\ UNCHANGED updaterVars \/ install'.pc \in {"none", "installing", "restarting"}
      /\ install'.pc = "installing" => sidecar' = "down"
  <2>1. status \in Statuses /\ "error" \in Statuses /\ "installing" \in Statuses
    BY <1>1 DEF UpdaterTypeOK, Statuses
  <2>2. CASE UNCHANGED updaterVars
    BY <1>1, <2>2, UpdaterRests
  <2>3. CASE InstallFails("preparing")
    <3>1. Installs("restarting") /\ InstallUnchanged
      BY <2>3 DEF InstallFails, Installs, EndInstall
    <3>2. status' \in Statuses
      BY <2>1, <2>3, Publishes DEF InstallFails
    <3> QED
      BY <1>1, <3>1, <3>2, InstallStep
  <2>4. CASE Prepared /\ sidecar' = "down"
    <3>1. /\ InstallUnchanged
          /\ Installs("restarting") \/ Installs("installing")
      BY <2>4 DEF Prepared, Installs, At
    <3>2. status' \in Statuses
      BY <2>1, <2>4, Publishes DEF Prepared
    <3> QED
      BY <1>1, <2>4, <3>1, <3>2, InstallStep
  <2> QED
    BY <1>4, <2>2, <2>3, <2>4
<1>6. AppCloseTypeOK'
  <2>1. preparer' # "none" => install'.pc = "preparing"
    BY <1>1, <1>2 DEF updaterVars
  <2> QED
    BY <1>1, <1>2, <1>3, <1>5, <2>1 DEF AppCloseTypeOK
<1>7. IsPrepared'
  BY <1>1, <1>5 DEF IsPrepared
<1>8. OneRound'
  <2> SUFFICES ASSUME ~insisted', ~closing'
               PROVE  \A h \in Rounds : ~Active(h)'
    BY DEF OneRound
  <2>1. ~insisted /\ ~closing /\ ~(preparer = "waiting" /\ ~signal.completed)
    BY <1>1, <1>2
  <2> QED
    BY <1>1, <2>1 DEF OneRound, Active
<1>9. EarlyIsAwaited'
  <2> SUFFICES ASSUME ~insisted', Early'
               PROVE  FALSE
    BY DEF EarlyIsAwaited
  <2>1. Early /\ ~insisted
    BY <1>1, <1>2 DEF Early
  <2> QED
    BY <1>1, <1>2, <2>1 DEF EarlyIsAwaited
<1> QED
  BY <1>5, <1>6, <1>7, <1>8, <1>9 DEF CloseInv

(* The window or the process ends. *)
LEMMA EndKept ==
  ASSUME CloseInv, CloseInsisted \/ SidecarDies \/ InstallerExits \/ Restart
  PROVE  CloseInv'
<1>1. /\ UpdaterTypeOK' /\ Owned' /\ install' = install
      /\ UNCHANGED <<closing, closer, preparer, signal, listener, answered>>
      /\ AppCloseTypeOK /\ OneRound /\ EarlyIsAwaited /\ IsPrepared
  BY UpdaterRests
  DEF CloseInv, AppCloseTypeOK, CloseInsisted, SidecarDies, InstallerExits, Restart
<1>2. /\ window' \in {"open", "closed", "restarting"}
      /\ sync' \in {sync, NoSync} /\ (insisted => insisted')
      /\ sidecar' \in {"up", "down", "held"}
      /\ sidecar = "down" => sidecar' = "down"
  BY <1>1
  DEF CloseInsisted, SidecarDies, InstallerExits, Restart, Exit, AppCloseTypeOK
<1>3. sync' \in SyncStates /\ (Early' => Early)
  BY <1>1, <1>2, NoSyncType DEF Early
<1>4. AppCloseTypeOK'
  BY <1>1, <1>2, <1>3 DEF AppCloseTypeOK, SyncStates
<1>5. OneRound' /\ IsPrepared' /\ EarlyIsAwaited'
  BY <1>1, <1>2, <1>3 DEF OneRound, IsPrepared, EarlyIsAwaited, Active
<1> QED
  BY <1>1, <1>4, <1>5 DEF CloseInv

-----------------------------------------------------------------------------
(* The composition. *)

LEMMA UpdaterKept ==
  ASSUME CloseInv, UpdaterNext, UNCHANGED closeVars
  PROVE  CloseInv'
<1>1. /\ UpdaterTypeOK' /\ Owned'
      /\ install.pc = "preparing" => install' = install
      /\ install'.pc = "installing" => install.pc = "installing"
      /\ AppCloseTypeOK /\ OneRound /\ EarlyIsAwaited /\ IsPrepared
  BY UpdaterStep DEF CloseInv, AppCloseTypeOK
<1>2. AppCloseTypeOK'
  BY <1>1 DEF AppCloseTypeOK, closeVars
<1>3. OneRound' /\ EarlyIsAwaited' /\ IsPrepared'
  BY <1>1 DEF OneRound, EarlyIsAwaited, Early, IsPrepared, Active, closeVars
<1> QED
  BY <1>1, <1>2, <1>3 DEF CloseInv

LEMMA CloseStutters ==
  ASSUME CloseInv, UNCHANGED vars
  PROVE  CloseInv'
<1>1. /\ UpdaterTypeOK' /\ Owned' /\ install' = install /\ UNCHANGED closeVars
      /\ AppCloseTypeOK /\ OneRound /\ EarlyIsAwaited /\ IsPrepared
  BY UpdaterRests DEF CloseInv, AppCloseTypeOK, vars
<1>2. AppCloseTypeOK'
  BY <1>1 DEF AppCloseTypeOK, closeVars
<1>3. OneRound' /\ EarlyIsAwaited' /\ IsPrepared'
  BY <1>1 DEF OneRound, EarlyIsAwaited, Early, IsPrepared, Active, closeVars
<1> QED
  BY <1>1, <1>2, <1>3 DEF CloseInv

LEMMA CloseNext ==
  CloseInv /\ [Next]_vars => CloseInv'
  BY UpdaterKept, CloseStutters, SyncStep, ListenerKept, CloseRequestedKept,
     PrepareBeginsKept, CloserKept, PreparerKept, EndKept DEF Next

LEMMA CloseSafe == Spec => []CloseInv
  BY CloseInit, CloseNext, PTL DEF Spec

(* The updater and the closing round keep the shape of their state, and    *)
(* the states of their threads go together.                                *)
THEOREM CloseTypeCorrect == Spec => []AppCloseTypeOK
  BY CloseSafe, PTL DEF CloseInv

LEMMA HeldByInv == CloseInv => UpdateIsHeld
<1> SUFFICES ASSUME Owned
             PROVE  UpdateIsHeld
  BY DEF CloseInv
<1>1. UpdateInUseIsOpen
  BY DEF Owned, UpdateInUseIsOpen, NoCheck
<1>2. OpenIsHeld
  BY DEF Owned, OpenIsHeld
<1> QED
  BY <1>1, <1>2 DEF UpdateIsHeld

(* An update that is downloaded or installed is open, and an open one is   *)
(* the candidate or the one a running check found: the disposal and a      *)
(* replacing check close a native resource once.                           *)
THEOREM UpdatesAreHeld == Spec => []UpdateIsHeld
  BY HeldByInv, CloseSafe, PTL

(* A synchronisation that was in flight when the native side asked is cut  *)
(* in its critical section only after a limit passed or the user insisted. *)
THEOREM CriticalsAreProtected == Spec => CriticalProtected
<1> DEFINE P == sidecar = "up" /\ sidecar' # "up" /\ sync.critical /\ ~sync.late
                  => insisted'
<1>1. CloseInv /\ [Next]_vars => [P]_vars
  <2> SUFFICES ASSUME CloseInv, Next, sidecar = "up", sidecar' # "up",
                      sync.critical, ~sync.late, ~insisted'
               PROVE  FALSE
    OBVIOUS
  <2>1. Early
    BY DEF Early, NoSync
  <2>2. EarlyIsAwaited /\ IsPrepared
    BY DEF CloseInv
  <2>3. CASE CloserStep \/ PreparerStep
    <3>1. closer \in {"stopping", "closing"} \/ preparer = "stopping"
      BY <2>3
      DEF CloserStep, CloserWakes, CloserStops, CloserCloses, PreparerStep,
          PreparerWakes, PreparerStops, PreparerRefuses
    <3>2. insisted' = insisted
      BY <2>3
      DEF CloserStep, CloserWakes, CloserStops, CloserCloses, PreparerStep,
          PreparerWakes, PreparerStops, PreparerRefuses
    <3> QED
      BY <2>1, <2>2, <3>1, <3>2 DEF EarlyIsAwaited
  <2>4. CASE CloseInsisted
    BY <2>4 DEF CloseInsisted
  <2>5. CASE InstallerExits
    BY <2>2, <2>5 DEF InstallerExits, IsPrepared
  <2>6. CASE SidecarDies
    BY <2>6 DEF SidecarDies
  <2>7. \/ CloserStep \/ PreparerStep \/ CloseInsisted \/ InstallerExits
        \/ SidecarDies \/ sidecar' = sidecar
    BY DEF Next, closeVars, SyncBegins, SyncCritical, SyncEnds, ListenerStep,
           FindsIdle, GivesUp, NoSession, FindsBusy, StartsRun, Reports,
           CloseRequested, PrepareBegins, Restart
  <2> QED
    BY <2>3, <2>4, <2>5, <2>6, <2>7
<1> QED
  BY <1>1, CloseSafe, PTL DEF Spec, CriticalProtected

(* The preparation of an update believes only an answer given since it     *)
(* asked, and the installer never runs beside the backend it replaces.     *)
THEOREM InstallsArePrepared == Spec => InstallIsPrepared
<1> DEFINE P == /\ preparer = "waiting" /\ preparer' = "stopping" => answered
                /\ install'.pc = "installing" => sidecar' = "down"
<1>1. CloseInv /\ CloseInv' /\ [Next]_vars => [P]_vars
  <2> SUFFICES ASSUME CloseInv, CloseInv', Next
               PROVE  P
    OBVIOUS
  <2>1. install'.pc = "installing" => sidecar' = "down"
    BY DEF CloseInv, IsPrepared
  <2>2. ASSUME preparer = "waiting", preparer' = "stopping"
        PROVE  answered
    <3>1. PreparerStep
      BY <2>2
      DEF Next, closeVars, SyncBegins, SyncCritical, SyncEnds, ListenerStep,
          FindsIdle, GivesUp, NoSession, FindsBusy, StartsRun, Reports,
          CloseRequested, PrepareBegins, Restart, CloserStep, CloserWakes,
          CloserStops, CloserCloses, CloseInsisted, SidecarDies, InstallerExits
    <3>2. signal.success
      BY <2>2, <3>1 DEF PreparerStep, PreparerWakes, PreparerStops, PreparerRefuses
    <3> QED
      BY <3>2 DEF CloseInv, IsPrepared
  <2> QED
    BY <2>1, <2>2
<1> QED
  BY <1>1, CloseSafe, PTL DEF Spec, InstallIsPrepared
-----------------------------------------------------------------------------
(* The screens. *)

Discarding == {"summary", "cancelling"}

LoadStates == [n : 1 .. MaxLoads, owner : Viewed, period : Months \union {Views!Today},
               last : BOOLEAN, second : Viewed \union {None}]

ViewsTypeOK ==
  /\ active \in Viewed /\ period \in Months \union {Views!Today}
  /\ gate \in {"asking", "failed", "open"}
  /\ reload \in {"no", "due", "first"} /\ (kind # "summary" => reload = "no")
  /\ loads \subseteq LoadStates
  /\ error \in BOOLEAN

(* Nothing of a former screen is left behind the gate, nor before the      *)
(* first load of the dashboard.                                            *)
Behind ==
  gate # "open" \/ reload = "first" =>
    loads = {} /\ shown = Views!Nothing /\ ~error

(* A change of account is mounted, unless the user hurried back; until the *)
(* next change every load is of the account in use.                        *)
Mounted ==
  ~hurried =>
    IF timer # None
    THEN timer = active
    ELSE /\ active = key
         /\ \A l \in loads : l.owner = active
         /\ shown = Views!Nothing \/ shown.owner = active

(* The last load of the screens that discard older answers is of what they *)
(* should show; without one they show it, or say that they could not.      *)
Discards ==
  /\ kind = "summary" => /\ shown = Views!Nothing \/ shown.owner = active
                         /\ \A l \in loads : l.last => l.owner = active
  /\ kind \in Discarding =>
       /\ \A l \in loads : l.last => l.period = period
       /\ \/ error \/ reload # "no" \/ \E l \in loads : l.last
          \/ shown = Views!Nothing \/ shown.period = period

ViewsInv == ViewsTypeOK /\ Behind /\ Mounted /\ Discards

LEMMA ViewsInit == Views!Init => ViewsInv
  BY DEF Views!Init, ViewsInv, ViewsTypeOK, Behind, Mounted, Discards

LEMMA Voided ==
  ASSUME NEW ls \in SUBSET LoadStates
  PROVE  /\ Views!Void(ls) \subseteq LoadStates
         /\ \A l \in Views!Void(ls) : ~l.last
         /\ \A l \in Views!Void(ls) : \E m \in ls : l.owner = m.owner
         /\ ls = {} => Views!Void(ls) = {}
<1>1. ASSUME NEW m \in ls
      PROVE  /\ [m EXCEPT !.last = FALSE] \in LoadStates
             /\ ~[m EXCEPT !.last = FALSE].last
             /\ [m EXCEPT !.last = FALSE].owner = m.owner
  BY DEF LoadStates
<1> QED
  BY <1>1 DEF Views!Void

(* A load is begun: the new one is the last, the others are void. *)
Begun(o, p) ==
  \E new \in LoadStates :
    /\ new.owner = o /\ new.period = p /\ new.last
    /\ new \in loads' /\ loads' \subseteq LoadStates
    /\ \A l \in loads' \ {new} : ~l.last /\ \E m \in loads : l.owner = m.owner

LEMMA LoadBegun ==
  ASSUME loads \subseteq LoadStates, NEW o \in Viewed,
         NEW p \in Months \union {Views!Today}, Views!BeginLoad(o, p)
  PROVE  Begun(o, p)
<1>1. PICK n \in 1 .. MaxLoads :
           loads' = Views!Void(loads) \cup {Views!Load(n, o, p)}
  BY DEF Views!BeginLoad
<1>2. /\ Views!Load(n, o, p) \in LoadStates
      /\ Views!Load(n, o, p).owner = o /\ Views!Load(n, o, p).period = p
      /\ Views!Load(n, o, p).last
  BY DEF Views!Load, LoadStates
<1> QED
  BY <1>1, <1>2, Voided DEF Begun

(* The steps of a mounted screen that begin a load. *)
LEMMA LoadKept ==
  ASSUME ViewsInv, UNCHANGED Views!layoutVars, gate = "open", reload # "first",
         NEW p \in Months \union {Views!Today}, Views!BeginLoad(active, p),
         period' = p, reload' \in {reload, "no"}, UNCHANGED shown,
         error' = error
  PROVE  ViewsInv'
<1>1. /\ ViewsTypeOK /\ Behind /\ Mounted /\ Discards
      /\ UNCHANGED <<kind, active, key, timer, hurried, gate>>
  BY DEF ViewsInv, Views!layoutVars
<1>2. PICK new \in LoadStates :
        /\ new.owner = active /\ new.period = p /\ new.last
        /\ new \in loads' /\ loads' \subseteq LoadStates
        /\ \A l \in loads' \ {new} : ~l.last /\ \E m \in loads : l.owner = m.owner
  BY <1>1, LoadBegun DEF ViewsTypeOK, Begun
<1>3. ViewsTypeOK'
  BY <1>1, <1>2 DEF ViewsTypeOK
<1>4. Behind'
  BY <1>1 DEF Behind, ViewsTypeOK
<1>5. Mounted'
  BY <1>1, <1>2 DEF Mounted, Views!Nothing
<1>6. Discards'
  BY <1>1, <1>2 DEF Discards, Views!Nothing
<1> QED
  BY <1>3, <1>4, <1>5, <1>6 DEF ViewsInv

LEMMA ScreenKept ==
  ASSUME ViewsInv,
         \/ \E p \in Months : Views!ChoosePeriod(p)
         \/ Views!Reloads \/ Views!Synced \/ Views!Saved \/ Views!SessionChecked
         \/ Views!SettingsSynced \/ Views!Focused \/ Views!TriesAgain
  PROVE  ViewsInv'
<1>1. /\ ViewsTypeOK /\ Behind /\ Mounted /\ Discards
  BY DEF ViewsInv
<1>2. ASSUME NEW p \in Months, Views!ChoosePeriod(p), reload = "first"
      PROVE  ViewsInv'
  <2>1. /\ UNCHANGED <<kind, active, key, timer, hurried, gate, reload, loads,
                        shown, error>>
        /\ period' = p /\ loads = {}
    BY <1>1, <1>2 DEF Views!ChoosePeriod, Views!layoutVars, Views!shownVars, Behind
  <2> QED
    BY <1>1, <1>2, <2>1
    DEF ViewsInv, ViewsTypeOK, Behind, Mounted, Discards, Views!Nothing
<1>3. ASSUME NEW p \in Months, Views!ChoosePeriod(p), reload # "first"
      PROVE  ViewsInv'
  BY <1>3, LoadKept DEF Views!ChoosePeriod, Views!shownVars
<1>4. CASE Views!Reloads /\ reload # "first"
  BY <1>1, <1>4, LoadKept DEF Views!Reloads, Views!shownVars, ViewsTypeOK
<1>5. CASE Views!Reloads /\ reload = "first"
  <2>1. /\ UNCHANGED <<kind, active, key, timer, hurried, gate, period, shown, error>>
        /\ gate = "open" /\ reload' = "no" /\ loads = {} /\ shown = Views!Nothing
        /\ Views!BeginLoad(active, period)
    BY <1>1, <1>5 DEF Views!Reloads, Views!layoutVars, Views!shownVars, Behind
  <2>2. PICK new \in LoadStates :
          /\ new.owner = active /\ new.period = period /\ new.last
          /\ new \in loads' /\ loads' \subseteq LoadStates
          /\ \A l \in loads' \ {new} : ~l.last /\ \E m \in loads : l.owner = m.owner
    BY <1>1, <2>1, LoadBegun DEF ViewsTypeOK, Begun
  <2>3. loads' = {new}
    BY <2>1, <2>2
  <2>4. ViewsTypeOK'
    BY <1>1, <2>1, <2>2 DEF ViewsTypeOK
  <2> QED
    BY <1>1, <2>1, <2>2, <2>3, <2>4
    DEF ViewsInv, Behind, Mounted, Discards, Views!Nothing
<1>6. CASE Views!Synced /\ kind = "summary"
  <2>1. /\ UNCHANGED <<kind, active, key, timer, hurried, gate, period, shown>>
        /\ loads' = Views!Void(loads) /\ error' = FALSE
        /\ reload' = IF reload = "no" THEN "due" ELSE reload
        /\ gate = "open"
    BY <1>6 DEF Views!Synced, Views!layoutVars, Views!Invalidate
  <2> DEFINE void == Views!Void(loads)
  <2>5. /\ void \subseteq LoadStates /\ (loads = {} => void = {})
        /\ \A l \in void : ~l.last
        /\ \A l \in void : \E m \in loads : l.owner = m.owner
    BY <1>1, Voided DEF ViewsTypeOK
  <2>6. reload' \in {"due", "first"} /\ (reload' = "first" => reload = "first")
    BY <1>1, <2>1 DEF ViewsTypeOK
  <2> HIDE DEF void
  <2>7. loads' = void
    BY <2>1 DEF void
  <2>2. ViewsTypeOK'
    BY <1>1, <1>6, <2>1, <2>5, <2>6, <2>7 DEF ViewsTypeOK
  <2>3. Behind' /\ Mounted'
    BY <1>1, <2>1, <2>5, <2>6, <2>7 DEF Behind, Mounted, Views!Nothing
  <2>4. Discards'
    BY <1>1, <2>1, <2>5, <2>6, <2>7 DEF Discards, Views!Nothing
  <2> QED
    BY <2>2, <2>3, <2>4 DEF ViewsInv
<1>7. CASE Views!Synced /\ kind # "summary"
  BY <1>1, <1>7, LoadKept DEF Views!Synced, ViewsTypeOK
<1>8. ASSUME NEW k \in {"summary", "cancelling", "plain", "settings", "account", "sidebar"},
             Views!LoadsAgain(k), k = "summary" => error
      PROVE  ViewsInv'
  <2>1. reload # "first"
    BY <1>1, <1>8 DEF Views!LoadsAgain, ViewsTypeOK, Behind
  <2> QED
    BY <1>1, <1>8, <2>1, LoadKept DEF Views!LoadsAgain, Views!shownVars, ViewsTypeOK
<1> QED
  BY <1>2, <1>3, <1>4, <1>5, <1>6, <1>7, <1>8
  DEF Views!Saved, Views!SessionChecked, Views!SettingsSynced, Views!Focused,
      Views!TriesAgain

(* The answers. *)
LEMMA AnswerKept ==
  ASSUME ViewsInv, NEW l \in loads,
         Views!Answered(l) \/ Views!Second(l) \/ Views!Failed(l)
  PROVE  ViewsInv'
<1>1. /\ ViewsTypeOK /\ Behind /\ Mounted /\ Discards
      /\ UNCHANGED <<kind, active, key, timer, hurried, gate, period, reload>>
      /\ gate = "open" /\ reload # "first"
  BY DEF ViewsInv, Views!Answered, Views!Second, Views!Failed, Views!layoutVars,
         Behind, ViewsTypeOK
<1>2. CASE Views!Answered(l)
  <2>1. /\ loads' = loads \ {l}
        /\ \/ /\ Views!Current(l) /\ error' = FALSE
              /\ shown' = [owner |-> l.owner, period |-> l.period]
           \/ ~Views!Current(l) /\ UNCHANGED <<shown, error>>
    BY <1>2 DEF Views!Answered, Views!shownVars
  <2>2. ViewsTypeOK' /\ Behind'
    BY <1>1, <2>1 DEF ViewsTypeOK, Behind
  <2>3. Mounted'
    BY <1>1, <2>1 DEF Mounted, Views!Nothing
  <2>4. Discards'
    BY <1>1, <2>1 DEF Discards, Discarding, Views!Nothing, Views!Current
  <2> QED
    BY <2>2, <2>3, <2>4 DEF ViewsInv
<1>3. CASE Views!Second(l)
  <2> DEFINE m == [l EXCEPT !.second = active]
  <2>1. /\ loads' = (loads \ {l}) \cup {m} /\ kind = "sidebar"
        /\ UNCHANGED <<shown, error>>
    BY <1>3 DEF Views!Second, Views!shownVars
  <2>2. m \in LoadStates /\ m.owner = l.owner
    BY <1>1 DEF ViewsTypeOK, LoadStates
  <2> HIDE DEF m
  <2>3. ViewsTypeOK' /\ Behind' /\ Mounted'
    BY <1>1, <2>1, <2>2 DEF ViewsTypeOK, Behind, Mounted, Views!Nothing
  <2>4. Discards'
    BY <1>1, <2>1 DEF Discards, Discarding
  <2> QED
    BY <2>3, <2>4 DEF ViewsInv
<1>4. CASE Views!Failed(l)
  <2>1. /\ loads' = loads \ {l} /\ shown' = shown
        /\ error' \in BOOLEAN
        /\ error \/ Views!Current(l) => error'
    BY <1>1, <1>4 DEF Views!Failed, ViewsTypeOK, Views!Current
  <2>2. ViewsTypeOK' /\ Behind' /\ Mounted'
    BY <1>1, <2>1 DEF ViewsTypeOK, Behind, Mounted, Views!Nothing
  <2>3. Discards'
    BY <1>1, <2>1 DEF Discards, Discarding, Views!Nothing, Views!Current
  <2> QED
    BY <2>2, <2>3 DEF ViewsInv
<1> QED
  BY <1>2, <1>3, <1>4

(* The layout, the gate and the user. *)
LEMMA LayoutKept ==
  ASSUME ViewsInv, Views!Mounts \/ Views!GateOpens \/ Views!GateFails \/ Views!Retry
  PROVE  ViewsInv'
<1>1. ViewsTypeOK /\ Behind /\ Mounted /\ Discards
  BY DEF ViewsInv
<1>2. CASE Views!Mounts \/ Views!Retry
  <2>1. /\ loads' = {} /\ shown' = Views!Nothing /\ error' = FALSE /\ reload' = "no"
        /\ gate' = "asking" /\ period' \in {period, Views!Today}
        /\ UNCHANGED <<kind, active, hurried>>
        /\ \/ timer # None /\ key' = timer /\ timer' = None
           \/ UNCHANGED <<key, timer>>
    BY <1>2 DEF Views!Mounts, Views!Retry, Views!Forgets
  <2>2. ViewsTypeOK' /\ Behind' /\ Discards'
    BY <1>1, <2>1 DEF ViewsTypeOK, Behind, Discards
  <2>3. Mounted'
    BY <1>1, <2>1 DEF Mounted
  <2> QED
    BY <2>2, <2>3 DEF ViewsInv
<1>3. CASE Views!GateFails
  BY <1>1, <1>3
  DEF ViewsInv, ViewsTypeOK, Behind, Mounted, Discards, Views!GateFails,
      Views!shownVars, Views!Nothing
<1>4. CASE Views!GateOpens
  <2>1. /\ UNCHANGED <<kind, active, key, timer, hurried, period, shown, error>>
        /\ gate' = "open" /\ loads = {} /\ shown = Views!Nothing /\ ~error
        /\ \/ kind = "summary" /\ reload' = "first" /\ loads' = loads
           \/ kind # "summary" /\ reload' = reload /\ Views!BeginLoad(active, period)
    BY <1>1, <1>4 DEF Views!GateOpens, Views!shownVars, Behind
  <2>2. CASE kind = "summary"
    BY <1>1, <2>1, <2>2
    DEF ViewsInv, ViewsTypeOK, Behind, Mounted, Discards, Views!Nothing
  <2>3. CASE kind # "summary"
    <3>1. PICK new \in LoadStates :
            /\ new.owner = active /\ new.period = period /\ new.last
            /\ new \in loads' /\ loads' \subseteq LoadStates
            /\ \A m \in loads' \ {new} :
                  ~m.last /\ \E k \in loads : m.owner = k.owner
      BY <1>1, <2>1, <2>3, LoadBegun DEF ViewsTypeOK, Begun
    <3>2. loads' = {new} /\ reload' = "no"
      BY <1>1, <2>1, <2>3, <3>1 DEF ViewsTypeOK
    <3>3. ViewsTypeOK'
      BY <1>1, <2>1, <3>1, <3>2 DEF ViewsTypeOK
    <3> QED
      BY <1>1, <2>1, <3>1, <3>2, <3>3
      DEF ViewsInv, Behind, Mounted, Discards, Views!Nothing
  <2> QED
    BY <2>2, <2>3
<1> QED
  BY <1>2, <1>3, <1>4

LEMMA SwitchKept ==
  ASSUME ViewsInv, NEW o \in Viewed, Views!Switch(o)
  PROVE  ViewsInv'
<1>1. /\ ViewsTypeOK /\ Behind /\ Mounted /\ Discards
      /\ o # active /\ active' = o
      /\ timer' = IF o = key THEN timer ELSE o
      /\ hurried' = (hurried \/ (o = key /\ timer # None))
      /\ UNCHANGED <<kind, key, gate, period>>
  BY DEF ViewsInv, Views!Switch
<1>2. Mounted'
  <2> SUFFICES ASSUME ~hurried'
               PROVE  timer' # None /\ timer' = active'
    BY DEF Mounted
  <2>1. ~hurried /\ ~(o = key /\ timer # None)
    BY <1>1
  <2>2. o # key
    BY <1>1, <2>1 DEF Mounted
  <2> QED
    BY <1>1, <2>2, ViewedAssumption
<1>3. /\ ViewsTypeOK' /\ Behind' /\ Discards'
  <2>1. CASE gate = "open" /\ kind = "summary"
    <3> DEFINE void == Views!Void(loads)
    <3>1. /\ void \subseteq LoadStates /\ (loads = {} => void = {})
          /\ \A l \in void : ~l.last
      BY <1>1, Voided DEF ViewsTypeOK
    <3>2. /\ loads' = void /\ error' = FALSE /\ shown' = Views!Nothing
          /\ reload' = IF reload = "no" THEN "due" ELSE reload
      BY <2>1 DEF Views!Switch, Views!Notices, Views!Invalidate
    <3> HIDE DEF void
    <3>3. reload' \in {"due", "first"} /\ (reload' = "first" => reload = "first")
      BY <1>1, <3>2 DEF ViewsTypeOK
    <3>4. ViewsTypeOK' /\ Behind'
      BY <1>1, <2>1, <3>1, <3>2, <3>3 DEF ViewsTypeOK, Behind
    <3>5. Discards'
      BY <1>1, <3>1, <3>2, <3>3 DEF Discards
    <3> QED
      BY <3>4, <3>5
  <2>2. CASE ~(gate = "open" /\ kind = "summary") /\ loads' = loads
    <3>1. UNCHANGED <<reload, shown, error>>
      BY <2>2
      DEF Views!Switch, Views!Notices, Views!shownVars, Views!Invalidate
    <3>2. kind = "summary" => shown = Views!Nothing /\ loads = {}
      BY <1>1, <2>2 DEF Behind
    <3>3. ViewsTypeOK' /\ Behind'
      BY <1>1, <2>2, <3>1 DEF ViewsTypeOK, Behind, Views!Nothing
    <3>4. Discards'
      BY <1>1, <2>2, <3>1, <3>2 DEF Discards, Views!Nothing
    <3> QED
      BY <3>3, <3>4
  <2>3. CASE /\ gate = "open" /\ kind \in {"settings", "sidebar", "account"}
             /\ Views!BeginLoad(o, period) /\ UNCHANGED <<reload, shown, error>>
    <3>1. loads' \subseteq LoadStates
      BY <1>1, <2>3, LoadBegun DEF ViewsTypeOK, Begun
    <3>2. reload = "no"
      BY <1>1, <2>3 DEF ViewsTypeOK
    <3> QED
      BY <1>1, <2>3, <3>1, <3>2 DEF ViewsTypeOK, Behind, Discards, Discarding
  <2>4. \/ gate = "open" /\ kind = "summary"
        \/ loads' = loads
        \/ /\ gate = "open" /\ kind \in {"settings", "sidebar", "account"}
           /\ Views!BeginLoad(o, period) /\ UNCHANGED <<reload, shown, error>>
    BY DEF Views!Switch, Views!Notices, Views!shownVars
  <2> QED
    BY <2>1, <2>2, <2>3, <2>4
<1> QED
  BY <1>2, <1>3 DEF ViewsInv

LEMMA ViewsNext == ViewsInv /\ [Views!Next]_(Views!vars) => ViewsInv'
<1>1. ASSUME ViewsInv, UNCHANGED Views!vars
      PROVE  ViewsInv'
  BY <1>1
  DEF Views!vars, ViewsInv, ViewsTypeOK, Behind, Mounted, Discards, Views!Nothing
<1> QED
  BY <1>1, SwitchKept, LayoutKept, ScreenKept, AnswerKept DEF Views!Next

LEMMA ScreensByInv == ViewsInv => ScreensAreTheAccounts
<1> SUFFICES ASSUME Behind, Mounted, Discards
             PROVE  ScreensAreTheAccounts
  BY DEF ViewsInv
<1>1. Views!SummaryIsActives
  BY DEF Views!SummaryIsActives, Discards, Views!Nothing
<1>2. Views!SettledIsActives
  BY DEF Views!SettledIsActives, Views!Settled, Mounted
<1>3. Views!SettledIsChosen
  BY DEF Views!SettledIsChosen, Views!Settled, Discards, Discarding
<1> QED
  BY <1>1, <1>2, <1>3 DEF ScreensAreTheAccounts, Views!ScreensAreTheAccounts

(* The dashboard never shows the rows of an account that is not in use; no *)
(* screen does once nothing is awaited, unless the user hurried back; and  *)
(* where older answers are discarded the rows are of the month chosen.     *)
THEOREM ScreensFollowAccounts == Views!Spec => []ScreensAreTheAccounts
  BY ViewsInit, ViewsNext, ScreensByInv, PTL DEF Views!Spec

-----------------------------------------------------------------------------
(* The failures of a synchronisation. *)

Steps == Failures!LocalSteps \union Failures!CloudSteps \union {"ready"}
Faults == Failures!LocalFaults \union Failures!CloudFaults
          \union {"preparing", "broken", "refused"}
Outcomes == Failures!CloudFaults \union {"ok", "refused"}

(* Only the local service refuses a constraint, and only the cloud's       *)
(* confirmation does not add up.                                           *)
Fits(step, out) ==
  /\ out = "constraint" => step \notin Failures!CloudSteps
  /\ out = "refused" => step \in Failures!CloudSteps

FailureStates == [step : Steps,
                  phase : {Failures!PhaseOf(step) : step \in Steps},
                  type : {Failures!TypeOf(out) : out \in Faults},
                  status : {Failures!Status(out) : out \in Faults},
                  told : {Failures!Told(step, out) : step \in Steps, out \in Faults}]

RunStates == [owner : Accounts \union {None}, at : Steps \union {None},
              rejected : BOOLEAN, blocked : BOOLEAN,
              health : {"healthy", "unreachable", "degraded"},
              failed : FailureStates \union {None}]

CallStates == [state : {"none", "sent", "refreshing", "back"},
               owner : Accounts \union {Local, None},
               token : Accounts \union {Local, None},
               again : BOOLEAN, out : Outcomes \union {None}]

FailuresTypeOK ==
  /\ syncing \in Accounts \union {Local} /\ accounts \subseteq Accounts
  /\ run \in RunStates
  /\ call \in [Failures!Callers -> CallStates]
  /\ \A who \in Failures!Callers : call[who].state = "back" => call[who].out \in Outcomes
  /\ tested \in [Failures!Tests -> [out : Outcomes \union {None}, own : BOOLEAN]]

(* What a run that failed knows of it. *)
Known ==
  IF run.failed = None
  THEN ~run.blocked
  ELSE \E step \in Steps, out \in Faults :
         /\ run.failed = Failures!Failure(step, out) /\ Fits(step, out)
         /\ run.blocked => step = "ready" \/ (step = "integrity" /\ out = "constraint")

OwnSessions ==
  /\ \A who \in {"run", "sync_test"} : call[who].token = call[who].owner
  /\ tested["sync_test"].own

FailuresInv ==
  FailuresTypeOK /\ Known /\ OwnSessions /\ Failures!Attributed

LEMMA Phases ==
  ASSUME NEW step \in Steps
  PROVE  /\ step \in Failures!CloudSteps =>
              Failures!PhaseOf(step) \in {"cloud_health", "cloud"}
         /\ step \notin Failures!CloudSteps =>
              Failures!PhaseOf(step) \in {"local", "local_mark_rejected",
                                          "local_apply_remote"}
  BY DEF Steps, Failures!CloudSteps, Failures!LocalSteps, Failures!PhaseOf

(* The class of a failure names the side whose request failed. *)
LEMMA Attribution ==
  ASSUME NEW step \in Steps, NEW out \in Faults, Fits(step, out)
  PROVE  LET class == Failures!ByRequest(Failures!Failure(step, out)) IN
         /\ class \in Failures!OfLocal => step \notin Failures!CloudSteps
         /\ class \in Failures!OfCloud => step \in Failures!CloudSteps
         /\ class = "local_repair_required" => out = "constraint"
         /\ class # "cloud_unreachable"
<1> DEFINE f == Failures!Failure(step, out)
<1>1. /\ f.step = step /\ f.phase = Failures!PhaseOf(step)
      /\ f.told = Failures!Told(step, out)
  BY DEF Failures!Failure
<1> HIDE DEF f
<1>2. CASE f.told # None
  <2>1. CASE out = "constraint"
    <3>1. f.told \in {"local_apply_constraint", "local_repair_required"}
      BY <1>1, <2>1 DEF Failures!Told
    <3>2. Failures!ByRequest(f) = f.told
      BY <1>2 DEF Failures!ByRequest
    <3> QED
      BY <2>1, <3>1, <3>2 DEF f, Fits, Failures!OfLocal, Failures!OfCloud
  <2>2. CASE out # "constraint"
    <3>1. out = "refused" /\ f.told = "cloud_confirmation"
      BY <1>1, <1>2, <2>2 DEF Failures!Told
    <3>2. Failures!ByRequest(f) = f.told
      BY <1>2 DEF Failures!ByRequest
    <3> QED
      BY <3>1, <3>2 DEF f, Fits, Failures!OfLocal, Failures!OfCloud
  <2> QED
    BY <2>1, <2>2
<1>3. CASE f.told = None /\ step \in Failures!CloudSteps
  <2>1. f.phase \in {"cloud_health", "cloud"}
    BY <1>1, <1>3, Phases
  <2>2. Failures!ByRequest(f) \in {"cloud_validation", "cloud_service_error",
                                   "cloud_connection", "cloud_confirmation", "unknown"}
    BY <1>3, <2>1 DEF Failures!ByRequest
  <2> QED
    BY <1>3, <2>2 DEF f, Failures!OfLocal, Failures!OfCloud
<1>4. CASE f.told = None /\ step \notin Failures!CloudSteps
  <2>1. f.phase \in {"local", "local_mark_rejected", "local_apply_remote"}
    BY <1>1, <1>4, Phases
  <2>2. Failures!ByRequest(f) \in {"record_rejected", "local_apply_constraint",
                                   "local_service_unreachable", "local_service_error",
                                   "local_apply_invalid_payload", "unknown"}
    BY <1>4, <2>1 DEF Failures!ByRequest
  <2> QED
    BY <1>4, <2>2 DEF f, Failures!OfLocal, Failures!OfCloud
<1> QED
  BY <1>2, <1>3, <1>4

LEMMA FailuresInit == Failures!Init => FailuresInv
<1> SUFFICES ASSUME Failures!Init PROVE FailuresInv
  OBVIOUS
<1>1. /\ Failures!NoRun \in RunStates
      /\ Failures!NoRun.failed = None
      /\ ~Failures!NoRun.blocked
  BY DEF Failures!NoRun, RunStates
<1>2. /\ Failures!NoCall \in CallStates
      /\ Failures!NoCall.token = Failures!NoCall.owner
      /\ Failures!NoCall.state # "back"
  BY DEF Failures!NoCall, CallStates, Outcomes
<1>3. Failures!NoResult \in [out : Outcomes \union {None}, own : BOOLEAN]
      /\ Failures!NoResult.own
  BY DEF Failures!NoResult, Outcomes
<1>4. FailuresTypeOK /\ Known
  BY <1>1, <1>2, <1>3 DEF Failures!Init, FailuresTypeOK, Known
<1>5. OwnSessions
  BY <1>2, <1>3 DEF Failures!Init, OwnSessions, Failures!Callers, Failures!Tests
<1>6. Failures!Attributed
  <2>1. row.class = None
    BY DEF Failures!Init
  <2>2. None \notin {"cloud_unreachable", "local_repair_required"}
    BY FailureAssumption DEF Failures!OfLocal, Failures!OfCloud
  <2> QED
    BY <2>1, <2>2, FailureAssumption DEF Failures!Attributed
<1> QED
  BY <1>4, <1>5, <1>6 DEF FailuresInv

(* What a step of the run does: it goes on, *)
LEMMA Advances ==
  ASSUME NEW r \in RunStates, r.at \in Steps, Failures!Advance(r)
  PROVE  /\ run' \in RunStates
         /\ run'.failed = r.failed /\ run'.blocked = r.blocked
<1>1. PICK next \in Failures!Following(r.at, r.rejected) :
           run' = [r EXCEPT !.at = next]
  BY DEF Failures!Advance
<1>2. next \in Steps
  BY <1>1 DEF Failures!Following, Steps, Failures!LocalSteps, Failures!CloudSteps
<1> QED
  BY <1>1, <1>2 DEF RunStates

(* or fails. *)
LEMMA FailureType ==
  ASSUME NEW step \in Steps, NEW out \in Faults
  PROVE  Failures!Failure(step, out) \in FailureStates /\ Failures!Failure(step, out) # None
<1>1. Failures!Failure(step, out) \in FailureStates
  BY DEF Failures!Failure, FailureStates
<1> QED
  BY <1>1, FailureAssumption DEF Steps, Faults, Failures!ReadyAnswers

LEMMA RunKept ==
  ASSUME FailuresInv, UNCHANGED <<syncing, accounts, row, tested>>,
         call' = call \/ call' = [call EXCEPT !["run"] = Failures!NoCall],
         run' \in RunStates, Known'
  PROVE  FailuresInv'
<1>1. /\ Failures!NoCall \in CallStates
      /\ Failures!NoCall.token = Failures!NoCall.owner
      /\ Failures!NoCall.state # "back"
  BY DEF Failures!NoCall, CallStates, Outcomes
<1>2. /\ call' \in [Failures!Callers -> CallStates]
      /\ \A who \in Failures!Callers : call'[who].state = "back" => call'[who].out \in Outcomes
  BY <1>1 DEF FailuresInv, FailuresTypeOK
<1>3. OwnSessions'
  BY <1>1 DEF FailuresInv, FailuresTypeOK, OwnSessions, Failures!Callers, Failures!Tests
<1>4. Failures!Attributed'
  BY DEF FailuresInv, Failures!Attributed
<1> QED
  BY <1>2, <1>3, <1>4 DEF FailuresInv, FailuresTypeOK

LEMMA RunSteps ==
  ASSUME FailuresInv,
         \/ \E out \in Failures!ReadyAnswers : Failures!Ready(out)
         \/ \E out \in Failures!HealthAnswers : Failures!Health(out)
         \/ \E step \in Failures!LocalSteps,
               out \in Failures!LocalFaults \union {"ok", "critical"} :
               Failures!LocalStep(step, out)
         \/ \E step \in {"push", "pull"}, rejected \in BOOLEAN :
               Failures!Returns(step, rejected)
  PROVE  FailuresInv'
<1>1. run \in RunStates /\ Known
  BY DEF FailuresInv, FailuresTypeOK
<1> DEFINE Rest == /\ UNCHANGED <<syncing, accounts, row, tested>>
                   /\ call' = call \/ call' = [call EXCEPT !["run"] = Failures!NoCall]
<1>2. ASSUME NEW r \in RunStates, r.at \in Steps, r.failed = None, ~r.blocked,
             Failures!Advance(r), Rest
      PROVE  FailuresInv'
  <2>1. run' \in RunStates /\ Known'
    BY <1>2, Advances DEF Known
  <2> QED
    BY <1>2, <2>1, RunKept
<1>3. ASSUME NEW r \in RunStates, NEW step \in Steps, NEW out \in Faults,
             run' = [r EXCEPT !.failed = Failures!Failure(step, out)],
             Fits(step, out), Rest,
             r.blocked => step = "ready" \/ (step = "integrity" /\ out = "constraint")
      PROVE  FailuresInv'
  <2> DEFINE f == Failures!Failure(step, out)
  <2>1. f \in FailureStates /\ f # None
    BY FailureType
  <2> HIDE DEF f
  <2>2. run' \in RunStates /\ run'.failed = f /\ run'.blocked = r.blocked
    BY <1>3, <2>1 DEF RunStates, f
  <2>3. Known'
    BY <1>3, <2>1, <2>2 DEF Known, f
  <2> QED
    BY <1>3, <2>2, <2>3, RunKept
<1> HIDE DEF Rest
<1>4. ASSUME NEW out \in Failures!ReadyAnswers, Failures!Ready(out)
      PROVE  FailuresInv'
  <2>1. /\ Rest /\ run.failed = None /\ ~run.blocked
        /\ run.at = "ready" /\ "ready" \in Steps
    BY <1>1, <1>4 DEF Failures!Ready, Failures!At, Rest, Known, Steps
  <2>2. CASE out = "ok"
    BY <1>1, <1>2, <1>4, <2>1, <2>2 DEF Failures!Ready
  <2>3. CASE out # "ok"
    <3>1. out \in Faults /\ Fits("ready", out)
      BY <2>3 DEF Failures!ReadyAnswers, Faults, Fits, Failures!LocalFaults
    <3>2. CASE out = "network"
      <4>1. run' = [run EXCEPT !.failed = Failures!Failure("ready", out)]
        BY <1>4, <3>2 DEF Failures!Ready, Failures!Fails
      <4> QED
        BY <1>1, <1>3, <2>1, <3>1, <4>1
    <3>3. CASE out # "network"
      <4> DEFINE r == [run EXCEPT !.blocked = TRUE]
      <4>1. r \in RunStates
        BY <1>1 DEF RunStates
      <4>2. run' = [r EXCEPT !.failed = Failures!Failure("ready", out)]
        BY <1>1, <1>4, <2>3, <3>3 DEF Failures!Ready, RunStates
      <4> HIDE DEF r
      <4> QED
        BY <1>3, <2>1, <3>1, <4>1, <4>2
    <3> QED
      BY <3>2, <3>3
  <2> QED
    BY <2>2, <2>3
<1>5. ASSUME NEW out \in Failures!HealthAnswers, Failures!Health(out)
      PROVE  FailuresInv'
  <2>1. /\ Rest /\ run.failed = None /\ ~run.blocked
        /\ run.at = "health" /\ "health" \in Steps
    BY <1>1, <1>5
    DEF Failures!Health, Failures!At, Rest, Known, Steps, Failures!CloudSteps
  <2>2. CASE out = "incompatible"
    <3>1. run' = [run EXCEPT !.failed = Failures!Failure("health", "garbled")]
      BY <1>5, <2>2 DEF Failures!Health, Failures!Fails
    <3>2. "garbled" \in Faults /\ Fits("health", "garbled")
      BY DEF Faults, Failures!LocalFaults, Fits
    <3> QED
      BY <1>1, <1>3, <2>1, <3>1, <3>2
  <2>3. CASE out # "incompatible"
    <3>1. PICK h \in {"healthy", "unreachable", "degraded"} :
               Failures!Advance([run EXCEPT !.health = h]) \/ Failures!Advance(run)
      BY <1>5, <2>3 DEF Failures!Health
    <3> DEFINE r == [run EXCEPT !.health = h]
    <3>2. r \in RunStates /\ r.at = run.at /\ r.failed = run.failed /\ r.blocked = run.blocked
      BY <1>1 DEF RunStates
    <3>3. Failures!Advance(r) \/ Failures!Advance(run)
      BY <3>1
    <3> HIDE DEF r
    <3> QED
      BY <1>1, <1>2, <2>1, <3>2, <3>3
  <2> QED
    BY <2>2, <2>3
<1>6. ASSUME NEW step \in Failures!LocalSteps,
             NEW out \in Failures!LocalFaults \union {"ok", "critical"},
             Failures!LocalStep(step, out)
      PROVE  FailuresInv'
  <2>1. /\ Rest /\ run.failed = None /\ ~run.blocked
        /\ run.at = step /\ step \in Steps /\ step \notin Failures!CloudSteps
    BY <1>1, <1>6
    DEF Failures!LocalStep, Failures!At, Rest, Known, Steps, Failures!LocalSteps,
        Failures!CloudSteps
  <2>2. CASE out = "ok"
    BY <1>1, <1>2, <1>6, <2>1, <2>2 DEF Failures!LocalStep
  <2>3. CASE out = "critical"
    <3> DEFINE r == [run EXCEPT !.blocked = TRUE]
    <3>1. r \in RunStates
      BY <1>1 DEF RunStates
    <3>2. /\ run' = [r EXCEPT !.failed = Failures!Failure(step, "constraint")]
          /\ step = "integrity"
      BY <1>1, <1>6, <2>3 DEF Failures!LocalStep, RunStates
    <3>3. "constraint" \in Faults /\ Fits(step, "constraint")
      BY <2>1 DEF Faults, Failures!LocalFaults, Fits
    <3> HIDE DEF r
    <3> QED
      BY <1>3, <2>1, <3>1, <3>2, <3>3
  <2>4. CASE out \in Failures!LocalFaults
    <3>1. out \in Faults /\ Fits(step, out)
      BY <2>1, <2>4 DEF Faults, Failures!LocalFaults, Fits
    <3>2. run' = [run EXCEPT !.failed = Failures!Failure(step, out)]
      BY <1>6, <2>4 DEF Failures!LocalStep, Failures!Fails, Failures!LocalFaults
    <3> QED
      BY <1>1, <1>3, <2>1, <3>1, <3>2
  <2> QED
    BY <2>2, <2>3, <2>4
<1>7. ASSUME NEW step \in {"push", "pull"}, NEW rejected \in BOOLEAN,
             Failures!Returns(step, rejected)
      PROVE  FailuresInv'
  <2> DEFINE out == call["run"].out
             r == [run EXCEPT !.rejected = @ \/ rejected]
  <2>1. /\ Rest /\ run.failed = None /\ ~run.blocked
        /\ run.at = step /\ step \in Steps /\ step \in Failures!CloudSteps
    BY <1>1, <1>7
    DEF Failures!Returns, Failures!At, Rest, Known, Steps, Failures!CloudSteps
  <2>2. r \in RunStates /\ r.at = run.at /\ r.failed = run.failed /\ r.blocked = run.blocked
    BY <1>1 DEF RunStates
  <2>3. /\ out = "ok" => Failures!Advance(r)
        /\ out = "refused" => run' = [r EXCEPT !.failed = Failures!Failure(step, out)]
        /\ out \notin {"ok", "refused"} =>
             run' = [run EXCEPT !.failed = Failures!Failure(step, out)]
    BY <1>7 DEF Failures!Returns, Failures!Fails
  <2>4. out = "ok" \/ (out \in Faults /\ out # "constraint")
    <3>1. out \in Outcomes
      BY <1>7 DEF Failures!Returns, FailuresInv, FailuresTypeOK, Failures!Callers
    <3> HIDE DEF out
    <3> QED
      BY <3>1 DEF Outcomes, Faults, Failures!CloudFaults
  <2> HIDE DEF out, r
  <2>5. out \in Faults => Fits(step, out)
    BY <2>1, <2>4 DEF Fits
  <2> QED
    BY <1>1, <1>2, <1>3, <2>1, <2>2, <2>3, <2>4, <2>5
<1> QED
  BY <1>4, <1>5, <1>6, <1>7

(* The requests to the cloud. *)
LEMMA CallKept ==
  ASSUME FailuresInv, UNCHANGED <<run, row>>,
         NEW who \in Failures!Callers, NEW c \in CallStates,
         call' = [call EXCEPT ![who] = c],
         c.state = "back" => c.out \in Outcomes,
         who # "session_test" => c.token = c.owner,
         syncing' \in Accounts \union {Local}, accounts' \subseteq Accounts,
         \/ tested' = tested
         \/ \E out \in Outcomes \union {None} :
               tested' = [tested EXCEPT ![who] =
                            [out |-> out, own |-> call[who].token = call[who].owner]]
  PROVE  FailuresInv'
<1>1. /\ call' \in [Failures!Callers -> CallStates] /\ call'[who] = c
      /\ \A w \in Failures!Callers : w # who => call'[w] = call[w]
  BY DEF FailuresInv, FailuresTypeOK
<1>2. \A w \in Failures!Callers : call'[w].state = "back" => call'[w].out \in Outcomes
  BY <1>1 DEF FailuresInv, FailuresTypeOK
<1>3. \A w \in {"run", "sync_test"} : call'[w].token = call'[w].owner
  BY <1>1 DEF FailuresInv, OwnSessions, Failures!Callers, Failures!Tests
<1>4. /\ tested' \in [Failures!Tests -> [out : Outcomes \union {None}, own : BOOLEAN]]
      /\ tested'["sync_test"].own
  <2>1. CASE tested' = tested
    BY <2>1 DEF FailuresInv, FailuresTypeOK, OwnSessions
  <2>2. ASSUME NEW out \in Outcomes \union {None},
               tested' = [tested EXCEPT ![who] =
                            [out |-> out, own |-> call[who].token = call[who].owner]]
        PROVE  /\ tested' \in [Failures!Tests -> [out : Outcomes \union {None}, own : BOOLEAN]]
               /\ tested'["sync_test"].own
    <3> DEFINE own == call[who].token = call[who].owner
               result == [out |-> out, own |-> own]
    <3>1. own \in BOOLEAN /\ (who = "sync_test" => own)
      BY DEF FailuresInv, OwnSessions
    <3>2. tested' = [tested EXCEPT ![who] = result]
      BY <2>2
    <3> HIDE DEF own
    <3>3. result \in [out : Outcomes \union {None}, own : BOOLEAN] /\ (result.own <=> own)
      BY <3>1
    <3> HIDE DEF result
    <3> QED
      BY <3>1, <3>2, <3>3 DEF FailuresInv, FailuresTypeOK, OwnSessions, Failures!Tests
  <2> QED
    BY <2>1, <2>2
<1>5. Known' /\ Failures!Attributed'
  BY DEF FailuresInv, Known, Failures!Attributed
<1> QED
  BY <1>1, <1>2, <1>3, <1>4, <1>5 DEF FailuresInv, FailuresTypeOK, OwnSessions

LEMMA Fetched ==
  ASSUME NEW o \in Accounts \union {Local, None}
  PROVE  /\ Failures!Fetch(o) \in CallStates /\ Failures!Fetch(o).state = "sent"
         /\ Failures!Fetch(o).token = Failures!Fetch(o).owner
  BY DEF Failures!Fetch, Failures!NoCall, CallStates

LEMMA CallSteps ==
  ASSUME FailuresInv,
         \/ \E step \in {"push", "pull"} : Failures!Sends(step)
         \/ \E who \in Failures!Callers, out \in Outcomes : Failures!Answered(who, out)
         \/ \E who \in Failures!Callers, ok \in BOOLEAN : Failures!Refreshed(who, ok)
         \/ \E who \in Failures!Tests : Failures!Test(who) \/ Failures!Tested(who)
  PROVE  FailuresInv'
<1>1. /\ FailuresTypeOK /\ OwnSessions /\ Failures!Tests \subseteq Failures!Callers
      /\ "run" \in Failures!Callers /\ None \in {None}
  BY DEF FailuresInv, Failures!Callers
<1>2. \A who \in Failures!Callers : call[who] \in CallStates
  BY <1>1 DEF FailuresTypeOK
<1>3. ASSUME NEW step \in {"push", "pull"}, Failures!Sends(step)
      PROVE  FailuresInv'
  <2>1. run.owner \in Accounts \union {Local, None}
    BY <1>1 DEF FailuresTypeOK, RunStates
  <2> QED
    BY <1>1, <1>3, <2>1, Fetched, CallKept DEF Failures!Sends, FailuresTypeOK
<1>4. ASSUME NEW who \in Failures!Callers, NEW out \in Outcomes, Failures!Answered(who, out)
      PROVE  FailuresInv'
  <2> DEFINE asks == [call[who] EXCEPT !.state = "refreshing"]
             back == [call[who] EXCEPT !.state = "back", !.out = out]
  <2>1. /\ asks \in CallStates /\ asks.state # "back"
        /\ asks.token = call[who].token /\ asks.owner = call[who].owner
        /\ back \in CallStates /\ back.out \in Outcomes
        /\ back.token = call[who].token /\ back.owner = call[who].owner
    BY <1>2 DEF CallStates
  <2>2. \E c \in {asks, back} : call' = [call EXCEPT ![who] = c]
    BY <1>4 DEF Failures!Answered
  <2>3. /\ UNCHANGED <<run, row, tested>>
        /\ syncing' \in Accounts \union {Local} /\ accounts' \subseteq Accounts
    BY <1>1, <1>4 DEF Failures!Answered, FailuresTypeOK
  <2>4. who # "session_test" => call[who].token = call[who].owner
    BY <1>1 DEF OwnSessions, Failures!Callers, Failures!Tests
  <2> HIDE DEF asks, back
  <2> QED
    BY <2>1, <2>2, <2>3, <2>4, CallKept
<1>5. ASSUME NEW who \in Failures!Callers, NEW ok \in BOOLEAN, Failures!Refreshed(who, ok)
      PROVE  FailuresInv'
  <2> DEFINE again == [call[who] EXCEPT !.state = "sent", !.token = Failures!Named(who),
                                        !.again = TRUE]
             back == [call[who] EXCEPT !.state = "back", !.out = "denied"]
  <2>1. CASE call' = [call EXCEPT ![who] = back]
    <3>1. /\ back \in CallStates /\ back.out \in Outcomes
          /\ back.token = call[who].token /\ back.owner = call[who].owner
      BY <1>2 DEF CallStates, Outcomes, Failures!CloudFaults
    <3>2. who # "session_test" => call[who].token = call[who].owner
      BY <1>1 DEF OwnSessions, Failures!Callers, Failures!Tests
    <3>3. UNCHANGED <<run, row, tested, syncing, accounts>>
      BY <1>5 DEF Failures!Refreshed
    <3> HIDE DEF back
    <3> QED
      BY <1>1, <2>1, <3>1, <3>2, <3>3, CallKept DEF FailuresTypeOK
  <2>2. CASE call' = [call EXCEPT ![who] = again] /\ Failures!Named(who) \in accounts
    <3>1. /\ again \in CallStates /\ again.state # "back"
          /\ again.token = Failures!Named(who) /\ again.owner = call[who].owner
      BY <1>1, <1>2, <2>2 DEF CallStates, FailuresTypeOK
    <3>2. who # "session_test" => Failures!Named(who) = call[who].owner
      BY DEF Failures!Named
    <3>3. UNCHANGED <<run, row, tested, syncing, accounts>>
      BY <1>5 DEF Failures!Refreshed
    <3> HIDE DEF again
    <3> QED
      BY <1>1, <2>2, <3>1, <3>2, <3>3, CallKept DEF FailuresTypeOK
  <2> QED
    BY <1>5, <2>1, <2>2 DEF Failures!Refreshed
<1>6. ASSUME NEW who \in Failures!Tests, Failures!Test(who)
      PROVE  FailuresInv'
  BY <1>1, <1>6, Fetched, CallKept DEF Failures!Test, FailuresTypeOK
<1>7. ASSUME NEW who \in Failures!Tests, Failures!Tested(who)
      PROVE  FailuresInv'
  <2>1. Failures!NoCall \in CallStates /\ Failures!NoCall.token = Failures!NoCall.owner
        /\ Failures!NoCall.state # "back"
    BY DEF Failures!NoCall, CallStates
  <2>2. call[who].out \in Outcomes
    BY <1>1, <1>7 DEF Failures!Tested, FailuresTypeOK
  <2>3. /\ UNCHANGED <<run, row, syncing, accounts>>
        /\ call' = [call EXCEPT ![who] = Failures!NoCall]
        /\ tested' = [tested EXCEPT ![who] =
             [out |-> call[who].out, own |-> call[who].token = call[who].owner]]
    BY <1>7 DEF Failures!Tested
  <2> HIDE DEF Failures!NoCall
  <2> QED
    BY <1>1, <2>1, <2>2, <2>3, CallKept DEF FailuresTypeOK
<1> QED
  BY <1>3, <1>4, <1>5, <1>6, <1>7

(* The run begins and is recorded; the user changes account. *)
LEMMA RecordKept ==
  ASSUME FailuresInv, Failures!Succeed \/ Failures!Recorded
  PROVE  FailuresInv'
<1>1. /\ FailuresTypeOK /\ Known /\ OwnSessions
      /\ UNCHANGED <<syncing, accounts, call, tested>>
      /\ run' = Failures!NoRun
  BY DEF FailuresInv, Failures!Succeed, Failures!Recorded
<1>2. Failures!NoRun \in RunStates /\ Failures!NoRun.failed = None
      /\ ~Failures!NoRun.blocked
  BY DEF Failures!NoRun, RunStates
<1>3. FailuresTypeOK' /\ Known' /\ OwnSessions'
  BY <1>1, <1>2 DEF FailuresTypeOK, Known, OwnSessions
<1>4. CASE Failures!Succeed
  <2>1. row'.class = "success"
    BY <1>4 DEF Failures!Succeed
  <2>2. Failures!Attributed'
    BY <2>1 DEF Failures!Attributed, Failures!OfLocal, Failures!OfCloud
  <2> QED
    BY <1>3, <2>2 DEF FailuresInv
<1>5. CASE Failures!Recorded
  <2>1. PICK step \in Steps, out \in Faults :
          /\ run.failed = Failures!Failure(step, out) /\ Fits(step, out)
          /\ run.blocked => step = "ready" \/ (step = "integrity" /\ out = "constraint")
    BY <1>1, <1>5 DEF Failures!Recorded, Known
  <2> DEFINE f == Failures!Failure(step, out)
             class == Failures!Classification(f, run)
  <2>2. /\ row'.class = class /\ row'.failed = f /\ row'.health = run.health
    BY <1>5, <2>1 DEF Failures!Recorded
  <2>3. /\ f.step = step
        /\ out = "constraint" => f.status = 409
    BY DEF Failures!Failure, Failures!Status
  <2> HIDE DEF f
  <2>4. /\ class \in Failures!OfLocal => step \notin Failures!CloudSteps
        /\ class \in Failures!OfCloud => step \in Failures!CloudSteps
        /\ class = "cloud_unreachable" => run.health = "unreachable"
        /\ class = "local_repair_required" => step = "ready" \/ out = "constraint"
    <3> DEFINE by == Failures!ByRequest(f)
    <3>1. /\ by \in Failures!OfLocal => step \notin Failures!CloudSteps
          /\ by \in Failures!OfCloud => step \in Failures!CloudSteps
          /\ by = "local_repair_required" => out = "constraint"
          /\ by # "cloud_unreachable"
      BY <2>1, Attribution DEF f
    <3>2. CASE run.blocked
      BY <2>1, <3>2
      DEF Failures!Classification, Failures!OfLocal, Failures!OfCloud,
          Failures!CloudSteps
    <3>3. CASE ~run.blocked /\ run.rejected
      BY <3>3 DEF Failures!Classification, Failures!OfLocal, Failures!OfCloud
    <3>4. CASE ~run.blocked /\ ~run.rejected
      <4>1. \/ class = by
            \/ /\ by = "cloud_connection" /\ class = "cloud_unreachable"
               /\ run.health = "unreachable"
        BY <3>4 DEF Failures!Classification
      <4> HIDE DEF by, class
      <4> QED
        BY <3>1, <4>1 DEF Failures!OfLocal, Failures!OfCloud
    <3> QED
      BY <3>2, <3>3, <3>4
  <2> HIDE DEF class
  <2>5. Failures!Attributed'
    BY <2>2, <2>3, <2>4 DEF Failures!Attributed
  <2> QED
    BY <1>3, <2>5 DEF FailuresInv
<1> QED
  BY <1>4, <1>5

LEMMA UserKept ==
  ASSUME FailuresInv,
         \/ \E o \in Accounts : Failures!Begin(o) \/ Failures!SignOut(o)
         \/ \E o \in Accounts \union {Local} : Failures!Switch(o)
  PROVE  FailuresInv'
<1>1. /\ FailuresTypeOK /\ Known /\ OwnSessions /\ Failures!Attributed
      /\ UNCHANGED <<call, row, tested>>
      /\ syncing' \in Accounts \union {Local} /\ accounts' \subseteq Accounts
  BY DEF FailuresInv, FailuresTypeOK, Failures!Begin, Failures!SignOut, Failures!Switch
<1>2. run' \in RunStates /\ Known'
  <2>1. CASE run' = run
    BY <1>1, <2>1 DEF Known, FailuresTypeOK
  <2>2. ASSUME NEW o \in Accounts, Failures!Begin(o)
        PROVE  run' \in RunStates /\ Known'
    <3>1. run' = [Failures!NoRun EXCEPT !.owner = o, !.at = "ready"]
      BY <2>2 DEF Failures!Begin
    <3>2. run' \in RunStates /\ run'.failed = None /\ ~run'.blocked
      BY <3>1 DEF Failures!NoRun, RunStates, Steps
    <3> QED
      BY <3>2 DEF Known
  <2> QED
    BY <2>1, <2>2 DEF Failures!SignOut, Failures!Switch
<1>3. FailuresTypeOK' /\ OwnSessions' /\ Failures!Attributed'
  BY <1>1, <1>2 DEF FailuresTypeOK, OwnSessions, Failures!Attributed
<1> QED
  BY <1>2, <1>3 DEF FailuresInv

LEMMA FailuresNext == FailuresInv /\ [Failures!Next]_(Failures!vars) => FailuresInv'
<1>1. ASSUME FailuresInv, UNCHANGED Failures!vars
      PROVE  FailuresInv'
  BY <1>1
  DEF Failures!vars, FailuresInv, FailuresTypeOK, Known, OwnSessions,
      Failures!Attributed
<1> QED
  BY <1>1, RunSteps, CallSteps, RecordKept, UserKept DEF Failures!Next, Outcomes

LEMMA FailuresByInv == FailuresInv => FailuresAreTold
  BY DEF FailuresInv, OwnSessions, FailuresAreTold, Failures!FailuresAreTold,
         Failures!OwnSession

(* A failure is attributed to the side whose request failed, and a request *)
(* carries the session of the account it began with, also after a refresh  *)
(* and whatever the user has changed to meanwhile.                         *)
THEOREM FailuresAreAttributed == Failures!Spec => []FailuresAreTold
  BY FailuresInit, FailuresNext, FailuresByInv, PTL DEF Failures!Spec

-----------------------------------------------------------------------------
(* The window as a whole: its parts share no state. *)
THEOREM WindowIsSafe ==
  WindowSpec => [](UpdateIsHeld /\ ScreensAreTheAccounts /\ FailuresAreTold)
<1>1. WindowInit => CloseInv /\ ViewsInv /\ FailuresInv
  BY CloseInit, ViewsInit, FailuresInit DEF WindowInit
<1>2. [WindowNext]_windowVars =>
        [Next]_vars /\ [Views!Next]_(Views!vars) /\ [Failures!Next]_(Failures!vars)
  BY DEF WindowNext, windowVars, viewsState, failuresState, Views!vars, Failures!vars
<1>3. CloseInv /\ ViewsInv /\ FailuresInv /\ [WindowNext]_windowVars =>
        CloseInv' /\ ViewsInv' /\ FailuresInv'
  BY <1>2, CloseNext, ViewsNext, FailuresNext
<1>4. CloseInv /\ ViewsInv /\ FailuresInv =>
        UpdateIsHeld /\ ScreensAreTheAccounts /\ FailuresAreTold
  BY HeldByInv, ScreensByInv, FailuresByInv
<1> QED
  BY <1>1, <1>3, <1>4, PTL DEF WindowSpec

=============================================================================
