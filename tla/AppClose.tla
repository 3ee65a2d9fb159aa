------------------------------ MODULE AppClose ------------------------------
(***************************************************************************)
(* The closing round of the desktop application.  Before the local backend *)
(* (the sidecar) is stopped, by the user closing the window or by an       *)
(* update, the native side asks the window for a last synchronisation and  *)
(* waits for its answer for a limited time:                                *)
(*                                                                         *)
(*   src-tauri/src/lib.rs    the shared signal, the closer thread and      *)
(*                           prepare_update_install;                       *)
(*   AutoSyncProvider.tsx    the listener of the request: it waits for the *)
(*                           run in progress, runs "app_close" and reports *)
(*                           through complete_app_close_sync;              *)
(*   AppUpdater              the update that asks for the preparation.     *)
(*                                                                         *)
(* The two native waiters share one signal, and a report does not say      *)
(* which request it answers.  Every limit (6 s, or 10 s in a critical      *)
(* section, of the waiters and of the listener) is a step that may come at *)
(* any moment.  Of a synchronisation run only what the others see is kept: *)
(* that it is in flight, and in a critical section.                        *)
(***************************************************************************)
EXTENDS AppUpdater

CONSTANTS
  Rounds,       \* requests sent to the window: 1..MaxRounds (bound)
  Background    \* a run that is not the round of a request

ASSUME RoundsAssumption == None \notin Rounds /\ Rounds \subseteq Nat

VARIABLES
  window,     \* "open", "closed", or "restarting" with the whole process
  closing,    \* close_in_progress: the user has asked to close
  closer,     \* the thread that waits to close the window
  preparer,   \* the thread of prepare_update_install
  signal,     \* AppCloseSyncState: completed and success
  listener,   \* what the window is doing about each request
  sync,       \* the run in flight: whose it is, and whether it is critical
  sidecar,    \* the backend: "up", "down", or "held", still on its port after
              \* everything was tried to stop it
  insisted,   \* history: some limit passed, or the user closed twice
  answered    \* history: a round succeeded since the last update was prepared

closeVars == <<window, closing, closer, preparer, signal, listener, sync,
               sidecar, insisted, answered>>
vars == <<updaterVars, closeVars>>

NoSync == [of |-> None, critical |-> FALSE, late |-> FALSE]

\* A run that begins while the native side waits for an answer is a late one.
Begins(who) ==
  [of |-> who, critical |-> FALSE, late |-> closing \/ preparer # "none"]

Init ==
  /\ UpdaterInit
  /\ window = "open"
  /\ closing = FALSE
  /\ closer = "none"
  /\ preparer = "none"
  /\ signal = [completed |-> FALSE, success |-> FALSE]
  /\ listener = [h \in Rounds |-> "unused"]
  /\ sync = NoSync
  /\ sidecar = "up"
  /\ insisted = FALSE
  /\ answered = FALSE

IsOpen == window = "open"

-----------------------------------------------------------------------------
(* The synchronisation runs *)

\* A run of AutoSync or of the Account screen begins; nothing keeps it from doing
\* so during a closing round.
SyncBegins ==
  /\ IsOpen /\ sync = NoSync
  /\ sync' = Begins(Background)
  /\ UNCHANGED <<updaterVars, window, closing, closer, preparer, signal,
                 listener, sidecar, insisted, answered>>

\* The run applies what it downloaded, or records where it is.
SyncCritical ==
  /\ IsOpen /\ sync # NoSync /\ ~sync.critical
  /\ sync' = [sync EXCEPT !.critical = TRUE]
  /\ UNCHANGED <<updaterVars, window, closing, closer, preparer, signal,
                 listener, sidecar, insisted, answered>>

\* A run ends.  The one of a closing round leaves its outcome to the listener, if
\* that is still waiting; without the backend no run succeeds.
SyncEnds(ok) ==
  /\ IsOpen /\ sync # NoSync
  /\ ok => sidecar # "down" /\ sync.critical
  /\ sync' = NoSync
  /\ listener' = [h \in Rounds |->
       IF h = sync.of /\ listener[h] = "syncing"
         THEN IF ok THEN "succeeded" ELSE "failed"
         ELSE listener[h]]
  /\ UNCHANGED <<updaterVars, window, closing, closer, preparer, signal,
                 sidecar, insisted, answered>>

-----------------------------------------------------------------------------
(* The listener of the window *)

Listens(h, from, to) ==
  /\ IsOpen /\ listener[h] = from
  /\ listener' = [listener EXCEPT ![h] = to]

\* Variant: the listener starts its round at once.
FindsIdle_Unchecked(h) ==
  /\ Listens(h, "waiting", "starting")
  /\ UNCHANGED <<updaterVars, window, closing, closer, preparer, signal, sync,
                 sidecar, insisted, answered>>

\* No run is in flight: executeSync("app_close", true) is called.
FindsIdle(h) ==
  /\ sync = NoSync
  /\ Listens(h, "waiting", "starting")
  /\ UNCHANGED <<updaterVars, window, closing, closer, preparer, signal, sync,
                 sidecar, insisted, answered>>

\* waitForSyncShutdownWindow or runAppCloseSyncWithBudget reaches its limit; a run
\* the listener started goes on.
GivesUp(h) ==
  /\ \E from \in {"waiting", "starting", "syncing"} : Listens(h, from, "failed")
  /\ insisted' = TRUE
  /\ UNCHANGED <<updaterVars, window, closing, closer, preparer, signal, sync,
                 sidecar, answered>>

\* There is no session: nothing to synchronise, which counts as success.
NoSession(h) ==
  /\ Listens(h, "starting", "succeeded")
  /\ UNCHANGED <<updaterVars, window, closing, closer, preparer, signal, sync,
                 sidecar, insisted, answered>>

\* Another run started meanwhile: executeSync fails.
FindsBusy(h) ==
  /\ sync # NoSync
  /\ Listens(h, "starting", "failed")
  /\ UNCHANGED <<updaterVars, window, closing, closer, preparer, signal, sync,
                 sidecar, insisted, answered>>

StartsRun(h) ==
  /\ sync = NoSync
  /\ Listens(h, "starting", "syncing")
  /\ sync' = Begins(h)
  /\ UNCHANGED <<updaterVars, window, closing, closer, preparer, signal,
                 sidecar, insisted, answered>>

\* complete_app_close_sync.
Reports(h) ==
  LET ok == listener[h] = "succeeded" IN
  /\ \E from \in {"succeeded", "failed"} : Listens(h, from, "done")
  /\ signal' = [completed |-> TRUE, success |-> ok]
  /\ answered' = (answered \/ ok)
  /\ UNCHANGED <<updaterVars, window, closing, closer, preparer, sync, sidecar,
                 insisted>>

ListenerStep(h) ==
  \/ FindsIdle(h) \/ GivesUp(h) \/ NoSession(h) \/ FindsBusy(h)
  \/ StartsRun(h) \/ Reports(h)

-----------------------------------------------------------------------------
(* The native side *)

\* reset_app_close_sync.
Reset == signal' = [completed |-> FALSE, success |-> FALSE]

\* The request is emitted; the page may not be listening (yet).
Request(h) ==
  /\ listener[h] = "unused"
  /\ \A g \in Rounds : g < h => listener[g] # "unused"
  /\ \E to \in {"waiting", "done"} : listener' = [listener EXCEPT ![h] = to]

\* The user closes the window for the first time.
CloseRequested(h) ==
  /\ IsOpen /\ ~closing
  /\ closing' = TRUE
  /\ Reset
  /\ Request(h)
  /\ closer' = "waiting"
  /\ UNCHANGED <<updaterVars, window, preparer, sync, sidecar, insisted, answered>>

\* The window is closed and with it the process: RunEvent::Exit stops what is
\* left of the backend.
Exit ==
  /\ window' = "closed"
  /\ sidecar' = IF sidecar = "up" THEN "down" ELSE sidecar
  /\ sync' = NoSync

\* A second request is not held back.
CloseInsisted ==
  /\ IsOpen /\ closing
  /\ insisted' = TRUE
  /\ Exit
  /\ UNCHANGED <<updaterVars, closing, closer, preparer, signal, listener, answered>>

\* Variant: the thread that waits to close the window has no limit.
CloserWakes_NoLimit(timedOut) ==
  /\ IsOpen /\ closer = "waiting"
  /\ signal.completed /\ ~timedOut
  /\ closer' = "stopping"
  /\ UNCHANGED <<updaterVars, window, closing, preparer, signal, listener, sync,
                 sidecar, insisted, answered>>

\* wait_for_app_close_sync returns to the closer, which goes on in any case.
CloserWakes(timedOut) ==
  /\ IsOpen /\ closer = "waiting"
  /\ timedOut \/ signal.completed
  /\ closer' = "stopping"
  /\ insisted' = (insisted \/ timedOut)
  /\ UNCHANGED <<updaterVars, window, closing, preparer, signal, listener, sync,
                 sidecar, answered>>

\* stop_backend_sidecar: the port is released, or nothing helped.
StopSidecar == sidecar' \in IF sidecar = "down" THEN {"down"} ELSE {"down", "held"}

CloserStops ==
  /\ IsOpen /\ closer = "stopping"
  /\ closer' = "closing"
  /\ StopSidecar
  /\ UNCHANGED <<updaterVars, window, closing, preparer, signal, listener, sync, insisted, answered>>

CloserCloses ==
  /\ IsOpen /\ closer = "closing"
  /\ closer' = "done"
  /\ Exit
  /\ UNCHANGED <<updaterVars, closing, preparer, signal, listener, insisted, answered>>

\* A backend that was asked to end and did not in time may still do so.
SidecarDies ==
  /\ sidecar = "held"
  /\ sidecar' = "down"
  /\ UNCHANGED <<updaterVars, window, closing, closer, preparer, signal,
                 listener, sync, insisted, answered>>

\* prepare_update_install begins.
PrepareBegins(h) ==
  /\ IsOpen /\ install.pc = "preparing" /\ preparer = "none"
  /\ Reset
  /\ Request(h)
  /\ preparer' = "waiting"
  /\ answered' = FALSE
  /\ UNCHANGED <<updaterVars, window, closing, closer, sync, sidecar,
                 insisted>>

\* The round succeeded: the backend is stopped.
PreparerWakes ==
  /\ IsOpen /\ preparer = "waiting"
  /\ signal.completed /\ signal.success
  /\ preparer' = "stopping"
  /\ UNCHANGED <<updaterVars, window, closing, closer, signal, listener, sync,
                 sidecar, insisted, answered>>

\* It failed, or the time is over: the preparation fails.
PreparerRefuses(timedOut) ==
  /\ IsOpen /\ preparer = "waiting"
  /\ timedOut \/ (signal.completed /\ ~signal.success)
  /\ preparer' = "none"
  /\ insisted' = (insisted \/ timedOut)
  /\ InstallFails("preparing")
  /\ UNCHANGED <<window, closing, closer, signal, listener, sync, sidecar, answered>>

\* Variant: the port is not tested again after the backend was stopped.
PreparerStops_Untested ==
  /\ IsOpen /\ preparer = "stopping"
  /\ preparer' = "none"
  /\ StopSidecar
  /\ Prepared
  /\ UNCHANGED <<window, closing, closer, signal, listener, sync, insisted,
                 answered>>

\* The backend is stopped; if its port is not released the preparation fails.
PreparerStops ==
  /\ IsOpen /\ preparer = "stopping"
  /\ preparer' = "none"
  /\ StopSidecar
  /\ IF sidecar' = "down" THEN Prepared ELSE InstallFails("preparing")
  /\ UNCHANGED <<window, closing, closer, signal, listener, sync, insisted, answered>>

\* The installer ends the process, as it does on Windows.
InstallerExits ==
  /\ IsOpen /\ install.pc = "installing"
  /\ Exit
  /\ UNCHANGED <<updaterVars, closing, closer, preparer, signal, listener, insisted, answered>>

\* restart_after_failed_update_install: the process starts again from nothing.
Restart ==
  /\ IsOpen /\ install.pc = "restarting"
  /\ window' = "restarting"
  /\ UNCHANGED <<updaterVars, closing, closer, preparer, signal, listener, sync,
                 sidecar, insisted, answered>>

CloserStep == (\E timedOut \in BOOLEAN : CloserWakes(timedOut)) \/ CloserStops
              \/ CloserCloses

PreparerStep == PreparerWakes \/ PreparerStops
                \/ \E timedOut \in BOOLEAN : PreparerRefuses(timedOut)

Next ==
  \/ IsOpen /\ UpdaterNext /\ UNCHANGED closeVars
  \/ SyncBegins \/ SyncCritical \/ \E ok \in BOOLEAN : SyncEnds(ok)
  \/ \E h \in Rounds : ListenerStep(h) \/ CloseRequested(h) \/ PrepareBegins(h)
  \/ CloseInsisted \/ CloserStep \/ PreparerStep
  \/ SidecarDies \/ InstallerExits \/ Restart

\* The closer is a thread whose every wait has a limit.
Spec == Init /\ [][Next]_vars /\ WF_vars(CloserStep)

-----------------------------------------------------------------------------
(* Properties *)

\* The shape of the state, and which states of the threads go together.
AppCloseTypeOK ==
  /\ UpdaterTypeOK
  /\ window \in {"open", "closed", "restarting"}
  /\ closer \in {"none", "waiting", "stopping", "closing", "done"}
  /\ closing <=> closer # "none"
  /\ preparer \in {"none", "waiting", "stopping"}
  /\ preparer # "none" => install.pc = "preparing"
  /\ signal \in [completed : BOOLEAN, success : BOOLEAN]
  /\ listener \in [Rounds -> {"unused", "waiting", "starting", "syncing",
                              "succeeded", "failed", "done"}]
  /\ sync \in [of : Rounds \union {Background, None}, critical : BOOLEAN,
               late : BOOLEAN]
  /\ sidecar \in {"up", "down", "held"}

\* Whatever the window does about the request, a window the user closed closes
\* (lib.rs:1269-1279): "mantiene timeout seguro", README.md:54.
CloseCompletes == closing ~> ~IsOpen

\* A synchronisation that was going on when the native side asked is not cut in
\* its critical section, in which it applies what it downloaded: only a limit that
\* passed, or the user closing again, does that (AutoSyncProvider.tsx:187-203).
CriticalProtected ==
  [][sidecar = "up" /\ sidecar' # "up" /\ sync.critical /\ ~sync.late
       => insisted']_vars

\* The backend is stopped for an update only when a closing round has succeeded
\* since that update asked for one, never on an answer that was left from before
\* (UPDATER_RELEASE.md:169), and the installer never runs beside the backend
\* whose files it replaces.
InstallIsPrepared ==
  [][/\ preparer = "waiting" /\ preparer' = "stopping" => answered
     /\ install'.pc = "installing" => sidecar' = "down"]_vars

=============================================================================
