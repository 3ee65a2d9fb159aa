----------------------------- MODULE AppUpdater -----------------------------
(***************************************************************************)
(* The update of the desktop application as the window sees it:            *)
(* createAppUpdater of services/appUpdater.ts.                             *)
(*                                                                         *)
(* Every answer of the updater plugin is a native resource that has to be  *)
(* closed.  A check, an installation and the disposal of the updater are   *)
(* asynchronous and share the candidate; a step is what one of them does   *)
(* between two awaits.  The preparation of the installation, done by the   *)
(* native side, is AppClose's: here it only has an outcome.                *)
(*                                                                         *)
(* The published versions are not told apart, so the version the user      *)
(* postponed is a flag; progress and messages are left out.                *)
(***************************************************************************)
EXTENDS Naturals, FiniteSets

CONSTANTS
  MaxChecks,    \* answers of the updater plugin (bound)
  None

ASSUME MaxChecksAssumption == MaxChecks \in Nat

Updates == 1..MaxChecks

ASSUME NoneAssumption == None \notin Updates

VARIABLES
  status,      \* state.status, what the window shows
  candidate,   \* the update that can be installed
  check,       \* checkPromise: where the check is, and the update it found
  install,     \* installPromise: where the installation is, and its update
  manual,      \* manualRequested
  hasChecked,  \* the check at the start has been made
  postponed,   \* the stored DISMISSED_UPDATE_KEY is the published version
  disposed,    \* dispose() was called
  asked,       \* how many answers the plugin has given
  open         \* the native resources that are open

updaterVars == <<status, candidate, check, install, manual, hasChecked,
                 postponed, disposed, asked, open>>

Statuses == {"idle", "checking", "available", "downloading", "preparing",
             "installing", "ready", "error"}

NoCheck == [pc |-> "none", found |-> None]
NoInstall == [pc |-> "none", update |-> None]

UpdaterInit ==
  /\ status = "idle"
  /\ candidate = None
  /\ check = NoCheck
  /\ install = NoInstall
  /\ manual = FALSE
  /\ hasChecked = FALSE
  /\ postponed \in BOOLEAN
  /\ disposed = FALSE
  /\ asked = 0
  /\ open = {}

\* publish: nothing is shown any more after the disposal.
Publish(s) == status' = IF disposed THEN status ELSE s

-----------------------------------------------------------------------------
(* check *)

\* The check at the start of the window, or one the user asked for.
CheckBegin(byUser) ==
  /\ ~disposed /\ install = NoInstall /\ status \notin {"ready", "installing"}
  /\ byUser \/ ~hasChecked
  /\ check = NoCheck
  /\ asked < MaxChecks
  /\ check' = [pc |-> "asking", found |-> None]
  /\ hasChecked' = TRUE
  /\ manual' = byUser
  /\ Publish("checking")
  /\ UNCHANGED <<candidate, install, postponed, disposed, asked, open>>

\* The user asks while a check is going on: the answer is shared.
CheckJoin ==
  /\ ~disposed /\ install = NoInstall /\ check # NoCheck
  /\ manual' = TRUE
  /\ UNCHANGED <<status, candidate, check, install, hasChecked, postponed,
                 disposed, asked, open>>

\* The end of a check that changes nothing but what is shown.
EndCheck == check' = NoCheck

\* The server cannot be reached in time.
CheckFails ==
  /\ check.pc = "asking"
  /\ EndCheck
  /\ Publish(IF candidate # None THEN "available" ELSE "idle")
  /\ UNCHANGED <<candidate, install, manual, hasChecked, postponed, disposed,
                 asked, open>>

\* An answer arrives.  It is closed at once when the updater was disposed or its
\* manifest is invalid; one that is not newer, or empty, also closes the
\* candidate; a newer one closes the candidate before it takes its place.  Closing is awaited.
CheckAnswers(kind) ==
  LET u == asked + 1
      old == IF candidate = None THEN {} ELSE {candidate}
  IN
  /\ check.pc = "asking" /\ asked < MaxChecks
  /\ asked' = u
  /\ \/ /\ disposed \/ kind = "invalid"
        /\ check' = [pc |-> "closing", found |-> u]
        /\ UNCHANGED <<candidate, open>>
     \/ /\ ~disposed /\ kind = "current"
        /\ check' = [pc |-> "dropping", found |-> None]
        /\ candidate' = None
        /\ open' = open \ old
     \/ /\ ~disposed /\ kind = "newer"
        /\ check' = [pc |-> "replacing", found |-> u]
        /\ candidate' = None
        /\ open' = (open \ old) \union {u}
  /\ UNCHANGED <<status, install, manual, hasChecked, postponed, disposed>>

\* The update found was of no use and has been closed.
CheckClosed ==
  /\ check.pc \in {"closing", "dropping"}
  /\ EndCheck
  /\ Publish(IF candidate # None THEN "available" ELSE "idle")
  /\ UNCHANGED <<candidate, install, manual, hasChecked, postponed, disposed,
                 asked, open>>

\* The old candidate is closed: the update found becomes the candidate, unless
\* the updater was disposed meanwhile.
CheckReplaces ==
  /\ check.pc = "replacing"
  /\ EndCheck
  /\ IF disposed
       THEN /\ open' = open \ {check.found}
            /\ UNCHANGED <<candidate, status>>
       ELSE /\ candidate' = check.found
            /\ status' = IF postponed /\ ~manual THEN "idle" ELSE "available"
            /\ UNCHANGED open
  /\ UNCHANGED <<install, manual, hasChecked, postponed, disposed, asked>>

-----------------------------------------------------------------------------
(* postpone and install *)

\* The choice is stored if the storage can be written.
Postpone ==
  /\ candidate # None /\ status = "available"
  /\ postponed' \in {TRUE, postponed}
  /\ Publish("idle")
  /\ UNCHANGED <<candidate, check, install, manual, hasChecked, disposed,
                 asked, open>>

At(pc) == install' = [install EXCEPT !.pc = pc]
EndInstall == install' = NoInstall

InstallBegin ==
  /\ install = NoInstall /\ check = NoCheck
  /\ ~disposed /\ candidate # None /\ status = "available"
  /\ install' = [pc |-> "downloading", update |-> candidate]
  /\ Publish("downloading")
  /\ UNCHANGED <<candidate, check, manual, hasChecked, postponed, disposed,
                 asked, open>>

\* What an installation leaves alone, whatever becomes of it.
InstallUnchanged == UNCHANGED <<candidate, check, manual, hasChecked, postponed,
                                disposed, asked, open>>

\* The installer is downloaded and its signature verified; the native side is
\* asked to prepare.
Downloaded ==
  /\ install.pc = "downloading"
  /\ IF disposed THEN EndInstall ELSE At("preparing")
  /\ Publish("preparing")
  /\ InstallUnchanged

\* The download, its signature or the preparation fails.
InstallFails(pc) ==
  /\ install.pc = pc
  /\ EndInstall
  /\ Publish("error")
  /\ InstallUnchanged

Prepared ==
  /\ install.pc = "preparing"
  /\ At(IF disposed THEN "restarting" ELSE "installing")
  /\ Publish("installing")
  /\ InstallUnchanged

\* The installer returned.
Installed ==
  /\ install.pc = "installing"
  /\ EndInstall
  /\ Publish("ready")
  /\ InstallUnchanged

\* It could not be run: the local backend is gone, so the application restarts.
InstallBreaks ==
  /\ install.pc = "installing"
  /\ At("restarting")
  /\ Publish("error")
  /\ InstallUnchanged

\* The restart could not be asked for: the window tells the user to do it.
RestartFails ==
  /\ install.pc = "restarting"
  /\ EndInstall
  /\ Publish("error")
  /\ InstallUnchanged

-----------------------------------------------------------------------------
(* dispose *)

\* The window unmounts the provider.
Dispose ==
  /\ ~disposed
  /\ disposed' = TRUE
  /\ UNCHANGED <<status, candidate, check, install, manual, hasChecked,
                 postponed, asked, open>>

\* Variant: the disposal waits for the check alone.
DisposeReleases_Hasty ==
  /\ disposed /\ candidate # None
  /\ check = NoCheck
  /\ candidate' = None
  /\ open' = open \ {candidate}
  /\ UNCHANGED <<status, check, install, manual, hasChecked, postponed,
                 disposed, asked>>

\* Once the check and the installation have ended, the candidate is closed.
DisposeReleases ==
  /\ disposed /\ candidate # None
  /\ check = NoCheck /\ install = NoInstall
  /\ candidate' = None
  /\ open' = open \ {candidate}
  /\ UNCHANGED <<status, check, install, manual, hasChecked, postponed,
                 disposed, asked>>

\* The steps of the updater that do not involve the native side.
UpdaterNext ==
  \/ \E byUser \in BOOLEAN : CheckBegin(byUser)
  \/ CheckJoin \/ CheckFails \/ CheckClosed \/ CheckReplaces
  \/ \E kind \in {"invalid", "current", "newer"} : CheckAnswers(kind)
  \/ Postpone \/ InstallBegin \/ Downloaded \/ InstallFails("downloading")
  \/ Installed \/ InstallBreaks \/ RestartFails
  \/ Dispose \/ DisposeReleases

-----------------------------------------------------------------------------
(* Properties *)

\* The shape of the state.
UpdaterTypeOK ==
  /\ status \in Statuses
  /\ candidate \in Updates \union {None}
  /\ check \in [pc : {"none", "asking", "closing", "dropping", "replacing"},
                found : Updates \union {None}]
  /\ install \in [pc : {"none", "downloading", "preparing", "installing",
                        "restarting"},
                  update : Updates \union {None}]
  /\ {manual, hasChecked, postponed, disposed} \subseteq BOOLEAN
  /\ asked \in 0..MaxChecks
  /\ open \subseteq Updates

\* The update that is being downloaded or installed is open: neither a check that
\* replaces the candidate nor the disposal closes a native resource that is in use
\* (appUpdater.ts:232).
UpdateInUseIsOpen == install # NoInstall => install.update \in open

\* No native resource is forgotten: one that is open is the candidate or the
\* update a running check found, so that the disposal closes the last of them.
OpenIsHeld == open \subseteq {candidate, check.found}

\* A native resource is closed once, by the last that uses it.
UpdateIsHeld == UpdateInUseIsOpen /\ OpenIsHeld

=============================================================================
