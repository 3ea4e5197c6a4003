---------------------------- MODULE ShellSettings ----------------------------
(***************************************************************************)
(* What the shell does with its settings (src/src/shell/runtime): the Qt   *)
(* signals of SettingsSnapshotClient are direct calls, so ShellRuntime     *)
(* reacts within the client's step.  The first snapshot of an owner epoch  *)
(* creates the panel, launcher and notification surfaces, a later one      *)
(* updates them, and the loss of the owner destroys them.                  *)
(***************************************************************************)
EXTENDS SettingsSnapshotClient

CONSTANT MaxRefusals  \* bound: failures of the surfaces

ASSUME ShellAssumption == MaxRefusals \in Nat

VARIABLES
    available,  \* presentation_available_
    shown,      \* the snapshot theme_adapter_ holds for the surfaces
    quitting,   \* shutdown_requested_
    refusals

presentationVars == <<available, shown, quitting>>
shellVars == <<vars, presentationVars, refusals>>

ShellInit ==
    /\ Init
    /\ available = FALSE /\ shown = NoSnapshot /\ quitting = FALSE /\ refusals = 0

(* handleSettingsStateChanged: an io_error ends the shell.                 *)
Leaves(failed) == quitting' = (quitting \/ client'.told \/ failed)

(* Mutant: an owner loss that cannot release the keyboard changes nothing. *)
LoseOnlyWhenReleased(ok) ==
    /\ client'.snapshot = NoSnapshot
    /\ available' = (available /\ ~ok)
    /\ shown' = IF available /\ ok THEN NoSnapshot ELSE shown
    /\ Leaves(FALSE)

(* The launcher is hidden and the keyboard released first; when that fails *)
(* the surfaces are not destroyed.                                         *)
LoseSettingsOwner(ok) ==
    /\ client'.snapshot = NoSnapshot
    /\ available' = FALSE
    /\ shown' = IF available /\ ok THEN NoSnapshot ELSE shown
    /\ Leaves(FALSE)

(* Mutant: a failed creation does not end the shell.                       *)
CreateOrStay(ok) ==
    /\ client'.snapshot # NoSnapshot /\ ~available
    /\ available' = ok
    /\ shown' = IF ok THEN client'.snapshot ELSE NoSnapshot
    /\ Leaves(FALSE)

CreatePresentationEpoch(ok) ==
    /\ client'.snapshot # NoSnapshot /\ ~available
    /\ available' = ok
    /\ shown' = IF ok THEN client'.snapshot ELSE NoSnapshot
    /\ Leaves(~ok)

(* The panel's height, the theme, then the properties of the views: what   *)
(* fails before the theme is applied leaves the surfaces as they were,     *)
(* what fails after it does not.                                           *)
UpdatePresentationEpoch(ok) ==
    /\ client'.snapshot # NoSnapshot /\ available
    /\ shown' \in {client'.snapshot} \cup (IF ok THEN {} ELSE {shown})
    /\ UNCHANGED available
    /\ Leaves(FALSE)

HandleSettingsSnapshotChanged(ok) ==
    \/ LoseSettingsOwner(ok)
    \/ CreatePresentationEpoch(ok)
    \/ UpdatePresentationEpoch(ok)

(* The destructor removes the surfaces before it stops the client.         *)
DestroyRuntime ==
    /\ Stop
    /\ available' = FALSE /\ shown' = NoSnapshot
    /\ UNCHANGED <<quitting, refusals>>

ShellProceeds ==
    /\ Proceeds
    /\ IF client'.snapshot = client.snapshot
       THEN Leaves(FALSE) /\ UNCHANGED <<available, shown, refusals>>
       ELSE \E ok \in BOOLEAN :
                /\ HandleSettingsSnapshotChanged(ok)
                /\ ok \/ refusals < MaxRefusals
                /\ refusals' = IF ok THEN refusals ELSE refusals + 1

ShellNext == ShellProceeds \/ DestroyRuntime

ShellSpec == ShellInit /\ [][ShellNext]_shellVars

ShellFairness ==
    /\ WF_shellVars(ShellProceeds /\ Dispatches)
    /\ WF_shellVars(ShellProceeds /\ DaemonReads)
    /\ WF_shellVars(ShellProceeds /\ Replies)

FairShellSpec == ShellSpec /\ ShellFairness

-----------------------------------------------------------------------------
(* The shell presents its surfaces only for the present owner, from a      *)
(* generation the client has received and from the newest one unless the   *)
(* surfaces refused it (process-model.md:54).                              *)
SurfacesOfOwner ==
    available =>
        /\ shown.epoch = client.owner /\ client.owner # NoOwner
        /\ shown.generation \in 1..client.snapshot.generation
        /\ refusals = 0 => shown = client.snapshot

(* A shell that holds a complete snapshot and presents nothing is leaving: *)
(* its supervisor starts another one.                                      *)
PresentsOrLeaves ==
    client.snapshot # NoSnapshot => available \/ quitting
=============================================================================
