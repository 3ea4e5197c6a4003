------------------------------ MODULE ShellRuntime ------------------------------
(***************************************************************************)
(* The shell's surfaces and who has the keyboard                           *)
(* (src/src/shell/runtime): ShellRuntimeState decides which actions follow *)
(* a settings snapshot, its loss, a request of the user or the loss of     *)
(* X11, and ShellRuntime executes them one by one and stops at the first   *)
(* that fails.  ShellSettings has the settings in detail; here a snapshot  *)
(* is the panel height it asks for, and comes at any time.                 *)
(*                                                                         *)
(* All of it runs on the Qt thread: while an operation of the panel is     *)
(* under way nothing else is handled.                                      *)
(***************************************************************************)
EXTENDS PanelWindow

CONSTANTS
    Heights,       \* panel heights a snapshot may ask for
    MaxInputs      \* bound: snapshots, their losses and requests of the user

ASSUME HeightsAssumption == Heights \subseteq Nat

VARIABLES
    state,     \* ShellRuntimeState
    launcher,  \* the launcher's window
    theme,     \* the panel height of theme_adapter_, 0 for none
    loss,      \* FatalDisplayShutdown: none, queued, handled
    quitting,  \* shutdown_requested_
    inputs
shellVars == <<state, launcher, theme, loss, quitting, inputs>>
vars == <<panelVars, shellVars>>

NoLauncher == [shown |-> FALSE, wasActive |-> FALSE]

Init ==
    /\ \E status \in Statuses : ServerInit(status)
    /\ wire = [socket |-> 0, buffered |-> 0]
    /\ panel = NoPanel /\ op = Idle /\ seen = {} /\ faults = 0
    /\ state = [available |-> FALSE, launcher |-> FALSE, stopping |-> FALSE]
    /\ launcher = NoLauncher /\ theme = 0
    /\ loss = "none" /\ quitting = FALSE
    /\ inputs = 0

Handles == op = Idle /\ ~quitting
Input == inputs < MaxInputs /\ inputs' = inputs + 1
Quit == quitting' = TRUE

(* A queued callback goes with the panel's window.                         *)
CallbackLost == loss' = IF loss = "queued" THEN "none" ELSE loss

(* destroyPresentationEpoch: the connection goes with the host.            *)
DestroyPresentationEpoch ==
    /\ panel' = NoPanel /\ launcher' = NoLauncher /\ theme' = 0
    /\ wire' = [socket |-> 0, buffered |-> 0]
    /\ CallbackLost

HideLauncher == launcher' = NoLauncher

(* panel_host_->...KeyboardAccess(), done by checked requests, or without  *)
(* any when there is nothing to switch.  A failed switch may be rolled     *)
(* back to the same panel, with or without having sent requests.           *)
Keyboard(outcomes) ==
    \E r \in outcomes :
        /\ Charge(r.ok)
        /\ panel' = r.panel
        /\ \/ r.panel # panel /\ RoundTrip
           \/ r.panel = panel /\ wire' = wire
           \/ ~r.ok /\ ~panel.terminated /\ panel.current # None /\ RoundTrip
ReleaseIfAny == IF panel.exists THEN ReleaseKeyboardAccess(panel) ELSE {Outcome(TRUE, panel)}

-----------------------------------------------------------------------------
(* Snapshots of the settings.                                              *)

CreatePresentationEpoch(height) ==
    /\ ~state.available
    /\ state' = [state EXCEPT !.available = TRUE]
    /\ launcher' = NoLauncher /\ theme' = height
    /\ panel' = [NoPanel EXCEPT !.exists = TRUE, !.height = height]
    /\ wire' = [socket |-> 0, buffered |-> 0]
    /\ CallbackLost
    /\ Begin("create", height)
    /\ UNCHANGED <<faults, quitting>>

UpdatePresentationEpoch(height) ==
    /\ state.available
    /\ IF panel.exists /\ ~panel.terminated THEN Begin("height", height)
       ELSE UNCHANGED <<op, seen>>
    /\ UNCHANGED <<wire, panel, faults, state, launcher, theme, loss, quitting>>

SettingsSnapshot ==
    /\ Handles /\ Input /\ ~state.stopping
    /\ UNCHANGED server
    /\ \E height \in Heights :
          CreatePresentationEpoch(height) \/ UpdatePresentationEpoch(height)

(* Mutant: the keyboard is released before the launcher is hidden.         *)
LoseSettingsReleasingFirst ==
    /\ Handles /\ Input /\ state.available /\ ~state.stopping
    /\ state' = [state EXCEPT !.available = FALSE, !.launcher = FALSE]
    /\ \E r \in ReleaseIfAny :
          /\ Charge(r.ok)
          /\ IF r.ok THEN DestroyPresentationEpoch
             ELSE panel' = r.panel /\ RoundTrip /\ UNCHANGED <<launcher, theme, loss>>
    /\ UNCHANGED <<server, op, seen, quitting>>

LoseSettingsOwner ==
    /\ Handles /\ Input /\ state.available /\ ~state.stopping
    /\ state' = [state EXCEPT !.available = FALSE, !.launcher = FALSE]
    /\ \E r \in ReleaseIfAny :
          /\ Charge(r.ok)
          /\ IF r.ok THEN DestroyPresentationEpoch
             ELSE /\ panel' = r.panel /\ RoundTrip
                  /\ launcher' = IF state.launcher THEN NoLauncher ELSE launcher
                  /\ UNCHANGED <<theme, loss>>
    /\ UNCHANGED <<server, op, seen, quitting>>

(* The rest of createPresentationEpoch, and what a failure undoes.         *)
CompleteCreate ==
    /\ op.kind = "create"
    /\ End
    /\ \E r \in Placed, ready \in BOOLEAN :
          /\ Charge((r.ok \/ ~Placeable) /\ ready)
          /\ IF r.ok /\ ready
             THEN /\ panel' = [r.panel EXCEPT !.notifier = TRUE]
                  /\ UNCHANGED <<state, launcher, theme, loss, quitting>>
                  /\ RoundTrip
             ELSE /\ DestroyPresentationEpoch
                  /\ state' = [state EXCEPT !.available = FALSE, !.launcher = FALSE]
                  /\ Quit
    /\ UNCHANGED <<server, inputs>>

(* A new height is applied to the panel first, and undone when the theme   *)
(* cannot be.                                                              *)
CompleteHeight ==
    /\ op.kind = "height"
    /\ \E r \in Placed, adapted \in BOOLEAN :
          /\ Charge((r.ok \/ ~Placeable) /\ adapted)
          /\ panel' = r.panel
          /\ IF r.ok /\ ~adapted
             THEN Begin("rollback", theme) /\ UNCHANGED theme
             ELSE End /\ theme' = IF r.ok THEN op.height ELSE theme
    /\ RoundTrip
    /\ UNCHANGED <<server, state, launcher, loss, quitting, inputs>>

CompleteRollback ==
    /\ op.kind = "rollback"
    /\ End
    /\ \E r \in Placed : Charge(r.ok \/ ~Placeable) /\ panel' = r.panel
    /\ RoundTrip
    /\ UNCHANGED <<server, shellVars>>

-----------------------------------------------------------------------------
(* PanelWindowHost::drainEvents                                            *)

Terminate(p) == [HideIncoherentWindow(p) EXCEPT !.terminated = TRUE, !.notifier = FALSE]

(* The callback of a lost connection is queued to the panel's window.      *)
(* Mutant: nobody is told.                                                 *)
TellNobody == UNCHANGED loss
QueueLoss == loss' = IF loss = "none" THEN "queued" ELSE loss

DrainEvents ==
    /\ Handles /\ panel.notifier /\ wire.socket > 0
    /\ LET events == wire.socket + wire.buffered IN
       IF ~server.healthy
       THEN /\ panel' = Terminate(panel)
            /\ QueueLoss
            /\ wire' = [socket |-> 0, buffered |-> 0]
            /\ UNCHANGED <<op, seen, faults>>
       ELSE \/ /\ Begin("refresh", panel.height)
               /\ wire' = [socket |-> 0,
                           buffered |-> IF events > Budget THEN events - Budget ELSE 0]
               /\ UNCHANGED <<panel, loss, faults>>
            \/ \* an event that does not decode: those before it are dropped
               /\ Charge(FALSE)
               /\ \E rest \in 0..(events - 1) : wire' = [socket |-> 0, buffered |-> rest]
               /\ UNCHANGED <<panel, op, seen, loss>>
    /\ UNCHANGED <<server, state, launcher, theme, quitting, inputs>>

(* A refresh that fails on a lost connection ends the host.                *)
CompleteRefresh ==
    /\ op.kind = "refresh"
    /\ End
    /\ \E r \in Placed :
          /\ Charge(r.ok \/ ~Placeable)
          /\ panel' = IF ~r.ok /\ ~server.healthy THEN Terminate(r.panel) ELSE r.panel
          /\ IF ~r.ok /\ ~server.healthy THEN QueueLoss ELSE UNCHANGED loss
    /\ RoundTrip
    /\ UNCHANGED <<server, state, launcher, theme, quitting, inputs>>

Complete ==
    /\ op # Idle /\ op.at = "end"
    /\ CompleteCreate \/ CompleteHeight \/ CompleteRollback \/ CompleteRefresh

(* handleX11Loss: the release fails on a host that is terminated.          *)
HandleX11Loss ==
    /\ Handles /\ loss = "queued"
    /\ loss' = "handled"
    /\ state' = [state EXCEPT !.stopping = TRUE, !.launcher = FALSE]
    /\ HideLauncher
    /\ Quit
    /\ UNCHANGED <<panelVars, theme, inputs>>

-----------------------------------------------------------------------------
(* The user, by signals of the surfaces and activation by the window       *)
(* manager.                                                                *)

Requested ==
    /\ Handles /\ Input /\ ~state.stopping
    /\ UNCHANGED <<server, op, seen, theme, loss, quitting>>

(* The launcher is shown only when the panel has let go of the keyboard.   *)
OpenLauncher ==
    /\ Requested
    /\ panel.visible /\ state.available /\ ~state.launcher
    /\ state' = [state EXCEPT !.launcher = TRUE]
    /\ \E r \in ReleaseIfAny :
          /\ Keyboard({r})
          /\ launcher' = IF r.ok THEN [shown |-> TRUE, wasActive |-> FALSE] ELSE launcher

Dismiss(toPanel) ==
    /\ state.launcher
    /\ state' = [state EXCEPT !.launcher = FALSE]
    /\ HideLauncher
    /\ Keyboard(IF toPanel THEN RequestKeyboardAccess(panel) ELSE ReleaseIfAny)

DismissLauncher ==
    /\ Requested
    /\ \/ launcher.shown /\ Dismiss(TRUE)                          \* Escape, Tab
       \/ launcher.shown /\ launcher.wasActive /\ Dismiss(FALSE)    \* loses activation
       \/ Dismiss(FALSE)                                           \* launchCompleted

LauncherActivated ==
    /\ Handles /\ launcher.shown /\ ~launcher.wasActive
    /\ launcher' = [launcher EXCEPT !.wasActive = TRUE]
    /\ UNCHANGED <<panelVars, state, theme, loss, quitting, inputs>>

(* The user leaves the panel by Tab, or a notification takes the keyboard   *)
(* and gives it back; also when the presentation epoch is over and its      *)
(* surfaces could not be destroyed.                                         *)
ReleasePanelKeyboard ==
    /\ Requested
    /\ panel.visible
    /\ Keyboard(ReleaseIfAny)
    /\ UNCHANGED <<state, launcher>>
ReturnNotificationFocusToPanel ==
    /\ Requested
    /\ panel.exists
    /\ Keyboard(RequestKeyboardAccess(panel))
    /\ UNCHANGED <<state, launcher>>

UserStep ==
    \/ OpenLauncher \/ DismissLauncher \/ LauncherActivated
    \/ ReleasePanelKeyboard \/ ReturnNotificationFocusToPanel

SettingsStep == SettingsSnapshot \/ LoseSettingsOwner
ShellStep == (QueryStep /\ UNCHANGED shellVars) \/ Complete \/ DrainEvents \/ HandleX11Loss

Next == (ServerStep /\ UNCHANGED shellVars) \/ SettingsStep \/ UserStep \/ ShellStep

Spec == Init /\ [][Next]_vars
FairSpec == Spec /\ WF_vars(ShellStep)

-----------------------------------------------------------------------------
(* The panel that is shown has the complete dock properties of its own     *)
(* geometry, and a panel without them is hidden and forgotten, whichever   *)
(* request failed and however its rollback went (PanelWindowHost.cpp       *)
(* applyUpdate).                                                           *)
PanelAgrees ==
    panel.exists =>
        /\ panel.visible => /\ panel.applied # None
                            /\ panel.applied = panel.current
                            /\ panel.dock = panel.applied /\ panel.geometry = panel.applied
        /\ ~panel.visible => panel.applied = None
        /\ panel.accepts = panel.keyboard

(* The reservation covers the panel down to the bottom of the root.        *)
ReservationCoversPanel ==
    panel.applied # None =>
        LET p == panel.applied[1] IN
        /\ p.dock.y + p.dock.height = p.output.y + p.output.height
        /\ p.dock.y + p.dock.bottom = p.root.height
        /\ p.dock.y >= p.output.y /\ Contained(p.root, Geometry(p.dock))

(* A launcher that is shown can be dismissed: the state knows of it and    *)
(* its epoch is not over.  Without failures it is shown when asked for.    *)
LauncherAgrees ==
    /\ launcher.shown => state.launcher /\ state.available
    /\ faults = 0 /\ state.launcher => launcher.shown

(* Surfaces and keyboard agree after every sequence of requests, failures  *)
(* and settings (ShellRuntime.cpp executeActions, PanelWindowHost.cpp).    *)
SurfacesAgree == PanelAgrees /\ ReservationCoversPanel /\ LauncherAgrees

(* When nothing is under way and no hint is left unread, the panel is      *)
(* shown where the present outputs put it, at the theme's height; unless   *)
(* they have no room for it, or something failed since.                    *)
UpToDateWhenQuiet ==
    panel.notifier /\ op = Idle /\ wire.socket + wire.buffered = 0 /\ faults = 0 =>
        LET update == Prepare(Observable, panel.height) IN
        /\ theme = panel.height
        /\ Ok(update) => panel.visible /\ panel.applied = update.value.placement

(* A shell whose panel lost its display leaves, or has no panel any more   *)
(* (PanelWindowHost.hpp:27, FatalDisplayShutdown).                         *)
LeavesWithDisplay ==
    ~server.healthy /\ panel.exists ~> quitting \/ ~panel.exists
=============================================================================
