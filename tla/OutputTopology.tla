----------------------------- MODULE OutputTopology -----------------------------
(***************************************************************************)
(* Where the panel goes: from an observation of the outputs to the output  *)
(* that is selected, and from there to the panel's rectangle and the part  *)
(* of the screen that it reserves (src/src/x11 OutputTopology and          *)
(* PanelStrutGeometry, src/src/shell/window PanelWindowController).  Pure  *)
(* operators.                                                              *)
(*                                                                         *)
(* Coordinates come from 16-bit protocol fields, so no sum of two of them  *)
(* leaves the 32 bits the code computes in.                                *)
(***************************************************************************)
EXTENDS Integers, FiniteSets

(* foundation::Result *)
Success(value) == [error |-> "none", value |-> value]
Failure(error) == [error |-> error, value |-> <<>>]
Ok(result) == result.error = "none"

NoOutput == 0

Geometry(c) == [x |-> c.x, y |-> c.y, width |-> c.width, height |-> c.height]
WholeRoot(root) == [x |-> 0, y |-> 0, width |-> root.width, height |-> root.height]

Contained(root, g) ==
    /\ g.x >= 0 /\ g.y >= 0 /\ g.width > 0 /\ g.height > 0
    /\ g.x + g.width <= root.width /\ g.y + g.height <= root.height

(* active: a set of [output, crtc, x, y, width, height].                   *)
WellFormed(root, active) ==
    /\ \A c \in active : Contained(root, c)
    /\ \A c, d \in active :
          /\ c.output = d.output => c = d
          /\ c.crtc = d.crtc => Geometry(c) = Geometry(d)

OrderedBefore(c, d) ==
    \/ c.y < d.y
    \/ c.y = d.y /\ c.x < d.x
    \/ c.y = d.y /\ c.x = d.x /\ c.output <= d.output

AtOrigin(active) == {c \in active : c.x = 0 /\ c.y = 0}

(* The primary output, then the one at the origin, then the first one.     *)
SelectOutput(root, active, primary) ==
    IF active = {} THEN WholeRoot(root)
    ELSE Geometry(
        CASE \E c \in active : c.output = primary ->
                CHOOSE c \in active : c.output = primary
          [] ~(\E c \in active : c.output = primary) /\ AtOrigin(active) # {} ->
                CHOOSE c \in AtOrigin(active) : \A d \in AtOrigin(active) : c.output <= d.output
          [] OTHER -> CHOOSE c \in active : \A d \in active : OrderedBefore(c, d))

(* observation: what one query of RandR yields, or its core-root fallback. *)
BuildOutputTopology(observation) ==
    IF ~observation.randr THEN Success(WholeRoot(observation.root))
    ELSE IF ~WellFormed(observation.root, observation.active) THEN Failure("validation_error")
    ELSE Success(SelectOutput(observation.root, observation.active, observation.primary))

(* The reservation reaches from the panel's top to the bottom of the root. *)
CalculateBottomPanelStrut(root, output, panelHeight) ==
    IF panelHeight = 0 \/ panelHeight > output.height \/ ~Contained(root, output)
    THEN Failure("validation_error")
    ELSE LET panelY == output.y + output.height - panelHeight
         IN  Success([x |-> output.x, y |-> panelY, width |-> output.width, height |-> panelHeight,
                      bottom |-> root.height - panelY,
                      startX |-> output.x, endX |-> output.x + output.width - 1])

(* PanelWindowController::prepare                                          *)
Prepare(observation, panelHeight) ==
    LET topology == BuildOutputTopology(observation)
        dock == CalculateBottomPanelStrut(observation.root, topology.value, panelHeight)
    IN  IF ~Ok(topology) THEN topology
        ELSE IF ~Ok(dock) THEN dock
        ELSE Success([height |-> panelHeight,
                      placement |-> <<[root |-> observation.root, output |-> topology.value,
                                       dock |-> dock.value]>>])
=============================================================================
