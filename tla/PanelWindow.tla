------------------------------ MODULE PanelWindow ------------------------------
(***************************************************************************)
(* The panel's window on X11 (src/src/shell/window/PanelWindowHost) and    *)
(* the RandR queries that place it (src/src/x11/RandrTopology).  A query   *)
(* is many round trips, and the outputs change between any two of them.    *)
(* What is applied must come from one configuration of the server, and the *)
(* dock properties, the geometry and the visibility must agree whatever    *)
(* fails half way.                                                         *)
(*                                                                         *)
(* A reply takes the events before it out of the socket into xcb's buffer; *)
(* only events in the socket wake the shell.                               *)
(***************************************************************************)
EXTENDS OutputTopology

CONSTANTS
    Screens,      \* sizes the root window may have
    Configs,      \* sets of active outputs: [output, crtc, x, y, width, height]
    Statuses,     \* what a negotiation of RandR may yield
    Budget,       \* maximumRootEventsPerDrain
    MaxTrouble    \* bound: changes of the server and failures, of X11 requests,
                  \* of Qt and of the surfaces

(* An output shows one CRTC.                                               *)
ASSUME PanelAssumption ==
    /\ Screens \subseteq [width : Nat, height : Nat]
    /\ \A config \in Configs :
          /\ config \subseteq [output : Nat \ {NoOutput}, crtc : Nat, x : Int, y : Int,
                                width : Nat, height : Nat]
          /\ \A c, d \in config : c.output = d.output => c = d
    /\ Statuses \subseteq {"unavailable", "malformed", "randr_1_2", "randr_1_3", "randr_1_4"}
    /\ Budget \in Nat \ {0} /\ MaxTrouble \in Nat

VARIABLES
    server,    \* root size, outputs and primary; stamp counts configurations
    wire,      \* hints in the socket and in xcb's buffer
    panel,     \* PanelWindowHost, its controller and the QWindow
    op,        \* the operation under way, Idle when none is
    seen,      \* history: configurations since the query began
    faults
panelVars == <<server, wire, panel, op, seen, faults>>

None == <<>>
Partial == <<"some", "set">>    \* dock properties of a publication that failed
Idle == [kind |-> "none"]
NoPanel ==
    [exists |-> FALSE, notifier |-> FALSE, height |-> 0, current |-> None, applied |-> None,
     published |-> FALSE, keyboard |-> FALSE, terminated |-> FALSE,
     visible |-> FALSE, geometry |-> None, accepts |-> FALSE, dock |-> None]

Outputs == {c.output : c \in UNION Configs}
Fits(screen, config) == \A c \in config : Contained(screen, c)
HasPrimary == server.status \in {"randr_1_3", "randr_1_4"}
Selected == server.status \notin {"unavailable", "malformed"}
Configuration ==
    [screen |-> server.screen, active |-> server.active, primary |-> server.primary]

TroubleLeft == server.changes + faults < MaxTrouble
Charge(ok) ==
    IF ok \/ ~server.healthy THEN UNCHANGED faults ELSE TroubleLeft /\ faults' = faults + 1

-----------------------------------------------------------------------------
(* The X server.                                                           *)

ServerInit(status) ==
    \E screen \in Screens, active \in Configs :
        /\ Fits(screen, active)
        /\ server = [status |-> status, screen |-> screen, active |-> active,
                     primary |-> NoOutput, stamp |-> 0, changes |-> 0, healthy |-> TRUE]

(* The shell subscribes to RandR only when it can use it.                  *)
Hint(news) == wire' = IF panel.exists /\ news THEN [wire EXCEPT !.socket = @ + 1] ELSE wire

Change(next, news) ==
    /\ server.healthy /\ TroubleLeft
    /\ server' = [next EXCEPT !.changes = @ + 1]
    /\ seen' = IF op = Idle THEN {} ELSE seen \cup {Configuration'}
    /\ Hint(news)
    /\ UNCHANGED <<panel, op, faults>>

SetScreenSize ==
    \E screen \in Screens \ {server.screen} :
        Fits(screen, server.active) /\ Change([server EXCEPT !.screen = screen], TRUE)
SetOutputs ==
    \E active \in Configs \ {server.active} :
        /\ Fits(server.screen, active)
        /\ Change([server EXCEPT !.active = active, !.stamp = @ + 1], Selected)
SetPrimary ==
    \E output \in (Outputs \cup {NoOutput}) \ {server.primary} :
        Change([server EXCEPT !.primary = output], Selected)

LoseDisplay ==
    /\ server.healthy /\ TroubleLeft
    /\ server' = [server EXCEPT !.healthy = FALSE]
    /\ faults' = faults + 1
    /\ wire' = [wire EXCEPT !.socket = @ + 1]
    /\ UNCHANGED <<panel, op, seen>>

ServerStep == SetScreenSize \/ SetOutputs \/ SetPrimary \/ LoseDisplay

-----------------------------------------------------------------------------
(* DockProperties and applyUpdate.  Each yields the set of its outcomes.   *)

Outcome(ok, p) == [ok |-> ok, panel |-> p]

(* A publication that fails half way removes the properties, if it can.    *)
Publish(p, placement) ==
    IF server.healthy
    THEN {Outcome(TRUE, [p EXCEPT !.dock = placement])}
         \cup {Outcome(FALSE, [p EXCEPT !.dock = d]) : d \in {p.dock, None, Partial}}
    ELSE {Outcome(FALSE, p)}

HideIncoherentWindow(p) ==
    [p EXCEPT !.visible = FALSE, !.published = FALSE, !.applied = None]
ApplyGeometry(p, placement) ==
    [p EXCEPT !.geometry = placement, !.visible = TRUE, !.published = TRUE,
              !.applied = placement]

(* Mutant: a rollback that fails leaves the window as it is.               *)
RollBackAndStay(p) ==
    {IF r.ok THEN ApplyGeometry(r.panel, p.current) ELSE r.panel :
        r \in Publish(p, p.current)}

RollBack(p) ==
    {IF r.ok THEN ApplyGeometry(r.panel, p.current) ELSE HideIncoherentWindow(r.panel) :
        r \in Publish(p, p.current)}

(* Qt may not provide a usable window.                                     *)
WithoutWindow(p) ==
    {HideIncoherentWindow([p EXCEPT !.dock = d]) :
        d \in IF p.published THEN {p.dock, None, Partial} ELSE {p.dock}}

(* Qt gave the window another identity: the old properties stay, and the   *)
(* new ones are removed, if they can be.                                   *)
WindowReplaced(p, placement) ==
    {HideIncoherentWindow([p EXCEPT !.dock = d]) :
        d \in IF p.published /\ server.healthy THEN {placement, None, Partial} ELSE {}}

ApplyUpdate(p, update) ==
    {Outcome(FALSE, q) : q \in WithoutWindow(p) \cup WindowReplaced(p, update.placement)}
    \cup UNION {
        IF r.ok
        THEN {Outcome(TRUE, [ApplyGeometry(r.panel, update.placement)
                                EXCEPT !.height = update.height, !.current = update.placement])}
        ELSE IF p.current # None /\ server.healthy
        THEN {Outcome(FALSE, q) : q \in RollBack(r.panel)}
        ELSE {Outcome(FALSE, HideIncoherentWindow(r.panel))} :
        r \in Publish(p, update.placement)}

ReapplyCurrent(p) ==
    IF p.current = None THEN {Outcome(FALSE, p)}
    ELSE ApplyUpdate(p, [height |-> p.height, placement |-> p.current])

SwitchKeyboard(p, on) ==
    UNION {
        IF r.ok THEN {Outcome(TRUE, [r.panel EXCEPT !.keyboard = on])}
        ELSE {Outcome(FALSE, b.panel) : b \in ReapplyCurrent([r.panel EXCEPT !.accepts = ~on])} :
        r \in ReapplyCurrent([p EXCEPT !.accepts = on])}

RequestKeyboardAccess(p) ==
    IF p.terminated THEN {Outcome(FALSE, p)}
    ELSE IF p.keyboard THEN {Outcome(TRUE, p)} ELSE SwitchKeyboard(p, TRUE)
ReleaseKeyboardAccess(p) ==
    IF p.terminated THEN {Outcome(FALSE, p)}
    ELSE IF ~p.keyboard THEN {Outcome(TRUE, p)} ELSE SwitchKeyboard(p, FALSE)

-----------------------------------------------------------------------------
(* RandrTopologyProtocol::query, one round trip after the other.  It ends  *)
(* in what the operation asked for: see Complete.                          *)

(* Mutant: the events before a reply are discarded.                        *)
DiscardOnRoundTrip ==
    wire' = IF server.healthy THEN [socket |-> 0, buffered |-> 0] ELSE wire

(* The end of a lost connection stays readable.                            *)
RoundTrip ==
    wire' = IF server.healthy THEN [socket |-> 0, buffered |-> wire.buffered + wire.socket]
            ELSE wire

Begin(kind, height) ==
    /\ op' = [kind |-> kind, height |-> height, at |-> "core", attempt |-> 0,
              root |-> server.screen, stamp |-> 0, left |-> {}, crtc |-> 0,
              active |-> {}, primary |-> NoOutput, update |-> None]
    /\ seen' = {Configuration}
End == op' = Idle /\ seen' = {}

Prepared(result) == IF Ok(result) THEN <<result.value>> ELSE None
Go(at) == op' = [op EXCEPT !.at = at]
Finish(observation) ==
    op' = [op EXCEPT !.at = "end", !.update = Prepared(Prepare(observation, op.height))]
Fails == Go("end")
CoreRoot(screen) ==
    [randr |-> FALSE, root |-> screen, active |-> {}, primary |-> NoOutput]
AfterOutputs(left) ==
    IF left # {} THEN "output" ELSE IF HasPrimary THEN "primary" ELSE "confirm"
NextOutput == CHOOSE o \in op.left : \A q \in op.left : o <= q

(* One complete retry after a change, then the core root.                  *)
Malformed == Go("malformed")
Changed == IF op.attempt = 0 THEN Go("again") ELSE Malformed

ReadCore ==
    /\ op.at = "core"
    /\ CASE server.status = "unavailable" -> Finish(CoreRoot(server.screen))
         [] server.status = "malformed" -> Malformed
         [] OTHER -> op' = [op EXCEPT !.at = "resources", !.root = server.screen]

ReadCoreAgain ==
    /\ op.at = "again"
    /\ op' = [op EXCEPT !.at = "resources", !.root = server.screen, !.attempt = 1]

ReadCoreForFallback ==
    /\ op.at = "malformed"
    /\ Finish(CoreRoot(server.screen))

ReadResources ==
    /\ op.at = "resources"
    /\ op' = [op EXCEPT !.at = AfterOutputs(Outputs), !.stamp = server.stamp, !.left = Outputs,
                        !.active = {}, !.primary = NoOutput]

(* A request with an old timestamp may be refused.                         *)
ReadRefused ==
    /\ op.at \in {"output", "crtc"} /\ server.stamp # op.stamp
    /\ Changed

ReadOutputInfo ==
    /\ op.at = "output"
    /\ LET o == NextOutput
           current == {c \in server.active : c.output = o}
       IN  op' = IF current = {}
                 THEN [op EXCEPT !.left = @ \ {o}, !.at = AfterOutputs(op.left \ {o})]
                 ELSE [op EXCEPT !.at = "crtc", !.crtc = (CHOOSE c \in current : TRUE).crtc]

(* A CRTC that does not show the output any more is a malformed reply.     *)
ReadCrtcInfo ==
    /\ op.at = "crtc"
    /\ LET o == NextOutput
           current == {c \in server.active : c.output = o /\ c.crtc = op.crtc}
       IN  IF current = {} THEN Malformed
           ELSE op' = [op EXCEPT !.active = @ \cup current, !.left = @ \ {o},
                                 !.at = AfterOutputs(op.left \ {o})]

ReadPrimary ==
    /\ op.at = "primary"
    /\ op' = [op EXCEPT !.at = "confirm", !.primary = server.primary]

(* Mutant: the outputs are not confirmed.                                  *)
ConfirmNothing ==
    /\ op.at = "confirm"
    /\ Go(IF HasPrimary THEN "confirmPrimary" ELSE "confirmCore")

ConfirmResources ==
    /\ op.at = "confirm"
    /\ IF server.stamp # op.stamp THEN Changed
       ELSE Go(IF HasPrimary THEN "confirmPrimary" ELSE "confirmCore")

ConfirmPrimary ==
    /\ op.at = "confirmPrimary"
    /\ IF server.primary # op.primary THEN Changed ELSE Go("confirmCore")

ConfirmCore ==
    /\ op.at = "confirmCore"
    /\ IF server.screen = op.root
       THEN Finish([randr |-> TRUE, root |-> op.root, active |-> op.active,
                    primary |-> op.primary])
       ELSE IF op.attempt = 0
       THEN op' = [op EXCEPT !.at = "resources", !.root = server.screen, !.attempt = 1]
       ELSE Malformed

Reads ==
    \/ ReadCore \/ ReadCoreAgain \/ ReadCoreForFallback
    \/ ReadResources \/ ReadRefused \/ ReadOutputInfo \/ ReadCrtcInfo \/ ReadPrimary
    \/ ConfirmResources \/ ConfirmPrimary \/ ConfirmCore

(* Any reply may be an error or malformed.  Without the root's size the    *)
(* query fails.                                                            *)
ReplyMalformed ==
    /\ server.healthy /\ Charge(FALSE)
    /\ IF op.at \in {"core", "again", "malformed", "confirmCore"} THEN Fails ELSE Malformed

QueryStep ==
    /\ op # Idle /\ op.at # "end"
    /\ RoundTrip
    /\ \/ (IF server.healthy THEN Reads ELSE Fails) /\ UNCHANGED faults
       \/ ReplyMalformed
    /\ UNCHANGED <<server, panel, seen>>

(* refreshTopology and setPanelHeight after their query.                   *)
Placeable == op.update # None
Placed ==
    IF Placeable THEN ApplyUpdate(panel, op.update[1])
    ELSE {Outcome(FALSE, panel)}

-----------------------------------------------------------------------------
(* What the panel shows was computed from outputs and a primary that the   *)
(* server had at one moment since the query began, on a root it had, or is *)
(* the whole of such a root; whatever changed between the reads            *)
(* (RandrTopology.cpp query, queryTopologyAttempt).                        *)
FromOneMoment(placement) ==
    \E c \in seen :
        /\ placement[1].root = c.screen
        /\ \/ placement[1].output = WholeRoot(c.screen)
           \/ \E d \in seen :
                 placement[1].output =
                     SelectOutput(c.screen, d.active, IF HasPrimary THEN d.primary ELSE NoOutput)

PlacedFromOneMoment ==
    [][panel'.current \notin {panel.current, None} => FromOneMoment(panel'.current)]_panelVars

(* The configuration as a query without changes would report it.           *)
Observable ==
    IF ~Selected THEN CoreRoot(server.screen)
    ELSE [randr |-> TRUE, root |-> server.screen, active |-> server.active,
          primary |-> IF HasPrimary THEN server.primary ELSE NoOutput]
=============================================================================
