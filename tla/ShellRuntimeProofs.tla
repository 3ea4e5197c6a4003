---------------------------- MODULE ShellRuntimeProofs ----------------------------
(***************************************************************************)
(* Proofs about the panel and the shell's surfaces, for every set of       *)
(* screens, outputs and heights and any number of changes, failures and    *)
(* inputs: what is placed comes from one moment of the server, the         *)
(* reservation covers it, dock properties, geometry, visibility, keyboard  *)
(* and launcher agree, and a panel at rest is where the present outputs    *)
(* put it.                                                                 *)
(***************************************************************************)
EXTENDS ShellRuntime, WellFoundedInduction, TLAPS

-----------------------------------------------------------------------------
(* Where the panel goes.                                                   *)

Entries == [output : Nat \ {NoOutput}, crtc : Nat, x : Int, y : Int, width : Nat, height : Nat]
Sizes == [width : Nat, height : Nat]

(* A set of numbers has a least one, which is how the code's sort of the   *)
(* outputs always has a first (OutputTopology.cpp orderedBefore).          *)
LEMMA LeastNumber == ASSUME NEW T, T \subseteq Nat, T # {}
                     PROVE  \E m \in T : \A n \in T : m <= n
<1> DEFINE R == OpToRel(<, Nat)
<1>1. \E x \in T : \A y \in T : ~ (<<y, x>> \in R)
  <2>1. IsWellFoundedOn(R, Nat)
    BY NatLessThanWellFounded, Zenon
  <2> HIDE DEF R
  <2> QED BY <2>1, WFMin, Zenon
<1>2. \A x \in Nat, y \in Nat : y < x => <<y, x>> \in R
  BY DEF OpToRel
<1>3. PICK m \in T : \A y \in T : ~ (<<y, m>> \in R)
  BY <1>1, Zenon
<1>4. ASSUME NEW n \in T PROVE m <= n
  <2>1. n \in Nat /\ m \in Nat
    OBVIOUS
  <2>2. ~ (n < m)
    BY <1>2, <1>3, <2>1, Zenon
  <2> QED BY <2>1, <2>2
<1> QED BY <1>4

(* Of outputs inside the root one comes first from the top, then from the  *)
(* left, then by its number.                                               *)
LEMMA FirstOutput ==
    ASSUME NEW S, S \subseteq Entries, S # {}, \A c \in S : c.x >= 0 /\ c.y >= 0
    PROVE  \E c \in S : \A d \in S : OrderedBefore(c, d)
<1> DEFINE Ys == {c.y : c \in S}
<1>1. PICK y \in Ys : \A z \in Ys : y <= z
  <2>1. Ys \subseteq Nat /\ Ys # {}
    BY DEF Entries
  <2> HIDE DEF Ys
  <2> QED BY <2>1, LeastNumber
<1> DEFINE Row == {c \in S : c.y = y}
           Xs == {c.x : c \in Row}
<1>2. PICK x \in Xs : \A z \in Xs : x <= z
  <2>1. Xs \subseteq Nat /\ Xs # {}
    BY <1>1 DEF Entries
  <2> HIDE DEF Xs
  <2> QED BY <2>1, LeastNumber
<1> DEFINE Corner == {c \in Row : c.x = x}
           Numbers == {c.output : c \in Corner}
<1>3. PICK o \in Numbers : \A z \in Numbers : o <= z
  <2>1. Numbers \subseteq Nat /\ Numbers # {}
    BY <1>2 DEF Entries
  <2> HIDE DEF Numbers
  <2> QED BY <2>1, LeastNumber
<1>4. PICK c \in Corner : c.output = o
  BY <1>3
<1>5. ASSUME NEW d \in S PROVE OrderedBefore(c, d)
  <2>1. c \in S /\ c.y = y /\ c.x = x
    BY <1>4
  <2>2. c.y <= d.y
    BY <1>1, <2>1
  <2>3. d.y = c.y => c.x <= d.x
    BY <1>2, <2>1
  <2>4. d.y = c.y /\ d.x = c.x => c.output <= d.output
    BY <1>3, <1>4, <2>1
  <2> QED BY <2>1, <2>2, <2>3, <2>4 DEF OrderedBefore, Entries
<1> QED BY <1>4, <1>5

(* The output that is selected is the root or a rectangle that was         *)
(* reported.                                                               *)
LEMMA SelectionIsARectangle ==
    ASSUME NEW root \in Sizes, NEW active, active \subseteq Entries, WellFormed(root, active),
           NEW primary
    PROVE  SelectOutput(root, active, primary) \in [x : Int, y : Int, width : Int, height : Int]
<1>1. CASE active = {}
  BY <1>1 DEF SelectOutput, WholeRoot, Sizes
<1>2. CASE active # {}
  <2> DEFINE Named == {c \in active : c.output = primary}
             Zero == AtOrigin(active)
             first == CHOOSE c \in active : \A d \in active : OrderedBefore(c, d)
             least == CHOOSE c \in Zero : \A d \in Zero : c.output <= d.output
             named == CHOOSE c \in active : c.output = primary
  <2>1. first \in active
    <3>1. \A c \in active : c.x >= 0 /\ c.y >= 0
      BY DEF WellFormed, Contained
    <3> QED BY <1>2, <3>1, FirstOutput
  <2>2. Zero # {} => least \in active
    <3> HAVE Zero # {}
    <3> DEFINE Numbers == {c.output : c \in Zero}
    <3>1. PICK o \in Numbers : \A z \in Numbers : o <= z
      <4>1. Numbers \subseteq Nat /\ Numbers # {}
        BY DEF Entries, AtOrigin
      <4> HIDE DEF Numbers
      <4> QED BY <4>1, LeastNumber
    <3>2. PICK c \in Zero : c.output = o
      BY <3>1
    <3>3. \A d \in Zero : c.output <= d.output
      BY <3>1, <3>2
    <3>4. least \in Zero
      BY <3>2, <3>3
    <3> QED BY <3>4 DEF AtOrigin
  <2>3. Named # {} => named \in active
    OBVIOUS
  <2>4. \E c \in active : SelectOutput(root, active, primary) = Geometry(c)
    <3> HIDE DEF first
    <3>1. CASE Named # {}
      <4>1. SelectOutput(root, active, primary) = Geometry(named)
        BY <1>2, <3>1, Zenon DEF SelectOutput
      <4> QED BY <4>1, <3>1, <2>3
    <3>2. CASE Named = {} /\ Zero # {}
      <4>1. ~ \E c \in active : c.output = primary
        BY <3>2
      <4>2. SelectOutput(root, active, primary) = Geometry(least)
        BY <1>2, <3>2, <4>1 DEF SelectOutput
      <4> QED BY <4>2, <3>2, <2>2
    <3>3. CASE Named = {} /\ Zero = {}
      <4>1. ~ \E c \in active : c.output = primary
        BY <3>3
      <4>2. SelectOutput(root, active, primary) = Geometry(first)
        BY <1>2, <3>3, <4>1 DEF SelectOutput, first
      <4> QED BY <4>2, <2>1
    <3> QED BY <3>1, <3>2, <3>3
  <2> QED BY <2>4 DEF Geometry, Entries
<1> QED BY <1>1, <1>2

(* A placement whose reservation covers the panel down to the bottom of    *)
(* the root.                                                               *)
Covers(placement) ==
    LET p == placement[1] IN
    /\ p.dock.y + p.dock.height = p.output.y + p.output.height
    /\ p.dock.y + p.dock.bottom = p.root.height
    /\ p.dock.y >= p.output.y /\ Contained(p.root, Geometry(p.dock))

(* The reservation of a panel that fits its output                         *)
(* (PanelStrutGeometry.cpp calculateBottomPanelStrut).                     *)
LEMMA ReservationCovers ==
    ASSUME NEW root \in Sizes, NEW output \in [x : Int, y : Int, width : Int, height : Int],
           NEW h \in Nat, NEW dock, dock = CalculateBottomPanelStrut(root, output, h), Ok(dock)
    PROVE  Covers(<<[root |-> root, output |-> output, dock |-> dock.value]>>)
<1>1. /\ h # 0 /\ h <= output.height /\ Contained(root, output)
      /\ dock.value = [x |-> output.x, y |-> output.y + output.height - h,
                       width |-> output.width, height |-> h,
                       bottom |-> root.height - (output.y + output.height - h),
                       startX |-> output.x, endX |-> output.x + output.width - 1]
  BY DEF CalculateBottomPanelStrut, Ok, Success, Failure
<1> DEFINE d == dock.value
<1>2. d.y = output.y + output.height - h /\ d.height = h /\ d.x = output.x
      /\ d.width = output.width /\ d.bottom = root.height - (output.y + output.height - h)
  BY <1>1
<1> HIDE DEF d
<1>3. Contained(root, Geometry(d))
  BY <1>1, <1>2 DEF Contained, Geometry, Sizes
<1>4. /\ d.y + d.height = output.y + output.height
      /\ d.y + d.bottom = root.height /\ d.y >= output.y
  BY <1>1, <1>2 DEF Sizes
<1>5. Covers(<<[root |-> root, output |-> output, dock |-> d]>>)
  BY <1>3, <1>4 DEF Covers
<1> QED BY <1>5 DEF d

(* What prepare makes of an observation: a placement on the observed root, *)
(* on the output it selects (PanelWindowController.cpp prepare).           *)
LEMMA PreparedPlacement ==
    ASSUME NEW obs, obs.root \in Sizes, obs.active \subseteq Entries, NEW h \in Nat,
           NEW update, update = Prepared(Prepare(obs, h)), update # None
    PROVE  /\ update[1].height = h
           /\ update[1].placement # None
           /\ Covers(update[1].placement)
           /\ update[1].placement[1].root = obs.root
           /\ update[1].placement[1].output =
                 IF obs.randr THEN SelectOutput(obs.root, obs.active, obs.primary)
                 ELSE WholeRoot(obs.root)
<1> DEFINE topology == BuildOutputTopology(obs)
           output == IF obs.randr THEN SelectOutput(obs.root, obs.active, obs.primary)
                     ELSE WholeRoot(obs.root)
           dock == CalculateBottomPanelStrut(obs.root, topology.value, h)
           place == <<[root |-> obs.root, output |-> topology.value, dock |-> dock.value]>>
<1>1. Ok(topology) /\ Ok(dock) /\ update = <<[height |-> h, placement |-> place]>>
  <2> HIDE DEF topology, dock
  <2> DEFINE t == topology
             d == dock
  <2>1. Prepare(obs, h) = IF ~Ok(topology) THEN topology
                          ELSE IF ~Ok(dock) THEN dock
                          ELSE Success([height |-> h, placement |-> place])
    BY DEF Prepare, topology, dock
  <2>2. Ok(Prepare(obs, h)) /\ update = <<Prepare(obs, h).value>>
    BY DEF Prepared
  <2>3. Ok(topology) /\ Ok(dock)
    BY <2>1, <2>2
  <2>4. Prepare(obs, h) = Success([height |-> h, placement |-> place])
    BY <2>1, <2>3
  <2> HIDE DEF place
  <2> QED BY <2>2, <2>3, <2>4 DEF Success
<1>2. topology.value = output /\ (obs.randr => WellFormed(obs.root, obs.active))
  BY <1>1 DEF BuildOutputTopology, Ok, Success, Failure
<1>3. output \in [x : Int, y : Int, width : Int, height : Int]
  <2>1. CASE obs.randr
    BY <2>1, <1>2, SelectionIsARectangle
  <2>2. CASE ~obs.randr
    BY <2>2 DEF WholeRoot, Sizes
  <2> QED BY <2>1, <2>2
<1> HIDE DEF output
<1>4. Covers(place)
  <2> HIDE DEF topology
  <2>1. topology.value \in [x : Int, y : Int, width : Int, height : Int]
    BY <1>2, <1>3
  <2> QED BY <2>1, <1>1, ReservationCovers
<1>5. place[1].root = obs.root /\ place[1].output = output /\ place # None
  BY <1>2 DEF None
<1> HIDE DEF place
<1>6. update[1].placement = place /\ update[1].height = h
  BY <1>1
<1> QED BY <1>4, <1>5, <1>6 DEF output

-----------------------------------------------------------------------------
(* The panel's window.                                                     *)

Fields ==
    {"exists", "notifier", "height", "current", "applied", "published", "keyboard",
     "terminated", "visible", "geometry", "accepts", "dock"}

(* Of a window in the middle of an operation.                              *)
Sound(p) ==
    /\ DOMAIN p = Fields
    /\ p.height \in Nat
    /\ p.current # None => Covers(p.current)

(* What every operation of the host leaves behind: a window that is shown  *)
(* has the dock properties and the geometry of what is current, and one    *)
(* that is hidden has nothing applied.                                     *)
Coherent(p) ==
    /\ Sound(p)
    /\ p.visible \in {TRUE, FALSE}
    /\ p.visible = TRUE => /\ p.applied # None
                           /\ p.applied = p.current
                           /\ p.dock = p.applied /\ p.geometry = p.applied
    /\ p.visible = FALSE => p.applied = None

(* What no update of the placement changes.                                *)
SameKeyboard(p, q) == q.keyboard = p.keyboard /\ q.accepts = p.accepts

(* No window, nothing that could disagree.                                 *)
LEMMA NoPanelIsCoherent == /\ Coherent(NoPanel) /\ NoPanel.accepts = NoPanel.keyboard
                           /\ NoPanel.current = None
  BY DEF Coherent, Sound, NoPanel, Fields

(* A window that is hidden shows no placement.                             *)
LEMMA HiddenIsCoherent ==
    ASSUME NEW p, Sound(p), NEW q, q = HideIncoherentWindow(p)
    PROVE  Coherent(q) /\ SameKeyboard(p, q) /\ q.current = p.current
  BY DEF Coherent, Sound, HideIncoherentWindow, Fields, SameKeyboard

Accepted(p, h, l) == [ApplyGeometry(p, l) EXCEPT !.height = h, !.current = l]

(* The placement follows dock properties that were published for it.       *)
LEMMA AcceptedIsCoherent ==
    ASSUME NEW p, Sound(p), NEW l, Covers(l), l # None, p.dock = l, NEW h \in Nat,
           NEW q, q = Accepted(p, h, l)
    PROVE  Coherent(q) /\ SameKeyboard(p, q) /\ q.current = l
  BY DEF Coherent, Sound, Accepted, ApplyGeometry, Fields, SameKeyboard

(* The placement that was current is applied again.                        *)
LEMMA ReappliedIsCoherent ==
    ASSUME NEW p, Sound(p), p.current # None, p.dock = p.current,
           NEW q, q = ApplyGeometry(p, p.current)
    PROVE  Coherent(q) /\ SameKeyboard(p, q) /\ q.current = p.current
  BY DEF Coherent, Sound, ApplyGeometry, Fields, SameKeyboard

(* Dock properties alone.                                                  *)
LEMMA DockChanged ==
    ASSUME NEW p, Sound(p), NEW d, NEW q, q = [p EXCEPT !.dock = d]
    PROVE  /\ Sound(q) /\ SameKeyboard(p, q) /\ q.current = p.current /\ q.dock = d
  BY DEF Sound, Fields, SameKeyboard

(* A publication changes the dock properties alone, and on success they    *)
(* are those of the placement (DockProperties.cpp publish).                *)
LEMMA PublishOutcomes ==
    ASSUME NEW p, Sound(p), NEW l, NEW r \in Publish(p, l)
    PROVE  /\ Sound(r.panel) /\ SameKeyboard(p, r.panel) /\ r.panel.current = p.current
           /\ r.ok = TRUE \/ r.ok = FALSE
           /\ r.ok = TRUE => r.panel.dock = l
<1>1. CASE r = Outcome(FALSE, p)
  BY <1>1 DEF Outcome, SameKeyboard
<1>2. CASE r = Outcome(TRUE, [p EXCEPT !.dock = l])
  <2>1. r.panel = [p EXCEPT !.dock = l] /\ r.ok = TRUE
    BY <1>2 DEF Outcome
  <2> QED BY <2>1, DockChanged
<1>3. ASSUME NEW d, r = Outcome(FALSE, [p EXCEPT !.dock = d])
      PROVE  /\ Sound(r.panel) /\ SameKeyboard(p, r.panel) /\ r.panel.current = p.current
             /\ r.ok = FALSE
  <2>1. r.panel = [p EXCEPT !.dock = d] /\ r.ok = FALSE
    BY <1>3 DEF Outcome
  <2> QED BY <2>1, DockChanged
<1>4. \/ r = Outcome(FALSE, p) \/ r = Outcome(TRUE, [p EXCEPT !.dock = l])
      \/ \E d : r = Outcome(FALSE, [p EXCEPT !.dock = d])
  BY DEF Publish
<1> QED BY <1>1, <1>2, <1>3, <1>4

(* The end of an operation on the placement: the window is coherent and    *)
(* has either the placement it had or the one it was to get.               *)
Settled(p, l, r) ==
    /\ Coherent(r.panel) /\ SameKeyboard(p, r.panel)
    /\ r.ok = TRUE \/ r.ok = FALSE
    /\ r.panel.current = p.current \/ r.panel.current = l

(* Whatever fails half way, an update ends settled (PanelWindowHost.cpp    *)
(* applyUpdate).                                                           *)
LEMMA UpdateSettles ==
    ASSUME NEW p, Sound(p), NEW h \in Nat, NEW l, Covers(l), l # None,
           NEW update, update.height = h, update.placement = l,
           NEW r \in ApplyUpdate(p, update)
    PROVE  Settled(p, l, r)
<1>1. ASSUME NEW q \in WithoutWindow(p) \cup WindowReplaced(p, l), r = Outcome(FALSE, q)
      PROVE  Settled(p, l, r)
  <2>1. PICK d : q = HideIncoherentWindow([p EXCEPT !.dock = d])
    BY DEF WithoutWindow, WindowReplaced
  <2> DEFINE s == [p EXCEPT !.dock = d]
  <2>2. Sound(s) /\ SameKeyboard(p, s) /\ s.current = p.current
    BY DockChanged
  <2> HIDE DEF s
  <2>3. q = HideIncoherentWindow(s)
    BY <2>1 DEF s
  <2>4. Coherent(q) /\ SameKeyboard(s, q) /\ q.current = s.current
    BY <2>2, <2>3, HiddenIsCoherent
  <2>5. r.ok = FALSE /\ r.panel = q
    BY <1>1 DEF Outcome
  <2> QED BY <2>2, <2>4, <2>5 DEF Settled, SameKeyboard
<1>2. ASSUME NEW s \in Publish(p, l), s.ok = TRUE,
             r = Outcome(TRUE, Accepted(s.panel, h, l))
      PROVE  Settled(p, l, r)
  <2>1. Sound(s.panel) /\ SameKeyboard(p, s.panel) /\ s.panel.dock = l
    BY <1>2, PublishOutcomes
  <2>2. r.ok = TRUE /\ r.panel = Accepted(s.panel, h, l)
    BY <1>2 DEF Outcome
  <2>3. Coherent(r.panel) /\ SameKeyboard(s.panel, r.panel) /\ r.panel.current = l
    BY <2>1, <2>2, AcceptedIsCoherent
  <2> QED BY <2>1, <2>2, <2>3 DEF Settled, SameKeyboard
<1>3. ASSUME NEW s \in Publish(p, l), NEW q \in RollBack(s.panel), p.current # None,
             r = Outcome(FALSE, q)
      PROVE  Settled(p, l, r)
  <2>1. Sound(s.panel) /\ SameKeyboard(p, s.panel) /\ s.panel.current = p.current
    BY PublishOutcomes
  <2>2. PICK t \in Publish(s.panel, s.panel.current) :
           q = IF t.ok THEN ApplyGeometry(t.panel, s.panel.current)
               ELSE HideIncoherentWindow(t.panel)
    BY DEF RollBack
  <2>3. /\ Sound(t.panel) /\ SameKeyboard(s.panel, t.panel) /\ t.panel.current = p.current
        /\ t.ok = TRUE \/ t.ok = FALSE
        /\ t.ok = TRUE => t.panel.dock = p.current
    BY <2>1, PublishOutcomes
  <2>4. Coherent(q) /\ SameKeyboard(t.panel, q) /\ q.current = p.current
    <3>1. CASE t.ok = TRUE
      <4>1. q = ApplyGeometry(t.panel, t.panel.current)
        BY <2>1, <2>2, <2>3, <3>1
      <4> QED BY <4>1, <2>3, <3>1, <1>3, ReappliedIsCoherent
    <3>2. CASE t.ok = FALSE
      <4>1. q = HideIncoherentWindow(t.panel)
        BY <2>2, <3>2
      <4> QED BY <4>1, <2>3, HiddenIsCoherent
    <3> QED BY <2>3, <3>1, <3>2
  <2>5. r.ok = FALSE /\ r.panel = q
    BY <1>3 DEF Outcome
  <2> QED BY <2>1, <2>3, <2>4, <2>5 DEF Settled, SameKeyboard
<1>4. ASSUME NEW s \in Publish(p, l), r = Outcome(FALSE, HideIncoherentWindow(s.panel))
      PROVE  Settled(p, l, r)
  <2>1. Sound(s.panel) /\ SameKeyboard(p, s.panel) /\ s.panel.current = p.current
    BY PublishOutcomes
  <2>2. r.ok = FALSE /\ r.panel = HideIncoherentWindow(s.panel)
    BY <1>4 DEF Outcome
  <2>3. Coherent(r.panel) /\ SameKeyboard(s.panel, r.panel) /\ r.panel.current = s.panel.current
    BY <2>1, <2>2, HiddenIsCoherent
  <2> QED BY <2>1, <2>2, <2>3 DEF Settled, SameKeyboard
<1>5. CASE \E q \in WithoutWindow(p) \cup WindowReplaced(p, l) : r = Outcome(FALSE, q)
  BY <1>1, <1>5
<1>6. ASSUME NEW s \in Publish(p, l),
             r \in IF s.ok
                   THEN {Outcome(TRUE, Accepted(s.panel, h, l))}
                   ELSE IF p.current # None /\ server.healthy
                   THEN {Outcome(FALSE, q) : q \in RollBack(s.panel)}
                   ELSE {Outcome(FALSE, HideIncoherentWindow(s.panel))}
      PROVE  Settled(p, l, r)
  <2>1. s.panel.current = p.current /\ (s.ok = TRUE \/ s.ok = FALSE)
    BY PublishOutcomes
  <2>2. CASE s.ok = TRUE
    <3>1. r = Outcome(TRUE, Accepted(s.panel, h, l))
      BY <1>6, <2>2
    <3> QED BY <3>1, <2>2, <1>2
  <2>3. CASE s.ok = FALSE
    <3>1. \/ p.current # None /\ \E q \in RollBack(s.panel) : r = Outcome(FALSE, q)
          \/ r = Outcome(FALSE, HideIncoherentWindow(s.panel))
      BY <1>6, <2>1, <2>3
    <3> QED BY <3>1, <1>3, <1>4
  <2> QED BY <2>1, <2>2, <2>3
<1> QED BY <1>5, <1>6 DEF ApplyUpdate, Accepted

(* So does a placement that is applied again.                              *)
LEMMA ReapplySettles ==
    ASSUME NEW p, Coherent(p), NEW r \in ReapplyCurrent(p)
    PROVE  Settled(p, p.current, r)
<1>1. CASE p.current = None
  <2>1. r = Outcome(FALSE, p)
    BY <1>1 DEF ReapplyCurrent
  <2> QED BY <2>1 DEF Outcome, Settled, SameKeyboard
<1>2. CASE p.current # None
  <2> DEFINE update == [height |-> p.height, placement |-> p.current]
  <2>1. r \in ApplyUpdate(p, update)
    BY <1>2 DEF ReapplyCurrent
  <2>2. update.height = p.height /\ update.placement = p.current
    OBVIOUS
  <2>3. Sound(p) /\ Covers(p.current) /\ p.height \in Nat
    BY <1>2 DEF Coherent, Sound
  <2> HIDE DEF update
  <2> QED BY <1>2, <2>1, <2>2, <2>3, UpdateSettles
<1> QED BY <1>1, <1>2

(* The window accepts the keyboard exactly when the controller says so.    *)
KeyboardAgrees(p) ==
    \/ p.keyboard = TRUE /\ p.accepts = TRUE
    \/ p.keyboard = FALSE /\ p.accepts = FALSE

(* What the window accepts alone.                                          *)
LEMMA AcceptsChanged ==
    ASSUME NEW p, Coherent(p), NEW on, NEW q, q = [p EXCEPT !.accepts = on]
    PROVE  /\ Coherent(q) /\ q.accepts = on
           /\ q.keyboard = p.keyboard /\ q.current = p.current
  BY DEF Coherent, Sound, Fields

(* What the server was asked for alone.                                    *)
LEMMA KeyboardChanged ==
    ASSUME NEW p, Coherent(p), NEW on, NEW q, q = [p EXCEPT !.keyboard = on]
    PROVE  /\ Coherent(q) /\ q.keyboard = on
           /\ q.accepts = p.accepts /\ q.current = p.current
  BY DEF Coherent, Sound, Fields

(* What a change of the keyboard's owner leaves behind.                    *)
KeyboardSettled(p, r) ==
    /\ Coherent(r.panel) /\ KeyboardAgrees(r.panel)
    /\ r.panel.current = p.current
    /\ r.ok = TRUE \/ r.ok = FALSE

(* The flag goes back when the reservation could not be applied with it    *)
(* (PanelWindowHost.cpp setKeyboardAccess).                                *)
LEMMA SwitchSettles ==
    ASSUME NEW p, Coherent(p), NEW on \in BOOLEAN, NEW off \in BOOLEAN, off = ~on,
           p.keyboard = off, NEW r \in SwitchKeyboard(p, on)
    PROVE  KeyboardSettled(p, r)
<1> DEFINE a == [p EXCEPT !.accepts = on]
<1>1. /\ Coherent(a) /\ a.accepts = on
      /\ a.keyboard = p.keyboard /\ a.current = p.current
  BY AcceptsChanged
<1>2. PICK s \in ReapplyCurrent(a) :
         r \in IF s.ok THEN {Outcome(TRUE, [s.panel EXCEPT !.keyboard = on])}
               ELSE {Outcome(FALSE, b.panel) :
                        b \in ReapplyCurrent([s.panel EXCEPT !.accepts = ~on])}
  BY DEF SwitchKeyboard
<1> HIDE DEF a
<1>3. Settled(a, a.current, s)
  BY <1>1, ReapplySettles
<1>4. /\ Coherent(s.panel) /\ s.panel.current = p.current
      /\ s.panel.keyboard = off /\ s.panel.accepts = on
      /\ s.ok = TRUE \/ s.ok = FALSE
  BY <1>1, <1>3 DEF Settled, SameKeyboard
<1>5. CASE s.ok = TRUE
  <2> DEFINE q == [s.panel EXCEPT !.keyboard = on]
  <2>1. Coherent(q) /\ q.keyboard = on /\ q.accepts = on /\ q.current = p.current
    BY <1>4, KeyboardChanged
  <2>2. r = Outcome(TRUE, q)
    BY <1>2, <1>5
  <2> HIDE DEF q
  <2> QED BY <2>1, <2>2 DEF Outcome, KeyboardSettled, KeyboardAgrees
<1>6. CASE s.ok = FALSE
  <2> DEFINE t == [s.panel EXCEPT !.accepts = off]
  <2>1. Coherent(t) /\ t.keyboard = off /\ t.accepts = off /\ t.current = p.current
    <3>1. /\ Coherent(t) /\ t.accepts = off
          /\ t.keyboard = s.panel.keyboard /\ t.current = s.panel.current
      <4> HIDE <1>3
      <4> QED BY <1>4, AcceptsChanged
    <3> QED BY <3>1, <1>4
  <2>2. (~on) = off
    OBVIOUS
  <2>3. \E b \in ReapplyCurrent(t) : r = Outcome(FALSE, b.panel)
    BY <1>2, <1>6, <2>2
  <2>4. PICK b \in ReapplyCurrent(t) : r = Outcome(FALSE, b.panel)
    BY <2>3
  <2> HIDE DEF t
  <2>5. Settled(t, t.current, b)
    BY <2>1, ReapplySettles
  <2>6. r.panel = b.panel /\ r.ok = FALSE
    BY <2>4 DEF Outcome
  <2> QED BY <2>1, <2>5, <2>6 DEF Settled, SameKeyboard, KeyboardSettled, KeyboardAgrees
<1> QED BY <1>4, <1>5, <1>6

(* A request, or a release, with all its failures.                         *)
LEMMA KeyboardSettles ==
    ASSUME NEW p, Coherent(p), KeyboardAgrees(p), NEW r,
           r \in RequestKeyboardAccess(p) \/ r \in ReleaseKeyboardAccess(p)
    PROVE  KeyboardSettled(p, r)
<1>1. CASE r = Outcome(FALSE, p) \/ r = Outcome(TRUE, p)
  BY <1>1 DEF Outcome, KeyboardSettled
<1>2. CASE p.keyboard = FALSE /\ r \in SwitchKeyboard(p, TRUE)
  <2>1. PICK on \in BOOLEAN, off \in BOOLEAN : on = TRUE /\ off = FALSE /\ off = ~on
    OBVIOUS
  <2>2. p.keyboard = off /\ r \in SwitchKeyboard(p, on)
    BY <1>2, <2>1
  <2> QED BY <2>1, <2>2, SwitchSettles
<1>3. CASE p.keyboard = TRUE /\ r \in SwitchKeyboard(p, FALSE)
  <2>1. PICK on \in BOOLEAN, off \in BOOLEAN : on = FALSE /\ off = TRUE /\ off = ~on
    OBVIOUS
  <2>2. p.keyboard = off /\ r \in SwitchKeyboard(p, on)
    BY <1>3, <2>1
  <2> QED BY <2>1, <2>2, SwitchSettles
<1> QED BY <1>1, <1>2, <1>3 DEF RequestKeyboardAccess, ReleaseKeyboardAccess, KeyboardAgrees

-----------------------------------------------------------------------------
(* The inductive invariant.                                                *)

ServerFields == {"status", "screen", "active", "primary", "stamp", "changes", "healthy"}
OpFields ==
    {"kind", "height", "at", "attempt", "root", "stamp", "left", "crtc", "active", "primary",
     "update"}

(* A lost display is a failure.                                            *)
ServerInv ==
    /\ DOMAIN server = ServerFields
    /\ server.screen \in Screens /\ server.active \in Configs /\ server.stamp \in Nat
    /\ server.healthy = TRUE \/ server.healthy = FALSE
    /\ faults \in Nat
    /\ server.healthy = FALSE => faults # 0

PanelInv == Coherent(panel) /\ KeyboardAgrees(panel)

LauncherInv ==
    /\ state \in [available : BOOLEAN, launcher : BOOLEAN, stopping : BOOLEAN]
    /\ launcher \in [shown : BOOLEAN, wasActive : BOOLEAN]
    /\ theme \in Nat
    /\ LauncherAgrees

(* The server had these outputs and this primary at one moment.            *)
SeenTogether(active, primary) ==
    \E d \in seen :
        /\ d.active = active
        /\ primary = IF HasPrimary THEN d.primary ELSE NoOutput

ReadOf(left) == {c \in server.active : c.output \notin left}

(* While the server still has the outputs that the resources named, what   *)
(* was read is what it has, but for the outputs that are left; what is     *)
(* confirmed existed at one moment; and what was prepared comes from it.   *)
QueryInv ==
    op # Idle =>
        /\ DOMAIN op = OpFields
        /\ op.height \in Nat /\ op.root \in Screens /\ op.active \subseteq Entries
        /\ op.stamp \in Nat /\ op.stamp <= server.stamp
        /\ Configuration \in seen
        /\ op.at \in {"output", "crtc", "primary"} => op.primary = NoOutput
        /\ op.at \in {"primary", "confirm"} => op.left = {}
        /\ op.at = "primary" => HasPrimary
        /\ op.at \in {"output", "crtc", "primary"} /\ op.stamp = server.stamp =>
              op.active = ReadOf(op.left)
        /\ op.at = "crtc" /\ op.stamp = server.stamp =>
              \A c \in server.active : c.output = NextOutput => c.crtc = op.crtc
        /\ op.at = "confirm" /\ op.stamp = server.stamp => SeenTogether(op.active, op.primary)
        /\ op.at \in {"confirmPrimary", "confirmCore"} => SeenTogether(op.active, op.primary)
        /\ op.update # None =>
              /\ op.update[1].height \in Nat
              /\ op.update[1].placement # None
              /\ Covers(op.update[1].placement)
              /\ FromOneMoment(op.update[1].placement)

IInv == ServerInv /\ PanelInv /\ LauncherInv /\ QueryInv

(* What the assumptions on the constants say of the server's state.        *)
LEMMA ServerTyped ==
    ASSUME ServerInv
    PROVE  /\ server.screen \in Sizes
           /\ server.active \subseteq Entries
           /\ \A c, d \in server.active : c.output = d.output => c = d
  BY PanelAssumption DEF ServerInv, Sizes, Entries

(* A query begins with the configuration of the moment.                    *)
LEMMA BeginStarts ==
    ASSUME ServerInv, NEW kind, NEW h \in Nat, Begin(kind, h), UNCHANGED server
    PROVE  QueryInv'
<1>1. /\ op'.height = h /\ op'.root = server.screen /\ op'.stamp = 0 /\ op'.active = {}
      /\ op'.at = "core" /\ op'.update = None /\ DOMAIN op' = OpFields
      /\ seen' = {Configuration}
  BY DEF Begin, OpFields
<1>2. Configuration' = Configuration
  BY DEF Configuration
<1> QED BY <1>1, <1>2 DEF QueryInv, ServerInv

(* A query that has ended says nothing.                                    *)
LEMMA EndEnds == ASSUME End PROVE QueryInv'
  BY DEF End, QueryInv

-----------------------------------------------------------------------------
(* The server's steps.                                                     *)

(* What a step of the server may change, and that it is seen.              *)
LEMMA ServerStepSummary ==
    ASSUME ServerInv, ServerStep
    PROVE  /\ ServerInv'
           /\ UNCHANGED <<panel, op>>
           /\ server'.status = server.status
           /\ faults' = 0 => faults = 0
           /\ \/ server'.stamp = server.stamp /\ server'.active = server.active
              \/ server'.stamp = server.stamp + 1
           /\ op # Idle => \/ seen' = seen \cup {Configuration'}
                           \/ seen' = seen /\ Configuration' = Configuration
<1>1. CASE SetScreenSize
  BY <1>1 DEF SetScreenSize, Change, ServerInv, ServerFields, Fits
<1>2. CASE SetOutputs
  BY <1>2 DEF SetOutputs, Change, ServerInv, ServerFields, Fits
<1>3. CASE SetPrimary
  BY <1>3 DEF SetPrimary, Change, ServerInv, ServerFields
<1>4. CASE LoseDisplay
  BY <1>4 DEF LoseDisplay, ServerInv, ServerFields, Configuration
<1> QED BY <1>1, <1>2, <1>3, <1>4 DEF ServerStep

(* A change of the server takes nothing away from what a query may rely    *)
(* on: a new stamp voids what was read, and the history only grows.        *)
LEMMA QuerySurvivesServer ==
    ASSUME ServerInv, QueryInv, ServerStep
    PROVE  QueryInv'
<1> SUFFICES ASSUME op # Idle PROVE QueryInv'
  BY ServerStepSummary DEF QueryInv
<1>1. /\ op' = op /\ seen \subseteq seen' /\ Configuration' \in seen'
      /\ HasPrimary' = HasPrimary /\ NextOutput' = NextOutput
  BY ServerStepSummary DEF QueryInv, HasPrimary, NextOutput
<1>2. /\ server.stamp \in Nat /\ server'.stamp \in Nat
      /\ \/ server'.stamp = server.stamp /\ server'.active = server.active
         \/ server'.stamp = server.stamp + 1
  BY ServerStepSummary DEF ServerInv
<1>3. op.stamp <= server'.stamp
  BY <1>2 DEF QueryInv
<1>4. op.stamp = server'.stamp => server'.active = server.active /\ op.stamp = server.stamp
  BY <1>2 DEF QueryInv
<1>5. ASSUME NEW a, NEW p, SeenTogether(a, p) PROVE SeenTogether(a, p)'
  BY <1>1, <1>5 DEF SeenTogether
<1>6. ASSUME NEW l, FromOneMoment(l) PROVE FromOneMoment(l)'
  BY <1>1, <1>6 DEF FromOneMoment
<1> QED BY <1>1, <1>3, <1>4, <1>5, <1>6 DEF QueryInv, ReadOf

-----------------------------------------------------------------------------
(* The query, one round trip after the other (RandrTopology.cpp query,     *)
(* queryTopologyAttempt).                                                  *)

(* Of an operation that goes on without a placement.                       *)
LEMMA QueryGoesOn ==
    ASSUME ServerInv, QueryInv, op # Idle, UNCHANGED <<server, seen>>, NEW at,
           Go(at), at \notin {"output", "crtc", "primary", "confirm", "confirmPrimary",
                              "confirmCore"}
    PROVE  QueryInv'
<1>1. /\ DOMAIN op' = OpFields /\ op'.at = at /\ op'.height = op.height /\ op'.root = op.root
      /\ op'.active = op.active /\ op'.stamp = op.stamp /\ op'.update = op.update
  BY DEF Go, QueryInv, OpFields
<1>2. Configuration' = Configuration /\ (\A l : FromOneMoment(l)' <=> FromOneMoment(l))
  BY DEF Configuration, FromOneMoment, HasPrimary
<1> QED BY <1>1, <1>2 DEF QueryInv

(* An observation of the moment, or one whose outputs were seen together   *)
(* on the root the server has, is placed from one moment.                  *)
LEMMA QueryFinishes ==
    ASSUME ServerInv, QueryInv, op # Idle, UNCHANGED <<server, seen>>, NEW obs,
           Finish(obs), obs.root = server.screen, obs.active \subseteq Entries,
           obs.randr => SeenTogether(obs.active, obs.primary)
    PROVE  QueryInv'
<1> DEFINE update == Prepared(Prepare(obs, op.height))
<1>1. /\ DOMAIN op' = OpFields /\ op'.at = "end" /\ op'.height = op.height /\ op'.root = op.root
      /\ op'.active = op.active /\ op'.stamp = op.stamp /\ op'.update = update
  BY DEF Finish, QueryInv, OpFields
<1>2. Configuration' = Configuration /\ (\A l : FromOneMoment(l)' <=> FromOneMoment(l))
  BY DEF Configuration, FromOneMoment, HasPrimary
<1>3. op.height \in Nat /\ Configuration \in seen /\ obs.root \in Sizes
  BY ServerTyped DEF QueryInv
<1> HIDE DEF update
<1>4. ASSUME update # None
      PROVE  /\ update[1].height \in Nat
             /\ update[1].placement # None
             /\ Covers(update[1].placement)
             /\ FromOneMoment(update[1].placement)
  <2>1. /\ update[1].height = op.height /\ update[1].placement # None
        /\ Covers(update[1].placement)
        /\ update[1].placement[1].root = server.screen
        /\ update[1].placement[1].output =
              IF obs.randr THEN SelectOutput(server.screen, obs.active, obs.primary)
              ELSE WholeRoot(server.screen)
    BY <1>3, <1>4, PreparedPlacement DEF update
  <2> DEFINE l == update[1].placement
  <2>2. Configuration.screen = server.screen
    BY DEF Configuration
  <2>3. CASE obs.randr
    <3>1. PICK d \in seen : /\ d.active = obs.active
                            /\ obs.primary = IF HasPrimary THEN d.primary ELSE NoOutput
      BY <2>3 DEF SeenTogether
    <3>2. l[1].output = SelectOutput(server.screen, d.active,
                                     IF HasPrimary THEN d.primary ELSE NoOutput)
      BY <2>1, <2>3, <3>1
    <3>3. l[1].root = server.screen
      BY <2>1
    <3> HIDE DEF l
    <3>4. FromOneMoment(l)
      BY <1>3, <2>2, <3>2, <3>3 DEF FromOneMoment
    <3> QED BY <1>3, <2>1, <3>4 DEF l
  <2>4. CASE ~obs.randr
    <3>1. l[1].root = server.screen /\ l[1].output = WholeRoot(server.screen)
      BY <2>1, <2>4
    <3> HIDE DEF l
    <3>2. FromOneMoment(l)
      BY <1>3, <2>2, <3>1 DEF FromOneMoment
    <3> QED BY <1>3, <2>1, <3>2 DEF l
  <2> QED BY <2>3, <2>4
<1> QED BY <1>1, <1>2, <1>4 DEF QueryInv

(* After the resources, and after each output, the query goes on to the    *)
(* next output, or to the primary or the confirmation after the last.      *)
LEMMA OutputsGoOn ==
    ASSUME ServerInv, QueryInv, op # Idle, UNCHANGED <<server, seen>>,
           DOMAIN op' = OpFields, op'.height = op.height, op'.root = op.root,
           op'.update = op.update, op'.primary = NoOutput,
           NEW left, NEW active, op'.left = left, op'.at = AfterOutputs(left),
           op'.active = active, active \subseteq Entries,
           op'.stamp = op.stamp \/ op'.stamp = server.stamp,
           op'.stamp = server.stamp => active = ReadOf(left)
    PROVE  QueryInv'
<1>1. /\ Configuration' = Configuration /\ (\A l : FromOneMoment(l)' <=> FromOneMoment(l))
      /\ ReadOf(left)' = ReadOf(left)
  BY DEF Configuration, FromOneMoment, HasPrimary, ReadOf
<1>2. /\ op'.at \in {"output", "primary", "confirm"}
      /\ op'.at = "output" \/ left = {}
      /\ op'.at = "confirm" => ~HasPrimary
      /\ op'.at = "primary" => HasPrimary'
  BY DEF AfterOutputs, HasPrimary
<1>3. server.stamp \in Nat /\ op.stamp \in Nat /\ op.stamp <= server.stamp
      /\ Configuration \in seen
  BY DEF ServerInv, QueryInv
<1>4. ASSUME op'.stamp = server.stamp, op'.at = "confirm"
      PROVE  SeenTogether(active, NoOutput)'
  <2>1. active = server.active
    BY <1>2, <1>4 DEF ReadOf
  <2>2. Configuration.active = server.active
    BY DEF Configuration
  <2>3. HasPrimary' = HasPrimary
    BY DEF HasPrimary
  <2> QED BY <1>2, <1>3, <1>4, <2>1, <2>2, <2>3 DEF SeenTogether
<1> QED BY <1>1, <1>2, <1>3, <1>4 DEF QueryInv

(* The reads of an attempt: before the end nothing is prepared.            *)
LEMMA QueryReads ==
    ASSUME ServerInv, QueryInv, op # Idle, UNCHANGED <<server, seen>>, Reads
    PROVE  QueryInv'
<1>0. /\ DOMAIN op = OpFields
      /\ server.screen \in Screens /\ server.active \subseteq Entries /\ server.stamp \in Nat
      /\ Configuration \in seen
      /\ \A c, d \in server.active : c.output = d.output => c = d
  BY ServerTyped DEF ServerInv, QueryInv
<1>1. /\ Configuration' = Configuration /\ HasPrimary' = HasPrimary
      /\ \A l : FromOneMoment(l)' <=> FromOneMoment(l)
  BY DEF Configuration, FromOneMoment, HasPrimary
<1>2. \A screen : /\ CoreRoot(screen).root = screen /\ CoreRoot(screen).active = {}
                  /\ ~CoreRoot(screen).randr
  BY DEF CoreRoot
<1>3. CASE Malformed \/ Changed
  BY <1>3, QueryGoesOn DEF Malformed, Changed
<1>4. CASE ReadCore
  <2>1. CASE Finish(CoreRoot(server.screen))
    BY <2>1, <1>2, QueryFinishes
  <2>2. CASE op' = [op EXCEPT !.at = "resources", !.root = server.screen]
    BY <2>2, <1>0, <1>1 DEF QueryInv, OpFields
  <2> QED BY <1>3, <1>4, <2>1, <2>2 DEF ReadCore
<1>5. CASE ReadCoreAgain
  BY <1>5, <1>0, <1>1 DEF ReadCoreAgain, QueryInv, OpFields
<1>6. CASE ReadCoreForFallback
  BY <1>6, <1>2, QueryFinishes DEF ReadCoreForFallback
<1>7. CASE ReadResources
  <2>1. ReadOf(Outputs) = {}
    BY <1>0 DEF ReadOf, Outputs, ServerInv
  <2>2. /\ DOMAIN op' = OpFields /\ op'.height = op.height /\ op'.root = op.root
        /\ op'.update = op.update /\ op'.primary = NoOutput /\ op'.left = Outputs
        /\ op'.at = AfterOutputs(Outputs) /\ op'.active = {} /\ op'.stamp = server.stamp
    BY <1>7, <1>0 DEF ReadResources, OpFields
  <2> QED BY <2>1, <2>2, OutputsGoOn
<1>8. CASE ReadRefused
  BY <1>3, <1>8 DEF ReadRefused
<1>9. CASE ReadOutputInfo
  <2> DEFINE o == NextOutput
             shown == {c \in server.active : c.output = o}
  <2>1. op.at = "output" /\ op.primary = NoOutput /\ op.active \subseteq Entries
        /\ (op.stamp = server.stamp => op.active = ReadOf(op.left))
    BY <1>9 DEF ReadOutputInfo, QueryInv
  <2>2. CASE shown = {}
    <3>1. op' = [op EXCEPT !.left = @ \ {o}, !.at = AfterOutputs(op.left \ {o})]
      BY <1>9, <2>2, Zenon DEF ReadOutputInfo
    <3> HIDE DEF o
    <3>2. op.stamp = server.stamp => op.active = ReadOf(op.left \ {o})
      BY <2>1, <2>2 DEF ReadOf
    <3>3. /\ DOMAIN op' = OpFields /\ op'.height = op.height /\ op'.root = op.root
          /\ op'.update = op.update /\ op'.primary = op.primary /\ op'.left = op.left \ {o}
          /\ op'.at = AfterOutputs(op.left \ {o}) /\ op'.active = op.active
          /\ op'.stamp = op.stamp
      BY <3>1, <1>0 DEF OpFields
    <3> QED BY <2>1, <3>2, <3>3, OutputsGoOn
  <2>3. CASE shown # {}
    <3> DEFINE e == CHOOSE c \in shown : TRUE
    <3>1. op' = [op EXCEPT !.at = "crtc", !.crtc = e.crtc]
      BY <1>9, <2>3, Zenon DEF ReadOutputInfo
    <3>2. e \in server.active /\ e.output = o
      BY <2>3
    <3>3. \A c \in server.active : c.output = o => c.crtc = e.crtc
      BY <1>0, <3>2
    <3> HIDE DEF e
    <3>4. /\ DOMAIN op' = OpFields /\ op'.height = op.height /\ op'.root = op.root
          /\ op'.update = op.update /\ op'.primary = op.primary /\ op'.left = op.left
          /\ op'.at = "crtc" /\ op'.active = op.active /\ op'.stamp = op.stamp
          /\ op'.crtc = e.crtc
      BY <3>1, <1>0 DEF OpFields
    <3>5. NextOutput' = o /\ ReadOf(op.left)' = ReadOf(op.left)
      BY <3>4 DEF NextOutput, ReadOf
    <3> HIDE DEF o
    <3> QED BY <1>1, <2>1, <3>3, <3>4, <3>5 DEF QueryInv
  <2> QED BY <2>2, <2>3
<1>10. CASE ReadCrtcInfo
  <2> DEFINE o == NextOutput
             shown == {c \in server.active : c.output = o /\ c.crtc = op.crtc}
  <2>1. /\ op.at = "crtc" /\ op.primary = NoOutput /\ op.active \subseteq Entries
        /\ op.stamp = server.stamp =>
              /\ op.active = ReadOf(op.left)
              /\ \A c \in server.active : c.output = o => c.crtc = op.crtc
    BY <1>10 DEF ReadCrtcInfo, QueryInv
  <2>2. CASE Malformed
    BY <1>3, <2>2
  <2>3. CASE op' = [op EXCEPT !.active = @ \cup shown, !.left = @ \ {o},
                              !.at = AfterOutputs(op.left \ {o})]
    <3> HIDE DEF o
    <3>1. op.stamp = server.stamp => op.active \cup shown = ReadOf(op.left \ {o})
      BY <2>1 DEF ReadOf
    <3>2. op.active \cup shown \subseteq Entries
      BY <1>0, <2>1
    <3> HIDE DEF shown
    <3>3. /\ DOMAIN op' = OpFields /\ op'.height = op.height /\ op'.root = op.root
          /\ op'.update = op.update /\ op'.primary = op.primary /\ op'.left = op.left \ {o}
          /\ op'.at = AfterOutputs(op.left \ {o}) /\ op'.active = op.active \cup shown
          /\ op'.stamp = op.stamp
      BY <2>3, <1>0 DEF OpFields
    <3> QED BY <2>1, <3>1, <3>2, <3>3, OutputsGoOn
  <2> QED BY <1>10, <2>2, <2>3, Zenon DEF ReadCrtcInfo
<1>11. CASE ReadPrimary
  <2>1. /\ op.at = "primary" /\ op.left = {} /\ HasPrimary
        /\ op.stamp = server.stamp => op.active = ReadOf(op.left)
    BY <1>11 DEF ReadPrimary, QueryInv
  <2>2. op.stamp = server.stamp => SeenTogether(op.active, server.primary)
    BY <1>0, <2>1 DEF SeenTogether, ReadOf, Configuration
  <2>3. /\ DOMAIN op' = OpFields /\ op'.height = op.height /\ op'.root = op.root
        /\ op'.update = op.update /\ op'.primary = server.primary /\ op'.left = op.left
        /\ op'.at = "confirm" /\ op'.active = op.active /\ op'.stamp = op.stamp
    BY <1>11, <1>0 DEF ReadPrimary, OpFields
  <2>4. SeenTogether(op.active, server.primary) => SeenTogether(op.active, op.primary)'
    BY <1>1, <2>3 DEF SeenTogether
  <2> QED BY <1>1, <2>1, <2>2, <2>3, <2>4 DEF QueryInv
<1>12. CASE ConfirmResources
  BY <1>3, <1>12, <1>0, <1>1 DEF ConfirmResources, QueryInv, OpFields, Go, SeenTogether
<1>13. CASE ConfirmPrimary
  BY <1>3, <1>13, <1>0, <1>1 DEF ConfirmPrimary, QueryInv, OpFields, Go, SeenTogether
<1>14. CASE ConfirmCore
  <2> QED BY <1>3, <1>14, <1>0, <1>1, QueryFinishes DEF ConfirmCore, QueryInv, OpFields
<1> QED BY <1>4, <1>5, <1>6, <1>7, <1>8, <1>9, <1>10, <1>11, <1>12, <1>13, <1>14 DEF Reads

-----------------------------------------------------------------------------
(* The shell's steps.                                                      *)

(* What a step may do to the placement.                                    *)
PlacesFromOneMoment ==
    panel'.current \notin {panel.current, None} => FromOneMoment(panel'.current)

(* A call that fails is counted.                                           *)
LEMMA ChargeCounts ==
    ASSUME ServerInv, NEW ok \in BOOLEAN, Charge(ok), UNCHANGED server
    PROVE  ServerInv' /\ (faults' = 0 => faults = 0 /\ ok)
  BY DEF ServerInv, Charge

(* The server is as it was.                                                *)
LEMMA FaultsKept ==
    ASSUME ServerInv, UNCHANGED <<server, faults>>
    PROVE  ServerInv'
  BY DEF ServerInv

(* The query is as it was.                                                 *)
LEMMA QueryKept ==
    ASSUME QueryInv, UNCHANGED <<server, op, seen>>
    PROVE  QueryInv'
<1>1. /\ Configuration' = Configuration /\ HasPrimary' = HasPrimary
      /\ NextOutput' = NextOutput /\ ReadOf(op.left)' = ReadOf(op.left)
      /\ (\A l : FromOneMoment(l)' <=> FromOneMoment(l))
      /\ (SeenTogether(op.active, op.primary)' <=> SeenTogether(op.active, op.primary))
  BY DEF Configuration, FromOneMoment, HasPrimary, NextOutput, ReadOf, SeenTogether
<1> QED BY <1>1 DEF QueryInv

(* The launcher is as it was.                                              *)
LEMMA LauncherKept ==
    ASSUME LauncherInv, UNCHANGED <<state, launcher, theme>>, faults' = 0 => faults = 0
    PROVE  LauncherInv'
  BY DEF LauncherInv, LauncherAgrees

(* A window that was just made.                                            *)
LEMMA NewPanelIsCoherent ==
    ASSUME NEW h \in Nat, NEW q, q = [NoPanel EXCEPT !.exists = TRUE, !.height = h]
    PROVE  Coherent(q) /\ KeyboardAgrees(q) /\ q.current = None
  BY DEF Coherent, Sound, KeyboardAgrees, NoPanel, Fields

(* The notifier alone.                                                     *)
LEMMA NotifierChanged ==
    ASSUME NEW p, Coherent(p), KeyboardAgrees(p), NEW q, q = [p EXCEPT !.notifier = TRUE]
    PROVE  Coherent(q) /\ KeyboardAgrees(q) /\ q.current = p.current
  BY DEF Coherent, Sound, KeyboardAgrees, Fields

(* The window after the loss of the display.                               *)
LEMMA TerminatedIsCoherent ==
    ASSUME NEW p, Coherent(p), KeyboardAgrees(p), NEW q, q = Terminate(p)
    PROVE  Coherent(q) /\ KeyboardAgrees(q) /\ q.current = p.current
<1> DEFINE h == HideIncoherentWindow(p)
<1>1. Coherent(h) /\ KeyboardAgrees(h) /\ h.current = p.current
  BY HiddenIsCoherent DEF Coherent, KeyboardAgrees, SameKeyboard
<1>2. q = [h EXCEPT !.terminated = TRUE, !.notifier = FALSE]
  BY DEF Terminate
<1> HIDE DEF h
<1> QED BY <1>1, <1>2 DEF Coherent, Sound, KeyboardAgrees, Fields

(* The end of the query: the placement was prepared from one moment, or    *)
(* the panel keeps the one it has.                                         *)
LEMMA PlacedSettles ==
    ASSUME PanelInv, QueryInv, op # Idle, NEW r \in Placed
    PROVE  /\ Coherent(r.panel) /\ KeyboardAgrees(r.panel)
           /\ r.ok = TRUE \/ r.ok = FALSE
           /\ r.panel.current \notin {panel.current, None} => FromOneMoment(r.panel.current)
<1>1. CASE Placeable
  <2> DEFINE u == op.update[1]
             l == u.placement
  <2>1. u.height \in Nat /\ l # None /\ Covers(l) /\ FromOneMoment(l)
    BY <1>1 DEF Placeable, QueryInv
  <2>2. r \in ApplyUpdate(panel, u) /\ Sound(panel)
    BY <1>1 DEF Placed, PanelInv, Coherent
  <2> HIDE DEF u
  <2>3. Settled(panel, l, r)
    BY <2>1, <2>2, UpdateSettles
  <2> QED BY <2>1, <2>3 DEF Settled, SameKeyboard, PanelInv, KeyboardAgrees
<1>2. CASE ~Placeable
  <2>1. r = Outcome(FALSE, panel)
    BY <1>2 DEF Placed
  <2> QED BY <2>1 DEF Outcome, PanelInv
<1> QED BY <1>1, <1>2

(* The same where the shell releases only what it holds.                   *)
LEMMA ReleaseSettles ==
    ASSUME PanelInv, NEW r, r \in ReleaseIfAny \/ r \in RequestKeyboardAccess(panel)
    PROVE  KeyboardSettled(panel, r)
<1>1. CASE r = Outcome(TRUE, panel)
  BY <1>1 DEF Outcome, KeyboardSettled, PanelInv
<1>2. CASE r \in ReleaseKeyboardAccess(panel) \/ r \in RequestKeyboardAccess(panel)
  BY <1>2, KeyboardSettles DEF PanelInv
<1> QED BY <1>1, <1>2 DEF ReleaseIfAny

(* A change of the keyboard's owner, as a step.                            *)
LEMMA KeyboardStep ==
    ASSUME ServerInv, PanelInv, QueryInv, UNCHANGED <<server, op, seen>>, NEW r,
           r \in ReleaseIfAny \/ r \in RequestKeyboardAccess(panel), Charge(r.ok),
           panel' = r.panel
    PROVE  /\ ServerInv' /\ PanelInv' /\ QueryInv' /\ PlacesFromOneMoment
           /\ faults' = 0 => faults = 0 /\ r.ok
<1>1. KeyboardSettled(panel, r)
  BY ReleaseSettles
<1>2. r.ok \in BOOLEAN
  BY <1>1 DEF KeyboardSettled
<1>3. ServerInv' /\ (faults' = 0 => faults = 0 /\ r.ok)
  BY <1>2, ChargeCounts
<1>4. QueryInv'
  BY QueryKept
<1> QED BY <1>1, <1>3, <1>4 DEF KeyboardSettled, PanelInv, PlacesFromOneMoment

(* A snapshot of the settings arrives.                                     *)
LEMMA SettingsSnapshotKeeps ==
    ASSUME IInv, SettingsSnapshot
    PROVE  IInv' /\ PlacesFromOneMoment
<1> USE DEF IInv
<1>1. op = Idle /\ UNCHANGED server
  BY DEF SettingsSnapshot, Handles
<1>2. PICK h \in Heights : CreatePresentationEpoch(h) \/ UpdatePresentationEpoch(h)
  BY DEF SettingsSnapshot
<1>3. h \in Nat
  BY HeightsAssumption
<1>4. CASE CreatePresentationEpoch(h)
  <2>1. /\ Begin("create", h) /\ UNCHANGED faults
        /\ panel' = [NoPanel EXCEPT !.exists = TRUE, !.height = h]
        /\ state' = [state EXCEPT !.available = TRUE] /\ ~state.available
        /\ launcher' = NoLauncher /\ theme' = h
    BY <1>4 DEF CreatePresentationEpoch
  <2>2. ServerInv' /\ QueryInv'
    BY <1>1, <1>3, <2>1, FaultsKept, BeginStarts
  <2>3. Coherent(panel') /\ KeyboardAgrees(panel') /\ panel'.current = None
    BY <1>3, <2>1, NewPanelIsCoherent
  <2>4. LauncherInv'
    BY <1>3, <2>1 DEF LauncherInv, LauncherAgrees, NoLauncher
  <2> QED BY <2>2, <2>3, <2>4 DEF PanelInv, PlacesFromOneMoment
<1>5. CASE UpdatePresentationEpoch(h)
  <2>1. UNCHANGED <<panel, faults, state, launcher, theme>>
    BY <1>5 DEF UpdatePresentationEpoch
  <2>2. ServerInv' /\ LauncherInv'
    BY <1>1, <2>1, FaultsKept, LauncherKept
  <2>3. QueryInv'
    <3>1. Begin("height", h) \/ UNCHANGED <<op, seen>>
      BY <1>5 DEF UpdatePresentationEpoch
    <3> QED BY <3>1, <1>1, <1>3, BeginStarts, QueryKept
  <2> QED BY <2>1, <2>2, <2>3 DEF PanelInv, PlacesFromOneMoment
<1> QED BY <1>2, <1>4, <1>5

(* The settings service has gone.                                          *)
LEMMA LoseSettingsOwnerKeeps ==
    ASSUME IInv, LoseSettingsOwner
    PROVE  IInv' /\ PlacesFromOneMoment
<1> USE DEF IInv
<1>1. /\ UNCHANGED <<server, op, seen>>
      /\ state' = [state EXCEPT !.available = FALSE, !.launcher = FALSE]
  BY DEF LoseSettingsOwner
<1>2. PICK r \in ReleaseIfAny :
         /\ Charge(r.ok)
         /\ IF r.ok THEN DestroyPresentationEpoch
            ELSE /\ panel' = r.panel /\ RoundTrip
                 /\ launcher' = IF state.launcher THEN NoLauncher ELSE launcher
                 /\ UNCHANGED <<theme, loss>>
  BY DEF LoseSettingsOwner
<1>3. KeyboardSettled(panel, r)
  BY ReleaseSettles
<1>4. ServerInv' /\ QueryInv'
  BY <1>1, <1>2, <1>3, ChargeCounts, QueryKept DEF KeyboardSettled
<1>5. CASE r.ok
  <2>1. panel' = NoPanel /\ launcher' = NoLauncher /\ theme' = 0
    BY <1>2, <1>5 DEF DestroyPresentationEpoch
  <2>2. LauncherInv'
    BY <1>1, <2>1 DEF LauncherInv, LauncherAgrees, NoLauncher
  <2> QED BY <1>4, <2>1, <2>2, NoPanelIsCoherent
          DEF PanelInv, KeyboardAgrees, PlacesFromOneMoment, NoPanel
<1>6. CASE ~r.ok
  <2>1. /\ panel' = r.panel /\ theme' = theme
        /\ launcher' = IF state.launcher THEN NoLauncher ELSE launcher
    BY <1>2, <1>6
  <2>2. LauncherInv'
    BY <1>1, <2>1 DEF LauncherInv, LauncherAgrees, NoLauncher
  <2> QED BY <1>3, <1>4, <2>1, <2>2 DEF PanelInv, KeyboardSettled, PlacesFromOneMoment
<1> QED BY <1>5, <1>6

(* The first query has ended: the window is made, or not.                  *)
LEMMA CompleteCreateKeeps ==
    ASSUME IInv, op # Idle, CompleteCreate
    PROVE  IInv' /\ PlacesFromOneMoment
<1> USE DEF IInv
<1>1. End /\ UNCHANGED server
  BY DEF CompleteCreate
<1>2. PICK r \in Placed, ready \in BOOLEAN :
         /\ Charge((r.ok \/ ~Placeable) /\ ready)
         /\ IF r.ok /\ ready
            THEN /\ panel' = [r.panel EXCEPT !.notifier = TRUE]
                 /\ UNCHANGED <<state, launcher, theme, loss, quitting>>
                 /\ RoundTrip
            ELSE /\ DestroyPresentationEpoch
                 /\ state' = [state EXCEPT !.available = FALSE, !.launcher = FALSE]
                 /\ Quit
  BY DEF CompleteCreate
<1>3. /\ Coherent(r.panel) /\ KeyboardAgrees(r.panel)
      /\ r.panel.current \notin {panel.current, None} => FromOneMoment(r.panel.current)
  BY PlacedSettles
<1>4. ServerInv' /\ (faults' = 0 => faults = 0) /\ QueryInv'
  <2>1. ((r.ok \/ ~Placeable) /\ ready) \in BOOLEAN
    OBVIOUS
  <2> QED BY <1>1, <1>2, <2>1, ChargeCounts, EndEnds
<1>5. CASE r.ok /\ ready
  <2>1. panel' = [r.panel EXCEPT !.notifier = TRUE] /\ UNCHANGED <<state, launcher, theme>>
    BY <1>2, <1>5
  <2>2. Coherent(panel') /\ KeyboardAgrees(panel') /\ panel'.current = r.panel.current
    BY <1>3, <2>1, NotifierChanged
  <2>3. LauncherInv'
    BY <1>4, <2>1, LauncherKept
  <2> QED BY <1>3, <1>4, <2>2, <2>3 DEF PanelInv, PlacesFromOneMoment
<1>6. CASE ~(r.ok /\ ready)
  <2>1. /\ panel' = NoPanel /\ launcher' = NoLauncher /\ theme' = 0
        /\ state' = [state EXCEPT !.available = FALSE, !.launcher = FALSE]
    BY <1>2, <1>6 DEF DestroyPresentationEpoch
  <2>2. LauncherInv'
    BY <2>1 DEF LauncherInv, LauncherAgrees, NoLauncher
  <2> QED BY <1>4, <2>1, <2>2, NoPanelIsCoherent
          DEF PanelInv, KeyboardAgrees, PlacesFromOneMoment, NoPanel
<1> QED BY <1>5, <1>6

(* The query for another height has ended.                                 *)
LEMMA CompleteHeightKeeps ==
    ASSUME IInv, op # Idle, CompleteHeight
    PROVE  IInv' /\ PlacesFromOneMoment
<1> USE DEF IInv
<1>1. UNCHANGED <<server, state, launcher>>
  BY DEF CompleteHeight
<1>2. PICK r \in Placed, adapted \in BOOLEAN :
         /\ Charge((r.ok \/ ~Placeable) /\ adapted)
         /\ panel' = r.panel
         /\ IF r.ok /\ ~adapted
            THEN Begin("rollback", theme) /\ UNCHANGED theme
            ELSE End /\ theme' = IF r.ok THEN op.height ELSE theme
  BY DEF CompleteHeight
<1>3. /\ Coherent(r.panel) /\ KeyboardAgrees(r.panel)
      /\ r.panel.current \notin {panel.current, None} => FromOneMoment(r.panel.current)
  BY PlacedSettles
<1>4. ServerInv' /\ (faults' = 0 => faults = 0)
  <2>1. ((r.ok \/ ~Placeable) /\ adapted) \in BOOLEAN
    OBVIOUS
  <2> QED BY <1>1, <1>2, <2>1, ChargeCounts
<1>5. theme \in Nat /\ op.height \in Nat
  BY DEF LauncherInv, QueryInv
<1>6. /\ Begin("rollback", theme) \/ End
      /\ theme' = theme \/ theme' = op.height
  BY <1>2
<1>7. QueryInv'
  BY <1>1, <1>5, <1>6, BeginStarts, EndEnds
<1>8. LauncherInv'
  BY <1>1, <1>4, <1>5, <1>6 DEF LauncherInv, LauncherAgrees
<1> QED BY <1>2, <1>3, <1>4, <1>7, <1>8 DEF PanelInv, PlacesFromOneMoment

(* The query that goes back to the old height has ended.                   *)
LEMMA CompleteRollbackKeeps ==
    ASSUME IInv, op # Idle, CompleteRollback
    PROVE  IInv' /\ PlacesFromOneMoment
<1> USE DEF IInv
<1>1. End /\ UNCHANGED <<server, state, launcher, theme>>
  BY DEF CompleteRollback, shellVars
<1>2. PICK r \in Placed : Charge(r.ok \/ ~Placeable) /\ panel' = r.panel
  BY DEF CompleteRollback
<1>3. /\ Coherent(r.panel) /\ KeyboardAgrees(r.panel)
      /\ r.panel.current \notin {panel.current, None} => FromOneMoment(r.panel.current)
  BY PlacedSettles
<1>4. ServerInv' /\ (faults' = 0 => faults = 0)
  <2>1. (r.ok \/ ~Placeable) \in BOOLEAN
    OBVIOUS
  <2> QED BY <1>1, <1>2, <2>1, ChargeCounts
<1>5. QueryInv' /\ LauncherInv'
  BY <1>1, <1>4, EndEnds, LauncherKept
<1> QED BY <1>2, <1>3, <1>4, <1>5 DEF PanelInv, PlacesFromOneMoment

(* The query after an event has ended.                                     *)
LEMMA CompleteRefreshKeeps ==
    ASSUME IInv, op # Idle, CompleteRefresh
    PROVE  IInv' /\ PlacesFromOneMoment
<1> USE DEF IInv
<1>1. End /\ UNCHANGED <<server, state, launcher, theme>>
  BY DEF CompleteRefresh
<1>2. PICK r \in Placed :
         /\ Charge(r.ok \/ ~Placeable)
         /\ panel' = IF ~r.ok /\ ~server.healthy THEN Terminate(r.panel) ELSE r.panel
  BY DEF CompleteRefresh
<1>3. /\ Coherent(r.panel) /\ KeyboardAgrees(r.panel)
      /\ r.panel.current \notin {panel.current, None} => FromOneMoment(r.panel.current)
  BY PlacedSettles
<1>4. ServerInv' /\ (faults' = 0 => faults = 0)
  <2>1. (r.ok \/ ~Placeable) \in BOOLEAN
    OBVIOUS
  <2> QED BY <1>1, <1>2, <2>1, ChargeCounts
<1>5. QueryInv' /\ LauncherInv'
  BY <1>1, <1>4, EndEnds, LauncherKept
<1>6. Coherent(panel') /\ KeyboardAgrees(panel') /\ panel'.current = r.panel.current
  <2>1. CASE panel' = Terminate(r.panel)
    BY <2>1, <1>3, TerminatedIsCoherent
  <2>2. CASE panel' = r.panel
    BY <2>2, <1>3
  <2> QED BY <1>2, <2>1, <2>2
<1> QED BY <1>3, <1>4, <1>5, <1>6 DEF PanelInv, PlacesFromOneMoment

(* The events of the server are read.                                      *)
LEMMA DrainEventsKeeps ==
    ASSUME IInv, DrainEvents
    PROVE  IInv' /\ PlacesFromOneMoment
<1> USE DEF IInv
<1>1. op = Idle /\ UNCHANGED <<server, state, launcher, theme>>
  BY DEF DrainEvents, Handles
<1>2. \/ panel' = Terminate(panel) /\ UNCHANGED <<op, seen, faults>>
      \/ Begin("refresh", panel.height) /\ UNCHANGED <<panel, faults>>
      \/ Charge(FALSE) /\ UNCHANGED <<panel, op, seen>>
  BY Zenon DEF DrainEvents
<1>3. CASE panel' = Terminate(panel) /\ UNCHANGED <<op, seen, faults>>
  <2>1. Coherent(panel') /\ KeyboardAgrees(panel') /\ panel'.current = panel.current
    BY <1>3, TerminatedIsCoherent DEF PanelInv
  <2>2. ServerInv' /\ QueryInv' /\ LauncherInv'
    BY <1>1, <1>3, FaultsKept, QueryKept, LauncherKept
  <2> QED BY <2>1, <2>2 DEF PanelInv, PlacesFromOneMoment
<1>4. CASE Begin("refresh", panel.height) /\ UNCHANGED <<panel, faults>>
  <2>1. panel.height \in Nat
    BY DEF PanelInv, Coherent, Sound
  <2>2. ServerInv' /\ QueryInv' /\ LauncherInv'
    BY <1>1, <1>4, <2>1, FaultsKept, BeginStarts, LauncherKept
  <2> QED BY <1>4, <2>2 DEF PanelInv, PlacesFromOneMoment
<1>5. CASE Charge(FALSE) /\ UNCHANGED <<panel, op, seen>>
  <2>1. ServerInv' /\ (faults' = 0 => faults = 0)
    BY <1>1, <1>5, ChargeCounts
  <2>2. QueryInv' /\ LauncherInv'
    BY <1>1, <1>5, <2>1, QueryKept, LauncherKept
  <2> QED BY <1>5, <2>1, <2>2 DEF PanelInv, PlacesFromOneMoment
<1> QED BY <1>2, <1>3, <1>4, <1>5

(* The display is lost.                                                    *)
LEMMA HandleX11LossKeeps ==
    ASSUME IInv, HandleX11Loss
    PROVE  IInv' /\ PlacesFromOneMoment
<1> USE DEF IInv
<1>1. /\ UNCHANGED <<server, panel, op, seen, faults, theme>> /\ launcher' = NoLauncher
      /\ state' = [state EXCEPT !.stopping = TRUE, !.launcher = FALSE]
  BY DEF HandleX11Loss, HideLauncher, panelVars
<1>2. ServerInv' /\ QueryInv'
  BY <1>1, FaultsKept, QueryKept
<1>3. LauncherInv'
  BY <1>1 DEF LauncherInv, LauncherAgrees, NoLauncher
<1> QED BY <1>1, <1>2, <1>3 DEF PanelInv, PlacesFromOneMoment

(* The launcher is opened, closed or used.                                 *)
LEMMA UserStepKeeps ==
    ASSUME IInv, UserStep
    PROVE  IInv' /\ PlacesFromOneMoment
<1> USE DEF IInv
<1>1. CASE OpenLauncher
  <2>1. /\ UNCHANGED <<server, op, seen, theme>> /\ state.available
        /\ state' = [state EXCEPT !.launcher = TRUE]
    BY <1>1 DEF OpenLauncher, Requested
  <2>2. PICK r \in ReleaseIfAny :
           /\ Charge(r.ok) /\ panel' = r.panel
           /\ launcher' = IF r.ok THEN [shown |-> TRUE, wasActive |-> FALSE] ELSE launcher
    BY <1>1 DEF OpenLauncher, Keyboard
  <2>3. /\ ServerInv' /\ PanelInv' /\ QueryInv' /\ PlacesFromOneMoment
        /\ faults' = 0 => faults = 0 /\ r.ok
    BY <2>1, <2>2, KeyboardStep
  <2>4. LauncherInv'
    BY <2>1, <2>2, <2>3 DEF LauncherInv, LauncherAgrees
  <2> QED BY <2>3, <2>4
<1>2. CASE DismissLauncher
  <2>1. PICK toPanel \in BOOLEAN : Dismiss(toPanel)
    BY <1>2 DEF DismissLauncher
  <2>2. /\ UNCHANGED <<server, op, seen, theme>> /\ launcher' = NoLauncher
        /\ state' = [state EXCEPT !.launcher = FALSE]
    BY <1>2, <2>1 DEF DismissLauncher, Requested, Dismiss, HideLauncher
  <2>3. \E r : /\ r \in ReleaseIfAny \/ r \in RequestKeyboardAccess(panel)
               /\ Charge(r.ok) /\ panel' = r.panel
    BY <2>1 DEF Dismiss, Keyboard
  <2>4. ServerInv' /\ PanelInv' /\ QueryInv' /\ PlacesFromOneMoment
    BY <2>2, <2>3, KeyboardStep
  <2>5. LauncherInv'
    BY <2>2 DEF LauncherInv, LauncherAgrees, NoLauncher
  <2> QED BY <2>4, <2>5
<1>3. CASE LauncherActivated
  <2>1. /\ UNCHANGED <<server, panel, op, seen, faults, state, theme>>
        /\ launcher' = [launcher EXCEPT !.wasActive = TRUE]
    BY <1>3 DEF LauncherActivated, panelVars
  <2>2. ServerInv' /\ QueryInv'
    BY <2>1, FaultsKept, QueryKept
  <2>3. LauncherInv'
    BY <2>1 DEF LauncherInv, LauncherAgrees
  <2> QED BY <2>1, <2>2, <2>3 DEF PanelInv, PlacesFromOneMoment
<1>4. CASE ReleasePanelKeyboard \/ ReturnNotificationFocusToPanel
  <2>1. UNCHANGED <<server, op, seen, theme, state, launcher>>
    BY <1>4 DEF ReleasePanelKeyboard, ReturnNotificationFocusToPanel, Requested
  <2>2. \E r : /\ r \in ReleaseIfAny \/ r \in RequestKeyboardAccess(panel)
               /\ Charge(r.ok) /\ panel' = r.panel
    BY <1>4 DEF ReleasePanelKeyboard, ReturnNotificationFocusToPanel, Keyboard
  <2>3. /\ ServerInv' /\ PanelInv' /\ QueryInv' /\ PlacesFromOneMoment
        /\ faults' = 0 => faults = 0
    BY <2>1, <2>2, KeyboardStep
  <2>4. LauncherInv'
    BY <2>1, <2>3, LauncherKept
  <2> QED BY <2>3, <2>4
<1> QED BY <1>1, <1>2, <1>3, <1>4 DEF UserStep

(* A query makes one more read, or gives up because of a reply or of the   *)
(* connection.  A reply that is no good is a fault.                        *)
LEMMA QueryStepSummary ==
    ASSUME QueryStep
    PROVE  /\ op # Idle /\ RoundTrip /\ UNCHANGED <<server, panel, seen>>
           /\ Reads \/ Go("end") \/ Go("malformed")
           /\ UNCHANGED faults \/ Charge(FALSE)
           /\ (UNCHANGED faults /\ (IF server.healthy THEN Reads ELSE Fails))
              \/ (server.healthy /\ Charge(FALSE))
  BY Zenon DEF QueryStep, ReplyMalformed, Fails, Malformed

(* A query makes one more read, or fails.                                  *)
LEMMA QueryStepKeeps ==
    ASSUME IInv, QueryStep, UNCHANGED shellVars
    PROVE  IInv' /\ PlacesFromOneMoment
<1> USE DEF IInv
<1>1. /\ op # Idle /\ UNCHANGED <<server, panel, seen, state, launcher, theme>>
      /\ Reads \/ Go("end") \/ Go("malformed")
      /\ UNCHANGED faults \/ Charge(FALSE)
  BY QueryStepSummary DEF shellVars
<1>2. ServerInv' /\ (faults' = 0 => faults = 0)
  BY <1>1, FaultsKept, ChargeCounts
<1>4. LauncherInv'
  BY <1>1, <1>2, LauncherKept
<1>3. QueryInv'
  BY <1>1, QueryReads, QueryGoesOn
<1> QED BY <1>1, <1>2, <1>3, <1>4 DEF PanelInv, PlacesFromOneMoment

(* The server changes by itself.                                           *)
LEMMA ServerStepKeeps ==
    ASSUME IInv, ServerStep, UNCHANGED shellVars
    PROVE  IInv' /\ PlacesFromOneMoment
<1> USE DEF IInv
<1>1. /\ ServerInv' /\ QueryInv' /\ UNCHANGED <<panel, state, launcher, theme>>
      /\ faults' = 0 => faults = 0
  BY ServerStepSummary, QuerySurvivesServer DEF shellVars
<1>2. LauncherInv'
  BY <1>1, LauncherKept
<1> QED BY <1>1, <1>2 DEF PanelInv, PlacesFromOneMoment

-----------------------------------------------------------------------------
(* The theorems.                                                           *)

(* Nothing is shown and nothing is asked.                                  *)
LEMMA InitEstablishes == ASSUME Init PROVE IInv
<1>1. ServerInv
  BY DEF Init, ServerInit, ServerInv, ServerFields
<1>2. PanelInv
  BY NoPanelIsCoherent DEF Init, PanelInv, KeyboardAgrees, NoPanel
<1>3. LauncherInv
  BY DEF Init, LauncherInv, LauncherAgrees, NoLauncher
<1>4. QueryInv
  BY DEF Init, QueryInv
<1> QED BY <1>1, <1>2, <1>3, <1>4 DEF IInv

(* Every step keeps the invariant.                                         *)
LEMMA NextKeeps == ASSUME IInv, [Next]_vars PROVE IInv' /\ (Next => PlacesFromOneMoment)
<1>1. CASE UNCHANGED vars
  <2>1. UNCHANGED <<server, panel, op, seen, faults, state, launcher, theme>>
    BY <1>1 DEF vars, panelVars, shellVars
  <2>2. ServerInv' /\ QueryInv' /\ LauncherInv' /\ PanelInv'
    BY <2>1, FaultsKept, QueryKept, LauncherKept DEF IInv, PanelInv
  <2> QED BY <2>1, <2>2 DEF IInv, PlacesFromOneMoment
<1>2. CASE SettingsStep
  BY <1>2, SettingsSnapshotKeeps, LoseSettingsOwnerKeeps DEF SettingsStep
<1>3. CASE UserStep
  BY <1>3, UserStepKeeps
<1>4. CASE Complete
  BY <1>4, CompleteCreateKeeps, CompleteHeightKeeps, CompleteRollbackKeeps,
         CompleteRefreshKeeps
     DEF Complete
<1>5. CASE ServerStep /\ UNCHANGED shellVars
  BY <1>5, ServerStepKeeps
<1>6. CASE QueryStep /\ UNCHANGED shellVars
  BY <1>6, QueryStepKeeps
<1>7. CASE DrainEvents \/ HandleX11Loss
  BY <1>7, DrainEventsKeeps, HandleX11LossKeeps
<1> QED BY <1>1, <1>2, <1>3, <1>4, <1>5, <1>6, <1>7 DEF Next, ShellStep

(* The invariant that the other theorems rest on.                          *)
THEOREM InductiveInvariant == Spec => []IInv
<1>1. Init => IInv
  BY InitEstablishes
<1>2. IInv /\ [Next]_vars => IInv'
  BY NextKeeps
<1> QED BY <1>1, <1>2, PTL DEF Spec

(* Dock properties, geometry, visibility and reservation of the panel, the *)
(* keyboard and the launcher agree after every sequence of requests,       *)
(* failures and settings (PanelWindowHost.cpp applyUpdate,                 *)
(* ShellRuntime.cpp executeActions).                                       *)
THEOREM SurfacesAlwaysAgree == Spec => []SurfacesAgree
<1>1. ASSUME PanelInv PROVE PanelAgrees
  BY <1>1 DEF PanelInv, Coherent, KeyboardAgrees, PanelAgrees
<1>2. ASSUME PanelInv PROVE ReservationCoversPanel
  <2>1. panel.applied # None => Covers(panel.applied)
    BY <1>2 DEF PanelInv, Coherent, Sound
  <2> QED BY <2>1 DEF Covers, ReservationCoversPanel
<1>3. IInv => SurfacesAgree
  BY <1>1, <1>2 DEF IInv, LauncherInv, SurfacesAgree
<1> QED BY <1>3, InductiveInvariant, PTL

(* What the panel is given was computed from outputs and a primary that    *)
(* the server had at one moment since the query began, whatever changed    *)
(* between its reads (RandrTopology.cpp query, queryTopologyAttempt).      *)
THEOREM PlacementIsOfOneMoment == Spec => PlacedFromOneMoment
<1>1. IInv /\ [Next]_vars =>
         [panel'.current \notin {panel.current, None} => FromOneMoment(panel'.current)]_panelVars
  <2>1. ASSUME IInv, Next PROVE PlacesFromOneMoment
    BY <2>1, NextKeeps
  <2>2. UNCHANGED vars => UNCHANGED panelVars
    BY DEF vars
  <2> QED BY <2>1, <2>2 DEF PlacesFromOneMoment
<1> QED BY <1>1, InductiveInvariant, PTL DEF Spec, PlacedFromOneMoment

-----------------------------------------------------------------------------
(* How the panel keeps up with the server.                                 *)

(* No hint is left unread, in the socket or in xcb's buffer.               *)
AllRead == wire.socket + wire.buffered = 0

(* The panel is where a query of the present configuration would put it.   *)
InPlace ==
    LET update == Prepare(Observable, panel.height)
    IN  Ok(update) => panel.visible = TRUE /\ panel.applied = update.value.placement

(* What an attempt has read so far is what the server has.                 *)
Reading ==
    /\ op.attempt = 0 /\ op.root = server.screen
    /\ \/ op.at = "resources"
       \/ /\ op.at \in {"output", "crtc", "primary", "confirm", "confirmPrimary", "confirmCore"}
          /\ op.stamp = server.stamp /\ op.active = ReadOf(op.left)
          /\ op.at = "crtc" => \E c \in server.active : c.output = NextOutput
          /\ op.at \in {"primary", "confirm", "confirmPrimary", "confirmCore"} => op.left = {}
          /\ op.at = "confirmPrimary" => HasPrimary
          /\ op.at \in {"confirm", "confirmPrimary", "confirmCore"} =>
                 op.primary = Observable.primary

ReadsThePresent ==
    \/ op.at = "core" /\ op.attempt = 0
    \/ op.at = "malformed" /\ ~Selected
    \/ Selected /\ Reading
    \/ op.at = "end" /\ op.update = Prepared(Prepare(Observable, op.height))

(* The theme has the panel's height, operations are those of a panel, and  *)
(* a query or a panel is behind the server only while hints are unread: a  *)
(* change leaves one, and only the drain that starts a query takes one.    *)
KeepsUp ==
    /\ panel.exists = TRUE => theme = panel.height
    /\ panel.notifier = TRUE => panel.exists = TRUE
    /\ op # Idle =>
           /\ panel.exists = TRUE
           /\ op.kind \in {"create", "height", "refresh"}
           /\ op.kind \in {"create", "refresh"} => op.height = panel.height
           /\ AllRead => ReadsThePresent
    /\ panel.notifier = TRUE /\ AllRead /\ (op = Idle \/ op.kind = "height") => InPlace

WireInv == wire \in [socket : Nat, buffered : Nat]

HeightInv == op # Idle /\ op.update # None => op.update[1].height = op.height

FollowsInv == WireInv /\ HeightInv /\ (faults = 0 => KeepsUp)

(* What is prepared has the height that was asked for.                     *)
LEMMA PreparedAnswers ==
    ASSUME NEW obs, NEW h, NEW update, update = Prepared(Prepare(obs, h))
    PROVE  /\ update = None <=> ~Ok(Prepare(obs, h))
           /\ update # None => update[1] = Prepare(obs, h).value /\ update[1].height = h
<1> DEFINE topology == BuildOutputTopology(obs)
           dock == CalculateBottomPanelStrut(obs.root, topology.value, h)
           place == <<[root |-> obs.root, output |-> topology.value, dock |-> dock.value]>>
<1>1. Ok(Prepare(obs, h)) => update = <<Prepare(obs, h).value>>
  BY DEF Prepared
<1>2. ~Ok(Prepare(obs, h)) => update = None
  BY DEF Prepared
<1>3. \/ Prepare(obs, h) = topology /\ ~Ok(topology)
      \/ Prepare(obs, h) = dock /\ ~Ok(dock)
      \/ Prepare(obs, h) = Success([height |-> h, placement |-> place])
  BY Zenon DEF Prepare
<1> HIDE DEF topology, dock, place
<1>4. Ok(Prepare(obs, h)) => Prepare(obs, h).value.height = h
  BY <1>3 DEF Success
<1> QED BY <1>1, <1>2, <1>4 DEF None

(* A publication that succeeds changes the dock properties alone.          *)
OnlyDock(p, l, q) == q = [p EXCEPT !.dock = l]
LEMMA PublishedPanel ==
    ASSUME NEW p, NEW l
    PROVE  \A r \in Publish(p, l) : r.ok = TRUE => OnlyDock(p, l, r.panel)
  BY DEF Publish, Outcome, OnlyDock

(* What an update, or a placement that is applied again, makes of the      *)
(* panel when it succeeds.                                                 *)
Gets(p, h, l, q) ==
    /\ DOMAIN q = Fields /\ q.exists = p.exists /\ q.notifier = p.notifier
    /\ q.height = h /\ q.visible = TRUE /\ q.applied = l

(* An update that succeeds shows the height and the placement asked for.   *)
LEMMA UpdateGets ==
    ASSUME NEW p, DOMAIN p = Fields, NEW h, NEW l, NEW update, update.height = h,
           update.placement = l, NEW r \in ApplyUpdate(p, update), r.ok = TRUE
    PROVE  Gets(p, h, l, r.panel)
<1>1. \A q : r # Outcome(FALSE, q)
  BY DEF Outcome
<1>2. PICK s \in Publish(p, l) :
         r \in IF s.ok
               THEN {Outcome(TRUE, [ApplyGeometry(s.panel, l) EXCEPT !.height = h, !.current = l])}
               ELSE IF p.current # None /\ server.healthy
               THEN {Outcome(FALSE, q) : q \in RollBack(s.panel)}
               ELSE {Outcome(FALSE, HideIncoherentWindow(s.panel))}
  BY <1>1 DEF ApplyUpdate
<1>3. s.ok = TRUE \/ s.ok = FALSE
  BY DEF Publish, Outcome
<1>4. s.ok = TRUE /\ r.panel = [ApplyGeometry(s.panel, l) EXCEPT !.height = h, !.current = l]
  BY <1>1, <1>2, <1>3 DEF Outcome
<1>5. OnlyDock(p, l, s.panel)
  <2>1. s.ok = TRUE
    BY <1>4
  <2> QED BY <2>1, PublishedPanel, Zenon
<1> QED BY <1>4, <1>5 DEF Gets, ApplyGeometry, Fields, OnlyDock

(* A placement applied again succeeds or fails.                            *)
LEMMA ReapplyAnswers ==
    ASSUME NEW p, NEW r \in ReapplyCurrent(p) PROVE r.ok = TRUE \/ r.ok = FALSE
<1> DEFINE update == [height |-> p.height, placement |-> p.current]
<1>1. \/ \E q : r = Outcome(FALSE, q)
      \/ \E q : r = Outcome(TRUE, q)
  BY Zenon DEF ReapplyCurrent, ApplyUpdate
<1> QED BY <1>1 DEF Outcome

(* A placement applied again, when it succeeds, is what is applied.        *)
LEMMA ReapplyGets ==
    ASSUME NEW p, DOMAIN p = Fields, NEW r \in ReapplyCurrent(p), r.ok = TRUE
    PROVE  Gets(p, p.height, p.current, r.panel)
<1> DEFINE update == [height |-> p.height, placement |-> p.current]
<1>1. r # Outcome(FALSE, p)
  BY DEF Outcome
<1>2. r \in ApplyUpdate(p, update) /\ update.height = p.height /\ update.placement = p.current
  BY <1>1 DEF ReapplyCurrent
<1> HIDE DEF update
<1> QED BY <1>2, UpdateGets

(* A change of the keyboard's owner that succeeds leaves a panel that is   *)
(* shown where it was.                                                     *)
LEMMA KeyboardGets ==
    ASSUME NEW p, DOMAIN p = Fields, NEW on, NEW r \in SwitchKeyboard(p, on), r.ok = TRUE
    PROVE  Gets(p, p.height, p.current, r.panel)
<1> DEFINE a == [p EXCEPT !.accepts = on]
<1>1. /\ DOMAIN a = Fields /\ a.exists = p.exists /\ a.notifier = p.notifier
      /\ a.height = p.height /\ a.current = p.current
  BY DEF Fields
<1>2. PICK s \in ReapplyCurrent(a) :
         r \in IF s.ok THEN {Outcome(TRUE, [s.panel EXCEPT !.keyboard = on])}
               ELSE {Outcome(FALSE, b.panel) :
                        b \in ReapplyCurrent([s.panel EXCEPT !.accepts = ~on])}
  BY DEF SwitchKeyboard
<1> HIDE DEF a
<1>3. s.ok /\ r = Outcome(TRUE, [s.panel EXCEPT !.keyboard = on])
  <2>1. \A q : r # Outcome(FALSE, q)
    BY DEF Outcome
  <2> QED BY <1>2, <2>1
<1>4. s.ok = TRUE
  <2>1. s.ok = TRUE \/ s.ok = FALSE
    BY <1>2, ReapplyAnswers
  <2> QED BY <1>3, <2>1
<1>5. Gets(a, a.height, a.current, s.panel)
  BY <1>1, <1>4, ReapplyGets
<1> QED BY <1>1, <1>3, <1>5 DEF Gets, Outcome, Fields

(* Granting or releasing the keyboard keeps the panel where it is.         *)
LEMMA AccessGets ==
    ASSUME DOMAIN panel = Fields, NEW r,
           r \in ReleaseIfAny \/ r \in RequestKeyboardAccess(panel), r.ok = TRUE
    PROVE  r.panel = panel \/ Gets(panel, panel.height, panel.current, r.panel)
<1>1. \/ r = Outcome(TRUE, panel) \/ r = Outcome(FALSE, panel)
      \/ \E on \in BOOLEAN : r \in SwitchKeyboard(panel, on)
  BY DEF ReleaseIfAny, RequestKeyboardAccess, ReleaseKeyboardAccess
<1>2. r # Outcome(FALSE, panel) /\ (r = Outcome(TRUE, panel) => r.panel = panel)
  BY DEF Outcome
<1> QED BY <1>1, <1>2, KeyboardGets

-----------------------------------------------------------------------------
(* The wire, and what a step leaves as it is.                              *)

(* The socket and xcb's buffer hold numbers of hints.                      *)
LEMMA WireKept == ASSUME WireInv, [Next]_vars PROVE WireInv'
<1> USE DEF WireInv
<1>1. ASSUME RoundTrip PROVE WireInv'
  BY <1>1 DEF RoundTrip
<1>2. ASSUME wire' = [socket |-> 0, buffered |-> 0] PROVE WireInv'
  BY <1>2
<1>3. ASSUME UNCHANGED wire PROVE WireInv'
  BY <1>3
<1>4. CASE ServerStep
  <2>1. wire' = [wire EXCEPT !.socket = @ + 1] \/ UNCHANGED wire
    BY <1>4, Zenon
       DEF ServerStep, SetScreenSize, SetOutputs, SetPrimary, LoseDisplay, Change, Hint
  <2> QED BY <2>1
<1>5. CASE DrainEvents
  <2>1. PICK rest \in Nat :
           wire' \in {[socket |-> 0, buffered |-> 0], [socket |-> 0, buffered |-> rest]}
    <3> DEFINE events == wire.socket + wire.buffered
    <3>1. events \in Nat /\ Budget \in Nat
      BY PanelAssumption
    <3>2. (IF events > Budget THEN events - Budget ELSE 0) \in Nat
      BY <3>1
    <3>3. \A rest \in 0..(events - 1) : rest \in Nat
      BY <3>1
    <3> HIDE DEF WireInv
    <3>4. \/ wire' = [socket |-> 0, buffered |-> 0]
          \/ wire' = [socket |-> 0, buffered |-> IF events > Budget THEN events - Budget ELSE 0]
          \/ \E rest \in 0..(events - 1) : wire' = [socket |-> 0, buffered |-> rest]
      BY <1>5, Zenon DEF DrainEvents
    <3> HIDE DEF events
    <3> QED BY <3>2, <3>3, <3>4
  <2> QED BY <2>1
<1>6. \/ RoundTrip \/ wire' = [socket |-> 0, buffered |-> 0] \/ UNCHANGED wire
      \/ ServerStep \/ DrainEvents
  <2>1. CASE SettingsStep
    BY <2>1, Zenon DEF SettingsStep, SettingsSnapshot, CreatePresentationEpoch,
       UpdatePresentationEpoch, LoseSettingsOwner, DestroyPresentationEpoch
  <2>2. CASE UserStep
    BY <2>2, Zenon DEF UserStep, OpenLauncher, DismissLauncher, Dismiss, LauncherActivated,
       ReleasePanelKeyboard, ReturnNotificationFocusToPanel, Keyboard, panelVars
  <2>3. CASE Complete
    BY <2>3, Zenon DEF Complete, CompleteCreate, CompleteHeight, CompleteRollback,
       CompleteRefresh, DestroyPresentationEpoch
  <2>4. CASE QueryStep \/ HandleX11Loss \/ UNCHANGED vars
    BY <2>4, Zenon DEF QueryStep, HandleX11Loss, vars, panelVars
  <2> QED BY <2>1, <2>2, <2>3, <2>4, Zenon DEF Next, ShellStep
<1> QED BY <1>1, <1>2, <1>3, <1>4, <1>5, <1>6

(* A round trip of a healthy connection moves the hints and loses none.    *)
LEMMA HintsStay ==
    ASSUME WireInv, server.healthy = TRUE, RoundTrip \/ UNCHANGED wire
    PROVE  AllRead' <=> AllRead
  BY DEF WireInv, RoundTrip, AllRead

(* What is read from the server changes with the server alone.             *)
LEMMA PresentStays ==
    ASSUME UNCHANGED <<server, op>>
    PROVE  /\ Observable' = Observable
           /\ ReadsThePresent' <=> ReadsThePresent
<1>1. Observable' = Observable /\ NextOutput' = NextOutput /\ (Selected' <=> Selected)
      /\ (HasPrimary' <=> HasPrimary)
      /\ ReadOf(op.left)' = ReadOf(op.left)
  BY DEF Observable, Selected, HasPrimary, NextOutput, ReadOf, CoreRoot
<1>2. Reading' <=> Reading
  BY <1>1 DEF Reading
<1> QED BY <1>1, <1>2 DEF ReadsThePresent

(* A step that changes neither server nor panel nor operation.             *)
LEMMA NothingMoves ==
    ASSUME KeepsUp, UNCHANGED <<server, panel, op, theme>>, AllRead' => AllRead
    PROVE  KeepsUp'
<1>1. Observable' = Observable /\ (ReadsThePresent' <=> ReadsThePresent)
  BY PresentStays
<1>2. InPlace' <=> InPlace
  BY <1>1 DEF InPlace
<1> QED BY <1>1, <1>2 DEF KeepsUp

-----------------------------------------------------------------------------
(* Preservation.                                                           *)

(* A change that is not announced is of outputs that nobody reads.         *)
LEMMA ServerStepFollows ==
    ASSUME ServerInv, WireInv, KeepsUp, faults' = 0, ServerStep, UNCHANGED shellVars
    PROVE  KeepsUp'
<1>1. UNCHANGED <<panel, op, theme>> /\ server'.status = server.status
  BY ServerStepSummary DEF shellVars
<1>2. \/ panel.exists # TRUE
      \/ wire' = [wire EXCEPT !.socket = @ + 1]
      \/ wire' = wire /\ ~Selected /\ server'.screen = server.screen
  <2>1. CASE SetScreenSize
    BY <2>1 DEF SetScreenSize, Change, Hint
  <2>2. CASE SetOutputs
    BY <2>2 DEF SetOutputs, Change, Hint, ServerInv, ServerFields
  <2>3. CASE SetPrimary
    BY <2>3 DEF SetPrimary, Change, Hint, ServerInv, ServerFields
  <2>4. CASE LoseDisplay
    BY <2>4 DEF LoseDisplay
  <2> QED BY <2>1, <2>2, <2>3, <2>4 DEF ServerStep
<1>3. CASE panel.exists # TRUE
  BY <1>1, <1>3 DEF KeepsUp
<1>4. CASE wire' = [wire EXCEPT !.socket = @ + 1]
  <2>1. ~AllRead'
    BY <1>4 DEF WireInv, AllRead
  <2> QED BY <1>1, <2>1 DEF KeepsUp
<1>5. CASE wire' = wire /\ ~Selected /\ server'.screen = server.screen
  <2>1. Observable' = Observable /\ ~Selected'
    BY <1>1, <1>5 DEF Observable, Selected, CoreRoot
  <2>2. AllRead' <=> AllRead
    BY <1>5 DEF AllRead
  <2>3. ReadsThePresent => ReadsThePresent'
    BY <1>1, <1>5, <2>1 DEF ReadsThePresent
  <2>4. InPlace' <=> InPlace
    BY <1>1, <2>1 DEF InPlace
  <2> QED BY <1>1, <2>2, <2>3, <2>4 DEF KeepsUp
<1> QED BY <1>2, <1>3, <1>4, <1>5

(* The queries read the present as long as no hint comes.                  *)
LEMMA ReadsFollow ==
    ASSUME ServerInv, QueryInv, HeightInv, op # Idle, Reads, UNCHANGED server
    PROVE  /\ op' # Idle /\ op'.kind = op.kind /\ op'.height = op.height
           /\ HeightInv'
           /\ ReadsThePresent => ReadsThePresent'
<1>0. /\ DOMAIN op = OpFields
      /\ op.at \in {"primary", "confirm"} => op.left = {}
      /\ op.at = "primary" => HasPrimary
      /\ op.at \in {"output", "crtc", "primary"} => op.primary = NoOutput
      /\ op.at = "crtc" /\ op.stamp = server.stamp =>
             \A c \in server.active : c.output = NextOutput => c.crtc = op.crtc
  BY DEF QueryInv
<1>1. /\ Observable' = Observable /\ (Selected' <=> Selected) /\ HasPrimary' = HasPrimary
      /\ \A left : ReadOf(left)' = ReadOf(left)
  BY DEF Observable, Selected, HasPrimary, CoreRoot, ReadOf
<1>2. /\ Selected => /\ Observable.randr = TRUE /\ Observable.root = server.screen
                     /\ Observable.active = server.active
                     /\ Observable = [randr |-> TRUE, root |-> server.screen,
                                      active |-> server.active, primary |-> Observable.primary]
                     /\ Observable.primary = IF HasPrimary THEN server.primary ELSE NoOutput
      /\ ~Selected => Observable = CoreRoot(server.screen)
  BY DEF Observable
<1> DEFINE Goal == /\ op' # Idle /\ op'.kind = op.kind /\ op'.height = op.height
                   /\ HeightInv'
                   /\ ReadsThePresent => ReadsThePresent'
(* A step to another position, with nothing prepared.                      *)
<1>3. ASSUME DOMAIN op' = OpFields, op'.kind = op.kind, op'.height = op.height,
             op'.update = op.update, ReadsThePresent => ReadsThePresent'
      PROVE  Goal
  <2>1. op' # Idle
    BY <1>3 DEF OpFields, Idle
  <2> QED BY <1>3, <2>1 DEF HeightInv
<1>4. ASSUME NEW at, Go(at), ReadsThePresent => ReadsThePresent' PROVE Goal
  BY <1>0, <1>3, <1>4 DEF Go, OpFields
<1>5. ASSUME NEW obs, Finish(obs), ReadsThePresent => obs = Observable PROVE Goal
  <2>1. /\ DOMAIN op' = OpFields /\ op'.kind = op.kind /\ op'.height = op.height
        /\ op'.at = "end" /\ op'.update = Prepared(Prepare(obs, op.height))
    BY <1>0, <1>5 DEF Finish, OpFields
  <2>2. op' # Idle
    BY <2>1 DEF OpFields, Idle
  <2>3. HeightInv'
    BY <2>1, PreparedAnswers DEF HeightInv
  <2>4. ReadsThePresent => ReadsThePresent'
    BY <1>1, <1>5, <2>1 DEF ReadsThePresent
  <2> QED BY <2>1, <2>2, <2>3, <2>4
<1>6. ASSUME Malformed, ReadsThePresent => ~Selected PROVE Goal
  <2>1. ReadsThePresent => ReadsThePresent'
    <3>1. op'.at = "malformed"
      BY <1>0, <1>6 DEF Malformed, Go, OpFields
    <3> QED BY <3>1, <1>1, <1>6 DEF ReadsThePresent
  <2> QED BY <2>1, <1>4, <1>6 DEF Malformed
<1>7. ASSUME Changed, ~ReadsThePresent PROVE Goal
  BY <1>4, <1>7 DEF Changed, Malformed
(* An attempt that has begun goes on.                                      *)
<1>8. ASSUME Selected, op'.attempt = 0, op'.root = server.screen, op'.at = "resources"
      PROVE  ReadsThePresent'
  BY <1>1, <1>8 DEF ReadsThePresent, Reading
<1>9. ASSUME NEW left, DOMAIN op' = OpFields, op'.kind = op.kind, op'.height = op.height,
             op'.update = op.update, op'.left = left, op'.at = AfterOutputs(left),
             op'.primary = NoOutput,
             ReadsThePresent => /\ Selected /\ op'.attempt = 0 /\ op'.root = server.screen
                                /\ op'.stamp = server.stamp /\ op'.active = ReadOf(left)
      PROVE  Goal
  <2>1. ASSUME ReadsThePresent PROVE ReadsThePresent'
    <3>1. /\ op'.at \in {"output", "primary", "confirm"}
          /\ op'.at \in {"primary", "confirm"} => left = {}
          /\ op'.at = "confirm" => ~HasPrimary
      BY <1>9 DEF AfterOutputs
    <3>2. Reading'
      BY <1>1, <1>2, <1>9, <2>1, <3>1 DEF Reading
    <3> QED BY <1>1, <1>9, <2>1, <3>2 DEF ReadsThePresent
  <2> QED BY <1>3, <1>9, <2>1
<1> SUFFICES Goal
  OBVIOUS
<1> HIDE DEF Goal
<1>10. CASE ReadCore
  <2>1. CASE Finish(CoreRoot(server.screen)) /\ server.status = "unavailable"
    BY <2>1, <1>2, <1>5 DEF Selected
  <2>2. CASE Malformed /\ server.status = "malformed"
    BY <2>2, <1>6 DEF Selected
  <2>3. CASE op' = [op EXCEPT !.at = "resources", !.root = server.screen] /\ Selected
    <3>1. /\ DOMAIN op' = OpFields /\ op'.kind = op.kind /\ op'.height = op.height
          /\ op'.update = op.update /\ op'.at = "resources" /\ op'.root = server.screen
          /\ op'.attempt = op.attempt
      BY <2>3, <1>0 DEF OpFields
    <3>2. ReadsThePresent => op.attempt = 0
      BY <1>10 DEF ReadCore, ReadsThePresent, Reading
    <3>3. ReadsThePresent => ReadsThePresent'
      BY <2>3, <3>1, <3>2, <1>8
    <3> QED BY <3>1, <3>3, <1>3
  <2> QED BY <1>10, <2>1, <2>2, <2>3 DEF ReadCore, Selected
<1>11. CASE ReadCoreAgain
  <2>1. /\ DOMAIN op' = OpFields /\ op'.kind = op.kind /\ op'.height = op.height
        /\ op'.update = op.update
    BY <1>11, <1>0 DEF ReadCoreAgain, OpFields
  <2>2. ~ReadsThePresent
    BY <1>11 DEF ReadCoreAgain, ReadsThePresent, Reading
  <2> QED BY <2>1, <2>2, <1>3
<1>12. CASE ReadCoreForFallback
  BY <1>12, <1>2, <1>5 DEF ReadCoreForFallback, ReadsThePresent, Reading
<1>13. CASE ReadResources
  <2>1. /\ DOMAIN op' = OpFields /\ op'.kind = op.kind /\ op'.height = op.height
        /\ op'.update = op.update /\ op'.left = Outputs /\ op'.at = AfterOutputs(Outputs)
        /\ op'.primary = NoOutput /\ op'.attempt = op.attempt /\ op'.root = op.root
        /\ op'.stamp = server.stamp /\ op'.active = {}
    BY <1>13, <1>0 DEF ReadResources, OpFields
  <2>2. ReadOf(Outputs) = {}
    BY DEF ReadOf, Outputs, ServerInv
  <2>3. ReadsThePresent => Selected /\ Reading
    BY <1>13 DEF ReadResources, ReadsThePresent
  <2> QED BY <2>1, <2>2, <2>3, <1>9 DEF Reading
<1>14. CASE ReadRefused
  <2>1. ~ReadsThePresent
    BY <1>14 DEF ReadRefused, ReadsThePresent, Reading
  <2> QED BY <1>14, <2>1, <1>7 DEF ReadRefused
<1>15. CASE ReadOutputInfo
  <2> DEFINE o == NextOutput
             shown == {c \in server.active : c.output = o}
  <2>1. /\ op.at = "output" /\ op.primary = NoOutput
        /\ ReadsThePresent => Selected /\ Reading /\ op.stamp = server.stamp
                              /\ op.active = ReadOf(op.left)
    BY <1>0, <1>15 DEF ReadOutputInfo, ReadsThePresent, Reading
  <2>2. CASE shown = {}
    <3>1. op' = [op EXCEPT !.left = @ \ {o}, !.at = AfterOutputs(op.left \ {o})]
      BY <1>15, <2>2, Zenon DEF ReadOutputInfo
    <3> HIDE DEF o
    <3>2. ReadsThePresent => op.active = ReadOf(op.left \ {o})
      BY <2>1, <2>2 DEF ReadOf
    <3>3. /\ DOMAIN op' = OpFields /\ op'.kind = op.kind /\ op'.height = op.height
          /\ op'.update = op.update /\ op'.left = op.left \ {o}
          /\ op'.at = AfterOutputs(op.left \ {o}) /\ op'.primary = op.primary
          /\ op'.attempt = op.attempt /\ op'.root = op.root /\ op'.stamp = op.stamp
          /\ op'.active = op.active
      BY <3>1, <1>0 DEF OpFields
    <3> HIDE DEF shown
    <3> QED BY <2>1, <3>2, <3>3, <1>9 DEF Reading
  <2>3. CASE shown # {}
    <3> DEFINE e == CHOOSE c \in shown : TRUE
    <3>1. op' = [op EXCEPT !.at = "crtc", !.crtc = e.crtc]
      BY <1>15, <2>3, Zenon DEF ReadOutputInfo
    <3>2. \E c \in server.active : c.output = o
      BY <2>3
    <3> HIDE DEF e
    <3>3. /\ DOMAIN op' = OpFields /\ op'.kind = op.kind /\ op'.height = op.height
          /\ op'.update = op.update /\ op'.left = op.left /\ op'.at = "crtc"
          /\ op'.attempt = op.attempt /\ op'.root = op.root /\ op'.stamp = op.stamp
          /\ op'.active = op.active
      BY <3>1, <1>0 DEF OpFields
    <3>4. NextOutput' = o
      BY <3>3 DEF NextOutput
    <3> HIDE DEF o, shown
    <3>5. ReadsThePresent => ReadsThePresent'
      BY <1>1, <2>1, <3>2, <3>3, <3>4 DEF ReadsThePresent, Reading
    <3> QED BY <3>3, <3>5, <1>3
  <2> QED BY <2>2, <2>3
<1>16. CASE ReadCrtcInfo
  <2> DEFINE o == NextOutput
             shown == {c \in server.active : c.output = o /\ c.crtc = op.crtc}
  <2>1. /\ op.at = "crtc" /\ op.primary = NoOutput
        /\ ReadsThePresent => /\ Selected /\ Reading /\ op.stamp = server.stamp
                              /\ op.active = ReadOf(op.left)
                              /\ \E c \in server.active : c.output = o
                              /\ \A c \in server.active : c.output = o => c.crtc = op.crtc
    BY <1>0, <1>16 DEF ReadCrtcInfo, ReadsThePresent, Reading
  <2>2. CASE shown = {}
    <3>1. Malformed
      BY <1>16, <2>2, Zenon DEF ReadCrtcInfo
    <3>2. ~ReadsThePresent
      BY <2>1, <2>2
    <3> QED BY <3>1, <3>2, <1>6
  <2>3. CASE shown # {}
    <3>1. op' = [op EXCEPT !.active = @ \cup shown, !.left = @ \ {o},
                           !.at = AfterOutputs(op.left \ {o})]
      BY <1>16, <2>3, Zenon DEF ReadCrtcInfo
    <3> HIDE DEF o
    <3>2. ReadsThePresent => op.active \cup shown = ReadOf(op.left \ {o})
      BY <2>1 DEF ReadOf
    <3> HIDE DEF shown
    <3>3. /\ DOMAIN op' = OpFields /\ op'.kind = op.kind /\ op'.height = op.height
          /\ op'.update = op.update /\ op'.left = op.left \ {o}
          /\ op'.at = AfterOutputs(op.left \ {o}) /\ op'.primary = op.primary
          /\ op'.attempt = op.attempt /\ op'.root = op.root /\ op'.stamp = op.stamp
          /\ op'.active = op.active \cup shown
      BY <3>1, <1>0 DEF OpFields
    <3> QED BY <2>1, <3>2, <3>3, <1>9 DEF Reading
  <2> QED BY <2>2, <2>3
<1>17. CASE ReadPrimary
  <2>1. /\ DOMAIN op' = OpFields /\ op'.kind = op.kind /\ op'.height = op.height
        /\ op'.update = op.update /\ op'.left = op.left /\ op'.at = "confirm"
        /\ op'.attempt = op.attempt /\ op'.root = op.root /\ op'.stamp = op.stamp
        /\ op'.active = op.active /\ op'.primary = server.primary
        /\ op.at = "primary" /\ HasPrimary /\ op.left = {}
    BY <1>17, <1>0 DEF ReadPrimary, OpFields
  <2>2. ReadsThePresent => ReadsThePresent'
    BY <1>1, <1>2, <2>1 DEF ReadsThePresent, Reading
  <2> QED BY <2>1, <2>2, <1>3
<1>18. ASSUME NEW at, Go(at), op.at \in {"confirm", "confirmPrimary"},
              at \in {"confirmPrimary", "confirmCore"}, at = "confirmPrimary" => HasPrimary
       PROVE  Goal
  <2>1. /\ op'.left = op.left /\ op'.at = at
        /\ op'.attempt = op.attempt /\ op'.root = op.root /\ op'.stamp = op.stamp
        /\ op'.active = op.active /\ op'.primary = op.primary
    BY <1>18, <1>0 DEF Go, OpFields
  <2>2. ReadsThePresent => ReadsThePresent'
    BY <1>1, <1>18, <2>1 DEF ReadsThePresent, Reading
  <2> QED BY <1>18, <2>2, <1>4
<1>19. CASE ConfirmResources
  <2>1. CASE Changed /\ server.stamp # op.stamp
    BY <1>7, <1>19, <2>1 DEF ConfirmResources, ReadsThePresent, Reading
  <2>2. CASE Go(IF HasPrimary THEN "confirmPrimary" ELSE "confirmCore")
    BY <1>18, <1>19, <2>2 DEF ConfirmResources
  <2> QED BY <1>19, <2>1, <2>2 DEF ConfirmResources
<1>20. CASE ConfirmPrimary
  <2>1. CASE Changed /\ server.primary # op.primary
    <3>1. ~ReadsThePresent
      BY <1>2, <1>20, <2>1 DEF ConfirmPrimary, ReadsThePresent, Reading
    <3> QED BY <2>1, <3>1, <1>7
  <2>2. CASE Go("confirmCore")
    BY <1>18, <1>20, <2>2 DEF ConfirmPrimary
  <2> QED BY <1>20, <2>1, <2>2 DEF ConfirmPrimary
<1>21. CASE ConfirmCore
  <2> DEFINE obs == [randr |-> TRUE, root |-> op.root, active |-> op.active,
                     primary |-> op.primary]
  <2>1. ReadsThePresent => /\ Selected /\ op.root = server.screen /\ op.active = server.active
                           /\ op.primary = Observable.primary
    BY <1>21 DEF ConfirmCore, ReadsThePresent, Reading, ReadOf
  <2>2. CASE Finish(obs)
    <3>1. ReadsThePresent => obs = Observable
      BY <1>2, <2>1
    <3> HIDE DEF obs
    <3> QED BY <2>2, <3>1, <1>5
  <2>3. CASE /\ op' = [op EXCEPT !.at = "resources", !.root = server.screen, !.attempt = 1]
             /\ server.screen # op.root
    <3>1. /\ DOMAIN op' = OpFields /\ op'.kind = op.kind /\ op'.height = op.height
          /\ op'.update = op.update
      BY <2>3, <1>0 DEF OpFields
    <3> QED BY <2>1, <2>3, <3>1, <1>3
  <2>4. CASE Malformed /\ server.screen # op.root
    BY <2>1, <2>4, <1>6
  <2> QED BY <1>21, <2>2, <2>3, <2>4 DEF ConfirmCore
<1> QED BY <1>10, <1>11, <1>12, <1>13, <1>14, <1>15, <1>16, <1>17, <1>19, <1>20, <1>21
        DEF Reads, Goal

(* A step of a query reads the present or a hint tells of the change.      *)
LEMMA QueryStepFollows ==
    ASSUME IInv, FollowsInv, faults' = 0, QueryStep, UNCHANGED shellVars
    PROVE  KeepsUp'
<1>0. /\ op # Idle /\ RoundTrip /\ UNCHANGED <<server, panel, theme>>
      /\ (UNCHANGED faults /\ (IF server.healthy THEN Reads ELSE Fails))
         \/ (server.healthy /\ Charge(FALSE))
  BY QueryStepSummary DEF shellVars
<1>1. /\ op # Idle /\ RoundTrip /\ UNCHANGED <<server, panel, theme, faults>>
      /\ server.healthy = TRUE => Reads
  <2>1. ~(server.healthy /\ Charge(FALSE))
    BY <1>0, ChargeCounts DEF IInv
  <2> QED BY <1>0, <2>1
<1>2. faults = 0 /\ server.healthy = TRUE /\ ServerInv /\ QueryInv
      /\ WireInv /\ HeightInv /\ KeepsUp
  BY <1>1 DEF IInv, ServerInv, FollowsInv
<1>3. /\ op' # Idle /\ op'.kind = op.kind /\ op'.height = op.height
      /\ ReadsThePresent => ReadsThePresent'
  BY <1>1, <1>2, ReadsFollow
<1>4. AllRead' <=> AllRead
  BY <1>1, <1>2, HintsStay
<1>5. InPlace' <=> InPlace
  BY <1>1 DEF InPlace, Observable, Selected, HasPrimary, CoreRoot
<1> QED BY <1>1, <1>2, <1>3, <1>4, <1>5 DEF KeepsUp

(* A query that begins reads the present.                                  *)
LEMMA BeginReads ==
    ASSUME NEW kind, NEW h, Begin(kind, h)
    PROVE  op' # Idle /\ op'.kind = kind /\ op'.height = h /\ op'.update = None /\ ReadsThePresent'
<1>1. op'.kind = kind /\ op'.height = h /\ op'.update = None /\ op'.at = "core" /\ op'.attempt = 0
  BY DEF Begin
<1>2. op' # Idle
  <2>1. DOMAIN op' # DOMAIN Idle
    BY DEF Begin, Idle
  <2> QED BY <2>1
<1> QED BY <1>1, <1>2 DEF ReadsThePresent

(* Epochs that begin start a query; those that end remove the panel.       *)
LEMMA SettingsStepFollows ==
    ASSUME IInv, FollowsInv, faults' = 0, SettingsStep
    PROVE  KeepsUp'
<1>1. ASSUME NEW h, op = Idle, UNCHANGED server, CreatePresentationEpoch(h) PROVE KeepsUp'
  <2>1. /\ panel' = [NoPanel EXCEPT !.exists = TRUE, !.height = h] /\ theme' = h
        /\ Begin("create", h)
    BY <1>1 DEF CreatePresentationEpoch
  <2>2. panel'.exists = TRUE /\ panel'.notifier = FALSE /\ panel'.height = h
    BY <2>1 DEF NoPanel
  <2> QED BY <2>1, <2>2, BeginReads DEF KeepsUp
<1>2. ASSUME NEW h, op = Idle, UNCHANGED server, UpdatePresentationEpoch(h) PROVE KeepsUp'
  <2>1. UNCHANGED <<server, panel, theme, wire, faults>> /\ faults = 0 /\ KeepsUp
    BY <1>2 DEF UpdatePresentationEpoch, FollowsInv
  <2>2. AllRead' <=> AllRead
    BY <2>1 DEF AllRead
  <2>3. CASE panel.exists = TRUE /\ Begin("height", h)
    <3>1. InPlace' <=> InPlace
      BY <2>1 DEF InPlace, Observable, Selected, HasPrimary, CoreRoot
    <3> QED BY <1>2, <2>1, <2>2, <2>3, <3>1, BeginReads DEF KeepsUp
  <2>4. CASE UNCHANGED op
    BY <2>1, <2>2, <2>4, NothingMoves
  <2>5. (panel.exists /\ Begin("height", h)) \/ UNCHANGED op
    BY <1>2 DEF UpdatePresentationEpoch
  <2>6. panel.exists => panel.exists = TRUE
    OBVIOUS
  <2> QED BY <2>3, <2>4, <2>5, <2>6
<1>3. CASE SettingsSnapshot
  BY <1>1, <1>2, <1>3 DEF SettingsSnapshot, Handles
<1>4. CASE LoseSettingsOwner
  <2>1. PICK r \in ReleaseIfAny : Charge(r.ok) /\ (r.ok => DestroyPresentationEpoch)
    BY <1>4 DEF LoseSettingsOwner
  <2>2. op = Idle /\ UNCHANGED <<server, op>>
    BY <1>4 DEF LoseSettingsOwner, Handles
  <2>3. r.ok
    <3>1. r.ok \in BOOLEAN
      BY <2>1, ReleaseSettles DEF IInv, KeyboardSettled
    <3> QED BY <2>1, <2>2, <3>1, ChargeCounts DEF IInv
  <2>4. panel' = NoPanel
    BY <2>1, <2>3 DEF DestroyPresentationEpoch
  <2> QED BY <2>2, <2>4 DEF KeepsUp, NoPanel
<1> QED BY <1>3, <1>4 DEF SettingsStep

(* What a query that ends puts in place: where the panel should be now, if *)
(* no hint has come.                                                       *)
LEMMA PlacedFollows ==
    ASSUME PanelInv, HeightInv, op # Idle, op.at = "end", NEW r \in Placed, r.ok = TRUE
    PROVE  /\ Placeable
           /\ r.panel.exists = panel.exists /\ r.panel.notifier = panel.notifier
           /\ DOMAIN r.panel = Fields
           /\ r.panel.height = op.height
           /\ ReadsThePresent =>
                  LET update == Prepare(Observable, op.height)
                  IN  r.panel.visible = TRUE /\ r.panel.applied = update.value.placement
<1>1. Placeable /\ r \in ApplyUpdate(panel, op.update[1])
  BY DEF Placed, Outcome
<1>2. op.update[1].height = op.height
  BY <1>1 DEF Placeable, HeightInv
<1>3. DOMAIN panel = Fields
  BY DEF PanelInv, Coherent, Sound
<1>4. Gets(panel, op.height, op.update[1].placement, r.panel)
  BY <1>1, <1>2, <1>3, UpdateGets
<1>5. ReadsThePresent => op.update = Prepared(Prepare(Observable, op.height))
  BY DEF ReadsThePresent, Reading
<1>6. ReadsThePresent => op.update[1] = Prepare(Observable, op.height).value
  BY <1>1, <1>5, PreparedAnswers DEF Placeable
<1> QED BY <1>1, <1>4, <1>6 DEF Gets

(* A query without a result says that the panel has no place.              *)
LEMMA NotPlacedFollows ==
    ASSUME op # Idle, op.at = "end", ~Placeable, NEW r \in Placed
    PROVE  /\ r.panel = panel /\ r.ok = FALSE
           /\ ReadsThePresent => ~Ok(Prepare(Observable, op.height))
<1>1. r = Outcome(FALSE, panel)
  BY DEF Placed
<1>2. ReadsThePresent => op.update = Prepared(Prepare(Observable, op.height))
  BY DEF ReadsThePresent, Reading
<1>3. ReadsThePresent => ~Ok(Prepare(Observable, op.height))
  BY <1>2, PreparedAnswers DEF Placeable
<1> QED BY <1>1, <1>3 DEF Outcome

(* An operation that ends leaves the panel in place or behind a hint.      *)
LEMMA CompleteFollows ==
    ASSUME IInv, FollowsInv, faults' = 0, Complete
    PROVE  KeepsUp'
<1>1. op # Idle /\ op.at = "end" /\ UNCHANGED server
  BY Zenon DEF Complete, CompleteCreate, CompleteHeight, CompleteRollback, CompleteRefresh
<1>2. ASSUME NEW r \in Placed, NEW also \in BOOLEAN, Charge((r.ok \/ ~Placeable) /\ also)
      PROVE  /\ faults = 0 /\ server.healthy = TRUE /\ KeepsUp /\ also
             /\ r.ok = TRUE \/ (r.ok = FALSE /\ ~Placeable)
  <2>1. r.ok = TRUE \/ r.ok = FALSE
    BY <1>1, PlacedSettles DEF IInv
  <2>2. ((r.ok \/ ~Placeable) /\ also) \in BOOLEAN
    OBVIOUS
  <2>3. faults = 0 /\ ((r.ok \/ ~Placeable) /\ also)
    BY <1>1, <1>2, <2>2, ChargeCounts DEF IInv
  <2> QED BY <2>1, <2>3 DEF IInv, ServerInv, FollowsInv
<1>3. op.kind \in {"create", "refresh"} /\ KeepsUp => op.height = panel.height
  BY <1>1 DEF KeepsUp
<1>4. Observable' = Observable
  BY <1>1 DEF Observable, Selected, HasPrimary, CoreRoot
(* An operation that ends with the panel in place.                         *)
<1>5. ASSUME KeepsUp, End, theme' = panel'.height, panel'.exists = panel.exists,
             AllRead' => AllRead, ReadsThePresent => InPlace'
      PROVE  KeepsUp'
  <2>1. op' = Idle /\ panel.exists = TRUE /\ (AllRead => ReadsThePresent)
    BY <1>1, <1>5 DEF End, KeepsUp
  <2> QED BY <1>5, <2>1 DEF KeepsUp
<1>6. CASE CompleteCreate
  <2>1. PICK r \in Placed, ready \in BOOLEAN :
           /\ Charge((r.ok \/ ~Placeable) /\ ready)
           /\ IF r.ok /\ ready
              THEN panel' = [r.panel EXCEPT !.notifier = TRUE] /\ UNCHANGED theme /\ RoundTrip
              ELSE DestroyPresentationEpoch
    BY <1>6 DEF CompleteCreate
  <2>2. KeepsUp /\ server.healthy = TRUE /\ End /\ op.height = panel.height
    BY <1>2, <1>3, <1>6, <2>1 DEF CompleteCreate
  <2>3. CASE r.ok = TRUE /\ ready
    <3>1. /\ r.panel.exists = panel.exists /\ DOMAIN r.panel = Fields
          /\ r.panel.height = panel.height
          /\ ReadsThePresent =>
                 LET update == Prepare(Observable, panel.height)
                 IN  r.panel.visible = TRUE /\ r.panel.applied = update.value.placement
      BY <1>1, <2>2, <2>3, PlacedFollows DEF IInv, FollowsInv
    <3>2. /\ panel'.exists = panel.exists /\ panel'.height = panel.height
          /\ panel'.visible = r.panel.visible /\ panel'.applied = r.panel.applied
      BY <2>1, <2>3, <3>1 DEF Fields
    <3>3. ReadsThePresent => InPlace'
      BY <1>4, <3>1, <3>2 DEF InPlace
    <3>4. theme' = panel'.height
      BY <1>1, <2>1, <2>2, <2>3, <3>2 DEF KeepsUp
    <3>5. AllRead' => AllRead
      BY <2>1, <2>2, <2>3, HintsStay DEF FollowsInv
    <3> QED BY <1>5, <2>2, <3>2, <3>3, <3>4, <3>5
  <2>4. CASE ~(r.ok = TRUE /\ ready)
    <3>1. panel' = NoPanel /\ op' = Idle
      BY <2>1, <2>2, <2>4, <1>2 DEF DestroyPresentationEpoch, End
    <3> QED BY <3>1 DEF KeepsUp, NoPanel
  <2> QED BY <2>3, <2>4
<1>7. CASE CompleteHeight
  <2>1. PICK r \in Placed, adapted \in BOOLEAN :
           /\ Charge((r.ok \/ ~Placeable) /\ adapted)
           /\ panel' = r.panel
           /\ IF r.ok /\ ~adapted
              THEN Begin("rollback", theme) /\ UNCHANGED theme
              ELSE End /\ theme' = IF r.ok THEN op.height ELSE theme
    BY <1>7 DEF CompleteHeight
  <2>2. /\ KeepsUp /\ server.healthy = TRUE /\ adapted
        /\ r.ok = TRUE \/ (r.ok = FALSE /\ ~Placeable)
    BY <1>2, <2>1
  <2>3. End /\ theme' = IF r.ok THEN op.height ELSE theme
    BY <2>1, <2>2
  <2>4. AllRead' <=> AllRead
    BY <1>7, <2>2, HintsStay DEF CompleteHeight, FollowsInv
  <2>5. CASE r.ok = TRUE
    <3>1. /\ r.panel.exists = panel.exists /\ r.panel.height = op.height
          /\ ReadsThePresent =>
                 LET update == Prepare(Observable, op.height)
                 IN  r.panel.visible = TRUE /\ r.panel.applied = update.value.placement
      BY <1>1, <2>5, PlacedFollows DEF IInv, FollowsInv
    <3>2. ReadsThePresent => InPlace'
      BY <1>4, <2>1, <3>1 DEF InPlace
    <3> QED BY <1>5, <2>1, <2>2, <2>3, <2>4, <2>5, <3>1, <3>2
  <2>6. CASE r.ok = FALSE /\ ~Placeable
    <3>1. UNCHANGED <<panel, theme>> /\ op' = Idle
      BY <1>1, <2>1, <2>3, <2>6, NotPlacedFollows DEF End
    <3>2. panel.notifier = TRUE /\ AllRead => InPlace
      BY <1>7, <2>2 DEF CompleteHeight, KeepsUp
    <3>3. InPlace' <=> InPlace
      BY <1>4, <3>1 DEF InPlace
    <3> QED BY <2>2, <2>4, <3>1, <3>2, <3>3 DEF KeepsUp
  <2> QED BY <2>2, <2>5, <2>6
<1>8. CASE CompleteRollback
  <2>1. PICK r \in Placed : Charge(r.ok \/ ~Placeable)
    BY <1>8 DEF CompleteRollback
  <2>2. Charge((r.ok \/ ~Placeable) /\ TRUE)
    BY <2>1
  <2>3. KeepsUp
    BY <1>2, <2>2
  <2> QED BY <1>1, <1>8, <2>3 DEF CompleteRollback, KeepsUp
<1>9. CASE CompleteRefresh
  <2>1. PICK r \in Placed :
           /\ Charge(r.ok \/ ~Placeable)
           /\ panel' = IF ~r.ok /\ ~server.healthy THEN Terminate(r.panel) ELSE r.panel
    BY <1>9 DEF CompleteRefresh
  <2>2. Charge((r.ok \/ ~Placeable) /\ TRUE)
    BY <2>1
  <2>3. /\ KeepsUp /\ server.healthy = TRUE
        /\ r.ok = TRUE \/ (r.ok = FALSE /\ ~Placeable)
    BY <1>2, <2>2
  <2>4. panel' = r.panel /\ theme' = theme /\ End /\ op.height = panel.height
        /\ theme = panel.height
    BY <1>1, <1>3, <1>9, <2>1, <2>3 DEF CompleteRefresh, KeepsUp
  <2>5. AllRead' <=> AllRead
    BY <1>9, <2>3, HintsStay DEF CompleteRefresh, FollowsInv
  <2>6. CASE r.ok = TRUE
    <3>1. /\ r.panel.exists = panel.exists /\ r.panel.height = panel.height
          /\ ReadsThePresent =>
                 LET update == Prepare(Observable, panel.height)
                 IN  r.panel.visible = TRUE /\ r.panel.applied = update.value.placement
      BY <1>1, <2>4, <2>6, PlacedFollows DEF IInv, FollowsInv
    <3>2. ReadsThePresent => InPlace'
      BY <1>4, <2>4, <3>1 DEF InPlace
    <3> QED BY <1>5, <2>3, <2>4, <2>5, <3>1, <3>2
  <2>7. CASE r.ok = FALSE /\ ~Placeable
    <3>1. panel' = panel /\ (ReadsThePresent => ~Ok(Prepare(Observable, panel.height)))
      BY <1>1, <2>4, <2>7, NotPlacedFollows
    <3>2. ReadsThePresent => InPlace'
      BY <1>4, <3>1 DEF InPlace
    <3> QED BY <1>5, <2>3, <2>4, <2>5, <3>1, <3>2
  <2> QED BY <2>3, <2>6, <2>7
<1> QED BY <1>6, <1>7, <1>8, <1>9 DEF Complete

(* The drain that takes the last hint starts a query of the present.       *)
LEMMA DrainEventsFollows ==
    ASSUME IInv, FollowsInv, faults' = 0, DrainEvents
    PROVE  KeepsUp'
<1>1. UNCHANGED <<server, theme>> /\ (panel.notifier = TRUE)
  <2>1. panel.notifier => panel.notifier = TRUE
    OBVIOUS
  <2> QED BY <2>1 DEF DrainEvents
<1>2. \/ ~server.healthy /\ UNCHANGED faults
      \/ server.healthy /\ Begin("refresh", panel.height) /\ UNCHANGED <<panel, faults>>
      \/ server.healthy /\ Charge(FALSE)
  BY Zenon DEF DrainEvents
<1>3. Begin("refresh", panel.height) /\ UNCHANGED <<panel, faults>>
  BY <1>2 DEF IInv, ServerInv, Charge
<1>4. KeepsUp
  BY <1>3 DEF FollowsInv
<1> QED BY <1>1, <1>3, <1>4, BeginReads DEF KeepsUp

(* A change of the keyboard's owner keeps the panel where it is.           *)
LEMMA KeyboardFollows ==
    ASSUME IInv, FollowsInv, faults' = 0, op = Idle, UNCHANGED <<server, op, theme>>, NEW r,
           r \in ReleaseIfAny \/ r \in RequestKeyboardAccess(panel), Charge(r.ok),
           panel' = r.panel, RoundTrip \/ UNCHANGED wire
    PROVE  KeepsUp'
<1>1. faults = 0 /\ (r.ok = TRUE)
  <2>1. r.ok = TRUE \/ r.ok = FALSE
    BY ReleaseSettles DEF IInv, KeyboardSettled
  <2>2. r.ok \in BOOLEAN
    BY <2>1
  <2> QED BY <2>1, <2>2, ChargeCounts DEF IInv
<1>2. KeepsUp /\ server.healthy = TRUE
  BY <1>1 DEF FollowsInv, IInv, ServerInv
<1>3. AllRead' <=> AllRead
  BY <1>2, HintsStay DEF FollowsInv
<1>4. Coherent(panel) /\ DOMAIN panel = Fields
  BY DEF IInv, PanelInv, Coherent, Sound
<1>5. panel' = panel \/ Gets(panel, panel.height, panel.current, panel')
  BY <1>1, <1>4, AccessGets
<1>6. CASE panel' = panel
  BY <1>2, <1>3, <1>6, NothingMoves
<1>7. CASE Gets(panel, panel.height, panel.current, panel')
  <2>1. Observable' = Observable
    BY DEF Observable, Selected, HasPrimary, CoreRoot
  <2>2. InPlace => InPlace'
    BY <1>4, <1>7, <2>1 DEF InPlace, Gets, Coherent
  <2> QED BY <1>2, <1>3, <1>7, <2>2 DEF KeepsUp, Gets
<1> QED BY <1>5, <1>6, <1>7

(* The launcher and the keyboard keep the panel where it is.               *)
LEMMA UserStepFollows ==
    ASSUME IInv, FollowsInv, faults' = 0, UserStep
    PROVE  KeepsUp'
<1>1. CASE LauncherActivated
  <2>1. UNCHANGED <<server, panel, op, theme, wire, faults>>
    BY <1>1 DEF LauncherActivated, panelVars
  <2> QED BY <2>1, NothingMoves DEF FollowsInv, AllRead
<1>2. CASE OpenLauncher \/ DismissLauncher \/ ReleasePanelKeyboard
           \/ ReturnNotificationFocusToPanel
  <2>1. op = Idle /\ UNCHANGED <<server, op, theme>>
    BY <1>2, Zenon DEF OpenLauncher, DismissLauncher, ReleasePanelKeyboard,
       ReturnNotificationFocusToPanel, Requested, Handles
  <2>2. \E r : /\ r \in ReleaseIfAny \/ r \in RequestKeyboardAccess(panel)
               /\ Charge(r.ok) /\ panel' = r.panel
               /\ RoundTrip \/ UNCHANGED wire
    <3>1. ASSUME NEW outcomes, Keyboard(outcomes)
          PROVE  \E r \in outcomes : /\ Charge(r.ok) /\ panel' = r.panel
                                     /\ RoundTrip \/ UNCHANGED wire
      BY <3>1, Zenon DEF Keyboard
    <3>2. CASE OpenLauncher
      <4>1. PICK r \in ReleaseIfAny : Keyboard({r})
        BY <3>2, Zenon DEF OpenLauncher
      <4> QED BY <4>1, <3>1
    <3>3. CASE DismissLauncher
      <4>1. Keyboard(ReleaseIfAny) \/ Keyboard(RequestKeyboardAccess(panel))
        <5>1. PICK toPanel \in BOOLEAN : Dismiss(toPanel)
          BY <3>3 DEF DismissLauncher
        <5> QED BY <5>1 DEF Dismiss
      <4> QED BY <4>1, <3>1, Zenon
    <3>4. CASE ReleasePanelKeyboard \/ ReturnNotificationFocusToPanel
      BY <3>1, <3>4, Zenon DEF ReleasePanelKeyboard, ReturnNotificationFocusToPanel
    <3> QED BY <1>2, <3>2, <3>3, <3>4, Zenon
  <2> QED BY <2>1, <2>2, KeyboardFollows
<1> QED BY <1>1, <1>2, Zenon DEF UserStep

(* The update of an operation has the height it was asked for.             *)
LEMMA HeightKept ==
    ASSUME IInv, HeightInv, [Next]_vars
    PROVE  HeightInv'
<1>1. ASSUME UNCHANGED op PROVE HeightInv'
  BY <1>1 DEF HeightInv
<1>2. ASSUME End PROVE HeightInv'
  BY <1>2 DEF End, HeightInv
<1>3. ASSUME NEW kind, NEW h, Begin(kind, h) PROVE HeightInv'
  BY <1>3, BeginReads DEF HeightInv
<1>4. CASE QueryStep
  <2>1. /\ op # Idle /\ UNCHANGED server /\ DOMAIN op = OpFields
        /\ Reads \/ Go("end") \/ Go("malformed")
    BY <1>4, QueryStepSummary DEF IInv, QueryInv
  <2>2. CASE Reads
    BY <2>1, <2>2, ReadsFollow DEF IInv
  <2>3. CASE Go("end") \/ Go("malformed")
    <3>1. op'.update = op.update /\ op'.height = op.height
      BY <2>1, <2>3 DEF Go, OpFields
    <3> QED BY <2>1, <3>1 DEF HeightInv
  <2> QED BY <2>1, <2>2, <2>3
<1>5. CASE SettingsStep
  <2>1. UNCHANGED op \/ \E kind, h : Begin(kind, h)
    BY <1>5, Zenon DEF SettingsStep, SettingsSnapshot, CreatePresentationEpoch,
       UpdatePresentationEpoch, LoseSettingsOwner
  <2> QED BY <2>1, <1>1, <1>3
<1>6. CASE UserStep \/ HandleX11Loss \/ UNCHANGED vars
  <2>1. UNCHANGED op
    BY <1>6, Zenon DEF UserStep, OpenLauncher, DismissLauncher, LauncherActivated,
       ReleasePanelKeyboard, ReturnNotificationFocusToPanel, Requested, HandleX11Loss,
       vars, panelVars
  <2> QED BY <2>1, <1>1
<1>7. CASE Complete
  <2>1. End \/ \E kind, h : Begin(kind, h)
    BY <1>7, Zenon DEF Complete, CompleteCreate, CompleteHeight, CompleteRollback,
       CompleteRefresh
  <2> QED BY <2>1, <1>2, <1>3
<1>8. CASE DrainEvents
  <2>1. UNCHANGED op \/ \E kind, h : Begin(kind, h)
    BY <1>8, Zenon DEF DrainEvents
  <2> QED BY <2>1, <1>1, <1>3
<1>9. CASE ServerStep
  <2>1. UNCHANGED op
    BY <1>9, ServerStepSummary DEF IInv
  <2> QED BY <2>1, <1>1
<1> QED BY <1>4, <1>5, <1>6, <1>7, <1>8, <1>9, Zenon DEF Next, ShellStep

(* Every step keeps the panel following the server.                        *)
LEMMA NextFollows ==
    ASSUME IInv, FollowsInv, [Next]_vars
    PROVE  FollowsInv'
<1>1. WireInv' /\ HeightInv'
  BY WireKept, HeightKept DEF FollowsInv
<1>2. ASSUME faults' = 0 PROVE KeepsUp'
  <2>1. CASE UNCHANGED vars
    <3>1. UNCHANGED <<server, panel, op, theme, wire, faults>>
      BY <2>1 DEF vars, panelVars, shellVars
    <3> QED BY <1>2, <3>1, NothingMoves DEF FollowsInv, AllRead
  <2>2. CASE ServerStep /\ UNCHANGED shellVars
    <3>1. faults = 0
      BY <1>2, <2>2, ServerStepSummary DEF IInv
    <3> QED BY <1>2, <2>2, <3>1, ServerStepFollows DEF IInv, FollowsInv
  <2>3. CASE HandleX11Loss
    <3>1. UNCHANGED <<server, panel, op, theme, wire, faults>>
      BY <2>3 DEF HandleX11Loss, panelVars
    <3> QED BY <1>2, <3>1, NothingMoves DEF FollowsInv, AllRead
  <2>4. CASE QueryStep /\ UNCHANGED shellVars
    BY <1>2, <2>4, QueryStepFollows
  <2>5. CASE SettingsStep \/ UserStep \/ Complete \/ DrainEvents
    BY <1>2, <2>5, SettingsStepFollows, UserStepFollows, CompleteFollows, DrainEventsFollows
  <2> QED BY <2>1, <2>2, <2>3, <2>4, <2>5, Zenon DEF Next, ShellStep
<1> QED BY <1>1, <1>2 DEF FollowsInv

(* A panel at rest, with every hint read and nothing failed, is shown      *)
(* where the present outputs put it and has the theme's height, however    *)
(* often the server changed during its queries (PanelWindowHost.cpp        *)
(* drainEvents, refreshTopology, setPanelHeight; RandrTopology.cpp query). *)
THEOREM PanelKeepsUp == Spec => []UpToDateWhenQuiet
<1>1. Init => FollowsInv
  BY DEF Init, ServerInit, FollowsInv, WireInv, HeightInv, KeepsUp, NoPanel
<1>2. IInv /\ FollowsInv /\ [Next]_vars => FollowsInv'
  BY NextFollows
<1>3. FollowsInv => UpToDateWhenQuiet
  <2> SUFFICES ASSUME FollowsInv, panel.notifier, op = Idle, AllRead, faults = 0
               PROVE  LET update == Prepare(Observable, panel.height) IN
                      /\ theme = panel.height
                      /\ Ok(update) => panel.visible /\ panel.applied = update.value.placement
    BY Zenon DEF UpToDateWhenQuiet, AllRead
  <2>1. panel.notifier = TRUE
    OBVIOUS
  <2> QED BY <2>1 DEF FollowsInv, KeepsUp, InPlace
<1> QED BY <1>1, <1>2, <1>3, InductiveInvariant, PTL DEF Spec
=============================================================================
