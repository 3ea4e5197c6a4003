---------------------------- MODULE EwmhTasksProofs ----------------------------
(***************************************************************************)
(* Proofs about EwmhTasks for every finite set of windows and all bounds:  *)
(* what the user may ask for rests on a settled snapshot, and a lifetime   *)
(* that the shell shows stands for one window.                             *)
(*                                                                         *)
(* The second needs a chain: a refresh gives a window a name (incarnation) *)
(* that no other window had, a name is given a lifetime that no other name *)
(* had, and a window that is born or gone under the same XID has an event  *)
(* in flight.  While the event is, the window is dirty and nothing is      *)
(* claimed of it; when it is drained, the name goes.                       *)
(***************************************************************************)
EXTENDS EwmhTasks, SequenceTheorems, FiniteSetTheorems, WellFoundedInduction, TLAPS

-----------------------------------------------------------------------------
(* The inductive invariant.                                                *)

(* An identifier below the next one; none is left at 0.                    *)
Before(n, next) == next = 0 \/ n < next
IdOrNone == 0..LastId

Controllers == [alive : BOOLEAN, timer : BOOLEAN, delay : Nat,
                drain : BOOLEAN, adapter : BOOLEAN, lost : BOOLEAN]
Events == [kind : {"hint", "topology", "malformed"}, window : Windows \cup {NoWindow}]

Typed ==
    /\ ctl \in Controllers
    /\ source = [owner |-> source.owner, next |-> source.next, inc |-> source.inc]
    /\ source.next \in IdOrNone
    /\ model = [tracked |-> model.tracked, nextLifetime |-> model.nextLifetime,
                nextGeneration |-> model.nextGeneration]
    /\ model.nextLifetime \in IdOrNone /\ model.nextGeneration \in IdOrNone
    /\ refresh = [phase |-> refresh.phase, caller |-> refresh.caller,
                  attempt |-> refresh.attempt, owner |-> refresh.owner, list |-> refresh.list,
                  inc |-> refresh.inc, next |-> refresh.next, todo |-> refresh.todo,
                  got |-> refresh.got, torn |-> refresh.torn]
    /\ refresh.phase \in {"none", "root", "windows", "adapter"}
    /\ refresh.next \in IdOrNone
    /\ shown.generation \in IdOrNone
    /\ \A r \in pending : r.issued \in IdOrNone

ServerTyped ==
    /\ server = [up |-> server.up, root |-> server.root, owner |-> server.owner,
                 births |-> server.births, birth |-> server.birth, look |-> server.look,
                 list |-> server.list, active |-> server.active, hidden |-> server.hidden,
                 watched |-> server.watched, gone |-> server.gone]
    /\ DOMAIN server.birth = Windows
    /\ server.list \subseteq Windows
    /\ socket \in Seq(Events) /\ buffered \in Seq(Events)

(* The adapter goes with a refresh; the first one finds no timer.          *)
Settled ==
    /\ AdapterMeansSettled
    /\ refresh.phase # "none" =>
           /\ ctl.alive /\ ~ctl.adapter
           /\ refresh.caller \in {"create", "drain", "retry"}
           /\ refresh.caller = "create" => ~ctl.timer /\ ctl.delay = 0
    /\ refresh.phase = "adapter" => NextId(shown.generation) = model.nextGeneration

Requests ==
    /\ PendingIsOpen
    /\ \A r \in pending : Before(r.issued, model.nextGeneration)
    /\ \A t \in shown.tasks :
           [window |-> t.window, incarnation |-> t.incarnation] \in shown.clients

RequestsIInv == Typed /\ Settled /\ Requests

-----------------------------------------------------------------------------
(* Lifetimes.                                                              *)

Dirty == InvalidatedWindows(buffered \o socket)

(* What the names and the lifetimes were given to.                         *)
Names ==
    /\ \A w \in DOMAIN source.inc : source.inc[w] \in 1..LastId /\ Before(source.inc[w], source.next)
    /\ \A w \in DOMAIN model.tracked :
           /\ model.tracked[w] = [incarnation |-> model.tracked[w].incarnation,
                                  lifetime |-> model.tracked[w].lifetime]
           /\ model.tracked[w].incarnation \in 1..LastId
           /\ Before(model.tracked[w].incarnation, source.next)

Lifetimes ==
    /\ \A w \in DOMAIN model.tracked :
           /\ model.tracked[w].lifetime \in IdOrNone
           /\ Before(model.tracked[w].lifetime, model.nextLifetime)
    /\ \A v, w \in DOMAIN model.tracked :
           model.tracked[v].lifetime = model.tracked[w].lifetime /\ v # w
               => model.tracked[v].lifetime = 0
    /\ \A p \in presented :
           p.lifetime \in 1..LastId /\ Before(p.lifetime, model.nextLifetime)

(* The names of a refresh: those of the source, or new ones.               *)
Naming ==
    refresh.phase = "windows" =>
        /\ refresh.list \subseteq Windows /\ refresh.todo \subseteq refresh.list
        /\ DOMAIN refresh.got = refresh.list \ refresh.todo
        /\ DOMAIN refresh.got \subseteq DOMAIN refresh.inc
        /\ refresh.next = 0 \/ (source.next # 0 /\ source.next <= refresh.next)
        /\ \A w \in DOMAIN refresh.inc :
               /\ refresh.inc[w] \in 1..LastId /\ Before(refresh.inc[w], refresh.next)
               /\ \/ (w \in DOMAIN source.inc /\ refresh.inc[w] = source.inc[w])
                  \/ (source.next # 0 /\ refresh.inc[w] >= source.next)

(* What was read of a window is still so, unless an event tells.           *)
ReadBirths ==
    refresh.phase = "windows" =>
        \A w \in DOMAIN refresh.got :
            refresh.got[w] # NoMetadata /\ w \notin Dirty => refresh.got[w].birth = server.birth[w]

(* A lifetime that goes on has shown one window, unless an event tells.    *)
Continues(w) ==
    /\ w \in DOMAIN model.tracked /\ w \in DOMAIN source.inc
    /\ source.inc[w] = model.tracked[w].incarnation

OneBirth ==
    ctl.alive /\ ~ctl.lost =>
        \A w \in Windows : Continues(w) /\ w \notin Dirty =>
            \A p \in presented :
                p.lifetime = model.tracked[w].lifetime => p.birth = server.birth[w]

(* After a successful refresh every task goes on.                          *)
ShownGoesOn ==
    (refresh.phase = "adapter" \/ ctl.adapter) /\ ~ctl.lost =>
        \A t \in shown.tasks :
            /\ t.window \in Windows /\ Continues(t.window)
            /\ t.lifetime = model.tracked[t.window].lifetime
            /\ t.window \notin Dirty => t.birth = server.birth[t.window]

IInv == RequestsIInv /\ ServerTyped /\ Names /\ Lifetimes /\ Naming /\ ReadBirths
        /\ OneBirth /\ ShownGoesOn
-----------------------------------------------------------------------------
(* Events.                                                                 *)

(* Which windows a batch of events invalidates.                            *)
LEMMA Invalidated ==
    ASSUME NEW s, NEW w
    PROVE  w \in InvalidatedWindows(s)
               <=> \E i \in DOMAIN s : s[i].kind = "topology" /\ s[i].window = w
BY DEF InvalidatedWindows

(* What two batches invalidate together.                                   *)
LEMMA InvalidatedByBoth ==
    ASSUME NEW a \in Seq(Events), NEW b \in Seq(Events)
    PROVE  InvalidatedWindows(a \o b) = InvalidatedWindows(a) \cup InvalidatedWindows(b)
<1> DEFINE c == a \o b
<1>1. /\ c \in Seq(Events) /\ Len(a) \in Nat /\ Len(b) \in Nat /\ Len(c) = Len(a) + Len(b)
      /\ DOMAIN a = 1..Len(a) /\ DOMAIN b = 1..Len(b) /\ DOMAIN c = 1..Len(c)
      /\ \A i \in 1 .. Len(a) + Len(b) : c[i] = IF i <= Len(a) THEN a[i] ELSE b[i - Len(a)]
  BY ConcatProperties, LenProperties, Zenon
<1> HIDE DEF c
<1>2. \A i \in DOMAIN a : i \in DOMAIN c /\ c[i] = a[i]
  BY <1>1
<1>3. \A i \in DOMAIN b : i + Len(a) \in DOMAIN c /\ c[i + Len(a)] = b[i]
  BY <1>1
<1>4. \A i \in DOMAIN c : \/ (i \in DOMAIN a /\ c[i] = a[i])
                           \/ (i - Len(a) \in DOMAIN b /\ c[i] = b[i - Len(a)])
  BY <1>1
<1>5. InvalidatedWindows(c) = InvalidatedWindows(a) \cup InvalidatedWindows(b)
  <2>1. ASSUME NEW w, w \in InvalidatedWindows(c)
        PROVE  w \in InvalidatedWindows(a) \/ w \in InvalidatedWindows(b)
    BY <1>4, <2>1, Invalidated
  <2>2. ASSUME NEW w, w \in InvalidatedWindows(a) PROVE w \in InvalidatedWindows(c)
    BY <1>2, <2>2, Invalidated
  <2>3. ASSUME NEW w, w \in InvalidatedWindows(b) PROVE w \in InvalidatedWindows(c)
    BY <1>3, <2>3, Invalidated
  <2> QED BY <2>1, <2>2, <2>3
<1> QED BY <1>5 DEF c

(* A batch of none, and of one.                                            *)
LEMMA InvalidatedByOne ==
    /\ InvalidatedWindows(<<>>) = {}
    /\ \A w : InvalidatedWindows(<<Event("topology", w)>>) = {w}
    /\ \A w : InvalidatedWindows(<<Event("malformed", w)>>) = {}
    /\ InvalidatedWindows(<<Hint>>) = {}
<1>1. \A w : w \notin InvalidatedWindows(<<>>)
  BY Invalidated
<1>2. ASSUME NEW kind, NEW v, NEW w
      PROVE  w \in InvalidatedWindows(<<Event(kind, v)>>) <=> kind = "topology" /\ w = v
  <2> DEFINE s == <<Event(kind, v)>>
  <2>1. DOMAIN s = {1} /\ s[1].kind = kind /\ s[1].window = v
    BY DEF Event
  <2> HIDE DEF s
  <2>2. w \in InvalidatedWindows(s) <=> kind = "topology" /\ w = v
    BY <2>1, Invalidated
  <2> QED BY <2>2 DEF s
<1>3. Hint = Event("hint", NoWindow)
  BY DEF Hint
<1> QED BY <1>1, <1>2, <1>3

(* What follows the first n elements.                                      *)
LEMMA WhatFollows ==
    ASSUME NEW S, NEW s \in Seq(S), NEW n \in 0..Len(s)
    PROVE  /\ SubSeq(s, n + 1, Len(s)) \in Seq(S) /\ Len(SubSeq(s, n + 1, Len(s))) = Len(s) - n
           /\ \A i \in 1 .. Len(s) - n : SubSeq(s, n + 1, Len(s))[i] = s[i + n]
<1> DEFINE b == SubSeq(s, n + 1, Len(s))
<1>1. Len(s) \in Nat /\ n \in Nat /\ n <= Len(s) /\ \A i \in (n + 1)..Len(s) : s[i] \in S
  OBVIOUS
<1> HIDE DEF b
<1>2. /\ b \in Seq(S) /\ Len(b) = IF n + 1 <= Len(s) THEN Len(s) - (n + 1) + 1 ELSE 0
      /\ \A i \in 1..(Len(s) - (n + 1) + 1) : b[i] = s[(n + 1) + i - 1]
  BY <1>1, SubSeqProperties DEF b
<1>3. b \in Seq(S) /\ Len(b) = Len(s) - n /\ \A i \in 1 .. Len(s) - n : b[i] = s[i + n]
  BY <1>1, <1>2
<1> QED BY <1>3 DEF b

(* What a batch cut in two invalidates.                                    *)
LEMMA InvalidatedByParts ==
    ASSUME NEW s \in Seq(Events), NEW n \in 0..Len(s)
    PROVE  /\ SubSeq(s, 1, n) \in Seq(Events) /\ Drop(s, n) \in Seq(Events)
           /\ InvalidatedWindows(s) =
                  InvalidatedWindows(SubSeq(s, 1, n)) \cup InvalidatedWindows(Drop(s, n))
<1> DEFINE a == SubSeq(s, 1, n)
           b == SubSeq(s, n + 1, Len(s))
<1>1. Len(s) \in Nat /\ n \in Nat /\ n <= Len(s) /\ DOMAIN s = 1..Len(s)
  BY LenProperties
<1>2. a \in Seq(Events) /\ Len(a) = n /\ \A i \in 1..n : a[i] = s[i]
  BY <1>1
<1>3. b \in Seq(Events) /\ Len(b) = Len(s) - n /\ \A i \in 1 .. Len(s) - n : b[i] = s[i + n]
  BY WhatFollows, Zenon
<1>4. DOMAIN a = 1..n /\ DOMAIN b = 1 .. Len(s) - n
  BY <1>2, <1>3, LenProperties, Zenon
<1> HIDE DEF a, b
<1>5. \A i \in DOMAIN a : i \in DOMAIN s /\ s[i] = a[i]
  BY <1>1, <1>2, <1>4
<1>6. \A i \in DOMAIN b : i + n \in DOMAIN s /\ s[i + n] = b[i]
  BY <1>1, <1>3, <1>4
<1>7. \A i \in DOMAIN s : \/ (i \in DOMAIN a /\ s[i] = a[i])
                           \/ (i - n \in DOMAIN b /\ s[i] = b[i - n])
  <2> TAKE i \in DOMAIN s
  <2>1. i \in 1..Len(s)
    BY <1>1
  <2>2. CASE i <= n
    BY <1>1, <1>2, <1>4, <2>1, <2>2
  <2>3. CASE ~(i <= n)
    <3>1. i - n \in 1 .. Len(s) - n /\ (i - n) + n = i
      BY <1>1, <2>1, <2>3
    <3> QED BY <1>3, <1>4, <3>1
  <2> QED BY <2>2, <2>3
<1>8. InvalidatedWindows(s) = InvalidatedWindows(a) \cup InvalidatedWindows(b)
  <2>1. ASSUME NEW w, w \in InvalidatedWindows(s)
        PROVE  w \in InvalidatedWindows(a) \/ w \in InvalidatedWindows(b)
    BY <1>7, <2>1, Invalidated
  <2>2. ASSUME NEW w, w \in InvalidatedWindows(a) PROVE w \in InvalidatedWindows(s)
    BY <1>5, <2>2, Invalidated
  <2>3. ASSUME NEW w, w \in InvalidatedWindows(b) PROVE w \in InvalidatedWindows(s)
    BY <1>6, <2>3, Invalidated
  <2> QED BY <2>1, <2>2, <2>3
<1> QED BY <1>2, <1>3, <1>8 DEF a, b, Drop

(* A round trip loses no event.                                            *)
LEMMA RoundTripKeepsDirty ==
    ASSUME ServerTyped, RoundTrip
    PROVE  /\ Dirty' = Dirty
           /\ socket' \in Seq(Events) /\ buffered' \in Seq(Events)
<1>1. socket' = <<>> /\ buffered' = buffered \o socket
  BY DEF RoundTrip
<1>2. <<>> \in Seq(Events) /\ buffered \o socket \in Seq(Events)
  BY ConcatProperties DEF ServerTyped
<1>3. Dirty' = InvalidatedWindows(buffered \o socket) \cup {}
  BY <1>1, <1>2, InvalidatedByBoth, InvalidatedByOne, Zenon DEF Dirty
<1> QED BY <1>1, <1>2, <1>3 DEF Dirty

(* Sending an event adds its window.                                       *)
LEMMA SendingAddsDirty ==
    ASSUME ServerTyped, NEW events \in Seq(Events), Sends(events), UNCHANGED buffered
    PROVE  /\ Dirty' = Dirty \cup InvalidatedWindows(events)
           /\ socket' \in Seq(Events) /\ buffered' \in Seq(Events)
<1>1. socket' = socket \o events /\ buffered' = buffered
  BY DEF Sends
<1>2. socket' \in Seq(Events) /\ socket \in Seq(Events) /\ buffered \in Seq(Events)
  BY <1>1, ConcatProperties DEF ServerTyped
<1>3. Dirty' = InvalidatedWindows(buffered) \cup InvalidatedWindows(socket')
  BY <1>1, <1>2, InvalidatedByBoth, Zenon DEF Dirty
<1>4. Dirty = InvalidatedWindows(buffered) \cup InvalidatedWindows(socket)
  BY <1>2, InvalidatedByBoth, Zenon DEF Dirty
<1>5. InvalidatedWindows(socket') = InvalidatedWindows(socket) \cup InvalidatedWindows(events)
  BY <1>1, <1>2, InvalidatedByBoth, Zenon
<1> QED BY <1>1, <1>2, <1>3, <1>4, <1>5

-----------------------------------------------------------------------------
(* The end of a refresh.                                                   *)

Ended ==
    /\ refresh' = NotRefreshing
    /\ ctl' \in Controllers /\ ~ctl'.adapter /\ ctl'.lost = ctl.lost

(* What resetting the stabilization and a failure do to the controller.    *)
LEMMA Resets ==
    ASSUME NEW c \in Controllers
    PROVE  LET d == ResetStabilization(c)
           IN  /\ d \in Controllers /\ ~d.timer /\ d.delay = 0
               /\ d.adapter = c.adapter /\ d.lost = c.lost /\ d.alive = c.alive
BY DEF ResetStabilization, Controllers

(* A failure is retried later or not at all; nothing else is touched.      *)
LEMMA Handles ==
    ASSUME NEW c \in Controllers, NEW failure
    PROVE  LET d == HandleRefreshFailure(c, failure)
           IN  d \in Controllers /\ d.adapter = c.adapter /\ d.lost = c.lost
<1>1. CASE ~TaskRefreshFailureCanStabilize(failure)
  BY <1>1, Resets, Zenon DEF HandleRefreshFailure
<1>2. CASE TaskRefreshFailureCanStabilize(failure) /\ c.delay >= Delays
  BY <1>2, Zenon DEF HandleRefreshFailure
<1>3. CASE TaskRefreshFailureCanStabilize(failure) /\ ~(c.delay >= Delays)
  <2>1. HandleRefreshFailure(c, failure) = [c EXCEPT !.delay = @ + 1, !.timer = TRUE]
    BY <1>3, Zenon DEF HandleRefreshFailure
  <2> DEFINE d == [c EXCEPT !.delay = @ + 1, !.timer = TRUE]
  <2>2. c.delay + 1 \in Nat
    BY DEF Controllers
  <2>3. d \in Controllers /\ d.adapter = c.adapter /\ d.lost = c.lost
    BY <2>2 DEF Controllers
  <2> HIDE DEF d
  <2> QED BY <2>1, <2>3, Zenon DEF d
<1> QED BY <1>1, <1>2, <1>3, Zenon

(* However a refresh fails, it is over and the adapter is gone.            *)
LEMMA FailureEnds ==
    ASSUME Typed, Settled, refresh.phase # "none",
           NEW failure, failure # "none", EndRefresh(ctl, failure)
    PROVE  Ended
<1>1. ctl \in Controllers /\ ~ctl.adapter /\ refresh.caller \in {"create", "drain", "retry"}
  BY DEF Typed, Settled
<1>2. ctl' \in {Terminated(ctl), AfterDrain(ctl, failure), AfterRetry(ctl, failure),
                AfterCreate(ctl, failure)}
  BY <1>1, Zenon DEF EndRefresh
<1>3. \A c \in {ResetStabilization(ctl), HandleRefreshFailure(ctl, failure)} :
          c \in Controllers /\ ~c.adapter /\ c.lost = ctl.lost
  BY <1>1, Resets, Handles
<1>4. HandleRefreshFailure(ctl, failure) = AfterRetry(ctl, failure)
      /\ HandleRefreshFailure(ctl, failure) = AfterCreate(ctl, failure)
  BY DEF AfterRetry, AfterCreate
<1>5. \A c \in {Terminated(ctl), AfterDrain(ctl, failure)} :
          c \in Controllers /\ ~c.adapter /\ c.lost = ctl.lost
  BY <1>1, <1>3 DEF AfterDrain, Terminated, Controllers
<1> QED BY <1>2, <1>3, <1>4, <1>5 DEF Ended, EndRefresh

(* A refresh that ends without a publication.                              *)
LEMMA EndedKeepsIInv ==
    ASSUME IInv, refresh.phase # "none", Ended, RoundTrip,
           ServerTyped', server'.birth = server.birth,
           UNCHANGED <<source, model, shown, pending, presented>>
    PROVE  IInv'
<1> USE DEF IInv, RequestsIInv
<1>1. Typed'
  BY TasksAssumption DEF Typed, Ended, NotRefreshing, IdOrNone
<1>2. Settled'
  BY DEF Settled, AdapterMeansSettled, Ended, NotRefreshing
<1>3. Requests'
  BY DEF Requests, PendingIsOpen, Authoritative
<1>4. Names' /\ Lifetimes'
  BY DEF Names, Lifetimes
<1>5. Naming' /\ ReadBirths'
  BY DEF Naming, ReadBirths, Ended, NotRefreshing
<1>6. Dirty' = Dirty
  BY RoundTripKeepsDirty
<1>7. OneBirth'
  BY <1>6 DEF OneBirth, Ended, Continues, Settled
<1>8. ShownGoesOn'
  BY DEF ShownGoesOn, Ended, NotRefreshing
<1> QED BY <1>1, <1>2, <1>3, <1>4, <1>5, <1>7, <1>8

(* The root is read: the names in use are those of its owner, if he is the *)
(* last one.                                                               *)
LEMMA ReadRootKeepsIInv == ASSUME IInv, ReadRoot PROVE IInv'
<1>1. /\ refresh.phase = "root" /\ RoundTrip
      /\ UNCHANGED <<server, source, model, shown, pending, presented>>
  BY DEF ReadRoot
<1>2. ServerTyped'
  BY <1>1, RoundTripKeepsDirty DEF IInv, ServerTyped
<1>3. CASE \E failure : failure # "none" /\ EndRefresh(ctl, failure)
  <2>1. Ended
    BY <1>1, <1>3, FailureEnds DEF IInv, RequestsIInv
  <2> QED BY <1>1, <1>2, <2>1, EndedKeepsIInv
<1>4. CASE /\ refresh' = [refresh EXCEPT
                  !.phase = "windows", !.owner = server.owner, !.list = server.list,
                  !.todo = server.list, !.got = <<>>, !.next = source.next,
                  !.inc = IF source.owner = server.owner THEN source.inc ELSE <<>>]
           /\ UNCHANGED ctl
  <2> USE DEF IInv, RequestsIInv
  <2>1. /\ Typed' /\ refresh'.phase = "windows" /\ refresh'.caller = refresh.caller
        /\ refresh'.list = server.list /\ refresh'.todo = server.list
        /\ refresh'.got = <<>> /\ refresh'.next = source.next
        /\ refresh'.inc = IF source.owner = server.owner THEN source.inc ELSE <<>>
    BY <1>1, <1>4 DEF Typed
  <2>2. Settled'
    BY <1>1, <1>4, <2>1 DEF Settled, AdapterMeansSettled
  <2>3. Requests'
    BY <1>1 DEF Requests, PendingIsOpen, Authoritative
  <2>4. Names' /\ Lifetimes'
    BY <1>1 DEF Names, Lifetimes
  <2>5. DOMAIN refresh'.got = {}
    BY <2>1
  <2>6. Naming'
    <3>1. /\ server.list \subseteq Windows /\ DOMAIN refresh'.inc \subseteq DOMAIN source.inc
          /\ \A w \in DOMAIN refresh'.inc : refresh'.inc[w] = source.inc[w]
      BY <2>1 DEF ServerTyped
    <3>2. source.next \in Nat
      BY DEF Typed, IdOrNone
    <3> QED BY <1>1, <2>1, <2>5, <3>1, <3>2 DEF Naming, Names
  <2>7. ReadBirths'
    BY <2>5 DEF ReadBirths
  <2>8. Dirty' = Dirty
    BY <1>1, RoundTripKeepsDirty
  <2>9. OneBirth'
    BY <1>1, <1>4, <2>8 DEF OneBirth, Continues
  <2>10. ShownGoesOn'
    BY <1>1, <1>4, <2>1 DEF ShownGoesOn, Settled
  <2> QED BY <1>2, <2>1, <2>2, <2>3, <2>4, <2>6, <2>7, <2>9, <2>10
<1> QED BY <1>3, <1>4 DEF ReadRoot

(* What a window shows is its present birth's.                             *)
LEMMA ReadsBirth ==
    ASSUME NEW w, ReadMetadata(w) # NoMetadata
    PROVE  ReadMetadata(w).birth = server.birth[w]
BY DEF ReadMetadata, DecodeWindowMetadata

(* A window is named and read, and is as it was read until an event tells. *)
LEMMA ReadWindowKeepsIInv == ASSUME IInv, NEW w \in Windows, ReadWindow(w) PROVE IInv'
<1>1. /\ refresh.phase = "windows" /\ w \in refresh.todo /\ RoundTrip
      /\ UNCHANGED <<source, model, shown, pending, presented>>
  BY DEF ReadWindow
<1>2. /\ server'.birth = server.birth
      /\ server' \in {server, [server EXCEPT !.watched = @ \cup {w}]}
  BY DEF ReadWindow, IInv, ServerTyped
<1>3. ServerTyped'
  BY <1>1, <1>2, RoundTripKeepsDirty DEF IInv, ServerTyped
<1>4. CASE \E failure : failure # "none" /\ EndRefresh(ctl, failure)
  <2>1. Ended
    BY <1>1, <1>4, FailureEnds DEF IInv, RequestsIInv
  <2> QED BY <1>1, <1>2, <1>3, <2>1, EndedKeepsIInv
<1>5. CASE /\ w \in DOMAIN refresh.inc \/ refresh.next # 0
           /\ refresh' = [refresh EXCEPT !.todo = @ \ {w},
                  !.got = Stored(@, w, ReadMetadata(w)),
                  !.inc = IF w \in DOMAIN @ THEN @ ELSE Stored(@, w, refresh.next),
                  !.next = IF w \in DOMAIN refresh.inc THEN @ ELSE NextId(@)]
           /\ UNCHANGED ctl
  <2> USE DEF IInv, RequestsIInv
  <2> DEFINE m == ReadMetadata(w)
  <2>1. /\ refresh'.phase = "windows" /\ refresh'.caller = refresh.caller
        /\ refresh'.list = refresh.list /\ refresh'.todo = refresh.todo \ {w}
        /\ refresh'.got = Stored(refresh.got, w, m)
        /\ refresh'.inc = IF w \in DOMAIN refresh.inc THEN refresh.inc
                          ELSE Stored(refresh.inc, w, refresh.next)
        /\ refresh'.next = IF w \in DOMAIN refresh.inc THEN refresh.next ELSE NextId(refresh.next)
        /\ refresh' = [phase |-> refresh'.phase, caller |-> refresh'.caller,
                  attempt |-> refresh'.attempt, owner |-> refresh'.owner, list |-> refresh'.list,
                  inc |-> refresh'.inc, next |-> refresh'.next, todo |-> refresh'.todo,
                  got |-> refresh'.got, torn |-> refresh'.torn]
    <3> HIDE DEF m
    <3> QED BY <1>1, <1>5 DEF Typed, m
  <2>2. /\ DOMAIN refresh'.got = DOMAIN refresh.got \cup {w} /\ refresh'.got[w] = m
        /\ \A v \in DOMAIN refresh.got : v # w => refresh'.got[v] = refresh.got[v]
    <3> HIDE DEF m
    <3> QED BY <2>1 DEF Stored
  <2>3. /\ DOMAIN refresh'.inc = DOMAIN refresh.inc \cup {w}
        /\ \A v \in DOMAIN refresh.inc : refresh'.inc[v] = refresh.inc[v]
        /\ w \notin DOMAIN refresh.inc => refresh'.inc[w] = refresh.next
    BY <2>1 DEF Stored
  <2> HIDE DEF m
  <2>4. LastId \in Nat /\ refresh.next \in 0..LastId
    BY TasksAssumption DEF Typed, IdOrNone
  <2>5. refresh'.next \in 0..LastId
    BY <2>1, <2>4 DEF NextId
  <2>6. Typed'
    BY <1>1, <1>5, <2>1, <2>5 DEF Typed, IdOrNone
  <2>7. Settled'
    BY <1>1, <1>5, <2>1 DEF Settled, AdapterMeansSettled
  <2>8. Requests'
    BY <1>1 DEF Requests, PendingIsOpen, Authoritative
  <2>9. Names' /\ Lifetimes'
    BY <1>1 DEF Names, Lifetimes
  <2>10. Naming'
    <3>1. /\ refresh.list \subseteq Windows /\ refresh.todo \subseteq refresh.list
          /\ DOMAIN refresh.got = refresh.list \ refresh.todo
          /\ DOMAIN refresh.got \subseteq DOMAIN refresh.inc
      BY <1>1 DEF Naming
    <3>2. refresh.next = 0 \/ (source.next # 0 /\ source.next <= refresh.next)
      BY <1>1 DEF Naming
    <3>3. source.next \in Nat /\ (w \notin DOMAIN refresh.inc => refresh.next # 0)
      BY <1>5 DEF Typed, IdOrNone
    <3>4. refresh'.next = 0 \/ (source.next # 0 /\ source.next <= refresh'.next)
      BY <2>1, <2>4, <3>2, <3>3 DEF NextId
    <3>5. ASSUME NEW v \in DOMAIN refresh.inc
          PROVE  /\ refresh'.inc[v] \in 1..LastId /\ Before(refresh'.inc[v], refresh'.next)
                 /\ \/ (v \in DOMAIN source.inc /\ refresh'.inc[v] = source.inc[v])
                    \/ (source.next # 0 /\ refresh'.inc[v] >= source.next)
      <4>1. /\ refresh.inc[v] \in 1..LastId /\ Before(refresh.inc[v], refresh.next)
            /\ \/ (v \in DOMAIN source.inc /\ refresh.inc[v] = source.inc[v])
               \/ (source.next # 0 /\ refresh.inc[v] >= source.next)
        BY <1>1 DEF Naming
      <4>2. Before(refresh.inc[v], refresh'.next)
        BY <2>1, <2>4, <3>3, <4>1 DEF Before, NextId
      <4> QED BY <2>3, <4>1, <4>2
    <3>6. ASSUME w \notin DOMAIN refresh.inc
          PROVE  /\ refresh'.inc[w] \in 1..LastId /\ Before(refresh'.inc[w], refresh'.next)
                 /\ source.next # 0 /\ refresh'.inc[w] >= source.next
      BY <2>1, <2>3, <2>4, <3>2, <3>3, <3>6 DEF Before, NextId
    <3>7. /\ refresh'.list \subseteq Windows /\ refresh'.todo \subseteq refresh'.list
          /\ DOMAIN refresh'.got = refresh'.list \ refresh'.todo
          /\ DOMAIN refresh'.got \subseteq DOMAIN refresh'.inc
      BY <1>1, <2>1, <2>2, <2>3, <3>1
    <3> QED BY <1>1, <2>3, <3>4, <3>5, <3>6, <3>7 DEF Naming
  <2>11. Dirty' = Dirty
    BY <1>1, RoundTripKeepsDirty
  <2>12. ReadBirths'
    BY <1>1, <1>2, <2>2, <2>11, ReadsBirth DEF ReadBirths, m
  <2>13. OneBirth'
    BY <1>1, <1>2, <1>5, <2>11 DEF OneBirth, Continues
  <2>14. ShownGoesOn'
    BY <1>1, <1>5, <2>1 DEF ShownGoesOn, Settled
  <2> QED BY <1>3, <2>6, <2>7, <2>8, <2>9, <2>10, <2>12, <2>13, <2>14
<1> QED BY <1>4, <1>5 DEF ReadWindow

-----------------------------------------------------------------------------
(* The publication.                                                        *)

Fresh == {w \in Included(refresh.got) : LifetimeOf(refresh.inc, w) = 0}
LifeWith(number) ==
    [w \in DOMAIN refresh.got |-> IF w \in Fresh THEN number[w] ELSE LifetimeOf(refresh.inc, w)]

(* The names and the lifetimes that are published, when all is read.       *)
Publishes(life) ==
    /\ model' = Publish(refresh.inc, refresh.got, Fresh, life)
    /\ source' = [owner |-> refresh.owner, next |-> refresh.next,
                  inc |-> Restrict(refresh.inc, refresh.list)]

(* A window that keeps its lifetime goes on: new names are new.            *)
LEMMA KeptContinues ==
    ASSUME IInv, refresh.phase = "windows", NEW w \in DOMAIN refresh.inc, Kept(refresh.inc, w)
    PROVE  Continues(w) /\ refresh.inc[w] = source.inc[w]
<1>1. /\ model.tracked[w].incarnation \in 1..LastId
      /\ Before(model.tracked[w].incarnation, source.next)
      /\ w \in DOMAIN model.tracked /\ model.tracked[w].incarnation = refresh.inc[w]
  BY DEF IInv, Names, Kept
<1>2. \/ (w \in DOMAIN source.inc /\ refresh.inc[w] = source.inc[w])
      \/ (source.next # 0 /\ refresh.inc[w] >= source.next)
  BY DEF IInv, Naming
<1>3. source.next \in Nat /\ LastId \in Nat
  BY TasksAssumption DEF IInv, RequestsIInv, Typed, IdOrNone
<1>4. ~(source.next # 0 /\ refresh.inc[w] >= source.next)
  BY <1>1, <1>3 DEF Before
<1> QED BY <1>1, <1>2, <1>4 DEF Continues

(* The lifetimes left, and how many are taken.                             *)
LEMMA FreshAreCounted ==
    ASSUME IInv, refresh.phase = "windows", ~Exhausted(Fresh)
    PROVE  /\ Cardinality(Fresh) \in Nat
           /\ model.nextLifetime = 0 => Fresh = {} /\ Cardinality(Fresh) = 0
           /\ model.nextLifetime + Cardinality(Fresh) - 1 <= LastId
           /\ model.nextLifetime \in 0..LastId /\ LastId \in Nat \ {0}
           /\ model.nextGeneration \in 1..LastId
<1>1. Fresh \subseteq Windows
  BY DEF IInv, Naming, Fresh, Included
<1>2. IsFiniteSet(Fresh)
  BY <1>1, FS_Subset, TasksAssumption, Zenon
<1>3. Cardinality(Fresh) \in Nat
  BY <1>2, FS_CardinalityType, Zenon
<1>4. model.nextLifetime \in 0..LastId /\ LastId \in Nat \ {0} /\ model.nextGeneration \in 0..LastId
  BY TasksAssumption DEF IInv, RequestsIInv, Typed, IdOrNone
<1>5. model.nextLifetime = 0 => Fresh = {} /\ Cardinality(Fresh) = 0
  BY FS_EmptySet, Zenon DEF Exhausted
<1>6. model.nextGeneration # 0 /\ ~(model.nextLifetime + Cardinality(Fresh) - 1 > LastId)
  BY Zenon DEF Exhausted
<1> HIDE DEF Fresh
<1> QED BY <1>3, <1>4, <1>5, <1>6

(* What is given to a window: the lifetime it continues, a new one, or     *)
(* none when it is no task.                                                *)
Given(life, w) ==
    /\ life[w] \in 0..LastId /\ Before(life[w], model'.nextLifetime)
    /\ \/ w \notin Fresh /\ life[w] = 0 /\ w \notin Included(refresh.got)
       \/ /\ w \notin Fresh /\ Continues(w) /\ life[w] = model.tracked[w].lifetime
          /\ Before(life[w], model.nextLifetime)
       \/ w \in Fresh /\ model.nextLifetime # 0 /\ life[w] >= model.nextLifetime
    /\ w \in Included(refresh.got) => life[w] # 0

(* Kept lifetimes are old, new ones are new, and all of them identifiers.  *)
LEMMA LifetimesAreGiven ==
    ASSUME IInv, refresh.phase = "windows", ~Exhausted(Fresh),
           NEW number \in Numbering(Fresh), Publishes(LifeWith(number))
    PROVE  /\ model'.nextLifetime \in IdOrNone
           /\ Before(0, model'.nextLifetime)
           /\ model.nextLifetime = 0 => model'.nextLifetime = 0
           /\ model'.nextLifetime # 0 => model.nextLifetime <= model'.nextLifetime
           /\ \A w \in DOMAIN refresh.got : Given(LifeWith(number), w)
<1> DEFINE n == model.nextLifetime
           C == Cardinality(Fresh)
           life == LifeWith(number)
<1>1. /\ C \in Nat /\ (n = 0 => Fresh = {} /\ C = 0)
      /\ n + C - 1 <= LastId /\ n \in 0..LastId /\ LastId \in Nat \ {0}
  BY FreshAreCounted
<1>2. model'.nextLifetime = IF n + C - 1 = LastId THEN 0 ELSE n + C
  BY DEF Publishes, Publish
<1>3. number \in [Fresh -> n .. (n + C - 1)]
  BY DEF Numbering
<1>4. \A w \in DOMAIN refresh.got : /\ w \in Fresh => life[w] = number[w]
                                    /\ w \notin Fresh => life[w] = LifetimeOf(refresh.inc, w)
  BY DEF LifeWith
<1> HIDE DEF n, C, life
<1>5. /\ model'.nextLifetime \in 0..LastId /\ Before(0, model'.nextLifetime)
      /\ (n = 0 => model'.nextLifetime = 0)
      /\ (model'.nextLifetime # 0 => n <= model'.nextLifetime)
      /\ model'.nextLifetime = 0 \/ (model'.nextLifetime = n + C /\ n # 0)
  BY <1>1, <1>2 DEF Before
<1>6. ASSUME NEW w \in DOMAIN refresh.got, w \in Fresh
      PROVE  /\ life[w] \in 1..LastId /\ life[w] >= n /\ n # 0
             /\ Before(life[w], model'.nextLifetime)
  <2>1. life[w] \in n .. (n + C - 1) /\ n # 0
    BY <1>1, <1>3, <1>4, <1>6
  <2> QED BY <1>1, <1>5, <2>1 DEF Before
<1>7. ASSUME NEW w \in DOMAIN refresh.got, w \notin Fresh
      PROVE  \/ life[w] = 0 /\ w \notin Included(refresh.got)
             \/ /\ Continues(w) /\ life[w] = model.tracked[w].lifetime
                /\ life[w] \in 0..LastId /\ Before(life[w], n)
                /\ w \in Included(refresh.got) => life[w] # 0
  <2>1. life[w] = LifetimeOf(refresh.inc, w) /\ (w \in Included(refresh.got) => life[w] # 0)
    BY <1>4, <1>7 DEF Fresh
  <2>2. CASE Kept(refresh.inc, w)
    <3>1. Continues(w)
      BY <2>2, KeptContinues DEF IInv, Naming
    <3>2. life[w] = model.tracked[w].lifetime
      BY <2>1, <2>2 DEF LifetimeOf
    <3> QED BY <2>1, <3>1, <3>2 DEF Continues, IInv, Lifetimes, IdOrNone, n
  <2>3. CASE ~Kept(refresh.inc, w)
    BY <2>1, <2>3 DEF LifetimeOf
  <2> QED BY <2>2, <2>3
<1>8. \A k : k \in 0..LastId /\ Before(k, n) => Before(k, model'.nextLifetime)
  BY <1>1, <1>5 DEF Before
<1>9. ASSUME NEW w \in DOMAIN refresh.got PROVE Given(life, w)
  <2>1. CASE w \in Fresh
    <3>1. life[w] \in 0..LastId /\ life[w] # 0
      BY <1>1, <1>6, <2>1
    <3> QED BY <1>6, <2>1, <3>1 DEF Given, n
  <2>2. CASE w \notin Fresh
    <3>1. 0 \in 0..LastId
      BY <1>1
    <3> QED BY <1>5, <1>7, <1>8, <2>2, <3>1, Zenon DEF Given, n
  <2> QED BY <2>1, <2>2
<1> QED BY <1>5, <1>9 DEF IdOrNone, n, life

(* No two windows have one lifetime.                                       *)
LEMMA GivenOnce ==
    ASSUME IInv, refresh.phase = "windows", ~Exhausted(Fresh),
           NEW number \in Numbering(Fresh), Publishes(LifeWith(number)),
           NEW v \in DOMAIN refresh.got, NEW w \in DOMAIN refresh.got,
           LifeWith(number)[v] = LifeWith(number)[w], LifeWith(number)[w] # 0
    PROVE  v = w
<1> DEFINE life == LifeWith(number)
<1>1. Given(life, v) /\ Given(life, w)
  BY LifetimesAreGiven, Zenon
<1>2. \A u \in DOMAIN refresh.got : u \in Fresh => life[u] = number[u]
  BY DEF LifeWith
<1> HIDE DEF life
<1>3. life[v] = life[w] /\ life[w] # 0
  BY Zenon DEF life
<1>4. model.nextLifetime \in Nat /\ life[v] \in Nat
  BY <1>1, TasksAssumption DEF IInv, RequestsIInv, Typed, IdOrNone, Given
<1>5. v \in Fresh <=> w \in Fresh
  BY <1>1, <1>3, <1>4 DEF Given, Before
<1>6. CASE v \in Fresh /\ w \in Fresh
  <2>1. IsInjective(number) /\ DOMAIN number = Fresh /\ number[v] = number[w]
    BY <1>2, <1>3, <1>6 DEF Numbering
  <2> QED BY <1>6, <2>1 DEF IsInjective
<1>7. CASE v \notin Fresh /\ w \notin Fresh
  <2>1. Continues(v) /\ Continues(w) /\ model.tracked[v].lifetime = model.tracked[w].lifetime
    BY <1>1, <1>3, <1>7, Zenon DEF Given
  <2> QED BY <1>1, <1>3, <1>7, <2>1 DEF Continues, IInv, Lifetimes, Given
<1> QED BY <1>5, <1>6, <1>7

(* What a publication leaves, whether the presentation takes it or not.    *)
LEMMA PublishedNames ==
    ASSUME IInv, refresh.phase = "windows", refresh.todo = {}, ~Exhausted(Fresh),
           NEW number \in Numbering(Fresh), Publishes(LifeWith(number))
    PROVE  /\ source' = [owner |-> source'.owner, next |-> source'.next, inc |-> source'.inc]
           /\ model' = [tracked |-> model'.tracked, nextLifetime |-> model'.nextLifetime,
                        nextGeneration |-> model'.nextGeneration]
           /\ source'.next \in IdOrNone /\ model'.nextLifetime \in IdOrNone
           /\ model'.nextGeneration = NextId(model.nextGeneration)
           /\ DOMAIN refresh.got = refresh.list
           /\ DOMAIN model'.tracked = refresh.list /\ DOMAIN source'.inc = refresh.list
           /\ \A w \in refresh.list :
                  /\ model'.tracked[w].incarnation = refresh.inc[w]
                  /\ model'.tracked[w].lifetime = LifeWith(number)[w]
                  /\ source'.inc[w] = refresh.inc[w] /\ Continues(w)'
           /\ Names'
<1>1. /\ refresh.list \subseteq Windows /\ DOMAIN refresh.got = refresh.list
      /\ refresh.list \subseteq DOMAIN refresh.inc
      /\ \A w \in DOMAIN refresh.inc :
             refresh.inc[w] \in 1..LastId /\ Before(refresh.inc[w], refresh.next)
  BY DEF IInv, Naming
<1>2. /\ source' = [owner |-> refresh.owner, next |-> refresh.next,
                    inc |-> [w \in refresh.list |-> refresh.inc[w]]]
      /\ refresh.next \in IdOrNone
  BY DEF Publishes, Restrict, IInv, RequestsIInv, Typed
<1>3. /\ source' = [owner |-> source'.owner, next |-> source'.next, inc |-> source'.inc]
      /\ source'.next = refresh.next /\ DOMAIN source'.inc = refresh.list
      /\ \A w \in refresh.list : source'.inc[w] = refresh.inc[w]
  BY <1>2
<1> DEFINE life == LifeWith(number)
<1> HIDE DEF life
<1>4. /\ model' = [tracked |-> model'.tracked, nextLifetime |-> model'.nextLifetime,
                   nextGeneration |-> model'.nextGeneration]
      /\ model'.nextGeneration = NextId(model.nextGeneration)
      /\ DOMAIN model'.tracked = refresh.list
      /\ model'.tracked =
             [w \in refresh.list |-> [incarnation |-> refresh.inc[w], lifetime |-> life[w]]]
  BY <1>1 DEF Publishes, Publish, life
<1>5. ASSUME NEW w \in refresh.list
      PROVE  LET r == model'.tracked[w]
             IN  /\ r = [incarnation |-> r.incarnation, lifetime |-> r.lifetime]
                 /\ r.incarnation = refresh.inc[w] /\ r.lifetime = life[w]
  <2>1. model'.tracked[w] = [incarnation |-> refresh.inc[w], lifetime |-> life[w]]
    BY <1>4, Zenon
  <2> QED BY <2>1
<1>6. \A w \in refresh.list : Continues(w)'
  BY <1>3, <1>4, <1>5, Zenon DEF Continues
<1>7. Names'
  <2>1. \A w \in DOMAIN source'.inc :
            source'.inc[w] \in 1..LastId /\ Before(source'.inc[w], source'.next)
    BY <1>1, <1>3
  <2>2. \A w \in DOMAIN model'.tracked :
            /\ model'.tracked[w] = [incarnation |-> model'.tracked[w].incarnation,
                                    lifetime |-> model'.tracked[w].lifetime]
            /\ model'.tracked[w].incarnation = refresh.inc[w] /\ w \in DOMAIN refresh.inc
    BY <1>1, <1>4, <1>5, Zenon
  <2>3. \A w \in DOMAIN model'.tracked :
            /\ model'.tracked[w].incarnation \in 1..LastId
            /\ Before(model'.tracked[w].incarnation, source'.next)
    BY <1>1, <1>3, <2>2
  <2> QED BY <2>1, <2>2, <2>3, Zenon DEF Names
<1>8. model'.nextLifetime \in IdOrNone
  BY LifetimesAreGiven
<1> QED BY <1>1, <1>2, <1>3, <1>4, <1>5, <1>6, <1>7, <1>8, Zenon DEF life

(* No two windows share a lifetime, and none is given again.               *)
LEMMA PublishedLifetimes ==
    ASSUME IInv, refresh.phase = "windows", refresh.todo = {}, ~Exhausted(Fresh),
           NEW number \in Numbering(Fresh), Publishes(LifeWith(number)),
           \A p \in presented' :
               \/ p \in presented
               \/ \E w \in Included(refresh.got) :
                      p.lifetime = LifeWith(number)[w] /\ p.birth = refresh.got[w].birth
    PROVE  Lifetimes'
<1> DEFINE life == LifeWith(number)
<1>1. \A w \in DOMAIN refresh.got : Given(life, w)
  BY LifetimesAreGiven, Zenon
<1>2. /\ DOMAIN refresh.got = refresh.list /\ DOMAIN model'.tracked = refresh.list
      /\ \A w \in refresh.list : model'.tracked[w].lifetime = life[w]
  BY PublishedNames, Zenon
<1>3. \A v, w \in DOMAIN refresh.got : life[v] = life[w] /\ life[w] # 0 => v = w
  BY GivenOnce
<1>4. \A p \in presented' :
          \/ p \in presented
          \/ \E w \in Included(refresh.got) :
                 p.lifetime = life[w] /\ p.birth = refresh.got[w].birth
  OBVIOUS
<1> HIDE DEF life
<1>5. \A w \in DOMAIN model'.tracked :
          model'.tracked[w].lifetime \in IdOrNone
          /\ Before(model'.tracked[w].lifetime, model'.nextLifetime)
  BY <1>1, <1>2 DEF Given, IdOrNone
<1>6. \A v, w \in DOMAIN model'.tracked :
          model'.tracked[v].lifetime = model'.tracked[w].lifetime /\ v # w
              => model'.tracked[v].lifetime = 0
  BY <1>2, <1>3
<1>7. ASSUME NEW p \in presented'
      PROVE  p.lifetime \in 1..LastId /\ Before(p.lifetime, model'.nextLifetime)
  <2>1. CASE p \in presented
    <3>1. p.lifetime \in 1..LastId /\ Before(p.lifetime, model.nextLifetime)
      BY <2>1 DEF IInv, Lifetimes
    <3>2. /\ model.nextLifetime = 0 => model'.nextLifetime = 0
          /\ model'.nextLifetime # 0 => model.nextLifetime <= model'.nextLifetime
          /\ model'.nextLifetime \in Nat
      BY LifetimesAreGiven, TasksAssumption DEF IdOrNone
    <3>3. model.nextLifetime \in Nat
      BY DEF IInv, RequestsIInv, Typed, IdOrNone
    <3> QED BY <3>1, <3>2, <3>3 DEF Before
  <2>2. CASE \E w \in Included(refresh.got) : p.lifetime = life[w]
    <3>1. PICK w \in Included(refresh.got) : p.lifetime = life[w]
      BY <2>2
    <3>2. Given(life, w)
      BY <1>1 DEF Included
    <3>3. LastId \in Nat
      BY TasksAssumption
    <3> QED BY <3>1, <3>2, <3>3 DEF Given
  <2> QED BY <1>4, <2>1, <2>2
<1> QED BY <1>5, <1>6, <1>7 DEF Lifetimes

(* A lifetime that goes on after a publication has shown one window.       *)
LEMMA PublishedBirths ==
    ASSUME IInv, refresh.phase = "windows", refresh.todo = {}, ~Exhausted(Fresh),
           NEW number \in Numbering(Fresh), Publishes(LifeWith(number)),
           \A p \in presented' :
               \/ p \in presented
               \/ \E w \in Included(refresh.got) :
                      p.lifetime = LifeWith(number)[w] /\ p.birth = refresh.got[w].birth,
           Dirty' = Dirty, server' = server, ctl'.lost = ctl.lost
    PROVE  OneBirth'
<1> DEFINE life == LifeWith(number)
<1>1. \A w \in DOMAIN refresh.got : Given(life, w)
  BY LifetimesAreGiven, Zenon
<1>2. /\ DOMAIN refresh.got = refresh.list /\ DOMAIN model'.tracked = refresh.list
      /\ \A w \in refresh.list : model'.tracked[w].lifetime = life[w]
  BY PublishedNames, Zenon
<1>3. \A v, w \in DOMAIN refresh.got : life[v] = life[w] /\ life[w] # 0 => v = w
  BY GivenOnce
<1>4. \A p \in presented' :
          \/ p \in presented
          \/ \E w \in Included(refresh.got) :
                 p.lifetime = life[w] /\ p.birth = refresh.got[w].birth
  OBVIOUS
<1> HIDE DEF life
<1>5. SUFFICES ASSUME ~ctl.lost, NEW w \in refresh.list, w \notin Dirty,
                      NEW p \in presented', p.lifetime = life[w]
               PROVE  p.birth = server.birth[w]
  <2>1. \A w \in Windows : Continues(w)' => w \in refresh.list
    BY <1>2, Zenon DEF Continues
  <2> QED BY <1>2, <2>1 DEF OneBirth
<1>6. Given(life, w) /\ w \in DOMAIN refresh.got
  BY <1>1, <1>2
<1>7. CASE p \in presented
  <2>1. p.lifetime \in 1..LastId /\ Before(p.lifetime, model.nextLifetime) /\ LastId \in Nat
    BY <1>7, TasksAssumption DEF IInv, Lifetimes
  <2>2. model.nextLifetime \in Nat
    BY DEF IInv, RequestsIInv, Typed, IdOrNone
  <2>3. life[w] # 0 /\ (model.nextLifetime = 0 \/ ~(life[w] >= model.nextLifetime))
    BY <1>5, <2>1, <2>2 DEF Before
  <2>4. Continues(w) /\ life[w] = model.tracked[w].lifetime
    BY <1>6, <2>3, Zenon DEF Given
  <2>5. w \in Windows /\ ctl.alive
    BY <1>5 DEF IInv, Naming, RequestsIInv, Settled
  <2> QED BY <1>5, <1>7, <2>4, <2>5 DEF IInv, OneBirth
<1>8. CASE \E v \in Included(refresh.got) : p.lifetime = life[v] /\ p.birth = refresh.got[v].birth
  <2>1. PICK v \in Included(refresh.got) : p.lifetime = life[v] /\ p.birth = refresh.got[v].birth
    BY <1>8
  <2>2. v \in DOMAIN refresh.got /\ refresh.got[v] # NoMetadata /\ life[v] # 0
    BY <1>1 DEF Included, Given
  <2>3. v = w
    BY <1>3, <1>5, <1>6, <2>1, <2>2
  <2> QED BY <1>5, <2>1, <2>2, <2>3 DEF IInv, ReadBirths
<1> QED BY <1>4, <1>7, <1>8

-----------------------------------------------------------------------------
(* The requests that a snapshot leaves unsettled.                          *)

(* A request that stays pending has a target and time left.                *)
LEMMA UnsettledAreOpen ==
    ASSUME NEW s, NEW r, s.generation \in Nat, r.issued \in Nat, s.generation > r.issued,
           Evaluate(s, r) \in {"awaitingNewerSnapshot", "pendingConfirmation"}
    PROVE  s.generation < r.issued + Expiry /\ Authoritative(s, r)
<1>1. Evaluate(s, r) =
        CASE s.generation <= r.issued -> "awaitingNewerSnapshot"
          [] r.action = "close" /\ ~Authoritative(s, r) -> "confirmed"
          [] r.action # "close" /\ Observed(s, r) -> "confirmed"
          [] r.action # "close" /\ ~Authoritative(s, r) ->
                IF \E c \in s.clients : c.window = r.window
                THEN "targetReplaced" ELSE "targetDisappeared"
          [] OTHER -> IF Expired(s, r) THEN "refused" ELSE "pendingConfirmation"
  BY DEF Evaluate
<1>2. ~(s.generation <= r.issued)
  OBVIOUS
<1>3. Authoritative(s, r) /\ ~Expired(s, r)
  BY <1>1, <1>2
<1>4. Expiry \in Nat
  BY TasksAssumption
<1> QED BY <1>3, <1>4 DEF Expired

(* A publication that the presentation takes.                              *)
LEMMA AppliedKeepsRequests ==
    ASSUME IInv, refresh.phase = "windows", ~Exhausted(Fresh), NEW life, NEW active,
           shown' = Snapshot(refresh.inc, refresh.got, active, life),
           pending' = Unsettled(shown'),
           model'.nextGeneration = NextId(model.nextGeneration)
    PROVE  /\ Requests' /\ shown'.generation \in IdOrNone
           /\ NextId(shown'.generation) = model'.nextGeneration
           /\ \A r \in pending' : r.issued \in IdOrNone
<1> DEFINE s == shown'
<1>1. /\ s.generation = model.nextGeneration
      /\ \A t \in s.tasks : [window |-> t.window, incarnation |-> t.incarnation] \in s.clients
  BY DEF Snapshot, Included
<1>2. model.nextGeneration \in 1..LastId /\ LastId \in Nat
  BY FreshAreCounted
<1>3. \A r \in pending' : r \in pending /\ Evaluate(s, r) \in {"awaitingNewerSnapshot", "pendingConfirmation"}
  BY DEF Unsettled
<1> HIDE DEF s
<1>4. ASSUME NEW r \in pending'
      PROVE  /\ s.generation < r.issued + Expiry /\ Authoritative(s, r)
             /\ r.issued \in 0..LastId /\ Before(r.issued, model'.nextGeneration)
  <2>1. r.issued \in 0..LastId /\ Before(r.issued, model.nextGeneration)
    BY <1>3 DEF IInv, RequestsIInv, Typed, Requests, IdOrNone
  <2>2. s.generation \in Nat /\ r.issued \in Nat /\ s.generation > r.issued
    BY <1>1, <1>2, <2>1 DEF Before
  <2>3. Before(r.issued, NextId(model.nextGeneration))
    BY <1>2, <2>1 DEF Before, NextId
  <2> QED BY <1>3, <2>1, <2>2, <2>3, UnsettledAreOpen
<1>5. PendingIsOpen'
  BY <1>4, Zenon DEF PendingIsOpen, s
<1>6. Requests'
  BY <1>1, <1>4, <1>5, Zenon DEF Requests, s
<1> QED BY <1>1, <1>2, <1>4, <1>6 DEF IdOrNone, s

(* Every task of a snapshot goes on with the lifetime it shows.            *)
LEMMA AppliedGoesOn ==
    ASSUME IInv, refresh.phase = "windows", refresh.todo = {}, ~Exhausted(Fresh),
           NEW number \in Numbering(Fresh), Publishes(LifeWith(number)), NEW active,
           shown' = Snapshot(refresh.inc, refresh.got, active, LifeWith(number)),
           Dirty' = Dirty, server' = server
    PROVE  ShownGoesOn'
<1> DEFINE life == LifeWith(number)
<1>1. /\ DOMAIN refresh.got = refresh.list /\ refresh.list \subseteq Windows
      /\ \A w \in refresh.list : model'.tracked[w].lifetime = life[w] /\ Continues(w)'
  <2>1. refresh.list \subseteq Windows
    BY DEF IInv, Naming
  <2> QED BY <2>1, PublishedNames, Zenon
<1> HIDE DEF life
<1>2. ASSUME NEW t \in shown'.tasks
      PROVE  \E w \in Included(refresh.got) :
                 t.window = w /\ t.lifetime = life[w] /\ t.birth = refresh.got[w].birth
  BY DEF Snapshot, life
<1>3. \A w \in Included(refresh.got) : w \in refresh.list /\ refresh.got[w] # NoMetadata
  BY <1>1 DEF Included
<1>4. \A w \in refresh.list :
          refresh.got[w] # NoMetadata /\ w \notin Dirty => refresh.got[w].birth = server.birth[w]
  BY <1>1 DEF IInv, ReadBirths
<1> QED BY <1>1, <1>2, <1>3, <1>4 DEF ShownGoesOn

-----------------------------------------------------------------------------
(* The last reads.                                                         *)

(* The ways an observation ends.                                           *)
LEMMA ConfirmCases ==
    ASSUME NEW applied, Confirm(applied)
    PROVE  /\ refresh.phase = "windows" /\ refresh.todo = {} /\ RoundTrip /\ UNCHANGED server
           /\ \/ /\ source' = [owner |-> refresh.owner, next |-> refresh.next,
                               inc |-> Restrict(refresh.inc, refresh.list)]
                 /\ EndRefresh(ctl, "exhausted")
                 /\ UNCHANGED <<model, shown, pending, presented>>
              \/ /\ ~Exhausted(Fresh)
                 /\ \E number \in Numbering(Fresh) :
                        /\ Publishes(LifeWith(number))
                        /\ \/ /\ \E active :
                                     ApplySnapshot(Snapshot(refresh.inc, refresh.got, active,
                                                            LifeWith(number)))
                              /\ pending' = Unsettled(shown')
                              /\ refresh' = [refresh EXCEPT !.phase = "adapter"]
                              /\ UNCHANGED ctl
                           \/ EndRefresh(ctl, "other") /\ UNCHANGED <<shown, pending, presented>>
              \/ /\ \/ \E failure : failure # "none" /\ EndRefresh(ctl, failure)
                    \/ \E torn : /\ refresh' = Started(refresh.caller, refresh.attempt + 1, torn)
                                 /\ UNCHANGED ctl
                 /\ UNCHANGED <<source, model, shown, pending, presented>>
<1>1. /\ refresh.phase = "windows" /\ refresh.todo = {} /\ RoundTrip /\ UNCHANGED server
  BY Zenon DEF Confirm
<1>2. CASE /\ source' = [owner |-> refresh.owner, next |-> refresh.next,
                         inc |-> Restrict(refresh.inc, refresh.list)]
           /\ PublishObservation(applied)
  <2>1. CASE Exhausted(Fresh)
    <3>1. EndRefresh(ctl, "exhausted") /\ UNCHANGED <<model, shown, pending, presented>>
      BY <1>2, <2>1, Zenon DEF PublishObservation, Fresh
    <3> QED BY <1>1, <1>2, <3>1
  <2>2. CASE ~Exhausted(Fresh)
    <3>1. PICK number \in Numbering(Fresh) :
            LET snap == Snapshot(refresh.inc, refresh.got, BuildEwmhTaskListSnapshot.active,
                                 LifeWith(number))
            IN  /\ model' = Publish(refresh.inc, refresh.got, Fresh, LifeWith(number))
                /\ IF applied
                   THEN /\ ApplySnapshot(snap)
                        /\ pending' = Unsettled(snap)
                        /\ refresh' = [refresh EXCEPT !.phase = "adapter"]
                        /\ UNCHANGED <<ctl, spent>>
                   ELSE /\ spent.faults < MaxFaults
                        /\ spent' = [spent EXCEPT !.faults = @ + 1]
                        /\ EndRefresh(ctl, "other")
                        /\ UNCHANGED <<shown, pending, presented>>
      BY <1>2, <2>2, Zenon DEF PublishObservation, Fresh, LifeWith
    <3>2. Publishes(LifeWith(number))
      BY <1>2, <3>1, Zenon DEF Publishes
    <3>3. CASE applied
      <4> DEFINE snap == Snapshot(refresh.inc, refresh.got, BuildEwmhTaskListSnapshot.active,
                                  LifeWith(number))
      <4>1. ApplySnapshot(snap) /\ pending' = Unsettled(snap)
            /\ refresh' = [refresh EXCEPT !.phase = "adapter"] /\ UNCHANGED ctl
        BY <3>1, <3>3
      <4>2. shown' = snap
        BY <4>1 DEF ApplySnapshot
      <4> HIDE DEF snap
      <4>3. pending' = Unsettled(shown')
        BY <4>1, <4>2
      <4>4. \E active : ApplySnapshot(Snapshot(refresh.inc, refresh.got, active, LifeWith(number)))
        BY <4>1, Zenon DEF snap
      <4> QED BY <1>1, <2>2, <3>2, <4>1, <4>3, <4>4, Zenon
    <3>4. CASE ~applied
      <4>1. EndRefresh(ctl, "other") /\ UNCHANGED <<shown, pending, presented>>
        BY <3>1, <3>4, Zenon
      <4> QED BY <1>1, <2>2, <3>2, <4>1, Zenon
    <3> QED BY <3>3, <3>4
  <2> QED BY <2>1, <2>2
<1>3. CASE /\ \/ EndRefresh(ctl, "transport") \/ EndRefresh(ctl, "ownerUnavailable")
              \/ EndRefresh(ctl, "clientListUnavailable")
              \/ Retries(IF refresh.torn = "none" THEN "ownerChanged" ELSE refresh.torn)
              \/ Retries("clientListChanged")
           /\ UNCHANGED <<source, model, shown, pending, presented>>
  <2>1. ASSUME NEW torn, Retries(torn), torn # "none"
        PROVE  \/ \E failure : failure # "none" /\ EndRefresh(ctl, failure)
               \/ /\ refresh' = Started(refresh.caller, refresh.attempt + 1, torn)
                  /\ UNCHANGED ctl
    BY <2>1, Zenon DEF Retries
  <2>2. (IF refresh.torn = "none" THEN "ownerChanged" ELSE refresh.torn) # "none"
    OBVIOUS
  <2>3. \/ \E failure : failure # "none" /\ EndRefresh(ctl, failure)
        \/ \E torn : /\ refresh' = Started(refresh.caller, refresh.attempt + 1, torn)
                     /\ UNCHANGED ctl
    BY <1>3, <2>1, <2>2
  <2> QED BY <1>1, <1>3, <2>3
<1>4. \/ /\ source' = [owner |-> refresh.owner, next |-> refresh.next,
                       inc |-> Restrict(refresh.inc, refresh.list)]
         /\ PublishObservation(applied)
      \/ /\ \/ EndRefresh(ctl, "transport") \/ EndRefresh(ctl, "ownerUnavailable")
            \/ EndRefresh(ctl, "clientListUnavailable")
            \/ Retries(IF refresh.torn = "none" THEN "ownerChanged" ELSE refresh.torn)
            \/ Retries("clientListChanged")
         /\ UNCHANGED <<source, model, shown, pending, presented>>
  BY Zenon DEF Confirm
<1> QED BY <1>2, <1>3, <1>4

(* The record of a refresh that starts.                                    *)
LEMMA StartsAtTheRoot ==
    ASSUME NEW caller, NEW attempt, NEW torn, NEW r, r = Started(caller, attempt, torn)
    PROVE  /\ r = [phase |-> r.phase, caller |-> r.caller, attempt |-> r.attempt,
                   owner |-> r.owner, list |-> r.list, inc |-> r.inc, next |-> r.next,
                   todo |-> r.todo, got |-> r.got, torn |-> r.torn]
           /\ r.phase = "root" /\ r.caller = caller /\ r.next = 1
<1>1. r = [phase |-> "root", caller |-> caller, attempt |-> attempt, owner |-> 0,
           list |-> {}, inc |-> <<>>, next |-> 1, todo |-> {}, got |-> <<>>, torn |-> torn]
  BY DEF Started, NotRefreshing
<1> QED BY <1>1

(* An observation that is not published, and another try.                  *)
LEMMA RetryKeepsIInv ==
    ASSUME IInv, refresh.phase = "windows", RoundTrip,
           NEW attempt, NEW torn, refresh' = Started(refresh.caller, attempt, torn),
           UNCHANGED <<server, ctl, source, model, shown, pending, presented>>
    PROVE  IInv'
<1> USE DEF IInv, RequestsIInv
<1>1. /\ refresh'.phase = "root" /\ refresh'.caller = refresh.caller /\ Typed'
  <2>1. 1 \in IdOrNone
    BY TasksAssumption DEF IdOrNone
  <2> QED BY <2>1, StartsAtTheRoot DEF Typed
<1>2. Settled' /\ Requests'
  BY <1>1 DEF Settled, AdapterMeansSettled, Requests, PendingIsOpen, Authoritative
<1>3. Names' /\ Lifetimes'
  BY DEF Names, Lifetimes
<1>4. Naming' /\ ReadBirths'
  BY <1>1 DEF Naming, ReadBirths
<1>5. Dirty' = Dirty /\ ServerTyped'
  BY RoundTripKeepsDirty DEF ServerTyped
<1>6. OneBirth'
  BY <1>5 DEF OneBirth, Continues
<1>7. ShownGoesOn'
  BY <1>1 DEF ShownGoesOn, Settled
<1> QED BY <1>1, <1>2, <1>3, <1>4, <1>5, <1>6, <1>7

(* An observation whose lifetimes are exhausted: its names stay.           *)
LEMMA ExhaustedKeepsIInv ==
    ASSUME IInv, refresh.phase = "windows", refresh.todo = {}, RoundTrip, Ended,
           source' = [owner |-> refresh.owner, next |-> refresh.next,
                      inc |-> Restrict(refresh.inc, refresh.list)],
           UNCHANGED <<server, model, shown, pending, presented>>
    PROVE  IInv'
<1> USE DEF IInv, RequestsIInv
<1>1. /\ refresh'.phase = "none" /\ source'.next = refresh.next
      /\ DOMAIN source'.inc = refresh.list
      /\ \A w \in refresh.list : source'.inc[w] = refresh.inc[w] /\ w \in DOMAIN refresh.inc
  BY DEF Ended, NotRefreshing, Restrict, Naming
<1>2. Typed'
  BY TasksAssumption DEF Typed, Ended, NotRefreshing, IdOrNone
<1>3. Settled' /\ Requests'
  BY <1>1 DEF Settled, AdapterMeansSettled, Ended, Requests, PendingIsOpen, Authoritative
<1>4. \A n \in 1..LastId : Before(n, source.next) => Before(n, refresh.next)
  <2>1. refresh.next = 0 \/ (source.next # 0 /\ source.next <= refresh.next)
    BY DEF Naming
  <2>2. source.next \in Nat /\ refresh.next \in Nat /\ LastId \in Nat
    BY TasksAssumption DEF Typed, IdOrNone
  <2> QED BY <2>1, <2>2 DEF Before
<1>5. Names'
  BY <1>1, <1>4 DEF Names, Naming
<1>6. Lifetimes' /\ Naming' /\ ReadBirths'
  BY <1>1 DEF Lifetimes, Naming, ReadBirths
<1>7. Dirty' = Dirty /\ ServerTyped'
  BY RoundTripKeepsDirty DEF ServerTyped
<1>8. ASSUME NEW w \in Windows, Continues(w)' PROVE Continues(w)
  BY <1>1, <1>8, KeptContinues DEF Continues, Kept
<1>9. OneBirth'
  BY <1>7, <1>8 DEF OneBirth, Ended, Settled
<1>10. ShownGoesOn'
  BY <1>1 DEF ShownGoesOn, Ended
<1> QED BY <1>2, <1>3, <1>5, <1>6, <1>7, <1>9, <1>10

(* The observation is published, torn, or cannot be published.             *)
LEMMA ConfirmKeepsIInv == ASSUME IInv, NEW applied, Confirm(applied) PROVE IInv'
<1>1. /\ refresh.phase = "windows" /\ refresh.todo = {} /\ RoundTrip /\ UNCHANGED server
      /\ ctl.alive /\ ~ctl.adapter
  BY ConfirmCases DEF IInv, RequestsIInv, Settled
<1>2. Dirty' = Dirty /\ ServerTyped'
  BY <1>1, RoundTripKeepsDirty DEF IInv, ServerTyped
<1>3. ASSUME NEW failure, failure # "none", EndRefresh(ctl, failure) PROVE Ended
  BY <1>1, <1>3, FailureEnds DEF IInv, RequestsIInv
<1>4. CASE /\ source' = [owner |-> refresh.owner, next |-> refresh.next,
                         inc |-> Restrict(refresh.inc, refresh.list)]
           /\ EndRefresh(ctl, "exhausted")
           /\ UNCHANGED <<model, shown, pending, presented>>
  BY <1>1, <1>3, <1>4, ExhaustedKeepsIInv
<1>5. ASSUME ~Exhausted(Fresh), NEW number \in Numbering(Fresh), Publishes(LifeWith(number)),
             \E active : ApplySnapshot(Snapshot(refresh.inc, refresh.got, active, LifeWith(number))),
             pending' = Unsettled(shown'),
             refresh' = [refresh EXCEPT !.phase = "adapter"], UNCHANGED ctl
      PROVE  IInv'
  <2> PICK active : ApplySnapshot(Snapshot(refresh.inc, refresh.got, active, LifeWith(number)))
    BY <1>5
  <2>1. /\ shown' = Snapshot(refresh.inc, refresh.got, active, LifeWith(number))
        /\ presented' = presented \cup
               {[lifetime |-> t.lifetime, birth |-> t.birth] : t \in shown'.tasks}
    BY DEF ApplySnapshot
  <2>2. ASSUME NEW p \in presented'
        PROVE  \/ p \in presented
               \/ \E w \in Included(refresh.got) :
                      p.lifetime = LifeWith(number)[w] /\ p.birth = refresh.got[w].birth
    <3>1. CASE \E t \in shown'.tasks : p = [lifetime |-> t.lifetime, birth |-> t.birth]
      <4>1. PICK t \in shown'.tasks : p = [lifetime |-> t.lifetime, birth |-> t.birth]
        BY <3>1
      <4>2. \E w \in Included(refresh.got) :
                t.lifetime = LifeWith(number)[w] /\ t.birth = refresh.got[w].birth
        BY <2>1 DEF Snapshot
      <4> QED BY <4>1, <4>2
    <3> QED BY <2>1, <3>1
  <2>3. /\ source' = [owner |-> source'.owner, next |-> source'.next, inc |-> source'.inc]
        /\ model' = [tracked |-> model'.tracked, nextLifetime |-> model'.nextLifetime,
                     nextGeneration |-> model'.nextGeneration]
        /\ source'.next \in IdOrNone /\ model'.nextLifetime \in IdOrNone
        /\ model'.nextGeneration = NextId(model.nextGeneration) /\ Names'
    BY <1>1, <1>5, PublishedNames, Zenon
  <2>4. /\ Requests' /\ shown'.generation \in IdOrNone
        /\ NextId(shown'.generation) = model'.nextGeneration
        /\ \A r \in pending' : r.issued \in IdOrNone
    BY <1>1, <1>5, <2>1, <2>3, AppliedKeepsRequests, Zenon
  <2>5. Lifetimes'
    BY <1>1, <1>5, <2>2, PublishedLifetimes, Zenon
  <2>6. OneBirth'
    BY <1>1, <1>2, <1>5, <2>2, PublishedBirths, Zenon
  <2>7. ShownGoesOn'
    BY <1>1, <1>2, <1>5, <2>1, AppliedGoesOn, Zenon
  <2>8. model'.nextGeneration \in IdOrNone
    BY <1>1, <1>5, <2>3, FreshAreCounted DEF NextId, IdOrNone
  <2> USE DEF IInv, RequestsIInv
  <2>9. Typed' /\ refresh'.phase = "adapter" /\ refresh'.caller = refresh.caller
    BY <1>5, <2>3, <2>4, <2>8 DEF Typed
  <2>10. Settled'
    BY <1>1, <1>5, <2>4, <2>9 DEF Settled, AdapterMeansSettled
  <2>11. Naming' /\ ReadBirths'
    BY <2>9 DEF Naming, ReadBirths
  <2> QED BY <1>2, <2>3, <2>4, <2>5, <2>6, <2>7, <2>9, <2>10, <2>11
<1>6. ASSUME ~Exhausted(Fresh), NEW number \in Numbering(Fresh), Publishes(LifeWith(number)),
             EndRefresh(ctl, "other"), UNCHANGED <<shown, pending, presented>>
      PROVE  IInv'
  <2>1. Ended
    BY <1>3, <1>6
  <2>2. /\ source' = [owner |-> source'.owner, next |-> source'.next, inc |-> source'.inc]
        /\ model' = [tracked |-> model'.tracked, nextLifetime |-> model'.nextLifetime,
                     nextGeneration |-> model'.nextGeneration]
        /\ source'.next \in IdOrNone /\ model'.nextLifetime \in IdOrNone
        /\ model'.nextGeneration = NextId(model.nextGeneration) /\ Names'
    BY <1>1, <1>6, PublishedNames, Zenon
  <2>3. presented' = presented /\ ctl'.lost = ctl.lost /\ refresh'.phase = "none" /\ ~ctl'.adapter
    BY <1>6, <2>1 DEF Ended, NotRefreshing
  <2>4. Lifetimes'
    BY <1>1, <1>6, <2>3, PublishedLifetimes, Zenon
  <2>5. OneBirth'
    BY <1>1, <1>2, <1>6, <2>3, PublishedBirths, Zenon
  <2>6. model.nextGeneration \in 1..LastId /\ LastId \in Nat
    BY <1>1, <1>6, FreshAreCounted, Zenon
  <2>7. model'.nextGeneration \in IdOrNone
    BY <2>2, <2>6 DEF NextId, IdOrNone
  <2> USE DEF IInv, RequestsIInv
  <2>8. Typed'
    BY <1>6, <2>1, <2>2, <2>7, TasksAssumption DEF Typed, Ended, NotRefreshing, IdOrNone
  <2>9. Requests'
    <3>1. \A r \in pending : Before(r.issued, model'.nextGeneration)
      BY <2>2, <2>6 DEF Requests, Typed, Before, NextId, IdOrNone
    <3> QED BY <1>6, <3>1 DEF Requests, PendingIsOpen, Authoritative
  <2>10. Settled'
    BY <2>3 DEF Settled, AdapterMeansSettled
  <2>11. Naming' /\ ReadBirths' /\ ShownGoesOn'
    BY <2>3 DEF Naming, ReadBirths, ShownGoesOn
  <2> QED BY <1>2, <2>2, <2>4, <2>5, <2>8, <2>9, <2>10, <2>11
<1>7. CASE /\ \/ \E failure : failure # "none" /\ EndRefresh(ctl, failure)
              \/ \E torn : /\ refresh' = Started(refresh.caller, refresh.attempt + 1, torn)
                           /\ UNCHANGED ctl
           /\ UNCHANGED <<source, model, shown, pending, presented>>
  <2>1. CASE \E failure : failure # "none" /\ EndRefresh(ctl, failure)
    BY <1>1, <1>2, <1>3, <1>7, <2>1, EndedKeepsIInv
  <2>2. CASE \E torn : /\ refresh' = Started(refresh.caller, refresh.attempt + 1, torn)
                       /\ UNCHANGED ctl
    BY <1>1, <1>7, <2>2, RetryKeepsIInv
  <2> QED BY <1>7, <2>1, <2>2
<1> QED BY <1>4, <1>5, <1>6, <1>7, ConfirmCases

(* A refresh that succeeded: no timer is left, and requests may be sent.   *)
LEMMA MakeAdapterKeepsIInv == ASSUME IInv, MakeAdapter PROVE IInv'
<1>1. /\ refresh.phase = "adapter" /\ RoundTrip
      /\ UNCHANGED <<server, source, model, shown, pending, presented>>
      /\ ctl.alive /\ ~ctl.adapter /\ ctl \in Controllers
  BY DEF MakeAdapter, IInv, RequestsIInv, Settled, Typed
<1>2. Dirty' = Dirty /\ ServerTyped'
  BY <1>1, RoundTripKeepsDirty DEF IInv, ServerTyped
<1>3. CASE EndRefresh(ctl, "transport")
  <2>1. Ended
    BY <1>1, <1>3, FailureEnds DEF IInv, RequestsIInv
  <2> QED BY <1>1, <1>2, <2>1, EndedKeepsIInv
<1>4. CASE \E verified \in BOOLEAN : EndRefresh([ctl EXCEPT !.adapter = verified], "none")
  <2> USE DEF IInv, RequestsIInv
  <2> PICK verified \in BOOLEAN : EndRefresh([ctl EXCEPT !.adapter = verified], "none")
    BY <1>4
  <2> DEFINE c == [ctl EXCEPT !.adapter = verified]
  <2>1. c \in Controllers /\ c.alive /\ c.lost = ctl.lost /\ c.timer = ctl.timer
        /\ c.delay = ctl.delay
    BY <1>1 DEF Controllers
  <2>2. /\ refresh' = NotRefreshing
        /\ \/ refresh.caller = "drain" /\ ctl' = AfterDrain(c, "none")
           \/ refresh.caller = "retry" /\ ctl' = AfterRetry(c, "none")
           \/ refresh.caller = "create" /\ ctl' = AfterCreate(c, "none")
    BY <1>1 DEF EndRefresh, Settled
  <2> HIDE DEF c
  <2>3. /\ ctl' \in Controllers /\ ~ctl'.timer /\ ctl'.delay = 0 /\ ctl'.lost = ctl.lost
    <3>1. CASE refresh.caller = "create" /\ ctl' = AfterCreate(c, "none")
      BY <1>1, <2>1, <3>1 DEF AfterCreate, Settled
    <3>2. CASE ctl' = [ResetStabilization(c) EXCEPT !.drain = TRUE]
      <4>1. ResetStabilization(c) \in Controllers /\ ~ResetStabilization(c).timer
            /\ ResetStabilization(c).delay = 0 /\ ResetStabilization(c).lost = c.lost
        BY <2>1, Resets
      <4> QED BY <2>1, <3>2, <4>1 DEF Controllers
    <3> QED BY <2>2, <3>1, <3>2 DEF AfterDrain, AfterRetry
  <2>4. refresh'.phase = "none"
    BY <2>2 DEF NotRefreshing
  <2>5. Typed'
    BY <1>1, <2>2, <2>3, TasksAssumption DEF Typed, NotRefreshing, IdOrNone
  <2>6. Settled' /\ Requests'
    BY <1>1, <2>3, <2>4 DEF Settled, AdapterMeansSettled, Requests, PendingIsOpen, Authoritative
  <2>7. Names' /\ Lifetimes' /\ Naming' /\ ReadBirths'
    BY <1>1, <2>4 DEF Names, Lifetimes, Naming, ReadBirths
  <2>8. OneBirth'
    BY <1>1, <1>2, <2>3 DEF OneBirth, Continues
  <2>9. ShownGoesOn'
    BY <1>1, <1>2, <2>3 DEF ShownGoesOn, Continues
  <2> QED BY <1>2, <2>5, <2>6, <2>7, <2>8, <2>9
<1>5. (DiscoverEwmhCapabilities = "verified") \in BOOLEAN
  OBVIOUS
<1> QED BY <1>3, <1>4, <1>5 DEF MakeAdapter

-----------------------------------------------------------------------------
(* Draining.                                                               *)

(* A nonempty set of numbers has a least one.                              *)
LEMMA LeastNumber == ASSUME NEW T, T \subseteq Nat, T # {}
                     PROVE  \E m \in T : \A n \in T : m <= n
<1> DEFINE R == OpToRel(<, Nat)
<1>1. \E x \in T : \A y \in T : ~ (<<y, x>> \in R)
  <2>1. IsWellFoundedOn(R, Nat)
    BY NatLessThanWellFounded, Zenon
  <2> HIDE DEF R
  <2> QED BY <2>1, WFMin, Zenon
<1>2. \A x \in Nat, y \in Nat : y < x => <<y, x>> \in R
  BY DEF OpToRel
<1>3. PICK m \in T : \A y \in T : ~ (<<y, m>> \in R)
  BY <1>1, Zenon
<1>4. ASSUME NEW n \in T PROVE m <= n
  <2>1. n \in Nat /\ m \in Nat
    OBVIOUS
  <2>2. ~(n < m)
    BY <1>2, <1>3, <2>1
  <2> QED BY <2>1, <2>2
<1> QED BY <1>4

(* The malformed event that ends a batch is one of it.                     *)
LEMMA EarliestIsOne == ASSUME NEW is, is \subseteq Nat, is # {} PROVE Earliest(is) \in is
<1>1. \E i \in is : \A j \in is : i <= j
  BY LeastNumber
<1> QED BY <1>1 DEF Earliest

(* The events that were read before a batch's other ones.                  *)
LEMMA AheadIsInvalidated ==
    ASSUME NEW a \in Seq(Events), NEW b \in Seq(Events), NEW n \in 0..Len(a)
    PROVE  InvalidatedWindows(SubSeq(a, 1, n)) \subseteq InvalidatedWindows(SubSeq(a \o b, 1, n))
<1> DEFINE c == a \o b
           h == SubSeq(a, 1, n)
           k == SubSeq(c, 1, n)
<1>1. /\ c \in Seq(Events) /\ Len(a) \in Nat /\ Len(b) \in Nat /\ Len(c) = Len(a) + Len(b)
      /\ \A i \in 1 .. Len(a) + Len(b) : c[i] = IF i <= Len(a) THEN a[i] ELSE b[i - Len(a)]
  BY ConcatProperties, LenProperties, Zenon
<1>2. n \in Nat /\ n <= Len(a)
  BY <1>1
<1>3. h \in Seq(Events) /\ Len(h) = n /\ \A i \in 1..n : h[i] = a[i]
  BY <1>1, <1>2
<1> HIDE DEF h, c
<1>4. k \in Seq(Events) /\ Len(k) = n /\ \A i \in 1..n : k[i] = c[i]
  BY <1>1, <1>2
<1>5. DOMAIN h = 1..n /\ DOMAIN k = 1..n
  BY <1>3, <1>4, LenProperties, Zenon
<1> HIDE DEF k
<1>6. \A i \in 1..n : h[i] = k[i]
  BY <1>1, <1>2, <1>3, <1>4
<1>7. ASSUME NEW w, w \in InvalidatedWindows(h) PROVE w \in InvalidatedWindows(k)
  BY <1>5, <1>6, <1>7, Invalidated
<1> QED BY <1>7 DEF h, k, c

(* How much of the events a batch takes.                                   *)
LEMMA Taken ==
    ASSUME NEW all \in Seq(Events)
    PROVE  \E n \in 0..Len(all) :
               /\ Take(all, Budget) = SubSeq(all, 1, n)
               /\ Len(Take(all, Budget)) = n /\ DOMAIN Take(all, Budget) = 1..n
<1> DEFINE n == IF Len(all) < Budget THEN Len(all) ELSE Budget
           b == SubSeq(all, 1, n)
<1>1. n \in Nat /\ n <= Len(all) /\ Len(all) \in Nat
  BY TasksAssumption
<1>2. Take(all, Budget) = b
  BY DEF Take
<1> HIDE DEF n
<1>3. b \in Seq(Events) /\ Len(b) = n
  BY <1>1
<1>4. DOMAIN b = 1..n
  BY <1>3, LenProperties, Zenon
<1> QED BY <1>1, <1>2, <1>3, <1>4

(* What a drain takes out of the two queues, of which it is told nothing   *)
(* more: only what it invalidates and what is left may be dirty.           *)
LEMMA TakenIsInvalidated ==
    ASSUME ServerTyped, NEW read \in Nat, NEW batch, NEW bad \in BOOLEAN,
           NEW n \in 0..Len(buffered \o socket), batch = SubSeq(buffered \o socket, 1, n),
           read <= n, ~bad => read = n,
           IF read <= Len(buffered)
           THEN buffered' = Drop(buffered, read) /\ UNCHANGED socket
           ELSE buffered' = Drop(buffered \o socket, read) /\ socket' = <<>>
    PROVE  /\ socket' \in Seq(Events) /\ buffered' \in Seq(Events)
           /\ ~bad => Dirty \subseteq InvalidatedWindows(batch) \cup Dirty'
<1> DEFINE all == buffered \o socket
<1>1. /\ all \in Seq(Events) /\ buffered \in Seq(Events) /\ socket \in Seq(Events)
      /\ Len(all) \in Nat /\ Len(buffered) \in Nat /\ n \in Nat /\ n <= Len(all)
      /\ <<>> \in Seq(Events)
  BY ConcatProperties DEF ServerTyped
<1>2. InvalidatedWindows(all) = InvalidatedWindows(buffered) \cup InvalidatedWindows(socket)
  BY <1>1, InvalidatedByBoth, Zenon
<1>3. CASE read <= Len(buffered)
  <2>1. buffered' = Drop(buffered, read) /\ socket' = socket /\ read \in 0..Len(buffered)
    BY <1>1, <1>3
  <2>2. /\ Drop(buffered, read) \in Seq(Events)
        /\ InvalidatedWindows(buffered) = InvalidatedWindows(SubSeq(buffered, 1, read))
                                              \cup InvalidatedWindows(Drop(buffered, read))
    BY <1>1, <2>1, InvalidatedByParts, Zenon
  <2>3. Dirty' = InvalidatedWindows(buffered') \cup InvalidatedWindows(socket')
    BY <1>1, <2>1, <2>2, InvalidatedByBoth, Zenon DEF Dirty
  <2>4. InvalidatedWindows(SubSeq(buffered, 1, read)) \subseteq InvalidatedWindows(SubSeq(all, 1, read))
    BY <1>1, <2>1, AheadIsInvalidated, Zenon
  <2> HIDE DEF all
  <2>5. ~bad => SubSeq(all, 1, read) = batch
    BY DEF all
  <2> QED BY <1>1, <1>2, <2>1, <2>2, <2>3, <2>4, <2>5 DEF Dirty, all
<1>4. CASE ~(read <= Len(buffered))
  <2>1. buffered' = Drop(all, read) /\ socket' = <<>> /\ read \in 0..Len(all)
    BY <1>1, <1>4
  <2>2. /\ Drop(all, read) \in Seq(Events)
        /\ InvalidatedWindows(all) = InvalidatedWindows(SubSeq(all, 1, read))
                                         \cup InvalidatedWindows(Drop(all, read))
    BY <1>1, <2>1, InvalidatedByParts, Zenon
  <2>3. Dirty' = InvalidatedWindows(buffered') \cup InvalidatedWindows(socket')
    BY <1>1, <2>1, <2>2, InvalidatedByBoth, Zenon DEF Dirty
  <2> HIDE DEF all
  <2>4. ~bad => SubSeq(all, 1, read) = batch
    BY DEF all
  <2>5. Dirty = InvalidatedWindows(all)
    BY DEF Dirty, all
  <2> QED BY <1>1, <2>1, <2>2, <2>3, <2>4, <2>5
<1> QED BY <1>3, <1>4

(* The ways a drain ends.                                                  *)
LEMMA DrainCases ==
    ASSUME ServerTyped, DrainEvents
    PROVE  /\ Idle /\ UNCHANGED <<server, model, shown, pending, presented>>
           /\ socket' \in Seq(Events) /\ buffered' \in Seq(Events)
           /\ LET c == [ctl EXCEPT !.drain = FALSE]
              IN  \/ ctl' = Terminated(c) /\ UNCHANGED <<source, refresh>>
                  \/ ctl' = [c EXCEPT !.lost = TRUE] /\ UNCHANGED <<source, refresh>>
                  \/ \E ws : /\ Dirty \subseteq ws \cup Dirty' /\ InvalidateClients(ws)
                             /\ \/ BeginRefresh(BeginRealEventEpoch(c), "drain")
                                \/ /\ ws = {} \/ c.timer
                                   /\ \E d \in BOOLEAN : ctl' = [c EXCEPT !.drain = d]
                                   /\ UNCHANGED refresh
<1> DEFINE all   == buffered \o socket
           batch == Take(all, Budget)
           bad   == MalformedAt(batch)
           read  == IF bad = {} THEN Len(batch) ELSE Earliest(bad)
           c     == [ctl EXCEPT !.drain = FALSE]
<1>1. Idle /\ UNCHANGED <<server, model, shown, pending, presented>>
  BY DEF DrainEvents
<1>2. IF read <= Len(buffered)
      THEN buffered' = Drop(buffered, read) /\ UNCHANGED socket
      ELSE buffered' = Drop(all, read) /\ socket' = <<>>
  BY DEF DrainEvents
<1>3. \/ ctl' = Terminated(c) /\ UNCHANGED <<source, refresh>>
      \/ ctl' = [c EXCEPT !.lost = TRUE] /\ UNCHANGED <<source, refresh>>
      \/ /\ bad = {} /\ InvalidateClients(InvalidatedWindows(batch))
         /\ \/ BeginRefresh(BeginRealEventEpoch(c), "drain")
            \/ /\ batch = <<>> \/ c.timer
               /\ ctl' = [c EXCEPT !.drain = (Len(batch) = Budget)] /\ UNCHANGED refresh
  BY Zenon DEF DrainEvents
<1>4. all \in Seq(Events)
  BY ConcatProperties DEF ServerTyped
<1>5. PICK n \in 0..Len(all) : batch = SubSeq(all, 1, n) /\ Len(batch) = n /\ DOMAIN batch = 1..n
  BY <1>4, Taken, Zenon
<1>6. Len(all) \in Nat
  BY <1>4
<1> HIDE DEF all, batch
<1>7. read \in Nat /\ read <= n /\ (bad = {} => read = n)
  <2>1. bad # {} => Earliest(bad) \in 1..n
    <3>1. bad \subseteq 1..n
      BY <1>5 DEF MalformedAt
    <3> HIDE DEF bad
    <3>2. bad \subseteq Nat
      BY <3>1
    <3>3. bad # {} => Earliest(bad) \in bad
      BY <3>2, EarliestIsOne, Zenon
    <3> QED BY <3>1, <3>3
  <2> HIDE DEF bad
  <2> QED BY <1>5, <1>6, <2>1
<1> HIDE DEF read, bad
<1>8. /\ socket' \in Seq(Events) /\ buffered' \in Seq(Events)
      /\ bad = {} => Dirty \subseteq InvalidatedWindows(batch) \cup Dirty'
  <2>1. (bad # {}) \in BOOLEAN
    OBVIOUS
  <2> QED BY <1>2, <1>5, <1>7, <2>1, TakenIsInvalidated DEF all
<1>9. batch = <<>> => InvalidatedWindows(batch) = {}
  BY InvalidatedByOne
<1>10. (Len(batch) = Budget) \in BOOLEAN
  OBVIOUS
<1> HIDE DEF c
<1>11. CASE /\ bad = {} /\ InvalidateClients(InvalidatedWindows(batch))
            /\ \/ BeginRefresh(BeginRealEventEpoch(c), "drain")
               \/ /\ batch = <<>> \/ c.timer
                  /\ ctl' = [c EXCEPT !.drain = (Len(batch) = Budget)] /\ UNCHANGED refresh
  <2>1. \E ws : /\ Dirty \subseteq ws \cup Dirty' /\ InvalidateClients(ws)
                /\ \/ BeginRefresh(BeginRealEventEpoch(c), "drain")
                   \/ /\ ws = {} \/ c.timer
                      /\ \E d \in BOOLEAN : ctl' = [c EXCEPT !.drain = d]
                      /\ UNCHANGED refresh
    BY <1>8, <1>9, <1>10, <1>11, Zenon
  <2> QED BY <1>1, <1>8, <2>1, Zenon DEF c
<1> QED BY <1>1, <1>3, <1>8, <1>11, Zenon DEF c

(* Names go with the windows that a batch invalidates, requests with a     *)
(* refresh.                                                                *)
LEMMA DrainKeepsIInv == ASSUME IInv, DrainEvents PROVE IInv'
<1> DEFINE c == [ctl EXCEPT !.drain = FALSE]
<1>1. /\ Idle /\ UNCHANGED <<server, model, shown, pending, presented>>
      /\ socket' \in Seq(Events) /\ buffered' \in Seq(Events)
      /\ \/ ctl' = Terminated(c) /\ UNCHANGED <<source, refresh>>
         \/ ctl' = [c EXCEPT !.lost = TRUE] /\ UNCHANGED <<source, refresh>>
         \/ \E ws : /\ Dirty \subseteq ws \cup Dirty' /\ InvalidateClients(ws)
                    /\ \/ BeginRefresh(BeginRealEventEpoch(c), "drain")
                       \/ /\ ws = {} \/ c.timer
                          /\ \E d \in BOOLEAN : ctl' = [c EXCEPT !.drain = d]
                          /\ UNCHANGED refresh
  BY DrainCases, Zenon DEF IInv
<1>2. /\ c \in Controllers /\ c.alive = ctl.alive /\ c.adapter = ctl.adapter
      /\ c.timer = ctl.timer /\ c.delay = ctl.delay /\ c.lost = ctl.lost
  BY DEF IInv, RequestsIInv, Typed, Controllers
<1>3. ServerTyped' /\ refresh.phase = "none"
  BY <1>1 DEF IInv, ServerTyped, Idle
<1> HIDE DEF c
<1> USE DEF IInv, RequestsIInv
<1>4. Requests' /\ Lifetimes'
  BY <1>1 DEF Requests, PendingIsOpen, Authoritative, Lifetimes
<1>5. CASE /\ UNCHANGED <<source, refresh>> /\ ctl' \in Controllers
           /\ \/ ~ctl'.alive /\ ~ctl'.adapter
              \/ /\ ctl'.lost /\ ctl'.adapter = ctl.adapter /\ ctl'.timer = ctl.timer
                 /\ ctl'.delay = ctl.delay
  <2>1. Typed' /\ Settled'
    BY <1>1, <1>3, <1>5 DEF Typed, Settled, AdapterMeansSettled
  <2>2. Names' /\ Naming' /\ ReadBirths'
    BY <1>1, <1>3, <1>5 DEF Names, Naming, ReadBirths
  <2>3. OneBirth' /\ ShownGoesOn'
    BY <1>3, <1>5 DEF OneBirth, ShownGoesOn
  <2> QED BY <1>3, <1>4, <2>1, <2>2, <2>3
<1>6. CASE ctl' = Terminated(c) /\ UNCHANGED <<source, refresh>>
  <2>1. Terminated(c) \in Controllers /\ ~Terminated(c).alive /\ ~Terminated(c).adapter
    <3>1. ResetStabilization(c) \in Controllers
      BY <1>2, Resets, Zenon
    <3> QED BY <3>1 DEF Terminated, Controllers
  <2> QED BY <1>5, <1>6, <2>1
<1>7. CASE ctl' = [c EXCEPT !.lost = TRUE] /\ UNCHANGED <<source, refresh>>
  <2>1. /\ ctl' \in Controllers /\ ctl'.lost /\ ctl'.adapter = c.adapter
        /\ ctl'.timer = c.timer /\ ctl'.delay = c.delay
    BY <1>2, <1>7 DEF Controllers
  <2> QED BY <1>2, <1>5, <1>7, <2>1
<1>8. ASSUME NEW ws, Dirty \subseteq ws \cup Dirty', InvalidateClients(ws),
             \/ BeginRefresh(BeginRealEventEpoch(c), "drain")
             \/ /\ ws = {} \/ c.timer
                /\ \E d \in BOOLEAN : ctl' = [c EXCEPT !.drain = d]
                /\ UNCHANGED refresh
      PROVE  IInv'
  <2>1. /\ source' = [owner |-> source'.owner, next |-> source'.next, inc |-> source'.inc]
        /\ source'.next = source.next
        /\ DOMAIN source'.inc = DOMAIN source.inc \ ws
        /\ \A w \in DOMAIN source'.inc : source'.inc[w] = source.inc[w]
    BY <1>8 DEF InvalidateClients, Typed, Restrict
  <2>2. /\ ctl' \in Controllers /\ ctl'.lost = ctl.lost /\ ctl'.alive = ctl.alive
        /\ \/ ~ctl'.adapter /\ refresh' = Started("drain", 0, "none")
           \/ /\ ws = {} \/ ctl.timer
              /\ ctl'.adapter = ctl.adapter /\ ctl'.timer = ctl.timer /\ ctl'.delay = ctl.delay
              /\ UNCHANGED refresh
    <3>1. CASE BeginRefresh(BeginRealEventEpoch(c), "drain")
      <4> DEFINE e == BeginRealEventEpoch(c)
      <4>1. e \in Controllers /\ e.alive = ctl.alive /\ e.lost = ctl.lost
        BY <1>2 DEF BeginRealEventEpoch, Controllers
      <4>2. ctl' = [e EXCEPT !.adapter = FALSE] /\ refresh' = Started("drain", 0, "none")
        BY <3>1 DEF BeginRefresh
      <4> HIDE DEF e
      <4> QED BY <4>1, <4>2 DEF Controllers
    <3>2. CASE /\ ws = {} \/ c.timer
               /\ \E d \in BOOLEAN : ctl' = [c EXCEPT !.drain = d]
               /\ UNCHANGED refresh
      <4>1. ASSUME NEW d \in BOOLEAN, ctl' = [c EXCEPT !.drain = d]
            PROVE  /\ ctl' \in Controllers /\ ctl'.lost = c.lost /\ ctl'.alive = c.alive
                   /\ ctl'.adapter = c.adapter /\ ctl'.timer = c.timer /\ ctl'.delay = c.delay
        BY <1>2, <4>1 DEF Controllers
      <4> QED BY <1>2, <3>2, <4>1
    <3> QED BY <1>8, <3>1, <3>2
  <2>3. /\ refresh'.phase \in {"none", "root"}
        /\ refresh'.phase = "root" => refresh'.caller = "drain" /\ ~ctl'.adapter /\ ctl'.alive
        /\ refresh'.phase = "none" => UNCHANGED refresh
        /\ Typed'
    <3>1. CASE refresh' = Started("drain", 0, "none") /\ ~ctl'.adapter
      <4>1. 1 \in IdOrNone
        BY TasksAssumption DEF IdOrNone
      <4> QED BY <1>1, <2>1, <2>2, <3>1, <4>1, StartsAtTheRoot DEF Typed, Idle
    <3>2. CASE UNCHANGED refresh
      BY <1>1, <1>3, <2>1, <2>2, <3>2 DEF Typed
    <3> QED BY <2>2, <3>1, <3>2
  <2>4. Settled'
    BY <1>1, <1>3, <2>2, <2>3 DEF Settled, AdapterMeansSettled
  <2>5. Names' /\ Naming' /\ ReadBirths'
    BY <1>1, <2>1, <2>3 DEF Names, Naming, ReadBirths
  <2>6. ASSUME NEW w, Continues(w)'
        PROVE  Continues(w) /\ w \notin ws
    BY <1>1, <2>1, <2>6 DEF Continues
  <2>7. OneBirth'
    BY <1>1, <1>8, <2>2, <2>6 DEF OneBirth
  <2>8. ShownGoesOn'
    <3> SUFFICES ASSUME ctl'.adapter, ~ctl'.lost, NEW t \in shown'.tasks
                 PROVE  /\ t.window \in Windows /\ Continues(t.window)'
                        /\ t.lifetime = model'.tracked[t.window].lifetime
                        /\ t.window \notin Dirty' => t.birth = server'.birth[t.window]
      BY <2>3 DEF ShownGoesOn
    <3>1. ws = {} /\ ctl.adapter
      BY <2>2 DEF Settled, AdapterMeansSettled
    <3>2. /\ t.window \in Windows /\ Continues(t.window)
          /\ t.lifetime = model.tracked[t.window].lifetime
          /\ t.window \notin Dirty => t.birth = server.birth[t.window]
      BY <1>1, <2>2, <3>1 DEF ShownGoesOn
    <3>3. Continues(t.window)'
      BY <1>1, <2>1, <3>1, <3>2 DEF Continues
    <3> QED BY <1>1, <1>8, <3>1, <3>2, <3>3
  <2> QED BY <1>3, <1>4, <2>3, <2>4, <2>5, <2>7, <2>8
<1> QED BY <1>1, <1>6, <1>7, <1>8

(* The timer starts a refresh.                                             *)
LEMMA RetryTaskRefreshKeepsIInv == ASSUME IInv, RetryTaskRefresh PROVE IInv'
<1> USE DEF IInv, RequestsIInv
<1>1. /\ UNCHANGED <<server, socket, buffered, source, model, shown, pending, presented>>
      /\ Idle /\ refresh' = Started("retry", 0, "none")
      /\ ctl' = [[ctl EXCEPT !.timer = FALSE] EXCEPT !.adapter = FALSE]
  BY Zenon DEF RetryTaskRefresh, BeginRefresh
<1>2. ctl' \in Controllers /\ ~ctl'.adapter /\ ctl'.alive /\ ctl'.lost = ctl.lost
  BY <1>1 DEF Typed, Controllers, Idle
<1>3. refresh'.phase = "root" /\ refresh'.caller = "retry" /\ Typed'
  <2>1. 1 \in IdOrNone
    BY TasksAssumption DEF IdOrNone
  <2> QED BY <1>1, <1>2, <2>1, StartsAtTheRoot DEF Typed
<1>4. Settled' /\ Requests'
  BY <1>1, <1>2, <1>3 DEF Settled, AdapterMeansSettled, Requests, PendingIsOpen, Authoritative
<1>5. ServerTyped' /\ Names' /\ Lifetimes'
  BY <1>1 DEF ServerTyped, Names, Lifetimes
<1>6. Naming' /\ ReadBirths' /\ ShownGoesOn'
  BY <1>2, <1>3 DEF Naming, ReadBirths, ShownGoesOn
<1>7. OneBirth'
  BY <1>1, <1>2 DEF OneBirth, Continues, Dirty, Idle
<1> QED BY <1>3, <1>4, <1>5, <1>6, <1>7

-----------------------------------------------------------------------------
(* The user and the server.                                                *)

(* A request is issued against the newest snapshot, where its target is.   *)
LEMMA HandleIntentKeepsIInv ==
    ASSUME IInv, NEW t \in shown.tasks, NEW action, HandleIntent(t, action)
    PROVE  IInv'
<1> USE DEF IInv, RequestsIInv
<1>1. /\ UNCHANGED <<server, source, model, shown, ctl, refresh, presented>> /\ RoundTrip
      /\ NextId(shown.generation) = model.nextGeneration
      /\ pending' = pending \cup {[window |-> t.window, incarnation |-> t.incarnation,
                                   lifetime |-> t.lifetime, action |-> action,
                                   issued |-> shown.generation]}
  BY DEF HandleIntent, DispatchCheckedRequest
<1>2. shown.generation \in IdOrNone /\ LastId \in Nat /\ Expiry \in Nat \ {0}
  BY TasksAssumption DEF Typed
<1>3. Typed' /\ Settled'
  <2>1. \A r \in pending' : r.issued \in IdOrNone
    BY <1>1, <1>2 DEF Typed
  <2> QED BY <1>1, <2>1 DEF Typed, Settled, AdapterMeansSettled
<1>4. Requests'
  <2>1. ASSUME NEW r \in pending'
        PROVE  /\ shown.generation < r.issued + Expiry
               /\ [window |-> r.window, incarnation |-> r.incarnation] \in shown.clients
               /\ Before(r.issued, model.nextGeneration)
    <3>1. CASE r \in pending
      BY <3>1 DEF Requests, PendingIsOpen, Authoritative
    <3>2. CASE /\ r.window = t.window /\ r.incarnation = t.incarnation
               /\ r.issued = shown.generation
      BY <1>1, <1>2, <3>2 DEF Requests, Before, NextId, IdOrNone
    <3> QED BY <1>1, <3>1, <3>2
  <2> QED BY <1>1, <2>1 DEF Requests, PendingIsOpen, Authoritative
<1>5. Dirty' = Dirty /\ ServerTyped'
  BY <1>1, RoundTripKeepsDirty DEF ServerTyped
<1>6. Names' /\ Lifetimes' /\ Naming'
  BY <1>1 DEF Names, Lifetimes, Naming
<1>7. ReadBirths' /\ OneBirth' /\ ShownGoesOn'
  BY <1>1, <1>5 DEF ReadBirths, OneBirth, ShownGoesOn, Continues
<1> QED BY <1>3, <1>4, <1>5, <1>6, <1>7

(* A window is born, and gone, with an event that tells.                   *)
LEMMA ServerTells ==
    ASSUME ServerTyped, ServerChanges
    PROVE  /\ ServerTyped' /\ Dirty \subseteq Dirty'
           /\ \A w \in Windows : w \notin Dirty' => server'.birth[w] = server.birth[w]
<1>1. UNCHANGED buffered
  BY DEF ServerChanges
<1>2. /\ <<>> \in Seq(Events) /\ <<Hint>> \in Seq(Events)
      /\ \A w \in Windows : <<Event("topology", w)>> \in Seq(Events)
  <2>1. Hint \in Events /\ \A w \in Windows : Event("topology", w) \in Events
    BY DEF Hint, Event, Events
  <2> HIDE DEF Events
  <2> QED BY <2>1
<1>3. CASE \E w \in Windows, look \in Looks : CreateWindow(w, look)
  <2> PICK w \in Windows, look \in Looks : CreateWindow(w, look)
    BY <1>3
  <2>1. /\ Sends(<<Event("topology", w)>>)
        /\ server' = [server EXCEPT !.birth[w] = server.births + 1, !.births = @ + 1,
                                    !.look[w] = look, !.hidden = @ \ {w},
                                    !.gone = @ \ {w}]
    BY DEF CreateWindow
  <2>2. /\ Dirty' = Dirty \cup {w} /\ socket' \in Seq(Events) /\ buffered' \in Seq(Events)
    BY <1>1, <1>2, <2>1, SendingAddsDirty, InvalidatedByOne, Zenon
  <2>3. /\ server' = [up |-> server'.up, root |-> server'.root, owner |-> server'.owner,
                      births |-> server'.births, birth |-> server'.birth, look |-> server'.look,
                      list |-> server'.list, active |-> server'.active,
                      hidden |-> server'.hidden, watched |-> server'.watched,
                      gone |-> server'.gone]
        /\ server'.list = server.list
        /\ server'.birth = [server.birth EXCEPT ![w] = server.births + 1]
    BY <2>1 DEF ServerTyped
  <2> QED BY <2>2, <2>3 DEF ServerTyped
<1>4. CASE \E w \in Windows : DestroyWindow(w)
  <2> PICK w \in Windows : DestroyWindow(w)
    BY <1>4
  <2>1. /\ Sends(<<Event("topology", w)>>)
        /\ server' = [server EXCEPT !.birth[w] = 0, !.watched = @ \ {w}]
    BY DEF DestroyWindow
  <2>2. /\ Dirty' = Dirty \cup {w} /\ socket' \in Seq(Events) /\ buffered' \in Seq(Events)
    BY <1>1, <1>2, <2>1, SendingAddsDirty, InvalidatedByOne, Zenon
  <2>3. /\ server' = [up |-> server'.up, root |-> server'.root, owner |-> server'.owner,
                      births |-> server'.births, birth |-> server'.birth, look |-> server'.look,
                      list |-> server'.list, active |-> server'.active,
                      hidden |-> server'.hidden, watched |-> server'.watched,
                      gone |-> server'.gone]
        /\ server'.list = server.list
        /\ server'.birth = [server.birth EXCEPT ![w] = 0]
    BY <2>1 DEF ServerTyped
  <2> QED BY <2>2, <2>3 DEF ServerTyped
<1>8. CASE \E w \in Windows : DestroyFramedWindow(w)
  <2> PICK w \in Windows : DestroyFramedWindow(w)
    BY <1>8
  <2>1. UNCHANGED socket /\ server' = [server EXCEPT !.gone = @ \cup {w}, !.watched = @ \ {w}]
    BY DEF DestroyFramedWindow
  <2> QED BY <1>1, <2>1 DEF ServerTyped, Dirty
<1>5. CASE \E w \in Windows : ManagerLists(w) \/ ManagerForgets(w) \/ ManagerHides(w)
  <2> PICK w \in Windows : ManagerLists(w) \/ ManagerForgets(w) \/ ManagerHides(w)
    BY <1>5
  <2>1. /\ \/ Sends(<<Hint>>) \/ Sends(<<>>)
        /\ \/ server' = [server EXCEPT !.list = @ \cup {w}, !.active = w]
           \/ server' = [server EXCEPT !.list = @ \ {w}]
           \/ server' = [server EXCEPT !.hidden = @ \cup {w}]
    BY Zenon DEF ManagerLists, ManagerForgets, ManagerHides
  <2>2. /\ server' = [up |-> server'.up, root |-> server'.root, owner |-> server'.owner,
                      births |-> server'.births, birth |-> server'.birth, look |-> server'.look,
                      list |-> server'.list, active |-> server'.active,
                      hidden |-> server'.hidden, watched |-> server'.watched,
                      gone |-> server'.gone]
        /\ server'.list \subseteq Windows /\ server'.birth = server.birth
    <3>1. CASE server' = [server EXCEPT !.list = @ \cup {w}, !.active = w]
      BY <3>1 DEF ServerTyped
    <3>2. CASE server' = [server EXCEPT !.list = @ \ {w}]
      BY <3>2 DEF ServerTyped
    <3>3. CASE server' = [server EXCEPT !.hidden = @ \cup {w}]
      BY <3>3 DEF ServerTyped
    <3> QED BY <2>1, <3>1, <3>2, <3>3
  <2>3. Dirty' = Dirty /\ socket' \in Seq(Events) /\ buffered' \in Seq(Events)
    <3>1. ASSUME NEW events \in {<<>>, <<Hint>>}, Sends(events)
          PROVE  Dirty' = Dirty \cup {} /\ socket' \in Seq(Events) /\ buffered' \in Seq(Events)
      BY <1>1, <1>2, <3>1, SendingAddsDirty, InvalidatedByOne
    <3> QED BY <2>1, <3>1
  <2> QED BY <2>2, <2>3 DEF ServerTyped
<1>6. CASE ManagerDies \/ ManagerStarts \/ ManagerCompletes \/ ManagerLeaves
  <2>1. /\ Sends(<<Hint>>)
        /\ \/ \E root : server' = [server EXCEPT !.root = root]
           \/ \E root : server' = [server EXCEPT !.root = root, !.owner = @ + 1]
    BY <1>6, Zenon DEF ManagerDies, ManagerStarts, ManagerCompletes, ManagerLeaves
  <2>2. /\ server' = [up |-> server'.up, root |-> server'.root, owner |-> server'.owner,
                      births |-> server'.births, birth |-> server'.birth, look |-> server'.look,
                      list |-> server'.list, active |-> server'.active,
                      hidden |-> server'.hidden, watched |-> server'.watched,
                      gone |-> server'.gone]
        /\ server'.list = server.list /\ server'.birth = server.birth
    BY <2>1 DEF ServerTyped
  <2>3. /\ Dirty' = Dirty \cup {} /\ socket' \in Seq(Events) /\ buffered' \in Seq(Events)
    BY <1>1, <1>2, <2>1, SendingAddsDirty, InvalidatedByOne
  <2> QED BY <2>2, <2>3 DEF ServerTyped
<1>7. CASE ServerDies
  <2>1. UNCHANGED socket /\ server' = [server EXCEPT !.up = FALSE]
    BY <1>7 DEF ServerDies
  <2> QED BY <1>1, <2>1 DEF ServerTyped, Dirty
<1> QED BY <1>3, <1>4, <1>5, <1>6, <1>7, <1>8, Zenon DEF ServerChanges

(* A step of others that tells what it does.                               *)
LEMMA OthersKeepIInv ==
    ASSUME IInv, UNCHANGED <<source, model, shown, pending, ctl, refresh, presented>>,
           ServerTyped', Dirty \subseteq Dirty',
           \A w \in Windows : w \notin Dirty' => server'.birth[w] = server.birth[w]
    PROVE  IInv'
<1> USE DEF IInv, RequestsIInv
<1>1. RequestsIInv'
  BY DEF Typed, Settled, AdapterMeansSettled, Requests, PendingIsOpen, Authoritative
<1>2. Names' /\ Lifetimes' /\ Naming'
  BY DEF Names, Lifetimes, Naming
<1>3. refresh.phase = "windows" => DOMAIN refresh.got \subseteq Windows
  BY DEF Naming
<1>4. ReadBirths'
  BY <1>3 DEF ReadBirths
<1>5. OneBirth' /\ ShownGoesOn'
  BY DEF OneBirth, ShownGoesOn, Continues
<1> QED BY <1>1, <1>2, <1>4, <1>5

(* A malformed event names no window.                                      *)
LEMMA SendsMalformedKeepsIInv == ASSUME IInv, SendsMalformed PROVE IInv'
<1>1. /\ UNCHANGED <<server, buffered, source, model, shown, pending, ctl, refresh, presented>>
      /\ Sends(<<Event("malformed", NoWindow)>>)
  BY DEF SendsMalformed
<1>2. <<Event("malformed", NoWindow)>> \in Seq(Events)
  <2>1. Event("malformed", NoWindow) \in Events
    BY DEF Event, Events
  <2> HIDE DEF Events
  <2> QED BY <2>1
<1>3. Dirty' = Dirty \cup {} /\ socket' \in Seq(Events) /\ buffered' \in Seq(Events)
  BY <1>1, <1>2, SendingAddsDirty, InvalidatedByOne DEF IInv
<1>4. ServerTyped'
  BY <1>1, <1>3 DEF IInv, ServerTyped
<1> QED BY <1>1, <1>3, <1>4, OthersKeepIInv

-----------------------------------------------------------------------------
(* The theorems.                                                           *)

(* Nothing is named, published or read in the beginning.                   *)
LEMMA InitIInv == ASSUME Init PROVE IInv
<1>1. /\ socket = <<>> /\ buffered = <<>>
      /\ source = [owner |-> 0, next |-> 1, inc |-> <<>>]
      /\ model = [tracked |-> <<>>, nextLifetime |-> 1, nextGeneration |-> 1]
      /\ shown = NoSnapshot /\ pending = {} /\ presented = {}
      /\ ctl = [alive |-> TRUE, timer |-> FALSE, delay |-> 0,
                drain |-> FALSE, adapter |-> FALSE, lost |-> FALSE]
      /\ refresh = Started("create", 0, "none")
  BY DEF Init
<1>2. 0 \in IdOrNone /\ 1 \in IdOrNone
  BY TasksAssumption DEF IdOrNone
<1>3. /\ ctl \in Controllers /\ ctl.alive /\ ~ctl.timer /\ ctl.delay = 0 /\ ~ctl.adapter
  BY <1>1 DEF Controllers
<1>4. refresh.phase = "root" /\ refresh.caller = "create" /\ Typed
  BY <1>1, <1>2, <1>3, StartsAtTheRoot DEF Typed, NoSnapshot
<1>5. ServerTyped
  <2> PICK look \in Looks :
        server = [up |-> TRUE, root |-> "ok", owner |-> 1, births |-> 1,
                  birth |-> [w \in Windows |-> IF w \in First THEN 1 ELSE 0],
                  look |-> [w \in Windows |-> look],
                  list |-> First, active |-> NoWindow, hidden |-> {}, watched |-> {},
                  gone |-> {}]
    BY DEF Init
  <2>1. <<>> \in Seq(Events)
    OBVIOUS
  <2> QED BY <1>1, <2>1, TasksAssumption DEF ServerTyped
<1>6. DOMAIN source.inc = {} /\ DOMAIN model.tracked = {} /\ shown.tasks = {}
  BY <1>1 DEF NoSnapshot
<1>7. Settled /\ Requests
  BY <1>1, <1>3, <1>4, <1>6 DEF Settled, AdapterMeansSettled, Requests, PendingIsOpen
<1>8. Names /\ Lifetimes
  BY <1>1, <1>6 DEF Names, Lifetimes
<1>9. Naming /\ ReadBirths
  BY <1>4 DEF Naming, ReadBirths
<1>10. OneBirth /\ ShownGoesOn
  BY <1>6 DEF OneBirth, ShownGoesOn, Continues
<1> QED BY <1>4, <1>5, <1>7, <1>8, <1>9, <1>10 DEF IInv, RequestsIInv

(* One step of anybody.                                                    *)
LEMMA NextKeepsIInv == ASSUME IInv, [Next]_vars PROVE IInv'
<1>1. CASE Refreshes
  BY <1>1, ReadRootKeepsIInv, ReadWindowKeepsIInv, ConfirmKeepsIInv, MakeAdapterKeepsIInv
  DEF Refreshes
<1>2. CASE DrainEvents
  BY <1>2, DrainKeepsIInv
<1>3. CASE RetryTaskRefresh
  BY <1>3, RetryTaskRefreshKeepsIInv
<1>4. CASE \E t \in shown.tasks, action \in Actions : HandleIntent(t, action)
  BY <1>4, HandleIntentKeepsIInv
<1>5. CASE ServerChanges
  <2>1. UNCHANGED <<source, model, shown, pending, ctl, refresh, presented>>
    BY <1>5 DEF ServerChanges
  <2> QED BY <1>5, <2>1, ServerTells, OthersKeepIInv DEF IInv
<1>6. CASE SendsMalformed
  BY <1>6, SendsMalformedKeepsIInv
<1>7. CASE UNCHANGED vars
  <2>1. UNCHANGED <<server, socket, buffered, source, model, shown, pending, ctl, refresh, presented>>
    BY <1>7 DEF vars
  <2>2. ServerTyped' /\ Dirty' = Dirty
    BY <2>1 DEF IInv, ServerTyped, Dirty
  <2> QED BY <2>1, <2>2, OthersKeepIInv
<1> QED BY <1>1, <1>2, <1>3, <1>4, <1>5, <1>6, <1>7 DEF Next, Controls

(* Names, lifetimes, births and requests agree, whatever the events in     *)
(* flight say of it, for every set of windows and every bound.             *)
THEOREM InductiveInvariant == Spec => []IInv
<1>1. Init => IInv
  BY InitIInv
<1>2. IInv /\ [Next]_vars => IInv'
  BY NextKeepsIInv
<1> QED BY <1>1, <1>2, PTL DEF Spec

(* A pending request has a target and time left, and requests are only     *)
(* sent from a settled mirror (TaskRequestState::evaluate,                 *)
(* TaskController::refreshTasks).                                          *)
THEOREM RequestsStayHonest == Spec => []RequestsAreHonest
<1>1. IInv => RequestsAreHonest
  BY DEF IInv, RequestsIInv, Requests, Settled, RequestsAreHonest
<1> QED BY <1>1, InductiveInvariant, PTL

(* A lifetime that is shown has stood for one window only, once the events *)
(* are handled: an XID that is used again gets another one                 *)
(* (TaskModel::publish).                                                   *)
THEOREM LifetimesDoSettle == Spec => []LifetimesSettle
<1>1. ASSUME IInv, Quiet, ~ctl.lost, NEW t \in shown.tasks, NEW p \in presented,
             p.lifetime = t.lifetime
      PROVE  p.birth = t.birth
  <2>1. ctl.alive /\ ctl.adapter /\ Dirty = {}
    <3>1. buffered \o socket = <<>>
      BY <1>1 DEF Quiet
    <3> QED BY <1>1, <3>1, InvalidatedByOne DEF Quiet, Idle, Dirty
  <2>2. /\ t.window \in Windows /\ Continues(t.window)
        /\ t.lifetime = model.tracked[t.window].lifetime
        /\ t.birth = server.birth[t.window]
    BY <1>1, <2>1 DEF IInv, ShownGoesOn
  <2> QED BY <1>1, <2>1, <2>2 DEF IInv, OneBirth
<1>2. IInv => LifetimesSettle
  BY <1>1 DEF LifetimesSettle
<1> QED BY <1>2, InductiveInvariant, PTL

=============================================================================
