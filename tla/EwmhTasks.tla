------------------------------- MODULE EwmhTasks -------------------------------
(***************************************************************************)
(* The task mirror (src/src/x11 and src/src/shell/taskcontroller): the     *)
(* controller reads the window manager's client list from properties of    *)
(* the root window whenever an X event hints at a change, names every      *)
(* window it sees, publishes the result as an immutable snapshot and       *)
(* follows the requests it sent until a later snapshot settles them.       *)
(*                                                                         *)
(* Everything runs on one thread, so a refresh is not interrupted by an    *)
(* event, a timer or the user; but each of its reads is a round trip, and  *)
(* the server changes in between.  A reply takes the events before it out  *)
(* of the socket into xcb's buffer, which no notifier watches.             *)
(***************************************************************************)
EXTENDS Integers, Sequences, FiniteSets, Functions

CONSTANTS
    Windows,      \* XIDs, which the server may use again
    First,        \* the windows of the beginning
    Looks,        \* what a window may show: see Look
    LastId,       \* stands for the last value of a 64-bit identifier
    Attempts,     \* maximumTaskRefreshAttempts
    Delays,       \* the number of taskSnapshotStabilizationDelays
    Expiry,       \* taskRequestExpiryGenerations
    Budget,       \* maximumRootEventsPerDrain
    MaxChanges,   \* bound: changes of the server
    MaxRequests,  \* bound: requests of the user
    MaxFaults     \* bound: malformed events and failed allocations

ASSUME TasksAssumption ==
    /\ {LastId, Attempts, Delays, Expiry, Budget} \subseteq Nat \ {0}
    /\ {MaxChanges, MaxRequests, MaxFaults} \subseteq Nat
    /\ First \subseteq Windows /\ IsFiniteSet(Windows)

VARIABLES
    server,    \* the X server and the window manager
    socket,    \* events that still are in the socket
    buffered,  \* events that xcb has read
    source,    \* EwmhTaskSource: names of windows, and their owner
    model,     \* TaskModel: lifetimes and generations
    shown,     \* the snapshot that TaskPresentationModel shows
    pending,   \* delivered requests without an outcome
    ctl,       \* TaskController: timer, follow-up, request adapter
    refresh,   \* the refresh under way
    presented, \* history: which birth of a window each lifetime has shown
    spent      \* what is used of the bounds

vars == <<server, socket, buffered, source, model, shown, pending, ctl,
          refresh, presented, spent>>

NoWindow   == "none"
NoMetadata == [type |-> "none", skipTaskbar |-> FALSE, hidden |-> FALSE, birth |-> 0]
NoSnapshot == [generation |-> 0, clients |-> {}, tasks |-> {}]

WindowTypes == {"normal", "dialog", "utility", "toolbar", "menu", "splash"}
HelperTypes == {"dropdownMenu", "popupMenu", "tooltip", "notification", "combo",
                "dragAndDrop", "dock", "desktop"}
Look == [sound : BOOLEAN, type : WindowTypes \cup HelperTypes, skipTaskbar : BOOLEAN]

Actions == {"activate", "minimize", "close"}

(* The value after an identifier; 0 means that there are no more.          *)
NextId(n) == IF n = LastId THEN 0 ELSE n + 1

-----------------------------------------------------------------------------
(* Reading the server.                                                     *)

(* One bad property (a title, a class, a state, an icon) voids the window. *)
DecodeWindowMetadata(look, hidden, birth) ==
    IF look.sound
    THEN [type |-> look.type, skipTaskbar |-> look.skipTaskbar,
          hidden |-> hidden, birth |-> birth]
    ELSE NoMetadata

Alive(w) == server.birth[w] # 0 /\ w \notin server.gone

ReadMetadata(w) ==
    IF ~Alive(w) THEN NoMetadata
    ELSE DecodeWindowMetadata(server.look[w], w \in server.hidden, server.birth[w])

(* A window manager that died leaves its properties and no owner window,   *)
(* which only the self reference of the owner window reveals.              *)
DiscoverEwmhCapabilities ==
    CASE server.root = "absent" -> "unavailable"
      [] server.root = "stale"  -> "malformed"
      [] OTHER                  -> "verified"

(* A manager that starts has its owner window before the list, or does not *)
(* announce the list.                                                      *)
ListUnsupported == server.root = "unsupported"
ListUnavailable == server.root = "unlisted"

BuildEwmhTaskListSnapshot ==
    [list |-> server.list,
     active |-> IF server.active \in server.list THEN server.active ELSE NoWindow]

TaskRefreshFailureCanStabilize(failure) ==
    failure \in {"ownerUnavailable", "clientListUnavailable", "ownerChanged",
                 "clientListChanged"}

-----------------------------------------------------------------------------
(* TaskModel and TaskRequestState.                                         *)

Excluded(m) == m.skipTaskbar \/ m.type \in HelperTypes

(* Which of the windows are tasks, and those that need a new lifetime.     *)
Included(got) == {w \in DOMAIN got : got[w] # NoMetadata /\ ~Excluded(got[w])}

Kept(inc, w) == w \in DOMAIN model.tracked /\ model.tracked[w].incarnation = inc[w]

(* Mutant: a tracked window keeps its lifetime whatever its incarnation.   *)
LifetimeOfXid(inc, w) ==
    IF w \in DOMAIN model.tracked THEN model.tracked[w].lifetime ELSE 0

LifetimeOf(inc, w) == IF Kept(inc, w) THEN model.tracked[w].lifetime ELSE 0

(* The lifetimes handed out, in some order, to the windows without one.    *)
Numbering(ws) ==
    {f \in [ws -> model.nextLifetime .. (model.nextLifetime + Cardinality(ws) - 1)] :
        IsInjective(f)}

(* Exhausted: publish fails and nothing changes.                           *)
Exhausted(fresh) ==
    \/ model.nextGeneration = 0
    \/ fresh # {} /\ model.nextLifetime = 0
    \/ model.nextLifetime + Cardinality(fresh) - 1 > LastId

(* The published snapshot and the tracked windows, for the lifetimes life. *)
Snapshot(inc, got, active, life) ==
    [generation |-> model.nextGeneration,
     clients |-> {[window |-> w, incarnation |-> inc[w]] : w \in DOMAIN got},
     tasks |-> {[window |-> w, incarnation |-> inc[w], lifetime |-> life[w],
                 active |-> (w = active), hidden |-> got[w].hidden,
                 birth |-> got[w].birth] : w \in Included(got)}]

Publish(inc, got, fresh, life) ==
    [tracked |-> [w \in DOMAIN got |-> [incarnation |-> inc[w], lifetime |-> life[w]]],
     nextLifetime |-> IF model.nextLifetime + Cardinality(fresh) - 1 = LastId
                      THEN 0 ELSE model.nextLifetime + Cardinality(fresh),
     nextGeneration |-> NextId(model.nextGeneration)]

(* Mutant: one generation more.                                            *)
ExpiredLate(snapshot, r) == snapshot.generation - r.issued > Expiry

Expired(snapshot, r) == snapshot.generation - r.issued >= Expiry

Authoritative(snapshot, r) ==
    [window |-> r.window, incarnation |-> r.incarnation] \in snapshot.clients

TasksOf(snapshot, r) ==
    {t \in snapshot.tasks : t.window = r.window /\ t.incarnation = r.incarnation
                                                /\ t.lifetime = r.lifetime}

Observed(snapshot, r) ==
    \E t \in TasksOf(snapshot, r) : IF r.action = "activate" THEN t.active ELSE t.hidden

(* evaluate, for a request that was delivered.                             *)
Evaluate(snapshot, r) ==
    CASE snapshot.generation <= r.issued -> "awaitingNewerSnapshot"
      [] r.action = "close" /\ ~Authoritative(snapshot, r) -> "confirmed"
      [] r.action # "close" /\ Observed(snapshot, r) -> "confirmed"
      [] r.action # "close" /\ ~Authoritative(snapshot, r) ->
            IF \E c \in snapshot.clients : c.window = r.window
            THEN "targetReplaced" ELSE "targetDisappeared"
      [] OTHER -> IF Expired(snapshot, r) THEN "refused" ELSE "pendingConfirmation"

Unsettled(snapshot) ==
    {r \in pending : Evaluate(snapshot, r) \in {"awaitingNewerSnapshot", "pendingConfirmation"}}

-----------------------------------------------------------------------------
(* The controller.                                                         *)

Idle == refresh.phase = "none" /\ ctl.alive

NotRefreshing ==
    [phase |-> "none", caller |-> "none", attempt |-> 0, owner |-> 0,
     list |-> {}, inc |-> <<>>, next |-> 1, todo |-> {}, got |-> <<>>, torn |-> "none"]

Started(caller, attempt, torn) ==
    [NotRefreshing EXCEPT !.phase = "root", !.caller = caller, !.attempt = attempt,
                          !.torn = torn]

(* refreshTasks first drops the adapter of the requests.                   *)
BeginRefresh(c, caller) ==
    /\ refresh' = Started(caller, 0, "none")
    /\ ctl' = [c EXCEPT !.adapter = FALSE]

ResetStabilization(c) == [c EXCEPT !.timer = FALSE, !.delay = 0]

(* A failure that cannot settle by itself is reported and not retried.     *)
HandleRefreshFailure(c, failure) ==
    IF ~TaskRefreshFailureCanStabilize(failure) THEN ResetStabilization(c)
    ELSE IF c.delay >= Delays THEN c
    ELSE [c EXCEPT !.delay = @ + 1, !.timer = TRUE]

Terminated(c) ==
    [ResetStabilization(c) EXCEPT !.alive = FALSE, !.drain = FALSE, !.adapter = FALSE]

(* How the caller of refreshTasks goes on.                                 *)
AfterDrain(c, failure) ==
    [(IF failure = "none" THEN ResetStabilization(c)
      ELSE HandleRefreshFailure(c, failure)) EXCEPT !.drain = TRUE]

AfterRetry(c, failure) ==
    IF failure = "none" THEN [ResetStabilization(c) EXCEPT !.drain = TRUE]
    ELSE HandleRefreshFailure(c, failure)

AfterCreate(c, failure) ==
    IF failure = "none" THEN c ELSE HandleRefreshFailure(c, failure)

EndRefresh(c, failure) ==
    /\ refresh' = NotRefreshing
    /\ ctl' = CASE failure = "transport"        -> Terminated(c)
                [] refresh.caller = "drain"     -> AfterDrain(c, failure)
                [] refresh.caller = "retry"     -> AfterRetry(c, failure)
                [] refresh.caller = "create"    -> AfterCreate(c, failure)

(* Every reply brings the events that precede it.                          *)
RoundTrip == buffered' = buffered \o socket /\ socket' = <<>>

-----------------------------------------------------------------------------
(* refresh, one round of reads after the other.                            *)

ReadRoot ==
    /\ refresh.phase = "root" /\ RoundTrip
    /\ IF ~server.up THEN EndRefresh(ctl, "transport")
       ELSE IF DiscoverEwmhCapabilities = "unavailable" THEN EndRefresh(ctl, "ownerUnavailable")
       ELSE IF DiscoverEwmhCapabilities = "malformed"   THEN EndRefresh(ctl, "ownerMalformed")
       ELSE IF ListUnsupported THEN EndRefresh(ctl, "clientListUnsupported")
       ELSE IF ListUnavailable THEN EndRefresh(ctl, "clientListUnavailable")
       ELSE /\ refresh' = [refresh EXCEPT
                  !.phase = "windows", !.owner = server.owner, !.list = server.list,
                  !.todo = server.list, !.got = <<>>, !.next = source.next,
                  !.inc = IF source.owner = server.owner THEN source.inc ELSE <<>>]
            /\ UNCHANGED ctl
    /\ UNCHANGED <<server, source, model, shown, pending, presented, spent>>

Stored(f, w, x) == [v \in DOMAIN f \cup {w} |-> IF v = w THEN x ELSE f[v]]

(* Mutant: the events of a window are not selected.                        *)
ReadWindowUnwatched(w) ==
    /\ refresh.phase = "windows" /\ w \in refresh.todo /\ RoundTrip
    /\ IF ~server.up THEN EndRefresh(ctl, "transport")
       ELSE IF w \notin DOMAIN refresh.inc /\ refresh.next = 0 THEN EndRefresh(ctl, "exhausted")
       ELSE /\ refresh' = [refresh EXCEPT !.todo = @ \ {w},
                  !.got = Stored(@, w, ReadMetadata(w)),
                  !.inc = IF w \in DOMAIN @ THEN @ ELSE Stored(@, w, refresh.next),
                  !.next = IF w \in DOMAIN refresh.inc THEN @ ELSE NextId(@)]
            /\ UNCHANGED ctl
    /\ UNCHANGED <<server, source, model, shown, pending, presented, spent>>

(* The window is named, its events selected, its properties read and its   *)
(* events selected again, in one step: what changes in between and is read *)
(* counts as before it, and what is not read has an event to tell of it.   *)
ReadWindow(w) ==
    /\ refresh.phase = "windows" /\ w \in refresh.todo /\ RoundTrip
    /\ IF ~server.up THEN EndRefresh(ctl, "transport") /\ UNCHANGED server
       ELSE IF w \notin DOMAIN refresh.inc /\ refresh.next = 0
       THEN EndRefresh(ctl, "exhausted") /\ UNCHANGED server
       ELSE /\ refresh' = [refresh EXCEPT !.todo = @ \ {w},
                  !.got = Stored(@, w, ReadMetadata(w)),
                  !.inc = IF w \in DOMAIN @ THEN @ ELSE Stored(@, w, refresh.next),
                  !.next = IF w \in DOMAIN refresh.inc THEN @ ELSE NextId(@)]
            /\ server' = IF Alive(w) THEN [server EXCEPT !.watched = @ \cup {w}]
                         ELSE server
            /\ UNCHANGED ctl
    /\ UNCHANGED <<source, model, shown, pending, presented, spent>>

Retries(torn) ==
    IF refresh.attempt + 1 < Attempts
    THEN refresh' = Started(refresh.caller, refresh.attempt + 1, torn) /\ UNCHANGED ctl
    ELSE EndRefresh(ctl, torn)

(* The presentation's rows are those of the snapshot.                      *)
ApplySnapshot(snap) ==
    /\ shown' = snap
    /\ presented' = presented \cup
            {[lifetime |-> t.lifetime, birth |-> t.birth] : t \in snap.tasks}

(* publishObservation.  applied: the presentation could allocate its rows. *)
PublishObservation(applied) ==
    LET got   == refresh.got
        fresh == {w \in Included(got) : LifetimeOf(refresh.inc, w) = 0}
    IN  IF Exhausted(fresh)
        THEN /\ EndRefresh(ctl, "exhausted")
             /\ UNCHANGED <<model, shown, pending, presented, spent>>
        ELSE \E number \in Numbering(fresh) :
             LET life == [w \in DOMAIN got |-> IF w \in fresh THEN number[w]
                                               ELSE LifetimeOf(refresh.inc, w)]
                 snap == Snapshot(refresh.inc, got, BuildEwmhTaskListSnapshot.active, life)
             IN  /\ model' = Publish(refresh.inc, got, fresh, life)
                 /\ IF applied
                    THEN /\ ApplySnapshot(snap)
                         /\ pending' = Unsettled(snap)
                         /\ refresh' = [refresh EXCEPT !.phase = "adapter"]
                         /\ UNCHANGED <<ctl, spent>>
                    ELSE /\ spent.faults < MaxFaults
                         /\ spent' = [spent EXCEPT !.faults = @ + 1]
                         /\ EndRefresh(ctl, "other")
                         /\ UNCHANGED <<shown, pending, presented>>

(* The root is read again: a torn observation is not published.            *)
Confirm(applied) ==
    /\ refresh.phase = "windows" /\ refresh.todo = {} /\ RoundTrip
    /\ IF server.up /\ server.root # "absent" /\ ~ListUnavailable
             /\ server.owner = refresh.owner /\ server.list = refresh.list
       THEN /\ source' = [owner |-> refresh.owner, next |-> refresh.next,
                          inc |-> Restrict(refresh.inc, refresh.list)]
            /\ PublishObservation(applied)
       ELSE /\ applied
            /\ IF ~server.up THEN EndRefresh(ctl, "transport")
               ELSE IF server.root = "absent" THEN EndRefresh(ctl, "ownerUnavailable")
               ELSE IF ListUnavailable THEN EndRefresh(ctl, "clientListUnavailable")
               ELSE IF server.owner # refresh.owner
               THEN Retries(IF refresh.torn = "none" THEN "ownerChanged" ELSE refresh.torn)
               ELSE Retries("clientListChanged")
            /\ UNCHANGED <<source, model, shown, pending, presented, spent>>
    /\ UNCHANGED server

(* EwmhWindowRequests::create, after the publication: without a verified   *)
(* owner there is an adapter that supports no request.                     *)
MakeAdapter ==
    /\ refresh.phase = "adapter" /\ RoundTrip
    /\ IF server.up
       THEN EndRefresh([ctl EXCEPT !.adapter = (DiscoverEwmhCapabilities = "verified")], "none")
       ELSE EndRefresh(ctl, "transport")
    /\ UNCHANGED <<server, source, model, shown, pending, presented, spent>>

-----------------------------------------------------------------------------
(* Events, the timer and the user.                                         *)

(* decodeRootEvent: a hint to refresh, a topology hint with its window, or *)
(* something malformed (which any client can send).                        *)
Event(kind, w) == [kind |-> kind, window |-> w]

Take(events, n) == SubSeq(events, 1, IF Len(events) < n THEN Len(events) ELSE n)
Drop(events, n) == SubSeq(events, n + 1, Len(events))

MalformedAt(batch) == {i \in DOMAIN batch : batch[i].kind = "malformed"}
Earliest(is) == CHOOSE i \in is : \A j \in is : i <= j

InvalidatedWindows(batch) ==
    {batch[i].window : i \in {j \in DOMAIN batch : batch[j].kind = "topology"}}

BeginRealEventEpoch(c) ==
    IF c.delay >= Delays THEN [c EXCEPT !.delay = 0] ELSE c

InvalidateClients(ws) ==
    source' = [source EXCEPT !.inc = Restrict(@, DOMAIN @ \ ws)]

(* drainEvents, of the notifier or of a follow-up.  A malformed event ends *)
(* the batch and discards what was read of it.  While the timer runs, the  *)
(* refresh is left to it.                                                  *)
DrainEvents ==
    /\ Idle /\ (ctl.drain \/ socket # <<>> \/ ~server.up)
    /\ LET all   == buffered \o socket
           batch == Take(all, Budget)
           bad   == MalformedAt(batch)
           read  == IF bad = {} THEN Len(batch) ELSE Earliest(bad)
           c     == [ctl EXCEPT !.drain = FALSE]
       IN  /\ IF read <= Len(buffered)
              THEN buffered' = Drop(buffered, read) /\ UNCHANGED socket
              ELSE buffered' = Drop(all, read) /\ socket' = <<>>
           /\ IF ~server.up
              THEN ctl' = Terminated(c) /\ UNCHANGED <<source, refresh>>
              ELSE IF bad # {}
              THEN ctl' = [c EXCEPT !.lost = TRUE] /\ UNCHANGED <<source, refresh>>
              ELSE /\ InvalidateClients(InvalidatedWindows(batch))
                   /\ IF batch # <<>> /\ ~c.timer
                      THEN BeginRefresh(BeginRealEventEpoch(c), "drain")
                      ELSE /\ ctl' = [c EXCEPT !.drain = (Len(batch) = Budget)]
                           /\ UNCHANGED refresh
    /\ UNCHANGED <<server, model, shown, pending, presented, spent>>

RetryTaskRefresh ==
    /\ Idle /\ ctl.timer
    /\ BeginRefresh([ctl EXCEPT !.timer = FALSE], "retry")
    /\ UNCHANGED <<server, socket, buffered, source, model, shown, pending, presented, spent>>

(* The task shown is the newest and the adapter is ready.                  *)
CanForwardIntent(t) == t \in shown.tasks

DispatchCheckedRequest ==
    /\ NextId(shown.generation) = model.nextGeneration
    /\ ctl.adapter /\ ~ctl.timer /\ server.up

(* Rejected when its window, or to activate the active one, is gone.       *)
SendRequest(t, action) ==
    /\ Alive(t.window)
    /\ action = "activate" => \A a \in shown.tasks : a.active => Alive(a.window)

HandleIntent(t, action) ==
    /\ Idle /\ spent.requests < MaxRequests
    /\ CanForwardIntent(t)
    /\ ~ \E r \in pending : r.lifetime = t.lifetime /\ r.action = action
    /\ DispatchCheckedRequest /\ SendRequest(t, action)
    /\ RoundTrip
    /\ pending' = pending \cup {[window |-> t.window, incarnation |-> t.incarnation,
                                 lifetime |-> t.lifetime, action |-> action,
                                 issued |-> shown.generation]}
    /\ spent' = [spent EXCEPT !.requests = @ + 1]
    /\ UNCHANGED <<server, source, model, shown, ctl, refresh, presented>>

-----------------------------------------------------------------------------
(* The X server, its window manager and its other clients.                 *)

Sends(events) == socket' = socket \o events

Hint == Event("hint", NoWindow)

CreateWindow(w, look) ==
    /\ ~Alive(w)
    /\ server' = [server EXCEPT !.birth[w] = server.births + 1, !.births = @ + 1,
                                !.look[w] = look, !.hidden = @ \ {w}, !.gone = @ \ {w}]
    /\ Sends(<<Event("topology", w)>>)

DestroyWindow(w) ==
    /\ Alive(w)
    /\ server' = [server EXCEPT !.birth[w] = 0, !.watched = @ \ {w}]
    /\ Sends(<<Event("topology", w)>>)

(* The root window is not told of a window that goes in the frame that its *)
(* manager gave it.                                                        *)
DestroyFramedWindow(w) ==
    /\ server.root = "ok" /\ Alive(w) /\ w \in server.list
    /\ server' = [server EXCEPT !.gone = @ \cup {w}, !.watched = @ \ {w}]
    /\ UNCHANGED socket

ManagerLists(w) ==
    /\ server.root = "ok" /\ Alive(w) /\ w \notin server.list
    /\ server' = [server EXCEPT !.list = @ \cup {w}, !.active = w]
    /\ Sends(<<Hint>>)

ManagerForgets(w) ==
    /\ server.root = "ok" /\ ~Alive(w) /\ w \in server.list
    /\ server' = [server EXCEPT !.list = @ \ {w}]
    /\ Sends(<<Hint>>)

(* The root property always tells; a window's own tells those who asked.   *)
ManagerHides(w) ==
    /\ server.root = "ok" /\ Alive(w) /\ w \in server.list \ server.hidden
    /\ server' = [server EXCEPT !.hidden = @ \cup {w}]
    /\ Sends(IF w \in server.watched THEN <<Hint>> ELSE <<>>)

Managed == server.root \notin {"stale", "absent"}

ManagerDies ==
    /\ Managed
    /\ server' = [server EXCEPT !.root = "stale"]
    /\ Sends(<<Hint>>)

ManagerStarts ==
    /\ ~Managed
    /\ \E root \in {"ok", "unlisted", "unsupported"} :
          server' = [server EXCEPT !.root = root, !.owner = @ + 1]
    /\ Sends(<<Hint>>)

ManagerCompletes ==
    /\ ListUnsupported \/ ListUnavailable
    /\ server' = [server EXCEPT !.root = "ok"]
    /\ Sends(<<Hint>>)

ManagerLeaves ==
    /\ Managed
    /\ server' = [server EXCEPT !.root = "absent"]
    /\ Sends(<<Hint>>)

ServerDies ==
    /\ server' = [server EXCEPT !.up = FALSE]
    /\ UNCHANGED socket

ServerChanges ==
    /\ server.up /\ spent.changes < MaxChanges
    /\ spent' = [spent EXCEPT !.changes = @ + 1]
    /\ \/ \E w \in Windows, look \in Looks : CreateWindow(w, look)
       \/ \E w \in Windows : DestroyWindow(w) \/ DestroyFramedWindow(w)
                                \/ ManagerLists(w) \/ ManagerForgets(w) \/ ManagerHides(w)
       \/ ManagerDies \/ ManagerStarts \/ ManagerCompletes \/ ManagerLeaves
       \/ ServerDies
    /\ UNCHANGED <<buffered, source, model, shown, pending, ctl, refresh, presented>>

SendsMalformed ==
    /\ server.up /\ spent.faults < MaxFaults
    /\ spent' = [spent EXCEPT !.faults = @ + 1]
    /\ Sends(<<Event("malformed", NoWindow)>>)
    /\ UNCHANGED <<server, buffered, source, model, shown, pending, ctl, refresh, presented>>

-----------------------------------------------------------------------------
(* create has opened the connection and subscribed to the root window.     *)
Init ==
    /\ \E look \in Looks :
          server = [up |-> TRUE, root |-> "ok", owner |-> 1, births |-> 1,
                    birth |-> [w \in Windows |-> IF w \in First THEN 1 ELSE 0],
                    look |-> [w \in Windows |-> look],
                    list |-> First, active |-> NoWindow, hidden |-> {}, watched |-> {},
                    gone |-> {}]
    /\ socket = <<>> /\ buffered = <<>>
    /\ source = [owner |-> 0, next |-> 1, inc |-> <<>>]
    /\ model = [tracked |-> <<>>, nextLifetime |-> 1, nextGeneration |-> 1]
    /\ shown = NoSnapshot /\ pending = {} /\ presented = {}
    /\ ctl = [alive |-> TRUE, timer |-> FALSE, delay |-> 0,
              drain |-> FALSE, adapter |-> FALSE, lost |-> FALSE]
    /\ refresh = Started("create", 0, "none")
    /\ spent = [changes |-> 0, requests |-> 0, faults |-> 0]

Refreshes ==
    \/ ReadRoot
    \/ \E w \in Windows : ReadWindow(w)
    \/ \E applied \in BOOLEAN : Confirm(applied)
    \/ MakeAdapter

Controls == Refreshes \/ DrainEvents \/ RetryTaskRefresh

Next ==
    \/ Controls
    \/ \E t \in shown.tasks, action \in Actions : HandleIntent(t, action)
    \/ ServerChanges
    \/ SendsMalformed

Spec == Init /\ [][Next]_vars

(* The event loop runs; nobody else has to do anything.                    *)
FairSpec == Spec /\ WF_vars(Controls)

-----------------------------------------------------------------------------
(* Once every event is handled, a lifetime stands for one window: an XID   *)
(* that was used again has another lifetime than the window before it      *)
(* (TaskModel.hpp:23).                                                     *)
Quiet ==
    /\ Idle /\ socket = <<>> /\ buffered = <<>> /\ ~ctl.drain /\ ~ctl.timer
    /\ ctl.adapter /\ server.up

LifetimesSettle ==
    Quiet /\ ~ctl.lost =>
        \A t \in shown.tasks : \A p \in presented :
            p.lifetime = t.lifetime => p.birth = t.birth

(* A request that is still pending has a target in the snapshot that is    *)
(* shown, and has not outlived its expiry: no snapshot passed it by.       *)
PendingIsOpen ==
    \A r \in pending :
        /\ shown.generation < r.issued + Expiry
        /\ Authoritative(shown, r)

(* The user can send requests only from a settled mirror: the adapter goes *)
(* with every refresh and comes back with its success alone.               *)
AdapterMeansSettled ==
    ctl.adapter => ~ctl.timer /\ refresh.phase = "none" /\ ctl.delay = 0
                   /\ NextId(shown.generation) = model.nextGeneration

(* What the user may ask for, and is told about it, rests on a snapshot.    *)
RequestsAreHonest == PendingIsOpen /\ AdapterMeansSettled

(* When the server rests, the mirror shows it: the listed windows, which   *)
(* of them are tasks, which is active and which are hidden; unless the     *)
(* events for that sit in xcb's buffer (see above), were discarded with a  *)
(* malformed one, or cannot be had.                                        *)
Tasks == {w \in server.list : Alive(w) /\ server.look[w].sound
                                /\ ~Excluded([skipTaskbar |-> server.look[w].skipTaskbar,
                                              type |-> server.look[w].type])}

InStep ==
    /\ {c.window : c \in shown.clients} = server.list
    /\ {t.window : t \in shown.tasks} = Tasks
    /\ \A t \in shown.tasks : /\ t.hidden = (t.window \in server.hidden)
                              /\ t.active = (t.window = server.active)

(* The manager has not taken a window from its list that went in a frame.  *)
ListIsBehind == server.list \cap server.gone # {}

Unservable == server.root # "ok" \/ ListIsBehind \/ source.next = 0
                                 \/ model.nextLifetime = 0 \/ model.nextGeneration = 0
Stranded == Idle /\ socket = <<>> /\ buffered # <<>> /\ ~ctl.drain /\ ~ctl.timer

CatchesUp ==
    <>[](InStep \/ Stranded \/ Unservable \/ ~ctl.alive \/ spent.faults > 0)

(* The comment at TaskControllerCore.hpp:79 promises a drain after every   *)
(* refresh that may have read later events into xcb's buffer, so that they *)
(* cannot leave the mirror behind.  The code schedules none after the      *)
(* first refresh and after a failed retry.                                 *)
BufferedEventsAreDrained == Stranded => InStep \/ Unservable
=============================================================================
