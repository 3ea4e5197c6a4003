------------------------ MODULE SettingsSnapshotClient ------------------------
(***************************************************************************)
(* The shell's view of the settings                                        *)
(* (src/src/shell/settings/SettingsSnapshotClient.cpp): it learns who owns *)
(* org.prismdrake.Settings1, fetches the owner's complete snapshot and     *)
(* fetches it again after every SettingsGenerationChanged.                 *)
(*                                                                         *)
(* The service is SettingsAuthority.  Between the two stands the bus       *)
(* daemon, which handles the client's messages in order, and delivers to   *)
(* the client in the order it handled or received them.  Owners are the    *)
(* numbers of their epochs.  A callback of sd-bus is one step; a call      *)
(* whose slot was reset has no callback any more.                          *)
(*                                                                         *)
(* Every failure the code handles (a refused match, a lost or malformed    *)
(* message, an expired call, a call that cannot be queued, a broken        *)
(* connection) is a fault, and MaxFaults bounds them.                      *)
(***************************************************************************)
EXTENDS SettingsAuthority, Sequences

CONSTANTS MaxFaults,  \* bound: faults in the whole behaviour
          MaxStarts   \* bound: calls of start

ASSUME ClientAssumption == MaxFaults \in Nat /\ MaxStarts \in Nat

VARIABLES
    client,     \* the SettingsSnapshotClient, with the messages it queued
    inbox,      \* messages from the daemon to the client, in order
    rules,      \* the client's match rules that the daemon knows
    atService,  \* its calls that the daemon passed on to an owner
    starts,
    faults

busVars == <<inbox, rules, atService>>
vars == <<authorityVars, client, busVars, starts, faults>>

NoOwner    == 0  \* an empty owner_
NoCall     == 0  \* an empty slot
NoSnapshot == [epoch |-> 0, generation |-> 0]

Outgoing == [kind : {"ownerRule", "generationRule", "query", "fetch"}, cookie : Nat]
Incoming == [kind : {"installed", "refused", "ownerChanged", "ownerIs",
                     "generation", "snapshot", "error"},
             cookie : Nat, owner : 0..MaxEpoch, generation : 0..MaxGeneration]

From(kind, cookie, owner, gen) ==
    [kind |-> kind, cookie |-> cookie, owner |-> owner, generation |-> gen]

-----------------------------------------------------------------------------
(* The client's own operations.                                            *)

Stopped ==
    [state |-> "stopped", bus |-> FALSE, installs |-> 0,
     owner |-> NoOwner, query |-> NoCall,
     fetch |-> NoCall, requested |-> NoOwner, pending |-> FALSE,
     snapshot |-> NoSnapshot, lastError |-> "none",
     told |-> FALSE,  \* stateChanged fired for a failure that is an io_error
     cookie |-> 0, out |-> <<>>]

Send(c, kind) ==
    [c EXCEPT !.cookie = @ + 1,
              !.out = Append(@, [kind |-> kind, cookie |-> c.cookie + 1])]

SetFailure(c, error, retain) ==
    [c EXCEPT !.snapshot = IF retain THEN @ ELSE NoSnapshot,
              !.lastError = error,
              !.told = IF c.state # "failed" /\ error = "io" THEN TRUE ELSE @,
              !.state = "failed"]

(* sent: whether sd_bus_call_async accepts the call.                       *)
QueryOwner(c, sent) ==
    IF sent THEN [Send(c, "query") EXCEPT !.query = c.cookie + 1]
    ELSE SetFailure(c, "io", FALSE)

RequestSnapshot(c, sent, retain) ==
    IF c.owner = NoOwner THEN SetFailure(c, "absent", retain)
    ELSE IF c.fetch # NoCall THEN [c EXCEPT !.pending = TRUE]
    ELSE IF ~sent THEN SetFailure(c, "io", retain)
    ELSE [Send(c, "fetch") EXCEPT !.fetch = c.cookie + 1, !.requested = c.owner,
                                  !.state = "fetching"]

SchedulePendingFetch(c, sent) ==
    IF c.pending /\ c.owner # NoOwner
    THEN RequestSnapshot([c EXCEPT !.pending = FALSE], sent, TRUE)
    ELSE [c EXCEPT !.pending = FALSE]

CancelFetch(c) ==
    [c EXCEPT !.fetch = NoCall, !.requested = NoOwner, !.pending = FALSE]

ApplyOwner(c, owner, sent) ==
    IF owner = c.owner
    THEN IF owner # NoOwner /\ c.snapshot = NoSnapshot /\ c.fetch = NoCall
         THEN RequestSnapshot(c, sent, FALSE)
         ELSE c
    ELSE LET fresh == [CancelFetch(c) EXCEPT !.owner = owner,
                          !.snapshot = NoSnapshot, !.lastError = "none"]
         IN  IF owner = NoOwner
             THEN [fresh EXCEPT !.lastError = "absent", !.state = "unavailable"]
             ELSE RequestSnapshot(fresh, sent, FALSE)

InvalidateOwnerEpoch(c) ==
    SetFailure([CancelFetch(c) EXCEPT !.query = NoCall, !.owner = NoOwner],
               "invalid", FALSE)

-----------------------------------------------------------------------------
(* The callbacks.  sound: the message has the expected form.               *)

MatchInstalled(c, m, sound, sent) ==
    IF m.kind = "refused" THEN SetFailure(c, "io", FALSE)
    ELSE LET d == [c EXCEPT !.installs = IF @ > 0 THEN @ - 1 ELSE 0]
         IN  IF d.installs = 0 THEN QueryOwner(d, sent) ELSE d

NameOwnerChanged(c, m, sound, sent) ==
    IF sound THEN ApplyOwner([c EXCEPT !.query = NoCall], m.owner, sent)
    ELSE InvalidateOwnerEpoch(c)

OwnerReply(c, m, sound, sent) ==
    LET d == [c EXCEPT !.query = NoCall]
    IN  IF sound /\ m.kind = "ownerIs" THEN ApplyOwner(d, m.owner, sent)
        ELSE SetFailure(d, "invalid", FALSE)

(* Mutants: the sender is compared with the owner of the call; a malformed *)
(* signal discards the snapshot.                                           *)
SignalOfRequested(c, m, sound, sent) ==
    IF m.owner # c.requested THEN c
    ELSE IF sound THEN RequestSnapshot(c, sent, TRUE)
    ELSE SetFailure(c, "invalid", TRUE)

SignalDiscards(c, m, sound, sent) ==
    IF m.owner # c.owner THEN c
    ELSE IF sound THEN RequestSnapshot(c, sent, TRUE)
    ELSE SetFailure(c, "invalid", FALSE)

GenerationChanged(c, m, sound, sent) ==
    IF m.owner # c.owner THEN c
    ELSE IF sound THEN RequestSnapshot(c, sent, TRUE)
    ELSE SetFailure(c, "invalid", TRUE)

(* Mutant: only a newer generation is accepted.                            *)
AcceptableNewer(c, m, sound) ==
    /\ sound /\ m.kind = "snapshot"
    /\ c.owner = c.requested /\ c.requested = m.owner
    /\ m.generation > c.snapshot.generation

(* A generation older than the one held is refused; a different one is a   *)
(* new snapshot, and the same one is the same bytes.                       *)
Acceptable(c, m, sound) ==
    /\ sound /\ m.kind = "snapshot"
    /\ c.owner = c.requested /\ c.requested = m.owner
    /\ m.generation > 0 /\ m.generation >= c.snapshot.generation

SnapshotReply(c, m, sound, sent) ==
    LET d == [c EXCEPT !.fetch = NoCall, !.requested = NoOwner]
    IN  SchedulePendingFetch(
            IF Acceptable(c, m, sound)
            THEN [d EXCEPT !.snapshot = [epoch |-> m.owner, generation |-> m.generation],
                           !.lastError = "none", !.state = "ready"]
            ELSE SetFailure(d, "invalid", TRUE),
            sent)

Handle(c, m, sound, sent) ==
    CASE m.kind \in {"installed", "refused"} -> MatchInstalled(c, m, sound, sent)
      [] m.kind = "ownerChanged" -> NameOwnerChanged(c, m, sound, sent)
      [] m.kind = "generation"   -> GenerationChanged(c, m, sound, sent)
      [] m.cookie # NoCall /\ m.cookie = c.query -> OwnerReply(c, m, sound, sent)
      [] m.cookie # NoCall /\ m.cookie = c.fetch -> SnapshotReply(c, m, sound, sent)
      [] OTHER -> c

-----------------------------------------------------------------------------
Init ==
    /\ AuthorityInit
    /\ client = Stopped /\ inbox = <<>> /\ rules = {} /\ atService = {}
    /\ starts = 0 /\ faults = 0

Fault == faults < MaxFaults /\ faults' = faults + 1

Disconnected == inbox' = <<>> /\ rules' = {} /\ atService' = {}

(* start: refused while there is a connection.  When the bus cannot be     *)
(* opened the client stays as it is; when a match cannot be queued, start  *)
(* stops it again.                                                         *)
Start(sent) ==
    /\ ~client.bus /\ starts < MaxStarts
    /\ starts' = starts + 1
    /\ IF sent THEN UNCHANGED faults ELSE Fault
    /\ \/ /\ sent
          /\ client' = [Send(Send([client EXCEPT !.cookie = 0, !.out = <<>>],
                                  "ownerRule"), "generationRule")
                        EXCEPT !.bus = TRUE, !.installs = 2, !.state = "connecting"]
       \/ ~sent /\ client' \in {client, [Stopped EXCEPT !.told = client.told]}
    /\ UNCHANGED <<authorityVars, busVars>>

Stop ==
    /\ client.bus
    /\ client' = [Stopped EXCEPT !.told = client.told]
    /\ Disconnected
    /\ UNCHANGED <<authorityVars, starts, faults>>

HandleBusFailure ==
    /\ client.bus /\ Fault
    /\ client' = SetFailure([CancelFetch(client) EXCEPT !.query = NoCall,
                                !.owner = NoOwner, !.installs = 0, !.bus = FALSE,
                                !.cookie = 0, !.out = <<>>], "io", FALSE)
    /\ Disconnected
    /\ UNCHANGED <<authorityVars, starts>>

(* sd_bus_process runs the callback of the next message.                   *)
DispatchBus(sound, sent) ==
    /\ client.bus /\ inbox # <<>>
    /\ IF sound /\ sent THEN UNCHANGED faults ELSE Fault
    /\ client' = Handle(client, Head(inbox), sound, sent)
    /\ inbox' = Tail(inbox)
    /\ UNCHANGED <<authorityVars, rules, atService, starts>>

(* methodTimeoutUsec is over: sd-bus gives the callback an error.          *)
CallExpires(cookie, sent) ==
    /\ client.bus /\ cookie # NoCall /\ cookie \in {client.query, client.fetch}
    /\ Fault
    /\ client' = Handle(client, From("error", cookie, NoOwner, 0), TRUE, sent)
    /\ UNCHANGED <<authorityVars, busVars, starts>>

-----------------------------------------------------------------------------
(* The bus daemon and the service.                                         *)

Owner == IF owned THEN epoch ELSE NoOwner

DaemonInstalls(rule, accepted) ==
    /\ IF accepted THEN UNCHANGED faults ELSE Fault
    /\ rules' = IF accepted THEN rules \cup {rule} ELSE rules
    /\ inbox' = Append(inbox, From(IF accepted THEN "installed" ELSE "refused",
                                   NoCall, NoOwner, 0))
    /\ UNCHANGED atService

DaemonAnswers(cookie) ==
    /\ inbox' = Append(inbox, From("ownerIs", cookie, Owner, 0))
    /\ UNCHANGED <<rules, atService, faults>>

DaemonRoutes(cookie) ==
    /\ IF owned
       THEN /\ atService' = atService \cup {[cookie |-> cookie, owner |-> epoch]}
            /\ UNCHANGED inbox
       ELSE /\ inbox' = Append(inbox, From("error", cookie, NoOwner, 0))
            /\ UNCHANGED atService
    /\ UNCHANGED <<rules, faults>>

DaemonReads ==
    /\ client.bus /\ client.out # <<>>
    /\ client' = [client EXCEPT !.out = Tail(@)]
    /\ LET m == Head(client.out)
       IN  \/ /\ m.kind \in {"ownerRule", "generationRule"}
              /\ \E accepted \in BOOLEAN : DaemonInstalls(m.kind, accepted)
           \/ m.kind = "query" /\ DaemonAnswers(m.cookie)
           \/ m.kind = "fetch" /\ DaemonRoutes(m.cookie)
    /\ UNCHANGED <<authorityVars, starts>>

(* A live owner replies with its current snapshot; the daemon fails the    *)
(* calls that a dead one left.                                             *)
ServiceReplies(c) ==
    /\ atService' = atService \ {c}
    /\ inbox' = Append(inbox,
                       IF c.owner = Owner
                       THEN From("snapshot", c.cookie, c.owner, generation)
                       ELSE From("error", c.cookie, NoOwner, 0))
    /\ UNCHANGED <<authorityVars, client, rules, starts, faults>>

Deliver(rule, m) == inbox' = IF rule \in rules THEN Append(inbox, m) ELSE inbox

ServiceSteps ==
    /\ \/ Acquire  /\ Deliver("ownerRule", From("ownerChanged", NoCall, epoch', 0))
       \/ Publish  /\ UNCHANGED inbox
       \/ Announce /\ Deliver("generationRule",
                              From("generation", NoCall, epoch, generation))
       \/ Lose     /\ Deliver("ownerRule", From("ownerChanged", NoCall, NoOwner, 0))
    /\ UNCHANGED <<client, rules, atService, starts, faults>>

-----------------------------------------------------------------------------
Dispatches == \E sound, sent \in BOOLEAN : DispatchBus(sound, sent)
Replies    == \E c \in atService : ServiceReplies(c)

Proceeds ==
    \/ \E sent \in BOOLEAN : Start(sent)
    \/ HandleBusFailure
    \/ Dispatches
    \/ \E cookie \in {client.query, client.fetch}, sent \in BOOLEAN :
           CallExpires(cookie, sent)
    \/ DaemonReads
    \/ Replies
    \/ ServiceSteps

Next == Proceeds \/ Stop

Spec == Init /\ [][Next]_vars

(* The event loop, the daemon and a running service keep going.  Nobody    *)
(* has to start the client, to publish or to take the name.                *)
ClientFairness == WF_vars(Dispatches) /\ WF_vars(DaemonReads) /\ WF_vars(Replies)
FairSpec == Spec /\ ClientFairness

-----------------------------------------------------------------------------
(* Every variable keeps its type.                                          *)
TypeOK ==
    /\ AuthorityTypeOK
    /\ client.state \in {"stopped", "connecting", "unavailable", "fetching",
                         "ready", "failed"}
    /\ client.installs \in 0..2
    /\ client.owner \in 0..MaxEpoch /\ client.requested \in 0..MaxEpoch
    /\ client.query \in 0..client.cookie /\ client.fetch \in 0..client.cookie
    /\ client.snapshot \in [epoch : 0..MaxEpoch, generation : 0..MaxGeneration]
    /\ client.lastError \in {"none", "io", "invalid", "absent"}
    /\ client.out \in Seq(Outgoing)
    /\ inbox \in Seq(Incoming)
    /\ rules \subseteq {"ownerRule", "generationRule"}
    /\ atService \subseteq [cookie : Nat, owner : 1..MaxEpoch]
    /\ starts \in 0..MaxStarts /\ faults \in 0..MaxFaults

(* A snapshot is only ever shown as that of the present owner: it goes     *)
(* with its epoch, and a ready client has one (configuration.md:157).      *)
SnapshotOfOwner ==
    /\ client.snapshot # NoSnapshot =>
           client.bus /\ client.owner # NoOwner /\ client.snapshot.epoch = client.owner
    /\ client.state = "ready" => client.snapshot # NoSnapshot

(* No refetch is forgotten and no wait is in vain: a remembered signal and *)
(* the state "fetching" both have a call whose answer will end them.       *)
WaitsForACall ==
    /\ client.pending \/ client.state = "fetching" => client.fetch # NoCall
    /\ client.fetch # NoCall => client.requested = client.owner

(* A client that is ready and has nothing under way holds a generation no  *)
(* older than the last one its owner announced, whatever went wrong before *)
(* it became ready, as long as the daemon knows both of its match rules.   *)
Quiet == client.bus /\ inbox = <<>> /\ client.fetch = NoCall
Deaf  == rules # {"ownerRule", "generationRule"}

UpToDateWhenQuiet ==
    Quiet /\ client.state = "ready" /\ ~Deaf =>
        owned /\ client.owner = epoch /\ client.snapshot.generation >= announced

(* A client that is ready without one of the rules, and will miss the next *)
(* news, has told the shell, which leaves; but a refusal that finds the    *)
(* client failed already changes no state and tells nobody.                *)
DeafIsTold ==
    client.state = "ready" /\ Deaf /\ faults <= 1 => client.told

(* What the shell may rely on at any moment, all five together.            *)
ClientInvariant ==
    TypeOK /\ SnapshotOfOwner /\ WaitsForACall /\ UpToDateWhenQuiet /\ DeafIsTold

(* Whatever goes wrong within an epoch, the last complete generation stays *)
(* and is never replaced by an older one, as protocolError says            *)
(* (SettingsSnapshotClient.cpp:43), once no owner query is outstanding: one  *)
(* that expires after a NameOwnerChanged made it pointless discards the    *)
(* snapshot.                                                               *)
Regresses ==
    /\ client.snapshot # NoSnapshot /\ client'.bus /\ client'.owner = client.owner
    /\ client'.snapshot.generation < client.snapshot.generation

RetainsOnceOwnerKnown == [][client.query = NoCall => ~Regresses]_vars

(* Without faults a connected client comes into step with the service      *)
(* again and again, whatever owners and publications did meanwhile.        *)
InStep ==
    \/ ~client.bus
    \/ /\ owned /\ client.state = "ready" /\ client.snapshot.epoch = epoch
       /\ client.snapshot.generation >= announced
    \/ ~owned /\ client.owner = NoOwner /\ client.snapshot = NoSnapshot

CatchesUp == [](faults = 0) => []<>InStep

(* After the last fault, one announcement of the owner is enough to bring  *)
(* a client with both matches back into step ("retry after the next        *)
(* service change", SettingsSnapshotClient.cpp:43).                        *)
HearsNews ==
    /\ client.bus /\ faults = MaxFaults /\ rules = {"ownerRule", "generationRule"}
    /\ inbox # <<>> /\ Head(inbox).kind = "generation" /\ Head(inbox).owner = client.owner

NewsHeals == HearsNews ~> InStep

(* With and without faults.                                                *)
ComesIntoStep == CatchesUp /\ NewsHeals
=============================================================================
