------------------------- MODULE SettingsClientProofs -------------------------
(***************************************************************************)
(* Proofs about SettingsSnapshotClient and ShellSettings for every number  *)
(* of generations, owners, faults, starts and refusals: what the client    *)
(* shows is its owner's, kept once the owner is known, and current when    *)
(* nothing is under way; the surfaces follow it.                           *)
(***************************************************************************)
EXTENDS ShellSettings, TLAPS

-----------------------------------------------------------------------------
(* What every callback keeps of the client, as a predicate of its record.  *)

Typed(c) ==
    /\ c.state \in {"stopped", "connecting", "unavailable", "fetching", "ready", "failed"}
    /\ c.installs \in 0..2
    /\ c.owner \in 0..MaxEpoch /\ c.requested \in 0..MaxEpoch
    /\ c.cookie \in Nat /\ c.query \in 0..c.cookie /\ c.fetch \in 0..c.cookie
    /\ c.snapshot \in [epoch : 0..MaxEpoch, generation : 0..MaxGeneration]
    /\ c.lastError \in {"none", "io", "invalid", "absent"}

Shows(c) ==
    /\ c.snapshot # NoSnapshot =>
           /\ c.bus /\ c.owner # NoOwner /\ c.snapshot.epoch = c.owner
           /\ c.snapshot.generation > 0
    /\ c.state = "ready" => c.snapshot # NoSnapshot /\ c.fetch = NoCall

Waits(c) ==
    /\ c.pending \/ c.state = "fetching" => c.fetch # NoCall
    /\ c.fetch # NoCall => c.requested = c.owner /\ c.owner # NoOwner

Local(c) == Typed(c) /\ Shows(c) /\ Waits(c)

-----------------------------------------------------------------------------
(* The inductive invariant.                                                *)

Rule  == {"ownerRule", "generationRule"}
Early == {"installed", "refused", "ownerChanged", "generation"}

Inbox   == 1..Len(inbox)
Out     == 1..Len(client.out)
RuleDue == \E i \in Out : client.out[i].kind \in Rule

Authority ==
    /\ epoch \in 0..MaxEpoch
    /\ generation \in 0..MaxGeneration /\ announced \in 0..MaxGeneration
    /\ owned => epoch > 0 /\ 0 < announced /\ announced <= generation

Messages ==
    /\ inbox \in Seq(Incoming) /\ client.out \in Seq(Outgoing)
    /\ rules \subseteq Rule
    /\ atService \subseteq [cookie : Nat, owner : 1..MaxEpoch]
    /\ starts \in 0..MaxStarts /\ faults \in 0..MaxFaults

(* Nobody hears of an owner before there is one, and only an answer names  *)
(* its call.                                                               *)
Epochs ==
    /\ client.owner <= epoch
    /\ \A i \in Inbox :
        /\ inbox[i].owner <= epoch
        /\ inbox[i].kind \in {"snapshot", "generation"} => inbox[i].owner > 0
        /\ inbox[i].kind \in Early => inbox[i].cookie = NoCall
    /\ \A call \in atService : call.owner <= epoch

Idle ==
    ~client.bus =>
        /\ inbox = <<>> /\ rules = {} /\ atService = {} /\ client.out = <<>>
        /\ client.owner = NoOwner /\ client.fetch = NoCall /\ client.query = NoCall

(* The rules are the first two messages of a connection.                   *)
RulesFirst ==
    \A i \in Out :
        /\ client.out[i].kind = "ownerRule" =>
               /\ i = 1 /\ client.owner = NoOwner
               /\ inbox = <<>> /\ rules = {} /\ atService = {}
        /\ client.out[i].kind = "generationRule" =>
               /\ i = 1 \/ (i = 2 /\ client.out[1].kind = "ownerRule")
               /\ "generationRule" \notin rules /\ atService = {}

(* So the answers to the rules come before any other answer.               *)
RulesAnsweredFirst ==
    /\ RuleDue =>
           client.snapshot = NoSnapshot /\ \A i \in Inbox : inbox[i].kind \in Early
    /\ \A i \in Inbox : inbox[i].kind \in {"installed", "refused"} =>
           /\ client.snapshot = NoSnapshot
           /\ \A j \in 1..i : inbox[j].kind \in Early

(* A client that knows of another owner, or will, has news of it behind    *)
(* that.                                                                   *)
OwnerNews(i) == \E j \in Inbox : j > i /\ inbox[j].kind = "ownerChanged"

OwnerKnown ==
    "ownerRule" \in rules =>
        /\ client.owner \in {NoOwner, Owner} \/ OwnerNews(0)
        /\ \A i \in Inbox : inbox[i].kind \in {"ownerChanged", "ownerIs"} =>
               inbox[i].owner = Owner \/ OwnerNews(i)

(* A generation that is held, or on its way, is the last that was          *)
(* announced, or the announcement is still behind it.                      *)
GenerationNews(i) ==
    \E j \in Inbox : j > i /\ inbox[j].kind = "generation" /\ inbox[j].owner = epoch

GenerationKnown ==
    rules = Rule /\ owned =>
        /\ client.state = "ready" /\ client.owner = epoch =>
               client.snapshot.generation >= announced \/ GenerationNews(0)
        /\ \A i \in Inbox : inbox[i].kind = "snapshot" /\ inbox[i].owner = epoch =>
               inbox[i].generation >= announced \/ GenerationNews(i)

(* The first failure is one that the shell is told of.                     *)
Reported ==
    /\ faults = 0 /\ RuleDue => client.state # "failed"
    /\ \A i \in Inbox : inbox[i].kind = "refused" =>
           /\ faults > 0
           /\ faults = 1 => client.state # "failed"
           /\ \A j \in Inbox : inbox[j].kind = "refused" => j = i \/ faults > 1
    /\ faults <= 1 /\ client.bus =>
           \A r \in Rule : \/ r \in rules \/ client.told
                           \/ \E i \in Inbox : inbox[i].kind = "refused"
                           \/ \E i \in Out : client.out[i].kind = r

IInv ==
    /\ Local(client) /\ owned \in BOOLEAN
    /\ Authority /\ Messages /\ Epochs /\ Idle
    /\ RulesFirst /\ RulesAnsweredFirst /\ OwnerKnown /\ GenerationKnown /\ Reported

-----------------------------------------------------------------------------
(* What one callback, for a message m, makes of the client c.              *)
Message(m) ==
    /\ m.kind \in {"installed", "refused", "ownerChanged", "ownerIs",
                    "generation", "snapshot", "error"}
    /\ m.cookie \in Nat /\ m.owner \in 0..MaxEpoch /\ m.generation \in 0..MaxGeneration
    /\ m.kind = "generation" => m.owner # NoOwner
    /\ m.kind \in Early => m.cookie = NoCall

(* It queues at most one call.                                             *)
Queues(c, d) ==
    \/ d.out = c.out
    \/ d.out = Append(c.out, [kind |-> "query", cookie |-> c.cookie + 1])
    \/ d.out = Append(c.out, [kind |-> "fetch", cookie |-> c.cookie + 1])

(* Only the two messages about the owner change it.                        *)
Follows(c, m, d) ==
    \/ m.kind # "ownerChanged" /\ d.owner = c.owner
    \/ m.kind = "ownerIs" /\ d.owner = m.owner
    \/ m.kind = "ownerChanged" /\ d.owner \in {NoOwner, m.owner}

(* The snapshot is kept, dropped, or replaced by a newer one of its owner, *)
(* and without a query under way and with the rules answered it is dropped *)
(* only with the owner.                                                    *)
Holds(c, m, d) ==
    /\ \/ d.snapshot = NoSnapshot
       \/ d.snapshot = c.snapshot /\ d.owner = c.owner
       \/ /\ m.kind = "snapshot" /\ d.owner = c.owner /\ c.owner = m.owner
          /\ d.snapshot.generation = m.generation
          /\ m.generation >= c.snapshot.generation
    /\ c.query = NoCall /\ m.kind \notin {"installed", "refused"} /\ d.owner = c.owner =>
           d.snapshot.generation >= c.snapshot.generation

(* What makes a client ready, or leaves it so.                             *)
Readies(c, m, d) ==
    d.state = "ready" =>
        \/ /\ c.state = "ready" /\ d.snapshot = c.snapshot /\ d.owner = c.owner
           /\ m.kind = "generation" => m.owner # c.owner
        \/ m.kind = "snapshot" /\ d.owner = m.owner /\ d.snapshot.generation = m.generation

(* The shell is told of a first failure, and there is none without cause.  *)
Tells(c, m, sound, sent, d) ==
    /\ c.told => d.told
    /\ m.kind = "refused" /\ c.state # "failed" => d.told
    /\ sound /\ sent /\ c.state # "failed" /\ m.kind \in Early \ {"refused"} =>
           d.state # "failed"

Effect(c, m, sound, sent, d) ==
    /\ Local(d) /\ d.bus
    /\ Queues(c, d) /\ Follows(c, m, d) /\ Holds(c, m, d) /\ Readies(c, m, d)
    /\ Tells(c, m, sound, sent, d)

(* The bus has answered one of the two match rules.                        *)
LEMMA MatchInstalledKeeps ==
    ASSUME NEW c, NEW m, NEW sound \in BOOLEAN, NEW sent \in BOOLEAN,
           Local(c), c.bus, Message(m), m.kind \in {"installed", "refused"}
    PROVE  Effect(c, m, sound, sent, MatchInstalled(c, m, sound, sent))
<1> USE AuthorityAssumption
    DEF Local, Typed, Shows, Waits, Message, Early, ApplyOwner, RequestSnapshot, SetFailure,
        Send, CancelFetch, NoOwner, NoCall, NoSnapshot, MatchInstalled, QueryOwner
<1>1. Typed(MatchInstalled(c, m, sound, sent))
  OBVIOUS
<1>2. Shows(MatchInstalled(c, m, sound, sent))
  OBVIOUS
<1>3. Waits(MatchInstalled(c, m, sound, sent))
  OBVIOUS
<1>4. Queues(c, MatchInstalled(c, m, sound, sent))
  BY DEF Queues
<1>5. Follows(c, m, MatchInstalled(c, m, sound, sent))
  BY DEF Follows
<1>6. Holds(c, m, MatchInstalled(c, m, sound, sent))
  BY DEF Holds
<1>7. Readies(c, m, MatchInstalled(c, m, sound, sent))
  BY DEF Readies
<1>8. Tells(c, m, sound, sent, MatchInstalled(c, m, sound, sent))
  <2>1. c.told => MatchInstalled(c, m, sound, sent).told
    OBVIOUS
  <2>2. m.kind = "refused" /\ c.state # "failed" => MatchInstalled(c, m, sound, sent).told
    OBVIOUS
  <2>3. sound /\ sent /\ c.state # "failed" /\ m.kind \in Early \ {"refused"} => MatchInstalled(c, m, sound, sent).state # "failed"
    OBVIOUS
  <2> QED
    BY <2>1, <2>2, <2>3, Zenon DEF Tells
<1>9. MatchInstalled(c, m, sound, sent).bus
  OBVIOUS
<1> QED
  BY <1>1, <1>2, <1>3, <1>4, <1>5, <1>6, <1>7, <1>8, <1>9, ZenonT(30) DEF Effect

(* The signal that the name has another owner, or none.                    *)
LEMMA NameOwnerChangedKeeps ==
    ASSUME NEW c, NEW m, NEW sound \in BOOLEAN, NEW sent \in BOOLEAN,
           Local(c), c.bus, Message(m), m.kind = "ownerChanged"
    PROVE  Effect(c, m, sound, sent, NameOwnerChanged(c, m, sound, sent))
<1> USE AuthorityAssumption
    DEF Local, Typed, Shows, Waits, Message, Early, ApplyOwner, RequestSnapshot, SetFailure,
        Send, CancelFetch, NoOwner, NoCall, NoSnapshot, NameOwnerChanged, InvalidateOwnerEpoch
<1>1. Typed(NameOwnerChanged(c, m, sound, sent))
  OBVIOUS
<1>2. Shows(NameOwnerChanged(c, m, sound, sent))
  OBVIOUS
<1>3. Waits(NameOwnerChanged(c, m, sound, sent))
  OBVIOUS
<1>4. Queues(c, NameOwnerChanged(c, m, sound, sent))
  BY DEF Queues
<1>5. Follows(c, m, NameOwnerChanged(c, m, sound, sent))
  BY DEF Follows
<1>6. Holds(c, m, NameOwnerChanged(c, m, sound, sent))
  BY DEF Holds
<1>7. Readies(c, m, NameOwnerChanged(c, m, sound, sent))
  BY DEF Readies
<1>8. Tells(c, m, sound, sent, NameOwnerChanged(c, m, sound, sent))
  <2>1. c.told => NameOwnerChanged(c, m, sound, sent).told
    OBVIOUS
  <2>2. m.kind = "refused" /\ c.state # "failed" => NameOwnerChanged(c, m, sound, sent).told
    OBVIOUS
  <2>3. sound /\ sent /\ c.state # "failed" /\ m.kind \in Early \ {"refused"} => NameOwnerChanged(c, m, sound, sent).state # "failed"
    OBVIOUS
  <2> QED
    BY <2>1, <2>2, <2>3, Zenon DEF Tells
<1>9. NameOwnerChanged(c, m, sound, sent).bus
  OBVIOUS
<1> QED
  BY <1>1, <1>2, <1>3, <1>4, <1>5, <1>6, <1>7, <1>8, <1>9, ZenonT(30) DEF Effect

(* The signal that a generation was installed.                             *)
LEMMA GenerationChangedKeeps ==
    ASSUME NEW c, NEW m, NEW sound \in BOOLEAN, NEW sent \in BOOLEAN,
           Local(c), c.bus, Message(m), m.kind = "generation"
    PROVE  Effect(c, m, sound, sent, GenerationChanged(c, m, sound, sent))
<1> USE AuthorityAssumption
    DEF Local, Typed, Shows, Waits, Message, Early, ApplyOwner, RequestSnapshot, SetFailure,
        Send, CancelFetch, NoOwner, NoCall, NoSnapshot, GenerationChanged
<1>1. Typed(GenerationChanged(c, m, sound, sent))
  OBVIOUS
<1>2. Shows(GenerationChanged(c, m, sound, sent))
  OBVIOUS
<1>3. Waits(GenerationChanged(c, m, sound, sent))
  OBVIOUS
<1>4. Queues(c, GenerationChanged(c, m, sound, sent))
  BY DEF Queues
<1>5. Follows(c, m, GenerationChanged(c, m, sound, sent))
  BY DEF Follows
<1>6. Holds(c, m, GenerationChanged(c, m, sound, sent))
  BY DEF Holds
<1>7. Readies(c, m, GenerationChanged(c, m, sound, sent))
  BY DEF Readies
<1>8. Tells(c, m, sound, sent, GenerationChanged(c, m, sound, sent))
  <2>1. c.told => GenerationChanged(c, m, sound, sent).told
    OBVIOUS
  <2>2. m.kind = "refused" /\ c.state # "failed" => GenerationChanged(c, m, sound, sent).told
    OBVIOUS
  <2>3. sound /\ sent /\ c.state # "failed" /\ m.kind \in Early \ {"refused"} => GenerationChanged(c, m, sound, sent).state # "failed"
    OBVIOUS
  <2> QED
    BY <2>1, <2>2, <2>3, Zenon DEF Tells
<1>9. GenerationChanged(c, m, sound, sent).bus
  OBVIOUS
<1> QED
  BY <1>1, <1>2, <1>3, <1>4, <1>5, <1>6, <1>7, <1>8, <1>9, ZenonT(30) DEF Effect

(* The answer to the query for the owner, or its failure.                  *)
LEMMA OwnerReplyKeeps ==
    ASSUME NEW c, NEW m, NEW sound \in BOOLEAN, NEW sent \in BOOLEAN,
           Local(c), c.bus, Message(m), m.kind \in {"ownerIs", "snapshot", "error"}, c.query # NoCall
    PROVE  Effect(c, m, sound, sent, OwnerReply(c, m, sound, sent))
<1> USE AuthorityAssumption
    DEF Local, Typed, Shows, Waits, Message, Early, ApplyOwner, RequestSnapshot, SetFailure,
        Send, CancelFetch, NoOwner, NoCall, NoSnapshot, OwnerReply
<1>1. Typed(OwnerReply(c, m, sound, sent))
  OBVIOUS
<1>2. Shows(OwnerReply(c, m, sound, sent))
  OBVIOUS
<1>3. Waits(OwnerReply(c, m, sound, sent))
  OBVIOUS
<1>4. Queues(c, OwnerReply(c, m, sound, sent))
  BY DEF Queues
<1>5. Follows(c, m, OwnerReply(c, m, sound, sent))
  BY DEF Follows
<1>6. Holds(c, m, OwnerReply(c, m, sound, sent))
  BY DEF Holds
<1>7. Readies(c, m, OwnerReply(c, m, sound, sent))
  BY DEF Readies
<1>8. Tells(c, m, sound, sent, OwnerReply(c, m, sound, sent))
  <2>1. c.told => OwnerReply(c, m, sound, sent).told
    OBVIOUS
  <2>2. m.kind = "refused" /\ c.state # "failed" => OwnerReply(c, m, sound, sent).told
    OBVIOUS
  <2>3. sound /\ sent /\ c.state # "failed" /\ m.kind \in Early \ {"refused"} => OwnerReply(c, m, sound, sent).state # "failed"
    OBVIOUS
  <2> QED
    BY <2>1, <2>2, <2>3, Zenon DEF Tells
<1>9. OwnerReply(c, m, sound, sent).bus
  OBVIOUS
<1> QED
  BY <1>1, <1>2, <1>3, <1>4, <1>5, <1>6, <1>7, <1>8, <1>9, ZenonT(30) DEF Effect

(* The answer to a fetch, good, bad or late.                               *)
LEMMA SnapshotReplyKeeps ==
    ASSUME NEW c, NEW m, NEW sound \in BOOLEAN, NEW sent \in BOOLEAN,
           Local(c), c.bus, Message(m), m.kind \in {"ownerIs", "snapshot", "error"}, c.fetch # NoCall
    PROVE  Effect(c, m, sound, sent, SnapshotReply(c, m, sound, sent))
<1> USE AuthorityAssumption
    DEF Local, Typed, Shows, Waits, Message, Early, ApplyOwner, RequestSnapshot, SetFailure,
        Send, CancelFetch, NoOwner, NoCall, NoSnapshot, SnapshotReply,
        SchedulePendingFetch, Acceptable
<1>1. Typed(SnapshotReply(c, m, sound, sent))
  OBVIOUS
<1>2. Shows(SnapshotReply(c, m, sound, sent))
  OBVIOUS
<1>3. Waits(SnapshotReply(c, m, sound, sent))
  OBVIOUS
<1>4. Queues(c, SnapshotReply(c, m, sound, sent))
  BY DEF Queues
<1>5. Follows(c, m, SnapshotReply(c, m, sound, sent))
  BY DEF Follows
<1>6. Holds(c, m, SnapshotReply(c, m, sound, sent))
  BY DEF Holds
<1>7. Readies(c, m, SnapshotReply(c, m, sound, sent))
  BY DEF Readies
<1>8. Tells(c, m, sound, sent, SnapshotReply(c, m, sound, sent))
  <2>1. c.told => SnapshotReply(c, m, sound, sent).told
    OBVIOUS
  <2>2. m.kind = "refused" /\ c.state # "failed" => SnapshotReply(c, m, sound, sent).told
    OBVIOUS
  <2>3. sound /\ sent /\ c.state # "failed" /\ m.kind \in Early \ {"refused"} => SnapshotReply(c, m, sound, sent).state # "failed"
    OBVIOUS
  <2> QED
    BY <2>1, <2>2, <2>3, Zenon DEF Tells
<1>9. SnapshotReply(c, m, sound, sent).bus
  OBVIOUS
<1> QED
  BY <1>1, <1>2, <1>3, <1>4, <1>5, <1>6, <1>7, <1>8, <1>9, ZenonT(30) DEF Effect

(* A callback of sd-bus, whatever the message is.                          *)
LEMMA HandleKeeps ==
    ASSUME NEW c, NEW m, NEW sound \in BOOLEAN, NEW sent \in BOOLEAN,
           Local(c), c.bus, Message(m)
    PROVE  Effect(c, m, sound, sent, Handle(c, m, sound, sent))
<1> DEFINE d == Handle(c, m, sound, sent)
<1>1. CASE m.kind \in {"installed", "refused"}
  <2>1. d = MatchInstalled(c, m, sound, sent)
    BY <1>1 DEF Handle, Message, Early
  <2> QED
    BY <1>1, <2>1, MatchInstalledKeeps
<1>2. CASE m.kind = "ownerChanged"
  <2>1. d = NameOwnerChanged(c, m, sound, sent)
    BY <1>2 DEF Handle, Message, Early
  <2> QED
    BY <1>2, <2>1, NameOwnerChangedKeeps
<1>3. CASE m.kind = "generation"
  <2>1. d = GenerationChanged(c, m, sound, sent)
    BY <1>3 DEF Handle, Message, Early
  <2> QED
    BY <1>3, <2>1, GenerationChangedKeeps
<1>4. CASE m.kind \in {"ownerIs", "snapshot", "error"}
  <2>1. \/ d = OwnerReply(c, m, sound, sent) /\ c.query # NoCall
        \/ d = SnapshotReply(c, m, sound, sent) /\ c.fetch # NoCall
        \/ d = c
    BY <1>4 DEF Handle
  <2>2. CASE d = c
    BY <1>4, <2>2 DEF Effect, Queues, Follows, Holds, Readies, Tells, Early, Local, Typed
  <2> QED
    BY <1>4, <2>1, <2>2, OwnerReplyKeeps, SnapshotReplyKeeps
<1> QED
  BY <1>1, <1>2, <1>3, <1>4 DEF Message

-----------------------------------------------------------------------------
(* Queues of messages.                                                     *)
LEMMA AppendFacts ==
    ASSUME NEW S, NEW s \in Seq(S), NEW e \in S
    PROVE  /\ Append(s, e) \in Seq(S)
           /\ Len(s) \in Nat /\ Len(Append(s, e)) = Len(s) + 1
           /\ \A i \in 1..Len(s) : Append(s, e)[i] = s[i]
           /\ Append(s, e)[Len(s) + 1] = e
  OBVIOUS

(* The inbox without its first message.                                    *)
LEMMA TailFacts ==
    ASSUME NEW S, NEW s \in Seq(S), s # <<>>
    PROVE  /\ Tail(s) \in Seq(S)
           /\ Len(s) \in Nat \ {0} /\ Len(Tail(s)) = Len(s) - 1
           /\ \A i \in 1..Len(Tail(s)) : Tail(s)[i] = s[i + 1]
           /\ Head(s) = s[1] /\ s[1] \in S
  OBVIOUS

(* A call that the client queues leaves the rules where they are.          *)
SameRules(c, d) ==
    /\ d.out \in Seq(Outgoing)
    /\ \A i \in 1..Len(c.out) : i \in 1..Len(d.out) /\ d.out[i] = c.out[i]
    /\ \A i \in 1..Len(d.out) : d.out[i].kind \in Rule => i \in 1..Len(c.out)

(* A new call is queued behind the rules, which stay as they are.          *)
LEMMA CallsFollowRules ==
    ASSUME NEW c, NEW d, c.out \in Seq(Outgoing), c.cookie \in Nat, Queues(c, d)
    PROVE  SameRules(c, d)
<1>1. CASE d.out = c.out
  BY <1>1 DEF SameRules
<1>2. ASSUME NEW kind \in {"query", "fetch"},
             d.out = Append(c.out, [kind |-> kind, cookie |-> c.cookie + 1])
      PROVE  SameRules(c, d)
  <2> DEFINE e == [kind |-> kind, cookie |-> c.cookie + 1]
  <2>1. e \in Outgoing /\ e.kind \notin Rule
    BY DEF Outgoing, Rule
  <2> HIDE DEF e
  <2> QED
    BY <1>2, <2>1, AppendFacts DEF SameRules, e
<1> QED
  BY <1>1, <1>2 DEF Queues

(* A message that is waiting is well formed.                               *)
LEMMA InboxMessage ==
    ASSUME IInv, NEW i \in Inbox
    PROVE  Message(inbox[i]) /\ inbox[i] \in Incoming
<1>1. inbox[i] \in Incoming /\ inbox[i].owner <= epoch
  BY DEF IInv, Messages, Epochs, Inbox
<1> QED
  BY <1>1 DEF IInv, Message, Incoming, Epochs, NoOwner

-----------------------------------------------------------------------------
(* The event loop takes a message.                                         *)
LEMMA DispatchKeepsIInv ==
    ASSUME IInv, NEW sound \in BOOLEAN, NEW sent \in BOOLEAN, DispatchBus(sound, sent)
    PROVE  IInv'
<1> DEFINE m == inbox[1]
<1>1. /\ inbox # <<>> /\ Head(inbox) = m /\ inbox' = Tail(inbox)
      /\ Len(inbox) \in Nat \ {0} /\ Len(inbox') = Len(inbox) - 1
      /\ inbox' \in Seq(Incoming)
      /\ \A i \in 1..Len(inbox') : inbox'[i] = inbox[i + 1]
  BY TailFacts DEF DispatchBus, IInv, Messages
<1>2. m \in Incoming /\ Message(m)
  BY <1>1, InboxMessage DEF Inbox
<1>3. Effect(client, m, sound, sent, client')
  <2>1. client' = Handle(client, m, sound, sent)
    BY <1>1 DEF DispatchBus
  <2> QED
    BY <1>2, <2>1, HandleKeeps DEF DispatchBus, IInv
<1>4. SameRules(client, client')
  BY <1>3, CallsFollowRules DEF Effect, IInv, Messages, Local, Typed
<1>5. /\ faults' = faults \/ faults' = faults + 1
      /\ faults' = faults => sound /\ sent
      /\ faults' \in 0..MaxFaults /\ faults \in Nat
  BY ClientAssumption DEF DispatchBus, Fault, IInv, Messages
<1>6. UNCHANGED <<epoch, owned, generation, announced, rules, atService, starts>>
  BY DEF DispatchBus, authorityVars
<1>7. client.bus /\ client'.bus /\ Local(client')
  BY <1>3 DEF DispatchBus, Effect
<1> HIDE DEF m
<1>8. Authority' /\ Messages' /\ Idle' /\ (owned \in BOOLEAN)'
  BY <1>1, <1>4, <1>5, <1>6, <1>7 DEF IInv, Authority, Messages, Idle, SameRules
<1>9. Epochs'
  BY <1>1, <1>2, <1>3, <1>6
     DEF IInv, Epochs, Authority, Messages, Incoming, Inbox, Effect, Follows, NoOwner, m
<1>10. RulesFirst'
  <2>1. SUFFICES ASSUME NEW i \in 1..Len(client'.out), client'.out[i].kind \in Rule
                 PROVE  /\ client'.out[i].kind # "ownerRule"
                        /\ i = 1 \/ (i = 2 /\ client'.out[1].kind = "ownerRule")
                        /\ "generationRule" \notin rules /\ atService = {}
    BY <1>6 DEF RulesFirst, Out, Rule
  <2>2. i \in 1..Len(client.out) /\ client'.out[i] = client.out[i]
    BY <1>4, <2>1 DEF SameRules
  <2>3. client.out[i].kind = "generationRule" /\ (i = 1 \/ i = 2)
    BY <1>1, <2>1, <2>2 DEF IInv, RulesFirst, Out, Rule
  <2>4. i = 1
    BY <1>1, <1>4, <2>1, <2>2, <2>3 DEF IInv, RulesFirst, Out, Rule, SameRules
  <2> QED
    BY <2>2, <2>3, <2>4 DEF IInv, RulesFirst, Out
<1>11. RulesAnsweredFirst'
  BY <1>1, <1>3, <1>4, <1>6, SMTT(30)
     DEF IInv, RulesAnsweredFirst, RuleDue, Inbox, Out, SameRules, Effect, Holds, Early, m
<1>12. OwnerKnown'
  <2>0. ASSUME NEW i \in Nat, NEW j \in Inbox, j > i + 1, inbox[j].kind = "ownerChanged"
        PROVE  OwnerNews(i)'
    <3>1. j - 1 \in 1..Len(inbox') /\ inbox'[j - 1] = inbox[j] /\ j - 1 > i
      BY <1>1, <2>0 DEF Inbox
    <3> QED
      BY <2>0, <3>1 DEF OwnerNews, Inbox
  <2>1. /\ \A i \in 1..Len(inbox') : OwnerNews(i + 1) => OwnerNews(i)'
        /\ OwnerNews(1) => OwnerNews(0)'
        /\ OwnerNews(0) => m.kind = "ownerChanged" \/ OwnerNews(0)'
    <3>1. \A i \in Nat : OwnerNews(i + 1) => OwnerNews(i)'
      BY <2>0 DEF OwnerNews
    <3>2. OwnerNews(0) => m.kind = "ownerChanged" \/ OwnerNews(1)
      BY <1>1 DEF OwnerNews, Inbox, m
    <3>3. OwnerNews(1) => OwnerNews(0)'
      BY <3>1
    <3> QED
      BY <1>1, <3>1, <3>2, <3>3
  <2>2. SUFFICES ASSUME "ownerRule" \in rules
                 PROVE  /\ client'.owner \in {NoOwner, Owner} \/ OwnerNews(0)'
                        /\ \A i \in 1..Len(inbox') :
                               inbox'[i].kind \in {"ownerChanged", "ownerIs"} =>
                                   inbox'[i].owner = Owner \/ OwnerNews(i)'
    BY <1>6 DEF OwnerKnown, Inbox, Owner
  <2>3. /\ client.owner \in {NoOwner, Owner} \/ OwnerNews(0)
        /\ m.kind \in {"ownerChanged", "ownerIs"} => m.owner = Owner \/ OwnerNews(1)
        /\ \A i \in 1..Len(inbox') : inbox'[i].kind \in {"ownerChanged", "ownerIs"} =>
               inbox'[i].owner = Owner \/ OwnerNews(i + 1)
    BY <1>1, <2>2 DEF IInv, OwnerKnown, Inbox, m
  <2>4. client'.owner \in {NoOwner, Owner} \/ OwnerNews(0)'
    BY <1>3, <2>1, <2>3 DEF Effect, Follows
  <2> QED
    BY <2>1, <2>3, <2>4
<1>13. GenerationKnown'
  <2>0. ASSUME NEW i \in Nat, NEW j \in Inbox, j > i + 1,
               inbox[j].kind = "generation", inbox[j].owner = epoch
        PROVE  GenerationNews(i)'
    <3>1. j - 1 \in 1..Len(inbox') /\ inbox'[j - 1] = inbox[j] /\ j - 1 > i
      BY <1>1, <2>0 DEF Inbox
    <3> QED
      BY <1>6, <2>0, <3>1 DEF GenerationNews, Inbox
  <2>1. /\ \A i \in 1..Len(inbox') : GenerationNews(i + 1) => GenerationNews(i)'
        /\ GenerationNews(1) => GenerationNews(0)'
        /\ GenerationNews(0) => \/ m.kind = "generation" /\ m.owner = epoch
                                \/ GenerationNews(0)'
    <3>1. \A i \in Nat : GenerationNews(i + 1) => GenerationNews(i)'
      BY <2>0 DEF GenerationNews
    <3>2. GenerationNews(0) => (m.kind = "generation" /\ m.owner = epoch) \/ GenerationNews(1)
      BY <1>1 DEF GenerationNews, Inbox, m
    <3>3. GenerationNews(1) => GenerationNews(0)'
      BY <3>1
    <3> QED
      BY <1>1, <3>1, <3>2, <3>3
  <2>2. SUFFICES ASSUME rules = Rule, owned
                 PROVE  /\ client'.state = "ready" /\ client'.owner = epoch =>
                               client'.snapshot.generation >= announced \/ GenerationNews(0)'
                        /\ \A i \in 1..Len(inbox') :
                               inbox'[i].kind = "snapshot" /\ inbox'[i].owner = epoch =>
                                   inbox'[i].generation >= announced \/ GenerationNews(i)'
    BY <1>6 DEF GenerationKnown, Inbox
  <2>3. /\ client.state = "ready" /\ client.owner = epoch =>
               client.snapshot.generation >= announced \/ GenerationNews(0)
        /\ m.kind = "snapshot" /\ m.owner = epoch =>
               m.generation >= announced \/ GenerationNews(1)
        /\ \A i \in 1..Len(inbox') : inbox'[i].kind = "snapshot" /\ inbox'[i].owner = epoch =>
               inbox'[i].generation >= announced \/ GenerationNews(i + 1)
    BY <1>1, <2>2 DEF IInv, GenerationKnown, Inbox, m
  <2>4. client'.state = "ready" /\ client'.owner = epoch =>
            client'.snapshot.generation >= announced \/ GenerationNews(0)'
    BY <1>3, <2>1, <2>3 DEF Effect, Readies
  <2> QED
    BY <2>1, <2>3, <2>4
<1>14. Reported'
  <2>1. m.kind = "refused" =>
            /\ faults > 0 /\ (faults = 1 => client.state # "failed")
            /\ \A i \in Inbox : inbox[i].kind = "refused" => i = 1 \/ faults > 1
    BY <1>1 DEF IInv, Reported, Inbox, m
  <2>2. faults' = 0 /\ RuleDue' => client'.state # "failed"
    <3> SUFFICES ASSUME faults' = 0, RuleDue' PROVE client'.state # "failed"
      OBVIOUS
    <3>1. RuleDue /\ faults = 0 /\ sound /\ sent
      BY <1>4, <1>5 DEF RuleDue, Out, SameRules
    <3>2. m.kind \in Early \ {"refused"} /\ client.state # "failed"
      BY <1>1, <2>1, <3>1 DEF IInv, Reported, RulesAnsweredFirst, Inbox, m
    <3> QED
      BY <1>3, <3>1, <3>2 DEF Effect, Tells
  <2>3. ASSUME NEW i \in 1..Len(inbox'), inbox'[i].kind = "refused"
        PROVE  /\ faults' > 0 /\ (faults' = 1 => client'.state # "failed")
               /\ \A j \in 1..Len(inbox') : inbox'[j].kind = "refused" => j = i \/ faults' > 1
    <3>1. i + 1 \in Inbox /\ inbox[i + 1].kind = "refused"
      BY <1>1, <2>3 DEF Inbox
    <3>2. /\ faults > 0 /\ (faults = 1 => client.state # "failed")
          /\ \A j \in Inbox : inbox[j].kind = "refused" => j = i + 1 \/ faults > 1
          /\ m.kind \in Early
      BY <1>1, <3>1 DEF IInv, Reported, RulesAnsweredFirst, Inbox, m
    <3>3. faults' = 1 => client'.state # "failed"
      BY <1>3, <1>5, <2>1, <3>1, <3>2 DEF Effect, Tells
    <3> QED
      BY <1>1, <1>5, <3>2, <3>3 DEF Inbox
  <2>4. ASSUME faults' <= 1, NEW r \in Rule
        PROVE  \/ r \in rules \/ client'.told
               \/ \E i \in 1..Len(inbox') : inbox'[i].kind = "refused"
               \/ \E i \in 1..Len(client'.out) : client'.out[i].kind = r
    <3>1. \/ r \in rules \/ client.told
          \/ \E i \in Inbox : inbox[i].kind = "refused"
          \/ \E i \in Out : client.out[i].kind = r
      BY <1>5, <1>7, <2>4 DEF IInv, Reported
    <3>2. client.told => client'.told
      BY <1>3 DEF Effect, Tells
    <3>3. ASSUME NEW i \in Inbox, inbox[i].kind = "refused"
          PROVE  client'.told \/ \E j \in 1..Len(inbox') : inbox'[j].kind = "refused"
      <4>1. CASE i = 1
        BY <1>3, <1>5, <2>1, <2>4, <3>3, <4>1 DEF Effect, Tells, m
      <4>2. CASE i # 1
        <5>1. i - 1 \in 1..Len(inbox') /\ inbox'[i - 1] = inbox[i]
          BY <1>1, <4>2 DEF Inbox
        <5> QED
          BY <3>3, <5>1
      <4> QED
        BY <4>1, <4>2
    <3>4. ASSUME NEW i \in Out, client.out[i].kind = r
          PROVE  \E j \in 1..Len(client'.out) : client'.out[j].kind = r
      BY <1>4, <3>4 DEF SameRules, Out
    <3> QED
      BY <3>1, <3>2, <3>3, <3>4
  <2> QED
    BY <1>6, <2>2, <2>3, <2>4 DEF Reported, Inbox, Out
<1> QED
  BY <1>7, <1>8, <1>9, <1>10, <1>11, <1>12, <1>13, <1>14 DEF IInv

-----------------------------------------------------------------------------
(* A client without a connection: nothing is under way.                    *)
LEMMA NobodyConnected ==
    ASSUME IInv, Local(client'), ~client'.bus, client'.out = <<>>,
           client'.owner = NoOwner, client'.fetch = NoCall, client'.query = NoCall,
           client'.snapshot = NoSnapshot,
           inbox' = <<>>, rules' = {}, atService' = {},
           starts' \in 0..MaxStarts, faults' \in 0..MaxFaults,
           UNCHANGED <<epoch, owned, generation, announced>>
    PROVE  IInv'
<1>1. Authority' /\ Messages' /\ Idle' /\ (owned \in BOOLEAN)'
  BY DEF IInv, Authority, Messages, Idle
<1>2. Epochs'
  BY DEF IInv, Epochs, Authority, Inbox, NoOwner
<1>3. RulesFirst' /\ RulesAnsweredFirst' /\ Reported'
  BY DEF RulesFirst, RulesAnsweredFirst, Reported, RuleDue, Inbox, Out
<1>4. OwnerKnown' /\ GenerationKnown'
  BY DEF OwnerKnown, GenerationKnown, Rule
<1> QED
  BY <1>1, <1>2, <1>3, <1>4 DEF IInv

-----------------------------------------------------------------------------
(* The other steps of the client.                                          *)

(* An expired call is an error in the place of its answer.                 *)
LEMMA CallExpiresKeepsIInv ==
    ASSUME IInv, NEW sent \in BOOLEAN, NEW cookie \in {client.query, client.fetch},
           CallExpires(cookie, sent)
    PROVE  IInv'
<1> DEFINE m == From("error", cookie, NoOwner, 0)
<1>1. m.kind = "error" /\ Message(m)
  BY AuthorityAssumption DEF From, Message, Early, NoOwner, IInv, Local, Typed
<1> HIDE DEF m
<1>2. Effect(client, m, TRUE, sent, client')
  <2>1. client' = Handle(client, m, TRUE, sent)
    BY DEF CallExpires, m
  <2> QED
    BY <1>1, <2>1, HandleKeeps DEF CallExpires, IInv
<1>3. SameRules(client, client')
  BY <1>2, CallsFollowRules DEF Effect, IInv, Messages, Local, Typed
<1>4. /\ faults' = faults + 1 /\ faults' \in 0..MaxFaults /\ faults \in Nat
      /\ UNCHANGED <<epoch, owned, generation, announced, inbox, rules, atService, starts>>
  BY ClientAssumption DEF CallExpires, Fault, IInv, Messages, authorityVars, busVars
<1>5. client.bus /\ client'.bus /\ Local(client')
  BY <1>2 DEF CallExpires, Effect
<1>6. client'.owner = client.owner
  BY <1>1, <1>2 DEF Effect, Follows
<1>7. Authority' /\ Messages' /\ Idle' /\ (owned \in BOOLEAN)' /\ Epochs'
  BY <1>3, <1>4, <1>5, <1>6 DEF IInv, Authority, Messages, Idle, Epochs, Inbox, SameRules
<1>8. RulesFirst'
  <2>1. SUFFICES ASSUME NEW i \in 1..Len(client'.out), client'.out[i].kind \in Rule
                 PROVE  /\ client'.out[i].kind = "ownerRule" =>
                               /\ i = 1 /\ client'.owner = NoOwner
                               /\ inbox = <<>> /\ rules = {} /\ atService = {}
                        /\ client'.out[i].kind = "generationRule" =>
                               /\ i = 1 \/ (i = 2 /\ client'.out[1].kind = "ownerRule")
                               /\ "generationRule" \notin rules /\ atService = {}
    BY <1>4 DEF RulesFirst, Out, Rule
  <2>2. i \in 1..Len(client.out) /\ client'.out[i] = client.out[i]
    BY <1>3, <2>1 DEF SameRules
  <2>3. i = 2 => client'.out[1] = client.out[1]
    BY <1>3, <2>2 DEF SameRules
  <2> QED
    BY <1>6, <2>2, <2>3 DEF IInv, RulesFirst, Out
<1>9. RuleDue' => RuleDue
  BY <1>3 DEF RuleDue, Out, SameRules
<1>10. RulesAnsweredFirst' /\ OwnerKnown' /\ GenerationKnown'
  <2>1. client.snapshot = NoSnapshot => client'.snapshot = NoSnapshot
    BY <1>1, <1>2 DEF Effect, Holds
  <2>2. RulesAnsweredFirst'
    BY <1>4, <1>9, <2>1 DEF IInv, RulesAnsweredFirst, Inbox
  <2>3. OwnerKnown'
    BY <1>4, <1>6 DEF IInv, OwnerKnown, OwnerNews, Inbox, Owner
  <2>4. GenerationKnown'
    BY <1>1, <1>2, <1>4 DEF IInv, GenerationKnown, GenerationNews, Inbox, Effect, Readies
  <2> QED
    BY <2>2, <2>3, <2>4
<1>11. Reported'
  <2>1. client.told => client'.told
    BY <1>2 DEF Effect, Tells
  <2>2. faults' > 0 /\ ((\E i \in Inbox : inbox[i].kind = "refused") => faults' > 1)
    BY <1>4 DEF IInv, Reported
  <2>3. ASSUME faults' <= 1, NEW r \in Rule
        PROVE  \/ r \in rules \/ client'.told
               \/ \E i \in Inbox : inbox[i].kind = "refused"
               \/ \E i \in 1..Len(client'.out) : client'.out[i].kind = r
    BY <1>3, <1>4, <1>5, <2>1, <2>3 DEF IInv, Reported, SameRules, Out
  <2> QED
    BY <1>4, <2>2, <2>3 DEF Reported, Inbox, Out
<1> QED
  BY <1>5, <1>7, <1>8, <1>10, <1>11 DEF IInv

(* The client starts, or starts again.                                     *)
LEMMA StartKeepsIInv ==
    ASSUME IInv, NEW sent \in BOOLEAN, Start(sent)
    PROVE  IInv'
<1> USE ClientAssumption, AuthorityAssumption
<1>1. /\ ~client.bus /\ starts' \in 0..MaxStarts /\ faults' \in 0..MaxFaults
      /\ UNCHANGED <<epoch, owned, generation, announced, inbox, rules, atService>>
  BY DEF Start, Fault, IInv, Messages, authorityVars, busVars
<1>2. /\ inbox = <<>> /\ rules = {} /\ atService = {} /\ client.out = <<>>
      /\ client.owner = NoOwner /\ client.fetch = NoCall /\ client.query = NoCall
      /\ client.snapshot = NoSnapshot
  BY <1>1 DEF IInv, Idle, Local, Shows
<1>3. CASE sent
  <2> DEFINE one == [kind |-> "ownerRule", cookie |-> 1]
             two == [kind |-> "generationRule", cookie |-> 2]
  <2>0. client' = [Send(Send([client EXCEPT !.cookie = 0, !.out = <<>>],
                             "ownerRule"), "generationRule")
                   EXCEPT !.bus = TRUE, !.installs = 2, !.state = "connecting"]
    BY <1>3, Zenon DEF Start
  <2>1. client'.out = Append(Append(<<>>, one), two)
    BY <2>0 DEF Send, IInv, Local, Typed
  <2>2. one \in Outgoing /\ two \in Outgoing
    BY DEF Outgoing
  <2>3. /\ client'.out \in Seq(Outgoing) /\ Len(client'.out) = 2
        /\ client'.out[1].kind = "ownerRule" /\ client'.out[2].kind = "generationRule"
    BY <2>1, <2>2
  <2>4. /\ client'.bus /\ client'.state = "connecting" /\ client'.owner = NoOwner
        /\ client'.snapshot = NoSnapshot /\ client'.fetch = NoCall
    BY <1>2, <2>0 DEF Send, IInv, Local, Typed
  <2>5. Local(client')
    BY <1>2, <2>0, <2>4 DEF Send, IInv, Local, Typed, Shows, Waits, NoOwner, NoCall
  <2>6. Authority' /\ Messages' /\ Epochs' /\ Idle' /\ (owned \in BOOLEAN)'
    BY <1>1, <1>2, <2>3, <2>4 DEF IInv, Authority, Messages, Epochs, Idle, Inbox
  <2>7. RulesFirst' /\ RulesAnsweredFirst'
    BY <1>1, <1>2, <2>3, <2>4 DEF RulesFirst, RulesAnsweredFirst, Inbox, Out
  <2>8. OwnerKnown' /\ GenerationKnown'
    BY <1>1, <1>2 DEF OwnerKnown, GenerationKnown, Rule
  <2>9. Reported'
    BY <1>1, <1>2, <2>3, <2>4 DEF Reported, Rule, Inbox, Out
  <2> QED
    BY <2>5, <2>6, <2>7, <2>8, <2>9 DEF IInv
<1>4. CASE ~sent
  <2>1. /\ Local(client') /\ ~client'.bus /\ client'.out = <<>>
        /\ client'.owner = NoOwner /\ client'.fetch = NoCall /\ client'.query = NoCall
        /\ client'.snapshot = NoSnapshot
    <3>1. client' = client \/ client' = [Stopped EXCEPT !.told = client.told]
      BY <1>4 DEF Start
    <3>2. CASE client' = client
      BY <1>1, <1>2, <3>2 DEF IInv
    <3>3. CASE client' = [Stopped EXCEPT !.told = client.told]
      BY <3>3 DEF IInv, Stopped, Local, Typed, Shows, Waits, NoOwner, NoCall, NoSnapshot
    <3> QED
      BY <3>1, <3>2, <3>3
  <2> QED
    BY <1>1, <1>2, <2>1, NobodyConnected
<1> QED
  BY <1>3, <1>4

(* The client stops; what is on its way no longer concerns it.             *)
LEMMA StopKeepsIInv ==
    ASSUME IInv, Stop
    PROVE  IInv'
<1>1. /\ Local(client') /\ ~client'.bus /\ client'.out = <<>>
      /\ client'.owner = NoOwner /\ client'.fetch = NoCall /\ client'.query = NoCall
      /\ client'.snapshot = NoSnapshot
  BY AuthorityAssumption
     DEF Stop, Stopped, Local, Typed, Shows, Waits, NoOwner, NoCall, NoSnapshot
<1>2. /\ inbox' = <<>> /\ rules' = {} /\ atService' = {}
      /\ UNCHANGED <<epoch, owned, generation, announced, starts, faults>>
  BY DEF Stop, Disconnected, authorityVars
<1> QED
  BY <1>1, <1>2, NobodyConnected DEF IInv, Messages

(* The connection is lost.                                                 *)
LEMMA HandleBusFailureKeepsIInv ==
    ASSUME IInv, HandleBusFailure
    PROVE  IInv'
<1>1. /\ Local(client') /\ ~client'.bus /\ client'.out = <<>>
      /\ client'.owner = NoOwner /\ client'.fetch = NoCall /\ client'.query = NoCall
      /\ client'.snapshot = NoSnapshot
  BY AuthorityAssumption
     DEF HandleBusFailure, SetFailure, CancelFetch, IInv, Local, Typed, Shows, Waits,
         NoOwner, NoCall, NoSnapshot
<1>2. /\ inbox' = <<>> /\ rules' = {} /\ atService' = {}
      /\ faults' \in 0..MaxFaults
      /\ UNCHANGED <<epoch, owned, generation, announced, starts>>
  BY ClientAssumption DEF HandleBusFailure, Disconnected, authorityVars, Fault, IInv, Messages
<1> QED
  BY <1>1, <1>2, NobodyConnected DEF IInv, Messages

-----------------------------------------------------------------------------
(* The steps of the daemon and of the service.                             *)

(* A message that arrives leaves the others in their places, and is behind *)
(* all of them.                                                            *)
LEMMA InboxGrows ==
    ASSUME IInv, NEW e \in Incoming, inbox' = Append(inbox, e)
    PROVE  /\ inbox' \in Seq(Incoming)
           /\ Len(inbox) \in Nat /\ Len(inbox') = Len(inbox) + 1
           /\ \A i \in Inbox : i \in Inbox' /\ inbox'[i] = inbox[i]
           /\ \A i \in Inbox' : i \in Inbox \/ (i = Len(inbox) + 1 /\ inbox'[i] = e)
           /\ Len(inbox) + 1 \in Inbox' /\ inbox'[Len(inbox) + 1] = e
<1>1. inbox \in Seq(Incoming)
  BY DEF IInv, Messages
<1> QED
  BY <1>1, AppendFacts DEF Inbox

(* What is appended to the inbox takes no news away.                       *)
LEMMA NewsStays ==
    ASSUME IInv, NEW e \in Incoming, inbox' = Append(inbox, e)
    PROVE  /\ \A i \in Nat : OwnerNews(i) => OwnerNews(i)'
           /\ epoch' = epoch => \A i \in Nat : GenerationNews(i) => GenerationNews(i)'
           /\ e.kind = "ownerChanged" => \A i \in 0..Len(inbox) : OwnerNews(i)'
           /\ e.kind = "generation" /\ e.owner = epoch' =>
                  \A i \in 0..Len(inbox) : GenerationNews(i)'
<1>1. \A i \in Nat : OwnerNews(i) => OwnerNews(i)'
  BY InboxGrows DEF OwnerNews
<1>2. epoch' = epoch => \A i \in Nat : GenerationNews(i) => GenerationNews(i)'
  BY InboxGrows DEF GenerationNews
<1>3. e.kind = "ownerChanged" => \A i \in 0..Len(inbox) : OwnerNews(i)'
  BY InboxGrows DEF OwnerNews
<1>4. e.kind = "generation" /\ e.owner = epoch' =>
          \A i \in 0..Len(inbox) : GenerationNews(i)'
  BY InboxGrows DEF GenerationNews
<1> QED
  BY <1>1, <1>2, <1>3, <1>4

(* The bus or the service answers one call of the client.                  *)
LEMMA ServiceRepliesKeepsIInv ==
    ASSUME IInv, NEW call \in atService, ServiceReplies(call)
    PROVE  IInv'
<1> DEFINE e == IF call.owner = Owner
                THEN From("snapshot", call.cookie, call.owner, generation)
                ELSE From("error", call.cookie, NoOwner, 0)
<1>1. call.cookie \in Nat /\ call.owner \in 1..MaxEpoch /\ call.owner <= epoch
  BY DEF IInv, Messages, Epochs
<1>2. /\ e \in Incoming /\ e.kind \in {"snapshot", "error"} /\ e.owner <= epoch
      /\ e.kind = "snapshot" => /\ e.owner > 0
                                /\ owned => e.generation = generation
  BY <1>1, AuthorityAssumption DEF From, Incoming, NoOwner, IInv, Authority
<1>3. /\ inbox' = Append(inbox, e) /\ atService' \subseteq atService /\ atService # {}
      /\ UNCHANGED <<epoch, owned, generation, announced, client, rules, starts, faults>>
  BY DEF ServiceReplies, authorityVars
<1> HIDE DEF e
<1>4. client.bus /\ ~RuleDue
  BY <1>3 DEF IInv, Idle, RulesFirst, RuleDue, Rule, Out
<1>5. Authority' /\ Messages' /\ Idle' /\ (owned \in BOOLEAN)' /\ Local(client')
  BY <1>2, <1>3, <1>4, InboxGrows DEF IInv, Authority, Messages, Idle
<1>6. Epochs'
  <2>1. \A c \in atService' : c.owner <= epoch'
    BY <1>3 DEF IInv, Epochs
  <2> QED
    BY <1>2, <1>3, <2>1, InboxGrows DEF IInv, Epochs, Early
<1>7. RulesFirst' /\ RulesAnsweredFirst'
  <2>1. RulesFirst'
    BY <1>3, <1>4 DEF RulesFirst, RuleDue, Rule, Out
  <2>2. ~RuleDue'
    BY <1>3, <1>4 DEF RuleDue, Out
  <2>3. \A i \in Inbox' : inbox'[i].kind \in {"installed", "refused"} =>
           /\ client.snapshot = NoSnapshot /\ i \in Inbox
           /\ \A j \in 1..i : j \in Inbox /\ inbox'[j].kind \in Early
    BY <1>2, <1>3, InboxGrows DEF IInv, RulesAnsweredFirst, Inbox
  <2> QED
    BY <1>3, <2>1, <2>2, <2>3 DEF RulesAnsweredFirst
<1>8. OwnerKnown'
  <2>1. \A i \in Nat : OwnerNews(i) => OwnerNews(i)'
    BY <1>2, <1>3, NewsStays
  <2>2. Owner' = Owner
    BY <1>3 DEF Owner
  <2> QED
    BY <1>2, <1>3, <2>1, <2>2, InboxGrows DEF IInv, OwnerKnown, Inbox
<1>9. GenerationKnown'
  <2>1. \A i \in Nat : GenerationNews(i) => GenerationNews(i)'
    BY <1>2, <1>3, NewsStays
  <2> QED
    BY <1>2, <1>3, <2>1, InboxGrows DEF IInv, GenerationKnown, Authority, Inbox
<1>10. Reported'
  <2>1. \A i \in Inbox' : inbox'[i].kind = "refused" => i \in Inbox /\ inbox[i].kind = "refused"
    BY <1>2, <1>3, InboxGrows
  <2>2. \A i \in Inbox : i \in Inbox' /\ inbox'[i] = inbox[i]
    BY <1>2, <1>3, InboxGrows
  <2>3. RuleDue' = RuleDue /\ Out' = Out
    BY <1>3 DEF RuleDue, Out
  <2> QED
    BY <1>3, <2>1, <2>2, <2>3 DEF IInv, Reported
<1> QED
  BY <1>5, <1>6, <1>7, <1>8, <1>9, <1>10 DEF IInv

(* News of the service, for a client that asked for it.                    *)
NewsArrives(rule, e) ==
    \/ rule \notin rules /\ inbox' = inbox
    \/ rule \in rules /\ inbox' = Append(inbox, e)

(* What news of any kind leaves alone.                                     *)
LEMMA NewsKeepsRules ==
    ASSUME IInv, NEW rule, NEW e \in Incoming, NewsArrives(rule, e),
           e.kind \in {"ownerChanged", "generation"}, e.cookie = NoCall, e.owner <= epoch',
           e.kind = "generation" => e.owner > 0,
           epoch' \in 0..MaxEpoch, epoch <= epoch', Authority', (owned \in BOOLEAN)',
           UNCHANGED <<client, rules, atService, starts, faults>>
    PROVE  /\ Local(client') /\ (owned \in BOOLEAN)'
           /\ Authority' /\ Messages' /\ Epochs' /\ Idle'
           /\ RulesFirst' /\ RulesAnsweredFirst' /\ Reported'
<1>1. \A i \in Inbox : i \in Inbox' /\ inbox'[i] = inbox[i]
  BY InboxGrows DEF NewsArrives, Inbox
<1>2. \A i \in Inbox' : (i \in Inbox /\ inbox'[i] = inbox[i]) \/ inbox'[i] = e
  BY InboxGrows DEF NewsArrives, Inbox
<1>3. Messages'
  BY InboxGrows DEF NewsArrives, IInv, Messages
<1>4. Idle' /\ (rules = {} => inbox' = inbox)
  BY DEF IInv, Idle, NewsArrives
<1>5. Epochs'
  <2>1. client'.owner <= epoch' /\ \A call \in atService' : call.owner <= epoch'
    <3>1. /\ epoch \in Nat /\ epoch' \in Nat /\ client.owner \in Nat
          /\ epoch <= epoch' /\ client.owner <= epoch
      BY AuthorityAssumption DEF IInv, Epochs, Authority, Local, Typed
    <3>2. \A call \in atService : call.owner \in Nat /\ call.owner <= epoch
      BY AuthorityAssumption DEF IInv, Epochs, Messages
    <3> QED
      BY <3>1, <3>2
  <2>2. \A i \in Inbox : inbox[i].owner \in Nat /\ inbox[i].owner <= epoch
    BY InboxMessage DEF Message, IInv, Epochs
  <2>3. \A i \in Inbox : inbox[i].owner <= epoch'
    BY <2>2 DEF IInv, Authority
  <2> QED
    BY <1>2, <2>1, <2>3 DEF IInv, Epochs, Early
<1>6. RulesFirst'
  BY <1>4 DEF IInv, RulesFirst, Out
<1>7. RulesAnsweredFirst'
  <2>1. RuleDue' => RuleDue
    BY DEF RuleDue, Out
  <2>2. RuleDue => \A i \in Inbox' : inbox'[i].kind \in Early
    BY <1>2 DEF IInv, RulesAnsweredFirst, Early
  <2>3. ASSUME NEW i \in Inbox', inbox'[i].kind \in {"installed", "refused"}
        PROVE  /\ client.snapshot = NoSnapshot
               /\ \A j \in 1..i : inbox'[j].kind \in Early
    <3>1. i \in Inbox /\ inbox'[i] = inbox[i]
      BY <1>2, <2>3
    <3>2. \A j \in 1..i : j \in Inbox
      BY <3>1, InboxGrows DEF Inbox, NewsArrives, IInv, Messages
    <3> QED
      BY <1>1, <2>3, <3>1, <3>2 DEF IInv, RulesAnsweredFirst
  <2> QED
    BY <2>1, <2>2, <2>3 DEF IInv, RulesAnsweredFirst
<1>8. Reported'
  <2>1. \A i \in Inbox' : inbox'[i].kind = "refused" => i \in Inbox /\ inbox[i].kind = "refused"
    BY <1>2
  <2>2. RuleDue' = RuleDue /\ Out' = Out
    BY DEF RuleDue, Out
  <2> QED
    BY <1>1, <2>1, <2>2 DEF IInv, Reported
<1> QED
  BY <1>3, <1>4, <1>5, <1>6, <1>7, <1>8 DEF IInv

(* The service acquires, loses or announces, and the signal is sent.       *)
LEMMA ServiceStepsKeepIInv ==
    ASSUME IInv, ServiceSteps
    PROVE  IInv'
<1> USE AuthorityAssumption
<1>1. UNCHANGED <<client, rules, atService, starts, faults>>
  BY DEF ServiceSteps
<1>2. CASE Acquire /\ Deliver("ownerRule", From("ownerChanged", NoCall, epoch', 0))
  <2> DEFINE e == From("ownerChanged", NoCall, epoch', 0)
  <2>1. NewsArrives("ownerRule", e)
    BY <1>2 DEF Deliver, NewsArrives
  <2>2. /\ epoch' = epoch + 1 /\ epoch' \in 0..MaxEpoch /\ Authority' /\ (owned \in BOOLEAN)'
        /\ ~owned /\ owned'
    BY <1>2 DEF Acquire, IInv, Authority
  <2>3. e \in Incoming /\ e.kind = "ownerChanged" /\ e.cookie = NoCall /\ e.owner = epoch'
    BY <2>2 DEF From, Incoming, NoCall
  <2> HIDE DEF e
  <2>4. /\ Local(client') /\ Messages' /\ Epochs' /\ Idle'
        /\ RulesFirst' /\ RulesAnsweredFirst' /\ Reported'
    <3>1. epoch <= epoch' /\ e.owner <= epoch'
      BY <2>2, <2>3 DEF IInv, Authority
    <3> QED
      BY <1>1, <2>1, <2>2, <2>3, <3>1, NewsKeepsRules
  <2>5. OwnerKnown'
    <3>1. "ownerRule" \in rules => inbox' = Append(inbox, e) /\ \A i \in 0..Len(inbox) : OwnerNews(i)'
      BY <2>1, <2>3, NewsStays DEF NewsArrives
    <3>2. Owner' = e.owner
      BY <2>2, <2>3 DEF Owner
    <3>3. "ownerRule" \in rules => OwnerNews(0)' /\ \A i \in Inbox : OwnerNews(i)'
      BY <2>3, <3>1, InboxGrows DEF Inbox
    <3> QED
      BY <1>1, <2>3, <3>1, <3>2, <3>3, InboxGrows DEF OwnerKnown
  <2>6. GenerationKnown'
    <3>1. client'.owner # epoch'
      BY <1>1, <2>2 DEF IInv, Epochs, Authority, Local, Typed
    <3>2. \A i \in Inbox' : inbox'[i].kind = "snapshot" => inbox'[i].owner # epoch'
      <4>1. \A i \in Inbox : inbox[i].owner # epoch'
        BY <2>2, InboxMessage DEF IInv, Epochs, Authority, Incoming, Message
      <4> QED
        BY <2>1, <2>3, <4>1, InboxGrows DEF NewsArrives, Inbox
    <3> QED
      BY <3>1, <3>2 DEF GenerationKnown
  <2> QED
    BY <2>2, <2>4, <2>5, <2>6 DEF IInv
<1>3. CASE Publish /\ UNCHANGED inbox
  <2>1. /\ UNCHANGED <<epoch, owned, announced>> /\ Authority'
    BY <1>3 DEF Publish, IInv, Authority
  <2>2. (owned \in BOOLEAN)' /\ Local(client') /\ Messages' /\ Epochs' /\ Idle'
    BY <1>1, <1>3, <2>1 DEF IInv, Messages, Epochs, Idle, Inbox
  <2>3. RulesFirst' /\ RulesAnsweredFirst' /\ Reported'
    BY <1>1, <1>3 DEF IInv, RulesFirst, RulesAnsweredFirst, Reported, RuleDue, Inbox, Out
  <2>4. OwnerKnown' /\ GenerationKnown'
    BY <1>1, <1>3, <2>1
       DEF IInv, OwnerKnown, OwnerNews, Owner, GenerationKnown, GenerationNews, Inbox
  <2> QED
    BY <2>1, <2>2, <2>3, <2>4 DEF IInv
<1>4. CASE Announce /\ Deliver("generationRule", From("generation", NoCall, epoch, generation))
  <2> DEFINE e == From("generation", NoCall, epoch, generation)
  <2>1. NewsArrives("generationRule", e)
    BY <1>4 DEF Deliver, NewsArrives
  <2>2. /\ UNCHANGED <<epoch, owned, generation>> /\ Authority' /\ owned /\ (owned \in BOOLEAN)'
    BY <1>4 DEF Announce, IInv, Authority
  <2>3. e \in Incoming /\ e.kind = "generation" /\ e.cookie = NoCall /\ e.owner = epoch /\ epoch > 0
    BY <2>2 DEF From, Incoming, NoCall, IInv, Authority
  <2> HIDE DEF e
  <2>4. /\ Local(client') /\ Messages' /\ Epochs' /\ Idle'
        /\ RulesFirst' /\ RulesAnsweredFirst' /\ Reported'
    <3>1. epoch' \in 0..MaxEpoch /\ epoch <= epoch' /\ e.owner <= epoch' /\ e.owner > 0
      BY <2>2, <2>3 DEF IInv, Authority
    <3> QED
      BY <1>1, <2>1, <2>2, <2>3, <3>1, NewsKeepsRules
  <2>5. OwnerKnown'
    <3>1. \A i \in Nat : OwnerNews(i) => OwnerNews(i)'
      BY <2>1, <2>3, NewsStays DEF NewsArrives, OwnerNews, Inbox
    <3>2. Owner' = Owner
      BY <2>2 DEF Owner
    <3>3. \A i \in Inbox' : (i \in Inbox /\ inbox'[i] = inbox[i]) \/ inbox'[i] = e
      BY <2>1, <2>3, InboxGrows DEF NewsArrives, Inbox
    <3>4. \A i \in Inbox : i \in Nat
      BY DEF Inbox
    <3> QED
      BY <1>1, <2>3, <3>1, <3>2, <3>3, <3>4 DEF IInv, OwnerKnown
  <2>6. GenerationKnown'
    <3>1. "generationRule" \in rules => inbox' = Append(inbox, e) /\ \A i \in 0..Len(inbox) : GenerationNews(i)'
      BY <2>1, <2>2, <2>3, NewsStays DEF NewsArrives
    <3>2. "generationRule" \in rules => GenerationNews(0)' /\ \A i \in Inbox : GenerationNews(i)'
      BY <2>3, <3>1, InboxGrows DEF Inbox
    <3> QED
      BY <1>1, <2>3, <3>1, <3>2, InboxGrows DEF GenerationKnown, Rule
  <2> QED
    BY <2>2, <2>4, <2>5, <2>6 DEF IInv
<1>5. CASE Lose /\ Deliver("ownerRule", From("ownerChanged", NoCall, NoOwner, 0))
  <2> DEFINE e == From("ownerChanged", NoCall, NoOwner, 0)
  <2>1. NewsArrives("ownerRule", e)
    BY <1>5 DEF Deliver, NewsArrives
  <2>2. epoch' = epoch /\ Authority' /\ (owned \in BOOLEAN)' /\ ~owned'
    <3>1. owned' = FALSE /\ epoch' = epoch /\ generation' = 0 /\ announced' = 0
      BY <1>5 DEF Lose
    <3>2. ~owned' /\ (owned \in BOOLEAN)'
      BY <3>1, Zenon
    <3> QED
      BY <3>1, <3>2 DEF IInv, Authority
  <2>3. e \in Incoming /\ e.kind = "ownerChanged" /\ e.cookie = NoCall /\ e.owner = NoOwner
    BY DEF From, Incoming, NoCall, NoOwner
  <2> HIDE DEF e
  <2>4. /\ Local(client') /\ Messages' /\ Epochs' /\ Idle'
        /\ RulesFirst' /\ RulesAnsweredFirst' /\ Reported'
    <3>1. epoch' \in 0..MaxEpoch /\ epoch <= epoch' /\ e.owner <= epoch'
      BY <2>2, <2>3 DEF IInv, Authority, NoOwner
    <3> QED
      BY <1>1, <2>1, <2>2, <2>3, <3>1, NewsKeepsRules
  <2>5. OwnerKnown'
    <3>1. "ownerRule" \in rules => inbox' = Append(inbox, e) /\ \A i \in 0..Len(inbox) : OwnerNews(i)'
      BY <2>1, <2>3, NewsStays DEF NewsArrives
    <3>2. Owner' = e.owner
      BY <2>2, <2>3 DEF Owner
    <3>3. "ownerRule" \in rules => OwnerNews(0)' /\ \A i \in Inbox : OwnerNews(i)'
      BY <2>3, <3>1, InboxGrows DEF Inbox
    <3> QED
      BY <1>1, <2>3, <3>1, <3>2, <3>3, InboxGrows DEF OwnerKnown
  <2>6. GenerationKnown'
    BY <2>2 DEF GenerationKnown
  <2> QED
    BY <2>2, <2>4, <2>5, <2>6 DEF IInv
<1> QED
  BY <1>2, <1>3, <1>4, <1>5 DEF ServiceSteps

-----------------------------------------------------------------------------
(* The daemon reads the client's next message.                             *)
Reads ==
    /\ client.bus /\ client.out # <<>>
    /\ client' = [client EXCEPT !.out = Tail(@)]
    /\ UNCHANGED <<epoch, owned, generation, announced, starts>>

(* The queue moves up by one, and nothing else of the client changes.      *)
LEMMA ReadsTheFirst ==
    ASSUME IInv, Reads
    PROVE  /\ Local(client') /\ client'.bus /\ (client'.told <=> client.told)
           /\ client'.owner = client.owner /\ client'.snapshot = client.snapshot
           /\ client'.state = client.state
           /\ client'.out \in Seq(Outgoing) /\ client.out[1] \in Outgoing
           /\ 1 \in Out /\ Head(client.out) = client.out[1]
           /\ \A i \in Out' : i + 1 \in Out /\ client'.out[i] = client.out[i + 1]
           /\ \A i \in Out : i = 1 \/ (i - 1 \in Out' /\ client'.out[i - 1] = client.out[i])
<1> DEFINE q == Tail(client.out)
<1>1. /\ q \in Seq(Outgoing)
      /\ Len(client.out) \in Nat \ {0} /\ Len(q) = Len(client.out) - 1
      /\ \A i \in 1..Len(q) : q[i] = client.out[i + 1]
      /\ Head(client.out) = client.out[1] /\ client.out[1] \in Outgoing
  BY TailFacts DEF Reads, IInv, Messages
<1> HIDE DEF q
<1>2. client'.out = q
  BY DEF Reads, q
<1>3. /\ client'.owner = client.owner /\ client'.snapshot = client.snapshot
      /\ client'.state = client.state
  BY DEF Reads
<1>4. client'.bus
  BY DEF Reads
<1>5. Local(client')
  BY <1>3, <1>4 DEF Reads, IInv, Local, Typed, Shows, Waits
<1>6. client'.told <=> client.told
  BY DEF Reads
<1>7. \A i \in Out : i = 1 \/ (i - 1 \in Out' /\ client'.out[i - 1] = client.out[i])
  BY <1>1, <1>2 DEF Out
<1> QED
  BY <1>1, <1>2, <1>3, <1>4, <1>5, <1>6, <1>7 DEF Out

(* Behind a call there is no rule any more.                                *)
LEMMA NoRuleBehindCalls ==
    ASSUME IInv, Reads, client.out[1].kind \notin Rule
    PROVE  ~RuleDue /\ ~RuleDue'
<1>1. ~RuleDue
  BY DEF IInv, RulesFirst, RuleDue, Rule, Out
<1> QED
  BY <1>1, ReadsTheFirst DEF RuleDue

(* An answer to a call that is due while no rule is.                       *)
LEMMA AnswerKeepsIInv ==
    ASSUME IInv, Reads, client.out[1].kind \notin Rule, NEW e \in Incoming,
           e.kind \in {"ownerIs", "error"}, e.owner \in {NoOwner, Owner}, e.owner <= epoch,
           e.kind = "ownerIs" => e.owner = Owner,
           inbox' = Append(inbox, e), UNCHANGED <<rules, atService, faults>>
    PROVE  IInv'
<1>1. UNCHANGED <<epoch, owned, generation, announced, starts>>
  BY DEF Reads
<1>2. Authority' /\ Messages' /\ Idle' /\ (owned \in BOOLEAN)' /\ Local(client')
  BY <1>1, InboxGrows, ReadsTheFirst DEF IInv, Authority, Messages, Idle
<1>3. Epochs'
  <2>1. \A i \in Inbox' : (i \in Inbox /\ inbox'[i] = inbox[i]) \/ inbox'[i] = e
    BY InboxGrows
  <2> QED
    BY <1>1, <2>1, ReadsTheFirst, ZenonT(60) DEF IInv, Epochs, Early
<1>4. RulesFirst' /\ RulesAnsweredFirst'
  <2>1. ~RuleDue'
    BY NoRuleBehindCalls
  <2>2. RulesFirst'
    BY <2>1 DEF RulesFirst, RuleDue, Rule, Out
  <2>3. \A i \in Inbox' : inbox'[i].kind \in {"installed", "refused"} =>
           /\ client.snapshot = NoSnapshot /\ i \in Inbox
           /\ \A j \in 1..i : j \in Inbox /\ inbox'[j].kind \in Early
    BY InboxGrows DEF IInv, RulesAnsweredFirst, Inbox
  <2> QED
    BY <2>1, <2>2, <2>3, ReadsTheFirst DEF RulesAnsweredFirst
<1>5. OwnerKnown'
  <2>1. \A i \in Nat : OwnerNews(i) => OwnerNews(i)'
    BY NewsStays
  <2>2. Owner' = Owner
    BY <1>1 DEF Owner
  <2>3. \A i \in Inbox' : (i \in Inbox /\ inbox'[i] = inbox[i]) \/ inbox'[i] = e
    BY InboxGrows
  <2>4. \A i \in Inbox : i \in Nat
    BY DEF Inbox
  <2> QED
    BY <2>1, <2>2, <2>3, <2>4, ReadsTheFirst DEF IInv, OwnerKnown
<1>6. GenerationKnown'
  <2>1. \A i \in Nat : GenerationNews(i) => GenerationNews(i)'
    BY <1>1, NewsStays
  <2>2. \A i \in Inbox' : (i \in Inbox /\ inbox'[i] = inbox[i]) \/ inbox'[i] = e
    BY InboxGrows
  <2>3. \A i \in Inbox : i \in Nat
    BY DEF Inbox
  <2> QED
    BY <1>1, <2>1, <2>2, <2>3, ReadsTheFirst DEF IInv, GenerationKnown
<1>7. Reported'
  <2>1. \A i \in Inbox' : inbox'[i].kind = "refused" => i \in Inbox /\ inbox[i].kind = "refused"
    BY InboxGrows
  <2>2. \A i \in Inbox : i \in Inbox' /\ inbox'[i] = inbox[i]
    BY InboxGrows
  <2>3. ~RuleDue' /\ ~RuleDue
    BY NoRuleBehindCalls
  <2>4. \A i \in Out, r \in Rule : client.out[i].kind # r
    BY <2>3 DEF RuleDue
  <2>5. client.told => client'.told
    BY ReadsTheFirst
  <2>6. \A i \in Inbox' : inbox'[i].kind = "refused" =>
           /\ faults > 0 /\ (faults = 1 => client'.state # "failed")
           /\ \A j \in Inbox' : inbox'[j].kind = "refused" => j = i \/ faults > 1
    BY <2>1, ReadsTheFirst DEF IInv, Reported
  <2>7. faults <= 1 =>
           \A r \in Rule : \/ r \in rules \/ client'.told
                           \/ \E i \in Inbox' : inbox'[i].kind = "refused"
    <3>1. client.bus
      BY DEF Reads
    <3>2. faults <= 1 =>
             \A r \in Rule : \/ r \in rules \/ client.told
                             \/ \E i \in Inbox : inbox[i].kind = "refused"
      BY <2>4, <3>1 DEF IInv, Reported
    <3> QED
      BY <2>2, <2>5, <3>2
  <2> QED
    BY <2>3, <2>6, <2>7 DEF Reported
<1> QED
  BY <1>2, <1>3, <1>4, <1>5, <1>6, <1>7 DEF IInv

(* What Epochs asks of a message, when the name has had n owners.          *)
InTime(m, n) ==
    /\ m.owner <= n
    /\ m.kind \in {"snapshot", "generation"} => m.owner > 0
    /\ m.kind \in Early => m.cookie = NoCall

(* The bus daemon installs a match rule, or refuses it.                    *)
LEMMA DaemonInstallsKeepsIInv ==
    ASSUME IInv, Reads, client.out[1].kind \in Rule, NEW accepted \in BOOLEAN,
           DaemonInstalls(client.out[1].kind, accepted)
    PROVE  IInv'
<1> USE AuthorityAssumption, ClientAssumption
<1> DEFINE rule == client.out[1].kind
           e == From(IF accepted THEN "installed" ELSE "refused", NoCall, NoOwner, 0)
<1>1. /\ e \in Incoming /\ e.owner = NoOwner /\ e.cookie = NoCall
      /\ e.kind = IF accepted THEN "installed" ELSE "refused"
  BY DEF From, Incoming, NoOwner, NoCall
<1>2. /\ inbox' = Append(inbox, e) /\ atService' = atService
      /\ rules' = IF accepted THEN rules \cup {rule} ELSE rules
      /\ faults' = IF accepted THEN faults ELSE faults + 1
      /\ faults \in Nat /\ faults' \in 0..MaxFaults
      /\ UNCHANGED <<epoch, owned, generation, announced, starts>>
  BY DEF DaemonInstalls, Fault, Reads, IInv, Messages
<1> HIDE DEF e
<1>3. /\ RuleDue /\ client.snapshot = NoSnapshot /\ rule \notin rules /\ atService = {}
      /\ \A i \in Inbox : inbox[i].kind \in Early
      /\ rule = "ownerRule" => inbox = <<>> /\ rules = {} /\ client.owner = NoOwner
  <2>1. RuleDue
    BY ReadsTheFirst DEF RuleDue
  <2> QED
    BY <2>1, ReadsTheFirst DEF IInv, RulesFirst, RulesAnsweredFirst, Rule
<1>4. Authority' /\ Messages' /\ Idle' /\ (owned \in BOOLEAN)' /\ Local(client')
  BY <1>1, <1>2, InboxGrows, ReadsTheFirst DEF IInv, Authority, Messages, Idle, Rule
<1>5. Epochs'
  <2>1. \A i \in Inbox' : (i \in Inbox /\ inbox'[i] = inbox[i]) \/ inbox'[i] = e
    BY <1>1, <1>2, InboxGrows
  <2>2. e.owner <= epoch /\ e.kind \notin {"snapshot", "generation"}
    BY <1>1 DEF NoOwner, IInv, Authority
  <2>3. e.kind \in Early => e.cookie = NoCall
    BY <1>1
  <2>4. client'.owner <= epoch' /\ \A call \in atService' : call.owner <= epoch'
    BY <1>2, ReadsTheFirst, Zenon DEF IInv, Epochs
  <2>5. epoch' = epoch /\ \A i \in Inbox : InTime(inbox[i], epoch)
    BY <1>2, Zenon DEF IInv, Epochs, InTime
  <2>6. InTime(e, epoch)
    BY <2>2, <2>3, Zenon DEF InTime
  <2>7. \A i \in Inbox' : InTime(inbox'[i], epoch')
    BY <2>1, <2>5, <2>6, Zenon
  <2> QED
    BY <2>4, <2>7, Zenon DEF Epochs, InTime
<1>6. RulesFirst'
  <2>1. SUFFICES ASSUME NEW i \in Out', client'.out[i].kind \in Rule
                 PROVE  /\ i = 1 /\ client'.out[i].kind = "generationRule"
                        /\ rule = "ownerRule"
    BY <1>2, <1>3 DEF RulesFirst, Rule
  <2>2. i + 1 \in Out /\ client.out[i + 1] = client'.out[i] /\ i >= 1
    BY <2>1, ReadsTheFirst DEF Out
  <2> QED
    BY <2>1, <2>2 DEF IInv, RulesFirst, Rule, Out
<1>7. RulesAnsweredFirst'
  <2>1. \A i \in Inbox' : (i \in Inbox /\ inbox'[i] = inbox[i]) \/ inbox'[i] = e
    BY <1>1, <1>2, InboxGrows
  <2>2. \A i \in Inbox' : inbox'[i].kind \in Early
    BY <1>1, <1>3, <2>1 DEF Early
  <2>3. \A i \in Inbox' : \A j \in 1..i : j \in Inbox'
    BY <1>1, <1>2, InboxGrows DEF Inbox
  <2> QED
    BY <1>3, <2>2, <2>3, ReadsTheFirst DEF RulesAnsweredFirst
<1>8. OwnerKnown'
  <2>1. \A i \in Nat : OwnerNews(i) => OwnerNews(i)'
    BY <1>1, <1>2, NewsStays
  <2>2. Owner' = Owner
    BY <1>2 DEF Owner
  <2>3. \A i \in Inbox' : (i \in Inbox /\ inbox'[i] = inbox[i]) \/ inbox'[i] = e
    BY <1>1, <1>2, InboxGrows
  <2>4. \A i \in Inbox : i \in Nat
    BY DEF Inbox
  <2>5. rule = "ownerRule" => Inbox = {}
    BY <1>3 DEF Inbox
  <2> QED
    BY <1>1, <1>2, <1>3, <2>1, <2>2, <2>3, <2>4, <2>5, ReadsTheFirst DEF IInv, OwnerKnown, Rule
<1>9. GenerationKnown'
  <2>1. client'.state # "ready"
    BY <1>3, ReadsTheFirst DEF IInv, Local, Shows
  <2>2. \A i \in Inbox' : inbox'[i].kind # "snapshot"
    BY <1>1, <1>2, <1>3, InboxGrows DEF Early
  <2> QED
    BY <2>1, <2>2 DEF GenerationKnown
<1>10. Reported'
  <2>1. \A i \in Inbox' : (i \in Inbox /\ inbox'[i] = inbox[i]) \/ (i = Len(inbox) + 1 /\ inbox'[i] = e)
    BY <1>1, <1>2, InboxGrows
  <2>2. faults' = 0 /\ RuleDue' => client'.state # "failed"
    BY <1>2, <1>3, ReadsTheFirst DEF IInv, Reported
  <2>3. ASSUME NEW i \in Inbox', inbox'[i].kind = "refused"
        PROVE  /\ faults' > 0 /\ (faults' = 1 => client'.state # "failed")
               /\ \A j \in Inbox' : inbox'[j].kind = "refused" => j = i \/ faults' > 1
    <3>1. CASE accepted
      <4>1. \A j \in Inbox' : inbox'[j].kind = "refused" => j \in Inbox /\ inbox[j].kind = "refused"
        BY <1>1, <2>1, <3>1
      <4> QED
        BY <1>2, <2>3, <3>1, <4>1, ReadsTheFirst DEF IInv, Reported
    <3>2. CASE ~accepted
      <4>1. faults' = faults + 1
        BY <1>2, <3>2
      <4>2. faults' = 1 => client'.state # "failed"
        BY <1>2, <1>3, <4>1, ReadsTheFirst DEF IInv, Reported
      <4>3. ASSUME NEW j \in Inbox', inbox'[j].kind = "refused", j # i
            PROVE  faults' > 1
        <5>1. PICK k \in {i, j} : k \in Inbox /\ inbox[k].kind = "refused"
          BY <2>1, <2>3, <4>3
        <5> QED
          BY <1>2, <4>1, <5>1 DEF IInv, Reported
      <4>4. faults' > 0
        BY <1>2, <4>1
      <4> QED
        BY <4>2, <4>3, <4>4
    <3> QED
      BY <3>1, <3>2
  <2>4. ASSUME faults' <= 1, NEW r \in Rule
        PROVE  \/ r \in rules' \/ client'.told
               \/ \E i \in Inbox' : inbox'[i].kind = "refused"
               \/ \E i \in Out' : client'.out[i].kind = r
    <3>1. \/ r \in rules \/ client.told
          \/ \E i \in Inbox : inbox[i].kind = "refused"
          \/ \E i \in Out : client.out[i].kind = r
      BY <1>2, <2>4 DEF IInv, Reported, Reads
    <3>2. \A i \in Inbox : i \in Inbox' /\ inbox'[i] = inbox[i]
      BY <1>1, <1>2, InboxGrows
    <3>3. rule \in rules' \/ \E i \in Inbox' : inbox'[i].kind = "refused"
      BY <1>1, <1>2, InboxGrows
    <3>4. \A i \in Out : i = 1 \/ (i - 1 \in Out' /\ client'.out[i - 1] = client.out[i])
      BY ReadsTheFirst
    <3>5. r \in rules => r \in rules'
      BY <1>2
    <3>6. client.told => client'.told
      BY ReadsTheFirst
    <3> QED
      BY <3>1, <3>2, <3>3, <3>4, <3>5, <3>6
  <2> QED
    BY <2>2, <2>3, <2>4 DEF Reported
<1> QED
  BY <1>4, <1>5, <1>6, <1>7, <1>8, <1>9, <1>10 DEF IInv

(* The bus daemon reads a call.                                            *)
LEMMA DaemonReadsKeepsIInv ==
    ASSUME IInv, DaemonReads
    PROVE  IInv'
<1> USE AuthorityAssumption
<1> DEFINE m == client.out[1]
<1>1. Reads
  BY DEF DaemonReads, Reads, authorityVars
<1>2. m \in Outgoing /\ m = Head(client.out)
  BY <1>1, ReadsTheFirst
<1> HIDE DEF m
<1>3. CASE \E accepted \in BOOLEAN : m.kind \in Rule /\ DaemonInstalls(m.kind, accepted)
  BY <1>1, <1>3, DaemonInstallsKeepsIInv DEF m
<1>4. CASE m.kind = "query" /\ DaemonAnswers(m.cookie)
  <2> DEFINE e == From("ownerIs", m.cookie, Owner, 0)
  <2>1. Owner \in 0..MaxEpoch /\ Owner <= epoch
    BY DEF Owner, NoOwner, IInv, Authority
  <2>2. e \in Incoming /\ e.kind = "ownerIs" /\ e.owner = Owner
    BY <1>2, <2>1 DEF From, Incoming, Outgoing
  <2>3. inbox' = Append(inbox, e) /\ UNCHANGED <<rules, atService, faults>>
    BY <1>4 DEF DaemonAnswers
  <2>4. client.out[1].kind \notin Rule
    BY <1>4 DEF Rule, m
  <2> HIDE DEF e
  <2> QED
    BY <1>1, <2>1, <2>2, <2>3, <2>4, AnswerKeepsIInv
<1>5. CASE m.kind = "fetch" /\ DaemonRoutes(m.cookie) /\ ~owned
  <2> DEFINE e == From("error", m.cookie, NoOwner, 0)
  <2>1. e \in Incoming /\ e.kind = "error" /\ e.owner = NoOwner /\ e.owner <= epoch
    BY <1>2 DEF From, Incoming, Outgoing, NoOwner, IInv, Authority
  <2>2. inbox' = Append(inbox, e) /\ UNCHANGED <<rules, atService, faults>>
    BY <1>5 DEF DaemonRoutes
  <2>3. client.out[1].kind \notin Rule
    BY <1>5 DEF Rule, m
  <2> HIDE DEF e
  <2> QED
    BY <1>1, <2>1, <2>2, <2>3, AnswerKeepsIInv
<1>6. CASE m.kind = "fetch" /\ DaemonRoutes(m.cookie) /\ owned
  <2>1. /\ atService' = atService \cup {[cookie |-> m.cookie, owner |-> epoch]}
        /\ UNCHANGED <<epoch, owned, generation, announced, inbox, rules, starts, faults>>
    BY <1>1, <1>6 DEF DaemonRoutes, Reads
  <2>2. client.out[1].kind \notin Rule
    BY <1>6 DEF Rule, m
  <2>3. ~RuleDue /\ ~RuleDue' /\ \A i \in Out, r \in Rule : client.out[i].kind # r
    BY <1>1, <2>2, NoRuleBehindCalls DEF RuleDue
  <2>4. epoch \in 1..MaxEpoch /\ m.cookie \in Nat
    BY <1>2, <1>6 DEF Outgoing, IInv, Authority
  <2>5. Authority' /\ Messages' /\ Idle' /\ (owned \in BOOLEAN)' /\ Local(client')
    BY <1>1, <2>1, <2>4, ReadsTheFirst DEF IInv, Authority, Messages, Idle
  <2>6. Epochs'
    BY <1>1, <2>1, <2>4, ReadsTheFirst DEF IInv, Epochs, Inbox
  <2>7. RulesFirst' /\ RulesAnsweredFirst'
    BY <1>1, <2>1, <2>3, ReadsTheFirst
       DEF IInv, RulesFirst, RulesAnsweredFirst, RuleDue, Rule, Inbox
  <2>8. OwnerKnown' /\ GenerationKnown'
    BY <1>1, <2>1, ReadsTheFirst
       DEF IInv, OwnerKnown, OwnerNews, Owner, GenerationKnown, GenerationNews, Inbox
  <2>9. Reported'
    BY <1>1, <2>1, <2>3, ReadsTheFirst DEF IInv, Reported, Reads, Inbox
  <2> QED
    BY <2>5, <2>6, <2>7, <2>8, <2>9 DEF IInv
<1> QED
  <2>1. \/ \E accepted \in BOOLEAN : m.kind \in Rule /\ DaemonInstalls(m.kind, accepted)
        \/ m.kind = "query" /\ DaemonAnswers(m.cookie)
        \/ m.kind = "fetch" /\ DaemonRoutes(m.cookie)
    BY <1>2 DEF DaemonReads, Rule
  <2> QED
    BY <1>3, <1>4, <1>5, <1>6, <2>1

-----------------------------------------------------------------------------
(* Nothing has started.                                                    *)
LEMMA InitEstablishesIInv ==
    ASSUME Init
    PROVE  IInv
<1> USE AuthorityAssumption, ClientAssumption DEF Init, AuthorityInit
<1>1. /\ Local(client) /\ ~client.bus /\ client.out = <<>>
      /\ client.owner = NoOwner /\ client.fetch = NoCall /\ client.query = NoCall
      /\ client.snapshot = NoSnapshot
  BY DEF Stopped, Local, Typed, Shows, Waits, NoOwner, NoCall, NoSnapshot
<1>2. owned \in BOOLEAN /\ ~owned
  BY Zenon
<1>3. Authority /\ Messages /\ Idle
  BY <1>1, <1>2 DEF Authority, Messages, Idle
<1>4. Epochs
  BY <1>1 DEF Epochs, Inbox, NoOwner
<1>5. RulesFirst /\ RulesAnsweredFirst /\ Reported
  BY <1>1 DEF RulesFirst, RulesAnsweredFirst, Reported, RuleDue, Inbox, Out
<1>6. OwnerKnown /\ GenerationKnown
  BY DEF OwnerKnown, GenerationKnown, Rule
<1> QED
  BY <1>1, <1>2, <1>3, <1>4, <1>5, <1>6 DEF IInv

(* A step that changes none of the variables.                              *)
LEMMA StutterKeepsIInv ==
    ASSUME IInv, UNCHANGED vars
    PROVE  IInv'
<1> USE DEF vars, authorityVars, busVars
<1>1. Local(client') /\ (owned \in BOOLEAN)' /\ Authority' /\ Messages' /\ Epochs' /\ Idle'
  BY DEF IInv, Authority, Messages, Epochs, Idle, Inbox
<1>2. RulesFirst' /\ RulesAnsweredFirst' /\ Reported'
  BY DEF IInv, RulesFirst, RulesAnsweredFirst, Reported, RuleDue, Inbox, Out
<1>3. OwnerKnown' /\ GenerationKnown'
  BY DEF IInv, OwnerKnown, OwnerNews, Owner, GenerationKnown, GenerationNews, Inbox
<1> QED
  BY <1>1, <1>2, <1>3 DEF IInv

(* Every step keeps the invariant.                                         *)
LEMMA StepKeepsIInv ==
    ASSUME IInv, [Next]_vars
    PROVE  IInv'
<1>1. CASE \E sent \in BOOLEAN : Start(sent)
  BY <1>1, StartKeepsIInv
<1>2. CASE HandleBusFailure
  BY <1>2, HandleBusFailureKeepsIInv
<1>3. CASE Dispatches
  BY <1>3, DispatchKeepsIInv DEF Dispatches
<1>4. CASE \E cookie \in {client.query, client.fetch}, sent \in BOOLEAN :
               CallExpires(cookie, sent)
  BY <1>4, CallExpiresKeepsIInv
<1>5. CASE DaemonReads
  BY <1>5, DaemonReadsKeepsIInv
<1>6. CASE Replies
  BY <1>6, ServiceRepliesKeepsIInv DEF Replies
<1>7. CASE ServiceSteps
  BY <1>7, ServiceStepsKeepIInv
<1>8. CASE Stop
  BY <1>8, StopKeepsIInv
<1>9. CASE UNCHANGED vars
  BY <1>9, StutterKeepsIInv
<1> QED
  BY <1>1, <1>2, <1>3, <1>4, <1>5, <1>6, <1>7, <1>8, <1>9 DEF Next, Proceeds

(* The inductive invariant holds in every state.                           *)
THEOREM InductiveInvariant == Spec => []IInv
<1>1. Init => IInv
  BY InitEstablishesIInv
<1>2. IInv /\ [Next]_vars => IInv'
  BY StepKeepsIInv
<1> QED
  BY <1>1, <1>2, PTL DEF Spec

(* What the invariant says of the client alone.                            *)
LEMMA IInvImpliesClientInvariant ==
    ASSUME IInv
    PROVE  ClientInvariant
<1> USE DEF IInv
<1>1. TypeOK
  BY DEF Local, Typed, Authority, Messages, TypeOK, AuthorityTypeOK, Rule
<1>2. SnapshotOfOwner /\ WaitsForACall
  BY DEF Local, Shows, Waits, SnapshotOfOwner, WaitsForACall
<1>3. UpToDateWhenQuiet
  <2> SUFFICES ASSUME Quiet, client.state = "ready", ~Deaf
               PROVE  owned /\ client.owner = epoch /\ client.snapshot.generation >= announced
    BY DEF UpToDateWhenQuiet
  <2>1. rules = Rule /\ Inbox = {} /\ client.owner # NoOwner
    BY DEF Quiet, Deaf, Rule, Inbox, Local, Shows
  <2>2. client.owner = Owner
    BY <2>1 DEF OwnerKnown, OwnerNews, Rule
  <2>3. owned /\ client.owner = epoch
    BY <2>1, <2>2 DEF Owner
  <2> QED
    BY <2>1, <2>3 DEF GenerationKnown, GenerationNews
<1>4. DeafIsTold
  <2> SUFFICES ASSUME client.state = "ready", Deaf, faults <= 1
               PROVE  client.told
    BY DEF DeafIsTold
  <2>1. client.bus /\ client.snapshot # NoSnapshot
    BY DEF Local, Shows
  <2>2. PICK r \in Rule : r \notin rules
    BY DEF Deaf, Rule, Messages
  <2>3. ~RuleDue /\ \A i \in Inbox : inbox[i].kind # "refused"
    BY <2>1 DEF RulesAnsweredFirst
  <2> QED
    BY <2>1, <2>2, <2>3 DEF Reported, RuleDue
<1> QED
  BY <1>1, <1>2, <1>3, <1>4 DEF ClientInvariant

(* At every moment a snapshot is its owner's, a wait has a call that ends  *)
(* it, and a ready client with nothing under way has the last announced    *)
(* generation, whatever failed before and in whatever order the messages   *)
(* came (SettingsSnapshotClient.cpp).                                      *)
THEOREM ClientIsConsistent == Spec => []ClientInvariant
BY InductiveInvariant, IInvImpliesClientInvariant, PTL

-----------------------------------------------------------------------------
(* What one step makes of the snapshot.                                    *)
LEMMA SnapshotMoves ==
    ASSUME IInv, Proceeds
    PROVE  /\ \/ client'.snapshot = NoSnapshot
              \/ /\ client'.owner = client.owner
                 /\ client'.snapshot.generation >= client.snapshot.generation
           /\ client.query = NoCall => ~Regresses
<1>0. client.snapshot.generation \in Nat
  BY DEF IInv, Local, Typed
<1>1. CASE \E sent \in BOOLEAN : Start(sent)
  <2>1. client.snapshot = NoSnapshot
    BY <1>1 DEF IInv, Local, Shows, Start
  <2>2. client'.snapshot = NoSnapshot
    <3>1. \/ client' = [Send(Send([client EXCEPT !.cookie = 0, !.out = <<>>],
                                 "ownerRule"), "generationRule")
                       EXCEPT !.bus = TRUE, !.installs = 2, !.state = "connecting"]
          \/ client' = client \/ client' = [Stopped EXCEPT !.told = client.told]
      BY <1>1 DEF Start
    <3>2. CASE client' = client
      BY <2>1, <3>2
    <3>3. CASE client' = [Stopped EXCEPT !.told = client.told]
      BY <3>3 DEF Stopped
    <3>4. CASE client' = [Send(Send([client EXCEPT !.cookie = 0, !.out = <<>>],
                                    "ownerRule"), "generationRule")
                          EXCEPT !.bus = TRUE, !.installs = 2, !.state = "connecting"]
      BY <2>1, <3>4 DEF Send
    <3> QED
      BY <3>1, <3>2, <3>3, <3>4
  <2> QED
    BY <2>1, <2>2 DEF Regresses
<1>2. CASE HandleBusFailure
  <2>1. client'.snapshot = NoSnapshot /\ ~client'.bus
    BY <1>2 DEF HandleBusFailure, SetFailure, CancelFetch
  <2> QED
    BY <2>1 DEF Regresses
<1>3. ASSUME NEW m, NEW sound \in BOOLEAN, NEW sent \in BOOLEAN, Message(m), client.bus,
             client' = Handle(client, m, sound, sent),
             m.kind \in {"installed", "refused"} => client.snapshot = NoSnapshot
      PROVE  /\ \/ client'.snapshot = NoSnapshot
                \/ /\ client'.owner = client.owner
                   /\ client'.snapshot.generation >= client.snapshot.generation
             /\ client.query = NoCall => ~Regresses
  <2>1. Holds(client, m, client') /\ Local(client')
    BY <1>3, HandleKeeps DEF Effect, IInv
  <2>2. \/ client'.snapshot = NoSnapshot
        \/ /\ client'.owner = client.owner
           /\ client'.snapshot.generation >= client.snapshot.generation
    BY <1>0, <2>1 DEF Holds
  <2>3. client.query = NoCall => ~Regresses
    <3> SUFFICES ASSUME client.query = NoCall, client'.owner = client.owner,
                        client.snapshot # NoSnapshot
                 PROVE  ~(client'.snapshot.generation < client.snapshot.generation)
      BY DEF Regresses
    <3>1. m.kind \notin {"installed", "refused"}
      BY <1>3
    <3>2. client'.snapshot.generation >= client.snapshot.generation
      BY <2>1, <3>1 DEF Holds
    <3>3. client'.snapshot.generation \in Nat
      BY <2>1 DEF Local, Typed
    <3> QED
      BY <1>0, <3>2, <3>3
  <2> QED
    BY <2>2, <2>3
<1>4. CASE Dispatches
  <2>1. PICK sound \in BOOLEAN, sent \in BOOLEAN : DispatchBus(sound, sent)
    BY <1>4 DEF Dispatches
  <2>2. 1 \in Inbox /\ Head(inbox) = inbox[1]
    BY <2>1, TailFacts DEF DispatchBus, IInv, Messages, Inbox
  <2>3. /\ client.bus /\ client' = Handle(client, inbox[1], sound, sent)
        /\ Message(inbox[1])
        /\ inbox[1].kind \in {"installed", "refused"} => client.snapshot = NoSnapshot
    BY <2>1, <2>2, InboxMessage DEF DispatchBus, IInv, RulesAnsweredFirst
  <2> QED
    BY <1>3, <2>3
<1>5. CASE \E cookie \in {client.query, client.fetch}, sent \in BOOLEAN :
               CallExpires(cookie, sent)
  <2>1. PICK cookie \in {client.query, client.fetch}, sent \in BOOLEAN :
            CallExpires(cookie, sent)
    BY <1>5
  <2> DEFINE m == From("error", cookie, NoOwner, 0)
  <2>2. m.kind = "error" /\ Message(m)
    BY AuthorityAssumption DEF From, Message, Early, NoOwner, IInv, Local, Typed
  <2>3. client.bus /\ client' = Handle(client, m, TRUE, sent)
    BY <2>1 DEF CallExpires
  <2> HIDE DEF m
  <2> QED
    BY <1>3, <2>2, <2>3
<1>6. CASE DaemonReads
  <2>1. client'.snapshot = client.snapshot /\ client'.owner = client.owner
    BY <1>6 DEF DaemonReads
  <2> QED
    BY <1>0, <2>1 DEF Regresses
<1>7. CASE client' = client
  BY <1>0, <1>7 DEF Regresses
<1> QED
  BY <1>1, <1>2, <1>4, <1>5, <1>6, <1>7 DEF Proceeds, Replies, ServiceReplies, ServiceSteps

(* Within an epoch no step replaces the last complete generation by an     *)
(* older one or by none, unless a query about the owner is outstanding.    *)
THEOREM LastGenerationIsRetained == Spec => RetainsOnceOwnerKnown
<1>1. IInv /\ [Next]_vars => [client.query = NoCall => ~Regresses]_vars
  <2> SUFFICES ASSUME IInv, Next
               PROVE  client.query = NoCall => ~Regresses
    BY DEF IInv
  <2>1. CASE Proceeds
    BY <2>1, SnapshotMoves
  <2>2. CASE Stop
    <3>1. ~client'.bus
      BY <2>2 DEF Stop, Stopped
    <3> QED
      BY <3>1 DEF Regresses
  <2> QED
    BY <2>1, <2>2 DEF Next
<1> QED
  BY <1>1, InductiveInvariant, PTL DEF Spec, RetainsOnceOwnerKnown

-----------------------------------------------------------------------------
(* The shell.                                                              *)

(* Its steps are the client's, so its client keeps the same promises.      *)
LEMMA ShellRunsTheClient == ShellSpec => Spec
<1>1. ShellInit => Init
  BY DEF ShellInit
<1>2. [ShellNext]_shellVars => [Next]_vars
  BY DEF ShellNext, ShellProceeds, DestroyRuntime, Next, shellVars
<1> QED
  BY <1>1, <1>2, PTL DEF ShellSpec, Spec

ShellIInv ==
    /\ IInv
    /\ available \in BOOLEAN /\ quitting \in BOOLEAN /\ refusals \in Nat
    /\ SurfacesOfOwner /\ PresentsOrLeaves

(* A shell that has decided to quit does not change its mind.              *)
LEMMA LeavesForGood ==
    ASSUME NEW failed \in BOOLEAN, Leaves(failed)
    PROVE  (quitting' \in BOOLEAN) /\ (quitting => quitting') /\ (failed => quitting')
BY Zenon DEF Leaves

(* One reaction of the shell to a changed snapshot.                        *)
LEMMA ReactionKeepsSurfaces ==
    ASSUME ShellIInv, IInv', Proceeds, client'.snapshot # client.snapshot,
           NEW ok \in BOOLEAN, HandleSettingsSnapshotChanged(ok),
           refusals' = IF ok THEN refusals ELSE refusals + 1
    PROVE  ShellIInv'
<1>1. /\ client'.snapshot = NoSnapshot \/
             /\ client'.owner = client.owner
             /\ client'.snapshot.generation >= client.snapshot.generation
      /\ client.snapshot.generation \in Nat /\ client'.snapshot.generation \in Nat
  BY SnapshotMoves DEF ShellIInv, IInv, Local, Typed
<1>2. client'.snapshot # NoSnapshot =>
          /\ client'.snapshot.epoch = client'.owner /\ client'.owner # NoOwner
          /\ client'.snapshot.generation \in 1..client'.snapshot.generation
  BY DEF IInv, Local, Shows, Typed
<1>3. refusals' \in Nat /\ (refusals' = 0 => refusals = 0 /\ ok)
  BY DEF ShellIInv
<1>4. CASE LoseSettingsOwner(ok)
  <2>1. available' = FALSE /\ client'.snapshot = NoSnapshot /\ Leaves(FALSE)
    BY <1>4 DEF LoseSettingsOwner
  <2>2. available' \in BOOLEAN /\ ~available' /\ quitting' \in BOOLEAN
    BY <2>1, LeavesForGood, Zenon
  <2> QED
    BY <1>3, <2>1, <2>2 DEF ShellIInv, SurfacesOfOwner, PresentsOrLeaves
<1>5. CASE CreatePresentationEpoch(ok)
  <2>1. /\ available' = ok /\ client'.snapshot # NoSnapshot /\ Leaves(~ok)
        /\ shown' = IF ok THEN client'.snapshot ELSE NoSnapshot
    BY <1>5 DEF CreatePresentationEpoch
  <2>2. available' \in BOOLEAN /\ (available' <=> ok)
    BY <2>1, Zenon
  <2>3. quitting' \in BOOLEAN /\ (~ok => quitting')
    BY <2>1, LeavesForGood
  <2>4. SurfacesOfOwner'
    BY <1>2, <2>1, <2>2 DEF SurfacesOfOwner
  <2>5. PresentsOrLeaves'
    BY <2>2, <2>3 DEF PresentsOrLeaves
  <2> QED
    BY <1>3, <2>2, <2>3, <2>4, <2>5 DEF ShellIInv
<1>6. CASE UpdatePresentationEpoch(ok)
  <2>1. /\ available' = available /\ available /\ client'.snapshot # NoSnapshot /\ Leaves(FALSE)
        /\ shown' = client'.snapshot \/ (~ok /\ shown' = shown)
    BY <1>6 DEF UpdatePresentationEpoch
  <2>2. available' \in BOOLEAN /\ available'
    BY <2>1, Zenon DEF ShellIInv
  <2>3. quitting' \in BOOLEAN
    BY <2>1, LeavesForGood
  <2>4. /\ shown.epoch = client.owner
        /\ shown.generation \in 1..client.snapshot.generation
    BY <2>1 DEF ShellIInv, SurfacesOfOwner
  <2>5. SurfacesOfOwner'
    BY <1>1, <1>2, <1>3, <2>1, <2>4 DEF SurfacesOfOwner
  <2> QED
    BY <1>3, <2>2, <2>3, <2>5 DEF ShellIInv, PresentsOrLeaves
<1> QED
  BY <1>4, <1>5, <1>6 DEF HandleSettingsSnapshotChanged

(* Every step of the shell keeps the invariant of both.                    *)
LEMMA ShellStepKeepsIInv ==
    ASSUME ShellIInv, [ShellNext]_shellVars
    PROVE  ShellIInv'
<1>1. IInv'
  BY StepKeepsIInv DEF ShellIInv, ShellNext, ShellProceeds, DestroyRuntime, Next, shellVars
<1>2. CASE ShellProceeds /\ client'.snapshot = client.snapshot
  <2>1. /\ Leaves(FALSE) /\ UNCHANGED <<available, shown, refusals>>
    BY <1>2 DEF ShellProceeds
  <2>2. quitting' \in BOOLEAN /\ (quitting => quitting')
    BY <2>1, LeavesForGood
  <2>3. available' \in BOOLEAN /\ (available' <=> available)
    BY <2>1, Zenon DEF ShellIInv
  <2>4. client.snapshot # NoSnapshot => client'.owner = client.owner
    BY <1>1, <1>2 DEF ShellIInv, IInv, Local, Shows
  <2>5. available => client.snapshot # NoSnapshot
    BY DEF ShellIInv, SurfacesOfOwner, NoSnapshot
  <2>6. SurfacesOfOwner'
    BY <1>2, <2>1, <2>3, <2>4, <2>5 DEF ShellIInv, SurfacesOfOwner
  <2>7. PresentsOrLeaves'
    BY <1>2, <2>2, <2>3 DEF ShellIInv, PresentsOrLeaves
  <2> QED
    BY <1>1, <2>1, <2>2, <2>3, <2>6, <2>7 DEF ShellIInv
<1>3. CASE ShellProceeds /\ client'.snapshot # client.snapshot
  BY <1>1, <1>3, ReactionKeepsSurfaces DEF ShellProceeds
<1>4. CASE DestroyRuntime
  <2>1. available' = FALSE /\ UNCHANGED <<quitting, refusals>> /\ client'.snapshot = NoSnapshot
    BY <1>4 DEF DestroyRuntime, Stop, Stopped
  <2>2. available' \in BOOLEAN /\ ~available'
    BY <2>1, Zenon
  <2> QED
    BY <1>1, <2>1, <2>2 DEF ShellIInv, SurfacesOfOwner, PresentsOrLeaves
<1>5. CASE UNCHANGED shellVars
  BY <1>1, <1>5
     DEF ShellIInv, SurfacesOfOwner, PresentsOrLeaves, shellVars, presentationVars, vars
<1> QED
  BY <1>2, <1>3, <1>4, <1>5 DEF ShellNext

(* The inductive invariant of the client with its shell.                   *)
THEOREM ShellInductiveInvariant == ShellSpec => []ShellIInv
<1>1. ShellInit => ShellIInv
  <2> SUFFICES ASSUME ShellInit PROVE ShellIInv
    OBVIOUS
  <2>1. IInv
    BY InitEstablishesIInv DEF ShellInit
  <2>2. available \in BOOLEAN /\ ~available /\ quitting \in BOOLEAN
    BY Zenon DEF ShellInit
  <2>3. refusals \in Nat /\ client.snapshot = NoSnapshot
    BY DEF ShellInit, Init, Stopped
  <2> QED
    BY <2>1, <2>2, <2>3 DEF ShellIInv, SurfacesOfOwner, PresentsOrLeaves
<1>2. ShellIInv /\ [ShellNext]_shellVars => ShellIInv'
  BY ShellStepKeepsIInv
<1> QED
  BY <1>1, <1>2, PTL DEF ShellSpec

(* The surfaces are those of the present owner, made from a generation     *)
(* that was received, and from the newest one unless they refused it       *)
(* (ShellRuntime.cpp handleSettingsSnapshotChanged).                       *)
THEOREM SurfacesFollowOwner == ShellSpec => []SurfacesOfOwner
BY ShellInductiveInvariant, PTL DEF ShellIInv

(* A shell that has its settings and shows nothing is on its way out.      *)
THEOREM PresentsOrIsLeaving == ShellSpec => []PresentsOrLeaves
BY ShellInductiveInvariant, PTL DEF ShellIInv

(* The client keeps its promises under the shell as well.                  *)
THEOREM ShellsClientIsConsistent == ShellSpec => []ClientInvariant /\ RetainsOnceOwnerKnown
BY ShellRunsTheClient, ClientIsConsistent, LastGenerationIsRetained

==============================================================================
