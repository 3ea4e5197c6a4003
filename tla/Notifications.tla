----------------------------- MODULE Notifications -----------------------------
(***************************************************************************)
(* The notification cards (src/src/notifications) and the list that shows  *)
(* them (src/src/shell/notifications).  The model publishes immutable      *)
(* snapshots; whoever captures one may hand it to the presentation later,  *)
(* after newer ones or never.  What the user sees may therefore be behind  *)
(* the model, and the generation that comes with every intent has to tell. *)
(***************************************************************************)
EXTENDS RowReconciliation, FiniteSets

CONSTANTS
    Inputs,         \* what senders publish: see Input
    LastId,         \* stands for the last value of a 64-bit identifier
    MaxCards,       \* maximumNotificationCards
    MaxImage,       \* maximumNotificationImageBytes
    MaxImages,      \* maximumNotificationSnapshotImageBytes
    DefaultTimeout, \* NotificationModelConfig::defaultTimeout
    MaxTimeout,     \* maximumNotificationTimeout
    LastTime,       \* TimePoint::max()
    MaxClock        \* bound: how far the clock goes

ASSUME NotificationsAssumption ==
    /\ {LastId, MaxCards, MaxTimeout, DefaultTimeout} \subseteq Nat \ {0}
    /\ {MaxImage, MaxImages, LastTime, MaxClock} \subseteq Nat
    /\ DefaultTimeout <= MaxTimeout

VARIABLES
    clock,
    model,     \* SyntheticNotificationModel::Impl
    captured,  \* published snapshots that somebody holds
    shown,     \* the snapshot that the presentation applied last
    rows       \* the card objects of the presentation

vars == <<clock, model, captured, shown, rows>>

None == -1
Refused == -2
NoSnapshot == [generation |-> 0, cards |-> <<>>]

Texts == {"plain", "empty", "tooLarge", "invalidUtf8", "unsafeControl"}
Timeouts == [kind : {"default", "never", "explicit"}, duration : Nat]
Visuals == [bytes : Nat, tight : BOOLEAN]
ActionLists == {"none", "enabled", "disabled", "duplicate", "tooMany"}

(* text is the worst of the texts; content tells one content from another. *)
Input == [content : STRING, text : Texts, visual : Visuals, actions : ActionLists,
          dismissible : BOOLEAN, timeout : Timeouts]

ASSUME InputsAssumption == Inputs \subseteq Input

(* The value after an identifier; 0 means that there are no more.          *)
WrappingIdentifier(n) == IF n = LastId THEN 1 ELSE n + 1
IncrementIdentifier(n) == IF n = LastId THEN 0 ELSE n + 1

-----------------------------------------------------------------------------
(* What the model accepts of an input, and the presentation of a snapshot. *)

CheckedText(text) == text = "plain"

ValidVisual(visual) == visual.tight /\ visual.bytes <= MaxImage

ValidActions(actions) == actions \in {"none", "enabled", "disabled"}

ValidateInput(input) ==
    CheckedText(input.text) /\ ValidVisual(input.visual) /\ ValidActions(input.actions)

(* Refused, or the deadline, or None.                                      *)
ExpiryFor(timeout, now) ==
    IF timeout.kind # "explicit" /\ timeout.duration # 0 THEN Refused
    ELSE IF timeout.kind = "never" THEN None
    ELSE IF timeout.kind = "explicit" /\ timeout.duration \notin 1..MaxTimeout THEN Refused
    ELSE LET duration == IF timeout.kind = "default" THEN DefaultTimeout ELSE timeout.duration
         IN  IF now > LastTime - duration THEN Refused ELSE now + duration

(* The images of the first i cards together.                               *)
ImageBytes(cards) ==
    LET bytes[i \in 0..Len(cards)] ==
            IF i = 0 THEN 0 ELSE bytes[i - 1] + cards[i].visual.bytes
    IN  bytes

ImagesFit(cards) == ImageBytes(cards)[Len(cards)] <= MaxImages

ValidatePublishedCard(card, generation) ==
    /\ card.id # 0
    /\ card.generation <= generation
    /\ card.first <= card.updated
    /\ card.expires # None =>
          /\ card.expires > card.updated
          /\ card.updated <= LastTime - MaxTimeout
          /\ card.expires <= card.updated + MaxTimeout
    /\ ValidVisual(card.visual) /\ ValidActions(card.actions)

ValidateNotificationSnapshot(s) ==
    /\ Len(s.cards) <= MaxCards
    /\ \A i, j \in DOMAIN s.cards : s.cards[i].id = s.cards[j].id => i = j
    /\ \A i \in DOMAIN s.cards : ValidatePublishedCard(s.cards[i], s.generation)
    /\ ImagesFit(s.cards)

-----------------------------------------------------------------------------
(* The model.  born is a history: the publication that introduced a card.  *)

CardOf(input, id, born, generation, first, expires) ==
    [id |-> id, content |-> input.content, visual |-> input.visual,
     actions |-> input.actions, dismissible |-> input.dismissible, born |-> born,
     generation |-> generation, first |-> first, updated |-> clock, expires |-> expires]

Index(cards, id) == {i \in DOMAIN cards : cards[i].id = id}

Publish(cards) ==
    LET snapshot == [generation |-> model.nextGeneration, cards |-> cards]
    IN  /\ model.nextGeneration # 0
        /\ model' = [model EXCEPT !.current = snapshot,
                                  !.nextGeneration = IncrementIdentifier(@)]
        /\ captured' = captured \cup {snapshot}
        /\ UNCHANGED <<clock, shown, rows>>

(* Mutant: a replacement keeps the generation of the content it replaces.  *)
ReplaceSilently(input, i) ==
    LET card    == model.current.cards[i]
        expires == ExpiryFor(input.timeout, clock)
        cards   == [model.current.cards EXCEPT ![i] =
                      CardOf(input, card.id, card.born, card.generation, card.first, expires)]
    IN  expires # Refused /\ ImagesFit(cards) /\ Publish(cards)

(* Mutant: a replacement runs from the time the card was first presented.  *)
ReplaceWithoutRenewal(input, i) ==
    LET card    == model.current.cards[i]
        expires == ExpiryFor(input.timeout, card.first)
        cards   == [model.current.cards EXCEPT ![i] =
                      CardOf(input, card.id, card.born, model.nextGeneration, card.first, expires)]
    IN  expires # Refused /\ ImagesFit(cards) /\ Publish(cards)

(* upsert of an identifier that is among the cards: it keeps its place.    *)
Replace(input, i) ==
    LET card    == model.current.cards[i]
        expires == ExpiryFor(input.timeout, clock)
        cards   == [model.current.cards EXCEPT ![i] =
                      CardOf(input, card.id, card.born, model.nextGeneration, card.first, expires)]
    IN  expires # Refused /\ ImagesFit(cards) /\ Publish(cards)

(* upsert without an identifier.                                           *)
Add(input) ==
    LET expires == ExpiryFor(input.timeout, clock)
        cards   == Append(model.current.cards,
                      CardOf(input, model.nextId, model.nextGeneration,
                             model.nextGeneration, clock, expires))
        published == [generation |-> model.nextGeneration, cards |-> cards]
    IN  /\ expires # Refused /\ model.nextGeneration # 0
        /\ Len(model.current.cards) < MaxCards /\ model.nextId # 0
        /\ ImagesFit(cards)
        /\ model' = [current |-> published, nextId |-> IncrementIdentifier(model.nextId),
                     nextGeneration |-> IncrementIdentifier(model.nextGeneration)]
        /\ captured' = captured \cup {published}
        /\ UNCHANGED <<clock, shown, rows>>

Upsert(input) ==
    /\ ValidateInput(input)
    /\ \/ Add(input)
       \/ \E i \in DOMAIN model.current.cards : Replace(input, i)

(* dismiss, refused for a card that is gone or has another content.        *)
Dismiss(id, generation) ==
    \E i \in Index(model.current.cards, id) :
        /\ model.current.cards[i].generation = generation
        /\ Publish(RemoveAt(model.current.cards, i))

AdvanceTimeouts ==
    LET cards    == model.current.cards
        retained == {i \in DOMAIN cards : cards[i].expires = None \/ cards[i].expires > clock}
    IN  retained # DOMAIN cards /\ Publish(Kept(cards, retained))

(* activateAction only answers.                                            *)
ActivateAction(id, generation) ==
    \E i \in Index(model.current.cards, id) :
        /\ model.current.cards[i].generation = generation
        /\ model.current.cards[i].actions = "enabled"

(* The owner dismisses the card whose action it was told to acknowledge.   *)
Activate(id, generation) == ActivateAction(id, generation) /\ Dismiss(id, generation)

-----------------------------------------------------------------------------
(* The presentation.                                                       *)

WantedRows(s) ==
    [i \in DOMAIN s.cards |-> [key |-> s.cards[i].id, generation |-> s.cards[i].generation,
        content |-> s.cards[i].content, born |-> s.cards[i].born,
        actions |-> s.cards[i].actions, dismissible |-> s.cards[i].dismissible]]

(* Mutant: a row that is there is kept as it is.                           *)
OnlyMissing(wanted) == {i \in DOMAIN wanted : ~HasKey(rows, wanted[i].key)}

(* Rows whose card has a newer content than the one they show.             *)
Replaced(wanted) ==
    {i \in DOMAIN wanted :
        HasKey(rows, wanted[i].key) =>
            wanted[i].generation > rows[RowOf(rows, wanted[i].key)].generation}

(* A kept row must show what its card says.                                *)
Agrees(s, i) ==
    LET wanted == WantedRows(s)
    IN  HasKey(rows, wanted[i].key) =>
        LET row == rows[RowOf(rows, wanted[i].key)]
        IN  /\ wanted[i].generation >= row.generation
            /\ wanted[i].generation = row.generation =>
                  \E j \in Index(shown.cards, s.cards[i].id) : shown.cards[j] = s.cards[i]

Accepts(s) ==
    /\ ValidateNotificationSnapshot(s)
    /\ \A i \in DOMAIN s.cards : Agrees(s, i)

ApplySnapshot(s) ==
    /\ captured' = captured \ {s}
    /\ IF s.generation > shown.generation /\ Accepts(s)
       THEN /\ rows' = Reconcile(rows, WantedRows(s), Replaced(WantedRows(s)))
            /\ shown' = s
       ELSE UNCHANGED <<rows, shown>>
    /\ UNCHANGED <<clock, model>>

(* The user's intents carry what the row was made of.                      *)
RequestDismissal(i) ==
    rows[i].dismissible /\ Dismiss(rows[i].key, rows[i].generation)

RequestActivation(i) ==
    rows[i].actions = "enabled" /\ Activate(rows[i].key, rows[i].generation)

Tick == clock < MaxClock /\ clock' = clock + 1 /\ UNCHANGED <<model, captured, shown, rows>>

-----------------------------------------------------------------------------
Init ==
    /\ clock = 0
    /\ model = [current |-> NoSnapshot, nextId |-> 1, nextGeneration |-> 1]
    /\ captured = {} /\ shown = NoSnapshot /\ rows = <<>>

Next ==
    \/ \E input \in Inputs : Upsert(input)
    \/ AdvanceTimeouts
    \/ \E s \in captured : ApplySnapshot(s)
    \/ \E i \in DOMAIN rows : RequestDismissal(i) \/ RequestActivation(i)
    \/ Tick

Spec == Init /\ [][Next]_vars

-----------------------------------------------------------------------------
(* An identifier stands for one notification for good, and an identifier   *)
(* with a content generation for one content, in the model and in every    *)
(* row: an intent that the model accepts concerns what the user saw        *)
(* (NotificationModel.cpp:563).                                            *)
Same(row, card) ==
    row.key = card.id =>
        /\ row.born = card.born
        /\ row.generation = card.generation => row.content = card.content

IntentsConcernWhatWasSeen ==
    \A i \in DOMAIN rows : \A j \in DOMAIN model.current.cards :
        Same(rows[i], model.current.cards[j])

(* The rows are those of the snapshot that was applied last, in its order, *)
(* whatever was shown before and however many publications were skipped.   *)
RowsShowSnapshot == rows = WantedRows(shown)

(* Whatever the model publishes satisfies the contract that the            *)
(* presentation checks (NotificationModel.hpp:191), so that a newer        *)
(* snapshot is refused for one reason only: a deadline that was computed   *)
(* so late that the clock could not have given it every allowed duration.  *)
CouldRunLongest(card) == card.expires # None => card.updated <= LastTime - MaxTimeout

PublicationsAreAccepted ==
    \A s \in captured :
        s.generation > shown.generation =>
            (Accepts(s) <=> \A i \in DOMAIN s.cards : CouldRunLongest(s.cards[i]))
=============================================================================
