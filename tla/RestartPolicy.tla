---------------------------- MODULE RestartPolicy ----------------------------
(***************************************************************************)
(* SessionRecoveryPolicy (src/src/session/RestartPolicy.cpp): the rolling  *)
(* window of restarts kept for each component, the healthy interval that   *)
(* clears it, exponential backoff, and the one safe-mode launch.  The      *)
(* caller is the supervisor reduced to its contract with the policy: it    *)
(* launches a component no earlier than the backoff it was given, reports  *)
(* each exit once, and stops after a terminal decision.                    *)
(*                                                                         *)
(* Time is the monotonic clock in abstract units, bounded by MaxTime.      *)
(***************************************************************************)
EXTENDS Integers, Sequences

CONSTANTS Component,        \* ComponentRole
          MaxRestarts,      \* the five fields of RestartBudget, per component
          Window,
          Healthy,
          InitialBackoff,
          MaximumBackoff,
          MaxTime           \* bound on the clock

Lesser(a, b) == IF a <= b THEN a ELSE b

(* backoffFor: the initial delay, doubled for every ordinal after the      *)
(* first, saturating at the maximum.                                       *)
Doubled(c, delay) ==
    IF delay >= MaximumBackoff[c] THEN delay
    ELSE IF delay > MaximumBackoff[c] \div 2 THEN MaximumBackoff[c]
    ELSE 2 * delay

Delays(c, last) ==
    LET delay[n \in 0..last] ==
          IF n = 0 THEN InitialBackoff[c] ELSE Doubled(c, delay[n - 1])
    IN  delay

BackoffFor(c, ordinal) == Lesser(Delays(c, ordinal - 1)[ordinal - 1], MaximumBackoff[c])

(* validateBudget. *)
ASSUME ValidBudget ==
    /\ MaxRestarts \in [Component -> Nat \ {0}]
    /\ Window \in [Component -> Nat \ {0}]
    /\ Healthy \in [Component -> Nat \ {0}]
    /\ InitialBackoff \in [Component -> Nat]
    /\ MaximumBackoff \in [Component -> Nat]
    /\ \A c \in Component : InitialBackoff[c] <= MaximumBackoff[c]
    /\ MaxTime \in Nat

(* What pd1SessionRecoveryConfig adds to a valid budget: a healthy run is  *)
(* at least as long as the window, and the first backoff is not zero.      *)
ASSUME Pd1Budget ==
    \A c \in Component :
        /\ Healthy[c] >= Window[c]
        /\ InitialBackoff[c] > 0

VARIABLES now,          \* MonotonicClock::now()
          exits,        \* ComponentHistory::exits, oldest first
          safeOffered,  \* safe_mode_offered_
          safeActive,   \* safe_mode_active_
          up,           \* the component is launched and its exit not yet reported
          launchedAt,   \* time of the last launch
          dueAt,        \* earliest time of the next launch: exit plus backoff
          session,      \* "running", "entering_safe" after that decision, "ended"
          granted       \* history: the times of all restarts ever granted

policyVars == <<exits, safeOffered, safeActive>>
vars == <<now, exits, safeOffered, safeActive, up, launchedAt, dueAt, session, granted>>

Reason == {"clean", "failure", "signal", "readiness_timeout"}

TypeOK ==
    /\ now \in Nat
    /\ exits \in [Component -> Seq(Nat)]
    /\ \A c \in Component : Len(exits[c]) <= MaxRestarts[c]
    /\ safeOffered \in BOOLEAN
    /\ safeActive \in BOOLEAN
    /\ up \in [Component -> BOOLEAN]
    /\ launchedAt \in [Component -> Nat]
    /\ dueAt \in [Component -> Nat]
    /\ session \in {"running", "entering_safe", "ended"}
    /\ granted \in [Component -> Seq(Nat)]

Init ==
    /\ now = 0
    /\ exits = [c \in Component |-> <<>>]
    /\ safeOffered = FALSE
    /\ safeActive = FALSE
    /\ up = [c \in Component |-> FALSE]
    /\ launchedAt = [c \in Component |-> 0]
    /\ dueAt = [c \in Component |-> 0]
    /\ session = "running"
    /\ granted = [c \in Component |-> <<>>]

-----------------------------------------------------------------------------
(* The policy.                                                             *)

(* The history of c once a healthy run has cleared it.                     *)
Remembered(c, launched) ==
    IF now - launched >= Healthy[c] THEN <<>> ELSE exits[c]

(* Mutants: an exclusive window; a history that is never pruned.           *)
PopsFrontExclusive(history, start, k) ==
    /\ \A i \in 1..k : history[i] <= start
    /\ k < Len(history) => history[k + 1] > start
NeverPopsFront(history, start, k) == k = 0

(* The pop_front loop stops after k entries: those before the window, and  *)
(* no others.                                                              *)
PopsFront(history, start, k) ==
    /\ \A i \in 1..k : history[i] < start
    /\ k < Len(history) => history[k + 1] >= start

(* Mutant: one restart more than the budget.                               *)
RestartOffByOne(c, kept) ==
    /\ Len(kept) <= MaxRestarts[c]
    /\ exits' = [exits EXCEPT ![c] = Append(kept, now)]
    /\ granted' = [granted EXCEPT ![c] = Append(granted[c], now)]
    /\ dueAt' = [dueAt EXCEPT ![c] = now + BackoffFor(c, Len(kept) + 1)]
    /\ UNCHANGED <<safeOffered, session>>

Restart(c, kept) ==
    /\ Len(kept) < MaxRestarts[c]
    /\ exits' = [exits EXCEPT ![c] = Append(kept, now)]
    /\ granted' = [granted EXCEPT ![c] = Append(granted[c], now)]
    /\ dueAt' = [dueAt EXCEPT ![c] = now + BackoffFor(c, Len(kept) + 1)]
    /\ UNCHANGED <<safeOffered, session>>

Exhausted(c, kept) ==
    /\ Len(kept) >= MaxRestarts[c]
    /\ exits' = [exits EXCEPT ![c] = kept]
    /\ safeOffered' = TRUE
    /\ session' = IF safeOffered THEN "ended" ELSE "entering_safe"
    /\ UNCHANGED <<granted, dueAt>>

(* observeExit for an unexpected exit outside safe mode.                   *)
ChargeBudget(c, launched) ==
    LET history == Remembered(c, launched)
    IN  \E k \in 0..Len(history) :
          /\ PopsFront(history, now - Window[c], k)
          /\ LET kept == SubSeq(history, k + 1, Len(history))
             IN  Restart(c, kept) \/ Exhausted(c, kept)

(* Mutant: safe mode is given the normal budget.                           *)
TerminalOnlyWhenClean(reason) == reason = "clean"

(* The exits after which nothing is restarted whatever the budget.         *)
Terminal(reason) == reason = "clean" \/ safeActive

(* observeExit.  The launch time is the real one, or `now` when the        *)
(* supervisor stopped the child first and had already forgotten it.        *)
ObserveExit(c, reason) ==
    /\ session = "running" /\ up[c]
    /\ up' = [up EXCEPT ![c] = FALSE]
    /\ \E launched \in {launchedAt[c], now} :
         IF Terminal(reason)
         THEN /\ session' = "ended"
              /\ UNCHANGED <<exits, safeOffered, granted, dueAt>>
         ELSE ChargeBudget(c, launched)
    /\ UNCHANGED <<now, safeActive, launchedAt>>

(* Mutant: the histories survive the switch to safe mode.                  *)
ActivateKeepingHistory ==
    /\ session = "entering_safe"
    /\ safeActive' = TRUE
    /\ up' = [c \in Component |-> FALSE]
    /\ session' = "running"
    /\ UNCHANGED <<now, exits, safeOffered, launchedAt, dueAt, granted>>

(* activateSafeMode, after the supervisor has stopped both children.       *)
ActivateSafeMode ==
    /\ session = "entering_safe"
    /\ safeOffered /\ ~safeActive
    /\ safeActive' = TRUE
    /\ exits' = [c \in Component |-> <<>>]
    /\ up' = [c \in Component |-> FALSE]
    /\ session' = "running"
    /\ UNCHANGED <<now, safeOffered, launchedAt, dueAt, granted>>

-----------------------------------------------------------------------------
(* Its caller and the clock.                                               *)

Launch(c) ==
    /\ session = "running" /\ ~up[c]
    /\ now >= dueAt[c]
    /\ up' = [up EXCEPT ![c] = TRUE]
    /\ launchedAt' = [launchedAt EXCEPT ![c] = now]
    /\ UNCHANGED <<now, exits, safeOffered, safeActive, dueAt, session, granted>>

Tick ==
    /\ now < MaxTime
    /\ now' = now + 1
    /\ UNCHANGED <<exits, safeOffered, safeActive, up, launchedAt, dueAt, session, granted>>

Next ==
    \/ Tick
    \/ ActivateSafeMode
    \/ \E c \in Component : Launch(c) \/ \E r \in Reason : ObserveExit(c, r)

Spec == Init /\ [][Next]_vars

-----------------------------------------------------------------------------
(* Properties.                                                             *)

(* "At most maximumRestarts restarts in an inclusive rolling window": any  *)
(* two restarts of a component that are maximumRestarts apart in the       *)
(* history of the session lie more than a window apart in time, whichever  *)
(* mixture of window pruning and healthy runs shortened the policy's own   *)
(* record in between (RestartPolicy.cpp observeExit).                      *)
RateBound ==
    \A c \in Component : \A i, j \in 1..Len(granted[c]) :
        j - i >= MaxRestarts[c] => granted[c][j] - granted[c][i] > Window[c]

(* Safe mode is not a second retry budget: once it is active, no restart   *)
(* is granted, and it is never left (RestartPolicy.hpp:57).                *)
SafeModeIsFinal ==
    [][safeActive => safeActive' /\ granted' = granted]_vars

(* A component is never charged for restarts that its budget has already   *)
(* forgiven: everything the policy still remembers of a component that was *)
(* just granted a restart lies inside the window ending at that restart.   *)
RemembersOnlyTheWindow ==
    \A c \in Component :
        exits[c] # <<>> /\ session = "running" =>
            \A i \in 1..Len(exits[c]) :
                exits[c][Len(exits[c])] - exits[c][i] <= Window[c]

(* Why the rate bound holds.  The policy's record of a component is the    *)
(* end of the history of its restarts, and what it forgot lies more than a *)
(* window in the past, because a healthy run is at least as long as the    *)
(* window (observeExit, pd1SessionRecoveryConfig).                         *)
Ledger(c) ==
    LET forgotten == Len(granted[c]) - Len(exits[c])
    IN  /\ forgotten \in Nat
        /\ \A i \in 1..Len(exits[c]) : exits[c][i] = granted[c][forgotten + i]
        /\ \A i \in 1..forgotten : granted[c][i] + Window[c] < now

LedgerAgrees == ~safeActive => \A c \in Component : Ledger(c)

(* Restarts are granted in order, and outside safe mode a launch comes     *)
(* strictly after the last of them, since no backoff is zero.              *)
Chronology ==
    \A c \in Component :
        /\ launchedAt[c] <= now
        /\ \A i \in 1..Len(granted[c]) :
               /\ granted[c][i] <= now
               /\ \A j \in i..Len(granted[c]) : granted[c][i] <= granted[c][j]
               /\ ~safeActive /\ up[c] => granted[c][i] < launchedAt[c]
               /\ ~safeActive /\ ~up[c] /\ session = "running" =>
                      granted[c][i] < dueAt[c]

-----------------------------------------------------------------------------
(* The policy implements the untimed budget.                               *)
Budget == INSTANCE RecoveryBudget WITH
            used <- [c \in Component |-> Len(exits[c])]

ImplementsBudget == Budget!BudgetSpec
=============================================================================
