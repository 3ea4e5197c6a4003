--------------------------- MODULE RecoveryBudget ---------------------------
(***************************************************************************)
(* What session recovery promises, without its clock: every component has  *)
(* a bounded number of restarts outstanding, old ones may be forgiven, an  *)
(* exhausted budget buys one safe-mode launch of the whole session, and    *)
(* nothing is restarted after that.  RestartPolicy, which decides what is  *)
(* forgiven from launch and exit times, implements this specification, and *)
(* SessionSupervisor is built on its actions.                              *)
(***************************************************************************)
EXTENDS Naturals

CONSTANTS Component,    \* the supervised roles, ComponentRole
          MaxRestarts   \* [Component -> Nat \ {0}], RestartBudget::maximumRestarts

ASSUME BudgetAssumption == MaxRestarts \in [Component -> Nat \ {0}]

VARIABLES used,         \* restarts not yet forgiven, the length of each history
          safeOffered,  \* safe_mode_offered_
          safeActive    \* safe_mode_active_

budgetVars == <<used, safeOffered, safeActive>>

Reason == {"clean", "failure", "signal", "readiness_timeout"}
Verdict == {"stop_clean", "restart_component", "enter_safe_mode", "stop_failed"}

BudgetTypeOK ==
    /\ used \in [Component -> Nat]
    /\ \A c \in Component : used[c] <= MaxRestarts[c]
    /\ safeOffered \in BOOLEAN
    /\ safeActive \in BOOLEAN

BudgetInit ==
    /\ used = [c \in Component |-> 0]
    /\ safeOffered = FALSE
    /\ safeActive = FALSE

(* The answer to one unexpected exit while safe mode is not active: `keep` *)
(* restarts of the component are still remembered.                         *)
Charge(c, keep, verdict) ==
    \/ /\ keep < MaxRestarts[c]
       /\ verdict = "restart_component"
       /\ used' = [used EXCEPT ![c] = keep + 1]
       /\ UNCHANGED safeOffered
    \/ /\ keep = MaxRestarts[c]
       /\ verdict = IF safeOffered THEN "stop_failed" ELSE "enter_safe_mode"
       /\ used' = [used EXCEPT ![c] = keep]
       /\ safeOffered' = TRUE

(* observeExit: a clean exit is never restarted, a failure in safe mode is *)
(* terminal, any other exit is charged to the component's budget.          *)
Observe(c, reason, verdict) ==
    /\ \/ /\ reason = "clean"
          /\ verdict = "stop_clean"
          /\ UNCHANGED <<used, safeOffered>>
       \/ /\ reason # "clean" /\ safeActive
          /\ verdict = "stop_failed"
          /\ UNCHANGED <<used, safeOffered>>
       \/ /\ reason # "clean" /\ ~safeActive
          /\ \E keep \in 0..used[c] : Charge(c, keep, verdict)
    /\ UNCHANGED safeActive

(* activateSafeMode: both histories are cleared, once.                     *)
Activate ==
    /\ safeOffered /\ ~safeActive
    /\ safeActive' = TRUE
    /\ used' = [c \in Component |-> 0]
    /\ UNCHANGED safeOffered

BudgetNext ==
    \/ \E c \in Component, r \in Reason, v \in Verdict : Observe(c, r, v)
    \/ Activate

BudgetSpec == BudgetInit /\ [][BudgetNext]_budgetVars
=============================================================================
