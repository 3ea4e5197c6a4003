----------------------------- MODULE MCEwmhTasks -----------------------------
(* Two windows that may be used again, and one that a taskbar leaves out.  *)
EXTENDS EwmhTasks

CONSTANTS w1, w2

MCLooks ==
    {[sound |-> TRUE, type |-> "normal", skipTaskbar |-> FALSE],
     [sound |-> TRUE, type |-> "dock", skipTaskbar |-> FALSE]}
=============================================================================
