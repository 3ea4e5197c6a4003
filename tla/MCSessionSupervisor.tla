------------------------ MODULE MCSessionSupervisor ------------------------
(* SessionSupervisor with one restart per component, PD1's budget for      *)
(* settingsd, and waits of one or two slices: enough for a wait to be      *)
(* interrupted before, inside and after a slice.                           *)
EXTENDS SessionSupervisor

MCComponent == {"settingsd", "shell"}
MCMaxRestarts == [c \in MCComponent |-> 1]
=============================================================================
