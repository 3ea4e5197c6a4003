--------------------------- MODULE MCRestartPolicy ---------------------------
(* RestartPolicy with the shape of pd1SessionRecoveryConfig: one restart   *)
(* for settingsd, three for the shell, a healthy interval equal to the     *)
(* window, and for the shell a backoff that doubles and then saturates.    *)
(* The clock runs for longer than a window, so that a second budget is     *)
(* used while the first one is pruned.                                     *)
EXTENDS RestartPolicy

MCComponent == {"settingsd", "shell"}
MCMaxRestarts == [c \in MCComponent |-> IF c = "shell" THEN 3 ELSE 1]
MCWindow == [c \in MCComponent |-> IF c = "shell" THEN 5 ELSE 3]
MCHealthy == MCWindow
MCInitialBackoff == [c \in MCComponent |-> 1]
MCMaximumBackoff == [c \in MCComponent |-> IF c = "shell" THEN 2 ELSE 1]
=============================================================================
