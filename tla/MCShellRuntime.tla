---------------------------- MODULE MCShellRuntime ----------------------------
(* Two outputs side by side, or one of them alone, on the other's CRTC and  *)
(* lower than the highest panel.                                           *)
EXTENDS ShellRuntime

Output(output, crtc, x, height) ==
    [output |-> output, crtc |-> crtc, x |-> x, y |-> 0, width |-> 2, height |-> height]

MCScreens == {[width |-> 4, height |-> 3], [width |-> 4, height |-> 2]}
MCConfigs ==
    {{Output(1, 1, 0, 2), Output(2, 2, 2, 2)},
     {Output(2, 1, 0, 1)}}
=============================================================================
