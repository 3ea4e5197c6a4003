---------------------------- MODULE MCSettingsEngine ----------------------------
(* Two users' files that parse, one in high contrast and at the slowest,   *)
(* one that does not; a theme whose accessibility palette may be too weak, *)
(* and a forge profile that may be broken, have another motion or the      *)
(* smallest text.                                                          *)
EXTENDS SettingsEngine

CONSTANTS BodySize, LeastBodySize, TextScale

Configuration(profile, highContrast, textScale, animationScale) ==
    [profile |-> profile, highContrast |-> highContrast, reducedMotion |-> FALSE,
     transparency |-> ~highContrast, blurOff |-> FALSE, strongFocus |-> FALSE,
     textScale |-> textScale, animationScale |-> animationScale, target |-> 24,
     integrations |-> TRUE, developer |-> FALSE, accent |-> "accent"]

Made(defect, values) == File([defect |-> defect, values |-> values])

MCUserFiles ==
    {Missing,
     Made("toml", <<>>),
     Made("none", Configuration("lustre", FALSE, TextScale, 8)),
     Made("none", Configuration("forge", TRUE, 12, 4)),
     Made("none", Configuration("lustre", FALSE, 2, 4))}

MCPackaged == Made("none", Configuration("lustre", FALSE, 4, 4))

Theme(layer, bodySize, palette, motion) ==
    Made("none", [layer |-> layer, bodySize |-> bodySize, titleSize |-> 64, motion |-> motion,
                  focusWidth |-> 2, target |-> 32, contrast |-> 3, palette |-> palette,
                  highContrast |-> [ratio |-> 7, focusWidth |-> 3], minimumTarget |-> 24,
                  blur |-> layer = "lustre", rest |-> layer])

MCThemes ==
    [base |-> {Theme("base", BodySize, 0, 100)},
     lustre |-> {Theme("lustre", BodySize, 0, 2000)},
     forge |-> {Theme("forge", BodySize, 0, 100), Theme("forge", LeastBodySize, 0, 200),
               Made("json", <<>>)},
     accessibility |-> {Theme("accessibility", BodySize, 7, 0), Theme("accessibility", BodySize, 6, 0)}]
=============================================================================
