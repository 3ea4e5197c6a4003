---------------------------- MODULE MCNotifications ----------------------------
(* One card that expires, one that does not and has an image, one that     *)
(* cannot be dismissed, and one that is refused.                           *)
EXTENDS Notifications

Made(content, text, bytes, actions, dismissible, kind, duration) ==
    [content |-> content, text |-> text, visual |-> [bytes |-> bytes, tight |-> TRUE],
     actions |-> actions, dismissible |-> dismissible,
     timeout |-> [kind |-> kind, duration |-> duration]]

MCInputs ==
    {Made("a", "plain", 0, "enabled", TRUE, "explicit", 2),
     Made("b", "plain", 2, "none", TRUE, "never", 0),
     Made("c", "plain", 0, "disabled", FALSE, "default", 0),
     Made("d", "invalidUtf8", 0, "none", TRUE, "never", 0)}
=============================================================================
