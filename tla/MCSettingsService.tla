------------------------- MODULE MCSettingsService -------------------------
(* SettingsService with two clients that compete for the slot.             *)
EXTENDS SettingsService

CONSTANTS c1, c2

MCClient == {c1, c2}
=============================================================================
