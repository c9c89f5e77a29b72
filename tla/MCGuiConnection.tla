--------------------------- MODULE MCGuiConnection ---------------------------
(* The instances of GuiConnection that TLC checks. *)
EXTENDS GuiConnection

CONSTANTS r1, r2, l1, c1, c2, a, b

OneRequest  == {r1}
TwoRequests == {r1, r2}
OneLoop     == {l1}
TwoClients  == {c1, c2}
OneProfile  == {a}
TwoProfiles == {a, b}
=============================================================================
