------------------------------ MODULE MCTunnel ------------------------------
(* The instance of Tunnel that TLC checks. *)
EXTENDS Tunnel, TLC

CONSTANTS k1, k2, p1, p2

TwoLocals == {k1, k2}
TwoPumps == {p1, p2}
=============================================================================
