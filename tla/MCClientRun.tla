----------------------------- MODULE MCClientRun -----------------------------
(* The instance of ClientRun that TLC checks. *)
EXTENDS ClientRun

CONSTANTS d1

OneDevice == {d1}
=============================================================================
