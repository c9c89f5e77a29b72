---------------------------- MODULE MCLocalServer ----------------------------
(* The instance of LocalServer that TLC checks. *)
EXTENDS LocalServer, TLC

CONSTANTS s1, s2, q1, q2, i1, k1, k2

TwoServers == {s1, s2}
TwoRequests == {q1, q2}
OneInstaller == {i1}
RequestsAndInstallers == Requests \cup Installers
TwoChildren == {k1, k2}
Alike == Permutations(Requests) \cup Permutations(Installers)
=============================================================================
