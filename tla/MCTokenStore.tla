---------------------------- MODULE MCTokenStore ----------------------------
(* The instances of TokenStore that TLC checks. *)
EXTENDS TokenStore, TLC

CONSTANTS c1, c2, srv, t1, t2, i1, i2, i3

TwoCommands == {c1, c2}
TwoTokens  == {t1, t2}

\* server.json, server.json.tmp and a file that lost its name under a writer
Files == {i1, i2, i3}

Symmetry ==
    Permutations(Commands) \cup Permutations(Tokens) \cup Permutations(Inodes)
=============================================================================
