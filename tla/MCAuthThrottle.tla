--------------------------- MODULE MCAuthThrottle ---------------------------
(* The instance of AuthThrottle that TLC checks. *)
EXTENDS AuthThrottle

CONSTANTS a1, a2, f1, f2, f3

TwoAddrs == {a1, a2}

\* one more than the limit: an address keeps no more than Limit
ThreeFailures == {f1, f2, f3}
=============================================================================
