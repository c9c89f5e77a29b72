-------------------------- MODULE MCServerSession --------------------------
(* The instances of ServerSession that TLC checks. *)
EXTENDS ServerSession

CONSTANTS s1, p1, p2, u1, u2, l1

OneSession  == {s1}
TwoPumps    == {p1, p2}

\* The ids of a client: client.py opens the LAN as 1 and usbip from 100 on.
TwoUsbIds == {u1, u2}
OneLanId  == {l1}
=============================================================================
