----------------------------- MODULE MCLanManager -----------------------------
EXTENDS LanManager

\* A subnet of three hosts, one of them the server's, and what is left of it after an
\* edit of server.json that gives the server another address.
MCAddrs == 1 .. 3
MCConfigs == {[hosts |-> 1 .. 3, server_ip |-> 1], [hosts |-> 2 .. 3, server_ip |-> 3]}
=============================================================================
