----------------------------- MODULE Forwarding -----------------------------
(***************************************************************************)
(* What a user of usbferry's port forward relies on, whatever carries it:  *)
(* a local connection is joined to a usbipd connection of its own, bytes   *)
(* come out at the other end as they went in, and an end is closed only    *)
(* when its peer has hung up and everything it sent has come out, or when  *)
(* the tunnel is lost.  Tunnel implements this specification.              *)
(***************************************************************************)
EXTENDS Naturals, Sequences

CONSTANTS
    Locals,   \* the local connections
    Payloads  \* the pieces of data sent

VARIABLES
    accepted,     \* local connections made
    reached,      \* those that were joined to a usbipd connection
    refused,      \* those the server refused
    toolDone,     \* the local tool has hung up
    usbipdDone,   \* usbipd has hung up
    localClosed,  \* the client has closed the local connection
    remoteClosed, \* the server has closed the usbipd connection
    sent,         \* per direction and connection, what was put in
    got,          \* and what came out
    lost          \* is the tunnel lost?

peerVars == <<accepted, reached, refused, toolDone, usbipdDone>>
closeVars == <<localClosed, remoteClosed, lost>>
vars == <<peerVars, closeVars, sent, got>>

Directions == {"up", "down"}

Init ==
    /\ accepted = {} /\ reached = {} /\ refused = {}
    /\ toolDone = {} /\ usbipdDone = {}
    /\ localClosed = {} /\ remoteClosed = {}
    /\ sent = [d \in Directions |-> [k \in Locals |-> << >>]]
    /\ got = sent
    /\ lost = FALSE

Accept(k) ==
    /\ k \notin accepted
    /\ accepted' = accepted \cup {k}
    /\ UNCHANGED <<reached, refused, toolDone, usbipdDone, closeVars, sent, got>>

Reach(k) ==
    /\ k \in accepted \ (reached \cup refused)
    /\ reached' = reached \cup {k}
    /\ UNCHANGED <<accepted, refused, toolDone, usbipdDone, closeVars, sent, got>>

Refuse(k) ==
    /\ k \in accepted \ (reached \cup refused)
    /\ refused' = refused \cup {k}
    /\ UNCHANGED <<accepted, reached, toolDone, usbipdDone, closeVars, sent, got>>

ToolHangsUp(k) ==
    /\ k \in accepted
    /\ toolDone' = toolDone \cup {k}
    /\ UNCHANGED <<accepted, reached, refused, usbipdDone, closeVars, sent, got>>

UsbipdHangsUp(k) ==
    /\ k \in reached
    /\ usbipdDone' = usbipdDone \cup {k}
    /\ UNCHANGED <<accepted, reached, refused, toolDone, closeVars, sent, got>>

Ends(d) == IF d = "up" THEN accepted \ toolDone ELSE reached \ usbipdDone
Receivers(d) == IF d = "up" THEN reached \ remoteClosed ELSE accepted \ localClosed

Send(d, k) ==
    /\ k \in Ends(d)
    /\ \E x \in Payloads : sent' = [sent EXCEPT ![d][k] = Append(@, x)]
    /\ UNCHANGED <<peerVars, closeVars, got>>

\* In order, nothing left out, nothing of another connection.
Deliver(d, k) ==
    /\ k \in Receivers(d)
    /\ Len(got[d][k]) < Len(sent[d][k])
    /\ got' = [got EXCEPT ![d][k] = Append(@, sent[d][k][Len(@) + 1])]
    /\ UNCHANGED <<peerVars, closeVars, sent>>

MayCloseLocal(k) ==
    \/ k \in refused \cup toolDone
    \/ k \in usbipdDone /\ got["down"][k] = sent["down"][k]

MayCloseRemote(k) ==
    \/ k \in usbipdDone
    \/ k \in toolDone /\ got["up"][k] = sent["up"][k]

CloseLocal(k) ==
    /\ k \in accepted
    /\ lost \/ MayCloseLocal(k)
    /\ localClosed' = localClosed \cup {k}
    /\ UNCHANGED <<peerVars, remoteClosed, lost, sent, got>>

CloseRemote(k) ==
    /\ k \in reached
    /\ lost \/ MayCloseRemote(k)
    /\ remoteClosed' = remoteClosed \cup {k}
    /\ UNCHANGED <<peerVars, localClosed, lost, sent, got>>

\* Whoever notices closes what it holds.
Lose ==
    /\ lost' = TRUE
    /\ localClosed \subseteq localClosed' /\ localClosed' \subseteq accepted
    /\ remoteClosed \subseteq remoteClosed' /\ remoteClosed' \subseteq reached
    /\ UNCHANGED <<peerVars, sent, got>>

Next ==
    \/ \E k \in Locals :
         \/ Accept(k) \/ Reach(k) \/ Refuse(k)
         \/ ToolHangsUp(k) \/ UsbipdHangsUp(k)
         \/ CloseLocal(k) \/ CloseRemote(k)
         \/ \E d \in Directions : Send(d, k) \/ Deliver(d, k)
    \/ Lose

Spec == Init /\ [][Next]_vars

=============================================================================
