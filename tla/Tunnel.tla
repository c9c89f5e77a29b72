------------------------------- MODULE Tunnel -------------------------------
(***************************************************************************)
(* A client's port forward (src/usbferry/client.py) composed with the      *)
(* server's session (ServerSession): local connections are forwarded over  *)
(* channels of one tunnel, each to a usbipd connection of its own.         *)
(*                                                                         *)
(* The two sides share nothing but the frames in flight, `up` and `down`.  *)
(* A step of the server is the step of ServerSession it instantiates,      *)
(* joined with the frame it takes or sends.  The forward runs until the    *)
(* tunnel is lost or the user ends it; keepalive, the LAN and stop() are   *)
(* left to ServerSession.                                                  *)
(***************************************************************************)
EXTENDS Naturals, Sequences, FiniteSets

CONSTANTS
    Locals,      \* the local connections made to the forward
    Pumps,       \* the usbipd connections of the server
    Session,     \* the session of this client
    Lan,         \* the id of the LAN channel
    NoPump, NoId, NoSession,
    NoConn,      \* no local connection
    Base,        \* USB_CH_BASE
    LastId,      \* the last id that fits the frame's one byte
    MaxChannels, \* max_channels of the server
    MaxData,     \* bound: pieces of data sent in all
    MaxInFlight, \* bound: frames in flight to the server
    LossConns    \* bound: connections made before the tunnel is lost

UsbIds == Base .. LastId

ASSUME TunnelAssumption ==
    /\ Base \in Nat /\ LastId \in Nat /\ Base <= LastId
    /\ Lan \notin UsbIds /\ NoId \notin UsbIds \cup {Lan}
    /\ MaxChannels \in Nat
    /\ MaxData \in Nat /\ MaxInFlight \in Nat \ {0} /\ LossConns \in Nat
    /\ NoPump \notin Pumps /\ NoSession # Session /\ NoConn \notin Locals

VARIABLES
    server, phase, conn, age, pending, closed, registered, chans, lanCh,
    lanMembers, lanActive, pumpState, pumpSession, pumpCh, cancelled, sockets,
              \* the server, see ServerSession
    cli,      \* run_connected: "off", "running", or "ended" (its _cleanup has run)
    nextCh,   \* _next_ch
    connPc,   \* where the tasks of each local connection are suspended
    chOf,     \* the id it was given
    held,     \* usb_conns
    up,       \* frames on their way to the server
    down,     \* frames on their way to the client
    opener,   \* history: the connection whose OPEN the server is serving
    serves,   \* history: the connection each pump was opened for
    accepted, refused, toolDone, usbipdDone, localClosed, sent, got
              \* history and sockets, see Forwarding

serverVars == <<server, phase, conn, age, pending, closed, registered, chans, lanCh,
                lanMembers, lanActive, pumpState, pumpSession, pumpCh, cancelled, sockets>>
clientVars == <<cli, nextCh, connPc, chOf, held>>
openVars   == <<opener, serves, accepted, refused>>
endVars    == <<toolDone, usbipdDone, localClosed>>
vars == <<serverVars, clientVars, up, down, openVars, endVars, sent, got>>

\* A frame about the channel ch: what it says is a connection (of an OPEN or CLOSE)
\* or a piece of data.
Frame(kind, ch, says) == [kind |-> kind, ch |-> ch, says |-> says]
Payloads == Locals \X (1 .. MaxData)

unread == [s \in {Session} |-> Len(up)]

\* The server takes whatever id it is sent ...
S == INSTANCE ServerSession WITH
        Sessions <- {Session}, LanIds <- {Lan}, KickAge <- 0, MaxUnread <- MaxInFlight,
        ReuseIds <- TRUE, AwaitsConns <- TRUE

\* ... and this client sends no id twice.
Strict == INSTANCE ServerSession WITH
        Sessions <- {Session}, LanIds <- {Lan}, KickAge <- 0, MaxUnread <- MaxInFlight,
        ReuseIds <- FALSE, AwaitsConns <- TRUE

Reached == {serves[p] : p \in Pumps} \ {NoConn}

F == INSTANCE Forwarding WITH
        reached <- Reached,
        remoteClosed <- {serves[p] : p \in Pumps \ sockets} \ {NoConn},
        lost <- conn[Session] = "lost"

ConnPCs == {"none", "accepted", "opening", "pumping", "closing", "failed", "done"}

Init ==
    /\ up = << >> /\ down = << >>
    /\ S!Init /\ lanActive = FALSE
    /\ cli = "off"
    /\ nextCh = Base
    /\ connPc = [k \in Locals |-> "none"]
    /\ chOf = [k \in Locals |-> NoId]
    /\ held = {}
    /\ opener = NoConn
    /\ serves = [p \in Pumps |-> NoConn]
    /\ accepted = {} /\ refused = {}
    /\ toolDone = {} /\ usbipdDone = {} /\ localClosed = {}
    /\ sent = [d \in {"up", "down"} |-> [k \in Locals |-> << >>]]
    /\ got = sent

Lost == conn[Session] = "lost"
MayBeLost == Cardinality(accepted) <= LossConns

-----------------------------------------------------------------------------
(* The client.                                                              *)

\* What is written to a lost connection is dropped.
ClientWrites(f) ==
    \/ /\ ~ Lost
       /\ Len(up) < MaxInFlight
       /\ up' = Append(up, f)
       /\ S!ClientSends(Session)
    \/ /\ Lost
       /\ UNCHANGED <<up, serverVars>>

\* The hello was accepted: run_connected starts the forward and the frame loop.  Local
\* connections that came and went before those in Locals leave nothing but the next id.
ClientRuns ==
    /\ cli = "off"
    /\ Session \in registered
    /\ cli' = "running"
    /\ nextCh' \in UsbIds
    /\ UNCHANGED <<serverVars, connPc, chOf, held, up, down, openVars, endVars,
                   sent, got>>

\* Connections are alike until they are made: the next of a set stands for any.
Fresh(X) == CHOOSE x \in X : TRUE

\* The forward's listening socket accepts; the task of _forward_conn is created.
Accept(k) ==
    /\ cli = "running"
    /\ Lost => Cardinality(accepted) < LossConns
    /\ k \notin accepted /\ k = Fresh(Locals \ accepted)
    /\ connPc' = [connPc EXCEPT ![k] = "accepted"]
    /\ accepted' = accepted \cup {k}
    /\ UNCHANGED <<serverVars, cli, nextCh, chOf, held, up, down, opener, serves, refused,
                   endVars, sent, got>>

\* Mutation: an id is free again when its connection is gone.
FreeIdReused == CHOOSE c \in Base .. LastId + 1 : \A k \in held : chOf[k] # c

\* Mutation: the counter goes up before the id is taken, and after.
FreeIdSkips == nextCh + 1

\* The ids count up, passing over those in use.
FreeId == CHOOSE c \in nextCh .. nextCh + Cardinality(held) :
              /\ \A k \in held : chOf[k] # c
              /\ \A d \in nextCh .. c - 1 : \E k \in held : chOf[k] = d

\* _forward_conn up to its await; it may come after _cleanup.
ForwardConn(k) ==
    /\ connPc[k] = "accepted"
    /\ FreeId \in UsbIds
    /\ connPc' = [connPc EXCEPT ![k] = "opening"]
    /\ chOf' = [chOf EXCEPT ![k] = FreeId]
    /\ nextCh' = FreeId + 1
    /\ held' = held \cup {k}
    /\ ClientWrites(Frame("open", FreeId, k))
    /\ UNCHANGED <<cli, down, openVars, endVars, sent, got>>

\* The id does not fit the byte: struct.error, the connection stays in usb_conns.
ForwardFails(k) ==
    /\ connPc[k] = "accepted"
    /\ FreeId \notin UsbIds
    /\ connPc' = [connPc EXCEPT ![k] = "failed"]
    /\ chOf' = [chOf EXCEPT ![k] = FreeId]
    /\ nextCh' = FreeId + 1
    /\ held' = held \cup {k}
    /\ refused' = refused \cup {k}
    /\ UNCHANGED <<serverVars, cli, up, down, opener, serves, accepted, endVars, sent, got>>

\* The drain of OPEN returns and the pump is created, or raises.
OpenSent(k) ==
    /\ connPc[k] = "opening"
    /\ \/ connPc' = [connPc EXCEPT ![k] = "pumping"]
       \/ Lost /\ connPc' = [connPc EXCEPT ![k] = "failed"]
    /\ UNCHANGED <<serverVars, cli, nextCh, chOf, held, up, down, openVars, endVars, sent, got>>

\* asyncio closes the connection of a callback that raised (Python 3.12 and later).
AsyncioCloses(k) ==
    /\ connPc[k] = "failed"
    /\ connPc' = [connPc EXCEPT ![k] = "done"]
    /\ localClosed' = localClosed \cup {k}
    /\ UNCHANGED <<serverVars, cli, nextCh, chOf, held, up, down, openVars, toolDone,
                   usbipdDone, sent, got>>

ToolHangsUp(k) ==
    /\ k \in accepted \ toolDone
    /\ toolDone' = toolDone \cup {k}
    /\ UNCHANGED <<serverVars, clientVars, up, down, openVars, usbipdDone, localClosed, sent, got>>

Pieces == Cardinality({x \in {"up", "down"} \X Locals \X (1 .. MaxData) :
                          x[3] <= Len(sent[x[1]][x[2]])})

\* The tool sends, the pump forwards.
ConnReads(k) ==
    /\ connPc[k] = "pumping"
    /\ k \notin toolDone \cup localClosed
    /\ Pieces < MaxData
    /\ LET x == <<k, Len(sent["up"][k]) + 1>>
       IN /\ ClientWrites(Frame("data", chOf[k], x))
          /\ sent' = [sent EXCEPT !["up"][k] = Append(@, x)]
    /\ UNCHANGED <<clientVars, down, openVars, endVars, got>>

\* The tool hung up, the connection was closed here, or the tunnel is lost, or the
\* pump is cancelled: its finally sends CLOSE and awaits the drain.
ConnEnds(k) ==
    /\ connPc[k] = "pumping"
    /\ k \in toolDone \cup localClosed \/ Lost
    /\ connPc' = [connPc EXCEPT ![k] = "closing"]
    /\ ClientWrites(Frame("close", chOf[k], k))
    /\ UNCHANGED <<cli, nextCh, chOf, held, down, openVars, endVars, sent, got>>

\* The drain returned or raised: usb_conns.pop(conn.ch), whosever it is by now.
ConnFinishes(k) ==
    /\ connPc[k] = "closing"
    /\ connPc' = [connPc EXCEPT ![k] = "done"]
    /\ held' = {j \in held : chOf[j] # chOf[k]}
    /\ localClosed' = localClosed \cup {k}
    /\ UNCHANGED <<serverVars, cli, nextCh, chOf, up, down, openVars, toolDone, usbipdDone,
                   sent, got>>

\* Cancelled before its first step: the finally does not run.
ConnDropped(k) ==
    /\ connPc[k] = "pumping"
    /\ cli = "ended"
    /\ connPc' = [connPc EXCEPT ![k] = "done"]
    /\ UNCHANGED <<serverVars, cli, nextCh, chOf, held, up, down, openVars, endVars, sent, got>>

Takes(kind) ==
    /\ cli = "running"
    /\ down # << >>
    /\ Head(down).kind = kind
    /\ down' = Tail(down)

\* The connections that usb_conns has under an id: one, or none.
Under(c) == {k \in held : chOf[k] = c}

\* DATA of an unknown channel is dropped, as is what is written to a closed connection.
TakesData ==
    /\ Takes("data")
    /\ got' = [got EXCEPT !["down"] =
                  [k \in Locals |-> IF k \in Under(Head(down).ch) \ localClosed
                                   THEN Append(@[k], Head(down).says) ELSE @[k]]]
    /\ UNCHANGED <<serverVars, clientVars, up, openVars, endVars, sent>>

\* Mutation: the connection is forgotten and not closed.
TakesCloseForgets ==
    /\ Takes("close")
    /\ held' = held \ Under(Head(down).ch)
    /\ UNCHANGED <<serverVars, cli, nextCh, connPc, chOf, up, openVars, endVars, sent, got>>

TakesClose ==
    /\ Takes("close")
    /\ held' = held \ Under(Head(down).ch)
    /\ localClosed' = localClosed \cup Under(Head(down).ch)
    /\ UNCHANGED <<serverVars, cli, nextCh, connPc, chOf, up, openVars, toolDone, usbipdDone,
                   sent, got>>

\* The frame loop ends with the connection, or run_connected is cancelled: _cleanup
\* closes every connection in usb_conns and the tunnel.
CleansUp ==
    /\ cli = "running" /\ MayBeLost
    /\ cli' = "ended"
    /\ localClosed' = localClosed \cup held
    /\ UNCHANGED up
    /\ \/ S!ClientCloses(Session)
       \/ Lost /\ UNCHANGED serverVars
    /\ down' = << >>
    /\ UNCHANGED <<nextCh, connPc, chOf, held, openVars, toolDone, usbipdDone, sent, got>>

-----------------------------------------------------------------------------
(* The server.                                                              *)

ServerWrites(f) == down' = IF Lost THEN down ELSE Append(down, f)

ServerKeeps == UNCHANGED <<clientVars, accepted, toolDone, localClosed>>

\* Accepting the connection and its hello; anything that ends the session.
ServerRuns ==
    /\ UNCHANGED up
    /\ \/ S!Connect(Session) \/ S!HelloAccepted(Session) \/ S!HelloFails(Session)
       \/ S!ChannelDrained(Session) \/ (MayBeLost /\ S!ChannelDrainFails(Session))
       \/ S!Replied(Session) \/ S!ReplyFails(Session) \/ S!ReadEof(Session)
    /\ ServerKeeps
    /\ UNCHANGED <<down, opener, serves, refused, usbipdDone, sent, got>>

NetworkFails ==
    /\ MayBeLost
    /\ UNCHANGED up
    /\ S!ClientCloses(Session)
    /\ down' = << >>
    /\ ServerKeeps
    /\ UNCHANGED <<opener, serves, refused, usbipdDone, sent, got>>

Receives(kind) ==
    /\ up # << >>
    /\ Head(up).kind = kind
    /\ up' = Tail(up)
    /\ ServerKeeps

ReceivesOpen ==
    /\ Receives("open")
    /\ \/ /\ S!RecvOpenUsb(Session, Head(up).ch)
          /\ opener' = Head(up).says
          /\ UNCHANGED <<down, refused>>
       \/ /\ S!RefuseOpenUsb(Session, Head(up).ch)
          /\ refused' = refused \cup {Head(up).says}
          /\ ServerWrites(Frame("close", Head(up).ch, Head(up).says))
          /\ UNCHANGED opener
    /\ UNCHANGED <<serves, usbipdDone, sent, got>>

Opens ==
    /\ UNCHANGED up
    /\ \/ /\ S!OpenDone(Session)
          /\ serves' = [p \in Pumps |-> IF pumpState'[p] # pumpState[p] THEN opener ELSE serves[p]]
          /\ UNCHANGED <<down, refused>>
       \/ /\ S!OpenFails(Session)
          /\ refused' = refused \cup {opener}
          /\ ServerWrites(Frame("close", pending[Session], opener))
          /\ UNCHANGED serves
    /\ opener' = NoConn
    /\ ServerKeeps
    /\ UNCHANGED <<usbipdDone, sent, got>>

\* DATA is written to the usbipd connection of its channel, or dropped.
ReceivesData ==
    /\ Receives("data")
    /\ LET c == Head(up).ch
           k == serves[chans[Session][c]]
       IN \/ /\ S!RecvOther(Session) /\ phase'[Session] = "loop"
             /\ IF c \in S!OpenIds(Session)
                THEN got' = [got EXCEPT !["up"][k] = Append(@, Head(up).says)]
                ELSE UNCHANGED got
          \/ /\ S!RecvDataBlocks(Session, c)
             /\ got' = [got EXCEPT !["up"][k] = Append(@, Head(up).says)]
    /\ UNCHANGED <<down, opener, serves, refused, usbipdDone, sent>>

ReceivesClose ==
    /\ Receives("close")
    /\ S!RecvClose(Session, Head(up).ch)
    /\ UNCHANGED <<down, opener, serves, refused, usbipdDone, sent, got>>

\* usbipd sends, the pump forwards.
PumpReads(p) ==
    /\ UNCHANGED up
    /\ S!PumpReads(p)
    /\ Pieces < MaxData
    /\ LET x == <<serves[p], Len(sent["down"][serves[p]]) + 1>>
       IN /\ ServerWrites(Frame("data", pumpCh[p], x))
          /\ sent' = [sent EXCEPT !["down"][serves[p]] = Append(@, x)]
    /\ ServerKeeps
    /\ UNCHANGED <<opener, serves, refused, usbipdDone, got>>

\* Mutation: the pump does not tell the client that usbipd has hung up.
PumpEndsSilently(p) ==
    /\ UNCHANGED up
    /\ S!PumpEnds(p)
    /\ usbipdDone' = IF pumpState[p] = "reading" THEN usbipdDone \cup {serves[p]} ELSE usbipdDone
    /\ ServerKeeps
    /\ UNCHANGED <<down, opener, serves, refused, sent, got>>

\* usbipd has hung up, or the tunnel was lost while the pump sends: CLOSE.
PumpEnds(p) ==
    /\ UNCHANGED up
    /\ S!PumpEnds(p)
    /\ usbipdDone' = IF pumpState[p] = "reading" THEN usbipdDone \cup {serves[p]} ELSE usbipdDone
    /\ ServerWrites(Frame("close", pumpCh[p], serves[p]))
    /\ ServerKeeps
    /\ UNCHANGED <<opener, serves, refused, sent, got>>

PumpInterrupted(p) ==
    /\ UNCHANGED up
    /\ S!PumpInterrupted(p)
    /\ ServerWrites(Frame("close", pumpCh[p], serves[p]))
    /\ ServerKeeps
    /\ UNCHANGED <<opener, serves, refused, usbipdDone, sent, got>>

PumpGoesOn(p) ==
    /\ UNCHANGED up
    /\ S!PumpStarts(p) \/ S!PumpDropped(p) \/ S!PumpSent(p) \/ S!PumpFinishes(p)
    /\ ServerKeeps
    /\ UNCHANGED <<down, opener, serves, refused, usbipdDone, sent, got>>

-----------------------------------------------------------------------------
Conn(k) == ForwardConn(k) \/ ForwardFails(k) \/ OpenSent(k) \/ ConnEnds(k) \/ ConnFinishes(k)

ClientLoop == TakesData \/ TakesClose

ServerLoop == ServerRuns \/ ReceivesOpen \/ Opens \/ ReceivesData \/ ReceivesClose

Next ==
    \/ ClientRuns \/ ClientLoop \/ CleansUp
    \/ \E k \in Locals : Accept(k) \/ Conn(k) \/ AsyncioCloses(k) \/ ToolHangsUp(k)
                        \/ ConnReads(k) \/ ConnDropped(k)
    \/ ServerLoop \/ NetworkFails
    \/ \E p \in Pumps : PumpReads(p) \/ PumpEnds(p) \/ PumpInterrupted(p) \/ PumpGoesOn(p)

Spec == Init /\ [][Next]_vars

\* What the tasks of both loops do by themselves: a loss is noticed, open_connection
\* ends, usbipd reads what it is sent or resets the connection.
Proceeds ==
    \/ ClientLoop \/ (Lost /\ CleansUp)
    \/ ServerLoop
    \/ \E k \in Locals : Conn(k)
    \/ \E p \in Pumps : \/ PumpInterrupted(p) \/ PumpGoesOn(p)
                        \/ pumpState[p] = "sending" /\ PumpEnds(p)

-----------------------------------------------------------------------------
TypeOK ==
    /\ S!TypeOK
    /\ cli \in {"off", "running", "ended"}
    /\ nextCh \in Base .. LastId + Cardinality(accepted)
    /\ connPc \in [Locals -> ConnPCs]
    /\ chOf \in [Locals -> (Base .. LastId + Cardinality(accepted)) \cup {NoId}]
    /\ held \subseteq Locals
    /\ opener \in Locals \cup {NoConn} /\ serves \in [Pumps -> Locals \cup {NoConn}]
    /\ accepted \subseteq Locals /\ refused \subseteq accepted
    /\ toolDone \subseteq accepted /\ usbipdDone \subseteq accepted
    /\ localClosed \subseteq accepted
    /\ sent \in [{"up", "down"} -> [Locals -> Seq(Payloads)]]
    /\ got \in [{"up", "down"} -> [Locals -> Seq(Payloads)]]

\* Every local connection is joined to a usbipd connection of its own, data comes out
\* as it went in, and neither end is closed before its time (client.py:243-298,
\* server.py:719-856): ids, channels, two frame loops and four kinds of tasks
\* implement what Forwarding promises.
Forwards == F!Spec

\* This client is the one ServerSession assumes when it says that a channel is never
\* closed by the pump of another: it opens no id twice (client.py:243-249).
OpensOnce == Strict!Spec

\* Between this client and this server a channel is only taken away by the client's CLOSE
\* of its id, its own pump's end or the session's cleanup, never by the late pump of an
\* earlier channel (server.py:844-856).
ChannelsKept == S!ChannelKept

\* The guards of Proceeds, none of which holds: no task has anything left to do.
AtRest ==
    /\ ~ (cli = "running" /\ (Lost \/ down # << >>))
    /\ phase[Session] \in {"idle", "loop", "done"}
    /\ phase[Session] = "loop" => up = << >> /\ ~ Lost
    /\ \A k \in Locals : connPc[k] \notin {"opening", "closing"}
    /\ \A k \in Locals :
          connPc[k] = "pumping" /\ k \in toolDone => ~ Lost /\ Len(up) >= MaxInFlight

\* Both ends of a connection are closed once one of its peers has hung up.
HungUp ==
    /\ \A p \in Pumps : serves[p] \in toolDone => p \notin sockets
    /\ usbipdDone \subseteq localClosed

\* A hang-up at one end reaches the other: when no task has anything left to do, no
\* end is still open whose peer has hung up, whatever crossed on the way
\* (client.py:264-270, 288-296, server.py:732-733, 827-856).
HangUpsArrive ==
    /\ ~ ENABLED Proceeds => AtRest
    /\ AtRest => HungUp
=============================================================================
