--------------------------- MODULE ServerSession ---------------------------
(***************************************************************************)
(* The sessions of a usbferry server (src/usbferry/server.py): one handler *)
(* task per accepted TLS connection (_handle_client, then _frame_loop),    *)
(* one pump task per 'usbip' channel (_usbip_pump), the keepalive task     *)
(* (_keepalive_loop) and stop().  All of them are asyncio tasks of a       *)
(* single loop: what one of them does between two suspension points is one *)
(* action, and every await that can suspend is a phase of its own.         *)
(*                                                                         *)
(* The client is the environment: it sends frames, closes, or vanishes     *)
(* without a FIN.  What a frame says is chosen when it is read.            *)
(***************************************************************************)
EXTENDS Naturals, FiniteSets

CONSTANTS
    Sessions,     \* the connections ever accepted, each handled once
    Pumps,        \* the usbipd connections ever made, each with its pump task
    UsbIds,       \* the channel ids a client opens as 'usbip'
    LanIds,       \* the channel ids a client opens as 'lan'
    NoPump,       \* no channel registered under an id
    NoId,         \* no channel id
    NoSession,    \* a pump not yet created
    MaxChannels,  \* server.max_channels
    KickAge,      \* keepalive timeout, in intervals
    MaxUnread,    \* bound: frames received and not yet read, per session
    ReuseIds,     \* may a client open an id again once it was used?
    AwaitsConns   \* does wait_closed() wait for open connections (3.12 and later)?

Ids == UsbIds \cup LanIds

ASSUME ConstantsAssumption ==
    /\ NoPump \notin Pumps
    /\ NoId \notin Ids
    /\ NoSession \notin Sessions
    /\ IsFiniteSet(Ids)
    /\ MaxChannels \in Nat
    /\ KickAge \in Nat
    /\ MaxUnread \in Nat
    /\ ReuseIds \in BOOLEAN
    /\ AwaitsConns \in BOOLEAN

VARIABLES
    server,      \* "running", "stopping" (in wait_closed) or "stopped"
    phase,       \* where the handler of each session is suspended
    conn,        \* the tunnel connection, as the server's transport has it
    unread,      \* frames received and not yet read by the frame loop
    age,         \* keepalive intervals since last_seen
    pending,     \* the id of the OPEN whose open_connection is awaited
    closed,      \* sessions with session.closed set
    registered,  \* server.sessions
    chans,       \* session.channels: the pump registered under each id
    lanCh,       \* session.lan_ch
    lanMembers,  \* lan.sessions
    lanActive,   \* lan.active
    pumpState,   \* where each pump task is suspended
    pumpSession, \* the session a pump was created for
    pumpCh,      \* the channel id a pump was created for
    cancelled,   \* pump tasks with a cancellation not yet delivered
    sockets      \* usbipd connections whose writer is not closed

handlerVars == <<phase, conn, unread, age, pending>>
channelVars == <<chans, lanCh, lanMembers, cancelled, sockets>>
pumpVars    == <<pumpState, pumpSession, pumpCh>>
serverVars  == <<server, closed, registered, lanActive>>
vars == <<handlerVars, channelVars, pumpVars, serverVars>>

Phases == {"idle",      \* not accepted yet
           "hello",     \* awaiting the hello line
           "loop",      \* awaiting a frame
           "replying",  \* awaiting a reply's drain, or list_devices and its drain
           "opening",   \* awaiting open_connection to usbipd
           "chdrain",   \* awaiting the drain of a channel's usbipd writer
           "done"}

Conns == {"none", "up", "silent", "lost"}

PumpStates == {"free", "created", "reading", "sending", "closing", "done"}

Init ==
    /\ server = "running"
    /\ phase = [s \in Sessions |-> "idle"]
    /\ conn = [s \in Sessions |-> "none"]
    /\ unread = [s \in Sessions |-> 0]
    /\ age = [s \in Sessions |-> 0]
    /\ pending = [s \in Sessions |-> NoId]
    /\ closed = {}
    /\ registered = {}
    /\ chans = [s \in Sessions |-> [c \in Ids |-> NoPump]]
    /\ lanCh = [s \in Sessions |-> NoId]
    /\ lanMembers = {}
    /\ lanActive \in BOOLEAN
    /\ pumpState = [p \in Pumps |-> "free"]
    /\ pumpSession = [p \in Pumps |-> NoSession]
    /\ pumpCh = [p \in Pumps |-> NoId]
    /\ cancelled = {}
    /\ sockets = {}

-----------------------------------------------------------------------------
(* Closing a channel, and a session.                                       *)

LivePumps == {p \in Pumps : pumpState[p] \notin {"free", "done"}}

\* session.channels, as the set of its keys
OpenIds(s) == {c \in Ids : chans[s][c] # NoPump}

\* Mutation: the writer of a usbip channel is not closed with it.
CloseChannelKeepsWriter(s, c) ==
    \/ /\ lanCh[s] = c
       /\ lanCh' = [lanCh EXCEPT ![s] = NoId]
       /\ lanMembers' = lanMembers \ {s}
       /\ UNCHANGED <<chans, sockets, cancelled>>
    \/ /\ lanCh[s] # c
       /\ chans' = [chans EXCEPT ![s][c] = NoPump]
       /\ cancelled' = cancelled \cup ({chans[s][c]} \cap LivePumps)
       /\ UNCHANGED <<lanCh, lanMembers, sockets>>

\* Mutation: lan_ch is not reset when the LAN is left.
CloseChannelKeepsLanCh(s, c) ==
    \/ /\ lanCh[s] = c
       /\ lanMembers' = lanMembers \ {s}
       /\ UNCHANGED <<chans, lanCh, sockets, cancelled>>
    \/ /\ lanCh[s] # c
       /\ chans' = [chans EXCEPT ![s][c] = NoPump]
       /\ sockets' = sockets \ {chans[s][c]}
       /\ cancelled' = cancelled \cup ({chans[s][c]} \cap LivePumps)
       /\ UNCHANGED <<lanCh, lanMembers>>

\* The lan id is tested first: a usbip channel under the same id is left alone.
CloseChannel(s, c) ==
    \/ /\ lanCh[s] = c
       /\ lanCh' = [lanCh EXCEPT ![s] = NoId]
       /\ lanMembers' = lanMembers \ {s}
       /\ UNCHANGED <<chans, sockets, cancelled>>
    \/ /\ lanCh[s] # c
       /\ chans' = [chans EXCEPT ![s][c] = NoPump]
       /\ sockets' = sockets \ {chans[s][c]}
       /\ cancelled' = cancelled \cup ({chans[s][c]} \cap LivePumps)
       /\ UNCHANGED <<lanCh, lanMembers>>

\* The pumps whose channels a cleanup of the sessions S pops.
Popped(S) ==
    {p \in Pumps : \E s \in S, c \in Ids : chans[s][c] = p /\ lanCh[s] # c}

\* _cleanup_session of every session in S; it never suspends.  lan_ch is reset
\* only where a channel has its id.
Cleanup(S) ==
    /\ closed' = closed \cup S
    /\ registered' = registered \ S
    /\ chans' = [s \in Sessions |->
                   IF s \in S
                   THEN [c \in Ids |-> IF lanCh[s] = c THEN chans[s][c] ELSE NoPump]
                   ELSE chans[s]]
    /\ sockets' = sockets \ Popped(S)
    /\ cancelled' = cancelled \cup (Popped(S) \cap LivePumps)
    /\ lanMembers' = lanMembers \ {s \in S : lanCh[s] # NoId}
    /\ lanCh' = [s \in Sessions |->
                   IF s \in S /\ lanCh[s] \in OpenIds(s) THEN NoId ELSE lanCh[s]]
    /\ conn' = [s \in Sessions |-> IF s \in S THEN "lost" ELSE conn[s]]

\* Mutation: the handler ends without its finally.
ExitWithoutCleanup(s) ==
    /\ phase' = [phase EXCEPT ![s] = "done"]
    /\ UNCHANGED <<conn, age, pending, channelVars, pumpVars, serverVars>>

\* Mutation: a session that ends on a lost connection is taken for cleaned up.
ExitCleansLiveOnly(s) ==
    /\ phase' = [phase EXCEPT ![s] = "done"]
    /\ Cleanup({s} \ (closed \cup {r \in Sessions : conn[r] = "lost"}))
    /\ UNCHANGED <<age, pending, pumpVars, server, lanActive>>

\* The handler leaves through its finally: the cleanup, unless already done.
Exit(s) ==
    /\ phase' = [phase EXCEPT ![s] = "done"]
    /\ Cleanup({s} \ closed)
    /\ UNCHANGED <<age, pending, pumpVars, server, lanActive>>

-----------------------------------------------------------------------------
(* The client and its connection.                                          *)

\* asyncio.start_server accepts and starts _handle_client
Connect(s) ==
    /\ server = "running"
    /\ phase[s] = "idle"
    /\ phase' = [phase EXCEPT ![s] = "hello"]
    /\ conn' = [conn EXCEPT ![s] = "up"]
    /\ UNCHANGED <<unread, age, pending, channelVars, pumpVars, serverVars>>

ClientSends(s) ==
    /\ conn[s] = "up"
    /\ phase[s] # "hello"
    /\ unread[s] < MaxUnread
    /\ unread' = [unread EXCEPT ![s] = @ + 1]
    /\ UNCHANGED <<phase, conn, age, pending, channelVars, pumpVars, serverVars>>

\* A FIN or a reset reaches the server.
ClientCloses(s) ==
    /\ conn[s] \in {"up", "silent"}
    /\ conn' = [conn EXCEPT ![s] = "lost"]
    /\ UNCHANGED <<phase, unread, age, pending, channelVars, pumpVars, serverVars>>

\* The peer is gone and nothing says so: no frame, no FIN.
ClientVanishes(s) ==
    /\ conn[s] = "up"
    /\ conn' = [conn EXCEPT ![s] = "silent"]
    /\ UNCHANGED <<phase, unread, age, pending, channelVars, pumpVars, serverVars>>

-----------------------------------------------------------------------------
(* The handler: hello, then one frame at a time.                           *)

\* The welcome is far below the write buffer's limit: its drain does not suspend.
HelloAccepted(s) ==
    /\ phase[s] = "hello"
    /\ phase' = [phase EXCEPT ![s] = "loop"]
    /\ registered' = registered \cup {s}
    /\ UNCHANGED <<conn, unread, age, pending, channelVars, pumpVars,
                   server, closed, lanActive>>

\* Wrong token, 15 s without a line, end of stream, LAN pool exhausted.
HelloFails(s) ==
    /\ phase[s] = "hello"
    /\ Exit(s)
    /\ UNCHANGED unread

\* A frame is read, which sets last_seen, and the handler moves on to `next`.
Read(s, next) ==
    /\ phase[s] = "loop"
    /\ unread[s] > 0
    /\ unread' = [unread EXCEPT ![s] = @ - 1]
    /\ age' = [age EXCEPT ![s] = 0]
    /\ phase' = [phase EXCEPT ![s] = next]
    /\ UNCHANGED conn

\* PING (answered), CTRL (answered, or dropped), PONG, DATA for no channel or
\* for the LAN, an OPEN of an unknown type: no channel changes.
RecvOther(s) ==
    /\ \E next \in {"loop", "replying"} : Read(s, next)
    /\ UNCHANGED <<pending, channelVars, pumpVars, serverVars>>

\* An unknown frame type or an oversized frame raises ProtocolError.
RecvInvalid(s) ==
    /\ phase[s] = "loop"
    /\ unread[s] > 0
    /\ unread' = [unread EXCEPT ![s] = @ - 1]
    /\ Exit(s)

\* An id the model lets the client open (see ReuseIds).
MayOpen(s, c) ==
    ReuseIds \/ ~ \E p \in Pumps : pumpSession[p] = s /\ pumpCh[p] = c

\* Mutation: one channel too many.
RecvOpenUsbOverCap(s, c) ==
    /\ MayOpen(s, c)
    /\ c \notin OpenIds(s)
    /\ Cardinality(OpenIds(s)) <= MaxChannels
    /\ Read(s, "opening")
    /\ pending' = [pending EXCEPT ![s] = c]
    /\ UNCHANGED <<channelVars, pumpVars, serverVars>>

\* OPEN of a 'usbip' channel: the checks come before open_connection is awaited.
RecvOpenUsb(s, c) ==
    /\ MayOpen(s, c)
    /\ c \notin OpenIds(s)
    /\ Cardinality(OpenIds(s)) < MaxChannels
    /\ Read(s, "opening")
    /\ pending' = [pending EXCEPT ![s] = c]
    /\ UNCHANGED <<channelVars, pumpVars, serverVars>>

\* "bad channel" is answered without a drain, "too many channels" with one.
RefuseOpenUsb(s, c) ==
    /\ \/ c \in OpenIds(s) /\ Read(s, "loop")
       \/ /\ c \notin OpenIds(s)
          /\ Cardinality(OpenIds(s)) >= MaxChannels
          /\ Read(s, "replying")
    /\ UNCHANGED <<pending, channelVars, pumpVars, serverVars>>

\* open_connection returned: the channel is registered and its pump scheduled.
OpenDone(s) ==
    /\ phase[s] = "opening"
    /\ \E p \in Pumps :
         /\ pumpState[p] = "free"
         /\ pumpState' = [pumpState EXCEPT ![p] = "created"]
         /\ pumpSession' = [pumpSession EXCEPT ![p] = s]
         /\ pumpCh' = [pumpCh EXCEPT ![p] = pending[s]]
         /\ chans' = [chans EXCEPT ![s][pending[s]] = p]
         /\ sockets' = sockets \cup {p}
    /\ pending' = [pending EXCEPT ![s] = NoId]
    /\ phase' = [phase EXCEPT ![s] = "loop"]
    /\ UNCHANGED <<conn, unread, age, lanCh, lanMembers, cancelled, serverVars>>

\* OSError; an unavailable usbip manager is answered the same way.
OpenFails(s) ==
    /\ phase[s] = "opening"
    /\ pending' = [pending EXCEPT ![s] = NoId]
    /\ phase' = [phase EXCEPT ![s] = "replying"]
    /\ UNCHANGED <<conn, unread, age, channelVars, pumpVars, serverVars>>

RecvOpenLan(s, c) ==
    /\ c \notin OpenIds(s)
    /\ lanActive
    /\ lanCh[s] = NoId
    /\ Read(s, "loop")
    /\ lanCh' = [lanCh EXCEPT ![s] = c]
    /\ lanMembers' = lanMembers \cup {s}
    /\ UNCHANGED <<pending, chans, cancelled, sockets, pumpVars, serverVars>>

RefuseOpenLan(s, c) ==
    /\ \/ c \in OpenIds(s) /\ Read(s, "loop")
       \/ /\ c \notin OpenIds(s)
          /\ ~ lanActive \/ lanCh[s] # NoId
          /\ Read(s, "replying")
    /\ UNCHANGED <<pending, channelVars, pumpVars, serverVars>>

RecvClose(s, c) ==
    /\ Read(s, "loop")
    /\ CloseChannel(s, c)
    /\ UNCHANGED <<pending, pumpVars, serverVars>>

\* DATA for a usbip channel whose writer holds more than 256 KiB: the loop
\* awaits that writer's drain (below the limit the frame is RecvOther).
RecvDataBlocks(s, c) ==
    /\ c \in OpenIds(s)
    /\ ~ (lanCh[s] = c /\ lanActive)
    /\ Read(s, "chdrain")
    /\ UNCHANGED <<pending, channelVars, pumpVars, serverVars>>

\* usbipd reads what was written ...
ChannelDrained(s) ==
    /\ phase[s] = "chdrain"
    /\ phase' = [phase EXCEPT ![s] = "loop"]
    /\ UNCHANGED <<conn, unread, age, pending, channelVars, pumpVars, serverVars>>

\* ... or resets the connection, and drain raises in the handler.
ChannelDrainFails(s) ==
    /\ phase[s] = "chdrain"
    /\ Exit(s)
    /\ UNCHANGED unread

Replied(s) ==
    /\ phase[s] = "replying"
    /\ phase' = [phase EXCEPT ![s] = "loop"]
    /\ UNCHANGED <<conn, unread, age, pending, channelVars, pumpVars, serverVars>>

ReplyFails(s) ==
    /\ phase[s] = "replying"
    /\ conn[s] = "lost"
    /\ Exit(s)
    /\ UNCHANGED unread

\* End of stream, or a reset that discards what was not read.
ReadEof(s) ==
    /\ phase[s] = "loop"
    /\ conn[s] = "lost"
    /\ Exit(s)
    /\ UNCHANGED unread

-----------------------------------------------------------------------------
(* The pump of a usbip channel.                                            *)

PumpGoes(p, from, to) ==
    /\ pumpState[p] = from
    /\ pumpState' = [pumpState EXCEPT ![p] = to]
    /\ UNCHANGED <<pumpSession, pumpCh, handlerVars, serverVars>>

PumpStarts(p) ==
    /\ p \notin cancelled
    /\ PumpGoes(p, "created", "reading")
    /\ UNCHANGED channelVars

\* Cancelled before its first step: neither the body nor the finally runs.
PumpDropped(p) ==
    /\ p \in cancelled
    /\ PumpGoes(p, "created", "done")
    /\ cancelled' = cancelled \ {p}
    /\ UNCHANGED <<chans, lanCh, lanMembers, sockets>>

\* usbipd sent data: it is written to the tunnel, whose drain is awaited.
PumpReads(p) ==
    /\ p \notin cancelled
    /\ PumpGoes(p, "reading", "sending")
    /\ UNCHANGED channelVars

PumpSent(p) ==
    /\ p \notin cancelled
    /\ PumpGoes(p, "sending", "reading")
    /\ UNCHANGED channelVars

\* usbipd closed or reset the connection the pump reads; or the tunnel was lost while
\* it sends, which a pump that reads does not see.  The finally writes CLOSE and awaits
\* its drain.
PumpEnds(p) ==
    /\ p \notin cancelled
    /\ \/ PumpGoes(p, "reading", "closing")
       \/ PumpGoes(p, "sending", "closing") /\ conn[pumpSession[p]] = "lost"
    /\ UNCHANGED channelVars

\* CancelledError is delivered, which runs the finally all the same.
PumpInterrupted(p) ==
    /\ p \in cancelled
    /\ \E from \in {"reading", "sending"} : PumpGoes(p, from, "closing")
    /\ cancelled' = cancelled \ {p}
    /\ UNCHANGED <<chans, lanCh, lanMembers, sockets>>

\* Mutation: the channel is not closed when its pump ends.
PumpFinishesOnly(p) ==
    /\ PumpGoes(p, "closing", "done")
    /\ UNCHANGED channelVars

\* Mutation: the pump closes some channel of its session, not the one it was
\* created for (a variable bound late).
PumpFinishesAny(p) ==
    /\ PumpGoes(p, "closing", "done")
    /\ \E c \in {pumpCh[p]} \cup OpenIds(pumpSession[p]) : CloseChannel(pumpSession[p], c)

\* The drain of CLOSE returned, or raised (a cancellation too is swallowed):
\* _close_channel is called with the pump's id, whatever is under it by now.
PumpFinishes(p) ==
    /\ PumpGoes(p, "closing", "done")
    /\ CloseChannel(pumpSession[p], pumpCh[p])

-----------------------------------------------------------------------------
(* Keepalive, the tap, stop().                                             *)

\* Mutation: a session past its timeout is only counted on.
TickCountsOn ==
    /\ server = "running"
    /\ age' = [s \in Sessions |-> IF s \in registered THEN age[s] + 1 ELSE age[s]]
    /\ UNCHANGED <<phase, conn, unread, pending, channelVars, pumpVars, serverVars>>

\* Mutation: a session at the timeout is never past it.
TickNeverKicks ==
    /\ server = "running"
    /\ age' = [s \in Sessions |->
                  IF s \in registered /\ age[s] <= KickAge THEN age[s] + 1 ELSE age[s]]
    /\ UNCHANGED <<phase, conn, unread, pending, channelVars, pumpVars, serverVars>>

\* Every interval: PING, or kick() the sessions whose last_seen is too old.
\* kick() only closes the writer; the handler has to notice.
Tick ==
    /\ server = "running"
    /\ conn' = [s \in Sessions |->
                  IF s \in registered /\ age[s] > KickAge THEN "lost" ELSE conn[s]]
    /\ age' = [s \in Sessions |->
                  IF s \in registered /\ age[s] <= KickAge THEN age[s] + 1 ELSE age[s]]
    /\ UNCHANGED <<phase, unread, pending, channelVars, pumpVars, serverVars>>

\* lan._pump ends: the tap closed or its reader crashed.
LanTapClosed ==
    /\ lanActive
    /\ lanActive' = FALSE
    /\ UNCHANGED <<handlerVars, channelVars, pumpVars, server, closed, registered>>

\* stop() up to wait_closed: no suspension, so all registered sessions at once.
Stop ==
    /\ server = "running"
    /\ server' = "stopping"
    /\ Cleanup(registered \ closed)
    /\ UNCHANGED <<phase, unread, age, pending, pumpVars, lanActive>>

\* wait_closed returned; lan.stop() cancels the tap pump.
StopDone ==
    /\ server = "stopping"
    /\ AwaitsConns => \A s \in Sessions : conn[s] \in {"none", "lost"}
    /\ server' = "stopped"
    /\ lanActive' = FALSE
    /\ UNCHANGED <<handlerVars, channelVars, pumpVars, closed, registered>>

-----------------------------------------------------------------------------
Client(s) == Connect(s) \/ ClientSends(s) \/ ClientCloses(s) \/ ClientVanishes(s)

RecvFrame(s) ==
    \/ RecvOther(s)
    \/ RecvInvalid(s)
    \/ \E c \in UsbIds : RecvOpenUsb(s, c) \/ RefuseOpenUsb(s, c)
    \/ \E c \in LanIds : RecvOpenLan(s, c) \/ RefuseOpenLan(s, c)
    \/ \E c \in Ids : RecvClose(s, c) \/ RecvDataBlocks(s, c)

Handler(s) ==
    \/ HelloAccepted(s) \/ HelloFails(s)
    \/ RecvFrame(s) \/ ReadEof(s)
    \/ OpenDone(s) \/ OpenFails(s)
    \/ ChannelDrained(s) \/ ChannelDrainFails(s)
    \/ Replied(s) \/ ReplyFails(s)

Pump(p) ==
    \/ PumpStarts(p) \/ PumpDropped(p) \/ PumpReads(p) \/ PumpSent(p)
    \/ PumpEnds(p) \/ PumpInterrupted(p) \/ PumpFinishes(p)

Next ==
    \/ \E s \in Sessions : Client(s) \/ Handler(s)
    \/ \E p \in Pumps : Pump(p)
    \/ Tick \/ LanTapClosed \/ Stop \/ StopDone

Spec == Init /\ [][Next]_vars

-----------------------------------------------------------------------------
(* What the scheduling gives: the event loop runs every task that is ready, *)
(* the keepalive sleep ends, open_connection returns or raises, and a drain *)
(* ends unless its peer does not read.  usbipd need never send or hang up:   *)
(* a pump that reads goes on only when it is cancelled.                      *)

HandlerProceeds(s) ==
    \/ ReadEof(s) \/ ReplyFails(s)
    \/ conn[s] # "silent" /\ Replied(s)
    \/ OpenDone(s) \/ OpenFails(s)
    \/ HelloFails(s)

PumpProceeds(p) ==
    \/ PumpStarts(p) \/ PumpDropped(p) \/ PumpInterrupted(p)
    \/ pumpState[p] = "sending" /\ PumpEnds(p)
    \/ PumpFinishes(p) /\ (conn[pumpSession[p]] # "silent" \/ p \in cancelled)

HandlerFairness(s) == WF_vars(HandlerProceeds(s))
PumpFairness(p) == WF_vars(PumpProceeds(p))

HandlersFair == \A s \in Sessions : HandlerFairness(s)
PumpsFair == \A p \in Pumps : PumpFairness(p)

ServerFairness == HandlersFair /\ PumpsFair /\ WF_vars(Tick)

\* usbipd reads what it is sent, or resets the connection.
DrainFairness(s) == WF_vars(ChannelDrained(s) \/ ChannelDrainFails(s))
UsbipdFairness == \A s \in Sessions : DrainFairness(s)

\* The tasks of the server are scheduled, and usbipd never stops reading for good.
FairSpec == Spec /\ ServerFairness /\ UsbipdFairness

-----------------------------------------------------------------------------
(* Properties.                                                             *)

HandlerTypeOK ==
    /\ phase \in [Sessions -> Phases]
    /\ conn \in [Sessions -> Conns]
    /\ unread \in [Sessions -> 0 .. MaxUnread]
    /\ age \in [Sessions -> 0 .. KickAge + 1]
    /\ pending \in [Sessions -> Ids \cup {NoId}]

ChannelTypeOK ==
    /\ chans \in [Sessions -> [Ids -> Pumps \cup {NoPump}]]
    /\ lanCh \in [Sessions -> LanIds \cup {NoId}]
    /\ lanMembers \subseteq Sessions
    /\ cancelled \subseteq Pumps
    /\ sockets \subseteq Pumps

PumpTypeOK ==
    /\ pumpState \in [Pumps -> PumpStates]
    /\ pumpSession \in [Pumps -> Sessions \cup {NoSession}]
    /\ pumpCh \in [Pumps -> Ids \cup {NoId}]

ServerTypeOK ==
    /\ server \in {"running", "stopping", "stopped"}
    /\ closed \subseteq Sessions
    /\ registered \subseteq Sessions
    /\ lanActive \in BOOLEAN

TypeOK == HandlerTypeOK /\ ChannelTypeOK /\ PumpTypeOK /\ ServerTypeOK

\* The ids a client uses for the two channel types do not overlap: client.py
\* opens the LAN as 1 and usbip from 100 on.  The server does not check it.
DisjointIds == UsbIds \cap LanIds = {}

RegisteredAs(p, s, c) == chans[s][c] = p

\* Nothing is orphaned: an open usbipd connection, and a pump task that nobody
\* has cancelled and that is not on its way out, is registered under its own
\* session and id, so that the session's cleanup will find it.  The OPEN checks
\* its id and only then awaits open_connection (server.py:780-809): a second
\* channel under the id would overwrite the first.
NothingOrphaned ==
    \A p \in Pumps :
        \/ p \in sockets
        \/ pumpState[p] \in {"created", "reading", "sending"} /\ p \notin cancelled
        => pumpSession[p] \in Sessions /\ RegisteredAs(p, pumpSession[p], pumpCh[p])

\* No zombie channel: what is registered under an id is the channel opened for
\* it, its writer is open, and its pump runs (server.py:827-856).  A channel
\* that outlived its pump would swallow DATA and count against max_channels.
Serves(p, s, c) ==
    /\ pumpSession[p] = s /\ pumpCh[p] = c
    /\ p \in sockets
    /\ pumpState[p] \in {"created", "reading", "sending", "closing"}
    /\ p \notin cancelled

ChannelsLive ==
    \A s \in Sessions : \A c \in OpenIds(s) : Serves(chans[s][c], s, c)

\* The cap on a session's channels counts the one being opened: it is tested
\* before the await and the channel registered after it (server.py:791-809).
Occupied(s) == OpenIds(s) \cup ({pending[s]} \ {NoId})

ChannelCap == \A s \in Sessions : Cardinality(Occupied(s)) <= MaxChannels

\* The handler's end leaves nothing behind: no channel, no usbipd connection, no
\* LAN membership, no registration (server.py:716-717, 858-873).
FullyTornDown(s) ==
    /\ OpenIds(s) = {}
    /\ \A p \in sockets : pumpSession[p] # s
    /\ s \notin lanMembers
    /\ s \notin registered

TornDown == \A s \in Sessions : phase[s] = "done" => FullyTornDown(s)

\* The same while the server has not been told to stop (stop() may clean a session
\* up while its handler is suspended, server.py:657-658).
TornDownWhileRunning == server = "running" => TornDown

\* The LAN broadcasts to the sessions that have a lan channel, and to no other
\* (server.py:412-420, 819-820, 847-850, 864-865).
LanMembersOpen ==
    \A s \in Sessions : s \notin closed => (s \in lanMembers <=> lanCh[s] # NoId)

-----------------------------------------------------------------------------
(* The inductive strengthening of the invariants above (proved, with them, *)
(* in ServerSessionProofs).                                                *)

\* While open_connection is awaited, the id that was checked stays free: only
\* this handler registers channels of its session.
OpeningInv ==
    \A s \in Sessions :
        /\ phase[s] = "opening" => pending[s] \in UsbIds /\ chans[s][pending[s]] = NoPump
        /\ phase[s] # "opening" => pending[s] = NoId

PumpInv ==
    \A p \in Pumps :
        /\ pumpState[p] # "free" => pumpSession[p] \in Sessions /\ pumpCh[p] \in UsbIds
        /\ pumpState[p] = "free" => p \notin cancelled
        /\ pumpState[p] \in {"free", "done"} => p \notin sockets

\* Until stop(), a session is closed exactly when its handler has ended, and has
\* nothing left then.
ClosedInv ==
    server = "running" =>
        \A s \in Sessions :
            /\ s \in closed <=> phase[s] = "done"
            /\ s \in closed => OpenIds(s) = {} /\ s \notin lanMembers /\ s \notin registered

\* A client that never reuses an id never has two pumps for it.
IdsUsedOnce ==
    ~ ReuseIds =>
        /\ \A p, q \in Pumps :
              (/\ pumpState[p] # "free" /\ pumpState[q] # "free"
               /\ pumpSession[p] = pumpSession[q] /\ pumpCh[p] = pumpCh[q]) => p = q
        /\ \A s \in Sessions, p \in Pumps :
              phase[s] = "opening" => ~ (pumpSession[p] = s /\ pumpCh[p] = pending[s])

ChannelInv == PumpInv /\ ChannelsLive /\ NothingOrphaned
SessionInv == OpeningInv /\ ClosedInv /\ LanMembersOpen
IndInv == TypeOK /\ ChannelInv /\ SessionInv

-----------------------------------------------------------------------------
(* Action and liveness properties.                                         *)

\* A channel is taken away from its session only by the client's CLOSE of its
\* id, by its own pump's end, or by the cleanup of the session: never by the
\* pump of another, earlier channel (server.py:844).
ChannelKept ==
    [][\A s \in Sessions : \A c \in OpenIds(s) :
          chans'[s][c] # chans[s][c] =>
              \/ RecvClose(s, c)
              \/ s \in closed' \ closed
              \/ pumpState'[chans[s][c]] = "done"]_vars

\* A client that vanished is found out: keepalive kicks it and its session is
\* removed (server.py:875-889), unless stop() comes first.
DeadReaped ==
    \A s \in Sessions :
        (s \in registered /\ conn[s] = "silent")
            ~> (s \notin registered \/ server # "running")

\* A channel that was being opened while stop() closed its session is registered
\* afterwards, and the handler's own cleanup returns at once (server.py:657-658,
\* 808-809, 859-860): nobody cancels its pump, which waits for usbipd.
Stranded(p) ==
    /\ server # "running"
    /\ pumpSession[p] \in closed
    /\ RegisteredAs(p, pumpSession[p], pumpCh[p])

\* Every pump of a session ends after its handler has, in whatever state the handler
\* left it and although usbipd may never send again (server.py:716-717, 827-856):
\* only a channel that stop() missed keeps its task and its usbipd connection.
PumpsEnd ==
    \A s \in Sessions :
        phase[s] = "done"
            ~> (\A p \in Pumps : pumpSession[p] = s => pumpState[p] = "done" \/ Stranded(p))
=============================================================================
