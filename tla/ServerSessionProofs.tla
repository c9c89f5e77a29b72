------------------------ MODULE ServerSessionProofs ------------------------
(***************************************************************************)
(* What ServerSession guarantees for any number of sessions, channels and  *)
(* ids.  The one assumption besides ConstantsAssumption is DisjointIds,    *)
(* where a theorem names it.                                               *)
(***************************************************************************)
EXTENDS ServerSession, FiniteSetTheorems, TLAPS

\* A group of variables that a step leaves alone keeps its types.
LEMMA TypeFrame ==
    /\ HandlerTypeOK /\ UNCHANGED handlerVars => HandlerTypeOK'
    /\ ChannelTypeOK /\ UNCHANGED channelVars => ChannelTypeOK'
    /\ PumpTypeOK /\ UNCHANGED pumpVars => PumpTypeOK'
    /\ ServerTypeOK /\ UNCHANGED serverVars => ServerTypeOK'
<1>1. HandlerTypeOK /\ UNCHANGED handlerVars => HandlerTypeOK'
  BY DEF HandlerTypeOK, handlerVars
<1>2. ChannelTypeOK /\ UNCHANGED channelVars => ChannelTypeOK'
  BY DEF ChannelTypeOK, channelVars
<1>3. PumpTypeOK /\ UNCHANGED pumpVars => PumpTypeOK'
  BY DEF PumpTypeOK, pumpVars
<1>4. ServerTypeOK /\ UNCHANGED serverVars => ServerTypeOK'
  BY DEF ServerTypeOK, serverVars
<1> QED BY <1>1, <1>2, <1>3, <1>4

\* A cleanup, whatever sessions it is for, keeps the types.
LEMMA CleanupType ==
    ASSUME NEW S \in SUBSET Sessions, TypeOK, Cleanup(S)
    PROVE  /\ ChannelTypeOK'
           /\ closed' \subseteq Sessions
           /\ registered' \subseteq Sessions
           /\ conn' \in [Sessions -> Conns]
<1> USE DEF Cleanup, TypeOK
<1>1. chans' \in [Sessions -> [Ids -> Pumps \cup {NoPump}]]
  BY DEF ChannelTypeOK
<1>2. lanCh' \in [Sessions -> LanIds \cup {NoId}]
  BY DEF ChannelTypeOK
<1>3. lanMembers' \subseteq Sessions /\ cancelled' \subseteq Pumps /\ sockets' \subseteq Pumps
  BY DEF ChannelTypeOK, Popped
<1>4. closed' \subseteq Sessions /\ registered' \subseteq Sessions
  BY DEF ServerTypeOK
<1>5. conn' \in [Sessions -> Conns]
  BY DEF HandlerTypeOK, Conns
<1> QED BY <1>1, <1>2, <1>3, <1>4, <1>5 DEF ChannelTypeOK

LEMMA CloseChannelType ==
    ASSUME NEW s, NEW c, ChannelTypeOK, CloseChannel(s, c)
    PROVE  ChannelTypeOK'
<1>1. CASE lanCh[s] = c
  BY <1>1 DEF CloseChannel, ChannelTypeOK
<1>2. CASE lanCh[s] # c
  BY <1>2 DEF CloseChannel, ChannelTypeOK, LivePumps
<1> QED BY <1>1, <1>2

LEMMA ReadType ==
    ASSUME NEW s \in Sessions, NEW next \in Phases, HandlerTypeOK, Read(s, next)
    PROVE  pending' \in [Sessions -> Ids \cup {NoId}] => HandlerTypeOK'
<1>1. unread' \in [Sessions -> 0 .. MaxUnread]
  <2>1. unread[s] - 1 \in 0 .. MaxUnread
    BY ConstantsAssumption DEF HandlerTypeOK, Read
  <2> QED BY <2>1 DEF HandlerTypeOK, Read
<1>2. age' \in [Sessions -> 0 .. KickAge + 1]
  <2>1. 0 \in 0 .. KickAge + 1
    BY ConstantsAssumption
  <2> QED BY <2>1 DEF HandlerTypeOK, Read
<1>3. phase' \in [Sessions -> Phases] /\ conn' \in [Sessions -> Conns]
  BY DEF HandlerTypeOK, Read
<1> QED BY <1>1, <1>2, <1>3 DEF HandlerTypeOK

LEMMA TypeInit == Init => TypeOK
  BY ConstantsAssumption DEF Init, TypeOK, HandlerTypeOK, ChannelTypeOK, PumpTypeOK,
       ServerTypeOK, Phases, Conns, PumpStates

LEMMA TypeStep == TypeOK /\ [Next]_vars => TypeOK'
<1> SUFFICES ASSUME TypeOK, [Next]_vars PROVE TypeOK'
  OBVIOUS
<1> HandlerTypeOK /\ ChannelTypeOK /\ PumpTypeOK /\ ServerTypeOK
  BY DEF TypeOK
<1>1. ASSUME NEW s \in Sessions, Client(s) PROVE TypeOK'
  <2>1. UNCHANGED <<channelVars, pumpVars, serverVars>>
    BY <1>1 DEF Client, Connect, ClientSends, ClientCloses, ClientVanishes
  <2>2. HandlerTypeOK'
    BY <1>1, ConstantsAssumption DEF Client, Connect, ClientSends, ClientCloses,
         ClientVanishes, HandlerTypeOK, Phases, Conns
  <2> QED BY <2>1, <2>2, TypeFrame DEF TypeOK
<1>2. ASSUME NEW s \in Sessions, Exit(s), unread' \in [Sessions -> 0 .. MaxUnread]
      PROVE  TypeOK'
  <2>1. Cleanup({s} \ closed) /\ UNCHANGED <<age, pending, pumpVars, server, lanActive>>
    BY <1>2 DEF Exit
  <2>2. /\ ChannelTypeOK' /\ closed' \subseteq Sessions /\ registered' \subseteq Sessions
        /\ conn' \in [Sessions -> Conns]
    BY <2>1, CleanupType
  <2>3. HandlerTypeOK'
    BY <1>2, <2>1, <2>2 DEF Exit, HandlerTypeOK, Phases
  <2>4. ServerTypeOK'
    BY <2>1, <2>2 DEF ServerTypeOK
  <2> QED BY <2>1, <2>2, <2>3, <2>4, TypeFrame DEF TypeOK
<1>3. ASSUME NEW s \in Sessions, RecvFrame(s) PROVE TypeOK'
  <2>1. CASE RecvInvalid(s)
    <3>1. unread' \in [Sessions -> 0 .. MaxUnread]
      <4>1. unread[s] - 1 \in 0 .. MaxUnread
        BY <2>1, ConstantsAssumption DEF HandlerTypeOK, RecvInvalid
      <4> QED BY <2>1, <4>1 DEF RecvInvalid, HandlerTypeOK
    <3> QED BY <1>2, <2>1, <3>1 DEF RecvInvalid
  <2>2. ASSUME NEW next \in Phases, Read(s, next), UNCHANGED pending PROVE HandlerTypeOK'
    BY <2>2, ReadType DEF HandlerTypeOK
  <2> "loop" \in Phases /\ "replying" \in Phases /\ "opening" \in Phases /\ "chdrain" \in Phases
    BY DEF Phases
  <2>3. CASE RecvOther(s)
    BY <2>2, <2>3, TypeFrame DEF RecvOther, TypeOK
  <2>4. ASSUME NEW c \in UsbIds, RecvOpenUsb(s, c) PROVE TypeOK'
    <3>1. pending' \in [Sessions -> Ids \cup {NoId}]
      BY <2>4 DEF RecvOpenUsb, HandlerTypeOK, Ids
    <3>2. HandlerTypeOK'
      BY <2>4, <3>1, ReadType DEF RecvOpenUsb
    <3> QED BY <2>4, <3>2, TypeFrame DEF RecvOpenUsb, TypeOK
  <2>5. ASSUME NEW c \in UsbIds, RefuseOpenUsb(s, c) PROVE TypeOK'
    BY <2>2, <2>5, TypeFrame DEF RefuseOpenUsb, TypeOK
  <2>6. ASSUME NEW c \in LanIds, RecvOpenLan(s, c) PROVE TypeOK'
    <3>1. ChannelTypeOK'
      BY <2>6 DEF RecvOpenLan, ChannelTypeOK
    <3> QED BY <2>2, <2>6, <3>1, TypeFrame DEF RecvOpenLan, TypeOK
  <2>7. ASSUME NEW c \in LanIds, RefuseOpenLan(s, c) PROVE TypeOK'
    BY <2>2, <2>7, TypeFrame DEF RefuseOpenLan, TypeOK
  <2>8. ASSUME NEW c \in Ids, RecvClose(s, c) PROVE TypeOK'
    BY <2>2, <2>8, CloseChannelType, TypeFrame DEF RecvClose, TypeOK
  <2>9. ASSUME NEW c \in Ids, RecvDataBlocks(s, c) PROVE TypeOK'
    BY <2>2, <2>9, TypeFrame DEF RecvDataBlocks, TypeOK
  <2> QED BY <1>3, <2>1, <2>3, <2>4, <2>5, <2>6, <2>7, <2>8, <2>9 DEF RecvFrame
<1>4. ASSUME NEW s \in Sessions, Handler(s) PROVE TypeOK'
  <2>1. CASE HelloFails(s) \/ ReadEof(s) \/ ChannelDrainFails(s) \/ ReplyFails(s)
    BY <1>2, <2>1 DEF HelloFails, ReadEof, ChannelDrainFails, ReplyFails, HandlerTypeOK
  <2>2. CASE HelloAccepted(s)
    <3>1. HandlerTypeOK' /\ ServerTypeOK'
      BY <2>2 DEF HelloAccepted, HandlerTypeOK, ServerTypeOK, Phases
    <3> QED BY <2>2, <3>1, TypeFrame DEF HelloAccepted, TypeOK
  <2>3. CASE OpenDone(s)
    <3>1. HandlerTypeOK'
      BY <2>3 DEF OpenDone, HandlerTypeOK, Phases
    <3>2. pending[s] \in Ids \cup {NoId}
      BY DEF HandlerTypeOK
    <3>3. PumpTypeOK'
      BY <2>3, <3>2 DEF OpenDone, PumpTypeOK, PumpStates
    <3>4. ChannelTypeOK'
      <4>1. PICK p \in Pumps : chans' = [chans EXCEPT ![s][pending[s]] = p] /\ sockets' = sockets \cup {p}
        BY <2>3 DEF OpenDone
      <4> QED BY <2>3, <4>1 DEF OpenDone, ChannelTypeOK
    <3> QED BY <2>3, <3>1, <3>3, <3>4, TypeFrame DEF OpenDone, TypeOK
  <2>4. CASE OpenFails(s) \/ ChannelDrained(s) \/ Replied(s)
    <3>1. HandlerTypeOK'
      BY <2>4 DEF OpenFails, ChannelDrained, Replied, HandlerTypeOK, Phases
    <3> QED BY <2>4, <3>1, TypeFrame DEF OpenFails, ChannelDrained, Replied, TypeOK
  <2> QED BY <1>3, <1>4, <2>1, <2>2, <2>3, <2>4 DEF Handler
<1>5. ASSUME NEW p \in Pumps, Pump(p) PROVE TypeOK'
  <2>1. ASSUME NEW from, NEW to \in PumpStates, PumpGoes(p, from, to)
        PROVE  PumpTypeOK' /\ HandlerTypeOK' /\ ServerTypeOK'
    BY <2>1, TypeFrame DEF PumpGoes, PumpTypeOK
  <2> {"created", "reading", "sending", "closing", "done"} \subseteq PumpStates
    BY DEF PumpStates
  <2>2. CASE PumpFinishes(p)
    BY <2>1, <2>2, CloseChannelType DEF PumpFinishes, TypeOK
  <2>3. CASE PumpStarts(p) \/ PumpReads(p) \/ PumpSent(p) \/ PumpEnds(p)
    BY <2>1, <2>3, TypeFrame DEF PumpStarts, PumpReads, PumpSent, PumpEnds, TypeOK
  <2>4. CASE PumpDropped(p) \/ PumpInterrupted(p)
    <3>1. ChannelTypeOK'
      BY <2>4 DEF PumpDropped, PumpInterrupted, ChannelTypeOK
    <3> QED BY <2>1, <2>4, <3>1 DEF PumpDropped, PumpInterrupted, TypeOK
  <2> QED BY <1>5, <2>2, <2>3, <2>4 DEF Pump
<1>6. CASE Tick
  <2>1. HandlerTypeOK'
    BY <1>6, ConstantsAssumption DEF Tick, HandlerTypeOK, Conns
  <2> QED BY <1>6, <2>1, TypeFrame DEF Tick, TypeOK
<1>7. CASE LanTapClosed \/ StopDone
  <2>1. ServerTypeOK'
    BY <1>7 DEF LanTapClosed, StopDone, ServerTypeOK
  <2> QED BY <1>7, <2>1, TypeFrame DEF LanTapClosed, StopDone, TypeOK
<1>8. CASE Stop
  <2>1. Cleanup(registered \ closed) /\ UNCHANGED <<phase, unread, age, pending, pumpVars, lanActive>>
    BY <1>8 DEF Stop
  <2>2. /\ ChannelTypeOK' /\ closed' \subseteq Sessions /\ registered' \subseteq Sessions
        /\ conn' \in [Sessions -> Conns]
    BY <2>1, CleanupType DEF ServerTypeOK
  <2>3. HandlerTypeOK' /\ ServerTypeOK'
    BY <1>8, <2>1, <2>2 DEF Stop, HandlerTypeOK, ServerTypeOK
  <2> QED BY <2>1, <2>2, <2>3, TypeFrame DEF TypeOK
<1>9. CASE UNCHANGED vars
  BY <1>9, TypeFrame DEF TypeOK, vars
<1> QED BY <1>1, <1>4, <1>5, <1>6, <1>7, <1>8, <1>9 DEF Next

\* The variables stay within their types.
THEOREM TypeCorrect == Spec => []TypeOK
<1>1. QED BY TypeInit, TypeStep, PTL DEF Spec

-----------------------------------------------------------------------------
(* The channels: what closing one, and cleaning sessions up, preserves.    *)

\* Steps that touch neither the channels nor the pumps.
LEMMA ChannelFrame ==
    ChannelInv /\ UNCHANGED <<chans, cancelled, sockets, pumpVars>> => ChannelInv'
  BY DEF ChannelInv, PumpInv, ChannelsLive, Serves, NothingOrphaned, RegisteredAs,
       OpenIds, pumpVars

\* What is registered under an id is a pump created for that session and id, the
\* id is a usbip id, and so never the session's lan_ch.
LEMMA RegisteredIds ==
    ASSUME DisjointIds, TypeOK, ChannelInv, NEW s \in Sessions, NEW c \in Ids,
           chans[s][c] # NoPump
    PROVE  /\ chans[s][c] \in Pumps
           /\ Serves(chans[s][c], s, c)
           /\ c \in UsbIds
           /\ lanCh[s] # c
<1>1. chans[s][c] \in Pumps
  BY DEF TypeOK, ChannelTypeOK
<1>2. Serves(chans[s][c], s, c)
  BY DEF ChannelInv, ChannelsLive, OpenIds
<1>3. c \in UsbIds
  BY <1>1, <1>2 DEF Serves, ChannelInv, PumpInv
<1>4. lanCh[s] # c
  BY <1>3, ConstantsAssumption DEF DisjointIds, TypeOK, ChannelTypeOK, Ids
<1> QED BY <1>1, <1>2, <1>3, <1>4

\* A cleanup pops every channel of the sessions it is for, and no other.
LEMMA CleanupPops ==
    ASSUME DisjointIds, TypeOK, ChannelInv, NEW S \in SUBSET Sessions, Cleanup(S)
    PROVE  /\ \A s \in S : \A c \in Ids : chans'[s][c] = NoPump
           /\ \A s \in Sessions \ S : \A c \in Ids : chans'[s][c] = chans[s][c]
           /\ Popped(S) = {p \in Pumps : \E s \in S, c \in Ids : chans[s][c] = p}
<1>1. \A s \in S : \A c \in Ids : chans'[s][c] = NoPump
  BY RegisteredIds DEF Cleanup
<1>2. \A s \in Sessions \ S : \A c \in Ids : chans'[s][c] = chans[s][c]
  BY DEF Cleanup
<1>3. Popped(S) = {p \in Pumps : \E s \in S, c \in Ids : chans[s][c] = p}
  BY RegisteredIds, ConstantsAssumption DEF Popped
<1> QED BY <1>1, <1>2, <1>3

LEMMA CleanupChannelInv ==
    ASSUME DisjointIds, TypeOK, ChannelInv, NEW S \in SUBSET Sessions, Cleanup(S),
           UNCHANGED pumpVars
    PROVE  ChannelInv'
<1> DEFINE P == Popped(S)
<1>1. /\ sockets' = sockets \ P
      /\ cancelled' = cancelled \cup (P \cap LivePumps)
      /\ UNCHANGED <<pumpState, pumpSession, pumpCh>>
  BY DEF Cleanup, pumpVars
<1>2. /\ \A s \in S : \A c \in Ids : chans'[s][c] = NoPump
      /\ \A s \in Sessions \ S : \A c \in Ids : chans'[s][c] = chans[s][c]
      /\ P = {p \in Pumps : \E s \in S, c \in Ids : chans[s][c] = p}
  BY CleanupPops
<1> HIDE DEF P
<1>3. PumpInv'
  BY <1>1 DEF ChannelInv, PumpInv, LivePumps
<1>4. ChannelsLive'
  <2> SUFFICES ASSUME NEW s \in Sessions, NEW c \in Ids, chans'[s][c] # NoPump
               PROVE  Serves(chans[s][c], s, c)'
    BY DEF ChannelsLive, OpenIds
  <2>1. s \notin S /\ chans'[s][c] = chans[s][c]
    BY <1>2
  <2>2. chans[s][c] \in Pumps /\ Serves(chans[s][c], s, c)
    BY <2>1, RegisteredIds
  <2>3. chans[s][c] \notin P
    <3> SUFFICES ASSUME NEW t \in S, NEW d \in Ids, chans[t][d] = chans[s][c] PROVE FALSE
      BY <1>2
    <3>1. Serves(chans[t][d], t, d)
      BY <2>2, RegisteredIds, ConstantsAssumption
    <3> QED BY <2>1, <2>2, <3>1 DEF Serves
  <2> QED BY <1>1, <2>1, <2>2, <2>3 DEF Serves
<1>5. NothingOrphaned'
  <2> SUFFICES ASSUME NEW p \in Pumps,
                      \/ p \in sockets'
                      \/ pumpState[p] \in {"created", "reading", "sending"} /\ p \notin cancelled'
               PROVE  pumpSession[p] \in Sessions /\ chans'[pumpSession[p]][pumpCh[p]] = p
    BY <1>1 DEF NothingOrphaned, RegisteredAs
  <2>1. p \notin P
    BY <1>1 DEF LivePumps, ChannelInv, PumpInv
  <2>2. pumpSession[p] \in Sessions /\ chans[pumpSession[p]][pumpCh[p]] = p
    BY <1>1 DEF ChannelInv, NothingOrphaned, RegisteredAs
  <2>3. pumpCh[p] \in Ids
    BY <1>1 DEF ChannelInv, PumpInv, Ids
  <2>4. pumpSession[p] \notin S
    BY <1>2, <2>1, <2>2, <2>3
  <2> QED BY <1>2, <2>2, <2>3, <2>4
<1> QED BY <1>3, <1>4, <1>5 DEF ChannelInv

\* Closing a usbip channel keeps ChannelInv, also when its own pump ends with it.
LEMMA CloseUsbInv ==
    ASSUME DisjointIds, TypeOK, ChannelInv, NEW s \in Sessions, NEW c \in Ids,
           lanCh[s] # c, CloseChannel(s, c), UNCHANGED <<pumpSession, pumpCh>>,
           \A p \in Pumps :
               \/ pumpState'[p] = pumpState[p]
               \/ /\ pumpState[p] = "closing" /\ pumpState'[p] = "done"
                  /\ pumpSession[p] = s /\ pumpCh[p] = c
    PROVE  ChannelInv'
<1> DEFINE q == chans[s][c]
<1>1. /\ chans' = [chans EXCEPT ![s][c] = NoPump]
      /\ sockets' = sockets \ {q}
      /\ cancelled' = cancelled \cup ({q} \cap LivePumps)
  BY DEF CloseChannel
<1>2. \A t \in Sessions : \A d \in Ids :
        chans'[t][d] = IF t = s /\ d = c THEN NoPump ELSE chans[t][d]
  BY <1>1 DEF TypeOK, ChannelTypeOK
<1>3. \A t \in Sessions : \A d \in Ids :
        chans[t][d] # NoPump => chans[t][d] \in Pumps /\ Serves(chans[t][d], t, d)
  BY RegisteredIds
<1>4. \A p \in Pumps : p \in sockets => pumpSession[p] \in Sessions
                                        /\ chans[pumpSession[p]][pumpCh[p]] = p
  BY DEF ChannelInv, NothingOrphaned, RegisteredAs
<1>5. PumpInv'
  <2> SUFFICES ASSUME NEW p \in Pumps
               PROVE  /\ pumpState'[p] # "free" => pumpSession[p] \in Sessions /\ pumpCh[p] \in UsbIds
                      /\ pumpState'[p] = "free" => p \notin cancelled'
                      /\ pumpState'[p] \in {"free", "done"} => p \notin sockets'
    BY DEF PumpInv
  <2>1. CASE pumpState'[p] = pumpState[p]
    BY <1>1, <2>1 DEF ChannelInv, PumpInv, LivePumps
  <2>2. CASE /\ pumpState[p] = "closing" /\ pumpState'[p] = "done"
             /\ pumpSession[p] = s /\ pumpCh[p] = c
    BY <1>1, <1>4, <2>2 DEF ChannelInv, PumpInv
  <2> QED BY <2>1, <2>2
<1> HIDE DEF q
<1>6. ChannelsLive'
  <2> SUFFICES ASSUME NEW t \in Sessions, NEW d \in Ids, chans'[t][d] # NoPump
               PROVE  Serves(chans[t][d], t, d)'
    BY DEF ChannelsLive, OpenIds
  <2>1. chans'[t][d] = chans[t][d] /\ ~ (t = s /\ d = c)
    BY <1>2
  <2>2. chans[t][d] \in Pumps /\ Serves(chans[t][d], t, d)
    BY <1>3, <2>1
  <2>3. chans[t][d] # q
    BY <1>3, <2>1, <2>2, ConstantsAssumption DEF q, Serves
  <2>4. pumpState'[chans[t][d]] = pumpState[chans[t][d]]
    BY <2>1, <2>2 DEF Serves
  <2> QED BY <1>1, <2>1, <2>2, <2>3, <2>4 DEF Serves
<1>7. NothingOrphaned'
  <2> SUFFICES ASSUME NEW p \in Pumps,
                      \/ p \in sockets'
                      \/ pumpState'[p] \in {"created", "reading", "sending"} /\ p \notin cancelled'
               PROVE  pumpSession[p] \in Sessions /\ chans'[pumpSession[p]][pumpCh[p]] = p
    BY DEF NothingOrphaned, RegisteredAs
  <2>1. p # q
    BY <1>1 DEF LivePumps
  <2>2. pumpSession[p] \in Sessions /\ chans[pumpSession[p]][pumpCh[p]] = p
    BY <1>1 DEF ChannelInv, NothingOrphaned, RegisteredAs
  <2>3. pumpCh[p] \in Ids
    BY <1>1 DEF ChannelInv, PumpInv, Ids
  <2> QED BY <1>2, <2>1, <2>2, <2>3 DEF q
<1> QED BY <1>5, <1>6, <1>7 DEF ChannelInv

LEMMA CloseChannelInv ==
    ASSUME DisjointIds, TypeOK, ChannelInv, NEW s \in Sessions, NEW c \in Ids,
           CloseChannel(s, c), UNCHANGED pumpVars
    PROVE  ChannelInv'
<1>1. CASE lanCh[s] = c
  BY <1>1, ChannelFrame DEF CloseChannel
<1>2. CASE lanCh[s] # c
  BY <1>2, CloseUsbInv DEF pumpVars
<1> QED BY <1>1, <1>2

\* The steps of a pump, whether it was cancelled or not.
LEMMA PumpChannelInv ==
    ASSUME DisjointIds, TypeOK, ChannelInv, NEW p \in Pumps, Pump(p)
    PROVE  ChannelInv'
<1> USE DEF PumpGoes
<1>1. CASE PumpStarts(p) \/ PumpReads(p) \/ PumpSent(p) \/ PumpEnds(p)
  <2>1. /\ pumpState[p] \in {"created", "reading", "sending"}
        /\ \E to \in {"reading", "sending", "closing"} : pumpState' = [pumpState EXCEPT ![p] = to]
        /\ p \notin cancelled
        /\ UNCHANGED <<chans, cancelled, sockets, pumpSession, pumpCh>>
    BY <1>1 DEF PumpStarts, PumpReads, PumpSent, PumpEnds, channelVars
  <2> QED BY <2>1 DEF TypeOK, PumpTypeOK, ChannelInv, PumpInv, ChannelsLive, Serves,
            NothingOrphaned, RegisteredAs, OpenIds
<1>2. CASE PumpDropped(p) \/ PumpInterrupted(p)
  <2>1. /\ p \in cancelled
        /\ cancelled' = cancelled \ {p}
        /\ pumpState[p] \in {"created", "reading", "sending"}
        /\ \E to \in {"done", "closing"} : pumpState' = [pumpState EXCEPT ![p] = to]
        /\ UNCHANGED <<chans, sockets, pumpSession, pumpCh>>
    BY <1>2 DEF PumpDropped, PumpInterrupted
  <2>2. \A s \in Sessions : \A c \in OpenIds(s) : chans[s][c] # p /\ Serves(chans[s][c], s, c)
    BY <2>1 DEF ChannelInv, ChannelsLive, Serves
  <2>3. p \notin sockets
    <3> SUFFICES ASSUME p \in sockets PROVE FALSE
      OBVIOUS
    <3>1. pumpSession[p] \in Sessions /\ pumpCh[p] \in Ids /\ chans[pumpSession[p]][pumpCh[p]] = p
      BY <2>1 DEF ChannelInv, NothingOrphaned, RegisteredAs, PumpInv, Ids
    <3> QED BY <2>2, <3>1, ConstantsAssumption DEF OpenIds
  <2>4. PumpInv'
    BY <2>1, <2>3 DEF TypeOK, PumpTypeOK, ChannelInv, PumpInv
  <2>5. ChannelsLive'
    BY <2>1, <2>2 DEF TypeOK, PumpTypeOK, ChannelsLive, Serves, OpenIds
  <2>6. NothingOrphaned'
    BY <2>1, <2>3 DEF TypeOK, PumpTypeOK, ChannelInv, NothingOrphaned, RegisteredAs
  <2> QED BY <2>4, <2>5, <2>6 DEF ChannelInv
<1>3. CASE PumpFinishes(p)
  <2> DEFINE s == pumpSession[p]
             c == pumpCh[p]
  <2>1. s \in Sessions /\ c \in UsbIds
    BY <1>3 DEF PumpFinishes, ChannelInv, PumpInv
  <2>2. c \in Ids /\ lanCh[s] # c
    BY <2>1, ConstantsAssumption DEF DisjointIds, TypeOK, ChannelTypeOK, Ids
  <2>3. \A r \in Pumps :
          \/ pumpState'[r] = pumpState[r]
          \/ /\ pumpState[r] = "closing" /\ pumpState'[r] = "done"
             /\ pumpSession[r] = s /\ pumpCh[r] = c
    BY <1>3 DEF PumpFinishes, TypeOK, PumpTypeOK
  <2> QED BY <1>3, <2>1, <2>2, <2>3, CloseUsbInv DEF PumpFinishes
<1> QED BY <1>1, <1>2, <1>3 DEF Pump

\* A new channel: the id is still free and so is the pump.
LEMMA OpenDoneChannelInv ==
    ASSUME TypeOK, ChannelInv, OpeningInv, NEW s \in Sessions, OpenDone(s)
    PROVE  ChannelInv'
<1>1. pending[s] \in UsbIds /\ pending[s] \in Ids /\ chans[s][pending[s]] = NoPump
  BY DEF OpenDone, OpeningInv, Ids
<1>2. PICK p \in Pumps :
        /\ pumpState[p] = "free"
        /\ pumpState' = [pumpState EXCEPT ![p] = "created"]
        /\ pumpSession' = [pumpSession EXCEPT ![p] = s]
        /\ pumpCh' = [pumpCh EXCEPT ![p] = pending[s]]
        /\ chans' = [chans EXCEPT ![s][pending[s]] = p]
        /\ sockets' = sockets \cup {p}
  BY DEF OpenDone
<1>3. p \notin cancelled /\ cancelled' = cancelled
  BY <1>2 DEF OpenDone, ChannelInv, PumpInv
<1>4. \A t \in Sessions : \A d \in Ids :
        chans'[t][d] = IF t = s /\ d = pending[s] THEN p ELSE chans[t][d]
  BY <1>2 DEF TypeOK, ChannelTypeOK
<1>5. \A r \in Pumps \ {p} : /\ pumpState'[r] = pumpState[r]
                             /\ pumpSession'[r] = pumpSession[r]
                             /\ pumpCh'[r] = pumpCh[r]
  BY <1>2 DEF TypeOK, PumpTypeOK
<1>6. pumpState'[p] = "created" /\ pumpSession'[p] = s /\ pumpCh'[p] = pending[s]
  BY <1>2 DEF TypeOK, PumpTypeOK
<1>7. PumpInv'
  BY <1>1, <1>2, <1>3, <1>5, <1>6 DEF ChannelInv, PumpInv
<1>8. ChannelsLive'
  <2> SUFFICES ASSUME NEW t \in Sessions, NEW d \in Ids, chans'[t][d] # NoPump
               PROVE  Serves(chans[t][d], t, d)'
    BY DEF ChannelsLive, OpenIds
  <2>1. CASE t = s /\ d = pending[s]
    BY <1>2, <1>3, <1>4, <1>6, <2>1 DEF Serves
  <2>2. CASE ~ (t = s /\ d = pending[s])
    <3>1. chans'[t][d] = chans[t][d] /\ chans[t][d] \in Pumps /\ Serves(chans[t][d], t, d)
      BY <1>4, <2>2 DEF ChannelInv, ChannelsLive, OpenIds, TypeOK, ChannelTypeOK
    <3>2. chans[t][d] # p
      BY <1>2, <3>1 DEF Serves
    <3> QED BY <1>2, <1>3, <1>5, <3>1, <3>2 DEF Serves
  <2> QED BY <2>1, <2>2
<1>9. NothingOrphaned'
  <2> SUFFICES ASSUME NEW r \in Pumps,
                      \/ r \in sockets'
                      \/ pumpState'[r] \in {"created", "reading", "sending"} /\ r \notin cancelled'
               PROVE  pumpSession'[r] \in Sessions /\ chans'[pumpSession'[r]][pumpCh'[r]] = r
    BY DEF NothingOrphaned, RegisteredAs
  <2>1. CASE r = p
    BY <1>1, <1>4, <1>6, <2>1
  <2>2. CASE r # p
    <3>1. pumpSession[r] \in Sessions /\ chans[pumpSession[r]][pumpCh[r]] = r
      BY <1>2, <1>3, <1>5, <2>2 DEF ChannelInv, NothingOrphaned, RegisteredAs
    <3>2. pumpCh[r] \in Ids
      BY <1>2, <1>3, <1>5, <2>2 DEF ChannelInv, PumpInv, Ids
    <3> QED BY <1>1, <1>4, <1>5, <2>2, <3>1, <3>2, ConstantsAssumption
  <2> QED BY <2>1, <2>2
<1> QED BY <1>7, <1>8, <1>9 DEF ChannelInv

-----------------------------------------------------------------------------
(* The sessions.                                                           *)

\* A handler that leaves: its session is closed and empty, the others are as
\* they were.
LEMMA ExitInv ==
    ASSUME DisjointIds, TypeOK, ChannelInv, SessionInv, NEW s \in Sessions, Exit(s),
           phase[s] \notin {"idle", "opening", "done"}
    PROVE  ChannelInv' /\ SessionInv'
<1> DEFINE S == {s} \ closed
<1>1. /\ phase' = [phase EXCEPT ![s] = "done"]
      /\ Cleanup(S)
      /\ UNCHANGED <<pending, pumpVars, server>>
  BY DEF Exit
<1>2. S \in SUBSET Sessions
  OBVIOUS
<1>3. ChannelInv'
  BY <1>1, <1>2, CleanupChannelInv
<1>4. /\ \A t \in S : \A c \in Ids : chans'[t][c] = NoPump
      /\ \A t \in Sessions \ S : \A c \in Ids : chans'[t][c] = chans[t][c]
  BY <1>1, <1>2, CleanupPops
<1>5. OpeningInv'
  BY <1>1, <1>4 DEF SessionInv, OpeningInv, TypeOK, HandlerTypeOK, Ids
<1>6. /\ closed' = closed \cup S
      /\ registered' = registered \ S
      /\ lanMembers' = lanMembers \ {t \in S : lanCh[t] # NoId}
      /\ \A t \in Sessions \ S : lanCh'[t] = lanCh[t]
  BY <1>1 DEF Cleanup
<1>7. ClosedInv'
  <2> SUFFICES ASSUME server = "running", NEW t \in Sessions
               PROVE  /\ t \in closed' <=> phase'[t] = "done"
                      /\ t \in closed' => /\ \A c \in Ids : chans'[t][c] = NoPump
                                          /\ t \notin lanMembers' /\ t \notin registered'
    BY <1>1 DEF ClosedInv, OpenIds
  <2>1. t \in closed <=> phase[t] = "done"
    BY DEF SessionInv, ClosedInv
  <2>2. t \in closed => /\ \A c \in Ids : chans[t][c] = NoPump
                        /\ t \notin lanMembers /\ t \notin registered
    BY DEF SessionInv, ClosedInv, OpenIds
  <2>3. CASE t = s
    BY <1>1, <1>4, <1>6, <2>1, <2>3 DEF SessionInv, LanMembersOpen, TypeOK, HandlerTypeOK
  <2>4. CASE t # s
    BY <1>1, <1>4, <1>6, <2>1, <2>2, <2>4 DEF TypeOK, HandlerTypeOK
  <2> QED BY <2>3, <2>4
<1>8. LanMembersOpen'
  BY <1>6 DEF SessionInv, LanMembersOpen
<1> QED BY <1>3, <1>5, <1>7, <1>8 DEF SessionInv

\* Steps that touch no channel: only the phases have to be looked at.
LEMMA SessionFrame ==
    ASSUME SessionInv, UNCHANGED <<chans, lanCh, lanMembers, server, closed>>,
           OpeningInv', registered' \cap closed \subseteq registered,
           \A s \in Sessions : phase'[s] = "done" <=> phase[s] = "done"
    PROVE  SessionInv'
  BY DEF SessionInv, ClosedInv, LanMembersOpen, OpenIds

LEMMA SessionFrameSame ==
    SessionInv /\ UNCHANGED <<chans, lanCh, lanMembers, server, closed, registered, phase, pending>>
        => SessionInv'
  BY DEF SessionInv, OpeningInv, ClosedInv, LanMembersOpen, OpenIds

\* CloseChannel only ever takes away.
LEMMA CloseChannelSession ==
    ASSUME TypeOK, SessionInv, NEW s, NEW c, CloseChannel(s, c),
           UNCHANGED <<pending, server, closed, registered>>,
           \A t \in Sessions : /\ phase'[t] = "opening" <=> phase[t] = "opening"
                               /\ phase'[t] = "done" <=> phase[t] = "done"
    PROVE  SessionInv'
<1>1. /\ \A t \in Sessions : \A d \in Ids : chans'[t][d] \in {chans[t][d], NoPump}
      /\ \/ UNCHANGED <<lanCh, lanMembers>>
         \/ lanCh' = [lanCh EXCEPT ![s] = NoId] /\ lanMembers' = lanMembers \ {s}
  BY DEF CloseChannel, TypeOK, ChannelTypeOK
<1>2. OpeningInv'
  BY <1>1 DEF SessionInv, OpeningInv, TypeOK, HandlerTypeOK, Ids
<1>3. ClosedInv'
  BY <1>1 DEF SessionInv, ClosedInv, OpenIds
<1>4. LanMembersOpen'
  BY <1>1 DEF SessionInv, LanMembersOpen, TypeOK, ChannelTypeOK
<1> QED BY <1>2, <1>3, <1>4 DEF SessionInv

\* The steps of a handler.
LEMMA HandlerInv ==
    ASSUME DisjointIds, TypeOK, ChannelInv, SessionInv, NEW s \in Sessions, Handler(s)
    PROVE  ChannelInv' /\ SessionInv'
<1> OpeningInv
  BY DEF SessionInv
<1> phase \in [Sessions -> Phases] /\ pending \in [Sessions -> Ids \cup {NoId}]
  BY DEF TypeOK, HandlerTypeOK
<1>1. CASE HelloFails(s) \/ ReadEof(s) \/ ChannelDrainFails(s) \/ ReplyFails(s) \/ RecvInvalid(s)
  <2>1. Exit(s) /\ phase[s] \in {"hello", "loop", "chdrain", "replying"}
    BY <1>1 DEF HelloFails, ReadEof, ChannelDrainFails, ReplyFails, RecvInvalid
  <2> QED BY <2>1, ExitInv
<1>2. CASE HelloAccepted(s)
  <2>1. OpeningInv'
    BY <1>2 DEF HelloAccepted, OpeningInv, channelVars
  <2>2. server = "running" => s \notin closed
    BY <1>2 DEF HelloAccepted, SessionInv, ClosedInv
  <2>3. SessionInv'
    BY <1>2, <2>1, <2>2 DEF HelloAccepted, SessionInv, ClosedInv, LanMembersOpen, OpenIds, channelVars
  <2> QED BY <1>2, <2>3, ChannelFrame DEF HelloAccepted, channelVars
<1>3. CASE OpenDone(s)
  <2>1. PICK p \in Pumps : chans' = [chans EXCEPT ![s][pending[s]] = p]
    BY <1>3 DEF OpenDone
  <2>2. \A t \in Sessions \ {s} : \A c \in Ids : chans'[t][c] = chans[t][c]
    BY <2>1 DEF TypeOK, ChannelTypeOK
  <2>3. OpeningInv'
    BY <1>3, <2>2 DEF OpenDone, OpeningInv, Ids
  <2>4. ClosedInv' /\ LanMembersOpen'
    BY <1>3, <2>2 DEF OpenDone, SessionInv, ClosedInv, LanMembersOpen, OpenIds, serverVars
  <2> QED BY <1>3, <2>3, <2>4, OpenDoneChannelInv DEF SessionInv
<1>4. CASE OpenFails(s) \/ ChannelDrained(s) \/ Replied(s)
  <2>1. OpeningInv'
    BY <1>4 DEF OpenFails, ChannelDrained, Replied, OpeningInv, channelVars
  <2>2. \A t \in Sessions : phase'[t] = "done" <=> phase[t] = "done"
    BY <1>4 DEF OpenFails, ChannelDrained, Replied
  <2>3. UNCHANGED <<channelVars, pumpVars, serverVars>>
    BY <1>4 DEF OpenFails, ChannelDrained, Replied
  <2> QED BY <2>1, <2>2, <2>3, SessionFrame, ChannelFrame DEF channelVars, serverVars
<1>5. ASSUME NEW next \in {"loop", "replying", "chdrain"}, Read(s, next), UNCHANGED pending
      PROVE  \A t \in Sessions : /\ phase'[t] = "opening" <=> phase[t] = "opening"
                                 /\ phase'[t] = "done" <=> phase[t] = "done"
  BY <1>5 DEF Read
<1>6. ASSUME NEW next \in {"loop", "replying", "chdrain"}, Read(s, next),
             UNCHANGED <<pending, channelVars, pumpVars, serverVars>>
      PROVE  ChannelInv' /\ SessionInv'
  <2>1. OpeningInv'
    BY <1>5, <1>6 DEF OpeningInv, channelVars
  <2> QED BY <1>5, <1>6, <2>1, SessionFrame, ChannelFrame DEF channelVars, serverVars
<1>7. CASE RecvOther(s)
  BY <1>6, <1>7 DEF RecvOther
<1>8. ASSUME NEW c \in Ids, RefuseOpenUsb(s, c) \/ RefuseOpenLan(s, c) \/ RecvDataBlocks(s, c)
      PROVE  ChannelInv' /\ SessionInv'
  BY <1>6, <1>8 DEF RefuseOpenUsb, RefuseOpenLan, RecvDataBlocks
<1>9. ASSUME NEW c \in UsbIds, RecvOpenUsb(s, c) PROVE ChannelInv' /\ SessionInv'
  <2>1. /\ phase[s] = "loop"
        /\ phase' = [phase EXCEPT ![s] = "opening"]
        /\ pending' = [pending EXCEPT ![s] = c]
        /\ chans[s][c] = NoPump
        /\ UNCHANGED <<channelVars, pumpVars, serverVars>>
    BY <1>9 DEF RecvOpenUsb, Read, OpenIds, Ids
  <2>2. OpeningInv'
    BY <2>1 DEF OpeningInv, channelVars
  <2> QED BY <2>1, <2>2, SessionFrame, ChannelFrame DEF channelVars, serverVars
<1>10. ASSUME NEW c \in LanIds, RecvOpenLan(s, c) PROVE ChannelInv' /\ SessionInv'
  <2>1. /\ lanCh' = [lanCh EXCEPT ![s] = c]
        /\ lanMembers' = lanMembers \cup {s}
        /\ phase[s] = "loop"
        /\ UNCHANGED <<pending, chans, cancelled, sockets, pumpVars, serverVars>>
    BY <1>10 DEF RecvOpenLan, Read
  <2>2. c # NoId
    BY ConstantsAssumption DEF Ids
  <2>3. OpeningInv'
    BY <1>5, <1>10, <2>1 DEF RecvOpenLan, OpeningInv
  <2>4. ClosedInv'
    BY <1>5, <1>10, <2>1 DEF RecvOpenLan, SessionInv, ClosedInv, OpenIds, serverVars
  <2>5. LanMembersOpen'
    BY <2>1, <2>2 DEF SessionInv, LanMembersOpen, TypeOK, ChannelTypeOK, serverVars
  <2> QED BY <2>1, <2>3, <2>4, <2>5, ChannelFrame DEF SessionInv
<1>11. ASSUME NEW c \in Ids, RecvClose(s, c) PROVE ChannelInv' /\ SessionInv'
  <2>1. SessionInv'
    BY <1>5, <1>11, CloseChannelSession DEF RecvClose, serverVars
  <2> QED BY <1>11, <2>1, CloseChannelInv DEF RecvClose
<1>12. UsbIds \subseteq Ids /\ LanIds \subseteq Ids
  BY DEF Ids
<1>13. CASE RecvFrame(s)
  BY <1>1, <1>7, <1>8, <1>9, <1>10, <1>11, <1>12, <1>13 DEF RecvFrame
<1> QED BY <1>1, <1>2, <1>3, <1>4, <1>13 DEF Handler

LEMMA IndInvInit == Init => IndInv
<1> SUFFICES ASSUME Init PROVE ChannelInv /\ SessionInv
  BY TypeInit DEF IndInv
<1> USE DEF Init
<1>1. ChannelInv
  BY DEF ChannelInv, PumpInv, ChannelsLive, NothingOrphaned, OpenIds
<1>2. SessionInv
  BY DEF SessionInv, OpeningInv, ClosedInv, LanMembersOpen
<1> QED BY <1>1, <1>2

LEMMA IndInvStep ==
    ASSUME DisjointIds, IndInv, [Next]_vars PROVE IndInv'
<1> TypeOK /\ ChannelInv /\ SessionInv
  BY DEF IndInv
<1>1. SUFFICES ChannelInv' /\ SessionInv'
  BY TypeStep DEF IndInv
<1>2. ASSUME NEW s \in Sessions, Client(s) PROVE ChannelInv' /\ SessionInv'
  <2>1. UNCHANGED <<pending, channelVars, pumpVars, serverVars>>
    BY <1>2 DEF Client, Connect, ClientSends, ClientCloses, ClientVanishes
  <2>2. \A t \in Sessions : /\ phase'[t] = "opening" <=> phase[t] = "opening"
                            /\ phase'[t] = "done" <=> phase[t] = "done"
    BY <1>2 DEF Client, Connect, ClientSends, ClientCloses, ClientVanishes, TypeOK, HandlerTypeOK
  <2>3. OpeningInv'
    BY <2>1, <2>2 DEF SessionInv, OpeningInv, channelVars
  <2> QED BY <2>1, <2>2, <2>3, SessionFrame, ChannelFrame DEF channelVars, serverVars
<1>3. ASSUME NEW p \in Pumps, Pump(p) PROVE ChannelInv' /\ SessionInv'
  <2>1. UNCHANGED <<pumpSession, pumpCh, handlerVars, serverVars>>
    BY <1>3 DEF Pump, PumpStarts, PumpDropped, PumpReads, PumpSent, PumpEnds,
         PumpInterrupted, PumpFinishes, PumpGoes
  <2>2. CASE PumpFinishes(p)
    BY <1>3, <2>1, <2>2, CloseChannelSession, PumpChannelInv DEF PumpFinishes, handlerVars, serverVars
  <2>3. CASE ~ PumpFinishes(p)
    <3>1. UNCHANGED <<chans, lanCh, lanMembers>>
      BY <1>3, <2>3 DEF Pump, PumpStarts, PumpDropped, PumpReads, PumpSent, PumpEnds,
           PumpInterrupted, channelVars
    <3> QED BY <2>1, <3>1, SessionFrameSame, <1>3, PumpChannelInv DEF handlerVars, serverVars
  <2> QED BY <1>3, <2>2, <2>3, PumpChannelInv
<1>4. CASE Tick \/ LanTapClosed \/ UNCHANGED vars
  BY <1>4, ChannelFrame, SessionFrameSame DEF Tick, LanTapClosed, vars, handlerVars,
       channelVars, serverVars
<1>5. CASE StopDone
  <2>1. ChannelInv'
    BY <1>5, ChannelFrame DEF StopDone, channelVars
  <2>2. SessionInv'
    BY <1>5 DEF StopDone, SessionInv, OpeningInv, ClosedInv, LanMembersOpen, channelVars, handlerVars
  <2> QED BY <2>1, <2>2
<1>6. CASE Stop
  <2> DEFINE S == registered \ closed
  <2>1. S \in SUBSET Sessions /\ Cleanup(S)
    BY <1>6 DEF Stop, TypeOK, ServerTypeOK
  <2>2. ChannelInv'
    BY <1>6, <2>1, CleanupChannelInv DEF Stop
  <2>3. /\ \A t \in S : \A c \in Ids : chans'[t][c] = NoPump
        /\ \A t \in Sessions \ S : \A c \in Ids : chans'[t][c] = chans[t][c]
    BY <2>1, CleanupPops
  <2>4. OpeningInv'
    BY <1>6, <2>3 DEF Stop, SessionInv, OpeningInv, Ids
  <2>5. ClosedInv'
    BY <1>6 DEF Stop, ClosedInv
  <2>6. LanMembersOpen'
    BY <2>1 DEF Cleanup, SessionInv, LanMembersOpen
  <2> QED BY <2>2, <2>4, <2>5, <2>6 DEF SessionInv
<1> QED BY <1>2, <1>3, <1>4, <1>5, <1>6, HandlerInv DEF Next

\* The inductive invariant, for clients that keep the two kinds of ids apart.
THEOREM Inductive == ASSUME DisjointIds PROVE Spec => []IndInv
<1>1. IndInv /\ [Next]_vars => IndInv'
  BY IndInvStep
<1> QED BY <1>1, IndInvInit, PTL DEF Spec

\* No usbipd connection and no running pump is ever lost from its session.
THEOREM NeverOrphaned == ASSUME DisjointIds PROVE Spec => []NothingOrphaned
<1>1. IndInv => NothingOrphaned
  BY DEF IndInv, ChannelInv
<1> QED BY <1>1, Inductive, PTL

\* What is registered under an id is alive and is what was opened under it.
THEOREM NoZombies == ASSUME DisjointIds PROVE Spec => []ChannelsLive
<1>1. IndInv => ChannelsLive
  BY DEF IndInv, ChannelInv
<1> QED BY <1>1, Inductive, PTL

\* A handler that ended before stop() left nothing behind.
THEOREM NothingLeft == ASSUME DisjointIds PROVE Spec => []TornDownWhileRunning
<1>1. ASSUME IndInv, server = "running", NEW s \in Sessions, phase[s] = "done"
      PROVE  FullyTornDown(s)
  <2>1. OpenIds(s) = {} /\ s \notin lanMembers /\ s \notin registered
    BY <1>1 DEF IndInv, SessionInv, ClosedInv
  <2>2. ASSUME NEW p \in sockets, pumpSession[p] = s PROVE FALSE
    <3>1. p \in Pumps /\ pumpState[p] # "free"
      BY <1>1 DEF IndInv, TypeOK, ChannelTypeOK, ChannelInv, PumpInv
    <3>2. chans[s][pumpCh[p]] = p /\ pumpCh[p] \in Ids
      BY <1>1, <2>2, <3>1 DEF IndInv, ChannelInv, NothingOrphaned, RegisteredAs, PumpInv, Ids
    <3> QED BY <2>1, <3>1, <3>2, ConstantsAssumption DEF OpenIds
  <2> QED BY <2>1, <2>2 DEF FullyTornDown
<1>2. IndInv => TornDownWhileRunning
  BY <1>1 DEF TornDownWhileRunning, TornDown
<1> QED BY <1>2, Inductive, PTL

\* The LAN sends to exactly the sessions that have a lan channel.
THEOREM LanMembership == ASSUME DisjointIds PROVE Spec => []LanMembersOpen
<1>1. IndInv => LanMembersOpen
  BY DEF IndInv, SessionInv
<1> QED BY <1>1, Inductive, PTL

-----------------------------------------------------------------------------
(* The cap on channels: no step but an OPEN below the cap makes the ids in *)
(* use more.                                                               *)

LEMMA OccupiedShrinks ==
    ASSUME TypeOK, [Next]_vars, NEW s \in Sessions
    PROVE  \/ Occupied(s)' \subseteq Occupied(s)
           \/ \E c \in Ids : /\ Occupied(s)' = OpenIds(s) \cup {c}
                             /\ Cardinality(OpenIds(s)) < MaxChannels
<1> USE DEF Occupied, OpenIds
<1>1. ASSUME UNCHANGED <<pending, chans>> PROVE Occupied(s)' \subseteq Occupied(s)
  BY <1>1
<1>2. ASSUME UNCHANGED pending, NEW S, Cleanup(S) PROVE Occupied(s)' \subseteq Occupied(s)
  BY <1>2 DEF Cleanup
<1>3. ASSUME UNCHANGED pending, NEW t, NEW d, CloseChannel(t, d)
      PROVE  Occupied(s)' \subseteq Occupied(s)
  BY <1>3 DEF CloseChannel, TypeOK, ChannelTypeOK
<1>4. ASSUME NEW t \in Sessions, Client(t) PROVE UNCHANGED <<pending, chans>>
  BY <1>4 DEF Client, Connect, ClientSends, ClientCloses, ClientVanishes, channelVars
<1>5. ASSUME NEW t \in Sessions, Exit(t) PROVE Occupied(s)' \subseteq Occupied(s)
  BY <1>2, <1>5 DEF Exit
<1>6. ASSUME NEW t \in Sessions, NEW c \in UsbIds, RecvOpenUsb(t, c)
      PROVE  \/ Occupied(s)' \subseteq Occupied(s)
             \/ \E d \in Ids : /\ Occupied(s)' = OpenIds(s) \cup {d}
                               /\ Cardinality(OpenIds(s)) < MaxChannels
  <2>1. UNCHANGED chans /\ pending' = [pending EXCEPT ![t] = c] /\ c \in Ids /\ c # NoId
    BY <1>6, ConstantsAssumption DEF RecvOpenUsb, channelVars, Ids
  <2>2. CASE t = s
    <3>1. Occupied(s)' = OpenIds(s) \cup {c} /\ Cardinality(OpenIds(s)) < MaxChannels
      BY <1>6, <2>1, <2>2 DEF RecvOpenUsb, TypeOK, HandlerTypeOK
    <3> QED BY <2>1, <3>1
  <2>3. CASE t # s
    BY <2>1, <2>3 DEF TypeOK, HandlerTypeOK
  <2> QED BY <2>2, <2>3
<1>7. ASSUME NEW t \in Sessions, RecvFrame(t), ~ \E c \in UsbIds : RecvOpenUsb(t, c)
      PROVE  Occupied(s)' \subseteq Occupied(s)
  <2>1. CASE RecvInvalid(t)
    BY <1>5, <2>1 DEF RecvInvalid
  <2>2. CASE \E c \in Ids : RecvClose(t, c)
    BY <1>3, <2>2 DEF RecvClose
  <2>3. CASE ~ RecvInvalid(t) /\ ~ \E c \in Ids : RecvClose(t, c)
    <3>1. UNCHANGED <<pending, chans>>
      BY <1>7, <2>3 DEF RecvFrame, RecvOther, RefuseOpenUsb, RecvOpenLan, RefuseOpenLan,
           RecvDataBlocks, channelVars
    <3> QED BY <1>1, <3>1
  <2> QED BY <2>1, <2>2, <2>3
<1>8. ASSUME NEW t \in Sessions, OpenDone(t) PROVE Occupied(s)' \subseteq Occupied(s)
  <2>1. PICK p \in Pumps : chans' = [chans EXCEPT ![t][pending[t]] = p]
    BY <1>8 DEF OpenDone
  <2>2. pending' = [pending EXCEPT ![t] = NoId]
    BY <1>8 DEF OpenDone
  <2>3. CASE t = s
    <3>1. \A c \in Ids : c # pending[s] => chans'[s][c] = chans[s][c]
      BY <2>1, <2>3 DEF TypeOK, ChannelTypeOK
    <3>2. pending'[s] = NoId
      BY <2>2, <2>3 DEF TypeOK, HandlerTypeOK
    <3>3. NoId \notin Ids
      BY ConstantsAssumption
    <3> QED BY <3>1, <3>2, <3>3
  <2>4. CASE t # s
    BY <2>1, <2>2, <2>4 DEF TypeOK, HandlerTypeOK, ChannelTypeOK
  <2> QED BY <2>3, <2>4
<1>9. ASSUME NEW t \in Sessions, OpenFails(t) PROVE Occupied(s)' \subseteq Occupied(s)
  BY <1>9 DEF OpenFails, channelVars, TypeOK, HandlerTypeOK
<1>10. ASSUME NEW t \in Sessions, HelloAccepted(t) \/ ChannelDrained(t) \/ Replied(t)
       PROVE  UNCHANGED <<pending, chans>>
  BY <1>10 DEF HelloAccepted, ChannelDrained, Replied, channelVars
<1>11. ASSUME NEW t \in Sessions, HelloFails(t) \/ ReadEof(t) \/ ChannelDrainFails(t) \/ ReplyFails(t)
       PROVE  Occupied(s)' \subseteq Occupied(s)
  BY <1>5, <1>11 DEF HelloFails, ReadEof, ChannelDrainFails, ReplyFails
<1>12. ASSUME NEW p \in Pumps, Pump(p) PROVE Occupied(s)' \subseteq Occupied(s)
  <2>1. UNCHANGED pending
    BY <1>12 DEF Pump, PumpStarts, PumpDropped, PumpReads, PumpSent, PumpEnds,
         PumpInterrupted, PumpFinishes, PumpGoes, handlerVars
  <2>2. CASE PumpFinishes(p)
    BY <1>3, <2>1, <2>2 DEF PumpFinishes
  <2>3. CASE ~ PumpFinishes(p)
    BY <1>1, <1>12, <2>1, <2>3 DEF Pump, PumpStarts, PumpDropped, PumpReads, PumpSent,
         PumpEnds, PumpInterrupted, channelVars
  <2> QED BY <2>2, <2>3
<1>13. CASE Tick \/ LanTapClosed \/ StopDone \/ UNCHANGED vars
  BY <1>1, <1>13 DEF Tick, LanTapClosed, StopDone, vars, handlerVars, channelVars
<1>14. CASE Stop
  BY <1>2, <1>14 DEF Stop
<1>15. ASSUME NEW t \in Sessions, Handler(t)
       PROVE  \/ Occupied(s)' \subseteq Occupied(s)
              \/ \E c \in Ids : /\ Occupied(s)' = OpenIds(s) \cup {c}
                                /\ Cardinality(OpenIds(s)) < MaxChannels
  BY <1>1, <1>6, <1>7, <1>8, <1>9, <1>10, <1>11, <1>15 DEF Handler
<1> QED BY <1>1, <1>4, <1>12, <1>13, <1>14, <1>15 DEF Next

\* A session never has more channels than max_channels, the one being opened
\* included, whatever ids the client uses.
THEOREM CapKept == Spec => []ChannelCap
<1> DEFINE Capped == TypeOK /\ ChannelCap
<1>1. Init => Capped
  <2> SUFFICES ASSUME Init, NEW s \in Sessions PROVE Cardinality(Occupied(s)) <= MaxChannels
    BY TypeInit DEF ChannelCap
  <2>1. Occupied(s) = {}
    BY DEF Init, Occupied, OpenIds
  <2> QED BY <2>1, FS_EmptySet, ConstantsAssumption
<1>2. Capped /\ [Next]_vars => Capped'
  <2> SUFFICES ASSUME TypeOK, ChannelCap, [Next]_vars, NEW s \in Sessions
               PROVE  Cardinality(Occupied(s)') <= MaxChannels
    BY TypeStep DEF ChannelCap
  <2>1. OpenIds(s) \subseteq Ids /\ Occupied(s) \subseteq Ids
    BY DEF OpenIds, Occupied, TypeOK, HandlerTypeOK
  <2>2. IsFiniteSet(OpenIds(s)) /\ IsFiniteSet(Occupied(s))
    BY <2>1, FS_Subset, ConstantsAssumption
  <2>3. CASE Occupied(s)' \subseteq Occupied(s)
    <3>1. Cardinality(Occupied(s)') <= Cardinality(Occupied(s))
      BY <2>2, <2>3, FS_Subset
    <3>2. Cardinality(Occupied(s)') \in Nat /\ Cardinality(Occupied(s)) \in Nat
      BY <2>2, <2>3, FS_Subset, FS_CardinalityType
    <3> QED BY <3>1, <3>2, ConstantsAssumption DEF ChannelCap
  <2>4. ASSUME NEW c \in Ids, Occupied(s)' = OpenIds(s) \cup {c},
               Cardinality(OpenIds(s)) < MaxChannels
        PROVE  Cardinality(Occupied(s)') <= MaxChannels
    <3>1. Cardinality(OpenIds(s) \cup {c}) \in {Cardinality(OpenIds(s)), Cardinality(OpenIds(s)) + 1}
      BY <2>2, FS_AddElement
    <3>2. Cardinality(OpenIds(s)) \in Nat
      BY <2>2, FS_CardinalityType
    <3> QED BY <2>4, <3>1, <3>2, ConstantsAssumption
  <2> QED BY <2>3, <2>4, OccupiedShrinks
<1>3. Capped => ChannelCap
  OBVIOUS
<1> QED BY <1>1, <1>2, <1>3, PTL DEF Spec

-----------------------------------------------------------------------------
(* Channels and the pumps of earlier channels.                             *)

\* Every step but an OPEN and its completion.
LEMMA IdsFrame ==
    ASSUME IdsUsedOnce, UNCHANGED <<pending, pumpSession, pumpCh>>,
           \A p \in Pumps : pumpState'[p] # "free" => pumpState[p] # "free",
           \A s \in Sessions : phase'[s] = "opening" => phase[s] = "opening"
    PROVE  IdsUsedOnce'
  BY DEF IdsUsedOnce

LEMMA IdsStep ==
    ASSUME TypeOK, ChannelInv, SessionInv, IdsUsedOnce, [Next]_vars
    PROVE  IdsUsedOnce'
<1> phase \in [Sessions -> Phases] /\ pumpState \in [Pumps -> PumpStates]
  BY DEF TypeOK, HandlerTypeOK, PumpTypeOK
<1>1. ASSUME NEW s \in Sessions, OpenDone(s) PROVE IdsUsedOnce'
  <2>1. PICK p \in Pumps :
          /\ pumpState[p] = "free"
          /\ pumpState' = [pumpState EXCEPT ![p] = "created"]
          /\ pumpSession' = [pumpSession EXCEPT ![p] = s]
          /\ pumpCh' = [pumpCh EXCEPT ![p] = pending[s]]
    BY <1>1 DEF OpenDone
  <2>2. /\ phase[s] = "opening"
        /\ phase' = [phase EXCEPT ![s] = "loop"]
        /\ pending' = [pending EXCEPT ![s] = NoId]
    BY <1>1 DEF OpenDone
  <2>3. \A q \in Pumps : q # p => /\ pumpState'[q] = pumpState[q]
                                  /\ pumpSession'[q] = pumpSession[q]
                                  /\ pumpCh'[q] = pumpCh[q]
    BY <2>1 DEF TypeOK, PumpTypeOK
  <2>4. pumpSession'[p] = s /\ pumpCh'[p] = pending[s]
    BY <2>1 DEF TypeOK, PumpTypeOK
  <2>5. \A t \in Sessions : t # s => phase'[t] = phase[t] /\ pending'[t] = pending[t]
    BY <2>2 DEF TypeOK, HandlerTypeOK
  <2>6. phase'[s] = "loop"
    BY <2>2
  <2>7. \A q, r \in Pumps :
          (/\ ~ ReuseIds
           /\ pumpState'[q] # "free" /\ pumpState'[r] # "free"
           /\ pumpSession'[q] = pumpSession'[r] /\ pumpCh'[q] = pumpCh'[r]) => q = r
    BY <2>2, <2>3, <2>4 DEF IdsUsedOnce
  <2>8. \A t \in Sessions, q \in Pumps :
          ~ ReuseIds /\ phase'[t] = "opening" => ~ (pumpSession'[q] = t /\ pumpCh'[q] = pending'[t])
    BY <2>3, <2>4, <2>5, <2>6 DEF IdsUsedOnce
  <2> QED BY <2>7, <2>8 DEF IdsUsedOnce
<1>2. ASSUME NEW s \in Sessions, NEW c \in UsbIds, RecvOpenUsb(s, c) PROVE IdsUsedOnce'
  <2>1. /\ MayOpen(s, c)
        /\ phase' = [phase EXCEPT ![s] = "opening"]
        /\ pending' = [pending EXCEPT ![s] = c]
        /\ UNCHANGED <<pumpState, pumpSession, pumpCh>>
    BY <1>2 DEF RecvOpenUsb, Read, pumpVars
  <2> QED BY <2>1 DEF MayOpen, IdsUsedOnce, TypeOK, HandlerTypeOK
<1>3. ASSUME NEW s \in Sessions, Exit(s) PROVE IdsUsedOnce'
  BY <1>3, IdsFrame DEF Exit, pumpVars
<1>4. ASSUME NEW s \in Sessions, NEW next \in {"loop", "replying", "chdrain"}, Read(s, next),
             UNCHANGED <<pending, pumpVars>>
      PROVE  IdsUsedOnce'
  BY <1>4, IdsFrame DEF Read, pumpVars
<1>5. ASSUME NEW s \in Sessions, Handler(s) PROVE IdsUsedOnce'
  <2>1. CASE HelloFails(s) \/ ReadEof(s) \/ ChannelDrainFails(s) \/ ReplyFails(s) \/ RecvInvalid(s)
    BY <1>3, <2>1 DEF HelloFails, ReadEof, ChannelDrainFails, ReplyFails, RecvInvalid
  <2>2. CASE HelloAccepted(s) \/ ChannelDrained(s) \/ Replied(s)
    BY <2>2, IdsFrame DEF HelloAccepted, ChannelDrained, Replied, pumpVars
  <2>3. CASE OpenFails(s)
    BY <2>3 DEF OpenFails, IdsUsedOnce, TypeOK, HandlerTypeOK, pumpVars
  <2>4. CASE RecvFrame(s)
    BY <1>2, <1>4, <2>1, <2>4 DEF RecvFrame, RecvOther, RefuseOpenUsb, RecvOpenLan,
         RefuseOpenLan, RecvClose, RecvDataBlocks
  <2> QED BY <1>1, <1>5, <2>1, <2>2, <2>3, <2>4 DEF Handler
<1>6. ASSUME NEW s \in Sessions, Client(s) PROVE IdsUsedOnce'
  <2>1. UNCHANGED <<pending, pumpVars>>
    BY <1>6 DEF Client, Connect, ClientSends, ClientCloses, ClientVanishes
  <2>2. \A t \in Sessions : phase'[t] = "opening" => phase[t] = "opening"
    BY <1>6 DEF Client, Connect, ClientSends, ClientCloses, ClientVanishes
  <2> QED BY <2>1, <2>2, IdsFrame DEF pumpVars
<1>7. ASSUME NEW p \in Pumps, Pump(p) PROVE IdsUsedOnce'
  <2>1. PICK from \in PumpStates \ {"free"}, to \in PumpStates : PumpGoes(p, from, to)
    BY <1>7 DEF Pump, PumpStarts, PumpDropped, PumpReads, PumpSent, PumpEnds,
         PumpInterrupted, PumpFinishes, PumpStates
  <2> QED BY <2>1, IdsFrame DEF PumpGoes, handlerVars
<1>8. CASE Tick \/ LanTapClosed \/ Stop \/ StopDone \/ UNCHANGED vars
  BY <1>8, IdsFrame DEF Tick, LanTapClosed, Stop, StopDone, vars, handlerVars, pumpVars
<1> QED BY <1>5, <1>6, <1>7, <1>8 DEF Next

LEMMA KeptStep ==
    ASSUME DisjointIds, ~ ReuseIds, IndInv, IdsUsedOnce, [Next]_vars,
           NEW s \in Sessions, NEW c \in OpenIds(s), chans'[s][c] # chans[s][c]
    PROVE  \/ RecvClose(s, c)
           \/ s \in closed' \ closed
           \/ pumpState'[chans[s][c]] = "done"
<1> TypeOK /\ ChannelInv /\ SessionInv
  BY DEF IndInv
<1> c \in Ids /\ chans[s][c] # NoPump
  BY DEF OpenIds
<1>1. ~ UNCHANGED chans
  OBVIOUS
<1>2. ASSUME NEW S \in SUBSET Sessions, Cleanup(S), S \cap closed = {} PROVE s \in closed' \ closed
  BY <1>2 DEF Cleanup
<1>3. ASSUME NEW t \in Sessions, NEW d \in Ids, CloseChannel(t, d) PROVE t = s /\ d = c
  BY <1>3 DEF CloseChannel, TypeOK, ChannelTypeOK
<1>4. ASSUME NEW t \in Sessions, Exit(t) PROVE s \in closed' \ closed
  BY <1>2, <1>4 DEF Exit
<1>5. ASSUME NEW t \in Sessions, OpenDone(t) PROVE FALSE
  <2>1. chans[t][pending[t]] = NoPump
    BY <1>5 DEF OpenDone, SessionInv, OpeningInv
  <2>2. PICK p \in Pumps : chans' = [chans EXCEPT ![t][pending[t]] = p]
    BY <1>5 DEF OpenDone
  <2> QED BY <2>1, <2>2 DEF TypeOK, ChannelTypeOK
<1>6. ASSUME NEW t \in Sessions, Handler(t) PROVE RecvClose(s, c) \/ s \in closed' \ closed
  <2>1. CASE HelloFails(t) \/ ReadEof(t) \/ ChannelDrainFails(t) \/ ReplyFails(t) \/ RecvInvalid(t)
    BY <1>4, <2>1 DEF HelloFails, ReadEof, ChannelDrainFails, ReplyFails, RecvInvalid
  <2>2. ASSUME NEW d \in Ids, RecvClose(t, d) PROVE RecvClose(s, c)
    BY <1>3, <2>2 DEF RecvClose
  <2>3. CASE RecvFrame(t)
    BY <1>1, <2>1, <2>2, <2>3 DEF RecvFrame, RecvOther, RecvOpenUsb, RefuseOpenUsb,
         RecvOpenLan, RefuseOpenLan, RecvDataBlocks, channelVars
  <2>4. CASE HelloAccepted(t) \/ OpenFails(t) \/ ChannelDrained(t) \/ Replied(t)
    BY <1>1, <2>4 DEF HelloAccepted, OpenFails, ChannelDrained, Replied, channelVars
  <2> QED BY <1>5, <1>6, <2>1, <2>3, <2>4 DEF Handler
<1>7. ASSUME NEW p \in Pumps, Pump(p) PROVE pumpState'[chans[s][c]] = "done"
  <2>1. PumpFinishes(p)
    BY <1>1, <1>7 DEF Pump, PumpStarts, PumpDropped, PumpReads, PumpSent, PumpEnds,
         PumpInterrupted, channelVars
  <2>2. pumpState[p] = "closing" /\ pumpState' = [pumpState EXCEPT ![p] = "done"]
    BY <2>1 DEF PumpFinishes, PumpGoes
  <2>3. pumpSession[p] \in Sessions /\ pumpCh[p] \in Ids
    BY <2>2 DEF ChannelInv, PumpInv, Ids
  <2>4. pumpSession[p] = s /\ pumpCh[p] = c
    BY <1>3, <2>1, <2>3 DEF PumpFinishes
  <2>5. chans[s][c] \in Pumps /\ Serves(chans[s][c], s, c)
    BY RegisteredIds
  <2>6. chans[s][c] = p
    BY <2>2, <2>4, <2>5 DEF IdsUsedOnce, Serves
  <2> QED BY <2>2, <2>6 DEF TypeOK, PumpTypeOK
<1>8. ASSUME NEW t \in Sessions, Client(t) PROVE FALSE
  BY <1>1, <1>8 DEF Client, Connect, ClientSends, ClientCloses, ClientVanishes, channelVars
<1>9. CASE Tick \/ LanTapClosed \/ StopDone \/ UNCHANGED vars
  BY <1>1, <1>9 DEF Tick, LanTapClosed, StopDone, vars, channelVars
<1>10. CASE Stop
  <2>1. registered \ closed \in SUBSET Sessions
    BY DEF TypeOK, ServerTypeOK
  <2> QED BY <1>2, <1>10, <2>1 DEF Stop
<1> QED BY <1>6, <1>7, <1>8, <1>9, <1>10 DEF Next

\* A client that uses every id once, as this repository's does, never loses a
\* channel to the end of another one.
THEOREM ChannelsKept ==
    ASSUME DisjointIds, ~ ReuseIds PROVE Spec => ChannelKept
<1>1. Init => IdsUsedOnce
  BY DEF Init, IdsUsedOnce
<1>2. IndInv /\ IdsUsedOnce /\ [Next]_vars => IdsUsedOnce'
  BY IdsStep DEF IndInv
<1>3. IndInv /\ IdsUsedOnce /\ [Next]_vars =>
        [\A s \in Sessions : \A c \in OpenIds(s) :
           chans'[s][c] # chans[s][c] =>
               \/ RecvClose(s, c)
               \/ s \in closed' \ closed
               \/ pumpState'[chans[s][c]] = "done"]_vars
  BY KeptStep
<1> QED BY <1>1, <1>2, <1>3, Inductive, PTL DEF Spec, ChannelKept

-----------------------------------------------------------------------------
(* Ended sessions and lost connections: what PumpsEnd and DeadReaped rest  *)
(* on.                                                                     *)

\* A cleanup closes the connection, and every handler that has ended did its session's;
\* before its hello is answered a session is neither closed nor registered, and while
\* the server runs it is never both (server.py:700-717, 858-873).
LifeInv ==
    /\ \A s \in Sessions :
          /\ s \in closed => conn[s] = "lost"
          /\ phase[s] = "done" => s \in closed
          /\ phase[s] \in {"idle", "hello"} => s \notin closed \cup registered
          /\ server = "running" => ~ (s \in closed /\ s \in registered)
    /\ \A p \in Pumps : pumpState[p] = "free" => pumpSession[p] = NoSession

\* What a step does to one session: something of its client's or its handler's, or of
\* the keepalive or stop(), or nothing.
LEMMA SessionMoves ==
    ASSUME TypeOK, [Next]_vars, NEW s \in Sessions
    PROVE  \/ Client(s) \/ Handler(s) \/ Tick \/ Stop
           \/ /\ phase'[s] = phase[s] /\ conn'[s] = conn[s]
              /\ unread'[s] = unread[s] /\ age'[s] = age[s]
              /\ s \in closed' <=> s \in closed
              /\ s \in registered' <=> s \in registered
<1> USE DEF TypeOK, HandlerTypeOK
<1> DEFINE Still == /\ phase'[s] = phase[s] /\ conn'[s] = conn[s]
                    /\ unread'[s] = unread[s] /\ age'[s] = age[s]
                    /\ s \in closed' <=> s \in closed
                    /\ s \in registered' <=> s \in registered
<1>1. ASSUME NEW t \in Sessions, t # s, Client(t) PROVE Still
  BY <1>1 DEF Client, Connect, ClientSends, ClientCloses, ClientVanishes, serverVars
<1>2. ASSUME NEW t \in Sessions, t # s, Exit(t), unread'[s] = unread[s] PROVE Still
  BY <1>2 DEF Exit, Cleanup
<1>3. ASSUME NEW t \in Sessions, t # s, NEW next, Read(t, next), UNCHANGED serverVars PROVE Still
  BY <1>3 DEF Read, serverVars
<1>4. ASSUME NEW t \in Sessions, t # s, RecvFrame(t) PROVE Still
  <2>1. CASE RecvInvalid(t)
    BY <1>2, <1>4, <2>1 DEF RecvInvalid
  <2>2. CASE ~ RecvInvalid(t)
    BY <1>3, <1>4, <2>2 DEF RecvFrame, RecvOther, RecvOpenUsb, RefuseOpenUsb, RecvOpenLan,
         RefuseOpenLan, RecvClose, RecvDataBlocks
  <2> QED BY <2>1, <2>2
<1>5. ASSUME NEW t \in Sessions, t # s, Handler(t) PROVE Still
  <2>1. CASE HelloFails(t) \/ ReadEof(t) \/ ChannelDrainFails(t) \/ ReplyFails(t)
    BY <1>2, <1>5, <2>1 DEF HelloFails, ReadEof, ChannelDrainFails, ReplyFails
  <2>2. CASE HelloAccepted(t) \/ OpenDone(t) \/ OpenFails(t) \/ ChannelDrained(t) \/ Replied(t)
    BY <1>5, <2>2 DEF HelloAccepted, OpenDone, OpenFails, ChannelDrained, Replied, serverVars
  <2> QED BY <1>4, <1>5, <2>1, <2>2 DEF Handler
<1>6. ASSUME NEW p \in Pumps, Pump(p) PROVE Still
  BY <1>6 DEF Pump, PumpStarts, PumpDropped, PumpReads, PumpSent, PumpEnds, PumpInterrupted,
       PumpFinishes, PumpGoes, handlerVars, serverVars
<1>7. CASE LanTapClosed \/ StopDone \/ UNCHANGED vars
  BY <1>7 DEF LanTapClosed, StopDone, vars, handlerVars, serverVars
<1> QED BY <1>1, <1>5, <1>6, <1>7 DEF Next

\* What a step of a handler does to its own session.
LEMMA HandlerMoves ==
    ASSUME TypeOK, NEW s \in Sessions, Handler(s)
    PROVE  \/ Exit(s) /\ phase[s] # "idle" /\ unread'[s] \in {unread[s], unread[s] - 1}
           \/ HelloAccepted(s)
           \/ /\ UNCHANGED <<conn, server, closed, registered>>
              /\ \/ phase[s] = "loop" /\ phase'[s] \in {"loop", "replying", "opening", "chdrain"}
                    /\ unread[s] > 0 /\ unread'[s] = unread[s] - 1
                 \/ /\ phase[s] \in {"replying", "opening", "chdrain"}
                    /\ phase'[s] \in (IF phase[s] = "opening" THEN {"replying", "loop"} ELSE {"loop"})
                    /\ UNCHANGED unread
<1> USE DEF TypeOK, HandlerTypeOK
<1>1. ASSUME NEW next \in {"loop", "replying", "opening", "chdrain"}, Read(s, next),
             UNCHANGED serverVars
      PROVE  /\ UNCHANGED <<conn, server, closed, registered>>
             /\ phase[s] = "loop" /\ phase'[s] \in {"loop", "replying", "opening", "chdrain"}
             /\ unread[s] > 0 /\ unread'[s] = unread[s] - 1
  BY <1>1 DEF Read, serverVars
<1>2. CASE RecvFrame(s) /\ ~ RecvInvalid(s)
  BY <1>1, <1>2 DEF RecvFrame, RecvOther, RecvOpenUsb, RefuseOpenUsb, RecvOpenLan,
       RefuseOpenLan, RecvClose, RecvDataBlocks
<1>3. CASE RecvInvalid(s) \/ HelloFails(s) \/ ReadEof(s) \/ ChannelDrainFails(s) \/ ReplyFails(s)
  BY <1>3 DEF RecvInvalid, HelloFails, ReadEof, ChannelDrainFails, ReplyFails
<1>4. CASE OpenDone(s) \/ OpenFails(s) \/ ChannelDrained(s) \/ Replied(s)
  BY <1>4 DEF OpenDone, OpenFails, ChannelDrained, Replied, serverVars
<1> QED BY <1>2, <1>3, <1>4 DEF Handler

LEMMA LifeStep == TypeOK /\ LifeInv /\ [Next]_vars => LifeInv'
<1> SUFFICES ASSUME TypeOK, LifeInv, [Next]_vars PROVE LifeInv'
  OBVIOUS
<1> DEFINE Fine(s) == /\ s \in closed => conn[s] = "lost"
                      /\ phase[s] = "done" => s \in closed
                      /\ phase[s] \in {"idle", "hello"} => s \notin closed \cup registered
                      /\ server = "running" => ~ (s \in closed /\ s \in registered)
<1>1. ASSUME NEW s \in Sessions PROVE Fine(s)'
  <2>1. Fine(s)
    BY DEF LifeInv
  <2>2. server' = "running" => server = "running"
    BY DEF Next, Client, Connect, ClientSends, ClientCloses, ClientVanishes, Handler, HelloAccepted,
       HelloFails, RecvFrame, RecvOther, RecvInvalid, RecvOpenUsb, RefuseOpenUsb, RecvOpenLan,
       RefuseOpenLan, RecvClose, RecvDataBlocks, ReadEof, OpenDone, OpenFails, ChannelDrained,
       ChannelDrainFails, Replied, ReplyFails, Exit, Pump, PumpStarts, PumpDropped, PumpReads,
       PumpSent, PumpEnds, PumpInterrupted, PumpFinishes, PumpGoes, Tick, LanTapClosed, Stop,
       StopDone, vars, serverVars
  <2>3. CASE Client(s)
    BY <2>1, <2>3 DEF Client, Connect, ClientSends, ClientCloses, ClientVanishes, serverVars,
       TypeOK, HandlerTypeOK
  <2>4. CASE Handler(s)
    <3>1. CASE Exit(s) /\ phase[s] # "idle"
      BY <2>1, <3>1 DEF Exit, Cleanup, TypeOK, HandlerTypeOK
    <3>2. CASE HelloAccepted(s)
      BY <2>1, <3>2 DEF HelloAccepted, TypeOK, HandlerTypeOK
    <3>3. CASE /\ UNCHANGED <<conn, server, closed, registered>>
               /\ phase[s] \notin {"idle", "hello", "done"} /\ phase'[s] \notin {"idle", "hello", "done"}
      BY <2>1, <3>3
    <3> QED BY <2>4, <3>1, <3>2, <3>3, HandlerMoves
  <2>5. CASE Tick
    BY <2>1, <2>5 DEF Tick, serverVars
  <2>6. CASE Stop
    BY <2>1, <2>6 DEF Stop, Cleanup
  <2>7. CASE /\ phase'[s] = phase[s] /\ conn'[s] = conn[s]
             /\ s \in closed' <=> s \in closed
             /\ s \in registered' <=> s \in registered
    BY <2>1, <2>2, <2>7
  <2> QED BY <2>3, <2>4, <2>5, <2>6, <2>7, SessionMoves
<1>2. ASSUME NEW p \in Pumps PROVE pumpState'[p] = "free" => pumpSession'[p] = NoSession
  <2>1. pumpState[p] = "free" => pumpSession[p] = NoSession
    BY DEF LifeInv
  <2>2. \/ UNCHANGED <<pumpState, pumpSession>>
        \/ \E s \in Sessions : OpenDone(s)
        \/ \E q \in Pumps, from, to \in PumpStates \ {"free"} : PumpGoes(q, from, to)
    BY DEF Next, Client, Connect, ClientSends, ClientCloses, ClientVanishes, Handler, HelloAccepted,
       HelloFails, RecvFrame, RecvOther, RecvInvalid, RecvOpenUsb, RefuseOpenUsb, RecvOpenLan,
       RefuseOpenLan, RecvClose, RecvDataBlocks, ReadEof, OpenFails, ChannelDrained,
       ChannelDrainFails, Replied, ReplyFails, Exit, Pump, PumpStarts, PumpDropped, PumpReads,
       PumpSent, PumpEnds, PumpInterrupted, PumpFinishes, Tick, LanTapClosed, Stop, PumpStates,
       StopDone, vars, pumpVars
  <2>3. CASE \E s \in Sessions : OpenDone(s)
    BY <2>1, <2>3 DEF OpenDone, TypeOK, PumpTypeOK
  <2>4. CASE \E q \in Pumps, from, to \in PumpStates \ {"free"} : PumpGoes(q, from, to)
    BY <2>1, <2>4 DEF PumpGoes, TypeOK, PumpTypeOK
  <2> QED BY <2>1, <2>2, <2>3, <2>4
<1> QED BY <1>1, <1>2 DEF LifeInv

LEMMA LifeInvariant == Spec => []LifeInv
<1>1. Init => LifeInv
  BY DEF Init, LifeInv
<1> QED BY <1>1, LifeStep, TypeCorrect, PTL DEF Spec

\* What may run, can: a step that is due is one that the model can take.  It is read off
\* the actions, and is a hypothesis of the theorems below: the provers do not look into
\* ENABLED.
RunsWhenDue ==
    /\ \A p \in Pumps :
          \/ pumpState[p] = "created"
          \/ pumpState[p] \in {"reading", "sending"} /\ p \in cancelled
          \/ pumpState[p] \in {"sending", "closing"} /\ conn[pumpSession[p]] = "lost"
          => ENABLED <<PumpProceeds(p)>>_vars
    /\ \A s \in Sessions :
          /\ \/ phase[s] = "opening"
             \/ phase[s] \in {"loop", "replying"} /\ conn[s] = "lost"
             => ENABLED <<HandlerProceeds(s)>>_vars
          /\ phase[s] = "chdrain" => ENABLED <<ChannelDrained(s) \/ ChannelDrainFails(s)>>_vars
          /\ server = "running" /\ s \in registered /\ conn[s] = "silent" => ENABLED <<Tick>>_vars

\* What a step does to the pump of a session that has ended: it goes on to its end.
LEMMA EndedPumpMoves ==
    ASSUME TypeOK, LifeInv, [Next]_vars, NEW s \in Sessions, NEW p \in Pumps,
           phase[s] = "done", pumpSession[p] = s
    PROVE  /\ phase'[s] = "done" /\ pumpSession'[p] = s
           /\ pumpState[p] \in {"created", "reading", "sending", "closing", "done"}
           /\ pumpState[p] = "created" => pumpState'[p] \in {"created", "reading", "done"}
           /\ pumpState[p] \in {"reading", "sending"} => pumpState'[p] \in {"reading", "sending", "closing"}
           /\ pumpState[p] = "closing" => pumpState'[p] \in {"closing", "done"}
           /\ pumpState[p] = "done" => pumpState'[p] = "done"
           /\ p \in cancelled /\ pumpState[p] \in {"reading", "sending"} =>
                 p \in cancelled' \/ pumpState'[p] = "closing"
           /\ PumpProceeds(p) =>
                 /\ pumpState'[p] # "created"
                 /\ pumpState[p] # "created" => pumpState'[p] \in {"closing", "done"}
                 /\ pumpState[p] = "closing" => pumpState'[p] = "done"
<1> USE DEF TypeOK, HandlerTypeOK, PumpTypeOK
<1>1. phase'[s] = "done"
  <2>1. ~ Handler(s)
    BY DEF Handler, HelloAccepted, HelloFails, RecvFrame, RecvOther, RecvInvalid, RecvOpenUsb,
       RefuseOpenUsb, RecvOpenLan, RefuseOpenLan, RecvClose, RecvDataBlocks, Read, ReadEof,
       OpenDone, OpenFails, ChannelDrained, ChannelDrainFails, Replied, ReplyFails
  <2>2. Client(s) \/ Tick \/ Stop => phase' = phase
    BY DEF Client, Connect, ClientSends, ClientCloses, ClientVanishes, Tick, Stop
  <2> QED BY <2>1, <2>2, SessionMoves
<1>2. pumpState[p] # "free"
  BY ConstantsAssumption DEF LifeInv
<1>3. PumpProceeds(p) =>
          \/ pumpState[p] = "created" /\ pumpState'[p] \in {"reading", "done"}
          \/ pumpState[p] \in {"reading", "sending"} /\ pumpState'[p] = "closing"
          \/ pumpState[p] = "closing" /\ pumpState'[p] = "done"
  BY DEF PumpProceeds, PumpStarts, PumpDropped, PumpInterrupted, PumpEnds, PumpFinishes, PumpGoes
<1>4. \/ UNCHANGED <<pumpState, pumpSession>>
      \/ \E t \in Sessions : OpenDone(t)
      \/ \E q \in Pumps, from, to \in PumpStates :
            /\ PumpGoes(q, from, to)
            /\ \/ from = "created" /\ to \in {"reading", "done"}
               \/ from \in {"reading", "sending"} /\ to \in {"reading", "sending", "closing"}
               \/ from = "closing" /\ to = "done"
  BY DEF Next, Client, Connect, ClientSends, ClientCloses, ClientVanishes, Handler, HelloAccepted,
       HelloFails, RecvFrame, RecvOther, RecvInvalid, RecvOpenUsb, RefuseOpenUsb, RecvOpenLan,
       RefuseOpenLan, RecvClose, RecvDataBlocks, ReadEof, OpenFails, ChannelDrained,
       ChannelDrainFails, Replied, ReplyFails, Exit, Pump, PumpStarts, PumpDropped, PumpReads,
       PumpSent, PumpEnds, PumpInterrupted, PumpFinishes, Tick, LanTapClosed, Stop, PumpStates,
       StopDone, vars, pumpVars
<1>8. p \in cancelled /\ p \notin cancelled' =>
          \/ PumpGoes(p, "created", "done")
          \/ PumpGoes(p, "reading", "closing") \/ PumpGoes(p, "sending", "closing")
  <2>1. ASSUME NEW X, Cleanup(X) PROVE cancelled \subseteq cancelled'
    BY <2>1 DEF Cleanup
  <2>2. ASSUME NEW t, NEW c, CloseChannel(t, c) PROVE cancelled \subseteq cancelled'
    BY <2>2 DEF CloseChannel
  <2>3. ASSUME NEW t \in Sessions, Client(t) \/ Handler(t) PROVE cancelled \subseteq cancelled'
    BY <2>1, <2>2, <2>3 DEF Client, Connect, ClientSends, ClientCloses, ClientVanishes, Handler,
         HelloAccepted, HelloFails, RecvFrame, RecvOther, RecvInvalid, RecvOpenUsb, RefuseOpenUsb,
         RecvOpenLan, RefuseOpenLan, RecvClose, RecvDataBlocks, ReadEof, OpenDone, OpenFails,
         ChannelDrained, ChannelDrainFails, Replied, ReplyFails, Exit, channelVars
  <2>4. Tick \/ LanTapClosed \/ Stop \/ StopDone \/ UNCHANGED vars => cancelled \subseteq cancelled'
    BY <2>1 DEF Tick, LanTapClosed, Stop, StopDone, vars, channelVars
  <2>5. ASSUME NEW q \in Pumps, Pump(q), p \in cancelled, p \notin cancelled'
        PROVE  q = p /\ (PumpDropped(q) \/ PumpInterrupted(q))
    BY <2>2, <2>5 DEF Pump, PumpStarts, PumpDropped, PumpReads, PumpSent, PumpEnds,
         PumpInterrupted, PumpFinishes, channelVars
  <2> QED BY <2>3, <2>4, <2>5 DEF Next, PumpDropped, PumpInterrupted
<1>5. CASE \E t \in Sessions : OpenDone(t)
  <2>1. pumpState'[p] = pumpState[p] /\ pumpSession'[p] = pumpSession[p]
    BY <1>2, <1>5 DEF OpenDone
  <2>2. ~ PumpProceeds(p)
    BY <1>3, <2>1
  <2> QED BY <1>1, <1>2, <1>8, <2>1, <2>2 DEF PumpStates, PumpGoes
<1>6. CASE UNCHANGED <<pumpState, pumpSession>>
  <2>1. ~ PumpProceeds(p)
    BY <1>3, <1>6
  <2> QED BY <1>1, <1>2, <1>6, <1>8, <2>1 DEF PumpStates, PumpGoes
<1>7. CASE \E q \in Pumps, from, to \in PumpStates :
            /\ PumpGoes(q, from, to)
            /\ \/ from = "created" /\ to \in {"reading", "done"}
               \/ from \in {"reading", "sending"} /\ to \in {"reading", "sending", "closing"}
               \/ from = "closing" /\ to = "done"
  BY <1>1, <1>2, <1>3, <1>7, <1>8 DEF PumpGoes, PumpStates
<1> QED BY <1>4, <1>5, <1>6, <1>7

\* The pump of an ended session that is neither cancelled nor out of its loop is one
\* that stop() missed: nothing else is still registered.
LEMMA UncancelledIsStranded ==
    ASSUME IndInv, LifeInv, NEW s \in Sessions, NEW p \in Pumps,
           phase[s] = "done", pumpSession[p] = s,
           pumpState[p] \in {"reading", "sending"}, p \notin cancelled
    PROVE  Stranded(p)
<1>1. RegisteredAs(p, s, pumpCh[p]) /\ pumpCh[p] \in Ids
  BY DEF IndInv, ChannelInv, NothingOrphaned, PumpInv, Ids
<1>2. s \in closed
  BY DEF LifeInv
<1>3. pumpCh[p] \in OpenIds(s)
  BY <1>1, ConstantsAssumption DEF RegisteredAs, OpenIds
<1>4. server # "running"
  BY <1>2, <1>3 DEF IndInv, SessionInv, ClosedInv
<1> QED BY <1>1, <1>2, <1>4 DEF Stranded

\* Every pump of a session ends after its handler has, in whatever state the handler
\* left it: not started, waiting for a usbipd that may never send again, sending to a
\* client that is gone, or with a cancellation to come.  Only the channel that was
\* being opened while stop() closed the session is left (server.py:716-717, 827-873).
THEOREM EachPumpEnds ==
    ASSUME DisjointIds, NEW s \in Sessions, NEW p \in Pumps
    PROVE  FairSpec /\ []RunsWhenDue =>
               (phase[s] = "done" /\ pumpSession[p] = s
                    ~> pumpState[p] = "done" \/ Stranded(p))
<1> DEFINE L == phase[s] = "done" /\ pumpSession[p] = s
           S1 == L /\ pumpState[p] = "created"
           S2 == L /\ pumpState[p] \in {"reading", "sending"} /\ p \in cancelled
           S3 == L /\ pumpState[p] = "closing"
           Q == pumpState[p] = "done" \/ Stranded(p)
           I == IndInv /\ LifeInv
           A == PumpProceeds(p)
<1>t. I => TypeOK
  BY DEF IndInv
<1>1. I /\ L => S1 \/ S2 \/ S3 \/ Q
  BY <1>t, UncancelledIsStranded, ConstantsAssumption DEF LifeInv, TypeOK, PumpTypeOK, PumpStates
<1>p. I' /\ L' => S1' \/ S2' \/ S3' \/ Q'
  BY <1>1, PTL
<1>2. I /\ I' /\ S1 /\ [Next]_vars => S1' \/ S2' \/ Q'
  <2>1. I /\ S1 /\ [Next]_vars => L' /\ pumpState'[p] \in {"created", "reading", "done"}
    BY <1>t, EndedPumpMoves
  <2> QED BY <2>1, <1>p
<1>3. I /\ I' /\ S1 /\ <<A /\ Next>>_vars => S2' \/ Q'
  <2>1. I /\ S1 /\ <<A /\ Next>>_vars => L' /\ pumpState'[p] \in {"reading", "done"}
    BY <1>t, EndedPumpMoves
  <2> QED BY <2>1, <1>p
<1>4. I /\ S2 /\ [Next]_vars => S2' \/ S3'
  BY <1>t, EndedPumpMoves
<1>5. I /\ S2 /\ <<A /\ Next>>_vars => S3' \/ Q'
  BY <1>t, EndedPumpMoves
<1>6. I /\ S3 /\ [Next]_vars => S3' \/ Q'
  BY <1>t, EndedPumpMoves
<1>7. I /\ S3 /\ <<A /\ Next>>_vars => Q'
  BY <1>t, EndedPumpMoves
<1>8. I /\ RunsWhenDue /\ (S1 \/ S2 \/ S3) => ENABLED <<A>>_vars
  BY DEF RunsWhenDue, LifeInv
<1>9. A => Next
  BY DEF PumpProceeds, Next, Pump
<1>10. FairSpec => Spec /\ PumpsFair
  BY PTL DEF FairSpec, ServerFairness
<1>11. PumpsFair => PumpFairness(p)
  BY DEF PumpsFair
<1>12. PumpFairness(p) => WF_vars(A)
  BY PTL DEF PumpFairness
<1> HIDE DEF L, S1, S2, S3, Q, I, A
<1> QED BY <1>1, <1>2, <1>3, <1>4, <1>5, <1>6, <1>7, <1>8, <1>9, <1>10, <1>11, <1>12,
           Inductive, LifeInvariant, PTL DEF Spec, L, Q, I

\* What a step does to a registered session whose connection is silent or lost.  `Left` is
\* how much there is to wait for: frames to read, then keepalive intervals.
LEMMA DeadMoves ==
    ASSUME TypeOK, LifeInv, [Next]_vars, NEW s \in Sessions,
           server = "running", s \in registered, conn[s] \in {"silent", "lost"},
           server' = "running", s \in registered'
    PROVE  /\ conn'[s] \in {conn[s], "lost"}
           /\ phase[s] \in {"loop", "replying", "opening", "chdrain"}
           /\ \/ unread'[s] = unread[s] - 1 /\ unread[s] > 0
              \/ /\ unread'[s] = unread[s]
                 /\ conn'[s] = "silent" => age'[s] >= age[s]
                 /\ phase[s] = "loop" => phase'[s] = "loop" /\ ~ HandlerProceeds(s)
                 /\ phase[s] = "replying" => phase'[s] \in {"replying", "loop"}
                 /\ phase[s] = "chdrain" => phase'[s] \in {"chdrain", "loop"}
                 /\ phase[s] = "opening" => phase'[s] \in {"opening", "replying", "loop"}
                 /\ HandlerProceeds(s) => phase'[s] # phase[s]
                 /\ ChannelDrained(s) \/ ChannelDrainFails(s) => phase'[s] # phase[s]
                 /\ Tick /\ conn'[s] = "silent" => age'[s] > age[s]
<1> USE DEF TypeOK, HandlerTypeOK
<1>1. s \notin closed
  BY DEF LifeInv
<1>2. phase[s] \in {"loop", "replying", "opening", "chdrain"}
  BY <1>1 DEF LifeInv, Phases
<1>3. ~ Exit(s)
  BY <1>1 DEF Exit, Cleanup
<1>4. /\ HandlerProceeds(s) =>
            /\ phase[s] \in {"replying", "opening"} /\ phase'[s] # phase[s]
            /\ UNCHANGED <<conn, unread, age>>
      /\ ChannelDrained(s) \/ ChannelDrainFails(s) =>
            phase'[s] # phase[s] /\ UNCHANGED <<conn, unread, age>>
  BY <1>2, <1>3 DEF HandlerProceeds, ReadEof, ReplyFails, Replied, OpenDone, OpenFails, HelloFails,
     ChannelDrained, ChannelDrainFails
<1>5. unread[s] \in Nat /\ age[s] \in Nat
  BY ConstantsAssumption
<1>6. Tick => /\ UNCHANGED <<unread, phase>>
              /\ conn'[s] = "silent" => age'[s] > age[s] /\ age'[s] >= age[s]
              /\ conn'[s] \in {conn[s], "lost"}
  <2>1. ASSUME Tick PROVE conn'[s] = IF age[s] > KickAge THEN "lost" ELSE conn[s]
    BY <2>1 DEF Tick
  <2>2. ASSUME Tick PROVE age'[s] = IF age[s] <= KickAge THEN age[s] + 1 ELSE age[s]
    BY <2>2 DEF Tick
  <2>3. Tick => UNCHANGED <<unread, phase>>
    BY DEF Tick
  <2> QED BY <1>5, <2>1, <2>2, <2>3, ConstantsAssumption
<1>7. CASE Client(s)
  <2>1. conn'[s] = "lost" /\ UNCHANGED <<unread, age, phase>> /\ conn[s] # "lost"
    BY <1>2, <1>7 DEF Client, Connect, ClientSends, ClientCloses, ClientVanishes
  <2> QED BY <1>2, <1>4, <1>6, <2>1
<1>8. CASE Handler(s)
  <2>1. CASE HelloAccepted(s)
    BY <1>2, <2>1 DEF HelloAccepted
  <2>2. CASE /\ UNCHANGED conn
             /\ phase[s] = "loop" /\ unread[s] > 0 /\ unread'[s] = unread[s] - 1
    BY <1>2, <2>2
  <2>3. CASE /\ UNCHANGED <<conn, unread>>
             /\ phase[s] \in {"replying", "opening", "chdrain"}
             /\ phase'[s] \in (IF phase[s] = "opening" THEN {"replying", "loop"} ELSE {"loop"})
    <3>1. age'[s] >= age[s]
      BY <1>3, <1>5, <1>8, <2>3 DEF Handler, HelloAccepted, HelloFails, RecvFrame, RecvOther,
         RecvInvalid, RecvOpenUsb, RefuseOpenUsb, RecvOpenLan, RefuseOpenLan, RecvClose,
         RecvDataBlocks, Read, ReadEof, OpenDone, OpenFails, ChannelDrained, ChannelDrainFails,
         Replied, ReplyFails
    <3> QED BY <1>2, <1>4, <1>5, <1>6, <2>3, <3>1
  <2> QED BY <1>3, <1>8, <2>1, <2>2, <2>3, HandlerMoves
<1>9. CASE Tick
  BY <1>2, <1>4, <1>5, <1>6, <1>9
<1>10. ~ Stop
  BY DEF Stop
<1>11. CASE phase'[s] = phase[s] /\ conn'[s] = conn[s] /\ unread'[s] = unread[s] /\ age'[s] = age[s]
  BY <1>2, <1>4, <1>5, <1>6, <1>11
<1> QED BY <1>7, <1>8, <1>9, <1>10, <1>11, SessionMoves

\* A registered client that has vanished does not stay unnoticed: what it had sent is
\* read, or the intervals since are counted on, until it is kicked.  With each value of
\* `unread` and `age` left for good, keepalive finds it (server.py:875-889).
THEOREM SilenceRunsOut ==
    ASSUME NEW s \in Sessions, NEW u \in Nat, NEW a \in Nat
    PROVE  FairSpec /\ []RunsWhenDue =>
               ((s \in registered /\ conn[s] = "silent" /\ unread[s] = u /\ age[s] = a)
                    ~> \/ s \notin registered \/ server # "running" \/ conn[s] = "lost"
                       \/ unread[s] < u
                       \/ unread[s] = u /\ age[s] > a)
<1> DEFINE P == s \in registered /\ conn[s] = "silent" /\ unread[s] = u /\ age[s] = a
           Q == \/ s \notin registered \/ server # "running" \/ conn[s] = "lost"
                \/ unread[s] < u
                \/ unread[s] = u /\ age[s] > a
           I == TypeOK /\ LifeInv
<1>1. I /\ P /\ ~ Q /\ [Next]_vars => P' \/ Q'
  <2> SUFFICES ASSUME I, P, ~ Q, [Next]_vars, ~ Q' PROVE P'
    OBVIOUS
  <2>1. age'[s] \in Nat /\ TypeOK'
    BY TypeStep, ConstantsAssumption DEF TypeOK, HandlerTypeOK
  <2> QED BY <2>1, DeadMoves
<1>2. I /\ P /\ ~ Q /\ <<Tick /\ Next>>_vars => Q'
  BY DeadMoves
<1>3. I /\ RunsWhenDue /\ P /\ ~ Q => ENABLED <<Tick>>_vars
  BY DEF RunsWhenDue
<1>4. Tick => Next
  BY DEF Next
<1>5. FairSpec => Spec /\ WF_vars(Tick)
  BY PTL DEF FairSpec, ServerFairness
<1> HIDE DEF P, Q, I
<1>6. FairSpec /\ []RunsWhenDue => (P ~> Q)
  BY <1>1, <1>2, <1>3, <1>4, <1>5, TypeCorrect, LifeInvariant, PTL DEF Spec, I
<1> QED BY <1>6 DEF P, Q

\* A registered session whose connection is lost, by a kick or by its client, does not
\* stay as it is: its handler comes to read what is left, or the end of the stream, from
\* wherever it waits.  With each value of `unread` left for good, the session is removed
\* (server.py:716-717, 722-756).
THEOREM LossIsNoticed ==
    ASSUME NEW s \in Sessions, NEW u \in Nat
    PROVE  FairSpec /\ []RunsWhenDue =>
               ((s \in registered /\ conn[s] = "lost" /\ unread[s] = u)
                    ~> (s \notin registered \/ server # "running" \/ unread[s] < u))
<1> DEFINE P == s \in registered /\ conn[s] = "lost" /\ unread[s] = u
           Q == s \notin registered \/ server # "running" \/ unread[s] < u
           At(where) == P /\ server = "running" /\ phase[s] = where
           H == HandlerProceeds(s)
           D == ChannelDrained(s) \/ ChannelDrainFails(s)
           I == TypeOK /\ LifeInv
<1>1. I /\ P => At("opening") \/ At("replying") \/ At("chdrain") \/ At("loop") \/ Q
  BY DEF LifeInv, TypeOK, HandlerTypeOK, Phases
<1>2. I /\ At("opening") /\ [Next]_vars => At("opening")' \/ At("replying")' \/ At("loop")' \/ Q'
  BY DeadMoves
<1>3. I /\ At("opening") /\ <<H /\ Next>>_vars => At("replying")' \/ At("loop")' \/ Q'
  BY DeadMoves
<1>4. I /\ At("replying") /\ [Next]_vars => At("replying")' \/ At("loop")' \/ Q'
  BY DeadMoves
<1>5. I /\ At("replying") /\ <<H /\ Next>>_vars => At("loop")' \/ Q'
  BY DeadMoves
<1>6. I /\ At("chdrain") /\ [Next]_vars => At("chdrain")' \/ At("loop")' \/ Q'
  BY DeadMoves
<1>7. I /\ At("chdrain") /\ <<D /\ Next>>_vars => At("loop")' \/ Q'
  BY DeadMoves
<1>8. I /\ At("loop") /\ [Next]_vars => At("loop")' \/ Q'
  BY DeadMoves
<1>9. I /\ At("loop") /\ <<H /\ Next>>_vars => Q'
  BY DeadMoves
<1>10. /\ RunsWhenDue /\ (At("opening") \/ At("replying") \/ At("loop")) => ENABLED <<H>>_vars
       /\ RunsWhenDue /\ At("chdrain") => ENABLED <<D>>_vars
  BY DEF RunsWhenDue
<1>11. (H => Next) /\ (D => Next)
  BY DEF HandlerProceeds, Next, Handler
<1>12. FairSpec => Spec /\ HandlersFair /\ UsbipdFairness
  BY PTL DEF FairSpec, ServerFairness
<1>13. HandlersFair => HandlerFairness(s)
  BY DEF HandlersFair
<1>14. UsbipdFairness => DrainFairness(s)
  BY DEF UsbipdFairness
<1>15. HandlerFairness(s) => WF_vars(H)
  BY PTL DEF HandlerFairness
<1>16. DrainFairness(s) => WF_vars(D)
  BY PTL DEF DrainFairness
<1> HIDE DEF P, Q, At, H, D, I
<1>17. FairSpec /\ []RunsWhenDue => (P ~> Q)
  BY <1>1, <1>2, <1>3, <1>4, <1>5, <1>6, <1>7, <1>8, <1>9, <1>10, <1>11, <1>12, <1>13, <1>14,
     <1>15, <1>16, TypeCorrect, LifeInvariant, PTL DEF Spec, I
<1> QED BY <1>17 DEF P, Q
==============================================================================
