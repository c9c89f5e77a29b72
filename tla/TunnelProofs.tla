---------------------------- MODULE TunnelProofs ----------------------------
(***************************************************************************)
(* Proofs about Tunnel, for any local connections, pumps and ids, and any   *)
(* bounds.  First the ids: the client opens none twice, so it is the client *)
(* for which ServerSessionProofs says that no channel is closed by the pump *)
(* of another; the two sides meet here, and what is proved of the server    *)
(* holds of the server in the tunnel.  Then the wires: what is under way    *)
(* between the two sides (WireInv), and from it that the tunnel implements  *)
(* Forwarding.                                                              *)
(***************************************************************************)
EXTENDS Tunnel, FiniteSetTheorems, SequenceTheorems, TLAPS

\* What a frame on its way to the server may say.
Said == Locals \cup (Locals \X Nat)
UpFrames == [kind : {"open", "data", "close"}, ch : UsbIds, says : Said]

IdTypes ==
    /\ cli \in {"off", "running", "ended"}
    /\ nextCh \in Nat
    /\ connPc \in [Locals -> ConnPCs]
    /\ chOf \in [Locals -> Nat \cup {NoId}]
    /\ held \subseteq Locals /\ IsFiniteSet(held)
    /\ pending \in [{Session} -> UsbIds \cup {NoId}]
    /\ pumpCh \in [Pumps -> UsbIds \cup {NoId}]
    /\ up \in Seq(UpFrames)
    /\ DOMAIN sent = {"up", "down"} /\ sent["up"] \in [Locals -> Seq(Said)]

\* Every id that was ever given out is below the counter.
IdsSpent ==
    /\ \A k \in held : chOf[k] \in Nat /\ chOf[k] < nextCh
    /\ \A k \in Locals : connPc[k] \in {"opening", "pumping", "closing"} => chOf[k] \in UsbIds
    /\ \A p \in Pumps : pumpCh[p] = NoId \/ pumpCh[p] < nextCh
    /\ pending[Session] = NoId \/ pending[Session] < nextCh

\* An OPEN on its way to the server asks for an id of its own.
OpensFresh ==
    \A i \in 1 .. Len(up) : up[i].kind = "open" =>
        /\ up[i].ch < nextCh /\ up[i].ch # pending[Session]
        /\ \A p \in Pumps : pumpCh[p] # up[i].ch
        /\ \A j \in 1 .. Len(up) : up[j].kind = "open" /\ up[j].ch = up[i].ch => j = i

\* Before run_connected nothing was opened.
NothingOpened ==
    cli = "off" =>
        /\ up = << >> /\ held = {} /\ \A k \in Locals : connPc[k] = "none"
        /\ pending[Session] = NoId /\ \A p \in Pumps : pumpCh[p] = NoId

IdsInv == IdTypes /\ IdsSpent /\ OpensFresh /\ NothingOpened

-----------------------------------------------------------------------------
(* The ids of the client.                                                   *)

LEMMA UsbIdsNat == UsbIds \subseteq Nat /\ Base \in Nat
  BY TunnelAssumption DEF UsbIds

LEMMA UpFrame ==
  ASSUME up \in Seq(UpFrames)
  PROVE  Len(up) \in Nat /\ \A i \in 1 .. Len(up) : up[i] \in UpFrames /\ up[i].ch \in Nat
<1>1. Len(up) \in Nat /\ \A i \in 1 .. Len(up) : up[i] \in UpFrames
  BY LenProperties, ElementOfSeq
<1>2. ASSUME NEW f \in UpFrames PROVE f.ch \in Nat
  BY UsbIdsNat DEF UpFrames
<1>. QED BY <1>1, <1>2

\* The counter itself is never in use, so nothing is passed over.
LEMMA FreeIdNext == ASSUME IdsInv PROVE FreeId = nextCh
<1>. DEFINE Free(c) == /\ \A k \in held : chOf[k] # c
                       /\ \A d \in nextCh .. c - 1 : \E k \in held : chOf[k] = d
<1>1. Cardinality(held) \in Nat /\ nextCh \in Nat
  BY FS_CardinalityType DEF IdsInv, IdTypes
<1>2. \A k \in held : chOf[k] # nextCh
  BY <1>1 DEF IdsInv, IdsSpent
<1>3. nextCh \in nextCh .. nextCh + Cardinality(held) /\ Free(nextCh)
  BY <1>1, <1>2
<1>4. FreeId \in nextCh .. nextCh + Cardinality(held) /\ Free(FreeId)
  BY <1>3 DEF FreeId
<1>5. \A d \in nextCh .. FreeId - 1 : \E k \in held : chOf[k] = d
  BY <1>4
<1>. QED BY ONLY <1>1, <1>2, <1>4, <1>5

LEMMA FreeIdAbove == ASSUME IdsInv PROVE FreeId \in Nat /\ FreeId >= nextCh
<1>1. nextCh \in Nat
  BY DEF IdsInv, IdTypes
<1>. QED BY <1>1, FreeIdNext

\* What the client writes leaves the OPENs under way with ids of their own, if one
\* that it adds asks for an id that the counter had not reached.
LEMMA WriteFresh ==
  ASSUME IdsInv, NEW f \in UpFrames, ClientWrites(f), nextCh' \in Nat, nextCh' >= nextCh,
         f.kind = "open" => f.ch >= nextCh /\ f.ch < nextCh'
  PROVE  up' \in Seq(UpFrames) /\ OpensFresh' /\ UNCHANGED <<pending, pumpCh>>
<1>. USE DEF IdsInv, IdTypes
<1>1. UNCHANGED <<pending, pumpCh>>
  BY DEF ClientWrites, S!ClientSends, S!pumpVars, serverVars
<1>2. CASE up' = up
  <2>1. ASSUME NEW i \in 1 .. Len(up), up[i].kind = "open" PROVE up[i].ch < nextCh'
    <3>1. up[i].ch \in Nat
      BY UpFrame
    <3>2. up[i].ch < nextCh
      BY <2>1 DEF OpensFresh
    <3>. QED BY ONLY <3>1, <3>2, nextCh \in Nat, nextCh' \in Nat, nextCh' >= nextCh
  <2>. QED BY <1>1, <1>2, <2>1 DEF OpensFresh
<1>3. CASE up' = Append(up, f)
  <2>1. /\ up' \in Seq(UpFrames) /\ Len(up') = Len(up) + 1 /\ up'[Len(up) + 1] = f
        /\ \A i \in 1 .. Len(up) : up'[i] = up[i]
    BY <1>3
  <2>2. Len(up) \in Nat /\ \A i \in 1 .. Len(up) : up[i] \in UpFrames /\ up[i].ch \in Nat
    BY UpFrame
  <2>3. ASSUME NEW i \in 1 .. Len(up'), up'[i].kind = "open"
        PROVE  /\ up'[i].ch < nextCh' /\ up'[i].ch # pending[Session]
               /\ \A p \in Pumps : pumpCh[p] # up'[i].ch
               /\ \A j \in 1 .. Len(up') : up'[j].kind = "open" /\ up'[j].ch = up'[i].ch => j = i
    <3>1. CASE i \in 1 .. Len(up)
      <4>1. up[i].kind = "open" /\ up[i].ch < nextCh /\ up[i].ch # pending[Session]
            /\ \A p \in Pumps : pumpCh[p] # up[i].ch
        BY <2>1, <2>3, <3>1 DEF OpensFresh
      <4>2. ASSUME NEW j \in 1 .. Len(up'), up'[j].kind = "open", up'[j].ch = up'[i].ch PROVE j = i
        <5>1. CASE j \in 1 .. Len(up)
          BY <2>1, <2>3, <3>1, <4>2, <5>1 DEF OpensFresh
        <5>2. CASE j = Len(up) + 1
          BY <2>1, <2>2, <3>1, <4>1, <4>2, <5>2
        <5>. QED BY <2>1, <2>2, <5>1, <5>2
      <4>. QED BY <2>1, <2>2, <3>1, <4>1, <4>2
    <3>2. CASE i = Len(up) + 1
      <4>1. up'[i] = f /\ f.kind = "open" /\ f.ch >= nextCh /\ f.ch < nextCh' /\ f.ch \in Nat
            /\ f.ch # NoId
        BY <2>1, <2>3, <3>2, UsbIdsNat, TunnelAssumption DEF UpFrames
      <4>2. f.ch # pending[Session] /\ \A p \in Pumps : pumpCh[p] # f.ch
        BY <4>1 DEF IdsSpent
      <4>3. ASSUME NEW j \in 1 .. Len(up'), up'[j].kind = "open", up'[j].ch = f.ch PROVE j = i
        <5>1. CASE j \in 1 .. Len(up)
          <6>1. up[j].ch < nextCh /\ up[j].ch \in Nat /\ up[j].ch = f.ch
            BY <2>1, <2>2, <4>3, <5>1 DEF OpensFresh
          <6>. QED BY <4>1, <6>1
        <5>2. CASE j = Len(up) + 1
          BY <3>2, <5>2
        <5>. QED BY <2>1, <2>2, <5>1, <5>2
      <4>. QED BY <4>1, <4>2, <4>3
    <3>. QED BY <2>1, <2>2, <3>1, <3>2
  <2>. QED BY <1>1, <2>1, <2>3 DEF OpensFresh
<1>. QED BY <1>1, <1>2, <1>3 DEF ClientWrites

\* What the server takes leaves the others with ids of their own; the id of an OPEN
\* that is taken is not among them.
LEMMA ReadFresh ==
  ASSUME IdsInv, up # << >>, up' = Tail(up), UNCHANGED <<nextCh, pumpCh>>,
         \/ pending'[Session] = pending[Session]
         \/ Head(up).kind = "open" /\ pending'[Session] = Head(up).ch
  PROVE  up' \in Seq(UpFrames) /\ OpensFresh'
<1>. USE DEF IdsInv, IdTypes
<1>1. /\ up' \in Seq(UpFrames) /\ Len(up) \in Nat /\ Len(up') = Len(up) - 1 /\ Head(up) = up[1]
      /\ Len(up) >= 1 /\ \A i \in 1 .. Len(up') : up'[i] = up[i + 1]
  BY HeadTailProperties
<1>2. ASSUME NEW i \in 1 .. Len(up'), up'[i].kind = "open"
      PROVE  /\ up'[i].ch < nextCh /\ up'[i].ch # pending'[Session]
             /\ \A p \in Pumps : pumpCh[p] # up'[i].ch
             /\ \A j \in 1 .. Len(up') : up'[j].kind = "open" /\ up'[j].ch = up'[i].ch => j = i
  <2>1. i + 1 \in 1 .. Len(up) /\ up'[i] = up[i + 1] /\ 1 \in 1 .. Len(up) /\ i + 1 # 1
    BY <1>1, <1>2
  <2>2. /\ up[i + 1].ch < nextCh /\ up[i + 1].ch # pending[Session]
        /\ \A p \in Pumps : pumpCh[p] # up[i + 1].ch
        /\ up[1].kind = "open" => up[1].ch # up[i + 1].ch
    BY <1>2, <2>1 DEF OpensFresh
  <2>3. ASSUME NEW j \in 1 .. Len(up'), up'[j].kind = "open", up'[j].ch = up'[i].ch PROVE j = i
    <3>1. j + 1 \in 1 .. Len(up) /\ up'[j] = up[j + 1]
      BY <1>1, <2>3
    <3>2. j + 1 = i + 1
      BY <1>2, <2>1, <2>3, <3>1 DEF OpensFresh
    <3>. QED BY <3>2
  <2>. QED BY <1>1, <2>1, <2>2, <2>3
<1>. QED BY <1>1, <1>2 DEF OpensFresh

\* A counter that goes up leaves the ids that were given out below it.
LEMMA SpentIds ==
  ASSUME IdsInv, nextCh' \in Nat, nextCh' >= nextCh
  PROVE  /\ \A p \in Pumps : pumpCh[p] = NoId \/ pumpCh[p] < nextCh'
         /\ pending[Session] = NoId \/ pending[Session] < nextCh'
<1>1. nextCh \in Nat /\ \A p \in Pumps : pumpCh[p] \in Nat \cup {NoId}
  BY UsbIdsNat DEF IdsInv, IdTypes
<1>2. pending[Session] \in Nat \cup {NoId}
  BY UsbIdsNat DEF IdsInv, IdTypes
<1>3. \A n \in Nat : n < nextCh => n < nextCh'
  BY <1>1
<1>4. /\ \A p \in Pumps : pumpCh[p] = NoId \/ pumpCh[p] < nextCh
      /\ pending[Session] = NoId \/ pending[Session] < nextCh
  BY DEF IdsInv, IdsSpent
<1>. QED BY ONLY <1>1, <1>2, <1>3, <1>4

-----------------------------------------------------------------------------
(* No step brings an id back.                                               *)

\* A step that leaves the ids of the server and of the frames alone.
LEMMA CalmIds ==
  ASSUME IdsInv, UNCHANGED <<up, pending, pumpCh, sent>>,
         nextCh' \in Nat, cli = "off" \/ nextCh' >= nextCh,
         cli' \in {"off", "running", "ended"}, connPc' \in [Locals -> ConnPCs],
         chOf' \in [Locals -> Nat \cup {NoId}], held' \subseteq Locals, IsFiniteSet(held'),
         \A j \in held' : chOf'[j] \in Nat /\ chOf'[j] < nextCh',
         \A j \in Locals : connPc'[j] \in {"opening", "pumping", "closing"} => chOf'[j] \in UsbIds,
         NothingOpened'
  PROVE  IdsInv'
<1>. USE DEF IdsInv, IdTypes
<1>1. IdsSpent'
  <2>1. CASE cli = "off"
    BY <2>1 DEF IdsSpent, NothingOpened
  <2>2. CASE cli # "off"
    <3>1. /\ \A p \in Pumps : pumpCh[p] = NoId \/ pumpCh[p] < nextCh'
          /\ pending[Session] = NoId \/ pending[Session] < nextCh'
      BY <2>2, SpentIds
    <3>. QED BY <3>1 DEF IdsSpent
  <2>. QED BY <2>1, <2>2
<1>2. OpensFresh'
  <2>1. CASE cli = "off"
    BY <2>1 DEF OpensFresh, NothingOpened
  <2>2. CASE cli # "off"
    <3>1. ASSUME NEW i \in 1 .. Len(up), up[i].kind = "open" PROVE up[i].ch < nextCh'
      <4>1. up[i].ch \in Nat /\ nextCh \in Nat /\ nextCh' >= nextCh
        BY <2>2, UpFrame
      <4>2. up[i].ch < nextCh
        BY <3>1 DEF OpensFresh
      <4>. QED BY ONLY <4>1, <4>2, nextCh' \in Nat
    <3>. QED BY <3>1 DEF OpensFresh
  <2>. QED BY <2>1, <2>2
<1>. QED BY <1>1, <1>2

\* The forward starts; the frame loop takes a frame.
LEMMA LoopIds == ASSUME IdsInv, ClientRuns \/ ClientLoop PROVE IdsInv'
<1>. USE DEF IdsInv, IdTypes, serverVars, clientVars
<1>1. UNCHANGED <<up, pending, pumpCh, sent, connPc, chOf>> /\ held' \subseteq held /\ cli' # "off"
      /\ cli' \in {"running", "ended"}
  BY DEF ClientRuns, ClientLoop, TakesData, TakesClose, Takes
<1>2. nextCh' = nextCh \/ (cli = "off" /\ nextCh' \in UsbIds)
  BY DEF ClientRuns, ClientLoop, TakesData, TakesClose
<1>3. nextCh' \in Nat /\ (cli = "off" \/ nextCh' >= nextCh)
  <2>1. CASE nextCh' = nextCh
    <3>1. nextCh \in Nat
      OBVIOUS
    <3>. QED BY ONLY <2>1, <3>1
  <2>2. CASE cli = "off" /\ nextCh' \in UsbIds
    BY <2>2, UsbIdsNat
  <2>. QED BY <1>2, <2>1, <2>2
<1>4. IsFiniteSet(held')
  BY <1>1, FS_Subset
<1>5. \A j \in held' : chOf'[j] \in Nat /\ chOf'[j] < nextCh'
  BY <1>1, <1>2 DEF IdsSpent, NothingOpened
<1>6. \A j \in Locals : connPc'[j] \in {"opening", "pumping", "closing"} => chOf'[j] \in UsbIds
  BY <1>1 DEF IdsSpent
<1>7. NothingOpened'
  BY <1>1 DEF NothingOpened
<1>. QED BY <1>1, <1>3, <1>4, <1>5, <1>6, <1>7, CalmIds

\* The steps of a local connection that write nothing.
LEMMA QuietIds ==
  ASSUME IdsInv, NEW k \in Locals,
         \/ Accept(k) \/ ForwardFails(k) \/ OpenSent(k) \/ AsyncioCloses(k) \/ ToolHangsUp(k)
         \/ ConnFinishes(k) \/ ConnDropped(k)
  PROVE  IdsInv'
<1>. USE DEF IdsInv, IdTypes, serverVars, clientVars
<1>1. CASE ForwardFails(k)
  <2>1. FreeId \in Nat /\ FreeId >= nextCh /\ nextCh' = FreeId + 1
    BY <1>1, FreeIdAbove DEF ForwardFails
  <2>2. /\ UNCHANGED <<up, pending, pumpCh, sent, cli>> /\ cli # "off"
        /\ connPc' = [connPc EXCEPT ![k] = "failed"] /\ chOf' = [chOf EXCEPT ![k] = FreeId]
        /\ held' = held \cup {k}
    BY <1>1 DEF ForwardFails, NothingOpened
  <2>3. nextCh' \in Nat /\ nextCh' >= nextCh /\ FreeId < nextCh'
    BY <2>1
  <2>4. IsFiniteSet(held')
    BY <2>2, FS_AddElement
  <2>5. connPc' \in [Locals -> ConnPCs] /\ chOf' \in [Locals -> Nat \cup {NoId}]
    BY <2>1, <2>2 DEF ConnPCs
  <2>6. ASSUME NEW j \in held' PROVE chOf'[j] \in Nat /\ chOf'[j] < nextCh'
    <3>1. CASE j = k
      BY <2>1, <2>2, <2>3, <3>1
    <3>2. CASE j # k
      <4>1. chOf'[j] = chOf[j] /\ j \in held
        BY <2>2, <2>6, <3>2
      <4>. QED BY <2>3, <4>1 DEF IdsSpent
    <3>. QED BY <3>1, <3>2
  <2>7. \A j \in Locals : connPc'[j] \in {"opening", "pumping", "closing"} => chOf'[j] \in UsbIds
    BY <2>2 DEF IdsSpent
  <2>8. NothingOpened'
    BY <2>2 DEF NothingOpened
  <2>. QED BY <2>2, <2>3, <2>4, <2>5, <2>6, <2>7, <2>8, CalmIds
<1>2. CASE \/ Accept(k) \/ OpenSent(k) \/ AsyncioCloses(k) \/ ToolHangsUp(k)
           \/ ConnFinishes(k) \/ ConnDropped(k)
  <2>1. UNCHANGED <<up, pending, pumpCh, sent, nextCh, chOf, cli>> /\ held' \subseteq held
    BY <1>2 DEF Accept, OpenSent, AsyncioCloses, ToolHangsUp, ConnFinishes, ConnDropped
  <2>2. connPc' \in [Locals -> ConnPCs]
    BY <1>2 DEF Accept, OpenSent, AsyncioCloses, ToolHangsUp, ConnFinishes, ConnDropped, ConnPCs
  <2>3. \A j \in held' : chOf'[j] \in Nat /\ chOf'[j] < nextCh'
    BY <2>1 DEF IdsSpent
  <2>4. \A j \in Locals : connPc'[j] \in {"opening", "pumping", "closing"} => chOf'[j] \in UsbIds
    BY <1>2, <2>1 DEF Accept, OpenSent, AsyncioCloses, ToolHangsUp, ConnFinishes, ConnDropped,
                      IdsSpent
  <2>5. NothingOpened'
    BY <1>2, <2>1 DEF Accept, OpenSent, AsyncioCloses, ToolHangsUp, ConnFinishes, ConnDropped,
                      NothingOpened
  <2>6. IsFiniteSet(held') /\ held' \subseteq Locals /\ nextCh' >= nextCh
    BY <2>1, FS_Subset
  <2>. QED BY <2>1, <2>2, <2>3, <2>4, <2>5, <2>6, CalmIds
<1>. QED BY <1>1, <1>2

\* The steps that write to the server: OPEN takes an id, DATA and CLOSE say one again.
LEMMA WritingIds ==
  ASSUME IdsInv, NEW k \in Locals, ForwardConn(k) \/ ConnReads(k) \/ ConnEnds(k)
  PROVE  IdsInv'
<1>. USE DEF IdsInv, IdTypes
<1>1. CASE ForwardConn(k)
  <2>1. /\ FreeId \in UsbIds /\ FreeId \in Nat /\ FreeId >= nextCh /\ nextCh' = FreeId + 1
        /\ nextCh' \in Nat /\ nextCh' >= nextCh /\ FreeId < nextCh'
    BY <1>1, FreeIdAbove DEF ForwardConn
  <2>2. Frame("open", FreeId, k) \in UpFrames
    BY <2>1 DEF Frame, UpFrames, Said
  <2>3. up' \in Seq(UpFrames) /\ OpensFresh' /\ UNCHANGED <<pending, pumpCh>>
    <3>1. ClientWrites(Frame("open", FreeId, k)) /\ Frame("open", FreeId, k).ch = FreeId
      BY <1>1 DEF ForwardConn, Frame
    <3>. QED BY ONLY <2>1, <2>2, <3>1, WriteFresh, IdsInv
  <2>4. /\ cli' = cli /\ cli # "off" /\ sent' = sent
        /\ connPc' = [connPc EXCEPT ![k] = "opening"] /\ chOf' = [chOf EXCEPT ![k] = FreeId]
        /\ held' = held \cup {k} /\ IsFiniteSet(held')
    BY <1>1, FS_AddElement DEF ForwardConn, NothingOpened
  <2>5. connPc' \in [Locals -> ConnPCs] /\ chOf' \in [Locals -> Nat \cup {NoId}]
    BY <2>1, <2>4 DEF ConnPCs
  <2>6. \A j \in held' : chOf'[j] \in Nat /\ chOf'[j] < nextCh'
    <3>1. ASSUME NEW j \in held' PROVE chOf'[j] \in Nat /\ chOf'[j] < nextCh'
      <4>1. CASE j = k
        BY <2>1, <2>4, <4>1
      <4>2. CASE j # k
        <5>1. chOf'[j] = chOf[j] /\ j \in held
          BY <2>4, <3>1, <4>2
        <5>. QED BY <2>1, <5>1 DEF IdsSpent
      <4>. QED BY <4>1, <4>2
    <3>. QED BY <3>1
  <2>7. \A j \in Locals : connPc'[j] \in {"opening", "pumping", "closing"} => chOf'[j] \in UsbIds
    BY <2>1, <2>4 DEF IdsSpent
  <2>8. /\ \A p \in Pumps : pumpCh[p] = NoId \/ pumpCh[p] < nextCh'
        /\ pending[Session] = NoId \/ pending[Session] < nextCh'
    BY ONLY <2>1, SpentIds, IdsInv
  <2>. QED BY <2>1, <2>3, <2>4, <2>5, <2>6, <2>7, <2>8 DEF IdsSpent, NothingOpened
<1>2. ASSUME NEW kind \in {"data", "close"}, NEW x \in Said, ClientWrites(Frame(kind, chOf[k], x)),
             connPc[k] = "pumping", UNCHANGED <<cli, nextCh, chOf, held>>,
             connPc' = connPc \/ connPc' = [connPc EXCEPT ![k] = "closing"],
             DOMAIN sent' = {"up", "down"}, sent'["up"] \in [Locals -> Seq(Said)]
      PROVE  IdsInv'
  <2>1. Frame(kind, chOf[k], x) \in UpFrames /\ Frame(kind, chOf[k], x).kind # "open"
    BY <1>2 DEF IdsSpent, Frame, UpFrames
  <2>2. nextCh' \in Nat /\ nextCh' >= nextCh
    BY <1>2
  <2>3. up' \in Seq(UpFrames) /\ OpensFresh' /\ UNCHANGED <<pending, pumpCh>>
    BY ONLY <1>2, <2>1, <2>2, WriteFresh, IdsInv
  <2>4. cli # "off"
    BY <1>2 DEF NothingOpened
  <2>5. connPc' \in [Locals -> ConnPCs]
    BY <1>2 DEF ConnPCs
  <2>6. \A j \in Locals : connPc'[j] \in {"opening", "pumping", "closing"} => chOf'[j] \in UsbIds
    BY <1>2 DEF IdsSpent
  <2>. QED BY <1>2, <2>3, <2>4, <2>5, <2>6 DEF IdsSpent, NothingOpened
<1>3. CASE ConnReads(k)
  <2>. DEFINE x == <<k, Len(sent["up"][k]) + 1>>
  <2>1. sent["up"][k] \in Seq(Said) /\ x \in Said
    BY LenProperties DEF Said
  <2>2. Append(sent["up"][k], x) \in Seq(Said)
    BY <2>1, AppendProperties
  <2>3. sent' = [sent EXCEPT !["up"][k] = Append(sent["up"][k], x)]
    BY <1>3 DEF ConnReads
  <2>4. DOMAIN sent' = {"up", "down"} /\ sent'["up"] \in [Locals -> Seq(Said)]
    BY ONLY <2>2, <2>3, IdsInv DEF IdsInv, IdTypes
  <2>. QED BY <1>2, <1>3, <2>1, <2>4 DEF ConnReads, clientVars
<1>4. CASE ConnEnds(k)
  <2>1. k \in Said
    BY DEF Said
  <2>. QED BY <1>2, <1>4, <2>1 DEF ConnEnds
<1>. QED BY <1>1, <1>3, <1>4

\* The steps that take no id and leave every frame to the server where it is.
LEMMA ServerIds ==
  ASSUME IdsInv, NEW p,
         \/ CleansUp \/ ServerRuns \/ NetworkFails
         \/ PumpReads(p) \/ PumpEnds(p) \/ PumpInterrupted(p) \/ PumpGoesOn(p)
  PROVE  IdsInv'
<1>1. UNCHANGED <<nextCh, connPc, chOf, held, up, pending, pumpCh>> /\ cli' \in {cli, "ended"}
  <2>1. CASE CleansUp
    BY <2>1 DEF CleansUp, S!ClientCloses, S!pumpVars, serverVars
  <2>2. CASE ServerRuns
    BY <2>2 DEF ServerRuns, ServerKeeps, clientVars, S!Connect, S!HelloAccepted, S!HelloFails,
                S!ChannelDrained, S!ChannelDrainFails, S!Replied, S!ReplyFails, S!ReadEof,
                S!Exit, S!pumpVars
  <2>3. CASE NetworkFails
    BY <2>3 DEF NetworkFails, ServerKeeps, clientVars, S!ClientCloses, S!pumpVars
  <2>4. CASE PumpReads(p) \/ PumpEnds(p) \/ PumpInterrupted(p) \/ PumpGoesOn(p)
    BY <2>4 DEF PumpReads, PumpEnds, PumpInterrupted, PumpGoesOn, ServerKeeps, clientVars,
                S!PumpReads, S!PumpEnds, S!PumpInterrupted, S!PumpStarts, S!PumpDropped,
                S!PumpSent, S!PumpFinishes, S!PumpGoes, S!handlerVars
  <2>. QED BY <2>1, <2>2, <2>3, <2>4
<1>2. DOMAIN sent' = {"up", "down"} /\ sent'["up"] = sent["up"]
  <2>1. CASE PumpReads(p)
    <3>1. \E x : sent' = [sent EXCEPT !["down"][serves[p]] = x]
      BY <2>1 DEF PumpReads
    <3>. QED BY <3>1 DEF IdsInv, IdTypes
  <2>2. CASE CleansUp \/ ServerRuns \/ NetworkFails \/ PumpEnds(p) \/ PumpInterrupted(p)
             \/ PumpGoesOn(p)
    BY <2>2 DEF CleansUp, ServerRuns, NetworkFails, PumpEnds, PumpInterrupted, PumpGoesOn,
                IdsInv, IdTypes
  <2>. QED BY <2>1, <2>2
<1>3. IdTypes' /\ IdsSpent' /\ OpensFresh' /\ NothingOpened'
  BY <1>1, <1>2 DEF IdsInv, IdTypes, IdsSpent, OpensFresh, NothingOpened
<1>. QED BY <1>3 DEF IdsInv

\* The server takes a frame.  An OPEN's id passes from the frame to `pending`.
LEMMA ReceivingIds ==
  ASSUME IdsInv, ReceivesOpen \/ ReceivesData \/ ReceivesClose
  PROVE  IdsInv'
<1>1. /\ UNCHANGED <<cli, nextCh, connPc, chOf, held, pumpCh, sent>>
      /\ up # << >> /\ up' = Tail(up)
  BY Zenon DEF ReceivesOpen, ReceivesData, ReceivesClose, Receives, ServerKeeps, clientVars,
         S!RecvOpenUsb, S!RefuseOpenUsb, S!RecvOther, S!RecvDataBlocks, S!RecvClose, S!pumpVars
<1>2. \/ pending' = pending
      \/ Head(up).kind = "open" /\ pending' = [pending EXCEPT ![Session] = Head(up).ch]
  BY Zenon DEF ReceivesOpen, ReceivesData, ReceivesClose, Receives,
         S!RecvOpenUsb, S!RefuseOpenUsb, S!RecvOther, S!RecvDataBlocks, S!RecvClose
<1>3. Head(up) = up[1] /\ 1 \in 1 .. Len(up) /\ Head(up) \in UpFrames
  BY <1>1, UpFrame, HeadTailProperties DEF IdsInv, IdTypes
<1>4. Head(up).ch \in UsbIds /\ (Head(up).kind = "open" => Head(up).ch < nextCh)
  BY <1>3 DEF UpFrames, IdsInv, OpensFresh
<1>5. pending' \in [{Session} -> UsbIds \cup {NoId}]
  BY <1>2, <1>4 DEF IdsInv, IdTypes
<1>6. pending'[Session] = pending[Session]
      \/ (Head(up).kind = "open" /\ pending'[Session] = Head(up).ch)
  BY <1>2 DEF IdsInv, IdTypes
<1>7. up' \in Seq(UpFrames) /\ OpensFresh'
  BY ONLY <1>1, <1>6, ReadFresh, IdsInv
<1>8. IdsSpent'
  BY <1>1, <1>4, <1>6 DEF IdsInv, IdsSpent
<1>9. NothingOpened'
  BY <1>1 DEF IdsInv, NothingOpened
<1>. QED BY <1>1, <1>5, <1>7, <1>8, <1>9 DEF IdsInv, IdTypes

\* open_connection ends: the id passes from `pending` to the pump, or goes.
LEMMA OpeningIds == ASSUME IdsInv, Opens PROVE IdsInv'
<1>1. UNCHANGED <<cli, nextCh, connPc, chOf, held, up, sent>>
  BY DEF Opens, ServerKeeps, clientVars
<1>2. /\ pending' = [pending EXCEPT ![Session] = NoId]
      /\ \/ pumpCh' = pumpCh
         \/ \E p \in Pumps : pumpCh' = [pumpCh EXCEPT ![p] = pending[Session]]
  BY DEF Opens, S!OpenDone, S!OpenFails, S!pumpVars
<1>3. pending' \in [{Session} -> UsbIds \cup {NoId}] /\ pending'[Session] = NoId
  BY <1>2 DEF IdsInv, IdTypes
<1>4. /\ pumpCh' \in [Pumps -> UsbIds \cup {NoId}]
      /\ \A p \in Pumps : pumpCh'[p] \in {pumpCh[p], pending[Session]}
  BY <1>2 DEF IdsInv, IdTypes
<1>5. IdsSpent'
  BY <1>1, <1>3, <1>4 DEF IdsInv, IdsSpent
<1>6. OpensFresh'
  <2>1. \A i \in 1 .. Len(up) : up[i].ch # NoId
    BY UpFrame, UsbIdsNat, TunnelAssumption DEF IdsInv, IdTypes, UpFrames
  <2>. QED BY <1>1, <1>3, <1>4, <2>1 DEF IdsInv, OpensFresh
<1>7. NothingOpened'
  BY <1>1, <1>3, <1>4 DEF IdsInv, NothingOpened
<1>. QED BY <1>1, <1>3, <1>4, <1>5, <1>6, <1>7 DEF IdsInv, IdTypes

LEMMA InitIds == Init => IdsInv
<1>. SUFFICES ASSUME Init PROVE IdsInv
  OBVIOUS
<1>1. /\ up = << >> /\ cli = "off" /\ nextCh = Base /\ connPc = [k \in Locals |-> "none"]
      /\ chOf = [k \in Locals |-> NoId] /\ held = {}
      /\ pending = [s \in {Session} |-> NoId] /\ pumpCh = [p \in Pumps |-> NoId]
      /\ sent = [d \in {"up", "down"} |-> [k \in Locals |-> << >>]]
  BY DEF Init, S!Init
<1>2. Len(up) = 0 /\ up \in Seq(UpFrames) /\ IsFiniteSet(held) /\ << >> \in Seq(Said)
  BY <1>1, FS_EmptySet
<1>3. IdTypes
  BY <1>1, <1>2, UsbIdsNat DEF IdTypes, ConnPCs
<1>4. IdsSpent /\ OpensFresh /\ NothingOpened
  BY <1>1, <1>2 DEF IdsSpent, OpensFresh, NothingOpened
<1>. QED BY <1>3, <1>4 DEF IdsInv

LEMMA NextIds == IdsInv /\ [Next]_vars => IdsInv'
<1>. SUFFICES ASSUME IdsInv, [Next]_vars PROVE IdsInv'
  OBVIOUS
<1>1. CASE UNCHANGED vars
  BY <1>1 DEF vars, serverVars, clientVars, IdsInv, IdTypes, IdsSpent, OpensFresh, NothingOpened
<1>2. ASSUME ClientRuns \/ ClientLoop \/ CleansUp \/ ServerRuns \/ NetworkFails PROVE IdsInv'
  BY <1>2, LoopIds, ServerIds
<1>3. ASSUME NEW k \in Locals,
             \/ Accept(k) \/ Conn(k) \/ AsyncioCloses(k) \/ ToolHangsUp(k)
             \/ ConnReads(k) \/ ConnDropped(k)
      PROVE  IdsInv'
  BY <1>3, QuietIds, WritingIds DEF Conn
<1>4. ASSUME NEW p \in Pumps,
             PumpReads(p) \/ PumpEnds(p) \/ PumpInterrupted(p) \/ PumpGoesOn(p)
      PROVE  IdsInv'
  BY <1>4, ServerIds
<1>5. CASE ReceivesOpen \/ ReceivesData \/ ReceivesClose \/ Opens
  BY <1>5, ReceivingIds, OpeningIds
<1>. QED BY <1>1, <1>2, <1>3, <1>4, <1>5 DEF Next, ServerLoop

-----------------------------------------------------------------------------
(* The server of the tunnel is one whose client opens no id twice.  A step  *)
(* of S is a step of Strict, but for RecvOpenUsb: there the id must be one  *)
(* that no pump of the session was created for.                             *)

\* The steps that leave the server and its frames alone.
LEMMA ServerStutters ==
  ASSUME UNCHANGED <<serverVars, up>>
  PROVE  UNCHANGED Strict!vars
  BY DEF serverVars, unread, Strict!vars, Strict!handlerVars, Strict!channelVars,
         Strict!pumpVars, Strict!serverVars

LEMMA StrictWrites ==
  ASSUME NEW f, ClientWrites(f)
  PROVE  [Strict!Next]_(Strict!vars)
<1>1. CASE UNCHANGED <<up, serverVars>>
  BY <1>1, ServerStutters
<1>2. CASE S!ClientSends(Session)
  <2>1. Strict!ClientSends(Session)
    BY <1>2 DEF S!ClientSends, Strict!ClientSends, S!channelVars, Strict!channelVars,
                S!pumpVars, Strict!pumpVars, S!serverVars, Strict!serverVars
  <2>. QED BY <2>1 DEF Strict!Next, Strict!Client
<1>. QED BY <1>1, <1>2 DEF ClientWrites

LEMMA StrictClient ==
  ASSUME NEW k,
         \/ ClientRuns \/ ClientLoop \/ Accept(k) \/ Conn(k) \/ AsyncioCloses(k)
         \/ ToolHangsUp(k) \/ ConnReads(k) \/ ConnDropped(k)
  PROVE  [Strict!Next]_(Strict!vars)
<1>1. CASE \/ ClientRuns \/ ClientLoop \/ Accept(k) \/ ForwardFails(k) \/ OpenSent(k)
           \/ AsyncioCloses(k) \/ ToolHangsUp(k) \/ ConnFinishes(k) \/ ConnDropped(k)
  <2>1. UNCHANGED <<serverVars, up>>
    BY <1>1 DEF ClientRuns, ClientLoop, TakesData, TakesClose, Accept, ForwardFails, OpenSent,
                AsyncioCloses, ToolHangsUp, ConnFinishes, ConnDropped
  <2>. QED BY <2>1, ServerStutters
<1>2. CASE ForwardConn(k) \/ ConnReads(k) \/ ConnEnds(k)
  BY <1>2, StrictWrites DEF ForwardConn, ConnReads, ConnEnds
<1>. QED BY <1>1, <1>2 DEF Conn

LEMMA StrictCloses ==
  ASSUME UNCHANGED up, S!ClientCloses(Session)
  PROVE  Strict!Next
<1>1. Strict!ClientCloses(Session)
  BY DEF S!ClientCloses, Strict!ClientCloses, S!channelVars, Strict!channelVars,
         S!pumpVars, Strict!pumpVars, S!serverVars, Strict!serverVars
<1>. QED BY <1>1 DEF Strict!Next, Strict!Client

LEMMA StrictRuns == ASSUME ServerRuns PROVE Strict!Next
<1>. USE DEF S!channelVars, Strict!channelVars, S!pumpVars, Strict!pumpVars,
             S!serverVars, Strict!serverVars
<1>1. CASE S!Connect(Session)
  BY <1>1 DEF S!Connect, Strict!Connect, Strict!Next, Strict!Client
<1>2. CASE S!HelloAccepted(Session) \/ S!Replied(Session) \/ S!ChannelDrained(Session)
  <2>1. Strict!HelloAccepted(Session) \/ Strict!Replied(Session) \/ Strict!ChannelDrained(Session)
    BY <1>2 DEF S!HelloAccepted, Strict!HelloAccepted, S!Replied, Strict!Replied,
                S!ChannelDrained, Strict!ChannelDrained
  <2>. QED BY <2>1 DEF Strict!Next, Strict!Handler
<1>3. CASE \/ S!HelloFails(Session) \/ S!ChannelDrainFails(Session) \/ S!ReplyFails(Session)
           \/ S!ReadEof(Session)
  <2>1. S!Exit(Session) => Strict!Exit(Session)
    BY DEF S!Exit, Strict!Exit, S!Cleanup, Strict!Cleanup, S!Popped, Strict!Popped,
           S!LivePumps, Strict!LivePumps, S!OpenIds, Strict!OpenIds, S!Ids, Strict!Ids
  <2>2. \/ Strict!HelloFails(Session) \/ Strict!ChannelDrainFails(Session)
        \/ Strict!ReplyFails(Session) \/ Strict!ReadEof(Session)
    BY <1>3, <2>1 DEF S!HelloFails, Strict!HelloFails, S!ChannelDrainFails,
          Strict!ChannelDrainFails, S!ReplyFails, Strict!ReplyFails, S!ReadEof, Strict!ReadEof
  <2>. QED BY <2>2 DEF Strict!Next, Strict!Handler
<1>. QED BY <1>1, <1>2, <1>3 DEF ServerRuns

LEMMA StrictPump ==
  ASSUME NEW p \in Pumps, PumpReads(p) \/ PumpEnds(p) \/ PumpInterrupted(p) \/ PumpGoesOn(p)
  PROVE  Strict!Next
<1>1. \A from, to : S!PumpGoes(p, from, to) => Strict!PumpGoes(p, from, to)
  BY DEF PumpReads, PumpEnds, PumpInterrupted, PumpGoesOn, S!PumpGoes, Strict!PumpGoes, unread,
         S!handlerVars, Strict!handlerVars, S!serverVars, Strict!serverVars
<1>2. \A s, c : S!CloseChannel(s, c) => Strict!CloseChannel(s, c)
  BY DEF S!CloseChannel, Strict!CloseChannel, S!LivePumps, Strict!LivePumps
<1>3. \/ S!PumpReads(p) \/ S!PumpEnds(p) \/ S!PumpInterrupted(p) \/ S!PumpStarts(p)
      \/ S!PumpDropped(p) \/ S!PumpSent(p) \/ S!PumpFinishes(p)
  BY DEF PumpReads, PumpEnds, PumpInterrupted, PumpGoesOn
<1>4. Strict!Pump(p)
  BY <1>1, <1>2, <1>3
  DEF S!PumpReads, S!PumpEnds, S!PumpInterrupted, S!PumpStarts, S!PumpDropped, S!PumpSent,
      S!PumpFinishes, S!channelVars, Strict!Pump, Strict!PumpReads, Strict!PumpEnds,
      Strict!PumpInterrupted, Strict!PumpStarts, Strict!PumpDropped, Strict!PumpSent,
      Strict!PumpFinishes, Strict!channelVars
<1>. QED BY <1>4 DEF Strict!Next

LEMMA StrictOpens == ASSUME Opens PROVE Strict!Next
<1>. USE DEF S!channelVars, Strict!channelVars, S!pumpVars, Strict!pumpVars,
             S!serverVars, Strict!serverVars
<1>1. S!OpenDone(Session) \/ S!OpenFails(Session)
  BY DEF Opens
<1>2. Strict!OpenDone(Session) \/ Strict!OpenFails(Session)
  BY <1>1 DEF S!OpenDone, Strict!OpenDone, S!OpenFails, Strict!OpenFails
<1>. QED BY <1>2 DEF Strict!Next, Strict!Handler

LEMMA SameCardinality == \A X : S!Cardinality(X) = Strict!Cardinality(X)
  BY DEF S!Cardinality, Strict!Cardinality

LEMMA StrictReceives ==
  ASSUME IdsInv, ReceivesOpen \/ ReceivesData \/ ReceivesClose
  PROVE  Strict!Next
<1>. USE DEF S!channelVars, Strict!channelVars, S!pumpVars, Strict!pumpVars,
             S!serverVars, Strict!serverVars, S!OpenIds, Strict!OpenIds, S!Ids, Strict!Ids,
             S!Read, Strict!Read
<1>. DEFINE c == Head(up).ch
<1>1. Head(up) = up[1] /\ 1 \in 1 .. Len(up) /\ Head(up) \in UpFrames
  <2>1. up # << >>
    BY Zenon DEF ReceivesOpen, ReceivesData, ReceivesClose, Receives
  <2>. QED BY <2>1, UpFrame, HeadTailProperties DEF IdsInv, IdTypes
<1>2. c \in UsbIds
  BY <1>1 DEF UpFrames
<1>3. CASE ReceivesOpen
  <2>1. \A p \in Pumps : pumpCh[p] # c
    BY <1>1, <1>3 DEF ReceivesOpen, Receives, IdsInv, OpensFresh
  <2>2. Strict!MayOpen(Session, c)
    BY <2>1 DEF Strict!MayOpen
  <2>3. S!RecvOpenUsb(Session, c) \/ S!RefuseOpenUsb(Session, c)
    BY <1>3 DEF ReceivesOpen
  <2>4. Strict!RecvOpenUsb(Session, c) \/ Strict!RefuseOpenUsb(Session, c)
    BY <2>2, <2>3, SameCardinality
    DEF S!RecvOpenUsb, Strict!RecvOpenUsb, S!RefuseOpenUsb, Strict!RefuseOpenUsb
  <2>. QED BY <1>2, <2>4 DEF Strict!Next, Strict!Handler, Strict!RecvFrame
<1>4. CASE ReceivesData
  <2>1. S!RecvOther(Session) \/ S!RecvDataBlocks(Session, c)
    BY Zenon, <1>4 DEF ReceivesData
  <2>2. Strict!RecvOther(Session) \/ Strict!RecvDataBlocks(Session, c)
    BY <2>1 DEF S!RecvOther, Strict!RecvOther, S!RecvDataBlocks, Strict!RecvDataBlocks
  <2>. QED BY <1>2, <2>2 DEF Strict!Next, Strict!Handler, Strict!RecvFrame
<1>5. CASE ReceivesClose
  <2>1. S!RecvClose(Session, c)
    BY <1>5 DEF ReceivesClose
  <2>2. Strict!RecvClose(Session, c)
    BY <2>1 DEF S!RecvClose, Strict!RecvClose, S!CloseChannel, Strict!CloseChannel,
                S!LivePumps, Strict!LivePumps
  <2>. QED BY <1>2, <2>2 DEF Strict!Next, Strict!Handler, Strict!RecvFrame
<1>. QED BY <1>3, <1>4, <1>5

LEMMA StrictInit == Init => Strict!Init
  BY DEF Init, S!Init, Strict!Init, S!Ids, Strict!Ids, unread

LEMMA StrictNext == IdsInv /\ [Next]_vars => [Strict!Next]_(Strict!vars)
<1>. SUFFICES ASSUME IdsInv, [Next]_vars PROVE [Strict!Next]_(Strict!vars)
  OBVIOUS
<1>1. CASE UNCHANGED vars
  <2>1. UNCHANGED <<serverVars, up>>
    BY <1>1 DEF vars, serverVars
  <2>. QED BY <2>1, ServerStutters
<1>2. CASE ClientRuns \/ ClientLoop
  BY <1>2, StrictClient
<1>3. CASE CleansUp \/ NetworkFails
  <2>1. CASE UNCHANGED <<serverVars, up>>
    BY <2>1, ServerStutters
  <2>2. CASE UNCHANGED up /\ S!ClientCloses(Session)
    BY <2>2, StrictCloses
  <2>. QED BY <1>3, <2>1, <2>2 DEF CleansUp, NetworkFails
<1>4. ASSUME NEW k \in Locals,
             \/ Accept(k) \/ Conn(k) \/ AsyncioCloses(k) \/ ToolHangsUp(k)
             \/ ConnReads(k) \/ ConnDropped(k)
      PROVE  [Strict!Next]_(Strict!vars)
  BY <1>4, StrictClient
<1>5. CASE ServerRuns \/ Opens \/ ReceivesOpen \/ ReceivesData \/ ReceivesClose
  BY <1>5, StrictRuns, StrictOpens, StrictReceives
<1>6. ASSUME NEW p \in Pumps,
             PumpReads(p) \/ PumpEnds(p) \/ PumpInterrupted(p) \/ PumpGoesOn(p)
      PROVE  [Strict!Next]_(Strict!vars)
  BY <1>6, StrictPump
<1>. QED BY <1>1, <1>2, <1>3, <1>4, <1>5, <1>6 DEF Next, ServerLoop

\* The client opens no id twice, and so implements the client that ServerSession
\* assumes when it says that no channel is closed by the pump of another
\* (client.py:243-249: the counter goes past every id it gave out, and past those in
\* use).  This holds of ids near the end of their byte too.
THEOREM OpensNoIdTwice == Spec => OpensOnce
<1>1. Init => IdsInv /\ Strict!Init
  BY InitIds, StrictInit
<1>2. IdsInv /\ [Next]_vars => IdsInv' /\ [Strict!Next]_(Strict!vars)
  BY NextIds, StrictNext
<1>. QED BY <1>1, <1>2, PTL DEF Spec, OpensOnce, Strict!Spec

-----------------------------------------------------------------------------
(* What ServerSessionProofs shows of such a server holds of this one.       *)

SP == INSTANCE ServerSessionProofs WITH
        Sessions <- {Session}, LanIds <- {Lan}, KickAge <- 0, MaxUnread <- MaxInFlight,
        ReuseIds <- FALSE, AwaitsConns <- TRUE

LEMMA SameCardinalities == \A X : Strict!Cardinality(X) = SP!Cardinality(X)
  BY DEF Strict!Cardinality, SP!Cardinality

LEMMA SameNext == [Strict!Next]_(Strict!vars) => [SP!Next]_(SP!vars)
<1>. USE DEF Strict!Ids, SP!Ids, Strict!LivePumps, SP!LivePumps, Strict!OpenIds, SP!OpenIds,
             Strict!Popped, SP!Popped, Strict!handlerVars, SP!handlerVars,
             Strict!channelVars, SP!channelVars, Strict!pumpVars, SP!pumpVars,
             Strict!serverVars, SP!serverVars
<1>1. \A X : Strict!Cleanup(X) => SP!Cleanup(X)
  BY DEF Strict!Cleanup, SP!Cleanup
<1>2. \A s : Strict!Exit(s) => SP!Exit(s)
  BY <1>1 DEF Strict!Exit, SP!Exit
<1>3. \A s, c : Strict!CloseChannel(s, c) => SP!CloseChannel(s, c)
  BY DEF Strict!CloseChannel, SP!CloseChannel
<1>4. \A s, next : Strict!Read(s, next) => SP!Read(s, next)
  BY DEF Strict!Read, SP!Read
<1>5. \A s : Strict!Client(s) => SP!Client(s)
  BY DEF Strict!Client, SP!Client, Strict!Connect, SP!Connect,
         Strict!ClientSends, SP!ClientSends, Strict!ClientCloses, SP!ClientCloses,
         Strict!ClientVanishes, SP!ClientVanishes
<1>6. \A s : Strict!RecvFrame(s) => SP!RecvFrame(s)
  BY <1>2, <1>3, <1>4, SameCardinalities
  DEF Strict!RecvFrame, SP!RecvFrame, Strict!MayOpen, SP!MayOpen,
      Strict!RecvOther, SP!RecvOther, Strict!RecvInvalid, SP!RecvInvalid,
      Strict!RecvOpenUsb, SP!RecvOpenUsb, Strict!RefuseOpenUsb, SP!RefuseOpenUsb,
      Strict!RecvOpenLan, SP!RecvOpenLan, Strict!RefuseOpenLan, SP!RefuseOpenLan,
      Strict!RecvClose, SP!RecvClose, Strict!RecvDataBlocks, SP!RecvDataBlocks
<1>7. \A s : Strict!Handler(s) => SP!Handler(s)
  BY <1>2, <1>6
  DEF Strict!Handler, SP!Handler, Strict!HelloAccepted, SP!HelloAccepted,
      Strict!HelloFails, SP!HelloFails, Strict!ReadEof, SP!ReadEof,
      Strict!OpenDone, SP!OpenDone, Strict!OpenFails, SP!OpenFails,
      Strict!ChannelDrained, SP!ChannelDrained,
      Strict!ChannelDrainFails, SP!ChannelDrainFails, Strict!Replied, SP!Replied,
      Strict!ReplyFails, SP!ReplyFails
<1>8. \A p : Strict!Pump(p) => SP!Pump(p)
  BY <1>3
  DEF Strict!Pump, SP!Pump, Strict!PumpGoes, SP!PumpGoes, Strict!PumpStarts, SP!PumpStarts,
      Strict!PumpDropped, SP!PumpDropped, Strict!PumpReads, SP!PumpReads,
      Strict!PumpSent, SP!PumpSent, Strict!PumpEnds, SP!PumpEnds,
      Strict!PumpInterrupted, SP!PumpInterrupted, Strict!PumpFinishes, SP!PumpFinishes
<1>9. Strict!Tick \/ Strict!LanTapClosed \/ Strict!Stop \/ Strict!StopDone
      => SP!Tick \/ SP!LanTapClosed \/ SP!Stop \/ SP!StopDone
  BY <1>1
  DEF Strict!Tick, SP!Tick, Strict!LanTapClosed, SP!LanTapClosed, Strict!Stop, SP!Stop,
      Strict!StopDone, SP!StopDone
<1>10. UNCHANGED Strict!vars => UNCHANGED SP!vars
  BY DEF Strict!vars, SP!vars
<1>. QED BY <1>5, <1>7, <1>8, <1>9, <1>10 DEF Strict!Next, SP!Next

LEMMA SameInit == Strict!Init => SP!Init
  BY DEF Strict!Init, SP!Init, Strict!Ids, SP!Ids

LEMMA ServerConstants == SP!ConstantsAssumption /\ SP!DisjointIds
<1>1. IsFiniteSet(UsbIds \cup {Lan})
  <2>1. Base \in Int /\ LastId \in Int
    BY TunnelAssumption
  <2>2. IsFiniteSet(UsbIds)
    BY <2>1, FS_Interval DEF UsbIds
  <2>. QED BY <2>2, FS_AddElement
<1>2. UsbIds \cup {Lan} = SP!Ids
  BY DEF SP!Ids
<1>3. SP!IsFiniteSet(SP!Ids)
  BY <1>1, <1>2 DEF IsFiniteSet, SP!IsFiniteSet
<1>. QED BY <1>3, TunnelAssumption DEF SP!ConstantsAssumption, SP!DisjointIds, SP!Ids

\* The server's inductive invariant (see ServerSessionProofs).
LEMMA ServerInvariant == Spec => []SP!IndInv
<1>1. OpensOnce => SP!Spec
  BY SameInit, SameNext, PTL DEF OpensOnce, Strict!Spec, SP!Spec
<1>. QED BY <1>1, OpensNoIdTwice, ServerConstants, SP!Inductive, PTL

-----------------------------------------------------------------------------
(* The wires: what was sent has come out, or is under way, in order.        *)

Forwarded == {k \in Locals : connPc[k] \notin {"none", "accepted"}}

RemoteClosed == {serves[p] : p \in Pumps \ sockets} \ {NoConn}

\* The local connection a frame is about.
Owner(f) == IF f.kind = "data" THEN f.says[1] ELSE f.says

IsData(f, k) == f.kind = "data" /\ f.says[1] = k

\* q carries pieces of k in order, none that has come out and none that was not sent ...
Carries(q, k, g, s) ==
    /\ g <= s
    /\ \A i \in 1 .. Len(q) : IsData(q[i], k) =>
         /\ q[i].says[2] \in g + 1 .. s
         /\ \A j \in 1 .. i - 1 : IsData(q[j], k) => q[j].says[2] < q[i].says[2]

Has(q, k, n) == \E i \in 1 .. Len(q) : IsData(q[i], k) /\ q[i].says[2] = n

\* ... with those before them, as far as they have not come out ...
NoGaps(q, k, g) ==
    \A i \in 1 .. Len(q) : IsData(q[i], k) => \A n \in g + 1 .. q[i].says[2] : Has(q, k, n)

\* ... up to the last that was sent.
Complete(q, k, g, s) == \A n \in g + 1 .. s : Has(q, k, n)

\* No data of a connection comes after its CLOSE.
LastIsClose(q) ==
    \A i, j \in 1 .. Len(q) : q[i].kind = "close" /\ IsData(q[j], q[i].says) => j < i

Numbered(h) == \A k \in Locals : \A n \in 1 .. Len(h[k]) : h[k][n] = <<k, n>>

\* The client's connections.
ConnsInv ==
    /\ accepted \subseteq Locals /\ IsFiniteSet(accepted)
    /\ \A k \in Locals : connPc[k] = "none" <=> k \notin accepted
    /\ Base <= nextCh /\ nextCh <= LastId + Cardinality(Forwarded)
    /\ \A k \in Forwarded : chOf[k] \in Nat /\ Base <= chOf[k] /\ chOf[k] < nextCh
    /\ \A k \in Locals \ Forwarded : chOf[k] = NoId
    /\ \A j, k \in Forwarded : chOf[j] = chOf[k] => j = k
    /\ held \subseteq Forwarded /\ Forwarded \subseteq held \cup localClosed

\* Why an end is closed.
EndsInv ==
    /\ localClosed \subseteq Forwarded /\ refused \subseteq Forwarded
    /\ toolDone \subseteq accepted /\ usbipdDone \subseteq Reached
    /\ cli = "ended" => Lost
    /\ \A k \in Locals : connPc[k] = "failed" => Lost \/ k \in refused
    /\ \A k \in Locals : connPc[k] = "closing" => Lost \/ k \in toolDone \cup localClosed
    /\ \A k \in localClosed : Lost \/ k \in refused \cup toolDone \cup usbipdDone
    /\ \A p \in Pumps : pumpState[p] # "free" /\ p \notin sockets
                        => Lost \/ serves[p] \in toolDone \cup usbipdDone

\* Every pump is that of one local connection, and so is the OPEN that is served.
PumpsInv ==
    /\ opener \in Locals \cup {NoConn} /\ serves \in [Pumps -> Locals \cup {NoConn}]
    /\ phase[Session] # "opening" => opener = NoConn
    /\ phase[Session] = "opening" =>
         /\ opener \in Forwarded \ (Reached \cup refused) /\ pending[Session] = chOf[opener]
    /\ \A p \in Pumps : pumpState[p] = "free" => serves[p] = NoConn
    /\ \A p \in Pumps : pumpState[p] # "free" =>
         /\ serves[p] \in Forwarded \ refused /\ pumpCh[p] = chOf[serves[p]]
         /\ \A q \in Pumps : serves[q] = serves[p] => q = p
         /\ serves[p] \in usbipdDone => pumpState[p] \in {"closing", "done"}
         /\ pumpState[p] = "closing" => Lost \/ p \notin sockets \/ serves[p] \in usbipdDone

Named(f) ==
    /\ Owner(f) \in Forwarded /\ f.ch = chOf[Owner(f)]
    /\ f.kind = "data" => f.says \in Locals \X Nat

OpenIsUnderWay(k) == \E i \in 1 .. Len(up) : up[i].kind = "open" /\ up[i].says = k

Asked(k) == k \in Reached \cup refused \cup {opener} \/ OpenIsUnderWay(k)

\* What is under way to the server.
UpInv ==
    /\ \A i \in 1 .. Len(up) : Named(up[i]) /\ Asked(Owner(up[i]))
    /\ Lost \/ \A k \in Forwarded : Asked(k)
    /\ \A i \in 1 .. Len(up) : up[i].kind = "open" =>
         /\ up[i].says \notin Reached \cup refused \cup {opener}
         /\ \A j \in 1 .. i - 1 : Owner(up[j]) # up[i].says
    /\ LastIsClose(up)
    /\ \A i \in 1 .. Len(up) : up[i].kind = "close" =>
         /\ connPc[up[i].says] \in {"closing", "done"}
         /\ Lost \/ up[i].says \in toolDone \cup localClosed

\* What is under way to the client.
DownFrames == [kind : {"data", "close"}, ch : UsbIds, says : Said]

Quiet(k) == k \in refused \/ \E p \in Pumps : serves[p] = k /\ pumpState[p] \in {"closing", "done"}

DownInv ==
    /\ down \in Seq(DownFrames)
    /\ \A i \in 1 .. Len(down) : Named(down[i])
    /\ LastIsClose(down)
    /\ \A i \in 1 .. Len(down) : down[i].kind = "close" =>
         /\ Quiet(down[i].says)
         /\ Lost \/ down[i].says \in refused \cup toolDone \cup usbipdDone

\* What was sent has come out, or is under way ...
\* ... to usbipd, unless the server has closed its end.
UpFlow(k) ==
    LET g == Len(got["up"][k])
        s == Len(sent["up"][k])
    IN /\ Carries(up, k, g, s)
       /\ k \in refused \cup RemoteClosed \/ NoGaps(up, k, g)
       /\ Lost \/ k \in refused \cup RemoteClosed \/ Complete(up, k, g, s)

\* ... to the local tool, unless the client has closed its end.
DownFlow(k) ==
    LET g == Len(got["down"][k])
        s == Len(sent["down"][k])
    IN /\ Carries(down, k, g, s)
       /\ k \in localClosed \/ NoGaps(down, k, g)
       /\ Lost \/ k \in localClosed \/ Complete(down, k, g, s)

FlowInv ==
    /\ sent \in [{"up", "down"} -> [Locals -> Seq(Payloads)]] /\ \A d \in {"up", "down"} : Numbered(sent[d])
    /\ got \in [{"up", "down"} -> [Locals -> Seq(Payloads)]] /\ \A d \in {"up", "down"} : Numbered(got[d])
    /\ \A k \in Locals : sent["up"][k] # << >> => k \in Forwarded
    /\ \A k \in Locals : sent["down"][k] # << >> => k \in Reached
    /\ \A k \in Locals : UpFlow(k) /\ DownFlow(k)

\* There is no connection before it is accepted, and a lost one stays lost.
LinkInv == phase[Session] = "idle" => conn[Session] = "none"

WireInv == LinkInv /\ ConnsInv /\ EndsInv /\ PumpsInv /\ UpInv /\ DownInv /\ FlowInv

-----------------------------------------------------------------------------
(* Queues of frames.                                                        *)

LEMMA AppendFacts ==
  ASSUME NEW T, NEW q \in Seq(T), NEW f \in T, NEW r, r = Append(q, f)
  PROVE  /\ Len(q) \in Nat /\ Len(r) = Len(q) + 1 /\ r[Len(r)] = f
         /\ 1 .. Len(r) = 1 .. Len(q) \cup {Len(r)} /\ Len(r) \notin 1 .. Len(q)
         /\ \A i \in 1 .. Len(q) : r[i] = q[i] /\ 1 .. i - 1 \subseteq 1 .. Len(q)
<1>1. Len(q) \in Nat /\ Len(r) = Len(q) + 1 /\ r[Len(q) + 1] = f
      /\ \A i \in 1 .. Len(q) : r[i] = q[i]
  BY AppendProperties, LenProperties
<1>. QED BY <1>1

LEMMA TailFacts ==
  ASSUME NEW T, NEW q \in Seq(T), q # << >>, NEW r, r = Tail(q)
  PROVE  /\ Len(q) \in Nat /\ Len(r) \in Nat /\ Len(q) = Len(r) + 1 /\ Head(q) = q[1]
         /\ 1 \in 1 .. Len(q) /\ \A i \in 1 .. Len(r) : i + 1 \in 1 .. Len(q) /\ r[i] = q[i + 1]
  BY HeadTailProperties

LEMMA AppendLonger ==
  ASSUME NEW T, NEW q \in Seq(T), NEW f \in T
  PROVE  Append(q, f) # q /\ (q # << >> => Append(q, f) # Tail(q))
<1>1. Len(Append(q, f)) = Len(q) + 1 /\ Len(q) \in Nat
  BY AppendProperties, LenProperties
<1>2. q # << >> => Len(Tail(q)) = Len(q) - 1
  BY HeadTailProperties
<1>. QED BY <1>1, <1>2

\* A frame that is no data of k changes nothing for k.
LEMMA AppendOther ==
  ASSUME NEW T, NEW q \in Seq(T), NEW f \in T, NEW r, r = Append(q, f), NEW k, ~ IsData(f, k),
         NEW g \in Nat, NEW s \in Nat
  PROVE  /\ Carries(q, k, g, s) => Carries(r, k, g, s)
         /\ NoGaps(q, k, g) => NoGaps(r, k, g)
         /\ Complete(q, k, g, s) => Complete(r, k, g, s)
<1>1. \A n : Has(q, k, n) => Has(r, k, n)
  BY AppendFacts DEF Has
<1>2. Carries(q, k, g, s) => Carries(r, k, g, s)
  BY AppendFacts DEF Carries
<1>3. NoGaps(q, k, g) => NoGaps(r, k, g)
  BY <1>1, AppendFacts DEF NoGaps
<1>. QED BY <1>1, <1>2, <1>3 DEF Complete

\* The next piece of k is sent.
LEMMA AppendPiece ==
  ASSUME NEW T, NEW q \in Seq(T), NEW f \in T, NEW r, r = Append(q, f), NEW k,
         NEW g \in Nat, NEW s \in Nat, IsData(f, k), f.says[2] = s + 1
  PROVE  /\ Carries(q, k, g, s) => Carries(r, k, g, s + 1)
         /\ NoGaps(q, k, g) /\ Complete(q, k, g, s) =>
              NoGaps(r, k, g) /\ Complete(r, k, g, s + 1)
<1>1. /\ \A n : Has(q, k, n) => Has(r, k, n)
      /\ Has(r, k, s + 1)
  BY AppendFacts DEF Has
<1>2. ASSUME Carries(q, k, g, s) PROVE Carries(r, k, g, s + 1)
  <2>1. ASSUME NEW i \in 1 .. Len(r), IsData(r[i], k)
        PROVE  /\ r[i].says[2] \in g + 1 .. s + 1
               /\ \A j \in 1 .. i - 1 : IsData(r[j], k) => r[j].says[2] < r[i].says[2]
    <3>1. CASE i \in 1 .. Len(q)
      <4>1. q[i].says[2] \in g + 1 .. s
            /\ \A j \in 1 .. i - 1 : IsData(q[j], k) => q[j].says[2] < q[i].says[2]
        BY <1>2, <2>1, <3>1, AppendFacts DEF Carries
      <4>2. g + 1 .. s \subseteq g + 1 .. s + 1
        OBVIOUS
      <4>3. r[i] = q[i] /\ \A j \in 1 .. i - 1 : r[j] = q[j]
        BY <3>1, AppendFacts
      <4>. QED BY <4>1, <4>2, <4>3
    <3>2. CASE i = Len(r)
      <4>1. r[i].says[2] = s + 1 /\ g <= s
        BY <1>2, <3>2, AppendFacts DEF Carries
      <4>2. ASSUME NEW j \in 1 .. i - 1, IsData(r[j], k) PROVE r[j].says[2] < r[i].says[2]
        <5>1. j \in 1 .. Len(q) /\ r[j] = q[j]
          BY <3>2, AppendFacts
        <5>2. r[j].says[2] \in g + 1 .. s
          BY <1>2, <4>2, <5>1 DEF Carries
        <5>. QED BY <4>1, <5>2
      <4>. QED BY <4>1, <4>2
    <3>3. i \in 1 .. Len(q) \/ i = Len(r)
      BY AppendFacts
    <3>. QED BY ONLY <3>1, <3>2, <3>3
  <2>2. g <= s + 1
    BY <1>2 DEF Carries
  <2>. QED BY <2>1, <2>2 DEF Carries
<1>3. ASSUME NoGaps(q, k, g), Complete(q, k, g, s) PROVE NoGaps(r, k, g) /\ Complete(r, k, g, s + 1)
  <2>1. \A n \in g + 1 .. s + 1 : n \in g + 1 .. s \/ n = s + 1
    OBVIOUS
  <2>2. Complete(r, k, g, s + 1)
    BY <1>1, <1>3, <2>1 DEF Complete
  <2>3. ASSUME NEW i \in 1 .. Len(r), IsData(r[i], k), NEW n \in g + 1 .. r[i].says[2] PROVE Has(r, k, n)
    <3>1. CASE i \in 1 .. Len(q)
      BY <1>1, <1>3, <2>3, <3>1, AppendFacts DEF NoGaps
    <3>2. CASE i = Len(r)
      <4>1. r[i].says[2] = s + 1
        BY <3>2, AppendFacts
      <4>. QED BY <2>2, <2>3, <4>1 DEF Complete
    <3>. QED BY <3>1, <3>2, AppendFacts
  <2>. QED BY <2>2, <2>3 DEF NoGaps
<1>. QED BY <1>2, <1>3

\* A frame that is no data of k is taken, or one of k is dropped.
LEMMA TailOther ==
  ASSUME NEW T, NEW q \in Seq(T), q # << >>, NEW r, r = Tail(q), NEW k, NEW g \in Nat, NEW s \in Nat
  PROVE  /\ Carries(q, k, g, s) => Carries(r, k, g, s)
         /\ ~ IsData(Head(q), k) =>
              /\ NoGaps(q, k, g) => NoGaps(r, k, g)
              /\ Complete(q, k, g, s) => Complete(r, k, g, s)
<1>1. Carries(q, k, g, s) => Carries(r, k, g, s)
  <2>1. ASSUME Carries(q, k, g, s), NEW i \in 1 .. Len(r), IsData(r[i], k)
        PROVE  /\ r[i].says[2] \in g + 1 .. s
               /\ \A j \in 1 .. i - 1 : IsData(r[j], k) => r[j].says[2] < r[i].says[2]
    <3>1. i + 1 \in 1 .. Len(q) /\ r[i] = q[i + 1]
          /\ \A j \in 1 .. i - 1 : j + 1 \in 1 .. (i + 1) - 1 /\ r[j] = q[j + 1]
      BY TailFacts
    <3>. QED BY <2>1, <3>1 DEF Carries
  <2>. QED BY <2>1 DEF Carries
<1>2. ASSUME ~ IsData(Head(q), k), NEW n, Has(q, k, n) PROVE Has(r, k, n)
  <2>1. PICK i \in 1 .. Len(q) : IsData(q[i], k) /\ q[i].says[2] = n
    BY <1>2 DEF Has
  <2>2. i # 1 /\ i - 1 \in 1 .. Len(r) /\ r[i - 1] = q[i]
    <3>1. i # 1
      BY <1>2, <2>1, TailFacts
    <3>2. i - 1 \in 1 .. Len(r)
      BY <3>1, TailFacts
    <3>3. r[i - 1] = q[(i - 1) + 1]
      BY <3>2, TailFacts
    <3>. QED BY <3>1, <3>2, <3>3
  <2>. QED BY <2>1, <2>2 DEF Has
<1>3. ASSUME ~ IsData(Head(q), k), NoGaps(q, k, g) PROVE NoGaps(r, k, g)
  BY <1>2, <1>3, TailFacts DEF NoGaps
<1>. QED BY <1>1, <1>2, <1>3 DEF Complete

\* A piece of k comes out: it is the next.
LEMMA TailPiece ==
  ASSUME NEW T, NEW q \in Seq(T), q # << >>, NEW r, r = Tail(q), NEW k, NEW g \in Nat, NEW s \in Nat,
         Carries(q, k, g, s), NoGaps(q, k, g), IsData(Head(q), k)
  PROVE  /\ Head(q).says[2] = g + 1 /\ g + 1 <= s
         /\ Carries(r, k, g + 1, s) /\ NoGaps(r, k, g + 1)
         /\ Complete(q, k, g, s) => Complete(r, k, g + 1, s)
<1>. DEFINE h == Head(q).says[2]
<1>1. h \in g + 1 .. s
  BY TailFacts DEF Carries
<1>2. ASSUME NEW i \in 1 .. Len(q), i # 1, IsData(q[i], k) PROVE h < q[i].says[2]
  <2>1. 1 \in 1 .. i - 1
    BY <1>2, TailFacts
  <2>. QED BY <1>2, <2>1, TailFacts DEF Carries
<1>3. h = g + 1
  <2>1. Has(q, k, g + 1)
    BY <1>1, TailFacts DEF NoGaps
  <2>2. PICK i \in 1 .. Len(q) : IsData(q[i], k) /\ q[i].says[2] = g + 1
    BY <2>1 DEF Has
  <2>3. CASE i = 1
    BY <2>2, <2>3, TailFacts
  <2>4. CASE i # 1
    <3>1. h < g + 1
      BY <1>2, <2>2, <2>4
    <3>. QED BY <1>1, <3>1
  <2>. QED BY <2>3, <2>4
<1>4. ASSUME NEW n, n # g + 1, Has(q, k, n) PROVE Has(r, k, n)
  <2>1. PICK i \in 1 .. Len(q) : IsData(q[i], k) /\ q[i].says[2] = n
    BY <1>4 DEF Has
  <2>2. i # 1
    BY <1>3, <1>4, <2>1, TailFacts
  <2>3. i - 1 \in 1 .. Len(r)
    BY <2>2, TailFacts
  <2>4. r[i - 1] = q[(i - 1) + 1] /\ (i - 1) + 1 = i
    BY <2>3, TailFacts
  <2>5. IsData(r[i - 1], k) /\ r[i - 1].says[2] = n
    BY <2>1, <2>4
  <2>. QED BY <2>3, <2>5 DEF Has
<1>5. ASSUME NEW i \in 1 .. Len(r), IsData(r[i], k)
      PROVE  /\ r[i].says[2] \in g + 2 .. s
             /\ \A j \in 1 .. i - 1 : IsData(r[j], k) => r[j].says[2] < r[i].says[2]
             /\ \A n \in g + 2 .. r[i].says[2] : Has(r, k, n)
  <2>1. i + 1 \in 1 .. Len(q) /\ i + 1 # 1 /\ r[i] = q[i + 1]
        /\ \A j \in 1 .. i - 1 : j + 1 \in 1 .. (i + 1) - 1 /\ r[j] = q[j + 1]
    BY TailFacts
  <2>2. r[i].says[2] \in g + 1 .. s /\ h < r[i].says[2]
    BY <1>2, <1>5, <2>1 DEF Carries
  <2>3. \A j \in 1 .. i - 1 : IsData(r[j], k) => r[j].says[2] < r[i].says[2]
    BY <1>5, <2>1 DEF Carries
  <2>4. \A n \in g + 1 .. r[i].says[2] : Has(q, k, n)
    BY <1>5, <2>1 DEF NoGaps
  <2>5. \A n \in g + 2 .. r[i].says[2] : n \in g + 1 .. r[i].says[2] /\ n # g + 1
    BY <2>2
  <2>. QED BY <1>3, <1>4, <2>2, <2>3, <2>4, <2>5
<1>6. Carries(r, k, g + 1, s) /\ NoGaps(r, k, g + 1)
  <2>1. g + 1 <= s /\ g + 1 + 1 = g + 2
    BY <1>1
  <2>. QED BY <1>5, <2>1 DEF Carries, NoGaps
<1>7. Complete(q, k, g, s) => Complete(r, k, g + 1, s)
  <2>1. \A n \in (g + 1) + 1 .. s : n \in g + 1 .. s /\ n # g + 1
    OBVIOUS
  <2>. QED BY <1>4, <2>1 DEF Complete
<1>. QED BY <1>1, <1>3, <1>6, <1>7

\* When none of its data is left, all of it has come out.
LEMMA AllOut ==
  ASSUME NEW q, NEW k, NEW g \in Nat, NEW s \in Nat, Carries(q, k, g, s), Complete(q, k, g, s),
         \A i \in 1 .. Len(q) : ~ IsData(q[i], k)
  PROVE  g = s
<1>1. CASE g < s
  <2>1. g + 1 \in g + 1 .. s
    BY <1>1
  <2>. QED BY <2>1 DEF Complete, Has
<1>. QED BY <1>1 DEF Carries

-----------------------------------------------------------------------------
(* The steps of the server, as far as they matter to the wires.             *)

LEMMA ServerFacts ==
  ASSUME SP!IndInv
  PROVE  /\ phase \in [{Session} -> S!Phases] /\ conn \in [{Session} -> S!Conns]
         /\ pumpState \in [Pumps -> S!PumpStates] /\ sockets \subseteq Pumps
         /\ \A p \in Pumps : pumpState[p] # "free" => pumpSession[p] = Session /\ pumpCh[p] \in UsbIds
         /\ \A p \in sockets :
              /\ chans[Session][pumpCh[p]] = p /\ p \notin cancelled
              /\ pumpState[p] \in {"created", "reading", "sending", "closing"}
         /\ \A c \in UsbIds : chans[Session][c] # NoPump =>
              chans[Session][c] \in sockets /\ pumpCh[chans[Session][c]] = c
         /\ \A c \in UsbIds : lanCh[Session] # c
<1>. USE DEF SP!IndInv
<1>1. /\ phase \in [{Session} -> S!Phases] /\ conn \in [{Session} -> S!Conns]
      /\ pumpState \in [Pumps -> S!PumpStates] /\ sockets \subseteq Pumps
  BY DEF SP!TypeOK, SP!HandlerTypeOK, SP!PumpTypeOK, SP!ChannelTypeOK, SP!Phases, S!Phases,
         SP!Conns, S!Conns, SP!PumpStates, S!PumpStates
<1>2. \A p \in Pumps : pumpState[p] # "free" => pumpSession[p] = Session /\ pumpCh[p] \in UsbIds
  BY DEF SP!ChannelInv, SP!PumpInv
<1>3. ASSUME NEW c \in UsbIds, chans[Session][c] # NoPump
      PROVE  chans[Session][c] \in sockets /\ pumpCh[chans[Session][c]] = c
  BY <1>3 DEF SP!ChannelInv, SP!ChannelsLive, SP!Serves, SP!OpenIds, SP!Ids
<1>4. ASSUME NEW p \in sockets
      PROVE  /\ chans[Session][pumpCh[p]] = p /\ p \notin cancelled
             /\ pumpState[p] \in {"created", "reading", "sending", "closing"}
  <2>1. pumpState[p] # "free" /\ pumpSession[p] = Session /\ pumpCh[p] \in UsbIds /\ p \in Pumps
    BY <1>1, <1>2 DEF SP!ChannelInv, SP!PumpInv
  <2>2. chans[Session][pumpCh[p]] = p
    BY <2>1 DEF SP!ChannelInv, SP!NothingOrphaned, SP!RegisteredAs
  <2>3. p # NoPump
    BY <2>1, TunnelAssumption
  <2>. QED BY <2>1, <2>2, <2>3 DEF SP!ChannelInv, SP!ChannelsLive, SP!Serves, SP!OpenIds, SP!Ids
<1>5. \A c \in UsbIds : lanCh[Session] # c
  BY TunnelAssumption DEF SP!TypeOK, SP!ChannelTypeOK
<1>. QED BY <1>1, <1>2, <1>3, <1>4, <1>5

\* What a step of the handler leaves alone in the tunnel, and how it ends a session.
Ending ==
    /\ UNCHANGED <<pending, pumpState, pumpSession, pumpCh>>
    /\ sockets' \subseteq sockets
    /\ Lost' \/ sockets' = sockets

LEMMA ExitEnds ==
  ASSUME SP!IndInv, S!Exit(Session)
  PROVE  Ending /\ (Lost => Lost') /\ phase' = [phase EXCEPT ![Session] = "done"]
<1>1. conn' = [s \in {Session} |-> IF s \in {Session} \ closed THEN "lost" ELSE conn[s]]
  BY DEF S!Exit, S!Cleanup
<1>2. conn \in [{Session} -> S!Conns]
  BY ServerFacts
<1>3. Session \in closed => conn' = conn /\ sockets' = sockets
  BY <1>1, <1>2 DEF S!Exit, S!Cleanup, S!Popped
<1>4. Session \notin closed => conn'[Session] = "lost"
  BY <1>1
<1>. QED BY <1>3, <1>4 DEF Ending, Lost, S!Exit, S!Cleanup, S!pumpVars

\* CLOSE of an id closes the usbipd connection under it, and no other.
LEMMA ClosesOne ==
  ASSUME SP!IndInv, NEW c \in UsbIds, S!CloseChannel(Session, c)
  PROVE  sockets' = {p \in sockets : pumpCh[p] # c}
<1>1. sockets' = sockets \ {chans[Session][c]}
  BY ServerFacts DEF S!CloseChannel
<1>2. ASSUME NEW p \in sockets PROVE pumpCh[p] = c <=> p = chans[Session][c]
  <2>1. p # NoPump /\ chans[Session][pumpCh[p]] = p
    BY ServerFacts, TunnelAssumption
  <2>2. p = chans[Session][c] => pumpCh[p] = c
    BY <2>1, ServerFacts
  <2>. QED BY <2>1, <2>2
<1>. QED BY <1>1, <1>2

\* What the steps of the server change, besides its handler and its pumps.
Tunnels == <<cli, nextCh, connPc, chOf, held, accepted, toolDone, localClosed>>

LEMMA RunsEffect ==
  ASSUME SP!IndInv, LinkInv, ServerRuns
  PROVE  /\ UNCHANGED <<Tunnels, up, down, opener, serves, refused, usbipdDone, sent, got>>
         /\ Ending /\ (Lost => Lost') /\ LinkInv'
         /\ phase[Session] # "opening" /\ phase'[Session] # "opening"
<1>1. UNCHANGED <<Tunnels, up, down, opener, serves, refused, usbipdDone, sent, got>>
  BY DEF ServerRuns, ServerKeeps, clientVars, Tunnels
<1>2. phase \in [{Session} -> S!Phases] /\ conn \in [{Session} -> S!Conns]
  BY ServerFacts
<1>3. CASE S!Connect(Session)
  BY <1>1, <1>2, <1>3 DEF S!Connect, Ending, Lost, LinkInv, S!pumpVars, S!channelVars
<1>4. CASE S!HelloAccepted(Session) \/ S!Replied(Session) \/ S!ChannelDrained(Session)
  BY <1>1, <1>2, <1>4 DEF S!HelloAccepted, S!Replied, S!ChannelDrained, Ending, Lost, LinkInv,
                          S!pumpVars, S!channelVars
<1>5. CASE \/ S!HelloFails(Session) \/ S!ChannelDrainFails(Session) \/ S!ReplyFails(Session)
           \/ S!ReadEof(Session)
  <2>1. S!Exit(Session) /\ phase[Session] # "opening"
    BY <1>5 DEF S!HelloFails, S!ChannelDrainFails, S!ReplyFails, S!ReadEof
  <2>. QED BY <1>1, <1>2, <2>1, ExitEnds DEF LinkInv
<1>. QED BY <1>3, <1>4, <1>5 DEF ServerRuns

LEMMA ReceivesEffect ==
  ASSUME SP!IndInv, LinkInv, IdsInv, ReceivesOpen \/ ReceivesData \/ ReceivesClose
  PROVE  /\ UNCHANGED <<Tunnels, usbipdDone, serves, conn, pumpState, pumpCh, sent>>
         /\ phase[Session] = "loop" /\ phase' \in [{Session} -> S!Phases] /\ LinkInv'
         /\ up # << >> /\ up' = Tail(up) /\ Head(up) \in UpFrames
         /\ ReceivesOpen =>
              /\ Head(up).kind = "open" /\ UNCHANGED <<sockets, got>>
              /\ \/ /\ phase'[Session] = "opening" /\ opener' = Head(up).says
                    /\ pending' = [pending EXCEPT ![Session] = Head(up).ch]
                    /\ UNCHANGED <<down, refused>>
                 \/ /\ phase'[Session] # "opening" /\ refused' = refused \cup {Head(up).says}
                    /\ ServerWrites(Frame("close", Head(up).ch, Head(up).says))
                    /\ UNCHANGED <<opener, pending>>
         /\ ReceivesData =>
              /\ Head(up).kind = "data"
              /\ UNCHANGED <<down, opener, refused, pending, sockets>> /\ phase'[Session] # "opening"
              /\ \/ \E p \in sockets :
                      /\ pumpCh[p] = Head(up).ch
                      /\ got' = [got EXCEPT !["up"][serves[p]] = Append(@, Head(up).says)]
                 \/ /\ \A p \in sockets : pumpCh[p] # Head(up).ch
                    /\ UNCHANGED got
         /\ ReceivesClose =>
              /\ Head(up).kind = "close"
              /\ UNCHANGED <<down, opener, refused, pending, got>> /\ phase'[Session] # "opening"
              /\ sockets' = {p \in sockets : pumpCh[p] # Head(up).ch}
<1>. DEFINE c == Head(up).ch
<1>1. phase \in [{Session} -> S!Phases]
  BY ServerFacts
<1>2. up # << >> /\ up' = Tail(up) /\ Head(up) \in UpFrames
  <2>1. up # << >> /\ up' = Tail(up)
    BY Zenon DEF ReceivesOpen, ReceivesData, ReceivesClose, Receives
  <2>. QED BY <2>1, UpFrame, HeadTailProperties DEF IdsInv, IdTypes
<1>3. c \in UsbIds
  BY <1>2 DEF UpFrames
<1>4. \E next \in {"loop", "replying", "opening", "chdrain"} : S!Read(Session, next)
  BY Zenon DEF ReceivesOpen, ReceivesData, ReceivesClose, S!RecvOpenUsb, S!RefuseOpenUsb, S!RecvOther,
         S!RecvDataBlocks, S!RecvClose
<1>5. /\ phase[Session] = "loop" /\ phase' \in [{Session} -> S!Phases] /\ UNCHANGED conn /\ LinkInv'
      /\ phase'[Session] # "idle"
  BY <1>1, <1>4 DEF S!Read, S!Phases, LinkInv
<1>6. UNCHANGED <<Tunnels, usbipdDone, serves, pumpState, pumpCh, sent>>
  BY Zenon DEF ReceivesOpen, ReceivesData, ReceivesClose, Receives, ServerKeeps, clientVars, Tunnels,
         S!RecvOpenUsb, S!RefuseOpenUsb, S!RecvOther, S!RecvDataBlocks, S!RecvClose, S!pumpVars
<1>7. ASSUME ReceivesOpen
      PROVE  /\ Head(up).kind = "open" /\ UNCHANGED <<sockets, got>>
             /\ \/ /\ phase'[Session] = "opening" /\ opener' = Head(up).says
                   /\ pending' = [pending EXCEPT ![Session] = Head(up).ch]
                   /\ UNCHANGED <<down, refused>>
                \/ /\ phase'[Session] # "opening" /\ refused' = refused \cup {Head(up).says}
                   /\ ServerWrites(Frame("close", Head(up).ch, Head(up).says))
                   /\ UNCHANGED <<opener, pending>>
  BY <1>1, <1>7 DEF ReceivesOpen, Receives, S!RecvOpenUsb, S!RefuseOpenUsb, S!Read, S!channelVars
<1>8. ASSUME ReceivesClose
      PROVE  /\ Head(up).kind = "close"
             /\ UNCHANGED <<down, opener, refused, pending, got>> /\ phase'[Session] # "opening"
             /\ sockets' = {p \in sockets : pumpCh[p] # Head(up).ch}
  BY <1>1, <1>3, <1>8, ClosesOne DEF ReceivesClose, Receives, S!RecvClose, S!Read
<1>9. ASSUME ReceivesData
      PROVE  /\ Head(up).kind = "data"
             /\ UNCHANGED <<down, opener, refused, pending, sockets>> /\ phase'[Session] # "opening"
             /\ \/ \E p \in sockets :
                     /\ pumpCh[p] = Head(up).ch
                     /\ got' = [got EXCEPT !["up"][serves[p]] = Append(@, Head(up).says)]
                \/ /\ \A p \in sockets : pumpCh[p] # Head(up).ch
                   /\ UNCHANGED got
  <2>1. /\ Head(up).kind = "data"
        /\ UNCHANGED <<down, opener, refused, pending, sockets>> /\ phase'[Session] # "opening"
    BY Zenon, <1>1, <1>9 DEF ReceivesData, Receives, S!RecvOther, S!RecvDataBlocks, S!Read, S!channelVars
  <2>2. c \in S!OpenIds(Session) => chans[Session][c] \in sockets /\ pumpCh[chans[Session][c]] = c
    BY <1>3, ServerFacts DEF S!OpenIds
  <2>3. c \notin S!OpenIds(Session) => \A p \in sockets : pumpCh[p] # c
    BY <1>3, ServerFacts, TunnelAssumption DEF S!OpenIds, S!Ids
  <2>4. \/ /\ c \in S!OpenIds(Session)
           /\ got' = [got EXCEPT !["up"][serves[chans[Session][c]]] = Append(@, Head(up).says)]
        \/ c \notin S!OpenIds(Session) /\ UNCHANGED got
    BY Zenon, <1>9 DEF ReceivesData, S!RecvDataBlocks
  <2>. QED BY Zenon, <2>1, <2>2, <2>3, <2>4
<1>. QED BY <1>2, <1>5, <1>6, <1>7, <1>8, <1>9

LEMMA OpensEffect ==
  ASSUME SP!IndInv, LinkInv, Opens
  PROVE  /\ UNCHANGED <<Tunnels, usbipdDone, up, conn, sent, got>>
         /\ phase[Session] = "opening" /\ phase'[Session] # "opening" /\ LinkInv'
         /\ opener' = NoConn
         /\ \/ /\ \E p \in Pumps :
                    /\ pumpState[p] = "free" /\ pumpState' = [pumpState EXCEPT ![p] = "created"]
                    /\ pumpCh' = [pumpCh EXCEPT ![p] = pending[Session]]
                    /\ sockets' = sockets \cup {p}
                    /\ serves' = [q \in Pumps |-> IF q = p THEN opener ELSE serves[q]]
               /\ UNCHANGED <<down, refused>>
            \/ /\ UNCHANGED <<pumpState, pumpCh, sockets, serves>>
               /\ refused' = refused \cup {opener}
               /\ ServerWrites(Frame("close", pending[Session], opener))
<1>1. /\ phase \in [{Session} -> S!Phases] /\ pumpState \in [Pumps -> S!PumpStates]
  BY ServerFacts
<1>2. UNCHANGED <<Tunnels, usbipdDone, up, sent, got>> /\ opener' = NoConn
  BY DEF Opens, ServerKeeps, clientVars, Tunnels
<1>3. UNCHANGED conn /\ phase[Session] = "opening" /\ phase'[Session] # "opening" /\ LinkInv'
  BY <1>1 DEF Opens, S!OpenDone, S!OpenFails, LinkInv
<1>4. CASE S!OpenFails(Session)
  <2>1. UNCHANGED <<pumpState, pumpCh, sockets>>
    BY <1>4 DEF S!OpenFails, S!pumpVars, S!channelVars
  <2>2. ~ S!OpenDone(Session)
    BY <1>1, <2>1 DEF S!OpenDone
  <2>. QED BY <1>2, <1>3, <2>1, <2>2 DEF Opens
<1>5. CASE S!OpenDone(Session) /\ ~ S!OpenFails(Session)
  <2>1. PICK p \in Pumps :
          /\ pumpState[p] = "free" /\ pumpState' = [pumpState EXCEPT ![p] = "created"]
          /\ pumpCh' = [pumpCh EXCEPT ![p] = pending[Session]]
          /\ sockets' = sockets \cup {p}
    BY <1>5 DEF S!OpenDone
  <2>2. /\ serves' = [q \in Pumps |-> IF pumpState'[q] # pumpState[q] THEN opener ELSE serves[q]]
        /\ UNCHANGED <<down, refused>>
    BY <1>5 DEF Opens
  <2>3. \A q \in Pumps : pumpState'[q] # pumpState[q] <=> q = p
    BY <1>1, <2>1
  <2>4. serves' = [q \in Pumps |-> IF q = p THEN opener ELSE serves[q]]
    BY <2>2, <2>3
  <2>. QED BY <1>2, <1>3, <2>1, <2>2, <2>4
<1>. QED BY <1>4, <1>5 DEF Opens

LEMMA PumpEffect ==
  ASSUME SP!IndInv, LinkInv, NEW p \in Pumps,
         PumpReads(p) \/ PumpEnds(p) \/ PumpInterrupted(p) \/ PumpGoesOn(p)
  PROVE  /\ UNCHANGED <<Tunnels, up, conn, phase, pending, opener, serves, refused, pumpCh, got>>
         /\ LinkInv' /\ pumpState[p] \notin {"free", "done"}
         /\ \E to \in {"reading", "sending", "closing", "done"} :
              pumpState' = [pumpState EXCEPT ![p] = to]
         /\ PumpReads(p) =>
              /\ pumpState[p] = "reading" /\ pumpState'[p] = "sending"
              /\ Pieces < MaxData /\ UNCHANGED <<sockets, usbipdDone>>
              /\ LET x == <<serves[p], Len(sent["down"][serves[p]]) + 1>>
                 IN /\ ServerWrites(Frame("data", pumpCh[p], x))
                    /\ sent' = [sent EXCEPT !["down"][serves[p]] = Append(@, x)]
         /\ PumpEnds(p) =>
              /\ pumpState'[p] = "closing" /\ UNCHANGED <<sockets, sent>>
              /\ \/ pumpState[p] = "reading" /\ usbipdDone' = usbipdDone \cup {serves[p]}
                 \/ Lost /\ UNCHANGED usbipdDone
              /\ ServerWrites(Frame("close", pumpCh[p], serves[p]))
         /\ PumpInterrupted(p) =>
              /\ pumpState'[p] = "closing" /\ p \notin sockets /\ UNCHANGED <<sockets, sent, usbipdDone>>
              /\ ServerWrites(Frame("close", pumpCh[p], serves[p]))
         /\ PumpGoesOn(p) =>
              /\ UNCHANGED <<sent, usbipdDone, down>>
              /\ \/ pumpState'[p] # "closing" /\ pumpState[p] # "closing" /\ UNCHANGED sockets
                 \/ /\ pumpState[p] = "closing" /\ pumpState'[p] = "done"
                    /\ sockets' = {q \in sockets : pumpCh[q] # pumpCh[p]}
<1>. USE DEF S!PumpGoes
<1>1. pumpState \in [Pumps -> S!PumpStates]
  BY ServerFacts
<1>2. UNCHANGED <<Tunnels, up, opener, serves, refused, got>>
  BY DEF PumpReads, PumpEnds, PumpInterrupted, PumpGoesOn, ServerKeeps, clientVars, Tunnels
<1>3. \E from, to \in S!PumpStates : S!PumpGoes(p, from, to) /\ from \notin {"free", "done"}
                              /\ to \in {"reading", "sending", "closing", "done"}
  BY DEF PumpReads, PumpEnds, PumpInterrupted, PumpGoesOn, S!PumpReads, S!PumpEnds,
         S!PumpInterrupted, S!PumpStarts, S!PumpDropped, S!PumpSent, S!PumpFinishes, S!PumpStates
<1>4. /\ UNCHANGED <<conn, phase, pending, pumpCh>> /\ LinkInv' /\ pumpState[p] \notin {"free", "done"}
      /\ \E to \in {"reading", "sending", "closing", "done"} :
           pumpState' = [pumpState EXCEPT ![p] = to]
  BY <1>3 DEF S!handlerVars, LinkInv
<1>5. ASSUME PumpReads(p)
      PROVE  /\ pumpState[p] = "reading" /\ pumpState'[p] = "sending"
             /\ Pieces < MaxData /\ UNCHANGED <<sockets, usbipdDone>>
             /\ LET x == <<serves[p], Len(sent["down"][serves[p]]) + 1>>
                IN /\ ServerWrites(Frame("data", pumpCh[p], x))
                   /\ sent' = [sent EXCEPT !["down"][serves[p]] = Append(@, x)]
  BY <1>1, <1>5 DEF PumpReads, S!PumpReads, S!channelVars
<1>6. ASSUME PumpEnds(p)
      PROVE  /\ pumpState'[p] = "closing" /\ UNCHANGED <<sockets, sent>>
             /\ \/ pumpState[p] = "reading" /\ usbipdDone' = usbipdDone \cup {serves[p]}
                \/ Lost /\ UNCHANGED usbipdDone
             /\ ServerWrites(Frame("close", pumpCh[p], serves[p]))
  <2>1. pumpState[p] # "free" => pumpSession[p] = Session
    BY ServerFacts
  <2>. QED BY <1>1, <1>6, <2>1 DEF PumpEnds, S!PumpEnds, S!channelVars, Lost
<1>7. ASSUME PumpInterrupted(p)
      PROVE  /\ pumpState'[p] = "closing" /\ p \notin sockets /\ UNCHANGED <<sockets, sent, usbipdDone>>
             /\ ServerWrites(Frame("close", pumpCh[p], serves[p]))
  BY <1>1, <1>7, ServerFacts DEF PumpInterrupted, S!PumpInterrupted
<1>8. ASSUME PumpGoesOn(p)
      PROVE  /\ UNCHANGED <<sent, usbipdDone, down>>
             /\ \/ pumpState'[p] # "closing" /\ pumpState[p] # "closing" /\ UNCHANGED sockets
                \/ /\ pumpState[p] = "closing" /\ pumpState'[p] = "done"
                   /\ sockets' = {q \in sockets : pumpCh[q] # pumpCh[p]}
  <2>1. UNCHANGED <<sent, usbipdDone, down>>
    BY <1>8 DEF PumpGoesOn
  <2>2. CASE S!PumpStarts(p) \/ S!PumpDropped(p) \/ S!PumpSent(p)
    BY <1>1, <2>1, <2>2 DEF S!PumpStarts, S!PumpDropped, S!PumpSent, S!channelVars
  <2>3. CASE S!PumpFinishes(p)
    <3>1. pumpState[p] = "closing" /\ pumpState'[p] = "done"
      BY <1>1, <2>3 DEF S!PumpFinishes
    <3>2. pumpSession[p] = Session /\ pumpCh[p] \in UsbIds
      BY <3>1, ServerFacts
    <3>3. S!CloseChannel(Session, pumpCh[p])
      BY <2>3, <3>2 DEF S!PumpFinishes
    <3>. QED BY <2>1, <3>1, <3>2, <3>3, ClosesOne
  <2>. QED BY <1>8, <2>2, <2>3 DEF PumpGoesOn
<1>. QED BY <1>2, <1>4, <1>5, <1>6, <1>7, <1>8

LEMMA LosesEffect ==
  ASSUME SP!IndInv, LinkInv, CleansUp \/ NetworkFails
  PROVE  /\ UNCHANGED <<nextCh, connPc, chOf, held, accepted, toolDone, up, phase, pending, opener,
                        serves, refused, pumpState, pumpCh, sockets, usbipdDone, sent, got>>
         /\ LinkInv' /\ Lost' /\ down' = << >>
         /\ CleansUp => cli' = "ended" /\ localClosed' = localClosed \cup held
         /\ NetworkFails => UNCHANGED <<cli, localClosed>>
<1>1. conn \in [{Session} -> S!Conns]
  BY ServerFacts
<1>2. (CleansUp => cli' = "ended" /\ localClosed' = localClosed \cup held)
      /\ (NetworkFails => UNCHANGED <<cli, localClosed>>)
  BY DEF CleansUp, NetworkFails, ServerKeeps, clientVars
<1>3. /\ UNCHANGED <<nextCh, connPc, chOf, held, accepted, toolDone, up, opener, serves, refused,
                      usbipdDone, sent, got>>
      /\ down' = << >>
  BY DEF CleansUp, NetworkFails, ServerKeeps, clientVars, openVars
<1>4. UNCHANGED <<phase, pending, pumpState, pumpCh, sockets>> /\ LinkInv' /\ Lost'
  <2>1. CASE S!ClientCloses(Session)
    <3>1. UNCHANGED <<phase, pending, pumpState, pumpCh, sockets>>
      BY <2>1 DEF S!ClientCloses, S!channelVars, S!pumpVars
    <3>2. conn[Session] # "none" /\ conn'[Session] = "lost"
      BY <1>1, <2>1 DEF S!ClientCloses
    <3>. QED BY <3>1, <3>2 DEF LinkInv, Lost
  <2>2. CASE Lost /\ UNCHANGED serverVars
    BY <2>2 DEF serverVars, LinkInv, Lost
  <2>. QED BY <2>1, <2>2 DEF CleansUp, NetworkFails
<1>. QED BY <1>2, <1>3, <1>4

LEMMA WriteEffect ==
  ASSUME NEW f, ClientWrites(f)
  PROVE  /\ UNCHANGED <<phase, conn, pending, pumpState, pumpCh, sockets>>
         /\ up' = IF Lost THEN up ELSE Append(up, f)
  BY DEF ClientWrites, S!ClientSends, S!channelVars, S!pumpVars, serverVars

\* The steps of the client leave the server alone, but for the frames they write.
LEMMA ClientEffect ==
  ASSUME LinkInv, NEW k,
         \/ ClientRuns \/ ClientLoop \/ Accept(k) \/ Conn(k) \/ AsyncioCloses(k)
         \/ ToolHangsUp(k) \/ ConnReads(k) \/ ConnDropped(k)
  PROVE  /\ UNCHANGED <<phase, conn, pending, pumpState, pumpCh, sockets, opener, serves, usbipdDone>>
         /\ LinkInv'
         /\ ForwardConn(k) => up' = IF Lost THEN up ELSE Append(up, Frame("open", FreeId, k))
         /\ ConnReads(k) =>
              LET x == <<k, Len(sent["up"][k]) + 1>>
              IN up' = IF Lost THEN up ELSE Append(up, Frame("data", chOf[k], x))
         /\ ConnEnds(k) => up' = IF Lost THEN up ELSE Append(up, Frame("close", chOf[k], k))
         /\ \/ ClientRuns \/ ClientLoop \/ Accept(k) \/ ForwardFails(k) \/ OpenSent(k) \/ ConnFinishes(k)
            \/ AsyncioCloses(k) \/ ToolHangsUp(k) \/ ConnDropped(k)
            => UNCHANGED up
<1>1. UNCHANGED <<opener, serves, usbipdDone>>
  BY DEF ClientRuns, ClientLoop, TakesData, TakesClose, Accept, Conn, ForwardConn, ForwardFails,
         OpenSent, ConnEnds, ConnFinishes, AsyncioCloses, ToolHangsUp, ConnReads, ConnDropped,
         openVars, endVars
<1>2. CASE ForwardConn(k) \/ ConnReads(k) \/ ConnEnds(k)
  <2>1. UNCHANGED <<phase, conn, pending, pumpState, pumpCh, sockets>>
    BY <1>2, WriteEffect DEF ForwardConn, ConnReads, ConnEnds
  <2>2. ForwardConn(k) => up' = IF Lost THEN up ELSE Append(up, Frame("open", FreeId, k))
    BY WriteEffect DEF ForwardConn
  <2>3. ConnReads(k) => LET x == <<k, Len(sent["up"][k]) + 1>>
                        IN up' = IF Lost THEN up ELSE Append(up, Frame("data", chOf[k], x))
    BY WriteEffect DEF ConnReads
  <2>4. ConnEnds(k) => up' = IF Lost THEN up ELSE Append(up, Frame("close", chOf[k], k))
    BY WriteEffect DEF ConnEnds
  <2>5. \/ ClientRuns \/ ClientLoop \/ Accept(k) \/ ForwardFails(k) \/ OpenSent(k) \/ ConnFinishes(k)
        \/ AsyncioCloses(k) \/ ToolHangsUp(k) \/ ConnDropped(k)
        => UNCHANGED up
    BY DEF ClientRuns, ClientLoop, TakesData, TakesClose, Accept, ForwardFails, OpenSent,
           ConnFinishes, AsyncioCloses, ToolHangsUp, ConnDropped
  <2>. QED BY <1>1, <2>1, <2>2, <2>3, <2>4, <2>5 DEF LinkInv
<1>3. CASE \/ ClientRuns \/ ClientLoop \/ Accept(k) \/ ForwardFails(k) \/ OpenSent(k)
           \/ ConnFinishes(k) \/ AsyncioCloses(k) \/ ToolHangsUp(k) \/ ConnDropped(k)
  <2>1. UNCHANGED <<serverVars, up>>
    BY <1>3 DEF ClientRuns, ClientLoop, TakesData, TakesClose, Accept, ForwardFails, OpenSent,
                ConnFinishes, AsyncioCloses, ToolHangsUp, ConnDropped
  <2>2. UNCHANGED <<phase, conn, pending, pumpState, pumpCh, sockets>>
    BY <2>1 DEF serverVars
  <2>3. ForwardConn(k) => up' = IF Lost THEN up ELSE Append(up, Frame("open", FreeId, k))
    BY WriteEffect DEF ForwardConn
  <2>4. ConnReads(k) => LET x == <<k, Len(sent["up"][k]) + 1>>
                        IN up' = IF Lost THEN up ELSE Append(up, Frame("data", chOf[k], x))
    BY WriteEffect DEF ConnReads
  <2>5. ConnEnds(k) => up' = IF Lost THEN up ELSE Append(up, Frame("close", chOf[k], k))
    BY WriteEffect DEF ConnEnds
  <2>. QED BY <1>1, <2>1, <2>2, <2>3, <2>4, <2>5 DEF LinkInv
<1>. QED BY <1>2, <1>3 DEF Conn

\* A step of the server, of the network, or of _cleanup.
ServerStep ==
    \/ ServerRuns \/ CleansUp \/ NetworkFails \/ Opens
    \/ ReceivesOpen \/ ReceivesData \/ ReceivesClose
    \/ \E p \in Pumps : PumpReads(p) \/ PumpEnds(p) \/ PumpInterrupted(p) \/ PumpGoesOn(p)

\* A step of the client's frame loop, or of a local connection.
LoopStep == ClientRuns \/ TakesData \/ TakesClose
ConnStep(k) ==
    \/ Accept(k) \/ ForwardConn(k) \/ ForwardFails(k) \/ OpenSent(k) \/ ConnEnds(k)
    \/ ConnFinishes(k) \/ AsyncioCloses(k) \/ ToolHangsUp(k) \/ ConnReads(k) \/ ConnDropped(k)

LEMMA StepsOfNext == Next => ServerStep \/ LoopStep \/ \E k \in Locals : ConnStep(k)
  BY DEF Next, ServerLoop, ClientLoop, Conn, ServerStep, LoopStep, ConnStep

LEMMA ServerStepEffect ==
  ASSUME SP!IndInv, LinkInv, IdsInv, ServerStep
  PROVE  /\ UNCHANGED <<nextCh, connPc, chOf, held, accepted, toolDone>>
         /\ localClosed' = localClosed \/ (CleansUp /\ localClosed' = localClosed \cup held)
         /\ cli' = cli \/ (cli' = "ended" /\ Lost')
         /\ (Lost => Lost') /\ LinkInv' /\ refused \subseteq refused' /\ usbipdDone \subseteq usbipdDone'
<1>1. CASE ServerRuns
  BY <1>1, RunsEffect DEF Tunnels
<1>2. CASE CleansUp \/ NetworkFails
  BY <1>2, LosesEffect
<1>3. CASE Opens
  BY <1>3, OpensEffect DEF Tunnels, Lost
<1>4. CASE ReceivesOpen \/ ReceivesData \/ ReceivesClose
  BY <1>4, ReceivesEffect DEF Tunnels, Lost
<1>5. ASSUME NEW p \in Pumps, PumpReads(p) \/ PumpEnds(p) \/ PumpInterrupted(p) \/ PumpGoesOn(p)
      PROVE  /\ UNCHANGED <<nextCh, connPc, chOf, held, accepted, toolDone, localClosed, cli, refused>>
             /\ (Lost => Lost') /\ LinkInv' /\ usbipdDone \subseteq usbipdDone'
  BY <1>5, PumpEffect DEF Tunnels, Lost
<1>. QED BY <1>1, <1>2, <1>3, <1>4, <1>5 DEF ServerStep

LEMMA ConnsFrame ==
  ASSUME ConnsInv, UNCHANGED <<nextCh, connPc, chOf, held, accepted>>, localClosed \subseteq localClosed'
  PROVE  ConnsInv' /\ Forwarded' = Forwarded
<1>1. Forwarded' = Forwarded
  BY DEF Forwarded
<1>. QED BY <1>1 DEF ConnsInv

LEMMA ForwardedFinite == ConnsInv => Forwarded \subseteq accepted /\ IsFiniteSet(Forwarded)
<1>1. ConnsInv => Forwarded \subseteq accepted
  BY DEF ConnsInv, Forwarded
<1>. QED BY <1>1, FS_Subset DEF ConnsInv

\* A connection is given its id.
LEMMA ForwardStep ==
  ASSUME IdsInv, ConnsInv, NEW k \in Locals, ForwardConn(k) \/ ForwardFails(k)
  PROVE  ConnsInv' /\ Forwarded' = Forwarded \cup {k} /\ k \notin Forwarded
         /\ chOf' = [chOf EXCEPT ![k] = nextCh]
<1>1. /\ connPc[k] = "accepted" /\ chOf' = [chOf EXCEPT ![k] = nextCh] /\ nextCh' = nextCh + 1
      /\ held' = held \cup {k} /\ UNCHANGED <<accepted, localClosed>>
      /\ \E pc \in {"opening", "failed"} : connPc' = [connPc EXCEPT ![k] = pc]
  BY FreeIdNext DEF ForwardConn, ForwardFails, openVars, endVars
<1>2. connPc \in [Locals -> ConnPCs] /\ chOf \in [Locals -> Nat \cup {NoId}] /\ nextCh \in Nat
  BY DEF IdsInv, IdTypes
<1>3. Forwarded' = Forwarded \cup {k} /\ k \notin Forwarded
  BY <1>1, <1>2 DEF Forwarded
<1>4. Cardinality(Forwarded') = Cardinality(Forwarded) + 1 /\ Cardinality(Forwarded) \in Nat
  BY <1>3, ForwardedFinite, FS_AddElement, FS_CardinalityType
<1>5. Base <= nextCh' /\ nextCh' <= LastId + Cardinality(Forwarded')
  <2>1. Base <= nextCh /\ nextCh <= LastId + Cardinality(Forwarded)
    BY DEF ConnsInv
  <2>. QED BY <1>1, <1>2, <1>4, <2>1, UsbIdsNat, TunnelAssumption
<1>6. \A j \in Forwarded : chOf'[j] = chOf[j] /\ chOf[j] \in Nat /\ Base <= chOf[j] /\ chOf[j] < nextCh
  BY <1>1, <1>2, <1>3 DEF ConnsInv, Forwarded
<1>7. chOf'[k] = nextCh /\ Base <= nextCh
  BY <1>1, <1>2 DEF ConnsInv
<1>8. \A j \in Forwarded' : chOf'[j] \in Nat /\ Base <= chOf'[j] /\ chOf'[j] < nextCh'
  <2>1. ASSUME NEW j \in Forwarded' PROVE chOf'[j] \in Nat /\ Base <= chOf'[j] /\ chOf'[j] < nextCh'
    <3>1. CASE j = k
      BY <1>1, <1>2, <1>7, <3>1
    <3>2. CASE j \in Forwarded
      BY <1>1, <1>2, <1>6, <3>2
    <3>. QED BY <1>3, <2>1, <3>1, <3>2
  <2>. QED BY <2>1
<1>9. \A i, j \in Forwarded' : chOf'[i] = chOf'[j] => i = j
  <2>1. \A j \in Forwarded : chOf'[j] # nextCh
    BY <1>2, <1>6
  <2>2. \A i, j \in Forwarded : chOf[i] = chOf[j] => i = j
    BY DEF ConnsInv
  <2>. QED BY <1>3, <1>6, <1>7, <2>1, <2>2
<1>10. \A j \in Locals \ Forwarded' : chOf'[j] = NoId
  BY <1>1, <1>3 DEF ConnsInv
<1>11. \A j \in Locals : connPc'[j] = "none" <=> j \notin accepted'
  BY <1>1, <1>2 DEF ConnsInv
<1>. QED BY <1>1, <1>3, <1>5, <1>7, <1>8, <1>9, <1>10, <1>11 DEF ConnsInv

LEMMA ConnsStep ==
  ASSUME IdsInv, SP!IndInv, WireInv, Next
  PROVE  ConnsInv'
<1>. ConnsInv /\ LinkInv
  BY DEF WireInv
<1>. connPc \in [Locals -> ConnPCs] /\ nextCh \in Nat
  BY DEF IdsInv, IdTypes
<1>1. CASE ServerStep
  BY <1>1, ServerStepEffect, ConnsFrame
<1>2. CASE ClientRuns
  <2>1. Forwarded = {} /\ Forwarded' = {}
    BY <1>2 DEF ClientRuns, IdsInv, NothingOpened, Forwarded
  <2>2. Cardinality({}) = 0 /\ nextCh' \in Nat /\ Base <= nextCh' /\ nextCh' <= LastId
    BY <1>2, FS_EmptySet, TunnelAssumption DEF ClientRuns, UsbIds
  <2>3. nextCh' <= LastId + Cardinality(Forwarded')
    BY <2>1, <2>2, TunnelAssumption
  <2>4. UNCHANGED <<connPc, chOf, held, accepted, localClosed>>
    BY <1>2 DEF ClientRuns, openVars, endVars
  <2>. QED BY <2>1, <2>2, <2>3, <2>4 DEF ConnsInv
<1>3. CASE TakesData
  BY <1>3, ConnsFrame DEF TakesData, clientVars, openVars, endVars
<1>4. CASE TakesClose
  <2>1. /\ UNCHANGED <<nextCh, connPc, chOf, accepted>>
        /\ held' \subseteq held /\ held \cup localClosed \subseteq held' \cup localClosed'
    BY <1>4 DEF TakesClose, openVars, Under
  <2>2. Forwarded' = Forwarded
    BY <2>1 DEF Forwarded
  <2>. QED BY <2>1, <2>2 DEF ConnsInv
<1>5. ASSUME NEW k \in Locals, ConnStep(k) PROVE ConnsInv'
  <2>1. CASE Accept(k)
    <3>1. Forwarded' = Forwarded
      BY <2>1 DEF Accept, Forwarded, ConnsInv
    <3>2. accepted' = accepted \cup {k} /\ IsFiniteSet(accepted')
      BY <2>1, FS_AddElement DEF Accept, ConnsInv
    <3>3. /\ UNCHANGED <<nextCh, chOf, held, localClosed>>
          /\ \A j \in Locals : connPc'[j] = "none" <=> j \notin accepted'
      BY <2>1, <3>2 DEF Accept, ConnsInv, endVars
    <3>. QED BY <3>1, <3>2, <3>3 DEF ConnsInv
  <2>2. CASE ForwardConn(k) \/ ForwardFails(k)
    BY <2>2, ForwardStep
  <2>3. CASE OpenSent(k) \/ ConnEnds(k) \/ AsyncioCloses(k) \/ ConnDropped(k) \/ ConnFinishes(k)
    <3>1. /\ UNCHANGED <<nextCh, chOf, accepted>> /\ connPc[k] \notin {"none", "accepted"}
          /\ held' \subseteq held
          /\ \E pc \in {"pumping", "failed", "closing", "done"} : connPc' = [connPc EXCEPT ![k] = pc]
      BY <2>3 DEF OpenSent, ConnEnds, AsyncioCloses, ConnDropped, ConnFinishes, openVars
    <3>2. Forwarded' = Forwarded /\ \A j \in Locals : connPc'[j] = "none" <=> connPc[j] = "none"
      BY <3>1 DEF Forwarded
    <3>3. k \in Forwarded
      BY <3>1 DEF Forwarded
    <3>4. held \cup localClosed \subseteq held' \cup localClosed'
      BY <2>3, <3>3 DEF OpenSent, ConnEnds, AsyncioCloses, ConnDropped, ConnFinishes, openVars,
                        endVars, ConnsInv
    <3>. QED BY <3>1, <3>2, <3>4 DEF ConnsInv
  <2>4. CASE ToolHangsUp(k) \/ ConnReads(k)
    BY <2>4, ConnsFrame DEF ToolHangsUp, ConnReads, clientVars, openVars, endVars
  <2>. QED BY <1>5, <2>1, <2>2, <2>3, <2>4 DEF ConnStep
<1>. QED BY <1>1, <1>2, <1>3, <1>4, <1>5, StepsOfNext DEF LoopStep

-----------------------------------------------------------------------------
(* Why an end is closed, and whose pump a pump is.                          *)

\* What only grows: the connections with an id, what was closed, and why.
Grows ==
    /\ Forwarded \subseteq Forwarded' /\ \A j \in Forwarded : chOf'[j] = chOf[j]
    /\ \A j \in Locals : connPc[j] \in {"closing", "done"} => connPc'[j] \in {"closing", "done"}
    /\ accepted \subseteq accepted' /\ toolDone \subseteq toolDone' /\ localClosed \subseteq localClosed'
    /\ refused \subseteq refused' /\ usbipdDone \subseteq usbipdDone'
    /\ (Lost => Lost') /\ LinkInv'

LEMMA Monotone ==
  ASSUME IdsInv, SP!IndInv, LinkInv, ConnsInv, Next
  PROVE  Grows
<1>. connPc \in [Locals -> ConnPCs] /\ chOf \in [Locals -> Nat \cup {NoId}]
  BY DEF IdsInv, IdTypes
<1>1. CASE ServerStep
  <2>1. Forwarded' = Forwarded
    BY <1>1, ServerStepEffect DEF Forwarded
  <2>. QED BY <1>1, <2>1, ServerStepEffect DEF Grows
<1>2. CASE LoopStep
  <2>1. UNCHANGED <<conn, usbipdDone>> /\ LinkInv'
    BY <1>2, ClientEffect DEF LoopStep, ClientLoop
  <2>2. UNCHANGED <<connPc, chOf, accepted, toolDone, refused>> /\ localClosed \subseteq localClosed'
    BY <1>2 DEF LoopStep, ClientRuns, TakesData, TakesClose, clientVars, openVars, endVars
  <2>. QED BY <2>1, <2>2 DEF Grows, Forwarded, Lost
<1>3. ASSUME NEW k \in Locals, ConnStep(k) PROVE Grows
  <2>1. UNCHANGED <<conn, usbipdDone>> /\ LinkInv'
    BY <1>3, ClientEffect DEF ConnStep, Conn
  <2>2. /\ accepted \subseteq accepted' /\ toolDone \subseteq toolDone'
        /\ localClosed \subseteq localClosed' /\ refused \subseteq refused'
    BY <1>3 DEF ConnStep, Accept, ForwardConn, ForwardFails, OpenSent, ConnEnds, ConnFinishes,
                AsyncioCloses, ToolHangsUp, ConnReads, ConnDropped, clientVars, openVars, endVars
  <2>3. /\ Forwarded \subseteq Forwarded' /\ \A j \in Forwarded : chOf'[j] = chOf[j]
        /\ \A j \in Locals : connPc[j] \in {"closing", "done"} => connPc'[j] \in {"closing", "done"}
    <3>1. CASE ForwardConn(k) \/ ForwardFails(k)
      <4>1. Forwarded' = Forwarded \cup {k} /\ k \notin Forwarded
            /\ chOf' = [chOf EXCEPT ![k] = nextCh]
        BY <3>1, ForwardStep
      <4>2. connPc[k] = "accepted" /\ \E pc : connPc' = [connPc EXCEPT ![k] = pc]
        BY <3>1 DEF ForwardConn, ForwardFails
      <4>. QED BY <4>1, <4>2 DEF Forwarded
    <3>2. CASE Accept(k) \/ OpenSent(k) \/ ConnEnds(k) \/ AsyncioCloses(k)
      <4>1. /\ chOf' = chOf /\ connPc[k] \in {"none", "opening", "pumping", "failed"}
            /\ \E pc \in ConnPCs : /\ connPc' = [connPc EXCEPT ![k] = pc]
                                   /\ connPc[k] = "none" \/ pc \notin {"none", "accepted"}
        BY <3>2 DEF Accept, OpenSent, ConnEnds, AsyncioCloses, ConnPCs, ConnsInv
      <4>. QED BY <4>1 DEF Forwarded
    <3>3. CASE ConnFinishes(k) \/ ConnDropped(k)
      BY <3>3 DEF ConnFinishes, ConnDropped, Forwarded
    <3>4. CASE ToolHangsUp(k) \/ ConnReads(k)
      BY <3>4 DEF ToolHangsUp, ConnReads, clientVars, Forwarded
    <3>. QED BY <1>3, <3>1, <3>2, <3>3, <3>4 DEF ConnStep
  <2>. QED BY <2>1, <2>2, <2>3 DEF Grows, Lost
<1>. QED BY <1>1, <1>2, <1>3, StepsOfNext

LEMMA UpHead ==
  ASSUME IdsInv, UpInv, up # << >>
  PROVE  /\ Head(up) = up[1] /\ 1 \in 1 .. Len(up) /\ Head(up) \in UpFrames
         /\ Named(Head(up)) /\ Asked(Owner(Head(up)))
         /\ Head(up).kind = "open" => Head(up).says \notin Reached \cup refused \cup {opener}
         /\ Head(up).kind = "close" =>
              /\ connPc[Head(up).says] \in {"closing", "done"}
              /\ Lost \/ Head(up).says \in toolDone \cup localClosed
<1>1. Head(up) = up[1] /\ 1 \in 1 .. Len(up) /\ Head(up) \in UpFrames
  BY UpFrame, HeadTailProperties DEF IdsInv, IdTypes
<1>. QED BY <1>1 DEF UpInv

LEMMA DownHead ==
  ASSUME DownInv, down # << >>
  PROVE  /\ Head(down) = down[1] /\ 1 \in 1 .. Len(down) /\ Head(down) \in DownFrames
         /\ Named(Head(down))
         /\ Head(down).kind = "close" =>
              Lost \/ Head(down).says \in refused \cup toolDone \cup usbipdDone
<1>1. Head(down) = down[1] /\ 1 \in 1 .. Len(down) /\ Head(down) \in DownFrames
  BY HeadTailProperties DEF DownInv
<1>. QED BY <1>1 DEF DownInv

\* An id belongs to one connection, and so does its pump.
LEMMA OneOwner ==
  ASSUME ConnsInv, PumpsInv, NEW k \in Forwarded
  PROVE  /\ \A j \in Forwarded : chOf[j] = chOf[k] => j = k
         /\ \A p \in Pumps : pumpState[p] # "free" /\ pumpCh[p] = chOf[k] => serves[p] = k
  BY DEF ConnsInv, PumpsInv

\* The connections that the client has under the id of a frame: its owner, or none.
LEMMA UnderOwner ==
  ASSUME ConnsInv, NEW f, Named(f)
  PROVE  Under(f.ch) \subseteq {Owner(f)}
  BY DEF ConnsInv, Named, Under

LEMMA EndsStep ==
  ASSUME IdsInv, SP!IndInv, WireInv, Next
  PROVE  EndsInv'
<1>. ConnsInv /\ LinkInv /\ EndsInv /\ PumpsInv /\ UpInv /\ DownInv
  BY DEF WireInv
<1>. connPc \in [Locals -> ConnPCs]
  BY DEF IdsInv, IdTypes
<1>1. CASE ServerRuns
  <2>1. UNCHANGED <<Tunnels, serves, refused, usbipdDone>> /\ Ending /\ (Lost => Lost')
    BY <1>1, RunsEffect
  <2>2. Forwarded' = Forwarded /\ Reached' = Reached
    BY <2>1 DEF Tunnels, Forwarded, Reached
  <2>. QED BY <2>1, <2>2 DEF EndsInv, Tunnels, Ending
<1>2. CASE CleansUp \/ NetworkFails
  <2>1. /\ UNCHANGED <<connPc, accepted, toolDone, serves, refused, usbipdDone>> /\ Lost'
        /\ localClosed' \subseteq localClosed \cup held
    BY <1>2, LosesEffect
  <2>2. Forwarded' = Forwarded /\ Reached' = Reached
    BY <2>1 DEF Forwarded, Reached
  <2>. QED BY <2>1, <2>2 DEF EndsInv, ConnsInv
<1>3. CASE Opens
  <2>1. UNCHANGED <<Tunnels, usbipdDone, conn>> /\ phase[Session] = "opening"
    BY <1>3, OpensEffect
  <2>2. Forwarded' = Forwarded
    BY <2>1 DEF Tunnels, Forwarded
  <2>3. opener \in Forwarded
    BY <2>1 DEF PumpsInv
  <2>4. refused' \subseteq refused \cup {opener} /\ refused \subseteq refused'
    BY <1>3, OpensEffect
  <2>5. /\ Reached \subseteq Reached'
        /\ \A p \in Pumps : pumpState'[p] # "free" /\ p \notin sockets'
             => pumpState[p] # "free" /\ p \notin sockets /\ serves'[p] = serves[p]
    <3>1. CASE UNCHANGED <<pumpState, sockets, serves>>
      BY <3>1 DEF Reached
    <3>2. ASSUME NEW p \in Pumps, pumpState[p] = "free",
                 pumpState' = [pumpState EXCEPT ![p] = "created"], sockets' = sockets \cup {p},
                 serves' = [q \in Pumps |-> IF q = p THEN opener ELSE serves[q]]
          PROVE  /\ Reached \subseteq Reached'
                 /\ \A q \in Pumps : pumpState'[q] # "free" /\ q \notin sockets'
                      => pumpState[q] # "free" /\ q \notin sockets /\ serves'[q] = serves[q]
      <4>1. serves[p] = NoConn
        BY <3>2 DEF PumpsInv
      <4>2. pumpState \in [Pumps -> S!PumpStates]
        BY ServerFacts
      <4>. QED BY <3>2, <4>1, <4>2 DEF Reached
    <3>. QED BY <1>3, <3>1, <3>2, OpensEffect
  <2>. QED BY <2>1, <2>2, <2>3, <2>4, <2>5 DEF EndsInv, Tunnels, Lost
<1>4. CASE ReceivesOpen \/ ReceivesData \/ ReceivesClose
  <2>1. /\ UNCHANGED <<Tunnels, usbipdDone, serves, conn, pumpState>>
        /\ Named(Head(up)) /\ Asked(Owner(Head(up))) /\ Head(up) \in UpFrames
    BY <1>4, ReceivesEffect, UpHead
  <2>2. Forwarded' = Forwarded /\ Reached' = Reached /\ (Lost <=> Lost')
    BY <2>1 DEF Tunnels, Forwarded, Reached, Lost
  <2>3. refused \subseteq refused' /\ refused' \subseteq Forwarded
    BY <1>4, <2>1, ReceivesEffect DEF EndsInv, Named, Owner
  <2>4. ASSUME NEW p \in Pumps, pumpState[p] # "free", p \notin sockets'
        PROVE  Lost \/ serves[p] \in toolDone \cup usbipdDone
    <3>1. CASE p \notin sockets
      BY <2>4, <3>1 DEF EndsInv
    <3>2. CASE p \in sockets
      <4>1. Head(up).kind = "close" /\ pumpCh[p] = Head(up).ch
        BY <1>4, <2>4, <3>2, ReceivesEffect
      <4>2. Owner(Head(up)) = Head(up).says
        BY <4>1 DEF Owner
      <4>3. serves[p] = Head(up).says
        BY <2>1, <2>4, <4>1, <4>2, OneOwner DEF Named
      <4>4. up # << >>
        BY <1>4, ReceivesEffect
      <4>5. Lost \/ Head(up).says \in toolDone \cup localClosed
        BY <4>1, <4>4, UpHead
      <4>6. serves[p] \notin refused
        BY <2>4 DEF PumpsInv
      <4>. QED BY <4>3, <4>5, <4>6 DEF EndsInv
    <3>. QED BY <3>1, <3>2
  <2>. QED BY <2>1, <2>2, <2>3, <2>4 DEF EndsInv, Tunnels
<1>5. ASSUME NEW p \in Pumps, PumpReads(p) \/ PumpEnds(p) \/ PumpInterrupted(p) \/ PumpGoesOn(p)
      PROVE  EndsInv'
  <2>1. /\ UNCHANGED <<Tunnels, serves, refused, conn, pumpCh>> /\ pumpState[p] # "free"
        /\ \E to \in {"reading", "sending", "closing", "done"} :
             pumpState' = [pumpState EXCEPT ![p] = to]
    BY <1>5, PumpEffect
  <2>2. Forwarded' = Forwarded /\ Reached' = Reached /\ (Lost <=> Lost')
    BY <2>1 DEF Tunnels, Forwarded, Reached, Lost
  <2>3. serves[p] \in Forwarded /\ serves[p] \in Reached
    BY <2>1, TunnelAssumption DEF PumpsInv, Reached, Forwarded
  <2>4. usbipdDone \subseteq usbipdDone' /\ usbipdDone' \subseteq usbipdDone \cup {serves[p]}
    BY <1>5, PumpEffect
  <2>5. ASSUME NEW q \in Pumps, pumpState'[q] # "free", q \notin sockets'
        PROVE  Lost \/ serves[q] \in toolDone \cup usbipdDone
    <3>1. pumpState[q] # "free"
      BY <2>1, <2>5, ServerFacts
    <3>2. CASE q \notin sockets
      BY <2>5, <3>1, <3>2 DEF EndsInv
    <3>3. CASE q \in sockets
      <4>1. pumpState[p] = "closing" /\ pumpCh[q] = pumpCh[p]
        BY <1>5, <2>5, <3>3, PumpEffect
      <4>2. serves[q] = serves[p] /\ q = p
        BY <2>1, <2>3, <3>1, <4>1, OneOwner DEF PumpsInv
      <4>. QED BY <3>3, <4>1, <4>2 DEF PumpsInv
    <3>. QED BY <3>2, <3>3
  <2>. QED BY <2>1, <2>2, <2>3, <2>4, <2>5 DEF EndsInv, Tunnels
<1>6. CASE LoopStep
  <2>1. UNCHANGED <<conn, pumpState, sockets, serves, usbipdDone>>
    BY <1>6, ClientEffect DEF LoopStep, ClientLoop
  <2>2. /\ UNCHANGED <<connPc, accepted, toolDone, refused>> /\ (cli' = "ended" => cli = "ended")
    BY <1>6 DEF LoopStep, ClientRuns, TakesData, TakesClose, Takes, clientVars, openVars, endVars
  <2>3. Forwarded' = Forwarded /\ Reached' = Reached /\ (Lost <=> Lost')
    BY <2>1, <2>2 DEF Forwarded, Reached, Lost
  <2>4. localClosed \subseteq localClosed' /\ localClosed' \subseteq Forwarded
        /\ \A k \in localClosed' : Lost \/ k \in refused \cup toolDone \cup usbipdDone
    <3>1. CASE ClientRuns \/ TakesData
      BY <3>1 DEF ClientRuns, TakesData, endVars, EndsInv
    <3>2. CASE TakesClose
      <4>1. down # << >> /\ Head(down).kind = "close"
            /\ localClosed' = localClosed \cup Under(Head(down).ch)
        BY <3>2 DEF TakesClose, Takes
      <4>2. Owner(Head(down)) = Head(down).says /\ Named(Head(down))
        BY <4>1, DownHead DEF Owner
      <4>3. Under(Head(down).ch) \subseteq {Head(down).says}
        BY <4>2, UnderOwner
      <4>4. Head(down).says \in Forwarded
        BY <4>2 DEF Named
      <4>. QED BY <4>1, <4>3, <4>4, DownHead DEF EndsInv
    <3>. QED BY <1>6, <3>1, <3>2 DEF LoopStep
  <2>. QED BY <2>1, <2>2, <2>3, <2>4 DEF EndsInv
<1>7. ASSUME NEW k \in Locals, ConnStep(k) PROVE EndsInv'
  <2>1. UNCHANGED <<conn, pumpState, sockets, serves, usbipdDone>>
    BY <1>7, ClientEffect DEF ConnStep, Conn
  <2>2. Reached' = Reached /\ (Lost <=> Lost')
    BY <2>1 DEF Reached, Lost
  <2>3. CASE Accept(k)
    <3>1. /\ accepted' = accepted \cup {k} /\ connPc' = [connPc EXCEPT ![k] = "accepted"]
          /\ UNCHANGED <<cli, refused, toolDone, localClosed>> /\ k \notin accepted
      BY <2>3 DEF Accept, endVars
    <3>2. Forwarded' = Forwarded
      BY <3>1 DEF Forwarded, ConnsInv
    <3>. QED BY <2>1, <2>2, <3>1, <3>2 DEF EndsInv
  <2>4. CASE ForwardConn(k) \/ ForwardFails(k)
    <3>1. Forwarded' = Forwarded \cup {k}
      BY <2>4, ForwardStep
    <3>2. /\ UNCHANGED <<cli, accepted, toolDone, localClosed>>
          /\ \/ refused' = refused /\ connPc' = [connPc EXCEPT ![k] = "opening"]
             \/ refused' = refused \cup {k} /\ connPc' = [connPc EXCEPT ![k] = "failed"]
      BY <2>4 DEF ForwardConn, ForwardFails, openVars, endVars
    <3>. QED BY <2>1, <2>2, <3>1, <3>2 DEF EndsInv
  <2>5. CASE ToolHangsUp(k) \/ ConnReads(k)
    <3>1. /\ UNCHANGED <<cli, connPc, accepted, refused, localClosed>>
          /\ toolDone \subseteq toolDone' /\ toolDone' \subseteq accepted
      BY <2>5 DEF ToolHangsUp, ConnReads, clientVars, openVars, endVars, EndsInv
    <3>2. Forwarded' = Forwarded
      BY <3>1 DEF Forwarded
    <3>. QED BY <2>1, <2>2, <3>1, <3>2 DEF EndsInv
  <2>6. CASE OpenSent(k) \/ ConnEnds(k) \/ AsyncioCloses(k) \/ ConnDropped(k) \/ ConnFinishes(k)
    <3>1. /\ UNCHANGED <<cli, accepted, refused, toolDone>> /\ connPc[k] \notin {"none", "accepted"}
          /\ localClosed \subseteq localClosed' /\ localClosed' \subseteq localClosed \cup {k}
          /\ \/ connPc' = [connPc EXCEPT ![k] = "pumping"] \/ connPc' = [connPc EXCEPT ![k] = "done"]
             \/ connPc' = [connPc EXCEPT ![k] = "failed"] /\ Lost
             \/ connPc' = [connPc EXCEPT ![k] = "closing"] /\ (Lost \/ k \in toolDone \cup localClosed)
      BY <2>6 DEF OpenSent, ConnEnds, AsyncioCloses, ConnDropped, ConnFinishes, openVars, endVars
    <3>2. Forwarded' = Forwarded /\ k \in Forwarded
      BY <3>1 DEF Forwarded
    <3>3. localClosed' = localClosed \/ connPc[k] \in {"failed", "closing"}
      BY <2>6 DEF OpenSent, ConnEnds, AsyncioCloses, ConnDropped, ConnFinishes, endVars
    <3>4. \A j \in localClosed' : Lost \/ j \in refused \cup toolDone \cup usbipdDone
      BY <3>1, <3>3 DEF EndsInv
    <3>. QED BY <2>1, <2>2, <3>1, <3>2, <3>4 DEF EndsInv
  <2>. QED BY <1>7, <2>3, <2>4, <2>5, <2>6 DEF ConnStep
<1>. QED BY <1>1, <1>2, <1>3, <1>4, <1>5, <1>6, <1>7, StepsOfNext DEF ServerStep

LEMMA PumpsStep ==
  ASSUME IdsInv, SP!IndInv, WireInv, Next
  PROVE  PumpsInv'
<1>. ConnsInv /\ LinkInv /\ EndsInv /\ PumpsInv /\ UpInv
  BY DEF WireInv
<1>. pumpState \in [Pumps -> S!PumpStates] /\ pumpCh \in [Pumps -> UsbIds \cup {NoId}]
  BY ServerFacts DEF IdsInv, IdTypes
<1>1. CASE ServerRuns
  <2>1. /\ UNCHANGED <<Tunnels, opener, serves, refused, usbipdDone>> /\ Ending /\ (Lost => Lost')
        /\ phase[Session] # "opening" /\ phase'[Session] # "opening"
    BY <1>1, RunsEffect
  <2>2. Forwarded' = Forwarded /\ Reached' = Reached
    BY <2>1 DEF Tunnels, Forwarded, Reached
  <2>. QED BY <2>1, <2>2 DEF PumpsInv, Tunnels, Ending
<1>2. CASE CleansUp \/ NetworkFails
  <2>1. /\ UNCHANGED <<connPc, chOf, phase, pending, opener, serves, refused, pumpState, pumpCh,
                       sockets, usbipdDone>>
        /\ Lost'
    BY <1>2, LosesEffect
  <2>2. Forwarded' = Forwarded /\ Reached' = Reached
    BY <2>1 DEF Forwarded, Reached
  <2>. QED BY <2>1, <2>2 DEF PumpsInv
<1>3. CASE Opens
  <2>1. /\ UNCHANGED <<Tunnels, usbipdDone, conn>> /\ phase[Session] = "opening"
        /\ phase'[Session] # "opening" /\ opener' = NoConn
    BY <1>3, OpensEffect
  <2>2. Forwarded' = Forwarded /\ chOf' = chOf /\ (Lost <=> Lost')
    BY <2>1 DEF Tunnels, Forwarded, Lost
  <2>3. opener \in Forwarded \ (Reached \cup refused) /\ pending[Session] = chOf[opener]
        /\ opener \notin usbipdDone /\ opener \in Locals /\ opener # NoConn
    BY <2>1, TunnelAssumption DEF PumpsInv, EndsInv, Forwarded
  <2>4. \A q \in Pumps : serves[q] # opener
    BY <2>3 DEF Reached
  <2>5. CASE UNCHANGED <<pumpState, pumpCh, sockets, serves>> /\ refused' = refused \cup {opener}
    BY <2>1, <2>2, <2>3, <2>4, <2>5 DEF PumpsInv
  <2>6. ASSUME NEW p \in Pumps, pumpState[p] = "free",
               pumpState' = [pumpState EXCEPT ![p] = "created"],
               pumpCh' = [pumpCh EXCEPT ![p] = pending[Session]], sockets' = sockets \cup {p},
               serves' = [q \in Pumps |-> IF q = p THEN opener ELSE serves[q]], refused' = refused
        PROVE  PumpsInv'
    <3>1. serves' \in [Pumps -> Locals \cup {NoConn}]
      BY <2>3, <2>6 DEF PumpsInv
    <3>2. /\ serves'[p] = opener /\ pumpState'[p] = "created" /\ pumpCh'[p] = chOf[opener]
          /\ \A q \in Pumps \ {p} : serves'[q] = serves[q] /\ pumpState'[q] = pumpState[q]
                                    /\ pumpCh'[q] = pumpCh[q] /\ (q \in sockets' <=> q \in sockets)
      BY <2>3, <2>6
    <3>3. \A q \in Pumps : pumpState'[q] = "free" => serves'[q] = NoConn
      BY <3>2 DEF PumpsInv
    <3>4. ASSUME NEW q \in Pumps, pumpState'[q] # "free"
          PROVE  /\ serves'[q] \in Forwarded \ refused /\ pumpCh'[q] = chOf[serves'[q]]
                 /\ \A r \in Pumps : serves'[r] = serves'[q] => r = q
                 /\ serves'[q] \in usbipdDone => pumpState'[q] \in {"closing", "done"}
                 /\ pumpState'[q] = "closing" => Lost \/ q \notin sockets' \/ serves'[q] \in usbipdDone
      <4>1. CASE q = p
        BY <2>3, <2>4, <3>2, <4>1
      <4>2. CASE q # p
        BY <2>4, <3>2, <3>4, <4>2 DEF PumpsInv
      <4>. QED BY <4>1, <4>2
    <3>. QED BY <2>1, <2>2, <2>6, <3>1, <3>3, <3>4 DEF PumpsInv
  <2>7. \/ UNCHANGED <<pumpState, pumpCh, sockets, serves>> /\ refused' = refused \cup {opener}
        \/ \E p \in Pumps :
             /\ pumpState[p] = "free" /\ pumpState' = [pumpState EXCEPT ![p] = "created"]
             /\ pumpCh' = [pumpCh EXCEPT ![p] = pending[Session]] /\ sockets' = sockets \cup {p}
             /\ serves' = [q \in Pumps |-> IF q = p THEN opener ELSE serves[q]] /\ refused' = refused
    BY <1>3, OpensEffect
  <2>. QED BY <2>5, <2>6, <2>7
<1>4. CASE ReceivesOpen \/ ReceivesData \/ ReceivesClose
  <2>1. /\ UNCHANGED <<Tunnels, usbipdDone, serves, conn, pumpState, pumpCh>>
        /\ phase[Session] = "loop" /\ phase' \in [{Session} -> S!Phases]
        /\ Named(Head(up)) /\ Head(up) \in UpFrames
        /\ Head(up).kind = "open" => Head(up).says \notin Reached \cup refused \cup {opener}
    BY <1>4, ReceivesEffect, UpHead
  <2>2. Forwarded' = Forwarded /\ Reached' = Reached /\ (Lost <=> Lost') /\ chOf' = chOf
    BY <2>1 DEF Tunnels, Forwarded, Reached, Lost
  <2>3. opener = NoConn
    BY <2>1 DEF PumpsInv
  <2>4. /\ opener' \in Locals \cup {NoConn}
        /\ phase'[Session] # "opening" => opener' = NoConn
        /\ phase'[Session] = "opening" =>
             opener' \in Forwarded \ (Reached \cup refused') /\ pending'[Session] = chOf[opener']
    <3>1. CASE ReceivesOpen
      <4>1. Head(up).kind = "open" /\ Owner(Head(up)) = Head(up).says
        BY <3>1, ReceivesEffect DEF Owner
      <4>2. Head(up).says \in Forwarded /\ Head(up).ch = chOf[Head(up).says]
        BY <2>1, <4>1 DEF Named
      <4>3. pending \in [{Session} -> UsbIds \cup {NoId}]
        BY DEF IdsInv, IdTypes
      <4>4. CASE /\ phase'[Session] = "opening" /\ opener' = Head(up).says
                 /\ pending' = [pending EXCEPT ![Session] = Head(up).ch] /\ refused' = refused
        BY <2>1, <4>1, <4>2, <4>3, <4>4 DEF Forwarded
      <4>5. CASE phase'[Session] # "opening" /\ opener' = opener
        BY <2>3, <4>5
      <4>. QED BY <3>1, <4>4, <4>5, ReceivesEffect
    <3>2. CASE ReceivesData \/ ReceivesClose
      BY <2>3, <3>2, ReceivesEffect
    <3>. QED BY <1>4, <3>1, <3>2
  <2>5. \A p \in Pumps : pumpState[p] # "free" => serves[p] \notin refused'
    <3>1. CASE ReceivesOpen
      <4>1. refused' \subseteq refused \cup {Head(up).says} /\ Head(up).says \notin Reached
        BY <2>1, <3>1, ReceivesEffect
      <4>2. \A p \in Pumps : pumpState[p] # "free" => serves[p] \in Reached
        BY TunnelAssumption DEF PumpsInv, Reached, Forwarded
      <4>. QED BY <4>1, <4>2 DEF PumpsInv
    <3>2. CASE ReceivesData \/ ReceivesClose
      <4>1. refused' = refused
        BY <3>2, ReceivesEffect
      <4>. QED BY <4>1 DEF PumpsInv
    <3>. QED BY <1>4, <3>1, <3>2
  <2>6. sockets' \subseteq sockets
    BY <1>4, ReceivesEffect
  <2>. QED BY <2>1, <2>2, <2>4, <2>5, <2>6 DEF PumpsInv
<1>5. ASSUME NEW p \in Pumps, PumpReads(p) \/ PumpEnds(p) \/ PumpInterrupted(p) \/ PumpGoesOn(p)
      PROVE  PumpsInv'
  <2>1. /\ UNCHANGED <<Tunnels, phase, pending, opener, serves, refused, conn, pumpCh>>
        /\ pumpState[p] \notin {"free", "done"} /\ sockets' \subseteq sockets
        /\ \A q \in Pumps \ {p} : pumpState'[q] = pumpState[q]
    BY <1>5, PumpEffect
  <2>2. Forwarded' = Forwarded /\ Reached' = Reached /\ (Lost <=> Lost') /\ chOf' = chOf
    BY <2>1 DEF Tunnels, Forwarded, Reached, Lost
  <2>3. usbipdDone \subseteq usbipdDone' /\ usbipdDone' \subseteq usbipdDone \cup {serves[p]}
    BY <1>5, PumpEffect
  <2>4. /\ pumpState'[p] # "free"
        /\ serves[p] \in usbipdDone' => pumpState'[p] \in {"closing", "done"}
        /\ pumpState'[p] = "closing" => Lost \/ p \notin sockets' \/ serves[p] \in usbipdDone'
    <3>1. serves[p] \in usbipdDone => pumpState[p] = "closing"
      BY <2>1 DEF PumpsInv
    <3>2. \E to \in {"reading", "sending", "closing", "done"} :
             pumpState' = [pumpState EXCEPT ![p] = to]
      BY <1>5, PumpEffect
    <3>3. CASE PumpReads(p)
      BY <3>1, <3>3, PumpEffect
    <3>4. CASE PumpEnds(p)
      BY <3>4, PumpEffect
    <3>5. CASE PumpInterrupted(p)
      BY <3>5, PumpEffect
    <3>6. CASE PumpGoesOn(p)
      <4>1. /\ usbipdDone' = usbipdDone
            /\ \/ pumpState'[p] # "closing" /\ pumpState[p] # "closing"
               \/ pumpState[p] = "closing" /\ pumpState'[p] = "done"
        BY <3>6, PumpEffect
      <4>. QED BY <3>1, <3>2, <4>1
    <3>. QED BY <1>5, <3>3, <3>4, <3>5, <3>6
  <2>5. ASSUME NEW q \in Pumps
        PROVE  /\ pumpState'[q] = "free" => serves[q] = NoConn
               /\ pumpState'[q] # "free" =>
                    /\ serves[q] \in Forwarded \ refused /\ pumpCh[q] = chOf[serves[q]]
                    /\ \A r \in Pumps : serves[r] = serves[q] => r = q
                    /\ serves[q] \in usbipdDone' => pumpState'[q] \in {"closing", "done"}
                    /\ pumpState'[q] = "closing" => Lost \/ q \notin sockets' \/ serves[q] \in usbipdDone'
    <3>1. CASE q = p
      BY <2>1, <2>4, <3>1 DEF PumpsInv
    <3>2. CASE q # p
      <4>1. pumpState'[q] = pumpState[q] /\ (pumpState[q] # "free" => serves[q] # serves[p])
        BY <2>1, <3>2 DEF PumpsInv
      <4>. QED BY <2>1, <2>3, <4>1 DEF PumpsInv
    <3>. QED BY <3>1, <3>2
  <2>. QED BY <2>1, <2>2, <2>5 DEF PumpsInv
<1>6. ASSUME NEW k \in Locals, LoopStep \/ ConnStep(k)
      PROVE  PumpsInv'
  <2>1. UNCHANGED <<phase, conn, pending, pumpState, pumpCh, sockets, opener, serves, usbipdDone>>
    BY <1>6, ClientEffect DEF LoopStep, ClientLoop, ConnStep, Conn
  <2>2. /\ Forwarded \subseteq Forwarded' /\ (\A j \in Forwarded : chOf'[j] = chOf[j])
        /\ refused \subseteq refused' /\ refused' \cap Forwarded \subseteq refused
    <3>1. Grows
      BY Monotone
    <3>2. refused' = refused \/ (ForwardFails(k) /\ refused' = refused \cup {k})
      BY <1>6 DEF LoopStep, ClientRuns, TakesData, TakesClose, ConnStep, Accept, ForwardConn,
             ForwardFails, OpenSent, ConnEnds, ConnFinishes, AsyncioCloses, ToolHangsUp, ConnReads,
             ConnDropped, clientVars, openVars
    <3>3. ForwardFails(k) => k \notin Forwarded
      BY ForwardStep
    <3>. QED BY <3>1, <3>2, <3>3 DEF Grows
  <2>3. Reached' = Reached /\ (Lost <=> Lost')
    BY <2>1 DEF Reached, Lost
  <2>4. phase[Session] = "opening" =>
           opener \in Forwarded' \ (Reached \cup refused') /\ pending[Session] = chOf'[opener]
    BY <2>2 DEF PumpsInv
  <2>5. \A p \in Pumps : pumpState[p] # "free" =>
           serves[p] \in Forwarded' \ refused' /\ pumpCh[p] = chOf'[serves[p]]
    BY <2>2 DEF PumpsInv
  <2>. QED BY <2>1, <2>3, <2>4, <2>5 DEF PumpsInv
<1>7. CASE LoopStep /\ Locals = {}
  <2>1. Forwarded = {} /\ Forwarded' = {}
    BY <1>7 DEF Forwarded
  <2>2. UNCHANGED <<phase, conn, pending, pumpState, pumpCh, sockets, opener, serves, usbipdDone>>
    BY <1>7, ClientEffect DEF LoopStep, ClientLoop
  <2>3. Reached' = Reached /\ (Lost <=> Lost')
    BY <2>2 DEF Reached, Lost
  <2>. QED BY <2>1, <2>2, <2>3 DEF PumpsInv
<1>. QED BY <1>1, <1>2, <1>3, <1>4, <1>5, <1>6, <1>7, StepsOfNext DEF ServerStep

-----------------------------------------------------------------------------
(* What is under way to the server.                                         *)

Known == Reached \cup refused \cup {opener}

\* Who has been asked for stays so; who is newly known is the head of the queue.
KnownGrows ==
    /\ \A k \in Forwarded : k \in Known => k \in Known'
    /\ \A k \in Forwarded : k \in Known' =>
         \/ k \in Known
         \/ up # << >> /\ up' = Tail(up) /\ Head(up).kind = "open" /\ k = Head(up).says

LEMMA FramesStay ==
  ASSUME Grows, NEW f, Named(f)
  PROVE  /\ Owner(f) \in Forwarded' /\ f.ch = chOf'[Owner(f)]
         /\ f.kind = "data" => f.says \in Locals \X Nat
  BY DEF Grows, Named

LEMMA UpKept ==
  ASSUME UpInv, IdsInv, Grows, KnownGrows, up' = up,
         Lost' \/ \A k \in Forwarded' \ Forwarded : k \in Known'
  PROVE  UpInv'
<1>. up \in Seq(UpFrames)
  BY DEF IdsInv, IdTypes
<1>. Forwarded \subseteq Locals
  BY DEF Forwarded
<1>1. ASSUME NEW i \in 1 .. Len(up)
      PROVE  /\ Owner(up[i]) \in Forwarded' /\ up[i].ch = chOf'[Owner(up[i])]
             /\ up[i].kind = "data" => up[i].says \in Locals \X Nat
  BY FramesStay DEF UpInv
<1>2. \A k \in Forwarded : k \in Known => k \in Known'
  BY DEF KnownGrows
<1>3. ASSUME NEW k \in Forwarded, Asked(k)
      PROVE  k \in Known' \/ \E i \in 1 .. Len(up) : up[i].kind = "open" /\ up[i].says = k
  BY <1>2, <1>3 DEF Asked, OpenIsUnderWay, Known
<1>4. \A i \in 1 .. Len(up) : Owner(up[i]) \in Forwarded /\ Asked(Owner(up[i]))
  BY DEF UpInv, Named
<1>5. ASSUME NEW i \in 1 .. Len(up), up[i].kind = "open"
      PROVE  /\ up[i].says \notin Known'
             /\ \A j \in 1 .. i - 1 : Owner(up[j]) # up[i].says
  <2>1. up[i].says \in Forwarded /\ up[i].says \notin Known
        /\ \A j \in 1 .. i - 1 : Owner(up[j]) # up[i].says
    BY <1>4, <1>5 DEF UpInv, Owner, Known
  <2>2. up # << >> => up' # Tail(up)
    BY TailFacts
  <2>. QED BY <2>1, <2>2 DEF KnownGrows
<1>6. ASSUME NEW i \in 1 .. Len(up), up[i].kind = "close"
      PROVE  /\ connPc'[up[i].says] \in {"closing", "done"}
             /\ Lost' \/ up[i].says \in toolDone' \cup localClosed'
  BY <1>4, <1>6 DEF UpInv, Owner, Grows
<1>7. Lost' \/ \A k \in Forwarded' :
         k \in Known' \/ \E i \in 1 .. Len(up) : up[i].kind = "open" /\ up[i].says = k
  BY <1>3 DEF UpInv, Grows
<1>8. LastIsClose(up)'
  BY DEF UpInv, LastIsClose, IsData
<1>9. \A i \in 1 .. Len(up') : Named(up[i])' /\ Asked(Owner(up[i]))'
  <2>1. \A i \in 1 .. Len(up') : Named(up[i])'
    BY <1>1 DEF Named, Owner
  <2>2. \A i \in 1 .. Len(up') : Asked(Owner(up[i]))'
    BY <1>3, <1>4 DEF Asked, OpenIsUnderWay, Known, Owner
  <2>. QED BY <2>1, <2>2
<1>. QED BY <1>5, <1>6, <1>7, <1>8, <1>9 DEF UpInv, Asked, OpenIsUnderWay, Known, Owner

LEMMA UpAppended ==
  ASSUME UpInv, IdsInv, Grows, KnownGrows, NEW f \in UpFrames, up' = Append(up, f),
         ~ Lost, up # << >> => up' # Tail(up), Forwarded' \subseteq Locals,
         Owner(f) \in Forwarded', f.ch = chOf'[Owner(f)],
         f.kind = "data" => f.says \in Locals \X Nat,
         Forwarded' \subseteq Forwarded \cup {Owner(f)},
         f.kind = "open" => f.says \notin Forwarded /\ f.says \notin Known',
         f.kind # "open" => Owner(f) \in Forwarded,
         f.kind = "data" => connPc[Owner(f)] \notin {"closing", "done"},
         f.kind = "close" => /\ connPc'[f.says] \in {"closing", "done"}
                             /\ f.says \in toolDone' \cup localClosed'
  PROVE  UpInv'
<1>. DEFINE m == Len(up)
<1>0. /\ up \in Seq(UpFrames) /\ f.kind \in {"open", "data", "close"}
      /\ m \in Nat /\ Len(up') = m + 1 /\ up'[m + 1] = f
      /\ 1 .. m + 1 = 1 .. m \cup {m + 1} /\ m + 1 \notin 1 .. m
      /\ \A i \in 1 .. m : up'[i] = up[i] /\ 1 .. i - 1 \subseteq 1 .. m
  BY AppendFacts DEF IdsInv, IdTypes, UpFrames
<1>. HIDE DEF m
<1>. Forwarded \subseteq Locals
  BY DEF Forwarded
<1>1. ASSUME NEW i \in 1 .. m
      PROVE  /\ Owner(up[i]) \in Forwarded /\ Asked(Owner(up[i]))
             /\ Owner(up[i]) \in Forwarded' /\ up[i].ch = chOf'[Owner(up[i])]
             /\ up[i].kind = "data" => up[i].says \in Locals \X Nat
  BY FramesStay DEF UpInv, Named, m
<1>2. \A k \in Forwarded : k \in Known <=> k \in Known'
  BY DEF KnownGrows
<1>3. ASSUME NEW k \in Forwarded, Asked(k)
      PROVE  k \in Known' \/ \E i \in 1 .. m : up[i].kind = "open" /\ up[i].says = k
  BY <1>2, <1>3 DEF Asked, OpenIsUnderWay, Known, m
<1>4. \A k \in Forwarded' :
         k \in Known' \/ \E i \in 1 .. m + 1 : up'[i].kind = "open" /\ up'[i].says = k
  <2>1. ASSUME NEW k \in Forwarded
        PROVE  k \in Known' \/ \E i \in 1 .. m + 1 : up'[i].kind = "open" /\ up'[i].says = k
    <3>1. Asked(k)
      BY DEF UpInv
    <3>. QED BY <1>0, <1>3, <3>1
  <2>2. f.kind # "open" => Forwarded' \subseteq Forwarded
    OBVIOUS
  <2>3. f.kind = "open" => Owner(f) = f.says
    BY DEF Owner
  <2>. QED BY <1>0, <2>1, <2>2, <2>3
<1>5. ASSUME NEW i \in 1 .. m + 1
      PROVE  /\ Owner(up'[i]) \in Forwarded' /\ up'[i].ch = chOf'[Owner(up'[i])]
             /\ up'[i].kind = "data" => up'[i].says \in Locals \X Nat
  BY <1>0, <1>1
<1>6. ASSUME NEW i \in 1 .. m + 1, up'[i].kind = "open"
      PROVE  /\ up'[i].says \notin Known'
             /\ \A j \in 1 .. i - 1 : Owner(up'[j]) # up'[i].says
  <2>1. CASE i \in 1 .. m
    <3>1. up[i].kind = "open" /\ Owner(up[i]) = up[i].says /\ up'[i] = up[i]
      BY <1>0, <1>6, <2>1 DEF Owner
    <3>2. up[i].says \notin Known /\ \A j \in 1 .. i - 1 : Owner(up[j]) # up[i].says
      BY <2>1, <3>1 DEF UpInv, m, Known
    <3>3. up[i].says \in Forwarded
      BY <1>1, <2>1, <3>1
    <3>. QED BY <1>0, <1>2, <2>1, <3>1, <3>2, <3>3
  <2>2. CASE i = m + 1
    <3>1. \A j \in 1 .. i - 1 : j \in 1 .. m
      BY <1>0, <2>2
    <3>. QED BY <1>0, <1>1, <1>6, <2>2, <3>1
  <2>. QED BY <1>0, <2>1, <2>2
<1>7. ASSUME NEW i \in 1 .. m, up[i].kind = "close"
      PROVE  /\ connPc[up[i].says] \in {"closing", "done"} /\ connPc'[up[i].says] \in {"closing", "done"}
             /\ up[i].says \in toolDone' \cup localClosed'
  BY <1>1, <1>7 DEF UpInv, Owner, Grows, m
<1>8. LastIsClose(up)'
  <2>1. SUFFICES ASSUME NEW i \in 1 .. m + 1, NEW j \in 1 .. m + 1, up'[i].kind = "close",
                        up'[j].kind = "data", up'[j].says[1] = up'[i].says
                 PROVE  j < i
    BY <1>0 DEF LastIsClose, IsData
  <2>2. CASE j = m + 1
    <3>1. i \in 1 .. m
      BY <1>0, <2>1, <2>2
    <3>2. Owner(f) = up[i].says
      BY <1>0, <2>1, <2>2, <3>1 DEF Owner
    <3>. QED BY <1>0, <1>7, <2>1, <2>2, <3>1, <3>2
  <2>3. CASE j \in 1 .. m /\ i \in 1 .. m
    BY <1>0, <2>1, <2>3 DEF UpInv, LastIsClose, IsData, m
  <2>4. CASE j \in 1 .. m /\ i = m + 1
    BY <1>0, <2>4
  <2>. QED BY <1>0, <2>2, <2>3, <2>4
<1>9. \A i \in 1 .. m + 1 : up'[i].kind = "close" =>
         connPc'[up'[i].says] \in {"closing", "done"} /\ up'[i].says \in toolDone' \cup localClosed'
  BY <1>0, <1>7
<1>10. ASSUME NEW i \in 1 .. m + 1
       PROVE  \/ Owner(up'[i]) \in Known'
              \/ \E j \in 1 .. m + 1 : up'[j].kind = "open" /\ up'[j].says = Owner(up'[i])
  BY <1>4, <1>5
<1>11. Len(up') = m + 1
  BY <1>0
<1>12. \A i \in 1 .. Len(up') : Named(up[i])'
  BY ONLY <1>5, <1>11 DEF Named, Owner
<1>13. \A i \in 1 .. Len(up') : Asked(Owner(up[i]))'
  BY ONLY <1>10, <1>11 DEF Asked, OpenIsUnderWay, Known, Owner
<1>14. \A k \in Forwarded' : Asked(k)'
  BY ONLY <1>4, <1>11 DEF Asked, OpenIsUnderWay, Known
<1>. QED BY ONLY <1>6, <1>8, <1>9, <1>11, <1>12, <1>13, <1>14 DEF UpInv, Known

LEMMA UpTaken ==
  ASSUME UpInv, IdsInv, Grows, KnownGrows, up # << >>, up' = Tail(up), Forwarded' = Forwarded,
         Head(up).kind = "open" => Head(up).says \in Known'
  PROVE  UpInv'
<1>. DEFINE m == Len(up')
<1>0. /\ m \in Nat /\ Len(up) = m + 1 /\ Head(up) = up[1] /\ up \in Seq(UpFrames)
      /\ \A i \in 1 .. m : i + 1 \in 1 .. Len(up) /\ up'[i] = up[i + 1]
  BY TailFacts DEF IdsInv, IdTypes
<1>. HIDE DEF m
<1>. Forwarded \subseteq Locals
  BY DEF Forwarded
<1>1. ASSUME NEW i \in 1 .. m
      PROVE  /\ Owner(up'[i]) \in Forwarded /\ Asked(Owner(up'[i]))
             /\ Owner(up'[i]) \in Forwarded' /\ up'[i].ch = chOf'[Owner(up'[i])]
             /\ up'[i].kind = "data" => up'[i].says \in Locals \X Nat
  <2>1. i + 1 \in 1 .. Len(up) /\ up'[i] = up[i + 1]
    BY <1>0
  <2>2. Named(up[i + 1]) /\ Asked(Owner(up[i + 1])) /\ Owner(up[i + 1]) \in Forwarded
    BY <2>1 DEF UpInv, Named
  <2>. QED BY <2>1, <2>2, FramesStay
<1>2. \A k \in Forwarded : k \in Known => k \in Known'
  BY DEF KnownGrows
<1>3. ASSUME NEW k \in Forwarded, Asked(k)
      PROVE  k \in Known' \/ \E i \in 1 .. m : up'[i].kind = "open" /\ up'[i].says = k
  <2>1. CASE k \in Known
    BY <1>2, <2>1
  <2>2. CASE OpenIsUnderWay(k)
    <3>1. PICK i \in 1 .. Len(up) : up[i].kind = "open" /\ up[i].says = k
      BY <2>2 DEF OpenIsUnderWay
    <3>2. CASE i = 1
      BY <1>0, <3>1, <3>2
    <3>3. CASE i # 1
      <4>1. i - 1 \in 1 .. m /\ (i - 1) + 1 = i
        BY <1>0, <3>3
      <4>2. up'[i - 1] = up[i]
        BY <1>0, <4>1
      <4>. QED BY <3>1, <4>1, <4>2
    <3>. QED BY <3>2, <3>3
  <2>. QED BY <1>3, <2>1, <2>2 DEF Asked, Known
<1>4. ASSUME NEW i \in 1 .. m, up'[i].kind = "open"
      PROVE  /\ up'[i].says \notin Known'
             /\ \A j \in 1 .. i - 1 : Owner(up'[j]) # up'[i].says
  <2>1. /\ i + 1 \in 1 .. Len(up) /\ up'[i] = up[i + 1] /\ 1 \in 1 .. (i + 1) - 1
        /\ \A j \in 1 .. i - 1 : j + 1 \in 1 .. (i + 1) - 1 /\ up'[j] = up[j + 1]
    BY <1>0
  <2>2. /\ up[i + 1].says \notin Known
        /\ \A j \in 1 .. (i + 1) - 1 : Owner(up[j]) # up[i + 1].says
    BY <1>4, <2>1 DEF UpInv, Known
  <2>3. Owner(Head(up)) # up[i + 1].says /\ up'[i].says \in Forwarded
    BY <1>0, <1>1, <1>4, <2>1, <2>2 DEF Owner
  <2>4. Head(up).kind = "open" => Owner(Head(up)) = Head(up).says
    BY DEF Owner
  <2>. QED BY <2>1, <2>2, <2>3, <2>4 DEF KnownGrows
<1>5. ASSUME NEW i \in 1 .. m, up'[i].kind = "close"
      PROVE  /\ connPc'[up'[i].says] \in {"closing", "done"}
             /\ Lost' \/ up'[i].says \in toolDone' \cup localClosed'
  <2>1. i + 1 \in 1 .. Len(up) /\ up'[i] = up[i + 1] /\ up'[i].says \in Locals
    BY <1>0, <1>1, <1>5 DEF Owner
  <2>. QED BY <1>5, <2>1 DEF UpInv, Grows
<1>6. Lost' \/ \A k \in Forwarded' :
         k \in Known' \/ \E i \in 1 .. m : up'[i].kind = "open" /\ up'[i].says = k
  BY <1>3 DEF UpInv, Grows
<1>7. LastIsClose(up)'
  <2>1. SUFFICES ASSUME NEW i \in 1 .. m, NEW j \in 1 .. m, up'[i].kind = "close",
                        up'[j].kind = "data", up'[j].says[1] = up'[i].says
                 PROVE  j < i
    BY DEF LastIsClose, IsData, m
  <2>2. i + 1 \in 1 .. Len(up) /\ j + 1 \in 1 .. Len(up) /\ up'[i] = up[i + 1] /\ up'[j] = up[j + 1]
    BY <1>0
  <2>3. j + 1 < i + 1
    BY <2>1, <2>2 DEF UpInv, LastIsClose, IsData
  <2>. QED BY <2>3
<1>8. ASSUME NEW i \in 1 .. m
      PROVE  \/ Owner(up'[i]) \in Known'
             \/ \E j \in 1 .. m : up'[j].kind = "open" /\ up'[j].says = Owner(up'[i])
  BY <1>1, <1>3
<1>. QED BY <1>1, <1>4, <1>5, <1>6, <1>7, <1>8
         DEF UpInv, Named, Asked, OpenIsUnderWay, Known, Owner, m

LEMMA KnownServer ==
  ASSUME IdsInv, SP!IndInv, WireInv, ServerStep
  PROVE  /\ KnownGrows
         /\ \/ up' = up
            \/ /\ up # << >> /\ up' = Tail(up)
               /\ Head(up).kind = "open" => Head(up).says \in Known'
<1>. LinkInv /\ PumpsInv /\ UpInv /\ Forwarded \subseteq Locals /\ NoConn \notin Locals
  BY TunnelAssumption DEF WireInv, Forwarded
<1>1. CASE ServerRuns
  <2>1. UNCHANGED <<up, opener, serves, refused>>
    BY <1>1, RunsEffect
  <2>. QED BY <2>1 DEF KnownGrows, Known, Reached
<1>2. CASE CleansUp \/ NetworkFails
  <2>1. UNCHANGED <<up, opener, serves, refused>>
    BY <1>2, LosesEffect
  <2>. QED BY <2>1 DEF KnownGrows, Known, Reached
<1>3. CASE Opens
  <2>1. up' = up /\ opener' = NoConn
    BY <1>3, OpensEffect
  <2>2. CASE serves' = serves
    <3>1. refused' = refused \cup {opener}
      BY <1>3, <2>2, OpensEffect DEF PumpsInv
    <3>. QED BY <2>1, <2>2, <3>1 DEF KnownGrows, Known, Reached
  <2>3. CASE serves' # serves
    <3>1. PICK p \in Pumps : /\ pumpState[p] = "free" /\ refused' = refused
                             /\ serves' = [q \in Pumps |-> IF q = p THEN opener ELSE serves[q]]
      BY <1>3, <2>3, OpensEffect
    <3>2. serves[p] = NoConn
      BY <3>1 DEF PumpsInv
    <3>3. \A k \in Locals : k \in Reached' <=> k \in Reached \cup {opener}
      BY <3>1, <3>2 DEF Reached
    <3>. QED BY <2>1, <3>1, <3>3 DEF KnownGrows, Known
  <2>. QED BY <2>2, <2>3
<1>4. CASE ReceivesOpen
  <2>1. /\ serves' = serves /\ opener = NoConn
        /\ up # << >> /\ up' = Tail(up) /\ Head(up).kind = "open"
        /\ \/ opener' = Head(up).says /\ refused' = refused
           \/ opener' = opener /\ refused' = refused \cup {Head(up).says}
    BY <1>4, ReceivesEffect DEF PumpsInv
  <2>2. Reached' = Reached
    BY <2>1 DEF Reached
  <2>. QED BY <2>1, <2>2 DEF KnownGrows, Known
<1>5. CASE ReceivesData \/ ReceivesClose
  <2>1. /\ UNCHANGED <<serves, opener, refused>> /\ up # << >> /\ up' = Tail(up)
        /\ Head(up).kind # "open"
    BY <1>5, ReceivesEffect
  <2>. QED BY <2>1 DEF KnownGrows, Known, Reached
<1>6. ASSUME NEW p \in Pumps, PumpReads(p) \/ PumpEnds(p) \/ PumpInterrupted(p) \/ PumpGoesOn(p)
      PROVE  UNCHANGED <<up, opener, serves, refused>>
  BY <1>6, PumpEffect
<1>7. UNCHANGED <<up, opener, serves, refused>> => KnownGrows /\ up' = up
  BY DEF KnownGrows, Known, Reached
<1>. QED BY <1>1, <1>2, <1>3, <1>4, <1>5, <1>6, <1>7 DEF ServerStep

LEMMA UpStep ==
  ASSUME IdsInv, SP!IndInv, WireInv, Next
  PROVE  UpInv'
<1>. ConnsInv /\ EndsInv /\ LinkInv /\ PumpsInv /\ UpInv /\ FlowInv
  BY DEF WireInv
<1>0. Grows
  BY Monotone
<1>1. /\ up \in Seq(UpFrames) /\ connPc \in [Locals -> ConnPCs] /\ chOf \in [Locals -> Nat \cup {NoId}]
      /\ NoConn \notin Locals /\ Forwarded \subseteq Locals
  BY TunnelAssumption DEF IdsInv, IdTypes, Forwarded
<1>2. CASE ServerStep
  <2>1. Forwarded' = Forwarded
    BY <1>2, ServerStepEffect DEF Forwarded
  <2>. QED BY <1>0, <1>2, <2>1, KnownServer, UpKept, UpTaken
<1>3. CASE LoopStep
  <2>1. UNCHANGED <<up, opener, serves, connPc, refused>>
    BY <1>3, ClientEffect DEF LoopStep, ClientLoop, ClientRuns, TakesData, TakesClose, clientVars, openVars
  <2>2. KnownGrows /\ Forwarded' = Forwarded
    BY <2>1 DEF KnownGrows, Known, Reached, Forwarded
  <2>. QED BY <1>0, <2>1, <2>2, UpKept
<1>4. ASSUME NEW k \in Locals, ConnStep(k) PROVE UpInv'
  <2>1. UNCHANGED <<opener, serves, conn>>
    BY <1>4, ClientEffect DEF ConnStep, Conn
  <2>2. Known \subseteq Forwarded \cup {NoConn}
    BY DEF Known, Reached, PumpsInv, EndsInv
  <2>3. CASE ForwardFails(k)
    <3>1. /\ up' = up /\ refused' = refused \cup {k}
          /\ Forwarded' = Forwarded \cup {k} /\ k \notin Forwarded
      BY <2>3, ClientEffect, ForwardStep DEF Conn, ForwardFails
    <3>2. KnownGrows /\ k \in Known'
      BY <2>1, <3>1 DEF KnownGrows, Known, Reached
    <3>. QED BY <1>0, <3>1, <3>2, UpKept
  <2>4. CASE ~ ForwardFails(k)
    <3>1. refused' = refused
      BY <1>4, <2>4 DEF ConnStep, Accept, ForwardConn, OpenSent, ConnEnds, ConnFinishes,
                        AsyncioCloses, ToolHangsUp, ConnReads, ConnDropped, openVars
    <3>2. KnownGrows /\ Known' = Known
      BY <2>1, <3>1 DEF KnownGrows, Known, Reached
    <3>3. ~ ForwardConn(k) => Forwarded' = Forwarded
      <4>1. CASE OpenSent(k) \/ ConnEnds(k) \/ AsyncioCloses(k) \/ ConnDropped(k) \/ ConnFinishes(k)
        <5>1. /\ connPc[k] \notin {"none", "accepted"}
              /\ \E pc \in {"pumping", "failed", "closing", "done"} : connPc' = [connPc EXCEPT ![k] = pc]
          BY <4>1 DEF OpenSent, ConnEnds, AsyncioCloses, ConnDropped, ConnFinishes
        <5>. QED BY <1>1, <5>1 DEF Forwarded
      <4>2. CASE Accept(k)
        BY <1>1, <4>2 DEF Accept, Forwarded, ConnsInv
      <4>3. CASE ToolHangsUp(k) \/ ConnReads(k)
        BY <4>3 DEF ToolHangsUp, ConnReads, clientVars, Forwarded
      <4>. QED BY <1>4, <2>4, <4>1, <4>2, <4>3 DEF ConnStep
    <3>4. CASE up' = up
      <4>1. CASE ForwardConn(k)
        <5>1. Lost
          <6>1. Frame("open", FreeId, k) \in UpFrames
            BY <4>1 DEF Frame, UpFrames, Said, ForwardConn
          <6>2. ~ Lost => up' = Append(up, Frame("open", FreeId, k))
            BY <4>1, ClientEffect DEF Conn
          <6>. QED BY ONLY <1>1, <3>4, <6>1, <6>2, AppendLonger
        <5>. QED BY <1>0, <3>2, <3>4, <5>1, UpKept DEF Grows
      <4>2. CASE ~ ForwardConn(k)
        BY <1>0, <3>2, <3>3, <3>4, <4>2, UpKept
      <4>. QED BY <4>1, <4>2
    <3>5. CASE up' # up
      <4>0. ForwardConn(k) \/ ConnReads(k) \/ ConnEnds(k)
        BY <1>4, <3>5, ClientEffect DEF ConnStep, Conn
      <4>1. CASE ForwardConn(k)
        <5>. DEFINE f == Frame("open", FreeId, k)
        <5>1. up' = Append(up, f) /\ ~ Lost
          BY <3>5, <4>1, ClientEffect DEF Conn
        <5>2. f.kind = "open" /\ f.ch = FreeId /\ f.says = k /\ f \in UpFrames
          BY <4>1 DEF Frame, UpFrames, Said, ForwardConn
        <5>3. /\ Forwarded' = Forwarded \cup {k} /\ k \notin Forwarded
              /\ chOf' = [chOf EXCEPT ![k] = FreeId]
          BY <4>1, ForwardStep DEF ForwardConn
        <5>4. up # << >> => up' # Tail(up)
          BY ONLY <1>1, <5>1, <5>2, AppendLonger
        <5>5. Owner(f) = k
          BY <5>2 DEF Owner
        <5>. HIDE DEF f
        <5>. QED BY <1>0, <1>1, <2>2, <3>2, <5>1, <5>2, <5>3, <5>4, <5>5, UpAppended
      <4>2. CASE ConnReads(k)
        <5>. DEFINE x == <<k, Len(sent["up"][k]) + 1>>
                    f == Frame("data", chOf[k], x)
        <5>1. up' = Append(up, f) /\ ~ Lost
          BY <3>5, <4>2, ClientEffect DEF Conn
        <5>2. connPc[k] = "pumping" /\ chOf[k] \in UsbIds /\ Len(sent["up"][k]) + 1 \in Nat
          BY <1>1, <4>2 DEF ConnReads, IdsInv, IdsSpent, FlowInv
        <5>3. f.kind = "data" /\ f.ch = chOf[k] /\ f.says = x /\ x \in Locals \X Nat /\ f \in UpFrames
          BY <5>2 DEF Frame, UpFrames, Said
        <5>4. Owner(f) = k /\ k \in Forwarded /\ Forwarded' = Forwarded /\ chOf'[k] = chOf[k]
          <6>1. k \in Forwarded /\ ~ ForwardConn(k)
            BY <5>2 DEF Forwarded, ForwardConn
          <6>. QED BY <1>0, <3>3, <5>3, <6>1 DEF Owner, Grows
        <5>5. up # << >> => up' # Tail(up)
          BY ONLY <1>1, <5>1, <5>3, AppendLonger
        <5>. HIDE DEF f, x
        <5>. QED BY <1>0, <1>1, <3>2, <5>1, <5>2, <5>3, <5>4, <5>5, UpAppended
      <4>3. CASE ConnEnds(k)
        <5>. DEFINE f == Frame("close", chOf[k], k)
        <5>1. up' = Append(up, f) /\ ~ Lost
          BY <3>5, <4>3, ClientEffect DEF Conn
        <5>2. /\ connPc[k] = "pumping" /\ chOf[k] \in UsbIds /\ connPc'[k] = "closing"
              /\ k \in toolDone \cup localClosed
          BY <1>1, <4>3, <5>1 DEF ConnEnds, IdsInv, IdsSpent
        <5>3. f.kind = "close" /\ f.ch = chOf[k] /\ f.says = k /\ f \in UpFrames
          BY <5>2 DEF Frame, UpFrames, Said
        <5>4. Owner(f) = k /\ k \in Forwarded /\ Forwarded' = Forwarded /\ chOf'[k] = chOf[k]
          <6>1. k \in Forwarded /\ ~ ForwardConn(k)
            BY <5>2 DEF Forwarded, ForwardConn
          <6>. QED BY <1>0, <3>3, <5>3, <6>1 DEF Owner, Grows
        <5>5. up # << >> => up' # Tail(up)
          BY ONLY <1>1, <5>1, <5>3, AppendLonger
        <5>6. k \in toolDone' \cup localClosed'
          BY <1>0, <5>2 DEF Grows
        <5>. HIDE DEF f
        <5>. QED BY <1>0, <1>1, <3>2, <5>1, <5>2, <5>3, <5>4, <5>5, <5>6, UpAppended
      <4>. QED BY <4>0, <4>1, <4>2, <4>3
    <3>. QED BY <3>4, <3>5
  <2>. QED BY <2>3, <2>4
<1>. QED BY <1>2, <1>3, <1>4, StepsOfNext

-----------------------------------------------------------------------------
(* What is under way to the client.                                         *)

\* A pump that ends stays with its connection, and never starts again.
LEMMA EndedPumps ==
  ASSUME IdsInv, SP!IndInv, WireInv, Next, NEW p \in Pumps, pumpState[p] \in {"closing", "done"}
  PROVE  pumpState'[p] \in {"closing", "done"} /\ serves'[p] = serves[p]
<1>. LinkInv /\ PumpsInv
  BY DEF WireInv
<1>. pumpState \in [Pumps -> S!PumpStates] /\ serves \in [Pumps -> Locals \cup {NoConn}]
  BY ServerFacts DEF PumpsInv
<1>1. CASE ServerRuns
  BY <1>1, RunsEffect DEF Ending
<1>2. CASE CleansUp \/ NetworkFails
  BY <1>2, LosesEffect
<1>3. CASE Opens
  BY <1>3, OpensEffect
<1>4. CASE ReceivesOpen \/ ReceivesData \/ ReceivesClose
  BY <1>4, ReceivesEffect
<1>5. ASSUME NEW q \in Pumps, PumpReads(q) \/ PumpEnds(q) \/ PumpInterrupted(q) \/ PumpGoesOn(q)
      PROVE  pumpState'[p] \in {"closing", "done"} /\ serves'[p] = serves[p]
  <2>1. serves' = serves /\ pumpState[q] \notin {"free", "done"}
    BY <1>5, PumpEffect
  <2>2. pumpState[q] = "closing" => pumpState'[q] \in {"closing", "done"}
    BY <1>5, PumpEffect
  <2>3. \E to : pumpState' = [pumpState EXCEPT ![q] = to]
    BY <1>5, PumpEffect
  <2>. QED BY <2>1, <2>2, <2>3
<1>6. CASE LoopStep
  BY <1>6, ClientEffect DEF LoopStep, ClientLoop
<1>7. ASSUME NEW k \in Locals, ConnStep(k) PROVE UNCHANGED <<pumpState, serves>>
  BY <1>7, ClientEffect DEF ConnStep, Conn
<1>. QED BY <1>1, <1>2, <1>3, <1>4, <1>5, <1>6, <1>7, StepsOfNext DEF ServerStep

LEMMA QuietStays ==
  ASSUME IdsInv, SP!IndInv, WireInv, Next, NEW k, Quiet(k)
  PROVE  k \in refused' \/ \E p \in Pumps : serves'[p] = k /\ pumpState'[p] \in {"closing", "done"}
<1>1. refused \subseteq refused'
  BY Monotone DEF Grows, WireInv
<1>. QED BY <1>1, EndedPumps DEF Quiet

LEMMA DownKept ==
  ASSUME IdsInv, SP!IndInv, WireInv, Next, down' = down
  PROVE  DownInv'
<1>0. Grows /\ DownInv
  BY Monotone DEF WireInv
<1>1. ASSUME NEW i \in 1 .. Len(down)
      PROVE  /\ Owner(down[i]) \in Forwarded' /\ down[i].ch = chOf'[Owner(down[i])]
             /\ down[i].kind = "data" => down[i].says \in Locals \X Nat
  BY <1>0, FramesStay DEF DownInv
<1>2. ASSUME NEW i \in 1 .. Len(down), down[i].kind = "close"
      PROVE  /\ \/ down[i].says \in refused'
                \/ \E p \in Pumps : serves'[p] = down[i].says /\ pumpState'[p] \in {"closing", "done"}
             /\ Lost' \/ down[i].says \in refused' \cup toolDone' \cup usbipdDone'
  BY <1>0, <1>2, QuietStays DEF DownInv, Grows
<1>3. LastIsClose(down)'
  BY <1>0 DEF DownInv, LastIsClose, IsData
<1>4. \A i \in 1 .. Len(down') : Named(down[i])'
  BY <1>1 DEF Named, Owner
<1>5. \A i \in 1 .. Len(down') : down'[i].kind = "close" => Quiet(down[i].says)'
  BY <1>2 DEF Quiet
<1>. QED BY <1>0, <1>2, <1>3, <1>4, <1>5 DEF DownInv

LEMMA DownAppended ==
  ASSUME IdsInv, SP!IndInv, WireInv, Next, NEW f \in DownFrames, down' = Append(down, f),
         Named(f),
         f.kind = "data" => ~ Quiet(Owner(f)),
         f.kind = "close" =>
           /\ \/ f.says \in refused'
              \/ \E p \in Pumps : serves'[p] = f.says /\ pumpState'[p] \in {"closing", "done"}
           /\ Lost' \/ f.says \in refused' \cup toolDone' \cup usbipdDone'
  PROVE  DownInv'
<1>. DEFINE m == Len(down)
<1>0. Grows /\ DownInv /\ down \in Seq(DownFrames)
  BY Monotone DEF WireInv, DownInv
<1>1. /\ down' \in Seq(DownFrames) /\ f.kind \in {"data", "close"}
      /\ m \in Nat /\ Len(down') = m + 1 /\ down'[m + 1] = f
      /\ 1 .. m + 1 = 1 .. m \cup {m + 1} /\ m + 1 \notin 1 .. m
      /\ \A i \in 1 .. m : down'[i] = down[i]
  BY <1>0, AppendFacts, AppendProperties DEF DownFrames
<1>2. ASSUME NEW i \in 1 .. m + 1
      PROVE  /\ Owner(down'[i]) \in Forwarded' /\ down'[i].ch = chOf'[Owner(down'[i])]
             /\ down'[i].kind = "data" => down'[i].says \in Locals \X Nat
  <2>1. Named(down'[i])
    <3>1. \A j \in 1 .. m : Named(down[j])
      BY <1>0 DEF DownInv
    <3>. QED BY ONLY <1>1, <3>1, Named(f)
  <2>. QED BY <1>0, <2>1, FramesStay
<1>3. ASSUME NEW i \in 1 .. m, down[i].kind = "close"
      PROVE  /\ Quiet(down[i].says)
             /\ \/ down[i].says \in refused'
                \/ \E p \in Pumps : serves'[p] = down[i].says /\ pumpState'[p] \in {"closing", "done"}
             /\ Lost' \/ down[i].says \in refused' \cup toolDone' \cup usbipdDone'
  BY <1>0, <1>3, QuietStays DEF DownInv, Grows
<1>. HIDE DEF m
<1>4. LastIsClose(down)'
  <2>1. SUFFICES ASSUME NEW i \in 1 .. m + 1, NEW j \in 1 .. m + 1, down'[i].kind = "close",
                        down'[j].kind = "data", down'[j].says[1] = down'[i].says
                 PROVE  j < i
    BY <1>1 DEF LastIsClose, IsData
  <2>2. CASE j = m + 1
    <3>1. i \in 1 .. m /\ Owner(f) = down[i].says
      BY <1>1, <2>1, <2>2 DEF Owner
    <3>2. f.kind = "data" /\ down[i].kind = "close"
      BY <1>1, <2>1, <2>2, <3>1
    <3>. QED BY <1>3, <3>1, <3>2
  <2>3. CASE j \in 1 .. m /\ i \in 1 .. m
    BY <1>0, <1>1, <2>1, <2>3 DEF DownInv, LastIsClose, IsData, m
  <2>4. CASE j \in 1 .. m /\ i = m + 1
    BY <1>1, <2>4
  <2>. QED BY <1>1, <2>2, <2>3, <2>4
<1>5. \A i \in 1 .. Len(down') : Named(down[i])'
  BY ONLY <1>1, <1>2 DEF Named, Owner
<1>6. ASSUME NEW i \in 1 .. m + 1, down'[i].kind = "close"
      PROVE  /\ \/ down'[i].says \in refused'
                \/ \E p \in Pumps : serves'[p] = down'[i].says /\ pumpState'[p] \in {"closing", "done"}
             /\ Lost' \/ down'[i].says \in refused' \cup toolDone' \cup usbipdDone'
  BY <1>1, <1>3, <1>6
<1>7. \A i \in 1 .. Len(down') : down'[i].kind = "close" => Quiet(down[i].says)'
  BY ONLY <1>1, <1>6 DEF Quiet
<1>. QED BY ONLY <1>1, <1>4, <1>5, <1>6, <1>7 DEF DownInv

LEMMA DownTaken ==
  ASSUME IdsInv, SP!IndInv, WireInv, Next, down # << >>, down' = Tail(down)
  PROVE  DownInv'
<1>. DEFINE m == Len(down')
<1>0. Grows /\ DownInv /\ down \in Seq(DownFrames)
  BY Monotone DEF WireInv, DownInv
<1>1. /\ down' \in Seq(DownFrames)
      /\ m \in Nat /\ \A i \in 1 .. m : i + 1 \in 1 .. Len(down) /\ down'[i] = down[i + 1]
  BY <1>0, TailFacts, HeadTailProperties
<1>2. ASSUME NEW i \in 1 .. m
      PROVE  /\ Owner(down'[i]) \in Forwarded' /\ down'[i].ch = chOf'[Owner(down'[i])]
             /\ down'[i].kind = "data" => down'[i].says \in Locals \X Nat
  <2>1. Named(down[i + 1])
    BY <1>0, <1>1 DEF DownInv
  <2>. QED BY <1>0, <1>1, <2>1, FramesStay
<1>3. ASSUME NEW i \in 1 .. m, down'[i].kind = "close"
      PROVE  /\ \/ down'[i].says \in refused'
                \/ \E p \in Pumps : serves'[p] = down'[i].says /\ pumpState'[p] \in {"closing", "done"}
             /\ Lost' \/ down'[i].says \in refused' \cup toolDone' \cup usbipdDone'
  <2>1. /\ Quiet(down[i + 1].says)
        /\ Lost \/ down[i + 1].says \in refused \cup toolDone \cup usbipdDone
    BY <1>0, <1>1, <1>3 DEF DownInv
  <2>. QED BY <1>0, <1>1, <2>1, QuietStays DEF Grows
<1>. HIDE DEF m
<1>4. LastIsClose(down)'
  <2>1. SUFFICES ASSUME NEW i \in 1 .. m, NEW j \in 1 .. m, down'[i].kind = "close",
                        down'[j].kind = "data", down'[j].says[1] = down'[i].says
                 PROVE  j < i
    BY DEF LastIsClose, IsData, m
  <2>2. j + 1 < i + 1
    BY <1>0, <1>1, <2>1 DEF DownInv, LastIsClose, IsData
  <2>. QED BY <2>2
<1>5. \A i \in 1 .. m : Named(down[i])'
  BY ONLY <1>1, <1>2 DEF Named, Owner
<1>6. \A i \in 1 .. m : down'[i].kind = "close" => Quiet(down[i].says)'
  BY ONLY <1>1, <1>3 DEF Quiet
<1>. QED BY ONLY <1>1, <1>3, <1>4, <1>5, <1>6 DEF DownInv, m

LEMMA DownStep ==
  ASSUME IdsInv, SP!IndInv, WireInv, Next
  PROVE  DownInv'
<1>. ConnsInv /\ EndsInv /\ LinkInv /\ PumpsInv /\ UpInv /\ DownInv
  BY DEF WireInv
<1>1. /\ serves \in [Pumps -> Locals \cup {NoConn}] /\ pumpState \in [Pumps -> S!PumpStates]
      /\ down \in Seq(DownFrames) /\ Forwarded \subseteq Locals /\ NoConn \notin Locals
  BY ServerFacts, TunnelAssumption DEF PumpsInv, DownInv, Forwarded
<1>2. CASE CleansUp \/ NetworkFails
  <2>1. down' = << >>
    BY <1>2, LosesEffect
  <2>. QED BY <2>1 DEF DownInv, LastIsClose
<1>3. CASE ServerRuns \/ ReceivesData \/ ReceivesClose
  BY <1>3, RunsEffect, ReceivesEffect, DownKept
<1>4. CASE ReceivesOpen
  <2>. DEFINE f == Frame("close", Head(up).ch, Head(up).says)
  <2>1. Head(up) \in UpFrames /\ Head(up).kind = "open" /\ Named(Head(up)) /\ Owner(Head(up)) = Head(up).says
    BY <1>4, ReceivesEffect, UpHead DEF Owner
  <2>2. f \in DownFrames /\ f.kind = "close" /\ f.says = Head(up).says /\ f.ch = Head(up).ch
    BY <2>1 DEF Frame, UpFrames, DownFrames
  <2>3. Named(f)
    BY <2>1, <2>2 DEF Named, Owner
  <2>4. down' = down \/ (down' = Append(down, f) /\ f.says \in refused')
    BY <1>4, <2>2, ReceivesEffect DEF ServerWrites
  <2>. HIDE DEF f
  <2>. QED BY <2>2, <2>3, <2>4, DownKept, DownAppended
<1>5. CASE Opens
  <2>. DEFINE f == Frame("close", pending[Session], opener)
  <2>1. opener \in Forwarded /\ pending[Session] = chOf[opener] /\ pending[Session] \in UsbIds
    <3>1. phase[Session] = "opening"
      BY <1>5, OpensEffect
    <3>2. SP!OpeningInv
      BY DEF SP!IndInv, SP!ChannelInv, SP!SessionInv
    <3>3. pending[Session] \in UsbIds
      BY <3>1, <3>2 DEF SP!OpeningInv
    <3>. QED BY <3>1, <3>3 DEF PumpsInv
  <2>2. f \in DownFrames /\ f.kind = "close" /\ f.says = opener /\ f.ch = pending[Session]
    BY <1>1, <2>1 DEF Frame, DownFrames, Said
  <2>3. Named(f)
    BY <2>1, <2>2 DEF Named, Owner
  <2>4. down' = down \/ (down' = Append(down, f) /\ f.says \in refused')
    BY <1>5, <2>2, OpensEffect DEF ServerWrites
  <2>. HIDE DEF f
  <2>. QED BY <2>2, <2>3, <2>4, DownKept, DownAppended
<1>6. ASSUME NEW p \in Pumps, PumpReads(p) \/ PumpEnds(p) \/ PumpInterrupted(p) \/ PumpGoesOn(p)
      PROVE  DownInv'
  <2>1. /\ pumpState[p] # "free" /\ serves[p] \in Forwarded \ refused /\ pumpCh[p] = chOf[serves[p]]
        /\ pumpCh[p] \in UsbIds /\ serves' = serves
        /\ \A q \in Pumps : serves[q] = serves[p] => q = p
    BY <1>6, PumpEffect, ServerFacts DEF PumpsInv
  <2>2. CASE PumpGoesOn(p)
    BY <2>2, PumpEffect, DownKept
  <2>3. CASE PumpReads(p)
    <3>. DEFINE x == <<serves[p], Len(sent["down"][serves[p]]) + 1>>
                f == Frame("data", pumpCh[p], x)
    <3>1. /\ pumpState[p] = "reading" /\ down' = IF Lost THEN down ELSE Append(down, f)
      BY <2>3, PumpEffect DEF ServerWrites
    <3>2. Len(sent["down"][serves[p]]) + 1 \in Nat
      BY <1>1, <2>1 DEF WireInv, FlowInv
    <3>3. /\ f.kind = "data" /\ f.ch = pumpCh[p] /\ f.says = x /\ x \in Locals \X Nat
          /\ x[1] = serves[p] /\ f \in DownFrames
      BY <1>1, <2>1, <3>2 DEF Frame, DownFrames, Said
    <3>4. Owner(f) = serves[p] /\ Named(f)
      BY <2>1, <3>3 DEF Named, Owner
    <3>5. ~ Quiet(serves[p])
      BY <2>1, <3>1 DEF Quiet
    <3>. HIDE DEF f, x
    <3>. QED BY <3>1, <3>3, <3>4, <3>5, DownKept, DownAppended
  <2>4. CASE PumpEnds(p) \/ PumpInterrupted(p)
    <3>. DEFINE f == Frame("close", pumpCh[p], serves[p])
    <3>1. pumpState'[p] = "closing" /\ down' = IF Lost THEN down ELSE Append(down, f)
      BY <2>4, PumpEffect DEF ServerWrites
    <3>2. f.kind = "close" /\ f.ch = pumpCh[p] /\ f.says = serves[p] /\ f \in DownFrames
      BY <1>1, <2>1 DEF Frame, DownFrames, Said
    <3>3. Named(f)
      BY <2>1, <3>2 DEF Named, Owner
    <3>4. Lost' \/ serves[p] \in toolDone' \cup usbipdDone'
      <4>1. conn' = conn /\ toolDone' = toolDone
        BY <1>6, PumpEffect DEF Tunnels
      <4>2. CASE PumpEnds(p)
        BY <4>1, <4>2, PumpEffect DEF Lost
      <4>3. CASE PumpInterrupted(p)
        <5>1. p \notin sockets /\ usbipdDone' = usbipdDone
          BY <4>3, PumpEffect
        <5>. QED BY <2>1, <4>1, <5>1 DEF EndsInv, Lost
      <4>. QED BY <2>4, <4>2, <4>3
    <3>. HIDE DEF f
    <3>. QED BY <2>1, <3>1, <3>2, <3>3, <3>4, DownKept, DownAppended
  <2>. QED BY <1>6, <2>2, <2>3, <2>4
<1>7. CASE TakesData \/ TakesClose
  <2>1. down # << >> /\ down' = Tail(down)
    BY <1>7 DEF TakesData, TakesClose, Takes
  <2>. QED BY <2>1, DownTaken
<1>8. CASE ClientRuns
  BY <1>8, DownKept DEF ClientRuns
<1>9. ASSUME NEW k \in Locals, ConnStep(k) PROVE down' = down
  BY <1>9 DEF ConnStep, Accept, ForwardConn, ForwardFails, OpenSent, ConnEnds, ConnFinishes,
              AsyncioCloses, ToolHangsUp, ConnReads, ConnDropped
<1>. QED BY <1>2, <1>3, <1>4, <1>5, <1>6, <1>7, <1>8, <1>9, DownKept, StepsOfNext
         DEF ServerStep, LoopStep

-----------------------------------------------------------------------------
(* What was sent, and what has come out.                                    *)

\* The bound on the pieces sent in all bounds those of each connection.
LEMMA PieceFits ==
  ASSUME ConnsInv, PumpsInv, FlowInv, NEW d \in {"up", "down"}, NEW k \in Locals, Pieces < MaxData
  PROVE  Len(sent[d][k]) + 1 \in 1 .. MaxData
<1>. DEFINE D == {"up", "down"}
            N == 1 .. MaxData
            X == {x \in D \X Locals \X N : x[3] <= Len(sent[x[1]][x[2]])}
            A == D \X (accepted \X N)
            B == D \X accepted \X N
            f == [a \in A |-> <<a[1], a[2][1], a[2][2]>>]
            h == [i \in N |-> <<d, k, i>>]
<1>1. MaxData \in Nat /\ IsFiniteSet(N) /\ Cardinality(N) = MaxData
  BY FS_Interval, TunnelAssumption
<1>2. IsFiniteSet(A)
  <2>1. IsFiniteSet(D)
    <3>1. IsFiniteSet({"up"} \cup {"down"}) /\ D = {"up"} \cup {"down"}
      BY FS_Singleton, FS_AddElement
    <3>. QED BY <3>1
  <2>2. IsFiniteSet(accepted \X N)
    BY <1>1, FS_Product DEF ConnsInv
  <2>. QED BY <2>1, <2>2, FS_Product
<1>3. IsFiniteSet(B)
  <2>1. f \in [A -> B]
    OBVIOUS
  <2>2. ASSUME NEW b \in B PROVE \E a \in A : f[a] = b
    <3>1. <<b[1], <<b[2], b[3]>>>> \in A /\ f[<<b[1], <<b[2], b[3]>>>>] = b
      OBVIOUS
    <3>. QED BY <3>1
  <2>3. f \in Surjection(A, B)
    BY <2>1, <2>2 DEF Surjection
  <2>. QED BY <1>2, <2>3, FS_Surjection
<1>4. IsFiniteSet(X)
  <2>1. ASSUME NEW e \in D, NEW j \in Locals, sent[e][j] # << >> PROVE j \in accepted
    <3>1. j \in Forwarded \cup Reached
      BY <2>1 DEF FlowInv
    <3>2. Reached \subseteq Forwarded
      BY DEF PumpsInv, Reached
    <3>. QED BY <3>1, <3>2, ForwardedFinite
  <2>2. \A e \in D : \A j \in Locals : sent[e][j] \in Seq(Payloads)
    BY DEF FlowInv
  <2>3. ASSUME NEW x \in X PROVE x \in B
    <3>1. x[1] \in D /\ x[2] \in Locals /\ x[3] \in N /\ x = <<x[1], x[2], x[3]>>
          /\ x[3] <= Len(sent[x[1]][x[2]])
      OBVIOUS
    <3>2. sent[x[1]][x[2]] # << >>
      BY <3>1
    <3>3. x[2] \in accepted
      BY <2>1, <3>1, <3>2
    <3>. QED BY <3>1, <3>3
  <2>4. X \in SUBSET B
    BY <2>3
  <2>. QED BY <1>3, <2>4, FS_Subset
<1>5. Len(sent[d][k]) \in Nat
  BY DEF FlowInv
<1>6. CASE MaxData <= Len(sent[d][k])
  <2>1. \A i \in N : <<d, k, i>> \in X
    BY <1>1, <1>5, <1>6
  <2>2. h \in Injection(N, X)
    BY <2>1 DEF Injection, IsInjective
  <2>3. MaxData <= Cardinality(X) /\ Cardinality(X) \in Nat
    BY <1>1, <1>4, <2>2, FS_Injection, FS_CardinalityType
  <2>4. Cardinality(X) < MaxData
    BY DEF Pieces
  <2>. QED BY <1>1, <2>3, <2>4
<1>7. CASE ~ (MaxData <= Len(sent[d][k]))
  BY <1>1, <1>5, <1>7
<1>. QED BY <1>6, <1>7

\* A pump that was created stays with its connection, which is closed once.
LEMMA PumpsStay ==
  ASSUME IdsInv, SP!IndInv, WireInv, Next
  PROVE  /\ \A p \in Pumps : pumpState[p] # "free" =>
              serves'[p] = serves[p] /\ (p \notin sockets => p \notin sockets')
         /\ Reached \subseteq Reached' /\ RemoteClosed \subseteq RemoteClosed'
<1>. LinkInv /\ PumpsInv
  BY DEF WireInv
<1>0. serves \in [Pumps -> Locals \cup {NoConn}]
  BY DEF PumpsInv
<1>1. ASSUME NEW p \in Pumps, pumpState[p] # "free"
      PROVE  serves'[p] = serves[p] /\ (p \notin sockets => p \notin sockets')
  <2>1. CASE ServerRuns
    BY <2>1, RunsEffect DEF Ending
  <2>2. CASE CleansUp \/ NetworkFails
    BY <2>2, LosesEffect
  <2>3. CASE Opens
    BY <1>0, <1>1, <2>3, OpensEffect
  <2>4. CASE ReceivesOpen \/ ReceivesData \/ ReceivesClose
    BY <2>4, ReceivesEffect
  <2>5. ASSUME NEW q \in Pumps, PumpReads(q) \/ PumpEnds(q) \/ PumpInterrupted(q) \/ PumpGoesOn(q)
        PROVE  serves' = serves /\ (p \notin sockets => p \notin sockets')
    BY <2>5, PumpEffect
  <2>6. CASE LoopStep
    BY <2>6, ClientEffect DEF LoopStep, ClientLoop
  <2>7. ASSUME NEW k \in Locals, ConnStep(k) PROVE UNCHANGED <<sockets, serves>>
    BY <2>7, ClientEffect DEF ConnStep, Conn
  <2>. QED BY <2>1, <2>2, <2>3, <2>4, <2>5, <2>6, <2>7, StepsOfNext DEF ServerStep
<1>2. \A p \in Pumps : serves[p] # NoConn => pumpState[p] # "free"
  BY DEF PumpsInv
<1>. QED BY <1>1, <1>2 DEF Reached, RemoteClosed

\* The client takes a piece: it is the next, unless the connection is closed.
LEMMA TakesPiece ==
  ASSUME IdsInv, WireInv, TakesData
  PROVE  \E k \in Forwarded, x \in Locals \X Nat :
           /\ down # << >> /\ down' = Tail(down) /\ UNCHANGED <<up, sent>>
           /\ Head(down).kind = "data" /\ Head(down).says = x /\ x[1] = k
           /\ \/ k \in localClosed /\ got' = got
              \/ /\ k \notin localClosed
                 /\ x = <<k, Len(got["down"][k]) + 1>> /\ x \in Payloads
                 /\ Len(got["down"][k]) + 1 \in 1 .. Len(sent["down"][k])
                 /\ got' = [got EXCEPT !["down"][k] = Append(@, x)]
<1>. DEFINE x == Head(down).says
            k == x[1]
            g == Len(got["down"][k])
            s == Len(sent["down"][k])
<1>. ConnsInv /\ DownInv /\ FlowInv /\ Forwarded \subseteq Locals
  BY DEF WireInv, Forwarded
<1>1. down # << >> /\ down' = Tail(down) /\ UNCHANGED <<up, sent>> /\ Head(down).kind = "data"
  BY DEF TakesData, Takes
<1>2. Named(Head(down)) /\ Owner(Head(down)) = k /\ k \in Forwarded /\ x \in Locals \X Nat
      /\ Head(down).ch = chOf[k] /\ IsData(Head(down), k)
  BY <1>1, DownHead DEF Named, Owner, IsData
<1>3. got' = [got EXCEPT !["down"] =
                 [j \in Locals |-> IF j \in Under(Head(down).ch) \ localClosed
                                  THEN Append(@[j], x) ELSE @[j]]]
  BY DEF TakesData
<1>4. got \in [{"up", "down"} -> [Locals -> Seq(Payloads)]]
      /\ sent \in [{"up", "down"} -> [Locals -> Seq(Payloads)]]
  BY DEF FlowInv
<1>5. CASE k \in localClosed
  <2>1. \A j \in Locals : j \notin Under(Head(down).ch) \ localClosed
    BY <1>2, <1>5, UnderOwner
  <2>2. got' = [got EXCEPT !["down"] = [j \in Locals |-> @[j]]]
    BY <1>3, <2>1
  <2>3. got' = got
    BY <1>4, <2>2
  <2>. QED BY <1>1, <1>2, <1>5, <2>3
<1>6. CASE k \notin localClosed
  <2>1. k \in held
    BY <1>2, <1>6 DEF ConnsInv
  <2>2. \A j \in Locals : j \in Under(Head(down).ch) \ localClosed <=> j = k
    BY <1>2, <1>6, <2>1, UnderOwner DEF Under
  <2>3. got' = [got EXCEPT !["down"] = [j \in Locals |-> IF j = k THEN Append(@[j], x) ELSE @[j]]]
    BY <1>3, <2>2
  <2>4. got' = [got EXCEPT !["down"][k] = Append(@, x)]
    BY <1>2, <1>4, <2>3
  <2>5. Carries(down, k, g, s) /\ NoGaps(down, k, g) /\ g \in Nat /\ s \in Nat
    BY <1>2, <1>4, <1>6 DEF FlowInv, DownFlow
  <2>6. x[2] = g + 1 /\ g + 1 <= s
    BY <1>1, <1>2, <2>5, TailPiece DEF DownInv
  <2>7. x = <<k, g + 1>> /\ g + 1 \in 1 .. s
    BY <1>2, <2>5, <2>6
  <2>8. sent["down"][k][g + 1] = <<k, g + 1>>
    BY Zenon, <1>2, <2>7 DEF FlowInv, Numbered
  <2>9. x \in Payloads
    <3>1. sent["down"][k] \in Seq(Payloads)
      BY <1>2, <1>4
    <3>2. sent["down"][k][g + 1] \in Payloads
      BY ONLY <3>1, <2>7, ElementOfSeq
    <3>. QED BY Zenon, <3>2, <2>7, <2>8
  <2>. QED BY Zenon, <1>1, <1>2, <1>6, <2>4, <2>7, <2>9
<1>. QED BY <1>5, <1>6

\* The server takes a piece: it is the next, unless usbipd's connection is not there.
LEMMA ReceivesPiece ==
  ASSUME IdsInv, SP!IndInv, WireInv, ReceivesData
  PROVE  \E k \in Forwarded, x \in Locals \X Nat :
           /\ up # << >> /\ up' = Tail(up) /\ UNCHANGED <<down, sent>>
           /\ Head(up).kind = "data" /\ Head(up).says = x /\ x[1] = k
           /\ \/ k \in refused \cup RemoteClosed /\ got' = got
              \/ /\ k \in Reached \ RemoteClosed
                 /\ x = <<k, Len(got["up"][k]) + 1>> /\ x \in Payloads
                 /\ Len(got["up"][k]) + 1 \in 1 .. Len(sent["up"][k])
                 /\ got' = [got EXCEPT !["up"][k] = Append(@, x)]
<1>. DEFINE x == Head(up).says
            k == x[1]
            g == Len(got["up"][k])
            s == Len(sent["up"][k])
<1>. ConnsInv /\ UpInv /\ FlowInv /\ PumpsInv /\ LinkInv /\ Forwarded \subseteq Locals /\ NoConn \notin Locals
  BY TunnelAssumption DEF WireInv, Forwarded
<1>1. /\ up # << >> /\ up' = Tail(up) /\ UNCHANGED <<down, sent>> /\ Head(up).kind = "data"
      /\ up \in Seq(UpFrames) /\ sockets \subseteq Pumps
      /\ \A p \in sockets : pumpState[p] # "free"
  BY ReceivesEffect, ServerFacts DEF IdsInv, IdTypes
<1>2. Named(Head(up)) /\ Owner(Head(up)) = k /\ k \in Forwarded /\ x \in Locals \X Nat
      /\ Head(up).ch = chOf[k] /\ IsData(Head(up), k) /\ Asked(k)
  BY <1>1, UpHead DEF Named, Owner, IsData
<1>3. got \in [{"up", "down"} -> [Locals -> Seq(Payloads)]]
      /\ sent \in [{"up", "down"} -> [Locals -> Seq(Payloads)]]
  BY DEF FlowInv
<1>4. k \in Reached \cup refused
  <2>1. opener = NoConn
    BY ReceivesEffect DEF PumpsInv
  <2>2. ~ OpenIsUnderWay(k)
    <3>1. SUFFICES ASSUME NEW i \in 1 .. Len(up), up[i].kind = "open", up[i].says = k PROVE FALSE
      BY DEF OpenIsUnderWay
    <3>2. Head(up) = up[1] /\ i # 1
      BY <1>1, <3>1, TailFacts
    <3>3. 1 \in 1 .. i - 1
      BY <3>2
    <3>. QED BY <1>2, <3>1, <3>2, <3>3 DEF UpInv
  <2>. QED BY <1>2, <2>1, <2>2 DEF Asked
<1>5. CASE \A p \in sockets : pumpCh[p] # Head(up).ch
  <2>1. got' = got
    BY <1>5, ReceivesEffect
  <2>2. k \in refused \cup RemoteClosed
    <3>1. CASE k \in Reached
      <4>1. PICK p \in Pumps : serves[p] = k
        BY <3>1 DEF Reached
      <4>2. pumpCh[p] = chOf[k] /\ k # NoConn
        BY <1>2, <4>1 DEF PumpsInv
      <4>3. p \notin sockets
        BY <1>2, <1>5, <4>2
      <4>. QED BY <4>1, <4>2, <4>3 DEF RemoteClosed
    <3>. QED BY <1>4, <3>1
  <2>. QED BY <1>1, <1>2, <2>1, <2>2
<1>6. CASE ~ (\A p \in sockets : pumpCh[p] # Head(up).ch)
  <2>1. PICK p \in sockets : pumpCh[p] = Head(up).ch /\ got' = [got EXCEPT !["up"][serves[p]] = Append(@, x)]
    BY <1>6, ReceivesEffect
  <2>2. p \in Pumps /\ serves[p] = k /\ k \notin refused /\ \A q \in Pumps : serves[q] = k => q = p
    BY <1>1, <1>2, <2>1, OneOwner DEF PumpsInv
  <2>3. k \in Reached \ RemoteClosed
    BY <1>2, <2>1, <2>2 DEF Reached, RemoteClosed
  <2>4. Carries(up, k, g, s) /\ NoGaps(up, k, g) /\ g \in Nat /\ s \in Nat
    BY <1>2, <1>3, <2>2, <2>3 DEF FlowInv, UpFlow
  <2>5. x[2] = g + 1 /\ g + 1 <= s
    BY <1>1, <1>2, <2>4, TailPiece
  <2>6. x = <<k, g + 1>> /\ g + 1 \in 1 .. s
    BY <1>2, <2>4, <2>5
  <2>7. sent["up"][k][g + 1] = <<k, g + 1>>
    BY Zenon, <1>2, <2>6 DEF FlowInv, Numbered
  <2>8. x \in Payloads
    <3>1. sent["up"][k] \in Seq(Payloads)
      BY <1>2, <1>3
    <3>2. sent["up"][k][g + 1] \in Payloads
      BY ONLY <3>1, <2>6, ElementOfSeq
    <3>. QED BY Zenon, <3>2, <2>6, <2>7
  <2>. QED BY Zenon, <1>1, <1>2, <2>1, <2>2, <2>3, <2>6, <2>8
<1>. QED BY <1>5, <1>6

LEMMA AppendNumbered ==
  ASSUME NEW h \in [Locals -> Seq(Payloads)], Numbered(h), NEW k \in Locals,
         NEW x \in Payloads, x = <<k, Len(h[k]) + 1>>, NEW r, r = [h EXCEPT ![k] = Append(@, x)]
  PROVE  /\ Numbered(r) /\ r \in [Locals -> Seq(Payloads)]
         /\ Len(r[k]) = Len(h[k]) + 1 /\ Len(h[k]) \in Nat /\ r[k] # << >>
         /\ \A j \in Locals : j # k => r[j] = h[j]
<1>1. r[k] = Append(h[k], x) /\ h[k] \in Seq(Payloads)
  OBVIOUS
<1>2. /\ Append(h[k], x) \in Seq(Payloads)
      /\ Len(r[k]) = Len(h[k]) + 1 /\ Len(h[k]) \in Nat /\ r[k] # << >>
      /\ 1 .. Len(r[k]) = 1 .. Len(h[k]) \cup {Len(r[k])}
      /\ \A i \in 1 .. Len(h[k]) : r[k][i] = h[k][i] /\ r[k][Len(r[k])] = x
      /\ r[k][Len(r[k])] = x
  BY <1>1, AppendFacts, AppendProperties
<1>3. \A j \in Locals : j # k => r[j] = h[j]
  OBVIOUS
<1>4. \A n \in 1 .. Len(r[k]) : r[k][n] = <<k, n>>
  BY <1>1, <1>2 DEF Numbered
<1>5. Numbered(r)
  BY <1>3, <1>4 DEF Numbered
<1>6. r \in [Locals -> Seq(Payloads)]
  BY <1>2
<1>. QED BY <1>2, <1>3, <1>5, <1>6

\* Who sends a piece, and who takes one.
LEMMA SendsPiece ==
  ASSUME IdsInv, SP!IndInv, WireInv, Next
  PROVE  /\ \/ sent' = sent
            \/ got' = got /\ \E d \in {"up", "down"}, k \in Locals, x \in Payloads :
                 /\ x = <<k, Len(sent[d][k]) + 1>>
                 /\ sent' = [sent EXCEPT ![d][k] = Append(@, x)]
                 /\ d = "up" => ConnReads(k) /\ k \in Forwarded
                 /\ d = "down" => k \in Reached /\ \E p \in Pumps : serves[p] = k /\ PumpReads(p)
         /\ got' = got \/ TakesData \/ ReceivesData
<1>. ConnsInv /\ PumpsInv /\ FlowInv /\ LinkInv
  BY DEF WireInv
<1>1. ASSUME NEW k \in Locals, ConnReads(k)
      PROVE  /\ got' = got /\ k \in Forwarded
             /\ \E x \in Payloads : /\ x = <<k, Len(sent["up"][k]) + 1>>
                                    /\ sent' = [sent EXCEPT !["up"][k] = Append(@, x)]
  <2>1. Len(sent["up"][k]) + 1 \in 1 .. MaxData
    BY <1>1, PieceFits DEF ConnReads
  <2>2. /\ got' = got /\ connPc[k] = "pumping"
        /\ sent' = [sent EXCEPT !["up"][k] = Append(@, <<k, Len(sent["up"][k]) + 1>>)]
    BY <1>1 DEF ConnReads
  <2>. QED BY <2>1, <2>2 DEF Forwarded, Payloads
<1>2. ASSUME NEW p \in Pumps, PumpReads(p)
      PROVE  /\ got' = got /\ serves[p] \in Locals /\ serves[p] \in Reached
             /\ \E x \in Payloads :
                  /\ x = <<serves[p], Len(sent["down"][serves[p]]) + 1>>
                  /\ sent' = [sent EXCEPT !["down"][serves[p]] = Append(@, x)]
  <2>1. /\ pumpState[p] = "reading" /\ got' = got /\ Pieces < MaxData
        /\ sent' = [sent EXCEPT !["down"][serves[p]] =
                       Append(@, <<serves[p], Len(sent["down"][serves[p]]) + 1>>)]
    BY <1>2, PumpEffect
  <2>2. serves[p] \in Locals /\ serves[p] \in Reached
    BY <2>1, TunnelAssumption DEF PumpsInv, Reached, Forwarded
  <2>3. Len(sent["down"][serves[p]]) + 1 \in 1 .. MaxData
    BY <2>1, <2>2, PieceFits
  <2>. QED BY <2>1, <2>2, <2>3 DEF Payloads
<1>3. ASSUME NEW k \in Locals, ConnStep(k), ~ ConnReads(k) PROVE UNCHANGED <<sent, got>>
  BY <1>3 DEF ConnStep, Accept, ForwardConn, ForwardFails, OpenSent, ConnEnds, ConnFinishes,
              AsyncioCloses, ToolHangsUp, ConnDropped
<1>4. CASE LoopStep
  BY <1>4 DEF LoopStep, ClientRuns, TakesData, TakesClose
<1>5. CASE ServerStep /\ ~ \E p \in Pumps : PumpReads(p)
  BY Zenon, <1>5 DEF ServerStep, ServerRuns, CleansUp, NetworkFails, Opens, ReceivesOpen, ReceivesData,
              ReceivesClose, PumpEnds, PumpInterrupted, PumpGoesOn
<1>. QED BY <1>1, <1>2, <1>3, <1>4, <1>5, StepsOfNext

LEMMA HistoriesStep ==
  ASSUME IdsInv, SP!IndInv, WireInv, Next
  PROVE  /\ sent' \in [{"up", "down"} -> [Locals -> Seq(Payloads)]]
         /\ got' \in [{"up", "down"} -> [Locals -> Seq(Payloads)]]
         /\ \A d \in {"up", "down"} : Numbered(sent'[d]) /\ Numbered(got'[d])
         /\ \A k \in Locals : sent'["up"][k] # << >> => k \in Forwarded'
         /\ \A k \in Locals : sent'["down"][k] # << >> => k \in Reached'
<1>. FlowInv
  BY DEF WireInv
<1>1. Forwarded \subseteq Forwarded' /\ Reached \subseteq Reached' /\ Forwarded \subseteq Locals
  BY Monotone, PumpsStay DEF WireInv, Grows, Forwarded
<1>2. /\ sent \in [{"up", "down"} -> [Locals -> Seq(Payloads)]]
      /\ got \in [{"up", "down"} -> [Locals -> Seq(Payloads)]]
      /\ \A d \in {"up", "down"} : Numbered(sent[d]) /\ Numbered(got[d])
  BY DEF FlowInv
<1>3. ASSUME NEW h \in [{"up", "down"} -> [Locals -> Seq(Payloads)]],
             \A d \in {"up", "down"} : Numbered(h[d]),
             NEW d \in {"up", "down"}, NEW k \in Locals, NEW x \in Payloads,
             x = <<k, Len(h[d][k]) + 1>>,
             NEW r, r = [h EXCEPT ![d][k] = Append(@, x)]
      PROVE  /\ r \in [{"up", "down"} -> [Locals -> Seq(Payloads)]]
             /\ \A e \in {"up", "down"} : Numbered(r[e])
             /\ \A e \in {"up", "down"} : \A j \in Locals : e # d \/ j # k => r[e][j] = h[e][j]
  <2>1. /\ r[d] = [h[d] EXCEPT ![k] = Append(@, x)] /\ h[d] \in [Locals -> Seq(Payloads)]
        /\ \A e \in {"up", "down"} : e # d => r[e] = h[e]
        /\ r = [e \in {"up", "down"} |-> r[e]]
    BY <1>3
  <2>2. /\ Numbered(r[d]) /\ r[d] \in [Locals -> Seq(Payloads)]
        /\ \A j \in Locals : j # k => r[d][j] = h[d][j]
    BY ONLY <1>3, <2>1, AppendNumbered
  <2>3. \A e \in {"up", "down"} : r[e] \in [Locals -> Seq(Payloads)]
    BY <2>1, <2>2
  <2>. QED BY <1>3, <2>1, <2>2, <2>3
<1>4. /\ got' \in [{"up", "down"} -> [Locals -> Seq(Payloads)]]
      /\ \A d \in {"up", "down"} : Numbered(got'[d])
  <2>1. CASE got' = got
    BY <1>2, <2>1
  <2>2. CASE got' # got
    <3>1. PICK d \in {"up", "down"}, k \in Locals, x \in Payloads :
            /\ x = <<k, Len(got[d][k]) + 1>>
            /\ got' = [got EXCEPT ![d][k] = Append(@, x)]
      <4>1. TakesData \/ ReceivesData
        BY <2>2, SendsPiece
      <4>2. CASE TakesData
        BY <1>1, <2>2, <4>2, TakesPiece
      <4>3. CASE ReceivesData
        BY <1>1, <2>2, <4>3, ReceivesPiece
      <4>. QED BY <4>1, <4>2, <4>3
    <3>. QED BY ONLY <1>2, <1>3, <3>1
  <2>. QED BY <2>1, <2>2
<1>5. CASE sent' = sent
  BY <1>1, <1>2, <1>4, <1>5 DEF FlowInv
<1>6. CASE sent' # sent
  <2>1. PICK d \in {"up", "down"}, k \in Locals, x \in Payloads :
          /\ x = <<k, Len(sent[d][k]) + 1>>
          /\ sent' = [sent EXCEPT ![d][k] = Append(@, x)]
          /\ d = "up" => k \in Forwarded
          /\ d = "down" => k \in Reached
    BY <1>6, SendsPiece
  <2>2. /\ sent' \in [{"up", "down"} -> [Locals -> Seq(Payloads)]]
        /\ \A e \in {"up", "down"} : Numbered(sent'[e])
        /\ \A e \in {"up", "down"} : \A j \in Locals : e # d \/ j # k => sent'[e][j] = sent[e][j]
    <3>1. sent' \in [{"up", "down"} -> [Locals -> Seq(Payloads)]] /\ \A e \in {"up", "down"} : Numbered(sent'[e])
      BY ONLY Zenon, <1>2, <1>3, <2>1
    <3>2. \A e \in {"up", "down"} : \A j \in Locals : e # d \/ j # k => sent'[e][j] = sent[e][j]
      BY <1>2, <2>1
    <3>. QED BY <3>1, <3>2
  <2>. QED BY <1>1, <1>4, <2>1, <2>2 DEF FlowInv
<1>. QED BY <1>5, <1>6

LEMMA OtherFrames ==
  ASSUME NEW T, NEW q \in Seq(T), NEW r, NEW k, NEW g \in Nat, NEW s \in Nat,
         \/ r = q
         \/ \E f \in T : r = Append(q, f) /\ ~ IsData(f, k)
         \/ q # << >> /\ r = Tail(q) /\ ~ IsData(Head(q), k)
  PROVE  /\ Carries(q, k, g, s) => Carries(r, k, g, s)
         /\ NoGaps(q, k, g) => NoGaps(r, k, g)
         /\ Complete(q, k, g, s) => Complete(r, k, g, s)
<1>1. CASE r = q
  BY <1>1
<1>2. CASE \E f \in T : r = Append(q, f) /\ ~ IsData(f, k)
  BY <1>2, AppendOther
<1>3. CASE q # << >> /\ r = Tail(q) /\ ~ IsData(Head(q), k)
  BY <1>3, TailOther
<1>. QED BY <1>1, <1>2, <1>3

\* The frames that a step puts on their way to the server.
LEMMA UpMoves ==
  ASSUME IdsInv, SP!IndInv, WireInv, Next, ~ ReceivesData
  PROVE  \/ up' = up
         \/ up # << >> /\ up' = Tail(up) /\ Head(up).kind # "data"
         \/ /\ ~ Lost
            /\ \E f \in UpFrames :
                 /\ up' = Append(up, f)
                 /\ \/ f.kind # "data" /\ UNCHANGED <<sent, got>>
                    \/ \E j \in Locals : ConnReads(j) /\ f.kind = "data"
                                      /\ f.says = <<j, Len(sent["up"][j]) + 1>>
<1>. LinkInv /\ FlowInv
  BY DEF WireInv
<1>1. CASE ServerStep
  BY <1>1, KnownServer, ReceivesEffect, RunsEffect, LosesEffect, OpensEffect, PumpEffect DEF ServerStep
<1>2. CASE LoopStep
  BY <1>2, ClientEffect DEF LoopStep, ClientLoop
<1>3. ASSUME NEW k \in Locals, ForwardConn(k)
      PROVE  \/ up' = up
             \/ /\ ~ Lost
                /\ \E f \in UpFrames : up' = Append(up, f) /\ f.kind # "data" /\ UNCHANGED <<sent, got>>
  <2>1. Frame("open", FreeId, k) \in UpFrames /\ Frame("open", FreeId, k).kind = "open"
    BY <1>3 DEF Frame, UpFrames, Said, ForwardConn
  <2>2. up' = IF Lost THEN up ELSE Append(up, Frame("open", FreeId, k))
    BY <1>3, ClientEffect DEF Conn
  <2>. QED BY <1>3, <2>1, <2>2 DEF ForwardConn
<1>4. ASSUME NEW k \in Locals, ConnEnds(k)
      PROVE  \/ up' = up
             \/ /\ ~ Lost
                /\ \E f \in UpFrames : up' = Append(up, f) /\ f.kind # "data" /\ UNCHANGED <<sent, got>>
  <2>1. chOf[k] \in UsbIds
    BY <1>4 DEF ConnEnds, IdsInv, IdsSpent
  <2>2. Frame("close", chOf[k], k) \in UpFrames /\ Frame("close", chOf[k], k).kind = "close"
    BY <2>1 DEF Frame, UpFrames, Said
  <2>3. up' = IF Lost THEN up ELSE Append(up, Frame("close", chOf[k], k))
    BY <1>4, ClientEffect DEF Conn
  <2>. QED BY <1>4, <2>2, <2>3 DEF ConnEnds
<1>5. ASSUME NEW k \in Locals, ConnReads(k)
      PROVE  \/ up' = up
             \/ /\ ~ Lost
                /\ \E f \in UpFrames : /\ up' = Append(up, f) /\ f.kind = "data"
                                       /\ f.says = <<k, Len(sent["up"][k]) + 1>>
  <2>. DEFINE x == <<k, Len(sent["up"][k]) + 1>>
              f == Frame("data", chOf[k], x)
  <2>1. chOf[k] \in UsbIds /\ x \in Locals \X Nat
    BY <1>5 DEF ConnReads, IdsInv, IdsSpent, FlowInv
  <2>2. f \in UpFrames /\ f.kind = "data" /\ f.says = x
    BY <2>1 DEF Frame, UpFrames, Said
  <2>3. up' = IF Lost THEN up ELSE Append(up, f)
    BY <1>5, ClientEffect
  <2>. HIDE DEF f
  <2>. QED BY <2>2, <2>3
<1>6. ASSUME NEW k \in Locals, ConnStep(k), ~ ForwardConn(k), ~ ConnEnds(k), ~ ConnReads(k)
      PROVE  up' = up
  BY <1>6, ClientEffect DEF ConnStep, Conn
<1>. QED BY <1>1, <1>2, <1>3, <1>4, <1>5, <1>6, StepsOfNext

LEMMA UpFlowStep ==
  ASSUME IdsInv, SP!IndInv, WireInv, Next, NEW k \in Locals
  PROVE  UpFlow(k)'
<1>. DEFINE g == Len(got["up"][k])
            s == Len(sent["up"][k])
            gone == k \in refused \cup RemoteClosed
<1>. FlowInv /\ LinkInv
  BY DEF WireInv
<1>0. /\ up \in Seq(UpFrames) /\ g \in Nat /\ s \in Nat
      /\ sent \in [{"up", "down"} -> [Locals -> Seq(Payloads)]]
      /\ got \in [{"up", "down"} -> [Locals -> Seq(Payloads)]]
  BY DEF IdsInv, IdTypes, FlowInv
<1>1. Carries(up, k, g, s) /\ (gone \/ NoGaps(up, k, g)) /\ (Lost \/ gone \/ Complete(up, k, g, s))
  BY DEF FlowInv, UpFlow
<1>2. (gone => k \in refused' \cup RemoteClosed') /\ (Lost => Lost')
  BY Monotone, PumpsStay DEF WireInv, Grows
<1>3. ASSUME NEW h \in Nat, NEW t \in Nat, h = Len(got'["up"][k]), t = Len(sent'["up"][k]),
             Carries(up', k, h, t), gone \/ NoGaps(up', k, h), Lost \/ gone \/ Complete(up', k, h, t)
      PROVE  UpFlow(k)'
  BY <1>2, <1>3 DEF UpFlow
<1>. HIDE DEF gone
<1>4. CASE ReceivesData
  <2>1. PICK j \in Forwarded, x \in Locals \X Nat :
           /\ up # << >> /\ up' = Tail(up) /\ UNCHANGED <<down, sent>>
           /\ Head(up).kind = "data" /\ Head(up).says = x /\ x[1] = j
           /\ \/ j \in refused \cup RemoteClosed /\ got' = got
              \/ /\ j \in Reached \ RemoteClosed
                 /\ x = <<j, Len(got["up"][j]) + 1>> /\ x \in Payloads
                 /\ Len(got["up"][j]) + 1 \in 1 .. Len(sent["up"][j])
                 /\ got' = [got EXCEPT !["up"][j] = Append(@, x)]
    BY <1>4, ReceivesPiece
  <2>2. CASE j # k
    <3>1. ~ IsData(Head(up), k)
      BY <2>1, <2>2 DEF IsData
    <3>2. Len(got'["up"][k]) = g /\ Len(sent'["up"][k]) = s
      BY <1>0, <2>1, <2>2
    <3>. HIDE DEF g, s
    <3>3. /\ Carries(up', k, g, s)
          /\ NoGaps(up, k, g) => NoGaps(up', k, g)
          /\ Complete(up, k, g, s) => Complete(up', k, g, s)
      BY ONLY <1>0, <1>1, <2>1, <3>1, OtherFrames
    <3>. QED BY <1>0, <1>1, <1>3, <3>2, <3>3
  <2>3. CASE j = k /\ got' = got
    <3>1. gone
      BY <1>0, <2>1, <2>3, AppendLonger DEF gone
    <3>2. Len(got'["up"][k]) = g /\ Len(sent'["up"][k]) = s
      BY <2>1, <2>3
    <3>3. Carries(up', k, g, s)
      BY <1>0, <1>1, <2>1, TailOther
    <3>. HIDE DEF g, s
    <3>. QED BY <1>0, <1>3, <3>1, <3>2, <3>3
  <2>4. CASE j = k /\ got' # got
    <3>1. IsData(Head(up), k) /\ ~ gone
      <4>1. IsData(Head(up), k)
        BY <2>1, <2>4 DEF IsData
      <4>2. k \in Reached \ RemoteClosed
        BY <2>1, <2>4
      <4>3. k \notin refused
        BY <4>2 DEF WireInv, PumpsInv, Reached
      <4>. QED BY <4>1, <4>2, <4>3 DEF gone
    <3>2. Len(got'["up"][k]) = g + 1 /\ Len(sent'["up"][k]) = s /\ g + 1 \in Nat
      <4>1. got'["up"][k] = Append(got["up"][k], x) /\ x \in Payloads /\ got["up"][k] \in Seq(Payloads)
        BY <1>0, <2>1, <2>4
      <4>2. Len(got'["up"][k]) = g + 1
        BY ONLY <4>1, AppendProperties
      <4>. QED BY <1>0, <2>1, <4>2
    <3>3. /\ Carries(up', k, g + 1, s) /\ NoGaps(up', k, g + 1)
          /\ Complete(up, k, g, s) => Complete(up', k, g + 1, s)
      BY <1>0, <1>1, <2>1, <3>1, TailPiece
    <3>. HIDE DEF g, s
    <3>. QED BY <1>0, <1>1, <1>3, <3>1, <3>2, <3>3
  <2>. QED BY <2>2, <2>3, <2>4
<1>5. CASE ~ ReceivesData /\ Len(sent'["up"][k]) = s
  <2>1. Len(got'["up"][k]) = g
    <3>1. CASE TakesData
      BY <1>0, <3>1, TakesPiece
    <3>. QED BY <1>5, <3>1, SendsPiece
  <2>2. \/ up' = up
        \/ \E f \in UpFrames : up' = Append(up, f) /\ ~ IsData(f, k)
        \/ up # << >> /\ up' = Tail(up) /\ ~ IsData(Head(up), k)
    <3>1. ASSUME NEW f \in UpFrames, NEW j \in Locals, ConnReads(j), f.kind = "data",
                 f.says = <<j, Len(sent["up"][j]) + 1>>
          PROVE  ~ IsData(f, k)
      <4>1. CASE j = k
        <5>1. sent'["up"][k] = Append(sent["up"][k], <<k, s + 1>>)
          BY <1>0, <3>1, <4>1 DEF ConnReads
        <5>2. sent["up"][k] \in Seq(Payloads \cup {<<k, s + 1>>})
          BY <1>0
        <5>3. Len(sent'["up"][k]) = s + 1
          BY ONLY <5>1, <5>2, AppendProperties
        <5>. QED BY <1>0, <1>5, <5>3
      <4>2. CASE j # k
        BY <3>1, <4>2 DEF IsData
      <4>. QED BY <4>1, <4>2
    <3>. QED BY <1>5, <3>1, UpMoves DEF IsData
  <2>. HIDE DEF g, s
  <2>3. /\ Carries(up', k, g, s)
        /\ NoGaps(up, k, g) => NoGaps(up', k, g)
        /\ Complete(up, k, g, s) => Complete(up', k, g, s)
    BY ONLY <1>0, <1>1, <2>2, OtherFrames
  <2>. QED BY <1>0, <1>1, <1>3, <1>5, <2>1, <2>3
<1>6. CASE ~ ReceivesData /\ Len(sent'["up"][k]) # s
  <2>1. PICK x \in Payloads :
           /\ got' = got /\ ConnReads(k)
           /\ x = <<k, s + 1>> /\ sent' = [sent EXCEPT !["up"][k] = Append(@, x)]
    <3>1. PICK d \in {"up", "down"}, j \in Locals, x \in Payloads :
            /\ got' = got /\ x = <<j, Len(sent[d][j]) + 1>>
            /\ sent' = [sent EXCEPT ![d][j] = Append(@, x)]
            /\ d = "up" => ConnReads(j)
      BY <1>6, SendsPiece
    <3>2. d = "up" /\ j = k
      BY <1>0, <1>6, <3>1
    <3>. QED BY <3>1, <3>2
  <2>2. Len(sent'["up"][k]) = s + 1 /\ Len(got'["up"][k]) = g /\ s + 1 \in Nat
    <3>1. sent'["up"][k] = Append(sent["up"][k], x) /\ sent["up"][k] \in Seq(Payloads)
      BY <1>0, <2>1
    <3>2. Len(sent'["up"][k]) = s + 1
      BY ONLY <3>1, AppendProperties
    <3>. QED BY <1>0, <2>1, <3>2
  <2>3. up' = IF Lost THEN up ELSE Append(up, Frame("data", chOf[k], x))
    BY <2>1, ClientEffect
  <2>4. CASE Lost
    <3>1. Carries(up, k, g, s + 1)
      BY <1>0, <1>1 DEF Carries
    <3>. HIDE DEF g, s
    <3>. QED BY <1>0, <1>1, <1>3, <2>2, <2>3, <2>4, <3>1
  <2>5. CASE ~ Lost
    <3>. DEFINE f == Frame("data", chOf[k], x)
    <3>1. chOf[k] \in UsbIds /\ x \in Locals \X Nat
      BY <1>0, <2>1 DEF ConnReads, IdsInv, IdsSpent
    <3>2. f \in UpFrames /\ IsData(f, k) /\ f.says[2] = s + 1
      BY <2>1, <3>1 DEF Frame, UpFrames, Said, IsData
    <3>3. up' = Append(up, f)
      BY <2>3, <2>5
    <3>. HIDE DEF f, g, s
    <3>4. /\ Carries(up', k, g, s + 1)
          /\ NoGaps(up, k, g) /\ Complete(up, k, g, s) =>
               NoGaps(up', k, g) /\ Complete(up', k, g, s + 1)
      BY ONLY <1>0, <1>1, <3>2, <3>3, AppendPiece
    <3>. QED BY <1>0, <1>1, <1>3, <2>2, <2>5, <3>4
  <2>. QED BY <2>4, <2>5
<1>. QED BY <1>4, <1>5, <1>6

\* The frames that a step puts on their way to the client.
LEMMA DownMoves ==
  ASSUME IdsInv, SP!IndInv, WireInv, Next, ~ TakesData, ~ CleansUp, ~ NetworkFails
  PROVE  \/ down' = down
         \/ TakesClose /\ down # << >> /\ down' = Tail(down) /\ Head(down).kind # "data"
         \/ /\ ~ Lost
            /\ \E f \in DownFrames :
                 /\ down' = Append(down, f)
                 /\ \/ f.kind # "data" /\ UNCHANGED <<sent, got>>
                    \/ \E p \in Pumps : /\ PumpReads(p) /\ f.kind = "data" /\ serves[p] \in Locals
                                        /\ f.says = <<serves[p], Len(sent["down"][serves[p]]) + 1>>
<1>. LinkInv /\ FlowInv /\ PumpsInv /\ UpInv /\ NoConn \notin Locals /\ Forwarded \subseteq Locals
  BY TunnelAssumption DEF WireInv, Forwarded
<1>1. CASE ServerRuns \/ ReceivesData \/ ReceivesClose
  BY <1>1, RunsEffect, ReceivesEffect
<1>2. CASE ReceivesOpen
  <2>. DEFINE f == Frame("close", Head(up).ch, Head(up).says)
  <2>1. f \in DownFrames /\ f.kind = "close"
    BY <1>2, ReceivesEffect DEF Frame, UpFrames, DownFrames
  <2>2. down' = down \/ (down' = Append(down, f) /\ ~ Lost)
    BY <1>2, ReceivesEffect DEF ServerWrites
  <2>3. UNCHANGED <<sent, got>>
    BY <1>2 DEF ReceivesOpen
  <2>. HIDE DEF f
  <2>. QED BY <2>1, <2>2, <2>3
<1>3. CASE Opens
  <2>. DEFINE f == Frame("close", pending[Session], opener)
  <2>1. opener \in Locals /\ pending[Session] \in UsbIds
    <3>1. phase[Session] = "opening"
      BY <1>3, OpensEffect
    <3>2. SP!OpeningInv
      BY DEF SP!IndInv, SP!ChannelInv, SP!SessionInv
    <3>3. pending[Session] \in UsbIds
      BY <3>1, <3>2 DEF SP!OpeningInv
    <3>. QED BY <3>1, <3>3 DEF PumpsInv
  <2>2. f \in DownFrames /\ f.kind = "close"
    BY <2>1 DEF Frame, DownFrames, Said
  <2>3. down' = down \/ (down' = Append(down, f) /\ ~ Lost)
    BY <1>3, OpensEffect DEF ServerWrites
  <2>4. UNCHANGED <<sent, got>>
    BY <1>3, OpensEffect
  <2>. HIDE DEF f
  <2>. QED BY <2>2, <2>3, <2>4
<1>4. ASSUME NEW p \in Pumps, PumpReads(p)
      PROVE  \/ down' = down
             \/ /\ ~ Lost
                /\ \E f \in DownFrames :
                     /\ down' = Append(down, f) /\ f.kind = "data" /\ serves[p] \in Locals
                     /\ f.says = <<serves[p], Len(sent["down"][serves[p]]) + 1>>
  <2>. DEFINE x == <<serves[p], Len(sent["down"][serves[p]]) + 1>>
              f == Frame("data", pumpCh[p], x)
  <2>1. pumpState[p] = "reading" /\ serves[p] \in Locals /\ pumpCh[p] \in UsbIds
    BY <1>4, PumpEffect, ServerFacts DEF PumpsInv
  <2>2. x \in Locals \X Nat
    BY <2>1 DEF FlowInv
  <2>3. f \in DownFrames /\ f.kind = "data" /\ f.says = x
    BY <2>1, <2>2 DEF Frame, DownFrames, Said
  <2>4. down' = IF Lost THEN down ELSE Append(down, f)
    BY <1>4, PumpEffect DEF ServerWrites
  <2>. HIDE DEF f
  <2>. QED BY <2>1, <2>3, <2>4
<1>5. ASSUME NEW p \in Pumps, PumpEnds(p) \/ PumpInterrupted(p)
      PROVE  \/ down' = down
             \/ /\ ~ Lost
                /\ \E f \in DownFrames : down' = Append(down, f) /\ f.kind # "data" /\ UNCHANGED <<sent, got>>
  <2>. DEFINE f == Frame("close", pumpCh[p], serves[p])
  <2>1. pumpState[p] # "free" /\ serves[p] \in Locals /\ pumpCh[p] \in UsbIds
    BY <1>5, PumpEffect, ServerFacts DEF PumpsInv
  <2>2. f \in DownFrames /\ f.kind = "close"
    BY <2>1 DEF Frame, DownFrames, Said
  <2>3. (down' = IF Lost THEN down ELSE Append(down, f)) /\ UNCHANGED <<sent, got>>
    BY <1>5, PumpEffect DEF ServerWrites
  <2>. HIDE DEF f
  <2>. QED BY <2>2, <2>3
<1>6. ASSUME NEW p \in Pumps, PumpGoesOn(p) PROVE down' = down
  BY <1>6, PumpEffect
<1>7. CASE TakesClose
  BY <1>7 DEF TakesClose, Takes
<1>8. CASE ClientRuns
  BY <1>8 DEF ClientRuns
<1>9. ASSUME NEW k \in Locals, ConnStep(k) PROVE down' = down
  BY <1>9 DEF ConnStep, Accept, ForwardConn, ForwardFails, OpenSent, ConnEnds, ConnFinishes,
              AsyncioCloses, ToolHangsUp, ConnReads, ConnDropped
<1>. QED BY <1>1, <1>2, <1>3, <1>4, <1>5, <1>6, <1>7, <1>8, <1>9, StepsOfNext
         DEF ServerStep, LoopStep

LEMMA DownFlowStep ==
  ASSUME IdsInv, SP!IndInv, WireInv, Next, NEW k \in Locals
  PROVE  DownFlow(k)'
<1>. DEFINE g == Len(got["down"][k])
            s == Len(sent["down"][k])
            gone == k \in localClosed
<1>. FlowInv /\ LinkInv
  BY DEF WireInv
<1>0. /\ down \in Seq(DownFrames) /\ g \in Nat /\ s \in Nat
      /\ sent \in [{"up", "down"} -> [Locals -> Seq(Payloads)]]
      /\ got \in [{"up", "down"} -> [Locals -> Seq(Payloads)]]
  BY DEF WireInv, DownInv, FlowInv
<1>1. Carries(down, k, g, s) /\ (gone \/ NoGaps(down, k, g)) /\ (Lost \/ gone \/ Complete(down, k, g, s))
  BY DEF FlowInv, DownFlow
<1>2. (gone => k \in localClosed') /\ (Lost => Lost')
  BY Monotone DEF WireInv, Grows
<1>3. ASSUME NEW h \in Nat, NEW t \in Nat, h = Len(got'["down"][k]), t = Len(sent'["down"][k]),
             Carries(down', k, h, t), gone \/ NoGaps(down', k, h), Lost \/ gone \/ Complete(down', k, h, t)
      PROVE  DownFlow(k)'
  BY <1>2, <1>3 DEF DownFlow
<1>. HIDE DEF gone
<1>4. CASE TakesData
  <2>1. PICK j \in Forwarded, x \in Locals \X Nat :
           /\ down # << >> /\ down' = Tail(down) /\ UNCHANGED <<up, sent>>
           /\ Head(down).kind = "data" /\ Head(down).says = x /\ x[1] = j
           /\ \/ j \in localClosed /\ got' = got
              \/ /\ j \notin localClosed
                 /\ x = <<j, Len(got["down"][j]) + 1>> /\ x \in Payloads
                 /\ Len(got["down"][j]) + 1 \in 1 .. Len(sent["down"][j])
                 /\ got' = [got EXCEPT !["down"][j] = Append(@, x)]
    BY <1>4, TakesPiece
  <2>2. CASE j # k
    <3>1. ~ IsData(Head(down), k)
      BY <2>1, <2>2 DEF IsData
    <3>2. Len(got'["down"][k]) = g /\ Len(sent'["down"][k]) = s
      BY <1>0, <2>1, <2>2
    <3>. HIDE DEF g, s
    <3>3. /\ Carries(down', k, g, s)
          /\ NoGaps(down, k, g) => NoGaps(down', k, g)
          /\ Complete(down, k, g, s) => Complete(down', k, g, s)
      BY ONLY <1>0, <1>1, <2>1, <3>1, OtherFrames
    <3>. QED BY <1>0, <1>1, <1>3, <3>2, <3>3
  <2>3. CASE j = k /\ got' = got
    <3>1. gone
      BY <1>0, <2>1, <2>3, AppendLonger DEF gone
    <3>2. Len(got'["down"][k]) = g /\ Len(sent'["down"][k]) = s
      BY <2>1, <2>3
    <3>3. Carries(down', k, g, s)
      BY <1>0, <1>1, <2>1, TailOther
    <3>. HIDE DEF g, s
    <3>. QED BY <1>0, <1>3, <3>1, <3>2, <3>3
  <2>4. CASE j = k /\ got' # got
    <3>1. IsData(Head(down), k) /\ ~ gone
      BY <2>1, <2>4 DEF IsData, gone
    <3>2. Len(got'["down"][k]) = g + 1 /\ Len(sent'["down"][k]) = s /\ g + 1 \in Nat
      <4>1. got'["down"][k] = Append(got["down"][k], x) /\ x \in Payloads /\ got["down"][k] \in Seq(Payloads)
        BY <1>0, <2>1, <2>4
      <4>2. Len(got'["down"][k]) = g + 1
        BY ONLY <4>1, AppendProperties
      <4>. QED BY <1>0, <2>1, <4>2
    <3>3. /\ Carries(down', k, g + 1, s) /\ NoGaps(down', k, g + 1)
          /\ Complete(down, k, g, s) => Complete(down', k, g + 1, s)
      BY <1>0, <1>1, <2>1, <3>1, TailPiece
    <3>. HIDE DEF g, s
    <3>. QED BY <1>0, <1>1, <1>3, <3>1, <3>2, <3>3
  <2>. QED BY <2>2, <2>3, <2>4
<1>5. CASE CleansUp \/ NetworkFails
  <2>1. down' = << >> /\ Lost' /\ UNCHANGED <<sent, got>>
    BY <1>5, LosesEffect
  <2>2. Len(got'["down"][k]) = g /\ Len(sent'["down"][k]) = s /\ g <= s
    BY <1>1, <2>1 DEF Carries
  <2>3. Carries(down', k, g, s) /\ NoGaps(down', k, g)
    BY <2>1, <2>2 DEF Carries, NoGaps
  <2>. HIDE DEF g, s
  <2>. QED BY <1>2, <2>1, <2>2, <2>3 DEF DownFlow
<1>6. CASE ~ TakesData /\ ~ CleansUp /\ ~ NetworkFails /\ Len(sent'["down"][k]) = s
  <2>1. Len(got'["down"][k]) = g
    <3>1. CASE ReceivesData
      BY <1>0, <3>1, ReceivesPiece
    <3>. QED BY <1>6, <3>1, SendsPiece
  <2>2. \/ down' = down
        \/ \E f \in DownFrames : down' = Append(down, f) /\ ~ IsData(f, k)
        \/ down # << >> /\ down' = Tail(down) /\ ~ IsData(Head(down), k)
    <3>1. ASSUME NEW f \in DownFrames, NEW p \in Pumps, PumpReads(p), f.kind = "data",
                 serves[p] \in Locals, f.says = <<serves[p], Len(sent["down"][serves[p]]) + 1>>
          PROVE  ~ IsData(f, k)
      <4>1. CASE serves[p] = k
        <5>1. sent'["down"][k] = Append(sent["down"][k], <<k, s + 1>>)
          <6>1. sent' = [sent EXCEPT !["down"][serves[p]] =
                            Append(@, <<serves[p], Len(sent["down"][serves[p]]) + 1>>)]
            BY <3>1, PumpEffect
          <6>. QED BY <1>0, <4>1, <6>1
        <5>2. sent["down"][k] \in Seq(Payloads \cup {<<k, s + 1>>})
          BY <1>0
        <5>3. Len(sent'["down"][k]) = s + 1
          BY ONLY <5>1, <5>2, AppendProperties
        <5>. QED BY <1>0, <1>6, <5>3
      <4>2. CASE serves[p] # k
        BY <3>1, <4>2 DEF IsData
      <4>. QED BY <4>1, <4>2
    <3>. QED BY <1>6, <3>1, DownMoves DEF IsData
  <2>. HIDE DEF g, s
  <2>3. /\ Carries(down', k, g, s)
        /\ NoGaps(down, k, g) => NoGaps(down', k, g)
        /\ Complete(down, k, g, s) => Complete(down', k, g, s)
    BY ONLY <1>0, <1>1, <2>2, OtherFrames
  <2>. QED BY <1>0, <1>1, <1>3, <1>6, <2>1, <2>3
<1>7. CASE ~ TakesData /\ ~ CleansUp /\ ~ NetworkFails /\ Len(sent'["down"][k]) # s
  <2>1. PICK x \in Payloads, p \in Pumps :
           /\ got' = got /\ PumpReads(p) /\ serves[p] = k
           /\ x = <<k, s + 1>> /\ sent' = [sent EXCEPT !["down"][k] = Append(@, x)]
    <3>1. PICK d \in {"up", "down"}, j \in Locals, x \in Payloads :
            /\ got' = got /\ x = <<j, Len(sent[d][j]) + 1>>
            /\ sent' = [sent EXCEPT ![d][j] = Append(@, x)]
            /\ d = "down" => \E p \in Pumps : serves[p] = j /\ PumpReads(p)
      BY <1>7, SendsPiece
    <3>2. d = "down" /\ j = k
      BY <1>0, <1>7, <3>1
    <3>. QED BY <3>1, <3>2
  <2>2. Len(sent'["down"][k]) = s + 1 /\ Len(got'["down"][k]) = g /\ s + 1 \in Nat
    <3>1. sent'["down"][k] = Append(sent["down"][k], x) /\ sent["down"][k] \in Seq(Payloads)
      BY <1>0, <2>1
    <3>2. Len(sent'["down"][k]) = s + 1
      BY ONLY <3>1, AppendProperties
    <3>. QED BY <1>0, <2>1, <3>2
  <2>3. down' = IF Lost THEN down ELSE Append(down, Frame("data", pumpCh[p], x))
    BY <2>1, PumpEffect DEF ServerWrites
  <2>4. CASE Lost
    <3>1. Carries(down, k, g, s + 1)
      BY <1>0, <1>1 DEF Carries
    <3>. HIDE DEF g, s
    <3>. QED BY <1>0, <1>1, <1>3, <2>2, <2>3, <2>4, <3>1
  <2>5. CASE ~ Lost
    <3>. DEFINE f == Frame("data", pumpCh[p], x)
    <3>1. pumpCh[p] \in UsbIds /\ x \in Locals \X Nat
      <4>1. pumpState[p] = "reading"
        BY <2>1, PumpEffect
      <4>. QED BY <1>0, <2>1, <4>1, ServerFacts
    <3>2. f \in DownFrames /\ IsData(f, k) /\ f.says[2] = s + 1
      BY <2>1, <3>1 DEF Frame, DownFrames, Said, IsData
    <3>3. down' = Append(down, f)
      BY <2>3, <2>5
    <3>. HIDE DEF f, g, s
    <3>4. /\ Carries(down', k, g, s + 1)
          /\ NoGaps(down, k, g) /\ Complete(down, k, g, s) =>
               NoGaps(down', k, g) /\ Complete(down', k, g, s + 1)
      BY ONLY <1>0, <1>1, <3>2, <3>3, AppendPiece
    <3>. QED BY <1>0, <1>1, <1>3, <2>2, <2>5, <3>4
  <2>. QED BY <2>4, <2>5
<1>. QED BY <1>4, <1>5, <1>6, <1>7

LEMMA FlowStep ==
  ASSUME IdsInv, SP!IndInv, WireInv, Next
  PROVE  FlowInv'
<1>1. \A k \in Locals : UpFlow(k)' /\ DownFlow(k)'
  BY UpFlowStep, DownFlowStep
<1>. QED BY <1>1, HistoriesStep DEF FlowInv

LEMMA WireInit == Init => WireInv
<1>. SUFFICES ASSUME Init PROVE WireInv
  OBVIOUS
<1>. USE TunnelAssumption
<1>1. /\ phase[Session] = "idle" /\ conn[Session] = "none"
      /\ pumpState = [p \in Pumps |-> "free"] /\ sockets = {}
  BY DEF Init, S!Init
<1>2. /\ up = << >> /\ down = << >> /\ nextCh = Base
      /\ connPc = [k \in Locals |-> "none"] /\ chOf = [k \in Locals |-> NoId]
      /\ held = {} /\ accepted = {} /\ refused = {} /\ toolDone = {} /\ usbipdDone = {} /\ localClosed = {}
      /\ cli = "off" /\ opener = NoConn /\ serves = [p \in Pumps |-> NoConn]
      /\ sent = [d \in {"up", "down"} |-> [k \in Locals |-> << >>]] /\ got = sent
  BY DEF Init
<1>3. Forwarded = {} /\ Reached = {} /\ RemoteClosed = {} /\ Cardinality({}) = 0 /\ IsFiniteSet({})
  BY <1>2, FS_EmptySet DEF Forwarded, Reached, RemoteClosed
<1>4. ConnsInv
  BY <1>2, <1>3 DEF ConnsInv
<1>5. EndsInv
  BY <1>1, <1>2, <1>3 DEF EndsInv
<1>6. PumpsInv
  BY <1>1, <1>2, <1>3 DEF PumpsInv
<1>7. UpInv
  BY <1>2, <1>3 DEF UpInv, LastIsClose
<1>8. DownInv
  BY <1>2, <1>3 DEF DownInv, LastIsClose
<1>9. FlowInv
  BY <1>2, <1>3 DEF FlowInv, UpFlow, DownFlow, Carries, NoGaps, Complete, Numbered
<1>. QED BY <1>1, <1>4, <1>5, <1>6, <1>7, <1>8, <1>9 DEF WireInv, LinkInv

LEMMA WireNext == IdsInv /\ SP!IndInv /\ WireInv /\ [Next]_vars => WireInv'
<1>. SUFFICES ASSUME IdsInv, SP!IndInv, WireInv, [Next]_vars PROVE WireInv'
  OBVIOUS
<1>1. CASE Next
  <2>1. LinkInv'
    BY <1>1, Monotone DEF WireInv, Grows
  <2>. QED BY <1>1, <2>1, ConnsStep, EndsStep, PumpsStep, UpStep, DownStep, FlowStep DEF WireInv
<1>2. CASE UNCHANGED vars
  BY <1>2 DEF vars, serverVars, clientVars, openVars, endVars, WireInv, LinkInv, ConnsInv, EndsInv,
              PumpsInv, UpInv, DownInv, FlowInv, UpFlow, DownFlow, Forwarded, Reached, RemoteClosed,
              Named, Asked, OpenIsUnderWay, Quiet, Lost, LastIsClose, Owner
<1>. QED BY <1>1, <1>2

\* What the wires carry, always.
LEMMA WireInvariant == Spec => []WireInv
<1>1. Init => IdsInv /\ WireInv
  BY InitIds, WireInit
<1>2. IdsInv /\ [Next]_vars => IdsInv'
  BY NextIds
<1>. QED BY <1>1, <1>2, WireNext, ServerInvariant, PTL DEF Spec

-----------------------------------------------------------------------------
(* The tunnel implements Forwarding.                                        *)

LEMMA ForwardsInit == Init => F!Init
<1>. SUFFICES ASSUME Init PROVE F!Init
  OBVIOUS
<1>1. Reached = {} /\ RemoteClosed = {}
  BY DEF Init, Reached, RemoteClosed
<1>2. conn[Session] = "none"
  BY DEF Init, S!Init
<1>3. /\ accepted = {} /\ refused = {} /\ toolDone = {} /\ usbipdDone = {} /\ localClosed = {}
      /\ sent = [d \in {"up", "down"} |-> [k \in Locals |-> << >>]] /\ got = sent
  BY DEF Init
<1>. QED BY <1>1, <1>2, <1>3 DEF F!Init, F!Directions, RemoteClosed

\* What Forwarding sees of a step, besides the data.
Peers == <<accepted, Reached, refused, toolDone, usbipdDone>>

LEMMA Unseen ==
  ASSUME UNCHANGED <<Peers, localClosed, RemoteClosed, sent, got>>, Lost' <=> Lost
  PROVE  UNCHANGED F!vars
<1>1. (conn[Session] = "lost")' = (conn[Session] = "lost")
  BY DEF Lost
<1>. QED BY <1>1 DEF F!vars, F!peerVars, F!closeVars, Peers, RemoteClosed

LEMMA Loses ==
  ASSUME UNCHANGED <<Peers, sent, got>>, Lost',
         localClosed \subseteq localClosed', localClosed' \subseteq accepted,
         RemoteClosed \subseteq RemoteClosed', RemoteClosed' \subseteq Reached
  PROVE  F!Next
<1>1. conn'[Session] = "lost"
  BY DEF Lost
<1>2. F!Lose
  BY <1>1 DEF F!Lose, F!peerVars, Peers, RemoteClosed
<1>. QED BY <1>2 DEF F!Next

LEMMA Refuses ==
  ASSUME NEW k \in Locals, k \in accepted \ (Reached \cup refused), refused' = refused \cup {k},
         UNCHANGED <<accepted, Reached, toolDone, usbipdDone, localClosed, RemoteClosed, conn, sent, got>>
  PROVE  F!Next
<1>1. F!Refuse(k)
  BY DEF F!Refuse, F!closeVars, RemoteClosed
<1>. QED BY <1>1 DEF F!Next

LEMMA ClosesLocal ==
  ASSUME NEW k \in Locals, k \in accepted, localClosed' = localClosed \cup {k},
         Lost \/ F!MayCloseLocal(k),
         UNCHANGED <<Peers, RemoteClosed, conn, sent, got>>
  PROVE  F!Next
<1>1. F!CloseLocal(k)
  BY DEF F!CloseLocal, F!peerVars, Peers, RemoteClosed, Lost
<1>. QED BY <1>1 DEF F!Next

LEMMA ClosesRemote ==
  ASSUME NEW k \in Locals, k \in Reached, RemoteClosed' = RemoteClosed \cup {k},
         Lost \/ F!MayCloseRemote(k),
         UNCHANGED <<Peers, localClosed, conn, sent, got>>
  PROVE  F!Next
<1>1. F!CloseRemote(k)
  BY DEF F!CloseRemote, F!peerVars, Peers, RemoteClosed, Lost
<1>. QED BY <1>1 DEF F!Next

\* When every piece has come out, what came out is what was sent.
LEMMA SameWhenOut ==
  ASSUME FlowInv, NEW d \in {"up", "down"}, NEW k \in Locals, Len(got[d][k]) = Len(sent[d][k])
  PROVE  got[d][k] = sent[d][k]
<1>1. got[d][k] \in Seq(Payloads) /\ sent[d][k] \in Seq(Payloads)
  BY DEF FlowInv
<1>2. /\ \A n \in 1 .. Len(got[d][k]) : got[d][k][n] = <<k, n>>
      /\ \A n \in 1 .. Len(sent[d][k]) : sent[d][k][n] = <<k, n>>
  BY DEF FlowInv, Numbered
<1>3. \A n \in 1 .. Len(got[d][k]) : got[d][k][n] = sent[d][k][n]
  BY <1>2
<1>. QED BY ONLY <1>1, <1>3, Len(got[d][k]) = Len(sent[d][k]), SeqEqual

\* The steps of the tunnel that end a session, or that Forwarding does not see.
LEMMA ForwardsEnds ==
  ASSUME IdsInv, SP!IndInv, WireInv, Next, ServerRuns \/ CleansUp \/ NetworkFails
  PROVE  [F!Next]_(F!vars)
<1>. ConnsInv /\ EndsInv /\ PumpsInv /\ LinkInv
  BY DEF WireInv
<1>1. UNCHANGED <<Peers, serves, sent, got>>
  <2>1. UNCHANGED <<accepted, serves, refused, toolDone, usbipdDone, sent, got>>
    BY RunsEffect, LosesEffect DEF Tunnels
  <2>. QED BY <2>1 DEF Peers, Reached
<1>2. localClosed' = localClosed \/ localClosed' = localClosed \cup held
  BY RunsEffect, LosesEffect DEF Tunnels
<1>3. localClosed \subseteq localClosed' /\ localClosed' \subseteq accepted
  BY <1>2, ForwardedFinite DEF ConnsInv, EndsInv
<1>4. RemoteClosed \subseteq RemoteClosed' /\ RemoteClosed' \subseteq Reached
  <2>1. RemoteClosed' \subseteq Reached'
    BY DEF RemoteClosed, Reached
  <2>. QED BY <1>1, <2>1, PumpsStay DEF Peers
<1>5. CASE Lost'
  BY <1>1, <1>3, <1>4, <1>5, Loses
<1>6. CASE ~ Lost'
  <2>1. ServerRuns /\ ~ Lost /\ sockets' = sockets /\ localClosed' = localClosed
    BY <1>6, RunsEffect, LosesEffect DEF Ending, Tunnels
  <2>2. RemoteClosed' = RemoteClosed
    BY <1>1, <2>1 DEF RemoteClosed
  <2>. QED BY <1>1, <1>6, <2>1, <2>2, Unseen
<1>. QED BY <1>5, <1>6

\* What the steps that are about one end see.
LEMMA SameEnds ==
  ASSUME UNCHANGED <<serves, sockets>>
  PROVE  Reached' = Reached /\ RemoteClosed' = RemoteClosed
  BY DEF Reached, RemoteClosed

LEMMA ForwardsOpens ==
  ASSUME IdsInv, SP!IndInv, WireInv, Opens
  PROVE  [F!Next]_(F!vars)
<1>. EndsInv /\ PumpsInv /\ LinkInv /\ ConnsInv
  BY DEF WireInv
<1>1. /\ opener \in Forwarded \ (Reached \cup refused) /\ opener \in Locals /\ opener \in accepted
      /\ opener # NoConn
  <2>1. phase[Session] = "opening"
    BY OpensEffect
  <2>. QED BY <2>1, ForwardedFinite, TunnelAssumption DEF PumpsInv, Forwarded
<1>2. UNCHANGED <<accepted, toolDone, usbipdDone, localClosed, conn, sent, got>>
  BY OpensEffect DEF Tunnels
<1>3. CASE UNCHANGED <<sockets, serves>> /\ refused' = refused \cup {opener}
  BY <1>1, <1>2, <1>3, SameEnds, Refuses
<1>4. ASSUME NEW p \in Pumps, pumpState[p] = "free", sockets' = sockets \cup {p}, refused' = refused,
             serves' = [q \in Pumps |-> IF q = p THEN opener ELSE serves[q]]
      PROVE  F!Next
  <2>1. serves[p] = NoConn /\ serves \in [Pumps -> Locals \cup {NoConn}]
    BY <1>4 DEF PumpsInv
  <2>2. Reached' = Reached \cup {opener}
    BY <1>1, <1>4, <2>1 DEF Reached
  <2>3. RemoteClosed' = RemoteClosed
    BY <1>4, <2>1 DEF RemoteClosed
  <2>4. F!Reach(opener)
    BY <1>1, <1>2, <1>4, <2>2, <2>3 DEF F!Reach, F!closeVars, RemoteClosed
  <2>. QED BY <1>1, <2>4 DEF F!Next
<1>. QED BY <1>3, <1>4, OpensEffect

\* CLOSE of a connection that hung up comes after its data.
LEMMA ForwardsReceives ==
  ASSUME IdsInv, SP!IndInv, WireInv, ReceivesOpen \/ ReceivesData \/ ReceivesClose
  PROVE  [F!Next]_(F!vars)
<1>. EndsInv /\ PumpsInv /\ LinkInv /\ ConnsInv /\ UpInv /\ FlowInv /\ Forwarded \subseteq Locals
  BY DEF WireInv, Forwarded
<1>1. UNCHANGED <<accepted, toolDone, usbipdDone, localClosed, serves, conn, sent>> /\ up # << >>
  BY ReceivesEffect DEF Tunnels
<1>2. Reached' = Reached
  BY <1>1 DEF Reached
<1>3. CASE ReceivesOpen
  <2>. DEFINE k == Head(up).says
  <2>1. k \in Locals /\ k \in accepted \ (Reached \cup refused)
    BY <1>1, <1>3, UpHead, ReceivesEffect, ForwardedFinite DEF Named, Owner
  <2>2. UNCHANGED <<sockets, got>> /\ (refused' = refused \/ refused' = refused \cup {k})
    BY <1>3, ReceivesEffect
  <2>3. RemoteClosed' = RemoteClosed
    BY <1>1, <2>2, SameEnds
  <2>4. CASE refused' = refused
    BY <1>1, <1>2, <2>2, <2>3, <2>4, Unseen DEF Peers, Lost
  <2>5. CASE refused' = refused \cup {k}
    BY <1>1, <1>2, <2>1, <2>2, <2>3, <2>5, Refuses
  <2>. QED BY <2>2, <2>4, <2>5
<1>4. CASE ReceivesData
  <2>1. UNCHANGED <<sockets, refused>>
    BY <1>4, ReceivesEffect
  <2>2. RemoteClosed' = RemoteClosed
    BY <1>1, <2>1, SameEnds
  <2>3. PICK k \in Forwarded, x \in Locals \X Nat :
           \/ got' = got
           \/ /\ k \in Reached \ RemoteClosed
              /\ x = <<k, Len(got["up"][k]) + 1>>
              /\ Len(got["up"][k]) + 1 \in 1 .. Len(sent["up"][k])
              /\ got' = [got EXCEPT !["up"][k] = Append(@, x)]
    BY <1>4, ReceivesPiece
  <2>4. CASE got' = got
    BY <1>1, <1>2, <2>1, <2>2, <2>4, Unseen DEF Peers, Lost
  <2>5. CASE got' # got
    <3>1. x = sent["up"][k][Len(got["up"][k]) + 1]
      <4>1. \A n \in 1 .. Len(sent["up"][k]) : sent["up"][k][n] = <<k, n>>
        BY DEF FlowInv, Numbered
      <4>. QED BY <2>3, <2>5, <4>1
    <3>2. Len(got["up"][k]) < Len(sent["up"][k])
      <4>1. Len(got["up"][k]) \in Nat /\ Len(sent["up"][k]) \in Nat
        BY DEF FlowInv
      <4>. QED BY <2>3, <2>5, <4>1
    <3>3. F!Deliver("up", k)
      BY <1>1, <1>2, <2>1, <2>2, <2>3, <2>5, <3>1, <3>2
         DEF F!Deliver, F!Receivers, F!peerVars, F!closeVars, RemoteClosed
    <3>. QED BY <3>3 DEF F!Next, F!Directions
  <2>. QED BY <2>4, <2>5
<1>5. CASE ReceivesClose
  <2>. DEFINE k == Head(up).says
  <2>1. /\ UNCHANGED <<refused, got>> /\ Head(up).kind = "close"
        /\ sockets' = {p \in sockets : pumpCh[p] # Head(up).ch}
    BY <1>5, ReceivesEffect
  <2>2. /\ k \in Forwarded /\ Head(up).ch = chOf[k] /\ Head(up) = up[1] /\ 1 \in 1 .. Len(up)
        /\ Lost \/ k \in toolDone \cup localClosed
    BY <1>1, <2>1, UpHead DEF Named, Owner
  <2>3. CASE \A p \in sockets : pumpCh[p] # Head(up).ch
    <3>1. sockets' = sockets
      BY <2>1, <2>3
    <3>. QED BY <1>1, <1>2, <2>1, <3>1, SameEnds, Unseen DEF Peers, Lost
  <2>4. ASSUME NEW p \in sockets, pumpCh[p] = Head(up).ch PROVE F!Next
    <3>1. p \in Pumps /\ pumpState[p] # "free"
      BY ServerFacts
    <3>2. serves[p] = k /\ k \notin refused /\ \A q \in Pumps : serves[q] = k => q = p
      BY <2>2, <2>4, <3>1, OneOwner DEF PumpsInv
    <3>3. \A q \in sockets : pumpCh[q] = Head(up).ch => q = p
      BY <2>2, <3>2, ServerFacts, OneOwner
    <3>4. k \in Locals /\ k # NoConn /\ k \in Reached /\ k \notin RemoteClosed
      BY <2>2, <3>1, <3>2, TunnelAssumption DEF Reached, RemoteClosed
    <3>5. sockets' = sockets \ {p}
      BY <2>1, <2>4, <3>3
    <3>6. RemoteClosed' = RemoteClosed \cup {k}
      BY <1>1, <3>1, <3>2, <3>4, <3>5 DEF RemoteClosed
    <3>7. Lost \/ F!MayCloseRemote(k)
      <4>1. Lost \/ k \in usbipdDone \/ k \in toolDone
        BY <2>2, <3>2 DEF EndsInv
      <4>2. ASSUME ~ Lost, k \in toolDone PROVE got["up"][k] = sent["up"][k]
        <5>. DEFINE g == Len(got["up"][k])
                    s == Len(sent["up"][k])
        <5>1. g \in Nat /\ s \in Nat /\ Carries(up, k, g, s) /\ Complete(up, k, g, s)
          BY <3>2, <3>4, <4>2 DEF FlowInv, UpFlow
        <5>2. \A i \in 1 .. Len(up) : ~ IsData(up[i], k)
          BY <2>1, <2>2 DEF UpInv, LastIsClose
        <5>3. g = s
          BY ONLY <5>1, <5>2, AllOut
        <5>. QED BY <3>4, <5>3, SameWhenOut
      <4>. QED BY <4>1, <4>2 DEF F!MayCloseRemote
    <3>. QED BY <1>1, <1>2, <2>1, <3>4, <3>6, <3>7, ClosesRemote DEF Peers
  <2>. QED BY <2>3, <2>4
<1>. QED BY <1>3, <1>4, <1>5

LEMMA ForwardsPumps ==
  ASSUME IdsInv, SP!IndInv, WireInv, Next,
         NEW p \in Pumps, PumpReads(p) \/ PumpEnds(p) \/ PumpInterrupted(p) \/ PumpGoesOn(p)
  PROVE  [F!Next]_(F!vars)
<1>. PumpsInv /\ LinkInv /\ ConnsInv
  BY DEF WireInv
<1>. DEFINE k == serves[p]
<1>1. /\ UNCHANGED <<accepted, refused, toolDone, localClosed, serves, conn, got>>
      /\ pumpState[p] # "free" /\ sockets \subseteq Pumps
  BY PumpEffect, ServerFacts DEF Tunnels
<1>2. Reached' = Reached
  BY <1>1 DEF Reached
<1>3. /\ k \in Locals /\ k # NoConn /\ k \in Reached
      /\ \A q \in Pumps : serves[q] = k => q = p
  BY <1>1, TunnelAssumption DEF PumpsInv, Reached, Forwarded
<1>4. ASSUME UNCHANGED <<sockets, sent, usbipdDone>> PROVE UNCHANGED F!vars
  BY <1>1, <1>2, <1>4, SameEnds, Unseen DEF Peers, Lost
<1>5. CASE PumpReads(p)
  <2>1. pumpState[p] = "reading" /\ UNCHANGED <<sockets, usbipdDone>>
    BY <1>5, PumpEffect
  <2>2. k \in Reached \ usbipdDone
    BY <1>3, <2>1 DEF PumpsInv
  <2>3. /\ Pieces < MaxData
        /\ sent' = [sent EXCEPT !["down"][k] = Append(@, <<k, Len(sent["down"][k]) + 1>>)]
    BY <1>5, PumpEffect
  <2>4. <<k, Len(sent["down"][k]) + 1>> \in Payloads
    BY <1>3, <2>3, PieceFits DEF WireInv, Payloads
  <2>5. RemoteClosed' = RemoteClosed
    BY <1>1, <2>1, SameEnds
  <2>6. F!Send("down", k)
    BY <1>1, <1>2, <2>1, <2>2, <2>3, <2>4, <2>5
       DEF F!Send, F!Ends, F!peerVars, F!closeVars, RemoteClosed
  <2>. QED BY <1>3, <2>6 DEF F!Next, F!Directions
<1>6. CASE PumpEnds(p)
  <2>1. /\ UNCHANGED <<sockets, sent>>
        /\ usbipdDone' = usbipdDone \cup {k} \/ usbipdDone' = usbipdDone
    BY <1>6, PumpEffect
  <2>2. CASE usbipdDone' = usbipdDone
    BY <1>4, <2>1, <2>2
  <2>3. CASE usbipdDone' = usbipdDone \cup {k}
    <3>1. RemoteClosed' = RemoteClosed
      BY <1>1, <2>1, SameEnds
    <3>2. F!UsbipdHangsUp(k)
      BY <1>1, <1>2, <1>3, <2>1, <2>3, <3>1 DEF F!UsbipdHangsUp, F!closeVars, RemoteClosed
    <3>. QED BY <1>3, <3>2 DEF F!Next
  <2>. QED BY <2>1, <2>2, <2>3
<1>7. CASE PumpInterrupted(p)
  BY <1>4, <1>7, PumpEffect
<1>8. CASE PumpGoesOn(p)
  <2>1. /\ UNCHANGED <<sent, usbipdDone>>
        /\ \/ sockets' = sockets
           \/ pumpState[p] = "closing" /\ sockets' = {q \in sockets : pumpCh[q] # pumpCh[p]}
    BY <1>8, PumpEffect
  <2>2. CASE sockets' = sockets
    BY <1>4, <2>1, <2>2
  <2>3. CASE pumpState[p] = "closing" /\ sockets' = {q \in sockets : pumpCh[q] # pumpCh[p]}
    <3>1. \A q \in sockets : pumpCh[q] = pumpCh[p] => q = p
      <4>1. ASSUME NEW q \in sockets, pumpCh[q] = pumpCh[p] PROVE q = p
        <5>1. q \in Pumps /\ pumpState[q] # "free"
          BY ServerFacts
        <5>2. k \in Forwarded /\ pumpCh[p] = chOf[k]
          BY <1>1 DEF PumpsInv
        <5>3. serves[q] = k
          BY <4>1, <5>1, <5>2, OneOwner
        <5>. QED BY <1>3, <5>1, <5>3
      <4>. QED BY <4>1
    <3>2. sockets' = sockets \ {p}
      BY <2>3, <3>1
    <3>3. CASE p \notin sockets
      BY <1>4, <2>1, <3>2, <3>3
    <3>4. CASE p \in sockets
      <4>1. RemoteClosed' = RemoteClosed \cup {k}
        BY <1>1, <1>3, <3>2 DEF RemoteClosed
      <4>2. Lost \/ F!MayCloseRemote(k)
        BY <1>1, <2>3, <3>4 DEF PumpsInv, F!MayCloseRemote
      <4>. QED BY <1>1, <1>2, <1>3, <2>1, <4>1, <4>2, ClosesRemote DEF Peers
    <3>. QED BY <3>3, <3>4
  <2>. QED BY <2>1, <2>2, <2>3
<1>. QED BY <1>5, <1>6, <1>7, <1>8

\* The client's frame loop.
LEMMA ForwardsLoop ==
  ASSUME IdsInv, SP!IndInv, WireInv, LoopStep
  PROVE  [F!Next]_(F!vars)
<1>. EndsInv /\ LinkInv /\ ConnsInv /\ DownInv /\ FlowInv /\ PumpsInv /\ Forwarded \subseteq Locals
  BY DEF WireInv, Forwarded
<1>1. UNCHANGED <<accepted, refused, toolDone, usbipdDone, conn, sent>>
      /\ Reached' = Reached /\ RemoteClosed' = RemoteClosed
  <2>1. UNCHANGED <<serves, sockets, usbipdDone, conn>>
    BY ClientEffect DEF LoopStep, ClientLoop
  <2>2. UNCHANGED <<accepted, refused, toolDone, sent>>
    BY DEF LoopStep, ClientRuns, TakesData, TakesClose, clientVars, openVars, endVars
  <2>. QED BY <2>1, <2>2, SameEnds
<1>2. ASSUME UNCHANGED <<localClosed, got>> PROVE UNCHANGED F!vars
  BY <1>1, <1>2, Unseen DEF Peers, Lost
<1>3. CASE ClientRuns
  BY <1>2, <1>3 DEF ClientRuns, endVars
<1>4. CASE TakesData
  <2>1. localClosed' = localClosed
    BY <1>4 DEF TakesData, endVars
  <2>2. PICK k \in Forwarded, x \in Locals \X Nat :
           \/ got' = got
           \/ /\ k \notin localClosed
              /\ x = <<k, Len(got["down"][k]) + 1>>
              /\ Len(got["down"][k]) + 1 \in 1 .. Len(sent["down"][k])
              /\ got' = [got EXCEPT !["down"][k] = Append(@, x)]
    BY <1>4, TakesPiece
  <2>3. CASE got' = got
    BY <1>2, <2>1, <2>3
  <2>4. CASE got' # got
    <3>1. x = sent["down"][k][Len(got["down"][k]) + 1]
      <4>1. \A n \in 1 .. Len(sent["down"][k]) : sent["down"][k][n] = <<k, n>>
        BY DEF FlowInv, Numbered
      <4>. QED BY <2>2, <2>4, <4>1
    <3>2. Len(got["down"][k]) < Len(sent["down"][k])
      <4>1. Len(got["down"][k]) \in Nat /\ Len(sent["down"][k]) \in Nat
        BY DEF FlowInv
      <4>. QED BY <2>2, <2>4, <4>1
    <3>3. k \in accepted
      BY ForwardedFinite
    <3>4. F!Deliver("down", k)
      BY <1>1, <2>1, <2>2, <2>4, <3>1, <3>2, <3>3
         DEF F!Deliver, F!Receivers, F!peerVars, F!closeVars, RemoteClosed
    <3>. QED BY <3>4 DEF F!Next, F!Directions
  <2>. QED BY <2>3, <2>4
<1>5. CASE TakesClose
  <2>. DEFINE k == Head(down).says
  <2>1. /\ down # << >> /\ Head(down).kind = "close" /\ got' = got
        /\ localClosed' = localClosed \cup Under(Head(down).ch)
    BY <1>5 DEF TakesClose, Takes
  <2>2. /\ Named(Head(down)) /\ k \in Forwarded /\ Owner(Head(down)) = k
        /\ Head(down) = down[1] /\ 1 \in 1 .. Len(down)
        /\ Lost \/ k \in refused \cup toolDone \cup usbipdDone
    BY <2>1, DownHead DEF Named, Owner
  <2>3. Under(Head(down).ch) \subseteq {k}
    BY <2>2, UnderOwner
  <2>4. CASE localClosed' = localClosed
    BY <1>2, <2>1, <2>4
  <2>5. CASE localClosed' # localClosed
    <3>1. localClosed' = localClosed \cup {k} /\ k \notin localClosed
      BY <2>1, <2>3, <2>5
    <3>2. k \in accepted /\ k \in Locals
      BY <2>2, ForwardedFinite
    <3>3. ASSUME ~ Lost PROVE got["down"][k] = sent["down"][k]
      <4>. DEFINE g == Len(got["down"][k])
                  s == Len(sent["down"][k])
      <4>1. g \in Nat /\ s \in Nat /\ Carries(down, k, g, s) /\ Complete(down, k, g, s)
        BY <3>1, <3>2, <3>3 DEF FlowInv, DownFlow
      <4>2. \A i \in 1 .. Len(down) : ~ IsData(down[i], k)
        BY <2>1, <2>2 DEF DownInv, LastIsClose
      <4>3. g = s
        BY ONLY <4>1, <4>2, AllOut
      <4>. QED BY <3>2, <4>3, SameWhenOut
    <3>4. Lost \/ F!MayCloseLocal(k)
      BY <2>2, <3>3 DEF F!MayCloseLocal
    <3>. QED BY <1>1, <2>1, <3>1, <3>2, <3>4, ClosesLocal DEF Peers
  <2>. QED BY <2>4, <2>5
<1>. QED BY <1>3, <1>4, <1>5 DEF LoopStep

\* The local connections.
LEMMA ForwardsConn ==
  ASSUME IdsInv, SP!IndInv, WireInv, NEW k \in Locals, ConnStep(k)
  PROVE  [F!Next]_(F!vars)
<1>. EndsInv /\ LinkInv /\ ConnsInv /\ FlowInv /\ PumpsInv
  BY DEF WireInv
<1>1. UNCHANGED <<usbipdDone, conn>> /\ Reached' = Reached /\ RemoteClosed' = RemoteClosed
  BY ClientEffect, SameEnds DEF ConnStep, Conn
<1>2. CASE Accept(k)
  <2>1. F!Accept(k)
    BY <1>1, <1>2 DEF Accept, F!Accept, F!closeVars, RemoteClosed, endVars
  <2>. QED BY <2>1 DEF F!Next
<1>3. CASE ForwardFails(k)
  <2>1. k \notin Forwarded
    BY <1>3, ForwardStep
  <2>2. k \in accepted \ (Reached \cup refused)
    <3>1. connPc[k] = "accepted"
      BY <1>3 DEF ForwardFails
    <3>2. k \in accepted
      BY <3>1 DEF ConnsInv
    <3>. QED BY <2>1, <3>2 DEF EndsInv, PumpsInv, Reached, Forwarded
  <2>3. refused' = refused \cup {k} /\ UNCHANGED <<accepted, toolDone, localClosed, sent, got>>
    BY <1>3 DEF ForwardFails, endVars
  <2>. QED BY <1>1, <2>2, <2>3, Refuses
<1>4. CASE ForwardConn(k) \/ OpenSent(k) \/ ConnEnds(k) \/ ConnDropped(k)
  <2>1. UNCHANGED <<accepted, refused, toolDone, localClosed, sent, got>>
    BY <1>4 DEF ForwardConn, OpenSent, ConnEnds, ConnDropped, openVars, endVars
  <2>. QED BY <1>1, <2>1, Unseen DEF Peers, Lost
<1>5. CASE ConnFinishes(k) \/ AsyncioCloses(k)
  <2>1. /\ localClosed' = localClosed \cup {k} /\ UNCHANGED <<accepted, refused, toolDone, sent, got>>
        /\ connPc[k] \in {"closing", "failed"}
    BY <1>5 DEF ConnFinishes, AsyncioCloses, openVars, endVars
  <2>2. k \in accepted /\ (Lost \/ k \in refused \cup toolDone \cup localClosed)
    BY <2>1 DEF ConnsInv, EndsInv
  <2>3. CASE k \in localClosed
    BY <1>1, <2>1, <2>3, Unseen DEF Peers, Lost
  <2>4. CASE k \notin localClosed
    BY <1>1, <2>1, <2>2, <2>4, ClosesLocal DEF Peers, F!MayCloseLocal
  <2>. QED BY <2>3, <2>4
<1>6. CASE ToolHangsUp(k)
  <2>1. F!ToolHangsUp(k)
    BY <1>1, <1>6 DEF ToolHangsUp, F!ToolHangsUp, F!closeVars, RemoteClosed, openVars
  <2>. QED BY <2>1 DEF F!Next
<1>7. CASE ConnReads(k)
  <2>1. /\ UNCHANGED <<accepted, refused, toolDone, localClosed, got>> /\ Pieces < MaxData
        /\ connPc[k] = "pumping" /\ k \notin toolDone
        /\ sent' = [sent EXCEPT !["up"][k] = Append(@, <<k, Len(sent["up"][k]) + 1>>)]
    BY <1>7 DEF ConnReads, openVars, endVars, clientVars
  <2>2. <<k, Len(sent["up"][k]) + 1>> \in Payloads
    BY <2>1, PieceFits DEF Payloads
  <2>3. k \in accepted
    BY <2>1 DEF ConnsInv
  <2>4. F!Send("up", k)
    BY <1>1, <2>1, <2>2, <2>3 DEF F!Send, F!Ends, F!peerVars, F!closeVars, RemoteClosed
  <2>. QED BY <2>4 DEF F!Next, F!Directions
<1>. QED BY <1>2, <1>3, <1>4, <1>5, <1>6, <1>7 DEF ConnStep

LEMMA ForwardsNext == IdsInv /\ SP!IndInv /\ WireInv /\ [Next]_vars => [F!Next]_(F!vars)
<1>. SUFFICES ASSUME IdsInv, SP!IndInv, WireInv, [Next]_vars PROVE [F!Next]_(F!vars)
  OBVIOUS
<1>1. CASE Next
  BY <1>1, StepsOfNext, ForwardsEnds, ForwardsOpens, ForwardsReceives, ForwardsPumps, ForwardsLoop,
     ForwardsConn DEF ServerStep
<1>2. CASE UNCHANGED vars
  <2>1. UNCHANGED <<Peers, localClosed, RemoteClosed, sent, got>> /\ (Lost' <=> Lost)
    BY <1>2 DEF vars, serverVars, clientVars, openVars, endVars, Peers, Reached, RemoteClosed, Lost
  <2>. QED BY <2>1, Unseen
<1>. QED BY <1>1, <1>2

\* Ids, channels, two frame loops and four kinds of tasks implement what Forwarding
\* promises: every local connection is joined to a usbipd connection of its own, data
\* comes out as it went in, and no end is closed before its time (client.py:243-298,
\* server.py:719-856).
THEOREM ImplementsForwarding == Spec => Forwards
<1>1. Init => IdsInv
  BY InitIds
<1>2. IdsInv /\ [Next]_vars => IdsInv'
  BY NextIds
<1>3. Spec => F!Spec
  BY <1>1, <1>2, ForwardsInit, ForwardsNext, ServerInvariant, WireInvariant, PTL DEF Spec, F!Spec
<1>. QED BY <1>3 DEF Forwards

-----------------------------------------------------------------------------
(* What follows of the types, and of the server in the tunnel.              *)

\* The server's types are those of ServerSession, whose client may reuse ids or not.
LEMMA ServerTypes == SP!IndInv => S!TypeOK
  BY DEF SP!IndInv, SP!TypeOK, SP!HandlerTypeOK, SP!ChannelTypeOK, SP!PumpTypeOK, SP!ServerTypeOK,
         SP!Phases, SP!Conns, SP!PumpStates, SP!Ids,
         S!TypeOK, S!HandlerTypeOK, S!ChannelTypeOK, S!PumpTypeOK, S!ServerTypeOK,
         S!Phases, S!Conns, S!PumpStates, S!Ids

\* No more ids are given out than there are connections.
LEMMA IdRange ==
  ASSUME ConnsInv, IdTypes
  PROVE  /\ nextCh \in Base .. LastId + Cardinality(accepted)
         /\ chOf \in [Locals -> (Base .. LastId + Cardinality(accepted)) \cup {NoId}]
<1>1. Cardinality(Forwarded) \in Nat /\ Cardinality(accepted) \in Nat
      /\ Cardinality(Forwarded) <= Cardinality(accepted)
  BY ForwardedFinite, FS_Subset, FS_CardinalityType DEF ConnsInv
<1>2. nextCh \in Base .. LastId + Cardinality(accepted)
  BY <1>1, TunnelAssumption DEF ConnsInv, IdTypes
<1>3. ASSUME NEW k \in Forwarded PROVE chOf[k] \in Base .. LastId + Cardinality(accepted)
  <2>1. chOf[k] \in Nat /\ Base <= chOf[k] /\ chOf[k] < nextCh
    BY <1>3 DEF ConnsInv
  <2>. QED BY <1>1, <1>2, <2>1, TunnelAssumption
<1>4. \A k \in Locals \ Forwarded : chOf[k] = NoId
  BY DEF ConnsInv
<1>. QED BY <1>2, <1>3, <1>4 DEF IdTypes

\* Every variable of the tunnel keeps its type; the client's counter stays below
\* LastId + 1 for each connection (client.py:245-249).
THEOREM TypeCorrect == Spec => []TypeOK
<1>1. ASSUME IdsInv, SP!IndInv, WireInv PROVE TypeOK
  <2>1. S!TypeOK
    BY <1>1, ServerTypes
  <2>2. nextCh \in Base .. LastId + Cardinality(accepted)
        /\ chOf \in [Locals -> (Base .. LastId + Cardinality(accepted)) \cup {NoId}]
    BY <1>1, IdRange DEF IdsInv, WireInv
  <2>3. Forwarded \subseteq accepted
    BY <1>1, ForwardedFinite DEF WireInv
  <2>4. Reached \subseteq Forwarded
    <3>. SUFFICES ASSUME NEW p \in Pumps, serves[p] # NoConn PROVE serves[p] \in Forwarded
      BY DEF Reached
    <3>. QED BY <1>1 DEF WireInv, PumpsInv
  <2>5. /\ accepted \subseteq Locals /\ refused \subseteq accepted
        /\ toolDone \subseteq accepted /\ usbipdDone \subseteq accepted
        /\ localClosed \subseteq accepted
    BY <1>1, <2>3, <2>4 DEF WireInv, ConnsInv, EndsInv
  <2>6. opener \in Locals \cup {NoConn} /\ serves \in [Pumps -> Locals \cup {NoConn}]
    BY <1>1 DEF WireInv, PumpsInv
  <2>7. /\ sent \in [{"up", "down"} -> [Locals -> Seq(Payloads)]]
        /\ got \in [{"up", "down"} -> [Locals -> Seq(Payloads)]]
    BY <1>1 DEF WireInv, FlowInv
  <2>. QED BY <1>1, <2>1, <2>2, <2>5, <2>6, <2>7 DEF TypeOK, IdsInv, IdTypes
<1>2. Init => IdsInv
  BY InitIds
<1>3. IdsInv /\ [Next]_vars => IdsInv'
  BY NextIds
<1>. QED BY <1>1, <1>2, <1>3, ServerInvariant, WireInvariant, PTL DEF Spec

\* What taking a channel away rightly is does not depend on how the client picks its ids.
LEMMA SameChannelKept ==
    ASSUME [\A s \in {Session} : \A c \in SP!OpenIds(s) :
              chans'[s][c] # chans[s][c] =>
                  \/ SP!RecvClose(s, c)
                  \/ s \in closed' \ closed
                  \/ pumpState'[chans[s][c]] = "done"]_(SP!vars)
    PROVE  [\A s \in {Session} : \A c \in S!OpenIds(s) :
              chans'[s][c] # chans[s][c] =>
                  \/ S!RecvClose(s, c)
                  \/ s \in closed' \ closed
                  \/ pumpState'[chans[s][c]] = "done"]_(S!vars)
<1>1. UNCHANGED SP!vars => UNCHANGED S!vars
  BY DEF SP!vars, S!vars, SP!handlerVars, S!handlerVars, SP!channelVars, S!channelVars,
         SP!pumpVars, S!pumpVars, SP!serverVars, S!serverVars
<1>2. \A s : SP!OpenIds(s) = S!OpenIds(s)
  BY DEF SP!OpenIds, S!OpenIds, SP!Ids, S!Ids
<1>3. \A s, c : SP!CloseChannel(s, c) => S!CloseChannel(s, c)
  BY DEF SP!CloseChannel, S!CloseChannel, SP!Popped, S!Popped, SP!LivePumps, S!LivePumps,
         SP!Ids, S!Ids
<1>4. \A s, next : SP!Read(s, next) => S!Read(s, next)
  BY DEF SP!Read, S!Read
<1>5. \A s, c : SP!RecvClose(s, c) => S!RecvClose(s, c)
  BY <1>3, <1>4
  DEF SP!RecvClose, S!RecvClose, SP!pumpVars, S!pumpVars, SP!serverVars, S!serverVars,
      SP!handlerVars, S!handlerVars, SP!channelVars, S!channelVars, SP!Ids, S!Ids
<1>. QED BY <1>1, <1>2, <1>5

\* In the tunnel no channel is closed by the pump of another (server.py:850-856), which
\* ServerSession promises only of a client that opens no id twice.
THEOREM ChannelsKeptInTunnel == Spec => ChannelsKept
<1>1. OpensOnce => SP!Spec
  BY SameInit, SameNext, PTL DEF OpensOnce, Strict!Spec, SP!Spec
<1>2. SP!ChannelKept => ChannelsKept
  BY SameChannelKept, PTL DEF SP!ChannelKept, ChannelsKept, S!ChannelKept
<1>. QED BY <1>1, <1>2, OpensNoIdTwice, ServerConstants, SP!ChannelsKept, PTL

-----------------------------------------------------------------------------
(* Hang-ups.                                                                *)

\* The session of a running server: it serves this client once the hello is accepted,
\* and lets go of the connection when it ends.
SessionUp ==
    /\ server = "running"
    /\ phase[Session] \in {"idle", "hello"} => cli = "off" /\ Session \notin registered
    /\ phase[Session] = "done" => Lost
    /\ cli = "off" => accepted = {}
    /\ Lost => MayBeLost

\* A connection that _cleanup has not closed came after it, and the server never heard of it.
LateUnknown ==
    cli = "ended" =>
        \A k \in Forwarded \ localClosed : k \notin Reached \cup {opener} /\ ~ OpenIsUnderWay(k)

CloseIn(q, k) == \E i \in 1 .. Len(q) : q[i].kind = "close" /\ q[i].says = k

\* The CLOSE of an end that hung up is under way, unless it has arrived.
ToolHeard(k) == k \in refused \cup RemoteClosed \/ CloseIn(up, k)
UsbipdHeard(k) == k \in localClosed \/ CloseIn(down, k)

HangUpInv ==
    /\ Lost \/ \A k \in Forwarded : connPc[k] \in {"closing", "done"} => ToolHeard(k)
    /\ Lost \/ \A k \in usbipdDone : UsbipdHeard(k)

RestInv == SessionUp /\ LateUnknown /\ HangUpInv

LEMMA CloseAppended ==
  ASSUME NEW T, NEW q \in Seq(T), NEW f \in T, NEW k
  PROVE  /\ CloseIn(q, k) => CloseIn(Append(q, f), k)
         /\ f.kind = "close" /\ f.says = k => CloseIn(Append(q, f), k)
<1>1. /\ 1 .. Len(Append(q, f)) = 1 .. Len(q) \cup {Len(Append(q, f))}
      /\ Append(q, f)[Len(Append(q, f))] = f
      /\ \A i \in 1 .. Len(q) : Append(q, f)[i] = q[i]
  BY AppendFacts
<1>. QED BY <1>1 DEF CloseIn

LEMMA CloseTaken ==
  ASSUME NEW T, NEW q \in Seq(T), q # << >>, NEW k, CloseIn(q, k)
  PROVE  CloseIn(Tail(q), k) \/ (Head(q).kind = "close" /\ Head(q).says = k)
<1>1. PICK i \in 1 .. Len(q) : q[i].kind = "close" /\ q[i].says = k
  BY DEF CloseIn
<1>2. CASE i = 1
  BY <1>1, <1>2, TailFacts
<1>3. CASE i # 1
  <2>1. i - 1 \in 1 .. Len(Tail(q)) /\ (i - 1) + 1 = i
    BY <1>3, TailFacts
  <2>2. Tail(q)[i - 1] = q[i]
    BY <2>1, TailFacts
  <2>. QED BY <1>1, <2>1, <2>2 DEF CloseIn
<1>. QED BY <1>2, <1>3

\* A handler that ends has not ended before, and lets go of the connection.
LEMMA ExitOfRunning ==
  ASSUME SP!IndInv, SessionUp, phase[Session] # "done", S!Exit(Session)
  PROVE  /\ server' = server /\ registered' \subseteq registered
         /\ phase'[Session] = "done" /\ Lost'
<1>1. Session \notin closed
  BY DEF SP!IndInv, SP!SessionInv, SP!ClosedInv, SessionUp
<1>2. server' = server /\ registered' \subseteq registered /\ conn'[Session] = "lost"
  BY <1>1 DEF S!Exit, S!Cleanup
<1>3. phase'[Session] = "done"
  BY ServerFacts DEF S!Exit
<1>. QED BY <1>2, <1>3 DEF Lost

\* Whatever a step does to the handler, the connection and the registration.
LEMMA HandlerMoves ==
  ASSUME SP!IndInv, LinkInv, IdsInv, SessionUp, Next, ~ ServerRuns
  PROVE  /\ UNCHANGED <<server, registered>>
         /\ phase'[Session] = phase[Session]
            \/ (phase[Session] \in {"loop", "opening"} /\ phase'[Session] \notin {"idle", "hello", "done"})
<1>. phase \in [{Session} -> S!Phases]
  BY ServerFacts
<1>1. CASE ReceivesOpen \/ ReceivesData \/ ReceivesClose
  <2>1. \E next \in {"loop", "replying", "opening", "chdrain"} : S!Read(Session, next)
    BY Zenon, <1>1 DEF ReceivesOpen, ReceivesData, ReceivesClose, S!RecvOpenUsb, S!RefuseOpenUsb,
                       S!RecvOther, S!RecvDataBlocks, S!RecvClose
  <2>2. UNCHANGED <<server, registered>>
    BY Zenon, <1>1 DEF ReceivesOpen, ReceivesData, ReceivesClose, S!RecvOpenUsb, S!RefuseOpenUsb,
                       S!RecvOther, S!RecvDataBlocks, S!RecvClose, S!serverVars
  <2>. QED BY <2>1, <2>2 DEF S!Read
<1>2. CASE Opens
  BY <1>2 DEF Opens, S!OpenDone, S!OpenFails, S!serverVars
<1>3. CASE CleansUp \/ NetworkFails
  BY <1>3 DEF CleansUp, NetworkFails, S!ClientCloses, S!serverVars, serverVars
<1>4. ASSUME NEW p \in Pumps, PumpReads(p) \/ PumpEnds(p) \/ PumpInterrupted(p) \/ PumpGoesOn(p)
      PROVE  UNCHANGED <<server, registered, phase>>
  BY <1>4 DEF PumpReads, PumpEnds, PumpInterrupted, PumpGoesOn, S!PumpReads, S!PumpEnds,
              S!PumpInterrupted, S!PumpStarts, S!PumpDropped, S!PumpSent, S!PumpFinishes, S!PumpGoes,
              S!handlerVars, S!serverVars
<1>5. CASE LoopStep
  BY <1>5 DEF LoopStep, ClientRuns, TakesData, TakesClose, serverVars
<1>6. ASSUME NEW k \in Locals, ConnStep(k) PROVE UNCHANGED <<server, registered, phase>>
  BY <1>6 DEF ConnStep, Accept, ForwardConn, ForwardFails, OpenSent, ConnEnds, ConnFinishes, AsyncioCloses,
              ToolHangsUp, ConnReads, ConnDropped, ClientWrites, S!ClientSends, S!serverVars, serverVars
<1>. QED BY <1>1, <1>2, <1>3, <1>4, <1>5, <1>6, StepsOfNext DEF ServerStep

LEMMA SessionUpStep ==
  ASSUME IdsInv, SP!IndInv, WireInv, SessionUp, Next
  PROVE  SessionUp'
<1>. LinkInv /\ ConnsInv /\ EndsInv
  BY DEF WireInv
<1>. phase \in [{Session} -> S!Phases] /\ conn \in [{Session} -> S!Conns]
  BY ServerFacts
<1>1. CASE ServerRuns
  <2>1. UNCHANGED <<cli, accepted>>
    BY <1>1, RunsEffect DEF Tunnels
  <2>2. CASE S!Connect(Session)
    BY <2>1, <2>2 DEF S!Connect, S!serverVars, SessionUp, Lost, MayBeLost
  <2>3. CASE S!HelloAccepted(Session) \/ S!ChannelDrained(Session) \/ S!Replied(Session)
    BY <2>1, <2>3 DEF S!HelloAccepted, S!ChannelDrained, S!Replied, S!serverVars, SessionUp, Lost, MayBeLost
  <2>4. CASE S!HelloFails(Session)
    <3>1. phase[Session] = "hello" /\ S!Exit(Session) /\ accepted = {} /\ Cardinality({}) = 0
      BY <2>4, FS_EmptySet DEF S!HelloFails, SessionUp
    <3>2. server' = server /\ phase'[Session] = "done" /\ Lost'
      BY <3>1, ExitOfRunning
    <3>3. MayBeLost
      BY <3>1, TunnelAssumption DEF MayBeLost
    <3>. QED BY <2>1, <3>2, <3>3 DEF SessionUp, MayBeLost
  <2>5. CASE \/ MayBeLost /\ S!ChannelDrainFails(Session)
             \/ S!ReplyFails(Session) \/ S!ReadEof(Session)
    <3>1. S!Exit(Session) /\ phase[Session] \in {"chdrain", "replying", "loop"}
      BY <2>5 DEF S!ChannelDrainFails, S!ReplyFails, S!ReadEof
    <3>2. MayBeLost
      BY <2>5 DEF S!ReplyFails, S!ReadEof, SessionUp, Lost
    <3>3. server' = server /\ phase'[Session] = "done" /\ Lost'
      BY <3>1, ExitOfRunning
    <3>. QED BY <2>1, <3>2, <3>3 DEF SessionUp, MayBeLost
  <2>. QED BY <1>1, <2>2, <2>3, <2>4, <2>5 DEF ServerRuns
<1>2. CASE ~ ServerRuns
  <2>1. /\ UNCHANGED <<server, registered>>
        /\ phase'[Session] = phase[Session]
           \/ (phase[Session] \in {"loop", "opening"} /\ phase'[Session] \notin {"idle", "hello", "done"})
    BY <1>2, HandlerMoves
  <2>2. (Lost => Lost')
    BY Monotone DEF Grows
  <2>3. CASE CleansUp \/ NetworkFails
    <3>1. MayBeLost /\ accepted' = accepted /\ phase' = phase /\ Lost'
      BY <2>3, LosesEffect DEF CleansUp, NetworkFails
    <3>2. cli' = cli \/ (cli = "running" /\ cli' = "ended")
      BY <2>3, LosesEffect DEF CleansUp
    <3>. QED BY <2>1, <3>1, <3>2 DEF SessionUp, MayBeLost
  <2>4. CASE ServerStep /\ ~ CleansUp /\ ~ NetworkFails
    <3>1. UNCHANGED <<cli, accepted, conn>>
      BY <1>2, <2>4, OpensEffect, ReceivesEffect, PumpEffect DEF ServerStep, Tunnels
    <3>. QED BY <2>1, <3>1 DEF SessionUp, MayBeLost, Lost
  <2>5. CASE ClientRuns
    <3>1. conn' = conn /\ phase' = phase
      BY <2>5, ClientEffect
    <3>2. accepted' = accepted /\ cli' = "running" /\ Session \in registered
      BY <2>5 DEF ClientRuns, openVars
    <3>. QED BY <2>1, <3>1, <3>2 DEF SessionUp, MayBeLost, Lost
  <2>6. CASE TakesData \/ TakesClose
    <3>1. conn' = conn
      BY <2>6, ClientEffect DEF ClientLoop
    <3>2. UNCHANGED <<cli, accepted>>
      BY <2>6 DEF TakesData, TakesClose, clientVars, openVars
    <3>. QED BY <2>1, <3>1, <3>2 DEF SessionUp, MayBeLost, Lost
  <2>7. ASSUME NEW k \in Locals, ConnStep(k) PROVE SessionUp'
    <3>1. conn' = conn /\ cli' = cli
      BY <2>7, ClientEffect DEF ConnStep, Conn, Accept, ForwardConn, ForwardFails, OpenSent, ConnEnds,
               ConnFinishes, AsyncioCloses, ToolHangsUp, ConnReads, ConnDropped, clientVars
    <3>2. CASE Accept(k)
      <4>1. cli = "running" /\ accepted' = accepted \cup {k} /\ k \notin accepted
            /\ (Lost => Cardinality(accepted) < LossConns)
        BY <3>2 DEF Accept
      <4>2. Cardinality(accepted') = Cardinality(accepted) + 1 /\ Cardinality(accepted) \in Nat
        BY <4>1, FS_AddElement, FS_CardinalityType DEF ConnsInv
      <4>3. Lost => MayBeLost'
        BY <4>1, <4>2, TunnelAssumption DEF MayBeLost
      <4>. QED BY <2>1, <3>1, <4>1, <4>3 DEF SessionUp, Lost
    <3>3. CASE ~ Accept(k)
      <4>1. accepted' = accepted
        BY <2>7, <3>3 DEF ConnStep, ForwardConn, ForwardFails, OpenSent, ConnEnds, ConnFinishes,
               AsyncioCloses, ToolHangsUp, ConnReads, ConnDropped, openVars
      <4>. QED BY <2>1, <3>1, <4>1 DEF SessionUp, MayBeLost, Lost
    <3>. QED BY <3>2, <3>3
  <2>. QED BY <1>2, <2>3, <2>4, <2>5, <2>6, <2>7, StepsOfNext DEF LoopStep
<1>. QED BY <1>1, <1>2

\* What the server has heard of a connection, it knew or was being asked for.
LEMMA UnknownStays ==
  ASSUME IdsInv, SP!IndInv, WireInv, ServerStep, NEW k \in Forwarded,
         k \notin Reached \cup {opener}, ~ OpenIsUnderWay(k)
  PROVE  k \notin Reached' \cup {opener'} /\ ~ OpenIsUnderWay(k)'
<1>. LinkInv /\ PumpsInv /\ UpInv
  BY DEF WireInv
<1>0. up \in Seq(UpFrames) /\ k # NoConn
  BY TunnelAssumption DEF IdsInv, IdTypes, Forwarded
<1>1. up' = up \/ (up # << >> /\ up' = Tail(up))
  BY KnownServer
<1>2. ~ OpenIsUnderWay(k)'
  <2>1. CASE up' = up
    BY <2>1 DEF OpenIsUnderWay
  <2>2. CASE up # << >> /\ up' = Tail(up)
    BY <1>0, <2>2, TailFacts DEF OpenIsUnderWay
  <2>. QED BY <1>1, <2>1, <2>2
<1>3. CASE Opens
  <2>1. opener' = NoConn /\ opener \in Forwarded
    BY <1>3, OpensEffect DEF PumpsInv
  <2>2. \A p \in Pumps : serves'[p] \in {serves[p], opener}
    BY <1>3, OpensEffect DEF PumpsInv
  <2>. QED BY <1>0, <1>2, <2>1, <2>2 DEF Reached
<1>4. CASE ReceivesOpen \/ ReceivesData \/ ReceivesClose
  <2>1. serves' = serves /\ up # << >> /\ (opener' = opener \/ (ReceivesOpen /\ opener' = Head(up).says))
    BY <1>4, ReceivesEffect
  <2>2. ReceivesOpen => Head(up).kind = "open" /\ Head(up).says # k
    BY <2>1, ReceivesEffect, UpHead DEF OpenIsUnderWay
  <2>. QED BY <1>2, <2>1, <2>2 DEF Reached
<1>5. CASE ServerRuns \/ CleansUp \/ NetworkFails
  BY <1>2, <1>5, RunsEffect, LosesEffect DEF Reached
<1>6. ASSUME NEW p \in Pumps, PumpReads(p) \/ PumpEnds(p) \/ PumpInterrupted(p) \/ PumpGoesOn(p)
      PROVE  UNCHANGED <<serves, opener>>
  BY <1>6, PumpEffect
<1>. QED BY <1>2, <1>3, <1>4, <1>5, <1>6 DEF ServerStep, Reached

LEMMA LateUnknownStep ==
  ASSUME IdsInv, SP!IndInv, WireInv, LateUnknown, Next
  PROVE  LateUnknown'
<1>. LinkInv /\ ConnsInv /\ EndsInv /\ PumpsInv /\ UpInv
  BY DEF WireInv
<1>0. Forwarded \subseteq Locals /\ NoConn \notin Locals
  BY TunnelAssumption DEF Forwarded
<1>1. CASE CleansUp
  <2>1. Forwarded' = Forwarded /\ localClosed' = localClosed \cup held
    BY <1>1, LosesEffect DEF Forwarded
  <2>. QED BY <2>1 DEF LateUnknown, ConnsInv
<1>2. CASE ServerStep /\ ~ CleansUp
  <2>1. UNCHANGED <<cli, connPc, localClosed>>
    BY <1>2, RunsEffect, LosesEffect, OpensEffect, ReceivesEffect, PumpEffect DEF ServerStep, Tunnels
  <2>2. Forwarded' = Forwarded
    BY <2>1 DEF Forwarded
  <2>. QED BY <1>2, <2>1, <2>2, UnknownStays DEF LateUnknown
<1>3. CASE LoopStep
  <2>1. UNCHANGED <<up, opener, serves>>
    BY <1>3, ClientEffect DEF LoopStep, ClientLoop
  <2>2. connPc' = connPc /\ localClosed \subseteq localClosed' /\ (cli' = "ended" => cli = "ended")
    BY <1>3 DEF LoopStep, ClientRuns, TakesData, TakesClose, Takes, clientVars, endVars
  <2>. QED BY <2>1, <2>2 DEF LateUnknown, Forwarded, Reached, OpenIsUnderWay
<1>4. ASSUME NEW j \in Locals, ConnStep(j), cli' = "ended"
      PROVE  \A k \in Forwarded' \ localClosed' : k \notin Reached' \cup {opener'} /\ ~ OpenIsUnderWay(k)'
  <2>1. UNCHANGED <<opener, serves, conn>>
    BY <1>4, ClientEffect DEF ConnStep, Conn
  <2>2. cli = "ended"
    BY <1>4 DEF ConnStep, Accept, ForwardConn, ForwardFails, OpenSent, ConnEnds, ConnFinishes,
                AsyncioCloses, ToolHangsUp, ConnReads, ConnDropped, clientVars
  <2>3. up' = up
    BY <1>4, <2>2, ClientEffect DEF EndsInv, ConnStep, Conn
  <2>4. Forwarded' \subseteq Forwarded \cup {j}
    <3>1. CASE Accept(j) \/ ForwardConn(j) \/ ForwardFails(j) \/ OpenSent(j) \/ ConnEnds(j)
               \/ ConnFinishes(j) \/ AsyncioCloses(j) \/ ConnDropped(j)
      <4>1. \E pc : connPc' = [connPc EXCEPT ![j] = pc]
        BY <3>1 DEF Accept, ForwardConn, ForwardFails, OpenSent, ConnEnds, ConnFinishes, AsyncioCloses,
                    ConnDropped
      <4>. QED BY <4>1 DEF Forwarded
    <3>2. CASE ToolHangsUp(j) \/ ConnReads(j)
      BY <3>2 DEF ToolHangsUp, ConnReads, clientVars, Forwarded
    <3>. QED BY <1>4, <3>1, <3>2 DEF ConnStep
  <2>5. ASSUME NEW k \in Locals \ Forwarded
        PROVE  k \notin Reached \cup {opener} /\ ~ OpenIsUnderWay(k)
    <3>1. k \notin Reached \cup {opener}
      BY <1>0, <2>5 DEF PumpsInv, Reached
    <3>2. \A i \in 1 .. Len(up) : up[i].kind = "open" => up[i].says # k
      BY <2>5 DEF UpInv, Named, Owner
    <3>. QED BY <3>1, <3>2 DEF OpenIsUnderWay
  <2>6. localClosed \subseteq localClosed' /\ Forwarded' \subseteq Locals
    BY Monotone DEF Grows, Forwarded
  <2>7. \A k \in Forwarded' \ localClosed' : k \notin Reached \cup {opener} /\ ~ OpenIsUnderWay(k)
    BY <2>2, <2>4, <2>5, <2>6 DEF LateUnknown
  <2>8. Reached' = Reached /\ \A k : OpenIsUnderWay(k)' <=> OpenIsUnderWay(k)
    BY <2>1, <2>3 DEF Reached, OpenIsUnderWay
  <2>. QED BY <2>1, <2>7, <2>8
<1>. QED BY <1>1, <1>2, <1>3, <1>4, StepsOfNext DEF LateUnknown

\* The server takes the CLOSE of a tool that hung up.
LEMMA CloseArrives ==
  ASSUME IdsInv, SP!IndInv, WireInv, NEW k \in Forwarded,
         ReceivesOpen \/ ReceivesData \/ ReceivesClose, Head(up).kind = "close", Head(up).says = k
  PROVE  k \in refused' \cup RemoteClosed'
<1>. LinkInv /\ PumpsInv /\ UpInv /\ Forwarded \subseteq Locals /\ NoConn \notin Locals
  BY TunnelAssumption DEF WireInv, Forwarded
<1>1. /\ ReceivesClose /\ up # << >> /\ phase[Session] = "loop" /\ UNCHANGED <<serves, refused>>
      /\ sockets' = {p \in sockets : pumpCh[p] # Head(up).ch}
  BY ReceivesEffect
<1>2. /\ Head(up) = up[1] /\ 1 \in 1 .. Len(up) /\ Asked(k) /\ Head(up).ch = chOf[k]
  BY <1>1, UpHead DEF Owner, Named
<1>3. ~ OpenIsUnderWay(k)
  <2>1. SUFFICES ASSUME NEW i \in 1 .. Len(up), up[i].kind = "open", up[i].says = k PROVE FALSE
    BY DEF OpenIsUnderWay
  <2>2. i # 1 /\ 1 \in 1 .. i - 1
    BY <1>2, <2>1
  <2>3. Owner(up[1]) = k
    BY <1>2 DEF Owner
  <2>. QED BY <2>1, <2>2, <2>3 DEF UpInv
<1>4. opener = NoConn
  BY <1>1 DEF PumpsInv
<1>5. k \in Reached => k \in RemoteClosed'
  <2>1. SUFFICES ASSUME NEW p \in Pumps, serves[p] = k PROVE k \in RemoteClosed'
    BY DEF Reached
  <2>2. pumpCh[p] = chOf[k] /\ p \notin sockets'
    BY <1>1, <1>2, <2>1 DEF PumpsInv
  <2>. QED BY <1>1, <2>1, <2>2 DEF RemoteClosed
<1>. QED BY <1>1, <1>2, <1>3, <1>4, <1>5 DEF Asked

\* A frame leaves the queue when the server receives it.
LEMMA OnlyReceives ==
  ASSUME IdsInv, SP!IndInv, LinkInv, Next, up # << >>, up' = Tail(up)
  PROVE  ReceivesOpen \/ ReceivesData \/ ReceivesClose
<1>0. up \in Seq(UpFrames) /\ up' # up
  <2>1. up \in Seq(UpFrames)
    BY DEF IdsInv, IdTypes
  <2>. QED BY <2>1, TailFacts
<1>1. CASE ServerRuns \/ CleansUp \/ NetworkFails \/ Opens
  BY <1>0, <1>1, RunsEffect, LosesEffect, OpensEffect
<1>2. ASSUME NEW p \in Pumps, PumpReads(p) \/ PumpEnds(p) \/ PumpInterrupted(p) \/ PumpGoesOn(p)
      PROVE  FALSE
  BY <1>0, <1>2, PumpEffect
<1>3. CASE LoopStep
  BY <1>0, <1>3, ClientEffect DEF LoopStep, ClientLoop
<1>4. ASSUME NEW k \in Locals, ConnStep(k) PROVE FALSE
  <2>1. CASE ForwardConn(k) \/ ConnReads(k) \/ ConnEnds(k)
    <3>1. up' = up \/ \E f : up' = Append(up, f)
      BY <2>1, ClientEffect DEF Conn
    <3>2. PICK f : up' = Append(up, f)
      BY <1>0, <3>1
    <3>3. Len(up') = Len(up) + 1
      BY <1>0, <3>2
    <3>4. Len(up') = Len(up) - 1 /\ Len(up) \in Nat
      BY <1>0, TailFacts
    <3>. QED BY <3>3, <3>4
  <2>2. CASE ~ (ForwardConn(k) \/ ConnReads(k) \/ ConnEnds(k))
    BY <1>0, <1>4, <2>2, ClientEffect DEF ConnStep, Conn
  <2>. QED BY <2>1, <2>2
<1>. QED BY <1>1, <1>2, <1>3, <1>4, StepsOfNext DEF ServerStep

LEMMA ToolHeardStep ==
  ASSUME IdsInv, SP!IndInv, WireInv, RestInv, Next, ~ Lost',
         NEW k \in Forwarded', connPc'[k] \in {"closing", "done"}
  PROVE  ToolHeard(k)'
<1>. LinkInv /\ ConnsInv /\ EndsInv /\ PumpsInv /\ UpInv /\ k \in Locals
  BY DEF WireInv, Forwarded
<1>0. /\ ~ Lost /\ refused \subseteq refused' /\ RemoteClosed \subseteq RemoteClosed'
      /\ up \in Seq(UpFrames) /\ connPc \in [Locals -> ConnPCs]
  BY Monotone, PumpsStay DEF Grows, IdsInv, IdTypes
<1>1. k \in refused \cup RemoteClosed \/ CloseIn(up', k) => ToolHeard(k)'
  BY <1>0 DEF ToolHeard, CloseIn
<1>2. CASE connPc[k] \in {"closing", "done"}
  <2>1. k \in Forwarded /\ ToolHeard(k)
    BY <1>0, <1>2 DEF RestInv, HangUpInv, Forwarded
  <2>2. CASE CloseIn(up, k) /\ up' = up
    BY <1>1, <2>2
  <2>3. CASE CloseIn(up, k) /\ up # << >> /\ up' = Tail(up)
    <3>1. CASE Head(up).kind = "close" /\ Head(up).says = k
      <4>1. CASE ReceivesOpen \/ ReceivesData \/ ReceivesClose
        BY <2>1, <3>1, <4>1, CloseArrives DEF ToolHeard
      <4>2. ReceivesOpen \/ ReceivesData \/ ReceivesClose
        BY <1>0, <2>3, OnlyReceives
      <4>. QED BY <4>1, <4>2
    <3>2. CASE CloseIn(Tail(up), k)
      BY <1>1, <2>3, <3>2
    <3>. QED BY <1>0, <2>3, <3>1, <3>2, CloseTaken
  <2>4. CASE CloseIn(up, k) /\ \E f \in UpFrames : up' = Append(up, f)
    BY <1>0, <1>1, <2>4, CloseAppended
  <2>5. up' = up \/ (up # << >> /\ up' = Tail(up)) \/ \E f \in UpFrames : up' = Append(up, f)
    BY UpMoves, ReceivesEffect
  <2>. QED BY <1>1, <2>1, <2>2, <2>3, <2>4, <2>5 DEF ToolHeard
<1>3. CASE connPc[k] \notin {"closing", "done"}
  <2>1. ~ ServerStep /\ ~ LoopStep
    BY <1>3, ServerStepEffect DEF LoopStep, ClientRuns, TakesData, TakesClose, clientVars
  <2>2. PICK j \in Locals : ConnStep(j)
    BY <2>1, StepsOfNext
  <2>3. j = k /\ (ConnEnds(k) \/ AsyncioCloses(k) \/ ConnDropped(k))
    BY <1>0, <1>3, <2>2 DEF ConnStep, Accept, ForwardConn, ForwardFails, OpenSent, ConnEnds, ConnFinishes,
                AsyncioCloses, ToolHangsUp, ConnReads, ConnDropped, clientVars
  <2>4. CASE ConnEnds(k)
    <3>. DEFINE f == Frame("close", chOf[k], k)
    <3>1. up' = Append(up, f)
      BY <1>0, <2>4, ClientEffect DEF Conn
    <3>2. chOf[k] \in UsbIds
      BY <2>4 DEF ConnEnds, IdsInv, IdsSpent
    <3>3. f \in UpFrames /\ f.kind = "close" /\ f.says = k
      BY <3>2 DEF Frame, UpFrames, Said
    <3>. HIDE DEF f
    <3>. QED BY <1>0, <1>1, <3>1, <3>3, CloseAppended
  <2>5. CASE AsyncioCloses(k)
    BY <1>0, <1>1, <2>5 DEF AsyncioCloses, EndsInv
  <2>6. CASE ConnDropped(k)
    BY <1>0, <2>6 DEF ConnDropped, EndsInv
  <2>. QED BY <2>3, <2>4, <2>5, <2>6
<1>. QED BY <1>2, <1>3

\* The CLOSE of a pump whose usbipd hung up is on its way until the client takes it.
LEMMA UsbipdHeardStep ==
  ASSUME IdsInv, SP!IndInv, WireInv, RestInv, Next, ~ Lost', NEW k \in usbipdDone'
  PROVE  UsbipdHeard(k)'
<1>. LinkInv /\ ConnsInv /\ EndsInv /\ PumpsInv /\ UpInv /\ DownInv
  BY DEF WireInv
<1>0. ~ Lost /\ localClosed \subseteq localClosed' /\ down \in Seq(DownFrames)
  BY Monotone DEF Grows, DownInv
<1>1. k \in localClosed \/ CloseIn(down', k) => UsbipdHeard(k)'
  BY <1>0 DEF UsbipdHeard, CloseIn
<1>2. CASE k \in usbipdDone
  <2>1. UsbipdHeard(k)
    BY <1>0, <1>2 DEF RestInv, HangUpInv
  <2>2. CASE TakesData \/ TakesClose
    <3>1. down # << >> /\ down' = Tail(down) /\ (TakesData => Head(down).kind = "data")
          /\ (TakesClose => localClosed' = localClosed \cup Under(Head(down).ch))
      BY <2>2 DEF TakesData, TakesClose, Takes
    <3>2. CASE TakesClose /\ Head(down).kind = "close" /\ Head(down).says = k
      <4>1. k \in Forwarded /\ Head(down).ch = chOf[k]
        BY <3>1, <3>2, DownHead DEF Named, Owner
      <4>. QED BY <1>1, <3>1, <3>2, <4>1 DEF ConnsInv, Under, UsbipdHeard
    <3>. QED BY <1>0, <1>1, <2>1, <2>2, <3>1, <3>2, CloseTaken DEF UsbipdHeard
  <2>3. CASE CleansUp \/ NetworkFails
    BY <2>3, LosesEffect
  <2>4. CASE ~ (TakesData \/ TakesClose \/ CleansUp \/ NetworkFails)
    <3>1. down' = down \/ \E f \in DownFrames : down' = Append(down, f)
      BY <2>4, DownMoves
    <3>. QED BY <1>0, <1>1, <2>1, <3>1, CloseAppended DEF UsbipdHeard
  <2>. QED BY <2>2, <2>3, <2>4
<1>3. CASE k \notin usbipdDone
  <2>1. PICK p \in Pumps : PumpEnds(p)
    <3>1. ServerStep
      BY <1>3, StepsOfNext, ClientEffect DEF LoopStep, ClientLoop, ConnStep, Conn
    <3>. QED BY <1>3, <3>1, RunsEffect, LosesEffect, OpensEffect, ReceivesEffect, PumpEffect DEF ServerStep
  <2>2. k = serves[p] /\ down' = Append(down, Frame("close", pumpCh[p], k))
    BY <1>0, <1>3, <2>1, PumpEffect DEF ServerWrites
  <2>3. k \in Locals /\ pumpCh[p] \in UsbIds
    BY <2>1, <2>2, PumpEffect, ServerFacts DEF PumpsInv, Forwarded
  <2>4. Frame("close", pumpCh[p], k) \in DownFrames
    BY <2>3 DEF Frame, DownFrames, Said
  <2>. QED BY <1>0, <1>1, <2>2, <2>4, CloseAppended DEF Frame
<1>. QED BY <1>2, <1>3

LEMMA RestInit == Init => RestInv
<1>. SUFFICES ASSUME Init PROVE RestInv
  OBVIOUS
<1>1. /\ server = "running" /\ phase[Session] = "idle" /\ conn[Session] = "none" /\ registered = {}
      /\ cli = "off" /\ accepted = {} /\ usbipdDone = {} /\ Forwarded = {}
  BY DEF Init, S!Init, Forwarded
<1>. QED BY <1>1 DEF RestInv, SessionUp, LateUnknown, HangUpInv, Lost

LEMMA RestNext == IdsInv /\ SP!IndInv /\ WireInv /\ RestInv /\ [Next]_vars => RestInv'
<1>. SUFFICES ASSUME IdsInv, SP!IndInv, WireInv, RestInv, [Next]_vars PROVE RestInv'
  OBVIOUS
<1>1. CASE Next
  <2>1. SessionUp' /\ LateUnknown'
    BY <1>1, SessionUpStep, LateUnknownStep DEF RestInv
  <2>2. HangUpInv'
    BY <1>1, ToolHeardStep, UsbipdHeardStep DEF HangUpInv
  <2>. QED BY <2>1, <2>2 DEF RestInv
<1>2. CASE UNCHANGED vars
  BY <1>2 DEF vars, serverVars, clientVars, openVars, endVars, RestInv, SessionUp, LateUnknown, HangUpInv,
              ToolHeard, UsbipdHeard, CloseIn, Lost, MayBeLost, Forwarded, Reached, RemoteClosed,
              OpenIsUnderWay
<1>. QED BY <1>1, <1>2

\* At rest no usbipd connection is open whose tool has hung up.
LEMMA ToolsHeard ==
  ASSUME SP!IndInv, IdsInv, WireInv, RestInv, AtRest,
         NEW p \in Pumps, serves[p] \in toolDone, p \in sockets
  PROVE  FALSE
<1>. DEFINE k == serves[p]
<1>1. /\ pumpState[p] # "free" /\ k \in Forwarded \ refused
      /\ \A q \in Pumps : serves[q] = k => q = p
  <2>1. pumpState[p] # "free"
    BY ServerFacts
  <2>. QED BY <2>1 DEF WireInv, PumpsInv
<1>2. k \notin RemoteClosed
  BY <1>1 DEF RemoteClosed
<1>3. phase[Session] \in {"loop", "done"}
  <2>1. accepted # {}
    BY <1>1, ForwardedFinite DEF WireInv
  <2>. QED BY <2>1 DEF RestInv, SessionUp, AtRest
<1>4. phase[Session] # "done"
  <2>1. /\ pumpCh[p] \in UsbIds /\ chans[Session][pumpCh[p]] = p /\ p # NoPump
    BY <1>1, ServerFacts, TunnelAssumption
  <2>2. pumpCh[p] \in SP!OpenIds(Session)
    BY <2>1 DEF SP!OpenIds, SP!Ids
  <2>. QED BY <2>2 DEF RestInv, SessionUp, SP!IndInv, SP!SessionInv, SP!ClosedInv
<1>5. up = << >> /\ ~ Lost
  BY <1>3, <1>4 DEF AtRest
<1>6. connPc[k] \in {"pumping", "done"}
  <2>1. connPc[k] \in ConnPCs \ {"none", "accepted"}
    BY <1>1 DEF IdsInv, IdTypes, Forwarded
  <2>2. connPc[k] # "failed"
    BY <1>1, <1>5 DEF WireInv, EndsInv, Forwarded
  <2>3. connPc[k] \notin {"opening", "closing"}
    BY <1>1 DEF AtRest, Forwarded
  <2>. QED BY <2>1, <2>2, <2>3 DEF ConnPCs
<1>7. CASE connPc[k] = "pumping"
  <2>1. Len(up) >= MaxInFlight
    BY <1>1, <1>7 DEF AtRest, Forwarded
  <2>. QED BY <1>5, <2>1, TunnelAssumption
<1>8. CASE connPc[k] = "done"
  <2>1. CloseIn(up, k)
    BY <1>1, <1>2, <1>5, <1>8 DEF RestInv, HangUpInv, ToolHeard
  <2>. QED BY <1>5, <2>1 DEF CloseIn
<1>. QED BY <1>6, <1>7, <1>8

\* At rest no local connection is open whose usbipd has hung up.
LEMMA UsbipdsHeard ==
  ASSUME IdsInv, WireInv, RestInv, AtRest
  PROVE  usbipdDone \subseteq localClosed
<1>1. SUFFICES ASSUME NEW k \in usbipdDone, k \notin localClosed PROVE FALSE
  OBVIOUS
<1>2. k \in Reached /\ k \in Forwarded
  BY DEF WireInv, EndsInv, PumpsInv, Reached
<1>3. cli # "off"
  BY <1>2, ForwardedFinite DEF WireInv, RestInv, SessionUp
<1>4. cli # "ended"
  BY <1>1, <1>2 DEF RestInv, LateUnknown
<1>5. cli = "running"
  BY <1>3, <1>4 DEF IdsInv, IdTypes
<1>6. ~ Lost /\ down = << >>
  BY <1>5 DEF AtRest
<1>. QED BY <1>1, <1>6 DEF RestInv, HangUpInv, UsbipdHeard, CloseIn

\* When no task has anything left to do, no end is open whose peer has hung up
\* (client.py:264-270, 288-296, server.py:732-733, 827-856): a CLOSE is never lost
\* while the tunnel stands, whatever crossed on the way, and a lost tunnel closes both.
THEOREM HangUpsReach == Spec => [](AtRest => HungUp)
<1>1. Init => IdsInv
  BY InitIds
<1>2. IdsInv /\ [Next]_vars => IdsInv'
  BY NextIds
<1>3. SP!IndInv /\ IdsInv /\ WireInv /\ RestInv => (AtRest => HungUp)
  BY ToolsHeard, UsbipdsHeard DEF HungUp
<1>. QED BY <1>1, <1>2, <1>3, RestInit, RestNext, ServerInvariant, WireInvariant, PTL DEF Spec
==============================================================================
