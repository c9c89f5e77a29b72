--------------------------- MODULE ClientRunProofs ---------------------------
(***************************************************************************)
(* Theorems about the life of a client (ClientRun), for any number of      *)
(* requests, any devices and both values of expose_unexported: every       *)
(* control request gets its own answer, and what is left of the client     *)
(* when it has ended, and what `attach` leaves in the kernel.              *)
(*                                                                         *)
(* For the requests, the steps of a client are sorted into the six kinds   *)
(* that tell them apart, and RequestInv is kept by each kind.              *)
(***************************************************************************)
EXTENDS ClientRun, SequenceTheorems, TLAPS

-----------------------------------------------------------------------------
(* Every step of a client is one of six kinds for the control requests.     *)

\* What is under way to the client stays, or loses its end.
Shortened == down' = down \/ \E n \in 0 .. Len(down) : down' = SubSeq(down, 1, n)

Calm ==
    /\ UNCHANGED <<requestVars, up, serving, device, shared>>
    /\ Shortened

GaveUp ==
    /\ \E r \in Requests, how \in {"timed out", "failed"} : GivesUp(r, how)
    /\ UNCHANGED <<up, serving, device, shared>>
    /\ Shortened

Asks == \E r \in Requests : Ask(r)

CtrlStep == Calm \/ GaveUp \/ Asks \/ Reply \/ ServerNext \/ DeviceChanges

\* _cleanup touches no request, and of the frames only what was still to arrive.
LEMMA CleanupIsCalm ==
    ASSUME CleansUp
    PROVE  UNCHANGED <<up, serving>> /\ Shortened
  BY DEF CleansUp, Ends, Shortened, frameVars

\* The steps of the requests are of these kinds.
LEMMA RequestSteps == RequestStep => CtrlStep
  BY DEF RequestStep, CtrlStep, TimesOut, GaveUp, Shortened, frameVars

\* connect() and run_connected up to on_ready touch no request.
LEMMA StartSteps == Starts => CtrlStep
  <1> USE DEF CtrlStep, Calm, Shortened, requestVars, frameVars
  <1> QED BY DEF Starts, Dialed, Greeted, TapOpens, LanStarted, Readies, ForwardFails, ctrlVars

\* on_ready makes at most one request, and list-usb then closes the connection.
LEMMA OnReadySteps == OnReady => CtrlStep
  <1> USE DEF CtrlStep, Calm, Shortened, requestVars, frameVars
  <1> QED BY DEF OnReady, ListAsks, ListPrints, AttachBegins, ToolEnds, ctrlVars, Asks, Ends

\* An end of the client gives up at most the request of its own.
LEMMA FinishSteps ==
    ASSUME asker \in Requests \cup {None}
    PROVE  Finishes => CtrlStep
  <1> USE DEF CtrlStep, Calm, requestVars
  <1>1. PumpEnds \/ LoopEnds \/ StopSet \/ Joined \/ Detached => CtrlStep
    BY DEF PumpEnds, LoopEnds, StopSet, Joined, Detached, ctrlVars, frameVars, Shortened
  <1>2. Leaves => CtrlStep
    BY CleanupIsCalm DEF Leaves
  <1>3. Cleaned => CtrlStep
    BY DEF Cleaned, Ends, Shortened
  <1>4. Told => CtrlStep
    <2>1. CASE run \in Early /\ Fails /\ UNCHANGED <<requestVars, frameVars, device, shared>>
      BY <2>1 DEF frameVars, Shortened
    <2>2. CASE run \in Inside /\ CleansUp /\ GivesUp(asker, "failed") /\ asker # None
               /\ UNCHANGED <<device, shared>>
      BY <2>2, CleanupIsCalm DEF GaveUp
    <2>3. CASE run \in Inside /\ CleansUp /\ UNCHANGED <<requestVars, device, shared>>
      BY <2>3, CleanupIsCalm
    <2>4. CASE run = "cleaning" /\ UNCHANGED <<requestVars, frameVars, device, shared>>
      BY <2>4 DEF frameVars, Shortened
    <2> QED BY <2>1, <2>2, <2>3, <2>4 DEF Told
  <1> QED BY <1>1, <1>2, <1>3, <1>4 DEF Finishes

\* So every step of the specification is of one of the six kinds.
LEMMA Kinds ==
    ASSUME asker \in Requests \cup {None}, [Next]_vars
    PROVE  CtrlStep
  <1> USE DEF CtrlStep, Calm, Shortened
  <1>1. CASE \E r \in Requests : ApiAsks(r)
    BY <1>1 DEF ApiAsks, Asks
  <1>2. CASE ToolImports \/ LanClosed \/ LoopBreaks \/ KernelReleases
    BY <1>2 DEF ToolImports, LanClosed, LoopBreaks, KernelReleases, ctrlVars, frameVars
  <1>3. CASE Interrupt
    BY <1>3 DEF Interrupt, Ends, frameVars
  <1>4. CASE Loses
    BY <1>4 DEF Loses, Ends
  <1>5. CASE UNCHANGED vars
    BY <1>5 DEF vars, ctrlVars, frameVars
  <1> QED BY <1>1, <1>2, <1>3, <1>4, <1>5, RequestSteps, StartSteps, OnReadySteps, FinishSteps
          DEF Next

-----------------------------------------------------------------------------
(* The requests and their frames.                                           *)

RequestTypeOK ==
    /\ lastId \in 0 .. MaxRequests
    /\ futs \in [Ids -> Requests \cup {None}]
    /\ asking \in [Requests -> {"new", "waiting", "answered", "timed out", "failed"}]
    /\ idOf \in [Requests -> Ids \cup {0}]
    /\ got \in [Requests -> Answers \cup {NoAnswer}]
    /\ up \in Seq(Asked)
    /\ serving \in [id : Ids, of : Requests, local : SUBSET Devices,
                    at : {"local", "exported"}] \cup {NotServing}
    /\ down \in Seq(Answers)
    /\ device \in [Devices -> {"unplugged", "private", "shared"}]
    /\ shared \in [Requests -> SUBSET Devices]

\* Ids are given once and in order: the one of a request is its number.
Numbered ==
    /\ \A r \in Requests : asking[r] # "new" <=> r <= lastId
    /\ \A r \in Requests : asking[r] # "new" => idOf[r] = r
    /\ \A i \in Ids : futs[i] \in {None, i}
    /\ \A r \in Requests : asking[r] = "new" => futs[r] = None

\* Whoever has asked is reached by its id, or has given up and taken its future away.
Alive(r) == asking[r] # "new" /\ (asking[r] = "waiting" \/ futs[r] = None)

\* A frame names, and is for, a request that was made.
Belongs(f) == f.id = f.of /\ Alive(f.of)

Honest(f) ==
    ~ ExposeUnexported /\ asking[f.of] = "waiting" => f.devices \subseteq shared[f.of]

Among(s) == {s[i] : i \in 1 .. Len(s)}
Going == Among(up) \cup (IF serving = NotServing THEN {} ELSE {serving})

FramesOK ==
    /\ \A f \in Going : Belongs(f)
    /\ \A f \in Among(down) : Belongs(f) /\ Honest(f)

\* What is shared now was shared since the request was made.
Remembered == \A r \in Requests : asking[r] = "waiting" => Shared \subseteq shared[r]

RequestInv == RequestTypeOK /\ Numbered /\ FramesOK /\ Remembered /\ OwnAnswer

-----------------------------------------------------------------------------
(* Queues of frames.                                                        *)

\* What is in a queue has the type of its members.
LEMMA AmongType ==
    ASSUME NEW S, NEW s \in Seq(S)
    PROVE  Among(s) \subseteq S
  BY LenProperties, ElementOfSeq DEF Among

\* A queue that loses its end holds what it held before.
LEMMA AmongPrefix ==
    ASSUME NEW S, NEW s \in Seq(S), NEW n \in 0 .. Len(s)
    PROVE  SubSeq(s, 1, n) \in Seq(S) /\ Among(SubSeq(s, 1, n)) \subseteq Among(s)
  <1>1. Len(s) \in Nat /\ n \in Int /\ 1 \in Int
    BY LenProperties
  <1>2. \A i \in 1 .. n : s[i] \in S
    BY <1>1, ElementOfSeq
  <1>3. /\ SubSeq(s, 1, n) \in Seq(S)
        /\ Len(SubSeq(s, 1, n)) = n
        /\ \A i \in 1 .. n : SubSeq(s, 1, n)[i] = s[i]
    BY <1>1, <1>2, SubSeqProperties
  <1> QED BY <1>1, <1>3 DEF Among

\* The same for a queue whose first frame is read.
LEMMA AmongTail ==
    ASSUME NEW S, NEW s \in Seq(S), s # <<>>
    PROVE  /\ Head(s) \in Among(s)
           /\ Tail(s) \in Seq(S) /\ Among(Tail(s)) \subseteq Among(s)
  <1>1. Len(s) \in Nat /\ 1 <= Len(s)
    BY EmptySeq, LenProperties
  <1>2. Head(s) \in Among(s)
    BY <1>1, HeadTailProperties DEF Among
  <1>3. /\ Tail(s) \in Seq(S) /\ Len(Tail(s)) = Len(s) - 1
        /\ \A i \in 1 .. Len(Tail(s)) : Tail(s)[i] = s[i + 1]
    BY HeadTailProperties
  <1>4. Among(Tail(s)) \subseteq Among(s)
    <2>1. \A i \in 1 .. Len(Tail(s)) : i + 1 \in 1 .. Len(s) /\ Tail(s)[i] = s[i + 1]
      BY <1>1, <1>3
    <2> QED BY <2>1 DEF Among
  <1> QED BY <1>2, <1>3, <1>4

\* A frame that is sent is the only new one of its queue.
LEMMA AmongAppend ==
    ASSUME NEW S, NEW s \in Seq(S), NEW e \in S
    PROVE  Append(s, e) \in Seq(S) /\ Among(Append(s, e)) \subseteq Among(s) \cup {e}
  <1>1. /\ Append(s, e) \in Seq(S) /\ Len(Append(s, e)) = Len(s) + 1
        /\ \A i \in 1 .. Len(s) : Append(s, e)[i] = s[i]
        /\ Append(s, e)[Len(s) + 1] = e
    BY AppendProperties
  <1>2. \A i \in 1 .. Len(Append(s, e)) : i \in 1 .. Len(s) \/ i = Len(s) + 1
    BY <1>1, LenProperties
  <1> QED BY <1>1, <1>2 DEF Among

\* What is under way when a connection ends loses its end, if anything.
LEMMA Shortening ==
    ASSUME RequestTypeOK, Shortened
    PROVE  down' \in Seq(Answers) /\ Among(down)' \subseteq Among(down)
  <1>1. down \in Seq(Answers)
    BY DEF RequestTypeOK
  <1>2. CASE down' = down
    BY <1>1, <1>2 DEF Among
  <1>3. CASE \E n \in 0 .. Len(down) : down' = SubSeq(down, 1, n)
    <2>1. PICK n \in 0 .. Len(down) : down' = SubSeq(down, 1, n)
      BY <1>3
    <2>2. Among(down)' = Among(SubSeq(down, 1, n))
      BY <2>1 DEF Among
    <2> QED BY <1>1, <2>1, <2>2, AmongPrefix
  <1> QED BY <1>2, <1>3 DEF Shortened

\* Every frame is for one of the requests.
LEMMA FrameTypes ==
    ASSUME RequestTypeOK
    PROVE  /\ \A f \in Going : f.of \in Requests
           /\ \A f \in Among(down) : f \in Answers /\ f.of \in Requests
  <1>1. Among(up) \subseteq Asked /\ Among(down) \subseteq Answers
    BY AmongType DEF RequestTypeOK
  <1>2. serving # NotServing => serving.of \in Requests
    BY DEF RequestTypeOK
  <1> QED BY <1>1, <1>2 DEF Going, Asked, Answers

\* Frames stay true of their requests as long as no request is made anew and nothing is
\* taken out of what was shared since.
LEMMA FramesKept ==
    ASSUME RequestTypeOK, FramesOK,
           \A r \in Requests : Alive(r) => Alive(r)',
           \A r \in Requests : Alive(r) /\ asking'[r] = "waiting"
                              => asking[r] = "waiting" /\ shared[r] \subseteq shared'[r]
    PROVE  /\ \A f \in Going : Belongs(f)'
           /\ \A f \in Among(down) : Belongs(f)' /\ Honest(f)'
  <1>1. ASSUME NEW f, f.of \in Requests, Belongs(f)
        PROVE  Belongs(f)'
    BY <1>1 DEF Belongs
  <1>2. ASSUME NEW f, f.of \in Requests, Belongs(f), Honest(f)
        PROVE  Honest(f)'
    BY <1>2 DEF Belongs, Honest
  <1> QED BY <1>1, <1>2, FrameTypes DEF FramesOK

-----------------------------------------------------------------------------
(* One lemma for each kind of step.                                         *)

\* Neither the end of a connection nor a step of the client's own life touches a request.
LEMMA CalmKeeps == ASSUME RequestInv, Calm PROVE RequestInv'
  <1> USE DEF RequestInv
  <1>1. UNCHANGED <<requestVars, up, serving, device, shared>>
    BY DEF Calm
  <1>2. down' \in Seq(Answers) /\ Among(down)' \subseteq Among(down)
    BY Shortening DEF Calm
  <1>3. RequestTypeOK'
    BY <1>1, <1>2 DEF RequestTypeOK, requestVars
  <1>4. Numbered' /\ Remembered' /\ OwnAnswer'
    BY <1>1 DEF Numbered, Remembered, OwnAnswer, Shared, requestVars
  <1>5. FramesOK'
    BY <1>1, <1>2 DEF FramesOK, Going, Among, Belongs, Alive, Honest, requestVars
  <1> QED BY <1>3, <1>4, <1>5

\* A request that gives up takes its future away, so that its late answer finds none.
LEMMA GaveUpKeeps == ASSUME RequestInv, GaveUp PROVE RequestInv'
  <1> USE ControlAssumption DEF ControlAssumption, RequestInv
  <1>1. PICK r \in Requests, how \in {"timed out", "failed"} : GivesUp(r, how)
    BY DEF GaveUp
  <1>2. down' \in Seq(Answers) /\ Among(down)' \subseteq Among(down)
    BY Shortening DEF GaveUp
  <1>3. idOf[r] = r /\ asking[r] = "waiting" /\ r \in Ids
    BY <1>1 DEF GivesUp, Numbered, Requests, Ids
  <1>4. /\ futs' = [futs EXCEPT ![r] = None] /\ asking' = [asking EXCEPT ![r] = how]
        /\ UNCHANGED <<lastId, idOf, got, up, serving, device, shared>>
    BY <1>1, <1>3 DEF GivesUp, GaveUp
  <1>5. RequestTypeOK'
    BY <1>2, <1>4 DEF RequestTypeOK, Requests, Ids
  <1>6. Numbered'
    BY <1>3, <1>4 DEF Numbered, RequestTypeOK, Requests, Ids
  <1>7. Remembered' /\ OwnAnswer'
    <2>1. \A q \in Requests : asking'[q] \in {"answered", "waiting"} =>
             q # r /\ asking'[q] = asking[q] /\ idOf[q] = q /\ futs'[q] = futs[q]
      BY <1>3, <1>4 DEF RequestTypeOK, Numbered, Requests, Ids
    <2>2. Shared' = Shared
      BY <1>4 DEF Shared
    <2>3. Remembered'
      BY <1>4, <2>1, <2>2 DEF Remembered
    <2>4. OwnAnswer'
      <3>1. /\ got' = got /\ idOf' = idOf
            /\ \A q \in Requests : shared'[q] = shared[q]
        BY <1>4
      <3>2. ASSUME NEW q \in Requests, asking'[q] = "answered"
            PROVE  /\ got'[q].of = q
                   /\ ~ ExposeUnexported => got'[q].devices \subseteq shared'[q]
        BY <2>1, <3>1, <3>2 DEF OwnAnswer
      <3>3. ASSUME NEW q \in Requests, asking'[q] = "waiting"
            PROVE  futs'[idOf'[q]] = q
        BY <2>1, <3>1, <3>3 DEF OwnAnswer
      <3> QED BY <3>2, <3>3 DEF OwnAnswer
    <2> QED BY <2>3, <2>4
  <1>8. FramesOK'
    <2>1. /\ \A q \in Requests : Alive(q) => Alive(q)'
          /\ \A q \in Requests : asking'[q] = "waiting" => asking[q] = "waiting"
      BY <1>3, <1>4 DEF Alive, RequestTypeOK, Requests, Ids
    <2>2. /\ \A f \in Going : Belongs(f)'
          /\ \A f \in Among(down) : Belongs(f)' /\ Honest(f)'
      BY <1>4, <2>1, FramesKept
    <2>3. Going' = Going
      BY <1>4 DEF Going, Among
    <2> QED BY <1>2, <2>2, <2>3 DEF FramesOK
  <1> QED BY <1>5, <1>6, <1>7, <1>8

\* The requests are made in order, so that the next id is the number of the one that asks.
LEMMA AskKeeps == ASSUME RequestInv, Asks PROVE RequestInv'
  <1> USE ControlAssumption DEF ControlAssumption, RequestInv
  <1>1. PICK r \in Requests : Ask(r)
    BY DEF Asks
  <1>2. NextId = r /\ r \in Ids /\ r \in Nat /\ r # None /\ lastId \in Nat
    <2>0. lastId \in 0 .. MaxRequests /\ r \in 1 .. MaxRequests
      BY DEF RequestTypeOK, Requests
    <2>1. /\ lastId \in Nat /\ lastId <= MaxRequests
          /\ r \in Nat /\ 1 <= r /\ r <= MaxRequests
      BY <2>0
    <2>2. ~ (r <= lastId)
      BY <1>1 DEF Ask, Numbered
    <2>3. \A q \in 1 .. (r - 1) : q <= lastId
      BY <1>1, <2>1 DEF Ask, Numbered, Requests
    <2>4. r - 1 <= lastId
      BY <2>1, <2>3
    <2> QED BY <2>1, <2>2, <2>4 DEF NextId, Ids
  <1>3. /\ asking[r] = "new"
        /\ lastId' = r
        /\ idOf' = [idOf EXCEPT ![r] = r]
        /\ futs' = [futs EXCEPT ![r] = r]
        /\ shared' = [shared EXCEPT ![r] = Shared]
        /\ \/ /\ asking' = [asking EXCEPT ![r] = "waiting"]
              /\ up' = Append(up, [id |-> r, of |-> r])
           \/ /\ asking' = [asking EXCEPT ![r] = "failed"]
              /\ up' = up
        /\ UNCHANGED <<got, serving, down, device>>
    BY <1>1, <1>2 DEF Ask
  <1>4. /\ up' \in Seq(Asked)
        /\ \/ Among(up)' \subseteq Among(up)
           \/ asking'[r] = "waiting" /\ Among(up)' \subseteq Among(up) \cup {[id |-> r, of |-> r]}
    <2>1. up \in Seq(Asked) /\ [id |-> r, of |-> r] \in Asked /\ asking[r] = "new"
      BY <1>2, <1>3 DEF RequestTypeOK, Asked
    <2>2. CASE up' = up
      BY <2>1, <2>2 DEF Among
    <2>3. CASE asking' = [asking EXCEPT ![r] = "waiting"] /\ up' = Append(up, [id |-> r, of |-> r])
      <3>1. Among(up)' = Among(Append(up, [id |-> r, of |-> r]))
        BY <2>3 DEF Among
      <3>2. asking'[r] = "waiting"
        BY <2>3 DEF RequestTypeOK
      <3> QED BY <2>1, <2>3, <3>1, <3>2, AmongAppend
    <2> QED BY <1>3, <2>2, <2>3
  <1>5. RequestTypeOK'
    <2>1. Shared \in SUBSET Devices
      BY DEF Shared
    <2>2. lastId' \in 0 .. MaxRequests
      BY <1>2, <1>3 DEF Requests
    <2> QED BY <1>2, <1>3, <1>4, <2>1, <2>2 DEF RequestTypeOK
  <1>6. Numbered'
    <2>1. \A q \in Requests : q <= r <=> q = r \/ q <= lastId
      BY <1>2 DEF Requests, NextId
    <2> QED BY <1>2, <1>3, <2>1 DEF Numbered, RequestTypeOK, Requests, Ids
  <1>7. Remembered' /\ OwnAnswer'
    <2>1. asking'[r] \in {"waiting", "failed"} /\ idOf'[r] = r /\ futs'[r] = r /\ shared'[r] = Shared
      BY <1>2, <1>3 DEF RequestTypeOK
    <2>2. ASSUME NEW q \in Requests, q # r
          PROVE  /\ asking'[q] = asking[q] /\ idOf'[q] = idOf[q] /\ shared'[q] = shared[q]
                 /\ asking[q] # "new" => idOf[q] = q /\ futs'[q] = futs[q]
      BY <1>2, <1>3, <2>2 DEF RequestTypeOK, Numbered, Requests, Ids
    <2>3. UNCHANGED <<got, device>> /\ Shared' = Shared
      BY <1>3 DEF Shared
    <2> QED BY <2>1, <2>2, <2>3 DEF Remembered, OwnAnswer
  <1>8. FramesOK'
    <2>1. \A q \in Requests : Alive(q) => q # r
      BY <1>3 DEF Alive
    <2>2. ASSUME NEW q \in Requests, q # r
          PROVE  asking'[q] = asking[q] /\ futs'[q] = futs[q] /\ shared'[q] = shared[q]
      BY <1>2, <1>3, <2>2 DEF RequestTypeOK, Requests, Ids
    <2>3. /\ \A q \in Requests : Alive(q) => Alive(q)'
          /\ \A q \in Requests : Alive(q) /\ asking'[q] = "waiting"
                                => asking[q] = "waiting" /\ shared[q] \subseteq shared'[q]
      BY <2>1, <2>2 DEF Alive
    <2>4. /\ \A f \in Going : Belongs(f)'
          /\ \A f \in Among(down) : Belongs(f)' /\ Honest(f)'
      BY <2>3, FramesKept
    <2>5. asking'[r] = "waiting" => Belongs([id |-> r, of |-> r])'
      BY DEF Belongs, Alive
    <2>6. \A f \in Going' : f \in Going \/ (asking'[r] = "waiting" /\ f = [id |-> r, of |-> r])
      BY <1>3, <1>4 DEF Going
    <2>7. Among(down)' = Among(down)
      BY <1>3 DEF Among
    <2>8. \A f \in Going' : Belongs(f)'
      BY <2>4, <2>5, <2>6
    <2> QED BY <2>4, <2>7, <2>8 DEF FramesOK
  <1> QED BY <1>5, <1>6, <1>7, <1>8

\* The frame loop finds the future of the request that the answer is for, or none.
LEMMA ReplyKeeps == ASSUME RequestInv, Reply PROVE RequestInv'
  <1> USE ControlAssumption DEF ControlAssumption, RequestInv
  <1> DEFINE answer == Head(down)
             r == futs[answer.id]
  <1>1. /\ answer \in Among(down)
        /\ Tail(down) \in Seq(Answers) /\ Among(Tail(down)) \subseteq Among(down)
    BY AmongTail DEF RequestTypeOK, Reply
  <1>2. /\ answer \in Answers /\ answer.of \in Requests /\ answer.id = answer.of
        /\ Alive(answer.of) /\ Honest(answer)
    BY <1>1, FrameTypes DEF FramesOK, Belongs
  <1>3. /\ down' = Tail(down)
        /\ UNCHANGED <<lastId, idOf, up, serving, device, shared>>
        /\ \/ r = None /\ UNCHANGED <<futs, asking, got>>
           \/ /\ r # None
              /\ futs' = [futs EXCEPT ![answer.id] = None]
              /\ asking' = [asking EXCEPT ![r] = "answered"]
              /\ got' = [got EXCEPT ![r] = answer]
    BY DEF Reply
  <1>4. Among(down)' \subseteq Among(down) /\ Going' = Going
    BY <1>1, <1>3 DEF Among, Going
  <1>5. CASE r = None
    <2>1. UNCHANGED requestVars
      BY <1>3, <1>5 DEF requestVars
    <2>2. RequestTypeOK'
      BY <1>1, <1>3, <2>1 DEF RequestTypeOK, requestVars
    <2>3. Numbered' /\ Remembered' /\ OwnAnswer'
      BY <1>3, <2>1 DEF Numbered, Remembered, OwnAnswer, Shared, requestVars
    <2>4. FramesOK'
      BY <1>3, <1>4, <2>1 DEF FramesOK, Belongs, Alive, Honest, requestVars
    <2> QED BY <2>2, <2>3, <2>4
  <1>6. CASE r # None
    <2>1. r = answer.of /\ r \in Requests /\ asking[r] = "waiting"
      BY <1>2, <1>6 DEF Numbered, Alive, Requests, Ids
    <2>2. /\ futs' = [futs EXCEPT ![r] = None]
          /\ asking' = [asking EXCEPT ![r] = "answered"]
          /\ got' = [got EXCEPT ![r] = answer]
      BY <1>2, <1>3, <1>6, <2>1
    <2> HIDE DEF r
    <2>3. RequestTypeOK'
      BY <1>1, <1>2, <1>3, <2>1, <2>2 DEF RequestTypeOK, Requests, Ids
    <2>4. Numbered'
      BY <1>3, <2>1, <2>2 DEF Numbered, RequestTypeOK, Requests, Ids
    <2>5. \A q \in Requests \ {r} :
             asking'[q] = asking[q] /\ futs'[q] = futs[q] /\ got'[q] = got[q]
      BY <2>1, <2>2 DEF RequestTypeOK, Requests, Ids
    <2>6. asking'[r] = "answered" /\ futs'[r] = None /\ got'[r] = answer
      BY <2>1, <2>2 DEF RequestTypeOK, Requests, Ids
    <2>7. Remembered'
      BY <1>3, <2>5, <2>6 DEF Remembered, Shared
    <2>8. OwnAnswer'
      <3>1. ~ ExposeUnexported => answer.devices \subseteq shared[r]
        BY <1>2, <2>1 DEF Honest
      <3>2. \A q \in Requests : asking[q] = "waiting" => idOf[q] = q
        BY DEF Numbered
      <3> QED BY <1>3, <2>1, <2>5, <2>6, <3>1, <3>2 DEF OwnAnswer
    <2>9. FramesOK'
      <3>1. /\ \A q \in Requests : Alive(q) => Alive(q)'
            /\ \A q \in Requests : asking'[q] = "waiting" => asking[q] = "waiting"
        BY <2>1, <2>5, <2>6 DEF Alive
      <3>2. /\ \A f \in Going : Belongs(f)'
            /\ \A f \in Among(down) : Belongs(f)' /\ Honest(f)'
        BY <1>3, <3>1, FramesKept
      <3> QED BY <1>4, <3>2 DEF FramesOK
    <2> QED BY <2>3, <2>4, <2>7, <2>8, <2>9
  <1> QED BY <1>5, <1>6

\* The server takes a request off the queue and sends at most one answer, to that request;
\* the answer names what is shared when `usbip list -r` returns (server.py:747-771).
LEMMA ServerKeeps == ASSUME RequestInv, ServerNext PROVE RequestInv'
  <1> USE ControlAssumption DEF ControlAssumption, RequestInv
  <1>1. UNCHANGED <<requestVars, device, shared>>
    BY DEF ServerNext, ServerTakes, ListsLocal, ListsExported
  <1>2. Numbered' /\ Remembered' /\ OwnAnswer'
    BY <1>1 DEF Numbered, Remembered, OwnAnswer, Shared, requestVars
  <1>3. ASSUME NEW f
        PROVE  /\ Belongs(f) => Belongs(f)'
               /\ Honest(f) => Honest(f)'
    BY <1>1 DEF Belongs, Alive, Honest, requestVars
  <1>4. CASE ServerTakes
    <2>1. /\ Head(up) \in Among(up)
          /\ Tail(up) \in Seq(Asked) /\ Among(Tail(up)) \subseteq Among(up)
          /\ Among(up) \subseteq Asked
      BY <1>4, AmongTail, AmongType DEF RequestTypeOK, ServerTakes
    <2>2. /\ serving = NotServing /\ up' = Tail(up) /\ down' = down
          /\ serving' = [id |-> Head(up).id, of |-> Head(up).of, local |-> {}, at |-> "local"]
      BY <1>4 DEF ServerTakes
    <2>3. RequestTypeOK'
      BY <1>1, <2>1, <2>2 DEF RequestTypeOK, Asked, requestVars
    <2>4. Belongs(Head(up))
      BY <2>1 DEF FramesOK, Going
    <2>5. Belongs(serving')
      BY <2>2, <2>4 DEF Belongs
    <2>6. \A f \in Going' : f \in Going \/ f = serving'
      BY <2>1, <2>2 DEF Going, Among
    <2>7. \A f \in Going' : Belongs(f)'
      BY <1>3, <2>5, <2>6 DEF FramesOK
    <2> QED BY <1>2, <1>3, <2>2, <2>3, <2>7 DEF FramesOK, Among
  <1>5. CASE ListsLocal
    <2>1. PICK found \in {{d \in Devices : device[d] # "unplugged"}, {}} :
             serving' = [serving EXCEPT !.local = found, !.at = "exported"]
      BY <1>5 DEF ListsLocal
    <2>2. serving # NotServing /\ UNCHANGED <<up, down>>
      BY <1>5 DEF ListsLocal, NotServing
    <2>3. /\ serving' \in [id : Ids, of : Requests, local : SUBSET Devices, at : {"local", "exported"}]
          /\ serving'.id = serving.id /\ serving'.of = serving.of
      BY <2>1, <2>2 DEF RequestTypeOK
    <2>4. RequestTypeOK'
      BY <1>1, <2>2, <2>3 DEF RequestTypeOK, requestVars
    <2>5. Belongs(serving')
      BY <2>2, <2>3 DEF FramesOK, Going, Belongs
    <2>6. \A f \in Going' : f \in Going \/ f = serving'
      BY <2>2 DEF Going, Among
    <2>7. \A f \in Going' : Belongs(f)'
      BY <1>3, <2>5, <2>6 DEF FramesOK
    <2> QED BY <1>2, <1>3, <2>2, <2>4, <2>7 DEF FramesOK, Among
  <1>6. CASE ListsExported
    <2>1. PICK exported \in {Shared, {}} :
             down' = IF conn = "up"
                     THEN Append(down, [id |-> serving.id, of |-> serving.of,
                                        devices |-> Filtered(serving.local, exported)])
                     ELSE down
      BY <1>6 DEF ListsExported
    <2> DEFINE answer == [id |-> serving.id, of |-> serving.of,
                          devices |-> Filtered(serving.local, exported)]
    <2>2. serving # NotServing /\ serving' = NotServing /\ up' = up
      BY <1>6 DEF ListsExported, NotServing
    <2>3. /\ serving.id \in Ids /\ serving.of \in Requests /\ serving.local \subseteq Devices
          /\ Filtered(serving.local, exported) \subseteq Devices
          /\ ~ ExposeUnexported => Filtered(serving.local, exported) \subseteq Shared
      BY <2>2 DEF RequestTypeOK, Filtered
    <2>4. answer \in Answers /\ answer.id = serving.id /\ answer.of = serving.of
          /\ answer.devices = Filtered(serving.local, exported)
      BY <2>3 DEF Answers
    <2> HIDE DEF answer
    <2>5. down' \in Seq(Answers) /\ Among(down)' \subseteq Among(down) \cup {answer}
      <3>1. CASE down' = down
        BY <3>1 DEF RequestTypeOK, Among
      <3>2. CASE down' = Append(down, answer)
        <4>1. Among(down)' = Among(Append(down, answer))
          BY <3>2 DEF Among
        <4> QED BY <2>4, <3>2, <4>1, AmongAppend DEF RequestTypeOK
      <3> QED BY <2>1, <3>1, <3>2 DEF answer
    <2>6. RequestTypeOK'
      BY <1>1, <2>2, <2>5 DEF RequestTypeOK, requestVars
    <2>7. Belongs(serving)
      BY <2>2 DEF FramesOK, Going
    <2>8. Belongs(answer)
      BY <2>4, <2>7 DEF Belongs
    <2>9. Honest(answer)
      BY <2>3, <2>4 DEF Honest, Remembered
    <2>10. \A f \in Among(down)' : Belongs(f)' /\ Honest(f)'
      BY <1>3, <2>5, <2>8, <2>9 DEF FramesOK
    <2>11. \A f \in Going' : f \in Going
      BY <2>2 DEF Going, Among
    <2> QED BY <1>2, <1>3, <2>6, <2>10, <2>11 DEF FramesOK
  <1> QED BY <1>4, <1>5, <1>6 DEF ServerNext

\* What is shared now is remembered by every request that waits.
LEMMA DevicesKeep == ASSUME RequestInv, DeviceChanges PROVE RequestInv'
  <1> USE DEF RequestInv
  <1>1. PICK d \in Devices, now \in {"unplugged", "private", "shared"} :
          /\ device' = [device EXCEPT ![d] = now]
          /\ shared' = [r \in Requests |->
                          IF asking[r] = "waiting" /\ now = "shared"
                          THEN shared[r] \cup {d} ELSE shared[r]]
    BY DEF DeviceChanges
  <1>2. UNCHANGED <<requestVars, up, serving, down>>
    BY DEF DeviceChanges, frameVars
  <1>3. \A r \in Requests : shared[r] \subseteq shared'[r]
    BY <1>1
  <1>4. RequestTypeOK'
    BY <1>1, <1>2 DEF RequestTypeOK, requestVars
  <1>5. Numbered'
    BY <1>2 DEF Numbered, requestVars
  <1>6. OwnAnswer'
    BY <1>2, <1>3 DEF OwnAnswer, requestVars
  <1>7. Remembered'
    <2>1. Shared' \subseteq Shared \cup (IF now = "shared" THEN {d} ELSE {})
      BY <1>1 DEF Shared, RequestTypeOK
    <2>2. \A r \in Requests : asking[r] = "waiting" /\ now = "shared" => d \in shared'[r]
      BY <1>1
    <2>3. asking' = asking
      BY <1>2 DEF requestVars
    <2> QED BY <1>3, <2>1, <2>2, <2>3 DEF Remembered
  <1>8. FramesOK'
    <2>1. asking' = asking /\ futs' = futs
      BY <1>2 DEF requestVars
    <2>2. /\ \A r \in Requests : Alive(r) => Alive(r)'
          /\ \A r \in Requests : Alive(r) /\ asking'[r] = "waiting"
                                => asking[r] = "waiting" /\ shared[r] \subseteq shared'[r]
      BY <1>3, <2>1 DEF Alive
    <2>3. /\ \A f \in Going : Belongs(f)'
          /\ \A f \in Among(down) : Belongs(f)' /\ Honest(f)'
      BY <2>2, FramesKept
    <2>4. Going' = Going /\ Among(down)' = Among(down)
      BY <1>2 DEF Going, Among
    <2> QED BY <2>3, <2>4 DEF FramesOK
  <1> QED BY <1>4, <1>5, <1>6, <1>7, <1>8

-----------------------------------------------------------------------------
(* The theorem.                                                             *)

AskerOK == asker \in Requests \cup {None}

\* The request of list-usb is one of the requests.
LEMMA AskerStep == AskerOK /\ [Next]_vars => AskerOK'
  <1> SUFFICES ASSUME AskerOK, [Next]_vars
               PROVE  AskerOK'
    OBVIOUS
  <1> USE DEF AskerOK
  <1>1. CASE RequestStep \/ (\E r \in Requests : ApiAsks(r)) \/ Loses \/ LoopBreaks \/ UNCHANGED vars
    BY <1>1 DEF RequestStep, ApiAsks, Loses, LoopBreaks, vars, runVars
  <1>2. CASE Starts
    BY <1>2 DEF Starts, Dialed, Greeted, TapOpens, LanStarted, Readies, ForwardFails
  <1>3. CASE OnReady
    BY <1>3 DEF OnReady, ListAsks, ListPrints, AttachBegins, ToolEnds
  <1>4. CASE Finishes
    BY <1>4 DEF Finishes, PumpEnds, LoopEnds, Leaves, Cleaned, Told, StopSet, Joined, Detached,
         runVars
  <1>5. CASE ToolImports \/ LanClosed \/ KernelReleases \/ Interrupt
    BY <1>5 DEF ToolImports, LanClosed, KernelReleases, Interrupt
  <1> QED BY <1>1, <1>2, <1>3, <1>4, <1>5 DEF Next

\* Before the first request there is no frame, and nothing to mistake for an answer.
LEMMA RequestInit == Init => AskerOK /\ RequestInv
  <1> SUFFICES ASSUME Init
               PROVE  AskerOK /\ RequestInv
    OBVIOUS
  <1> USE DEF Init, ControlInit
  <1>1. MaxRequests \in Nat
    BY ControlAssumption DEF ControlAssumption
  <1>2. up = <<>> /\ down = <<>> /\ serving = NotServing
    OBVIOUS
  <1>3. RequestTypeOK
    BY <1>1, EmptySeq DEF RequestTypeOK
  <1>4. Numbered
    BY <1>1 DEF Numbered, Requests, Ids
  <1>5. Remembered /\ OwnAnswer
    BY DEF Remembered, OwnAnswer
  <1>6. FramesOK
    <2>1. Going = {} /\ Among(down) = {}
      BY <1>2, EmptySeq DEF Going, Among
    <2> QED BY <2>1 DEF FramesOK
  <1> QED BY <1>3, <1>4, <1>5, <1>6 DEF AskerOK, RequestInv

\* Every step keeps the invariant of the requests.
LEMMA RequestsStep == AskerOK /\ RequestInv /\ [Next]_vars => (AskerOK /\ RequestInv)'
  <1> SUFFICES ASSUME AskerOK, RequestInv, [Next]_vars
               PROVE  AskerOK' /\ RequestInv'
    OBVIOUS
  <1>1. CtrlStep
    BY Kinds DEF AskerOK
  <1> QED BY <1>1, AskerStep, CalmKeeps, GaveUpKeeps, AskKeeps, ReplyKeeps, ServerKeeps,
             DevicesKeep DEF CtrlStep

\* A request returns the answer to itself and to no other, whatever the order in which
\* answers, timeouts, cancellations and the end of the connection come, and the answer names
\* nothing that was not shared since it asked (client.py:305-325, server.py:747-771).
THEOREM OwnAnswers == Spec => []OwnAnswer
  <1>1. RequestInv => OwnAnswer
    BY DEF RequestInv
  <1> QED BY <1>1, RequestInit, RequestsStep, PTL DEF Spec

LifeTypeOK ==
    /\ mode \in {"connect", "list-usb", "attach"}
    /\ run \in Early \cup Inside \cup {"cleaning", "ended", "failed"}
    /\ loop \in IF run \in Early \cup {"failed"} THEN {"none"}
                ELSE {"reading", "ended", "broken"}

-----------------------------------------------------------------------------
(* What is left of a client.                                                *)

\* What _cleanup has done before it awaits the deletion of the tap stays done.
Quiet == ~ forward /\ tap = "none" /\ pump # "running" /\ loop # "reading"

LeftInv ==
    /\ LifeTypeOK
    /\ run \in {"cleaning", "ended"} => Quiet
    /\ run = "ended" /\ "cleanup" \notin cutShort => conn = "closed"

\* A client begins with nothing to clean up and ahead of its end.
LEMMA LeftInit == Init => LeftInv
  BY DEF Init, LeftInv, LifeTypeOK, Early

\* However run_connected is left, its _cleanup has the tasks cancelled, the forward and the
\* tap closed when it is suspended or over (client.py:328-345).
LEMMA CleanupIsQuiet ==
    ASSUME CleansUp, LifeTypeOK
    PROVE  /\ run' \in {"cleaning", "ended"} /\ Quiet'
           /\ run' = "ended" => conn' = "closed"
  BY DEF CleansUp, Quiet, Ends

\* No step of a client undoes its cleanup, nor ends it without one.
LEMMA LeftStep == LeftInv /\ [Next]_vars => LeftInv'
  <1> SUFFICES ASSUME LeftInv, [Next]_vars
               PROVE  LeftInv'
    OBVIOUS
  <1> USE DEF LeftInv, LifeTypeOK, Quiet, Early, Inside
  <1>1. CASE RequestStep
    BY <1>1 DEF RequestStep, runVars, tapVars, toolVars, history, TimesOut, Reply, ServerNext,
         ServerTakes, ListsLocal, ListsExported, DeviceChanges
  <1>2. CASE Starts
    <2>1. CASE Dialed
      BY <2>1 DEF Dialed, Fails, history
    <2>2. CASE Greeted
      BY <2>2 DEF Greeted, Fails, history, ctrlVars
    <2>3. CASE TapOpens
      BY <2>3 DEF TapOpens, Fails, history, ctrlVars
    <2>4. CASE LanStarted
      BY <2>4 DEF LanStarted, history, ctrlVars
    <2>5. CASE Readies
      BY <2>5 DEF Readies, history
    <2>6. CASE ForwardFails
      BY <2>6 DEF ForwardFails, Fails, history, ctrlVars
    <2> QED BY <1>2, <2>1, <2>2, <2>3, <2>4, <2>5, <2>6 DEF Starts
  <1>3. CASE OnReady
    BY <1>3 DEF OnReady, ListAsks, ListPrints, AttachBegins, ToolEnds, tapVars, toolVars, history,
         ctrlVars, Ends
  <1>4. CASE Finishes
    <2>1. CASE PumpEnds \/ LoopEnds \/ StopSet \/ Joined \/ Detached
      <3>1. CASE PumpEnds
        BY <2>1, <3>1 DEF PumpEnds, ctrlVars, history
      <3>2. CASE LoopEnds
        BY <3>2 DEF LoopEnds, runVars, tapVars, history
      <3>3. CASE StopSet
        BY <3>3 DEF StopSet, ctrlVars, tapVars, history
      <3>4. CASE Joined \/ Detached
        <4>1. /\ UNCHANGED <<ctrlVars, mode, run, forward, tapVars>>
              /\ "cleanup" \in cutShort => "cleanup" \in cutShort'
          BY <3>4 DEF Joined, Detached, history
        <4>2. cutShort' \in {cutShort, cutShort \cup {"detach"}}
          BY <3>4 DEF Joined, Detached, history
        <4> QED BY <4>1, <4>2 DEF ctrlVars, tapVars
      <3> QED BY <2>1, <3>1, <3>2, <3>3, <3>4
    <2>2. CASE Leaves
      <3>1. UNCHANGED <<mode, cutShort>> /\ loop # "none" /\ CleansUp
        BY <2>2 DEF Leaves, history
      <3> QED BY <3>1, CleanupIsQuiet DEF CleansUp
    <2>3. CASE Cleaned
      BY <2>3 DEF Cleaned, Ends, tapVars, history
    <2>4. CASE Told
      <3>1. CASE run \in Early /\ Fails
        BY <2>4, <3>1 DEF Told, Fails
      <3>2. CASE run \in Inside /\ CleansUp
        <4>1. UNCHANGED <<mode, cutShort>> /\ loop # "none"
          BY <2>4, <3>2 DEF Told
        <4> QED BY <3>2, <4>1, CleanupIsQuiet DEF CleansUp
      <3>3. CASE run = "cleaning"
        BY <2>4, <3>3 DEF Told, tapVars
      <3> QED BY <2>4, <3>1, <3>2, <3>3 DEF Told
    <2> QED BY <1>4, <2>1, <2>2, <2>3, <2>4 DEF Finishes
  <1>5. CASE \E r \in Requests : ApiAsks(r)
    <2>1. UNCHANGED <<conn, loop, runVars>>
      BY <1>5 DEF ApiAsks
    <2> QED BY <2>1 DEF runVars, tapVars, history
  <1>6. CASE ToolImports \/ LanClosed \/ LoopBreaks \/ KernelReleases
    <2>1. CASE ToolImports
      BY <2>1 DEF ToolImports, ctrlVars, tapVars, history
    <2>2. CASE LanClosed
      BY <2>2 DEF LanClosed, ctrlVars, history
    <2>3. CASE KernelReleases
      BY <2>3 DEF KernelReleases, ctrlVars, tapVars, history
    <2>4. CASE LoopBreaks
      BY <2>4 DEF LoopBreaks, runVars, tapVars, history
    <2> QED BY <1>6, <2>1, <2>2, <2>3, <2>4
  <1>7. CASE Interrupt \/ Loses
    <2>1. CASE Interrupt
      <3>1. UNCHANGED <<loop, mode, run, forward, tapVars, cutShort>>
        BY <2>1 DEF Interrupt
      <3>2. conn' = conn \/ conn' = "closed"
        BY <2>1 DEF Interrupt, Ends
      <3> QED BY <3>1, <3>2 DEF tapVars
    <2>2. CASE Loses
      BY <2>2 DEF Loses, Ends, runVars, tapVars, history
    <2> QED BY <1>7, <2>1, <2>2
  <1>8. CASE UNCHANGED vars
    BY <1>8 DEF vars, runVars, tapVars, toolVars, history, ctrlVars
  <1> QED BY <1>1, <1>2, <1>3, <1>4, <1>5, <1>6, <1>7, <1>8 DEF Next

\* A client whose run_connected is over, however it was left, listens no more, holds no tap,
\* pumps and reads no frames, and has closed its connection unless its cleanup was
\* cancelled (client.py:173-178, 328-345).
THEOREM NothingStays == Spec => []NothingLeft
  <1>1. LeftInv => NothingLeft
    BY DEF LeftInv, Quiet, NothingLeft
  <1> QED BY <1>1, LeftInit, LeftStep, PTL DEF Spec

-----------------------------------------------------------------------------
(* What attach leaves in the kernel.                                        *)

\* How far the tool is follows from where run is suspended, and the outcome is known once it
\* has ended.  It is the user alone who can cancel the client while the tool runs.
ToolInv ==
    /\ imported \in BOOLEAN /\ tool \in {"none", "running", "ended"}
    /\ imported => tool # "none"
    /\ tool = "ended" => attached \in BOOLEAN
    /\ tool # "ended" => attached = None
    /\ attached = FALSE /\ "tool" \notin cutShort => ~ imported
    /\ run \in Early \cup {"settling"} => tool = "none"

AloneInv ==
    ~ interrupted =>
        /\ tool = "running" => run = "attaching"
        /\ cancelled => tool = "ended"
        /\ main \in {"detaching", "ended"} => RunDone

AttachInv == LifeTypeOK /\ ToolInv /\ AloneInv /\ ReleasedAtEnd

\* The command begins with no tool and nothing imported.
LEMMA AttachInit == Init => AttachInv
  BY DEF Init, AttachInv, LifeTypeOK, ToolInv, AloneInv, ReleasedAtEnd, Early

\* Before the tool has been started, run may go wherever it likes.
LEMMA Onward ==
    ASSUME AttachInv, LifeTypeOK', run \in Early,
           UNCHANGED <<main, toolVars, history>>, cancelled' => cancelled
    PROVE  AttachInv'
  <1>1. tool = "none" /\ ~ imported /\ attached = None
    BY DEF AttachInv, ToolInv
  <1>2. tool' = "none" /\ ~ imported' /\ attached' = None /\ UNCHANGED <<main, imported, interrupted>>
    BY <1>1 DEF toolVars, history
  <1>3. ToolInv'
    BY <1>2, RunAssumption DEF AttachInv, ToolInv
  <1>4. AloneInv'
    <2>1. ~ interrupted => ~ cancelled /\ main \notin {"detaching", "ended"}
      BY <1>1 DEF AttachInv, AloneInv, RunDone, Early
    <2> QED BY <1>2, <2>1 DEF AloneInv
  <1>5. ReleasedAtEnd'
    BY <1>2 DEF ReleasedAtEnd
  <1> QED BY <1>3, <1>4, <1>5 DEF AttachInv

\* What stood in the way of the release stays on record: a frame loop that is broken is
\* never whole again.
LEMMA HindranceStays ==
    LifeTypeOK /\ [Next]_vars => (Unhindered' => Unhindered /\ "tool" \notin cutShort)
  <1> SUFFICES ASSUME LifeTypeOK, [Next]_vars
               PROVE  cutShort \subseteq cutShort' /\ (loop = "broken" => loop' = "broken")
    BY DEF Unhindered
  <1> USE DEF LifeTypeOK, Early, Inside
  <1>1. CASE RequestStep \/ (\E r \in Requests : ApiAsks(r)) \/ UNCHANGED vars
    <2>1. UNCHANGED <<loop, runVars>>
      BY <1>1 DEF RequestStep, ApiAsks, vars, ctrlVars, TimesOut, Reply, ServerNext, ServerTakes,
           ListsLocal, ListsExported, DeviceChanges
    <2> QED BY <2>1 DEF runVars, history
  <1>2. CASE Starts
    <2>1. cutShort' = cutShort
      BY <1>2 DEF Starts, Dialed, Greeted, TapOpens, LanStarted, Readies, ForwardFails, history
    <2>2. loop # "broken"
      BY <1>2 DEF Starts, Dialed, Greeted, TapOpens, LanStarted, Readies, ForwardFails
    <2> QED BY <2>1, <2>2
  <1>3. CASE OnReady
    <2>1. loop' = loop
      BY <1>3 DEF OnReady, ListAsks, ListPrints, AttachBegins, ToolEnds, ctrlVars
    <2>2. cutShort' \in {cutShort, cutShort \cup {"tool"}}
      BY <1>3 DEF OnReady, ListAsks, ListPrints, AttachBegins, ToolEnds, history
    <2> QED BY <2>1, <2>2
  <1>4. CASE Finishes
    <2>1. loop = "broken" => loop' = loop
      BY <1>4 DEF Finishes, PumpEnds, LoopEnds, Leaves, Cleaned, Told, StopSet, Joined, Detached,
           CleansUp, ctrlVars
    <2>2. cutShort' \in {cutShort, cutShort \cup {"cleanup"}, cutShort \cup {"detach"}}
      BY <1>4 DEF Finishes, PumpEnds, LoopEnds, Leaves, Cleaned, Told, StopSet, Joined, Detached,
           runVars, history
    <2> QED BY <2>1, <2>2
  <1>5. CASE ToolImports \/ LanClosed \/ LoopBreaks \/ Interrupt \/ Loses \/ KernelReleases
    BY <1>5 DEF ToolImports, LanClosed, LoopBreaks, Interrupt, Loses, KernelReleases, ctrlVars,
         runVars, history
  <1> QED BY <1>1, <1>2, <1>3, <1>4, <1>5 DEF Next

\* No step of the client, its user and its kernel undoes what the attach relies on.
LEMMA AttachStep == LeftInv /\ AttachInv /\ [Next]_vars => AttachInv'
  <1> SUFFICES ASSUME LeftInv, AttachInv, [Next]_vars
               PROVE  AttachInv'
    OBVIOUS
  <1>0. LifeTypeOK'
    BY LeftStep DEF LeftInv
  <1>9. Unhindered' => Unhindered /\ "tool" \notin cutShort
    BY HindranceStays DEF AttachInv
  <1> USE RunAssumption
      DEF AttachInv, LifeTypeOK, ToolInv, AloneInv, ReleasedAtEnd, Early, Inside, RunDone
  <1>1. CASE RequestStep \/ (\E r \in Requests : ApiAsks(r)) \/ Loses \/ LoopBreaks \/ UNCHANGED vars
    <2>1. UNCHANGED runVars
      BY <1>1 DEF RequestStep, ApiAsks, Loses, LoopBreaks, vars
    <2> QED BY <1>0, <1>9, <2>1 DEF runVars, toolVars, history
  <1>2. CASE Starts
    <2>1. run \in Early /\ UNCHANGED <<main, toolVars, history>>
      BY <1>2 DEF Starts, Dialed, Greeted, TapOpens, LanStarted, Readies, ForwardFails
    <2>2. cancelled' => cancelled
      BY <1>2 DEF Starts, Dialed, Greeted, TapOpens, LanStarted, Readies, ForwardFails, Fails
    <2> QED BY <1>0, <2>1, <2>2, Onward
  <1>3. CASE OnReady
    <2>1. CASE ListAsks \/ ListPrints
      <3>1. /\ UNCHANGED <<main, cancelled, toolVars, history>>
            /\ run = "asking" /\ run' \in {"asking", "looping"}
        BY <2>1 DEF ListAsks, ListPrints
      <3> QED BY <1>0, <1>9, <3>1 DEF toolVars, history
    <2>2. CASE AttachBegins
      BY <1>0, <1>9, <2>2 DEF AttachBegins, history
    <2>3. CASE ToolEnds
      <3>1. tool = "running" /\ run = "attaching" /\ ~ cancelled /\ imported \in BOOLEAN
        BY <2>3 DEF ToolEnds
      <3>2. /\ tool' = "ended" /\ run' = "looping"
            /\ UNCHANGED <<main, cancelled, imported, interrupted>>
            /\ \/ attached' = imported /\ cutShort' = cutShort
               \/ attached' = FALSE /\ "tool" \in cutShort'
        BY <2>3 DEF ToolEnds
      <3>3. ToolInv'
        BY <3>1, <3>2
      <3>4. AloneInv' /\ ReleasedAtEnd'
        BY <1>9, <3>1, <3>2
      <3> QED BY <1>0, <3>3, <3>4
    <2> QED BY <1>3, <2>1, <2>2, <2>3 DEF OnReady
  <1>4. CASE Finishes
    <2>1. CASE PumpEnds \/ LoopEnds
      <3>1. UNCHANGED <<mode, run, cancelled, main, toolVars, history>>
        BY <2>1 DEF PumpEnds, LoopEnds, runVars
      <3> QED BY <1>0, <1>9, <3>1 DEF toolVars, history
    <2>2. CASE Leaves
      BY <1>0, <1>9, <2>2, CleanupIsQuiet DEF Leaves, toolVars, history
    <2>3. CASE Cleaned
      BY <1>0, <1>9, <2>3 DEF Cleaned, toolVars, history
    <2>4. CASE Told
      <3>1. CASE run \in Early /\ Fails
        BY <1>0, <1>9, <2>4, <3>1 DEF Told, Fails, toolVars
      <3>2. CASE run \in Inside /\ CleansUp
        BY <1>0, <1>9, <2>4, <3>2, CleanupIsQuiet DEF Told, toolVars
      <3>3. CASE run = "cleaning"
        BY <1>0, <1>9, <2>4, <3>3 DEF Told, toolVars
      <3> QED BY <2>4, <3>1, <3>2, <3>3 DEF Told
    <2>5. CASE StopSet
      BY <1>0, <1>9, <2>5 DEF StopSet, toolVars, history
    <2>6. CASE Joined
      <3>1. /\ RunDone
            /\ main' = IF attached = TRUE /\ loop # "broken" THEN "detaching" ELSE "ended"
            /\ UNCHANGED <<mode, run, cancelled, tool, imported, attached, cutShort, interrupted>>
        BY <2>6 DEF Joined, toolVars, history
      <3>2. ReleasedAtEnd'
        <4>1. CASE tool = "ended"
          <5>1. Unhindered => loop # "broken"
            BY DEF Unhindered
          <5> QED BY <1>9, <3>1, <4>1, <5>1
        <4>2. CASE tool # "ended" /\ ~ interrupted
          BY <3>1, <4>2
        <4> QED BY <3>1, <4>1, <4>2
      <3> QED BY <1>0, <3>1, <3>2
    <2>7. CASE Detached
      <3>1. /\ main = "detaching" /\ main' = "ended"
            /\ UNCHANGED <<mode, run, cancelled, tool, attached, interrupted>>
        BY <2>7 DEF Detached
      <3>2. \/ imported' = FALSE /\ cutShort' = cutShort
            \/ imported' = imported /\ cutShort' = cutShort \cup {"detach"}
        BY <2>7 DEF Detached
      <3>3. ToolInv'
        <4>0. imported \in BOOLEAN
          OBVIOUS
        <4>1. imported' \in BOOLEAN /\ (imported' => imported)
          <5>1. CASE imported' = FALSE
            BY ONLY <5>1
          <5>2. CASE imported' = imported
            BY ONLY <5>2, <4>0
          <5> QED BY <3>2, <5>1, <5>2
        <4>2. "tool" \notin cutShort' => "tool" \notin cutShort
          BY <3>2
        <4> QED BY <3>1, <4>1, <4>2
      <3>4. ReleasedAtEnd'
        BY <3>2 DEF Unhindered
      <3> QED BY <1>0, <3>1, <3>3, <3>4
    <2> QED BY <1>4, <2>1, <2>2, <2>3, <2>4, <2>5, <2>6, <2>7 DEF Finishes
  <1>5. CASE ToolImports
    BY <1>0, <1>9, <1>5 DEF ToolImports, history
  <1>6. CASE LanClosed
    BY <1>0, <1>9, <1>6 DEF LanClosed, toolVars, history
  <1>7. CASE KernelReleases
    BY <1>0, <1>9, <1>7 DEF KernelReleases, history
  <1>8. CASE Interrupt
    BY <1>0, <1>9, <1>8 DEF Interrupt, toolVars
  <1> QED BY <1>1, <1>2, <1>3, <1>4, <1>5, <1>6, <1>7, <1>8 DEF Next

\* When attach has ended, and neither the user has interrupted it, nor a timeout killed the
\* tool, nor the detach failed, nor a ProtocolError made run() raise, the kernel holds no
\* device of it, whichever of the tool, the tunnel and the command came to its end first
\* (__main__.py:164-182).
THEOREM Released == Spec => []ReleasedAtEnd
  <1>1. Init => LeftInv /\ AttachInv
    BY LeftInit, AttachInit
  <1>2. LeftInv /\ AttachInv /\ [Next]_vars => (LeftInv /\ AttachInv)'
    BY LeftStep, AttachStep
  <1>3. AttachInv => ReleasedAtEnd
    BY DEF AttachInv
  <1> QED BY <1>1, <1>2, <1>3, PTL DEF Spec

-----------------------------------------------------------------------------
(* Type correctness.                                                        *)

RestTypeOK ==
    /\ conn \in {"none", "up", "lost", "closed"}
    /\ cancelled \in BOOLEAN /\ (RunDone => ~ cancelled)
    /\ main \in {"running", "waiting", "joining", "detaching", "ended"}
    /\ forward \in BOOLEAN
    /\ tap \in {"none", "open", "leaked"}
    /\ pump \in {"none", "running", "cancelled", "ended"}
    /\ attached \in BOOLEAN \cup {None}
    /\ cutShort \subseteq {"tool", "cleanup", "detach"}
    /\ interrupted \in BOOLEAN

\* A client that fails before the try is done, and was not told of a cancellation.
LEMMA FailsRest ==
    ASSUME RestTypeOK, Fails, conn' \in {"none", "up", "lost", "closed"},
           UNCHANGED <<main, forward, pump, attached, cutShort, interrupted>>
    PROVE  RestTypeOK'
  <1>1. cancelled' \in BOOLEAN /\ ~ cancelled'
    BY DEF Fails
  <1>2. tap' \in {"none", "open", "leaked"}
    BY DEF Fails, RestTypeOK
  <1>3. attached' \in BOOLEAN \cup {None} /\ forward' \in BOOLEAN /\ interrupted' \in BOOLEAN
    BY DEF RestTypeOK
  <1>4. /\ main' \in {"running", "waiting", "joining", "detaching", "ended"}
        /\ pump' \in {"none", "running", "cancelled", "ended"}
        /\ cutShort' \subseteq {"tool", "cleanup", "detach"}
    BY DEF RestTypeOK
  <1> QED BY <1>1, <1>2, <1>3, <1>4 DEF RestTypeOK

\* The control requests change neither the tasks nor the connection.
LEMMA RestStep == LifeTypeOK /\ ToolInv /\ RestTypeOK /\ [Next]_vars => RestTypeOK'
  <1> SUFFICES ASSUME LifeTypeOK, ToolInv, RestTypeOK, [Next]_vars
               PROVE  RestTypeOK'
    OBVIOUS
  <1>0. RestTypeOK /\ conn \in {"none", "up", "lost", "closed"}
    BY DEF RestTypeOK
  <1> USE DEF RestTypeOK, RunDone
  <1>1. CASE RequestStep \/ (\E r \in Requests : ApiAsks(r)) \/ LoopBreaks \/ UNCHANGED vars
    <2>1. UNCHANGED <<conn, runVars>>
      BY <1>1 DEF RequestStep, ApiAsks, LoopBreaks, vars, ctrlVars, TimesOut, Reply, ServerNext, ServerTakes,
           ListsLocal, ListsExported, DeviceChanges
    <2>2. UNCHANGED <<run, cancelled, main, forward, tap, pump, attached, cutShort, interrupted>>
      BY <2>1 DEF runVars, tapVars, toolVars, history
    <2> QED BY <2>1, <2>2
  <1>2. CASE Starts
    <2>1. CASE Dialed
      <3>1. /\ UNCHANGED <<main, forward, pump, attached, cutShort, interrupted>>
            /\ conn' \in {"none", "up"}
        BY <2>1 DEF Dialed, toolVars, history
      <3>2. \/ run' = "greeting" /\ cancelled' = cancelled /\ ~ cancelled /\ tap' = tap
            \/ Fails
        BY <2>1 DEF Dialed
      <3>3. CASE Fails
        BY ONLY <3>1, <3>3, <1>0, FailsRest
      <3> QED BY <3>1, <3>2, <3>3
    <2>2. CASE Greeted
      <3>1. UNCHANGED <<conn, main, forward, pump, attached, cutShort, interrupted>>
        BY <2>2 DEF Greeted, ctrlVars, toolVars, history
      <3>2. \/ /\ run' \in {"starting lan", "starting forward"}
               /\ cancelled' = cancelled /\ ~ cancelled /\ tap' = tap
            \/ Fails
        BY <2>2 DEF Greeted
      <3>3. CASE Fails
        BY ONLY <3>1, <3>3, <1>0, FailsRest
      <3>4. CASE run' \in {"starting lan", "starting forward"} /\ UNCHANGED <<cancelled, tap>>
        <4>1. ~ RunDone'
          BY <3>4
        <4>2. cancelled' \in BOOLEAN /\ tap' \in {"none", "open", "leaked"}
          BY <3>4
        <4> QED BY <3>1, <4>1, <4>2
      <3> QED BY <3>2, <3>3, <3>4
    <2>3. CASE TapOpens
      <3>1. UNCHANGED <<conn, main, forward, pump, attached, cutShort, interrupted>>
        BY <2>3 DEF TapOpens, ctrlVars, toolVars, history
      <3>2. CASE tap' = "open" /\ UNCHANGED <<run, cancelled>>
        BY <3>1, <3>2
      <3>3. CASE Fails
        BY ONLY <3>1, <3>3, <1>0, FailsRest
      <3> QED BY <2>3, <3>2, <3>3 DEF TapOpens
    <2>4. CASE LanStarted
      BY <2>4 DEF LanStarted, ctrlVars, toolVars, history
    <2>5. CASE Readies
      BY <2>5 DEF Readies, tapVars, toolVars, history, LifeTypeOK
    <2>6. CASE ForwardFails
      <3>1. UNCHANGED <<conn, main, forward, pump, attached, cutShort, interrupted>>
        BY <2>6 DEF ForwardFails, ctrlVars, toolVars, history
      <3>2. Fails
        BY <2>6 DEF ForwardFails
      <3> QED BY ONLY <3>1, <3>2, <1>0, FailsRest
    <2> QED BY <1>2, <2>1, <2>2, <2>3, <2>4, <2>5, <2>6 DEF Starts
  <1>3. CASE OnReady
    <2>1. CASE ListAsks
      BY <2>1 DEF ListAsks, tapVars, toolVars, history
    <2>2. CASE ListPrints
      BY <2>2 DEF ListPrints, Ends, tapVars, toolVars, history
    <2>3. CASE AttachBegins
      BY <2>3 DEF AttachBegins, ctrlVars, tapVars, history
    <2>4. CASE ToolEnds
      <3>1. UNCHANGED <<conn, main, cancelled, forward, tap, pump, interrupted>>
        BY <2>4 DEF ToolEnds, ctrlVars, tapVars
      <3>2. attached' \in BOOLEAN /\ cutShort' \subseteq {"tool", "cleanup", "detach"}
        BY <2>4 DEF ToolEnds, ToolInv
      <3>3. run' = "looping" /\ ~ cancelled
        BY <2>4 DEF ToolEnds
      <3> QED BY <3>1, <3>2, <3>3
    <2> QED BY <1>3, <2>1, <2>2, <2>3, <2>4 DEF OnReady
  <1>4. CASE Finishes
    <2>1. CASE PumpEnds
      BY <2>1 DEF PumpEnds, ctrlVars, toolVars, history
    <2>2. CASE LoopEnds
      BY <2>2 DEF LoopEnds, runVars, tapVars, toolVars, history
    <2>3. CASE Leaves
      BY <2>3 DEF Leaves, CleansUp, Ends, toolVars, history
    <2>4. CASE Cleaned
      BY <2>4 DEF Cleaned, Ends, tapVars, toolVars, history
    <2>5. CASE Told
      <3>1. CASE run \in Early /\ Fails
        <4>1. UNCHANGED <<conn, main, forward, pump, attached, cutShort, interrupted>>
          BY <2>5, <3>1 DEF Told, toolVars, Early, Inside
        <4>2. cancelled' = FALSE /\ tap' \in {"none", "open", "leaked"}
          BY <3>1 DEF Fails
        <4>3. cancelled' \in BOOLEAN /\ ~ cancelled'
          BY <4>2
        <4> HIDE DEF RunDone
        <4> QED BY <4>1, <4>2, <4>3
      <3>2. CASE run \in Inside /\ CleansUp
        <4>1. UNCHANGED <<main, attached, cutShort, interrupted>> /\ cancelled' = FALSE
          BY <2>5, <3>2 DEF Told, toolVars, Early, Inside
        <4>2. /\ conn' \in {conn, "closed"} /\ forward' = FALSE
              /\ tap' = "none" /\ pump' \in {pump, "cancelled"}
          BY <3>2 DEF CleansUp, Ends
        <4>3. /\ conn' \in {"none", "up", "lost", "closed"}
              /\ tap' \in {"none", "open", "leaked"}
              /\ pump' \in {"none", "running", "cancelled", "ended"}
          BY <4>2
        <4>4. forward' \in BOOLEAN /\ cancelled' \in BOOLEAN /\ ~ cancelled'
          BY <4>1, <4>2
        <4>5. /\ main' \in {"running", "waiting", "joining", "detaching", "ended"}
              /\ cutShort' \subseteq {"tool", "cleanup", "detach"}
              /\ attached' \in BOOLEAN \cup {None} /\ interrupted' \in BOOLEAN
          BY <4>1
        <4> HIDE DEF RunDone
        <4> QED BY <4>3, <4>4, <4>5
      <3>3. CASE run = "cleaning"
        <4>1. UNCHANGED <<conn, main, forward, tap, pump, attached, interrupted>>
          BY <2>5, <3>3 DEF Told, tapVars, toolVars, Early, Inside
        <4>2. cancelled' = FALSE /\ cutShort' \subseteq {"tool", "cleanup", "detach"}
          BY <2>5, <3>3 DEF Told, Early, Inside
        <4>3. cancelled' \in BOOLEAN /\ ~ cancelled'
          BY <4>2
        <4> HIDE DEF RunDone
        <4> QED BY <4>1, <4>2, <4>3
      <3> QED BY <2>5, <3>1, <3>2, <3>3 DEF Told
    <2>6. CASE StopSet
      BY <2>6 DEF StopSet, ctrlVars, tapVars, toolVars, history
    <2>7. CASE Joined
      BY <2>7 DEF Joined, ctrlVars, tapVars, toolVars, history
    <2>8. CASE Detached
      <3>1. UNCHANGED <<conn, run, cancelled, forward, tap, pump, attached, interrupted>>
        BY <2>8 DEF Detached, ctrlVars, tapVars
      <3>2. main' = "ended" /\ cutShort' \subseteq {"tool", "cleanup", "detach"}
        BY <2>8 DEF Detached
      <3> QED BY <3>1, <3>2
    <2> QED BY <1>4, <2>1, <2>2, <2>3, <2>4, <2>5, <2>6, <2>7, <2>8 DEF Finishes
  <1>5. CASE ToolImports
    BY <1>5 DEF ToolImports, ctrlVars, tapVars, history
  <1>6. CASE LanClosed
    BY <1>6 DEF LanClosed, ctrlVars, toolVars, history
  <1>7. CASE KernelReleases
    BY <1>7 DEF KernelReleases, ctrlVars, tapVars, history
  <1>8. CASE Interrupt
    BY <1>8 DEF Interrupt, Ends, tapVars, toolVars
  <1>9. CASE Loses
    BY <1>9 DEF Loses, Ends, runVars, tapVars, toolVars, history
  <1> QED BY <1>1, <1>2, <1>3, <1>4, <1>5, <1>6, <1>7, <1>8, <1>9 DEF Next

\* The variables of a client stay in their types; in particular no cancellation is left
\* over when its task has ended.
THEOREM TypeCorrect == Spec => []TypeOK
  <1> DEFINE Inv == LeftInv /\ AttachInv /\ AskerOK /\ RequestInv /\ RestTypeOK
  <1>1. Init => Inv
    <2>1. Init => RestTypeOK
      BY DEF Init, RestTypeOK, RunDone
    <2> QED BY <2>1, LeftInit, AttachInit, RequestInit
  <1>2. Inv /\ [Next]_vars => Inv'
    BY LeftStep, AttachStep, RestStep, RequestsStep DEF LeftInv, AttachInv
  <1>3. Inv => TypeOK
    BY DEF LeftInv, LifeTypeOK, AttachInv, ToolInv, AskerOK, RequestInv, RequestTypeOK,
         RestTypeOK, TypeOK, ControlTypeOK
  <1> QED BY <1>1, <1>2, <1>3, PTL DEF Spec
==============================================================================
