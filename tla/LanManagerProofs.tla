--------------------------- MODULE LanManagerProofs ---------------------------
(***************************************************************************)
(* Theorems about LanManager, for every set of tokens, of addresses and of *)
(* configurations, any number of writers and any queue.                    *)
(***************************************************************************)
EXTENDS LanManager, TLAPS

USE DEF Tasks

\* Every step keeps the types of the tap, whoever calls it.
LEMMA TapActions ==
    ASSUME TapTypeOK, NEW t \in Tasks
    PROVE  /\ Read(t) => TapTypeOK'
           /\ Write(t) => TapTypeOK'
           /\ WakeReaders => TapTypeOK'
           /\ WakeWriters => TapTypeOK'
           /\ Arrives => TapTypeOK'
           /\ RoomChanges => TapTypeOK'
  <1> USE KernelTapAssumption DEF KernelTapAssumption, TapTypeOK, Calls
  <1>1. \A how \in Calls : Ends(t, how) /\ UNCHANGED queue => TapTypeOK'
    BY DEF Ends
  <1>2. Waits(t) => TapTypeOK'
    BY DEF Waits, Side
  <1>3. Read(t) => TapTypeOK'
    <2>1. CASE SeesClosed(t) /\ Ends(t, "closed") /\ UNCHANGED queue
      BY <2>1, <1>1
    <2>2. CASE queue > 0 /\ queue' = queue - 1 /\ Ends(t, "returned")
      BY <2>2 DEF Ends
    <2>3. CASE Ends(t, Failure) /\ UNCHANGED queue
      BY <2>3, <1>1 DEF Failure
    <2> QED BY <1>2, <2>1, <2>2, <2>3 DEF Read
  <1>4. Write(t) => TapTypeOK'
    <2>1. CASE \E how \in {"closed", "returned"} : Ends(t, how) /\ UNCHANGED queue
      BY <2>1, <1>1
    <2>2. CASE Ends(t, Failure) /\ UNCHANGED queue
      BY <2>2, <1>1 DEF Failure
    <2> QED BY <1>2, <2>1, <2>2 DEF Write
  <1>5. WakeReaders => TapTypeOK'
    BY DEF WakeReaders, Wake, Woken
  <1>6. WakeWriters => TapTypeOK'
    BY DEF WakeWriters, Wake, Woken
  <1>7. Arrives => TapTypeOK'
    BY DEF Arrives
  <1>8. RoomChanges => TapTypeOK'
    BY DEF RoomChanges
  <1> QED BY <1>3, <1>4, <1>5, <1>6, <1>7, <1>8

-----------------------------------------------------------------------------
(* Types.                                                                   *)

\* What a tap is when its object is made.
LEMMA NoCalls ==
    /\ 0 \in 0 .. MaxQueue
    /\ [t \in Tasks |-> "idle"] \in [Tasks -> Calls]
  <1>1. 0 \in 0 .. MaxQueue
    BY KernelTapAssumption DEF KernelTapAssumption
  <1>2. "idle" \in Calls
    BY DEF Calls
  <1> QED BY <1>1, <1>2

LEMMA PumpIsTask == Pump \in Tasks /\ Pump \in Readers
  BY LanManagerAssumption DEF LanManagerAssumption

\* What becomes of the tap in a step that is not one of TapActions.
LEMMA OtherTapTypes ==
    ASSUME TapTypeOK,
           \/ Starts \/ Configured \/ ConfigureFails \/ Dies \/ Stops
           \/ PumpEnds \/ PumpDropped
           \/ \E t \in Writers : WriteBegins(t) \/ WriteEnds(t)
    PROVE  TapTypeOK'
  <1> USE PumpIsTask DEF TapTypeOK, Calls
  <1>1. CASE Starts
    BY ONLY TapTypeOK, <1>1, NoCalls DEF Starts, TapTypeOK
  <1>2. CASE Configured
    BY <1>2 DEF Configured
  <1>3. CASE ConfigureFails
    BY <1>3 DEF ConfigureFails
  <1>4. CASE Dies
    BY ONLY TapTypeOK, <1>4, NoCalls DEF Dies, TapTypeOK
  <1>5. CASE Stops
    BY <1>5 DEF Stops, Close, Cancelled, Woken, tapVars
  <1>6. CASE PumpEnds \/ PumpDropped
    BY <1>6 DEF PumpEnds, PumpDropped, Ends
  <1>7. CASE \E t \in Writers : WriteBegins(t) \/ WriteEnds(t)
    BY <1>7 DEF WriteBegins, WriteEnds, Ends
  <1> QED BY <1>1, <1>2, <1>3, <1>4, <1>5, <1>6, <1>7

\* A hello leaves the tap alone and keeps the types of the leases.
LEMMA HelloTypes ==
    ASSUME TypeOK, NEW k \in Keys, HelloLan(k)
    PROVE  TypeOK'
  <1> USE LanManagerAssumption DEF LanManagerAssumption, TypeOK
  <1>1. leases' \in [Keys -> Addrs \cup {NoAddr}] /\ gave' \in [Keys -> SUBSET Addrs]
    <2>1. Free \subseteq Addrs
      BY DEF Free
    <2>2. CASE Assign(k)
      BY <2>1, <2>2 DEF Assign
    <2>3. CASE Renew(k)
      BY <2>3 DEF Renew
    <2> QED BY <2>2, <2>3 DEF HelloLan
  <1>2. TapTypeOK'
    BY DEF HelloLan, tapVars, TapTypeOK
  <1> QED BY <1>1, <1>2 DEF HelloLan

\* The variables keep their types.
THEOREM TypeCorrect == Spec => []TypeOK
  <1>1. Init => TypeOK
    BY NoCalls DEF Init, TapInit, TypeOK, TapTypeOK
  <1>2. TypeOK /\ [Next]_vars => TypeOK'
    <2> SUFFICES ASSUME TypeOK, [Next]_vars PROVE TypeOK'
      OBVIOUS
    <2>1. CASE \E k \in Keys : HelloLan(k)
      BY <2>1, HelloTypes
    <2>2. CASE UNCHANGED vars
      BY <2>2 DEF vars, tapVars, leaseVars, TypeOK, TapTypeOK
    <2>3. CASE Kernel \/ PumpReads \/ Loop(WakeReaders) \/ Loop(WakeWriters)
               \/ \E t \in Writers : WriteRuns(t)
      <3>1. TapTypeOK'
        BY <2>3, TapActions, PumpIsTask DEF Kernel, PumpReads, Loop, WriteRuns, TypeOK
      <3>2. UNCHANGED <<proc, active, config, leaseVars>>
        BY <2>3 DEF Kernel, PumpReads, Loop, WriteRuns
      <3> QED BY <3>1, <3>2 DEF TypeOK, leaseVars
    <2>4. CASE StopBegins
      BY <2>4 DEF StopBegins, TypeOK, TapTypeOK, tapVars, leaseVars
    <2>5. CASE \/ Starts \/ Configured \/ ConfigureFails \/ Dies \/ Stops
               \/ PumpEnds \/ PumpDropped
               \/ \E t \in Writers : WriteBegins(t) \/ WriteEnds(t)
      <3>1. TapTypeOK'
        BY <2>5, OtherTapTypes DEF TypeOK
      <3>2. UNCHANGED leaseVars
        BY <2>5 DEF Starts, Configured, ConfigureFails, Dies, Stops, PumpEnds, PumpDropped,
                    WriteBegins, WriteEnds
      <3>3. /\ proc' \in {"down", "starting", "up", "stopping", "stopped"}
            /\ active' \in BOOLEAN /\ config' \in Configs
        BY <2>5 DEF Starts, Configured, ConfigureFails, Dies, Stops, PumpEnds, PumpDropped,
                    WriteBegins, WriteEnds, TypeOK
      <3> QED BY <3>1, <3>2, <3>3 DEF TypeOK, leaseVars
    <2> QED BY <2>1, <2>2, <2>3, <2>4, <2>5 DEF Next
  <1> QED BY <1>1, <1>2, PTL DEF Spec

-----------------------------------------------------------------------------
(* Leases.                                                                  *)

\* What a token was given is what server.state.json has for it, and no two tokens have
\* the same there.
LeasesInv ==
    /\ \A k \in Keys : gave[k] \subseteq {leases[k]} \ {NoAddr}
    /\ \A k, j \in Keys : leases[k] = leases[j] /\ leases[k] # NoAddr => k = j

LEMMA HelloKeepsLeases ==
    ASSUME TypeOK, LeasesInv, NEW k \in Keys, HelloLan(k)
    PROVE  LeasesInv'
  <1> USE LanManagerAssumption DEF LanManagerAssumption, TypeOK, LeasesInv
  <1>1. CASE Assign(k)
    <2>1. PICK a \in Free : /\ leases' = [leases EXCEPT ![k] = a]
                            /\ gave' = [gave EXCEPT ![k] = @ \cup {a}]
                            /\ leases[k] = NoAddr
      BY <1>1 DEF Assign
    <2>2. a \in Addrs /\ a # NoAddr /\ \A j \in Keys : leases[j] # a
      BY DEF Free, Used
    <2>3. gave[k] = {}
      BY <2>1
    <2>4. leases'[k] = a /\ \A j \in Keys \ {k} : leases'[j] = leases[j]
      BY <2>1
    <2>5. gave'[k] = {a} /\ \A j \in Keys \ {k} : gave'[j] = gave[j]
      BY <2>1, <2>3
    <2>6. \A j \in Keys : gave'[j] \subseteq {leases'[j]} \ {NoAddr}
      BY <2>2, <2>4, <2>5
    <2>7. \A i, j \in Keys : leases'[i] = leases'[j] /\ leases'[i] # NoAddr => i = j
      BY <2>2, <2>4
    <2> QED BY <2>6, <2>7
  <1>2. CASE Renew(k)
    BY <1>2 DEF Renew
  <1> QED BY <1>1, <1>2 DEF HelloLan

\* README.md:179: each client token gets a stable lease, over restarts, failed saves,
\* full pools and edits of the subnet (server.py:446-459).
THEOREM LeasesStable == Spec => []StableLeases
  <1>1. Init => LeasesInv
    BY DEF Init, LeasesInv
  <1>2. TypeOK /\ LeasesInv /\ [Next]_vars => LeasesInv'
    <2> SUFFICES ASSUME TypeOK, LeasesInv, [Next]_vars PROVE LeasesInv'
      OBVIOUS
    <2>1. CASE \E k \in Keys : HelloLan(k)
      BY <2>1, HelloKeepsLeases
    <2>2. CASE UNCHANGED leaseVars
      BY <2>2 DEF leaseVars, LeasesInv
    <2>3. CASE Next /\ ~ \E k \in Keys : HelloLan(k)
      <3>1. UNCHANGED leaseVars
        BY <2>3 DEF Next, Kernel, Loop, Starts, Configured, ConfigureFails, Dies, StopBegins,
                    Stops, PumpReads, PumpEnds, PumpDropped, WriteBegins, WriteRuns, WriteEnds
      <3> QED BY <3>1, <2>2
    <2> QED BY <2>1, <2>2, <2>3 DEF vars
  <1>3. LeasesInv => StableLeases
    BY DEF LeasesInv, StableLeases
  <1> QED BY <1>1, <1>2, <1>3, TypeCorrect, PTL DEF Spec

-----------------------------------------------------------------------------
(* The device.                                                              *)

\* The device is open while it is used, and closed only by a stop.
DeviceInv ==
    /\ closed => proc = "stopped"
    /\ proc \in {"down", "starting"} => ~ active /\ \A t \in Tasks : call[t] = "idle"
    /\ proc = "starting" => fd = "open"
    /\ \A t \in waiters : call[t] = "waiting"
    /\ active => closed \/ fd = "open"
    /\ \A t \in Tasks : call[t] \in Pending \cup {"returned"} => closed \/ fd = "open"
    /\ DescriptorOwned
    /\ ActiveIsServed

USE DEF Pending, DescriptorOwned, ActiveIsServed

\* A run of a call, by the pump or by a writer.
LEMMA CallKeepsDevice ==
    ASSUME TypeOK, DeviceInv, NEW t \in Tasks,
           call[t] \in {"calling", "woken", "returned"},
           Read(t) \/ Write(t),
           UNCHANGED <<proc, active>>
    PROVE  DeviceInv'
  <1> USE DEF DeviceInv, TypeOK, TapTypeOK
  <1>1. closed \/ fd = "open"
    OBVIOUS
  <1>2. ~ proc \in {"down", "starting"}
    OBVIOUS
  <1>3. UNCHANGED <<fd, closed>>
    BY DEF Read, Write, Ends, Waits
  <1>4. PICK how \in {"closed", "returned", "waiting", "failed"} :
            /\ call' = [call EXCEPT ![t] = how]
            /\ how = "closed" => closed
            /\ waiters' = IF how = "waiting" THEN waiters \cup {t} ELSE waiters
    BY <1>1 DEF Read, Write, SeesClosed, Ends, Waits, Failure
  <1>5. \A u \in Tasks : call'[u] = IF u = t THEN how ELSE call[u]
    BY <1>4
  <1> QED BY <1>1, <1>2, <1>3, <1>4, <1>5, PumpIsTask

\* The end of a call.
LEMMA EndKeepsDevice ==
    ASSUME TypeOK, DeviceInv,
           \/ PumpEnds \/ PumpDropped
           \/ \E t \in Writers : WriteBegins(t) \/ WriteEnds(t)
    PROVE  DeviceInv'
  <1> USE PumpIsTask DEF DeviceInv, TypeOK, TapTypeOK
  <1>1. CASE PumpEnds
    BY <1>1 DEF PumpEnds, Ends
  <1>2. CASE PumpDropped
    BY <1>2 DEF PumpDropped, Ends
  <1>3. CASE \E t \in Writers : WriteBegins(t) \/ WriteEnds(t)
    <2>1. PICK t \in Writers : WriteBegins(t) \/ WriteEnds(t)
      BY <1>3
    <2>2. t # Pump
      BY KernelTapAssumption DEF KernelTapAssumption
    <2>3. CASE WriteBegins(t)
      BY <2>2, <2>3 DEF WriteBegins, Ends
    <2>4. CASE WriteEnds(t)
      BY <2>2, <2>4 DEF WriteEnds, Ends
    <2> QED BY <2>1, <2>3, <2>4
  <1> QED BY <1>1, <1>2, <1>3

\* A wake-up, by a callback or by close().
LEMMA WakeKeepsDevice ==
    ASSUME TypeOK, DeviceInv, Loop(WakeReaders) \/ Loop(WakeWriters) \/ Stops
    PROVE  DeviceInv'
  <1> USE PumpIsTask DEF DeviceInv, TypeOK, TapTypeOK
  <1>1. CASE Loop(WakeReaders) \/ Loop(WakeWriters)
    <2>1. PICK W \in SUBSET waiters :
              call' = Woken(W) /\ waiters' = waiters \ W /\ W # {} /\ fd = "open"
      <3>1. CASE WakeReaders
        BY <3>1 DEF WakeReaders, Wake
      <3>2. CASE WakeWriters
        BY <3>2 DEF WakeWriters, Wake
      <3> QED BY <1>1, <3>1, <3>2 DEF Loop
    <2>2. \A u \in Tasks : call'[u] = IF u \in W THEN "woken" ELSE call[u]
      BY <2>1 DEF Woken
    <2>3. UNCHANGED <<fd, closed, proc, active>>
      BY <1>1 DEF Loop, WakeReaders, WakeWriters, Wake
    <2>4. ~ proc \in {"down", "starting"}
      BY <2>1
    <2> QED BY <2>1, <2>2, <2>3, <2>4
  <1>2. CASE Stops
    BY <1>2 DEF Stops, Close, Cancelled, Woken, tapVars
  <1> QED BY <1>1, <1>2

LEMMA StepKeepsDevice ==
    ASSUME TypeOK, DeviceInv, [Next]_vars
    PROVE  DeviceInv'
  <1> USE PumpIsTask DEF DeviceInv, TypeOK, TapTypeOK
  <1>1. CASE Starts
    BY <1>1 DEF Starts
  <1>2. CASE Configured
    BY <1>2 DEF Configured
  <1>3. CASE ConfigureFails
    BY <1>3 DEF ConfigureFails
  <1>4. CASE Dies
    BY <1>4 DEF Dies
  <1>5. CASE StopBegins
    BY <1>5 DEF StopBegins, tapVars
  <1>6. CASE PumpReads
    BY <1>6, CallKeepsDevice DEF PumpReads
  <1>7. CASE \E t \in Writers : WriteRuns(t)
    BY <1>7, CallKeepsDevice DEF WriteRuns
  <1>8. CASE Kernel \/ (\E k \in Keys : HelloLan(k)) \/ UNCHANGED vars
    BY <1>8 DEF Kernel, Loop, Arrives, RoomChanges, HelloLan, vars, tapVars
  <1> QED BY <1>1, <1>2, <1>3, <1>4, <1>5, <1>6, <1>7, <1>8, EndKeepsDevice, WakeKeepsDevice
          DEF Next

\* The invariant behind both of the theorems below.
LEMMA DeviceInvariant == Spec => []DeviceInv
  <1>1. Init => DeviceInv
    BY DEF Init, TapInit, DeviceInv
  <1>2. TypeOK /\ DeviceInv /\ [Next]_vars => DeviceInv'
    BY StepKeepsDevice
  <1> QED BY <1>1, <1>2, TypeCorrect, PTL DEF Spec

\* No task reads or writes the device after close() gave its descriptor back, in whatever
\* order close(), the pump and the writers go on (tapw.py: read, write, close).
THEOREM DeviceSafe == Spec => []DescriptorOwned
  <1>1. DeviceInv => DescriptorOwned
    BY DEF DeviceInv
  <1> QED BY <1>1, DeviceInvariant, PTL

\* A LAN that the server finds active has a pump that goes on and a device that is open,
\* over starts that fail, deaths of the device and stops (server.py, LanManager: start, stop, _pump).
THEOREM ActiveServed == Spec => []ActiveIsServed
  <1>1. DeviceInv => ActiveIsServed
    BY DEF DeviceInv
  <1> QED BY <1>1, DeviceInvariant, PTL

-----------------------------------------------------------------------------
(* Waiting calls: what PumpWakes and ClosedCallsEnd rest on.                *)

\* No wake-up is lost: whoever waits has its future in the list of its side, the loop
\* listens for that side, and the device is open (tapw.py:58-75, 77-104).  So a frame or
\* room for one finds the task, and so does close().
WaitersHeard ==
    \A t \in Tasks : call[t] = "waiting" =>
        /\ fd = "open" /\ ~ closed
        /\ t \in waiters /\ Side(t) \in callbacks

\* A call that runs waits in no list, so that only its own wait matters.
LEMMA CallKeepsHeard ==
    ASSUME TypeOK, DeviceInv, WaitersHeard, NEW t \in Tasks,
           call[t] \in {"calling", "woken", "returned"},
           Read(t) \/ Write(t)
    PROVE  WaitersHeard'
  <1> USE DEF DeviceInv, WaitersHeard, TypeOK, TapTypeOK
  <1>1. UNCHANGED <<fd, closed>> /\ waiters \subseteq waiters' /\ callbacks \subseteq callbacks'
    BY DEF Read, Write, Ends, Waits
  <1>2. PICK how \in Calls : call' = [call EXCEPT ![t] = how]
    BY DEF Read, Write, Ends, Waits, Failure, Calls
  <1>3. \A u \in Tasks : call'[u] = IF u = t THEN how ELSE call[u]
    BY <1>2
  <1>4. how = "waiting" =>
            fd = "open" /\ ~ closed /\ t \in waiters' /\ Side(t) \in callbacks'
    BY <1>3 DEF Read, Write, SeesClosed, Ends, Waits, Failure
  <1> QED BY <1>1, <1>3, <1>4 DEF Side

\* A callback takes those out of the list that it wakes, and close() wakes everybody.
LEMMA WakeKeepsHeard ==
    ASSUME TypeOK, DeviceInv, WaitersHeard,
           Loop(WakeReaders) \/ Loop(WakeWriters) \/ Stops
    PROVE  WaitersHeard'
  <1> USE DEF DeviceInv, WaitersHeard, TypeOK, TapTypeOK
  <1>1. ASSUME NEW side \in {Readers, Writers}, NEW ready, Wake(side, ready)
        PROVE  WaitersHeard'
    <2>1. \A u \in Tasks : call'[u] = IF u \in waiters \cap side THEN "woken" ELSE call[u]
      BY <1>1 DEF Wake, Woken
    <2>2. UNCHANGED <<fd, closed, callbacks>> /\ waiters' = waiters \ side
      BY <1>1 DEF Wake
    <2> QED BY <2>1, <2>2 DEF Side
  <1>2. CASE Loop(WakeReaders) \/ Loop(WakeWriters)
    BY <1>1, <1>2 DEF Loop, WakeReaders, WakeWriters
  <1>3. CASE Stops
    <2>1. CASE fd = "open" /\ Close({Pump} \cap {t \in Tasks : call[t] \in Pending})
      <3>1. \A t \in Tasks : call'[t] # "waiting"
        BY <2>1 DEF Close, Cancelled, Woken
      <3> QED BY <3>1
    <2>2. CASE UNCHANGED tapVars
      BY <2>2 DEF tapVars, Side
    <2> QED BY <1>3, <2>1, <2>2 DEF Stops
  <1> QED BY <1>2, <1>3

LEMMA StepKeepsHeard ==
    ASSUME TypeOK, DeviceInv, WaitersHeard, [Next]_vars
    PROVE  WaitersHeard'
  <1> USE PumpIsTask DEF WaitersHeard, TypeOK, TapTypeOK
  <1>1. CASE Starts \/ Dies
    <2>1. call' = [t \in Tasks |-> "idle"]
      BY <1>1 DEF Starts, Dies
    <2> QED BY <2>1
  <1>2. CASE Configured
    BY <1>2 DEF Configured, Side
  <1>3. CASE ConfigureFails
    BY <1>3 DEF ConfigureFails, DeviceInv
  <1>4. CASE \E t \in Tasks : call[t] \in {"calling", "woken", "returned"} /\ (Read(t) \/ Write(t))
    BY <1>4, CallKeepsHeard
  <1>5. CASE \E t \in Tasks, how \in {"idle", "calling"} : Ends(t, how)
    BY <1>5 DEF Ends, Side
  <1>6. CASE UNCHANGED <<fd, closed, callbacks, waiters, call>>
    BY <1>6 DEF Side
  <1>7. CASE Loop(WakeReaders) \/ Loop(WakeWriters) \/ Stops
    BY <1>7, WakeKeepsHeard
  <1>8. (\E t \in Writers : WriteRuns(t)) \/ PumpReads =>
            \E t \in Tasks : call[t] \in {"calling", "woken", "returned"} /\ (Read(t) \/ Write(t))
    BY DEF WriteRuns, PumpReads
  <1>9. PumpEnds \/ PumpDropped \/ (\E t \in Writers : WriteBegins(t) \/ WriteEnds(t)) =>
            \E t \in Tasks, how \in {"idle", "calling"} : Ends(t, how)
    BY DEF PumpEnds, PumpDropped, WriteBegins, WriteEnds
  <1>10. Kernel \/ StopBegins \/ (\E k \in Keys : HelloLan(k)) \/ UNCHANGED vars =>
            UNCHANGED <<fd, closed, callbacks, waiters, call>>
    BY DEF Kernel, Loop, Arrives, RoomChanges, StopBegins, HelloLan, vars, tapVars
  <1> QED BY <1>1, <1>2, <1>3, <1>4, <1>5, <1>6, <1>7, <1>8, <1>9, <1>10 DEF Next

\* No wake-up is lost, over starts, stops and deaths of the device: PumpWakes and
\* ClosedCallsEnd need only that the loop runs what is ready.
THEOREM NoWakeupLost == Spec => []WaitersHeard
  <1>1. Init => WaitersHeard
    BY DEF Init, TapInit, WaitersHeard
  <1>2. TypeOK /\ DeviceInv /\ WaitersHeard /\ [Next]_vars => WaitersHeard'
    BY StepKeepsHeard
  <1> QED BY <1>1, <1>2, TypeCorrect, DeviceInvariant, PTL DEF Spec

\* A frame has come for a pump that waits: the loop's callback is due.
FrameDue ==
    /\ queue > 0 /\ call[Pump] = "waiting"
    /\ fd = "open" /\ "read" \in callbacks /\ Pump \in waiters

\* What may run, can: a step that is due is one that the model can take.  It is read off
\* the actions, whose branches leave no case out, and is a hypothesis of the two theorems
\* below: the provers do not look into ENABLED.
RunsWhenDue ==
    /\ FrameDue => ENABLED <<~ Busy /\ Loop(WakeReaders)>>_vars
    /\ call[Pump] \in {"calling", "woken", "returned"} => ENABLED <<PumpReads>>_vars
    /\ \A t \in Writers :
          ~ Busy /\ call[t] \in {"calling", "woken"} =>
              ENABLED <<~ Busy /\ WriteRuns(t)>>_vars

\* A frame stays due until the pump is woken.
LEMMA FrameStaysDue ==
    ASSUME TypeOK, WaitersHeard, FrameDue, [Next]_vars
    PROVE  /\ queue' > 0 \/ call'[Pump] # "waiting"
           /\ Loop(WakeReaders) => call'[Pump] # "waiting"
  <1> USE PumpIsTask DEF FrameDue, TypeOK, TapTypeOK
  <1>1. Loop(WakeReaders) => call'[Pump] # "waiting"
    BY DEF Loop, WakeReaders, Wake, Woken
  <1>2. CASE queue' = queue \/ queue' = queue + 1
    BY <1>1, <1>2, KernelTapAssumption DEF KernelTapAssumption
  <1>3. CASE Starts \/ Dies
    BY <1>1, <1>3 DEF Starts, Dies
  <1>4. ~ PumpReads
    BY DEF PumpReads
  <1>5. ASSUME NEW t \in Writers, WriteBegins(t) \/ WriteRuns(t) \/ WriteEnds(t)
        PROVE  queue' = queue
    BY <1>5 DEF WriteBegins, WriteRuns, WriteEnds, Write, Ends, Waits
  <1>6. ASSUME Next, ~ Starts, ~ Dies PROVE queue' = queue \/ queue' = queue + 1
    BY <1>4, <1>5, <1>6 DEF Next, Kernel, Loop, Arrives, RoomChanges, Configured, ConfigureFails,
         StopBegins, Stops, Close, tapVars, WakeReaders, WakeWriters, Wake, PumpEnds,
         PumpDropped, Ends, HelloLan
  <1> QED BY <1>1, <1>2, <1>3, <1>6 DEF vars, tapVars

\* A frame of the kernel finds the pump, whatever the other tasks do, over every
\* stop and start (tapw.py:58-75, 77-90).
THEOREM FramesFindPump == FairSpec /\ []RunsWhenDue => PumpWakes
  <1> DEFINE P == queue > 0 /\ call[Pump] = "waiting"
             Q == call[Pump] # "waiting"
             A == ~ Busy /\ Loop(WakeReaders)
  <1>1. WaitersHeard /\ P => FrameDue
    BY PumpIsTask DEF WaitersHeard, FrameDue, Side
  <1>2. TypeOK /\ WaitersHeard /\ P /\ [Next]_vars => P' \/ Q'
    BY <1>1, FrameStaysDue
  <1>3. TypeOK /\ WaitersHeard /\ P /\ <<A /\ Next>>_vars => Q'
    BY <1>1, FrameStaysDue
  <1>4. A => Next
    BY DEF Next
  <1>5. RunsWhenDue /\ WaitersHeard /\ P => ENABLED <<A>>_vars
    BY <1>1 DEF RunsWhenDue
  <1>6. FairSpec => Spec /\ WF_vars(A)
    BY PTL DEF FairSpec
  <1> QED BY <1>2, <1>3, <1>4, <1>5, <1>6, TypeCorrect, NoWakeupLost, PTL DEF Spec, PumpWakes


\* A device that is closed leaves nobody waiting, and the pump no frame in hand for long.
LEMMA ClosedStays ==
    ASSUME TypeOK, DeviceInv, WaitersHeard, closed, [Next]_vars, NEW t \in Tasks,
           call[t] \in Pending
    PROVE  /\ call[t] \in {"calling", "woken"}
           /\ closed' \/ call'[t] \notin Pending
           /\ Busy \/ ~ Busy' \/ call'[t] \notin Pending
           /\ PumpReads => ~ Busy' /\ call'[Pump] \notin Pending
           /\ t \in Writers /\ WriteRuns(t) => call'[t] \notin Pending
  <1> USE PumpIsTask DEF DeviceInv, WaitersHeard, TypeOK, TapTypeOK
  <1>1. call[t] \in {"calling", "woken"}
    OBVIOUS
  <1>2. proc = "stopped"
    OBVIOUS
  <1>3. PumpReads => UNCHANGED closed /\ ~ Busy' /\ call'[Pump] = "closed"
    BY DEF PumpReads, Read, SeesClosed, Ends, Busy
  <1>4. \A w \in Writers : WriteRuns(w) => UNCHANGED closed /\ call' = [call EXCEPT ![w] = "closed"]
    BY DEF WriteRuns, Write, SeesClosed, Ends
  <1>5. (closed' \/ call'[t] \notin Pending) /\ (Busy \/ ~ Busy' \/ call'[t] \notin Pending)
    <2>1. CASE Starts \/ Dies
      BY <1>2, <2>1 DEF Starts, Dies
    <2>2. ASSUME NEW w \in Writers, WriteBegins(w) \/ WriteRuns(w) \/ WriteEnds(w)
          PROVE  UNCHANGED closed /\ (~ Busy => ~ Busy')
      <3>1. w # Pump /\ w \in Tasks
        BY KernelTapAssumption DEF KernelTapAssumption
      <3> QED BY <1>4, <2>2, <3>1 DEF WriteBegins, WriteEnds, Ends, Busy
    <2>3. CASE PumpEnds \/ PumpDropped
      BY <2>3 DEF PumpEnds, PumpDropped, Ends, Busy
    <2>4. CASE Loop(WakeReaders) \/ Loop(WakeWriters)
      BY <2>4 DEF Loop, WakeReaders, WakeWriters, Wake
    <2>5. CASE UNCHANGED <<closed, call>>
      BY <2>5 DEF Busy
    <2>6. Kernel \/ Configured \/ ConfigureFails \/ StopBegins \/ Stops \/ UNCHANGED vars
              \/ (\E k \in Keys : HelloLan(k)) => UNCHANGED <<closed, call>>
      BY <1>2 DEF Kernel, Loop, Arrives, RoomChanges, Configured, ConfigureFails, StopBegins,
           Stops, HelloLan, vars, tapVars
    <2> QED BY <1>3, <2>1, <2>2, <2>3, <2>4, <2>5, <2>6 DEF Next
  <1>6. PumpReads => call'[Pump] \notin Pending
    BY <1>3
  <1>7. t \in Writers /\ WriteRuns(t) => call'[t] \notin Pending
    BY <1>4
  <1> QED BY <1>1, <1>3, <1>5, <1>6, <1>7

\* The call of the pump ends.
LEMMA ClosedPumpEnds ==
    ASSUME NEW t \in Tasks, t = Pump
    PROVE  FairSpec /\ []RunsWhenDue => (closed /\ call[t] \in Pending ~> call[t] \notin Pending)
  <1> DEFINE P == closed /\ call[t] \in Pending
             Q == call[t] \notin Pending
  <1>1. TypeOK /\ DeviceInv /\ WaitersHeard /\ P /\ [Next]_vars => P' \/ Q'
    BY ClosedStays
  <1>2. TypeOK /\ DeviceInv /\ WaitersHeard /\ P /\ <<PumpReads /\ Next>>_vars => Q'
    BY ClosedStays
  <1>3. PumpReads => Next
    BY DEF Next
  <1>4. TypeOK /\ DeviceInv /\ WaitersHeard /\ RunsWhenDue /\ P => ENABLED <<PumpReads>>_vars
    BY PumpIsTask DEF RunsWhenDue, WaitersHeard
  <1>5. FairSpec => Spec /\ WF_vars(PumpReads)
    BY PTL DEF FairSpec
  <1> QED BY <1>1, <1>2, <1>3, <1>4, <1>5, TypeCorrect, DeviceInvariant, NoWakeupLost, PTL DEF Spec

\* The call of a writer ends: first the pump, if it has a frame in hand, finds the device
\* closed, and then nothing keeps the writer from running.
LEMMA ClosedWriterEnds ==
    ASSUME NEW t \in Writers
    PROVE  FairSpec /\ []RunsWhenDue => (closed /\ call[t] \in Pending ~> call[t] \notin Pending)
  <1> DEFINE P == closed /\ call[t] \in Pending
             Q == call[t] \notin Pending
             A == ~ Busy /\ WriteRuns(t)
             I == TypeOK /\ DeviceInv /\ WaitersHeard
  <1> t \in Tasks
    OBVIOUS
  <1>1. I /\ P /\ [Next]_vars => P' \/ Q'
    BY ClosedStays
  <1>2. I /\ P /\ ~ Busy /\ [Next]_vars => ~ Busy' \/ Q'
    BY ClosedStays
  <1>3. I /\ P /\ <<PumpReads /\ Next>>_vars => ~ Busy'
    BY ClosedStays
  <1>4. I /\ P /\ <<A /\ Next>>_vars => Q'
    BY ClosedStays
  <1>5. (PumpReads => Next) /\ (A => Next)
    BY DEF Next
  <1>6. RunsWhenDue /\ Busy => ENABLED <<PumpReads>>_vars
    BY DEF RunsWhenDue, Busy
  <1>7. I /\ RunsWhenDue /\ P /\ ~ Busy => ENABLED <<A>>_vars
    BY DEF RunsWhenDue, WaitersHeard
  <1>8. FairSpec => Spec /\ WF_vars(PumpReads) /\ WritersFairness
    BY PTL DEF FairSpec
  <1>9. WritersFairness => WriterFairness(t)
    BY DEF WritersFairness
  <1>10. WriterFairness(t) => WF_vars(A)
    BY PTL DEF WriterFairness
  <1> QED BY <1>1, <1>2, <1>3, <1>4, <1>5, <1>6, <1>7, <1>8, <1>9, <1>10, TypeCorrect,
             DeviceInvariant, NoWakeupLost, PTL DEF Spec

\* close() lets go of every task that is in a call, the pump and the writers, whatever the
\* order in which they go on (tapw.py:58-75, 106-125).
THEOREM ClosedLetsGo == FairSpec /\ []RunsWhenDue => ClosedCallsEnd
  <1> SUFFICES ASSUME NEW t \in Tasks
               PROVE  FairSpec /\ []RunsWhenDue =>
                          (closed /\ call[t] \in Pending ~> call[t] \notin Pending)
    BY DEF ClosedCallsEnd
  <1>1. CASE t = Pump
    BY <1>1, ClosedPumpEnds
  <1>2. CASE t \in Writers
    BY <1>2, ClosedWriterEnds
  <1>3. t = Pump \/ t \in Writers
    BY LanManagerAssumption DEF LanManagerAssumption
  <1> QED BY <1>1, <1>2, <1>3

==============================================================================
