------------------------------ MODULE LanManager ------------------------------
(***************************************************************************)
(* The server's side of LAN sharing (src/usbferry/server.py, LanManager):  *)
(* its TAP device with the pump that reads it and the tasks that write to  *)
(* it, and the addresses it leases, over restarts of the server.           *)
(*                                                                         *)
(* Who joins the LAN is ServerSession's; here a client is a token that     *)
(* asks for an address.                                                    *)
(***************************************************************************)
EXTENDS KernelTap

CONSTANTS
    Pump,    \* the task of _pump
    Keys,    \* what leases are kept by: the first 16 digits of a token's hash
    Addrs,   \* the addresses, in their order
    NoAddr,  \* no lease
    Configs  \* what server.json may say of the LAN: its hosts and server_ip

ASSUME LanManagerAssumption ==
    /\ Readers = {Pump}
    /\ Addrs \subseteq Nat
    /\ NoAddr \notin Addrs
    /\ Configs \subseteq [hosts : SUBSET Addrs, server_ip : Addrs]

VARIABLES
    proc,    \* the server: "down", "starting" (in _configure), "up", "stopping", "stopped"
    active,  \* what hello and OPEN read
    config,  \* what the running server read from server.json
    leases,  \* the leases in server.state.json
    gave     \* history: the addresses each key was ever given

leaseVars == <<leases, gave>>
vars == <<tapVars, proc, active, config, leaseVars>>

Init ==
    /\ TapInit
    /\ proc = "down" /\ active = FALSE
    /\ config \in Configs
    /\ leases = [k \in Keys |-> NoAddr]
    /\ gave = [k \in Keys |-> {}]

\* The pump has a frame in hand: it sends it to the members and reads the next, and
\* nothing in between gives the loop to another task.
Busy == call[Pump] = "returned"

-----------------------------------------------------------------------------
(* start() and stop().                                                      *)

\* UsbferryServer.start with lan.enabled, in a new process or, in the GUI, again after a
\* stop whose tasks have ended.  server.json may have been edited.
Starts ==
    /\ \/ proc = "down"
       \/ proc = "stopped" /\ \A t \in Tasks : call[t] = "idle"
    /\ config' \in Configs
    /\ \/ proc' = "starting" /\ fd # "leaked" /\ fd' = "open"
       \/ /\ proc' = "up"      \* TapError: "LAN sharing disabled"
          /\ fd' = IF fd = "leaked" THEN fd ELSE "none"
    /\ closed' = FALSE /\ queue' = 0 /\ room' = TRUE
    /\ callbacks' = {} /\ waiters' = {}
    /\ call' = [t \in Tasks |-> "idle"]
    /\ active' = FALSE
    /\ UNCHANGED leaseVars

Configured ==
    /\ proc = "starting"
    /\ proc' = "up" /\ active' = TRUE
    /\ call' = [call EXCEPT ![Pump] = "calling"]
    /\ UNCHANGED <<fd, closed, queue, room, callbacks, waiters, config, leaseVars>>

\* No default route: TapError leaves start(), and the GUI goes on.  Nobody holds the
\* device to close it, and its name is taken.
ConfigureFails ==
    /\ proc = "starting"
    /\ proc' = "stopped" /\ fd' = "leaked"
    /\ UNCHANGED <<closed, queue, room, callbacks, waiters, call, active, config, leaseVars>>

\* The process is killed, or ends after a stop or after start() raised.
Dies ==
    /\ proc # "down"
    /\ proc' = "down" /\ active' = FALSE
    /\ fd' = "none" /\ closed' = FALSE /\ queue' = 0 /\ room' = TRUE
    /\ callbacks' = {} /\ waiters' = {}
    /\ call' = [t \in Tasks |-> "idle"]
    /\ UNCHANGED <<config, leaseVars>>

\* stop() cleans the sessions up and waits for the listener; sessions that are still
\* served in that time go on.
StopBegins ==
    /\ proc = "up"
    /\ proc' = "stopping"
    /\ UNCHANGED <<tapVars, active, config, leaseVars>>

\* LanManager.stop: the pump is cancelled and the device closed, without an await.
Stops ==
    /\ proc = "stopping"
    /\ proc' = "stopped"
    /\ \/ fd = "open" /\ Close({Pump} \cap {t \in Tasks : call[t] \in Pending})
       \/ fd # "open" /\ UNCHANGED tapVars
    /\ UNCHANGED <<active, config, leaseVars>>

-----------------------------------------------------------------------------
(* Frames.                                                                  *)

PumpReads ==
    /\ call[Pump] \in {"calling", "woken", "returned"}
    /\ Read(Pump)
    /\ UNCHANGED <<proc, active, config, leaseVars>>

\* Mutation: _pump has no finally.
PumpEndsActive ==
    /\ call[Pump] \in {"closed", "failed", "cancelled"}
    /\ Ends(Pump, "idle")
    /\ UNCHANGED <<queue, proc, active, config, leaseVars>>

\* The handlers of _pump and its finally.
PumpEnds ==
    /\ call[Pump] \in {"closed", "failed", "cancelled"}
    /\ Ends(Pump, "idle")
    /\ active' = FALSE
    /\ UNCHANGED <<queue, proc, config, leaseVars>>

\* Cancelled before its first step: the finally does not run.
PumpDropped ==
    /\ call[Pump] = "dropped"
    /\ Ends(Pump, "idle")
    /\ UNCHANGED <<queue, proc, active, config, leaseVars>>

\* DATA of a member, which may outlive stop(): write_frame creates a task for _write.
WriteBegins(t) ==
    /\ active
    /\ call[t] = "idle"
    /\ Ends(t, "calling")
    /\ UNCHANGED <<queue, proc, active, config, leaseVars>>

WriteRuns(t) ==
    /\ call[t] \in {"calling", "woken"}
    /\ Write(t)
    /\ UNCHANGED <<proc, active, config, leaseVars>>

WriteEnds(t) ==
    /\ call[t] \in {"returned", "closed", "failed"}
    /\ Ends(t, "idle")
    /\ UNCHANGED <<queue, proc, active, config, leaseVars>>

Loop(A) == A /\ UNCHANGED <<proc, active, config, leaseVars>>

-----------------------------------------------------------------------------
(* Addresses.                                                               *)

Used == {config.server_ip} \cup {leases[k] : k \in Keys}

Free == config.hosts \ Used

\* Mutation: the address is given although save_json raised.
AssignUnsaved(k) ==
    /\ leases[k] = NoAddr
    /\ \E a \in Free :
          /\ \A b \in Free : a <= b
          /\ leases' \in {leases, [leases EXCEPT ![k] = a]}
          /\ gave' = [gave EXCEPT ![k] = @ \cup {a}]

\* Mutation: the search for a free host ends without a raise when there is none.
AssignNone(k) ==
    /\ leases[k] = NoAddr
    /\ LET a == IF Free = {} THEN NoAddr ELSE CHOOSE a \in Free : \A b \in Free : a <= b
       IN /\ leases' = [leases EXCEPT ![k] = a]
          /\ gave' = [gave EXCEPT ![k] = @ \cup {a}]

\* The first free host is leased and saved.  When there is none, or when the save fails,
\* assign_ip raises and no address is given.
Assign(k) ==
    /\ leases[k] = NoAddr
    /\ \E a \in Free :
          /\ \A b \in Free : a <= b
          /\ leases' = [leases EXCEPT ![k] = a]
          /\ gave' = [gave EXCEPT ![k] = @ \cup {a}]

\* A lease is kept, whatever the subnet is by now.
Renew(k) ==
    /\ leases[k] # NoAddr
    /\ gave' = [gave EXCEPT ![k] = @ \cup {leases[k]}]
    /\ UNCHANGED leases

\* A hello that wants the LAN.
HelloLan(k) ==
    /\ active
    /\ Assign(k) \/ Renew(k)
    /\ UNCHANGED <<tapVars, proc, active, config>>

-----------------------------------------------------------------------------
Kernel == Loop(Arrives) \/ Loop(RoomChanges)

Next ==
    \/ Kernel \/ Dies \/ PumpReads
    \/ /\ ~ Busy
       /\ \/ Starts \/ Configured \/ ConfigureFails \/ StopBegins \/ Stops
          \/ Loop(WakeReaders) \/ Loop(WakeWriters)
          \/ PumpEnds \/ PumpDropped
          \/ \E t \in Writers : WriteBegins(t) \/ WriteRuns(t) \/ WriteEnds(t)
          \/ \E k \in Keys : HelloLan(k)

Spec == Init /\ [][Next]_vars

WriterFairness(w) == WF_vars(~ Busy /\ WriteRuns(w)) /\ WF_vars(~ Busy /\ WriteEnds(w))
WritersFairness == \A w \in Writers : WriterFairness(w)

\* The loop runs what is ready, and calls back for a descriptor that is.
FairSpec ==
    /\ Spec
    /\ WF_vars(PumpReads) /\ WF_vars(~ Busy /\ PumpEnds)
    /\ WF_vars(~ Busy /\ Loop(WakeReaders))
    /\ WritersFairness

-----------------------------------------------------------------------------
TypeOK ==
    /\ TapTypeOK
    /\ proc \in {"down", "starting", "up", "stopping", "stopped"}
    /\ active \in BOOLEAN
    /\ config \in Configs
    /\ leases \in [Keys -> Addrs \cup {NoAddr}]
    /\ gave \in [Keys -> SUBSET Addrs]

\* README.md:179 "Each client token gets a stable lease": a token is given one address
\* and no two are given the same, over restarts, failed saves, a full pool and edits of
\* the subnet (server.py:446-459).
StableLeases ==
    \A k, j \in Keys : \A a \in gave[k], b \in gave[j] : (k = j) <=> (a = b)

\* While hello and OPEN find the LAN active, there is a pump that reads the device, and
\* the device is open (server.py:351-363, 412-428, 695, 812); but for the time stop()
\* takes.
ActiveIsServed ==
    active /\ proc \in {"up", "stopping"} =>
        /\ fd = "open"
        /\ call[Pump] \in Pending \cup {"returned", "failed"}

\* close() lets go of every task that is in a call (tapw.py:58-75, 106-125).
ClosedCallsEnd ==
    \A t \in Tasks : (closed /\ call[t] \in Pending) ~> (call[t] \notin Pending)

\* A frame of the kernel finds the pump: it does not go on waiting
\* (tapw.py:58-75, 77-90).
PumpWakes == (queue > 0 /\ call[Pump] = "waiting") ~> (call[Pump] # "waiting")
=============================================================================
