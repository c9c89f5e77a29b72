---------------------------- MODULE GuiConnection ----------------------------
(***************************************************************************)
(* The connection of the GUI (src/usbferry/gui.py, GuiApp): connect_profile, *)
(* disconnect, the task of each client (_run_client), the reconnect loops   *)
(* (_reconnect_later), attach and detach.  Everything runs on one asyncio    *)
(* loop.  A call is a request of the local HTTP API or a turn of a reconnect *)
(* loop; calls run into each other at their awaits, nothing locks them out.  *)
(* Every overlap is a behaviour here; `overlap` remembers which have been,   *)
(* for the properties to say which ones they survive.                       *)
(*                                                                          *)
(* The server, the network and the usbip tool are the environment; the tool  *)
(* may fail, or be killed by its timeout after it did its work.             *)
(***************************************************************************)
EXTENDS Naturals, FiniteSets

CONSTANTS
    Requests,    \* bound: requests of the API handled at one time
    Loops,       \* bound: reconnect loops alive at one time
    Clients,     \* bound: UsbferryClients in use at one time
    Profiles,    \* the saved servers
    None,        \* Python's None
    MaxAttempts  \* reconnect attempts between two successes

Callers == Requests \cup Loops

ASSUME GuiAssumption ==
    /\ Requests \cap Loops = {} /\ IsFiniteSet(Loops)
    /\ None \notin Clients \cup Profiles /\ "disconnect" \notin Profiles
    /\ MaxAttempts \in Nat

VARIABLES
    client,    \* self.client
    task,      \* self.client_task, named by its client
    status,    \* self.status
    manual,    \* self._manual_disconnect
    target,    \* self._reconnect_profile
    attempts,  \* self._reconnect_attempts
    attached,  \* is self.attached non-empty?
    ports,     \* does the kernel hold devices imported through the tunnel?
    pc,        \* where each call is suspended
    job,       \* what a call that disconnects is: "connect" or "disconnect"
    profile,   \* the profile a call, or a loop, is about
    waits,     \* the client whose task it gathers, or that it dials
    run,       \* where each client's task is suspended; "ended" if there is none
    stop,      \* was the task cancelled ("asked"), has it been told ("told")?
    to,        \* the profile a client connects to
    asked,     \* history: the user's last request, "disconnect" or a profile
    overlap,   \* history: which calls began inside another one, see Overlaps
    slipped    \* history: did the tool leave the kernel holding what it reported gone?

appVars  == <<client, task, status, manual, target, attempts>>
callVars == <<pc, job, profile, waits>>
runVars  == <<run, stop, to>>
usbVars  == <<attached, ports, slipped>>
vars == <<appVars, callVars, runVars, usbVars, asked, overlap>>

Statuses == {"disconnected", "connecting", "connected", "needs_trust", "error"}
Jobs == {"none", "connect", "disconnect"}
PCs == {"idle", "sleeping", "releasing", "gathering", "dialing", "readying",
        "attaching", "imported", "detaching"}
Runs == {"dialing", "starting", "up", "cleaning", "releasing", "ended"}

\* Since all was last down: no call met another one; only calls of the usbip tool did;
\* or a connect or disconnect met one that was between its awaits.
Overlaps == {"none", "tool", "calls"}

Init ==
    /\ client = None /\ task = None
    /\ status = "disconnected" /\ manual = FALSE /\ target = None /\ attempts = 0
    /\ attached = FALSE /\ ports = FALSE
    /\ pc = [u \in Callers |-> "idle"]
    /\ job = [u \in Callers |-> "none"]
    /\ profile = [u \in Callers |-> None]
    /\ waits = [u \in Callers |-> None]
    /\ run = [c \in Clients |-> "ended"]
    /\ stop = [c \in Clients |-> "no"]
    /\ to = [c \in Clients |-> None]
    /\ asked = "disconnect" /\ overlap = "none" /\ slipped = FALSE

\* Disconnecting or connecting, up to the end of cli.connect(); and in the usbip tool.
Switching(u) == pc[u] \in {"releasing", "gathering", "dialing"}
UsingTool(u) == pc[u] \in {"attaching", "imported", "detaching"}

\* Nothing is up or under way, and nothing is left of what was.
AllDown ==
    /\ \A u \in Callers : ~ Switching(u) /\ ~ UsingTool(u)
    /\ \A c \in Clients : run[c] = "ended"
    /\ client = None /\ ~ attached /\ ~ ports

\* What a connect or a disconnect meets as it begins, and what a call of the tool does.
SwitchMeets ==
    overlap' = IF \E v \in Callers : Switching(v) THEN "calls"
               ELSE IF overlap = "none" /\ \E v \in Callers : UsingTool(v) THEN "tool"
               ELSE overlap

ToolMeets ==
    overlap' = IF overlap = "none" /\ \E v \in Callers : Switching(v) \/ UsingTool(v)
               THEN "tool" ELSE overlap

-----------------------------------------------------------------------------
(* disconnect(), and connect_profile() which begins with it.                *)

\* Mutation: attempts are counted and not limited.
GoesOnForever(p) == ~ manual' /\ target' = p /\ client' = None

\* The reconnect loop goes on unless something it looks at says otherwise.
GoesOn(p) == ~ manual' /\ target' = p /\ client' = None /\ attempts' < MaxAttempts

\* The call returns: a request is answered; a loop ends, or sleeps again.
Returns(u) ==
    LET again == /\ u \in Loops
                 /\ status' \notin {"connected", "needs_trust"}
                 /\ GoesOn(profile[u])
    IN /\ pc' = [pc EXCEPT ![u] = IF again THEN "sleeping" ELSE "idle"]
       /\ profile' = [profile EXCEPT ![u] = IF again THEN @ ELSE None]
       /\ job' = [job EXCEPT ![u] = "none"]
       /\ waits' = [waits EXCEPT ![u] = None]

\* The task of a client is over.
Ended(c) ==
    /\ run' = [run EXCEPT ![c] = "ended"]
    /\ stop' = [stop EXCEPT ![c] = "no"]
    /\ to' = [to EXCEPT ![c] = None]

Cleared == IF status = "error" THEN "error" ELSE "disconnected"

\* The end of disconnect, once there is no task to wait for.  connect_profile goes
\* on from here to cli.connect() without suspending.
Disconnected(u, what, p) ==
    /\ client' = None
    /\ attached' = FALSE
    /\ \/ /\ what = "disconnect"
          /\ status' = Cleared
          /\ manual' = TRUE
          /\ UNCHANGED <<runVars, target>>
          /\ Returns(u)
       \/ \* the profile was deleted
          /\ what = "connect"
          /\ status' = "error"
          /\ manual' = FALSE
          /\ UNCHANGED <<runVars, target>>
          /\ Returns(u)
       \/ /\ what = "connect"
          /\ status' = "connecting"
          /\ manual' = FALSE
          /\ UNCHANGED target
          /\ \E c \in Clients :
               /\ run[c] = "ended"
               /\ c \notin {task'} \cup {waits[v] : v \in Callers \ {u}}
               /\ run' = [run EXCEPT ![c] = "dialing"]
               /\ to' = [to EXCEPT ![c] = p]
               /\ waits' = [waits EXCEPT ![u] = c]
          /\ UNCHANGED stop
          /\ pc' = [pc EXCEPT ![u] = "dialing"]
          /\ profile' = [profile EXCEPT ![u] = p]
          /\ job' = [job EXCEPT ![u] = "none"]

\* The task is taken, its client's writer closed, the task cancelled and awaited.
TakesTask(u, what, p) ==
    /\ task # None
    /\ task' = None
    /\ waits' = [waits EXCEPT ![u] = task]
    /\ stop' = [stop EXCEPT ![task] = IF @ = "no" /\ run[task] # "ended" THEN "asked" ELSE @]
    /\ pc' = [pc EXCEPT ![u] = "gathering"]
    /\ job' = [job EXCEPT ![u] = what]
    /\ profile' = [profile EXCEPT ![u] = p]
    /\ manual' = TRUE
    /\ UNCHANGED <<client, status, target, run, to>>

\* The first step of disconnect, up to its first await.
Begins(u, what, p) ==
    \/ /\ task # None /\ attached
       /\ manual' = TRUE
       /\ pc' = [pc EXCEPT ![u] = "releasing"]
       /\ job' = [job EXCEPT ![u] = what]
       /\ profile' = [profile EXCEPT ![u] = p]
       /\ UNCHANGED <<client, task, status, target, waits, runVars, usbVars>>
    \/ /\ ~ attached
       /\ TakesTask(u, what, p)
       /\ UNCHANGED usbVars
    \/ /\ task = None
       /\ UNCHANGED <<task, ports, slipped>>
       /\ Disconnected(u, what, p)

\* A request of the user.
Requested(u, what, p) ==
    /\ pc[u] = "idle"
    /\ UNCHANGED attempts
    /\ Begins(u, what, p)
    /\ IF AllDown THEN overlap' = "none" ELSE SwitchMeets

RequestConnect(u, p) == Requested(u, "connect", p) /\ asked' = p

RequestDisconnect(u) == Requested(u, "disconnect", None) /\ asked' = "disconnect"

\* usbip_detach_ours: without the tool, or when it fails, the kernel keeps a device.
DetachesOurs == ports' \in {ports, FALSE} /\ slipped' = ports'

\* usbip_detach_ours returned.  If another call has taken the task meanwhile,
\* task.cancel() is an AttributeError, which ends this call.
Released(u) ==
    /\ pc[u] = "releasing"
    /\ DetachesOurs
    /\ \/ TakesTask(u, job[u], profile[u])
       \/ /\ task = None
          /\ pc' = [pc EXCEPT ![u] = "idle"]
          /\ job' = [job EXCEPT ![u] = "none"]
          /\ profile' = [profile EXCEPT ![u] = None]
          /\ UNCHANGED <<client, task, status, manual, target, waits, runVars>>
    /\ UNCHANGED <<attempts, attached, asked, overlap>>

\* Mutation: the task is cancelled and not awaited.
GatheredAtOnce(u) ==
    /\ pc[u] = "gathering"
    /\ UNCHANGED <<task, attempts, ports, slipped, asked, overlap>>
    /\ Disconnected(u, job[u], profile[u])

Gathered(u) ==
    /\ pc[u] = "gathering"
    /\ run[waits[u]] = "ended"
    /\ UNCHANGED <<task, attempts, ports, slipped, asked, overlap>>
    /\ Disconnected(u, job[u], profile[u])

\* cli.connect() raised: an unknown certificate, unless trust was given, or an error.
DialFails(u) ==
    /\ pc[u] = "dialing"
    /\ status' \in IF u \in Requests THEN {"needs_trust", "error"} ELSE {"error"}
    /\ Ended(waits[u])
    /\ UNCHANGED <<client, task, manual, target, attempts, usbVars, asked, overlap>>
    /\ Returns(u)

\* cli.connect() returned: whatever happened meanwhile, this is the client now.
DialDone(u) ==
    /\ pc[u] = "dialing"
    /\ client' = waits[u]
    /\ task' = waits[u]
    /\ target' = profile[u]
    /\ attempts' = 0
    /\ run' = [run EXCEPT ![waits[u]] = "starting"]
    /\ waits' = [waits EXCEPT ![u] = None]
    /\ pc' = [pc EXCEPT ![u] = "readying"]
    /\ UNCHANGED <<status, manual, job, profile, stop, to, usbVars, asked, overlap>>

\* cli.ready is set, or 8 s are over: connected in either case.
ReadyWaitEnds(u) ==
    /\ pc[u] = "readying"
    /\ status' = "connected"
    /\ UNCHANGED <<client, task, manual, target, attempts, runVars, usbVars, asked, overlap>>
    /\ Returns(u)

-----------------------------------------------------------------------------
(* _run_client, the task of a client.                                       *)

\* Mutation: only a loss that is shown as an error is recovered from.
RunEndsForErrors(c, st) ==
    /\ Ended(c)
    /\ attached' = FALSE
    /\ client' = None
    /\ status' = IF st \in {"error", "needs_trust"} THEN st ELSE "disconnected"
    /\ IF ~ manual /\ target # None /\ attempts < MaxAttempts /\ st = "error"
       THEN \E l \in Loops :
              /\ pc[l] = "idle"
              /\ pc' = [pc EXCEPT ![l] = "sleeping"]
              /\ profile' = [profile EXCEPT ![l] = target]
       ELSE UNCHANGED <<pc, profile>>
    /\ UNCHANGED <<task, manual, target, attempts, job, waits, asked, overlap>>

\* The end of its finally.  A loss nobody asked for starts a reconnect loop.
RunEnds(c, st) ==
    /\ Ended(c)
    /\ attached' = FALSE
    /\ client' = None
    /\ status' = IF st \in {"error", "needs_trust"} THEN st ELSE "disconnected"
    /\ IF ~ manual /\ target # None /\ attempts < MaxAttempts
       THEN \E l \in Loops :
              /\ pc[l] = "idle"
              /\ pc' = [pc EXCEPT ![l] = "sleeping"]
              /\ profile' = [profile EXCEPT ![l] = target]
       ELSE UNCHANGED <<pc, profile>>
    /\ UNCHANGED <<task, manual, target, attempts, job, waits, asked, overlap>>

\* Mutation: what is attached is forgotten without a detach.
RunLeavesAttached(c, st) == RunEnds(c, st) /\ UNCHANGED <<ports, slipped>>

\* run_connected is left and the finally begins: at once, or after a detach.
RunLeaves(c, st) ==
    \/ /\ attached
       /\ run' = [run EXCEPT ![c] = "releasing"]
       /\ stop' = [stop EXCEPT ![c] = IF @ = "asked" THEN "told" ELSE @]
       /\ status' = st
       /\ UNCHANGED <<client, task, manual, target, attempts, callVars, to, usbVars, asked, overlap>>
    \/ /\ ~ attached
       /\ RunEnds(c, st)
       /\ UNCHANGED <<ports, slipped>>

\* An exception other than a cancellation is an error, if the GUI was connected.
AfterError == IF status = "connected" THEN "error" ELSE status

\* The LAN and the forward are up, ready is set and frames are pumped.
RunReady(c) ==
    /\ run[c] = "starting" /\ stop[c] = "no"
    /\ run' = [run EXCEPT ![c] = "up"]
    /\ UNCHANGED <<appVars, callVars, stop, to, usbVars, asked, overlap>>

\* No tap, or the forward's port is taken: run_connected raises before its try.
RunFails(c) ==
    /\ run[c] = "starting" /\ stop[c] = "no"
    /\ RunLeaves(c, AfterError)

\* The connection ends, or the task is cancelled: run_connected cleans up.
RunLost(c) ==
    /\ run[c] = "up"
    /\ run' = [run EXCEPT ![c] = "cleaning"]
    /\ stop' = [stop EXCEPT ![c] = IF @ = "asked" THEN "told" ELSE @]
    /\ UNCHANGED <<appVars, callVars, to, usbVars, asked, overlap>>

\* A lost connection is no error to run_connected, a protocol error is.
RunCleaned(c) ==
    /\ run[c] = "cleaning" /\ stop[c] # "asked"
    /\ \/ RunLeaves(c, status)
       \/ stop[c] = "no" /\ RunLeaves(c, AfterError)

\* A cancellation before ready, or in the cleanup, is raised there.
RunCancelled(c) ==
    /\ run[c] \in {"starting", "cleaning"} /\ stop[c] = "asked"
    /\ RunLeaves(c, status)

\* A task cancelled before its first step runs neither its try nor its finally.
RunDropped(c) ==
    /\ run[c] = "starting" /\ stop[c] = "asked"
    /\ Ended(c)
    /\ UNCHANGED <<appVars, callVars, usbVars, asked, overlap>>

RunReleased(c) ==
    /\ run[c] = "releasing"
    /\ stop[c] # "asked"
    /\ DetachesOurs
    /\ RunEnds(c, status)

\* `except Exception` does not catch a cancellation: the finally is cut short.
RunReleaseCancelled(c) ==
    /\ run[c] = "releasing"
    /\ stop[c] = "asked"
    /\ Ended(c)
    /\ ports' \in {ports, FALSE} /\ slipped' = (slipped /\ ports')
    /\ UNCHANGED <<appVars, callVars, attached, asked, overlap>>

-----------------------------------------------------------------------------
(* _reconnect_later: asleep, or in a connect_profile of its own.            *)

LoopGivesUp(l) ==
    /\ pc[l] = "sleeping"
    /\ manual \/ target # profile[l] \/ client # None
    /\ pc' = [pc EXCEPT ![l] = "idle"]
    /\ profile' = [profile EXCEPT ![l] = None]
    /\ UNCHANGED <<appVars, job, waits, runVars, usbVars, asked, overlap>>

\* Mutation: the loop does not look at manual_disconnect after its sleep.
LoopAttemptsAnyway(l) ==
    /\ pc[l] = "sleeping"
    /\ target = profile[l] /\ client = None
    /\ attempts' = attempts + 1
    /\ Begins(l, "connect", profile[l])
    /\ SwitchMeets
    /\ UNCHANGED asked

LoopAttempts(l) ==
    /\ pc[l] = "sleeping"
    /\ ~ manual /\ target = profile[l] /\ client = None
    /\ attempts' = attempts + 1
    /\ Begins(l, "connect", profile[l])
    /\ SwitchMeets
    /\ UNCHANGED asked

-----------------------------------------------------------------------------
(* attach and detach.                                                       *)

AttachBegins(u) ==
    /\ pc[u] = "idle"
    /\ client # None
    /\ pc' = [pc EXCEPT ![u] = "attaching"]
    /\ ToolMeets
    /\ UNCHANGED <<appVars, job, profile, waits, runVars, usbVars, asked>>

\* `usbip attach` succeeds through the forward of a client that is up.
AttachImports(u) ==
    /\ pc[u] = "attaching"
    /\ \E c \in Clients : run[c] = "up"
    /\ ports' = TRUE
    /\ pc' = [pc EXCEPT ![u] = "imported"]
    /\ UNCHANGED <<appVars, job, profile, waits, runVars, attached, slipped, asked, overlap>>

\* The tool fails, succeeds, or is killed at 30 s with the import done: no success.
AttachEnds(u) ==
    /\ \/ pc[u] = "attaching" /\ UNCHANGED <<attached, slipped>>
       \/ pc[u] = "imported" /\ attached' = TRUE /\ UNCHANGED slipped
       \/ pc[u] = "imported" /\ UNCHANGED attached /\ slipped' = ports
    /\ pc' = [pc EXCEPT ![u] = "idle"]
    /\ UNCHANGED <<appVars, job, profile, waits, runVars, ports, asked, overlap>>

DetachBegins(u) ==
    /\ pc[u] = "idle"
    /\ attached
    /\ pc' = [pc EXCEPT ![u] = "detaching"]
    /\ ToolMeets
    /\ UNCHANGED <<appVars, job, profile, waits, runVars, usbVars, asked>>

DetachEnds(u) ==
    /\ pc[u] = "detaching"
    /\ DetachesOurs
    /\ attached' = FALSE
    /\ pc' = [pc EXCEPT ![u] = "idle"]
    /\ UNCHANGED <<appVars, job, profile, waits, runVars, asked, overlap>>

-----------------------------------------------------------------------------
UserAsks(u) ==
    \/ \E p \in Profiles : RequestConnect(u, p)
    \/ RequestDisconnect(u) \/ AttachBegins(u) \/ DetachBegins(u)

\* The awaits of a call end: commands, gather and the two connects are bounded.
CallProceeds(u) ==
    \/ Released(u) \/ Gathered(u) \/ DialFails(u) \/ DialDone(u) \/ ReadyWaitEnds(u)
    \/ AttachEnds(u) \/ DetachEnds(u)

RunProceeds(c) ==
    \/ RunReady(c) \/ RunFails(c) \/ RunCleaned(c)
    \/ RunCancelled(c) \/ RunDropped(c) \/ RunReleased(c) \/ RunReleaseCancelled(c)
    \/ stop[c] = "asked" /\ RunLost(c)

LoopWakes(l) == LoopGivesUp(l) \/ LoopAttempts(l)

Next ==
    \/ \E u \in Requests : UserAsks(u) \/ AttachImports(u)
    \/ \E u \in Callers : CallProceeds(u)
    \/ \E c \in Clients : RunProceeds(c) \/ RunLost(c)
    \/ \E l \in Loops : LoopWakes(l)

Spec == Init /\ [][Next]_vars

\* Every await of the GUI's own calls and tasks ends, and so does a sleep.
FairSpec ==
    /\ Spec
    /\ \A u \in Callers : WF_vars(CallProceeds(u))
    /\ \A c \in Clients : WF_vars(RunProceeds(c))
    /\ \A l \in Loops : WF_vars(LoopWakes(l))

-----------------------------------------------------------------------------
TypeOK ==
    /\ client \in Clients \cup {None} /\ task \in Clients \cup {None}
    /\ status \in Statuses /\ manual \in BOOLEAN
    /\ target \in Profiles \cup {None} /\ attempts \in 0 .. MaxAttempts + Cardinality(Loops)
    /\ attached \in BOOLEAN /\ ports \in BOOLEAN /\ slipped \in BOOLEAN
    /\ pc \in [Callers -> PCs] /\ job \in [Callers -> Jobs]
    /\ profile \in [Callers -> Profiles \cup {None}]
    /\ waits \in [Callers -> Clients \cup {None}]
    /\ run \in [Clients -> Runs] /\ stop \in [Clients -> {"no", "asked", "told"}]
    /\ to \in [Clients -> Profiles \cup {None}]
    /\ asked \in Profiles \cup {"disconnect"} /\ overlap \in Overlaps

Connected(c) == run[c] \in {"starting", "up"} /\ stop[c] = "no"

NoneSwitches == \A u \in Callers : ~ Switching(u)

\* The GUI never runs a client that it does not hold: its tunnel, its forward and its tap
\* would stay up with nothing left that could close them (gui.py:125-130, 155, 181-188).
\* Calls of the tool, and connects that only wait for ready, may be met at any point.
OneTunnel ==
    overlap # "calls" => \A c \in Clients : Connected(c) => client = c /\ task = c

\* After a disconnect was asked for last and has been answered, no tunnel is up and
\* none is being made: no reconnect loop undoes it (gui.py:159-178).
StaysDisconnected ==
    (overlap # "calls" /\ asked = "disconnect" /\ NoneSwitches)
        => \A c \in Clients : ~ Connected(c) /\ run[c] # "dialing"

\* A client that is up is shown as connected, whatever became of the one before it.
ShownConnected ==
    (overlap # "calls" /\ \A u \in Callers : ~ Switching(u) /\ pc[u] # "readying")
        => \A c \in Clients : (run[c] = "up" /\ stop[c] = "no") => status = "connected"

\* Devices imported through the tunnel are never forgotten by the GUI itself: while the
\* kernel holds some, the next disconnect or loss detaches them (gui.py:145-154, 182-191,
\* 212-220).  Two exceptions: calls of the tool that met others, and a tool that failed to
\* detach or was killed with the import done, which the GUI takes at its word.
PortsKnown ==
    (overlap = "none" /\ ports)
        => attached \/ slipped \/ \E u \in Requests : pc[u] = "imported"

\* A connection that is lost while the user wants it is made again, unless the user asks
\* for something else or the attempts are used up, over failed attempts (gui.py:156-178).
\* A disconnect that meets an attempt of a loop may stop it or not (see DisconnectHolds).
Recovers ==
    \A c \in Clients :
        (run[c] = "cleaning" /\ stop[c] = "no" /\ asked # "disconnect" /\ overlap # "calls")
            ~> \/ \E d \in Clients : run[d] = "starting"
               \/ attempts >= MaxAttempts
               \/ asked = "disconnect" \/ \E u \in Requests : Switching(u)
               \/ overlap = "calls"

\* Auto-reconnect "stops on manual disconnect" (AUDIT.md:62).
DisconnectHolds ==
    (asked = "disconnect" /\ NoneSwitches) => \A c \in Clients : ~ Connected(c)

\* It stops on "profile switch" too (AUDIT.md:62): with no call inside another one, no
\* client is up for a profile that the user has left.
SwitchHolds ==
    (overlap = "none" /\ asked \in Profiles /\ NoneSwitches)
        => \A c \in Clients : Connected(c) => to[c] = asked
=============================================================================
