------------------------------ MODULE ClientRun ------------------------------
(***************************************************************************)
(* The life of a client (src/usbferry/client.py: connect, run_connected,   *)
(* _start_lan, _start_forward, _cleanup) and the commands that run it      *)
(* (src/usbferry/__main__.py: connect, list-usb, attach).  In `connect` the *)
(* client may as well be the GUI's, whose API asks for the devices.        *)
(*                                                                         *)
(* The server, the network, the user, the kernel and the usbip tool are    *)
(* the environment.                                                        *)
(***************************************************************************)
EXTENDS ControlRequests

\* attached is None, True or False.
ASSUME RunAssumption == None \notin BOOLEAN

VARIABLES
    mode,       \* the command: "connect", "list-usb" or "attach"
    run,        \* where UsbferryClient.run is suspended
    cancelled,  \* has its task been cancelled, and not been told yet?
    main,       \* where cmd_attach is suspended; "running" for the other commands
    forward,    \* is the forward listening?
    tap,        \* self.tap: "none" or "open"; "leaked" if nobody is left to close it
    pump,       \* the task of _tap_pump: "none", "running", "cancelled", "ended"
    asker,      \* the request of list-usb
    tool,       \* the process `usbip attach`: "none", "running", "ended"
    imported,   \* does the kernel hold the device?
    attached,   \* outcome["attached"] of cmd_attach, None before the tool has ended
    cutShort,   \* history: what ended before it had done its work
    interrupted \* history: has the user interrupted the command?

tapVars == <<tap, pump>>
toolVars == <<tool, imported, attached>>
history == <<cutShort, interrupted>>
runVars == <<mode, run, cancelled, main, forward, tapVars, asker, toolVars, history>>
vars == <<ctrlVars, runVars>>

Early == {"dialing", "greeting", "starting lan", "starting forward"}
Inside == {"settling", "attaching", "asking", "looping"}

Init ==
    /\ ControlInit
    /\ conn = "none" /\ loop = "none"
    /\ mode \in {"connect", "list-usb", "attach"}
    /\ run = "dialing" /\ cancelled = FALSE
    /\ main = IF mode = "attach" THEN "waiting" ELSE "running"
    /\ forward = FALSE /\ tap = "none" /\ pump = "none"
    /\ asker = None
    /\ tool = "none" /\ imported = FALSE /\ attached = None
    /\ cutShort = {} /\ interrupted = FALSE

\* The connection is over for the client: of what was under way to it, some has arrived
\* and can still be read.
Ends(how) ==
    /\ conn' = how
    /\ \E n \in 0 .. Len(down) : down' = SubSeq(down, 1, n)
    /\ UNCHANGED <<up, serving>>

-----------------------------------------------------------------------------
(* connect().                                                               *)

\* An exception leaves run() before run_connected's try: nothing is cleaned up.
Fails ==
    /\ run' = "failed" /\ cancelled' = FALSE
    /\ tap' = IF tap = "open" THEN "leaked" ELSE tap

\* The TLS handshake is done and the certificate looked at, or there was no connection.
\* A client that refuses the certificate leaves the connection open.
Dialed ==
    /\ run = "dialing" /\ ~ cancelled
    /\ \/ /\ conn' = "up" /\ run' = "greeting"
          /\ UNCHANGED <<cancelled, tap>>
       \/ /\ conn' \in {"none", "up"}
          /\ Fails
    /\ UNCHANGED <<loop, requestVars, frameVars, device, shared,
                   mode, main, forward, pump, asker, toolVars, history>>

\* The hello is answered: run_connected goes on with the LAN, if it is wanted and
\* offered, or with the forward; or no welcome comes.
Greeted ==
    /\ run = "greeting" /\ ~ cancelled
    /\ \/ /\ conn = "up"
          /\ run' \in (IF mode = "connect" THEN {"starting lan"} ELSE {}) \cup {"starting forward"}
          /\ UNCHANGED <<cancelled, tap>>
       \/ Fails
    /\ UNCHANGED <<ctrlVars, mode, main, forward, pump, asker, toolVars, history>>

-----------------------------------------------------------------------------
(* run_connected().                                                         *)

\* The device is open and being configured.
TapOpens ==
    /\ run = "starting lan" /\ tap = "none" /\ ~ cancelled
    /\ \/ /\ conn = "up"
          /\ tap' = "open"
          /\ UNCHANGED <<run, cancelled>>
       \/ Fails  \* OPEN could not be sent, or there is no device to open
    /\ UNCHANGED <<ctrlVars, mode, main, forward, pump, asker, toolVars, history>>

LanStarted ==
    /\ run = "starting lan" /\ tap = "open" /\ ~ cancelled
    /\ pump' = "running"
    /\ run' = "starting forward"
    /\ UNCHANGED <<ctrlVars, mode, cancelled, main, forward, tap, asker, toolVars, history>>

\* Mutation: the frame loop begins when on_ready has returned.
LoopLater ==
    /\ run = "starting forward" /\ ~ cancelled
    /\ loop' = IF mode = "list-usb" THEN loop ELSE "reading"
    /\ forward' \in (IF mode = "list-usb" THEN {FALSE} ELSE BOOLEAN)
    /\ run' = CASE mode = "connect" -> "looping"
                [] mode = "list-usb" -> "asking"
                [] mode = "attach" -> "settling"
    /\ UNCHANGED <<conn, requestVars, frameVars, device, shared,
                   mode, cancelled, main, tapVars, asker, toolVars, history>>

\* The forward listens, unless it is not wanted or the server has no usbip; the frame loop
\* is begun, and then on_ready.
Readies ==
    /\ run = "starting forward" /\ ~ cancelled
    /\ loop' = "reading"
    /\ forward' \in (IF mode = "list-usb" THEN {FALSE} ELSE BOOLEAN)
    /\ run' = CASE mode = "connect" -> "looping"
                [] mode = "list-usb" -> "asking"
                [] mode = "attach" -> "settling"
    /\ UNCHANGED <<conn, requestVars, frameVars, device, shared,
                   mode, cancelled, main, tapVars, asker, toolVars, history>>

\* The forward's port is taken, by a usbipd of this machine as a rule.
ForwardFails ==
    /\ run = "starting forward" /\ mode # "list-usb" /\ ~ cancelled
    /\ Fails
    /\ UNCHANGED <<ctrlVars, mode, main, forward, pump, asker, toolVars, history>>

\* on_ready of list-usb: one request.
ListAsks ==
    /\ run = "asking" /\ asker = None /\ ~ cancelled
    /\ \E r \in Requests : Ask(r) /\ asker' = r
    /\ UNCHANGED <<conn, loop, mode, run, cancelled, main, forward, tapVars, toolVars, history>>

\* The request of an API call of the GUI, whose task is not the client's.
ApiAsks(r) ==
    /\ mode = "connect" /\ run \in {"starting lan", "starting forward", "looping", "cleaning"}
    /\ Ask(r)
    /\ UNCHANGED <<conn, loop, runVars>>

\* on_ready of attach has slept, and starts the tool.
AttachBegins ==
    /\ run = "settling" /\ ~ cancelled
    /\ run' = "attaching" /\ tool' = "running"
    /\ UNCHANGED <<ctrlVars, mode, cancelled, main, forward, tapVars, asker,
                   imported, attached, history>>

\* The tool has the kernel import the device over the forward.
ToolImports ==
    /\ tool = "running" /\ ~ imported
    /\ conn = "up" /\ forward
    /\ imported' = TRUE
    /\ UNCHANGED <<ctrlVars, mode, run, cancelled, main, forward, tapVars, asker,
                   tool, attached, history>>

\* The tool ends by itself, and knows whether it has attached the device; or it is killed
\* by run()'s timeout, whatever it has done by then.
ToolEnds ==
    /\ tool = "running" /\ run = "attaching" /\ ~ cancelled
    /\ tool' = "ended"
    /\ \/ attached' = imported /\ UNCHANGED cutShort
       \/ attached' = FALSE /\ cutShort' = cutShort \cup {"tool"}
    /\ run' = "looping"
    /\ UNCHANGED <<ctrlVars, mode, cancelled, main, forward, tapVars, asker,
                   imported, interrupted>>

\* The server closes the LAN: the frame loop closes the tap, and no one holds it.
LanClosed ==
    /\ loop = "reading" /\ tap = "open"
    /\ tap' = "none"
    /\ UNCHANGED <<ctrlVars, mode, run, cancelled, main, forward, pump, asker, toolVars, history>>

\* _tap_pump returns: its tap is closed, its frame cannot be sent, or it is cancelled.
PumpEnds ==
    /\ \/ pump = "running" /\ (tap = "none" \/ conn # "up")
       \/ pump = "cancelled"
    /\ pump' = "ended"
    /\ UNCHANGED <<ctrlVars, mode, run, cancelled, main, forward, tap, asker, toolVars, history>>

\* read_frame raises once everything that has arrived was read.
LoopEnds ==
    /\ loop = "reading" /\ conn # "up" /\ down = <<>>
    /\ loop' = "ended"
    /\ UNCHANGED <<conn, requestVars, frameVars, device, shared, runVars>>

\* read_frame raises ProtocolError (common.py:68-69), which run_connected does not catch:
\* what arrives is no frame of the protocol.
LoopBreaks ==
    /\ loop = "reading"
    /\ loop' = "broken"
    /\ UNCHANGED <<conn, requestVars, frameVars, device, shared, runVars>>

-----------------------------------------------------------------------------
(* The end of run_connected: its finally, with _cleanup.                    *)

\* Mutation: _cleanup leaves the forward listening.
CleansLess ==
    /\ loop' = IF loop = "reading" THEN "ended" ELSE loop
    /\ forward' = forward
    /\ pump' = IF pump = "running" THEN "cancelled" ELSE pump
    /\ tap' = "none"
    /\ \/ /\ tap = "none"
          /\ run' = "ended"
          /\ Ends("closed")
       \/ /\ tap = "open" /\ run' = "cleaning"
          /\ UNCHANGED <<conn, frameVars>>

\* The frame loop's task is cancelled; the tasks, the forward, the tap and the connection
\* follow in one step, unless a tap of the kernel is there to be deleted.
CleansUp ==
    /\ loop' = IF loop = "reading" THEN "ended" ELSE loop
    /\ forward' = FALSE
    /\ pump' = IF pump = "running" THEN "cancelled" ELSE pump
    /\ tap' = "none"
    /\ \/ /\ tap = "none"
          /\ run' = "ended"
          /\ Ends("closed")
       \/ /\ tap = "open" /\ run' = "cleaning"
          /\ UNCHANGED <<conn, frameVars>>

\* list-usb has its answer and closes the connection; it goes on to wait for the loop.
ListPrints ==
    /\ run = "asking" /\ asker # None /\ ~ cancelled
    /\ asking[asker] = "answered"
    /\ run' = "looping"
    /\ Ends("closed")
    /\ UNCHANGED <<loop, requestVars, device, shared,
                   mode, cancelled, main, forward, tapVars, asker, toolVars, history>>

\* The frame loop is over, and with it run_connected; or list-usb got no answer, an error
\* that leaves on_ready.
Leaves ==
    /\ ~ cancelled
    /\ \/ run = "looping" /\ loop # "reading"
       \/ run = "asking" /\ asker # None /\ asking[asker] \in {"timed out", "failed"}
    /\ CleansUp
    /\ UNCHANGED <<requestVars, device, shared, mode, cancelled, main, asker, toolVars, history>>

\* `ip link delete` returned.
Cleaned ==
    /\ run = "cleaning" /\ ~ cancelled
    /\ run' = "ended"
    /\ Ends("closed")
    /\ UNCHANGED <<loop, requestVars, device, shared,
                   mode, cancelled, main, forward, tapVars, asker, toolVars, history>>

\* The task is told of its cancellation.  A request of its own is given up; the tool goes
\* on; a cleanup that is cancelled does not close the connection.
Told ==
    /\ cancelled
    /\ \/ /\ run \in Early
          /\ Fails
          /\ UNCHANGED <<conn, loop, requestVars, frameVars, forward, pump, cutShort>>
       \/ /\ run \in Inside
          /\ cancelled' = FALSE
          /\ CleansUp
          /\ IF run = "asking" /\ asker # None /\ asking[asker] = "waiting"
             THEN GivesUp(asker, "failed")
             ELSE UNCHANGED requestVars
          /\ UNCHANGED cutShort
       \/ /\ run = "cleaning"
          /\ cancelled' = FALSE
          /\ run' = "ended"
          /\ cutShort' = cutShort \cup {"cleanup"}
          /\ UNCHANGED <<conn, loop, requestVars, frameVars, forward, tapVars>>
    /\ UNCHANGED <<device, shared, mode, main, asker, toolVars, interrupted>>

-----------------------------------------------------------------------------
(* cmd_attach.                                                              *)

RunDone == run \in {"ended", "failed"}

\* The attach failed: stop is set, and the client's task is cancelled.
StopSet ==
    /\ main = "waiting" /\ ~ RunDone
    /\ attached = FALSE
    /\ main' = "joining"
    /\ cancelled' = TRUE
    /\ UNCHANGED <<ctrlVars, mode, run, forward, tapVars, asker, toolVars, history>>

\* Mutation: a device that was attached is forgotten when the tunnel is lost.
ForgetsWhenLost ==
    /\ main \in {"waiting", "joining"} /\ RunDone
    /\ main' = "ended"
    /\ UNCHANGED <<ctrlVars, mode, run, cancelled, forward, tapVars, asker, toolVars, history>>

\* The client's task is over.  What was attached is released, unless run() raised.
Joined ==
    /\ main \in {"waiting", "joining"} /\ RunDone
    /\ main' = IF attached = TRUE /\ loop # "broken" THEN "detaching" ELSE "ended"
    /\ UNCHANGED <<ctrlVars, mode, run, cancelled, forward, tapVars, asker, toolVars, history>>

\* usbip_detach_ours; if `usbip port` or `usbip detach` fails, so that it detaches nothing,
\* the command does not notice.
Detached ==
    /\ main = "detaching"
    /\ main' = "ended"
    /\ \/ imported' = FALSE /\ UNCHANGED cutShort
       \/ cutShort' = cutShort \cup {"detach"} /\ UNCHANGED imported
    /\ UNCHANGED <<ctrlVars, mode, run, cancelled, forward, tapVars, asker, tool, attached,
                   interrupted>>

\* Ctrl-C, or the GUI's disconnect, which closes the connection first.  asyncio.run cancels
\* cmd_attach where it waits, and then the client's task.
Interrupt ==
    /\ ~ interrupted
    /\ interrupted' = TRUE
    /\ \/ UNCHANGED <<conn, frameVars>>
       \/ /\ mode = "connect" /\ conn \in {"up", "lost"}
          /\ Ends("closed")
    /\ ~ RunDone \/ main = "detaching"
    /\ cancelled' = ~ RunDone
    /\ main' = IF mode = "attach" THEN "ended" ELSE main
    /\ UNCHANGED <<loop, requestVars, device, shared,
                   mode, run, forward, tapVars, asker, toolVars, cutShort>>

-----------------------------------------------------------------------------
(* The environment, and the specification.                                  *)

\* The connection breaks, or the server closes it, and the client can tell.
Loses ==
    /\ conn = "up"
    /\ Ends("lost")
    /\ UNCHANGED <<loop, requestVars, device, shared, runVars>>

\* The kernel gives the device up when its connection is gone; it need not (gui.py:149-150).
KernelReleases ==
    /\ imported /\ conn # "up"
    /\ imported' = FALSE
    /\ UNCHANGED <<ctrlVars, mode, run, cancelled, main, forward, tapVars, asker,
                   tool, attached, history>>

\* Control requests go on whatever run and main do.
RequestStep ==
    /\ \/ \E r \in Requests : TimesOut(r)
       \/ Reply
       \/ ServerNext
       \/ DeviceChanges
    /\ UNCHANGED runVars

Starts ==
    \/ Dialed \/ Greeted \/ TapOpens \/ LanStarted \/ Readies \/ ForwardFails

OnReady ==
    \/ ListAsks \/ ListPrints
    \/ AttachBegins \/ ToolEnds

Finishes ==
    \/ PumpEnds \/ LoopEnds \/ Leaves \/ Cleaned \/ Told
    \/ StopSet \/ Joined \/ Detached

Next ==
    \/ RequestStep
    \/ Starts
    \/ OnReady
    \/ Finishes
    \/ \E r \in Requests : ApiAsks(r)
    \/ ToolImports
    \/ LanClosed
    \/ LoopBreaks
    \/ Interrupt
    \/ Loses
    \/ KernelReleases

\* Every await of a start, of on_ready and of an end has a timeout or ends by itself
\* (15 s for the welcome, 30 s for the tool, 15 s for a command); the loop runs what is
\* ready; the server answers.  None of these steps can be taken for ever, so that fairness
\* of all is fairness of each.  The timeout of a request is relied on only when the
\* connection or its frame loop is gone: while both go on, answers have to do.
Fairness ==
    /\ WF_vars(Starts \/ OnReady \/ Finishes \/ ((Reply \/ ServerNext) /\ UNCHANGED runVars))
    /\ \A r \in Requests : 
           WF_vars((conn # "up" \/ run = "failed" \/ loop = "broken")
                                   /\ TimesOut(r) /\ UNCHANGED runVars)

Spec == Init /\ [][Next]_vars /\ Fairness

-----------------------------------------------------------------------------

TypeOK ==
    /\ ControlTypeOK
    /\ loop \in IF run \in Early \cup {"failed"} THEN {"none"}
                ELSE {"reading", "ended", "broken"}
    /\ mode \in {"connect", "list-usb", "attach"}
    /\ run \in Early \cup Inside \cup {"cleaning", "ended", "failed"}
    /\ cancelled \in (IF RunDone THEN {FALSE} ELSE BOOLEAN)
    /\ main \in {"running", "waiting", "joining", "detaching", "ended"}
    /\ forward \in BOOLEAN
    /\ tap \in {"none", "open", "leaked"}
    /\ pump \in {"none", "running", "cancelled", "ended"}
    /\ asker \in Requests \cup {None}
    /\ tool \in {"none", "running", "ended"}
    /\ imported \in BOOLEAN
    /\ attached \in BOOLEAN \cup {None}
    /\ cutShort \subseteq {"tool", "cleanup", "detach"}
    /\ interrupted \in BOOLEAN

\* Once run_connected is over, however it was left (the connection lost, an error of
\* on_ready, a cancellation at any await), nothing of the client goes on: no listener, no
\* tap, no pump that was not cancelled, no frame loop, no connection (client.py:173-178,
\* 328-345).  What it does not cover: an end before its try, which cleans nothing up, and
\* a cleanup that is cancelled.
NothingLeft ==
    run = "ended" =>
        /\ ~ forward /\ tap = "none" /\ pump # "running" /\ loop # "reading"
        /\ "cleanup" \notin cutShort => conn = "closed"

\* What the command relies on to release its device: that run() did not kill the tool, which
\* then counts as failed whatever it has done; that the detach worked; and that the client
\* ended without a ProtocolError, which leaves cmd_attach before its detach.
Unhindered == cutShort \cap {"tool", "detach"} = {} /\ loop # "broken"

\* When the attach command has ended, the kernel no longer holds the device: it was
\* released whichever of the tool, the tunnel and the command came to its end first
\* (__main__.py:164-182), if what the command relies on held and the user has not
\* interrupted it.
ReleasedAtEnd ==
    main = "ended" /\ ~ interrupted /\ Unhindered => ~ imported

\* "[*] Ctrl-C to detach and disconnect" (__main__.py:160), as long as what the command
\* relies on holds.
CtrlCDetaches ==
    main = "ended" /\ tool = "ended" /\ Unhindered => ~ imported

\* Whoever asks gets an answer without waiting for a timeout, as long as the connection
\* lasts: the frame loop runs while on_ready does (client.py:168-173).  And a client that
\* has lost its connection ends, with the command that runs it.
Over == RunDone /\ main \in {"running", "ended"}

ClientEnds ==
    /\ \A r \in Requests : asking[r] = "waiting" ~> asking[r] # "waiting"
    /\ conn \in {"lost", "closed"} ~> Over
=============================================================================
