--------------------------- MODULE ControlRequests ---------------------------
(***************************************************************************)
(* Control requests: ctrl_request and the client's frame loop              *)
(* (src/usbferry/client.py), the server's _handle_ctrl and what it asks    *)
(* usbipd for an answer (src/usbferry/server.py).  A request has an id, its *)
(* answer may come at any time after its timeout, and the server answers   *)
(* one request at a time while the operator plugs, shares and unshares.    *)
(*                                                                         *)
(* Who asks, and how the connection begins and ends, is ClientRun's.       *)
(***************************************************************************)
EXTENDS Naturals, Sequences

CONSTANTS
    MaxRequests,      \* bound: requests made over one connection
    Devices,          \* the USB devices of the server
    None,             \* Python's None
    ExposeUnexported  \* usbip.expose_unexported in server.json

ASSUME ControlAssumption ==
    /\ MaxRequests \in Nat
    /\ None \notin Nat
    /\ ExposeUnexported \in BOOLEAN

VARIABLES
    conn,     \* the client's connection: "none", "up", "lost", "closed" by the client
    loop,     \* the task of _frame_loop: "none", "reading", "ended", or "broken" by a
              \* ProtocolError
    lastId,   \* self._ctrl_id
    futs,     \* self._ctrl_futs: the request whose future an id names, None if popped
    asking,   \* where each request is
    idOf,     \* rid of each request, 0 before it has one
    got,      \* what each request returned
    up,       \* CTRL frames under way to the server
    serving,  \* the request whose answer the server awaits list_devices for
    down,     \* CTRL frames under way to the client
    device,   \* each device: unplugged, private, or shared (bound to usbip)
    shared    \* history: what was shared at some time since a request was made

frameVars   == <<up, serving, down>>
requestVars == <<lastId, futs, asking, idOf, got>>
ctrlVars == <<conn, loop, requestVars, frameVars, device, shared>>

\* Requests are numbered in the order they are made; ids count up, so that they are as many.
Requests == 1 .. MaxRequests
Ids == 1 .. MaxRequests
Asked == [id : Ids, of : Requests]
Answers == [id : Ids, of : Requests, devices : SUBSET Devices]
NoAnswer == [id |-> 0, of |-> None, devices |-> {}]
NotServing == [id |-> 0, of |-> None, local |-> {}, at |-> "idle"]

Shared == {d \in Devices : device[d] = "shared"}

ControlInit ==
    /\ lastId = 0
    /\ futs = [i \in Ids |-> None]
    /\ asking = [r \in Requests |-> "new"]
    /\ idOf = [r \in Requests |-> 0]
    /\ got = [r \in Requests |-> NoAnswer]
    /\ up = <<>> /\ serving = NotServing /\ down = <<>>
    /\ device \in [Devices -> {"private", "shared"}]
    /\ shared = [r \in Requests |-> {}]

-----------------------------------------------------------------------------
(* The client: ctrl_request and _ctrl_reply.                                *)

\* Mutation: ids are given again when their requests are over.
FirstFreeId == IF \E i \in Ids : futs[i] = None
               THEN CHOOSE i \in Ids : futs[i] = None /\ \A j \in 1 .. (i - 1) : futs[j] # None
               ELSE lastId + 1

NextId == lastId + 1

\* ctrl_request up to its wait.  The future is registered before the frame is sent, and
\* outside the try: if the connection is gone, drain raises and nothing pops it.
Ask(r) ==
    /\ asking[r] = "new" /\ \A q \in 1 .. (r - 1) : asking[q] # "new"
    /\ conn # "none"
    /\ lastId' = NextId
    /\ idOf' = [idOf EXCEPT ![r] = NextId]
    /\ futs' = [futs EXCEPT ![NextId] = r]
    /\ shared' = [shared EXCEPT ![r] = Shared]
    /\ \/ /\ conn = "up"
          /\ up' = Append(up, [id |-> NextId, of |-> r])
          /\ asking' = [asking EXCEPT ![r] = "waiting"]
       \/ /\ conn # "up"
          /\ asking' = [asking EXCEPT ![r] = "failed"]
          /\ UNCHANGED up
    /\ UNCHANGED <<got, serving, down, device>>

\* The wait is over: wait_for's timeout, or a cancellation of the task that waits.
GivesUp(r, how) ==
    /\ asking[r] = "waiting"
    /\ asking' = [asking EXCEPT ![r] = how]
    /\ futs' = [futs EXCEPT ![idOf[r]] = None]
    /\ UNCHANGED <<lastId, idOf, got>>

TimesOut(r) ==
    /\ GivesUp(r, "timed out")
    /\ UNCHANGED <<conn, loop, frameVars, device, shared>>

\* The frame loop gives an answer to the future that its id names, if there is one.
Reply ==
    /\ loop = "reading" /\ down # <<>>
    /\ down' = Tail(down)
    /\ LET answer == Head(down)
           r == futs[answer.id]
       IN \/ /\ r = None
             /\ UNCHANGED <<futs, asking, got>>
          \/ /\ r # None
             /\ futs' = [futs EXCEPT ![answer.id] = None]
             /\ asking' = [asking EXCEPT ![r] = "answered"]
             /\ got' = [got EXCEPT ![r] = answer]
    /\ UNCHANGED <<conn, loop, lastId, idOf, up, serving, device, shared>>

-----------------------------------------------------------------------------
(* The server: _handle_ctrl, and list_devices with its two calls of usbip.  *)

\* The frame loop of the session reads a request, and no other frame until it is answered.
ServerTakes ==
    /\ serving = NotServing /\ up # <<>>
    /\ serving' = [id |-> Head(up).id, of |-> Head(up).of, local |-> {}, at |-> "local"]
    /\ up' = Tail(up)
    /\ UNCHANGED <<conn, loop, requestVars, down, device, shared>>

\* `usbip list -l` returns what is plugged in, or fails.
ListsLocal ==
    /\ serving.at = "local"
    /\ \E found \in {{d \in Devices : device[d] # "unplugged"}, {}} :
           serving' = [serving EXCEPT !.local = found, !.at = "exported"]
    /\ UNCHANGED <<conn, loop, requestVars, up, down, device, shared>>

\* Mutation: everything that is plugged in is in the answer, as the operator sees it.
Unfiltered(local, exported) == local

\* What the answer names: of what was plugged in, what is shared.
Filtered(local, exported) == IF ExposeUnexported THEN local ELSE local \cap exported

\* `usbip list -r` returns what is shared now, or fails, or is left out because usbipd is
\* not available; then the answer is sent, if there is still somebody to send it to.
ListsExported ==
    /\ serving.at = "exported"
    /\ \E exported \in {Shared, {}} :
           down' = IF conn = "up"
                   THEN Append(down, [id |-> serving.id, of |-> serving.of,
                                      devices |-> Filtered(serving.local, exported)])
                   ELSE down
    /\ serving' = NotServing
    /\ UNCHANGED <<conn, loop, requestVars, up, device, shared>>

\* The operator plugs and unplugs a device, or binds and unbinds it (the web admin's and
\* the GUI's routes).  A device that comes back is private.
DeviceChanges ==
    /\ \E d \in Devices, now \in {"unplugged", "private", "shared"} :
         /\ <<device[d], now>> \in {<<"unplugged", "private">>, <<"private", "shared">>,
                                    <<"shared", "private">>, <<"private", "unplugged">>,
                                    <<"shared", "unplugged">>}
         /\ device' = [device EXCEPT ![d] = now]
         /\ shared' = [r \in Requests |->
                         IF asking[r] = "waiting" /\ now = "shared"
                         THEN shared[r] \cup {d} ELSE shared[r]]
    /\ UNCHANGED <<conn, loop, requestVars, frameVars>>

ServerNext == ServerTakes \/ ListsLocal \/ ListsExported

-----------------------------------------------------------------------------

ControlTypeOK ==
    /\ conn \in {"none", "up", "lost", "closed"}
    /\ lastId \in 0 .. MaxRequests
    /\ futs \in [Ids -> Requests \cup {None}]
    /\ asking \in [Requests -> {"new", "waiting", "answered", "timed out", "failed"}]
    /\ idOf \in [Requests -> Ids \cup {0}]
    /\ got \in [Requests -> Answers \cup {NoAnswer}]
    /\ up \in Seq(Asked)
    /\ serving \in [id : Ids, of : Requests, local : SUBSET Devices,
                    at : {"local", "exported"}] \cup {NotServing}
    /\ down \in Seq(Answers)
    /\ device \in [Devices -> {"unplugged", "private", "shared"}]
    /\ shared \in [Requests -> SUBSET Devices]

\* A request returns the answer to itself and to no other, however late the answers to
\* earlier ones come (client.py:305-325), and the answer names nothing that was not shared
\* at some time since it asked (server.py:761-769).  Whoever waits can be reached: its id
\* still names its future.
OwnAnswer ==
    \A r \in Requests :
       /\ asking[r] = "answered" =>
            /\ got[r].of = r
            /\ ~ ExposeUnexported => got[r].devices \subseteq shared[r]
       /\ asking[r] = "waiting" => futs[idOf[r]] = r
=============================================================================
