------------------------------- MODULE KernelTap -------------------------------
(***************************************************************************)
(* A TAP device and its two operations, read_frame and write_frame         *)
(* (src/usbferry/tapw.py, KernelTap), called by several tasks of one event *)
(* loop.  A call that finds no frame or no room waits for a future, which  *)
(* the loop's callback on the file descriptor or close() resolves; the     *)
(* task runs again later, and the device may have changed by then.         *)
(*                                                                         *)
(* LanManager says which tasks call, and when.                             *)
(***************************************************************************)
EXTENDS Naturals

CONSTANTS
    Readers, Writers, \* the tasks that read, and those that write one frame each
    MaxQueue          \* bound: frames the kernel holds for the reader

ASSUME KernelTapAssumption ==
    /\ MaxQueue \in Nat
    /\ Readers \cap Writers = {}

VARIABLES
    fd,       \* the descriptor: "none", "open", "shut" (its number may be another's
              \* now), or "leaked" (open, and held by no object)
    closed,   \* _closed
    queue,    \* frames the kernel has ready
    room,     \* the kernel takes a frame without EAGAIN
    callbacks,\* what is registered with the loop: subset of {"read", "write"}
    waiters,  \* _readers and _writers: the tasks whose futures they hold
    call      \* where the call of each task is

tapVars == <<fd, closed, queue, room, callbacks, waiters, call>>

Tasks == Readers \cup Writers

\* "calling": about to run its first step, "woken": its future is done, "returned":
\* read_frame or write_frame is done, "dropped": cancelled before the first step,
\* "badfd": it used a descriptor that is not its own.
Calls == {"idle", "calling", "waiting", "woken", "returned",
          "closed", "failed", "cancelled", "dropped", "badfd"}

Pending == {"calling", "waiting", "woken"}

TapInit ==
    /\ fd = "none" /\ closed = FALSE
    /\ queue = 0 /\ room = TRUE
    /\ callbacks = {} /\ waiters = {}
    /\ call = [t \in Tasks |-> "idle"]

Ends(t, how) ==
    /\ call' = [call EXCEPT ![t] = how]
    /\ UNCHANGED <<fd, closed, room, callbacks, waiters>>

Side(t) == IF t \in Readers THEN "read" ELSE "write"

\* Mutation: the callback of the descriptor is not registered.
WaitsUnregistered(t) ==
    /\ call' = [call EXCEPT ![t] = "waiting"]
    /\ waiters' = waiters \cup {t}
    /\ UNCHANGED <<fd, closed, queue, room, callbacks>>

\* BlockingIOError: _wait.
Waits(t) ==
    /\ call' = [call EXCEPT ![t] = "waiting"]
    /\ waiters' = waiters \cup {t}
    /\ callbacks' = callbacks \cup {Side(t)}
    /\ UNCHANGED <<fd, closed, queue, room>>

\* Mutation: _closed is tested when the call begins and not after the wait.
SeesClosedAtFirst(t) == closed /\ call[t] # "woken"

\* _closed is tested when the call begins and after each wait.
SeesClosed(t) == closed

\* OSError: the interface is gone, or down.
Failure == IF fd = "open" THEN "failed" ELSE "badfd"

\* One run of the call, up to its next wait or its end.
Read(t) ==
    \/ SeesClosed(t) /\ Ends(t, "closed") /\ UNCHANGED queue
    \/ /\ ~ SeesClosed(t) /\ fd = "open"
       /\ \/ queue > 0 /\ queue' = queue - 1 /\ Ends(t, "returned")
          \/ queue = 0 /\ Waits(t)
    \/ ~ SeesClosed(t) /\ Ends(t, Failure) /\ UNCHANGED queue

Write(t) ==
    \/ SeesClosed(t) /\ Ends(t, "closed") /\ UNCHANGED queue
    \/ /\ ~ SeesClosed(t) /\ fd = "open"
       /\ \/ room /\ Ends(t, "returned") /\ UNCHANGED queue
          \/ ~ room /\ Waits(t)
    \/ ~ SeesClosed(t) /\ Ends(t, Failure) /\ UNCHANGED queue

Woken(W) == [t \in Tasks |-> IF t \in W THEN "woken" ELSE call[t]]

\* The loop calls _wake: every future of the list is resolved and taken out of it.  The
\* callback stays registered.
Wake(tasks, ready) ==
    /\ fd = "open" /\ ready
    /\ waiters \cap tasks # {}
    /\ call' = Woken(waiters \cap tasks)
    /\ waiters' = waiters \ tasks
    /\ UNCHANGED <<fd, closed, queue, room, callbacks>>

WakeReaders == "read" \in callbacks /\ Wake(Readers, queue > 0)
WakeWriters == "write" \in callbacks /\ Wake(Writers, room)

Cancelled(t) == IF call[t] = "calling" THEN "dropped" ELSE "cancelled"

\* Mutation: close() wakes the readers only.
CloseWakesReaders(cancels) ==
    /\ closed' = TRUE /\ fd' = "shut" /\ callbacks' = {}
    /\ waiters' = waiters \ (Readers \cup cancels)
    /\ call' = [t \in Tasks |-> IF t \in cancels THEN Cancelled(t)
                                ELSE Woken(waiters \cap Readers)[t]]
    /\ UNCHANGED <<queue, room>>

\* close(), after the caller has cancelled some tasks.  A cancelled future is done:
\* _wake passes it over, and the task gets CancelledError.
Close(cancels) ==
    /\ closed' = TRUE /\ fd' = "shut" /\ callbacks' = {}
    /\ waiters' = {}
    /\ call' = [t \in Tasks |-> IF t \in cancels THEN Cancelled(t) ELSE Woken(waiters)[t]]
    /\ UNCHANGED <<queue, room>>

\* The kernel.
Arrives ==
    /\ fd = "open"
    /\ queue < MaxQueue
    /\ queue' = queue + 1
    /\ UNCHANGED <<fd, closed, room, callbacks, waiters, call>>

RoomChanges ==
    /\ fd = "open"
    /\ room' = ~ room
    /\ UNCHANGED <<fd, closed, queue, callbacks, waiters, call>>

TapTypeOK ==
    /\ fd \in {"none", "open", "shut", "leaked"}
    /\ closed \in BOOLEAN /\ room \in BOOLEAN
    /\ queue \in 0 .. MaxQueue
    /\ callbacks \subseteq {"read", "write"}
    /\ waiters \subseteq Tasks
    /\ call \in [Tasks -> Calls]

\* No call touches the descriptor once close() has given its number back: a task that
\* was woken runs only later, and the number may be another file's by then
\* (tapw.py:77-104, 106-125).
DescriptorOwned == \A t \in Tasks : call[t] # "badfd"
=============================================================================
