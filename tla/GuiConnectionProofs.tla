-------------------------- MODULE GuiConnectionProofs --------------------------
(***************************************************************************)
(* Theorems about GuiConnection, for any number of requests, reconnect      *)
(* loops, clients and profiles, however calls run into each other: what a    *)
(* property excepts, it says itself.                                         *)
(***************************************************************************)
EXTENDS GuiConnection, FiniteSetTheorems, TLAPS

-----------------------------------------------------------------------------
(* The inductive invariant: what every state keeps, what it keeps while no   *)
(* connect or disconnect has met another one, and while no call has.         *)

\* A loop that sleeps, or attempts, knows the profile that it is for.
LoopsKnow ==
    \A u \in Callers : /\ pc[u] = "sleeping" => u \in Loops
                       /\ u \in Loops /\ pc[u] # "idle" => profile[u] # None

\* A call waits for a client while it gathers or dials.
WaitsKnow ==
    \A u \in Callers : waits[u] # None <=> pc[u] \in {"gathering", "dialing"}

\* Only the user's requests run the tool.
ToolsAsked == \A u \in Callers : UsingTool(u) => u \in Requests

Known == LoopsKnow /\ WaitsKnow /\ ToolsAsked

\* One call is between the awaits of a connect or a disconnect at a time, and has left no
\* task while it waits for a client.
OneSwitches ==
    \A u \in Callers : /\ waits[u] # None => task = None
                       /\ \A v \in Callers : Switching(u) /\ Switching(v) => u = v

\* A client's task runs only where the GUI can reach it: as its task, or waited for.
Reached ==
    \A c \in Clients :
        /\ run[c] \notin {"ended", "dialing"} =>
             task = c \/ \E u \in Callers : pc[u] = "gathering" /\ waits[u] = c
        /\ run[c] = "dialing" <=> \E u \in Callers : pc[u] = "dialing" /\ waits[u] = c

\* A client that is up is the GUI's own.
Held == \A c \in Clients : Connected(c) => client = c /\ task = c

\* It is shown as connected, or will be when the wait for it is over.
Shown ==
    \A c \in Clients :
        Connected(c) => status = "connected" \/ \E u \in Callers : pc[u] = "readying"

Core == OneSwitches /\ Reached /\ Held /\ Shown

\* Once a disconnect was asked for, nothing runs that connects, nor will a loop.
Obeyed ==
    asked = "disconnect" =>
        /\ manual \/ target = None
        /\ \A u \in Callers : /\ pc[u] # "dialing"
                              /\ pc[u] \in {"releasing", "gathering"} => job[u] = "disconnect"
        /\ task # None => \E u \in Callers : pc[u] = "releasing"

\* A call that runs the tool is alone with it, and with the connection.
ToolAlone ==
    \A u, v \in Callers : UsingTool(u) /\ (UsingTool(v) \/ Switching(v)) => u = v

\* What is attached was attached through a task that is still to be gathered.
Attached ==
    /\ client # None => task # None \/ \E u \in Callers : pc[u] = "gathering"
    /\ attached => task # None \/ \E u \in Callers : pc[u] = "gathering"
    /\ \A u \in Callers : pc[u] \in {"attaching", "imported"} => task # None

\* What the kernel holds is known, but for what the tool left; when a task is gathered,
\* nothing else is left of it.
Remembered ==
    /\ ports => attached \/ slipped \/ \E u \in Callers : pc[u] = "imported"
    /\ \A u \in Callers : pc[u] = "gathering" /\ ports => slipped

Tools == ToolAlone /\ Attached /\ Remembered

IInv ==
    /\ Known
    /\ overlap # "calls" => Core /\ Obeyed
    /\ overlap = "none" => Tools

\* Loops that sleep have attempts to come, beyond the last one that may begin a sleep.
AttemptsLeft == attempts + Cardinality({l \in Loops : pc[l] = "sleeping"})
                  <= MaxAttempts + Cardinality(Loops)

-----------------------------------------------------------------------------
(* Types.                                                                   *)

\* The types of the calls, of the clients' tasks, and of what the GUI shows.
CallsTyped ==
    /\ pc \in [Callers -> PCs] /\ job \in [Callers -> Jobs]
    /\ profile \in [Callers -> Profiles \cup {None}]
    /\ waits \in [Callers -> Clients \cup {None}]

RunsTyped ==
    /\ run \in [Clients -> Runs] /\ stop \in [Clients -> {"no", "asked", "told"}]
    /\ to \in [Clients -> Profiles \cup {None}]

AppTyped ==
    /\ client \in Clients \cup {None} /\ task \in Clients \cup {None}
    /\ status \in Statuses /\ manual \in BOOLEAN
    /\ target \in Profiles \cup {None}

UsbTyped == attached \in BOOLEAN /\ ports \in BOOLEAN /\ slipped \in BOOLEAN

Typed ==
    /\ CallsTyped /\ RunsTyped /\ AppTyped /\ UsbTyped
    /\ attempts \in Nat /\ asked \in Profiles \cup {"disconnect"} /\ overlap \in Overlaps

\* What calls meet keeps the types.
LEMMA MeetsTyped ==
    ASSUME overlap \in Overlaps, SwitchMeets \/ ToolMeets \/ overlap' = "none"
    PROVE  overlap' \in Overlaps
  BY DEF Overlaps, SwitchMeets, ToolMeets

\* A call that returns keeps the types.
LEMMA ReturnsTyped ==
    ASSUME CallsTyped, NEW u \in Callers, Returns(u)
    PROVE  CallsTyped'
  BY DEF CallsTyped, Returns, PCs, Jobs

\* A task that is over keeps the types.
LEMMA EndedTyped ==
    ASSUME RunsTyped, NEW c, Ended(c)
    PROVE  RunsTyped'
  BY DEF RunsTyped, Ended, Runs

\* So does the end of disconnect, and what connect_profile goes on with.
LEMMA DisconnectedTyped ==
    ASSUME Typed, NEW u \in Callers, NEW what, NEW p \in Profiles \cup {None},
           Disconnected(u, what, p), task' = task
    PROVE  CallsTyped' /\ RunsTyped' /\ AppTyped' /\ attached' \in BOOLEAN
  <1>1. AppTyped' /\ attached' \in BOOLEAN
    BY DEF Typed, Disconnected, AppTyped, Statuses, Cleared
  <1>2. CASE Returns(u) /\ UNCHANGED runVars
    BY <1>1, <1>2, ReturnsTyped DEF Typed, RunsTyped, runVars
  <1>3. CASE ~ (Returns(u) /\ UNCHANGED runVars)
    <2>1. PICK c \in Clients :
            /\ run' = [run EXCEPT ![c] = "dialing"] /\ to' = [to EXCEPT ![c] = p]
            /\ waits' = [waits EXCEPT ![u] = c] /\ stop' = stop
            /\ pc' = [pc EXCEPT ![u] = "dialing"] /\ profile' = [profile EXCEPT ![u] = p]
            /\ job' = [job EXCEPT ![u] = "none"]
      BY <1>3 DEF Disconnected
    <2>2. CallsTyped'
      BY <2>1 DEF Typed, CallsTyped, PCs, Jobs
    <2>3. RunsTyped'
      BY <2>1 DEF Typed, RunsTyped, Runs
    <2> QED BY <1>1, <2>2, <2>3
  <1> QED BY <1>2, <1>3

\* And the taking of the task.
LEMMA TakesTyped ==
    ASSUME Typed, NEW u \in Callers, NEW what \in Jobs, NEW p \in Profiles \cup {None},
           TakesTask(u, what, p)
    PROVE  CallsTyped' /\ RunsTyped' /\ AppTyped'
  <1>1. CallsTyped'
    BY DEF Typed, TakesTask, CallsTyped, AppTyped, PCs
  <1>2. RunsTyped'
    BY DEF Typed, TakesTask, RunsTyped
  <1>3. AppTyped'
    BY DEF Typed, TakesTask, AppTyped
  <1> QED BY <1>1, <1>2, <1>3

\* The first step of disconnect, whoever calls it.
LEMMA BeginsTyped ==
    ASSUME Typed, NEW u \in Callers, NEW what \in Jobs, NEW p \in Profiles \cup {None},
           Begins(u, what, p)
    PROVE  CallsTyped' /\ RunsTyped' /\ AppTyped' /\ UsbTyped'
  <1>1. CASE pc' = [pc EXCEPT ![u] = "releasing"] /\ manual' = TRUE
             /\ job' = [job EXCEPT ![u] = what] /\ profile' = [profile EXCEPT ![u] = p]
             /\ UNCHANGED <<client, task, status, target, waits, runVars, usbVars>>
    BY <1>1 DEF Typed, CallsTyped, RunsTyped, AppTyped, UsbTyped, PCs, runVars, usbVars
  <1>2. CASE TakesTask(u, what, p) /\ UNCHANGED usbVars
    BY <1>2, TakesTyped DEF Typed, UsbTyped, usbVars
  <1>3. CASE UNCHANGED <<task, ports, slipped>> /\ Disconnected(u, what, p)
    BY <1>3, DisconnectedTyped DEF Typed, UsbTyped
  <1> QED BY <1>1, <1>2, <1>3 DEF Begins

\* The end of a client's task, and the leaving of run_connected.
LEMMA RunEndsTyped ==
    ASSUME Typed, NEW c \in Clients, NEW st \in Statuses, RunEnds(c, st),
           ports' \in BOOLEAN, slipped' \in BOOLEAN
    PROVE  CallsTyped' /\ RunsTyped' /\ AppTyped' /\ UsbTyped'
  <1>1. RunsTyped'
    BY EndedTyped DEF Typed, RunEnds
  <1>2. AppTyped' /\ UsbTyped'
    BY DEF Typed, RunEnds, AppTyped, UsbTyped, Statuses
  <1>3. CallsTyped'
    BY DEF Typed, RunEnds, CallsTyped, AppTyped, PCs
  <1> QED BY <1>1, <1>2, <1>3

\* And the leaving of run_connected.
LEMMA RunLeavesTyped ==
    ASSUME Typed, NEW c \in Clients, NEW st \in Statuses, RunLeaves(c, st)
    PROVE  CallsTyped' /\ RunsTyped' /\ AppTyped' /\ UsbTyped'
  <1>1. CASE /\ run' = [run EXCEPT ![c] = "releasing"]
             /\ stop' = [stop EXCEPT ![c] = IF @ = "asked" THEN "told" ELSE @]
             /\ status' = st
             /\ UNCHANGED <<client, task, manual, target, attempts, callVars, to, usbVars, asked, overlap>>
    BY <1>1 DEF Typed, CallsTyped, RunsTyped, AppTyped, UsbTyped, Runs, callVars, usbVars
  <1>2. CASE RunEnds(c, st) /\ UNCHANGED <<ports, slipped>>
    BY <1>2, RunEndsTyped DEF Typed, UsbTyped
  <1> QED BY <1>1, <1>2 DEF RunLeaves

\* The first step of every request, and of a loop's attempt.
LEMMA AskedTyped ==
    ASSUME Typed, NEW u \in Callers,
           \/ \E p \in Profiles : RequestConnect(u, p)
           \/ RequestDisconnect(u) \/ AttachBegins(u) \/ DetachBegins(u)
           \/ u \in Loops /\ LoopWakes(u)
    PROVE  Typed'
  <1>0. SwitchMeets \/ ToolMeets \/ overlap' = "none" => overlap' \in Overlaps
    BY MeetsTyped DEF Typed
  <1>1. ASSUME NEW p \in Profiles, RequestConnect(u, p)
        PROVE  Typed'
    BY <1>0, <1>1, BeginsTyped DEF RequestConnect, Requested, Typed, Jobs
  <1>2. CASE RequestDisconnect(u)
    BY <1>0, <1>2, BeginsTyped DEF RequestDisconnect, Requested, Typed, Jobs
  <1>3. CASE AttachBegins(u)
    BY <1>0, <1>3 DEF AttachBegins, Typed, CallsTyped, RunsTyped, AppTyped, UsbTyped, PCs, appVars,
                runVars, usbVars
  <1>4. CASE DetachBegins(u)
    BY <1>0, <1>4 DEF DetachBegins, Typed, CallsTyped, RunsTyped, AppTyped, UsbTyped, PCs, appVars,
                runVars, usbVars
  <1>5. CASE LoopGivesUp(u)
    BY <1>5 DEF LoopGivesUp, Typed, CallsTyped, RunsTyped, AppTyped, UsbTyped, PCs, appVars,
                runVars, usbVars
  <1>6. CASE LoopAttempts(u)
    <2>1. profile[u] \in Profiles \cup {None} /\ "connect" \in Jobs
      BY DEF Typed, CallsTyped, Jobs
    <2>2. CallsTyped' /\ RunsTyped' /\ AppTyped' /\ UsbTyped'
      BY <1>6, <2>1, BeginsTyped DEF LoopAttempts
    <2> QED BY <1>0, <1>6, <2>2 DEF LoopAttempts, Typed
  <1> QED BY <1>1, <1>2, <1>3, <1>4, <1>5, <1>6 DEF LoopWakes

\* The later steps of the calls.
LEMMA ProceedsTyped ==
    ASSUME Typed, NEW u \in Callers, CallProceeds(u) \/ AttachImports(u)
    PROVE  Typed'
  <1>0. job[u] \in Jobs /\ profile[u] \in Profiles \cup {None} /\ waits[u] \in Clients \cup {None}
    BY DEF Typed, CallsTyped
  <1>1. CASE Released(u)
    <2>1. CASE TakesTask(u, job[u], profile[u])
      BY <1>0, <1>1, <2>1, TakesTyped DEF Released, DetachesOurs, Typed, UsbTyped
    <2>2. CASE UNCHANGED <<client, task, status, manual, target, waits, runVars>>
               /\ pc' = [pc EXCEPT ![u] = "idle"] /\ job' = [job EXCEPT ![u] = "none"]
               /\ profile' = [profile EXCEPT ![u] = None]
      BY <1>1, <2>2 DEF Released, DetachesOurs, Typed, CallsTyped, RunsTyped, AppTyped,
                        UsbTyped, PCs, Jobs, runVars
    <2> QED BY <1>1, <2>1, <2>2 DEF Released
  <1>2. CASE Gathered(u)
    BY <1>0, <1>2, DisconnectedTyped DEF Gathered, Typed, UsbTyped
  <1>3. CASE DialFails(u)
    <2>1. status' \in Statuses
      BY <1>3 DEF DialFails, Statuses
    <2>2. CallsTyped' /\ RunsTyped'
      BY <1>3, ReturnsTyped, EndedTyped DEF DialFails, Typed
    <2> QED BY <1>3, <2>1, <2>2 DEF DialFails, Typed, AppTyped, UsbTyped, usbVars
  <1>4. CASE DialDone(u)
    <2>1. CallsTyped'
      BY <1>4 DEF DialDone, Typed, CallsTyped, PCs
    <2>2. RunsTyped'
      BY <1>4 DEF DialDone, Typed, RunsTyped, Runs
    <2>3. AppTyped' /\ UsbTyped'
      BY <1>0, <1>4 DEF DialDone, Typed, AppTyped, UsbTyped, usbVars
    <2> QED BY <1>4, <2>1, <2>2, <2>3 DEF DialDone, Typed
  <1>5. CASE ReadyWaitEnds(u)
    <2>1. CallsTyped'
      BY <1>5, ReturnsTyped DEF ReadyWaitEnds, Typed
    <2> QED BY <1>5, <2>1 DEF ReadyWaitEnds, Typed, RunsTyped, AppTyped, UsbTyped, runVars,
                              usbVars, Statuses
  <1>6. CASE AttachEnds(u) \/ DetachEnds(u) \/ AttachImports(u)
    <2>1. CallsTyped'
      BY <1>6 DEF AttachEnds, DetachEnds, AttachImports, Typed, CallsTyped, PCs
    <2>2. RunsTyped' /\ AppTyped' /\ UNCHANGED <<attempts, asked, overlap>>
      BY <1>6 DEF AttachEnds, DetachEnds, AttachImports, Typed, RunsTyped, AppTyped, runVars,
                  appVars
    <2>3. UsbTyped'
      BY <1>6 DEF AttachEnds, DetachEnds, DetachesOurs, AttachImports, Typed, UsbTyped
    <2> QED BY <2>1, <2>2, <2>3 DEF Typed, UsbTyped
  <1> QED BY <1>1, <1>2, <1>3, <1>4, <1>5, <1>6 DEF CallProceeds

\* The steps of the clients' tasks.
LEMMA RunsStepTyped ==
    ASSUME Typed, NEW c \in Clients, RunProceeds(c) \/ RunLost(c)
    PROVE  Typed'
  <1>0. status \in Statuses /\ AfterError \in Statuses
    BY DEF Typed, AppTyped, AfterError, Statuses
  <1>1. CASE RunReady(c) \/ RunLost(c)
    <2>1. RunsTyped'
      BY <1>1 DEF RunReady, RunLost, Typed, RunsTyped, Runs
    <2>2. CallsTyped' /\ AppTyped' /\ UsbTyped' /\ UNCHANGED <<attempts, asked, overlap>>
      BY <1>1 DEF RunReady, RunLost, Typed, CallsTyped, AppTyped, UsbTyped, appVars, callVars,
                  usbVars
    <2> QED BY <2>1, <2>2 DEF Typed
  <1>2. ASSUME NEW st \in Statuses, RunLeaves(c, st)
        PROVE  Typed'
    BY <1>2, RunLeavesTyped DEF RunLeaves, RunEnds, Typed
  <1>3. CASE RunDropped(c)
    BY <1>3, EndedTyped DEF RunDropped, Typed, CallsTyped, AppTyped, UsbTyped, appVars, callVars,
                            usbVars
  <1>4. CASE RunReleased(c)
    <2>1. CallsTyped' /\ RunsTyped' /\ AppTyped' /\ UsbTyped'
      BY <1>0, <1>4, RunEndsTyped DEF RunReleased, DetachesOurs, Typed, UsbTyped
    <2> QED BY <1>4, <2>1 DEF RunReleased, RunEnds, Typed
  <1>5. CASE RunReleaseCancelled(c)
    BY <1>5, EndedTyped DEF RunReleaseCancelled, Typed, CallsTyped, AppTyped, UsbTyped, appVars,
                            callVars
  <1> QED BY <1>0, <1>1, <1>2, <1>3, <1>4, <1>5
          DEF RunProceeds, RunFails, RunCleaned, RunCancelled

\* Every step keeps the types.
LEMMA TypedStep ==
    ASSUME Typed, [Next]_vars
    PROVE  Typed'
  <1>1. CASE Next
    BY <1>1, AskedTyped, ProceedsTyped, RunsStepTyped DEF Next, UserAsks, Callers
  <1>2. CASE UNCHANGED vars
    BY <1>2 DEF vars, appVars, callVars, runVars, usbVars, Typed, CallsTyped, RunsTyped,
                AppTyped, UsbTyped
  <1> QED BY <1>1, <1>2

\* Nobody begins to sleep.
NoneSleeps == \A l \in Loops : pc'[l] = "sleeping" => pc[l] = "sleeping"

\* A call that returns sleeps only if attempts are left.
LEMMA ReturnsSleeps ==
    ASSUME Typed, NEW u \in Callers, Returns(u)
    PROVE  NoneSleeps \/ attempts' < MaxAttempts
  BY DEF Returns, GoesOn, NoneSleeps, Typed, CallsTyped, Callers

\* So does the end of disconnect, and what connect_profile goes on with.
LEMMA DisconnectedSleeps ==
    ASSUME Typed, NEW u \in Callers, NEW what, NEW p, Disconnected(u, what, p)
    PROVE  NoneSleeps \/ attempts' < MaxAttempts
  <1>1. CASE Returns(u)
    BY <1>1, ReturnsSleeps
  <1>2. CASE pc' = [pc EXCEPT ![u] = "dialing"]
    BY <1>2 DEF NoneSleeps, Typed, CallsTyped, Callers
  <1> QED BY <1>1, <1>2 DEF Disconnected

\* A task that ends begins a loop only if attempts are left.
LEMMA RunEndsSleeps ==
    ASSUME Typed, NEW c, NEW st, RunEnds(c, st)
    PROVE  attempts' = attempts /\ (NoneSleeps \/ attempts' < MaxAttempts)
  BY DEF RunEnds, NoneSleeps

\* The first step of disconnect begins no sleep but such a one.
LEMMA BeginsSleeps ==
    ASSUME Typed, NEW u \in Callers, NEW what, NEW p, Begins(u, what, p)
    PROVE  NoneSleeps \/ attempts' < MaxAttempts
  <1>1. CASE pc' = [pc EXCEPT ![u] = "releasing"] \/ pc' = [pc EXCEPT ![u] = "gathering"]
    BY <1>1 DEF NoneSleeps, Typed, CallsTyped, Callers
  <1>2. CASE Disconnected(u, what, p)
    BY <1>2, DisconnectedSleeps
  <1> QED BY <1>1, <1>2 DEF Begins, TakesTask

\* The count of attempts, and who sleeps, over a step: a loop that attempts wakes, and
\* begins to sleep again only if attempts are left.
LEMMA SleepSteps ==
    ASSUME Typed, [Next]_vars
    PROVE  \/ attempts' <= MaxAttempts
           \/ attempts' = attempts /\ NoneSleeps
           \/ /\ attempts' = attempts + 1 /\ NoneSleeps
              /\ \E l \in Loops : pc[l] = "sleeping" /\ pc'[l] # "sleeping"
  <1> DEFINE Steps ==
               \/ attempts' <= MaxAttempts
               \/ attempts' = attempts /\ NoneSleeps
               \/ /\ attempts' = attempts + 1 /\ NoneSleeps
                  /\ \E l \in Loops : pc[l] = "sleeping" /\ pc'[l] # "sleeping"
  <1>0. attempts' \in Nat /\ MaxAttempts \in Nat /\ Loops \subseteq Callers
    BY TypedStep, GuiAssumption DEF Typed, GuiAssumption, Callers
  <1>1. ASSUME NEW u \in Callers, NEW what, NEW p, Begins(u, what, p), attempts' = attempts
        PROVE  Steps
    BY <1>0, <1>1, BeginsSleeps
  <1>2. ASSUME NEW u \in Callers, Released(u) \/ Gathered(u) \/ DialFails(u) \/ ReadyWaitEnds(u)
        PROVE  Steps
    <2>1. attempts' = attempts
      BY <1>2 DEF Released, Gathered, DialFails, ReadyWaitEnds
    <2>2. CASE Released(u)
      <3>1. pc' = [pc EXCEPT ![u] = "gathering"] \/ pc' = [pc EXCEPT ![u] = "idle"]
        BY <2>2 DEF Released, TakesTask
      <3> QED BY <2>1, <3>1 DEF NoneSleeps, Typed, CallsTyped, Callers
    <2>3. CASE ~ Released(u)
      BY <1>0, <1>2, <2>1, <2>3, DisconnectedSleeps, ReturnsSleeps
         DEF Gathered, DialFails, ReadyWaitEnds
    <2> QED BY <2>2, <2>3
  <1>3. ASSUME NEW u \in Callers, DialDone(u)
        PROVE  Steps
    BY <1>0, <1>3 DEF DialDone
  <1>4. ASSUME NEW u \in Callers,
               \/ AttachEnds(u) \/ DetachEnds(u) \/ AttachImports(u) \/ AttachBegins(u)
               \/ DetachBegins(u) \/ LoopGivesUp(u)
        PROVE  Steps
    BY <1>4 DEF AttachEnds, DetachEnds, AttachImports, AttachBegins, DetachBegins, LoopGivesUp,
                NoneSleeps, Typed, CallsTyped, appVars, Callers
  <1>5. ASSUME NEW l \in Loops, LoopAttempts(l)
        PROVE  Steps
    <2>1. pc[l] = "sleeping" /\ attempts' = attempts + 1
      BY <1>5 DEF LoopAttempts
    <2>2. CASE ~ (attempts' < MaxAttempts)
      <3>1. pc' = [pc EXCEPT ![l] = "releasing"] \/ pc' = [pc EXCEPT ![l] = "gathering"]
              \/ pc' = [pc EXCEPT ![l] = "dialing"] \/ pc' = [pc EXCEPT ![l] = "idle"]
        BY <1>5, <2>2 DEF LoopAttempts, Begins, TakesTask, Disconnected, Returns, GoesOn
      <3> QED BY <1>0, <2>1, <3>1 DEF NoneSleeps, Typed, CallsTyped
    <2>3. CASE attempts' < MaxAttempts
      BY <1>0, <2>3
    <2> QED BY <2>2, <2>3
  <1>6. ASSUME NEW c \in Clients, RunProceeds(c) \/ RunLost(c)
        PROVE  Steps
    <2>1. ASSUME NEW st, RunEnds(c, st)
          PROVE  Steps
      BY <1>0, <2>1, RunEndsSleeps
    <2>2. ASSUME UNCHANGED <<attempts, pc>>
          PROVE  Steps
      BY <2>2 DEF NoneSleeps
    <2> QED BY <1>6, <2>1, <2>2
            DEF RunProceeds, RunLost, RunReady, RunFails, RunCleaned, RunCancelled, RunDropped,
                RunReleased, RunReleaseCancelled, RunLeaves, appVars, callVars
  <1>7. CASE UNCHANGED vars
    BY <1>7 DEF vars, appVars, callVars, NoneSleeps
  <1>8. ASSUME NEW u \in Requests, UserAsks(u)
        PROVE  Steps
    <2>1. u \in Callers
      BY DEF Callers
    <2> QED BY <1>1, <1>4, <1>8, <2>1 DEF UserAsks, RequestConnect, RequestDisconnect, Requested
  <1> QED BY <1>2, <1>3, <1>4, <1>5, <1>6, <1>7, <1>8, <1>0
          DEF Next, CallProceeds, LoopWakes, Callers

\* So the attempts still to come stay bounded.
LEMMA AttemptsStep ==
    ASSUME Typed, AttemptsLeft, [Next]_vars
    PROVE  AttemptsLeft'
  <1> DEFINE S == {l \in Loops : pc[l] = "sleeping"}
             T == {l \in Loops : pc'[l] = "sleeping"}
  <1>1. /\ IsFiniteSet(Loops) /\ S \subseteq Loops /\ T \subseteq Loops
        /\ MaxAttempts \in Nat /\ attempts \in Nat /\ attempts' \in Nat
    BY TypedStep, GuiAssumption DEF Typed, GuiAssumption
  <1>2. /\ IsFiniteSet(S) /\ IsFiniteSet(T)
        /\ Cardinality(S) \in Nat /\ Cardinality(T) \in Nat /\ Cardinality(Loops) \in Nat
        /\ Cardinality(T) <= Cardinality(Loops)
    BY <1>1, FS_Subset, FS_CardinalityType
  <1>3. CASE attempts' <= MaxAttempts
    BY <1>1, <1>2, <1>3 DEF AttemptsLeft
  <1>4. CASE attempts' = attempts /\ NoneSleeps
    <2>1. T \subseteq S
      BY <1>4 DEF NoneSleeps
    <2>2. Cardinality(T) <= Cardinality(S)
      BY <1>2, <2>1, FS_Subset
    <2> QED BY <1>1, <1>2, <1>4, <2>2 DEF AttemptsLeft
  <1>5. CASE attempts' = attempts + 1 /\ NoneSleeps
             /\ \E l \in Loops : pc[l] = "sleeping" /\ pc'[l] # "sleeping"
    <2>1. PICK l \in Loops : pc[l] = "sleeping" /\ pc'[l] # "sleeping"
      BY <1>5
    <2>2. l \in S /\ T \subseteq S \ {l}
      BY <1>5, <2>1 DEF NoneSleeps
    <2>3. IsFiniteSet(S \ {l}) /\ Cardinality(S \ {l}) = Cardinality(S) - 1
      BY <1>2, <2>2, FS_RemoveElement
    <2>4. Cardinality(T) <= Cardinality(S \ {l})
      BY <2>2, <2>3, FS_Subset
    <2> QED BY <1>1, <1>2, <1>5, <2>3, <2>4 DEF AttemptsLeft
  <1> QED BY <1>3, <1>4, <1>5, SleepSteps

\* Every reachable state is well typed, however calls run into each other; in particular the
\* attempts of the reconnect loops are bounded: each of them has at most one to make beyond
\* the limit, the one that was under way when another one reached it.
THEOREM TypeCorrect == Spec => []TypeOK
  <1>1. Init => Typed /\ AttemptsLeft
    <2> SUFFICES ASSUME Init
                 PROVE  Typed /\ AttemptsLeft
      OBVIOUS
    <2>1. CallsTyped
      BY DEF Init, CallsTyped, PCs, Jobs
    <2>2. RunsTyped
      BY DEF Init, RunsTyped, Runs
    <2>3. AppTyped /\ UsbTyped /\ attempts \in Nat
      BY DEF Init, AppTyped, UsbTyped, Statuses
    <2>4. AttemptsLeft
      <3>1. {l \in Loops : pc[l] = "sleeping"} = {}
        BY DEF Init, Callers
      <3>2. Cardinality({l \in Loops : pc[l] = "sleeping"}) = 0
        BY <3>1, FS_EmptySet
      <3>3. attempts = 0 /\ MaxAttempts \in Nat /\ Cardinality(Loops) \in Nat
        BY FS_CardinalityType, GuiAssumption DEF Init, GuiAssumption
      <3> QED BY <3>2, <3>3 DEF AttemptsLeft
    <2> QED BY <2>1, <2>2, <2>3, <2>4 DEF Init, Typed, Overlaps
  <1>2. Typed /\ AttemptsLeft /\ [Next]_vars => Typed' /\ AttemptsLeft'
    BY TypedStep, AttemptsStep
  <1>3. Typed /\ AttemptsLeft => TypeOK
    <2>1. /\ Cardinality({l \in Loops : pc[l] = "sleeping"}) \in Nat
          /\ Cardinality(Loops) \in Nat /\ MaxAttempts \in Nat
      BY FS_Subset, FS_CardinalityType, GuiAssumption DEF GuiAssumption
    <2> QED BY <2>1 DEF Typed, AttemptsLeft, CallsTyped, RunsTyped, AppTyped, UsbTyped, TypeOK
  <1> QED BY <1>1, <1>2, <1>3, PTL DEF Spec

-----------------------------------------------------------------------------
(* What every state keeps.                                                  *)

\* A step that touches one call, or no call, keeps what is known of all of them.
LEMMA OneKnown ==
    ASSUME Known, NEW u \in Callers,
           \A v \in Callers : v # u => /\ pc'[v] = pc[v] /\ profile'[v] = profile[v]
                                       /\ waits'[v] = waits[v],
           pc'[u] = "sleeping" => u \in Loops,
           u \in Loops /\ pc'[u] # "idle" => profile'[u] # None,
           waits'[u] # None <=> pc'[u] \in {"gathering", "dialing"},
           pc'[u] \in {"attaching", "imported", "detaching"} => u \in Requests
    PROVE  Known'
  <1>1. LoopsKnow'
    BY DEF Known, LoopsKnow
  <1>2. WaitsKnow'
    BY DEF Known, WaitsKnow
  <1>3. ToolsAsked'
    BY DEF Known, ToolsAsked, UsingTool
  <1> QED BY <1>1, <1>2, <1>3 DEF Known

\* A call that returns: it is idle, or a loop that sleeps again, and waits for nothing.
LEMMA ReturnsEffect ==
    ASSUME Typed, NEW u \in Callers, Returns(u)
    PROVE  /\ \A v \in Callers : v # u => /\ pc'[v] = pc[v] /\ profile'[v] = profile[v]
                                          /\ waits'[v] = waits[v] /\ job'[v] = job[v]
           /\ waits'[u] = None
           /\ \/ pc'[u] = "idle"
              \/ /\ pc'[u] = "sleeping" /\ u \in Loops
                 /\ profile'[u] = profile[u] /\ ~ manual' /\ target' = profile[u]
  BY DEF Returns, GoesOn, Typed, CallsTyped

\* The end of disconnect touches no other call.
LEMMA DisconnectedAlone ==
    ASSUME Typed, NEW u \in Callers, NEW what, NEW p, Disconnected(u, what, p)
    PROVE  /\ client' = None /\ attached' = FALSE
           /\ \A v \in Callers : v # u => /\ pc'[v] = pc[v] /\ profile'[v] = profile[v]
                                          /\ waits'[v] = waits[v] /\ job'[v] = job[v]
  <1>1. client' = None /\ attached' = FALSE
    BY DEF Disconnected
  <1>2. CASE Returns(u)
    BY <1>1, <1>2, ReturnsEffect
  <1>3. CASE /\ pc' = [pc EXCEPT ![u] = "dialing"] /\ profile' = [profile EXCEPT ![u] = p]
             /\ job' = [job EXCEPT ![u] = "none"]
             /\ \E c \in Clients : waits' = [waits EXCEPT ![u] = c]
    BY <1>1, <1>3 DEF Typed, CallsTyped
  <1> QED BY <1>2, <1>3 DEF Disconnected

\* A call goes on to dial, with a client that nobody uses.
DialsFor(u, p) ==
    /\ pc'[u] = "dialing" /\ profile'[u] = p
    /\ \E c \in Clients : /\ waits'[u] = c /\ run[c] = "ended"
                          /\ run' = [run EXCEPT ![c] = "dialing"] /\ stop' = stop

\* The end of disconnect: the call returns, or goes on to dial.
LEMMA DisconnectedEither ==
    ASSUME Typed, NEW u \in Callers, NEW what, NEW p, Disconnected(u, what, p)
    PROVE  \/ /\ Returns(u) /\ UNCHANGED <<runVars, target>>
              /\ what = "disconnect" => manual' = TRUE
           \/ what = "connect" /\ DialsFor(u, p)
  <1>1. CASE Returns(u) /\ UNCHANGED <<runVars, target>> /\ (what = "disconnect" => manual' = TRUE)
    BY <1>1
  <1>2. CASE /\ what = "connect"
             /\ pc' = [pc EXCEPT ![u] = "dialing"] /\ profile' = [profile EXCEPT ![u] = p]
             /\ \E c \in Clients : /\ run[c] = "ended"
                                   /\ run' = [run EXCEPT ![c] = "dialing"] /\ stop' = stop
                                   /\ waits' = [waits EXCEPT ![u] = c]
    <2>1. DialsFor(u, p)
      BY <1>2 DEF DialsFor, Typed, CallsTyped
    <2> QED BY <1>2, <2>1
  <1> QED BY <1>1, <1>2 DEF Disconnected

\* The taking of a task.
LEMMA TakesEffect ==
    ASSUME Typed, NEW u \in Callers, NEW what, NEW p, TakesTask(u, what, p)
    PROVE  /\ task # None /\ task \in Clients /\ task' = None /\ manual' = TRUE
           /\ pc'[u] = "gathering" /\ job'[u] = what /\ profile'[u] = p /\ waits'[u] = task
           /\ \A v \in Callers : v # u => /\ pc'[v] = pc[v] /\ profile'[v] = profile[v]
                                          /\ waits'[v] = waits[v] /\ job'[v] = job[v]
           /\ UNCHANGED <<client, status, target, run>>
  BY DEF TakesTask, Typed, AppTyped, CallsTyped

\* The first step of disconnect.
LEMMA BeginsKnown ==
    ASSUME Typed, Known, NEW u \in Callers, NEW what, NEW p, Begins(u, what, p),
           pc[u] \in {"idle", "sleeping"}, u \in Loops => pc[u] # "idle" /\ p # None
    PROVE  Known'
  <1> USE GuiAssumption DEF GuiAssumption
  <1>0. waits[u] = None /\ (u \in Loops => profile[u] # None)
    BY DEF Known, WaitsKnow, LoopsKnow
  <1>1. CASE /\ pc' = [pc EXCEPT ![u] = "releasing"] /\ profile' = [profile EXCEPT ![u] = p]
             /\ waits' = waits
    <2>1. /\ pc'[u] = "releasing" /\ profile'[u] = p /\ waits'[u] = None
          /\ \A v \in Callers : v # u => /\ pc'[v] = pc[v] /\ profile'[v] = profile[v]
                                         /\ waits'[v] = waits[v]
      BY <1>0, <1>1 DEF Typed, CallsTyped
    <2> QED BY <2>1, OneKnown
  <1>2. CASE TakesTask(u, what, p)
    <2>1. pc'[u] = "gathering" /\ profile'[u] = p /\ waits'[u] # None
      BY <1>2, TakesEffect
    <2> QED BY <1>2, <2>1, TakesEffect, OneKnown
  <1>3. CASE Disconnected(u, what, p)
    <2>1. CASE Returns(u)
      <3>1. /\ waits'[u] = None
            /\ \/ pc'[u] = "idle"
               \/ pc'[u] = "sleeping" /\ u \in Loops /\ profile'[u] # None
        BY <1>0, <2>1, ReturnsEffect
      <3>2. \A v \in Callers : v # u => /\ pc'[v] = pc[v] /\ profile'[v] = profile[v]
                                        /\ waits'[v] = waits[v]
        BY <2>1, ReturnsEffect
      <3> QED BY <3>1, <3>2, OneKnown
    <2>2. CASE DialsFor(u, p)
      <3>1. pc'[u] = "dialing" /\ profile'[u] = p /\ waits'[u] # None
        BY <2>2 DEF DialsFor
      <3> QED BY <1>3, <3>1, DisconnectedAlone, OneKnown
    <2> QED BY <1>3, <2>1, <2>2, DisconnectedEither
  <1> QED BY <1>1, <1>2, <1>3 DEF Begins, TakesTask

\* Every step.
LEMMA KnownStep ==
    ASSUME Typed, Known, [Next]_vars
    PROVE  Known'
  <1> USE GuiAssumption DEF GuiAssumption
  <1>1. ASSUME NEW u \in Callers, Released(u)
        PROVE  Known'
    <2>0. pc[u] = "releasing" /\ waits[u] = None /\ (u \in Loops => profile[u] # None)
      BY <1>1 DEF Released, Known, WaitsKnow, LoopsKnow
    <2>1. CASE TakesTask(u, job[u], profile[u])
      BY <2>0, <2>1, TakesEffect, OneKnown
    <2>2. CASE /\ pc' = [pc EXCEPT ![u] = "idle"] /\ profile' = [profile EXCEPT ![u] = None]
               /\ waits' = waits
      <3>1. /\ pc'[u] = "idle" /\ waits'[u] = None
            /\ \A v \in Callers : v # u => /\ pc'[v] = pc[v] /\ profile'[v] = profile[v]
                                           /\ waits'[v] = waits[v]
        BY <2>0, <2>2 DEF Typed, CallsTyped
      <3> QED BY <3>1, OneKnown
    <2> QED BY <1>1, <2>1, <2>2 DEF Released
  <1>2. ASSUME NEW u \in Callers, Gathered(u) \/ DialFails(u) \/ ReadyWaitEnds(u)
        PROVE  Known'
    <2>0. u \in Loops => profile[u] # None
      BY <1>2 DEF Gathered, DialFails, ReadyWaitEnds, Known, LoopsKnow
    <2>1. CASE Returns(u)
      <3>1. /\ waits'[u] = None
            /\ \/ pc'[u] = "idle"
               \/ pc'[u] = "sleeping" /\ u \in Loops /\ profile'[u] # None
        BY <2>0, <2>1, ReturnsEffect
      <3> QED BY <2>1, <3>1, ReturnsEffect, OneKnown
    <2>2. CASE Disconnected(u, job[u], profile[u]) /\ DialsFor(u, profile[u])
      <3>1. pc'[u] = "dialing" /\ profile'[u] = profile[u] /\ waits'[u] # None
        BY <2>2 DEF DialsFor
      <3> QED BY <2>0, <2>2, <3>1, DisconnectedAlone, OneKnown
    <2> QED BY <1>2, <2>1, <2>2, DisconnectedEither DEF Gathered, DialFails, ReadyWaitEnds
  <1>3. ASSUME NEW u \in Callers, DialDone(u)
        PROVE  Known'
    <2>1. /\ pc'[u] = "readying" /\ waits'[u] = None /\ profile'[u] = profile[u]
          /\ \A v \in Callers : v # u => /\ pc'[v] = pc[v] /\ profile'[v] = profile[v]
                                         /\ waits'[v] = waits[v]
      BY <1>3 DEF DialDone, Typed, CallsTyped
    <2>2. u \in Loops => profile[u] # None
      BY <1>3 DEF DialDone, Known, LoopsKnow
    <2> QED BY <2>1, <2>2, OneKnown
  <1>4. ASSUME NEW u \in Callers,
               \/ AttachImports(u) \/ AttachEnds(u) \/ DetachEnds(u)
               \/ u \in Requests /\ (AttachBegins(u) \/ DetachBegins(u))
               \/ u \in Loops /\ LoopGivesUp(u)
        PROVE  Known'
    <2>1. /\ pc[u] \notin {"gathering", "dialing"} /\ waits' = waits
          /\ \A v \in Callers : v # u => pc'[v] = pc[v] /\ profile'[v] = profile[v]
          /\ pc'[u] \in {"idle", "attaching", "imported", "detaching"}
          /\ u \in Requests \/ UsingTool(u) \/ pc'[u] = "idle"
      BY <1>4 DEF AttachBegins, AttachImports, AttachEnds, DetachBegins, DetachEnds, LoopGivesUp,
                  UsingTool, Typed, CallsTyped
    <2>2. waits[u] = None /\ (UsingTool(u) => u \in Requests)
      BY <2>1 DEF Known, WaitsKnow, ToolsAsked
    <2> QED BY <2>1, <2>2, OneKnown
  <1>5. ASSUME NEW u \in Requests, UserAsks(u)
        PROVE  Known'
    <2>1. u \in Callers /\ u \notin Loops
      BY DEF Callers
    <2> QED BY <1>4, <1>5, <2>1, BeginsKnown
            DEF UserAsks, RequestConnect, RequestDisconnect, Requested
  <1>6. ASSUME NEW l \in Loops, LoopWakes(l)
        PROVE  Known'
    <2>1. CASE LoopAttempts(l)
      <3>1. l \in Callers /\ pc[l] = "sleeping" /\ profile[l] # None
        BY <2>1 DEF LoopAttempts, Callers, Known, LoopsKnow
      <3> QED BY <2>1, <3>1, BeginsKnown DEF LoopAttempts
    <2> QED BY <1>4, <1>6, <2>1 DEF LoopWakes, Callers
  <1>7. ASSUME NEW c \in Clients, RunProceeds(c) \/ RunLost(c)
        PROVE  Known'
    <2>1. ASSUME NEW st, RunEnds(c, st)
          PROVE  Known'
      <3>1. waits' = waits
            /\ \A v \in Callers :
                 \/ pc'[v] = pc[v] /\ profile'[v] = profile[v]
                 \/ /\ pc[v] = "idle" /\ pc'[v] = "sleeping"
                    /\ v \in Loops /\ profile'[v] # None
        BY <2>1 DEF RunEnds, Typed, CallsTyped, Callers
      <3> QED BY <3>1 DEF Known, LoopsKnow, WaitsKnow, ToolsAsked, UsingTool
    <2>2. ASSUME UNCHANGED callVars
          PROVE  Known'
      BY <2>2 DEF callVars, Known, LoopsKnow, WaitsKnow, ToolsAsked, UsingTool
    <2> QED BY <1>7, <2>1, <2>2
            DEF RunProceeds, RunLost, RunReady, RunFails, RunCleaned, RunCancelled, RunDropped,
                RunReleased, RunReleaseCancelled, RunLeaves
  <1>8. CASE UNCHANGED vars
    BY <1>8 DEF vars, callVars, Known, LoopsKnow, WaitsKnow, ToolsAsked, UsingTool
  <1> QED BY <1>1, <1>2, <1>3, <1>4, <1>5, <1>6, <1>7, <1>8
          DEF Next, CallProceeds, Callers

-----------------------------------------------------------------------------
(* The steps of the clients' tasks, while no connect or disconnect has met   *)
(* another one.                                                             *)

\* Nothing else is up while a client's task goes on.
LEMMA OneAlive ==
    ASSUME Known, Core, NEW c \in Clients, run[c] \notin {"ended", "dialing"}
    PROVE  \A d \in Clients : d # c => ~ Connected(d)
  BY GuiAssumption DEF GuiAssumption, Core, OneSwitches, Reached, Held

\* The end of a task.
LEMMA RunEndsKeeps ==
    ASSUME Typed, Known, Core, Obeyed, NEW c \in Clients, NEW st,
           run[c] \notin {"ended", "dialing"}, RunEnds(c, st)
    PROVE  Core' /\ Obeyed'
  <1>1. /\ \A v \in Callers : \/ pc'[v] = pc[v]
                              \/ pc[v] = "idle" /\ pc'[v] = "sleeping"
        /\ UNCHANGED <<job, waits, task, manual, target, asked>>
    BY DEF RunEnds, Typed, CallsTyped, Callers
  <1>2. /\ run'[c] = "ended"
        /\ \A d \in Clients : d # c => run'[d] = run[d] /\ stop'[d] = stop[d]
    BY DEF RunEnds, Ended, Typed, RunsTyped
  <1>3. \A d \in Clients : ~ Connected(d)'
    BY <1>2, OneAlive DEF Connected
  <1>4. OneSwitches'
    BY <1>1 DEF Core, OneSwitches, Switching
  <1>5. Reached'
    BY <1>1, <1>2 DEF Core, Reached
  <1>6. Held' /\ Shown'
    BY <1>3 DEF Held, Shown
  <1>7. Obeyed'
    BY <1>1 DEF Obeyed
  <1> QED BY <1>4, <1>5, <1>6, <1>7 DEF Core

\* A step of a task inside of run_connected or of its finally, or its end there: calls, and
\* what they wait for, stay as they are, and nothing comes up that was not.
LEMMA RunInside ==
    ASSUME Typed, Core, Obeyed, NEW c \in Clients, run[c] \notin {"ended", "dialing"},
           \A d \in Clients : d # c => run'[d] = run[d] /\ stop'[d] = stop[d],
           run'[c] # "dialing",
           \A d \in Clients : Connected(d)' => Connected(d) /\ status' = status,
           UNCHANGED <<client, task, manual, target, callVars, asked>>
    PROVE  Core' /\ Obeyed'
  <1>1. OneSwitches' /\ Obeyed'
    BY DEF callVars, Core, OneSwitches, Switching, Obeyed
  <1>2. Reached'
    BY DEF callVars, Core, Reached
  <1>3. Held' /\ Shown'
    BY DEF callVars, Core, Held, Shown
  <1> QED BY <1>1, <1>2, <1>3 DEF Core

\* run_connected is left.
LEMMA RunLeavesKeeps ==
    ASSUME Typed, Known, Core, Obeyed, NEW c \in Clients, NEW st,
           run[c] \notin {"ended", "dialing"}, RunLeaves(c, st)
    PROVE  Core' /\ Obeyed'
  <1>1. CASE /\ run' = [run EXCEPT ![c] = "releasing"]
             /\ stop' = [stop EXCEPT ![c] = IF @ = "asked" THEN "told" ELSE @]
             /\ UNCHANGED <<client, task, manual, target, callVars, asked>>
    <2>1. /\ run'[c] = "releasing"
          /\ \A d \in Clients : d # c => run'[d] = run[d] /\ stop'[d] = stop[d]
      BY <1>1 DEF Typed, RunsTyped
    <2>2. \A d \in Clients : ~ Connected(d)'
      BY <2>1, OneAlive DEF Connected
    <2> QED BY <1>1, <2>1, <2>2, RunInside
  <1>2. CASE RunEnds(c, st)
    BY <1>2, RunEndsKeeps
  <1> QED BY <1>1, <1>2 DEF RunLeaves

\* Every step of a client's task.
LEMMA RunKeeps ==
    ASSUME Typed, Known, Core, Obeyed, NEW c \in Clients, RunProceeds(c) \/ RunLost(c)
    PROVE  Core' /\ Obeyed'
  <1>1. run[c] \notin {"ended", "dialing"}
    BY DEF RunProceeds, RunLost, RunReady, RunFails, RunCleaned, RunCancelled, RunDropped,
           RunReleased, RunReleaseCancelled
  <1>2. CASE RunReady(c)
    <2>1. /\ run[c] = "starting" /\ run'[c] = "up" /\ stop' = stop
          /\ \A d \in Clients : d # c => run'[d] = run[d]
          /\ UNCHANGED <<client, task, manual, target, status, callVars, asked>>
      BY <1>2 DEF RunReady, Typed, RunsTyped, appVars
    <2>2. \A d \in Clients : Connected(d)' => Connected(d)
      BY <2>1 DEF Connected
    <2> QED BY <1>1, <2>1, <2>2, RunInside
  <1>3. CASE RunLost(c)
    <2>1. /\ run'[c] = "cleaning"
          /\ \A d \in Clients : d # c => run'[d] = run[d] /\ stop'[d] = stop[d]
          /\ UNCHANGED <<client, task, manual, target, status, callVars, asked>>
      BY <1>3 DEF RunLost, Typed, RunsTyped, appVars
    <2>2. \A d \in Clients : Connected(d)' => Connected(d)
      BY <2>1 DEF Connected
    <2> QED BY <1>1, <2>1, <2>2, RunInside
  <1>4. CASE RunDropped(c) \/ RunReleaseCancelled(c)
    <2>1. /\ run'[c] = "ended"
          /\ \A d \in Clients : d # c => run'[d] = run[d] /\ stop'[d] = stop[d]
          /\ UNCHANGED <<client, task, manual, target, status, callVars, asked>>
      BY <1>4 DEF RunDropped, RunReleaseCancelled, Ended, Typed, RunsTyped, appVars
    <2>2. \A d \in Clients : Connected(d)' => Connected(d)
      BY <2>1 DEF Connected
    <2> QED BY <1>1, <2>1, <2>2, RunInside
  <1>5. CASE RunReleased(c)
    BY <1>1, <1>5, RunEndsKeeps DEF RunReleased
  <1>6. ASSUME NEW st, RunLeaves(c, st)
        PROVE  Core' /\ Obeyed'
    BY <1>1, <1>6, RunLeavesKeeps
  <1> QED BY <1>2, <1>3, <1>4, <1>5, <1>6 DEF RunProceeds, RunFails, RunCleaned, RunCancelled

-----------------------------------------------------------------------------
(* The steps of the calls.                                                  *)

\* A call that switches is the only one.
LEMMA Alone ==
    ASSUME Known, Core, NEW u \in Callers, Switching(u)
    PROVE  \A v \in Callers : v # u => ~ Switching(v) /\ waits[v] = None
  BY DEF Known, WaitsKnow, Core, OneSwitches, Switching

\* The others do not switch: what the invariant says of the calls goes on.
LEMMA OneSwitchesOn ==
    ASSUME NEW u \in Callers,
           \A v \in Callers : v # u => ~ Switching(v) /\ waits[v] = None,
           \A v \in Callers : v # u => pc'[v] = pc[v] /\ waits'[v] = waits[v],
           waits'[u] # None => task' = None
    PROVE  OneSwitches'
  BY DEF OneSwitches, Switching

\* The task is taken to be gathered.
LEMMA TakesKeeps ==
    ASSUME Typed, Known, Core, NEW u \in Callers, NEW what, NEW p,
           \A v \in Callers : v # u => ~ Switching(v) /\ waits[v] = None,
           waits[u] = None, TakesTask(u, what, p),
           asked' = "disconnect" => what = "disconnect"
    PROVE  Core' /\ Obeyed'
  <1> USE GuiAssumption DEF GuiAssumption
  <1>1. /\ task # None /\ task \in Clients /\ task' = None /\ manual' = TRUE
        /\ pc'[u] = "gathering" /\ job'[u] = what /\ waits'[u] = task
        /\ \A v \in Callers : v # u => pc'[v] = pc[v] /\ waits'[v] = waits[v]
        /\ UNCHANGED <<client, run>>
    BY TakesEffect
  <1>2. OneSwitches'
    BY <1>1, OneSwitchesOn
  <1>3. Reached'
    <2>1. \A v \in Callers : waits[v] = None
      OBVIOUS
    <2>2. \A d \in Clients : /\ run[d] \notin {"ended", "dialing"} => task = d
                             /\ run[d] # "dialing"
      BY <2>1 DEF Core, Reached
    <2> QED BY <1>1, <2>1, <2>2 DEF Reached
  <1>4. \A d \in Clients : ~ Connected(d)'
    <2>1. \A d \in Clients : d # task => ~ Connected(d) /\ stop'[d] = stop[d]
      BY DEF Core, Held, TakesTask, Typed, RunsTyped
    <2>2. stop[task] # "no" \/ run[task] = "ended" \/ stop'[task] = "asked"
      BY <1>1 DEF TakesTask, Typed, RunsTyped
    <2>3. stop[task] # "no" => stop'[task] # "no"
      BY <1>1 DEF TakesTask, Typed, RunsTyped
    <2> QED BY <1>1, <2>1, <2>2, <2>3 DEF Connected
  <1>5. Held' /\ Shown'
    BY <1>4 DEF Held, Shown
  <1>6. Obeyed'
    <2>1. \A v \in Callers : v # u => pc'[v] \notin {"releasing", "gathering", "dialing"}
      BY <1>1 DEF Switching
    <2>2. asked' = "disconnect" => job'[u] = "disconnect"
      BY <1>1
    <2> QED BY <1>1, <2>1, <2>2 DEF Obeyed
  <1> QED BY <1>2, <1>3, <1>5, <1>6 DEF Core

\* The end of disconnect, with what connect_profile goes on with.
LEMMA DisconnectedKeeps ==
    ASSUME Typed, Known, Core, NEW u \in Callers, NEW what, NEW p,
           \A v \in Callers : v # u => ~ Switching(v) /\ waits[v] = None,
           pc[u] \in {"idle", "sleeping", "gathering"},
           pc[u] = "gathering" => run[waits[u]] = "ended",
           task = None, task' = None, Disconnected(u, what, p),
           asked' = "disconnect" => what = "disconnect"
    PROVE  Core' /\ Obeyed'
  <1> USE GuiAssumption DEF GuiAssumption
  <1>1. \A d \in Clients : run[d] = "ended"
    <2>1. \A v \in Callers : v # u => pc[v] \notin {"gathering", "dialing"}
      BY DEF Switching
    <2>2. \A d \in Clients : run[d] # "dialing"
      BY <2>1 DEF Core, Reached
    <2> QED BY <2>1, <2>2 DEF Core, Reached
  <1>2. \A v \in Callers : v # u => pc'[v] = pc[v] /\ waits'[v] = waits[v]
    BY DisconnectedAlone
  <1>3. OneSwitches'
    BY <1>2, OneSwitchesOn
  <1>4. CASE Returns(u) /\ UNCHANGED <<runVars, target>>
             /\ (what = "disconnect" => manual' = TRUE)
    <2>1. pc'[u] \in {"idle", "sleeping"}
      BY <1>4, ReturnsEffect
    <2>2. \A v \in Callers : pc'[v] \notin {"releasing", "gathering", "dialing"}
      BY <1>2, <2>1 DEF Switching
    <2>3. \A d \in Clients : run'[d] = "ended"
      BY <1>1, <1>4 DEF runVars
    <2>4. Reached' /\ Held' /\ Shown'
      BY <2>2, <2>3 DEF Reached, Held, Shown, Connected
    <2>5. Obeyed'
      BY <1>4, <2>2 DEF Obeyed
    <2> QED BY <1>3, <2>4, <2>5 DEF Core
  <1>5. CASE what = "connect" /\ DialsFor(u, p)
    <2>1. PICK c \in Clients :
            waits'[u] = c /\ pc'[u] = "dialing" /\ run' = [run EXCEPT ![c] = "dialing"]
      BY <1>5 DEF DialsFor
    <2>2. run'[c] = "dialing" /\ \A d \in Clients : d # c => run'[d] = "ended"
      BY <1>1, <2>1 DEF Typed, RunsTyped
    <2>3. Reached'
      BY <1>2, <2>1, <2>2 DEF Reached, Switching
    <2>4. Held' /\ Shown'
      BY <2>2 DEF Held, Shown, Connected
    <2>5. Obeyed'
      BY <1>5 DEF Obeyed
    <2> QED BY <1>3, <2>3, <2>4, <2>5 DEF Core
  <1> QED BY <1>4, <1>5, DisconnectedEither

\* The first step of disconnect, when nobody else is at it.
LEMMA BeginsKeeps ==
    ASSUME Typed, Known, Core, NoneSwitches, NEW u \in Callers, NEW what, NEW p,
           pc[u] \in {"idle", "sleeping"}, Begins(u, what, p),
           asked' = "disconnect" => what = "disconnect"
    PROVE  Core' /\ Obeyed'
  <1>1. \A v \in Callers : ~ Switching(v) /\ waits[v] = None
    BY DEF NoneSwitches, Known, WaitsKnow, Switching
  <1>2. CASE task # None /\ manual' = TRUE /\ pc' = [pc EXCEPT ![u] = "releasing"]
             /\ job' = [job EXCEPT ![u] = what]
             /\ UNCHANGED <<client, task, status, waits, runVars>>
    <2>1. /\ pc'[u] = "releasing" /\ job'[u] = what /\ waits'[u] = None
          /\ \A v \in Callers : v # u => pc'[v] = pc[v] /\ waits'[v] = waits[v]
      BY <1>1, <1>2 DEF Typed, CallsTyped
    <2>2. OneSwitches'
      BY <1>1, <2>1, OneSwitchesOn
    <2>3. Reached'
      BY <1>1, <1>2, <2>1 DEF Core, Reached, runVars
    <2>4. Held' /\ Shown'
      BY <1>2, <2>1 DEF Core, Held, Shown, Connected, runVars
    <2>5. Obeyed'
      <3>1. \A v \in Callers : v # u => pc'[v] \notin {"releasing", "gathering", "dialing"}
        BY <1>1, <2>1 DEF Switching
      <3> QED BY <1>2, <2>1, <3>1 DEF Obeyed
    <2> QED BY <2>2, <2>3, <2>4, <2>5 DEF Core
  <1>3. CASE TakesTask(u, what, p)
    BY <1>1, <1>3, TakesKeeps
  <1>4. CASE task = None /\ UNCHANGED task /\ Disconnected(u, what, p)
    BY <1>1, <1>4, DisconnectedKeeps
  <1> QED BY <1>2, <1>3, <1>4 DEF Begins

\* Once all is down, nothing of what overlapped is left.
LEMMA DownIsCore ==
    ASSUME Typed, Known, AllDown
    PROVE  Core /\ Tools /\ NoneSwitches
  <1> USE DEF AllDown
  <1>1. NoneSwitches /\ OneSwitches
    BY DEF NoneSwitches, OneSwitches, Known, WaitsKnow, Switching
  <1>2. Reached /\ Held /\ Shown
    BY <1>1 DEF Reached, Held, Shown, Connected, NoneSwitches, Switching
  <1>3. ToolAlone /\ Attached /\ Remembered
    BY <1>1 DEF ToolAlone, Attached, Remembered, UsingTool, NoneSwitches, Switching
  <1> QED BY <1>1, <1>2, <1>3 DEF Core, Tools

\* A connect or disconnect that overlaps no other one: nobody else is at it; and if no call
\* is inside another one, nobody runs the tool.
LEMMA MeetsNobody ==
    ASSUME SwitchMeets, overlap' # "calls"
    PROVE  /\ NoneSwitches /\ overlap # "calls"
           /\ overlap' = "none" => overlap = "none" /\ \A v \in Callers : ~ UsingTool(v)
  BY DEF SwitchMeets, NoneSwitches

\* A request, or a loop's attempt, begins and meets nobody.
LEMMA AskedKeeps ==
    ASSUME Typed, IInv, overlap' # "calls", NEW u \in Callers,
           \/ u \in Requests /\ (RequestDisconnect(u) \/ \E p \in Profiles : RequestConnect(u, p))
           \/ u \in Loops /\ LoopAttempts(u)
    PROVE  Core' /\ Obeyed'
  <1> USE GuiAssumption DEF GuiAssumption
  <1>1. ASSUME NEW what, NEW p, Requested(u, what, p)
        PROVE  Core /\ NoneSwitches /\ pc[u] = "idle" /\ Begins(u, what, p)
    <2>1. CASE AllDown
      BY <1>1, <2>1, DownIsCore DEF IInv, Requested
    <2>2. CASE SwitchMeets
      BY <1>1, <2>2, MeetsNobody DEF IInv, Requested
    <2> QED BY <1>1, <2>1, <2>2 DEF Requested
  <1>2. CASE RequestDisconnect(u)
    BY <1>1, <1>2, BeginsKeeps DEF RequestDisconnect, IInv
  <1>3. ASSUME NEW p \in Profiles, RequestConnect(u, p)
        PROVE  Core' /\ Obeyed'
    <2>1. asked' # "disconnect" /\ Requested(u, "connect", p)
      BY <1>3 DEF RequestConnect
    <2> QED BY <1>1, <2>1, BeginsKeeps DEF IInv
  <1>4. CASE u \in Loops /\ LoopAttempts(u)
    <2>1. /\ pc[u] = "sleeping" /\ ~ manual /\ target = profile[u]
          /\ Begins(u, "connect", profile[u]) /\ SwitchMeets /\ asked' = asked
      BY <1>4 DEF LoopAttempts
    <2>2. Known /\ Core /\ Obeyed /\ NoneSwitches
      BY <2>1, MeetsNobody DEF IInv
    <2>3. profile[u] # None
      BY <1>4, <2>1, <2>2 DEF Known, LoopsKnow
    <2>4. asked # "disconnect"
      BY <2>1, <2>2, <2>3 DEF Obeyed
    <2> QED BY <2>1, <2>2, <2>4, BeginsKeeps
  <1> QED BY <1>2, <1>3, <1>4

\* The awaits of disconnect end.
LEMMA ReleasedKeeps ==
    ASSUME Typed, Known, Core, Obeyed, NEW u \in Callers, Released(u)
    PROVE  Core' /\ Obeyed'
  <1>1. pc[u] = "releasing" /\ asked' = asked
    BY DEF Released
  <1>2. /\ \A v \in Callers : v # u => ~ Switching(v) /\ waits[v] = None
        /\ waits[u] = None
    BY <1>1, Alone DEF Switching, Known, WaitsKnow
  <1>3. CASE TakesTask(u, job[u], profile[u])
    <2>1. asked' = "disconnect" => job[u] = "disconnect"
      BY <1>1 DEF Obeyed
    <2> QED BY <1>2, <1>3, <2>1, TakesKeeps
  <1>4. CASE /\ task = None
             /\ pc' = [pc EXCEPT ![u] = "idle"]
             /\ UNCHANGED <<client, task, status, manual, target, waits, runVars>>
    <2>1. /\ pc'[u] = "idle"
          /\ \A v \in Callers : v # u => pc'[v] = pc[v] /\ waits'[v] = waits[v]
      BY <1>4 DEF Typed, CallsTyped
    <2>2. OneSwitches'
      BY <1>2, <1>4, <2>1, OneSwitchesOn
    <2>3. \A d \in Clients : run[d] = "ended"
      BY <1>2, <1>4, GuiAssumption DEF GuiAssumption, Core, Reached
    <2>4. Reached' /\ Held' /\ Shown'
      BY <1>2, <1>4, <2>1, <2>3 DEF Reached, Held, Shown, Connected, Switching, runVars
    <2>5. Obeyed'
      BY <1>1, <1>2, <1>4, <2>1 DEF Obeyed, Switching
    <2> QED BY <2>2, <2>4, <2>5 DEF Core
  <1> QED BY <1>3, <1>4 DEF Released

\* The task was gathered: it is over.
LEMMA GatheredKeeps ==
    ASSUME Typed, Known, Core, Obeyed, NEW u \in Callers, Gathered(u)
    PROVE  Core' /\ Obeyed'
  <1>1. /\ pc[u] = "gathering" /\ run[waits[u]] = "ended"
        /\ UNCHANGED <<task, asked>>
        /\ Disconnected(u, job[u], profile[u])
    BY DEF Gathered
  <1>2. /\ \A v \in Callers : v # u => ~ Switching(v) /\ waits[v] = None
        /\ task = None
    BY <1>1, Alone DEF Switching, Known, WaitsKnow, Core, OneSwitches
  <1>3. asked' = "disconnect" => job[u] = "disconnect"
    BY <1>1 DEF Obeyed
  <1> QED BY <1>1, <1>2, <1>3, DisconnectedKeeps

\* The awaits of connect_profile end.
LEMMA DialFailsKeeps ==
    ASSUME Typed, Known, Core, Obeyed, NEW u \in Callers, DialFails(u)
    PROVE  Core' /\ Obeyed'
  <1>1. /\ pc[u] = "dialing" /\ Ended(waits[u]) /\ Returns(u)
        /\ UNCHANGED <<client, task, manual, target, asked>>
    BY DEF DialFails
  <1>2. /\ \A v \in Callers : v # u => ~ Switching(v) /\ waits[v] = None
        /\ task = None /\ waits[u] \in Clients
    BY <1>1, Alone DEF Switching, Known, WaitsKnow, Core, OneSwitches, Typed, CallsTyped
  <1>3. /\ \A v \in Callers : v # u => pc'[v] = pc[v] /\ waits'[v] = waits[v]
        /\ waits'[u] = None /\ pc'[u] \in {"idle", "sleeping"}
    BY <1>1, ReturnsEffect
  <1>4. OneSwitches'
    BY <1>2, <1>3, OneSwitchesOn
  <1>5. \A v \in Callers : pc'[v] \notin {"releasing", "gathering", "dialing"}
    BY <1>2, <1>3 DEF Switching
  <1>6. \A d \in Clients : run'[d] = "ended"
    <2>1. \A d \in Clients : d # waits[u] => run[d] = "ended"
      BY <1>1, <1>2, GuiAssumption DEF GuiAssumption, Core, Reached, Switching
    <2> QED BY <1>1, <1>2, <2>1 DEF Ended, Typed, RunsTyped
  <1>7. Reached' /\ Held' /\ Shown'
    BY <1>5, <1>6 DEF Reached, Held, Shown, Connected
  <1>8. Obeyed'
    BY <1>1, <1>2, <1>5 DEF Obeyed
  <1> QED BY <1>4, <1>7, <1>8 DEF Core

\* The new client takes the place of the one that is gone.
LEMMA DialDoneKeeps ==
    ASSUME Typed, Known, Core, Obeyed, NEW u \in Callers, DialDone(u)
    PROVE  Core' /\ Obeyed'
  <1> USE GuiAssumption DEF GuiAssumption
  <1> DEFINE c == waits[u]
  <1>1. /\ pc[u] = "dialing" /\ client' = c /\ task' = c
        /\ run' = [run EXCEPT ![c] = "starting"]
        /\ waits' = [waits EXCEPT ![u] = None]
        /\ pc' = [pc EXCEPT ![u] = "readying"]
        /\ UNCHANGED <<status, manual, stop, asked>>
    BY DEF DialDone
  <1>2. /\ \A v \in Callers : v # u => ~ Switching(v) /\ waits[v] = None
        /\ task = None /\ c \in Clients
    BY <1>1, Alone DEF Switching, Known, WaitsKnow, Core, OneSwitches, Typed, CallsTyped
  <1> HIDE DEF c
  <1>3. /\ pc'[u] = "readying" /\ waits'[u] = None
        /\ \A v \in Callers : v # u => pc'[v] = pc[v] /\ waits'[v] = waits[v]
    BY <1>1 DEF Typed, CallsTyped
  <1>4. OneSwitches'
    BY <1>2, <1>3, OneSwitchesOn
  <1>5. /\ \A d \in Clients : d # c => run[d] = "ended" /\ run'[d] = "ended"
        /\ run'[c] = "starting"
    <2>1. \A d \in Clients : d # c => run[d] = "ended"
      BY <1>1, <1>2 DEF Core, Reached, Switching, c
    <2> QED BY <1>1, <1>2, <2>1 DEF Typed, RunsTyped
  <1>6. Reached'
    BY <1>1, <1>2, <1>3, <1>5 DEF Reached, Switching
  <1>7. Held' /\ Shown'
    BY <1>1, <1>3, <1>5 DEF Held, Shown, Connected
  <1>8. Obeyed'
    BY <1>1 DEF Obeyed
  <1> QED BY <1>4, <1>6, <1>7, <1>8 DEF Core

\* The GUI is shown as connected when the wait for ready is over, whatever else goes on.
LEMMA ReadyKeeps ==
    ASSUME Typed, Known, Core, Obeyed, NEW u \in Callers, ReadyWaitEnds(u)
    PROVE  Core' /\ Obeyed'
  <1>1. /\ pc[u] = "readying" /\ status' = "connected" /\ Returns(u)
        /\ UNCHANGED <<client, task, manual, target, runVars, asked>>
    BY DEF ReadyWaitEnds
  <1>2. waits[u] = None
    BY <1>1 DEF Known, WaitsKnow
  <1>3. /\ \A v \in Callers : v # u => /\ pc'[v] = pc[v] /\ waits'[v] = waits[v]
                                       /\ job'[v] = job[v]
        /\ waits'[u] = None /\ pc'[u] \in {"idle", "sleeping"}
    BY <1>1, ReturnsEffect
  <1>4. OneSwitches'
    BY <1>1, <1>3 DEF Core, OneSwitches, Switching
  <1>5. Reached' /\ Held' /\ Shown'
    BY <1>1, <1>2, <1>3 DEF Core, Reached, Held, Shown, Connected, runVars
  <1>6. Obeyed'
    BY <1>1, <1>3 DEF Obeyed
  <1> QED BY <1>4, <1>5, <1>6 DEF Core

\* attach and detach, and a loop that gives up, leave the connection alone.
LEMMA ToolKeeps ==
    ASSUME Typed, Known, Core, Obeyed, NEW u \in Callers,
           \/ AttachBegins(u) \/ AttachImports(u) \/ AttachEnds(u)
           \/ DetachBegins(u) \/ DetachEnds(u) \/ LoopGivesUp(u)
    PROVE  Core' /\ Obeyed'
  <1>1. /\ UNCHANGED <<client, task, status, manual, target, job, waits, run, stop, asked>>
        /\ \A v \in Callers : v # u => pc'[v] = pc[v]
        /\ pc[u] \in {"idle", "sleeping", "attaching", "imported", "detaching"}
        /\ pc'[u] \in {"idle", "attaching", "imported", "detaching"}
    BY DEF AttachBegins, AttachEnds, DetachBegins, DetachEnds, AttachImports, LoopGivesUp,
           appVars, runVars, Typed, CallsTyped
  <1>2. OneSwitches'
    BY <1>1 DEF Core, OneSwitches, Switching
  <1>3. Reached' /\ Held' /\ Shown'
    BY <1>1 DEF Core, Reached, Held, Shown, Connected
  <1>4. Obeyed'
    BY <1>1 DEF Obeyed
  <1> QED BY <1>2, <1>3, <1>4 DEF Core

-----------------------------------------------------------------------------
(* What is attached, while no call is inside another one.                   *)

\* A call that is between the awaits of a connect or a disconnect meets no use of the tool.
LEMMA NoTool ==
    ASSUME Tools, NEW u \in Callers, Switching(u)
    PROVE  \A v \in Callers : ~ UsingTool(v)
  BY DEF Tools, ToolAlone, Switching, UsingTool

\* The task is taken: what it had attached is detached, or known to be left.
LEMMA TakesTools ==
    ASSUME Typed, Tools, NEW u \in Callers, NEW what, NEW p, TakesTask(u, what, p),
           \A v \in Callers : ~ UsingTool(v),
           \/ ~ attached /\ UNCHANGED usbVars
           \/ DetachesOurs /\ attached' = attached
    PROVE  Tools'
  <1>1. /\ task' = None /\ pc'[u] = "gathering" /\ client' = client
        /\ \A v \in Callers : v # u => pc'[v] = pc[v]
    BY TakesEffect
  <1>2. \A v \in Callers : ~ UsingTool(v)' /\ pc[v] \notin {"attaching", "imported"}
    BY <1>1 DEF UsingTool
  <1>3. ports' => slipped'
    BY <1>2 DEF Tools, Remembered, DetachesOurs, usbVars
  <1>4. ToolAlone'
    BY <1>2 DEF ToolAlone
  <1>5. Attached'
    BY <1>1, <1>2 DEF Attached, UsingTool
  <1>6. Remembered'
    BY <1>3 DEF Remembered
  <1> QED BY <1>4, <1>5, <1>6 DEF Tools

\* disconnect forgets what was attached when there is nothing left of it but what is known.
LEMMA DisconnectedTools ==
    ASSUME Typed, Known, Core, Tools, NEW u \in Callers, NEW what, NEW p,
           Disconnected(u, what, p), UNCHANGED <<ports, slipped>>,
           task = None, task' = None, \A v \in Callers : ~ UsingTool(v),
           \A v \in Callers : v # u => ~ Switching(v)
    PROVE  Tools'
  <1>1. /\ client' = None /\ attached' = FALSE
        /\ \A v \in Callers : v # u => pc'[v] = pc[v]
    BY DisconnectedAlone
  <1>2. pc'[u] \in {"idle", "sleeping", "dialing"}
    BY DisconnectedEither, ReturnsEffect DEF DialsFor
  <1>3. \A v \in Callers : ~ UsingTool(v)' /\ pc[v] \notin {"attaching", "imported"}
    BY <1>1, <1>2 DEF UsingTool
  <1>4. ports' => slipped'
    <2>1. CASE pc[u] = "gathering"
      BY <2>1 DEF Tools, Remembered
    <2>2. CASE pc[u] # "gathering"
      <3>1. \A v \in Callers : pc[v] # "gathering"
        BY <2>2 DEF Switching
      <3> QED BY <1>3, <3>1 DEF Tools, Attached, Remembered
    <2> QED BY <2>1, <2>2
  <1>5. ToolAlone'
    BY <1>3 DEF ToolAlone
  <1>6. Attached'
    BY <1>1, <1>3 DEF Attached, UsingTool
  <1>7. Remembered'
    BY <1>4 DEF Remembered
  <1> QED BY <1>5, <1>6, <1>7 DEF Tools

\* The first step of disconnect.
LEMMA BeginsTools ==
    ASSUME Typed, Known, Core, Tools, NoneSwitches, \A v \in Callers : ~ UsingTool(v),
           NEW u \in Callers, NEW what, NEW p, Begins(u, what, p)
    PROVE  Tools'
  <1>1. CASE /\ task # None /\ pc' = [pc EXCEPT ![u] = "releasing"]
             /\ UNCHANGED <<client, task, usbVars>>
    <2>1. \A v \in Callers : \/ pc'[v] = pc[v]
                             \/ v = u /\ pc'[v] = "releasing"
      BY <1>1 DEF Typed, CallsTyped
    <2>2. \A v \in Callers : /\ pc[v] \notin {"attaching", "imported", "detaching"}
                             /\ pc'[v] \notin {"attaching", "imported", "detaching", "gathering"}
      BY <2>1 DEF UsingTool, NoneSwitches, Switching
    <2>3. ToolAlone'
      BY <2>2 DEF ToolAlone, UsingTool
    <2>4. Attached'
      BY <1>1, <2>2 DEF Attached
    <2>5. Remembered'
      BY <1>1, <2>2 DEF Tools, Remembered, usbVars
    <2> QED BY <2>3, <2>4, <2>5 DEF Tools
  <1>2. CASE ~ attached /\ TakesTask(u, what, p) /\ UNCHANGED usbVars
    BY <1>2, TakesTools
  <1>3. CASE task = None /\ UNCHANGED <<task, ports, slipped>> /\ Disconnected(u, what, p)
    BY <1>3, DisconnectedTools DEF NoneSwitches
  <1> QED BY <1>1, <1>2, <1>3 DEF Begins

\* A request, or a loop's attempt, begins and meets no other call.
LEMMA AskedTools ==
    ASSUME Typed, IInv, overlap' = "none", NEW u \in Callers,
           \/ RequestDisconnect(u) \/ \E p \in Profiles : RequestConnect(u, p)
           \/ LoopAttempts(u)
    PROVE  Tools'
  <1>1. ASSUME SwitchMeets
        PROVE  Core /\ Tools /\ NoneSwitches /\ \A v \in Callers : ~ UsingTool(v)
    BY <1>1, MeetsNobody DEF IInv
  <1>2. ASSUME NEW what, NEW p, Requested(u, what, p)
        PROVE  Tools'
    <2>1. CASE AllDown
      <3>1. \A v \in Callers : ~ UsingTool(v)
        BY <2>1 DEF AllDown
      <3> QED BY <1>2, <2>1, <3>1, DownIsCore, BeginsTools DEF IInv, Requested
    <2>2. CASE SwitchMeets
      BY <1>1, <1>2, <2>2, BeginsTools DEF IInv, Requested
    <2> QED BY <1>2, <2>1, <2>2 DEF Requested
  <1>3. CASE LoopAttempts(u)
    BY <1>1, <1>3, BeginsTools DEF IInv, LoopAttempts
  <1> QED BY <1>2, <1>3 DEF RequestDisconnect, RequestConnect

\* The awaits of disconnect end.
LEMMA ReleasedTools ==
    ASSUME Typed, Known, Core, Tools, NEW u \in Callers, Released(u)
    PROVE  Tools'
  <1>1. pc[u] = "releasing" /\ DetachesOurs /\ attached' = attached
    BY DEF Released
  <1>2. \A v \in Callers : ~ UsingTool(v)
    BY <1>1, NoTool DEF Switching
  <1>3. CASE TakesTask(u, job[u], profile[u])
    BY <1>1, <1>2, <1>3, TakesTools
  <1>4. CASE pc' = [pc EXCEPT ![u] = "idle"] /\ UNCHANGED <<client, task>>
    <2>1. pc'[u] = "idle" /\ \A v \in Callers : v # u => pc'[v] = pc[v]
      BY <1>4 DEF Typed, CallsTyped
    <2>2. ports' => slipped'
      BY <1>1 DEF DetachesOurs
    <2>3. ToolAlone'
      BY <1>2, <2>1 DEF ToolAlone, UsingTool
    <2>4. Attached'
      BY <1>1, <1>4, <2>1 DEF Tools, Attached
    <2>5. Remembered'
      BY <2>2 DEF Remembered
    <2> QED BY <2>3, <2>4, <2>5 DEF Tools
  <1> QED BY <1>3, <1>4 DEF Released

\* The task was gathered.
LEMMA GatheredTools ==
    ASSUME Typed, Known, Core, Tools, NEW u \in Callers, Gathered(u)
    PROVE  Tools'
  <1>1. /\ pc[u] = "gathering" /\ UNCHANGED <<task, ports, slipped>>
        /\ Disconnected(u, job[u], profile[u])
    BY DEF Gathered
  <1>2. /\ \A v \in Callers : v # u => ~ Switching(v)
        /\ task = None
    BY <1>1, Alone DEF Switching, Known, WaitsKnow, Core, OneSwitches
  <1>3. \A v \in Callers : ~ UsingTool(v)
    BY <1>1, NoTool DEF Switching
  <1> QED BY <1>1, <1>2, <1>3, DisconnectedTools

\* The awaits of connect_profile end: what is attached stays, and a task may come.
LEMMA ConnectTools ==
    ASSUME Typed, Known, Core, Tools, NEW u \in Callers,
           DialFails(u) \/ DialDone(u) \/ ReadyWaitEnds(u)
    PROVE  Tools'
  <1> USE GuiAssumption DEF GuiAssumption
  <1>1. /\ usbVars' = usbVars
        /\ \A v \in Callers : v # u => pc'[v] = pc[v]
        /\ pc[u] \in {"dialing", "readying"} /\ pc'[u] \in {"idle", "sleeping", "readying"}
    <2>1. CASE DialDone(u)
      BY <2>1 DEF DialDone, Typed, CallsTyped
    <2>2. CASE DialFails(u) \/ ReadyWaitEnds(u)
      BY <2>2, ReturnsEffect DEF DialFails, ReadyWaitEnds
    <2> QED BY <2>1, <2>2
  <1>2. UNCHANGED <<client, task>> \/ task' # None
    <2>1. CASE DialDone(u)
      <3>1. pc[u] = "dialing" /\ task' = waits[u]
        BY <2>1 DEF DialDone
      <3> QED BY <3>1 DEF Known, WaitsKnow
    <2>2. CASE DialFails(u) \/ ReadyWaitEnds(u)
      BY <2>2 DEF DialFails, ReadyWaitEnds
    <2> QED BY <2>1, <2>2
  <1>3. ToolAlone'
    BY <1>1 DEF Tools, ToolAlone, UsingTool, Switching
  <1>4. Attached'
    BY <1>1, <1>2 DEF Tools, Attached, usbVars
  <1>5. Remembered'
    BY <1>1 DEF Tools, Remembered, usbVars
  <1> QED BY <1>3, <1>4, <1>5 DEF Tools

\* attach and detach.
LEMMA ToolTools ==
    ASSUME Typed, Known, IInv, overlap' = "none", NEW u \in Callers,
           \/ AttachBegins(u) \/ AttachImports(u) \/ AttachEnds(u)
           \/ DetachBegins(u) \/ DetachEnds(u) \/ LoopGivesUp(u)
    PROVE  Tools'
  <1>1. /\ UNCHANGED <<client, task>>
        /\ \A v \in Callers : v # u => pc'[v] = pc[v]
    BY DEF AttachBegins, AttachEnds, DetachBegins, DetachEnds, AttachImports, LoopGivesUp,
           appVars, Typed, CallsTyped
  <1>2. CASE AttachBegins(u) \/ DetachBegins(u)
    <2>1. /\ overlap = "none" /\ \A v \in Callers : ~ Switching(v) /\ ~ UsingTool(v)
          /\ pc[u] = "idle" /\ pc'[u] \in {"attaching", "detaching"} /\ usbVars' = usbVars
          /\ pc'[u] = "attaching" => client # None
      BY <1>2 DEF AttachBegins, DetachBegins, ToolMeets, Typed, CallsTyped
    <2>2. Tools
      BY <2>1 DEF IInv
    <2>3. ToolAlone'
      BY <1>1, <2>1 DEF ToolAlone, UsingTool, Switching
    <2>4. \A v \in Callers : pc[v] # "gathering" /\ pc[v] \notin {"attaching", "imported"}
      BY <2>1 DEF Switching, UsingTool
    <2>5. Attached'
      BY <1>1, <2>1, <2>2, <2>4 DEF Tools, Attached, usbVars
    <2>6. Remembered'
      BY <1>1, <2>1, <2>2, <2>4 DEF Tools, Remembered, usbVars
    <2> QED BY <2>3, <2>5, <2>6 DEF Tools
  <1>3. CASE LoopGivesUp(u)
    <2>1. pc[u] = "sleeping" /\ pc'[u] = "idle" /\ usbVars' = usbVars /\ overlap = "none"
      BY <1>3 DEF LoopGivesUp, Typed, CallsTyped
    <2>2. Tools
      BY <2>1 DEF IInv
    <2>3. ToolAlone'
      BY <1>1, <2>1, <2>2 DEF Tools, ToolAlone, UsingTool, Switching
    <2>4. Attached' /\ Remembered'
      BY <1>1, <2>1, <2>2 DEF Tools, Attached, Remembered, usbVars
    <2> QED BY <2>3, <2>4 DEF Tools
  <1>4. CASE AttachImports(u) \/ AttachEnds(u) \/ DetachEnds(u)
    <2>1. /\ pc[u] \in {"attaching", "imported", "detaching"} /\ overlap = "none"
          /\ pc'[u] \in {"imported", "idle"} /\ (pc'[u] = "imported" => pc[u] = "attaching")
      BY <1>4 DEF AttachImports, AttachEnds, DetachEnds, Typed, CallsTyped
    <2>2. Tools
      BY <2>1 DEF IInv
    <2>3. \A v \in Callers : v # u => ~ UsingTool(v) /\ ~ Switching(v)
      BY <2>1, <2>2 DEF Tools, ToolAlone, UsingTool
    <2>4. \A v \in Callers : /\ pc[v] # "gathering" /\ pc'[v] # "gathering"
                             /\ v # u => pc[v] \notin {"attaching", "imported"}
      BY <1>1, <2>1, <2>3 DEF Switching, UsingTool
    <2>5. ToolAlone'
      BY <1>1, <2>1, <2>3 DEF ToolAlone, UsingTool, Switching
    <2>6. Attached'
      <3>1. attached' => attached \/ pc[u] = "imported"
        BY <1>4 DEF AttachImports, AttachEnds, DetachEnds
      <3> QED BY <1>1, <2>1, <2>2, <2>4, <3>1 DEF Tools, Attached
    <2>7. Remembered'
      <3>1. CASE AttachImports(u)
        <4>1. pc'[u] = "imported"
          BY <3>1 DEF AttachImports, Typed, CallsTyped
        <4> QED BY <2>4, <4>1 DEF Remembered
      <3>2. CASE AttachEnds(u) /\ pc[u] = "attaching"
        <4>1. UNCHANGED <<attached, ports, slipped>>
          BY <3>2 DEF AttachEnds
        <4>2. \A v \in Callers : pc[v] # "imported"
          BY <2>4, <3>2
        <4> QED BY <2>2, <2>4, <4>1, <4>2 DEF Tools, Remembered
      <3>3. CASE AttachEnds(u) /\ pc[u] = "imported"
        <4>1. attached' = TRUE \/ slipped' = ports'
          BY <3>3 DEF AttachEnds
        <4> QED BY <2>4, <4>1 DEF Remembered
      <3>4. CASE DetachEnds(u)
        BY <2>4, <3>4 DEF DetachEnds, DetachesOurs, Remembered
      <3> QED BY <1>4, <3>1, <3>2, <3>3, <3>4 DEF AttachEnds
    <2> QED BY <2>5, <2>6, <2>7 DEF Tools
  <1> QED BY <1>2, <1>3, <1>4

\* The steps of a client's task: its finally detaches what is attached, or leaves it known.
LEMMA RunTools ==
    ASSUME Typed, Known, Tools, NEW c \in Clients, RunProceeds(c) \/ RunLost(c)
    PROVE  Tools'
  <1>1. ASSUME NEW st, RunEnds(c, st), \/ ~ attached /\ UNCHANGED <<ports, slipped>>
                                      \/ DetachesOurs
        PROVE  Tools'
    <2>1. /\ \A v \in Callers : \/ pc'[v] = pc[v]
                                \/ pc[v] = "idle" /\ pc'[v] = "sleeping"
          /\ task' = task /\ client' = None /\ attached' = FALSE
      BY <1>1 DEF RunEnds, Typed, CallsTyped, Callers
    <2>2. ToolAlone'
      BY <2>1 DEF Tools, ToolAlone, UsingTool, Switching
    <2>3. Attached'
      BY <2>1 DEF Tools, Attached
    <2>4. Remembered'
      <3>1. CASE ~ attached /\ UNCHANGED <<ports, slipped>>
        BY <2>1, <3>1 DEF Tools, Remembered
      <3>2. CASE DetachesOurs
        BY <3>2 DEF DetachesOurs, Remembered
      <3> QED BY <1>1, <3>1, <3>2
    <2> QED BY <2>2, <2>3, <2>4 DEF Tools
  <1>2. ASSUME UNCHANGED <<client, task, callVars, attached>>,
               \/ UNCHANGED <<ports, slipped>>
               \/ ports' \in {ports, FALSE} /\ slipped' = (slipped /\ ports')
        PROVE  Tools'
    <2>1. ToolAlone' /\ Attached'
      BY <1>2 DEF callVars, Tools, ToolAlone, UsingTool, Switching, Attached
    <2>2. Remembered'
      <3>1. ports \in BOOLEAN /\ slipped \in BOOLEAN
        BY DEF Typed, UsbTyped
      <3>2. CASE UNCHANGED <<ports, slipped>>
        BY <1>2, <3>2 DEF callVars, Tools, Remembered
      <3>3. CASE ports' = ports /\ ports = TRUE /\ slipped' = (slipped /\ ports')
        <4>1. slipped' = slipped
          BY <3>1, <3>3
        <4> QED BY <1>2, <3>3, <4>1 DEF callVars, Tools, Remembered
      <3>4. CASE ports' = FALSE
        BY <3>4 DEF Remembered
      <3> QED BY <1>2, <3>1, <3>2, <3>3, <3>4
    <2> QED BY <2>1, <2>2 DEF Tools
  <1>3. CASE RunReady(c) \/ RunLost(c) \/ RunDropped(c) \/ RunReleaseCancelled(c)
    BY <1>2, <1>3 DEF RunReady, RunLost, RunDropped, RunReleaseCancelled, appVars, usbVars
  <1>4. CASE RunReleased(c)
    BY <1>1, <1>4 DEF RunReleased
  <1>5. ASSUME NEW st, RunLeaves(c, st)
        PROVE  Tools'
    BY <1>1, <1>2, <1>5 DEF RunLeaves, usbVars
  <1> QED BY <1>3, <1>4, <1>5 DEF RunProceeds, RunFails, RunCleaned, RunCancelled

-----------------------------------------------------------------------------
(* The theorems.                                                            *)

\* The steps that begin no call leave what has overlapped as it is.
LEMMA OverlapStays ==
    ASSUME NEW u \in Callers, CallProceeds(u) \/ AttachImports(u)
    PROVE  overlap' = overlap
  BY DEF CallProceeds, AttachImports, Released, Gathered, DialFails, DialDone, ReadyWaitEnds,
         AttachEnds, DetachEnds

\* So do the clients' tasks, and a loop that gives up.
LEMMA RunOverlapStays ==
    ASSUME NEW c \in Clients, RunProceeds(c) \/ RunLost(c)
    PROVE  overlap' = overlap
  BY DEF RunProceeds, RunLost, RunReady, RunFails, RunCleaned, RunCancelled, RunDropped,
         RunReleased, RunReleaseCancelled, RunLeaves, RunEnds

\* Every step keeps what holds while no connect or disconnect has met another one.
LEMMA CoreStep ==
    ASSUME Typed, IInv, [Next]_vars, overlap' # "calls"
    PROVE  Core' /\ Obeyed'
  <1>0. overlap # "calls" => Known /\ Core /\ Obeyed
    BY DEF IInv
  <1>1. ASSUME NEW u \in Requests, UserAsks(u)
        PROVE  Core' /\ Obeyed'
    <2>1. CASE AttachBegins(u) \/ DetachBegins(u)
      <3>1. overlap # "calls"
        BY <2>1 DEF AttachBegins, DetachBegins, ToolMeets
      <3> QED BY <1>0, <2>1, <3>1, ToolKeeps DEF Callers
    <2> QED BY <1>1, <2>1, AskedKeeps DEF UserAsks, Callers
  <1>2. ASSUME NEW u \in Callers, CallProceeds(u) \/ AttachImports(u)
        PROVE  Core' /\ Obeyed'
    <2>1. Known /\ Core /\ Obeyed
      BY <1>0, <1>2, OverlapStays
    <2> QED BY <1>2, <2>1, ReleasedKeeps, GatheredKeeps, DialFailsKeeps, DialDoneKeeps,
               ReadyKeeps, ToolKeeps DEF CallProceeds
  <1>3. ASSUME NEW c \in Clients, RunProceeds(c) \/ RunLost(c)
        PROVE  Core' /\ Obeyed'
    BY <1>0, <1>3, RunOverlapStays, RunKeeps
  <1>4. ASSUME NEW l \in Loops, LoopWakes(l)
        PROVE  Core' /\ Obeyed'
    <2>1. CASE LoopGivesUp(l)
      <3>1. overlap' = overlap
        BY <2>1 DEF LoopGivesUp
      <3> QED BY <1>0, <2>1, <3>1, ToolKeeps DEF Callers
    <2> QED BY <1>4, <2>1, AskedKeeps DEF LoopWakes, Callers
  <1>5. CASE UNCHANGED vars
    <2>1. Known /\ Core /\ Obeyed
      BY <1>0, <1>5 DEF vars
    <2> QED BY <1>5, <2>1 DEF vars, appVars, callVars, runVars, Core, OneSwitches, Switching,
                              Reached, Held, Shown, Connected, Obeyed
  <1> QED BY <1>1, <1>2, <1>3, <1>4, <1>5 DEF Next, Callers

\* And what holds while no call has met another one.
LEMMA ToolsStep ==
    ASSUME Typed, IInv, [Next]_vars, overlap' = "none"
    PROVE  Tools'
  <1>0. Known /\ (overlap = "none" => Core /\ Tools)
    BY DEF IInv
  <1>1. ASSUME NEW u \in Requests, UserAsks(u)
        PROVE  Tools'
    BY <1>0, <1>1, AskedTools, ToolTools DEF UserAsks, Callers
  <1>2. ASSUME NEW u \in Callers, CallProceeds(u) \/ AttachImports(u)
        PROVE  Tools'
    <2>1. Core /\ Tools
      BY <1>0, <1>2, OverlapStays
    <2> QED BY <1>0, <1>2, <2>1, ReleasedTools, GatheredTools, ConnectTools, ToolTools
            DEF CallProceeds
  <1>3. ASSUME NEW c \in Clients, RunProceeds(c) \/ RunLost(c)
        PROVE  Tools'
    BY <1>0, <1>3, RunOverlapStays, RunTools
  <1>4. ASSUME NEW l \in Loops, LoopWakes(l)
        PROVE  Tools'
    BY <1>0, <1>4, AskedTools, ToolTools DEF LoopWakes, Callers
  <1>5. CASE UNCHANGED vars
    <2>1. Tools
      BY <1>0, <1>5 DEF vars
    <2> QED BY <1>5, <2>1 DEF vars, appVars, callVars, usbVars, Tools, ToolAlone, UsingTool,
                              Switching, Attached, Remembered
  <1> QED BY <1>1, <1>2, <1>3, <1>4, <1>5 DEF Next, Callers

\* The invariant holds in every reachable state.
LEMMA Invariant == Spec => []IInv
  <1>1. Init => Typed /\ IInv
    <2> SUFFICES ASSUME Init
                 PROVE  Typed /\ IInv
      OBVIOUS
    <2>1. CallsTyped /\ RunsTyped
      BY DEF Init, CallsTyped, RunsTyped, PCs, Jobs, Runs
    <2>2. Typed
      BY <2>1 DEF Init, Typed, AppTyped, UsbTyped, Statuses, Overlaps
    <2>3. Known /\ AllDown
      BY DEF Init, Known, LoopsKnow, WaitsKnow, ToolsAsked, AllDown, UsingTool, Switching
    <2>4. Core /\ Tools
      BY <2>2, <2>3, DownIsCore
    <2>5. Obeyed
      BY DEF Init, Obeyed
    <2> QED BY <2>2, <2>3, <2>4, <2>5 DEF IInv
  <1>2. Typed /\ IInv /\ [Next]_vars => Typed' /\ IInv'
    <2> SUFFICES ASSUME Typed, IInv, [Next]_vars
                 PROVE  Typed' /\ IInv'
      OBVIOUS
    <2>1. Typed' /\ Known'
      BY TypedStep, KnownStep DEF IInv
    <2> QED BY <2>1, CoreStep, ToolsStep DEF IInv
  <1> QED BY <1>1, <1>2, PTL DEF Spec

\* The GUI never runs a client that it does not hold, over losses, reconnect loops, failed
\* dials and uses of the tool at any point, and over calls that begin while another one waits
\* for ready, unless a connect or disconnect has met one between its other awaits
\* (gui.py: disconnect, connect_profile, _run_client).
THEOREM TunnelHeld == Spec => []OneTunnel
  <1>1. IInv => OneTunnel
    BY DEF IInv, Core, Held, OneTunnel
  <1> QED BY <1>1, Invariant, PTL

\* After the user's last request was to disconnect, no tunnel is up or being made once it is
\* answered, whatever loops were asleep when it came, unless it met a call between its awaits
\* (gui.py: disconnect, _reconnect_later).
THEOREM StaysDown == Spec => []StaysDisconnected
  <1>1. IInv => StaysDisconnected
    <2> SUFFICES ASSUME IInv, overlap # "calls", asked = "disconnect", NoneSwitches
                 PROVE  \A c \in Clients : ~ Connected(c) /\ run[c] # "dialing"
      BY DEF StaysDisconnected
    <2>1. task = None
      BY DEF IInv, Obeyed, NoneSwitches, Switching
    <2>2. \A c \in Clients : ~ Connected(c)
      BY <2>1, GuiAssumption DEF IInv, Core, Held, GuiAssumption
    <2>3. \A c \in Clients : run[c] # "dialing"
      BY DEF IInv, Core, Reached, NoneSwitches, Switching
    <2> QED BY <2>2, <2>3
  <1> QED BY <1>1, Invariant, PTL

\* A client that is up is shown as connected, whatever the task of the one before it, or a
\* call that still waited for that one, wrote into the status, unless a connect or disconnect
\* has met one between its other awaits.
THEOREM UpIsShown == Spec => []ShownConnected
  <1>1. IInv => ShownConnected
    BY DEF IInv, Core, Shown, ShownConnected, Connected
  <1> QED BY <1>1, Invariant, PTL

\* Devices imported through the tunnel are never forgotten by the GUI, although `attached` is
\* cleared at three places and set at another one, unless a call of the tool has met another
\* call or the tool itself failed (gui.py: disconnect, _run_client, attach, detach).
THEOREM PortsRemembered == Spec => []PortsKnown
  <1>1. IInv => PortsKnown
    BY DEF IInv, Known, ToolsAsked, UsingTool, Tools, Remembered, PortsKnown
  <1> QED BY <1>1, Invariant, PTL
==============================================================================
