--------------------------- MODULE LocalServerProofs ---------------------------
(***************************************************************************)
(* Theorems about LocalServer, for any number of servers, requests,         *)
(* installations and spawned processes.                                     *)
(***************************************************************************)
EXTENDS LocalServer, TLAPS

-----------------------------------------------------------------------------
(* The inductive invariant.                                                 *)

\* A call is inside of the manager's start() exactly while its caller awaits that; a server
\* being started has its own manager started; only installers install.
CallsAwaited ==
    \A u \in Callers :
        /\ at[u] # "idle" <=> pc[u] \in {"starting usb", "retrying", "starting"}
        /\ pc[u] = "starting usb" => of[u] = srv[u]
        /\ pc[u] \in Installing => u \in Installers

\* A server is started or stopped by one request at a time, and not while it is held.
OneHand ==
    /\ local # None => local \in made
    /\ \A u \in Callers : srv[u] # None => srv[u] \in made /\ srv[u] # local
    /\ \A u, v \in Callers : srv[u] # None /\ srv[u] = srv[v] => u = v

\* A manager knows no process that has ended.
ProcsRun == \A s \in Servers : proc[s] # None => proc[s] \in children

\* Nobody starts the manager of a server that is gone, but for the excused ones.
CallsHeld ==
    \A u \in Callers : of[u] # None => of[u] = local \/ InHand(of[u]) \/ of[u] \in excused

\* On Linux a manager is available behind the rule, or has logged that there is none, or
\* the rule is being looked for.
Hardens ==
    \A s \in Servers :
        available[s] /\ ~ windows /\ firewall =>
            \/ rule \/ s \in warned
            \/ \E u \in Callers : of[u] = s /\ at[u] = "hardening"

\* The two parts of NothingForgotten.
OwnersHeld == \A s \in Servers : Owns(s) => local = s \/ InHand(s) \/ s \in excused

ChildrenKnown == children \subseteq {proc[s] : s \in Servers} \cup strays

\* How far each start and each stop has come with the listeners and with keepalive.
Listening ==
    \A u \in Callers :
        /\ pc[u] = "listening" => open[srv[u]] = {"tunnel"}
        /\ pc[u] = "listening for web" => open[srv[u]] = {"tunnel", "web"} /\ srv[u] \in keeps
        /\ pc[u] \in Stopping => srv[u] \notin keeps
        /\ pc[u] \in Stopping \ {"cleaning"} => "tunnel" \notin open[srv[u]]
        /\ pc[u] = "closing web" => "web" \notin open[srv[u]]

\* What each stop has done with the LAN device and with the manager.
Stopped ==
    \A u \in Callers :
        /\ pc[u] \in {"stopping lan", "closing web"} => tap # srv[u]
        /\ pc[u] = "closing web" =>
             \/ srv[u] \in excused
             \/ proc[srv[u]] \notin children /\ \A v \in Callers : of[v] # srv[u]

\* What is shown of the server that is held.
HeldListens == \A s \in Servers : local = s => open[s] = {"tunnel", "web"} /\ s \in keeps

\* An installation that is shown as busy is where it is shown to be.
InstallShown == install \in Installing => \E i \in Installers : pc[i] = install

\* The inductive invariant, beside the types.
ServerInv ==
    /\ CallsAwaited /\ OneHand /\ ProcsRun /\ ChildrenKnown /\ CallsHeld /\ Listening
    /\ Stopped /\ OwnersHeld /\ HeldListens /\ Hardens /\ InstallShown

-----------------------------------------------------------------------------
(* Types.                                                                   *)

\* None and the world outside are neither servers nor processes of theirs.
LEMMA NoneIsNoServer == None \notin Servers /\ "other" \notin Servers /\ None \notin Children
  BY UsbManagerAssumption DEF UsbManagerAssumption

\* A step inside of the manager's start() keeps the manager's types, and the call stays
\* what it is: inside of start(), on the same server.
LEMMA UsbTypes ==
    ASSUME UsbTypeOK, NEW u \in Callers, of[u] \in Servers, UsbStep(u)
    PROVE  /\ UsbTypeOK'
           /\ \A v \in Callers : at[v] # "idle" <=> at'[v] # "idle"
           /\ of' = of /\ windows' = windows /\ firewall' = firewall
  <1> USE DEF UsbTypeOK, Suspended, worldVars, ruleVars
  <1>1. CASE Looks(u)
    BY <1>1 DEF Looks, Then
  <1>2. CASE Daemonized(u)
    BY <1>2 DEF Daemonized
  <1>3. CASE Queried(u)
    BY <1>3 DEF Queried
  <1>4. CASE Elevated(u)
    BY <1>4 DEF Elevated
  <1>5. CASE Polled(u)
    BY <1>5 DEF Polled, Then
  <1>6. CASE Hardened(u)
    BY <1>6 DEF Hardened
  <1> QED BY <1>1, <1>2, <1>3, <1>4, <1>5, <1>6 DEF UsbStep

\* Processes that end leave the types as they are.
LEMMA DieTypes ==
    ASSUME UsbTypeOK, NEW gone, Die(gone)
    PROVE  /\ listener' \in Children \cup {None, "other"}
           /\ children' \subseteq Children
           /\ proc' \in [Servers -> Children \cup {None}]
           /\ strays' \subseteq Children
  BY DEF UsbTypeOK, Die

\* What is known of the calls of the API, and of what they have in hand.
CallTypes ==
    /\ pc \in [Callers -> Starting \cup Stopping \cup Installing \cup {"idle", "retrying"}]
    /\ srv \in [Callers -> Servers \cup {None}]
    /\ \A u \in Callers : srv[u] # None <=> pc[u] \in Starting \cup Stopping

\* A call goes on, ends, or takes a server in hand.
LEMMA CallsTyped ==
    ASSUME CallTypes, NEW u \in Callers
    PROVE  /\ Answers(u) => CallTypes'
           /\ \A to \in Starting \cup Stopping :
                 pc[u] \in Starting \cup Stopping /\ GoesOn(u, to) => CallTypes'
           /\ \A to \in Installing \cup {"retrying"} :
                 pc[u] \notin Starting \cup Stopping /\ GoesOn(u, to) => CallTypes'
           /\ \A to \in Starting \cup Stopping, s \in Servers :
                 pc' = [pc EXCEPT ![u] = to] /\ srv' = [srv EXCEPT ![u] = s] => CallTypes'
  <1> USE NoneIsNoServer DEF CallTypes, Starting, Stopping, Installing
  <1>1. Answers(u) => CallTypes'
    BY DEF Answers
  <1>2. ASSUME NEW to \in Starting \cup Stopping,
               pc[u] \in Starting \cup Stopping, GoesOn(u, to)
        PROVE  CallTypes'
    BY <1>2 DEF GoesOn
  <1>3. ASSUME NEW to \in Installing \cup {"retrying"},
               pc[u] \notin Starting \cup Stopping, GoesOn(u, to)
        PROVE  CallTypes'
    BY <1>3 DEF GoesOn
  <1>4. ASSUME NEW to \in Starting \cup Stopping, NEW s \in Servers,
               pc' = [pc EXCEPT ![u] = to], srv' = [srv EXCEPT ![u] = s]
        PROVE  CallTypes'
    BY <1>4
  <1> QED BY <1>1, <1>2, <1>3, <1>4

\* Every step keeps the types.
LEMMA TypeStep ==
    ASSUME TypeOK, [Next]_vars
    PROVE  TypeOK'
  <1> USE NoneIsNoServer DEF Starting, Stopping, Installing
  <1> DEFINE UsbTyped == UsbTypeOK /\ \A u \in Callers : of[u] # None <=> at[u] # "idle"
             Owned == /\ local \in Servers \cup {None}
                      /\ made \subseteq Servers
                      /\ open \in [Servers -> SUBSET {"tunnel", "web"}]
                      /\ keeps \subseteq Servers
                      /\ tap \in Servers \cup {None, "other"}
                      /\ excused \subseteq Servers
             Shown == install \in {"idle", "downloading", "installing", "starting", "done",
                                   "error"}
  <1>0. /\ TypeOK => UsbTyped /\ CallTypes /\ Owned /\ Shown
        /\ UsbTyped' /\ CallTypes' /\ Owned' /\ Shown' => TypeOK'
    BY ONLY DEF TypeOK, CallTypes
  <1> HIDE DEF UsbTyped, Owned, Shown
  <1>a. UNCHANGED usbVars => UsbTyped'
    BY <1>0 DEF UsbTyped, UsbTypeOK, usbVars, worldVars, ruleVars
  <1>b. UNCHANGED callVars => CallTypes'
    BY <1>0 DEF CallTypes, callVars
  <1>c. UNCHANGED <<local, serverVars, excused>> => Owned'
    BY <1>0 DEF Owned, serverVars
  <1>d. UNCHANGED install => Shown'
    BY <1>0 DEF Shown
  <1>e. ASSUME NEW u \in Callers, NEW s \in Servers, UsbStarts(u, s),
               UNCHANGED <<worldVars, listener, children, proc, available, ruleVars,
                           strays>>,
               installed' \in BOOLEAN
        PROVE  UsbTyped'
    BY <1>0, <1>e DEF UsbTyped, UsbTypeOK, UsbStarts, Suspended, worldVars, ruleVars
  <1>f. ASSUME NEW u \in Callers, Returned(u),
               UNCHANGED <<worldVars, installed, listener, children, proc, available, ruleVars,
                           strays>>
        PROVE  UsbTyped'
    BY <1>0, <1>f DEF UsbTyped, UsbTypeOK, Returned, Suspended, worldVars, ruleVars
  <1>g. /\ \A u \in Callers : pc[u] \in Starting \cup Stopping => srv[u] \in Servers
        /\ local # None => local \in Servers
        /\ installed \in BOOLEAN
    BY <1>0 DEF CallTypes, Owned, UsbTyped, UsbTypeOK
  <1>1. ASSUME NEW u \in Callers, UsbProceeds(u)
        PROVE  TypeOK'
    <2>1. of[u] \in Servers
      BY <1>0, <1>1 DEF UsbProceeds, UsbStep, Looks, Daemonized, Queried, Elevated, Polled,
                        Hardened, UsbTyped, UsbTypeOK
    <2>2. UsbTyped'
      BY <1>0, <1>1, <2>1, UsbTypes DEF UsbProceeds, UsbTyped
    <2> QED BY <1>0, <1>1, <1>b, <1>c, <1>d, <2>2 DEF UsbProceeds
  <1>2. ASSUME NEW u \in Callers, StartBegins(u)
        PROVE  TypeOK'
    <2> DEFINE s == CHOOSE s \in Servers : s \notin made
    <2>1. s \in Servers
      BY <1>0, <1>2 DEF StartBegins, Owned
    <2> HIDE DEF s
    <2>2. /\ made' = made \cup {s}
          /\ srv' = [srv EXCEPT ![u] = s]
          /\ pc' = [pc EXCEPT ![u] = "starting usb"]
          /\ UsbStarts(u, s)
          /\ UNCHANGED <<worldVars, installed, listener, children, proc, available,
                         ruleVars, strays, local, open, keeps, tap, install, excused>>
      BY <1>2 DEF StartBegins, s
    <2>3. CallTypes'
      BY <1>0, <2>1, <2>2, CallsTyped
    <2>4. Owned'
      BY <1>0, <2>1, <2>2 DEF Owned
    <2> QED BY <1>0, <1>d, <1>e, <1>g, <2>1, <2>2, <2>3, <2>4 DEF worldVars, ruleVars
  <1>3. ASSUME NEW u \in Callers, LanStarts(u)
        PROVE  TypeOK'
    <2>1. CallTypes'
      BY <1>0, <1>3, CallsTyped DEF LanStarts
    <2>2. tap' \in {tap, srv[u]} /\ srv[u] \in Servers
      BY <1>3, <1>g DEF LanStarts
    <2>3. Owned'
      BY <1>0, <1>3, <2>2 DEF LanStarts, Owned
    <2> QED BY <1>0, <1>3, <1>d, <1>f, <2>1, <2>3 DEF LanStarts
  <1>4. ASSUME NEW u \in Callers, Listens(u) \/ WebListens(u)
        PROVE  TypeOK'
    <2>1. CallTypes'
      BY <1>0, <1>4, CallsTyped DEF Listens, WebListens, StartFails
    <2>2. srv[u] \in Servers
      BY <1>4, <1>g DEF Listens, WebListens
    <2>3. /\ \/ open' = open
             \/ open' = [open EXCEPT ![srv[u]] = {"tunnel"}]
             \/ open' = [open EXCEPT ![srv[u]] = @ \cup {"web"}]
          /\ excused' = excused \/ excused' = excused \cup {srv[u]}
          /\ keeps' = keeps \/ keeps' = keeps \cup {srv[u]}
          /\ UNCHANGED <<local, made, tap>>
      BY <1>4 DEF Listens, WebListens, StartFails
    <2>4. open' \in [Servers -> SUBSET {"tunnel", "web"}]
      BY <1>0, <2>2, <2>3 DEF Owned
    <2>5. excused' \subseteq Servers /\ keeps' \subseteq Servers
      BY <1>0, <2>2, <2>3 DEF Owned
    <2>6. Owned'
      BY <1>0, <2>3, <2>4, <2>5 DEF Owned
    <2> QED BY <1>0, <1>4, <1>a, <1>d, <2>1, <2>6 DEF Listens, WebListens
  <1>5. ASSUME NEW u \in Callers, StartEnds(u)
        PROVE  TypeOK'
    <2>1. CallTypes'
      BY <1>0, <1>5, CallsTyped DEF StartEnds
    <2>2. Owned'
      BY <1>0, <1>5, <1>g DEF StartEnds, Owned, serverVars
    <2> QED BY <1>0, <1>5, <1>a, <1>d, <2>1, <2>2 DEF StartEnds
  <1>6. ASSUME NEW u \in Callers,
               StopBegins(u) \/ StopCloses(u) \/ LanStops(u) \/ StopEnds(u)
        PROVE  TypeOK'
    <2>1. CallTypes'
      BY <1>0, <1>6, <1>g, CallsTyped DEF StopBegins, StopCloses, LanStops, StopEnds
    <2>2. Owned'
      <3>1. CASE StopBegins(u)
        BY <1>0, <3>1 DEF StopBegins, Owned
      <3>2. CASE StopCloses(u)
        BY <1>0, <3>2 DEF StopCloses, Owned
      <3>3. CASE LanStops(u)
        BY <1>0, <3>3 DEF LanStops, Owned
      <3>4. CASE StopEnds(u)
        BY <1>0, <3>4 DEF StopEnds, Owned, serverVars
      <3> QED BY <1>6, <3>1, <3>2, <3>3, <3>4
    <2> QED BY <1>0, <1>6, <1>a, <1>d, <2>1, <2>2
            DEF StopBegins, StopCloses, LanStops, StopEnds
  <1>7. ASSUME NEW u \in Callers, WebCloses(u)
        PROVE  TypeOK'
    <2>1. CallTypes'
      BY <1>0, <1>7, CallsTyped DEF WebCloses
    <2>2. Owned'
      BY <1>0, <1>7, <1>g DEF WebCloses, Owned
    <2>3. UsbTyped'
      BY <1>0, <1>7, DieTypes DEF WebCloses, UsbStops, UsbTyped, UsbTypeOK, worldVars, ruleVars
    <2> QED BY <1>0, <1>7, <1>d, <2>1, <2>2, <2>3 DEF WebCloses
  <1>8. ASSUME NEW u \in Callers, RetryBegins(u) \/ RetryEnds(u)
        PROVE  TypeOK'
    <2>1. CallTypes'
      BY <1>0, <1>8, CallsTyped DEF RetryBegins, RetryEnds
    <2>2. UsbTyped'
      BY <1>8, <1>e, <1>f, <1>g DEF RetryBegins, RetryEnds, worldVars, ruleVars
    <2> QED BY <1>0, <1>8, <1>c, <1>d, <2>1, <2>2 DEF RetryBegins, RetryEnds
  <1>9. ASSUME NEW i \in Callers,
               InstallAsked(i) \/ InstallStarts(i) \/ Downloaded(i) \/ InstallEnds(i)
        PROVE  TypeOK'
    <2>1. CallTypes'
      BY <1>0, <1>9, CallsTyped
         DEF InstallAsked, InstallStarts, Downloaded, InstallEnds, InstallFails
    <2>2. UsbTyped'
      BY <1>9, <1>a, <1>f DEF InstallAsked, InstallStarts, Downloaded, InstallEnds
    <2>3. Shown'
      BY <1>0, <1>9
         DEF InstallAsked, InstallStarts, Downloaded, InstallEnds, InstallFails, Shown
    <2> QED BY <1>0, <1>9, <1>c, <2>1, <2>2, <2>3
            DEF InstallAsked, InstallStarts, Downloaded, InstallEnds
  <1>10. ASSUME NEW i \in Callers, Installed(i)
         PROVE  TypeOK'
    <2>1. CallTypes'
      BY <1>0, <1>10, CallsTyped DEF Installed, InstallFails
    <2>2. UsbTyped'
      <3>1. CASE \E s \in Servers : UsbStarts(i, s)
        BY <1>10, <1>e, <1>g, <3>1 DEF Installed, worldVars, ruleVars
      <3>2. CASE UNCHANGED <<at, of>>
        BY <1>0, <1>10, <1>g, <3>2 DEF Installed, UsbTyped, UsbTypeOK, worldVars, ruleVars
      <3> QED BY <1>10, <1>g, <3>1, <3>2 DEF Installed
    <2>3. Shown'
      BY <1>10 DEF Installed, InstallFails, Shown
    <2> QED BY <1>0, <1>10, <1>c, <2>1, <2>2, <2>3 DEF Installed
  <1>11. CASE (UsbipdListens \/ UsbipdEnds)
              /\ UNCHANGED <<local, callVars, serverVars, install, excused>>
    <2>1. UsbipdListens => UsbTyped'
      BY <1>0 DEF UsbipdListens, UsbTyped, UsbTypeOK, worldVars, ruleVars
    <2>2. UsbipdEnds => UsbTyped'
      BY <1>0, DieTypes DEF UsbipdEnds, UsbTyped, UsbTypeOK, worldVars, ruleVars
    <2> QED BY <1>0, <1>11, <1>b, <1>c, <1>d, <2>1, <2>2
  <1>12. CASE UNCHANGED vars
    BY <1>0, <1>12, <1>a, <1>b, <1>c, <1>d DEF vars
  <1> QED BY <1>1, <1>2, <1>3, <1>4, <1>5, <1>6, <1>7, <1>8, <1>9, <1>10, <1>11, <1>12
          DEF Next, Proceeds

\* Every reachable state is well typed; a caller has a server in hand exactly while it
\* starts or stops one, and is on a server's manager exactly while it is inside of start().
THEOREM TypeCorrect == Spec => []TypeOK
  <1>1. Init => TypeOK
    <2>1. Init => UsbTypeOK /\ \A u \in Callers : of[u] = None /\ at[u] = "idle"
      <3> SUFFICES ASSUME Init
                   PROVE  UsbTypeOK /\ \A u \in Callers : of[u] = None /\ at[u] = "idle"
        OBVIOUS
      <3>1. /\ windows \in BOOLEAN /\ mayStart \in BOOLEAN /\ installed \in BOOLEAN
            /\ firewall \in BOOLEAN /\ rule \in BOOLEAN /\ warned \subseteq Servers
            /\ available \in [Servers -> BOOLEAN]
        BY DEF Init, UsbInit
      <3>2. /\ listener \in Children \cup {None, "other"}
            /\ children \subseteq Children /\ strays \subseteq Children
            /\ proc \in [Servers -> Children \cup {None}]
        BY DEF Init, UsbInit
      <3>3. at = [u \in Callers |-> "idle"] /\ of = [u \in Callers |-> None]
        BY DEF Init, UsbInit
      <3>4. /\ at \in [Callers -> Suspended \cup {"idle", "done"}]
            /\ of \in [Callers -> Servers \cup {None}]
        BY ONLY <3>3
      <3> QED BY <3>1, <3>2, <3>3, <3>4 DEF UsbTypeOK
    <2> QED BY <2>1 DEF Init, TypeOK, Starting, Stopping
  <1> QED BY <1>1, TypeStep, PTL DEF Spec

-----------------------------------------------------------------------------
(* The steps of the calls keep who awaits what, and who has what in hand.    *)

\* The types that the proofs below keep needing.
LEMMA Shapes ==
    ASSUME TypeOK
    PROVE  /\ at \in [Callers -> Suspended \cup {"idle", "done"}]
           /\ of \in [Callers -> Servers \cup {None}]
           /\ \A u \in Callers : of[u] # None <=> at[u] # "idle"
           /\ CallTypes
           /\ proc \in [Servers -> Children \cup {None}]
           /\ open \in [Servers -> SUBSET {"tunnel", "web"}]
           /\ available \in [Servers -> BOOLEAN]
           /\ \A u \in Callers : pc[u] \in Starting \cup Stopping => srv[u] \in Servers
           /\ local # None => local \in Servers
  BY DEF TypeOK, UsbTypeOK, CallTypes

\* A step inside of start() leaves the call inside of it.
LEMMA UsbStepInside ==
    ASSUME TypeOK, NEW u \in Callers, UsbStep(u)
    PROVE  /\ of[u] \in Servers /\ at[u] # "idle"
           /\ of' = of
           /\ \A v \in Callers : at'[v] # "idle" <=> at[v] # "idle"
  <1>1. of[u] \in Servers /\ at[u] # "idle"
    BY Shapes DEF UsbStep, Looks, Daemonized, Queried, Elevated, Polled, Hardened
  <1> QED BY <1>1, UsbTypes DEF TypeOK

\* Every step keeps who awaits what: a request never finds its own call begun already.
LEMMA AwaitedStep ==
    ASSUME TypeOK, CallsAwaited, [Next]_vars
    PROVE  CallsAwaited'
  <1> USE Shapes DEF CallsAwaited, CallTypes, GoesOn, Answers, Installing
  <1>1. ASSUME NEW u \in Callers, UsbProceeds(u)
        PROVE  CallsAwaited'
    BY <1>1, UsbStepInside DEF UsbProceeds, callVars
  <1>2. ASSUME NEW u \in Callers, StartBegins(u)
        PROVE  CallsAwaited'
    <2> DEFINE s == CHOOSE s \in Servers : s \notin made
    <2> HIDE DEF s
    <2>0. /\ srv' = [srv EXCEPT ![u] = s] /\ of' = [of EXCEPT ![u] = s]
          /\ at' = [at EXCEPT ![u] = "looking"] /\ pc' = [pc EXCEPT ![u] = "starting usb"]
      BY <1>2 DEF StartBegins, UsbStarts, s
    <2>1. /\ srv'[u] = of'[u] /\ at'[u] = "looking" /\ pc'[u] = "starting usb"
          /\ \A v \in Callers : v # u => /\ pc'[v] = pc[v] /\ srv'[v] = srv[v]
                                       /\ at'[v] = at[v] /\ of'[v] = of[v]
      BY <2>0
    <2> QED BY ONLY <2>1, CallsAwaited DEF CallsAwaited, Installing
  <1>3. ASSUME NEW u \in Callers, LanStarts(u) \/ RetryEnds(u) \/ InstallEnds(u)
        PROVE  CallsAwaited'
    <2>1. /\ at'[u] = "idle"
          /\ pc'[u] \notin {"starting usb", "retrying", "starting"} \cup Installing
          /\ \A v \in Callers : v # u => /\ pc'[v] = pc[v] /\ srv'[v] = srv[v]
                                       /\ at'[v] = at[v] /\ of'[v] = of[v]
      <3>1. CASE LanStarts(u)
        BY <3>1 DEF LanStarts, Returned
      <3>2. CASE RetryEnds(u)
        BY <3>2 DEF RetryEnds, Returned
      <3>3. CASE InstallEnds(u)
        BY <3>3 DEF InstallEnds, Returned
      <3> QED BY <1>3, <3>1, <3>2, <3>3
    <2> QED BY ONLY <2>1, CallsAwaited DEF CallsAwaited
  <1>4. ASSUME NEW u \in Callers,
               \/ Listens(u) \/ WebListens(u) \/ StartEnds(u)
               \/ StopBegins(u) \/ StopCloses(u) \/ LanStops(u) \/ WebCloses(u) \/ StopEnds(u)
        PROVE  CallsAwaited'
    <2>1. /\ UNCHANGED <<at, of>>
          /\ at[u] = "idle"
          /\ pc'[u] \notin {"starting usb", "retrying", "starting"} \cup Installing
          /\ \A v \in Callers : v # u => pc'[v] = pc[v] /\ srv'[v] = srv[v]
      BY <1>4 DEF Listens, WebListens, StartEnds, StopBegins, StopCloses, LanStops, WebCloses,
                  StopEnds, StartFails, usbVars
    <2> QED BY <2>1
  <1>5. ASSUME NEW u \in Callers, RetryBegins(u)
        PROVE  CallsAwaited'
    <2>1. /\ at'[u] = "looking" /\ pc'[u] = "retrying"
          /\ \A v \in Callers : v # u => /\ pc'[v] = pc[v] /\ srv'[v] = srv[v]
                                       /\ at'[v] = at[v] /\ of'[v] = of[v]
      BY <1>5 DEF RetryBegins, UsbStarts
    <2> QED BY ONLY <2>1, CallsAwaited DEF CallsAwaited, Installing
  <1>6. ASSUME NEW i \in Callers, InstallAsked(i) \/ InstallStarts(i) \/ Downloaded(i)
        PROVE  CallsAwaited'
    <2>1. /\ UNCHANGED <<at, of>>
          /\ i \in Installers /\ pc[i] \in {"idle", "created", "downloading"}
          /\ pc'[i] \in {"idle", "created", "downloading", "installing"}
          /\ \A v \in Callers : v # i => pc'[v] = pc[v] /\ srv'[v] = srv[v]
      BY <1>6 DEF InstallAsked, InstallStarts, Downloaded, InstallFails, usbVars
    <2> QED BY ONLY <2>1, CallsAwaited DEF CallsAwaited, Installing
  <1>7. ASSUME NEW i \in Callers, Installed(i)
        PROVE  CallsAwaited'
    <2>1. /\ i \in Installers /\ at[i] = "idle"
          /\ \/ pc'[i] = "starting" /\ at'[i] = "looking"
             \/ pc'[i] = "idle" /\ at'[i] = at[i]
          /\ \A v \in Callers : v # i => /\ pc'[v] = pc[v] /\ srv'[v] = srv[v]
                                       /\ at'[v] = at[v] /\ of'[v] = of[v]
      BY <1>7 DEF Installed, InstallFails, UsbStarts
    <2> QED BY ONLY <2>1, CallsAwaited DEF CallsAwaited, Installing
  <1>8. CASE (UsbipdListens \/ UsbipdEnds)
             /\ UNCHANGED <<local, callVars, serverVars, install, excused>>
    BY <1>8 DEF UsbipdListens, UsbipdEnds, callVars
  <1>9. CASE UNCHANGED vars
    BY <1>9 DEF vars, callVars, usbVars
  <1> QED BY <1>1, <1>2, <1>3, <1>4, <1>5, <1>6, <1>7, <1>8, <1>9 DEF Next, Proceeds

\* Every step keeps each server in one hand: a new one is fresh, and the held one is let go of
\* in the step that takes it in hand to stop it.
LEMMA HandStep ==
    ASSUME TypeOK, OneHand, [Next]_vars
    PROVE  OneHand'
  <1> USE NoneIsNoServer, Shapes DEF OneHand, CallTypes, GoesOn, Answers, Starting, Stopping
  <1>1. ASSUME NEW u \in Callers, StartBegins(u)
        PROVE  OneHand'
    <2> DEFINE s == CHOOSE s \in Servers : s \notin made
    <2>1. s \in Servers /\ s \notin made
      BY <1>1 DEF StartBegins, TypeOK
    <2> HIDE DEF s
    <2>2. /\ made' = made \cup {s} /\ local' = local
          /\ srv' = [srv EXCEPT ![u] = s]
      BY <1>1 DEF StartBegins, s
    <2> QED BY <2>1, <2>2
  <1>2. ASSUME NEW u \in Callers, StopBegins(u)
        PROVE  OneHand'
    BY <1>2 DEF StopBegins
  <1>3. ASSUME NEW u \in Callers, StartEnds(u)
        PROVE  OneHand'
    BY <1>3 DEF StartEnds, serverVars
  <1>4. ASSUME UNCHANGED <<local, made>>,
               srv' = srv \/ \E u \in Callers : Answers(u)
        PROVE  OneHand'
    BY <1>4
  <1>5. ASSUME NEW u \in Callers,
               \/ UsbProceeds(u) \/ LanStarts(u) \/ Listens(u) \/ WebListens(u)
               \/ StopCloses(u) \/ LanStops(u) \/ WebCloses(u) \/ StopEnds(u)
               \/ RetryBegins(u) \/ RetryEnds(u)
               \/ InstallAsked(u) \/ InstallStarts(u) \/ Downloaded(u) \/ Installed(u)
               \/ InstallEnds(u)
        PROVE  UNCHANGED <<local, made>> /\ (srv' = srv \/ \E v \in Callers : Answers(v))
    BY <1>5 DEF UsbProceeds, LanStarts, Listens, WebListens, StopCloses, LanStops, WebCloses,
                StopEnds, RetryBegins, RetryEnds, InstallAsked, InstallStarts, Downloaded,
                Installed, InstallEnds, StartFails, InstallFails, serverVars, callVars
  <1>6. CASE (UsbipdListens \/ UsbipdEnds)
             /\ UNCHANGED <<local, callVars, serverVars, install, excused>>
    BY <1>4, <1>6 DEF callVars, serverVars
  <1>7. CASE UNCHANGED vars
    BY <1>4, <1>7 DEF vars, callVars, serverVars
  <1> QED BY <1>1, <1>2, <1>3, <1>4, <1>5, <1>6, <1>7 DEF Next, Proceeds

-----------------------------------------------------------------------------
(* The spawned processes.                                                   *)

\* Processes that end: the managers know the others still.
LEMMA DieKnown ==
    ASSUME TypeOK, ProcsRun, ChildrenKnown, NEW gone, Die(gone)
    PROVE  /\ ProcsRun' /\ ChildrenKnown'
           /\ \A s \in Servers : proc'[s] \in children' => proc[s] \in children
           /\ \A s \in Servers : proc[s] \in gone => proc'[s] = None
  BY Shapes, NoneIsNoServer DEF Die, ProcsRun, ChildrenKnown, TypeOK, UsbTypeOK

\* Who spawns a process is inside of start().
LEMMA SpawnKnown ==
    ASSUME TypeOK, ProcsRun, ChildrenKnown, NEW u \in Callers, Daemonized(u)
    PROVE  /\ ProcsRun' /\ ChildrenKnown'
           /\ \A s \in Servers : proc'[s] \in children' => proc[s] \in children \/ of[u] = s
           /\ of' = of
  <1> USE NoneIsNoServer, Shapes DEF ProcsRun, ChildrenKnown
  <1>1. CASE UNCHANGED <<children, proc, strays, of>>
    BY <1>1
  <1>2. CASE children # Children /\ ~ UNCHANGED <<children, proc, strays, of>>
    <2> DEFINE c == CHOOSE c \in Children : c \notin children
    <2>1. c \in Children /\ c \notin children
      BY <1>2 DEF TypeOK, UsbTypeOK
    <2> HIDE DEF c
    <2>2. /\ children' = children \cup {c} /\ proc' = [proc EXCEPT ![of[u]] = c]
          /\ strays' = strays \cup ({proc[of[u]]} \ {None}) /\ of' = of
      BY <1>2 DEF Daemonized, c
    <2>3. of[u] \in Servers
      BY DEF Daemonized
    <2>4. proc'[of[u]] = c /\ \A s \in Servers : s # of[u] => proc'[s] = proc[s]
      BY <2>2, <2>3
    <2>5. ProcsRun'
      BY <2>1, <2>2, <2>3, <2>4
    <2>6. ASSUME NEW k \in children'
          PROVE  k \in strays' \/ \E s \in Servers : k = proc'[s]
      <3>1. CASE k = c
        BY <2>3, <2>4, <3>1
      <3>2. CASE k \in children
        <4>1. k \in strays \/ \E s \in Servers : k = proc[s]
          BY <3>2
        <4>2. k # None
          BY <3>2 DEF TypeOK, UsbTypeOK
        <4> QED BY <2>2, <2>4, <4>1, <4>2
      <3> QED BY <2>2, <3>1, <3>2
    <2>7. ChildrenKnown'
      BY <2>6
    <2>8. ASSUME NEW s \in Servers, proc'[s] \in children', s # of[u]
          PROVE  proc[s] \in children
      BY <2>1, <2>2, <2>4, <2>8
    <2> QED BY <2>2, <2>5, <2>7, <2>8
  <1> QED BY <1>1, <1>2 DEF Daemonized

\* In every step: the managers know the processes that run, and a server gets one only from
\* a call of its manager's start().
LEMMA ChildrenStep ==
    ASSUME TypeOK, ProcsRun, ChildrenKnown, [Next]_vars
    PROVE  /\ ProcsRun' /\ ChildrenKnown'
           /\ \A s \in Servers : proc'[s] \in children' =>
                 \/ proc[s] \in children
                 \/ /\ \E u \in Callers : of[u] = s
                    /\ UNCHANGED <<of, local, callVars, serverVars, excused>>
  <1>1. UNCHANGED <<children, proc, strays>> =>
           /\ ProcsRun' /\ ChildrenKnown'
           /\ \A s \in Servers : proc'[s] \in children' => proc[s] \in children
    BY DEF ProcsRun, ChildrenKnown
  <1>2. ASSUME NEW u \in Callers, UsbProceeds(u)
        PROVE  /\ ProcsRun' /\ ChildrenKnown'
               /\ \A s \in Servers : proc'[s] \in children' =>
                     \/ proc[s] \in children
                     \/ /\ \E v \in Callers : of[v] = s
                        /\ UNCHANGED <<of, local, callVars, serverVars, excused>>
    <2>1. CASE Daemonized(u)
      BY <1>2, <2>1, SpawnKnown DEF UsbProceeds
    <2>2. CASE ~ Daemonized(u)
      BY <1>1, <1>2, <2>2
         DEF UsbProceeds, UsbStep, Looks, Queried, Elevated, Polled, Hardened
    <2> QED BY <2>1, <2>2
  <1>3. ASSUME NEW u \in Callers,
               \/ StartBegins(u) \/ LanStarts(u) \/ Listens(u) \/ WebListens(u)
               \/ StartEnds(u) \/ StopBegins(u) \/ StopCloses(u) \/ LanStops(u)
               \/ StopEnds(u) \/ RetryBegins(u) \/ RetryEnds(u)
               \/ InstallAsked(u) \/ InstallStarts(u) \/ Downloaded(u) \/ Installed(u)
               \/ InstallEnds(u)
        PROVE  UNCHANGED <<children, proc, strays>>
    BY <1>3 DEF StartBegins, LanStarts, Listens, WebListens, StartEnds, StopBegins,
                StopCloses, LanStops, StopEnds, RetryBegins, RetryEnds, InstallAsked,
                InstallStarts, Downloaded, Installed, InstallEnds, usbVars
  <1>4. ASSUME NEW u \in Callers, WebCloses(u)
        PROVE  \E gone : Die(gone)
    BY <1>4 DEF WebCloses, UsbStops
  <1>5. CASE UsbipdListens \/ UsbipdEnds
    BY <1>1, <1>5, DieKnown DEF UsbipdListens, UsbipdEnds
  <1>6. CASE UNCHANGED vars
    BY <1>1, <1>6 DEF vars, usbVars
  <1> QED BY <1>1, <1>2, <1>3, <1>4, <1>5, <1>6, DieKnown DEF Next, Proceeds

-----------------------------------------------------------------------------
(* How far the starts and the stops have come.                              *)

\* What the steps change of the calls on managers: a call begins on the server that is held
\* or on one that nobody had before, and ends.
LEMMA CallsStep ==
    ASSUME TypeOK, OneHand, [Next]_vars, NEW v \in Callers, of'[v] # of[v], of'[v] # None
    PROVE  \/ /\ of'[v] = local /\ local' = local /\ local # None
              /\ UNCHANGED <<srv, excused>>
           \/ /\ of'[v] = srv'[v] /\ of'[v] \notin made
  <1> USE Shapes, NoneIsNoServer
  <1>1. ASSUME NEW u \in Callers, StartBegins(u)
        PROVE  of'[v] = srv'[v] /\ of'[v] \notin made
    <2> DEFINE s == CHOOSE s \in Servers : s \notin made
    <2>1. s \in Servers /\ s \notin made
      BY <1>1 DEF StartBegins, TypeOK
    <2> HIDE DEF s
    <2>2. srv' = [srv EXCEPT ![u] = s] /\ of' = [of EXCEPT ![u] = s]
      BY <1>1 DEF StartBegins, UsbStarts, s
    <2> QED BY <2>1, <2>2 DEF CallTypes
  <1>2. ASSUME NEW u \in Callers, RetryBegins(u) \/ Installed(u)
        PROVE  of'[v] = local /\ local' = local /\ local # None /\ UNCHANGED <<srv, excused>>
    <2>1. CASE RetryBegins(u)
      BY <2>1 DEF RetryBegins, UsbStarts, GoesOn
    <2>2. CASE Installed(u)
      BY <2>2 DEF Installed, UsbStarts, GoesOn
    <2> QED BY <1>2, <2>1, <2>2
  <1>3. ASSUME NEW u \in Callers, LanStarts(u) \/ RetryEnds(u) \/ InstallEnds(u)
        PROVE  FALSE
    BY <1>3 DEF LanStarts, RetryEnds, InstallEnds, Returned
  <1>4. ASSUME NEW u \in Callers,
               \/ UsbProceeds(u) \/ Listens(u) \/ WebListens(u) \/ StartEnds(u)
               \/ StopBegins(u) \/ StopCloses(u) \/ LanStops(u) \/ WebCloses(u)
               \/ StopEnds(u) \/ InstallAsked(u) \/ InstallStarts(u) \/ Downloaded(u)
        PROVE  FALSE
    BY <1>4, UsbStepInside
       DEF UsbProceeds, Listens, WebListens, StartEnds, StopBegins, StopCloses, LanStops,
           WebCloses, StopEnds, InstallAsked, InstallStarts, Downloaded, usbVars
  <1>5. CASE UsbipdListens \/ UsbipdEnds
    BY <1>5 DEF UsbipdListens, UsbipdEnds
  <1>6. CASE UNCHANGED vars
    BY <1>6 DEF vars, usbVars
  <1> QED BY <1>1, <1>2, <1>3, <1>4, <1>5, <1>6 DEF Next, Proceeds

\* What becomes of a server in hand or held: it stays so, passes on from one to the other, is
\* excused, or is the one that has been stopped.
LEMMA HandsStep ==
    ASSUME TypeOK, OneHand, [Next]_vars, NEW s \in Servers, local = s \/ InHand(s)
    PROVE  \/ local' = s \/ InHand(s)' \/ s \in excused'
           \/ \E u \in Callers : StopEnds(u) /\ srv[u] = s
  <1> USE Shapes, NoneIsNoServer DEF InHand, CallTypes
  <1>1. ASSUME NEW u \in Callers, StartBegins(u) \/ StopBegins(u)
        PROVE  local' = s \/ InHand(s)'
    <2>0. srv[u] = None
      BY <1>1 DEF StartBegins, StopBegins, Starting, Stopping
    <2>1. CASE StartBegins(u)
      <3>1. local' = local /\ \A v \in Callers : v # u => srv'[v] = srv[v]
        BY <2>1 DEF StartBegins
      <3> QED BY <2>0, <3>1
    <2>2. CASE StopBegins(u)
      BY <2>0, <2>2 DEF StopBegins
    <2> QED BY <1>1, <2>1, <2>2
  <1>2. ASSUME NEW u \in Callers, StartEnds(u)
        PROVE  local' = s \/ InHand(s)' \/ s \in excused'
    BY <1>2 DEF StartEnds, Answers
  <1>3. ASSUME NEW u \in Callers, StopEnds(u)
        PROVE  local' = s \/ InHand(s)' \/ srv[u] = s
    BY <1>3 DEF StopEnds, Answers
  <1>4. ASSUME NEW u \in Callers, Listens(u) \/ WebListens(u)
        PROVE  local' = s \/ InHand(s)' \/ s \in excused'
    BY <1>4 DEF Listens, WebListens, StartFails, Answers, GoesOn
  <1>5. ASSUME NEW u \in Callers,
               RetryEnds(u) \/ Downloaded(u) \/ Installed(u) \/ InstallEnds(u)
        PROVE  local' = s \/ InHand(s)'
    <2>1. srv[u] = None /\ local' = local
      BY <1>5 DEF RetryEnds, Downloaded, Installed, InstallEnds, Starting, Stopping
    <2>2. \A v \in Callers : v # u => srv'[v] = srv[v]
      BY <1>5 DEF RetryEnds, Downloaded, Installed, InstallEnds, InstallFails, Answers, GoesOn
    <2> QED BY <2>1, <2>2
  <1>6. ASSUME NEW u \in Callers,
               \/ UsbProceeds(u) \/ LanStarts(u) \/ StopCloses(u) \/ LanStops(u)
               \/ WebCloses(u) \/ RetryBegins(u) \/ InstallAsked(u) \/ InstallStarts(u)
        PROVE  UNCHANGED <<local, srv>>
    BY <1>6 DEF UsbProceeds, LanStarts, StopCloses, LanStops, WebCloses, RetryBegins,
                InstallAsked, InstallStarts, GoesOn, callVars
  <1>7. CASE UNCHANGED <<local, callVars>>
    BY <1>7 DEF callVars
  <1> QED BY <1>1, <1>2, <1>3, <1>4, <1>5, <1>6, <1>7 DEF Next, Proceeds, vars

\* A step of one caller leaves another caller's server alone, and the one that is held.
LEMMA OthersAlone ==
    ASSUME TypeOK, OneHand, NEW u \in Callers, Proceeds(u) \/ StartBegins(u) \/ StopBegins(u)
                                                \/ RetryBegins(u) \/ InstallAsked(u)
    PROVE  \A v \in Callers : v # u =>
              /\ pc'[v] = pc[v] /\ srv'[v] = srv[v]
              /\ pc[v] \in Starting \cup Stopping =>
                    /\ open'[srv[v]] = open[srv[v]]
                    /\ srv[v] \in keeps' <=> srv[v] \in keeps
                    /\ tap # srv[v] => tap' # srv[v]
  <1> USE Shapes, NoneIsNoServer DEF CallTypes, OneHand, GoesOn, Answers, callVars, serverVars
  <1>0. \A v \in Callers : v # u /\ pc[v] \in Starting \cup Stopping =>
            srv[v] \in Servers /\ srv[v] # srv[u] /\ srv[v] # local
    OBVIOUS
  <1>1. CASE StartBegins(u)
    <2>1. \A v \in Callers : v # u => pc'[v] = pc[v] /\ srv'[v] = srv[v]
      BY <1>1 DEF StartBegins
    <2>2. UNCHANGED <<open, keeps, tap>>
      BY <1>1 DEF StartBegins
    <2> QED BY <2>1, <2>2
  <1>2. CASE LanStarts(u)
    <2>1. \A v \in Callers : v # u => pc'[v] = pc[v] /\ srv'[v] = srv[v]
      BY <1>2 DEF LanStarts
    <2>2. UNCHANGED <<open, keeps>> /\ tap' \in {tap, srv[u]}
      BY <1>2 DEF LanStarts
    <2> QED BY <1>0, <2>1, <2>2
  <1>3. CASE Listens(u) \/ WebListens(u)
    <2>1. \A v \in Callers : v # u => pc'[v] = pc[v] /\ srv'[v] = srv[v]
      BY <1>3 DEF Listens, WebListens, StartFails
    <2>2. /\ UNCHANGED tap
          /\ \A s \in Servers : s # srv[u] => open'[s] = open[s] /\ (s \in keeps' <=> s \in keeps)
      BY <1>3 DEF Listens, WebListens
    <2> QED BY <1>0, <2>1, <2>2
  <1>4. CASE StopCloses(u) \/ WebCloses(u) \/ StopBegins(u)
    <2>1. \A v \in Callers : v # u => pc'[v] = pc[v] /\ srv'[v] = srv[v]
      BY <1>4 DEF StopCloses, WebCloses, StopBegins
    <2>2. /\ UNCHANGED tap
          /\ \A s \in Servers : s # srv[u] /\ s # local =>
                open'[s] = open[s] /\ (s \in keeps' <=> s \in keeps)
      BY <1>4 DEF StopCloses, WebCloses, StopBegins
    <2> QED BY <1>0, <2>1, <2>2
  <1>5. CASE LanStops(u)
    BY <1>5 DEF LanStops
  <1>6. CASE \/ UsbProceeds(u) \/ StartEnds(u) \/ StopEnds(u) \/ RetryBegins(u)
             \/ RetryEnds(u) \/ InstallAsked(u) \/ InstallStarts(u) \/ Downloaded(u)
             \/ Installed(u) \/ InstallEnds(u)
    <2>1. UNCHANGED <<open, keeps, tap>>
      BY <1>6 DEF UsbProceeds, StartEnds, StopEnds, RetryBegins, RetryEnds, InstallAsked,
                  InstallStarts, Downloaded, Installed, InstallEnds
    <2>2. \A v \in Callers : v # u => pc'[v] = pc[v] /\ srv'[v] = srv[v]
      BY <1>6 DEF UsbProceeds, StartEnds, StopEnds, RetryBegins, RetryEnds, InstallAsked,
                  InstallStarts, Downloaded, Installed, InstallEnds, InstallFails
    <2> QED BY <2>1, <2>2
  <1> QED BY <1>1, <1>2, <1>3, <1>4, <1>5, <1>6 DEF Proceeds

\* Every step keeps the listeners and keepalive where each start and stop expects them.
LEMMA ListeningStep ==
    ASSUME TypeOK, OneHand, Listening, [Next]_vars
    PROVE  Listening'
  <1> DEFINE Of(u) ==
        /\ pc[u] = "listening" => open[srv[u]] = {"tunnel"}
        /\ pc[u] = "listening for web" => open[srv[u]] = {"tunnel", "web"} /\ srv[u] \in keeps
        /\ pc[u] \in Stopping => srv[u] \notin keeps
        /\ pc[u] \in Stopping \ {"cleaning"} => "tunnel" \notin open[srv[u]]
        /\ pc[u] = "closing web" => "web" \notin open[srv[u]]
  <1>1. Listening' = (\A u \in Callers : Of(u)') /\ \A u \in Callers : Of(u)
    BY DEF Listening
  <1>2. ASSUME NEW u \in Callers, Proceeds(u) \/ StartBegins(u) \/ StopBegins(u)
                                   \/ RetryBegins(u) \/ InstallAsked(u)
        PROVE  Of(u)'
    <2> USE Shapes, NoneIsNoServer DEF CallTypes, GoesOn, Answers, Starting, Stopping
    <2>0. Of(u)
      BY <1>1
    <2>1. CASE StartBegins(u)
      <3>1. pc'[u] = "starting usb"
        BY <2>1 DEF StartBegins
      <3> QED BY <3>1
    <2>2. CASE Listens(u)
      <3>1. \/ pc'[u] = "listening" /\ srv'[u] = srv[u] /\ open'[srv[u]] = {"tunnel"}
            \/ pc'[u] = "idle"
        BY <2>2 DEF Listens, StartFails
      <3> QED BY <3>1
    <2>3. CASE WebListens(u)
      <3>1. \/ pc'[u] = "listening for web" /\ srv'[u] = srv[u] /\ srv[u] \in keeps'
               /\ open'[srv[u]] = open[srv[u]] \cup {"web"}
            \/ pc'[u] = "idle"
        BY <2>3 DEF WebListens, StartFails
      <3>2. open[srv[u]] = {"tunnel"}
        BY <2>0, <2>3 DEF WebListens
      <3> QED BY <3>1, <3>2
    <2>4. CASE StopBegins(u)
      BY <2>4 DEF StopBegins
    <2>5. CASE StopCloses(u)
      BY <2>0, <2>5 DEF StopCloses
    <2>6. CASE LanStops(u)
      BY <2>0, <2>6 DEF LanStops
    <2>7. CASE WebCloses(u)
      <3>1. /\ pc'[u] = "closing web" /\ srv'[u] = srv[u] /\ keeps' = keeps
            /\ open'[srv[u]] = open[srv[u]] \ {"web"} /\ pc[u] = "stopping lan"
        BY <2>7 DEF WebCloses
      <3> QED BY <2>0, <3>1
    <2>8. CASE UsbProceeds(u)
      <3>1. UNCHANGED <<pc, srv, open, keeps>>
        BY <2>8 DEF UsbProceeds, callVars, serverVars
      <3> QED BY <2>0, <3>1
    <2>9. CASE \/ LanStarts(u) \/ StartEnds(u) \/ StopEnds(u) \/ RetryBegins(u) \/ RetryEnds(u)
               \/ InstallAsked(u) \/ InstallStarts(u) \/ Downloaded(u) \/ Installed(u)
               \/ InstallEnds(u)
      <3>1. pc'[u] \notin {"listening", "listening for web"} \cup Stopping
        BY <2>9 DEF LanStarts, StartEnds, StopEnds, RetryBegins, RetryEnds, InstallAsked,
                    InstallStarts, Downloaded, Installed, InstallEnds, InstallFails
      <3> QED BY <3>1
    <2> QED BY <1>2, <2>1, <2>2, <2>3, <2>4, <2>5, <2>6, <2>7, <2>8, <2>9 DEF Proceeds
  <1>3. ASSUME NEW u \in Callers, NEW v \in Callers, v # u,
               Proceeds(u) \/ StartBegins(u) \/ StopBegins(u) \/ RetryBegins(u)
                 \/ InstallAsked(u)
        PROVE  Of(v)'
    <2>1. pc'[v] = pc[v] /\ srv'[v] = srv[v]
      BY <1>3, OthersAlone
    <2>2. pc[v] \in Starting \cup Stopping =>
            open'[srv[v]] = open[srv[v]] /\ (srv[v] \in keeps' <=> srv[v] \in keeps)
      BY <1>3, OthersAlone
    <2> QED BY <1>1, <2>1, <2>2 DEF Starting, Stopping
  <1>4. ASSUME UNCHANGED <<callVars, serverVars>>
        PROVE  \A u \in Callers : Of(u)'
    BY <1>1, <1>4 DEF callVars, serverVars
  <1> QED BY <1>1, <1>2, <1>3, <1>4 DEF Next, vars

-----------------------------------------------------------------------------
(* Nothing is forgotten.                                                    *)

\* Who is excused stays so.
LEMMA ExcusedGrows ==
    ASSUME [Next]_vars
    PROVE  excused \subseteq excused'
  <1>1. ASSUME NEW u \in Callers,
               Listens(u) \/ WebListens(u) \/ StartEnds(u) \/ WebCloses(u)
        PROVE  excused \subseteq excused'
    BY <1>1 DEF Listens, WebListens, StartEnds, WebCloses, StartFails
  <1>2. ASSUME NEW u \in Callers,
               \/ UsbProceeds(u) \/ LanStarts(u) \/ StopCloses(u) \/ LanStops(u) \/ StopEnds(u)
               \/ RetryEnds(u) \/ InstallStarts(u) \/ Downloaded(u) \/ Installed(u)
               \/ InstallEnds(u) \/ StartBegins(u) \/ StopBegins(u) \/ RetryBegins(u)
               \/ InstallAsked(u)
        PROVE  UNCHANGED excused
    BY <1>2 DEF UsbProceeds, LanStarts, StopCloses, LanStops, StopEnds, RetryEnds,
                InstallStarts, Downloaded, Installed, InstallEnds, StartBegins, StopBegins,
                RetryBegins, InstallAsked
  <1> QED BY <1>1, <1>2 DEF Next, Proceeds, vars

\* Every step keeps what the stops have done: nobody gives a server that is being stopped the
\* LAN device or a process again, but for the calls that WebCloses excuses it for.
LEMMA StoppedStep ==
    ASSUME TypeOK, OneHand, ProcsRun, ChildrenKnown, Stopped, [Next]_vars
    PROVE  Stopped'
  <1> USE Shapes, NoneIsNoServer DEF CallTypes, GoesOn, Answers, Starting, Stopping
  <1>1. ASSUME NEW w \in Callers, pc'[w] \in {"stopping lan", "closing web"}
        PROVE  tap' # srv'[w]
    <2>1. ASSUME NEW u \in Callers, u # w,
                 Proceeds(u) \/ StartBegins(u) \/ StopBegins(u) \/ RetryBegins(u)
                   \/ InstallAsked(u)
          PROVE  tap' # srv'[w]
      <3>1. /\ pc'[w] = pc[w] /\ srv'[w] = srv[w]
            /\ pc[w] \in Starting \cup Stopping /\ tap # srv[w] => tap' # srv[w]
        BY ONLY TypeOK, OneHand, <1>1, <2>1, OthersAlone
      <3>2. tap # srv[w]
        BY <1>1, <3>1 DEF Stopped
      <3> QED BY <1>1, <3>1, <3>2
    <2>2. CASE LanStops(w)
      <3>1. tap' = None /\ srv'[w] = srv[w] /\ srv[w] \in Servers
        BY <2>2 DEF LanStops
      <3> QED BY <3>1
    <2>3. CASE WebCloses(w)
      BY <2>3 DEF WebCloses, Stopped
    <2>4. CASE UsbProceeds(w)
      BY <1>1, <2>4 DEF UsbProceeds, callVars, serverVars, Stopped
    <2>5. CASE \/ LanStarts(w) \/ Listens(w) \/ WebListens(w) \/ StartEnds(w) \/ StopCloses(w)
               \/ StopEnds(w) \/ RetryEnds(w) \/ InstallStarts(w) \/ Downloaded(w)
               \/ Installed(w) \/ InstallEnds(w) \/ StartBegins(w) \/ StopBegins(w)
               \/ RetryBegins(w) \/ InstallAsked(w)
      <3>1. pc'[w] \notin {"stopping lan", "closing web"}
        BY <2>5 DEF LanStarts, Listens, WebListens, StartEnds, StopCloses, StopEnds, RetryEnds,
                    InstallStarts, Downloaded, Installed, InstallEnds, StartBegins, StopBegins,
                    RetryBegins, InstallAsked, StartFails, InstallFails
      <3> QED BY <1>1, <3>1
    <2>6. CASE UNCHANGED <<callVars, serverVars>>
      BY <1>1, <2>6 DEF callVars, serverVars, Stopped
    <2> QED BY <2>1, <2>2, <2>3, <2>4, <2>5, <2>6 DEF Next, Proceeds, vars
  <1>2. ASSUME NEW w \in Callers, pc'[w] = "closing web", srv'[w] \notin excused'
        PROVE  proc'[srv'[w]] \notin children' /\ \A v \in Callers : of'[v] # srv'[w]
    <2>1. CASE WebCloses(w)
      <3>1. srv'[w] = srv[w] /\ srv[w] \in Servers /\ of' = of
        BY <2>1 DEF WebCloses
      <3>2. \A v \in Callers : of[v] # srv[w]
        BY <1>2, <2>1, <3>1 DEF WebCloses
      <3>3. proc'[srv[w]] = None
        BY <2>1, <3>1 DEF WebCloses, UsbStops, Die
      <3>4. None \notin children'
        BY <2>1 DEF WebCloses, UsbStops, Die, TypeOK, UsbTypeOK
      <3> QED BY <3>1, <3>2, <3>3, <3>4
    <2>2. CASE pc[w] = "closing web" /\ srv'[w] = srv[w]
      <3>1. srv[w] \in Servers /\ srv[w] \in made /\ srv[w] # local
        BY <2>2 DEF OneHand
      <3>2. proc[srv[w]] \notin children /\ \A v \in Callers : of[v] # srv[w]
        BY <1>2, <2>2, ExcusedGrows DEF Stopped
      <3>3. proc'[srv[w]] \notin children'
        BY <3>1, <3>2, ChildrenStep
      <3>4. ASSUME NEW v \in Callers, of'[v] = srv[w]
            PROVE  FALSE
        <4>1. of'[v] # of[v] /\ of'[v] # None
          BY <3>1, <3>2, <3>4
        <4> QED BY <3>1, <3>4, <4>1, CallsStep
      <3> QED BY <2>2, <3>3, <3>4
    <2>3. CASE ~ WebCloses(w) /\ ~ (pc[w] = "closing web" /\ srv'[w] = srv[w])
      <3>1. ASSUME NEW u \in Callers, u # w,
                   Proceeds(u) \/ StartBegins(u) \/ StopBegins(u) \/ RetryBegins(u)
                     \/ InstallAsked(u)
            PROVE  FALSE
        <4>1. pc'[w] = pc[w] /\ srv'[w] = srv[w]
          BY ONLY TypeOK, OneHand, <1>2, <3>1, OthersAlone
        <4> QED BY <1>2, <2>3, <4>1
      <3>2. CASE UsbProceeds(w) \/ UNCHANGED callVars
        BY <1>2, <2>3, <3>2 DEF UsbProceeds, callVars
      <3>3. CASE \/ LanStarts(w) \/ Listens(w) \/ WebListens(w) \/ StartEnds(w) \/ StopCloses(w)
                 \/ LanStops(w) \/ StopEnds(w) \/ RetryEnds(w) \/ InstallStarts(w)
                 \/ Downloaded(w) \/ Installed(w) \/ InstallEnds(w) \/ StartBegins(w)
                 \/ StopBegins(w) \/ RetryBegins(w) \/ InstallAsked(w)
        <4>1. pc'[w] # "closing web"
          BY <3>3 DEF LanStarts, Listens, WebListens, StartEnds, StopCloses, LanStops, StopEnds,
                      RetryEnds, InstallStarts, Downloaded, Installed, InstallEnds, StartBegins,
                      StopBegins, RetryBegins, InstallAsked, StartFails, InstallFails
        <4> QED BY <1>2, <4>1
      <3> QED BY <2>3, <3>1, <3>2, <3>3 DEF Next, Proceeds, vars
    <2> QED BY <2>1, <2>2, <2>3
  <1> QED BY <1>1, <1>2 DEF Stopped

\* A server that was stopped completely owns nothing, unless it is excused.
LEMMA StopEndsClean ==
    ASSUME TypeOK, Listening, Stopped,
           NEW u \in Callers, NEW s \in Servers, StopEnds(u), srv[u] = s, s \notin excused
    PROVE  /\ ~ Owns(s)'
           /\ \A v \in Callers : of'[v] # s
  <1>1. pc[u] = "closing web"
    BY DEF StopEnds
  <1>2. UNCHANGED <<open, keeps, tap, proc, children, of>>
    BY DEF StopEnds, usbVars, serverVars
  <1>3. open[s] = {} /\ s \notin keeps /\ tap # s
    <2>1. open[s] \subseteq {"tunnel", "web"}
      BY Shapes
    <2>2. "tunnel" \notin open[s] /\ "web" \notin open[s] /\ s \notin keeps
      BY <1>1 DEF Listening, Stopping
    <2> QED BY <1>1, <2>1, <2>2 DEF Stopped
  <1>4. proc[s] \notin children /\ \A v \in Callers : of[v] # s
    BY <1>1 DEF Stopped
  <1> QED BY <1>2, <1>3, <1>4 DEF Owns

\* Every step keeps the calls of start() on servers that are held, in hand or excused.
LEMMA CallsHeldStep ==
    ASSUME TypeOK, OneHand, Listening, Stopped, CallsHeld, [Next]_vars
    PROVE  CallsHeld'
  <1>1. ASSUME NEW v \in Callers, NEW s \in Servers, of'[v] = s, of[v] = s
        PROVE  local' = s \/ InHand(s)' \/ s \in excused'
    <2>1. CASE s \in excused
      BY <2>1, ExcusedGrows
    <2>2. CASE s \notin excused /\ (local = s \/ InHand(s))
      <3>1. \A u \in Callers : ~ (StopEnds(u) /\ srv[u] = s)
        BY <1>1, <2>2, StopEndsClean
      <3> QED BY <2>2, <3>1, HandsStep
    <2> QED BY <1>1, <2>1, <2>2, NoneIsNoServer DEF CallsHeld
  <1>2. ASSUME NEW v \in Callers, NEW s \in Servers, of'[v] = s, of[v] # s
        PROVE  local' = s \/ InHand(s)'
    <2>1. of'[v] = local' \/ of'[v] = srv'[v]
      BY <1>2, CallsStep, NoneIsNoServer
    <2> QED BY <1>2, <2>1 DEF InHand
  <1>3. \A v \in Callers : of'[v] # None => of'[v] \in Servers
    BY TypeStep DEF TypeOK, UsbTypeOK
  <1>4. \A v \in Callers : of'[v] # None =>
            \E s \in Servers : s = of'[v] /\ (local' = s \/ InHand(s)' \/ s \in excused')
    BY <1>1, <1>2, <1>3
  <1> QED BY <1>4 DEF CallsHeld, InHand

\* How a server comes to own something: who starts it has it in hand, or just failed to; or
\* a process was spawned for it.
LEMMA Gains ==
    ASSUME TypeOK, ProcsRun, ChildrenKnown, [Next]_vars,
           NEW s \in Servers, ~ Owns(s), Owns(s)'
    PROVE  \/ InHand(s)' \/ s \in excused'
           \/ /\ \E u \in Callers : of[u] = s
              /\ UNCHANGED <<local, callVars, excused>>
  <1> USE Shapes, NoneIsNoServer DEF CallTypes, GoesOn, Answers
  <1>1. ASSUME NEW u \in Callers, LanStarts(u), tap' # tap
        PROVE  tap' = srv[u] /\ srv'[u] = srv[u]
    BY <1>1 DEF LanStarts
  <1>2. ASSUME NEW u \in Callers, Listens(u) \/ WebListens(u), open'[s] # open[s] \/ keeps' # keeps
        PROVE  /\ srv[u] \in excused' \/ srv'[u] = srv[u]
               /\ \A r \in Servers : r # srv[u] => open'[r] = open[r]
               /\ keeps' \subseteq keeps \cup {srv[u]}
    BY <1>2 DEF Listens, WebListens, StartFails
  <1>3. CASE proc'[s] \in children'
    <2>1. proc[s] \notin children
      BY DEF Owns
    <2> QED BY <1>3, <2>1, ChildrenStep
  <1>4. CASE proc'[s] \notin children'
    <2>1. open'[s] # {} \/ s \in keeps' \/ tap' = s
      BY <1>4 DEF Owns
    <2>2. open[s] = {} /\ s \notin keeps /\ tap # s
      BY DEF Owns
    <2>3. ASSUME NEW u \in Callers, LanStarts(u)
          PROVE  InHand(s)'
      <3>1. UNCHANGED <<open, keeps>>
        BY <2>3 DEF LanStarts
      <3> QED BY <1>1, <2>1, <2>2, <2>3, <3>1 DEF InHand
    <2>4. ASSUME NEW u \in Callers, Listens(u) \/ WebListens(u)
          PROVE  InHand(s)' \/ s \in excused'
      <3>1. tap' = tap
        BY <2>4 DEF Listens, WebListens
      <3> QED BY <1>2, <2>1, <2>2, <2>4, <3>1 DEF InHand
    <2>5. ASSUME NEW u \in Callers,
                 StopBegins(u) \/ StopCloses(u) \/ LanStops(u) \/ WebCloses(u)
          PROVE  FALSE
      <3>1. /\ keeps' \subseteq keeps
            /\ open'[s] \subseteq open[s]
            /\ tap' \in {tap, None}
        <4>1. CASE StopBegins(u)
          BY <4>1 DEF StopBegins
        <4>2. CASE StopCloses(u)
          BY <4>2 DEF StopCloses
        <4>3. CASE LanStops(u)
          BY <4>3 DEF LanStops
        <4>4. CASE WebCloses(u)
          BY <4>4 DEF WebCloses
        <4> QED BY <2>5, <4>1, <4>2, <4>3, <4>4
      <3> QED BY <2>1, <2>2, <3>1
    <2>6. ASSUME NEW u \in Callers,
                 \/ UsbProceeds(u) \/ StartEnds(u) \/ StopEnds(u) \/ RetryBegins(u)
                 \/ RetryEnds(u) \/ InstallAsked(u) \/ InstallStarts(u) \/ Downloaded(u)
                 \/ Installed(u) \/ InstallEnds(u) \/ StartBegins(u)
          PROVE  UNCHANGED <<open, keeps, tap>>
      BY <2>6 DEF UsbProceeds, StartEnds, StopEnds, RetryBegins, RetryEnds, InstallAsked,
                  InstallStarts, Downloaded, Installed, InstallEnds, StartBegins, serverVars
    <2>7. CASE UNCHANGED serverVars
      BY <2>1, <2>2, <2>7 DEF serverVars
    <2> QED BY <2>1, <2>2, <2>3, <2>4, <2>5, <2>6, <2>7 DEF Next, Proceeds, vars
  <1> QED BY <1>3, <1>4

\* Every step keeps the owners of anything held, in hand or excused.
LEMMA OwnersStep ==
    ASSUME TypeOK, OneHand, ProcsRun, ChildrenKnown, CallsHeld, Listening, Stopped, OwnersHeld,
           [Next]_vars
    PROVE  OwnersHeld'
  <1> SUFFICES ASSUME NEW s \in Servers, Owns(s)'
               PROVE  local' = s \/ InHand(s)' \/ s \in excused'
    BY DEF OwnersHeld
  <1>1. CASE s \in excused
    BY <1>1, ExcusedGrows
  <1>2. CASE s \notin excused /\ Owns(s)
    <2>1. local = s \/ InHand(s)
      BY <1>2 DEF OwnersHeld
    <2>2. \A u \in Callers : ~ (StopEnds(u) /\ srv[u] = s)
      BY <1>2, StopEndsClean
    <2> QED BY <2>1, <2>2, HandsStep
  <1>3. CASE s \notin excused /\ ~ Owns(s)
    <2>1. CASE InHand(s)' \/ s \in excused'
      BY <2>1
    <2>2. CASE (\E u \in Callers : of[u] = s) /\ UNCHANGED <<local, callVars, excused>>
      <3>1. local = s \/ InHand(s)
        BY <1>3, <2>2, NoneIsNoServer DEF CallsHeld
      <3> QED BY <2>2, <3>1 DEF InHand, callVars
    <2> QED BY <1>3, <2>1, <2>2, Gains
  <1> QED BY <1>1, <1>2, <1>3

-----------------------------------------------------------------------------
(* What is shown is so.                                                     *)

\* Every step keeps the held server's listeners and keepalive.
LEMMA HeldStep ==
    ASSUME TypeOK, OneHand, Listening, HeldListens, [Next]_vars
    PROVE  HeldListens'
  <1> USE Shapes, NoneIsNoServer
  <1> SUFFICES ASSUME NEW s \in Servers, local' = s
               PROVE  open'[s] = {"tunnel", "web"} /\ s \in keeps'
    BY DEF HeldListens
  <1>1. ASSUME NEW u \in Callers, StartEnds(u)
        PROVE  open'[s] = {"tunnel", "web"} /\ s \in keeps'
    <2>1. srv[u] = s /\ pc[u] = "listening for web" /\ UNCHANGED <<open, keeps>>
      BY <1>1 DEF StartEnds, serverVars
    <2> QED BY <2>1 DEF Listening
  <1>2. ASSUME NEW u \in Callers, StopBegins(u)
        PROVE  FALSE
    BY <1>2 DEF StopBegins
  <1>3. ASSUME NEW u \in Callers,
               Listens(u) \/ WebListens(u) \/ StopCloses(u) \/ WebCloses(u)
        PROVE  local' = local /\ open'[s] = open[s] /\ (s \in keeps => s \in keeps')
    <2>1. srv[u] # None /\ local' = local
      BY <1>3 DEF Listens, WebListens, StopCloses, WebCloses, Starting, Stopping
    <2>2. srv[u] # s
      BY <2>1 DEF OneHand
    <2>3. CASE Listens(u)
      BY <2>1, <2>2, <2>3 DEF Listens
    <2>4. CASE WebListens(u)
      BY <2>1, <2>2, <2>4 DEF WebListens
    <2>5. CASE StopCloses(u)
      BY <2>1, <2>2, <2>5 DEF StopCloses
    <2>6. CASE WebCloses(u)
      BY <2>1, <2>2, <2>6 DEF WebCloses
    <2> QED BY <1>3, <2>3, <2>4, <2>5, <2>6
  <1>4. ASSUME NEW u \in Callers,
               \/ UsbProceeds(u) \/ LanStarts(u) \/ LanStops(u) \/ StopEnds(u)
               \/ RetryBegins(u) \/ RetryEnds(u) \/ InstallAsked(u) \/ InstallStarts(u)
               \/ Downloaded(u) \/ Installed(u) \/ InstallEnds(u) \/ StartBegins(u)
        PROVE  UNCHANGED <<local, open, keeps>>
    BY <1>4 DEF UsbProceeds, LanStarts, LanStops, StopEnds, RetryBegins, RetryEnds,
                InstallAsked, InstallStarts, Downloaded, Installed, InstallEnds, StartBegins,
                serverVars
  <1>5. CASE UNCHANGED <<local, serverVars>>
    BY <1>5 DEF serverVars, HeldListens
  <1> QED BY <1>1, <1>2, <1>3, <1>4, <1>5 DEF Next, Proceeds, vars, HeldListens

\* Who is looking for the rule goes on doing so until it is there, or its lack is logged.
LEMMA Hardening ==
    ASSUME TypeOK, CallsAwaited, [Next]_vars, NEW u \in Callers, at[u] = "hardening",
           ~ rule', of[u] \notin warned'
    PROVE  at'[u] = "hardening" /\ of'[u] = of[u]
  <1> USE Shapes DEF CallsAwaited
  <1>1. ASSUME NEW v \in Callers, UsbProceeds(v)
        PROVE  at'[u] = "hardening" /\ of'[u] = of[u]
    <2>1. of' = of
      BY <1>1, UsbStepInside DEF UsbProceeds
    <2>3. v # u
      BY <1>1 DEF UsbProceeds, UsbStep, Looks, Daemonized, Queried, Elevated, Polled, Hardened
    <2>4. \E to : at' = [at EXCEPT ![v] = to]
      BY <1>1 DEF UsbProceeds, UsbStep, Looks, Daemonized, Queried, Elevated, Polled, Hardened,
                  Then
    <2> QED BY <2>1, <2>3, <2>4
  <1>2. ASSUME NEW v \in Callers, StartBegins(v) \/ RetryBegins(v) \/ Installed(v)
        PROVE  at'[u] = "hardening" /\ of'[u] = of[u]
    <2>1. v # u
      BY <1>2 DEF StartBegins, RetryBegins, Installed
    <2>2. at'[u] = at[u] /\ of'[u] = of[u]
      BY <1>2, <2>1 DEF StartBegins, RetryBegins, Installed, UsbStarts
    <2> QED BY <2>2
  <1>3. ASSUME NEW v \in Callers, LanStarts(v) \/ RetryEnds(v) \/ InstallEnds(v)
        PROVE  at'[u] = "hardening" /\ of'[u] = of[u]
    <2>1. v # u
      BY <1>3 DEF LanStarts, RetryEnds, InstallEnds, Returned
    <2>2. at'[u] = at[u] /\ of'[u] = of[u]
      BY <1>3, <2>1 DEF LanStarts, RetryEnds, InstallEnds, Returned
    <2> QED BY <2>2
  <1>4. ASSUME NEW v \in Callers,
               \/ Listens(v) \/ WebListens(v) \/ StartEnds(v) \/ StopBegins(v)
               \/ StopCloses(v) \/ LanStops(v) \/ WebCloses(v) \/ StopEnds(v)
               \/ InstallAsked(v) \/ InstallStarts(v) \/ Downloaded(v)
        PROVE  UNCHANGED <<at, of>>
    BY <1>4 DEF Listens, WebListens, StartEnds, StopBegins, StopCloses, LanStops, WebCloses,
                StopEnds, InstallAsked, InstallStarts, Downloaded, usbVars
  <1>5. CASE UsbipdListens \/ UsbipdEnds
    <2>1. UNCHANGED <<at, of>>
      BY <1>5 DEF UsbipdListens, UsbipdEnds
    <2> QED BY <2>1
  <1>6. CASE UNCHANGED vars
    BY <1>6 DEF vars, usbVars
  <1> QED BY <1>1, <1>2, <1>3, <1>4, <1>5, <1>6 DEF Next, Proceeds

\* Every step keeps the rule, or the warning, or who looks for it, beside every manager that
\* is available.
LEMMA HardensStep ==
    ASSUME TypeOK, CallsAwaited, Hardens, [Next]_vars
    PROVE  Hardens'
  <1> SUFFICES ASSUME NEW s \in Servers, available'[s], ~ windows', firewall', ~ rule',
                      s \notin warned'
               PROVE  \E u \in Callers : of'[u] = s /\ at'[u] = "hardening"
    BY DEF Hardens
  <1>1. windows' = windows /\ firewall' = firewall
    <2>1. ASSUME NEW u \in Callers, Proceeds(u)
          PROVE  windows' = windows /\ firewall' = firewall
      BY <2>1, UsbStepInside, UsbTypes
         DEF Proceeds, UsbProceeds, LanStarts, Listens, WebListens, StartEnds, StopCloses,
             LanStops, WebCloses, StopEnds, RetryEnds, InstallStarts, Downloaded, Installed,
             InstallEnds, usbVars, worldVars, TypeOK
    <2>2. ASSUME NEW u \in Callers,
                 StartBegins(u) \/ StopBegins(u) \/ RetryBegins(u) \/ InstallAsked(u)
          PROVE  windows' = windows /\ firewall' = firewall
      BY <2>2 DEF StartBegins, StopBegins, RetryBegins, InstallAsked, usbVars, worldVars
    <2> QED BY <2>1, <2>2 DEF Next, UsbipdListens, UsbipdEnds, worldVars, vars, usbVars
  <1>2. CASE available[s]
    <2>1. \A u \in Callers : at[u] = "hardening" /\ of[u] = s =>
             at'[u] = "hardening" /\ of'[u] = of[u]
      BY Hardening
    <2>2. rule \/ s \in warned \/ \E u \in Callers : of[u] = s /\ at[u] = "hardening"
      BY <1>1, <1>2 DEF Hardens
    <2>3. ~ rule /\ s \notin warned
      <3>0. rule \in BOOLEAN
        BY DEF TypeOK, UsbTypeOK
      <3>1. ASSUME NEW u \in Callers, Hardened(u)
            PROVE  ~ rule /\ s \notin warned
        BY <3>0, <3>1 DEF Hardened
      <3>2. ASSUME NEW u \in Callers, UsbProceeds(u), ~ Hardened(u)
            PROVE  rule' = rule /\ warned' = warned
        BY <3>2 DEF UsbProceeds, UsbStep, Looks, Daemonized, Queried, Elevated, Polled, ruleVars
      <3>3. ASSUME NEW u \in Callers, Proceeds(u), ~ UsbProceeds(u)
            PROVE  rule' = rule /\ warned' = warned
        BY <3>3
           DEF Proceeds, LanStarts, Listens, WebListens, StartEnds, StopCloses, LanStops,
               WebCloses, StopEnds, RetryEnds, InstallStarts, Downloaded, Installed,
               InstallEnds, usbVars, ruleVars
      <3>4. ASSUME NEW u \in Callers,
                   StartBegins(u) \/ StopBegins(u) \/ RetryBegins(u) \/ InstallAsked(u)
            PROVE  rule' = rule /\ warned' = warned
        BY <3>4 DEF StartBegins, StopBegins, RetryBegins, InstallAsked, usbVars, ruleVars
      <3>5. UsbipdListens \/ UsbipdEnds \/ UNCHANGED vars => rule' = rule /\ warned' = warned
        BY DEF UsbipdListens, UsbipdEnds, vars, usbVars, ruleVars
      <3>6. \/ \E u \in Callers : Hardened(u)
            \/ rule' = rule /\ warned' = warned
        BY <3>2, <3>3, <3>4, <3>5 DEF Next, UsbProceeds
      <3> QED BY <3>0, <3>1, <3>6
    <2> QED BY <2>1, <2>2, <2>3
  <1>3. CASE ~ available[s]
    <2>1. PICK u \in Callers : UsbProceeds(u)
      <3>1. ASSUME NEW u \in Callers, ~ UsbProceeds(u), Proceeds(u)
            PROVE  available' = available
        BY <3>1
           DEF Proceeds, LanStarts, Listens, WebListens, StartEnds, StopCloses, LanStops,
               WebCloses, StopEnds, RetryEnds, InstallStarts, Downloaded, Installed,
               InstallEnds, usbVars
      <3>2. ASSUME NEW u \in Callers,
                   StartBegins(u) \/ StopBegins(u) \/ RetryBegins(u) \/ InstallAsked(u)
            PROVE  available' = available
        BY <3>2 DEF StartBegins, StopBegins, RetryBegins, InstallAsked, usbVars
      <3>3. UsbipdListens \/ UsbipdEnds \/ UNCHANGED vars => available' = available
        BY DEF UsbipdListens, UsbipdEnds, vars, usbVars
      <3> QED BY <1>3, <3>1, <3>2, <3>3 DEF Next
    <2>2. of[u] = s /\ of' = of /\ at'[u] = "hardening"
      <3>1. of' = of /\ of[u] \in Servers
        BY <2>1, UsbStepInside DEF UsbProceeds
      <3>2. CASE Looks(u)
        BY <1>1, <1>3, <3>1, <3>2, Shapes DEF Looks, Then
      <3>3. CASE Polled(u)
        BY <1>1, <1>3, <3>1, <3>3, Shapes DEF Polled, Then
      <3>4. Daemonized(u) \/ Queried(u) \/ Elevated(u) \/ Hardened(u) => available' = available
        BY DEF Daemonized, Queried, Elevated, Hardened
      <3> QED BY <1>3, <2>1, <3>1, <3>2, <3>3, <3>4 DEF UsbProceeds, UsbStep
    <2> QED BY <2>2
  <1> QED BY <1>2, <1>3

\* Every step keeps a busy installation where it is shown to be: whoever showed it last has
\* not gone on since.
LEMMA InstallStep ==
    ASSUME TypeOK, CallsAwaited, InstallShown, [Next]_vars
    PROVE  InstallShown'
  <1> USE Shapes DEF CallTypes, GoesOn, Answers, InstallShown, Starting, Stopping
  <1>0. install # "created" /\ Installers \subseteq Callers
    BY LocalServerAssumption DEF LocalServerAssumption, TypeOK
  <1>1. ASSUME NEW u \in Callers, UsbProceeds(u)
        PROVE  InstallShown'
    BY <1>1 DEF UsbProceeds, callVars
  <1>2. ASSUME NEW u \in Callers,
               \/ LanStarts(u) \/ Listens(u) \/ WebListens(u) \/ StartEnds(u) \/ StopCloses(u)
               \/ LanStops(u) \/ WebCloses(u) \/ StopEnds(u) \/ RetryEnds(u)
               \/ StartBegins(u) \/ StopBegins(u) \/ RetryBegins(u) \/ InstallAsked(u)
        PROVE  InstallShown'
    <2>1. /\ install' = install
          /\ pc[u] \notin Installing \/ install \notin Installing
          /\ \A v \in Callers : v # u => pc'[v] = pc[v]
      <3>1. CASE LanStarts(u) \/ Listens(u) \/ WebListens(u) \/ StartEnds(u) \/ StopCloses(u)
        BY <3>1 DEF LanStarts, Listens, WebListens, StartEnds, StopCloses, StartFails, Installing
      <3>2. CASE LanStops(u) \/ WebCloses(u) \/ StopEnds(u) \/ RetryEnds(u)
        BY <3>2 DEF LanStops, WebCloses, StopEnds, RetryEnds, Installing
      <3>3. CASE StartBegins(u) \/ StopBegins(u) \/ RetryBegins(u) \/ InstallAsked(u)
        BY <3>3 DEF StartBegins, StopBegins, RetryBegins, InstallAsked, Installing
      <3> QED BY <1>2, <3>1, <3>2, <3>3
    <2> QED BY <1>0, <2>1
  <1>3. ASSUME NEW i \in Callers,
               InstallStarts(i) \/ Downloaded(i) \/ Installed(i) \/ InstallEnds(i)
        PROVE  InstallShown'
    <2>1. i \in Installers
      BY <1>3 DEF InstallStarts, Downloaded, Installed, InstallEnds, CallsAwaited, Installing
    <2>2. install' \notin Installing \/ pc'[i] = install'
      BY <1>3 DEF InstallStarts, Downloaded, Installed, InstallEnds, InstallFails, Installing
    <2> QED BY <2>1, <2>2
  <1>4. CASE UNCHANGED <<callVars, install>>
    BY <1>4 DEF callVars
  <1> QED BY <1>1, <1>2, <1>3, <1>4 DEF Next, Proceeds, vars

-----------------------------------------------------------------------------
(* The theorems.                                                            *)

\* It holds in every reachable state.
LEMMA ServerInvariant == Spec => []ServerInv
  <1>1. Init => ServerInv
    <2>1. Init => CallsAwaited /\ OneHand /\ ProcsRun /\ ChildrenKnown /\ CallsHeld
      BY NoneIsNoServer
         DEF Init, UsbInit, CallsAwaited, OneHand, ProcsRun, ChildrenKnown, CallsHeld,
             Installing
    <2>2. Init => Listening /\ Stopped /\ HeldListens /\ InstallShown /\ Hardens
      BY NoneIsNoServer
         DEF Init, UsbInit, Listening, Stopped, HeldListens, InstallShown, Hardens, Stopping,
             Installing
    <2>3. Init => OwnersHeld
      BY NoneIsNoServer DEF Init, UsbInit, OwnersHeld, Owns
    <2> QED BY <2>1, <2>2, <2>3 DEF ServerInv
  <1>2. TypeOK /\ ServerInv /\ [Next]_vars => ServerInv'
    BY AwaitedStep, HandStep, ChildrenStep, CallsHeldStep, ListeningStep, StoppedStep,
       OwnersStep, HeldStep, HardensStep, InstallStep
       DEF ServerInv
  <1> QED BY <1>1, <1>2, TypeCorrect, PTL DEF Spec

\* No server that listens, pings, has the LAN device or runs a usbipd of its own is lost
\* behind the GUI's back, whatever requests run into each other: it is held, being started or
\* stopped, or one that failed to start, was overwritten, or was stopped while its manager was
\* being started; and every usbipd that was spawned is known to its manager, unless the
\* manager was started again while it ran (gui.py: local_server_start, local_server_stop;
\* server.py: UsbferryServer.start, stop).
THEOREM NoneForgotten == Spec => []NothingForgotten
  <1>1. ServerInv => NothingForgotten
    BY DEF ServerInv, NothingForgotten, OwnersHeld, ChildrenKnown
  <1> QED BY <1>1, ServerInvariant, PTL

\* The server that is shown as running has both of its listeners and its keepalive; on Linux,
\* devices that are shown as shareable are behind the firewall's rule, or their manager has
\* logged that there is none; an installation that is shown as busy, which keeps another one
\* from being begun, is under way: for any number of installers, although two of them can be
\* made before the first one shows.
THEOREM ShownTrue == Spec => []ShownIsTrue
  <1>1. ServerInv => ShownIsTrue
    BY DEF ServerInv, ShownIsTrue, Settled, HeldListens, Hardens, InstallShown
  <1> QED BY <1>1, ServerInvariant, PTL
==============================================================================
