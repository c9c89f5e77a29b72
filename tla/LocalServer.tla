----------------------------- MODULE LocalServer -----------------------------
(***************************************************************************)
(* The server that the GUI runs (src/usbferry/gui.py: local_server_start,  *)
(* local_server_stop, the routes of /api/local-server, the installer of     *)
(* usbipd-win) and what UsbferryServer.start and stop (server.py) bring up  *)
(* and take down, one await after another.  Requests run into each other    *)
(* at these awaits; nothing locks them out.                                 *)
(*                                                                          *)
(* The sessions of a server are ServerSession's, its LAN is LanManager's;   *)
(* here a LAN is the device that the servers of a machine share by name.    *)
(***************************************************************************)
EXTENDS UsbManager

CONSTANTS
    Requests,    \* bound: requests of the API handled at one time
    Installers   \* bound: installations at one time

ASSUME LocalServerAssumption ==
    Callers = Requests \cup Installers /\ Requests \cap Installers = {}

VARIABLES
    local,    \* self.local_server
    pc,       \* where each request, and each installer's task, is suspended
    srv,      \* the server it starts or stops
    made,     \* the server objects that were made
    open,     \* the listeners of each server: "tunnel", "web"
    keeps,    \* the servers whose keepalive task runs
    tap,      \* whose the LAN device is: None, a server, "other": a server outside the GUI
    install,  \* self.usbip_install["state"]
    excused   \* history: servers that failed to start, were overwritten, or were stopped
              \* while their manager was being started

serverVars == <<made, open, keeps, tap>>
callVars == <<pc, srv>>
vars == <<usbVars, local, callVars, serverVars, install, excused>>

Starting == {"starting usb", "starting lan", "listening", "listening for web"}
Stopping == {"cleaning", "closing", "stopping lan", "closing web"}
Installing == {"created", "downloading", "installing", "starting"}

Init ==
    /\ UsbInit
    /\ local = None
    /\ pc = [u \in Callers |-> "idle"] /\ srv = [u \in Callers |-> None]
    /\ made = {} /\ open = [s \in Servers |-> {}] /\ keeps = {}
    /\ tap \in {None, "other"}
    /\ install = "idle"
    /\ excused = {}

GoesOn(u, to) == pc' = [pc EXCEPT ![u] = to] /\ UNCHANGED srv

Answers(u) ==
    /\ pc' = [pc EXCEPT ![u] = "idle"]
    /\ srv' = [srv EXCEPT ![u] = None]

-----------------------------------------------------------------------------
(* local_server_start and UsbferryServer.start.                             *)

\* A server is made, unless one is held; it begins with its manager.
StartBegins(u) ==
    /\ u \in Requests /\ pc[u] = "idle"
    /\ local = None /\ made # Servers
    /\ LET s == CHOOSE s \in Servers : s \notin made
       IN /\ made' = made \cup {s}
          /\ srv' = [srv EXCEPT ![u] = s]
          /\ UsbStarts(u, s)
    /\ pc' = [pc EXCEPT ![u] = "starting usb"]
    /\ UNCHANGED <<worldVars, installed, listener, children, proc, available, ruleVars, strays,
                   local, open, keeps, tap, install, excused>>

\* start() raised: the error is answered, and the server dropped as it is.
StartFails(u) ==
    /\ Answers(u)
    /\ excused' = excused \cup {srv[u]}

\* The manager is done.  The LAN's device is opened if it is wanted and its name is free;
\* the LAN is left out otherwise.
LanStarts(u) ==
    /\ pc[u] = "starting usb"
    /\ Returned(u)
    /\ GoesOn(u, "starting lan")
    /\ tap' \in {tap} \cup (IF tap = None THEN {srv[u]} ELSE {})
    /\ UNCHANGED <<worldVars, installed, listener, children, proc, available, ruleVars, strays,
                   local, made, open, keeps, install, excused>>

\* The LAN is configured, or that raises; the tunnel's port is bound, or that raises.
Listens(u) ==
    /\ pc[u] = "starting lan"
    /\ \/ /\ open' = [open EXCEPT ![srv[u]] = {"tunnel"}]
          /\ GoesOn(u, "listening")
          /\ UNCHANGED excused
       \/ /\ StartFails(u)
          /\ UNCHANGED open
    /\ UNCHANGED <<usbVars, local, made, keeps, tap, install>>

\* Keepalive is begun; the web admin's port is bound, or that raises.
WebListens(u) ==
    /\ pc[u] = "listening"
    /\ keeps' = keeps \cup {srv[u]}
    /\ \/ /\ open' = [open EXCEPT ![srv[u]] = @ \cup {"web"}]
          /\ GoesOn(u, "listening for web")
          /\ UNCHANGED excused
       \/ /\ StartFails(u)
          /\ UNCHANGED open
    /\ UNCHANGED <<usbVars, local, made, tap, install>>

\* The GUI holds the server, in the place of one that was started meanwhile.
StartEnds(u) ==
    /\ pc[u] = "listening for web"
    /\ local' = srv[u]
    /\ excused' = excused \cup ({local} \ {None})
    /\ Answers(u)
    /\ UNCHANGED <<usbVars, serverVars, install>>

-----------------------------------------------------------------------------
(* local_server_stop and UsbferryServer.stop.                               *)

\* Mutation: the GUI lets go of the server when it has stopped.
StopHolds(u) ==
    /\ u \in Requests /\ pc[u] = "idle"
    /\ local # None
    /\ srv' = [srv EXCEPT ![u] = local]
    /\ pc' = [pc EXCEPT ![u] = "cleaning"]
    /\ keeps' = keeps \ {local}
    /\ UNCHANGED <<usbVars, local, made, open, tap, install, excused>>

\* Mutation: what is to be stopped is read after the GUI has let go of it.
StopForgets(u) ==
    /\ u \in Requests /\ pc[u] = "idle"
    /\ local # None
    /\ local' = None
    /\ srv' = [srv EXCEPT ![u] = local']
    /\ pc' = [pc EXCEPT ![u] = "cleaning"]
    /\ keeps' = keeps \ {local}
    /\ UNCHANGED <<usbVars, made, open, tap, install, excused>>

\* The GUI lets go of the server first; keepalive is cancelled, sessions are cleaned up.
StopBegins(u) ==
    /\ u \in Requests /\ pc[u] = "idle"
    /\ local # None
    /\ local' = None
    /\ srv' = [srv EXCEPT ![u] = local]
    /\ pc' = [pc EXCEPT ![u] = "cleaning"]
    /\ keeps' = keeps \ {local}
    /\ UNCHANGED <<usbVars, made, open, tap, install, excused>>

StopCloses(u) ==
    /\ pc[u] = "cleaning"
    /\ open' = [open EXCEPT ![srv[u]] = @ \ {"tunnel"}]
    /\ GoesOn(u, "closing")
    /\ UNCHANGED <<usbVars, local, made, keeps, tap, install, excused>>

\* LanManager.stop closes the device and deletes it by its name, whose ever it is.
LanStops(u) ==
    /\ pc[u] = "closing"
    /\ tap' = None
    /\ GoesOn(u, "stopping lan")
    /\ UNCHANGED <<usbVars, local, made, open, keeps, install, excused>>

\* The manager and the web admin.  A call of the manager's start() that is under way may
\* still spawn a process.
WebCloses(u) ==
    /\ pc[u] = "stopping lan"
    /\ UsbStops(srv[u])
    /\ open' = [open EXCEPT ![srv[u]] = @ \ {"web"}]
    /\ excused' = excused \cup (IF \E v \in Callers : of[v] = srv[u] THEN {srv[u]} ELSE {})
    /\ GoesOn(u, "closing web")
    /\ UNCHANGED <<worldVars, installed, available, ruleVars, at, of,
                   local, made, keeps, tap, install>>

StopEnds(u) ==
    /\ pc[u] = "closing web"
    /\ Answers(u)
    /\ UNCHANGED <<usbVars, local, serverVars, install, excused>>

-----------------------------------------------------------------------------
(* /api/local-server/usb/retry and /usb/install.                            *)

RetryBegins(u) ==
    /\ u \in Requests /\ pc[u] = "idle"
    /\ local # None
    /\ UsbStarts(u, local)
    /\ GoesOn(u, "retrying")
    /\ UNCHANGED <<worldVars, installed, listener, children, proc, available, ruleVars, strays,
                   local, serverVars, install, excused>>

RetryEnds(u) ==
    /\ pc[u] = "retrying"
    /\ Returned(u)
    /\ Answers(u)
    /\ UNCHANGED <<worldVars, installed, listener, children, proc, available, ruleVars, strays,
                   local, serverVars, install, excused>>

\* The route makes a task, if none is busy.  Until the task takes its first step, nothing
\* shows that it was made.
InstallAsked(i) ==
    /\ i \in Installers /\ pc[i] = "idle"
    /\ windows /\ local # None
    /\ install \notin Installing
    /\ GoesOn(i, "created")
    /\ UNCHANGED <<usbVars, local, serverVars, install, excused>>

InstallStarts(i) ==
    /\ pc[i] = "created"
    /\ install' = "downloading"
    /\ GoesOn(i, "downloading")
    /\ UNCHANGED <<usbVars, local, serverVars, excused>>

\* Mutation: the task ends where it fails and leaves the state as it is.
InstallDies(i) ==
    /\ Answers(i)
    /\ UNCHANGED install

\* A step fails, and its exception is reported.
InstallFails(i) ==
    /\ install' = "error"
    /\ Answers(i)

Downloaded(i) ==
    /\ pc[i] = "downloading"
    /\ \/ install' = "installing" /\ GoesOn(i, "installing")
       \/ InstallFails(i)
    /\ UNCHANGED <<usbVars, local, serverVars, excused>>

\* msiexec returned.  The server that is held now has its manager started.
Installed(i) ==
    /\ pc[i] = "installing"
    /\ \/ /\ installed' = TRUE
          /\ IF local # None
             THEN /\ UsbStarts(i, local)
                  /\ install' = "starting" /\ GoesOn(i, "starting")
             ELSE /\ UNCHANGED <<at, of>>
                  /\ install' = "done" /\ Answers(i)
       \/ /\ InstallFails(i)
          /\ UNCHANGED <<installed, at, of>>
    /\ UNCHANGED <<worldVars, listener, children, proc, available, ruleVars, strays,
                   local, serverVars, excused>>

InstallEnds(i) ==
    /\ pc[i] = "starting"
    /\ Returned(i)
    /\ install' = "done" /\ Answers(i)
    /\ UNCHANGED <<worldVars, installed, listener, children, proc, available, ruleVars, strays,
                   local, serverVars, excused>>

-----------------------------------------------------------------------------

UsbProceeds(u) ==
    /\ UsbStep(u)
    /\ UNCHANGED <<local, callVars, serverVars, install, excused>>

\* A call goes on from where it is suspended.
Proceeds(u) ==
    \/ UsbProceeds(u)
    \/ LanStarts(u) \/ Listens(u) \/ WebListens(u) \/ StartEnds(u)
    \/ StopCloses(u) \/ LanStops(u) \/ WebCloses(u) \/ StopEnds(u)
    \/ RetryEnds(u)
    \/ InstallStarts(u) \/ Downloaded(u) \/ Installed(u) \/ InstallEnds(u)

Next ==
    \/ \E u \in Callers : Proceeds(u)
    \/ \E u \in Callers : StartBegins(u) \/ StopBegins(u) \/ RetryBegins(u) \/ InstallAsked(u)
    \/ /\ UsbipdListens \/ UsbipdEnds
       /\ UNCHANGED <<local, callVars, serverVars, install, excused>>

Spec == Init /\ [][Next]_vars

-----------------------------------------------------------------------------

TypeOK ==
    /\ UsbTypeOK
    /\ local \in Servers \cup {None}
    /\ pc \in [Callers -> Starting \cup Stopping \cup Installing \cup {"idle", "retrying"}]
    /\ srv \in [Callers -> Servers \cup {None}]
    /\ \A u \in Callers : srv[u] # None <=> pc[u] \in Starting \cup Stopping
    /\ \A u \in Callers : of[u] # None <=> at[u] # "idle"
    /\ made \subseteq Servers
    /\ open \in [Servers -> SUBSET {"tunnel", "web"}]
    /\ keeps \subseteq Servers
    /\ tap \in Servers \cup {None, "other"}
    /\ install \in {"idle", "downloading", "installing", "starting", "done", "error"}
    /\ excused \subseteq Servers

InHand(s) == \E u \in Callers : srv[u] = s

Owns(s) == open[s] # {} \/ s \in keeps \/ tap = s \/ proc[s] \in children

\* No server goes on behind the GUI's back: one that listens, that pings, that has the LAN
\* device or a usbipd of its own is held or being started or stopped (gui.py:230-281,
\* server.py:624-665).  Three things lose one: a start that fails half-way, two starts at
\* once, and a stop while the manager is being started again.  And a usbipd that was
\* spawned is known to its manager, unless the manager was started again while it ran.
NothingForgotten ==
    /\ \A s \in Servers : Owns(s) => local = s \/ InHand(s) \/ s \in excused
    /\ children \subseteq {proc[s] : s \in Servers} \cup strays

\* A manager that the GUI shows as able to share has been by the firewall since it found
\* usbipd, unless it is being started or the firewall is switched off.
Settled(s) == available[s] /\ ~ windows /\ firewall /\ \A u \in Callers : of[u] # s

\* What the GUI shows is so.  A server shown as running has both of its listeners and its
\* keepalive, whatever other requests do (gui.py:254, 272).  If it says that devices can be
\* shared, the firewall has its rule, or this manager has logged that there is none
\* (server.py:72-73, 84-99).  And an installation shown as busy, which keeps another one
\* from being begun, is under way (gui.py:318-354, 504).
ShownIsTrue ==
    /\ \A s \in Servers : local = s =>
         /\ open[s] = {"tunnel", "web"} /\ s \in keeps
         /\ Settled(s) => rule \/ s \in warned
    /\ install \in Installing => \E i \in Installers : pc[i] = install

\* AUDIT.md:27-29: "on Linux, an iptables REJECT rule blocks non-loopback TCP/3240 so only
\* the tunnel can reach usbipd (fail-closed; ...)": a server that shares devices does so
\* behind the rule.  The code goes on without it (server.py:87-99).
FailClosed == \A s \in Servers : local = s /\ Settled(s) => rule
=============================================================================
