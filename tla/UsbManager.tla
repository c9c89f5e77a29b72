------------------------------ MODULE UsbManager ------------------------------
(***************************************************************************)
(* The usbip backends of a server (src/usbferry/server.py, UsbipManager    *)
(* and WindowsUsbipManager): each server object has a manager that finds    *)
(* usbipd or brings it up, and stop() ends what it spawned.  start() is     *)
(* called by the server's start, by the GUI's retry route and after an      *)
(* installation, and two calls of it may overlap.                           *)
(*                                                                          *)
(* usbipd, its Windows service and the user who is asked for rights are the *)
(* environment.  Messages and the flag `installable` are left out.          *)
(***************************************************************************)
EXTENDS Naturals, FiniteSets

CONSTANTS
    Servers,   \* bound: the server objects ever made
    Callers,   \* bound: calls of start() at one time
    Children,  \* bound: usbipd processes spawned without -D
    None       \* Python's None

ASSUME UsbManagerAssumption == {None, "other"} \cap (Servers \cup Callers \cup Children) = {}

VARIABLES
    windows,    \* which of the two managers it is
    mayStart,   \* start_daemon, and on Linux a usbipd in PATH
    firewall,   \* Linux: the setting of that name
    installed,  \* Windows: does the service exist?
    listener,   \* who listens on the usbip port: None, a child, or "other": the system's
                \* usbipd, one of `usbipd -D`, or the service
    children,   \* the spawned processes that run
    proc,       \* self._proc, None also for a process that has ended
    available,  \* self.available
    rule,       \* is there an iptables rule that keeps the network away from usbipd?
    warned,     \* history: the servers whose manager last logged that there is no rule
    at,         \* where each call of start() is suspended
    of,         \* the server whose manager it was called on
    strays      \* history: processes that were running when self._proc was overwritten

worldVars == <<windows, mayStart, firewall>>
ruleVars == <<rule, warned>>
usbVars == <<worldVars, installed, listener, children, proc, available, ruleVars, at, of, strays>>

Suspended == {"looking", "daemonizing", "querying", "elevating", "polling", "hardening"}

UsbInit ==
    /\ windows \in BOOLEAN /\ mayStart \in BOOLEAN
    /\ firewall \in (IF windows THEN {FALSE} ELSE BOOLEAN)
    /\ listener \in {None, "other"}
    /\ installed \in (IF windows /\ listener = None THEN BOOLEAN ELSE {TRUE})
    /\ children = {} /\ proc = [s \in Servers |-> None]
    /\ available = [s \in Servers |-> FALSE]
    /\ rule \in (IF windows THEN {FALSE} ELSE BOOLEAN) /\ warned = {}
    /\ at = [u \in Callers |-> "idle"] /\ of = [u \in Callers |-> None]
    /\ strays = {}

\* A call of start() begins.
UsbStarts(u, s) ==
    /\ at' = [at EXCEPT ![u] = "looking"]
    /\ of' = [of EXCEPT ![u] = s]

\* Mutation: whoever finds usbipd listening returns at once.
AfterLook(u, found) == at' = [at EXCEPT ![u] = "done"]

\* What follows the last look: the firewall, on Linux, if it is wanted and the manager is
\* available now or was before.
Then(u, found) ==
    at' = [at EXCEPT ![u] = IF ~ windows /\ firewall /\ found THEN "hardening" ELSE "done"]

\* The first look at the port.
Looks(u) ==
    /\ at[u] = "looking"
    /\ \/ /\ listener # None
          /\ available' = [available EXCEPT ![of[u]] = TRUE]
          /\ Then(u, TRUE)
       \/ /\ listener = None /\ mayStart
          /\ at' = [at EXCEPT ![u] = IF windows THEN "querying" ELSE "daemonizing"]
          /\ UNCHANGED available
       \/ /\ listener = None /\ ~ mayStart
          /\ Then(u, available[of[u]])
          /\ UNCHANGED available
    /\ UNCHANGED <<worldVars, installed, listener, children, proc, ruleVars, of, strays>>

\* `usbipd -D` returned.  If it failed, usbipd is run as a child, unless that fails too.
Daemonized(u) ==
    /\ at[u] = "daemonizing"
    /\ at' = [at EXCEPT ![u] = "polling"]
    /\ \/ UNCHANGED <<children, proc, strays>>
       \/ /\ children # Children
          /\ LET c == CHOOSE c \in Children : c \notin children
             IN /\ children' = children \cup {c}
                /\ proc' = [proc EXCEPT ![of[u]] = c]
          /\ strays' = strays \cup ({proc[of[u]]} \ {None})
    /\ UNCHANGED <<worldVars, installed, listener, available, ruleVars, of>>

\* `sc query` returned: without the service there is nothing to start.
Queried(u) ==
    /\ at[u] = "querying"
    /\ at' = [at EXCEPT ![u] = IF installed THEN "elevating" ELSE "done"]
    /\ UNCHANGED <<worldVars, installed, listener, children, proc, available, ruleVars, of, strays>>

\* `net start`, with the user's consent or without.
Elevated(u) ==
    /\ at[u] = "elevating"
    /\ at' \in {[at EXCEPT ![u] = "polling"], [at EXCEPT ![u] = "done"]}
    /\ UNCHANGED <<worldVars, installed, listener, children, proc, available, ruleVars, of, strays>>

\* The last look after the waiting.  On Windows `available` is never taken back.
Polled(u) ==
    /\ at[u] = "polling"
    /\ LET found == listener # None
       IN /\ available' = [available EXCEPT ![of[u]] = found \/ (windows /\ @)]
          /\ Then(u, found)
    /\ UNCHANGED <<worldVars, installed, listener, children, proc, ruleVars, of, strays>>

\* _harden_firewall: the rule is looked for, and added.  If iptables is missing, or does not
\* add it, a warning is logged and the start goes on.
Hardened(u) ==
    /\ at[u] = "hardening"
    /\ rule' \in {rule, TRUE}
    /\ warned' = IF rule' THEN warned \ {of[u]} ELSE warned \cup {of[u]}
    /\ at' = [at EXCEPT ![u] = "done"]
    /\ UNCHANGED <<worldVars, installed, listener, children, proc, available, of, strays>>

UsbStep(u) ==
    \/ Looks(u) \/ Daemonized(u) \/ Queried(u) \/ Elevated(u) \/ Polled(u) \/ Hardened(u)

\* Who called start() goes on.
Returned(u) ==
    /\ at[u] = "done"
    /\ at' = [at EXCEPT ![u] = "idle"]
    /\ of' = [of EXCEPT ![u] = None]

\* Processes end, and with them what they listen on.
Die(gone) ==
    /\ children' = children \ gone
    /\ listener' = IF listener \in gone THEN None ELSE listener
    /\ proc' = [s \in Servers |-> IF proc[s] \in gone THEN None ELSE proc[s]]
    /\ strays' = strays \ gone

\* Mutation: what was spawned is left running.
UsbLeaves(s) == UNCHANGED <<children, listener, proc, strays>>

\* stop(): the last process that was spawned is terminated.
UsbStops(s) == Die({proc[s]} \ {None})

-----------------------------------------------------------------------------
(* usbipd.                                                                  *)

\* One of those that run gets the port: a child, or usbipd of the system or of -D; the
\* service only if it is installed.
UsbipdListens ==
    /\ listener = None
    /\ listener' \in children \cup (IF windows /\ ~ installed THEN {} ELSE {"other"})
    /\ UNCHANGED <<worldVars, installed, children, proc, available, ruleVars, at, of, strays>>

\* The one that listens ends, or a child that cannot listen does.
UsbipdEnds ==
    /\ \/ listener = "other" /\ Die({"other"})
       \/ \E c \in children : Die({c})
    /\ UNCHANGED <<worldVars, installed, available, ruleVars, at, of>>

UsbTypeOK ==
    /\ windows \in BOOLEAN /\ mayStart \in BOOLEAN /\ firewall \in BOOLEAN
    /\ installed \in BOOLEAN
    /\ listener \in Children \cup {None, "other"}
    /\ children \subseteq Children
    /\ proc \in [Servers -> Children \cup {None}]
    /\ available \in [Servers -> BOOLEAN]
    /\ rule \in BOOLEAN /\ warned \subseteq Servers
    /\ at \in [Callers -> Suspended \cup {"idle", "done"}]
    /\ of \in [Callers -> Servers \cup {None}]
    /\ strays \subseteq Children
=============================================================================
