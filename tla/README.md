# A verification project for usbferry

usbferry shares USB devices and a virtual LAN between machines: a server runs
next to usbipd, a client opens one TLS connection to it, and everything (USB/IP
connections, Ethernet frames, control requests) is multiplexed over that
connection. A GUI runs the client, and may run a server of its own. All of it is
Python, mostly asyncio: one thread per process, and tasks that run into each
other wherever one of them awaits.

This directory holds TLA+ modules translated from the Python source, the TLC
configurations that check them on small instances, and theorems about them that
TLAPS proves for instances of every size. File and line numbers refer to
`src/usbferry/`.

## The system

| component | state it keeps | operations | where |
|---|---|---|---|
| server sessions | `sessions`; per session `channels`, `lan_ch`, `closed`, `last_seen` | hello, one frame at a time, open / close a channel, one pump task per channel, keepalive, `stop()` | server.py 468-509, 623-889 |
| authentication throttle | `_auth_fails`, a list of times per address | `authorize` | server.py 548-571 |
| token store | `server.json`, the server's `cfg["tokens"]`, `_cfg_mtime` | load, add, remove, save, reload on a new mtime, by the server, the GUI's routes, the web admin and the `add-token` / `rm-token` processes | server.py 512-621, common.py 102-127, `__main__.py` 185-201, gui.py 447-474, webui.py 99-154 |
| client tunnel | `usb_conns`, `_next_ch`, `_ctrl_futs`, `_tasks`, `tap` | connect, forward a local connection, frame loop, control requests, cleanup | client.py 33-345 |
| certificate pinning | `client.json` | trust on first use, compare | client.py 86-121, certutil.py |
| GUI connection manager | `client`, `client_task`, `status`, `_manual_disconnect`, `_reconnect_profile`, `_reconnect_attempts`, `attached` | connect, disconnect, the client's task, the reconnect loop, attach, detach | gui.py 91-227 |
| GUI local server, installer | `local_server`, `usbip_install` | start, stop, admin routes, retry, install usbipd-win | gui.py 229-354, 447-510, winsetup.py, server.py 624-665 |
| LAN manager | `sessions`, `active`, leases in `server.state.json` | start, broadcast, join, leave, assign an address, stop | server.py 321-471 |
| TAP devices | queues, waiters, `closed` | read, write, close | tapw.py |
| usbip managers | `available`, `error`, `_proc` | find or start usbipd, guard its port, list, bind, unbind, stop | server.py 24-320 |
| command line | - | serve, connect, list-usb, attach, token commands | `__main__.py` |
| HTTP, web pages | - | parse one request, serve pages | httpd.py, webui.py |

How they interact. The client and the server share only the TLS connection, two
FIFO streams of frames. On the server, a session's handler, its pumps, keepalive
and `stop()` share the `Session` object and call each other's cleanup directly;
the LAN manager holds a second set of the sessions. The token store is shared by
*processes*, through a file and its mtime. The GUI's HTTP routes, the client's
task, the reconnect loops and the installer share the attributes of one `GuiApp`. A
client's requests are answered by the server's usbip manager, which asks a usbipd that
the operator, the system and other programs change; `attach` runs the `usbip` tool,
which imports a device into the kernel over the client's own forward.

What is hard here:

* **Interleaving at awaits.** A handler checks an id, awaits `open_connection`, then
  registers the channel; a pump that ends late closes the channel under *its id*;
  `disconnect` and `connect_profile` await in the middle of changing five
  attributes, and a reconnect loop may wake up at each of these points.
* **Teardown from three sides.** A session ends through its handler, keepalive or
  `stop()`, a channel through the client's CLOSE, usbipd's end of stream, or the
  session; a forwarded connection has two ends that may hang up together.
* **Stale state.** The server trusts its copy of the tokens while an mtime looks
  unchanged, and the GUI's routes write that copy back.
* **Late answers.** A control request may be given up before its answer comes; a tool
  that was started goes on when the task that awaits it is cancelled.
* **Ends at every await.** A client may be cancelled, or lose its connection, between
  any two steps of its start, of `on_ready` and of its own cleanup.
* **Crashes.** A process may die between any two system calls of a save.
* **Time.** A sliding window, a keepalive timeout, reconnect backoff.

What makes each component correct is stated with its module below.

## The modules

| module | what it models | properties |
|---|---|---|
| `ServerSession` | the server's sessions: handlers, channels, pumps, keepalive, `stop()` | below |
| `ServerSessionProofs` | theorems about `ServerSession` | below |
| `Forwarding` | abstract: what a port forward promises | implemented by `Tunnel` |
| `Tunnel` | the client's forward composed with `ServerSession` over two queues of frames | implements `Forwarding` |
| `TunnelProofs` | theorems about `Tunnel`: it implements `Forwarding` | below |
| `AuthThrottle`, `AuthThrottleProofs` | `authorize`, and theorems about it | below |
| `TokenStore`, `TokenStoreProofs` | `server.json` and the processes that share it, and theorems about them | below |
| `GuiConnection`, `GuiConnectionProofs` | the GUI's connection, calls, client tasks and reconnect loops, and theorems about them | below |
| `KernelTap` | a TAP device: read, write, wake-ups, close | |
| `LanManager` | the server's side of LAN sharing on a `KernelTap`: start, pump, writers, leases, stop, over restarts | below |
| `LanManagerProofs` | theorems about `LanManager` | below |
| `ControlRequests` | control requests: the client's ids and futures, the server's answers, devices that come and go | below |
| `ClientRun` | `ControlRequests` with the life of the client and the commands that run it | below |
| `ClientRunProofs` | theorems about `ControlRequests` and `ClientRun` | below |
| `UsbManager` | a server's usbip manager: usbipd, its service, the firewall | with `LocalServer` |
| `LocalServer` | `UsbManager` with the server of the GUI: start, stop, retry, installation | below |
| `LocalServerProofs` | theorems about `LocalServer` | below |
| `MC*` | the instances TLC checks: sets of model values and symmetry | |

Conventions. An asyncio task is a program counter (`phase`, `pumpState`, `connPc`,
`pc`, `run`); what a task does between two suspension points is one action, since
nothing else can run there. An await that cannot suspend (a drain far below the
write buffer's limit) is no suspension point, and says so. A cancellation is a flag
set by `cancel()` and delivered at the task's next suspension; a task cancelled
before its first step runs neither its body nor its `finally`, which is an action of
its own (`PumpDropped`, `RunDropped`, `ConnDropped`). Payloads, wording and logging
are left out; an input is chosen with `\E` when it is read. Definitions that begin
with `\* Mutation:` are plausible bugs of the definition that follows. They are used
by no specification: each is put in the place of the correct one to see that the
property named with it fails.

### ServerSession (server.py 468-509, 654-889)

`phase[s]` says where the handler of session `s` is suspended: reading the hello,
reading a frame, in a reply's drain, in `open_connection`, or in the drain of a
usbipd writer. `chans[s]` is `session.channels`, and `registered` is
`server.sessions`. `sockets` are the usbipd writers not closed; `conn` is the tunnel
as the server's transport has it: up, silent (the peer is gone and no packet says
so), or lost. `kick()` and the cleanup make it lost; a handler notices only at an
await on that connection.

* `NothingOrphaned`: an open usbipd connection, or a pump that is running and not
  cancelled, is registered under its own session and id. The id is tested before
  the await of `open_connection` and registered after.
* `ChannelsLive`: what is registered has an open writer and a running pump of its own.
* `ChannelCap`: the cap counts the channel being opened.
* `TornDownWhileRunning`: a handler that has ended leaves no channel, no connection,
  no LAN membership, no registration, as long as `stop()` was not called.
* `LanMembersOpen`: the LAN's second set of sessions agrees with `lan_ch`.
* `ChannelKept` (action property): a channel disappears only by CLOSE of its id, its own
  pump's end, or the session's cleanup. It is about clients that open no id twice, and checked
  in `Tunnel`, as `ChannelsKept`, for the client there is.
* `DeadReaped`, `PumpsEnd` (liveness): a vanished client is reaped by keepalive; no pump
  outlives its session for good. A pump that reads from usbipd is woken by usbipd or by its
  cancellation and by nothing else, so that the cleanup has to find it. A channel that is
  registered after `stop()` closed its session is found by no cleanup: its pump may stay
  (`Stranded`).

Without the exception for `stop()`, `TornDownWhileRunning` is violated (see Findings).
The instances, and all theorems but `TypeCorrect` and `CapKept`, are about a client whose usbip
and lan ids do not overlap (`DisjointIds`), as this one's do not.

### Tunnel and Forwarding (client.py 159-180, 236-298, 328-345 with ServerSession)

`Forwarding` is the view of a user: local connections are accepted, joined to a
usbipd connection or refused; `sent` and `got` are what went in and came out, per
direction; an end may be closed by the tunnel only if its peer has hung up *and all
it sent has come out*, or the tunnel is lost.

`Tunnel` has the client's tasks (`connPc`), its `usb_conns` (`held`, `chOf`), its
counter of ids, and two queues of frames, `up` and `down`. Every server step is an
action of `ServerSession` (through `INSTANCE`, with `unread` the length of `up`)
joined with the frame it takes or sends. What a frame says carries the connection
it is *meant* for, so that a mix-up shows.

* `Forwards`: `Tunnel` implements `Forwarding`. The refinement mapping takes an
  end as reached when a pump was opened for it, and as closed when the pump's
  writer is.
* `OpensOnce`: `Tunnel` implements `ServerSession` with `ReuseIds = FALSE`. This is the
  assumption on the client under which `ChannelKept` holds; the server part of `Tunnel`
  is instantiated with `ReuseIds = TRUE`, so that it does not hold by construction.
* `ChannelsKept`: `ChannelKept` of `ServerSession`, with this client.
* `HangUpsArrive`: when no task has anything left to do, no end is open whose peer has
  hung up, whichever frames crossed. It has two parts: `AtRest`, the guards of all steps
  but those of the peers, holds when none of them is `ENABLED`; and `AtRest` implies `HungUp`.

Left out here: PING and control frames, the LAN, `stop()`, and the size of write
buffers (a cycle of blocked drains across both frame loops is a hazard listed in
`PROJECT.json`, and in the plan).

### AuthThrottle (server.py 548-571)

The list of an address is only filtered, appended to and counted, so it is a set of
failures, each with an age: times are kept as ages, so that no clock has to be bounded.
`Failures` are what tells an address's failures apart; they are used again, and more than
`Limit` of them are enough (`FailureFree`, proved). `compared` is a history of the wrong
tokens that were compared at all. `TypeOK` says, beside the types, that no address has more
than `Limit` failures on record (`FewKept`): who is locked out adds nothing to the list.

* `GuessBudget`: never more than `Limit` guesses within a window, wherever it starts.
* `LockoutDeserved`: nobody is locked out for expired failures or those of others.
* `LockoutEnds`: a lockout ends by time alone, also for one who keeps trying.

### AtomicTokens and TokenStore (server.py 512-621, common.py 102-127, `__main__.py` 185-201, gui.py 447-474)

Each system call that another process can come before or after is an action. Files are
inodes: `server.json` and `server.json.tmp` are names, a writer may hold an inode
that lost its name. A save fails at any of its steps (`SaveFails`), and a process dies,
anywhere. A server whose save failed goes on with what it has in memory, under the mtime it
knew: `unsaved` remembers the tokens of these edits, until a save or a reload makes memory and
file the same again. `AtomicTokens` is what
the users of the store rely on: one document, of which an edit is one step, and
authentications decided by the document of one moment between their beginning and their end.

* `ActsAtomically`: `TokenStore` implements `AtomicTokens`, until edits race (`overlap`). An
  edit takes effect at the rename. An authentication is decided at its `getmtime` if nothing
  will be reloaded, and when the file is read otherwise; `answer` is empty until then. It may
  answer by an edit that the server failed to save, and by nothing else the document has not.
* `SerialPromises`: as long as no two edits ran into each other, the file is whole, a
  token reported as removed is rejected and one reported as added is accepted by every
  later authentication. An edit that was answered with an error was not reported.
* `CacheCurrent`: if the server holds the mtime of `server.json`, it holds its tokens, but for
  those of edits it failed to save, however commands race each other: the mtime is read
  *before* the file.

All three go on after a save that failed: that is no race. `RemovalPropagates`, and `FileWhole`
when two edits overlap, are violated (see Findings).

### GuiConnection (gui.py 91-227)

A call is a request of the local API or a turn of a reconnect loop; `pc` says at
which await it is suspended. The task of a client is `run`, with `stop` for its
cancellation. `asked` is the last thing the user asked for.

Nothing in the code keeps calls apart, and nothing in the model does: every overlap is a
behaviour. `overlap` remembers which there have been since all was last down (`AllDown`), and
the properties say which ones they survive: `"none"`; `"tool"`, if a call of the usbip tool met
another call, or a connect or disconnect met one of the tool; `"calls"`, if a connect or
disconnect began while another one was disconnecting or in `cli.connect()`. A connect that
waits for `ready` may be met by anything and counts as none.

The tool is taken at its word by the code and not by the model. `usbip_detach_ours` may return
with the device still imported (`DetachesOurs`), and `usbip attach` may be killed with the import
done, which the GUI takes for a failure (`AttachEnds`): `slipped` remembers that the kernel was
left with what was reported gone.

* `OneTunnel`: no client runs that the GUI does not hold.
* `StaysDisconnected`: a disconnect that was answered is not undone by a loop that wakes up.
* `ShownConnected`: a client that is up is shown so, whatever became of the one before.
  These three hold until `overlap` is `"calls"`.
* `PortsKnown`: devices the kernel has imported are not forgotten, as long as `overlap` is
  `"none"` and nothing slipped.
* `Recovers` (liveness): a lost tunnel is made again, over failed attempts: another client is
  started, unless the *user* asks for something else or the attempts are used up.
* `DisconnectHolds`: `StaysDisconnected` without a word on overlaps. Violated (`gui_race`).
* `SwitchHolds`: with no overlap at all, no client is up for a server that the user has left.
  Violated too: see Findings.

### KernelTap and LanManager (tapw.py 33-125; server.py 330-470, 695-700)

`call[t]` is where the call of a task is: about to run, waiting for its future, woken
(the future is done, the task has not run), or ended. `waiters` are the futures in
`_readers` and `_writers`, `callbacks` what the loop has registered. The kernel's side
(`queue`, `room`) changes by itself. `LanManager` adds the server: the pump is one
reader, each frame of a member a writer; as `send_data` does not await, nothing runs
between the pump's reads (`Busy`). A failed save or a full pool gives no address and
changes nothing. `server.state.json` has one writer at a time, because a second server
cannot have the same tap, and reads back what was saved (`save_json` is atomic for one
writer, see `TokenStore`).

* `StableLeases`: a token is given one address for good, and no two are given the same,
  over restarts with an edited subnet, saves that fail and a pool that is full. `gave` is
  a history of what the clients were told, so that a lease told and not saved shows.
* `DescriptorOwned`: no task reads or writes the descriptor after `close()`.
* `ActiveIsServed`: a LAN that hello and OPEN find active has a pump and an open device.
  It is stated up to `LanManager.stop`: a pump cancelled before its first step leaves
  `active` set.
* `ClosedCallsEnd`, `PumpWakes` (liveness): `close()` strands nobody; a frame wakes the pump.

### ControlRequests and ClientRun (client.py 33-234, 305-390; server.py 101-144, 746-772; `__main__.py` 115-185)

`asking[r]` is where a request is, `futs` is `_ctrl_futs`, and `up` and `down` are the
CTRL frames under way. A frame carries the request it is *meant* for beside its id, so
that an answer that reaches another one shows. The server answers one request at a time;
its answer is made of two calls of `usbip` (`ListsLocal`, `ListsExported`), between which
the operator may plug, share and unshare. `shared[r]` is a history: what was shared at
some time since `r` was made.

`ClientRun` adds `run`, where `UsbferryClient.run` is suspended; `cancelled`, a
cancellation that its task has not been told of; the frame loop, the forward, the tap and
its pump; and, for `attach`, `main` (where `cmd_attach` is suspended), the `usbip` process
(`tool`) and what the kernel holds (`imported`). `mode` is the command. An exception is a
disjunct of the step that raises it: `Fails` before the `try` of `run_connected`, which
cleans nothing up, and `CleansUp` inside it. `Told` is a cancellation delivered at any of
the awaits. The frame loop ends with the connection, or by a `ProtocolError` while the connection
is up (`LoopBreaks`): `run_connected` does not catch it, so that `run()` raises after its cleanup
and `cmd_attach` is left without its detach. A detach may fail unnoticed (`Detached`).

* `OwnAnswer`: a request returns its own answer, however late those of earlier ones come;
  the answer names only what was shared since it asked; whoever waits can still be reached.
* `NothingLeft`: after `run_connected` no listener, tap, pump, frame loop or connection is
  left. Its exceptions are named: an end before the `try` (`run = "failed"`), and a cleanup
  cancelled during `ip link delete`, which does not close the connection (`cutShort`).
* `ReleasedAtEnd`: when `attach` has ended the kernel holds no device of it, whichever of
  the tool, the tunnel and the command ended first. Not if the user interrupted it
  (`interrupted`; see Findings), nor in three ways that `Unhindered` names: `run()` killed the
  tool after 30 s, which then counts as failed whatever it has imported; the detach failed; a
  `ProtocolError` ended the client.
* `ClientEnds` (liveness): an answer comes without help from its timeout while the
  connection lasts (on_ready needs the frame loop to run beside it), and a client that has
  lost its connection ends, with its command.

Two further values of the model stand for what the code does leave behind: `tap = "leaked"`,
and a connection that is up with `run = "failed"`.

### UsbManager and LocalServer (server.py 24-99, 146-229, 624-665; gui.py 229-354, 485-510)

`UsbManager` has one manager per server object: `at[u]` is where a call of its `start()` is
suspended, `proc` the usbipd it spawned, `listener` who listens on the usbip port, `firewall`
the setting of that name, and `rule` whether iptables keeps the network away. iptables may be
missing or refuse the rule: a warning is logged (`warned`) and the start goes on (`Hardened`).
A child with a lost handle is in `strays`.
`LocalServer` has the requests of the API and the installer's task (`pc`), the server the
GUI holds (`local`), the one each call has in hand (`srv`), and what each server has open.
No call locks another one out. `windows` chooses the manager.

* `NothingForgotten`: a server that listens, pings, has the LAN device or runs a usbipd is held
  by the GUI or in the hand of a call; a spawned usbipd is known to a manager. Exceptions,
  which the code does not avoid: a start that failed half-way, two starts at once, a stop
  while the manager is being started (`excused`), and a manager started twice (`strays`).
* `ShownIsTrue`: a server shown as running has both listeners and its keepalive; if it
  says that devices can be shared with the firewall switched on (Linux), and its manager is
  not being started, then the rule is there or this manager has logged that it is not; an
  installation shown as busy is under way.
* `FailClosed`: in that case the rule is there. Violated (`local_firewall`).

## The runs

| run | instance | states | what it shows |
|---|---|---|---|
| `sessions` | 1 session, 2 pumps, 2 usbip ids, 1 LAN id, cap 1, ids reused | 182k | all of `ServerSession` but `ChannelKept` |
| `tunnel` | 2 local connections, 2 pumps, 2 ids, 1 piece of data, 2 frames in flight | 203k | `Forwards`, `OpensOnce`, `ChannelsKept`, `HangUpsArrive` |
| `auth_throttle` | 2 addresses, limit 2, window 3, 3 failures | 108k | `AuthThrottle` |
| `token_store` | 1 server, 2 commands, 2 tokens, 3 files, 1 server edit, 2 starts | 1.1M | `ActsAtomically`, `SerialPromises`, `CacheCurrent` |
| `token_local_route` | as above | violation | a removed token written back |
| `gui_connection` | 1 request, 1 loop, 2 clients, 2 profiles, 2 attempts | 319k | `GuiConnection` |
| `gui_race` | as above, 1 profile | violation | a disconnect undone |
| `lan_manager` | 1 pump, 2 writers, 2 frames queued, 3 tokens, 2 subnets of 2 and 1 free hosts | 130k | `KernelTap`, `LanManager` |
| `client_run` | 3 commands, 2 requests, 1 device | 232k | `ControlRequests`, `ClientRun` |
| `attach_ctrl_c` | as above | violation | Ctrl-C skips the detach |
| `local_server` | 2 servers, 2 requests, 1 installer, 2 children, Linux with the firewall and without, Windows | 2.5M | `UsbManager`, `LocalServer` |
| `local_firewall` | as above | violation | devices shared with usbipd open to the network |

Why the bounds are enough. Sessions interact only through `stop()`, keepalive and the LAN,
which treat each by itself; one session with two pumps has two generations of a
channel under one id, or one that closes late while the next is being opened. A cap of 1 makes it bite at
the second OPEN. `MaxUnread = 1` loses nothing, because what a frame says is chosen when
it is read. `KickAge = 0` is one interval of grace. In `tunnel` two connections can be
confused with each other, and a datum that is lost, misdelivered or late shows with one
piece of data (that pieces keep their order needs two, and follows from FIFO queues);
the tunnel is lost only while at most `LossConns` connections were made, which keeps
the products of independent teardowns out. Ids: the next one may be the last that fits,
so that the client runs out of them. In `auth_throttle` a limit of 2 and a window of 3
have failures of three different ages, and three failures one more than are ever kept. In
`token_store`, two commands and the server make all pairs of writers, two starts a restart
after a death, and three files are the two that have a name and one that lost it under its
writer; that a second edit of the server may save a first one that it failed to save was checked
in an instance with one command and two server edits, and is proved. In `gui_connection` a
request and a loop are two calls in each other's awaits, two clients are the one that is left
and the one that is made, two attempts one that fails and another; the invariants were also
checked for two requests at a time (1.2M states), and are proved for any number. In `lan_manager` two writers
wait together and one may begin while another waits; three tokens fill the larger pool,
and the server's address moves onto one that may be leased. In `client_run` two requests
are one whose answer is late and one that it could be given to; one device is enough,
because an answer is wrong in each device by itself; every command goes through its whole
life once. In `local_server` two servers are one that is held and one that is being made,
two requests and the installer are three calls of `start()` under way at once, and
two children are one that is known and one that is overwritten. `local_server` has no
liveness, see Fairness.

Deadlock is not checked where the system may stop: all connections closed, all commands
done, the server stopped, the user idle. `auth_throttle` checks it.

`SYMMETRY` is used only in runs of invariants and of steps (`ActsAtomically` has no fairness), over model values that no property names
and no `CHOOSE` picks from (in `local_server`: requests and installers).

## Fairness

* `ServerFairness`: the event loop runs every ready task; the keepalive sleep ends;
  `open_connection` returns or raises; a drain ends unless its peer does not read. A
  drain to a silent peer is *not* assumed to end, and a hello is assumed to (15 s).
  A read from usbipd is not assumed to end at all, least of all because the tunnel is lost:
  `PumpProceeds` has the end of a pump only where it writes to the tunnel, or was cancelled.
* `UsbipdFairness`: usbipd does not stop reading for good. `DeadReaped` needs it: without it
  a handler that is suspended in a drain to usbipd never notices that it was kicked.
* `ClientRun`: every await of a start, of `on_ready` and of an end has a timeout in the code
  (15 s for the welcome and for a command, 30 s for the tool) or ends by itself; the loop
  runs what is ready; the server answers. The timeout of a request is relied on only once
  the connection or its frame loop is gone, so that `ClientEnds` says that answers do come. Nothing is assumed
  of the user, the network, the kernel, or of the tool's success.
* `LocalServer` states no fairness: from Python 3.12 `wait_closed()` waits for the clients of
  the web admin, which are read without a timeout (webui.py 70), so that a stop ends when
  they do. A liveness property would repeat that assumption and say nothing of the code.
* `AuthThrottle`: the clock ticks.
* `LanManager`: the loop runs tasks that are ready and calls back for a descriptor that is.
  Nothing is assumed of the kernel, the members, or of starts and stops.
* `GuiConnection`: awaits of the GUI's own calls are bounded by timeouts in the code (8 s
  for ready, 15 s and 30 s for commands), and the sleep of a loop ends: weak fairness of each,
  whatever they run into. Nothing is assumed of the user, of the network, of what the tool does,
  or of how often an attempt fails.

## What is proved

`ServerSessionProofs` proves, for every number of sessions, pumps and ids and every cap:

| theorem | statement |
|---|---|
| `TypeCorrect` | `Spec => []TypeOK` |
| `Inductive` | `DisjointIds => (Spec => []IndInv)` |
| `NeverOrphaned`, `NoZombies` | `[]NothingOrphaned`, `[]ChannelsLive` |
| `NothingLeft`, `LanMembership` | `[]TornDownWhileRunning`, `[]LanMembersOpen` |
| `CapKept` | `[]ChannelCap` |
| `ChannelsKept` | `ChannelKept`, if no id is used twice |
| `EachPumpEnds` | `PumpsEnd` for each session and pump † |
| `SilenceRunsOut`, `LossIsNoticed` | the steps of `DeadReaped` † |

† from `FairSpec` and `[]RunsWhenDue`, see *Liveness* below.

Assumptions: `ConstantsAssumption` (model values are distinct, ids finite, bounds natural
numbers) and, where it is named, `DisjointIds`: the client does not use one id
for both channel types. client.py opens the LAN as 1 and usbip from 100 on; the
server does not check it. `CapKept` needs no assumption on ids.

The argument. None of the invariants is inductive alone. `OpenDone` overwrites
`chans[s][pending[s]]`: that nothing is orphaned needs the id to be still free
(`OpeningInv`), which holds because only the handler of `s` registers channels of `s`.
`PumpFinishes` closes whatever its id names: that this leaves no zombie needs
`ChannelsLive` for the *other* pump, and that a finished pump owns no socket
(`PumpInv`). That a session's end leaves nothing needs that, before `stop()`, a session
is closed exactly when its handler is done (`ClosedInv`): this is what `stop()` breaks,
and the reason for the exception in `TornDownWhileRunning`. Their conjunction with
`TypeOK`, `IndInv`, is inductive: there is a lemma for each group of actions (the handler,
the cleanup, the closing of a channel, the pumps), and one per conjunct. `ChannelCap` is
proved with finite cardinalities over `TypeOK` and `OpeningInv` only. `ChannelsKept` adds
`IdsUsedOnce`: at most one pump ever has an id, so the pump that closes it is its own.

The last three need `LifeInv` (a closed session has lost its connection, a handler that has
ended closed its session, and before `stop()` no session is both closed and registered), and
lemmas that say what *any* step does to one pump of an ended session (`EndedPumpMoves`), to a
silent session and to one that has lost its connection. `LossIsNoticed` goes through all places
where the handler may be suspended: an OPEN under way, a drain to usbipd, a reply, the loop.
`DeadReaped` follows from the two theorems by induction on what is unread and on the intervals
left before `KickAge`, `PumpsEnd` by induction over the pumps of a session; these inductions
are not formal, since the provers have none for temporal formulas.

`TunnelProofs` proves, for all local connections, pumps, ids, caps and bounds:

| theorem | statement |
|---|---|
| `OpensNoIdTwice` | `Spec => OpensOnce`: the client is one that `ServerSession` assumes |
| `ChannelsKeptInTunnel` | `Spec => ChannelsKept`: what `ChannelsKept` of `ServerSessionProofs` says, of this client |
| `ImplementsForwarding` | `Spec => Forwards`: the tunnel implements `Forwarding` |
| `HangUpsReach` | `Spec => [](AtRest => HungUp)`: the second part of `HangUpsArrive` |
| `TypeCorrect` | `Spec => []TypeOK` |

from `TunnelAssumption`: ids are numbers, at least one fits a frame, the LAN's is none of
them, at least one frame may be in flight, and "no pump", "no id", "no connection" are
distinct from all others.

The argument has four parts.

* *Ids.* `IdsInv`: every id in `usb_conns`, in an OPEN under way, in an OPEN being served or
  on a pump is below the counter, and each OPEN under way asks for an id that nothing else
  has. So a step of the server with `ReuseIds = TRUE` is one with `ReuseIds = FALSE`. The
  proof also shows that the loop over ids in use (client.py 246-247) never passes over any.
* *The server.* By `OpensOnce`, what `ServerSessionProofs` shows of every server whose client
  opens no id twice holds in the tunnel. `ServerInvariant` takes its `IndInv` over by
  `INSTANCE`; no step of the server is proved twice.
* *The wires.* `WireInv` says what is under way. `ConnsInv`: each connection that was forwarded
  has an id of its own. `PumpsInv`: each pump, and the OPEN being served, is that of one
  connection, with its id. `UpInv` and `DownInv`: a frame bears the id of the connection it is
  about, an OPEN comes before everything else of its connection, and no data after its CLOSE.
  `EndsInv`: an end is closed, and a CLOSE is under way, only because the peer hung up, the
  OPEN was refused, or the tunnel is lost. `FlowInv`: what was sent and has not come out is
  under way in order, without gaps while the end is open, and all of it while the tunnel is up.

* *Hang-ups.* `RestInv` says who still has to act. `SessionUp`: the server serves this client
  from the hello on, and lets go of the connection when the session ends. `LateUnknown`: a local
  connection that the client's cleanup has not closed came after it, and the server never heard
  of it. `HangUpInv`: while the tunnel is up, the CLOSE of an end that hung up is under way,
  unless it has arrived. When nothing has anything left to do, no frame is under way and no
  task is about to send one, so that the other end is closed.

Each step maps to one of `Forwarding` or to a stutter. `Accept` is `Accept`; a refused
OPEN, a failed `open_connection` and an id that does not fit are `Refuse`; `OpenDone` is
`Reach`; a pump that reads an end of stream is a hang-up of usbipd; a read at either end is
`Send`, and the frame written into the other end is `Deliver`. A CLOSE that is taken, and
the end of a pump on either side, close an end: `WireInv` shows that its peer has hung up
and that all the peer sent has come out (the CLOSE is the last frame of its connection, so
that nothing is under way when it is taken). The ends of sessions are `Lose`. All else
(starts, drains, OPENs sent, data that arrives for a closed end) is a stutter.

An earlier form of `FreeId` let the counter stop anywhere above the ids in use; the proof of
`OpensNoIdTwice` asked for the *least* free id, which is what the loop takes.

`LanManagerProofs` proves, for all tokens, addresses, configurations, writers and queues:

| theorem | statement |
|---|---|
| `TypeCorrect` | `Spec => []TypeOK` |
| `LeasesStable` | `Spec => []StableLeases` |
| `DeviceSafe` | `Spec => []DescriptorOwned` |
| `ActiveServed` | `Spec => []ActiveIsServed` |
| `NoWakeupLost` | `Spec => []WaitersHeard` |
| `FramesFindPump` | `PumpWakes` † |
| `ClosedLetsGo` | `ClosedCallsEnd` † |

† from `FairSpec` and `[]RunsWhenDue`, see *Liveness* below;
all from `KernelTapAssumption` and `LanManagerAssumption` (the pump is the only reader,
addresses are numbers, configurations name addresses). `LeasesInv` says that what was given
is what the file has, and that the file has no address twice. `DeviceInv` adds to
`DescriptorOwned` and `ActiveIsServed` what they rest on: only a stop closes the device, a server that starts has
an open device and no calls, whoever is in a call has an open or a closed device (and
not a leaked one), and only waiting tasks are in the lists of waiters. `WaitersHeard` is the
converse of that: whoever waits is in the list of its side, and the loop listens for that
side. So a frame, room for one, and `close()` each find the task, which is what
`FramesFindPump` and `ClosedLetsGo` rest on; the latter follows each task of a closed device
through the turns of the loop that it takes to end.

`ClientRunProofs` proves, for all numbers of requests, all devices, the three commands and both values of `expose_unexported`:

| theorem | statement |
|---|---|
| `OwnAnswers` | `Spec => []OwnAnswer` |
| `NothingStays` | `Spec => []NothingLeft` |
| `Released` | `Spec => []ReleasedAtEnd` |
| `TypeCorrect` | `Spec => []TypeOK` |

from `ControlAssumption` and `RunAssumption` (None is neither a number nor a Boolean).
`OwnAnswer` says nothing of the frames under way, and is not inductive. `RequestInv` adds that
the id of a request is its number, because ids count up and requests are made in order
(`Numbered`); that every frame names the request it is for, and that this request waits or has
taken its future away (`FramesOK`: this is what makes a late answer harmless); and that what
is shared now was shared since every waiting request asked (`Remembered`). All steps of the
client are sorted into six kinds (`CtrlStep`: nothing, a request gives up, asks, is answered,
the server works, a device changes), and there is a lemma for each kind. `NothingLeft` needs what
a cleanup that is suspended has done already (`LeftInv`). `ReleasedAtEnd` needs that an
outcome is known exactly when the tool has ended, that a tool that is not the user's orphan
is awaited by `run`, and that the client is cancelled by `cmd_attach` only after the tool has
ended (`ToolInv`, `AloneInv`); and that what was hindered once stays so (`HindranceStays`).

`LocalServerProofs` proves, for any number of servers, requests, installations and children:

| theorem | statement |
|---|---|
| `TypeCorrect` | `Spec => []TypeOK` |
| `NoneForgotten` | `Spec => []NothingForgotten` |
| `ShownTrue` | `Spec => []ShownIsTrue` |

from `UsbManagerAssumption` and `LocalServerAssumption`. Both properties are about what has
*been* done; `ServerInv` adds how far each call has come: a server is in the hand of one call
at most and not of the GUI at the same time (`OneHand`), a call is inside of the manager's
`start()` exactly while its caller awaits that (`CallsAwaited`), which listeners are open at
each step of a start and of a stop (`Listening`), what a stop has done with the LAN device
and the manager (`Stopped`), and that a manager that is available on Linux with the firewall
switched on has the rule, has logged that there is none, or is in a call that is on its way to
the firewall (`Hardens`). `ShownIsTrue` of installations holds although two
installers may be made at once: the shown phase is that of at least one of them.

`GuiConnectionProofs` proves, for any number of requests, loops, clients and profiles:

| theorem | statement |
|---|---|
| `TypeCorrect` | `Spec => []TypeOK` |
| `TunnelHeld` | `Spec => []OneTunnel` |
| `StaysDown` | `Spec => []StaysDisconnected` |
| `UpIsShown` | `Spec => []ShownConnected` |
| `PortsRemembered` | `Spec => []PortsKnown` |

All from `GuiAssumption` alone: overlapping calls are behaviours of `Spec`. The inductive
invariant `IInv` has a part for each value of `overlap`. `Known`, what holds whatever calls do.
Until a connect or disconnect has met another one (`overlap # "calls"`), `Core`: one call
disconnects or dials, it waits for a client only while it gathers or dials, and has then left
no other task, and a client's task runs only where the GUI can reach it, as its task or waited
for; and `Obeyed`: after a disconnect nothing that connects is under way. And until any call has
met another one, `Tools`: what is attached was attached through a task that is still to be
gathered. When all is down these hold whatever went before, which is why `overlap` may start
again there. `TypeCorrect` needs, for the bound of `attempts`, that every sleeping loop has
taken one of them (`AttemptsLeft`).

`TokenStoreProofs` proves, for any number of commands, tokens, files, edits and restarts:

| theorem | statement |
|---|---|
| `TypeCorrect` | `Spec => []TypeOK` |
| `CacheTrue` | `Spec => []CacheCurrent` |
| `SerialEdits` | `Spec => []SerialPromises` |
| `ImplementsAtomic` | `Spec => ActsAtomically`: the store implements `AtomicTokens` |

`CacheCurrent` is an argument about times (`Times`): a write is later than all before it, and
what bears the temporary name is neither as old as `server.json` nor as what the server last
saw, so that a file that takes its place never looks like the one in memory. An edit that was
not saved is in `unsaved` until then. Between the
server's own save and the mtime it reads after it, only the absence of other editors helps,
which is what `overlap # "server"` says (`ServerAlone`). `SerialPromises` adds that one process
edits at a time, from the tokens of the file, and that its temporary file is undisturbed
(`OneEditor`, `EditsFile`), that the file holds what was reported (`FileTrue`), and that an
authentication that will not reload has it in memory (`CheckTrue`).

`TypeOK` needs no run here, because `TypeCorrect` is proved.

`ImplementsAtomic` is proved from the same invariants, in two halves that meet in `StepServes`:
only a rename changes what `server.json` holds (`FileMoves`), and it is one edit
(`RenameEdits`); only the steps of an authentication change what it will answer (`AuthMoves`),
and they take it from the document (`AuthDecides`, where `CacheCurrent` is needed for an
authentication that finds the mtime it knows).

`AuthThrottleProofs` proves, for all addresses, limits and windows:

| theorem | statement |
|---|---|
| `TypeCorrect` | `Spec => []TypeOK` |
| `BudgetKept` | `Spec => []GuessBudget` |
| `LockoutsDeserved` | `Spec => LockoutDeserved` |
| `FailureFree` | a wrong token can always be recorded |
| `LockoutRunsOut` | the step of `LockoutEnds`: a lockout ends, or its failures get older † |
| `LockoutBounded` | no lockout is for failures as old as the window |

† from `Spec` (with the fairness of the clock) and `[]ClockRuns`, see *Liveness* below;
all from `LimitsAssumption`. The invariant is that the failures an address would be judged by
are the wrong tokens compared for it within the window: `authorize` may count the one for the
other, whatever it has filtered out by then.

### Liveness

The provers do not look into `ENABLED`, and have no induction over temporal formulas. What they
can do is combine fairness with lemmas about steps. The theorems marked † therefore have one
more hypothesis beside the specification and its fairness: `RunsWhenDue` (`ClockRuns` in
`AuthThrottleProofs`) lists, for each fair action, a condition under which it is `ENABLED`. Each
of these conditions is read off the guards of the action, none of whose branches leaves a case
out, and concerns neither the environment nor the order of steps: what has to happen, and that
nothing undoes it meanwhile, is proved. TLC finds all three hypotheses to be invariants of the
instances of `lan_manager`, `sessions` and `auth_throttle` (check a
module that extends the MC module and the proofs' module, with `RunsWhenDue` or `ClockRuns` as
its invariant).

| property | what is proved | what is left to TLC |
|---|---|---|
| `PumpWakes`, `ClosedCallsEnd` | all, from `FairSpec` and `[]RunsWhenDue` | `[]RunsWhenDue` |
| `PumpsEnd` | each pump of each session, likewise | and that finitely many pumps end together |
| `DeadReaped` | that each value of `unread` and `age` is left, likewise | and the induction on them |
| `LockoutEnds` | that each age of a lockout is left, and that there are `Window` ages | and the induction on them |
| `HangUpsArrive` | `AtRest => HungUp` | `~ ENABLED Proceeds => AtRest` |
| `Recovers`, `ClientEnds` | nothing | all |

`Recovers` passes through calls, clients and loops; `ClientEnds` has one
fair action for all tasks of the client, so that each of its steps would need a measure over all
of them. All other properties of the passing runs are theorems; the four that a run refutes are
not.

## Findings

Four disagreements between the code and what its documents or messages say, each the
counterexample of a run; the quotes are in `PROJECT.json`.

1. The GUI's token routes write a removed token back (`token_local_route`).
2. A disconnect during a reconnect attempt is undone (`gui_race`).
3. Ctrl-C in `attach` skips the detach that its message promises (`attach_ctrl_c`).
4. Without iptables, or when it fails, a server shares devices with usbipd open to the network,
   where AUDIT.md says fail-closed (`local_firewall`).

A fifth has a property and no run of its own: AUDIT.md:62 says that reconnecting stops on a switch
to another server, but `_reconnect_profile` is set only when a connection was made (gui.py 125).
If a server is lost and the connect to another one fails, the loop of the first goes on and connects
to it: `SwitchHolds`, as an invariant of the instance of `gui_connection`, is violated without
any overlap of calls.

Seen while modelling, as exceptions of properties rather than runs, since no document says
otherwise:

* `stop()` while a handler is in `open_connection` leaves a channel in a closed session
  (`TornDownWhileRunning` without its exception).
* A usbipd that stops reading for good keeps a kicked session registered
  (`DeadReaped` without `UsbipdFairness`).
* Two overlapping token commands share `server.json.tmp` (common.py 114): the file can
  be empty when both have renamed it (`SerialPromises` excludes overlaps).
* A client that fails before the `try` of `run_connected` leaves its connection, and a tap
  that was opened, to the garbage collector; a cleanup cancelled during `ip link delete` does
  not close the connection (`NothingLeft`).
* The pump of such a channel waits for usbipd, maybe for ever (`Stranded` in `PumpsEnd`).
* `usbip attach`, killed after 30 s, counts as failed whatever it has imported (`ReleasedAtEnd`;
  in the GUI, `PortsKnown`).
* A detach that fails is not noticed: `attach` ends, and the GUI forgets the device
  (`ReleasedAtEnd`, `PortsKnown`). A `ProtocolError` leaves `cmd_attach` before its detach.
* A server whose `start()` raises half-way is dropped as it is, and of two servers started
  at once one is overwritten (`excused`); gui.py 250-257.
* `UsbipManager.start` called again while it runs, as the retry route does, overwrites the
  handle of a usbipd it has spawned (`strays`), although gui.py 490 calls it idempotent.
* `LanManager.stop` deletes the interface by its name, whoever's it is (server.py 465-471).
* `available` is not taken back by a failed start on Windows (server.py 176-229).

## What is not modelled

* `ip`, `iptables`, `netsh`, `usbip`, `sc`, `msiexec`, `openssl` and the parsing of their output:
  sequential I/O, of which the outcomes, failures among them, are modelled.
* A client that opens one id as lan and as usbip (`DisjointIds`): this client does not.
* Certificates and pinning: one comparison with what `client.json` holds, before the hello.
* TLS, HTTP parsing, the web pages, logging, the crash report, packaging: presentation and I/O.
* The frames of the client's LAN: `ClientRun` opens, pumps and closes its tap, without its
  contents. WinTap, which hands blocking calls to worker threads, and the in-memory tap of the
  tests.
* `serve` and its signals: it starts a server and stops it.

## Plan

Done: `ServerSession`, `AuthThrottle`, `TokenStore`, `GuiConnection`, `Forwarding` and `Tunnel`,
`KernelTap` and `LanManager`, `ControlRequests` and `ClientRun`, `UsbManager` and `LocalServer`,
`AtomicTokens`, each with its proofs. Next, in this order:

1. `ClientLan` (client.py 179-234, 282-303): the client's tap, on `KernelTap` and composed with
   the server's: a frame comes out of the other end once at most, and a tap that the server's
   CLOSE takes away leaves no task behind.
2. Write buffers of a finite size in `Tunnel`: can the drains of both frame loops wait for
   each other?

Theorems worth proving next: `ClientEnds` and `Recovers` from hypotheses like `RunsWhenDue`, with
a measure of what the tasks of a client still have to do.
