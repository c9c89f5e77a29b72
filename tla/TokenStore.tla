----------------------------- MODULE TokenStore -----------------------------
(***************************************************************************)
(* The tokens of a usbferry server and the processes that share server.json *)
(* (src/usbferry/server.py, common.py, __main__.py, gui.py): the server     *)
(* keeps them in memory and looks at the file's mtime on every              *)
(* authentication; add-token and rm-token are processes of their own, each  *)
(* reading the file, changing its copy and saving the whole of it.          *)
(*                                                                          *)
(* Every system call that another process can come before or after is an   *)
(* action.  save_json writes path + ".tmp", one name for all processes, and *)
(* renames it; a file is an inode, which a name or an open descriptor may   *)
(* refer to.  A process may die between any two of these calls.             *)
(***************************************************************************)
EXTENDS Naturals, FiniteSets

CONSTANTS
    Commands,  \* the runs of add-token and rm-token, one process each
    Server,    \* the server's process
    Tokens,    \* every token ever made, each made once
    Inodes,    \* bound: files that exist at one time
    NoInode,
    MaxEdits,  \* bound: edits the server is asked for
    MaxStarts  \* bound: starts of the server

Procs == Commands \cup {Server}

\* What a file holds: a whole document, or something json.load refuses.
Whole(tokens) == [kind |-> "whole", tokens |-> tokens]
Empty   == [kind |-> "empty", tokens |-> {}]
Garbled == [kind |-> "garbled", tokens |-> {}]

ASSUME StoreAssumption ==
    /\ Server \notin Commands
    /\ NoInode \notin Inodes
    /\ MaxEdits \in Nat /\ MaxStarts \in Nat

VARIABLES
    cfgFile,  \* the inode named server.json
    tmpFile,  \* the inode named server.json.tmp
    doc,      \* what each inode holds
    mtime,    \* when each inode was last written
    clock,    \* the mtime of the next write
    pc,       \* the next call of each process
    mem,      \* its copy of the tokens (self.cfg["tokens"])
    fd,       \* the inode it writes to
    task,     \* the edit it is about: <<"add" or "rm", token>>
    statMtime, \* the mtime the server has just read
    cfgMtime, \* self._cfg_mtime of the server
    made,     \* tokens made so far
    edits,    \* edits the server was asked for
    starts,   \* starts of the server
    valid,    \* history: tokens reported as added, and not being removed since
    revoked,  \* history: tokens reported as removed
    mustAccept, mustReject, \* history: valid and revoked when the check began
    overlap,  \* history: did edits run into each other, and whose?
    unsaved   \* history: edits in the server's memory that it failed to save

fileVars == <<cfgFile, tmpFile, doc, mtime, clock>>
procVars == <<pc, mem, fd, task>>
serverVars == <<statMtime, cfgMtime, edits, starts, mustAccept, mustReject>>
historyVars == <<made, valid, revoked, overlap, unsaved>>
vars == <<fileVars, procVars, serverVars, historyVars>>

NoTask == <<"none", "none">>

PCs == {"off", "loaded", "idle", "seen", "checked", "changed", "opened", "written",
        "saved", "done"}

Init ==
    \E first \in Tokens, i \in Inodes :
        /\ cfgFile = i
        /\ tmpFile = NoInode
        /\ doc = [n \in Inodes |-> IF n = i THEN Whole({first}) ELSE Empty]
        /\ mtime = [n \in Inodes |-> 0]
        /\ clock = 1
        /\ pc = [p \in Procs |-> "off"]
        /\ mem = [p \in Procs |-> {}]
        /\ fd = [p \in Procs |-> NoInode]
        /\ task = [p \in Procs |-> NoTask]
        /\ statMtime = 0 /\ cfgMtime = 0 /\ edits = 0 /\ starts = 0
        /\ made = {first} /\ valid = {first} /\ revoked = {}
        /\ mustAccept = {} /\ mustReject = {}
        /\ overlap = "none" /\ unsaved = {}

-----------------------------------------------------------------------------
(* Files.                                                                   *)

Used == {cfgFile, tmpFile} \cup {fd[p] : p \in Procs}

\* load_json with {} as the default, then .get("tokens", []) over DEFAULT_CONFIG
Loaded == doc[cfgFile].tokens

Goes(p, to) == pc' = [pc EXCEPT ![p] = to]

\* between the load and the end of a save, or an edit decided on what was loaded
Editing(p) ==
    \/ p \in Commands /\ pc[p] \in {"loaded", "changed", "opened", "written"}
    \/ p = Server /\ pc[p] \in {"loaded", "changed", "opened", "written", "saved"}

\* An interval begins: "commands" if it overlaps only with those of commands that
\* overlap each other, "server" if the server is one of the two.
Overlaps(p) ==
    overlap' = IF overlap = "server" \/ \A q \in Procs \ {p} : ~ Editing(q) THEN overlap
               ELSE IF p = Server \/ Editing(Server) THEN "server"
               ELSE "commands"

\* Mutation: the document is written in place, as open(path, "w") would.
OpenInPlace(p) ==
    /\ pc[p] = "changed"
    /\ tmpFile' = cfgFile
    /\ fd' = [fd EXCEPT ![p] = cfgFile]
    /\ doc' = [doc EXCEPT ![cfgFile] = Empty]
    /\ mtime' = [mtime EXCEPT ![cfgFile] = clock]
    /\ clock' = clock + 1
    /\ Goes(p, "opened")
    /\ UNCHANGED <<cfgFile, mem, task, serverVars, historyVars>>

\* os.open of the tmp name: an existing file is truncated, whoever writes to it.
OpenTmp(p) ==
    /\ pc[p] = "changed"
    /\ \E i \in Inodes :
         /\ IF tmpFile = NoInode THEN i \notin Used ELSE i = tmpFile
         /\ tmpFile' = i
         /\ fd' = [fd EXCEPT ![p] = i]
         /\ doc' = [doc EXCEPT ![i] = Empty]
         /\ mtime' = [mtime EXCEPT ![i] = clock]
    /\ clock' = clock + 1
    /\ Goes(p, "opened")
    /\ UNCHANGED <<cfgFile, mem, task, serverVars, historyVars>>

\* The document is written from offset 0: over another one it may leave a tail.
WriteTmp(p) ==
    /\ pc[p] = "opened"
    /\ \E d \in {Whole(mem[p])} \cup (IF doc[fd[p]] = Empty THEN {} ELSE {Garbled}) :
         doc' = [doc EXCEPT ![fd[p]] = d]
    /\ mtime' = [mtime EXCEPT ![fd[p]] = clock]
    /\ clock' = clock + 1
    /\ Goes(p, "written")
    /\ UNCHANGED <<cfgFile, tmpFile, mem, fd, task, serverVars, historyVars>>

\* makedirs, os.open, the write or os.replace raises: what has the tmp name is unlinked,
\* whoever's file it is by now (not if os.open itself failed), and the name may also be
\* gone, renamed by another process.  A command dies of it.  The server answers 500 and
\* goes on with what it has in memory, under the mtime it remembered before.
SaveFails(p) ==
    /\ pc[p] \in {"changed", "opened", "written"}
    /\ tmpFile' = IF pc[p] = "changed" THEN tmpFile ELSE NoInode
    /\ fd' = [fd EXCEPT ![p] = NoInode]
    /\ Goes(p, IF p = Server THEN "idle" ELSE "done")
    /\ unsaved' = IF p = Server THEN unsaved \cup {task[p][2]} ELSE unsaved
    /\ UNCHANGED <<cfgFile, doc, mtime, clock, mem, task, serverVars, made, valid, revoked, overlap>>

\* A token counts as removed or added once the command has said so.
Reported(p) ==
    IF task[p][1] = "rm"
    THEN revoked' = revoked \cup {task[p][2]} /\ UNCHANGED valid
    ELSE valid' = valid \cup {task[p][2]} /\ UNCHANGED revoked

\* os.replace renames whatever has the tmp name.  The server's document is all it has
\* in memory, edits that failed to be saved before included.
Replace(p) ==
    /\ pc[p] = "written"
    /\ tmpFile # NoInode
    /\ cfgFile' = tmpFile
    /\ tmpFile' = NoInode
    /\ fd' = [fd EXCEPT ![p] = NoInode]
    /\ Goes(p, IF p = Server THEN "saved" ELSE "done")
    /\ Reported(p)
    /\ unsaved' = IF p = Server THEN {} ELSE unsaved
    /\ UNCHANGED <<doc, mtime, clock, mem, task, serverVars, made, overlap>>

-----------------------------------------------------------------------------
(* A process that runs add-token or rm-token.                               *)

\* UsbferryServer(args.config): the file is loaded.
CommandLoads(p) ==
    /\ p \in Commands
    /\ pc[p] = "off"
    /\ mem' = [mem EXCEPT ![p] = Loaded]
    /\ Goes(p, "loaded")
    /\ Overlaps(p)
    /\ UNCHANGED <<fileVars, fd, task, serverVars, made, valid, revoked, unsaved>>

\* add_token: a token never made before.
Adds(p, t) ==
    /\ t \notin made
    /\ made' = made \cup {t}
    /\ mem' = [mem EXCEPT ![p] = @ \cup {t}]
    /\ task' = [task EXCEPT ![p] = <<"add", t>>]
    /\ Goes(p, "changed")
    /\ UNCHANGED valid

\* remove_token of a token in the list
Removes(p, t) ==
    /\ t \in mem[p]
    /\ valid' = valid \ {t}
    /\ mem' = [mem EXCEPT ![p] = @ \ {t}]
    /\ task' = [task EXCEPT ![p] = <<"rm", t>>]
    /\ Goes(p, "changed")
    /\ UNCHANGED made

CommandEdits(p) ==
    /\ p \in Commands
    /\ pc[p] = "loaded"
    /\ \E t \in Tokens : Adds(p, t) \/ Removes(p, t)
    /\ UNCHANGED <<fileVars, fd, serverVars, revoked, overlap, unsaved>>

\* list-tokens, or rm-token of a name that is not there: nothing is saved.
CommandSavesNothing(p) ==
    /\ p \in Commands
    /\ pc[p] = "loaded"
    /\ Goes(p, "done")
    /\ UNCHANGED <<fileVars, mem, fd, task, serverVars, historyVars>>

-----------------------------------------------------------------------------
(* The server.                                                              *)

\* __init__: the file is loaded ...
ServerLoads ==
    /\ pc[Server] = "off"
    /\ starts < MaxStarts
    /\ starts' = starts + 1
    /\ mem' = [mem EXCEPT ![Server] = Loaded]
    /\ Goes(Server, "loaded")
    /\ Overlaps(Server)
    /\ UNCHANGED <<fileVars, fd, task, statMtime, cfgMtime, edits, mustAccept, mustReject,
                   made, valid, revoked, unsaved>>

\* ... and only then its mtime is read; likewise after every save.
ServerStats ==
    /\ pc[Server] \in {"loaded", "saved"}
    /\ cfgMtime' = mtime[cfgFile]
    /\ Goes(Server, "idle")
    /\ UNCHANGED <<fileVars, mem, fd, task, statMtime, edits, starts, mustAccept, mustReject,
                   historyVars>>

\* verify_token begins with getmtime ...
AuthStats ==
    /\ pc[Server] \in {"idle", "checked"}
    /\ statMtime' = mtime[cfgFile]
    /\ mustAccept' = valid
    /\ mustReject' = revoked
    /\ Goes(Server, "seen")
    /\ UNCHANGED <<fileVars, mem, fd, task, cfgMtime, edits, starts, historyVars>>

\* Mutation: the reload adds the tokens of the file to those in memory.
AuthReloadsMerged ==
    /\ pc[Server] = "seen"
    /\ statMtime # cfgMtime
    /\ mem' = [mem EXCEPT ![Server] = @ \cup doc[cfgFile].tokens]
    /\ cfgMtime' = statMtime
    /\ unsaved' = {}
    /\ Goes(Server, "checked")
    /\ UNCHANGED <<fileVars, fd, task, statMtime, edits, starts, mustAccept, mustReject,
                   made, valid, revoked, overlap>>

\* Mutation: the mtime is taken over also when nothing could be loaded.
AuthReloadsMarked ==
    /\ pc[Server] = "seen"
    /\ statMtime # cfgMtime
    /\ mem' = [mem EXCEPT ![Server] = IF doc[cfgFile].kind = "whole" THEN doc[cfgFile].tokens ELSE @]
    /\ cfgMtime' = statMtime
    /\ unsaved' = {}
    /\ Goes(Server, "checked")
    /\ UNCHANGED <<fileVars, fd, task, statMtime, edits, starts, mustAccept, mustReject,
                   made, valid, revoked, overlap>>

\* ... reloads if it differs, unless the file has no list of tokens ...
AuthReloads ==
    /\ pc[Server] = "seen"
    /\ statMtime # cfgMtime
    /\ \/ /\ doc[cfgFile].kind = "whole"
          /\ mem' = [mem EXCEPT ![Server] = doc[cfgFile].tokens]
          /\ cfgMtime' = statMtime
          /\ unsaved' = {}
       \/ /\ doc[cfgFile].kind # "whole"
          /\ UNCHANGED <<mem, cfgMtime, unsaved>>
    /\ Goes(Server, "checked")
    /\ UNCHANGED <<fileVars, fd, task, statMtime, edits, starts, mustAccept, mustReject,
                   made, valid, revoked, overlap>>

\* ... and accepts what is in memory.
AuthKeeps ==
    /\ pc[Server] = "seen"
    /\ statMtime = cfgMtime
    /\ Goes(Server, "checked")
    /\ UNCHANGED <<fileVars, mem, fd, task, serverVars, historyVars>>

ServerEdits ==
    /\ edits < MaxEdits
    /\ edits' = edits + 1
    /\ \E t \in Tokens : Adds(Server, t) \/ Removes(Server, t)
    /\ UNCHANGED <<fileVars, fd, statMtime, cfgMtime, starts, mustAccept, mustReject, revoked, unsaved>>

\* The web admin edits right after it has authenticated the request: an edit by a
\* command that came in between overlaps with it too.
WebEdits ==
    /\ pc[Server] = "checked"
    /\ ServerEdits
    /\ IF cfgMtime # mtime[cfgFile] THEN overlap' = "server" ELSE Overlaps(Server)

\* The GUI's local-server routes edit at any time, with no look at the file: what
\* is in memory may be "stale" though no process is racing another.
LocalEdits ==
    /\ pc[Server] \in {"idle", "checked"}
    /\ ServerEdits
    /\ IF overlap = "none" /\ cfgMtime # mtime[cfgFile] /\ ~ \E q \in Commands : Editing(q)
       THEN overlap' = "stale"
       ELSE Overlaps(Server)

\* A process dies, wherever it is; the server can be started again.
Dies(p) ==
    /\ pc[p] \notin {"off", "done"}
    /\ Goes(p, IF p = Server THEN "off" ELSE "done")
    /\ fd' = [fd EXCEPT ![p] = NoInode]
    /\ mem' = [mem EXCEPT ![p] = {}]
    /\ task' = [task EXCEPT ![p] = NoTask]
    /\ unsaved' = IF p = Server THEN {} ELSE unsaved
    /\ UNCHANGED <<fileVars, serverVars, made, valid, revoked, overlap>>

-----------------------------------------------------------------------------
Save(p) == OpenTmp(p) \/ WriteTmp(p) \/ SaveFails(p) \/ Replace(p)

Next ==
    \/ \E p \in Procs : Save(p) \/ Dies(p)
    \/ \E p \in Commands : CommandLoads(p) \/ CommandEdits(p) \/ CommandSavesNothing(p)
    \/ ServerLoads \/ ServerStats \/ AuthStats \/ AuthReloads \/ AuthKeeps \/ WebEdits \/ LocalEdits

Spec == Init /\ [][Next]_vars

-----------------------------------------------------------------------------
TypeOK ==
    /\ cfgFile \in Inodes /\ tmpFile \in Inodes \cup {NoInode}
    /\ doc \in [Inodes -> {Whole(d) : d \in SUBSET Tokens} \cup {Empty, Garbled}]
    /\ mtime \in [Inodes -> Nat] /\ clock \in Nat
    /\ pc \in [Procs -> PCs]
    /\ mem \in [Procs -> SUBSET Tokens]
    /\ fd \in [Procs -> Inodes \cup {NoInode}]
    /\ \A p \in Procs : task[p] = NoTask \/ task[p] \in {"add", "rm"} \X Tokens
    /\ statMtime \in Nat /\ cfgMtime \in Nat
    /\ edits \in 0 .. MaxEdits /\ starts \in 0 .. MaxStarts
    /\ made \subseteq Tokens /\ valid \subseteq made /\ revoked \subseteq made
    /\ mustAccept \subseteq Tokens /\ mustReject \subseteq Tokens
    /\ overlap \in {"none", "stale", "commands", "server"} /\ unsaved \subseteq made

\* server.json is always a whole document, wherever a process dies
\* (common.py:110-127).
FileWhole == doc[cfgFile].kind = "whole"

\* A token reported as removed before an authentication begins is rejected by it,
\* whichever process removed it (server.py:588-612).
RevokedRejected == pc[Server] = "checked" => mem[Server] \cap mustReject = {}

\* A token reported as added before an authentication begins, and not removed
\* since, is accepted by it.
AddedAccepted ==
    pc[Server] = "checked" => mustAccept \cap valid \subseteq mem[Server]

\* The removal holds when every edit ended before the next one began: no process is
\* racing another, the change just has to propagate.
RemovalPropagates == overlap \in {"none", "stale"} => RevokedRejected

\* All three, as long as no two processes were between their load and their save at
\* once, and the server edited no copy older than the file; also when the server failed
\* to save edits of its own, which it may write with a later one or lose in a reload.
SerialPromises == overlap = "none" => FileWhole /\ RevokedRejected /\ AddedAccepted

\* Two sets of tokens agree, but for those in but.
Agree(a, b, but) == a \ but = b \ but

\* The cache is never stale behind an mtime that looks current: when the server has
\* the mtime of server.json, it has its tokens, but for edits of its own that it failed
\* to save since it last agreed with the file (server.py:573-579, 616-621), and however
\* commands race each other (server.py:602-614: the mtime is read before the file).
CacheCurrent ==
    overlap # "server" /\ pc[Server] \in {"idle", "seen", "checked"} /\ cfgMtime = mtime[cfgFile]
        => Agree(mem[Server], doc[cfgFile].tokens, unsaved)

-----------------------------------------------------------------------------
(* What the store promises.                                                 *)

\* The server will accept what is in memory now: it has decided to, or will not reload.
Decided == pc[Server] = "checked" \/ (pc[Server] = "seen" /\ statMtime = cfgMtime)

AuthState ==
    CASE pc[Server] = "seen"    -> "asked"
      [] pc[Server] = "checked" -> "answered"
      [] OTHER                  -> "none"

Atomic == INSTANCE AtomicTokens WITH
    document <- Loaded, whole <- FileWhole, gone <- revoked, failed <- unsaved,
    auth <- AuthState, answer <- IF Decided THEN {mem[Server]} ELSE {},
    raced <- overlap # "none"

\* As long as edits do not overlap and the server edits no copy older than the file: an
\* edit is one step of the document, whoever dies or fails to save, and an authentication
\* is decided by the document of one moment of it, up to edits the server failed to save,
\* although the server reads the mtime, compares it and reads the file in steps of their
\* own (common.py:110-127, server.py:573-621).
ActsAtomically == Atomic!Spec
=============================================================================
