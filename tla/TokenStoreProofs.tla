-------------------------- MODULE TokenStoreProofs --------------------------
(***************************************************************************)
(* Proofs about TokenStore, for any number of commands, tokens and files.   *)
(*                                                                          *)
(* What keeps the server's cache true is an argument about times: no two    *)
(* files in use have the same mtime, and what bears the temporary name is   *)
(* newer than all the server has seen, so a file that takes its place never *)
(* looks like the one in memory.  While the server is between a load and    *)
(* the mtime it reads after it, only the absence of other editors helps,    *)
(* which is what overlap # "server" says.  A save of the server's that fails *)
(* leaves its memory apart from the file by that edit: unsaved is carried   *)
(* through every statement as the doubt it is.                              *)
(***************************************************************************)
EXTENDS TokenStore, TLAPS

Documents == {Whole(d) : d \in SUBSET Tokens} \cup {Empty, Garbled}

\* p is between its edit and the end of its save.
Saving(p) == pc[p] \in {"changed", "opened", "written"}

\* Every token in a file, in a process or in the history has been made, a process
\* that saves has an edit to report, and one that writes has a file.
AllMade ==
    /\ \A i \in Inodes : doc[i].tokens \subseteq made
    /\ \A p \in Procs : mem[p] \subseteq made
    /\ \A p \in Procs : Saving(p) => task[p] \in {"add", "rm"} \X made
    /\ \A p \in Procs : pc[p] \in {"opened", "written"} => fd[p] \in Inodes
    /\ mustAccept \subseteq made

Types == TypeOK /\ AllMade /\ task \in [Procs -> {NoTask} \cup ({"add", "rm"} \X Tokens)]

\* Times are told apart: a write is later than all before it, and what bears the
\* temporary name is not what bears the file's, nor as old as what the server saw.
Times ==
    /\ \A i \in Inodes : mtime[i] < clock
    /\ statMtime < clock /\ cfgMtime < clock
    /\ tmpFile # NoInode =>
         /\ tmpFile # cfgFile
         /\ mtime[tmpFile] # mtime[cfgFile]
         /\ mtime[tmpFile] # statMtime /\ mtime[tmpFile] # cfgMtime

\* The file that p saves to has the temporary name and holds what p wrote to it.
Undisturbed(p) ==
    /\ pc[p] = "opened" => fd[p] = tmpFile /\ doc[tmpFile] = Empty
    /\ pc[p] = "written" => fd[p] = tmpFile /\ doc[tmpFile] = Whole(mem[p])

\* Until the server runs into another process, nobody edits while it does, and it
\* has the tokens of the file whenever it is about to read its mtime.
ServerAlone ==
    overlap # "server" /\ Editing(Server) =>
        /\ \A c \in Commands : ~ Editing(c)
        /\ Undisturbed(Server)
        /\ pc[Server] \in {"loaded", "saved"} => mem[Server] = doc[cfgFile].tokens

\* CacheCurrent, and what keeps it when a save fails: a server that remembers the mtime
\* of the file has its tokens but for what it failed to save and what it is saving.
CacheTracks ==
    overlap # "server" /\ cfgMtime = mtime[cfgFile] =>
        /\ pc[Server] \in {"idle", "seen", "checked"}
             => Agree(mem[Server], doc[cfgFile].tokens, unsaved)
        /\ Saving(Server)
             => Agree(mem[Server], doc[cfgFile].tokens, unsaved \cup {task[Server][2]})

CacheInv == Types /\ Times /\ ServerAlone /\ CacheTracks

-----------------------------------------------------------------------------
(* What holds while edits have been serial.                                 *)

\* One process edits at a time.
OneEditor == \A p, q \in Procs : Editing(p) /\ Editing(q) => p = q

\* What the server has in memory and could not save; a command dies of such an edit.
Doubt(p) == IF p = Server THEN unsaved ELSE {}

\* A process that edits has the tokens of the file, but for its own edit and those it
\* failed to save; a token it adds is new to every history, one it removes counts no more.
EditOf(p) ==
    /\ Undisturbed(p)
    /\ ~ Saving(p) => mem[p] = doc[cfgFile].tokens
    /\ Saving(p) => Agree(mem[p], doc[cfgFile].tokens, Doubt(p) \cup {task[p][2]})
    /\ Saving(p) /\ task[p][1] = "add" =>
         /\ task[p][2] \in mem[p]
         /\ task[p][2] \notin doc[cfgFile].tokens \cup valid \cup revoked \cup mustAccept \cup unsaved
    /\ Saving(p) /\ task[p][1] = "rm" =>
         /\ task[p][2] \notin mem[p] \cup valid
         /\ p # Server => task[p][2] \in doc[cfgFile].tokens

EditsFile == \A p \in Procs : Editing(p) => EditOf(p)

\* The file holds what was reported.
FileTrue ==
    /\ FileWhole
    /\ valid \subseteq doc[cfgFile].tokens
    /\ revoked \cap doc[cfgFile].tokens = {}

\* An edit that failed to be saved counts for nothing, and a token that is only in
\* memory because of one is in no file and was never removed.
DoubtTrue ==
    /\ unsaved \cap valid = {}
    /\ mem[Server] \cap unsaved \cap (doc[cfgFile].tokens \cup revoked) = {}
    /\ pc[Server] \in {"off", "loaded", "saved"} => unsaved = {}

\* An authentication that will not reload has in memory what it must have.
CheckTrue ==
    /\ mustReject \subseteq revoked
    /\ pc[Server] = "checked" \/ (pc[Server] = "seen" /\ statMtime = cfgMtime) =>
         /\ mem[Server] \cap mustReject = {}
         /\ mustAccept \cap valid \subseteq mem[Server]

SerialInv == overlap = "none" => OneEditor /\ EditsFile /\ FileTrue /\ DoubtTrue /\ CheckTrue

StoreInv == CacheInv /\ SerialInv

-----------------------------------------------------------------------------
(* Types.                                                                   *)

LEMMA InitTypes == ASSUME Init PROVE Types
<1>1. PICK first \in Tokens, i \in Inodes :
        /\ cfgFile = i /\ tmpFile = NoInode
        /\ doc = [n \in Inodes |-> IF n = i THEN Whole({first}) ELSE Empty]
        /\ mtime = [n \in Inodes |-> 0] /\ clock = 1
        /\ pc = [p \in Procs |-> "off"]
        /\ mem = [p \in Procs |-> {}]
        /\ fd = [p \in Procs |-> NoInode]
        /\ task = [p \in Procs |-> NoTask]
        /\ statMtime = 0 /\ cfgMtime = 0 /\ edits = 0 /\ starts = 0
        /\ made = {first} /\ valid = {first} /\ revoked = {}
        /\ mustAccept = {} /\ mustReject = {}
        /\ overlap = "none" /\ unsaved = {}
  BY DEF Init
<1>2. Whole({first}) \in Documents /\ Empty \in Documents
  BY DEF Documents
<1>3. doc \in [Inodes -> Documents]
  BY <1>1, <1>2
<1>4. pc \in [Procs -> PCs] /\ mem \in [Procs -> SUBSET Tokens]
  BY <1>1 DEF PCs
<1>5. TypeOK
  BY <1>1, <1>3, <1>4, StoreAssumption DEF TypeOK, Documents
<1>6. \A n \in Inodes : doc[n].tokens \subseteq made
  BY <1>1 DEF Whole, Empty
<1>7. AllMade
  BY <1>1, <1>6 DEF AllMade, Saving
<1>. QED BY <1>1, <1>5, <1>7 DEF Types

LEMMA NextTypes == ASSUME Types, [Next]_vars PROVE Types'
<1>. USE DEF Types, TypeOK, AllMade, Saving, Goes, fileVars, procVars, serverVars, historyVars
<1>0. CASE UNCHANGED vars
  BY <1>0 DEF vars
<1>1. ASSUME NEW p \in Procs, OpenTmp(p) PROVE Types'
  <2>1. PICK i \in Inodes :
          /\ tmpFile' = i
          /\ fd' = [fd EXCEPT ![p] = i]
          /\ doc' = [doc EXCEPT ![i] = Empty]
          /\ mtime' = [mtime EXCEPT ![i] = clock]
    BY <1>1 DEF OpenTmp
  <2>2. pc[p] = "changed" /\ pc' = [pc EXCEPT ![p] = "opened"] /\ clock' = clock + 1
        /\ UNCHANGED <<cfgFile, mem, task, statMtime, cfgMtime, edits, starts, mustAccept,
                       mustReject, made, valid, revoked, overlap, unsaved>>
    BY <1>1 DEF OpenTmp
  <2>6. doc' \in [Inodes -> Documents] /\ mtime' \in [Inodes -> Nat] /\ clock' \in Nat
    BY <2>1, <2>2 DEF Documents
  <2>3. TypeOK'
    BY ONLY TypeOK, p \in Procs, i \in Inodes, <2>1, <2>2, <2>6 DEF TypeOK, PCs, Documents
  <2>4. \A n \in Inodes : doc'[n].tokens \subseteq made
    BY <2>1 DEF Empty
  <2>5. AllMade'
    BY <2>1, <2>2, <2>4
  <2>. QED BY <2>2, <2>3, <2>5
<1>2. ASSUME NEW p \in Procs, WriteTmp(p) PROVE Types'
  <2>1. PICK d \in {Whole(mem[p])} \cup {Garbled} : doc' = [doc EXCEPT ![fd[p]] = d]
    BY <1>2 DEF WriteTmp
  <2>2. pc[p] = "opened" /\ pc' = [pc EXCEPT ![p] = "written"] /\ clock' = clock + 1
        /\ mtime' = [mtime EXCEPT ![fd[p]] = clock]
        /\ UNCHANGED <<cfgFile, tmpFile, mem, fd, task, statMtime, cfgMtime, edits, starts,
                       mustAccept, mustReject, made, valid, revoked, overlap, unsaved>>
    BY <1>2 DEF WriteTmp
  <2>3. d \in Documents /\ d.tokens \subseteq made
    BY <2>1 DEF Documents, Whole, Garbled
  <2>4. doc' \in [Inodes -> Documents] /\ mtime' \in [Inodes -> Nat] /\ clock' \in Nat
    BY <2>1, <2>2, <2>3 DEF Documents
  <2>5. TypeOK'
    BY ONLY TypeOK, p \in Procs, <2>2, <2>4
       DEF TypeOK, PCs, Documents
  <2>6. \A n \in Inodes : doc'[n].tokens \subseteq made
    BY <2>1, <2>3
  <2>7. AllMade'
    BY <2>2, <2>6
  <2>. QED BY <2>2, <2>5, <2>7
<1>3. ASSUME NEW p \in Procs, SaveFails(p) PROVE Types'
  <2>1. (tmpFile' = tmpFile \/ tmpFile' = NoInode) /\ fd' = [fd EXCEPT ![p] = NoInode]
        /\ (pc' = [pc EXCEPT ![p] = "idle"] \/ pc' = [pc EXCEPT ![p] = "done"])
        /\ UNCHANGED <<cfgFile, doc, mtime, clock, mem, task, statMtime, cfgMtime, edits,
                       starts, mustAccept, mustReject, made, valid, revoked, overlap>>
    BY <1>3 DEF SaveFails
  <2>2. unsaved' = unsaved \/ unsaved' = unsaved \cup {task[p][2]}
    BY <1>3 DEF SaveFails
  <2>3. unsaved' \subseteq made
    BY <1>3, <2>2 DEF SaveFails
  <2>4. TypeOK'
    BY <2>1, <2>3 DEF PCs
  <2>5. AllMade'
    BY <2>1
  <2>. QED BY <2>1, <2>4, <2>5
<1>4. ASSUME NEW p \in Procs, Replace(p) PROVE Types'
  <2>1. pc[p] = "written" /\ tmpFile # NoInode
        /\ cfgFile' = tmpFile /\ tmpFile' = NoInode /\ fd' = [fd EXCEPT ![p] = NoInode]
        /\ (pc' = [pc EXCEPT ![p] = "saved"] \/ pc' = [pc EXCEPT ![p] = "done"])
        /\ UNCHANGED <<doc, mtime, clock, mem, task, statMtime, cfgMtime, edits, starts,
                       mustAccept, mustReject, made, overlap>>
    BY <1>4 DEF Replace
  <2>2. valid' \subseteq made /\ revoked' \subseteq made /\ unsaved' \subseteq made
    BY <1>4, <2>1 DEF Replace, Reported
  <2>3. TypeOK'
    BY <2>1, <2>2 DEF PCs
  <2>4. AllMade'
    BY <2>1
  <2>. QED BY <2>1, <2>3, <2>4
<1>6. ASSUME NEW p \in Procs, Dies(p) PROVE Types'
  <2>1. (pc' = [pc EXCEPT ![p] = "off"] \/ pc' = [pc EXCEPT ![p] = "done"])
        /\ fd' = [fd EXCEPT ![p] = NoInode]
        /\ mem' = [mem EXCEPT ![p] = {}] /\ task' = [task EXCEPT ![p] = NoTask]
        /\ UNCHANGED <<cfgFile, tmpFile, doc, mtime, clock, statMtime, cfgMtime, edits, starts,
                       mustAccept, mustReject, made, valid, revoked, overlap>>
    BY <1>6 DEF Dies
  <2>2. TypeOK'
    BY <1>6, <2>1 DEF PCs, Dies
  <2>3. AllMade'
    BY <2>1
  <2>. QED BY <2>1, <2>2, <2>3
<1>7. ASSUME NEW p \in Procs, mem' = [mem EXCEPT ![p] = Loaded],
             pc' = [pc EXCEPT ![p] = "loaded"], Overlaps(p), starts' \in 0 .. MaxStarts,
             UNCHANGED <<fileVars, fd, task, statMtime, cfgMtime, edits, mustAccept,
                         mustReject, made, valid, revoked, unsaved>>
      PROVE Types'
  <2>1. Loaded \subseteq Tokens /\ Loaded \subseteq made
    BY DEF Loaded
  <2>2. overlap' \in {"none", "stale", "commands", "server"}
    BY <1>7 DEF Overlaps
  <2>3. TypeOK'
    BY <1>7, <2>1, <2>2 DEF PCs
  <2>4. AllMade'
    BY <1>7, <2>1
  <2>. QED BY <1>7, <2>3, <2>4
<1>8. ASSUME NEW p \in Procs, NEW t \in Tokens, Adds(p, t) \/ Removes(p, t),
             edits' \in 0 .. MaxEdits, overlap' \in {"none", "stale", "commands", "server"},
             UNCHANGED <<fileVars, fd, statMtime, cfgMtime, starts, mustAccept, mustReject,
                         revoked, unsaved>>
      PROVE Types'
  <2>1. pc' = [pc EXCEPT ![p] = "changed"] /\ made \subseteq made' /\ made' \subseteq Tokens
        /\ t \in made'
    BY <1>8 DEF Adds, Removes
  <2>2. /\ mem' = [mem EXCEPT ![p] = @ \cup {t}] \/ mem' = [mem EXCEPT ![p] = @ \ {t}]
        /\ task' = [task EXCEPT ![p] = <<"add", t>>] \/ task' = [task EXCEPT ![p] = <<"rm", t>>]
        /\ valid' \subseteq valid
    BY <1>8 DEF Adds, Removes
  <2>3. /\ mem' \in [Procs -> SUBSET Tokens] /\ \A q \in Procs : mem'[q] \subseteq made'
        /\ task' \in [Procs -> {NoTask} \cup ({"add", "rm"} \X Tokens)]
        /\ task'[p] \in {"add", "rm"} \X made' /\ \A q \in Procs \ {p} : task'[q] = task[q]
    BY <2>1, <2>2
  <2>4. TypeOK'
    BY <1>8, <2>1, <2>2, <2>3 DEF PCs
  <2>5. AllMade'
    BY <1>8, <2>1, <2>2, <2>3
  <2>. QED BY <2>3, <2>4, <2>5
<1>9. ASSUME NEW p \in Commands, CommandLoads(p) PROVE Types'
  BY <1>9, <1>7 DEF CommandLoads, Procs
<1>10. ASSUME NEW p \in Commands, CommandEdits(p) PROVE Types'
  BY <1>10, <1>8 DEF CommandEdits, Procs
<1>11. ASSUME NEW p \in Commands, CommandSavesNothing(p) PROVE Types'
  <2>1. p \in Procs /\ pc' = [pc EXCEPT ![p] = "done"] /\ pc[p] = "loaded"
        /\ UNCHANGED <<fileVars, mem, fd, task, serverVars, historyVars>>
    BY <1>11 DEF CommandSavesNothing, Procs
  <2>. QED BY <2>1 DEF PCs
<1>12. CASE ServerLoads
  <2>1. Server \in Procs /\ starts' \in 0 .. MaxStarts
    BY <1>12, StoreAssumption DEF ServerLoads, Procs
  <2>. QED BY <1>12, <2>1, <1>7 DEF ServerLoads
<1>13. CASE ServerStats
  <2>1. Server \in Procs /\ pc' = [pc EXCEPT ![Server] = "idle"] /\ cfgMtime' = mtime[cfgFile]
        /\ UNCHANGED <<fileVars, mem, fd, task, statMtime, edits, starts, mustAccept,
                       mustReject, historyVars>>
    BY <1>13 DEF ServerStats, Procs
  <2>2. TypeOK'
    BY <2>1 DEF PCs
  <2>3. AllMade'
    BY <2>1
  <2>. QED BY <2>1, <2>2, <2>3
<1>14. CASE AuthStats
  BY <1>14 DEF AuthStats, Procs, PCs
<1>15. CASE AuthReloads
  <2>1. mem' = mem \/ mem' = [mem EXCEPT ![Server] = doc[cfgFile].tokens]
    BY <1>15 DEF AuthReloads
  <2>2. doc[cfgFile].tokens \subseteq Tokens /\ doc[cfgFile].tokens \subseteq made
    OBVIOUS
  <2>3. mem' \in [Procs -> SUBSET Tokens] /\ \A q \in Procs : mem'[q] \subseteq made
    BY <2>1, <2>2
  <2>4. pc' = [pc EXCEPT ![Server] = "checked"] /\ cfgMtime' \in Nat /\ Server \in Procs
        /\ UNCHANGED <<fileVars, fd, task, statMtime, edits, starts, mustAccept, mustReject,
                       made, valid, revoked, overlap>> /\ unsaved' \subseteq made
    BY <1>15 DEF AuthReloads, Procs
  <2>. QED BY <2>3, <2>4 DEF PCs
<1>16. CASE AuthKeeps
  BY <1>16 DEF AuthKeeps, Procs, PCs
<1>17. ASSUME ServerEdits, overlap' \in {"none", "stale", "commands", "server"} PROVE Types'
  <2>1. PICK t \in Tokens : Adds(Server, t) \/ Removes(Server, t)
    BY <1>17 DEF ServerEdits
  <2>2. edits' \in 0 .. MaxEdits
    BY <1>17, StoreAssumption DEF ServerEdits
  <2>3. Server \in Procs
    BY DEF Procs
  <2>. QED BY <1>17, <2>1, <2>2, <2>3, <1>8 DEF ServerEdits
<1>18. CASE WebEdits
  BY <1>18, <1>17 DEF WebEdits, Overlaps
<1>19. CASE LocalEdits
  BY <1>19, <1>17 DEF LocalEdits, Overlaps
<1>. QED
  BY <1>0, <1>1, <1>2, <1>3, <1>4, <1>6, <1>9, <1>10, <1>11, <1>12, <1>13, <1>14, <1>15,
     <1>16, <1>18, <1>19 DEF Next, Save

\* Types: every variable keeps to its set; every token that is valid or revoked has
\* been made, and an edit is only ever reported of a token that was.
THEOREM TypeCorrect == Spec => []TypeOK
<1>1. Init => Types
  BY InitTypes
<1>2. Types /\ [Next]_vars => Types'
  BY NextTypes
<1>3. Types => TypeOK
  BY DEF Types
<1>. QED BY <1>1, <1>2, <1>3, PTL DEF Spec

-----------------------------------------------------------------------------
(* Times.                                                                   *)

LEMMA InitTimes == ASSUME Init PROVE Times
  BY DEF Init, Times

\* A write gives its file a time of its own, the server only sees that of the file
\* that bears the name, and a rename leaves nothing under the temporary one.
LEMMA NextTimes == ASSUME Types, Times, [Next]_vars PROVE Times'
<1>. USE DEF Times, fileVars, procVars, serverVars, historyVars
<1>a. /\ mtime \in [Inodes -> Nat] /\ clock \in Nat /\ statMtime \in Nat /\ cfgMtime \in Nat
      /\ cfgFile \in Inodes /\ tmpFile \in Inodes \cup {NoInode} /\ NoInode \notin Inodes
      /\ \A p \in Procs : pc[p] = "opened" => fd[p] \in Inodes
  BY StoreAssumption DEF Types, TypeOK, AllMade
<1>0. CASE UNCHANGED vars
  BY <1>0 DEF vars
<1>1. ASSUME NEW p \in Procs, OpenTmp(p) PROVE Times'
  <2>1. PICK i \in Inodes :
          /\ IF tmpFile = NoInode THEN i \notin Used ELSE i = tmpFile
          /\ tmpFile' = i
          /\ mtime' = [mtime EXCEPT ![i] = clock]
    BY <1>1 DEF OpenTmp
  <2>2. clock' = clock + 1 /\ UNCHANGED <<cfgFile, statMtime, cfgMtime>>
    BY <1>1 DEF OpenTmp
  <2>3. i # cfgFile
    BY <2>1 DEF Used
  <2>4. mtime'[i] = clock /\ \A n \in Inodes \ {i} : mtime'[n] = mtime[n]
    BY <2>1, <1>a
  <2>. QED BY <1>a, <2>1, <2>2, <2>3, <2>4
<1>2. ASSUME NEW p \in Procs, WriteTmp(p) PROVE Times'
  <2>1. fd[p] \in Inodes /\ mtime' = [mtime EXCEPT ![fd[p]] = clock] /\ clock' = clock + 1
        /\ UNCHANGED <<cfgFile, tmpFile, statMtime, cfgMtime>>
    BY <1>2, <1>a DEF WriteTmp
  <2>2. mtime'[fd[p]] = clock /\ \A n \in Inodes \ {fd[p]} : mtime'[n] = mtime[n]
    BY <2>1, <1>a
  <2>. QED BY <1>a, <2>1, <2>2
<1>3. ASSUME NEW p \in Procs, SaveFails(p) \/ Replace(p) PROVE Times'
  <2>1. tmpFile' = NoInode \/ UNCHANGED <<cfgFile, tmpFile>>
    BY <1>3 DEF SaveFails, Replace
  <2>2. UNCHANGED <<mtime, clock, statMtime, cfgMtime>>
    BY <1>3 DEF SaveFails, Replace
  <2>. QED BY <2>1, <2>2
<1>4. ASSUME NEW p \in Procs, Dies(p) PROVE Times'
  BY <1>4 DEF Dies
<1>5. ASSUME NEW p \in Commands, CommandLoads(p) \/ CommandEdits(p) \/ CommandSavesNothing(p)
      PROVE Times'
  BY <1>5 DEF CommandLoads, CommandEdits, CommandSavesNothing
<1>6. CASE ServerLoads \/ AuthKeeps
  BY <1>6 DEF ServerLoads, AuthKeeps
<1>7. CASE ServerStats \/ AuthStats
  <2>1. /\ statMtime' = statMtime \/ statMtime' = mtime[cfgFile]
        /\ cfgMtime' = cfgMtime \/ cfgMtime' = mtime[cfgFile]
        /\ UNCHANGED fileVars
    BY <1>7 DEF ServerStats, AuthStats
  <2>. QED BY <2>1, <1>a
<1>8. CASE AuthReloads
  <2>1. (cfgMtime' = cfgMtime \/ cfgMtime' = statMtime) /\ UNCHANGED <<fileVars, statMtime>>
    BY <1>8 DEF AuthReloads
  <2>. QED BY <2>1
<1>9. CASE WebEdits \/ LocalEdits
  BY <1>9 DEF WebEdits, LocalEdits, ServerEdits
<1>. QED
  BY <1>0, <1>1, <1>2, <1>3, <1>4, <1>5, <1>6, <1>7, <1>8, <1>9 DEF Next, Save

-----------------------------------------------------------------------------
(* The server alone.                                                        *)

LEMMA InitAlone == ASSUME Init PROVE ServerAlone /\ CacheTracks
  BY StoreAssumption DEF Init, ServerAlone, Editing, CacheTracks, Saving, Procs

\* The steps of a process leave what the others are doing alone, and no overlap is
\* ever forgotten.
LEMMA OthersPc ==
  ASSUME Types, NEW p \in Procs, NEW to, Goes(p, to)
  PROVE  pc'[p] = to /\ \A q \in Procs \ {p} : pc'[q] = pc[q]
  BY DEF Types, TypeOK, Goes

\* An interval of the server that overlaps no other process's does so as yet; one
\* of a command that overlaps the server's is noted.
LEMMA OverlapsNoted ==
  ASSUME Types, NEW p \in Procs, Overlaps(p)
  PROVE  /\ overlap = "server" => overlap' = "server"
         /\ overlap' # "server" /\ p = Server => \A c \in Commands : ~ Editing(c)
         /\ overlap' # "server" /\ p # Server => ~ Editing(Server)
         /\ overlap' = "none" => overlap = "none" /\ \A q \in Procs \ {p} : ~ Editing(q)
  BY StoreAssumption DEF Overlaps, Procs

LEMMA NextAlone == ASSUME Types, Times, ServerAlone, [Next]_vars PROVE ServerAlone'
<1>. USE DEF fileVars, procVars, serverVars, historyVars
<1>a. /\ Server \in Procs /\ Server \notin Commands /\ Procs = Commands \cup {Server}
      /\ pc \in [Procs -> PCs] /\ mem \in [Procs -> SUBSET Tokens]
      /\ fd \in [Procs -> Inodes \cup {NoInode}]
      /\ doc \in [Inodes -> {Whole(d) : d \in SUBSET Tokens} \cup {Empty, Garbled}]
      /\ cfgFile \in Inodes /\ tmpFile \in Inodes \cup {NoInode} /\ NoInode \notin Inodes
      /\ \A p \in Procs : pc[p] \in {"opened", "written"} => fd[p] \in Inodes
  BY StoreAssumption DEF Types, TypeOK, AllMade, Procs
<1>0. CASE UNCHANGED vars
  BY <1>0 DEF vars, ServerAlone, Editing, Undisturbed
<1>1. ASSUME NEW p \in Procs, OpenTmp(p) PROVE ServerAlone'
  <2>1. PICK i \in Inodes :
          /\ IF tmpFile = NoInode THEN i \notin Used ELSE i = tmpFile
          /\ tmpFile' = i
          /\ fd' = [fd EXCEPT ![p] = i]
          /\ doc' = [doc EXCEPT ![i] = Empty]
    BY <1>1 DEF OpenTmp
  <2>2. pc[p] = "changed" /\ pc' = [pc EXCEPT ![p] = "opened"] /\ UNCHANGED <<cfgFile, mem, overlap>>
    BY <1>1 DEF OpenTmp, Goes
  <2>3. pc'[p] = "opened" /\ fd'[p] = i /\ doc'[i] = Empty
        /\ \A q \in Procs \ {p} : pc'[q] = pc[q] /\ fd'[q] = fd[q]
    BY <2>1, <2>2, <1>a
  <2>4. CASE p = Server
    BY <2>1, <2>2, <2>3, <2>4, <1>a DEF ServerAlone, Editing, Undisturbed
  <2>5. CASE p # Server
    BY <2>2, <2>3, <2>5, <1>a DEF ServerAlone, Editing
  <2>. QED BY <2>4, <2>5
<1>2. ASSUME NEW p \in Procs, WriteTmp(p) PROVE ServerAlone'
  <2>1. PICK d \in {Whole(mem[p])} \cup (IF doc[fd[p]] = Empty THEN {} ELSE {Garbled}) :
           doc' = [doc EXCEPT ![fd[p]] = d]
    BY <1>2 DEF WriteTmp
  <2>2. pc[p] = "opened" /\ pc' = [pc EXCEPT ![p] = "written"]
        /\ UNCHANGED <<cfgFile, tmpFile, mem, fd, overlap>>
    BY <1>2 DEF WriteTmp, Goes
  <2>3. pc'[p] = "written" /\ doc'[fd[p]] = d /\ \A q \in Procs \ {p} : pc'[q] = pc[q]
    BY <2>1, <2>2, <1>a
  <2>4. CASE p = Server
    BY <2>1, <2>2, <2>3, <2>4, <1>a DEF ServerAlone, Editing, Undisturbed
  <2>5. CASE p # Server
    BY <2>2, <2>3, <2>5, <1>a DEF ServerAlone, Editing
  <2>. QED BY <2>4, <2>5
<1>3. ASSUME NEW p \in Procs, SaveFails(p) PROVE ServerAlone'
  <2>1. pc[p] \in {"changed", "opened", "written"} /\ UNCHANGED overlap
        /\ Goes(p, IF p = Server THEN "idle" ELSE "done")
    BY <1>3 DEF SaveFails
  <2>2. CASE p = Server
    <3>1. pc'[Server] = "idle"
      BY <2>1, <2>2, OthersPc
    <3>. QED BY <3>1, <1>a DEF ServerAlone, Editing
  <2>3. CASE p # Server
    <3>1. pc'[Server] = pc[Server] /\ p \in Commands /\ Editing(p)
      BY <2>1, <2>3, <1>a, OthersPc DEF Editing
    <3>. QED BY <2>1, <3>1 DEF ServerAlone, Editing
  <2>. QED BY <2>2, <2>3
<1>4. ASSUME NEW p \in Procs, Replace(p) PROVE ServerAlone'
  <2>1. pc[p] = "written" /\ cfgFile' = tmpFile /\ UNCHANGED <<mem, doc, overlap>>
        /\ Goes(p, IF p = Server THEN "saved" ELSE "done")
    BY <1>4 DEF Replace
  <2>2. \A q \in Procs \ {p} : pc'[q] = pc[q]
    BY <2>1, OthersPc
  <2>3. CASE p = Server
    <3>1. pc'[Server] = "saved" /\ (\A c \in Commands : pc'[c] = pc[c])
      BY <2>1, <2>2, <2>3, <1>a, OthersPc
    <3>2. Whole(mem[p]).tokens = mem[p]
      BY DEF Whole
    <3>. QED BY <2>1, <2>3, <3>1, <3>2 DEF ServerAlone, Editing, Undisturbed
  <2>4. CASE p # Server
    <3>1. pc'[Server] = pc[Server] /\ p \in Commands /\ Editing(p)
      BY <2>1, <2>2, <2>4, <1>a DEF Editing
    <3>. QED BY <2>1, <3>1 DEF ServerAlone, Editing
  <2>. QED BY <2>3, <2>4
<1>6. ASSUME NEW p \in Procs, Dies(p) PROVE ServerAlone'
  <2>1. /\ fd' = [fd EXCEPT ![p] = NoInode] /\ mem' = [mem EXCEPT ![p] = {}]
        /\ UNCHANGED <<cfgFile, tmpFile, doc, overlap>>
        /\ Goes(p, IF p = Server THEN "off" ELSE "done")
    BY <1>6 DEF Dies
  <2>2. CASE p = Server
    <3>1. pc'[Server] = "off"
      BY <2>1, <2>2, OthersPc
    <3>. QED BY <3>1, <1>a DEF ServerAlone, Editing
  <2>3. CASE p # Server
    <3>1. pc'[p] = "done" /\ \A q \in Procs \ {p} : pc'[q] = pc[q]
      BY <2>1, <2>3, OthersPc
    <3>2. fd'[Server] = fd[Server] /\ mem'[Server] = mem[Server]
      BY <2>1, <2>3, <1>a
    <3>. QED BY <2>1, <2>3, <3>1, <3>2, <1>a DEF ServerAlone, Editing, Undisturbed
  <2>. QED BY <2>2, <2>3
<1>7. ASSUME NEW p \in Commands, CommandLoads(p) PROVE ServerAlone'
  <2>1. Goes(p, "loaded") /\ Overlaps(p)
    BY <1>7 DEF CommandLoads
  <2>2. overlap' # "server" => ~ Editing(Server)
    BY <2>1, <1>a, OverlapsNoted
  <2>3. pc'[Server] = pc[Server]
    BY <2>1, <1>a, OthersPc
  <2>. QED BY <2>2, <2>3, <1>a DEF ServerAlone, Editing
<1>8. ASSUME NEW p \in Commands, CommandEdits(p) \/ CommandSavesNothing(p) PROVE ServerAlone'
  <2>1. pc[p] = "loaded" /\ UNCHANGED overlap /\ (Goes(p, "changed") \/ Goes(p, "done"))
    BY <1>8 DEF CommandEdits, CommandSavesNothing, Adds, Removes
  <2>2. pc'[Server] = pc[Server] /\ Editing(p)
    BY <2>1, <1>a, OthersPc DEF Editing
  <2>. QED BY <2>1, <2>2, <1>a DEF ServerAlone, Editing
<1>9. CASE ServerLoads
  <2>1. /\ mem' = [mem EXCEPT ![Server] = doc[cfgFile].tokens] /\ Goes(Server, "loaded")
        /\ Overlaps(Server) /\ UNCHANGED fileVars
    BY <1>9 DEF ServerLoads, Loaded
  <2>2. overlap' # "server" => \A c \in Commands : ~ Editing(c)
    BY <2>1, <1>a, OverlapsNoted
  <2>3. pc'[Server] = "loaded" /\ mem'[Server] = doc[cfgFile].tokens
        /\ \A c \in Commands : pc'[c] = pc[c]
    BY <2>1, <1>a, OthersPc
  <2>. QED BY <2>1, <2>2, <2>3, <1>a DEF ServerAlone, Editing, Undisturbed
<1>10. CASE ServerStats \/ AuthStats \/ AuthReloads \/ AuthKeeps
  <2>1. Goes(Server, "idle") \/ Goes(Server, "seen") \/ Goes(Server, "checked")
    BY <1>10 DEF ServerStats, AuthStats, AuthReloads, AuthKeeps
  <2>2. pc'[Server] \in {"idle", "seen", "checked"}
    BY <2>1, <1>a, OthersPc
  <2>. QED BY <2>2, <1>a DEF ServerAlone, Editing
<1>11. CASE WebEdits \/ LocalEdits
  <2>1. Goes(Server, "changed")
    BY <1>11 DEF WebEdits, LocalEdits, ServerEdits, Adds, Removes
  <2>2. overlap' # "server" => \A c \in Commands : ~ Editing(c)
    BY <1>11, <1>a, OverlapsNoted DEF WebEdits, LocalEdits
  <2>3. pc'[Server] = "changed" /\ \A c \in Commands : pc'[c] = pc[c]
    BY <2>1, <1>a, OthersPc
  <2>. QED BY <2>2, <2>3, <1>a DEF ServerAlone, Editing, Undisturbed
<1>. QED
  BY <1>0, <1>1, <1>2, <1>3, <1>4, <1>6, <1>7, <1>8, <1>9, <1>10, <1>11 DEF Next, Save

-----------------------------------------------------------------------------
(* The cache.                                                               *)

\* Where the server is not about to look at the file, a step changes neither what it
\* has in memory nor the file, or leaves the file newer than what the server saw.
LEMMA NextCache ==
  ASSUME Types, Times, ServerAlone, CacheTracks, [Next]_vars PROVE CacheTracks'
<1>. USE DEF fileVars, procVars, serverVars, historyVars
<1>a. /\ Server \in Procs /\ Server \notin Commands /\ Procs = Commands \cup {Server}
      /\ mem \in [Procs -> SUBSET Tokens] /\ task \in [Procs -> {NoTask} \cup ({"add", "rm"} \X Tokens)]
      /\ mtime \in [Inodes -> Nat]
      /\ doc \in [Inodes -> {Whole(d) : d \in SUBSET Tokens} \cup {Empty, Garbled}]
      /\ cfgFile \in Inodes /\ tmpFile \in Inodes \cup {NoInode} /\ NoInode \notin Inodes
      /\ \A p \in Procs : pc[p] \in {"opened", "written"} => fd[p] \in Inodes
  BY StoreAssumption DEF Types, TypeOK, AllMade, Procs
<1>0. CASE UNCHANGED vars
  BY <1>0 DEF vars, CacheTracks, Saving
<1>1. ASSUME NEW p \in Procs, OpenTmp(p) PROVE CacheTracks'
  <2>1. PICK i \in Inodes :
          /\ IF tmpFile = NoInode THEN i \notin Used ELSE i = tmpFile
          /\ doc' = [doc EXCEPT ![i] = Empty]
          /\ mtime' = [mtime EXCEPT ![i] = clock]
    BY <1>1 DEF OpenTmp
  <2>2. pc[p] = "changed" /\ Goes(p, "opened")
        /\ UNCHANGED <<cfgFile, cfgMtime, mem, task, overlap, unsaved>>
    BY <1>1 DEF OpenTmp
  <2>3. i # cfgFile
    BY <2>1 DEF Used, Times
  <2>4. doc'[cfgFile] = doc[cfgFile] /\ mtime'[cfgFile] = mtime[cfgFile]
    BY <2>1, <2>3, <1>a
  <2>5. (pc[Server] = "changed" /\ pc'[Server] = "opened") \/ pc'[Server] = pc[Server]
    BY <2>2, <1>a, OthersPc
  <2>. QED BY <2>2, <2>4, <2>5 DEF CacheTracks, Saving
<1>2. ASSUME NEW p \in Procs, WriteTmp(p) PROVE CacheTracks'
  <2>1. /\ fd[p] \in Inodes /\ mtime' = [mtime EXCEPT ![fd[p]] = clock]
        /\ pc[p] = "opened" /\ Goes(p, "written")
        /\ UNCHANGED <<cfgFile, cfgMtime, mem, task, overlap, unsaved>>
    BY <1>2, <1>a DEF WriteTmp
  <2>2. PICK d : doc' = [doc EXCEPT ![fd[p]] = d]
    BY <1>2 DEF WriteTmp
  <2>3. (pc[Server] = "opened" /\ pc'[Server] = "written") \/ pc'[Server] = pc[Server]
    BY <2>1, <1>a, OthersPc
  <2>4. CASE fd[p] = cfgFile
    <3>1. mtime'[cfgFile] = clock /\ cfgMtime < clock /\ cfgMtime \in Nat
      BY <2>1, <2>4, <1>a DEF Times, Types, TypeOK
    <3>2. mtime'[cfgFile'] # cfgMtime'
      BY <2>1, <3>1
    <3>. QED BY <3>2 DEF CacheTracks, Saving
  <2>5. CASE fd[p] # cfgFile
    <3>1. doc'[cfgFile] = doc[cfgFile] /\ mtime'[cfgFile] = mtime[cfgFile]
      BY <2>1, <2>2, <2>5, <1>a
    <3>. QED BY <2>1, <2>3, <3>1 DEF CacheTracks, Saving
  <2>. QED BY <2>4, <2>5
<1>3. ASSUME NEW p \in Procs, SaveFails(p) PROVE CacheTracks'
  <2>1. /\ pc[p] \in {"changed", "opened", "written"} /\ Goes(p, IF p = Server THEN "idle" ELSE "done")
        /\ UNCHANGED <<cfgFile, doc, mtime, mem, task, cfgMtime, overlap>>
        /\ unsaved' = IF p = Server THEN unsaved \cup {task[p][2]} ELSE unsaved
    BY <1>3 DEF SaveFails
  <2>2. CASE p = Server
    <3>1. pc'[Server] = "idle"
      BY <2>1, <2>2, OthersPc
    <3>. QED BY <2>1, <2>2, <3>1 DEF CacheTracks, Saving
  <2>3. CASE p # Server
    <3>1. pc'[Server] = pc[Server]
      BY <2>1, <2>3, <1>a, OthersPc
    <3>. QED BY <2>1, <2>3, <3>1 DEF CacheTracks, Saving
  <2>. QED BY <2>2, <2>3
<1>4. ASSUME NEW p \in Procs, Replace(p) PROVE CacheTracks'
  <2>1. /\ tmpFile # NoInode /\ cfgFile' = tmpFile /\ UNCHANGED <<mem, mtime, doc, cfgMtime, overlap>>
        /\ Goes(p, IF p = Server THEN "saved" ELSE "done")
    BY <1>4 DEF Replace
  <2>2. mtime'[cfgFile'] # cfgMtime'
    BY <2>1 DEF Times
  <2>. QED BY <2>2 DEF CacheTracks, Saving
<1>6. ASSUME NEW p \in Procs, Dies(p) PROVE CacheTracks'
  <2>1. /\ mem' = [mem EXCEPT ![p] = {}] /\ task' = [task EXCEPT ![p] = NoTask]
        /\ UNCHANGED <<fileVars, cfgMtime, overlap>> /\ (p # Server => unsaved' = unsaved)
        /\ Goes(p, IF p = Server THEN "off" ELSE "done")
    BY <1>6 DEF Dies
  <2>2. CASE p = Server
    <3>1. pc'[Server] = "off"
      BY <2>1, <2>2, OthersPc
    <3>. QED BY <3>1 DEF CacheTracks, Saving
  <2>3. CASE p # Server
    <3>1. pc'[Server] = pc[Server] /\ mem'[Server] = mem[Server] /\ task'[Server] = task[Server]
      BY <2>1, <2>3, <1>a, OthersPc
    <3>. QED BY <2>1, <2>3, <3>1 DEF CacheTracks, Saving
  <2>. QED BY <2>2, <2>3
<1>7. ASSUME NEW p \in Commands, CommandLoads(p) PROVE CacheTracks'
  <2>1. /\ Goes(p, "loaded") /\ Overlaps(p) /\ mem' = [mem EXCEPT ![p] = Loaded]
        /\ UNCHANGED <<fileVars, cfgMtime, task, unsaved>>
    BY <1>7 DEF CommandLoads
  <2>2. overlap = "server" => overlap' = "server"
    BY <2>1, <1>a, OverlapsNoted
  <2>3. pc'[Server] = pc[Server] /\ mem'[Server] = mem[Server]
    BY <2>1, <1>a, OthersPc
  <2>. QED BY <2>1, <2>2, <2>3 DEF CacheTracks, Saving
<1>8. ASSUME NEW p \in Commands, CommandEdits(p) PROVE CacheTracks'
  <2>1. PICK t \in Tokens : Adds(p, t) \/ Removes(p, t)
    BY <1>8 DEF CommandEdits
  <2>2. /\ mem' = [mem EXCEPT ![p] = @ \cup {t}] \/ mem' = [mem EXCEPT ![p] = @ \ {t}]
        /\ task' = [task EXCEPT ![p] = <<"add", t>>] \/ task' = [task EXCEPT ![p] = <<"rm", t>>]
        /\ Goes(p, "changed") /\ UNCHANGED <<fileVars, cfgMtime, overlap, unsaved>>
    BY <1>8, <2>1 DEF CommandEdits, Adds, Removes
  <2>3. pc'[Server] = pc[Server] /\ mem'[Server] = mem[Server] /\ task'[Server] = task[Server]
    BY <2>2, <1>a, OthersPc
  <2>. QED BY <2>2, <2>3 DEF CacheTracks, Saving
<1>9. ASSUME NEW p \in Commands, CommandSavesNothing(p) PROVE CacheTracks'
  <2>1. Goes(p, "done") /\ UNCHANGED <<fileVars, mem, task, cfgMtime, overlap, unsaved>>
    BY <1>9 DEF CommandSavesNothing
  <2>2. pc'[Server] = pc[Server]
    BY <2>1, <1>a, OthersPc
  <2>. QED BY <2>1, <2>2 DEF CacheTracks, Saving
<1>5. CASE ServerLoads
  <2>1. pc'[Server] = "loaded"
    BY <1>5, <1>a, OthersPc DEF ServerLoads
  <2>. QED BY <2>1 DEF CacheTracks, Saving
<1>10. CASE WebEdits \/ LocalEdits
  <2>1. PICK t \in Tokens : Adds(Server, t) \/ Removes(Server, t)
    BY <1>10 DEF WebEdits, LocalEdits, ServerEdits
  <2>2. /\ mem' = [mem EXCEPT ![Server] = @ \cup {t}] \/ mem' = [mem EXCEPT ![Server] = @ \ {t}]
        /\ task' = [task EXCEPT ![Server] = <<"add", t>>] \/ task' = [task EXCEPT ![Server] = <<"rm", t>>]
        /\ Goes(Server, "changed")
    BY <2>1 DEF Adds, Removes
  <2>3. pc[Server] \in {"idle", "checked"} /\ UNCHANGED <<fileVars, cfgMtime, unsaved>>
    BY <1>10 DEF WebEdits, LocalEdits, ServerEdits
  <2>4. overlap = "server" => overlap' = "server"
    BY <1>10, <1>a, OverlapsNoted DEF WebEdits, LocalEdits
  <2>5. pc'[Server] = "changed"
    BY <2>2, <1>a, OthersPc
  <2>6. task'[Server][2] = t
    BY <2>2, <1>a
  <2>7. mem'[Server] = mem[Server] \cup {t} \/ mem'[Server] = mem[Server] \ {t}
    BY <2>2, <1>a
  <2>. QED BY <2>3, <2>4, <2>5, <2>6, <2>7 DEF CacheTracks, Saving, Agree
<1>11. CASE ServerStats
  <2>1. pc[Server] \in {"loaded", "saved"} /\ UNCHANGED <<fileVars, mem, overlap>>
        /\ pc'[Server] = "idle"
    BY <1>11, <1>a, OthersPc DEF ServerStats
  <2>2. overlap # "server" => mem[Server] = doc[cfgFile].tokens
    BY <2>1, <1>a DEF ServerAlone, Editing
  <2>. QED BY <2>1, <2>2 DEF CacheTracks, Saving, Agree
<1>12. CASE AuthStats \/ AuthKeeps
  <2>1. pc[Server] \in {"idle", "seen", "checked"} /\ UNCHANGED <<fileVars, mem, cfgMtime, overlap, unsaved>>
        /\ pc'[Server] \in {"seen", "checked"}
    BY <1>12, <1>a, OthersPc DEF AuthStats, AuthKeeps
  <2>. QED BY <2>1 DEF CacheTracks, Saving
<1>13. CASE AuthReloads
  <2>1. /\ pc[Server] = "seen" /\ UNCHANGED <<fileVars, overlap>> /\ pc'[Server] = "checked"
        /\ mem'[Server] = doc[cfgFile].tokens \/ UNCHANGED <<mem, cfgMtime, unsaved>>
    BY <1>13, <1>a, OthersPc DEF AuthReloads
  <2>. QED BY <2>1 DEF CacheTracks, Saving, Agree
<1>. QED
  BY <1>0, <1>1, <1>2, <1>3, <1>4, <1>5, <1>6, <1>7, <1>8, <1>9, <1>10, <1>11, <1>12, <1>13
     DEF Next, Save

LEMMA CacheInvariant == Spec => []CacheInv
<1>1. Init => CacheInv
  BY InitTypes, InitTimes, InitAlone DEF CacheInv
<1>2. CacheInv /\ [Next]_vars => CacheInv'
  BY NextTypes, NextTimes, NextAlone, NextCache DEF CacheInv
<1>. QED BY <1>1, <1>2, PTL DEF Spec

\* CacheCurrent: as long as the server's own edits have met no other process's, a
\* server whose remembered mtime is that of server.json has the tokens of
\* server.json, but for edits of its own that it failed to save, however many commands
\* race each other for the file.
THEOREM CacheTrue == Spec => []CacheCurrent
<1>1. CacheInv => CacheCurrent
  BY DEF CacheInv, CacheTracks, CacheCurrent
<1>. QED BY <1>1, CacheInvariant, PTL

-----------------------------------------------------------------------------
(* Serial edits.                                                            *)

\* What the lemmas of this part assume: edits have been serial, and are after the step.
Serially ==
    /\ Types /\ Times /\ CacheCurrent
    /\ OneEditor /\ EditsFile /\ FileTrue /\ DoubtTrue /\ CheckTrue
    /\ Next /\ overlap' = "none"

LEMMA SerialSoFar == ASSUME Types, [Next]_vars, overlap' = "none" PROVE overlap = "none"
<1>. USE DEF serverVars, historyVars
<1>a. Server \in Procs /\ \A p \in Commands : p \in Procs
  BY DEF Procs
<1>0. CASE UNCHANGED vars
  BY <1>0 DEF vars
<1>1. ASSUME NEW p \in Procs, Save(p) PROVE overlap = "none"
  BY <1>1 DEF Save, OpenTmp, WriteTmp, SaveFails, Replace
<1>2. ASSUME NEW p \in Procs, Dies(p) PROVE overlap = "none"
  BY <1>2 DEF Dies
<1>3. ASSUME NEW p \in Commands, CommandLoads(p) \/ CommandEdits(p) \/ CommandSavesNothing(p)
      PROVE overlap = "none"
  BY <1>3, <1>a, OverlapsNoted DEF CommandLoads, CommandEdits, CommandSavesNothing
<1>4. CASE ServerLoads
  BY <1>4, <1>a, OverlapsNoted DEF ServerLoads
<1>5. CASE ServerStats \/ AuthStats \/ AuthReloads \/ AuthKeeps
  BY <1>5 DEF ServerStats, AuthStats, AuthReloads, AuthKeeps
<1>6. CASE WebEdits \/ LocalEdits
  BY <1>6, <1>a, OverlapsNoted DEF WebEdits, LocalEdits
<1>. QED BY <1>0, <1>1, <1>2, <1>3, <1>4, <1>5, <1>6 DEF Next

\* A process that begins to edit is alone: one that loads, by Overlaps; the server
\* when it decides on an edit, for which it also has the tokens of the file.
LEMMA BeginsAlone ==
  ASSUME Serially, NEW p \in Procs,
         (p \in Commands /\ CommandLoads(p)) \/ (p = Server /\ (ServerLoads \/ WebEdits \/ LocalEdits))
  PROVE  \A q \in Procs \ {p} : ~ Editing(q)
<1>1. Overlaps(p) => \A q \in Procs \ {p} : ~ Editing(q)
  BY OverlapsNoted DEF Serially
<1>. QED BY <1>1 DEF Serially, CommandLoads, ServerLoads, WebEdits, LocalEdits

LEMMA ServerEditsFile ==
  ASSUME Serially, WebEdits \/ LocalEdits
  PROVE  Agree(mem[Server], doc[cfgFile].tokens, unsaved)
<1>1. overlap = "none"
  BY SerialSoFar DEF Serially
<1>2. cfgMtime = mtime[cfgFile]
  <2>1. CASE WebEdits
    BY <2>1 DEF WebEdits, Serially
  <2>2. CASE LocalEdits
    <3>1. Overlaps(Server) => \A q \in Commands : ~ Editing(q)
      BY OverlapsNoted, StoreAssumption DEF Serially, Procs
    <3>. QED BY <1>1, <2>2, <3>1 DEF LocalEdits, Serially
  <2>. QED BY <2>1, <2>2
<1>3. pc[Server] \in {"idle", "checked"}
  BY DEF WebEdits, LocalEdits
<1>. QED BY <1>1, <1>2, <1>3 DEF Serially, CacheCurrent

\* What a step does to who is editing: the others go on as they were.
LEMMA OthersEdit ==
  ASSUME Types, NEW p \in Procs, NEW to, Goes(p, to)
  PROVE  \A q \in Procs \ {p} : Editing(q)' = Editing(q) /\ Saving(q)' = Saving(q)
<1>1. \A q \in Procs \ {p} : pc'[q] = pc[q]
  BY OthersPc
<1>2. ASSUME NEW q \in Procs \ {p} PROVE Editing(q)' = Editing(q) /\ Saving(q)' = Saving(q)
  BY <1>1, <1>2 DEF Editing, Saving
<1>. QED BY <1>2

LEMMA NextEditor == ASSUME Serially PROVE OneEditor'
<1>a. Types /\ Server \in Procs /\ (\A c \in Commands : c \in Procs) /\ Server \notin Commands
  BY StoreAssumption DEF Procs, Serially
<1>1. ASSUME NEW p \in Procs, NEW to, Goes(p, to), Editing(p) PROVE OneEditor'
  <2>1. \A q \in Procs : Editing(q)' => Editing(q)
    BY <1>1, <1>a, OthersEdit
  <2>. QED BY <2>1 DEF OneEditor, Serially
<1>2. ASSUME NEW p \in Procs, NEW to, Goes(p, to), ~ Editing(p)' PROVE OneEditor'
  <2>1. \A q \in Procs : Editing(q)' => Editing(q)
    BY <1>2, <1>a, OthersEdit
  <2>. QED BY <2>1 DEF OneEditor, Serially
<1>3. ASSUME NEW p \in Procs, NEW to, Goes(p, to), \A q \in Procs \ {p} : ~ Editing(q)
      PROVE OneEditor'
  <2>1. \A q \in Procs : Editing(q)' => q = p
    BY <1>3, <1>a, OthersEdit
  <2>. QED BY <2>1 DEF OneEditor
<1>4. ASSUME NEW p \in Procs, Save(p) PROVE OneEditor'
  <2>1. Editing(p)
    BY <1>4 DEF Save, OpenTmp, WriteTmp, SaveFails, Replace, Editing, Procs
  <2>2. \E to : Goes(p, to)
    BY <1>4 DEF Save, OpenTmp, WriteTmp, SaveFails, Replace
  <2>. QED BY <2>1, <2>2, <1>1
<1>5. ASSUME NEW p \in Procs, Dies(p) PROVE OneEditor'
  <2>1. PICK to \in {"off", "done"} : Goes(p, to)
    BY <1>5 DEF Dies
  <2>2. pc'[p] = to
    BY <2>1, <1>a, OthersPc
  <2>3. ~ Editing(p)'
    BY <2>2 DEF Editing
  <2>. QED BY <2>1, <2>3, <1>2
<1>6. ASSUME NEW p \in Commands, CommandLoads(p) PROVE OneEditor'
  BY <1>6, <1>3, <1>a, BeginsAlone DEF CommandLoads
<1>7. ASSUME NEW p \in Commands, CommandEdits(p) \/ CommandSavesNothing(p) PROVE OneEditor'
  <2>1. Editing(p) /\ (Goes(p, "changed") \/ Goes(p, "done"))
    BY <1>7, <1>a DEF CommandEdits, CommandSavesNothing, Adds, Removes, Editing
  <2>. QED BY <2>1, <1>1, <1>a
<1>8. CASE ServerLoads \/ WebEdits \/ LocalEdits
  <2>1. Goes(Server, "loaded") \/ Goes(Server, "changed")
    BY <1>8 DEF ServerLoads, WebEdits, LocalEdits, ServerEdits, Adds, Removes
  <2>. QED BY <1>8, <2>1, <1>3, <1>a, BeginsAlone
<1>9. CASE ServerStats \/ AuthStats \/ AuthReloads \/ AuthKeeps
  <2>1. PICK to \in {"idle", "seen", "checked"} : Goes(Server, to)
    BY <1>9 DEF ServerStats, AuthStats, AuthReloads, AuthKeeps
  <2>2. pc'[Server] = to
    BY <2>1, <1>a, OthersPc
  <2>3. ~ Editing(Server)'
    BY <2>2, <1>a DEF Editing
  <2>. QED BY <2>1, <2>3, <1>2, <1>a
<1>. QED
  BY <1>4, <1>5, <1>6, <1>7, <1>8, <1>9 DEF Next, Serially

\* A step of p leaves alone the edit of a process that has not begun with it, unless
\* it changes the files or what counts against the edit.
LEMMA OtherEditKept ==
  ASSUME Serially, NEW p \in Procs, NEW to, Goes(p, to), NEW q \in Procs \ {p}, Editing(q)',
         UNCHANGED fileVars, mem'[q] = mem[q], fd'[q] = fd[q], task'[q] = task[q],
         valid' \subseteq valid, revoked' \subseteq revoked, mustAccept' \subseteq mustAccept \cup valid,
         unsaved' \subseteq unsaved, q = Server => unsaved' = unsaved
  PROVE  EditOf(q)'
<1>1. Editing(q) /\ Saving(q)' = Saving(q) /\ pc'[q] = pc[q]
  BY OthersEdit, OthersPc DEF Serially
<1>2. EditOf(q)
  BY <1>1 DEF Serially, EditsFile
<1>3. Doubt(q)' = Doubt(q)
  BY DEF Doubt
<1>. QED BY <1>1, <1>2, <1>3 DEF EditOf, Undisturbed, fileVars

\* Neither the truncation of the temporary file nor the write to it is one of server.json.
LEMMA OpenKeepsFile ==
  ASSUME Serially, NEW p \in Procs, OpenTmp(p)
  PROVE  Loaded' = Loaded /\ revoked' = revoked
<1>a. /\ doc \in [Inodes -> {Whole(d) : d \in SUBSET Tokens} \cup {Empty, Garbled}]
      /\ cfgFile \in Inodes /\ NoInode \notin Inodes
  BY StoreAssumption DEF Serially, Types, TypeOK
<1>1. PICK i \in Inodes :
        /\ IF tmpFile = NoInode THEN i \notin Used ELSE i = tmpFile
        /\ doc' = [doc EXCEPT ![i] = Empty]
  BY DEF OpenTmp
<1>2. i # cfgFile
  BY <1>1, <1>a DEF Used, Serially, Times
<1>3. doc'[cfgFile] = doc[cfgFile]
  BY <1>1, <1>2, <1>a
<1>. QED BY <1>3 DEF OpenTmp, Loaded, historyVars

LEMMA WriteKeepsFile ==
  ASSUME Serially, NEW p \in Procs, WriteTmp(p)
  PROVE  Loaded' = Loaded /\ revoked' = revoked
<1>a. /\ doc \in [Inodes -> {Whole(d) : d \in SUBSET Tokens} \cup {Empty, Garbled}]
      /\ cfgFile \in Inodes /\ NoInode \notin Inodes
      /\ \A q \in Procs : pc[q] \in {"opened", "written"} => fd[q] \in Inodes
  BY StoreAssumption DEF Serially, Types, TypeOK, AllMade
<1>1. Editing(p) /\ pc[p] = "opened" /\ fd[p] \in Inodes
  BY <1>a DEF WriteTmp, Editing, Procs
<1>2. fd[p] # cfgFile
  BY <1>1, <1>a DEF Serially, EditsFile, EditOf, Undisturbed, Times
<1>3. doc'[cfgFile] = doc[cfgFile]
  BY <1>2, <1>a DEF WriteTmp
<1>. QED BY <1>3 DEF WriteTmp, Loaded, historyVars

LEMMA NextEdits == ASSUME Serially PROVE EditsFile'
<1>. USE DEF procVars, serverVars, historyVars
<1>a. Types /\ Server \in Procs /\ (\A c \in Commands : c \in Procs) /\ Server \notin Commands
  BY StoreAssumption DEF Procs, Serially
<1>b. /\ pc \in [Procs -> PCs] /\ mem \in [Procs -> SUBSET Tokens]
      /\ fd \in [Procs -> Inodes \cup {NoInode}]
      /\ doc \in [Inodes -> {Whole(d) : d \in SUBSET Tokens} \cup {Empty, Garbled}]
      /\ task \in [Procs -> {NoTask} \cup ({"add", "rm"} \X Tokens)]
      /\ cfgFile \in Inodes /\ tmpFile \in Inodes \cup {NoInode} /\ NoInode \notin Inodes
      /\ \A p \in Procs : pc[p] \in {"opened", "written"} => fd[p] \in Inodes
      /\ valid \cup revoked \cup mustAccept \cup unsaved \subseteq made
      /\ \A i \in Inodes : doc[i].tokens \subseteq made
  BY <1>a, StoreAssumption DEF Types, TypeOK, AllMade
<1>1. ASSUME NEW p \in Procs, NEW to, Goes(p, to), Editing(p), Editing(p)' => EditOf(p)'
      PROVE EditsFile'
  <2>1. \A q \in Procs : Editing(q)' => q = p
    BY <1>1, <1>a, OthersEdit DEF Serially, OneEditor
  <2>. QED BY <1>1, <2>1 DEF EditsFile
<1>2. ASSUME NEW p \in Procs, NEW to, Goes(p, to), \A q \in Procs \ {p} : ~ Editing(q), EditOf(p)'
      PROVE EditsFile'
  <2>1. \A q \in Procs : Editing(q)' => q = p
    BY <1>2, <1>a, OthersEdit
  <2>. QED BY <1>2, <2>1 DEF EditsFile
<1>3. ASSUME NEW p \in Procs, NEW to, Goes(p, to), ~ Editing(p)', UNCHANGED fileVars,
             \A q \in Procs \ {p} : mem'[q] = mem[q] /\ fd'[q] = fd[q] /\ task'[q] = task[q],
             UNCHANGED <<valid, revoked>>, mustAccept' \subseteq mustAccept \cup valid,
             unsaved' = unsaved \/ (p = Server /\ unsaved' = {})
      PROVE EditsFile'
  <2>1. ASSUME NEW q \in Procs, Editing(q)' PROVE EditOf(q)'
    <3>1. q \in Procs \ {p}
      BY <1>3, <2>1
    <3>. QED BY <1>3, <2>1, <3>1, OtherEditKept
  <2>. QED BY <2>1 DEF EditsFile
<1>4. ASSUME NEW p \in Procs, OpenTmp(p) PROVE EditsFile'
  <2>1. PICK i \in Inodes :
          /\ IF tmpFile = NoInode THEN i \notin Used ELSE i = tmpFile
          /\ tmpFile' = i
          /\ fd' = [fd EXCEPT ![p] = i]
          /\ doc' = [doc EXCEPT ![i] = Empty]
    BY <1>4 DEF OpenTmp
  <2>2. pc[p] = "changed" /\ Goes(p, "opened")
        /\ UNCHANGED <<cfgFile, mem, task, valid, revoked, mustAccept, unsaved>>
    BY <1>4 DEF OpenTmp
  <2>3. i # cfgFile
    BY <2>1 DEF Used, Serially, Times
  <2>4. doc'[cfgFile'] = doc[cfgFile] /\ doc'[tmpFile'] = Empty /\ fd'[p] = tmpFile'
    BY <2>1, <2>2, <2>3, <1>b
  <2>5. pc'[p] = "opened"
    BY <2>2, <1>a, OthersPc
  <2>6. Editing(p) /\ Saving(p) /\ Saving(p)'
    BY <2>2, <2>5 DEF Editing, Saving, Procs
  <2>7. EditOf(p)
    BY <2>6 DEF Serially, EditsFile
  <2>8. EditOf(p)'
    BY <2>2, <2>4, <2>5, <2>6, <2>7 DEF EditOf, Undisturbed, Doubt
  <2>. QED BY <2>2, <2>6, <2>8, <1>1
<1>5. ASSUME NEW p \in Procs, WriteTmp(p) PROVE EditsFile'
  <2>1. pc[p] = "opened" /\ Goes(p, "written")
        /\ UNCHANGED <<cfgFile, tmpFile, fd, mem, task, valid, revoked, mustAccept, unsaved>>
    BY <1>5 DEF WriteTmp
  <2>2. Editing(p) /\ Saving(p)
    BY <2>1 DEF Editing, Saving, Procs
  <2>3. EditOf(p) /\ fd[p] = tmpFile /\ doc[tmpFile] = Empty
    BY <2>1, <2>2 DEF Serially, EditsFile, EditOf, Undisturbed
  <2>4. doc' = [doc EXCEPT ![tmpFile] = Whole(mem[p])]
    BY <1>5, <2>3 DEF WriteTmp
  <2>5. tmpFile \in Inodes /\ tmpFile # cfgFile
    BY <2>1, <2>3, <1>b DEF Serially, Times
  <2>6. doc'[cfgFile] = doc[cfgFile] /\ doc'[tmpFile] = Whole(mem[p])
    BY <2>4, <2>5, <1>b
  <2>7. pc'[p] = "written"
    BY <2>1, <1>a, OthersPc
  <2>8. Saving(p)'
    BY <2>7 DEF Saving
  <2>9. EditOf(p)'
    BY <2>1, <2>2, <2>3, <2>6, <2>7, <2>8 DEF EditOf, Undisturbed, Doubt
  <2>. QED BY <2>1, <2>2, <2>9, <1>1
<1>6. ASSUME NEW p \in Procs, SaveFails(p) PROVE EditsFile'
  <2>1. pc[p] \in {"changed", "opened", "written"} /\ Goes(p, IF p = Server THEN "idle" ELSE "done")
    BY <1>6 DEF SaveFails
  <2>2. Editing(p)
    BY <2>1 DEF Editing, Procs
  <2>3. pc'[p] = "idle" \/ pc'[p] = "done"
    BY <2>1, <1>a, OthersPc
  <2>4. ~ Editing(p)'
    BY <2>3 DEF Editing
  <2>. QED BY <2>1, <2>2, <2>4, <1>1
<1>7. ASSUME NEW p \in Procs, Replace(p) PROVE EditsFile'
  <2>1. pc[p] = "written" /\ cfgFile' = tmpFile /\ UNCHANGED <<doc, mem>>
        /\ Goes(p, IF p = Server THEN "saved" ELSE "done")
    BY <1>7 DEF Replace
  <2>2. Editing(p)
    BY <2>1 DEF Editing, Procs
  <2>3. pc'[p] = "saved" \/ pc'[p] = "done"
    BY <2>1, <1>a, OthersPc
  <2>4. ~ Saving(p)' /\ Undisturbed(p)'
    BY <2>3 DEF Saving, Undisturbed
  <2>5. doc[tmpFile] = Whole(mem[p])
    BY <2>1, <2>2 DEF Serially, EditsFile, EditOf, Undisturbed
  <2>6. EditOf(p)'
    BY <2>1, <2>4, <2>5 DEF EditOf, Whole
  <2>. QED BY <2>1, <2>2, <2>6, <1>1
<1>8. ASSUME NEW p \in Procs, Dies(p) PROVE EditsFile'
  <2>1. PICK to \in {"off", "done"} : Goes(p, to)
    BY <1>8 DEF Dies
  <2>2. pc'[p] = to
    BY <2>1, <1>a, OthersPc
  <2>3. ~ Editing(p)'
    BY <2>2 DEF Editing
  <2>4. \A q \in Procs \ {p} : mem'[q] = mem[q] /\ fd'[q] = fd[q] /\ task'[q] = task[q]
    BY <1>8, <1>b DEF Dies
  <2>5. UNCHANGED <<fileVars, valid, revoked, mustAccept>>
        /\ (unsaved' = unsaved \/ (p = Server /\ unsaved' = {}))
    BY <1>8 DEF Dies
  <2>. QED BY <2>1, <2>3, <2>4, <2>5, <1>3
<1>9. ASSUME NEW p \in Procs, mem' = [mem EXCEPT ![p] = Loaded], Goes(p, "loaded"),
             \A q \in Procs \ {p} : ~ Editing(q), UNCHANGED fileVars
      PROVE EditsFile'
  <2>1. pc'[p] = "loaded" /\ mem'[p] = doc[cfgFile].tokens
    BY <1>9, <1>a, <1>b, OthersPc DEF Loaded
  <2>2. EditOf(p)'
    BY <2>1, <1>9 DEF EditOf, Undisturbed, Saving, fileVars
  <2>. QED BY <1>9, <2>2, <1>2
<1>10. ASSUME NEW p \in Procs, NEW t \in Tokens, Adds(p, t) \/ Removes(p, t),
              \A q \in Procs \ {p} : ~ Editing(q), Agree(mem[p], doc[cfgFile].tokens, Doubt(p)),
              UNCHANGED <<fileVars, revoked, mustAccept, unsaved>>
       PROVE EditsFile'
  <2>1. Goes(p, "changed") /\ valid' \subseteq valid
    BY <1>10 DEF Adds, Removes
  <2>2. pc'[p] = "changed"
    BY <2>1, <1>a, OthersPc
  <2>3. Undisturbed(p)'
    BY <2>2 DEF Undisturbed
  <2>4. UNCHANGED <<cfgFile, doc>> /\ Doubt(p)' = Doubt(p)
    BY <1>10 DEF fileVars, Doubt
  <2>5. CASE Adds(p, t)
    <3>1. mem'[p] = mem[p] \cup {t} /\ task'[p] = <<"add", t>>
          /\ t \notin doc[cfgFile].tokens \cup valid \cup revoked \cup mustAccept \cup unsaved
      BY <2>5, <1>10, <1>b DEF Adds
    <3>2. task'[p][1] = "add" /\ task'[p][2] = t
      BY <3>1
    <3>3. Agree(mem'[p], doc[cfgFile].tokens, Doubt(p) \cup {t})
      BY <1>10, <3>1 DEF Agree
    <3>4. EditOf(p)'
      BY <1>10, <2>1, <2>3, <2>4, <2>2, <3>1, <3>2, <3>3 DEF EditOf, Saving
    <3>. QED BY <1>10, <2>1, <3>4, <1>2
  <2>6. CASE Removes(p, t)
    <3>1. mem'[p] = mem[p] \ {t} /\ task'[p] = <<"rm", t>> /\ t \notin valid' /\ t \in mem[p]
      BY <2>6, <1>10, <1>b DEF Removes
    <3>2. task'[p][1] = "rm" /\ task'[p][2] = t
      BY <3>1
    <3>3. Agree(mem'[p], doc[cfgFile].tokens, Doubt(p) \cup {t})
          /\ (p # Server => t \in doc[cfgFile].tokens)
      BY <1>10, <3>1 DEF Agree, Doubt
    <3>4. EditOf(p)'
      BY <1>10, <2>1, <2>3, <2>4, <2>2, <3>1, <3>2, <3>3 DEF EditOf, Saving
    <3>. QED BY <1>10, <2>1, <3>4, <1>2
  <2>. QED BY <1>10, <2>5, <2>6
<1>11. ASSUME NEW p \in Commands, CommandLoads(p) PROVE EditsFile'
  BY <1>11, <1>9, <1>a, BeginsAlone DEF CommandLoads
<1>12. ASSUME NEW p \in Commands, CommandEdits(p) PROVE EditsFile'
  <2>1. PICK t \in Tokens : Adds(p, t) \/ Removes(p, t)
    BY <1>12 DEF CommandEdits
  <2>2. Editing(p) /\ ~ Saving(p)
    BY <1>12 DEF CommandEdits, Editing, Saving
  <2>3. mem[p] = doc[cfgFile].tokens /\ \A q \in Procs \ {p} : ~ Editing(q)
    BY <2>2, <1>a DEF Serially, EditsFile, EditOf, OneEditor
  <2>4. Agree(mem[p], doc[cfgFile].tokens, Doubt(p))
    BY <2>3 DEF Agree
  <2>. QED BY <1>12, <1>a, <2>1, <2>3, <2>4, <1>10 DEF CommandEdits
<1>13. ASSUME NEW p \in Commands, CommandSavesNothing(p) PROVE EditsFile'
  <2>1. Goes(p, "done") /\ Editing(p)
    BY <1>13 DEF CommandSavesNothing, Editing
  <2>2. pc'[p] = "done"
    BY <2>1, <1>a, OthersPc
  <2>3. ~ Editing(p)'
    BY <2>2 DEF Editing
  <2>. QED BY <2>1, <2>3, <1>a, <1>1
<1>14. CASE ServerLoads
  BY <1>14, <1>9, <1>a, BeginsAlone DEF ServerLoads
<1>15. CASE ServerStats \/ AuthStats \/ AuthReloads \/ AuthKeeps
  <2>1. PICK to \in {"idle", "seen", "checked"} : Goes(Server, to)
    BY <1>15 DEF ServerStats, AuthStats, AuthReloads, AuthKeeps
  <2>2. pc'[Server] = to
    BY <2>1, <1>a, OthersPc
  <2>3. ~ Editing(Server)'
    BY <2>2, <1>a DEF Editing
  <2>4. UNCHANGED <<fileVars, fd, task, valid, revoked>> /\ mustAccept' \subseteq mustAccept \cup valid
        /\ (unsaved' = unsaved \/ unsaved' = {})
    BY <1>15 DEF ServerStats, AuthStats, AuthReloads, AuthKeeps
  <2>5. \A q \in Procs \ {Server} : mem'[q] = mem[q]
    BY <1>15, <1>a, <1>b DEF ServerStats, AuthStats, AuthReloads, AuthKeeps
  <2>. QED BY <2>1, <2>3, <2>4, <2>5, <1>a, <1>3
<1>16. CASE WebEdits \/ LocalEdits
  <2>1. PICK t \in Tokens : Adds(Server, t) \/ Removes(Server, t)
    BY <1>16 DEF WebEdits, LocalEdits, ServerEdits
  <2>2. Agree(mem[Server], doc[cfgFile].tokens, Doubt(Server))
    BY <1>16, ServerEditsFile DEF Doubt
  <2>3. \A q \in Procs \ {Server} : ~ Editing(q)
    BY <1>16, <1>a, BeginsAlone
  <2>4. UNCHANGED <<fileVars, revoked, mustAccept, unsaved>>
    BY <1>16 DEF WebEdits, LocalEdits, ServerEdits
  <2>. QED BY <2>1, <2>2, <2>3, <2>4, <1>a, <1>10
<1>. QED
  BY <1>4, <1>5, <1>6, <1>7, <1>8, <1>11, <1>12, <1>13, <1>14, <1>15, <1>16
     DEF Next, Save, Serially

LEMMA NextFile == ASSUME Serially PROVE FileTrue'
<1>. USE DEF serverVars, historyVars
<1>a. /\ Types /\ Server \in Procs
      /\ doc \in [Inodes -> {Whole(d) : d \in SUBSET Tokens} \cup {Empty, Garbled}]
      /\ cfgFile \in Inodes /\ tmpFile \in Inodes \cup {NoInode} /\ NoInode \notin Inodes
      /\ \A p \in Procs : pc[p] \in {"opened", "written"} => fd[p] \in Inodes
      /\ \A p \in Procs : Saving(p) => task[p] \in {"add", "rm"} \X made
  BY StoreAssumption DEF Procs, Serially, Types, TypeOK, AllMade
<1>b. FileWhole /\ valid \subseteq doc[cfgFile].tokens /\ revoked \cap doc[cfgFile].tokens = {}
  BY DEF Serially, FileTrue
<1>c. unsaved \cap valid = {} /\ mem[Server] \cap unsaved \cap revoked = {}
  BY DEF Serially, DoubtTrue
<1>1. ASSUME cfgFile' = cfgFile, doc'[cfgFile] = doc[cfgFile], valid' \subseteq valid,
             revoked' = revoked
      PROVE FileTrue'
  BY <1>1, <1>b DEF FileTrue, FileWhole
<1>2. ASSUME NEW p \in Procs, OpenTmp(p) PROVE FileTrue'
  <2>1. PICK i \in Inodes :
          /\ IF tmpFile = NoInode THEN i \notin Used ELSE i = tmpFile
          /\ doc' = [doc EXCEPT ![i] = Empty]
    BY <1>2 DEF OpenTmp
  <2>2. i # cfgFile
    BY <2>1 DEF Used, Serially, Times
  <2>3. doc'[cfgFile] = doc[cfgFile]
    BY <2>1, <2>2, <1>a
  <2>. QED BY <1>2, <2>3, <1>1 DEF OpenTmp
<1>3. ASSUME NEW p \in Procs, WriteTmp(p) PROVE FileTrue'
  <2>1. Editing(p) /\ pc[p] = "opened" /\ fd[p] \in Inodes
    BY <1>3, <1>a DEF WriteTmp, Editing, Procs
  <2>2. fd[p] = tmpFile
    BY <2>1 DEF Serially, EditsFile, EditOf, Undisturbed
  <2>3. fd[p] # cfgFile
    BY <2>1, <2>2, <1>a DEF Serially, Times
  <2>4. doc'[cfgFile] = doc[cfgFile]
    BY <1>3, <2>3, <1>a DEF WriteTmp
  <2>. QED BY <1>3, <2>4, <1>1 DEF WriteTmp
<1>4. ASSUME NEW p \in Procs, SaveFails(p) \/ Dies(p) PROVE FileTrue'
  <2>1. UNCHANGED <<cfgFile, doc, valid, revoked>>
    BY <1>4 DEF SaveFails, Dies, fileVars
  <2>. QED BY <2>1, <1>1
<1>5. ASSUME NEW p \in Procs, Replace(p) PROVE FileTrue'
  <2>1. pc[p] = "written" /\ cfgFile' = tmpFile /\ doc' = doc /\ Reported(p)
    BY <1>5 DEF Replace
  <2>2. Editing(p) /\ Saving(p)
    BY <2>1 DEF Editing, Saving, Procs
  <2>3. EditOf(p)
    BY <2>2 DEF Serially, EditsFile
  <2>4. doc[tmpFile] = Whole(mem[p])
    BY <2>1, <2>3 DEF EditOf, Undisturbed
  <2>5. doc'[cfgFile'].kind = "whole" /\ doc'[cfgFile'].tokens = mem[p]
    BY <2>1, <2>4 DEF Whole
  <2>6. task[p] \in {"add", "rm"} \X made
    BY <2>2, <1>a
  <2>9. valid \ {task[p][2]} \subseteq mem[p]
    BY <2>2, <2>3, <1>b, <1>c DEF EditOf, Agree, Doubt
  <2>10. revoked \cap mem[p] \subseteq {task[p][2]}
    BY <2>2, <2>3, <1>b, <1>c DEF EditOf, Agree, Doubt
  <2>7. CASE task[p][1] = "add"
    <3>1. /\ task[p][2] \in mem[p] /\ task[p][2] \notin revoked
          /\ valid' = valid \cup {task[p][2]} /\ revoked' = revoked
      BY <2>1, <2>2, <2>3, <2>7 DEF EditOf, Reported
    <3>. QED BY <2>5, <2>9, <2>10, <3>1 DEF FileTrue, FileWhole
  <2>8. CASE task[p][1] = "rm"
    <3>1. /\ task[p][2] \notin mem[p] \cup valid
          /\ revoked' = revoked \cup {task[p][2]} /\ valid' = valid
      BY <2>1, <2>2, <2>3, <2>8 DEF EditOf, Reported
    <3>. QED BY <2>5, <2>9, <2>10, <3>1 DEF FileTrue, FileWhole
  <2>. QED BY <2>6, <2>7, <2>8
<1>6. ASSUME NEW p \in Commands, CommandLoads(p) \/ CommandEdits(p) \/ CommandSavesNothing(p)
      PROVE FileTrue'
  <2>1. UNCHANGED <<cfgFile, doc, revoked>> /\ valid' \subseteq valid
    BY <1>6 DEF CommandLoads, CommandEdits, CommandSavesNothing, Adds, Removes, fileVars
  <2>. QED BY <2>1, <1>1
<1>7. CASE ServerLoads \/ ServerStats \/ AuthStats \/ AuthReloads \/ AuthKeeps
  <2>1. UNCHANGED <<cfgFile, doc, valid, revoked>>
    BY <1>7 DEF ServerLoads, ServerStats, AuthStats, AuthReloads, AuthKeeps, fileVars
  <2>. QED BY <2>1, <1>1
<1>8. CASE WebEdits \/ LocalEdits
  <2>1. UNCHANGED <<cfgFile, doc, revoked>> /\ valid' \subseteq valid
    BY <1>8 DEF WebEdits, LocalEdits, ServerEdits, Adds, Removes, fileVars
  <2>. QED BY <2>1, <1>1
<1>. QED
  BY <1>2, <1>3, <1>4, <1>5, <1>6, <1>7, <1>8 DEF Next, Save, Serially

\* The server's failed edits: each is entered when its save fails, and struck out by the
\* next save that works, by a reload and by a restart.
LEMMA NextDoubt == ASSUME Serially PROVE DoubtTrue'
<1>. USE DEF serverVars, historyVars
<1>a. /\ Types /\ Server \in Procs /\ Server \notin Commands
      /\ (\A c \in Commands : c \in Procs /\ c # Server)
      /\ mem \in [Procs -> SUBSET Tokens]
      /\ \A p \in Procs : Saving(p) => task[p] \in {"add", "rm"} \X made
      /\ unsaved \subseteq made /\ mem[Server] \subseteq made
  BY StoreAssumption DEF Procs, Serially, Types, TypeOK, AllMade
<1>b. DoubtTrue /\ FileTrue
  BY DEF Serially
<1>1. ASSUME unsaved' = {} PROVE DoubtTrue'
  BY <1>1 DEF DoubtTrue
<1>2. ASSUME NEW p \in Procs, NEW to, Goes(p, to), unsaved' = unsaved, Loaded' = Loaded,
             mem'[Server] \cap unsaved \subseteq mem[Server],
             p = Server => to \notin {"off", "loaded", "saved"},
             valid' \subseteq valid, revoked' = revoked
      PROVE DoubtTrue'
  <2>1. pc'[Server] \in {"off", "loaded", "saved"} => pc'[Server] = pc[Server]
    BY <1>2, <1>a, OthersPc
  <2>. QED BY <1>2, <2>1, <1>b DEF DoubtTrue, Loaded
<1>3. ASSUME NEW p \in Procs, OpenTmp(p) \/ WriteTmp(p) PROVE DoubtTrue'
  <2>1. PICK to \in {"opened", "written"} : Goes(p, to)
    BY <1>3 DEF OpenTmp, WriteTmp
  <2>2. UNCHANGED <<mem, unsaved, valid>>
    BY <1>3 DEF OpenTmp, WriteTmp
  <2>3. Loaded' = Loaded /\ revoked' = revoked
    BY <1>3, OpenKeepsFile, WriteKeepsFile
  <2>. QED BY <2>1, <2>2, <2>3, <1>2
<1>4. ASSUME NEW p \in Procs, SaveFails(p) PROVE DoubtTrue'
  <2>1. /\ Saving(p) /\ Goes(p, IF p = Server THEN "idle" ELSE "done")
        /\ UNCHANGED <<cfgFile, doc, mem, valid, revoked>>
        /\ unsaved' = IF p = Server THEN unsaved \cup {task[p][2]} ELSE unsaved
    BY <1>4 DEF SaveFails, Saving
  <2>2. EditOf(p)
    BY <2>1 DEF Serially, EditsFile, Saving, Editing, Procs
  <2>3. CASE p = Server
    <3>1. pc'[Server] = "idle"
      BY <2>1, <2>3, <1>a, OthersPc
    <3>2. task[p][2] \notin valid
          /\ (task[p][2] \in mem[Server] => task[p][2] \notin doc[cfgFile].tokens \cup revoked)
      BY <2>1, <2>2, <2>3, <1>a DEF EditOf
    <3>. QED BY <2>1, <2>3, <3>1, <3>2, <1>b DEF DoubtTrue
  <2>4. CASE p # Server
    BY <2>1, <2>4, <1>2 DEF Loaded
  <2>. QED BY <2>3, <2>4
<1>5. ASSUME NEW p \in Procs, Replace(p) PROVE DoubtTrue'
  <2>1. CASE p = Server
    BY <1>5, <2>1, <1>1 DEF Replace
  <2>2. CASE p # Server
    <3>1. pc[p] = "written" /\ cfgFile' = tmpFile /\ Goes(p, "done") /\ Reported(p)
          /\ UNCHANGED <<doc, mem, unsaved>>
      BY <1>5, <2>2 DEF Replace
    <3>2. Saving(p) /\ EditOf(p)
      BY <3>1 DEF Serially, EditsFile, Saving, Editing, Procs
    <3>3. doc'[cfgFile'].tokens = mem[p]
      BY <3>1, <3>2 DEF EditOf, Undisturbed, Whole
    <3>4. mem[p] \subseteq doc[cfgFile].tokens \cup {task[p][2]}
      BY <2>2, <3>2 DEF EditOf, Agree, Doubt
    <3>5. pc'[Server] = pc[Server]
      BY <3>1, <2>2, <1>a, OthersPc
    <3>6. CASE task[p][1] = "add"
      <4>1. task[p][2] \notin unsaved /\ valid' = valid \cup {task[p][2]} /\ revoked' = revoked
        BY <3>1, <3>2, <3>6 DEF EditOf, Reported
      <4>. QED BY <3>1, <3>3, <3>4, <3>5, <4>1, <1>b DEF DoubtTrue
    <3>7. CASE task[p][1] = "rm"
      <4>1. task[p][2] \in doc[cfgFile].tokens /\ valid' = valid
            /\ revoked' = revoked \cup {task[p][2]}
        BY <2>2, <3>1, <3>2, <3>7 DEF EditOf, Reported
      <4>. QED BY <3>1, <3>3, <3>4, <3>5, <4>1, <1>b DEF DoubtTrue
    <3>. QED BY <3>2, <3>6, <3>7, <1>a
  <2>. QED BY <2>1, <2>2
<1>6. ASSUME NEW p \in Procs, Dies(p) PROVE DoubtTrue'
  <2>1. CASE p = Server
    BY <1>6, <2>1, <1>1 DEF Dies
  <2>2. CASE p # Server
    <3>1. Goes(p, "done") /\ mem'[Server] = mem[Server]
          /\ UNCHANGED <<unsaved, valid, revoked>> /\ Loaded' = Loaded
      BY <1>6, <2>2, <1>a DEF Dies, fileVars, Loaded
    <3>. QED BY <2>2, <3>1, <1>2
  <2>. QED BY <2>1, <2>2
<1>7. ASSUME NEW p \in Commands, CommandLoads(p) \/ CommandEdits(p) \/ CommandSavesNothing(p)
      PROVE DoubtTrue'
  <2>1. PICK to \in {"loaded", "changed", "done"} : Goes(p, to)
    BY <1>7 DEF CommandLoads, CommandEdits, CommandSavesNothing, Adds, Removes
  <2>2. UNCHANGED <<unsaved, revoked>> /\ valid' \subseteq valid /\ Loaded' = Loaded
    BY <1>7 DEF CommandLoads, CommandEdits, CommandSavesNothing, Adds, Removes, fileVars, Loaded
  <2>3. mem'[Server] = mem[Server]
    BY <1>7, <1>a DEF CommandLoads, CommandEdits, CommandSavesNothing, Adds, Removes
  <2>. QED BY <2>1, <2>2, <2>3, <1>a, <1>2
<1>8. CASE ServerLoads
  BY <1>8, <1>1, <1>b DEF ServerLoads, DoubtTrue
<1>9. CASE WebEdits \/ LocalEdits
  <2>1. PICK t \in Tokens : Adds(Server, t) \/ Removes(Server, t)
    BY <1>9 DEF WebEdits, LocalEdits, ServerEdits
  <2>2. Goes(Server, "changed") /\ valid' \subseteq valid /\ mem'[Server] \cap made \subseteq mem[Server]
    BY <2>1, <1>a DEF Adds, Removes
  <2>3. UNCHANGED <<unsaved, revoked>> /\ Loaded' = Loaded
    BY <1>9 DEF WebEdits, LocalEdits, ServerEdits, fileVars, Loaded
  <2>. QED BY <2>2, <2>3, <1>a, <1>2
<1>10. CASE AuthReloads
  <2>1. unsaved' = {}
    BY <1>10, <1>b DEF AuthReloads, FileTrue, FileWhole
  <2>. QED BY <2>1, <1>1
<1>11. CASE ServerStats \/ AuthStats \/ AuthKeeps
  <2>1. PICK to \in {"idle", "seen", "checked"} : Goes(Server, to)
    BY <1>11 DEF ServerStats, AuthStats, AuthKeeps
  <2>2. UNCHANGED <<mem, unsaved, valid, revoked>> /\ Loaded' = Loaded
    BY <1>11 DEF ServerStats, AuthStats, AuthKeeps, fileVars, Loaded
  <2>. QED BY <2>1, <2>2, <1>a, <1>2
<1>. QED
  BY <1>3, <1>4, <1>5, <1>6, <1>7, <1>8, <1>9, <1>10, <1>11 DEF Next, Save, Serially

LEMMA NextCheck == ASSUME Serially PROVE CheckTrue'
<1>. USE DEF serverVars, historyVars
<1>a. /\ Types /\ Server \in Procs /\ Server \notin Commands
      /\ (\A c \in Commands : c \in Procs /\ c # Server)
      /\ mem \in [Procs -> SUBSET Tokens]
      /\ \A p \in Procs : Saving(p) => task[p] \in {"add", "rm"} \X made
  BY StoreAssumption DEF Procs, Serially, Types, TypeOK, AllMade
<1>b. CheckTrue /\ valid \subseteq doc[cfgFile].tokens /\ revoked \cap doc[cfgFile].tokens = {}
      /\ doc[cfgFile].kind = "whole"
  BY DEF Serially, FileTrue, FileWhole
<1>1. ASSUME NEW p \in Procs, NEW to, Goes(p, to), p = Server => to \notin {"seen", "checked"},
             p # Server => mem'[Server] = mem[Server],
             UNCHANGED <<statMtime, cfgMtime, mustAccept, mustReject>>,
             mustAccept \cap valid' \subseteq valid, revoked \subseteq revoked'
      PROVE CheckTrue'
  <2>1. CASE p = Server
    <3>1. pc'[Server] = to
      BY <1>1, <2>1, <1>a, OthersPc
    <3>. QED BY <1>1, <2>1, <3>1, <1>b DEF CheckTrue
  <2>2. CASE p # Server
    <3>1. pc'[Server] = pc[Server]
      BY <1>1, <2>2, <1>a, OthersPc
    <3>. QED BY <1>1, <2>2, <3>1, <1>b DEF CheckTrue
  <2>. QED BY <2>1, <2>2
<1>2. ASSUME NEW p \in Procs, OpenTmp(p) \/ WriteTmp(p) \/ SaveFails(p)
      PROVE CheckTrue'
  <2>1. PICK to \in {"opened", "written", "idle", "done"} : Goes(p, to)
    BY <1>2 DEF OpenTmp, WriteTmp, SaveFails
  <2>2. UNCHANGED <<mem, statMtime, cfgMtime, mustAccept, mustReject, valid, revoked>>
    BY <1>2 DEF OpenTmp, WriteTmp, SaveFails
  <2>. QED BY <2>1, <2>2, <1>1
<1>3. ASSUME NEW p \in Procs, Replace(p) PROVE CheckTrue'
  <2>1. PICK to \in {"saved", "done"} : Goes(p, to)
    BY <1>3 DEF Replace
  <2>2. UNCHANGED <<mem, statMtime, cfgMtime, mustAccept, mustReject>> /\ Reported(p)
    BY <1>3 DEF Replace
  <2>3. Editing(p) /\ Saving(p)
    BY <1>3 DEF Replace, Editing, Saving, Procs
  <2>4. EditOf(p) /\ task[p] \in {"add", "rm"} \X made
    BY <2>3, <1>a DEF Serially, EditsFile
  <2>5. task[p][1] = "add" \/ task[p][1] = "rm"
    BY <2>4
  <2>6. mustAccept \cap valid' \subseteq valid /\ revoked \subseteq revoked'
    BY <2>2, <2>3, <2>4, <2>5 DEF Reported, EditOf
  <2>. QED BY <2>1, <2>2, <2>6, <1>1
<1>4. ASSUME NEW p \in Procs, Dies(p) PROVE CheckTrue'
  <2>1. PICK to \in {"off", "done"} : Goes(p, to)
    BY <1>4 DEF Dies
  <2>2. UNCHANGED <<statMtime, cfgMtime, mustAccept, mustReject, valid, revoked>>
        /\ mem' = [mem EXCEPT ![p] = {}]
    BY <1>4 DEF Dies
  <2>3. p # Server => mem'[Server] = mem[Server]
    BY <2>2, <1>a
  <2>. QED BY <2>1, <2>2, <2>3, <1>1
<1>5. ASSUME NEW p \in Commands, CommandLoads(p) \/ CommandEdits(p) \/ CommandSavesNothing(p)
      PROVE CheckTrue'
  <2>1. PICK to \in {"loaded", "changed", "done"} : Goes(p, to)
    BY <1>5 DEF CommandLoads, CommandEdits, CommandSavesNothing, Adds, Removes
  <2>2. UNCHANGED <<statMtime, cfgMtime, mustAccept, mustReject, revoked>> /\ valid' \subseteq valid
    BY <1>5 DEF CommandLoads, CommandEdits, CommandSavesNothing, Adds, Removes
  <2>3. mem'[Server] = mem[Server]
    BY <1>5, <1>a DEF CommandLoads, CommandEdits, CommandSavesNothing, Adds, Removes
  <2>. QED BY <2>1, <2>2, <2>3, <1>a, <1>1
<1>6. CASE ServerLoads \/ WebEdits \/ LocalEdits
  <2>1. PICK to \in {"loaded", "changed"} : Goes(Server, to)
    BY <1>6 DEF ServerLoads, WebEdits, LocalEdits, ServerEdits, Adds, Removes
  <2>2. UNCHANGED <<statMtime, cfgMtime, mustAccept, mustReject, revoked>> /\ valid' \subseteq valid
    BY <1>6 DEF ServerLoads, WebEdits, LocalEdits, ServerEdits, Adds, Removes
  <2>. QED BY <2>1, <2>2, <1>a, <1>1
<1>7. CASE ServerStats
  <2>1. pc'[Server] = "idle"
    BY <1>7, <1>a, OthersPc DEF ServerStats
  <2>. QED BY <1>7, <2>1, <1>b DEF ServerStats, CheckTrue
<1>8. CASE AuthStats
  <2>1. /\ pc[Server] \in {"idle", "checked"} /\ statMtime' = mtime[cfgFile] /\ mustAccept' = valid
        /\ mustReject' = revoked /\ UNCHANGED <<mem, cfgMtime, valid, revoked>>
    BY <1>8 DEF AuthStats
  <2>2. overlap = "none"
    BY SerialSoFar DEF Serially
  <2>3. cfgMtime = mtime[cfgFile] => Agree(mem[Server], doc[cfgFile].tokens, unsaved)
    BY <2>1, <2>2 DEF Serially, CacheCurrent
  <2>4. unsaved \cap valid = {} /\ mem[Server] \cap unsaved \cap revoked = {}
    BY DEF Serially, DoubtTrue
  <2>5. cfgMtime = mtime[cfgFile] => mem[Server] \cap revoked = {} /\ valid \subseteq mem[Server]
    BY <2>3, <2>4, <1>b DEF Agree
  <2>6. pc'[Server] = "seen"
    BY <1>8, <1>a, OthersPc DEF AuthStats
  <2>. QED BY <2>1, <2>5, <2>6, <1>b DEF CheckTrue
<1>9. CASE AuthReloads
  <2>1. /\ mem' = [mem EXCEPT ![Server] = doc[cfgFile].tokens]
        /\ UNCHANGED <<mustAccept, mustReject, valid, revoked>>
    BY <1>9, <1>b DEF AuthReloads
  <2>2. mem'[Server] = doc[cfgFile].tokens
    BY <2>1, <1>a
  <2>. QED BY <2>1, <2>2, <1>b DEF CheckTrue
<1>10. CASE AuthKeeps
  <2>1. pc[Server] = "seen" /\ statMtime = cfgMtime
        /\ UNCHANGED <<mem, mustAccept, mustReject, valid, revoked>>
    BY <1>10 DEF AuthKeeps
  <2>. QED BY <2>1, <1>b DEF CheckTrue
<1>. QED
  BY <1>2, <1>3, <1>4, <1>5, <1>6, <1>7, <1>8, <1>9, <1>10 DEF Next, Save, Serially

LEMMA InitSerial == ASSUME Init PROVE SerialInv
<1>1. \A p \in Procs : pc[p] = "off"
  BY DEF Init
<1>2. \A p \in Procs : ~ Editing(p)
  BY <1>1 DEF Editing
<1>3. Server \in Procs
  BY DEF Procs
<1>4. PICK first \in Tokens, i \in Inodes :
        /\ cfgFile = i
        /\ doc = [n \in Inodes |-> IF n = i THEN Whole({first}) ELSE Empty]
        /\ valid = {first} /\ revoked = {} /\ mustReject = {}
  BY DEF Init
<1>5. doc[cfgFile] = Whole({first})
  BY <1>4
<1>6. FileTrue
  BY <1>4, <1>5 DEF FileTrue, FileWhole, Whole
<1>7. CheckTrue
  BY <1>1, <1>3, <1>4 DEF CheckTrue
<1>8. DoubtTrue
  BY DEF Init, DoubtTrue
<1>. QED BY <1>2, <1>6, <1>7, <1>8 DEF SerialInv, OneEditor, EditsFile

LEMMA NextSerial == ASSUME CacheInv, SerialInv, [Next]_vars PROVE SerialInv'
<1>1. CASE UNCHANGED vars
  BY <1>1 DEF vars, fileVars, procVars, serverVars, historyVars, SerialInv, OneEditor, EditsFile,
              EditOf, Undisturbed, Saving, Editing, Doubt, FileTrue, FileWhole, DoubtTrue, CheckTrue
<1>2. CASE Next /\ overlap' = "none"
  <2>1. overlap = "none"
    BY <1>2, SerialSoFar DEF CacheInv
  <2>2. Serially
    BY <1>2, <2>1 DEF Serially, CacheInv, CacheTracks, CacheCurrent, SerialInv
  <2>. QED BY <2>2, NextEditor, NextEdits, NextFile, NextDoubt, NextCheck DEF SerialInv
<1>3. CASE overlap' # "none"
  BY <1>3 DEF SerialInv
<1>. QED BY <1>1, <1>2, <1>3

LEMMA StoreInvariant == Spec => []StoreInv
<1>1. Init => StoreInv
  BY InitTypes, InitTimes, InitAlone, InitSerial DEF StoreInv, CacheInv
<1>2. StoreInv /\ [Next]_vars => StoreInv'
  BY NextTypes, NextTimes, NextAlone, NextCache, NextSerial DEF StoreInv, CacheInv
<1>. QED BY <1>1, <1>2, PTL DEF Spec

\* SerialPromises: while no two edits overlap and the server edits no copy older than
\* the file, server.json is whole wherever a process dies, and from its next check on
\* the server accepts every token reported as added and rejects every one reported as
\* removed, whichever process did it and whatever the server failed to save before.
THEOREM SerialEdits == Spec => []SerialPromises
<1>1. StoreInv => SerialPromises
  BY DEF StoreInv, SerialInv, FileTrue, CheckTrue, SerialPromises, RevokedRejected, AddedAccepted
<1>. QED BY <1>1, StoreInvariant, PTL

-----------------------------------------------------------------------------
(* TokenStore implements AtomicTokens.                                      *)

AnswerOf == IF Decided THEN {mem[Server]} ELSE {}

\* Only a rename changes what server.json holds, and only it reports a removal: a file
\* that is opened, truncated or written to has not the name server.json (Times).
LEMMA FileMoves ==
  ASSUME Serially
  PROVE  \/ Loaded' = Loaded /\ revoked' = revoked
         \/ \E p \in Procs : Replace(p)
<1>. USE DEF serverVars, historyVars
<1>1. ASSUME NEW p \in Procs, OpenTmp(p) \/ WriteTmp(p) PROVE Loaded' = Loaded /\ revoked' = revoked
  BY <1>1, OpenKeepsFile, WriteKeepsFile
<1>3. ASSUME NEW p \in Procs, SaveFails(p) \/ Dies(p)
      PROVE  Loaded' = Loaded /\ revoked' = revoked
  BY <1>3 DEF SaveFails, Dies, fileVars, Loaded
<1>4. ASSUME NEW p \in Commands, CommandLoads(p) \/ CommandEdits(p) \/ CommandSavesNothing(p)
      PROVE  Loaded' = Loaded /\ revoked' = revoked
  BY <1>4 DEF CommandLoads, CommandEdits, CommandSavesNothing, fileVars, Loaded
<1>5. CASE ServerLoads \/ ServerStats \/ AuthStats \/ AuthReloads \/ AuthKeeps
  BY <1>5 DEF ServerLoads, ServerStats, AuthStats, AuthReloads, AuthKeeps, fileVars, Loaded
<1>6. CASE WebEdits \/ LocalEdits
  BY <1>6 DEF WebEdits, LocalEdits, ServerEdits, fileVars, Loaded
<1>. QED
  BY <1>1, <1>3, <1>4, <1>5, <1>6 DEF Next, Save, Serially

\* What the others do leaves the authentication alone, and what the server does besides
\* authenticating ends it.
LEMMA AuthMoves ==
  ASSUME Serially
  PROVE  \/ AuthStats \/ AuthReloads \/ AuthKeeps
         \/ AuthState' = AuthState /\ AnswerOf' = AnswerOf
         \/ AuthState' = "none" /\ AnswerOf' = {} /\ Loaded' = Loaded /\ revoked' = revoked
<1>. USE DEF serverVars, historyVars
<1>a. /\ Types /\ Server \in Procs /\ Server \notin Commands
      /\ (\A c \in Commands : c \in Procs /\ c # Server)
      /\ mem \in [Procs -> SUBSET Tokens]
  BY StoreAssumption DEF Procs, Serially, Types, TypeOK
<1> DEFINE Kept  == AuthState' = AuthState /\ AnswerOf' = AnswerOf
           Ended == AuthState' = "none" /\ AnswerOf' = {}
<1>1. ASSUME NEW p \in Procs, p # Server, NEW to, Goes(p, to),
             mem'[Server] = mem[Server], UNCHANGED <<statMtime, cfgMtime>>
      PROVE  Kept
  <2>1. pc'[Server] = pc[Server]
    BY <1>1, <1>a, OthersPc
  <2>. QED BY <1>1, <2>1 DEF AuthState, AnswerOf, Decided
<1>2. ASSUME NEW to \in {"opened", "written", "idle", "saved", "off", "loaded", "changed"},
             Goes(Server, to)
      PROVE  Ended
  <2>1. pc'[Server] = to
    BY <1>2, <1>a, OthersPc
  <2>. QED BY <2>1 DEF AuthState, AnswerOf, Decided
<1>3. ASSUME NEW p \in Procs, Save(p) PROVE Kept
  <2>1. pc[p] \in {"changed", "opened", "written"} /\ UNCHANGED <<mem, statMtime, cfgMtime>>
    BY <1>3 DEF Save, OpenTmp, WriteTmp, SaveFails, Replace
  <2>2. PICK to : Goes(p, to) /\ (p = Server => to \in {"opened", "written", "idle", "saved"})
    BY <1>3 DEF Save, OpenTmp, WriteTmp, SaveFails, Replace
  <2>3. CASE p # Server
    BY <1>1, <2>1, <2>2, <2>3
  <2>4. CASE p = Server
    <3>1. Ended
      BY <1>2, <2>2, <2>4
    <3>2. AuthState = "none" /\ AnswerOf = {}
      BY <2>1, <2>4 DEF AuthState, AnswerOf, Decided
    <3>. QED BY <3>1, <3>2
  <2>. QED BY <2>3, <2>4
<1>4. ASSUME NEW p \in Procs, Dies(p) PROVE Kept \/ Ended
  <2>1. CASE p = Server
    <3>1. Goes(Server, "off")
      BY <1>4, <2>1 DEF Dies
    <3>. QED BY <3>1, <1>2
  <2>2. CASE p # Server
    <3>1. Goes(p, "done") /\ mem'[Server] = mem[Server] /\ UNCHANGED <<statMtime, cfgMtime>>
      BY <1>4, <2>2, <1>a DEF Dies
    <3>. QED BY <3>1, <2>2, <1>1
  <2>. QED BY <2>1, <2>2
<1>5. ASSUME NEW p \in Commands, CommandLoads(p) \/ CommandEdits(p) \/ CommandSavesNothing(p)
      PROVE  Kept
  <2>1. PICK to \in {"loaded", "changed", "done"} : Goes(p, to)
    BY <1>5 DEF CommandLoads, CommandEdits, CommandSavesNothing, Adds, Removes
  <2>2. mem'[Server] = mem[Server] /\ UNCHANGED <<statMtime, cfgMtime>>
    BY <1>5, <1>a DEF CommandLoads, CommandEdits, CommandSavesNothing, Adds, Removes
  <2>. QED BY <2>1, <2>2, <1>1, <1>a
<1>6. ASSUME ServerLoads \/ ServerStats \/ WebEdits \/ LocalEdits PROVE Ended
  <2>1. PICK to \in {"loaded", "idle", "changed"} : Goes(Server, to)
    BY <1>6 DEF ServerLoads, ServerStats, WebEdits, LocalEdits, ServerEdits, Adds, Removes
  <2>. QED BY <1>2, <2>1
<1>7. ASSUME (\E p \in Procs : Dies(p)) \/ ServerLoads \/ ServerStats \/ WebEdits \/ LocalEdits
      PROVE  Loaded' = Loaded /\ revoked' = revoked
  BY <1>7 DEF Dies, ServerLoads, ServerStats, WebEdits, LocalEdits, ServerEdits, fileVars, Loaded
<1>. HIDE DEF Kept, Ended
<1>8. Next => \/ AuthStats \/ AuthReloads \/ AuthKeeps \/ Kept
              \/ Ended /\ Loaded' = Loaded /\ revoked' = revoked
  BY <1>3, <1>4, <1>5, <1>6, <1>7 DEF Next
<1>. QED BY <1>8 DEF Serially, Kept, Ended

\* What the server has in memory when it agrees with the file is a reading of it, and so
\* is what it saves, but for the edit itself.
LEMMA MemoryReads ==
  ASSUME Serially, Agree(mem[Server], Loaded, unsaved)
  PROVE  mem[Server] \in Atomic!Readings
<1>1. mem[Server] \subseteq Tokens
  BY DEF Serially, Types, TypeOK, Procs
<1>2. mem[Server] \cap revoked = {}
  BY DEF Serially, FileTrue, DoubtTrue, Agree, Loaded
<1>. QED BY <1>1, <1>2 DEF Atomic!Readings, Agree

\* A rename is one edit of the document, that of the process that saves; the server's
\* settles the edits it failed to save before.
LEMMA RenameEdits ==
  ASSUME Serially, NEW p \in Procs, Replace(p)
  PROVE  \E t \in Tokens :
           \/ /\ t \notin revoked /\ revoked' = revoked
              /\ \/ Loaded' = Loaded \cup {t} /\ unsaved' = unsaved
                 \/ (\E d \in Atomic!Readings : Loaded' = d \cup {t}) /\ unsaved' = {}
           \/ /\ revoked' = revoked \cup {t}
              /\ \/ Loaded' = Loaded \ {t} /\ unsaved' = unsaved
                 \/ (\E d \in Atomic!Readings : Loaded' = d \ {t}) /\ unsaved' = {}
<1>1. pc[p] = "written" /\ cfgFile' = tmpFile /\ doc' = doc /\ Reported(p)
      /\ unsaved' = IF p = Server THEN {} ELSE unsaved
  BY DEF Replace
<1>2. Editing(p) /\ Saving(p)
  BY <1>1 DEF Editing, Saving, Procs
<1>3. EditOf(p)
  BY <1>2 DEF Serially, EditsFile
<1>4. Loaded' = mem[p]
  BY <1>1, <1>3 DEF EditOf, Undisturbed, Whole, Loaded
<1>5. PICK t \in Tokens : task[p] \in {"add", "rm"} \X {t}
  BY <1>2 DEF Serially, Types, TypeOK, AllMade
<1>6. task[p][2] = t /\ (task[p][1] = "add" \/ task[p][1] = "rm")
  BY <1>5
<1>7. Agree(mem[p], Loaded, Doubt(p) \cup {t}) /\ mem[p] \subseteq Tokens
      /\ Loaded \subseteq Tokens /\ Loaded \cap revoked = {}
      /\ mem[Server] \cap unsaved \cap revoked = {}
  <2>1. Agree(mem[p], Loaded, Doubt(p) \cup {t})
    BY <1>2, <1>3, <1>6 DEF EditOf, Loaded
  <2>2. mem[p] \subseteq Tokens
    BY DEF Serially, Types, TypeOK
  <2>3. Loaded \cap revoked = {} /\ mem[Server] \cap unsaved \cap revoked = {}
    BY DEF Serially, FileTrue, DoubtTrue, Loaded
  <2>4. doc[cfgFile].tokens \subseteq made /\ made \subseteq Tokens
    BY DEF Serially, Types, TypeOK, AllMade
  <2>. QED BY <2>1, <2>2, <2>3, <2>4 DEF Loaded
<1>8. CASE task[p][1] = "add"
  <2>1. t \in mem[p] \ (Loaded \cup revoked \cup unsaved) /\ revoked' = revoked
    BY <1>1, <1>2, <1>3, <1>6, <1>8 DEF EditOf, Reported, Loaded
  <2>2. CASE p = Server
    <3>1. mem[p] = (mem[p] \ {t}) \cup {t}
      BY <2>1
    <3>2. (mem[p] \ {t}) \ unsaved = Loaded \ unsaved
      BY <1>7, <2>1, <2>2 DEF Agree, Doubt
    <3>3. (mem[p] \ {t}) \cap revoked = {}
      BY <1>7, <2>1, <2>2 DEF Agree, Doubt
    <3>4. (mem[p] \ {t}) \in Atomic!Readings
      BY <1>7, <3>2, <3>3 DEF Atomic!Readings
    <3>. QED BY <1>1, <1>4, <2>1, <2>2, <3>1, <3>4
  <2>3. CASE p # Server
    <3>1. mem[p] = Loaded \cup {t}
      BY <1>7, <2>1, <2>3 DEF Agree, Doubt
    <3>. QED BY <1>1, <1>4, <2>1, <2>3, <3>1
  <2>. QED BY <2>2, <2>3
<1>9. CASE task[p][1] = "rm"
  <2>1. t \notin mem[p] /\ revoked' = revoked \cup {t}
    BY <1>1, <1>2, <1>3, <1>6, <1>9 DEF EditOf, Reported
  <2>2. CASE p = Server
    <3> DEFINE d == mem[p] \cup (Loaded \cap {t})
    <3>1. mem[p] = d \ {t}
      BY <2>1
    <3>2. d \ unsaved = Loaded \ unsaved
      BY <1>7, <2>1, <2>2 DEF Agree, Doubt
    <3>3. d \cap revoked = {}
      BY <1>7, <2>1, <2>2 DEF Agree, Doubt
    <3>4. d \in Atomic!Readings
      BY <1>7, <3>2, <3>3 DEF Atomic!Readings
    <3>. QED BY <1>1, <1>4, <2>1, <2>2, <3>1, <3>4
  <2>3. CASE p # Server
    <3>1. mem[p] = Loaded \ {t}
      BY <1>7, <2>1, <2>3 DEF Agree, Doubt
    <3>. QED BY <1>1, <1>4, <2>1, <2>3, <3>1
  <2>. QED BY <2>2, <2>3
<1>. QED BY <1>6, <1>8, <1>9

\* Each step of the authentication: getmtime decides if nothing will be reloaded, and
\* the reload decides otherwise, by what the file holds then.
LEMMA AuthDecides ==
  ASSUME Serially, AuthStats \/ AuthReloads \/ AuthKeeps
  PROVE  /\ Loaded' = Loaded /\ revoked' = revoked
         /\ \/ /\ AuthState # "asked" /\ AuthState' = "asked" /\ unsaved' = unsaved
               /\ AnswerOf' = {} \/ \E d \in Atomic!Readings : AnswerOf' = {d}
            \/ /\ AuthState = "asked" /\ AuthState' = "answered"
               /\ \/ AnswerOf # {} /\ AnswerOf' = AnswerOf /\ unsaved' = unsaved
                  \/ AnswerOf = {} /\ AnswerOf' = {Loaded} /\ unsaved' = {}
<1>. USE DEF serverVars, historyVars
<1>a. Server \in Procs /\ mem \in [Procs -> SUBSET Tokens] /\ pc \in [Procs -> PCs]
      /\ doc[cfgFile].kind = "whole"
  BY DEF Procs, Serially, Types, TypeOK, FileTrue, FileWhole
<1>b. Loaded' = Loaded /\ revoked' = revoked
  BY DEF AuthStats, AuthReloads, AuthKeeps, fileVars, Loaded
<1>1. CASE AuthStats
  <2>1. /\ pc[Server] \in {"idle", "checked"} /\ statMtime' = mtime[cfgFile]
        /\ mem' = mem /\ cfgMtime' = cfgMtime /\ unsaved' = unsaved
    BY <1>1 DEF AuthStats
  <2>2. pc'[Server] = "seen"
    BY <1>1, <1>a DEF AuthStats, Goes
  <2>3. overlap = "none"
    BY SerialSoFar DEF Serially
  <2>4. cfgMtime = mtime[cfgFile] => mem[Server] \in Atomic!Readings
    BY <2>1, <2>3, MemoryReads DEF Serially, CacheCurrent, Loaded
  <2>5. AuthState # "asked" /\ AuthState' = "asked"
    BY <2>1, <2>2 DEF AuthState
  <2>6. AnswerOf' = {} \/ \E d \in Atomic!Readings : AnswerOf' = {d}
    BY <2>1, <2>2, <2>4 DEF AnswerOf, Decided
  <2>. QED BY <2>1, <2>5, <2>6, <1>b
<1>2. CASE AuthReloads
  <2>1. pc[Server] = "seen" /\ statMtime # cfgMtime /\ pc'[Server] = "checked"
    BY <1>2, <1>a DEF AuthReloads, Goes
  <2>2. mem'[Server] = Loaded /\ unsaved' = {}
    BY <1>2, <1>a DEF AuthReloads, Loaded
  <2>3. AuthState = "asked" /\ AuthState' = "answered"
    BY <2>1 DEF AuthState
  <2>4. AnswerOf = {} /\ AnswerOf' = {Loaded}
    BY <2>1, <2>2 DEF AnswerOf, Decided
  <2>. QED BY <2>2, <2>3, <2>4, <1>b
<1>3. CASE AuthKeeps
  <2>1. pc[Server] = "seen" /\ statMtime = cfgMtime /\ mem' = mem /\ pc'[Server] = "checked"
        /\ unsaved' = unsaved
    BY <1>3, <1>a DEF AuthKeeps, Goes
  <2>2. AuthState = "asked" /\ AuthState' = "answered"
    BY <2>1 DEF AuthState
  <2>3. AnswerOf = {mem[Server]} /\ AnswerOf' = AnswerOf
    BY <2>1 DEF AnswerOf, Decided
  <2>. QED BY <2>1, <2>2, <2>3, <1>b
<1>. QED BY <1>1, <1>2, <1>3

\* What becomes of the failed edits but by a rename or a reload.
LEMMA DoubtMoves ==
  ASSUME Serially, ~ AuthReloads, \A p \in Procs : ~ Replace(p)
  PROVE  \/ unsaved' = unsaved
         \/ Dies(Server) /\ unsaved' = {}
         \/ SaveFails(Server)
<1>. USE DEF historyVars
<1>1. ASSUME NEW p \in Procs, OpenTmp(p) \/ WriteTmp(p) PROVE unsaved' = unsaved
  BY <1>1 DEF OpenTmp, WriteTmp
<1>2. ASSUME NEW p \in Procs, SaveFails(p) PROVE unsaved' = unsaved \/ SaveFails(Server)
  BY <1>2 DEF SaveFails
<1>3. ASSUME NEW p \in Procs, Dies(p)
      PROVE  unsaved' = unsaved \/ (Dies(Server) /\ unsaved' = {})
  <2>1. unsaved' = IF p = Server THEN {} ELSE unsaved
    BY <1>3 DEF Dies
  <2>. QED BY <1>3, <2>1
<1>4. ASSUME NEW p \in Commands, CommandLoads(p) \/ CommandEdits(p) \/ CommandSavesNothing(p)
      PROVE  unsaved' = unsaved
  BY <1>4 DEF CommandLoads, CommandEdits, CommandSavesNothing
<1>5. CASE ServerStats \/ AuthStats \/ AuthKeeps \/ WebEdits \/ LocalEdits
  BY <1>5 DEF ServerStats, AuthStats, AuthKeeps, WebEdits, LocalEdits, ServerEdits
<1>6. CASE ServerLoads
  BY <1>6 DEF ServerLoads
<1>. QED BY <1>1, <1>2, <1>3, <1>4, <1>5, <1>6 DEF Next, Save, Serially

LEMMA StepServes == ASSUME Serially PROVE Atomic!Next \/ UNCHANGED Atomic!vars
<1>1. FileWhole = TRUE /\ FileWhole' = TRUE
  <2>1. FileWhole /\ FileWhole'
    BY NextFile DEF FileTrue, Serially
  <2>. QED BY <2>1
<1>2. (overlap # "none") = FALSE /\ (overlap' # "none") = FALSE
  BY SerialSoFar DEF Serially
<1>a. Server \in Procs /\ Types
  BY DEF Procs, Serially
<1>3. ASSUME NEW p \in Procs, Replace(p) PROVE Atomic!Next
  <2>1. AuthState' = AuthState /\ AnswerOf' = AnswerOf
    <3>1. Goes(p, IF p = Server THEN "saved" ELSE "done") /\ pc[p] = "written"
          /\ UNCHANGED <<mem, statMtime, cfgMtime>>
      BY <1>3 DEF Replace, serverVars
    <3>2. pc'[Server] = pc[Server] \/ (pc[Server] = "written" /\ pc'[Server] = "saved")
      BY <3>1, <1>a, OthersPc
    <3>. QED BY <3>1, <3>2 DEF AuthState, AnswerOf, Decided
  <2>2. PICK t \in Tokens :
           \/ /\ t \notin revoked /\ revoked' = revoked
              /\ \/ Loaded' = Loaded \cup {t} /\ unsaved' = unsaved
                 \/ (\E d \in Atomic!Readings : Loaded' = d \cup {t}) /\ unsaved' = {}
           \/ /\ revoked' = revoked \cup {t}
              /\ \/ Loaded' = Loaded \ {t} /\ unsaved' = unsaved
                 \/ (\E d \in Atomic!Readings : Loaded' = d \ {t}) /\ unsaved' = {}
    BY <1>3, RenameEdits
  <2>3. Atomic!Add(t) \/ Atomic!Remove(t)
    BY <2>1, <2>2 DEF Atomic!Add, Atomic!Remove, AnswerOf
  <2>. QED BY <1>1, <1>2, <2>3 DEF Atomic!Next, Atomic!Serves
<1>4. CASE AuthStats \/ AuthReloads \/ AuthKeeps
  <2>1. Atomic!Ask \/ Atomic!Answer
    BY <1>4, AuthDecides DEF Atomic!Ask, Atomic!Answer, AnswerOf
  <2>. QED BY <1>1, <1>2, <2>1 DEF Atomic!Next, Atomic!Serves
<1>5. CASE SaveFails(Server)
  <2>1. pc'[Server] = "idle"
    <3>1. Goes(Server, "idle")
      BY <1>5 DEF SaveFails
    <3>. QED BY <3>1, <1>a, OthersPc
  <2>2. AuthState' = "none" /\ AnswerOf' = {}
    BY <2>1 DEF AuthState, AnswerOf, Decided
  <2>3. Saving(Server) /\ unsaved' = unsaved \cup {task[Server][2]}
        /\ Loaded' = Loaded /\ revoked' = revoked
    BY <1>5 DEF SaveFails, Saving, Loaded
  <2>4. task[Server][2] \in Tokens
    BY <2>3, <1>a DEF Types, TypeOK, AllMade
  <2>5. Atomic!Fail(task[Server][2])
    BY <2>2, <2>3 DEF Atomic!Fail, AnswerOf
  <2>. QED BY <1>1, <1>2, <2>4, <2>5 DEF Atomic!Next, Atomic!Serves
<1>6. CASE Dies(Server) /\ unsaved' = {}
  <2>1. pc'[Server] = "off"
    <3>1. Goes(Server, "off")
      BY <1>6 DEF Dies
    <3>. QED BY <3>1, <1>a, OthersPc
  <2>2. AuthState' = "none" /\ AnswerOf' = {} /\ Loaded' = Loaded /\ revoked' = revoked
    BY <1>6, <2>1 DEF AuthState, AnswerOf, Decided, Dies, Loaded, fileVars
  <2>3. Atomic!Forget
    BY <1>6, <2>2 DEF Atomic!Forget, AnswerOf
  <2>. QED BY <1>1, <1>2, <2>3 DEF Atomic!Next, Atomic!Serves
<1>7. CASE /\ Loaded' = Loaded /\ revoked' = revoked /\ unsaved' = unsaved
           /\ AuthState' = "none" /\ AnswerOf' = {}
  <2>1. Atomic!Forget
    BY <1>7 DEF Atomic!Forget, AnswerOf
  <2>. QED BY <1>1, <1>2, <2>1 DEF Atomic!Next, Atomic!Serves
<1>8. CASE /\ Loaded' = Loaded /\ revoked' = revoked /\ unsaved' = unsaved
           /\ AuthState' = AuthState /\ AnswerOf' = AnswerOf
  BY <1>1, <1>2, <1>8 DEF Atomic!vars, AnswerOf
<1>. QED BY <1>3, <1>4, <1>5, <1>6, <1>7, <1>8, FileMoves, AuthMoves, DoubtMoves

\* Refinement: as long as edits have not raced, each edit is one step of the document,
\* wherever a process dies or fails to save, and each authentication is decided by the
\* document of one moment of it, up to edits the server failed to save, for any commands, tokens and files (common.py:110-127,
\* server.py:588-621).
THEOREM ImplementsAtomic == Spec => ActsAtomically
<1>1. Init => Atomic!Init
  <2>. SUFFICES ASSUME Init PROVE Atomic!Init
    OBVIOUS
  <2>1. PICK first \in Tokens, i \in Inodes :
          /\ cfgFile = i
          /\ doc = [n \in Inodes |-> IF n = i THEN Whole({first}) ELSE Empty]
          /\ pc = [p \in Procs |-> "off"]
    BY DEF Init
  <2>2. Loaded = {first} /\ FileWhole
    BY <2>1 DEF Loaded, FileWhole, Whole
  <2>3. pc[Server] = "off"
    BY <2>1 DEF Procs
  <2>4. AuthState = "none" /\ AnswerOf = {}
    BY <2>3 DEF AuthState, AnswerOf, Decided
  <2>5. FileWhole = TRUE /\ (overlap # "none") = FALSE /\ revoked = {} /\ unsaved = {}
    BY <2>2 DEF Init
  <2>. QED BY <2>2, <2>4, <2>5 DEF Atomic!Init, AnswerOf
<1>2. StoreInv /\ [Next]_vars => [Atomic!Next]_(Atomic!vars)
  <2>. SUFFICES ASSUME StoreInv, [Next]_vars PROVE Atomic!Next \/ UNCHANGED Atomic!vars
    OBVIOUS
  <2>1. CASE UNCHANGED vars
    BY <2>1 DEF vars, fileVars, procVars, serverVars, historyVars, Atomic!vars, Loaded, FileWhole,
         AuthState, Decided
  <2>2. CASE Next /\ overlap' # "none"
    <3>1. (overlap' # "none") = TRUE
      BY <2>2
    <3>. QED BY <3>1 DEF Atomic!Next
  <2>3. CASE Next /\ overlap' = "none"
    <3>1. overlap = "none"
      BY <2>3, SerialSoFar DEF StoreInv, CacheInv
    <3>2. Serially
      BY <2>3, <3>1 DEF Serially, StoreInv, CacheInv, CacheTracks, CacheCurrent, SerialInv
    <3>. QED BY <3>2, StepServes
  <2>. QED BY <2>1, <2>2, <2>3
<1>. QED BY <1>1, <1>2, StoreInvariant, PTL DEF Spec, ActsAtomically, Atomic!Spec
==============================================================================
