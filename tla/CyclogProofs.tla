----------------------------- MODULE CyclogProofs -----------------------------
(***************************************************************************)
(* The inductive invariant Inv of one log of multilog, for any sizes,      *)
(* inputs, numbers of kills, outages and failures: types, which names and  *)
(* files exist at each system call, what a processor that outlived its     *)
(* multilog can still reach, and what the modes of the files say.          *)
(*                                                                         *)
(* The first lemmas are about the names and links of files and the types   *)
(* of the variables.  Then Shape, Files, Procs, Place and Kept have a      *)
(* lemma each, which cites what the steps do to one variable (OldSteps,    *)
(* DirSteps, ProcSteps, ExecSteps, CutSteps, ...), to the file of a name   *)
(* (NameSteps, FileSteps) or at one place (RotatingAt, FinishingAt,        *)
(* RestartingAt).                                                          *)
(***************************************************************************)
EXTENDS Cyclog, FiniteSetTheorems, SequenceTheorems, WellFoundedInduction, TLAPS

-----------------------------------------------------------------------------
(* The inductive invariant *)

Linked(i) == IsOld(i) \/ \E n \in Names : dir[n] = i
Missing(n) == dir[n] = NoInode
Safe(i) == ino[i].synced = Len(ino[i].data) /\ ~ino[i].cut

(* While finish() runs                                                     *)
InFinish == pc \in {"f_stat", "f_unlink", "f_fit"}

(* The places where d->fdcurrent is open                                   *)
HasFd == \/ pc \in {"idle", "flush", "sync", "rename", "mode", "fork", "wait", "p_mode", "n_sync",
                    "p_unlink", "n_rename", "q_sync", "q_mode"}
         \/ InFinish /\ fin.next = "flush"

(* Every byte in a file has been written by multilog.                      *)
BytesWritten == /\ \A i \in Inodes : \A k \in DOMAIN ino[i].data : ino[i].data[k] \in 1..written
                /\ lost \subseteq 1..written /\ removed \subseteq 1..written

(* A file has one name and one old name at most, and both only if a kill   *)
(* came between link() and unlink(), or as long as they are the next calls *)
OneName == \A m, n \in Names : dir[m] # NoInode /\ dir[m] = dir[n] => m = n
OneOldName == \A j, k \in DOMAIN old : old[j].ino = old[k].ino => j = k
BothNames ==
  \A n \in Names : ~Missing(n) /\ IsOld(dir[n]) =>
    /\ n \in {"current", "previous", "processed"}
    /\ n # "previous" => Missing("previous")
    /\ n # "processed" => Missing("processed")
    /\ \/ pc \in {"stopped", "open", "r_newstate", "r_previous", "r_processed", "r_current"}
       \/ pc \in {"f_stat", "f_unlink"} /\ n = fin.file
       \/ InFinish /\ fin.next = "r_current" /\ n = "current"
FreeBlank == \A i \in Inodes : ~Linked(i) /\ ~IsOpen(i) => ino[i] = Blank

(* Which file multilog writes                                              *)
Descriptor ==
  IF HasFd THEN /\ fd \in Inodes /\ fd = dir["current"]
                /\ ~ino[fd].exec /\ ~ino[fd].cut /\ bytes = Len(ino[fd].data)
           ELSE fd = NoInode
CurrentFits == ~Missing("current") => Len(ino[dir["current"]].data) <= Size

(* Processors: only the last killed multilog's can still wait for the lock *)
Phases ==
  /\ \A k \in DOMAIN proc :
       /\ IF proc[k].phase = "running"
          THEN /\ proc[k].in \in Inodes /\ proc[k].out \in Inodes /\ proc[k].ns \in Inodes
               /\ proc[k].in # proc[k].out /\ proc[k].in # proc[k].ns /\ proc[k].out # proc[k].ns
          ELSE Held(proc[k]) = {NoInode}
       /\ proc[k].phase = "opening" =>
            (pc = "wait" /\ k = crashes) \/ (pc = "stopped" /\ k + 1 = crashes)
       /\ proc[k].phase \in {"done", "failed"} => pc = "wait" /\ k = crashes
       /\ proc[k].phase = "running" => (pc = "wait" /\ k = crashes) \/ k < crashes
  /\ pc = "wait" => proc[crashes].phase # "none"
NoneShared ==
  \A j, k \in DOMAIN proc :
    proc[j].phase = "running" /\ proc[k].phase = "running" /\ j # k => Held(proc[j]) \cap Held(proc[k]) = {}

(* What a processor holds keeps no name but its own, and the name only     *)
(* while its multilog waits or until the next one's restart gets to it     *)
Restarting == pc \in {"stopped", "open", "r_newstate", "r_previous", "r_processed"}
Reach ==
  \A k \in DOMAIN proc : proc[k].phase = "running" =>
    /\ ~IsOld(proc[k].out) /\ ~IsOld(proc[k].ns)
    /\ ~ino[proc[k].out].exec /\ ~ino[proc[k].out].cut
    /\ \A n \in Names : /\ dir[n] = proc[k].in => n = "previous"
                        /\ dir[n] = proc[k].out => n = "processed"
                        /\ dir[n] = proc[k].ns => n = "newstate"
    /\ IF k = crashes
       THEN dir["previous"] = proc[k].in /\ dir["processed"] = proc[k].out /\ dir["newstate"] = proc[k].ns
       ELSE /\ dir["newstate"] = proc[k].ns => pc \in {"stopped", "open", "r_newstate"}
            /\ dir["processed"] = proc[k].out => Restarting
            /\ dir["previous"] = proc[k].in => Restarting \/ (InFinish /\ fin.next = "r_current")
(* ... and what a processor is about to open                               *)
Opening ==
  \A k \in DOMAIN proc : proc[k].phase = "opening" =>
    /\ ~IsExec("processed") /\ ~IsExec("current")
    /\ \A n \in Names : ~Missing(n) => ~IsOld(dir[n])
    /\ \A j \in DOMAIN proc : proc[j].phase = "running" =>
         dir["previous"] # proc[j].in /\ dir["processed"] # proc[j].out /\ dir["newstate"] # proc[j].ns

(* Which names exist at each system call, and what is known of their files *)
NoLeftOvers == Missing("previous") /\ Missing("processed") /\ Missing("newstate")
Rotated == ~Missing("previous") /\ Safe(dir["previous"])
Processed == /\ ~Missing("previous") /\ ~Missing("processed") /\ ~Missing("newstate")
             /\ ino[dir["processed"]].data = ino[dir["previous"]].data
WhileWriting ==
  /\ pc \in {"idle", "flush", "sync", "rename", "q_sync", "q_mode"} => NoLeftOvers
  /\ pc \in {"rename", "q_mode"} => Safe(fd)
  /\ pc \in {"q_sync", "q_mode"} => written = input
WhileRotating ==
  /\ pc = "recreate" => Missing("current")
  /\ pc \in {"recreate", "mode"} => Rotated /\ Missing("processed") /\ Missing("newstate")
  /\ pc \in {"fork", "wait"} => Rotated /\ ~IsExec("processed")
  /\ pc = "wait" /\ proc[crashes].phase = "done" => Processed /\ ~ino[dir["processed"]].cut
  /\ pc \in {"p_mode", "n_sync", "p_unlink"} => Processed
  /\ pc \in {"p_mode", "n_sync", "p_unlink", "n_rename"} => Safe(dir["processed"])
  /\ pc = "p_mode" => ~ino[dir["processed"]].exec
  /\ pc \in {"n_sync", "p_unlink", "n_rename"} => IsExec("processed")
  /\ pc = "n_rename" => Missing("previous") /\ ~Missing("newstate")
Finishes == {[file |-> "processed", code |-> c, next |-> "flush"] : c \in {"s", "undefined"}}
            \cup {[file |-> "previous", code |-> c, next |-> "flush"] : c \in {"s", "undefined"}}
            \cup {[file |-> "processed", code |-> c, next |-> "r_current"] : c \in {"s", "undefined"}}
            \cup {[file |-> "previous", code |-> c, next |-> "r_current"] : c \in {"u", "undefined"}}
            \cup {[file |-> "current", code |-> c, next |-> "r_state"] : c \in {"u", "undefined"}}
WhileFinishing ==
  InFinish =>
    /\ fin \in Finishes
    /\ Missing("newstate")
    /\ fin.file # "previous" => Missing("previous")
    /\ fin.file # "processed" => Missing("processed")
    /\ fin.file = "processed" /\ pc # "f_fit" => IsExec("processed")
    /\ fin.code = "s" /\ ~Missing(fin.file) => Safe(dir[fin.file])
    /\ pc = "f_unlink" => ~Missing(fin.file) /\ IsOld(dir[fin.file])
    /\ pc = "f_fit" => Missing(fin.file)
WhileRestarting ==
  /\ pc \in {"r_newstate", "r_previous", "r_processed", "r_current", "r_state"} \/ (InFinish /\ fin.next # "flush")
     => ~IsExec("current") /\ Missing("state")
  /\ pc \in {"r_previous", "r_processed"} => Missing("newstate")
  /\ pc = "r_previous" => IsExec("processed")
  /\ pc = "r_processed" => ~IsExec("processed")
  /\ pc \in {"r_current", "r_state", "create"} => NoLeftOvers
  /\ pc \in {"r_state", "create"} => Missing("current")

(* What the modes of the files say                                         *)
ProcessedSafe == IsExec("processed") => Safe(dir["processed"])
ExecIsNew == IsExec("current") => ~IsOld(dir["current"])

Shape == OneName /\ OneOldName /\ BothNames /\ FreeBlank
Files == Descriptor /\ CurrentFits /\ BytesWritten
Procs == Phases /\ NoneShared /\ Reach /\ Opening
Place == WhileWriting /\ WhileRotating /\ WhileFinishing /\ WhileRestarting
Kept == SafelyWritten /\ ProcessedSafe /\ ExecIsNew /\ ExecMeansSafe
Inv == TypeOK /\ Shape /\ Files /\ Procs /\ Place /\ Kept

-----------------------------------------------------------------------------
(* Names and links *)

LEMMA InodeOrNone == NoInode \notin Inodes
  BY CyclogAssumption

LEMMA OldType ==
  ASSUME TypeOK
  PROVE  /\ Len(old) \in Nat /\ DOMAIN old = 1..Len(old)
         /\ \A k \in DOMAIN old : old[k].ino \in Inodes /\ old[k].code \in Codes
<1>1. old \in Seq([ino : Inodes, code : Codes])
  BY DEF TypeOK
<1>2. Len(old) \in Nat /\ DOMAIN old = 1..Len(old)
  BY <1>1, LenProperties
<1>3. \A k \in 1..Len(old) : old[k] \in [ino : Inodes, code : Codes]
  BY <1>1, ElementOfSeq
<1>. QED BY <1>2, <1>3

LEMMA DirType == TypeOK => \A n \in Names : dir[n] \in Inodes \cup {NoInode}
  BY DEF TypeOK

LEMMA FileType ==
  TypeOK => \A i \in Inodes : /\ ino[i] \in File /\ ino[i].data \in Seq(Nat)
                             /\ ino[i].synced \in Nat /\ Len(ino[i].data) \in Nat
                             /\ ino[i].exec \in BOOLEAN /\ ino[i].cut \in BOOLEAN
                             /\ DOMAIN ino[i].data = 1..Len(ino[i].data)
<1>1. TypeOK => \A i \in Inodes : /\ ino[i] \in File /\ ino[i].data \in Seq(Nat)
                                 /\ ino[i].synced \in Nat
                                 /\ ino[i].exec \in BOOLEAN /\ ino[i].cut \in BOOLEAN
  BY DEF TypeOK, File
<1>. QED BY <1>1, LenProperties

(* The names and the old names of a file, counted                          *)
LEMMA LinksAre ==
  ASSUME TypeOK, NEW i
  PROVE  /\ IsFiniteSet({n \in Names : dir[n] = i}) /\ IsFiniteSet({k \in DOMAIN old : old[k].ino = i})
         /\ Cardinality({n \in Names : dir[n] = i}) \in Nat
         /\ Cardinality({k \in DOMAIN old : old[k].ino = i}) \in Nat
         /\ Cardinality({n \in Names : dir[n] = i}) = 0 <=> \A n \in Names : dir[n] # i
         /\ Cardinality({k \in DOMAIN old : old[k].ino = i}) = 0 <=> ~IsOld(i)
<1>. DEFINE N == {n \in Names : dir[n] = i}
            O == {k \in DOMAIN old : old[k].ino = i}
<1>1. IsFiniteSet(Names)
  <2>1. Names = ((({"current"} \cup {"previous"}) \cup {"processed"}) \cup {"state"}) \cup {"newstate"}
    BY DEF Names
  <2>2. IsFiniteSet({"current"})
    BY FS_Singleton, Zenon
  <2>3. IsFiniteSet({"current"} \cup {"previous"})
    BY <2>2, FS_AddElement, Zenon
  <2>4. IsFiniteSet(({"current"} \cup {"previous"}) \cup {"processed"})
    BY <2>3, FS_AddElement, Zenon
  <2>5. IsFiniteSet((({"current"} \cup {"previous"}) \cup {"processed"}) \cup {"state"})
    BY <2>4, FS_AddElement, Zenon
  <2>. QED BY <2>1, <2>5, FS_AddElement, Zenon
<1>2. IsFiniteSet(DOMAIN old)
  BY OldType, FS_Interval
<1>3. IsFiniteSet(N) /\ IsFiniteSet(O)
  BY <1>1, <1>2, FS_Subset
<1>4. Cardinality(N) \in Nat /\ Cardinality(O) \in Nat
  BY <1>3, FS_CardinalityType
<1>5. (Cardinality(N) = 0 <=> N = {}) /\ (Cardinality(O) = 0 <=> O = {})
  BY <1>3, FS_EmptySet
<1>. QED BY <1>3, <1>4, <1>5 DEF IsOld

LEMMA LinksNone ==
  ASSUME TypeOK, NEW i
  PROVE  Links(i) = 0 <=> ~Linked(i)
<1>. DEFINE N == Cardinality({n \in Names : dir[n] = i})
            O == Cardinality({k \in DOMAIN old : old[k].ino = i})
<1>1. /\ N \in Nat /\ O \in Nat
      /\ N = 0 <=> \A n \in Names : dir[n] # i
      /\ O = 0 <=> ~IsOld(i)
  BY LinksAre, Zenon
<1>2. Links(i) = N + O
  BY DEF Links
<1>. HIDE DEF N, O
<1>3. Links(i) = 0 <=> N = 0 /\ O = 0
  BY <1>1, <1>2
<1>. QED BY <1>1, <1>3, Zenon DEF Linked

(* The link count of a file that has a name tells whether it has an old    *)
(* one, which is what finish() and unlink() go by.                         *)
LEMMA LinksName ==
  ASSUME TypeOK, OneName, NEW n \in Names, ~Missing(n)
  PROVE  Links(dir[n]) = 1 <=> ~IsOld(dir[n])
<1>. DEFINE N == {m \in Names : dir[m] = dir[n]}
<1>1. N = {n}
  BY DEF OneName, Missing
<1>2. Cardinality(N) = 1
  BY <1>1, FS_Singleton, Zenon
<1>. DEFINE O == Cardinality({k \in DOMAIN old : old[k].ino = dir[n]})
<1>3. Links(dir[n]) = Cardinality(N) + O
  BY DEF Links
<1>4. O \in Nat /\ (O = 0 <=> ~IsOld(dir[n]))
  BY LinksAre, Zenon
<1>. HIDE DEF N, O
<1>5. Links(dir[n]) = 1 <=> O = 0
  BY <1>2, <1>3, <1>4
<1>. QED BY <1>4, <1>5, Zenon

LEMMA LinksOld ==
  ASSUME TypeOK, OneOldName, NEW k \in DOMAIN old
  PROVE  Links(old[k].ino) = 1 <=> \A n \in Names : dir[n] # old[k].ino
<1>. DEFINE O == {j \in DOMAIN old : old[j].ino = old[k].ino}
<1>1. O = {k}
  BY DEF OneOldName
<1>2. Cardinality(O) = 1
  BY <1>1, FS_Singleton, Zenon
<1>. DEFINE N == Cardinality({n \in Names : dir[n] = old[k].ino})
<1>3. Links(old[k].ino) = N + Cardinality(O)
  BY DEF Links
<1>4. N \in Nat /\ (N = 0 <=> \A n \in Names : dir[n] # old[k].ino)
  BY LinksAre, Zenon
<1>. HIDE DEF N, O
<1>5. Links(old[k].ino) = 1 <=> N = 0
  BY <1>2, <1>3, <1>4
<1>. QED BY <1>4, <1>5, Zenon

(* What unlink() does to the inode of a name, and filesfit() to the oldest *)
LEMMA UnlinkedName ==
  ASSUME TypeOK, OneName, NEW n \in Names
  PROVE  Unlinked(dir[n]) = IF ~Missing(n) /\ ~IsOld(dir[n]) /\ ~IsOpen(dir[n])
                            THEN [ino EXCEPT ![dir[n]] = Blank] ELSE ino
  BY LinksName DEF Unlinked, Missing

LEMMA UnlinkedOld ==
  ASSUME TypeOK, OneOldName, NEW k \in DOMAIN old
  PROVE  Unlinked(old[k].ino) =
           IF (\A n \in Names : dir[n] # old[k].ino) /\ ~IsOpen(old[k].ino)
           THEN [ino EXCEPT ![old[k].ino] = Blank] ELSE ino
  BY LinksOld, OldType, InodeOrNone DEF Unlinked

(* A new file is one that nobody has.                                      *)
LEMMA NewFile ==
  ASSUME TypeOK, FreeBlank, HasRoom
  PROVE  /\ NewInode \in Inodes /\ ~Linked(NewInode) /\ ~IsOpen(NewInode) /\ ino[NewInode] = Blank
         /\ FreeBut(NewInode) \in Inodes /\ FreeBut(NewInode) # NewInode
         /\ ~Linked(FreeBut(NewInode)) /\ ~IsOpen(FreeBut(NewInode)) /\ ino[FreeBut(NewInode)] = Blank
         /\ \A i \in Inodes : Linked(i) => /\ FreeBut(i) \in Inodes /\ ~Linked(FreeBut(i))
                                           /\ ~IsOpen(FreeBut(i)) /\ ino[FreeBut(i)] = Blank
<1>1. \A i : i \in Free <=> i \in Inodes /\ ~Linked(i) /\ ~IsOpen(i)
  BY LinksNone DEF Free
<1>2. NewInode \in Free
  BY DEF HasRoom, NewInode
<1>3. FreeBut(NewInode) \in Free \ {NewInode}
  BY <1>2 DEF HasRoom, FreeBut
<1>4. \A i \in Inodes : Linked(i) => FreeBut(i) \in Free
  BY <1>1, <1>2 DEF FreeBut
<1>. QED BY <1>1, <1>2, <1>3, <1>4 DEF FreeBlank

-----------------------------------------------------------------------------
(* Types *)

LEMMA BlankFile == Blank \in File /\ Blank.data = <<>> /\ Blank.exec = FALSE /\ Blank.cut = FALSE
                   /\ Blank.synced = 0 /\ Len(Blank.data) = 0
<1>1. <<>> \in Seq(Nat) /\ Len(<<>>) = 0
  OBVIOUS
<1>. QED BY <1>1 DEF Blank, File

LEMMA NoProcessorType == NoProcessor \in Process /\ Held(NoProcessor) = {NoInode}
<1>1. <<>> \in Seq(Nat)
  OBVIOUS
<1>. QED BY <1>1 DEF NoProcessor, Process, Held

(* What the steps do to an inode keeps all of them files.                  *)
LEMMA FileBlanked ==
  ASSUME TypeOK, NEW i PROVE [ino EXCEPT ![i] = Blank] \in [Inodes -> File]
  BY BlankFile DEF TypeOK

LEMMA FileUnlinked ==
  ASSUME TypeOK, NEW i PROVE Unlinked(i) \in [Inodes -> File]
  BY FileBlanked DEF Unlinked, TypeOK

LEMMA FileMode ==
  ASSUME TypeOK, NEW i, NEW b \in BOOLEAN PROVE [ino EXCEPT ![i].exec = b] \in [Inodes -> File]
  BY DEF TypeOK, File

LEMMA FileSynced ==
  ASSUME TypeOK, NEW i \in Inodes, Sync(i) PROVE ino' \in [Inodes -> File]
  BY FileType DEF TypeOK, File, Sync

LEMMA FileData ==
  ASSUME TypeOK, NEW i, NEW s \in Seq(Nat) PROVE [ino EXCEPT ![i].data = s] \in [Inodes -> File]
  BY DEF TypeOK, File

LEMMA DirStep ==
  ASSUME Inv, Next
  PROVE  dir' \in [Names -> Inodes \cup {NoInode}]
<1>. USE InodeOrNone, NewFile DEF Inv, TypeOK, Shape
<1>1. CASE Restart
  BY <1>1 DEF Restart, Start, Resume, DropState, DropNewstate, DropPrevious, DropProcessed, Drop,
              FinishCurrent, EmptyState, CreateCurrent, Unlink, Names, disk
<1>2. CASE Finishing
  BY <1>2 DEF Finishing, NoFile, AlreadyLinked, Link, LinkFails, UnlinkFinished, RemoveOldest, Fits,
              Unlink, disk
<1>3. CASE Rotation
  <2>1. CASE CreateCurrent("recreate", "mode")
    BY <2>1 DEF CreateCurrent, Names
  <2>2. CASE RenameCurrent \/ RenameNewstate \/ UnlinkPrevious
    BY <2>2 DEF RenameCurrent, RenameNewstate, UnlinkPrevious, Unlink, Names
  <2>. QED
    BY <1>3, <2>1, <2>2 DEF Rotation, SyncCurrent, MarkPrevious, Fork, ProcessorFailed, ProcessorDone,
                            MarkProcessed, SyncNewstate, disk
<1>4. CASE Processors
  <2>1. ASSUME NEW k \in DOMAIN proc, Opens(k) PROVE dir' \in [Names -> Inodes \cup {NoInode}]
    <3>1. Emptied("processed", NewInode) \in Inodes
      BY <2>1 DEF Opens, Emptied, Names
    <3>2. Emptied("newstate", FreeBut(Emptied("processed", NewInode))) \in Inodes
      <4>1. CASE Missing("processed")
        BY <2>1, <4>1 DEF Opens, Emptied, Names, Missing
      <4>2. CASE ~Missing("processed")
        <5>1. dir["processed"] \in Inodes /\ Linked(dir["processed"])
          BY <4>2 DEF Names, Missing, Linked
        <5>2. FreeBut(dir["processed"]) \in Inodes
          BY <2>1, <5>1 DEF Opens
        <5>. QED BY <4>2, <5>2 DEF Emptied, Names, Missing
      <4>. QED BY <4>1, <4>2
    <3>. QED BY <2>1, <3>1, <3>2 DEF Opens
  <2>. QED
    BY <1>4, <2>1 DEF Processors, CannotOpen, Outputs, Succeeds, Fails, Processing
<1>5. CASE Writing \/ Quitting \/ Put \/ Flush \/ ForceRotate \/ EndOfInput \/ Kill \/ Outage
  BY <1>5 DEF Writing, WriteFull, Write, Flushed, Quitting, QuitSync, Quit, Put, Flush, ForceRotate,
              EndOfInput, Kill, Outage, Died, disk
<1>. QED BY <1>1, <1>2, <1>3, <1>4, <1>5 DEF Next, Multilog, Environment

LEMMA OldStep ==
  ASSUME Inv, Next
  PROVE  old' \in Seq([ino : Inodes, code : Codes])
<1>. USE InodeOrNone DEF Inv, TypeOK
<1>1. CASE Link
  <2>1. fin.file \in Names /\ fin.code \in Codes /\ dir[fin.file] \in Inodes
    BY <1>1 DEF Link
  <2>2. [ino |-> dir[fin.file], code |-> fin.code] \in [ino : Inodes, code : Codes]
    BY <2>1
  <2>. QED BY <1>1, <2>2, AppendProperties DEF Link
<1>2. CASE RemoveOldest
  <2>1. old # <<>>
    BY <1>2, OldType, CyclogAssumption DEF RemoveOldest, TooMany
  <2>. QED BY <1>2, <2>1, HeadTailProperties DEF RemoveOldest
<1>3. CASE Restart
  BY <1>3 DEF Restart, Start, Resume, DropState, DropNewstate, DropPrevious, DropProcessed, Drop,
              FinishCurrent, EmptyState, CreateCurrent, disk
<1>4. CASE Rotation
  BY <1>4 DEF Rotation, SyncCurrent, RenameCurrent, CreateCurrent, MarkPrevious, Fork, ProcessorFailed,
              ProcessorDone, MarkProcessed, SyncNewstate, UnlinkPrevious, RenameNewstate, disk
<1>5. CASE Processors
  BY <1>5 DEF Processors, Opens, CannotOpen, Outputs, Succeeds, Fails, Processing
<1>6. CASE Writing \/ Quitting \/ Put \/ Flush \/ ForceRotate \/ EndOfInput \/ Kill \/ Outage
  BY <1>6 DEF Writing, WriteFull, Write, Flushed, Quitting, QuitSync, Quit, Put, Flush, ForceRotate,
              EndOfInput, Kill, Outage, Died, disk
<1>. QED
  BY <1>1, <1>2, <1>3, <1>4, <1>5, <1>6
  DEF Next, Multilog, Environment, Finishing, NoFile, AlreadyLinked, LinkFails, UnlinkFinished, Fits, disk

LEMMA InoStep ==
  ASSUME Inv, Next
  PROVE  ino' \in [Inodes -> File]
<1>. USE InodeOrNone DEF Inv
<1>0. ino \in [Inodes -> File] /\ fin.file \in Names
  BY DEF TypeOK
<1>1. CASE Restart
  <2>1. CASE EmptyState \/ CreateCurrent("create", "idle")
    BY <2>1, FileBlanked DEF EmptyState, CreateCurrent
  <2>2. CASE Resume
    BY <2>2, FileMode DEF Resume
  <2>3. \A n \in Names : Unlink(n) => ino' \in [Inodes -> File]
    BY FileUnlinked DEF Unlink
  <2>. QED
    BY <1>0, <1>1, <2>1, <2>2, <2>3 DEF Restart, Names, Start, Resume, DropState, DropNewstate, DropPrevious, DropProcessed,
         Drop, FinishCurrent, disk
<1>2. CASE Finishing
  BY <1>0, <1>2, FileUnlinked
  DEF Finishing, NoFile, AlreadyLinked, Link, LinkFails, UnlinkFinished, RemoveOldest, Fits, Unlink, disk
<1>3. CASE Rotation
  <2>1. CASE SyncCurrent
    BY <2>1, FileSynced DEF SyncCurrent, Files, Descriptor, HasFd, At
  <2>2. CASE ProcessorDone \/ SyncNewstate
    <3>1. dir["processed"] \in Inodes /\ dir["newstate"] \in Inodes
      BY <2>2, DirType DEF ProcessorDone, SyncNewstate, At, Place, WhileRotating, Processed, Missing, Names
    <3>. QED BY <2>2, <3>1, FileSynced DEF ProcessorDone, SyncNewstate
  <2>3. CASE CreateCurrent("recreate", "mode")
    BY <2>3, FileBlanked DEF CreateCurrent
  <2>4. CASE RenameCurrent \/ RenameNewstate \/ UnlinkPrevious
    BY <2>4, FileUnlinked DEF RenameCurrent, RenameNewstate, UnlinkPrevious, Unlink
  <2>5. CASE MarkPrevious \/ MarkProcessed
    <3>. DEFINE marked(n) == [ino EXCEPT ![dir[n]].exec = TRUE]
    <3>1. marked("previous") \in [Inodes -> File] /\ marked("processed") \in [Inodes -> File]
      BY FileMode
    <3>2. ino' = marked("previous") \/ ino' = marked("processed")
      BY <2>5, Zenon DEF MarkPrevious, MarkProcessed
    <3>. HIDE DEF marked
    <3>. QED BY <3>1, <3>2, Zenon
  <2>. QED
    BY <1>0, <1>3, <2>1, <2>2, <2>3, <2>4, <2>5 DEF Rotation, Fork, ProcessorFailed, disk
<1>4. CASE Write
  <2>1. PICK w \in 1..Offered : ino' = [ino EXCEPT ![fd].data = @ \o [k \in 1..w |-> written + k]]
    BY <1>4 DEF Write
  <2>2. fd \in Inodes
    BY <1>4 DEF Write, Files, Descriptor, HasFd
  <2>. DEFINE more == [k \in 1..w |-> written + k]
  <2>3. written \in Nat
    BY DEF TypeOK
  <2>4. w \in Nat
    OBVIOUS
  <2>5. more \in Seq(Nat)
    BY <2>3, <2>4
  <2>6. ino[fd].data \o more \in Seq(Nat)
    BY <2>2, <2>5, FileType, ConcatProperties
  <2>7. ino' = [ino EXCEPT ![fd].data = ino[fd].data \o more]
    BY <2>1
  <2>. QED BY <2>6, <2>7, FileData
<1>5. CASE Quitting
  <2>1. CASE QuitSync
    BY <2>1, FileSynced DEF QuitSync, Files, Descriptor, HasFd, At
  <2>2. CASE Quit
    BY <2>2, FileMode DEF Quit, Files, Descriptor, HasFd, At
  <2>. QED BY <1>5, <2>1, <2>2 DEF Quitting
<1>6. CASE Processors
  <2>1. ASSUME NEW k \in DOMAIN proc, Opens(k) PROVE ino' \in [Inodes -> File]
    BY <2>1, FileType, BlankFile DEF Opens, File, Blank
  <2>2. ASSUME NEW k \in DOMAIN proc, Outputs(k) PROVE ino' \in [Inodes -> File]
    <3>1. proc[k].in \in Inodes /\ proc[k].out \in Inodes /\ proc[k].ns \in Inodes
      BY <2>2 DEF Outputs, Procs, Phases
    <3>. DEFINE data == ino[proc[k].in].data
    <3>2. PICK n \in Len(ino[proc[k].out].data) + 1 .. Len(data) :
             ino' = [ino EXCEPT ![proc[k].out].data = SubSeq(data, 1, n), ![proc[k].ns].data = <<data[n]>>]
      BY <2>2 DEF Outputs
    <3>3. n \in 1..Len(data) /\ data \in Seq(Nat)
      BY <3>1, FileType
    <3>4. SubSeq(data, 1, n) \in Seq(Nat) /\ <<data[n]>> \in Seq(Nat)
      BY <3>3, SubSeqProperties
    <3>. HIDE DEF data
    <3>5. [ino EXCEPT ![proc[k].out].data = SubSeq(data, 1, n)] \in [Inodes -> File]
      BY <3>4, FileData
    <3>. QED BY <3>2, <3>4, <3>5, ZenonT(30) DEF File
  <2>3. ASSUME NEW k \in DOMAIN proc, Closed(k) PROVE ino' \in [Inodes -> File]
    BY <1>0, <2>3, BlankFile DEF Closed
  <2>. QED
    BY <1>0, <1>6, <2>1, <2>2, <2>3 DEF Processors, CannotOpen, Succeeds, Fails
<1>7. CASE Outage
  <2>1. PICK torn \in SUBSET Unsynced :
          ino' = [i \in Inodes |-> IF Links(i) = 0 THEN Blank ELSE IF i \in torn THEN Torn(i) ELSE ino[i]]
    BY <1>7 DEF Outage
  <2>2. ASSUME NEW i \in torn PROVE Torn(i) \in File
    <3>1. i \in Inodes /\ ino[i].synced < Len(ino[i].data)
      BY DEF Unsynced
    <3>2. SubSeq(ino[i].data, 1, ino[i].synced) \in Seq(Nat)
      BY <3>1, FileType, SubSeqProperties
    <3>3. ino[i] \in File
      BY <1>0, <3>1
    <3>. QED BY <3>2, <3>3 DEF Torn, File
  <2>. QED BY <1>0, <2>1, <2>2, BlankFile
<1>. QED
  BY <1>0, <1>1, <1>2, <1>3, <1>4, <1>5, <1>6, <1>7
  DEF Next, Multilog, Environment, Writing, WriteFull, Flushed, Put, Flush, ForceRotate, EndOfInput, Kill,
      disk

LEMMA ProcStep ==
  ASSUME Inv, Next
  PROVE  proc' \in [0..MaxCrashes -> Process]
<1>. USE NoProcessorType DEF Inv
<1>0. proc \in [0..MaxCrashes -> Process]
  BY DEF TypeOK
<1>1. Reaped => proc' \in [0..MaxCrashes -> Process]
  BY <1>0 DEF Reaped
<1>2. \A ph \in {"opening", "failed", "done"} : [NoProcessor EXCEPT !.phase = ph] \in Process
  BY DEF NoProcessor, Process
<1>3. ASSUME NEW k \in DOMAIN proc, NEW p \in Process, Becomes(k, p)
      PROVE  proc' \in [0..MaxCrashes -> Process]
  BY <1>0, <1>3 DEF Becomes
<1>4. CASE Rotation
  BY <1>0, <1>1, <1>2, <1>4
  DEF Rotation, SyncCurrent, RenameCurrent, CreateCurrent, MarkPrevious, Fork, ProcessorFailed,
      ProcessorDone, MarkProcessed, SyncNewstate, UnlinkPrevious, RenameNewstate
<1>5. CASE Processors
  <2>1. ASSUME NEW k \in DOMAIN proc, Opens(k) PROVE proc' \in [0..MaxCrashes -> Process]
    <3>. DEFINE out == Emptied("processed", NewInode)
                ns == Emptied("newstate", FreeBut(out))
                p == [phase |-> "running", in |-> dir["previous"], out |-> out, ns |-> ns,
                      given |-> ino[dir["state"]].data]
    <3>1. Becomes(k, p) /\ dir' = [dir EXCEPT !["processed"] = out, !["newstate"] = ns]
      BY <2>1 DEF Opens
    <3>2. dir["previous"] \in Inodes /\ dir["state"] \in Inodes
      BY <2>1, DirType DEF Opens, Openable, Names
    <3>3. dir'["processed"] = out /\ dir'["newstate"] = ns
      BY <3>1, DirType DEF TypeOK, Names
    <3>4. out \in Inodes \cup {NoInode} /\ ns \in Inodes \cup {NoInode}
      BY <3>3, <2>1, DirStep DEF Next, Processors, Names
    <3>5. p \in Process
      BY <3>2, <3>4, FileType DEF Process
    <3>. QED BY <3>1, <3>5, <1>3
  <2>2. ASSUME NEW k \in DOMAIN proc, CannotOpen(k) \/ Succeeds(k) \/ Fails(k)
        PROVE  proc' \in [0..MaxCrashes -> Process]
    BY <1>2, <1>3, <2>2 DEF CannotOpen, Succeeds, Fails
  <2>. QED BY <1>0, <1>5, <2>1, <2>2 DEF Processors, Outputs
<1>6. CASE Kill
  BY <1>0, <1>1, <1>6 DEF Kill
<1>7. CASE Outage
  BY <1>0, <1>7 DEF Outage
<1>8. CASE Restart
  BY <1>0, <1>8 DEF Restart, Start, Resume, DropState, DropNewstate, DropPrevious, DropProcessed, Drop,
              FinishCurrent, EmptyState, CreateCurrent
<1>. QED
  BY <1>0, <1>4, <1>5, <1>6, <1>7, <1>8
  DEF Next, Multilog, Environment, Finishing, NoFile, AlreadyLinked, Link, LinkFails, UnlinkFinished,
      RemoveOldest, Fits, Writing, WriteFull, Write, Flushed, Quitting, QuitSync, Quit, Put, Flush,
      ForceRotate, EndOfInput

LEMMA PlaceStep ==
  ASSUME Inv, Next
  PROVE  pc' \in Places
<1>. USE DEF Inv, TypeOK, Places
<1>1. CASE Restart
  BY <1>1 DEF Restart, Start, Resume, DropState, DropNewstate, DropPrevious, DropProcessed, Drop,
              FinishCurrent, EmptyState, CreateCurrent, At
<1>2. CASE Finishing
  BY <1>2 DEF Finishing, NoFile, AlreadyLinked, Link, LinkFails, UnlinkFinished, RemoveOldest, Fits, At
<1>3. CASE Rotation
  BY <1>3 DEF Rotation, SyncCurrent, RenameCurrent, CreateCurrent, MarkPrevious, Fork, ProcessorFailed,
              ProcessorDone, MarkProcessed, SyncNewstate, UnlinkPrevious, RenameNewstate, At
<1>4. CASE Processors
  BY <1>4 DEF Processors, Opens, CannotOpen, Outputs, Succeeds, Fails, Processing
<1>5. CASE Writing \/ Quitting
  BY <1>5 DEF Writing, WriteFull, Write, Flushed, Quitting, QuitSync, Quit, At
<1>6. CASE Environment
  BY <1>6 DEF Environment, Put, Flush, ForceRotate, EndOfInput, Kill, Outage, Died, At
<1>. QED BY <1>1, <1>2, <1>3, <1>4, <1>5, <1>6 DEF Next, Multilog

(* finish() is called in five ways, and no failing link() makes another.   *)
LEMMA FinStep ==
  ASSUME Inv, Next
  PROVE  fin' \in [file : Names, code : Codes, next : Places]
<1>. USE DEF Inv, TypeOK, Places, Names, Codes
<1>1. CASE Restart
  BY <1>1 DEF Restart, Start, Resume, DropState, DropNewstate, DropPrevious, DropProcessed, Drop,
              FinishCurrent, EmptyState, CreateCurrent, Finish
<1>2. CASE Finishing
  BY <1>2 DEF Finishing, NoFile, AlreadyLinked, Link, LinkFails, UnlinkFinished, RemoveOldest, Fits,
              NotFinishing
<1>3. CASE Rotation
  BY <1>3 DEF Rotation, SyncCurrent, RenameCurrent, CreateCurrent, MarkPrevious, Fork, ProcessorFailed,
              ProcessorDone, MarkProcessed, SyncNewstate, UnlinkPrevious, RenameNewstate, Finish
<1>4. CASE Processors
  BY <1>4 DEF Processors, Opens, CannotOpen, Outputs, Succeeds, Fails, Processing
<1>5. CASE Writing \/ Quitting
  BY <1>5 DEF Writing, WriteFull, Write, Flushed, Quitting, QuitSync, Quit
<1>6. CASE Environment
  <2>1. CASE Kill \/ Outage
    BY <2>1 DEF Kill, Outage, Died, NotFinishing
  <2>. QED BY <1>6, <2>1 DEF Environment, Put, Flush, ForceRotate, EndOfInput
<1>. QED BY <1>1, <1>2, <1>3, <1>4, <1>5, <1>6 DEF Next, Multilog

LEMMA DescriptorStep ==
  ASSUME Inv, Next
  PROVE  fd' \in Inodes \cup {NoInode}
<1>. USE DEF Inv, TypeOK
<1>1. CASE Restart
  <2>1. CASE Resume
    BY <2>1, DirType DEF Resume, IsExec, Names
  <2>2. CASE CreateCurrent("create", "idle")
    BY <2>2, NewFile DEF CreateCurrent, Shape
  <2>. QED
    BY <1>1, <2>1, <2>2 DEF Restart, Start, DropState, DropNewstate, DropPrevious, DropProcessed, Drop,
       FinishCurrent, EmptyState, d
<1>2. CASE Rotation
  <2>1. CASE CreateCurrent("recreate", "mode")
    BY <2>1, NewFile DEF CreateCurrent, Shape
  <2>. QED
    BY <1>2, <2>1
    DEF Rotation, SyncCurrent, RenameCurrent, MarkPrevious, Fork, ProcessorFailed, ProcessorDone,
        MarkProcessed, SyncNewstate, UnlinkPrevious, RenameNewstate, d
<1>3. CASE Processors
  BY <1>3 DEF Processors, Opens, CannotOpen, Outputs, Succeeds, Fails, Processing, d
<1>4. CASE Kill \/ Outage
  BY <1>4 DEF Kill, Outage, Died
<1>. QED
  BY <1>1, <1>2, <1>3, <1>4
  DEF Next, Multilog, Environment, Finishing, NoFile, AlreadyLinked, Link, LinkFails, UnlinkFinished,
      RemoveOldest, Fits, Writing, WriteFull, Write, Flushed, Quitting, QuitSync, Quit, Put, Flush,
      ForceRotate, EndOfInput, d

(* A set of numbers up to n has a greatest one, which Offered chooses.     *)
LEMMA Greatest ==
  ASSUME NEW n \in Nat, NEW S \in SUBSET (1..n), S # {}
  PROVE  \E k \in S : \A j \in S : j <= k
<1>. DEFINE R == OpToRel(<, Nat)
            T == {m \in Nat : n - m \in S}
<1>1. IsWellFoundedOn(R, Nat)
  BY NatLessThanWellFounded
<1>2. \A a, b \in Nat : a < b => <<a, b>> \in R
  BY DEF OpToRel
<1>3. T \subseteq Nat /\ T # {}
  <2>1. PICK k \in S : TRUE
    OBVIOUS
  <2>2. n - k \in T
    BY <2>1
  <2>. QED BY <2>2
<1>. HIDE DEF R
<1>4. PICK m \in T : \A l \in T : ~(<<l, m>> \in R)
  <2>. HIDE DEF T
  <2>. QED BY <1>1, <1>3, WFMin
<1>5. ASSUME NEW j \in S PROVE j <= n - m
  <2>1. n - j \in T
    OBVIOUS
  <2>2. ~(n - j < m)
    BY <2>1, <1>2, <1>4
  <2>. QED BY <2>2, <1>4
<1>. QED BY <1>4, <1>5

(* What c_write offers to write() is in the buffer and fits into the file. *)
LEMMA OfferedFits ==
  ASSUME TypeOK, Pending > 0, ~Full
  PROVE  /\ Offered \in 1..Pending /\ Offered \in 1..Size - bytes
         /\ Fitting \in 1..Pending /\ Fitting \in 1..Size - bytes /\ Offered <= Fitting
<1>1. Pending \in Nat /\ Size - bytes \in Nat /\ Size - bytes > 0
  BY CyclogAssumption DEF TypeOK, Pending, Full
<1>2. Fitting \in 1..Pending /\ Fitting \in 1..Size - bytes
  BY <1>1 DEF Fitting
<1>3. Offered \in 1..Fitting
  <2>1. CASE Offered = Fitting
    BY <1>1, <1>2, <2>1
  <2>2. CASE Offered # Fitting
    <3>1. Ends(Fitting) # {}
      BY <2>2 DEF Offered
    <3>2. \E k \in Ends(Fitting) : \A j \in Ends(Fitting) : j <= k
      <4>1. Fitting \in Nat /\ Ends(Fitting) \subseteq 1..Fitting
        BY <1>1, <1>2 DEF Ends
      <4>. QED BY <3>1, <4>1, Greatest
    <3>. QED BY <2>2, <3>2 DEF Offered, Ends
  <2>. QED BY <2>1, <2>2
<1>. QED BY <1>1, <1>2, <1>3

(* What one write() does                                                   *)
LEMMA WriteDoes ==
  ASSUME Inv, Write
  PROVE  \E w \in Nat :
           /\ w > 0 /\ w <= Offered /\ w <= Size - bytes /\ w <= Pending
           /\ fd \in Inodes /\ bytes = Len(ino[fd].data)
           /\ ino' = [ino EXCEPT ![fd].data = ino[fd].data \o [k \in 1..w |-> written + k]]
           /\ bytes' = bytes + w /\ written' = written + w /\ written' <= input
           /\ pc' = IF bytes' >= Size - Margin /\ written' \in Newlines THEN "sync" ELSE "flush"
<1>1. Offered \in 1..Pending /\ Offered \in 1..Size - bytes
  BY OfferedFits DEF Write, Inv
<1>2. PICK w \in 1..Offered :
         /\ ino' = [ino EXCEPT ![fd].data = @ \o [k \in 1..w |-> written + k]]
         /\ bytes' = bytes + w /\ written' = written + w
         /\ pc' = IF bytes' >= Size - Margin /\ written' \in Newlines THEN "sync" ELSE "flush"
  BY DEF Write
<1>3. fd \in Inodes /\ bytes = Len(ino[fd].data)
  BY DEF Write, Inv, Files, Descriptor, HasFd
<1>4. /\ w \in Nat /\ w > 0 /\ w <= Offered /\ w <= Size - bytes /\ w <= Pending
      /\ written + w <= input
  BY <1>1, CyclogAssumption DEF Inv, TypeOK, Pending
<1>. QED BY <1>2, <1>3, <1>4

(* and what becomes of the current file by it                              *)
LEMMA WriteAppends ==
  ASSUME Inv, Write, NEW w \in Nat, fd \in Inodes,
         ino' = [ino EXCEPT ![fd].data = ino[fd].data \o [k \in 1..w |-> written + k]]
  PROVE  /\ \A i \in Inodes : i # fd => ino'[i] = ino[i]
         /\ ino'[fd].exec = ino[fd].exec /\ ino'[fd].cut = ino[fd].cut /\ ino'[fd].synced = ino[fd].synced
         /\ Len(ino'[fd].data) = Len(ino[fd].data) + w
         /\ DOMAIN ino'[fd].data = 1..Len(ino[fd].data) + w
         /\ \A k \in 1..Len(ino[fd].data) : ino'[fd].data[k] = ino[fd].data[k]
         /\ \A k \in 1..w : ino'[fd].data[Len(ino[fd].data) + k] = written + k
<1>. DEFINE more == [k \in 1..w |-> written + k]
            data == ino[fd].data
<1>1. written \in Nat /\ data \in Seq(Nat) /\ Len(data) \in Nat
  BY FileType DEF Inv, TypeOK
<1>2. more \in Seq(Nat) /\ Len(more) = w
  BY <1>1
<1>3. /\ Len(data \o more) = Len(data) + w
      /\ \A k \in 1..Len(data) + w :
            (data \o more)[k] = IF k <= Len(data) THEN data[k] ELSE more[k - Len(data)]
      /\ data \o more \in Seq(Nat)
  BY <1>1, <1>2, ConcatProperties
<1>4. /\ \A i \in Inodes : i # fd => ino'[i] = ino[i]
      /\ ino'[fd] = [ino[fd] EXCEPT !.data = data \o more]
  BY DEF Inv, TypeOK
<1>5. ino'[fd].data = data \o more
  BY <1>4, FileType DEF File, Inv
<1>6. DOMAIN (data \o more) = 1..Len(data) + w
  BY <1>3, LenProperties
<1>. HIDE DEF data
<1>7. \A k \in 1..w : (data \o more)[Len(data) + k] = written + k
  BY <1>1, <1>2, <1>3
<1>8. \A k \in 1..Len(data) : (data \o more)[k] = data[k]
  BY <1>1, <1>3
<1>9. ino'[fd].exec = ino[fd].exec /\ ino'[fd].cut = ino[fd].cut /\ ino'[fd].synced = ino[fd].synced
  BY <1>4, FileType DEF File, Inv
<1>. HIDE DEF more
<1>. QED BY <1>3, <1>4, <1>5, <1>6, <1>7, <1>8, <1>9 DEF data

(* What no step of a processor touches                                     *)
LEMMA ProcessorsKeep ==
  ASSUME Processors
  PROVE  /\ UNCHANGED <<d, buffered, crashes, alarms>>
         /\ failures' = failures \/ (failures < MaxFailures /\ failures' = failures + 1)
<1>1. PICK k \in DOMAIN proc : Opens(k) \/ CannotOpen(k) \/ Outputs(k) \/ Succeeds(k) \/ Fails(k)
  BY DEF Processors
<1>2. CASE Opens(k)
  BY <1>2 DEF Opens, Processing
<1>3. CASE CannotOpen(k)
  BY <1>3 DEF CannotOpen, Processing
<1>4. CASE Outputs(k)
  BY <1>4 DEF Outputs, Processing
<1>5. CASE Succeeds(k)
  BY <1>5 DEF Succeeds, Processing
<1>6. CASE Fails(k)
  BY <1>6 DEF Fails, Processing
<1>. QED BY <1>1, <1>2, <1>3, <1>4, <1>5, <1>6

LEMMA BytesStep ==
  ASSUME Inv, Next
  PROVE  bytes' \in 0..Size
<1>0. TypeOK /\ Files /\ bytes \in 0..Size /\ Size \in Nat
  BY CyclogAssumption DEF Inv, TypeOK
<1>1. CASE Restart
  <2>1. CASE Resume
    <3>1. dir["current"] \in Inodes
      BY <1>0, <2>1, DirType DEF Resume, IsExec, Names
    <3>2. Len(ino[dir["current"]].data) \in Nat /\ Len(ino[dir["current"]].data) <= Size
      BY <1>0, <3>1, FileType, InodeOrNone DEF Files, CurrentFits, Missing
    <3>. QED BY <1>0, <2>1, <3>2 DEF Resume
  <2>2. CASE CreateCurrent("create", "idle")
    BY <1>0, <2>2 DEF CreateCurrent
  <2>. QED
    BY <1>0, <1>1, <2>1, <2>2 DEF Restart, Start, DropState, DropNewstate, DropPrevious, DropProcessed, Drop,
       FinishCurrent, EmptyState, d
<1>2. CASE Rotation
  <2>1. CASE CreateCurrent("recreate", "mode")
    BY <1>0, <2>1 DEF CreateCurrent
  <2>. QED
    BY <1>0, <1>2, <2>1
    DEF Rotation, SyncCurrent, RenameCurrent, MarkPrevious, Fork, ProcessorFailed, ProcessorDone,
        MarkProcessed, SyncNewstate, UnlinkPrevious, RenameNewstate, d
<1>3. CASE Processors
  BY <1>0, <1>3, ProcessorsKeep DEF d
<1>4. CASE Kill \/ Outage
  <2>1. bytes' = 0
    BY <1>4 DEF Kill, Outage, Died
  <2>. QED BY <1>0, <2>1
<1>5. CASE Write
  <2>1. PICK w \in Nat : w <= Size - bytes /\ bytes' = bytes + w
    BY <1>5, WriteDoes
  <2>. QED BY <1>0, <2>1
<1>. QED
  BY <1>0, <1>1, <1>2, <1>3, <1>4, <1>5
  DEF Next, Multilog, Environment, Finishing, NoFile, AlreadyLinked, Link, LinkFails, UnlinkFinished,
      RemoveOldest, Fits, Writing, WriteFull, Flushed, Quitting, QuitSync, Quit, Put, Flush,
      ForceRotate, EndOfInput, d

LEMMA InputStep ==
  ASSUME Inv, Next
  PROVE  /\ input' \in 0..MaxInput /\ written' \in 0..input' /\ written <= written'
<1>0. input \in 0..MaxInput /\ written \in 0..input /\ MaxInput \in Nat
  BY CyclogAssumption DEF Inv, TypeOK
<1>1. CASE Restart \/ Finishing
  BY <1>0, <1>1
  DEF Restart, Start, Resume, DropState, DropNewstate, DropPrevious, DropProcessed, Drop, FinishCurrent,
      EmptyState, CreateCurrent, Finishing, NoFile, AlreadyLinked, Link, LinkFails, UnlinkFinished,
      RemoveOldest, Fits, buffered
<1>2. CASE Rotation
  BY <1>0, <1>2
  DEF Rotation, SyncCurrent, RenameCurrent, CreateCurrent, MarkPrevious, Fork, ProcessorFailed,
      ProcessorDone, MarkProcessed, SyncNewstate, UnlinkPrevious, RenameNewstate, buffered
<1>3. CASE Processors
  BY <1>0, <1>3, ProcessorsKeep DEF buffered
<1>4. CASE Write
  <2>1. input' = input
    BY <1>4 DEF Write
  <2>2. PICK w \in Nat : written' = written + w /\ written' <= input
    BY <1>4, WriteDoes
  <2>. QED BY <1>0, <2>1, <2>2
<1>5. CASE Kill \/ Outage
  <2>1. input' = input /\ written' = input
    BY <1>5 DEF Kill, Outage, Died
  <2>. QED BY <1>0, <2>1
<1>6. CASE Put
  BY <1>0, <1>6 DEF Put
<1>. QED
  BY <1>0, <1>1, <1>2, <1>3, <1>4, <1>5, <1>6
  DEF Next, Multilog, Environment, Writing, WriteFull, Flushed, Quitting, QuitSync, Quit, Flush,
      ForceRotate, EndOfInput, buffered

LEMMA CountsStep ==
  ASSUME Inv, Next
  PROVE  crashes' \in 0..MaxCrashes /\ failures' \in 0..MaxFailures /\ alarms' \in 0..MaxAlarms
<1>0. /\ crashes \in 0..MaxCrashes /\ failures \in 0..MaxFailures /\ alarms \in 0..MaxAlarms
      /\ MaxCrashes \in Nat /\ MaxFailures \in Nat /\ MaxAlarms \in Nat
  BY CyclogAssumption DEF Inv, TypeOK
<1>1. CASE Restart \/ Finishing
  <2>1. CASE LinkFails
    <3>1. failures < MaxFailures /\ failures' = failures + 1 /\ UNCHANGED <<crashes, alarms>>
      BY <2>1 DEF LinkFails
    <3>. QED BY <1>0, <3>1
  <2>. QED
    BY <1>0, <1>1, <2>1
    DEF Restart, Start, Resume, DropState, DropNewstate, DropPrevious, DropProcessed, Drop, FinishCurrent,
        EmptyState, CreateCurrent, Finishing, NoFile, AlreadyLinked, Link, UnlinkFinished,
        RemoveOldest, Fits, counts
<1>2. CASE Rotation
  BY <1>0, <1>2
  DEF Rotation, SyncCurrent, RenameCurrent, CreateCurrent, MarkPrevious, Fork, ProcessorFailed,
      ProcessorDone, MarkProcessed, SyncNewstate, UnlinkPrevious, RenameNewstate, counts
<1>3. CASE Processors
  <2>1. UNCHANGED <<crashes, alarms>> /\ (failures' = failures \/ (failures < MaxFailures /\ failures' = failures + 1))
    BY <1>3, ProcessorsKeep
  <2>. QED BY <1>0, <2>1
<1>4. CASE Kill \/ Outage
  <2>1. Died
    BY <1>4 DEF Kill, Outage
  <2>2. crashes < MaxCrashes /\ crashes' = crashes + 1 /\ UNCHANGED <<failures, alarms>>
    BY <2>1 DEF Died
  <2>. QED BY <1>0, <2>2
<1>5. CASE ForceRotate
  <2>1. alarms < MaxAlarms /\ alarms' = alarms + 1 /\ UNCHANGED <<crashes, failures>>
    BY <1>5 DEF ForceRotate
  <2>. QED BY <1>0, <2>1
<1>. QED
  BY <1>0, <1>1, <1>2, <1>3, <1>4, <1>5
  DEF Next, Multilog, Environment, Writing, WriteFull, Write, Flushed, Quitting, QuitSync, Quit, Put, Flush,
      EndOfInput, counts

(* Boolean variables                                                       *)
LEMMA FlagsStep ==
  ASSUME Inv, Next
  PROVE  processor' \in BOOLEAN /\ quitting' \in BOOLEAN
<1>0. processor \in BOOLEAN /\ quitting \in BOOLEAN
  BY DEF Inv, TypeOK
<1>1. CASE Restart \/ Finishing
  BY <1>0, <1>1, Zenon
  DEF Restart, Start, Resume, DropState, DropNewstate, DropPrevious, DropProcessed, Drop, FinishCurrent,
      EmptyState, CreateCurrent, Finishing, NoFile, AlreadyLinked, Link, LinkFails, UnlinkFinished,
      RemoveOldest, Fits, d
<1>2. CASE Rotation
  BY <1>0, <1>2, Zenon
  DEF Rotation, SyncCurrent, RenameCurrent, CreateCurrent, MarkPrevious, Fork, ProcessorFailed,
      ProcessorDone, MarkProcessed, SyncNewstate, UnlinkPrevious, RenameNewstate, d
<1>3. CASE Processors
  BY <1>0, <1>3, Zenon DEF Processors, Opens, CannotOpen, Outputs, Succeeds, Fails, Processing, d
<1>4. CASE Kill \/ Outage
  BY <1>0, <1>4, Zenon DEF Kill, Outage, Died
<1>. QED
  BY <1>0, <1>1, <1>2, <1>3, <1>4, Zenon
  DEF Next, Multilog, Environment, Writing, WriteFull, Write, Flushed, Quitting, QuitSync, Quit, Put, Flush,
      ForceRotate, EndOfInput, d

(* What a write by a processor does                                        *)
LEMMA OutputsDoes ==
  ASSUME Inv, NEW k \in DOMAIN proc, Outputs(k)
  PROVE  /\ \A i \in Inodes : i # proc[k].out /\ i # proc[k].ns => ino'[i] = ino[i]
         /\ \E n \in 1..Len(ino[proc[k].in].data) :
              /\ ino'[proc[k].out].data = SubSeq(ino[proc[k].in].data, 1, n)
              /\ ino'[proc[k].ns].data = <<ino[proc[k].in].data[n]>>
         /\ \A i \in Inodes : ino'[i].exec = ino[i].exec /\ ino'[i].cut = ino[i].cut
                              /\ ino'[i].synced = ino[i].synced
<1>1. /\ proc[k].in \in Inodes /\ proc[k].out \in Inodes /\ proc[k].ns \in Inodes
      /\ proc[k].out # proc[k].ns
  BY DEF Outputs, Inv, Procs, Phases
<1>. DEFINE data == ino[proc[k].in].data
<1>2. PICK n \in Len(ino[proc[k].out].data) + 1 .. Len(data) :
         ino' = [ino EXCEPT ![proc[k].out].data = SubSeq(data, 1, n), ![proc[k].ns].data = <<data[n]>>]
  BY DEF Outputs
<1>3. n \in 1..Len(data)
  BY <1>1, FileType DEF Inv
<1>4. ino \in [Inodes -> File]
  BY DEF Inv, TypeOK
<1>. HIDE DEF data
<1>5. /\ \A i \in Inodes : i # proc[k].out /\ i # proc[k].ns => ino'[i] = ino[i]
      /\ ino'[proc[k].out] = [ino[proc[k].out] EXCEPT !.data = SubSeq(data, 1, n)]
      /\ ino'[proc[k].ns] = [ino[proc[k].ns] EXCEPT !.data = <<data[n]>>]
  BY <1>1, <1>2, <1>4
<1>6. \A s : \A i \in Inodes :
        LET r == [ino[i] EXCEPT !.data = s] IN
        r.data = s /\ r.exec = ino[i].exec /\ r.cut = ino[i].cut /\ r.synced = ino[i].synced
  BY <1>4 DEF File
<1>7. ino'[proc[k].out].data = SubSeq(data, 1, n) /\ ino'[proc[k].ns].data = <<data[n]>>
  BY <1>1, <1>5, <1>6
<1>8. ASSUME NEW i \in Inodes
      PROVE  ino'[i].exec = ino[i].exec /\ ino'[i].cut = ino[i].cut /\ ino'[i].synced = ino[i].synced
  <2>1. CASE ino'[i] = ino[i]
    BY <2>1
  <2>2. ASSUME NEW s, ino'[i] = [ino[i] EXCEPT !.data = s]
        PROVE  ino'[i].exec = ino[i].exec /\ ino'[i].cut = ino[i].cut /\ ino'[i].synced = ino[i].synced
    <3>. DEFINE r == [ino[i] EXCEPT !.data = s]
    <3>1. r.exec = ino[i].exec /\ r.cut = ino[i].cut /\ r.synced = ino[i].synced
      BY <1>6
    <3>2. ino'[i] = r
      BY <2>2
    <3>. HIDE DEF r
    <3>. QED BY <3>1, <3>2, Zenon
  <2>. QED BY <1>5, <2>1, <2>2, Zenon
<1>. QED BY <1>3, <1>5, <1>7, <1>8 DEF data

(* The bytes of a file stay, or the file is emptied, but for write() and   *)
(* the processors' writes, and for what an outage takes off the end.       *)
Stays(i) == ino'[i].data = ino[i].data \/ ino'[i].data = <<>>
DataSteps(i) ==
  \/ Stays(i)
  \/ Write /\ i = fd
  \/ \E k \in DOMAIN proc : Outputs(k) /\ i \in {proc[k].out, proc[k].ns}
  \/ Outage /\ ino[i].synced < Len(ino[i].data) /\ ino'[i].data = SubSeq(ino[i].data, 1, ino[i].synced)

LEMMA DataStep ==
  ASSUME Inv, Next, NEW i \in Inodes
  PROVE  DataSteps(i)
<1>. USE DEF Inv
<1>0. /\ ino \in [Inodes -> File] /\ fin.file \in Names
      /\ Blank.data = <<>> /\ \A j \in Inodes : [ino[j] EXCEPT !.exec = TRUE].data = ino[j].data
      /\ \A j \in Inodes : [ino[j] EXCEPT !.exec = FALSE].data = ino[j].data
      /\ \A n : \A j \in Inodes : [ino[j] EXCEPT !.synced = n].data = ino[j].data
  BY FileType, BlankFile DEF TypeOK, File
<1>1. ASSUME NEW j, ino' = Unlinked(j) PROVE Stays(i)
  BY <1>0, <1>1 DEF Unlinked, Stays
<1>2. ASSUME NEW j, ino' = [ino EXCEPT ![j] = Blank] PROVE Stays(i)
  BY <1>0, <1>2 DEF Stays
<1>3. ASSUME NEW j, \/ ino' = [ino EXCEPT ![j].exec = TRUE] \/ ino' = [ino EXCEPT ![j].exec = FALSE]
                    \/ Sync(j)
      PROVE  Stays(i)
  <2>1. CASE Sync(j)
    BY <1>0, <2>1 DEF Stays, Sync
  <2>2. CASE ino' = [ino EXCEPT ![j].exec = TRUE]
    BY <1>0, <2>2 DEF Stays
  <2>3. CASE ino' = [ino EXCEPT ![j].exec = FALSE]
    BY <1>0, <2>3 DEF Stays
  <2>. QED BY <1>3, <2>1, <2>2, <2>3
<1>4. ino' = ino => Stays(i)
  BY DEF Stays
<1>5. CASE Restart
  BY <1>1, <1>2, <1>3, <1>4, <1>5
  DEF Restart, Start, Resume, DropState, DropNewstate, DropPrevious, DropProcessed, Drop, Unlink,
      FinishCurrent, EmptyState, CreateCurrent, disk, DataSteps
<1>6. CASE Finishing
  BY <1>1, <1>4, <1>6
  DEF Finishing, NoFile, AlreadyLinked, Link, LinkFails, UnlinkFinished, RemoveOldest, Fits, Unlink, disk,
      DataSteps
<1>7. CASE Rotation
  BY <1>1, <1>2, <1>3, <1>4, <1>7
  DEF Rotation, SyncCurrent, RenameCurrent, CreateCurrent, MarkPrevious, Fork, ProcessorFailed,
      ProcessorDone, MarkProcessed, SyncNewstate, UnlinkPrevious, RenameNewstate, Unlink, disk, DataSteps
<1>8. CASE Processors
  <2>1. ASSUME NEW k \in DOMAIN proc, Opens(k) PROVE Stays(i)
    <3>1. [Blank EXCEPT !.exec = ino[i].exec].data = <<>>
      BY BlankFile DEF Blank
    <3>. QED BY <2>1, <3>1 DEF Opens, Stays
  <2>2. ASSUME NEW k \in DOMAIN proc, CannotOpen(k) PROVE Stays(i)
    BY <2>2, <1>4 DEF CannotOpen
  <2>3. ASSUME NEW k \in DOMAIN proc, Outputs(k), i \notin {proc[k].out, proc[k].ns} PROVE Stays(i)
    BY <2>3, OutputsDoes DEF Stays
  <2>4. ASSUME NEW k \in DOMAIN proc, Closed(k) PROVE Stays(i)
    BY <1>0, <2>4 DEF Closed, Stays
  <2>. QED BY <1>8, <2>1, <2>2, <2>3, <2>4 DEF Processors, Succeeds, Fails, DataSteps
<1>9. CASE Outage
  <2>1. PICK torn \in SUBSET Unsynced :
          ino' = [j \in Inodes |-> IF Links(j) = 0 THEN Blank ELSE IF j \in torn THEN Torn(j) ELSE ino[j]]
    BY <1>9 DEF Outage
  <2>2. Torn(i).data = SubSeq(ino[i].data, 1, ino[i].synced)
    BY <1>0 DEF Torn, File
  <2>. QED BY <1>0, <1>9, <2>1, <2>2 DEF Unsynced, DataSteps, Stays
<1>10. CASE Writing
  <2>1. CASE Write /\ i # fd
    BY <2>1, WriteDoes, WriteAppends DEF Stays, DataSteps
  <2>. QED BY <1>4, <1>10, <2>1 DEF Writing, WriteFull, Flushed, disk, DataSteps
<1>11. CASE Quitting
  BY <1>3, <1>11 DEF Quitting, QuitSync, Quit, DataSteps
<1>. QED
  BY <1>4, <1>5, <1>6, <1>7, <1>8, <1>9, <1>10, <1>11
  DEF Next, Multilog, Environment, Put, Flush, ForceRotate, EndOfInput, Kill, disk, DataSteps

(* Who loses and removes bytes                                             *)
LEMMA LostStep ==
  ASSUME Inv, Next
  PROVE  lost' = lost \/ Kill \/ Outage
<1>1. CASE Restart \/ Finishing
  BY <1>1
  DEF Restart, Start, Resume, DropState, DropNewstate, DropPrevious, DropProcessed, Drop, FinishCurrent,
      EmptyState, CreateCurrent, Finishing, NoFile, AlreadyLinked, Link, LinkFails, UnlinkFinished,
      RemoveOldest, Fits
<1>2. CASE Rotation
  BY <1>2
  DEF Rotation, SyncCurrent, RenameCurrent, CreateCurrent, MarkPrevious, Fork, ProcessorFailed,
      ProcessorDone, MarkProcessed, SyncNewstate, UnlinkPrevious, RenameNewstate
<1>3. CASE Processors
  BY <1>3 DEF Processors, Opens, CannotOpen, Outputs, Succeeds, Fails, Processing
<1>. QED
  BY <1>1, <1>2, <1>3
  DEF Next, Multilog, Environment, Writing, WriteFull, Write, Flushed, Quitting, QuitSync, Quit, Put, Flush,
      ForceRotate, EndOfInput

LEMMA RemovedStep ==
  ASSUME Inv, Next
  PROVE  removed' = removed \/ RemoveOldest
<1>1. CASE Restart \/ Finishing
  BY <1>1
  DEF Restart, Start, Resume, DropState, DropNewstate, DropPrevious, DropProcessed, Drop, FinishCurrent,
      EmptyState, CreateCurrent, Finishing, NoFile, AlreadyLinked, Link, LinkFails, UnlinkFinished, Fits
<1>2. CASE Rotation
  BY <1>2
  DEF Rotation, SyncCurrent, RenameCurrent, CreateCurrent, MarkPrevious, Fork, ProcessorFailed,
      ProcessorDone, MarkProcessed, SyncNewstate, UnlinkPrevious, RenameNewstate
<1>3. CASE Processors
  BY <1>3 DEF Processors, Opens, CannotOpen, Outputs, Succeeds, Fails, Processing
<1>. QED
  BY <1>1, <1>2, <1>3
  DEF Next, Multilog, Environment, Writing, WriteFull, Write, Flushed, Quitting, QuitSync, Quit, Put, Flush,
      ForceRotate, EndOfInput, Kill, Outage, Died

(* The files that are read as the log                                      *)
LEMMA LogFilesType ==
  ASSUME TypeOK
  PROVE  /\ Len(LogFiles) \in Nat /\ DOMAIN LogFiles = 1..Len(LogFiles)
         /\ \A k \in DOMAIN LogFiles : LogFiles[k] \in Inodes
         /\ \A i \in Inodes : (\E k \in DOMAIN LogFiles : LogFiles[k] = i)
                              <=> IsOld(i) \/ i = Unfinished \/ i = dir["current"]
<1>. DEFINE olds == [k \in DOMAIN old |-> old[k].ino]
            u == IfNew(Unfinished)
            c == IfNew(dir["current"])
<1>1. olds \in Seq(Inodes) /\ Len(olds) = Len(old) /\ \A k \in 1..Len(old) : olds[k] = old[k].ino
  BY OldType
<1>2. u \in Seq(Inodes) /\ (u = <<>> \/ u = <<Unfinished>>)
      /\ (Unfinished \in Inodes /\ ~IsOld(Unfinished) => u = <<Unfinished>>)
  BY DirType, InodeOrNone DEF IfNew, Unfinished, Names
<1>3. c \in Seq(Inodes) /\ (c = <<>> \/ c = <<dir["current"]>>)
      /\ (dir["current"] \in Inodes /\ ~IsOld(dir["current"]) => c = <<dir["current"]>>)
  BY DirType, InodeOrNone DEF IfNew, Names
<1>4. LogFiles = (olds \o u) \o c
  BY DEF LogFiles
<1>5. \A i : IsOld(i) <=> \E k \in 1..Len(old) : olds[k] = i
  BY <1>1, OldType DEF IsOld
<1>6. Len(old) \in Nat
  BY OldType
<1>. HIDE DEF olds, u, c
<1>7. LogFiles \in Seq(Inodes) /\ Len(LogFiles) = Len(old) + Len(u) + Len(c)
      /\ \A k \in 1..Len(LogFiles) :
           LogFiles[k] = IF k <= Len(old) THEN olds[k]
                         ELSE IF k <= Len(old) + Len(u) THEN u[k - Len(old)] ELSE c[k - Len(old) - Len(u)]
  <2>. DEFINE y == olds \o u
  <2>1. olds \in Seq(Inodes) /\ u \in Seq(Inodes) /\ c \in Seq(Inodes)
    BY <1>1, <1>2, <1>3
  <2>2. Len(u) \in Nat /\ Len(c) \in Nat
    BY <2>1
  <2>3. y \in Seq(Inodes) /\ Len(y) = Len(olds) + Len(u)
    BY <2>1
  <2>4. \A k \in 1..Len(olds) + Len(u) : y[k] = IF k <= Len(olds) THEN olds[k] ELSE u[k - Len(olds)]
    BY <2>1
  <2>. HIDE DEF y
  <2>5. y \o c \in Seq(Inodes) /\ Len(y \o c) = Len(y) + Len(c)
    BY <2>1, <2>3
  <2>6. \A k \in 1..Len(y) + Len(c) : (y \o c)[k] = IF k <= Len(y) THEN y[k] ELSE c[k - Len(y)]
    BY <2>1, <2>3
  <2>7. LogFiles = y \o c
    BY <1>4 DEF y
  <2>. QED BY <1>1, <1>6, <2>2, <2>3, <2>4, <2>5, <2>6, <2>7
<1>8. Len(LogFiles) \in Nat /\ DOMAIN LogFiles = 1..Len(LogFiles)
      /\ \A k \in DOMAIN LogFiles : LogFiles[k] \in Inodes
  BY <1>7, LenProperties, ElementOfSeq
<1>9. \A k \in 1..Len(u) : u[k] = Unfinished
  BY <1>2
<1>10. \A k \in 1..Len(c) : c[k] = dir["current"]
  BY <1>3
<1>11. Len(u) \in Nat /\ Len(c) \in Nat
  BY <1>2, <1>3
<1>12. ASSUME NEW i \in Inodes, NEW k \in DOMAIN LogFiles, LogFiles[k] = i
       PROVE  IsOld(i) \/ i = Unfinished \/ i = dir["current"]
  <2>1. k \in 1..Len(old) + Len(u) + Len(c)
    BY <1>7, <1>8
  <2>2. CASE k <= Len(old)
    BY <1>5, <1>6, <1>7, <1>8, <1>12, <2>2
  <2>3. CASE k > Len(old) /\ k <= Len(old) + Len(u)
    <3>1. k - Len(old) \in 1..Len(u) /\ LogFiles[k] = u[k - Len(old)]
      BY <1>6, <1>7, <1>8, <1>11, <2>1, <2>3
    <3>. QED BY <1>9, <1>12, <3>1
  <2>4. CASE k > Len(old) + Len(u)
    <3>1. k - Len(old) - Len(u) \in 1..Len(c) /\ LogFiles[k] = c[k - Len(old) - Len(u)]
      BY <1>6, <1>7, <1>8, <1>11, <2>1, <2>4
    <3>. QED BY <1>10, <1>12, <3>1
  <2>. QED BY <1>6, <1>11, <2>1, <2>2, <2>3, <2>4
<1>13. ASSUME NEW i \in Inodes, IsOld(i) \/ i = Unfinished \/ i = dir["current"]
       PROVE  \E k \in DOMAIN LogFiles : LogFiles[k] = i
  <2>1. CASE IsOld(i)
    <3>1. PICK k \in 1..Len(old) : olds[k] = i
      BY <1>5, <2>1
    <3>. QED BY <1>6, <1>7, <1>8, <1>11, <3>1
  <2>2. CASE i = Unfinished /\ ~IsOld(i)
    <3>1. Len(u) = 1 /\ u[1] = i
      BY <1>2, <2>2
    <3>2. Len(old) + 1 \in DOMAIN LogFiles /\ LogFiles[Len(old) + 1] = i
      BY <1>6, <1>7, <1>8, <1>11, <3>1
    <3>. QED BY <3>2
  <2>3. CASE i = dir["current"] /\ ~IsOld(i)
    <3>1. Len(c) = 1 /\ c[1] = i
      BY <1>3, <2>3
    <3>2. Len(LogFiles) \in DOMAIN LogFiles /\ LogFiles[Len(LogFiles)] = i
      BY <1>6, <1>7, <1>8, <1>11, <3>1
    <3>. QED BY <3>2
  <2>. QED BY <1>13, <2>1, <2>2, <2>3
<1>. QED BY <1>8, <1>12, <1>13

(* Every byte of a file comes from the buffer or from another file.        *)
LEMMA BytesWrittenStep ==
  ASSUME Inv, Next
  PROVE  BytesWritten'
<1>. USE DEF Inv
<1>. DEFINE Ok(s) == \A k \in DOMAIN s : s[k] \in 1..written'
<1>1. written \in Nat /\ written' \in Nat /\ written <= written' /\ input \in Nat /\ written <= input
  BY InputStep, CyclogAssumption DEF TypeOK
<1>2. \A i \in Inodes : Ok(ino[i].data)
  BY <1>1 DEF Files, BytesWritten
<1>3. lost \subseteq 1..written' /\ removed \subseteq 1..written'
  BY <1>1 DEF Files, BytesWritten
<1>4. Ok(Blank.data)
  BY BlankFile
<1>0. SUFFICES /\ \A i \in Inodes : Ok(ino'[i].data)
               /\ lost' \subseteq 1..written' /\ removed' \subseteq 1..written'
  BY DEF BytesWritten
<1>5. lost' \subseteq 1..written'
  <2>1. CASE lost' = lost
    BY <1>3, <2>1
  <2>2. CASE Kill
    <3>1. lost' = lost \cup (written + 1 .. input) /\ written' = input
      BY <2>2 DEF Kill, Died
    <3>2. written + 1 .. input \subseteq 1..written'
      BY <1>1, <3>1
    <3>. QED BY <1>3, <3>1, <3>2
  <2>3. CASE Outage
    <3>1. Logged \subseteq 1..written
      <4>1. \A k \in DOMAIN LogFiles : LogFiles[k] \in Inodes
        BY LogFilesType
      <4>2. \A j \in Inodes : Bytes(j) \subseteq 1..written
        BY DEF Files, BytesWritten, Bytes
      <4>. QED BY <4>1, <4>2 DEF Logged
    <3>2. lost' = lost \cup (written + 1 .. input) \cup (Logged \ Logged') /\ written' = input
      BY <2>3 DEF Outage, Died
    <3>3. written + 1 .. input \subseteq 1..written'
      BY <1>1, <3>2
    <3>4. 1..written \subseteq 1..written'
      BY <1>1
    <3>. QED BY <1>3, <3>1, <3>2, <3>3, <3>4
  <2>. QED BY <2>1, <2>2, <2>3, LostStep
<1>6. removed' \subseteq 1..written'
  <2>1. CASE RemoveOldest
    <3>1. Len(old) > 0
      BY <2>1, CyclogAssumption, OldType DEF RemoveOldest, TooMany
    <3>2. Head(old).ino \in Inodes
      BY <3>1, OldType, HeadTailProperties DEF TypeOK
    <3>3. Bytes(Head(old).ino) \subseteq 1..written'
      BY <3>2, <1>1 DEF Bytes, Files, BytesWritten
    <3>. QED BY <1>3, <2>1, <3>3 DEF RemoveOldest
  <2>. QED BY <1>3, <2>1, RemovedStep
<1>7. ASSUME NEW i \in Inodes PROVE Ok(ino'[i].data)
  <2>1. CASE Stays(i)
    BY <1>2, <1>4, <2>1, BlankFile DEF Stays
  <2>2. CASE Write /\ i = fd
    <3>1. PICK w \in Nat :
             /\ fd \in Inodes /\ written' = written + w
             /\ ino' = [ino EXCEPT ![fd].data = ino[fd].data \o [k \in 1..w |-> written + k]]
      BY <2>2, WriteDoes
    <3>2. /\ DOMAIN ino'[fd].data = 1..Len(ino[fd].data) + w
          /\ \A k \in 1..Len(ino[fd].data) : ino'[fd].data[k] = ino[fd].data[k]
          /\ \A k \in 1..w : ino'[fd].data[Len(ino[fd].data) + k] = written + k
      BY <2>2, <3>1, WriteAppends
    <3>3. Len(ino[fd].data) \in Nat /\ DOMAIN ino[fd].data = 1..Len(ino[fd].data)
      BY <3>1, FileType
    <3>4. ASSUME NEW k \in DOMAIN ino'[fd].data PROVE ino'[fd].data[k] \in 1..written'
      <4>1. CASE k <= Len(ino[fd].data)
        BY <1>2, <3>1, <3>2, <3>3, <4>1 DEF Ok
      <4>2. CASE k > Len(ino[fd].data)
        <5>1. k - Len(ino[fd].data) \in 1..w
          BY <3>2, <3>3, <3>4, <4>2, SMTT(30)
        <5>2. ino'[fd].data[Len(ino[fd].data) + (k - Len(ino[fd].data))] = written + (k - Len(ino[fd].data))
          BY <3>2, <5>1
        <5>3. k = Len(ino[fd].data) + (k - Len(ino[fd].data))
          BY <3>2, <3>3, <3>4
        <5>4. written + (k - Len(ino[fd].data)) \in 1..written'
          BY <1>1, <3>1, <5>1, SMTT(30)
        <5>. QED BY <5>2, <5>3, <5>4
      <4>. QED BY <3>2, <3>3, <3>4, <4>1, <4>2
    <3>. QED BY <2>2, <3>4 DEF Ok
  <2>3. ASSUME NEW k \in DOMAIN proc, Outputs(k), i \in {proc[k].out, proc[k].ns} PROVE Ok(ino'[i].data)
    <3>. DEFINE data == ino[proc[k].in].data
    <3>1. proc[k].in \in Inodes /\ proc[k].out \in Inodes /\ proc[k].ns \in Inodes
          /\ proc[k].out # proc[k].ns
      BY <2>3 DEF Outputs, Procs, Phases
    <3>2. PICK n \in 1..Len(data) :
             ino'[proc[k].out].data = SubSeq(data, 1, n) /\ ino'[proc[k].ns].data = <<data[n]>>
      BY <2>3, <3>1, OutputsDoes
    <3>3. data \in Seq(Nat) /\ DOMAIN data = 1..Len(data) /\ Len(data) \in Nat
      BY <3>1, FileType
    <3>4. Ok(data)
      BY <1>2, <3>1
    <3>. HIDE DEF data
    <3>5. Ok(SubSeq(data, 1, n))
      <4>1. DOMAIN SubSeq(data, 1, n) = 1..n /\ \A j \in 1..n : SubSeq(data, 1, n)[j] = data[j]
        BY <3>2, <3>3
      <4>. QED BY <3>3, <3>4, <4>1 DEF Ok
    <3>6. Ok(<<data[n]>>)
      BY <3>2, <3>3, <3>4 DEF Ok
    <3>. QED BY <2>3, <3>2, <3>5, <3>6
  <2>4. CASE ino[i].synced < Len(ino[i].data) /\ ino'[i].data = SubSeq(ino[i].data, 1, ino[i].synced)
    <3>. DEFINE data == ino[i].data
                n == ino[i].synced
    <3>1. data \in Seq(Nat) /\ DOMAIN data = 1..Len(data) /\ Len(data) \in Nat /\ n \in Nat /\ n < Len(data)
      BY <2>4, FileType
    <3>2. Ok(data) /\ ino'[i].data = SubSeq(data, 1, n)
      BY <1>2, <2>4
    <3>. HIDE DEF data, n
    <3>3. DOMAIN SubSeq(data, 1, n) = 1..n /\ \A j \in 1..n : SubSeq(data, 1, n)[j] = data[j]
      BY <3>1
    <3>. QED BY <3>1, <3>2, <3>3 DEF Ok
  <2>. QED BY <2>1, <2>2, <2>3, <2>4, DataStep DEF DataSteps
<1>. QED BY <1>5, <1>6, <1>7 DEF Ok

(* Every variable keeps its type.                                          *)
LEMMA TypeStep ==
  ASSUME Inv, Next
  PROVE  TypeOK'
<1>1. /\ written' \in Nat /\ written' <= input' /\ input' \in Nat /\ input' <= MaxInput /\ MaxInput \in Nat
  BY InputStep, CyclogAssumption
<1>2. lost' \subseteq 1..MaxInput /\ removed' \subseteq 1..MaxInput
  <2>1. 1..written' \subseteq 1..MaxInput
    BY <1>1
  <2>2. lost' \subseteq 1..written' /\ removed' \subseteq 1..written'
    BY BytesWrittenStep DEF BytesWritten
  <2>. QED BY <2>1, <2>2
<1>3. /\ dir' \in [Names -> Inodes \cup {NoInode}]
      /\ old' \in Seq([ino : Inodes, code : Codes]) /\ ino' \in [Inodes -> File]
      /\ fd' \in Inodes \cup {NoInode} /\ bytes' \in 0..Size /\ pc' \in Places
      /\ fin' \in [file : Names, code : Codes, next : Places]
      /\ input' \in 0..MaxInput /\ written' \in 0..input'
      /\ proc' \in [0..MaxCrashes -> Process]
      /\ crashes' \in 0..MaxCrashes /\ failures' \in 0..MaxFailures /\ alarms' \in 0..MaxAlarms
  BY DirStep, OldStep, InoStep, DescriptorStep, BytesStep, PlaceStep, FinStep, InputStep, ProcStep, CountsStep
<1>. QED BY <1>2, <1>3, FlagsStep, Zenon DEF TypeOK

LEMMA TypeInit == Init => TypeOK
<1>. SUFFICES ASSUME Init PROVE TypeOK
  OBVIOUS
<1>1. old \in Seq([ino : Inodes, code : Codes])
  BY DEF Init
<1>2. ino \in [Inodes -> File] /\ proc \in [0..MaxCrashes -> Process]
  BY BlankFile, NoProcessorType DEF Init
<1>3. /\ dir \in [Names -> Inodes \cup {NoInode}] /\ fd \in Inodes \cup {NoInode} /\ bytes \in 0..Size
      /\ pc \in Places /\ input \in 0..MaxInput /\ written \in 0..input
      /\ lost \subseteq 1..MaxInput /\ removed \subseteq 1..MaxInput
      /\ crashes \in 0..MaxCrashes /\ failures \in 0..MaxFailures /\ alarms \in 0..MaxAlarms
  BY CyclogAssumption DEF Init, Places
<1>4. fin \in [file : Names, code : Codes, next : Places]
  BY DEF Init, NotFinishing, Names, Codes, Places
<1>5. processor \in BOOLEAN /\ quitting \in BOOLEAN
  BY CyclogAssumption, Zenon DEF Init
<1>. QED BY <1>1, <1>2, <1>3, <1>4, <1>5, Zenon DEF TypeOK

-----------------------------------------------------------------------------
(* What the steps do to the names, the old files and the processors        *)

LEMMA OldSteps ==
  ASSUME Inv, Next
  PROVE  old' = old \/ Link \/ RemoveOldest
<1>1. CASE Restart \/ Finishing
  BY <1>1
  DEF Restart, Start, Resume, DropState, DropNewstate, DropPrevious, DropProcessed, Drop, FinishCurrent,
      EmptyState, CreateCurrent, Finishing, NoFile, AlreadyLinked, LinkFails, UnlinkFinished, Fits, disk
<1>2. CASE Rotation
  BY <1>2
  DEF Rotation, SyncCurrent, RenameCurrent, CreateCurrent, MarkPrevious, Fork, ProcessorFailed,
      ProcessorDone, MarkProcessed, SyncNewstate, UnlinkPrevious, RenameNewstate, disk
<1>3. CASE Processors
  BY <1>3 DEF Processors, Opens, CannotOpen, Outputs, Succeeds, Fails, Processing
<1>. QED
  BY <1>1, <1>2, <1>3
  DEF Next, Multilog, Environment, Writing, WriteFull, Write, Flushed, Quitting, QuitSync, Quit, Put, Flush,
      ForceRotate, EndOfInput, Kill, Outage, Died, disk

Dropping == DropState \/ DropNewstate \/ DropPrevious \/ DropProcessed \/ UnlinkFinished \/ UnlinkPrevious
Creating == CreateCurrent("create", "idle") \/ CreateCurrent("recreate", "mode")

LEMMA DirSteps ==
  ASSUME Inv, Next
  PROVE  \/ dir' = dir
         \/ Dropping /\ \E n \in Names : Unlink(n)
         \/ EmptyState \/ Creating \/ RenameCurrent \/ RenameNewstate
         \/ \E k \in DOMAIN proc : Opens(k)
<1>1. CASE Restart \/ Finishing
  <2>1. fin.file \in Names
    BY DEF Inv, TypeOK
  <2>. QED
    BY <1>1, <2>1
    DEF Restart, Start, Resume, DropState, DropNewstate, DropPrevious, DropProcessed, Drop, FinishCurrent,
        Finishing, NoFile, AlreadyLinked, Link, LinkFails, UnlinkFinished, RemoveOldest, Fits, disk,
        Dropping, Creating, Names
<1>2. CASE Rotation
  BY <1>2
  DEF Rotation, SyncCurrent, MarkPrevious, Fork, ProcessorFailed,
      ProcessorDone, MarkProcessed, SyncNewstate, UnlinkPrevious, disk, Dropping, Creating, Names
<1>3. CASE Processors
  BY <1>3 DEF Processors, CannotOpen, Outputs, Succeeds, Fails, Processing
<1>. QED
  BY <1>1, <1>2, <1>3
  DEF Next, Multilog, Environment, Writing, WriteFull, Write, Flushed, Quitting, QuitSync, Quit, Put, Flush,
      ForceRotate, EndOfInput, Kill, Outage, Died, disk

LEMMA ProcSteps ==
  ASSUME Inv, Next
  PROVE  \/ proc' = proc
         \/ Reaped /\ (ProcessorFailed \/ ProcessorDone \/ Kill)
         \/ Fork \/ Outage
         \/ \E k \in DOMAIN proc : Opens(k) \/ CannotOpen(k) \/ Succeeds(k) \/ Fails(k)
<1>1. CASE Restart \/ Finishing
  BY <1>1
  DEF Restart, Start, Resume, DropState, DropNewstate, DropPrevious, DropProcessed, Drop, FinishCurrent,
      EmptyState, CreateCurrent, Finishing, NoFile, AlreadyLinked, Link, LinkFails, UnlinkFinished,
      RemoveOldest, Fits
<1>2. CASE Rotation
  BY <1>2
  DEF Rotation, SyncCurrent, RenameCurrent, CreateCurrent, MarkPrevious, ProcessorFailed,
      ProcessorDone, MarkProcessed, SyncNewstate, UnlinkPrevious, RenameNewstate
<1>3. CASE Processors
  BY <1>3 DEF Processors, Outputs
<1>. QED
  BY <1>1, <1>2, <1>3
  DEF Next, Multilog, Environment, Writing, WriteFull, Write, Flushed, Quitting, QuitSync, Quit, Put, Flush,
      ForceRotate, EndOfInput, Kill

(* What opening its files gives a processor: the file of that name, or a   *)
(* new one                                                                 *)
Gets(n, i) == i \in Inodes /\ (Missing(n) => ~Linked(i) /\ ~IsOpen(i)) /\ (~Missing(n) => i = dir[n])
LEMMA OpensDoes ==
  ASSUME Inv, NEW k \in DOMAIN proc, Opens(k)
  PROVE  \E out, ns \in Inodes :
           /\ Gets("processed", out) /\ Gets("newstate", ns) /\ out # ns
           /\ ~Missing("previous")
           /\ dir' = [dir EXCEPT !["processed"] = out, !["newstate"] = ns]
           /\ \A i \in Inodes : ino'[i] = IF i \in {out, ns} THEN [Blank EXCEPT !.exec = ino[i].exec] ELSE ino[i]
           /\ Becomes(k, [phase |-> "running", in |-> dir["previous"], out |-> out, ns |-> ns,
                          given |-> ino[dir["state"]].data])
<1>. DEFINE out == Emptied("processed", NewInode)
            ns == Emptied("newstate", FreeBut(out))
<1>. USE DEF Inv, Shape
<1>1. /\ NewInode \in Inodes /\ ~Linked(NewInode) /\ ~IsOpen(NewInode)
      /\ FreeBut(NewInode) \in Inodes /\ FreeBut(NewInode) # NewInode
      /\ ~Linked(FreeBut(NewInode)) /\ ~IsOpen(FreeBut(NewInode))
      /\ \A i \in Inodes : Linked(i) => FreeBut(i) \in Inodes /\ ~Linked(FreeBut(i)) /\ ~IsOpen(FreeBut(i))
  BY NewFile DEF Opens
<1>2. \A n \in Names : ~Missing(n) => dir[n] \in Inodes /\ Linked(dir[n])
  BY DirType DEF Missing, Linked
<1>3. Gets("processed", out)
  BY <1>1, <1>2 DEF Emptied, Gets, Missing, Names
<1>4. Gets("newstate", ns) /\ out # ns
  <2>1. CASE ~Missing("newstate")
    <3>1. ns = dir["newstate"]
      BY <2>1 DEF Emptied, Missing
    <3>2. out # ns
      BY <1>1, <1>2, <2>1, <3>1 DEF Emptied, Missing, OneName, Names
    <3>. QED BY <1>2, <2>1, <3>1, <3>2 DEF Gets, Names
  <2>2. CASE Missing("newstate")
    <3>1. ns = FreeBut(out)
      BY <2>2 DEF Emptied, Missing
    <3>2. CASE Missing("processed")
      <4>1. out = NewInode
        BY <3>2 DEF Emptied, Missing
      <4>. QED BY <1>1, <2>2, <3>1, <4>1 DEF Gets
    <3>3. CASE ~Missing("processed")
      <4>1. out \in Inodes /\ Linked(out)
        BY <1>2, <3>3 DEF Emptied, Missing, Names
      <4>. QED BY <1>1, <2>2, <3>1, <4>1 DEF Gets
    <3>. QED BY <3>2, <3>3
  <2>. QED BY <2>1, <2>2
<1>. QED BY <1>3, <1>4 DEF Opens, Openable, Missing, Gets

(* The old files after link() and after filesfit() has removed one         *)
LEMMA OldLinked ==
  ASSUME Inv, Link
  PROVE  /\ ~Missing(fin.file) /\ ~IsOld(dir[fin.file])
         /\ Len(old') = Len(old) + 1 /\ DOMAIN old' = 1..Len(old) + 1
         /\ old'[Len(old) + 1] = [ino |-> dir[fin.file], code |-> fin.code]
         /\ \A k \in DOMAIN old : old'[k] = old[k]
         /\ \A i : IsOld(i)' <=> IsOld(i) \/ i = dir[fin.file]
<1>1. ~Missing(fin.file) /\ fin.file \in Names /\ fin.code \in Codes /\ dir[fin.file] \in Inodes
  BY DirType DEF Link, Missing, Inv, TypeOK
<1>2. ~IsOld(dir[fin.file])
  BY <1>1, LinksName DEF Link, Inv, Shape
<1>. DEFINE e == [ino |-> dir[fin.file], code |-> fin.code]
<1>3. e \in [ino : Inodes, code : Codes] /\ old \in Seq([ino : Inodes, code : Codes]) /\ old' = Append(old, e)
  BY <1>1 DEF Link, Inv, TypeOK
<1>4. Len(old) \in Nat /\ DOMAIN old = 1..Len(old)
  BY <1>3, LenProperties
<1>5. /\ Len(old') = Len(old) + 1 /\ old' \in Seq([ino : Inodes, code : Codes])
      /\ \A k \in 1..Len(old) : old'[k] = old[k] /\ old'[Len(old) + 1] = e
      /\ old'[Len(old) + 1] = e
  BY <1>3
<1>6. DOMAIN old' = 1..Len(old) + 1
  BY <1>4, <1>5, LenProperties
<1>7. \A k \in DOMAIN old' : k \in DOMAIN old \/ k = Len(old) + 1
  BY <1>4, <1>6
<1>8. Len(old) + 1 \in DOMAIN old' /\ \A k \in DOMAIN old : k \in DOMAIN old'
  BY <1>4, <1>6
<1>9. e.ino = dir[fin.file]
  OBVIOUS
<1>. HIDE DEF e
<1>10. \A i : IsOld(i)' <=> IsOld(i) \/ i = dir[fin.file]
  BY <1>4, <1>5, <1>7, <1>8, <1>9 DEF IsOld
<1>. QED BY <1>1, <1>2, <1>4, <1>5, <1>6, <1>10 DEF e

LEMMA OldRemoved ==
  ASSUME Inv, RemoveOldest
  PROVE  /\ 1 \in DOMAIN old /\ Head(old) = old[1] /\ pc = "f_fit"
         /\ Len(old') = Len(old) - 1 /\ DOMAIN old' = 1..Len(old) - 1
         /\ \A k \in DOMAIN old' : k + 1 \in DOMAIN old /\ old'[k] = old[k + 1]
         /\ \A i : IsOld(i)' <=> IsOld(i) /\ i # old[1].ino
         /\ ino' = IF (\A n \in Names : dir[n] # old[1].ino) /\ ~IsOpen(old[1].ino)
                   THEN [ino EXCEPT ![old[1].ino] = Blank] ELSE ino
<1>1. old \in Seq([ino : Inodes, code : Codes]) /\ Len(old) \in Nat /\ DOMAIN old = 1..Len(old)
  BY LenProperties DEF Inv, TypeOK
<1>2. Len(old) > 0 /\ 1 \in DOMAIN old
  BY <1>1, CyclogAssumption DEF RemoveOldest, TooMany
<1>3. Head(old) = old[1] /\ old' = Tail(old) /\ pc = "f_fit"
  BY <1>2 DEF RemoveOldest
<1>4. old' \in Seq([ino : Inodes, code : Codes]) /\ Len(old') = Len(old) - 1
      /\ \A k \in 1..Len(old) - 1 : old'[k] = old[k + 1]
  BY <1>1, <1>2, <1>3
<1>5. DOMAIN old' = 1..Len(old) - 1
  BY <1>4, LenProperties
<1>6. \A k \in DOMAIN old' : k + 1 \in DOMAIN old /\ k + 1 # 1 /\ old'[k] = old[k + 1]
  BY <1>1, <1>4, <1>5
<1>7. \A k \in DOMAIN old : k = 1 \/ (k - 1 \in DOMAIN old' /\ old'[k - 1] = old[k])
  BY <1>1, <1>4, <1>5
<1>8. \A j, k \in DOMAIN old : old[j].ino = old[k].ino => j = k
  BY DEF Inv, Shape, OneOldName
<1>9. \A i : IsOld(i)' <=> IsOld(i) /\ i # old[1].ino
  BY <1>2, <1>6, <1>7, <1>8 DEF IsOld
<1>10. ino' = Unlinked(old[1].ino)
  BY <1>3 DEF RemoveOldest
<1>11. ino' = IF (\A n \in Names : dir[n] # old[1].ino) /\ ~IsOpen(old[1].ino)
              THEN [ino EXCEPT ![old[1].ino] = Blank] ELSE ino
  BY <1>2, <1>10, UnlinkedOld DEF Inv, Shape
<1>. QED BY <1>2, <1>3, <1>4, <1>5, <1>6, <1>9, <1>11

LEMMA OneNameStep ==
  ASSUME Inv, Next
  PROVE  OneName'
<1>. USE DEF Inv, Shape
<1>0. dir \in [Names -> Inodes \cup {NoInode}] /\ InodeOrNone
  BY InodeOrNone DEF TypeOK
<1>1. CASE dir' = dir
  BY <1>1 DEF OneName
<1>2. ASSUME NEW n \in Names, Unlink(n) PROVE OneName'
  BY <1>0, <1>2 DEF OneName, Unlink
<1>3. CASE EmptyState \/ Creating
  <2>1. NewInode \in Inodes /\ \A n \in Names : dir[n] # NewInode
    BY <1>3, NewFile DEF EmptyState, Creating, CreateCurrent, Linked
  <2>2. dir' = [dir EXCEPT !["state"] = NewInode] \/ dir' = [dir EXCEPT !["current"] = NewInode]
    BY <1>3 DEF EmptyState, Creating, CreateCurrent
  <2>. QED BY <1>0, <2>1, <2>2 DEF OneName, Names
<1>4. CASE RenameCurrent
  BY <1>0, <1>4 DEF OneName, RenameCurrent, Names
<1>5. CASE RenameNewstate
  BY <1>0, <1>5 DEF OneName, RenameNewstate, Names
<1>6. ASSUME NEW k \in DOMAIN proc, Opens(k) PROVE OneName'
  <2>1. PICK out, ns \in Inodes :
          /\ Gets("processed", out) /\ Gets("newstate", ns) /\ out # ns
          /\ dir' = [dir EXCEPT !["processed"] = out, !["newstate"] = ns]
    BY <1>6, OpensDoes
  <2>2. \A n \in Names : (dir[n] = out => n = "processed") /\ (dir[n] = ns => n = "newstate")
    BY <2>1, <1>0 DEF Gets, Linked, OneName, Missing, Names
  <2>. QED BY <1>0, <2>1, <2>2 DEF OneName, Names
<1>. QED BY <1>1, <1>2, <1>3, <1>4, <1>5, <1>6, DirSteps

LEMMA OneOldNameStep ==
  ASSUME Inv, Next
  PROVE  OneOldName'
<1>. USE DEF Inv, Shape
<1>1. CASE old' = old
  BY <1>1 DEF OneOldName
<1>2. CASE Link
  <2>1. \A k \in DOMAIN old' : \/ k \in DOMAIN old /\ old'[k] = old[k]
                               \/ k = Len(old) + 1 /\ old'[k].ino = dir[fin.file]
    BY <1>2, OldLinked, OldType
  <2>. QED BY <1>2, <2>1, OldLinked DEF OneOldName, IsOld
<1>3. CASE RemoveOldest
  <2>1. \A k \in DOMAIN old' : k \in Nat /\ k + 1 \in DOMAIN old /\ old'[k] = old[k + 1]
    BY <1>3, OldRemoved, OldType
  <2>. QED BY <1>3, <2>1 DEF OneOldName
<1>. QED BY <1>1, <1>2, <1>3, OldSteps

-----------------------------------------------------------------------------
(* Free inodes *)

HeldOpen(i) == \E k \in DOMAIN proc : i \in Held(proc[k])

LEMMA FdLinked ==
  ASSUME Inv, fd # NoInode
  PROVE  HasFd /\ fd \in Inodes /\ fd = dir["current"]
  BY DEF Inv, Files, Descriptor

(* Who opens and closes files, multilog's descriptor aside                 *)
LEMMA HeldBecomes ==
  ASSUME Inv, NEW k \in DOMAIN proc, NEW p, Held(p) = {NoInode}, Becomes(k, p)
  PROVE  /\ DOMAIN proc' = DOMAIN proc
         /\ Held(proc'[k]) = {NoInode}
         /\ \A j \in DOMAIN proc : j # k => proc'[j] = proc[j]
<1>1. DOMAIN proc' = DOMAIN proc /\ \A j \in DOMAIN proc : j # k => proc'[j] = proc[j]
  BY DEF Becomes
<1>2. proc'[k] = p \/ proc'[k] = NoProcessor
  BY DEF Becomes
<1>. QED BY <1>1, <1>2, NoProcessorType

LEMMA HeldIdle ==
  ASSUME Inv, NEW k \in DOMAIN proc, proc[k].phase # "running"
  PROVE  Held(proc[k]) = {NoInode}
  BY DEF Inv, Procs, Phases

LEMMA CrashesIsProcess == Inv => crashes \in DOMAIN proc /\ DOMAIN proc = 0..MaxCrashes
  BY DEF Inv, TypeOK

LEMMA HeldSteps ==
  ASSUME Inv, Next, NEW i \in Inodes
  PROVE  \/ HeldOpen(i)' <=> HeldOpen(i)
         \/ \E k \in DOMAIN proc : Opens(k) \/ Succeeds(k) \/ Fails(k)
         \/ Outage
<1>0. i # NoInode /\ crashes \in DOMAIN proc
  BY InodeOrNone, CrashesIsProcess
<1>3. \A ph : Held([NoProcessor EXCEPT !.phase = ph]) = {NoInode}
  BY DEF NoProcessor, Held
<1>1. ASSUME NEW k \in DOMAIN proc, DOMAIN proc' = DOMAIN proc, Held(proc[k]) = {NoInode},
             Held(proc'[k]) = {NoInode}, \A j \in DOMAIN proc : j # k => proc'[j] = proc[j]
      PROVE  HeldOpen(i)' <=> HeldOpen(i)
  <2>1. i \notin Held(proc[k]) /\ i \notin Held(proc'[k])
    BY <1>0, <1>1
  <2>. QED BY <1>1, <2>1 DEF HeldOpen, Held
<1>2. CASE Reaped /\ (ProcessorFailed \/ ProcessorDone \/ Kill)
  <2>1. CASE proc[crashes].phase = "running"
    <3>1. Kill
      BY <1>2, <2>1 DEF ProcessorFailed, ProcessorDone
    <3>2. proc' = proc
      BY <3>1, <2>1 DEF Kill
    <3>. QED BY <3>2 DEF HeldOpen
  <2>2. CASE proc[crashes].phase # "running"
    <3>1. Held(proc[crashes]) = {NoInode}
      BY <1>0, <2>2, HeldIdle
    <3>2. /\ DOMAIN proc' = DOMAIN proc /\ proc'[crashes] = NoProcessor
          /\ \A j \in DOMAIN proc : j # crashes => proc'[j] = proc[j]
      BY <1>0, <1>2 DEF Reaped
    <3>. QED BY <1>0, <1>1, <3>1, <3>2, NoProcessorType
  <2>. QED BY <2>1, <2>2
<1>4. CASE Fork
  <2>1. Held(proc[crashes]) = {NoInode}
    <3>1. proc[crashes].phase # "running"
      BY <1>0, <1>4 DEF Fork, At, Inv, Procs, Phases, TypeOK
    <3>. QED BY <1>0, <3>1, HeldIdle
  <2>2. /\ DOMAIN proc' = DOMAIN proc /\ proc'[crashes] = [NoProcessor EXCEPT !.phase = "opening"]
        /\ \A j \in DOMAIN proc : j # crashes => proc'[j] = proc[j]
    BY <1>0, <1>4 DEF Fork
  <2>. QED BY <1>0, <1>1, <1>3, <2>1, <2>2
<1>5. ASSUME NEW k \in DOMAIN proc, CannotOpen(k) PROVE HeldOpen(i)' <=> HeldOpen(i)
  <2>1. Held(proc[k]) = {NoInode}
    BY <1>5, HeldIdle DEF CannotOpen
  <2>2. /\ DOMAIN proc' = DOMAIN proc /\ Held(proc'[k]) = {NoInode}
        /\ \A j \in DOMAIN proc : j # k => proc'[j] = proc[j]
    BY <1>3, <1>5, HeldBecomes DEF CannotOpen
  <2>. QED BY <1>1, <2>1, <2>2
<1>6. CASE proc' = proc
  BY <1>6 DEF HeldOpen
<1>. QED BY <1>2, <1>4, <1>5, <1>6, ProcSteps

(* A file that a step changes has a name or is open.                       *)
LEMMA InoTouched ==
  ASSUME Inv, Next, NEW i \in Inodes
  PROVE  ino'[i] = ino[i] \/ ino'[i] = Blank \/ Linked(i)' \/ HeldOpen(i)'
<1>. DEFINE Ok == ino'[i] = ino[i] \/ ino'[i] = Blank \/ Linked(i)' \/ HeldOpen(i)'
<1>0. ino \in [Inodes -> File] /\ fin.file \in Names
  BY DEF Inv, TypeOK
<1>1. ASSUME NEW j, ino' = Unlinked(j) PROVE Ok
  BY <1>0, <1>1 DEF Unlinked
<1>2. ASSUME NEW j, ino' = [ino EXCEPT ![j] = Blank] PROVE Ok
  BY <1>0, <1>2
<1>3. ASSUME NEW n \in Names, dir' = dir, \A j \in Inodes : j # dir[n] => ino'[j] = ino[j] PROVE Ok
  BY <1>3 DEF Linked
<1>4. CASE ino' = ino
  BY <1>4
<1>5. \A j : Sync(j) => \A l \in Inodes : l # j => ino'[l] = ino[l]
  BY <1>0 DEF Sync
<1>6. CASE Restart
  <2>1. CASE Resume
    BY <1>0, <1>3, <2>1 DEF Resume, Names
  <2>. QED
    BY <1>1, <1>2, <1>4, <1>6, <2>1
    DEF Restart, Start, DropState, DropNewstate, DropPrevious, DropProcessed, Drop, Unlink,
        FinishCurrent, EmptyState, CreateCurrent, disk
<1>7. CASE Finishing
  BY <1>1, <1>4, <1>7
  DEF Finishing, NoFile, AlreadyLinked, Link, LinkFails, UnlinkFinished, RemoveOldest, Fits, Unlink, disk
<1>8. CASE Rotation
  <2>1. CASE SyncCurrent
    <3>1. fd = dir["current"]
      BY <2>1 DEF SyncCurrent, At, Inv, Files, Descriptor, HasFd
    <3>. QED BY <1>3, <1>5, <2>1, <3>1 DEF SyncCurrent, Names
  <2>2. CASE ProcessorDone \/ SyncNewstate
    BY <1>3, <1>5, <2>2 DEF ProcessorDone, SyncNewstate, Names
  <2>3. CASE MarkPrevious \/ MarkProcessed
    <3>1. \/ dir' = dir /\ \A j \in Inodes : j # dir["previous"] => ino'[j] = ino[j]
          \/ dir' = dir /\ \A j \in Inodes : j # dir["processed"] => ino'[j] = ino[j]
      BY <1>0, <2>3 DEF MarkPrevious, MarkProcessed
    <3>. QED BY <1>3, <3>1 DEF Names
  <2>. QED
    BY <1>1, <1>2, <1>4, <1>8, <2>1, <2>2, <2>3
    DEF Rotation, RenameCurrent, CreateCurrent, Fork, ProcessorFailed, UnlinkPrevious, RenameNewstate,
        Unlink, disk
<1>9. ASSUME NEW k \in DOMAIN proc, Opens(k) PROVE Ok
  <2>1. PICK out, ns \in Inodes :
          /\ dir' = [dir EXCEPT !["processed"] = out, !["newstate"] = ns]
          /\ \A j \in Inodes : ino'[j] = IF j \in {out, ns} THEN [Blank EXCEPT !.exec = ino[j].exec] ELSE ino[j]
    BY <1>9, OpensDoes, ZenonT(30)
  <2>. QED BY <2>1, DirType DEF Linked, Names, Inv, TypeOK
<1>10. ASSUME NEW k \in DOMAIN proc, Outputs(k) PROVE Ok
  <2>1. CASE i = proc[k].out \/ i = proc[k].ns
    BY <1>10, <2>1 DEF Outputs, HeldOpen, Held
  <2>. QED BY <1>10, <2>1, OutputsDoes
<1>11. ASSUME NEW k \in DOMAIN proc, Closed(k) PROVE Ok
  BY <1>0, <1>11 DEF Closed
<1>12. CASE Writing \/ Quitting
  <2>1. CASE Write
    <3>1. fd = dir["current"] /\ dir' = dir
      BY <2>1 DEF Write, Inv, Files, Descriptor, HasFd
    <3>. QED BY <1>3, <2>1, <3>1, WriteDoes, WriteAppends DEF Names
  <2>2. CASE QuitSync
    <3>1. fd = dir["current"]
      BY <2>2 DEF QuitSync, At, Inv, Files, Descriptor, HasFd
    <3>. QED BY <1>3, <1>5, <2>2, <3>1 DEF QuitSync, Names
  <2>3. CASE Quit
    <3>1. fd = dir["current"]
      BY <2>3 DEF Quit, At, Inv, Files, Descriptor, HasFd
    <3>. QED BY <1>0, <1>3, <2>3, <3>1 DEF Quit, Names
  <2>. QED BY <1>4, <1>12, <2>1, <2>2, <2>3 DEF Writing, WriteFull, Flushed, Quitting, disk
<1>13. CASE Outage
  <2>1. Links(i) = 0 => ino'[i] = Blank
    BY <1>13 DEF Outage
  <2>2. Linked(i) => Linked(i)'
    BY <1>13 DEF Outage, Died, Linked, IsOld
  <2>. QED BY <2>1, <2>2, LinksNone DEF Inv
<1>. QED
  BY <1>4, <1>6, <1>7, <1>8, <1>9, <1>10, <1>11, <1>12, <1>13
  DEF Next, Multilog, Processors, CannotOpen, Succeeds, Fails, Environment, Put, Flush, ForceRotate, EndOfInput, Kill, disk

(* A file that loses its last name and that nobody has open becomes free.  *)
LEMMA Loses ==
  ASSUME Inv, Next, NEW i \in Inodes, Linked(i) \/ HeldOpen(i), ~Linked(i)', ~HeldOpen(i)'
  PROVE  ino'[i] = Blank
<1>. USE DEF Inv, Shape
<1>0. /\ ino \in [Inodes -> File] /\ fin.file \in Names /\ i # NoInode
      /\ dir \in [Names -> Inodes \cup {NoInode}]
  BY InodeOrNone DEF TypeOK
<1>1. ASSUME NEW n \in Names, Unlink(n), Dropping PROVE ino'[i] = Blank
  <2>1. old' = old /\ proc' = proc /\ fd' = fd
    BY <1>1 DEF Dropping, DropState, DropNewstate, DropPrevious, DropProcessed, Drop, UnlinkFinished,
                UnlinkPrevious, d
  <2>2. HeldOpen(i)' <=> HeldOpen(i)
    BY <2>1 DEF HeldOpen
  <2>3. ~IsOld(i)
    BY <2>1 DEF Linked, IsOld
  <2>4. i = dir[n]
    BY <1>0, <1>1, <2>2, <2>3 DEF Linked, Unlink
  <2>5. i # fd
    <3>1. SUFFICES ASSUME i = fd PROVE FALSE
      OBVIOUS
    <3>2. fd = dir["current"] /\ HasFd
      BY <1>0, <3>1, FdLinked
    <3>3. n = "current"
      BY <1>0, <2>4, <3>1, <3>2 DEF OneName, Names
    <3>4. fin.file = "current" /\ UnlinkFinished
      <4>1. dir'["current"] = NoInode
        BY <1>0, <1>1, <3>3 DEF Unlink
      <4>2. dir'["current"] # dir["current"]
        BY <1>0, <3>1, <3>2, <4>1
      <4>. QED
        BY <1>0, <1>1, <4>2
        DEF Dropping, DropState, DropNewstate, DropPrevious, DropProcessed, Drop, UnlinkFinished,
            UnlinkPrevious, Unlink, Names
    <3>5. pc = "f_unlink" /\ fin.next = "flush"
      BY <3>2, <3>4 DEF UnlinkFinished, At, HasFd
    <3>. QED BY <3>4, <3>5 DEF Place, WhileFinishing, InFinish, Finishes
  <2>. QED
    BY <1>0, <1>1, <2>2, <2>3, <2>4, <2>5, UnlinkedName DEF Unlink, Missing, IsOpen, HeldOpen
<1>2. CASE RemoveOldest
  <2>1. dir' = dir /\ proc' = proc
    BY <1>2 DEF RemoveOldest
  <2>2. HeldOpen(i)' <=> HeldOpen(i)
    BY <2>1 DEF HeldOpen
  <2>3. (\A n \in Names : dir[n] # i) /\ IsOld(i) /\ ~IsOld(i)'
    BY <2>1, <2>2 DEF Linked, IsOld
  <2>4. i = old[1].ino
    BY <1>2, <2>3, OldRemoved
  <2>5. i # fd
    BY <1>0, <2>3, FdLinked DEF Names
  <2>6. ~IsOpen(i)
    BY <2>2, <2>5 DEF IsOpen, HeldOpen
  <2>. QED BY <1>0, <1>2, <2>3, <2>4, <2>6, OldRemoved
<1>3. CASE RenameNewstate
  <2>1. old' = old /\ proc' = proc
    BY <1>3 DEF RenameNewstate
  <2>2. ~IsOld(i) /\ ~HeldOpen(i)
    BY <2>1 DEF Linked, IsOld, HeldOpen
  <2>3. i = dir["state"]
    BY <1>0, <1>3, <2>2 DEF RenameNewstate, Linked, Names
  <2>4. i # fd
    BY <1>0, <2>3, FdLinked DEF Names, OneName
  <2>5. ~IsOpen(i)
    BY <2>2, <2>4 DEF IsOpen, HeldOpen
  <2>. QED BY <1>0, <1>3, <2>2, <2>3, <2>5, UnlinkedName DEF RenameNewstate, Missing, Names
<1>4. CASE EmptyState \/ Creating \/ RenameCurrent
  <2>1. old' = old /\ proc' = proc
    BY <1>4 DEF EmptyState, Creating, CreateCurrent, RenameCurrent
  <2>2. \E n \in Names : dir[n] = i
    BY <2>1 DEF Linked, IsOld, HeldOpen
  <2>3. CASE EmptyState
    <3>1. dir["state"] = NoInode
      BY <2>3 DEF EmptyState, At, Place, WhileRestarting, Missing
    <3>. QED BY <1>0, <2>2, <2>3, <3>1 DEF EmptyState, Linked, Names
  <2>4. CASE Creating
    <3>1. dir["current"] = NoInode
      BY <2>4 DEF Creating, CreateCurrent, At, Place, WhileRestarting, WhileRotating, Missing
    <3>. QED BY <1>0, <2>2, <2>4, <3>1 DEF Creating, CreateCurrent, Linked, Names
  <2>5. CASE RenameCurrent
    <3>1. dir["previous"] = NoInode
      BY <2>5 DEF RenameCurrent, At, Place, WhileWriting, NoLeftOvers, Missing
    <3>. QED BY <1>0, <2>2, <2>5, <3>1 DEF RenameCurrent, Linked, Names
  <2>. QED BY <1>4, <2>3, <2>4, <2>5
<1>5. ASSUME NEW k \in DOMAIN proc, Opens(k) PROVE FALSE
  <2>1. PICK out, ns \in Inodes :
          /\ Gets("processed", out) /\ Gets("newstate", ns)
          /\ dir' = [dir EXCEPT !["processed"] = out, !["newstate"] = ns] /\ \E p : Becomes(k, p)
    BY <1>5, OpensDoes
  <2>2. old' = old /\ Held(proc[k]) = {NoInode}
    BY <1>5, HeldIdle DEF Opens, Processing
  <2>3. Linked(i) => Linked(i)'
    BY <1>0, <2>1, <2>2 DEF Gets, Missing, Linked, IsOld, Names
  <2>4. \A j \in DOMAIN proc : j # k => proc'[j] = proc[j] /\ j \in DOMAIN proc'
    BY <2>1 DEF Becomes
  <2>5. HeldOpen(i) => HeldOpen(i)'
    BY <1>0, <2>2, <2>4 DEF HeldOpen, Held
  <2>. QED BY <2>3, <2>5
<1>6. CASE dir' = dir /\ old' = old
  <2>1. ~Linked(i) /\ HeldOpen(i)
    BY <1>6 DEF Linked, IsOld
  <2>2. Links(i) = 0
    BY <2>1, LinksNone
  <2>3. CASE Outage
    BY <2>2, <2>3 DEF Outage
  <2>4. ASSUME NEW k \in DOMAIN proc, Succeeds(k) \/ Fails(k) PROVE ino'[i] = Blank
    <3>1. PICK p : Becomes(k, p)
      BY <2>4 DEF Succeeds, Fails
    <3>2. \A j \in DOMAIN proc : j # k => proc'[j] = proc[j] /\ j \in DOMAIN proc'
      BY <3>1 DEF Becomes
    <3>3. i \in Held(proc[k])
      BY <2>1, <3>2 DEF HeldOpen, Held
    <3>. QED BY <2>2, <2>4, <3>3 DEF Succeeds, Fails, Closed
  <2>. QED BY <2>1, <2>3, <2>4, <1>5, HeldSteps
<1>7. CASE Link
  <2>1. dir' = dir /\ proc' = proc
    BY <1>7 DEF Link
  <2>2. HeldOpen(i)' <=> HeldOpen(i)
    BY <2>1 DEF HeldOpen
  <2>. QED BY <1>7, <2>1, <2>2, OldLinked DEF Linked
<1>. QED BY <1>1, <1>2, <1>3, <1>4, <1>5, <1>6, <1>7, DirSteps, OldSteps

(* An inode with no name that nobody has open holds nothing.               *)
LEMMA FreeBlankStep ==
  ASSUME Inv, Next
  PROVE  FreeBlank'
<1>. SUFFICES ASSUME NEW i \in Inodes, ~Linked(i)', ~IsOpen(i)' PROVE ino'[i] = Blank
  BY DEF FreeBlank
<1>1. ~HeldOpen(i)'
  BY DEF IsOpen, HeldOpen
<1>2. CASE Linked(i) \/ HeldOpen(i)
  BY <1>1, <1>2, Loses
<1>3. CASE ~Linked(i) /\ ~HeldOpen(i)
  <2>1. i # fd
    BY <1>3, FdLinked, InodeOrNone DEF Linked, Names
  <2>2. ino[i] = Blank
    BY <1>3, <2>1 DEF Inv, Shape, FreeBlank, IsOpen, HeldOpen
  <2>. QED BY <1>1, <2>2, InoTouched
<1>. QED BY <1>2, <1>3

-----------------------------------------------------------------------------
(* What the steps do to the file of a name                                 *)

LEMMA NameSteps ==
  ASSUME Inv, Next
  PROVE  /\ \/ dir'["current"] = dir["current"]
            \/ Creating \/ RenameCurrent \/ (UnlinkFinished /\ fin.file = "current")
         /\ \/ dir'["previous"] = dir["previous"]
            \/ DropPrevious \/ RenameCurrent \/ UnlinkPrevious \/ (UnlinkFinished /\ fin.file = "previous")
         /\ \/ dir'["processed"] = dir["processed"]
            \/ DropProcessed \/ (UnlinkFinished /\ fin.file = "processed") \/ \E k \in DOMAIN proc : Opens(k)
         /\ \/ dir'["newstate"] = dir["newstate"]
            \/ DropNewstate \/ RenameNewstate \/ \E k \in DOMAIN proc : Opens(k)
         /\ \/ dir'["state"] = dir["state"]
            \/ DropState \/ EmptyState \/ RenameNewstate
<1>0. dir \in [Names -> Inodes \cup {NoInode}] /\ (InFinish => fin.file \in {"current", "previous", "processed"})
  BY DEF Inv, TypeOK, Place, WhileFinishing, Finishes
<1>1. CASE dir' = dir
  BY <1>1
<1>2. ASSUME NEW n \in Names, NEW v, dir' = [dir EXCEPT ![n] = v]
      PROVE  \A m \in Names : m # n => dir'[m] = dir[m]
  BY <1>0, <1>2
<1>3. \A m \in Names : /\ DropState /\ m # "state" => dir'[m] = dir[m]
                       /\ DropNewstate /\ m # "newstate" => dir'[m] = dir[m]
                       /\ (DropPrevious \/ UnlinkPrevious) /\ m # "previous" => dir'[m] = dir[m]
                       /\ DropProcessed /\ m # "processed" => dir'[m] = dir[m]
                       /\ UnlinkFinished /\ m # fin.file => dir'[m] = dir[m]
                       /\ EmptyState /\ m # "state" => dir'[m] = dir[m]
                       /\ Creating /\ m # "current" => dir'[m] = dir[m]
  <2>1. /\ DropState => dir' = [dir EXCEPT !["state"] = NoInode]
        /\ DropNewstate => dir' = [dir EXCEPT !["newstate"] = NoInode]
        /\ DropPrevious \/ UnlinkPrevious => dir' = [dir EXCEPT !["previous"] = NoInode]
        /\ DropProcessed => dir' = [dir EXCEPT !["processed"] = NoInode]
        /\ UnlinkFinished => dir' = [dir EXCEPT ![fin.file] = NoInode]
        /\ EmptyState => dir' = [dir EXCEPT !["state"] = NewInode]
        /\ Creating => dir' = [dir EXCEPT !["current"] = fd']
    BY DEF DropState, DropNewstate, DropPrevious, DropProcessed, Drop, UnlinkFinished, UnlinkPrevious, Unlink,
           EmptyState, Creating, CreateCurrent
  <2>2. fin.file \in Names
    BY DEF Inv, TypeOK
  <2>. QED BY <1>2, <2>1, <2>2 DEF Names
<1>4. CASE RenameCurrent
  <2>1. dir'["processed"] = dir["processed"] /\ dir'["newstate"] = dir["newstate"] /\ dir'["state"] = dir["state"]
    BY <1>0, <1>4 DEF RenameCurrent, Names
  <2>. QED BY <1>4, <2>1
<1>5. CASE RenameNewstate
  <2>1. /\ dir'["current"] = dir["current"] /\ dir'["previous"] = dir["previous"]
        /\ dir'["processed"] = dir["processed"]
    BY <1>0, <1>5 DEF RenameNewstate, Names
  <2>. QED BY <1>5, <2>1
<1>6. ASSUME NEW k \in DOMAIN proc, Opens(k)
      PROVE  /\ dir'["current"] = dir["current"] /\ dir'["previous"] = dir["previous"]
             /\ dir'["state"] = dir["state"]
  BY <1>0, <1>6, OpensDoes DEF Names
<1>7. UnlinkFinished => fin.file \in {"current", "previous", "processed"}
  BY <1>0 DEF UnlinkFinished, At, InFinish
<1>8. {"current", "previous", "processed", "newstate", "state"} \subseteq Names
  BY DEF Names
<1>9. CASE Dropping \/ EmptyState \/ Creating
  BY <1>3, <1>7, <1>8, <1>9 DEF Dropping
<1>. QED BY <1>1, <1>4, <1>5, <1>6, <1>9, DirSteps

Touches(i) ==
  \/ (Resume \/ Write \/ SyncCurrent \/ QuitSync \/ Quit) /\ i = dir["current"]
  \/ MarkPrevious /\ i = dir["previous"]
  \/ (ProcessorDone \/ MarkProcessed) /\ i = dir["processed"]
  \/ SyncNewstate /\ i = dir["newstate"]
  \/ \E k \in DOMAIN proc : Opens(k) /\ i \in {dir["processed"], dir["newstate"]}
  \/ \E k \in DOMAIN proc : Outputs(k) /\ i \in {proc[k].out, proc[k].ns}
  \/ Outage /\ ino'[i] = Torn(i) /\ i \in Unsynced

(* A file that has a name stays as it is, but for these steps.             *)
LEMMA FileSteps ==
  ASSUME Inv, Next, NEW i \in Inodes, Linked(i)
  PROVE  ino'[i] = ino[i] \/ ~Linked(i)' \/ Touches(i)
<1>. DEFINE Ok == ino'[i] = ino[i] \/ ~Linked(i)' \/ Touches(i)
<1>. USE DEF Inv, Shape
<1>0. /\ ino \in [Inodes -> File] /\ fin.file \in Names /\ i # NoInode
      /\ dir \in [Names -> Inodes \cup {NoInode}]
  BY InodeOrNone DEF TypeOK
<1>1. ASSUME NEW n \in Names, Unlink(n), Dropping PROVE Ok
  <2>1. old' = old
    BY <1>1 DEF Dropping, DropState, DropNewstate, DropPrevious, DropProcessed, Drop, UnlinkFinished,
                UnlinkPrevious
  <2>2. CASE i = dir[n] /\ ~IsOld(i)
    <3>1. ~Linked(i)'
      BY <1>0, <1>1, <2>1, <2>2 DEF Linked, IsOld, Unlink, OneName
    <3>. QED BY <3>1
  <2>3. CASE i # dir[n] \/ IsOld(i)
    BY <1>0, <1>1, <2>3, UnlinkedName DEF Unlink
  <2>. QED BY <2>2, <2>3
<1>2. CASE EmptyState \/ Creating
  <2>1. NewInode # i
    BY <1>2, NewFile DEF EmptyState, Creating, CreateCurrent
  <2>. QED BY <1>0, <1>2, <2>1 DEF EmptyState, Creating, CreateCurrent
<1>3. CASE RemoveOldest
  <2>1. CASE i = old[1].ino /\ \A n \in Names : dir[n] # old[1].ino
    <3>1. ~Linked(i)'
      BY <1>3, <2>1, OldRemoved DEF Linked, RemoveOldest
    <3>. QED BY <3>1
  <2>. QED BY <1>0, <1>3, <2>1, OldRemoved
<1>4. CASE RenameCurrent
  <2>1. Missing("previous")
    BY <1>4 DEF RenameCurrent, At, Place, WhileWriting, NoLeftOvers
  <2>. QED BY <1>4, <2>1 DEF RenameCurrent, Unlinked, Missing
<1>5. CASE RenameNewstate
  <2>1. old' = old
    BY <1>5 DEF RenameNewstate
  <2>2. CASE i = dir["state"] /\ ~IsOld(i)
    <3>1. ~Linked(i)'
      BY <1>0, <1>5, <2>1, <2>2 DEF Linked, IsOld, RenameNewstate, OneName, Names
    <3>. QED BY <3>1
  <2>3. CASE i # dir["state"] \/ IsOld(i)
    BY <1>0, <1>5, <2>3, UnlinkedName DEF RenameNewstate, Names
  <2>. QED BY <2>2, <2>3
<1>6. CASE ino' = ino
  BY <1>6
<1>7. CASE Resume \/ Quit
  <2>1. CASE Quit
    <3>1. fd = dir["current"]
      BY <2>1 DEF Quit, At, Files, Descriptor, HasFd
    <3>. QED BY <1>0, <2>1, <3>1 DEF Quit, Touches
  <2>. QED BY <1>0, <1>7, <2>1 DEF Resume, Touches
<1>8. CASE SyncCurrent \/ QuitSync
  <2>1. fd = dir["current"]
    BY <1>8 DEF SyncCurrent, QuitSync, At, Files, Descriptor, HasFd
  <2>. QED BY <1>0, <1>8, <2>1 DEF SyncCurrent, QuitSync, Sync, Touches
<1>9. CASE ProcessorDone \/ SyncNewstate
  BY <1>0, <1>9 DEF ProcessorDone, SyncNewstate, Sync, Touches
<1>10. CASE MarkPrevious \/ MarkProcessed
  <2>1. (MarkPrevious /\ i # dir["previous"] => ino'[i] = ino[i])
        /\ (MarkProcessed /\ i # dir["processed"] => ino'[i] = ino[i])
    BY <1>0 DEF MarkPrevious, MarkProcessed
  <2>. QED BY <1>10, <2>1 DEF Touches
<1>11. CASE Write
  <2>1. fd = dir["current"]
    BY <1>11 DEF Write, Files, Descriptor, HasFd
  <2>. QED BY <1>11, <2>1, WriteDoes, WriteAppends DEF Touches
<1>12. ASSUME NEW k \in DOMAIN proc, Opens(k) PROVE Ok
  <2>1. PICK out, ns \in Inodes :
          /\ Gets("processed", out) /\ Gets("newstate", ns)
          /\ \A j \in Inodes : ino'[j] = IF j \in {out, ns} THEN [Blank EXCEPT !.exec = ino[j].exec] ELSE ino[j]
    BY <1>12, OpensDoes, ZenonT(30)
  <2>2. i \in {out, ns} => i \in {dir["processed"], dir["newstate"]}
    BY <2>1 DEF Gets
  <2>. QED BY <1>12, <2>1, <2>2 DEF Touches
<1>13. ASSUME NEW k \in DOMAIN proc, Outputs(k) PROVE Ok
  BY <1>13, OutputsDoes DEF Touches
<1>14. ASSUME NEW k \in DOMAIN proc, Closed(k) PROVE Ok
  BY <1>14, LinksNone DEF Closed
<1>15. CASE Outage
  <2>1. PICK torn \in SUBSET Unsynced :
          ino' = [j \in Inodes |-> IF Links(j) = 0 THEN Blank ELSE IF j \in torn THEN Torn(j) ELSE ino[j]]
    BY <1>15 DEF Outage
  <2>2. ino'[i] = IF i \in torn THEN Torn(i) ELSE ino[i]
    BY <2>1, LinksNone
  <2>. QED BY <1>15, <2>1, <2>2 DEF Touches
<1>16. CASE Restart \/ Finishing
  BY <1>0, <1>1, <1>2, <1>3, <1>6, <1>7, <1>16
  DEF Restart, Start, DropState, DropNewstate, DropPrevious, DropProcessed, Drop, FinishCurrent, Dropping,
      Creating, Finishing, NoFile, AlreadyLinked, Link, LinkFails, UnlinkFinished, Fits, disk, Names
<1>17. CASE Rotation
  BY <1>1, <1>2, <1>4, <1>5, <1>6, <1>8, <1>9, <1>10, <1>17
  DEF Rotation, Fork, ProcessorFailed, UnlinkPrevious, Dropping, Creating, disk, Names
<1>. QED
  BY <1>6, <1>7, <1>8, <1>11, <1>12, <1>13, <1>14, <1>15, <1>16, <1>17
  DEF Next, Multilog, Processors, CannotOpen, Succeeds, Fails, Writing, WriteFull, Flushed, Quitting,
      Environment, Put, Flush, ForceRotate, EndOfInput, Kill, disk

-----------------------------------------------------------------------------
(* Files with a name and an old name                                       *)

Both(n) == ~Missing(n) /\ IsOld(dir[n])
BothAt(n) == \/ pc \in {"stopped", "open", "r_newstate", "r_previous", "r_processed", "r_current"}
             \/ pc \in {"f_stat", "f_unlink"} /\ n = fin.file
             \/ InFinish /\ fin.next = "r_current" /\ n = "current"

LEMMA BothSteps ==
  ASSUME Inv, Next, NEW n \in Names, Both(n)'
  PROVE  (Both(n) /\ dir'[n] = dir[n]) \/ (Link /\ n = fin.file)
<1>. USE DEF Inv, Shape
<1>0. dir \in [Names -> Inodes \cup {NoInode}] /\ NoInode \notin Inodes
  BY InodeOrNone DEF TypeOK
<1>1. CASE Link
  <2>1. dir' = dir /\ (IsOld(dir[n])' <=> IsOld(dir[n]) \/ dir[n] = dir[fin.file]) /\ ~Missing(fin.file)
        /\ fin.file \in Names
    BY <1>1, OldLinked DEF Link, IsOld, TypeOK
  <2>. QED BY <1>1, <2>1 DEF Both, OneName, Missing
<1>2. ~Link => \A i : IsOld(i)' => IsOld(i)
  BY OldSteps, OldRemoved DEF IsOld
<1>3. CASE ~Link /\ dir'[n] = dir[n]
  BY <1>2, <1>3 DEF Both, Missing
<1>4. CASE ~Link /\ dir'[n] # dir[n]
  <2>1. IsOld(dir'[n]) /\ dir'[n] # NoInode
    BY <1>2, <1>4 DEF Both, Missing, IsOld
  <2>2. ~Dropping
    <3>1. ASSUME NEW m \in Names, Unlink(m) PROVE FALSE
      BY <1>0, <1>4, <2>1, <3>1 DEF Unlink
    <3>2. SUFFICES ASSUME Dropping PROVE FALSE
      OBVIOUS
    <3>3. fin.file \in Names
      BY DEF TypeOK
    <3>. QED
      BY <3>1, <3>2, <3>3 DEF Dropping, DropState, DropNewstate, DropPrevious, DropProcessed, Drop,
                              UnlinkFinished, UnlinkPrevious, Names
  <2>3. ~EmptyState /\ ~Creating
    BY <1>0, <1>4, <2>1, NewFile DEF EmptyState, Creating, CreateCurrent, Linked, Names
  <2>4. ~RenameCurrent
    <3>1. RenameCurrent => n = "previous" /\ dir'[n] = dir["current"] /\ pc = "rename"
      BY <1>0, <1>4, <2>1 DEF RenameCurrent, At, Names
    <3>. QED BY <2>1, <3>1 DEF BothNames, Missing, Names, InFinish
  <2>5. ~RenameNewstate
    <3>1. RenameNewstate => dir'[n] = dir["newstate"]
      BY <1>0, <1>4, <2>1 DEF RenameNewstate, Names
    <3>. QED BY <2>1, <3>1 DEF BothNames, Missing, Names
  <2>6. ASSUME NEW k \in DOMAIN proc, Opens(k) PROVE FALSE
    <3>1. PICK out, ns \in Inodes :
            /\ Gets("processed", out) /\ Gets("newstate", ns)
            /\ dir' = [dir EXCEPT !["processed"] = out, !["newstate"] = ns]
      BY <2>6, OpensDoes
    <3>. QED BY <1>0, <1>4, <2>1, <3>1 DEF Gets, Linked, Missing, Names
  <2>. QED BY <1>4, <2>2, <2>3, <2>4, <2>5, <2>6, DirSteps
<1>. QED BY <1>1, <1>3, <1>4

LEMMA BothPlace ==
  ASSUME Inv, Next, NEW n \in Names, Both(n), Both(n)', dir'[n] = dir[n]
  PROVE  BothAt(n)'
<1>1. BothAt(n) /\ n \in {"current", "previous", "processed"}
  BY DEF Inv, Shape, BothNames, Both, BothAt
<1>2. dir \in [Names -> Inodes \cup {NoInode}] /\ fin \in [file : Names, code : Codes, next : Places]
  BY DEF Inv, TypeOK
<1>3. CASE Resume
  <2>1. IsExec("current") /\ NoLeftOvers
    BY <1>3 DEF Resume, Inv, Kept, ExecMeansSafe, NoLeftOvers, Missing
  <2>. QED BY <1>1, <2>1 DEF Inv, Kept, ExecIsNew, NoLeftOvers, Missing, Both
<1>4. CASE Restart
  <2>1. CASE DropPrevious \/ DropProcessed \/ FinishCurrent
    <3>1. pc = "r_current" => n = "current"
      BY <1>1 DEF Inv, Place, WhileRestarting, NoLeftOvers, Both
    <3>2. ~Missing(n)'
      BY DEF Both
    <3>. QED
      BY <1>1, <1>2, <2>1, <3>1, <3>2 DEF DropPrevious, DropProcessed, FinishCurrent, Unlink, At, Finish,
           BothAt, InFinish, Missing, Names
  <2>. QED
    BY <1>1, <1>3, <1>4, <2>1 DEF Restart, Start, DropState, DropNewstate, Drop, EmptyState, CreateCurrent, At,
                        BothAt, InFinish
<1>5. CASE Finishing
  <2>1. InFinish => fin \in Finishes
    BY DEF Inv, Place, WhileFinishing
  <2>2. CASE NoFile
    <3>1. fin \in Finishes /\ pc' = fin.next /\ n # fin.file
      BY <2>1, <2>2 DEF NoFile, At, InFinish, Both, Missing
    <3>. QED BY <1>1, <2>2, <3>1 DEF NoFile, At, BothAt, InFinish
  <2>3. CASE UnlinkFinished
    <3>1. n # fin.file
      BY <1>2, <2>3 DEF UnlinkFinished, Unlink, Both, Missing
    <3>. QED BY <1>1, <2>3, <3>1 DEF UnlinkFinished, At, BothAt, InFinish
  <2>4. CASE LinkFails
    BY <1>1, <1>2, <2>4 DEF LinkFails, BothAt, InFinish
  <2>5. CASE Link
    BY <1>1, <1>2, <2>5 DEF Link, At, BothAt, InFinish
  <2>. QED
    BY <1>1, <1>5, <2>2, <2>3, <2>4, <2>5
    DEF Finishing, AlreadyLinked, RemoveOldest, Fits, At, BothAt, InFinish
<1>6. CASE Processors
  BY <1>1, <1>6 DEF Processors, Opens, CannotOpen, Outputs, Succeeds, Fails, Processing, BothAt, InFinish
<1>7. CASE Kill \/ Outage
  BY <1>7 DEF Kill, Outage, Died, BothAt
<1>. QED
  BY <1>1, <1>4, <1>5, <1>6, <1>7
  DEF Next, Multilog, Rotation, SyncCurrent, RenameCurrent, CreateCurrent, MarkPrevious, Fork, ProcessorFailed,
      ProcessorDone, MarkProcessed, SyncNewstate, UnlinkPrevious, RenameNewstate, Writing, WriteFull, Write, Flushed,
      Quitting, QuitSync, Quit, Environment, Put, Flush, ForceRotate, EndOfInput, At, BothAt, InFinish

(* A file has two names only where a kill or the next call may find it so. *)
LEMMA BothNamesStep ==
  ASSUME Inv, Next
  PROVE  BothNames'
<1>. SUFFICES ASSUME NEW n \in Names, Both(n)'
              PROVE  /\ n \in {"current", "previous", "processed"}
                     /\ n # "previous" => Missing("previous")'
                     /\ n # "processed" => Missing("processed")'
                     /\ BothAt(n)'
  BY DEF BothNames, Both, BothAt
<1>1. CASE Both(n) /\ dir'[n] = dir[n]
  <2>1. /\ n \in {"current", "previous", "processed"} /\ BothAt(n)
        /\ n # "previous" => Missing("previous")
        /\ n # "processed" => Missing("processed")
    BY <1>1 DEF Inv, Shape, BothNames, Both, BothAt
  <2>2. ~RenameCurrent
    BY <2>1 DEF RenameCurrent, At, BothAt, InFinish
  <2>3. ASSUME NEW k \in DOMAIN proc, Opens(k) PROVE FALSE
    BY <1>1, <2>3 DEF Opens, Inv, Procs, Opening, Both
  <2>4. Missing("previous") => Missing("previous")'
    <3>1. dir \in [Names -> Inodes \cup {NoInode}]
      BY DEF Inv, TypeOK
    <3>2. DropPrevious \/ UnlinkPrevious \/ (UnlinkFinished /\ fin.file = "previous")
          => dir'["previous"] = NoInode
      BY <3>1 DEF DropPrevious, UnlinkPrevious, UnlinkFinished, Unlink, Names
    <3>. QED BY <2>2, <3>2, NameSteps DEF Missing
  <2>5. Missing("processed") => Missing("processed")'
    <3>1. dir \in [Names -> Inodes \cup {NoInode}]
      BY DEF Inv, TypeOK
    <3>2. DropProcessed \/ (UnlinkFinished /\ fin.file = "processed") => dir'["processed"] = NoInode
      BY <3>1 DEF DropProcessed, UnlinkFinished, Unlink, Names
    <3>. QED BY <2>3, <3>2, NameSteps DEF Missing
  <2>. QED BY <1>1, <2>1, <2>4, <2>5, BothPlace
<1>2. CASE Link /\ n = fin.file
  <2>1. InFinish /\ dir' = dir /\ pc' = "f_unlink" /\ fin' = fin
    BY <1>2 DEF Link, At, InFinish
  <2>2. /\ fin \in Finishes
        /\ n # "previous" => Missing("previous")
        /\ n # "processed" => Missing("processed")
    BY <1>2, <2>1 DEF Inv, Place, WhileFinishing
  <2>. QED BY <1>2, <2>1, <2>2 DEF Finishes, Missing, BothAt
<1>. QED BY <1>1, <1>2, BothSteps

LEMMA ShapeStep ==
  ASSUME Inv, Next
  PROVE  Shape'
  BY OneNameStep, OneOldNameStep, BothNamesStep, FreeBlankStep DEF Shape

-----------------------------------------------------------------------------
(* The current file                                                        *)

LEMMA HasFdSteps ==
  ASSUME Inv, Next
  PROVE  \/ (HasFd' <=> HasFd) /\ fd' = fd /\ (bytes' = bytes \/ Write)
         \/ Resume \/ Creating \/ RenameCurrent \/ Quit \/ Kill \/ Outage
<1>1. CASE Restart
  BY <1>1 DEF Restart, Start, DropState, DropNewstate, DropPrevious, DropProcessed, Drop, FinishCurrent,
              EmptyState, Creating, At, Finish, HasFd, InFinish, d
<1>2. CASE Finishing
  <2>1. fin \in Finishes
    <3>1. InFinish
      BY <1>2 DEF Finishing, NoFile, AlreadyLinked, Link, LinkFails, UnlinkFinished, RemoveOldest, Fits, At,
                  InFinish
    <3>. QED BY <3>1 DEF Inv, Place, WhileFinishing
  <2>2. CASE NoFile \/ Fits
    BY <2>1, <2>2 DEF NoFile, Fits, At, HasFd, InFinish, d, Finishes
  <2>3. CASE LinkFails
    <3>1. fin'.next = fin.next
      BY <2>3 DEF LinkFails, Inv, TypeOK
    <3>. QED BY <2>3, <3>1 DEF LinkFails, HasFd, InFinish, d
  <2>. QED
    BY <1>2, <2>2, <2>3 DEF Finishing, AlreadyLinked, Link, UnlinkFinished, RemoveOldest, At, HasFd, InFinish, d
<1>3. CASE Rotation
  BY <1>3 DEF Rotation, SyncCurrent, MarkPrevious, Fork, ProcessorFailed, ProcessorDone, MarkProcessed,
              SyncNewstate, UnlinkPrevious, RenameNewstate, Creating, At, Finish, HasFd, InFinish, d
<1>4. CASE Processors
  BY <1>4 DEF Processors, Opens, CannotOpen, Outputs, Succeeds, Fails, Processing, HasFd, InFinish, d
<1>5. CASE Writing
  BY <1>5 DEF Writing, WriteFull, Write, Flushed, At, HasFd, InFinish, d
<1>. QED
  BY <1>1, <1>2, <1>3, <1>4, <1>5
  DEF Next, Multilog, Quitting, QuitSync, Environment, Put, Flush, ForceRotate, EndOfInput, At, HasFd, InFinish, d

(* Nothing but multilog's own calls touches the file that current names.   *)
LEMMA CurrentSteps ==
  ASSUME Inv, Next, ~Missing("current"), dir'["current"] = dir["current"]
  PROVE  \/ ino'[dir["current"]] = ino[dir["current"]]
         \/ Resume \/ Write \/ SyncCurrent \/ QuitSync \/ Quit
         \/ Outage /\ ino'[dir["current"]] = Torn(dir["current"]) /\ dir["current"] \in Unsynced
<1>. DEFINE i == dir["current"]
<1>1. i \in Inodes /\ Linked(i) /\ Linked(i)' /\ \A n \in Names : dir[n] = i => n = "current"
  BY DirType DEF Missing, Names, Linked, Inv, Shape, OneName
<1>2. ino'[i] = ino[i] \/ Touches(i)
  BY <1>1, FileSteps
<1>3. ASSUME NEW k \in DOMAIN proc, Outputs(k) PROVE i # proc[k].out /\ i # proc[k].ns
  BY <1>3 DEF Outputs, Inv, Procs, Reach, Names
<1>. HIDE DEF i
<1>4. i # dir["previous"] /\ i # dir["processed"] /\ i # dir["newstate"]
  BY <1>1 DEF Names
<1>5. \/ ino'[i] = ino[i] \/ Resume \/ Write \/ SyncCurrent \/ QuitSync \/ Quit
      \/ Outage /\ ino'[i] = Torn(i) /\ i \in Unsynced
  BY <1>2, <1>3, <1>4 DEF Touches
<1>. QED BY <1>5 DEF i

(* While it has a descriptor, multilog writes current, with its length in  *)
(* d->bytes.                                                               *)
LEMMA DescriptorKept ==
  ASSUME Inv, Next
  PROVE  Descriptor'
<1>. USE DEF Inv, Shape, Files
<1>0. /\ ino \in [Inodes -> File] /\ dir \in [Names -> Inodes \cup {NoInode}] /\ NoInode \notin Inodes
      /\ "current" \in Names
  BY InodeOrNone DEF TypeOK, Names
<1>1. CASE ~HasFd /\ ~HasFd' /\ fd' = fd
  BY <1>1 DEF Descriptor
<1>2. CASE HasFd /\ HasFd' /\ fd' = fd /\ (bytes' = bytes \/ Write) /\ ~Resume /\ ~Quit /\ ~Outage
           /\ ~Creating /\ ~RenameCurrent
  <2>1. fd \in Inodes /\ fd = dir["current"] /\ ~ino[fd].exec /\ ~ino[fd].cut /\ bytes = Len(ino[fd].data)
    BY <1>2 DEF Descriptor
  <2>2. dir'["current"] = dir["current"]
    <3>1. ~(UnlinkFinished /\ fin.file = "current")
      BY <1>2 DEF UnlinkFinished, At, HasFd, InFinish, Place, WhileFinishing, Finishes
    <3>. QED BY <1>2, <3>1, NameSteps
  <2>3. CASE ino'[fd] = ino[fd] /\ ~Write
    BY <1>2, <2>1, <2>2, <2>3 DEF Descriptor
  <2>4. CASE Write
    <3>1. PICK w \in Nat :
             /\ ino' = [ino EXCEPT ![fd].data = ino[fd].data \o [k \in 1..w |-> written + k]]
             /\ bytes' = bytes + w
      BY <2>4, WriteDoes
    <3>2. ino'[fd].exec = ino[fd].exec /\ ino'[fd].cut = ino[fd].cut
          /\ Len(ino'[fd].data) = Len(ino[fd].data) + w
      BY <2>1, <2>4, <3>1, WriteAppends
    <3>. QED BY <1>2, <2>1, <2>2, <3>1, <3>2 DEF Descriptor
  <2>5. CASE SyncCurrent \/ QuitSync
    <3>1. ino'[fd].exec = ino[fd].exec /\ ino'[fd].cut = ino[fd].cut /\ ino'[fd].data = ino[fd].data
      BY <1>0, <2>1, <2>5 DEF SyncCurrent, QuitSync, Sync, File
    <3>2. ~Write
      BY <2>5 DEF SyncCurrent, QuitSync, At, Write
    <3>. QED BY <1>2, <2>1, <2>2, <3>1, <3>2 DEF Descriptor
  <2>. QED BY <1>0, <1>2, <2>1, <2>2, <2>3, <2>4, <2>5, CurrentSteps DEF Missing
<1>3. CASE Resume
  <2>1. fd' = dir["current"] /\ fd' \in Inodes /\ dir' = dir /\ HasFd' /\ bytes' = Len(ino[fd'].data)
        /\ ino' = [ino EXCEPT ![fd'].exec = FALSE]
    BY <1>0, <1>3 DEF Resume, IsExec, At, HasFd
  <2>2. ino'[fd'].exec = FALSE /\ ino'[fd'].cut = ino[fd'].cut /\ ino'[fd'].data = ino[fd'].data
    BY <1>0, <2>1 DEF File
  <2>3. ~ino[fd'].cut
    BY <1>3, <2>1 DEF Resume, Kept, ExecMeansSafe
  <2>. QED BY <2>1, <2>2, <2>3 DEF Descriptor
<1>4. CASE Creating
  <2>1. /\ fd' = NewInode /\ bytes' = 0 /\ dir' = [dir EXCEPT !["current"] = fd'] /\ HasFd'
        /\ ino' = [ino EXCEPT ![fd'] = Blank] /\ fd' \in Inodes
    BY <1>4, NewFile DEF Creating, CreateCurrent, At, HasFd
  <2>2. dir'["current"] = fd' /\ ino'[fd'] = Blank
    BY <1>0, <2>1
  <2>. QED BY <2>1, <2>2, BlankFile DEF Descriptor
<1>5. CASE RenameCurrent \/ Quit \/ Kill \/ Outage
  <2>1. fd' = NoInode /\ ~HasFd'
    BY <1>5 DEF RenameCurrent, Quit, Kill, Outage, Died, At, HasFd, InFinish
  <2>. QED BY <2>1 DEF Descriptor
<1>. QED BY <1>1, <1>2, <1>3, <1>4, <1>5, HasFdSteps

LEMMA CurrentFitsStep ==
  ASSUME Inv, Next
  PROVE  CurrentFits'
<1>. USE DEF Inv, Shape, Files
<1>0. /\ ino \in [Inodes -> File] /\ dir \in [Names -> Inodes \cup {NoInode}] /\ NoInode \notin Inodes
      /\ "current" \in Names /\ Size \in Nat
  BY InodeOrNone, CyclogAssumption DEF TypeOK, Names
<1>1. CASE dir'["current"] = dir["current"] /\ ~Missing("current")
  <2>. DEFINE i == dir["current"]
  <2>1. i \in Inodes /\ Len(ino[i].data) \in Nat /\ Len(ino[i].data) <= Size
    BY <1>0, <1>1, FileType DEF Missing, CurrentFits
  <2>2. CASE Write
    <3>1. HasFd' /\ fd' = i /\ dir' = dir
      BY <2>2 DEF Write, HasFd, InFinish, Descriptor
    <3>2. bytes' = Len(ino'[i].data)
      BY <3>1, DescriptorKept DEF Descriptor
    <3>3. bytes' \in 0..Size
      BY BytesStep
    <3>. QED BY <1>1, <3>2, <3>3 DEF CurrentFits
  <2>3. CASE ino[i].synced < Len(ino[i].data) /\ ino'[i].data = SubSeq(ino[i].data, 1, ino[i].synced)
    <3>1. ino[i].synced \in Nat /\ ino[i].data \in Seq(Nat)
      BY <2>1, FileType
    <3>2. Len(SubSeq(ino[i].data, 1, ino[i].synced)) = ino[i].synced
      BY <2>3, <3>1
    <3>3. Len(ino'[i].data) <= Size
      BY <1>0, <2>1, <2>3, <3>1, <3>2
    <3>. QED BY <1>1, <3>3 DEF CurrentFits
  <2>4. CASE Stays(i)
    <3>1. Len(ino'[i].data) = Len(ino[i].data) \/ Len(ino'[i].data) = 0
      BY <2>4, BlankFile DEF Stays
    <3>. QED BY <1>0, <1>1, <2>1, <3>1 DEF CurrentFits
  <2>5. ASSUME NEW k \in DOMAIN proc, Outputs(k) PROVE i \notin {proc[k].out, proc[k].ns}
    BY <2>5 DEF Outputs, Procs, Reach, Names
  <2>. QED BY <1>1, <2>1, <2>2, <2>3, <2>4, <2>5, DataStep DEF DataSteps
<1>2. CASE Creating
  <2>1. HasFd' /\ bytes' = 0 /\ fd' = dir'["current"] /\ bytes' = Len(ino'[fd'].data)
    <3>1. HasFd' /\ bytes' = 0
      BY <1>2 DEF Creating, CreateCurrent, At, HasFd
    <3>. QED BY <3>1, DescriptorKept DEF Descriptor
  <2>. QED BY <1>0, <2>1 DEF CurrentFits
<1>3. CASE RenameCurrent \/ (UnlinkFinished /\ fin.file = "current")
  <2>1. dir'["current"] = NoInode
    BY <1>0, <1>3 DEF RenameCurrent, UnlinkFinished, Unlink, Names
  <2>. QED BY <2>1 DEF CurrentFits, Missing
<1>4. CASE dir'["current"] = dir["current"] /\ Missing("current")
  BY <1>4 DEF CurrentFits, Missing
<1>. QED BY <1>1, <1>2, <1>3, <1>4, NameSteps

LEMMA FilesStep ==
  ASSUME Inv, Next
  PROVE  Files'
  BY DescriptorKept, CurrentFitsStep, BytesWrittenStep DEF Files

-----------------------------------------------------------------------------
(* Processors                                                              *)

LEMMA PhaseSteps ==
  ASSUME Inv, Next, NEW k \in DOMAIN proc
  PROVE  /\ DOMAIN proc' = DOMAIN proc
         /\ \/ proc'[k] = proc[k]
            \/ proc'[k] = NoProcessor
            \/ Fork /\ k = crashes /\ proc'[k] = [NoProcessor EXCEPT !.phase = "opening"]
            \/ Opens(k)
            \/ /\ k = crashes /\ proc[k].phase \in {"opening", "running"}
               /\ proc'[k].phase \in {"done", "failed"} /\ Held(proc'[k]) = {NoInode}
               /\ CannotOpen(k) \/ Succeeds(k) \/ Fails(k)
<1>0. proc \in [0..MaxCrashes -> Process]
  BY DEF Inv, TypeOK
<1>1. CASE Reaped
  BY <1>0, <1>1 DEF Reaped
<1>2. CASE Fork
  BY <1>0, <1>2 DEF Fork
<1>3. CASE Outage
  BY <1>0, <1>3 DEF Outage
<1>4. ASSUME NEW j \in DOMAIN proc, Opens(j) \/ CannotOpen(j) \/ Succeeds(j) \/ Fails(j), j # k
      PROVE  proc'[k] = proc[k]
  <2>1. PICK p : Becomes(j, p)
    BY <1>4 DEF Opens, CannotOpen, Succeeds, Fails
  <2>. QED BY <1>4, <2>1 DEF Becomes
<1>5. ASSUME NEW j \in DOMAIN proc, Opens(j) \/ CannotOpen(j) \/ Succeeds(j) \/ Fails(j)
      PROVE  DOMAIN proc' = DOMAIN proc
  <2>1. PICK p : Becomes(j, p)
    BY <1>5 DEF Opens, CannotOpen, Succeeds, Fails
  <2>. QED BY <1>5, <2>1 DEF Becomes
<1>6. CASE CannotOpen(k) \/ Succeeds(k) \/ Fails(k)
  <2>1. PICK ph \in {"done", "failed"} : Becomes(k, [NoProcessor EXCEPT !.phase = ph])
    BY <1>6 DEF CannotOpen, Succeeds, Fails
  <2>2. [NoProcessor EXCEPT !.phase = ph].phase = ph /\ Held([NoProcessor EXCEPT !.phase = ph]) = {NoInode}
    BY DEF NoProcessor, Held
  <2>3. proc'[k] = IF k # crashes THEN NoProcessor ELSE [NoProcessor EXCEPT !.phase = ph]
    BY <2>1, <2>2 DEF Becomes
  <2>4. proc[k].phase \in {"opening", "running"}
    BY <1>6 DEF CannotOpen, Succeeds, Fails
  <2>. QED BY <1>5, <1>6, <2>2, <2>3, <2>4
<1>. QED BY <1>0, <1>1, <1>2, <1>3, <1>4, <1>5, <1>6, ProcSteps

(* multilog waits in one place, and a restart needs the lock.              *)
LEMMA WaitSteps ==
  ASSUME Inv, Next
  PROVE  \/ pc' = pc /\ crashes' = crashes
         \/ Start \/ Fork \/ ProcessorFailed \/ ProcessorDone \/ Kill \/ Outage
         \/ pc \notin {"wait", "stopped"} /\ pc' # "wait" /\ crashes' = crashes
<1>1. CASE Restart
  BY <1>1 DEF Restart, Resume, DropState, DropNewstate, DropPrevious, DropProcessed, Drop, FinishCurrent,
              EmptyState, CreateCurrent, At, counts
<1>2. CASE Finishing
  <2>1. fin \in Finishes
    <3>1. InFinish
      BY <1>2 DEF Finishing, NoFile, AlreadyLinked, Link, LinkFails, UnlinkFinished, RemoveOldest, Fits, At,
                  InFinish
    <3>. QED BY <3>1 DEF Inv, Place, WhileFinishing
  <2>2. fin.next # "wait"
    BY <2>1 DEF Finishes
  <2>. QED
    BY <1>2, <2>2 DEF Finishing, NoFile, AlreadyLinked, Link, LinkFails, UnlinkFinished, RemoveOldest, Fits,
                      At, counts
<1>3. CASE Rotation
  BY <1>3 DEF Rotation, SyncCurrent, RenameCurrent, CreateCurrent, MarkPrevious, MarkProcessed, SyncNewstate,
              UnlinkPrevious, RenameNewstate, At, counts
<1>4. CASE Processors
  BY <1>4 DEF Processors, Opens, CannotOpen, Outputs, Succeeds, Fails, Processing
<1>. QED
  BY <1>1, <1>2, <1>3, <1>4
  DEF Next, Multilog, Writing, WriteFull, Write, Flushed, Quitting, QuitSync, Quit, Environment, Put, Flush,
      ForceRotate, EndOfInput, At, counts

LEMMA CrashSteps ==
  ASSUME Inv, Next
  PROVE  /\ crashes \in Nat /\ crashes \in DOMAIN proc
         /\ Kill \/ Outage => crashes' = crashes + 1 /\ pc' = "stopped"
         /\ ~Kill /\ ~Outage => crashes' = crashes
<1>1. CASE Start \/ Fork \/ ProcessorFailed \/ ProcessorDone
  <2>1. crashes' = crashes /\ ~Kill /\ ~Outage
    BY <1>1 DEF Start, Fork, ProcessorFailed, ProcessorDone, At, Kill, Outage, Died, counts
  <2>. QED BY <2>1, CyclogAssumption DEF Inv, TypeOK
<1>2. crashes \in Nat /\ crashes \in DOMAIN proc
  BY CyclogAssumption DEF Inv, TypeOK
<1>. QED BY <1>1, <1>2, WaitSteps DEF Kill, Outage, Died

LEMMA OpensHeld ==
  ASSUME Inv, NEW k \in DOMAIN proc, Opens(k)
  PROVE  /\ proc'[k].phase = "running" /\ proc'[k].in = dir["previous"]
         /\ proc'[k].out = dir'["processed"] /\ proc'[k].ns = dir'["newstate"]
         /\ dir'["previous"] = dir["previous"]
         /\ proc'[k].in \in Inodes /\ proc'[k].out \in Inodes /\ proc'[k].ns \in Inodes
         /\ proc'[k].in # proc'[k].out /\ proc'[k].in # proc'[k].ns /\ proc'[k].out # proc'[k].ns
         /\ Gets("processed", proc'[k].out) /\ Gets("newstate", proc'[k].ns)
         /\ \A n \in Names : n \notin {"processed", "newstate"} => dir'[n] = dir[n]
         /\ ino'[proc'[k].out].exec = ino[proc'[k].out].exec /\ ino'[proc'[k].ns].exec = ino[proc'[k].ns].exec
         /\ ~ino'[proc'[k].out].cut
<1>0. dir \in [Names -> Inodes \cup {NoInode}]
  BY DEF Inv, TypeOK
<1>1. PICK out, ns \in Inodes :
        /\ Gets("processed", out) /\ Gets("newstate", ns) /\ out # ns
        /\ ~Missing("previous")
        /\ dir' = [dir EXCEPT !["processed"] = out, !["newstate"] = ns]
        /\ \A i \in Inodes : ino'[i] = IF i \in {out, ns} THEN [Blank EXCEPT !.exec = ino[i].exec] ELSE ino[i]
        /\ Becomes(k, [phase |-> "running", in |-> dir["previous"], out |-> out, ns |-> ns,
                       given |-> ino[dir["state"]].data])
  BY OpensDoes
<1>2. proc'[k] = [phase |-> "running", in |-> dir["previous"], out |-> out, ns |-> ns,
                  given |-> ino[dir["state"]].data]
  BY <1>1 DEF Becomes
<1>3. dir["previous"] \in Inodes /\ Linked(dir["previous"])
  BY <1>0, <1>1 DEF Missing, Names, Linked
<1>4. dir["previous"] # out /\ dir["previous"] # ns
  BY <1>0, <1>1, <1>3 DEF Gets, Missing, Names, Inv, Shape, OneName
<1>5. dir'["processed"] = out /\ dir'["newstate"] = ns /\ dir'["previous"] = dir["previous"]
      /\ \A n \in Names : n \notin {"processed", "newstate"} => dir'[n] = dir[n]
  BY <1>0, <1>1 DEF Names
<1>6. \A b : [Blank EXCEPT !.exec = b].exec = b /\ ~[Blank EXCEPT !.exec = b].cut
  BY DEF Blank
<1>7. ino'[out] = [Blank EXCEPT !.exec = ino[out].exec] /\ ino'[ns] = [Blank EXCEPT !.exec = ino[ns].exec]
  BY <1>1
<1>8. ino'[out].exec = ino[out].exec /\ ino'[ns].exec = ino[ns].exec /\ ~ino'[out].cut
  BY <1>6, <1>7, Zenon
<1>9. proc'[k].phase = "running" /\ proc'[k].in = dir["previous"] /\ proc'[k].out = out /\ proc'[k].ns = ns
  BY <1>2
<1>. QED BY <1>1, <1>3, <1>4, <1>5, <1>8, <1>9, Zenon

LEMMA PhasesStep ==
  ASSUME Inv, Next
  PROVE  Phases'
<1>. USE DEF Inv, Procs
<1>0. crashes \in Nat /\ crashes \in DOMAIN proc /\ DOMAIN proc = 0..MaxCrashes /\ MaxCrashes \in Nat
      /\ DOMAIN proc' = DOMAIN proc
  BY CyclogAssumption, PhaseSteps, SMTT(30) DEF TypeOK
<1>1. NoProcessor.phase = "none" /\ Held(NoProcessor) = {NoInode}
      /\ [NoProcessor EXCEPT !.phase = "opening"].phase = "opening"
      /\ Held([NoProcessor EXCEPT !.phase = "opening"]) = {NoInode}
  BY DEF NoProcessor, Held
<1>2. ASSUME NEW k \in DOMAIN proc
      PROVE  /\ IF proc'[k].phase = "running"
                THEN /\ proc'[k].in \in Inodes /\ proc'[k].out \in Inodes /\ proc'[k].ns \in Inodes
                     /\ proc'[k].in # proc'[k].out /\ proc'[k].in # proc'[k].ns
                     /\ proc'[k].out # proc'[k].ns
                ELSE Held(proc'[k]) = {NoInode}
             /\ proc'[k].phase = "opening" =>
                  (pc' = "wait" /\ k = crashes') \/ (pc' = "stopped" /\ k + 1 = crashes')
             /\ proc'[k].phase \in {"done", "failed"} => pc' = "wait" /\ k = crashes'
             /\ proc'[k].phase = "running" => (pc' = "wait" /\ k = crashes') \/ k < crashes'
  <2>0. k \in Nat
    BY <1>0
  <2>1. CASE proc'[k] = NoProcessor
    BY <1>1, <2>1
  <2>2. CASE Fork /\ k = crashes /\ proc'[k] = [NoProcessor EXCEPT !.phase = "opening"]
    BY <1>1, <2>2 DEF Fork, At, counts
  <2>3. CASE Opens(k)
    <3>1. proc'[k].phase = "running" /\ pc' = pc /\ crashes' = crashes /\ proc[k].phase = "opening"
          /\ proc'[k].in \in Inodes /\ proc'[k].out \in Inodes /\ proc'[k].ns \in Inodes
          /\ proc'[k].in # proc'[k].out /\ proc'[k].in # proc'[k].ns /\ proc'[k].out # proc'[k].ns
      BY <2>3, OpensHeld DEF Opens, Processing
    <3>2. (pc = "wait" /\ k = crashes) \/ k < crashes
      BY <1>0, <2>0, <3>1 DEF Phases
    <3>. QED BY <3>1, <3>2
  <2>4. CASE /\ k = crashes /\ proc[k].phase \in {"opening", "running"}
             /\ proc'[k].phase \in {"done", "failed"} /\ Held(proc'[k]) = {NoInode}
             /\ CannotOpen(k) \/ Succeeds(k) \/ Fails(k)
    <3>1. pc' = pc /\ crashes' = crashes
      BY <2>4 DEF CannotOpen, Succeeds, Fails, Processing
    <3>2. pc = "wait"
      BY <1>0, <2>4 DEF Phases
    <3>. QED BY <2>4, <3>1, <3>2
  <2>5. CASE proc'[k] = proc[k]
    <3>1. /\ IF proc[k].phase = "running"
             THEN /\ proc[k].in \in Inodes /\ proc[k].out \in Inodes /\ proc[k].ns \in Inodes
                  /\ proc[k].in # proc[k].out /\ proc[k].in # proc[k].ns /\ proc[k].out # proc[k].ns
             ELSE Held(proc[k]) = {NoInode}
          /\ proc[k].phase = "opening" =>
               (pc = "wait" /\ k = crashes) \/ (pc = "stopped" /\ k + 1 = crashes)
          /\ proc[k].phase \in {"done", "failed"} => pc = "wait" /\ k = crashes
          /\ proc[k].phase = "running" => (pc = "wait" /\ k = crashes) \/ k < crashes
      BY DEF Phases
    <3>2. CASE pc' = pc /\ crashes' = crashes
      BY <2>5, <3>1, <3>2
    <3>3. CASE Start
      <4>1. proc[k].phase # "opening" /\ pc = "stopped" /\ crashes' = crashes
        BY <3>3 DEF Start, Unlocked, At, counts
      <4>. QED BY <2>5, <3>1, <4>1
    <3>4. CASE Fork
      <4>1. pc = "fork" /\ pc' = "wait" /\ crashes' = crashes
        BY <3>4 DEF Fork, At, counts
      <4>. QED BY <2>5, <3>1, <4>1
    <3>5. CASE ProcessorFailed \/ ProcessorDone
      <4>1. pc = "wait" /\ crashes' = crashes /\ k # crashes
        <5>1. proc[crashes].phase \in {"done", "failed"} /\ proc'[crashes] = NoProcessor
          BY <1>0, <3>5 DEF ProcessorFailed, ProcessorDone, Reaped
        <5>. QED BY <1>1, <2>5, <3>5, <5>1 DEF ProcessorFailed, ProcessorDone, At, counts
      <4>. QED BY <2>5, <3>1, <4>1
    <3>6. CASE Kill
      <4>1. crashes' = crashes + 1 /\ pc # "stopped" /\ pc' = "stopped"
        BY <3>6, CrashSteps DEF Kill
      <4>2. proc[k].phase \notin {"done", "failed"}
        <5>1. SUFFICES ASSUME proc[k].phase \in {"done", "failed"} PROVE FALSE
          OBVIOUS
        <5>2. k = crashes
          BY <3>1, <5>1
        <5>3. proc'[k] = NoProcessor
          BY <1>0, <3>6, <5>1, <5>2 DEF Kill, Reaped
        <5>. QED BY <1>1, <2>5, <5>1, <5>3
      <4>. QED BY <1>0, <2>0, <2>5, <3>1, <4>1, <4>2
    <3>7. CASE Outage
      <4>1. proc'[k] = NoProcessor
        BY <3>7 DEF Outage
      <4>. QED BY <1>1, <4>1
    <3>8. CASE pc \notin {"wait", "stopped"} /\ pc' # "wait" /\ crashes' = crashes
      BY <2>5, <3>1, <3>8
    <3>. QED BY <3>2, <3>3, <3>4, <3>5, <3>6, <3>7, <3>8, WaitSteps
  <2>. QED BY <2>1, <2>2, <2>3, <2>4, <2>5, PhaseSteps
<1>3. pc' = "wait" => proc'[crashes'].phase # "none"
  <2>1. CASE Fork
    BY <1>0, <1>1, <2>1 DEF Fork, counts
  <2>2. CASE pc' = pc /\ crashes' = crashes /\ pc = "wait"
    <3>1. proc[crashes].phase # "none"
      BY <2>2 DEF Phases
    <3>2. ~Fork /\ ~Outage /\ ~ProcessorFailed /\ ~ProcessorDone /\ ~Kill
      BY <1>0, <2>2, CrashSteps DEF Fork, ProcessorFailed, ProcessorDone, At
    <3>3. CASE proc' = proc
      BY <2>2, <3>1, <3>3
    <3>4. ASSUME NEW k \in DOMAIN proc, CannotOpen(k) \/ Succeeds(k) \/ Fails(k)
          PROVE  proc'[crashes].phase # "none"
      <4>1. PICK ph \in {"done", "failed"} : Becomes(k, [NoProcessor EXCEPT !.phase = ph])
        BY <3>4 DEF CannotOpen, Succeeds, Fails
      <4>2. [NoProcessor EXCEPT !.phase = ph].phase = ph
        BY DEF NoProcessor
      <4>. QED BY <1>0, <3>1, <4>1, <4>2 DEF Becomes
    <3>5. ASSUME NEW k \in DOMAIN proc, Opens(k) PROVE proc'[crashes].phase # "none"
      <4>1. CASE k = crashes
        BY <3>5, <4>1, OpensHeld
      <4>2. CASE k # crashes
        <5>1. PICK p : Becomes(k, p)
          BY <3>5 DEF Opens
        <5>. QED BY <1>0, <3>1, <4>2, <5>1 DEF Becomes
      <4>. QED BY <4>1, <4>2
    <3>. QED BY <2>2, <3>2, <3>3, <3>4, <3>5, ProcSteps
  <2>3. CASE Start \/ ProcessorFailed \/ ProcessorDone \/ Kill \/ Outage
    BY <2>3, CrashSteps DEF Start, ProcessorFailed, ProcessorDone, At
  <2>. QED BY <2>1, <2>2, <2>3, WaitSteps
<1>. QED BY <1>0, <1>2, <1>3 DEF Phases

(* Who sets a mode                                                         *)
LEMMA ExecSteps ==
  ASSUME Inv, Next, NEW i \in Inodes, ino'[i].exec
  PROVE  \/ ino[i].exec
         \/ MarkPrevious /\ i = dir["previous"]
         \/ MarkProcessed /\ i = dir["processed"]
         \/ Quit /\ i = dir["current"]
<1>. USE DEF Inv
<1>0. ino \in [Inodes -> File] /\ fin.file \in Names /\ ~Blank.exec
  BY BlankFile DEF TypeOK
<1>1. ASSUME NEW j, ino' = Unlinked(j) PROVE ino[i].exec
  BY <1>0, <1>1 DEF Unlinked
<1>2. ASSUME NEW j, ino' = [ino EXCEPT ![j] = Blank] PROVE ino[i].exec
  BY <1>0, <1>2
<1>3. \A n : \A j \in Inodes : [ino[j] EXCEPT !.synced = n].exec = ino[j].exec
  BY <1>0 DEF File
<1>4. ASSUME NEW j, Sync(j) PROVE ino[i].exec
  <2>1. ino'[i] = ino[i] \/ ino'[i] = [ino[i] EXCEPT !.synced = Len(ino[i].data)]
    BY <1>0, <1>4 DEF Sync
  <2>. QED BY <1>3, <2>1
<1>5. ino' = ino => ino[i].exec
  OBVIOUS
<1>6. CASE Restart
  <2>1. CASE Resume
    <3>1. ino'[i] = ino[i] \/ ino'[i] = [ino[i] EXCEPT !.exec = FALSE]
      BY <1>0, <2>1 DEF Resume
    <3>2. ~[ino[i] EXCEPT !.exec = FALSE].exec
      BY <1>0 DEF File
    <3>. QED BY <3>1, <3>2
  <2>. QED
    BY <1>1, <1>2, <1>5, <1>6, <2>1
    DEF Restart, Start, DropState, DropNewstate, DropPrevious, DropProcessed, Drop, Unlink,
        FinishCurrent, EmptyState, CreateCurrent, disk
<1>7. CASE Finishing
  BY <1>1, <1>5, <1>7
  DEF Finishing, NoFile, AlreadyLinked, Link, LinkFails, UnlinkFinished, RemoveOldest, Fits, Unlink, disk
<1>8. CASE Rotation
  <2>1. CASE MarkPrevious \/ MarkProcessed
    <3>1. (MarkPrevious /\ i # dir["previous"] => ino'[i] = ino[i])
          /\ (MarkProcessed /\ i # dir["processed"] => ino'[i] = ino[i])
      BY <1>0 DEF MarkPrevious, MarkProcessed
    <3>. QED BY <2>1, <3>1
  <2>. QED
    BY <1>1, <1>2, <1>4, <1>5, <1>8, <2>1
    DEF Rotation, SyncCurrent, RenameCurrent, CreateCurrent, Fork, ProcessorFailed,
        ProcessorDone, SyncNewstate, UnlinkPrevious, RenameNewstate, Unlink, disk
<1>9. CASE Processors
  <2>1. ASSUME NEW k \in DOMAIN proc, Opens(k) PROVE ino[i].exec
    <3>1. PICK out, ns \in Inodes :
            \A j \in Inodes : ino'[j] = IF j \in {out, ns} THEN [Blank EXCEPT !.exec = ino[j].exec] ELSE ino[j]
      BY <2>1, OpensDoes, ZenonT(30)
    <3>2. \A b : [Blank EXCEPT !.exec = b].exec = b
      BY DEF Blank
    <3>3. ino'[i] = [Blank EXCEPT !.exec = ino[i].exec] \/ ino'[i] = ino[i]
      BY <3>1
    <3>. QED BY <3>2, <3>3, Zenon
  <2>2. ASSUME NEW k \in DOMAIN proc, Outputs(k) PROVE ino[i].exec
    BY <2>2, OutputsDoes
  <2>3. ASSUME NEW k \in DOMAIN proc, Closed(k) PROVE ino[i].exec
    BY <1>0, <2>3 DEF Closed
  <2>. QED BY <1>5, <1>9, <2>1, <2>2, <2>3 DEF Processors, CannotOpen, Succeeds, Fails
<1>10. CASE Writing
  <2>1. CASE Write
    BY <2>1, WriteDoes, WriteAppends
  <2>. QED BY <1>5, <1>10, <2>1 DEF Writing, WriteFull, Flushed, disk
<1>11. CASE Quitting
  <2>1. CASE Quit
    <3>1. fd = dir["current"]
      BY <2>1 DEF Quit, At, Files, Descriptor, HasFd
    <3>. QED BY <1>0, <2>1, <3>1 DEF Quit
  <2>. QED BY <1>4, <1>11, <2>1 DEF Quitting, QuitSync
<1>12. CASE Outage
  <2>1. PICK torn \in SUBSET Unsynced :
          ino' = [j \in Inodes |-> IF Links(j) = 0 THEN Blank ELSE IF j \in torn THEN Torn(j) ELSE ino[j]]
    BY <1>12 DEF Outage
  <2>2. Torn(i).exec = ino[i].exec
    BY <1>0 DEF Torn, File
  <2>3. ino'[i] = Blank \/ ino'[i] = Torn(i) \/ ino'[i] = ino[i]
    BY <2>1
  <2>. QED BY <1>0, <2>2, <2>3, Zenon
<1>. QED
  BY <1>5, <1>6, <1>7, <1>8, <1>9, <1>10, <1>11, <1>12
  DEF Next, Multilog, Environment, Put, Flush, ForceRotate, EndOfInput, Kill, disk

(* Only an outage cuts a file.                                             *)
LEMMA CutSteps ==
  ASSUME Inv, Next, NEW i \in Inodes, ino'[i].cut
  PROVE  ino[i].cut \/ Outage
<1>. USE DEF Inv
<1>0. ino \in [Inodes -> File] /\ fin.file \in Names /\ ~Blank.cut
  BY BlankFile DEF TypeOK
<1>1. ASSUME NEW j, ino' = Unlinked(j) PROVE ino[i].cut
  BY <1>0, <1>1 DEF Unlinked
<1>2. ASSUME NEW j, ino' = [ino EXCEPT ![j] = Blank] PROVE ino[i].cut
  BY <1>0, <1>2
<1>3. \A n : \A j \in Inodes : /\ [ino[j] EXCEPT !.synced = n].cut = ino[j].cut
                             /\ [ino[j] EXCEPT !.exec = n].cut = ino[j].cut
  BY <1>0 DEF File
<1>4. ASSUME NEW j, Sync(j) PROVE ino[i].cut
  <2>1. ino'[i] = ino[i] \/ ino'[i] = [ino[i] EXCEPT !.synced = Len(ino[i].data)]
    BY <1>0, <1>4 DEF Sync
  <2>. QED BY <1>3, <2>1
<1>5. ino' = ino => ino[i].cut
  OBVIOUS
<1>6. CASE Resume \/ MarkPrevious \/ MarkProcessed \/ Quit
  <2>1. ino'[i] = ino[i] \/ ino'[i] = [ino[i] EXCEPT !.exec = TRUE] \/ ino'[i] = [ino[i] EXCEPT !.exec = FALSE]
    BY <1>0, <1>6 DEF Resume, MarkPrevious, MarkProcessed, Quit
  <2>. QED BY <1>3, <2>1
<1>7. CASE Restart
  BY <1>1, <1>2, <1>5, <1>6, <1>7
  DEF Restart, Start, DropState, DropNewstate, DropPrevious, DropProcessed, Drop, Unlink,
      FinishCurrent, EmptyState, CreateCurrent, disk
<1>8. CASE Finishing
  BY <1>1, <1>5, <1>8
  DEF Finishing, NoFile, AlreadyLinked, Link, LinkFails, UnlinkFinished, RemoveOldest, Fits, Unlink, disk
<1>9. CASE Rotation
  BY <1>1, <1>2, <1>4, <1>5, <1>6, <1>9
  DEF Rotation, SyncCurrent, RenameCurrent, CreateCurrent, Fork, ProcessorFailed,
      ProcessorDone, SyncNewstate, UnlinkPrevious, RenameNewstate, Unlink, disk
<1>10. CASE Processors
  <2>1. ASSUME NEW k \in DOMAIN proc, Opens(k) PROVE ino[i].cut
    <3>1. PICK out, ns \in Inodes :
            \A j \in Inodes : ino'[j] = IF j \in {out, ns} THEN [Blank EXCEPT !.exec = ino[j].exec] ELSE ino[j]
      BY <2>1, OpensDoes, ZenonT(30)
    <3>2. \A b : ~[Blank EXCEPT !.exec = b].cut
      BY DEF Blank
    <3>3. ino'[i] = [Blank EXCEPT !.exec = ino[i].exec] \/ ino'[i] = ino[i]
      BY <3>1
    <3>. QED BY <3>2, <3>3, Zenon
  <2>2. ASSUME NEW k \in DOMAIN proc, Outputs(k) PROVE ino[i].cut
    BY <2>2, OutputsDoes
  <2>3. ASSUME NEW k \in DOMAIN proc, Closed(k) PROVE ino[i].cut
    BY <1>0, <2>3 DEF Closed
  <2>. QED BY <1>5, <1>10, <2>1, <2>2, <2>3 DEF Processors, CannotOpen, Succeeds, Fails
<1>11. CASE Writing
  <2>1. CASE Write
    BY <2>1, WriteDoes, WriteAppends
  <2>. QED BY <1>5, <1>11, <2>1 DEF Writing, WriteFull, Flushed, disk
<1>. QED
  BY <1>4, <1>5, <1>6, <1>7, <1>8, <1>9, <1>10, <1>11
  DEF Next, Multilog, Quitting, QuitSync, Environment, Put, Flush, ForceRotate, EndOfInput, Kill, disk

LEMMA RunningSteps ==
  ASSUME Inv, Next, NEW k \in DOMAIN proc
  PROVE  /\ DOMAIN proc' = DOMAIN proc
         /\ proc'[k].phase = "running" => proc'[k] = proc[k] \/ Opens(k)
         /\ proc'[k].phase = "opening" => proc'[k] = proc[k] \/ (Fork /\ k = crashes)
         /\ proc'[k].phase \in {"done", "failed"} =>
              proc'[k] = proc[k] \/ (k = crashes /\ (CannotOpen(k) \/ Succeeds(k) \/ Fails(k)))
<1>1. NoProcessor.phase = "none" /\ [NoProcessor EXCEPT !.phase = "opening"].phase = "opening"
  BY DEF NoProcessor
<1>2. Opens(k) => proc'[k].phase = "running"
  BY OpensHeld
<1>. QED BY <1>1, <1>2, PhaseSteps

(* No two processors share a file.                                         *)
LEMMA NoneSharedStep ==
  ASSUME Inv, Next
  PROVE  NoneShared'
<1>. USE DEF Inv, Procs
<1>0. DOMAIN proc' = DOMAIN proc
  BY CrashesIsProcess, RunningSteps
<1>1. ASSUME NEW j \in DOMAIN proc, NEW k \in DOMAIN proc, j # k,
             proc'[k] = proc[k], proc[k].phase = "running", Opens(j)
      PROVE  Held(proc'[j]) \cap Held(proc'[k]) = {}
  <2>1. /\ proc'[j].in = dir["previous"] /\ dir["previous"] # NoInode
        /\ Gets("processed", proc'[j].out) /\ Gets("newstate", proc'[j].ns)
    BY <1>1, OpensHeld, InodeOrNone
  <2>2. dir["previous"] # proc[k].in /\ dir["processed"] # proc[k].out /\ dir["newstate"] # proc[k].ns
    BY <1>1 DEF Opening, Opens
  <2>3. \A n \in Names : /\ dir[n] = proc[k].in => n = "previous"
                         /\ dir[n] = proc[k].out => n = "processed"
                         /\ dir[n] = proc[k].ns => n = "newstate"
    BY <1>1 DEF Reach
  <2>4. \A n \in Names : dir[n] \notin Held(proc[k])
    BY <2>2, <2>3 DEF Held
  <2>5. \A i : ~IsOpen(i) => i \notin Held(proc[k])
    BY DEF IsOpen
  <2>. QED BY <1>1, <2>1, <2>4, <2>5 DEF Gets, Names, Held, Missing
<1>2. ASSUME NEW j \in DOMAIN proc, NEW k \in DOMAIN proc, j # k,
             proc'[j].phase = "running", proc'[k].phase = "running"
      PROVE  Held(proc'[j]) \cap Held(proc'[k]) = {}
  <2>1. CASE proc'[j] = proc[j] /\ proc'[k] = proc[k]
    BY <1>2, <2>1 DEF NoneShared
  <2>2. CASE Opens(j) /\ proc'[k] = proc[k]
    BY <1>1, <1>2, <2>2
  <2>3. CASE Opens(k) /\ proc'[j] = proc[j]
    BY <1>1, <1>2, <2>3
  <2>4. ~(Opens(j) /\ Opens(k))
    <3>1. SUFFICES ASSUME Opens(j), Opens(k) PROVE FALSE
      OBVIOUS
    <3>. QED BY <1>2, <3>1 DEF Phases, Opens, TypeOK
  <2>. QED BY <1>2, <2>1, <2>2, <2>3, <2>4, RunningSteps
<1>. QED BY <1>0, <1>2 DEF NoneShared

(* What can happen to a log while a processor is about to open its files   *)
LEMMA OpeningSteps ==
  ASSUME Inv, Next, NEW k \in DOMAIN proc, proc'[k] = proc[k], proc[k].phase = "opening"
  PROVE  /\ dir' = dir /\ old' = old /\ \A j \in DOMAIN proc : ~Opens(j)
         /\ \A n \in {"processed", "current"} : ~IsExec(n) => ~IsExec(n)'
<1>. USE DEF Inv, Procs
<1>1. (pc = "wait" /\ k = crashes) \/ (pc = "stopped" /\ k + 1 = crashes)
  BY DEF Phases
<1>2. \A j \in DOMAIN proc : ~Opens(j)
  <2>1. SUFFICES ASSUME NEW j \in DOMAIN proc, Opens(j) PROVE FALSE
    OBVIOUS
  <2>2. proc[j].phase = "opening" /\ j # k
    BY <2>1, OpensHeld DEF Opens
  <2>3. (pc = "wait" /\ j = crashes) \/ (pc = "stopped" /\ j + 1 = crashes)
    BY <2>2 DEF Phases
  <2>. QED BY <1>1, <2>2, <2>3 DEF TypeOK
<1>3. dir' = dir
  BY <1>1, <1>2, DirSteps DEF Dropping, DropState, DropNewstate, DropPrevious, DropProcessed, Drop,
     UnlinkFinished, UnlinkPrevious, EmptyState, Creating, CreateCurrent, RenameCurrent, RenameNewstate, At
<1>4. old' = old
  BY <1>1, OldSteps DEF Link, RemoveOldest, At
<1>5. ASSUME NEW n \in {"processed", "current"}, ~IsExec(n), IsExec(n)' PROVE FALSE
  <2>1. dir[n] \in Inodes /\ ino'[dir[n]].exec /\ ~ino[dir[n]].exec
    BY <1>3, <1>5, DirType DEF IsExec, Names
  <2>. QED BY <1>1, <2>1, ExecSteps DEF MarkPrevious, MarkProcessed, Quit, At
<1>. QED BY <1>2, <1>3, <1>4, <1>5

(* What the next processor opens is nobody else's.                         *)
LEMMA OpeningStep ==
  ASSUME Inv, Next
  PROVE  Opening'
<1>. USE DEF Inv, Procs
<1>0. DOMAIN proc' = DOMAIN proc
  BY CrashesIsProcess, RunningSteps
<1>1. SUFFICES ASSUME NEW k \in DOMAIN proc, proc'[k].phase = "opening"
               PROVE  /\ ~IsExec("processed")' /\ ~IsExec("current")'
                      /\ \A n \in Names : ~Missing(n)' => ~IsOld(dir[n])'
                      /\ \A j \in DOMAIN proc : proc'[j].phase = "running" =>
                           dir'["previous"] # proc'[j].in /\ dir'["processed"] # proc'[j].out
                           /\ dir'["newstate"] # proc'[j].ns
  BY <1>0 DEF Opening
<1>2. CASE proc'[k] = proc[k]
  <2>1. proc[k].phase = "opening"
    BY <1>1, <1>2
  <2>2. /\ dir' = dir /\ old' = old /\ \A j \in DOMAIN proc : ~Opens(j)
        /\ \A n \in {"processed", "current"} : ~IsExec(n) => ~IsExec(n)'
    BY <1>2, <2>1, OpeningSteps
  <2>3. \A j \in DOMAIN proc : proc'[j].phase = "running" => proc'[j] = proc[j]
    BY <2>2, RunningSteps
  <2>4. /\ ~IsExec("processed") /\ ~IsExec("current")
        /\ \A n \in Names : ~Missing(n) => ~IsOld(dir[n])
        /\ \A j \in DOMAIN proc : proc[j].phase = "running" =>
             dir["previous"] # proc[j].in /\ dir["processed"] # proc[j].out /\ dir["newstate"] # proc[j].ns
    BY <2>1 DEF Opening
  <2>. QED BY <2>2, <2>3, <2>4 DEF Missing, IsOld
<1>3. CASE Fork /\ k = crashes
  <2>1. pc = "fork" /\ dir' = dir /\ old' = old /\ ino' = ino
    BY <1>3 DEF Fork, At, disk
  <2>2. ~IsExec("processed")
    BY <2>1 DEF Place, WhileRotating
  <2>3. ~IsExec("current")
    BY <2>1 DEF Files, Descriptor, HasFd, IsExec
  <2>4. \A n \in Names : ~Missing(n) => ~IsOld(dir[n])
    BY <2>1 DEF Shape, BothNames, InFinish
  <2>5. ASSUME NEW j \in DOMAIN proc, proc'[j].phase = "running"
        PROVE  dir["previous"] # proc'[j].in /\ dir["processed"] # proc'[j].out
               /\ dir["newstate"] # proc'[j].ns
    <3>1. ~Opens(j)
      BY <2>1, <2>5 DEF Opens, Phases
    <3>2. proc'[j] = proc[j] /\ proc[j].phase = "running"
      BY <2>5, <3>1, RunningSteps
    <3>3. j # crashes
      BY <2>1, <3>2 DEF Phases, TypeOK
    <3>. QED BY <2>1, <3>2, <3>3 DEF Reach, Restarting, InFinish
  <2>. QED BY <2>1, <2>2, <2>3, <2>4, <2>5 DEF IsExec, Missing, IsOld
<1>. QED BY <1>1, <1>2, <1>3, RunningSteps

LEMMA NewNames ==
  ASSUME Inv, Next, NEW n \in Names, dir'[n] # NoInode
  PROVE  \/ dir'[n] = dir[n]
         \/ ~Linked(dir'[n]) /\ ~HeldOpen(dir'[n])
         \/ RenameCurrent /\ n = "previous" /\ dir'[n] = dir["current"]
         \/ RenameNewstate /\ n = "state" /\ dir'[n] = dir["newstate"]
<1>. USE DEF Inv, Shape
<1>0. dir \in [Names -> Inodes \cup {NoInode}]
  BY DEF TypeOK
<1>1. ASSUME NEW m \in Names, Unlink(m) PROVE dir'[n] = dir[n]
  BY <1>0, <1>1 DEF Unlink
<1>2. CASE EmptyState \/ Creating
  <2>1. ~Linked(NewInode) /\ ~HeldOpen(NewInode)
    BY <1>2, NewFile DEF EmptyState, Creating, CreateCurrent, IsOpen, HeldOpen
  <2>2. dir'[n] = dir[n] \/ dir'[n] = NewInode
    BY <1>0, <1>2 DEF EmptyState, Creating, CreateCurrent
  <2>. QED BY <2>1, <2>2
<1>3. CASE RenameCurrent
  BY <1>0, <1>3 DEF RenameCurrent, Names
<1>4. CASE RenameNewstate
  BY <1>0, <1>4 DEF RenameNewstate, Names
<1>5. ASSUME NEW k \in DOMAIN proc, Opens(k)
      PROVE  dir'[n] = dir[n] \/ (~Linked(dir'[n]) /\ ~HeldOpen(dir'[n]))
  <2>1. PICK out, ns \in Inodes :
          /\ Gets("processed", out) /\ Gets("newstate", ns)
          /\ dir' = [dir EXCEPT !["processed"] = out, !["newstate"] = ns]
    BY <1>5, OpensDoes
  <2>2. ASSUME NEW i, NEW m \in Names, Gets(m, i) PROVE i = dir[m] \/ (~Linked(i) /\ ~HeldOpen(i))
    BY <2>2 DEF Gets, IsOpen, HeldOpen
  <2>3. CASE n = "processed"
    <3>1. dir'[n] = out
      BY <1>0, <2>1, <2>3 DEF Names
    <3>. QED BY <2>1, <2>2, <2>3, <3>1
  <2>4. CASE n = "newstate"
    <3>1. dir'[n] = ns
      BY <1>0, <2>1, <2>4 DEF Names
    <3>. QED BY <2>1, <2>2, <2>4, <3>1
  <2>5. CASE n \notin {"processed", "newstate"}
    BY <1>0, <2>1, <2>5 DEF Names
  <2>. QED BY <2>3, <2>4, <2>5
<1>. QED BY <1>1, <1>2, <1>3, <1>4, <1>5, DirSteps

Reaches(k) ==
  /\ ~IsOld(proc[k].out) /\ ~IsOld(proc[k].ns)
  /\ ~ino[proc[k].out].exec /\ ~ino[proc[k].out].cut
  /\ \A n \in Names : /\ dir[n] = proc[k].in => n = "previous"
                      /\ dir[n] = proc[k].out => n = "processed"
                      /\ dir[n] = proc[k].ns => n = "newstate"
  /\ IF k = crashes
     THEN dir["previous"] = proc[k].in /\ dir["processed"] = proc[k].out /\ dir["newstate"] = proc[k].ns
     ELSE /\ dir["newstate"] = proc[k].ns => pc \in {"stopped", "open", "r_newstate"}
          /\ dir["processed"] = proc[k].out => Restarting
          /\ dir["previous"] = proc[k].in => Restarting \/ (InFinish /\ fin.next = "r_current")

(* Where the restart of the next multilog has not yet got to               *)
LEMMA RestartSteps ==
  ASSUME Inv, Next, NEW k \in DOMAIN proc, proc'[k] = proc[k], proc[k].phase = "running", k < crashes
  PROVE  /\ dir'["newstate"] = proc[k].ns => pc' \in {"stopped", "open", "r_newstate"}
         /\ dir'["processed"] = proc[k].out => Restarting'
         /\ dir'["previous"] = proc[k].in => Restarting' \/ (InFinish' /\ fin'.next = "r_current")
<1>. USE DEF Inv, Procs
<1>0. /\ proc[k].in \in Inodes /\ proc[k].out \in Inodes /\ proc[k].ns \in Inodes
      /\ dir \in [Names -> Inodes \cup {NoInode}] /\ NoInode \notin Inodes /\ k # crashes
  BY InodeOrNone DEF Phases, TypeOK
<1>1. Reaches(k)
  BY DEF Reach, Reaches
<1>2. HeldOpen(proc[k].in) /\ HeldOpen(proc[k].out) /\ HeldOpen(proc[k].ns)
  BY DEF HeldOpen, Held
<1>3. RenameCurrent => dir["current"] # proc[k].in
  BY <1>1 DEF Reaches, Names
<1>4. /\ dir'["newstate"] = proc[k].ns => dir["newstate"] = proc[k].ns
      /\ dir'["processed"] = proc[k].out => dir["processed"] = proc[k].out
      /\ dir'["previous"] = proc[k].in => dir["previous"] = proc[k].in
  BY <1>0, <1>2, <1>3, NewNames DEF Names
<1>5. CASE Kill \/ Outage
  BY <1>5, CrashSteps DEF Restarting
<1>6. CASE pc' = pc /\ fin' = fin
  BY <1>0, <1>1, <1>4, <1>6 DEF Reaches, Restarting, InFinish
<1>7. CASE Restart
  <2>1. CASE Resume
    <3>1. dir["previous"] = NoInode /\ dir["processed"] = NoInode /\ dir["newstate"] = NoInode
      BY <2>1 DEF Resume, Kept, ExecMeansSafe
    <3>. QED BY <1>0, <1>4, <3>1
  <2>2. CASE DropNewstate
    <3>1. dir'["newstate"] = NoInode /\ Restarting'
      BY <1>0, <2>2 DEF DropNewstate, Drop, Unlink, At, Restarting, Names
    <3>. QED BY <1>0, <3>1
  <2>3. CASE DropPrevious
    <3>1. dir'["previous"] = NoInode /\ pc = "r_previous"
      BY <1>0, <2>3 DEF DropPrevious, Unlink, At, Names
    <3>2. dir["processed"] # proc[k].out
      BY <1>1, <3>1 DEF Reaches, Place, WhileRestarting, IsExec
    <3>3. dir["newstate"] # proc[k].ns
      BY <1>0, <3>1 DEF Place, WhileRestarting, Missing
    <3>. QED BY <1>0, <1>4, <3>1, <3>2, <3>3
  <2>4. CASE DropProcessed
    <3>1. dir'["processed"] = NoInode /\ pc = "r_processed" /\ InFinish' /\ fin'.next = "r_current"
      BY <1>0, <2>4 DEF DropProcessed, Unlink, At, Finish, InFinish, Names
    <3>2. dir["newstate"] # proc[k].ns
      BY <1>0, <3>1 DEF Place, WhileRestarting, Missing
    <3>. QED BY <1>0, <1>4, <3>1, <3>2
  <2>5. CASE FinishCurrent \/ EmptyState \/ CreateCurrent("create", "idle")
    <3>1. NoLeftOvers
      BY <2>5 DEF FinishCurrent, EmptyState, CreateCurrent, At, Place, WhileRestarting
    <3>. QED BY <1>0, <1>4, <3>1 DEF NoLeftOvers, Missing
  <2>. QED
    BY <1>7, <2>1, <2>2, <2>3, <2>4, <2>5 DEF Restart, Start, DropState, Drop, At, Restarting
<1>8. CASE Finishing
  <2>1. InFinish
    BY <1>8 DEF Finishing, NoFile, AlreadyLinked, Link, LinkFails, UnlinkFinished, RemoveOldest, Fits, At,
                InFinish
  <2>2. dir["newstate"] # proc[k].ns /\ dir["processed"] # proc[k].out
    BY <1>0, <1>1, <2>1 DEF Reaches, Restarting, InFinish
  <2>3. dir["previous"] = proc[k].in => fin.next = "r_current"
    BY <1>0, <1>1, <2>1 DEF Reaches, Restarting, InFinish
  <2>4. CASE NoFile \/ Fits
    <3>1. dir["previous"] = NoInode
      BY <2>1, <2>3, <2>4, <1>0 DEF NoFile, Fits, At, Place, WhileFinishing, Missing
    <3>. QED BY <1>0, <1>4, <2>2, <3>1
  <2>5. CASE LinkFails
    <3>1. pc' = pc /\ fin'.next = fin.next
      BY <2>5 DEF LinkFails, TypeOK
    <3>. QED BY <1>4, <2>1, <2>2, <2>3, <3>1 DEF InFinish
  <2>. QED
    BY <1>4, <1>8, <2>1, <2>2, <2>3, <2>4, <2>5
    DEF Finishing, AlreadyLinked, Link, UnlinkFinished, RemoveOldest, At, InFinish
<1>9. CASE Rotation \/ Writing \/ Quitting \/ Put \/ Flush \/ ForceRotate \/ EndOfInput
  <2>1. ~Restarting /\ ~InFinish
    BY <1>9 DEF Rotation, SyncCurrent, RenameCurrent, CreateCurrent, MarkPrevious, Fork, ProcessorFailed,
      ProcessorDone, MarkProcessed, SyncNewstate, UnlinkPrevious, RenameNewstate, Writing, WriteFull, Write,
      Flushed, Quitting, QuitSync, Quit, Put, Flush, ForceRotate, EndOfInput, At, Restarting, InFinish
  <2>. QED BY <1>0, <1>1, <1>4, <2>1 DEF Reaches, Restarting
<1>. QED
  BY <1>5, <1>6, <1>7, <1>8, <1>9
  DEF Next, Multilog, Environment, Processors, Opens, CannotOpen, Outputs, Succeeds, Fails, Processing

LEMMA ReachKeeps ==
  ASSUME Inv, Next, NEW k \in DOMAIN proc, proc'[k] = proc[k], proc[k].phase = "running"
  PROVE  Reaches(k)'
<1>. USE DEF Inv, Procs
<1>0. /\ proc[k].in \in Inodes /\ proc[k].out \in Inodes /\ proc[k].ns \in Inodes
      /\ dir \in [Names -> Inodes \cup {NoInode}] /\ NoInode \notin Inodes
      /\ (pc = "wait" /\ k = crashes) \/ k < crashes
      /\ k \in Nat /\ crashes \in Nat
  BY InodeOrNone, CyclogAssumption DEF Phases, TypeOK
<1>1. Reaches(k)
  BY DEF Reach, Reaches
<1>2. HeldOpen(proc[k].in) /\ HeldOpen(proc[k].out) /\ HeldOpen(proc[k].ns)
  BY DEF HeldOpen, Held
<1>3. ASSUME NEW i \in {proc[k].out, proc[k].ns} PROVE ~IsOld(i)'
  <2>1. CASE Link
    <3>1. pc = "f_stat" /\ fin.file \in Names
      BY <2>1 DEF Link, At, TypeOK
    <3>2. dir[fin.file] # i
      BY <1>0, <1>1, <3>1 DEF Reaches, Restarting
    <3>. QED BY <1>1, <2>1, <3>2, OldLinked DEF Reaches
  <2>. QED BY <1>1, <2>1, OldSteps, OldRemoved DEF Reaches, IsOld
<1>4. ~ino'[proc[k].out].exec /\ ~ino'[proc[k].out].cut
  <2>1. MarkPrevious => proc[k].out # dir["previous"]
    BY <1>1 DEF Reaches, Names
  <2>2. MarkProcessed => proc[k].out # dir["processed"]
    BY <1>0, <1>1 DEF MarkProcessed, At, Reaches, Restarting
  <2>3. Quit => proc[k].out # dir["current"]
    BY <1>1 DEF Reaches, Names
  <2>4. ~ino'[proc[k].out].exec
    BY <1>0, <1>1, <2>1, <2>2, <2>3, ExecSteps DEF Reaches
  <2>5. ~Outage
    <3>1. Outage => proc'[k] = NoProcessor
      BY DEF Outage
    <3>. QED BY <3>1 DEF NoProcessor
  <2>6. ~ino'[proc[k].out].cut
    BY <1>0, <1>1, <2>5, CutSteps DEF Reaches
  <2>. QED BY <2>4, <2>6
<1>5. ASSUME NEW n \in Names
      PROVE  /\ dir'[n] = proc[k].in => n = "previous"
             /\ dir'[n] = proc[k].out => n = "processed"
             /\ dir'[n] = proc[k].ns => n = "newstate"
  <2>1. RenameCurrent => dir["current"] \notin {proc[k].in, proc[k].out, proc[k].ns}
    BY <1>1 DEF Reaches, Names
  <2>2. RenameNewstate => dir["newstate"] \notin {proc[k].in, proc[k].out, proc[k].ns}
    <3>1. RenameNewstate => pc = "n_rename"
      BY DEF RenameNewstate, At
    <3>. QED BY <1>0, <1>1, <3>1 DEF Reaches, Names
  <2>. QED BY <1>0, <1>1, <1>2, <2>1, <2>2, NewNames DEF Reaches
<1>6. CASE k = crashes'
  <2>1. k = crashes /\ pc = "wait"
    BY <1>0, <1>6, CrashSteps
  <2>2. ~Kill /\ ~Outage
    BY <1>0, <1>6, <2>1, CrashSteps
  <2>3. \A j \in DOMAIN proc : ~Opens(j)
    BY <2>1, <1>0 DEF Opens, Phases
  <2>4. dir' = dir
    BY <2>1, <2>3, DirSteps DEF Dropping, DropState, DropNewstate, DropPrevious, DropProcessed, Drop,
       UnlinkFinished, UnlinkPrevious, EmptyState, Creating, CreateCurrent, RenameCurrent, RenameNewstate, At
  <2>5. dir["previous"] = proc[k].in /\ dir["processed"] = proc[k].out /\ dir["newstate"] = proc[k].ns
    BY <1>1, <2>1 DEF Reaches
  <2>. QED BY <1>3, <1>4, <1>5, <1>6, <2>4, <2>5 DEF Reaches
<1>7. CASE k # crashes'
  <2>1. /\ dir'["newstate"] = proc[k].ns => pc' \in {"stopped", "open", "r_newstate"}
        /\ dir'["processed"] = proc[k].out => Restarting'
        /\ dir'["previous"] = proc[k].in => Restarting' \/ (InFinish' /\ fin'.next = "r_current")
    <3>1. CASE k < crashes
      BY <3>1, RestartSteps
    <3>2. CASE k = crashes
      BY <1>7, <3>2, CrashSteps DEF Restarting
    <3>. QED BY <1>0, <3>1, <3>2
  <2>. QED BY <1>3, <1>4, <1>5, <1>7, <2>1 DEF Reaches
<1>. QED BY <1>6, <1>7

(* Nobody but its owner touches what a processor holds.                    *)
LEMMA ReachStep ==
  ASSUME Inv, Next
  PROVE  Reach'
<1>. USE DEF Inv, Procs
<1>0. DOMAIN proc' = DOMAIN proc
  BY CrashesIsProcess, RunningSteps
<1>1. SUFFICES ASSUME NEW k \in DOMAIN proc, proc'[k].phase = "running" PROVE Reaches(k)'
  BY <1>0 DEF Reach, Reaches
<1>2. CASE proc'[k] = proc[k]
  BY <1>1, <1>2, ReachKeeps
<1>3. CASE Opens(k)
  <2>1. /\ proc'[k].in = dir'["previous"] /\ proc'[k].out = dir'["processed"] /\ proc'[k].ns = dir'["newstate"]
        /\ proc'[k].in \in Inodes /\ proc'[k].out \in Inodes /\ proc'[k].ns \in Inodes
        /\ Gets("processed", proc'[k].out) /\ Gets("newstate", proc'[k].ns)
        /\ ino'[proc'[k].out].exec = ino[proc'[k].out].exec /\ ~ino'[proc'[k].out].cut
    BY <1>3, OpensHeld
  <2>2. old' = old /\ pc' = pc /\ crashes' = crashes /\ proc[k].phase = "opening"
    BY <1>3 DEF Opens, Processing
  <2>3. /\ ~IsExec("processed") /\ \A n \in Names : ~Missing(n) => ~IsOld(dir[n])
    BY <2>2 DEF Opening
  <2>4. \A j \in DOMAIN old' : old'[j].ino # proc'[k].out /\ old'[j].ino # proc'[k].ns
    <3>1. ~IsOld(proc'[k].out) /\ ~IsOld(proc'[k].ns)
      BY <2>1, <2>3 DEF Gets, Linked, Names
    <3>. QED BY <2>2, <3>1 DEF IsOld
  <2>5. ~ino'[proc'[k].out].exec
    <3>1. CASE Missing("processed")
      <4>1. ino[proc'[k].out] = Blank
        BY <2>1, <3>1 DEF Gets, Shape, FreeBlank
      <4>. QED BY <2>1, <4>1, BlankFile
    <3>2. CASE ~Missing("processed")
      BY <2>1, <2>3, <3>2 DEF Gets, IsExec, Missing
    <3>. QED BY <3>1, <3>2
  <2>6. OneName'
    BY OneNameStep
  <2>7. \A n \in Names : /\ dir'[n] = proc'[k].in => n = "previous"
                         /\ dir'[n] = proc'[k].out => n = "processed"
                         /\ dir'[n] = proc'[k].ns => n = "newstate"
    BY <2>1, <2>6, InodeOrNone DEF OneName, Names
  <2>8. (pc = "wait" /\ k = crashes) \/ pc = "stopped"
    BY <2>2 DEF Phases
  <2>. QED BY <2>1, <2>2, <2>4, <2>5, <2>7, <2>8 DEF Reaches, Restarting, IsOld
<1>. QED BY <1>1, <1>2, <1>3, RunningSteps

LEMMA ProcsStep ==
  ASSUME Inv, Next
  PROVE  Procs'
  BY PhasesStep, NoneSharedStep, ReachStep, OpeningStep DEF Procs

-----------------------------------------------------------------------------
(* Where multilog is                                                       *)

LEMMA OpensAt ==
  ASSUME Inv, NEW k \in DOMAIN proc, Opens(k)
  PROVE  (pc = "wait" /\ k = crashes) \/ pc = "stopped"
  BY DEF Opens, Inv, Procs, Phases

NamedTouches(n) ==
  \/ n = "current" /\ (Resume \/ Write \/ SyncCurrent \/ QuitSync \/ Quit)
  \/ n = "previous" /\ MarkPrevious
  \/ n = "processed" /\ (ProcessorDone \/ MarkProcessed)
  \/ n = "newstate" /\ SyncNewstate
  \/ n \in {"processed", "newstate"} /\ \E k \in DOMAIN proc : Opens(k)
  \/ /\ n \in {"processed", "newstate"} /\ (pc = "wait" \/ Restarting)
     /\ \E k \in DOMAIN proc : Outputs(k) /\ (n = "processed" => dir[n] = proc[k].out)
  \/ Outage /\ ino'[dir[n]] = Torn(dir[n]) /\ dir[n] \in Unsynced

LEMMA NamedSteps ==
  ASSUME Inv, Next, NEW n \in Names, ~Missing(n), dir'[n] = dir[n]
  PROVE  dir[n] \in Inodes /\ (ino'[dir[n]] = ino[dir[n]] \/ NamedTouches(n))
<1>. USE DEF Inv, Shape
<1>1. dir[n] \in Inodes /\ Linked(dir[n]) /\ Linked(dir[n])' /\ \A m \in Names : dir[m] = dir[n] => m = n
  BY DirType DEF Missing, Linked, OneName
<1>2. ino'[dir[n]] = ino[dir[n]] \/ Touches(dir[n])
  BY <1>1, FileSteps
<1>3. ASSUME NEW k \in DOMAIN proc, Outputs(k), dir[n] \in {proc[k].out, proc[k].ns}
      PROVE  /\ n \in {"processed", "newstate"} /\ (n = "processed" => dir[n] = proc[k].out)
             /\ pc = "wait" \/ Restarting
  <2>1. /\ dir[n] = proc[k].out => n = "processed"
        /\ dir[n] = proc[k].ns => n = "newstate"
        /\ k # crashes /\ dir["newstate"] = proc[k].ns => pc \in {"stopped", "open", "r_newstate"}
        /\ k # crashes /\ dir["processed"] = proc[k].out => Restarting
    BY <1>3 DEF Outputs, Procs, Reach
  <2>2. k = crashes => pc = "wait"
    BY <1>3 DEF Outputs, Procs, Phases, TypeOK
  <2>. QED BY <1>3, <2>1, <2>2 DEF Restarting
<1>4. Touches(dir[n]) => NamedTouches(n)
  <2>1. {"current", "previous", "processed", "newstate"} \subseteq Names
    BY DEF Names
  <2>. QED BY <1>1, <1>3, <2>1 DEF Touches, NamedTouches
<1>. QED BY <1>1, <1>2, <1>4

LEMMA SafeStays ==
  ASSUME Inv, NEW i \in Inodes, Safe(i)
  PROVE  /\ ino'[i] = ino[i] => Safe(i)'
         /\ \A b : ino'[i] = [ino[i] EXCEPT !.exec = b] => Safe(i)'
         /\ ino'[i] = [ino[i] EXCEPT !.synced = Len(ino[i].data)] => Safe(i)'
<1>1. \A b : LET r == [ino[i] EXCEPT !.exec = b] IN
             r.synced = ino[i].synced /\ r.data = ino[i].data /\ r.cut = ino[i].cut
  BY DEF Inv, TypeOK, File
<1>2. LET r == [ino[i] EXCEPT !.synced = Len(ino[i].data)] IN
      r.synced = Len(ino[i].data) /\ r.data = ino[i].data /\ r.cut = ino[i].cut
  BY DEF Inv, TypeOK, File
<1>. QED BY <1>1, <1>2 DEF Safe

(* fsync() makes a file safe that no outage has cut.                       *)
LEMMA SyncSafe ==
  ASSUME Inv, NEW i \in Inodes, ~ino[i].cut, Sync(i)
  PROVE  Safe(i)' /\ ino'[i].data = ino[i].data /\ ino'[i].exec = ino[i].exec
<1>1. LET r == [ino[i] EXCEPT !.synced = Len(ino[i].data)] IN
      r.synced = Len(ino[i].data) /\ r.data = ino[i].data /\ r.cut = ino[i].cut /\ r.exec = ino[i].exec
  BY DEF Inv, TypeOK, File
<1>2. ino'[i] = [ino[i] EXCEPT !.synced = Len(ino[i].data)]
  BY DEF Inv, TypeOK, Sync
<1>. QED BY <1>1, <1>2 DEF Safe

LEMMA WhileWritingStep ==
  ASSUME Inv, Next
  PROVE  WhileWriting'
<1>. USE DEF Inv
<1>0. /\ dir \in [Names -> Inodes \cup {NoInode}] /\ NoInode \notin Inodes /\ ino \in [Inodes -> File]
      /\ {"current", "previous", "processed", "newstate", "state"} \subseteq Names
  BY InodeOrNone DEF TypeOK, Names
<1>1. dir' = dir /\ NoLeftOvers => NoLeftOvers'
  BY DEF NoLeftOvers, Missing
<1>2. InFinish => fin \in Finishes
  BY DEF Place, WhileFinishing
<1>3. pc' \in {"idle", "flush", "sync", "rename", "q_sync", "q_mode"} => NoLeftOvers'
  <2>1. CASE Resume
    BY <1>1, <2>1 DEF Resume, Kept, ExecMeansSafe, NoLeftOvers, Missing
  <2>2. CASE CreateCurrent("create", "idle")
    <3>1. NoLeftOvers
      BY <2>2 DEF CreateCurrent, At, Place, WhileRestarting
    <3>2. dir' = [dir EXCEPT !["current"] = fd']
      BY <2>2 DEF CreateCurrent
    <3>. QED BY <1>0, <3>1, <3>2 DEF NoLeftOvers, Missing
  <2>3. CASE NoFile \/ Fits
    <3>1. fin \in Finishes /\ Missing(fin.file) /\ Missing("newstate") /\ dir' = dir /\ pc' = fin.next
          /\ (fin.file # "previous" => Missing("previous")) /\ (fin.file # "processed" => Missing("processed"))
      BY <2>3 DEF NoFile, Fits, At, InFinish, Missing, disk, Place, WhileFinishing
    <3>2. NoLeftOvers
      BY <3>1 DEF NoLeftOvers, Finishes
    <3>. QED BY <1>1, <3>1, <3>2
  <2>4. CASE pc \in {"idle", "flush", "sync", "rename", "q_sync", "q_mode"} /\ ~RenameCurrent
    <3>1. NoLeftOvers
      BY <2>4 DEF Place, WhileWriting
    <3>2. dir' = dir
      BY <2>4, DirSteps, OpensAt DEF Dropping, DropState, DropNewstate, DropPrevious, DropProcessed, Drop,
         UnlinkFinished, UnlinkPrevious, EmptyState, Creating, CreateCurrent, RenameNewstate, At
    <3>. QED BY <1>1, <3>1, <3>2
  <2>5. CASE pc' = pc /\ RenameCurrent
    BY <2>5 DEF RenameCurrent, At
  <2>6. CASE Restart
    BY <2>1, <2>2, <2>6 DEF Restart, Start, DropState, DropNewstate, DropPrevious, DropProcessed, Drop,
                            FinishCurrent, EmptyState, At
  <2>7. CASE Finishing
    BY <2>3, <2>7 DEF Finishing, AlreadyLinked, Link, LinkFails, UnlinkFinished, RemoveOldest, At
  <2>8. CASE Rotation
    BY <2>4, <2>8 DEF Rotation, SyncCurrent, RenameCurrent, CreateCurrent, MarkPrevious, Fork, ProcessorFailed,
                      ProcessorDone, MarkProcessed, SyncNewstate, UnlinkPrevious, RenameNewstate, At
  <2>9. CASE Processors
    <3>1. pc' = pc
      BY <2>9 DEF Processors, Opens, CannotOpen, Outputs, Succeeds, Fails, Processing
    <3>2. ~RenameCurrent \/ pc' = "recreate"
      BY DEF RenameCurrent, At
    <3>. QED BY <2>4, <3>1, <3>2
  <2>10. CASE Writing \/ Quitting \/ Environment
    <3>1. ~RenameCurrent \/ pc' = "recreate"
      BY DEF RenameCurrent, At
    <3>. QED
      BY <2>4, <2>10, <3>1 DEF Writing, WriteFull, Write, Flushed, Quitting, QuitSync, Quit, Environment, Put, Flush,
           ForceRotate, EndOfInput, Kill, Outage, Died, At
  <2>. QED BY <2>6, <2>7, <2>8, <2>9, <2>10 DEF Next, Multilog
<1>4. pc' \in {"rename", "q_mode"} => Safe(fd)'
  <2>1. CASE SyncCurrent \/ QuitSync
    <3>1. fd \in Inodes /\ ~ino[fd].cut /\ Sync(fd) /\ fd' = fd
      BY <2>1 DEF SyncCurrent, QuitSync, At, d, Files, Descriptor, HasFd
    <3>2. \A i \in Inodes : ~ino[i].cut /\ Sync(i) => Safe(i)'
      BY SyncSafe
    <3>. QED BY <3>1, <3>2 DEF Safe
  <2>2. CASE pc' = pc /\ pc \in {"rename", "q_mode"} /\ fd' = fd
    <3>1. fd \in Inodes /\ fd = dir["current"] /\ Safe(fd) /\ NoLeftOvers
      BY <2>2 DEF Files, Descriptor, HasFd, Place, WhileWriting
    <3>2. dir'["current"] = dir["current"]
      BY <2>2, NameSteps DEF Creating, CreateCurrent, RenameCurrent, UnlinkFinished, At
    <3>3. ino'[fd] = ino[fd]
      BY <1>0, <2>2, <3>1, <3>2, CurrentSteps
      DEF Missing, Resume, Write, SyncCurrent, QuitSync, Quit, Outage, Died, At
    <3>. QED BY <2>2, <3>1, <3>3 DEF Safe
  <2>3. CASE Restart
    BY <2>3 DEF Restart, Start, Resume, DropState, DropNewstate, DropPrevious, DropProcessed, Drop,
                FinishCurrent, EmptyState, CreateCurrent, At
  <2>4. CASE Finishing
    <3>1. fin \in Finishes
      BY <1>2, <2>4 DEF Finishing, NoFile, AlreadyLinked, Link, LinkFails, UnlinkFinished, RemoveOldest, Fits,
                        At, InFinish
    <3>2. fin.next \notin {"rename", "q_mode"}
      BY <3>1 DEF Finishes
    <3>. QED BY <2>4, <3>2 DEF Finishing, NoFile, AlreadyLinked, Link, LinkFails, UnlinkFinished, RemoveOldest, Fits, At
  <2>5. CASE Rotation
    BY <2>1, <2>5 DEF Rotation, RenameCurrent, CreateCurrent, MarkPrevious, Fork, ProcessorFailed,
                      ProcessorDone, MarkProcessed, SyncNewstate, UnlinkPrevious, RenameNewstate, At
  <2>6. CASE Processors
    BY <2>2, <2>6 DEF Processors, Opens, CannotOpen, Outputs, Succeeds, Fails, Processing, d
  <2>7. CASE Writing \/ Quitting \/ Environment
    BY <2>1, <2>7 DEF Writing, WriteFull, Write, Flushed, Quitting, Quit, Environment, Put, Flush,
                      ForceRotate, EndOfInput, Kill, Outage, Died, At
  <2>. QED BY <2>3, <2>4, <2>5, <2>6, <2>7 DEF Next, Multilog
<1>5. pc' \in {"q_sync", "q_mode"} => written' = input'
  <2>1. CASE Restart
    BY <2>1 DEF Restart, Start, Resume, DropState, DropNewstate, DropPrevious, DropProcessed, Drop,
                FinishCurrent, EmptyState, CreateCurrent, At
  <2>2. CASE Finishing
    <3>1. fin \in Finishes
      BY <1>2, <2>2 DEF Finishing, NoFile, AlreadyLinked, Link, LinkFails, UnlinkFinished, RemoveOldest, Fits,
                        At, InFinish
    <3>2. fin.next \notin {"q_sync", "q_mode"}
      BY <3>1 DEF Finishes
    <3>. QED BY <2>2, <3>2 DEF Finishing, NoFile, AlreadyLinked, Link, LinkFails, UnlinkFinished, RemoveOldest, Fits, At
  <2>3. CASE Rotation
    BY <2>3 DEF Rotation, SyncCurrent, RenameCurrent, CreateCurrent, MarkPrevious, Fork, ProcessorFailed,
                ProcessorDone, MarkProcessed, SyncNewstate, UnlinkPrevious, RenameNewstate, At
  <2>4. CASE Processors
    BY <2>4 DEF Processors, Opens, CannotOpen, Outputs, Succeeds, Fails, Processing, buffered, Place, WhileWriting
  <2>5. CASE Flushed
    BY <2>5 DEF Flushed, Pending, buffered, TypeOK
  <2>6. CASE WriteFull \/ Write \/ Quitting \/ Environment
    BY <2>6 DEF WriteFull, Write, Quitting, QuitSync, Quit, Environment, Put, Flush, buffered, Place, WhileWriting,
                      ForceRotate, EndOfInput, Kill, Outage, Died, At
  <2>. QED BY <2>1, <2>2, <2>3, <2>4, <2>5, <2>6 DEF Next, Multilog, Writing
<1>. QED BY <1>3, <1>4, <1>5 DEF WhileWriting

(* At each place of a rotation, the steps that are possible                *)
LEMMA RotatingAt ==
  ASSUME Inv, Next,
         pc' \in {"recreate", "mode", "fork", "wait", "p_mode", "n_sync", "p_unlink", "n_rename"}
  PROVE  \/ RenameCurrent \/ CreateCurrent("recreate", "mode") \/ MarkPrevious
         \/ Fork \/ ProcessorFailed \/ ProcessorDone \/ MarkProcessed \/ SyncNewstate \/ UnlinkPrevious
         \/ pc' = pc /\ fd' = fd /\ Processors /\ crashes' = crashes
<1>1. CASE Restart
  BY <1>1 DEF Restart, Start, Resume, DropState, DropNewstate, DropPrevious, DropProcessed, Drop,
              FinishCurrent, EmptyState, CreateCurrent, At
<1>2. CASE Finishing
  <2>1. fin \in Finishes
    <3>1. InFinish
      BY <1>2 DEF Finishing, NoFile, AlreadyLinked, Link, LinkFails, UnlinkFinished, RemoveOldest, Fits,
                        At, InFinish
    <3>. QED BY <3>1 DEF Inv, Place, WhileFinishing
  <2>2. fin.next \in {"flush", "r_current", "r_state"}
    BY <2>1 DEF Finishes
  <2>. QED BY <1>2, <2>2 DEF Finishing, NoFile, AlreadyLinked, Link, LinkFails, UnlinkFinished, RemoveOldest, Fits, At
<1>3. CASE Rotation
  BY <1>3 DEF Rotation, SyncCurrent, RenameNewstate, At
<1>4. CASE Processors
  BY <1>4 DEF Processors, Opens, CannotOpen, Outputs, Succeeds, Fails, Processing, d
<1>. QED
  BY <1>1, <1>2, <1>3, <1>4 DEF Next, Multilog, Writing, WriteFull, Write, Flushed, Quitting, QuitSync, Quit,
     Environment, Put, Flush, ForceRotate, EndOfInput, Kill, Outage, Died, At

(* What the processors leave alone while multilog waits                    *)
LEMMA PreviousSame ==
  ASSUME Inv, Next, Processors, pc \notin {"stopped"}, ~Missing("previous")
  PROVE  dir'["previous"] = dir["previous"] /\ ino'[dir["previous"]] = ino[dir["previous"]]
<1>1. ~Dropping /\ ~RenameCurrent /\ ~UnlinkFinished /\ ~MarkPrevious /\ ~Outage
  BY DEF Processors, Opens, CannotOpen, Outputs, Succeeds, Fails, Processing, Dropping, DropState, DropNewstate,
         DropPrevious, DropProcessed, Drop, UnlinkFinished, UnlinkPrevious, RenameCurrent, MarkPrevious, At,
         Outage, Died, Inv, TypeOK
<1>2. dir'["previous"] = dir["previous"]
  BY <1>1, NameSteps DEF Dropping
<1>. QED BY <1>1, <1>2, NamedSteps DEF NamedTouches, Names

LEMMA NotWaiting ==
  ASSUME Inv, Next, Processors, pc \notin {"wait", "stopped"}
  PROVE  /\ dir' = dir
         /\ ~Restarting => \A n \in Names : ~Missing(n) => ino'[dir[n]] = ino[dir[n]]
<1>1. /\ ~Dropping /\ ~EmptyState /\ ~Creating /\ ~RenameCurrent /\ ~RenameNewstate
      /\ ~Resume /\ ~Write /\ ~SyncCurrent /\ ~QuitSync /\ ~Quit /\ ~MarkPrevious /\ ~ProcessorDone
      /\ ~MarkProcessed /\ ~SyncNewstate /\ ~Outage
  <2>1. pc' = pc /\ crashes' = crashes /\ written' = written
    BY DEF Processors, Opens, CannotOpen, Outputs, Succeeds, Fails, Processing, buffered
  <2>2. written \in Nat /\ crashes \in Nat
    BY CyclogAssumption DEF Inv, TypeOK
  <2>3. ~Write
    BY <2>1, <2>2, WriteDoes
  <2>. QED
    BY <2>1, <2>2, <2>3 DEF Dropping, DropState, DropNewstate, DropPrevious, DropProcessed, Drop, UnlinkFinished,
      UnlinkPrevious, EmptyState, Creating, CreateCurrent, RenameCurrent, RenameNewstate, Resume,
      SyncCurrent, QuitSync, Quit, MarkPrevious, ProcessorDone, MarkProcessed, SyncNewstate, Outage, Died, At
<1>2. \A k \in DOMAIN proc : ~Opens(k)
  BY OpensAt
<1>3. dir' = dir
  BY <1>1, <1>2, DirSteps
<1>. QED BY <1>1, <1>2, <1>3, NamedSteps DEF NamedTouches

LEMMA RotatedStep ==
  ASSUME Inv, Next, pc' \in {"recreate", "mode", "fork", "wait"}
  PROVE  Rotated'
<1>. USE DEF Inv, Shape
<1>0. /\ dir \in [Names -> Inodes \cup {NoInode}] /\ NoInode \notin Inodes /\ ino \in [Inodes -> File]
      /\ {"current", "previous", "processed", "newstate", "state"} \subseteq Names
  BY InodeOrNone DEF TypeOK, Names
<1>1. ASSUME dir'["previous"] = dir["previous"], Rotated,
             \/ ino'[dir["previous"]] = ino[dir["previous"]]
             \/ ino'[dir["previous"]] = [ino[dir["previous"]] EXCEPT !.exec = TRUE]
      PROVE  Rotated'
  <2>1. dir["previous"] \in Inodes /\ Safe(dir["previous"])
    BY <1>0, <1>1 DEF Rotated, Missing
  <2>2. \A i \in Inodes : Safe(i) /\ (ino'[i] = ino[i] \/ ino'[i] = [ino[i] EXCEPT !.exec = TRUE]) => Safe(i)'
    BY SafeStays
  <2>. QED BY <1>1, <2>1, <2>2 DEF Rotated, Missing, Safe
<1>2. CASE RenameCurrent
  <2>1. pc = "rename" /\ dir["previous"] = NoInode /\ Safe(fd) /\ fd = dir["current"] /\ fd \in Inodes
    BY <1>2 DEF RenameCurrent, At, Place, WhileWriting, NoLeftOvers, Missing, Files, Descriptor, HasFd
  <2>2. ino' = ino /\ dir'["previous"] = fd
    BY <1>0, <1>2, <2>1 DEF RenameCurrent, Unlinked
  <2>. QED BY <1>0, <2>1, <2>2 DEF Rotated, Missing, Safe
<1>3. CASE CreateCurrent("recreate", "mode")
  <2>1. Rotated
    BY <1>3 DEF CreateCurrent, At, Place, WhileRotating
  <2>2. dir' = [dir EXCEPT !["current"] = NewInode] /\ ino' = [ino EXCEPT ![NewInode] = Blank]
    BY <1>3 DEF CreateCurrent
  <2>3. dir["previous"] # NewInode
    BY <1>0, <1>3, NewFile DEF CreateCurrent, Linked
  <2>. QED BY <1>0, <1>1, <2>1, <2>2, <2>3 DEF Rotated, Missing
<1>4. CASE MarkPrevious
  <2>1. Rotated /\ dir' = dir
    BY <1>4 DEF MarkPrevious, At, Place, WhileRotating
  <2>2. ino' = [ino EXCEPT ![dir["previous"]].exec = TRUE]
    BY <1>4, Zenon DEF MarkPrevious
  <2>. QED BY <1>0, <1>1, <2>1, <2>2 DEF Rotated, Missing
<1>5. CASE Fork \/ ProcessorFailed
  BY <1>1, <1>5 DEF Fork, ProcessorFailed, disk, At, Place, WhileRotating
<1>6. CASE pc' = pc /\ Processors
  <2>1. Rotated
    BY <1>6 DEF Place, WhileRotating
  <2>. QED BY <1>1, <1>6, <2>1, PreviousSame DEF Rotated
<1>. QED
  BY <1>2, <1>3, <1>4, <1>5, <1>6, RotatingAt DEF ProcessorDone, MarkProcessed, SyncNewstate, UnlinkPrevious, At

(* What the processor of this multilog writes is not marked until it is    *)
(* done                                                                    *)
LEMMA UnmarkedStep ==
  ASSUME Inv, Next, pc' \in {"fork", "wait", "p_mode"}
  PROVE  ~IsExec("processed")'
<1>. USE DEF Inv, Shape
<1>0. /\ dir \in [Names -> Inodes \cup {NoInode}] /\ NoInode \notin Inodes /\ ino \in [Inodes -> File]
      /\ {"current", "previous", "processed", "newstate", "state"} \subseteq Names
  BY InodeOrNone DEF TypeOK, Names
<1>1. ASSUME dir'["processed"] = dir["processed"], ~IsExec("processed"), ~MarkProcessed PROVE ~IsExec("processed")'
  <2>1. SUFFICES ASSUME dir["processed"] \in Inodes, ino'[dir["processed"]].exec PROVE FALSE
    BY <1>0, <1>1 DEF IsExec
  <2>2. ~ino[dir["processed"]].exec
    BY <1>0, <1>1, <2>1 DEF IsExec
  <2>3. dir["processed"] # dir["current"]
    BY <1>0, <2>1 DEF OneName
  <2>4. MarkPrevious => dir["processed"] # dir["previous"]
    BY <1>0, <2>1 DEF OneName
  <2>. QED BY <1>1, <2>1, <2>2, <2>3, <2>4, ExecSteps
<1>2. CASE MarkPrevious
  <2>1. Missing("processed") /\ dir' = dir
    BY <1>2 DEF MarkPrevious, At, Place, WhileRotating
  <2>. QED BY <2>1 DEF Missing, IsExec
<1>3. CASE Fork \/ ProcessorFailed
  BY <1>1, <1>3 DEF Fork, ProcessorFailed, MarkProcessed, disk, At, Place, WhileRotating
<1>4. CASE ProcessorDone
  BY <1>1, <1>4 DEF ProcessorDone, MarkProcessed, At, Place, WhileRotating
<1>5. CASE pc' = pc /\ Processors
  <2>1. ~IsExec("processed")
    <3>1. pc = "p_mode" => ~IsExec("processed")
      BY DEF Place, WhileRotating, IsExec
    <3>. QED BY <1>5, <3>1 DEF Place, WhileRotating
  <2>2. ~MarkProcessed
    BY <1>5 DEF MarkProcessed, At
  <2>3. CASE dir'["processed"] = dir["processed"]
    BY <1>1, <2>1, <2>2, <2>3
  <2>4. ASSUME NEW k \in DOMAIN proc, Opens(k) PROVE ~IsExec("processed")'
    <3>1. /\ proc'[k].phase = "running" /\ proc'[k].out = dir'["processed"]
      BY <2>4, OpensHeld
    <3>2. ~ino'[proc'[k].out].exec
      BY <3>1, ReachStep, RunningSteps DEF Reach
    <3>. QED BY <3>1, <3>2 DEF IsExec
  <2>5. ~DropProcessed /\ ~UnlinkFinished
    BY <1>5 DEF DropProcessed, UnlinkFinished, At
  <2>. QED BY <2>3, <2>4, <2>5, NameSteps
<1>. QED
  BY <1>2, <1>3, <1>4, <1>5, RotatingAt
  DEF RenameCurrent, CreateCurrent, MarkProcessed, SyncNewstate, UnlinkPrevious, At

(* current has gone and its file is previous, before there is a processor  *)
LEMMA RenamedStep ==
  ASSUME Inv, Next
  PROVE  /\ pc' = "recreate" => Missing("current")'
         /\ pc' \in {"recreate", "mode"} => Missing("processed")' /\ Missing("newstate")'
<1>. USE DEF Inv
<1>. SUFFICES ASSUME pc' \in {"recreate", "mode"}
              PROVE  /\ pc' = "recreate" => Missing("current")'
                     /\ Missing("processed")' /\ Missing("newstate")'
  OBVIOUS
<1>0. dir \in [Names -> Inodes \cup {NoInode}] /\ {"current", "previous", "processed", "newstate"} \subseteq Names
  BY DEF TypeOK, Names
<1>1. CASE RenameCurrent
  BY <1>0, <1>1 DEF RenameCurrent, At, Place, WhileWriting, NoLeftOvers, Missing
<1>2. CASE CreateCurrent("recreate", "mode")
  BY <1>0, <1>2 DEF CreateCurrent, At, Place, WhileRotating, Missing
<1>3. CASE pc' = pc /\ Processors
  <2>1. dir' = dir
    BY <1>3, NotWaiting
  <2>. QED BY <1>3, <2>1 DEF Place, WhileRotating, Missing
<1>. QED
  BY <1>1, <1>2, <1>3, RotatingAt DEF MarkPrevious, Fork, ProcessorFailed, ProcessorDone, MarkProcessed,
     SyncNewstate, UnlinkPrevious, At

(* exit code 0: the processor's output is what it read.                    *)
LEMMA DoneStep ==
  ASSUME Inv, Next, pc' = "wait", proc'[crashes'].phase = "done"
  PROVE  Processed' /\ ~ino'[dir'["processed"]].cut
<1>. USE DEF Inv, Shape
<1>0. /\ dir \in [Names -> Inodes \cup {NoInode}] /\ NoInode \notin Inodes /\ ino \in [Inodes -> File]
      /\ {"current", "previous", "processed", "newstate", "state"} \subseteq Names
      /\ crashes \in DOMAIN proc /\ DOMAIN proc' = DOMAIN proc
  BY InodeOrNone, CrashesIsProcess, RunningSteps DEF TypeOK, Names
<1>1. pc = "wait" /\ crashes' = crashes /\ Processors
  <2>1. ~Fork
    <3>1. [NoProcessor EXCEPT !.phase = "opening"].phase = "opening"
      BY DEF NoProcessor
    <3>2. Fork => crashes' = crashes /\ proc'[crashes] = [NoProcessor EXCEPT !.phase = "opening"]
      BY <1>0 DEF Fork, counts
    <3>. QED BY <3>1, <3>2
  <2>. QED
    BY <2>1, RotatingAt DEF RenameCurrent, CreateCurrent, MarkPrevious, Fork, ProcessorFailed, ProcessorDone,
       MarkProcessed, SyncNewstate, UnlinkPrevious, At
<1>2. \/ proc'[crashes] = proc[crashes]
      \/ CannotOpen(crashes) \/ Succeeds(crashes) \/ Fails(crashes)
  BY <1>0, <1>1, RunningSteps
<1>3. CASE proc'[crashes] = proc[crashes]
  <2>1. Processed /\ ~ino[dir["processed"]].cut /\ proc[crashes].phase = "done"
    BY <1>1, <1>3 DEF Place, WhileRotating
  <2>2. \A j \in DOMAIN proc : ~Opens(j)
    BY <1>1, <2>1 DEF Procs, Phases, Opens
  <2>3. dir' = dir
    BY <1>1, <2>2, DirSteps
    DEF Dropping, DropState, DropNewstate, DropPrevious, DropProcessed, Drop, UnlinkFinished,
      UnlinkPrevious, EmptyState, Creating, CreateCurrent, RenameCurrent, RenameNewstate, At
  <2>4. ino'[dir["previous"]] = ino[dir["previous"]]
    BY <1>1, <2>1, PreviousSame DEF Processed
  <2>5. \A k \in DOMAIN proc : ~(Outputs(k) /\ dir["processed"] = proc[k].out)
    BY <1>1, <2>1 DEF Outputs, Procs, Reach, Restarting
  <2>6. ino'[dir["processed"]] = ino[dir["processed"]]
    <3>1. ~ProcessorDone /\ ~MarkProcessed /\ ~Outage
      BY <1>1 DEF Processors, Opens, CannotOpen, Outputs, Succeeds, Fails, Processing, ProcessorDone, MarkProcessed,
                  Outage, Died, At, TypeOK
    <3>2. ~NamedTouches("processed")
      BY <2>2, <2>5, <3>1 DEF NamedTouches
    <3>. QED BY <1>0, <2>1, <2>3, <3>2, NamedSteps DEF Processed
  <2>. QED BY <2>1, <2>3, <2>4, <2>6 DEF Processed, Missing
<1>4. CASE Succeeds(crashes)
  <2>1. /\ dir["previous"] = proc[crashes].in /\ dir["processed"] = proc[crashes].out
        /\ dir["newstate"] = proc[crashes].ns /\ ~ino[proc[crashes].out].cut
        /\ ino[proc[crashes].out].data = ino[proc[crashes].in].data
        /\ proc[crashes].in \in Inodes /\ proc[crashes].out \in Inodes /\ proc[crashes].ns \in Inodes
    BY <1>0, <1>4 DEF Succeeds, Procs, Reach, Phases
  <2>2. Links(dir["previous"]) # 0 /\ Links(dir["processed"]) # 0
    BY <1>0, LinksNone DEF Linked
  <2>3. dir' = dir /\ ino'[dir["previous"]] = ino[dir["previous"]] /\ ino'[dir["processed"]] = ino[dir["processed"]]
    BY <1>4, <2>1, <2>2 DEF Succeeds, Closed
  <2>. QED BY <1>0, <2>1, <2>3 DEF Processed, Missing
<1>5. ~CannotOpen(crashes) /\ ~Fails(crashes)
  <2>1. [NoProcessor EXCEPT !.phase = "failed"].phase = "failed"
    BY DEF NoProcessor
  <2>. QED BY <1>0, <1>1, <2>1 DEF CannotOpen, Fails, Becomes
<1>. QED BY <1>2, <1>3, <1>4, <1>5

(* The calls after wait() change no file but the one they are for.         *)
LEMMA ProcessedStep ==
  ASSUME Inv, Next
  PROVE  /\ pc' \in {"p_mode", "n_sync", "p_unlink"} => Processed'
         /\ pc' \in {"p_mode", "n_sync", "p_unlink", "n_rename"} => Safe(dir["processed"])'
         /\ pc' \in {"n_sync", "p_unlink", "n_rename"} => IsExec("processed")'
         /\ pc' = "n_rename" => Missing("previous")' /\ ~Missing("newstate")'
<1>. USE DEF Inv, Shape
<1>. DEFINE p == dir["previous"]
            q == dir["processed"]
            s == dir["newstate"]
<1>0. /\ dir \in [Names -> Inodes \cup {NoInode}] /\ NoInode \notin Inodes /\ ino \in [Inodes -> File]
      /\ {"current", "previous", "processed", "newstate", "state"} \subseteq Names
  BY InodeOrNone DEF TypeOK, Names
<1>. SUFFICES ASSUME pc' \in {"p_mode", "n_sync", "p_unlink", "n_rename"}
              PROVE  /\ pc' # "n_rename" => Processed'
                     /\ Safe(q)'
                     /\ pc' # "p_mode" => IsExec("processed")'
                     /\ pc' = "n_rename" => Missing("previous")' /\ ~Missing("newstate")'
  OBVIOUS
<1>1. CASE ProcessorDone
  <2>1. Processed /\ ~ino[q].cut /\ dir' = dir /\ Sync(q) /\ pc' = "p_mode"
    BY <1>1 DEF ProcessorDone, At, Place, WhileRotating
  <2>2. p \in Inodes /\ q \in Inodes /\ s \in Inodes /\ p # q
    BY <1>0, <2>1 DEF Processed, Missing, OneName
  <2>3. Safe(q)' /\ ino'[q].data = ino[q].data
    <3>1. \A i \in Inodes : ~ino[i].cut /\ Sync(i) => Safe(i)' /\ ino'[i].data = ino[i].data
      BY SyncSafe
    <3>. QED BY <2>1, <2>2, <3>1 DEF Safe
  <2>4. ino'[p] = ino[p]
    BY <1>0, <2>1, <2>2 DEF Sync
  <2>. QED BY <2>1, <2>3, <2>4 DEF Processed, Missing
<1>2. CASE MarkProcessed
  <2>1. Processed /\ Safe(q) /\ dir' = dir /\ ino' = [ino EXCEPT ![q].exec = TRUE] /\ pc' = "n_sync"
    BY <1>2, Zenon DEF MarkProcessed, At, Place, WhileRotating
  <2>2. p \in Inodes /\ q \in Inodes /\ s \in Inodes /\ p # q
    BY <1>0, <2>1 DEF Processed, Missing, OneName
  <2>3. ino'[q] = [ino[q] EXCEPT !.exec = TRUE] /\ ino'[p] = ino[p]
    BY <1>0, <2>1, <2>2
  <2>4. [ino[q] EXCEPT !.exec = TRUE].exec = TRUE /\ [ino[q] EXCEPT !.exec = TRUE].data = ino[q].data
    BY <1>0, <2>2 DEF File
  <2>5. Safe(q)'
    <3>1. \A i \in Inodes : Safe(i) /\ ino'[i] = [ino[i] EXCEPT !.exec = TRUE] => Safe(i)'
      BY SafeStays
    <3>. QED BY <2>1, <2>2, <2>3, <3>1 DEF Safe
  <2>. QED BY <1>0, <2>1, <2>2, <2>3, <2>4, <2>5 DEF Processed, Missing, IsExec
<1>3. CASE SyncNewstate
  <2>1. Processed /\ Safe(q) /\ IsExec("processed") /\ dir' = dir /\ Sync(s) /\ pc' = "p_unlink"
    BY <1>3 DEF SyncNewstate, At, Place, WhileRotating
  <2>2. p \in Inodes /\ q \in Inodes /\ s \in Inodes /\ p # s /\ q # s
    BY <1>0, <2>1 DEF Processed, Missing, OneName
  <2>3. ino'[q] = ino[q] /\ ino'[p] = ino[p]
    BY <1>0, <2>1, <2>2 DEF Sync
  <2>. QED BY <2>1, <2>3 DEF Processed, Missing, Safe, IsExec
<1>4. CASE UnlinkPrevious
  <2>1. Processed /\ Safe(q) /\ IsExec("processed") /\ Unlink("previous") /\ pc' = "n_rename"
    BY <1>4 DEF UnlinkPrevious, At, Place, WhileRotating
  <2>2. p \in Inodes /\ q \in Inodes /\ s \in Inodes /\ p # q
    BY <1>0, <2>1 DEF Processed, Missing, OneName
  <2>3. ino'[q] = ino[q] /\ dir'["processed"] = q /\ dir'["newstate"] = s /\ dir'["previous"] = NoInode
    BY <1>0, <2>1, <2>2, UnlinkedName DEF Unlink
  <2>. QED BY <1>0, <2>1, <2>2, <2>3 DEF Missing, Safe, IsExec
<1>5. CASE pc' = pc /\ Processors
  <2>1. dir' = dir /\ \A n \in Names : ~Missing(n) => ino'[dir[n]] = ino[dir[n]]
    BY <1>5, NotWaiting DEF Restarting
  <2>2. Safe(q) /\ (pc # "n_rename" => Processed) /\ (pc # "p_mode" => IsExec("processed"))
        /\ (pc = "n_rename" => Missing("previous") /\ ~Missing("newstate"))
    BY <1>5 DEF Place, WhileRotating
  <2>3. ~Missing("processed") /\ (pc # "n_rename" => ~Missing("previous"))
    BY <2>2 DEF Processed, IsExec, Missing
  <2>. QED BY <1>0, <1>5, <2>1, <2>2, <2>3 DEF Processed, Missing, Safe, IsExec
<1>. QED
  BY <1>1, <1>2, <1>3, <1>4, <1>5, RotatingAt DEF RenameCurrent, CreateCurrent, MarkPrevious, Fork,
     ProcessorFailed, At

LEMMA WhileRotatingStep ==
  ASSUME Inv, Next
  PROVE  WhileRotating'
<1>1. pc' = "p_mode" => ~ino'[dir'["processed"]].exec
  <2>1. pc' = "p_mode" => Processed' /\ ~IsExec("processed")'
    BY ProcessedStep, UnmarkedStep
  <2>. QED BY <2>1 DEF Processed, IsExec, Missing
<1>. QED BY <1>1, RenamedStep, RotatedStep, UnmarkedStep, DoneStep, ProcessedStep DEF WhileRotating

(* finish() and restart()                                                  *)
LEMMA FinNext ==
  ASSUME Inv, Finishing
  PROVE  InFinish /\ fin \in Finishes /\ fin.next \in {"flush", "r_current", "r_state"}
<1>1. InFinish
  BY DEF Finishing, NoFile, AlreadyLinked, Link, LinkFails, UnlinkFinished, RemoveOldest, Fits, At, InFinish
<1>2. fin \in Finishes
  BY <1>1 DEF Inv, Place, WhileFinishing
<1>. QED BY <1>1, <1>2 DEF Finishes

LEMMA FinishingAt ==
  ASSUME Inv, Next, InFinish'
  PROVE  \/ DropPrevious \/ DropProcessed \/ FinishCurrent \/ (MarkPrevious /\ ~processor) \/ RenameNewstate
         \/ AlreadyLinked \/ Link \/ LinkFails \/ UnlinkFinished \/ RemoveOldest
         \/ pc' = pc /\ InFinish /\ fin' = fin /\ Processors
<1>1. CASE Restart
  BY <1>1 DEF Restart, Start, Resume, DropState, DropNewstate, Drop, EmptyState, CreateCurrent, At, InFinish
<1>2. CASE Finishing
  <2>1. fin.next \in {"flush", "r_current", "r_state"}
    BY <1>2, FinNext
  <2>. QED BY <1>2, <2>1 DEF Finishing, NoFile, Fits, At, InFinish
<1>3. CASE Rotation
  BY <1>3 DEF Rotation, SyncCurrent, RenameCurrent, CreateCurrent, MarkPrevious, Fork, ProcessorFailed,
              ProcessorDone, MarkProcessed, SyncNewstate, UnlinkPrevious, At, InFinish
<1>4. CASE Processors
  BY <1>4 DEF Processors, Opens, CannotOpen, Outputs, Succeeds, Fails, Processing, InFinish
<1>. QED
  BY <1>1, <1>2, <1>3, <1>4 DEF Next, Multilog, Writing, WriteFull, Write, Flushed, Quitting, QuitSync, Quit,
     Environment, Put, Flush, ForceRotate, EndOfInput, Kill, Outage, Died, At, InFinish

(* What finish() is called with is what restart() or fullcurrent() has     *)
(* left, and it leaves neither name nor file half done.                    *)
LEMMA WhileFinishingStep ==
  ASSUME Inv, Next
  PROVE  WhileFinishing'
<1>. USE DEF Inv, Shape
<1>. SUFFICES ASSUME InFinish' PROVE WhileFinishing'
  BY DEF WhileFinishing
<1>. DEFINE p == dir["previous"]
            q == dir["processed"]
<1>0. /\ dir \in [Names -> Inodes \cup {NoInode}] /\ NoInode \notin Inodes /\ ino \in [Inodes -> File]
      /\ {"current", "previous", "processed", "newstate", "state"} \subseteq Names
  BY InodeOrNone DEF TypeOK, Names
<1>1. CASE DropPrevious
  <2>1. /\ pc = "r_previous" /\ pc' = "f_stat" /\ Unlink("previous")
        /\ fin' = [file |-> "processed", code |-> "s", next |-> "r_current"]
    BY <1>1 DEF DropPrevious, At, Finish
  <2>2. Missing("newstate") /\ IsExec("processed") /\ Safe(q) /\ q \in Inodes
    BY <1>0, <2>1 DEF Place, WhileRestarting, Kept, ProcessedSafe, IsExec
  <2>3. ino'[q] = ino[q] /\ dir'["processed"] = q /\ dir'["previous"] = NoInode /\ dir'["newstate"] = NoInode
    BY <1>0, <2>1, <2>2, UnlinkedName DEF Unlink, Missing, OneName
  <2>4. fin' \in Finishes
    BY <2>1 DEF Finishes
  <2>. QED BY <1>0, <2>1, <2>2, <2>3, <2>4 DEF WhileFinishing, Missing, IsExec, Safe
<1>2. CASE DropProcessed
  <2>1. /\ pc = "r_processed" /\ pc' = "f_stat" /\ Unlink("processed")
        /\ fin' = [file |-> "previous", code |-> "u", next |-> "r_current"]
    BY <1>2 DEF DropProcessed, At, Finish
  <2>2. Missing("newstate")
    BY <2>1 DEF Place, WhileRestarting
  <2>3. dir'["processed"] = NoInode /\ dir'["newstate"] = NoInode
    BY <1>0, <2>1, <2>2 DEF Unlink, Missing
  <2>4. fin' \in Finishes
    BY <2>1 DEF Finishes
  <2>. QED BY <2>1, <2>3, <2>4 DEF WhileFinishing, Missing
<1>3. CASE FinishCurrent
  <2>1. /\ pc = "r_current" /\ pc' = "f_stat" /\ dir' = dir
        /\ fin' = [file |-> "current", code |-> "u", next |-> "r_state"]
    BY <1>3 DEF FinishCurrent, At, Finish, disk
  <2>2. NoLeftOvers
    BY <2>1 DEF Place, WhileRestarting
  <2>3. fin' \in Finishes
    BY <2>1 DEF Finishes
  <2>. QED BY <2>1, <2>2, <2>3 DEF WhileFinishing, Missing, NoLeftOvers
<1>4. CASE MarkPrevious /\ ~processor
  <2>1. /\ pc = "mode" /\ pc' = "f_stat" /\ dir' = dir
        /\ fin' = [file |-> "previous", code |-> "s", next |-> "flush"]
    BY <1>4 DEF MarkPrevious, At, Finish
  <2>2. Rotated /\ Missing("processed") /\ Missing("newstate")
    BY <2>1 DEF Place, WhileRotating
  <2>3. ino' = [ino EXCEPT ![p].exec = TRUE]
    BY <1>4, Zenon DEF MarkPrevious
  <2>4. Safe(p)'
    <3>1. p \in Inodes /\ Safe(p) /\ ino'[p] = [ino[p] EXCEPT !.exec = TRUE]
      BY <1>0, <2>2, <2>3 DEF Rotated, Missing
    <3>2. \A i \in Inodes : Safe(i) /\ ino'[i] = [ino[i] EXCEPT !.exec = TRUE] => Safe(i)'
      BY SafeStays
    <3>. QED BY <2>1, <3>1, <3>2 DEF Safe
  <2>5. fin' \in Finishes
    BY <2>1 DEF Finishes
  <2>. QED BY <2>1, <2>2, <2>4, <2>5 DEF WhileFinishing, Missing, Safe
<1>5. CASE RenameNewstate
  <2>1. /\ pc = "n_rename" /\ pc' = "f_stat" /\ ino' = Unlinked(dir["state"])
        /\ dir' = [dir EXCEPT !["state"] = dir["newstate"], !["newstate"] = NoInode]
        /\ fin' = [file |-> "processed", code |-> "s", next |-> "flush"]
    BY <1>5 DEF RenameNewstate, At, Finish
  <2>2. Missing("previous") /\ IsExec("processed") /\ Safe(q) /\ q \in Inodes
    BY <1>0, <2>1 DEF Place, WhileRotating, IsExec
  <2>3. ino'[q] = ino[q]
    BY <1>0, <2>1, <2>2, UnlinkedName DEF Missing, OneName
  <2>4. fin' \in Finishes
    BY <2>1 DEF Finishes
  <2>. QED BY <1>0, <2>1, <2>2, <2>3, <2>4 DEF WhileFinishing, Missing, IsExec, Safe
<1>6. ASSUME InFinish, dir' = dir, \A n \in Names : ~Missing(n) => ino'[dir[n]] = ino[dir[n]]
      PROVE  /\ Missing("newstate")'
             /\ fin.file # "previous" => Missing("previous")'
             /\ fin.file # "processed" => Missing("processed")'
             /\ fin.file = "processed" /\ pc # "f_fit" => IsExec("processed")'
             /\ fin.code = "s" /\ ~Missing(fin.file) =>
                  LET i == dir[fin.file] IN ino'[i].synced = Len(ino'[i].data) /\ ~ino'[i].cut
  <2>1. fin.file \in Names
    BY DEF TypeOK
  <2>2. /\ Missing("newstate")
        /\ fin.file # "previous" => Missing("previous")
        /\ fin.file # "processed" => Missing("processed")
        /\ fin.file = "processed" /\ pc # "f_fit" => IsExec("processed")
        /\ fin.code = "s" /\ ~Missing(fin.file) => Safe(dir[fin.file])
    BY <1>6 DEF Place, WhileFinishing
  <2>3. IsExec("processed") => IsExec("processed")'
    BY <1>0, <1>6 DEF Missing, IsExec
  <2>4. ~Missing(fin.file) => ino'[dir[fin.file]] = ino[dir[fin.file]]
    BY <1>6, <2>1
  <2>5. \A n \in Names : Missing(n) => Missing(n)'
    BY <1>6 DEF Missing
  <2>. QED BY <1>0, <1>6, <2>1, <2>2, <2>3, <2>4, <2>5 DEF Missing, Safe
<1>7. CASE AlreadyLinked \/ Link
  <2>1. InFinish /\ pc = "f_stat" /\ pc' = "f_unlink" /\ dir' = dir /\ ino' = ino /\ fin' = fin /\ ~Missing(fin.file)
    BY <1>7 DEF AlreadyLinked, Link, At, InFinish, disk, Missing
  <2>2. IsOld(dir[fin.file])'
    <3>1. CASE AlreadyLinked
      <4>1. IsOld(dir[fin.file])
        BY <3>1, LinksName DEF AlreadyLinked, TypeOK, Missing
      <4>. QED BY <3>1, <4>1 DEF AlreadyLinked, disk, IsOld
    <3>2. CASE Link
      <4>1. \A i : IsOld(i)' <=> IsOld(i) \/ i = dir[fin.file]
        BY <3>2, OldLinked
      <4>. QED BY <2>1, <4>1 DEF IsOld
    <3>. QED BY <1>7, <3>1, <3>2
  <2>. QED BY <1>6, <2>1, <2>2 DEF WhileFinishing, Place, Missing, Safe
<1>8. CASE LinkFails
  <2>1. InFinish /\ pc = "f_stat" /\ pc' = pc /\ dir' = dir /\ ino' = ino /\ fin' = [fin EXCEPT !.code = "undefined"]
    BY <1>8 DEF LinkFails, InFinish, disk
  <2>2. fin' = [file |-> fin.file, code |-> "undefined", next |-> fin.next]
    BY <2>1 DEF TypeOK
  <2>3. fin' \in Finishes
    <3>1. fin \in Finishes
      BY <2>1 DEF Place, WhileFinishing
    <3>. QED BY <2>2, <3>1 DEF Finishes
  <2>. QED BY <1>6, <2>1, <2>2, <2>3 DEF WhileFinishing
<1>9. CASE UnlinkFinished
  <2>1. InFinish /\ pc' = "f_fit" /\ fin' = fin /\ dir' = [dir EXCEPT ![fin.file] = NoInode] /\ fin.file \in Names
    BY <1>9 DEF UnlinkFinished, At, InFinish, Unlink, TypeOK
  <2>. QED BY <1>0, <2>1 DEF WhileFinishing, Place, Missing
<1>10. CASE RemoveOldest
  <2>1. InFinish /\ pc = "f_fit" /\ pc' = pc /\ fin' = fin /\ dir' = dir
    BY <1>10 DEF RemoveOldest, InFinish
  <2>. QED BY <2>1 DEF WhileFinishing, Place, Missing
<1>11. CASE pc' = pc /\ InFinish /\ fin' = fin /\ Processors
  <2>1. dir' = dir /\ \A n \in Names : ~Missing(n) => ino'[dir[n]] = ino[dir[n]]
    BY <1>11, NotWaiting DEF Restarting, InFinish
  <2>2. old' = old
    BY <1>11 DEF Processors, Opens, CannotOpen, Outputs, Succeeds, Fails, Processing
  <2>. QED BY <1>6, <1>11, <2>1, <2>2 DEF WhileFinishing, Place, Missing, Safe, IsOld
<1>. QED BY <1>1, <1>2, <1>3, <1>4, <1>5, <1>7, <1>8, <1>9, <1>10, <1>11, FinishingAt

InRestart == pc \in {"r_newstate", "r_previous", "r_processed", "r_current", "r_state"} \/ (InFinish /\ fin.next # "flush")

LEMMA RestartingAt ==
  ASSUME Inv, Next, InRestart' \/ pc' = "create"
  PROVE  \/ DropState
         \/ /\ InRestart \/ pc = "create"
            /\ \/ DropNewstate \/ DropPrevious \/ DropProcessed \/ FinishCurrent \/ EmptyState
               \/ NoFile \/ AlreadyLinked \/ Link \/ LinkFails \/ UnlinkFinished \/ RemoveOldest \/ Fits
               \/ pc' = pc /\ fin' = fin /\ Processors
<1>1. CASE Restart
  BY <1>1 DEF Restart, Start, Resume, DropNewstate, DropPrevious, DropProcessed, Drop, FinishCurrent,
              EmptyState, CreateCurrent, At, InFinish, InRestart
<1>2. CASE Finishing
  <2>1. fin.next \in {"flush", "r_current", "r_state"} /\ InFinish /\ fin'.next \in {fin.next, NotFinishing.next}
    BY <1>2, FinNext DEF TypeOK, Inv, Finishing, NoFile, AlreadyLinked, Link, LinkFails, UnlinkFinished, RemoveOldest, Fits
  <2>2. CASE NoFile \/ Fits
    BY <1>2, <2>1, <2>2 DEF NoFile, Fits, At, InFinish, InRestart
  <2>3. CASE AlreadyLinked \/ Link \/ UnlinkFinished \/ RemoveOldest
    BY <2>1, <2>3 DEF AlreadyLinked, Link, UnlinkFinished, RemoveOldest, At, InFinish, InRestart
  <2>4. CASE LinkFails
    <3>1. fin'.next = fin.next
      BY <2>4 DEF LinkFails, Inv, TypeOK
    <3>. QED BY <2>1, <2>4, <3>1 DEF LinkFails, At, InFinish, InRestart
  <2>. QED BY <1>2, <2>2, <2>3, <2>4 DEF Finishing
<1>3. CASE Rotation
  <2>1. [file |-> "processed", code |-> "s", next |-> "flush"].next = "flush"
        /\ [file |-> "previous", code |-> "s", next |-> "flush"].next = "flush"
    OBVIOUS
  <2>. QED
    BY <1>3, <2>1 DEF Rotation, SyncCurrent, RenameCurrent, CreateCurrent, MarkPrevious, Fork, ProcessorFailed,
              ProcessorDone, MarkProcessed, SyncNewstate, UnlinkPrevious, RenameNewstate, Finish, At, InFinish, InRestart
<1>4. CASE Processors
  BY <1>4 DEF Processors, Opens, CannotOpen, Outputs, Succeeds, Fails, Processing, InFinish, InRestart
<1>. QED
  BY <1>1, <1>2, <1>3, <1>4 DEF Next, Multilog, Writing, WriteFull, Write, Flushed, Quitting, QuitSync, Quit,
     Environment, Put, Flush, ForceRotate, EndOfInput, Kill, Outage, Died, At, InFinish, InRestart

(* A mode stays off, where multilog does not set it.                       *)
LEMMA UnmarkedStays ==
  ASSUME Inv, Next, NEW n \in Names, ~IsExec(n), dir'[n] = dir[n],
         ~MarkPrevious, ~MarkProcessed, ~Quit
  PROVE  ~IsExec(n)'
<1>1. dir[n] # NoInode => dir[n] \in Inodes
  BY DirType DEF Inv
<1>. QED BY <1>1, ExecSteps DEF IsExec

LEMMA WhileRestartingStep ==
  ASSUME Inv, Next
  PROVE  WhileRestarting'
<1>. USE DEF Inv, Shape
<1>. DEFINE q == dir["processed"]
<1>0. /\ dir \in [Names -> Inodes \cup {NoInode}] /\ NoInode \notin Inodes /\ ino \in [Inodes -> File]
      /\ {"current", "previous", "processed", "newstate", "state"} \subseteq Names
  BY InodeOrNone DEF TypeOK, Names
<1>1. InRestart => ~IsExec("current") /\ Missing("state")
  BY DEF InRestart, Place, WhileRestarting
<1>2. Processors /\ (InRestart \/ pc = "create") => dir' = dir
  BY NotWaiting DEF InRestart, InFinish
<1>3. InRestart' => ~IsExec("current")' /\ Missing("state")'
  <2>1. SUFFICES ASSUME InRestart' PROVE ~IsExec("current")' /\ Missing("state")'
    OBVIOUS
  <2>2. CASE DropState
    <3>1. dir'["state"] = NoInode /\ dir'["current"] = dir["current"]
      BY <1>0, <2>2 DEF DropState, Drop, Unlink
    <3>2. ~IsExec("current") /\ ~MarkPrevious /\ ~MarkProcessed /\ ~Quit
      BY <2>2 DEF DropState, Drop, MarkPrevious, MarkProcessed, Quit, At
    <3>. QED BY <1>0, <3>1, <3>2, UnmarkedStays DEF Missing
  <2>3. CASE InRestart /\ ~EmptyState
    <3>1. ~MarkPrevious /\ ~MarkProcessed /\ ~Quit /\ ~Creating /\ ~RenameCurrent /\ ~RenameNewstate /\ ~DropState
      BY <2>3 DEF InRestart, InFinish, Creating, CreateCurrent, RenameCurrent, RenameNewstate, MarkPrevious,
                  MarkProcessed, Quit, DropState, Drop, At
    <3>2. dir'["state"] = dir["state"]
      BY <2>3, <3>1, NameSteps
    <3>3. dir'["current"] = dir["current"] \/ dir'["current"] = NoInode
      BY <1>0, <3>1, NameSteps DEF UnlinkFinished, Unlink
    <3>4. ~IsExec("current")'
      BY <1>0, <1>1, <2>3, <3>1, <3>3, UnmarkedStays DEF IsExec
    <3>. QED BY <1>1, <2>3, <3>2, <3>4 DEF Missing
  <2>4. ~EmptyState
    BY <2>1 DEF EmptyState, At, InRestart, InFinish
  <2>5. CASE pc = "create"
    BY <2>1, <2>2, <2>5, RestartingAt
    DEF DropNewstate, DropPrevious, DropProcessed, Drop, FinishCurrent, EmptyState, NoFile, AlreadyLinked, Link,
        LinkFails, UnlinkFinished, RemoveOldest, Fits, At, InRestart, InFinish
  <2>. QED BY <2>1, <2>2, <2>3, <2>4, <2>5, RestartingAt
<1>4. pc' \in {"r_previous", "r_processed"} => Missing("newstate")'
  <2>1. CASE DropNewstate
    BY <1>0, <2>1 DEF DropNewstate, Drop, Unlink, Missing
  <2>2. CASE pc' = pc /\ Processors
    BY <1>2, <2>2 DEF Place, WhileRestarting, InRestart, Missing
  <2>3. Finishing => pc' \notin {"r_previous", "r_processed"}
    BY FinNext DEF Finishing, NoFile, AlreadyLinked, Link, LinkFails, UnlinkFinished, RemoveOldest, Fits, At, InFinish
  <2>. QED
    BY <2>1, <2>2, <2>3, RestartingAt DEF Finishing, InRestart, DropState, DropPrevious, DropProcessed, Drop,
                                          FinishCurrent, EmptyState, At
<1>5. /\ pc' = "r_previous" => IsExec("processed")'
      /\ pc' = "r_processed" => ~IsExec("processed")'
  <2>1. CASE DropNewstate
    <3>1. Unlink("newstate") /\ dir'["processed"] = q
          /\ pc' = IF IsExec("processed") THEN "r_previous" ELSE "r_processed"
      BY <1>0, <2>1 DEF DropNewstate, Drop, Unlink, At
    <3>2. q \in Inodes => ino'[q] = ino[q]
      BY <1>0, <3>1, UnlinkedName DEF Unlink, Missing, OneName
    <3>. QED BY <1>0, <3>1, <3>2 DEF IsExec
  <2>2. CASE pc' = pc /\ Processors
    <3>1. pc \in {"r_previous", "r_processed"} => dir'["processed"] = q
      BY <1>2, <2>2 DEF InRestart
    <3>2. pc = "r_processed" => ~IsExec("processed")'
      <4>1. pc = "r_processed" => ~IsExec("processed") /\ ~MarkPrevious /\ ~MarkProcessed /\ ~Quit
        BY DEF Place, WhileRestarting, MarkPrevious, MarkProcessed, Quit, At
      <4>. QED BY <1>0, <3>1, <4>1, UnmarkedStays
    <3>3. ASSUME pc = "r_previous" PROVE IsExec("processed")'
      <4>1. IsExec("processed") /\ q \in Inodes
        BY <1>0, <3>3 DEF Place, WhileRestarting, IsExec
      <4>2. ~NamedTouches("processed")
        <5>1. ~ProcessorDone /\ ~MarkProcessed /\ ~Outage /\ \A k \in DOMAIN proc : ~Opens(k)
          BY <2>2, <3>3, OpensAt DEF ProcessorDone, MarkProcessed, Outage, Died, At
        <5>2. \A k \in DOMAIN proc : Outputs(k) => q # proc[k].out
          BY <4>1 DEF Outputs, Procs, Reach, IsExec
        <5>. QED BY <5>1, <5>2 DEF NamedTouches
      <4>3. ino'[q] = ino[q]
        BY <1>0, <3>1, <3>3, <4>1, <4>2, NamedSteps DEF Missing
      <4>. QED BY <3>1, <3>3, <4>1, <4>3 DEF IsExec
    <3>. QED BY <2>2, <3>2, <3>3
  <2>3. Finishing => pc' \notin {"r_previous", "r_processed"}
    BY FinNext DEF Finishing, NoFile, AlreadyLinked, Link, LinkFails, UnlinkFinished, RemoveOldest, Fits, At, InFinish
  <2>. QED
    BY <2>1, <2>2, <2>3, RestartingAt DEF Finishing, InRestart, DropState, DropPrevious, DropProcessed, Drop,
                                          FinishCurrent, EmptyState, At
<1>6. /\ pc' \in {"r_current", "r_state", "create"} => NoLeftOvers'
      /\ pc' \in {"r_state", "create"} => Missing("current")'
  <2>1. CASE NoFile \/ Fits
    <3>1. pc' = fin.next /\ dir' = dir /\ Missing(fin.file) /\ InFinish
      BY <2>1 DEF NoFile, Fits, At, disk, InFinish, Missing, Place, WhileFinishing
    <3>2. /\ fin \in Finishes /\ Missing("newstate")
          /\ fin.file # "previous" => Missing("previous")
          /\ fin.file # "processed" => Missing("processed")
      BY <3>1 DEF Place, WhileFinishing
    <3>3. NoLeftOvers /\ (fin.next = "r_state" => Missing("current")) /\ fin.next # "create"
      BY <3>1, <3>2 DEF Finishes, NoLeftOvers
    <3>. QED BY <3>1, <3>3 DEF NoLeftOvers, Missing
  <2>2. CASE EmptyState
    <3>1. /\ pc = "r_state" /\ dir'["previous"] = dir["previous"] /\ dir'["processed"] = dir["processed"]
          /\ dir'["newstate"] = dir["newstate"] /\ dir'["current"] = dir["current"]
      BY <1>0, <2>2 DEF EmptyState, At
    <3>. QED BY <3>1 DEF Place, WhileRestarting, NoLeftOvers, Missing
  <2>3. CASE pc' = pc /\ Processors
    BY <1>2, <2>3 DEF Place, WhileRestarting, InRestart, Missing, NoLeftOvers
  <2>4. CASE AlreadyLinked \/ Link \/ LinkFails \/ UnlinkFinished \/ RemoveOldest
    BY <2>4 DEF AlreadyLinked, Link, LinkFails, UnlinkFinished, RemoveOldest, At
  <2>. QED
    BY <2>1, <2>2, <2>3, <2>4, RestartingAt DEF InRestart, DropState, DropNewstate, DropPrevious, DropProcessed,
                                                Drop, FinishCurrent, At
<1>. QED BY <1>3, <1>4, <1>5, <1>6 DEF WhileRestarting, InRestart

LEMMA PlacesStep ==
  ASSUME Inv, Next
  PROVE  Place'
  BY WhileWritingStep, WhileRotatingStep, WhileFinishingStep, WhileRestartingStep DEF Place

-----------------------------------------------------------------------------
(* What is on disk                                                         *)

(* Nothing but an outage changes an old file.                              *)
LEMMA OldUntouched ==
  ASSUME Inv, Next, NEW i \in Inodes, IsOld(i), IsOld(i)'
  PROVE  ino'[i] = ino[i] \/ (Outage /\ ino'[i] = Torn(i) /\ i \in Unsynced)
<1>. USE DEF Inv, Shape
<1>0. {"current", "previous", "processed", "newstate", "state"} \subseteq Names
  BY DEF Names
<1>1. SUFFICES ASSUME Touches(i) PROVE Outage /\ ino'[i] = Torn(i) /\ i \in Unsynced
  BY FileSteps DEF Linked
<1>2. \A n \in Names : dir[n] = i => BothAt(n)
  <2>1. i # NoInode
    BY InodeOrNone
  <2>. QED BY <2>1 DEF BothNames, BothAt, Missing
<1>3. ~(Resume /\ i = dir["current"])
  BY DEF Resume, Kept, ExecIsNew
<1>4. ~((Write \/ SyncCurrent \/ QuitSync \/ Quit) /\ i = dir["current"])
  BY <1>0, <1>2 DEF BothAt, InFinish, Write, SyncCurrent, QuitSync, Quit, At
<1>5. ~(MarkPrevious /\ i = dir["previous"]) /\ ~((ProcessorDone \/ MarkProcessed) /\ i = dir["processed"])
      /\ ~(SyncNewstate /\ i = dir["newstate"])
  BY <1>0, <1>2 DEF BothAt, InFinish, MarkPrevious, ProcessorDone, MarkProcessed, SyncNewstate, At
<1>6. ASSUME NEW k \in DOMAIN proc, Opens(k) PROVE i \notin {dir["processed"], dir["newstate"]}
  <2>1. \A n \in Names : ~Missing(n) => ~IsOld(dir[n])
    BY <1>6 DEF Opens, Procs, Opening
  <2>. QED BY <1>0, <2>1, InodeOrNone DEF Missing
<1>7. ASSUME NEW k \in DOMAIN proc, Outputs(k) PROVE i \notin {proc[k].out, proc[k].ns}
  BY <1>7 DEF Outputs, Procs, Reach
<1>. QED BY <1>1, <1>3, <1>4, <1>5, <1>6, <1>7 DEF Touches

LEMMA OldSafe ==
  ASSUME Inv, Next, NEW i \in Inodes, IsOld(i), IsOld(i)', Safe(i)
  PROVE  ino'[i] = ino[i]
<1>1. i \notin Unsynced
  BY FileType DEF Inv, Unsynced, Safe
<1>. QED BY <1>1, OldUntouched

SafeNext(i) == ino'[i].synced = Len(ino'[i].data) /\ ~ino'[i].cut

(* Only what is safely on disk becomes an old file with the code s.        *)
LEMMA SafelyWrittenStep ==
  ASSUME Inv, Next
  PROVE  SafelyWritten'
<1>. USE DEF Inv
<1>1. SUFFICES ASSUME NEW k \in DOMAIN old', old'[k].code = "s" PROVE SafeNext(old'[k].ino)
  BY DEF SafelyWritten, SafeNext
<1>2. ASSUME NEW j \in DOMAIN old, old'[k] = old[j] PROVE SafeNext(old'[k].ino)
  <2>1. PICK i \in Inodes : i = old[j].ino
    BY <1>2, OldType
  <2>2. IsOld(i) /\ IsOld(i)'
    BY <1>1, <1>2, <2>1 DEF IsOld
  <2>3. Safe(i)
    BY <1>1, <1>2, <2>1 DEF Kept, SafelyWritten, Safe
  <2>4. ino'[i] = ino[i]
    BY <2>2, <2>3, OldSafe
  <2>. QED BY <1>2, <2>1, <2>3, <2>4 DEF Safe, SafeNext
<1>3. CASE old' = old
  BY <1>2, <1>3
<1>4. CASE Link
  <2>1. /\ Len(old) \in Nat /\ DOMAIN old = 1..Len(old) /\ DOMAIN old' = 1..Len(old) + 1
        /\ \A j \in DOMAIN old : old'[j] = old[j]
        /\ old'[Len(old) + 1] = [ino |-> dir[fin.file], code |-> fin.code] /\ ~Missing(fin.file)
    BY <1>4, OldLinked, OldType
  <2>2. CASE k \in DOMAIN old
    BY <1>2, <2>1, <2>2
  <2>3. CASE k \notin DOMAIN old
    <3>1. old'[k].ino = dir[fin.file] /\ fin.code = "s"
      BY <1>1, <2>1, <2>3
    <3>2. Safe(dir[fin.file]) /\ ino' = ino
      BY <1>4, <2>1, <3>1 DEF Link, At, InFinish, Place, WhileFinishing
    <3>. QED BY <3>1, <3>2 DEF Safe, SafeNext
  <2>. QED BY <2>2, <2>3
<1>5. CASE RemoveOldest
  <2>1. k + 1 \in DOMAIN old /\ old'[k] = old[k + 1]
    BY <1>5, OldRemoved
  <2>. QED BY <1>2, <2>1
<1>. QED BY <1>3, <1>4, <1>5, OldSteps

LEMMA OpensUnmarked ==
  ASSUME Inv, Next, NEW k \in DOMAIN proc, Opens(k)
  PROVE  ~IsExec("processed")'
<1>1. proc'[k].phase = "running" /\ proc'[k].out = dir'["processed"] /\ DOMAIN proc' = DOMAIN proc
  BY OpensHeld, RunningSteps
<1>2. ~ino'[proc'[k].out].exec
  BY <1>1, ReachStep DEF Reach
<1>. QED BY <1>1, <1>2 DEF IsExec

LEMMA ProcessedSafeStep ==
  ASSUME Inv, Next
  PROVE  ProcessedSafe'
<1>. USE DEF Inv, Shape
<1>. DEFINE q == dir["processed"]
<1>0. /\ dir \in [Names -> Inodes \cup {NoInode}] /\ NoInode \notin Inodes
      /\ {"current", "previous", "processed", "newstate", "state"} \subseteq Names
  BY InodeOrNone DEF TypeOK, Names
<1>1. SUFFICES ASSUME IsExec("processed")' PROVE Safe(dir["processed"])'
  BY DEF ProcessedSafe
<1>2. \A k \in DOMAIN proc : ~Opens(k)
  BY <1>1, OpensUnmarked
<1>3. dir'["processed"] = q
  <2>1. DropProcessed \/ (UnlinkFinished /\ fin.file = "processed") => dir'["processed"] = NoInode
    BY <1>0 DEF DropProcessed, UnlinkFinished, Unlink
  <2>. QED BY <1>1, <1>2, <2>1, NameSteps DEF IsExec
<1>4. q \in Inodes /\ ino'[q].exec
  BY <1>0, <1>1, <1>3 DEF IsExec
<1>5. CASE MarkProcessed
  BY <1>5, ProcessedStep DEF MarkProcessed, At
<1>6. CASE ~MarkProcessed
  <2>1. IsExec("processed")
    <3>1. q # dir["current"] /\ q # dir["previous"]
      BY <1>0, <1>4 DEF OneName
    <3>. QED BY <1>0, <1>4, <1>6, <3>1, ExecSteps DEF IsExec
  <2>2. Safe(q) /\ q \notin Unsynced
    BY <1>4, <2>1, FileType DEF Kept, ProcessedSafe, Safe, Unsynced
  <2>3. ~ProcessorDone
    BY <2>1 DEF ProcessorDone, At, Place, WhileRotating
  <2>4. \A k \in DOMAIN proc : Outputs(k) => q # proc[k].out
    BY <2>1 DEF Outputs, Procs, Reach, IsExec
  <2>5. ~NamedTouches("processed")
    BY <1>2, <1>6, <2>2, <2>3, <2>4 DEF NamedTouches
  <2>6. ino'[q] = ino[q]
    BY <1>0, <1>3, <1>4, <2>5, NamedSteps DEF Missing
  <2>. QED BY <1>3, <2>2, <2>6 DEF Safe
<1>. QED BY <1>5, <1>6

(* current has the mode 744 only where c_quit has set it.                  *)
LEMMA ExecCurrent ==
  ASSUME Inv, Next, IsExec("current")'
  PROVE  dir'["current"] = dir["current"] /\ dir["current"] \in Inodes /\ (Quit \/ (IsExec("current") /\ ~Quit))
<1>. USE DEF Inv, Shape
<1>0. /\ dir \in [Names -> Inodes \cup {NoInode}] /\ NoInode \notin Inodes /\ ino \in [Inodes -> File]
      /\ {"current", "previous", "processed", "newstate", "state"} \subseteq Names
  BY InodeOrNone DEF TypeOK, Names
<1>1. dir'["current"] = dir["current"]
  <2>1. RenameCurrent \/ (UnlinkFinished /\ fin.file = "current") => dir'["current"] = NoInode
    BY <1>0 DEF RenameCurrent, UnlinkFinished, Unlink
  <2>2. ASSUME Creating PROVE FALSE
    <3>1. HasRoom /\ dir' = [dir EXCEPT !["current"] = NewInode] /\ ino' = [ino EXCEPT ![NewInode] = Blank]
      BY <2>2 DEF Creating, CreateCurrent
    <3>2. NewInode \in Inodes
      BY <3>1, NewFile
    <3>. QED BY <1>0, <3>1, <3>2, BlankFile DEF IsExec
  <2>. QED BY <2>1, <2>2, NameSteps DEF IsExec
<1>2. dir["current"] \in Inodes /\ ino'[dir["current"]].exec
  BY <1>0, <1>1 DEF IsExec
<1>3. dir["current"] # dir["processed"] /\ dir["current"] # dir["previous"]
  BY <1>0, <1>2 DEF OneName
<1>4. ino[dir["current"]].exec \/ Quit
  BY <1>2, <1>3, ExecSteps
<1>. QED BY <1>0, <1>1, <1>2, <1>4 DEF IsExec

LEMMA ExecIsNewStep ==
  ASSUME Inv, Next
  PROVE  ExecIsNew'
<1>. USE DEF Inv, Shape
<1>0. "current" \in Names /\ NoInode \notin Inodes
  BY InodeOrNone DEF Names
<1>1. SUFFICES ASSUME IsExec("current")' PROVE ~IsOld(dir["current"])'
  BY DEF ExecIsNew
<1>2. dir'["current"] = dir["current"] /\ dir["current"] \in Inodes /\ (Quit \/ (IsExec("current") /\ ~Quit))
  BY <1>1, ExecCurrent
<1>3. ~IsOld(dir["current"])
  <2>1. CASE Quit
    BY <1>0, <1>2, <2>1 DEF Quit, At, BothNames, Missing, InFinish
  <2>2. CASE IsExec("current")
    BY <2>2 DEF Kept, ExecIsNew
  <2>. QED BY <1>2, <2>1, <2>2
<1>4. CASE Link
  <2>1. pc = "f_stat" /\ ~Quit /\ \A i : IsOld(i)' <=> IsOld(i) \/ i = dir[fin.file]
    BY <1>4, OldLinked DEF Link, Quit, At
  <2>2. dir[fin.file] # dir["current"]
    <3>1. SUFFICES ASSUME dir[fin.file] = dir["current"] PROVE FALSE
      OBVIOUS
    <3>2. fin \in Finishes /\ fin.file = "current"
      BY <1>0, <1>2, <2>1, <3>1 DEF TypeOK, OneName, InFinish, Place, WhileFinishing
    <3>3. fin.next = "r_state"
      BY <3>2 DEF Finishes
    <3>. QED BY <1>2, <2>1, <3>3 DEF InFinish, Place, WhileRestarting
  <2>. QED BY <1>2, <1>3, <2>1, <2>2
<1>5. CASE RemoveOldest
  <2>1. \A i : IsOld(i)' => IsOld(i)
    BY <1>5, OldRemoved
  <2>. QED BY <1>2, <1>3, <2>1
<1>6. CASE old' = old
  BY <1>2, <1>3, <1>6 DEF IsOld
<1>. QED BY <1>4, <1>5, <1>6, OldSteps

LEMMA ExecMeansSafeStep ==
  ASSUME Inv, Next
  PROVE  ExecMeansSafe'
<1>. USE DEF Inv, Shape
<1>. DEFINE i == dir["current"]
<1>0. /\ dir \in [Names -> Inodes \cup {NoInode}] /\ NoInode \notin Inodes /\ ino \in [Inodes -> File]
      /\ {"current", "previous", "processed", "newstate", "state"} \subseteq Names
  BY InodeOrNone DEF TypeOK, Names
<1>1. SUFFICES ASSUME IsExec("current")'
               PROVE  pc' \in {"stopped", "open"} /\ written' = input' /\ Safe(dir["current"])' /\ NoLeftOvers'
  BY DEF ExecMeansSafe, Safe, NoLeftOvers, Missing
<1>2. dir'["current"] = i /\ i \in Inodes /\ (Quit \/ (IsExec("current") /\ ~Quit))
  BY <1>1, ExecCurrent
<1>3. CASE Quit
  <2>1. pc = "q_mode" /\ pc' = "stopped" /\ dir' = dir /\ buffered' = buffered /\ ino' = [ino EXCEPT ![fd].exec = TRUE]
    BY <1>3, Zenon DEF Quit, At
  <2>2. written = input /\ Safe(fd) /\ fd = i /\ NoLeftOvers
    BY <2>1 DEF Place, WhileWriting, Files, Descriptor, HasFd
  <2>3. Safe(i)'
    <3>1. ino'[i] = [ino[i] EXCEPT !.exec = TRUE]
      BY <1>0, <1>2, <2>1, <2>2
    <3>2. \A j \in Inodes : Safe(j) /\ ino'[j] = [ino[j] EXCEPT !.exec = TRUE] => Safe(j)'
      BY SafeStays
    <3>. QED BY <1>2, <2>2, <3>1, <3>2 DEF Safe
  <2>. QED BY <2>1, <2>2, <2>3 DEF NoLeftOvers, Missing, Safe, buffered
<1>4. CASE IsExec("current")
  <2>1. pc \in {"stopped", "open"} /\ written = input /\ Safe(i) /\ NoLeftOvers
    BY <1>4 DEF Kept, ExecMeansSafe, Safe, NoLeftOvers, Missing
  <2>2. i \notin Unsynced
    BY <1>2, <2>1, FileType DEF Safe, Unsynced
  <2>3. \A k \in DOMAIN proc : ~Opens(k)
    BY <1>4 DEF Opens, Procs, Opening
  <2>4. ~Resume
    <3>1. \A b : [ino[i] EXCEPT !.exec = b].exec = b
      BY <1>0, <1>2 DEF File
    <3>2. SUFFICES ASSUME Resume PROVE FALSE
      OBVIOUS
    <3>3. ino' = [ino EXCEPT ![i].exec = FALSE]
      BY <3>2, Zenon DEF Resume
    <3>4. ino'[i] = [ino[i] EXCEPT !.exec = FALSE]
      BY <1>0, <1>2, <3>3
    <3>. QED BY <1>1, <1>2, <3>1, <3>4 DEF IsExec
  <2>5. ~Dropping /\ ~EmptyState /\ ~Creating /\ ~RenameCurrent /\ ~RenameNewstate
    BY <1>4, <2>1 DEF Dropping, DropState, DropNewstate, DropPrevious, DropProcessed, Drop, UnlinkFinished,
      UnlinkPrevious, EmptyState, Creating, CreateCurrent, RenameCurrent, RenameNewstate, At
  <2>6. dir' = dir
    BY <2>3, <2>5, DirSteps
  <2>7. ino'[i] = ino[i]
    <3>1. ~NamedTouches("current")
      BY <2>1, <2>2, <2>4 DEF NamedTouches, Write, SyncCurrent, QuitSync, Quit, At
    <3>. QED BY <1>0, <1>2, <2>6, <3>1, NamedSteps DEF Missing
  <2>8. pc' \in {"stopped", "open"} /\ written' = input'
    <3>1. CASE Processors
      BY <2>1, <3>1 DEF Processors, Opens, CannotOpen, Outputs, Succeeds, Fails, Processing, buffered
    <3>2. CASE Multilog
      BY <1>4, <2>1, <2>4, <3>2
      DEF Multilog, Restart, Start, DropState, DropNewstate, DropPrevious, DropProcessed, Drop, FinishCurrent,
          EmptyState, CreateCurrent, Finishing, NoFile, AlreadyLinked, Link, LinkFails, UnlinkFinished, RemoveOldest,
          Fits, Rotation, SyncCurrent, RenameCurrent, MarkPrevious, Fork, ProcessorFailed, ProcessorDone,
          MarkProcessed, SyncNewstate, UnlinkPrevious, RenameNewstate, Writing, WriteFull, Write, Flushed,
          Quitting, QuitSync, Quit, At, buffered
    <3>3. CASE Environment
      BY <2>1, <3>3 DEF Environment, Put, Flush, ForceRotate, EndOfInput, Kill, Outage, Died, At
    <3>. QED BY <3>1, <3>2, <3>3 DEF Next
  <2>. QED BY <2>1, <2>6, <2>7, <2>8 DEF NoLeftOvers, Missing, Safe
<1>. QED BY <1>2, <1>3, <1>4

LEMMA KeptStep ==
  ASSUME Inv, Next
  PROVE  Kept'
  BY SafelyWrittenStep, ProcessedSafeStep, ExecIsNewStep, ExecMeansSafeStep DEF Kept

-----------------------------------------------------------------------------
(* The invariant                                                           *)

LEMMA InvStep == Inv /\ Next => Inv'
  BY TypeStep, ShapeStep, FilesStep, ProcsStep, PlacesStep, KeptStep DEF Inv

LEMMA InvStutter == Inv /\ UNCHANGED vars => Inv'
<1>. SUFFICES ASSUME Inv, UNCHANGED vars PROVE Inv'
  OBVIOUS
<1>. USE DEF Inv
<1>1. /\ dir' = dir /\ old' = old /\ ino' = ino /\ fd' = fd /\ bytes' = bytes /\ processor' = processor
      /\ pc' = pc /\ fin' = fin /\ quitting' = quitting /\ input' = input /\ written' = written /\ proc' = proc
      /\ lost' = lost /\ removed' = removed /\ crashes' = crashes /\ failures' = failures /\ alarms' = alarms
  BY DEF vars, disk, d, buffered, counts
<1>2. /\ InFinish' = InFinish /\ HasFd' = HasFd /\ Restarting' = Restarting
      /\ \A n : /\ IsExec(n)' = IsExec(n) /\ Missing(n)' = Missing(n)
      /\ \A i : /\ IsOld(i)' = IsOld(i) /\ Linked(i)' = Linked(i) /\ IsOpen(i)' = IsOpen(i) /\ Safe(i)' = Safe(i)
  BY <1>1 DEF InFinish, HasFd, Restarting, IsExec, IsOld, Missing, Linked, IsOpen, Safe
<1>3. TypeOK'
  BY <1>1 DEF TypeOK
<1>4. Shape'
  BY <1>1, <1>2 DEF Shape, OneName, OneOldName, BothNames, FreeBlank
<1>5. Files'
  BY <1>1, <1>2 DEF Files, Descriptor, CurrentFits, BytesWritten
<1>6. Phases' /\ NoneShared' /\ Opening'
  BY <1>1, <1>2 DEF Procs, Phases, NoneShared, Opening
<1>7. Reach'
  BY <1>1, <1>2 DEF Procs, Reach
<1>8. WhileWriting' /\ WhileRotating'
  BY <1>1, <1>2 DEF Place, WhileWriting, WhileRotating, NoLeftOvers, Rotated, Processed
<1>9. WhileFinishing' /\ WhileRestarting'
  BY <1>1, <1>2 DEF Place, WhileFinishing, WhileRestarting, NoLeftOvers
<1>10. Kept'
  BY <1>1, <1>2 DEF Kept, SafelyWritten, ProcessedSafe, ExecIsNew, ExecMeansSafe
<1>. QED BY <1>3, <1>4, <1>5, <1>6, <1>7, <1>8, <1>9, <1>10 DEF Procs, Place

LEMMA InvInit == Init => Inv
<1>. SUFFICES ASSUME Init PROVE Inv
  OBVIOUS
<1>1. TypeOK
  BY TypeInit
<1>2. /\ \A n \in Names : dir[n] = NoInode
      /\ old = <<>> /\ DOMAIN old = {}
      /\ \A i \in Inodes : ino[i] = Blank
      /\ fd = NoInode /\ pc = "stopped" /\ NoInode \notin Inodes
      /\ \A k \in DOMAIN proc : proc[k] = NoProcessor
      /\ lost = {} /\ removed = {}
  BY InodeOrNone DEF Init
<1>3. NoProcessor.phase = "none" /\ Held(NoProcessor) = {NoInode} /\ DOMAIN <<>> = {} /\ Len(<<>>) = 0
  BY DEF NoProcessor, Held
<1>4. {"current", "previous", "processed", "state", "newstate"} = Names
  BY DEF Names
<1>5. ~InFinish /\ ~HasFd /\ (\A n \in Names : Missing(n) /\ ~IsExec(n)) /\ \A i : ~IsOld(i)
  BY <1>2 DEF InFinish, HasFd, Missing, IsExec, IsOld
<1>6. Shape
  BY <1>2, <1>5 DEF Shape, OneName, OneOldName, BothNames, FreeBlank, Missing
<1>7. Files
  BY <1>2, <1>3, <1>4, <1>5 DEF Files, Descriptor, CurrentFits, BytesWritten, Blank
<1>8. Procs
  BY <1>2, <1>3 DEF Procs, Phases, NoneShared, Reach, Opening
<1>9. Place
  BY <1>2, <1>5 DEF Place, WhileWriting, WhileRotating, WhileFinishing, WhileRestarting
<1>10. Kept
  BY <1>2, <1>4, <1>5 DEF Kept, SafelyWritten, ProcessedSafe, ExecIsNew, ExecMeansSafe
<1>. QED BY <1>1, <1>6, <1>7, <1>8, <1>9, <1>10 DEF Inv

(* The invariant Inv is one: every step of multilog, of any                *)
(* processor, every kill and every outage keeps it.                        *)
THEOREM CyclogInvariant == Spec => []Inv
<1>1. Inv /\ [Next]_vars => Inv'
  BY InvStep, InvStutter
<1>. QED BY <1>1, InvInit, PTL DEF Spec

(* Every variable keeps its type, and d->bytes never exceeds d->size.      *)
THEOREM CyclogTyped == Spec => []TypeOK
<1>1. Inv => TypeOK
  BY DEF Inv
<1>. QED BY <1>1, CyclogInvariant, PTL

(* Whenever multilog reads or writes lines, its descriptor is current's,   *)
(* which has no other name and the mode 644, and d->bytes is its length:   *)
(* after any kills and restarts, and whatever processors are left.         *)
THEOREM CyclogWritesCurrent == Spec => []WritesCurrent
<1>1. Inv => WritesCurrent
  <2>1. SUFFICES ASSUME Inv, pc \in {"idle", "flush", "sync", "q_sync", "q_mode"}
                 PROVE  /\ fd # NoInode /\ fd = dir["current"] /\ Links(fd) = 1 /\ ~ino[fd].exec
                        /\ bytes = Len(ino[fd].data)
    BY DEF WritesCurrent
  <2>2. fd # NoInode /\ fd = dir["current"] /\ ~ino[fd].exec /\ bytes = Len(ino[fd].data)
    BY <2>1, InodeOrNone DEF Inv, Files, Descriptor, HasFd
  <2>3. "current" \in Names /\ ~Missing("current")
    BY <2>2 DEF Names, Missing
  <2>4. ~IsOld(dir["current"])
    BY <2>1, <2>3 DEF Inv, Shape, BothNames, InFinish
  <2>5. Links(dir["current"]) = 1
    BY <2>1, <2>3, <2>4, LinksName DEF Inv, Shape
  <2>. QED BY <2>2, <2>5
<1>. QED BY <1>1, CyclogInvariant, PTL

(* An old file with the code s is safely on disk, however multilog and its *)
(* processors were killed and restarted (multilog.8: "completely processed *)
(* and safely written to disk").                                           *)
THEOREM CyclogSafelyWritten == Spec => []SafelyWritten
<1>1. Inv => SafelyWritten
  BY DEF Inv, Kept
<1>. QED BY <1>1, CyclogInvariant, PTL

(* A current of mode 744 is one that c_quit has closed: all input is in it *)
(* and on disk, and no rotation is half done.                              *)
THEOREM CyclogExecMeansSafe == Spec => []ExecMeansSafe
<1>1. Inv => ExecMeansSafe
  BY DEF Inv, Kept
<1>. QED BY <1>1, CyclogInvariant, PTL

=============================================================================
