------------------------------ MODULE CyclogLog -------------------------------
(***************************************************************************)
(* What is read back from one log of multilog, from the invariant that     *)
(* CyclogProofs establishes: nothing that was written is lost, the files   *)
(* hold the input in order and once, and filesfit() bounds their number.   *)
(* Files of a log that nothing has cut off end at ends of lines when they  *)
(* are full, and what a processor is given follows the file before.        *)
(*                                                                         *)
(* The files of the log are the old ones, the one that is being finished   *)
(* and current (InLog).  The proofs follow a file through the system       *)
(* calls: what it may hold after a step (LogData), when it stays in the    *)
(* log and what comes into it (StaysInLog, EntersLog), and which file      *)
(* follows which (FollowsSteps).                                           *)
(***************************************************************************)
EXTENDS CyclogProofs

-----------------------------------------------------------------------------
(* How many old files there are: one more after each kill that came        *)
(* between link() and filesfit()                                           *)
Bounded == /\ Len(old) <= Num + crashes
           /\ pc \notin {"f_unlink", "f_fit"} => Len(old) < Num + crashes

LEMMA BoundedStep ==
  ASSUME Inv, Bounded, Next
  PROVE  Bounded'
<1>. USE DEF Inv
<1>0. Len(old) \in Nat /\ crashes \in Nat /\ Num \in Nat /\ crashes' \in Nat
      /\ (crashes' = crashes \/ crashes' = crashes + 1)
  BY OldType, CrashSteps, CyclogAssumption
<1>1. CASE Link
  <2>1. Len(old') = Len(old) + 1 /\ pc = "f_stat" /\ pc' = "f_unlink" /\ crashes' = crashes
    BY <1>1, OldLinked DEF Link, At, counts
  <2>. QED BY <1>0, <2>1 DEF Bounded
<1>2. CASE RemoveOldest
  <2>1. Len(old') = Len(old) - 1 /\ pc' = pc /\ crashes' = crashes /\ Len(old) >= Num
    BY <1>2, OldRemoved DEF RemoveOldest, counts, TooMany
  <2>. QED BY <1>0, <2>1 DEF Bounded
<1>3. CASE Kill \/ Outage
  <2>1. crashes' = crashes + 1 /\ old' = old
    BY <1>3, CrashSteps DEF Kill, Outage, Died
  <2>. QED BY <1>0, <2>1 DEF Bounded
<1>4. CASE Fits
  <2>1. ~(Len(old) >= Num) /\ old' = old
    BY <1>4 DEF Fits, TooMany, disk
  <2>. QED BY <1>0, <2>1 DEF Bounded
<1>5. ASSUME old' = old, ~Kill, ~Outage, pc \in {"f_unlink", "f_fit"} => pc' \in {"f_unlink", "f_fit"}
      PROVE  Bounded'
  BY <1>0, <1>5, CrashSteps DEF Bounded
<1>6. \/ Link \/ RemoveOldest \/ Kill \/ Outage \/ Fits
      \/ pc \in {"f_unlink", "f_fit"} => pc' \in {"f_unlink", "f_fit"}
  <2>1. CASE Restart
    BY <2>1 DEF Restart, Start, Resume, DropState, DropNewstate, DropPrevious, DropProcessed, Drop, FinishCurrent,
                EmptyState, CreateCurrent, At
  <2>2. CASE Finishing
    BY <2>2 DEF Finishing, NoFile, AlreadyLinked, Link, LinkFails, UnlinkFinished, RemoveOldest, Fits, At
  <2>3. CASE Rotation
    BY <2>3 DEF Rotation, SyncCurrent, RenameCurrent, CreateCurrent, MarkPrevious, Fork, ProcessorFailed,
                ProcessorDone, MarkProcessed, SyncNewstate, UnlinkPrevious, RenameNewstate, At
  <2>4. CASE Processors
    BY <2>4 DEF Processors, Opens, CannotOpen, Outputs, Succeeds, Fails, Processing
  <2>. QED
    BY <2>1, <2>2, <2>3, <2>4 DEF Next, Multilog, Environment, Writing, WriteFull, Write, Flushed, Quitting,
         QuitSync, Quit, Put, Flush, ForceRotate, EndOfInput, At
<1>. QED BY <1>1, <1>2, <1>3, <1>4, <1>5, <1>6, OldSteps

(* filesfit() keeps the number of old files below num, but for those that  *)
(* a kill has left it.                                                     *)
THEOREM CyclogOldBounded == Spec => []OldBounded
<1>1. Init => Bounded
  BY CyclogAssumption DEF Init, Bounded
<1>2. Inv /\ Bounded /\ [Next]_vars => Bounded'
  BY BoundedStep DEF Bounded, vars, disk, counts
<1>3. Bounded => OldBounded
  BY DEF Bounded, OldBounded
<1>. QED BY <1>1, <1>2, <1>3, CyclogInvariant, PTL DEF Spec

-----------------------------------------------------------------------------
(* The files of the log                                                    *)

InLog(i) == i \in Inodes /\ (IsOld(i) \/ i = Unfinished \/ i = dir["current"])

LEMMA UnfinishedIs ==
  ASSUME Inv, NEW i \in Inodes, i = Unfinished
  PROVE  \/ IsExec("processed") /\ i = dir["processed"]
         \/ ~IsExec("processed") /\ i = dir["previous"]
  BY DEF Unfinished

LEMMA InLogLinked ==
  ASSUME Inv, NEW i, InLog(i)
  PROVE  Linked(i)
  BY DEF InLog, Linked, Unfinished, Names

(* The mode of processed stays until it is finished.                       *)
LEMMA MarkedStays ==
  ASSUME Inv, Next, IsExec("processed"), dir'["processed"] = dir["processed"]
  PROVE  IsExec("processed")'
<1>. USE DEF Inv, Shape
<1>. DEFINE q == dir["processed"]
<1>0. /\ NoInode \notin Inodes /\ ino \in [Inodes -> File] /\ "processed" \in Names
      /\ q \in Inodes /\ ino[q].exec /\ ~Missing("processed")
  BY InodeOrNone, DirType DEF TypeOK, Names, IsExec, Missing
<1>1. ino'[q].exec
  <2>1. CASE ino'[q] = ino[q]
    BY <1>0, <2>1
  <2>2. CASE MarkProcessed
    BY <2>2, ProcessedStep DEF MarkProcessed, At, IsExec
  <2>3. CASE Outage /\ ino'[q] = Torn(q)
    <3>1. Torn(q).exec = ino[q].exec
      BY <1>0 DEF Torn, File
    <3>. QED BY <1>0, <2>3, <3>1
  <2>4. ~ProcessorDone
    BY DEF ProcessorDone, At, Place, WhileRotating
  <2>5. \A k \in DOMAIN proc : ~Opens(k)
    BY DEF Opens, Procs, Opening
  <2>6. \A k \in DOMAIN proc : Outputs(k) => q # proc[k].out
    BY <1>0 DEF Outputs, Procs, Reach
  <2>7. ino'[q] = ino[q] \/ NamedTouches("processed")
    BY <1>0, NamedSteps
  <2>. QED BY <2>1, <2>2, <2>3, <2>4, <2>5, <2>6, <2>7 DEF NamedTouches
<1>. QED BY <1>0, <1>1 DEF IsExec

(* What fullcurrent() and restart() do about the file to be finished       *)
LEMMA UnfinishedSteps ==
  ASSUME Inv, Next
  PROVE  \/ Unfinished' = Unfinished
         \/ RenameCurrent /\ Unfinished = NoInode /\ Unfinished' = dir["current"]
         \/ /\ MarkProcessed /\ Unfinished = dir["previous"] /\ Unfinished' = dir["processed"]
            /\ Processed
         \/ UnlinkFinished /\ Unfinished = dir[fin.file] /\ Unfinished' = NoInode
<1>. USE DEF Inv, Shape
<1>0. /\ dir \in [Names -> Inodes \cup {NoInode}] /\ NoInode \notin Inodes
      /\ {"current", "previous", "processed", "newstate", "state"} = Names
  BY InodeOrNone DEF TypeOK, Names
<1>1. CASE MarkProcessed
  <2>1. Processed /\ ~ino[dir["processed"]].exec /\ dir' = dir /\ IsExec("processed")'
    BY <1>1, ProcessedStep DEF MarkProcessed, At, Place, WhileRotating
  <2>. QED BY <1>1, <2>1 DEF Unfinished, IsExec
<1>2. CASE RenameCurrent
  <2>1. NoLeftOvers
    BY <1>2 DEF RenameCurrent, At, Place, WhileWriting
  <2>2. dir'["processed"] = NoInode /\ dir'["previous"] = dir["current"] /\ dir["processed"] = NoInode
        /\ dir["previous"] = NoInode
    BY <1>0, <1>2, <2>1 DEF RenameCurrent, NoLeftOvers, Missing
  <2>. QED BY <1>2, <2>2 DEF Unfinished, IsExec
<1>3. CASE UnlinkFinished
  <2>1. pc = "f_unlink" /\ dir' = [dir EXCEPT ![fin.file] = NoInode] /\ fin.file \in Names
    BY <1>3 DEF UnlinkFinished, At, Unlink, TypeOK
  <2>2. /\ fin \in Finishes /\ ~Missing(fin.file)
        /\ fin.file # "previous" => Missing("previous")
        /\ fin.file # "processed" => Missing("processed")
        /\ fin.file = "processed" => IsExec("processed")
    BY <2>1 DEF Place, WhileFinishing, InFinish
  <2>3. dir'["processed"] = NoInode /\ dir'["previous"] = NoInode
    BY <1>0, <2>1, <2>2 DEF Missing
  <2>4. Unfinished' = NoInode
    BY <2>3 DEF Unfinished, IsExec
  <2>5. CASE fin.file = "current"
    BY <2>2, <2>4, <2>5 DEF Unfinished, IsExec, Missing
  <2>6. CASE fin.file = "processed"
    BY <1>3, <2>2, <2>4, <2>6 DEF Unfinished
  <2>7. CASE fin.file = "previous"
    BY <1>3, <2>2, <2>4, <2>7 DEF Unfinished, IsExec, Missing
  <2>. QED BY <2>2, <2>5, <2>6, <2>7 DEF Finishes
<1>4. CASE ~MarkProcessed /\ ~RenameCurrent /\ ~UnlinkFinished
  <2>1. \/ dir'["previous"] = dir["previous"]
        \/ IsExec("processed") /\ dir'["processed"] = dir["processed"]
    <3>1. CASE DropPrevious
      BY <1>0, <3>1 DEF DropPrevious, Unlink, At, Place, WhileRestarting
    <3>2. CASE UnlinkPrevious
      BY <1>0, <3>2 DEF UnlinkPrevious, Unlink, At, Place, WhileRotating
    <3>. QED BY <1>4, <3>1, <3>2, NameSteps
  <2>2. CASE dir'["processed"] = dir["processed"]
    <3>1. IsExec("processed") => IsExec("processed")'
      BY <2>2, MarkedStays
    <3>2. IsExec("processed")' => IsExec("processed")
      <4>1. SUFFICES ASSUME dir["processed"] \in Inodes, ino'[dir["processed"]].exec
                     PROVE  ino[dir["processed"]].exec
        BY <1>0, <2>2 DEF IsExec
      <4>2. dir["processed"] # dir["current"] /\ dir["processed"] # dir["previous"]
        BY <1>0, <4>1 DEF OneName
      <4>. QED BY <1>4, <4>1, <4>2, ExecSteps
    <3>. QED BY <2>1, <2>2, <3>1, <3>2 DEF Unfinished
  <2>3. CASE DropProcessed
    <3>1. ~IsExec("processed") /\ dir'["processed"] = NoInode /\ dir'["previous"] = dir["previous"]
      BY <1>0, <2>3 DEF DropProcessed, Unlink, At, Place, WhileRestarting
    <3>. QED BY <3>1 DEF Unfinished, IsExec
  <2>4. ASSUME NEW k \in DOMAIN proc, Opens(k) PROVE Unfinished' = Unfinished
    <3>1. ~IsExec("processed")
      BY <2>4 DEF Opens, Procs, Opening
    <3>2. ~IsExec("processed")' /\ dir'["previous"] = dir["previous"]
      BY <2>4, OpensUnmarked, OpensHeld
    <3>. QED BY <3>1, <3>2 DEF Unfinished
  <2>. QED BY <1>4, <2>2, <2>3, <2>4, NameSteps
<1>. QED BY <1>1, <1>2, <1>3, <1>4

LEMMA CurrentIs ==
  ASSUME Inv, Next
  PROVE  \/ dir'["current"] = dir["current"]
         \/ Creating /\ dir["current"] = NoInode /\ dir'["current"] \in Inodes /\ ino'[dir'["current"]].data = <<>>
         \/ RenameCurrent /\ dir'["current"] = NoInode
         \/ UnlinkFinished /\ fin.file = "current" /\ dir'["current"] = NoInode
<1>. USE DEF Inv, Shape
<1>0. /\ dir \in [Names -> Inodes \cup {NoInode}] /\ ino \in [Inodes -> File] /\ "current" \in Names
  BY DEF TypeOK, Names
<1>1. CASE Creating
  <2>1. Missing("current")
    BY <1>1 DEF Creating, CreateCurrent, At, Place, WhileRotating, WhileRestarting
  <2>2. HasRoom /\ dir' = [dir EXCEPT !["current"] = NewInode] /\ ino' = [ino EXCEPT ![NewInode] = Blank]
    BY <1>1 DEF Creating, CreateCurrent
  <2>3. NewInode \in Inodes
    BY <2>2, NewFile
  <2>4. dir'["current"] = NewInode /\ ino'[NewInode] = Blank
    BY <1>0, <2>2, <2>3
  <2>. QED BY <1>1, <2>1, <2>3, <2>4, BlankFile DEF Missing
<1>2. CASE RenameCurrent
  BY <1>0, <1>2 DEF RenameCurrent
<1>3. CASE UnlinkFinished /\ fin.file = "current"
  BY <1>0, <1>3 DEF UnlinkFinished, Unlink
<1>. QED BY <1>1, <1>2, <1>3, NameSteps

(* The bytes of a file of the log stay, but for those that write() adds    *)
(* to current and that an outage takes from the end.                       *)
LEMMA LogData ==
  ASSUME Inv, Next, NEW i, InLog(i), Linked(i)'
  PROVE  \/ ino'[i].data = ino[i].data
         \/ Write /\ i = fd /\ i = dir["current"]
         \/ Outage /\ ino'[i].data = SubSeq(ino[i].data, 1, ino[i].synced)
<1>. USE DEF Inv, Shape
<1>0. /\ NoInode \notin Inodes /\ ino \in [Inodes -> File] /\ i \in Inodes /\ Linked(i)
      /\ {"current", "previous", "processed", "newstate", "state"} \subseteq Names
  BY InodeOrNone, InLogLinked DEF TypeOK, Names, InLog
<1>1. CASE Write
  <2>1. fd = dir["current"] /\ \A j \in Inodes : j # fd => ino'[j] = ino[j]
    BY <1>1, WriteDoes, WriteAppends DEF Write, Files, Descriptor, HasFd
  <2>. QED BY <1>0, <1>1, <2>1
<1>2. CASE Outage /\ ino'[i] = Torn(i)
  <2>1. Torn(i).data = SubSeq(ino[i].data, 1, ino[i].synced)
    BY <1>0 DEF Torn, File
  <2>. QED BY <1>2, <2>1
<1>3. ASSUME NEW k \in DOMAIN proc, Opens(k), i \in {dir["processed"], dir["newstate"]} PROVE FALSE
  <2>1. ~IsExec("processed") /\ \A n \in Names : ~Missing(n) => ~IsOld(dir[n])
    BY <1>3 DEF Opens, Procs, Opening
  <2>2. ~IsOld(i)
    BY <1>0, <1>3, <2>1 DEF Missing
  <2>3. i = dir["previous"] \/ i = dir["current"]
    BY <1>0, <2>1, <2>2 DEF InLog, Unfinished
  <2>. QED BY <1>0, <1>3, <2>3 DEF OneName
<1>4. ASSUME NEW k \in DOMAIN proc, Outputs(k), i \in {proc[k].out, proc[k].ns} PROVE FALSE
  <2>1. /\ ~IsOld(proc[k].out) /\ ~IsOld(proc[k].ns) /\ ~ino[proc[k].out].exec
        /\ \A n \in Names : /\ dir[n] = proc[k].out => n = "processed"
                            /\ dir[n] = proc[k].ns => n = "newstate"
    BY <1>4 DEF Outputs, Procs, Reach
  <2>2. i = Unfinished \/ i = dir["current"]
    BY <1>0, <1>4, <2>1 DEF InLog
  <2>3. i # dir["current"] /\ i # dir["previous"]
    BY <1>0, <1>4, <2>1
  <2>4. IsExec("processed") /\ i = dir["processed"]
    BY <2>2, <2>3 DEF Unfinished
  <2>. QED BY <1>0, <1>4, <2>1, <2>4 DEF IsExec
<1>5. CASE Resume \/ SyncCurrent \/ QuitSync \/ Quit \/ MarkPrevious \/ ProcessorDone \/ MarkProcessed \/ SyncNewstate
  <2>1. (\A j \in Inodes : [ino[j] EXCEPT !.exec = TRUE].data = ino[j].data)
        /\ (\A j \in Inodes : [ino[j] EXCEPT !.exec = FALSE].data = ino[j].data)
        /\ \A n : \A j \in Inodes : [ino[j] EXCEPT !.synced = n].data = ino[j].data
    BY <1>0 DEF File
  <2>2. \/ \E j : ino' = [ino EXCEPT ![j].exec = TRUE]
        \/ \E j : ino' = [ino EXCEPT ![j].exec = FALSE]
        \/ \E j : ino' = [ino EXCEPT ![j].synced = Len(ino[j].data)]
    BY <1>5, Zenon DEF Resume, SyncCurrent, QuitSync, Quit, MarkPrevious, ProcessorDone, MarkProcessed, SyncNewstate, Sync
  <2>3. CASE \E j : ino' = [ino EXCEPT ![j].exec = TRUE]
    <3>1. ino'[i] \in {ino[i], [ino[i] EXCEPT !.exec = TRUE]}
      BY <1>0, <2>3
    <3>. QED BY <1>0, <2>1, <3>1
  <2>4. CASE \E j : ino' = [ino EXCEPT ![j].exec = FALSE]
    <3>1. ino'[i] \in {ino[i], [ino[i] EXCEPT !.exec = FALSE]}
      BY <1>0, <2>4
    <3>. QED BY <1>0, <2>1, <3>1
  <2>5. CASE \E j : ino' = [ino EXCEPT ![j].synced = Len(ino[j].data)]
    <3>1. ino'[i] \in {ino[i], [ino[i] EXCEPT !.synced = Len(ino[i].data)]}
      BY <1>0, <2>5
    <3>2. [ino[i] EXCEPT !.synced = Len(ino[i].data)].data = ino[i].data
      BY <1>0 DEF File
    <3>. QED BY <3>1, <3>2, Zenon
  <2>. QED BY <2>2, <2>3, <2>4, <2>5
<1>6. ino'[i] = ino[i] \/ Touches(i)
  BY <1>0, FileSteps
<1>. QED BY <1>1, <1>2, <1>3, <1>4, <1>5, <1>6 DEF Touches

(* When filesfit() runs, no file has both a name and an old name.          *)
Alone == pc = "f_fit" => \A n \in Names : ~Both(n)

LEMMA AloneStep ==
  ASSUME Inv, Next, Alone
  PROVE  Alone'
<1>. USE DEF Inv, Shape
<1>1. SUFFICES ASSUME pc' = "f_fit", NEW n \in Names, Both(n)' PROVE FALSE
  BY DEF Alone
<1>2. ~Link
  BY <1>1 DEF Link, At
<1>3. Both(n) /\ dir'[n] = dir[n]
  BY <1>1, <1>2, BothSteps
<1>4. UnlinkFinished \/ pc = "f_fit"
  BY <1>1, FinishingAt DEF DropPrevious, DropProcessed, FinishCurrent, MarkPrevious, RenameNewstate, AlreadyLinked, Link,
     LinkFails, RemoveOldest, At, InFinish
<1>5. UnlinkFinished
  BY <1>3, <1>4 DEF Alone
<1>6. pc = "f_unlink" /\ dir'[fin.file] = NoInode /\ fin.file \in Names
  BY <1>5 DEF UnlinkFinished, At, Unlink, TypeOK
<1>7. n # fin.file
  BY <1>3, <1>6 DEF Both, Missing
<1>8. n = "current" /\ fin.next = "r_current" /\ Missing("previous") /\ Missing("processed")
  BY <1>3, <1>6, <1>7 DEF BothNames, Both, InFinish
<1>9. fin \in Finishes /\ ~Missing(fin.file)
  BY <1>6 DEF Place, WhileFinishing, InFinish
<1>. QED BY <1>7, <1>8, <1>9 DEF Finishes

(* What finish() links is part of the log already.                         *)
LEMMA LinkInLog ==
  ASSUME Inv, Link
  PROVE  /\ dir[fin.file] \in Inodes /\ ~IsOld(dir[fin.file])
         /\ fin.file = "current" \/ dir[fin.file] = Unfinished
         /\ fin.file = "current" => Unfinished = NoInode
<1>. USE DEF Inv, Shape
<1>1. pc = "f_stat" /\ InFinish /\ fin.file \in Names /\ ~Missing(fin.file) /\ ~IsOld(dir[fin.file])
  BY OldLinked DEF Link, At, InFinish, TypeOK
<1>2. dir[fin.file] \in Inodes
  BY <1>1, DirType DEF Missing
<1>3. /\ fin \in Finishes
      /\ fin.file # "previous" => Missing("previous")
      /\ fin.file # "processed" => Missing("processed")
      /\ fin.file = "processed" => IsExec("processed")
  BY <1>1 DEF Place, WhileFinishing
<1>. QED BY <1>1, <1>2, <1>3 DEF Finishes, Unfinished, IsExec, Missing

(* A file leaves the log only when filesfit() removes it, or for the       *)
(* processed one, which holds the same.                                    *)
LEMMA StaysInLog ==
  ASSUME Inv, Next, NEW i, InLog(i)
  PROVE  \/ InLog(i)'
         \/ RemoveOldest /\ i = old[1].ino
         \/ MarkProcessed /\ i = dir["previous"] /\ Unfinished' = dir["processed"] /\ Processed
<1>. USE DEF Inv, Shape
<1>0. i \in Inodes /\ NoInode \notin Inodes
  BY InodeOrNone DEF InLog
<1>1. CASE IsOld(i)
  <2>1. CASE Link
    BY <1>0, <1>1, <2>1, OldLinked DEF InLog
  <2>2. CASE RemoveOldest
    BY <1>0, <1>1, <2>2, OldRemoved DEF InLog
  <2>3. CASE old' = old
    BY <1>0, <1>1, <2>3 DEF InLog, IsOld
  <2>. QED BY <2>1, <2>2, <2>3, OldSteps
<1>3. UnlinkFinished => IsOld(dir[fin.file])
  BY DEF UnlinkFinished, At, Place, WhileFinishing, InFinish
<1>4. CASE i = Unfinished /\ ~IsOld(i)
  BY <1>0, <1>3, <1>4, UnfinishedSteps DEF InLog
<1>5. CASE i = dir["current"] /\ ~IsOld(i)
  <2>1. RenameCurrent => Unfinished' = dir["current"] \/ Unfinished' = Unfinished
    BY UnfinishedSteps DEF RenameCurrent, MarkProcessed, UnlinkFinished, At
  <2>2. RenameCurrent => Unfinished' = dir["current"]
    <3>1. SUFFICES ASSUME RenameCurrent PROVE Unfinished' = dir["current"]
      OBVIOUS
    <3>2. NoLeftOvers
      BY <3>1 DEF RenameCurrent, At, Place, WhileWriting
    <3>3. dir'["processed"] = NoInode /\ dir'["previous"] = dir["current"]
      BY <3>1, <3>2 DEF RenameCurrent, NoLeftOvers, Missing, TypeOK, Names
    <3>. QED BY <3>3 DEF Unfinished, IsExec
  <2>. QED BY <1>0, <1>3, <1>5, <2>2, CurrentIs DEF InLog
<1>. QED BY <1>1, <1>4, <1>5 DEF InLog

(* What comes into the log is empty, or the processed file.                *)
LEMMA EntersLog ==
  ASSUME Inv, Next, NEW i, InLog(i)'
  PROVE  \/ InLog(i)
         \/ ino'[i].data = <<>>
         \/ /\ MarkProcessed /\ i = dir["processed"] /\ Unfinished = dir["previous"] /\ Processed
            /\ dir["previous"] \in Inodes
<1>. USE DEF Inv, Shape
<1>0. i \in Inodes /\ NoInode \notin Inodes /\ "previous" \in Names
  BY InodeOrNone DEF InLog, Names
<1>1. CASE IsOld(i)'
  <2>1. CASE Link
    BY <1>0, <1>1, <2>1, OldLinked, LinkInLog DEF InLog
  <2>2. CASE RemoveOldest
    BY <1>0, <1>1, <2>2, OldRemoved DEF InLog
  <2>3. CASE old' = old
    BY <1>0, <1>1, <2>3 DEF InLog, IsOld
  <2>. QED BY <2>1, <2>2, <2>3, OldSteps
<1>2. CASE i = Unfinished'
  <2>1. Processed => dir["previous"] \in Inodes
    BY <1>0, DirType DEF Processed, Missing
  <2>. QED BY <1>0, <1>2, <2>1, UnfinishedSteps DEF InLog
<1>3. CASE i = dir'["current"]
  BY <1>0, <1>3, CurrentIs DEF InLog
<1>. QED BY <1>1, <1>2, <1>3 DEF InLog

-----------------------------------------------------------------------------
(* No byte is lost                                                         *)

InLogged(b) == \E i \in Inodes : InLog(i) /\ b \in Bytes(i)
LoggedIs == \A b : b \in Logged <=> InLogged(b)

LEMMA LoggedAre == TypeOK => LoggedIs
<1>. SUFFICES ASSUME TypeOK, NEW b PROVE b \in Logged <=> InLogged(b)
  BY DEF LoggedIs
<1>1. b \in Logged <=> \E k \in DOMAIN LogFiles : b \in Bytes(LogFiles[k])
  BY DEF Logged
<1>. QED BY <1>1, LogFilesType DEF InLogged, InLog

LEMMA LoggedAreNext == TypeOK' => LoggedIs'
  BY LoggedAre, PTL

Present == \A b \in 1..written : b \in lost \/ b \in removed \/ InLogged(b)

LEMMA PresentStep ==
  ASSUME Inv, Next, Present
  PROVE  Present'
<1>. USE DEF Inv
<1>0. written \in Nat /\ written' \in Nat /\ input \in Nat /\ written <= input
  BY InputStep, CyclogAssumption DEF TypeOK
<1>1. lost \subseteq lost' /\ removed \subseteq removed'
  BY LostStep, RemovedStep DEF Kill, Outage, RemoveOldest
<1>2. ASSUME NEW i, InLog(i), NEW b \in Bytes(i)
      PROVE  b \in lost' \/ b \in removed' \/ InLogged(b)'
  <2>0. i \in Inodes /\ ino[i].data \in Seq(Nat) /\ DOMAIN ino[i].data = 1..Len(ino[i].data) /\ Len(ino[i].data) \in Nat
    BY <1>2, FileType DEF InLog
  <2>1. PICK k \in DOMAIN ino[i].data : b = ino[i].data[k]
    BY <1>2 DEF Bytes
  <2>2. CASE InLog(i)' /\ ~Outage
    <3>1. Linked(i)'
      BY <2>2 DEF InLog, Linked, Unfinished, Names
    <3>2. b \in Bytes(i)'
      <4>1. CASE ino'[i].data = ino[i].data
        BY <2>1, <4>1 DEF Bytes
      <4>2. CASE Write /\ i = fd
        <5>1. PICK w \in Nat :
                /\ fd \in Inodes
                /\ ino' = [ino EXCEPT ![fd].data = ino[fd].data \o [j \in 1..w |-> written + j]]
          BY <4>2, WriteDoes
        <5>2. k \in DOMAIN ino'[i].data /\ ino'[i].data[k] = ino[i].data[k]
          BY <2>0, <4>2, <5>1, WriteAppends
        <5>. QED BY <2>1, <5>2 DEF Bytes
      <4>. QED BY <1>2, <2>2, <3>1, <4>1, <4>2, LogData
    <3>. QED BY <2>0, <2>2, <3>2 DEF InLogged
  <2>3. CASE Outage
    <3>1. b \in Logged
      BY <1>2, <2>0, LoggedAre DEF LoggedIs, InLogged
    <3>2. b \in Logged' \/ b \in lost'
      BY <2>3, <3>1 DEF Outage
    <3>. QED BY <3>2, LoggedAreNext, TypeStep DEF LoggedIs
  <2>4. CASE RemoveOldest /\ i = old[1].ino
    <3>1. Head(old) = old[1]
      BY <2>4, OldRemoved
    <3>. QED BY <1>2, <2>4, <3>1 DEF RemoveOldest
  <2>5. CASE MarkProcessed /\ i = dir["previous"] /\ Unfinished' = dir["processed"] /\ Processed
    <3>0. PICK q \in Inodes : q = dir["processed"]
      BY <2>5, DirType DEF Processed, Missing, Names
    <3>1. ino[q].data = ino[i].data /\ ino' = [ino EXCEPT ![q].exec = TRUE]
      BY <2>5, <3>0, Zenon DEF Processed, MarkProcessed
    <3>2. [ino[q] EXCEPT !.exec = TRUE].data = ino[q].data
      BY <3>1 DEF TypeOK, File
    <3>3. ino'[q].data = ino[i].data
      BY <3>1, <3>2 DEF TypeOK
    <3>4. InLog(q)'
      BY <2>5, <3>0 DEF InLog
    <3>. QED BY <2>1, <3>1, <3>3, <3>4 DEF InLogged, Bytes
  <2>. QED BY <1>2, <2>2, <2>3, <2>4, <2>5, StaysInLog
<1>3. SUFFICES ASSUME NEW b \in 1..written', b \notin 1..written
               PROVE  b \in lost' \/ b \in removed' \/ InLogged(b)'
  BY <1>1, <1>2 DEF Present, InLogged
<1>4. CASE Kill \/ Outage
  <2>1. b \in written + 1 .. input
    BY <1>0, <1>3, <1>4 DEF Kill, Outage, Died
  <2>. QED BY <1>4, <2>1 DEF Kill, Outage
<1>5. CASE Write
  <2>1. PICK w \in Nat :
          /\ fd \in Inodes /\ written' = written + w
          /\ ino' = [ino EXCEPT ![fd].data = ino[fd].data \o [j \in 1..w |-> written + j]]
    BY <1>5, WriteDoes
  <2>2. b - written \in 1..w /\ written + (b - written) = b
    BY <1>0, <1>3, <2>1
  <2>3. Len(ino[fd].data) \in Nat
    BY <2>1, FileType
  <2>4. /\ Len(ino[fd].data) + (b - written) \in DOMAIN ino'[fd].data
        /\ ino'[fd].data[Len(ino[fd].data) + (b - written)] = b
    <3>1. /\ DOMAIN ino'[fd].data = 1..Len(ino[fd].data) + w
          /\ \A k \in 1..w : ino'[fd].data[Len(ino[fd].data) + k] = written + k
      BY <1>5, <2>1, WriteAppends
    <3>2. Len(ino[fd].data) + (b - written) \in 1..Len(ino[fd].data) + w
      BY <2>2, <2>3
    <3>3. ino'[fd].data[Len(ino[fd].data) + (b - written)] = written + (b - written)
      BY <2>2, <3>1
    <3>. QED BY <2>2, <3>1, <3>2, <3>3
  <2>5. fd = dir["current"] /\ dir' = dir /\ fd \in Inodes
    BY <1>5, <2>1 DEF Write, Files, Descriptor, HasFd
  <2>6. InLog(fd)' /\ b \in Bytes(fd)'
    <3>1. fd' = fd
      BY <1>5 DEF Write
    <3>. QED BY <2>4, <2>5, <3>1 DEF InLog, Bytes
  <2>7. InLogged(b)'
    <3>1. fd' = fd
      BY <1>5 DEF Write
    <3>. QED BY <2>5, <2>6, <3>1 DEF InLogged
  <2>. QED BY <2>7
<1>6. Write \/ Kill \/ Outage \/ written' = written
  <2>1. CASE Restart
    BY <2>1 DEF Restart, Start, Resume, DropState, DropNewstate, DropPrevious, DropProcessed, Drop, FinishCurrent,
                EmptyState, CreateCurrent, buffered
  <2>2. CASE Finishing
    BY <2>2 DEF Finishing, NoFile, AlreadyLinked, Link, LinkFails, UnlinkFinished, RemoveOldest, Fits, buffered
  <2>3. CASE Rotation
    BY <2>3 DEF Rotation, SyncCurrent, RenameCurrent, CreateCurrent, MarkPrevious, Fork, ProcessorFailed,
                ProcessorDone, MarkProcessed, SyncNewstate, UnlinkPrevious, RenameNewstate, buffered
  <2>4. CASE Processors
    BY <2>4 DEF Processors, Opens, CannotOpen, Outputs, Succeeds, Fails, Processing, buffered
  <2>. QED
    BY <2>1, <2>2, <2>3, <2>4 DEF Next, Multilog, Environment, Writing, WriteFull, Flushed,
         Quitting, QuitSync, Quit, Put, Flush, ForceRotate, EndOfInput, buffered
<1>. QED BY <1>3, <1>4, <1>5, <1>6

(* Each byte that was written is in an old file, in the file that is being *)
(* finished or in current, unless filesfit() removed it or it was lost in  *)
(* a crash before it reached the disk, wherever multilog and its           *)
(* processors are killed.                                                  *)
THEOREM CyclogNothingLost == Spec => []NothingLost
<1>1. Init => Present
  <2>1. Init => written = 0
    BY DEF Init
  <2>. QED BY <2>1 DEF Present
<1>2. Inv /\ Present /\ [Next]_vars => Present'
  <2>1. Inv /\ Present /\ UNCHANGED vars => Present'
    BY DEF Present, InLogged, InLog, Bytes, IsOld, Unfinished, IsExec, vars, disk, buffered
  <2>. QED BY <2>1, PresentStep
<1>3. Inv /\ Present => NothingLost
  <2>1. SUFFICES ASSUME Inv, Present PROVE 1..written = lost \cup removed \cup Logged
    BY DEF NothingLost
  <2>2. \A b : b \in Logged <=> InLogged(b)
    BY <2>1, LoggedAre DEF Inv, LoggedIs
  <2>3. lost \subseteq 1..written /\ removed \subseteq 1..written
    BY <2>1 DEF Inv, Files, BytesWritten
  <2>4. \A b : InLogged(b) => b \in 1..written
    BY <2>1 DEF Inv, Files, BytesWritten, InLogged, Bytes
  <2>. QED BY <2>1, <2>2, <2>3, <2>4 DEF Present
<1>. QED BY <1>1, <1>2, <1>3, CyclogInvariant, PTL DEF Spec

-----------------------------------------------------------------------------
(* The input is read back in order                                         *)

AllIncreasing == \A i \in Inodes : Increasing(ino[i].data)

(* i is read before j                                                      *)
Follows(i, j) ==
  \/ \E m, n \in DOMAIN old : m < n /\ old[m].ino = i /\ old[n].ino = j
  \/ IsOld(i) /\ ~IsOld(j) /\ (j = Unfinished \/ j = dir["current"])
  \/ i = Unfinished /\ j = dir["current"]
Before(i, j) == \A a \in Bytes(i), b \in Bytes(j) : a < b
Ordered == \A i, j \in Inodes : Follows(i, j) => Before(i, j)
RemovedBefore == \A r \in removed : \A i \in Inodes : InLog(i) => \A b \in Bytes(i) : r < b

LEMMA IncreasingPart ==
  ASSUME NEW s \in Seq(Nat), Increasing(s), NEW n \in 0..Len(s)
  PROVE  Increasing(SubSeq(s, 1, n))
<1>1. Len(s) \in Nat /\ DOMAIN s = 1..Len(s)
  BY LenProperties
<1>2. DOMAIN SubSeq(s, 1, n) = 1..n /\ \A j \in 1..n : SubSeq(s, 1, n)[j] = s[j]
  BY <1>1
<1>. QED BY <1>1, <1>2 DEF Increasing

LEMMA AllIncreasingStep ==
  ASSUME Inv, Next, AllIncreasing
  PROVE  AllIncreasing'
<1>. USE DEF Inv
<1>0. SUFFICES ASSUME NEW i \in Inodes PROVE Increasing(ino'[i].data)
  BY DEF AllIncreasing
<1>1. CASE Stays(i)
  <2>1. Increasing(<<>>)
    BY DEF Increasing
  <2>. QED BY <1>1, <2>1 DEF Stays, AllIncreasing
<1>2. CASE Write /\ i = fd
  <2>1. PICK w \in Nat :
          /\ fd \in Inodes /\ written' = written + w
          /\ ino' = [ino EXCEPT ![fd].data = ino[fd].data \o [k \in 1..w |-> written + k]]
    BY <1>2, WriteDoes
  <2>. DEFINE data == ino[fd].data
              next == ino'[fd].data
              len  == Len(ino[fd].data)
  <2>2. /\ DOMAIN next = 1..len + w
        /\ \A k \in 1..len : next[k] = data[k]
        /\ \A k \in 1..w : next[len + k] = written + k
    BY <1>2, <2>1, WriteAppends
  <2>3. len \in Nat /\ DOMAIN data = 1..len /\ written \in Nat
        /\ Increasing(data) /\ \A k \in 1..len : data[k] \in 1..written
    <3>1. len \in Nat /\ DOMAIN data = 1..len /\ Increasing(data)
      BY <2>1, FileType DEF AllIncreasing
    <3>2. written \in Nat
      BY CyclogAssumption DEF TypeOK
    <3>3. \A k \in DOMAIN data : data[k] \in 1..written
      BY <2>1 DEF Files, BytesWritten
    <3>. QED BY <3>1, <3>2, <3>3
  <2>. HIDE DEF data, next, len
  <2>4. ASSUME NEW k \in 1..len + w, k > len PROVE next[k] = written + (k - len)
    <3>1. k - len \in 1..w /\ len + (k - len) = k
      BY <2>1, <2>3, <2>4
    <3>. QED BY <2>2, <3>1
  <2>5. ASSUME NEW j \in 1..len + w, NEW k \in 1..len + w, j < k PROVE next[j] < next[k]
    <3>1. CASE k <= len
      BY <2>1, <2>2, <2>3, <2>5, <3>1 DEF Increasing
    <3>2. CASE j <= len /\ k > len
      <4>1. next[j] = data[j] /\ data[j] \in 1..written /\ next[k] = written + (k - len)
        BY <2>1, <2>2, <2>3, <2>4, <3>2
      <4>. QED BY <2>1, <2>3, <3>2, <4>1
    <3>3. CASE j > len
      BY <2>1, <2>3, <2>4, <2>5, <3>3
    <3>. QED BY <2>1, <2>3, <2>5, <3>1, <3>2, <3>3
  <2>. QED BY <1>2, <2>2, <2>5 DEF Increasing, next
<1>3. ASSUME NEW k \in DOMAIN proc, Outputs(k), i \in {proc[k].out, proc[k].ns} PROVE Increasing(ino'[i].data)
  <2>. DEFINE data == ino[proc[k].in].data
  <2>1. proc[k].in \in Inodes
    BY <1>3 DEF Outputs, Procs, Phases
  <2>2. PICK n \in 1..Len(data) :
          ino'[proc[k].out].data = SubSeq(data, 1, n) /\ ino'[proc[k].ns].data = <<data[n]>>
    BY <1>3, OutputsDoes
  <2>3. data \in Seq(Nat) /\ Len(data) \in Nat /\ Increasing(data)
    BY <2>1, FileType DEF AllIncreasing
  <2>. HIDE DEF data
  <2>4. Increasing(SubSeq(data, 1, n))
    BY <2>2, <2>3, IncreasingPart
  <2>5. Increasing(<<data[n]>>)
    BY DEF Increasing
  <2>. QED BY <1>3, <2>2, <2>4, <2>5
<1>4. CASE ino[i].synced < Len(ino[i].data) /\ ino'[i].data = SubSeq(ino[i].data, 1, ino[i].synced)
  BY <1>4, FileType, IncreasingPart DEF AllIncreasing
<1>. QED BY <1>1, <1>2, <1>3, <1>4, DataStep DEF DataSteps

(* A file that comes after another one in the log came after it before,    *)
(* unless it is new.                                                       *)
LEMMA FollowsSteps ==
  ASSUME Inv, Next, Alone, ~MarkProcessed, NEW i \in Inodes, NEW j \in Inodes, Follows(i, j)'
  PROVE  Follows(i, j) \/ ino'[j].data = <<>>
<1>. USE DEF Inv, Shape
<1>0. NoInode \notin Inodes /\ Len(old) \in Nat /\ DOMAIN old = 1..Len(old)
  BY InodeOrNone, OldType
<1>1. CASE Link
  <2>. DEFINE q == dir[fin.file]
  <2>1. /\ DOMAIN old' = 1..Len(old) + 1 /\ old'[Len(old) + 1].ino = q
        /\ \A k \in DOMAIN old : old'[k] = old[k]
        /\ \A x : IsOld(x)' <=> IsOld(x) \/ x = q
    BY <1>1, OldLinked
  <2>2. dir' = dir /\ Unfinished' = Unfinished
    BY <1>1 DEF Link, Unfinished, IsExec
  <2>3. /\ q \in Inodes /\ ~IsOld(q) /\ (q = dir["current"] \/ q = Unfinished)
        /\ q = Unfinished \/ Unfinished = NoInode
    BY <1>1, LinkInLog
  <2>. HIDE DEF q
  <2>4. ASSUME NEW m \in DOMAIN old', NEW n \in DOMAIN old', m < n, old'[m].ino = i, old'[n].ino = j
        PROVE  Follows(i, j)
    <3>1. m \in DOMAIN old /\ old[m].ino = i
      BY <1>0, <2>1, <2>4
    <3>2. CASE n \in DOMAIN old
      BY <2>1, <2>4, <3>1, <3>2 DEF Follows
    <3>3. CASE n = Len(old) + 1
      BY <2>1, <2>3, <2>4, <3>1, <3>3 DEF Follows, IsOld
    <3>. QED BY <1>0, <2>1, <3>2, <3>3
  <2>5. ASSUME IsOld(i)', ~IsOld(j)', j = Unfinished \/ j = dir["current"]
        PROVE  Follows(i, j)
    BY <1>0, <2>1, <2>3, <2>5 DEF Follows
  <2>. QED BY <2>2, <2>4, <2>5 DEF Follows
<1>2. CASE RemoveOldest
  <2>1. /\ pc = "f_fit" /\ 1 \in DOMAIN old /\ DOMAIN old' = 1..Len(old) - 1
        /\ \A k \in DOMAIN old' : k + 1 \in DOMAIN old /\ old'[k] = old[k + 1]
        /\ \A x : IsOld(x)' <=> IsOld(x) /\ x # old[1].ino
    BY <1>2, OldRemoved
  <2>2. dir' = dir /\ Unfinished' = Unfinished
    BY <1>2, <2>1, UnfinishedSteps DEF RemoveOldest, RenameCurrent, MarkProcessed, UnlinkFinished, At
  <2>3. ASSUME NEW m \in DOMAIN old', NEW n \in DOMAIN old', m < n, old'[m].ino = i, old'[n].ino = j
        PROVE  Follows(i, j)
    BY <1>0, <2>1, <2>3 DEF Follows
  <2>4. j = Unfinished \/ j = dir["current"] => ~IsOld(j)
    BY <1>0, <2>1 DEF Alone, Both, Missing, Unfinished, Names
  <2>. QED BY <2>1, <2>2, <2>3, <2>4 DEF Follows
<1>3. CASE old' = old
  <2>1. \A x : IsOld(x)' <=> IsOld(x)
    BY <1>3 DEF IsOld
  <2>2. ASSUME NEW m \in DOMAIN old', NEW n \in DOMAIN old', m < n, old'[m].ino = i, old'[n].ino = j
        PROVE  Follows(i, j)
    BY <1>3, <2>2 DEF Follows
  <2>3. j = dir'["current"] => (j = dir["current"] /\ ~RenameCurrent) \/ ino'[j].data = <<>>
    <3>1. RenameCurrent => dir'["current"] = NoInode
      BY DEF RenameCurrent, TypeOK, Names
    <3>. QED BY <1>0, <3>1, CurrentIs
  <2>4. \A x \in Inodes : x = Unfinished' => x = Unfinished \/ (RenameCurrent /\ x = dir["current"])
    BY <1>0, UnfinishedSteps
  <2>. QED BY <2>1, <2>2, <2>3, <2>4 DEF Follows
<1>. QED BY <1>1, <1>2, <1>3, OldSteps

(* What a step adds to a file of the log                                   *)
LEMMA NewBytes ==
  ASSUME Inv, Next, NEW i, InLog(i), InLog(i)', NEW b \in Bytes(i)'
  PROVE  b \in Bytes(i) \/ (Write /\ i = fd /\ i = dir["current"] /\ b > written)
<1>. USE DEF Inv
<1>0. /\ i \in Inodes /\ ino[i].data \in Seq(Nat) /\ Len(ino[i].data) \in Nat
      /\ DOMAIN ino[i].data = 1..Len(ino[i].data) /\ ino[i].synced \in Nat /\ written \in Nat
  BY FileType DEF InLog, TypeOK
<1>1. Linked(i)'
  BY DEF InLog, Linked, Unfinished, Names
<1>2. PICK k \in DOMAIN ino'[i].data : b = ino'[i].data[k]
  BY DEF Bytes
<1>3. CASE ino'[i].data = ino[i].data
  BY <1>2, <1>3 DEF Bytes
<1>4. CASE Write /\ i = fd /\ i = dir["current"]
  <2>1. PICK w \in Nat :
          /\ fd \in Inodes
          /\ ino' = [ino EXCEPT ![fd].data = ino[fd].data \o [j \in 1..w |-> written + j]]
    BY <1>4, WriteDoes
  <2>2. /\ DOMAIN ino'[i].data = 1..Len(ino[i].data) + w
        /\ \A j \in 1..Len(ino[i].data) : ino'[i].data[j] = ino[i].data[j]
        /\ \A j \in 1..w : ino'[i].data[Len(ino[i].data) + j] = written + j
    BY <1>4, <2>1, WriteAppends
  <2>3. CASE k \in 1..Len(ino[i].data)
    <3>1. b = ino[i].data[k]
      BY <1>2, <2>2, <2>3
    <3>. QED BY <1>0, <2>3, <3>1 DEF Bytes
  <2>4. CASE k \in 1..Len(ino[i].data) + w /\ ~(k \in 1..Len(ino[i].data))
    <3>0. \A l, m \in Nat : \A x \in 1..l + m : ~(x \in 1..l) => x - l \in 1..m /\ l + (x - l) = x
      OBVIOUS
    <3>1. k - Len(ino[i].data) \in 1..w /\ Len(ino[i].data) + (k - Len(ino[i].data)) = k
      BY <1>0, <2>4, <3>0, Zenon
    <3>2. b = written + (k - Len(ino[i].data))
      BY <1>2, <2>2, <3>1
    <3>. QED BY <1>0, <1>4, <2>1, <3>1, <3>2
  <2>. QED BY <1>2, <2>2, <2>3, <2>4
<1>5. CASE Outage /\ ino'[i].data = SubSeq(ino[i].data, 1, ino[i].synced)
  <2>1. CASE ino[i].synced <= Len(ino[i].data)
    <3>1. DOMAIN ino'[i].data = 1..ino[i].synced /\ \A j \in 1..ino[i].synced : ino'[i].data[j] = ino[i].data[j]
      BY <1>0, <1>5, <2>1, SMTT(30)
    <3>2. k \in 1..ino[i].synced /\ b = ino[i].data[k]
      BY <1>2, <3>1
    <3>3. k \in DOMAIN ino[i].data
      BY <1>0, <2>1, <3>2
    <3>. QED BY <3>2, <3>3 DEF Bytes
  <2>2. CASE ~(ino[i].synced < Len(ino[i].data))
    <3>1. ino'[i].data = ino[i].data \/ ino'[i].data = <<>>
      <4>1. (\A p \in DOMAIN proc : ~Outputs(p)) /\ ~Write
        BY <1>5, CrashSteps DEF Outputs, Processing, Write, counts
      <4>. QED BY <1>0, <2>2, <4>1, DataStep DEF DataSteps, Stays
    <3>. QED BY <1>2, <1>3, <3>1
  <2>. QED BY <1>0, <2>1, <2>2
<1>. QED BY <1>1, <1>3, <1>4, <1>5, LogData

LEMMA OrderedStep ==
  ASSUME Inv, Next, Alone, Ordered
  PROVE  Ordered'
<1>. USE DEF Inv
<1>0. /\ NoInode \notin Inodes /\ written \in Nat
      /\ \A i \in Inodes : \A b \in Bytes(i) : b \in 1..written
  BY InodeOrNone DEF TypeOK, Files, BytesWritten, Bytes
<1>1. SUFFICES ASSUME NEW i \in Inodes, NEW j \in Inodes, Follows(i, j)',
                      NEW a \in Bytes(i)', NEW b \in Bytes(j)'
               PROVE  a < b
  BY DEF Ordered, Before
<1>2. CASE MarkProcessed
  <2>0. /\ Processed /\ ~ino[dir["processed"]].exec /\ pc = "p_mode"
        /\ dir' = dir /\ old' = old
    BY <1>2 DEF MarkProcessed, At, Place, WhileRotating
  <2>1. PICK p \in Inodes : p = dir["previous"]
    BY <2>0, DirType DEF Processed, Missing, Names
  <2>2. PICK q \in Inodes : q = dir["processed"]
    BY <2>0, DirType DEF Processed, Missing, Names
  <2>3. ino' = [ino EXCEPT ![q].exec = TRUE] /\ ino[q].data = ino[p].data
    BY <1>2, <2>0, <2>1, <2>2 DEF MarkProcessed, Processed
  <2>4. \A x \in Inodes : Bytes(x)' = Bytes(x)
    <3>1. \A x \in Inodes : ino'[x].data = ino[x].data
      BY <2>3 DEF TypeOK, File
    <3>. QED BY <3>1 DEF Bytes
  <2>5. Bytes(q) = Bytes(p)
    BY <2>3 DEF Bytes
  <2>6. Unfinished = p /\ Unfinished' = q
    <3>1. ~IsExec("processed")
      BY <2>0 DEF IsExec
    <3>2. ino'[q].exec
      BY <2>3 DEF TypeOK
    <3>3. IsExec("processed")'
      BY <1>0, <2>0, <2>2, <3>2 DEF IsExec
    <3>. QED BY <2>0, <2>1, <2>2, <3>1, <3>3 DEF Unfinished
  <2>7. ~IsOld(p) /\ ~IsOld(q)
    BY <2>0, <2>1, <2>2 DEF Shape, BothNames, Names, Processed, InFinish
  <2>8. /\ \A x : IsOld(x)' <=> IsOld(x)
        /\ \A m, n \in DOMAIN old : old'[m] = old[m] /\ old'[n] = old[n]
    BY <2>0 DEF IsOld
  <2>9. Follows(i, j) \/ (Follows(i, p) /\ j = q) \/ (Follows(p, j) /\ i = q)
    <3>1. CASE \E m, n \in DOMAIN old' : m < n /\ old'[m].ino = i /\ old'[n].ino = j
      BY <2>0, <3>1 DEF Follows
    <3>2. CASE IsOld(i)' /\ ~IsOld(j)' /\ (j = q \/ j = dir["current"])
      BY <2>6, <2>7, <2>8, <3>2 DEF Follows
    <3>3. CASE i = q /\ j = dir["current"]
      BY <2>6, <3>3 DEF Follows
    <3>. QED BY <1>1, <2>0, <2>6, <3>1, <3>2, <3>3 DEF Follows
  <2>. QED BY <1>1, <2>1, <2>2, <2>4, <2>5, <2>9 DEF Ordered, Before
<1>3. CASE ~MarkProcessed
  <2>1. CASE ino'[j].data = <<>>
    BY <1>1, <2>1 DEF Bytes
  <2>2. CASE Follows(i, j)
    <3>1. InLog(i) /\ InLog(j)
      BY <2>2 DEF Follows, InLog, IsOld
    <3>2. InLog(i)' /\ InLog(j)'
      BY <1>1 DEF Follows, InLog, IsOld
    <3>3. ~(Write /\ i = fd /\ i = dir["current"])
      <4>1. SUFFICES ASSUME Write, i = dir["current"] PROVE FALSE
        OBVIOUS
      <4>2. NoLeftOvers /\ pc = "flush"
        BY <4>1 DEF Write, Place, WhileWriting
      <4>3. Unfinished = NoInode
        BY <4>2 DEF NoLeftOvers, Missing, Unfinished, IsExec
      <4>4. ~IsOld(i)
        BY <1>0, <4>1, <4>2 DEF Shape, BothNames, Names, Missing, InFinish
      <4>. QED BY <1>0, <2>2, <4>3, <4>4 DEF Follows, IsOld
    <3>4. a \in Bytes(i)
      BY <1>1, <3>1, <3>2, <3>3, NewBytes
    <3>5. b \in Bytes(j) \/ b > written
      BY <1>1, <3>1, <3>2, NewBytes
    <3>6. CASE b \in Bytes(j)
      BY <2>2, <3>4, <3>6 DEF Ordered, Before
    <3>7. CASE b > written
      <4>1. ino' \in [Inodes -> File]
        BY InoStep
      <4>2. b \in Nat
        <5>1. ino'[j].data \in Seq(Nat)
          BY <4>1 DEF File
        <5>. QED BY <1>1, <5>1 DEF Bytes
      <4>3. a \in 1..written
        BY <1>0, <3>4
      <4>. QED BY <1>0, <3>7, <4>2, <4>3
    <3>. QED BY <3>5, <3>6, <3>7
  <2>. QED BY <1>1, <1>3, <2>1, <2>2, FollowsSteps
<1>. QED BY <1>2, <1>3

LEMMA RemovedBeforeStep ==
  ASSUME Inv, Next, Alone, Ordered, RemovedBefore
  PROVE  RemovedBefore'
<1>. USE DEF Inv
<1>0. /\ NoInode \notin Inodes /\ written \in Nat /\ removed \subseteq 1..written
      /\ \A i \in Inodes : \A b \in Bytes(i) : b \in 1..written
  BY InodeOrNone DEF TypeOK, Files, BytesWritten, Bytes
<1>1. SUFFICES ASSUME NEW r \in removed', NEW i \in Inodes, InLog(i)', NEW b \in Bytes(i)'
               PROVE  r < b
  BY DEF RemovedBefore
<1>2. b \in Nat
  <2>1. ino'[i].data \in Seq(Nat)
    BY InoStep DEF File
  <2>. QED BY <1>1, <2>1 DEF Bytes
<1>3. CASE r \in removed /\ InLog(i)
  <2>1. b \in Bytes(i) \/ b > written
    BY <1>1, <1>3, NewBytes
  <2>. QED BY <1>0, <1>2, <1>3, <2>1 DEF RemovedBefore
<1>4. CASE ino'[i].data = <<>>
  BY <1>1, <1>4 DEF Bytes
<1>5. CASE /\ MarkProcessed /\ i = dir["processed"] /\ Unfinished = dir["previous"] /\ Processed
           /\ dir["previous"] \in Inodes
  <2>1. PICK p \in Inodes : p = dir["previous"]
    BY <1>5
  <2>2. ino' = [ino EXCEPT ![i].exec = TRUE] /\ ino[i].data = ino[p].data /\ removed' = removed
    BY <1>5, <2>1 DEF MarkProcessed, Processed
  <2>3. ino'[i].data = ino[p].data
    BY <2>2 DEF TypeOK, File
  <2>4. b \in Bytes(p) /\ InLog(p)
    BY <1>1, <1>5, <2>1, <2>3 DEF Bytes, InLog
  <2>. QED BY <1>1, <2>2, <2>4 DEF RemovedBefore
<1>6. CASE RemoveOldest /\ InLog(i) /\ r \notin removed
  <2>1. /\ 1 \in DOMAIN old /\ Head(old) = old[1] /\ pc = "f_fit"
        /\ \A x : IsOld(x)' <=> IsOld(x) /\ x # old[1].ino
    BY <1>6, OldRemoved
  <2>2. r \in Bytes(old[1].ino) /\ old[1].ino \in Inodes /\ DOMAIN old = 1..Len(old) /\ Len(old) \in Nat
    BY <1>1, <1>6, <2>1, OldType DEF RemoveOldest
  <2>3. b \in Bytes(i)
    BY <1>1, <1>6, <2>1, NewBytes DEF Write
  <2>4. dir' = dir /\ Unfinished' = Unfinished
    BY <1>6, <2>1, UnfinishedSteps DEF RemoveOldest, RenameCurrent, MarkProcessed, UnlinkFinished, At
  <2>5. Follows(old[1].ino, i)
    <3>1. CASE IsOld(i)'
      <4>1. PICK n \in DOMAIN old : old[n].ino = i
        BY <2>1, <3>1 DEF IsOld
      <4>2. n # 1
        BY <2>1, <3>1, <4>1
      <4>3. 1 < n
        BY <2>2, <4>1, <4>2
      <4>. QED BY <2>1, <4>1, <4>3 DEF Follows
    <3>2. CASE i = Unfinished \/ i = dir["current"]
      <4>1. ~IsOld(i)
        BY <1>0, <2>1, <3>2 DEF Alone, Both, Missing, Unfinished, Names
      <4>. QED BY <2>1, <3>2, <4>1 DEF Follows, IsOld
    <3>. QED BY <1>1, <2>4, <3>1, <3>2 DEF InLog
  <2>. QED BY <2>2, <2>3, <2>5 DEF Ordered, Before
<1>. QED BY <1>1, <1>3, <1>4, <1>5, <1>6, EntersLog, RemovedStep DEF MarkProcessed, RemoveOldest, At

(* Where the files of the log stand                                        *)
LEMMA LogFilesAt ==
  ASSUME TypeOK
  PROVE  \E u, c \in {0, 1} :
           /\ Len(LogFiles) = Len(old) + u + c
           /\ u = 1 => Unfinished \in Inodes /\ ~IsOld(Unfinished)
           /\ c = 1 => dir["current"] \in Inodes /\ ~IsOld(dir["current"])
           /\ \A k \in 1..Len(LogFiles) :
                LogFiles[k] = IF k <= Len(old) THEN old[k].ino
                              ELSE IF k <= Len(old) + u THEN Unfinished ELSE dir["current"]
<1>. DEFINE olds == [k \in DOMAIN old |-> old[k].ino]
            u == IfNew(Unfinished)
            c == IfNew(dir["current"])
<1>1. olds \in Seq(Inodes) /\ Len(olds) = Len(old) /\ \A k \in 1..Len(old) : olds[k] = old[k].ino
  BY OldType
<1>2. /\ u \in Seq(Inodes)
      /\ Len(u) = 0 \/ (Len(u) = 1 /\ u[1] = Unfinished /\ Unfinished \in Inodes /\ ~IsOld(Unfinished))
  BY DirType, InodeOrNone DEF IfNew, Unfinished, Names
<1>3. /\ c \in Seq(Inodes)
      /\ Len(c) = 0 \/ (Len(c) = 1 /\ c[1] = dir["current"] /\ dir["current"] \in Inodes /\ ~IsOld(dir["current"]))
  BY DirType, InodeOrNone DEF IfNew, Names
<1>4. LogFiles = (olds \o u) \o c
  BY DEF LogFiles
<1>5. Len(old) \in Nat
  BY OldType
<1>. HIDE DEF olds, u, c
<1>6. Len(LogFiles) = Len(old) + Len(u) + Len(c)
      /\ \A k \in 1..Len(LogFiles) :
           LogFiles[k] = IF k <= Len(old) THEN olds[k]
                         ELSE IF k <= Len(old) + Len(u) THEN u[k - Len(old)] ELSE c[k - Len(old) - Len(u)]
  <2>. DEFINE y == olds \o u
  <2>1. Len(u) \in Nat /\ Len(c) \in Nat
    BY <1>2, <1>3
  <2>2. y \in Seq(Inodes) /\ Len(y) = Len(olds) + Len(u)
    BY <1>1, <1>2
  <2>3. \A k \in 1..Len(olds) + Len(u) : y[k] = IF k <= Len(olds) THEN olds[k] ELSE u[k - Len(olds)]
    BY <1>1, <1>2
  <2>. HIDE DEF y
  <2>4. Len(y \o c) = Len(y) + Len(c)
    BY <1>3, <2>2
  <2>5. \A k \in 1..Len(y) + Len(c) : (y \o c)[k] = IF k <= Len(y) THEN y[k] ELSE c[k - Len(y)]
    BY <1>3, <2>2
  <2>6. LogFiles = y \o c
    BY <1>4 DEF y
  <2>. QED BY <1>1, <1>5, <2>1, <2>2, <2>3, <2>4, <2>5, <2>6
<1>7. \A k \in 1..Len(LogFiles) :
        LogFiles[k] = IF k <= Len(old) THEN old[k].ino
                      ELSE IF k <= Len(old) + Len(u) THEN Unfinished ELSE dir["current"]
  <2>1. SUFFICES ASSUME NEW k \in 1..Len(LogFiles)
                 PROVE  LogFiles[k] = IF k <= Len(old) THEN old[k].ino
                                      ELSE IF k <= Len(old) + Len(u) THEN Unfinished ELSE dir["current"]
    OBVIOUS
  <2>2. CASE k <= Len(old)
    BY <1>1, <1>5, <1>6, <2>1, <2>2
  <2>3. CASE ~(k <= Len(old)) /\ k <= Len(old) + Len(u)
    <3>1. Len(u) = 1 /\ k - Len(old) = 1
      <4>1. k \in Nat /\ (Len(u) = 0 \/ Len(u) = 1)
        BY <1>2, <1>5, <1>6, <2>1
      <4>2. \A x, y \in Nat : \A z \in {0, 1} : ~(x <= y) /\ x <= y + z => z = 1 /\ x - y = 1
        OBVIOUS
      <4>3. Len(u) \in {0, 1}
        BY <4>1
      <4>. QED BY <1>5, <2>3, <4>1, <4>2, <4>3, Zenon
    <3>. QED BY <1>2, <1>6, <2>3, <3>1
  <2>4. CASE ~(k <= Len(old)) /\ ~(k <= Len(old) + Len(u))
    <3>1. Len(c) = 1 /\ k - Len(old) - Len(u) = 1
      BY <1>2, <1>3, <1>5, <1>6, <2>1, <2>4
    <3>. QED BY <1>3, <1>6, <2>4, <3>1
  <2>. QED BY <2>2, <2>3, <2>4
<1>8. Len(u) \in {0, 1} /\ Len(c) \in {0, 1}
  BY <1>2, <1>3
<1>9. /\ Len(u) = 1 => Unfinished \in Inodes /\ ~IsOld(Unfinished)
      /\ Len(c) = 1 => dir["current"] \in Inodes /\ ~IsOld(dir["current"])
  BY <1>2, <1>3
<1>10. Len(LogFiles) = Len(old) + Len(u) + Len(c)
  BY <1>6
<1>. DEFINE At2(x, y) ==
       /\ Len(LogFiles) = Len(old) + x + y
       /\ x = 1 => Unfinished \in Inodes /\ ~IsOld(Unfinished)
       /\ y = 1 => dir["current"] \in Inodes /\ ~IsOld(dir["current"])
       /\ \A k \in 1..Len(LogFiles) :
            LogFiles[k] = IF k <= Len(old) THEN old[k].ino
                          ELSE IF k <= Len(old) + x THEN Unfinished ELSE dir["current"]
<1>11. At2(Len(u), Len(c))
  BY <1>7, <1>9, <1>10
<1>. HIDE DEF At2
<1>12. \E x, y \in {0, 1} : At2(x, y)
  BY <1>8, <1>11, Zenon
<1>. QED BY <1>12 DEF At2

(* The old files by their stamps, the file that is being finished and      *)
(* current hold the input in order, each byte once and all of it newer     *)
(* than what filesfit() removed: no kill between link() and unlink(), or   *)
(* between the marking of processed and the removal of previous, makes a   *)
(* part of the log be read twice.                                          *)
THEOREM CyclogInOrder == Spec => []InOrder
<1>1. Init => Alone /\ AllIncreasing /\ Ordered /\ RemovedBefore
  <2>1. Init => Alone /\ RemovedBefore
    BY DEF Init, Alone, RemovedBefore
  <2>2. Init => \A i \in Inodes : ino[i].data = <<>>
    BY BlankFile DEF Init
  <2>3. Init => AllIncreasing /\ Ordered
    BY <2>2 DEF AllIncreasing, Increasing, Ordered, Before, Bytes
  <2>. QED BY <2>1, <2>3
<1>2. Inv /\ (Alone /\ AllIncreasing /\ Ordered /\ RemovedBefore) /\ [Next]_vars
      => (Alone /\ AllIncreasing /\ Ordered /\ RemovedBefore)'
  <2>1. ASSUME Inv, Alone, AllIncreasing, Ordered, RemovedBefore, UNCHANGED vars
        PROVE  (Alone /\ AllIncreasing /\ Ordered /\ RemovedBefore)'
    <3>1. dir' = dir /\ old' = old /\ ino' = ino /\ pc' = pc /\ removed' = removed
      BY <2>1 DEF vars, disk
    <3>2. Alone'
      BY <2>1, <3>1 DEF Alone, Both, Missing, IsOld
    <3>3. AllIncreasing'
      BY <2>1, <3>1 DEF AllIncreasing
    <3>4. Unfinished' = Unfinished
      BY <3>1 DEF Unfinished, IsExec
    <3>5. Ordered'
      BY <2>1, <3>1, <3>4 DEF Ordered, Before, Bytes, Follows, IsOld
    <3>6. RemovedBefore'
      BY <2>1, <3>1, <3>4 DEF RemovedBefore, Bytes, InLog, IsOld
    <3>. QED BY <3>2, <3>3, <3>5, <3>6
  <2>. QED BY <2>1, AloneStep, AllIncreasingStep, OrderedStep, RemovedBeforeStep
<1>3. Inv /\ (Alone /\ AllIncreasing /\ Ordered /\ RemovedBefore) => InOrder
  <2>1. SUFFICES ASSUME Inv, AllIncreasing, Ordered, RemovedBefore PROVE InOrder
    OBVIOUS
  <2>2. TypeOK /\ Len(old) \in Nat /\ DOMAIN old = 1..Len(old)
    BY <2>1, OldType DEF Inv
  <2>3. /\ Len(LogFiles) \in Nat /\ DOMAIN LogFiles = 1..Len(LogFiles)
        /\ \A k \in DOMAIN LogFiles : LogFiles[k] \in Inodes
    BY <2>2, LogFilesType
  <2>4. \A k \in DOMAIN LogFiles : Increasing(ino[LogFiles[k]].data)
    BY <2>1, <2>3 DEF AllIncreasing
  <2>5. ASSUME NEW j \in DOMAIN LogFiles, NEW k \in DOMAIN LogFiles, j < k
        PROVE  Before(LogFiles[j], LogFiles[k])
    <3>1. PICK u \in {0, 1}, c \in {0, 1} :
            /\ Len(LogFiles) = Len(old) + u + c
            /\ u = 1 => Unfinished \in Inodes /\ ~IsOld(Unfinished)
            /\ c = 1 => dir["current"] \in Inodes /\ ~IsOld(dir["current"])
            /\ \A l \in 1..Len(LogFiles) :
                 LogFiles[l] = IF l <= Len(old) THEN old[l].ino
                               ELSE IF l <= Len(old) + u THEN Unfinished ELSE dir["current"]
      BY <2>2, LogFilesAt
    <3>2. Follows(LogFiles[j], LogFiles[k])
      <4>1. CASE k <= Len(old)
        <5>1. LogFiles[j] = old[j].ino /\ LogFiles[k] = old[k].ino /\ j \in DOMAIN old /\ k \in DOMAIN old
          BY <2>2, <2>3, <2>5, <3>1, <4>1
        <5>. QED BY <2>5, <5>1 DEF Follows
      <4>2. CASE j <= Len(old) /\ ~(k <= Len(old))
        <5>1. LogFiles[j] = old[j].ino /\ j \in DOMAIN old
          BY <2>2, <2>3, <2>5, <3>1, <4>2
        <5>2. \/ u = 1 /\ LogFiles[k] = Unfinished
              \/ c = 1 /\ LogFiles[k] = dir["current"]
          BY <2>2, <2>3, <2>5, <3>1, <4>2
        <5>. QED BY <3>1, <5>1, <5>2 DEF Follows, IsOld
      <4>3. CASE ~(j <= Len(old))
        <5>1. u = 1 /\ c = 1 /\ LogFiles[j] = Unfinished /\ LogFiles[k] = dir["current"]
          BY <2>2, <2>3, <2>5, <3>1, <4>3
        <5>. QED BY <5>1 DEF Follows
      <4>. QED BY <2>2, <2>3, <2>5, <4>1, <4>2, <4>3
    <3>. QED BY <2>1, <2>3, <3>2 DEF Ordered
  <2>6. \A r \in removed, b \in Logged : r < b
    BY <2>1, <2>2, LoggedAre DEF LoggedIs, InLogged, RemovedBefore
  <2>. QED BY <2>4, <2>5, <2>6 DEF InOrder, Before
<1>. QED BY <1>1, <1>2, <1>3, CyclogInvariant, PTL DEF Spec

-----------------------------------------------------------------------------
(* Files end at ends of lines                                              *)

Ended(i) ==
  LET data == ino[i].data
  IN  \/ data[Len(data)] \in Newlines
      \/ Len(data) = Size /\ \A j \in Size - Margin .. Size : data[j] \notin Newlines

(* A newline near the end of a file that has not ended there is one of a   *)
(* short write: another one that still fits is in the buffer.              *)
Late(i) == \E p \in DOMAIN ino[i].data : p >= Size - Margin /\ ino[i].data[p] \in Newlines
Awaited(len) == \E m \in 1 .. Size - len : m <= Pending /\ written + m \in Newlines

OldEnded == \A k \in DOMAIN old : old[k].code = "s" => Ended(old[k].ino)
FullEnded == pc \in {"sync", "rename"} => Ended(fd)
LateAwaits == HasFd /\ pc \notin {"sync", "rename"} /\ Late(fd) => Awaited(bytes)
QuitEarly == IsExec("current") => ~Late(dir["current"])
ToFinish == \/ IsExec("processed") \/ pc \in {"recreate", "mode", "fork", "wait", "p_mode"}
            \/ InFinish /\ fin.code = "s"
UnfinishedEnded == ToFinish /\ Unfinished # NoInode => Ended(Unfinished)
LineEnds == OldEnded /\ FullEnded /\ LateAwaits /\ QuitEarly /\ UnfinishedEnded

(* What c_write offers near the end of a file                              *)
LEMMA OfferedEnds ==
  ASSUME TypeOK, Pending > 0, ~Full, NEW k \in 1..Size - bytes, k <= Pending, written + k \in Newlines,
         bytes + Fitting >= Size - Margin
  PROVE  written + Offered \in Newlines /\ k <= Offered
<1>1. Fitting \in Nat /\ k <= Fitting
  BY OfferedFits, CyclogAssumption DEF TypeOK, Pending, Fitting
<1>2. k \in Ends(Fitting) /\ Ends(Fitting) \subseteq 1..Fitting
  BY <1>1 DEF Ends
<1>3. \E l \in Ends(Fitting) : \A j \in Ends(Fitting) : j <= l
  BY <1>1, <1>2, Greatest
<1>4. Offered = CHOOSE l \in Ends(Fitting) : \A j \in Ends(Fitting) : j <= l
  BY <1>2 DEF Offered
<1>5. Offered \in Ends(Fitting) /\ \A j \in Ends(Fitting) : j <= Offered
  BY <1>3, <1>4
<1>. QED BY <1>2, <1>5 DEF Ends

(* A write that leaves the file open leaves a newline for the next one.    *)
LEMMA WriteAwaits ==
  ASSUME Inv, Write, LateAwaits
  PROVE  /\ pc' = "sync" => Ended(fd)'
         /\ pc' # "sync" => (Late(fd)' => Awaited(bytes)')
<1>. USE DEF Inv
<1>. DEFINE len == Len(ino[fd].data)
            data == ino[fd].data
            next == ino'[fd].data
<1>1. PICK w \in Nat :
         /\ w > 0 /\ w <= Offered /\ w <= Size - bytes /\ w <= Pending
         /\ fd \in Inodes /\ bytes = len
         /\ ino' = [ino EXCEPT ![fd].data = ino[fd].data \o [k \in 1..w |-> written + k]]
         /\ bytes' = bytes + w /\ written' = written + w /\ written' <= input
         /\ pc' = IF bytes' >= Size - Margin /\ written' \in Newlines THEN "sync" ELSE "flush"
  BY WriteDoes
<1>2. fd' = fd /\ input' = input /\ Pending > 0 /\ ~Full /\ pc = "flush"
  BY DEF Write
<1>3. /\ Len(next) = len + w /\ DOMAIN next = 1..len + w
      /\ \A k \in 1..len : next[k] = data[k]
      /\ \A k \in 1..w : next[len + k] = written + k
  BY <1>1, WriteAppends
<1>4. /\ bytes \in Nat /\ written \in Nat /\ input \in Nat /\ Size \in Nat /\ Margin \in Nat
      /\ bytes <= Size /\ DOMAIN data = 1..len
  BY <1>1, FileType, CyclogAssumption, SMTT(30) DEF TypeOK
<1>5. Offered \in Nat /\ Fitting \in Nat /\ Offered <= Fitting /\ Fitting <= Pending /\ Fitting <= Size - bytes
      /\ (Fitting = Pending \/ Fitting = Size - bytes)
  <2>1. Pending \in Nat /\ Size - bytes \in Nat
    <3>1. input \in Nat /\ written \in 0..input /\ bytes \in 0..Size /\ Size \in Nat
      BY CyclogAssumption DEF TypeOK
    <3>. QED BY <3>1 DEF Pending
  <2>. QED BY <1>2, <2>1, OfferedFits DEF Fitting
<1>. HIDE DEF data, next, len
<1>6. ASSUME pc' = "sync" PROVE Ended(fd)'
  <2>1. next[len + w] = written' /\ written' \in Newlines
    BY <1>1, <1>3, <1>6
  <2>. QED BY <1>2, <1>3, <2>1 DEF Ended, next
<1>7. ASSUME pc' # "sync", Late(fd)' PROVE Awaited(bytes)'
  <2>1. PICK p \in 1..len + w : p >= Size - Margin /\ next[p] \in Newlines
    BY <1>2, <1>3, <1>7 DEF Late, next
  <2>2. PICK k \in 1..Size - bytes : k <= Pending /\ written + k \in Newlines /\ bytes + Fitting >= Size - Margin
    <3>1. CASE p <= len
      <4>1. p \in DOMAIN data /\ data[p] \in Newlines
        BY <1>3, <1>4, <2>1, <3>1
      <4>2. Late(fd)
        BY <2>1, <4>1 DEF Late, data
      <4>3. Awaited(bytes)
        BY <1>2, <4>2 DEF LateAwaits, HasFd
      <4>4. bytes + Fitting >= Size - Margin
        BY <1>1, <1>4, <1>5, <2>1, <3>1
      <4>. QED BY <4>3, <4>4 DEF Awaited
    <3>2. CASE p > len
      <4>1. p - len \in 1..w /\ len + (p - len) = p
        BY <1>1, <1>4, <2>1, <3>2
      <4>2. written + (p - len) \in Newlines
        BY <1>3, <2>1, <4>1
      <4>3. bytes + Fitting >= Size - Margin /\ p - len \in 1..Size - bytes /\ p - len <= Pending
        BY <1>1, <1>4, <1>5, <2>1, <4>1, SMTT(30) DEF Pending
      <4>. QED BY <4>2, <4>3
    <3>. QED BY <1>1, <1>4, <2>1, <3>1, <3>2
  <2>3. written + Offered \in Newlines /\ k <= Offered
    BY <1>2, <2>2, OfferedEnds
  <2>4. bytes + w >= Size - Margin
    <3>1. p <= bytes + w
      BY <1>1, <2>1
    <3>. QED BY <1>1, <1>4, <2>1, <3>1
  <2>5. w # Offered
    BY <1>1, <1>7, <2>3, <2>4
  <2>6. Offered - w \in 1..Size - bytes' /\ Offered - w <= Pending' /\ written' + (Offered - w) = written + Offered
    BY <1>1, <1>2, <1>4, <1>5, <2>5, SMTT(30) DEF Pending
  <2>. QED BY <2>3, <2>6 DEF Awaited
<1>. QED BY <1>6, <1>7

LEMMA EndedSame ==
  ASSUME NEW i, ino'[i].data = ino[i].data
  PROVE  (Ended(i) => Ended(i)') /\ (Late(i)' => Late(i))
  BY DEF Ended, Late

(* Only write() and a crash take bytes out of the buffer.                  *)
LEMMA WrittenSteps ==
  ASSUME Inv, Next, ~Write, ~Kill, ~Outage
  PROVE  written' = written /\ input' \in Nat /\ input <= input'
<1>0. input \in Nat /\ written \in Nat
  BY CyclogAssumption DEF Inv, TypeOK
<1>1. CASE buffered' = buffered
  BY <1>0, <1>1 DEF buffered
<1>2. CASE Put
  BY <1>0, <1>2 DEF Put
<1>3. buffered' = buffered \/ Put
  <2>1. CASE Restart \/ Finishing
    BY <2>1
    DEF Restart, Start, Resume, DropState, DropNewstate, DropPrevious, DropProcessed, Drop, FinishCurrent,
        EmptyState, CreateCurrent, Finishing, NoFile, AlreadyLinked, Link, LinkFails, UnlinkFinished,
        RemoveOldest, Fits
  <2>2. CASE Rotation
    BY <2>2
    DEF Rotation, SyncCurrent, RenameCurrent, CreateCurrent, MarkPrevious, Fork, ProcessorFailed,
        ProcessorDone, MarkProcessed, SyncNewstate, UnlinkPrevious, RenameNewstate
  <2>3. CASE Processors
    BY <2>3 DEF Processors, Opens, CannotOpen, Outputs, Succeeds, Fails, Processing
  <2>. QED
    BY <2>1, <2>2, <2>3
    DEF Next, Multilog, Environment, Writing, WriteFull, Flushed, Quitting, QuitSync, Quit, Flush,
        ForceRotate, EndOfInput
<1>. QED BY <1>1, <1>2, <1>3

(* How multilog comes to the rotation of a file, and how it goes on        *)
LEMMA SyncSteps ==
  ASSUME Inv, Next
  PROVE  /\ pc' \in {"sync", "rename"} =>
              \/ Write \/ WriteFull \/ ForceRotate \/ SyncCurrent
              \/ pc' = pc /\ fd' = fd /\ Processors
         /\ pc \in {"sync", "rename"} => \/ pc' \in {"sync", "rename"} \/ RenameCurrent \/ Kill \/ Outage
<1>1. CASE Restart
  BY <1>1 DEF Restart, Start, Resume, DropState, DropNewstate, DropPrevious, DropProcessed, Drop,
              FinishCurrent, EmptyState, CreateCurrent, At
<1>2. CASE Finishing
  <2>1. fin.next \in {"flush", "r_current", "r_state"}
    BY <1>2, FinNext
  <2>. QED BY <1>2, <2>1 DEF Finishing, NoFile, AlreadyLinked, Link, LinkFails, UnlinkFinished, RemoveOldest, Fits, At
<1>3. CASE Rotation
  BY <1>3 DEF Rotation, SyncCurrent, CreateCurrent, MarkPrevious, Fork, ProcessorFailed,
              ProcessorDone, MarkProcessed, SyncNewstate, UnlinkPrevious, RenameNewstate, RenameCurrent, At
<1>4. CASE Processors
  BY <1>4 DEF Processors, Opens, CannotOpen, Outputs, Succeeds, Fails, Processing, d
<1>. QED
  BY <1>1, <1>2, <1>3, <1>4 DEF Next, Multilog, Writing, WriteFull, Write, Flushed, Quitting, QuitSync, Quit,
     Environment, Put, Flush, ForceRotate, EndOfInput, Kill, Outage, Died, At

LEMMA OldEndedStep ==
  ASSUME Inv, Next, OldEnded, UnfinishedEnded
  PROVE  OldEnded'
<1>. USE DEF Inv
<1>1. SUFFICES ASSUME NEW k \in DOMAIN old', old'[k].code = "s", NEW i, i = old'[k].ino PROVE Ended(i)'
  BY DEF OldEnded
<1>2. ASSUME NEW j \in DOMAIN old, old'[k] = old[j] PROVE Ended(i)'
  <2>1. i \in Inodes /\ IsOld(i) /\ IsOld(i)'
    BY <1>1, <1>2, OldType DEF IsOld
  <2>2. Safe(i) /\ Ended(i)
    BY <1>1, <1>2 DEF Kept, SafelyWritten, Safe, OldEnded
  <2>3. ino'[i] = ino[i]
    BY <2>1, <2>2, OldSafe
  <2>. QED BY <2>2, <2>3, EndedSame
<1>3. CASE old' = old
  BY <1>2, <1>3
<1>4. CASE Link
  <2>1. /\ Len(old) \in Nat /\ DOMAIN old = 1..Len(old) /\ DOMAIN old' = 1..Len(old) + 1
        /\ \A j \in DOMAIN old : old'[j] = old[j]
        /\ old'[Len(old) + 1] = [ino |-> dir[fin.file], code |-> fin.code]
    BY <1>4, OldLinked, OldType
  <2>2. CASE k \in DOMAIN old
    BY <1>2, <2>1, <2>2
  <2>3. CASE k \notin DOMAIN old
    <3>1. i = dir[fin.file] /\ fin.code = "s"
      BY <1>1, <2>1, <2>3
    <3>2. InFinish /\ ino' = ino
      BY <1>4 DEF Link, At, InFinish
    <3>3. fin.file # "current"
      BY <3>1, <3>2 DEF Place, WhileFinishing, Finishes
    <3>4. i = Unfinished /\ Unfinished # NoInode
      BY <1>4, <3>1, <3>3, LinkInLog, InodeOrNone
    <3>5. Ended(i)
      BY <3>1, <3>2, <3>4 DEF UnfinishedEnded, ToFinish
    <3>. QED BY <3>2, <3>5, EndedSame
  <2>. QED BY <2>2, <2>3
<1>5. CASE RemoveOldest
  <2>1. k + 1 \in DOMAIN old /\ old'[k] = old[k + 1]
    BY <1>5, OldRemoved
  <2>. QED BY <1>2, <2>1
<1>. QED BY <1>3, <1>4, <1>5, OldSteps

LEMMA FullEndedStep ==
  ASSUME Inv, Next, ~ForceRotate, FullEnded, LateAwaits
  PROVE  FullEnded'
<1>. USE DEF Inv
<1>0. SUFFICES ASSUME pc' \in {"sync", "rename"} PROVE Ended(fd)'
  BY DEF FullEnded
<1>1. CASE Write
  <2>1. pc' = "sync"
    BY <1>0, <1>1, WriteDoes
  <2>. QED BY <1>1, <2>1, WriteAwaits
<1>2. CASE WriteFull
  <2>1. fd' = fd /\ ino' = ino /\ pc = "flush" /\ bytes >= Size
    BY <1>2 DEF WriteFull, At, d, disk, Full
  <2>2. fd \in Inodes /\ bytes = Len(ino[fd].data) /\ bytes \in 0..Size /\ Size \in Nat /\ Margin \in Nat /\ Margin < Size
    BY <2>1, CyclogAssumption DEF Files, Descriptor, HasFd, TypeOK
  <2>3. Len(ino[fd].data) = Size /\ DOMAIN ino[fd].data = 1..Size
    BY <2>1, <2>2, FileType
  <2>4. ~Awaited(bytes)
    BY <2>1, <2>2 DEF Awaited
  <2>5. ~Late(fd)
    BY <2>1, <2>4 DEF LateAwaits, HasFd
  <2>6. \A j \in Size - Margin .. Size : j \in 1..Size /\ j >= Size - Margin
    BY <2>2
  <2>7. \A j \in Size - Margin .. Size : ino[fd].data[j] \notin Newlines
    BY <2>3, <2>5, <2>6 DEF Late
  <2>. QED BY <2>1, <2>3, <2>7 DEF Ended
<1>3. CASE SyncCurrent
  <2>1. fd' = fd /\ fd \in Inodes /\ pc = "sync" /\ ino' = [ino EXCEPT ![fd].synced = Len(ino[fd].data)]
    BY <1>3 DEF SyncCurrent, Sync, At, d, Files, Descriptor, HasFd
  <2>2. ino'[fd].data = ino[fd].data
    BY <2>1 DEF TypeOK, File
  <2>. QED BY <2>1, <2>2, EndedSame DEF FullEnded
<1>4. CASE pc' = pc /\ fd' = fd /\ Processors
  <2>1. fd \in Inodes /\ fd = dir["current"] /\ ~Missing("current") /\ "current" \in Names
    BY <1>0, <1>4, InodeOrNone DEF Files, Descriptor, HasFd, Missing, Names
  <2>2. ino'[fd] = ino[fd]
    BY <1>0, <1>4, <2>1, NotWaiting DEF Restarting
  <2>. QED BY <1>0, <1>4, <2>2, EndedSame DEF FullEnded
<1>. QED BY <1>0, <1>1, <1>2, <1>3, <1>4, SyncSteps

LEMMA LateAwaitsStep ==
  ASSUME Inv, Next, LateAwaits, QuitEarly
  PROVE  LateAwaits'
<1>. USE DEF Inv
<1>0. SUFFICES ASSUME HasFd', pc' \notin {"sync", "rename"}, Late(fd)' PROVE Awaited(bytes)'
  BY DEF LateAwaits
<1>1. CASE Write
  BY <1>0, <1>1, WriteAwaits
<1>2. CASE HasFd /\ fd' = fd /\ bytes' = bytes /\ ~Write /\ ~Kill /\ ~Outage
  <2>1. fd \in Inodes /\ fd = dir["current"] /\ dir'["current"] = dir["current"]
    <3>1. Descriptor'
      BY DescriptorKept
    <3>. QED BY <1>0, <1>2, <3>1 DEF Files, Descriptor
  <2>2. \A i : i = fd => InLog(i) /\ Linked(i)'
    BY <2>1 DEF InLog, Linked, Names
  <2>3. \A i : i = fd => ino'[i].data = ino[i].data
    BY <1>2, <2>2, LogData
  <2>4. Late(fd)
    BY <1>0, <1>2, <2>3, EndedSame
  <2>5. pc \notin {"sync", "rename"}
    <3>1. ~RenameCurrent
      BY <1>0 DEF RenameCurrent, At, HasFd, InFinish
    <3>. QED BY <1>0, <1>2, <3>1, SyncSteps
  <2>6. PICK m \in 1..Size - bytes : m <= Pending /\ written + m \in Newlines
    BY <1>2, <2>4, <2>5 DEF LateAwaits, Awaited
  <2>7. written' = written /\ input' \in Nat /\ input <= input'
    BY <1>2, WrittenSteps
  <2>8. m <= Pending'
    <3>1. input \in Nat /\ written \in Nat /\ m \in Int
      BY <2>6, CyclogAssumption DEF TypeOK
    <3>2. \A x, a, b, c \in Int : x <= a - c /\ a <= b => x <= b - c
      OBVIOUS
    <3>3. input \in Int /\ input' \in Int /\ written \in Int /\ m <= input - written
      BY <2>6, <2>7, <3>1 DEF Pending
    <3>4. m <= input' - written
      BY <2>7, <3>1, <3>2, <3>3, Zenon
    <3>. QED BY <2>7, <3>4, Zenon DEF Pending
  <2>. QED BY <1>2, <2>6, <2>7, <2>8 DEF Awaited
<1>3. CASE Resume
  <2>1. fd' = dir["current"] /\ fd' \in Inodes /\ IsExec("current") /\ ino' = [ino EXCEPT ![fd'].exec = FALSE]
    BY <1>3, DirType DEF Resume, IsExec, Names
  <2>2. ino'[fd'].data = ino[fd'].data
    BY <2>1 DEF TypeOK, File
  <2>3. \A i : i = fd' => ~Late(i)'
    BY <2>1, <2>2, EndedSame DEF QuitEarly
  <2>. QED BY <1>0, <2>3 DEF Late
<1>4. CASE Creating
  <2>1. fd' = NewInode /\ fd' \in Inodes /\ ino' = [ino EXCEPT ![fd'] = Blank]
    BY <1>4, NewFile DEF Creating, CreateCurrent, Shape
  <2>2. ino'[fd'].data = <<>>
    BY <2>1, BlankFile DEF TypeOK
  <2>. QED BY <1>0, <2>2 DEF Late
<1>5. ~RenameCurrent /\ ~Quit /\ ~Kill /\ ~Outage
  BY <1>0 DEF RenameCurrent, Quit, Kill, Outage, Died, At, HasFd, InFinish
<1>. QED BY <1>0, <1>1, <1>2, <1>3, <1>4, <1>5, HasFdSteps

LEMMA AlarmSteps ==
  ASSUME Inv, Next, alarms' = 0
  PROVE  alarms = 0 /\ ~ForceRotate
<1>0. alarms \in Nat
  BY CyclogAssumption DEF Inv, TypeOK
<1>1. alarms' = alarms \/ ForceRotate
  <2>1. CASE Restart \/ Finishing
    BY <2>1
    DEF Restart, Start, Resume, DropState, DropNewstate, DropPrevious, DropProcessed, Drop, FinishCurrent,
        EmptyState, CreateCurrent, Finishing, NoFile, AlreadyLinked, Link, LinkFails, UnlinkFinished,
        RemoveOldest, Fits, counts
  <2>2. CASE Rotation
    BY <2>2
    DEF Rotation, SyncCurrent, RenameCurrent, CreateCurrent, MarkPrevious, Fork, ProcessorFailed,
        ProcessorDone, MarkProcessed, SyncNewstate, UnlinkPrevious, RenameNewstate, counts
  <2>3. CASE Processors
    BY <2>3 DEF Processors, Opens, CannotOpen, Outputs, Succeeds, Fails, Processing
  <2>. QED
    BY <2>1, <2>2, <2>3
    DEF Next, Multilog, Environment, Writing, WriteFull, Write, Flushed, Quitting, QuitSync, Quit, Put, Flush,
        EndOfInput, Kill, Outage, Died, counts
<1>2. ~ForceRotate
  BY <1>0 DEF ForceRotate
<1>. QED BY <1>1, <1>2

LEMMA QuitEarlyStep ==
  ASSUME Inv, Next, LateAwaits, QuitEarly
  PROVE  QuitEarly'
<1>. USE DEF Inv
<1>0. SUFFICES ASSUME IsExec("current")', NEW i, i = dir["current"] PROVE ~Late(i)'
  BY ExecCurrent DEF QuitEarly
<1>1. dir'["current"] = i /\ i \in Inodes /\ (Quit \/ (IsExec("current") /\ ~Quit))
  BY <1>0, ExecCurrent
<1>2. CASE Quit
  <2>1. pc = "q_mode" /\ ino' = [ino EXCEPT ![fd].exec = TRUE]
    BY <1>2, Zenon DEF Quit, At
  <2>2. fd = i /\ written = input /\ HasFd
    BY <1>0, <2>1 DEF Place, WhileWriting, Files, Descriptor, HasFd
  <2>3. written \in Nat
    BY CyclogAssumption DEF TypeOK
  <2>4. ~Awaited(bytes)
    BY <2>2, <2>3 DEF Awaited, Pending
  <2>5. ~Late(i)
    BY <2>1, <2>2, <2>4 DEF LateAwaits
  <2>6. ino'[i].data = ino[i].data
    BY <1>1, <2>1, <2>2 DEF TypeOK, File
  <2>. QED BY <2>5, <2>6, EndedSame
<1>3. CASE IsExec("current") /\ ~Quit
  <2>1. pc \in {"stopped", "open"} /\ Safe(i) /\ ~Late(i)
    BY <1>0, <1>3 DEF Kept, ExecMeansSafe, Safe, QuitEarly
  <2>2. i \notin Unsynced
    BY <1>1, <2>1, FileType DEF Safe, Unsynced
  <2>3. CASE Resume
    <3>1. ino' = [ino EXCEPT ![i].exec = FALSE]
      BY <1>0, <2>3, Zenon DEF Resume
    <3>2. ino'[i].data = ino[i].data
      BY <1>1, <3>1 DEF TypeOK, File
    <3>. QED BY <2>1, <3>2, EndedSame
  <2>4. CASE ino'[i] = ino[i]
    BY <2>1, <2>4, EndedSame
  <2>5. ~Write /\ ~SyncCurrent /\ ~QuitSync
    BY <2>1 DEF Write, SyncCurrent, QuitSync, At
  <2>. QED BY <1>0, <1>1, <1>3, <2>2, <2>3, <2>4, <2>5, CurrentSteps, InodeOrNone DEF Missing
<1>. QED BY <1>1, <1>2, <1>3

(* Only fullcurrent() marks processed.                                     *)
LEMMA MarkedBefore ==
  ASSUME Inv, Next, IsExec("processed")'
  PROVE  (IsExec("processed") /\ dir'["processed"] = dir["processed"]) \/ MarkProcessed
<1>. USE DEF Inv, Shape
<1>0. dir \in [Names -> Inodes \cup {NoInode}] /\ NoInode \notin Inodes
      /\ {"current", "previous", "processed"} \subseteq Names
  BY InodeOrNone DEF TypeOK, Names
<1>1. ~DropProcessed /\ ~(UnlinkFinished /\ fin.file = "processed") /\ \A k \in DOMAIN proc : ~Opens(k)
  <2>1. DropProcessed \/ (UnlinkFinished /\ fin.file = "processed") => dir'["processed"] = NoInode
    BY <1>0 DEF DropProcessed, UnlinkFinished, Unlink
  <2>2. \A k \in DOMAIN proc : Opens(k) => ~IsExec("processed")'
    BY OpensUnmarked DEF Opens, Procs, Opening
  <2>. QED BY <2>1, <2>2 DEF IsExec
<1>2. dir'["processed"] = dir["processed"] /\ dir["processed"] \in Inodes /\ ino'[dir["processed"]].exec
  BY <1>0, <1>1, NameSteps DEF IsExec
<1>3. dir["processed"] # dir["current"] /\ dir["processed"] # dir["previous"]
  BY <1>0, <1>2 DEF OneName
<1>4. ino[dir["processed"]].exec \/ MarkProcessed
  BY <1>2, <1>3, ExecSteps
<1>. QED BY <1>0, <1>2, <1>4 DEF IsExec

LEMMA ToFinishSteps ==
  ASSUME Inv, Next, ToFinish'
  PROVE  ToFinish \/ RenameCurrent
<1>. USE DEF Inv
<1>1. CASE IsExec("processed")'
  BY <1>1, MarkedBefore DEF ToFinish, MarkProcessed, At
<1>2. CASE pc' \in {"recreate", "mode", "fork", "wait", "p_mode"}
  BY <1>2, RotatingAt DEF ToFinish, CreateCurrent, MarkPrevious, Fork, ProcessorFailed, ProcessorDone,
     MarkProcessed, SyncNewstate, UnlinkPrevious, At
<1>3. CASE InFinish' /\ fin'.code = "s"
  <2>1. DropPrevious => IsExec("processed")
    BY DEF DropPrevious, At, Place, WhileRestarting
  <2>2. RenameNewstate => IsExec("processed")
    BY DEF RenameNewstate, At, Place, WhileRotating
  <2>3. ~DropProcessed /\ ~FinishCurrent
    BY <1>3 DEF DropProcessed, FinishCurrent, Finish
  <2>4. ~LinkFails
    BY <1>3 DEF LinkFails, TypeOK
  <2>5. AlreadyLinked \/ Link \/ UnlinkFinished \/ RemoveOldest => InFinish /\ fin' = fin
    BY DEF AlreadyLinked, Link, UnlinkFinished, RemoveOldest, At, InFinish
  <2>6. MarkPrevious => pc = "mode"
    BY DEF MarkPrevious, At
  <2>. QED BY <1>3, <2>1, <2>2, <2>3, <2>4, <2>5, <2>6, FinishingAt DEF ToFinish
<1>. QED BY <1>1, <1>2, <1>3 DEF ToFinish

LEMMA UnfinishedEndedStep ==
  ASSUME Inv, Next, FullEnded, UnfinishedEnded
  PROVE  UnfinishedEnded'
<1>. USE DEF Inv, Shape
<1>0. /\ dir \in [Names -> Inodes \cup {NoInode}] /\ NoInode \notin Inodes
      /\ {"current", "previous", "processed"} \subseteq Names
  BY InodeOrNone DEF TypeOK, Names
<1>1. SUFFICES ASSUME ToFinish', NEW u, u = Unfinished', u # NoInode PROVE Ended(u)'
  BY DEF UnfinishedEnded
<1>2. CASE RenameCurrent
  <2>1. pc = "rename" /\ NoLeftOvers /\ fd = dir["current"]
    BY <1>2 DEF RenameCurrent, At, Place, WhileWriting, Files, Descriptor, HasFd
  <2>2. dir'["previous"] = fd /\ dir'["processed"] = NoInode /\ ino' = ino
    BY <1>0, <1>2, <2>1 DEF RenameCurrent, NoLeftOvers, Missing, Unlinked
  <2>3. u = fd
    BY <1>1, <2>2 DEF Unfinished, IsExec
  <2>. QED BY <2>1, <2>2, <2>3, EndedSame DEF FullEnded
<1>3. CASE MarkProcessed /\ Unfinished = dir["previous"] /\ Unfinished' = dir["processed"] /\ Processed
  <2>1. u = dir["processed"] /\ u \in Inodes /\ dir["previous"] # NoInode /\ pc = "p_mode"
        /\ ino[u].data = ino[dir["previous"]].data /\ ino' = [ino EXCEPT ![u].exec = TRUE]
    BY <1>0, <1>1, <1>3, Zenon DEF Processed, Missing, MarkProcessed, At
  <2>2. Ended(dir["previous"])
    BY <1>3, <2>1 DEF UnfinishedEnded, ToFinish
  <2>3. Ended(u)
    BY <2>1, <2>2 DEF Ended
  <2>4. ino'[u].data = ino[u].data
    BY <2>1 DEF TypeOK, File
  <2>. QED BY <2>3, <2>4, EndedSame
<1>4. CASE Unfinished' = Unfinished /\ ~RenameCurrent
  <2>1. u = Unfinished /\ u \in Inodes /\ InLog(u) /\ Linked(u)'
    BY <1>0, <1>1, <1>4 DEF Unfinished, InLog, Linked, Names
  <2>2. Ended(u)
    BY <1>1, <1>4, <2>1, ToFinishSteps DEF UnfinishedEnded
  <2>3. u # dir["current"]
    BY <1>0, <1>1, <2>1 DEF Unfinished, OneName
  <2>4. CASE Outage
    <3>1. IsExec("processed")' /\ ~MarkProcessed
      BY <1>1, <2>4, CrashSteps DEF ToFinish, InFinish, MarkProcessed, At
    <3>2. IsExec("processed") /\ dir'["processed"] = u /\ u = dir["processed"]
      BY <2>1, <3>1, MarkedBefore DEF Unfinished
    <3>3. u \notin Unsynced
      BY <2>1, <3>2, FileType DEF Kept, ProcessedSafe, Safe, Unsynced
    <3>4. ~NamedTouches("processed")
      BY <2>4, <3>1, <3>2, <3>3, CrashSteps
      DEF NamedTouches, ProcessorDone, Opens, Outputs, Processing, counts
    <3>5. ino'[u] = ino[u]
      BY <1>0, <1>1, <3>2, <3>4, NamedSteps DEF Missing
    <3>. QED BY <2>2, <3>5, EndedSame
  <2>5. CASE ino'[u].data = ino[u].data
    BY <2>2, <2>5, EndedSame
  <2>. QED BY <2>1, <2>3, <2>4, <2>5, LogData
<1>. QED BY <1>1, <1>2, <1>3, <1>4, UnfinishedSteps

(* multilog ends a file at the end of a line, unless it is full and its    *)
(* last line is longer than the margin, however short the writes are and   *)
(* wherever it is killed, as long as no ALRM forces a rotation.            *)
THEOREM CyclogAtLineEnd == Spec => []AtLineEnd
<1>. DEFINE Ends0 == alarms = 0 => LineEnds
<1>1. Init => Ends0
  <2>1. SUFFICES ASSUME Init PROVE LineEnds
    OBVIOUS
  <2>2. old = <<>> /\ pc = "stopped" /\ dir = [n \in Names |-> NoInode]
    BY <2>1 DEF Init
  <2>. QED BY <2>2 DEF LineEnds, OldEnded, FullEnded, LateAwaits, HasFd, InFinish, QuitEarly, IsExec,
                       UnfinishedEnded, ToFinish, Names
<1>2. Inv /\ Ends0 /\ Next => Ends0'
  <2>1. SUFFICES ASSUME Inv, Ends0, Next, alarms' = 0 PROVE LineEnds'
    OBVIOUS
  <2>2. alarms = 0 /\ ~ForceRotate
    BY <2>1, AlarmSteps DEF ForceRotate, Inv, TypeOK
  <2>. QED BY <2>1, <2>2, OldEndedStep, FullEndedStep, LateAwaitsStep, QuitEarlyStep, UnfinishedEndedStep
           DEF LineEnds
<1>3. Inv /\ Ends0 /\ UNCHANGED vars => Ends0'
  BY DEF LineEnds, OldEnded, FullEnded, LateAwaits, QuitEarly, UnfinishedEnded, ToFinish, Ended, Late,
         Awaited, Pending, HasFd, InFinish, IsExec, Unfinished, vars, disk, d, buffered, counts
<1>4. Ends0 => AtLineEnd
  BY DEF LineEnds, OldEnded, Ended, AtLineEnd
<1>5. Inv /\ Ends0 /\ [Next]_vars => Ends0'
  BY <1>2, <1>3
<1>. QED BY <1>1, <1>4, <1>5, CyclogInvariant, PTL DEF Spec

-----------------------------------------------------------------------------
(* What a processor is given                                               *)

(* What descriptor 4 of the next processor reads is nothing or the byte    *)
(* just before the file it is about to process: so state holds the byte    *)
(* before the first one of current (of previous during a rotation), and    *)
(* newstate, when a run has succeeded, the last byte of previous.          *)
StateIs(v) == Missing("state") \/ ino[dir["state"]].data \in {<<>>, <<v>>}
Continued(i) ==
  LET data == ino[i].data
  IN  IF data = <<>> THEN StateIs(written)
                     ELSE data[Len(data)] = written /\ StateIs(Head(data) - 1)

Reads == \/ pc \in {"idle", "flush", "sync", "rename", "q_sync", "q_mode"}
         \/ InFinish /\ fin.next = "flush"
         \/ IsExec("current")
CurrentContinued == Reads => \A i \in Inodes : i = dir["current"] => Continued(i)
CreatedContinued == pc = "create" => StateIs(written)
NeverEmpty == pc \in {"sync", "rename"} => ino[fd].data # <<>>
NextEmpty ==
  pc \in {"mode", "fork", "wait", "p_mode", "n_sync", "p_unlink", "n_rename"} => ino[fd].data = <<>>
PreviousContinued ==
  pc \in {"recreate", "mode", "fork", "wait"} =>
    \A i \in Inodes : i = dir["previous"] => ino[i].data # <<>> /\ Continued(i)
OpeningGets ==
  \A k \in DOMAIN proc, i \in Inodes : proc[k].phase = "opening" /\ i = dir["previous"] =>
    StateIs(Head(ino[i].data) - 1)
NewstateIs ==
  pc \in {"p_mode", "n_sync", "p_unlink", "n_rename"} \/ (pc = "wait" /\ proc[crashes].phase = "done")
  => ino[dir["newstate"]].data = <<written>>
OutputTold(k) ==
  LET out == ino[proc[k].out].data
  IN  out = <<>> \/ ino[proc[k].ns].data = <<out[Len(out)]>>
OutputsTold == \A k \in DOMAIN proc : proc[k].phase = "running" => OutputTold(k)
NoScript ==
  ~processor => /\ \A k \in DOMAIN proc : proc[k].phase = "none"
                /\ pc \notin {"fork", "wait", "p_mode", "n_sync", "p_unlink", "n_rename"}
                /\ ~Missing("state") => ino[dir["state"]].data = <<>>
StateKept == /\ CurrentContinued /\ CreatedContinued /\ NeverEmpty /\ NextEmpty /\ PreviousContinued
             /\ OpeningGets /\ NewstateIs /\ OutputsTold /\ NoScript /\ StateFollows

(* Only fullcurrent() writes to state, by renaming newstate.               *)
LEMMA StateSteps ==
  ASSUME Inv, Next, ~RenameNewstate
  PROVE  \/ Missing("state")'
         \/ ino'[dir'["state"]].data = <<>>
         \/ ~Missing("state") /\ ino'[dir'["state"]].data = ino[dir["state"]].data
         \/ /\ ~Missing("state") /\ Len(ino[dir["state"]].data) > ino[dir["state"]].synced
            /\ ino'[dir'["state"]].data = SubSeq(ino[dir["state"]].data, 1, ino[dir["state"]].synced)
<1>. USE DEF Inv, Shape
<1>0. dir \in [Names -> Inodes \cup {NoInode}] /\ ino \in [Inodes -> File] /\ "state" \in Names
  BY DEF TypeOK, Names
<1>1. CASE DropState
  BY <1>0, <1>1 DEF DropState, Drop, Unlink, Missing
<1>2. CASE EmptyState
  <2>1. NewInode \in Inodes
    BY <1>2, NewFile DEF EmptyState
  <2>. QED BY <1>0, <1>2, <2>1, BlankFile DEF EmptyState
<1>3. CASE dir'["state"] = dir["state"] /\ ~Missing("state")
  <2>1. dir["state"] \in Inodes /\ (ino'[dir["state"]] = ino[dir["state"]] \/ NamedTouches("state"))
    BY <1>0, <1>3, NamedSteps
  <2>2. NamedTouches("state") => ino'[dir["state"]] = Torn(dir["state"]) /\ dir["state"] \in Unsynced
    BY DEF NamedTouches
  <2>3. \A i \in Inodes : Torn(i).data = SubSeq(ino[i].data, 1, ino[i].synced)
    BY <1>0 DEF Torn, File
  <2>4. dir["state"] \in Unsynced => Len(ino[dir["state"]].data) > ino[dir["state"]].synced
    BY <2>1, FileType DEF Unsynced
  <2>. QED BY <1>3, <2>1, <2>2, <2>3, <2>4
<1>. QED BY <1>1, <1>2, <1>3, NameSteps DEF Missing

LEMMA StateIsStays ==
  ASSUME Inv, Next, ~RenameNewstate, NEW v, StateIs(v)
  PROVE  \A x : x = v => StateIs(x)'
<1>1. SUFFICES ~Missing("state")' => ino'[dir'["state"]].data \in {<<>>, <<v>>}
  BY DEF StateIs, Missing
<1>2. ASSUME ~Missing("state"), Len(ino[dir["state"]].data) > ino[dir["state"]].synced
      PROVE  SubSeq(ino[dir["state"]].data, 1, ino[dir["state"]].synced) = <<>>
  <2>1. PICK s \in Inodes : s = dir["state"]
    BY <1>2, DirType DEF Inv, Missing, Names
  <2>2. ino[s].synced \in Nat /\ ino[s].data \in Seq(Nat) /\ ino[s].data \in {<<>>, <<v>>}
        /\ Len(ino[s].data) > ino[s].synced
    BY <1>2, <2>1, FileType DEF Inv, StateIs
  <2>3. Len(ino[s].data) \in {0, 1}
    BY <2>2
  <2>4. \A l \in {0, 1}, n \in Nat : l > n => n = 0
    OBVIOUS
  <2>5. ino[s].synced = 0
    BY <2>2, <2>3, <2>4, Zenon
  <2>. QED BY <2>1, <2>2, <2>5
<1>. QED BY <1>2, StateSteps DEF StateIs

LEMMA ContinuedStays ==
  ASSUME Inv, Next, ~RenameNewstate, written' = written, NEW i, Continued(i), ino'[i].data = ino[i].data
  PROVE  Continued(i)'
<1>1. CASE ino[i].data = <<>>
  BY <1>1, StateIsStays DEF Continued
<1>2. CASE ino[i].data # <<>>
  <2>1. \A x : x = Head(ino[i].data) - 1 => StateIs(x)'
    BY <1>2, StateIsStays DEF Continued
  <2>. QED BY <1>2, <2>1 DEF Continued
<1>. QED BY <1>1, <1>2

LEMMA OpensOthers ==
  ASSUME Inv, NEW j \in DOMAIN proc, Opens(j), NEW i \in Inodes, IsOpen(i),
         i # dir["processed"], i # dir["newstate"]
  PROVE  ino'[i] = ino[i]
<1>1. PICK out, ns \in Inodes :
        /\ Gets("processed", out) /\ Gets("newstate", ns) /\ out # ns
        /\ \A l \in Inodes : ino'[l] = IF l \in {out, ns} THEN [Blank EXCEPT !.exec = ino[l].exec] ELSE ino[l]
  BY OpensDoes, ZenonT(30)
<1>2. i # out /\ i # ns
  BY <1>1 DEF Gets
<1>. QED BY <1>1, <1>2

(* Nobody but a processor writes to the files that it has open.            *)
LEMMA HeldData ==
  ASSUME Inv, Next, NEW k \in DOMAIN proc, proc[k].phase = "running", proc'[k] = proc[k],
         NEW i \in {proc[k].in, proc[k].out, proc[k].ns}
  PROVE  ino'[i].data = ino[i].data \/ (Outputs(k) /\ i # proc[k].in)
<1>. USE DEF Inv, Shape
<1>. DEFINE Same == ino'[i].data = ino[i].data
<1>0. /\ ino \in [Inodes -> File] /\ fin.file \in Names /\ i \in Inodes /\ NoInode \notin Inodes
      /\ i \in Held(proc[k]) /\ IsOpen(i) /\ i # dir["current"]
  <2>1. i \in Inodes /\ i \in Held(proc[k])
    BY DEF Procs, Phases, Held
  <2>2. i # dir["current"]
    BY DEF Procs, Reach, Names
  <2>. QED BY <2>1, <2>2, InodeOrNone DEF TypeOK, IsOpen
<1>1. ASSUME NEW j, ino' = Unlinked(j) PROVE Same
  BY <1>0, <1>1 DEF Unlinked
<1>2. CASE EmptyState \/ Creating
  <2>1. i # NewInode
    BY <1>0, <1>2, NewFile DEF EmptyState, Creating, CreateCurrent
  <2>. QED BY <1>0, <1>2, <2>1 DEF EmptyState, Creating, CreateCurrent
<1>3. ASSUME NEW j, \/ ino' = [ino EXCEPT ![j].exec = TRUE] \/ ino' = [ino EXCEPT ![j].exec = FALSE]
                    \/ Sync(j)
      PROVE  Same
  <2>1. /\ [ino[i] EXCEPT !.exec = TRUE].data = ino[i].data
        /\ [ino[i] EXCEPT !.exec = FALSE].data = ino[i].data
        /\ \A n : [ino[i] EXCEPT !.synced = n].data = ino[i].data
    BY <1>0 DEF File
  <2>2. CASE Sync(j)
    BY <1>0, <2>1, <2>2 DEF Sync
  <2>3. CASE ino' = [ino EXCEPT ![j].exec = TRUE]
    BY <1>0, <2>1, <2>3
  <2>4. CASE ino' = [ino EXCEPT ![j].exec = FALSE]
    BY <1>0, <2>1, <2>4
  <2>. QED BY <1>3, <2>2, <2>3, <2>4
<1>4. ino' = ino => Same
  OBVIOUS
<1>5. CASE Restart
  BY <1>1, <1>2, <1>3, <1>4, <1>5
  DEF Restart, Start, Resume, DropState, DropNewstate, DropPrevious, DropProcessed, Drop, Unlink,
      FinishCurrent, Creating, disk
<1>6. CASE Finishing
  BY <1>1, <1>4, <1>6
  DEF Finishing, NoFile, AlreadyLinked, Link, LinkFails, UnlinkFinished, RemoveOldest, Fits, Unlink, disk
<1>7. CASE Rotation
  BY <1>1, <1>2, <1>3, <1>4, <1>7
  DEF Rotation, SyncCurrent, RenameCurrent, Creating, MarkPrevious, Fork, ProcessorFailed,
      ProcessorDone, MarkProcessed, SyncNewstate, UnlinkPrevious, RenameNewstate, Unlink, disk
<1>8. ASSUME NEW j \in DOMAIN proc, Opens(j) PROVE Same
  <2>1. dir["previous"] # proc[k].in /\ dir["processed"] # proc[k].out /\ dir["newstate"] # proc[k].ns
    BY <1>8 DEF Procs, Opening, Opens
  <2>2. dir["processed"] \notin Held(proc[k]) /\ dir["newstate"] \notin Held(proc[k])
    BY <2>1 DEF Procs, Reach, Held, Names
  <2>. QED BY <1>0, <1>8, <2>2, OpensOthers
<1>9. ASSUME NEW j \in DOMAIN proc, Outputs(j) PROVE Same \/ (Outputs(k) /\ i # proc[k].in)
  <2>1. i \notin {proc[j].out, proc[j].ns} => Same
    BY <1>0, <1>9, OutputsDoes
  <2>2. CASE j = k
    BY <1>9, <2>1, <2>2 DEF Procs, Phases
  <2>3. CASE j # k
    <3>1. Held(proc[j]) \cap Held(proc[k]) = {}
      BY <1>9, <2>3 DEF Procs, NoneShared, Outputs
    <3>. QED BY <1>0, <2>1, <3>1 DEF Held
  <2>. QED BY <2>2, <2>3
<1>10. ASSUME NEW j \in DOMAIN proc, Succeeds(j) \/ Fails(j) PROVE Same
  <2>1. proc[j].phase = "running" /\ Closed(j)
    BY <1>10 DEF Succeeds, Fails
  <2>2. j # k
    <3>1. /\ NoProcessor.phase # "running"
          /\ [NoProcessor EXCEPT !.phase = "done"].phase = "done"
          /\ [NoProcessor EXCEPT !.phase = "failed"].phase = "failed"
      BY DEF NoProcessor
    <3>. QED BY <1>10, <3>1 DEF Succeeds, Fails, Becomes
  <2>3. Held(proc[j]) \cap Held(proc[k]) = {}
    BY <2>1, <2>2 DEF Procs, NoneShared
  <2>. QED BY <1>0, <2>1, <2>3 DEF Closed
<1>11. CASE Writing
  <2>1. CASE Write
    <3>1. fd = dir["current"]
      BY <2>1 DEF Write, Files, Descriptor, HasFd
    <3>. QED BY <1>0, <2>1, <3>1, WriteDoes, WriteAppends
  <2>. QED BY <1>4, <1>11, <2>1 DEF Writing, WriteFull, Flushed, disk
<1>12. CASE Quitting
  BY <1>3, <1>12 DEF Quitting, QuitSync, Quit
<1>13. ~Outage
  BY DEF Outage, NoProcessor
<1>. QED
  BY <1>4, <1>5, <1>6, <1>7, <1>8, <1>9, <1>10, <1>11, <1>12, <1>13
  DEF Next, Multilog, Environment, Processors, CannotOpen, Put, Flush, ForceRotate, EndOfInput, Kill, disk

(* Where multilog comes from when it goes on with current                  *)
LEMMA ReadsSteps ==
  ASSUME Inv, Next, Reads'
  PROVE  Reads \/ (MarkPrevious /\ ~processor) \/ RenameNewstate \/ CreateCurrent("create", "idle")
<1>. USE DEF Inv
<1>1. CASE IsExec("current")'
  BY <1>1, ExecCurrent DEF Reads, Quit, At
<1>2. CASE InFinish' /\ fin'.next = "flush"
  <2>1. ~DropPrevious /\ ~DropProcessed /\ ~FinishCurrent
    BY <1>2 DEF DropPrevious, DropProcessed, FinishCurrent, Finish
  <2>2. LinkFails => InFinish /\ fin'.next = fin.next
    BY DEF LinkFails, InFinish, TypeOK
  <2>3. AlreadyLinked \/ Link \/ UnlinkFinished \/ RemoveOldest => InFinish /\ fin' = fin
    BY DEF AlreadyLinked, Link, UnlinkFinished, RemoveOldest, At, InFinish
  <2>. QED BY <1>2, <2>1, <2>2, <2>3, FinishingAt DEF Reads
<1>3. CASE pc' \in {"idle", "flush", "sync", "rename", "q_sync", "q_mode"}
  <2>1. CASE Restart
    BY <1>3, <2>1 DEF Restart, Start, Resume, DropState, DropNewstate, DropPrevious, DropProcessed, Drop,
                      FinishCurrent, EmptyState, CreateCurrent, At, Reads
  <2>2. CASE Finishing
    <3>1. InFinish /\ fin.next \in {"flush", "r_current", "r_state"}
      BY <2>2, FinNext
    <3>. QED BY <1>3, <2>2, <3>1 DEF Finishing, NoFile, AlreadyLinked, Link, LinkFails, UnlinkFinished,
                                     RemoveOldest, Fits, At, Reads
  <2>3. CASE Rotation
    BY <1>3, <2>3 DEF Rotation, SyncCurrent, RenameCurrent, CreateCurrent, MarkPrevious, Fork,
                      ProcessorFailed, ProcessorDone, MarkProcessed, SyncNewstate, UnlinkPrevious, At, Reads
  <2>4. CASE Processors
    BY <1>3, <2>4 DEF Processors, Opens, CannotOpen, Outputs, Succeeds, Fails, Processing, Reads
  <2>. QED
    BY <1>3, <2>1, <2>2, <2>3, <2>4
    DEF Next, Multilog, Writing, WriteFull, Write, Flushed, Quitting, QuitSync, Quit, Environment, Put,
        Flush, ForceRotate, EndOfInput, Kill, Outage, Died, At, Reads
<1>. QED BY <1>1, <1>2, <1>3 DEF Reads

LEMMA WriteContinues ==
  ASSUME Inv, Write, Continued(fd)
  PROVE  fd \in Inodes /\ ino'[fd].data # <<>> /\ \A i : i = fd => Continued(i)'
<1>. USE DEF Inv
<1>. DEFINE data == ino[fd].data
            next == ino'[fd].data
            len  == Len(ino[fd].data)
<1>1. PICK w \in Nat :
        /\ w > 0 /\ fd \in Inodes /\ written' = written + w
        /\ ino' = [ino EXCEPT ![fd].data = ino[fd].data \o [k \in 1..w |-> written + k]]
  BY WriteDoes
<1>2. /\ Len(next) = len + w
      /\ \A k \in 1..len : next[k] = data[k]
      /\ \A k \in 1..w : next[len + k] = written + k
  BY <1>1, WriteAppends
<1>3. data \in Seq(Nat) /\ len \in Nat /\ written \in Nat /\ ino' \in [Inodes -> File]
  <2>1. ino' \in [Inodes -> File]
    BY InoStep DEF Next, Multilog, Writing
  <2>2. written \in Nat
    BY CyclogAssumption DEF TypeOK
  <2>. QED BY <1>1, <2>1, <2>2, FileType
<1>4. next \in Seq(Nat)
  BY <1>1, <1>3 DEF File
<1>5. dir' = dir /\ fd = dir["current"] /\ dir \in [Names -> Inodes \cup {NoInode}] /\ NoInode \notin Inodes
      /\ {"current", "state"} \subseteq Names
  BY InodeOrNone DEF Write, Files, Descriptor, HasFd, TypeOK, Names
<1>6. \A v : StateIs(v) /\ ~Missing("state") => ino'[dir["state"]].data \in {<<>>, <<v>>}
  <2>1. dir["state"] # fd
    BY <1>1, <1>5 DEF Shape, OneName
  <2>2. ~Missing("state") => ino'[dir["state"]] = ino[dir["state"]]
    BY <1>1, <1>3, <1>5, <2>1, WriteAppends DEF Missing
  <2>. QED BY <2>2 DEF StateIs
<1>. HIDE DEF data, next, len
<1>7. next # <<>> /\ next[len + w] = written' /\ len + w = Len(next) /\ Head(next) = next[1]
  <2>1. w \in 1..w /\ Len(next) > 0
    BY <1>1, <1>2, <1>3
  <2>2. next # <<>> /\ Head(next) = next[1]
    BY <1>4, <2>1
  <2>. QED BY <1>1, <1>2, <2>1, <2>2
<1>8. CASE data = <<>>
  <2>1. len = 0 /\ StateIs(written)
    BY <1>8 DEF Continued, data, len
  <2>2. next[1] = written + 1 /\ Head(next) - 1 = written
    <3>1. 1 \in 1..w /\ len + 1 = 1
      BY <1>1, <2>1
    <3>2. next[1] = written + 1
      BY <1>2, <3>1
    <3>. QED BY <1>3, <1>7, <3>2
  <2>. QED BY <1>1, <1>5, <1>6, <1>7, <2>1, <2>2 DEF Continued, StateIs, Missing, next
<1>9. CASE data # <<>>
  <2>0. \A s \in Seq(Nat) : s # <<>> => Len(s) > 0 /\ Head(s) = s[1]
    OBVIOUS
  <2>1. len > 0 /\ Head(data) = data[1]
    BY <1>3, <1>9, <2>0 DEF len, data
  <2>2. Head(next) = Head(data)
    BY <1>2, <1>3, <1>7, <2>1
  <2>3. StateIs(Head(data) - 1)
    BY <1>9 DEF Continued, data
  <2>. QED BY <1>1, <1>5, <1>6, <1>7, <2>2, <2>3 DEF Continued, StateIs, Missing, next
<1>. QED BY <1>1, <1>7, <1>8, <1>9 DEF next

LEMMA CurrentContinuedStep ==
  ASSUME Inv, Next, CurrentContinued, CreatedContinued, NextEmpty, NewstateIs, NoScript
  PROVE  CurrentContinued'
<1>. USE DEF Inv, Shape
<1>0. /\ dir \in [Names -> Inodes \cup {NoInode}] /\ NoInode \notin Inodes /\ ino \in [Inodes -> File]
      /\ {"current", "previous", "processed", "newstate", "state"} = Names
  BY InodeOrNone DEF TypeOK, Names
<1>1. SUFFICES ASSUME Reads', NEW i \in Inodes, i = dir'["current"] PROVE Continued(i)'
  BY DEF CurrentContinued
<1>2. CASE CreateCurrent("create", "idle")
  <2>1. pc = "create" /\ ~RenameNewstate /\ ~Write /\ ~Kill /\ ~Outage
    BY <1>2 DEF CreateCurrent, At, RenameNewstate, Write, Kill, Outage, Died
  <2>2. StateIs(written) /\ written' = written
    BY <2>1, WrittenSteps DEF CreatedContinued
  <2>3. i = NewInode /\ ino' = [ino EXCEPT ![NewInode] = Blank]
    BY <1>0, <1>1, <1>2 DEF CreateCurrent
  <2>4. ino'[i].data = <<>>
    BY <1>0, <2>3, BlankFile
  <2>5. \A v : v = written' => StateIs(v)'
    BY <2>1, <2>2, StateIsStays
  <2>. QED BY <2>4, <2>5 DEF Continued
<1>3. CASE MarkPrevious /\ ~processor
  <2>1. pc = "mode" /\ fd = dir["current"] /\ dir' = dir /\ written' = written
        /\ ino' = [ino EXCEPT ![dir["previous"]].exec = TRUE]
    BY <1>3 DEF MarkPrevious, At, Files, Descriptor, HasFd, buffered
  <2>2. ino[i].data = <<>> /\ i # dir["previous"]
    BY <1>0, <1>1, <2>1 DEF NextEmpty, OneName
  <2>3. ino'[i].data = <<>>
    BY <2>1, <2>2
  <2>4. dir["state"] # dir["previous"]
    BY <1>0, <1>1, <2>1 DEF OneName, Place, WhileRotating, Rotated, Missing
  <2>5. ~Missing("state")' => ino'[dir'["state"]].data = <<>>
    BY <1>0, <1>3, <2>1, <2>4 DEF NoScript, Missing
  <2>. QED BY <2>3, <2>5 DEF Continued, StateIs, Missing
<1>4. CASE RenameNewstate
  <2>1. /\ pc = "n_rename" /\ fd = dir["current"] /\ written' = written
        /\ dir' = [dir EXCEPT !["state"] = dir["newstate"], !["newstate"] = NoInode]
        /\ ino' = Unlinked(dir["state"]) /\ ~Missing("newstate")
    BY <1>4 DEF RenameNewstate, At, Files, Descriptor, HasFd, buffered, Place, WhileRotating
  <2>2. i = dir["current"] /\ ino[i].data = <<>> /\ ino[dir["newstate"]].data = <<written>>
    BY <1>0, <1>1, <2>1 DEF NextEmpty, NewstateIs
  <2>3. i # dir["state"] /\ dir["newstate"] # dir["state"] /\ dir["newstate"] \in Inodes
    BY <1>0, <2>1, <2>2 DEF OneName, Missing
  <2>4. ino'[i] = ino[i] /\ ino'[dir["newstate"]] = ino[dir["newstate"]]
    BY <1>0, <2>1, <2>3, UnlinkedName
  <2>5. dir'["state"] = dir["newstate"]
    BY <1>0, <2>1
  <2>. QED BY <2>1, <2>2, <2>4, <2>5 DEF Continued, StateIs
<1>5. CASE Write
  <2>1. fd = dir["current"] /\ dir' = dir /\ fd \in Inodes /\ Reads
    BY <1>5 DEF Write, Files, Descriptor, HasFd, Reads
  <2>2. Continued(fd)
    BY <2>1 DEF CurrentContinued
  <2>. QED BY <1>1, <1>5, <2>1, <2>2, WriteContinues
<1>6. CASE Reads /\ ~RenameNewstate /\ ~Write /\ ~CreateCurrent("create", "idle")
  <2>1. dir["current"] = i
    <3>1. CreateCurrent("recreate", "mode") => ~Reads' \/ IsExec("current")'
      BY DEF CreateCurrent, At, Reads, InFinish
    <3>2. IsExec("current")' => dir'["current"] = dir["current"]
      BY ExecCurrent
    <3>3. UnlinkFinished /\ fin.file = "current" => dir'["current"] = NoInode
      BY <1>0 DEF UnlinkFinished, Unlink
    <3>4. RenameCurrent => dir'["current"] = NoInode
      BY <1>0 DEF RenameCurrent
    <3>. QED BY <1>0, <1>1, <1>6, <3>1, <3>2, <3>3, <3>4, NameSteps DEF Creating
  <2>2. Continued(i) /\ InLog(i) /\ Linked(i)'
    BY <1>0, <1>1, <1>6, <2>1 DEF CurrentContinued, InLog, Linked
  <2>3. CASE Kill \/ Outage
    <3>1. IsExec("current")
      <4>1. pc' = "stopped" /\ ~Quit
        BY <2>3, CrashSteps DEF Quit, counts
      <4>2. IsExec("current")'
        BY <1>1, <4>1 DEF Reads, InFinish
      <4>. QED BY <4>1, <4>2, ExecCurrent
    <3>2. Safe(i) /\ written = input /\ written' = written
      BY <2>1, <2>3, <3>1 DEF Kept, ExecMeansSafe, Safe, Kill, Outage, Died
    <3>3. ino'[i] = ino[i]
      <4>1. i \notin Unsynced
        BY <3>2, FileType DEF Safe, Unsynced
      <4>2. ~Resume /\ ~SyncCurrent /\ ~QuitSync /\ ~Quit
        BY <2>3, CrashSteps, <3>1 DEF Resume, SyncCurrent, QuitSync, Quit, At, Kept, ExecMeansSafe
      <4>. QED BY <1>0, <1>1, <1>6, <2>1, <4>1, <4>2, CurrentSteps DEF Missing
    <3>. QED BY <1>6, <2>2, <3>2, <3>3, ContinuedStays
  <2>4. CASE ~Kill /\ ~Outage
    <3>1. ino'[i].data = ino[i].data
      BY <1>6, <2>2, <2>4, LogData
    <3>2. written' = written
      BY <1>6, <2>4, WrittenSteps
    <3>. QED BY <1>6, <2>2, <3>1, <3>2, ContinuedStays
  <2>. QED BY <2>3, <2>4
<1>. QED BY <1>1, <1>2, <1>3, <1>4, <1>5, <1>6, ReadsSteps

LEMMA CreatedContinuedStep ==
  ASSUME Inv, Next, CreatedContinued
  PROVE  CreatedContinued'
<1>. USE DEF Inv
<1>0. SUFFICES ASSUME pc' = "create" PROVE StateIs(written)'
  BY DEF CreatedContinued
<1>1. CASE EmptyState
  <2>1. HasRoom /\ dir' = [dir EXCEPT !["state"] = NewInode] /\ ino' = [ino EXCEPT ![NewInode] = Blank]
    BY <1>1 DEF EmptyState
  <2>2. NewInode \in Inodes
    BY <2>1, NewFile DEF Shape
  <2>3. dir'["state"] = NewInode /\ ino'[NewInode] = Blank
    BY <2>1, <2>2 DEF TypeOK, Names
  <2>. QED BY <2>3, BlankFile DEF StateIs
<1>2. CASE pc = "create"
  <2>1. ~RenameNewstate /\ ~Write /\ ~Kill /\ ~Outage
    BY <1>0, <1>2 DEF RenameNewstate, Write, Kill, Outage, Died, At
  <2>2. \A v : v = written' => StateIs(v)'
    BY <1>2, <2>1, WrittenSteps, StateIsStays DEF CreatedContinued
  <2>. QED BY <2>2
<1>3. EmptyState \/ pc = "create"
  <2>1. Finishing => fin.next # "create"
    BY FinNext
  <2>2. ~DropState /\ ~DropNewstate /\ ~DropPrevious /\ ~DropProcessed /\ ~FinishCurrent
    BY <1>0 DEF DropState, DropNewstate, DropPrevious, DropProcessed, FinishCurrent, Drop, At
  <2>. QED BY <1>0, <2>1, <2>2, RestartingAt DEF Finishing, NoFile, AlreadyLinked, Link, LinkFails, UnlinkFinished,
                                   RemoveOldest, Fits, At, InFinish
<1>. QED BY <1>1, <1>2, <1>3

LEMMA NeverEmptyStep ==
  ASSUME Inv, Next, CurrentContinued, NeverEmpty
  PROVE  NeverEmpty'
<1>. USE DEF Inv
<1>0. SUFFICES ASSUME pc' \in {"sync", "rename"} PROVE ino'[fd'].data # <<>>
  BY DEF NeverEmpty
<1>1. CASE Write
  <2>1. fd = dir["current"] /\ Reads /\ fd \in Inodes /\ fd' = fd
    BY <1>1 DEF Write, Files, Descriptor, HasFd, Reads
  <2>. QED BY <1>1, <2>1, WriteContinues DEF CurrentContinued
<1>2. CASE WriteFull \/ ForceRotate
  <2>1. fd' = fd /\ ino' = ino /\ fd \in Inodes /\ bytes = Len(ino[fd].data)
    BY <1>2 DEF WriteFull, ForceRotate, At, d, disk, Files, Descriptor, HasFd
  <2>2. bytes > 0
    BY <1>2, CyclogAssumption DEF WriteFull, ForceRotate, Full, TypeOK
  <2>3. bytes # 0
    BY <2>2
  <2>. QED BY <2>1, <2>3, FileType
<1>3. CASE SyncCurrent
  <2>1. fd' = fd /\ fd \in Inodes /\ pc = "sync" /\ ino' = [ino EXCEPT ![fd].synced = Len(ino[fd].data)]
    BY <1>3 DEF SyncCurrent, Sync, At, d, Files, Descriptor, HasFd
  <2>2. ino'[fd].data = ino[fd].data
    BY <2>1 DEF TypeOK, File
  <2>. QED BY <2>1, <2>2 DEF NeverEmpty
<1>4. CASE pc' = pc /\ fd' = fd /\ Processors
  <2>1. fd \in Inodes /\ fd = dir["current"] /\ ~Missing("current") /\ "current" \in Names
    BY <1>0, <1>4, InodeOrNone DEF Files, Descriptor, HasFd, Missing, Names
  <2>2. ino'[fd] = ino[fd]
    BY <1>0, <1>4, <2>1, NotWaiting DEF Restarting
  <2>. QED BY <1>0, <1>4, <2>2 DEF NeverEmpty
<1>. QED BY <1>0, <1>1, <1>2, <1>3, <1>4, SyncSteps

LEMMA NextEmptyStep ==
  ASSUME Inv, Next, NextEmpty
  PROVE  NextEmpty'
<1>. USE DEF Inv
<1>0. SUFFICES ASSUME pc' \in {"mode", "fork", "wait", "p_mode", "n_sync", "p_unlink", "n_rename"}
               PROVE  ino'[fd'].data = <<>>
  BY DEF NextEmpty
<1>1. CASE CreateCurrent("recreate", "mode")
  <2>1. HasRoom /\ fd' = NewInode /\ ino' = [ino EXCEPT ![fd'] = Blank]
    BY <1>1 DEF CreateCurrent
  <2>2. fd' \in Inodes
    BY <2>1, NewFile DEF Shape
  <2>. QED BY <2>1, <2>2, BlankFile DEF TypeOK
<1>2. CASE pc \in {"mode", "fork", "wait", "p_mode", "n_sync", "p_unlink", "n_rename"}
  <2>1. fd' = fd /\ ~Write /\ ~Outage
    BY <1>0, <1>2, HasFdSteps DEF Resume, Creating, CreateCurrent, RenameCurrent, Quit, Kill, Outage, Died, Write, At
  <2>2. fd \in Inodes /\ fd = dir["current"] /\ fd' = dir'["current"]
    <3>1. Descriptor'
      BY DescriptorKept
    <3>. QED BY <1>0, <1>2, <3>1 DEF Files, Descriptor, HasFd
  <2>3. \A i : i = fd => InLog(i) /\ Linked(i)'
    BY <2>1, <2>2 DEF InLog, Linked, Names
  <2>4. \A i : i = fd => ino'[i].data = ino[i].data
    BY <2>1, <2>3, LogData
  <2>. QED BY <1>2, <2>1, <2>4 DEF NextEmpty
<1>3. CreateCurrent("recreate", "mode") \/ pc \in {"mode", "fork", "wait", "p_mode", "n_sync", "p_unlink", "n_rename"}
  BY <1>0, RotatingAt DEF RenameCurrent, MarkPrevious, Fork, ProcessorFailed, ProcessorDone,
     MarkProcessed, SyncNewstate, UnlinkPrevious, At
<1>. QED BY <1>1, <1>2, <1>3

LEMMA PreviousContinuedStep ==
  ASSUME Inv, Next, CurrentContinued, NeverEmpty, PreviousContinued
  PROVE  PreviousContinued'
<1>. USE DEF Inv
<1>0. SUFFICES ASSUME pc' \in {"recreate", "mode", "fork", "wait"}, NEW i \in Inodes, i = dir'["previous"]
               PROVE  ino'[i].data # <<>> /\ Continued(i)'
  BY DEF PreviousContinued
<1>1. ~RenameNewstate /\ ~Write /\ ~Kill /\ ~Outage
  BY <1>0, WriteDoes DEF RenameNewstate, Kill, Outage, Died, At
<1>2. written' = written
  BY <1>1, WrittenSteps
<1>3. CASE RenameCurrent
  <2>1. pc = "rename" /\ Missing("previous") /\ fd = dir["current"] /\ Reads
    BY <1>3 DEF RenameCurrent, At, Place, WhileWriting, NoLeftOvers, Files, Descriptor, HasFd, Reads
  <2>2. i = fd /\ ino' = ino
    BY <1>0, <1>3, <2>1 DEF RenameCurrent, Unlinked, Missing, TypeOK, Names
  <2>3. Continued(i) /\ ino[i].data # <<>>
    BY <2>1, <2>2 DEF CurrentContinued, NeverEmpty
  <2>. QED BY <1>1, <1>2, <2>2, <2>3, ContinuedStays
<1>4. CASE pc \in {"recreate", "mode", "fork", "wait"}
  <2>1. dir["previous"] = i /\ "previous" \in Names /\ i # NoInode
    BY <1>0, <1>4, NameSteps, InodeOrNone DEF DropPrevious, RenameCurrent, UnlinkPrevious, UnlinkFinished, At, Names
  <2>2. ino'[i].data = ino[i].data
    <3>1. CASE MarkPrevious
      <4>1. ino' = [ino EXCEPT ![i].exec = TRUE]
        BY <2>1, <3>1 DEF MarkPrevious
      <4>. QED BY <4>1 DEF TypeOK, File
    <3>. QED BY <1>0, <1>1, <2>1, <3>1, NamedSteps DEF NamedTouches, Missing
  <2>3. Continued(i) /\ ino[i].data # <<>>
    BY <1>4, <2>1 DEF PreviousContinued
  <2>. QED BY <1>1, <1>2, <2>2, <2>3, ContinuedStays
<1>5. RenameCurrent \/ pc \in {"recreate", "mode", "fork", "wait"}
  BY <1>0, RotatingAt DEF CreateCurrent, MarkPrevious, Fork, ProcessorFailed, ProcessorDone,
     MarkProcessed, SyncNewstate, UnlinkPrevious, At
<1>. QED BY <1>3, <1>4, <1>5

LEMMA OpeningGetsStep ==
  ASSUME Inv, Next, PreviousContinued, OpeningGets
  PROVE  OpeningGets'
<1>. USE DEF Inv
<1>0. DOMAIN proc' = DOMAIN proc
  BY CrashesIsProcess, RunningSteps
<1>1. SUFFICES ASSUME NEW k \in DOMAIN proc, proc'[k].phase = "opening", NEW i \in Inodes, i = dir'["previous"]
               PROVE  StateIs(Head(ino[i].data) - 1)'
  BY <1>0 DEF OpeningGets
<1>2. CASE proc'[k] = proc[k]
  <2>1. dir' = dir /\ "previous" \in Names /\ i # NoInode /\ proc[k].phase = "opening"
    BY <1>1, <1>2, OpeningSteps, InodeOrNone DEF Names
  <2>2. ~Outage /\ ~RenameNewstate
    <3>1. ~Outage
      BY <1>1 DEF Outage, NoProcessor
    <3>2. pc \in {"wait", "stopped"}
      BY <2>1 DEF Procs, Phases
    <3>. QED BY <3>1, <3>2 DEF RenameNewstate, At
  <2>3. ino'[i].data = ino[i].data
    <3>1. CASE MarkPrevious
      <4>1. ino' = [ino EXCEPT ![i].exec = TRUE]
        BY <1>1, <2>1, <3>1 DEF MarkPrevious
      <4>. QED BY <4>1 DEF TypeOK, File
    <3>. QED BY <1>1, <2>1, <2>2, <3>1, NamedSteps DEF NamedTouches, Missing
  <2>4. \A v : v = Head(ino[i].data) - 1 => StateIs(v)'
    BY <1>1, <2>1, <2>2, StateIsStays DEF OpeningGets
  <2>. QED BY <2>3, <2>4
<1>3. CASE Fork
  <2>1. pc = "fork" /\ dir' = dir /\ ino' = ino
    BY <1>3 DEF Fork, At, disk
  <2>2. StateIs(Head(ino[i].data) - 1)
    BY <1>1, <2>1 DEF PreviousContinued, Continued
  <2>. QED BY <2>1, <2>2 DEF StateIs, Missing
<1>. QED BY <1>1, <1>2, <1>3, RunningSteps

LEMMA SyncedData ==
  ASSUME Inv, NEW j, Sync(j), NEW i \in Inodes
  PROVE  ino'[i].data = ino[i].data
<1>1. [ino[i] EXCEPT !.synced = Len(ino[i].data)].data = ino[i].data
  BY DEF Inv, TypeOK, File
<1>2. ino'[i] = ino[i] \/ ino'[i] = [ino[i] EXCEPT !.synced = Len(ino[i].data)]
  BY DEF Inv, TypeOK, Sync
<1>. QED BY <1>1, <1>2

Told == pc \in {"p_mode", "n_sync", "p_unlink", "n_rename"} \/ (pc = "wait" /\ proc[crashes].phase = "done")

LEMMA ToldSteps ==
  ASSUME Inv, Next, Told'
  PROVE  /\ ~Kill /\ ~Outage /\ ~Write /\ crashes' = crashes
         /\ Told \/ (pc = "wait" /\ Succeeds(crashes))
<1>. USE DEF Inv
<1>0. crashes \in DOMAIN proc /\ DOMAIN proc' = DOMAIN proc /\ crashes \in Nat
  BY CrashesIsProcess, RunningSteps, CrashSteps
<1>1. ~Kill /\ ~Outage /\ ~Write
  BY WriteDoes DEF Kill, Outage, Died, Told
<1>2. crashes' = crashes
  BY <1>1, CrashSteps
<1>3. CASE pc' \in {"p_mode", "n_sync", "p_unlink", "n_rename"}
  BY <1>1, <1>2, <1>3, RotatingAt
  DEF Told, RenameCurrent, CreateCurrent, MarkPrevious, Fork, ProcessorFailed, ProcessorDone,
      MarkProcessed, SyncNewstate, UnlinkPrevious, At
<1>4. CASE pc' = "wait" /\ proc'[crashes].phase = "done"
  <2>1. ~Fork
    <3>1. [NoProcessor EXCEPT !.phase = "opening"].phase = "opening"
      BY DEF NoProcessor
    <3>2. Fork => proc'[crashes] = [NoProcessor EXCEPT !.phase = "opening"]
      BY <1>0 DEF Fork
    <3>. QED BY <1>4, <3>1, <3>2
  <2>2. pc = "wait"
    BY <1>4, <2>1, RotatingAt DEF RenameCurrent, CreateCurrent, MarkPrevious, ProcessorFailed, ProcessorDone,
       MarkProcessed, SyncNewstate, UnlinkPrevious, At
  <2>3. ~CannotOpen(crashes) /\ ~Fails(crashes)
    <3>1. [NoProcessor EXCEPT !.phase = "failed"].phase = "failed"
      BY DEF NoProcessor
    <3>. QED BY <1>0, <1>4, <3>1 DEF CannotOpen, Fails, Becomes
  <2>. QED BY <1>0, <1>1, <1>2, <1>4, <2>2, <2>3, RunningSteps DEF Told
<1>. QED BY <1>1, <1>2, <1>3, <1>4 DEF Told

LEMMA NewstateIsStep ==
  ASSUME Inv, Next, PreviousContinued, OutputsTold, NewstateIs
  PROVE  NewstateIs'
<1>. USE DEF Inv
<1>0. SUFFICES ASSUME Told' PROVE ino'[dir'["newstate"]].data = <<written'>>
  BY DEF NewstateIs, Told
<1>1. ~Kill /\ ~Outage /\ ~Write /\ written' = written
  BY <1>0, ToldSteps, WrittenSteps
<1>2. CASE Told
  <2>1. PICK s \in Inodes : s = dir["newstate"]
    BY <1>2, DirType DEF Told, Place, WhileRotating, Processed, Missing, Names
  <2>2. \A k \in DOMAIN proc : ~Opens(k)
    BY <1>2, OpensAt DEF Told, Opens
  <2>3. dir'["newstate"] = s
    <3>1. ~DropNewstate /\ ~RenameNewstate
      BY <1>0, <1>2 DEF Told, DropNewstate, Drop, RenameNewstate, At
    <3>. QED BY <2>1, <2>2, <3>1, NameSteps
  <2>4. ino'[s].data = ino[s].data
    <3>1. CASE SyncNewstate
      BY <3>1, SyncedData DEF SyncNewstate
    <3>2. ASSUME NEW k \in DOMAIN proc, Outputs(k), pc = "wait" \/ Restarting PROVE ino'[s].data = ino[s].data
      <4>1. proc[k].phase = "running" /\ k # crashes /\ pc = "wait"
        BY <1>2, <3>2 DEF Outputs, Told, Restarting
      <4>2. s # proc[k].out /\ s # proc[k].ns
        BY <2>1, <4>1 DEF Procs, Reach, Names
      <4>. QED BY <3>2, <4>2, OutputsDoes
    <3>. QED BY <1>1, <2>1, <2>2, <2>3, <3>1, <3>2, NamedSteps, InodeOrNone DEF NamedTouches, Missing, Names
  <2>5. ino[s].data = <<written>>
    BY <1>2, <2>1 DEF NewstateIs, Told
  <2>. QED BY <1>1, <2>3, <2>4, <2>5
<1>3. CASE pc = "wait" /\ Succeeds(crashes)
  <2>1. /\ crashes \in DOMAIN proc /\ proc[crashes].phase = "running"
        /\ dir["previous"] = proc[crashes].in /\ dir["newstate"] = proc[crashes].ns
        /\ proc[crashes].in \in Inodes /\ proc[crashes].ns \in Inodes
        /\ ino[proc[crashes].out].data = ino[proc[crashes].in].data
        /\ dir' = dir /\ Closed(crashes)
    BY <1>3, CrashesIsProcess DEF Succeeds, Procs, Reach, Phases
  <2>2. ino'[dir["newstate"]] = ino[dir["newstate"]]
    <3>1. Links(dir["newstate"]) # 0
      BY <2>1, LinksNone DEF Linked, Names
    <3>. QED BY <2>1, <3>1 DEF Closed
  <2>3. \A i : i = proc[crashes].in => ino[i].data # <<>> /\ ino[i].data[Len(ino[i].data)] = written
    BY <1>3, <2>1 DEF PreviousContinued, Continued
  <2>4. ino[proc[crashes].ns].data = <<written>>
    BY <2>1, <2>3 DEF OutputsTold, OutputTold
  <2>. QED BY <1>1, <2>1, <2>2, <2>4
<1>. QED BY <1>0, <1>2, <1>3, ToldSteps

(* What a processor starts with                                            *)
LEMMA OpensWith ==
  ASSUME Inv, NEW k \in DOMAIN proc, Opens(k)
  PROVE  /\ ino'[proc'[k].out].data = <<>>
         /\ ino'[proc'[k].in].data = ino[dir["previous"]].data
         /\ proc'[k].given = ino[dir["state"]].data
<1>1. PICK out, ns \in Inodes :
        /\ Gets("processed", out) /\ Gets("newstate", ns) /\ out # ns /\ ~Missing("previous")
        /\ dir' = [dir EXCEPT !["processed"] = out, !["newstate"] = ns]
        /\ \A i \in Inodes : ino'[i] = IF i \in {out, ns} THEN [Blank EXCEPT !.exec = ino[i].exec] ELSE ino[i]
        /\ Becomes(k, [phase |-> "running", in |-> dir["previous"], out |-> out, ns |-> ns,
                       given |-> ino[dir["state"]].data])
  BY OpensDoes
<1>2. proc'[k] = [phase |-> "running", in |-> dir["previous"], out |-> out, ns |-> ns,
                  given |-> ino[dir["state"]].data]
  <2>1. proc' = [proc EXCEPT ![k] = [phase |-> "running", in |-> dir["previous"], out |-> out, ns |-> ns,
                                     given |-> ino[dir["state"]].data]]
    BY <1>1 DEF Becomes
  <2>. QED BY <2>1 DEF Inv, TypeOK
<1>3. [Blank EXCEPT !.exec = ino[out].exec].data = <<>>
  BY DEF Blank
<1>4. proc'[k].in \in Inodes /\ proc'[k].in # out /\ proc'[k].in # ns
  BY <1>2, OpensHeld
<1>5. ino'[out].data = <<>>
  BY <1>1, <1>3
<1>6. proc'[k].out = out /\ proc'[k].in = dir["previous"] /\ proc'[k].given = ino[dir["state"]].data
  BY <1>2
<1>7. \A i \in Inodes : i # out /\ i # ns => ino'[i] = ino[i]
  BY <1>1
<1>8. \A i \in Inodes : i = dir["previous"] /\ i # out /\ i # ns => ino'[i].data = ino[dir["previous"]].data
  BY <1>7
<1>9. \A i \in Inodes : i = out => ino'[i].data = <<>>
  BY <1>5
<1>10. proc'[k].out \in Inodes
  BY <1>1, <1>6
<1>. QED BY <1>4, <1>6, <1>8, <1>9, <1>10

LEMMA OutputsToldStep ==
  ASSUME Inv, Next, OutputsTold
  PROVE  OutputsTold'
<1>. USE DEF Inv
<1>0. DOMAIN proc' = DOMAIN proc
  BY CrashesIsProcess, RunningSteps
<1>1. SUFFICES ASSUME NEW k \in DOMAIN proc, proc'[k].phase = "running" PROVE OutputTold(k)'
  BY <1>0 DEF OutputsTold
<1>2. CASE Opens(k)
  BY <1>2, OpensWith DEF OutputTold
<1>3. CASE proc'[k] = proc[k] /\ Outputs(k)
  <2>. DEFINE data == ino[proc[k].in].data
  <2>1. PICK n \in 1..Len(data) :
          ino'[proc[k].out].data = SubSeq(data, 1, n) /\ ino'[proc[k].ns].data = <<data[n]>>
    BY <1>3, OutputsDoes
  <2>2. data \in Seq(Nat) /\ Len(data) \in Nat
    BY <1>3, FileType DEF Procs, Phases, Outputs
  <2>. HIDE DEF data
  <2>3. Len(SubSeq(data, 1, n)) = n /\ SubSeq(data, 1, n)[n] = data[n]
    BY <2>1, <2>2
  <2>. QED BY <1>3, <2>1, <2>3 DEF OutputTold
<1>4. CASE proc'[k] = proc[k] /\ ~Outputs(k)
  <2>1. ino'[proc[k].out].data = ino[proc[k].out].data /\ ino'[proc[k].ns].data = ino[proc[k].ns].data
    BY <1>1, <1>4, HeldData
  <2>. QED BY <1>1, <1>4, <2>1 DEF OutputsTold, OutputTold
<1>. QED BY <1>1, <1>2, <1>3, <1>4, RunningSteps

LEMMA ProcessorStays ==
  ASSUME Next
  PROVE  processor' = processor
<1>1. CASE Restart \/ Finishing
  BY <1>1
  DEF Restart, Start, Resume, DropState, DropNewstate, DropPrevious, DropProcessed, Drop, FinishCurrent,
      EmptyState, CreateCurrent, Finishing, NoFile, AlreadyLinked, Link, LinkFails, UnlinkFinished,
      RemoveOldest, Fits, d
<1>2. CASE Rotation
  BY <1>2
  DEF Rotation, SyncCurrent, RenameCurrent, CreateCurrent, MarkPrevious, Fork, ProcessorFailed,
      ProcessorDone, MarkProcessed, SyncNewstate, UnlinkPrevious, RenameNewstate, d
<1>3. CASE Processors
  BY <1>3 DEF Processors, Opens, CannotOpen, Outputs, Succeeds, Fails, Processing, d
<1>. QED
  BY <1>1, <1>2, <1>3
  DEF Next, Multilog, Environment, Writing, WriteFull, Write, Flushed, Quitting, QuitSync, Quit, Put, Flush,
      ForceRotate, EndOfInput, Kill, Outage, Died, d

LEMMA NoScriptStep ==
  ASSUME Inv, Next, NoScript
  PROVE  NoScript'
<1>. USE DEF Inv
<1>0. SUFFICES ASSUME ~processor
               PROVE  /\ \A k \in DOMAIN proc' : proc'[k].phase = "none"
                      /\ pc' \notin {"fork", "wait", "p_mode", "n_sync", "p_unlink", "n_rename"}
                      /\ ~Missing("state")' => ino'[dir'["state"]].data = <<>>
  BY ProcessorStays DEF NoScript
<1>1. /\ \A k \in DOMAIN proc : proc[k].phase = "none"
      /\ pc \notin {"fork", "wait", "p_mode", "n_sync", "p_unlink", "n_rename"}
      /\ ~Missing("state") => ino[dir["state"]].data = <<>>
  BY <1>0 DEF NoScript
<1>2. pc' \notin {"fork", "wait", "p_mode", "n_sync", "p_unlink", "n_rename"}
  BY <1>0, <1>1, RotatingAt DEF RenameCurrent, CreateCurrent, MarkPrevious, Fork, ProcessorFailed, ProcessorDone,
     MarkProcessed, SyncNewstate, UnlinkPrevious, At
<1>3. ASSUME NEW k \in DOMAIN proc' PROVE proc'[k].phase = "none"
  <2>1. k \in DOMAIN proc
    BY CrashesIsProcess, RunningSteps
  <2>2. ~Fork /\ \A j \in DOMAIN proc : ~Opens(j) /\ ~CannotOpen(j) /\ ~Succeeds(j) /\ ~Fails(j)
    BY <1>1 DEF Fork, At, Opens, CannotOpen, Succeeds, Fails
  <2>3. proc'[k] = proc[k] \/ proc'[k] = NoProcessor
    BY <2>1, <2>2, PhaseSteps
  <2>. QED BY <1>1, <2>1, <2>3 DEF NoProcessor
<1>4. ~Missing("state")' => ino'[dir'["state"]].data = <<>>
  <2>1. ~RenameNewstate
    BY <1>1 DEF RenameNewstate, At
  <2>2. ASSUME ~Missing("state") PROVE ~(Len(ino[dir["state"]].data) > ino[dir["state"]].synced)
    <3>1. ino[dir["state"]].synced \in Nat /\ ino[dir["state"]].data = <<>>
      BY <1>1, <2>2, DirType, FileType DEF Missing, Names
    <3>2. Len(<<>>) = 0
      OBVIOUS
    <3>. QED BY <3>1, <3>2
  <2>. QED BY <1>1, <2>1, <2>2, StateSteps
<1>. QED BY <1>2, <1>3, <1>4

LEMMA StateFollowsStep ==
  ASSUME Inv, Next, OpeningGets, StateFollows
  PROVE  StateFollows'
<1>. USE DEF Inv
<1>0. DOMAIN proc' = DOMAIN proc
  BY CrashesIsProcess, RunningSteps
<1>1. SUFFICES ASSUME NEW k \in DOMAIN proc, proc'[k].phase = "running"
               PROVE  proc'[k].given = <<>> \/ proc'[k].given = <<Head(ino'[proc'[k].in].data) - 1>>
  BY <1>0 DEF StateFollows
<1>2. CASE Opens(k)
  <2>1. proc[k].phase = "opening" /\ dir["previous"] \in Inodes /\ ~Missing("state")
    BY <1>2, OpensHeld, DirType DEF Opens, Openable, Missing, Names
  <2>2. StateIs(Head(ino[dir["previous"]].data) - 1)
    BY <2>1 DEF OpeningGets
  <2>. QED BY <1>2, <2>1, <2>2, OpensWith DEF StateIs
<1>3. CASE proc'[k] = proc[k]
  <2>1. ino'[proc[k].in].data = ino[proc[k].in].data
    BY <1>1, <1>3, HeldData
  <2>. QED BY <1>1, <1>3, <2>1 DEF StateFollows
<1>. QED BY <1>1, <1>2, <1>3, RunningSteps

(* A processor is given nothing on descriptor 4, or the last byte that the *)
(* processor of the file before its own has seen: never what a run that    *)
(* failed, or that nobody waited for, has written to newstate.             *)
THEOREM CyclogStateFollows == Spec => []StateFollows
<1>1. Init => StateKept
  <2>1. SUFFICES ASSUME Init PROVE StateKept
    OBVIOUS
  <2>2. /\ pc = "stopped" /\ dir = [n \in Names |-> NoInode]
        /\ \A k \in DOMAIN proc : proc[k].phase = "none"
    BY <2>1 DEF Init, NoProcessor
  <2>3. Missing("state") /\ ~IsExec("current") /\ ~Reads
    BY <2>2 DEF Missing, Names, IsExec, Reads, InFinish
  <2>. QED BY <2>2, <2>3 DEF StateKept, CurrentContinued, CreatedContinued, NeverEmpty, NextEmpty,
           PreviousContinued, OpeningGets, NewstateIs, OutputsTold, NoScript, StateFollows
<1>2. Inv /\ StateKept /\ Next => StateKept'
  BY CurrentContinuedStep, CreatedContinuedStep, NeverEmptyStep, NextEmptyStep, PreviousContinuedStep,
     OpeningGetsStep, NewstateIsStep, OutputsToldStep, NoScriptStep, StateFollowsStep DEF StateKept
<1>3. Inv /\ StateKept /\ UNCHANGED vars => StateKept'
  BY DEF StateKept, CurrentContinued, CreatedContinued, NeverEmpty, NextEmpty, PreviousContinued,
         OpeningGets, NewstateIs, OutputsTold, OutputTold, NoScript, StateFollows, Continued, StateIs, Reads,
         InFinish, IsExec, Missing, vars, disk, d, buffered, counts
<1>4. StateKept => StateFollows
  BY DEF StateKept
<1>5. Inv /\ StateKept /\ [Next]_vars => StateKept'
  BY <1>2, <1>3
<1>. QED BY <1>1, <1>4, <1>5, CyclogInvariant, PTL DEF Spec

=============================================================================
