-------------------------------- MODULE Cyclog --------------------------------
(***************************************************************************)
(* One automatically rotated log of multilog (struct cyclog in multilog.c, *)
(* restart, c_write, fullcurrent, finish, filesfit, startprocessor and     *)
(* c_quit), its directory, and the processes that use it: multilog, the    *)
(* processor it forks, and processors that outlived a killed multilog.     *)
(*                                                                         *)
(* An action is one system call that changes the directory, so a kill or   *)
(* an outage may come between any two.  A call that fails is repeated      *)
(* after a pause, which changes nothing, but for link() (LinkFails).       *)
(* A kill loses the bytes in multilog's buffer; an outage also what was    *)
(* written to a file after its last fsync().  Directory operations and     *)
(* modes are taken to last in the order they were made, as multilog.8 asks *)
(* of the filesystem.                                                      *)
(*                                                                         *)
(* Byte k is the k-th one that the line loop puts into the log's buffer.   *)
(* The processor's output for a byte is that byte, and what it writes to   *)
(* descriptor 5 is the last byte it has seen.                              *)
(***************************************************************************)
EXTENDS Naturals, Sequences, FiniteSets

CONSTANTS
  Inodes,      \* bound: a file is made only while two of them are free
  NoInode,
  Size,        \* d->size, which sSIZE sets
  Margin,      \* the 2000 of c_write
  Num,         \* d->num, which nNUM sets
  Chunk,       \* the most bytes that one flush hands to c_write
  Newlines,    \* the bytes that are newlines
  Scripts,     \* values that d->processor may have: is one set?
  MaxInput,    \* bound: bytes of input
  MaxCrashes,  \* bound: kills and outages
  MaxFailures, \* bound: link() failing, processors failing
  MaxAlarms    \* bound: ALRM signals

Names == {"current", "previous", "processed", "state", "newstate"}

VARIABLES
  dir,         \* the inode of each of the names
  old,         \* the old log files @stamp.code, by stamp
  ino,         \* data, how much of it is synced, mode & 0100, and ...
               \* cut: an outage has truncated it
  fd, bytes,   \* d->fdcurrent, d->bytes
  processor,   \* d->processor # 0
  pc,          \* the next system call
  fin,         \* finish()'s arguments and where it returns to
  quitting,    \* in c_quit
  input,       \* bytes 1..input have been put into the buffer
  written,     \* bytes written+1..input are still there
  proc,        \* the processor of each multilog process, by its number
  lost, removed, \* bytes lost in a crash, bytes that filesfit removed
  crashes, failures, alarms

disk == <<dir, old, ino>>
d == <<fd, bytes, processor>>
buffered == <<input, written>>
counts == <<crashes, failures, alarms>>
vars == <<disk, d, pc, fin, quitting, buffered, proc, lost, removed, counts>>

ASSUME CyclogAssumption ==
  /\ Inodes \subseteq Nat /\ NoInode \notin Inodes
  /\ Size \in Nat /\ Margin \in Nat /\ 0 < Margin /\ Margin < Size
  /\ Num \in Nat /\ Num >= 2 /\ Chunk \in Nat /\ Chunk > 0
  /\ Newlines \subseteq Nat /\ Scripts \subseteq BOOLEAN /\ Scripts # {}
  /\ MaxInput \in Nat /\ MaxCrashes \in Nat /\ MaxFailures \in Nat /\ MaxAlarms \in Nat

Blank == [data |-> <<>>, synced |-> 0, exec |-> FALSE, cut |-> FALSE]
(* "opening" until execve(); in, out and ns are the descriptors 0, 1 and   *)
(* 5, given what descriptor 4 reads                                        *)
NoProcessor == [phase |-> "none", in |-> NoInode, out |-> NoInode, ns |-> NoInode, given |-> <<>>]
Codes == {"s", "u", "undefined"}

Bytes(i) == {ino[i].data[k] : k \in DOMAIN ino[i].data}
IsExec(n) == dir[n] # NoInode /\ ino[dir[n]].exec

(***************************************************************************)
(* Inodes: an inode is free when it has no link and nobody has it open     *)
(***************************************************************************)
Held(p) == {p.in, p.out, p.ns}
Links(i) == Cardinality({n \in Names : dir[n] = i}) + Cardinality({k \in DOMAIN old : old[k].ino = i})
IsOpen(i) == i = fd \/ \E k \in DOMAIN proc : i \in Held(proc[k])
Free == {i \in Inodes : Links(i) = 0 /\ ~IsOpen(i)}
NewInode == CHOOSE i \in Free : TRUE
HasRoom == Free # {} /\ Free # {NewInode}
(* the inodes after one link to i has gone                                 *)
Unlinked(i) == IF i # NoInode /\ Links(i) = 1 /\ ~IsOpen(i) THEN [ino EXCEPT ![i] = Blank] ELSE ino

Unlink(n) == /\ dir' = [dir EXCEPT ![n] = NoInode]
             /\ ino' = Unlinked(dir[n])

Sync(i) == ino' = [ino EXCEPT ![i].synced = Len(ino[i].data)]

At(here, next) == pc = here /\ pc' = next

-----------------------------------------------------------------------------
(***************************************************************************)
(* restart                                                                 *)
(***************************************************************************)
(* lock_exnb(fdlock): a processor shares the lock until its execve() closes *)
(* the descriptor                                                          *)
Unlocked == \A k \in DOMAIN proc : proc[k].phase # "opening"

Start ==
  /\ At("stopped", "open")
  /\ Unlocked
  /\ quitting' = FALSE
  /\ UNCHANGED <<disk, d, fin, buffered, proc, lost, removed, counts>>

(* current was closed safely: go on with it                                *)
Resume ==
  /\ At("open", "idle")
  /\ IsExec("current")
  /\ fd' = dir["current"]
  /\ bytes' = Len(ino[fd'].data)
  /\ ino' = [ino EXCEPT ![fd'].exec = FALSE]
  /\ UNCHANGED <<dir, old, processor, fin, quitting, buffered, proc, lost, removed, counts>>

Drop(n, here, next) ==
  /\ At(here, next)
  /\ Unlink(n)
  /\ UNCHANGED <<old, d, fin, quitting, buffered, proc, lost, removed, counts>>

DropState == ~IsExec("current") /\ Drop("state", "open", "r_newstate")

(* Mutant: the mode of processed is not looked at.                         *)
DropNewstate_exists ==
  Drop("newstate", "r_newstate", IF dir["processed"] # NoInode THEN "r_previous" ELSE "r_processed")

DropNewstate == Drop("newstate", "r_newstate", IF IsExec("processed") THEN "r_previous" ELSE "r_processed")

(* finish(file, code), to go on at next                                    *)
NotFinishing == [file |-> "previous", code |-> "u", next |-> "r_current"]
Finish(file, code, next) == fin' = [file |-> file, code |-> code, next |-> next]

DropPrevious ==
  /\ At("r_previous", "f_stat")
  /\ Unlink("previous")
  /\ Finish("processed", "s", "r_current")
  /\ UNCHANGED <<old, d, quitting, buffered, proc, lost, removed, counts>>
DropProcessed ==
  /\ At("r_processed", "f_stat")
  /\ Unlink("processed")
  /\ Finish("previous", "u", "r_current")
  /\ UNCHANGED <<old, d, quitting, buffered, proc, lost, removed, counts>>

FinishCurrent ==
  /\ At("r_current", "f_stat")
  /\ Finish("current", "u", "r_state")
  /\ UNCHANGED <<disk, d, quitting, buffered, proc, lost, removed, counts>>

(* open_trunc("state"), which has been unlinked                            *)
EmptyState ==
  /\ At("r_state", "create") /\ HasRoom
  /\ dir' = [dir EXCEPT !["state"] = NewInode]
  /\ ino' = [ino EXCEPT ![NewInode] = Blank]
  /\ UNCHANGED <<old, d, fin, quitting, buffered, proc, lost, removed, counts>>

(* open_append("current") in restart and in fullcurrent, where it has gone *)
CreateCurrent(here, next) ==
  /\ At(here, next) /\ HasRoom
  /\ fd' = NewInode /\ bytes' = 0
  /\ dir' = [dir EXCEPT !["current"] = fd']
  /\ ino' = [ino EXCEPT ![fd'] = Blank]
  /\ UNCHANGED <<old, processor, fin, quitting, buffered, proc, lost, removed, counts>>

-----------------------------------------------------------------------------
(***************************************************************************)
(* finish and filesfit                                                     *)
(***************************************************************************)
NoFile ==
  /\ At("f_stat", fin.next)
  /\ dir[fin.file] = NoInode
  /\ fin' = NotFinishing
  /\ UNCHANGED <<disk, d, quitting, buffered, proc, lost, removed, counts>>

AlreadyLinked ==
  /\ At("f_stat", "f_unlink")
  /\ dir[fin.file] # NoInode /\ Links(dir[fin.file]) # 1
  /\ UNCHANGED <<disk, d, fin, quitting, buffered, proc, lost, removed, counts>>

(* Mutant: the number of links is not looked at.                           *)
Link_again ==
  /\ At("f_stat", "f_unlink")
  /\ dir[fin.file] # NoInode
  /\ old' = Append(old, [ino |-> dir[fin.file], code |-> fin.code])
  /\ UNCHANGED <<dir, ino, d, fin, quitting, buffered, proc, lost, removed, counts>>

Link ==
  /\ At("f_stat", "f_unlink")
  /\ dir[fin.file] # NoInode /\ Links(dir[fin.file]) = 1
  /\ old' = Append(old, [ino |-> dir[fin.file], code |-> fin.code])
  /\ UNCHANGED <<dir, ino, d, fin, quitting, buffered, proc, lost, removed, counts>>

(* link() fails: the next try takes the code from behind the end of the    *)
(* string, where *code++ has left the pointer                              *)
LinkFails ==
  /\ pc = "f_stat" /\ UNCHANGED pc
  /\ dir[fin.file] # NoInode /\ Links(dir[fin.file]) = 1
  /\ failures < MaxFailures /\ failures' = failures + 1
  /\ fin' = [fin EXCEPT !.code = "undefined"]
  /\ UNCHANGED <<disk, d, quitting, buffered, proc, lost, removed, crashes, alarms>>

UnlinkFinished ==
  /\ At("f_unlink", "f_fit")
  /\ Unlink(fin.file)
  /\ UNCHANGED <<old, d, fin, quitting, buffered, proc, lost, removed, counts>>

(* Mutant: off by one.                                                     *)
TooMany_after == Len(old) > Num

(* filesfit() returns 0 after it has removed the oldest, and is called again *)
TooMany == Len(old) >= Num

RemoveOldest ==
  /\ pc = "f_fit" /\ UNCHANGED pc
  /\ TooMany
  /\ old' = Tail(old)
  /\ ino' = Unlinked(Head(old).ino)
  /\ removed' = removed \cup Bytes(Head(old).ino)
  /\ UNCHANGED <<dir, d, fin, quitting, buffered, proc, lost, counts>>

Fits ==
  /\ At("f_fit", fin.next)
  /\ ~TooMany
  /\ fin' = NotFinishing
  /\ UNCHANGED <<disk, d, quitting, buffered, proc, lost, removed, counts>>

-----------------------------------------------------------------------------
(***************************************************************************)
(* fullcurrent, which returns to c_write's caller, flushing the buffer     *)
(***************************************************************************)
(* Mutant: no fsync().                                                     *)
SyncCurrent_not ==
  At("sync", "rename") /\ UNCHANGED <<disk, d, fin, quitting, buffered, proc, lost, removed, counts>>

SyncCurrent ==
  /\ At("sync", "rename")
  /\ Sync(fd)
  /\ UNCHANGED <<dir, old, d, fin, quitting, buffered, proc, lost, removed, counts>>

RenameCurrent ==
  /\ At("rename", "recreate")
  /\ dir' = [dir EXCEPT !["previous"] = dir["current"], !["current"] = NoInode]
  /\ ino' = Unlinked(dir["previous"])
  /\ fd' = NoInode
  /\ UNCHANGED <<old, bytes, processor, fin, quitting, buffered, proc, lost, removed, counts>>

MarkPrevious ==
  /\ At("mode", IF processor THEN "fork" ELSE "f_stat")
  /\ ino' = [ino EXCEPT ![dir["previous"]].exec = TRUE]
  /\ IF processor THEN UNCHANGED fin ELSE Finish("previous", "s", "flush")
  /\ UNCHANGED <<dir, old, d, quitting, buffered, proc, lost, removed, counts>>

(* the processor of the multilog process that runs now                    *)
Reaped == proc' = [proc EXCEPT ![crashes] = NoProcessor]

Fork ==
  /\ At("fork", "wait")
  /\ proc' = [proc EXCEPT ![crashes] = [NoProcessor EXCEPT !.phase = "opening"]]
  /\ UNCHANGED <<disk, d, fin, quitting, buffered, lost, removed, counts>>

(* Mutant: newstate is kept although the run failed.                       *)
ProcessorFailed_saves ==
  /\ At("wait", "fork")
  /\ proc[crashes].phase = "failed" /\ Reaped
  /\ IF dir["newstate"] # NoInode
     THEN /\ dir' = [dir EXCEPT !["state"] = dir["newstate"], !["newstate"] = NoInode]
          /\ ino' = Unlinked(dir["state"])
     ELSE UNCHANGED <<dir, ino>>
  /\ UNCHANGED <<old, d, fin, quitting, buffered, lost, removed, counts>>

ProcessorFailed ==
  /\ At("wait", "fork")
  /\ proc[crashes].phase = "failed" /\ Reaped
  /\ UNCHANGED <<disk, d, fin, quitting, buffered, lost, removed, counts>>

(* exit code 0; open_append("processed") finds what the child has made     *)
ProcessorDone ==
  /\ At("wait", "p_mode")
  /\ proc[crashes].phase = "done" /\ Reaped
  /\ Sync(dir["processed"])
  /\ UNCHANGED <<dir, old, d, fin, quitting, buffered, lost, removed, counts>>

MarkProcessed ==
  /\ At("p_mode", "n_sync")
  /\ ino' = [ino EXCEPT ![dir["processed"]].exec = TRUE]
  /\ UNCHANGED <<dir, old, d, fin, quitting, buffered, proc, lost, removed, counts>>

SyncNewstate ==
  /\ At("n_sync", "p_unlink")
  /\ Sync(dir["newstate"])
  /\ UNCHANGED <<dir, old, d, fin, quitting, buffered, proc, lost, removed, counts>>

UnlinkPrevious ==
  /\ At("p_unlink", "n_rename")
  /\ Unlink("previous")
  /\ UNCHANGED <<old, d, fin, quitting, buffered, proc, lost, removed, counts>>

RenameNewstate ==
  /\ At("n_rename", "f_stat")
  /\ dir' = [dir EXCEPT !["state"] = dir["newstate"], !["newstate"] = NoInode]
  /\ ino' = Unlinked(dir["state"])
  /\ Finish("processed", "s", "flush")
  /\ UNCHANGED <<old, d, quitting, buffered, proc, lost, removed, counts>>

-----------------------------------------------------------------------------
(***************************************************************************)
(* The line loop's buffer, c_write, signals and c_quit                     *)
(***************************************************************************)
Pending == input - written

(* buffer_put, a byte at a time                                            *)
Put ==
  /\ pc = "idle" /\ ~quitting
  /\ Pending < Chunk /\ input < MaxInput
  /\ input' = input + 1
  /\ UNCHANGED <<disk, d, pc, fin, quitting, written, proc, lost, removed, counts>>

(* flushread, or a full buffer                                             *)
Flush ==
  /\ At("idle", "flush")
  /\ Pending > 0
  /\ UNCHANGED <<disk, d, fin, quitting, buffered, proc, lost, removed, counts>>

(* flagforcerotate is looked at when the buffer has been flushed           *)
ForceRotate ==
  /\ At("idle", "sync")
  /\ Pending = 0 /\ bytes > 0
  /\ alarms < MaxAlarms /\ alarms' = alarms + 1
  /\ UNCHANGED <<disk, d, fin, quitting, buffered, proc, lost, removed, crashes, failures>>

(* Mutant: c_quit does not flush.                                          *)
EndOfInput_unflushed ==
  /\ At("idle", "q_sync")
  /\ quitting' = TRUE
  /\ UNCHANGED <<disk, d, fin, buffered, proc, lost, removed, counts>>

(* the end of the input: doit() returns and c_quit() flushes               *)
EndOfInput ==
  /\ At("idle", "flush")
  /\ quitting' = TRUE
  /\ UNCHANGED <<disk, d, fin, buffered, proc, lost, removed, counts>>

Full == bytes >= Size

(* how much of the buffer c_write offers to write(): what still fits, and  *)
(* near the end of the file only up to the last newline, if there is one   *)
Ends(len) == {k \in 1..len : written + k \in Newlines}

Fitting == IF Pending >= Size - bytes THEN Size - bytes ELSE Pending

(* Mutant: the newline is not looked for.                                  *)
Offered_all == Fitting

Offered ==
  IF bytes + Fitting >= Size - Margin /\ Ends(Fitting) # {}
  THEN CHOOSE k \in Ends(Fitting) : \A j \in Ends(Fitting) : j <= k
  ELSE Fitting

(* c_write begins with a full file, or write() takes w bytes               *)
WriteFull ==
  /\ At("flush", "sync")
  /\ Pending > 0 /\ Full
  /\ UNCHANGED <<disk, d, fin, quitting, buffered, proc, lost, removed, counts>>

Write ==
  /\ pc = "flush" /\ Pending > 0 /\ ~Full
  /\ \E w \in 1..Offered :
       /\ ino' = [ino EXCEPT ![fd].data = @ \o [k \in 1..w |-> written + k]]
       /\ bytes' = bytes + w
       /\ written' = written + w
       /\ pc' = IF bytes' >= Size - Margin /\ written' \in Newlines THEN "sync" ELSE "flush"
  /\ UNCHANGED <<dir, old, fd, processor, fin, quitting, input, proc, lost, removed, counts>>

Flushed ==
  /\ At("flush", IF quitting THEN "q_sync" ELSE "idle")
  /\ Pending = 0
  /\ UNCHANGED <<disk, d, fin, quitting, buffered, proc, lost, removed, counts>>

QuitSync ==
  /\ At("q_sync", "q_mode")
  /\ Sync(fd)
  /\ UNCHANGED <<dir, old, d, fin, quitting, buffered, proc, lost, removed, counts>>

(* fchmod(fdcurrent,0744), and multilog exits                              *)
Quit ==
  /\ At("q_mode", "stopped")
  /\ ino' = [ino EXCEPT ![fd].exec = TRUE]
  /\ fd' = NoInode /\ bytes' = 0
  /\ UNCHANGED <<dir, old, processor, fin, quitting, buffered, proc, lost, removed, counts>>

-----------------------------------------------------------------------------
(***************************************************************************)
(* startprocessor and the script it runs, k being the multilog process     *)
(* that forked it: after a kill nobody waits for it                        *)
(***************************************************************************)
Becomes(k, p) ==
  proc' = [proc EXCEPT ![k] = IF k # crashes /\ p.phase \in {"done", "failed"} THEN NoProcessor ELSE p]

Processing == UNCHANGED <<old, d, pc, fin, quitting, buffered, lost, removed, crashes, alarms>>

(* open_trunc keeps a file that is there                                   *)
FreeBut(i) == CHOOSE j \in Free \ {i} : TRUE
Emptied(n, i) == IF dir[n] # NoInode THEN dir[n] ELSE i
Openable == dir["previous"] # NoInode /\ dir["state"] # NoInode

Opens(k) ==
  /\ proc[k].phase = "opening" /\ Openable /\ HasRoom
  /\ LET out == Emptied("processed", NewInode)
         ns == Emptied("newstate", FreeBut(out))
     IN /\ dir' = [dir EXCEPT !["processed"] = out, !["newstate"] = ns]
        /\ ino' = [i \in Inodes |-> IF i \in {out, ns} THEN [Blank EXCEPT !.exec = ino[i].exec] ELSE ino[i]]
        /\ Becomes(k, [phase |-> "running", in |-> dir["previous"], out |-> out, ns |-> ns,
                       given |-> ino[dir["state"]].data])
  /\ UNCHANGED failures /\ Processing

CannotOpen(k) ==
  /\ proc[k].phase = "opening" /\ ~Openable
  /\ Becomes(k, [NoProcessor EXCEPT !.phase = "failed"])
  /\ UNCHANGED <<dir, ino, failures>> /\ Processing

Outputs(k) ==
  /\ proc[k].phase = "running"
  /\ LET data == ino[proc[k].in].data
     IN \E n \in Len(ino[proc[k].out].data) + 1 .. Len(data) :
          ino' = [ino EXCEPT ![proc[k].out].data = SubSeq(data, 1, n), ![proc[k].ns].data = <<data[n]>>]
  /\ UNCHANGED <<dir, proc, failures>> /\ Processing

(* the inodes when processor k has closed its files                        *)
Closed(k) == ino' = [i \in Inodes |-> IF i \in Held(proc[k]) /\ Links(i) = 0 THEN Blank ELSE ino[i]]

Succeeds(k) ==
  /\ proc[k].phase = "running"
  /\ ino[proc[k].out].data = ino[proc[k].in].data
  /\ Becomes(k, [NoProcessor EXCEPT !.phase = "done"])
  /\ Closed(k)
  /\ UNCHANGED <<dir, failures>> /\ Processing

(* a nonzero exit code or a signal                                         *)
Fails(k) ==
  /\ proc[k].phase = "running"
  /\ failures < MaxFailures /\ failures' = failures + 1
  /\ Becomes(k, [NoProcessor EXCEPT !.phase = "failed"])
  /\ Closed(k)
  /\ UNCHANGED dir /\ Processing

Processors == \E k \in DOMAIN proc : Opens(k) \/ CannotOpen(k) \/ Outputs(k) \/ Succeeds(k) \/ Fails(k)

-----------------------------------------------------------------------------
(***************************************************************************)
(* Kills and outages                                                       *)
(***************************************************************************)
(* the log as it would be read: old files, what is being finished, current *)
Unfinished == IF IsExec("processed") THEN dir["processed"] ELSE dir["previous"]
IsOld(i) == \E k \in DOMAIN old : old[k].ino = i
IfNew(i) == IF i # NoInode /\ ~IsOld(i) THEN <<i>> ELSE <<>>
LogFiles == [k \in DOMAIN old |-> old[k].ino] \o IfNew(Unfinished) \o IfNew(dir["current"])
Logged == UNION {Bytes(LogFiles[k]) : k \in DOMAIN LogFiles}

(* the process is gone, and what it had in memory                          *)
Died ==
  /\ pc' = "stopped" /\ quitting' = FALSE /\ fin' = NotFinishing
  /\ fd' = NoInode /\ bytes' = 0
  /\ written' = input
  /\ crashes < MaxCrashes /\ crashes' = crashes + 1
  /\ UNCHANGED <<dir, old, processor, input, removed, failures, alarms>>

Kill ==
  /\ pc # "stopped"
  /\ Died
  /\ lost' = lost \cup (written + 1 .. input)
  /\ IF proc[crashes].phase \in {"done", "failed"} THEN Reaped ELSE UNCHANGED proc
  /\ UNCHANGED ino

(* the files in torn lose what was not synced                              *)
Unsynced == {i \in Inodes : ino[i].synced < Len(ino[i].data)}
Torn(i) == [ino[i] EXCEPT !.data = SubSeq(@, 1, ino[i].synced), !.cut = TRUE]

Outage ==
  /\ Died
  /\ \E torn \in SUBSET Unsynced :
       ino' = [i \in Inodes |-> IF Links(i) = 0 THEN Blank ELSE IF i \in torn THEN Torn(i) ELSE ino[i]]
  /\ proc' = [k \in DOMAIN proc |-> NoProcessor]
  /\ lost' = lost \cup (written + 1 .. input) \cup (Logged \ Logged')

-----------------------------------------------------------------------------
Init ==
  /\ dir = [n \in Names |-> NoInode] /\ old = <<>> /\ ino = [i \in Inodes |-> Blank]
  /\ fd = NoInode /\ bytes = 0 /\ processor \in Scripts
  /\ pc = "stopped" /\ quitting = FALSE
  /\ fin = NotFinishing
  /\ input = 0 /\ written = 0
  /\ proc = [k \in 0..MaxCrashes |-> NoProcessor]
  /\ lost = {} /\ removed = {}
  /\ crashes = 0 /\ failures = 0 /\ alarms = 0

Restart == \/ Start \/ Resume \/ DropState \/ DropNewstate \/ DropPrevious \/ DropProcessed
           \/ FinishCurrent \/ EmptyState \/ CreateCurrent("create", "idle")
Finishing == NoFile \/ AlreadyLinked \/ Link \/ LinkFails \/ UnlinkFinished \/ RemoveOldest \/ Fits
Rotation == \/ SyncCurrent \/ RenameCurrent \/ CreateCurrent("recreate", "mode") \/ MarkPrevious
            \/ Fork \/ ProcessorFailed \/ ProcessorDone \/ MarkProcessed \/ SyncNewstate
            \/ UnlinkPrevious \/ RenameNewstate
Writing == WriteFull \/ Write \/ Flushed
Quitting == QuitSync \/ Quit
Multilog == Restart \/ Finishing \/ Rotation \/ Writing \/ Quitting
Environment == Put \/ Flush \/ ForceRotate \/ EndOfInput \/ Kill \/ Outage

Next == Multilog \/ Processors \/ Environment
Spec == Init /\ [][Next]_vars

-----------------------------------------------------------------------------
(***************************************************************************)
(* Properties                                                              *)
(***************************************************************************)
File == [data : Seq(Nat), synced : Nat, exec : BOOLEAN, cut : BOOLEAN]
Process == [phase : {"none", "opening", "running", "done", "failed"}, in : Inodes \cup {NoInode},
            out : Inodes \cup {NoInode}, ns : Inodes \cup {NoInode}, given : Seq(Nat)]
Places == {"stopped", "open", "idle", "r_newstate", "r_previous", "r_processed", "r_current",
           "r_state", "create", "f_stat", "f_unlink", "f_fit", "flush", "sync", "rename",
           "recreate", "mode", "fork", "wait", "p_mode", "n_sync", "p_unlink", "n_rename",
           "q_sync", "q_mode"}

(* Every variable has its type; d->bytes never exceeds d->size, or c_write *)
(* would compute a length from a negative difference.                      *)
TypeOK ==
  /\ dir \in [Names -> Inodes \cup {NoInode}]
  /\ old \in Seq([ino : Inodes, code : Codes]) /\ ino \in [Inodes -> File]
  /\ fd \in Inodes \cup {NoInode} /\ bytes \in 0..Size /\ processor \in BOOLEAN
  /\ pc \in Places /\ quitting \in BOOLEAN
  /\ fin \in [file : Names, code : Codes, next : Places]
  /\ input \in 0..MaxInput /\ written \in 0..input
  /\ proc \in [0..MaxCrashes -> Process]
  /\ lost \subseteq 1..MaxInput /\ removed \subseteq 1..MaxInput
  /\ crashes \in 0..MaxCrashes /\ failures \in 0..MaxFailures /\ alarms \in 0..MaxAlarms

(* Wherever multilog or the processor is killed, each byte that was        *)
(* written is still in the log, unless filesfit removed it in its turn.    *)
NothingLost == 1..written = lost \cup removed \cup Logged

(* The old files by their stamps, the file being finished and current hold *)
(* the input in order and once, and nothing older than what filesfit       *)
(* removed: a kill between link() and unlink(), or with both previous and  *)
(* processed there, duplicates nothing.                                    *)
Increasing(data) == \A j, k \in DOMAIN data : j < k => data[j] < data[k]
InOrder ==
  /\ \A k \in DOMAIN LogFiles : Increasing(ino[LogFiles[k]].data)
  /\ \A j, k \in DOMAIN LogFiles : j < k =>
       \A a \in Bytes(LogFiles[j]), b \in Bytes(LogFiles[k]) : a < b
  /\ \A r \in removed, b \in Logged : r < b

(* A file with the code s is safely on disk and no outage truncated it     *)
(* (multilog.8: "completely processed and safely written to disk").        *)
SafelyWritten ==
  \A k \in DOMAIN old : old[k].code = "s" =>
    ino[old[k].ino].synced = Len(ino[old[k].ino].data) /\ ~ino[old[k].ino].cut

(* current has mode 744 only when multilog has ended safely: all input is  *)
(* written and synced and no rotation is left half done, for restart looks *)
(* at nothing else then.                                                   *)
ExecMeansSafe ==
  IsExec("current") =>
    /\ pc \in {"stopped", "open"} /\ written = input
    /\ ino[dir["current"]].synced = Len(ino[dir["current"]].data) /\ ~ino[dir["current"]].cut
    /\ dir["previous"] = NoInode /\ dir["processed"] = NoInode /\ dir["newstate"] = NoInode

(* While multilog runs its descriptor is current's, of mode 644, and       *)
(* d->bytes is that file's length, also after a restart: rotation depends  *)
(* on it, and a write goes into no other file.                             *)
WritesCurrent ==
  pc \in {"idle", "flush", "sync", "q_sync", "q_mode"} =>
    /\ fd # NoInode /\ fd = dir["current"] /\ Links(fd) = 1 /\ ~ino[fd].exec
    /\ bytes = Len(ino[fd].data)

(* There are fewer than num old files while lines are written, and one     *)
(* more during a rotation; a kill between unlink() and filesfit() leaves   *)
(* one more until the next rotation.                                       *)
OldBounded ==
  /\ Len(old) <= Num + crashes
  /\ pc \in {"idle", "flush"} => Len(old) < Num + crashes

(* multilog finishes a file at the end of a line unless it is full and its *)
(* last line is longer than the margin, however short the writes are; only *)
(* ALRM is an exception.                                                   *)
AtLineEnd ==
  \A k \in DOMAIN old : old[k].code = "s" /\ alarms = 0 =>
    LET data == ino[old[k].ino].data IN
    \/ data[Len(data)] \in Newlines
    \/ Len(data) = Size /\ \A j \in Size - Margin .. Size : data[j] \notin Newlines

(* A processor reads from descriptor 4 nothing or what the processor of    *)
(* the file just before wrote, never what a failed or repeated run did.    *)
StateFollows ==
  \A k \in DOMAIN proc : proc[k].phase = "running" =>
    proc[k].given = <<>> \/ proc[k].given = <<Head(ino[proc[k].in].data) - 1>>

(* multilog.8: each old log file has a name "ending with one of the        *)
(* following codes", .s and .u.                                            *)
CodesKnown == \A k \in DOMAIN old : old[k].code \in {"s", "u"}

=============================================================================
