-------------------------------- MODULE Svscan --------------------------------
(***************************************************************************)
(* One svscan process (svscan.c): it scans a directory, keeps a supervise  *)
(* process for each subdirectory, and another for the subdirectory's log   *)
(* with a pipe between the two; after SIGTERM it stops them and exits.     *)
(*                                                                         *)
(* svscan is one thread that SIGTERM may interrupt anywhere: its steps are *)
(* the children that doit() collects, the stat() and the two halves of     *)
(* start() for each name readdir() returns, and the turns of doit()'s last *)
(* loop.  The scan directory changes and supervise processes end meanwhile.*)
(* A name stands for a directory entry that start() looks at (none with a  *)
(* leading dot but the log service), a directory for its device and inode  *)
(* (several names may be links to one).  svscan recognises a directory by  *)
(* what stat() said of a name, but hands its child the name: the child     *)
(* looks it up again in its chdir(), and may find another directory or     *)
(* none.  Indices into x start at 1.                                       *)
(***************************************************************************)
EXTENDS Integers, Sequences, FiniteSets

CONSTANTS
  Names,       \* the names of entries
  Dirs,        \* directories
  NoDir,       \* no entry, or one that is not a directory
  Logged,      \* the directories with a subdirectory log
  logdir,      \* the name of the log service, or NoName
  NoName,
  Pids,
  NoPid,       \* the value 0 of x[i].pid
  Pipes,       \* pipes that svscan may create
  NoPipe,
  SERVICES,    \* the most entries of x
  MaxEdits,    \* bound: changes of the directory
  MaxFailures, \* bound: system calls that fail
  Changes      \* which there are: "appear", "vanish", "replace"

VARIABLES
  entry,       \* the directory that each name is, now
  x, logx, all_stopped, exit_asap,
  redirected,  \* svscan's output goes into logpipe
  pc,          \* where svscan is
  fn, st,      \* start()'s name and the directory that stat() found it to be
  cur,         \* the index i of start() and of doit()'s last loop
  unread, due, \* names that readdir() may still return; those it has to
  child,       \* svscan's children
  edits, failures,
  gone         \* directories that have lost a name

scan == <<x, logx, all_stopped, exit_asap, redirected, pc, fn, st, cur, unread, due>>
vars == <<entry, scan, child, edits, failures, gone>>

Roles == {"main", "log"}
Entry == [dir : Dirs, flagactive : BOOLEAN, flaglog : BOOLEAN,
          pid : Pids \cup {NoPid}, pidlog : Pids \cup {NoPid}, pi : Pipes \cup {NoPipe}]
(* "dir": what the directory of its entry in x was when it was forked;     *)
(* "name": what it still has to enter; "at": the directory that it entered *)
(* (a log's supervise is in the directory log of that one); "reads": its   *)
(* standard input is svscan's log pipe                                     *)
Child == [state : {"none", "live", "zombie"}, dir : Dirs, role : Roles,
          name : Names \cup {NoName}, at : Dirs \cup {NoDir},
          pipe : Pipes \cup {NoPipe}, reads : BOOLEAN, termed : BOOLEAN]

ASSUME SvscanAssumption ==
  /\ NoDir \notin Dirs /\ NoPid \notin Pids /\ NoPipe \notin Pipes /\ NoName \notin Names
  /\ Dirs # {} /\ Logged \subseteq Dirs
  /\ logdir \in Names \cup {NoName}
  /\ SERVICES \in Nat /\ MaxEdits \in Nat /\ MaxFailures \in Nat 
  /\ Changes \subseteq {"appear", "vanish", "replace"}

NoChild == [state |-> "none", dir |-> CHOOSE d \in Dirs : TRUE, role |-> "main",
            name |-> NoName, at |-> NoDir, pipe |-> NoPipe, reads |-> FALSE, termed |-> FALSE]

-----------------------------------------------------------------------------
(* System calls *)

Fails    == failures < MaxFailures /\ failures' = failures + 1
Succeeds == UNCHANGED failures

Unused  == {p \in Pids : child[p].state = "none"}
Zombies == {p \in Pids : child[p].state = "zombie"}

(* A pipe is free when nobody holds an end of it.                          *)
FreePipes == {q \in Pipes : /\ \A i \in DOMAIN x : x[i].pi # q
                            /\ \A p \in Pids : child[p].pipe # q}

Supervise(d, role, name, pipe, reads) ==
  [state |-> "live", dir |-> d, role |-> role, name |-> name, at |-> NoDir,
   pipe |-> pipe, reads |-> reads, termed |-> FALSE]

Kill(p) == child' = [child EXCEPT ![p].termed = @ \/ child[p].state = "live"]

-----------------------------------------------------------------------------
(* start(): its first stat(), from the place main on the table and the     *)
(* service, from half on the log; then after follows                       *)

(* Mutant: the last entry is not compared.                                 *)
Known_butlast(d) == \E i \in 1..Len(x) - 1 : x[i].dir = d

Known(d) == \E i \in DOMAIN x : x[i].dir = d
Index(d) == IF Known(d) THEN CHOOSE i \in DOMAIN x : x[i].dir = d ELSE Len(x) + 1
Full(d)  == ~Known(d) /\ Len(x) >= SERVICES

Return(after) == pc' = after /\ fn' = NoName /\ st' = NoDir

(* x is full, or stat() fails, if start() returns here.                    *)
Stat(n, main, after) ==
  /\ \/ /\ ~Full(entry[n]) /\ pc' = main /\ fn' = n /\ st' = entry[n] /\ Succeeds
     \/ Full(entry[n]) /\ Return(after) /\ Succeeds
     \/ Return(after) /\ Fails
  /\ UNCHANGED <<x, all_stopped, cur, child>>

(* The second stat(), of fn/log: fn may be another directory by now.       *)
LogSeen    == entry[fn] \in Logged
NoPipeLeft == LogSeen /\ FreePipes = {}

(* x with the directory found or added, and active                         *)
Table ==
  IF Known(st) THEN [x EXCEPT ![Index(st)].flagactive = TRUE]
  ELSE Append(x, [dir |-> st, flagactive |-> TRUE, flaglog |-> LogSeen,
                  pid |-> NoPid, pidlog |-> NoPid,
                  pi |-> IF LogSeen THEN CHOOSE q \in FreePipes : TRUE ELSE NoPipe])

(* start() returns before the directory is in x: the stat() of fn/log or   *)
(* the pipe() fails.                                                       *)
StartSkips(main, after) ==
  /\ pc = main /\ ~Known(st) /\ Return(after)
  /\ ((entry[fn] = NoDir \/ NoPipeLeft) /\ Succeeds) \/ Fails
  /\ UNCHANGED <<x, all_stopped, cur, child>>

StartMain(main, half, after) ==
  LET i == Index(st)
      y == Table
  IN  /\ pc = main /\ (Known(st) \/ ~NoPipeLeft)
      /\ cur' = i
      /\ \/ /\ y[i].pid = NoPid /\ ~exit_asap
            /\ \E p \in Unused :
                 /\ child' = [child EXCEPT ![p] = Supervise(st, "main", fn, y[i].pi, i = logx)]
                 /\ x' = [y EXCEPT ![i].pid = p]
            /\ all_stopped' = FALSE /\ pc' = half /\ Succeeds /\ UNCHANGED <<fn, st>>
         \/ /\ y[i].pid = NoPid /\ ~exit_asap /\ Fails
            /\ x' = y /\ Return(after) /\ UNCHANGED <<all_stopped, child>>
         \/ /\ y[i].pid = NoPid /\ exit_asap
            /\ x' = y /\ pc' = half /\ Succeeds /\ UNCHANGED <<fn, st, all_stopped, child>>
         \/ /\ y[i].pid # NoPid
            /\ x' = y /\ pc' = half /\ all_stopped' = FALSE /\ Succeeds /\ UNCHANGED <<fn, st>>
            /\ IF exit_asap THEN Kill(y[i].pid) ELSE UNCHANGED child

(* Mutants: the log gets its SIGTERM together with the main supervise, or  *)
(* never.                                                                  *)
TermsLog_now(e)   == exit_asap
TermsLog_never(e) == FALSE

TermsLog(e) == exit_asap /\ e.pid = NoPid

(* Mutant: a running log does not keep svscan.                             *)
KeepLog_uncounted(e) ==
  UNCHANGED all_stopped /\ IF TermsLog(e) THEN Kill(e.pidlog) ELSE UNCHANGED child

KeepLog(e) ==
  all_stopped' = FALSE /\ IF TermsLog(e) THEN Kill(e.pidlog) ELSE UNCHANGED child

StartLog(half, after) ==
  LET e == x[cur]
  IN  /\ pc = half /\ Return(after) /\ cur' = 1
      /\ \/ /\ e.flaglog /\ e.pidlog = NoPid /\ ~exit_asap
            /\ \E p \in Unused : /\ child' = [child EXCEPT ![p] = Supervise(e.dir, "log", fn, e.pi, FALSE)]
                                 /\ x' = [x EXCEPT ![cur].pidlog = p]
            /\ all_stopped' = FALSE /\ Succeeds
         \/ /\ e.flaglog /\ e.pidlog = NoPid /\ ~exit_asap /\ Fails
            /\ UNCHANGED <<x, child, all_stopped>>
         \/ /\ e.flaglog /\ e.pidlog # NoPid /\ KeepLog(e)
            /\ UNCHANGED x /\ Succeeds
         \/ /\ ~e.flaglog \/ (e.pidlog = NoPid /\ exit_asap)
            /\ Succeeds /\ UNCHANGED <<x, child, all_stopped>>

-----------------------------------------------------------------------------
(* main() and start_log() *)

Init ==
  /\ entry \in [Names -> Dirs \cup {NoDir}]
  /\ x = <<>> /\ logx = 0 /\ all_stopped = TRUE /\ exit_asap = FALSE /\ redirected = FALSE
  /\ pc = "boot" /\ fn = NoName /\ st = NoDir /\ cur = 1 /\ unread = {} /\ due = {}
  /\ child = [p \in Pids |-> NoChild]
  /\ edits = 0 /\ failures = 0 /\ gone = {}

LogNamed == logdir # NoName /\ entry[logdir] # NoDir

BootAlone ==
  /\ pc = "boot" /\ ~LogNamed /\ pc' = "reap"
  /\ UNCHANGED <<entry, x, logx, all_stopped, exit_asap, redirected, fn, st, cur, unread, due,
                 child, edits, failures, gone>>

(* pipe(logpipe); if it fails svscan dies.                                 *)
BootPipe ==
  /\ pc = "boot" /\ LogNamed
  /\ \/ pc' = "bootstat" /\ logx' = Len(x) + 1 /\ Succeeds
     \/ pc' = "done" /\ UNCHANGED logx /\ Fails
  /\ UNCHANGED <<entry, x, all_stopped, exit_asap, redirected, fn, st, cur, unread, due,
                 child, edits, gone>>

BootStat ==
  /\ pc = "bootstat"
  /\ \/ LogNamed /\ Stat(logdir, "bootmain", "reap")
     \/ /\ ~LogNamed /\ Return("reap") /\ Succeeds
        /\ UNCHANGED <<x, all_stopped, cur, child>>
  /\ UNCHANGED <<entry, logx, exit_asap, redirected, unread, due, edits, gone>>

BootMain ==
  /\ StartMain("bootmain", "bootlog", "reap") \/ StartSkips("bootmain", "reap")
  /\ redirected' = (logx \in DOMAIN x' /\ x'[logx].pid # NoPid)
  /\ UNCHANGED <<entry, logx, exit_asap, unread, due, edits, gone>>

BootLog ==
  /\ StartLog("bootlog", "reap")
  /\ UNCHANGED <<entry, logx, exit_asap, redirected, unread, due, edits, gone>>

(* The end of a turn.  A new one begins with all_stopped = 1, which the    *)
(* first step of doit() sets.                                              *)
Test ==
  /\ pc = "test"
  /\ pc' = IF all_stopped THEN "done" ELSE "reap"
  /\ UNCHANGED <<entry, x, logx, all_stopped, exit_asap, redirected, fn, st, cur, unread, due,
                 child, edits, failures, gone>>

-----------------------------------------------------------------------------
(* doit() *)

(* Mutant: only the log's pid is forgotten.                                *)
Collected_log(p) == [i \in DOMAIN x |-> [x[i] EXCEPT !.pidlog = IF @ = p THEN NoPid ELSE @]]

Collected(p) ==
  [i \in DOMAIN x |-> [x[i] EXCEPT !.pid = IF @ = p THEN NoPid ELSE @,
                                   !.pidlog = IF @ = p THEN NoPid ELSE @]]

Reap(p) ==
  /\ pc = "reap" /\ p \in Zombies
  /\ x' = Collected(p)
  /\ child' = [child EXCEPT ![p] = NoChild]
  /\ UNCHANGED <<entry, logx, all_stopped, exit_asap, redirected, pc, fn, st, cur, unread, due,
                 edits, failures, gone>>

(* No more children: opendir() succeeds, or doit() returns.                *)
OpenDir ==
  /\ pc = "reap" /\ Zombies = {}
  /\ all_stopped' = TRUE
  /\ x' = [i \in DOMAIN x |-> [x[i] EXCEPT !.flagactive = FALSE]]
  /\ \/ /\ pc' = "scan" /\ Succeeds
        /\ unread' = Names /\ due' = {n \in Names : entry[n] # NoDir}
     \/ pc' = "test" /\ Fails /\ UNCHANGED <<unread, due>>
  /\ UNCHANGED <<entry, logx, exit_asap, redirected, fn, st, cur, child, edits, gone>>

ReadDir(n) ==
  /\ pc = "scan" /\ n \in unread /\ entry[n] # NoDir
  /\ unread' = unread \ {n} /\ due' = due \ {n}
  /\ Stat(n, "scanmain", "scan")
  /\ UNCHANGED <<entry, logx, exit_asap, redirected, edits, gone>>

ScanMain ==
  /\ StartMain("scanmain", "scanlog", "scan") \/ StartSkips("scanmain", "scan")
  /\ UNCHANGED <<entry, logx, exit_asap, redirected, unread, due, edits, gone>>

ScanLog ==
  /\ StartLog("scanlog", "scan")
  /\ UNCHANGED <<entry, logx, exit_asap, redirected, unread, due, edits, gone>>

(* readdir() returns every entry that was there all the time, or fails.    *)
ReadEnd ==
  /\ pc = "scan"
  /\ \/ due = {} /\ pc' = "prune" /\ cur' = 1 /\ Succeeds
     \/ pc' = "test" /\ Fails /\ UNCHANGED cur
  /\ unread' = {} /\ due' = {}
  /\ UNCHANGED <<entry, x, logx, all_stopped, exit_asap, redirected, fn, st, child, edits, gone>>

(* Mutants: an entry is deleted although its main or log supervise runs.   *)
Idle_main(e) == ~e.flagactive /\ e.pidlog = NoPid
Idle_log(e)  == ~e.flagactive /\ e.pid = NoPid

Idle(e) == ~e.flagactive /\ e.pid = NoPid /\ e.pidlog = NoPid

(* One turn of the loop that deletes entries                               *)
Prune ==
  /\ pc = "prune"
  /\ \/ cur > Len(x) /\ pc' = "test" /\ cur' = 1 /\ UNCHANGED x
     \/ /\ cur <= Len(x) /\ Idle(x[cur])
        /\ x' = SubSeq([x EXCEPT ![cur] = x[Len(x)]], 1, Len(x) - 1)
        /\ UNCHANGED <<pc, cur>>
     \/ cur <= Len(x) /\ ~Idle(x[cur]) /\ cur' = cur + 1 /\ UNCHANGED <<x, pc>>
  /\ UNCHANGED <<entry, logx, all_stopped, exit_asap, redirected, fn, st, unread, due, child,
                 edits, failures, gone>>

-----------------------------------------------------------------------------
(* The environment *)

catch_sig ==
  /\ pc \notin {"boot", "bootstat", "bootmain", "bootlog", "done"} /\ ~exit_asap
  /\ exit_asap' = TRUE
  /\ UNCHANGED <<entry, x, logx, all_stopped, redirected, pc, fn, st, cur, unread, due, child,
                 edits, failures, gone>>

Ended(p) == [child EXCEPT ![p] = [NoChild EXCEPT !.state = "zombie", !.dir = child[p].dir,
                                                 !.role = child[p].role]]

(* A supervise ends; for one thing because another has the directory's     *)
(* lock, which is the subject of module Startup.                           *)
ChildExits(p) ==
  /\ child[p].state = "live" /\ child' = Ended(p)
  /\ UNCHANGED <<entry, scan, edits, failures, gone>>

Found(p) == entry[child[p].name]

(* The chdir() of a new child: to fn, and for a log to log in it.          *)
ChildEnters(p) ==
  /\ child[p].state = "live" /\ child[p].name # NoName
  /\ child' = IF Found(p) \in (IF child[p].role = "main" THEN Dirs ELSE Logged)
              THEN [child EXCEPT ![p].at = Found(p), ![p].name = NoName]
              ELSE Ended(p)
  /\ UNCHANGED <<entry, scan, edits, failures, gone>>

Change(old, new) == CASE old = NoDir -> "appear" [] new = NoDir -> "vanish" [] OTHER -> "replace"

Edit(n) ==
  /\ edits < MaxEdits /\ edits' = edits + 1 /\ pc # "done"
  /\ \E d \in (Dirs \cup {NoDir}) \ {entry[n]} :
       Change(entry[n], d) \in Changes /\ entry' = [entry EXCEPT ![n] = d]
  /\ gone' = gone \cup ({entry[n]} \ {NoDir})
  /\ due' = due \ {n}
  /\ UNCHANGED <<x, logx, all_stopped, exit_asap, redirected, pc, fn, st, cur, unread, child, failures>>

Gone == pc = "done" /\ UNCHANGED vars

-----------------------------------------------------------------------------
Step == \/ BootAlone \/ BootPipe \/ BootStat \/ BootMain \/ BootLog \/ Test
        \/ (\E p \in Pids : Reap(p)) \/ OpenDir \/ (\E n \in Names : ReadDir(n))
        \/ ScanMain \/ ScanLog \/ ReadEnd \/ Prune

Next == \/ Step \/ catch_sig \/ Gone
        \/ \E p \in Pids : ChildEnters(p) \/ ChildExits(p)
        \/ \E n \in Names : Edit(n)

Spec == Init /\ [][Next]_vars

(* svscan keeps running, and a supervise that was sent SIGTERM exits.      *)
Fairness == WF_vars(Step) /\ \A p \in Pids : WF_vars(child[p].termed /\ ChildExits(p))

FairSpec == Spec /\ Fairness

-----------------------------------------------------------------------------
(* Properties *)

Live(p) == child[p].state = "live"

(* p has entered a directory.                                              *)
Entered(p) == Live(p) /\ child[p].at # NoDir

(* The name was another directory's when p entered it.                     *)
Strayed(p) == Entered(p) /\ child[p].at # child[p].dir

(* Every variable holds a value of its type; x never outgrows its array.   *)
TypeOK ==
  /\ entry \in [Names -> Dirs \cup {NoDir}]
  /\ x \in Seq(Entry) /\ Len(x) <= SERVICES
  /\ logx \in 0..1 /\ all_stopped \in BOOLEAN /\ exit_asap \in BOOLEAN /\ redirected \in BOOLEAN
  /\ pc \in {"boot", "bootstat", "bootmain", "bootlog", "reap", "scan", "scanmain", "scanlog",
             "prune", "test", "done"}
  /\ fn \in Names \cup {NoName} /\ st \in Dirs \cup {NoDir}
  /\ cur \in 1..SERVICES + 1
  /\ unread \subseteq Names /\ due \subseteq unread
  /\ child \in [Pids -> Child]
  /\ edits \in 0..MaxEdits /\ failures \in 0..MaxFailures /\ gone \subseteq Dirs

(* svscan knows each of its children in the one place of x that it was     *)
(* forked for, and signals no process that is not its child: entries move, *)
(* directories lose their names and come back, pids are reused.            *)
ChildrenTracked ==
  /\ \A p \in Pids : child[p].state # "none" =>
       \E i \in DOMAIN x : /\ x[i].dir = child[p].dir
                           /\ p = IF child[p].role = "main" THEN x[i].pid ELSE x[i].pidlog
  /\ \A i \in DOMAIN x :
       /\ x[i].pid # NoPid => /\ child[x[i].pid].state # "none"
                              /\ child[x[i].pid].role = "main"
                              /\ child[x[i].pid].dir = x[i].dir
       /\ x[i].pidlog # NoPid => /\ child[x[i].pidlog].state # "none"
                                 /\ child[x[i].pidlog].role = "log"
                                 /\ child[x[i].pidlog].dir = x[i].dir
  /\ \A i, j \in DOMAIN x : x[i].dir = x[j].dir => i = j

(* Two supervise processes for one directory (or its log) meet in it only  *)
(* if one of them strayed, however the directory is linked and relinked;   *)
(* and a process strays only if the directory that it was meant for has    *)
(* lost a name since svscan began.                                         *)
SoleSupervise ==
  /\ \A p, q \in Pids :
       /\ Entered(p) /\ Entered(q) /\ child[p].at = child[q].at
       /\ child[p].role = child[q].role
       => p = q \/ Strayed(p) \/ Strayed(q)
  /\ \A p \in Pids : Strayed(p) => child[p].dir \in gone

(* The supervise processes of a directory and of its log share one pipe,   *)
(* across restarts of either, so that no log data is lost, and no process  *)
(* of another directory has it: unless one of the processes strayed.       *)
PipePaired ==
  \A p, q \in Pids : Entered(p) /\ Entered(q)
    => \/ Strayed(p) \/ Strayed(q)
       \/ IF child[p].at = child[q].at THEN child[p].pipe = child[q].pipe
          ELSE child[p].pipe # child[q].pipe \/ child[p].pipe = NoPipe

(* After SIGTERM the supervise of a log is stopped only when the one that  *)
(* svscan started to write to it has ended, for each entry of x.           *)
LogOutlives ==
  [][\A p, q \in Pids : ~child[p].termed /\ child'[p].termed /\ child[p].role = "log"
       => ~(Live(q) /\ child[q].role = "main" /\ child[q].dir = child[p].dir)]_vars

(* When svscan exits all its children have, but those of directories that  *)
(* lost a name, if no system call failed.                                  *)
ExitsLast ==
  pc = "done" /\ failures = 0 => \A p \in Pids : Live(p) => child[p].dir \in gone

(* Every turn sees an entry whose supervise runs, or starts one; without   *)
(* that svscan exits (see RunsForever), as it does when it cannot create   *)
(* the log service's pipe.                                                 *)
SeesOne == pc \in {"test", "done"} /\ ~exit_asap
             => \E i \in DOMAIN x : x[i].flagactive /\ x[i].pid # NoPid

(* Until SIGTERM a directory that has a name has a supervise, in it or     *)
(* about to enter it, again and again, although children end and calls     *)
(* fail, as long as in every turn some service, this one or another, keeps *)
(* svscan from exiting, x has room, and no supervise meant for the         *)
(* directory strayed: svscan takes it for this directory's.                *)
Supervised ==
  []SeesOne =>
    \A d \in Dirs :
      <>[](\E n \in Names : entry[n] = d)
        => []<>(\/ \E p \in Pids : /\ Live(p) /\ child[p].role = "main"
                                   /\ d = IF Entered(p) THEN child[p].at ELSE child[p].dir
                \/ exit_asap
                \/ ~Known(d) /\ Len(x) = SERVICES
                \/ \E p \in Pids : Strayed(p) /\ child[p].dir = d)

(* After SIGTERM svscan exits.                                             *)
ExitsAfterTerm == exit_asap ~> pc = "done"

-----------------------------------------------------------------------------
(* Claims of the documentation that the program does not meet *)

(* svscan.8: svscan is designed to run forever; if it has trouble running  *)
(* supervise it will try again five seconds later.                         *)
RunsForever == pc = "done" => exit_asap

(* svscan.8: after all child processes exit, svscan exits.                 *)
ExitsLastOfAll == pc = "done" /\ exit_asap => \A p \in Pids : ~Live(p)

(* svscan.8: svscan starts the log service and redirects its output        *)
(* through it: no other service reads svscan's log pipe.                   *)
SoleReader ==
  \A p \in Pids : Live(p) /\ child[p].reads
    => child[p].dir \in gone \/ (LogNamed /\ child[p].dir = entry[logdir])

(* svscan.8: svscan starts a pair of supervise processes, one for sub, one *)
(* for sub/log, with a pipe between them.                                  *)
PairServes ==
  \A p, q \in Pids :
    Entered(p) /\ Entered(q) /\ child[p].at = child[q].at => child[p].pipe = child[q].pipe

=============================================================================
