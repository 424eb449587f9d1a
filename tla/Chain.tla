-------------------------------- MODULE Chain --------------------------------
(***************************************************************************)
(* Processes that run chains of the small tools: envdir, envini,           *)
(* envuidgid, setuidgid, setuser, softlimit, setlock, pgrphack and fghack, *)
(* and the program at the end.  A step is a system call, or the parsing of *)
(* an option; any call may fail, any process be killed in between.         *)
(***************************************************************************)
EXTENDS Tools

CONSTANTS
  Roots,               \* processes started with a command line
  Kids, Daemons,       \* places for the processes that fghack, and that a program, forks
  Lines,               \* what is started: functions from some of the roots to command lines
  Names, Accounts, Inis, Crashed, Running,    \* see Launch
  Dirs,                \* the directories of envdir at first
  Edits,               \* what may be written into them: <<directory, file, content>>
  EditsWhileRead,      \* whether that may happen while envdir reads the directory
  MaxEdits, MaxFaults  \* bounds

Procs == Roots \cup Kids \cup Daemons

VARIABLES
  proc,    \* the processes
  locked,  \* the open files that have the lock of their file
  dir,     \* the directories of envdir
  view,    \* history: what each image found when it was loaded, see Launch
  faults, edits

vars == <<proc, locked, dir, view, faults, edits>>

----------------------------------------------------------------------------
(* The tools                                                               *)

ToolNames == {"envdir", "envini", "envuidgid", "setuidgid", "setuser", "softlimit", "setlock",
              "pgrphack", "fghack"}
NoOptions == {"envuidgid", "setuser", "pgrphack", "fghack"}
HasArg    == {"envdir", "envini", "envuidgid", "setuidgid", "setuser", "setlock"}
UsageCode(tool) == IF tool \in {"envdir", "envini"} THEN 111 ELSE 100

FirstCall ==
  [envdir |-> "opendir", envini |-> "open_read", envuidgid |-> "getpwnam", setuidgid |-> "getpwnam",
   setuser |-> "getpwnam", softlimit |-> "execve", setlock |-> "open_append", pgrphack |-> "setsid",
   fghack |-> "fork"]

(* The system calls whose failure ends the tool.                           *)
Calls == {"opendir", "readdir", "open_read", "getpwnam", "chdir", "setgroups", "setgid",
          "initgroups", "setuid", "setrlimit", "open_append", "lock", "fork", "execve"}

(* A process that has just been given an image: main() begins.             *)
Loaded(r, image, argv, env) ==
  [r EXCEPT !.image = image, !.argv = argv, !.env = env,
            !.pc = IF image \notin ToolNames THEN "program"
                   ELSE IF image = "softlimit" THEN "setrlimit" ELSE "getopt",
            !.todo = IF image = "softlimit" THEN doallenv(env) ELSE <<>>,
            !.at = [optind |-> 2, optpos |-> 0], !.flags = {}, !.prefix = <<>>, !.arg = <<>>,
            !.plus = <<>>, !.sa = <<>>, !.due = {}, !.seen = {}, !.child = 0]

NoProc == [pc |-> "none", image |-> "none", argv |-> <<>>, env |-> <<>>, at |-> [optind |-> 2, optpos |-> 0],
           flags |-> {}, prefix |-> <<>>, arg |-> <<>>, plus |-> <<>>, sa |-> <<>>, due |-> {}, seen |-> {},
           todo |-> <<>>, cred |-> [uid |-> 0, gid |-> 0, groups |-> {}], cwd |-> <<>>,
           lim |-> <<>>, files |-> {}, pgrp |-> 0, child |-> 0, code |-> Running]

(* What an image finds when it is loaded, cmds being the commands of the   *)
(* line that are left.                                                     *)
See(r, cmds) ==
  [cmds |-> cmds, image |-> r.image, env |-> [n \in Names |-> env_get(r.env, n)], cred |-> r.cred,
   cwd |-> r.cwd, lim |-> r.lim, pgrp |-> r.pgrp,
   locks |-> {<<f[2], f[3]>> : f \in {g \in r.files : g[1] = "file"}},
   pipes |-> {f[3] : f \in {g \in r.files : g[1] = "pipe"}},
   child |-> 0, forked |-> FALSE]
NoView == [cmds |-> <<>>]

At(p, pc) == proc[p].pc = pc
Alive(p)  == proc[p].pc \notin {"none", "ended"}
Set(p, r) == proc' = [proc EXCEPT ![p] = r]
Sees      == UNCHANGED <<locked, dir, view, faults, edits>>

(* Exit closes the files; what the process was is of no more interest.     *)
Ends(p, code) == /\ Set(p, [NoProc EXCEPT !.pc = "ended", !.image = proc[p].image,
                                          !.child = proc[p].child, !.code = code])
                 /\ view' = [view EXCEPT ![p] = NoView]
Exit(p, code) == Ends(p, code) /\ UNCHANGED <<locked, dir, faults, edits>>

FailCode(p) == IF proc[p].image = "setlock" /\ proc[p].pc \in {"open_append", "lock"}
                  /\ "x" \in proc[p].flags THEN 0 ELSE 111

(* The call that p is at fails: the tool says so and exits.                *)
CallFails(p) ==
  /\ proc[p].pc \in Calls
  /\ faults < MaxFaults /\ faults' = faults + 1
  /\ Ends(p, FailCode(p))
  /\ UNCHANGED <<locked, dir, edits>>

----------------------------------------------------------------------------
(* Options and operands                                                    *)

Flags(F, c) == CASE c \in {"n", "x", "s"} -> F \cup {c}
                 [] c = "N" -> F \ {"n"}
                 [] c = "X" -> F \ {"x"}

getopt(p) == LET r == proc[p]
             IN  subgetopt(r.argv, r.at, Letters(r.image).flags, Letters(r.image).withArg)

HasOption(p, o) ==
  LET r    == [proc[p] EXCEPT !.at = [optind |-> o.optind, optpos |-> o.optpos]]
  IN  /\ o.c \notin {"done", "?"}
      /\ Set(p, IF r.image = "softlimit"
                THEN [r EXCEPT !.pc = "setrlimit",
                               !.todo = [i \in DOMAIN OptionLimits[o.c] |->
                                           [resource |-> OptionLimits[o.c][i], arg |-> o.optarg]]]
                ELSE IF o.c = "p" THEN [r EXCEPT !.prefix = o.optarg]
                ELSE [r EXCEPT !.flags = Flags(@, o.c)])
      /\ Sees

(* argv += optind: the tool's own operand, and the command to run.         *)
HasOperands(p, operands) ==
  LET r    == proc[p]
      own  == IF r.image \in HasArg THEN 1 ELSE 0
  IN  IF Len(operands) <= own THEN Exit(p, UsageCode(r.image))
      ELSE /\ Set(p, [r EXCEPT !.pc = FirstCall[r.image],
                               !.arg = IF own = 1 THEN operands[1] ELSE <<>>,
                               !.argv = SubSeq(operands, own + 1, Len(operands))])
           /\ Sees

Parse(p) ==
  /\ At(p, "getopt")
  /\ LET r == proc[p]
     IN  IF r.image \in NoOptions THEN HasOperands(p, Tail(r.argv))
         ELSE \E o \in {getopt(p)} :
                \/ HasOption(p, o)
                \/ o.c = "?" /\ Exit(p, UsageCode(r.image))
                \/ o.c = "done" /\ HasOperands(p, SubSeq(r.argv, o.optind, Len(r.argv)))

----------------------------------------------------------------------------
(* envdir: readdir() returns each entry that is there all the time, and    *)
(* may return one that comes or goes.                                      *)
Opendir(p) ==
  /\ At(p, "opendir")
  /\ IF proc[p].arg \notin DOMAIN dir THEN Exit(p, 111)
     ELSE Set(p, [proc[p] EXCEPT !.pc = "readdir", !.due = DOMAIN dir[proc[p].arg]]) /\ Sees

Readdir(p) ==
  /\ At(p, "readdir")
  /\ LET r     == proc[p]
         there == DOMAIN dir[r.arg]
         Content(f) == IF f \in there THEN dir[r.arg][f].text ELSE Unset
     IN  \/ \E f \in (r.due \cup there) \ r.seen :
              \E sa \in {Read(r.sa, Content(f))} : \E v \in {Value(sa)} :
                Set(p, IF f[1] = "." THEN [r EXCEPT !.seen = @ \cup {f}]
                       ELSE IF sa = <<>>
                       THEN [r EXCEPT !.seen = @ \cup {f}, !.sa = sa,
                                      !.plus = pathexec_env(@, r.prefix \o f, Unset)]
                       ELSE [r EXCEPT !.seen = @ \cup {f}, !.sa = v \o <<"NUL">>,
                                      !.plus = pathexec_env(@, r.prefix \o f, v)])
         \/ r.due \cap there \subseteq r.seen /\ Set(p, [r EXCEPT !.pc = "execve"])
  /\ Sees

(* An edit, as long as an envdir is to come that may see it.               *)
Edit ==
  /\ edits < MaxEdits /\ edits' = edits + 1
  /\ \E e \in Edits :
       /\ \E p \in Procs : \E c \in ToSet(view[p].cmds) : c.tool = "envdir" /\ c.arg = e[1]
       /\ EditsWhileRead \/ \A p \in Procs :
            proc[p].image = "envdir" /\ proc[p].arg = e[1] => proc[p].pc \notin {"readdir", "execve"}
       /\ dir' = [dir EXCEPT ![e[1]] =
                    IF e[3] = Unset THEN [f \in DOMAIN @ \ {e[2]} |-> @[f]]
                    ELSE [f \in DOMAIN @ \cup {e[2]} |-> IF f = e[2] THEN e[3] ELSE @[f]]]
  /\ UNCHANGED <<proc, locked, view, faults>>

(* envini                                                                  *)
ReadIni(p) ==
  /\ At(p, "open_read")
  /\ LET text == IF proc[p].arg \in DOMAIN Inis THEN Inis[proc[p].arg].text ELSE <<>>
     IN  \E whole \in {Split(text, "\n")} : \E lines \in {Trimmed(whole)} :
           Set(p, [proc[p] EXCEPT !.pc = "execve", !.plus = parse(lines, proc[p].prefix)])
  /\ Sees

(* envuidgid, setuidgid, setuser                                           *)
Getpwnam(p) ==
  /\ At(p, "getpwnam")
  /\ LET r   == proc[p]
         pw  == Accounts[r.arg]
         ids == <<[name |-> <<"GID">>, value |-> fmt_ulong(pw.gid)],
                  [name |-> <<"UID">>, value |-> fmt_ulong(pw.uid)]>>
     IN  IF r.arg \notin DOMAIN Accounts THEN Exit(p, 111)
         ELSE /\ Set(p, CASE r.image = "envuidgid" -> [r EXCEPT !.pc = "execve", !.plus = ids]
                          [] r.image = "setuidgid" -> [r EXCEPT !.pc = "setgroups"]
                          [] r.image = "setuser"   ->
                               [r EXCEPT !.pc = "chdir",
                                         !.plus = <<[name |-> <<"HOME">>,  value |-> pw.home],
                                                    [name |-> <<"SHELL">>, value |-> pw.shell],
                                                    [name |-> <<"USER">>,  value |-> r.arg]>> \o ids])
              /\ Sees

Chdir(p) ==
  /\ At(p, "chdir")
  /\ Set(p, [proc[p] EXCEPT !.pc = "setgroups", !.cwd = Accounts[proc[p].arg].home])
  /\ Sees

Root(p) == proc[p].cred.uid = 0

prot_gid(p) ==
  /\ \/ /\ At(p, "setgroups")
        /\ IF Root(p)
           THEN Set(p, [proc[p] EXCEPT !.pc = "setgid", !.cred.groups = {Accounts[proc[p].arg].gid}])
                /\ Sees
           ELSE Exit(p, 111)
     \/ /\ At(p, "setgid")
        /\ Set(p, [proc[p] EXCEPT !.cred.gid = Accounts[proc[p].arg].gid,
                                  !.pc = IF proc[p].image = "setuser" \/ "s" \in proc[p].flags
                                         THEN "initgroups" ELSE "setuid"])
        /\ Sees

prot_gids(p) ==
  /\ At(p, "initgroups")
  /\ LET pw == Accounts[proc[p].arg]
     IN  Set(p, [proc[p] EXCEPT !.pc = "setuid", !.cred.groups = {pw.gid} \cup pw.groups])
  /\ Sees

prot_uid(p) ==
  /\ At(p, "setuid")
  /\ Set(p, [proc[p] EXCEPT !.pc = "execve", !.cred.uid = Accounts[proc[p].arg].uid])
  /\ Sees

(* softlimit: the limits of doallenv() or of one option, one by one.       *)
doit(p) ==
  /\ At(p, "setrlimit")
  /\ LET r   == proc[p]
         s   == Head(r.todo)
         new == Limited(r.lim[s.resource], s.arg)
     IN  IF r.todo = <<>> THEN Set(p, [r EXCEPT !.pc = "getopt"]) /\ Sees
         ELSE IF new = Unset THEN Exit(p, 100)
         ELSE IF new.max > r.lim[s.resource].max /\ ~Root(p) THEN Exit(p, 111)
         ELSE Set(p, [r EXCEPT !.todo = Tail(@), !.lim[s.resource] = new]) /\ Sees

----------------------------------------------------------------------------
(* setlock: the lock belongs to the open file, which the command inherits. *)

(* Mutant: a lock that, as lockf()'s, ends with the process that made it.  *)
HasLock_lockf(f) == \E p \in Procs : <<"file", f, p>> \in locked \cap proc[p].files

HasLock(f) == \E p \in Procs : \E o \in proc[p].files : o \in locked /\ o[2] = f

OpenAppend(p) ==
  /\ At(p, "open_append")
  /\ Set(p, [proc[p] EXCEPT !.pc = "lock", !.files = @ \cup {<<"file", proc[p].arg, p>>}])
  /\ Sees

Lock(p) ==
  /\ At(p, "lock")
  /\ \/ /\ ~HasLock(proc[p].arg)
        /\ locked' = {o \in locked : HasLock(o[2])} \cup {<<"file", proc[p].arg, p>>}
        /\ Set(p, [proc[p] EXCEPT !.pc = "execve"])
        /\ UNCHANGED <<dir, view, faults, edits>>
     \/ HasLock(proc[p].arg) /\ "n" \in proc[p].flags /\ Exit(p, FailCode(p))

(* pgrphack: setsid() fails if p is the leader of a group already.         *)
Setsid(p) ==
  /\ At(p, "setsid")
  /\ Set(p, [proc[p] EXCEPT !.pc = "execve", !.pgrp = p])
  /\ Sees

(* Mutant: fghack does not close its own writing end.                      *)
Parent_open(p, q) == [proc[p] EXCEPT !.pc = "read", !.child = q, !.files = @ \cup {<<"pipe", <<>>, p>>}]

Parent(p, q) == [proc[p] EXCEPT !.pc = "read", !.child = q]

(* fghack: the child has the pipe's writing end, many times over.          *)
Fork(p) ==
  /\ At(p, "fork")
  /\ \E q \in Kids :
       /\ At(q, "none")
       /\ proc' = [proc EXCEPT ![p] = Parent(p, q),
                               ![q] = [proc[p] EXCEPT !.pc = "execve",
                                                      !.files = @ \cup {<<"pipe", <<>>, p>>}]]
       /\ view' = [view EXCEPT ![p].child = q,
                               ![q] = [view[p] EXCEPT !.forked = TRUE, !.pipes = @ \cup {p}]]
  /\ UNCHANGED <<locked, dir, faults, edits>>

(* Mutant: the first byte read ends the loop.                              *)
EndOfFile_byte(p) == At(p, "read") /\ Set(p, [proc[p] EXCEPT !.pc = "wait"]) /\ Sees

EndOfFile(p) ==
  /\ At(p, "read")
  /\ ~ \E q \in Procs : <<"pipe", <<>>, p>> \in proc[q].files
  /\ Set(p, [proc[p] EXCEPT !.pc = "wait"])
  /\ Sees

WaitPid(p) ==
  /\ At(p, "wait") /\ At(proc[p].child, "ended")
  /\ LET code == proc[proc[p].child].code
     IN  Exit(p, IF code = Crashed THEN 111 ELSE code)

----------------------------------------------------------------------------
(* pathexec() in the tools that change the environment, pathexec_run() in  *)
(* the others.                                                             *)
Execve(p) ==
  /\ At(p, "execve")
  /\ LET r == proc[p]
     IN  \E env \in {IF r.image \in {"envdir", "envini", "envuidgid"} THEN pathexec(r.env, r.plus)
                    ELSE r.env},
            image \in {pathexec_run(r.argv[1], env_get(r.env, <<"PATH">>))} :
           IF image \in Errnos THEN Exit(p, 111)
           ELSE LET new == Loaded(r, image, r.argv, env)
                IN  /\ Set(p, new)
                    /\ view' = [view EXCEPT ![p] = See(new, Tail(@.cmds))]
                    /\ UNCHANGED <<locked, dir, faults, edits>>

(* The program: it may fork a process that stays in the background, close  *)
(* what it has inherited, and end.                                         *)
Daemonize(p) ==
  /\ At(p, "program")
  /\ \E q \in Daemons : /\ At(q, "none")
                        /\ proc' = [proc EXCEPT ![q] = proc[p]]
                        /\ view' = [view EXCEPT ![q] = view[p]]
  /\ UNCHANGED <<locked, dir, faults, edits>>

Close(p) ==
  /\ At(p, "program")
  /\ \E f \in proc[p].files :
       LET r == [proc[p] EXCEPT !.files = @ \ {f}]
       IN  Set(p, r) /\ view' = [view EXCEPT ![p] = See(r, @.cmds)]
  /\ UNCHANGED <<locked, dir, faults, edits>>

Quit(p) == At(p, "program") /\ \E code \in {0, 1} : Exit(p, code)

Killed(p) ==
  /\ Alive(p)
  /\ faults < MaxFaults /\ faults' = faults + 1
  /\ Ends(p, Crashed)
  /\ UNCHANGED <<locked, dir, edits>>

----------------------------------------------------------------------------
(* A line: the commands as Launch has them, and one spelling of them.      *)
Started(line) ==
  Loaded([NoProc EXCEPT !.cred = line.cred, !.lim = line.lim, !.cwd = <<"/">>],
         line.cmds[1].tool, line.argv, line.env)

Init ==
  /\ \E line \in Lines :
       /\ proc = [p \in Procs |-> IF p \in DOMAIN line THEN Started(line[p]) ELSE NoProc]
       /\ view = [p \in Procs |-> IF p \in DOMAIN line THEN See(Started(line[p]), line[p].cmds)
                                  ELSE NoView]
  /\ locked = {}
  /\ dir = Dirs
  /\ faults = 0 /\ edits = 0

Step(p) ==
  \/ Parse(p) \/ Opendir(p) \/ Readdir(p) \/ ReadIni(p) \/ Getpwnam(p) \/ Chdir(p)
  \/ prot_gid(p) \/ prot_gids(p) \/ prot_uid(p) \/ doit(p)
  \/ OpenAppend(p) \/ Lock(p) \/ Setsid(p) \/ Fork(p) \/ EndOfFile(p) \/ WaitPid(p)
  \/ Execve(p)

Next ==
  \/ \E p \in Procs : \/ Step(p) \/ CallFails(p) \/ Killed(p)
                      \/ Daemonize(p) \/ Close(p) \/ Quit(p)
  \/ Edit

(* As long as a tool can take a step or a program end, one does: nothing   *)
(* here goes on for ever, so that no process need be treated fairly.       *)
Fairness == WF_vars(\E p \in Procs : Step(p) \/ Quit(p))

Spec == Init /\ [][Next]_vars /\ Fairness

----------------------------------------------------------------------------
(* Properties                                                              *)

(* Each process is at a call of its tool, or a program, or over.           *)
TypeOK ==
  /\ \A p \in Procs :
       /\ proc[p].pc \in Calls \cup {"none", "getopt", "setsid", "read", "wait", "program", "ended"}
       /\ At(p, "program") => proc[p].image \notin ToolNames
       /\ proc[p].child \in Kids \cup {0}
       /\ \A f \in proc[p].files : f[1] \in {"file", "pipe"} /\ f[3] \in Procs
       /\ (proc[p].code # Running) <=> At(p, "ended")
  /\ \A o \in locked : o[1] = "file"
  /\ faults \in 0 .. MaxFaults /\ edits \in 0 .. MaxEdits

L == INSTANCE Launch WITH code <- [p \in Procs |-> proc[p].code]

(* What the manual pages say: whatever calls fail, a command that is       *)
(* replaced by the next has done what its page promises and nothing else;  *)
(* otherwise it ends with an exit code of its page.  The code does not do  *)
(* that for setuser and for a missing file of envini (Chain_pages.cfg).    *)
Promised == L!Spec

(* The same but for those two cases, for environments that bind no name    *)
(* twice and directories that nobody edits while envdir reads them:        *)
(* environment (after pathexec()'s exchange of bindings), uid, gid and     *)
(* groups together (prot.c's calls in their order), working directory,     *)
(* limits, lock, process group, and exit codes.                            *)
PromisedElse == L!SpecAmiss

(* Two programs behind setlock on one file never run at once, except for   *)
(* processes of one command: the lock lasts until all of them have ended   *)
(* or closed it, through any number of execve() and fork() (setlock.c:48). *)
OneHolder ==
  \A p, q \in Procs : Alive(p) /\ Alive(q) =>
    \A l \in view[p].locks, m \in view[q].locks : l[1] = m[1] => l = m

(* fghack (if not killed) ends with its child's code, and after every      *)
(* process that has the pipe -- the background ones too (fghack.c:38).     *)
FghackLast ==
  \A p \in Procs :
    LET q == proc[p].child
    IN  At(p, "ended") /\ q # 0 /\ proc[p].code # Crashed =>
          /\ At(q, "ended")
          /\ proc[p].code = IF proc[q].code = Crashed THEN 111 ELSE proc[q].code
          /\ \A s \in Procs : <<"pipe", <<>>, p>> \notin proc[s].files

(* Programs that end let their chains end: nobody waits for a lock whose   *)
(* holders are gone, or for a pipe that fghack itself holds open.          *)
LinesEnd == \A p \in Procs : Alive(p) ~> At(p, "ended")

(* What envdir.8 says: a variable's value is its own file's first line, of *)
(* what the file contained at some time.                                   *)
OwnValue ==
  \A p \in Procs : At(p, "readdir") =>
    \A i \in DOMAIN proc[p].plus :
      LET b == proc[p].plus[i]
      IN  \/ b.value = Unset
          \/ \E f \in DOMAIN Dirs[proc[p].arg] : b.name = proc[p].prefix \o f
                                                 /\ b.value = Dirs[proc[p].arg][f].value
          \/ \E e \in Edits : /\ e[1] = proc[p].arg /\ e[3] # Unset
                              /\ b.name = proc[p].prefix \o e[2] /\ b.value = e[3].value
=============================================================================
