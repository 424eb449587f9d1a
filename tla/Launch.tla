-------------------------------- MODULE Launch --------------------------------
(***************************************************************************)
(* What the chain-loading tools promise, by their manual pages: a command  *)
(* line such as                                                            *)
(*     setlock -n f  softlimit -d 9  setuidgid alice  prog                 *)
(* is a sequence of commands; each changes one thing of the process and    *)
(* replaces itself by the next, or ends the process and runs nothing.      *)
(* Nothing here knows how options are spelled, which system calls a tool   *)
(* makes, or how it builds an environment.                                 *)
(***************************************************************************)
EXTENDS Tools

CONSTANTS
  Procs,       \* processes
  Names,       \* names of environment variables
  Accounts,    \* by name: uid, gid, groups, home, shell
  Inis,        \* by name: an ini file, its text and what its lines mean
  Crashed,     \* how a process ends that a signal killed
  Running      \* the code of a process that has not ended

VARIABLES
  view,        \* by process: what the command that it runs found when it was loaded
  code,        \* how it ended
  dir,         \* by name: the directories of envdir, their files, a text and a value each
  faults       \* how many system calls have failed, and processes been killed

NoView == [cmds |-> <<>>]

----------------------------------------------------------------------------
(* The effect of one command, from what v it finds.                        *)

Options(c, letters) == SelectSeq(c.opts, LAMBDA o : o[1] \in letters)
HasFlag(c, on, off) == LET o == Options(c, {on, off}) IN o # <<>> /\ Last(o)[1] = on
Prefix(c) == LET o == Options(c, {"p"}) IN IF o = <<>> THEN <<>> ELSE Last(o)[2]

(* envdir: each file's value, or no variable if it is empty.  (Of files    *)
(* whose names begin with a dot envdir.8 does not speak; they are left.)   *)
DirEnv(c, env) ==
  [n \in Names |->
     LET F == {f \in DOMAIN dir[c.arg] : f[1] # "." /\ n = Prefix(c) \o f}
     IN  IF F = {} THEN env[n] ELSE dir[c.arg][CHOOSE f \in F : TRUE].value]

(* envini: the last line that names the variable sets it.                  *)
IniEnv(c, env) ==
  LET lines == Inis[c.arg].lines
      Section(i) == LET S == {j \in 1 .. i : lines[j].kind = "section"}
                    IN  IF S = {} THEN <<>> ELSE Append(lines[Max(S)].name, "_")
      Sets(n) == {i \in DOMAIN lines : /\ lines[i].kind = "sets"
                                       /\ n = Prefix(c) \o Section(i) \o lines[i].name}
  IN  [n \in Names |-> IF Sets(n) = {} THEN env[n] ELSE lines[Max(Sets(n))].value]

(* What envuidgid and setuser say of an account in the environment.        *)
IdEnv(a, env) == [env EXCEPT ![<<"UID">>] = fmt_ulong(Accounts[a].uid),
                             ![<<"GID">>] = fmt_ulong(Accounts[a].gid)]

UserEnv(a, env) == [IdEnv(a, env) EXCEPT ![<<"SHELL">>] = Accounts[a].shell,
                                         ![<<"HOME">>]  = Accounts[a].home,
                                         ![<<"USER">>]  = a]

(* softlimit: for each limit the last setting decides, and -m and the      *)
(* variables are other names for the options.  A soft limit is at most the *)
(* hard one.                                                               *)
Limits == {"AS", "CORE", "DATA", "FSIZE", "MEMLOCK", "STACK", "NOFILE", "NPROC", "RSS", "CPU"}

Means == [a |-> {"AS"}, c |-> {"CORE"}, d |-> {"DATA"}, f |-> {"FSIZE"}, l |-> {"MEMLOCK"},
          m |-> {"AS", "DATA", "MEMLOCK", "STACK"}, o |-> {"NOFILE"}, p |-> {"NPROC"},
          r |-> {"RSS"}, s |-> {"STACK"}, t |-> {"CPU"}]

SoftLimitVariables ==
  <<<<"ALLBYTES", "a">>, <<"COREBYTES", "c">>, <<"DATABYTES", "d">>, <<"FILEBYTES", "f">>,
    <<"LOCKEDBYTES", "l">>, <<"OPENFILES", "o">>, <<"PROCS", "p">>, <<"RSSBYTES", "r">>,
    <<"STACKBYTES", "s">>, <<"CPUSECS", "t">>, <<"MEMBYTES", "m">>>>

Settings(c, env) ==
  LET InEnv(i) == LET n == <<"SOFTLIMIT_", SoftLimitVariables[i][1]>>
                  IN  IF n \in Names THEN env[n] ELSE Unset
  IN  SelectSeq([i \in DOMAIN SoftLimitVariables |-> <<SoftLimitVariables[i][2], InEnv(i)>>],
                LAMBDA o : o[2] # Unset) \o c.opts

For(r, settings) == SelectSeq(settings, LAMBDA o : r \in Means[o[1]])

LimitOf(r, old, settings) ==
  LET s     == For(r, settings)
      Infinite(k) == \E j \in 1 .. k : s[j][2] = <<"-">>
      Hard(k) == IF Infinite(k) THEN RLIM_INFINITY ELSE old.max
      k     == Len(s)
      n     == s[k][2]
  IN  IF s = <<>> THEN old
      ELSE [max |-> Hard(k),
            cur |-> IF n = <<"-">> \/ n = <<"=">> THEN Hard(k)
                    ELSE Min({scan_ulong(n).u, Hard(k)})]

Identity(a, groups) == [uid |-> Accounts[a].uid, gid |-> Accounts[a].gid,
                        groups |-> {Accounts[a].gid} \cup groups]

(* Whether command c of process p can do its work, and what then is so.    *)
CanDo(p, c, v) ==
  /\ c.ok
  /\ c.tool = "envdir" => c.arg \in DOMAIN dir
  /\ c.tool = "envini" => c.arg \in DOMAIN Inis
  /\ c.tool \in {"envuidgid", "setuidgid", "setuser"} => c.arg \in DOMAIN Accounts
  /\ c.tool \in {"setuidgid", "setuser"} => v.cred.uid = 0
  /\ c.tool = "setlock" => \A q \in Procs : view[q] # NoView =>
                             \A l \in view[q].locks : l[1] # c.arg
  /\ c.tool = "softlimit" =>
       \A r \in Limits : v.lim[r].max < LimitOf(r, v.lim[r], Settings(c, v.env)).max
                          => v.cred.uid = 0

Done(p, c, v) ==
  CASE c.tool = "envdir"    -> [v EXCEPT !.env = DirEnv(c, @)]
    [] c.tool = "envini"    -> [v EXCEPT !.env = IniEnv(c, @)]
    [] c.tool = "envuidgid" -> [v EXCEPT !.env = IdEnv(c.arg, @)]
    [] c.tool = "setuidgid" -> [v EXCEPT !.cred = Identity(c.arg, IF HasFlag(c, "s", "s")
                                                         THEN Accounts[c.arg].groups ELSE {})]
    [] c.tool = "setuser"   -> [v EXCEPT !.cred = Identity(c.arg, Accounts[c.arg].groups),
                                         !.cwd = Accounts[c.arg].home,
                                         !.env = UserEnv(c.arg, @)]
    [] c.tool = "softlimit" -> [v EXCEPT !.lim = [r \in Limits |->
                                                    LimitOf(r, @[r], Settings(c, v.env))]]
    [] c.tool = "setlock"   -> [v EXCEPT !.locks = @ \cup {<<c.arg, p>>}]
    [] c.tool = "pgrphack"  -> [v EXCEPT !.pgrp = p]
    [] c.tool = "fghack"    -> [v EXCEPT !.forked = FALSE]

----------------------------------------------------------------------------
Runs(p)  == view[p] # NoView
Cmd(p)   == Head(view[p].cmds)
IsProg(p) == Len(view[p].cmds) = 1

(* fghack forks instead, and another setlock may be about to lock.         *)
Forks(p) == Cmd(p).tool = "fghack" /\ ~view[p].forked

Contended(p) == \E q \in Procs \ {p} : Runs(q) /\
                  \/ \E l \in view[q].locks : l[1] = Cmd(p).arg
                  \/ ~IsProg(q) /\ Cmd(q).tool = "setlock" /\ Cmd(q).arg = Cmd(p).arg

(* What is found of the next command.                                      *)
Next1(v) == pathexec_run(v.cmds[2].word, v.env[<<"PATH">>])

(* The command of p has made v of what it found and is replaced by the     *)
(* next one, which is looked for with the $PATH that the command itself    *)
(* had.                                                                    *)
LoadsWith(p, v) ==
  /\ view' = [view EXCEPT ![p] = [v EXCEPT !.cmds = Tail(@), !.image = Next1(view[p])]]
  /\ view'[p].image \notin Errnos
  /\ UNCHANGED <<code, dir, faults>>

MayLoad(p) == Runs(p) /\ ~IsProg(p) /\ ~Forks(p)

(* The command does its work.                                              *)
Load(p) == MayLoad(p) /\ CanDo(p, Cmd(p), view[p]) /\ LoadsWith(p, Done(p, Cmd(p), view[p]))

(* Two things that the manual pages promise and the tools do not do: the   *)
(* variables of setuser (setuser.8:14, setuser.c:54), and that envini      *)
(* exits when there is no file (envini.8:52, openreadclose.c:13).          *)
LoadAmiss(p) ==
  /\ MayLoad(p)
  /\ LET c == Cmd(p)
         v == view[p]
     IN  \/ c.tool = "setuser" /\ CanDo(p, c, v) /\ LoadsWith(p, [Done(p, c, v) EXCEPT !.env = v.env])
         \/ c.tool = "envini" /\ c.ok /\ c.arg \notin DOMAIN Inis /\ LoadsWith(p, v)

End(p, c) == view' = [view EXCEPT ![p] = NoView] /\ code' = [code EXCEPT ![p] = c]
             /\ UNCHANGED dir

(* setlock waits for a lock, unless told not to.                           *)
Refuses(p) ==
  \/ Cmd(p).tool # "setlock" /\ ~CanDo(p, Cmd(p), view[p])
  \/ Cmd(p).tool = "setlock" /\ ~Cmd(p).ok
  \/ Cmd(p).tool = "setlock" /\ HasFlag(Cmd(p), "n", "N") /\ Contended(p)
  \/ ~Forks(p) /\ Next1(view[p]) \in Errnos

(* Or it does not, and only if it cannot, if there is no next command, or  *)
(* if a system call fails: the chain ends there.                           *)
Fails(p) ==
  /\ Runs(p) /\ ~IsProg(p) /\ view[p].child = 0
  /\ (Refuses(p) /\ UNCHANGED faults) \/ faults' = faults + 1
  /\ \/ ~Cmd(p).ok /\ End(p, 100)
     \/ End(p, 111)
     \/ Cmd(p).tool = "setlock" /\ HasFlag(Cmd(p), "x", "X") /\ End(p, 0)

(* fghack forks, and ends as its child does, after everybody closed the    *)
(* pipe.                                                                   *)
Fghack(p, q) ==
  /\ Runs(p) /\ ~IsProg(p) /\ Cmd(p).tool = "fghack" /\ Cmd(p).ok
  /\ view[p].child = 0 /\ ~view[p].forked /\ ~Runs(q) /\ code[q] = Running
  /\ view' = [view EXCEPT ![p].child = q,
                          ![q] = [view[p] EXCEPT !.forked = TRUE, !.pipes = @ \cup {p}]]
  /\ UNCHANGED <<code, dir, faults>>

FghackEnds(p) ==
  /\ Runs(p) /\ view[p].child # 0
  /\ code[view[p].child] # Running
  /\ \A q \in Procs : Runs(q) => p \notin view[q].pipes
  /\ End(p, IF code[view[p].child] = Crashed THEN 111 ELSE code[view[p].child])
  /\ UNCHANGED faults

(* The program at the end of the line: puts itself into the background,    *)
(* closes files, ends.                                                     *)
Daemon(p, q) ==
  /\ Runs(p) /\ IsProg(p) /\ ~Runs(q) /\ code[q] = Running
  /\ view' = [view EXCEPT ![q] = view[p]]
  /\ UNCHANGED <<code, dir, faults>>

Closes(p) ==
  /\ Runs(p) /\ IsProg(p)
  /\ \/ \E l \in view[p].locks : view' = [view EXCEPT ![p].locks = @ \ {l}]
     \/ \E f \in view[p].pipes : view' = [view EXCEPT ![p].pipes = @ \ {f}]
  /\ UNCHANGED <<code, dir, faults>>

Quits(p) == Runs(p) /\ IsProg(p) /\ UNCHANGED faults /\ \E c \in {0, 1} : End(p, c)

Killed(p) == Runs(p) /\ faults' = faults + 1 /\ End(p, Crashed)

Edit == UNCHANGED <<view, code, faults>>

Next ==
  \/ \E p \in Procs : Load(p) \/ Fails(p) \/ FghackEnds(p) \/ Closes(p) \/ Quits(p) \/ Killed(p)
  \/ \E p, q \in Procs : Fghack(p, q) \/ Daemon(p, q)
  \/ Edit

(* A process starts with any command line, or is one that fghack or a      *)
(* program may fork.                                                       *)
Init == /\ code = [p \in Procs |-> Running]
        /\ \A p \in Procs : Runs(p) => /\ view[p].child = 0 /\ ~view[p].forked
                                      /\ view[p].locks = {} /\ view[p].pipes = {}

Spec == Init /\ [][Next]_<<view, code, dir, faults>>

(* The manual pages but for the two things.                                *)
SpecAmiss == Init /\ [][Next \/ \E p \in Procs : LoadAmiss(p)]_<<view, code, dir, faults>>
=============================================================================
