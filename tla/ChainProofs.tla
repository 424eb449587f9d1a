----------------------------- MODULE ChainProofs ------------------------------
(***************************************************************************)
(* The chains of tools, for any command lines, programs, directories and   *)
(* faults: two programs behind setlock on one file never run at once, and  *)
(* fghack ends last.                                                       *)
(*                                                                         *)
(* OneHolder speaks of the locks that an image found when it was loaded,   *)
(* which is what a program relies on; the invariant ties them to the open  *)
(* files: what a process has open it has locked, but for the file that     *)
(* setlock is about to lock; of the locked files that somebody has open no *)
(* two are the same; and whoever made an open file still has it, unless it *)
(* has become a program.                                                   *)
(***************************************************************************)
EXTENDS Chain, TLAPS

-----------------------------------------------------------------------------
(* The invariant *)

Fields(r) == {"pc", "image", "arg", "files", "child", "code"} \subseteq DOMAIN r
Shaped == /\ DOMAIN proc = Procs /\ DOMAIN view = Procs
          /\ \A p \in Procs : Fields(proc[p]) /\ (Alive(p) => "locks" \in DOMAIN view[p])

(* The calls that need no more than the process itself                     *)
Going == {"getopt", "opendir", "readdir", "open_read", "getpwnam", "chdir", "setgroups", "setgid",
          "initgroups", "setuid", "setrlimit", "open_append", "setsid", "fork", "execve"}
Users == {"envuidgid", "setuidgid", "setuser"}
Tooled == \A p \in Procs :
            /\ proc[p].pc \in Going \cup {"lock", "read", "wait", "program", "none", "ended"}
            /\ proc[p].pc \notin {"program", "none", "ended"} => proc[p].image \in ToolNames
            /\ At(p, "getpwnam") => proc[p].image \in Users
            /\ At(p, "none") => proc[p].files = {}

(* setlock                                                                 *)
New(p) == <<"file", proc[p].arg, p>>
FilesLocked ==
  /\ \A o \in locked : o[1] = "file"
  /\ \A p \in Procs : \A f \in proc[p].files :
       f[1] = "file" => f \in locked \/ (At(p, "lock") /\ f = New(p))
Opened == \A p \in Procs : At(p, "lock") => New(p) \in proc[p].files
OwnKept == \A p \in Procs : \A o \in locked :
             o[3] = p => At(p, "program") \/ At(p, "ended") \/ o \in proc[p].files
LockedOnce ==
  \A p, q \in Procs : \A f \in proc[p].files, g \in proc[q].files :
    f \in locked /\ g \in locked /\ f[2] = g[2] => f = g
Viewed ==
  \A p \in Procs : Alive(p) =>
    \A l \in view[p].locks : \E f \in proc[p].files : f \in locked /\ l = <<f[2], f[3]>>
Locks == FilesLocked /\ Opened /\ OwnKept /\ LockedOnce /\ Viewed

(* fghack                                                                  *)
Pipe(p) == <<"pipe", <<>>, p>>
Unpiped(p) == \A s \in Procs : Pipe(p) \notin proc[s].files
EndedWith(p) ==
  LET q == proc[p].child
  IN  /\ q \in Procs /\ At(q, "ended")
      /\ proc[p].code = IF proc[q].code = Crashed THEN 111 ELSE proc[q].code
Parents ==
  \A p \in Procs :
    /\ proc[p].child # 0 => proc[p].pc \in {"read", "wait", "ended"} /\ proc[p].child \in Procs
    /\ At(p, "wait") => Unpiped(p)
    /\ At(p, "ended") /\ proc[p].child # 0 /\ proc[p].code # Crashed => Unpiped(p) /\ EndedWith(p)

Inv == Shaped /\ Tooled /\ Locks /\ Parents

-----------------------------------------------------------------------------
(* The steps, by what they do to the open files                            *)

(* A tool goes on to its next call.                                        *)
Moves(p) ==
  /\ proc[p].pc \in Going
  /\ \E r : /\ proc' = [proc EXCEPT ![p] = r]
            /\ Fields(r) /\ r.pc \in Going /\ r.image \in ToolNames
            /\ r.pc = "getpwnam" => r.image \in Users
            /\ r.files = proc[p].files /\ r.child = proc[p].child
  /\ locked' = locked /\ view' = view

(* A process ends.                                                         *)
Stops(p) ==
  /\ Alive(p)
  /\ \E r : /\ proc' = [proc EXCEPT ![p] = r]
            /\ Fields(r) /\ r.pc = "ended" /\ r.files = {} /\ r.child = proc[p].child
            /\ r.child # 0 /\ r.code # Crashed =>
                 /\ At(p, "wait") /\ At(r.child, "ended")
                 /\ r.code = IF proc[r.child].code = Crashed THEN 111 ELSE proc[r.child].code
  /\ view' = [view EXCEPT ![p] = NoView]
  /\ locked' = locked

(* setlock gets the lock.                                                  *)
Locking(p) ==
  /\ At(p, "lock")
  /\ ~HasLock(proc[p].arg)
  /\ locked' = {o \in locked : HasLock(o[2])} \cup {New(p)}
  /\ Set(p, [proc[p] EXCEPT !.pc = "execve"])
  /\ view' = view

(* execve() loads the next image.                                          *)
Loads(p) ==
  /\ At(p, "execve")
  /\ \E r, cmds :
       /\ proc' = [proc EXCEPT ![p] = r]
       /\ Fields(r) /\ r.files = proc[p].files /\ r.child = 0
       /\ r.pc \in {"program", "setrlimit", "getopt"}
       /\ r.pc # "program" => r.image \in ToolNames
       /\ view' = [view EXCEPT ![p] = See(r, cmds)]
  /\ locked' = locked

Kinds(p) == \/ Moves(p) \/ Stops(p) \/ OpenAppend(p) \/ Locking(p) \/ Fork(p) \/ EndOfFile(p)
            \/ Loads(p) \/ Daemonize(p) \/ Close(p)

LEMMA GoingCalls == "lock" \notin Going /\ "read" \notin Going /\ "wait" \notin Going /\ "program" \notin Going
                    /\ "none" \notin Going /\ "ended" \notin Going
                    /\ \A t \in ToolNames : /\ FirstCall[t] \in Going
                                            /\ FirstCall[t] = "getpwnam" => t \in Users
  BY DEF Going, ToolNames, FirstCall, Users

LEMMA LoadedDoes ==
  ASSUME NEW r, Fields(r), NEW image, NEW argv, NEW env
  PROVE  LET new == Loaded(r, image, argv, env)
         IN /\ Fields(new) /\ new.files = r.files /\ new.child = 0 /\ new.image = image
            /\ new.pc = IF image \notin ToolNames THEN "program"
                        ELSE IF image = "softlimit" THEN "setrlimit" ELSE "getopt"
  BY DEF Loaded, Fields

(* Exit and the death of a process                                         *)
LEMMA EndsStops ==
  ASSUME Inv, NEW p \in Procs, NEW code, Ends(p, code), locked' = locked, Alive(p),
         \/ proc[p].child = 0 \/ code = Crashed
         \/ /\ At(p, "wait") /\ At(proc[p].child, "ended")
            /\ code = IF proc[proc[p].child].code = Crashed THEN 111 ELSE proc[proc[p].child].code
  PROVE  Stops(p)
<1>. DEFINE r == [NoProc EXCEPT !.pc = "ended", !.image = proc[p].image, !.child = proc[p].child, !.code = code]
<1>1. Fields(r) /\ r.pc = "ended" /\ r.files = {} /\ r.child = proc[p].child /\ r.code = code
  BY DEF Fields, NoProc
<1>2. proc' = [proc EXCEPT ![p] = r] /\ view' = [view EXCEPT ![p] = NoView]
  BY DEF Ends, Set
<1>. HIDE DEF r
<1>. QED BY <1>1, <1>2, ZenonT(30) DEF Stops

LEMMA ExitStops ==
  ASSUME Inv, NEW p \in Procs, NEW code, Exit(p, code), proc[p].pc \in Going \cup {"lock", "program"}
  PROVE  Stops(p)
<1>1. Ends(p, code) /\ locked' = locked
  BY DEF Exit
<1>2. proc[p].child = 0 /\ Alive(p)
  BY GoingCalls DEF Inv, Parents, Alive
<1>. QED BY <1>1, <1>2, EndsStops

(* A step that sets fields other than the files goes on.                   *)
LEMMA SetMoves ==
  ASSUME Inv, NEW p \in Procs, proc[p].pc \in Going, NEW r, Set(p, r), Sees, Fields(r),
         r.pc \in Going, r.image = proc[p].image, r.files = proc[p].files, r.child = proc[p].child,
         r.pc # "getpwnam" \/ r.image \in Users
  PROVE  Moves(p)
<1>1. proc[p].image \in ToolNames
  BY GoingCalls DEF Inv, Tooled
<1>. QED BY <1>1 DEF Moves, Set, Sees

LEMMA ParseKind ==
  ASSUME Inv, NEW p \in Procs, Parse(p)
  PROVE  Kinds(p)
<1>1. At(p, "getopt") /\ proc[p].pc \in Going /\ Fields(proc[p]) /\ proc[p].image \in ToolNames
  BY GoingCalls DEF Parse, At, Inv, Shaped, Tooled, Going
<1>2. ASSUME NEW operands, HasOperands(p, operands) PROVE Kinds(p)
  <2>. DEFINE own == IF proc[p].image \in HasArg THEN 1 ELSE 0
              r == [proc[p] EXCEPT !.pc = FirstCall[proc[p].image],
                                   !.arg = IF own = 1 THEN operands[1] ELSE <<>>,
                                   !.argv = SubSeq(operands, own + 1, Len(operands))]
  <2>1. Exit(p, UsageCode(proc[p].image)) \/ (Set(p, r) /\ Sees)
    BY <1>2 DEF HasOperands
  <2>2. Fields(r) /\ r.pc = FirstCall[proc[p].image] /\ r.image = proc[p].image /\ r.files = proc[p].files
        /\ r.child = proc[p].child
    BY <1>1 DEF Fields
  <2>. HIDE DEF r
  <2>. QED BY <1>1, <2>1, <2>2, GoingCalls, ExitStops, SetMoves DEF Kinds
<1>3. ASSUME NEW o, HasOption(p, o) PROVE Kinds(p)
  <2>. DEFINE r == [proc[p] EXCEPT !.at = [optind |-> o.optind, optpos |-> o.optpos]]
              a == [r EXCEPT !.pc = "setrlimit",
                             !.todo = [i \in DOMAIN OptionLimits[o.c] |->
                                         [resource |-> OptionLimits[o.c][i], arg |-> o.optarg]]]
              b == [r EXCEPT !.prefix = o.optarg]
              c == [r EXCEPT !.flags = Flags(@, o.c)]
  <2>1. Sees /\ (Set(p, a) \/ Set(p, b) \/ Set(p, c))
    BY <1>3 DEF HasOption
  <2>2. Fields(r) /\ r.pc = "getopt" /\ r.image = proc[p].image /\ r.files = proc[p].files
        /\ r.child = proc[p].child
    BY <1>1 DEF Fields, At
  <2>. HIDE DEF r
  <2>3. /\ Fields(a) /\ a.pc = "setrlimit" /\ a.image = r.image /\ a.files = r.files /\ a.child = r.child
        /\ Fields(b) /\ b.pc = "getopt" /\ b.image = r.image /\ b.files = r.files /\ b.child = r.child
        /\ Fields(c) /\ c.pc = "getopt" /\ c.image = r.image /\ c.files = r.files /\ c.child = r.child
    BY <2>2 DEF Fields
  <2>. HIDE DEF a, b, c
  <2>. QED BY <1>1, <2>1, <2>2, <2>3, SetMoves DEF Kinds, Going
<1>. QED BY <1>1, <1>2, <1>3, ExitStops DEF Parse, Kinds

LEMMA ReadsKind ==
  ASSUME Inv, NEW p \in Procs,
         Opendir(p) \/ Readdir(p) \/ ReadIni(p) \/ Getpwnam(p) \/ Chdir(p)
  PROVE  Kinds(p)
<1>0. Fields(proc[p])
  BY DEF Inv, Shaped
<1>1. CASE Opendir(p)
  <2>. DEFINE r == [proc[p] EXCEPT !.pc = "readdir", !.due = DOMAIN dir[proc[p].arg]]
  <2>1. proc[p].pc = "opendir" /\ (Exit(p, 111) \/ (Set(p, r) /\ Sees))
    BY <1>1 DEF Opendir, At
  <2>2. Fields(r) /\ r.pc = "readdir" /\ r.image = proc[p].image /\ r.files = proc[p].files /\ r.child = proc[p].child
    BY <1>0 DEF Fields
  <2>. HIDE DEF r
  <2>. QED BY <2>1, <2>2, ExitStops, SetMoves DEF Kinds, Going
<1>2. CASE Readdir(p)
  <2>. DEFINE S(x)       == [proc[p] EXCEPT !.seen = x]
              A(x, y, z) == [proc[p] EXCEPT !.seen = x, !.sa = y, !.plus = z]
              E          == [proc[p] EXCEPT !.pc = "execve"]
  <2>1. /\ proc[p].pc = "readdir" /\ Sees
        /\ \/ \E x : Set(p, S(x))
           \/ \E x, y, z : Set(p, A(x, y, z))
           \/ Set(p, E)
    BY <1>2, Zenon DEF Readdir, At
  <2>2. /\ \A x : /\ Fields(S(x)) /\ S(x).pc = proc[p].pc /\ S(x).image = proc[p].image
                  /\ S(x).files = proc[p].files /\ S(x).child = proc[p].child
        /\ \A x, y, z :
             /\ Fields(A(x, y, z)) /\ A(x, y, z).pc = proc[p].pc /\ A(x, y, z).image = proc[p].image
             /\ A(x, y, z).files = proc[p].files /\ A(x, y, z).child = proc[p].child
        /\ Fields(E) /\ E.pc = "execve" /\ E.image = proc[p].image /\ E.files = proc[p].files
        /\ E.child = proc[p].child
    BY <1>0 DEF Fields
  <2>. HIDE DEF S, A, E
  <2>3. proc[p].pc \in Going /\ "execve" \in Going
    BY <2>1 DEF Going
  <2>. QED BY <2>1, <2>2, <2>3, SetMoves, Zenon DEF Kinds
<1>3. CASE ReadIni(p)
  <2>. DEFINE r(x) == [proc[p] EXCEPT !.pc = "execve", !.plus = x]
  <2>1. proc[p].pc = "open_read" /\ Sees /\ \E x : Set(p, r(x))
    BY <1>3, Zenon DEF ReadIni, At
  <2>2. \A x : /\ Fields(r(x)) /\ r(x).pc = "execve" /\ r(x).image = proc[p].image
               /\ r(x).files = proc[p].files /\ r(x).child = proc[p].child
    BY <1>0 DEF Fields
  <2>. HIDE DEF r
  <2>3. proc[p].pc \in Going /\ "execve" \in Going
    BY <2>1 DEF Going
  <2>. QED BY <2>1, <2>2, <2>3, SetMoves, Zenon DEF Kinds
<1>4. CASE Getpwnam(p)
  <2>. DEFINE e(x) == [proc[p] EXCEPT !.pc = "execve", !.plus = x]
              c(x) == [proc[p] EXCEPT !.pc = "chdir", !.plus = x]
              g    == [proc[p] EXCEPT !.pc = "setgroups"]
  <2>1. proc[p].pc = "getpwnam" /\ proc[p].image \in Users
    BY <1>4 DEF Getpwnam, At, Inv, Tooled
  <2>2. \/ Exit(p, 111)
        \/ Sees /\ ((\E x : Set(p, e(x))) \/ (\E x : Set(p, c(x))) \/ Set(p, g))
    BY <1>4, <2>1 DEF Getpwnam, Users
  <2>3. /\ \A x : /\ Fields(e(x)) /\ e(x).pc = "execve" /\ e(x).image = proc[p].image
                  /\ e(x).files = proc[p].files /\ e(x).child = proc[p].child
        /\ \A x : /\ Fields(c(x)) /\ c(x).pc = "chdir" /\ c(x).image = proc[p].image
                  /\ c(x).files = proc[p].files /\ c(x).child = proc[p].child
        /\ Fields(g) /\ g.pc = "setgroups" /\ g.image = proc[p].image
        /\ g.files = proc[p].files /\ g.child = proc[p].child
    BY <1>0 DEF Fields
  <2>. HIDE DEF e, c, g
  <2>4. proc[p].pc \in Going /\ "execve" \in Going /\ "chdir" \in Going /\ "setgroups" \in Going
    BY <2>1 DEF Going
  <2>. QED BY <2>2, <2>3, <2>4, SetMoves, ExitStops, Zenon DEF Kinds
<1>5. CASE Chdir(p)
  <2>. DEFINE r == [proc[p] EXCEPT !.pc = "setgroups", !.cwd = Accounts[proc[p].arg].home]
  <2>1. proc[p].pc = "chdir" /\ Set(p, r) /\ Sees
    BY <1>5 DEF Chdir, At
  <2>2. Fields(r) /\ r.pc = "setgroups" /\ r.image = proc[p].image /\ r.files = proc[p].files /\ r.child = proc[p].child
    BY <1>0 DEF Fields
  <2>. HIDE DEF r
  <2>. QED BY <2>1, <2>2, SetMoves DEF Kinds, Going
<1>. QED BY <1>1, <1>2, <1>3, <1>4, <1>5

LEMMA SetsKind ==
  ASSUME Inv, NEW p \in Procs,
         prot_gid(p) \/ prot_gids(p) \/ prot_uid(p) \/ doit(p) \/ Setsid(p)
  PROVE  Kinds(p)
<1>0. Fields(proc[p]) /\ {"setgroups", "setgid", "initgroups", "setuid", "setrlimit", "setsid", "execve", "getopt"} \subseteq Going
  BY DEF Inv, Shaped, Going
<1>. DEFINE C(x, y, z) == [proc[p] EXCEPT !.pc = x, !.cred.groups = y]
            G(x, y)    == [proc[p] EXCEPT !.cred.gid = x, !.pc = y]
            U(x)       == [proc[p] EXCEPT !.pc = "execve", !.cred.uid = x]
            P(x)       == [proc[p] EXCEPT !.pc = "execve", !.pgrp = x]
            Q          == [proc[p] EXCEPT !.pc = "getopt"]
            T(x, y, z) == [proc[p] EXCEPT !.todo = x, !.lim[y] = z]
            Like(r, pc) == /\ Fields(r) /\ r.pc = pc /\ r.image = proc[p].image
                           /\ r.files = proc[p].files /\ r.child = proc[p].child
<1>1. /\ \A x, y, z : Like(C(x, y, z), x)
      /\ \A x, y : Like(G(x, y), y)
      /\ \A x : Like(U(x), "execve")
      /\ \A x : Like(P(x), "execve")
      /\ Like(Q, "getopt")
      /\ \A x, y, z : Like(T(x, y, z), proc[p].pc)
  BY <1>0 DEF Fields
<1>2. ASSUME NEW r, NEW pc, Like(r, pc), pc \in Going, pc # "getpwnam", proc[p].pc \in Going, Set(p, r), Sees
      PROVE  Kinds(p)
  BY <1>2, SetMoves DEF Kinds
<1>. HIDE DEF C, G, U, P, Q, T, Like
<1>3. CASE prot_gid(p)
  <2>1. \/ At(p, "setgroups") /\ (Exit(p, 111) \/ (Sees /\ \E y : Set(p, C("setgid", y, 0))))
        \/ At(p, "setgid") /\ Sees /\ \E x : \E y \in {"initgroups", "setuid"} : Set(p, G(x, y))
    BY <1>3 DEF prot_gid, C, G
  <2>2. proc[p].pc \in Going
    BY <1>0, <2>1 DEF At
  <2>. QED BY <1>0, <1>1, <1>2, <2>1, <2>2, ExitStops DEF Kinds
<1>4. CASE prot_gids(p)
  <2>1. At(p, "initgroups") /\ Sees /\ \E y : Set(p, C("setuid", y, 0))
    BY <1>4, Zenon DEF prot_gids, C
  <2>. QED BY <1>0, <1>1, <1>2, <2>1 DEF At
<1>5. CASE prot_uid(p)
  <2>1. At(p, "setuid") /\ Sees /\ \E x : Set(p, U(x))
    BY <1>5, Zenon DEF prot_uid, U
  <2>. QED BY <1>0, <1>1, <1>2, <2>1 DEF At
<1>6. CASE doit(p)
  <2>1. /\ At(p, "setrlimit")
        /\ \/ \E code : Exit(p, code)
           \/ Set(p, Q) /\ Sees
           \/ Sees /\ \E x, y, z : Set(p, T(x, y, z))
    BY <1>6 DEF doit, Q, T
  <2>2. proc[p].pc = "setrlimit" /\ proc[p].pc \in Going
    BY <1>0, <2>1 DEF At
  <2>3. CASE \E code : Exit(p, code)
    BY <2>2, <2>3, ExitStops DEF Kinds
  <2>4. CASE Set(p, Q) /\ Sees
    BY <1>0, <1>1, <1>2, <2>2, <2>4
  <2>5. CASE Sees /\ \E x, y, z : Set(p, T(x, y, z))
    BY <1>0, <1>1, <1>2, <2>2, <2>5
  <2>. QED BY <2>1, <2>3, <2>4, <2>5
<1>7. CASE Setsid(p)
  <2>1. At(p, "setsid") /\ Sees /\ \E x : Set(p, P(x))
    BY <1>7, Zenon DEF Setsid, P
  <2>. QED BY <1>0, <1>1, <1>2, <2>1 DEF At
<1>. QED BY <1>3, <1>4, <1>5, <1>6, <1>7

LEMMA ExecveKind ==
  ASSUME Inv, NEW p \in Procs, Execve(p)
  PROVE  Kinds(p)
<1>0. At(p, "execve") /\ proc[p].pc \in Going /\ Fields(proc[p])
  BY DEF Inv, Shaped, Execve, At, Going
<1>1. \/ Exit(p, 111)
      \/ \E env, image, argv :
           /\ Set(p, Loaded(proc[p], image, argv, env))
           /\ \E cmds : view' = [view EXCEPT ![p] = See(Loaded(proc[p], image, argv, env), cmds)]
           /\ locked' = locked
  BY Zenon DEF Execve
<1>2. ASSUME NEW env, NEW image, NEW argv, NEW cmds,
             Set(p, Loaded(proc[p], image, argv, env)),
             view' = [view EXCEPT ![p] = See(Loaded(proc[p], image, argv, env), cmds)],
             locked' = locked
      PROVE  Loads(p)
  <2>. DEFINE r == Loaded(proc[p], image, argv, env)
  <2>1. /\ Fields(r) /\ r.files = proc[p].files /\ r.child = 0 /\ r.image = image
        /\ r.pc = IF image \notin ToolNames THEN "program" ELSE IF image = "softlimit" THEN "setrlimit" ELSE "getopt"
    BY <1>0, LoadedDoes
  <2>2. proc' = [proc EXCEPT ![p] = r] /\ view' = [view EXCEPT ![p] = See(r, cmds)]
    BY <1>2 DEF Set
  <2>. HIDE DEF r
  <2>. QED BY <1>0, <1>2, <2>1, <2>2 DEF Loads
<1>. QED BY <1>0, <1>1, <1>2, ExitStops DEF Kinds

LEMMA StepKinds ==
  ASSUME Inv, Next
  PROVE  (\E p \in Procs : Kinds(p)) \/ (proc' = proc /\ locked' = locked /\ view' = view)
<1>1. ASSUME NEW p \in Procs, Step(p) PROVE Kinds(p)
  <2>1. CASE Lock(p)
    <3>1. At(p, "lock") /\ (Locking(p) \/ \E code : Exit(p, code))
      BY <2>1 DEF Lock, Locking, New
    <3>. QED BY <3>1, ExitStops DEF Kinds, At
  <2>2. CASE WaitPid(p)
    <3>1. Ends(p, IF proc[proc[p].child].code = Crashed THEN 111 ELSE proc[proc[p].child].code)
          /\ locked' = locked /\ At(p, "wait") /\ At(proc[p].child, "ended") /\ Alive(p)
      BY <2>2 DEF WaitPid, Exit, Alive, At
    <3>. QED BY <3>1, EndsStops DEF Kinds
  <2>. QED BY <1>1, <2>1, <2>2, ParseKind, ReadsKind, SetsKind, ExecveKind DEF Step, Kinds
<1>2. ASSUME NEW p \in Procs, CallFails(p) PROVE Kinds(p)
  <2>1. Ends(p, FailCode(p)) /\ locked' = locked /\ proc[p].pc \in Calls
    BY <1>2 DEF CallFails
  <2>2. Alive(p) /\ proc[p].child = 0
    BY <2>1 DEF Calls, Alive, Inv, Parents
  <2>. QED BY <2>1, <2>2, EndsStops DEF Kinds
<1>3. ASSUME NEW p \in Procs, Killed(p) PROVE Kinds(p)
  BY <1>3, EndsStops DEF Kinds, Killed
<1>4. ASSUME NEW p \in Procs, Quit(p) PROVE Kinds(p)
  BY <1>4, ExitStops DEF Kinds, Quit, At
<1>. QED BY <1>1, <1>2, <1>3, <1>4 DEF Next, Kinds, Edit

-----------------------------------------------------------------------------
(* Every step keeps the invariant                                          *)

(* What each kind of step does to the processes                            *)
LEMMA ForkDoes ==
  ASSUME Inv, NEW p \in Procs, Fork(p)
  PROVE  \E q \in Procs : \E r, c :
           /\ At(p, "fork") /\ At(q, "none") /\ p # q
           /\ proc' = [proc EXCEPT ![p] = r, ![q] = c]
           /\ Fields(r) /\ r.pc = "read" /\ r.child = q /\ r.files = proc[p].files /\ r.image = proc[p].image
           /\ Fields(c) /\ c.pc = "execve" /\ c.child = 0 /\ c.image = proc[p].image
           /\ c.files = proc[p].files \cup {Pipe(p)}
           /\ DOMAIN view' = DOMAIN view /\ \A s \in Procs \ {p, q} : view'[s] = view[s]
           /\ \A s \in {p, q} : "locks" \in DOMAIN view'[s] /\ view'[s].locks = view[p].locks
           /\ locked' = locked
<1>1. PICK q \in Kids :
         /\ At(p, "fork") /\ At(q, "none")
         /\ proc' = [proc EXCEPT ![p] = Parent(p, q),
                                 ![q] = [proc[p] EXCEPT !.pc = "execve", !.files = @ \cup {<<"pipe", <<>>, p>>}]]
         /\ view' = [view EXCEPT ![p].child = q,
                                 ![q] = [view[p] EXCEPT !.forked = TRUE, !.pipes = @ \cup {p}]]
         /\ locked' = locked
  BY DEF Fork
<1>. DEFINE r == Parent(p, q)
            c == [proc[p] EXCEPT !.pc = "execve", !.files = @ \cup {<<"pipe", <<>>, p>>}]
<1>2. q \in Procs /\ p # q
  BY <1>1 DEF Procs, At
<1>3. Fields(proc[p]) /\ proc[p].child = 0
  BY <1>1 DEF Inv, Shaped, Parents, At
<1>4. Fields(r) /\ r.pc = "read" /\ r.child = q /\ r.files = proc[p].files /\ r.image = proc[p].image
  BY <1>3 DEF Fields, Parent
<1>5. Fields(c) /\ c.pc = "execve" /\ c.child = 0 /\ c.image = proc[p].image
      /\ c.files = proc[p].files \cup {Pipe(p)}
  BY <1>3 DEF Fields, Pipe
<1>6. "locks" \in DOMAIN view[p] /\ DOMAIN view = Procs
  BY <1>1 DEF Inv, Shaped, Alive, At
<1>7. /\ DOMAIN view' = DOMAIN view /\ \A s \in Procs \ {p, q} : view'[s] = view[s]
      /\ view'[p] = [view[p] EXCEPT !.child = q]
      /\ view'[q] = [view[p] EXCEPT !.forked = TRUE, !.pipes = @ \cup {p}]
  BY <1>1, <1>2, <1>6
<1>8. \A s \in {p, q} : "locks" \in DOMAIN view'[s] /\ view'[s].locks = view[p].locks
  BY <1>6, <1>7
<1>9. proc' = [proc EXCEPT ![p] = r, ![q] = c]
  BY <1>1
<1>. HIDE DEF r, c
<1>10. \E a, b :
         /\ proc' = [proc EXCEPT ![p] = a, ![q] = b]
         /\ Fields(a) /\ a.pc = "read" /\ a.child = q /\ a.files = proc[p].files /\ a.image = proc[p].image
         /\ Fields(b) /\ b.pc = "execve" /\ b.child = 0 /\ b.image = proc[p].image
         /\ b.files = proc[p].files \cup {Pipe(p)}
  BY <1>4, <1>5, <1>9, Zenon
<1>. QED BY <1>1, <1>2, <1>7, <1>8, <1>10

(* Steps that change no open file                                          *)

LEMMA MovesKeep ==
  ASSUME Inv, NEW p \in Procs, Moves(p)
  PROVE  Inv'
<1>0. /\ Shaped /\ Tooled /\ FilesLocked /\ Opened /\ OwnKept /\ LockedOnce /\ Viewed /\ Parents
      /\ DOMAIN proc = Procs /\ DOMAIN view = Procs
  BY DEF Inv, Locks, Shaped
<1>1. /\ proc[p].pc \in Going /\ proc'[p].pc \in Going /\ proc'[p].image \in ToolNames
      /\ proc'[p].pc = "getpwnam" => proc'[p].image \in Users
      /\ Fields(proc'[p]) /\ proc'[p].files = proc[p].files /\ proc'[p].child = proc[p].child
      /\ DOMAIN proc' = Procs /\ \A s \in Procs : s # p => proc'[s] = proc[s]
      /\ locked' = locked /\ view' = view
  BY <1>0 DEF Moves
<1>2. Shaped'
  BY <1>0, <1>1, GoingCalls DEF Shaped, Alive, At
<1>3. Tooled'
  BY <1>0, <1>1, GoingCalls DEF Tooled, At
<1>4. FilesLocked'
  BY <1>0, <1>1, GoingCalls DEF FilesLocked, At, New
<1>5. Opened'
  BY <1>0, <1>1, GoingCalls DEF Opened, At, New
<1>6. OwnKept'
  BY <1>0, <1>1, GoingCalls DEF OwnKept, At
<1>7. LockedOnce'
  BY <1>0, <1>1, GoingCalls DEF LockedOnce
<1>8. Viewed'
  BY <1>0, <1>1, GoingCalls DEF Viewed, Alive, At
<1>9. Parents'
  BY <1>0, <1>1, GoingCalls DEF Parents, Unpiped, EndedWith, At, Pipe
<1>. QED BY <1>2, <1>3, <1>4, <1>5, <1>6, <1>7, <1>8, <1>9 DEF Inv, Locks


LEMMA EofKeeps ==
  ASSUME Inv, NEW p \in Procs, EndOfFile(p)
  PROVE  Inv'
<1>0. /\ Shaped /\ Tooled /\ FilesLocked /\ Opened /\ OwnKept /\ LockedOnce /\ Viewed /\ Parents
      /\ DOMAIN proc = Procs /\ DOMAIN view = Procs
  BY DEF Inv, Locks, Shaped
<1>1. /\ At(p, "read") /\ Unpiped(p)
      /\ DOMAIN proc' = Procs /\ \A s \in Procs : s # p => proc'[s] = proc[s]
      /\ locked' = locked /\ view' = view
  BY <1>0 DEF EndOfFile, Set, Sees, Unpiped, Pipe
<1>3. proc'[p] = [proc[p] EXCEPT !.pc = "wait"]
  BY <1>0 DEF EndOfFile, Set
<1>2. /\ Fields(proc'[p]) /\ proc'[p].pc = "wait" /\ proc'[p].files = proc[p].files
      /\ proc'[p].child = proc[p].child /\ proc'[p].image = proc[p].image
  BY <1>0, <1>3 DEF Shaped, Fields
<1>4. Shaped'
  BY <1>0, <1>1, <1>2 DEF Shaped, Alive, At
<1>5. Tooled'
  BY <1>0, <1>1, <1>2 DEF Tooled, At
<1>6. FilesLocked'
  BY <1>0, <1>1, <1>2 DEF FilesLocked, At, New
<1>7. Opened'
  BY <1>0, <1>1, <1>2 DEF Opened, At, New
<1>8. OwnKept'
  BY <1>0, <1>1, <1>2 DEF OwnKept, At
<1>9. LockedOnce'
  BY <1>0, <1>1, <1>2 DEF LockedOnce
<1>10. Viewed'
  BY <1>0, <1>1, <1>2 DEF Viewed, Alive, At
<1>11. Parents'
  BY <1>0, <1>1, <1>2 DEF Parents, Unpiped, EndedWith, At, Pipe
<1>. QED BY <1>4, <1>5, <1>6, <1>7, <1>8, <1>9, <1>10, <1>11 DEF Inv, Locks


LEMMA StopsKeep ==
  ASSUME Inv, NEW p \in Procs, Stops(p)
  PROVE  Inv'
<1>0. /\ Shaped /\ Tooled /\ FilesLocked /\ Opened /\ OwnKept /\ LockedOnce /\ Viewed /\ Parents
      /\ DOMAIN proc = Procs /\ DOMAIN view = Procs
  BY DEF Inv, Locks, Shaped
<1>1. /\ Alive(p) /\ Fields(proc'[p]) /\ proc'[p].pc = "ended" /\ proc'[p].files = {}
      /\ proc'[p].child = proc[p].child
      /\ proc[p].child # 0 /\ proc'[p].code # Crashed =>
           /\ At(p, "wait") /\ At(proc[p].child, "ended")
           /\ proc'[p].code = IF proc[proc[p].child].code = Crashed THEN 111 ELSE proc[proc[p].child].code
      /\ DOMAIN proc' = Procs /\ \A s \in Procs : s # p => proc'[s] = proc[s]
      /\ DOMAIN view' = Procs /\ \A s \in Procs : s # p => view'[s] = view[s]
      /\ locked' = locked
  BY <1>0 DEF Stops
<1>2. \A s \in Procs : Unpiped(s) => Unpiped(s)'
  BY <1>1 DEF Unpiped
<1>3. At(p, "wait") => Unpiped(p)
  BY <1>0 DEF Parents
<1>4. EndedWith(p)' \/ proc[p].child = 0 \/ proc'[p].code = Crashed
  <2>1. SUFFICES ASSUME proc[p].child # 0, proc'[p].code # Crashed PROVE EndedWith(p)'
    OBVIOUS
  <2>2. PICK q \in Procs : q = proc[p].child
    BY <1>0, <2>1 DEF Parents
  <2>3. proc'[p].child = q /\ q # p /\ proc'[q] = proc[q] /\ proc[q].pc = "ended"
    BY <1>1, <2>1, <2>2 DEF At
  <2>. QED BY <1>1, <2>1, <2>2, <2>3 DEF EndedWith, At
<1>5. ASSUME NEW s \in Procs, s # p, At(s, "ended"), EndedWith(s) PROVE EndedWith(s)'
  <2>1. PICK q \in Procs : q = proc[s].child
    BY <1>5 DEF EndedWith
  <2>2. proc'[s] = proc[s] /\ proc[q].pc = "ended" /\ q # p /\ proc'[q] = proc[q]
    BY <1>1, <1>5, <2>1 DEF EndedWith, Alive, At
  <2>. QED BY <1>5, <2>1, <2>2 DEF EndedWith, At
<1>6. Shaped'
  BY <1>0, <1>1 DEF Shaped, Alive, At
<1>7. Tooled'
  BY <1>0, <1>1 DEF Tooled, At
<1>8. FilesLocked'
  BY <1>0, <1>1 DEF FilesLocked, At, New
<1>9. Opened'
  BY <1>0, <1>1 DEF Opened, At, New
<1>10. OwnKept'
  BY <1>0, <1>1 DEF OwnKept, At
<1>11. LockedOnce'
  BY <1>0, <1>1 DEF LockedOnce
<1>12. Viewed'
  BY <1>0, <1>1 DEF Viewed, Alive, At
<1>13. Parents'
  BY <1>0, <1>1, <1>2, <1>3, <1>4, <1>5 DEF Parents, At
<1>. QED BY <1>6, <1>7, <1>8, <1>9, <1>10, <1>11, <1>12, <1>13 DEF Inv, Locks


LEMMA LoadsKeep ==
  ASSUME Inv, NEW p \in Procs, Loads(p)
  PROVE  Inv'
<1>0. /\ Shaped /\ Tooled /\ FilesLocked /\ Opened /\ OwnKept /\ LockedOnce /\ Viewed /\ Parents
      /\ DOMAIN proc = Procs /\ DOMAIN view = Procs
  BY DEF Inv, Locks, Shaped
<1>1. /\ At(p, "execve") /\ Fields(proc'[p]) /\ proc'[p].files = proc[p].files /\ proc'[p].child = 0
      /\ proc'[p].pc \in {"program", "setrlimit", "getopt"}
      /\ proc'[p].pc # "program" => proc'[p].image \in ToolNames
      /\ DOMAIN proc' = Procs /\ \A s \in Procs : s # p => proc'[s] = proc[s]
      /\ DOMAIN view' = Procs /\ \A s \in Procs : s # p => view'[s] = view[s]
      /\ "locks" \in DOMAIN view'[p]
      /\ view'[p].locks = {<<f[2], f[3]>> : f \in {g \in proc[p].files : g[1] = "file"}}
      /\ locked' = locked
  BY <1>0 DEF Loads, See
<1>2. "setrlimit" \in Going /\ "getopt" \in Going
  BY DEF Going
<1>3. Shaped'
  BY <1>0, <1>1 DEF Shaped, Alive, At
<1>4. Tooled'
  BY <1>0, <1>1, <1>2 DEF Tooled, At
<1>5. FilesLocked'
  BY <1>0, <1>1 DEF FilesLocked, At, New
<1>6. Opened'
  BY <1>0, <1>1 DEF Opened, At, New
<1>7. OwnKept'
  BY <1>0, <1>1 DEF OwnKept, At
<1>8. LockedOnce'
  BY <1>0, <1>1 DEF LockedOnce
<1>9. Viewed'
  BY <1>0, <1>1 DEF Viewed, Alive, At, FilesLocked
<1>10. Parents'
  BY <1>0, <1>1 DEF Parents, Unpiped, EndedWith, At, Pipe
<1>. QED BY <1>3, <1>4, <1>5, <1>6, <1>7, <1>8, <1>9, <1>10 DEF Inv, Locks



(* setlock opens its file: whoever made an open file has it, so that it is *)
(* a new one.                                                              *)
LEMMA OpensKeep ==
  ASSUME Inv, NEW p \in Procs, OpenAppend(p)
  PROVE  Inv'
<1>0. /\ Shaped /\ Tooled /\ FilesLocked /\ Opened /\ OwnKept /\ LockedOnce /\ Viewed /\ Parents
      /\ DOMAIN proc = Procs /\ DOMAIN view = Procs
  BY DEF Inv, Locks, Shaped
<1>1. /\ At(p, "open_append")
      /\ DOMAIN proc' = Procs /\ \A s \in Procs : s # p => proc'[s] = proc[s]
      /\ locked' = locked /\ view' = view
  BY <1>0 DEF OpenAppend, Set, Sees, New
<1>5. proc'[p] = [proc[p] EXCEPT !.pc = "lock", !.files = @ \cup {New(p)}]
  BY <1>0 DEF OpenAppend, Set, New
<1>2. /\ Fields(proc'[p]) /\ proc'[p].pc = "lock" /\ proc'[p].files = proc[p].files \cup {New(p)}
      /\ proc'[p].child = proc[p].child /\ proc'[p].image = proc[p].image /\ proc'[p].arg = proc[p].arg
  BY <1>0, <1>5 DEF Shaped, Fields
<1>3. New(p)[1] = "file" /\ New(p)[3] = p /\ \A s \in Procs : Pipe(s) # New(p)
  BY DEF New, Pipe
<1>4. New(p) \in locked => New(p) \in proc[p].files
  BY <1>0, <1>1, <1>3 DEF OwnKept, At
<1>6. Shaped'
  BY <1>0, <1>1, <1>2 DEF Shaped, Alive, At
<1>7. Tooled'
  BY <1>0, <1>1, <1>2 DEF Tooled, At
<1>8. FilesLocked'
  BY <1>0, <1>1, <1>2 DEF FilesLocked, At, New
<1>9. Opened'
  BY <1>0, <1>1, <1>2 DEF Opened, At, New
<1>10. OwnKept'
  BY <1>0, <1>1, <1>2 DEF OwnKept, At
<1>11. LockedOnce'
  BY <1>0, <1>1, <1>2, <1>4 DEF LockedOnce
<1>12. Viewed'
  BY <1>0, <1>1, <1>2 DEF Viewed, Alive, At
<1>13. Parents'
  BY <1>0, <1>1, <1>2, <1>3 DEF Parents, Unpiped, EndedWith, At, Pipe
<1>. QED BY <1>6, <1>7, <1>8, <1>9, <1>10, <1>11, <1>12, <1>13 DEF Inv, Locks



(* setlock gets the lock that nobody holds.                                *)
LEMMA LockingKeeps ==
  ASSUME Inv, NEW p \in Procs, Locking(p)
  PROVE  Inv'
<1>0. /\ Shaped /\ Tooled /\ FilesLocked /\ Opened /\ OwnKept /\ LockedOnce /\ Viewed /\ Parents
      /\ DOMAIN proc = Procs /\ DOMAIN view = Procs
  BY DEF Inv, Locks, Shaped
<1>1. /\ At(p, "lock")
      /\ DOMAIN proc' = Procs /\ \A s \in Procs : s # p => proc'[s] = proc[s]
      /\ view' = view
  BY <1>0 DEF Locking, Set
<1>6. proc'[p] = [proc[p] EXCEPT !.pc = "execve"]
  BY <1>0 DEF Locking, Set
<1>2. /\ Fields(proc'[p]) /\ proc'[p].pc = "execve" /\ proc'[p].files = proc[p].files
      /\ proc'[p].child = proc[p].child /\ proc'[p].image = proc[p].image
  BY <1>0, <1>6 DEF Shaped, Fields
<1>3. /\ New(p)[1] = "file" /\ New(p)[2] = proc[p].arg /\ New(p)[3] = p
      /\ New(p) \in proc[p].files /\ New(p) \in locked'
  BY <1>0, <1>1 DEF New, Opened, Locking
<1>4. /\ \A o \in locked' : o \in locked \/ o = New(p)
      /\ \A s \in Procs : \A f \in proc[s].files : f \in locked => f \in locked'
      /\ \A s \in Procs : \A f \in proc[s].files : f \in locked => f[2] # proc[p].arg
  BY DEF Locking, HasLock
<1>5. "execve" \in Going
  BY DEF Going
<1>7. Shaped'
  BY <1>0, <1>1, <1>2 DEF Shaped, Alive, At
<1>8. Tooled'
  BY <1>0, <1>1, <1>2, <1>5 DEF Tooled, At
<1>9. FilesLocked'
  BY <1>0, <1>1, <1>2, <1>3, <1>4 DEF FilesLocked, At, New
<1>10. Opened'
  BY <1>0, <1>1, <1>2 DEF Opened, At, New
<1>11. OwnKept'
  BY <1>0, <1>1, <1>2, <1>3, <1>4 DEF OwnKept, At
<1>12. LockedOnce'
  BY <1>0, <1>1, <1>2, <1>3, <1>4 DEF LockedOnce
<1>13. Viewed'
  BY <1>0, <1>1, <1>2, <1>4 DEF Viewed, Alive, At
<1>14. Parents'
  BY <1>0, <1>1, <1>2 DEF Parents, Unpiped, EndedWith, At, Pipe
<1>. QED BY <1>7, <1>8, <1>9, <1>10, <1>11, <1>12, <1>13, <1>14 DEF Inv, Locks



(* A program closes a file, and so lets go of its lock.                    *)
LEMMA CloseKeeps ==
  ASSUME Inv, NEW p \in Procs, Close(p)
  PROVE  Inv'
<1>0. /\ Shaped /\ Tooled /\ FilesLocked /\ Opened /\ OwnKept /\ LockedOnce /\ Viewed /\ Parents
      /\ DOMAIN proc = Procs /\ DOMAIN view = Procs
  BY DEF Inv, Locks, Shaped
<1>1. PICK f \in proc[p].files :
         LET r == [proc[p] EXCEPT !.files = @ \ {f}]
         IN  Set(p, r) /\ view' = [view EXCEPT ![p] = See(r, @.cmds)]
  BY DEF Close
<1>2. /\ At(p, "program")
      /\ DOMAIN proc' = Procs /\ \A s \in Procs : s # p => proc'[s] = proc[s]
      /\ DOMAIN view' = Procs /\ \A s \in Procs : s # p => view'[s] = view[s]
      /\ view'[p] = See(proc'[p], view[p].cmds)
      /\ locked' = locked
  BY <1>0, <1>1 DEF Close, Set
<1>5. proc'[p] = [proc[p] EXCEPT !.files = @ \ {f}]
  BY <1>0, <1>1 DEF Set
<1>3. /\ Fields(proc'[p]) /\ proc'[p].pc = "program" /\ proc'[p].files = proc[p].files \ {f}
      /\ proc'[p].child = proc[p].child
  BY <1>0, <1>2, <1>5 DEF Shaped, Fields, At
<1>4. /\ "locks" \in DOMAIN view'[p]
      /\ view'[p].locks = {<<h[2], h[3]>> : h \in {g \in proc'[p].files : g[1] = "file"}}
  BY <1>2 DEF See
<1>6. Shaped'
  BY <1>0, <1>2, <1>3, <1>4 DEF Shaped, Alive, At
<1>7. Tooled'
  BY <1>0, <1>2, <1>3 DEF Tooled, At
<1>8. FilesLocked'
  BY <1>0, <1>2, <1>3 DEF FilesLocked, At, New
<1>9. Opened'
  BY <1>0, <1>2, <1>3 DEF Opened, At, New
<1>10. OwnKept'
  BY <1>0, <1>2, <1>3 DEF OwnKept, At
<1>11. LockedOnce'
  BY <1>0, <1>2, <1>3 DEF LockedOnce
<1>12. Viewed'
  BY <1>0, <1>2, <1>3, <1>4 DEF Viewed, Alive, At, FilesLocked
<1>13. Parents'
  BY <1>0, <1>2, <1>3, SMTT(30) DEF Parents, Unpiped, EndedWith, At, Pipe
<1>. QED BY <1>6, <1>7, <1>8, <1>9, <1>10, <1>11, <1>12, <1>13 DEF Inv, Locks



(* A program forks: the new process has the same files and locks.          *)
LEMMA DaemonKeeps ==
  ASSUME Inv, NEW p \in Procs, Daemonize(p)
  PROVE  Inv'
<1>0. /\ Shaped /\ Tooled /\ FilesLocked /\ Opened /\ OwnKept /\ LockedOnce /\ Viewed /\ Parents
      /\ DOMAIN proc = Procs /\ DOMAIN view = Procs
  BY DEF Inv, Locks, Shaped
<1>1. PICK q \in Procs :
         /\ At(p, "program") /\ At(q, "none")
         /\ proc' = [proc EXCEPT ![q] = proc[p]] /\ view' = [view EXCEPT ![q] = view[p]]
         /\ locked' = locked
  BY DEF Daemonize, Procs
<1>2. /\ p # q /\ proc'[q] = proc[p] /\ view'[q] = view[p]
      /\ DOMAIN proc' = Procs /\ \A s \in Procs : s # q => proc'[s] = proc[s]
      /\ DOMAIN view' = Procs /\ \A s \in Procs : s # q => view'[s] = view[s]
  BY <1>0, <1>1 DEF At
<1>3. Shaped'
  BY <1>0, <1>1, <1>2 DEF Shaped, Alive, At
<1>4. Tooled'
  BY <1>0, <1>1, <1>2 DEF Tooled, At
<1>5. FilesLocked'
  BY <1>0, <1>1, <1>2 DEF FilesLocked, At, New
<1>6. Opened'
  BY <1>0, <1>1, <1>2 DEF Opened, At, New
<1>7. OwnKept'
  BY <1>0, <1>1, <1>2 DEF OwnKept, At
<1>8. LockedOnce'
  BY <1>0, <1>1, <1>2 DEF LockedOnce
<1>9. Viewed'
  BY <1>0, <1>1, <1>2 DEF Viewed, Alive, At
<1>10. Parents'
  BY <1>0, <1>1, <1>2, ZenonT(30) DEF Parents, Unpiped, EndedWith, At, Pipe
<1>. QED BY <1>3, <1>4, <1>5, <1>6, <1>7, <1>8, <1>9, <1>10 DEF Inv, Locks



(* fghack forks: the child has the files and the pipe.                     *)
LEMMA ForkKeeps ==
  ASSUME Inv, NEW p \in Procs, Fork(p)
  PROVE  Inv'
<1>0. /\ Shaped /\ Tooled /\ FilesLocked /\ Opened /\ OwnKept /\ LockedOnce /\ Viewed /\ Parents
      /\ DOMAIN proc = Procs /\ DOMAIN view = Procs
  BY DEF Inv, Locks, Shaped
<1>1. PICK q \in Procs : \E r, c :
         /\ At(p, "fork") /\ At(q, "none") /\ p # q
         /\ proc' = [proc EXCEPT ![p] = r, ![q] = c]
         /\ Fields(r) /\ r.pc = "read" /\ r.child = q /\ r.files = proc[p].files /\ r.image = proc[p].image
         /\ Fields(c) /\ c.pc = "execve" /\ c.child = 0 /\ c.image = proc[p].image
         /\ c.files = proc[p].files \cup {Pipe(p)}
         /\ DOMAIN view' = DOMAIN view /\ \A s \in Procs \ {p, q} : view'[s] = view[s]
         /\ \A s \in {p, q} : "locks" \in DOMAIN view'[s] /\ view'[s].locks = view[p].locks
         /\ locked' = locked
  BY ForkDoes, Zenon
<1>2. /\ Fields(proc'[p]) /\ proc'[p].pc = "read" /\ proc'[p].child = q
      /\ proc'[p].files = proc[p].files /\ proc'[p].image = proc[p].image
      /\ Fields(proc'[q]) /\ proc'[q].pc = "execve" /\ proc'[q].child = 0 /\ proc'[q].image = proc[p].image
      /\ proc'[q].files = proc[p].files \cup {Pipe(p)}
      /\ DOMAIN proc' = Procs /\ \A s \in Procs : s \notin {p, q} => proc'[s] = proc[s]
  BY <1>0, <1>1
<1>3. Pipe(p)[1] # "file" /\ Pipe(p) \notin locked /\ \A s \in Procs : s # p => Pipe(s) # Pipe(p)
  BY <1>0 DEF Pipe, FilesLocked
<1>4. "execve" \in Going
  BY DEF Going
<1>5. Shaped'
  BY <1>0, <1>1, <1>2, <1>3 DEF Shaped, Alive, At
<1>6. Tooled'
  BY <1>0, <1>1, <1>2, <1>4 DEF Tooled, At
<1>7. FilesLocked'
  BY <1>0, <1>1, <1>2, <1>3 DEF FilesLocked, At, New
<1>8. Opened'
  BY <1>0, <1>1, <1>2, <1>3 DEF Opened, At, New
<1>9. OwnKept'
  BY <1>0, <1>1, <1>2, <1>3 DEF OwnKept, At, Tooled
<1>10. LockedOnce'
  BY <1>0, <1>1, <1>2, <1>3 DEF LockedOnce
<1>11. Viewed'
  BY <1>0, <1>1, <1>2, <1>3 DEF Viewed, Alive, At
<1>12. Parents'
  BY <1>0, <1>1, <1>2, <1>3 DEF Parents, Unpiped, EndedWith, At, Pipe
<1>. QED BY <1>5, <1>6, <1>7, <1>8, <1>9, <1>10, <1>11, <1>12 DEF Inv, Locks

LEMMA InvStep == Inv /\ [Next]_vars => Inv'
<1>1. ASSUME Inv, Next PROVE Inv'
  <2>1. CASE proc' = proc /\ locked' = locked /\ view' = view
    BY <1>1, <2>1
    DEF Inv, Shaped, Tooled, Locks, FilesLocked, Opened, OwnKept, LockedOnce, Viewed, Parents, Alive, At, New, Unpiped,
        EndedWith
  <2>. QED
    BY <1>1, <2>1, StepKinds, MovesKeep, StopsKeep, OpensKeep, LockingKeeps, ForkKeeps, EofKeeps, LoadsKeep, DaemonKeeps,
       CloseKeeps DEF Kinds
<1>2. ASSUME Inv, UNCHANGED vars PROVE Inv'
  BY <1>2
  DEF vars, Inv, Shaped, Tooled, Locks, FilesLocked, Opened, OwnKept, LockedOnce, Viewed, Parents, Alive, At, New, Unpiped,
      EndedWith
<1>. QED BY <1>1, <1>2

LEMMA InvInit == Init => Inv
<1>. SUFFICES ASSUME Init PROVE Inv
  OBVIOUS
<1>1. PICK line \in Lines :
         /\ proc = [p \in Procs |-> IF p \in DOMAIN line THEN Started(line[p]) ELSE NoProc]
         /\ view = [p \in Procs |-> IF p \in DOMAIN line THEN See(Started(line[p]), line[p].cmds) ELSE NoView]
  BY DEF Init
<1>2. Fields(NoProc) /\ NoProc.pc = "none" /\ NoProc.files = {} /\ NoProc.child = 0
  BY DEF Fields, NoProc
<1>3. \A l : /\ Fields(Started(l)) /\ Started(l).files = {} /\ Started(l).child = 0
             /\ Started(l).pc \in {"program", "setrlimit", "getopt"}
             /\ Started(l).pc # "program" => Started(l).image \in ToolNames
  <2>. SUFFICES ASSUME NEW l
                PROVE  /\ Fields(Started(l)) /\ Started(l).files = {} /\ Started(l).child = 0
                       /\ Started(l).pc \in {"program", "setrlimit", "getopt"}
                       /\ Started(l).pc # "program" => Started(l).image \in ToolNames
    OBVIOUS
  <2>. DEFINE r == [NoProc EXCEPT !.cred = l.cred, !.lim = l.lim, !.cwd = <<"/">>]
  <2>1. Fields(r) /\ r.files = {}
    BY DEF Fields, NoProc
  <2>2. Started(l) = Loaded(r, l.cmds[1].tool, l.argv, l.env)
    BY DEF Started
  <2>. HIDE DEF r
  <2>. QED BY <2>1, <2>2, LoadedDoes
<1>4. \A r, cmds : r.files = {} => "locks" \in DOMAIN See(r, cmds) /\ See(r, cmds).locks = {}
  BY DEF See
<1>5. \A p \in Procs : /\ Fields(proc[p]) /\ proc[p].files = {} /\ proc[p].child = 0
                       /\ proc[p].pc \in {"program", "setrlimit", "getopt", "none"}
                       /\ proc[p].pc \notin {"program", "none"} => proc[p].image \in ToolNames
                       /\ proc[p].pc # "none" => "locks" \in DOMAIN view[p] /\ view[p].locks = {}
  BY <1>1, <1>2, <1>3, <1>4
<1>6. DOMAIN proc = Procs /\ DOMAIN view = Procs /\ locked = {}
  BY <1>1 DEF Init
<1>7. Shaped /\ Tooled
  BY <1>5, <1>6 DEF Shaped, Tooled, Alive, At, Going
<1>8. Locks
  BY <1>5, <1>6 DEF Locks, FilesLocked, Opened, OwnKept, LockedOnce, Viewed, Alive, At
<1>9. Parents
  BY <1>5 DEF Parents, At
<1>. QED BY <1>7, <1>8, <1>9 DEF Inv

(* Every step of a tool or a program, every failing call, kill and change  *)
(* of the directory keeps the invariant.                                   *)
THEOREM ChainInvariant == Spec => []Inv
  BY InvInit, InvStep, PTL DEF Spec

(* Two programs behind setlock on one file never run at once, but for the  *)
(* processes of one command: through any execve(), fork(), close() and     *)
(* death the lock stays with those that have inherited its open file       *)
(* (setlock.c:48, pathexec_run.c).                                         *)
THEOREM ChainOneHolder == Spec => []OneHolder
<1>1. Inv => OneHolder
  BY DEF Inv, Locks, Viewed, LockedOnce, OneHolder
<1>. QED BY <1>1, ChainInvariant, PTL

(* An fghack that has not been killed ends with its child's code, and when *)
(* no process has its pipe any more, whatever the program forks.           *)
THEOREM ChainFghackLast == Spec => []FghackLast
<1>1. Inv => FghackLast
  BY DEF Inv, Parents, Unpiped, EndedWith, Pipe, FghackLast
<1>. QED BY <1>1, ChainInvariant, PTL

=============================================================================
