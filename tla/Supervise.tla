------------------------------ MODULE Supervise ------------------------------
(***************************************************************************)
(* One supervise process (supervise.c).  It starts, restarts and stops the *)
(* scripts of one service directory -- ./start, ./run and ./stop for the   *)
(* main service, ./log for the optional logger, ./notify for notices --    *)
(* under the command bytes that svc and supervise's own signal handlers    *)
(* write into supervise/control.                                           *)
(*                                                                         *)
(* supervise is one thread.  Its steps are the children that reaper()      *)
(* collects, the bytes that controller() reads, and the ends of a turn of  *)
(* doit().  Children, svc commands and signals interleave with them.       *)
(* Operators and fields keep the names of the C program; a C function that *)
(* ends in another call is an operator whose arguments are the values its  *)
(* caller has already assigned.  Time stamps and message texts are left    *)
(* out; main()'s set-up before the first trystart is the initial state.    *)
(***************************************************************************)
EXTENDS Integers, Sequences

CONSTANTS
  Pids,         \* the process ids the kernel gives to supervise's children
  NoPid,        \* the value 0 of svc.pid
  Layouts,      \* the service directories to consider
  Requests,     \* the byte sequences that svc commands write
  Handled,      \* which of the signals TERM (or INT), TSTP, CONT reach supervise
  Outcomes,     \* the ways a child may end, see AllOutcomes
  FifoSize,     \* bound: bytes the control fifo holds
  MaxWrites,    \* bound: writes into the control fifo
  ForkMayFail,  \* may fork() fail?  If not, Pids must never run out.
  MayEdit       \* may the service directory change while supervise runs?

VARIABLES
  dir,        \* the service directory
  logpipe,    \* logpipe[0] >= 0: there was an executable ./log at start-up
  svc,        \* svcmain and svclog
  flagexit,
  firstrun,
  runscript,
  pc,         \* where supervise's only thread is
  cur,        \* the local pointer "svc" of reaper() and controller()
  wstat,      \* how the child that reaper() handles ended
  killgroup,  \* the local of controller(): TRUE for -1
  fifo,       \* supervise/control
  wake,       \* a byte in selfpipe, or SIGCHLD pending while blocked
  child,      \* supervise's children
  status,     \* the contents of supervise/status
  writes      \* how many writes into the fifo there have been

(* supervise's thread, its environment, and all of it *)
thread == <<logpipe, svc, flagexit, firstrun, runscript, pc, cur, wstat, killgroup, status>>
vars   == <<dir, logpipe, svc, flagexit, firstrun, runscript, pc, cur, wstat, killgroup,
            fifo, wake, child, status, writes>>

-----------------------------------------------------------------------------
Services    == {"main", "log"}
Scripts     == {"start", "run", "stop", "log", "notify"}
Files       == Scripts \cup {"no-setsid", "down"}
FileState   == {"absent", "plain", "exec", "error"}   \* "error": stat() fails
Statuses    == {"stopped", "starting", "started", "running", "stopping", "failed"}
AllOutcomes == {"zero", "other", "hundred", "signal"} \* exit 0, 100, else; killed
Signals     == {"ALRM", "HUP", "KILL", "TERM", "INT", "QUIT", "USR1", "USR2",
                "WINCH", "STOP", "CONT"}
Bytes       == {"+", "=", "L", "l", "d", "u", "o", "a", "h", "k", "t", "i", "q",
                "1", "2", "w", "p", "c", "x"}

SvcRecord    == [pid : Pids \cup {NoPid}, flagstatus : Statuses, flagwant : BOOLEAN,
                 flagwantup : BOOLEAN, flagpaused : BOOLEAN, ranstop : BOOLEAN]
StatusRecord == [pid : Pids \cup {NoPid}, paused : BOOLEAN,
                 want : {"up", "down", "none"}, flagstatus : Statuses]
(* A child is "none" (no such process), running, stopped by SIGSTOP, or a  *)
(* zombie.  "fate" is what it cannot escape: SIGTERM sent, SIGKILL sent,   *)
(* or an execve() that fails.  "leader": it leads a process group.         *)
ChildRecord  == [script : Scripts, state : {"none", "live", "halted", "zombie"},
                 fate : {"free", "term", "kill", "noexec"}, leader : BOOLEAN,
                 outcome : AllOutcomes]
(* A byte in the fifo, who wrote it and what its writer means it for.      *)
FifoRecord   == [ch : Bytes, from : {"svc", "handler"}, svc : Services, group : BOOLEAN]

ASSUME SuperviseAssumption ==
  /\ NoPid \notin Pids
  /\ Layouts \subseteq [Files -> FileState]
  /\ \A d \in Layouts : d["down"] # "error"
  /\ Requests \subseteq Seq(Bytes)
  /\ Handled \subseteq {"TERM", "TSTP", "CONT"}
  /\ Outcomes \subseteq AllOutcomes
  /\ FifoSize \in Nat /\ MaxWrites \in Nat
  /\ ForkMayFail \in BOOLEAN /\ MayEdit \in BOOLEAN

NoChild == [script |-> "notify", state |-> "none", fate |-> "free",
            leader |-> FALSE, outcome |-> "zero"]

-----------------------------------------------------------------------------
(* The status file *)

make_status(r) ==
  [pid |-> r.pid,
   paused |-> r.pid # NoPid /\ r.flagpaused,
   want |-> IF ~r.flagwant THEN "none" ELSE IF r.flagwantup THEN "up" ELSE "down",
   flagstatus |-> r.flagstatus]

Announced(sv) == [s \in IF logpipe THEN Services ELSE {"main"} |-> make_status(sv[s])]

(* Mutant: the status is written before the assignments take place.        *)
announce_early(sv) == svc' = sv /\ status' = Announced(svc)

announce(sv) == svc' = sv /\ status' = Announced(sv)

(* What svstat says of a service with this status, in a directory with or  *)
(* without the file down                                                   *)
showstatus(r, normallyup) ==
  LET up == r.pid # NoPid
  IN  {IF up THEN "up" ELSE "down", r.flagstatus}
      \cup {w \in {"normally down"} : up /\ ~normallyup}
      \cup {w \in {"normally up"} : ~up /\ normallyup}
      \cup {w \in {"paused"} : up /\ r.paused}
      \cup {w \in {"want up"} : ~up /\ r.want = "up"}
      \cup {w \in {"want down"} : up /\ r.want = "down"}
      \cup {w \in {"once"} : up /\ r.want = "none"}

(* What svstat prints; opt is "L", "l" or no option.                       *)
svstat(opt) ==
  [s \in {t \in DOMAIN status : (t = "main" => opt # "L") /\ (t = "log" => opt # "l")}
     |-> showstatus(status[s], dir["down"] = "absent")]

(* svup exits 0; opt is "L", "l" or no option.                             *)
checkstatus(r) == r.pid # NoPid \/ r.flagstatus \in {"started", "running"}
svup(opt) == /\ opt # "L" => checkstatus(status["main"])
             /\ opt = "L" => "log" \in DOMAIN status
             /\ opt # "l" /\ "log" \in DOMAIN status => checkstatus(status["log"])

-----------------------------------------------------------------------------
(* Children: fork(), execve() and kill() *)

Unused(ch) == {p \in Pids : ch[p].state = "none"}

(* The child sets itself apart unless ./no-setsid exists, then executes    *)
(* the script, or dies if it cannot.                                       *)
Spawn(ch, p, script) ==
  [ch EXCEPT ![p] = [script |-> script, state |-> "live",
                     fate |-> IF dir[script] = "exec" THEN "free" ELSE "noexec",
                     leader |-> dir["no-setsid"] = "absent",
                     outcome |-> "zero"]]

(* The child table is ch and w says whether the self-pipe is readable.     *)
pidchange(sv, ch, w) ==
  /\ announce(sv)
  /\ IF dir["notify"] = "exec"
     THEN \/ \E p \in Unused(ch) : child' = Spawn(ch, p, "notify") /\ wake' = w
          \/ ForkMayFail /\ child' = ch /\ wake' = TRUE      \* trigger()
     ELSE child' = ch /\ wake' = w

(* Service s forks script.  svc becomes ok (with the new pid) and is       *)
(* announced; if fork() fails svc becomes failed, the status file keeps    *)
(* the contents file, and trigger() follows a minute's sleep.              *)
forkexecve(s, script, ok, failed, file) ==
  \/ \E p \in Unused(child) :
       pidchange([ok EXCEPT ![s].pid = p, ![s].flagpaused = FALSE],
                 Spawn(child, p, script), wake)
  \/ /\ ForkMayFail
     /\ svc' = failed
     /\ status' = file
     /\ child' = child
     /\ wake' = TRUE

Deliver(c, sig) ==
  IF c.state \notin {"live", "halted"} THEN c
  ELSE [c EXCEPT !.state = CASE sig = "STOP" -> "halted" [] sig = "CONT" -> "live" [] OTHER -> @,
                 !.fate  = CASE sig = "KILL" -> "kill"
                             [] sig = "TERM" /\ c.fate = "free" -> "term" [] OTHER -> @]

(* kill(-pid) reaches nobody if the child leads no process group.          *)
killsvc(ch, s, group, sig) ==
  LET p == svc[s].pid
  IN  IF p = NoPid \/ (group /\ ~ch[p].leader) THEN ch
      ELSE [ch EXCEPT ![p] = Deliver(@, sig)]

(* The kernel also raises SIGCHLD when a child is stopped or continued.    *)
Signalled(ch) ==
  /\ child' = ch
  /\ wake' = (wake \/ \E p \in Pids : ch[p].state # child[p].state)

(* Mutant: the SIGCONT is forgotten.                                       *)
stopsvc_no_cont(s, group, sv) ==
  /\ Signalled(killsvc(child, s, group, "TERM"))
  /\ svc' = [sv EXCEPT ![s].flagpaused = FALSE, ![s].flagstatus = "stopping",
                       ![s].ranstop = FALSE]

(* Mutant: flagpaused is not reset.                                        *)
stopsvc_paused(s, group, sv) ==
  /\ Signalled(killsvc(killsvc(child, s, group, "TERM"), s, group, "CONT"))
  /\ svc' = [sv EXCEPT ![s].flagstatus = "stopping", ![s].ranstop = FALSE]

stopsvc(s, group, sv) ==
  /\ Signalled(killsvc(killsvc(child, s, group, "TERM"), s, group, "CONT"))
  /\ svc' = [sv EXCEPT ![s].flagpaused = FALSE, ![s].flagstatus = "stopping",
                       ![s].ranstop = FALSE]

-----------------------------------------------------------------------------
(* Starting and stopping a service *)

stat_isexec(f) == CASE dir[f] = "exec" -> 1 [] dir[f] = "error" -> -1 [] OTHER -> 0
stat_exists(f) == CASE dir[f] = "absent" -> 0 [] dir[f] = "error" -> -1 [] OTHER -> 1

trystart(s, sv, first, file) ==
  LET begin(script, st) ==
        LET sv2 == [sv EXCEPT ![s].flagstatus = st]
        IN  forkexecve(s, script, sv2, sv2, file)
      starting == first /\ stat_isexec("start") # 0
  IN  \/ /\ s = "log"
         /\ begin("log", "running")
         /\ firstrun' = first /\ UNCHANGED runscript
      \/ /\ s = "main" /\ starting
         /\ begin("start", "starting")
         /\ firstrun' = TRUE /\ runscript' = "start"
      \/ /\ s = "main" /\ ~starting /\ stat_exists("run") # 0
         /\ begin("run", "running")
         /\ firstrun' = FALSE /\ runscript' = "run"
      \/ /\ s = "main" /\ ~starting /\ stat_exists("run") = 0
         /\ announce([sv EXCEPT ![s].flagwant = FALSE, ![s].flagstatus = "started"])
         /\ firstrun' = FALSE /\ UNCHANGED <<runscript, child, wake>>

(* Mutant: runscript keeps the name of the last script.                    *)
trystop_unnamed(s, sv) ==
  /\ UNCHANGED runscript
  /\ IF sv[s].ranstop \/ s # "main" \/ stat_isexec("stop") # 1
     THEN /\ announce([sv EXCEPT ![s].ranstop = TRUE, ![s].flagstatus = "stopped"])
          /\ UNCHANGED <<child, wake>>
     ELSE forkexecve(s, "stop", [sv EXCEPT ![s].ranstop = TRUE], sv, Announced(sv))

trystop(s, sv) ==
  IF sv[s].ranstop \/ s # "main" \/ stat_isexec("stop") # 1
  THEN /\ announce([sv EXCEPT ![s].ranstop = TRUE, ![s].flagstatus = "stopped"])
       /\ UNCHANGED <<runscript, child, wake>>
  ELSE /\ forkexecve(s, "stop", [sv EXCEPT ![s].ranstop = TRUE], sv, Announced(sv))
       /\ runscript' = "stop"

-----------------------------------------------------------------------------
(* main() and doit() *)

Init ==
  /\ dir \in Layouts
  /\ logpipe = (dir["log"] = "exec")
  /\ LET down == dir["down"] # "absent"
         new(wantup) == [pid |-> NoPid, flagstatus |-> "stopped", flagwant |-> TRUE,
                         flagwantup |-> wantup /\ ~down, flagpaused |-> FALSE,
                         ranstop |-> FALSE]
     IN  svc = [s \in Services |-> new(s = "main" \/ logpipe)]
  /\ flagexit = FALSE /\ firstrun = TRUE /\ runscript = "none"
  /\ pc = "bootlog" /\ cur = "main" /\ wstat = "zero" /\ killgroup = FALSE
  /\ fifo = <<>> /\ wake = FALSE /\ writes = 0
  /\ child = [p \in Pids |-> NoChild]
  /\ status = Announced(svc)

Boot(s, here, next) ==
  /\ pc = here /\ pc' = next
  /\ \/ ~(~svc[s].flagwant \/ svc[s].flagwantup)
        /\ UNCHANGED <<svc, status, child, wake, firstrun, runscript>>
     \/ (~svc[s].flagwant \/ svc[s].flagwantup) /\ trystart(s, svc, firstrun, status)
  /\ UNCHANGED <<dir, logpipe, flagexit, cur, wstat, killgroup, fifo, writes>>

BootLog  == Boot("log", "bootlog", "bootmain")
BootMain == Boot("main", "bootmain", "doit")

doit ==
  /\ pc = "doit" /\ pc' = "wait"
  /\ announce(svc)
  /\ UNCHANGED <<dir, logpipe, flagexit, firstrun, runscript, cur, wstat, killgroup,
                 fifo, wake, child, writes>>

(* iopause() returns: the self-pipe or the fifo is readable, or its time   *)
(* is up.  Nobody waits for the time-out but a child whose SIGCHLD was     *)
(* merged into another's.                                                  *)
TurnBegins ==
  /\ pc = "wait" /\ pc' = "reaper"
  /\ wake' = FALSE
  /\ UNCHANGED <<dir, logpipe, svc, flagexit, firstrun, runscript, cur, wstat, killgroup,
                 fifo, child, status, writes>>

Wake    == (wake \/ fifo # <<>>) /\ TurnBegins
(* Mutant: iopause() waits without a time-out.                             *)
Timeout_never == FALSE /\ TurnBegins

Timeout == ~(wake \/ fifo # <<>>) /\ TurnBegins

-----------------------------------------------------------------------------
(* reaper() *)

Zombies == {p \in Pids : child[p].state = "zombie"}

EnterController == pc' = "controller" /\ cur' = "main" /\ killgroup' = FALSE

ReapNone ==
  /\ pc = "reaper" /\ Zombies = {}
  /\ EnterController
  /\ UNCHANGED <<dir, logpipe, svc, flagexit, firstrun, runscript, wstat, fifo, wake,
                 child, status, writes>>

(* A child that is no service's: reaper() goes on.                         *)
ReapOther(p) ==
  /\ pc = "reaper" /\ p \in Zombies
  /\ \A s \in Services : svc[s].pid # p
  /\ child' = [child EXCEPT ![p] = NoChild]
  /\ UNCHANGED <<thread, dir, fifo, wake, writes>>

(* Mutant: the pid is kept.                                                *)
Verdict_pid(s, outcome) ==
  LET r == svc[s]
  IN  IF outcome = "hundred" THEN [r EXCEPT !.flagwantup = FALSE, !.flagstatus = "failed"]
      ELSE IF ~(r.flagwant /\ r.flagwantup) THEN [r EXCEPT !.flagstatus = "stopped"] ELSE r

(* The service's record after it ended with this outcome                   *)
Verdict(s, outcome) ==
  LET r == svc[s]
      starting == s = "main" /\ r.flagstatus = "starting"
  IN  IF (starting /\ outcome # "zero") \/ outcome = "hundred"
      THEN [r EXCEPT !.pid = NoPid, !.flagwantup = FALSE, !.flagstatus = "failed"]
      ELSE IF ~starting /\ ~(r.flagwant /\ r.flagwantup)
      THEN [r EXCEPT !.pid = NoPid, !.flagstatus = "stopped"]
      ELSE [r EXCEPT !.pid = NoPid]

ReapSvc(s, p) ==
  /\ pc = "reaper" /\ p \in Zombies
  /\ svc[s].pid = p
  /\ s = "log" => svc["main"].pid # p
  /\ pidchange([svc EXCEPT ![s] = Verdict(s, child[p].outcome)],
               [child EXCEPT ![p] = NoChild], wake)
  /\ firstrun' = FALSE
  /\ pc' = "reaped" /\ cur' = s /\ wstat' = child[p].outcome
  /\ UNCHANGED <<dir, logpipe, flagexit, runscript, killgroup, fifo, writes>>

(* Mutants: the service restarts although wanted down; it never restarts.  *)
Again_down(s)  == svc[s].flagwant \/ (s = "main" /\ svc[s].flagstatus = "starting")
Again_never(s) == s = "main" /\ svc[s].flagstatus = "starting"

Again(s) == \/ svc[s].flagwant /\ svc[s].flagwantup
            \/ s = "main" /\ svc[s].flagstatus = "starting"

(* ... and what reaper() does next about the service, before it breaks off *)
Reaped ==
  /\ pc = "reaped"
  /\ \/ Again(cur) /\ ~flagexit /\ trystart(cur, svc, firstrun, status)
     \/ /\ ~Again(cur) /\ svc[cur].flagstatus # "failed"
        /\ trystop(cur, svc) /\ UNCHANGED firstrun
     \/ /\ IF Again(cur) THEN flagexit ELSE svc[cur].flagstatus = "failed"
        /\ UNCHANGED <<svc, status, child, wake, firstrun, runscript>>
  /\ EnterController /\ wstat' = "zero"
  /\ UNCHANGED <<dir, logpipe, flagexit, fifo, writes>>

-----------------------------------------------------------------------------
(* controller(): one action per group of bytes *)

Command(chars) ==
  /\ pc = "controller" /\ fifo # <<>>
  /\ Head(fifo).ch \in chars
  /\ fifo' = Tail(fifo)
  /\ UNCHANGED <<dir, logpipe, pc, wstat, writes>>

SelectGroup ==
  /\ Command({"+", "="})
  /\ killgroup' = (Head(fifo).ch = "+")
  /\ UNCHANGED <<svc, flagexit, firstrun, runscript, cur, wake, child, status>>

(* Mutant: 'l' is ignored.                                                 *)
SelectService_L ==
  /\ Command({"L", "l"})
  /\ cur' = IF Head(fifo).ch = "L" THEN "log" ELSE cur
  /\ UNCHANGED <<svc, flagexit, firstrun, runscript, killgroup, wake, child, status>>

SelectService ==
  /\ Command({"L", "l"})
  /\ cur' = IF Head(fifo).ch = "L" THEN "log" ELSE "main"
  /\ UNCHANGED <<svc, flagexit, firstrun, runscript, killgroup, wake, child, status>>

Down ==
  /\ Command({"d"})
  /\ LET sv == [svc EXCEPT ![cur].flagwant = TRUE, ![cur].flagwantup = FALSE]
     IN  \/ /\ svc[cur].pid # NoPid
            /\ stopsvc(cur, killgroup, sv) /\ UNCHANGED runscript
         \/ svc[cur].pid = NoPid /\ trystop(cur, sv)
  /\ status' = Announced(svc')
  /\ UNCHANGED <<flagexit, firstrun, cur, killgroup>>

Up ==
  /\ Command({"u"})
  /\ LET idle == svc[cur].pid = NoPid
         sv == [svc EXCEPT ![cur].flagwant = TRUE, ![cur].flagwantup = TRUE,
                           ![cur].flagstatus = IF idle THEN "starting" ELSE @]
         first == IF cur = "main" THEN ~svc["main"].flagwantup ELSE firstrun
     IN  \/ idle /\ trystart(cur, sv, first, Announced(sv))
         \/ /\ ~idle /\ announce(sv) /\ firstrun' = first
            /\ UNCHANGED <<runscript, child, wake>>
  /\ UNCHANGED <<flagexit, cur, killgroup>>

Once ==
  /\ Command({"o"})
  /\ LET idle == svc[cur].pid = NoPid
         sv == [svc EXCEPT ![cur].flagwant = FALSE]
     IN  \/ idle /\ trystart(cur, sv, firstrun, Announced(sv))
         \/ ~idle /\ announce(sv) /\ UNCHANGED <<firstrun, runscript, child, wake>>
  /\ UNCHANGED <<flagexit, cur, killgroup>>

SignalOf(ch) ==
  CASE ch = "a" -> "ALRM" [] ch = "h" -> "HUP" [] ch = "k" -> "KILL" [] ch = "t" -> "TERM"
    [] ch = "i" -> "INT" [] ch = "q" -> "QUIT" [] ch = "1" -> "USR1" [] ch = "2" -> "USR2"
    [] ch = "w" -> "WINCH"

Signal ==
  /\ Command({"a", "h", "k", "t", "i", "q", "1", "2", "w"})
  /\ Signalled(killsvc(child, cur, killgroup, SignalOf(Head(fifo).ch)))
  /\ UNCHANGED <<svc, flagexit, firstrun, runscript, cur, killgroup, status>>

(* 'p' and 'c' *)
Pause ==
  /\ Command({"p", "c"})
  /\ LET stop == Head(fifo).ch = "p"
     IN  /\ announce([svc EXCEPT ![cur].flagpaused = stop])
         /\ Signalled(killsvc(child, cur, killgroup, IF stop THEN "STOP" ELSE "CONT"))
  /\ UNCHANGED <<flagexit, firstrun, runscript, cur, killgroup>>

Exit ==
  /\ Command({"x"})
  /\ flagexit' = TRUE
  /\ announce(svc)
  /\ UNCHANGED <<firstrun, runscript, cur, killgroup, wake, child>>

(* Mutants: supervise also waits for each service to be "stopped"; the     *)
(* logger is stopped before the main service, or only if it has none to    *)
(* run.                                                                    *)
AllDown_stopped == flagexit /\ \A s \in Services :
                     svc[s].pid = NoPid /\ svc[s].flagstatus = "stopped"
StopsLogger_now == flagexit /\ svc["log"].flagstatus \in {"running", "started"}
StopsLogger_no  == flagexit /\ svc["main"].flagstatus = "stopped"
                   /\ svc["log"].flagstatus = "started"

AllDown     == flagexit /\ \A s \in Services : svc[s].pid = NoPid
StopsLogger == /\ flagexit /\ svc["main"].flagstatus = "stopped"
               /\ svc["log"].flagstatus \in {"running", "started"}

(* controller() has emptied the fifo: the end of doit()'s loop, its test   *)
(* at the top, and main()'s last announce().                               *)
LoopEnd ==
  /\ pc = "controller" /\ fifo = <<>>
  /\ \/ StopsLogger /\ stopsvc("log", FALSE, svc)
     \/ ~StopsLogger /\ UNCHANGED <<svc, child, wake>>
  /\ IF AllDown THEN pc' = "done" /\ status' = Announced(svc')
     ELSE pc' = "wait" /\ UNCHANGED status
  /\ UNCHANGED <<dir, logpipe, flagexit, firstrun, runscript, cur, wstat, killgroup,
                 fifo, writes>>

-----------------------------------------------------------------------------
(* The environment: svc, signals, children, the administrator *)

(* The service and the process group that byte i of one writer's bytes is  *)
(* meant for: what the bytes before it in the same write say.              *)
AimsAtLog(msg, i)   == \E j \in 1..i : msg[j] = "L" /\ \A k \in j..i : msg[k] # "l"
AimsAtGroup(msg, i) == \E j \in 1..i : msg[j] = "+" /\ \A k \in j..i : msg[k] # "="

Aimed(msg, from) ==
  [i \in DOMAIN msg |->
    [ch |-> msg[i], from |-> from,
     svc |-> IF AimsAtLog(msg, i) THEN "log" ELSE "main", group |-> AimsAtGroup(msg, i)]]

Fits(msg) == Len(fifo) + Len(msg) <= FifoSize

(* svc waits for room in the fifo; a write of few bytes is atomic.         *)
SvcWrites(msg) ==
  /\ pc # "done" /\ writes < MaxWrites
  /\ Fits(msg)
  /\ fifo' = fifo \o Aimed(msg, "svc")
  /\ writes' = writes + 1
  /\ UNCHANGED <<thread, dir, wake, child>>

(* terminate(), ttystop() and resume() do not wait: without room their     *)
(* bytes are lost.                                                         *)
HandlerBytes(sig) ==
  CASE sig = "TERM" -> <<"d", "x">> [] sig = "TSTP" -> <<"p">> [] sig = "CONT" -> <<"c">>

HandlerWrites(sig) ==
  /\ fifo' = IF Fits(HandlerBytes(sig)) THEN fifo \o Aimed(HandlerBytes(sig), "handler")
             ELSE fifo
  /\ wake' = TRUE
  /\ UNCHANGED <<thread, dir, child>>

CatchSignal(sig) ==
  /\ pc # "done" /\ writes < MaxWrites
  /\ HandlerWrites(sig)
  /\ writes' = writes + 1

MayExit(c) == c.state = "live" \/ (c.state = "halted" /\ c.fate = "kill")

Endings(c) == CASE c.fate = "kill" -> {"signal"} [] c.fate = "noexec" -> {"other"}
                [] OTHER -> Outcomes

ChildExits(p) ==
  /\ MayExit(child[p])
  /\ \E o \in Endings(child[p]) : child' = [child EXCEPT ![p].state = "zombie", ![p].outcome = o]
  /\ wake' = TRUE
  /\ UNCHANGED <<thread, dir, fifo, writes>>

EditDirectory ==
  /\ MayEdit /\ pc # "done"
  /\ dir' \in Layouts
  /\ UNCHANGED <<thread, fifo, wake, child, writes>>

(* supervise has exited; nothing more to describe                          *)
Gone == pc = "done" /\ UNCHANGED vars

-----------------------------------------------------------------------------
Turn == \/ BootLog \/ BootMain \/ doit \/ Wake
        \/ ReapNone \/ (\E p \in Pids : ReapOther(p))
        \/ (\E s \in Services, p \in Pids : ReapSvc(s, p)) \/ Reaped
        \/ SelectGroup \/ SelectService \/ Down \/ Up \/ Once \/ Signal \/ Pause \/ Exit
        \/ LoopEnd

Environment == \/ \E msg \in Requests : SvcWrites(msg)
               \/ \E sig \in Handled : CatchSignal(sig)
               \/ \E p \in Pids : ChildExits(p)
               \/ EditDirectory

Next == Turn \/ Timeout \/ Environment \/ Gone

Spec == Init /\ [][Next]_vars

(* supervise keeps running and iopause() does time out; a child that was   *)
(* sent SIGTERM or SIGKILL, or could not execute its script, or runs a     *)
(* one-shot script, ends.  A service that nobody stops may run forever.    *)
(* wait() does not pass over one zombie forever: kernels look through the  *)
(* children in the order of their creation.                                *)
MustExit(c) == MayExit(c) /\ (c.fate # "free" \/ c.script \in {"start", "stop", "notify"})

Fairness == /\ WF_vars(Turn) /\ WF_vars(Timeout)
            /\ \A p \in Pids : /\ WF_vars(MustExit(child[p]) /\ ChildExits(p))
                              /\ SF_vars(ReapOther(p) \/ \E s \in Services : ReapSvc(s, p))

FairSpec == Spec /\ Fairness

-----------------------------------------------------------------------------
(* Properties *)

(* Every variable holds a value of its type.                               *)
TypeOK ==
  /\ dir \in [Files -> FileState] /\ logpipe \in BOOLEAN
  /\ svc \in [Services -> SvcRecord]
  /\ flagexit \in BOOLEAN /\ firstrun \in BOOLEAN
  /\ runscript \in {"none", "start", "run", "stop"}
  /\ pc \in {"bootlog", "bootmain", "doit", "wait", "reaper", "reaped", "controller", "done"}
  /\ cur \in Services /\ wstat \in AllOutcomes /\ killgroup \in BOOLEAN
  /\ fifo \in Seq(FifoRecord) /\ Len(fifo) <= FifoSize
  /\ wake \in BOOLEAN
  /\ child \in [Pids -> ChildRecord]
  /\ status \in [IF logpipe THEN Services ELSE {"main"} -> StatusRecord]
  /\ writes \in 0..MaxWrites

Exists(p) == child[p].state # "none"

(* The service that a process running this script belongs to               *)
ServiceOf(script) == IF script = "log" THEN "log" ELSE "main"

(* supervise never loses a child: whatever order commands, deaths, reused  *)
(* pids and failing forks come in, each process it started for a service   *)
(* and has not yet reaped is the one process in that service's pid, and a  *)
(* nonzero pid is always such a process (so that kill() never reaches a    *)
(* stranger, nor a second ./run is ever left behind).                      *)
TrackedIn(sv, ch) ==
  /\ \A p \in Pids : ch[p].state # "none" /\ ch[p].script # "notify"
                      => sv[ServiceOf(ch[p].script)].pid = p
  /\ \A s \in Services : sv[s].pid # NoPid
        => /\ ch[sv[s].pid].state # "none"
           /\ ch[sv[s].pid].script # "notify"
           /\ ServiceOf(ch[sv[s].pid].script) = s

Tracked == TrackedIn(svc, child)

(* notify() names the script that the main child really runs, although     *)
(* runscript is overwritten long after some forks and before others fail.  *)
NotifyNamesScript ==
  svc["main"].pid # NoPid => child[svc["main"].pid].script = runscript

(* flagpaused, which svstat reports, tells whether the service's process   *)
(* is stopped: across pauses, restarts, downs and signals to groups.  (A   *)
(* group signal to a child that leads no group reaches nobody.)            *)
PausedMatches ==
  \A s \in Services :
    LET p == svc[s].pid
    IN  p # NoPid /\ child[p].leader /\ child[p].state \in {"live", "halted"}
        => (svc[s].flagpaused <=> child[p].state = "halted")

(* There is a process of service s.                                        *)
Process(s) ==
  \E p \in Pids : Exists(p) /\ child[p].script # "notify" /\ ServiceOf(child[p].script) = s

(* While supervise waits, the status file names the process and the goal   *)
(* supervise has, for both services, and when no fork failed and supervise *)
(* is not on its way out, the rest too.  So svstat says "up" of a service  *)
(* that has a process and of no other, and what it says of the goal agrees *)
(* with supervise's; svup finds a service up that has a process or, as it  *)
(* has no ./run, has only been started, and no other.                      *)
StatusCurrent ==
  pc = "wait" =>
    /\ \A s \in DOMAIN status :
         LET now == make_status(svc[s])
             words == svstat("none")[s]
         IN  /\ status[s].want = now.want
             /\ ~ForkMayFail /\ ~(flagexit /\ s = "log") => status[s] = now
             /\ "up" \in words <=> Process(s)
             /\ "want up" \in words => svc[s].flagwant /\ svc[s].flagwantup /\ ~Process(s)
             /\ "want down" \in words => svc[s].flagwant /\ ~svc[s].flagwantup /\ Process(s)
             /\ "once" \in words <=> ~svc[s].flagwant /\ Process(s)
    /\ \A s \in DOMAIN status :
         /\ Process(s) => checkstatus(status[s])
         /\ ~ForkMayFail /\ ~flagexit /\ checkstatus(status[s])
              => Process(s) \/ status[s].flagstatus = "started"
    /\ ~ForkMayFail /\ ~flagexit /\ svup("L") => Process("log")

(* Whenever supervise goes to sleep, a service that is wanted up has a     *)
(* process: no sequence of deaths and commands leaves it waiting for       *)
(* nothing.                                                                *)
NoIdleWanted ==
  pc = "wait" /\ ~wake /\ ~flagexit =>
    \A s \in Services : svc[s].flagwant /\ svc[s].flagwantup => svc[s].pid # NoPid

(* supervise leaves no service process behind when it exits.               *)
ExitClean ==
  pc = "done" => \A p \in Pids : Exists(p) => child[p].script = "notify"

(* Process p is forked in this step, for this script.                      *)
Forked(p, script) ==
  ~Exists(p) /\ Exists(p)' /\ child'[p].script = script

(* No ./start, ./run or ./log is started for a service that is wanted      *)
(* down: not by a late reap of ./stop, nor by ./start ending after svc -d. *)
NoStartWhenDown ==
  [][\A p \in Pids, script \in {"start", "run", "log"} :
       Forked(p, script) => LET r == svc'[ServiceOf(script)]
                            IN  r.flagwantup \/ ~r.flagwant]_vars

(* The bytes of an svc command act on the service that this command names, *)
(* whatever bytes of other writers supervise reads before them in the same *)
(* call of controller().                                                   *)
SvcOnTarget ==
  [][pc = "controller" /\ fifo # <<>> /\ Head(fifo).from = "svc"
       /\ Head(fifo).ch \notin {"L", "l", "+", "="}
       => cur = Head(fifo).svc]_vars

(* When supervise is told to exit it keeps the logger until ./run and      *)
(* ./start are gone: the SIGTERM at the end of doit()'s loop comes after.  *)
LoggerOutlivesRun ==
  [][pc = "controller" /\ fifo = <<>> /\ svc' # svc
       => svc["main"].pid = NoPid \/ child[svc["main"].pid].script = "stop"]_vars

(* supervise reaps every dead child in the end, though SIGCHLD merges and  *)
(* reaper() breaks off after one service.                                  *)
ZombiesReaped ==
  \A p \in Pids : child[p].state = "zombie" ~> (child[p].state # "zombie" \/ pc = "done")

Wanted(s)   == svc[s].flagwant /\ svc[s].flagwantup
Unwanted(s) == svc[s].flagwant /\ ~svc[s].flagwantup
Runs(script) == \E p \in Pids : child[p].script = script /\ child[p].state = "live"

(* A service that stays wanted up and is not paused runs again and again.  *)
WantedUpRuns ==
  <>[](Wanted("main") /\ ~flagexit /\ ~svc["main"].flagpaused) => []<>Runs("run")

(* A service that stays wanted down and is not paused stops for good --    *)
(* but not one with no-setsid and +d, see Supervise_lost_group.cfg.        *)
DownStops ==
  \A s \in Services : <>[](Unwanted(s) /\ ~svc[s].flagpaused) => <>[](svc[s].pid = NoPid)

(* supervise is told to exit, and the main service to stay down.           *)
Exiting == flagexit /\ Unwanted("main") /\ \A s \in Services : ~svc[s].flagpaused

(* svc -dx ends supervise: unless the main service has come to rest with   *)
(* the status of a failed or unfinished start, which the last test of      *)
(* doit() does not take for stopped, and the logger runs on.               *)
ExitsOrRests ==
  <>[]Exiting =>
    \/ <>(pc = "done")
    \/ <>[](/\ svc["main"].pid = NoPid /\ svc["main"].flagstatus \in {"failed", "starting"}
           /\ Runs("log"))

(* svc.8: after -x supervise exits as soon as the service is down.         *)
ExitHappens == <>[]Exiting => <>(pc = "done")

-----------------------------------------------------------------------------
(* supervise implements the abstract service, main and log                 *)

GoalOf(s) == IF ~svc[s].flagwant THEN "once" ELSE IF svc[s].flagwantup THEN "up" ELSE "down"

(* The script of service s that is running: of a process that has not yet  *)
(* ended, whether supervise knows of it or not                             *)
Alive(p) == child[p].state \in {"live", "halted"}
ScriptOf(s) ==
  IF \E p \in Pids : Alive(p) /\ child[p].script # "notify" /\ ServiceOf(child[p].script) = s
  THEN child[CHOOSE p \in Pids : /\ Alive(p) /\ child[p].script # "notify"
                                /\ ServiceOf(child[p].script) = s].script
  ELSE "none"

Main == INSTANCE ServiceLife WITH UpScripts <- {"start", "run"}, DownScripts <- {"stop"},
          None <- "none", goal <- GoalOf("main"), script <- ScriptOf("main")
Log  == INSTANCE ServiceLife WITH UpScripts <- {"log"}, DownScripts <- {},
          None <- "none", goal <- GoalOf("log"), script <- ScriptOf("log")

MainLives == Main!LifeSpec
LogLives  == Log!LifeSpec

-----------------------------------------------------------------------------
(* Claims of the documentation that the program does not meet *)

(* svc.8: signals go to the parent process, not to its group, by default.  *)
GroupOnTarget ==
  [][pc = "controller" /\ fifo # <<>> /\ Head(fifo).from = "svc"
       /\ Head(fifo).ch \notin {"L", "l", "+", "="}
       => killgroup = Head(fifo).group]_vars

(* supervise.8: a service is started by ./start first and then ./run; once *)
(* ./stop has cleaned up, ./run does not follow without ./start.           *)
StartAfterStop ==
  [][\A p \in Pids : Forked(p, "run") /\ runscript = "stop" => dir["start"] # "exec"]_vars

(* supervise.8: ./run follows ./start if ./start exits zero.               *)
RunAfterGoodStart ==
  [][pc = "reaped" /\ cur = "main" /\ runscript = "start" /\ wstat # "zero"
       => \A p \in Pids : ~Forked(p, "run")]_vars

(* supervise.8: ./stop runs after ./run has exited for the last time ...   *)
StopAfterRun ==
  pc = "wait" /\ svc["main"].pid = NoPid /\ svc["main"].flagstatus = "stopped"
    /\ dir["stop"] = "exec" => runscript # "run"

(* ... once.                                                               *)
StopOnce ==
  [][\A p \in Pids : Forked(p, "stop") => runscript # "stop"]_vars

(* supervise.8: after svc -dx the log is stopped after the main service    *)
(* has stopped.                                                            *)
LogAfterStop ==
  [][pc = "controller" /\ fifo = <<>> /\ svc' # svc => svc["main"].pid = NoPid]_vars

=============================================================================
