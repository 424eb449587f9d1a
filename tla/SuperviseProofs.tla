--------------------------- MODULE SuperviseProofs ---------------------------
(***************************************************************************)
(* Theorems about Supervise, for every value of its constants.             *)
(*                                                                         *)
(* The first half proves TypeOK and the invariant LifeInv: each service    *)
(* and its process belong together, and no service has a process where     *)
(* supervise is about to start one.  The second half describes what the C  *)
(* functions do (PidchangeDoes ... ReapSvcDoes) and sums up a step by what *)
(* it does to a service: to its process (StepMoves), to its goal and       *)
(* flagstatus (StepTurns) and to the status file (StepTells).  The other   *)
(* properties and the refinement of ServiceLife follow from these sums.    *)
(***************************************************************************)
EXTENDS Supervise, TLAPS

StatusType == [IF logpipe THEN Services ELSE {"main"} -> StatusRecord]

-----------------------------------------------------------------------------
(* What the operators on the status file and on children return            *)

LEMMA AnnouncedType ==
  ASSUME NEW sv \in [Services -> SvcRecord]
  PROVE  Announced(sv) \in StatusType
BY DEF Announced, StatusType, make_status, StatusRecord, SvcRecord, Services, Statuses

LEMMA SpawnType ==
  ASSUME NEW ch \in [Pids -> ChildRecord], NEW p \in Pids, NEW script \in Scripts
  PROVE  Spawn(ch, p, script) \in [Pids -> ChildRecord]
BY DEF Spawn, ChildRecord, AllOutcomes

LEMMA DeliverType ==
  ASSUME NEW c \in ChildRecord, NEW sig
  PROVE  Deliver(c, sig) \in ChildRecord
BY DEF Deliver, ChildRecord

LEMMA KillsvcType ==
  ASSUME svc \in [Services -> SvcRecord], NEW ch \in [Pids -> ChildRecord],
         NEW s \in Services, NEW group \in BOOLEAN, NEW sig
  PROVE  killsvc(ch, s, group, sig) \in [Pids -> ChildRecord]
BY DeliverType DEF killsvc, SvcRecord

(* The variables that starting, stopping and reaping change                *)
Result == /\ svc \in [Services -> SvcRecord] /\ status \in StatusType
          /\ child \in [Pids -> ChildRecord] /\ wake \in BOOLEAN

LEMMA PidchangeType ==
  ASSUME logpipe' = logpipe, NEW sv \in [Services -> SvcRecord],
         NEW ch \in [Pids -> ChildRecord], NEW w \in BOOLEAN, pidchange(sv, ch, w)
  PROVE  Result'
<1>1. svc' \in [Services -> SvcRecord] /\ status' \in StatusType'
  BY AnnouncedType DEF pidchange, announce, StatusType
<1>2. child' \in [Pids -> ChildRecord] /\ wake' \in BOOLEAN
  <2>1. CASE \E p \in Unused(ch) : child' = Spawn(ch, p, "notify") /\ wake' = w
    <3>1. PICK p \in Unused(ch) : child' = Spawn(ch, p, "notify") /\ wake' = w
      BY <2>1
    <3>2. p \in Pids /\ "notify" \in Scripts
      BY DEF Unused, Scripts
    <3>. QED BY <3>1, <3>2, SpawnType
  <2>2. CASE child' = ch /\ wake' \in BOOLEAN
    BY <2>2
  <2>. QED BY <2>1, <2>2 DEF pidchange
<1>. QED BY <1>1, <1>2 DEF Result

LEMMA NewPidType ==
  ASSUME NEW sv \in [Services -> SvcRecord], NEW s \in Services, NEW p \in Pids
  PROVE  [sv EXCEPT ![s].pid = p, ![s].flagpaused = FALSE] \in [Services -> SvcRecord]
BY DEF SvcRecord

LEMMA ForkexecveType ==
  ASSUME logpipe' = logpipe, child \in [Pids -> ChildRecord], wake \in BOOLEAN,
         NEW s \in Services, NEW script \in Scripts,
         NEW ok \in [Services -> SvcRecord], NEW failed \in [Services -> SvcRecord],
         NEW file \in StatusType, forkexecve(s, script, ok, failed, file)
  PROVE  Result'
<1>1. CASE \E p \in Unused(child) :
             pidchange([ok EXCEPT ![s].pid = p, ![s].flagpaused = FALSE],
                       Spawn(child, p, script), wake)
  <2>1. PICK p \in Unused(child) :
             pidchange([ok EXCEPT ![s].pid = p, ![s].flagpaused = FALSE],
                       Spawn(child, p, script), wake)
    BY <1>1
  <2>2. p \in Pids
    BY DEF Unused
  <2>3. [ok EXCEPT ![s].pid = p, ![s].flagpaused = FALSE] \in [Services -> SvcRecord]
    BY <2>2, NewPidType
  <2>4. Spawn(child, p, script) \in [Pids -> ChildRecord]
    BY <2>2, SpawnType
  <2>. QED BY <2>1, <2>3, <2>4, PidchangeType
<1>2. CASE svc' = failed /\ status' = file /\ child' = child /\ wake' = TRUE
  BY <1>2 DEF Result, StatusType
<1>. QED BY <1>1, <1>2 DEF forkexecve

LEMMA SetStatusType ==
  ASSUME NEW sv \in [Services -> SvcRecord], NEW s \in Services, NEW st \in Statuses
  PROVE  [sv EXCEPT ![s].flagstatus = st] \in [Services -> SvcRecord]
BY DEF SvcRecord

LEMMA TrystartType ==
  ASSUME logpipe' = logpipe, child \in [Pids -> ChildRecord], wake \in BOOLEAN,
         runscript \in {"none", "start", "run", "stop"},
         NEW s \in Services, NEW sv \in [Services -> SvcRecord], NEW first \in BOOLEAN,
         NEW file \in StatusType, trystart(s, sv, first, file)
  PROVE  /\ Result' /\ firstrun' \in BOOLEAN
         /\ runscript' \in {"none", "start", "run", "stop"}
<1>. DEFINE new(st) == [sv EXCEPT ![s].flagstatus = st]
            none == [sv EXCEPT ![s].flagwant = FALSE, ![s].flagstatus = "started"]
<1>1. ASSUME \E script \in Scripts, st \in Statuses :
               forkexecve(s, script, new(st), new(st), file)
      PROVE  Result'
  <2>1. PICK script \in Scripts, st \in Statuses :
             forkexecve(s, script, new(st), new(st), file)
    BY <1>1
  <2>2. new(st) \in [Services -> SvcRecord]
    BY SetStatusType
  <2>. QED BY <2>1, <2>2, ForkexecveType
<1>2. ASSUME announce(none), UNCHANGED <<child, wake>>
      PROVE  Result'
  <2>1. none \in [Services -> SvcRecord]
    BY ZenonT(60) DEF SvcRecord, Statuses
  <2>. QED BY <1>2, <2>1, AnnouncedType DEF announce, Result, StatusType
<1>3. Result'
  BY <1>1, <1>2 DEF trystart, Scripts, Statuses
<1>4. /\ firstrun' \in BOOLEAN
      /\ runscript' \in {"none", "start", "run", "stop"}
  BY DEF trystart
<1>. QED BY <1>3, <1>4

LEMMA TrystopType ==
  ASSUME logpipe' = logpipe, child \in [Pids -> ChildRecord], wake \in BOOLEAN,
         runscript \in {"none", "start", "run", "stop"},
         NEW s \in Services, NEW sv \in [Services -> SvcRecord], trystop(s, sv)
  PROVE  /\ Result' /\ runscript' \in {"none", "start", "run", "stop"}
<1>1. CASE /\ announce([sv EXCEPT ![s].ranstop = TRUE, ![s].flagstatus = "stopped"])
           /\ UNCHANGED <<runscript, child, wake>>
  <2>1. [sv EXCEPT ![s].ranstop = TRUE, ![s].flagstatus = "stopped"]
          \in [Services -> SvcRecord]
    BY ZenonT(60) DEF SvcRecord, Statuses
  <2>. QED BY <1>1, <2>1, AnnouncedType DEF announce, Result, StatusType
<1>2. CASE /\ forkexecve(s, "stop", [sv EXCEPT ![s].ranstop = TRUE], sv, Announced(sv))
           /\ runscript' = "stop"
  <2>1. [sv EXCEPT ![s].ranstop = TRUE] \in [Services -> SvcRecord]
    BY DEF SvcRecord
  <2>2. "stop" \in Scripts /\ Announced(sv) \in StatusType
    BY AnnouncedType DEF Scripts
  <2>. QED BY <1>2, <2>1, <2>2, ForkexecveType
<1>. QED BY <1>1, <1>2 DEF trystop

LEMMA StopsvcType ==
  ASSUME svc \in [Services -> SvcRecord], child \in [Pids -> ChildRecord],
         wake \in BOOLEAN, NEW s \in Services, NEW group \in BOOLEAN,
         NEW sv \in [Services -> SvcRecord], stopsvc(s, group, sv)
  PROVE  /\ svc' \in [Services -> SvcRecord]
         /\ child' \in [Pids -> ChildRecord] /\ wake' \in BOOLEAN
<1>. DEFINE r == [sv[s] EXCEPT !.flagpaused = FALSE, !.flagstatus = "stopping",
                              !.ranstop = FALSE]
<1>1. svc' \in [Services -> SvcRecord]
  <2>1. r \in SvcRecord
    BY DEF SvcRecord, Statuses
  <2>2. svc' = [sv EXCEPT ![s] = r]
    BY DEF stopsvc
  <2>. QED BY <2>1, <2>2
<1>2. killsvc(killsvc(child, s, group, "TERM"), s, group, "CONT") \in [Pids -> ChildRecord]
  BY KillsvcType
<1>. QED BY <1>1, <1>2 DEF stopsvc, Signalled

LEMMA VerdictType ==
  ASSUME svc \in [Services -> SvcRecord], NEW s \in Services, NEW outcome \in AllOutcomes
  PROVE  Verdict(s, outcome) \in SvcRecord
BY DEF Verdict, SvcRecord, Statuses

-----------------------------------------------------------------------------
(* Type correctness                                                        *)

LEMMA AimedType ==
  ASSUME NEW msg \in Seq(Bytes), NEW from \in {"svc", "handler"}
  PROVE  Aimed(msg, from) \in Seq(FifoRecord) /\ Len(Aimed(msg, from)) = Len(msg)
<1>1. \A i \in 1..Len(msg) : msg[i] \in Bytes
  OBVIOUS
<1>2. \A i \in 1..Len(msg) : AimsAtGroup(msg, i) \in BOOLEAN
  BY DEF AimsAtGroup
<1>3. \A i \in 1..Len(msg) : Aimed(msg, from)[i] \in FifoRecord
  BY <1>1, <1>2 DEF Aimed, FifoRecord, Services
<1>4. Aimed(msg, from) = [i \in 1..Len(msg) |-> Aimed(msg, from)[i]]
  BY DEF Aimed
<1>. QED BY <1>3, <1>4

LEMMA HandlerBytesType ==
  ASSUME NEW sig \in {"TERM", "TSTP", "CONT"}
  PROVE  HandlerBytes(sig) \in Seq(Bytes)
<1>1. "d" \in Bytes /\ "x" \in Bytes /\ "p" \in Bytes /\ "c" \in Bytes
  BY DEF Bytes
<1>2. CASE sig = "TERM"
  <2>1. HandlerBytes(sig) = <<"d", "x">>
    BY <1>2 DEF HandlerBytes
  <2>. QED BY <1>1, <2>1
<1>3. CASE sig = "TSTP"
  <2>1. HandlerBytes(sig) = <<"p">>
    BY <1>3 DEF HandlerBytes
  <2>. QED BY <1>1, <2>1
<1>4. CASE sig = "CONT"
  <2>1. HandlerBytes(sig) = <<"c">>
    BY <1>4 DEF HandlerBytes
  <2>. QED BY <1>1, <2>1
<1>. QED BY <1>2, <1>3, <1>4

(* TypeOK is Result, and the other variables' types.                       *)
Rest ==
  /\ dir \in [Files -> FileState] /\ logpipe \in BOOLEAN
  /\ flagexit \in BOOLEAN /\ firstrun \in BOOLEAN
  /\ runscript \in {"none", "start", "run", "stop"}
  /\ pc \in {"bootlog", "bootmain", "doit", "wait", "reaper", "reaped", "controller", "done"}
  /\ cur \in Services /\ wstat \in AllOutcomes /\ killgroup \in BOOLEAN
  /\ fifo \in Seq(FifoRecord) /\ Len(fifo) <= FifoSize
  /\ writes \in 0..MaxWrites

LEMMA TypeParts == TypeOK <=> Result /\ Rest
BY DEF TypeOK, Result, Rest, StatusType

LEMMA TypeInit == ASSUME Init PROVE TypeOK
<1>1. dir \in [Files -> FileState]
  BY SuperviseAssumption DEF Init
<1>2. svc \in [Services -> SvcRecord]
  BY DEF Init, SvcRecord, Services, Statuses
<1>3. child \in [Pids -> ChildRecord]
  BY DEF Init, NoChild, ChildRecord, Scripts, AllOutcomes
<1>4. status \in StatusType
  BY <1>2, AnnouncedType DEF Init
<1>5. fifo \in Seq(FifoRecord) /\ Len(fifo) <= FifoSize /\ writes \in 0..MaxWrites
  BY SuperviseAssumption DEF Init
<1>6. Result
  BY <1>2, <1>3, <1>4 DEF Init, Result
<1>7. Rest
  BY <1>1, <1>5 DEF Init, Rest, Services, AllOutcomes
<1>. QED BY <1>6, <1>7, TypeParts

LEMMA CommandType ==
  ASSUME TypeOK, NEW chars, Command(chars)
  PROVE  /\ fifo' \in Seq(FifoRecord) /\ Len(fifo') <= FifoSize
         /\ Head(fifo).ch \in chars
<1>1. fifo # <<>> /\ fifo' = Tail(fifo) /\ fifo \in Seq(FifoRecord) /\ Len(fifo) <= FifoSize
  BY DEF Command, TypeOK
<1>2. Len(fifo) \in Nat /\ Len(Tail(fifo)) = Len(fifo) - 1 /\ Tail(fifo) \in Seq(FifoRecord)
  BY <1>1
<1>. QED BY <1>1, <1>2, SuperviseAssumption DEF Command

(* Each byte of controller() that changes a service's state                *)
LEMMA DownType == ASSUME TypeOK, Down PROVE TypeOK'
<1>. DEFINE sv == [svc EXCEPT ![cur].flagwant = TRUE, ![cur].flagwantup = FALSE]
<1>1. sv \in [Services -> SvcRecord] /\ cur \in Services /\ killgroup \in BOOLEAN
  BY ZenonT(60) DEF TypeOK, SvcRecord
<1>2. \/ stopsvc(cur, killgroup, sv) /\ UNCHANGED runscript
      \/ trystop(cur, sv)
  BY DEF Down
<1>3. logpipe' = logpipe
  BY DEF Down, Command
<1>4. /\ svc' \in [Services -> SvcRecord] /\ child' \in [Pids -> ChildRecord]
      /\ wake' \in BOOLEAN /\ runscript' \in {"none", "start", "run", "stop"}
  <2>1. CASE stopsvc(cur, killgroup, sv) /\ UNCHANGED runscript
    BY <1>1, <2>1, StopsvcType DEF TypeOK
  <2>2. CASE trystop(cur, sv)
    BY <1>1, <1>3, <2>2, TrystopType DEF TypeOK, Result
  <2>. QED BY <1>2, <2>1, <2>2
<1>5. status' \in StatusType'
  BY <1>3, <1>4, AnnouncedType DEF Down, StatusType
<1>6. Result'
  BY <1>4, <1>5 DEF Result
<1>7. Rest'
  BY <1>4, CommandType DEF Down, Command, TypeOK, Rest
<1>. QED BY <1>6, <1>7, TypeParts, PTL

LEMMA UpType == ASSUME TypeOK, Up PROVE TypeOK'
<1>. DEFINE idle == svc[cur].pid = NoPid
            sv == [svc EXCEPT ![cur].flagwant = TRUE, ![cur].flagwantup = TRUE,
                              ![cur].flagstatus = IF idle THEN "starting" ELSE @]
            first == IF cur = "main" THEN ~svc["main"].flagwantup ELSE firstrun
            r == [svc[cur] EXCEPT !.flagwant = TRUE, !.flagwantup = TRUE,
                                  !.flagstatus = IF idle THEN "starting" ELSE @]
<1>1. cur \in Services /\ svc \in [Services -> SvcRecord] /\ "main" \in Services
  BY DEF TypeOK, Services
<1>2. sv \in [Services -> SvcRecord]
  <2>1. r \in SvcRecord
    BY <1>1 DEF SvcRecord, Statuses
  <2>2. sv = [svc EXCEPT ![cur] = r]
    BY <1>1
  <2>. QED BY <1>1, <2>1, <2>2
<1>3. first \in BOOLEAN
  BY <1>1 DEF TypeOK, SvcRecord
<1>4. logpipe' = logpipe
  BY DEF Up, Command
<1>5. Result' /\ firstrun' \in BOOLEAN /\ runscript' \in {"none", "start", "run", "stop"}
  <2>1. CASE trystart(cur, sv, first, Announced(sv))
    <3>1. Announced(sv) \in StatusType
      BY <1>2, AnnouncedType
    <3>2. /\ child \in [Pids -> ChildRecord] /\ wake \in BOOLEAN
          /\ runscript \in {"none", "start", "run", "stop"}
      BY DEF TypeOK
    <3>. HIDE DEF sv, first
    <3>. QED BY <1>1, <1>2, <1>3, <1>4, <2>1, <3>1, <3>2, TrystartType
  <2>2. CASE announce(sv) /\ firstrun' = first /\ UNCHANGED <<runscript, child, wake>>
    BY <1>2, <1>3, <1>4, <2>2, AnnouncedType DEF TypeOK, announce, Result, StatusType
  <2>. QED BY <2>1, <2>2 DEF Up
<1>6. Rest'
  BY <1>5, CommandType DEF Up, Command, TypeOK, Rest
<1>. QED BY <1>5, <1>6, TypeParts, PTL

LEMMA OnceType == ASSUME TypeOK, Once PROVE TypeOK'
<1>. DEFINE sv == [svc EXCEPT ![cur].flagwant = FALSE]
<1>1. cur \in Services /\ sv \in [Services -> SvcRecord] /\ firstrun \in BOOLEAN
  BY DEF TypeOK, SvcRecord
<1>2. logpipe' = logpipe
  BY DEF Once, Command
<1>3. Result' /\ firstrun' \in BOOLEAN /\ runscript' \in {"none", "start", "run", "stop"}
  <2>1. CASE trystart(cur, sv, firstrun, Announced(sv))
    BY <1>1, <1>2, <2>1, TrystartType, AnnouncedType, ZenonT(60) DEF TypeOK
  <2>2. CASE announce(sv) /\ UNCHANGED <<firstrun, runscript, child, wake>>
    BY <1>1, <1>2, <2>2, AnnouncedType DEF TypeOK, announce, Result, StatusType
  <2>. QED BY <2>1, <2>2 DEF Once
<1>4. Rest'
  BY <1>3, CommandType DEF Once, Command, TypeOK, Rest
<1>. QED BY <1>3, <1>4, TypeParts, PTL

LEMMA BootType ==
  ASSUME TypeOK, NEW s \in Services, NEW here, NEW next \in {"bootmain", "doit"},
         Boot(s, here, next)
  PROVE  TypeOK'
<1>1. logpipe' = logpipe
  BY DEF Boot
<1>2. Result' /\ firstrun' \in BOOLEAN /\ runscript' \in {"none", "start", "run", "stop"}
  <2>1. CASE trystart(s, svc, firstrun, status)
    BY <1>1, <2>1, TrystartType DEF TypeOK, StatusType
  <2>2. CASE UNCHANGED <<svc, status, child, wake, firstrun, runscript>>
    BY <1>1, <2>2 DEF TypeOK, Result, StatusType
  <2>. QED BY <2>1, <2>2 DEF Boot
<1>3. Rest'
  BY <1>2 DEF Boot, TypeOK, Rest
<1>. QED BY <1>2, <1>3, TypeParts, PTL

LEMMA ReapSvcType ==
  ASSUME TypeOK, NEW s \in Services, NEW p \in Pids, ReapSvc(s, p)
  PROVE  TypeOK'
<1>. DEFINE sv == [svc EXCEPT ![s] = Verdict(s, child[p].outcome)]
            ch == [child EXCEPT ![p] = NoChild]
<1>1. child[p].outcome \in AllOutcomes
  BY DEF TypeOK, ChildRecord
<1>2. sv \in [Services -> SvcRecord]
  BY <1>1, VerdictType DEF TypeOK
<1>3. ch \in [Pids -> ChildRecord]
  BY DEF TypeOK, NoChild, ChildRecord, Scripts, AllOutcomes
<1>4. pidchange(sv, ch, wake) /\ logpipe' = logpipe
  BY DEF ReapSvc
<1>5. Result'
  <2>1. wake \in BOOLEAN
    BY DEF TypeOK
  <2>. HIDE DEF sv, ch
  <2>. QED BY <1>2, <1>3, <1>4, <2>1, PidchangeType
<1>6. Rest'
  BY <1>1 DEF ReapSvc, TypeOK, Rest
<1>. QED BY <1>5, <1>6, TypeParts, PTL

LEMMA ReapedType == ASSUME TypeOK, Reaped PROVE TypeOK'
<1>1. logpipe' = logpipe /\ cur \in Services
  BY DEF Reaped, TypeOK
<1>2. Result' /\ firstrun' \in BOOLEAN /\ runscript' \in {"none", "start", "run", "stop"}
  <2>1. CASE trystart(cur, svc, firstrun, status)
    BY <1>1, <2>1, TrystartType DEF TypeOK, StatusType
  <2>2. CASE trystop(cur, svc) /\ UNCHANGED firstrun
    BY <1>1, <2>2, TrystopType DEF TypeOK
  <2>3. CASE UNCHANGED <<svc, status, child, wake, firstrun, runscript>>
    BY <1>1, <2>3 DEF TypeOK, Result, StatusType
  <2>. QED BY <2>1, <2>2, <2>3 DEF Reaped
<1>3. Rest'
  BY <1>2 DEF Reaped, EnterController, TypeOK, Rest, Services, AllOutcomes
<1>. QED BY <1>2, <1>3, TypeParts, PTL

LEMMA LoopEndType == ASSUME TypeOK, LoopEnd PROVE TypeOK'
<1>1. logpipe' = logpipe /\ "log" \in Services
  BY DEF LoopEnd, Services
<1>2. /\ svc' \in [Services -> SvcRecord] /\ child' \in [Pids -> ChildRecord]
      /\ wake' \in BOOLEAN
  <2>1. CASE stopsvc("log", FALSE, svc)
    BY <1>1, <2>1, StopsvcType DEF TypeOK
  <2>2. CASE UNCHANGED <<svc, child, wake>>
    BY <2>2 DEF TypeOK
  <2>. QED BY <2>1, <2>2 DEF LoopEnd
<1>3. status' \in StatusType'
  BY <1>1, <1>2, AnnouncedType DEF LoopEnd, TypeOK, StatusType
<1>4. Result'
  BY <1>2, <1>3 DEF Result
<1>5. Rest'
  BY DEF LoopEnd, TypeOK, Rest
<1>. QED BY <1>4, <1>5, TypeParts, PTL

(* The steps that start, stop and reap nothing                             *)
LEMMA SmallStepsType ==
  ASSUME TypeOK,
         \/ doit \/ TurnBegins \/ ReapNone \/ (\E p \in Pids : ReapOther(p))
         \/ SelectGroup \/ SelectService \/ Signal \/ Pause \/ Exit
  PROVE  TypeOK'
<1>1. CASE doit
  BY <1>1, AnnouncedType DEF doit, announce, TypeOK, StatusType
<1>2. CASE TurnBegins
  BY <1>2 DEF TurnBegins, TypeOK
<1>3. CASE ReapNone
  BY <1>3 DEF ReapNone, EnterController, TypeOK, Services
<1>4. CASE \E p \in Pids : ReapOther(p)
  <2>1. NoChild \in ChildRecord
    BY DEF NoChild, ChildRecord, Scripts, AllOutcomes
  <2>. QED BY <1>4, <2>1 DEF ReapOther, TypeOK, thread
<1>5. CASE SelectGroup
  BY <1>5, CommandType DEF SelectGroup, Command, TypeOK
<1>6. CASE SelectService
  BY <1>6, CommandType DEF SelectService, Command, TypeOK, Services
<1>7. CASE Signal
  <2>. DEFINE ch == killsvc(child, cur, killgroup, SignalOf(Head(fifo).ch))
  <2>1. ch \in [Pids -> ChildRecord]
    BY KillsvcType DEF TypeOK
  <2>2. child' = ch /\ wake' \in BOOLEAN
    BY <1>7 DEF Signal, Signalled, TypeOK
  <2>. QED BY <1>7, <2>1, <2>2, CommandType DEF Signal, Command, TypeOK
<1>8. CASE Pause
  <2>. DEFINE stop == Head(fifo).ch = "p"
              sv == [svc EXCEPT ![cur].flagpaused = stop]
              ch == killsvc(child, cur, killgroup, IF stop THEN "STOP" ELSE "CONT")
  <2>1. ch \in [Pids -> ChildRecord]
    BY KillsvcType DEF TypeOK
  <2>2. sv \in [Services -> SvcRecord]
    <3>1. \A b \in BOOLEAN : [svc EXCEPT ![cur].flagpaused = b] \in [Services -> SvcRecord]
      BY DEF TypeOK, SvcRecord
    <3>2. stop \in BOOLEAN
      OBVIOUS
    <3>. HIDE DEF stop
    <3>. QED BY <3>1, <3>2
  <2>3. /\ child' = ch /\ wake' \in BOOLEAN /\ logpipe' = logpipe
        /\ svc' = sv /\ status' = Announced(sv)
    BY <1>8 DEF Pause, Signalled, TypeOK, announce, Command
  <2>4. status' \in StatusType'
    BY <2>2, <2>3, AnnouncedType DEF StatusType
  <2>5. Result'
    BY <2>1, <2>2, <2>3, <2>4 DEF Result
  <2>6. Rest'
    BY <1>8, CommandType DEF Pause, Command, TypeOK, Rest
  <2>. QED BY <2>5, <2>6, TypeParts, PTL
<1>9. CASE Exit
  BY <1>9, CommandType, AnnouncedType DEF Exit, Command, announce, TypeOK, StatusType
<1>. QED BY <1>1, <1>2, <1>3, <1>4, <1>5, <1>6, <1>7, <1>8, <1>9

LEMMA EnvironmentType ==
  ASSUME TypeOK, Environment
  PROVE  TypeOK'
<1>1. ASSUME NEW msg \in Requests, SvcWrites(msg) PROVE TypeOK'
  <2>1. msg \in Seq(Bytes)
    BY SuperviseAssumption
  <2>2. Aimed(msg, "svc") \in Seq(FifoRecord) /\ Len(Aimed(msg, "svc")) = Len(msg)
    BY <2>1, AimedType
  <2>3. fifo' = fifo \o Aimed(msg, "svc") /\ Len(fifo) + Len(msg) <= FifoSize
    BY <1>1 DEF SvcWrites, Fits
  <2>4. fifo' \in Seq(FifoRecord) /\ Len(fifo') <= FifoSize
    BY <2>1, <2>2, <2>3, SuperviseAssumption DEF TypeOK
  <2>5. writes' \in 0..MaxWrites
    BY <1>1, SuperviseAssumption DEF SvcWrites, TypeOK
  <2>. QED BY <1>1, <2>4, <2>5 DEF SvcWrites, thread, TypeOK
<1>2. ASSUME NEW sig \in Handled, CatchSignal(sig) PROVE TypeOK'
  <2>. DEFINE msg == HandlerBytes(sig)
  <2>1. msg \in Seq(Bytes)
    BY SuperviseAssumption, HandlerBytesType
  <2>2. Aimed(msg, "handler") \in Seq(FifoRecord) /\ Len(Aimed(msg, "handler")) = Len(msg)
    BY <2>1, AimedType
  <2>4. fifo' \in Seq(FifoRecord) /\ Len(fifo') <= FifoSize
    <3>1. CASE fifo' = fifo \o Aimed(msg, "handler") /\ Len(fifo) + Len(msg) <= FifoSize
      BY <2>1, <2>2, <3>1, SuperviseAssumption DEF TypeOK
    <3>2. CASE fifo' = fifo
      BY <3>2 DEF TypeOK
    <3>. QED BY <1>2, <3>1, <3>2 DEF CatchSignal, HandlerWrites, Fits
  <2>5. writes' \in 0..MaxWrites
    BY <1>2, SuperviseAssumption DEF CatchSignal, TypeOK
  <2>. QED BY <1>2, <2>4, <2>5 DEF CatchSignal, HandlerWrites, thread, TypeOK
<1>3. ASSUME NEW p \in Pids, ChildExits(p) PROVE TypeOK'
  <2>1. PICK o \in AllOutcomes :
          child' = [child EXCEPT ![p].state = "zombie", ![p].outcome = o]
    BY <1>3, SuperviseAssumption DEF ChildExits, Endings, AllOutcomes
  <2>2. child' \in [Pids -> ChildRecord]
    BY <2>1, ZenonT(60) DEF TypeOK, ChildRecord
  <2>. QED BY <1>3, <2>2 DEF ChildExits, thread, TypeOK
<1>4. ASSUME EditDirectory PROVE TypeOK'
  BY <1>4, SuperviseAssumption DEF EditDirectory, thread, TypeOK
<1>. QED BY <1>1, <1>2, <1>3, <1>4 DEF Environment

LEMMA TypeStep == ASSUME TypeOK, [Next]_vars PROVE TypeOK'
<1>1. CASE UNCHANGED vars
  BY <1>1 DEF vars, TypeOK
<1>2. CASE BootLog \/ BootMain
  BY <1>2, BootType DEF BootLog, BootMain, Services
<1>3. CASE \E s \in Services, p \in Pids : ReapSvc(s, p)
  BY <1>3, ReapSvcType
<1>4. CASE Environment
  BY <1>4, EnvironmentType
<1>5. CASE Gone
  BY <1>5 DEF Gone, vars, TypeOK
<1>. QED BY <1>1, <1>2, <1>3, <1>4, <1>5, DownType, UpType, OnceType, ReapedType,
            LoopEndType, SmallStepsType
         DEF Next, Turn, Wake, Timeout

(* Every variable of supervise keeps its type, whatever the process ids,   *)
(* service directories, commands and signals are.                          *)
THEOREM TypeCorrect == Spec => []TypeOK
BY TypeInit, TypeStep, PTL DEF Spec

-----------------------------------------------------------------------------
(* No child is lost                                                        *)

SamePids(sv) == sv \in [Services -> SvcRecord] /\ \A s \in Services : sv[s].pid = svc[s].pid

LEMMA SpawnNotifyTracked ==
  ASSUME NEW sv \in [Services -> SvcRecord], NEW ch \in [Pids -> ChildRecord],
         TrackedIn(sv, ch), NEW p \in Unused(ch)
  PROVE  TrackedIn(sv, Spawn(ch, p, "notify"))
<1>. DEFINE ch2 == Spawn(ch, p, "notify")
<1>1. p \in Pids /\ ch[p].state = "none"
  BY DEF Unused
<1>2. ch2[p].script = "notify"
  BY <1>1 DEF Spawn
<1>3. \A q \in Pids : q # p => ch2[q] = ch[q]
  BY <1>1 DEF Spawn
<1>4. \A s \in Services : sv[s].pid # NoPid => sv[s].pid \in Pids /\ sv[s].pid # p
  BY <1>1 DEF TrackedIn, SvcRecord
<1>. HIDE DEF ch2
<1>5. TrackedIn(sv, ch2)
  BY <1>2, <1>3, <1>4 DEF TrackedIn
<1>. QED BY <1>5 DEF ch2

LEMMA PidchangeTracked ==
  ASSUME NEW sv \in [Services -> SvcRecord], NEW ch \in [Pids -> ChildRecord], NEW w,
         TrackedIn(sv, ch), pidchange(sv, ch, w)
  PROVE  TrackedIn(svc', child')
<1>1. svc' = sv
  BY DEF pidchange, announce
<1>2. CASE \E p \in Unused(ch) : child' = Spawn(ch, p, "notify") /\ wake' = w
  BY <1>1, <1>2, SpawnNotifyTracked
<1>3. CASE child' = ch
  BY <1>1, <1>3
<1>. QED BY <1>2, <1>3 DEF pidchange

(* A new child for service s, which had none                               *)
LEMMA SpawnTracked ==
  ASSUME TypeOK, Tracked, NEW s \in Services, NEW script \in Scripts \ {"notify"},
         ServiceOf(script) = s, svc[s].pid = NoPid, NEW sv, SamePids(sv),
         NEW p \in Unused(child)
  PROVE  TrackedIn([sv EXCEPT ![s].pid = p, ![s].flagpaused = FALSE],
                   Spawn(child, p, script))
<1>. DEFINE sv2 == [sv EXCEPT ![s].pid = p, ![s].flagpaused = FALSE]
            ch2 == Spawn(child, p, script)
<1>1. p \in Pids /\ child[p].state = "none" /\ p # NoPid
  BY SuperviseAssumption DEF Unused
<1>2. ch2[p].script = script /\ ch2[p].state = "live" /\ \A q \in Pids : q # p => ch2[q] = child[q]
  BY <1>1 DEF Spawn, TypeOK
<1>3. sv2[s].pid = p /\ \A t \in Services : t # s => sv2[t].pid = svc[t].pid
  BY DEF SamePids, SvcRecord
<1>4. \A t \in Services : t # s /\ svc[t].pid # NoPid => svc[t].pid \in Pids /\ svc[t].pid # p
  BY <1>1 DEF Tracked, TrackedIn, TypeOK, SvcRecord
<1>5. \A q \in Pids : child[q].state # "none" /\ child[q].script # "notify"
         => svc[ServiceOf(child[q].script)].pid = q /\ ServiceOf(child[q].script) # s
            /\ ServiceOf(child[q].script) \in Services
  BY SuperviseAssumption DEF Tracked, TrackedIn, ServiceOf, Services
<1>. HIDE DEF sv2, ch2
<1>6. \A q \in Pids : ch2[q].state # "none" /\ ch2[q].script # "notify"
         => sv2[ServiceOf(ch2[q].script)].pid = q
  BY <1>2, <1>3, <1>5
<1>7. \A t \in Services : sv2[t].pid # NoPid
        => /\ ch2[sv2[t].pid].state # "none" /\ ch2[sv2[t].pid].script # "notify"
           /\ ServiceOf(ch2[sv2[t].pid].script) = t
  BY <1>2, <1>3, <1>4 DEF Tracked, TrackedIn
<1>8. TrackedIn(sv2, ch2)
  BY <1>6, <1>7 DEF TrackedIn
<1>. QED BY <1>8 DEF sv2, ch2

LEMMA SamePidsTracked ==
  ASSUME Tracked, NEW sv, SamePids(sv)
  PROVE  TrackedIn(sv, child)
BY DEF Tracked, TrackedIn, SamePids, ServiceOf, Services

LEMMA ForkexecveTracked ==
  ASSUME TypeOK, Tracked, NEW s \in Services, NEW script \in Scripts \ {"notify"},
         ServiceOf(script) = s, svc[s].pid = NoPid,
         NEW ok, SamePids(ok), NEW failed, SamePids(failed), NEW file,
         forkexecve(s, script, ok, failed, file)
  PROVE  Tracked'
<1>1. CASE \E p \in Unused(child) :
             pidchange([ok EXCEPT ![s].pid = p, ![s].flagpaused = FALSE],
                       Spawn(child, p, script), wake)
  <2>1. PICK p \in Unused(child) :
             pidchange([ok EXCEPT ![s].pid = p, ![s].flagpaused = FALSE],
                       Spawn(child, p, script), wake)
    BY <1>1
  <2>. DEFINE sv == [ok EXCEPT ![s].pid = p, ![s].flagpaused = FALSE]
              ch == Spawn(child, p, script)
  <2>2. TrackedIn(sv, ch)
    BY SpawnTracked
  <2>3. p \in Pids
    BY DEF Unused
  <2>4. sv \in [Services -> SvcRecord]
    <3>1. ok \in [Services -> SvcRecord]
      BY DEF SamePids
    <3>. QED BY <2>3, <3>1, NewPidType
  <2>5. ch \in [Pids -> ChildRecord]
    BY <2>3, SpawnType DEF TypeOK
  <2>. HIDE DEF sv, ch
  <2>6. pidchange(sv, ch, wake)
    BY <2>1 DEF sv, ch
  <2>. QED BY <2>2, <2>4, <2>5, <2>6, PidchangeTracked DEF Tracked
<1>2. CASE svc' = failed /\ child' = child
  BY <1>2, SamePidsTracked DEF Tracked
<1>. QED BY <1>1, <1>2 DEF forkexecve

LEMMA TrystartTracked ==
  ASSUME TypeOK, Tracked, NEW s \in Services, svc[s].pid = NoPid,
         NEW sv, SamePids(sv), NEW first, NEW file, trystart(s, sv, first, file)
  PROVE  Tracked'
<1>. DEFINE new(st) == [sv EXCEPT ![s].flagstatus = st]
            none == [sv EXCEPT ![s].flagwant = FALSE, ![s].flagstatus = "started"]
<1>1. \A st \in Statuses : SamePids(new(st))
  BY DEF SamePids, SvcRecord
<1>2. SamePids(none)
  BY ZenonT(60) DEF SamePids, SvcRecord, Statuses
<1>3. ASSUME NEW script \in Scripts \ {"notify"}, NEW st \in Statuses,
             ServiceOf(script) = s, forkexecve(s, script, new(st), new(st), file)
      PROVE  Tracked'
  <2>. HIDE DEF new
  <2>. QED BY <1>1, <1>3, ForkexecveTracked
<1>4. ASSUME announce(none), UNCHANGED child
      PROVE  Tracked'
  BY <1>2, <1>4, SamePidsTracked DEF announce, Tracked
<1>5. /\ "log" \in Scripts \ {"notify"} /\ "start" \in Scripts \ {"notify"}
      /\ "run" \in Scripts \ {"notify"} /\ "running" \in Statuses /\ "starting" \in Statuses
      /\ ServiceOf("log") = "log" /\ ServiceOf("start") = "main" /\ ServiceOf("run") = "main"
  BY DEF Scripts, Statuses, ServiceOf
<1>. QED BY <1>3, <1>4, <1>5 DEF trystart

LEMMA TrystopTracked ==
  ASSUME TypeOK, Tracked, NEW s \in Services, svc[s].pid = NoPid,
         NEW sv, SamePids(sv), trystop(s, sv)
  PROVE  Tracked'
<1>. DEFINE ok   == [sv EXCEPT ![s].ranstop = TRUE]
            none == [sv EXCEPT ![s].ranstop = TRUE, ![s].flagstatus = "stopped"]
<1>1. SamePids(ok) /\ SamePids(none)
  <2>1. sv \in [Services -> SvcRecord]
    BY DEF SamePids
  <2>2. ok \in [Services -> SvcRecord]
    BY <2>1 DEF SvcRecord
  <2>3. none \in [Services -> SvcRecord]
    <3>1. none = [ok EXCEPT ![s].flagstatus = "stopped"]
      OBVIOUS
    <3>. HIDE DEF ok
    <3>2. [ok EXCEPT ![s].flagstatus = "stopped"] \in [Services -> SvcRecord]
      BY <2>2, SetStatusType DEF Statuses
    <3>. QED BY <3>1, <3>2
  <2>4. \A t \in Services : ok[t].pid = sv[t].pid /\ none[t].pid = sv[t].pid
    BY <2>1 DEF SvcRecord
  <2>. QED BY <2>2, <2>3, <2>4 DEF SamePids
<1>2. CASE announce(none) /\ UNCHANGED child
  BY <1>1, <1>2, SamePidsTracked DEF announce, Tracked
<1>3. CASE s = "main" /\ forkexecve(s, "stop", ok, sv, Announced(sv))
  <2>1. "stop" \in Scripts \ {"notify"} /\ ServiceOf("stop") = "main"
    BY DEF Scripts, ServiceOf
  <2>. HIDE DEF ok
  <2>. QED BY <1>1, <1>3, <2>1, ForkexecveTracked
<1>. QED BY <1>2, <1>3 DEF trystop

(* Signals make and end no process.                                        *)
LEMMA KillsvcTracked ==
  ASSUME TypeOK, NEW ch \in [Pids -> ChildRecord], NEW s \in Services, NEW group, NEW sig,
         NEW q \in Pids
  PROVE  /\ killsvc(ch, s, group, sig)[q].script = ch[q].script
         /\ killsvc(ch, s, group, sig)[q].state = "none" <=> ch[q].state = "none"
<1>1. \A c \in ChildRecord : /\ Deliver(c, sig).script = c.script
                             /\ Deliver(c, sig).state = "none" <=> c.state = "none"
  <2>. SUFFICES ASSUME NEW c \in ChildRecord
                PROVE  /\ Deliver(c, sig).script = c.script
                       /\ Deliver(c, sig).state = "none" <=> c.state = "none"
    OBVIOUS
  <2>1. Deliver(c, sig).script = c.script
    BY DEF Deliver, ChildRecord
  <2>2. Deliver(c, sig).state = "none" <=> c.state = "none"
    BY DEF Deliver, ChildRecord
  <2>. QED BY <2>1, <2>2
<1>. QED BY <1>1 DEF killsvc

LEMMA SameChildrenTracked ==
  ASSUME Tracked, NEW sv, SamePids(sv), TypeOK, NEW ch,
         \A q \in Pids : /\ ch[q].script = child[q].script
                         /\ ch[q].state = "none" <=> child[q].state = "none"
  PROVE  TrackedIn(sv, ch)
BY DEF Tracked, TrackedIn, SamePids, ServiceOf, Services, TypeOK, SvcRecord

LEMMA StopsvcTracked ==
  ASSUME TypeOK, Tracked, NEW s \in Services, NEW group \in BOOLEAN, NEW sv, SamePids(sv),
         stopsvc(s, group, sv)
  PROVE  Tracked'
<1>. DEFINE ch1 == killsvc(child, s, group, "TERM")
            ch2 == killsvc(ch1, s, group, "CONT")
            sv2 == [sv EXCEPT ![s].flagpaused = FALSE, ![s].flagstatus = "stopping",
                              ![s].ranstop = FALSE]
<1>1. svc' = sv2 /\ child' = ch2
  BY DEF stopsvc, Signalled
<1>2. ch1 \in [Pids -> ChildRecord]
  BY KillsvcType DEF TypeOK
<1>3. \A q \in Pids : /\ ch2[q].script = child[q].script
                      /\ ch2[q].state = "none" <=> child[q].state = "none"
  <2>. SUFFICES ASSUME NEW q \in Pids
                PROVE  /\ ch2[q].script = child[q].script
                       /\ ch2[q].state = "none" <=> child[q].state = "none"
    OBVIOUS
  <2>1. /\ ch1[q].script = child[q].script
        /\ ch1[q].state = "none" <=> child[q].state = "none"
    BY KillsvcTracked DEF TypeOK
  <2>. HIDE DEF ch1
  <2>2. /\ ch2[q].script = ch1[q].script
        /\ ch2[q].state = "none" <=> ch1[q].state = "none"
    BY <1>2, KillsvcTracked
  <2>. QED BY <2>1, <2>2
<1>4. SamePids(sv2)
  <2>1. \A t \in Services : sv2[t].pid = sv[t].pid
    BY DEF SamePids
  <2>2. sv2 \in [Services -> SvcRecord]
    BY <1>1, StopsvcType DEF SamePids, TypeOK
  <2>. QED BY <2>1, <2>2 DEF SamePids
<1>. HIDE DEF sv2, ch2
<1>. QED BY <1>1, <1>3, <1>4, SameChildrenTracked DEF Tracked

(* Starting a service leaves the other one's pid alone.                    *)
LEMMA ForkexecveOthers ==
  ASSUME NEW s \in Services, NEW t \in Services, t # s, NEW script,
         NEW ok, SamePids(ok), NEW failed, SamePids(failed), NEW file,
         forkexecve(s, script, ok, failed, file)
  PROVE  svc'[t].pid = svc[t].pid
<1>1. \/ \E p \in Pids : svc' = [ok EXCEPT ![s].pid = p, ![s].flagpaused = FALSE]
      \/ svc' = failed
  BY DEF forkexecve, pidchange, announce, Unused
<1>. QED BY <1>1 DEF SamePids

LEMMA TrystartOthers ==
  ASSUME svc \in [Services -> SvcRecord], NEW s \in Services, NEW t \in Services, t # s,
         NEW first, NEW file, trystart(s, svc, first, file)
  PROVE  svc'[t].pid = svc[t].pid
<1>. DEFINE new(st) == [svc EXCEPT ![s].flagstatus = st]
<1>1. \A st \in Statuses : SamePids(new(st))
  BY DEF SamePids, SvcRecord
<1>2. ASSUME NEW script, NEW st \in Statuses, forkexecve(s, script, new(st), new(st), file)
      PROVE  svc'[t].pid = svc[t].pid
  <2>. HIDE DEF new
  <2>. QED BY <1>1, <1>2, ForkexecveOthers
<1>3. "running" \in Statuses /\ "starting" \in Statuses
  BY DEF Statuses
<1>. QED BY <1>2, <1>3 DEF trystart, announce

-----------------------------------------------------------------------------
(* The inductive invariant: a service has no process where supervise is    *)
(* about to start one, and none when supervise has exited.                 *)

Places ==
  /\ pc \in {"bootlog", "done"} => \A s \in Services : svc[s].pid = NoPid
  /\ pc = "bootmain" => svc["main"].pid = NoPid
  /\ pc = "reaped" => svc[cur].pid = NoPid

LifeInv == TypeOK /\ Tracked /\ Places

LEMMA LifeInit == ASSUME Init PROVE LifeInv
<1>1. \A s \in Services : svc[s].pid = NoPid
  BY DEF Init
<1>2. \A p \in Pids : child[p].state = "none"
  BY DEF Init, NoChild
<1>3. pc = "bootlog"
  BY DEF Init
<1>. QED BY <1>1, <1>2, <1>3, TypeInit DEF LifeInv, Tracked, TrackedIn, Places

LEMMA KeptTracked == ASSUME Tracked, UNCHANGED <<svc, child>> PROVE Tracked'
BY DEF Tracked, TrackedIn

LEMMA SameSvc == ASSUME TypeOK PROVE SamePids(svc)
BY DEF TypeOK, SamePids

LEMMA BootLife ==
  ASSUME LifeInv, BootLog \/ BootMain
  PROVE  Tracked' /\ Places'
<1>. USE DEF LifeInv
<1>1. PICK s \in Services :
        /\ s = "log" <=> pc = "bootlog"
        /\ Boot(s, pc, IF s = "log" THEN "bootmain" ELSE "doit")
  BY DEF BootLog, BootMain, Boot, Services
<1>2. svc[s].pid = NoPid
  BY <1>1 DEF Places, Services, BootLog, BootMain, Boot
<1>3. Tracked'
  <2>1. CASE trystart(s, svc, firstrun, status)
    BY <1>2, <2>1, SameSvc, TrystartTracked
  <2>2. CASE UNCHANGED <<svc, child>>
    BY <2>2, KeptTracked
  <2>. QED BY <1>1, <2>1, <2>2 DEF Boot
<1>4. Places'
  <2>1. CASE s = "main"
    BY <1>1, <2>1 DEF Boot, Places
  <2>2. CASE s = "log"
    <3>1. svc["main"].pid = NoPid /\ "main" \in Services
      BY <1>1, <2>2 DEF Places, Services
    <3>2. svc'["main"].pid = svc["main"].pid
      BY <1>1, <2>2, <3>1, TrystartOthers DEF Boot, TypeOK
    <3>. QED BY <1>1, <2>2, <3>1, <3>2 DEF Boot, Places
  <2>. QED BY <2>1, <2>2 DEF Services
<1>. QED BY <1>3, <1>4

LEMMA ReapSvcLife ==
  ASSUME LifeInv, NEW s \in Services, NEW p \in Pids, ReapSvc(s, p)
  PROVE  Tracked' /\ Places'
<1>. USE DEF LifeInv
<1>. DEFINE sv == [svc EXCEPT ![s] = Verdict(s, child[p].outcome)]
            ch == [child EXCEPT ![p] = NoChild]
<1>1. child[p].outcome \in AllOutcomes
  BY DEF TypeOK, ChildRecord
<1>2. sv \in [Services -> SvcRecord] /\ ch \in [Pids -> ChildRecord]
  BY <1>1, VerdictType DEF TypeOK, NoChild, ChildRecord, Scripts, AllOutcomes
<1>3. sv[s].pid = NoPid /\ \A t \in Services : t # s => sv[t].pid = svc[t].pid
  BY DEF TypeOK, SvcRecord, Verdict
<1>4. p # NoPid /\ svc[s].pid = p
  BY SuperviseAssumption DEF ReapSvc
<1>5. ServiceOf(child[p].script) = s
  BY <1>4 DEF Tracked, TrackedIn
<1>6. \A t \in Services : t # s => svc[t].pid # p
  BY <1>4, <1>5 DEF Tracked, TrackedIn
<1>7. ch[p].state = "none" /\ \A q \in Pids : q # p => ch[q] = child[q]
  BY DEF TypeOK, NoChild
<1>8. pidchange(sv, ch, wake) /\ pc' = "reaped" /\ cur' = s
  BY DEF ReapSvc
<1>. HIDE DEF sv, ch
<1>9. \A q \in Pids : ch[q].state # "none" /\ ch[q].script # "notify"
         => sv[ServiceOf(ch[q].script)].pid = q
  <2>. SUFFICES ASSUME NEW q \in Pids, ch[q].state # "none", ch[q].script # "notify"
                PROVE  sv[ServiceOf(ch[q].script)].pid = q
    OBVIOUS
  <2>1. q # p /\ ch[q] = child[q]
    BY <1>7
  <2>2. svc[ServiceOf(child[q].script)].pid = q
    BY <2>1 DEF Tracked, TrackedIn
  <2>3. ServiceOf(child[q].script) # s /\ ServiceOf(child[q].script) \in Services
    BY <1>4, <2>1, <2>2 DEF ServiceOf, Services
  <2>. QED BY <1>3, <2>1, <2>2, <2>3
<1>10. \A t \in Services : sv[t].pid # NoPid
          => /\ ch[sv[t].pid].state # "none" /\ ch[sv[t].pid].script # "notify"
             /\ ServiceOf(ch[sv[t].pid].script) = t
  <2>. SUFFICES ASSUME NEW t \in Services, sv[t].pid # NoPid
                PROVE  /\ ch[sv[t].pid].state # "none" /\ ch[sv[t].pid].script # "notify"
                       /\ ServiceOf(ch[sv[t].pid].script) = t
    OBVIOUS
  <2>1. t # s /\ sv[t].pid = svc[t].pid /\ svc[t].pid # p
    BY <1>3, <1>6
  <2>2. svc[t].pid \in Pids
    BY <2>1 DEF TypeOK, SvcRecord
  <2>3. ch[svc[t].pid] = child[svc[t].pid]
    BY <1>7, <2>1, <2>2
  <2>. QED BY <2>1, <2>3 DEF Tracked, TrackedIn
<1>11. TrackedIn(sv, ch)
  BY <1>9, <1>10 DEF TrackedIn
<1>12. Tracked'
  BY <1>2, <1>8, <1>11, PidchangeTracked DEF Tracked
<1>13. Places'
  BY <1>3, <1>8 DEF Places, pidchange, announce
<1>. QED BY <1>12, <1>13

LEMMA ReapedLife ==
  ASSUME LifeInv, Reaped
  PROVE  Tracked' /\ Places'
<1>. USE DEF LifeInv
<1>1. svc[cur].pid = NoPid /\ cur \in Services
  BY DEF Reaped, Places, TypeOK
<1>2. Tracked'
  <2>1. CASE trystart(cur, svc, firstrun, status)
    BY <1>1, <2>1, SameSvc, TrystartTracked
  <2>2. CASE trystop(cur, svc)
    BY <1>1, <2>2, SameSvc, TrystopTracked
  <2>3. CASE UNCHANGED <<svc, child>>
    BY <2>3, KeptTracked
  <2>. QED BY <2>1, <2>2, <2>3 DEF Reaped
<1>3. Places'
  BY DEF Reaped, EnterController, Places
<1>. QED BY <1>2, <1>3

LEMMA ControllerLife ==
  ASSUME LifeInv, \/ SelectGroup \/ SelectService \/ Down \/ Up
                  \/ Once \/ Signal \/ Pause \/ Exit
  PROVE  Tracked' /\ Places'
<1>. USE DEF LifeInv
<1>. SUFFICES Tracked'
  <2>1. pc = "controller" /\ pc' = pc
    BY DEF SelectGroup, SelectService, Down, Up, Once, Signal, Pause, Exit, Command
  <2>. QED BY <2>1 DEF Places
<1>1. cur \in Services /\ killgroup \in BOOLEAN
  BY DEF TypeOK
<1>2. CASE SelectGroup \/ SelectService \/ Exit
  BY <1>2, KeptTracked DEF SelectGroup, SelectService, Exit, announce
<1>3. CASE Down
  <2>. DEFINE sv == [svc EXCEPT ![cur].flagwant = TRUE, ![cur].flagwantup = FALSE]
  <2>1. SamePids(sv)
    BY ZenonT(60) DEF SamePids, TypeOK, SvcRecord
  <2>2. \/ stopsvc(cur, killgroup, sv)
        \/ svc[cur].pid = NoPid /\ trystop(cur, sv)
    BY <1>3 DEF Down
  <2>. HIDE DEF sv
  <2>. QED BY <1>1, <2>1, <2>2, StopsvcTracked, TrystopTracked
<1>4. CASE Up
  <2>. DEFINE idle == svc[cur].pid = NoPid
              first == IF cur = "main" THEN ~svc["main"].flagwantup ELSE firstrun
              r == [svc[cur] EXCEPT !.flagwant = TRUE, !.flagwantup = TRUE,
                                    !.flagstatus = IF idle THEN "starting" ELSE @]
              sv == [svc EXCEPT ![cur] = r]
  <2>1. r \in SvcRecord /\ r.pid = svc[cur].pid
    BY <1>1 DEF TypeOK, SvcRecord, Statuses
  <2>2. \/ idle /\ trystart(cur, sv, first, Announced(sv))
        \/ announce(sv) /\ UNCHANGED child
    BY <1>1, <1>4 DEF Up, TypeOK
  <2>. HIDE DEF r
  <2>3. SamePids(sv)
    BY <2>1 DEF SamePids, TypeOK
  <2>. HIDE DEF sv, first
  <2>4. CASE idle /\ trystart(cur, sv, first, Announced(sv))
    BY <1>1, <2>3, <2>4, TrystartTracked
  <2>5. CASE announce(sv) /\ UNCHANGED child
    BY <2>3, <2>5, SamePidsTracked DEF Tracked, announce
  <2>. QED BY <2>2, <2>4, <2>5
<1>5. CASE Once
  <2>. DEFINE sv == [svc EXCEPT ![cur].flagwant = FALSE]
  <2>1. SamePids(sv)
    BY DEF SamePids, TypeOK, SvcRecord
  <2>2. \/ svc[cur].pid = NoPid /\ trystart(cur, sv, firstrun, Announced(sv))
        \/ announce(sv) /\ UNCHANGED child
    BY <1>5 DEF Once
  <2>. HIDE DEF sv
  <2>3. CASE svc[cur].pid = NoPid /\ trystart(cur, sv, firstrun, Announced(sv))
    BY <1>1, <2>1, <2>3, TrystartTracked
  <2>4. CASE announce(sv) /\ UNCHANGED child
    BY <2>1, <2>4, SamePidsTracked DEF Tracked, announce
  <2>. QED BY <2>2, <2>3, <2>4
<1>6. CASE Signal
  <2>. DEFINE ch == killsvc(child, cur, killgroup, SignalOf(Head(fifo).ch))
  <2>1. \A q \in Pids : /\ ch[q].script = child[q].script
                        /\ ch[q].state = "none" <=> child[q].state = "none"
    BY <1>1, KillsvcTracked DEF TypeOK
  <2>2. svc' = svc /\ child' = ch
    BY <1>6 DEF Signal, Signalled
  <2>. HIDE DEF ch
  <2>. QED BY <2>1, <2>2, SameSvc, SameChildrenTracked DEF Tracked
<1>7. CASE Pause
  <2>. DEFINE stop == Head(fifo).ch = "p"
              sv == [svc EXCEPT ![cur].flagpaused = stop]
              ch == killsvc(child, cur, killgroup, IF stop THEN "STOP" ELSE "CONT")
  <2>1. \A q \in Pids : /\ ch[q].script = child[q].script
                        /\ ch[q].state = "none" <=> child[q].state = "none"
    BY <1>1, KillsvcTracked DEF TypeOK
  <2>2. svc' = sv /\ child' = ch
    BY <1>7 DEF Pause, announce, Signalled
  <2>3. \A b \in BOOLEAN : SamePids([svc EXCEPT ![cur].flagpaused = b])
    BY <1>1 DEF SamePids, TypeOK, SvcRecord
  <2>4. stop \in BOOLEAN
    OBVIOUS
  <2>5. SamePids(sv)
    BY <2>3, <2>4
  <2>. HIDE DEF ch, sv
  <2>. QED BY <2>1, <2>2, <2>5, SameChildrenTracked DEF Tracked
<1>. QED BY <1>2, <1>3, <1>4, <1>5, <1>6, <1>7

LEMMA LoopEndLife ==
  ASSUME LifeInv, LoopEnd
  PROVE  Tracked' /\ Places'
<1>. USE DEF LifeInv
<1>1. CASE stopsvc("log", FALSE, svc)
  <2>1. Tracked'
    BY <1>1, SameSvc, StopsvcTracked DEF Services
  <2>2. \A s \in Services : svc'[s].pid = svc[s].pid
    BY <1>1 DEF stopsvc, TypeOK
  <2>. QED BY <2>1, <2>2 DEF LoopEnd, Places, AllDown
<1>2. CASE UNCHANGED <<svc, child>>
  BY <1>2, KeptTracked DEF LoopEnd, Places, AllDown
<1>. QED BY <1>1, <1>2 DEF LoopEnd

LEMMA OtherLife ==
  ASSUME LifeInv,
         \/ doit \/ TurnBegins \/ ReapNone \/ (\E p \in Pids : ReapOther(p)) \/ Environment
  PROVE  Tracked' /\ Places'
<1>. USE DEF LifeInv
<1>1. CASE doit \/ TurnBegins \/ ReapNone
  BY <1>1, KeptTracked DEF doit, announce, TurnBegins, ReapNone, EnterController, Places
<1>2. ASSUME NEW p \in Pids, ReapOther(p) PROVE Tracked' /\ Places'
  <2>1. \A s \in Services : svc[s].pid # p
    BY <1>2 DEF ReapOther
  <2>2. child'[p].state = "none" /\ \A q \in Pids : q # p => child'[q] = child[q]
    BY <1>2 DEF ReapOther, NoChild, TypeOK
  <2>3. svc' = svc /\ pc' = pc /\ cur' = cur
    BY <1>2 DEF ReapOther, thread
  <2>4. \A s \in Services : svc[s].pid # NoPid => svc[s].pid \in Pids
    BY DEF TypeOK, SvcRecord
  <2>. QED BY <2>1, <2>2, <2>3, <2>4 DEF Tracked, TrackedIn, Places
<1>3. ASSUME NEW p \in Pids, ChildExits(p) PROVE Tracked' /\ Places'
  <2>1. PICK o : child' = [child EXCEPT ![p].state = "zombie", ![p].outcome = o]
    BY <1>3 DEF ChildExits
  <2>2. child[p].state # "none"
    BY <1>3 DEF ChildExits, MayExit
  <2>3. \A q \in Pids : /\ child'[q].script = child[q].script
                        /\ child'[q].state = "none" <=> child[q].state = "none"
    BY <2>1, <2>2 DEF TypeOK, ChildRecord
  <2>4. svc' = svc /\ pc' = pc /\ cur' = cur
    BY <1>3 DEF ChildExits, thread
  <2>5. TrackedIn(svc, child')
    BY <2>3, SameSvc, SameChildrenTracked
  <2>. QED BY <2>4, <2>5 DEF Tracked, Places
<1>4. CASE (\E msg \in Requests : SvcWrites(msg)) \/ (\E sig \in Handled : CatchSignal(sig))
           \/ EditDirectory
  BY <1>4, KeptTracked DEF SvcWrites, CatchSignal, HandlerWrites, EditDirectory, thread, Places
<1>. QED BY <1>1, <1>2, <1>3, <1>4 DEF Environment

LEMMA LifeStep == ASSUME LifeInv, [Next]_vars PROVE LifeInv'
<1>1. TypeOK'
  BY TypeStep DEF LifeInv
<1>2. CASE UNCHANGED vars
  BY <1>2, KeptTracked, <1>1 DEF vars, LifeInv, Places
<1>3. CASE \E s \in Services, p \in Pids : ReapSvc(s, p)
  BY <1>1, <1>3, ReapSvcLife DEF LifeInv
<1>4. CASE Gone
  BY <1>4, KeptTracked, <1>1 DEF Gone, vars, LifeInv, Places
<1>5. CASE Next /\ ~Gone /\ ~\E s \in Services, p \in Pids : ReapSvc(s, p)
  <2>1. Tracked' /\ Places'
    BY <1>5, BootLife, ReapedLife, ControllerLife, LoopEndLife, OtherLife
       DEF Next, Turn, Wake, Timeout
  <2>. QED BY <1>1, <2>1 DEF LifeInv
<1>. QED BY <1>2, <1>3, <1>4, <1>5

(* The inductive invariant: types, the correspondence of services and      *)
(* processes, and where supervise's thread is when the latter may differ.  *)
THEOREM LifeInvariant == Spec => []LifeInv
BY LifeInit, LifeStep, PTL DEF Spec

(* Every process that supervise started for a service is known to it until *)
(* it has been reaped, for any number of process ids and whether or not    *)
(* forks fail: no order of commands, deaths and signals loses one.         *)
THEOREM NoChildLost == Spec => []Tracked
<1>1. LifeInv => Tracked
  BY DEF LifeInv
<1>. QED BY <1>1, LifeInvariant, PTL

(* supervise exits only when neither service has a process.                *)
THEOREM ExitsClean == Spec => []ExitClean
<1>1. LifeInv => ExitClean
  <2>. SUFFICES ASSUME LifeInv, pc = "done", NEW p \in Pids, Exists(p)
                PROVE  child[p].script = "notify"
    BY DEF ExitClean
  <2>1. \A s \in Services : svc[s].pid = NoPid
    BY DEF LifeInv, Places
  <2>2. p # NoPid
    BY SuperviseAssumption
  <2>3. ServiceOf(child[p].script) \in Services
    BY DEF ServiceOf, Services
  <2>. QED BY <2>1, <2>2, <2>3 DEF LifeInv, Tracked, TrackedIn, Exists
<1>. QED BY <1>1, LifeInvariant, PTL

-----------------------------------------------------------------------------
(* What starting, stopping and signalling a service do to it, to the other *)
(* service and to the children that there are already                      *)

ChildrenStay == \A q \in Pids : Exists(q) => child'[q] = child[q]
OthersAs(sv, s) == \A t \in Services : t # s => svc'[t] = sv[t]
SameGoal(r, q) == r.flagwant = q.flagwant /\ r.flagwantup = q.flagwantup

(* Service s has got a process, which runs runscript if s is "main".       *)
Begun(s) ==
  \E p \in Pids :
    /\ ~Exists(p) /\ svc'[s].pid = p /\ ~svc'[s].flagpaused
    /\ child'[p].state = "live" /\ child'[p].script # "notify" /\ ServiceOf(child'[p].script) = s
    /\ s = "main" => runscript' = child'[p].script

(* Service s has no process, its fork has failed.                          *)
ForkFailed(s, r, file) ==
  /\ ForkMayFail /\ status' = file
  /\ svc'[s].pid = r.pid /\ svc'[s].flagpaused = r.flagpaused /\ SameGoal(svc'[s], r)

LEMMA PidchangeDoes ==
  ASSUME NEW sv \in [Services -> SvcRecord], NEW ch \in [Pids -> ChildRecord], NEW w,
         pidchange(sv, ch, w)
  PROVE  /\ svc' = sv /\ status' = Announced(sv)
         /\ \A q \in Pids : ch[q].state # "none" => child'[q] = ch[q]
<1>1. svc' = sv /\ status' = Announced(sv)
  BY DEF pidchange, announce
<1>2. ASSUME NEW q \in Pids, ch[q].state # "none" PROVE child'[q] = ch[q]
  <2>1. CASE child' = ch
    BY <2>1
  <2>2. ASSUME NEW p \in Unused(ch), child' = Spawn(ch, p, "notify") PROVE child'[q] = ch[q]
    BY <1>2, <2>2 DEF Unused, Spawn
  <2>. QED BY <2>1, <2>2 DEF pidchange
<1>. QED BY <1>1, <1>2

LEMMA ForkexecveDoes ==
  ASSUME TypeOK, NEW s \in Services, NEW script \in Scripts \ {"notify"}, ServiceOf(script) = s,
         NEW ok \in [Services -> SvcRecord], NEW failed \in [Services -> SvcRecord], NEW file,
         forkexecve(s, script, ok, failed, file), s = "main" => runscript' = script
  PROVE  /\ ChildrenStay
         /\ \/ /\ Begun(s) /\ status' = Announced(svc')
               /\ \E p \in Pids : svc' = [ok EXCEPT ![s].pid = p, ![s].flagpaused = FALSE]
               /\ child'[svc'[s].pid].script = script
            \/ ForkMayFail /\ svc' = failed /\ status' = file
<1>1. ASSUME NEW p \in Unused(child),
             pidchange([ok EXCEPT ![s].pid = p, ![s].flagpaused = FALSE],
                       Spawn(child, p, script), wake)
      PROVE  /\ ChildrenStay
             /\ Begun(s) /\ status' = Announced(svc')
             /\ \E q \in Pids : svc' = [ok EXCEPT ![s].pid = q, ![s].flagpaused = FALSE]
             /\ child'[svc'[s].pid].script = script
  <2>. DEFINE sv == [ok EXCEPT ![s].pid = p, ![s].flagpaused = FALSE]
              ch == Spawn(child, p, script)
  <2>1. p \in Pids /\ ~Exists(p)
    BY DEF Unused, Exists
  <2>2. ch \in [Pids -> ChildRecord]
    BY <2>1, SpawnType DEF TypeOK
  <2>3. sv \in [Services -> SvcRecord]
    BY <2>1, NewPidType
  <2>4. ch[p].state = "live" /\ ch[p].script = script /\ \A q \in Pids : q # p => ch[q] = child[q]
    BY <2>1 DEF Spawn, TypeOK
  <2>5. sv[s].pid = p /\ ~sv[s].flagpaused
    BY DEF SvcRecord
  <2>. HIDE DEF sv, ch
  <2>6. pidchange(sv, ch, wake)
    BY <1>1 DEF sv, ch
  <2>7. /\ svc' = sv /\ status' = Announced(sv)
        /\ \A q \in Pids : ch[q].state # "none" => child'[q] = ch[q]
    BY <2>2, <2>3, <2>6, PidchangeDoes
  <2>8. child'[p] = ch[p]
    BY <2>1, <2>4, <2>7
  <2>9. ChildrenStay
    BY <2>1, <2>4, <2>7 DEF ChildrenStay, Exists
  <2>10. Begun(s)
    BY <2>1, <2>4, <2>5, <2>7, <2>8 DEF Begun
  <2>11. \E q \in Pids : svc' = [ok EXCEPT ![s].pid = q, ![s].flagpaused = FALSE]
    BY <2>1, <2>7 DEF sv
  <2>. QED BY <2>4, <2>5, <2>7, <2>8, <2>9, <2>10, <2>11
<1>2. CASE ForkMayFail /\ svc' = failed /\ status' = file /\ child' = child
  BY <1>2 DEF ChildrenStay
<1>. QED BY <1>1, <1>2 DEF forkexecve

LEMMA TrystartDoes ==
  ASSUME TypeOK, NEW s \in Services, NEW sv \in [Services -> SvcRecord], NEW first, NEW file,
         trystart(s, sv, first, file)
  PROVE  /\ ChildrenStay /\ OthersAs(sv, s) /\ (s = "log" => runscript' = runscript)
         /\ \/ /\ Begun(s) /\ status' = Announced(svc') /\ SameGoal(svc'[s], sv[s])
               /\ svc'[s].flagstatus \in {"starting", "running"}
               /\ child'[svc'[s].pid].script \in {"start", "run", "log"}
               /\ svc'[s].flagstatus = "starting" => s = "main"
            \/ /\ ForkFailed(s, sv[s], file) /\ svc'[s].flagstatus \in {"starting", "running"}
               /\ svc'[s].flagstatus = "starting" => s = "main"
            \/ /\ s = "main" /\ svc'[s].pid = sv[s].pid /\ svc'[s].flagpaused = sv[s].flagpaused
               /\ ~svc'[s].flagwant /\ svc'[s].flagstatus = "started" /\ status' = Announced(svc')
<1>. DEFINE new(st) == [sv EXCEPT ![s].flagstatus = st]
<1>1. ASSUME NEW script \in {"start", "run", "log"}, NEW st \in {"starting", "running"},
             ServiceOf(script) = s, forkexecve(s, script, new(st), new(st), file),
             s = "main" => runscript' = script, s = "log" => runscript' = runscript,
             st = "starting" => s = "main"
      PROVE  /\ ChildrenStay /\ OthersAs(sv, s)
             /\ \/ /\ Begun(s) /\ status' = Announced(svc') /\ SameGoal(svc'[s], sv[s])
                   /\ svc'[s].flagstatus \in {"starting", "running"}
                   /\ child'[svc'[s].pid].script \in {"start", "run", "log"}
                   /\ svc'[s].flagstatus = "starting" => s = "main"
                \/ /\ ForkFailed(s, sv[s], file) /\ svc'[s].flagstatus \in {"starting", "running"}
                   /\ svc'[s].flagstatus = "starting" => s = "main"
  <2>1. new(st) \in [Services -> SvcRecord] /\ script \in Scripts \ {"notify"}
    BY SetStatusType DEF Statuses, Scripts
  <2>2. /\ \A t \in Services : t # s => new(st)[t] = sv[t]
        /\ new(st)[s].pid = sv[s].pid /\ new(st)[s].flagpaused = sv[s].flagpaused
        /\ SameGoal(new(st)[s], sv[s]) /\ new(st)[s].flagstatus = st
    BY DEF SvcRecord, SameGoal
  <2>. HIDE DEF new
  <2>3. /\ ChildrenStay
        /\ \/ /\ Begun(s) /\ status' = Announced(svc')
              /\ \E p \in Pids : svc' = [new(st) EXCEPT ![s].pid = p, ![s].flagpaused = FALSE]
              /\ child'[svc'[s].pid].script = script
           \/ ForkMayFail /\ svc' = new(st) /\ status' = file
    BY <1>1, <2>1, ForkexecveDoes, ZenonT(30)
  <2>4. ASSUME NEW p, svc' = [new(st) EXCEPT ![s].pid = p, ![s].flagpaused = FALSE]
        PROVE  /\ \A t \in Services : t # s => svc'[t] = new(st)[t]
               /\ SameGoal(svc'[s], new(st)[s]) /\ svc'[s].flagstatus = st
    BY <2>1, <2>2, <2>4 DEF SameGoal, SvcRecord
  <2>5. CASE ForkMayFail /\ svc' = new(st) /\ status' = file
    BY <1>1, <2>2, <2>3, <2>5 DEF OthersAs, ForkFailed
  <2>6. CASE /\ Begun(s) /\ status' = Announced(svc')
             /\ \E p \in Pids : svc' = [new(st) EXCEPT ![s].pid = p, ![s].flagpaused = FALSE]
             /\ child'[svc'[s].pid].script = script
    BY <1>1, <2>2, <2>3, <2>4, <2>6 DEF OthersAs, SameGoal
  <2>. QED BY <2>3, <2>5, <2>6
<1>2. ASSUME s = "main", announce([sv EXCEPT ![s].flagwant = FALSE, ![s].flagstatus = "started"]),
             child' = child
      PROVE  /\ ChildrenStay /\ OthersAs(sv, s)
             /\ svc'[s].pid = sv[s].pid /\ svc'[s].flagpaused = sv[s].flagpaused
             /\ ~svc'[s].flagwant /\ svc'[s].flagstatus = "started" /\ status' = Announced(svc')
  <2>1. svc' = [sv EXCEPT ![s].flagwant = FALSE, ![s].flagstatus = "started"] /\ status' = Announced(svc')
    BY <1>2 DEF announce
  <2>2. sv[s] \in SvcRecord
    OBVIOUS
  <2>3. svc'[s] = [sv[s] EXCEPT !.flagwant = FALSE, !.flagstatus = "started"]
    BY <2>1
  <2>. QED BY <1>2, <2>1, <2>2, <2>3 DEF ChildrenStay, OthersAs, SvcRecord
<1>3. ServiceOf("log") = "log" /\ ServiceOf("start") = "main" /\ ServiceOf("run") = "main"
  BY DEF ServiceOf
<1>4. CASE s = "log" /\ forkexecve(s, "log", new("running"), new("running"), file) /\ UNCHANGED runscript
  BY <1>1, <1>3, <1>4
<1>5. CASE s = "main" /\ forkexecve(s, "start", new("starting"), new("starting"), file) /\ runscript' = "start"
  BY <1>1, <1>3, <1>5
<1>6. CASE s = "main" /\ forkexecve(s, "run", new("running"), new("running"), file) /\ runscript' = "run"
  BY <1>1, <1>3, <1>6
<1>7. CASE /\ s = "main" /\ announce([sv EXCEPT ![s].flagwant = FALSE, ![s].flagstatus = "started"])
           /\ UNCHANGED <<runscript, child, wake>>
  BY <1>2, <1>7
<1>. HIDE DEF new
<1>8. \/ s = "log" /\ forkexecve(s, "log", new("running"), new("running"), file) /\ UNCHANGED runscript
      \/ s = "main" /\ forkexecve(s, "start", new("starting"), new("starting"), file) /\ runscript' = "start"
      \/ s = "main" /\ forkexecve(s, "run", new("running"), new("running"), file) /\ runscript' = "run"
      \/ /\ s = "main" /\ announce([sv EXCEPT ![s].flagwant = FALSE, ![s].flagstatus = "started"])
         /\ UNCHANGED <<runscript, child, wake>>
  BY DEF trystart, new
<1>. QED BY <1>4, <1>5, <1>6, <1>7, <1>8

LEMMA TrystopDoes ==
  ASSUME TypeOK, NEW s \in Services, NEW sv \in [Services -> SvcRecord], trystop(s, sv)
  PROVE  /\ ChildrenStay /\ OthersAs(sv, s) /\ (s = "log" => runscript' = runscript)
         /\ SameGoal(svc'[s], sv[s])
         /\ \/ /\ Begun(s) /\ status' = Announced(svc') /\ child'[svc'[s].pid].script = "stop"
               /\ svc'[s].flagstatus = sv[s].flagstatus /\ s = "main"
            \/ ForkMayFail /\ svc'[s] = sv[s] /\ status' = Announced(svc')
            \/ /\ svc'[s].pid = sv[s].pid /\ svc'[s].flagpaused = sv[s].flagpaused
               /\ svc'[s].flagstatus = "stopped" /\ status' = Announced(svc')
<1>1. sv[s] \in SvcRecord
  OBVIOUS
<1>2. CASE /\ announce([sv EXCEPT ![s].ranstop = TRUE, ![s].flagstatus = "stopped"])
           /\ UNCHANGED <<runscript, child, wake>>
  <2>1. svc' = [sv EXCEPT ![s].ranstop = TRUE, ![s].flagstatus = "stopped"] /\ status' = Announced(svc')
    BY <1>2 DEF announce
  <2>2. svc'[s] = [sv[s] EXCEPT !.ranstop = TRUE, !.flagstatus = "stopped"]
    BY <2>1
  <2>. QED BY <1>1, <1>2, <2>1, <2>2 DEF ChildrenStay, OthersAs, SameGoal, SvcRecord
<1>3. CASE /\ s = "main" /\ runscript' = "stop"
           /\ forkexecve(s, "stop", [sv EXCEPT ![s].ranstop = TRUE], sv, Announced(sv))
  <2>. DEFINE ok == [sv EXCEPT ![s].ranstop = TRUE]
  <2>1. ok \in [Services -> SvcRecord] /\ "stop" \in Scripts \ {"notify"} /\ ServiceOf("stop") = "main"
    BY DEF SvcRecord, Scripts, ServiceOf
  <2>2. /\ \A t \in Services : t # s => ok[t] = sv[t]
        /\ SameGoal(ok[s], sv[s]) /\ ok[s].flagstatus = sv[s].flagstatus
    BY <1>1 DEF SvcRecord, SameGoal
  <2>. HIDE DEF ok
  <2>3. forkexecve(s, "stop", ok, sv, Announced(sv))
    BY <1>3 DEF ok
  <2>4. /\ ChildrenStay
        /\ \/ /\ Begun(s) /\ status' = Announced(svc')
              /\ \E p \in Pids : svc' = [ok EXCEPT ![s].pid = p, ![s].flagpaused = FALSE]
              /\ child'[svc'[s].pid].script = "stop"
           \/ ForkMayFail /\ svc' = sv /\ status' = Announced(sv)
    BY <1>3, <2>1, <2>3, ForkexecveDoes
  <2>5. ASSUME NEW p, svc' = [ok EXCEPT ![s].pid = p, ![s].flagpaused = FALSE]
        PROVE  /\ \A t \in Services : t # s => svc'[t] = ok[t]
               /\ SameGoal(svc'[s], ok[s]) /\ svc'[s].flagstatus = ok[s].flagstatus
    BY <2>1, <2>5 DEF SameGoal, SvcRecord
  <2>6. CASE ForkMayFail /\ svc' = sv /\ status' = Announced(sv)
    BY <1>3, <2>4, <2>6 DEF OthersAs, SameGoal
  <2>7. CASE /\ Begun(s) /\ status' = Announced(svc')
             /\ \E p \in Pids : svc' = [ok EXCEPT ![s].pid = p, ![s].flagpaused = FALSE]
             /\ child'[svc'[s].pid].script = "stop"
    BY <1>3, <2>2, <2>4, <2>5, <2>7 DEF OthersAs, SameGoal
  <2>. QED BY <2>4, <2>6, <2>7
<1>. QED BY <1>2, <1>3 DEF trystop

(* What a signal does to the child of service s: ch becomes dh.            *)
SentTo(s, ch, dh) ==
  /\ \A q \in Pids : q # svc[s].pid => dh[q] = ch[q]
  /\ \A q \in Pids : dh[q].script = ch[q].script /\ dh[q].leader = ch[q].leader
                     /\ (dh[q].state \in {"live", "halted"} <=> ch[q].state \in {"live", "halted"})
                     /\ (dh[q].state = "none" <=> ch[q].state = "none")

LEMMA KillsvcDoes ==
  ASSUME TypeOK, NEW ch \in [Pids -> ChildRecord], NEW s \in Services, NEW group, NEW sig
  PROVE  LET dh == killsvc(ch, s, group, sig)
             p  == svc[s].pid
         IN  /\ SentTo(s, ch, dh)
             /\ p # NoPid /\ (group => ch[p].leader) /\ ch[p].state \in {"live", "halted"} =>
                  dh[p].state = IF sig = "STOP" THEN "halted" ELSE IF sig = "CONT" THEN "live"
                                ELSE ch[p].state
<1>1. svc[s].pid # NoPid => svc[s].pid \in Pids
  BY DEF TypeOK, SvcRecord
<1>2. \A c \in ChildRecord :
        /\ Deliver(c, sig).script = c.script /\ Deliver(c, sig).leader = c.leader
        /\ Deliver(c, sig).state = IF c.state \notin {"live", "halted"} THEN c.state
                                   ELSE IF sig = "STOP" THEN "halted"
                                   ELSE IF sig = "CONT" THEN "live" ELSE c.state
  <2>. SUFFICES ASSUME NEW c \in ChildRecord
                PROVE  /\ Deliver(c, sig).script = c.script /\ Deliver(c, sig).leader = c.leader
                       /\ Deliver(c, sig).state = IF c.state \notin {"live", "halted"} THEN c.state
                                                  ELSE IF sig = "STOP" THEN "halted"
                                                  ELSE IF sig = "CONT" THEN "live" ELSE c.state
    OBVIOUS
  <2>1. Deliver(c, sig).script = c.script
    BY DEF Deliver, ChildRecord
  <2>2. Deliver(c, sig).leader = c.leader
    BY DEF Deliver, ChildRecord
  <2>3. CASE c.state \notin {"live", "halted"}
    BY <2>1, <2>2, <2>3 DEF Deliver
  <2>4. CASE c.state \in {"live", "halted"}
    BY <2>1, <2>2, <2>4 DEF Deliver, ChildRecord
  <2>. QED BY <2>3, <2>4
<1>3. killsvc(ch, s, group, sig) = ch
      \/ /\ svc[s].pid \in Pids
         /\ killsvc(ch, s, group, sig) = [ch EXCEPT ![svc[s].pid] = Deliver(ch[svc[s].pid], sig)]
  BY <1>1 DEF killsvc
<1>4. svc[s].pid # NoPid /\ (group => ch[svc[s].pid].leader) =>
        /\ svc[s].pid \in Pids
        /\ killsvc(ch, s, group, sig) = [ch EXCEPT ![svc[s].pid] = Deliver(ch[svc[s].pid], sig)]
  BY <1>1 DEF killsvc
<1>5. SentTo(s, ch, killsvc(ch, s, group, sig))
  BY <1>2, <1>3 DEF SentTo
<1>. QED BY <1>1, <1>2, <1>4, <1>5

LEMMA StopsvcDoes ==
  ASSUME TypeOK, NEW s \in Services, NEW group \in BOOLEAN, NEW sv \in [Services -> SvcRecord],
         stopsvc(s, group, sv)
  PROVE  /\ SentTo(s, child, child') /\ OthersAs(sv, s) /\ SameGoal(svc'[s], sv[s])
         /\ svc'[s].pid = sv[s].pid /\ ~svc'[s].flagpaused /\ svc'[s].flagstatus = "stopping"
         /\ LET p == svc[s].pid
            IN  p # NoPid /\ child[p].leader /\ child[p].state \in {"live", "halted"}
                => child'[p].state = "live"
<1>. DEFINE ch == killsvc(child, s, group, "TERM")
            p == svc[s].pid
<1>1. child' = killsvc(ch, s, group, "CONT")
  BY DEF stopsvc, Signalled
<1>2. child \in [Pids -> ChildRecord]
  BY DEF TypeOK
<1>3. ch \in [Pids -> ChildRecord] /\ SentTo(s, child, ch)
  BY <1>2, KillsvcType, KillsvcDoes DEF TypeOK
<1>. HIDE DEF ch
<1>4. /\ SentTo(s, ch, child')
      /\ p # NoPid /\ (group => ch[p].leader) /\ ch[p].state \in {"live", "halted"} => child'[p].state = "live"
  BY <1>1, <1>3, KillsvcDoes
<1>5. SentTo(s, child, child')
  BY <1>3, <1>4 DEF SentTo
<1>6. p # NoPid => p \in Pids
  BY DEF TypeOK, SvcRecord
<1>7. p # NoPid /\ child[p].leader /\ child[p].state \in {"live", "halted"} => child'[p].state = "live"
  BY <1>3, <1>4, <1>6 DEF SentTo
<1>8. svc' = [sv EXCEPT ![s].flagpaused = FALSE, ![s].flagstatus = "stopping", ![s].ranstop = FALSE]
  BY DEF stopsvc
<1>9. sv[s] \in SvcRecord /\ svc'[s] = [sv[s] EXCEPT !.flagpaused = FALSE, !.flagstatus = "stopping",
                                                   !.ranstop = FALSE]
  BY <1>8
<1>. QED BY <1>5, <1>7, <1>8, <1>9 DEF OthersAs, SameGoal, SvcRecord

LEMMA ReapSvcDoes ==
  ASSUME TypeOK, NEW s \in Services, NEW p \in Pids, ReapSvc(s, p)
  PROVE  /\ OthersAs(svc, s) /\ svc'[s] = Verdict(s, child[p].outcome) /\ svc'[s].pid = NoPid
         /\ svc[s].pid = p /\ child[p].state = "zombie"
         /\ status' = Announced(svc') /\ runscript' = runscript
         /\ \A q \in Pids : Exists(q) /\ q # p => child'[q] = child[q]
         /\ pc = "reaper" /\ pc' = "reaped" /\ cur' = s
<1>. DEFINE sv == [svc EXCEPT ![s] = Verdict(s, child[p].outcome)]
            ch == [child EXCEPT ![p] = NoChild]
<1>1. child[p].outcome \in AllOutcomes
  BY DEF TypeOK, ChildRecord
<1>2. sv \in [Services -> SvcRecord] /\ ch \in [Pids -> ChildRecord]
  BY <1>1, VerdictType DEF TypeOK, NoChild, ChildRecord, Scripts, AllOutcomes
<1>3. sv[s] = Verdict(s, child[p].outcome) /\ \A t \in Services : t # s => sv[t] = svc[t]
  BY DEF TypeOK
<1>4. Verdict(s, child[p].outcome).pid = NoPid
  BY DEF TypeOK, SvcRecord, Verdict
<1>5. \A q \in Pids : q # p => ch[q] = child[q]
  BY DEF TypeOK
<1>6. pidchange(sv, ch, wake)
  BY DEF ReapSvc
<1>. HIDE DEF sv, ch
<1>7. svc' = sv /\ status' = Announced(sv) /\ \A q \in Pids : ch[q].state # "none" => child'[q] = ch[q]
  BY <1>2, <1>6, PidchangeDoes
<1>8. OthersAs(svc, s)
  BY <1>3, <1>7 DEF OthersAs
<1>9. \A q \in Pids : Exists(q) /\ q # p => child'[q] = child[q]
  BY <1>5, <1>7 DEF Exists
<1>. QED BY <1>3, <1>4, <1>7, <1>8, <1>9 DEF ReapSvc, Zombies

-----------------------------------------------------------------------------
(* What one step of supervise or of its environment does to a service      *)

Running(c) == c.state \in {"live", "halted"}

(* The service and its process keep together.                              *)
Holds(t) ==
  LET p == svc[t].pid
  IN  /\ p # NoPid /\ svc'[t].pid = p
      /\ child'[p].script = child[p].script /\ child'[p].leader = child[p].leader
      /\ t = "main" => runscript' = runscript
      /\ Running(child'[p]) => Running(child[p])
      /\ Running(child[p]) /\ ~Running(child'[p]) => svc'[t] = svc[t]
      /\ Running(child'[p]) /\ child[p].leader
           => \/ svc'[t].flagpaused <=> child'[p].state = "halted"
              \/ svc'[t].flagpaused = svc[t].flagpaused /\ child'[p].state = child[p].state

Begins(t) == svc[t].pid = NoPid /\ Begun(t)
Rests(t)  == svc'[t].pid = NoPid /\ (svc[t].pid # NoPid => child[svc[t].pid].state = "zombie")

Moves(t) == Holds(t) \/ Begins(t) \/ Rests(t)

LEMMA UntouchedMoves ==
  ASSUME TypeOK, NEW t \in Services, svc'[t] = svc[t], t = "main" => runscript' = runscript,
         svc[t].pid # NoPid => child'[svc[t].pid] = child[svc[t].pid]
  PROVE  Moves(t)
BY DEF Moves, Holds, Rests

(* Service s, which has no process, is started or stopped.                 *)
LEMMA TryMoves ==
  ASSUME LifeInv, NEW s \in Services, NEW sv \in [Services -> SvcRecord],
         svc[s].pid = NoPid, sv[s].pid = NoPid, \A u \in Services : u # s => sv[u] = svc[u],
         NEW first, NEW file, trystart(s, sv, first, file) \/ trystop(s, sv),
         NEW t \in Services
  PROVE  Moves(t)
<1>1. TypeOK /\ Tracked
  BY DEF LifeInv
<1>2. /\ ChildrenStay /\ OthersAs(sv, s) /\ (s = "log" => runscript' = runscript)
      /\ Begun(s) \/ svc'[s].pid = sv[s].pid
  BY <1>1, TrystartDoes, TrystopDoes DEF ForkFailed
<1>3. CASE t = s
  BY <1>2, <1>3 DEF Moves, Begins, Rests
<1>4. CASE t # s
  <2>1. svc'[t] = svc[t] /\ (t = "main" => runscript' = runscript)
    BY <1>2, <1>4 DEF OthersAs, Services
  <2>2. svc[t].pid # NoPid => svc[t].pid \in Pids /\ Exists(svc[t].pid)
    BY <1>1 DEF Tracked, TrackedIn, TypeOK, SvcRecord, Exists
  <2>. QED BY <1>1, <1>2, <2>1, <2>2, UntouchedMoves DEF ChildrenStay
<1>. QED BY <1>3, <1>4

LEMMA StopMoves ==
  ASSUME LifeInv, NEW s \in Services, NEW group \in BOOLEAN, NEW sv \in [Services -> SvcRecord],
         sv[s].pid = svc[s].pid, \A u \in Services : u # s => sv[u] = svc[u],
         stopsvc(s, group, sv), runscript' = runscript, NEW t \in Services
  PROVE  Moves(t)
<1>. DEFINE p == svc[s].pid
<1>1. TypeOK /\ Tracked
  BY DEF LifeInv
<1>2. /\ SentTo(s, child, child') /\ OthersAs(sv, s)
      /\ svc'[s].pid = sv[s].pid /\ ~svc'[s].flagpaused
      /\ p # NoPid /\ child[p].leader /\ child[p].state \in {"live", "halted"}
           => child'[p].state = "live"
  BY <1>1, StopsvcDoes
<1>3. \A u \in Services : svc[u].pid # NoPid => svc[u].pid \in Pids
  BY <1>1 DEF TypeOK, SvcRecord
<1>4. CASE t = s /\ p = NoPid
  BY <1>2, <1>4 DEF Moves, Rests
<1>5. CASE t = s /\ p # NoPid
  <2>1. Holds(t)
    BY <1>2, <1>3, <1>5 DEF Holds, SentTo, Running
  <2>. QED BY <2>1 DEF Moves
<1>6. CASE t # s
  <2>1. svc[t].pid # NoPid => svc[t].pid # p
    BY <1>1, <1>6 DEF Tracked, TrackedIn
  <2>. QED BY <1>1, <1>2, <1>3, <1>6, <2>1, UntouchedMoves DEF OthersAs, SentTo
<1>. QED BY <1>4, <1>5, <1>6

LEMMA BootMoves ==
  ASSUME LifeInv, BootLog \/ BootMain, NEW t \in Services
  PROVE  Moves(t)
<1>1. TypeOK /\ Places
  BY DEF LifeInv
<1>2. PICK s \in Services :
        /\ svc[s].pid = NoPid
        /\ \/ UNCHANGED <<svc, child, runscript>>
           \/ trystart(s, svc, firstrun, status)
  BY <1>1 DEF BootLog, BootMain, Boot, Services, Places
<1>3. CASE UNCHANGED <<svc, child, runscript>>
  BY <1>1, <1>3, UntouchedMoves
<1>4. CASE trystart(s, svc, firstrun, status)
  BY <1>1, <1>2, <1>4, TryMoves DEF TypeOK
<1>. QED BY <1>2, <1>3, <1>4

LEMMA ReapedMoves ==
  ASSUME LifeInv, Reaped, NEW t \in Services
  PROVE  Moves(t)
<1>1. TypeOK /\ Places
  BY DEF LifeInv
<1>2. svc[cur].pid = NoPid /\ cur \in Services
  BY <1>1 DEF Places, TypeOK, Reaped
<1>3. CASE UNCHANGED <<svc, child, runscript>>
  BY <1>1, <1>3, UntouchedMoves
<1>4. CASE trystart(cur, svc, firstrun, status) \/ trystop(cur, svc)
  BY <1>1, <1>2, <1>4, TryMoves DEF TypeOK
<1>. QED BY <1>3, <1>4 DEF Reaped

LEMMA ReapSvcMoves ==
  ASSUME LifeInv, NEW s \in Services, NEW p \in Pids, ReapSvc(s, p), NEW t \in Services
  PROVE  Moves(t)
<1>1. TypeOK /\ Tracked
  BY DEF LifeInv
<1>2. /\ OthersAs(svc, s) /\ svc'[s].pid = NoPid /\ svc[s].pid = p /\ child[p].state = "zombie"
      /\ runscript' = runscript /\ \A q \in Pids : Exists(q) /\ q # p => child'[q] = child[q]
  BY <1>1, ReapSvcDoes
<1>3. CASE t = s
  BY <1>2, <1>3 DEF Moves, Rests
<1>4. CASE t # s
  <2>1. svc[t].pid # NoPid => svc[t].pid \in Pids /\ Exists(svc[t].pid) /\ svc[t].pid # p
    BY <1>1, <1>2, <1>4 DEF Tracked, TrackedIn, TypeOK, SvcRecord, Exists
  <2>. QED BY <1>1, <1>2, <1>4, <2>1, UntouchedMoves DEF OthersAs
<1>. QED BY <1>3, <1>4

LEMMA DownMoves ==
  ASSUME LifeInv, Down, NEW t \in Services
  PROVE  Moves(t)
<1>. DEFINE sv == [svc EXCEPT ![cur].flagwant = TRUE, ![cur].flagwantup = FALSE]
<1>1. TypeOK /\ cur \in Services /\ killgroup \in BOOLEAN
  BY DEF LifeInv, TypeOK
<1>2. sv \in [Services -> SvcRecord]
  BY <1>1, ZenonT(60) DEF TypeOK, SvcRecord
<1>3. sv[cur].pid = svc[cur].pid /\ \A u \in Services : u # cur => sv[u] = svc[u]
  BY <1>1 DEF TypeOK
<1>4. \/ stopsvc(cur, killgroup, sv) /\ runscript' = runscript
      \/ svc[cur].pid = NoPid /\ trystop(cur, sv)
  BY DEF Down
<1>. HIDE DEF sv
<1>5. CASE stopsvc(cur, killgroup, sv) /\ runscript' = runscript
  BY <1>1, <1>2, <1>3, <1>5, StopMoves
<1>6. CASE svc[cur].pid = NoPid /\ trystop(cur, sv)
  BY <1>1, <1>2, <1>3, <1>6, TryMoves
<1>. QED BY <1>4, <1>5, <1>6

(* A service whose process is left alone, its flags for the goal change.   *)
LEMMA GoalMoves ==
  ASSUME LifeInv, NEW sv \in [Services -> SvcRecord], svc' = sv, child' = child,
         \A u \in Services : sv[u].pid = svc[u].pid /\ sv[u].flagpaused = svc[u].flagpaused,
         runscript' = runscript, NEW t \in Services
  PROVE  Moves(t)
BY DEF Moves, Holds, Rests

(* What u and o assign before they start a service without a process       *)
UpRecord(sv) ==
  /\ sv \in [Services -> SvcRecord] /\ \A u \in Services : u # cur => sv[u] = svc[u]
  /\ sv[cur].pid = svc[cur].pid /\ sv[cur].flagpaused = svc[cur].flagpaused
  /\ sv[cur].flagwant = TRUE /\ sv[cur].flagwantup = TRUE
  /\ sv[cur].flagstatus = IF svc[cur].pid = NoPid THEN "starting" ELSE svc[cur].flagstatus

LEMMA UpDoes ==
  ASSUME TypeOK, Up
  PROVE  \E sv, first :
           /\ UpRecord(sv)
           /\ \/ svc[cur].pid = NoPid /\ trystart(cur, sv, first, Announced(sv))
              \/ /\ svc[cur].pid # NoPid /\ announce(sv)
                 /\ UNCHANGED <<runscript, child, wake>>
<1>. DEFINE idle == svc[cur].pid = NoPid
            first == IF cur = "main" THEN ~svc["main"].flagwantup ELSE firstrun
            r == [svc[cur] EXCEPT !.flagwant = TRUE, !.flagwantup = TRUE,
                                  !.flagstatus = IF idle THEN "starting" ELSE @]
            sv == [svc EXCEPT ![cur] = r]
<1>1. cur \in Services /\ svc[cur] \in SvcRecord
  BY DEF TypeOK
<1>2. /\ r \in SvcRecord /\ r.pid = svc[cur].pid /\ r.flagpaused = svc[cur].flagpaused
      /\ r.flagwant = TRUE /\ r.flagwantup = TRUE
      /\ r.flagstatus = IF idle THEN "starting" ELSE svc[cur].flagstatus
  BY <1>1 DEF SvcRecord, Statuses
<1>3. \/ idle /\ trystart(cur, sv, first, Announced(sv))
      \/ ~idle /\ announce(sv) /\ UNCHANGED <<runscript, child, wake>>
  BY <1>1 DEF Up, TypeOK
<1>. HIDE DEF r
<1>4. UpRecord(sv)
  BY <1>1, <1>2 DEF UpRecord, TypeOK
<1>. HIDE DEF sv, first
<1>. QED BY <1>3, <1>4

OnceRecord(sv) ==
  /\ sv \in [Services -> SvcRecord] /\ \A u \in Services : u # cur => sv[u] = svc[u]
  /\ sv[cur] = [svc[cur] EXCEPT !.flagwant = FALSE]

LEMMA OnceDoes ==
  ASSUME TypeOK, Once
  PROVE  \E sv :
           /\ OnceRecord(sv)
           /\ \/ svc[cur].pid = NoPid /\ trystart(cur, sv, firstrun, Announced(sv))
              \/ /\ svc[cur].pid # NoPid /\ announce(sv)
                 /\ UNCHANGED <<runscript, child, wake>>
<1>. DEFINE sv == [svc EXCEPT ![cur].flagwant = FALSE]
<1>1. OnceRecord(sv)
  BY DEF OnceRecord, TypeOK, SvcRecord
<1>2. \/ svc[cur].pid = NoPid /\ trystart(cur, sv, firstrun, Announced(sv))
      \/ svc[cur].pid # NoPid /\ announce(sv) /\ UNCHANGED <<runscript, child, wake>>
  BY DEF Once
<1>. HIDE DEF sv
<1>. QED BY <1>1, <1>2

LEMMA UpOnceMoves ==
  ASSUME LifeInv, Up \/ Once, NEW t \in Services
  PROVE  Moves(t)
<1>1. TypeOK /\ cur \in Services
  BY DEF LifeInv, TypeOK
<1>2. PICK sv, first :
        /\ UpRecord(sv) \/ OnceRecord(sv)
        /\ \/ svc[cur].pid = NoPid /\ trystart(cur, sv, first, Announced(sv))
           \/ announce(sv) /\ UNCHANGED <<runscript, child, wake>>
  BY <1>1, UpDoes, OnceDoes
<1>3. /\ sv \in [Services -> SvcRecord] /\ \A u \in Services : u # cur => sv[u] = svc[u]
      /\ sv[cur].pid = svc[cur].pid /\ sv[cur].flagpaused = svc[cur].flagpaused
  BY <1>1, <1>2 DEF UpRecord, OnceRecord, TypeOK, SvcRecord
<1>4. CASE svc[cur].pid = NoPid /\ trystart(cur, sv, first, Announced(sv))
  BY <1>1, <1>3, <1>4, TryMoves
<1>5. CASE announce(sv) /\ UNCHANGED <<runscript, child, wake>>
  BY <1>1, <1>3, <1>5, GoalMoves DEF announce
<1>. QED BY <1>2, <1>4, <1>5

LEMMA SignalMoves ==
  ASSUME LifeInv, Signal, NEW t \in Services
  PROVE  Moves(t)
<1>. DEFINE sig == SignalOf(Head(fifo).ch)
            p == svc[cur].pid
<1>1. TypeOK /\ Tracked /\ cur \in Services
  BY DEF LifeInv, TypeOK
<1>2. child' = killsvc(child, cur, killgroup, sig) /\ svc' = svc /\ runscript' = runscript
  BY DEF Signal, Signalled
<1>3. sig \notin {"STOP", "CONT"}
  BY DEF Signal, Command, SignalOf
<1>. HIDE DEF sig
<1>4. /\ SentTo(cur, child, child')
      /\ p # NoPid /\ (killgroup => child[p].leader) /\ child[p].state \in {"live", "halted"}
           => child'[p].state = child[p].state
  BY <1>1, <1>2, <1>3, KillsvcDoes DEF TypeOK
<1>5. \A u \in Services : svc[u].pid # NoPid => svc[u].pid \in Pids
  BY <1>1 DEF TypeOK, SvcRecord
<1>6. CASE t = cur /\ p # NoPid
  <2>1. Holds(t)
    BY <1>2, <1>4, <1>5, <1>6 DEF Holds, SentTo, Running
  <2>. QED BY <2>1 DEF Moves
<1>7. CASE t # cur \/ p = NoPid
  <2>1. svc[t].pid # NoPid => svc[t].pid # p
    <3>1. CASE t # cur
      BY <1>1, <3>1 DEF Tracked, TrackedIn
    <3>2. CASE p = NoPid
      BY <3>2
    <3>. QED BY <1>7, <3>1, <3>2
  <2>. QED BY <1>1, <1>2, <1>4, <1>5, <2>1, UntouchedMoves DEF SentTo
<1>. QED BY <1>6, <1>7

LEMMA PauseDoes ==
  ASSUME TypeOK, Pause
  PROVE  /\ cur \in Services /\ SentTo(cur, child, child') /\ OthersAs(svc, cur)
         /\ SameGoal(svc'[cur], svc[cur]) /\ svc'[cur].pid = svc[cur].pid
         /\ svc'[cur].flagstatus = svc[cur].flagstatus
         /\ status' = Announced(svc') /\ runscript' = runscript
         /\ LET p == svc[cur].pid
            IN  p # NoPid /\ child[p].leader /\ child[p].state \in {"live", "halted"}
                => (svc'[cur].flagpaused <=> child'[p].state = "halted")
<1>. DEFINE stop == Head(fifo).ch = "p"
            sig == IF stop THEN "STOP" ELSE "CONT"
            p == svc[cur].pid
<1>1. cur \in Services /\ svc[cur] \in SvcRecord /\ stop \in BOOLEAN
  BY DEF TypeOK
<1>2. /\ child' = killsvc(child, cur, killgroup, sig) /\ runscript' = runscript
      /\ svc' = [svc EXCEPT ![cur].flagpaused = stop] /\ status' = Announced(svc')
  BY DEF Pause, Signalled, announce
<1>3. (sig = "STOP" /\ stop) \/ (sig = "CONT" /\ ~stop)
  <2>1. CASE stop
    BY <2>1
  <2>2. CASE ~stop
    BY <2>2
  <2>. QED BY <2>1, <2>2
<1>. HIDE DEF sig, stop
<1>4. /\ SentTo(cur, child, child')
      /\ p # NoPid /\ (killgroup => child[p].leader) /\ child[p].state \in {"live", "halted"}
           => child'[p].state = IF sig = "STOP" THEN "halted" ELSE IF sig = "CONT" THEN "live"
                                ELSE child[p].state
  BY <1>1, <1>2, KillsvcDoes DEF TypeOK
<1>5. svc'[cur] = [svc[cur] EXCEPT !.flagpaused = stop]
  BY <1>1, <1>2 DEF TypeOK
<1>6. /\ svc'[cur].flagpaused = stop /\ svc'[cur].pid = p
      /\ svc'[cur].flagstatus = svc[cur].flagstatus /\ SameGoal(svc'[cur], svc[cur])
  BY <1>1, <1>5 DEF SvcRecord, SameGoal
<1>7. OthersAs(svc, cur)
  BY <1>2 DEF OthersAs, TypeOK
<1>8. p # NoPid /\ child[p].leader /\ child[p].state \in {"live", "halted"}
        => (stop <=> child'[p].state = "halted")
  <2>1. CASE sig = "STOP" /\ stop
    BY <1>4, <2>1
  <2>2. CASE sig = "CONT" /\ ~stop
    BY <1>4, <2>2
  <2>. QED BY <1>3, <2>1, <2>2
<1>. QED BY <1>1, <1>2, <1>4, <1>6, <1>7, <1>8

LEMMA PauseMoves ==
  ASSUME LifeInv, Pause, NEW t \in Services
  PROVE  Moves(t)
<1>. DEFINE p == svc[cur].pid
<1>1. TypeOK /\ Tracked
  BY DEF LifeInv
<1>2. /\ cur \in Services /\ SentTo(cur, child, child') /\ OthersAs(svc, cur)
      /\ svc'[cur].pid = svc[cur].pid /\ runscript' = runscript
      /\ p # NoPid /\ child[p].leader /\ child[p].state \in {"live", "halted"}
           => (svc'[cur].flagpaused <=> child'[p].state = "halted")
  BY <1>1, PauseDoes
<1>3. \A u \in Services : svc[u].pid # NoPid => svc[u].pid \in Pids
  BY <1>1 DEF TypeOK, SvcRecord
<1>4. CASE t = cur /\ p = NoPid
  BY <1>2, <1>4 DEF Moves, Rests
<1>5. CASE t = cur /\ p # NoPid
  <2>1. Holds(t)
    BY <1>2, <1>3, <1>5 DEF Holds, SentTo, Running
  <2>. QED BY <2>1 DEF Moves
<1>6. CASE t # cur
  <2>1. svc[t].pid # NoPid => svc[t].pid # p
    BY <1>1, <1>2, <1>6 DEF Tracked, TrackedIn
  <2>. QED BY <1>1, <1>2, <1>3, <1>6, <2>1, UntouchedMoves DEF OthersAs, SentTo
<1>. QED BY <1>4, <1>5, <1>6

LEMMA ChildExitsMoves ==
  ASSUME LifeInv, NEW q \in Pids, ChildExits(q), NEW t \in Services
  PROVE  Moves(t)
<1>. DEFINE p == svc[t].pid
<1>1. TypeOK
  BY DEF LifeInv
<1>2. PICK o : child' = [child EXCEPT ![q].state = "zombie", ![q].outcome = o]
  BY DEF ChildExits
<1>3. svc' = svc /\ runscript' = runscript
  BY DEF ChildExits, thread
<1>4. CASE p = q
  <2>1. child[q] \in ChildRecord /\ child'[q] = [child[q] EXCEPT !.state = "zombie", !.outcome = o]
    BY <1>1, <1>2 DEF TypeOK
  <2>2. /\ child'[q].script = child[q].script /\ child'[q].leader = child[q].leader
        /\ child'[q].state = "zombie"
    BY <2>1 DEF ChildRecord
  <2>3. p # NoPid
    BY <1>4, SuperviseAssumption
  <2>4. Holds(t)
    BY <1>3, <1>4, <2>2, <2>3 DEF Holds, Running
  <2>. QED BY <2>4 DEF Moves
<1>5. CASE p # q
  <2>1. svc[t].pid # NoPid => svc[t].pid \in Pids
    BY <1>1 DEF TypeOK, SvcRecord
  <2>2. p # NoPid => child'[p] = child[p]
    BY <1>1, <1>2, <1>5, <2>1 DEF TypeOK
  <2>. QED BY <1>1, <1>3, <2>2, UntouchedMoves
<1>. QED BY <1>4, <1>5

LEMMA OtherMoves ==
  ASSUME LifeInv, NEW t \in Services,
         \/ doit \/ TurnBegins \/ ReapNone \/ (\E p \in Pids : ReapOther(p))
         \/ SelectGroup \/ SelectService \/ Exit \/ LoopEnd \/ Gone \/ UNCHANGED vars
         \/ (\E msg \in Requests : SvcWrites(msg)) \/ (\E sig \in Handled : CatchSignal(sig))
         \/ EditDirectory
  PROVE  Moves(t)
<1>1. TypeOK
  BY DEF LifeInv
<1>2. CASE UNCHANGED <<svc, child, runscript>>
  BY <1>1, <1>2, UntouchedMoves
<1>3. ASSUME NEW p \in Pids, ReapOther(p) PROVE Moves(t)
  <2>1. svc[t].pid # p /\ svc' = svc /\ runscript' = runscript
    BY <1>3 DEF ReapOther, thread
  <2>2. svc[t].pid # NoPid => svc[t].pid \in Pids /\ child'[svc[t].pid] = child[svc[t].pid]
    BY <1>1, <1>3, <2>1 DEF ReapOther, TypeOK, SvcRecord
  <2>. QED BY <1>1, <2>1, <2>2, UntouchedMoves
<1>4. CASE stopsvc("log", FALSE, svc) /\ runscript' = runscript
  BY <1>1, <1>4, StopMoves DEF TypeOK, Services
<1>5. LoopEnd => \/ UNCHANGED <<svc, child, runscript>>
                 \/ stopsvc("log", FALSE, svc) /\ runscript' = runscript
  BY DEF LoopEnd
<1>6. \/ doit \/ TurnBegins \/ ReapNone \/ SelectGroup \/ SelectService \/ Exit \/ Gone
      \/ UNCHANGED vars
      => UNCHANGED <<svc, child, runscript>>
  BY DEF doit, announce, TurnBegins, ReapNone, SelectGroup, SelectService, Exit, Gone, vars
<1>7. \/ (\E msg \in Requests : SvcWrites(msg)) \/ (\E sig \in Handled : CatchSignal(sig))
      \/ EditDirectory
      => UNCHANGED <<svc, child, runscript>>
  BY DEF SvcWrites, CatchSignal, HandlerWrites, EditDirectory, thread
<1>. QED BY <1>2, <1>3, <1>4, <1>5, <1>6, <1>7

(* Whatever the step, each service keeps its process, or gets one that it  *)
(* had not, or has none after it.                                          *)
LEMMA StepMoves == ASSUME LifeInv, [Next]_vars, NEW t \in Services PROVE Moves(t)
<1>1. CASE \E s \in Services, p \in Pids : ReapSvc(s, p)
  BY <1>1, ReapSvcMoves
<1>2. CASE \E p \in Pids : ChildExits(p)
  BY <1>2, ChildExitsMoves
<1>3. CASE BootLog \/ BootMain \/ Reaped
  BY <1>3, BootMoves, ReapedMoves
<1>4. CASE Down \/ Up \/ Once \/ Signal \/ Pause
  BY <1>4, DownMoves, UpOnceMoves, SignalMoves, PauseMoves
<1>. QED BY <1>1, <1>2, <1>3, <1>4, OtherMoves DEF Next, Turn, Environment, Wake, Timeout

NamesInv == LifeInv /\ NotifyNamesScript

LEMMA NamesInit == ASSUME Init PROVE NamesInv
BY LifeInit DEF Init, NamesInv, NotifyNamesScript, Services

LEMMA NamesStep == ASSUME NamesInv, [Next]_vars PROVE NamesInv'
<1>1. LifeInv /\ LifeInv'
  BY LifeStep DEF NamesInv
<1>2. Moves("main")
  BY <1>1, StepMoves DEF Services
<1>3. NotifyNamesScript'
  BY <1>2 DEF NamesInv, NotifyNamesScript, Moves, Holds, Begins, Begun, Rests
<1>. QED BY <1>1, <1>3 DEF NamesInv

(* notify() names the script that the main service's process runs, though  *)
(* runscript is set after the fork for some scripts, before it for others  *)
(* and although forks may fail.                                            *)
THEOREM ScriptNamed == Spec => []NotifyNamesScript
<1>1. NamesInv => NotifyNamesScript
  BY DEF NamesInv
<1>. QED BY <1>1, NamesInit, NamesStep, PTL DEF Spec

PausedInv == LifeInv /\ PausedMatches

LEMMA PausedInit == ASSUME Init PROVE PausedInv
BY LifeInit DEF Init, PausedInv, PausedMatches

LEMMA PausedStep == ASSUME PausedInv, [Next]_vars PROVE PausedInv'
<1>1. LifeInv /\ LifeInv'
  BY LifeStep DEF PausedInv
<1>2. ASSUME NEW t \in Services, svc'[t].pid # NoPid, child'[svc'[t].pid].leader,
             child'[svc'[t].pid].state \in {"live", "halted"}
      PROVE  svc'[t].flagpaused <=> child'[svc'[t].pid].state = "halted"
  <2>. DEFINE p == svc[t].pid
  <2>1. Moves(t)
    BY <1>1, StepMoves
  <2>2. CASE Holds(t)
    <3>1. p # NoPid /\ child[p].leader /\ child[p].state \in {"live", "halted"}
      BY <1>2, <2>2 DEF Holds, Running
    <3>2. svc[t].flagpaused <=> child[p].state = "halted"
      BY <3>1 DEF PausedInv, PausedMatches
    <3>. QED BY <1>2, <2>2, <3>1, <3>2 DEF Holds, Running
  <2>3. CASE Begins(t)
    BY <2>3 DEF Begins, Begun
  <2>4. CASE Rests(t)
    BY <1>2, <2>4 DEF Rests
  <2>. QED BY <2>1, <2>2, <2>3, <2>4 DEF Moves
<1>3. PausedMatches'
  BY <1>2 DEF PausedMatches
<1>. QED BY <1>1, <1>3 DEF PausedInv

(* flagpaused tells whether a service's process is stopped, across pauses, *)
(* restarts, downs and signals to groups.                                  *)
THEOREM PausedTold == Spec => []PausedMatches
<1>1. PausedInv => PausedMatches
  BY DEF PausedInv
<1>. QED BY <1>1, PausedInit, PausedStep, PTL DEF Spec

-----------------------------------------------------------------------------
(* What one step does to a service's goal and flagstatus                   *)

(* Supervise is still to look at service t: at start-up, or after a death. *)
Late(t) == pc = "reaped" /\ cur = t
Due(t)  == pc = "bootlog" \/ (pc = "bootmain" /\ t = "main") \/ Late(t)

Sought(r) == r.flagwantup \/ ~r.flagwant    \* up or once

(* The step changes none of them, or assigns only the goal.                *)
Stays(t) ==
  /\ svc'[t].pid = svc[t].pid /\ svc'[t].flagstatus = svc[t].flagstatus
  /\ SameGoal(svc'[t], svc[t])
  /\ ~flagexit /\ svc[t].pid = NoPid /\ Due(t) => Due(t)' \/ ~Wanted(t)
  /\ ~flagexit /\ Late(t) => Late(t)' \/ svc[t].flagstatus \notin {"running", "starting"}

Ups(t) ==
  /\ svc[t].pid # NoPid /\ svc'[t].pid = svc[t].pid
  /\ svc'[t].flagstatus = svc[t].flagstatus /\ Sought(svc'[t])

(* The process is sent SIGTERM.                                            *)
Stops(t) ==
  /\ svc'[t].pid = svc[t].pid /\ svc'[t].flagstatus = "stopping"
  /\ svc[t].pid = NoPid => flagexit'

(* The process has ended.                                                  *)
Ends(t) ==
  /\ \E o : svc'[t] = Verdict(t, o)
  /\ svc'[t].pid = NoPid /\ pc' = "reaped" /\ cur' = t

(* A service without a process is started ...                              *)
Fit(t, r) == \/ Sought(r)
             \/ /\ t = "main" /\ svc[t].flagstatus = "starting" /\ ~flagexit
                /\ SameGoal(r, svc[t])

Starts(t) ==
  /\ svc[t].pid = NoPid /\ Fit(t, svc'[t])
  /\ \/ svc'[t].flagstatus = "running"
     \/ svc'[t].flagstatus = "starting" /\ t = "main"
     \/ svc'[t].flagstatus = "started" /\ t = "main" /\ ~svc'[t].flagwant /\ svc'[t].pid = NoPid
  /\ svc'[t].pid = NoPid => ForkMayFail \/ svc'[t].flagstatus = "started"
  /\ svc'[t].pid # NoPid => child'[svc'[t].pid].script \in {"start", "run", "log"}

(* ... or stopped.                                                         *)
Halts(t) ==
  /\ svc[t].pid = NoPid /\ ~(svc'[t].flagwant /\ svc'[t].flagwantup)
  /\ svc'[t].flagstatus \in {svc[t].flagstatus, "stopped"}
  /\ svc'[t].pid = NoPid => ForkMayFail \/ svc'[t].flagstatus = "stopped"
  /\ svc'[t].pid # NoPid => child'[svc'[t].pid].script = "stop"
  /\ pc = "controller" \/ t = "log" \/ svc[t].flagstatus # "starting"

Turns(t) == Stays(t) \/ Ups(t) \/ Stops(t) \/ Ends(t) \/ Starts(t) \/ Halts(t)

LEMMA TryTurns ==
  ASSUME LifeInv, NEW s \in Services, NEW sv \in [Services -> SvcRecord],
         svc[s].pid = NoPid, sv[s].pid = NoPid, sv[s].flagstatus \in Statuses,
         NEW first, NEW file
  PROVE  /\ trystart(s, sv, first, file) /\ Fit(s, sv[s]) => Starts(s) /\ OthersAs(sv, s)
         /\ trystop(s, sv) /\ ~(sv[s].flagwant /\ sv[s].flagwantup)
              /\ sv[s].flagstatus = svc[s].flagstatus
              /\ (pc = "controller" \/ s = "log" \/ svc[s].flagstatus # "starting")
              => Halts(s) /\ OthersAs(sv, s)
<1>1. TypeOK
  BY DEF LifeInv
<1>2. ASSUME trystart(s, sv, first, file), Fit(s, sv[s]) PROVE Starts(s) /\ OthersAs(sv, s)
  <2>1. /\ OthersAs(sv, s)
        /\ \/ /\ Begun(s) /\ status' = Announced(svc') /\ SameGoal(svc'[s], sv[s])
              /\ svc'[s].flagstatus \in {"starting", "running"}
              /\ child'[svc'[s].pid].script \in {"start", "run", "log"}
              /\ svc'[s].flagstatus = "starting" => s = "main"
           \/ /\ ForkFailed(s, sv[s], file) /\ svc'[s].flagstatus \in {"starting", "running"}
              /\ svc'[s].flagstatus = "starting" => s = "main"
           \/ /\ s = "main" /\ svc'[s].pid = sv[s].pid /\ svc'[s].flagpaused = sv[s].flagpaused
              /\ ~svc'[s].flagwant /\ svc'[s].flagstatus = "started" /\ status' = Announced(svc')
    BY <1>1, <1>2, TrystartDoes
  <2>2. SameGoal(svc'[s], sv[s]) => Fit(s, svc'[s])
    BY <1>2 DEF Fit, SameGoal, Sought
  <2>3. CASE /\ Begun(s) /\ SameGoal(svc'[s], sv[s])
             /\ svc'[s].flagstatus \in {"starting", "running"}
             /\ child'[svc'[s].pid].script \in {"start", "run", "log"}
             /\ svc'[s].flagstatus = "starting" => s = "main"
    <3>1. svc'[s].pid # NoPid
      BY <2>3, SuperviseAssumption DEF Begun
    <3>. QED BY <2>1, <2>2, <2>3, <3>1 DEF Starts
  <2>4. CASE /\ ForkFailed(s, sv[s], file) /\ svc'[s].flagstatus \in {"starting", "running"}
             /\ svc'[s].flagstatus = "starting" => s = "main"
    BY <2>1, <2>2, <2>4 DEF Starts, ForkFailed
  <2>5. CASE /\ s = "main" /\ svc'[s].pid = sv[s].pid
             /\ ~svc'[s].flagwant /\ svc'[s].flagstatus = "started"
    BY <2>1, <2>5 DEF Starts, Fit, Sought
  <2>. QED BY <2>1, <2>3, <2>4, <2>5
<1>3. ASSUME trystop(s, sv), ~(sv[s].flagwant /\ sv[s].flagwantup),
             sv[s].flagstatus = svc[s].flagstatus,
             pc = "controller" \/ s = "log" \/ svc[s].flagstatus # "starting"
      PROVE  Halts(s) /\ OthersAs(sv, s)
  <2>1. /\ OthersAs(sv, s) /\ SameGoal(svc'[s], sv[s])
        /\ \/ /\ Begun(s) /\ status' = Announced(svc') /\ child'[svc'[s].pid].script = "stop"
              /\ svc'[s].flagstatus = sv[s].flagstatus /\ s = "main"
           \/ ForkMayFail /\ svc'[s] = sv[s] /\ status' = Announced(svc')
           \/ /\ svc'[s].pid = sv[s].pid /\ svc'[s].flagpaused = sv[s].flagpaused
              /\ svc'[s].flagstatus = "stopped" /\ status' = Announced(svc')
    BY <1>1, <1>3, TrystopDoes
  <2>2. ~(svc'[s].flagwant /\ svc'[s].flagwantup)
    BY <1>3, <2>1 DEF SameGoal
  <2>3. CASE Begun(s) /\ child'[svc'[s].pid].script = "stop" /\ svc'[s].flagstatus = sv[s].flagstatus
    <3>1. svc'[s].pid # NoPid
      BY <2>3, SuperviseAssumption DEF Begun
    <3>. QED BY <1>3, <2>1, <2>2, <2>3, <3>1 DEF Halts
  <2>4. CASE ForkMayFail /\ svc'[s] = sv[s]
    BY <1>3, <2>1, <2>2, <2>4 DEF Halts
  <2>5. CASE svc'[s].pid = sv[s].pid /\ svc'[s].flagstatus = "stopped"
    BY <1>3, <2>1, <2>2, <2>5 DEF Halts
  <2>. QED BY <2>1, <2>3, <2>4, <2>5
<1>. QED BY <1>2, <1>3

LEMMA BootTurns == ASSUME LifeInv, BootLog \/ BootMain, NEW t \in Services PROVE Turns(t)
<1>1. TypeOK /\ Places
  BY DEF LifeInv
<1>2. PICK s \in Services :
        /\ svc[s].pid = NoPid
        /\ s = "log" => pc = "bootlog" /\ pc' = "bootmain"
        /\ s = "main" => pc = "bootmain" /\ pc' = "doit"
        /\ \/ ~Sought(svc[s]) /\ UNCHANGED <<svc, status, child, wake, firstrun, runscript>>
           \/ Sought(svc[s]) /\ trystart(s, svc, firstrun, status)
  BY <1>1 DEF BootLog, BootMain, Boot, Services, Places, Sought
<1>3. svc'[t] = svc[t] /\ (t = s => ~Sought(svc[s])) => Stays(t)
  BY <1>2 DEF Stays, SameGoal, Due, Late, Wanted, Sought, Services
<1>4. CASE ~Sought(svc[s]) /\ UNCHANGED svc
  BY <1>3, <1>4 DEF Turns
<1>5. CASE Sought(svc[s]) /\ trystart(s, svc, firstrun, status)
  <2>1. Starts(s) /\ OthersAs(svc, s)
    BY <1>1, <1>2, <1>5, TryTurns DEF TypeOK, SvcRecord, Fit
  <2>. QED BY <1>3, <2>1 DEF Turns, OthersAs
<1>. QED BY <1>2, <1>4, <1>5

LEMMA ReapedTurns == ASSUME LifeInv, Reaped, NEW t \in Services PROVE Turns(t)
<1>1. TypeOK /\ Places
  BY DEF LifeInv
<1>2. svc[cur].pid = NoPid /\ cur \in Services /\ pc = "reaped" /\ pc' = "controller"
      /\ svc[cur] \in SvcRecord
  BY <1>1 DEF Places, TypeOK, Reaped, EnterController
<1>3. svc'[t] = svc[t] /\ t # cur => Stays(t)
  BY <1>2 DEF Stays, SameGoal, Due, Late
<1>4. CASE Again(cur) /\ ~flagexit /\ trystart(cur, svc, firstrun, status)
  <2>1. Fit(cur, svc[cur])
    BY <1>2, <1>4 DEF Again, Fit, Sought, SameGoal
  <2>2. Starts(cur) /\ OthersAs(svc, cur)
    BY <1>1, <1>2, <1>4, <2>1, TryTurns DEF TypeOK, SvcRecord
  <2>. QED BY <1>3, <2>2 DEF Turns, OthersAs
<1>5. CASE ~Again(cur) /\ trystop(cur, svc)
  <2>1. Halts(cur) /\ OthersAs(svc, cur)
    BY <1>1, <1>2, <1>5, TryTurns DEF TypeOK, SvcRecord, Again, Services
  <2>. QED BY <1>3, <2>1 DEF Turns, OthersAs
<1>6. CASE (IF Again(cur) THEN flagexit ELSE svc[cur].flagstatus = "failed") /\ UNCHANGED svc
  <2>1. Stays(t)
    BY <1>2, <1>6 DEF Stays, SameGoal, Due, Late, Again, Wanted
  <2>. QED BY <2>1 DEF Turns
<1>. QED BY <1>4, <1>5, <1>6 DEF Reaped

LEMMA ReapSvcTurns ==
  ASSUME LifeInv, NEW s \in Services, NEW p \in Pids, ReapSvc(s, p), NEW t \in Services
  PROVE  Turns(t)
<1>1. TypeOK
  BY DEF LifeInv
<1>2. /\ OthersAs(svc, s) /\ svc'[s] = Verdict(s, child[p].outcome) /\ svc'[s].pid = NoPid
      /\ pc = "reaper" /\ pc' = "reaped" /\ cur' = s
  BY <1>1, ReapSvcDoes
<1>3. CASE t = s
  BY <1>2, <1>3 DEF Turns, Ends
<1>4. CASE t # s
  BY <1>2, <1>4 DEF Turns, Stays, OthersAs, SameGoal, Due, Late
<1>. QED BY <1>3, <1>4

LEMMA DownDoes ==
  ASSUME TypeOK, Down
  PROVE  \E sv \in [Services -> SvcRecord] :
           /\ \A u \in Services : u # cur => sv[u] = svc[u]
           /\ sv[cur] = [svc[cur] EXCEPT !.flagwant = TRUE, !.flagwantup = FALSE]
           /\ \/ svc[cur].pid # NoPid /\ stopsvc(cur, killgroup, sv)
              \/ svc[cur].pid = NoPid /\ trystop(cur, sv)
           /\ status' = Announced(svc')
<1>. DEFINE sv == [svc EXCEPT ![cur].flagwant = TRUE, ![cur].flagwantup = FALSE]
<1>1. cur \in Services
  BY DEF TypeOK
<1>2. sv \in [Services -> SvcRecord]
  BY <1>1, ZenonT(60) DEF TypeOK, SvcRecord
<1>3. /\ \A u \in Services : u # cur => sv[u] = svc[u]
      /\ sv[cur] = [svc[cur] EXCEPT !.flagwant = TRUE, !.flagwantup = FALSE]
  BY <1>1 DEF TypeOK
<1>4. /\ \/ svc[cur].pid # NoPid /\ stopsvc(cur, killgroup, sv)
         \/ svc[cur].pid = NoPid /\ trystop(cur, sv)
      /\ status' = Announced(svc')
  BY DEF Down
<1>. HIDE DEF sv
<1>. QED BY <1>2, <1>3, <1>4

(* In controller() supervise has looked at every service.                  *)
LEMMA ControllerStays ==
  ASSUME pc = "controller", NEW t \in Services, svc'[t] = svc[t]
  PROVE  Turns(t)
BY DEF Turns, Stays, SameGoal, Due, Late

LEMMA DownTurns == ASSUME LifeInv, Down, NEW t \in Services PROVE Turns(t)
<1>1. TypeOK /\ cur \in Services /\ killgroup \in BOOLEAN /\ pc = "controller" /\ svc[cur] \in SvcRecord
  BY DEF LifeInv, TypeOK, Down, Command
<1>2. PICK sv \in [Services -> SvcRecord] :
           /\ \A u \in Services : u # cur => sv[u] = svc[u]
           /\ sv[cur] = [svc[cur] EXCEPT !.flagwant = TRUE, !.flagwantup = FALSE]
           /\ \/ svc[cur].pid # NoPid /\ stopsvc(cur, killgroup, sv)
              \/ svc[cur].pid = NoPid /\ trystop(cur, sv)
  BY <1>1, DownDoes
<1>3. /\ sv[cur].pid = svc[cur].pid /\ sv[cur].flagstatus = svc[cur].flagstatus
      /\ sv[cur].flagstatus \in Statuses /\ ~sv[cur].flagwantup
  BY <1>1, <1>2 DEF SvcRecord
<1>4. CASE svc[cur].pid # NoPid /\ stopsvc(cur, killgroup, sv)
  <2>1. OthersAs(sv, cur) /\ svc'[cur].pid = svc[cur].pid /\ svc'[cur].flagstatus = "stopping"
    BY <1>1, <1>3, <1>4, StopsvcDoes
  <2>2. Stops(cur)
    BY <1>4, <2>1 DEF Stops
  <2>. QED BY <1>1, <1>2, <2>1, <2>2, ControllerStays DEF Turns, OthersAs
<1>5. CASE svc[cur].pid = NoPid /\ trystop(cur, sv)
  <2>1. Halts(cur) /\ OthersAs(sv, cur)
    BY <1>1, <1>3, <1>5, TryTurns
  <2>. QED BY <1>1, <1>2, <2>1, ControllerStays DEF Turns, OthersAs
<1>. QED BY <1>2, <1>4, <1>5

LEMMA UpOnceTurns == ASSUME LifeInv, Up \/ Once, NEW t \in Services PROVE Turns(t)
<1>1. TypeOK /\ cur \in Services /\ pc = "controller" /\ svc[cur] \in SvcRecord
  BY DEF LifeInv, TypeOK, Up, Once, Command
<1>2. PICK sv, first :
        /\ UpRecord(sv) \/ OnceRecord(sv)
        /\ \/ svc[cur].pid = NoPid /\ trystart(cur, sv, first, Announced(sv))
           \/ svc[cur].pid # NoPid /\ announce(sv)
  BY <1>1, UpDoes, OnceDoes
<1>3. /\ sv \in [Services -> SvcRecord] /\ \A u \in Services : u # cur => sv[u] = svc[u]
      /\ sv[cur].pid = svc[cur].pid /\ sv[cur].flagstatus \in Statuses /\ Sought(sv[cur])
      /\ svc[cur].pid # NoPid => sv[cur].flagstatus = svc[cur].flagstatus
  BY <1>1, <1>2 DEF UpRecord, OnceRecord, SvcRecord, Sought
<1>4. CASE svc[cur].pid = NoPid /\ trystart(cur, sv, first, Announced(sv))
  <2>1. Starts(cur) /\ OthersAs(sv, cur)
    BY <1>1, <1>3, <1>4, TryTurns DEF Fit
  <2>. QED BY <1>1, <1>3, <2>1, ControllerStays DEF Turns, OthersAs
<1>5. CASE svc[cur].pid # NoPid /\ announce(sv)
  <2>1. svc' = sv
    BY <1>5 DEF announce
  <2>2. Ups(cur)
    BY <1>3, <1>5, <2>1 DEF Ups
  <2>. QED BY <1>1, <1>3, <2>1, <2>2, ControllerStays DEF Turns
<1>. QED BY <1>2, <1>4, <1>5

LEMMA PauseTurns == ASSUME LifeInv, Pause, NEW t \in Services PROVE Turns(t)
<1>1. TypeOK /\ pc = "controller"
  BY DEF LifeInv, Pause, Command
<1>2. /\ OthersAs(svc, cur) /\ SameGoal(svc'[cur], svc[cur]) /\ svc'[cur].pid = svc[cur].pid
      /\ svc'[cur].flagstatus = svc[cur].flagstatus
  BY <1>1, PauseDoes
<1>3. CASE t = cur
  BY <1>1, <1>2, <1>3 DEF Turns, Stays, Due, Late
<1>4. CASE t # cur
  BY <1>1, <1>2, <1>4, ControllerStays DEF OthersAs
<1>. QED BY <1>3, <1>4

LEMMA LoopEndTurns == ASSUME LifeInv, LoopEnd, NEW t \in Services PROVE Turns(t)
<1>1. TypeOK /\ pc = "controller"
  BY DEF LifeInv, LoopEnd
<1>2. CASE svc' = svc
  BY <1>1, <1>2, ControllerStays
<1>3. CASE StopsLogger /\ stopsvc("log", FALSE, svc)
  <2>1. /\ OthersAs(svc, "log") /\ svc'["log"].pid = svc["log"].pid
        /\ svc'["log"].flagstatus = "stopping"
    BY <1>1, <1>3, StopsvcDoes DEF TypeOK, Services
  <2>2. flagexit'
    BY <1>3 DEF LoopEnd, StopsLogger
  <2>3. CASE t = "log"
    BY <2>1, <2>2, <2>3 DEF Turns, Stops
  <2>4. CASE t # "log"
    BY <1>1, <2>1, <2>4, ControllerStays DEF OthersAs
  <2>. QED BY <2>3, <2>4
<1>. QED BY <1>2, <1>3 DEF LoopEnd

LEMMA OtherTurns ==
  ASSUME NEW t \in Services,
         \/ doit \/ TurnBegins \/ ReapNone \/ (\E p \in Pids : ReapOther(p))
         \/ SelectGroup \/ SelectService \/ Signal \/ Exit \/ Gone \/ UNCHANGED vars \/ Environment
  PROVE  Turns(t)
<1>1. CASE doit \/ TurnBegins \/ ReapNone \/ SelectGroup \/ SelectService \/ Signal \/ Exit
  <2>1. svc' = svc /\ pc \in {"doit", "wait", "reaper", "controller"}
    BY <1>1 DEF doit, announce, TurnBegins, ReapNone, SelectGroup, SelectService, Signal, Exit, Command
  <2>. QED BY <2>1 DEF Turns, Stays, SameGoal, Due, Late
<1>2. CASE (\E p \in Pids : ReapOther(p)) \/ Gone \/ UNCHANGED vars \/ Environment
  <2>1. svc' = svc /\ pc' = pc /\ cur' = cur
    BY <1>2 DEF ReapOther, Gone, vars, Environment, SvcWrites, CatchSignal, HandlerWrites,
                ChildExits, EditDirectory, thread
  <2>. QED BY <2>1 DEF Turns, Stays, SameGoal, Due, Late
<1>. QED BY <1>1, <1>2

LEMMA StepTurns == ASSUME LifeInv, [Next]_vars, NEW t \in Services PROVE Turns(t)
<1>1. CASE \E s \in Services, p \in Pids : ReapSvc(s, p)
  BY <1>1, ReapSvcTurns
<1>2. CASE BootLog \/ BootMain \/ Reaped
  BY <1>2, BootTurns, ReapedTurns
<1>3. CASE Down \/ Up \/ Once \/ Pause \/ LoopEnd
  BY <1>3, DownTurns, UpOnceTurns, PauseTurns, LoopEndTurns
<1>. QED BY <1>1, <1>2, <1>3, OtherTurns DEF Next, Turn, Wake, Timeout

-----------------------------------------------------------------------------
(* No service waits for nothing                                            *)

(* If no fork fails, a service without a process is wanted up, or said to  *)
(* run or to start, only until supervise has looked at it.                 *)
Quiet(t) ==
  ~flagexit /\ svc[t].pid = NoPid =>
    /\ Wanted(t) => Due(t)
    /\ svc[t].flagstatus \in {"running", "starting"} => Late(t)

(* ./start runs for a service that is sought.                              *)
Starting == ~flagexit /\ svc["main"].flagstatus = "starting" => Sought(svc["main"])

(* The logger has one script.                                              *)
LogStatus == svc["log"].flagstatus \notin {"starting", "started"}

(* A stopped service with a process runs ./stop.                           *)
StopRuns == svc["main"].pid # NoPid /\ svc["main"].flagstatus = "stopped"
              => child[svc["main"].pid].script = "stop"

UpInv == /\ LifeInv /\ LogStatus /\ StopRuns
         /\ ~ForkMayFail => Starting /\ \A t \in Services : Quiet(t)

LEMMA UpInit == ASSUME Init PROVE UpInv
<1>1. /\ \A t \in Services : svc[t].flagstatus = "stopped" /\ svc[t].pid = NoPid
      /\ pc = "bootlog"
  BY DEF Init
<1>. QED BY <1>1, LifeInit DEF UpInv, Quiet, Starting, LogStatus, StopRuns, Due, Services

LEMMA ExitStays == ASSUME [Next]_vars, flagexit PROVE flagexit'
<1>1. CASE Turn
  BY <1>1 DEF Turn, BootLog, BootMain, Boot, doit, Wake, TurnBegins, ReapNone, ReapOther, ReapSvc,
              Reaped, SelectGroup, SelectService, Down, Up, Once, Signal, Pause, Exit, LoopEnd, thread
<1>2. CASE Timeout \/ Environment \/ Gone \/ UNCHANGED vars
  BY <1>2 DEF Timeout, TurnBegins, Environment, SvcWrites, CatchSignal, HandlerWrites, ChildExits,
              EditDirectory, Gone, thread, vars
<1>. QED BY <1>1, <1>2 DEF Next

LEMMA QuietStep ==
  ASSUME UpInv, TypeOK', ~ForkMayFail, flagexit => flagexit', NEW t \in Services, Turns(t)
  PROVE  Quiet(t)'
<1>. SUFFICES ASSUME ~flagexit', svc'[t].pid = NoPid
              PROVE  /\ Wanted(t)' => Due(t)'
                     /\ svc'[t].flagstatus \in {"running", "starting"} => Late(t)'
  BY DEF Quiet
<1>1. ~flagexit /\ Quiet(t) /\ Starting
  BY DEF UpInv
<1>2. CASE Stays(t)
  BY <1>1, <1>2 DEF Stays, Quiet, Wanted, SameGoal
<1>3. CASE Ups(t)
  BY <1>3 DEF Ups
<1>4. CASE Stops(t)
  <2>1. svc[t].pid # NoPid
    BY <1>4 DEF Stops
  <2>. QED BY <1>4, <2>1 DEF Stops
<1>5. CASE Ends(t)
  BY <1>5 DEF Ends, Due, Late
<1>6. CASE Starts(t)
  BY <1>6 DEF Starts, Wanted
<1>7. CASE Halts(t)
  BY <1>7 DEF Halts, Wanted
<1>. QED BY <1>2, <1>3, <1>4, <1>5, <1>6, <1>7 DEF Turns

LEMMA StartingStep ==
  ASSUME UpInv, TypeOK', ~ForkMayFail, flagexit => flagexit', Turns("main")
  PROVE  Starting'
<1>. SUFFICES ASSUME ~flagexit', svc'["main"].flagstatus = "starting"
              PROVE  Sought(svc'["main"])
  BY DEF Starting, Sought
<1>1. ~flagexit /\ Quiet("main") /\ (svc["main"].flagstatus = "starting" => Sought(svc["main"]))
  BY DEF UpInv, Services, Starting
<1>2. CASE Stays("main")
  BY <1>1, <1>2 DEF Stays, SameGoal, Sought
<1>3. CASE Ups("main")
  BY <1>3 DEF Ups
<1>4. CASE Stops("main")
  BY <1>4 DEF Stops
<1>5. CASE Ends("main")
  <2>1. PICK o : svc'["main"] = Verdict("main", o)
    BY <1>5 DEF Ends
  <2>2. svc["main"] \in SvcRecord
    BY DEF UpInv, LifeInv, TypeOK, Services
  <2>3. svc["main"].flagstatus = "starting" /\ svc'["main"] = [svc["main"] EXCEPT !.pid = NoPid]
    BY <2>1, <2>2 DEF Verdict, SvcRecord
  <2>. QED BY <1>1, <2>2, <2>3 DEF SvcRecord, Sought
<1>6. CASE Starts("main")
  <2>1. Fit("main", svc'["main"])
    BY <1>6 DEF Starts
  <2>. QED BY <1>1, <2>1 DEF Fit, SameGoal, Sought
<1>7. CASE Halts("main")
  <2>1. svc["main"].flagstatus = "starting" /\ pc = "controller" /\ svc["main"].pid = NoPid
    BY <1>7 DEF Halts
  <2>. QED BY <1>1, <2>1 DEF Quiet, Late
<1>. QED BY <1>2, <1>3, <1>4, <1>5, <1>6, <1>7 DEF Turns

LEMMA LogStatusStep == ASSUME UpInv, Turns("log") PROVE LogStatus'
<1>1. svc["log"].flagstatus \notin {"starting", "started"} /\ svc["log"] \in SvcRecord
  BY DEF UpInv, LogStatus, LifeInv, TypeOK, Services
<1>2. CASE Ends("log")
  <2>1. PICK o : svc'["log"] = Verdict("log", o)
    BY <1>2 DEF Ends
  <2>. QED BY <1>1, <2>1 DEF Verdict, SvcRecord, LogStatus
<1>3. CASE Starts("log")
  BY <1>3 DEF Starts, LogStatus
<1>4. CASE Stays("log") \/ Ups("log") \/ Stops("log") \/ Halts("log")
  BY <1>1, <1>4 DEF Stays, Ups, Stops, Halts, LogStatus
<1>. QED BY <1>2, <1>3, <1>4 DEF Turns

LEMMA StopRunsStep ==
  ASSUME UpInv, Turns("main"), Moves("main")
  PROVE  StopRuns'
<1>. SUFFICES ASSUME svc'["main"].pid # NoPid, svc'["main"].flagstatus = "stopped"
              PROVE  child'[svc'["main"].pid].script = "stop"
  BY DEF StopRuns
<1>1. CASE Stays("main") \/ Ups("main")
  <2>1. svc'["main"].pid = svc["main"].pid /\ svc["main"].flagstatus = "stopped"
    BY <1>1 DEF Stays, Ups
  <2>2. child[svc["main"].pid].script = "stop"
    BY <2>1 DEF UpInv, StopRuns
  <2>3. Holds("main")
    BY <2>1 DEF Moves, Begins, Rests
  <2>. QED BY <2>1, <2>2, <2>3 DEF Holds
<1>2. CASE Stops("main") \/ Ends("main") \/ Starts("main") \/ Halts("main")
  BY <1>2 DEF Stops, Ends, Starts, Halts
<1>. QED BY <1>1, <1>2 DEF Turns

LEMMA UpStep == ASSUME UpInv, [Next]_vars PROVE UpInv'
<1>1. LifeInv /\ LifeInv' /\ TypeOK'
  BY LifeStep DEF UpInv, LifeInv
<1>2. \A t \in Services : Turns(t) /\ Moves(t)
  BY <1>1, StepTurns, StepMoves
<1>3. flagexit => flagexit'
  BY ExitStays
<1>4. LogStatus' /\ StopRuns'
  BY <1>2, LogStatusStep, StopRunsStep DEF Services
<1>5. ASSUME ~ForkMayFail PROVE Starting' /\ \A t \in Services : Quiet(t)'
  BY <1>1, <1>2, <1>3, <1>5, StartingStep, QuietStep DEF Services
<1>. QED BY <1>1, <1>4, <1>5 DEF UpInv

THEOREM UpInvariant == Spec => []UpInv
BY UpInit, UpStep, PTL DEF Spec

(* If no fork fails, supervise never goes to sleep while a service that is *)
(* wanted up has no process: no order of deaths, of ./start and ./stop     *)
(* ending and of commands leaves it waiting for nothing.                   *)
THEOREM NeverIdle == Spec => [](~ForkMayFail => NoIdleWanted)
<1>1. UpInv => (~ForkMayFail => NoIdleWanted)
  BY DEF UpInv, Quiet, Wanted, Due, Late, NoIdleWanted
<1>. QED BY <1>1, UpInvariant, PTL

(* supervise that has been told to exit sends the logger SIGTERM only when *)
(* ./start and ./run are gone.                                             *)
THEOREM LoggerLast == Spec => LoggerOutlivesRun
<1>1. ASSUME UpInv, [Next]_vars, pc = "controller", fifo = <<>>, svc' # svc
      PROVE  svc["main"].pid = NoPid \/ child[svc["main"].pid].script = "stop"
  <2>1. LoopEnd
    <3>1. ~\E chars : Command(chars)
      BY <1>1 DEF Command
    <3>2. ~(SelectGroup \/ SelectService \/ Down \/ Up \/ Once \/ Signal \/ Pause \/ Exit)
      BY <3>1 DEF SelectGroup, SelectService, Down, Up, Once, Signal, Pause, Exit
    <3>3. ~(BootLog \/ BootMain \/ doit \/ Wake \/ Timeout \/ ReapNone \/ Reaped)
      BY <1>1 DEF BootLog, BootMain, Boot, doit, Wake, Timeout, TurnBegins, ReapNone, Reaped
    <3>4. ~((\E p \in Pids : ReapOther(p)) \/ (\E s \in Services, p \in Pids : ReapSvc(s, p)))
      BY <1>1 DEF ReapOther, ReapSvc
    <3>5. ~(Environment \/ Gone \/ UNCHANGED vars)
      BY <1>1 DEF Environment, SvcWrites, CatchSignal, HandlerWrites, ChildExits, EditDirectory,
                  thread, Gone, vars
    <3>. QED BY <1>1, <3>2, <3>3, <3>4, <3>5 DEF Next, Turn
  <2>2. StopsLogger
    BY <1>1, <2>1 DEF LoopEnd
  <2>. QED BY <1>1, <2>2 DEF StopsLogger, UpInv, StopRuns
<1>2. UpInv /\ [Next]_vars
      => [pc = "controller" /\ fifo = <<>> /\ svc' # svc
            => svc["main"].pid = NoPid \/ child[svc["main"].pid].script = "stop"]_vars
  BY <1>1
<1>. QED BY <1>2, UpInvariant, PTL DEF Spec, LoggerOutlivesRun

-----------------------------------------------------------------------------
(* The status file                                                         *)

(* The file with contents f tells of sv what it must even if a fork failed.*)
Alike(r, q) == r.pid = q.pid /\ SameGoal(r, q)

(* After a step the file tells what it told of services that are as they   *)
(* were but for a fork that failed, or a logger on its way out; or it is   *)
(* new.                                                                    *)
Tells ==
  \/ status' = Announced(svc')
  \/ /\ status' = status
     /\ \A t \in Services : /\ Alike(svc[t], svc'[t])
                            /\ svc'[t] = svc[t] \/ ForkMayFail \/ (flagexit' /\ t = "log")
  \/ /\ ForkMayFail
     /\ \E sv \in [Services -> SvcRecord] :
          status' = Announced(sv) /\ \A t \in Services : Alike(sv[t], svc'[t])

LEMMA TryTells ==
  ASSUME LifeInv, NEW s \in Services, NEW sv \in [Services -> SvcRecord], NEW first, NEW file,
         trystart(s, sv, first, file) \/ trystop(s, sv)
  PROVE  \/ status' = Announced(svc')
         \/ /\ ForkMayFail /\ status' = file
            /\ \A t \in Services : Alike(sv[t], svc'[t])
<1>1. TypeOK
  BY DEF LifeInv
<1>2. CASE trystart(s, sv, first, file)
  <2>1. /\ OthersAs(sv, s)
        /\ status' = Announced(svc') \/ ForkFailed(s, sv[s], file)
    BY <1>1, <1>2, TrystartDoes
  <2>. QED BY <2>1 DEF OthersAs, ForkFailed, Alike, SameGoal
<1>3. CASE trystop(s, sv)
  BY <1>1, <1>3, TrystopDoes
<1>. QED BY <1>2, <1>3

LEMMA StepTells == ASSUME LifeInv, [Next]_vars PROVE Tells
<1>1. TypeOK /\ cur \in Services /\ \A t \in Services : Alike(svc[t], svc[t])
  BY DEF LifeInv, TypeOK, Alike, SameGoal
<1>2. CASE BootLog \/ BootMain \/ Reaped
  <2>1. PICK s \in Services :
          \/ UNCHANGED <<svc, status>>
          \/ trystart(s, svc, firstrun, status)
          \/ trystop(s, svc)
    BY <1>1, <1>2 DEF BootLog, BootMain, Boot, Reaped, Services
  <2>2. CASE UNCHANGED <<svc, status>>
    BY <1>1, <2>2 DEF Tells
  <2>3. CASE trystart(s, svc, firstrun, status)
    BY <1>1, <2>3, TryTells DEF Tells, TypeOK
  <2>4. CASE trystop(s, svc)
    BY <1>1, <2>4, TrystopDoes DEF Tells, TypeOK, OthersAs, Alike
  <2>. QED BY <2>1, <2>2, <2>3, <2>4
<1>3. CASE Up \/ Once
  <2>1. PICK sv, first :
          /\ UpRecord(sv) \/ OnceRecord(sv)
          /\ \/ svc[cur].pid = NoPid /\ trystart(cur, sv, first, Announced(sv))
             \/ svc[cur].pid # NoPid /\ announce(sv)
    BY <1>1, <1>3, UpDoes, OnceDoes
  <2>2. sv \in [Services -> SvcRecord]
    BY <2>1 DEF UpRecord, OnceRecord
  <2>. QED BY <1>1, <2>1, <2>2, TryTells DEF Tells, announce
<1>4. CASE LoopEnd
  <2>1. status' = Announced(svc') \/ status' = status
    BY <1>4 DEF LoopEnd
  <2>2. CASE svc' = svc
    BY <1>1, <2>1, <2>2 DEF Tells
  <2>3. CASE StopsLogger /\ stopsvc("log", FALSE, svc)
    <3>1. /\ OthersAs(svc, "log") /\ SameGoal(svc'["log"], svc["log"])
          /\ svc'["log"].pid = svc["log"].pid
      BY <1>1, <2>3, StopsvcDoes DEF TypeOK, Services
    <3>2. flagexit'
      BY <1>4, <2>3 DEF LoopEnd, StopsLogger
    <3>. QED BY <1>1, <2>1, <3>1, <3>2 DEF Tells, OthersAs, Alike, SameGoal
  <2>. QED BY <1>4, <2>2, <2>3 DEF LoopEnd
<1>5. CASE \E s \in Services, p \in Pids : ReapSvc(s, p)
  BY <1>1, <1>5, ReapSvcDoes DEF Tells
<1>6. CASE Down \/ Pause \/ Exit \/ doit
  BY <1>6 DEF Down, Pause, Exit, doit, announce, Tells
<1>7. CASE TurnBegins \/ ReapNone \/ (\E p \in Pids : ReapOther(p)) \/ SelectGroup
           \/ SelectService \/ Signal \/ Gone \/ UNCHANGED vars \/ Environment
  <2>1. svc' = svc /\ status' = status
    BY <1>7 DEF TurnBegins, ReapNone, ReapOther, SelectGroup, SelectService, Signal, Gone, vars,
                Environment, SvcWrites, CatchSignal, HandlerWrites, ChildExits, EditDirectory, thread
  <2>. QED BY <1>1, <2>1 DEF Tells
<1>. QED BY <1>2, <1>3, <1>4, <1>5, <1>6, <1>7 DEF Next, Turn, Wake, Timeout

ToldOf(s) ==
  /\ status[s].pid = svc[s].pid /\ status[s].want = make_status(svc[s]).want
  /\ ~ForkMayFail /\ ~(flagexit /\ s = "log") => status[s] = make_status(svc[s])

StatusInv == UpInv /\ \A s \in DOMAIN status : ToldOf(s)

LEMMA AnnouncedTells ==
  ASSUME NEW sv \in [Services -> SvcRecord], NEW s \in DOMAIN Announced(sv)
  PROVE  s \in Services /\ Announced(sv)[s] = make_status(sv[s])
BY DEF Announced, Services

LEMMA StatusInit == ASSUME Init PROVE StatusInv
<1>1. svc \in [Services -> SvcRecord] /\ status = Announced(svc)
  BY TypeInit DEF Init, TypeOK
<1>. QED BY <1>1, UpInit, AnnouncedTells DEF StatusInv, ToldOf, make_status

LEMMA LogpipeStays == ASSUME [Next]_vars PROVE logpipe' = logpipe
<1>1. CASE Turn
  BY <1>1 DEF Turn, BootLog, BootMain, Boot, doit, Wake, TurnBegins, ReapNone, ReapOther, ReapSvc,
              Reaped, SelectGroup, SelectService, Down, Up, Once, Signal, Pause, Exit, Command,
              LoopEnd, thread
<1>2. CASE Timeout \/ Environment \/ Gone \/ UNCHANGED vars
  BY <1>2 DEF Timeout, TurnBegins, Environment, SvcWrites, CatchSignal, HandlerWrites, ChildExits,
              EditDirectory, Gone, thread, vars
<1>. QED BY <1>1, <1>2 DEF Next

LEMMA AlikeTells ==
  ASSUME NEW r \in SvcRecord, NEW q \in SvcRecord, Alike(r, q)
  PROVE  make_status(r).pid = q.pid /\ make_status(r).want = make_status(q).want
BY DEF Alike, SameGoal, make_status

LEMMA StatusStep == ASSUME StatusInv, [Next]_vars PROVE StatusInv'
<1>1. UpInv /\ UpInv' /\ LifeInv /\ TypeOK /\ TypeOK'
  BY UpStep DEF StatusInv, UpInv, LifeInv
<1>2. Tells
  BY <1>1, StepTells
<1>3. svc \in [Services -> SvcRecord] /\ svc' \in [Services -> SvcRecord]
  BY <1>1 DEF TypeOK
<1>4. ASSUME NEW s \in DOMAIN status' PROVE ToldOf(s)'
  <2>1. CASE status' = Announced(svc')
    <3>1. /\ s \in Services
          /\ status'[s] = [pid |-> svc'[s].pid,
                          paused |-> svc'[s].pid # NoPid /\ svc'[s].flagpaused,
                          want |-> IF ~svc'[s].flagwant THEN "none"
                                   ELSE IF svc'[s].flagwantup THEN "up" ELSE "down",
                          flagstatus |-> svc'[s].flagstatus]
      BY <1>3, <1>4, <2>1 DEF Announced, Services, make_status
    <3>. QED BY <3>1 DEF ToldOf, make_status
  <2>2. CASE /\ status' = status
             /\ \A t \in Services : /\ Alike(svc[t], svc'[t])
                                    /\ svc'[t] = svc[t] \/ ForkMayFail \/ (flagexit' /\ t = "log")
    <3>1. ToldOf(s) /\ s \in Services
      BY <1>1, <1>4, <2>2 DEF StatusInv, TypeOK, Services
    <3>2. make_status(svc[s]).want = make_status(svc'[s]).want /\ svc'[s].pid = svc[s].pid
      BY <1>3, <2>2, <3>1, AlikeTells DEF Alike
    <3>3. ~ForkMayFail /\ ~(flagexit' /\ s = "log") => status[s] = make_status(svc'[s])
      BY <2>2, <3>1, ExitStays DEF ToldOf
    <3>. QED BY <2>2, <3>1, <3>2, <3>3 DEF ToldOf, make_status
  <2>3. CASE /\ ForkMayFail
             /\ \E sv \in [Services -> SvcRecord] :
                  status' = Announced(sv) /\ \A t \in Services : Alike(sv[t], svc'[t])
    <3>1. PICK sv \in [Services -> SvcRecord] :
                  status' = Announced(sv) /\ \A t \in Services : Alike(sv[t], svc'[t])
      BY <2>3
    <3>2. s \in Services /\ status'[s] = make_status(sv[s])
      BY <1>4, <3>1, AnnouncedTells
    <3>3. status'[s].pid = svc'[s].pid /\ status'[s].want = make_status(svc'[s]).want
      BY <1>3, <3>1, <3>2, AlikeTells
    <3>. QED BY <2>3, <3>3 DEF ToldOf, make_status
  <2>. QED BY <1>2, <2>1, <2>2, <2>3 DEF Tells
<1>. QED BY <1>1, <1>4 DEF StatusInv

THEOREM StatusInvariant == Spec => []StatusInv
BY StatusInit, StatusStep, PTL DEF Spec

LEMMA ProcessIs ==
  ASSUME LifeInv, NEW s \in Services
  PROVE  Process(s) <=> svc[s].pid # NoPid
<1>1. TypeOK /\ Tracked
  BY DEF LifeInv
<1>2. ASSUME Process(s) PROVE svc[s].pid # NoPid
  BY <1>1, <1>2, SuperviseAssumption DEF Process, Exists, Tracked, TrackedIn
<1>3. ASSUME svc[s].pid # NoPid PROVE Process(s)
  <2>1. svc[s].pid \in Pids
    BY <1>1, <1>3 DEF TypeOK, SvcRecord
  <2>. QED BY <1>1, <1>3, <2>1 DEF Process, Exists, Tracked, TrackedIn
<1>. QED BY <1>2, <1>3

LEMMA StatusIsCurrent ==
  ASSUME StatusInv, pc = "wait", NEW s \in DOMAIN status
  PROVE  LET now == make_status(svc[s])
             words == svstat("none")[s]
         IN  /\ status[s].want = now.want
             /\ ~ForkMayFail /\ ~(flagexit /\ s = "log") => status[s] = now
             /\ "up" \in words <=> Process(s)
             /\ "want up" \in words => svc[s].flagwant /\ svc[s].flagwantup /\ ~Process(s)
             /\ "want down" \in words => svc[s].flagwant /\ ~svc[s].flagwantup /\ Process(s)
             /\ "once" \in words <=> ~svc[s].flagwant /\ Process(s)
<1>. DEFINE r == status[s]
            words == svstat("none")[s]
<1>1. TypeOK /\ LifeInv /\ ToldOf(s) /\ s \in Services /\ svc[s] \in SvcRecord
  BY DEF StatusInv, UpInv, LifeInv, TypeOK, Services
<1>2. Process(s) <=> svc[s].pid # NoPid
  BY <1>1, ProcessIs
<1>3. words = showstatus(r, dir["down"] = "absent")
  BY DEF svstat
<1>4. r.flagstatus \in Statuses
  BY <1>1 DEF TypeOK, StatusRecord
<1>5. /\ "up" \in words <=> r.pid # NoPid
      /\ "want up" \in words => r.pid = NoPid /\ r.want = "up"
      /\ "want down" \in words => r.pid # NoPid /\ r.want = "down"
      /\ "once" \in words <=> r.pid # NoPid /\ r.want = "none"
  BY <1>3, <1>4 DEF showstatus, Statuses
<1>6. r.pid = svc[s].pid
      /\ r.want = IF ~svc[s].flagwant THEN "none" ELSE IF svc[s].flagwantup THEN "up" ELSE "down"
  BY <1>1 DEF ToldOf, make_status
<1>7. /\ "up" \in words <=> Process(s)
      /\ "want up" \in words => svc[s].flagwant /\ svc[s].flagwantup /\ ~Process(s)
      /\ "want down" \in words => svc[s].flagwant /\ ~svc[s].flagwantup /\ Process(s)
      /\ "once" \in words <=> ~svc[s].flagwant /\ Process(s)
  <2>. HIDE DEF words, r
  <2>. QED BY <1>2, <1>5, <1>6
<1>. QED BY <1>1, <1>7 DEF ToldOf

LEMMA ChecksRight ==
  ASSUME StatusInv, pc = "wait", NEW s \in DOMAIN status
  PROVE  /\ Process(s) => checkstatus(status[s])
         /\ ~ForkMayFail /\ ~flagexit /\ checkstatus(status[s])
              => Process(s) \/ (s # "log" /\ status[s].flagstatus = "started")
<1>1. LifeInv /\ UpInv /\ ToldOf(s) /\ s \in Services
  BY DEF StatusInv, UpInv, LifeInv, TypeOK, Services
<1>2. Process(s) <=> svc[s].pid # NoPid
  BY <1>1, ProcessIs
<1>3. Process(s) => checkstatus(status[s])
  BY <1>1, <1>2 DEF ToldOf, checkstatus
<1>4. ASSUME ~ForkMayFail, ~flagexit, checkstatus(status[s]), ~Process(s)
      PROVE  s # "log" /\ status[s].flagstatus = "started"
  <2>1. svc[s].pid = NoPid /\ status[s].pid = NoPid /\ status[s].flagstatus = svc[s].flagstatus
    BY <1>1, <1>2, <1>4 DEF ToldOf, make_status
  <2>2. svc[s].flagstatus \in {"started", "running"}
    BY <1>4, <2>1 DEF checkstatus
  <2>3. svc[s].flagstatus # "running"
    BY <1>1, <1>4, <2>1 DEF UpInv, Quiet, Late
  <2>. QED BY <1>1, <2>1, <2>2, <2>3 DEF UpInv, LogStatus
<1>. QED BY <1>3, <1>4

(* While supervise waits, the status file that svstat and svup read says   *)
(* which services have a process, what is wanted of them and, if no fork   *)
(* failed, what they do.                                                   *)
THEOREM StatusTold == Spec => []StatusCurrent
<1>1. ASSUME StatusInv PROVE StatusCurrent
  <2>. SUFFICES ASSUME pc = "wait"
                PROVE  /\ \A s \in DOMAIN status :
                            LET now == make_status(svc[s])
                                words == svstat("none")[s]
                            IN  /\ status[s].want = now.want
                                /\ ~ForkMayFail /\ ~(flagexit /\ s = "log") => status[s] = now
                                /\ "up" \in words <=> Process(s)
                                /\ "want up" \in words => svc[s].flagwant /\ svc[s].flagwantup /\ ~Process(s)
                                /\ "want down" \in words => svc[s].flagwant /\ ~svc[s].flagwantup /\ Process(s)
                                /\ "once" \in words <=> ~svc[s].flagwant /\ Process(s)
                       /\ \A s \in DOMAIN status :
                            /\ Process(s) => checkstatus(status[s])
                            /\ ~ForkMayFail /\ ~flagexit /\ checkstatus(status[s])
                                 => Process(s) \/ status[s].flagstatus = "started"
                       /\ ~ForkMayFail /\ ~flagexit /\ svup("L") => Process("log")
    BY DEF StatusCurrent
  <2>1. ~ForkMayFail /\ ~flagexit /\ svup("L") => Process("log")
    BY <1>1, ChecksRight DEF svup
  <2>. QED BY <1>1, <2>1, StatusIsCurrent, ChecksRight
<1>2. StatusInv => StatusCurrent
  BY <1>1
<1>. QED BY <1>2, StatusInvariant, PTL

-----------------------------------------------------------------------------
(* supervise implements the abstract service                               *)

ScriptIs(t) ==
  ScriptOf(t) = IF svc[t].pid # NoPid /\ Running(child[svc[t].pid])
                THEN child[svc[t].pid].script ELSE "none"

LEMMA ScriptKnown == LifeInv => \A t \in Services : ScriptIs(t)
<1>. SUFFICES ASSUME LifeInv, NEW t \in Services PROVE ScriptIs(t)
  OBVIOUS
<1>. DEFINE Mine(p) == Alive(p) /\ child[p].script # "notify" /\ ServiceOf(child[p].script) = t
            q == svc[t].pid
<1>1. TypeOK /\ Tracked
  BY DEF LifeInv
<1>2. \A p \in Pids : Mine(p) => p = q
  BY <1>1 DEF Tracked, TrackedIn, Alive
<1>3. CASE q # NoPid /\ Running(child[q])
  <2>1. q \in Pids /\ Mine(q)
    BY <1>1, <1>3 DEF Tracked, TrackedIn, Alive, Running, TypeOK, SvcRecord
  <2>2. (CHOOSE p \in Pids : Mine(p)) = q
    BY <1>2, <2>1
  <2>. QED BY <1>3, <2>1, <2>2 DEF ScriptIs, ScriptOf
<1>4. CASE ~(q # NoPid /\ Running(child[q]))
  <2>1. ~\E p \in Pids : Mine(p)
    BY <1>2, <1>4, SuperviseAssumption DEF Alive, Running
  <2>. QED BY <1>4, <2>1 DEF ScriptIs, ScriptOf
<1>. QED BY <1>3, <1>4

(* A step of the abstract service t that may run these scripts             *)
LifeMove(t, up, down) ==
  \/ /\ ScriptOf(t) = "none"
     /\ \/ GoalOf(t)' # "down" /\ ScriptOf(t)' \in up
        \/ GoalOf(t)' # "up" /\ ScriptOf(t)' \in down
  \/ ScriptOf(t)' = ScriptOf(t)
  \/ ScriptOf(t) # "none" /\ ScriptOf(t)' = "none" /\ GoalOf(t)' = GoalOf(t)

LEMMA LifeMoves ==
  ASSUME LifeInv, LifeInv', NEW t \in Services, ScriptIs(t), ScriptIs(t)', Moves(t),
         NEW up, NEW down,
         Begins(t) => LET script == child'[svc'[t].pid].script
                      IN  \/ Sought(svc'[t]) /\ script \in up
                          \/ ~(svc'[t].flagwant /\ svc'[t].flagwantup) /\ script \in down
  PROVE  LifeMove(t, up, down)
<1>. DEFINE p == svc[t].pid
<1>1. /\ ScriptOf(t) = IF p # NoPid /\ Running(child[p]) THEN child[p].script ELSE "none"
      /\ ScriptOf(t)' = IF svc'[t].pid # NoPid /\ Running(child'[svc'[t].pid])
                        THEN child'[svc'[t].pid].script ELSE "none"
  BY DEF ScriptIs, Running
<1>2. CASE Begins(t)
  <2>1. svc'[t].pid # NoPid /\ Running(child'[svc'[t].pid]) /\ p = NoPid
    BY <1>2, SuperviseAssumption DEF Begins, Begun, Running
  <2>2. ScriptOf(t) = "none" /\ ScriptOf(t)' = child'[svc'[t].pid].script
    BY <1>1, <2>1
  <2>3. /\ Sought(svc'[t]) => GoalOf(t)' # "down"
        /\ ~(svc'[t].flagwant /\ svc'[t].flagwantup) => GoalOf(t)' # "up"
    BY DEF Sought, GoalOf
  <2>. QED BY <1>2, <2>2, <2>3 DEF LifeMove
<1>3. CASE Rests(t)
  <2>1. ScriptOf(t)' = "none" /\ ScriptOf(t) = "none"
    BY <1>1, <1>3 DEF Rests, Running
  <2>. QED BY <2>1 DEF LifeMove
<1>4. CASE Holds(t)
  <2>1. CASE Running(child[p]) /\ ~Running(child'[p])
    <3>1. svc'[t] = svc[t]
      BY <1>4, <2>1 DEF Holds
    <3>2. GoalOf(t)' = GoalOf(t)
      BY <3>1 DEF GoalOf
    <3>3. ScriptOf(t)' = "none"
      BY <1>1, <1>4, <2>1 DEF Holds
    <3>4. CASE ScriptOf(t) = "none"
      BY <3>3, <3>4 DEF LifeMove
    <3>. QED BY <3>2, <3>3, <3>4 DEF LifeMove
  <2>2. CASE ~(Running(child[p]) /\ ~Running(child'[p]))
    <3>1. ScriptOf(t)' = ScriptOf(t)
      BY <1>1, <1>4, <2>2 DEF Holds
    <3>. QED BY <3>1 DEF LifeMove
  <2>. QED BY <2>1, <2>2
<1>. QED BY <1>2, <1>3, <1>4 DEF Moves

LEMMA GoalType == \A t : GoalOf(t) \in {"up", "down", "once"}
BY DEF GoalOf

LEMMA LogInit == ASSUME Init PROVE Log!LifeInit
<1>1. ScriptIs("log") /\ svc["log"].pid = NoPid /\ svc["log"].flagwant
  BY LifeInit, ScriptKnown DEF Init, Services
<1>. QED BY <1>1 DEF Log!LifeInit, ScriptIs, GoalOf

LEMMA MainInit == ASSUME Init PROVE Main!LifeInit
<1>1. ScriptIs("main") /\ svc["main"].pid = NoPid /\ svc["main"].flagwant
  BY LifeInit, ScriptKnown DEF Init, Services
<1>. QED BY <1>1 DEF Main!LifeInit, ScriptIs, GoalOf

LEMMA LogStep ==
  ASSUME LifeInv, LifeInv', [Next]_vars, ScriptIs("log"), ScriptIs("log")'
  PROVE  [Log!LifeNext]_(Log!life)
<1>1. Turns("log") /\ Moves("log") /\ "log" \in Services
  BY StepTurns, StepMoves DEF Services
<1>2. ASSUME Begins("log")
      PROVE  Sought(svc'["log"]) /\ child'[svc'["log"].pid].script \in {"log"}
  <2>1. /\ svc["log"].pid = NoPid /\ svc'["log"].pid # NoPid
        /\ child'[svc'["log"].pid].script = "log"
    BY <1>2, SuperviseAssumption DEF Begins, Begun, ServiceOf
  <2>2. CASE Starts("log")
    BY <2>1, <2>2 DEF Starts, Fit
  <2>3. CASE Halts("log")
    BY <2>1, <2>3 DEF Halts
  <2>4. CASE Stays("log") \/ Ups("log") \/ Stops("log") \/ Ends("log")
    BY <2>1, <2>4 DEF Stays, Ups, Stops, Ends
  <2>. QED BY <1>1, <2>1, <2>2, <2>3, <2>4 DEF Turns
<1>3. LifeMove("log", {"log"}, {})
  BY <1>1, <1>2, LifeMoves
<1>4. GoalOf("log")' \in {"up", "down", "once"}
  BY DEF GoalOf
<1>. QED BY <1>3, <1>4 DEF LifeMove, Log!LifeNext, Log!Begins, Log!GoalChanges, Log!Ends, Log!Goals

(* supervise implements the abstract service for the logger: one ./log at  *)
(* a time, started only while it is not wanted down, and no second one     *)
(* before the first has ended.                                             *)
THEOREM LogRefines == Spec => LogLives
<1>1. LifeInv => ScriptIs("log")
  BY ScriptKnown DEF Services
<1>2. LifeInv /\ ScriptIs("log") /\ LifeInv' /\ ScriptIs("log")' /\ [Next]_vars
        => [Log!LifeNext]_(Log!life)
  BY LogStep
<1>3. Init => Log!LifeInit
  BY LogInit
<1>. QED BY <1>1, <1>2, <1>3, LifeInvariant, PTL DEF Spec, LogLives, Log!LifeSpec

LEMMA MainStep ==
  ASSUME ~ForkMayFail, UpInv, LifeInv', [Next]_vars, ScriptIs("main"), ScriptIs("main")'
  PROVE  [Main!LifeNext]_(Main!life)
<1>1. Turns("main") /\ Moves("main") /\ "main" \in Services /\ LifeInv
  BY StepTurns, StepMoves DEF Services, UpInv
<1>2. ASSUME Begins("main")
      PROVE  LET script == child'[svc'["main"].pid].script
             IN  \/ Sought(svc'["main"]) /\ script \in {"start", "run"}
                 \/ ~(svc'["main"].flagwant /\ svc'["main"].flagwantup) /\ script \in {"stop"}
  <2>1. /\ svc["main"].pid = NoPid /\ svc'["main"].pid # NoPid
        /\ child'[svc'["main"].pid].script # "log"
    BY <1>2, SuperviseAssumption DEF Begins, Begun, ServiceOf
  <2>2. CASE Starts("main")
    <3>1. Fit("main", svc'["main"]) /\ child'[svc'["main"].pid].script \in {"start", "run", "log"}
      BY <2>1, <2>2 DEF Starts
    <3>2. Sought(svc'["main"])
      BY <3>1 DEF Fit, UpInv, Starting, Sought, SameGoal
    <3>. QED BY <2>1, <3>1, <3>2
  <2>3. CASE Halts("main")
    BY <2>1, <2>3 DEF Halts
  <2>4. CASE Stays("main") \/ Ups("main") \/ Stops("main") \/ Ends("main")
    BY <2>1, <2>4 DEF Stays, Ups, Stops, Ends
  <2>. QED BY <1>1, <2>2, <2>3, <2>4 DEF Turns
<1>3. LifeMove("main", {"start", "run"}, {"stop"})
  BY <1>1, <1>2, LifeMoves
<1>4. GoalOf("main")' \in {"up", "down", "once"}
  BY DEF GoalOf
<1>. QED BY <1>3, <1>4 DEF LifeMove, Main!LifeNext, Main!Begins, Main!GoalChanges, Main!Ends,
                          Main!Goals

(* If no fork fails, supervise implements the abstract service for the     *)
(* main service: one script at a time, ./start and ./run only while it is  *)
(* not wanted down, ./stop only while it is not wanted up.  (If the fork   *)
(* of ./start failed, the end of ./stop may start ./run although the       *)
(* service is wanted down.)                                                *)
THEOREM MainRefines == ASSUME ~ForkMayFail PROVE Spec => MainLives
<1>1. UpInv => LifeInv /\ ScriptIs("main")
  BY ScriptKnown DEF Services, UpInv
<1>2. UpInv /\ ScriptIs("main") /\ LifeInv' /\ ScriptIs("main")' /\ [Next]_vars
        => [Main!LifeNext]_(Main!life)
  BY MainStep
<1>3. Init => Main!LifeInit
  BY MainInit
<1>. QED BY <1>1, <1>2, <1>3, UpInvariant, PTL DEF Spec, MainLives, Main!LifeSpec

-----------------------------------------------------------------------------
(* The bytes of svc's commands reach the service they name                 *)

Choosing == {"L", "l"}

(* A byte of svc that names no service follows, in the fifo, one of the    *)
(* same command and for the same service ...                               *)
Follows(f) ==
  \A i \in 2..Len(f) : f[i].from = "svc" /\ f[i].ch \notin Choosing
                         => f[i - 1].from = "svc" /\ f[i - 1].svc = f[i].svc

(* ... L and l name the service their writer means ...                     *)
NamesIt(f) ==
  \A i \in 1..Len(f) : f[i].from = "svc" => /\ f[i].ch = "L" => f[i].svc = "log"
                                            /\ f[i].ch = "l" => f[i].svc = "main"

(* ... and controller() does not stop within a command.                    *)
HeadAims ==
  fifo # <<>> /\ fifo[1].from = "svc" /\ fifo[1].ch \notin Choosing
    => pc = "controller" /\ cur = fifo[1].svc

FifoInv == TypeOK /\ Follows(fifo) /\ NamesIt(fifo) /\ HeadAims

LEMMA FifoInit == ASSUME Init PROVE FifoInv
<1>1. fifo = <<>> /\ TypeOK
  BY TypeInit DEF Init
<1>2. \A i \in Nat : i \notin 2..0 /\ i \notin 1..0
  OBVIOUS
<1>3. Follows(<<>>) /\ NamesIt(<<>>)
  BY <1>2 DEF Follows, NamesIt
<1>. QED BY <1>1, <1>3 DEF FifoInv, HeadAims

LEMMA AimsStay ==
  ASSUME NEW msg \in Seq(Bytes), NEW i \in 2..Len(msg), msg[i] \notin Choosing
  PROVE  AimsAtLog(msg, i) <=> AimsAtLog(msg, i - 1)
<1>1. i \in Nat /\ i >= 2 /\ i <= Len(msg)
  OBVIOUS
<1>2. ASSUME AimsAtLog(msg, i) PROVE AimsAtLog(msg, i - 1)
  <2>1. PICK j \in 1..i : msg[j] = "L" /\ \A k \in j..i : msg[k] # "l"
    BY <1>2 DEF AimsAtLog
  <2>2. j \in 1..(i - 1) /\ \A k \in j..(i - 1) : k \in j..i
    BY <1>1, <2>1 DEF Choosing
  <2>. QED BY <2>1, <2>2 DEF AimsAtLog
<1>3. ASSUME AimsAtLog(msg, i - 1) PROVE AimsAtLog(msg, i)
  <2>1. PICK j \in 1..(i - 1) : msg[j] = "L" /\ \A k \in j..(i - 1) : msg[k] # "l"
    BY <1>3 DEF AimsAtLog
  <2>2. j \in 1..i /\ \A k \in j..i : k = i \/ k \in j..(i - 1)
    BY <1>1, <2>1
  <2>. QED BY <2>1, <2>2 DEF AimsAtLog, Choosing
<1>. QED BY <1>2, <1>3

(* What a writer adds keeps the order: its first byte names a service.     *)
LEMMA AimedFollows ==
  ASSUME NEW msg \in Seq(Bytes), NEW from \in {"svc", "handler"}
  PROVE  LET m == Aimed(msg, from)
         IN  /\ Follows(m) /\ NamesIt(m)
             /\ \A i \in 1..Len(m) : m[i].from = from /\ m[i].ch = msg[i]
<1>. DEFINE m == Aimed(msg, from)
<1>1. Len(m) = Len(msg)
  BY AimedType
<1>2. \A i \in 1..Len(msg) :
        m[i] = [ch |-> msg[i], from |-> from,
                svc |-> IF AimsAtLog(msg, i) THEN "log" ELSE "main", group |-> AimsAtGroup(msg, i)]
  BY DEF Aimed
<1>. HIDE DEF m
<1>3. \A i \in 1..Len(msg) : /\ m[i].from = from /\ m[i].ch = msg[i]
                             /\ m[i].svc = IF AimsAtLog(msg, i) THEN "log" ELSE "main"
  <2>. SUFFICES ASSUME NEW i \in 1..Len(msg)
                PROVE  /\ m[i].from = from /\ m[i].ch = msg[i]
                       /\ m[i].svc = IF AimsAtLog(msg, i) THEN "log" ELSE "main"
    OBVIOUS
  <2>. DEFINE aims == IF AimsAtLog(msg, i) THEN "log" ELSE "main"
              group == AimsAtGroup(msg, i)
  <2>1. m[i] = [ch |-> msg[i], from |-> from, svc |-> aims, group |-> group]
    BY <1>2
  <2>. HIDE DEF aims, group
  <2>2. m[i].from = from /\ m[i].ch = msg[i] /\ m[i].svc = aims
    BY <2>1
  <2>. QED BY <2>2 DEF aims
<1>4. ASSUME NEW i \in 2..Len(msg), msg[i] \notin Choosing
      PROVE  m[i - 1].from = from /\ m[i - 1].svc = m[i].svc
  <2>1. i - 1 \in 1..Len(msg) /\ i \in 1..Len(msg)
    OBVIOUS
  <2>2. AimsAtLog(msg, i) <=> AimsAtLog(msg, i - 1)
    BY <1>4, AimsStay
  <2>. QED BY <1>3, <2>1, <2>2
<1>5. Follows(m)
  <2>1. \A i \in 2..Len(msg) : i \in 1..Len(msg)
    OBVIOUS
  <2>. QED BY <1>1, <1>3, <1>4, <2>1 DEF Follows
<1>6. ASSUME NEW i \in 1..Len(msg)
      PROVE  /\ msg[i] = "L" => AimsAtLog(msg, i)
             /\ msg[i] = "l" => ~AimsAtLog(msg, i)
  <2>1. i \in 1..i /\ \A k \in i..i : k = i
    OBVIOUS
  <2>2. \A j \in 1..i : i \in j..i
    OBVIOUS
  <2>. QED BY <2>1, <2>2 DEF AimsAtLog
<1>7. NamesIt(m)
  BY <1>1, <1>3, <1>6 DEF NamesIt
<1>. QED BY <1>1, <1>3, <1>5, <1>7 DEF m

LEMMA AppendFollows ==
  ASSUME NEW f \in Seq(FifoRecord), NEW m \in Seq(FifoRecord), Follows(f), NamesIt(f),
         Follows(m), NamesIt(m),
         m # <<>> => m[1].from # "svc" \/ m[1].ch \in Choosing
  PROVE  /\ Follows(f \o m) /\ NamesIt(f \o m)
         /\ f # <<>> => (f \o m)[1] = f[1]
         /\ f = <<>> => f \o m = m
<1>1. /\ Len(f) \in Nat /\ Len(m) \in Nat /\ Len(f \o m) = Len(f) + Len(m)
      /\ \A i \in 1..Len(f) : (f \o m)[i] = f[i]
      /\ \A i \in (Len(f) + 1)..(Len(f) + Len(m)) : (f \o m)[i] = m[i - Len(f)]
  OBVIOUS
<1>. DEFINE g == f \o m
            n == Len(f)
<1>. HIDE DEF g, n
<1>2. /\ n \in Nat /\ Len(m) \in Nat /\ Len(g) = n + Len(m) /\ Len(f) = n
      /\ \A i \in 1..n : g[i] = f[i]
      /\ \A i \in (n + 1)..(n + Len(m)) : g[i] = m[i - n]
  BY <1>1 DEF g, n
<1>3. ASSUME NEW i \in 2..Len(g), g[i].from = "svc", g[i].ch \notin Choosing
      PROVE  g[i - 1].from = "svc" /\ g[i - 1].svc = g[i].svc
  <2>1. CASE i <= n
    <3>1. i \in 2..Len(f) /\ i \in 1..n /\ i - 1 \in 1..n
      BY <1>2, <2>1
    <3>. QED BY <1>2, <1>3, <3>1 DEF Follows
  <2>2. CASE i = n + 1
    <3>1. g[i] = m[1] /\ Len(m) >= 1
      BY <1>2, <2>2
    <3>2. m # <<>>
      BY <3>1
    <3>. QED BY <1>3, <3>1, <3>2
  <2>3. CASE i > n + 1
    <3>1. /\ i - n \in 2..Len(m) /\ i \in (n + 1)..(n + Len(m)) /\ i - 1 \in (n + 1)..(n + Len(m))
          /\ (i - 1) - n = (i - n) - 1
      BY <1>2, <2>3
    <3>2. g[i] = m[i - n] /\ g[i - 1] = m[(i - n) - 1]
      BY <1>2, <3>1
    <3>. QED BY <1>3, <3>1, <3>2 DEF Follows
  <2>. QED BY <1>2, <2>1, <2>2, <2>3
<1>4. ASSUME NEW i \in 1..Len(g), g[i].from = "svc"
      PROVE  (g[i].ch = "L" => g[i].svc = "log") /\ (g[i].ch = "l" => g[i].svc = "main")
  <2>1. CASE i <= n
    <3>1. i \in 1..Len(f) /\ g[i] = f[i]
      BY <1>2, <2>1
    <3>. QED BY <1>4, <3>1 DEF NamesIt
  <2>2. CASE i > n
    <3>1. i - n \in 1..Len(m) /\ i \in (n + 1)..(n + Len(m))
      BY <1>2, <2>2
    <3>2. g[i] = m[i - n]
      BY <1>2, <3>1
    <3>. QED BY <1>4, <3>1, <3>2 DEF NamesIt
  <2>. QED BY <1>2, <2>1, <2>2
<1>5. Follows(g) /\ NamesIt(g)
  BY <1>3, <1>4 DEF Follows, NamesIt
<1>6. (f # <<>> => (f \o m)[1] = f[1]) /\ (f = <<>> => f \o m = m)
  OBVIOUS
<1>. QED BY <1>5, <1>6 DEF g

LEMMA TailFollows ==
  ASSUME NEW f \in Seq(FifoRecord), f # <<>>, Follows(f), NamesIt(f)
  PROVE  /\ Follows(Tail(f)) /\ NamesIt(Tail(f))
         /\ Tail(f) # <<>> /\ Tail(f)[1].from = "svc" /\ Tail(f)[1].ch \notin Choosing
              => f[1].from = "svc" /\ f[1].svc = Tail(f)[1].svc
<1>. DEFINE g == Tail(f)
<1>1. /\ Len(f) \in Nat /\ Len(f) >= 1 /\ Len(g) = Len(f) - 1
      /\ \A i \in 1..Len(g) : g[i] = f[i + 1]
      /\ g # <<>> => Len(g) >= 1
  OBVIOUS
<1>. HIDE DEF g
<1>2. ASSUME NEW i \in 2..Len(g), g[i].from = "svc", g[i].ch \notin Choosing
      PROVE  g[i - 1].from = "svc" /\ g[i - 1].svc = g[i].svc
  <2>1. i \in 1..Len(g) /\ i - 1 \in 1..Len(g) /\ (i - 1) + 1 = i /\ i + 1 \in 2..Len(f) /\ (i + 1) - 1 = i
    BY <1>1
  <2>2. g[i] = f[i + 1] /\ g[i - 1] = f[i]
    BY <1>1, <2>1
  <2>3. f[i + 1].from = "svc" /\ f[i + 1].ch \notin Choosing
         => f[(i + 1) - 1].from = "svc" /\ f[(i + 1) - 1].svc = f[i + 1].svc
    BY <2>1 DEF Follows
  <2>. QED BY <1>2, <2>1, <2>2, <2>3
<1>3. NamesIt(g)
  <2>1. \A i \in 1..Len(g) : i + 1 \in 1..Len(f)
    BY <1>1
  <2>. QED BY <1>1, <2>1 DEF NamesIt
<1>4. g # <<>> /\ g[1].from = "svc" /\ g[1].ch \notin Choosing
              => f[1].from = "svc" /\ f[1].svc = g[1].svc
  <2>1. g # <<>> => 1 \in 1..Len(g) /\ 2 \in 2..Len(f) /\ g[1] = f[2]
    BY <1>1
  <2>. QED BY <2>1 DEF Follows
<1>. QED BY <1>2, <1>3, <1>4 DEF Follows, g

LEMMA CommandFifo ==
  ASSUME FifoInv, TypeOK', NEW chars, Command(chars),
         cur' = IF Head(fifo).ch \notin Choosing THEN cur
                ELSE IF Head(fifo).ch = "L" THEN "log" ELSE "main"
  PROVE  FifoInv'
<1>1. fifo # <<>> /\ fifo' = Tail(fifo) /\ pc = "controller" /\ pc' = "controller"
  BY DEF Command
<1>2. fifo \in Seq(FifoRecord)
  BY DEF FifoInv, TypeOK
<1>3. /\ Follows(fifo') /\ NamesIt(fifo')
      /\ fifo' # <<>> /\ fifo'[1].from = "svc" /\ fifo'[1].ch \notin Choosing
           => fifo[1].from = "svc" /\ fifo[1].svc = fifo'[1].svc
  BY <1>1, <1>2, TailFollows DEF FifoInv
<1>4. fifo[1].from = "svc" => cur' = fifo[1].svc
  <2>1. Head(fifo) = fifo[1] /\ 1 \in 1..Len(fifo)
    BY <1>1, <1>2
  <2>2. CASE fifo[1].ch \in Choosing
    BY <2>1, <2>2 DEF FifoInv, NamesIt, Choosing
  <2>3. CASE fifo[1].ch \notin Choosing
    BY <1>1, <2>1, <2>3 DEF FifoInv, HeadAims
  <2>. QED BY <2>2, <2>3
<1>5. HeadAims'
  BY <1>1, <1>3, <1>4 DEF HeadAims
<1>. QED BY <1>3, <1>5 DEF FifoInv, Follows, NamesIt

LEMMA WriteFifo ==
  ASSUME FifoInv, TypeOK', NEW msg \in Seq(Bytes), NEW from \in {"svc", "handler"},
         fifo' = fifo \o Aimed(msg, from), pc' = pc, cur' = cur,
         from = "handler" \/ msg = <<>> \/ msg[1] = "l"
  PROVE  FifoInv'
<1>. DEFINE m == Aimed(msg, from)
<1>1. /\ Follows(m) /\ NamesIt(m) /\ \A i \in 1..Len(m) : m[i].from = from /\ m[i].ch = msg[i]
      /\ m \in Seq(FifoRecord) /\ Len(m) = Len(msg)
  BY AimedFollows, AimedType
<1>2. fifo' = fifo \o m
  OBVIOUS
<1>. HIDE DEF m
<1>3. m # <<>> => m[1].from # "svc" \/ m[1].ch \in Choosing
  BY <1>1 DEF Choosing
<1>4. fifo \in Seq(FifoRecord) /\ Follows(fifo) /\ NamesIt(fifo)
  BY DEF FifoInv, TypeOK
<1>5. /\ Follows(fifo') /\ NamesIt(fifo')
      /\ fifo # <<>> => fifo'[1] = fifo[1]
      /\ fifo = <<>> => fifo' = m
  BY <1>1, <1>2, <1>3, <1>4, AppendFollows
<1>6. HeadAims'
  BY <1>3, <1>5 DEF FifoInv, HeadAims
<1>. QED BY <1>5, <1>6 DEF FifoInv, Follows, NamesIt

LEMMA FifoStep ==
  ASSUME \A msg \in Requests : msg = <<>> \/ msg[1] = "l", FifoInv, [Next]_vars
  PROVE  FifoInv'
<1>1. TypeOK /\ TypeOK'
  BY TypeStep DEF FifoInv
<1>2. ASSUME fifo' = fifo, pc = "controller" /\ fifo # <<>> => pc' = pc /\ cur' = cur
      PROVE  FifoInv'
  BY <1>1, <1>2 DEF FifoInv, Follows, NamesIt, HeadAims
<1>3. CASE \/ BootLog \/ BootMain \/ doit \/ TurnBegins \/ ReapNone \/ Reaped \/ LoopEnd
           \/ (\E s \in Services, p \in Pids : ReapSvc(s, p))
  <2>1. fifo' = fifo /\ ~(pc = "controller" /\ fifo # <<>>)
    BY <1>3 DEF BootLog, BootMain, Boot, doit, TurnBegins, ReapNone, Reaped, LoopEnd, ReapSvc
  <2>. QED BY <1>2, <2>1
<1>4. CASE \/ (\E p \in Pids : ReapOther(p) \/ ChildExits(p)) \/ EditDirectory \/ Gone
           \/ UNCHANGED vars
  <2>1. fifo' = fifo /\ pc' = pc /\ cur' = cur
    BY <1>4 DEF ReapOther, ChildExits, EditDirectory, Gone, vars, thread
  <2>. QED BY <1>2, <2>1
<1>5. CASE SelectService
  <2>1. /\ Command({"L", "l"}) /\ Head(fifo).ch \in Choosing
        /\ cur' = IF Head(fifo).ch = "L" THEN "log" ELSE "main"
    BY <1>5 DEF SelectService, Command, Choosing
  <2>. QED BY <1>1, <2>1, CommandFifo
<1>6. CASE SelectGroup \/ Down \/ Up \/ Once \/ Signal \/ Pause \/ Exit
  <2>1. PICK chars : Command(chars) /\ chars \cap Choosing = {} /\ cur' = cur
    <3>1. SelectGroup => Command({"+", "="}) /\ cur' = cur
      BY DEF SelectGroup
    <3>2. Down => Command({"d"}) /\ cur' = cur
      BY DEF Down
    <3>3. Up => Command({"u"}) /\ cur' = cur
      BY DEF Up
    <3>4. Once => Command({"o"}) /\ cur' = cur
      BY DEF Once
    <3>5. Signal => Command({"a", "h", "k", "t", "i", "q", "1", "2", "w"}) /\ cur' = cur
      BY DEF Signal
    <3>6. Pause => Command({"p", "c"}) /\ cur' = cur
      BY DEF Pause
    <3>7. Exit => Command({"x"}) /\ cur' = cur
      BY DEF Exit
    <3>8. \A S \in {{"+", "="}, {"d"}, {"u"}, {"o"}, {"a", "h", "k", "t", "i", "q", "1", "2", "w"},
                    {"p", "c"}, {"x"}} : S \cap Choosing = {}
      BY DEF Choosing
    <3>. QED BY <1>6, <3>1, <3>2, <3>3, <3>4, <3>5, <3>6, <3>7, <3>8
  <2>2. Head(fifo).ch \notin Choosing
    BY <2>1 DEF Command
  <2>. QED BY <1>1, <2>1, <2>2, CommandFifo
<1>7. ASSUME NEW msg \in Requests, SvcWrites(msg) PROVE FifoInv'
  <2>1. msg \in Seq(Bytes) /\ fifo' = fifo \o Aimed(msg, "svc") /\ pc' = pc /\ cur' = cur
    BY <1>7, SuperviseAssumption DEF SvcWrites, thread
  <2>. QED BY <1>1, <2>1, WriteFifo
<1>8. ASSUME NEW sig \in Handled, CatchSignal(sig) PROVE FifoInv'
  <2>1. /\ HandlerBytes(sig) \in Seq(Bytes) /\ pc' = pc /\ cur' = cur
        /\ fifo' = fifo \o Aimed(HandlerBytes(sig), "handler") \/ fifo' = fifo
    BY <1>8, SuperviseAssumption, HandlerBytesType DEF CatchSignal, HandlerWrites, thread
  <2>. QED BY <1>1, <1>2, <2>1, WriteFifo
<1>. QED BY <1>3, <1>4, <1>5, <1>6, <1>7, <1>8 DEF Next, Turn, Environment, Wake, Timeout

(* If each svc command begins with "l", as svc.c makes it, then its bytes  *)
(* act on the service that it names, whatever supervise's own handlers and *)
(* other commands have written before it in the same call of controller(). *)
THEOREM OnTarget ==
  ASSUME \A msg \in Requests : msg = <<>> \/ msg[1] = "l"
  PROVE  Spec => SvcOnTarget
<1>1. FifoInv /\ [Next]_vars => FifoInv'
  BY FifoStep
<1>2. FifoInv
      => (pc = "controller" /\ fifo # <<>> /\ Head(fifo).from = "svc"
            /\ Head(fifo).ch \notin {"L", "l", "+", "="}
            => cur = Head(fifo).svc)
  <2>. SUFFICES ASSUME FifoInv, fifo # <<>>, Head(fifo).from = "svc",
                       Head(fifo).ch \notin {"L", "l"}
                PROVE  cur = Head(fifo).svc
    OBVIOUS
  <2>1. Head(fifo) = fifo[1]
    BY DEF FifoInv, TypeOK
  <2>. QED BY <2>1 DEF FifoInv, HeadAims, Choosing
<1>3. Init => FifoInv
  BY FifoInit
<1>. QED BY <1>1, <1>2, <1>3, PTL DEF Spec, SvcOnTarget

=============================================================================
