------------------------------- MODULE Shutdown -------------------------------
(***************************************************************************)
(* svscan stopping one service: the svscan process of module Svscan with   *)
(* the supervise process of module Supervise as its only child.  svscan    *)
(* got SIGTERM, or will; it sends SIGTERM to supervise in every turn, one  *)
(* second after the other, until supervise has exited.  A SIGTERM may come *)
(* at any time of supervise's life, before it is ready for one too.        *)
(***************************************************************************)
EXTENDS Supervise

VARIABLES
  entry, x, logx, all_stopped, exit_asap, redirected, fn, st, unread, due, edits, failures,
  gone,
  scanpc,   \* pc of svscan
  scancur,  \* cur of svscan
  kid,      \* child of svscan; kid["supervise"].termed: SIGTERM is pending
  setup     \* how far that child has come: "forked" by svscan, whose handler it
            \* inherits; "default", main() without handlers; "caught", with handlers
            \* but without fdcontrolwrite; "done", ready; or "over", it has failed

Scan == INSTANCE Svscan WITH
  Names <- {"service"}, Dirs <- {"service"}, NoDir <- "none", Logged <- {},
  logdir <- "none", NoName <- "none", Pids <- {"supervise"}, NoPid <- "none",
  Pipes <- {}, NoPipe <- "none", SERVICES <- 1,
  MaxEdits <- 0, MaxFailures <- 0, Changes <- {},
  pc <- scanpc, cur <- scancur, child <- kid

scanvars == <<entry, x, logx, all_stopped, exit_asap, redirected, scanpc, fn, st, scancur, unread,
              due, kid, edits, failures, gone>>
all      == <<vars, scanvars, setup>>

(* svscan has just started supervise.                                      *)
ShutdownInit ==
  /\ Init /\ setup = "forked"
  /\ entry = [n \in {"service"} |-> "service"]
  /\ kid = [p \in {"supervise"} |-> Scan!Supervise("service", "main", "service", "none", FALSE)]
  /\ x = <<[dir |-> "service", flagactive |-> TRUE, flaglog |-> FALSE,
            pid |-> "supervise", pidlog |-> "none", pi |-> "none"]>>
  /\ logx = 0 /\ all_stopped = FALSE /\ exit_asap = FALSE /\ redirected = FALSE
  /\ scanpc = "test" /\ fn = "none" /\ st = "none" /\ scancur = 1 /\ unread = {} /\ due = {}
  /\ edits = 0 /\ failures = 0 /\ gone = {}

Running == kid["supervise"].state = "live"

(* A supervise that did not come through its set-up is started again.      *)
Scanning == /\ Scan!Step /\ UNCHANGED vars
            /\ setup' = IF ~Running /\ Running' THEN "forked" ELSE setup

Stopping == Scan!catch_sig /\ UNCHANGED <<vars, setup>>

(* The next part of main()'s set-up succeeds: execve(), up to sig_catch(), *)
(* from chdir() up to the open of fdcontrolwrite.                          *)
SetUp ==
  /\ Running /\ setup # "done"
  /\ setup' = CASE setup = "forked" -> "default" [] setup = "default" -> "caught"
               [] setup = "caught" -> "done"
  /\ IF setup' = "done" THEN Scan!ChildEnters("supervise") ELSE UNCHANGED scanvars
  /\ UNCHANGED vars

(* Or it does not: another supervise has the lock, say.                    *)
SetUpFails ==
  /\ Running /\ setup # "done" /\ setup' = "over"
  /\ Scan!ChildExits("supervise") /\ UNCHANGED vars

(* The pending SIGTERM arrives.  svscan's own handler sets a variable of   *)
(* the forked process; without a handler, the process ends; supervise's    *)
(* terminate() writes to descriptor 0 as long as fdcontrolwrite is 0.      *)
Arrives == /\ Running /\ kid["supervise"].termed
           /\ kid' = [kid EXCEPT !["supervise"].termed = FALSE]
           /\ UNCHANGED <<entry, x, logx, all_stopped, exit_asap, redirected, fn, st, unread, due,
                          edits, failures, gone, scanpc, scancur, setup>>

Terminate ==
  \/ setup = "forked"  /\ Arrives /\ UNCHANGED vars
  \/ setup = "default" /\ Running /\ kid["supervise"].termed
       /\ Scan!ChildExits("supervise") /\ setup' = "over" /\ UNCHANGED vars
  \/ setup = "caught"  /\ Arrives /\ wake' = TRUE /\ UNCHANGED <<thread, dir, fifo, child, writes>>
  \/ setup = "done"    /\ Arrives /\ HandlerWrites("TERM") /\ UNCHANGED writes

(* A step of supervise is its exit, or svscan does not see it.             *)
Seen == /\ setup = "done" /\ UNCHANGED setup
        /\ IF pc # "done" /\ pc' = "done" THEN Scan!ChildExits("supervise") ELSE UNCHANGED scanvars

Supervising == (Turn \/ Timeout) /\ Seen
Meanwhile   == setup = "done" /\ Environment /\ UNCHANGED <<scanvars, setup>>

Finished == scanpc = "done" /\ UNCHANGED all

ShutdownNext == Scanning \/ Stopping \/ SetUp \/ SetUpFails \/ Terminate \/ Supervising \/ Meanwhile \/ Finished

ShutdownSpec == ShutdownInit /\ [][ShutdownNext]_all

(* Both programs keep running, signals are delivered, and children end as  *)
(* in module Supervise.  svscan sleeps a second between two SIGTERMs: they *)
(* do not keep controller() from ever emptying the fifo.                   *)
ShutdownFairness ==
  /\ WF_all(Scanning) /\ WF_all(Terminate) /\ WF_all(SetUp)
  /\ WF_all(Turn /\ Seen) /\ WF_all(Timeout /\ Seen) /\ SF_all(LoopEnd /\ Seen)
  /\ []<>(pc = "controller" => fifo = <<>>)
  /\ \A p \in Pids : /\ WF_all(MustExit(child[p]) /\ ChildExits(p) /\ UNCHANGED <<scanvars, setup>>)
                     /\ SF_all((ReapOther(p) \/ \E s \in Services : ReapSvc(s, p)) /\ Seen)

FairShutdown == ShutdownSpec /\ ShutdownFairness

-----------------------------------------------------------------------------
(* After SIGTERM svscan exits, although it sends its child SIGTERM after   *)
(* SIGTERM while that stops the service and its logger, and although any   *)
(* of them may be lost: it comes too early, or the fifo is full.  That is  *)
(* so for directories without ./stop: while ./stop runs each SIGTERM goes  *)
(* to it, and the two need not end (Shutdown_stop.cfg).                    *)
ShutsDown == exit_asap ~> scanpc = "done"
=============================================================================
