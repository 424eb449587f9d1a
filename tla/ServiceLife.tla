----------------------------- MODULE ServiceLife -----------------------------
(***************************************************************************)
(* What supervise promises about one service, seen from outside: at most   *)
(* one script of the service is running at any time; it is started only    *)
(* when the last one has ended; a script that brings the service up starts *)
(* only while the service is not wanted down, ./stop only while it is not  *)
(* wanted up; and a script that runs ends before another takes its place.  *)
(***************************************************************************)
CONSTANTS
  UpScripts,    \* ./start and ./run, or ./log
  DownScripts,  \* ./stop, or none
  None          \* no script is running

VARIABLES
  goal,         \* what the administrator, or a failure, has asked for
  script        \* the script that is running

life == <<goal, script>>

Goals == {"up", "down", "once"}

LifeTypeOK == goal \in Goals /\ script \in UpScripts \cup DownScripts \cup {None}

LifeInit == goal \in {"up", "down"} /\ script = None

(* A command or a failure changes the goal and may start a script at once. *)
Begins == /\ script = None
          /\ goal' \in Goals
          /\ \/ goal' # "down" /\ script' \in UpScripts
             \/ goal' # "up" /\ script' \in DownScripts

GoalChanges == goal' \in Goals /\ UNCHANGED script

Ends == script # None /\ script' = None /\ UNCHANGED goal

LifeNext == Begins \/ GoalChanges \/ Ends

LifeSpec == LifeInit /\ [][LifeNext]_life
=============================================================================
