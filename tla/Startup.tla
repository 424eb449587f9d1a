------------------------------- MODULE Startup -------------------------------
(***************************************************************************)
(* The files of supervise/ that several processes share -- lock, status,   *)
(* control and ok -- and the order in which supervise's main() opens them: *)
(* supervises that are started twice, killed and started again, their      *)
(* children between fork() and the exec that closes the descriptors, svc,  *)
(* and the readers svok, svup and svstat.                                  *)
(*                                                                         *)
(* What a running supervise does with the bytes it reads and what it       *)
(* writes into status is module Supervise's; here a command is the svc     *)
(* that wrote it, and a status is the supervise that wrote it.             *)
(***************************************************************************)
EXTENDS Naturals, Sequences

CONSTANTS
  Supervises,  \* supervise processes of one service directory, used again and again
  Clients,     \* runs of svc
  Readers,     \* runs of svok, svup and svstat
  MaxDeaths    \* bound: how many supervises end or are killed

VARIABLES
  pc,          \* a supervise's place in Setup; 0: not running
  held,        \* the files it has open
  kept,        \* the files its child has open that has not yet executed its script
  status,      \* what supervise/status contains
  fifo,        \* the commands in supervise/control
  obeyed,      \* the commands that a supervise has read
  cpc,         \* svc's place
  rpc, answer, \* a reader's place, and what it got
  disturbed,   \* the clients and readers that have met a death, see Dies
  deaths

files   == <<held, kept>>
clients == <<cpc, obeyed>>
readers == <<rpc, answer>>
vars    == <<pc, files, status, fifo, clients, readers, disturbed, deaths>>

ASSUME StartupAssumption ==
  /\ Supervises \cap {"absent", "empty", "left"} = {}
  /\ Clients \cap Readers = {} /\ MaxDeaths \in Nat

-----------------------------------------------------------------------------
(* Mutants: a supervise without the lock truncates the status, or opens    *)
(* the fifo.                                                               *)
Setup_status  == <<"status", "lock", "control", "controlwrite", "announce", "ok">>
Setup_control == <<"control", "lock", "status", "controlwrite", "announce", "ok">>

(* What main() does before its first trystart(), step by step              *)
Setup == <<"lock", "status", "control", "controlwrite", "announce", "ok">>

Descriptors == {"lock", "status", "control", "controlwrite", "ok"}
Running(s)  == pc[s] = Len(Setup) + 1
At(s, step) == pc[s] \in 1..Len(Setup) /\ Setup[pc[s]] = step

(* Mutant: the lock is left open.                                          *)
CloseOnExec_lock == Descriptors \ {"lock"}

(* the descriptors given to closeonexec()                                  *)
CloseOnExec == Descriptors

(* A supervise, or a child that inherited it, has file f open.             *)
Open(f) == \E s \in Supervises : f \in held[s] \cup kept[s]

(* A supervise has file f open.                                            *)
Served(f) == \E s \in Supervises : f \in held[s]

(* The kernel frees what is in a fifo that nobody has open.                *)
Writing == {"opened", "written"}
Retained(f) ==
  IF \/ \E s \in Supervises : {"control", "controlwrite"} \cap (held'[s] \cup kept'[s]) # {}
     \/ \E c \in Clients : cpc'[c] \in Writing
  THEN f ELSE {}

-----------------------------------------------------------------------------
(* supervise *)

(* svscan, or somebody by hand, starts a supervise.                        *)
Begin(s) ==
  /\ pc[s] = 0 /\ pc' = [pc EXCEPT ![s] = 1]
  /\ UNCHANGED <<files, status, fifo, clients, readers, disturbed, deaths>>

Advance(s, new) ==
  /\ pc' = [pc EXCEPT ![s] = @ + 1]
  /\ held' = [held EXCEPT ![s] = @ \cup new]
  /\ UNCHANGED <<fifo, clients, readers, disturbed, deaths>>

Ends(s) == pc' = [pc EXCEPT ![s] = 0] /\ held' = [held EXCEPT ![s] = {}]

Lock(s) ==
  /\ At(s, "lock") /\ ~Open("lock")
  /\ Advance(s, {"lock"})
  /\ UNCHANGED <<kept, status>>

(* Another supervise, or a child of one, has the lock: supervise dies.     *)
LockFails(s) ==
  /\ At(s, "lock") /\ Open("lock")
  /\ Ends(s)
  /\ UNCHANGED <<kept, status, clients, readers, disturbed, deaths>>
  /\ fifo' = Retained(fifo)

OpenStatus(s) ==
  /\ At(s, "status")
  /\ Advance(s, {"status"})
  /\ status' = "empty" /\ UNCHANGED kept

OpenFifo(s) ==
  /\ \E f \in {"control", "controlwrite", "ok"} : At(s, f) /\ Advance(s, {f})
  /\ UNCHANGED <<kept, status>>

(* A child has what its parent has, until it executes its script.  (Bound: *)
(* one child of each supervise at a time is on the way to that.)           *)
Fork(s) == kept[s] = {} /\ kept' = [kept EXCEPT ![s] = held[s]]

(* pidchange(&svcmain,0,0,0): announce(), and a ./notify if there is one   *)
Announce(s) ==
  /\ At(s, "announce")
  /\ Advance(s, {})
  /\ status' = s
  /\ Fork(s) \/ UNCHANGED kept

(* trystart() and all later forks; the status stays this supervise's       *)
Start(s) ==
  /\ Running(s) /\ Fork(s)
  /\ UNCHANGED <<pc, held, status, fifo, clients, readers, disturbed, deaths>>

controller(s) ==
  /\ Running(s) /\ fifo # {}
  /\ obeyed' = obeyed \cup fifo /\ fifo' = {}
  /\ UNCHANGED <<pc, files, status, cpc, readers, disturbed, deaths>>

(* The child executes its script, or is killed first.                      *)
Exec(s) ==
  /\ kept[s] \cap CloseOnExec # {}
  /\ kept' = [kept EXCEPT ![s] = @ \ CloseOnExec]
  /\ UNCHANGED <<pc, held, status, clients, readers, disturbed, deaths>>
  /\ fifo' = Retained(fifo)

(* A supervise is killed, fails to open a file, or exits.  If it had the   *)
(* lock, those who have begun to talk to it are disturbed; the status that *)
(* it wrote is left behind.                                                *)
Dies(s) ==
  /\ pc[s] > 0 /\ deaths < MaxDeaths
  /\ Ends(s)
  /\ deaths' = deaths + 1
  /\ status' = IF status = s THEN "left" ELSE status
  /\ disturbed' = IF "lock" \notin held[s] THEN disturbed
                  ELSE disturbed \cup {c \in Clients : cpc[c] # "idle"}
                                 \cup {r \in Readers : rpc[r] # "idle"}
  /\ UNCHANGED <<kept, clients, readers>>
  /\ fifo' = Retained(fifo)

-----------------------------------------------------------------------------
(* svc *)

(* A fifo opened for writing and O_NDELAY needs a reader.                  *)
SvcOpens(c) ==
  /\ cpc[c] = "idle"
  /\ cpc' = [cpc EXCEPT ![c] = IF Open("control") THEN "opened" ELSE "refused"]
  /\ disturbed' = IF Served("control") THEN disturbed ELSE disturbed \cup {c}
  /\ UNCHANGED <<pc, files, status, fifo, obeyed, readers, deaths>>

(* Without a reader the write fails with EPIPE.                            *)
SvcWrites(c) ==
  /\ cpc[c] = "opened"
  /\ cpc' = [cpc EXCEPT ![c] = IF Open("control") THEN "written" ELSE "failed"]
  /\ UNCHANGED <<pc, files, status, obeyed, readers, disturbed, deaths>>
  /\ fifo' = IF Open("control") THEN fifo \cup {c} ELSE Retained(fifo)

SvcCloses(c) ==
  /\ cpc[c] = "written"
  /\ cpc' = [cpc EXCEPT ![c] = "closed"]
  /\ UNCHANGED <<pc, files, status, obeyed, readers, disturbed, deaths>>
  /\ fifo' = Retained(fifo)

-----------------------------------------------------------------------------
(* svok, svup and svstat *)

(* Opening ok tells whether supervise is running.  svok goes no further.   *)
ReaderOpens(r) ==
  /\ rpc[r] = "idle"
  /\ rpc' = [rpc EXCEPT ![r] = IF Open("ok") THEN "opened" ELSE "done"]
  /\ disturbed' = IF Served("ok") THEN disturbed ELSE disturbed \cup {r}
  /\ UNCHANGED <<pc, files, status, fifo, clients, answer, deaths>>

ReaderReads(r) ==
  /\ rpc[r] = "opened"
  /\ rpc' = [rpc EXCEPT ![r] = "done"]
  /\ answer' = [answer EXCEPT ![r] = status]
  /\ UNCHANGED <<pc, files, status, fifo, clients, disturbed, deaths>>

-----------------------------------------------------------------------------
Init ==
  /\ pc = [s \in Supervises |-> 0]
  /\ held = [s \in Supervises |-> {}] /\ kept = [s \in Supervises |-> {}]
  /\ status = "absent" /\ fifo = {} /\ obeyed = {}
  /\ cpc = [c \in Clients |-> "idle"]
  /\ rpc = [r \in Readers |-> "idle"] /\ answer = [r \in Readers |-> "none"]
  /\ disturbed = {} /\ deaths = 0

Main(s) == \/ Lock(s) \/ LockFails(s) \/ OpenStatus(s) \/ OpenFifo(s) \/ Announce(s)

Next ==
  \/ \E s \in Supervises : \/ Begin(s) \/ Main(s) \/ Start(s) \/ controller(s)
                           \/ Exec(s) \/ Dies(s)
  \/ \E c \in Clients : SvcOpens(c) \/ SvcWrites(c) \/ SvcCloses(c)
  \/ \E r \in Readers : ReaderOpens(r) \/ ReaderReads(r)

Spec == Init /\ [][Next]_vars

(* svscan starts a supervise whenever its last one has ended, and          *)
(* processes run; svc runs on once it has begun.                           *)
Fairness ==
  /\ WF_vars(\E s \in Supervises : Begin(s))
  /\ \A s \in Supervises : WF_vars(Main(s)) /\ WF_vars(controller(s)) /\ WF_vars(Exec(s))
  /\ \A c \in Clients : WF_vars(SvcWrites(c)) /\ WF_vars(SvcCloses(c))

FairSpec == Spec /\ Fairness

-----------------------------------------------------------------------------
(* Properties *)

(* Every variable holds a value of its type.                               *)
TypeOK ==
  /\ pc \in [Supervises -> 0..Len(Setup) + 1]
  /\ held \in [Supervises -> SUBSET Descriptors] /\ kept \in [Supervises -> SUBSET Descriptors]
  /\ status \in {"absent", "empty", "left"} \cup Supervises
  /\ fifo \subseteq Clients /\ obeyed \subseteq Clients
  /\ cpc \in [Clients -> {"idle", "opened", "refused", "written", "failed", "closed"}]
  /\ rpc \in [Readers -> {"idle", "opened", "done"}]
  /\ answer \in [Readers -> {"none", "absent", "empty", "left"} \cup Supervises]
  /\ disturbed \subseteq Clients \cup Readers /\ deaths \in 0..MaxDeaths

(* Once svok, svup or svstat has seen a live supervise's ok, and until     *)
(* that supervise dies, the status it reads is that supervise's, neither   *)
(* empty nor a dead one's, and svc is not refused: whatever other          *)
(* supervises are started in the directory meanwhile.                      *)
OkMeansReady ==
  \A r \in Readers : rpc[r] # "idle" /\ r \notin disturbed =>
    /\ \E s \in Supervises : {"lock", "control", "ok"} \subseteq held[s] /\ status = s
    /\ answer[r] \in {"none"} \cup Supervises

(* A command that svc could write is read by a supervise, though it may    *)
(* come while supervise starts and others try to; unless that supervise    *)
(* dies, or there was none but a dead one's child when svc began.          *)
CommandsRead ==
  \A c \in Clients : cpc[c] = "written" ~> c \in obeyed \cup disturbed

(* After deaths at any point there is again a supervise that runs: the     *)
(* children that outlive a dead one do not keep the lock.                  *)
Recovers == []<>(\E s \in Supervises : Running(s))

=============================================================================
