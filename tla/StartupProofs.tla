---------------------------- MODULE StartupProofs ----------------------------
(***************************************************************************)
(* Theorems about Startup, for any number of supervises, svcs and readers, *)
(* and any number of deaths.                                               *)
(***************************************************************************)
EXTENDS Startup, TLAPS

(* The places in Setup, as numbers                                         *)
LEMMA Places ==
  ASSUME TypeOK, NEW s \in Supervises
  PROVE  /\ pc[s] \in 0..7
         /\ Running(s) <=> pc[s] = 7
         /\ At(s, "lock") <=> pc[s] = 1
         /\ At(s, "status") <=> pc[s] = 2
         /\ At(s, "control") <=> pc[s] = 3
         /\ At(s, "controlwrite") <=> pc[s] = 4
         /\ At(s, "announce") <=> pc[s] = 5
         /\ At(s, "ok") <=> pc[s] = 6
<1>1. Len(Setup) = 6 /\ pc[s] \in 0..7
  BY DEF Setup, TypeOK
<1>2. /\ Setup[1] = "lock" /\ Setup[2] = "status" /\ Setup[3] = "control"
      /\ Setup[4] = "controlwrite" /\ Setup[5] = "announce" /\ Setup[6] = "ok"
  BY DEF Setup
<1>3. \A i \in 1..6 : i = 1 \/ i = 2 \/ i = 3 \/ i = 4 \/ i = 5 \/ i = 6
  OBVIOUS
<1>. HIDE DEF Setup
<1>. QED BY <1>1, <1>2, <1>3 DEF At, Running

-----------------------------------------------------------------------------
(* Types *)

LEMMA RetainedType ==
  ASSUME NEW f \in SUBSET Clients PROVE Retained(f) \in SUBSET Clients
BY DEF Retained

LEMMA AdvanceType ==
  ASSUME TypeOK, NEW s \in Supervises, pc[s] \in 1..6, NEW new \in SUBSET Descriptors,
         Advance(s, new)
  PROVE  pc' \in [Supervises -> 0..Len(Setup) + 1] /\ held' \in [Supervises -> SUBSET Descriptors]
<1>1. Len(Setup) = 6
  BY DEF Setup
<1>. QED BY <1>1 DEF Advance, TypeOK

LEMMA EndsType ==
  ASSUME TypeOK, NEW s \in Supervises, Ends(s)
  PROVE  pc' \in [Supervises -> 0..Len(Setup) + 1] /\ held' \in [Supervises -> SUBSET Descriptors]
<1>1. Len(Setup) = 6
  BY DEF Setup
<1>. QED BY <1>1 DEF Ends, TypeOK

LEMMA TypesKept == ASSUME TypeOK, [Next]_vars PROVE TypeOK'
<1>1. ASSUME NEW s \in Supervises, Begin(s) PROVE TypeOK'
  <2>1. Len(Setup) = 6
    BY DEF Setup
  <2>. QED BY <1>1, <2>1 DEF Begin, TypeOK, files, clients, readers
<1>2. ASSUME NEW s \in Supervises, Lock(s) PROVE TypeOK'
  <2>1. pc[s] \in 1..6 /\ {"lock"} \in SUBSET Descriptors
    BY <1>2, Places DEF Lock, Descriptors
  <2>. QED BY <1>2, <2>1, AdvanceType DEF Lock, Advance, TypeOK, clients, readers
<1>3. ASSUME NEW s \in Supervises, LockFails(s) PROVE TypeOK'
  BY <1>3, EndsType, RetainedType DEF LockFails, TypeOK, clients, readers
<1>4. ASSUME NEW s \in Supervises, OpenStatus(s) PROVE TypeOK'
  <2>1. pc[s] \in 1..6 /\ {"status"} \in SUBSET Descriptors
    BY <1>4, Places DEF OpenStatus, Descriptors
  <2>. QED BY <1>4, <2>1, AdvanceType DEF OpenStatus, Advance, TypeOK, clients, readers
<1>5. ASSUME NEW s \in Supervises, OpenFifo(s) PROVE TypeOK'
  <2>1. PICK f \in {"control", "controlwrite", "ok"} : At(s, f) /\ Advance(s, {f})
    BY <1>5 DEF OpenFifo
  <2>2. pc[s] \in 1..6 /\ {f} \in SUBSET Descriptors
    BY <2>1, Places DEF Descriptors
  <2>. QED BY <1>5, <2>1, <2>2, AdvanceType DEF OpenFifo, Advance, TypeOK, clients, readers
<1>6. ASSUME NEW s \in Supervises, Announce(s) PROVE TypeOK'
  <2>1. pc[s] \in 1..6 /\ {} \in SUBSET Descriptors
    BY <1>6, Places DEF Announce
  <2>2. kept' \in [Supervises -> SUBSET Descriptors]
    BY <1>6 DEF Announce, Fork, TypeOK
  <2>. QED BY <1>6, <2>1, <2>2, AdvanceType DEF Announce, Advance, TypeOK, clients, readers
<1>7. ASSUME NEW s \in Supervises, Start(s) PROVE TypeOK'
  BY <1>7 DEF Start, Fork, TypeOK, clients, readers
<1>8. ASSUME NEW s \in Supervises, controller(s) PROVE TypeOK'
  BY <1>8 DEF controller, TypeOK, files, readers
<1>9. ASSUME NEW s \in Supervises, Exec(s) PROVE TypeOK'
  <2>1. kept' \in [Supervises -> SUBSET Descriptors]
    BY <1>9 DEF Exec, TypeOK
  <2>. QED BY <1>9, <2>1, RetainedType DEF Exec, TypeOK, clients, readers
<1>10. ASSUME NEW s \in Supervises, Dies(s) PROVE TypeOK'
  <2>1. disturbed' \subseteq Clients \cup Readers /\ deaths' \in 0..MaxDeaths
    BY <1>10, StartupAssumption DEF Dies, TypeOK
  <2>2. status' \in {"absent", "empty", "left"} \cup Supervises
    BY <1>10 DEF Dies, TypeOK
  <2>. QED BY <1>10, <2>1, <2>2, EndsType, RetainedType DEF Dies, TypeOK, clients, readers
<1>11. ASSUME NEW c \in Clients, SvcOpens(c) PROVE TypeOK'
  BY <1>11 DEF SvcOpens, TypeOK, files, readers
<1>12. ASSUME NEW c \in Clients, SvcWrites(c) PROVE TypeOK'
  <2>1. fifo' \in SUBSET Clients
    BY <1>12, RetainedType DEF SvcWrites, TypeOK
  <2>. QED BY <1>12, <2>1 DEF SvcWrites, TypeOK, files, readers
<1>13. ASSUME NEW c \in Clients, SvcCloses(c) PROVE TypeOK'
  BY <1>13, RetainedType DEF SvcCloses, TypeOK, files, readers
<1>14. ASSUME NEW r \in Readers, ReaderOpens(r) PROVE TypeOK'
  BY <1>14 DEF ReaderOpens, TypeOK, files, clients
<1>15. ASSUME NEW r \in Readers, ReaderReads(r) PROVE TypeOK'
  BY <1>15 DEF ReaderReads, TypeOK, files, clients
<1>16. ASSUME UNCHANGED vars PROVE TypeOK'
  BY <1>16 DEF vars, files, clients, readers, TypeOK
<1>. QED BY <1>1, <1>2, <1>3, <1>4, <1>5, <1>6, <1>7, <1>8, <1>9, <1>10, <1>11, <1>12, <1>13,
            <1>14, <1>15, <1>16 DEF Next, Main

(* Every variable holds a value of its type, whatever happens.            *)
THEOREM StartupTypes == Spec => []TypeOK
<1>1. Init => TypeOK
  BY StartupAssumption DEF Init, TypeOK
<1>2. TypeOK /\ [Next]_vars => TypeOK'
  BY TypesKept
<1>. QED BY <1>1, <1>2, PTL DEF Spec

-----------------------------------------------------------------------------
(* The lock, and what having it means *)

(* The files of a supervise are those of the steps behind it.              *)
Ordered ==
  \A s \in Supervises : /\ "lock" \in held[s] <=> pc[s] > 1
                        /\ "control" \in held[s] <=> pc[s] > 3
                        /\ "ok" \in held[s] <=> pc[s] > 6

(* Nobody has the lock of a supervise but itself and its own child.        *)
Exclusive ==
  \A s, t \in Supervises : "lock" \in held[s] /\ "lock" \in held[t] \cup kept[t] => s = t

(* A supervise that has announced itself is the one whose status is there. *)
Named == \A s \in Supervises : pc[s] > 5 => status = s

Owned == Ordered /\ Exclusive /\ Named

LEMMA AdvanceOrdered ==
  ASSUME TypeOK, Owned, NEW s \in Supervises, NEW new \in SUBSET Descriptors, Advance(s, new),
         pc[s] \in 1..6,
         "lock" \in new <=> pc[s] = 1, "control" \in new <=> pc[s] = 3, "ok" \in new <=> pc[s] = 6
  PROVE  Ordered'
<1>. SUFFICES ASSUME NEW t \in Supervises
              PROVE  /\ "lock" \in held'[t] <=> pc'[t] > 1
                     /\ "control" \in held'[t] <=> pc'[t] > 3
                     /\ "ok" \in held'[t] <=> pc'[t] > 6
  BY DEF Ordered
<1>1. pc[t] \in 0..7
  BY Places
<1>2. CASE t = s
  BY <1>2 DEF Owned, Ordered, Advance, TypeOK
<1>3. CASE t # s
  BY <1>3 DEF Owned, Ordered, Advance, TypeOK
<1>. QED BY <1>2, <1>3

(* Beyond its first step, no other supervise has the lock, has opened      *)
(* control or has announced itself.                                        *)
LEMMA Alone ==
  ASSUME TypeOK, Owned, NEW s \in Supervises, pc[s] > 1, NEW t \in Supervises, t # s
  PROVE  pc[t] \in 0..1 /\ "lock" \notin held[t] \cup kept[t]
<1>1. pc[s] \in 0..7 /\ pc[t] \in 0..7
  BY Places
<1>. QED BY <1>1 DEF Owned, Ordered, Exclusive

LEMMA EndsOwned ==
  ASSUME TypeOK, Owned, NEW s \in Supervises, Ends(s), kept' = kept,
         status # s => status' = status
  PROVE  Owned'
<1>1. Ordered'
  BY DEF Owned, Ordered, Ends, TypeOK
<1>2. Exclusive'
  BY DEF Owned, Exclusive, Ends, TypeOK
<1>3. Named'
  BY DEF Owned, Named, Ends, TypeOK
<1>. QED BY <1>1, <1>2, <1>3 DEF Owned

LEMMA OwnedKept == ASSUME TypeOK, Owned, [Next]_vars PROVE Owned'
<1>1. ASSUME NEW s \in Supervises, Begin(s) PROVE Owned'
  BY <1>1 DEF Begin, Owned, Ordered, Exclusive, Named, TypeOK, files
<1>2. ASSUME NEW s \in Supervises, Lock(s) PROVE Owned'
  <2>1. pc[s] = 1 /\ {"lock"} \in SUBSET Descriptors
    BY <1>2, Places DEF Lock, Descriptors
  <2>2. Ordered'
    BY <1>2, <2>1, AdvanceOrdered DEF Lock
  <2>3. \A t \in Supervises : "lock" \notin held[t] \cup kept[t]
    BY <1>2 DEF Lock, Open
  <2>4. Exclusive'
    BY <1>2, <2>3 DEF Lock, Advance, Exclusive, TypeOK
  <2>5. Named'
    BY <1>2, <2>1 DEF Lock, Advance, Owned, Named, TypeOK
  <2>. QED BY <2>2, <2>4, <2>5 DEF Owned
<1>3. ASSUME NEW s \in Supervises, LockFails(s) PROVE Owned'
  BY <1>3, EndsOwned DEF LockFails
<1>4. ASSUME NEW s \in Supervises, OpenStatus(s) PROVE Owned'
  <2>1. pc[s] = 2 /\ {"status"} \in SUBSET Descriptors
    BY <1>4, Places DEF OpenStatus, Descriptors
  <2>2. Ordered'
    BY <1>4, <2>1, AdvanceOrdered DEF OpenStatus
  <2>3. Exclusive'
    BY <1>4 DEF OpenStatus, Advance, Owned, Exclusive, TypeOK
  <2>4. ASSUME NEW t \in Supervises PROVE pc'[t] \in 0..3
    <3>1. t # s => pc[t] \in 0..1
      BY <2>1, Alone
    <3>. QED BY <1>4, <2>1, <3>1 DEF OpenStatus, Advance, TypeOK
  <2>5. Named'
    BY <2>4 DEF Named
  <2>. QED BY <2>2, <2>3, <2>5 DEF Owned
<1>5. ASSUME NEW s \in Supervises, OpenFifo(s) PROVE Owned'
  <2>1. PICK f \in {"control", "controlwrite", "ok"} : At(s, f) /\ Advance(s, {f})
    BY <1>5 DEF OpenFifo
  <2>2. /\ pc[s] \in {3, 4, 6} /\ {f} \in SUBSET Descriptors
        /\ f = "control" <=> pc[s] = 3
        /\ f = "ok" <=> pc[s] = 6
    BY <2>1, Places DEF Descriptors
  <2>3. Ordered'
    BY <2>1, <2>2, AdvanceOrdered
  <2>4. Exclusive'
    BY <1>5, <2>1 DEF OpenFifo, Advance, Owned, Exclusive, TypeOK
  <2>5. Named'
    BY <1>5, <2>1, <2>2 DEF OpenFifo, Advance, Owned, Named, TypeOK
  <2>. QED BY <2>3, <2>4, <2>5 DEF Owned
<1>6. ASSUME NEW s \in Supervises, Announce(s) PROVE Owned'
  <2>1. pc[s] = 5 /\ {} \in SUBSET Descriptors
    BY <1>6, Places DEF Announce
  <2>2. Ordered'
    BY <1>6, <2>1, AdvanceOrdered DEF Announce
  <2>3. /\ \A t \in Supervises : t # s => "lock" \notin held'[t] \cup kept'[t]
        /\ \A t \in Supervises : t # s => pc'[t] \in 0..1
    BY <1>6, <2>1, Alone DEF Announce, Advance, Fork, TypeOK
  <2>4. Exclusive'
    BY <2>3 DEF Exclusive
  <2>5. Named'
    BY <1>6, <2>3 DEF Announce, Named
  <2>. QED BY <2>2, <2>4, <2>5 DEF Owned
<1>7. ASSUME NEW s \in Supervises, Start(s) PROVE Owned'
  <2>1. pc[s] = 7
    BY <1>7, Places DEF Start
  <2>2. \A t \in Supervises : t # s => "lock" \notin held'[t] \cup kept'[t]
    BY <1>7, <2>1, Alone DEF Start, Fork, TypeOK
  <2>3. Exclusive'
    BY <2>2 DEF Exclusive
  <2>. QED BY <1>7, <2>3 DEF Start, Owned, Ordered, Named
<1>8. ASSUME NEW s \in Supervises, Exec(s) PROVE Owned'
  <2>1. \A t \in Supervises : kept'[t] \subseteq kept[t]
    BY <1>8 DEF Exec, TypeOK
  <2>. QED BY <1>8, <2>1 DEF Exec, Owned, Ordered, Exclusive, Named
<1>9. ASSUME NEW s \in Supervises, Dies(s) PROVE Owned'
  BY <1>9, EndsOwned DEF Dies
<1>10. ASSUME UNCHANGED <<pc, held, kept, status>> PROVE Owned'
  BY <1>10 DEF Owned, Ordered, Exclusive, Named
<1>11. CASE \/ \E s \in Supervises : controller(s)
            \/ \E c \in Clients : SvcOpens(c) \/ SvcWrites(c) \/ SvcCloses(c)
            \/ \E r \in Readers : ReaderOpens(r) \/ ReaderReads(r)
            \/ UNCHANGED vars
  BY <1>10, <1>11 DEF controller, SvcOpens, SvcWrites, SvcCloses, ReaderOpens, ReaderReads,
     vars, files
<1>. QED BY <1>1, <1>2, <1>3, <1>4, <1>5, <1>6, <1>7, <1>8, <1>9, <1>11 DEF Next, Main

-----------------------------------------------------------------------------
(* What a reader may conclude *)

(* Who has read nothing has no answer.                                     *)
Unanswered == \A r \in Readers : rpc[r] # "done" => answer[r] = "none"

Inv == TypeOK /\ Owned /\ Unanswered /\ OkMeansReady

(* A reader that nothing disturbs has a supervise, and its status.         *)
LEMMA Sees ==
  ASSUME Inv, NEW r \in Readers, rpc[r] # "idle", r \notin disturbed
  PROVE  /\ \E s \in Supervises : {"lock", "control", "ok"} \subseteq held[s] /\ status = s
         /\ answer[r] \in {"none"} \cup Supervises
BY DEF Inv, OkMeansReady

(* Whoever has ok open is past all steps, and is the one in status.        *)
LEMMA Ready ==
  ASSUME TypeOK, Owned, NEW s \in Supervises, "ok" \in held[s]
  PROVE  {"lock", "control", "ok"} \subseteq held[s] /\ status = s
<1>1. pc[s] \in 0..7 /\ pc[s] > 6
  BY Places DEF Owned, Ordered
<1>. QED BY <1>1 DEF Owned, Ordered, Named

(* Steps that close nothing of supervises and leave the status of one      *)
(* that is ready alone.                                                    *)
LEMMA Undisturbed ==
  ASSUME Inv, readers' = readers, disturbed' = disturbed,
         \A s \in Supervises : held[s] \subseteq held'[s],
         \A s \in Supervises : "ok" \in held[s] /\ status = s => status' = s
  PROVE  OkMeansReady'
<1>. SUFFICES ASSUME NEW r \in Readers, rpc[r] # "idle", r \notin disturbed
              PROVE  /\ \E s \in Supervises : {"lock", "control", "ok"} \subseteq held'[s] /\ status' = s
                     /\ answer[r] \in {"none"} \cup Supervises
  BY DEF OkMeansReady, readers
<1>1. PICK s \in Supervises : {"lock", "control", "ok"} \subseteq held[s] /\ status = s
  BY Sees
<1>2. {"lock", "control", "ok"} \subseteq held'[s] /\ status' = s
  BY <1>1
<1>. QED BY <1>2, Sees

LEMMA AdvanceKeeps ==
  ASSUME TypeOK, NEW s \in Supervises, NEW new, Advance(s, new)
  PROVE  /\ \A t \in Supervises : held[t] \subseteq held'[t]
         /\ readers' = readers /\ disturbed' = disturbed
<1>1. ASSUME NEW t \in Supervises PROVE held[t] \subseteq held'[t]
  <2>1. held'[t] = IF t = s THEN held[s] \cup new ELSE held[t]
    BY DEF Advance, TypeOK
  <2>. QED BY <2>1
<1>. QED BY <1>1 DEF Advance

LEMMA UnansweredKept == ASSUME TypeOK, Unanswered, [Next]_vars PROVE Unanswered'
<1>1. ASSUME NEW r \in Readers, ReaderOpens(r) \/ ReaderReads(r) PROVE Unanswered'
  BY <1>1 DEF ReaderOpens, ReaderReads, Unanswered, TypeOK
<1>2. ASSUME UNCHANGED readers PROVE Unanswered'
  BY <1>2 DEF readers, Unanswered
<1>. QED BY <1>1, <1>2 DEF Next, Main, Begin, Lock, LockFails, OpenStatus, OpenFifo, Announce,
     Start, controller, Exec, Dies, SvcOpens, SvcWrites, SvcCloses, Advance, vars

LEMMA ReadyKept == ASSUME Inv, [Next]_vars PROVE OkMeansReady'
<1>. USE DEF Inv
<1>1. ASSUME NEW s \in Supervises, Lock(s) \/ OpenFifo(s) PROVE OkMeansReady'
  <2>1. PICK new : Advance(s, new)
    BY <1>1 DEF Lock, OpenFifo
  <2>2. status' = status
    BY <1>1 DEF Lock, OpenFifo
  <2>. QED BY <2>1, <2>2, AdvanceKeeps, Undisturbed
<1>2. ASSUME NEW s \in Supervises, LockFails(s) PROVE OkMeansReady'
  <2>1. pc[s] = 1
    BY <1>2, Places DEF LockFails
  <2>2. "lock" \notin held[s] /\ "control" \notin held[s] /\ "ok" \notin held[s]
    BY <2>1 DEF Owned, Ordered
  <2>3. held' = [held EXCEPT ![s] = {}] /\ UNCHANGED <<status, readers, disturbed>>
    BY <1>2 DEF LockFails, Ends
  <2>. QED BY <2>2, <2>3 DEF OkMeansReady, readers, TypeOK
<1>3. ASSUME NEW s \in Supervises, OpenStatus(s) \/ Announce(s) PROVE OkMeansReady'
  <2>1. pc[s] \in {2, 5}
    BY <1>3, Places DEF OpenStatus, Announce
  <2>2. "ok" \notin held[s]
    BY <2>1 DEF Owned, Ordered
  <2>3. ASSUME NEW t \in Supervises PROVE "ok" \notin held[t]
    <3>1. CASE t = s
      BY <2>2, <3>1
    <3>2. CASE t # s
      <4>1. pc[t] \in 0..1
        BY <2>1, <3>2, Alone
      <4>. QED BY <4>1 DEF Owned, Ordered
    <3>. QED BY <3>1, <3>2
  <2>4. PICK new : Advance(s, new)
    BY <1>3 DEF OpenStatus, Announce
  <2>. QED BY <2>3, <2>4, AdvanceKeeps, Undisturbed
<1>4. ASSUME NEW s \in Supervises, Dies(s) PROVE OkMeansReady'
  <2>1. held' = [held EXCEPT ![s] = {}] /\ UNCHANGED readers
    BY <1>4 DEF Dies, Ends
  <2>2. CASE "lock" \in held[s]
    <3>1. \A r \in Readers : rpc[r] # "idle" => r \in disturbed'
      BY <1>4, <2>2 DEF Dies
    <3>. QED BY <2>1, <3>1 DEF OkMeansReady, readers
  <2>3. CASE "lock" \notin held[s]
    <3>1. disturbed' = disturbed /\ (status # s => status' = status)
      BY <1>4, <2>3 DEF Dies
    <3>. SUFFICES ASSUME NEW r \in Readers, rpc[r] # "idle", r \notin disturbed
                  PROVE  /\ \E t \in Supervises :
                              {"lock", "control", "ok"} \subseteq held'[t] /\ status' = t
                         /\ answer[r] \in {"none"} \cup Supervises
      BY <2>1, <3>1 DEF OkMeansReady, readers
    <3>2. PICK t \in Supervises : {"lock", "control", "ok"} \subseteq held[t] /\ status = t
      BY Sees
    <3>3. t # s
      BY <2>3, <3>2
    <3>4. {"lock", "control", "ok"} \subseteq held'[t] /\ status' = t
      BY <2>1, <3>1, <3>2, <3>3 DEF TypeOK
    <3>. QED BY <3>4, Sees
  <2>. QED BY <2>2, <2>3
<1>5. ASSUME NEW c \in Clients, SvcOpens(c) PROVE OkMeansReady'
  BY <1>5 DEF SvcOpens, OkMeansReady, files, readers
<1>6. ASSUME NEW r \in Readers, ReaderOpens(r) PROVE OkMeansReady'
  <2>. SUFFICES ASSUME NEW q \in Readers, rpc'[q] # "idle", q \notin disturbed'
                PROVE  /\ \E s \in Supervises :
                            {"lock", "control", "ok"} \subseteq held[s] /\ status = s
                       /\ answer[q] \in {"none"} \cup Supervises
    BY <1>6 DEF ReaderOpens, OkMeansReady, files
  <2>1. CASE q = r
    <3>1. PICK s \in Supervises : "ok" \in held[s]
      BY <1>6, <2>1 DEF ReaderOpens, Served
    <3>2. answer[q] = "none"
      BY <1>6, <2>1 DEF ReaderOpens, Unanswered
    <3>. QED BY <3>1, <3>2, Ready
  <2>2. CASE q # r
    <3>1. rpc[q] # "idle" /\ q \notin disturbed
      BY <1>6, <2>2 DEF ReaderOpens, TypeOK
    <3>. QED BY <3>1, Sees
  <2>. QED BY <2>1, <2>2
<1>7. ASSUME NEW r \in Readers, ReaderReads(r) PROVE OkMeansReady'
  <2>1. ASSUME NEW q \in Readers, rpc'[q] # "idle", q \notin disturbed'
        PROVE  /\ \E s \in Supervises :
                    {"lock", "control", "ok"} \subseteq held'[s] /\ status' = s
               /\ answer'[q] \in {"none"} \cup Supervises
    <3>1. rpc[q] # "idle" /\ q \notin disturbed
      BY <1>7, <2>1 DEF ReaderReads, TypeOK
    <3>2. PICK s \in Supervises : {"lock", "control", "ok"} \subseteq held[s] /\ status = s
      BY <3>1, Sees
    <3>3. answer'[q] \in {"none"} \cup Supervises
      BY <1>7, <3>1, <3>2, Sees DEF ReaderReads, TypeOK
    <3>. QED BY <1>7, <3>2, <3>3 DEF ReaderReads, files
  <2>. QED BY <2>1 DEF OkMeansReady
<1>8. ASSUME UNCHANGED <<held, status, readers, disturbed>> PROVE OkMeansReady'
  BY <1>8 DEF OkMeansReady, readers
<1>9. CASE \/ \E s \in Supervises : Begin(s) \/ Start(s) \/ controller(s) \/ Exec(s)
           \/ \E c \in Clients : SvcWrites(c) \/ SvcCloses(c)
           \/ UNCHANGED vars
  BY <1>8, <1>9 DEF Begin, Start, controller, Exec, SvcWrites, SvcCloses, vars, files
<1>. QED BY <1>1, <1>2, <1>3, <1>4, <1>5, <1>6, <1>7, <1>9 DEF Next, Main

(* A reader that has found ok in the hands of a live supervise reads that  *)
(* supervise's status, and svc is not refused, as long as it lives.        *)
THEOREM OkTells == Spec => []OkMeansReady
<1>1. Init => Inv
  BY StartupAssumption DEF Init, Inv, TypeOK, Owned, Ordered, Exclusive, Named, Unanswered,
     OkMeansReady
<1>2. Inv /\ [Next]_vars => Inv'
  BY TypesKept, OwnedKept, UnansweredKept, ReadyKept DEF Inv
<1>3. Inv => OkMeansReady
  BY DEF Inv
<1>. QED BY <1>1, <1>2, <1>3, PTL DEF Spec

(* At most one supervise of a service directory is ever past the lock, and *)
(* while a dead one's child still has it, none is.                         *)
THEOREM OneLock == Spec => []Exclusive
<1>1. Init => TypeOK /\ Owned
  BY StartupAssumption DEF Init, TypeOK, Owned, Ordered, Exclusive, Named
<1>2. TypeOK /\ Owned /\ [Next]_vars => TypeOK' /\ Owned'
  BY TypesKept, OwnedKept
<1>3. Owned => Exclusive
  BY DEF Owned
<1>. QED BY <1>1, <1>2, <1>3, PTL DEF Spec

=============================================================================
