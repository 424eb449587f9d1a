----------------------------- MODULE SvscanProofs -----------------------------
(***************************************************************************)
(* Theorems about svscan, for any directories, names, pids and bounds:     *)
(* types, the correspondence of x with svscan's children, where these go   *)
(* and who meets in a directory, paired pipes, the order of the SIGTERMs,  *)
(* and that svscan is the last to exit.                                    *)
(***************************************************************************)
EXTENDS Svscan, SequenceTheorems, TLAPS

-----------------------------------------------------------------------------
(* The inductive invariant *)

Slot(e, role) == IF role = "main" THEN e.pid ELSE e.pidlog

(* No two entries of y are for one directory.                              *)
Distinct(y) == \A i, j \in DOMAIN y : y[i].dir = y[j].dir => i = j

(* Each pid in y is a child for this directory and role.                   *)
Valid(y, ch) ==
  \A i \in DOMAIN y, role \in Roles :
    Slot(y[i], role) # NoPid =>
      LET c == ch[Slot(y[i], role)]
      IN  c.state # "none" /\ c.role = role /\ c.dir = y[i].dir

(* Each child is in y.                                                     *)
Held(y, ch) ==
  \A p \in Pids : ch[p].state # "none"
    => \E i \in DOMAIN y : y[i].dir = ch[p].dir /\ Slot(y[i], ch[p].role) = p

(* A running child has the pipe of its entry.                              *)
Piped(y, ch) ==
  \A p \in Pids, i \in DOMAIN y :
    ch[p].state = "live" /\ y[i].dir = ch[p].dir => ch[p].pipe = y[i].pi

(* No two entries have the same pipe.                                      *)
Apart(y) == \A i, j \in DOMAIN y : y[i].pi = y[j].pi => i = j \/ y[i].pi = NoPipe

Consistent(y, ch) == Distinct(y) /\ Valid(y, ch) /\ Held(y, ch) /\ Piped(y, ch) /\ Apart(y)

(* Between the halves of start() cur is the entry that it is about; before *)
(* them, there is an entry or room for one.                                *)
Mains  == {"bootmain", "scanmain"}
Halves == {"bootlog", "scanlog"}
Halfway(y, at, i) == at \in Halves => i \in DOMAIN y
Within(y, at, f, s) ==
  /\ f \in Names \cup {NoName} /\ s \in Dirs \cup {NoDir}
  /\ at \in Mains \cup Halves => f \in Names
  /\ at \in Mains => s \in Dirs /\ (Len(y) < SERVICES \/ \E i \in DOMAIN y : y[i].dir = s)

Inv == /\ TypeOK
       /\ Consistent(x, child)
       /\ Halfway(x, pc, cur)
       /\ Within(x, pc, fn, st)
       /\ pc = "boot" => x = <<>>

(* What start() preserves                                                  *)
Core == /\ x \in Seq(Entry) /\ Len(x) <= SERVICES /\ child \in [Pids -> Child]
        /\ cur \in 1..SERVICES + 1 /\ all_stopped \in BOOLEAN /\ failures \in 0..MaxFailures
        /\ Consistent(x, child)
        /\ Halfway(x, pc, cur)
        /\ Within(x, pc, fn, st)

-----------------------------------------------------------------------------
(* Sequences of entries *)

LEMMA FunSeq == ASSUME NEW S, NEW n \in Nat, NEW f \in [1..n -> S]
                PROVE  f \in Seq(S) /\ Len(f) = n /\ DOMAIN f = 1..n
  OBVIOUS

LEMMA EntrySeq == ASSUME NEW y \in Seq(Entry)
                  PROVE  /\ DOMAIN y = 1..Len(y) /\ Len(y) \in Nat
                         /\ \A i \in DOMAIN y : y[i] \in Entry
  BY LenProperties, ElementOfSeq

LEMMA ExceptEntry == ASSUME NEW y \in Seq(Entry), NEW i \in DOMAIN y, NEW e \in Entry
                     PROVE  /\ [y EXCEPT ![i] = e] \in Seq(Entry)
                            /\ Len([y EXCEPT ![i] = e]) = Len(y)
                            /\ DOMAIN [y EXCEPT ![i] = e] = DOMAIN y
  BY EntrySeq, ExceptSeq

LEMMA NoPidOutside == NoPid \notin Pids
  BY SvscanAssumption

(* Entries that differ from those of y in flagactive and flaglog only      *)
Same(y, z) ==
  /\ DOMAIN z = DOMAIN y
  /\ \A i \in DOMAIN y : /\ z[i].dir = y[i].dir /\ z[i].pi = y[i].pi
                         /\ z[i].pid = y[i].pid /\ z[i].pidlog = y[i].pidlog

LEMMA SameConsistent ==
  ASSUME NEW y, NEW z, NEW ch \in [Pids -> Child], Same(y, z), Consistent(y, ch)
  PROVE  Consistent(z, ch)
<1>1. \A i \in DOMAIN z, role \in Roles : Slot(z[i], role) = Slot(y[i], role)
  BY DEF Same, Slot
<1>2. Distinct(z)
  BY DEF Same, Consistent, Distinct
<1>3. Valid(z, ch)
  BY <1>1 DEF Same, Consistent, Valid
<1>4. Held(z, ch)
  BY <1>1 DEF Same, Consistent, Held, Child
<1>5. Piped(z, ch)
  BY DEF Same, Consistent, Piped
<1>6. Apart(z)
  BY DEF Same, Consistent, Apart
<1>. QED BY <1>2, <1>3, <1>4, <1>5, <1>6 DEF Consistent

(* Children that differ from those of ch in where they are and in termed   *)
(* only, or that have become zombies                                       *)
SameChildren(ch, dh) ==
  \A p \in Pids : /\ dh[p].state = "none" <=> ch[p].state = "none"
                  /\ dh[p].state = "live" => ch[p].state = "live" /\ dh[p].pipe = ch[p].pipe
                  /\ dh[p].dir = ch[p].dir /\ dh[p].role = ch[p].role

LEMMA SameChildrenConsistent ==
  ASSUME NEW y \in Seq(Entry), NEW ch, NEW dh, SameChildren(ch, dh), Consistent(y, ch)
  PROVE  Consistent(y, dh)
<1>1. \A i \in DOMAIN y, role \in Roles : Slot(y[i], role) # NoPid => Slot(y[i], role) \in Pids
  BY EntrySeq DEF Slot, Entry
<1>2. Valid(y, dh)
  BY <1>1 DEF SameChildren, Consistent, Valid
<1>3. Held(y, dh)
  BY DEF SameChildren, Consistent, Held
<1>4. Piped(y, dh)
  BY DEF SameChildren, Consistent, Piped
<1>. QED BY <1>2, <1>3, <1>4 DEF Consistent

(* A new entry for a directory that has none                               *)
LEMMA GrowConsistent ==
  ASSUME NEW y \in Seq(Entry), NEW ch \in [Pids -> Child], Consistent(y, ch),
         NEW e \in Entry, e.pid = NoPid, e.pidlog = NoPid,
         \A i \in DOMAIN y : y[i].dir # e.dir /\ (y[i].pi # e.pi \/ e.pi = NoPipe)
  PROVE  Consistent(Append(y, e), ch)
<1>. DEFINE z == Append(y, e)
<1>1. /\ DOMAIN y = 1..Len(y) /\ Len(y) \in Nat
      /\ DOMAIN z = 1..Len(y) + 1
      /\ z[Len(y) + 1] = e
      /\ \A i \in DOMAIN y : z[i] = y[i]
  BY EntrySeq, AppendProperties
<1>. HIDE DEF z
<1>2. \A i \in DOMAIN z : i \in DOMAIN y \/ i = Len(y) + 1
  BY <1>1
<1>3. Distinct(z)
  BY <1>1, <1>2 DEF Consistent, Distinct
<1>4. Valid(z, ch)
  <2>. SUFFICES ASSUME NEW i \in DOMAIN z, NEW role \in Roles, Slot(z[i], role) # NoPid
                PROVE  LET c == ch[Slot(z[i], role)]
                       IN  c.state # "none" /\ c.role = role /\ c.dir = z[i].dir
    BY DEF Valid
  <2>1. i \in DOMAIN y
    BY <1>1, <1>2 DEF Slot
  <2>. QED BY <1>1, <2>1 DEF Consistent, Valid
<1>5. Held(z, ch)
  <2>1. \A i \in DOMAIN y : i \in DOMAIN z
    BY <1>1
  <2>. QED BY <1>1, <2>1 DEF Consistent, Held
<1>6. Piped(z, ch)
  <2>. SUFFICES ASSUME NEW p \in Pids, NEW i \in DOMAIN z,
                       ch[p].state = "live", z[i].dir = ch[p].dir
                PROVE  ch[p].pipe = z[i].pi
    BY DEF Piped
  <2>1. PICK j \in DOMAIN y : y[j].dir = ch[p].dir
    BY DEF Consistent, Held
  <2>2. i \in DOMAIN y
    BY <1>1, <1>2, <2>1
  <2>. QED BY <1>1, <2>2 DEF Consistent, Piped
<1>7. Apart(z)
  BY <1>1, <1>2 DEF Consistent, Apart
<1>. QED BY <1>3, <1>4, <1>5, <1>6, <1>7 DEF Consistent, z

(* z is y with p put into a slot of entry i.                               *)
Filled(y, z, i, role, p) ==
  /\ DOMAIN z = DOMAIN y
  /\ \A j \in DOMAIN y : /\ z[j].dir = y[j].dir /\ z[j].pi = y[j].pi
                         /\ \A r \in Roles : Slot(z[j], r) = IF j = i /\ r = role THEN p
                                                             ELSE Slot(y[j], r)

(* A new child in a free slot                                              *)
LEMMA FillConsistent ==
  ASSUME NEW y \in Seq(Entry), NEW ch \in [Pids -> Child], Consistent(y, ch),
         NEW i \in DOMAIN y, NEW role \in Roles, Slot(y[i], role) = NoPid,
         NEW p \in Pids, ch[p].state = "none",
         NEW c, c.state = "live", c.role = role, c.dir = y[i].dir, c.pipe = y[i].pi,
         NEW z, Filled(y, z, i, role, p),
         NEW dh, dh[p] = c, \A q \in Pids : q # p => dh[q] = ch[q]
  PROVE  Consistent(z, dh)
<1>1. /\ DOMAIN z = DOMAIN y
      /\ \A j \in DOMAIN y : /\ z[j].dir = y[j].dir /\ z[j].pi = y[j].pi
                             /\ \A r \in Roles : Slot(z[j], r) = IF j = i /\ r = role THEN p
                                                                 ELSE Slot(y[j], r)
  BY DEF Filled
<1>2. \A j \in DOMAIN y, r \in Roles : Slot(y[j], r) # p
  BY NoPidOutside, EntrySeq DEF Consistent, Valid
<1>3. \A j \in DOMAIN y, r \in Roles : Slot(y[j], r) \in Pids \cup {NoPid}
  BY EntrySeq DEF Slot, Entry
<1>4. Distinct(z)
  BY <1>1 DEF Consistent, Distinct
<1>5. Valid(z, dh)
  <2>. SUFFICES ASSUME NEW j \in DOMAIN y, NEW r \in Roles, Slot(z[j], r) # NoPid
                PROVE  /\ dh[Slot(z[j], r)].state # "none"
                       /\ dh[Slot(z[j], r)].role = r /\ dh[Slot(z[j], r)].dir = z[j].dir
    BY <1>1 DEF Valid
  <2>1. CASE j = i /\ r = role
    BY <1>1, <2>1
  <2>2. CASE ~(j = i /\ r = role)
    <3>1. Slot(z[j], r) = Slot(y[j], r) /\ Slot(y[j], r) \in Pids /\ Slot(y[j], r) # p
      BY <1>1, <1>2, <1>3, <2>2
    <3>. QED BY <1>1, <3>1 DEF Consistent, Valid
  <2>. QED BY <2>1, <2>2
<1>6. Held(z, dh)
  <2>. SUFFICES ASSUME NEW q \in Pids, dh[q].state # "none"
                PROVE  \E j \in DOMAIN y : z[j].dir = dh[q].dir /\ Slot(z[j], dh[q].role) = q
    BY <1>1 DEF Held
  <2>1. CASE q = p
    BY <1>1, <2>1
  <2>2. CASE q # p
    <3>1. dh[q] = ch[q] /\ ch[q].role \in Roles
      BY <1>1, <2>2 DEF Child
    <3>2. PICK j \in DOMAIN y : y[j].dir = ch[q].dir /\ Slot(y[j], ch[q].role) = q
      BY <3>1 DEF Consistent, Held
    <3>3. ~(j = i /\ ch[q].role = role)
      BY <3>2, NoPidOutside
    <3>. QED BY <1>1, <3>1, <3>2, <3>3
  <2>. QED BY <2>1, <2>2
<1>7. Piped(z, dh)
  <2>. SUFFICES ASSUME NEW q \in Pids, NEW j \in DOMAIN y,
                       dh[q].state = "live", z[j].dir = dh[q].dir
                PROVE  dh[q].pipe = z[j].pi
    BY <1>1 DEF Piped
  <2>1. CASE q = p
    BY <1>1, <2>1 DEF Consistent, Distinct
  <2>2. CASE q # p
    BY <1>1, <2>2 DEF Consistent, Piped
  <2>. QED BY <2>1, <2>2
<1>8. Apart(z)
  BY <1>1 DEF Consistent, Apart
<1>. QED BY <1>4, <1>5, <1>6, <1>7, <1>8 DEF Consistent

(* A child p is collected.                                                 *)
LEMMA CollectConsistent ==
  ASSUME NEW y \in Seq(Entry), NEW ch \in [Pids -> Child], Consistent(y, ch),
         NEW p \in Pids, NEW z, DOMAIN z = DOMAIN y,
         \A j \in DOMAIN y : /\ z[j].dir = y[j].dir /\ z[j].pi = y[j].pi
                             /\ \A r \in Roles : Slot(z[j], r) = IF Slot(y[j], r) = p THEN NoPid
                                                                 ELSE Slot(y[j], r)
  PROVE  Consistent(z, [ch EXCEPT ![p] = NoChild])
<1>. DEFINE dh == [ch EXCEPT ![p] = NoChild]
<1>1. dh[p].state = "none" /\ \A q \in Pids : q # p => dh[q] = ch[q]
  BY DEF NoChild
<1>. HIDE DEF dh
<1>2. \A j \in DOMAIN y, r \in Roles : Slot(y[j], r) \in Pids \cup {NoPid}
  BY EntrySeq DEF Slot, Entry
<1>3. Distinct(z)
  BY DEF Consistent, Distinct
<1>4. Valid(z, dh)
  <2>. SUFFICES ASSUME NEW j \in DOMAIN y, NEW r \in Roles, Slot(z[j], r) # NoPid
                PROVE  /\ dh[Slot(z[j], r)].state # "none"
                       /\ dh[Slot(z[j], r)].role = r /\ dh[Slot(z[j], r)].dir = z[j].dir
    BY DEF Valid
  <2>1. Slot(z[j], r) = Slot(y[j], r) /\ Slot(y[j], r) # p /\ Slot(y[j], r) \in Pids
    BY <1>2
  <2>. QED BY <1>1, <2>1 DEF Consistent, Valid
<1>5. Held(z, dh)
  <2>. SUFFICES ASSUME NEW q \in Pids, dh[q].state # "none"
                PROVE  \E j \in DOMAIN y : z[j].dir = dh[q].dir /\ Slot(z[j], dh[q].role) = q
    BY DEF Held
  <2>1. q # p /\ dh[q] = ch[q] /\ ch[q].role \in Roles
    BY <1>1 DEF Child
  <2>2. PICK j \in DOMAIN y : y[j].dir = ch[q].dir /\ Slot(y[j], ch[q].role) = q
    BY <2>1 DEF Consistent, Held
  <2>. QED BY <2>1, <2>2
<1>6. Piped(z, dh)
  BY <1>1 DEF Consistent, Piped
<1>7. Apart(z)
  BY DEF Consistent, Apart
<1>. QED BY <1>3, <1>4, <1>5, <1>6, <1>7 DEF Consistent, dh

(* An entry without children is deleted and the last one takes its place.  *)
LEMMA PruneConsistent ==
  ASSUME NEW y \in Seq(Entry), NEW ch \in [Pids -> Child], Consistent(y, ch),
         NEW i \in DOMAIN y, y[i].pid = NoPid, y[i].pidlog = NoPid
  PROVE  LET z == SubSeq([y EXCEPT ![i] = y[Len(y)]], 1, Len(y) - 1)
         IN  z \in Seq(Entry) /\ Len(z) = Len(y) - 1 /\ Consistent(z, ch)
<1>. DEFINE w == [y EXCEPT ![i] = y[Len(y)]]
            z == SubSeq(w, 1, Len(y) - 1)
            old(j) == IF j = i THEN Len(y) ELSE j
<1>1. /\ DOMAIN y = 1..Len(y) /\ Len(y) \in Nat /\ Len(y) >= 1
      /\ \A j \in DOMAIN y : y[j] \in Entry
  BY EntrySeq
<1>2. w \in Seq(Entry) /\ Len(w) = Len(y) /\ \A j \in DOMAIN y : w[j] = y[old(j)]
  BY <1>1, ExceptEntry, ExceptSeq
<1>3. \A j \in 1..Len(y) - 1 : w[j] \in Entry
  BY <1>1, <1>2
<1>. HIDE DEF w
<1>4. /\ z \in Seq(Entry) /\ Len(z) = Len(y) - 1
      /\ \A j \in 1..Len(y) - 1 : z[j] = w[j]
  BY <1>1, <1>3, SubSeqProperties
<1>5. DOMAIN z = 1..Len(y) - 1
  BY <1>4, EntrySeq
<1>. HIDE DEF z
<1>6. /\ \A j \in DOMAIN z : old(j) \in DOMAIN y /\ z[j] = y[old(j)]
      /\ \A j, k \in DOMAIN z : old(j) = old(k) => j = k
      /\ \A j \in DOMAIN y : j # i => \E k \in DOMAIN z : old(k) = j
  <2>1. \A j \in DOMAIN z : old(j) \in DOMAIN y /\ z[j] = y[old(j)]
    BY <1>1, <1>2, <1>4, <1>5
  <2>2. \A j, k \in DOMAIN z : old(j) = old(k) => j = k
    BY <1>1, <1>5
  <2>3. ASSUME NEW j \in DOMAIN y, j # i PROVE \E k \in DOMAIN z : old(k) = j
    <3>1. CASE j = Len(y)
      <4>1. i \in DOMAIN z /\ old(i) = j
        BY <1>1, <1>5, <2>3, <3>1
      <4>. QED BY <4>1
    <3>2. CASE j # Len(y)
      <4>1. j \in DOMAIN z /\ old(j) = j
        BY <1>1, <1>5, <2>3, <3>2
      <4>. QED BY <4>1
    <3>. QED BY <3>1, <3>2
  <2>. QED BY <2>1, <2>2, <2>3
<1>. HIDE DEF old
<1>7. Distinct(z)
  BY <1>6 DEF Consistent, Distinct
<1>8. Valid(z, ch)
  BY <1>6 DEF Consistent, Valid
<1>9. Held(z, ch)
  <2>. SUFFICES ASSUME NEW p \in Pids, ch[p].state # "none"
                PROVE  \E k \in DOMAIN z : z[k].dir = ch[p].dir /\ Slot(z[k], ch[p].role) = p
    BY DEF Held
  <2>1. PICK j \in DOMAIN y : y[j].dir = ch[p].dir /\ Slot(y[j], ch[p].role) = p
    BY DEF Consistent, Held
  <2>2. j # i
    BY <2>1, NoPidOutside DEF Slot
  <2>3. PICK k \in DOMAIN z : old(k) = j
    BY <1>6, <2>2
  <2>. QED BY <1>6, <2>1, <2>3
<1>10. Piped(z, ch)
  BY <1>6 DEF Consistent, Piped
<1>11. Apart(z)
  BY <1>6 DEF Consistent, Apart
<1>. QED BY <1>4, <1>7, <1>8, <1>9, <1>10, <1>11 DEF Consistent, z, w

-----------------------------------------------------------------------------
(* start() *)

LEMMA CoreHolds == Inv => Core
  BY DEF Inv, TypeOK, Core

LEMMA FailsType == ASSUME failures \in 0..MaxFailures, Fails \/ Succeeds
                   PROVE  failures' \in 0..MaxFailures
  BY SvscanAssumption DEF Fails, Succeeds

LEMMA KillFacts ==
  ASSUME child \in [Pids -> Child], NEW p, Kill(p)
  PROVE  child' \in [Pids -> Child] /\ SameChildren(child, child')
<1>1. CASE p \in Pids
  <2>1. child[p] \in Child /\ (child[p].termed \/ child[p].state = "live") \in BOOLEAN
    BY <1>1 DEF Child
  <2>2. child' = [child EXCEPT ![p] =
                    [child[p] EXCEPT !.termed = child[p].termed \/ child[p].state = "live"]]
    BY DEF Kill
  <2>. QED BY <1>1, <2>1, <2>2 DEF Child, SameChildren
<1>2. CASE p \notin Pids
  BY <1>2 DEF Kill, SameChildren
<1>. QED BY <1>1, <1>2

(* A child ends, or enters its directory.                                  *)
LEMMA EndedFacts ==
  ASSUME child \in [Pids -> Child], NEW p \in Pids, child[p].state = "live"
  PROVE  Ended(p) \in [Pids -> Child] /\ SameChildren(child, Ended(p))
<1>. DEFINE c == [NoChild EXCEPT !.state = "zombie", !.dir = child[p].dir, !.role = child[p].role]
<1>1. child[p] \in Child /\ NoChild \in Child
  BY SvscanAssumption DEF NoChild, Child, Roles
<1>2. /\ c \in Child /\ c.state = "zombie"
      /\ c.dir = child[p].dir /\ c.role = child[p].role
  BY <1>1 DEF Child
<1>3. Ended(p) = [child EXCEPT ![p] = c]
  BY DEF Ended
<1>. HIDE DEF c
<1>. QED BY <1>2, <1>3 DEF SameChildren

LEMMA EntersFacts ==
  ASSUME child \in [Pids -> Child], NEW p \in Pids, ChildEnters(p)
  PROVE  child' \in [Pids -> Child] /\ SameChildren(child, child')
<1>. DEFINE c == [child[p] EXCEPT !.at = Found(p), !.name = NoName]
<1>1. CASE child' = Ended(p)
  BY <1>1, EndedFacts DEF ChildEnters
<1>2. CASE child' # Ended(p)
  <2>1. Found(p) \in Dirs
    BY <1>2, SvscanAssumption DEF ChildEnters
  <2>2. child' = [child EXCEPT ![p] = c]
    BY <1>2 DEF ChildEnters
  <2>3. /\ c \in Child /\ c.state = child[p].state /\ c.pipe = child[p].pipe
        /\ c.dir = child[p].dir /\ c.role = child[p].role
    BY <2>1 DEF Child
  <2>. HIDE DEF c
  <2>. QED BY <2>2, <2>3 DEF SameChildren
<1>. QED BY <1>1, <1>2

LEMMA TableFacts ==
  ASSUME Core, pc \in Mains, Known(st) \/ ~NoPipeLeft
  PROVE  /\ Table \in Seq(Entry) /\ Len(Table) <= SERVICES
         /\ Index(st) \in DOMAIN Table /\ Table[Index(st)].dir = st
         /\ Consistent(Table, child)
<1>. DEFINE i == Index(st)
<1>1. DOMAIN x = 1..Len(x) /\ Len(x) \in Nat /\ \A j \in DOMAIN x : x[j] \in Entry
  BY EntrySeq DEF Core
<1>2. CASE Known(st)
  <2>1. i \in DOMAIN x /\ x[i].dir = st
    BY <1>2 DEF Known, Index
  <2>. DEFINE e == [x[i] EXCEPT !.flagactive = TRUE]
  <2>2. e \in Entry /\ e.dir = st
    BY <1>1, <2>1 DEF Entry
  <2>3. Table = [x EXCEPT ![i] = e]
    BY <1>2 DEF Table
  <2>4. Table \in Seq(Entry) /\ Len(Table) = Len(x) /\ DOMAIN Table = DOMAIN x
    BY <2>1, <2>2, <2>3, ExceptEntry DEF Core
  <2>5. Same(x, Table)
    BY <1>1, <2>1, <2>3, <2>4 DEF Same, Entry
  <2>6. Consistent(Table, child)
    BY <2>5, SameConsistent DEF Core
  <2>. QED BY <1>1, <2>1, <2>2, <2>3, <2>4, <2>6 DEF Core
<1>3. CASE ~Known(st)
  <2>. DEFINE q == IF LogSeen THEN CHOOSE r \in FreePipes : TRUE ELSE NoPipe
              e == [dir |-> st, flagactive |-> TRUE, flaglog |-> LogSeen,
                    pid |-> NoPid, pidlog |-> NoPid, pi |-> q]
  <2>1. q \in Pipes \cup {NoPipe} /\ \A j \in DOMAIN x : x[j].pi # q \/ q = NoPipe
    <3>1. CASE LogSeen
      BY <1>3, <3>1 DEF NoPipeLeft, FreePipes
    <3>2. CASE ~LogSeen
      BY <3>2
    <3>. QED BY <3>1, <3>2
  <2>2. LogSeen \in BOOLEAN /\ st \in Dirs
    BY DEF LogSeen, Core, Within
  <2>3. Table = Append(x, e) /\ Index(st) = Len(x) + 1
    BY <1>3 DEF Table, Index
  <2>. HIDE DEF q
  <2>4. e \in Entry /\ e.pid = NoPid /\ e.pidlog = NoPid /\ e.dir = st /\ e.pi = q
    BY <2>1, <2>2 DEF Entry
  <2>. HIDE DEF e
  <2>5. \A j \in DOMAIN x : x[j].dir # e.dir /\ (x[j].pi # e.pi \/ e.pi = NoPipe)
    BY <1>3, <2>1, <2>4 DEF Known
  <2>6. Consistent(Table, child)
    BY <2>3, <2>4, <2>5, GrowConsistent DEF Core
  <2>7. /\ Table \in Seq(Entry) /\ Len(Table) = Len(x) + 1
        /\ Table[Len(x) + 1] = e
    BY <2>3, <2>4, AppendProperties DEF Core
  <2>8. Len(x) + 1 <= SERVICES
    BY <1>1, <1>3, SvscanAssumption DEF Known, Core, Within
  <2>9. Index(st) \in DOMAIN Table
    BY <1>1, <2>3, <2>7, EntrySeq
  <2>. QED BY <2>3, <2>4, <2>6, <2>7, <2>8, <2>9
<1>. QED BY <1>2, <1>3

(* y becomes z and p is forked for the role in entry i.                    *)
Forks(y, z, i, role, p, name, reads) ==
  /\ z = IF role = "main" THEN [y EXCEPT ![i].pid = p] ELSE [y EXCEPT ![i].pidlog = p]
  /\ child' = [child EXCEPT ![p] = Supervise(y[i].dir, role, name, y[i].pi, reads)]

LEMMA ForkFacts ==
  ASSUME NEW y \in Seq(Entry), Consistent(y, child), child \in [Pids -> Child],
         NEW i \in DOMAIN y, NEW p \in Unused, NEW name \in Names, NEW reads \in BOOLEAN,
         NEW role \in Roles, Slot(y[i], role) = NoPid,
         NEW z, Forks(y, z, i, role, p, name, reads)
  PROVE  /\ z \in Seq(Entry) /\ Len(z) = Len(y)
         /\ child' \in [Pids -> Child] /\ Consistent(z, child')
<1>. DEFINE c == Supervise(y[i].dir, role, name, y[i].pi, reads)
            e == IF role = "main" THEN [y[i] EXCEPT !.pid = p] ELSE [y[i] EXCEPT !.pidlog = p]
<1>. USE DEF Forks
<1>1. DOMAIN y = 1..Len(y) /\ \A j \in DOMAIN y : y[j] \in Entry
  BY EntrySeq
<1>2. p \in Pids /\ child[p].state = "none"
  BY DEF Unused
<1>3. /\ c \in Child /\ c.state = "live" /\ c.role = role
      /\ c.dir = y[i].dir /\ c.pipe = y[i].pi
  BY <1>1 DEF Supervise, Child, Entry
<1>4. e \in Entry /\ z = [y EXCEPT ![i] = e]
  BY <1>1, <1>2 DEF Entry
<1>5. z \in Seq(Entry) /\ Len(z) = Len(y) /\ DOMAIN z = DOMAIN y
  BY <1>4, ExceptEntry
<1>6. ASSUME NEW j \in DOMAIN y
      PROVE  /\ z[j].dir = y[j].dir /\ z[j].pi = y[j].pi
             /\ \A r \in Roles : Slot(z[j], r) = IF j = i /\ r = role THEN p ELSE Slot(y[j], r)
  <2>1. z[j] = IF j = i THEN e ELSE y[j]
    BY <1>4
  <2>2. e.dir = y[i].dir /\ e.pi = y[i].pi
    BY <1>1 DEF Entry
  <2>3. \A r \in Roles : Slot(e, r) = IF r = role THEN p ELSE Slot(y[i], r)
    BY <1>1 DEF Slot, Entry, Roles
  <2>. HIDE DEF e
  <2>. QED BY <2>1, <2>2, <2>3
<1>7. child' \in [Pids -> Child]
  BY <1>2, <1>3
<1>8. Filled(y, z, i, role, p)
  BY <1>5, <1>6 DEF Filled
<1>9. child'[p] = c /\ \A q \in Pids : q # p => child'[q] = child[q]
  BY <1>2
<1>. HIDE DEF c, e
<1>10. \A dh : dh[p] = c /\ (\A q \in Pids : q # p => dh[q] = child[q]) => Consistent(z, dh)
  BY ONLY y \in Seq(Entry), child \in [Pids -> Child], Consistent(y, child), i \in DOMAIN y,
          role \in Roles, Slot(y[i], role) = NoPid, <1>2, <1>3, <1>8, FillConsistent
<1>11. Consistent(z, child')
  BY <1>9, <1>10
<1>. QED BY <1>5, <1>7, <1>11

LEMMA StatStep ==
  ASSUME Core, NEW n \in Names, entry[n] \in Dirs, NEW main \in Mains, NEW after \in {"reap", "scan"},
         Stat(n, main, after)
  PROVE  Core' /\ pc' \in {main, after}
<1>1. failures' \in 0..MaxFailures
  BY FailsType DEF Stat, Core
<1>2. UNCHANGED <<x, all_stopped, cur, child>>
  BY DEF Stat
<1>3. pc' \in {main, after}
  BY DEF Stat, Return
<1>4. Halfway(x', pc', cur')
  BY <1>3 DEF Halfway, Mains, Halves
<1>5. Within(x', pc', fn', st')
  <2>1. CASE pc' = main /\ fn' = n /\ st' = entry[n] /\ ~Full(entry[n])
    <3>1. Known(entry[n]) \/ Len(x) < SERVICES
      BY <2>1, EntrySeq, SvscanAssumption DEF Full, Core
    <3>. QED BY <1>2, <2>1, <3>1 DEF Within, Known
  <2>2. CASE Return(after)
    BY <2>2 DEF Return, Within, Mains, Halves
  <2>. QED BY <2>1, <2>2 DEF Stat
<1>6. Consistent(x', child')
  BY <1>2 DEF Core
<1>. QED BY <1>1, <1>2, <1>3, <1>4, <1>5, <1>6 DEF Core

LEMMA StartMainStep ==
  ASSUME Core, NEW main \in Mains, NEW half \in Halves, NEW after \in {"reap", "scan"},
         StartMain(main, half, after), logx \in 0..1
  PROVE  Core' /\ pc' \in {half, after}
<1>. DEFINE i == Index(st)
            y == Table
<1>1. pc \in Mains /\ (Known(st) \/ ~NoPipeLeft) /\ cur' = i
  BY DEF StartMain
<1>2. /\ y \in Seq(Entry) /\ Len(y) <= SERVICES /\ i \in DOMAIN y /\ y[i].dir = st
      /\ Consistent(y, child)
  BY <1>1, TableFacts
<1>3. DOMAIN y = 1..Len(y) /\ Len(y) \in Nat /\ y[i] \in Entry
  BY <1>2, EntrySeq
<1>4. child \in [Pids -> Child] /\ all_stopped \in BOOLEAN /\ fn \in Names /\ st \in Dirs
  BY <1>1 DEF Core, Within
<1>5. (i = logx) \in BOOLEAN
  OBVIOUS
<1>. HIDE DEF y, i
<1>6. /\ x' \in Seq(Entry) /\ Len(x') = Len(y)
      /\ child' \in [Pids -> Child] /\ Consistent(x', child')
      /\ all_stopped' \in BOOLEAN
      /\ Return(after) \/ (pc' = half /\ UNCHANGED <<fn, st>>)
      /\ Fails \/ Succeeds
  <2>1. ASSUME y[i].pid = NoPid, NEW p \in Unused,
               child' = [child EXCEPT ![p] = Supervise(st, "main", fn, y[i].pi, i = logx)],
               x' = [y EXCEPT ![i].pid = p],
               all_stopped' = FALSE, pc' = half, Succeeds, UNCHANGED <<fn, st>>
        PROVE  <1>6!:
    <3>1. Slot(y[i], "main") = NoPid /\ "main" \in Roles
      BY <2>1 DEF Slot, Roles
    <3>2. Forks(y, x', i, "main", p, fn, i = logx)
      BY <1>2, <2>1 DEF Forks
    <3>3. /\ x' \in Seq(Entry) /\ Len(x') = Len(y)
          /\ child' \in [Pids -> Child] /\ Consistent(x', child')
      BY <1>2, <1>4, <1>5, <3>1, <3>2, ForkFacts
    <3>. QED BY <2>1, <3>3
  <2>2. CASE /\ x' = y /\ UNCHANGED child /\ all_stopped' \in BOOLEAN
             /\ Return(after) \/ (pc' = half /\ UNCHANGED <<fn, st>>)
             /\ Fails \/ Succeeds
    BY <1>2, <1>4, <2>2
  <2>3. CASE /\ x' = y /\ Kill(y[i].pid) /\ pc' = half /\ all_stopped' = FALSE /\ Succeeds
             /\ UNCHANGED <<fn, st>>
    <3>1. child' \in [Pids -> Child] /\ SameChildren(child, child')
      BY <1>4, <2>3, KillFacts
    <3>. QED BY <1>2, <2>3, <3>1, SameChildrenConsistent
  <2>. QED BY <1>4, <2>1, <2>2, <2>3 DEF StartMain, y, i
<1>7. pc' \in {half, after}
  BY <1>6 DEF Return
<1>8. cur' \in 1..SERVICES + 1 /\ Halfway(x', pc', cur')
  <2>1. DOMAIN x' = 1..Len(y)
    BY <1>6, EntrySeq
  <2>. QED BY <1>1, <1>2, <1>3, <2>1, SvscanAssumption DEF Halfway
<1>9. Within(x', pc', fn', st')
  BY <1>4, <1>6 DEF Within, Return, Mains, Halves
<1>10. failures' \in 0..MaxFailures
  BY <1>6, FailsType DEF Core
<1>. QED BY <1>2, <1>6, <1>7, <1>8, <1>9, <1>10 DEF Core

LEMMA StartSkipsStep ==
  ASSUME Core, NEW main, NEW after \in {"reap", "scan"}, StartSkips(main, after)
  PROVE  Core' /\ pc' = after
<1>1. failures' \in 0..MaxFailures
  BY FailsType DEF StartSkips, Core
<1>2. UNCHANGED <<x, all_stopped, cur, child>> /\ pc' = after /\ fn' = NoName /\ st' = NoDir
  BY DEF StartSkips, Return
<1>. QED BY <1>1, <1>2 DEF Core, Halfway, Within, Mains, Halves

LEMMA StartLogStep ==
  ASSUME Core, NEW half \in Halves, NEW after \in {"reap", "scan"},
         StartLog(half, after)
  PROVE  Core' /\ pc' = after
<1>1. pc = half /\ pc' = after /\ cur' = 1 /\ fn' = NoName /\ st' = NoDir
  BY DEF StartLog, Return
<1>2. cur \in DOMAIN x
  BY <1>1 DEF Core, Halfway
<1>3. DOMAIN x = 1..Len(x) /\ Len(x) \in Nat /\ x[cur] \in Entry /\ Len(x) <= SERVICES
  BY <1>2, EntrySeq DEF Core
<1>4. /\ x \in Seq(Entry) /\ child \in [Pids -> Child] /\ Consistent(x, child)
      /\ all_stopped \in BOOLEAN /\ fn \in Names
  BY <1>1 DEF Core, Within
<1>5. /\ x' \in Seq(Entry) /\ Len(x') = Len(x)
      /\ child' \in [Pids -> Child] /\ Consistent(x', child')
      /\ all_stopped' \in BOOLEAN /\ (Fails \/ Succeeds)
  <2>1. ASSUME x[cur].pidlog = NoPid, NEW p \in Unused,
               child' = [child EXCEPT ![p] = Supervise(x[cur].dir, "log", fn, x[cur].pi, FALSE)],
               x' = [x EXCEPT ![cur].pidlog = p],
               all_stopped' = FALSE, Succeeds
        PROVE  <1>5!:
    <3>1. Slot(x[cur], "log") = NoPid /\ "log" \in Roles
      BY <2>1 DEF Slot, Roles
    <3>2. Forks(x, x', cur, "log", p, fn, FALSE)
      BY <2>1 DEF Forks
    <3>3. /\ x' \in Seq(Entry) /\ Len(x') = Len(x)
          /\ child' \in [Pids -> Child] /\ Consistent(x', child')
      BY <1>2, <1>4, <3>1, <3>2, ForkFacts
    <3>. QED BY <2>1, <3>3
  <2>2. CASE UNCHANGED <<x, child>> /\ all_stopped' \in BOOLEAN /\ (Fails \/ Succeeds)
    BY <1>4, <2>2
  <2>3. CASE UNCHANGED x /\ Kill(x[cur].pidlog) /\ all_stopped' = FALSE /\ Succeeds
    <3>1. child' \in [Pids -> Child] /\ SameChildren(child, child')
      BY <1>4, <2>3, KillFacts
    <3>. QED BY <1>4, <2>3, <3>1, SameChildrenConsistent
  <2>. QED BY <1>4, <2>1, <2>2, <2>3 DEF StartLog, KeepLog
<1>6. cur' \in 1..SERVICES + 1 /\ Halfway(x', pc', cur') /\ Within(x', pc', fn', st')
  BY <1>1, SvscanAssumption DEF Halfway, Within, Mains, Halves
<1>7. failures' \in 0..MaxFailures
  BY <1>5, FailsType DEF Core
<1>. QED BY <1>1, <1>3, <1>5, <1>6, <1>7 DEF Core

-----------------------------------------------------------------------------
(* The invariant is inductive *)

(* The types of the variables that start() does not change                 *)
Rest == /\ entry \in [Names -> Dirs \cup {NoDir}]
        /\ logx \in 0..1 /\ exit_asap \in BOOLEAN /\ redirected \in BOOLEAN
        /\ pc \in {"boot", "bootstat", "bootmain", "bootlog", "reap", "scan", "scanmain", "scanlog",
                   "prune", "test", "done"}
        /\ unread \subseteq Names /\ due \subseteq unread
        /\ edits \in 0..MaxEdits /\ gone \subseteq Dirs
        /\ pc = "boot" => x = <<>>

LEMMA InvParts == Inv <=> Core /\ Rest
  BY DEF Inv, TypeOK, Core, Rest, Within

LEMMA InvPartsNext == Inv' <=> Core' /\ Rest'
  BY DEF Inv, TypeOK, Core, Rest, Within

LEMMA InitInv == ASSUME Init PROVE Inv
<1>1. x \in Seq(Entry) /\ Len(x) = 0 /\ DOMAIN x = {}
  BY DEF Init
<1>2. NoChild \in Child /\ NoChild.state = "none"
  BY SvscanAssumption DEF NoChild, Child, Roles
<1>3. Consistent(x, child)
  BY <1>1, <1>2 DEF Init, Consistent, Distinct, Valid, Held, Piped, Apart
<1>4. Core
  BY <1>1, <1>2, <1>3, SvscanAssumption DEF Init, Core, Halfway, Within, Mains, Halves
<1>5. entry \in [Names -> Dirs \cup {NoDir}] /\ edits \in 0..MaxEdits
  BY SvscanAssumption DEF Init
<1>6. Rest
  <2>1. exit_asap \in BOOLEAN /\ redirected \in BOOLEAN
    BY Zenon DEF Init
  <2>2. logx \in 0..1
    BY DEF Init
  <2>3. unread \subseteq Names /\ due \subseteq unread /\ gone \subseteq Dirs
    BY DEF Init
  <2>. QED BY <1>5, <2>1, <2>2, <2>3 DEF Init, Rest
<1>. QED BY <1>4, <1>6, InvParts

LEMMA BootStep == ASSUME Inv, BootAlone \/ BootPipe \/ BootStat \/ BootMain \/ BootLog PROVE Inv'
<1>1. Core /\ Rest
  BY InvParts
<1>2. CASE BootAlone
  BY <1>1, <1>2, InvPartsNext DEF BootAlone, Core, Rest, Halfway, Within, Mains, Halves
<1>3. CASE BootPipe
  <2>1. failures' \in 0..MaxFailures /\ logx' \in 0..1
    BY <1>1, <1>3, FailsType DEF BootPipe, Core, Rest
  <2>2. UNCHANGED <<x, all_stopped, fn, st, cur, child>> /\ pc' \in {"bootstat", "done"}
    BY <1>3 DEF BootPipe
  <2>3. Core'
    BY <1>1, <2>1, <2>2 DEF Core, Halfway, Within, Mains, Halves
  <2>4. Rest'
    BY <1>1, <1>3, <2>1, <2>2 DEF BootPipe, Rest
  <2>. QED BY <2>3, <2>4, InvPartsNext
<1>4. CASE BootStat
  <2>1. CASE LogNamed /\ Stat(logdir, "bootmain", "reap")
    <3>1. entry[logdir] \in Dirs /\ logdir \in Names
      BY <1>1, <2>1, SvscanAssumption DEF LogNamed, Rest
    <3>2. Core' /\ pc' \in {"bootmain", "reap"}
      BY <1>1, <2>1, <3>1, StatStep DEF Mains
    <3>3. Rest'
      BY <1>1, <1>4, <3>2 DEF BootStat, Rest
    <3>. QED BY <3>2, <3>3, InvPartsNext
  <2>2. CASE Return("reap") /\ Succeeds /\ UNCHANGED <<x, all_stopped, cur, child>>
    <3>1. Core' /\ pc' = "reap"
      BY <1>1, <2>2 DEF Return, Succeeds, Core, Halfway, Within, Mains, Halves
    <3>2. Rest'
      BY <1>1, <1>4, <3>1 DEF BootStat, Rest
    <3>. QED BY <3>1, <3>2, InvPartsNext
  <2>. QED BY <1>4, <2>1, <2>2 DEF BootStat
<1>5. CASE BootMain
  <2>1. Core' /\ pc' \in {"bootlog", "reap"}
    BY <1>1, <1>5, StartMainStep, StartSkipsStep DEF BootMain, Rest, Mains, Halves
  <2>2. redirected' \in BOOLEAN
    BY <1>5 DEF BootMain
  <2>3. Rest'
    BY <1>1, <1>5, <2>1, <2>2 DEF BootMain, Rest
  <2>. QED BY <2>1, <2>3, InvPartsNext
<1>6. CASE BootLog
  <2>1. Core' /\ pc' = "reap"
    BY <1>1, <1>6, StartLogStep DEF BootLog, Halves
  <2>2. Rest'
    BY <1>1, <1>6, <2>1 DEF BootLog, Rest
  <2>. QED BY <2>1, <2>2, InvPartsNext
<1>. QED BY <1>2, <1>3, <1>4, <1>5, <1>6

LEMMA ReapStep == ASSUME Inv, NEW p \in Pids, Reap(p) PROVE Inv'
<1>1. Core /\ Rest
  BY InvParts
<1>2. /\ DOMAIN x = 1..Len(x) /\ Len(x) \in Nat /\ \A i \in DOMAIN x : x[i] \in Entry
      /\ x \in Seq(Entry)
  BY <1>1, EntrySeq DEF Core
<1>. DEFINE e(i) == [x[i] EXCEPT !.pid = IF @ = p THEN NoPid ELSE @,
                                 !.pidlog = IF @ = p THEN NoPid ELSE @]
<1>3. x' = [i \in DOMAIN x |-> e(i)]
  BY DEF Reap, Collected
<1>4. ASSUME NEW i \in DOMAIN x
      PROVE  /\ e(i) \in Entry /\ e(i).dir = x[i].dir /\ e(i).pi = x[i].pi
             /\ \A r \in Roles : Slot(e(i), r) = IF Slot(x[i], r) = p THEN NoPid
                                                 ELSE Slot(x[i], r)
  BY <1>2 DEF Entry, Slot
<1>. HIDE DEF e
<1>5. x' \in Seq(Entry) /\ Len(x') = Len(x) /\ DOMAIN x' = DOMAIN x
  <2>1. x' \in [1..Len(x) -> Entry]
    BY <1>2, <1>3, <1>4
  <2>. QED BY <1>2, <2>1, FunSeq
<1>6. \A i \in DOMAIN x : /\ x'[i].dir = x[i].dir /\ x'[i].pi = x[i].pi
                          /\ \A r \in Roles : Slot(x'[i], r) = IF Slot(x[i], r) = p THEN NoPid
                                                               ELSE Slot(x[i], r)
  BY <1>3, <1>4
<1>7. child' = [child EXCEPT ![p] = NoChild] /\ NoChild \in Child
  BY SvscanAssumption DEF Reap, NoChild, Child, Roles
<1>8. Consistent(x', child')
  BY <1>1, <1>2, <1>5, <1>6, <1>7, CollectConsistent DEF Core
<1>9. Core'
  BY <1>1, <1>5, <1>7, <1>8 DEF Reap, Core, Halfway, Within, Mains, Halves
<1>10. Rest'
  BY <1>1 DEF Reap, Rest
<1>. QED BY <1>9, <1>10, InvPartsNext

LEMMA OpenDirStep == ASSUME Inv, OpenDir PROVE Inv'
<1>1. Core /\ Rest
  BY InvParts
<1>2. /\ DOMAIN x = 1..Len(x) /\ Len(x) \in Nat /\ \A i \in DOMAIN x : x[i] \in Entry
  BY <1>1, EntrySeq DEF Core
<1>. DEFINE e(i) == [x[i] EXCEPT !.flagactive = FALSE]
<1>3. x' = [i \in DOMAIN x |-> e(i)]
  BY DEF OpenDir
<1>4. ASSUME NEW i \in DOMAIN x
      PROVE  /\ e(i) \in Entry /\ e(i).dir = x[i].dir /\ e(i).pi = x[i].pi
             /\ e(i).pid = x[i].pid /\ e(i).pidlog = x[i].pidlog
  BY <1>2 DEF Entry
<1>. HIDE DEF e
<1>5. x' \in Seq(Entry) /\ Len(x') = Len(x) /\ DOMAIN x' = DOMAIN x
  <2>1. x' \in [1..Len(x) -> Entry]
    BY <1>2, <1>3, <1>4
  <2>. QED BY <1>2, <2>1, FunSeq
<1>6. Same(x, x')
  BY <1>3, <1>4, <1>5 DEF Same
<1>7. Consistent(x', child') /\ child' = child
  BY <1>1, <1>6, SameConsistent DEF OpenDir, Core
<1>8. failures' \in 0..MaxFailures
  BY <1>1, FailsType DEF OpenDir, Core
<1>9. Core'
  BY <1>1, <1>5, <1>7, <1>8 DEF OpenDir, Core, Halfway, Within, Mains, Halves
<1>10. Rest'
  BY <1>1 DEF OpenDir, Rest
<1>. QED BY <1>9, <1>10, InvPartsNext

LEMMA ScanStep ==
  ASSUME Inv, (\E n \in Names : ReadDir(n)) \/ ScanMain \/ ScanLog \/ ReadEnd
  PROVE  Inv'
<1>1. Core /\ Rest
  BY InvParts
<1>2. ASSUME NEW n \in Names, ReadDir(n) PROVE Inv'
  <2>1. entry[n] \in Dirs /\ Stat(n, "scanmain", "scan")
    BY <1>1, <1>2 DEF ReadDir, Rest
  <2>2. Core' /\ pc' \in {"scanmain", "scan"}
    BY <1>1, <2>1, StatStep DEF Mains
  <2>3. Rest'
    BY <1>1, <1>2, <2>2 DEF ReadDir, Rest
  <2>. QED BY <2>2, <2>3, InvPartsNext
<1>3. CASE ScanMain
  <2>1. Core' /\ pc' \in {"scanlog", "scan"}
    BY <1>1, <1>3, StartMainStep, StartSkipsStep DEF ScanMain, Rest, Mains, Halves
  <2>2. Rest'
    BY <1>1, <1>3, <2>1 DEF ScanMain, Rest
  <2>. QED BY <2>1, <2>2, InvPartsNext
<1>4. CASE ScanLog
  <2>1. Core' /\ pc' = "scan"
    BY <1>1, <1>4, StartLogStep DEF ScanLog, Halves
  <2>2. Rest'
    BY <1>1, <1>4, <2>1 DEF ScanLog, Rest
  <2>. QED BY <2>1, <2>2, InvPartsNext
<1>5. CASE ReadEnd
  <2>1. failures' \in 0..MaxFailures /\ cur' \in 1..SERVICES + 1
    BY <1>1, <1>5, FailsType, SvscanAssumption DEF ReadEnd, Core
  <2>2. UNCHANGED <<x, all_stopped, fn, st, child>> /\ pc' \in {"prune", "test"}
    BY <1>5 DEF ReadEnd
  <2>3. Core'
    BY <1>1, <2>1, <2>2 DEF Core, Halfway, Within, Mains, Halves
  <2>4. Rest'
    BY <1>1, <1>5, <2>2 DEF ReadEnd, Rest
  <2>. QED BY <2>3, <2>4, InvPartsNext
<1>. QED BY <1>2, <1>3, <1>4, <1>5

LEMMA PruneStep == ASSUME Inv, Prune PROVE Inv'
<1>1. Core /\ Rest
  BY InvParts
<1>2. DOMAIN x = 1..Len(x) /\ Len(x) \in Nat
  BY <1>1, EntrySeq DEF Core
<1>3. cur' \in 1..SERVICES + 1 /\ pc' \in {"prune", "test"}
  <2>1. CASE cur > Len(x) /\ pc' = "test" /\ cur' = 1
    BY <2>1, SvscanAssumption
  <2>2. CASE cur' = cur /\ pc' = "prune"
    BY <1>1, <2>2 DEF Core
  <2>3. CASE cur <= Len(x) /\ cur' = cur + 1 /\ pc' = "prune"
    BY <1>1, <1>2, <2>3, SvscanAssumption DEF Core
  <2>. QED BY <2>1, <2>2, <2>3 DEF Prune
<1>4. x' \in Seq(Entry) /\ Len(x') <= SERVICES /\ Consistent(x', child)
  <2>1. CASE x' = x
    BY <1>1, <2>1 DEF Core
  <2>2. CASE x' # x
    <3>1. /\ cur \in DOMAIN x /\ x[cur].pid = NoPid /\ x[cur].pidlog = NoPid
          /\ x' = SubSeq([x EXCEPT ![cur] = x[Len(x)]], 1, Len(x) - 1)
      BY <1>1, <1>2, <2>2 DEF Prune, Idle, Core
    <3>2. x' \in Seq(Entry) /\ Len(x') = Len(x) - 1 /\ Consistent(x', child)
      BY <1>1, <3>1, PruneConsistent DEF Core
    <3>3. Len(x) - 1 <= SERVICES
      BY <1>1, <1>2, SvscanAssumption DEF Core
    <3>. QED BY <3>2, <3>3
  <2>. QED BY <2>1, <2>2
<1>5. Core'
  BY <1>1, <1>3, <1>4 DEF Prune, Core, Halfway, Within, Mains, Halves
<1>6. Rest'
  BY <1>1, <1>3 DEF Prune, Rest
<1>. QED BY <1>5, <1>6, InvPartsNext

LEMMA OutsideStep ==
  ASSUME Inv, Test \/ catch_sig \/ Gone \/ (\E p \in Pids : ChildEnters(p) \/ ChildExits(p))
              \/ (\E n \in Names : Edit(n))
  PROVE  Inv'
<1>1. Core /\ Rest
  BY InvParts
<1>2. CASE Test
  BY <1>1, <1>2, InvPartsNext DEF Test, Core, Rest, Halfway, Within, Mains, Halves
<1>3. CASE catch_sig
  BY <1>1, <1>3, InvPartsNext DEF catch_sig, Core, Rest, Halfway, Within
<1>4. CASE Gone
  BY <1>1, <1>4, InvPartsNext DEF Gone, vars, scan, Core, Rest, Halfway, Within
<1>5. ASSUME NEW p \in Pids, ChildEnters(p) \/ ChildExits(p) PROVE Inv'
  <2>1. child' \in [Pids -> Child] /\ SameChildren(child, child')
    BY <1>1, <1>5, EndedFacts, EntersFacts DEF ChildExits, Core
  <2>2. UNCHANGED <<entry, scan, edits, failures, gone>>
    BY <1>5 DEF ChildEnters, ChildExits
  <2>3. Consistent(x, child')
    BY <1>1, <2>1, SameChildrenConsistent DEF Core
  <2>4. Core'
    BY <1>1, <2>1, <2>2, <2>3 DEF scan, Core, Halfway, Within
  <2>5. Rest'
    BY <1>1, <2>2 DEF scan, Rest
  <2>. QED BY <2>4, <2>5, InvPartsNext
<1>6. ASSUME NEW n \in Names, Edit(n) PROVE Inv'
  <2>1. entry' \in [Names -> Dirs \cup {NoDir}] /\ entry[n] \in Dirs \cup {NoDir}
    BY <1>1, <1>6 DEF Edit, Rest
  <2>2. edits' \in 0..MaxEdits /\ gone' \subseteq Dirs
    BY <1>1, <1>6, <2>1, SvscanAssumption DEF Edit, Rest
  <2>3. Core'
    BY <1>1, <1>6 DEF Edit, Core, Halfway, Within
  <2>4. Rest'
    BY <1>1, <1>6, <2>1, <2>2 DEF Edit, Rest
  <2>. QED BY <2>3, <2>4, InvPartsNext
<1>. QED BY <1>2, <1>3, <1>4, <1>5, <1>6

LEMMA InvStep == ASSUME Inv, [Next]_vars PROVE Inv'
<1>1. CASE UNCHANGED vars
  BY <1>1, InvParts, InvPartsNext DEF vars, scan, Core, Rest, Halfway, Within
<1>2. CASE Next
  BY <1>2, BootStep, ReapStep, OpenDirStep, ScanStep, PruneStep, OutsideStep DEF Next, Step
<1>. QED BY <1>1, <1>2

-----------------------------------------------------------------------------
(* Theorems *)

(* The inductive invariant: types, x without duplicates, and the two-way   *)
(* correspondence of its slots and pipes with svscan's children.           *)
THEOREM ScanInvariant == Spec => []Inv
<1>1. Init => Inv
  BY InitInv
<1>2. Inv /\ [Next]_vars => Inv'
  BY InvStep
<1>. QED BY <1>1, <1>2, PTL DEF Spec

(* Every variable keeps its type, and x never outgrows its array, for any  *)
(* number of names and directories.                                        *)
THEOREM ScanTypes == Spec => []TypeOK
<1>1. Inv => TypeOK
  BY DEF Inv
<1>. QED BY <1>1, ScanInvariant, PTL

(* svscan knows each of its children in the one entry of x that it was     *)
(* forked for, and every pid in x is such a child: start(), doit()'s       *)
(* collection and its deletion of entries keep the table right.            *)
THEOREM ScanTracks == Spec => []ChildrenTracked
<1>1. Inv => ChildrenTracked
  <2>. SUFFICES ASSUME Inv PROVE ChildrenTracked
    OBVIOUS
  <2>1. ASSUME NEW p \in Pids, child[p].state # "none"
        PROVE  \E i \in DOMAIN x : /\ x[i].dir = child[p].dir
                                   /\ p = IF child[p].role = "main" THEN x[i].pid ELSE x[i].pidlog
    BY <2>1 DEF Inv, Consistent, Held, Slot
  <2>2. ASSUME NEW i \in DOMAIN x
        PROVE  /\ x[i].pid # NoPid => /\ child[x[i].pid].state # "none"
                                      /\ child[x[i].pid].role = "main"
                                      /\ child[x[i].pid].dir = x[i].dir
               /\ x[i].pidlog # NoPid => /\ child[x[i].pidlog].state # "none"
                                         /\ child[x[i].pidlog].role = "log"
                                         /\ child[x[i].pidlog].dir = x[i].dir
    BY DEF Inv, Consistent, Valid, Slot, Roles
  <2>3. \A i, j \in DOMAIN x : x[i].dir = x[j].dir => i = j
    BY DEF Inv, Consistent, Distinct
  <2>. QED BY <2>1, <2>2, <2>3 DEF ChildrenTracked
<1>. QED BY <1>1, ScanInvariant, PTL

(* The entry of a child                                                    *)
LEMMA Place ==
  ASSUME Inv, NEW p \in Pids, child[p].state # "none"
  PROVE  \E i \in DOMAIN x : x[i].dir = child[p].dir /\ Slot(x[i], child[p].role) = p
  BY DEF Inv, Consistent, Held

-----------------------------------------------------------------------------
(* Where the children go *)

(* A name that was looked up as d still means d, or d has lost a name.     *)
Means(n, d) == entry[n] = d \/ d \in gone

(* The names that start() and new children have in hand, and the children  *)
(* that have entered another directory                                     *)
Course ==
  /\ \A p \in Pids : Live(p) => /\ child[p].name # NoName => Means(child[p].name, child[p].dir)
                                /\ Strayed(p) => child[p].dir \in gone
  /\ pc \in Mains => Means(fn, st)
  /\ pc \in Halves => Means(fn, x[cur].dir)

LEMMA OnlyEdits ==
  ASSUME Next, ~UNCHANGED <<entry, gone>>
  PROVE  \E n \in Names : Edit(n)
<1>1. CASE Step
  BY <1>1 DEF Step, BootAlone, BootPipe, BootStat, BootMain, BootLog, Test, Reap, OpenDir, ReadDir,
              ScanMain, ScanLog, ReadEnd, Prune
<1>2. CASE catch_sig \/ Gone \/ \E p \in Pids : ChildEnters(p) \/ ChildExits(p)
  BY <1>2 DEF catch_sig, Gone, ChildEnters, ChildExits, vars
<1>. QED BY <1>1, <1>2 DEF Next

LEMMA MeansKept ==
  ASSUME Inv, [Next]_vars, NEW n, NEW d \in Dirs, Means(n, d)
  PROVE  entry'[n] = d \/ d \in gone'
<1>1. CASE UNCHANGED <<entry, gone>>
  BY <1>1 DEF Means
<1>2. ASSUME NEW m \in Names, Edit(m) PROVE entry'[n] = d \/ d \in gone'
  <2>1. gone' = gone \cup ({entry[m]} \ {NoDir}) /\ (n # m => entry'[n] = entry[n])
    BY <1>2 DEF Edit, Inv, TypeOK
  <2>. QED BY <2>1, SvscanAssumption DEF Means
<1>. QED BY <1>1, <1>2, OnlyEdits DEF vars

(* start() has found or made the entry of st.                              *)
LEMMA StartMainEntry ==
  ASSUME Core, NEW main \in Mains, NEW half, NEW after, StartMain(main, half, after)
  PROVE  x'[cur'].dir = st
<1>. DEFINE i == Index(st)
            y == Table
<1>1. pc \in Mains /\ (Known(st) \/ ~NoPipeLeft) /\ cur' = i
  BY DEF StartMain
<1>2. y \in Seq(Entry) /\ i \in DOMAIN y /\ y[i].dir = st
  BY <1>1, TableFacts
<1>3. x' = y \/ \E p : x' = [y EXCEPT ![i].pid = p]
  BY DEF StartMain
<1>4. y[i] \in Entry
  BY <1>2, EntrySeq
<1>. HIDE DEF y, i
<1>. QED BY <1>1, <1>2, <1>3, <1>4 DEF Entry

(* How start() comes to one of its places                                  *)
LEMMA PlaceStep ==
  ASSUME Inv, Next, pc' \in Mains \cup Halves
  PROVE  \/ UNCHANGED <<pc, fn, st, x, cur>>
         \/ pc' \in Mains /\ st' = entry[fn']
         \/ pc' \in Halves /\ pc \in Mains /\ fn' = fn /\ x'[cur'].dir = st
<1>1. Core
  BY CoreHolds
<1>2. CASE BootStat \/ \E n \in Names : ReadDir(n)
  BY <1>2 DEF BootStat, ReadDir, Stat, Return, Mains, Halves
<1>3. CASE BootMain \/ ScanMain
  <2>1. CASE pc' \in Halves
    <3>1. PICK main \in Mains, half \in Halves, after \in {"reap", "scan"} : StartMain(main, half, after)
      BY <1>3, <2>1 DEF BootMain, ScanMain, StartSkips, Return, Mains, Halves
    <3>2. x'[cur'].dir = st
      BY <1>1, <3>1, StartMainEntry
    <3>3. pc \in Mains /\ fn' = fn
      BY <1>3, <2>1 DEF BootMain, ScanMain, StartMain, StartSkips, Return, Mains, Halves
    <3>. QED BY <2>1, <3>2, <3>3
  <2>2. CASE pc' \notin Halves
    BY <1>3, <2>2 DEF BootMain, ScanMain, StartMain, StartSkips, Return, Mains, Halves
  <2>. QED BY <2>1, <2>2
<1>4. CASE BootLog \/ ScanLog
  BY <1>4 DEF BootLog, ScanLog, StartLog, Return, Mains, Halves
<1>5. CASE BootAlone \/ BootPipe \/ Test \/ (\E p \in Pids : Reap(p)) \/ OpenDir \/ ReadEnd \/ Prune
  BY <1>5 DEF BootAlone, BootPipe, Test, Reap, OpenDir, ReadEnd, Prune, Mains, Halves
<1>6. CASE catch_sig \/ Gone \/ (\E p \in Pids : ChildEnters(p) \/ ChildExits(p))
           \/ \E n \in Names : Edit(n)
  BY <1>6 DEF catch_sig, Gone, ChildEnters, ChildExits, Edit, vars, scan
<1>. QED BY <1>2, <1>3, <1>4, <1>5, <1>6 DEF Next, Step

(* What a running child was before a step                                  *)
SameChild(p) ==
  /\ Live(p) /\ child'[p].dir = child[p].dir
  /\ \/ child'[p].name = child[p].name /\ child'[p].at = child[p].at
     \/ child[p].name # NoName /\ child'[p].name = NoName /\ child'[p].at = entry[child[p].name]
NewChild(p) ==
  /\ child'[p].name = fn /\ child'[p].at = NoDir
  /\ \/ pc \in Mains /\ child'[p].dir = st
     \/ pc \in Halves /\ child'[p].dir = x[cur].dir

LEMMA ChildStep ==
  ASSUME Inv, Next, NEW p \in Pids, Live(p)'
  PROVE  SameChild(p) \/ NewChild(p)
<1>1. child \in [Pids -> Child]
  BY DEF Inv, TypeOK
<1>2. CASE child'[p] = child[p]
  BY <1>2 DEF Live, SameChild
<1>3. ASSUME NEW q, Kill(q), child'[p] # child[p] PROVE SameChild(p)
  <2>1. p = q /\ child'[p] = [child[p] EXCEPT !.termed = child[p].termed \/ child[p].state = "live"]
    BY <1>1, <1>3 DEF Kill
  <2>2. child[p] \in Child
    BY <1>1
  <2>. QED BY <2>1, <2>2 DEF Live, SameChild, Child
<1>4. ASSUME NEW q \in Pids, ChildEnters(q) \/ ChildExits(q), child'[p] # child[p] PROVE SameChild(p)
  <2>1. CASE child' = Ended(q)
    <3>1. p = q
      BY <1>1, <1>4, <2>1 DEF Ended
    <3>2. child'[p].state = "zombie"
      BY <1>1, <2>1, <3>1 DEF Ended, NoChild
    <3>. QED BY <3>2 DEF Live
  <2>2. CASE child' # Ended(q)
    <3>1. /\ child[q].state = "live" /\ child[q].name # NoName
          /\ child' = [child EXCEPT ![q].at = Found(q), ![q].name = NoName]
      BY <1>4, <2>2 DEF ChildEnters, ChildExits
    <3>2. p = q /\ child[p] \in Child
      BY <1>1, <1>4, <3>1
    <3>3. child'[p] = [child[p] EXCEPT !.at = Found(p), !.name = NoName]
      BY <1>1, <3>1, <3>2
    <3>4. child'[p].dir = child[p].dir /\ child'[p].name = NoName /\ child'[p].at = Found(p)
      BY <3>2, <3>3 DEF Child
    <3>. QED BY <3>1, <3>2, <3>4 DEF Live, SameChild, Found
  <2>. QED BY <2>1, <2>2
<1>5. ASSUME NEW q \in Pids, Reap(q), child'[p] # child[p] PROVE FALSE
  <2>1. p = q
    BY <1>1, <1>5 DEF Reap
  <2>. QED BY <1>1, <1>5, <2>1 DEF Reap, Live, NoChild
<1>6. ASSUME NEW main \in Mains, NEW half, NEW after, StartMain(main, half, after), child'[p] # child[p]
      PROVE  SameChild(p) \/ NewChild(p)
  <2>1. ASSUME NEW q, NEW c, child' = [child EXCEPT ![q] = c] PROVE child'[p] = c
    BY <1>1, <1>6, <2>1
  <2>2. CASE \E q : Kill(q)
    BY <1>3, <1>6, <2>2
  <2>3. CASE \E q, pipe, reads : child' = [child EXCEPT ![q] = Supervise(st, "main", fn, pipe, reads)]
    <3>1. PICK pipe, reads : child'[p] = Supervise(st, "main", fn, pipe, reads)
      BY <2>1, <2>3
    <3>. QED BY <1>6, <3>1 DEF Supervise, NewChild, StartMain
  <2>. QED BY <1>6, <2>2, <2>3 DEF StartMain
<1>7. ASSUME NEW half \in Halves, NEW after, StartLog(half, after), child'[p] # child[p]
      PROVE  SameChild(p) \/ NewChild(p)
  <2>1. ASSUME NEW q, NEW c, child' = [child EXCEPT ![q] = c] PROVE child'[p] = c
    BY <1>1, <1>7, <2>1
  <2>2. CASE \E q : Kill(q)
    BY <1>3, <1>7, <2>2
  <2>3. CASE \E q, pipe : child' = [child EXCEPT ![q] = Supervise(x[cur].dir, "log", fn, pipe, FALSE)]
    <3>1. PICK pipe : child'[p] = Supervise(x[cur].dir, "log", fn, pipe, FALSE)
      BY <2>1, <2>3
    <3>. QED BY <1>7, <3>1 DEF Supervise, NewChild, StartLog
  <2>. QED BY <1>7, <2>2, <2>3 DEF StartLog, KeepLog
<1>8. CASE BootMain \/ BootLog \/ ScanMain \/ ScanLog
  BY <1>2, <1>6, <1>7, <1>8 DEF BootMain, BootLog, ScanMain, ScanLog, StartSkips, Mains, Halves
<1>9. CASE BootAlone \/ BootPipe \/ BootStat \/ Test \/ OpenDir \/ (\E n \in Names : ReadDir(n)) \/ ReadEnd
           \/ Prune \/ catch_sig \/ Gone \/ \E n \in Names : Edit(n)
  <2>1. child' = child
    BY <1>9 DEF BootAlone, BootPipe, BootStat, Stat, Test, OpenDir, ReadDir, ReadEnd, Prune, catch_sig,
                Gone, Edit, vars
  <2>. QED BY <1>2, <2>1
<1>. QED BY <1>2, <1>4, <1>5, <1>8, <1>9 DEF Next, Step

LEMMA CourseStep == ASSUME Inv, Course, Next PROVE Course'
<1>1. \A n, d : d \in Dirs /\ Means(n, d) => entry'[n] = d \/ d \in gone'
  BY MeansKept
<1>2. Inv' /\ gone \subseteq gone'
  BY InvStep, OnlyEdits DEF Edit
<1>3. /\ \A p \in Pids : child[p].dir \in Dirs /\ child'[p].dir \in Dirs
      /\ \A i \in DOMAIN x : x[i].dir \in Dirs
  BY <1>2, EntrySeq DEF Inv, TypeOK, Child, Entry
<1>4. pc \in Mains => st \in Dirs
  BY DEF Inv, Within
<1>5. pc \in Halves => cur \in DOMAIN x /\ x[cur].dir \in Dirs
  BY <1>3 DEF Inv, Halfway
<1>6. \A p \in Pids : Strayed(p)' <=> /\ Live(p)' /\ child'[p].at # NoDir
                                      /\ child'[p].at # child'[p].dir
  BY DEF Strayed, Entered
<1>7. \A p \in Pids : Strayed(p) <=> Live(p) /\ child[p].at # NoDir /\ child[p].at # child[p].dir
  BY DEF Strayed, Entered
<1>8. ASSUME NEW p \in Pids, Live(p)', child'[p].name # NoName
      PROVE  entry'[child'[p].name] = child'[p].dir \/ child'[p].dir \in gone'
  <2>1. CASE SameChild(p)
    BY <1>1, <1>3, <1>8, <2>1 DEF SameChild, Course
  <2>2. CASE NewChild(p)
    BY <1>1, <1>4, <1>5, <2>2 DEF NewChild, Course
  <2>. QED BY <1>8, <2>1, <2>2, ChildStep
<1>9. ASSUME NEW p \in Pids, Strayed(p)'
      PROVE  child'[p].dir \in gone'
  <2>1. Live(p)' /\ child'[p].at # NoDir /\ child'[p].at # child'[p].dir
    BY <1>6, <1>9
  <2>2. CASE Live(p) /\ child'[p].dir = child[p].dir /\ child'[p].at = child[p].at
    BY <1>2, <1>7, <2>1, <2>2 DEF Course
  <2>3. CASE /\ Live(p) /\ child'[p].dir = child[p].dir
             /\ child[p].name # NoName /\ child'[p].at = entry[child[p].name]
    <3>1. child[p].dir \in gone
      BY <2>1, <2>3 DEF Course, Means
    <3>. QED BY <1>2, <2>3, <3>1
  <2>. QED BY <2>1, <2>2, <2>3, ChildStep DEF SameChild, NewChild
<1>10. (pc' \in Mains => st' \in Dirs) /\ Mains \cap Halves = {}
  BY <1>2 DEF Inv, Within, Mains, Halves
<1>11. ASSUME pc' \in Mains PROVE entry'[fn'] = st' \/ st' \in gone'
  <2>1. CASE UNCHANGED <<pc, fn, st>>
    BY <1>1, <1>4, <1>11, <2>1 DEF Course
  <2>2. CASE st' = entry[fn']
    BY <1>1, <1>10, <1>11, <2>2 DEF Means
  <2>. QED BY <1>10, <1>11, <2>1, <2>2, PlaceStep
<1>12. ASSUME pc' \in Halves PROVE entry'[fn'] = x'[cur'].dir \/ x'[cur'].dir \in gone'
  <2>1. CASE UNCHANGED <<pc, fn, x, cur>>
    BY <1>1, <1>5, <1>12, <2>1 DEF Course
  <2>2. CASE pc \in Mains /\ fn' = fn /\ x'[cur'].dir = st
    BY <1>1, <1>4, <2>2 DEF Course
  <2>. QED BY <1>10, <1>12, <2>1, <2>2, PlaceStep
<1>. QED BY <1>8, <1>9, <1>11, <1>12 DEF Course, Means

(* What is looked up again means what it meant, unless a name was lost.    *)
LEMMA CourseHolds == Spec => []Course
<1>1. Init => Course
  BY DEF Init, NoChild, Course, Live, Strayed, Entered, Mains, Halves
<1>2. Inv /\ Course /\ [Next]_vars => Course'
  <2>1. ASSUME Course, UNCHANGED vars PROVE Course'
    BY <2>1 DEF vars, scan, Course, Means, Live, Strayed, Entered
  <2>. QED BY <2>1, CourseStep
<1>. QED BY <1>1, <1>2, ScanInvariant, PTL DEF Spec

(* Two supervise processes meet in a directory, or in its log, only if one *)
(* of them entered it by a name that had changed hands; and a child enters *)
(* a directory other than the one it was meant for only if that one has    *)
(* lost a name: however many directories, links, edits and restarts.       *)
THEOREM OneSupervise == Spec => []SoleSupervise
<1>1. Inv /\ Course => SoleSupervise
  <2>. SUFFICES ASSUME Inv, Course PROVE SoleSupervise
    OBVIOUS
  <2>1. ASSUME NEW p \in Pids, NEW q \in Pids, Entered(p), Entered(q), ~Strayed(p), ~Strayed(q),
               child[p].at = child[q].at, child[p].role = child[q].role
        PROVE  p = q
    <3>1. child[p].dir = child[q].dir /\ child[p].state # "none" /\ child[q].state # "none"
      BY <2>1 DEF Entered, Strayed, Live
    <3>2. PICK i \in DOMAIN x : x[i].dir = child[p].dir /\ Slot(x[i], child[p].role) = p
      BY <3>1, Place
    <3>3. PICK j \in DOMAIN x : x[j].dir = child[q].dir /\ Slot(x[j], child[q].role) = q
      BY <3>1, Place
    <3>4. i = j
      BY <3>1, <3>2, <3>3 DEF Inv, Consistent, Distinct
    <3>. QED BY <2>1, <3>2, <3>3, <3>4
  <2>2. ASSUME NEW p \in Pids, Strayed(p) PROVE child[p].dir \in gone
    BY <2>2 DEF Course, Strayed, Entered
  <2>. QED BY <2>1, <2>2 DEF SoleSupervise
<1>. QED BY <1>1, ScanInvariant, CourseHolds, PTL

(* Of supervise processes that are where they were meant to be, those of a *)
(* directory and its log share one pipe however often each was restarted,  *)
(* and no process of another directory has that pipe.                      *)
THEOREM PipeKept == Spec => []PipePaired
<1>1. Inv => PipePaired
  <2>. SUFFICES ASSUME Inv, NEW p \in Pids, NEW q \in Pids, Entered(p), Entered(q),
                       ~Strayed(p), ~Strayed(q)
                PROVE  IF child[p].at = child[q].at THEN child[p].pipe = child[q].pipe
                       ELSE child[p].pipe # child[q].pipe \/ child[p].pipe = NoPipe
    BY DEF PipePaired
  <2>1. /\ child[p].state = "live" /\ child[p].at = child[p].dir
        /\ child[q].state = "live" /\ child[q].at = child[q].dir
    BY DEF Entered, Strayed, Live
  <2>2. PICK i \in DOMAIN x : x[i].dir = child[p].dir
    BY <2>1, Place
  <2>3. PICK j \in DOMAIN x : x[j].dir = child[q].dir
    BY <2>1, Place
  <2>4. child[p].pipe = x[i].pi /\ child[q].pipe = x[j].pi
    BY <2>1, <2>2, <2>3 DEF Inv, Consistent, Piped
  <2>5. CASE i = j
    BY <2>1, <2>2, <2>3, <2>4, <2>5
  <2>6. CASE i # j
    <3>1. x[i].pi # x[j].pi \/ x[i].pi = NoPipe
      BY <2>6 DEF Inv, Consistent, Apart
    <3>2. child[p].at # child[q].at
      BY <2>1, <2>2, <2>3, <2>6 DEF Inv, Consistent, Distinct
    <3>. QED BY <2>4, <3>1, <3>2
  <2>. QED BY <2>5, <2>6
<1>. QED BY <1>1, ScanInvariant, PTL

-----------------------------------------------------------------------------
(* The order of the SIGTERMs *)

(* Only a log whose main supervise has been collected is terminated.       *)
LEMMA LogTermed ==
  ASSUME Inv, Next, NEW p \in Pids, ~child[p].termed, child'[p].termed, child[p].role = "log",
         NEW q \in Pids, Live(q), child[q].role = "main", child[q].dir = child[p].dir
  PROVE  FALSE
<1>1. /\ child \in [Pids -> Child] /\ Core
      /\ Consistent(x, child)
  BY CoreHolds DEF Inv, TypeOK
<1>2. PICK j \in DOMAIN x : x[j].dir = child[q].dir /\ x[j].pid = q
  BY Place DEF Live, Slot
<1>3. \A r, c : ~c.termed => child' # [child EXCEPT ![r] = c]
  BY <1>1
<1>4. \A d, role, name, pipe, reads : ~Supervise(d, role, name, pipe, reads).termed
  BY DEF Supervise
<1>5. child' # child
  OBVIOUS
<1>6. ASSUME NEW r, Kill(r) PROVE p = r
  BY <1>1, <1>6 DEF Kill
<1>7. ASSUME NEW half \in Halves, NEW after, StartLog(half, after)
      PROVE  FALSE
  <2>1. cur \in DOMAIN x
    BY <1>1, <1>7 DEF StartLog, Core, Halfway
  <2>2. ASSUME NEW r, child' = [child EXCEPT ![r] = Supervise(x[cur].dir, "log", fn, x[cur].pi, FALSE)]
        PROVE  FALSE
    BY <1>3, <1>4, <2>2
  <2>3. KeepLog(x[cur])
    BY <1>5, <1>7, <2>2 DEF StartLog
  <2>4. TermsLog(x[cur]) /\ p = x[cur].pidlog
    BY <1>5, <1>6, <2>3 DEF KeepLog
  <2>5. p # NoPid /\ x[cur].dir = child[p].dir
    BY <1>1, <2>1, <2>4, NoPidOutside DEF Consistent, Valid, Slot, Roles
  <2>6. cur = j
    BY <1>1, <1>2, <2>1, <2>5 DEF Consistent, Distinct
  <2>. QED BY <1>2, <2>6, <2>4, NoPidOutside DEF TermsLog
<1>8. ASSUME NEW main \in Mains, NEW half, NEW after, StartMain(main, half, after)
      PROVE  FALSE
  <2>. DEFINE y == Table
              i == Index(st)
  <2>1. i \in DOMAIN y /\ Consistent(y, child)
    BY <1>1, <1>8, TableFacts DEF StartMain
  <2>2. p = y[i].pid
    BY <1>3, <1>4, <1>5, <1>6, <1>8 DEF StartMain
  <2>. HIDE DEF y, i
  <2>. QED BY <2>1, <2>2, NoPidOutside DEF Consistent, Valid, Slot, Roles
<1>9. CASE BootMain \/ ScanMain
  BY <1>5, <1>8, <1>9 DEF BootMain, ScanMain, StartSkips, Mains
<1>10. CASE BootLog \/ ScanLog
  BY <1>7, <1>10 DEF BootLog, ScanLog, Halves
<1>11. ASSUME NEW r \in Pids, Reap(r) PROVE FALSE
  BY <1>3, <1>11 DEF Reap, NoChild
<1>12. ASSUME NEW r \in Pids, ChildEnters(r) \/ ChildExits(r) PROVE FALSE
  <2>. DEFINE c == [NoChild EXCEPT !.state = "zombie", !.dir = child[r].dir, !.role = child[r].role]
  <2>1. child' # Ended(r)
    <3>1. ~c.termed /\ Ended(r) = [child EXCEPT ![r] = c]
      BY DEF Ended, NoChild
    <3>. HIDE DEF c
    <3>. QED BY <1>3, <3>1
  <2>2. child' = [child EXCEPT ![r].at = Found(r), ![r].name = NoName]
    BY <1>12, <2>1 DEF ChildEnters, ChildExits
  <2>3. child'[p].termed = child[p].termed
    BY <1>1, <2>2
  <2>. QED BY <2>3
<1>13. CASE BootAlone \/ BootPipe \/ BootStat \/ Test \/ OpenDir \/ (\E n \in Names : ReadDir(n))
            \/ ReadEnd \/ Prune \/ catch_sig \/ Gone \/ \E n \in Names : Edit(n)
  BY <1>5, <1>13 DEF BootAlone, BootPipe, BootStat, Stat, Test, OpenDir, ReadDir, ReadEnd, Prune,
                     catch_sig, Gone, Edit, vars
<1>. QED BY <1>9, <1>10, <1>11, <1>12, <1>13 DEF Next, Step

(* After SIGTERM the supervise of a log is stopped only when the one that  *)
(* svscan started to write to it has ended.                                *)
THEOREM LogLast == Spec => LogOutlives
<1>. DEFINE Order == \A p, q \in Pids : ~child[p].termed /\ child'[p].termed /\ child[p].role = "log"
                       => ~(Live(q) /\ child[q].role = "main" /\ child[q].dir = child[p].dir)
<1>1. Inv /\ [Next]_vars => [Order]_vars
  BY LogTermed
<1>. QED BY <1>1, ScanInvariant, PTL DEF Spec, LogOutlives

-----------------------------------------------------------------------------
(* svscan exits after its children                                         *)

(* Every directory of x has a name or has lost one.                        *)
Named(d) == d \in gone \/ \E n \in Names : entry[n] = d
TableNamed == \A i \in DOMAIN x : Named(x[i].dir)
LogsFlagged == \A i \in DOMAIN x : x[i].pidlog # NoPid => x[i].flaglog

(* While all_stopped is still set in a scan, the directory of a child has  *)
(* lost a name, or has one that readdir() is due to return, or start() is  *)
(* about to look for it, or the child is the log that start() looks at     *)
(* next.                                                                   *)
Comes(p) ==
  \/ pc \in {"scan", "scanmain", "scanlog"} /\ \E n \in due : entry[n] = child[p].dir
  \/ pc = "scanmain" /\ st = child[p].dir
  \/ pc = "scanlog" /\ x[cur].dir = child[p].dir /\ child[p].role = "log"
Turn == {"scan", "scanmain", "scanlog", "prune", "test", "done"}
Counted ==
  pc \in Turn /\ all_stopped => \A p \in Pids : Live(p) => child[p].dir \in gone \/ Comes(p)
DoneStopped == pc = "done" => all_stopped
Last == TableNamed /\ LogsFlagged /\ (failures = 0 => Counted /\ DoneStopped)

(* Where the entries of Table come from                                    *)
LEMMA TableEntries ==
  ASSUME Core, Known(st) \/ ~NoPipeLeft, NEW i \in DOMAIN Table
  PROVE  \/ Table[i].dir = st /\ Table[i].pidlog = NoPid
         \/ /\ i \in DOMAIN x /\ Table[i].dir = x[i].dir
            /\ Table[i].flaglog = x[i].flaglog /\ Table[i].pidlog = x[i].pidlog
<1>1. DOMAIN x = 1..Len(x) /\ Len(x) \in Nat /\ \A j \in DOMAIN x : x[j] \in Entry
  BY EntrySeq DEF Core
<1>2. CASE Known(st)
  <2>1. Table = [x EXCEPT ![Index(st)].flagactive = TRUE]
    BY <1>2 DEF Table
  <2>2. i \in DOMAIN x
    BY <2>1
  <2>3. x[i] \in Entry
    BY <1>1, <2>2
  <2>. QED BY <2>1, <2>2, <2>3 DEF Entry
<1>3. CASE ~Known(st)
  <2>. DEFINE e == [dir |-> st, flagactive |-> TRUE, flaglog |-> LogSeen,
                    pid |-> NoPid, pidlog |-> NoPid,
                    pi |-> IF LogSeen THEN CHOOSE q \in FreePipes : TRUE ELSE NoPipe]
  <2>1. Table = Append(x, e) /\ e.dir = st /\ e.pidlog = NoPid
    BY <1>3 DEF Table
  <2>. HIDE DEF e
  <2>2. /\ DOMAIN Append(x, e) = 1..Len(x) + 1
        /\ Append(x, e)[Len(x) + 1] = e
        /\ \A j \in 1..Len(x) : Append(x, e)[j] = x[j]
    BY <1>1 DEF Core
  <2>. QED BY <1>1, <2>1, <2>2
<1>. QED BY <1>2, <1>3

(* What the entry i of x' is                                               *)
Stems(i) ==
  /\ (\E j \in DOMAIN x : x'[i].dir = x[j].dir) \/ (pc \in Mains /\ x'[i].dir = st)
  /\ \/ x'[i].pidlog = NoPid \/ x'[i].flaglog
     \/ \E j \in DOMAIN x : x'[i].pidlog = x[j].pidlog /\ x'[i].flaglog = x[j].flaglog

LEMMA StartMainStems ==
  ASSUME Inv, NEW main \in Mains, NEW half, NEW after, StartMain(main, half, after),
         NEW i \in DOMAIN x'
  PROVE  Stems(i)
<1>. DEFINE y == Table
<1>1. Core /\ pc \in Mains /\ (Known(st) \/ ~NoPipeLeft)
  BY CoreHolds DEF StartMain
<1>2. y \in Seq(Entry) /\ \A j \in DOMAIN y : y[j] \in Entry
  BY <1>1, TableFacts, EntrySeq
<1>3. x' = y \/ \E p : x' = [y EXCEPT ![Index(st)].pid = p]
  BY DEF StartMain
<1>4. \A j \in DOMAIN y :
        \/ y[j].dir = st /\ y[j].pidlog = NoPid
        \/ /\ j \in DOMAIN x /\ y[j].dir = x[j].dir
           /\ y[j].flaglog = x[j].flaglog /\ y[j].pidlog = x[j].pidlog
  BY <1>1, TableEntries
<1>. HIDE DEF y
<1>5. /\ i \in DOMAIN y /\ x'[i].dir = y[i].dir
      /\ x'[i].pidlog = y[i].pidlog /\ x'[i].flaglog = y[i].flaglog
  <2>1. CASE x' = y
    BY <2>1
  <2>2. ASSUME NEW p, x' = [y EXCEPT ![Index(st)].pid = p] PROVE <1>5!:
    <3>1. i \in DOMAIN y /\ y[i] \in Entry
      BY <1>2, <2>2
    <3>2. x'[i] = y[i] \/ x'[i] = [y[i] EXCEPT !.pid = p]
      BY <2>2, <3>1
    <3>. QED BY <3>1, <3>2 DEF Entry
  <2>. QED BY <1>3, <2>1, <2>2
<1>. QED BY <1>1, <1>4, <1>5 DEF Stems

LEMMA StartLogStems ==
  ASSUME Inv, NEW half \in Halves, NEW after, StartLog(half, after), NEW i \in DOMAIN x'
  PROVE  Stems(i)
<1>1. cur \in DOMAIN x /\ \A j \in DOMAIN x : x[j] \in Entry
  BY EntrySeq DEF StartLog, Inv, TypeOK, Halfway
<1>2. CASE x' = x
  BY <1>2 DEF Stems
<1>3. ASSUME NEW p, x[cur].flaglog, x' = [x EXCEPT ![cur].pidlog = p] PROVE Stems(i)
  <2>1. i \in DOMAIN x /\ x'[i].dir = x[i].dir /\ x'[i].flaglog = x[i].flaglog
    BY <1>1, <1>3 DEF Entry
  <2>2. i # cur => x'[i] = x[i]
    BY <1>1, <1>3
  <2>. QED BY <1>3, <2>1, <2>2 DEF Stems
<1>. QED BY <1>2, <1>3 DEF StartLog

LEMMA EntriesStem ==
  ASSUME Inv, Next, NEW i \in DOMAIN x'
  PROVE  Stems(i)
<1>1. DOMAIN x = 1..Len(x) /\ Len(x) \in Nat /\ \A j \in DOMAIN x : x[j] \in Entry
  BY EntrySeq DEF Inv, TypeOK
<1>2. CASE x' = x
  BY <1>2 DEF Stems
<1>3. CASE BootMain \/ ScanMain
  BY <1>2, <1>3, StartMainStems DEF BootMain, ScanMain, StartSkips, Mains
<1>4. CASE BootLog \/ ScanLog
  BY <1>4, StartLogStems DEF BootLog, ScanLog, Halves
<1>5. ASSUME NEW p \in Pids, Reap(p) PROVE Stems(i)
  <2>1. x' = Collected(p)
    BY <1>5 DEF Reap
  <2>2. i \in DOMAIN x
    BY <2>1 DEF Collected
  <2>3. /\ x'[i].dir = x[i].dir /\ x'[i].flaglog = x[i].flaglog
        /\ x'[i].pidlog \in {NoPid, x[i].pidlog}
    BY <1>1, <2>1, <2>2 DEF Collected, Entry
  <2>. QED BY <2>2, <2>3 DEF Stems
<1>6. CASE OpenDir
  <2>1. x' = [j \in DOMAIN x |-> [x[j] EXCEPT !.flagactive = FALSE]]
    BY <1>6 DEF OpenDir
  <2>2. i \in DOMAIN x /\ x'[i] = [x[i] EXCEPT !.flagactive = FALSE] /\ x[i] \in Entry
    BY <1>1, <2>1
  <2>3. x'[i].dir = x[i].dir /\ x'[i].flaglog = x[i].flaglog /\ x'[i].pidlog = x[i].pidlog
    BY <2>2 DEF Entry
  <2>. QED BY <2>2, <2>3 DEF Stems
<1>7. ASSUME Prune, x' # x PROVE Stems(i)
  <2>. DEFINE w == [x EXCEPT ![cur] = x[Len(x)]]
  <2>1. x' = SubSeq(w, 1, Len(x) - 1) /\ cur \in 1..Len(x)
    BY <1>1, <1>7 DEF Prune, Inv, TypeOK
  <2>2. Len(x) >= 1 /\ \A j \in 1..Len(x) - 1 : w[j] \in Entry
    BY <1>1, <2>1
  <2>3. \A j \in 1..Len(x) : w[j] = x[j] \/ w[j] = x[Len(x)]
    BY <1>1
  <2>. HIDE DEF w
  <2>4. Len(x') = Len(x) - 1 /\ x' \in Seq(Entry) /\ \A j \in 1..Len(x) - 1 : x'[j] = w[j]
    BY <1>1, <2>1, <2>2, SubSeqProperties
  <2>5. DOMAIN x' = 1..Len(x) - 1
    BY <2>4, EntrySeq
  <2>6. \E j \in DOMAIN x : x'[i] = x[j]
    BY <1>1, <2>2, <2>3, <2>4, <2>5
  <2>. QED BY <2>6 DEF Stems
<1>8. CASE BootAlone \/ BootPipe \/ BootStat \/ Test \/ (\E n \in Names : ReadDir(n)) \/ ReadEnd
           \/ catch_sig \/ Gone \/ (\E p \in Pids : ChildEnters(p) \/ ChildExits(p))
           \/ \E n \in Names : Edit(n)
  <2>1. x' = x
    BY <1>8 DEF BootAlone, BootPipe, BootStat, Stat, Test, ReadDir, ReadEnd, catch_sig, Gone, ChildEnters,
                ChildExits, Edit, vars, scan
  <2>. QED BY <1>2, <2>1
<1>. QED BY <1>2, <1>3, <1>4, <1>5, <1>6, <1>7, <1>8 DEF Next, Step

LEMMA TableNamedStep ==
  ASSUME Inv, Course, Next, TableNamed
  PROVE  TableNamed'
<1>1. \A d \in Dirs : Named(d) => Named(d)'
  <2>. SUFFICES ASSUME NEW d \in Dirs, Named(d), ~(UNCHANGED <<entry, gone>>) PROVE Named(d)'
    BY DEF Named
  <2>1. PICK n \in Names : Edit(n)
    BY OnlyEdits
  <2>2. gone' = gone \cup ({entry[n]} \ {NoDir}) /\ \A m \in Names : m # n => entry'[m] = entry[m]
    BY <2>1 DEF Edit
  <2>3. NoDir \notin Dirs
    BY SvscanAssumption
  <2>. QED BY <2>2, <2>3 DEF Named
<1>2. x \in Seq(Entry) /\ x' \in Seq(Entry)
  BY InvStep DEF Inv, TypeOK
<1>3. ASSUME NEW i \in DOMAIN x' PROVE x'[i].dir \in Dirs /\ Named(x'[i].dir)
  <2>1. x'[i].dir \in Dirs
    BY <1>2, EntrySeq DEF Entry
  <2>2. pc \in Mains => Named(st)
    BY DEF Course, Means, Named, Inv, Within
  <2>. QED BY <2>1, <2>2, EntriesStem DEF Stems, TableNamed
<1>4. \A d \in Dirs : Named(d)' <=> d \in gone' \/ \E n \in Names : entry'[n] = d
  BY DEF Named
<1>5. \A i \in DOMAIN x' : x'[i].dir \in gone' \/ \E n \in Names : entry'[n] = x'[i].dir
  BY <1>1, <1>3, <1>4
<1>. QED BY <1>5 DEF TableNamed, Named

LEMMA LogsFlaggedStep ==
  ASSUME Inv, Next, LogsFlagged
  PROVE  LogsFlagged'
  BY EntriesStem DEF LogsFlagged, Stems

(* A child whose directory start() has not found is none.                  *)
LEMMA ChildKnown ==
  ASSUME Inv, NEW p \in Pids, Live(p)
  PROVE  Known(child[p].dir) /\ child[p].dir \in Dirs
  BY DEF Inv, TypeOK, Child, Live, Known, Consistent, Held

(* The scan begins: the names of all children's directories are due.       *)
LEMMA OpenDirCounts ==
  ASSUME Inv, OpenDir, TableNamed, pc' = "scan", NEW p \in Pids, Live(p)
  PROVE  child[p].dir \in gone \/ \E n \in due' : entry[n] = child[p].dir
<1>1. due' = {n \in Names : entry[n] # NoDir}
  BY DEF OpenDir
<1>2. Named(child[p].dir) /\ child[p].dir \in Dirs
  BY ChildKnown DEF Known, TableNamed
<1>. QED BY <1>1, <1>2, SvscanAssumption DEF Named

(* start() looks for the entry of a child, and all_stopped remains set:    *)
(* the child is the log, and svscan has been told to exit.                 *)
LEMMA ScanMainCounts ==
  ASSUME Inv, ScanMain, failures' = 0, all_stopped', NEW p \in Pids, Live(p), st = child[p].dir
  PROVE  pc' = "scanlog" /\ x'[cur'].dir = child[p].dir /\ child[p].role = "log"
<1>. DEFINE y == Table
            i == Index(st)
<1>1. Core /\ Known(st)
  BY CoreHolds, ChildKnown
<1>2. ~Fails
  BY DEF Fails, Inv, TypeOK
<1>3. StartMain("scanmain", "scanlog", "scan")
  BY <1>1 DEF ScanMain, StartSkips
<1>4. pc \in Mains /\ cur' = i
  BY <1>3 DEF StartMain, Mains
<1>5. y[i].dir = st /\ i \in DOMAIN y /\ Consistent(y, child)
  BY <1>1, <1>4, TableFacts
<1>6. y[i].pid = NoPid /\ x' = y /\ pc' = "scanlog"
  BY <1>2, <1>3 DEF StartMain
<1>. HIDE DEF y, i
<1>7. child[p].state # "none" /\ child[p].role \in Roles
  BY DEF Live, Inv, TypeOK, Child
<1>8. PICK j \in DOMAIN y : y[j].dir = child[p].dir /\ Slot(y[j], child[p].role) = p
  BY <1>5, <1>7 DEF Consistent, Held
<1>9. j = i
  BY <1>5, <1>8 DEF Consistent, Distinct
<1>10. child[p].role # "main"
  BY <1>6, <1>8, <1>9, NoPidOutside DEF Slot
<1>. QED BY <1>4, <1>5, <1>6, <1>7, <1>10 DEF Roles

(* start() looks at the log of an entry, and all_stopped remains set: that *)
(* log is no child.                                                        *)
LEMMA ScanLogCounts ==
  ASSUME Inv, ScanLog, LogsFlagged, failures' = 0, all_stopped', NEW p \in Pids, Live(p),
         child[p].role = "log"
  PROVE  x[cur].dir # child[p].dir
<1>1. cur \in DOMAIN x
  BY DEF ScanLog, StartLog, Inv, Halfway, Halves
<1>2. ~Fails
  BY DEF Fails, Inv, TypeOK
<1>3. ~x[cur].flaglog \/ x[cur].pidlog = NoPid
  BY <1>2 DEF ScanLog, StartLog, KeepLog
<1>4. x[cur].pidlog = NoPid
  BY <1>1, <1>3 DEF LogsFlagged
<1>5. PICK j \in DOMAIN x : x[j].dir = child[p].dir /\ x[j].pidlog = p
  BY DEF Inv, Consistent, Held, Live, Slot
<1>6. j # cur
  BY <1>4, <1>5, NoPidOutside
<1>. QED BY <1>1, <1>5, <1>6 DEF Inv, Consistent, Distinct

(* In a turn that still has all_stopped children only end or enter.        *)
LEMMA TurnChildren ==
  ASSUME Inv, Next, failures' = 0, all_stopped', pc' \in Turn, NEW p \in Pids, Live(p)'
  PROVE  Live(p) /\ child'[p].dir = child[p].dir /\ child'[p].role = child[p].role
<1>1. CASE child' = child
  BY <1>1 DEF Live
<1>2. ASSUME NEW q \in Pids, ChildEnters(q) \/ ChildExits(q)
      PROVE  Live(p) /\ child'[p].dir = child[p].dir /\ child'[p].role = child[p].role
  <2>1. SameChildren(child, child')
    BY <1>2, EndedFacts, EntersFacts DEF ChildExits, Inv, TypeOK
  <2>. QED BY <2>1 DEF SameChildren, Live
<1>3. CASE BootMain \/ ScanMain
  BY <1>1, <1>3 DEF BootMain, ScanMain, StartMain, StartSkips
<1>4. CASE BootLog \/ ScanLog
  BY <1>1, <1>4 DEF BootLog, ScanLog, StartLog, KeepLog
<1>5. ASSUME NEW q \in Pids, Reap(q) PROVE FALSE
  BY <1>5 DEF Reap, Turn
<1>6. CASE BootAlone \/ BootPipe \/ BootStat \/ Test \/ OpenDir \/ (\E n \in Names : ReadDir(n))
           \/ ReadEnd \/ Prune \/ catch_sig \/ Gone \/ \E n \in Names : Edit(n)
  BY <1>1, <1>6 DEF BootAlone, BootPipe, BootStat, Stat, Test, OpenDir, ReadDir, ReadEnd, Prune,
                    catch_sig, Gone, Edit, vars
<1>. QED BY <1>2, <1>3, <1>4, <1>5, <1>6 DEF Next, Step

LEMMA DoneStep ==
  ASSUME Inv, Next, DoneStopped, failures' = 0
  PROVE  DoneStopped'
<1>1. ~Fails
  BY DEF Fails, Inv, TypeOK
<1>2. CASE pc' = "done" /\ pc # "done"
  <2>1. ~BootMain /\ ~ScanMain /\ ~BootLog /\ ~ScanLog /\ ~BootStat /\ \A n \in Names : ~ReadDir(n)
    BY <1>2 DEF BootMain, ScanMain, StartMain, StartSkips, BootLog, ScanLog, StartLog, BootStat, ReadDir,
                Stat, Return
  <2>2. Test
    BY <1>1, <1>2, <2>1 DEF Next, Step, BootAlone, BootPipe, Reap, OpenDir, ReadEnd, Prune, catch_sig,
                            Gone, ChildEnters, ChildExits, Edit, vars, scan
  <2>. QED BY <1>2, <2>2 DEF Test, DoneStopped
<1>3. CASE pc = "done"
  <2>1. ~Step
    BY <1>3 DEF Step, BootAlone, BootPipe, BootStat, BootMain, StartMain, StartSkips, BootLog, ScanMain,
                ScanLog, StartLog, Test, Reap, OpenDir, ReadDir, ReadEnd, Prune
  <2>2. all_stopped' = all_stopped
    BY <1>3, <2>1 DEF Next, catch_sig, Gone, ChildEnters, ChildExits, Edit, vars, scan
  <2>. QED BY <1>3, <2>2 DEF DoneStopped
<1>. QED BY <1>2, <1>3 DEF DoneStopped

LEMMA CountedStep ==
  ASSUME Inv, Next, TableNamed, LogsFlagged, Counted, failures' = 0
  PROVE  Counted'
<1>1. ~Fails
  BY DEF Fails, Inv, TypeOK
<1>2. SUFFICES ASSUME pc' \in Turn, all_stopped', NEW p \in Pids, Live(p)'
               PROVE  child'[p].dir \in gone' \/ Comes(p)'
  BY DEF Counted
<1>3. Live(p) /\ child'[p].dir = child[p].dir /\ child'[p].role = child[p].role
  BY <1>2, TurnChildren
<1>. DEFINE d == child[p].dir
            Due == pc \in {"scan", "scanmain", "scanlog"} /\ \E n \in due : entry[n] = d
            Read == pc = "scanmain" /\ st = d
            AtLog == pc = "scanlog" /\ x[cur].dir = d /\ child[p].role = "log"
            Due1 == pc' \in {"scan", "scanmain", "scanlog"} /\ \E n \in due' : entry'[n] = d
            Read1 == pc' = "scanmain" /\ st' = d
            AtLog1 == pc' = "scanlog" /\ x'[cur'].dir = d /\ child[p].role = "log"
<1>4. Comes(p)' <=> Due1 \/ Read1 \/ AtLog1
  BY <1>3 DEF Comes
<1>5. pc \in Turn /\ all_stopped => d \in gone \/ Due \/ Read \/ AtLog
  BY <1>3 DEF Counted, Comes
<1>6. SUFFICES d \in gone' \/ Due1 \/ Read1 \/ AtLog1
  BY <1>3, <1>4
<1>7. CASE OpenDir
  <2>1. pc' = "scan" /\ UNCHANGED <<entry, gone>>
    BY <1>1, <1>7 DEF OpenDir
  <2>. QED BY <1>3, <1>7, <2>1, OpenDirCounts
<1>8. ASSUME NEW n \in Names, ReadDir(n) PROVE d \in gone' \/ Due1 \/ Read1 \/ AtLog1
  <2>1. /\ pc = "scan" /\ due' = due \ {n} /\ UNCHANGED <<entry, gone, all_stopped>>
        /\ pc' \in {"scan", "scanmain"}
    BY <1>8 DEF ReadDir, Stat, Return
  <2>2. CASE entry[n] = d
    <3>1. ~Full(d)
      BY <1>3, ChildKnown DEF Full
    <3>. QED BY <1>1, <1>8, <2>2, <3>1 DEF ReadDir, Stat
  <2>3. CASE entry[n] # d
    BY <1>2, <1>5, <2>1, <2>3 DEF Turn
  <2>. QED BY <2>2, <2>3
<1>9. CASE ScanMain
  <2>1. CASE st = d
    BY <1>2, <1>3, <1>9, <2>1, ScanMainCounts
  <2>2. CASE st # d
    <3>1. /\ pc = "scanmain" /\ UNCHANGED <<entry, gone, due>> /\ pc' \in {"scan", "scanlog"}
          /\ all_stopped
      BY <1>2, <1>9 DEF ScanMain, StartMain, StartSkips, Return
    <3>. QED BY <1>5, <2>2, <3>1 DEF Turn
  <2>. QED BY <2>1, <2>2
<1>10. CASE ScanLog
  <2>1. pc = "scanlog" /\ pc' = "scan" /\ UNCHANGED <<entry, gone, due>> /\ all_stopped
    BY <1>2, <1>10 DEF ScanLog, StartLog, KeepLog, Return
  <2>2. ~AtLog
    BY <1>2, <1>3, <1>10, ScanLogCounts
  <2>. QED BY <1>5, <2>1, <2>2 DEF Turn
<1>11. CASE ReadEnd
  <2>1. pc = "scan" /\ due = {} /\ UNCHANGED <<gone, all_stopped>>
    BY <1>1, <1>11 DEF ReadEnd
  <2>. QED BY <1>2, <1>5, <2>1 DEF Turn
<1>12. CASE Test \/ Prune
  <2>1. pc \in {"test", "prune"} /\ UNCHANGED <<gone, all_stopped>>
    BY <1>12 DEF Test, Prune
  <2>. QED BY <1>2, <1>5, <2>1 DEF Turn
<1>13. CASE catch_sig \/ Gone \/ \E q \in Pids : ChildEnters(q) \/ ChildExits(q)
  <2>1. UNCHANGED <<pc, cur, x, st, due, entry, gone, all_stopped>>
    BY <1>13 DEF catch_sig, Gone, ChildEnters, ChildExits, vars, scan
  <2>. QED BY <1>2, <1>5, <2>1
<1>14. ASSUME NEW n \in Names, Edit(n) PROVE d \in gone' \/ Due1 \/ Read1 \/ AtLog1
  <2>1. /\ UNCHANGED <<pc, cur, x, st, all_stopped>> /\ due' = due \ {n}
        /\ gone' = gone \cup ({entry[n]} \ {NoDir}) /\ \A m \in Names : m # n => entry'[m] = entry[m]
        /\ due \subseteq Names
    BY <1>14 DEF Edit, Inv, TypeOK
  <2>2. d # NoDir
    BY <1>3, ChildKnown, SvscanAssumption
  <2>3. Due => d \in gone' \/ Due1
    BY <2>1, <2>2
  <2>. QED BY <1>2, <1>5, <2>1, <2>3
<1>15. CASE BootAlone \/ BootPipe \/ BootStat \/ BootMain \/ BootLog \/ \E q \in Pids : Reap(q)
  <2>1. pc' \in {"reap", "bootstat", "bootmain", "bootlog"}
    BY <1>1, <1>15 DEF BootAlone, BootPipe, BootStat, Stat, BootMain, StartMain, StartSkips, BootLog,
                       StartLog, Reap, Return
  <2>. QED BY <1>2, <2>1 DEF Turn
<1>. QED BY <1>7, <1>8, <1>9, <1>10, <1>11, <1>12, <1>13, <1>14, <1>15 DEF Next, Step

LEMMA FailuresGrow == ASSUME Inv, Next, failures' = 0 PROVE failures = 0
<1>1. failures \in Nat
  BY DEF Inv, TypeOK
<1>2. failures' = failures \/ failures' = failures + 1
  <2>1. CASE BootStat \/ BootMain \/ BootLog \/ ScanMain \/ ScanLog \/ \E n \in Names : ReadDir(n)
    BY <2>1 DEF BootStat, BootMain, BootLog, ScanMain, ScanLog, ReadDir, Stat, StartMain, StartSkips,
                StartLog, Fails, Succeeds
  <2>2. CASE BootPipe \/ OpenDir \/ ReadEnd
    BY <2>2 DEF BootPipe, OpenDir, ReadEnd, Fails, Succeeds
  <2>3. CASE BootAlone \/ Test \/ (\E q \in Pids : Reap(q)) \/ Prune \/ catch_sig \/ Gone
             \/ (\E q \in Pids : ChildEnters(q) \/ ChildExits(q)) \/ \E n \in Names : Edit(n)
    BY <2>3 DEF BootAlone, Test, Reap, Prune, catch_sig, Gone, ChildEnters, ChildExits, Edit, vars
  <2>. QED BY <2>1, <2>2, <2>3 DEF Next, Step
<1>. QED BY <1>1, <1>2

LEMMA LastStep == ASSUME Inv, Course, Last, [Next]_vars PROVE Last'
<1>1. CASE UNCHANGED vars
  BY <1>1 DEF vars, scan, Last, TableNamed, Named, LogsFlagged, Counted, Comes, DoneStopped, Live
<1>2. CASE Next
  <2>1. TableNamed' /\ LogsFlagged'
    BY <1>2, TableNamedStep, LogsFlaggedStep DEF Last
  <2>2. failures' = 0 => Counted' /\ DoneStopped'
    BY <1>2, FailuresGrow, CountedStep, DoneStep DEF Last
  <2>. QED BY <2>1, <2>2 DEF Last
<1>. QED BY <1>1, <1>2

(* When svscan exits its children have exited, but those of directories    *)
(* that lost a name: in its last turn readdir() has returned the name of   *)
(* every other one, and start() has found that it does not run.            *)
THEOREM LastToExit == Spec => []ExitsLast
<1>1. Init => Last
  <2>. SUFFICES ASSUME Init PROVE Last
    OBVIOUS
  <2>1. DOMAIN x = {} /\ pc = "boot"
    BY DEF Init
  <2>. QED BY <2>1 DEF Last, TableNamed, LogsFlagged, Counted, Turn, DoneStopped
<1>2. Inv /\ Course /\ Last /\ [Next]_vars => Last'
  BY LastStep
<1>3. Last => ExitsLast
  BY DEF Last, Counted, DoneStopped, Turn, Comes, ExitsLast
<1>. QED BY <1>1, <1>2, <1>3, ScanInvariant, CourseHolds, PTL DEF Spec

=============================================================================
