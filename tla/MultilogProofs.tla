---------------------------- MODULE MultilogProofs ----------------------------
(***************************************************************************)
(* multilog's line loop, for any characters, sizes, input, signals and     *)
(* scripts: it never leaves its buffers, it stops at the end of a line,    *)
(* and the log holds the lines that the script selects.                    *)
(*                                                                         *)
(* What the script does with a line and what the lines of an input are     *)
(* (Acted, Split, match_simple) are functions that go through a sequence;  *)
(* Recursion says that such functions exist, and CountUp is the induction  *)
(* that follows them.  Stops and Term are the invariants about where       *)
(* multilog stops, Lines the one about what has gone to the log.           *)
(***************************************************************************)
EXTENDS Multilog, SequenceTheorems, WellFoundedInduction, TLAPS

-----------------------------------------------------------------------------
(* Sequences                                                               *)

LEMMA LeadingIs ==
  ASSUME NEW C, NEW s \in Seq(C), NEW n \in Nat
  PROVE  /\ Leading(s, n) \in Seq(C) /\ Len(Leading(s, n)) = Least(n, Len(s))
         /\ Least(n, Len(s)) \in 0..Len(s) /\ Least(n, Len(s)) <= n
         /\ \A i \in 1..Least(n, Len(s)) : Leading(s, n)[i] = s[i]
BY DEF Leading, Least

LEMMA RestIs ==
  ASSUME NEW C, NEW s \in Seq(C), NEW n \in 0..Len(s)
  PROVE  /\ Rest(s, n) \in Seq(C) /\ Len(Rest(s, n)) = Len(s) - n
         /\ \A i \in 1..Len(s) - n : Rest(s, n)[i] = s[n + i]
BY DEF Rest

LEMMA LeastOne ==
  ASSUME NEW S \in SUBSET Nat, S # {}
  PROVE  \E k \in S : \A j \in S : k <= j
<1>. DEFINE R == OpToRel(<, Nat)
<1>1. IsWellFoundedOn(R, Nat)
  BY NatLessThanWellFounded
<1>2. \A a, b \in Nat : a < b => <<a, b>> \in R
  BY DEF OpToRel
<1>. HIDE DEF R
<1>3. PICK k \in S : \A j \in S : ~(<<j, k>> \in R)
  BY <1>1, WFMin
<1>4. ASSUME NEW j \in S PROVE k <= j
  <2>1. ~(j < k)
    BY <1>2, <1>3
  <2>. QED BY <2>1
<1>. QED BY <1>4

(* What UpToNl chooses: the first newline, if there is one.                *)
LEMMA UpToNlIs ==
  ASSUME NEW s \in Seq(Chars)
  PROVE  /\ UpToNl(s) \in 0..Len(s)
         /\ UpToNl(s) < Len(s) => s[UpToNl(s) + 1] = nl
         /\ \A j \in 1..UpToNl(s) : s[j] # nl
<1>. DEFINE S == {k \in DOMAIN s : s[k] = nl}
            P(k) == s[k] = nl /\ \A j \in 1..k - 1 : s[j] # nl
<1>1. CASE S = {}
  BY <1>1 DEF UpToNl
<1>2. CASE S # {}
  <2>1. PICK k \in S : \A j \in S : k <= j
    <3>1. S \in SUBSET Nat
      OBVIOUS
    <3>. HIDE DEF S
    <3>. QED BY <1>2, <3>1, LeastOne
  <2>2. \A j \in 1..k - 1 : s[j] # nl
    BY <2>1
  <2>3. \E i \in DOMAIN s : P(i)
    BY <2>1, <2>2
  <2>. DEFINE c == CHOOSE i \in DOMAIN s : P(i)
  <2>4. c \in DOMAIN s /\ P(c)
    BY <2>3
  <2>5. UpToNl(s) = c - 1
    BY <1>2 DEF UpToNl
  <2>. HIDE DEF c
  <2>. QED BY <2>4, <2>5
<1>. QED BY <1>1, <1>2

(* Induction up to n, over a set instead of a predicate.                   *)
LEMMA CountUp ==
  ASSUME NEW n \in Nat, NEW P, 0 \in P, \A k \in 1..n : k - 1 \in P => k \in P
  PROVE  \A k \in 0..n : k \in P
<1>. DEFINE S == {k \in 0..n : k \notin P}
<1>1. CASE S = {}
  BY <1>1
<1>2. CASE S # {}
  <2>1. PICK k \in S : \A j \in S : k <= j
    <3>1. S \in SUBSET Nat
      OBVIOUS
    <3>. HIDE DEF S
    <3>. QED BY <1>2, <3>1, LeastOne
  <2>2. k \in 1..n /\ k \notin P
    OBVIOUS
  <2>3. k - 1 \notin S
    <3>1. ~(k <= k - 1)
      BY <2>2
    <3>. HIDE DEF S
    <3>. QED BY <2>1, <3>1
  <2>. QED BY <2>2, <2>3
<1>. QED BY <1>1, <1>2

(* g begins with base and goes on as T does.                               *)
Runs(g, n, base, T) == g[0] = base /\ \A k \in 1..n : g[k] = T[g[k - 1]][k]

LEMMA Recursion ==
  ASSUME NEW n \in Nat, NEW S, NEW base \in S, NEW T \in [S -> [1..n -> S]]
  PROVE  \E g \in [0..n -> S] : Runs(g, n, base, T)
<1>. DEFINE P == {m \in 0..n : \E g \in [0..m -> S] : Runs(g, m, base, T)}
<1>1. 0 \in P
  <2>1. [k \in 0..0 |-> base] \in [0..0 -> S] /\ Runs([k \in 0..0 |-> base], 0, base, T)
    BY DEF Runs
  <2>. QED BY <2>1
<1>. SUFFICES n \in P
  OBVIOUS
<1>2. ASSUME NEW m \in 1..n, m - 1 \in P PROVE m \in P
  <2>1. PICK g \in [0..m - 1 -> S] : Runs(g, m - 1, base, T)
    BY <1>2
  <2>2. g[0] = base /\ \A k \in 1..m - 1 : g[k] = T[g[k - 1]][k]
    BY <2>1 DEF Runs
  <2>. HIDE DEF P
  <2>. DEFINE h == [k \in 0..m |-> IF k = m THEN T[g[m - 1]][m] ELSE g[k]]
  <2>3. T[g[m - 1]][m] \in S
    <3>1. m - 1 \in 0..m - 1
      BY <1>2
    <3>2. g[m - 1] \in S
      BY <3>1, <2>2
    <3>. QED BY <3>2
  <2>4. h \in [0..m -> S]
    <3>1. ASSUME NEW k \in 0..m, k # m PROVE g[k] \in S
      <4>1. k \in 0..m - 1
        BY <3>1
      <4>. QED BY <4>1, <2>2
    <3>. QED BY <2>3, <3>1
  <2>5. h[m] = T[g[m - 1]][m] /\ \A k \in 0..m - 1 : h[k] = g[k]
    OBVIOUS
  <2>. HIDE DEF h
  <2>6. 0 \in 0..m - 1 /\ m - 1 \in 0..m - 1
    BY <1>2
  <2>7. h[0] = base /\ h[m] = T[h[m - 1]][m]
    BY <2>2, <2>5, <2>6
  <2>8. ASSUME NEW k \in 1..m PROVE h[k] = T[h[k - 1]][k]
    <3>1. CASE k = m
      BY <3>1, <2>7
    <3>2. CASE k # m
      <4>1. k \in 1..m - 1 /\ k \in 0..m - 1 /\ k - 1 \in 0..m - 1
        BY <3>2
      <4>. QED BY <4>1, <2>2, <2>5
    <3>. QED BY <3>1, <3>2
  <2>9. Runs(h, m, base, T)
    BY <2>7, <2>8 DEF Runs
  <2>. QED BY <2>4, <2>9 DEF P
<1>3. \A k \in 0..n : k \in P
  <2>. HIDE DEF P
  <2>. QED BY <1>1, <1>2, CountUp
<1>. QED BY <1>3

-----------------------------------------------------------------------------
(* Types                                                                   *)

Modes == {"simple", "fnmatch"}
Outcome == [selected : BOOLEAN, match : Modes, written : BOOLEAN, log : BOOLEAN]

(* What an action of the script does to the outcome of those before it     *)
Turn(text, r, k) ==
  LET a == Script[k]
      hit == IF r.match = "simple" THEN match_simple(a.pattern, text)
                                   ELSE match_fnmatch(a.pattern, text)
  IN CASE a.op = "F" -> [r EXCEPT !.match = "fnmatch"]
       [] a.op = "S" -> [r EXCEPT !.match = "simple"]
       [] a.op = "+" -> [r EXCEPT !.selected = @ \/ hit]
       [] a.op = "-" -> [r EXCEPT !.selected = @ /\ ~hit]
       [] a.op = "=" -> [r EXCEPT !.written = @ \/ r.selected]
       [] a.op = "." -> [r EXCEPT !.log = r.selected]

Fresh(fn) == [selected |-> TRUE, match |-> fn, written |-> FALSE, log |-> FALSE]

LEMMA TurnType ==
  ASSUME NEW text, NEW r \in Outcome, NEW k \in 1..Len(Script)
  PROVE  Turn(text, r, k) \in Outcome
<1>1. Script[k].op \in {"+", "-", "F", "S", "=", "."}
  <2>. DEFINE R == [op : {"+", "-", "F", "S", "=", "."}, pattern : Seq(Chars \cup {"*", "?"})]
  <2>1. Script \in Seq(R)
    BY MultilogAssumption
  <2>2. \A a \in R : a.op \in {"+", "-", "F", "S", "=", "."}
    OBVIOUS
  <2>. HIDE DEF R
  <2>. QED BY <2>1, <2>2
<1>. QED BY <1>1 DEF Turn, Outcome, Modes

(* Acted() goes through the script once.                                   *)
LEMMA ActedTurns ==
  ASSUME NEW text, match \in Modes
  PROVE  \E g \in [0..Len(Script) -> Outcome] :
           /\ g[0] = Fresh(match) /\ \A k \in 1..Len(Script) : g[k] = Turn(text, g[k - 1], k)
           /\ Acted(text) = g[Len(Script)]
<1>. DEFINE n == Len(Script)
            Body(g, k) == IF k = 0 THEN Fresh(match) ELSE Turn(text, g[k - 1], k)
            f == CHOOSE g : g = [k \in 0..n |-> Body(g, k)]
            T == [r \in Outcome |-> [k \in 1..n |-> Turn(text, r, k)]]
<1>1. n \in Nat /\ Fresh(match) \in Outcome
  BY MultilogAssumption DEF Fresh, Outcome
<1>2. T \in [Outcome -> [1..n -> Outcome]]
  BY TurnType
<1>3. Acted(text) = f[n]
  BY DEF Acted, Turn, Fresh
<1>. HIDE DEF n
<1>4. \A r \in Outcome : \A k \in 1..n : T[r][k] = Turn(text, r, k)
  OBVIOUS
<1>. HIDE DEF T
<1>5. PICK g \in [0..n -> Outcome] : Runs(g, n, Fresh(match), T)
  BY <1>1, <1>2, Recursion
<1>6. g[0] = Fresh(match) /\ \A k \in 1..n : g[k] = T[g[k - 1]][k]
  BY <1>5 DEF Runs
<1>7. ASSUME NEW k \in 1..n PROVE g[k] = Turn(text, g[k - 1], k)
  <2>1. k - 1 \in 0..n
    BY <1>1
  <2>. QED BY <1>4, <1>6, <2>1
<1>8. g = [k \in 0..n |-> Body(g, k)]
  BY <1>1, <1>6, <1>7
<1>9. f = [k \in 0..n |-> Body(f, k)]
  <2>. HIDE DEF Body
  <2>. QED BY <1>8
<1>. HIDE DEF f
<1>10. f[0] = Fresh(match) /\ \A k \in 1..n : f[k] = Turn(text, f[k - 1], k)
  BY <1>1, <1>9
<1>11. \A k \in 0..n : k \in {m \in 0..n : f[m] = g[m]}
  <2>. DEFINE P == {m \in 0..n : f[m] = g[m]}
  <2>1. 0 \in P
    BY <1>1, <1>6, <1>10
  <2>2. ASSUME NEW k \in 1..n, k - 1 \in P PROVE k \in P
    BY <1>1, <1>7, <1>10, <2>2
  <2>. HIDE DEF P
  <2>3. \A k \in 0..n : k \in P
    BY <1>1, <2>1, <2>2, CountUp
  <2>. QED BY <2>3 DEF P
<1>12. f[n] = g[n]
  BY <1>1, <1>11
<1>. QED BY <1>3, <1>6, <1>7, <1>12 DEF n

LEMMA ActedType ==
  ASSUME NEW text, match \in Modes
  PROVE  Acted(text) \in Outcome
<1>1. Len(Script) \in 0..Len(Script)
  BY MultilogAssumption
<1>. QED BY <1>1, ActedTurns

Logs == logbuf \in Seq(Chars) /\ Len(logbuf) <= LogSize /\ log \in Seq(Chars) /\ bytes \in Nat

(* The log and its buffer together grow by what is put into the buffer.    *)
LEMMA BufferPutDoes ==
  ASSUME Logs, NEW s \in Seq(Chars), BufferPut(s)
  PROVE  Logs' /\ log' \o logbuf' = (log \o logbuf) \o s
<1>. USE MultilogAssumption DEF Logs
<1>1. CASE Len(logbuf) + Len(s) <= LogSize
  <2>1. logbuf' = logbuf \o s /\ log' = log /\ bytes' = bytes
    BY <1>1 DEF BufferPut
  <2>2. log \o (logbuf \o s) = (log \o logbuf) \o s
    OBVIOUS
  <2>. QED BY <1>1, <2>1, <2>2
<1>2. CASE ~(Len(logbuf) + Len(s) <= LogSize) /\ Len(s) > LogSize
  <2>1. log' = log \o (logbuf \o s) /\ bytes' = bytes + Len(logbuf \o s) /\ logbuf' = <<>>
    <3>1. s # <<>>
      BY <1>2
    <3>. QED BY <1>2, <3>1 DEF BufferPut
  <2>2. log \o (logbuf \o s) = (log \o logbuf) \o s
    OBVIOUS
  <2>. QED BY <2>1, <2>2
<1>3. CASE ~(Len(logbuf) + Len(s) <= LogSize) /\ ~(Len(s) > LogSize)
  <2>1. log' = log \o logbuf /\ bytes' = bytes + Len(logbuf) /\ logbuf' = s
    <3>1. logbuf \o <<>> = logbuf
      OBVIOUS
    <3>. QED BY <1>3, <3>1 DEF BufferPut
  <2>. QED BY <1>3, <2>1
<1>. QED BY <1>1, <1>2, <1>3

LEMMA BufferFlushDoes ==
  ASSUME Logs, BufferFlush
  PROVE  /\ logbuf' \in Seq(Chars) /\ Len(logbuf') <= LogSize /\ log' \in Seq(Chars)
         /\ log' \o logbuf' = log \o logbuf
BY MultilogAssumption DEF Logs, BufferFlush

(* line with what buffer_gets() adds to it                                 *)
Filled(i) == [k \in DOMAIN line |-> IF k \in linelen + 1 .. linelen + i
                                   THEN inbuf[k - linelen] ELSE line[k]]

LEMMA FilledType ==
  ASSUME TypeOK, NEW i \in 0..MAXLINE - linelen, i <= Len(inbuf)
  PROVE  /\ Filled(i) \in [1..MAXLINE + 1 -> Chars]
         /\ linelen + i \in 0..MAXLINE
         /\ SubSeq(Filled(i), 1, linelen + i) = SubSeq(line, 1, linelen) \o SubSeq(inbuf, 1, i)
<1>. USE MultilogAssumption
<1>1. /\ line \in [1..MAXLINE + 1 -> Chars] /\ inbuf \in Seq(Chars) /\ linelen \in 0..MAXLINE
      /\ MAXLINE \in Nat
  BY DEF TypeOK
<1>2. Filled(i) \in [1..MAXLINE + 1 -> Chars]
  <2>1. ASSUME NEW k \in 1..MAXLINE + 1, k \in linelen + 1 .. linelen + i
        PROVE  inbuf[k - linelen] \in Chars
    <3>1. k - linelen \in 1..Len(inbuf)
      BY <1>1, <2>1
    <3>. QED BY <1>1, <3>1
  <2>. QED BY <1>1, <2>1 DEF Filled
<1>3. linelen + i \in 0..MAXLINE
  BY <1>1
<1>4. SubSeq(Filled(i), 1, linelen + i) = SubSeq(line, 1, linelen) \o SubSeq(inbuf, 1, i)
  <2>. DEFINE A == SubSeq(Filled(i), 1, linelen + i)
              B == SubSeq(line, 1, linelen)
              I == SubSeq(inbuf, 1, i)
  <2>1. /\ A \in Seq(Chars) /\ Len(A) = linelen + i
        /\ \A k \in 1..linelen + i : A[k] = Filled(i)[k]
    <3>1. Filled(i) \in Seq(Chars) /\ Len(Filled(i)) = MAXLINE + 1
      BY <1>1, <1>2
    <3>. QED BY <1>1, <1>3, <3>1
  <2>2. B \in Seq(Chars) /\ Len(B) = linelen /\ \A k \in 1..linelen : B[k] = line[k]
    <3>1. line \in Seq(Chars) /\ Len(line) = MAXLINE + 1
      BY <1>1
    <3>. QED BY <1>1, <3>1
  <2>3. I \in Seq(Chars) /\ Len(I) = i /\ \A k \in 1..i : I[k] = inbuf[k]
    BY <1>1
  <2>4. ASSUME NEW k \in 1..linelen + i
        PROVE  Filled(i)[k] = IF k <= linelen THEN line[k] ELSE inbuf[k - linelen]
    BY <1>1, <1>3, <2>4 DEF Filled
  <2>. HIDE DEF A, B, I
  <2>5. /\ B \o I \in Seq(Chars) /\ Len(B \o I) = linelen + i
        /\ \A k \in 1..linelen + i : (B \o I)[k] = IF k <= linelen THEN B[k] ELSE I[k - linelen]
    BY <2>2, <2>3, ConcatProperties, ZenonT(30)
  <2>6. ASSUME NEW k \in 1..linelen + i PROVE A[k] = (B \o I)[k]
    <3>1. A[k] = Filled(i)[k] /\ i \in Nat /\ linelen \in Nat
      BY <1>1, <2>1
    <3>2. CASE k <= linelen
      <4>1. k \in 1..linelen /\ B[k] = line[k]
        BY <2>2, <3>1, <3>2
      <4>. QED BY <2>4, <2>5, <3>1, <3>2, <4>1
    <3>3. CASE ~(k <= linelen)
      <4>1. k - linelen \in 1..i
        BY <3>1, <3>3
      <4>2. I[k - linelen] = inbuf[k - linelen]
        BY <2>3, <4>1
      <4>. QED BY <2>4, <2>5, <3>1, <3>3, <4>2
    <3>. QED BY <3>2, <3>3
  <2>7. A = B \o I
    BY <2>1, <2>5, <2>6, SeqEqual
  <2>. QED BY <2>7 DEF A, B, I
<1>. QED BY <1>2, <1>3, <1>4

LEMMA TextIs ==
  ASSUME TypeOK
  PROVE  /\ Text \in Seq(Chars) /\ Len(Text) = linelen
         /\ \A k \in 1..linelen : Text[k] = line[k]
<1>1. line \in Seq(Chars) /\ Len(line) = MAXLINE + 1 /\ linelen \in 0..MAXLINE
  BY MultilogAssumption DEF TypeOK
<1>. QED BY <1>1, MultilogAssumption DEF Text

LEMMA PaddedType == TypeOK => Padded \in [1..MAXLINE + 1 -> Chars]
BY MultilogAssumption DEF TypeOK, Padded

LEMMA LogsType == TypeOK => Logs
BY DEF TypeOK, Logs

LEMMA TypeInit == Init => TypeOK
<1>1. Padding \in [1..MAXLINE + 1 -> Chars]
  BY MultilogAssumption DEF Padding
<1>2. <<>> \in Seq(Chars) /\ Len(<<>>) = 0
  OBVIOUS
<1>3. /\ [k \in Signals |-> MaxInput + 1] \in [Signals -> 0..MaxInput + 1] /\ 0 \in 0..MAXLINE
      /\ MAXLINE + 1 \in 0..MAXLINE + 1 /\ 0 <= LogSize
  BY MultilogAssumption
<1>. SUFFICES ASSUME Init PROVE TypeOK
  OBVIOUS
<1>4. {pipe, seen, inbuf, logbuf, log, status} \subseteq Seq(Chars) /\ open \in BOOLEAN
  BY <1>2 DEF Init
<1>5. {flagexitasap, flagforcerotate, flagnewline, flageof, flagselected} \subseteq BOOLEAN
  BY Zenon DEF Init
<1>6. /\ pending \subseteq Signals /\ sent \in [Signals -> 0..MaxInput + 1] /\ pc \in Places
      /\ ret \in {"top", "gets", "more"} /\ match \in {"simple", "fnmatch"}
  BY <1>3 DEF Init, Places
<1>7. /\ line \in [1..MAXLINE + 1 -> Chars] /\ linelen \in 0..MAXLINE
      /\ oldlinelen \in 0..MAXLINE + 1
  BY <1>1, <1>3 DEF Init
<1>8. Len(logbuf) <= LogSize /\ bytes \in Nat
  BY <1>2, <1>3 DEF Init
<1>. QED BY <1>4, <1>5, <1>6, <1>7, <1>8 DEF TypeOK

(* Every action but those on the log's buffer leaves the log alone.        *)
LEMMA LogsStep ==
  ASSUME TypeOK, [Next]_vars
  PROVE  Logs'
<1>. USE LogsType
<1>1. CASE FlushLogs
  <2>1. bytes' \in Nat
    BY <1>1, MultilogAssumption DEF FlushLogs, TypeOK
  <2>. QED BY <1>1, <2>1, BufferFlushDoes DEF FlushLogs, Logs
<1>2. CASE Quit
  <2>1. bytes' \in Nat
    BY <1>2, MultilogAssumption DEF Quit, TypeOK
  <2>. QED BY <1>2, <2>1, BufferFlushDoes DEF Quit, Logs
<1>3. CASE Act \/ Got
  <2>1. BufferPut(Text) \/ UNCHANGED logs
    BY <1>3 DEF Act, Got
  <2>. QED BY <2>1, TextIs, BufferPutDoes DEF logs, Logs
<1>4. CASE End
  <2>1. BufferPut(<<nl>>) \/ UNCHANGED logs
    BY <1>4 DEF End
  <2>2. <<nl>> \in Seq(Chars)
    BY MultilogAssumption
  <2>. QED BY <2>1, <2>2, BufferPutDoes DEF logs, Logs
<1>5. CASE UNCHANGED logs
  BY <1>5 DEF logs, Logs
<1>6. CASE ExitAsap \/ Unblock \/ Block \/ Read \/ EndOfFile \/ ReadError
  BY <1>5, <1>6 DEF ExitAsap, Unblock, Block, Read, EndOfFile, ReadError
<1>7. CASE Top \/ Gets("gets", "act") \/ Gets("more", "got")
  BY <1>5, <1>7 DEF Top, Gets
<1>8. CASE (\E s \in Signals : Signal(s)) \/ WriteInput \/ CloseInput
  BY <1>5, <1>8 DEF Signal, WriteInput, CloseInput
<1>9. CASE UNCHANGED vars
  BY <1>5, <1>9 DEF vars, logs
<1>. QED BY <1>1, <1>2, <1>3, <1>4, <1>6, <1>7, <1>8, <1>9 DEF Next, Flushread, Doit

LEMMA FeedStep ==
  ASSUME TypeOK, Next, Flushread
  PROVE  TypeOK'
<1>. USE MultilogAssumption
<1>1. Logs'
  BY LogsStep
<1>2. CASE FlushLogs
  BY <1>1, <1>2 DEF FlushLogs, TypeOK, Logs, Places, input, lines, picks
<1>3. CASE ExitAsap \/ EndOfFile \/ ReadError
  BY <1>1, <1>3 DEF ExitAsap, EndOfFile, ReadError, NoMore, TypeOK, Logs, Places, input, signals, lines, picks, logs
<1>4. CASE Unblock \/ Block
  BY <1>1, <1>4 DEF Unblock, Block, TypeOK, Logs, Places, Reading, input, signals, lines, picks, logs
<1>5. CASE Read
  <2>1. PICK n \in 1..Least(IF pc \in {"read", "blocked"} THEN ReadSize ELSE 1, Len(pipe)) :
          /\ inbuf' = Leading(pipe, n) /\ pipe' = Rest(pipe, n)
          /\ seen' = seen \o inbuf' /\ flagnewline' = (inbuf'[n] = nl)
    BY <1>5 DEF Read
  <2>2. pipe \in Seq(Chars) /\ seen \in Seq(Chars)
    BY DEF TypeOK
  <2>3. n \in 0..Len(pipe) /\ n \in Nat
    BY <2>1, <2>2 DEF Least
  <2>4. inbuf' \in Seq(Chars) /\ pipe' \in Seq(Chars)
    BY <2>1, <2>2, <2>3, LeadingIs, RestIs
  <2>5. seen' \in Seq(Chars) /\ flagnewline' \in BOOLEAN
    BY <2>1, <2>2, <2>4
  <2>. QED BY <1>1, <1>5, <2>4, <2>5 DEF Read, TypeOK, Logs, Places, signals, lines, picks, logs
<1>. QED BY <1>2, <1>3, <1>4, <1>5 DEF Flushread

LEMMA GetsDoes ==
  ASSUME TypeOK, NEW here, NEW next, Gets(here, next)
  PROVE  \/ /\ linelen < MAXLINE /\ Feed(here) /\ UNCHANGED <<inbuf, line, linelen>>
         \/ /\ linelen = MAXLINE /\ pc' = next /\ UNCHANGED <<inbuf, line, linelen, ret>>
         \/ /\ linelen < MAXLINE /\ inbuf # <<>> /\ UpToNl(inbuf) = 0
            /\ pc' = next /\ inbuf' = Rest(inbuf, 1) /\ inbuf[1] = nl
            /\ Text' = Text /\ linelen' = linelen /\ line' = line /\ UNCHANGED ret
         \/ \E i \in 1..Len(inbuf) :
              /\ linelen < MAXLINE /\ inbuf # <<>> /\ i <= UpToNl(inbuf)
              /\ pc' = here /\ inbuf' = Rest(inbuf, i)
              /\ line' \in [1..MAXLINE + 1 -> Chars] /\ linelen' = linelen + i
              /\ linelen' \in 0..MAXLINE /\ Text' = Text \o SubSeq(inbuf, 1, i) /\ UNCHANGED ret
<1>. USE MultilogAssumption
<1>. DEFINE n == UpToNl(inbuf)
            i == Least(n, MAXLINE - linelen)
<1>1. inbuf \in Seq(Chars) /\ linelen \in 0..MAXLINE /\ line \in [1..MAXLINE + 1 -> Chars]
  BY DEF TypeOK
<1>2. n \in 0..Len(inbuf) /\ (n < Len(inbuf) => inbuf[n + 1] = nl)
  BY <1>1, UpToNlIs
<1>3. CASE linelen < MAXLINE /\ inbuf # <<>> /\ n = 0 /\ pc' = next /\ inbuf' = Rest(inbuf, 1)
           /\ line' = Filled(i) /\ linelen' = linelen + i /\ UNCHANGED ret
  <2>1. i = 0 /\ linelen' = linelen
    BY <1>1, <1>3 DEF Least
  <2>2. line' = line
    BY <1>1, <1>3, <2>1 DEF Filled
  <2>3. inbuf[1] = nl
    BY <1>1, <1>2, <1>3
  <2>. QED BY <1>3, <2>1, <2>2, <2>3 DEF Text
<1>4. CASE linelen < MAXLINE /\ inbuf # <<>> /\ n # 0 /\ pc' = here /\ inbuf' = Rest(inbuf, i)
           /\ line' = Filled(i) /\ linelen' = linelen + i /\ UNCHANGED ret
  <2>1. i \in 1..Len(inbuf) /\ i \in 0..MAXLINE - linelen /\ i <= Len(inbuf) /\ i <= n
    BY <1>1, <1>2, <1>4 DEF Least
  <2>. HIDE DEF i
  <2>2. /\ Filled(i) \in [1..MAXLINE + 1 -> Chars] /\ linelen + i \in 0..MAXLINE
        /\ SubSeq(Filled(i), 1, linelen + i) = SubSeq(line, 1, linelen) \o SubSeq(inbuf, 1, i)
    BY <2>1, FilledType
  <2>3. Text' = Text \o SubSeq(inbuf, 1, i)
    BY <1>4, <2>2 DEF Text
  <2>. QED BY <1>4, <2>1, <2>2, <2>3
<1>. QED
  BY <1>3, <1>4 DEF Gets, Filled

(* What read() takes from stdin                                            *)
LEMMA ReadDoes ==
  ASSUME TypeOK, Read
  PROVE  \E n \in 1..Len(pipe) :
           /\ n <= (IF pc \in {"read", "blocked"} THEN ReadSize ELSE 1)
           /\ inbuf' \in Seq(Chars) /\ Len(inbuf') = n /\ inbuf' # <<>>
           /\ seen' = seen \o inbuf' /\ Len(seen') = Len(seen) + n
           /\ Len(pipe') = Len(pipe) - n
           /\ \A k \in 1..Len(seen) : seen'[k] = seen[k]
           /\ seen'[Len(seen')] = inbuf'[n] /\ flagnewline' = (inbuf'[n] = nl)
<1>. USE MultilogAssumption
<1>1. PICK n \in 1..Least(IF pc \in {"read", "blocked"} THEN ReadSize ELSE 1, Len(pipe)) :
        /\ inbuf' = Leading(pipe, n) /\ pipe' = Rest(pipe, n)
        /\ seen' = seen \o inbuf' /\ flagnewline' = (inbuf'[n] = nl)
  BY DEF Read
<1>2. pipe \in Seq(Chars) /\ seen \in Seq(Chars)
  BY DEF TypeOK
<1>3. /\ n \in 0..Len(pipe) /\ n \in Nat /\ n \in 1..Len(pipe) /\ Least(n, Len(pipe)) = n
      /\ n <= (IF pc \in {"read", "blocked"} THEN ReadSize ELSE 1)
  BY <1>1, <1>2 DEF Least
<1>4. /\ inbuf' \in Seq(Chars) /\ Len(inbuf') = n /\ Len(pipe') = Len(pipe) - n
  BY <1>1, <1>2, <1>3, LeadingIs, RestIs
<1>5. /\ Len(seen') = Len(seen) + n
      /\ \A k \in 1..Len(seen) + n : seen'[k] = IF k <= Len(seen) THEN seen[k] ELSE inbuf'[k - Len(seen)]
  BY <1>1, <1>2, <1>4, ConcatProperties
<1>6. seen'[Len(seen')] = inbuf'[n] /\ \A k \in 1..Len(seen) : seen'[k] = seen[k]
  <2>1. Len(seen) \in Nat
    BY <1>2
  <2>. QED BY <1>3, <1>5, <2>1
<1>7. inbuf' # <<>>
  BY <1>3, <1>4
<1>. QED BY <1>1, <1>3, <1>4, <1>5, <1>6, <1>7

(* No more is written to stdin than the bound allows.                      *)
Bounded == Len(seen) + Len(pipe) <= MaxInput

LEMMA BoundedStep ==
  ASSUME TypeOK, Bounded, [Next]_vars
  PROVE  Bounded'
<1>. USE MultilogAssumption
<1>1. seen \in Seq(Chars) /\ pipe \in Seq(Chars)
  BY DEF TypeOK
<1>2. CASE Read
  BY <1>1, <1>2, ReadDoes DEF Bounded
<1>3. CASE WriteInput
  BY <1>1, <1>3 DEF WriteInput, Bounded
<1>4. CASE UNCHANGED <<pipe, seen>>
  BY <1>4 DEF Bounded
<1>5. CASE (Flushread /\ ~Read) \/ Doit \/ (\E s \in Signals : Signal(s)) \/ CloseInput \/ UNCHANGED vars
  BY <1>4, <1>5
  DEF Flushread, FlushLogs, ExitAsap, Unblock, Block, EndOfFile, ReadError, Doit, Top, Gets, Act, Got,
      End, Quit, Signal, CloseInput, input, vars
<1>. QED BY <1>2, <1>3, <1>5 DEF Next, Flushread

LEMMA TypeStep ==
  ASSUME TypeOK, Bounded, [Next]_vars
  PROVE  TypeOK'
<1>. USE MultilogAssumption
<1>1. Logs'
  BY LogsStep
<1>2. CASE Flushread
  BY <1>2, FeedStep DEF Next
<1>3. CASE Top
  BY <1>1, <1>3 DEF Top, Feed, TypeOK, Logs, Places, input, signals, picks, logs
<1>4. ASSUME NEW here \in {"gets", "more"}, NEW next \in {"act", "got"}, Gets(here, next)
      PROVE  TypeOK'
  <2>1. /\ line' \in [1..MAXLINE + 1 -> Chars] /\ linelen' \in 0..MAXLINE /\ inbuf' \in Seq(Chars)
        /\ pc' \in {here, next, "flush"} /\ ret' \in {here, ret}
    <3>1. inbuf \in Seq(Chars) /\ line \in [1..MAXLINE + 1 -> Chars] /\ linelen \in 0..MAXLINE
      BY DEF TypeOK
    <3>2. inbuf # <<>> => 1 \in 0..Len(inbuf)
      BY <3>1
    <3>3. \A i \in 0..Len(inbuf) : Rest(inbuf, i) \in Seq(Chars)
      BY <3>1, RestIs
    <3>. QED BY <1>4, <3>1, <3>2, <3>3, GetsDoes DEF Feed
  <2>2. UNCHANGED <<input, signals, flagnewline, flageof, oldlinelen, picks, logs, status>>
    BY <1>4 DEF Gets
  <2>. QED BY <1>1, <2>1, <2>2 DEF TypeOK, Logs, Places, input, signals, picks, logs
<1>5. CASE Act
  <2>1. /\ flagselected' \in BOOLEAN /\ match' \in {"simple", "fnmatch"}
        /\ status' = line' \/ status' = status
    <3>1. Acted(Text) \in Outcome
      BY ActedType DEF TypeOK, Modes
    <3>. QED BY <1>5, <3>1 DEF Act, Outcome, Modes
  <2>2. line' \in [1..MAXLINE + 1 -> Chars] /\ line' \in Seq(Chars)
    BY <1>5, PaddedType DEF Act
  <2>3. linelen' \in 0..MAXLINE /\ pc' \in {"more", "end"}
    BY <1>5 DEF Act, TypeOK
  <2>. QED BY <1>1, <1>5, <2>1, <2>2, <2>3 DEF Act, TypeOK, Logs, Places, input, signals
<1>6. CASE Got
  <2>1. /\ linelen' \in {0, linelen} /\ pc' \in {"more", "end"}
        /\ UNCHANGED <<input, signals, flagnewline, flageof, inbuf, ret, line, oldlinelen, picks, status>>
    BY <1>6 DEF Got
  <2>2. linelen' \in 0..MAXLINE /\ pc' \in Places
    BY <2>1 DEF TypeOK, Places
  <2>. QED BY <1>1, <2>1, <2>2, SMTT(30) DEF TypeOK, Logs, input, signals, picks
<1>7. CASE End
  <2>1. /\ oldlinelen' \in {linelen, oldlinelen} /\ pc' \in {"quit", "top"}
        /\ UNCHANGED <<input, signals, flagnewline, flageof, inbuf, ret, line, linelen, picks, status>>
    BY <1>7 DEF End
  <2>2. oldlinelen' \in 0..MAXLINE + 1 /\ pc' \in Places
    BY <2>1 DEF TypeOK, Places
  <2>. QED BY <1>1, <2>1, <2>2, SMTT(30) DEF TypeOK, Logs, input, signals, picks
<1>8. CASE Quit
  BY <1>1, <1>8 DEF Quit, TypeOK, Logs, Places, input, signals, picks, lines
<1>9. ASSUME NEW s \in Signals, Signal(s) PROVE TypeOK'
  <2>1. /\ pending' \subseteq Signals /\ sent' \in [Signals -> 0..MaxInput + 1] /\ pc' \in Places
        /\ flagexitasap' \in BOOLEAN /\ flagforcerotate' \in BOOLEAN
    <3>1. Len(seen) \in 0..MaxInput + 1
      <4>1. seen \in Seq(Chars) /\ pipe \in Seq(Chars)
        BY DEF TypeOK
      <4>. QED BY <4>1 DEF Bounded
    <3>. QED BY <1>9, <3>1 DEF Signal, TypeOK, Places, Reading
  <2>. QED BY <1>1, <1>9, <2>1 DEF Signal, TypeOK, Logs, input, picks, lines, logs
<1>10. CASE WriteInput
  <2>1. pipe' \in Seq(Chars)
    BY <1>10 DEF WriteInput, TypeOK
  <2>. QED BY <1>1, <1>10, <2>1 DEF WriteInput, TypeOK, Logs, Places, signals, picks, lines, logs
<1>11. CASE CloseInput
  BY <1>1, <1>11 DEF CloseInput, TypeOK, Logs, Places, signals, picks, lines, logs
<1>12. CASE UNCHANGED vars
  BY <1>12 DEF vars, TypeOK, input, signals, picks, lines, logs
<1>. QED BY <1>2, <1>3, <1>4, <1>5, <1>6, <1>7, <1>8, <1>9, <1>10, <1>11, <1>12 DEF Next, Doit

Typed == TypeOK /\ Bounded

LEMMA TypedInit == Init => Typed
BY TypeInit, MultilogAssumption DEF Init, Typed, Bounded

(* Every variable keeps its type: no line and no piece of one is longer    *)
(* than the 1000 bytes of line, no write is behind the end of the log's    *)
(* buffer, whatever comes on stdin.                                        *)
THEOREM MultilogTyped == Spec => []TypeOK
<1>1. Spec => []Typed
  <2>1. Typed /\ [Next]_vars => Typed'
    BY TypeStep, BoundedStep DEF Typed
  <2>. QED BY <2>1, TypedInit, PTL DEF Spec
<1>2. Typed => TypeOK
  BY DEF Typed
<1>. QED BY <1>1, <1>2, PTL

-----------------------------------------------------------------------------
(* Where multilog stops (ExitsAtLine)                                      *)

Ended(s) == s = <<>> \/ s[Len(s)] = nl

(* buffer_feed() and what it calls                                         *)
Feeding == pc \in {"flush", "flushed"} \cup Reading

WhileFeeding ==
  Feeding => /\ inbuf = <<>> /\ ~flageof
             /\ ret = "top" /\ open => flagnewline
             /\ ret # "top" => linelen < MAXLINE

(* A failing read() inside a line is the last.                             *)
AfterError ==
  flageof => /\ inbuf = <<>> /\ pc \in {"act", "got", "end", "quit", "exited"}
             /\ pc = "act" => linelen < MAXLINE

(* Where a line has ended, a newline has been consumed.                    *)
LineDone == pc \in {"top", "end"} \/ (pc \in {"act", "got"} /\ linelen < MAXLINE)
Closing == pc \in {"quit", "exited"}
AtNewline ==
  open /\ ~flageof =>
    /\ LineDone => flagnewline \/ inbuf # <<>>
    /\ Closing => flagnewline

Emptied == /\ Closing => inbuf = <<>>
           /\ pc = "exited" => logbuf = <<>>

LastRead == /\ flagnewline <=> Ended(seen)
            /\ inbuf # <<>> => seen # <<>> /\ inbuf[Len(inbuf)] = seen[Len(seen)]

(* Bytes are read one by one until the next newline.                       *)
ByOne == pc \in {"read1", "blocked1"} => flagexitasap /\ ~flagnewline
Heard == pending # {} => pc \notin Reading

(* From TERM on multilog reads once, or has read once and goes on byte by  *)
(* byte.                                                                   *)
Term ==
  "TERM" \in Signals /\ sent["TERM"] <= MaxInput =>
    /\ sent["TERM"] <= Len(seen)
    /\ flagexitasap \/ ("TERM" \in pending /\ sent["TERM"] = Len(seen))
    /\ sent["TERM"] = Len(seen) \/ (TermBounded /\ pc \notin {"read", "blocked"})

Stops == WhileFeeding /\ AfterError /\ AtNewline /\ Emptied /\ LastRead /\ ByOne /\ Heard

LEMMA RestLast ==
  ASSUME NEW s \in Seq(Chars), NEW n \in 0..Len(s), Rest(s, n) # <<>>
  PROVE  s # <<>> /\ Rest(s, n)[Len(Rest(s, n))] = s[Len(s)]
<1>1. Rest(s, n) \in Seq(Chars) /\ Len(Rest(s, n)) = Len(s) - n
  BY RestIs
<1>2. Len(s) \in Nat /\ n \in Nat /\ Len(s) - n # 0
  BY <1>1
<1>3. Len(s) - n \in 1..Len(s) - n /\ n + (Len(s) - n) = Len(s) /\ s # <<>>
  BY <1>2
<1>4. Rest(s, n)[Len(s) - n] = s[n + (Len(s) - n)]
  BY <1>3, RestIs
<1>. QED BY <1>1, <1>3, <1>4

LEMMA StopsFeeding ==
  ASSUME Typed, Stops, Flushread
  PROVE  Stops'
<1>. USE MultilogAssumption DEF Stops, Typed
<1>1. CASE FlushLogs
  BY <1>1 DEF FlushLogs, WhileFeeding, AfterError, AtNewline, Emptied, LastRead, ByOne, Heard, Feeding,
     Reading, LineDone, Closing, Ended, input, lines
<1>2. CASE ExitAsap \/ EndOfFile \/ ReadError
  <2>1. /\ Feeding /\ inbuf = <<>> /\ inbuf' = inbuf /\ UNCHANGED <<input, signals, flagnewline, lines>>
        /\ ret = "top" => pc' = "quit"
        /\ ret = "gets" => pc' = "act"
        /\ ret = "more" => pc' = "got"
    BY <1>2 DEF TypeOK, ExitAsap, EndOfFile, ReadError, NoMore, WhileFeeding, Feeding, Reading
  <2>2. flageof' => ret # "top"
    BY <1>2 DEF ExitAsap, EndOfFile, ReadError, NoMore
  <2>3. open /\ ~flageof' => flagnewline \/ ret = "top"
    BY <1>2 DEF TypeOK, ExitAsap, EndOfFile, ReadError, NoMore
  <2>4. ret = "top" /\ open => flagnewline
    BY <2>1 DEF WhileFeeding
  <2>5. ret # "top" => linelen < MAXLINE
    BY <2>1 DEF WhileFeeding
  <2>6. ret \in {"top", "gets", "more"}
    BY DEF TypeOK
  <2>7. WhileFeeding' /\ AfterError'
    BY <2>1, <2>2, <2>5, <2>6 DEF WhileFeeding, AfterError, Feeding, Reading, lines
  <2>8. AtNewline'
    BY <2>1, <2>3, <2>4, <2>6 DEF AtNewline, Closing, LineDone, input
  <2>9. Emptied' /\ LastRead' /\ ByOne' /\ Heard'
    BY <2>1, <2>6 DEF Emptied, LastRead, Ended, ByOne, Heard, Closing, Reading, input, signals
  <2>. QED BY <2>7, <2>8, <2>9
<1>3. CASE Unblock \/ Block
  <2>1. UNCHANGED <<input, flagnewline, flageof, inbuf, ret, lines>> /\ Feeding /\ pc' \in Reading
    BY <1>3 DEF Unblock, Block, Feeding, Reading
  <2>2. WhileFeeding' /\ AfterError'
    BY <2>1 DEF WhileFeeding, AfterError, Feeding, Reading, input, lines
  <2>3. AtNewline' /\ Emptied' /\ LastRead'
    BY <2>1 DEF AtNewline, Emptied, LastRead, Ended, LineDone, Closing, Reading, input
  <2>4. ByOne' /\ Heard'
    <3>1. CASE Unblock
      BY <3>1 DEF Unblock, ByOne, Heard
    <3>2. CASE Block
      BY <3>2 DEF Block, ByOne, Heard, Reading, signals
    <3>. QED BY <1>3, <3>1, <3>2
  <2>. QED BY <2>2, <2>3, <2>4
<1>4. CASE Read
  <2>1. PICK n \in 1..Len(pipe) :
           /\ inbuf' \in Seq(Chars) /\ Len(inbuf') = n /\ inbuf' # <<>>
           /\ seen' = seen \o inbuf' /\ Len(seen') = Len(seen) + n
           /\ seen'[Len(seen')] = inbuf'[n] /\ flagnewline' = (inbuf'[n] = nl)
    BY <1>4, ReadDoes
  <2>2. seen' # <<>>
    BY <2>1 DEF TypeOK
  <2>3. LastRead'
    BY <2>1, <2>2 DEF LastRead, Ended
  <2>. QED
    BY <1>4, <2>1, <2>3 DEF TypeOK, Read, WhileFeeding, AfterError, AtNewline, Emptied, ByOne, Heard, Feeding,
       Reading, LineDone, Closing, signals, lines, logs
<1>. QED BY <1>1, <1>2, <1>3, <1>4 DEF Flushread

LEMMA StopsGets ==
  ASSUME Typed, Stops, Gets("gets", "act") \/ Gets("more", "got")
  PROVE  Stops'
<1>. USE MultilogAssumption DEF Stops, Typed
<1>1. PICK here \in {"gets", "more"}, next \in {"act", "got"} : Gets(here, next)
  OBVIOUS
<1>2. pc = here /\ UNCHANGED <<input, signals, flagnewline, flageof, oldlinelen, picks, logs, status>>
  BY <1>1 DEF Gets
<1>3. inbuf \in Seq(Chars) /\ linelen \in 0..MAXLINE
  BY DEF TypeOK
<1>4. \/ pc' = "flush" /\ ret' = here /\ inbuf = <<>> /\ inbuf' = <<>> /\ linelen' = linelen /\ linelen < MAXLINE
      \/ pc' = next /\ linelen' = MAXLINE /\ inbuf' = inbuf
      \/ pc' = next /\ linelen' < MAXLINE /\ inbuf' = Rest(inbuf, 1) /\ inbuf[1] = nl /\ inbuf # <<>>
      \/ pc' = here /\ \E i \in 1..Len(inbuf) : inbuf' = Rest(inbuf, i)
  BY <1>1, <1>3, GetsDoes DEF Feed
<1>5. inbuf' # <<>> => inbuf # <<>> /\ inbuf'[Len(inbuf')] = inbuf[Len(inbuf)]
  <2>1. inbuf # <<>> => 1 \in 0..Len(inbuf)
    BY <1>3
  <2>. QED BY <1>3, <1>4, <2>1, RestLast
<1>6. LastRead'
  BY <1>2, <1>5 DEF LastRead, Ended, input
<1>7. ASSUME pc' = next, linelen' < MAXLINE PROVE flagnewline' \/ inbuf' # <<>>
  <2>1. inbuf' = Rest(inbuf, 1) /\ inbuf[1] = nl /\ inbuf # <<>>
    BY <1>1, <1>3, <1>4, <1>7, MultilogAssumption
  <2>2. ASSUME inbuf' = <<>> PROVE Len(inbuf) = 1
    <3>1. 1 \in 0..Len(inbuf)
      BY <1>3, <2>1
    <3>2. Len(inbuf') = Len(inbuf) - 1
      BY <1>3, <2>1, <3>1, RestIs
    <3>. QED BY <1>3, <2>2, <3>2
  <2>3. inbuf' = <<>> => Ended(seen)
    BY <2>1, <2>2 DEF LastRead, Ended
  <2>. QED BY <1>2, <2>3 DEF LastRead
<1>8. ~flageof
  BY <1>1, <1>2 DEF AfterError
<1>. QED
  BY <1>1, <1>2, <1>3, <1>4, <1>6, <1>7, <1>8
  DEF WhileFeeding, AfterError, AtNewline, Emptied, ByOne, Heard, Feeding, Reading, LineDone, Closing, input,
      signals, logs

LEMMA StopsDoit ==
  ASSUME Typed, Stops, Top \/ Act \/ Got \/ End \/ Quit
  PROVE  Stops'
<1>. USE MultilogAssumption DEF Stops, Typed
<1>1. CASE Top
  BY <1>1 DEF TypeOK, Top, Feed, WhileFeeding, AfterError, AtNewline, Emptied, LastRead, ByOne, Heard, Feeding,
     Reading, LineDone, Closing, Ended, input, signals, logs
<1>2. CASE Act
  <2>1. /\ pc = "act" /\ UNCHANGED <<input, signals, flagnewline, flageof, inbuf>>
        /\ IF linelen = MAXLINE THEN pc' = "more" ELSE pc' = "end"
    BY <1>2 DEF Act
  <2>2. linelen # MAXLINE => linelen < MAXLINE
    BY DEF TypeOK
  <2>3. WhileFeeding' /\ AfterError' /\ AtNewline'
    BY <2>1, <2>2 DEF WhileFeeding, AfterError, AtNewline, Feeding, Reading, LineDone, Closing, input
  <2>. QED BY <2>1, <2>3 DEF Emptied, LastRead, ByOne, Heard, Reading, Closing, Ended, input, signals
<1>3. CASE Got
  <2>1. /\ pc = "got" /\ UNCHANGED <<input, signals, flagnewline, flageof, inbuf>>
        /\ \/ pc' = "more" /\ ~flageof
           \/ pc' = "end" /\ (flageof \/ linelen = 0 \/ linelen # MAXLINE)
    BY <1>3 DEF Got
  <2>2. linelen = 0 \/ linelen # MAXLINE => linelen < MAXLINE
    BY DEF TypeOK
  <2>3. WhileFeeding' /\ AfterError' /\ AtNewline'
    BY <2>1, <2>2 DEF WhileFeeding, AfterError, AtNewline, Feeding, Reading, LineDone, Closing, input
  <2>. QED BY <2>1, <2>3 DEF Emptied, LastRead, ByOne, Heard, Reading, Closing, Ended, input, signals
<1>4. CASE End
  <2>1. /\ pc = "end" /\ UNCHANGED <<input, signals, flagnewline, flageof, inbuf>>
        /\ pc' = IF flageof THEN "quit" ELSE "top"
    BY <1>4 DEF End
  <2>2. WhileFeeding' /\ AfterError' /\ AtNewline' /\ Emptied'
    BY <2>1 DEF WhileFeeding, AfterError, AtNewline, Emptied, Feeding, Reading, LineDone, Closing, input
  <2>. QED BY <2>1, <2>2 DEF LastRead, ByOne, Heard, Reading, Ended, input, signals
<1>5. CASE Quit
  BY <1>5 DEF TypeOK, Quit, BufferFlush, WhileFeeding, AfterError, AtNewline, Emptied, LastRead, ByOne, Heard,
     Feeding, Reading, LineDone, Closing, Ended, input, signals
<1>. QED BY <1>1, <1>2, <1>3, <1>4, <1>5

LEMMA StopsOutside ==
  ASSUME Typed, Stops, (\E s \in Signals : Signal(s)) \/ WriteInput \/ CloseInput \/ UNCHANGED vars
  PROVE  Stops'
<1>. USE MultilogAssumption DEF Stops, Typed
<1>1. ASSUME NEW s \in Signals, Signal(s) PROVE Stops'
  BY <1>1 DEF TypeOK, Signal, WhileFeeding, AfterError, AtNewline, Emptied, LastRead, ByOne, Heard, Feeding,
     Reading, LineDone, Closing, Ended, input, lines, logs
<1>2. CASE WriteInput \/ CloseInput \/ UNCHANGED vars
  <2>1. /\ UNCHANGED <<seen, signals, flagnewline, flageof, inbuf, pc, ret, linelen, logbuf>>
        /\ open' => open
    BY <1>2 DEF WriteInput, CloseInput, vars, input, lines, logs
  <2>. QED
    BY <2>1 DEF WhileFeeding, AfterError, AtNewline, Emptied, LastRead, ByOne, Heard, Feeding, Reading,
       LineDone, Closing, Ended, signals
<1>. QED BY <1>1, <1>2

LEMMA TermRead ==
  ASSUME Typed, Stops, Term, Read
  PROVE  Term'
<1>. USE MultilogAssumption
<1>1. UNCHANGED signals /\ pc \in Reading /\ pc' = ret /\ ret \in {"top", "gets", "more"}
  BY DEF Read, Typed, TypeOK
<1>2. PICK n \in 1..Len(pipe) :
           /\ n <= (IF pc \in {"read", "blocked"} THEN ReadSize ELSE 1)
           /\ Len(seen') = Len(seen) + n
           /\ \A k \in 1..Len(seen) : seen'[k] = seen[k]
  BY ReadDoes DEF Typed
<1>3. Len(seen) \in Nat /\ (pc \in {"read1", "blocked1"} => seen # <<>> /\ seen[Len(seen)] # nl)
  BY DEF Stops, ByOne, LastRead, Ended, Typed, TypeOK
<1>. SUFFICES ASSUME "TERM" \in Signals, sent["TERM"] <= MaxInput
              PROVE  /\ sent["TERM"] <= Len(seen')
                     /\ flagexitasap
                     /\ \A k \in sent["TERM"] + ReadSize + 1 .. Len(seen') - 1 : seen'[k] # nl
  BY <1>1 DEF Term, TermBounded, signals
<1>4. sent["TERM"] \in Nat /\ sent["TERM"] <= Len(seen) /\ flagexitasap
  BY <1>1 DEF Term, Stops, Heard, Typed, TypeOK
<1>5. sent["TERM"] <= Len(seen')
  BY <1>2, <1>3, <1>4
<1>6. ASSUME NEW k \in sent["TERM"] + ReadSize + 1 .. Len(seen') - 1 PROVE seen'[k] # nl
  <2>1. CASE pc \in {"read", "blocked"}
    <3>1. sent["TERM"] = Len(seen) /\ n <= ReadSize
      BY <1>2, <1>4, <2>1 DEF Term
    <3>. QED BY <1>2, <1>3, <1>6, <3>1
  <2>2. CASE pc \in {"read1", "blocked1"}
    <3>1. n = 1 /\ k \in 1..Len(seen) /\ k > sent["TERM"] + ReadSize
      BY <1>2, <1>3, <1>4, <1>6, <2>2, SMTT(30)
    <3>2. CASE k = Len(seen)
      BY <1>2, <1>3, <2>2, <3>1, <3>2
    <3>3. CASE k # Len(seen)
      <4>1. sent["TERM"] # Len(seen) /\ k \in sent["TERM"] + ReadSize + 1 .. Len(seen) - 1
        BY <1>3, <1>4, <3>1, <3>3
      <4>2. seen[k] # nl
        BY <1>4, <4>1 DEF Term, TermBounded
      <4>. QED BY <1>2, <3>1, <4>2
    <3>. QED BY <3>2, <3>3
  <2>. QED BY <1>1, <2>1, <2>2 DEF Reading
<1>. QED BY <1>4, <1>5, <1>6

LEMMA TermStep ==
  ASSUME Typed, Stops, Term, [Next]_vars
  PROVE  Term'
<1>. USE MultilogAssumption
<1>1. CASE Read
  BY <1>1, TermRead
<1>2. ASSUME NEW s \in Signals, Signal(s) PROVE Term'
  <2>1. Len(seen) \in Nat /\ Len(seen) <= MaxInput /\ UNCHANGED seen
    BY <1>2 DEF Signal, input, Typed, TypeOK, Bounded
  <2>2. CASE s = "TERM"
    <3>1. sent'["TERM"] = Len(seen)
      BY <1>2, <2>2 DEF Signal, Typed, TypeOK
    <3>2. flagexitasap' \/ "TERM" \in pending'
      BY <1>2, <2>2 DEF Signal
    <3>. QED BY <2>1, <3>1, <3>2 DEF Term
  <2>3. CASE s # "TERM"
    <3>1. "TERM" \in Signals => sent'["TERM"] = sent["TERM"]
      BY <1>2, <2>3 DEF Signal, Typed, TypeOK
    <3>2. /\ flagexitasap => flagexitasap'
          /\ "TERM" \in pending => "TERM" \in pending'
          /\ pc' \in {"read", "blocked"} => pc \in {"read", "blocked"}
      BY <1>2 DEF Signal, Reading
    <3>. QED BY <2>1, <3>1, <3>2 DEF Term, TermBounded
  <2>. QED BY <2>2, <2>3
<1>3. CASE Unblock
  <2>1. /\ UNCHANGED <<sent, seen>> /\ flagexitasap' = (flagexitasap \/ "TERM" \in pending)
        /\ pc' = IF flagexitasap THEN "read1" ELSE "read"
    BY <1>3 DEF Unblock, input
  <2>. QED BY <2>1 DEF Term, TermBounded
<1>4. CASE Block
  BY <1>4 DEF Block, input, signals, Term, TermBounded
<1>5. ASSUME UNCHANGED <<seen, sent, flagexitasap, pending>>, pc' \in {"read", "blocked"} => pc = pc'
      PROVE  Term'
  BY <1>5 DEF Term, TermBounded
<1>6. CASE FlushLogs \/ ExitAsap \/ EndOfFile \/ ReadError
  BY <1>5, <1>6 DEF FlushLogs, ExitAsap, EndOfFile, ReadError, NoMore, input, signals, Typed, TypeOK
<1>7. CASE Top \/ Act \/ Got \/ End \/ Quit \/ WriteInput \/ CloseInput \/ UNCHANGED vars
  BY <1>5, <1>7 DEF Top, Feed, Act, Got, End, Quit, WriteInput, CloseInput, vars, input, signals
<1>8. CASE Gets("gets", "act") \/ Gets("more", "got")
  BY <1>5, <1>8 DEF Gets, Feed, input, signals
<1>. QED BY <1>1, <1>2, <1>3, <1>4, <1>6, <1>7, <1>8 DEF Next, Flushread, Doit

ExitInv == Typed /\ Stops /\ Term

LEMMA ExitInit == Init => ExitInv
<1>. SUFFICES ASSUME Init PROVE Stops /\ Term
  BY TypedInit DEF ExitInv
<1>1. Stops
  BY DEF Init, Stops, WhileFeeding, AfterError, AtNewline, Emptied, LastRead, Ended, ByOne, Heard, Feeding,
     Reading, LineDone, Closing
<1>2. "TERM" \in Signals => ~(sent["TERM"] <= MaxInput)
  BY MultilogAssumption DEF Init
<1>. QED BY <1>1, <1>2 DEF Term

LEMMA ExitStep ==
  ASSUME ExitInv, [Next]_vars
  PROVE  ExitInv'
<1>1. Typed'
  BY TypeStep, BoundedStep DEF ExitInv, Typed
<1>2. Stops'
  BY StopsFeeding, StopsGets, StopsDoit, StopsOutside DEF ExitInv, Next, Doit
<1>3. Term'
  BY TermStep DEF ExitInv
<1>. QED BY <1>1, <1>2, <1>3 DEF ExitInv

LEMMA ExitInvariant == Spec => []ExitInv
<1>1. ExitInv /\ [Next]_vars => ExitInv'
  BY ExitStep
<1>. QED BY <1>1, ExitInit, PTL DEF Spec

LEMMA TermBound == ExitInv => TermBounded
<1>. SUFFICES ASSUME ExitInv, "TERM" \in Signals,
                     NEW k \in sent["TERM"] + ReadSize + 1 .. Len(seen) - 1
              PROVE  seen[k] # nl
  BY DEF TermBounded
<1>1. sent["TERM"] \in Nat /\ Len(seen) \in Nat /\ Len(pipe) \in Nat /\ Len(seen) <= MaxInput
  BY MultilogAssumption, SMTT(30) DEF ExitInv, Typed, TypeOK, Bounded
<1>2. sent["TERM"] <= MaxInput /\ sent["TERM"] # Len(seen)
  BY <1>1, MultilogAssumption
<1>. QED BY <1>2 DEF ExitInv, Term, TermBounded

(* multilog exits with nothing it has read unprocessed and at the end of a *)
(* line, whatever signals come at whatever time; after TERM it reads at    *)
(* most once more and then no further than to the next newline.            *)
THEOREM StopsAtLine == Spec => []ExitsAtLine
<1>1. ExitInv => ExitsAtLine
  BY TermBound DEF ExitInv, Stops, AtNewline, Emptied, Closing, ExitsAtLine
<1>. QED BY <1>1, ExitInvariant, PTL

-----------------------------------------------------------------------------
(* Lines: what Split() says of a sequence and one more character           *)

Parts == [done : Seq(Chars), rest : Seq(Chars \ {nl}), last : Seq(Chars), any : BOOLEAN]
NoParts == [done |-> <<>>, rest |-> <<>>, last |-> <<>>, any |-> FALSE]

Cut(r, c) ==
  LET shown == Leading(r.rest, MAXLINE) \in StatusHeads
  IN IF c # nl THEN [r EXCEPT !.rest = Append(@, c)]
     ELSE [done |-> r.done \o (IF Selected(r.rest) THEN Append(r.rest, nl) ELSE <<>>),
           rest |-> <<>>,
           last |-> IF shown THEN r.rest ELSE r.last, any |-> r.any \/ shown]

LEMMA CutType ==
  ASSUME NEW r \in Parts, NEW c \in Chars
  PROVE  Cut(r, c) \in Parts
<1>1. r.done \in Seq(Chars) /\ r.rest \in Seq(Chars \ {nl}) /\ r.last \in Seq(Chars) /\ r.any \in BOOLEAN
  BY DEF Parts
<1>2. r.rest \in Seq(Chars) /\ Append(r.rest, nl) \in Seq(Chars)
  <2>1. r.rest \in Seq(Chars)
    BY <1>1, SeqMonotonic
  <2>. QED BY <2>1, MultilogAssumption
<1>3. CASE c # nl
  <2>1. Append(r.rest, c) \in Seq(Chars \ {nl})
    BY <1>1, <1>3
  <2>2. Cut(r, c) = [r EXCEPT !.rest = Append(r.rest, c)]
    BY <1>3 DEF Cut
  <2>. QED BY <2>1, <2>2 DEF Parts
<1>4. CASE c = nl
  <2>1. r.done \o (IF Selected(r.rest) THEN Append(r.rest, nl) ELSE <<>>) \in Seq(Chars)
    BY <1>1, <1>2
  <2>2. <<>> \in Seq(Chars \ {nl})
    OBVIOUS
  <2>3. (IF Leading(r.rest, MAXLINE) \in StatusHeads THEN r.rest ELSE r.last) \in Seq(Chars)
    BY <1>1, <1>2
  <2>4. (r.any \/ Leading(r.rest, MAXLINE) \in StatusHeads) \in BOOLEAN
    OBVIOUS
  <2>. QED BY <1>4, <2>1, <2>2, <2>3, <2>4 DEF Cut, Parts
<1>. QED BY <1>3, <1>4

(* Split() goes through the sequence once.                                 *)
LEMMA SplitCuts ==
  ASSUME NEW s \in Seq(Chars)
  PROVE  \E g \in [0..Len(s) -> Parts] :
           /\ g[0] = NoParts /\ \A k \in 1..Len(s) : g[k] = Cut(g[k - 1], s[k])
           /\ Split(s) = g[Len(s)]
<1>. DEFINE n == Len(s)
            Body(g, k) == IF k = 0 THEN NoParts ELSE Cut(g[k - 1], s[k])
            f == CHOOSE g : g = [k \in 0..n |-> Body(g, k)]
            T == [r \in Parts |-> [k \in 1..n |-> Cut(r, s[k])]]
<1>1. n \in Nat /\ NoParts \in Parts
  BY DEF NoParts, Parts
<1>2. T \in [Parts -> [1..n -> Parts]]
  BY CutType
<1>3. Split(s) = f[n]
  BY DEF Split, Cut, NoParts
<1>. HIDE DEF n
<1>4. \A r \in Parts : \A k \in 1..n : T[r][k] = Cut(r, s[k])
  OBVIOUS
<1>. HIDE DEF T
<1>5. PICK g \in [0..n -> Parts] : Runs(g, n, NoParts, T)
  BY <1>1, <1>2, Recursion
<1>6. g[0] = NoParts /\ \A k \in 1..n : g[k] = T[g[k - 1]][k]
  BY <1>5 DEF Runs
<1>7. ASSUME NEW k \in 1..n PROVE g[k] = Cut(g[k - 1], s[k])
  <2>1. k - 1 \in 0..n
    BY <1>1
  <2>. QED BY <1>4, <1>6, <2>1
<1>8. g = [k \in 0..n |-> Body(g, k)]
  BY <1>1, <1>6, <1>7
<1>9. f = [k \in 0..n |-> Body(f, k)]
  <2>. HIDE DEF Body
  <2>. QED BY <1>8
<1>. HIDE DEF f
<1>10. f[0] = NoParts /\ \A k \in 1..n : f[k] = Cut(f[k - 1], s[k])
  BY <1>1, <1>9
<1>11. f[n] = g[n]
  <2>. DEFINE P == {m \in 0..n : f[m] = g[m]}
  <2>1. 0 \in P
    BY <1>1, <1>6, <1>10
  <2>2. ASSUME NEW k \in 1..n, k - 1 \in P PROVE k \in P
    BY <1>1, <1>7, <1>10, <2>2
  <2>3. n \in P
    <3>. HIDE DEF P
    <3>1. \A k \in 0..n : k \in P
      BY <1>1, <2>1, <2>2, CountUp
    <3>. QED BY <1>1, <3>1
  <2>. QED BY <2>3
<1>. QED BY <1>3, <1>6, <1>7, <1>11 DEF n

LEMMA SplitType ==
  ASSUME NEW s \in Seq(Chars)
  PROVE  /\ Split(s) \in Parts /\ Split(s).done \in Seq(Chars) /\ Split(s).rest \in Seq(Chars \ {nl})
         /\ Split(s).rest \in Seq(Chars)
<1>1. Split(s) \in Parts
  <2>1. Len(s) \in 0..Len(s)
    OBVIOUS
  <2>. QED BY <2>1, SplitCuts
<1>2. Split(s).done \in Seq(Chars) /\ Split(s).rest \in Seq(Chars \ {nl})
  BY <1>1 DEF Parts
<1>. QED BY <1>1, <1>2, SeqMonotonic

LEMMA SplitEmpty == Split(<<>>) = NoParts
<1>1. <<>> \in Seq(Chars) /\ Len(<<>>) = 0
  OBVIOUS
<1>. QED BY <1>1, SplitCuts

LEMMA SplitAppend ==
  ASSUME NEW s \in Seq(Chars), NEW c \in Chars
  PROVE  Split(Append(s, c)) = Cut(Split(s), c)
<1>. DEFINE n == Len(s)
            t == Append(s, c)
<1>1. t \in Seq(Chars) /\ Len(t) = n + 1 /\ n \in Nat /\ t[n + 1] = c /\ \A k \in 1..n : t[k] = s[k]
  OBVIOUS
<1>2. PICK g \in [0..n -> Parts] : /\ g[0] = NoParts /\ \A k \in 1..n : g[k] = Cut(g[k - 1], s[k])
                                   /\ Split(s) = g[n]
  BY SplitCuts
<1>. HIDE DEF t
<1>3. PICK h \in [0..n + 1 -> Parts] : /\ h[0] = NoParts /\ \A k \in 1..n + 1 : h[k] = Cut(h[k - 1], t[k])
                                       /\ Split(t) = h[n + 1]
  <2>1. PICK h \in [0..Len(t) -> Parts] : /\ h[0] = NoParts /\ \A k \in 1..Len(t) : h[k] = Cut(h[k - 1], t[k])
                                          /\ Split(t) = h[Len(t)]
    BY <1>1, SplitCuts
  <2>. QED BY <1>1, <2>1
<1>. HIDE DEF n
<1>4. h[n] = g[n]
  <2>. DEFINE P == {m \in 0..n : h[m] = g[m]}
  <2>1. 0 \in P
    BY <1>1, <1>2, <1>3
  <2>2. ASSUME NEW k \in 1..n, k - 1 \in P PROVE k \in P
    <3>1. k \in 1..n + 1 /\ k \in 0..n
      BY <1>1
    <3>. QED BY <1>1, <1>2, <1>3, <2>2, <3>1
  <2>3. n \in P
    <3>. HIDE DEF P
    <3>1. \A k \in 0..n : k \in P
      BY <1>1, <2>1, <2>2, CountUp
    <3>. QED BY <1>1, <3>1
  <2>. QED BY <2>3
<1>5. Split(t) = Cut(h[n], c)
  <2>1. n + 1 \in 1..n + 1 /\ (n + 1) - 1 = n
    BY <1>1
  <2>. QED BY <1>1, <1>3, <2>1
<1>. QED BY <1>2, <1>4, <1>5 DEF t

LEMMA ConcatAppend ==
  ASSUME NEW s \in Seq(Chars), NEW t \in Seq(Chars), NEW c \in Chars
  PROVE  s \o Append(t, c) = Append(s \o t, c) /\ s \o t \in Seq(Chars) /\ Append(t, c) \in Seq(Chars)
<1>1. <<c>> \in Seq(Chars) /\ s \o t \in Seq(Chars)
  OBVIOUS
<1>2. s \o (t \o <<c>>) = (s \o t) \o <<c>>
  BY <1>1, ConcatAssociative
<1>. QED BY <1>1, <1>2, AppendIsConcat

(* Characters other than newlines go to the rest.                          *)
LEMMA SplitPlain ==
  ASSUME NEW s \in Seq(Chars), NEW t \in Seq(Chars), \A k \in 1..Len(t) : t[k] # nl
  PROVE  Split(s \o t).done = Split(s).done /\ Split(s \o t).rest = Split(s).rest \o t
<1>. DEFINE n == Len(t)
            b(k) == SubSeq(t, 1, k)
            Good(k) == Split(s \o b(k)).done = Split(s).done /\ Split(s \o b(k)).rest = Split(s).rest \o b(k)
            P == {k \in 0..n : Good(k)}
<1>1. n \in Nat /\ Split(s).rest \in Seq(Chars)
  BY SplitType
<1>2. Good(0)
  <2>1. b(0) = <<>>
    OBVIOUS
  <2>2. s \o b(0) = s /\ Split(s).rest \o b(0) = Split(s).rest
    BY <1>1, <2>1, ConcatEmptySeq
  <2>. QED BY <2>2
<1>3. ASSUME NEW k \in 1..n, Good(k - 1) PROVE Good(k)
  <2>1. /\ b(k - 1) \in Seq(Chars) /\ t[k] \in Chars /\ t[k] # nl
        /\ b(k) = Append(b(k - 1), t[k])
    <3>1. 1 \in 1..Len(t) /\ k \in 1..Len(t)
      BY <1>1
    <3>2. b(k - 1) \in Seq(Chars) /\ b(k) = b(k - 1) \o <<t[k]>>
      BY <3>1, SubSeqRecursiveSecond
    <3>. QED BY <3>1, <3>2, AppendIsConcat
  <2>. HIDE DEF b
  <2>2. s \o b(k) = Append(s \o b(k - 1), t[k]) /\ s \o b(k - 1) \in Seq(Chars)
    BY <2>1, ConcatAppend
  <2>3. Split(s \o b(k)) = Cut(Split(s \o b(k - 1)), t[k]) /\ Split(s \o b(k - 1)) \in Parts
    BY <2>1, <2>2, SplitAppend, SplitType
  <2>4. /\ Split(s \o b(k)).done = Split(s \o b(k - 1)).done
        /\ Split(s \o b(k)).rest = Append(Split(s \o b(k - 1)).rest, t[k])
    <3>. DEFINE r == Split(s \o b(k - 1))
    <3>1. Cut(r, t[k]) = [r EXCEPT !.rest = Append(r.rest, t[k])]
      BY <2>1 DEF Cut
    <3>2. r \in Parts
      BY <2>3
    <3>. HIDE DEF r
    <3>3. /\ [r EXCEPT !.rest = Append(r.rest, t[k])].done = r.done
          /\ [r EXCEPT !.rest = Append(r.rest, t[k])].rest = Append(r.rest, t[k])
      BY <3>2 DEF Parts
    <3>. QED BY <2>3, <3>1, <3>3 DEF r
  <2>5. Append(Split(s).rest \o b(k - 1), t[k]) = Split(s).rest \o b(k)
    <3>. DEFINE q == Split(s).rest
    <3>1. q \in Seq(Chars)
      BY <1>1
    <3>. HIDE DEF q
    <3>2. q \o Append(b(k - 1), t[k]) = Append(q \o b(k - 1), t[k])
      BY <2>1, <3>1, ConcatAppend
    <3>. QED BY <2>1, <3>2 DEF q
  <2>. QED BY <1>3, <2>4, <2>5
<1>4. Good(n)
  <2>. HIDE DEF Good
  <2>1. 0 \in P /\ \A k \in 1..n : k - 1 \in P => k \in P
    BY <1>1, <1>2, <1>3
  <2>2. \A k \in 0..n : k \in P
    <3>. HIDE DEF P, n
    <3>. QED BY <1>1, <2>1, CountUp
  <2>. QED BY <1>1, <2>2
<1>5. b(n) = t
  BY SubSeqFull
<1>. QED BY <1>4, <1>5

LEMMA SplitNewline ==
  ASSUME NEW s \in Seq(Chars)
  PROVE  /\ Append(s, nl) \in Seq(Chars) /\ Split(Append(s, nl)).rest = <<>>
         /\ Split(Append(s, nl)).done = Split(s).done \o (IF Selected(Split(s).rest) THEN Append(Split(s).rest, nl) ELSE <<>>)
<1>1. nl \in Chars
  BY MultilogAssumption
<1>2. Split(Append(s, nl)) = Cut(Split(s), nl)
  BY <1>1, SplitAppend
<1>. DEFINE r == Split(s)
<1>. HIDE DEF r
<1>3. /\ Cut(r, nl).rest = <<>>
      /\ Cut(r, nl).done = r.done \o (IF Selected(r.rest) THEN Append(r.rest, nl) ELSE <<>>)
  BY DEF Cut
<1>. QED BY <1>1, <1>2, <1>3 DEF r

(* There is a rest only after a character other than a newline.            *)
LEMMA RestEnds ==
  ASSUME NEW s \in Seq(Chars), Split(s).rest # <<>>
  PROVE  ~Ended(s)
<1>1. s # <<>>
  BY SplitEmpty DEF NoParts
<1>2. PICK t \in Seq(Chars), c \in Chars : s = Append(t, c)
  BY <1>1, SequenceEmptyOrAppend
<1>3. c # nl
  BY <1>2, SplitNewline
<1>4. s[Len(s)] = c
  BY <1>2
<1>. QED BY <1>1, <1>3, <1>4 DEF Ended

-----------------------------------------------------------------------------
(* What has gone to the log (LogsLines)                                    *)

Out == log \o logbuf

(* h has been consumed, the rest of what was read is in inbuf.             *)
Ahead(h) == h \in Seq(Chars) /\ seen = h \o inbuf

(* stdin has ended, or failed, inside the last line of g.                  *)
Broken(g) ==
  /\ g \in Seq(Chars) /\ Split(g).rest # <<>> /\ inbuf = <<>>
  /\ IF flageof THEN \E j \in 0..MAXLINE - 1 : j <= Len(seen) /\ g = Leading(seen, Len(seen) - j)
                ELSE g = seen /\ ~open /\ pipe = <<>>
LineOver(g) == g \in Seq(Chars) /\ (Ahead(Append(g, nl)) \/ Broken(g))

(* All lines of h are complete and in the log.                             *)
Whole(h) == Split(h).rest = <<>> /\ Out = Split(h).done

(* The last line of h is t, and not in the log.                            *)
Fresher(h, t) == Split(h).rest = t /\ Out = Split(h).done

(* Of the last line of h the pieces p have been handled, t has not.        *)
Handled(h, p, t) ==
  /\ p \in Seq(Chars) /\ Split(h).rest = p \o t
  /\ flagselected <=> Selected(Split(h).rest)
  /\ Out = Split(h).done \o (IF flagselected THEN p ELSE <<>>)
Pieces(p) == Len(p) >= MAXLINE /\ Len(p) % MAXLINE = 0

In(place) == pc = place \/ (Feeding /\ ret = place)

AtTop == \E h \in Seq(Chars) : Whole(h) /\ (Ahead(h) \/ \E g \in Seq(Chars) : h = Append(g, nl) /\ Broken(g))
InFirst == \E h \in Seq(Chars) : Ahead(h) /\ Fresher(h, Text)
FirstOver == \E g \in Seq(Chars) : LineOver(g) /\ Fresher(g, Text)
InPiece == \E h, p \in Seq(Chars) : Ahead(h) /\ Handled(h, p, Text) /\ Pieces(p)
PieceOver == \E g, p \in Seq(Chars) : LineOver(g) /\ Handled(g, p, IF flageof THEN <<>> ELSE Text) /\ Pieces(p)
AtEnd == \E g, p \in Seq(Chars) : LineOver(g) /\ Handled(g, p, <<>>)

Lines ==
  /\ In("top") \/ Closing => AtTop
  /\ In("gets") => InFirst /\ (inbuf = <<>> => linelen > 0)
  /\ pc = "act" => IF linelen = MAXLINE THEN InFirst ELSE FirstOver
  /\ In("more") => InPiece
  /\ pc = "got" => IF linelen = MAXLINE /\ ~flageof THEN InPiece ELSE PieceOver
  /\ pc = "end" => AtEnd

(* fullcurrent() and flushread() have emptied the buffer.                  *)
Drained == pc \in {"flushed"} \cup Reading => logbuf = <<>>

LEMMA OutSame ==
  ASSUME TypeOK, [Next]_vars, ~Act, ~Got, ~End
  PROVE  Out' = Out /\ UNCHANGED flagselected
<1>1. CASE UNCHANGED <<logs, picks>>
  BY <1>1 DEF Out, logs, picks
<1>2. CASE FlushLogs
  BY <1>2, LogsType, BufferFlushDoes DEF FlushLogs, Out, picks
<1>3. CASE Quit
  BY <1>3, LogsType, BufferFlushDoes DEF Quit, Out, picks
<1>4. CASE ExitAsap \/ Unblock \/ Block \/ Read \/ EndOfFile \/ ReadError
  BY <1>1, <1>4 DEF ExitAsap, Unblock, Block, Read, EndOfFile, ReadError
<1>5. CASE Top \/ Gets("gets", "act") \/ Gets("more", "got")
  BY <1>1, <1>5 DEF Top, Gets
<1>6. CASE (\E s \in Signals : Signal(s)) \/ WriteInput \/ CloseInput
  BY <1>1, <1>6 DEF Signal, WriteInput, CloseInput
<1>7. CASE UNCHANGED vars
  BY <1>1, <1>7 DEF vars
<1>. QED BY <1>2, <1>3, <1>4, <1>5, <1>6, <1>7 DEF Next, Flushread, Doit

(* Steps that move no character                                            *)
Still == /\ UNCHANGED <<seen, inbuf, line, linelen, flageof, flagselected>> /\ Out' = Out
         /\ ~open => ~open' /\ pipe' = pipe

LEMMA StillBroken == ASSUME Still, NEW g, Broken(g) PROVE Broken(g)'
BY DEF Still, Broken

LEMMA StillLines ==
  ASSUME Still
  PROVE  /\ AtTop => AtTop'
         /\ InFirst => InFirst'
         /\ FirstOver => FirstOver'
         /\ InPiece => InPiece'
         /\ PieceOver => PieceOver'
         /\ AtEnd => AtEnd'
<1>1. UNCHANGED <<seen, inbuf, line, linelen, flageof, flagselected>> /\ Out' = Out
  BY DEF Still
<1>2. Text' = Text
  BY <1>1 DEF Text
<1>3. ASSUME NEW h PROVE (Ahead(h) => Ahead(h)') /\ (Whole(h) => Whole(h)') /\ (Fresher(h, Text) => Fresher(h, Text)')
  BY <1>1, <1>2 DEF Ahead, Whole, Fresher
<1>4. ASSUME NEW g PROVE LineOver(g) => LineOver(g)'
  BY <1>3, StillBroken DEF LineOver
<1>5. ASSUME NEW h, NEW p, NEW t PROVE Handled(h, p, t) => Handled(h, p, t)'
  BY <1>1 DEF Handled
<1>6. AtTop => AtTop'
  BY <1>3, StillBroken DEF AtTop
<1>7. (InFirst => InFirst') /\ (FirstOver => FirstOver')
  BY <1>3, <1>4 DEF InFirst, FirstOver
<1>8. InPiece => InPiece'
  <2>1. ASSUME NEW h, NEW p, Handled(h, p, Text) PROVE Handled(h, p, Text)'
    BY <1>1, <1>2, <2>1 DEF Handled
  <2>. QED BY <1>3, <2>1 DEF InPiece
<1>9. PieceOver => PieceOver'
  <2>1. ASSUME NEW g, NEW p, Handled(g, p, IF flageof THEN <<>> ELSE Text)
        PROVE  Handled(g, p, IF flageof THEN <<>> ELSE Text)'
    BY <1>1, <1>2, <2>1 DEF Handled
  <2>. QED BY <1>4, <2>1 DEF PieceOver
<1>10. AtEnd => AtEnd'
  <2>1. ASSUME NEW g, NEW p, Handled(g, p, <<>>) PROVE Handled(g, p, <<>>)'
    BY <1>1, <2>1 DEF Handled
  <2>. QED BY <1>4, <2>1 DEF AtEnd
<1>. QED BY <1>6, <1>7, <1>8, <1>9, <1>10

(* ... at the same place                                                   *)
LEMMA LinesStill ==
  ASSUME TypeOK, Lines, FlushLogs \/ Unblock \/ Block \/ Quit \/ (\E s \in Signals : Signal(s)) \/ WriteInput \/ CloseInput \/ UNCHANGED vars
  PROVE  Lines'
<1>1. [Next]_vars
  BY DEF Next, Flushread, Doit
<1>2. Still /\ UNCHANGED <<inbuf, linelen, flageof, ret>>
  <2>1. Out' = Out /\ UNCHANGED flagselected
    <3>1. ~Act /\ ~Got /\ ~End
      <4>1. CASE FlushLogs \/ Unblock \/ Block \/ Quit
        BY <4>1 DEF FlushLogs, Unblock, Block, Quit, Act, Got, End
      <4>2. ASSUME NEW s \in Signals, Signal(s) PROVE ~Act /\ ~Got /\ ~End
        BY <4>2 DEF TypeOK, Signal, Act, Got, End
      <4>3. CASE WriteInput \/ CloseInput \/ UNCHANGED vars
        BY <4>3 DEF WriteInput, CloseInput, vars, Act, Got, End
      <4>. QED BY <4>1, <4>2, <4>3
    <3>. QED BY <1>1, <3>1, OutSame
  <2>. QED
    BY <2>1 DEF FlushLogs, Unblock, Block, Quit, Signal, WriteInput, CloseInput, vars, Still, input, lines
<1>3. /\ Feeding' => Feeding /\ pc \notin {"quit", "exited"}
      /\ ~Feeding' => ~Feeding /\ (pc' = pc \/ (pc = "quit" /\ pc' = "exited"))
  BY DEF FlushLogs, Unblock, Block, Quit, Signal, WriteInput, CloseInput, vars, Feeding, Reading
<1>4. /\ In("top")' \/ Closing' => In("top") \/ Closing
      /\ In("gets")' => In("gets")
      /\ In("more")' => In("more")
      /\ \A place \in {"act", "got", "end"} : pc' = place => pc = place
  BY <1>2, <1>3 DEF In, Closing, Feeding, Reading
<1>. QED BY <1>2, <1>4, StillLines DEF Lines

LEMMA ConcatRest ==
  ASSUME NEW s \in Seq(Chars), NEW n \in 0..Len(s)
  PROVE  s = SubSeq(s, 1, n) \o Rest(s, n) /\ SubSeq(s, 1, n) \in Seq(Chars) /\ Rest(s, n) \in Seq(Chars)
<1>. DEFINE a == SubSeq(s, 1, n)
            b == Rest(s, n)
<1>1. Len(s) \in Nat /\ n \in Nat
  OBVIOUS
<1>2. a \in Seq(Chars) /\ Len(a) = n /\ \A k \in 1..n : a[k] = s[k]
  OBVIOUS
<1>3. b \in Seq(Chars) /\ Len(b) = Len(s) - n /\ \A k \in 1..Len(s) - n : b[k] = s[n + k]
  BY RestIs
<1>. HIDE DEF a, b
<1>4. /\ a \o b \in Seq(Chars) /\ Len(a \o b) = Len(s)
      /\ \A k \in 1..Len(s) : (a \o b)[k] = IF k <= n THEN a[k] ELSE b[k - n]
  BY <1>1, <1>2, <1>3, ConcatProperties
<1>5. ASSUME NEW k \in 1..Len(s) PROVE (a \o b)[k] = s[k]
  <2>1. CASE k <= n
    BY <1>1, <1>2, <1>4, <2>1
  <2>2. CASE ~(k <= n)
    <3>1. k - n \in 1..Len(s) - n /\ n + (k - n) = k
      BY <1>1, <2>2
    <3>. QED BY <1>3, <1>4, <2>2, <3>1
  <2>. QED BY <2>1, <2>2
<1>6. a \o b = s
  BY <1>4, <1>5, SeqEqual
<1>. QED BY <1>2, <1>3, <1>6 DEF a, b

LEMMA AheadOnly == ASSUME NEW h, Ahead(h), inbuf = <<>>, seen \in Seq(Chars) PROVE h = seen
BY ConcatEmptySeq DEF Ahead

(* Every complete line has been handled, so nothing is left of one.        *)
LEMMA LinesTop ==
  ASSUME TypeOK, Lines, Top
  PROVE  Lines'
<1>. USE MultilogAssumption
<1>1. /\ pc = "top" /\ linelen' = 0 /\ UNCHANGED <<input, flageof, inbuf, line, picks, logs>>
      /\ \/ inbuf = <<>> /\ pc' = "flush" /\ ret' = "top"
         \/ inbuf # <<>> /\ pc' = "gets" /\ ret' = ret
  BY DEF Top, Feed
<1>2. Out' = Out
  BY <1>1 DEF Out, logs
<1>3. Text' = <<>>
  BY <1>1 DEF Text
<1>4. PICK h \in Seq(Chars) : Whole(h) /\ (Ahead(h) \/ \E g \in Seq(Chars) : h = Append(g, nl) /\ Broken(g))
  BY <1>1 DEF Lines, In, AtTop
<1>5. CASE inbuf = <<>>
  <2>1. AtTop'
    <3>1. Whole(h)' /\ (Ahead(h) => Ahead(h)')
      BY <1>1, <1>2, <1>4 DEF Whole, Ahead, input
    <3>2. \A g : Broken(g) => Broken(g)'
      BY <1>1 DEF Broken, input
    <3>. QED BY <1>4, <3>1, <3>2 DEF AtTop
  <2>. QED BY <1>1, <1>5, <2>1 DEF Lines, In, Closing, Feeding, Reading
<1>6. CASE inbuf # <<>>
  <2>1. Ahead(h)' /\ Fresher(h, Text)'
    BY <1>1, <1>2, <1>3, <1>4, <1>6 DEF Ahead, Broken, Whole, Fresher, input
  <2>. QED BY <1>1, <1>6, <2>1 DEF Lines, InFirst, In, Closing, Feeding, Reading
<1>. QED BY <1>5, <1>6

(* read(): h has been consumed, what comes is ahead of it.                 *)
LEMMA LinesRead ==
  ASSUME TypeOK, Stops, Lines, Read
  PROVE  Lines'
<1>. USE MultilogAssumption
<1>1. /\ pc \in Reading /\ pc' = ret /\ UNCHANGED <<open, flageof, ret, lines, picks, logs>>
      /\ pipe # <<>> /\ ret \in {"top", "gets", "more"} /\ inbuf = <<>> /\ ~flageof
  BY DEF Read, TypeOK, Stops, WhileFeeding, Feeding
<1>2. inbuf' \in Seq(Chars) /\ inbuf' # <<>> /\ seen' = seen \o inbuf' /\ seen \in Seq(Chars)
  BY ReadDoes DEF TypeOK
<1>3. Out' = Out /\ Text' = Text /\ UNCHANGED flagselected
  BY <1>1 DEF Out, Text, logs, lines, picks
<1>4. ASSUME NEW h, Ahead(h) PROVE Ahead(h)'
  <2>1. h = seen
    BY <1>1, <1>2, <1>4, AheadOnly
  <2>. QED BY <1>2, <2>1 DEF Ahead
<1>5. CASE ret = "top"
  <2>1. PICK h \in Seq(Chars) : Whole(h) /\ (Ahead(h) \/ \E g \in Seq(Chars) : h = Append(g, nl) /\ Broken(g))
    BY <1>1, <1>5 DEF Lines, In, AtTop, Feeding
  <2>2. Ahead(h)
    BY <1>1, <2>1 DEF Broken
  <2>3. Ahead(h)' /\ Whole(h)'
    BY <1>3, <1>4, <2>1, <2>2 DEF Whole
  <2>4. AtTop'
    BY <2>3 DEF AtTop
  <2>. QED BY <1>1, <1>5, <2>4 DEF Lines, In, Closing, Feeding, Reading
<1>6. CASE ret = "gets"
  <2>1. PICK h \in Seq(Chars) : Ahead(h) /\ Fresher(h, Text)
    BY <1>1, <1>6 DEF Lines, In, InFirst, Feeding
  <2>2. Ahead(h)' /\ Fresher(h, Text)'
    BY <1>3, <1>4, <2>1 DEF Fresher
  <2>3. InFirst'
    BY <2>2 DEF InFirst
  <2>. QED BY <1>1, <1>2, <1>6, <2>3 DEF Lines, In, Closing, Feeding, Reading
<1>7. CASE ret = "more"
  <2>1. PICK h \in Seq(Chars), p \in Seq(Chars) : Ahead(h) /\ Handled(h, p, Text) /\ Pieces(p)
    BY <1>1, <1>7 DEF Lines, In, InPiece, Feeding
  <2>2. Ahead(h)' /\ Handled(h, p, Text)' /\ Pieces(p)'
    BY <1>3, <1>4, <2>1 DEF Handled, Pieces
  <2>3. InPiece'
    BY <2>2 DEF InPiece
  <2>. QED BY <1>1, <1>7, <2>3 DEF Lines, In, Closing, Feeding, Reading
<1>. QED BY <1>1, <1>5, <1>6, <1>7

(* The first MAXLINE characters decide.                                    *)
LEMMA SelectedStays ==
  ASSUME NEW p \in Seq(Chars), NEW t \in Seq(Chars), Len(p) >= MAXLINE
  PROVE  Selected(p \o t) <=> Selected(p)
<1>. USE MultilogAssumption
<1>1. Leading(p \o t, MAXLINE) = SubSeq(p \o t, 1, MAXLINE) /\ Leading(p, MAXLINE) = SubSeq(p, 1, MAXLINE)
  BY DEF Leading, Least
<1>2. 1 \in 1..Len(p) /\ MAXLINE \in 1..Len(p)
  OBVIOUS
<1>3. SubSeq(p \o t, 1, MAXLINE) = SubSeq(p, 1, MAXLINE)
  BY <1>2, SubSeqOfConcat1
<1>. QED BY <1>1, <1>3 DEF Selected

LEMMA ConcatAssoc ==
  ASSUME NEW s \in Seq(Chars), NEW t \in Seq(Chars), NEW u \in Seq(Chars)
  PROVE  (s \o t) \o u = s \o (t \o u) /\ s \o t \in Seq(Chars) /\ t \o u \in Seq(Chars)
BY ConcatAssociative

(* buffer_gets() consumes x, which has no newline, or a newline.           *)
LEMMA AheadText ==
  ASSUME TypeOK, NEW h, Ahead(h), UNCHANGED seen,
         NEW i \in 1..Len(inbuf), i <= UpToNl(inbuf), inbuf' = Rest(inbuf, i)
  PROVE  \E x, k \in Seq(Chars) :
           /\ x = SubSeq(inbuf, 1, i) /\ Ahead(k)'
           /\ Split(k).done = Split(h).done /\ Split(k).rest = Split(h).rest \o x
<1>. PICK x : x = SubSeq(inbuf, 1, i)
  OBVIOUS
<1>1. inbuf \in Seq(Chars) /\ seen \in Seq(Chars) /\ h \in Seq(Chars) /\ seen = h \o inbuf
  BY DEF TypeOK, Ahead
<1>2. inbuf = x \o inbuf' /\ x \in Seq(Chars) /\ inbuf' \in Seq(Chars)
  <2>1. i \in 0..Len(inbuf)
    OBVIOUS
  <2>. QED BY <1>1, <2>1, ConcatRest
<1>3. \A k \in 1..Len(x) : x[k] # nl
  <2>1. Len(x) = i /\ \A k \in 1..i : x[k] = inbuf[k]
    BY <1>1
  <2>2. UpToNl(inbuf) \in 0..Len(inbuf) /\ \A j \in 1..UpToNl(inbuf) : inbuf[j] # nl
    BY <1>1, UpToNlIs
  <2>3. i \in 1..UpToNl(inbuf)
    BY <1>1, <2>2
  <2>. QED BY <2>1, <2>2, <2>3
<1>. PICK k : k = h \o x
  OBVIOUS
<1>4. k \in Seq(Chars) /\ seen = k \o inbuf'
  <2>1. (h \o x) \o inbuf' = h \o (x \o inbuf') /\ h \o x \in Seq(Chars)
    BY <1>1, <1>2, ConcatAssoc, ZenonT(30)
  <2>. QED BY <1>1, <1>2, <2>1, Zenon
<1>5. Split(k).done = Split(h).done /\ Split(k).rest = Split(h).rest \o x
  BY <1>1, <1>2, <1>3, SplitPlain
<1>6. Ahead(k)'
  BY <1>4 DEF Ahead
<1>. QED BY <1>2, <1>4, <1>5, <1>6

LEMMA AheadNewline ==
  ASSUME TypeOK, NEW h, Ahead(h), UNCHANGED seen, inbuf # <<>>, inbuf[1] = nl, inbuf' = Rest(inbuf, 1)
  PROVE  h \in Seq(Chars) /\ LineOver(h)'
<1>1. inbuf \in Seq(Chars) /\ seen \in Seq(Chars) /\ h \in Seq(Chars) /\ seen = h \o inbuf
  BY DEF TypeOK, Ahead
<1>2. 1 \in 0..Len(inbuf)
  BY <1>1
<1>3. inbuf = SubSeq(inbuf, 1, 1) \o Rest(inbuf, 1) /\ Rest(inbuf, 1) \in Seq(Chars)
  BY <1>1, <1>2, ConcatRest
<1>4. SubSeq(inbuf, 1, 1) = <<nl>>
  <2>1. Len(SubSeq(inbuf, 1, 1)) = 1 /\ SubSeq(inbuf, 1, 1)[1] = inbuf[1]
    BY <1>1, <1>2
  <2>2. /\ SubSeq(inbuf, 1, 1) \in Seq(Chars) /\ <<nl>> \in Seq(Chars)
        /\ Len(<<nl>>) = 1 /\ \A k \in 1..1 : SubSeq(inbuf, 1, 1)[k] = <<nl>>[k]
    BY <1>1, <1>2, <2>1, ConcatRest, MultilogAssumption
  <2>. QED BY <2>1, <2>2, SeqEqual
<1>5. <<nl>> \in Seq(Chars) /\ nl \in Chars
  BY MultilogAssumption
<1>6. seen = (h \o <<nl>>) \o Rest(inbuf, 1)
  <2>1. PICK y \in Seq(Chars), z \in Seq(Chars) : y = <<nl>> /\ z = Rest(inbuf, 1)
    BY <1>3, <1>5
  <2>2. (h \o y) \o z = h \o (y \o z)
    <3>1. h \in Seq(Chars) /\ y \in Seq(Chars) /\ z \in Seq(Chars)
      BY <1>1, <2>1
    <3>. QED BY <3>1, ConcatAssociative
  <2>. QED BY <1>1, <1>3, <1>4, <2>1, <2>2, Zenon
<1>7. Append(h, nl) = h \o <<nl>> /\ Append(h, nl) \in Seq(Chars)
  BY <1>1, <1>5, AppendIsConcat
<1>. QED BY <1>1, <1>6, <1>7 DEF LineOver, Ahead

LEMMA LinesFirst ==
  ASSUME TypeOK, Lines, Gets("gets", "act")
  PROVE  Lines'
<1>. USE MultilogAssumption
<1>1. /\ pc = "gets" /\ UNCHANGED <<input, flageof, picks, logs>> /\ seen' = seen
      /\ inbuf \in Seq(Chars) /\ linelen \in 0..MAXLINE
  BY DEF Gets, TypeOK, input
<1>2. PICK h \in Seq(Chars) : Ahead(h) /\ Fresher(h, Text) /\ (inbuf = <<>> => linelen > 0)
  BY <1>1 DEF Lines, In, InFirst
<1>3. Out' = Out
  BY <1>1 DEF Out, logs
<1>4. CASE linelen < MAXLINE /\ Feed("gets") /\ UNCHANGED <<inbuf, line, linelen>>
  <2>1. InFirst'
    BY <1>1, <1>2, <1>3, <1>4 DEF InFirst, Ahead, Fresher, Text, input
  <2>. QED BY <1>2, <1>4, <2>1 DEF Feed, Lines, In, Closing, Feeding, Reading
<1>5. CASE linelen = MAXLINE /\ pc' = "act" /\ UNCHANGED <<inbuf, line, linelen, ret>>
  <2>1. InFirst'
    BY <1>1, <1>2, <1>3, <1>5 DEF InFirst, Ahead, Fresher, Text, input
  <2>. QED BY <1>5, <2>1 DEF Lines, In, Closing, Feeding, Reading
<1>6. CASE /\ linelen < MAXLINE /\ inbuf # <<>>
           /\ pc' = "act" /\ inbuf' = Rest(inbuf, 1) /\ inbuf[1] = nl
           /\ Text' = Text /\ linelen' = linelen
  <2>1. LineOver(h)' /\ Fresher(h, Text)'
    BY <1>1, <1>2, <1>3, <1>6, AheadNewline DEF Fresher
  <2>2. FirstOver' /\ linelen' # MAXLINE
    BY <1>1, <1>6, <2>1 DEF FirstOver
  <2>. QED BY <1>6, <2>2 DEF Lines, In, Closing, Feeding, Reading
<1>7. ASSUME NEW i \in 1..Len(inbuf), linelen < MAXLINE, i <= UpToNl(inbuf), pc' = "gets",
             inbuf' = Rest(inbuf, i), linelen' = linelen + i, Text' = Text \o SubSeq(inbuf, 1, i)
      PROVE  Lines'
  <2>1. PICK x \in Seq(Chars), k \in Seq(Chars) :
          /\ x = SubSeq(inbuf, 1, i) /\ Ahead(k)'
          /\ Split(k).done = Split(h).done /\ Split(k).rest = Split(h).rest \o x
    BY <1>1, <1>2, <1>7, AheadText
  <2>2. Fresher(k, Text)'
    BY <1>2, <1>3, <1>7, <2>1 DEF Fresher
  <2>3. InFirst' /\ linelen' > 0
    BY <1>1, <1>7, <2>1, <2>2 DEF InFirst
  <2>. QED BY <1>7, <2>3 DEF Lines, In, Closing, Feeding, Reading
<1>8. \/ linelen < MAXLINE /\ Feed("gets") /\ UNCHANGED <<inbuf, line, linelen>>
      \/ linelen = MAXLINE /\ pc' = "act" /\ UNCHANGED <<inbuf, line, linelen, ret>>
      \/ /\ linelen < MAXLINE /\ inbuf # <<>> /\ pc' = "act" /\ inbuf' = Rest(inbuf, 1) /\ inbuf[1] = nl
         /\ Text' = Text /\ linelen' = linelen
      \/ \E i \in 1..Len(inbuf) :
           /\ linelen < MAXLINE /\ i <= UpToNl(inbuf) /\ pc' = "gets" /\ inbuf' = Rest(inbuf, i)
           /\ linelen' = linelen + i /\ Text' = Text \o SubSeq(inbuf, 1, i)
  <2>1. PICK here, next : here = "gets" /\ next = "act"
    OBVIOUS
  <2>2. Gets(here, next)
    BY <2>1
  <2>3. \/ linelen < MAXLINE /\ Feed(here) /\ UNCHANGED <<inbuf, line, linelen>>
        \/ linelen = MAXLINE /\ pc' = next /\ UNCHANGED <<inbuf, line, linelen, ret>>
        \/ /\ linelen < MAXLINE /\ inbuf # <<>> /\ pc' = next /\ inbuf' = Rest(inbuf, 1) /\ inbuf[1] = nl
           /\ Text' = Text /\ linelen' = linelen
        \/ \E i \in 1..Len(inbuf) :
             /\ linelen < MAXLINE /\ i <= UpToNl(inbuf) /\ pc' = here /\ inbuf' = Rest(inbuf, i)
             /\ linelen' = linelen + i /\ Text' = Text \o SubSeq(inbuf, 1, i)
    BY <2>2, GetsDoes
  <2>. QED BY <2>1, <2>3, Zenon
<1>. QED BY <1>4, <1>5, <1>6, <1>7, <1>8, Zenon

LEMMA LinesMore ==
  ASSUME TypeOK, Lines, Stops, Gets("more", "got")
  PROVE  Lines'
<1>. USE MultilogAssumption
<1>1. /\ pc = "more" /\ UNCHANGED <<input, flageof, picks, logs>> /\ seen' = seen /\ UNCHANGED flagselected
      /\ inbuf \in Seq(Chars) /\ linelen \in 0..MAXLINE
  BY DEF Gets, TypeOK, input, picks
<1>2. PICK h \in Seq(Chars), p \in Seq(Chars) : Ahead(h) /\ Handled(h, p, Text) /\ Pieces(p)
  BY <1>1 DEF Lines, In, InPiece
<1>3. Out' = Out /\ Pieces(p)' /\ ~flageof /\ flageof' = flageof /\ Text \in Seq(Chars)
  BY <1>1, <1>2, TextIs DEF Out, logs, Pieces, Stops, AfterError
<1>4. CASE linelen < MAXLINE /\ Feed("more") /\ UNCHANGED <<inbuf, line, linelen>>
  <2>1. Ahead(h)' /\ Handled(h, p, Text)'
    BY <1>1, <1>2, <1>3, <1>4 DEF Ahead, Handled, Text
  <2>2. InPiece'
    BY <1>3, <2>1 DEF InPiece
  <2>. QED BY <1>4, <2>2 DEF Feed, Lines, In, Closing, Feeding, Reading
<1>5. CASE linelen = MAXLINE /\ pc' = "got" /\ UNCHANGED <<inbuf, line, linelen, ret>>
  <2>1. Ahead(h)' /\ Handled(h, p, Text)'
    BY <1>1, <1>2, <1>3, <1>5 DEF Ahead, Handled, Text
  <2>2. InPiece'
    BY <1>3, <2>1 DEF InPiece
  <2>. QED BY <1>3, <1>5, <2>2 DEF Lines, In, Closing, Feeding, Reading
<1>6. CASE /\ linelen < MAXLINE /\ inbuf # <<>>
           /\ pc' = "got" /\ inbuf' = Rest(inbuf, 1) /\ inbuf[1] = nl
           /\ Text' = Text /\ linelen' = linelen
  <2>1. LineOver(h)'
    BY <1>1, <1>2, <1>6, AheadNewline
  <2>2. Handled(h, p, IF flageof THEN <<>> ELSE Text)'
    BY <1>1, <1>2, <1>3, <1>6 DEF Handled
  <2>3. PieceOver' /\ linelen' # MAXLINE
    BY <1>1, <1>3, <1>6, <2>1, <2>2 DEF PieceOver
  <2>. QED BY <1>6, <2>3 DEF Lines, In, Closing, Feeding, Reading
<1>7. ASSUME NEW i \in 1..Len(inbuf), linelen < MAXLINE, i <= UpToNl(inbuf), pc' = "more",
             inbuf' = Rest(inbuf, i), linelen' = linelen + i, Text' = Text \o SubSeq(inbuf, 1, i)
      PROVE  Lines'
  <2>1. PICK x \in Seq(Chars), k \in Seq(Chars) :
          /\ x = SubSeq(inbuf, 1, i) /\ Ahead(k)'
          /\ Split(k).done = Split(h).done /\ Split(k).rest = Split(h).rest \o x
    BY <1>1, <1>2, <1>7, AheadText
  <2>2. Text' = Text \o x
    BY <1>7, <2>1
  <2>3. Split(h).rest = p \o Text /\ Split(k).rest = p \o Text'
    <3>1. Split(h).rest = p \o Text
      BY <1>2 DEF Handled
    <3>2. (p \o Text) \o x = p \o (Text \o x)
      <4>1. PICK t \in Seq(Chars) : t = Text
        BY <1>3
      <4>2. (p \o t) \o x = p \o (t \o x)
        <5>1. p \in Seq(Chars) /\ t \in Seq(Chars) /\ x \in Seq(Chars)
          BY <1>2, <2>1, <4>1
        <5>. QED BY <5>1, ConcatAssociative, SMTT(30)
      <4>. QED BY <4>1, <4>2
    <3>. QED BY <2>1, <2>2, <3>1, <3>2
  <2>4. Text' \in Seq(Chars)
    BY <1>3, <2>1, <2>2
  <2>5. Selected(Split(k).rest) <=> Selected(Split(h).rest)
    BY <1>2, <1>3, <2>3, <2>4, SelectedStays DEF Pieces
  <2>6. Handled(k, p, Text)'
    BY <1>1, <1>2, <1>3, <2>1, <2>3, <2>5 DEF Handled
  <2>7. InPiece'
    BY <1>3, <2>1, <2>6 DEF InPiece
  <2>. QED BY <1>7, <2>7 DEF Lines, In, Closing, Feeding, Reading
<1>8. \/ linelen < MAXLINE /\ Feed("more") /\ UNCHANGED <<inbuf, line, linelen>>
      \/ linelen = MAXLINE /\ pc' = "got" /\ UNCHANGED <<inbuf, line, linelen, ret>>
      \/ /\ linelen < MAXLINE /\ inbuf # <<>> /\ pc' = "got" /\ inbuf' = Rest(inbuf, 1) /\ inbuf[1] = nl
         /\ Text' = Text /\ linelen' = linelen
      \/ \E i \in 1..Len(inbuf) :
           /\ linelen < MAXLINE /\ i <= UpToNl(inbuf) /\ pc' = "more" /\ inbuf' = Rest(inbuf, i)
           /\ linelen' = linelen + i /\ Text' = Text \o SubSeq(inbuf, 1, i)
  <2>1. PICK here, next : here = "more" /\ next = "got"
    OBVIOUS
  <2>2. Gets(here, next)
    BY <2>1
  <2>3. \/ linelen < MAXLINE /\ Feed(here) /\ UNCHANGED <<inbuf, line, linelen>>
        \/ linelen = MAXLINE /\ pc' = next /\ UNCHANGED <<inbuf, line, linelen, ret>>
        \/ /\ linelen < MAXLINE /\ inbuf # <<>> /\ pc' = next /\ inbuf' = Rest(inbuf, 1) /\ inbuf[1] = nl
           /\ Text' = Text /\ linelen' = linelen
        \/ \E i \in 1..Len(inbuf) :
             /\ linelen < MAXLINE /\ i <= UpToNl(inbuf) /\ pc' = here /\ inbuf' = Rest(inbuf, i)
             /\ linelen' = linelen + i /\ Text' = Text \o SubSeq(inbuf, 1, i)
    BY <2>2, GetsDoes
  <2>. QED BY <2>1, <2>3, Zenon
<1>. QED BY <1>4, <1>5, <1>6, <1>7, <1>8, Zenon

(* Without its last characters, none of them a newline                     *)
LEMMA SplitFront ==
  ASSUME NEW s \in Seq(Chars), Split(s).rest # <<>>
  PROVE  /\ s # <<>> /\ SubSeq(s, 1, Len(s) - 1) \in Seq(Chars)
         /\ Split(SubSeq(s, 1, Len(s) - 1)).done = Split(s).done
         /\ Split(SubSeq(s, 1, Len(s) - 1)).rest = SubSeq(Split(s).rest, 1, Len(Split(s).rest) - 1)
<1>1. s # <<>>
  BY SplitEmpty DEF NoParts
<1>2. PICK t \in Seq(Chars), c \in Chars : s = Append(t, c)
  BY <1>1, SequenceEmptyOrAppend
<1>3. c # nl
  BY <1>2, SplitNewline
<1>4. SubSeq(s, 1, Len(s) - 1) = t
  BY <1>2
<1>5. Split(s) = Cut(Split(t), c) /\ Split(t) \in Parts
  BY <1>2, SplitAppend, SplitType
<1>. PICK r : r = Split(t)
  OBVIOUS
<1>6. Split(s) = [r EXCEPT !.rest = Append(r.rest, c)] /\ r \in Parts
  BY <1>3, <1>5 DEF Cut
<1>7. r.rest \in Seq(Chars \ {nl}) /\ Split(s).done = r.done /\ Split(s).rest = Append(r.rest, c)
  BY <1>6 DEF Parts
<1>8. SubSeq(Append(r.rest, c), 1, Len(Append(r.rest, c)) - 1) = r.rest
  BY <1>7
<1>. QED BY <1>1, <1>2, <1>4, <1>7, <1>8

LEMMA SplitBack ==
  ASSUME NEW s \in Seq(Chars), NEW n \in 0..Len(Split(s).rest)
  PROVE  /\ n <= Len(s)
         /\ Split(SubSeq(s, 1, Len(s) - n)).done = Split(s).done
         /\ Split(SubSeq(s, 1, Len(s) - n)).rest = SubSeq(Split(s).rest, 1, Len(Split(s).rest) - n)
<1>. PICK r : r = Split(s).rest
  OBVIOUS
<1>1. r \in Seq(Chars) /\ Len(r) \in Nat /\ Len(s) \in Nat /\ n \in Nat
  BY SplitType
<1>. DEFINE Good(k) == /\ k <= Len(s)
                       /\ Split(SubSeq(s, 1, Len(s) - k)).done = Split(s).done
                       /\ Split(SubSeq(s, 1, Len(s) - k)).rest = SubSeq(r, 1, Len(r) - k)
            P == {k \in 0..n : Good(k)}
<1>2. Good(0)
  <2>1. Len(s) - 0 = Len(s) /\ Len(r) - 0 = Len(r) /\ 0 <= Len(s)
    BY <1>1
  <2>2. SubSeq(s, 1, Len(s)) = s /\ SubSeq(r, 1, Len(r)) = r
    BY <1>1, SubSeqFull
  <2>. QED BY <2>1, <2>2, Zenon
<1>3. ASSUME NEW k \in 1..n, Good(k - 1) PROVE Good(k)
  <2>. PICK t, q : t = SubSeq(s, 1, Len(s) - (k - 1)) /\ q = SubSeq(r, 1, Len(r) - (k - 1))
    OBVIOUS
  <2>1. k - 1 <= Len(s) /\ Split(t).done = Split(s).done /\ Split(t).rest = q
    BY <1>3
  <2>2. t \in Seq(Chars) /\ Len(t) = Len(s) - (k - 1)
    BY <1>1, <2>1
  <2>3. q \in Seq(Chars) /\ Len(q) = Len(r) - (k - 1) /\ q # <<>>
    <3>1. Len(r) - (k - 1) \in 1..Len(r)
      BY <1>1
    <3>2. q \in Seq(Chars) /\ Len(q) = Len(r) - (k - 1)
      BY <1>1, <3>1
    <3>3. Len(q) # 0
      BY <1>1, <3>1, <3>2
    <3>. QED BY <3>2, <3>3
  <2>4. t # <<>> /\ Split(SubSeq(t, 1, Len(t) - 1)).done = Split(t).done
        /\ Split(SubSeq(t, 1, Len(t) - 1)).rest = SubSeq(q, 1, Len(q) - 1)
    BY <2>1, <2>2, <2>3, SplitFront
  <2>5. k <= Len(s) /\ Len(t) - 1 = Len(s) - k
    BY <1>1, <2>1, <2>2, <2>4
  <2>6. SubSeq(t, 1, Len(t) - 1) = SubSeq(s, 1, Len(s) - k)
    BY <1>1, <2>2, <2>5
  <2>7. SubSeq(q, 1, Len(q) - 1) = SubSeq(r, 1, Len(r) - k)
    BY <1>1, <2>3
  <2>. QED BY <2>1, <2>4, <2>5, <2>6, <2>7
<1>4. \A k \in 0..n : k \in P
  <2>. HIDE DEF Good
  <2>1. 0 \in P /\ \A k \in 1..n : k - 1 \in P => k \in P
    BY <1>1, <1>2, <1>3
  <2>. HIDE DEF P
  <2>. QED BY <1>1, <2>1, CountUp
<1>. QED BY <1>1, <1>4

(* No more input comes: flushread stops at a newline, stdin has ended or   *)
(* has failed, in the middle of the last line or not.                      *)
LEMMA LinesNoMore ==
  ASSUME TypeOK, Stops, Lines, ExitAsap \/ EndOfFile \/ ReadError
  PROVE  Lines'
<1>. USE MultilogAssumption
<1>1. /\ Feeding /\ inbuf = <<>> /\ ret \in {"top", "gets", "more"} /\ ~flageof
      /\ UNCHANGED <<input, flagnewline, inbuf, ret, lines, picks, logs>>
      /\ pc' = CASE ret = "top" -> "quit" [] ret = "gets" -> "act" [] ret = "more" -> "got"
  BY DEF ExitAsap, EndOfFile, ReadError, NoMore, Stops, WhileFeeding, Feeding, Reading, TypeOK, signals
<1>2. /\ seen \in Seq(Chars) /\ Len(seen) \in Nat /\ linelen \in 0..MAXLINE
      /\ Text \in Seq(Chars) /\ Len(Text) = linelen
  BY TextIs DEF TypeOK
<1>3. /\ UNCHANGED <<seen, pipe, open, inbuf, line, linelen, flagselected>> /\ Out' = Out /\ Text' = Text
  BY <1>1 DEF Out, Text, input, lines, picks, logs
<1>4. ret # "top" => linelen < MAXLINE
  BY <1>1 DEF Stops, WhileFeeding

(* ... not at a newline                                                    *)
<1>5. ret # "top" /\ Split(seen).rest # <<>> => \/ flageof'
                                                \/ ~flageof' /\ ~open /\ pipe = <<>>
  <2>1. ASSUME ExitAsap, Split(seen).rest # <<>> PROVE FALSE
    <3>1. Ended(seen)
      BY <2>1 DEF ExitAsap, Stops, LastRead
    <3>. QED BY <1>2, <2>1, <3>1, RestEnds
  <2>2. EndOfFile => ~flageof' /\ ~open /\ pipe = <<>>
    BY DEF EndOfFile, NoMore
  <2>3. ReadError /\ ret # "top" => flageof'
    BY DEF ReadError, NoMore
  <2>. QED BY <2>1, <2>2, <2>3
<1>6. CASE ret = "top"
  <2>1. flageof' = FALSE /\ flageof = FALSE
    BY <1>1, <1>6 DEF ExitAsap, EndOfFile, ReadError, NoMore, TypeOK
  <2>2. Still
    BY <1>1, <1>3, <2>1 DEF Still
  <2>3. AtTop'
    BY <1>1, <1>6, <2>2, StillLines DEF Lines, In
  <2>. QED BY <1>1, <1>6, <2>3 DEF Lines, In, Closing, Feeding, Reading
<1>7. CASE ret = "gets"
  <2>1. PICK h \in Seq(Chars) : Ahead(h) /\ Fresher(h, Text) /\ linelen > 0
    BY <1>1, <1>7 DEF Lines, In, InFirst
  <2>2. h = seen
    BY <1>1, <1>2, <2>1, AheadOnly
  <2>3. Split(seen).rest # <<>>
    BY <1>2, <2>1, <2>2 DEF Fresher
  <2>4. Broken(seen)'
    <3>1. Leading(seen, Len(seen) - 0) = seen /\ 0 \in 0..MAXLINE - 1 /\ 0 <= Len(seen)
      BY <1>2, SubSeqFull DEF Leading, Least
    <3>. QED BY <1>1, <1>2, <1>3, <1>5, <1>7, <2>3, <3>1 DEF Broken
  <2>5. Fresher(seen, Text)'
    BY <1>3, <2>1, <2>2 DEF Fresher
  <2>6. FirstOver' /\ linelen' # MAXLINE
    <3>1. LineOver(seen)' /\ seen' = seen
      BY <1>2, <1>3, <2>4 DEF LineOver
    <3>. QED BY <1>2, <1>3, <1>4, <1>7, <2>5, <3>1 DEF FirstOver
  <2>. QED BY <1>1, <1>7, <2>6 DEF Lines, In, Closing, Feeding, Reading
<1>8. CASE ret = "more"
  <2>1. PICK h \in Seq(Chars), p \in Seq(Chars) : Ahead(h) /\ Handled(h, p, Text) /\ Pieces(p)
    BY <1>1, <1>8 DEF Lines, In, InPiece
  <2>2. h = seen
    BY <1>1, <1>2, <2>1, AheadOnly
  <2>3. /\ Split(seen).rest = p \o Text /\ Len(p) >= MAXLINE /\ Len(p) \in Nat
        /\ flagselected <=> Selected(p \o Text)
        /\ Out = Split(seen).done \o (IF flagselected THEN p ELSE <<>>)
    BY <2>1, <2>2 DEF Handled, Pieces
  <2>4. p \o Text # <<>> /\ Len(p \o Text) = Len(p) + linelen
    <3>1. Len(p \o Text) = Len(p) + linelen /\ p \o Text \in Seq(Chars)
      <4>1. p \in Seq(Chars) /\ Text \in Seq(Chars) /\ Len(Text) = linelen
        BY <1>2, <2>1
      <4>. HIDE MultilogAssumption
      <4>. QED BY <4>1, ConcatProperties
    <3>2. Len(p) + linelen # 0
      BY <1>2, <2>3
    <3>. QED BY <3>1, <3>2
  <2>5. PieceOver' /\ linelen' # MAXLINE
    <3>1. CASE ~flageof'
      <4>1. Broken(seen)'
        BY <1>1, <1>2, <1>3, <1>5, <1>8, <2>3, <2>4, <3>1 DEF Broken
      <4>2. LineOver(seen)' /\ Handled(seen, p, IF flageof THEN <<>> ELSE Text)' /\ Pieces(p)' /\ seen' = seen
        BY <1>2, <1>3, <2>1, <2>2, <3>1, <4>1 DEF LineOver, Handled, Pieces
      <4>. QED BY <1>2, <1>3, <1>4, <1>8, <4>2 DEF PieceOver
    <3>2. CASE flageof'
      <4>. PICK g : g = SubSeq(seen, 1, Len(seen) - linelen)
        OBVIOUS
      <4>1. linelen \in 0..Len(Split(seen).rest)
        BY <1>2, <2>3, <2>4
      <4>2. linelen <= Len(seen) /\ Split(g).done = Split(seen).done /\ Split(g).rest = p
        <5>1. SubSeq(p \o Text, 1, Len(p)) = p
          BY <1>2, <2>1, <2>3
        <5>2. Len(p \o Text) - linelen = Len(p)
          BY <1>2, <2>3, <2>4
        <5>3. /\ linelen <= Len(seen) /\ Split(g).done = Split(seen).done
              /\ Split(g).rest = SubSeq(Split(seen).rest, 1, Len(Split(seen).rest) - linelen)
          BY <1>2, <4>1, SplitBack
        <5>. QED BY <2>3, <5>1, <5>2, <5>3
      <4>3. g \in Seq(Chars) /\ g = Leading(seen, Len(seen) - linelen)
        <5>1. linelen \in Nat /\ Len(seen) \in Nat /\ seen \in Seq(Chars)
          BY <1>2, <2>4
        <5>2. Least(Len(seen) - linelen, Len(seen)) = Len(seen) - linelen
          BY <4>2, <5>1 DEF Least
        <5>3. SubSeq(seen, 1, Len(seen) - linelen) \in Seq(Chars)
          BY <4>2, <5>1, SubSeqProperties
        <5>. QED BY <5>2, <5>3 DEF Leading
      <4>4. Broken(g)'
        <5>1. linelen \in 0..MAXLINE - 1 /\ p # <<>>
          BY <1>2, <1>4, <1>8, <2>3
        <5>. QED BY <1>1, <1>3, <3>2, <4>2, <4>3, <5>1 DEF Broken
      <4>5. Handled(g, p, <<>>)'
        <5>1. p \o <<>> = p /\ (Selected(p \o Text) <=> Selected(p))
          BY <1>2, <2>1, <2>3, SelectedStays
        <5>. QED BY <1>3, <2>1, <2>3, <4>2, <5>1 DEF Handled
      <4>6. LineOver(g)' /\ Pieces(p)' /\ Handled(g, p, IF flageof THEN <<>> ELSE Text)'
        BY <2>1, <3>2, <4>3, <4>4, <4>5 DEF LineOver, Pieces
      <4>7. PieceOver'
        BY <2>1, <4>3, <4>6, Zenon DEF PieceOver
      <4>. QED BY <1>2, <1>3, <1>4, <1>8, <4>7
    <3>. QED BY <3>1, <3>2
  <2>. QED BY <1>1, <1>8, <2>5 DEF Lines, In, Closing, Feeding, Reading
<1>. QED BY <1>1, <1>6, <1>7, <1>8

(* The script logs the lines that the manual's rules select.               *)
Chooses == pc = "act" => (Acted(Text).log <=> Selected(Text))

(* More of h is in the log, or no more where h is not selected.            *)
LEMMA HandledMore ==
  ASSUME NEW h, NEW p \in Seq(Chars), NEW t \in Seq(Chars), Split(h).done \in Seq(Chars),
         Out = Split(h).done \o (IF flagselected' THEN p ELSE <<>>),
         Out' = Out \o (IF flagselected' THEN t ELSE <<>>)
  PROVE  Out' = Split(h).done \o (IF flagselected' THEN p \o t ELSE <<>>)
<1>. PICK d : d = Split(h).done
  OBVIOUS
<1>1. CASE flagselected'
  <2>1. (d \o p) \o t = d \o (p \o t)
    <3>1. d \in Seq(Chars)
      OBVIOUS
    <3>. QED BY <3>1, ConcatAssoc, Zenon
  <2>. QED BY <1>1, <2>1
<1>2. CASE ~flagselected'
  <2>1. (d \o <<>>) \o <<>> = d \o <<>>
    OBVIOUS
  <2>. QED BY <1>2, <2>1
<1>. QED BY <1>1, <1>2

LEMMA LinesAct ==
  ASSUME TypeOK, Lines, Chooses, Act
  PROVE  Lines'
<1>. USE MultilogAssumption
<1>1. /\ pc = "act" /\ UNCHANGED <<seen, open, pipe, inbuf, flageof>>
      /\ flagselected' = Acted(Text).log
      /\ IF flagselected' THEN BufferPut(Text) ELSE UNCHANGED logs
      /\ IF linelen = MAXLINE THEN pc' = "more" /\ linelen' = 0 ELSE pc' = "end" /\ linelen' = linelen
  BY DEF Act, input
<1>2. Text \in Seq(Chars) /\ Len(Text) = linelen /\ linelen \in 0..MAXLINE
  BY TextIs DEF TypeOK
<1>3. Out' = Out \o (IF flagselected' THEN Text ELSE <<>>)
  <2>1. CASE flagselected'
    BY <1>1, <1>2, <2>1, LogsType, BufferPutDoes DEF Out
  <2>2. CASE ~flagselected'
    <3>1. Out' = Out /\ log \o logbuf \in Seq(Chars)
      BY <1>1, <2>2, LogsType DEF Out, logs, Logs
    <3>2. (log \o logbuf) \o <<>> = log \o logbuf
      BY <3>1, ConcatEmptySeq
    <3>. QED BY <2>2, <3>1, <3>2 DEF Out
  <2>. QED BY <2>1, <2>2
<1>4. flagselected' <=> Selected(Text)
  BY <1>1 DEF Chooses
<1>. PICK p : p = Text
  OBVIOUS
<1>5. ASSUME NEW h \in Seq(Chars), Fresher(h, Text) PROVE p \in Seq(Chars) /\ Handled(h, p, <<>>)'
  <2>1. p \in Seq(Chars) /\ Split(h).rest = p /\ p \o <<>> = p
    BY <1>2, <1>5, ConcatEmptySeq DEF Fresher
  <2>2. Out' = Split(h).done \o (IF flagselected' THEN p ELSE <<>>)
    BY <1>3, <1>5 DEF Fresher
  <2>3. flagselected' <=> Selected(p)
    BY <1>4
  <2>. QED BY <2>1, <2>2, <2>3 DEF Handled
<1>6. CASE linelen = MAXLINE
  <2>1. PICK h \in Seq(Chars) : Ahead(h) /\ Fresher(h, Text)
    BY <1>1, <1>6 DEF Lines, InFirst
  <2>2. Ahead(h)' /\ Pieces(p)'
    BY <1>1, <1>2, <1>6, <2>1 DEF Ahead, Pieces
  <2>3. Handled(h, p, <<>>)' /\ p \in Seq(Chars)
    BY <1>5, <2>1
  <2>4. Text' = <<>>
    BY <1>1, <1>6 DEF Text
  <2>5. InPiece'
    BY <2>1, <2>2, <2>3, <2>4 DEF InPiece
  <2>. QED BY <1>1, <1>6, <2>5 DEF Lines, In, Closing, Feeding, Reading
<1>7. CASE linelen # MAXLINE
  <2>1. PICK g \in Seq(Chars) : LineOver(g) /\ Fresher(g, Text)
    BY <1>1, <1>7 DEF Lines, FirstOver
  <2>2. LineOver(g)'
    BY <1>1, <2>1 DEF LineOver, Ahead, Broken
  <2>3. Handled(g, p, <<>>)' /\ p \in Seq(Chars)
    BY <1>5, <2>1
  <2>4. AtEnd'
    BY <2>1, <2>2, <2>3 DEF AtEnd
  <2>. QED BY <1>1, <1>7, <2>4 DEF Lines, In, Closing, Feeding, Reading
<1>. QED BY <1>6, <1>7

LEMMA LinesEnd ==
  ASSUME TypeOK, Lines, End
  PROVE  Lines'
<1>. USE MultilogAssumption
<1>1. /\ pc = "end" /\ UNCHANGED <<seen, open, pipe, inbuf, flageof, flagselected>>
      /\ IF flagselected THEN BufferPut(<<nl>>) ELSE UNCHANGED logs
      /\ pc' \in {"top", "quit"}
  BY DEF End, input, picks
<1>2. PICK g \in Seq(Chars), p \in Seq(Chars) : LineOver(g) /\ Handled(g, p, <<>>)
  BY <1>1 DEF Lines, AtEnd
<1>3. LineOver(g)' /\ Split(g).rest = p /\ Split(g).done \in Seq(Chars) /\ <<nl>> \in Seq(Chars)
  BY <1>1, <1>2, SplitType, ConcatEmptySeq DEF LineOver, Ahead, Broken, Handled
<1>4. Out' = Out \o (IF flagselected THEN <<nl>> ELSE <<>>)
  <2>1. CASE flagselected
    BY <1>1, <1>3, <2>1, LogsType, BufferPutDoes DEF Out
  <2>2. CASE ~flagselected
    <3>1. Out' = Out /\ log \o logbuf \in Seq(Chars)
      BY <1>1, <2>2, LogsType DEF Out, logs, Logs
    <3>2. (log \o logbuf) \o <<>> = log \o logbuf
      BY <3>1, ConcatEmptySeq
    <3>. QED BY <2>2, <3>1, <3>2 DEF Out
  <2>. QED BY <2>1, <2>2
<1>5. Out' = Split(g).done \o (IF flagselected THEN p \o <<nl>> ELSE <<>>)
  <2>1. p \in Seq(Chars) /\ flagselected' = flagselected
    BY <1>1, <1>2
  <2>2. Out = Split(g).done \o (IF flagselected' THEN p ELSE <<>>)
    BY <1>2, <2>1 DEF Handled
  <2>3. Out' = Out \o (IF flagselected' THEN <<nl>> ELSE <<>>)
    BY <1>4, <2>1
  <2>. QED BY <1>3, <2>1, <2>2, <2>3, HandledMore
<1>. PICK h : h = Append(g, nl)
  OBVIOUS
<1>6. /\ h \in Seq(Chars) /\ Split(h).rest = <<>>
      /\ Split(h).done = Split(g).done \o (IF flagselected THEN p \o <<nl>> ELSE <<>>)
  <2>1. Append(p, nl) = p \o <<nl>>
    BY <1>2, AppendIsConcat
  <2>2. flagselected <=> Selected(p)
    BY <1>2, <1>3 DEF Handled
  <2>. QED BY <1>2, <1>3, <2>1, <2>2, SplitNewline
<1>7. Whole(h)' /\ (Ahead(h)' \/ Broken(g)')
  BY <1>3, <1>5, <1>6 DEF Whole, LineOver
<1>8. AtTop'
  BY <1>2, <1>6, <1>7 DEF AtTop
<1>. QED BY <1>1, <1>8 DEF Lines, In, Closing, Feeding, Reading

LEMMA ModTwice ==
  ASSUME NEW a \in Nat, NEW m \in Nat \ {0}, a % m = 0
  PROVE  (a + m) % m = 0
<1>1. PICK q \in Int : a = m * q
  BY SMT
<1>. QED BY <1>1, SMT

LEMMA LinesGot ==
  ASSUME TypeOK, Stops, Lines, Got
  PROVE  Lines'
<1>1. /\ pc = "got" /\ UNCHANGED <<seen, open, pipe, inbuf, line, flageof, flagselected>>
      /\ IF ~flageof /\ linelen > 0 /\ flagselected THEN BufferPut(Text) ELSE UNCHANGED logs
      /\ IF ~flageof /\ linelen > 0 /\ linelen = MAXLINE THEN pc' = "more" /\ linelen' = 0
                                                         ELSE pc' = "end" /\ linelen' = linelen
  BY DEF Got, input, picks
<1>2. Text \in Seq(Chars) /\ Len(Text) = linelen /\ linelen \in 0..MAXLINE /\ MAXLINE \in Nat \ {0}
  BY TextIs, MultilogAssumption DEF TypeOK
<1>3. PICK x : /\ x \in Seq(Chars) /\ (linelen = 0 => x = <<>>)
               /\ x = IF flageof THEN <<>> ELSE Text
  <2>1. Text \in Seq(Chars) /\ (linelen = 0 => Text = <<>>) /\ <<>> \in Seq(Chars)
    BY <1>2
  <2>. QED BY <2>1, Zenon
<1>4. Out' = Out \o (IF flagselected' THEN x ELSE <<>>)
  <2>1. CASE ~flageof /\ linelen > 0 /\ flagselected
    <3>1. Out' = Out \o Text
      BY <1>1, <1>2, <2>1, LogsType, BufferPutDoes DEF Out
    <3>. QED BY <1>1, <1>3, <2>1, <3>1
  <2>2. CASE ~(~flageof /\ linelen > 0 /\ flagselected)
    <3>1. Out' = Out /\ log \o logbuf \in Seq(Chars)
      <4>1. UNCHANGED logs
        BY <1>1, <2>2, Zenon
      <4>. QED BY <4>1, LogsType DEF Out, logs, Logs
    <3>2. (log \o logbuf) \o <<>> = log \o logbuf
      BY <3>1, ConcatEmptySeq
    <3>3. flagselected' => x = <<>>
      BY <1>1, <1>2, <1>3, <2>2
    <3>. QED BY <3>1, <3>2, <3>3 DEF Out
  <2>. QED BY <2>1, <2>2
<1>5. ASSUME NEW h \in Seq(Chars), NEW p \in Seq(Chars), Handled(h, p, x)
      PROVE  p \o x \in Seq(Chars) /\ Handled(h, p \o x, <<>>)'
  <2>1. /\ Split(h).rest = p \o x /\ Split(h).done \in Seq(Chars) /\ (flagselected' <=> Selected(Split(h).rest))
        /\ Out = Split(h).done \o (IF flagselected' THEN p ELSE <<>>)
    BY <1>1, <1>5, SplitType DEF Handled
  <2>2. Out' = Split(h).done \o (IF flagselected' THEN p \o x ELSE <<>>)
    <3>1. PICK d : d = Split(h).done
      OBVIOUS
    <3>2. CASE flagselected'
      <4>1. d \in Seq(Chars) /\ p \in Seq(Chars) /\ x \in Seq(Chars)
        BY <1>3, <1>5, <2>1, <3>1
      <4>2. (d \o p) \o x = d \o (p \o x)
        BY <4>1, ConcatAssociative, SMTT(30)
      <4>. QED BY <1>4, <2>1, <3>1, <3>2, <4>2
    <3>3. CASE ~flagselected'
      <4>1. (d \o <<>>) \o <<>> = d \o <<>>
        BY <2>1, <3>1
      <4>. QED BY <1>4, <2>1, <3>1, <3>3, <4>1
    <3>. QED BY <3>2, <3>3
  <2>. PICK q : q = p \o x
    OBVIOUS
  <2>3. q \in Seq(Chars) /\ q \o <<>> = q
    BY <1>3, ConcatEmptySeq, ConcatProperties
  <2>4. Handled(h, q, <<>>)'
    BY <2>1, <2>2, <2>3 DEF Handled
  <2>. QED BY <2>3, <2>4
<1>6. CASE linelen = MAXLINE /\ ~flageof
  <2>1. PICK h \in Seq(Chars), p \in Seq(Chars) : Ahead(h) /\ Handled(h, p, Text) /\ Pieces(p)
    BY <1>1, <1>6 DEF Lines, InPiece
  <2>2. PICK q \in Seq(Chars) : Handled(h, q, <<>>)' /\ q = p \o x
    BY <1>3, <1>5, <1>6, <2>1
  <2>3. Pieces(q)'
    <3>1. p \in Seq(Chars) /\ x \in Seq(Chars) /\ Len(x) = MAXLINE
      BY <1>2, <1>3, <1>6, <2>1
    <3>2. Len(p \o x) = Len(p) + MAXLINE /\ Len(p) \in Nat
      BY <3>1
    <3>3. Len(p) >= MAXLINE /\ Len(p) % MAXLINE = 0 /\ MAXLINE \in Nat \ {0}
      BY <1>2, <2>1 DEF Pieces
    <3>4. (Len(p) + MAXLINE) % MAXLINE = 0 /\ Len(p) + MAXLINE >= MAXLINE
      BY <3>2, <3>3, ModTwice
    <3>. QED BY <2>2, <3>2, <3>4 DEF Pieces
  <2>4. Ahead(h)' /\ Text' = <<>>
    BY <1>1, <1>2, <1>6, <2>1 DEF Ahead, Text
  <2>5. InPiece'
    BY <2>1, <2>2, <2>3, <2>4 DEF InPiece
  <2>. QED BY <1>1, <1>2, <1>6, <2>5 DEF Lines, In, Closing, Feeding, Reading
<1>7. CASE ~(linelen = MAXLINE /\ ~flageof)
  <2>1. PICK g \in Seq(Chars), p \in Seq(Chars) : LineOver(g) /\ Handled(g, p, x)
    BY <1>1, <1>3, <1>7 DEF Lines, PieceOver
  <2>2. LineOver(g)'
    BY <1>1, <2>1 DEF LineOver, Ahead, Broken
  <2>3. PICK q \in Seq(Chars) : Handled(g, q, <<>>)'
    BY <1>5, <2>1
  <2>4. AtEnd'
    BY <2>1, <2>2, <2>3 DEF AtEnd
  <2>. QED BY <1>1, <1>7, <2>4 DEF Lines, In, Closing, Feeding, Reading
<1>. QED BY <1>6, <1>7

LinesInv == ExitInv /\ Lines /\ Drained

LEMMA LinesInit == Init => LinesInv
<1>. SUFFICES ASSUME Init PROVE Lines /\ Drained
  BY ExitInit DEF LinesInv
<1>1. Whole(<<>>) /\ Ahead(<<>>) /\ <<>> \in Seq(Chars)
  <2>1. <<>> \o <<>> = <<>> /\ <<>> \in Seq(Chars)
    OBVIOUS
  <2>. QED BY <2>1, SplitEmpty DEF Init, Whole, Ahead, Out, NoParts
<1>2. AtTop
  BY <1>1 DEF AtTop
<1>. QED BY <1>2 DEF Init, Lines, Drained, In, Closing, Feeding, Reading

LEMMA LinesStep ==
  ASSUME LinesInv, Chooses, [Next]_vars
  PROVE  LinesInv'
<1>1. ExitInv' /\ TypeOK /\ Stops
  BY ExitStep DEF LinesInv, ExitInv, Typed
<1>2. Lines'
  BY <1>1, LinesStill, LinesTop, LinesRead, LinesFirst, LinesMore, LinesNoMore, LinesAct, LinesGot, LinesEnd
  DEF LinesInv, Next, Flushread, Doit
<1>3. Drained'
  <2>1. CASE FlushLogs \/ Unblock \/ Block \/ Read \/ ExitAsap \/ EndOfFile \/ ReadError
    BY <1>1, <2>1 DEF LinesInv, Drained, FlushLogs, BufferFlush, Unblock, Block, Read, ExitAsap, EndOfFile, ReadError,
       NoMore, logs, Reading, TypeOK
  <2>2. CASE Top \/ Gets("gets", "act") \/ Gets("more", "got") \/ Act \/ Got \/ End \/ Quit
    BY <2>2 DEF Drained, Top, Feed, Gets, Act, Got, End, Quit, Reading
  <2>3. CASE (\E s \in Signals : Signal(s)) \/ WriteInput \/ CloseInput \/ UNCHANGED vars
    BY <2>3 DEF LinesInv, Drained, Signal, WriteInput, CloseInput, vars, logs, Reading
  <2>. QED BY <2>1, <2>2, <2>3 DEF Next, Flushread, Doit
<1>. QED BY <1>1, <1>2, <1>3 DEF LinesInv

LEMMA ModAdd ==
  ASSUME NEW a \in Nat, NEW m \in Nat \ {0}, NEW l \in 0..m - 1, a % m = 0
  PROVE  (a + l) % m = l
<1>1. PICK q \in Int : a = m * q
  BY SMT
<1>. QED BY <1>1, SMT

(* While multilog reads, all but the last piece of the last line are in    *)
(* the log.                                                                *)
LEMMA ReadingLogged ==
  ASSUME LinesInv, pc \in Reading, open
  PROVE  LET r == Split(seen)
             n == Len(r.rest) - (Len(r.rest) % MAXLINE)
         IN log = r.done \o (IF Selected(r.rest) THEN Leading(r.rest, n) ELSE <<>>)
<1>1. TypeOK /\ Feeding /\ inbuf = <<>> /\ ~flageof /\ (ret # "top" => linelen < MAXLINE) /\ logbuf = <<>> /\ Lines
  BY DEF LinesInv, ExitInv, Typed, Stops, WhileFeeding, Feeding, Drained
<1>2. /\ seen \in Seq(Chars) /\ log \in Seq(Chars) /\ ret \in {"top", "gets", "more"} /\ MAXLINE \in Nat \ {0}
      /\ Text \in Seq(Chars) /\ Len(Text) = linelen /\ linelen \in 0..MAXLINE
  BY <1>1, TextIs, MultilogAssumption DEF TypeOK
<1>3. Out = log
  BY <1>1, <1>2, ConcatEmptySeq DEF Out
<1>4. PICK d, r : d = Split(seen).done /\ r = Split(seen).rest /\ d \in Seq(Chars)
  BY <1>2, SplitType
<1>5. SUFFICES \E n \in Nat : /\ n = Len(r) - (Len(r) % MAXLINE)
                              /\ log = d \o (IF Selected(r) THEN Leading(r, n) ELSE <<>>)
  BY <1>4
<1>6. ASSUME 0 = Len(r) - (Len(r) % MAXLINE), Leading(r, 0) = <<>>, log = d
      PROVE  \E n \in Nat : /\ n = Len(r) - (Len(r) % MAXLINE)
                            /\ log = d \o (IF Selected(r) THEN Leading(r, n) ELSE <<>>)
  <2>1. d \o <<>> = d
    BY <1>4
  <2>2. log = d \o (IF Selected(r) THEN Leading(r, 0) ELSE <<>>)
    BY <1>6, <2>1
  <2>3. 0 \in Nat
    OBVIOUS
  <2>. QED BY <1>6, <2>2, <2>3, Zenon
<1>7. CASE ret = "top"
  <2>1. r = <<>> /\ log = d
    BY <1>1, <1>2, <1>3, <1>4, <1>7, AheadOnly DEF Lines, In, AtTop, Broken, Whole
  <2>2. 0 = Len(r) - (Len(r) % MAXLINE) /\ Leading(r, 0) = <<>>
    BY <1>2, <2>1 DEF Leading, Least
  <2>. QED BY <1>6, <2>1, <2>2
<1>8. CASE ret = "gets"
  <2>1. r = Text /\ log = d
    BY <1>1, <1>2, <1>3, <1>4, <1>8, AheadOnly DEF Lines, In, InFirst, Fresher
  <2>2. 0 = Len(r) - (Len(r) % MAXLINE)
    <3>1. linelen % MAXLINE = linelen
      BY <1>1, <1>2, <1>8
    <3>. QED BY <1>2, <2>1, <3>1
  <2>3. Leading(r, 0) = <<>>
    BY <1>2, <2>1 DEF Leading, Least
  <2>. QED BY <1>6, <2>1, <2>2, <2>3
<1>9. CASE ret = "more"
  <2>1. PICK p \in Seq(Chars) : /\ r = p \o Text /\ Len(p) >= MAXLINE /\ Len(p) % MAXLINE = 0
                                /\ (flagselected <=> Selected(r)) /\ log = d \o (IF flagselected THEN p ELSE <<>>)
    BY <1>1, <1>2, <1>3, <1>4, <1>9, AheadOnly DEF Lines, In, InPiece, Handled, Pieces
  <2>2. PICK t \in Seq(Chars) : r = p \o t /\ Len(t) = linelen
    BY <1>2, <2>1
  <2>3. Len(r) = Len(p) + Len(t) /\ Len(p) \in Nat /\ SubSeq(r, 1, Len(p)) = p
    BY <2>1, <2>2
  <2>4. Len(r) % MAXLINE = linelen
    BY <1>1, <1>2, <1>9, <2>1, <2>2, <2>3, ModAdd
  <2>5. Len(p) = Len(r) - (Len(r) % MAXLINE)
    BY <1>2, <2>2, <2>3, <2>4
  <2>6. Leading(r, Len(p)) = p
    <3>1. Len(r) = Len(p) + Len(t) /\ Len(p) \in Nat /\ Len(t) \in Nat
      BY <2>2, <2>3
    <3>2. Least(Len(p), Len(r)) = Len(p)
      BY <3>1 DEF Least
    <3>. QED BY <2>3, <3>2 DEF Leading
  <2>7. log = d \o (IF Selected(r) THEN Leading(r, Len(p)) ELSE <<>>)
    BY <2>1, <2>6
  <2>. QED BY <2>3, <2>5, <2>7, Zenon
<1>. QED BY <1>2, <1>7, <1>8, <1>9

(* When it has exited, the last line has been closed with a newline.       *)
LEMMA ExitedLogged ==
  ASSUME LinesInv, pc = "exited"
  PROVE  \E j \in 0..(IF flageof THEN MAXLINE - 1 ELSE 0) : log = Closed(Leading(seen, Len(seen) - j)).done
<1>1. TypeOK /\ inbuf = <<>> /\ logbuf = <<>> /\ AtTop
  BY DEF LinesInv, ExitInv, Typed, Stops, Emptied, Closing, Lines
<1>2. seen \in Seq(Chars) /\ Len(seen) \in Nat /\ log \in Seq(Chars) /\ MAXLINE \in Nat \ {0}
  BY <1>1, MultilogAssumption DEF TypeOK
<1>3. Out = log
  BY <1>1, <1>2, ConcatEmptySeq DEF Out
<1>4. Leading(seen, Len(seen) - 0) = seen /\ 0 \in 0..(IF flageof THEN MAXLINE - 1 ELSE 0)
  BY <1>2, SubSeqFull DEF Leading, Least
<1>5. PICK h \in Seq(Chars) : Whole(h) /\ (Ahead(h) \/ \E g \in Seq(Chars) : h = Append(g, nl) /\ Broken(g))
  BY <1>1 DEF AtTop
<1>6. CASE Ahead(h)
  <2>1. log = Closed(seen).done
    BY <1>1, <1>2, <1>3, <1>5, <1>6, AheadOnly DEF Whole, Closed
  <2>. QED BY <1>4, <2>1
<1>7. ASSUME NEW g \in Seq(Chars), h = Append(g, nl), Broken(g)
      PROVE  \E j \in 0..(IF flageof THEN MAXLINE - 1 ELSE 0) : log = Closed(Leading(seen, Len(seen) - j)).done
  <2>1. log = Closed(g).done
    BY <1>3, <1>5, <1>7 DEF Whole, Closed, Broken
  <2>2. CASE flageof
    <3>1. PICK j \in 0..MAXLINE - 1 : g = Leading(seen, Len(seen) - j)
      BY <1>7, <2>2 DEF Broken
    <3>. QED BY <2>1, <2>2, <3>1
  <2>3. CASE ~flageof
    BY <1>4, <1>7, <2>1, <2>3 DEF Broken
  <2>. QED BY <2>2, <2>3
<1>. QED BY <1>5, <1>6, <1>7

(* Whatever comes on stdin in whatever pieces, whatever the sizes of the   *)
(* line and the buffers, signals and errors: as long as the script logs    *)
(* the lines that the manual's rules select (a script with simple patterns *)
(* before an F does for the first line), the log holds these and no        *)
(* others, as they were and in order, when multilog waits for input and    *)
(* when it has exited.                                                     *)
THEOREM LogsChosen == Spec /\ []Chooses => []LogsLines
<1>1. LinesInv /\ Chooses /\ [Next]_vars => LinesInv'
  BY LinesStep
<1>2. LinesInv => LogsLines
  BY ReadingLogged, ExitedLogged DEF LogsLines
<1>. QED BY <1>1, <1>2, LinesInit, PTL DEF Spec

-----------------------------------------------------------------------------
(* Simple patterns                                                         *)
Patterns == Seq(Chars \cup {"*", "?"})

(* The places from where on buf matches what pattern has from i on, when   *)
(* next are those for what it has from i + 1 on                            *)
Starts(pattern, buf, i, next) ==
  IF pattern[i] # "*" THEN {j \in 1..Len(buf) : buf[j] = pattern[i] /\ j + 1 \in next}
  ELSE IF i = Len(pattern) THEN 1..Len(buf) + 1
  ELSE {j \in 1..Len(buf) :
          \E k \in j..Len(buf) : /\ buf[k] = pattern[i + 1]
                                 /\ \A l \in j..k - 1 : buf[l] # pattern[i + 1]
                                 /\ k \in next}

(* match_simple goes back through the pattern once.                        *)
LEMMA SimpleTable ==
  ASSUME NEW pattern \in Patterns, NEW buf \in Seq(Chars)
  PROVE  \E h \in [0..Len(pattern) -> SUBSET (1..Len(buf) + 1)] :
           /\ h[0] = {Len(buf) + 1}
           /\ \A q \in 1..Len(pattern) : h[q] = Starts(pattern, buf, Len(pattern) + 1 - q, h[q - 1])
           /\ match_simple(pattern, buf) <=> 1 \in h[Len(pattern)]
<1>. DEFINE n == Len(pattern)
            b == Len(buf) + 1
            S == SUBSET (1..b)
            Body(m, i) == IF i > n THEN {b} ELSE Starts(pattern, buf, i, m[i + 1])
            f == CHOOSE m : m = [i \in 1..n + 1 |-> Body(m, i)]
            T == [R \in S |-> [q \in 1..n |-> Starts(pattern, buf, n + 1 - q, R)]]
<1>1. n \in Nat /\ b \in Nat /\ {b} \in S
  BY DEF Patterns
<1>2. match_simple(pattern, buf) <=> 1 \in f[1]
  BY DEF match_simple, Starts
<1>3. \A i, R : Starts(pattern, buf, i, R) \in S
  BY <1>1 DEF Starts
<1>. HIDE DEF S, b, n
<1>4. T \in [S -> [1..n -> S]]
  BY <1>3
<1>5. \A R \in S : \A q \in 1..n : T[R][q] = Starts(pattern, buf, n + 1 - q, R)
  OBVIOUS
<1>. HIDE DEF T
<1>6. PICK h \in [0..n -> S] : Runs(h, n, {b}, T)
  BY <1>1, <1>4, Recursion
<1>7. h[0] = {b} /\ \A q \in 1..n : h[q] = T[h[q - 1]][q]
  BY <1>6 DEF Runs
<1>8. ASSUME NEW q \in 1..n PROVE h[q] = Starts(pattern, buf, n + 1 - q, h[q - 1])
  <2>1. q - 1 \in 0..n
    BY <1>1
  <2>2. h[q - 1] \in S
    BY <1>6, <2>1
  <2>. QED BY <1>5, <1>7, <2>2
<1>9. \E m : m = [i \in 1..n + 1 |-> Body(m, i)]
  <2>. DEFINE g == [i \in 1..n + 1 |-> h[n + 1 - i]]
  <2>1. ASSUME NEW i \in 1..n + 1 PROVE g[i] = Body(g, i)
    <3>1. CASE i = n + 1
      <4>1. n + 1 - i = 0 /\ i > n
        BY <1>1, <3>1
      <4>. QED BY <1>7, <4>1
    <3>2. CASE i # n + 1
      <4>1. /\ n + 1 - i \in 1..n /\ n + 1 - (n + 1 - i) = i /\ (n + 1 - i) - 1 = n + 1 - (i + 1)
            /\ i + 1 \in 1..n + 1 /\ ~(i > n)
        BY <1>1, <3>2
      <4>2. g[i] = Starts(pattern, buf, i, h[n + 1 - (i + 1)])
        BY <1>8, <4>1
      <4>. QED BY <4>1, <4>2
    <3>. QED BY <3>1, <3>2
  <2>2. g = [i \in 1..n + 1 |-> Body(g, i)]
    <3>1. g = [i \in 1..n + 1 |-> g[i]]
      OBVIOUS
    <3>. HIDE DEF g, Body
    <3>. QED BY <2>1, <3>1
  <2>. HIDE DEF g, Body
  <2>. QED BY <2>2
<1>10. f = [i \in 1..n + 1 |-> Body(f, i)]
  <2>. HIDE DEF Body
  <2>. QED BY <1>9
<1>. HIDE DEF f
<1>11. \A i \in 1..n + 1 : f[i] = Body(f, i)
  <2>. HIDE DEF Body
  <2>. QED BY <1>10
<1>12. \A q \in 0..n : q \in {k \in 0..n : f[n + 1 - k] = h[k]}
  <2>. DEFINE P == {k \in 0..n : f[n + 1 - k] = h[k]}
  <2>1. 0 \in P
    <3>1. n + 1 - 0 \in 1..n + 1 /\ n + 1 - 0 > n /\ 0 \in 0..n
      BY <1>1
    <3>. QED BY <1>7, <1>11, <3>1
  <2>2. ASSUME NEW k \in 1..n, k - 1 \in P PROVE k \in P
    <3>1. n + 1 - k \in 1..n + 1 /\ ~(n + 1 - k > n) /\ n + 1 - k + 1 = n + 1 - (k - 1) /\ k \in 0..n
      BY <1>1
    <3>2. f[n + 1 - k] = Starts(pattern, buf, n + 1 - k, f[n + 1 - (k - 1)])
      BY <1>11, <3>1
    <3>. QED BY <1>8, <2>2, <3>1, <3>2
  <2>. HIDE DEF P
  <2>3. \A k \in 0..n : k \in P
    BY <1>1, <2>1, <2>2, CountUp
  <2>. QED BY <2>3 DEF P
<1>13. n \in 0..n /\ n + 1 - n = 1
  BY <1>1
<1>14. f[1] = h[n]
  BY <1>12, <1>13
<1>. QED BY <1>2, <1>6, <1>7, <1>8, <1>14 DEF n, b, S

(* A cut of what is left of buf at j between what the pattern has from i   *)
(* on, as the manual says; Concatenates() for i = 1 and j = 1              *)
Share(pattern, s, i, j, e) ==
  /\ j <= e
  /\ IF pattern[i] = "*" THEN i = Len(pattern) \/ \A k \in j..e - 1 : s[k] # pattern[i + 1]
                         ELSE e = j + 1 /\ s[j] = pattern[i]
Cuts(pattern, s, i, j, cut) ==
  /\ cut[i] = j /\ cut[Len(pattern) + 1] = Len(s) + 1
  /\ \A a \in i..Len(pattern) : Share(pattern, s, a, cut[a], cut[a + 1])
From(pattern, s, i, j) ==
  \E cut \in [i..Len(pattern) + 1 -> 1..Len(s) + 1] : Cuts(pattern, s, i, j, cut)

LEMMA FromAll ==
  ASSUME NEW pattern \in Patterns, NEW s \in Seq(Chars)
  PROVE  Concatenates(pattern, s) <=> From(pattern, s, 1, 1)
BY DEF Concatenates, From, Cuts, Share, Patterns

LEMMA FromStep ==
  ASSUME NEW pattern \in Patterns, NEW s \in Seq(Chars), NEW i \in 1..Len(pattern), NEW j \in 1..Len(s) + 1
  PROVE  From(pattern, s, i, j) <=> \E e \in 1..Len(s) + 1 : Share(pattern, s, i, j, e) /\ From(pattern, s, i + 1, e)
<1>. DEFINE n == Len(pattern)
            B == 1..Len(s) + 1
<1>1. n \in Nat /\ i \in Nat /\ i + 1 \in i..n + 1
  BY DEF Patterns
<1>2. ASSUME From(pattern, s, i, j)
      PROVE  \E e \in B : Share(pattern, s, i, j, e) /\ From(pattern, s, i + 1, e)
  <2>1. PICK cut \in [i..n + 1 -> B] : Cuts(pattern, s, i, j, cut)
    BY <1>2 DEF From
  <2>. HIDE DEF B, n
  <2>2. PICK c \in [i + 1..n + 1 -> B] : \A a \in i + 1..n + 1 : c[a] = cut[a]
    <3>. DEFINE d == [a \in i + 1..n + 1 |-> cut[a]]
    <3>1. d \in [i + 1..n + 1 -> B]
      BY <1>1
    <3>. QED BY <3>1
  <2>3. Share(pattern, s, i, j, cut[i + 1])
    <3>1. i \in i..n
      BY <1>1 DEF n
    <3>. QED BY <2>1, <3>1 DEF Cuts, n
  <2>4. Cuts(pattern, s, i + 1, cut[i + 1], c)
    <3>1. i + 1 \in i + 1..n + 1 /\ n + 1 \in i + 1..n + 1
      BY <1>1
    <3>2. \A a \in i + 1..n : a \in i..n /\ a \in i + 1..n + 1 /\ a + 1 \in i + 1..n + 1
      BY <1>1
    <3>3. \A a \in i + 1..n : Share(pattern, s, a, c[a], c[a + 1])
      BY <2>1, <2>2, <3>2 DEF Cuts, n
    <3>. QED BY <2>1, <2>2, <3>1, <3>3 DEF Cuts, n
  <2>5. cut[i + 1] \in B
    BY <1>1, <2>1
  <2>. QED BY <2>2, <2>3, <2>4, <2>5 DEF From, B, n
<1>3. ASSUME NEW e \in B, Share(pattern, s, i, j, e), From(pattern, s, i + 1, e)
      PROVE  From(pattern, s, i, j)
  <2>1. PICK cut \in [i + 1..n + 1 -> B] : Cuts(pattern, s, i + 1, e, cut)
    BY <1>3 DEF From
  <2>2. j \in B
    OBVIOUS
  <2>. HIDE DEF B, n
  <2>3. PICK c \in [i..n + 1 -> B] : c[i] = j /\ \A a \in i + 1..n + 1 : c[a] = cut[a]
    <3>. DEFINE d == [a \in i..n + 1 |-> IF a = i THEN j ELSE cut[a]]
    <3>1. ASSUME NEW a \in i..n + 1 PROVE a = i \/ a \in i + 1..n + 1
      BY <1>1
    <3>2. d \in [i..n + 1 -> B]
      BY <2>2, <3>1
    <3>3. i \in i..n + 1 /\ \A a \in i + 1..n + 1 : a \in i..n + 1 /\ a # i
      BY <1>1
    <3>4. d[i] = j /\ \A a \in i + 1..n + 1 : d[a] = cut[a]
      BY <3>3
    <3>. HIDE DEF d
    <3>. QED BY <3>2, <3>4
  <2>4. n + 1 \in i + 1..n + 1 /\ i + 1 \in i + 1..n + 1
    BY <1>1
  <2>5. ASSUME NEW a \in i..n PROVE Share(pattern, s, a, c[a], c[a + 1])
    <3>1. CASE a = i
      BY <1>3, <2>1, <2>3, <2>4, <3>1 DEF Cuts
    <3>2. CASE a # i
      <4>1. a \in i + 1..n /\ a \in i + 1..n + 1 /\ a + 1 \in i + 1..n + 1
        BY <1>1, <3>2
      <4>. QED BY <2>1, <2>3, <4>1 DEF Cuts, n
    <3>. QED BY <3>1, <3>2
  <2>6. Cuts(pattern, s, i, j, c)
    BY <2>1, <2>3, <2>4, <2>5 DEF Cuts, n
  <2>. QED BY <2>3, <2>6 DEF From, B, n
<1>. QED BY <1>2, <1>3

LEMMA FromEnd ==
  ASSUME NEW pattern \in Patterns, NEW s \in Seq(Chars), NEW j \in 1..Len(s) + 1
  PROVE  From(pattern, s, Len(pattern) + 1, j) <=> j = Len(s) + 1
<1>. DEFINE n == Len(pattern)
            B == 1..Len(s) + 1
<1>1. n \in Nat
  BY DEF Patterns
<1>2. ASSUME From(pattern, s, n + 1, j) PROVE j = Len(s) + 1
  BY <1>2 DEF From, Cuts
<1>3. ASSUME j = Len(s) + 1 PROVE From(pattern, s, n + 1, j)
  <2>. DEFINE c == [a \in n + 1..n + 1 |-> j]
  <2>1. c \in [n + 1..n + 1 -> B] /\ c[n + 1] = j
    BY <1>1
  <2>2. \A a \in n + 1..n : FALSE
    BY <1>1
  <2>. HIDE DEF c
  <2>3. Cuts(pattern, s, n + 1, j, c)
    BY <1>3, <2>1, <2>2 DEF Cuts
  <2>. QED BY <2>1, <2>3 DEF From
<1>. QED BY <1>2, <1>3

(* No star follows a star: there the manual gives the first star any       *)
(* string, and match_simple looks for a star in buf.                       *)
Plain(pattern) == \A i \in 1..Len(pattern) - 1 : ~(pattern[i] = "*" /\ pattern[i + 1] = "*")

LEMMA PlacesFrom ==
  ASSUME NEW pattern \in Patterns, NEW s \in Seq(Chars), Plain(pattern),
         NEW i \in 1..Len(pattern), NEW next,
         \A e \in 1..Len(s) + 1 : e \in next <=> From(pattern, s, i + 1, e),
         NEW j \in 1..Len(s) + 1
  PROVE  j \in Starts(pattern, s, i, next) <=> From(pattern, s, i, j)
<1>. DEFINE n == Len(pattern)
            B == 1..Len(s) + 1
<1>1. n \in Nat /\ i \in Nat /\ Len(s) \in Nat
  BY DEF Patterns
<1>2. From(pattern, s, i, j) <=> \E e \in B : Share(pattern, s, i, j, e) /\ e \in next
  BY FromStep
<1>3. CASE pattern[i] # "*"
  <2>1. \A e \in B : Share(pattern, s, i, j, e) <=> e = j + 1 /\ s[j] = pattern[i]
    BY <1>1, <1>3 DEF Share
  <2>2. j + 1 \in B <=> j \in 1..Len(s)
    BY <1>1
  <2>3. j \in Starts(pattern, s, i, next) <=> j \in 1..Len(s) /\ s[j] = pattern[i] /\ j + 1 \in next
    BY <1>3 DEF Starts
  <2>. HIDE DEF B
  <2>. QED BY <1>2, <2>1, <2>2, <2>3
<1>4. CASE pattern[i] = "*" /\ i = n
  <2>1. Len(s) + 1 \in B /\ j <= Len(s) + 1
    BY <1>1
  <2>2. Len(s) + 1 \in next
    BY <1>4, <2>1, FromEnd
  <2>3. Share(pattern, s, i, j, Len(s) + 1)
    BY <1>4, <2>1 DEF Share
  <2>4. j \in Starts(pattern, s, i, next)
    BY <1>4 DEF Starts
  <2>. QED BY <1>2, <2>1, <2>2, <2>3, <2>4
<1>5. CASE pattern[i] = "*" /\ i # n
  <2>1. i \in 1..n - 1 /\ i + 1 \in 1..n
    BY <1>1, <1>5
  <2>2. pattern[i + 1] # "*"
    BY <1>5, <2>1 DEF Plain
  <2>3. ASSUME NEW e \in B, e \in next PROVE e \in 1..Len(s) /\ s[e] = pattern[i + 1]
    <3>1. PICK d \in B : Share(pattern, s, i + 1, e, d)
      BY <2>1, <2>3, FromStep
    <3>2. d = e + 1 /\ s[e] = pattern[i + 1]
      BY <2>2, <3>1 DEF Share
    <3>. QED BY <1>1, <3>1, <3>2
  <2>4. \A e \in B : Share(pattern, s, i, j, e) <=> j <= e /\ \A k \in j..e - 1 : s[k] # pattern[i + 1]
    BY <1>5 DEF Share
  <2>5. ASSUME j \in Starts(pattern, s, i, next) PROVE From(pattern, s, i, j)
    <3>1. PICK k \in j..Len(s) : (\A l \in j..k - 1 : s[l] # pattern[i + 1]) /\ k \in next
      BY <1>5, <2>5 DEF Starts
    <3>2. k \in B /\ j <= k
      BY <1>1
    <3>. QED BY <1>2, <2>4, <3>1, <3>2
  <2>6. ASSUME From(pattern, s, i, j) PROVE j \in Starts(pattern, s, i, next)
    <3>1. PICK e \in B : Share(pattern, s, i, j, e) /\ e \in next
      BY <1>2, <2>6
    <3>2. /\ e \in j..Len(s) /\ s[e] = pattern[i + 1]
          /\ \A l \in j..e - 1 : s[l] # pattern[i + 1]
      BY <1>1, <2>3, <2>4, <3>1
    <3>3. j \in 1..Len(s)
      BY <1>1, <3>2
    <3>. QED BY <1>5, <3>1, <3>2, <3>3 DEF Starts
  <2>. QED BY <2>5, <2>6
<1>. QED BY <1>3, <1>4, <1>5

(* match.c's search from star to star finds every cut the manual allows.   *)
LEMMA SimpleMatches ==
  ASSUME NEW pattern \in Patterns, NEW s \in Seq(Chars), Plain(pattern)
  PROVE  match_simple(pattern, s) <=> Concatenates(pattern, s)
<1>. DEFINE n == Len(pattern)
            B == 1..Len(s) + 1
<1>1. n \in Nat /\ 1 \in B
  BY DEF Patterns
<1>2. PICK h \in [0..n -> SUBSET B] :
        /\ h[0] = {Len(s) + 1}
        /\ \A q \in 1..n : h[q] = Starts(pattern, s, n + 1 - q, h[q - 1])
        /\ match_simple(pattern, s) <=> 1 \in h[n]
  BY SimpleTable
<1>. HIDE DEF B
<1>. DEFINE Good(q) == \A j \in B : j \in h[q] <=> From(pattern, s, n + 1 - q, j)
            P == {q \in 0..n : Good(q)}
<1>3. Good(0)
  <2>1. n + 1 - 0 = n + 1
    BY <1>1
  <2>2. \A j \in B : From(pattern, s, n + 1, j) <=> j = Len(s) + 1
    BY FromEnd DEF B
  <2>. QED BY <1>2, <2>1, <2>2
<1>4. ASSUME NEW q \in 1..n, Good(q - 1) PROVE Good(q)
  <2>1. n + 1 - q \in 1..n /\ n + 1 - q + 1 = n + 1 - (q - 1)
    BY <1>1
  <2>2. \A e \in B : e \in h[q - 1] <=> From(pattern, s, n + 1 - q + 1, e)
    BY <1>4, <2>1
  <2>3. \A j \in B : j \in Starts(pattern, s, n + 1 - q, h[q - 1]) <=> From(pattern, s, n + 1 - q, j)
    BY <2>1, <2>2, PlacesFrom DEF B
  <2>. QED BY <1>2, <2>3
<1>5. \A q \in 0..n : q \in P
  <2>. HIDE DEF Good, n
  <2>1. 0 \in P /\ \A q \in 1..n : q - 1 \in P => q \in P
    BY <1>1, <1>3, <1>4
  <2>. HIDE DEF P
  <2>. QED BY <1>1, <2>1, CountUp
<1>6. n + 1 - n = 1 /\ n \in 0..n
  BY <1>1
<1>7. Good(n)
  <2>. HIDE DEF Good, n
  <2>. QED BY <1>5, <1>6
<1>8. 1 \in h[n] <=> From(pattern, s, 1, 1)
  BY <1>1, <1>6, <1>7
<1>. QED BY <1>2, <1>8, FromAll

-----------------------------------------------------------------------------
(* Scripts                                                                 *)

Before(A, j) == {k \in A : k < j}
Last(A, j) == LastOf(Before(A, j))

(* The last member before j + 1 is j, if it is a member.                   *)
LEMMA LastBefore ==
  ASSUME NEW A \in SUBSET Nat, NEW j \in Nat
  PROVE  /\ j \notin A => Before(A, j + 1) = Before(A, j) /\ Last(A, j + 1) = Last(A, j)
         /\ j \in A => Before(A, j + 1) # {} /\ Last(A, j + 1) = j
<1>1. ASSUME j \notin A PROVE Before(A, j + 1) = Before(A, j)
  <2>1. \A k \in A : k < j + 1 <=> k < j
    BY <1>1
  <2>. QED BY <2>1 DEF Before
<1>2. ASSUME j \in A PROVE Before(A, j + 1) # {} /\ Last(A, j + 1) = j
  <2>1. j \in Before(A, j + 1) /\ \A l \in Before(A, j + 1) : l <= j /\ l \in Nat
    BY <1>2 DEF Before
  <2>2. \A k \in Before(A, j + 1) : (\A l \in Before(A, j + 1) : l <= k) => k = j
    BY <2>1
  <2>. QED BY <2>1, <2>2 DEF Last, LastOf
<1>. QED BY <1>1, <1>2 DEF Last

LEMMA LastIs ==
  ASSUME NEW A \in SUBSET Nat, NEW j \in Nat, Before(A, j) # {}
  PROVE  Last(A, j) \in A /\ Last(A, j) < j
<1>. DEFINE P == {k \in 0..j : Before(A, k) # {} => Last(A, k) \in A /\ Last(A, k) < k}
<1>1. 0 \in P
  <2>1. Before(A, 0) = {}
    <3>1. \A k \in A : ~(k < 0)
      OBVIOUS
    <3>. QED BY <3>1 DEF Before
  <2>. QED BY <2>1
<1>2. ASSUME NEW k \in 1..j, k - 1 \in P PROVE k \in P
  <2>1. k - 1 \in Nat /\ (k - 1) + 1 = k
    OBVIOUS
  <2>2. CASE k - 1 \in A
    BY <2>1, <2>2, LastBefore
  <2>3. CASE k - 1 \notin A
    <3>1. Before(A, k) = Before(A, k - 1) /\ Last(A, k) = Last(A, k - 1)
      BY <2>1, <2>3, LastBefore
    <3>2. Before(A, k) # {} => Last(A, k) \in A /\ Last(A, k) < k - 1
      BY <1>2, <3>1
    <3>3. \A l \in A : l < k - 1 => l < k
      OBVIOUS
    <3>4. k \in 0..j
      OBVIOUS
    <3>. QED BY <3>2, <3>3, <3>4, Zenon
  <2>. QED BY <2>2, <2>3
<1>3. j \in P
  <2>. HIDE DEF P
  <2>1. \A k \in 0..j : k \in P
    BY <1>1, <1>2, CountUp
  <2>. QED BY <2>1
<1>. QED BY <1>3

LEMMA ScriptIs ==
  /\ Len(Script) \in Nat /\ DOMAIN Script = 1..Len(Script)
  /\ \A k \in 1..Len(Script) : Script[k].op \in {"+", "-", "F", "S", "=", "."} /\ Script[k].pattern \in Patterns
<1>. DEFINE R == [op : {"+", "-", "F", "S", "=", "."}, pattern : Patterns]
<1>1. Script \in Seq(R)
  BY MultilogAssumption DEF Patterns
<1>2. \A a \in R : a.op \in {"+", "-", "F", "S", "=", "."} /\ a.pattern \in Patterns
  OBVIOUS
<1>. HIDE DEF R
<1>. QED BY <1>1, <1>2

Hit(text, r, k) == IF r.match = "simple" THEN match_simple(Script[k].pattern, text)
                                         ELSE match_fnmatch(Script[k].pattern, text)

LEMMA TurnDoes ==
  ASSUME NEW text, NEW r \in Outcome, NEW k \in 1..Len(Script)
  PROVE  LET op == Script[k].op
             t == Turn(text, r, k)
         IN /\ op = "F" => t.match = "fnmatch"
            /\ op = "S" => t.match = "simple"
            /\ op \notin {"F", "S"} => t.match = r.match
            /\ op = "+" => (t.selected <=> r.selected \/ Hit(text, r, k))
            /\ op = "-" => (t.selected <=> r.selected /\ ~Hit(text, r, k))
            /\ op \notin {"+", "-"} => (t.selected <=> r.selected)
            /\ op = "." => (t.log <=> r.selected)
            /\ op # "." => (t.log <=> r.log)
<1>1. Script[k].op \in {"+", "-", "F", "S", "=", "."}
  BY ScriptIs
<1>. QED BY <1>1 DEF Turn, Hit, Outcome

LEMMA ActionsIs ==
  ASSUME NEW ops
  PROVE  /\ Actions(ops) \in SUBSET Nat /\ Actions(ops) \subseteq 1..Len(Script)
         /\ \A k \in 1..Len(Script) : k \in Actions(ops) <=> Script[k].op \in ops
BY ScriptIs DEF Actions

(* What Acted() goes through for text, beginning with the match function m *)
Goes(text, m, g) ==
  /\ g \in [0..Len(Script) -> Outcome] /\ g[0] = Fresh(m)
  /\ \A k \in 1..Len(Script) : g[k] = Turn(text, g[k - 1], k)

(* The match function before the j-th action                               *)
ModeAt(m, j) ==
  LET modes == Actions({"F", "S"})
  IN IF Before(modes, j) = {} THEN m ELSE IF Script[Last(modes, j)].op = "F" THEN "fnmatch" ELSE "simple"

LEMMA ModesGo ==
  ASSUME NEW text, NEW m \in Modes, NEW g, Goes(text, m, g), NEW q \in 0..Len(Script)
  PROVE  g[q].match = ModeAt(m, q + 1)
<1>. DEFINE n == Len(Script)
            modes == Actions({"F", "S"})
            P == {k \in 0..n : g[k].match = ModeAt(m, k + 1)}
<1>1. n \in Nat /\ g[0] = Fresh(m) /\ \A k \in 1..n : g[k] = Turn(text, g[k - 1], k)
  BY ScriptIs DEF Goes
<1>2. \A k \in 0..n : g[k] \in Outcome
  BY DEF Goes
<1>3. 0 \in P
  <2>1. Before(modes, 0 + 1) = {}
    <3>1. \A k \in modes : ~(k < 0 + 1)
      BY ActionsIs
    <3>. QED BY <3>1 DEF Before
  <2>2. g[0].match = m /\ 0 \in 0..n
    BY <1>1 DEF Fresh
  <2>. QED BY <2>1, <2>2 DEF ModeAt
<1>4. ASSUME NEW k \in 1..n, k - 1 \in P PROVE k \in P
  <2>1. k \in Nat /\ k \in 0..n /\ k - 1 \in 0..n /\ (k - 1) + 1 = k
    BY <1>1
  <2>2. g[k] = Turn(text, g[k - 1], k) /\ g[k - 1] \in Outcome /\ g[k - 1].match = ModeAt(m, k)
    BY <1>1, <1>2, <1>4, <2>1
  <2>3. modes \in SUBSET Nat /\ (k \in modes <=> Script[k].op \in {"F", "S"})
    BY ActionsIs
  <2>. HIDE DEF modes, P
  <2>4. CASE k \notin modes
    <3>1. g[k].match = g[k - 1].match
      BY <2>2, <2>3, <2>4, TurnDoes
    <3>2. Before(modes, k + 1) = Before(modes, k) /\ Last(modes, k + 1) = Last(modes, k)
      BY <2>1, <2>3, <2>4, LastBefore
    <3>. QED BY <2>1, <2>2, <3>1, <3>2 DEF P, ModeAt, modes
  <2>5. CASE k \in modes
    <3>1. g[k].match = IF Script[k].op = "F" THEN "fnmatch" ELSE "simple"
      BY <2>2, <2>3, <2>5, TurnDoes
    <3>2. Before(modes, k + 1) # {} /\ Last(modes, k + 1) = k
      BY <2>1, <2>3, <2>5, LastBefore
    <3>. QED BY <2>1, <3>1, <3>2 DEF P, ModeAt, modes
  <2>. QED BY <2>4, <2>5
<1>5. \A k \in 0..n : k \in P
  <2>. HIDE DEF P, n
  <2>. QED BY <1>1, <1>3, <1>4, CountUp
<1>. QED BY <1>5

(* The selections whose patterns match text, by multilog.8                 *)
Hits(text) ==
  {k \in Actions({"+", "-"}) : IF Fnmatched(k) THEN match_fnmatch(Script[k].pattern, text)
                                               ELSE Concatenates(Script[k].pattern, text)}

(* A script that says which match function each of its patterns is for,    *)
(* without a star after a star in simple patterns, and that names the log  *)
SettledScript ==
  /\ Actions({"."}) # {}
  /\ \A k \in Actions({"+", "-"}) :
       /\ Actions({"F"}) = {} \/ \E i \in Actions({"F", "S"}) : i < k
       /\ ~Fnmatched(k) => Plain(Script[k].pattern)

Simply(m) == m \in Modes /\ (Actions({"F"}) = {} => m = "simple")

LEMMA HitsGo ==
  ASSUME SettledScript, NEW text \in Seq(Chars), NEW m, Simply(m), NEW g, Goes(text, m, g),
         NEW k \in Actions({"+", "-"})
  PROVE  Hit(text, g[k - 1], k) <=> k \in Hits(text)
<1>. DEFINE modes == Actions({"F", "S"})
<1>1. /\ k \in 1..Len(Script) /\ k - 1 \in 0..Len(Script) /\ (k - 1) + 1 = k /\ modes \in SUBSET Nat
      /\ Script[k].pattern \in Patterns /\ m \in Modes
  BY ActionsIs, ScriptIs DEF Simply
<1>2. g[k - 1].match = ModeAt(m, k)
  BY <1>1, ModesGo
<1>3. Fnmatched(k) <=> Before(modes, k) # {} /\ Script[Last(modes, k)].op = "F"
  BY DEF Fnmatched, Before, Last
<1>4. g[k - 1].match = "simple" <=> ~Fnmatched(k)
  <2>1. CASE Before(modes, k) # {}
    BY <1>2, <1>3, <2>1 DEF ModeAt
  <2>2. CASE Before(modes, k) = {}
    <3>1. ~\E i \in modes : i < k
      BY <2>2 DEF Before
    <3>2. m = "simple"
      BY <3>1 DEF SettledScript, Simply
    <3>. QED BY <1>2, <1>3, <2>2, <3>2 DEF ModeAt
  <2>. QED BY <2>1, <2>2
<1>5. ~Fnmatched(k) => (match_simple(Script[k].pattern, text) <=> Concatenates(Script[k].pattern, text))
  BY <1>1, SimpleMatches DEF SettledScript
<1>. QED BY <1>4, <1>5 DEF Hit, Hits

Picked(text, j) == Before(Hits(text), j) = {} \/ Script[Last(Hits(text), j)].op = "+"

LEMMA PicksGo ==
  ASSUME SettledScript, NEW text \in Seq(Chars), NEW m, Simply(m), NEW g, Goes(text, m, g),
         NEW q \in 0..Len(Script)
  PROVE  g[q].selected <=> Picked(text, q + 1)
<1>. DEFINE n == Len(Script)
            H == Hits(text)
            P == {k \in 0..n : g[k].selected <=> Picked(text, k + 1)}
<1>1. n \in Nat /\ g[0] = Fresh(m) /\ \A k \in 1..n : g[k] = Turn(text, g[k - 1], k)
  BY ScriptIs DEF Goes
<1>2. \A k \in 0..n : g[k] \in Outcome
  BY DEF Goes
<1>3. H \in SUBSET Nat /\ H \subseteq 1..n
  BY ActionsIs DEF Hits
<1>4. 0 \in P
  <2>1. Before(H, 0 + 1) = {}
    <3>1. \A k \in H : ~(k < 0 + 1)
      BY <1>3
    <3>. QED BY <3>1 DEF Before
  <2>2. g[0].selected = TRUE /\ 0 \in 0..n
    BY <1>1 DEF Fresh
  <2>. QED BY <2>1, <2>2 DEF Picked
<1>5. ASSUME NEW k \in 1..n, k - 1 \in P PROVE k \in P
  <2>1. k \in Nat /\ k \in 0..n /\ k - 1 \in 0..n /\ (k - 1) + 1 = k
    BY <1>1
  <2>2. /\ g[k] = Turn(text, g[k - 1], k) /\ g[k - 1] \in Outcome
        /\ g[k - 1].selected <=> Picked(text, k)
    BY <1>1, <1>2, <1>5, <2>1
  <2>3. /\ Script[k].op \in {"+", "-"} => (Hit(text, g[k - 1], k) <=> k \in H)
        /\ k \in H => Script[k].op \in {"+", "-"}
    <3>1. k \in Actions({"+", "-"}) <=> Script[k].op \in {"+", "-"}
      BY ActionsIs
    <3>. QED BY <3>1, HitsGo DEF Hits
  <2>. HIDE DEF H, P
  <2>4. CASE k \notin H
    <3>1. g[k].selected <=> g[k - 1].selected
      BY <2>2, <2>3, <2>4, TurnDoes
    <3>2. Before(H, k + 1) = Before(H, k) /\ Last(H, k + 1) = Last(H, k)
      BY <1>3, <2>1, <2>4, LastBefore
    <3>. QED BY <2>1, <2>2, <3>1, <3>2 DEF P, Picked, H
  <2>5. CASE k \in H
    <3>1. g[k].selected <=> Script[k].op = "+"
      BY <2>2, <2>3, <2>5, TurnDoes
    <3>2. Before(H, k + 1) # {} /\ Last(H, k + 1) = k
      BY <1>3, <2>1, <2>5, LastBefore
    <3>. QED BY <2>1, <3>1, <3>2 DEF P, Picked, H
  <2>. QED BY <2>4, <2>5
<1>6. \A k \in 0..n : k \in P
  <2>. HIDE DEF P, n
  <2>. QED BY <1>1, <1>4, <1>5, CountUp
<1>. QED BY <1>6

LEMMA DotsGo ==
  ASSUME SettledScript, NEW text \in Seq(Chars), NEW m, Simply(m), NEW g, Goes(text, m, g),
         NEW q \in 0..Len(Script), Before(Actions({"."}), q + 1) # {}
  PROVE  g[q].log <=> Picked(text, Last(Actions({"."}), q + 1))
<1>. DEFINE n == Len(Script)
            dots == Actions({"."})
            P == {k \in 0..n : Before(dots, k + 1) # {} => (g[k].log <=> Picked(text, Last(dots, k + 1)))}
<1>1. n \in Nat /\ \A k \in 1..n : g[k] = Turn(text, g[k - 1], k)
  BY ScriptIs DEF Goes
<1>2. \A k \in 0..n : g[k] \in Outcome
  BY DEF Goes
<1>3. dots \in SUBSET Nat /\ dots \subseteq 1..n /\ \A k \in 1..n : k \in dots <=> Script[k].op = "."
  BY ActionsIs
<1>. HIDE DEF dots
<1>4. 0 \in P
  <2>1. Before(dots, 0 + 1) = {}
    <3>1. \A k \in dots : ~(k < 0 + 1)
      BY <1>3
    <3>. QED BY <3>1 DEF Before
  <2>2. 0 \in 0..n
    BY <1>1
  <2>. QED BY <2>1, <2>2
<1>5. ASSUME NEW k \in 1..n, k - 1 \in P PROVE k \in P
  <2>1. k \in Nat /\ k \in 0..n /\ k - 1 \in 0..n /\ (k - 1) + 1 = k
    BY <1>1
  <2>2. /\ g[k] = Turn(text, g[k - 1], k) /\ g[k - 1] \in Outcome
        /\ Before(dots, k) # {} => (g[k - 1].log <=> Picked(text, Last(dots, k)))
    BY <1>1, <1>2, <1>5, <2>1
  <2>. HIDE DEF P
  <2>3. CASE k \notin dots
    <3>1. g[k].log <=> g[k - 1].log
      BY <1>3, <2>2, <2>3, TurnDoes
    <3>2. Before(dots, k + 1) = Before(dots, k) /\ Last(dots, k + 1) = Last(dots, k)
      BY <1>3, <2>1, <2>3, LastBefore
    <3>. QED BY <2>1, <2>2, <3>1, <3>2 DEF P
  <2>4. CASE k \in dots
    <3>1. g[k].log <=> g[k - 1].selected
      BY <1>3, <2>2, <2>4, TurnDoes
    <3>2. g[k - 1].selected <=> Picked(text, k)
      BY <2>1, PicksGo
    <3>3. Before(dots, k + 1) # {} /\ Last(dots, k + 1) = k
      BY <1>3, <2>1, <2>4, LastBefore
    <3>. QED BY <2>1, <3>1, <3>2, <3>3 DEF P
  <2>. QED BY <2>3, <2>4
<1>6. \A k \in 0..n : k \in P
  <2>. HIDE DEF P, n
  <2>. QED BY <1>1, <1>4, <1>5, CountUp
<1>. QED BY <1>6 DEF dots

(* The script logs what the manual's rules select.                         *)
LEMMA ActedPicks ==
  ASSUME SettledScript, NEW text \in Seq(Chars), Simply(match)
  PROVE  /\ Acted(text).log <=> SelectedAt(LastOf(Actions({"."})), text)
         /\ Simply(Acted(text).match)
<1>. DEFINE n == Len(Script)
            dots == Actions({"."})
<1>1. n \in Nat /\ n \in 0..n
  BY ScriptIs
<1>2. PICK g : Goes(text, match, g) /\ Acted(text) = g[n]
  BY ActedTurns DEF Goes, Simply
<1>3. PICK m : m = match
  OBVIOUS
<1>4. Before(dots, n + 1) = dots /\ dots # {}
  <2>1. \A k \in dots : k < n + 1
    BY <1>1, ActionsIs
  <2>. QED BY <2>1 DEF Before, SettledScript
<1>5. Simply(m) /\ Goes(text, m, g)
  BY <1>2, <1>3
<1>6. g[n].log <=> Picked(text, LastOf(dots))
  <2>1. g[n].log <=> Picked(text, Last(dots, n + 1))
    BY <1>1, <1>4, <1>5, DotsGo
  <2>. QED BY <1>4, <2>1 DEF Last
<1>7. Picked(text, LastOf(dots)) <=> SelectedAt(LastOf(dots), text)
  <2>. DEFINE j == LastOf(dots)
              hits == {k \in Actions({"+", "-"}) :
                         /\ k < j
                         /\ IF Fnmatched(k) THEN match_fnmatch(Script[k].pattern, text)
                                            ELSE Concatenates(Script[k].pattern, text)}
  <2>1. Before(Hits(text), j) = hits
    BY DEF Before, Hits
  <2>2. SelectedAt(j, text) <=> hits = {} \/ Script[LastOf(hits)].op = "+"
    BY DEF SelectedAt
  <2>. HIDE DEF hits, j
  <2>. QED BY <2>1, <2>2 DEF Picked, Last, j
<1>8. Simply(g[n].match)
  <2>1. m \in Modes /\ g[n].match = ModeAt(m, n + 1)
    BY <1>1, <1>5, ModesGo DEF Simply
  <2>2. ModeAt(m, n + 1) \in Modes
    BY <2>1 DEF ModeAt, Modes
  <2>3. ASSUME Actions({"F"}) = {} PROVE ModeAt(m, n + 1) = "simple"
    <3>1. m = "simple"
      BY <1>5, <2>3 DEF Simply
    <3>2. Before(Actions({"F", "S"}), n + 1) # {} => Script[Last(Actions({"F", "S"}), n + 1)].op # "F"
      <4>1. \A k \in Actions({"F", "S"}) : Script[k].op # "F"
        BY <2>3 DEF Actions
      <4>2. n + 1 \in Nat /\ Actions({"F", "S"}) \in SUBSET Nat
        BY <1>1, ActionsIs
      <4>. QED BY <4>1, <4>2, LastIs
    <3>. QED BY <3>1, <3>2 DEF ModeAt
  <2>. QED BY <2>1, <2>2, <2>3 DEF Simply
<1>. QED BY <1>2, <1>6, <1>7, <1>8

-----------------------------------------------------------------------------
(* If the script is settled, it logs the lines that the rules select.     *)
LEMMA ScriptChooses ==
  ASSUME SettledScript, LinesInv, Simply(match)
  PROVE  Chooses
<1>. SUFFICES ASSUME pc = "act" PROVE Acted(Text).log <=> Selected(Text)
  BY DEF Chooses
<1>1. TypeOK /\ Lines
  BY DEF LinesInv, ExitInv, Typed
<1>2. Text \in Seq(Chars) /\ Len(Text) = linelen /\ linelen \in 0..MAXLINE /\ MAXLINE \in Nat
  BY <1>1, TextIs, MultilogAssumption DEF TypeOK
<1>3. Text \in Seq(Chars \ {nl})
  <2>1. PICK h \in Seq(Chars) : Split(h).rest = Text
    BY <1>1 DEF Lines, InFirst, FirstOver, Fresher
  <2>. QED BY <2>1, SplitType
<1>4. PICK t \in Seq(Chars \ {nl}) : t = Text /\ t \in Seq(Chars) /\ Len(t) \in 0..MAXLINE
  BY <1>2, <1>3
<1>5. t \in Heads
  <2>1. t \in [1..Len(t) -> Chars \ {nl}]
    BY <1>4
  <2>. QED BY <1>4, <2>1 DEF Heads
<1>6. Leading(t, MAXLINE) = t
  <2>1. Least(MAXLINE, Len(t)) = Len(t)
    BY <1>2, <1>4 DEF Least
  <2>. QED BY <1>4, <2>1, SubSeqFull DEF Leading
<1>7. Selected(t) <=> SelectedAt(LastOf(Actions({"."})), t)
  BY <1>5, <1>6 DEF Selected, LogHeads
<1>8. Acted(t).log <=> SelectedAt(LastOf(Actions({"."})), t)
  BY <1>4, ActedPicks
<1>. QED BY <1>4, <1>7, <1>8

LEMMA SimplyStep ==
  ASSUME SettledScript, TypeOK, Simply(match), [Next]_vars
  PROVE  Simply(match)'
<1>1. CASE Act
  <2>1. match' = Acted(Text).match
    BY <1>1 DEF Act
  <2>2. Text \in Seq(Chars)
    BY TextIs
  <2>3. Simply(Acted(Text).match)
    BY <2>2, ActedPicks
  <2>. QED BY <2>1, <2>3 DEF Simply
<1>2. CASE match' = match
  BY <1>2 DEF Simply
<1>3. ~Act => match' = match
  BY DEF Next, Flushread, Doit, FlushLogs, ExitAsap, Unblock, Block, Read, EndOfFile, ReadError, Top, Gets, Got,
     End, Quit, Signal, WriteInput, CloseInput, vars, picks
<1>. QED BY <1>1, <1>2, <1>3

SettledInv == LinesInv /\ Simply(match)

(* Whatever comes on stdin in whatever pieces, whatever the sizes of the   *)
(* line and the buffers, signals and errors: if the script says which kind *)
(* of pattern each of its patterns is, the log holds the lines that the    *)
(* manual's rules select and no others, as they were and in order, when    *)
(* multilog waits for input and when it has exited.                        *)
THEOREM LogsAllLines ==
  ASSUME SettledScript
  PROVE  Spec => []LogsLines
<1>1. Init => SettledInv
  BY LinesInit DEF Init, SettledInv, Simply, Modes
<1>2. SettledInv /\ [Next]_vars => SettledInv'
  BY ScriptChooses, LinesStep, SimplyStep DEF SettledInv, LinesInv, ExitInv, Typed
<1>3. SettledInv => LogsLines
  BY ReadingLogged, ExitedLogged DEF LogsLines, SettledInv
<1>. QED BY <1>1, <1>2, <1>3, PTL DEF Spec

===============================================================================
