------------------------------- MODULE Multilog -------------------------------
(***************************************************************************)
(* multilog's line loop (doit, flushread, c_quit in multilog.c, with       *)
(* buffer_gets, buffer_feed and buffer_put) for a script of selections, a  *)
(* status file and a log: reading stdin, splitting it into lines, cutting  *)
(* long lines into pieces, TERM and ALRM.                                  *)
(*                                                                         *)
(* What the log does with the bytes it is handed is module Cyclog's; here  *)
(* it is the sequence of them.  Time stamps and the action e are left out. *)
(***************************************************************************)
EXTENDS Naturals, Sequences

CONSTANTS
  Chars, nl,      \* characters, among them the newline
  MAXLINE,
  ReadSize,       \* sizeof inbuf
  LogSize,        \* sizeof c[j].buf
  Script,         \* the actions + - F S = . with their patterns; one log
  Signals,        \* signals that may come
  MaxInput,       \* bound: characters written to stdin
  MayFailRead     \* may read() fail with an error other than EINTR?

VARIABLES
  pipe, open,     \* what is in stdin, and whether it has writers
  seen,           \* what multilog has read from it
  pending,        \* blocked signals that wait
  sent,           \* sent[s] = Len(seen) when s was sent
  flagexitasap, flagforcerotate, flagnewline, flageof,
  inbuf,          \* ssin
  pc, ret,        \* where multilog is; where buffer_feed() was called
  line, linelen, oldlinelen,
  flagselected,   \* c[0].flagselected
  match,          \* the match function in force: match_simple or match_fnmatch
  logbuf, log,    \* c[j].ss, and what c_write has been handed
  bytes,          \* c[j].bytes
  status          \* the file of the action =

input == <<pipe, open, seen>>
signals == <<pending, sent, flagexitasap, flagforcerotate>>
lines == <<line, linelen, oldlinelen>>
picks == <<flagselected, match>>
logs == <<logbuf, log, bytes>>
vars == <<input, signals, flagnewline, flageof, inbuf, pc, ret, lines, picks, logs, status>>

ASSUME MultilogAssumption ==
  /\ nl \in Chars /\ MAXLINE \in Nat \ {0} /\ ReadSize \in Nat \ {0} /\ LogSize \in Nat
  /\ Script \in Seq([op : {"+", "-", "F", "S", "=", "."}, pattern : Seq(Chars \cup {"*", "?"})])
  /\ Signals \subseteq {"TERM", "ALRM"}
  /\ MaxInput \in Nat /\ MayFailRead \in BOOLEAN

Least(m, n) == IF m < n THEN m ELSE n
Leading(s, n) == SubSeq(s, 1, Least(n, Len(s)))
Rest(s, n) == SubSeq(s, n + 1, Len(s))
(* the characters before the first newline                                 *)
UpToNl(s) == IF \E k \in DOMAIN s : s[k] = nl
             THEN (CHOOSE k \in DOMAIN s : s[k] = nl /\ \A j \in 1..k - 1 : s[j] # nl) - 1
             ELSE Len(s)

-----------------------------------------------------------------------------
(***************************************************************************)
(* The log's buffer                                                        *)
(***************************************************************************)
(* buffer_put(&c[j].ss,s,Len(s)), which flushes a full buffer              *)
BufferPut(s) ==
  IF Len(logbuf) + Len(s) <= LogSize
  THEN logbuf' = logbuf \o s /\ UNCHANGED <<log, bytes>>
  ELSE LET direct == IF Len(s) > LogSize THEN s ELSE <<>>
           out == logbuf \o direct
       IN /\ log' = log \o out /\ bytes' = bytes + Len(out)
          /\ logbuf' = IF direct = <<>> THEN s ELSE <<>>

BufferFlush == log' = log \o logbuf /\ logbuf' = <<>>

-----------------------------------------------------------------------------
(***************************************************************************)
(* flushread, called by buffer_feed(&ssin) with an empty inbuf, returns to *)
(* ret ("top", "gets" or "more") or ends the input                         *)
(***************************************************************************)
FlushLogs ==
  /\ pc = "flush" /\ pc' = "flushed"
  /\ BufferFlush
  (* fullcurrent *)
  /\ bytes' = IF flagforcerotate THEN 0 ELSE bytes + Len(logbuf)
  /\ flagforcerotate' = FALSE
  /\ UNCHANGED <<input, pending, sent, flagexitasap, flagnewline, flageof, inbuf, ret, lines, picks, status>>

(* what buffer_feed's caller does when it gets 0 or, on an error, -1       *)
NoMore(error) ==
  /\ pc' = CASE ret = "top" -> "quit" [] ret = "gets" -> "act" [] ret = "more" -> "got"
  /\ flageof' = (error /\ ret # "top")

(* Mutant: flagnewline is not looked at.                                   *)
ExitAsap_midline ==
  /\ pc = "flushed" /\ flagexitasap
  /\ NoMore(FALSE)
  /\ UNCHANGED <<input, signals, flagnewline, inbuf, ret, lines, picks, logs, status>>

ExitAsap ==
  /\ pc = "flushed" /\ flagexitasap /\ flagnewline
  /\ NoMore(FALSE)
  /\ UNCHANGED <<input, signals, flagnewline, inbuf, ret, lines, picks, logs, status>>

(* sig_unblock: the handlers of pending signals run                        *)
Unblock ==
  /\ pc = "flushed" /\ ~(flagexitasap /\ flagnewline)
  /\ pc' = IF flagexitasap THEN "read1" ELSE "read"
  /\ flagexitasap' = (flagexitasap \/ "TERM" \in pending)
  /\ flagforcerotate' = (flagforcerotate \/ "ALRM" \in pending)
  /\ pending' = {}
  /\ UNCHANGED <<input, sent, flagnewline, flageof, inbuf, ret, lines, picks, logs, status>>

(* read() blocks; before it does, a signal does not interrupt it           *)
Reading == {"read", "read1", "blocked", "blocked1"}
Block ==
  /\ pc \in {"read", "read1"} /\ pipe = <<>> /\ open
  /\ pc' = IF pc = "read" THEN "blocked" ELSE "blocked1"
  /\ UNCHANGED <<input, signals, flagnewline, flageof, inbuf, ret, lines, picks, logs, status>>

Read ==
  /\ pc \in Reading /\ pipe # <<>>
  /\ \E n \in 1..Least(IF pc \in {"read", "blocked"} THEN ReadSize ELSE 1, Len(pipe)) :
       /\ inbuf' = Leading(pipe, n) /\ pipe' = Rest(pipe, n)
       /\ seen' = seen \o inbuf'
       /\ flagnewline' = (inbuf'[n] = nl)
  /\ pc' = ret
  /\ UNCHANGED <<open, signals, flageof, ret, lines, picks, logs, status>>

EndOfFile ==
  /\ pc \in Reading /\ pipe = <<>> /\ ~open
  /\ NoMore(FALSE)
  /\ UNCHANGED <<input, signals, flagnewline, inbuf, ret, lines, picks, logs, status>>

ReadError ==
  /\ pc \in Reading /\ MayFailRead
  /\ NoMore(TRUE)
  /\ UNCHANGED <<input, signals, flagnewline, inbuf, ret, lines, picks, logs, status>>

-----------------------------------------------------------------------------
(***************************************************************************)
(* doit                                                                    *)
(***************************************************************************)
Feed(here) == inbuf = <<>> /\ pc' = "flush" /\ ret' = here

Top ==
  /\ pc = "top"
  /\ linelen' = 0
  /\ IF inbuf = <<>> THEN Feed("top") ELSE pc' = "gets" /\ UNCHANGED ret
  /\ UNCHANGED <<input, signals, flagnewline, flageof, inbuf, line, oldlinelen, picks, logs, status>>

(* one turn of buffer_gets(&ssin,line,MAXLINE,'\n',&linelen)               *)
Gets(here, next) ==
  /\ pc = here
  /\ LET n == UpToNl(inbuf)
         i == Least(n, MAXLINE - linelen)
     IN \/ /\ linelen < MAXLINE /\ Feed(here)
           /\ UNCHANGED <<inbuf, line, linelen>>
        \/ /\ linelen < MAXLINE /\ inbuf # <<>>
           /\ IF n = 0 THEN inbuf' = Rest(inbuf, 1) /\ pc' = next
                       ELSE inbuf' = Rest(inbuf, i) /\ pc' = here
           /\ line' = [k \in DOMAIN line |-> IF k \in linelen + 1 .. linelen + i
                                             THEN inbuf[k - linelen] ELSE line[k]]
           /\ linelen' = linelen + i
           /\ UNCHANGED ret
        \/ /\ linelen = MAXLINE /\ pc' = next
           /\ UNCHANGED <<inbuf, line, linelen, ret>>
  /\ UNCHANGED <<input, signals, flagnewline, flageof, oldlinelen, picks, logs, status>>

(* for (i = linelen;i < oldlinelen;++i) line[i] = '\n'                     *)
Padded == [k \in DOMAIN line |-> IF k \in linelen + 1 .. oldlinelen THEN nl ELSE line[k]]
Text == SubSeq(line, 1, linelen)

(* match_simple(pattern,buf,Len(buf)), which looks for the character after *)
(* a star and does not go back: m[i] is the places in buf from where on    *)
(* the rest of buf matches what the pattern has from its i-th place on     *)
match_simple(pattern, buf) ==
  LET m[i \in 1..Len(pattern) + 1] ==
        IF i > Len(pattern) THEN {Len(buf) + 1}
        ELSE LET next == m[i + 1]
             IN IF pattern[i] # "*" THEN {j \in 1..Len(buf) : buf[j] = pattern[i] /\ j + 1 \in next}
                ELSE IF i = Len(pattern) THEN 1..Len(buf) + 1
                ELSE {j \in 1..Len(buf) :
                        \E k \in j..Len(buf) : /\ buf[k] = pattern[i + 1]
                                               /\ \A l \in j..k - 1 : buf[l] # pattern[i + 1]
                                               /\ k \in next}
  IN 1 \in m[1]

(* fnmatch() for patterns of characters, stars and question marks          *)
match_fnmatch(pattern, buf) ==
  LET m[i \in 1..Len(pattern) + 1] ==
        IF i > Len(pattern) THEN {Len(buf) + 1}
        ELSE LET next == m[i + 1]
             IN IF pattern[i] = "*" THEN {j \in 1..Len(buf) + 1 : \E k \in next : j <= k}
                ELSE {j \in 1..Len(buf) : pattern[i] \in {buf[j], "?"} /\ j + 1 \in next}
  IN 1 \in m[1]

(* What the script does with this line: the flags and the match function   *)
(* after its first k actions, and whether = has written the status.  The   *)
(* match function is a global that stays from line to line.                *)
Acted(text) ==
  LET matches(fn, pattern) == IF fn = "simple" THEN match_simple(pattern, text)
                                               ELSE match_fnmatch(pattern, text)
      f[k \in 0..Len(Script)] ==
        IF k = 0 THEN [selected |-> TRUE, match |-> match, written |-> FALSE, log |-> FALSE]
        ELSE LET r == f[k - 1]
                 a == Script[k]
             IN CASE a.op = "F" -> [r EXCEPT !.match = "fnmatch"]
                  [] a.op = "S" -> [r EXCEPT !.match = "simple"]
                  [] a.op = "+" -> [r EXCEPT !.selected = @ \/ matches(r.match, a.pattern)]
                  [] a.op = "-" -> [r EXCEPT !.selected = @ /\ ~matches(r.match, a.pattern)]
                  [] a.op = "=" -> [r EXCEPT !.written = @ \/ r.selected]
                  [] a.op = "." -> [r EXCEPT !.log = r.selected]
  IN f[Len(Script)]

Act ==
  /\ pc = "act"
  /\ line' = Padded
  /\ LET r == Acted(Text)
     IN /\ flagselected' = r.log /\ match' = r.match
        /\ status' = IF r.written THEN line' ELSE status
        /\ IF r.log THEN BufferPut(Text) ELSE UNCHANGED logs
  /\ IF linelen = MAXLINE THEN pc' = "more" /\ linelen' = 0
                          ELSE pc' = "end" /\ UNCHANGED linelen
  /\ UNCHANGED <<input, signals, flagnewline, flageof, inbuf, ret, oldlinelen>>

(* Mutant: pieces of deselected lines are logged.                          *)
Got_all ==
  /\ pc = "got"
  /\ LET piece == ~flageof /\ linelen > 0
     IN /\ IF piece THEN BufferPut(Text) ELSE UNCHANGED logs
        /\ IF piece /\ linelen = MAXLINE THEN pc' = "more" /\ linelen' = 0
                                         ELSE pc' = "end" /\ UNCHANGED linelen
  /\ UNCHANGED <<input, signals, flagnewline, flageof, inbuf, ret, line, oldlinelen, picks, status>>

(* while (linelen == MAXLINE), after its buffer_gets                       *)
Got ==
  /\ pc = "got"
  /\ LET piece == ~flageof /\ linelen > 0
     IN /\ IF piece /\ flagselected THEN BufferPut(Text) ELSE UNCHANGED logs
        /\ IF piece /\ linelen = MAXLINE THEN pc' = "more" /\ linelen' = 0
                                         ELSE pc' = "end" /\ UNCHANGED linelen
  /\ UNCHANGED <<input, signals, flagnewline, flageof, inbuf, ret, line, oldlinelen, picks, status>>

End ==
  /\ pc = "end"
  /\ IF flagselected THEN BufferPut(<<nl>>) ELSE UNCHANGED logs
  /\ IF flageof THEN pc' = "quit" /\ UNCHANGED oldlinelen
                ELSE pc' = "top" /\ oldlinelen' = linelen
  /\ UNCHANGED <<input, signals, flagnewline, flageof, inbuf, ret, line, linelen, picks, status>>

(* c_quit                                                                  *)
Quit ==
  /\ pc = "quit" /\ pc' = "exited"
  /\ BufferFlush /\ bytes' = bytes + Len(logbuf)
  /\ UNCHANGED <<input, signals, flagnewline, flageof, inbuf, ret, lines, picks, status>>

-----------------------------------------------------------------------------
(***************************************************************************)
(* Signals and the writers of stdin                                        *)
(***************************************************************************)
(* exitasap and forcerotate run at once when the signals are not blocked,  *)
(* and read() returns with EINTR if it was waiting: oneread() calls        *)
(* flushread again                                                         *)
Signal(s) ==
  /\ pc # "exited" /\ sent[s] = MaxInput + 1
  /\ sent' = [sent EXCEPT ![s] = Len(seen)]
  /\ IF pc \in Reading
     THEN /\ flagexitasap' = (flagexitasap \/ s = "TERM")
          /\ flagforcerotate' = (flagforcerotate \/ s = "ALRM")
          /\ pc' = IF pc \in {"blocked", "blocked1"} THEN "flush" ELSE pc
          /\ UNCHANGED pending
     ELSE /\ pending' = pending \cup {s}
          /\ UNCHANGED <<flagexitasap, flagforcerotate, pc>>
  /\ UNCHANGED <<input, flagnewline, flageof, inbuf, ret, lines, picks, logs, status>>

WriteInput ==
  /\ open /\ Len(seen) + Len(pipe) < MaxInput
  /\ \E c \in Chars : pipe' = Append(pipe, c)
  /\ UNCHANGED <<open, seen, signals, flagnewline, flageof, inbuf, pc, ret, lines, picks, logs, status>>

CloseInput ==
  /\ open /\ open' = FALSE
  /\ UNCHANGED <<pipe, seen, signals, flagnewline, flageof, inbuf, pc, ret, lines, picks, logs, status>>

-----------------------------------------------------------------------------
Padding == [k \in 1..MAXLINE + 1 |-> nl]

Init ==
  /\ pipe = <<>> /\ open = TRUE /\ seen = <<>>
  /\ pending = {} /\ sent = [s \in Signals |-> MaxInput + 1]
  /\ flagexitasap = FALSE /\ flagforcerotate = FALSE /\ flagnewline = TRUE /\ flageof = FALSE
  /\ inbuf = <<>> /\ pc = "top" /\ ret = "top"
  /\ line = Padding /\ linelen = 0 /\ oldlinelen = MAXLINE + 1
  /\ flagselected = TRUE /\ match = "simple"
  /\ logbuf = <<>> /\ log = <<>> /\ bytes = 0 /\ status = <<>>

Flushread == FlushLogs \/ ExitAsap \/ Unblock \/ Block \/ Read \/ EndOfFile \/ ReadError
Doit == Top \/ Gets("gets", "act") \/ Act \/ Gets("more", "got") \/ Got \/ End \/ Quit
Next == Flushread \/ Doit \/ (\E s \in Signals : Signal(s)) \/ WriteInput \/ CloseInput
Spec == Init /\ [][Next]_vars

-----------------------------------------------------------------------------
(***************************************************************************)
(* Properties                                                              *)
(***************************************************************************)
Places == {"top", "gets", "act", "more", "got", "end", "quit", "exited", "flush", "flushed"} \cup Reading

(* Every variable has its type, and doit's "0 <= linelen <= MAXLINE".      *)
TypeOK ==
  /\ {pipe, seen, inbuf, logbuf, log, status} \subseteq Seq(Chars) /\ open \in BOOLEAN
  /\ pending \subseteq Signals /\ sent \in [Signals -> 0..MaxInput + 1]
  /\ {flagexitasap, flagforcerotate, flagnewline, flageof, flagselected} \subseteq BOOLEAN
  /\ pc \in Places /\ ret \in {"top", "gets", "more"}
  /\ match \in {"simple", "fnmatch"}
  /\ line \in [1..MAXLINE + 1 -> Chars] /\ linelen \in 0..MAXLINE /\ oldlinelen \in 0..MAXLINE + 1
  /\ Len(logbuf) <= LogSize /\ bytes \in Nat

(* multilog.8, SIMPLE PATTERNS: a pattern "matches any concatenation of    *)
(* strings matched by all the stars and non-stars in the same order"; the  *)
(* i-th of them gets the characters from cut[i] to before cut[i + 1].      *)
Concatenates(pattern, s) ==
  \E cut \in [1..Len(pattern) + 1 -> 1..Len(s) + 1] :
    /\ cut[1] = 1 /\ cut[Len(pattern) + 1] = Len(s) + 1
    /\ \A i \in 1..Len(pattern) :
         LET part == cut[i]..cut[i + 1] - 1
         IN /\ cut[i] <= cut[i + 1]
            /\ IF pattern[i] = "*"
               THEN i = Len(pattern) \/ \A k \in part : s[k] # pattern[i + 1]
               ELSE cut[i + 1] = cut[i] + 1 /\ s[cut[i]] = pattern[i]

(* SELECTING LINES: F and S hold "for all subsequent patterns"; the last   *)
(* selection whose pattern matches the head of the line decides.           *)
LastOf(ks) == CHOOSE k \in ks : \A l \in ks : l <= k
Actions(ops) == {k \in DOMAIN Script : Script[k].op \in ops}
Fnmatched(k) ==
  LET modes == {i \in Actions({"F", "S"}) : i < k}
  IN modes # {} /\ Script[LastOf(modes)].op = "F"
SelectedAt(j, head) ==
  LET hits == {k \in Actions({"+", "-"}) :
                 /\ k < j
                 /\ IF Fnmatched(k) THEN match_fnmatch(Script[k].pattern, head)
                                    ELSE Concatenates(Script[k].pattern, head)}
  IN hits = {} \/ Script[LastOf(hits)].op = "+"

Heads == UNION {[1..n -> Chars \ {nl}] : n \in 0..MAXLINE}
LogHeads == {h \in Heads : SelectedAt(LastOf(Actions({"."})), h)}
StatusHeads == {h \in Heads : \E j \in Actions({"="}) : SelectedAt(j, h)}

(* What s should become in the log, by the definition of a line: the text  *)
(* of its complete lines, the rest, and the last line for the status.      *)
Selected(l) == Leading(l, MAXLINE) \in LogHeads
Split(s) ==
  LET f[k \in 0..Len(s)] ==
        IF k = 0 THEN [done |-> <<>>, rest |-> <<>>, last |-> <<>>, any |-> FALSE]
        ELSE LET r == f[k - 1]
                 shown == Leading(r.rest, MAXLINE) \in StatusHeads
             IN IF s[k] # nl THEN [r EXCEPT !.rest = Append(@, s[k])]
                ELSE [done |-> r.done \o (IF Selected(r.rest) THEN Append(r.rest, nl) ELSE <<>>),
                      rest |-> <<>>,
                      last |-> IF shown THEN r.rest ELSE r.last, any |-> r.any \/ shown]
  IN f[Len(s)]
Closed(s) == IF Split(s).rest = <<>> THEN Split(s) ELSE Split(Append(s, nl))

(* While multilog waits for input all lines it has read, and the full      *)
(* pieces of a long one, have gone to the log, as they were and if the     *)
(* rules of multilog.8 above select them; when it exits all it has read    *)
(* has, with a final newline.  Only a failing read() loses the piece that  *)
(* was being read.                                                         *)
LogsLines ==
  /\ pc \in Reading /\ open =>
       LET r == Split(seen)
           n == Len(r.rest) - (Len(r.rest) % MAXLINE)
       IN log = r.done \o (IF Selected(r.rest) THEN Leading(r.rest, n) ELSE <<>>)
  /\ pc = "exited" =>
       \E j \in 0..(IF flageof THEN MAXLINE - 1 ELSE 0) : log = Closed(Leading(seen, Len(seen) - j)).done

(* After TERM multilog reads once more at most, and then no further than   *)
(* to the next newline.                                                    *)
TermBounded ==
  "TERM" \in Signals =>
    \A k \in sent["TERM"] + ReadSize + 1 .. Len(seen) - 1 : seen[k] # nl

(* multilog exits with nothing it has read unprocessed and, unless stdin   *)
(* ended or failed, at the end of a line; after TERM, of the next line.    *)
ExitsAtLine ==
  /\ pc = "exited" => inbuf = <<>> /\ logbuf = <<>> /\ (open /\ ~flageof => flagnewline)
  /\ TermBounded

(* multilog.8: after TERM multilog "will read and process data until the   *)
(* next newline, and then exit"; on ALRM it "immediately decides that      *)
(* current is big enough".  So it never waits for input with one of these  *)
(* to do.                                                                  *)
SignalHeard == pc = "blocked" => ~(flagexitasap /\ flagnewline) /\ ~(flagforcerotate /\ bytes > 0)

(* multilog.8: =file "replaces the contents of file with (the first 1000   *)
(* bytes of) each selected line, padded with newlines to 1001 bytes".      *)
StatusLast ==
  pc = "exited" /\ Closed(seen).any =>
    LET l == Leading(Closed(seen).last, MAXLINE)
    IN status = [k \in 1..MAXLINE + 1 |-> IF k <= Len(l) THEN l[k] ELSE nl]

=============================================================================
