-------------------------------- MODULE Tools --------------------------------
(***************************************************************************)
(* The library functions that the chain-loading tools (envdir, softlimit,  *)
(* setlock ...) share, and what each computes from its arguments: options, *)
(* numbers, environments, the search for a program, resource limits.       *)
(*                                                                         *)
(* A string is a sequence of characters; a run of characters that no       *)
(* function here looks into ("alice", "/bin") is written as one.           *)
(***************************************************************************)
EXTENDS Integers, Sequences, SequencesExt

CONSTANTS
  Unset,   \* the null pointer of env_get() and pathexec_env()
  ULONG,   \* how many values unsigned long and rlim_t have
  Bin      \* the programs: what execve() says of a path, an image or an errno

RLIM_INFINITY == ULONG - 1

----------------------------------------------------------------------------
(* Strings                                                                 *)

(* How many characters of s come before the first one that is in C.        *)
Span(s, C) == Min({i \in DOMAIN s : s[i] \in C} \cup {Len(s) + 1}) - 1

byte_chr(s, c) == Span(s, {c})

(* The parts of s between the c's.                                         *)
Split(s, c) ==
  LET Ends(i)   == i > Len(s) \/ s[i] = c
      Cut(k)    == IF k = 0 THEN 0
                   ELSE CHOOSE i \in 1 .. Len(s) + 1 :
                          Ends(i) /\ Cardinality({j \in 1 .. i : Ends(j)}) = k
  IN  [k \in 1 .. Cardinality({i \in 1 .. Len(s) + 1 : Ends(i)}) |->
         SubSeq(s, Cut(k - 1) + 1, Cut(k) - 1)]

TrimRight(s, C) == SubSeq(s, 1, Max({i \in DOMAIN s : s[i] \notin C} \cup {0}))
TrimLeft(s, C)  == SubSeq(s, Min({i \in DOMAIN s : s[i] \notin C} \cup {Len(s) + 1}), Len(s))

Digits == <<"0", "1", "2", "3", "4", "5", "6", "7", "8", "9">>

(* scan_ulong() reads digits as far as they go, and wraps.                 *)
scan_ulong(s) ==
  LET n == Span(s, {s[i] : i \in DOMAIN s} \ ToSet(Digits))
  IN  [pos |-> n,
       u |-> FoldLeft(LAMBDA r, ch : (10 * r + SelectInSeq(Digits, LAMBDA d : d = ch) - 1) % ULONG,
                      0, SubSeq(s, 1, n))]

fmt_ulong(n) ==
  LET fmt[u \in 0 .. n] == IF u < 10 THEN <<Digits[u + 1]>>
                           ELSE Append(fmt[u \div 10], Digits[(u % 10) + 1])
  IN  fmt[n]

----------------------------------------------------------------------------
(* Options: one call of subgetopt().  optind is the word's place in argv   *)
(* (the command's is 1), optpos how many of its characters are used up.    *)

subgetopt(argv, at, flags, withArg) ==
  LET used == at.optpos > 0 /\ Len(argv[at.optind]) = at.optpos
      ind  == at.optind + IF used THEN 1 ELSE 0
      pos  == IF used THEN 0 ELSE at.optpos
      word == argv[ind]
      Returns(c, arg, i, p) == [c |-> c, optarg |-> arg, optind |-> i, optpos |-> p]
      Done(i) == Returns("done", Unset, i, 0)
      c    == word[Max({pos, 1}) + 1]
      next == Max({pos, 1}) + 1
      rest == SubSeq(word, next + 1, Len(word))
  IN  IF ind > Len(argv) THEN Done(ind)
      ELSE IF pos = 0 /\ (word = <<>> \/ word[1] # "-" \/ Len(word) = 1) THEN Done(ind)
      ELSE IF pos = 0 /\ word[2] = "-" THEN Done(ind + 1)
      ELSE IF c \in flags THEN Returns(c, Unset, ind, next)
      ELSE IF c \notin withArg THEN Returns("?", Unset, ind, next)
      ELSE IF rest # <<>> THEN Returns(c, rest, ind + 1, 0)
      ELSE IF ind = Len(argv) THEN Returns("?", Unset, ind + 1, 0)
      ELSE Returns(c, argv[ind + 1], ind + 2, 0)

Letters(tool) ==
  CASE tool = "setuidgid"            -> [flags |-> {"s"}, withArg |-> {}]
    [] tool = "setlock"              -> [flags |-> {"n", "N", "x", "X"}, withArg |-> {}]
    [] tool \in {"envdir", "envini"} -> [flags |-> {}, withArg |-> {"p"}]
    [] tool = "softlimit"            -> [flags |-> {}, withArg |-> {"a", "c", "d", "f", "l", "m",
                                                                   "o", "p", "r", "s", "t"}]

----------------------------------------------------------------------------
(* Environments: environ as a sequence of bindings, as execve() gives it,  *)
(* and the changes in plus, which pathexec() applies in their order.       *)

Bindings(e, s) == {t \in DOMAIN e : e[t].name = s}

env_get(environ, s) == LET T == Bindings(environ, s)
                       IN  IF T = {} THEN Unset ELSE environ[Min(T)].value

pathexec_env(plus, s, t) == Append(plus, [name |-> s, value |-> t])

(* The first binding of s goes; the last one takes its place.              *)
Without(e, s) == LET T == Bindings(e, s)
                 IN  IF T = {} THEN e ELSE Front([e EXCEPT ![Min(T)] = Last(e)])

(* Mutant: the new binding comes behind an old one of the same name.       *)
Changed_added(e, b) == IF b.value = Unset THEN Without(e, b.name) ELSE Append(e, b)

Changed(e, b) == IF b.value = Unset THEN Without(e, b.name) ELSE Append(Without(e, b.name), b)

pathexec(environ, plus) ==
  CHOOSE env \in FoldLeft(LAMBDA E, b : {Changed(e, b) : e \in E}, {environ}, plus) : TRUE

(* The search of pathexec_run() along path, the value of $PATH in the      *)
(* tool's own environment.  What is returned is an image or an errno.      *)
execve(path) == IF path \in DOMAIN Bin THEN Bin[path] ELSE "noent"

Errnos == {"noent", "acces", "perm", "isdir", "noexec"}

pathexec_run(file, path) ==
  LET dirs   == Split(IF path = Unset THEN <<"/bin", ":", "/usr/bin">> ELSE path, ":")
      paths  == IF "/" \in ToSet(file) THEN <<file>>
                ELSE [i \in DOMAIN dirs |-> (IF dirs[i] = <<>> THEN <<".">> ELSE dirs[i])
                                             \o <<"/">> \o file]
      ends   == {i \in DOMAIN paths : execve(paths[i]) \notin {"noent", "acces", "perm", "isdir"}}
  IN  IF ends = {} THEN "noent" ELSE execve(paths[Min(ends)])

----------------------------------------------------------------------------
(* envdir: sa is the buffer; it still has the last file's value, with the  *)
(* null that stralloc_0() appended, when the next file has vanished.       *)

Read(sa, content) == IF content = Unset THEN sa ELSE content

Value(sa) == [i \in DOMAIN TrimRight(SubSeq(sa, 1, byte_chr(sa, "\n")), {" ", "\t"}) |->
                IF sa[i] = "NUL" THEN "\n" ELSE sa[i]]

(* envini: parse(), line by line without the spaces around it.             *)
Spaces == {" ", "\t", "\n", "\r"}

Trimmed(lines) == [k \in DOMAIN lines |-> TrimLeft(TrimRight(lines[k], Spaces), Spaces)]

ParseLine(prefix, at, s) ==
  LET i    == Span(s, Spaces \cup {"="})
      rest == TrimLeft(SubSeq(s, i + 1, Len(s)), Spaces)
  IN  IF s = <<>> THEN at
      ELSE IF s[1] = "[" /\ Last(s) = "]"
           THEN [at EXCEPT !.section = Append(SubSeq(s, 2, Len(s) - 1), "_")]
      ELSE IF s[1] = ";" \/ rest = <<>> \/ Head(rest) # "=" THEN at
      ELSE [at EXCEPT !.plus = pathexec_env(@, prefix \o at.section \o SubSeq(s, 1, i),
                                            TrimLeft(Tail(rest), Spaces))]

parse(lines, prefix) ==
  FoldLeft(LAMBDA at, line : ParseLine(prefix, at, line),
           [section |-> <<>>, plus |-> <<>>], lines).plus

----------------------------------------------------------------------------
(* softlimit                                                               *)

(* What doit() makes of limit r, or Unset: usage.                         *)
Limited(r, arg) ==
  LET n == scan_ulong(arg)
  IN  IF arg = <<"=">> THEN [r EXCEPT !.cur = r.max]
      ELSE IF arg = <<"-">> THEN [cur |-> RLIM_INFINITY, max |-> RLIM_INFINITY]
      ELSE IF n.pos < Len(arg) THEN Unset
      ELSE [r EXCEPT !.cur = Min({n.u, r.max})]

(* The variables doallenv() asks for, and the limits that each option is.  *)
EnvLimits ==
  <<<<"AS", "ALLBYTES">>, <<"AS", "MEMBYTES">>, <<"CORE", "COREBYTES">>, <<"DATA", "DATABYTES">>,
    <<"DATA", "MEMBYTES">>, <<"FSIZE", "FILEBYTES">>, <<"MEMLOCK", "LOCKEDBYTES">>,
    <<"MEMLOCK", "MEMBYTES">>, <<"STACK", "STACKBYTES">>, <<"STACK", "MEMBYTES">>,
    <<"NOFILE", "OPENFILES">>, <<"NPROC", "PROCS">>, <<"RSS", "RSSBYTES">>, <<"CPU", "CPUSECS">>>>

doallenv(environ) ==
  SelectSeq([i \in DOMAIN EnvLimits |->
               [resource |-> EnvLimits[i][1],
                arg |-> env_get(environ, <<"SOFTLIMIT_", EnvLimits[i][2]>>)]],
            LAMBDA setting : setting.arg # Unset)

OptionLimits ==
  [a |-> <<"AS">>, c |-> <<"CORE">>, d |-> <<"DATA">>, f |-> <<"FSIZE">>, l |-> <<"MEMLOCK">>,
   m |-> <<"DATA", "STACK", "MEMLOCK", "AS">>, o |-> <<"NOFILE">>, p |-> <<"NPROC">>,
   r |-> <<"RSS">>, s |-> <<"STACK">>, t |-> <<"CPU">>]
=============================================================================
