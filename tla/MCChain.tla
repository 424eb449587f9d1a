------------------------------- MODULE MCChain -------------------------------
(* Values for TLC: accounts, files, and command lines with their spelling. *)
EXTENDS Chain

(* A command: tool, options (letter and argument), operand.                *)
C(tool, opts, arg) == [tool |-> tool, word |-> <<tool>>, opts |-> opts, arg |-> arg, ok |-> TRUE]
P(tool, arg) == C(tool, <<>>, arg)
Bad(c)  == [c EXCEPT !.ok = FALSE]
prog    == P("prog", <<>>)

(* Each option in a word of its own, its argument in the next; or flags    *)
(* together in one word, an argument behind its letter, and "--".          *)
OptWords(o) == <<<<"-", o[1]>>>> \o IF o[2] = <<>> THEN <<>> ELSE <<o[2]>>
Apart(opts) == FlattenSeq([i \in DOMAIN opts |-> OptWords(opts[i])])
Glued(opts) ==
  FoldLeft(LAMBDA ws, o :
             IF o[2] # <<>> THEN Append(ws, <<"-", o[1]>> \o o[2])
             ELSE IF ws = <<>> THEN <<<<"-", o[1]>>>>
             ELSE [ws EXCEPT ![Len(ws)] = Append(@, o[1])], <<>>, opts)
       \o <<<<"-", "-">>>>
Operand(c) == IF c.arg = <<>> THEN <<>> ELSE <<c.arg>>
Spell(c, glued) ==
  <<c.word>> \o (IF c.tool \in NoOptions \cup {"prog"} THEN <<>>
                 ELSE IF glued THEN Glued(c.opts) ELSE Apart(c.opts)) \o Operand(c)

N(t) == <<t>>
Env0 == <<[name |-> N("PATH"), value |-> <<"/bin">>], [name |-> N("A"), value |-> <<"0">>],
          [name |-> <<"SOFTLIMIT_", "DATABYTES">>, value |-> <<"5">>],
          [name |-> N("B"), value |-> <<"0">>],
          [name |-> <<"SOFTLIMIT_", "MEMBYTES">>, value |-> <<"9">>]>>
mc_Names == {Env0[i].name : i \in DOMAIN Env0} \cup {<<"P_", "A">>, <<"P_", "s", "_", "A">>, N("UID"), N("GID"),
             N("HOME"), N("SHELL"), N("USER")}

mc_Bin == [path \in {<<"/bin", "/", t>> : t \in ToolNames \cup {"prog"}} \cup {<<"/opt", "/", "prog">>} |->
             IF path[1] = "/opt" THEN "other" ELSE path[3]]

mc_Accounts == (N("alice") :> [uid |-> 7, gid |-> 12, groups |-> {3}, home |-> N("/home"), shell |-> N("/sh")])

Text(text, value) == [text |-> text, value |-> value]
mc_Dirs == (N("d") :> (   N("A") :> Text(<<"1", "2", " ", "\n", "3">>, <<"1", "2">>)
                       @@ N("B") :> Text(<<>>, Unset)
                       @@ <<".", "B">> :> Text(<<"4">>, <<"4">>)
                       @@ N("PATH") :> Text(<<"/opt", ":", "/bin">>, <<"/opt", ":", "/bin">>)))
mc_Edits == {<<N("d"), N("A"), Text(<<"NUL", "\t", " ">>, <<"\n">>)>>, <<N("d"), N("B"), Unset>>,
             <<N("d"), N("B"), Text(<<" ", "\n">>, <<>>)>>}

mc_Inis == (N("i") :>
  [text |-> <<"A", "=", "1", "\n", " ", "[", "s", "]", "\n", "A", " ", "=", "\t", "2", " ", "3", " ", "\n",
              ";", "A", "=", "4", "\n", "A", " ", "B", "=", "5", "\n", "\n", "[", "]", "A", "\n",
              "[", "s", "]", "\r", "\n", "A", "=", "6">>,
   lines |-> <<[kind |-> "sets", name |-> N("A"), value |-> <<"1">>],
               [kind |-> "section", name |-> N("s")],
               [kind |-> "sets", name |-> N("A"), value |-> <<"2", " ", "3">>],
               [kind |-> "section", name |-> N("s")],
               [kind |-> "sets", name |-> N("A"), value |-> <<"6">>]>>])

Lim == [r \in {"AS", "CORE", "DATA", "FSIZE", "MEMLOCK", "STACK", "NOFILE", "NPROC", "RSS", "CPU"} |->
          [cur |-> 6, max |-> IF r = "CPU" THEN RLIM_INFINITY ELSE 12]]
Root0 == [uid |-> 0, gid |-> 0, groups |-> {0, 1}]

Line(cmds, glued) == [cmds |-> cmds, cred |-> Root0, lim |-> Lim, env |-> Env0,
                      argv |-> FlattenSeq([i \in DOMAIN cmds |-> Spell(cmds[i], glued)])]
Both(cmds) == {Line(cmds, TRUE), Line(cmds, FALSE)}

P_ == <<"p", N("P_")>>
Lock_nx == C("setlock", <<<<"n", <<>>>>, <<"X", <<>>>>, <<"x", <<>>>>>>, N("f"))
Lock_N  == C("setlock", <<<<"n", <<>>>>, <<"x", <<>>>>, <<"X", <<>>>>, <<"N", <<>>>>>>, N("f"))
Alice   == P("setuidgid", N("alice"))
AliceS  == C("setuidgid", <<<<"s", <<>>>>>>, N("alice"))
Fghack  == P("fghack", <<>>)
Soft    == C("softlimit", <<<<"m", <<"8">>>>, <<"d", <<"=">>>>, <<"s", <<"-">>>>, <<"t", <<"1", "4">>>>>>, <<>>)

Alone(lines) == {(1 :> l) : l \in lines}
mc_Lines ==
  Alone(UNION {
    {Line(<<P("envdir", N("d")), C("envdir", <<P_>>, N("d")), prog>>, TRUE)},
    Both(<<C("envini", <<P_>>, N("i")), P("envuidgid", N("alice")), prog>>),
    Both(<<P("envini", N("none")), P("envdir", N("none")), prog>>),
    Both(<<Soft, AliceS, C("softlimit", <<<<"o", <<"9", "9">>>>>>, <<>>), prog>>),
    Both(<<Alice, C("softlimit", <<<<"t", <<"-">>>>, <<"a", <<"-">>>>>>, <<>>), prog>>),
    Both(<<AliceS, Alice, prog>>),
    Both(<<P("setuidgid", N("bob")), prog>>),
    Both(<<P("setuser", N("alice")), prog>>),
    Both(<<Bad(C("softlimit", <<<<"c", <<"x">>>>>>, <<>>)), prog>>),
    Both(<<Bad(C("setlock", <<<<"q", <<>>>>>>, N("f"))), prog>>),
    {[Line(<<Bad(P("envdir", N("d"))), prog>>, TRUE) EXCEPT !.argv = SubSeq(@, 1, 3)]}})
  \cup {(1 :> l @@ 2 :> Line(<<Lock_N, prog>>, FALSE)) :
           l \in {Line(<<Lock_nx, Fghack, prog>>, TRUE), Line(<<Lock_N, P("pgrphack", <<>>), prog>>, TRUE)}}
(* Where the manual pages and the tools disagree: setuser, a missing file, *)
(* and an environment that has a name twice.                               *)
Twice   == [Line(<<P("envuidgid", N("alice")), prog>>, TRUE) EXCEPT
              !.env = @ \o <<[name |-> N("UID"), value |-> <<"0">>], [name |-> N("UID"), value |-> <<"1">>]>>]
mc_PageLines == Alone({Twice} \cup Both(<<P("setuser", N("alice")), prog>>)
                             \cup Both(<<P("envini", N("none")), prog>>))
mc_DirLines  == Alone(Both(<<P("envdir", N("d")), prog>>))
=============================================================================
