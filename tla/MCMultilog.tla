------------------------------ MODULE MCMultilog ------------------------------
(* Values for TLC: scripts for lines of which two characters fit into line. *)
EXTENDS Multilog

Does(op) == [op |-> op, pattern |-> <<>>]
Picks(op, pattern) == [op |-> op, pattern |-> pattern]

(* multilog F '-*b' S '+*b' -a =status ./log                                *)
MCScript == <<Does("F"), Picks("-", <<"*", "b">>), Does("S"), Picks("+", <<"*", "b">>),
              Picks("-", <<"a">>), Does("="), Does(".")>>

(* multilog '-*b' F '+a?' =status ./log: simple patterns first              *)
MCSimpleFirst == <<Picks("-", <<"*", "b">>), Does("F"), Picks("+", <<"a", "?">>),
                   Does("="), Does(".")>>
=============================================================================
