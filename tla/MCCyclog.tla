------------------------------- MODULE MCCyclog -------------------------------
(* Values for TLC: files of three bytes, lines of two and of four bytes.      *)
EXTENDS Cyclog

MCInodes == 1..14
MCNewlines == {2, 6}
MCScripts == {TRUE, FALSE}
=============================================================================
