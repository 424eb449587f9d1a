------------------------------ MODULE MCShutdown ------------------------------
(* Values for TLC: service directories and svc commands.                   *)
EXTENDS Shutdown, TLC

With(S) == [f \in Files |-> IF f \in S THEN "exec" ELSE "absent"]

mc_NoStop == {With({"run", "log"})}
mc_Stop   == {With({"run", "stop"})}
mc_Late   == {<<"l", "u">>}
=============================================================================
