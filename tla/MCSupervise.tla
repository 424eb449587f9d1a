---------------------------- MODULE MCSupervise ----------------------------
(* Values for TLC: service directories, svc commands and symmetry.         *)
EXTENDS Supervise, TLC

(* A directory with just these files, all executable but the flag files    *)
With(S) == [f \in Files |-> IF f \notin S THEN "absent"
                            ELSE IF f \in {"no-setsid", "down"} THEN "plain" ELSE "exec"]

PidSymmetry == Permutations(Pids)

mc_Main    == {With({"start", "run", "stop"}), With({"run", "stop", "down", "no-setsid"}),
               [With({"start", "stop"}) EXCEPT !["start"] = "error"]}
mc_Logged  == {With({"run", "stop", "log"}), With({"start", "run", "log", "down"})}
mc_Forks   == mc_Logged \cup {With({"start", "run", "stop", "notify"})}
mc_Live    == {With({"run", "log"}), With({"start", "run", "stop", "log"})}
mc_Scripts  == {With({"start", "run", "stop"})}
mc_All      == {With({"start", "run", "stop", "log"})}
mc_NoSetsid == {With({"run", "no-setsid"})}

(* What svc sends: each command is "l" and its options.                    *)
mc_Starts  == {<<"l", "u">>, <<"l", "d">>, <<"l", "o">>}
mc_Main_r  == mc_Starts \cup {<<"l", "p">>, <<"l", "c">>, <<"l", "+", "k">>, <<"l", "d", "x">>}
mc_Log_r   == mc_Starts \cup {<<"l", "L", "d">>, <<"l", "L", "u">>, <<"l", "x">>,
                              <<"l", "L", "o", "l", "t">>, <<"l", "+", "L", "p", "=", "c">>}
mc_Exit_r  == {<<"l", "d">>, <<"l", "x">>, <<"l", "d", "x">>}
mc_Live_r  == mc_Starts \cup {<<"l", "x">>, <<"l", "d", "x">>, <<"l", "p">>, <<"l", "L", "d">>,
                              <<"l", "+", "L", "p", "=", "c">>}
mc_dx      == {<<"l", "d", "x">>}
mc_Group_r == {<<"l", "+", "d">>}
=============================================================================
