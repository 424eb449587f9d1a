------------------------------- MODULE MCSvscan -------------------------------
(* Values for TLC, and a specification with fewer initial states.          *)
EXTENDS Svscan, TLC

(* For runs without a log service: nothing distinguishes the names.        *)
PidNameSymmetry == Permutations(Pids) \cup Permutations(Names)

(* At first the name of the log service is a directory with a log.         *)
MCInit == Init /\ entry[logdir] \in Logged

MCFairSpec == MCInit /\ [][Next]_vars /\ Fairness
=============================================================================
