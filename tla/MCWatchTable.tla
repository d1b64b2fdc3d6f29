---------------------------- MODULE MCWatchTable ----------------------------
(* Instances of WatchTable for TLC.                                         *)
EXTENDS WatchTable

Symmetry == Permutations(Dir) \cup Permutations(Request)

(* Once every event is applied and the root has its own watch, the table    *)
(* mirrors the filesystem, and nothing a client may still believe is out of *)
(* date (watch.rs, Table::apply and place).                                 *)
QuietIsTrue == QuietMirrors /\ QuietIsFresh
===========================================================================
