----------------------------- MODULE MCSessions -----------------------------
(* The session table and the life of one handle id on an instance small     *)
(* enough for TLC.  The two do not meet: a behaviour is of the part that    *)
(* `focus` names, and leaves the other as it was.                           *)
EXTENDS HandleProtocol, SessionTable, TLC

VARIABLE focus

(* Clients are interchangeable.                                             *)
Symmetry == Permutations(Client)

MCInit == focus \in {"table", "handle"} /\ Init /\ TableInit

MCNext ==
  \/ focus = "handle" /\ Next /\ UNCHANGED <<focus, tableVars>>
  \/ focus = "table" /\ TableNext /\ UNCHANGED <<focus, vars>>

MCSpec == MCInit /\ [][MCNext]_<<focus, vars, tableVars>>
=============================================================================
