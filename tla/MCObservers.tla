---------------------------- MODULE MCObservers -----------------------------
(* Those who look on, on instances small enough for TLC: the taps of a hub  *)
(* and the stall watchdog.  The two do not meet: a behaviour is of the part *)
(* that `focus` names, and leaves the other as it was.                      *)
EXTENDS Taps, TLC

CONSTANTS Req, Sides, StallFirst, Detailed, MaxNow, MaxCalls

VARIABLES focus, side, now, req, ended, busy, calls, dog, told, blamed, logged

stallVars == <<side, now, req, ended, busy, calls, dog, told, blamed, logged>>

S == INSTANCE StallWatch

MCSelections == {{"request"}, {"event", "frame"}}

(* The threads that feed the taps are interchangeable.                      *)
Symmetry == Permutations(Producer)

(* A part that is not looked at starts in one of its states.                *)
MCInit ==
  /\ focus \in {"taps", "stalls"}
  /\ Init /\ S!Init
  /\ focus = "stalls" => registered
  /\ focus = "taps" => side = CHOOSE x \in Sides : TRUE

MCNext ==
  \/ focus = "taps" /\ Next /\ UNCHANGED <<focus, stallVars>>
  \/ focus = "stalls" /\ S!Next /\ UNCHANGED <<focus, vars>>

MCSpec == MCInit /\ [][MCNext]_<<focus, vars, stallVars>>

(* A tap gets every record that is made of what it selects from its         *)
(* subscription on, or is told how many it lost, with its queue within its  *)
(* bounds; what a census counts is in the tap's stream or in its count of   *)
(* what was lost, and counted once (hub.rs, control.rs).                    *)
TapsAreTrue ==
  focus = "taps" => /\ NothingMissed /\ CountedOnce /\ CensusCovers
                    /\ QueueBounded /\ DropsAccounted

(* The end of every request that the client reported as stalled is told     *)
(* too; between two reports of a request its age crosses a threshold; and   *)
(* the notifier call the watchdog blames is itself stalled (watchdog.rs,    *)
(* stall.rs).                                                               *)
StallsAreTrue ==
  focus = "stalls" => S!EndsTold /\ S!ReportsSpaced /\ S!BlamedIsStalled
=============================================================================
