----------------------------- MODULE ChangeOrder -----------------------------
(***************************************************************************)
(* What a session promises of its changes, without the counts, phases,     *)
(* threads and wakes that bring it about.  A change arrives on a           *)
(* connection, and is run at most once, on the session's newest connection *)
(* only, never beside a change of another connection, and never before one *)
(* the client had given up on has left the filesystem.                     *)
(***************************************************************************)
EXTENDS Naturals

CONSTANT Change

VARIABLES
  current,   \* the newest connection of the session
  state,     \* where each change is
  conn,      \* the connection that carries it
  gaveUp     \* active changes the client has given up on

vars == <<current, state, conn, gaveUp>>

State  == {"idle", "waiting", "clear", "active", "over"}
Active == {c \in Change : state[c] = "active"}

(* Changes a newly arrived one must not overtake.                          *)
InTheWay == {c \in Active : conn[c] < current \/ c \in gaveUp}

Become(c, to) == state' = [state EXCEPT ![c] = to]

Init ==
  /\ current = 1
  /\ state  = [c \in Change |-> "idle"]
  /\ conn   = [c \in Change |-> 0]
  /\ gaveUp = {}

Arrive(c, e) ==
  /\ state[c] = "idle"
  /\ conn' = [conn EXCEPT ![c] = e]
  /\ Become(c, IF e = current /\ InTheWay # {} THEN "waiting" ELSE "clear")
  /\ UNCHANGED <<current, gaveUp>>

(* Nothing is left in the way of a waiting change.                         *)
Clear(c) ==
  /\ state[c] = "waiting" /\ conn[c] = current /\ InTheWay = {}
  /\ Become(c, "clear")
  /\ UNCHANGED <<current, conn, gaveUp>>

Begin(c) ==
  /\ state[c] = "clear" /\ conn[c] = current
  /\ \A d \in Active : conn[d] = current
  /\ Become(c, "active")
  /\ UNCHANGED <<current, conn, gaveUp>>

(* Given up, superseded or dropped before it began: it never will.         *)
Refuse(c) ==
  /\ state[c] \in {"waiting", "clear"}
  /\ Become(c, "over")
  /\ UNCHANGED <<current, conn, gaveUp>>

GiveUp(c) ==
  /\ c \in Active \ gaveUp
  /\ gaveUp' = gaveUp \cup {c}
  /\ UNCHANGED <<current, state, conn>>

Finish(c) ==
  /\ c \in Active
  /\ Become(c, "over")
  /\ gaveUp' = gaveUp \ {c}
  /\ UNCHANGED <<current, conn>>

Resume ==
  /\ current' = current + 1
  /\ UNCHANGED <<state, conn, gaveUp>>

Next ==
  \/ Resume
  \/ \E c \in Change :
       \/ \E e \in 1 .. current : Arrive(c, e)
       \/ Clear(c) \/ Begin(c) \/ Refuse(c) \/ GiveUp(c) \/ Finish(c)

Spec == Init /\ [][Next]_vars
=============================================================================
