----------------------------- MODULE HandlePool -----------------------------
(***************************************************************************)
(* The handles of every session and the pool they draw on: `HandlePool`,   *)
(* `Handles` and `Slot` (crates/server/src/handles.rs), as the opens and   *)
(* releases of crates/server/src/ops.rs use them.  An open looks its id    *)
(* up, takes a slot of the pool, opens the file and inserts the handle, in *)
(* four steps that those of other opens come between.                      *)
(***************************************************************************)
EXTENDS Naturals, FiniteSets

CONSTANTS
  Session,
  Fh,         \* the ids clients choose for their handles
  Open,       \* the requests that keep a handle: open, create, opendir
  Capacity    \* HandlePool::capacity

VARIABLES
  used,   \* HandlePool::used
  held,   \* Handles::map: <<session, id>> of the handles kept
  pc,     \* where each open is
  key,    \* the <<session, id>> it is for
  gone    \* sessions whose Handles has been dropped

poolVars == <<used, held, pc, key, gone>>

Key == Session \X Fh

PoolInit ==
  /\ used = 0 /\ held = {} /\ gone = {}
  /\ pc  = [o \in Open |-> "new"]
  /\ key \in [Open -> Key]

Goto(o, where) == pc' = [pc EXCEPT ![o] = where]

(* `reserve`, under the map's lock: a resend gets the handle of its
   original.  The opens of a session keep its Handles.                     *)
Reserve(o) ==
  /\ pc[o] = "new" /\ key[o][1] \notin gone
  /\ Goto(o, IF key[o] \in held THEN "answered" ELSE "take")
  /\ UNCHANGED <<used, held, key, gone>>

Room == used < Capacity

(* `take`: one atomic update.                                              *)
Take(o) ==
  /\ pc[o] = "take"
  /\ \/ Room /\ used' = used + 1 /\ Goto(o, "slot")
     \/ ~Room /\ Goto(o, "refused") /\ UNCHANGED used
  /\ UNCHANGED <<held, key, gone>>

(* mutant of Insert: the id is not looked up again. *)
InsertUnchecked(o) ==
  /\ pc[o] = "slot"
  /\ held' = held \cup {key[o]} /\ Goto(o, "answered") /\ UNCHANGED used
  /\ UNCHANGED <<key, gone>>

(* `Slot::insert`: the handle takes the slot over, unless another open of
   its id has come first; the slot is then given back.                     *)
Insert(o) ==
  /\ pc[o] = "slot"
  /\ \/ /\ key[o] \notin held
        /\ held' = held \cup {key[o]} /\ Goto(o, "answered") /\ UNCHANGED used
     \/ /\ key[o] \in held
        /\ used' = used - 1 /\ Goto(o, "refused") /\ UNCHANGED held
  /\ UNCHANGED <<key, gone>>

(* The file does not open: the slot is dropped.                            *)
FailOpen(o) ==
  /\ pc[o] = "slot"
  /\ used' = used - 1
  /\ Goto(o, "refused")
  /\ UNCHANGED <<held, key, gone>>

(* mutant of Release: what is not held is given back too. *)
ReleaseUnheld(k) ==
  /\ held' = held \ {k}
  /\ used' = used - 1
  /\ UNCHANGED <<pc, key, gone>>

(* `remove`, of a release.                                                 *)
Release(k) ==
  /\ k \in held
  /\ held' = held \ {k}
  /\ used' = used - 1
  /\ UNCHANGED <<pc, key, gone>>

(* mutant of Unused: an open that has not kept its handle is overlooked. *)
UnusedAnytime(s) == TRUE

(* No open holds a reference to the session's Handles.                     *)
Unused(s) == \A o \in Open : key[o][1] = s => pc[o] \notin {"take", "slot"}

(* The session goes, and its handles with it.                              *)
DropHandles(s) ==
  LET kept == {k \in held : k[1] = s} IN
  /\ s \notin gone /\ Unused(s)
  /\ gone' = gone \cup {s}
  /\ held' = held \ kept
  /\ used' = used - Cardinality(kept)
  /\ UNCHANGED <<pc, key>>

PoolNext ==
  \/ \E o \in Open : Reserve(o) \/ Take(o) \/ Insert(o) \/ FailOpen(o)
  \/ \E k \in Key : Release(k)
  \/ \E s \in Session : DropHandles(s)

PoolSpec == PoolInit /\ [][PoolNext]_poolVars

-----------------------------------------------------------------------------
(* The pool's count, unsigned in the code, is never taken below zero, and
   each open is at one of the steps of ops.rs.                             *)
TypeOK ==
  /\ used \in Nat
  /\ held \subseteq Key
  /\ pc \in [Open -> {"new", "take", "slot", "answered", "refused"}]
  /\ key \in [Open -> Key]
  /\ gone \subseteq Session

(* Opens with a slot of the pool in hand.                                  *)
Slots == {o \in Open : pc[o] = "slot"}

(* The pool is never over-drawn, and counts exactly the handles kept and the
   slots in hand: nothing is given back twice, and none is lost by a resend,
   a second open of one id, a failed open, a release or a session's end; and
   nothing is kept for a session that is gone.                             *)
PoolExact ==
  /\ used <= Capacity
  /\ used = Cardinality(held) + Cardinality(Slots)
  /\ \A k \in held : k[1] \notin gone
=============================================================================
