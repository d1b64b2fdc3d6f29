---------------------------- MODULE SessionWire ----------------------------
(***************************************************************************)
(* What lies between a client's half of the protocol and its session: the  *)
(* connections that come and go, and the exchanges on their streams.  An   *)
(* exchange is a request of some origin on one connection, named by its    *)
(* generation: an origin sends at most once on a connection.               *)
(*                                                                         *)
(* The session is what SessionOrder is proved to implement, ChangeOrder,   *)
(* with an exchange for a change.  A request written may arrive late, the  *)
(* client may lose a connection whose requests the server goes on serving, *)
(* and a handshake the client has given up on may still be taken.          *)
(***************************************************************************)
EXTENDS Naturals, FiniteSets

CONSTANTS
  Origin,
  MaxGen,       \* bound on the connections the client makes
  MaxEpoch      \* bound on the handshakes the server takes

ASSUME OriginFinite == IsFiniteSet(Origin)
ASSUME BoundsAreNat == MaxGen \in Nat \ {0} /\ MaxEpoch \in Nat \ {0}

Gen      == 1 .. MaxGen
Exchange == Origin \X Gen

VARIABLES
  current, state, conn, gaveUp,   \* the session: ChangeOrder over Exchange
  gen,        \* generation of the newest connection
  up,         \* the client has not lost it
  epochOf,    \* the session's epoch each connection attached at
  wire,       \* requests written whole and not yet read by the server
  reset,      \* requests whose send side the client has reset
  ans,        \* how the reply stream of an exchange ended, if it has
  cancels,    \* AttachedState::cancels of each connection
  pend        \* exchanges whose PendingReply is being read

session  == <<current, state, conn, gaveUp>>
link     == <<gen, up, epochOf>>
streams  == <<wire, reset, ans>>
pending  == <<cancels, pend>>
wireVars == <<session, link, streams, pending>>

Server == INSTANCE ChangeOrder WITH Change <- Exchange

(* The first connection has made the session, at its first epoch.          *)
WireInit ==
  /\ Server!Init
  /\ gen = 1 /\ up = TRUE
  /\ epochOf = [g \in Gen |-> IF g = 1 THEN current ELSE 0]
  /\ wire = {} /\ reset = {} /\ ans = [x \in Exchange |-> "none"]
  /\ cancels = [g \in Gen |-> 0] /\ pend = {}

(* The client has not lost the connection of generation g.                 *)
Alive(g) == up /\ g = gen

-----------------------------------------------------------------------------
(* Connections. *)

(* A new connection of the client attaches at the session's newest epoch.  *)
Attach ==
  /\ ~up /\ gen < MaxGen
  /\ gen' = gen + 1 /\ up' = TRUE
  /\ epochOf' = [epochOf EXCEPT ![gen + 1] = current']

(* The client connects again, and the session resumes on the connection.   *)
Reconnect ==
  /\ current < MaxEpoch /\ Server!Resume
  /\ Attach
  /\ UNCHANGED <<streams, pending>>

(* A handshake is taken whose Ack the client does not take, the attempt
   having timed out: at any time, a newer connection notwithstanding.      *)
Stray ==
  /\ current < MaxEpoch /\ Server!Resume
  /\ UNCHANGED <<link, streams, pending>>

(* `conn.closed()`, for whatever reason.                                   *)
Lose ==
  /\ up /\ up' = FALSE
  /\ UNCHANGED <<session, gen, epochOf, streams, pending>>

-----------------------------------------------------------------------------
(* An exchange at the client. *)

(* The request is written whole.                                           *)
Write(x) ==
  /\ Alive(x[2])
  /\ wire' = wire \cup {x}
  /\ UNCHANGED <<session, link, reset, ans, pending>>

(* The reply stream ended with no reply, or its connection did.            *)
ReplyLost(x) == ~Alive(x[2]) \/ ans[x] \in {"superseded", "ended"}

(* `given_up` of a change written whole: counted before the server is told
   and before the call returns.                                            *)
CountGiveUp(x) ==
  /\ cancels' = [cancels EXCEPT ![x[2]] = @ + 1]
  /\ pend' = pend \cup {x} /\ reset' = reset \cup {x}
  /\ UNCHANGED <<session, link, wire, ans>>

(* The stream of an exchange given up on has ended, or its connection.     *)
Heard(x) == ~Alive(x[2]) \/ ans[x] # "none"

(* What became of it is known: the task of PendingReply::cancel drops the
   count.                                                                  *)
CancelAnswered(x) ==
  /\ x \in pend /\ Heard(x)
  /\ pend' = pend \ {x}
  /\ cancels' = [cancels EXCEPT ![x[2]] = @ - 1]
  /\ UNCHANGED <<session, link, streams>>

-----------------------------------------------------------------------------
(* A change at the server: ChangeOrder's steps, and what is answered. *)

(* A reply stream ends once.                                               *)
Answer(x, with) ==
  ans' = [ans EXCEPT ![x] = IF @ = "none" THEN with ELSE @]

(* The request is read whole.                                              *)
Arrive(x) ==
  /\ x \in wire /\ wire' = wire \ {x}
  /\ Server!Arrive(x, epochOf[x[2]])
  /\ UNCHANGED <<link, reset, ans, pending>>

(* Or it never is: reset first, too slow in coming, gone with the
   connection.  The stream is dropped.                                     *)
Undecoded(x) ==
  /\ x \in wire /\ wire' = wire \ {x}
  /\ Answer(x, "ended")
  /\ UNCHANGED <<session, link, reset, pending>>

Clear(x) ==
  /\ Server!Clear(x)
  /\ UNCHANGED <<link, streams, pending>>

(* mutant of Begin: the reply is written before the operation returns. *)
BeginReplying(x) ==
  /\ Server!Begin(x)
  /\ Answer(x, "reply")
  /\ UNCHANGED <<link, wire, reset, pending>>

Begin(x) ==
  /\ Server!Begin(x)
  /\ UNCHANGED <<link, streams, pending>>

Refused(x, with) ==
  /\ Server!Refuse(x)
  /\ Answer(x, with)
  /\ UNCHANGED <<link, wire, reset, pending>>

(* The session has resumed on a newer connection.                          *)
Superseded(x) == conn[x] # current /\ Refused(x, "superseded")

(* The client's reset comes before the change begins.                      *)
Cancelled(x) == x \in reset /\ Refused(x, "unrun")

(* A held change's connection ends.                                        *)
Dropped(x) ==
  /\ state[x] = "waiting" /\ ~Alive(x[2])
  /\ Refused(x, "none")

(* mutant of Fenced: nothing is answered until the operation returns. *)
FencedLate(x) ==
  /\ x \in reset /\ Server!GiveUp(x)
  /\ UNCHANGED <<link, streams, pending>>

(* The client's reset comes while the change runs.                         *)
Fenced(x) ==
  /\ x \in reset /\ Server!GiveUp(x)
  /\ Answer(x, "fenced")
  /\ UNCHANGED <<link, wire, reset, pending>>

(* The operation returns, and its reply is written; or the reply stalls and
   its stream is reset.                                                    *)
Finish(x, reply) ==
  /\ Server!Finish(x)
  /\ \E with \in {reply, "ended"} : Answer(x, with)
  /\ UNCHANGED <<link, wire, reset, pending>>

Stops(x)  == Superseded(x) \/ Cancelled(x) \/ Dropped(x) \/ Fenced(x)
Serves(x) == Arrive(x) \/ Undecoded(x) \/ Clear(x) \/ Stops(x)
=============================================================================
