---------------------------- MODULE CallProtocol ----------------------------
(***************************************************************************)
(* The calls of one client through connections that come and go, against   *)
(* one session of the server: `CallState` and `AttachedState`              *)
(* (crates/client/src/machine.rs), `Caller::attempt` and `exchange`        *)
(* (crates/client/src/client.rs).  Every call is for a change.             *)
(***************************************************************************)
EXTENDS SessionWire

CONSTANT Resendable   \* the calls whose request is retry_safe

Call == Origin

ASSUME ResendableCall == Resendable \subseteq Call

VARIABLES
  status,     \* where each call is
  on,         \* the generation of the connection it has taken
  min_generation, lost_once,      \* of CallState
  ran,        \* history: exchanges begun
  unknown     \* history: calls ended with no reply as this one started

taken   == <<on, min_generation, lost_once>>
calls   == <<status, taken>>
history == <<ran, unknown>>
vars    == <<wireVars, calls, history>>

Init ==
  /\ WireInit
  /\ status = [c \in Call |-> "idle"]
  /\ on = [c \in Call |-> 0] /\ min_generation = [c \in Call |-> 0]
  /\ lost_once = [c \in Call |-> FALSE]
  /\ ran = {} /\ unknown = [c \in Call |-> {}]

(* The exchange a call has under way.                                      *)
Now(c) == <<c, on[c]>>

Become(c, to) == status' = [status EXCEPT ![c] = to]

Unknown == {c \in Call : status[c] \in {"gaveup", "failed"}}

Start(c) ==
  /\ status[c] = "idle"
  /\ Become(c, "waiting")
  /\ unknown' = [unknown EXCEPT ![c] = Unknown]
  /\ UNCHANGED <<wireVars, taken, ran>>

(* `wait_connected` returns a connection the call takes.                   *)
Take(c) ==
  /\ status[c] = "waiting" /\ up /\ gen >= min_generation[c]
  /\ Become(c, "cancels")
  /\ on' = [on EXCEPT ![c] = gen]
  /\ UNCHANGED <<wireVars, min_generation, lost_once, history>>

(* mutant of Sendable: pending cancels are not waited for. *)
SendableNow(c) == TRUE

(* `sendable`: none of the changes the connection gave up on is unanswered. *)
Sendable(c) == cancels[on[c]] = 0

(* `sent`: the call's exchange begins.                                     *)
Send(c) ==
  /\ status[c] = "cancels" /\ Sendable(c)
  /\ Become(c, "sending")
  /\ UNCHANGED <<wireVars, taken, history>>

Written(c) ==
  /\ status[c] = "sending" /\ Write(Now(c))
  /\ Become(c, "reply")
  /\ UNCHANGED <<taken, history>>

(* The call goes again, on a newer connection only.                        *)
Again(c) ==
  /\ Become(c, "waiting")
  /\ min_generation' = [min_generation EXCEPT ![c] = on[c] + 1]

(* The request could not be written: `lost` of NotSent.                    *)
NotSent(c) ==
  /\ status[c] = "sending"
  /\ Again(c)
  /\ UNCHANGED <<wireVars, on, lost_once, history>>

(* mutant of Resends: a reply may be lost any number of times. *)
ResendsAlways(c) == c \in Resendable

Resends(c) == c \in Resendable /\ ~lost_once[c]

(* `lost` of a reply.                                                      *)
Lost(c) ==
  /\ status[c] = "reply" /\ ReplyLost(Now(c))
  /\ \/ /\ Resends(c)
        /\ Again(c)
        /\ lost_once' = [lost_once EXCEPT ![c] = TRUE]
     \/ /\ ~Resends(c)
        /\ Become(c, "failed")
        /\ UNCHANGED <<min_generation, lost_once>>
  /\ UNCHANGED <<wireVars, on, history>>

(* The reply is read; one received before the connection's loss may be read
   after it.                                                               *)
Replied(c) ==
  /\ status[c] = "reply" /\ ans[Now(c)] = "reply"
  /\ Become(c, "replied")
  /\ UNCHANGED <<wireVars, taken, history>>

(* The kernel interrupts the call, or its deadline passes, before the
   request is written whole: the server has nothing it could run.          *)
GaveUpUnsent(c) ==
  /\ status[c] \in {"waiting", "cancels", "sending"}
  /\ Become(c, "gaveup")
  /\ UNCHANGED <<wireVars, taken, history>>

(* Or while it waits for the reply.                                        *)
GaveUpSent(c) ==
  /\ status[c] = "reply"
  /\ CountGiveUp(Now(c))
  /\ Become(c, "gaveup")
  /\ UNCHANGED <<taken, history>>

-----------------------------------------------------------------------------
Run(x) ==
  /\ Begin(x)
  /\ ran' = ran \cup {x}
  /\ UNCHANGED <<calls, unknown>>

Link == Reconnect \/ Stray \/ Lose

CallStep(c) ==
  \/ Start(c) \/ Take(c) \/ Send(c) \/ Written(c) \/ NotSent(c) \/ Lost(c)
  \/ Replied(c) \/ GaveUpUnsent(c) \/ GaveUpSent(c)

ServerStep(x) ==
  Serves(x) \/ Finish(x, "reply") \/ CancelAnswered(x)

Next ==
  \/ Link /\ UNCHANGED <<calls, history>>
  \/ \E c \in Call : CallStep(c)
  \/ \E x \in Exchange : \/ Run(x)
                         \/ ServerStep(x) /\ UNCHANGED <<calls, history>>

Spec == Init /\ [][Next]_vars

(* A request written is read or its stream ends; the server's tasks, and the
   client's reads of the answers it waits for, go on.  No operation need
   return, and no connection need come or go.                              *)
GoesOn(x) ==
  /\ Arrive(x) \/ Undecoded(x) \/ Stops(x) \/ CancelAnswered(x)
  /\ UNCHANGED <<calls, history>>

FairSpec == Spec /\ WF_vars(\E x \in Exchange : GoesOn(x))

-----------------------------------------------------------------------------
(* The exchanges of a call that began, and those of them still running.    *)
RanOf(c)    == {x \in ran : x[1] = c}
ActiveOf(c) == {x \in Exchange : x[1] = c /\ state[x] = "active"}

(* S1 of docs/design.md: a change made after a call that ended with no reply
   runs only if that one never does, or has finished.                      *)
NoOvertaking ==
  \A b \in Call : \A a \in unknown[b] : RanOf(b) # {} => ActiveOf(a) = {}

(* S2 of docs/design.md: a request runs at most twice, and twice only if it
   may be repeated; its original has finished as its resend begins.        *)
RunsBounded ==
  \A c \in Call :
    /\ Cardinality(RanOf(c)) <= IF c \in Resendable THEN 2 ELSE 1
    /\ Cardinality(ActiveOf(c)) <= 1

(* A call that has its reply is over on the server too: its exchange ran, and
   neither that one nor an original whose reply was lost runs from then on,
   however late a request or a resume reaches the server.                  *)
RepliedIsOver ==
  \A c \in Call :
    status[c] = "replied" => Now(c) \in ran /\ ActiveOf(c) = {}

(* A change runs once, one that may be repeated at most twice and never twice
   at once; and a call that has its reply is over on the server too, however
   late a request or a resume reaches it (CallState, Session).             *)
RunsOnce == RunsBounded /\ RepliedIsOver

(* The answer a cancel waits for comes in the end even if no filesystem
   operation ever returns: the changes behind it on its connection are not
   kept waiting by what the server's disk does (M2 of docs/design.md).     *)
CancelsAnswered ==
  \A x \in Exchange : []<>(x \notin pend)
=============================================================================
