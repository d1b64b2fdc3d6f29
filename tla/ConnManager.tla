---------------------------- MODULE ConnManager ---------------------------
(* The connection manager's loop (client/src/conn.rs, run, connect_any and  *)
(* connect_once) and the task that announces outages (announce_outages).    *)
(* What a connection carries is SessionWire's and HandleProtocol's subject; *)
(* here one is made, published, lost or not.                                *)
EXTENDS Integers, Sequences, FiniteSets

CONSTANTS
    Addr,                  \* addresses the server's name resolves to
    Family,                \* the address family of each
    MaxOutages, MaxSweeps  \* bounds: connections lost, sweeps over the addresses

VARIABLES
    stop,      \* ConnManager.stop
    mgr,       \* the manager: where it is, its candidates and the sweep over them
    state,     \* the ConnState published: its kind and, while connecting, since when
    told,      \* the failure the last sweep ended with
    seen,      \* history: how the addresses of the sweep failed
    lapsed,    \* outages that have lasted offline_timeout
    teller,    \* announce_outages
    warned     \* history: how often each outage was announced

conn == <<mgr, state, told, seen>>
announcer == <<teller, warned>>
vars == <<stop, conn, lapsed, announcer>>

Outage == 0 .. MaxOutages
Kinds == {"timeout", "failed", "rejected"}

(* bind_candidates: the addresses of a family whose socket cannot be bound  *)
(* are left out.                                                            *)
Bound(order, families) == SelectSeq(order, LAMBDA a : Family[a] \in families)

Orders == {o \in [1 .. Cardinality(Addr) -> Addr] : \A i, j \in DOMAIN o : o[i] = o[j] => i = j}

(* ConnManager::start, which a list with no candidate left fails.           *)
Init ==
    /\ stop = FALSE
    /\ \E order \in Orders, families \in SUBSET {Family[a] : a \in Addr} :
         /\ Bound(order, families) # <<>>
         /\ mgr = [at |-> "loop", order |-> Bound(order, families), i |-> 1, worst |-> "none",
                   first |-> TRUE, outage |-> 0, sweeps |-> 0]
    /\ state = [kind |-> "connecting", since |-> 0]
    /\ told = "none" /\ seen = {}
    /\ lapsed = {}
    /\ teller = [at |-> "off", view |-> {}, announced |-> {}, fresh |-> TRUE]
    /\ warned = [o \in Outage |-> 0]

Sent(s) == state' = s /\ teller' = [teller EXCEPT !.fresh = TRUE]

---------------------------------------------------------------------------
(* The top of the loop.                                                     *)
Loop ==
    /\ mgr.at = "loop" /\ ~stop /\ mgr.sweeps < MaxSweeps
    /\ Sent([kind |-> "connecting", since |-> mgr.outage])
    /\ mgr' = [mgr EXCEPT !.at = "sweep", !.i = 1, !.worst = "none", !.sweeps = @ + 1]
    /\ told' = "none" /\ seen' = {}
    /\ UNCHANGED <<stop, lapsed, warned>>

(* mutant of Worse: the last address's failure is reported.                 *)
WorseLast(kind) == kind

(* A timeout never displaces what an address answered.                      *)
Worse(kind) == IF mgr.worst = "none" \/ kind # "timeout" THEN kind ELSE mgr.worst

(* A failed first sweep ends the manager, another one is tried again.       *)
Failed(kind) ==
    /\ told' = kind
    /\ mgr' = [mgr EXCEPT !.at = IF mgr.first THEN "closing" ELSE "backoff", !.i = 1, !.worst = "none"]

(* An address does not answer, fails, or refuses, which ends the sweep.     *)
Refused(kind) ==
    /\ mgr.at = "sweep"
    /\ seen' = seen \cup {kind}
    /\ IF kind = "rejected" THEN Failed(kind)
       ELSE IF mgr.i = Len(mgr.order) THEN Failed(Worse(kind))
       ELSE mgr' = [mgr EXCEPT !.i = @ + 1, !.worst = Worse(kind)] /\ UNCHANGED told
    /\ UNCHANGED <<stop, state, lapsed, announcer>>

(* The address that answered goes first from now on, the others after it in *)
(* their order.                                                             *)
Rotated(order, i) == SubSeq(order, i, Len(order)) \o SubSeq(order, 1, i - 1)

Handshaken ==
    /\ mgr.at = "sweep"
    /\ mgr' = [mgr EXCEPT !.at = "restore", !.order = Rotated(@, mgr.i), !.i = 1, !.worst = "none"]
    /\ seen' = {}
    /\ UNCHANGED <<stop, state, told, lapsed, announcer>>

BackoffOver ==
    /\ mgr.at = "backoff"
    /\ mgr' = [mgr EXCEPT !.at = "loop"]
    /\ UNCHANGED <<stop, state, told, seen, lapsed, announcer>>

(* The handles are restored and the connection published; the first one     *)
(* lets start return, and the announcer begin.                              *)
Publish ==
    /\ mgr.at = "restore"
    /\ state' = [kind |-> "connected", since |-> 0]
    /\ teller' = [teller EXCEPT !.fresh = TRUE, !.at = IF mgr.first THEN "look" ELSE @]
    /\ mgr' = [mgr EXCEPT !.at = "serve", !.first = FALSE]
    /\ UNCHANGED <<stop, told, seen, lapsed, warned>>

ConnLost ==
    /\ mgr.at = "serve" /\ mgr.outage < MaxOutages
    /\ mgr' = [mgr EXCEPT !.at = "loop", !.outage = @ + 1]
    /\ UNCHANGED <<stop, state, told, seen, lapsed, announcer>>

(* stop_now, and the first half of shutdown.                                *)
StopNow ==
    /\ ~stop /\ ~mgr.first
    /\ stop' = TRUE
    /\ UNCHANGED <<conn, lapsed, announcer>>

(* Every wait of the loop ends with stop; a connection is closed then.      *)
Stopped ==
    /\ stop /\ mgr.at \in {"loop", "sweep", "backoff", "restore", "serve"}
    /\ mgr' = [mgr EXCEPT !.at = "closing", !.i = 1, !.worst = "none"]
    /\ seen' = {}
    /\ UNCHANGED <<stop, state, told, lapsed, announcer>>

ManagerEnds ==
    /\ mgr.at = "closing"
    /\ mgr' = [mgr EXCEPT !.at = "closed"]
    /\ Sent([kind |-> "closed", since |-> 0])
    /\ UNCHANGED <<stop, told, seen, lapsed, warned>>

---------------------------------------------------------------------------
(* The time of the outage under way, or of one that just ended, runs out.   *)
Lapse ==
    /\ mgr.outage > 0 /\ mgr.outage \notin lapsed /\ mgr.at # "closed"
    /\ lapsed' = lapsed \cup {mgr.outage}
    /\ UNCHANGED <<stop, conn, announcer>>

(* mutants of Viewed: an outage is looked at again though announced, or not *)
(* looked at once another was.                                              *)
ViewedAgain == IF state.kind = "connecting" THEN {state.since} ELSE {}
ViewedFirst == IF state.kind = "connecting" /\ teller.announced = {} THEN {state.since} ELSE {}

(* The outage to wait out: the one under way unless it was announced.       *)
Viewed == IF state.kind = "connecting" /\ teller.announced # {state.since} THEN {state.since} ELSE {}

Look ==
    /\ teller.at = "look"
    /\ teller' = [teller EXCEPT !.at = "wait", !.view = Viewed, !.fresh = FALSE]
    /\ UNCHANGED <<stop, conn, lapsed, warned>>

Announce ==
    /\ teller.at = "wait" /\ teller.view # {} /\ teller.view \subseteq lapsed
    /\ warned' = [o \in Outage |-> IF o \in teller.view THEN warned[o] + 1 ELSE warned[o]]
    /\ teller' = [teller EXCEPT !.at = "look", !.announced = teller.view, !.view = {}]
    /\ UNCHANGED <<stop, conn, lapsed>>

(* The state changed, or its sender is gone and nothing is left to see.     *)
Changed ==
    /\ teller.at = "wait"
    /\ \/ teller.fresh /\ teller' = [teller EXCEPT !.at = "look", !.view = {}]
       \/ ~teller.fresh /\ mgr.at = "closed" /\ teller' = [teller EXCEPT !.at = "done", !.view = {}]
    /\ UNCHANGED <<stop, conn, lapsed, warned>>

Next ==
    \/ Loop \/ Handshaken \/ BackoffOver \/ Publish \/ ConnLost \/ StopNow \/ Stopped \/ ManagerEnds
    \/ \E kind \in Kinds : Refused(kind)
    \/ Lapse \/ Look \/ Announce \/ Changed

(* The runtime polls both tasks, and where two branches of a select are     *)
(* ready takes neither forever.  Nothing makes an attempt succeed.          *)
Fairness ==
    /\ WF_vars(Stopped) /\ WF_vars(ManagerEnds)
    /\ WF_vars(Look) /\ WF_vars(Changed) /\ SF_vars(Announce)

Spec == Init /\ [][Next]_vars /\ Fairness

---------------------------------------------------------------------------
(* What a sweep over the addresses fails with is a timeout only if no       *)
(* address answered, and a refusal whenever one was given (conn.rs,         *)
(* connect_any).                                                            *)
ReasonKept ==
    told # "none" /\ seen # {} =>
      /\ told = "timeout" => seen = {"timeout"}
      /\ "rejected" \in seen => told = "rejected"

(* An outage is announced at most once, however many attempts to reconnect  *)
(* wake the task meanwhile (conn.rs, announce_outages).                     *)
OutageToldOnce == \A o \in Outage : warned[o] <= 1

(* An outage that has lasted its time, and goes on, is announced, whatever  *)
(* was announced before it (announce_outages).                              *)
OutageTold ==
    \A o \in Outage \ {0} :
      []<>~(o \in lapsed /\ state = [kind |-> "connecting", since |-> o] /\ warned[o] = 0)
===========================================================================
