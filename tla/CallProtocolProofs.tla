------------------------- MODULE CallProtocolProofs -------------------------
(***************************************************************************)
(* No change overtakes one whose outcome its caller does not know, and no  *)
(* request runs more often than it may, for any set of calls and any       *)
(* number of connections and handshakes.                                   *)
(***************************************************************************)
EXTENDS CallProtocol, FiniteSetTheorems, TLAPS

(* Most steps are first-order: Zenon tries each before the SMT solver does. *)
USE ZenonT(3), SMTT(10)

Answers  == {"none", "reply", "superseded", "ended", "unrun", "fenced"}
Statuses == {"idle", "waiting", "cancels", "sending", "reply", "replied", "failed", "gaveup"}

TypeOK ==
  /\ current \in Nat /\ gen \in Gen /\ up \in BOOLEAN
  /\ state \in [Exchange -> Server!State] /\ conn \in [Exchange -> Nat]
  /\ gaveUp \subseteq Exchange
  /\ epochOf \in [Gen -> Nat] /\ cancels \in [Gen -> Int]
  /\ wire \subseteq Exchange /\ reset \subseteq Exchange /\ pend \subseteq Exchange
  /\ ans \in [Exchange -> Answers]
  /\ status \in [Call -> Statuses]
  /\ on \in [Call -> Nat] /\ min_generation \in [Call -> Nat]
  /\ lost_once \in [Call -> BOOLEAN]
  /\ ran \subseteq Exchange /\ unknown \in [Call -> SUBSET Call]

-----------------------------------------------------------------------------
(* The wire and the server.                                                *)

(* A newer connection attached at a later epoch, none beyond the session's
   newest.                                                                 *)
EpochsGrow ==
  \A g \in Gen :
    g <= gen => /\ epochOf[g] <= current
                /\ \A h \in Gen : h < g => epochOf[h] < epochOf[g]

(* The request has been written whole: it is on the wire, or the server has
   read it, or has dropped its stream.                                     *)
Sent(x) == x \in wire \/ state[x] # "idle" \/ ans[x] # "none"

(* Where an exchange is at the server goes with what it has been answered. *)
ExchangeOK(x) ==
  /\ x \in wire => state[x] = "idle" /\ ans[x] = "none"
  /\ state[x] # "idle" => conn[x] = epochOf[x[2]]
  /\ x \in gaveUp => state[x] = "active"
  /\ ans[x] # "none" => state[x] \in {"idle", "over"} \/ x \in gaveUp
  /\ state[x] = "active" => x \in ran
  /\ x \in ran => state[x] \in {"active", "over"}
  /\ ans[x] = "reply" => state[x] = "over" /\ x \in ran

(* What runs is of no older connection than anything that ever ran.        *)
RunsInOrder ==
  \A x, y \in Exchange : state[x] = "active" /\ y \in ran => conn[y] <= conn[x]

-----------------------------------------------------------------------------
(* The client.                                                             *)

(* A call sends on newer and newer connections, once on each.              *)
CallOK(c) ==
  /\ on[c] <= gen
  /\ status[c] = "idle" => on[c] = 0
  /\ status[c] \in {"cancels", "sending", "reply", "replied"} => on[c] # 0
  /\ status[c] = "waiting" => on[c] = 0 \/ on[c] < min_generation[c]
  /\ status[c] = "replied" => ans[Now(c)] = "reply"

SentOnce(x) ==
  Sent(x) => /\ x[2] <= on[x[1]]
             /\ status[x[1]] \in {"cancels", "sending"} => x[2] < on[x[1]]

(* The end of an exchange that has been written and not heard of is being
   waited for: by its call, or by the cancel that its connection counts.   *)
Awaited(x) ==
  Sent(x) => \/ Heard(x) \/ x \in pend
             \/ x[2] = on[x[1]] /\ status[x[1]] = "reply"

PendOf(g) == {x \in pend : x[2] = g}

CancelsCounted ==
  /\ IsFiniteSet(pend)
  /\ \A x \in pend : status[x[1]] = "gaveup"
  /\ \A g \in Gen : cancels[g] = Cardinality(PendOf(g))

(* A connection that counts no cancel has none to wait for.                *)
NoneAwaited == \A g \in Gen : cancels[g] = 0 => PendOf(g) = {}

(* A call has been written at most once, or twice and only if it is resent. *)
SentOf(c)  == {x \in Exchange : x[1] = c /\ Sent(x)}
Unwritten  == {"idle", "waiting", "cancels", "sending"}

SendsBounded(c) ==
  \/ /\ ~lost_once[c]
     /\ SentOf(c) \subseteq IF status[c] \in Unwritten THEN {} ELSE {Now(c)}
  \/ /\ lost_once[c] /\ c \in Resendable
     /\ \E x \in Exchange :
          SentOf(c) \subseteq IF status[c] \in Unwritten THEN {x} ELSE {x, Now(c)}

-----------------------------------------------------------------------------
(* A call a, ended with no reply as b started, behind b.                   *)

(* The exchange y of b as it is, or is about to be, written.               *)
Going(y) == Sent(y) \/ (y[2] = on[y[1]] /\ status[y[1]] = "sending")

Behind(a, b) ==
  /\ a # b /\ status[a] \in {"gaveup", "failed"}
  /\ on[b] # 0 => on[a] <= on[b]
  /\ \A y \in Exchange : y[1] = b /\ Sent(y) => on[a] <= y[2]
  /\ \A x, y \in Exchange :
       x[1] = a /\ y[1] = b =>
         /\ x[2] = y[2] /\ Going(y) /\ Sent(x) => Heard(x)
         /\ x[2] = y[2] /\ Sent(y) /\ Sent(x) => ans[x] # "none"
         /\ x[2] = y[2] /\ state[y] = "clear" /\ conn[y] = current => state[x] # "active"
         /\ y \in ran => state[x] # "active"

IInv ==
  /\ TypeOK /\ EpochsGrow /\ RunsInOrder /\ CancelsCounted
  /\ \A x \in Exchange : ExchangeOK(x) /\ SentOnce(x) /\ Awaited(x)
  /\ \A c \in Call : CallOK(c) /\ SendsBounded(c)
  /\ \A b \in Call : \A a \in unknown[b] : Behind(a, b)

-----------------------------------------------------------------------------
(* Exchanges are pairs: two of one call on one connection are the same.    *)
LEMMA ExchangeFacts ==
  /\ \A x \in Exchange : x[1] \in Call /\ x[2] \in Gen
  /\ \A c \in Call, g \in Gen :
       <<c, g>> \in Exchange /\ <<c, g>>[1] = c /\ <<c, g>>[2] = g
  /\ \A x, y \in Exchange : x[1] = y[1] /\ x[2] = y[2] => x = y
  /\ \A g \in Gen : g \in Nat /\ 1 <= g
BY BoundsAreNat DEF Exchange, Gen, Call

(* What a call has taken is a connection.                                  *)
LEMMA NowIs ==
  ASSUME IInv, NEW c \in Call, on[c] # 0
  PROVE  on[c] \in Gen /\ Now(c) \in Exchange /\ Now(c)[1] = c /\ Now(c)[2] = on[c]
<1>1. on[c] \in Nat /\ on[c] <= gen /\ gen \in 1 .. MaxGen /\ MaxGen \in Nat
  BY BoundsAreNat DEF IInv, TypeOK, CallOK, Gen
<1>2. on[c] \in Gen
  BY <1>1 DEF Gen
<1> QED
  BY <1>2, ExchangeFacts DEF Now

(* Of two connections the one that attached at the later epoch is newer.   *)
LEMMA EpochOrder ==
  ASSUME IInv, NEW g \in Gen, NEW h \in Gen, g <= gen, h <= gen, epochOf[h] <= epochOf[g]
  PROVE  h <= g
BY ExchangeFacts DEF IInv, TypeOK, EpochsGrow

(* A call that writes nothing is bounded in its sends as it was.           *)
LEMMA BoundKept ==
  ASSUME NEW c \in Call, SendsBounded(c), SentOf(c)' = SentOf(c), lost_once'[c] = lost_once[c],
         status'[c] \in Unwritten => status[c] \in Unwritten,
         on'[c] = on[c] \/ status[c] \in Unwritten
  PROVE  SendsBounded(c)'
BY DEF SendsBounded, Now

(* A call stays behind another as long as neither goes on to send.         *)
LEMMA BehindKept ==
  ASSUME NEW a \in Call, NEW b \in Call, Behind(a, b),
         status'[a] = status[a], on'[a] = on[a], on'[b] = on[b],
         status'[b] = "sending" => status[b] = "sending",
         UNCHANGED <<ans, state, conn, current, ran>>,
         \A z \in Exchange :
           z[1] \in {a, b} => (Sent(z)' <=> Sent(z)) /\ (Heard(z)' <=> Heard(z))
  PROVE  Behind(a, b)'
<1>1. \A y \in Exchange : y[1] = b /\ Going(y)' => Going(y)
  BY DEF Going
<1> QED
  BY <1>1 DEF Behind

-----------------------------------------------------------------------------
(* A step of the server on one exchange.                                   *)
Served(x) ==
  \/ Run(x)
  \/ (Serves(x) \/ Finish(x, "reply")) /\ UNCHANGED <<calls, history>>

Unrelated(z) ==
  /\ state'[z] = state[z] /\ conn'[z] = conn[z] /\ ans'[z] = ans[z]
  /\ z \in wire' <=> z \in wire
  /\ z \in gaveUp' <=> z \in gaveUp
  /\ z \in ran' <=> z \in ran

(* What such a step may do to its exchange.                                *)
MayBegin(x) ==
  /\ state[x] = "clear" /\ conn[x] = current
  /\ \A z \in Exchange : state[z] = "active" => conn[z] = current

Moved(x) ==
  /\ Sent(x) /\ Sent(x)'
  /\ ans[x] # "none" => ans'[x] = ans[x]
  /\ state[x] # "idle" => conn'[x] = conn[x]
  /\ state'[x] = "active" => state[x] = "active" \/ MayBegin(x)
  /\ x \in ran' => x \in ran \/ MayBegin(x)
  /\ state'[x] = "clear" /\ conn'[x] = current => state[x] = "clear" \/ Server!InTheWay = {}
  /\ ExchangeOK(x)'

ServerKeeps == UNCHANGED <<current, gen, up, epochOf, reset, cancels, pend, status, on, min_generation,
                           lost_once, unknown>>

(* A step of the server leaves every exchange in a shape it can have.      *)
LEMMA ServedShape ==
  ASSUME IInv, NEW x \in Exchange, Served(x)
  PROVE  ServerKeeps /\ TypeOK' /\ Moved(x) /\ \A z \in Exchange : z # x => Unrelated(z)
<1> USE DEF ServerKeeps, wireVars, session, link, streams, pending, calls, taken, history
<1>0. TypeOK /\ ExchangeOK(x)
  BY DEF IInv
<1>k. x[2] \in Gen
  BY ExchangeFacts
<1>1. CASE Run(x)
  <2> USE DEF Run, Begin, Server!Begin, Server!Become, Server!Active
  <2>1. TypeOK' /\ ServerKeeps
    BY <1>0, <1>1 DEF TypeOK, Server!State
  <2>2. Moved(x)
    BY <1>0, <1>1 DEF TypeOK, Moved, MayBegin, Sent, ExchangeOK
  <2>3. \A z \in Exchange : z # x => Unrelated(z)
    BY <1>0, <1>1 DEF TypeOK, Unrelated
  <2> QED
    BY <2>1, <2>2, <2>3
<1>2. CASE Arrive(x) /\ UNCHANGED <<calls, history>>
  <2> USE DEF Arrive, Server!Arrive, Server!Become
  <2>1. TypeOK' /\ ServerKeeps
    BY <1>0, <1>2, <1>k DEF TypeOK, Server!State
  <2>2. Moved(x)
    BY <1>0, <1>2 DEF TypeOK, Moved, Sent, ExchangeOK
  <2>3. \A z \in Exchange : z # x => Unrelated(z)
    BY <1>0, <1>2 DEF TypeOK, Unrelated
  <2> QED
    BY <2>1, <2>2, <2>3
<1>3. CASE Undecoded(x) /\ UNCHANGED <<calls, history>>
  <2> USE DEF Undecoded, Answer
  <2>1. TypeOK' /\ ServerKeeps
    BY <1>0, <1>3 DEF TypeOK, Answers
  <2>2. Moved(x)
    BY <1>0, <1>3 DEF TypeOK, Moved, Sent, ExchangeOK
  <2>3. \A z \in Exchange : z # x => Unrelated(z)
    BY <1>0, <1>3 DEF TypeOK, Unrelated
  <2> QED
    BY <2>1, <2>2, <2>3
<1>4. CASE Clear(x) /\ UNCHANGED <<calls, history>>
  <2> USE DEF Clear, Server!Clear, Server!Become
  <2>1. TypeOK' /\ ServerKeeps
    BY <1>0, <1>4 DEF TypeOK, Server!State
  <2>2. Moved(x)
    BY <1>0, <1>4 DEF TypeOK, Moved, Sent, ExchangeOK
  <2>3. \A z \in Exchange : z # x => Unrelated(z)
    BY <1>0, <1>4 DEF TypeOK, Unrelated
  <2> QED
    BY <2>1, <2>2, <2>3
<1>5. ASSUME NEW with \in Answers \ {"reply"}, Refused(x, with), UNCHANGED <<calls, history>>
      PROVE  ServerKeeps /\ TypeOK' /\ Moved(x) /\ \A z \in Exchange : z # x => Unrelated(z)
  <2> USE DEF Refused, Answer, Server!Refuse, Server!Become
  <2>1. TypeOK' /\ ServerKeeps
    BY <1>0, <1>5 DEF TypeOK, Server!State
  <2>2. Moved(x)
    BY <1>0, <1>5 DEF TypeOK, Moved, Sent, ExchangeOK
  <2>3. \A z \in Exchange : z # x => Unrelated(z)
    BY <1>0, <1>5 DEF TypeOK, Unrelated
  <2> QED
    BY <2>1, <2>2, <2>3
<1>6. CASE Fenced(x) /\ UNCHANGED <<calls, history>>
  <2> USE DEF Fenced, Answer, Server!GiveUp, Server!Active
  <2>1. TypeOK' /\ ServerKeeps
    BY <1>0, <1>6 DEF TypeOK, Answers
  <2>2. Moved(x)
    BY <1>0, <1>6 DEF TypeOK, Moved, Sent, ExchangeOK
  <2>3. \A z \in Exchange : z # x => Unrelated(z)
    BY <1>0, <1>6 DEF TypeOK, Unrelated
  <2> QED
    BY <2>1, <2>2, <2>3
<1>7. CASE Finish(x, "reply") /\ UNCHANGED <<calls, history>>
  <2> USE DEF Finish, Answer, Server!Finish, Server!Become, Server!Active
  <2>1. TypeOK' /\ ServerKeeps
    BY <1>0, <1>7 DEF TypeOK, Server!State, Answers
  <2>2. Moved(x)
    BY <1>0, <1>7 DEF TypeOK, Moved, Sent, ExchangeOK
  <2>3. \A z \in Exchange : z # x => Unrelated(z)
    BY <1>0, <1>7 DEF TypeOK, Unrelated
  <2> QED
    BY <2>1, <2>2, <2>3
<1> QED
  BY <1>1, <1>2, <1>3, <1>4, <1>5, <1>6, <1>7
  DEF Served, Serves, Stops, Superseded, Cancelled, Dropped, Answers

(* A step of the server keeps IInv.                                        *)
LEMMA ServedIInv ==
  ASSUME IInv, NEW s \in Exchange, Served(s) PROVE IInv'
<1> USE ExchangeFacts
<1>0. /\ ServerKeeps /\ TypeOK /\ TypeOK' /\ Moved(s)
      /\ \A z \in Exchange : z # s => Unrelated(z)
      /\ \A z \in Exchange : ExchangeOK(z)
  BY ServedShape DEF IInv
<1>1. \A z \in Exchange : /\ Sent(z)' <=> Sent(z)
                          /\ Heard(z) => Heard(z)'
                          /\ ans[z] # "none" => ans'[z] = ans[z]
  BY ZenonT(20), <1>0 DEF Sent, Heard, Alive, Moved, Unrelated, ServerKeeps
<1>2. \A z \in Exchange : ExchangeOK(z)'
  BY <1>0 DEF Moved, Unrelated, ExchangeOK, ServerKeeps
<1>3. EpochsGrow' /\ CancelsCounted'
  BY <1>0 DEF IInv, EpochsGrow, CancelsCounted, PendOf, ServerKeeps
<1>4. \A z \in Exchange : z \in ran => conn'[z] = conn[z]
  BY <1>0 DEF Moved, Unrelated, ExchangeOK
<1>5. \A z \in Exchange : Sent(z) => z[2] <= gen /\ on[z[1]] <= gen
  BY DEF IInv, SentOnce, CallOK, TypeOK
<1>6. \A z \in Exchange : state[z] # "idle" => conn[z] = epochOf[z[2]] /\ conn[z] <= current
  BY ZenonT(20), <1>0, <1>5 DEF IInv, EpochsGrow, ExchangeOK, Sent
<1>7. RunsInOrder'
  <2> SUFFICES ASSUME NEW x \in Exchange, NEW y \in Exchange, state'[x] = "active", y \in ran'
               PROVE  conn'[y] <= conn'[x]
    BY DEF RunsInOrder
  <2>1. CASE state[x] = "active" /\ y \in ran
    BY <1>0, <1>4, <2>1 DEF IInv, RunsInOrder, ExchangeOK
  <2>2. CASE state[x] # "active"
    <3>1. x = s /\ conn'[x] = current
      BY <1>0, <2>2 DEF Moved, Unrelated, MayBegin
    <3>2. conn'[y] <= current
      BY <1>0, <1>4, <1>6, <3>1
      DEF Moved, Unrelated, MayBegin, ExchangeOK, ServerKeeps, TypeOK
    <3> QED
      BY <3>1, <3>2
  <2>3. CASE state[x] = "active" /\ y \notin ran
    <3>1. y = s /\ conn'[y] = current /\ MayBegin(s)
      BY <1>0, <2>3 DEF Moved, Unrelated, MayBegin
    <3>2. conn'[x] = current
      BY <1>0, <2>3, <3>1 DEF Unrelated, MayBegin, Moved
    <3> QED
      BY <1>0, <3>1, <3>2 DEF TypeOK
  <2> QED
    BY <2>1, <2>2, <2>3
<1>8. \A z \in Exchange : SentOnce(z)' /\ Awaited(z)'
  BY <1>0, <1>1 DEF IInv, SentOnce, Awaited, ServerKeeps
<1>9. \A c \in Call : CallOK(c)' /\ SendsBounded(c)'
  <2> SUFFICES ASSUME NEW c \in Call PROVE CallOK(c)' /\ SendsBounded(c)'
    OBVIOUS
  <2>1. SentOf(c)' = SentOf(c)
    BY <1>1 DEF SentOf
  <2>2. SendsBounded(c)'
    BY <1>0, <2>1, BoundKept DEF IInv, ServerKeeps
  <2>3. status[c] = "replied" => Now(c) \in Exchange
    BY <1>0, NowIs DEF IInv, CallOK
  <2>4. CallOK(c)'
    BY <1>0, <1>1, <2>3 DEF IInv, CallOK, ServerKeeps, Now
  <2> QED
    BY <2>2, <2>4
<1>10. ASSUME NEW b \in Call, NEW a \in unknown'[b] PROVE Behind(a, b)'
  <2>0. a \in Call /\ Behind(a, b) /\ a # b
    BY <1>0, <1>10 DEF IInv, ServerKeeps, TypeOK, Behind
  <2>1. /\ a # b /\ status'[a] \in {"gaveup", "failed"}
        /\ on'[b] # 0 => on'[a] <= on'[b]
        /\ \A y \in Exchange : y[1] = b /\ Sent(y)' => on'[a] <= y[2]
    BY <1>0, <1>1, <2>0 DEF Behind, ServerKeeps
  <2> SUFFICES ASSUME NEW x \in Exchange, NEW y \in Exchange, x[1] = a, y[1] = b
               PROVE  /\ x[2] = y[2] /\ Going(y)' /\ Sent(x)' => Heard(x)'
                      /\ x[2] = y[2] /\ Sent(y)' /\ Sent(x)' => ans'[x] # "none"
                      /\ x[2] = y[2] /\ state'[y] = "clear" /\ conn'[y] = current'
                         => state'[x] # "active"
                      /\ y \in ran' => state'[x] # "active"
    BY <2>1 DEF Behind
  <2>2. x[2] = y[2] /\ Going(y)' /\ Sent(x)' => Heard(x)'
    BY ZenonT(20), <1>0, <1>1, <2>0 DEF Behind, Going, ServerKeeps
  <2>3. x[2] = y[2] /\ Sent(y)' /\ Sent(x)' => ans'[x] # "none"
    BY <1>1, <2>0 DEF Behind
  (* Once b's exchange is written, a's on the same connection is answered,
     so it does not begin any more.                                        *)
  <2>4. x[2] = y[2] /\ Sent(y) /\ state'[x] = "active" =>
          state[x] = "active" /\ x \in gaveUp
    BY <1>0, <2>0 DEF Behind, Moved, MayBegin, Unrelated, ExchangeOK, Sent
  <2>5. ASSUME x[2] = y[2], state'[y] = "clear", conn'[y] = current'
        PROVE  state'[x] # "active"
    <3>1. x # y /\ Sent(y)
      BY <1>1, <2>0, <2>5 DEF Sent
    <3>2. CASE state[y] = "clear"
      BY <1>0, <2>0, <2>4, <2>5, <3>1, <3>2 DEF Behind, Moved, Unrelated, ServerKeeps
    <3>3. CASE state[y] # "clear"
      BY <1>0, <2>0, <2>4, <2>5, <3>1, <3>3
      DEF Moved, Unrelated, ServerKeeps, Server!InTheWay, Server!Active
    <3> QED
      BY <3>2, <3>3
  <2>6. ASSUME y \in ran', state'[x] = "active" PROVE FALSE
    <3>1. x # y
      BY <2>0
    <3>2. CASE y \in ran
      <4>1. state[x] # "active" /\ x = s /\ MayBegin(x)
        BY ZenonT(20), <1>0, <2>0, <2>6, <3>2 DEF Behind, Moved, Unrelated
      <4>2. y[2] <= x[2]
        <5>1. /\ state[x] # "idle" /\ state[y] # "idle" /\ conn[x] = current
              /\ x[2] \in Gen /\ y[2] \in Gen
          BY <1>0, <3>2, <4>1 DEF MayBegin, ExchangeOK
        <5>2. x[2] <= gen /\ y[2] <= gen /\ epochOf[y[2]] <= epochOf[x[2]]
          BY <1>5, <1>6, <5>1 DEF Sent
        <5> QED
          BY <5>1, <5>2, EpochOrder
      <4>3. x[2] <= on[a] /\ on[a] <= y[2]
        BY <1>0, <2>0, <3>2, <4>1 DEF MayBegin, ExchangeOK, Sent, IInv, SentOnce, Behind
      <4>4. x[2] = y[2] /\ Sent(y)
        <5>1. on[a] \in Nat /\ x[2] \in Nat /\ y[2] \in Nat
          BY <1>0, <2>0 DEF TypeOK
        <5> QED
          BY <1>0, <3>2, <4>2, <4>3, <5>1 DEF ExchangeOK, Sent
      <4> QED
        BY <2>4, <2>6, <4>1, <4>4
    <3>3. CASE y \notin ran
      <4>1. y = s /\ MayBegin(y) /\ state[x] = "active"
        BY ZenonT(20), <1>0, <2>6, <3>1, <3>3 DEF Moved, Unrelated
      <4>2. conn[x] = conn[y]
        BY <4>1 DEF MayBegin
      <4>3. x[2] = y[2]
        BY <1>5, <1>6, <4>1, <4>2 DEF MayBegin, Sent, IInv, EpochsGrow, TypeOK
      <4> QED
        BY <2>0, <4>1, <4>3 DEF Behind, MayBegin
    <3> QED
      BY <3>2, <3>3
  <2> QED
    BY <2>2, <2>3, <2>5, <2>6
<1> QED
  BY <1>0, <1>2, <1>3, <1>7, <1>8, <1>9, <1>10 DEF IInv

-----------------------------------------------------------------------------
(* A connection comes or goes, or a handshake is taken: what is under way
   stays, and what of it was current is not.                               *)
LEMMA LinkIInv ==
  ASSUME IInv, Link, UNCHANGED <<calls, history>> PROVE IInv'
<1> USE ExchangeFacts
<1> USE DEF session, link, streams, pending, calls, taken, history
<1>0. TypeOK /\ EpochsGrow /\ gen \in Nat /\ gen \in Gen
  BY DEF IInv, TypeOK
<1>1. /\ UNCHANGED <<state, conn, gaveUp, wire, reset, ans, cancels, pend, ran>>
      /\ UNCHANGED <<status, on, min_generation, lost_once, unknown>>
  BY DEF Link, Reconnect, Stray, Lose, Server!Resume
<1>2. /\ TypeOK' /\ EpochsGrow' /\ gen <= gen' /\ current <= current'
      /\ up' /\ gen' = gen => up
      /\ \A g \in Gen : g <= gen => epochOf'[g] = epochOf[g]
  <2>1. CASE Reconnect
    <3>1. /\ gen' = gen + 1 /\ gen + 1 \in Gen /\ current' = current + 1 /\ up' = TRUE
          /\ epochOf' = [epochOf EXCEPT ![gen + 1] = current + 1]
      BY <1>0, <2>1, BoundsAreNat DEF Reconnect, Attach, Server!Resume, Gen
    <3>2. TypeOK'
      BY <1>0, <1>1, <3>1 DEF TypeOK
    <3> QED
      BY <1>0, <3>1, <3>2 DEF TypeOK, EpochsGrow
  <2>2. CASE Stray
    <3>1. current' = current + 1 /\ UNCHANGED <<gen, up, epochOf>>
      BY <2>2 DEF Stray, Server!Resume
    <3> QED
      BY <1>0, <1>1, <3>1 DEF TypeOK, EpochsGrow
  <2>3. CASE Lose
    <3>1. up' = FALSE /\ UNCHANGED <<gen, current, epochOf>>
      BY <2>3 DEF Lose
    <3>2. TypeOK'
      BY ZenonT(20), <1>0, <1>1, <3>1 DEF TypeOK
    <3>3. EpochsGrow'
      BY <1>0, <3>1 DEF EpochsGrow
    <3> QED
      BY <1>0, <3>1, <3>2, <3>3 DEF TypeOK
  <2> QED
    BY <2>1, <2>2, <2>3 DEF Link
<1>3. \A z \in Exchange : /\ Sent(z)' <=> Sent(z)
                          /\ Sent(z) => z[2] <= gen
                          /\ Sent(z) /\ Heard(z) => Heard(z)'
  <2>1. \A z \in Exchange : /\ Sent(z)' <=> Sent(z)
                            /\ Sent(z) => z[2] <= gen
    BY <1>1 DEF Sent, IInv, SentOnce, CallOK, TypeOK
  <2> QED
    BY <1>0, <1>1, <1>2, <2>1 DEF Heard, Alive, TypeOK
<1>4. \A z \in Exchange : ExchangeOK(z)'
  BY <1>1, <1>2, <1>3 DEF IInv, ExchangeOK, Sent
<1>5. RunsInOrder' /\ CancelsCounted'
  BY <1>1 DEF IInv, RunsInOrder, CancelsCounted, PendOf
<1>6. \A z \in Exchange : SentOnce(z)' /\ Awaited(z)'
  BY <1>1, <1>3 DEF IInv, SentOnce, Awaited
<1>7. ASSUME NEW c \in Call PROVE CallOK(c)' /\ SendsBounded(c)'
  <2>1. SentOf(c)' = SentOf(c)
    BY <1>3 DEF SentOf
  <2>2. SendsBounded(c)'
    BY <1>1, <2>1, BoundKept DEF IInv
  <2>3. CallOK(c) /\ on[c] \in Nat /\ gen' \in Nat
    BY <1>0, <1>2 DEF IInv, TypeOK
  <2>4. on'[c] <= gen'
    BY <1>0, <1>1, <1>2, <2>3 DEF CallOK
  <2>5. CallOK(c)'
    BY <1>1, <2>3, <2>4 DEF CallOK, Now
  <2> QED
    BY <2>2, <2>5
<1>8. ASSUME NEW b \in Call, NEW a \in unknown'[b] PROVE Behind(a, b)'
  <2>1. Behind(a, b)
    BY <1>1, <1>8 DEF IInv
  <2>2. \A y \in Exchange : state[y] = "clear" /\ conn[y] = current' => conn[y] = current
    <3>1. \A y \in Exchange : state[y] = "clear" => conn[y] <= current /\ conn[y] \in Nat
      <4>1. \A y \in Exchange : state[y] = "clear" => y[2] <= gen /\ conn[y] = epochOf[y[2]]
        BY <1>3 DEF IInv, ExchangeOK, Sent
      <4>2. \A g \in Gen : g <= gen => epochOf[g] <= current /\ epochOf[g] \in Nat
        BY <1>0 DEF IInv, EpochsGrow, TypeOK
      <4> QED
        BY <4>1, <4>2
    <3> QED
      BY <1>0, <1>2, <3>1 DEF TypeOK
  <2> QED
    BY <1>1, <1>3, <2>1, <2>2 DEF Behind, Going
<1> QED
  BY <1>2, <1>4, <1>5, <1>6, <1>7, <1>8 DEF IInv

-----------------------------------------------------------------------------
(* Calls are told apart by what they have taken.                           *)
SameCall(d) ==
  /\ status'[d] = status[d] /\ on'[d] = on[d]
  /\ min_generation'[d] = min_generation[d] /\ lost_once'[d] = lost_once[d]
  /\ unknown'[d] = unknown[d]

(* A step of a call c that writes nothing and counts nothing keeps the
   invariant if it does for c's own exchanges, and if c takes no connection
   but the newest and sends only when no cancel is counted.                *)
LEMMA CallQuiet ==
  ASSUME IInv, NoneAwaited, NEW c \in Call, UNCHANGED wireVars, UNCHANGED ran, TypeOK',
         \A d \in Call \ {c} : SameCall(d),
         status[c] \notin {"gaveup", "failed"},
         \/ unknown'[c] = unknown[c]
         \/ unknown'[c] = Unknown /\ status[c] = "idle" /\ on'[c] = on[c],
         on'[c] \in {on[c], gen},
         status'[c] = "sending" =>
            on'[c] = on[c] /\ (status[c] = "sending" \/ (on[c] # 0 /\ cancels[on[c]] = 0)),
         CallOK(c)', SendsBounded(c)',
         \A z \in Exchange : z[1] = c => SentOnce(z)' /\ Awaited(z)'
  PROVE  IInv'
<1> USE ExchangeFacts
<1>0. TypeOK /\ UNCHANGED <<current, state, conn, gaveUp, gen, up, epochOf, wire, reset, ans>>
             /\ UNCHANGED <<cancels, pend, ran>>
  BY DEF IInv, wireVars, session, link, streams, pending
<1>1. \A z \in Exchange : (Sent(z)' <=> Sent(z)) /\ (Heard(z)' <=> Heard(z))
  BY <1>0 DEF Sent, Heard, Alive
<1>2. EpochsGrow' /\ RunsInOrder' /\ \A z \in Exchange : ExchangeOK(z)'
  BY <1>0 DEF IInv, EpochsGrow, RunsInOrder, ExchangeOK
<1>3. \A z \in Exchange : SentOnce(z)' /\ Awaited(z)'
  <2> SUFFICES ASSUME NEW z \in Exchange, z[1] # c PROVE SentOnce(z)' /\ Awaited(z)'
    OBVIOUS
  <2>1. SentOnce(z) /\ Awaited(z) /\ SameCall(z[1])
    BY DEF IInv
  <2> QED
    BY <1>0, <1>1, <2>1 DEF SentOnce, Awaited, SameCall
<1>4. CancelsCounted'
  BY <1>0 DEF IInv, TypeOK, CancelsCounted, PendOf, SameCall
<1>5. ASSUME NEW d \in Call, d # c PROVE CallOK(d)' /\ SendsBounded(d)'
  <2>1. SentOf(d)' = SentOf(d)
    BY <1>1 DEF SentOf
  <2>2. SendsBounded(d)'
    BY <1>5, <2>1, BoundKept DEF IInv, SameCall
  <2>3. CallOK(d)
    BY DEF IInv
  <2>4. CallOK(d)'
    BY <1>0, <1>5, <2>3 DEF CallOK, SameCall, Now
  <2> QED
    BY <2>2, <2>4
<1>6. ASSUME NEW b \in Call, NEW a \in unknown'[b], a \in unknown[b] PROVE Behind(a, b)'
  <2>0. a \in Call /\ Behind(a, b)
    BY <1>0, <1>6 DEF IInv, TypeOK
  <2>1. a \in Call /\ a # c /\ Behind(a, b)
    BY <2>0 DEF Behind
  <2>2. b # c => Behind(a, b)'
    BY ZenonT(20), <1>0, <1>1, <2>1, BehindKept DEF SameCall
  <2>3. ASSUME b = c PROVE Behind(a, b)'
    <3>1. on'[b] # 0 => on'[a] <= on'[b]
      <4>1. on[a] <= gen /\ (on[b] # 0 => on[a] <= on[b])
        BY <2>1 DEF IInv, CallOK, Behind
      <4> QED
        BY <2>1, <2>3, <4>1 DEF SameCall
    <3>2. ASSUME NEW x \in Exchange, NEW y \in Exchange, x[1] = a, y[1] = b, x[2] = y[2],
                 Going(y)', Sent(x)'
          PROVE  Heard(x)'
      <4>1. CASE Going(y)
        BY <1>1, <2>1, <3>2, <4>1 DEF Behind
      <4>2. CASE ~Going(y)
        <5>1. x[2] = on[b] /\ on[b] \in Gen /\ cancels[on[b]] = 0
          BY <1>1, <2>3, <3>2, <4>2, NowIs DEF Going
        <5>2. PendOf(x[2]) = {}
          BY <5>1 DEF NoneAwaited
        <5>3. x \notin pend /\ Awaited(x) /\ status[a] # "reply"
          BY <2>1, <5>2 DEF PendOf, IInv, Behind
        <5> QED
          BY <1>1, <3>2, <5>3 DEF Awaited
      <4> QED
        BY <4>1, <4>2
    <3> QED
      BY ZenonT(20), <1>0, <1>1, <2>1, <2>3, <3>1, <3>2 DEF Behind, SameCall
  <2> QED
    BY <2>2, <2>3
<1>7. ASSUME NEW b \in Call, NEW a \in unknown'[b], a \notin unknown[b] PROVE Behind(a, b)'
  <2>1. b = c /\ a \in Unknown /\ on[b] = 0 /\ on'[b] = 0 /\ status[b] = "idle"
    BY <1>7 DEF SameCall, IInv, CallOK
  <2>2. a \in Call /\ a # b /\ status'[a] \in {"gaveup", "failed"}
    BY <2>1 DEF Unknown, SameCall
  <2>3. \A y \in Exchange : y[1] = b => ~Sent(y)
    BY <2>1 DEF IInv, SentOnce
  <2>4. \A y \in Exchange : y[1] = b => ~Sent(y)' /\ ~Going(y)' /\ y \notin ran' /\ state'[y] # "clear"
    BY <1>0, <1>1, <2>1, <2>3 DEF Going, IInv, ExchangeOK, Sent
  <2> QED
    BY ZenonT(20), <2>1, <2>2, <2>4 DEF Behind
<1> QED
  BY <1>2, <1>3, <1>4, <1>5, <1>6, <1>7 DEF IInv

(* What holds of a call and its exchanges.                                 *)
OfCall(c) ==
  /\ TypeOK /\ CallOK(c) /\ SendsBounded(c)
  /\ \A z \in Exchange : z[1] = c => SentOnce(z) /\ Awaited(z)
  /\ on[c] \in Nat /\ gen \in Nat /\ min_generation[c] \in Nat

(* The invariant, of one call.                                             *)
LEMMA CallFacts == ASSUME IInv, NEW c \in Call PROVE OfCall(c)
BY ExchangeFacts DEF IInv, TypeOK, OfCall

(* A step that leaves the wire alone leaves what is written and heard.     *)
LEMMA WireKept ==
  ASSUME NEW c \in Call, UNCHANGED wireVars
  PROVE  /\ SentOf(c)' = SentOf(c)
         /\ \A z \in Exchange : (Sent(z)' <=> Sent(z)) /\ (Heard(z)' <=> Heard(z))
BY DEF SentOf, Sent, Heard, Alive, wireVars, session, link, streams

(* A call starts.                                                          *)
LEMMA StartIInv ==
  ASSUME IInv, NoneAwaited, NEW c \in Call, Start(c) PROVE IInv'
<1> USE DEF calls, taken, history, OfCall
<1> USE ExchangeFacts
<1>0. OfCall(c)
  BY CallFacts
<1>1. TypeOK' /\ \A d \in Call \ {c} : SameCall(d)
  BY <1>0 DEF Start, Become, Unknown, TypeOK, Statuses, SameCall,
                    wireVars, session, link, streams, pending
<1>2. /\ UNCHANGED <<wireVars, ran, on, min_generation, lost_once>>
      /\ status[c] = "idle" /\ status'[c] = "waiting" /\ unknown'[c] = Unknown
  BY <1>0 DEF Start, Become, TypeOK
<1>3. CallOK(c)' /\ SendsBounded(c)'
  <2>1. CallOK(c)'
    BY <1>0, <1>2 DEF CallOK, wireVars, link
  <2>2. SendsBounded(c)'
    BY <1>0, <1>2, WireKept, BoundKept DEF Unwritten
  <2> QED
    BY <2>1, <2>2
<1>4. \A z \in Exchange : z[1] = c => SentOnce(z)' /\ Awaited(z)'
  BY <1>0, WireKept, <1>2 DEF SentOnce, Awaited, wireVars, pending
<1> QED
  BY <1>1, <1>2, <1>3, <1>4, CallQuiet

(* It takes the newest connection.                                         *)
LEMMA TakeIInv ==
  ASSUME IInv, NoneAwaited, NEW c \in Call, Take(c) PROVE IInv'
<1> USE DEF calls, taken, history, OfCall
<1> USE ExchangeFacts
<1>0. OfCall(c)
  BY CallFacts
<1>1. TypeOK' /\ \A d \in Call \ {c} : SameCall(d)
  BY <1>0 DEF Take, Become, TypeOK, Statuses, SameCall,
                    wireVars, session, link, streams, pending
<1>2. /\ UNCHANGED <<wireVars, ran, min_generation, lost_once, unknown>>
      /\ status[c] = "waiting" /\ status'[c] = "cancels" /\ on'[c] = gen
      /\ min_generation[c] <= gen
  BY <1>0 DEF Take, Become, TypeOK
<1>3. gen # 0 /\ on[c] < gen
  BY <1>0, <1>2 DEF TypeOK, CallOK
<1>4. CallOK(c)' /\ SendsBounded(c)'
  <2>1. CallOK(c)'
    BY <1>0, <1>2, <1>3 DEF CallOK, wireVars, link
  <2>2. SendsBounded(c)'
    BY <1>0, <1>2, <1>3, WireKept, BoundKept DEF Unwritten
  <2> QED
    BY <2>1, <2>2
<1>5. \A z \in Exchange : z[1] = c => SentOnce(z)' /\ Awaited(z)'
  BY <1>0, WireKept, <1>2, <1>3 DEF SentOnce, Awaited, wireVars, pending
<1> QED
  BY <1>1, <1>2, <1>4, <1>5, CallQuiet

(* It goes on to send, no cancel of the connection being awaited.          *)
LEMMA SendIInv ==
  ASSUME IInv, NoneAwaited, NEW c \in Call, Send(c) PROVE IInv'
<1> USE DEF calls, taken, history, OfCall
<1> USE ExchangeFacts
<1>0. OfCall(c)
  BY CallFacts
<1>1. TypeOK' /\ \A d \in Call \ {c} : SameCall(d)
  BY <1>0 DEF Send, Become, TypeOK, Statuses, SameCall,
                    wireVars, session, link, streams, pending
<1>2. /\ UNCHANGED <<wireVars, ran, on, min_generation, lost_once, unknown>>
      /\ status[c] = "cancels" /\ status'[c] = "sending" /\ cancels[on[c]] = 0
  BY <1>0 DEF Send, Sendable, Become, TypeOK
<1>3. CallOK(c)' /\ SendsBounded(c)' /\ on[c] # 0
  <2>1. CallOK(c)' /\ on[c] # 0
    BY <1>0, <1>2 DEF CallOK, wireVars, link
  <2>2. SendsBounded(c)'
    BY <1>0, <1>2, WireKept, BoundKept DEF Unwritten
  <2> QED
    BY <2>1, <2>2
<1>4. \A z \in Exchange : z[1] = c => SentOnce(z)' /\ Awaited(z)'
  BY <1>0, WireKept, <1>2 DEF SentOnce, Awaited, wireVars, pending
<1> QED
  BY <1>1, <1>2, <1>3, <1>4, CallQuiet

(* It could not write the request whole.                                   *)
LEMMA NotSentIInv ==
  ASSUME IInv, NoneAwaited, NEW c \in Call, NotSent(c) PROVE IInv'
<1> USE DEF calls, taken, history, OfCall
<1> USE ExchangeFacts
<1>0. OfCall(c)
  BY CallFacts
<1>1. TypeOK' /\ \A d \in Call \ {c} : SameCall(d)
  BY <1>0 DEF NotSent, Again, Become, TypeOK, Statuses, SameCall,
                    wireVars, session, link, streams, pending
<1>2. /\ UNCHANGED <<wireVars, ran, on, lost_once, unknown>>
      /\ status[c] = "sending" /\ status'[c] = "waiting" /\ min_generation'[c] = on[c] + 1
  BY <1>0 DEF NotSent, Again, Become, TypeOK
<1>3. CallOK(c)' /\ SendsBounded(c)'
  <2>1. CallOK(c)'
    BY <1>0, <1>2 DEF CallOK, wireVars, link
  <2>2. SendsBounded(c)'
    BY <1>0, <1>2, WireKept, BoundKept DEF Unwritten
  <2> QED
    BY <2>1, <2>2
<1>4. \A z \in Exchange : z[1] = c => SentOnce(z)' /\ Awaited(z)'
  BY <1>0, WireKept, <1>2 DEF SentOnce, Awaited, wireVars, pending
<1> QED
  BY <1>1, <1>2, <1>3, <1>4, CallQuiet

(* The connection went before the reply came.                              *)
LEMMA LostIInv ==
  ASSUME IInv, NoneAwaited, NEW c \in Call, Lost(c) PROVE IInv'
<1> USE DEF calls, taken, history, OfCall
<1> USE ExchangeFacts
<1>0. OfCall(c)
  BY CallFacts
<1>1. /\ UNCHANGED <<wireVars, ran, on, unknown>>
      /\ status[c] = "reply" /\ ReplyLost(Now(c))
  BY DEF Lost
<1>2. Heard(Now(c)) /\ on[c] # 0 /\ Now(c) \in Exchange /\ Now(c)[1] = c /\ Now(c)[2] = on[c]
  BY <1>0, <1>1, NowIs DEF ReplyLost, Heard, CallOK
<1>3. \A z \in Exchange : z[1] = c /\ z[2] = on[c] => Heard(z)
  BY <1>2
<1>4. CASE Resends(c) /\ Again(c) /\ lost_once' = [lost_once EXCEPT ![c] = TRUE]
  <2>1. TypeOK' /\ \A d \in Call \ {c} : SameCall(d)
    BY <1>0, <1>1, <1>4 DEF Again, Become, TypeOK, Statuses, SameCall,
                    wireVars, session, link, streams, pending
  <2>2. /\ status'[c] = "waiting" /\ min_generation'[c] = on[c] + 1 /\ lost_once'[c]
        /\ ~lost_once[c] /\ c \in Resendable
    BY ZenonT(20), <1>0, <1>4 DEF Again, Become, Resends, TypeOK
  <2>3. CallOK(c)'
    BY <1>0, <1>1, <2>2 DEF CallOK, wireVars, link
  <2>4. SendsBounded(c)'
    <3>1. SentOf(c)' \subseteq {Now(c)}
      BY <1>0, WireKept, <1>1, <2>2 DEF SendsBounded, Unwritten
    <3> QED
      BY <1>2, <2>2, <3>1 DEF SendsBounded, Unwritten
  <2>5. \A z \in Exchange : z[1] = c => SentOnce(z)' /\ Awaited(z)'
    BY ZenonT(20), <1>0, WireKept, <1>1, <1>3, <2>2 DEF SentOnce, Awaited, wireVars, pending
  <2> QED
    BY <1>1, <2>1, <2>2, <2>3, <2>4, <2>5, CallQuiet
<1>5. CASE ~Resends(c) /\ Become(c, "failed") /\ UNCHANGED <<min_generation, lost_once>>
  <2>1. TypeOK' /\ \A d \in Call \ {c} : SameCall(d)
    BY <1>0, <1>1, <1>5 DEF Become, TypeOK, Statuses, SameCall,
                    wireVars, session, link, streams, pending
  <2>2. status'[c] = "failed"
    BY ZenonT(20), <1>0, <1>5 DEF Become, TypeOK
  <2>3. CallOK(c)' /\ SendsBounded(c)'
    <3>1. CallOK(c)'
      BY <1>0, <1>1, <2>2 DEF CallOK, Now, wireVars, link
    <3>2. SendsBounded(c)'
      BY <1>0, <1>1, <1>5, <2>2, WireKept, BoundKept DEF Unwritten
    <3> QED
      BY <3>1, <3>2
  <2>4. \A z \in Exchange : z[1] = c => SentOnce(z)' /\ Awaited(z)'
    BY <1>0, WireKept, <1>1, <1>3, <2>2 DEF SentOnce, Awaited, wireVars, pending
  <2> QED
    BY <1>1, <2>1, <2>2, <2>3, <2>4, CallQuiet
<1> QED
  BY <1>4, <1>5 DEF Lost

(* It has the reply.                                                       *)
LEMMA RepliedIInv ==
  ASSUME IInv, NoneAwaited, NEW c \in Call, Replied(c) PROVE IInv'
<1> USE DEF calls, taken, history, OfCall
<1> USE ExchangeFacts
<1>0. OfCall(c)
  BY CallFacts
<1>1. TypeOK' /\ \A d \in Call \ {c} : SameCall(d)
  BY ZenonT(20), <1>0 DEF Replied, Become, TypeOK, Statuses, SameCall,
                    wireVars, session, link, streams, pending
<1>2. /\ UNCHANGED <<wireVars, ran, on, min_generation, lost_once, unknown>>
      /\ status[c] = "reply" /\ status'[c] = "replied" /\ ans[Now(c)] = "reply"
  BY <1>0 DEF Replied, Become, TypeOK
<1>3. CallOK(c)' /\ SendsBounded(c)'
  <2>1. CallOK(c)'
    BY <1>0, <1>2 DEF CallOK, Now, wireVars, link, streams
  <2>2. SendsBounded(c)'
    BY <1>0, <1>2, WireKept, BoundKept DEF Unwritten
  <2> QED
    BY <2>1, <2>2
<1>4. \A z \in Exchange : z[1] = c /\ z[2] = on[c] => Heard(z)
  <2>1. Now(c) \in Exchange /\ Now(c)[1] = c /\ Now(c)[2] = on[c]
    BY <1>0, <1>2, NowIs DEF CallOK
  <2> QED
    BY <1>2, <2>1 DEF Heard
<1>5. \A z \in Exchange : z[1] = c => SentOnce(z)' /\ Awaited(z)'
  BY <1>0, WireKept, <1>2, <1>4 DEF SentOnce, Awaited, wireVars, pending
<1> QED
  BY <1>1, <1>2, <1>3, <1>5, CallQuiet

(* Its caller gives up on it, and it has written nothing.                  *)
LEMMA GaveUpUnsentIInv ==
  ASSUME IInv, NoneAwaited, NEW c \in Call, GaveUpUnsent(c) PROVE IInv'
<1> USE DEF calls, taken, history, OfCall
<1> USE ExchangeFacts
<1>0. OfCall(c)
  BY CallFacts
<1>1. TypeOK' /\ \A d \in Call \ {c} : SameCall(d)
  BY <1>0 DEF GaveUpUnsent, Become, TypeOK, Statuses, SameCall,
                    wireVars, session, link, streams, pending
<1>2. /\ UNCHANGED <<wireVars, ran, on, min_generation, lost_once, unknown>>
      /\ status[c] \in {"waiting", "cancels", "sending"} /\ status'[c] = "gaveup"
  BY <1>0 DEF GaveUpUnsent, Become, TypeOK
<1>3. CallOK(c)' /\ SendsBounded(c)'
  <2>1. CallOK(c)'
    BY <1>0, <1>2 DEF CallOK, Now, wireVars, link
  <2>2. SendsBounded(c)'
    BY <1>0, <1>2, WireKept, BoundKept DEF Unwritten
  <2> QED
    BY <2>1, <2>2
<1>4. \A z \in Exchange : z[1] = c => SentOnce(z)' /\ Awaited(z)'
  BY <1>0, WireKept, <1>2 DEF SentOnce, Awaited, wireVars, pending
<1> QED
  BY <1>1, <1>2, <1>3, <1>4, CallQuiet

(* It has written its request.                                             *)
LEMMA WrittenIInv ==
  ASSUME IInv, NEW c \in Call, Written(c) PROVE IInv'
<1> USE DEF calls, taken, history, OfCall
<1> USE ExchangeFacts
<1>0. OfCall(c)
  BY CallFacts
<1> DEFINE x == Now(c)
<1>1. /\ status[c] = "sending" /\ status'[c] = "reply" /\ Alive(x[2])
      /\ wire' = wire \cup {x}
      /\ UNCHANGED <<current, state, conn, gaveUp, gen, up, epochOf, reset, ans, cancels, pend>>
      /\ UNCHANGED <<on, min_generation, lost_once, ran, unknown>>
      /\ \A d \in Call \ {c} : SameCall(d)
  BY <1>0 DEF Written, Write, Become, SameCall, TypeOK, session, link, pending
<1>2. x \in Exchange /\ x[1] = c /\ x[2] = on[c] /\ on[c] # 0
  BY <1>0, <1>1, NowIs DEF CallOK
<1>3. ~Sent(x)
  BY <1>0, <1>1, <1>2 DEF SentOnce
<1>a. x = Now(c)
  OBVIOUS
<1> HIDE DEF x
<1>4. TypeOK'
  <2>1. status' \in [Call -> Statuses]
    BY <1>0 DEF Written, Become, TypeOK, Statuses
  <2> QED
    BY <1>0, <1>1, <1>2, <2>1 DEF TypeOK
<1>5. /\ \A z \in Exchange : /\ Sent(z)' <=> (Sent(z) \/ z = x)
                             /\ Heard(z)' <=> Heard(z)
      /\ SentOf(c)' = SentOf(c) \cup {x}
      /\ \A d \in Call \ {c} : SentOf(d)' = SentOf(d)
  <2>1. \A z \in Exchange : /\ Sent(z)' <=> (Sent(z) \/ z = x)
                            /\ Heard(z)' <=> Heard(z)
    BY <1>1, <1>2 DEF Sent, Heard, Alive
  <2> QED
    BY <1>2, <2>1 DEF SentOf
<1>6. EpochsGrow' /\ RunsInOrder' /\ \A z \in Exchange : ExchangeOK(z)'
  BY <1>1, <1>3 DEF IInv, EpochsGrow, RunsInOrder, ExchangeOK, Sent
<1>7. CancelsCounted'
  BY ZenonT(20), <1>0, <1>1 DEF IInv, TypeOK, CancelsCounted, PendOf, SameCall
<1>8. ASSUME NEW z \in Exchange PROVE SentOnce(z)' /\ Awaited(z)'
  <2>1. CASE z = x
    BY <1>0, <1>1, <1>2, <1>5, <2>1 DEF SentOnce, Awaited
  <2>2. CASE z # x /\ z[1] = c
    BY <1>0, <1>1, <1>5, <2>2 DEF SentOnce, Awaited
  <2>3. CASE z[1] # c
    <3>1. SentOnce(z) /\ Awaited(z)
      BY DEF IInv
    <3> QED
      BY <1>1, <1>2, <1>5, <2>3, <3>1 DEF SentOnce, Awaited, SameCall
  <2> QED
    BY <2>1, <2>2, <2>3
<1>9. ASSUME NEW d \in Call PROVE CallOK(d)' /\ SendsBounded(d)'
  <2>1. CASE d = c
    <3>1. CallOK(c)'
      BY <1>0, <1>1 DEF CallOK
    <3>2. SendsBounded(c)'
      BY <1>0, <1>1, <1>5, <1>a DEF SendsBounded, Unwritten, Now
    <3> QED
      BY <2>1, <3>1, <3>2
  <2>2. CASE d # c
    <3>0. CallOK(d) /\ SameCall(d) /\ UNCHANGED <<gen, ans>>
      BY <1>1, <2>2 DEF IInv
    <3>1. CallOK(d)'
      BY <3>0 DEF CallOK, SameCall, Now
    <3>2. SendsBounded(d)'
      BY <1>1, <1>5, <2>2, BoundKept DEF IInv, SameCall
    <3> QED
      BY <3>1, <3>2
  <2> QED
    BY <2>1, <2>2
<1>10. ASSUME NEW b \in Call, NEW a \in unknown'[b] PROVE Behind(a, b)'
  <2>0. a \in Call /\ Behind(a, b)
    BY <1>0, <1>1, <1>10 DEF IInv, TypeOK
  <2>1. a \in Call /\ Behind(a, b) /\ a # c
    BY <1>1, <2>0 DEF Behind
  <2>2. CASE b # c
    <3>1. SameCall(a) /\ SameCall(b) /\ UNCHANGED <<ans, state, conn, current, ran>>
      BY <1>1, <2>1, <2>2
    <3>2. \A z \in Exchange :
            z[1] \in {a, b} => (Sent(z)' <=> Sent(z)) /\ (Heard(z)' <=> Heard(z))
      BY <1>2, <1>5, <2>1, <2>2
    <3> QED
      BY <2>1, <3>1, <3>2, BehindKept DEF SameCall
  <2>3. CASE b = c
    <3>1. \A z \in Exchange : z[1] = a => (Sent(z)' <=> Sent(z))
      BY <1>2, <1>5, <2>1
    <3>2. \A z \in Exchange : z[1] = a /\ z[2] = x[2] /\ Sent(z) => Heard(z) /\ ans[z] # "none"
      BY <1>1, <1>2, <2>1, <2>3 DEF Behind, Going, Heard
    <3>3. \A y \in Exchange : y[1] = b /\ Sent(y)' => on[a] <= y[2]
      BY <1>2, <1>5, <2>1, <2>3 DEF Behind
    <3> QED
      BY <1>1, <1>5, <2>1, <2>3, <3>1, <3>2, <3>3 DEF Behind, Going, SameCall
  <2> QED
    BY <2>2, <2>3
<1> QED
  BY <1>4, <1>6, <1>7, <1>8, <1>9, <1>10 DEF IInv

(* Its caller gives up on it, and a cancel waits for what it has written.  *)
LEMMA GaveUpSentIInv ==
  ASSUME IInv, NEW c \in Call, GaveUpSent(c), CancelsCounted' PROVE IInv'
<1> USE DEF calls, taken, history, OfCall
<1> USE ExchangeFacts
<1>0. OfCall(c)
  BY CallFacts
<1> DEFINE x == Now(c)
<1>1. /\ status[c] = "reply" /\ status'[c] = "gaveup"
      /\ cancels' = [cancels EXCEPT ![x[2]] = @ + 1]
      /\ pend' = pend \cup {x} /\ reset' = reset \cup {x}
      /\ UNCHANGED <<current, state, conn, gaveUp, gen, up, epochOf, wire, ans>>
      /\ UNCHANGED <<on, min_generation, lost_once, ran, unknown>>
      /\ \A d \in Call \ {c} : SameCall(d)
  BY <1>0 DEF GaveUpSent, CountGiveUp, Become, SameCall, TypeOK, session, link
<1>2. x \in Exchange /\ x[1] = c /\ x[2] = on[c] /\ on[c] \in Gen
  BY <1>0, <1>1, NowIs DEF CallOK
<1> HIDE DEF x
<1>4. TypeOK'
  <2>1. status' \in [Call -> Statuses]
    BY <1>0 DEF GaveUpSent, Become, TypeOK, Statuses
  <2> QED
    BY <1>0, <1>1, <1>2, <2>1 DEF TypeOK
<1>5. \A z \in Exchange : (Sent(z)' <=> Sent(z)) /\ (Heard(z)' <=> Heard(z))
  BY <1>1 DEF Sent, Heard, Alive
<1>6. EpochsGrow' /\ RunsInOrder' /\ \A z \in Exchange : ExchangeOK(z)'
  BY <1>1 DEF IInv, EpochsGrow, RunsInOrder, ExchangeOK
<1>7. CancelsCounted'
  OBVIOUS
<1>8. ASSUME NEW z \in Exchange PROVE SentOnce(z)' /\ Awaited(z)'
  <2>1. CASE z[1] = c
    BY <1>0, <1>1, <1>2, <1>5, <2>1 DEF SentOnce, Awaited
  <2>2. CASE z[1] # c
    BY ZenonT(20), <1>1, <1>5, <2>2 DEF IInv, SentOnce, Awaited, SameCall
  <2> QED
    BY <2>1, <2>2
<1>9. ASSUME NEW d \in Call PROVE CallOK(d)' /\ SendsBounded(d)'
  <2>1. SentOf(d)' = SentOf(d)
    BY <1>5 DEF SentOf
  <2>2. CASE d = c
    <3>1. CallOK(c)'
      BY <1>0, <1>1 DEF CallOK, Now
    <3>2. SendsBounded(c)'
      BY <1>0, <1>1, <2>1, <2>2, BoundKept DEF Unwritten
    <3> QED
      BY <2>2, <3>1, <3>2
  <2>3. CASE d # c
    <3>0. CallOK(d) /\ SameCall(d) /\ UNCHANGED <<gen, ans>>
      BY <1>1, <2>3 DEF IInv
    <3>1. CallOK(d)'
      BY <3>0 DEF CallOK, SameCall, Now
    <3>2. SendsBounded(d)'
      BY <1>1, <2>1, <2>3, BoundKept DEF IInv, SameCall
    <3> QED
      BY <3>1, <3>2
  <2> QED
    BY <2>2, <2>3
<1>10. ASSUME NEW b \in Call, NEW a \in unknown'[b] PROVE Behind(a, b)'
  <2>0. a \in Call /\ Behind(a, b)
    BY <1>0, <1>1, <1>10 DEF IInv, TypeOK
  <2>1. a \in Call /\ Behind(a, b) /\ a # c
    BY <1>1, <2>0 DEF Behind
  <2>2. \A y \in Exchange : y[1] = b /\ Going(y)' => Going(y)
    BY <1>1, <1>5 DEF Going, SameCall
  <2>3. on'[a] = on[a] /\ status'[a] = status[a]
    BY <1>1, <2>1 DEF SameCall
  <2> QED
    BY <1>1, <1>5, <2>1, <2>2, <2>3 DEF Behind
<1> QED
  BY <1>4, <1>6, <1>7, <1>8, <1>9, <1>10 DEF IInv

(* One step per action of a call.                                          *)
LEMMA CallStepIInv ==
  ASSUME IInv, NoneAwaited, NEW c \in Call, CallStep(c), GaveUpSent(c) => CancelsCounted'
  PROVE  IInv'
BY StartIInv, TakeIInv, SendIInv, WrittenIInv, NotSentIInv, LostIInv, RepliedIInv,
   GaveUpUnsentIInv, GaveUpSentIInv DEF CallStep

(* No exchange, and nothing of a call, is there at first.                  *)
LEMMA InitIInv == ASSUME Init PROVE IInv
<1> USE DEF Init, WireInit, Server!Init
<1>1. TypeOK
  BY BoundsAreNat DEF TypeOK, Gen, Server!State, Answers, Statuses
<1>2. EpochsGrow
  BY <1>1, ExchangeFacts DEF EpochsGrow, TypeOK
<1>3. CancelsCounted
  <2>1. \A g \in Gen : PendOf(g) = {}
    BY DEF PendOf
  <2> QED
    BY <2>1, FS_EmptySet DEF CancelsCounted
<1>4. \A x \in Exchange : ~Sent(x)
  BY DEF Sent
<1>5. RunsInOrder /\ \A x \in Exchange : ExchangeOK(x) /\ SentOnce(x) /\ Awaited(x)
  BY <1>4 DEF RunsInOrder, ExchangeOK, SentOnce, Awaited
<1>6. \A c \in Call : CallOK(c) /\ SendsBounded(c)
  BY <1>4 DEF CallOK, SendsBounded, SentOf
<1> QED
  BY <1>1, <1>2, <1>3, <1>5, <1>6 DEF IInv

(* A cancel's answer is heard: the count goes down by the one that was
   waited for.                                                             *)
LEMMA CancelIInv ==
  ASSUME IInv, NEW x \in Exchange, CancelAnswered(x), UNCHANGED <<calls, history>> PROVE IInv'
<1> USE ExchangeFacts
<1> USE DEF session, link, streams, calls, taken, history, CancelAnswered
<1>0. TypeOK /\ TypeOK'
  BY DEF IInv, TypeOK
<1>1. \A z \in Exchange : (Sent(z)' <=> Sent(z)) /\ (Heard(z)' <=> Heard(z))
  BY DEF Sent, Heard, Alive
<1>2. /\ EpochsGrow' /\ RunsInOrder'
      /\ \A z \in Exchange : ExchangeOK(z)' /\ SentOnce(z)' /\ Awaited(z)'
  <2>1. EpochsGrow' /\ RunsInOrder' /\ \A z \in Exchange : ExchangeOK(z)'
    BY DEF IInv, EpochsGrow, RunsInOrder, ExchangeOK
  <2>2. \A z \in Exchange : SentOnce(z)'
    BY <1>1 DEF IInv, SentOnce
  <2>3. \A z \in Exchange : Awaited(z)'
    BY ZenonT(20), <1>1 DEF IInv, Awaited
  <2> QED
    BY <2>1, <2>2, <2>3
<1>3. CancelsCounted'
  <2>1. IsFiniteSet(pend') /\ \A z \in pend' : status'[z[1]] = "gaveup"
    BY FS_RemoveElement DEF IInv, CancelsCounted
  <2>2. ASSUME NEW g \in Gen PROVE cancels'[g] = Cardinality(PendOf(g)')
    <3>1. IsFiniteSet(PendOf(g)) /\ cancels[g] = Cardinality(PendOf(g))
      BY FS_Subset DEF IInv, CancelsCounted, PendOf
    <3>2. CASE g = x[2]
      <4>1. PendOf(g)' = PendOf(g) \ {x} /\ x \in PendOf(g)
        BY <3>2 DEF PendOf
      <4> QED
        <5>1. Cardinality(PendOf(g) \ {x}) = Cardinality(PendOf(g)) - 1
          BY <3>1, <4>1, FS_RemoveElement
        <5>2. cancels'[g] = cancels[g] - 1
          BY <1>0, <3>2 DEF TypeOK
        <5> QED
          BY <3>1, <4>1, <5>1, <5>2
    <3>3. CASE g # x[2]
      <4>1. PendOf(g)' = PendOf(g)
        BY <3>3 DEF PendOf
      <4> QED
        BY ZenonT(20), <1>0, <3>1, <3>3, <4>1 DEF TypeOK
    <3> QED
      BY <3>2, <3>3
  <2> QED
    BY <2>1, <2>2 DEF CancelsCounted
<1>4. ASSUME NEW c \in Call PROVE CallOK(c)' /\ SendsBounded(c)'
  <2>1. SentOf(c)' = SentOf(c)
    BY <1>1 DEF SentOf
  <2>2. SendsBounded(c)'
    BY <2>1, BoundKept DEF IInv
  <2>3. CallOK(c)'
    BY DEF IInv, CallOK, Now
  <2> QED
    BY <2>2, <2>3
<1>5. ASSUME NEW b \in Call, NEW a \in unknown'[b] PROVE Behind(a, b)'
  <2>1. a \in Call /\ Behind(a, b)
    BY <1>0, <1>5 DEF IInv, TypeOK
  <2> QED
    BY <1>1, <2>1, BehindKept
<1> QED
  BY <1>0, <1>2, <1>3, <1>4, <1>5 DEF IInv

(* The cancels of a connection are as many as it counts, so that when it
   counts none there are none.                                             *)
LEMMA CountedOut == ASSUME IInv PROVE NoneAwaited
<1> SUFFICES ASSUME NEW g \in Gen, cancels[g] = 0 PROVE PendOf(g) = {}
  BY DEF NoneAwaited
<1>1. IsFiniteSet(pend) /\ PendOf(g) \subseteq pend /\ Cardinality(PendOf(g)) = 0
  BY DEF IInv, CancelsCounted, PendOf
<1>2. IsFiniteSet(PendOf(g))
  BY <1>1, FS_Subset
<1> QED
  BY <1>1, <1>2, FS_EmptySet

(* A caller that gives up on a request it has written adds one cancel to the
   count of its connection.                                                *)
LEMMA GaveUpCounts ==
  ASSUME IInv, NEW c \in Call, GaveUpSent(c) PROVE CancelsCounted'
<1> DEFINE x == Now(c)
<1>0. TypeOK /\ CallOK(c)
  BY DEF IInv
<1>1. /\ status[c] = "reply" /\ status' = [status EXCEPT ![c] = "gaveup"]
      /\ cancels' = [cancels EXCEPT ![x[2]] = @ + 1] /\ pend' = pend \cup {x}
  BY DEF GaveUpSent, CountGiveUp, Become
<1>2. x \in Exchange /\ x[1] = c /\ x[2] = on[c] /\ on[c] \in Gen
  BY <1>0, <1>1, NowIs DEF CallOK
<1> HIDE DEF x
<1>3. x \notin pend
  BY <1>1, <1>2 DEF IInv, CancelsCounted
<1>4. IsFiniteSet(pend') /\ \A z \in pend' : status'[z[1]] = "gaveup"
  <2>1. IsFiniteSet(pend')
    BY <1>1, FS_AddElement DEF IInv, CancelsCounted
  <2>2. \A z \in pend : z[1] \in Call /\ status[z[1]] = "gaveup"
    BY <1>0, ExchangeFacts DEF IInv, CancelsCounted, TypeOK
  <2> QED
    BY <1>0, <1>1, <1>2, <2>1, <2>2 DEF TypeOK
<1>5. ASSUME NEW g \in Gen PROVE cancels'[g] = Cardinality(PendOf(g)')
  <2>0. IsFiniteSet(pend) /\ PendOf(g) \subseteq pend /\ cancels[g] = Cardinality(PendOf(g))
    BY DEF IInv, CancelsCounted, PendOf
  <2>1. IsFiniteSet(PendOf(g))
    BY <2>0, FS_Subset
  <2>2. CASE g = x[2]
    <3>1. PendOf(g)' = PendOf(g) \cup {x} /\ x \notin PendOf(g)
      BY <1>1, <1>3, <2>2 DEF PendOf
    <3>2. Cardinality(PendOf(g) \cup {x}) = Cardinality(PendOf(g)) + 1
      BY <2>1, <3>1, FS_AddElement
    <3>3. cancels'[g] = cancels[g] + 1
      BY <1>0, <1>1, <2>2 DEF TypeOK
    <3> QED
      BY <2>0, <3>1, <3>2, <3>3
  <2>3. CASE g # x[2]
    <3>1. PendOf(g)' = PendOf(g)
      BY <1>1, <2>3 DEF PendOf
    <3> QED
      BY <1>0, <1>1, <2>0, <2>3, <3>1 DEF TypeOK
  <2> QED
    BY <2>2, <2>3
<1> QED
  BY <1>4, <1>5 DEF CancelsCounted

-----------------------------------------------------------------------------
(* One step per kind of action.                                            *)
LEMMA NextIInv == ASSUME IInv, [Next]_vars PROVE IInv'
<1>1. CASE Link /\ UNCHANGED <<calls, history>>
  BY <1>1, LinkIInv
<1>2. ASSUME NEW c \in Call, CallStep(c) PROVE IInv'
  BY <1>2, CountedOut, GaveUpCounts, CallStepIInv
<1>3. ASSUME NEW x \in Exchange,
             Run(x) \/ (ServerStep(x) /\ UNCHANGED <<calls, history>>)
      PROVE  IInv'
  BY <1>3, ServedIInv, CancelIInv DEF Served, ServerStep
<1>4. CASE UNCHANGED vars
  <2> USE <1>4 DEF vars, wireVars, session, link, streams, pending, calls, taken, history
  <2>1. TypeOK' /\ EpochsGrow' /\ RunsInOrder' /\ CancelsCounted'
    BY DEF IInv, TypeOK, EpochsGrow, RunsInOrder, CancelsCounted, PendOf
  <2>2. \A x \in Exchange : ExchangeOK(x)' /\ SentOnce(x)' /\ Awaited(x)'
    <3>1. \A x \in Exchange : ExchangeOK(x)'
      BY DEF IInv, ExchangeOK
    <3>2. \A x \in Exchange : SentOnce(x)'
      BY DEF IInv, SentOnce, Sent
    <3>3. \A x \in Exchange : Awaited(x)'
      BY DEF IInv, Awaited, Sent, Heard, Alive
    <3> QED
      BY <3>1, <3>2, <3>3
  <2>3. \A c \in Call : CallOK(c)' /\ SendsBounded(c)'
    <3>1. \A c \in Call : CallOK(c)'
      BY DEF IInv, CallOK, Now
    <3>2. \A c \in Call : SentOf(c)' = SentOf(c)
      BY DEF SentOf, Sent
    <3>3. \A c \in Call : SendsBounded(c)'
      BY <3>2, BoundKept DEF IInv
    <3> QED
      BY <3>1, <3>3
  <2>4. \A b \in Call : \A a \in unknown'[b] : Behind(a, b)'
    <3>1. \A z \in Exchange : (Sent(z)' <=> Sent(z)) /\ (Heard(z)' <=> Heard(z))
      BY DEF Sent, Heard, Alive
    <3>2. \A b \in Call : \A a \in unknown[b] : a \in Call /\ Behind(a, b)
      BY DEF IInv, TypeOK
    <3> QED
      BY <3>1, <3>2, BehindKept
  <2> QED
    BY <2>1, <2>2, <2>3, <2>4 DEF IInv
<1> QED
  BY <1>1, <1>2, <1>3, <1>4 DEF Next

(* The invariant holds throughout.                                         *)
LEMMA Inductive == Spec => []IInv
BY InitIInv, NextIInv, PTL DEF Spec

(* Of two exchanges that run at once, neither is of an older connection;
   nor is one that runs older than one that ran.                           *)
LEMMA ActiveIsNewest ==
  ASSUME IInv, NEW x \in Exchange, NEW y \in Exchange, state[x] = "active", y \in ran
  PROVE  y[2] <= x[2]
<1> USE ExchangeFacts
<1>1. /\ Sent(x) /\ Sent(y) /\ conn[x] = epochOf[x[2]] /\ conn[y] = epochOf[y[2]]
  BY DEF IInv, ExchangeOK, Sent
<1>2. x[2] <= gen /\ y[2] <= gen
  BY <1>1 DEF IInv, SentOnce, CallOK, TypeOK
<1>3. epochOf[y[2]] <= epochOf[x[2]]
  BY <1>1 DEF IInv, RunsInOrder
<1> QED
  BY <1>2, <1>3, EpochOrder

(* A set within one of at most n members has no more.                      *)
LEMMA AtMost ==
  ASSUME NEW S, NEW T, IsFiniteSet(T), S \subseteq T, NEW n \in Nat, Cardinality(T) <= n
  PROVE  Cardinality(S) <= n /\ Cardinality(S) \in Nat
<1>1. IsFiniteSet(S) /\ Cardinality(S) <= Cardinality(T)
  BY FS_Subset
<1>2. Cardinality(S) \in Nat /\ Cardinality(T) \in Nat
  BY <1>1, FS_CardinalityType
<1> QED
  BY <1>1, <1>2

(* A pair has at most two members.                                         *)
LEMMA PairFinite ==
  ASSUME NEW x, NEW y PROVE IsFiniteSet({x, y}) /\ Cardinality({x, y}) <= 2
<1> DEFINE one == {x}
<1>1. IsFiniteSet(one) /\ Cardinality(one) = 1
  BY FS_Singleton
<1>2. one \cup {y} = {x, y}
  OBVIOUS
<1> HIDE DEF one
<1>3. IsFiniteSet(one \cup {y}) /\ Cardinality(one \cup {y}) <= 2
  BY <1>1, FS_AddElement
<1> QED
  BY <1>2, <1>3

(* A change made after a call that ended with no reply runs only if that one
   never does, or has finished: whatever is lost, resent, given up or
   resumed, for any number of calls and connections (S1: CallState::sendable,
   AttachedState::given_up, Session).                                      *)
THEOREM NothingOvertakes == Spec => []NoOvertaking
<1>1. ASSUME IInv PROVE NoOvertaking
  <2> SUFFICES ASSUME NEW b \in Call, NEW a \in unknown[b], RanOf(b) # {},
                      NEW x \in ActiveOf(a)
               PROVE  FALSE
    BY DEF NoOvertaking
  <2>1. PICK y \in ran : y[1] = b
    BY DEF RanOf
  <2>2. y \in Exchange /\ x \in Exchange /\ x[1] = a /\ state[x] = "active"
    BY <1>1 DEF IInv, TypeOK, ActiveOf
  <2> QED
    BY <1>1, <2>1, <2>2 DEF IInv, Behind
<1> QED
  BY <1>1, Inductive, PTL

(* A request runs at most twice, twice only if it may be repeated, and never
   twice at once; and a call that has its reply is over on the server too,
   for any number of calls and connections (S2: CallState::lost, retry_safe,
   Session).                                                               *)
THEOREM RunsAsOftenAsItMay == Spec => []RunsOnce
<1>1. ASSUME IInv, NEW c \in Call
      PROVE  Cardinality(RanOf(c)) <= IF c \in Resendable THEN 2 ELSE 1
  <2>1. RanOf(c) \subseteq SentOf(c)
    BY <1>1 DEF IInv, TypeOK, ExchangeOK, RanOf, SentOf, Sent
  <2>3. CASE ~lost_once[c]
    <3>1. RanOf(c) \subseteq {Now(c)}
      BY <1>1, <2>1, <2>3 DEF IInv, SendsBounded
    <3>2. Cardinality(RanOf(c)) <= 1 /\ Cardinality(RanOf(c)) \in Nat
      <4> DEFINE T == {Now(c)}
      <4>1. IsFiniteSet(T) /\ Cardinality(T) <= 1 /\ RanOf(c) \subseteq T
        BY <3>1, FS_Singleton
      <4> HIDE DEF T
      <4> QED
        BY <4>1, AtMost
    <3> QED
      BY <3>2
  <2>4. CASE lost_once[c]
    <3>1. c \in Resendable /\ \E x \in Exchange : RanOf(c) \subseteq {x, Now(c)}
      BY <1>1, <2>1, <2>4 DEF IInv, SendsBounded
    <3>2. PICK x \in Exchange : RanOf(c) \subseteq {x, Now(c)}
      BY <3>1
    <3>3. Cardinality(RanOf(c)) <= 2
      <4> DEFINE T == {x, Now(c)}
      <4>1. IsFiniteSet(T) /\ Cardinality(T) <= 2 /\ RanOf(c) \subseteq T
        BY <3>2, PairFinite
      <4> HIDE DEF T
      <4> QED
        BY <4>1, AtMost
    <3> QED
      BY <3>1, <3>3
  <2> QED
    BY <2>3, <2>4
<1>2. ASSUME IInv, NEW c \in Call PROVE Cardinality(ActiveOf(c)) <= 1
  <2>1. \A x, y \in ActiveOf(c) : x = y
    <3> SUFFICES ASSUME NEW x \in ActiveOf(c), NEW y \in ActiveOf(c) PROVE x = y
      OBVIOUS
    <3>1. /\ x \in Exchange /\ y \in Exchange /\ x[1] = c /\ y[1] = c
          /\ state[x] = "active" /\ state[y] = "active" /\ x \in ran /\ y \in ran
      BY <1>2 DEF ActiveOf, IInv, ExchangeOK
    <3>2. x[2] <= y[2] /\ y[2] <= x[2]
      BY <1>2, <3>1, ActiveIsNewest
    <3>3. x[2] \in Nat /\ y[2] \in Nat
      BY <3>1, ExchangeFacts
    <3>4. x[2] = y[2]
      BY <3>2, <3>3
    <3> QED
      BY <3>1, <3>4, ExchangeFacts
  <2>2. CASE ActiveOf(c) = {}
    BY <2>2, FS_EmptySet
  <2>3. CASE ActiveOf(c) # {}
    <3>1. PICK x \in ActiveOf(c) : ActiveOf(c) = {x}
      BY <2>1, <2>3
    <3>2. Cardinality({x}) = 1
      BY FS_Singleton
    <3>3. Cardinality(ActiveOf(c)) = 1
      BY <3>1, <3>2, Zenon
    <3> QED
      BY <3>3
  <2> QED
    BY <2>2, <2>3
<1>3. ASSUME IInv, NEW c \in Call, status[c] = "replied"
      PROVE  Now(c) \in ran /\ ActiveOf(c) = {}
  <2>1. Now(c) \in Exchange /\ Now(c)[1] = c /\ Now(c)[2] = on[c] /\ ans[Now(c)] = "reply"
    BY <1>3, NowIs DEF IInv, CallOK
  <2>2. state[Now(c)] = "over" /\ Now(c) \in ran
    BY <1>3, <2>1 DEF IInv, ExchangeOK
  <2>3. ASSUME NEW x \in ActiveOf(c) PROVE FALSE
    <3>1. x \in Exchange /\ x[1] = c /\ state[x] = "active"
      BY DEF ActiveOf
    <3>2. on[c] <= x[2]
      BY <1>3, <2>1, <2>2, <3>1, ActiveIsNewest
    <3>3. x[2] <= on[c] /\ on[c] \in Nat
      BY <1>3, <3>1 DEF IInv, SentOnce, Sent, TypeOK, Call, Exchange
    <3>4. x = Now(c)
      BY <2>1, <3>1, <3>2, <3>3, ExchangeFacts
    <3> QED
      BY <2>2, <3>1, <3>4
  <2> QED
    BY <2>2, <2>3
<1>4. IInv => RunsOnce
  BY <1>1, <1>2, <1>3 DEF RunsOnce, RunsBounded, RepliedIsOver
<1> QED
  BY <1>4, Inductive, PTL
=============================================================================
