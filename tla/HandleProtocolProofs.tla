------------------------ MODULE HandleProtocolProofs ------------------------
(***************************************************************************)
(* No descriptor outlives the client's interest in it, a live handle is    *)
(* open on the session, and the release task sleeps through nothing, for   *)
(* any number of connections and handshakes.                               *)
(***************************************************************************)
EXTENDS HandleProtocol, TLAPS

(* Most steps are first-order: Zenon tries each before the SMT solver does. *)
USE ZenonT(3), SMTT(10)

Answers  == {"none", "reply", "errno", "superseded", "ended", "unrun", "fenced"}
Statuses == {"idle", "waiting", "reply", "ended"}

WireType ==
  /\ current \in Nat /\ gen \in Gen /\ up \in BOOLEAN
  /\ state \in [Exchange -> Server!State] /\ conn \in [Exchange -> Nat]
  /\ gaveUp \subseteq Exchange
  /\ epochOf \in [Gen -> Nat] /\ cancels \in [Gen -> Int]
  /\ wire \subseteq Exchange /\ reset \subseteq Exchange /\ pend \subseteq Exchange
  /\ ans \in [Exchange -> Answers]

ClientType ==
  /\ held \in BOOLEAN /\ rec \in {"none", "live", "dead"}
  /\ status \in [CallOf -> Statuses]
  /\ on \in [CallOf -> Nat] /\ min_generation \in [CallOf -> Nat]
  /\ owed \in {NotOwed, Unsent, gen}
  /\ round \in {"none", "unsent", "sending"}
  /\ published \in BOOLEAN

(* A call sends on newer and newer connections, once on each.              *)
CallOK(c) ==
  /\ on[c] <= gen
  /\ status[c] = "idle" => on[c] = 0
  /\ status[c] = "waiting" => on[c] = 0 \/ on[c] < min_generation[c]
  /\ status[c] = "reply" => on[c] # 0

(* How far the client is with the id: the handle is known once its open has
   ended, released once, owed only when it is not live.  A round is over
   before its connection is published, the connection published before its
   release task runs, and a release sent only while the task does.         *)
ClientOK ==
  /\ round # "none" => ~published
  /\ task # "off" => published
  /\ owed = gen => task # "off"
  /\ rec # "none" => status["open"] = "ended" /\ status["release"] = "idle"
  /\ status["release"] # "idle" => status["open"] = "ended"
  /\ owed # NotOwed => status["open"] = "ended" /\ rec # "live"
  /\ round # "none" => status["open"] = "ended" /\ status["release"] # "reply"

ClientInv == WireType /\ ClientType /\ ClientOK /\ \A c \in CallOf : CallOK(c)

-----------------------------------------------------------------------------
(* Exchanges are pairs.                                                    *)
LEMMA ExchangeFacts ==
  /\ \A x \in Exchange : x[1] \in Origin /\ x[2] \in Gen
  /\ \A o \in Origin, g \in Gen :
       <<o, g>> \in Exchange /\ <<o, g>>[1] = o /\ <<o, g>>[2] = g
  /\ \A x, y \in Exchange : x[1] = y[1] /\ x[2] = y[2] => x = y
  /\ \A g \in Gen : g \in Nat /\ 1 <= g
BY BoundsAreNat DEF Exchange, Gen

(* A step of the client alone keeps the wire's types.                      *)
LEMMA WireTypeKept == ASSUME WireType, UNCHANGED wireVars PROVE WireType'
BY DEF WireType, wireVars, session, link, streams, pending

ClientAlone ==
  \/ StartOpen \/ StartRelease
  \/ \E c \in CallOf : NotSent(c) \/ Lost(c) \/ GiveUpUnsent(c)
  \/ GiveUpRelease \/ OpenReplied \/ ReleaseReplied
  \/ MarkOwed \/ (LookAndSend /\ UNCHANGED wireVars) \/ TaskWakes \/ Settle \/ TaskEnds
  \/ ReopenReplied \/ ReopenLost \/ Publish

(* Every step that touches nothing but the client keeps ClientInv.         *)
LEMMA ClientAloneInv ==
  ASSUME ClientInv, ClientAlone PROVE ClientInv'
<1> SUFFICES ASSUME WireType, ClientType, ClientOK, \A c \in CallOf : CallOK(c)
             PROVE  ClientInv'
  BY DEF ClientInv
<1> USE DEF client, taken, NotOwed, Unsent, CallOf, Statuses
<1>0. gen \in Nat /\ gen >= 1
  BY ExchangeFacts DEF WireType
<1>w. UNCHANGED wireVars
  BY DEF ClientAlone, StartOpen, StartRelease, NotSent, Lost, GiveUpUnsent, GiveUpRelease,
         OpenReplied, ReleaseReplied, MarkOwed, TaskWakes, Settle, TaskEnds, ReopenReplied,
         ReopenLost, Publish
<1>g. WireType' /\ gen' = gen
  BY <1>w, WireTypeKept DEF wireVars, link
<1>1. CASE StartOpen
  BY <1>0, <1>1, <1>g DEF StartOpen, Become, ClientInv, ClientType, ClientOK, CallOK
<1>2. CASE StartRelease
  BY <1>0, <1>2, <1>g
  DEF StartRelease, ReleaseBegins, Become, ClientInv, ClientType, ClientOK, CallOK
<1>3. ASSUME NEW c \in CallOf, NotSent(c) PROVE ClientInv'
  BY <1>0, <1>3, <1>g DEF NotSent, ClientInv, ClientType, ClientOK, CallOK
<1>4. ASSUME NEW c \in CallOf, Lost(c) PROVE ClientInv'
  BY <1>0, <1>4, <1>g
  DEF Lost, EndUnknown, OweRelease, OwesNothing, Become, ClientInv, ClientType, ClientOK,
      CallOK
<1>5. ASSUME NEW c \in CallOf, GiveUpUnsent(c) PROVE ClientInv'
  BY <1>0, <1>5, <1>g
  DEF GiveUpUnsent, EndUnknown, OweRelease, Become, ClientInv, ClientType, ClientOK, CallOK
<1>6. CASE GiveUpRelease
  BY <1>0, <1>6, <1>g
  DEF GiveUpRelease, EndUnknown, OweRelease, Become, ClientInv, ClientType, ClientOK, CallOK
<1>7. CASE OpenReplied
  BY <1>0, <1>7, <1>g
  DEF OpenReplied, OweRelease, OwesNothing, Become, ClientInv, ClientType, ClientOK, CallOK
<1>8. CASE ReleaseReplied
  BY <1>0, <1>8, <1>g
  DEF ReleaseReplied, Become, ClientInv, ClientType, ClientOK, CallOK
<1>9. CASE MarkOwed
  BY <1>0, <1>9, <1>g DEF MarkOwed, ClientInv, ClientType, ClientOK, CallOK
<1>10. CASE LookAndSend
  BY <1>0, <1>10, <1>g
  DEF LookAndSend, OwedSendable, ClientInv, ClientType, ClientOK, CallOK
<1>11. CASE TaskWakes
  BY <1>0, <1>11, <1>g DEF TaskWakes, ClientInv, ClientType, ClientOK, CallOK
<1>12. CASE Settle
  BY <1>0, <1>12, <1>g DEF Settle, ClientInv, ClientType, ClientOK, CallOK
<1>13. CASE TaskEnds
  BY <1>0, <1>13, <1>g DEF TaskEnds, Undelivered, ClientInv, ClientType, ClientOK, CallOK
<1>14. CASE ReopenReplied
  BY <1>0, <1>14, <1>g
  DEF ReopenReplied, ReopenEnds, Killed, OweRelease, OwesNothing, ClientInv, ClientType,
      ClientOK, CallOK
<1>15. CASE ReopenLost
  BY <1>0, <1>15, <1>g
  DEF ReopenLost, ReopenEnds, Killed, OweRelease, OwesNothing, ClientInv, ClientType,
      ClientOK, CallOK
<1>16. CASE Publish
  BY <1>0, <1>16, <1>g DEF Publish, ClientInv, ClientType, ClientOK, CallOK
<1> QED
  BY <1>1, <1>2, <1>3, <1>4, <1>5, <1>6, <1>7, <1>8, <1>9, <1>10, <1>11, <1>12, <1>13,
     <1>14, <1>15, <1>16 DEF ClientAlone

ClientWrites ==
  \/ \E c \in CallOf : Send(c)
  \/ (LookAndSend /\ Write(<<"owed", gen>>)) \/ ReopenSent
  \/ GiveUpOpen \/ GiveUpReopen \/ \E x \in Exchange : Cancels(x)

(* So does every step that writes a request or gives one up.               *)
LEMMA ClientWritesInv ==
  ASSUME ClientInv, ClientWrites PROVE ClientInv'
<1> SUFFICES ASSUME WireType, ClientType, ClientOK, \A c \in CallOf : CallOK(c)
             PROVE  ClientInv'
  BY DEF ClientInv
<1> USE DEF client, taken, NotOwed, Unsent, CallOf, Statuses
<1>0. gen \in Nat /\ gen >= 1 /\ \A o \in Origin : <<o, gen>> \in Exchange
  BY ExchangeFacts DEF WireType
<1>o. "open" \in Origin /\ "reopen" \in Origin /\ "release" \in Origin /\ "owed" \in Origin
  BY OriginsOfAnId
<1>a. ASSUME NEW x \in Exchange, Write(x) PROVE WireType' /\ gen' = gen
  BY <1>a DEF Write, WireType, session, link, pending
<1>b. ASSUME NEW x \in Exchange, CountGiveUp(x) PROVE WireType' /\ gen' = gen
  BY <1>b, ExchangeFacts DEF CountGiveUp, WireType, session, link
<1>1. ASSUME NEW c \in CallOf, Send(c) PROVE ClientInv'
  <2>1. WireType' /\ gen' = gen
    BY <1>0, <1>o, <1>a, <1>1 DEF Send
  <2> QED
    BY <1>0, <1>1, <2>1 DEF Send, Become, ClientInv, ClientType, ClientOK, CallOK
<1>2. CASE LookAndSend /\ Write(<<"owed", gen>>)
  <2>1. WireType' /\ gen' = gen
    BY <1>0, <1>o, <1>a, <1>2
  <2> QED
    BY <1>0, <1>2, <2>1
    DEF LookAndSend, OwedSendable, ClientInv, ClientType, ClientOK, CallOK
<1>3. CASE ReopenSent
  <2>1. WireType' /\ gen' = gen
    BY <1>0, <1>o, <1>a, <1>3 DEF ReopenSent
  <2> QED
    BY <1>0, <1>3, <2>1 DEF ReopenSent, ClientInv, ClientType, ClientOK, CallOK
<1>4. CASE GiveUpOpen
  <2>0. on["open"] \in Gen
    BY <1>0, <1>4, BoundsAreNat DEF GiveUpOpen, ClientType, CallOK, WireType, Gen
  <2>1. WireType' /\ gen' = gen
    BY <1>o, <1>b, <1>4, <2>0, ExchangeFacts DEF GiveUpOpen, Now
  <2> QED
    BY <1>0, <1>4, <2>1 DEF GiveUpOpen, Become, ClientInv, ClientType, ClientOK, CallOK
<1>5. CASE GiveUpReopen
  <2>1. WireType' /\ gen' = gen
    BY <1>0, <1>o, <1>b, <1>5 DEF GiveUpReopen
  <2> QED
    BY <1>0, <1>5, <2>1
    DEF GiveUpReopen, ReopenEnds, Killed, OweRelease, OwesNothing, ClientInv, ClientType,
        ClientOK, CallOK
<1>6. ASSUME NEW x \in Exchange, Cancels(x) PROVE ClientInv'
  <2>1. WireType' /\ gen' = gen
    BY <1>6, ExchangeFacts DEF Cancels, CancelAnswered, WireType, session, link, streams
  <2> QED
    BY <1>6, <2>1 DEF Cancels, ClientInv, ClientType, ClientOK, CallOK
<1> QED
  BY <1>1, <1>2, <1>3, <1>4, <1>5, <1>6 DEF ClientWrites

(* And every connection that comes or goes.                                *)
LEMMA LinkInv ==
  ASSUME ClientInv, Resume \/ NewSession \/ Net PROVE ClientInv'
<1> SUFFICES ASSUME WireType, ClientType, ClientOK, \A c \in CallOf : CallOK(c)
             PROVE  ClientInv'
  BY DEF ClientInv
<1> USE DEF client, taken, NotOwed, Unsent, CallOf, Statuses, NextTurn
<1>0. gen \in Nat /\ gen >= 1 /\ MaxGen \in Nat
  BY ExchangeFacts, BoundsAreNat DEF WireType
<1>a. ASSUME Attach, current' = current + 1
      PROVE  gen' = gen + 1 /\ gen' \in Gen /\ up' \in BOOLEAN /\ epochOf' \in [Gen -> Nat]
  BY <1>0, <1>a DEF Attach, WireType, Gen
<1>b. ASSUME gen' = gen + 1, UNCHANGED <<status, taken>> PROVE \A c \in CallOf : CallOK(c)'
  BY <1>0, <1>b DEF CallOK, ClientType
<1>1. CASE Resume
  <2>1. WireType' /\ gen' = gen + 1
    <3>1. current' = current + 1 /\ UNCHANGED <<state, conn, gaveUp, wire, reset, ans, cancels, pend>>
      BY <1>1 DEF Resume, Reconnect, Server!Resume, streams, pending
    <3>2. gen' = gen + 1 /\ gen' \in Gen /\ up' \in BOOLEAN /\ epochOf' \in [Gen -> Nat]
      BY <1>1, <1>a, <3>1 DEF Resume, Reconnect
    <3> QED
      BY <3>1, <3>2 DEF WireType
  <2>2. /\ UNCHANGED <<status, taken, held, round, task>> /\ published' = FALSE
        /\ published /\ task = "off"
        /\ \/ rec' = rec /\ owed' = owed
           \/ /\ rec' = Killed
              /\ owed' = IF rec = "live" /\ owed = NotOwed THEN Unsent ELSE owed
    BY <1>1 DEF Resume
  <2>3. owed \in {NotOwed, Unsent} /\ round = "none"
    BY <2>2 DEF ClientType, ClientOK
  <2>4. rec' \in {"none", "live", "dead"} /\ owed' \in {NotOwed, Unsent}
    BY <2>2, <2>3 DEF Killed, ClientType
  <2>5. ClientType'
    BY <2>1, <2>2, <2>3, <2>4 DEF ClientType
  <2>6. ClientOK'
    BY <1>0, <2>1, <2>2, <2>3, <2>4 DEF Killed, ClientType, ClientOK
  <2> QED
    BY <1>b, <2>1, <2>2, <2>5, <2>6 DEF ClientInv
<1>2. CASE NewSession
  <2>1. WireType' /\ gen' = gen + 1
    <3>1. /\ current' = current + 1 /\ gaveUp' = {} /\ wire' = {}
          /\ state' \in [Exchange -> Server!State] /\ UNCHANGED <<conn, reset, ans, cancels, pend>>
      BY <1>2 DEF NewSession, pending, Server!State
    <3>2. gen' = gen + 1 /\ gen' \in Gen /\ up' \in BOOLEAN /\ epochOf' \in [Gen -> Nat]
      BY <1>2, <1>a, <3>1 DEF NewSession
    <3> QED
      BY <3>1, <3>2 DEF WireType
  <2>2. /\ UNCHANGED <<status, taken, task>> /\ published' = FALSE /\ held' = FALSE
        /\ published /\ task = "off" /\ owed' = NotOwed
        /\ rec' \in {rec, Killed} /\ round' = IF rec' = "live" THEN "unsent" ELSE "none"
    BY <1>2 DEF NewSession, Moot
  <2>3. owed \in {NotOwed, Unsent} /\ round = "none"
    BY <2>2 DEF ClientType, ClientOK
  <2>4. rec' \in {"none", "live", "dead"} /\ owed' \in {NotOwed, Unsent}
    BY <2>2, <2>3 DEF Killed, ClientType
  <2>5. ClientType'
    BY <2>1, <2>2, <2>3, <2>4 DEF ClientType
  <2>6. ClientOK'
    BY <1>0, <2>1, <2>2, <2>3, <2>4 DEF Killed, ClientType, ClientOK
  <2> QED
    BY <1>b, <2>1, <2>2, <2>5, <2>6 DEF ClientInv
<1>3. CASE Net
  <2>1. WireType' /\ gen' = gen
    <3>1. CASE Lose
      BY <3>1 DEF Lose, WireType, session, streams, pending
    <3>2. CASE Stray
      BY <3>2 DEF Stray, Server!Resume, WireType, link, streams, pending
    <3> QED
      BY <1>3, <3>1, <3>2 DEF Net
  <2> QED
    BY <1>3, <2>1 DEF Net, ClientInv, ClientType, ClientOK, CallOK
<1> QED
  BY <1>1, <1>2, <1>3

-----------------------------------------------------------------------------
(* The wire and the server.                                                *)

OpenX == {x \in Exchange : x[1] \in Opens}

(* The request is on its way to the server, or before it.                  *)
Before      == {"waiting", "clear", "active"}
UnderWay(x) == x \in wire \/ state[x] \in Before

(* Where an exchange is at the server goes with what it has been answered
   and with what the client has done.                                      *)
ExchangeOK(x) ==
  /\ x[1] # "release" /\ state[x] \in Before => conn[x] = epochOf[x[2]]
  /\ x[1] = "release" => state[x] \notin Before
  /\ x \in gaveUp => state[x] = "active"

OpenOK(x) ==
  /\ x \in wire => state[x] = "idle" /\ ans[x] = "none"
  /\ ans[x] # "none" /\ UnderWay(x) => x \in gaveUp
  /\ ans[x] \in {"reply", "errno"} => ~UnderWay(x)

(* A newer connection attached at a later epoch, none beyond the session's
   newest.                                                                 *)
EpochsGrow ==
  \A g \in Gen :
    g <= gen => /\ epochOf[g] <= current
                /\ \A h \in Gen : h < g => epochOf[h] < epochOf[g]

Fresh(x) == x \notin wire /\ x \notin gaveUp /\ state[x] = "idle" /\ ans[x] = "none"

(* What has not been sent yet.                                             *)
FreshOK ==
  /\ \A x \in Exchange : x[2] > gen => Fresh(x)
  /\ \A c \in CallOf : on[c] < gen => Fresh(<<c, gen>>)
  /\ round = "unsent" => Fresh(<<"reopen", gen>>)
  /\ ~published => Fresh(<<"owed", gen>>)

(* What the client has done before it sends a request.                     *)
SentBy(x) ==
  UnderWay(x) =>
    /\ x[1] = "open" => x[2] <= on["open"]
    /\ x[1] = "reopen" => status["open"] = "ended"
    /\ x[1] = "release" => status["release"] # "idle"
    /\ x[1] = "owed" => status["open"] = "ended" /\ rec # "live"

(* A connection's count is of the opens on it whose cancel is not answered. *)
Count(x) == IF x \in pend THEN 1 ELSE 0

PendOK ==
  /\ pend \subseteq OpenX
  /\ \A g \in Gen : cancels[g] = Count(<<"open", g>>) + Count(<<"reopen", g>>)
  /\ \A x \in pend : /\ x[2] <= gen
                     /\ x[1] = "open" => status["open"] = "ended"
                     /\ x[1] = "reopen" /\ x[2] = gen => round = "none"

WireInv ==
  /\ EpochsGrow /\ FreshOK /\ PendOK
  /\ \A x \in Exchange : ExchangeOK(x) /\ SentBy(x)
  /\ \A x \in OpenX : OpenOK(x)

-----------------------------------------------------------------------------
(* The handle.                                                             *)

(* An open answered well has left the handle open, as long as the client
   may take it.                                                            *)
HeldOK ==
  /\ status["open"] = "reply" /\ on["open"] = gen /\ ans[Now("open")] = "reply" => held
  /\ rec = "live" /\ round = "sending" /\ ans[<<"reopen", gen>>] = "reply" => held
  /\ LiveIsHeld

(* The open y will not change the handle any more.                         *)
Spent(y) == UnderWay(y) => state[y] # "active" /\ epochOf[y[2]] < current

NoneLands == \A y \in OpenX : Spent(y)

(* The end of an open under way is waited for: by its call, by its round, or
   by the cancel its connection counts.                                    *)
Awaited(y) ==
  UnderWay(y) =>
    \/ Heard(y) \/ y \in pend
    \/ y[1] = "open" /\ y[2] = on["open"] /\ status["open"] = "reply"
    \/ y[1] = "reopen" /\ y[2] = gen /\ round = "sending"

(* The release owed is behind every open of its connection.                *)
OwedBehind(z, y) ==
  z[1] = "owed" /\ z[2] = y[2] =>
    /\ UnderWay(z) /\ UnderWay(y) => ans[y] # "none"
    /\ state[z] = "clear" /\ conn[z] = current => ~UnderWay(y)

(* What runs leaves no open of an older connection, and the release owed
   none of its own, to run later.                                          *)
RunsAfter(x, y) ==
  state[x] = "active" /\ (y[2] < x[2] \/ (x[1] = "owed" /\ y[2] = x[2])) => Spent(y)

Ordered == \A x \in Exchange, y \in OpenX : OwedBehind(x, y) /\ RunsAfter(x, y)

(* While nothing is owed no open that has ended is still to run, but the one
   of a round.                                                             *)
NothingLeft ==
  status["open"] = "ended" /\ owed = NotOwed =>
    \A y \in OpenX : Spent(y) \/ (round = "sending" /\ y = <<"reopen", gen>>)

(* What the answers tell: the release owed, the open, the kernel's release. *)
OwedTold ==
  ans[<<"owed", gen>>] = "reply" => ~held /\ NoneLands /\ status["open"] = "ended"

OpenTold ==
  status["open"] = "reply" =>
    /\ ans[Now("open")] \in {"reply", "errno"} => NoneLands
    /\ ans[Now("open")] = "errno" => ~held

ReleaseTold ==
  status["release"] = "reply" /\ ans[Now("release")] = "reply" /\ owed = NotOwed => ~held

Settled == NothingLeft /\ OwedTold /\ OpenTold /\ ReleaseTold /\ NoHandleLeaks

IInv ==
  /\ ClientInv /\ WireInv /\ HeldOK
  /\ \A y \in OpenX : Awaited(y)
  /\ Ordered /\ Settled

-----------------------------------------------------------------------------
(* A step of the server on the exchange x.                                 *)
Served(x) == ServeChange(x) \/ RunRelease(x) \/ FinishOpen(x) \/ FinishOwed(x)

Unrelated(z) ==
  /\ state'[z] = state[z] /\ conn'[z] = conn[z] /\ ans'[z] = ans[z]
  /\ z \in wire' <=> z \in wire
  /\ z \in gaveUp' <=> z \in gaveUp

ServerKeeps == UNCHANGED <<current, gen, up, epochOf, reset, cancels, pend, client>>

MayBegin(x) ==
  /\ state[x] = "clear" /\ conn[x] = current
  /\ \A z \in Exchange : state[z] = "active" => conn[z] = current

(* What such a step may do to its exchange.                                *)
Moved(x) ==
  /\ UnderWay(x)
  /\ ans[x] # "none" => ans'[x] = ans[x]
  /\ state'[x] = "active" => state[x] = "active" \/ MayBegin(x)
  /\ state'[x] = "clear" /\ conn'[x] = current => state[x] = "clear" \/ Server!InTheWay = {}
  /\ ExchangeOK(x)'
  /\ x[1] \in Opens => OpenOK(x)'

(* What it may do to the handle, and what it answers of it.                *)
Told(x) ==
  /\ held' /\ ~held => x[1] \in Opens /\ state[x] = "active"
  /\ held /\ ~held' => x[1] = "release" \/ (x[1] = "owed" /\ state[x] = "active")
  /\ ans'[x] # ans[x] /\ ans'[x] = "reply" => held' <=> x[1] \in Opens
  /\ ans'[x] # ans[x] /\ ans'[x] = "errno" => ~held' /\ x[1] \in Opens
  /\ ans'[x] # ans[x] /\ ans'[x] \in {"reply", "errno"} /\ x[1] # "release" => state[x] = "active"

(* A step of the server leaves every exchange in a shape it can have.      *)
LEMMA ServedShape ==
  ASSUME WireType, ClientType, NEW x \in Exchange, Served(x),
         ExchangeOK(x), x[1] \in Opens => OpenOK(x)
  PROVE  /\ ServerKeeps /\ WireType' /\ Moved(x) /\ Told(x)
         /\ \A z \in Exchange : z # x => Unrelated(z)
<1> DEFINE Shape == /\ ServerKeeps /\ WireType' /\ Moved(x) /\ Told(x)
                    /\ \A z \in Exchange : z # x => Unrelated(z)
<1> USE DEF ServerKeeps, session, link, streams, pending, Before
<1>k. x[2] \in Gen
  BY ExchangeFacts
<1>1. CASE x[1] # "release" /\ Begin(x) /\ UNCHANGED <<held, client>>
  <2> USE DEF Begin, Server!Begin, Server!Become, Server!Active
  <2>1. WireType' /\ ServerKeeps
    BY <1>1 DEF WireType, Server!State
  <2>2. Moved(x)
    BY <1>1 DEF WireType, Moved, MayBegin, UnderWay, ExchangeOK, OpenOK
  <2>3. Told(x)
    BY <1>1 DEF Told
  <2>4. \A z \in Exchange : z # x => Unrelated(z)
    BY <1>1 DEF WireType, Unrelated
  <2> QED
    BY <2>1, <2>2, <2>3, <2>4
<1>2. CASE x[1] # "release" /\ Arrive(x) /\ UNCHANGED <<held, client>>
  <2> USE DEF Arrive, Server!Arrive, Server!Become
  <2>1. WireType' /\ ServerKeeps
    BY <1>2, <1>k DEF WireType, Server!State
  <2>2. Moved(x)
    BY <1>2 DEF WireType, Moved, UnderWay, ExchangeOK, OpenOK
  <2>3. Told(x)
    BY <1>2 DEF Told
  <2>4. \A z \in Exchange : z # x => Unrelated(z)
    BY <1>2 DEF WireType, Unrelated
  <2> QED
    BY <2>1, <2>2, <2>3, <2>4
<1>3. CASE Undecoded(x) /\ UNCHANGED <<held, client>>
  <2> USE DEF Undecoded, Answer
  <2>1. WireType' /\ ServerKeeps
    BY <1>3 DEF WireType, Answers
  <2>2. Moved(x)
    BY <1>3 DEF WireType, Moved, UnderWay, ExchangeOK, OpenOK
  <2>3. Told(x)
    BY <1>3 DEF Told, WireType
  <2>4. \A z \in Exchange : z # x => Unrelated(z)
    BY <1>3 DEF WireType, Unrelated
  <2> QED
    BY <2>1, <2>2, <2>3, <2>4
<1>4. CASE x[1] # "release" /\ Clear(x) /\ UNCHANGED <<held, client>>
  <2> USE DEF Clear, Server!Clear, Server!Become
  <2>1. WireType' /\ ServerKeeps
    BY <1>4 DEF WireType, Server!State
  <2>2. Moved(x)
    BY <1>4 DEF WireType, Moved, UnderWay, ExchangeOK, OpenOK
  <2>3. Told(x)
    BY <1>4 DEF Told
  <2>4. \A z \in Exchange : z # x => Unrelated(z)
    BY <1>4 DEF WireType, Unrelated
  <2> QED
    BY <2>1, <2>2, <2>3, <2>4
<1>5. ASSUME NEW with \in {"none", "superseded", "unrun"}, Refused(x, with), x[1] # "release",
             UNCHANGED <<held, client>>
      PROVE  Shape
  <2> USE DEF Refused, Answer, Server!Refuse, Server!Become
  <2>1. WireType' /\ ServerKeeps
    BY <1>5 DEF WireType, Server!State, Answers
  <2>2. Moved(x)
    BY <1>5 DEF WireType, Moved, UnderWay, ExchangeOK, OpenOK
  <2>3. Told(x)
    BY <1>5 DEF Told, WireType
  <2>4. \A z \in Exchange : z # x => Unrelated(z)
    BY <1>5 DEF WireType, Unrelated
  <2> QED
    BY <2>1, <2>2, <2>3, <2>4
<1>6. CASE x[1] # "release" /\ Fenced(x) /\ UNCHANGED <<held, client>>
  <2> USE DEF Fenced, Answer, Server!GiveUp, Server!Active
  <2>1. WireType' /\ ServerKeeps
    BY <1>6 DEF WireType, Answers
  <2>2. Moved(x)
    BY <1>6 DEF WireType, Moved, UnderWay, ExchangeOK, OpenOK
  <2>3. Told(x)
    BY <1>6 DEF Told, WireType
  <2>4. \A z \in Exchange : z # x => Unrelated(z)
    BY <1>6 DEF WireType, Unrelated
  <2> QED
    BY <2>1, <2>2, <2>3, <2>4
<1>7. ASSUME NEW with \in {"reply", "errno"}, Finish(x, with), UNCHANGED client, x[1] # "release"
      PROVE  ServerKeeps /\ WireType' /\ Moved(x) /\ \A z \in Exchange : z # x => Unrelated(z)
  <2> USE DEF Finish, Answer, Server!Finish, Server!Become, Server!Active
  <2>1. WireType' /\ ServerKeeps
    BY <1>7 DEF WireType, Server!State, Answers
  <2>2. Moved(x)
    BY <1>7 DEF WireType, Moved, UnderWay, ExchangeOK, OpenOK
  <2>4. \A z \in Exchange : z # x => Unrelated(z)
    BY <1>7 DEF WireType, Unrelated
  <2> QED
    BY <2>1, <2>2, <2>4
<1>8. CASE FinishOpen(x)
  <2>1. Told(x)
    BY <1>8
    DEF FinishOpen, Finish, Answer, Server!Finish, Server!Active, Told, Opens, WireType,
        ClientType
  <2> QED
    BY <1>7, <1>8, <2>1 DEF FinishOpen, Opens
<1>9. CASE FinishOwed(x)
  <2>1. Told(x)
    BY <1>9
    DEF FinishOwed, Finish, Answer, Server!Finish, Server!Active, Told, Opens, WireType,
        ClientType
  <2> QED
    BY <1>7, <1>9, <2>1 DEF FinishOwed
<1>10. CASE RunRelease(x)
  <2> USE DEF RunRelease, Answer
  <2>1. WireType' /\ ServerKeeps
    BY <1>10 DEF WireType, Answers
  <2>2. Moved(x)
    BY <1>10 DEF WireType, Moved, UnderWay, ExchangeOK, Opens
  <2>3. Told(x)
    BY <1>10 DEF Told, WireType, Opens
  <2>4. \A z \in Exchange : z # x => Unrelated(z)
    BY <1>10 DEF WireType, Unrelated
  <2> QED
    BY <2>1, <2>2, <2>3, <2>4
<1> QED
  BY <1>1, <1>2, <1>3, <1>4, <1>5, <1>6, <1>8, <1>9, <1>10
  DEF Served, ServeChange, Serves, Stops, Superseded, Cancelled, Dropped

(* The exchanges the invariant names.                                      *)
LEMMA NamedFacts ==
  ASSUME ClientInv
  PROVE  /\ gen \in Gen /\ gen \in Nat /\ \A o \in Origin : <<o, gen>> \in Exchange
         /\ \A o \in Origin : <<o, gen>>[1] = o /\ <<o, gen>>[2] = gen
         /\ \A c \in CallOf : c \in Origin /\ on[c] \in Nat /\ on[c] <= gen
         /\ \A c \in CallOf : status[c] = "reply" =>
              Now(c) \in Exchange /\ Now(c)[1] = c /\ Now(c)[2] = on[c]
<1>1. gen \in Gen /\ gen \in Nat
  BY ExchangeFacts DEF ClientInv, WireType
<1>2. \A c \in CallOf : c \in Origin /\ on[c] \in Nat /\ on[c] <= gen
  BY OriginsOfAnId DEF ClientInv, ClientType, CallOK, CallOf
<1>3. \A c \in CallOf : status[c] = "reply" => on[c] # 0
  BY DEF ClientInv, CallOK
<1>4. \A c \in CallOf : status[c] = "reply" => on[c] \in Gen
  BY <1>1, <1>2, <1>3, BoundsAreNat DEF Gen
<1> QED
  BY <1>1, <1>2, <1>4, ExchangeFacts DEF Now

(* A step of the server keeps IInv.                                        *)
LEMMA ServedIInv ==
  ASSUME IInv, NEW s \in Exchange, Served(s) PROVE IInv'
<1> SUFFICES ASSUME ClientInv, WireInv, HeldOK, \A y \in OpenX : Awaited(y), Ordered, Settled
             PROVE  IInv'
  BY DEF IInv
<1> USE ExchangeFacts
<1>0. \A x \in Exchange : ExchangeOK(x) /\ SentBy(x)
  BY DEF WireInv
<1>p. \A x \in Exchange : x[1] \in Opens => x \in OpenX /\ OpenOK(x)
  BY DEF WireInv, OpenX
<1>1. /\ ServerKeeps /\ WireType' /\ Moved(s) /\ Told(s)
      /\ \A z \in Exchange : z # s => Unrelated(z)
  BY <1>0, <1>p, ServedShape DEF ClientInv
<1>2. /\ UNCHANGED <<current, gen, up, epochOf, cancels, pend>>
      /\ UNCHANGED <<rec, status, on, min_generation, owed, round, published, task, unseen>>
  BY <1>1 DEF ServerKeeps, client, taken
<1>3. ClientInv'
  <2>1. held' \in BOOLEAN
    BY DEF Served, ServeChange, RunRelease, FinishOpen, FinishOwed, ClientInv, ClientType
  <2>2. ClientType'
    BY <1>2, <2>1 DEF ClientInv, ClientType
  <2>3. ClientOK' /\ \A c \in CallOf : CallOK(c)'
    BY <1>2 DEF ClientInv, ClientOK, CallOK
  <2> QED
    BY <1>1, <2>2, <2>3 DEF ClientInv
<1>4. \A z \in Exchange : /\ UnderWay(z)' => UnderWay(z)
                          /\ Heard(z) => Heard(z)'
                          /\ ans[z] # "none" => ans'[z] = ans[z]
                          /\ Fresh(z) => Fresh(z)'
  <2>1. ~Fresh(s)
    BY <1>1 DEF Moved, Fresh, UnderWay, Before
  <2> QED
    BY <1>1, <1>2, <2>1 DEF Moved, Unrelated, UnderWay, Heard, Alive, Fresh
<1>5. \A z \in Exchange : Spent(z) => Spent(z)'
  <2> SUFFICES ASSUME NEW z \in Exchange, Spent(z), UnderWay(z)'
               PROVE  state'[z] # "active" /\ epochOf'[z[2]] < current'
    BY DEF Spent
  <2>1. state[z] # "active" /\ epochOf[z[2]] < current
    BY <1>4 DEF Spent
  <2>2. z # s => state'[z] # "active"
    BY <1>1, <2>1 DEF Unrelated
  <2>3. MayBegin(s) => epochOf[s[2]] = current
    BY <1>0 DEF MayBegin, ExchangeOK, Before
  <2>4. current \in Nat
    BY DEF ClientInv, WireType
  <2>5. z = s => ~MayBegin(s)
    BY <2>1, <2>3, <2>4
  <2>6. z = s => state'[z] # "active"
    BY <1>1, <2>1, <2>5 DEF Moved
  <2> QED
    BY <1>2, <2>1, <2>2, <2>6
<1>6. WireInv'
  <2>1. EpochsGrow' /\ PendOK'
    BY <1>2 DEF WireInv, EpochsGrow, PendOK, Count
  <2>2. FreshOK'
    BY <1>2, <1>4, NamedFacts, OriginsOfAnId DEF WireInv, FreshOK
  <2>3. \A x \in Exchange : SentBy(x)'
    BY <1>0, <1>2, <1>4 DEF SentBy
  <2>4. \A x \in Exchange : ExchangeOK(x)'
    BY <1>0, <1>1, <1>2 DEF Moved, Unrelated, ExchangeOK
  <2>5. ASSUME NEW x \in OpenX PROVE OpenOK(x)'
    <3>1. x \in Exchange /\ x[1] \in Opens /\ OpenOK(x)
      BY <1>p DEF OpenX
    <3>2. CASE x = s
      BY <1>1, <3>1, <3>2 DEF Moved
    <3>3. CASE x # s
      BY <1>1, <3>1, <3>3 DEF Unrelated, OpenOK, UnderWay
    <3> QED
      BY <3>2, <3>3
  <2> QED
    BY <2>1, <2>2, <2>3, <2>4, <2>5 DEF WireInv
(* A handle is dropped only when the client is past it, and taken only by
   an open that is not spent.                                              *)
<1>7. held /\ ~held' => status["open"] = "ended" /\ rec # "live"
  <2>1. s[1] = "release" => status["open"] = "ended" /\ rec # "live"
    BY <1>0, <1>1 DEF Moved, SentBy, ClientInv, ClientOK
  <2>2. s[1] = "owed" => status["open"] = "ended" /\ rec # "live"
    BY <1>0, <1>1 DEF Moved, SentBy
  <2> QED
    BY <1>1, <2>1, <2>2 DEF Told
<1>8. held' /\ ~held => s \in OpenX /\ ~Spent(s)
  BY <1>1, <1>p DEF Told, Spent, Moved
<1>9. HeldOK'
  <2>1. ASSUME status["open"] = "reply", on["open"] = gen, ans'[Now("open")] = "reply" PROVE held'
    <3>1. Now("open") \in Exchange /\ Now("open")[1] = "open"
      BY <2>1, NamedFacts DEF CallOf
    <3>2. CASE ans[Now("open")] = "reply"
      BY <1>7, <2>1, <3>2 DEF HeldOK
    <3>3. CASE ans[Now("open")] # "reply"
      BY <1>1, <2>1, <3>1, <3>3 DEF Unrelated, Told, Opens
    <3> QED
      BY <3>2, <3>3
  <2>2. ASSUME rec = "live", round = "sending", ans'[<<"reopen", gen>>] = "reply" PROVE held'
    <3>1. <<"reopen", gen>> \in Exchange /\ <<"reopen", gen>>[1] = "reopen"
      BY NamedFacts, OriginsOfAnId
    <3>2. CASE ans[<<"reopen", gen>>] = "reply"
      BY <1>7, <2>2, <3>2 DEF HeldOK
    <3>3. CASE ans[<<"reopen", gen>>] # "reply"
      BY <1>1, <2>2, <3>1, <3>3 DEF Unrelated, Told, Opens
    <3> QED
      BY <3>2, <3>3
  <2>3. LiveIsHeld'
    BY <1>2, <1>7 DEF HeldOK, LiveIsHeld
  <2> QED
    BY <1>2, <2>1, <2>2, <2>3 DEF HeldOK, Now
<1>10. \A y \in OpenX : Awaited(y)'
  BY <1>2, <1>4 DEF Awaited, OpenX
<1>11. Ordered'
  <2> SUFFICES ASSUME NEW x \in Exchange, NEW y \in OpenX PROVE OwedBehind(x, y)' /\ RunsAfter(x, y)'
    BY DEF Ordered
  <2>0. y \in Exchange /\ OwedBehind(x, y) /\ RunsAfter(x, y) /\ OpenOK(y)
    BY DEF OpenX, Ordered, WireInv
  <2>1. ASSUME x[1] = "owed", x[2] = y[2], UnderWay(x)', UnderWay(y)' PROVE ans'[y] # "none"
    BY <1>4, <2>0, <2>1 DEF OwedBehind
  <2>2. ASSUME x[1] = "owed", x[2] = y[2], state'[x] = "clear", conn'[x] = current', UnderWay(y)'
        PROVE  FALSE
    <3>0. UnderWay(x)'
      BY <2>2 DEF UnderWay, Before
    <3>1. UnderWay(y) /\ UnderWay(x)
      BY <1>4, <2>0, <2>2, <3>0
    <3>2. y \in gaveUp /\ state[y] = "active"
      BY <1>0, <2>0, <2>2, <3>1 DEF OwedBehind, OpenOK, ExchangeOK
    <3>3. Server!InTheWay # {}
      BY <2>0, <3>2 DEF Server!InTheWay, Server!Active
    <3>4. state[x] = "clear" /\ conn'[x] = conn[x]
      <4>1. state[x] = "clear"
        BY <1>1, <1>2, <2>2, <3>3 DEF Moved, Unrelated
      <4>2. conn[x] = epochOf[x[2]] /\ conn'[x] = epochOf'[x[2]]
        BY <1>0, <1>6, <2>2, <4>1 DEF ExchangeOK, Before, WireInv
      <4> QED
        BY <1>2, <4>1, <4>2
    <3> QED
      BY <1>2, <2>0, <2>2, <3>1, <3>4 DEF OwedBehind
  <2>3. ASSUME state'[x] = "active", y[2] < x[2] \/ (x[1] = "owed" /\ y[2] = x[2]) PROVE Spent(y)
    <3>1. CASE state[x] = "active"
      BY <2>0, <2>3, <3>1 DEF RunsAfter
    <3>2. CASE state[x] # "active"
      <4>1. x = s /\ MayBegin(x)
        BY <1>1, <2>3, <3>2 DEF Moved, Unrelated
      <4>2. x[1] = "owed" /\ y[2] = x[2] => ~UnderWay(y)
        BY <2>0, <4>1 DEF OwedBehind, MayBegin
      <4>3. ASSUME y[2] < x[2] PROVE state[y] # "active" /\ epochOf[y[2]] < current
        <5>1. x[2] <= gen /\ x[2] \in Gen /\ y[2] \in Gen
          <6>1. ~Fresh(x)
            BY <4>1 DEF MayBegin, Fresh
          <6>2. x[2] \in Nat /\ gen \in Nat
            BY NamedFacts
          <6> QED
            BY <2>0, <6>1, <6>2 DEF WireInv, FreshOK
        <5>2. epochOf[y[2]] < epochOf[x[2]]
          BY <4>3, <5>1 DEF WireInv, EpochsGrow
        <5>3. epochOf[x[2]] = current /\ current \in Nat
          BY <1>0, <4>1 DEF MayBegin, ExchangeOK, Before, ClientInv, WireType
        <5>4. state[y] = "active" => epochOf[y[2]] = current
          BY <1>0, <2>0, <4>1 DEF MayBegin, ExchangeOK, Before
        <5> QED
          BY <5>2, <5>3, <5>4
      <4> QED
        BY <2>3, <4>2, <4>3 DEF Spent
    <3> QED
      BY <3>1, <3>2
  <2>4. RunsAfter(x, y)'
    BY <1>5, <2>0, <2>3 DEF RunsAfter
  <2> QED
    BY <2>1, <2>2, <2>4 DEF OwedBehind
<1>12. \A y \in OpenX : Spent(y) => Spent(y)'
  BY <1>5 DEF OpenX
<1>13. NothingLeft'
  BY <1>2, <1>12 DEF Settled, NothingLeft
<1>14. NoneLands => NoneLands' /\ (~held => ~held')
  BY <1>8, <1>12 DEF NoneLands
<1>15. OwedTold'
  <2> SUFFICES ASSUME ans'[<<"owed", gen>>] = "reply"
               PROVE  ~held' /\ NoneLands' /\ status["open"] = "ended"
    BY <1>2 DEF OwedTold
  <2>0. <<"owed", gen>> \in Exchange /\ <<"owed", gen>>[1] = "owed" /\ <<"owed", gen>>[2] = gen
    BY NamedFacts, OriginsOfAnId
  <2>1. CASE ans[<<"owed", gen>>] = "reply"
    BY <1>14, <2>1 DEF Settled, OwedTold
  <2>2. CASE ans[<<"owed", gen>>] # "reply"
    <3>1. s = <<"owed", gen>> /\ ans'[s] # ans[s]
      BY <1>1, <2>0, <2>2 DEF Unrelated
    <3>2. ~held' /\ state[s] = "active"
      BY <1>1, <2>0, <3>1 DEF Told, Opens
    <3>3. status["open"] = "ended"
      BY <1>0, <1>1, <2>0, <3>1 DEF Moved, SentBy
    <3>4. ASSUME NEW y \in OpenX PROVE Spent(y)
      <4>1. y \in Exchange /\ RunsAfter(s, y)
        BY DEF OpenX, Ordered
      <4>2. y[2] > gen => ~UnderWay(y)
        BY <4>1 DEF WireInv, FreshOK, Fresh, UnderWay, Before
      <4>3. y[2] < gen \/ y[2] = gen \/ y[2] > gen
        BY <4>1, NamedFacts
      <4> QED
        BY <2>0, <3>1, <3>2, <4>1, <4>2, <4>3 DEF RunsAfter, Spent
    <3> QED
      BY <1>14, <3>2, <3>3, <3>4 DEF NoneLands
  <2> QED
    BY <2>1, <2>2
<1>16. OpenTold'
  <2> SUFFICES ASSUME status["open"] = "reply", ans'[Now("open")] \in {"reply", "errno"}
               PROVE  NoneLands' /\ (ans'[Now("open")] = "errno" => ~held')
    BY <1>2 DEF OpenTold, Now
  <2>0. Now("open") \in Exchange /\ Now("open")[1] = "open" /\ Now("open")[2] = on["open"]
    BY NamedFacts DEF CallOf
  <2>1. CASE ans[Now("open")] \in {"reply", "errno"}
    <3>1. NoneLands /\ ans'[Now("open")] = ans[Now("open")]
      BY <1>4, <2>0, <2>1 DEF Settled, OpenTold
    <3> QED
      BY <1>14, <2>1, <3>1 DEF Settled, OpenTold
  <2>2. CASE ans[Now("open")] \notin {"reply", "errno"}
    <3>1. s = Now("open") /\ ans'[s] # ans[s]
      BY <1>1, <2>0, <2>2 DEF Unrelated
    <3>2. state[s] = "active" /\ (ans'[s] = "errno" => ~held')
      BY <1>1, <2>0, <3>1 DEF Told
    <3>3. ASSUME NEW y \in OpenX PROVE Spent(y)'
      <4>0. y \in Exchange /\ y[1] \in {"open", "reopen"} /\ RunsAfter(s, y)
        BY DEF OpenX, Opens, Ordered
      <4>1. y[1] = "reopen" => ~UnderWay(y)
        BY <1>0, <4>0 DEF SentBy
      <4>2. y[1] = "open" /\ UnderWay(y) => y[2] < on["open"] \/ y = s
        <5>1. y[1] = "open" /\ UnderWay(y) => y[2] <= on["open"]
          BY <1>0, <4>0 DEF SentBy
        <5>2. y[2] \in Nat /\ on["open"] \in Nat
          BY <4>0, NamedFacts DEF CallOf
        <5>3. y[1] = "open" /\ y[2] = on["open"] => y = s
          BY <2>0, <3>1, <4>0
        <5> QED
          BY <5>1, <5>2, <5>3
      <4>3. y[2] < on["open"] => Spent(y)
        BY <2>0, <3>1, <3>2, <4>0 DEF RunsAfter
      <4>4. ~UnderWay(s)'
        BY <1>1, <2>0, <3>1 DEF Moved, OpenOK, Opens
      <4>5. Spent(y) \/ y = s
        BY <4>0, <4>1, <4>2, <4>3 DEF Spent
      <4> QED
        BY <1>5, <4>0, <4>4, <4>5 DEF Spent
    <3> QED
      BY <3>1, <3>2, <3>3 DEF NoneLands
  <2> QED
    BY <2>1, <2>2
<1>17. status["open"] = "ended" /\ owed = NotOwed /\ round # "sending" /\ ~held => ~held'
  BY <1>8 DEF Settled, NothingLeft
<1>18. ReleaseTold'
  <2> SUFFICES ASSUME status["release"] = "reply", ans'[Now("release")] = "reply", owed = NotOwed
               PROVE  ~held'
    BY <1>2 DEF ReleaseTold, Now
  <2>0. Now("release") \in Exchange /\ Now("release")[1] = "release"
    BY NamedFacts DEF CallOf
  <2>1. CASE ans[Now("release")] = "reply"
    <3>1. ~held /\ status["open"] = "ended" /\ round # "sending"
      BY <2>1 DEF Settled, ReleaseTold, ClientInv, ClientOK
    <3> QED
      BY <1>17, <3>1
  <2>2. CASE ans[Now("release")] # "reply"
    <3>1. s = Now("release") /\ ans'[s] # ans[s]
      BY <1>1, <2>0, <2>2 DEF Unrelated
    <3> QED
      BY <1>1, <2>0, <3>1 DEF Told, Opens
  <2> QED
    BY <2>1, <2>2
<1>19. NoHandleLeaks'
  BY <1>2, <1>17 DEF Settled, NoHandleLeaks, Forgotten
<1>20. Settled'
  BY <1>13, <1>15, <1>16, <1>18, <1>19 DEF Settled
<1> QED
  BY <1>3, <1>6, <1>9, <1>10, <1>11, <1>20 DEF IInv

-----------------------------------------------------------------------------
(* A step of the client that writes nothing: what it may do to the calls, the
   round and the cancels, to a live handle, and to what is left to do.     *)
GoesOn ==
  /\ status["open"] = "ended" => status'["open"] = "ended"
  /\ status["release"] # "idle" => status'["release"] # "idle"
  /\ \A c \in CallOf : status'[c] = "reply" => status[c] = "reply"
  /\ ~published' => ~published
  /\ \A y \in pend : y \in pend' \/ Heard(y)
  /\ status["open"] = "reply" =>
       status'["open"] = "reply" \/ Heard(Now("open")) \/ Now("open") \in pend'
  /\ \/ round' = round
     \/ /\ round' = "none"
        /\ round = "sending" => Heard(<<"reopen", gen>>) \/ <<"reopen", gen>> \in pend'

StaysHeld ==
  /\ rec' = "live" => rec = "live" \/ status["open"] = "reply"
  /\ LiveIsHeld'

Settles ==
  /\ status'["open"] = "ended" /\ owed' = NotOwed =>
       NoneLands \/ (status["open"] = "ended" /\ owed = NotOwed /\ round' = round)
  /\ status'["release"] = "reply" /\ owed' = NotOwed => owed = NotOwed \/ ~held
  /\ Forgotten' => Forgotten \/ ~held

(* Such a step keeps IInv, if it keeps the counts of cancels right.        *)
LEMMA QuietIInv ==
  ASSUME IInv, ClientInv', PendOK', UNCHANGED <<session, link, wire, ans, held, on>>,
         GoesOn, StaysHeld, Settles
  PROVE  IInv'
<1> SUFFICES ASSUME ClientInv, WireInv, HeldOK, \A y \in OpenX : Awaited(y), Ordered, Settled
             PROVE  IInv'
  BY DEF IInv
<1>1. UNCHANGED <<current, state, conn, gaveUp, gen, up, epochOf>>
  BY DEF session, link
<1>2. \A z \in Exchange : /\ UnderWay(z)' <=> UnderWay(z)
                          /\ Heard(z)' <=> Heard(z)
                          /\ Fresh(z)' <=> Fresh(z)
                          /\ Spent(z)' <=> Spent(z)
  BY <1>1 DEF UnderWay, Heard, Alive, Fresh, Spent
<1>3. WireInv'
  <2>1. EpochsGrow'
    BY <1>1 DEF WireInv, EpochsGrow
  <2>2. FreshOK'
    BY <1>1, <1>2, NamedFacts, OriginsOfAnId DEF WireInv, FreshOK, GoesOn
  <2>3. \A x \in Exchange : ExchangeOK(x)'
    BY <1>1 DEF WireInv, ExchangeOK
  <2>4. \A x \in Exchange : SentBy(x)'
    BY <1>1, <1>2 DEF WireInv, SentBy, GoesOn, StaysHeld
  <2>5. \A x \in OpenX : OpenOK(x)'
    BY <1>1 DEF WireInv, OpenOK, UnderWay
  <2> QED
    BY <2>1, <2>2, <2>3, <2>4, <2>5 DEF WireInv
<1>4. HeldOK'
  <2>1. round' = "sending" => round = "sending" /\ (rec' = "live" => rec = "live")
    BY DEF ClientInv, ClientOK, GoesOn, StaysHeld
  <2> QED
    BY <1>1, <2>1 DEF HeldOK, Now, CallOf, GoesOn, StaysHeld
<1>5. \A y \in OpenX : Awaited(y)'
  <2> SUFFICES ASSUME NEW y \in OpenX, UnderWay(y)
               PROVE  \/ Heard(y) \/ y \in pend'
                      \/ y[1] = "open" /\ y[2] = on["open"] /\ status'["open"] = "reply"
                      \/ y[1] = "reopen" /\ y[2] = gen /\ round' = "sending"
    BY <1>1, <1>2 DEF Awaited, OpenX
  <2>0. y \in Exchange
    BY DEF OpenX
  <2>1. y[1] = "open" /\ y[2] = on["open"] /\ status["open"] = "reply" => y = Now("open")
    BY <2>0, NamedFacts, ExchangeFacts DEF CallOf
  <2>2. y[1] = "reopen" /\ y[2] = gen => y = <<"reopen", gen>>
    BY <2>0, NamedFacts, ExchangeFacts, OriginsOfAnId
  <2> QED
    BY <2>1, <2>2 DEF Awaited, GoesOn
<1>6. Ordered'
  BY <1>1, <1>2 DEF Ordered, OwedBehind, RunsAfter, OpenX
<1>7. NoneLands' <=> NoneLands
  BY <1>2 DEF NoneLands, OpenX
<1>8. NothingLeft'
  BY <1>1, <1>2 DEF Settled, NothingLeft, NoneLands, OpenX, Settles
<1>9. OwedTold' /\ OpenTold'
  <2>1. OwedTold'
    BY <1>1, <1>7 DEF Settled, OwedTold, GoesOn
  <2>2. OpenTold'
    BY <1>1, <1>7 DEF Settled, OpenTold, Now, CallOf, GoesOn
  <2> QED
    BY <2>1, <2>2
<1>10. ReleaseTold' /\ NoHandleLeaks'
  BY DEF Settled, ReleaseTold, NoHandleLeaks, Now, CallOf, GoesOn, Settles
<1> QED
  BY <1>3, <1>4, <1>5, <1>6, <1>8, <1>9, <1>10 DEF IInv, Settled

(* One that leaves the counts of cancels alone.                            *)
LEMMA AloneIInv ==
  ASSUME IInv, ClientInv', UNCHANGED <<wireVars, held, on>>, GoesOn, StaysHeld, Settles
  PROVE  IInv'
<1>1. UNCHANGED <<session, link, wire, ans, gen, cancels, pend>>
  BY DEF wireVars, streams, link, pending
<1>2. PendOK
  BY DEF IInv, WireInv
<1>3. PendOK'
  BY <1>1, <1>2 DEF PendOK, Count, GoesOn
<1> QED
  BY <1>1, <1>3, QuietIInv

(* A step of the client alone keeps IInv.                                  *)
LEMMA ClientAloneIInv ==
  ASSUME IInv, ClientAlone PROVE IInv'
<1> SUFFICES ASSUME ClientInv, HeldOK, Settled, WireInv
             PROVE  IInv'
  BY DEF IInv
<1> USE DEF client, taken, NotOwed, Unsent, CallOf
<1>a. ClientInv'
  BY ClientAloneInv
<1>b. ClientType /\ ClientOK /\ LiveIsHeld /\ NothingLeft /\ OwedTold /\ OpenTold /\ ReleaseTold
  BY DEF ClientInv, HeldOK, Settled
<1>c. /\ status["open"] \in Statuses /\ status["release"] \in Statuses
      /\ status \in [{"open", "release"} -> Statuses]
  BY <1>b DEF ClientType
<1>w. UNCHANGED wireVars => UNCHANGED <<pend, gen, up, ans>>
  BY DEF wireVars, streams, link, pending
<1>1. CASE StartOpen
  <2>1. GoesOn
    BY <1>c, <1>w, <1>1 DEF StartOpen, Become, GoesOn
  <2>2. StaysHeld
    BY <1>b, <1>c, <1>1 DEF StartOpen, Become, StaysHeld, LiveIsHeld
  <2>3. Settles
    BY <1>c, <1>1 DEF StartOpen, Become, Settles, Forgotten
  <2> QED
    BY <1>a, <1>1, <2>1, <2>2, <2>3, AloneIInv DEF StartOpen
<1>2. CASE StartRelease
  <2>1. GoesOn
    BY <1>b, <1>c, <1>w, <1>2 DEF StartRelease, ReleaseBegins, Become, GoesOn, ClientOK
  <2>2. StaysHeld
    BY <1>2 DEF StartRelease, StaysHeld, LiveIsHeld
  <2>3. Settles
    BY <1>b, <1>c, <1>2
    DEF StartRelease, ReleaseBegins, Become, Settles, Forgotten, ClientOK
  <2> QED
    BY <1>a, <1>2, <2>1, <2>2, <2>3, AloneIInv DEF StartRelease
<1>3. ASSUME NEW c \in CallOf, NotSent(c) PROVE IInv'
  <2>1. GoesOn
    BY <1>w, <1>3 DEF NotSent, GoesOn
  <2>2. StaysHeld
    BY <1>b, <1>3 DEF NotSent, StaysHeld, LiveIsHeld
  <2>3. Settles
    BY <1>3 DEF NotSent, Settles, Forgotten
  <2> QED
    BY <1>a, <1>3, <2>1, <2>2, <2>3, AloneIInv DEF NotSent
<1>4. ASSUME NEW c \in CallOf, Lost(c) PROVE IInv'
  <2> USE DEF Lost, EndUnknown, OweRelease, OwesNothing, Become
  <2>0. Heard(Now(c))
    BY <1>4 DEF ReplyLost, Heard
  <2>1. GoesOn
    BY <1>c, <1>w, <1>4, <2>0 DEF GoesOn
  <2>2. StaysHeld
    BY <1>b, <1>4 DEF StaysHeld, LiveIsHeld
  <2>3. Settles
    BY <1>c, <1>4 DEF Settles, Forgotten
  <2> QED
    BY <1>a, <1>4, <2>1, <2>2, <2>3, AloneIInv
<1>5. ASSUME NEW c \in CallOf, GiveUpUnsent(c) PROVE IInv'
  <2> USE DEF GiveUpUnsent, EndUnknown, OweRelease, Become
  <2>1. GoesOn
    BY <1>c, <1>w, <1>5 DEF GoesOn
  <2>2. StaysHeld
    BY <1>b, <1>5 DEF StaysHeld, LiveIsHeld
  <2>3. Settles
    BY <1>c, <1>5 DEF Settles, Forgotten
  <2> QED
    BY <1>a, <1>5, <2>1, <2>2, <2>3, AloneIInv
<1>6. CASE GiveUpRelease
  <2> USE DEF GiveUpRelease, EndUnknown, OweRelease, Become
  <2>1. GoesOn
    BY <1>c, <1>w, <1>6 DEF GoesOn
  <2>2. StaysHeld
    BY <1>b, <1>6 DEF StaysHeld, LiveIsHeld
  <2>3. Settles
    BY <1>c, <1>6 DEF Settles, Forgotten
  <2> QED
    BY <1>a, <1>6, <2>1, <2>2, <2>3, AloneIInv
<1>7. CASE OpenReplied
  <2> USE DEF OpenReplied, OweRelease, OwesNothing, Become
  <2>0. Heard(Now("open")) /\ NoneLands /\ rec # "live"
    BY <1>b, <1>7 DEF Heard, OpenTold, ClientOK
  <2>1. GoesOn
    BY <1>c, <1>w, <1>7, <2>0 DEF GoesOn
  <2>2. StaysHeld
    BY <1>7, <2>0 DEF StaysHeld, LiveIsHeld, HeldOK
  <2>3. Settles
    BY <1>b, <1>c, <1>7, <2>0 DEF Settles, Forgotten, OpenTold, ClientOK
  <2> QED
    BY <1>a, <1>7, <2>1, <2>2, <2>3, AloneIInv
<1>8. CASE ReleaseReplied
  <2> USE DEF ReleaseReplied, Become
  <2>1. GoesOn
    BY <1>c, <1>w, <1>8 DEF GoesOn
  <2>2. StaysHeld
    BY <1>b, <1>8 DEF StaysHeld, LiveIsHeld
  <2>3. Settles
    BY <1>b, <1>c, <1>8 DEF Settles, Forgotten, ReleaseTold
  <2> QED
    BY <1>a, <1>8, <2>1, <2>2, <2>3, AloneIInv
<1>9. CASE MarkOwed \/ TaskWakes
  <2> USE DEF MarkOwed, TaskWakes
  <2>1. GoesOn
    BY <1>w, <1>9 DEF GoesOn
  <2>2. StaysHeld
    BY <1>b, <1>9 DEF StaysHeld, LiveIsHeld
  <2>3. Settles
    BY <1>9 DEF Settles, Forgotten
  <2> QED
    BY <1>a, <1>9, <2>1, <2>2, <2>3, AloneIInv
<1>10. CASE LookAndSend /\ UNCHANGED wireVars
  <2> USE DEF LookAndSend
  <2>0. owed' = NotOwed => owed = NotOwed
    BY <1>10, NamedFacts DEF OwedSendable
  <2>1. GoesOn
    BY <1>w, <1>10 DEF GoesOn
  <2>2. StaysHeld
    BY <1>b, <1>10 DEF StaysHeld, LiveIsHeld
  <2>3. Settles
    BY <1>10, <2>0 DEF Settles, Forgotten
  <2> QED
    BY <1>a, <1>10, <2>1, <2>2, <2>3, AloneIInv
<1>11. CASE Settle
  <2> USE DEF Settle
  <2>0. ~held /\ NoneLands
    BY <1>b, <1>11 DEF OwedTold
  <2>1. GoesOn
    BY <1>w, <1>11 DEF GoesOn
  <2>2. StaysHeld
    BY <1>b, <1>11 DEF StaysHeld, LiveIsHeld
  <2>3. Settles
    BY <2>0 DEF Settles
  <2> QED
    BY <1>a, <1>11, <2>1, <2>2, <2>3, AloneIInv
<1>12. CASE TaskEnds
  <2> USE DEF TaskEnds, Undelivered
  <2>1. GoesOn
    BY <1>w, <1>12 DEF GoesOn
  <2>2. StaysHeld
    BY <1>b, <1>12 DEF StaysHeld, LiveIsHeld
  <2>3. Settles
    BY <1>12 DEF Settles, Forgotten
  <2> QED
    BY <1>a, <1>12, <2>1, <2>2, <2>3, AloneIInv
<1>13. CASE Publish
  <2> USE DEF Publish
  <2>1. GoesOn
    BY <1>w, <1>13 DEF GoesOn
  <2>2. StaysHeld
    BY <1>b, <1>13 DEF StaysHeld, LiveIsHeld
  <2>3. Settles
    BY <1>13 DEF Settles, Forgotten
  <2> QED
    BY <1>a, <1>13, <2>1, <2>2, <2>3, AloneIInv
<1>14. CASE ReopenReplied
  <2>0. Heard(<<"reopen", gen>>)
    BY <1>14 DEF ReopenReplied, Heard
  <2>1. /\ UNCHANGED <<wireVars, held, status, on, published>> /\ round = "sending" /\ round' = "none"
        /\ \/ rec' = "live" /\ rec = "live" /\ owed' = owed /\ ans[<<"reopen", gen>>] = "reply"
           \/ rec' # "live" /\ owed' # NotOwed
    BY <1>14 DEF ReopenReplied, ReopenEnds, Killed, OweRelease, OwesNothing
  <2>2. GoesOn
    BY <1>w, <2>0, <2>1 DEF GoesOn
  <2>3. StaysHeld
    BY <2>1 DEF StaysHeld, LiveIsHeld, HeldOK
  <2>4. ASSUME ans[<<"reopen", gen>>] = "reply", status["open"] = "ended", owed = NotOwed PROVE NoneLands
    <3>1. <<"reopen", gen>> \in OpenX
      BY NamedFacts, OriginsOfAnId DEF OpenX, Opens
    <3>2. Spent(<<"reopen", gen>>)
      BY <2>4, <3>1 DEF WireInv, OpenOK, Spent
    <3> QED
      BY <1>b, <2>4, <3>2 DEF NothingLeft, NoneLands
  <2>5. Settles
    BY <1>b, <2>1, <2>4 DEF Settles, Forgotten, ClientOK
  <2> QED
    BY <1>a, <2>1, <2>2, <2>3, <2>5, AloneIInv
<1>15. CASE ReopenLost
  <2>0. round = "sending" => Heard(<<"reopen", gen>>)
    BY <1>15 DEF ReopenLost, Heard, ReplyLost
  <2>1. /\ UNCHANGED <<wireVars, held, status, on, published>> /\ round' = "none"
        /\ rec' # "live" /\ owed' # NotOwed
    BY <1>15 DEF ReopenLost, ReopenEnds, Killed, OweRelease, OwesNothing
  <2>2. GoesOn
    BY <1>w, <2>0, <2>1 DEF GoesOn
  <2>3. StaysHeld
    BY <2>1 DEF StaysHeld, LiveIsHeld
  <2>4. Settles
    BY <2>1 DEF Settles, Forgotten
  <2> QED
    BY <1>a, <2>1, <2>2, <2>3, <2>4, AloneIInv
<1> QED
  BY <1>1, <1>2, <1>3, <1>4, <1>5, <1>6, <1>7, <1>8, <1>9, <1>10, <1>11, <1>12, <1>13,
     <1>14, <1>15 DEF ClientAlone

-----------------------------------------------------------------------------
(* A change given up on is counted before it is let go.                    *)
LEMMA CountedIInv ==
  ASSUME IInv, NEW x \in OpenX, CountGiveUp(x), x \notin pend,
         x[2] <= gen, x[1] = "open" => status'["open"] = "ended",
         x[1] = "reopen" => round' = "none",
         status["open"] = "ended" => status'["open"] = "ended",
         round = "none" => round' = "none"
  PROVE  PendOK' /\ UNCHANGED <<session, link, wire, ans, gen>>
<1> USE ExchangeFacts
<1>1. UNCHANGED <<session, link, wire, ans, gen>>
  BY DEF CountGiveUp, link
<1>2. PendOK /\ WireType /\ x \in Exchange /\ x[1] \in {"open", "reopen"}
  BY DEF IInv, WireInv, ClientInv, OpenX, Opens
<1>3. pend' = pend \cup {x} /\ cancels' = [cancels EXCEPT ![x[2]] = @ + 1]
  BY DEF CountGiveUp
<1>4. ASSUME NEW g \in Gen
      PROVE  cancels'[g] = Count(<<"open", g>>)' + Count(<<"reopen", g>>)'
  <2>0. cancels[g] = Count(<<"open", g>>) + Count(<<"reopen", g>>) /\ cancels \in [Gen -> Int]
    BY <1>2 DEF PendOK, WireType
  <2>1. \A o \in {"open", "reopen"} :
          <<o, g>> \in Exchange /\ <<o, g>>[1] = o /\ <<o, g>>[2] = g
    BY OriginsOfAnId
  <2>2. CASE g # x[2]
    <3>1. \A o \in {"open", "reopen"} : <<o, g>> \in pend' <=> <<o, g>> \in pend
      BY <1>3, <2>1, <2>2
    <3> QED
      BY <1>3, <2>0, <2>2, <3>1 DEF Count
  <2>3. CASE g = x[2]
    <3>1. x = <<"open", g>> \/ x = <<"reopen", g>>
      BY <1>2, <2>1, <2>3
    <3>2. <<"open", g>> # <<"reopen", g>>
      BY <2>1
    <3> QED
      BY <1>3, <2>0, <2>3, <3>1, <3>2 DEF Count
  <2> QED
    BY <2>2, <2>3
<1>5. pend' \subseteq OpenX
  BY <1>2, <1>3 DEF PendOK
<1>6. \A y \in pend' : /\ y[2] <= gen'
                       /\ y[1] = "open" => status'["open"] = "ended"
                       /\ y[1] = "reopen" /\ y[2] = gen' => round' = "none"
  BY <1>1, <1>2, <1>3 DEF PendOK
<1> QED
  BY <1>1, <1>4, <1>5, <1>6 DEF PendOK, OpenX

(* The give-ups, and what is heard of them, keep IInv.                     *)
LEMMA GiveUpsIInv ==
  ASSUME IInv, GiveUpOpen \/ GiveUpReopen \/ \E x \in Exchange : Cancels(x) PROVE IInv'
<1> SUFFICES ASSUME ClientInv, HeldOK, Settled, WireInv
             PROVE  IInv'
  BY DEF IInv
<1> USE DEF client, taken, NotOwed, Unsent, CallOf
<1>a. ClientInv'
  BY ClientWritesInv DEF ClientWrites
<1>b. ClientType /\ ClientOK /\ LiveIsHeld /\ PendOK
  BY DEF ClientInv, HeldOK, WireInv
<1>c. /\ status["open"] \in Statuses /\ status["release"] \in Statuses
      /\ status \in [{"open", "release"} -> Statuses]
  BY <1>b DEF ClientType
<1>1. CASE GiveUpOpen
  <2>0. Now("open") \in OpenX /\ Now("open")[1] = "open" /\ Now("open")[2] <= gen /\ status["open"] = "reply"
    BY <1>1, NamedFacts DEF GiveUpOpen, OpenX, Opens
  <2>1. /\ UNCHANGED <<held, rec, on, round, published>> /\ CountGiveUp(Now("open"))
        /\ status' = [status EXCEPT !["open"] = "ended"] /\ owed' # NotOwed
        /\ pend' = pend \cup {Now("open")}
    BY <1>1 DEF GiveUpOpen, Become, CountGiveUp
  <2>2. status'["open"] = "ended" /\ status'["release"] = status["release"]
    BY <1>c, <2>1
  <2>3. Now("open") \notin pend
    BY <1>b, <2>0, <1>1 DEF PendOK, GiveUpOpen
  <2>4. PendOK' /\ UNCHANGED <<session, link, wire, ans, gen>>
    BY <2>0, <2>1, <2>2, <2>3, CountedIInv
  <2>5. GoesOn
    BY <2>1, <2>2 DEF GoesOn
  <2>6. StaysHeld /\ Settles
    BY <1>b, <2>1 DEF StaysHeld, LiveIsHeld, Settles, Forgotten
  <2> QED
    BY <1>a, <2>1, <2>4, <2>5, <2>6, QuietIInv
<1>2. CASE GiveUpReopen
  <2>0. <<"reopen", gen>> \in OpenX /\ <<"reopen", gen>>[1] = "reopen" /\ <<"reopen", gen>>[2] = gen
        /\ gen \in Nat
    BY NamedFacts, OriginsOfAnId DEF OpenX, Opens
  <2>1. /\ UNCHANGED <<held, status, on, published>> /\ CountGiveUp(<<"reopen", gen>>)
        /\ round = "sending" /\ round' = "none" /\ rec' # "live" /\ owed' # NotOwed
        /\ pend' = pend \cup {<<"reopen", gen>>}
    BY <1>2 DEF GiveUpReopen, CountGiveUp, ReopenEnds, Killed, OweRelease, OwesNothing
  <2>3. <<"reopen", gen>> \notin pend
    BY <1>b, <2>0, <2>1 DEF PendOK
  <2>4. PendOK' /\ UNCHANGED <<session, link, wire, ans, gen>>
    BY <2>0, <2>1, <2>3, CountedIInv
  <2>5. GoesOn
    BY <2>1 DEF GoesOn
  <2>6. StaysHeld /\ Settles
    BY <2>1 DEF StaysHeld, LiveIsHeld, Settles, Forgotten
  <2> QED
    BY <1>a, <2>1, <2>4, <2>5, <2>6, QuietIInv
<1>3. ASSUME NEW x \in Exchange, Cancels(x) PROVE IInv'
  <2>1. /\ UNCHANGED <<held, status, on, published, rec, owed, round, session, link, wire, ans, gen>>
        /\ x \in pend /\ Heard(x) /\ pend' = pend \ {x}
        /\ cancels' = [cancels EXCEPT ![x[2]] = @ - 1]
    BY <1>3 DEF Cancels, CancelAnswered, streams, link
  <2>2. GoesOn
    BY <2>1 DEF GoesOn
  <2>3. StaysHeld /\ Settles
    BY <1>b, <2>1 DEF StaysHeld, LiveIsHeld, Settles, Forgotten
  <2>4. ASSUME NEW g \in Gen
        PROVE  cancels'[g] = Count(<<"open", g>>)' + Count(<<"reopen", g>>)'
    <3> USE ExchangeFacts
    <3>0. cancels[g] = Count(<<"open", g>>) + Count(<<"reopen", g>>) /\ cancels \in [Gen -> Int]
      BY <1>b DEF PendOK, ClientInv, WireType
    <3>1. \A o \in {"open", "reopen"} :
            <<o, g>> \in Exchange /\ <<o, g>>[1] = o /\ <<o, g>>[2] = g
      BY OriginsOfAnId
    <3>2. CASE g # x[2]
      <4>1. \A o \in {"open", "reopen"} : <<o, g>> \in pend' <=> <<o, g>> \in pend
        BY <2>1, <3>1, <3>2
      <4> QED
        BY <2>1, <3>0, <3>2, <4>1 DEF Count
    <3>3. CASE g = x[2]
      <4>1. x = <<"open", g>> \/ x = <<"reopen", g>>
        BY <1>b, <2>1, <3>1, <3>3 DEF PendOK, OpenX, Opens
      <4>2. <<"open", g>> # <<"reopen", g>>
        BY <3>1
      <4> QED
        BY <2>1, <3>0, <3>3, <4>1, <4>2 DEF Count
    <3> QED
      BY <3>2, <3>3
  <2>5. PendOK'
    BY <1>b, <2>1, <2>4 DEF PendOK, OpenX
  <2> QED
    BY <1>a, <2>1, <2>2, <2>3, <2>5, QuietIInv
<1> QED
  BY <1>1, <1>2, <1>3

-----------------------------------------------------------------------------
(* A request is written.                                                   *)
LEMMA WroteFacts ==
  ASSUME IInv, NEW x \in Exchange, Write(x)
  PROVE  /\ UNCHANGED <<current, state, conn, gaveUp, gen, up, epochOf, ans, cancels, pend>>
         /\ UnderWay(x)' /\ Alive(x[2]) /\ x[2] = gen /\ wire' = wire \cup {x}
         /\ \A z \in Exchange : Heard(z)' <=> Heard(z)
         /\ \A z \in Exchange : z # x => /\ UnderWay(z)' <=> UnderWay(z)
                                         /\ Fresh(z)' <=> Fresh(z)
                                         /\ Spent(z)' <=> Spent(z)
         /\ EpochsGrow' /\ \A z \in Exchange : ExchangeOK(z)'
<1>1. /\ UNCHANGED <<current, state, conn, gaveUp, gen, up, epochOf, ans, cancels, pend>>
      /\ wire' = wire \cup {x} /\ Alive(x[2]) /\ x[2] = gen
  BY DEF Write, Alive, session, link, pending
<1>2. UnderWay(x)' /\ \A z \in Exchange : Heard(z)' <=> Heard(z)
  BY <1>1 DEF UnderWay, Heard, Alive
<1>3. \A z \in Exchange : z # x => UnderWay(z)' <=> UnderWay(z)
  BY <1>1 DEF UnderWay
<1>4. \A z \in Exchange : z # x => (Fresh(z)' <=> Fresh(z)) /\ (Spent(z)' <=> Spent(z))
  BY <1>1, <1>3 DEF Fresh, Spent
<1>5. EpochsGrow'
  BY <1>1 DEF IInv, WireInv, EpochsGrow
<1>6. \A z \in Exchange : ExchangeOK(z)'
  BY <1>1 DEF IInv, WireInv, ExchangeOK
<1> QED
  BY <1>1, <1>2, <1>3, <1>4, <1>5, <1>6

(* The open is sent.                                                       *)
LEMMA SendOpenIInv ==
  ASSUME IInv, Send("open") PROVE IInv'
<1> SUFFICES ASSUME ClientInv, WireInv, HeldOK, \A y \in OpenX : Awaited(y), Ordered, Settled
             PROVE  IInv'
  BY DEF IInv
<1> USE ExchangeFacts DEF CallOf
<1> DEFINE x == <<"open", gen>>
<1>a. ClientInv'
  BY ClientWritesInv DEF ClientWrites
<1>b. ClientType /\ ClientOK
  BY DEF ClientInv
<1>1. x \in Exchange /\ x \in OpenX /\ x[1] = "open" /\ x[2] = gen /\ gen \in Nat /\ Write(x)
  BY NamedFacts, OriginsOfAnId DEF OpenX, Opens, Send
<1>2. /\ status["open"] = "waiting" /\ status'["open"] = "reply" /\ on'["open"] = gen
      /\ status'["release"] = status["release"] /\ on'["release"] = on["release"]
      /\ UNCHANGED <<held, rec, owed, round, published>>
  BY <1>b DEF Send, Become, ClientType
<1>3. on["open"] < gen /\ rec = "none" /\ round = "none" /\ owed = NotOwed /\ status["release"] = "idle"
  <2>1. on["open"] < gen
    <3>1. /\ on["open"] \in Nat /\ min_generation["open"] \in Nat /\ gen >= min_generation["open"]
          /\ CallOK("open") /\ gen >= 1
      BY <1>1 DEF Send, ClientInv, ClientType, WireType
    <3> QED
      BY <1>1, <1>2, <3>1 DEF CallOK
  <2> QED
    BY <1>b, <1>2, <2>1 DEF ClientOK
<1>4. Fresh(x)
  BY <1>3 DEF WireInv, FreshOK
<1>5. /\ UNCHANGED <<current, state, conn, gaveUp, gen, up, epochOf, ans, cancels, pend>>
      /\ \A z \in Exchange : Heard(z)' <=> Heard(z)
      /\ \A z \in Exchange : z # x => /\ UnderWay(z)' <=> UnderWay(z)
                                      /\ Fresh(z)' <=> Fresh(z)
                                      /\ Spent(z)' <=> Spent(z)
      /\ EpochsGrow' /\ \A z \in Exchange : ExchangeOK(z)'
  BY <1>1, WroteFacts
(* No release is owed, nor any reopen sent, before the open has ended.     *)
<1>6. \A z \in Exchange : z[1] = "owed" => ~UnderWay(z)
  BY <1>2 DEF WireInv, SentBy
<1>7. WireInv'
  <2>1. FreshOK'
    <3>1. \A z \in Exchange : z[2] > gen => z # x
      BY <1>1
    <3>2. \A o \in Origin \ {"open"} : <<o, gen>> \in Exchange /\ <<o, gen>> # x
      BY <1>1, NamedFacts
    <3> QED
      BY <1>2, <1>3, <1>5, <3>1, <3>2, OriginsOfAnId DEF WireInv, FreshOK
  <2>2. PendOK'
    BY <1>2, <1>5 DEF WireInv, PendOK, Count
  <2>3. ASSUME NEW z \in Exchange PROVE SentBy(z)'
    <3>1. SentBy(z) /\ on["open"] \in Nat /\ z[2] \in Nat
      BY <1>b DEF WireInv, ClientType
    <3>2. CASE z = x
      BY <1>1, <1>2, <3>2 DEF SentBy
    <3>3. CASE z # x
      BY <1>1, <1>2, <1>3, <1>5, <3>1, <3>3 DEF SentBy
    <3> QED
      BY <3>2, <3>3
  <2>4. ASSUME NEW z \in OpenX PROVE OpenOK(z)'
    <3>1. z \in Exchange /\ OpenOK(z)
      BY DEF OpenX, WireInv
    <3>2. CASE z = x
      BY <1>4, <1>5, <3>2 DEF OpenOK, Fresh
    <3>3. CASE z # x
      <4>1. z \in wire' <=> z \in wire
        BY <1>1, <3>3 DEF Write
      <4> QED
        BY <1>5, <3>1, <3>3, <4>1 DEF OpenOK
    <3> QED
      BY <3>2, <3>3
  <2> QED
    BY <1>5, <2>1, <2>2, <2>3, <2>4 DEF WireInv
<1>8. HeldOK'
  <2>1. Now("open")' = x /\ ans[x] = "none"
    BY <1>2, <1>4 DEF Now, Fresh
  <2> QED
    BY <1>2, <1>3, <1>5, <2>1 DEF HeldOK, LiveIsHeld
<1>9. ASSUME NEW y \in OpenX PROVE Awaited(y)'
  <2>1. y \in Exchange /\ Awaited(y)
    BY DEF OpenX
  <2>2. CASE y = x
    BY <1>1, <1>2, <2>2 DEF Awaited
  <2>3. CASE y # x
    BY <1>2, <1>3, <1>5, <2>1, <2>3 DEF Awaited
  <2> QED
    BY <2>2, <2>3
<1>10. ASSUME NEW z \in Exchange, NEW y \in OpenX PROVE OwedBehind(z, y)' /\ RunsAfter(z, y)'
  <2>0. y \in Exchange /\ OwedBehind(z, y) /\ RunsAfter(z, y) /\ z[2] \in Nat
    BY DEF OpenX, Ordered
  <2>1. z[1] = "owed" => ~UnderWay(z)' /\ state'[z] \notin Before
    BY <1>1, <1>5, <1>6 DEF UnderWay
  <2>2. OwedBehind(z, y)'
    BY <2>1 DEF OwedBehind, Before
  <2>3. state[z] = "active" => z[2] <= gen
    <3>1. z[2] > gen => Fresh(z)
      BY DEF WireInv, FreshOK
    <3> QED
      BY <1>1, <2>0, <3>1 DEF Fresh
  <2>4. y = x => RunsAfter(z, y)'
    BY <1>1, <1>5, <2>0, <2>1, <2>3 DEF RunsAfter, Before
  <2>5. y # x => RunsAfter(z, y)'
    BY <1>5, <2>0 DEF RunsAfter
  <2> QED
    BY <2>2, <2>4, <2>5
<1>11. Settled'
  <2>1. Now("open")' = x /\ ans'[x] = "none"
    BY <1>2, <1>4, <1>5 DEF Now, Fresh
  <2>2. ans[<<"owed", gen>>] # "reply"
    BY <1>2 DEF Settled, OwedTold
  <2>3. NothingLeft' /\ ReleaseTold' /\ NoHandleLeaks'
    BY <1>2, <1>3 DEF NothingLeft, ReleaseTold, NoHandleLeaks, Forgotten
  <2>4. OwedTold' /\ OpenTold'
    BY <1>5, <2>1, <2>2 DEF OwedTold, OpenTold
  <2> QED
    BY <2>3, <2>4 DEF Settled
<1> QED
  BY <1>a, <1>7, <1>8, <1>9, <1>10, <1>11 DEF IInv, Ordered

(* A request that is no open is sent: the opens stay as they were.         *)
LEMMA WroteIInv ==
  ASSUME IInv, ClientInv', NEW x \in Exchange, Write(x), x[1] \in {"release", "owed"},
         UNCHANGED <<held, rec, round, published>>, status'["open"] = status["open"],
         on'["open"] = on["open"], status["release"] # "idle" => status'["release"] # "idle",
         x[1] = "owed" => UNCHANGED <<status, on>> /\ published,
         x[1] = "release" => owed' = owed /\ on'["release"] = gen /\ Fresh(x),
         SentBy(x)',
         x[1] = "owed" => \A y \in OpenX : y[2] = gen /\ UnderWay(y) => ans[y] # "none",
         owed' = NotOwed => owed = NotOwed,
         ReleaseTold', NoHandleLeaks'
  PROVE  IInv'
<1> SUFFICES ASSUME ClientInv, WireInv, HeldOK, \A y \in OpenX : Awaited(y), Ordered, Settled
             PROVE  IInv'
  BY DEF IInv
<1> USE ExchangeFacts DEF CallOf
<1>1. /\ UNCHANGED <<current, state, conn, gaveUp, gen, up, epochOf, ans, cancels, pend>>
      /\ x[2] = gen /\ wire' = wire \cup {x}
      /\ \A z \in Exchange : Heard(z)' <=> Heard(z)
      /\ \A z \in Exchange : z # x => /\ UnderWay(z)' <=> UnderWay(z)
                                      /\ Fresh(z)' <=> Fresh(z)
                                      /\ Spent(z)' <=> Spent(z)
      /\ EpochsGrow' /\ \A z \in Exchange : ExchangeOK(z)'
  BY WroteFacts
<1>2. gen \in Nat /\ \A y \in OpenX : y \in Exchange /\ y # x
  BY NamedFacts DEF OpenX, Opens
<1>3. WireInv'
  <2>1. FreshOK'
    <3>1. \A z \in Exchange : z[2] > gen => z # x
      BY <1>1, <1>2
    <3>2. \A o \in Origin : <<o, gen>> \in Exchange /\ <<o, gen>>[1] = o
      BY NamedFacts
    <3>3. <<"open", gen>> # x /\ <<"reopen", gen>> # x
      BY <3>2, OriginsOfAnId
    <3>4. on["open"] < gen => Fresh(<<"open", gen>>)'
      BY <1>1, <3>2, <3>3, OriginsOfAnId DEF WireInv, FreshOK
    <3>5. on'["release"] < gen => Fresh(<<"release", gen>>)'
      BY <1>1, <1>2, <3>2, OriginsOfAnId DEF WireInv, FreshOK
    <3>6. ~published => Fresh(<<"owed", gen>>)'
      BY <1>1, <3>2, OriginsOfAnId DEF WireInv, FreshOK
    <3>7. round = "unsent" => Fresh(<<"reopen", gen>>)'
      BY <1>1, <3>2, <3>3, OriginsOfAnId DEF WireInv, FreshOK
    <3>8. \A z \in Exchange : z[2] > gen => Fresh(z)'
      BY <1>1, <3>1 DEF WireInv, FreshOK
    <3> QED
      BY <1>1, <3>4, <3>5, <3>6, <3>7, <3>8 DEF FreshOK
  <2>2. PendOK'
    BY <1>1 DEF WireInv, PendOK, Count
  <2>3. \A z \in Exchange : SentBy(z)'
    BY <1>1 DEF WireInv, SentBy
  <2>4. ASSUME NEW z \in OpenX PROVE OpenOK(z)'
    <3>1. OpenOK(z) /\ (z \in wire' <=> z \in wire) /\ (UnderWay(z)' <=> UnderWay(z))
      BY <1>1, <1>2 DEF WireInv
    <3> QED
      BY <1>1, <3>1 DEF OpenOK
  <2> QED
    BY <1>1, <2>1, <2>2, <2>3, <2>4 DEF WireInv
<1>4. HeldOK'
  BY <1>1 DEF HeldOK, LiveIsHeld, Now
<1>5. \A y \in OpenX : Awaited(y)'
  BY <1>1, <1>2 DEF Awaited
<1>6. ASSUME NEW z \in Exchange, NEW y \in OpenX PROVE OwedBehind(z, y)' /\ RunsAfter(z, y)'
  <2>0. OwedBehind(z, y) /\ RunsAfter(z, y) /\ (UnderWay(y)' <=> UnderWay(y)) /\ (Spent(y)' <=> Spent(y))
    BY <1>1, <1>2 DEF Ordered
  <2>1. RunsAfter(z, y)'
    BY <1>1, <2>0 DEF RunsAfter
  <2>2. z[1] = "owed" /\ z[2] = y[2] /\ UnderWay(z)' /\ UnderWay(y) => ans[y] # "none"
    BY <1>1, <2>0 DEF OwedBehind
  <2> QED
    BY <1>1, <2>0, <2>1, <2>2 DEF OwedBehind
<1>7. NoneLands' <=> NoneLands
  BY <1>1, <1>2 DEF NoneLands
<1>8. NothingLeft'
  BY <1>1, <1>2 DEF Settled, NothingLeft
<1>9. OwedTold'
  BY <1>1, <1>7 DEF Settled, OwedTold
<1>10. OpenTold'
  BY <1>1, <1>7 DEF Settled, OpenTold, Now
<1> QED
  BY <1>3, <1>4, <1>5, <1>6, <1>8, <1>9, <1>10 DEF IInv, Ordered, Settled

(* The kernel's release is sent.                                           *)
LEMMA SendReleaseIInv ==
  ASSUME IInv, Send("release") PROVE IInv'
<1> USE DEF CallOf
<1>a. ClientInv /\ ClientInv'
  BY ClientWritesInv DEF ClientWrites, IInv
<1>b. ClientType /\ ClientOK /\ CallOK("release")
  BY <1>a DEF ClientInv
<1>x. <<"release", gen>> \in Exchange /\ <<"release", gen>>[1] = "release"
  BY <1>a, NamedFacts, OriginsOfAnId
<1> SUFFICES ASSUME NEW x \in Exchange, x = <<"release", gen>> PROVE IInv'
  BY <1>x
<1>1. x[1] = "release" /\ x[2] = gen /\ gen \in Nat /\ gen >= 1 /\ Write(x)
  BY <1>a, <1>x, NamedFacts, ExchangeFacts, OriginsOfAnId DEF Send
<1>2. /\ status["release"] = "waiting" /\ status'["release"] = "reply" /\ on'["release"] = gen
      /\ status'["open"] = status["open"] /\ on'["open"] = on["open"]
      /\ UNCHANGED <<held, rec, owed, round, published>>
  BY <1>b DEF Send, Become, ClientType
<1>3. on["release"] < gen
  <2>1. on["release"] \in Nat /\ min_generation["release"] \in Nat /\ gen >= min_generation["release"]
    BY <1>b DEF Send, ClientType
  <2> QED
    BY <1>b, <1>1, <1>2, <2>1 DEF CallOK
<1>4. Fresh(x)
  BY <1>3 DEF IInv, WireInv, FreshOK
<1>5. SentBy(x)' /\ NoHandleLeaks'
  BY <1>1, <1>2 DEF SentBy, NoHandleLeaks, Forgotten
<1>6. ReleaseTold'
  <2>1. Now("release")' = x /\ ans' = ans /\ ans[x] = "none"
    BY <1>1, <1>2, <1>4 DEF Now, Fresh, Write
  <2> QED
    BY <2>1 DEF ReleaseTold
<1> QED
  BY <1>a, <1>1, <1>2, <1>4, <1>5, <1>6, WroteIInv

(* The release owed is sent: no cancel of an open is pending, so what was
   given up on this connection has been heard of.                          *)
LEMMA SendOwedIInv ==
  ASSUME IInv, LookAndSend, Write(<<"owed", gen>>) PROVE IInv'
<1> USE DEF CallOf, NotOwed, Unsent
<1>a. ClientInv /\ ClientInv'
  BY ClientWritesInv DEF ClientWrites, IInv
<1>b. ClientType /\ ClientOK /\ PendOK /\ Settled /\ WireType
  BY <1>a DEF ClientInv, IInv, WireInv
<1>x. <<"owed", gen>> \in Exchange /\ <<"owed", gen>>[1] = "owed"
  BY <1>a, NamedFacts, OriginsOfAnId
<1> SUFFICES ASSUME NEW x \in Exchange, x = <<"owed", gen>> PROVE IInv'
  BY <1>x
<1>1. /\ x[1] = "owed" /\ x[2] = gen /\ gen \in Nat /\ gen >= 1 /\ gen \in Gen
      /\ Write(x)
  BY <1>a, <1>x, NamedFacts, ExchangeFacts, OriginsOfAnId
<1>2. UNCHANGED <<status, on, held, rec, round, published>>
  BY DEF LookAndSend, taken
<1>3. CASE OwedSendable
  <2>1. task = "look" /\ owed' = gen /\ owed = Unsent /\ cancels[gen] = 0
    BY <1>3 DEF LookAndSend, OwedSendable
  <2>2. published /\ status["open"] = "ended" /\ rec # "live" /\ round = "none"
    BY <1>b, <2>1 DEF ClientOK
  <2>3. SentBy(x)' /\ NoHandleLeaks' /\ ReleaseTold'
    BY <1>1, <1>2, <2>1, <2>2 DEF SentBy, NoHandleLeaks, Forgotten, ReleaseTold
  <2>4. ASSUME NEW y \in OpenX, y[2] = gen, UnderWay(y) PROVE ans[y] # "none"
    <3>1. y \in Exchange /\ y[1] \in {"open", "reopen"} /\ Awaited(y)
      BY DEF OpenX, Opens, IInv
    <3>2. y = <<"open", gen>> \/ y = <<"reopen", gen>>
      <4>1. \A o \in {"open", "reopen"} :
              <<o, gen>> \in Exchange /\ <<o, gen>>[1] = o /\ <<o, gen>>[2] = gen
        BY <1>a, NamedFacts, OriginsOfAnId
      <4> QED
        BY <2>4, <3>1, <4>1, ExchangeFacts
    <3>3. <<"open", gen>> \notin pend /\ <<"reopen", gen>> \notin pend
      BY <1>b, <1>1, <2>1 DEF PendOK, Count
    <3>4. Alive(gen)
      BY <1>1 DEF Write
    <3> QED
      BY <2>2, <2>4, <3>1, <3>2, <3>3, <3>4 DEF Awaited, Heard
  <2> QED
    BY <1>a, <1>1, <1>2, <2>1, <2>2, <2>3, <2>4, WroteIInv
<1>4. CASE ~OwedSendable
  (* Then nothing is written, and the request was on its way already.      *)
  <2>1. UNCHANGED wireVars
    BY <1>4 DEF LookAndSend
  <2> QED
    BY <2>1, ClientAloneIInv DEF ClientAlone
<1> QED
  BY <1>3, <1>4

(* A new session's reopen is sent: before the connection is published, so
   before anything of the id that is owed.                                 *)
LEMMA ReopenSentIInv ==
  ASSUME IInv, ReopenSent PROVE IInv'
<1> SUFFICES ASSUME ClientInv, WireInv, HeldOK, \A y \in OpenX : Awaited(y), Ordered, Settled
             PROVE  IInv'
  BY DEF IInv
<1> USE ExchangeFacts DEF CallOf
<1>a. ClientInv'
  BY ClientWritesInv DEF ClientWrites
<1>b. ClientType /\ ClientOK
  BY DEF ClientInv
<1>x. <<"reopen", gen>> \in Exchange /\ <<"reopen", gen>>[1] = "reopen" /\ <<"reopen", gen>>[2] = gen
  BY NamedFacts, OriginsOfAnId
<1> SUFFICES ASSUME NEW x \in Exchange, x = <<"reopen", gen>> PROVE IInv'
  BY <1>x
<1>1. x \in OpenX /\ x[1] = "reopen" /\ x[2] = gen /\ gen \in Nat /\ Write(x)
  BY <1>x, NamedFacts DEF OpenX, Opens, ReopenSent
<1>2. /\ round = "unsent" /\ round' = "sending"
      /\ UNCHANGED <<held, rec, status, on, owed, published>>
  BY DEF ReopenSent, taken
<1>3. status["open"] = "ended" /\ status["release"] # "reply" /\ ~published
  BY <1>b, <1>2 DEF ClientOK
<1>4. Fresh(x) /\ Fresh(<<"owed", gen>>)
  BY <1>2, <1>3 DEF WireInv, FreshOK
<1>5. /\ UNCHANGED <<current, state, conn, gaveUp, gen, up, epochOf, ans, cancels, pend>>
      /\ \A z \in Exchange : Heard(z)' <=> Heard(z)
      /\ \A z \in Exchange : z # x => /\ UnderWay(z)' <=> UnderWay(z)
                                      /\ Fresh(z)' <=> Fresh(z)
                                      /\ Spent(z)' <=> Spent(z)
      /\ EpochsGrow' /\ \A z \in Exchange : ExchangeOK(z)'
  BY <1>1, WroteFacts
<1>6. \A z \in Exchange : z[1] = "owed" /\ z[2] = gen => ~UnderWay(z)
  <2>1. \A z \in Exchange : z[1] = "owed" /\ z[2] = gen => z = <<"owed", gen>>
    BY NamedFacts, OriginsOfAnId
  <2> QED
    BY <1>4, <2>1 DEF Fresh, UnderWay, Before
<1>7. WireInv'
  <2>1. FreshOK'
    <3>1. \A z \in Exchange : z[2] > gen => z # x
      BY <1>1
    <3>2. \A o \in Origin \ {"reopen"} : <<o, gen>> \in Exchange /\ <<o, gen>> # x
      BY <1>1, NamedFacts
    <3> QED
      BY <1>2, <1>3, <1>5, <3>1, <3>2, OriginsOfAnId DEF WireInv, FreshOK
  <2>2. PendOK'
    BY <1>2, <1>5 DEF WireInv, PendOK, Count
  <2>3. ASSUME NEW z \in Exchange PROVE SentBy(z)'
    <3>1. SentBy(z)
      BY DEF WireInv
    <3>2. z = x => SentBy(z)'
      BY <1>1, <1>2, <1>3 DEF SentBy
    <3>3. z # x => SentBy(z)'
      BY <1>2, <1>5, <3>1 DEF SentBy
    <3> QED
      BY <3>2, <3>3
  <2>4. ASSUME NEW z \in OpenX PROVE OpenOK(z)'
    <3>1. z \in Exchange /\ OpenOK(z)
      BY DEF OpenX, WireInv
    <3>2. CASE z = x
      BY <1>4, <1>5, <3>2 DEF OpenOK, Fresh
    <3>3. CASE z # x
      <4>1. z \in wire' <=> z \in wire
        BY <1>1, <3>3 DEF Write
      <4> QED
        BY <1>5, <3>1, <3>3, <4>1 DEF OpenOK
    <3> QED
      BY <3>2, <3>3
  <2> QED
    BY <1>5, <2>1, <2>2, <2>3, <2>4 DEF WireInv
<1>8. HeldOK'
  <2>1. ans'[<<"reopen", gen'>>] = "none"
    BY <1>4, <1>5 DEF Fresh
  <2> QED
    BY <1>2, <1>3, <2>1 DEF HeldOK, LiveIsHeld
<1>9. ASSUME NEW y \in OpenX PROVE Awaited(y)'
  <2>1. y \in Exchange /\ Awaited(y)
    BY DEF OpenX
  <2>2. y = x => Awaited(y)'
    BY <1>1, <1>2, <1>5 DEF Awaited
  <2>3. y # x => Awaited(y)'
    BY <1>2, <1>3, <1>5, <2>1 DEF Awaited
  <2> QED
    BY <2>2, <2>3
<1>10. ASSUME NEW z \in Exchange, NEW y \in OpenX PROVE OwedBehind(z, y)' /\ RunsAfter(z, y)'
  <2>0. y \in Exchange /\ OwedBehind(z, y) /\ RunsAfter(z, y) /\ z[2] \in Nat
    BY DEF OpenX, Ordered
  <2>1. z[1] = "owed" /\ z[2] = gen => ~UnderWay(z)' /\ state'[z] \notin Before
    BY <1>1, <1>5, <1>6 DEF UnderWay
  <2>2. z[1] = "owed" => (UnderWay(z)' <=> UnderWay(z))
    BY <1>1, <1>5
  <2>3. state[z] = "active" => z[2] <= gen
    <3>1. z[2] > gen => Fresh(z)
      BY DEF WireInv, FreshOK
    <3> QED
      BY <1>1, <2>0, <3>1 DEF Fresh
  <2>4. y = x => RunsAfter(z, y)'
    BY <1>1, <1>5, <2>0, <2>1, <2>3 DEF RunsAfter, Before
  <2>5. y # x => RunsAfter(z, y)'
    BY <1>5, <2>0 DEF RunsAfter
  <2>6. y = x => OwedBehind(z, y)'
    BY <1>1, <2>1 DEF OwedBehind, Before
  <2>7. y # x => OwedBehind(z, y)'
    BY <1>5, <2>0, <2>2 DEF OwedBehind
  <2> QED
    BY <2>4, <2>5, <2>6, <2>7
<1>11. Settled'
  <2>1. ans'[<<"owed", gen'>>] = "none"
    BY <1>4, <1>5 DEF Fresh
  <2>2. OpenTold' /\ ReleaseTold' /\ NoHandleLeaks' /\ OwedTold'
    BY <1>2, <1>3, <2>1 DEF OpenTold, ReleaseTold, NoHandleLeaks, Forgotten, OwedTold
  <2>3. NothingLeft'
    <3>1. \A y \in OpenX : y # x => y \in Exchange /\ (Spent(y)' <=> Spent(y))
      BY <1>5 DEF OpenX
    <3> QED
      BY <1>2, <1>5, <3>1 DEF Settled, NothingLeft
  <2> QED
    BY <2>2, <2>3 DEF Settled
<1> QED
  BY <1>a, <1>7, <1>8, <1>9, <1>10, <1>11 DEF IInv, Ordered

-----------------------------------------------------------------------------
(* A connection is lost, or a handshake taken: what was current is not.    *)
LEMMA NetIInv ==
  ASSUME IInv, Net PROVE IInv'
<1> SUFFICES ASSUME ClientInv, WireInv, HeldOK, \A y \in OpenX : Awaited(y), Ordered, Settled
             PROVE  IInv'
  BY DEF IInv
<1> USE ExchangeFacts
<1>a. ClientInv'
  BY LinkInv
<1>1. /\ UNCHANGED <<state, conn, gaveUp, gen, epochOf, wire, ans, cancels, pend, held>>
      /\ UNCHANGED <<rec, status, on, owed, round, published>>
      /\ current' = current \/ current' = current + 1
      /\ up' => up
  BY DEF Net, Lose, Stray, Server!Resume, session, link, streams, pending, client, taken
<1>2. current \in Nat /\ gen \in Nat /\ epochOf \in [Gen -> Nat]
  BY NamedFacts DEF ClientInv, WireType
<1>3. \A z \in Exchange : /\ UnderWay(z)' <=> UnderWay(z)
                          /\ Fresh(z)' <=> Fresh(z)
                          /\ Heard(z) => Heard(z)'
  BY <1>1 DEF UnderWay, Fresh, Heard, Alive
<1>4. \A z \in Exchange : Spent(z) => Spent(z)'
  BY <1>1, <1>2, <1>3 DEF Spent
<1>5. WireInv'
  <2>1. EpochsGrow'
    BY <1>1, <1>2 DEF WireInv, EpochsGrow
  <2>2. FreshOK'
    BY <1>1, <1>3, NamedFacts, OriginsOfAnId DEF WireInv, FreshOK
  <2>3. PendOK'
    BY <1>1 DEF WireInv, PendOK, Count
  <2>4. \A x \in Exchange : ExchangeOK(x)'
    BY <1>1 DEF WireInv, ExchangeOK
  <2>5. \A x \in Exchange : SentBy(x)'
    BY <1>1, <1>3 DEF WireInv, SentBy
  <2>6. \A x \in OpenX : OpenOK(x)'
    BY <1>1 DEF WireInv, OpenOK, UnderWay
  <2> QED
    BY <2>1, <2>2, <2>3, <2>4, <2>5, <2>6 DEF WireInv
<1>6. HeldOK'
  BY <1>1 DEF HeldOK, LiveIsHeld, Now
<1>7. \A y \in OpenX : Awaited(y)'
  BY <1>1, <1>3 DEF Awaited, OpenX
<1>8. ASSUME NEW z \in Exchange, NEW y \in OpenX PROVE OwedBehind(z, y)' /\ RunsAfter(z, y)'
  <2>0. y \in Exchange /\ OwedBehind(z, y) /\ RunsAfter(z, y)
    BY DEF OpenX, Ordered
  <2>1. RunsAfter(z, y)'
    BY <1>1, <1>4, <2>0 DEF RunsAfter
  <2>2. z[1] = "owed" /\ state[z] = "clear" => conn[z] <= current /\ conn[z] \in Nat
    <3>1. z[1] = "owed" /\ state[z] = "clear" => conn[z] = epochOf[z[2]] /\ ~Fresh(z)
      BY DEF WireInv, ExchangeOK, Before, Fresh
    <3>2. z[2] <= gen => epochOf[z[2]] <= current
      BY DEF WireInv, EpochsGrow
    <3>3. ~Fresh(z) => z[2] <= gen
      BY <1>2 DEF WireInv, FreshOK
    <3> QED
      BY <1>2, <3>1, <3>2, <3>3
  <2>3. z[1] = "owed" /\ state[z] = "clear" /\ conn[z] = current' => conn[z] = current
    BY <1>1, <1>2, <2>2
  <2> QED
    BY <1>1, <1>3, <2>0, <2>1, <2>3 DEF OwedBehind
<1>9. NoneLands => NoneLands'
  BY <1>4 DEF NoneLands, OpenX
<1>10. NothingLeft'
  BY <1>1, <1>4 DEF Settled, NothingLeft, OpenX
<1>11. OwedTold'
  BY <1>1, <1>9 DEF Settled, OwedTold
<1>12. OpenTold'
  BY <1>1, <1>9 DEF Settled, OpenTold, Now
<1>13. ReleaseTold' /\ NoHandleLeaks'
  BY <1>1 DEF Settled, ReleaseTold, NoHandleLeaks, Forgotten, Now
<1> QED
  BY <1>a, <1>5, <1>6, <1>7, <1>8, <1>10, <1>11, <1>12, <1>13 DEF IInv, Ordered, Settled

(* The new connection's epoch is later than every other's.                 *)
LEMMA EpochsGrowOn ==
  ASSUME EpochsGrow, current \in Nat, gen \in Nat, epochOf \in [Gen -> Nat],
         gen + 1 \in Gen, gen' = gen + 1, current' = current + 1,
         epochOf' = [epochOf EXCEPT ![gen + 1] = current + 1]
  PROVE  EpochsGrow'
<1> USE ExchangeFacts
<1>1. \A g \in Gen : g <= gen => epochOf'[g] = epochOf[g]
  OBVIOUS
<1> SUFFICES ASSUME NEW g \in Gen, g <= gen + 1
             PROVE  /\ epochOf'[g] <= current + 1
                    /\ \A h \in Gen : h < g => epochOf'[h] < epochOf'[g]
  BY DEF EpochsGrow
<1>2. CASE g = gen + 1
  <2>1. epochOf'[g] = current + 1
    BY <1>2
  <2>2. ASSUME NEW h \in Gen, h < g PROVE epochOf'[h] < current + 1
    <3>1. h <= gen
      BY <1>2, <2>2
    <3>2. epochOf[h] <= current /\ epochOf'[h] = epochOf[h] /\ epochOf[h] \in Nat
      BY <1>1, <3>1 DEF EpochsGrow
    <3> QED
      BY <3>2
  <2> QED
    BY <2>1, <2>2
<1>3. CASE g # gen + 1
  <2>1. g <= gen
    BY <1>3
  <2>2. \A h \in Gen : h < g => h <= gen
    BY <2>1
  <2>3. epochOf[g] <= current /\ epochOf[g] \in Nat /\ \A h \in Gen : h < g => epochOf[h] < epochOf[g]
    BY <2>1 DEF EpochsGrow
  <2>4. epochOf'[g] <= current + 1
    BY <1>1, <2>1, <2>3
  <2> QED
    BY <1>1, <2>1, <2>2, <2>3, <2>4
<1> QED
  BY <1>2, <1>3

(* The session resumes on a new connection: what was written on the old one
   stays under way, and is heard of no more.                               *)
LEMMA ResumeIInv ==
  ASSUME IInv, Resume PROVE IInv'
<1> SUFFICES ASSUME ClientInv, WireInv, HeldOK, \A y \in OpenX : Awaited(y), Ordered, Settled
             PROVE  IInv'
  BY DEF IInv
<1> USE ExchangeFacts
<1>a. ClientInv'
  BY LinkInv
<1>1. /\ UNCHANGED <<state, conn, gaveUp, wire, ans, cancels, pend, held, status, on, round>>
      /\ current' = current + 1 /\ gen' = gen + 1
      /\ epochOf' = [epochOf EXCEPT ![gen + 1] = current + 1]
      /\ published /\ published' = FALSE /\ task = "off"
      /\ rec' = "live" => rec = "live"
      /\ owed' = NotOwed => owed = NotOwed /\ (rec = "live" => rec' = "live")
  BY DEF Resume, Reconnect, Attach, NextTurn, Killed, Server!Resume, streams, pending,
         taken,
         NotOwed, Unsent
<1>2. /\ current \in Nat /\ gen \in Nat /\ epochOf \in [Gen -> Nat] /\ gen + 1 \in Gen
      /\ round = "none" /\ \A c \in CallOf : on[c] \in Nat /\ on[c] <= gen
  BY <1>1, <1>a, NamedFacts DEF ClientInv, WireType, ClientOK
<1>3. \A z \in Exchange : /\ UnderWay(z)' <=> UnderWay(z)
                          /\ Fresh(z)' <=> Fresh(z)
                          /\ ~Fresh(z) => z[2] <= gen
                          /\ UnderWay(z) => ~Fresh(z)
  <2>1. \A z \in Exchange : ~Fresh(z) => z[2] <= gen
    BY <1>2 DEF WireInv, FreshOK
  <2> QED
    BY <1>1, <2>1 DEF UnderWay, Fresh, Before
<1>4. \A g \in Gen : g <= gen => epochOf'[g] = epochOf[g]
  BY <1>1, <1>2
<1>5. \A z \in Exchange : Spent(z) => Spent(z)'
  <2> SUFFICES ASSUME NEW z \in Exchange, Spent(z), UnderWay(z)
               PROVE  state'[z] # "active" /\ epochOf'[z[2]] < current'
    BY <1>3 DEF Spent
  <2>1. state[z] # "active" /\ epochOf[z[2]] < current /\ epochOf'[z[2]] = epochOf[z[2]]
    BY <1>3, <1>4 DEF Spent
  <2> QED
    BY <1>1, <1>2, <2>1
<1>6. WireInv'
  <2>1. EpochsGrow'
    BY <1>1, <1>2, EpochsGrowOn DEF WireInv
  <2>2. FreshOK'
    <3>1. \A z \in Exchange : z[2] > gen => Fresh(z)'
      BY <1>2, <1>3
    <3>2. \A o \in Origin : <<o, gen + 1>> \in Exchange /\ <<o, gen + 1>>[2] > gen
      BY <1>2
    <3>3. \A z \in Exchange : z[2] > gen + 1 => z[2] > gen
      BY <1>2
    <3> QED
      BY <1>1, <1>2, <3>1, <3>2, <3>3, OriginsOfAnId DEF FreshOK, CallOf
  <2>3. PendOK'
    <3>1. PendOK /\ \A x \in pend : x[2] \in Nat
      BY DEF WireInv, PendOK, OpenX
    <3>2. \A x \in pend : x[2] <= gen'
      BY <1>1, <1>2, <3>1 DEF PendOK
    <3> QED
      BY <1>1, <1>2, <3>1, <3>2 DEF PendOK, Count
  <2>4. \A x \in Exchange : ExchangeOK(x)'
    <3>1. \A x \in Exchange : state[x] \in Before => epochOf'[x[2]] = epochOf[x[2]]
      BY <1>3, <1>4 DEF UnderWay
    <3> QED
      BY <1>1, <3>1 DEF WireInv, ExchangeOK
  <2>5. \A x \in Exchange : SentBy(x)'
    BY <1>1, <1>3 DEF WireInv, SentBy
  <2>6. \A x \in OpenX : OpenOK(x)'
    BY <1>1 DEF WireInv, OpenOK, UnderWay
  <2> QED
    BY <2>1, <2>2, <2>3, <2>4, <2>5, <2>6 DEF WireInv
<1>7. HeldOK'
  <2>1. on["open"] # gen + 1
    BY <1>2 DEF CallOf
  <2> QED
    BY <1>1, <1>2, <2>1 DEF HeldOK, LiveIsHeld
<1>8. \A y \in OpenX : Awaited(y)'
  <2>1. \A y \in Exchange : UnderWay(y) => Heard(y)'
    BY <1>1, <1>2, <1>3 DEF Heard, Alive
  <2> QED
    BY <1>3, <2>1 DEF Awaited, OpenX
<1>9. ASSUME NEW z \in Exchange, NEW y \in OpenX PROVE OwedBehind(z, y)' /\ RunsAfter(z, y)'
  <2>0. y \in Exchange /\ OwedBehind(z, y) /\ RunsAfter(z, y)
    BY DEF OpenX, Ordered
  <2>1. RunsAfter(z, y)'
    BY <1>1, <1>5, <2>0 DEF RunsAfter
  <2>2. z[1] = "owed" /\ state[z] = "clear" => conn[z] # current + 1
    <3>1. z[1] = "owed" /\ state[z] = "clear" => conn[z] = epochOf[z[2]] /\ ~Fresh(z)
      BY DEF WireInv, ExchangeOK, Before, Fresh
    <3>2. z[2] <= gen => epochOf[z[2]] <= current
      BY DEF WireInv, EpochsGrow
    <3> QED
      BY <1>2, <1>3, <3>1, <3>2
  <2> QED
    BY <1>1, <1>3, <2>0, <2>1, <2>2 DEF OwedBehind
<1>10. Settled'
  <2>1. NothingLeft'
    BY <1>1, <1>2, <1>5 DEF Settled, NothingLeft, OpenX
  <2>2. OwedTold'
    <3>1. ans'[<<"owed", gen'>>] = "none"
      <4>1. <<"owed", gen + 1>> \in Exchange /\ ~(<<"owed", gen + 1>>[2] <= gen)
        BY <1>2, OriginsOfAnId
      <4> QED
        BY <1>1, <1>3, <4>1 DEF Fresh
    <3> QED
      BY <3>1 DEF OwedTold
  <2>3. OpenTold'
    <3>1. NoneLands => NoneLands'
      BY <1>5 DEF NoneLands, OpenX
    <3> QED
      BY <1>1, <3>1 DEF Settled, OpenTold, Now
  <2>4. ReleaseTold'
    BY <1>1 DEF Settled, ReleaseTold, Now
  <2>5. NoHandleLeaks'
    BY <1>1 DEF Settled, NoHandleLeaks, Forgotten
  <2> QED
    BY <2>1, <2>2, <2>3, <2>4, <2>5 DEF Settled
<1> QED
  BY <1>a, <1>6, <1>7, <1>8, <1>9, <1>10 DEF IInv, Ordered

(* A new session holds nothing, and nothing of the old one is under way.   *)
LEMMA NewSessionIInv ==
  ASSUME IInv, NewSession PROVE IInv'
<1> SUFFICES ASSUME ClientInv, WireInv
             PROVE  IInv'
  BY DEF IInv
<1> USE ExchangeFacts
<1>a. ClientInv'
  BY LinkInv
<1>1. /\ UNCHANGED <<conn, ans, cancels, pend, status, on>>
      /\ wire' = {} /\ gaveUp' = {} /\ held' = FALSE
      /\ state' = [x \in Exchange |-> IF x[2] <= gen THEN "over" ELSE "idle"]
      /\ current' = current + 1 /\ gen' = gen + 1
      /\ epochOf' = [epochOf EXCEPT ![gen + 1] = current + 1]
      /\ round' = IF rec' = "live" THEN "unsent" ELSE "none"
  BY DEF NewSession, Attach, NextTurn, Killed, pending, taken
<1>2. /\ current \in Nat /\ gen \in Nat /\ epochOf \in [Gen -> Nat] /\ gen + 1 \in Gen
      /\ \A c \in CallOf : on[c] \in Nat /\ on[c] <= gen
  BY <1>1, <1>a, NamedFacts DEF ClientInv, WireType
<1>3. \A z \in Exchange : ~UnderWay(z)'
  BY <1>1 DEF UnderWay, Before
<1>4. \A z \in Exchange : z[2] > gen => Fresh(z)'
  <2>1. \A z \in Exchange : z[2] > gen => ~(z[2] <= gen) /\ ans[z] = "none"
    BY <1>2 DEF WireInv, FreshOK, Fresh
  <2> QED
    BY <1>1, <2>1 DEF Fresh
<1>5. \A o \in Origin : <<o, gen + 1>> \in Exchange /\ <<o, gen + 1>>[2] > gen
  BY <1>2
<1>7. WireInv'
  <2>1. EpochsGrow'
    BY <1>1, <1>2, EpochsGrowOn DEF WireInv
  <2>2. FreshOK'
    <3>1. \A z \in Exchange : z[2] > gen + 1 => z[2] > gen
      BY <1>2
    <3> QED
      BY <1>1, <1>4, <1>5, <3>1, OriginsOfAnId DEF FreshOK, CallOf
  <2>3. PendOK'
    <3>1. PendOK /\ \A x \in pend : x[2] \in Nat
      BY DEF WireInv, PendOK, OpenX
    <3>2. \A x \in pend : x[2] <= gen' /\ x[2] # gen'
      BY <1>1, <1>2, <3>1 DEF PendOK
    <3> QED
      BY <1>1, <3>1, <3>2 DEF PendOK, Count
  <2>4. \A x \in Exchange : ExchangeOK(x)' /\ SentBy(x)'
    BY <1>1, <1>3 DEF ExchangeOK, SentBy, UnderWay
  <2>5. \A x \in OpenX : OpenOK(x)'
    BY <1>1, <1>3 DEF OpenOK, OpenX
  <2> QED
    BY <2>1, <2>2, <2>3, <2>4, <2>5 DEF WireInv
<1>8. ans'[<<"owed", gen'>>] = "none"
  BY <1>1, <1>4, <1>5, OriginsOfAnId DEF Fresh
<1>9. HeldOK'
  <2>1. on["open"] # gen + 1
    BY <1>2 DEF CallOf
  <2> QED
    BY <1>1, <2>1 DEF HeldOK, LiveIsHeld
<1>10. \A y \in OpenX : Awaited(y)' /\ Spent(y)'
  BY <1>3 DEF Awaited, Spent, OpenX
<1>11. Ordered'
  <2>1. \A z \in Exchange : state'[z] \notin Before
    BY <1>3 DEF UnderWay
  <2> QED
    BY <1>3, <2>1 DEF Ordered, OwedBehind, RunsAfter, Before
<1>12. Settled'
  <2>1. NothingLeft' /\ OwedTold'
    BY <1>8, <1>10 DEF NothingLeft, OwedTold
  <2>2. OpenTold' /\ ReleaseTold' /\ NoHandleLeaks'
    BY <1>1, <1>10 DEF OpenTold, NoneLands, ReleaseTold, NoHandleLeaks
  <2> QED
    BY <2>1, <2>2 DEF Settled
<1> QED
  BY <1>a, <1>7, <1>9, <1>10, <1>11, <1>12 DEF IInv

-----------------------------------------------------------------------------
(* The invariant holds at first.                                           *)
LEMMA InitIInv == ASSUME Init PROVE IInv
<1> USE ExchangeFacts DEF Init, WireInit, Server!Init
<1>1. MaxGen \in Nat /\ MaxGen >= 1 /\ 1 \in Gen
  BY BoundsAreNat DEF Gen
<1>2. WireType
  BY <1>1 DEF WireType, Server!State, Answers
<1>3. ClientType /\ ClientOK /\ \A c \in CallOf : CallOK(c)
  <2>1. ClientType
    BY DEF ClientType, CallOf, Statuses, NotOwed, Unsent
  <2>2. ClientOK
    BY DEF ClientOK, CallOf
  <2>3. \A c \in CallOf : CallOK(c)
    BY DEF CallOK, CallOf
  <2> QED
    BY <2>1, <2>2, <2>3
<1>4. \A x \in Exchange : ~UnderWay(x) /\ Fresh(x)
  BY DEF UnderWay, Before, Fresh
<1>5. EpochsGrow
  BY <1>1 DEF EpochsGrow
<1>6. FreshOK
  BY <1>1, <1>4, OriginsOfAnId DEF FreshOK, CallOf
<1>7. PendOK
  BY DEF PendOK, Count
<1>8. \A x \in Exchange : ExchangeOK(x) /\ SentBy(x)
  BY <1>4 DEF ExchangeOK, SentBy, UnderWay
<1>9. \A x \in OpenX : OpenOK(x) /\ Awaited(x) /\ Spent(x)
  BY <1>4 DEF OpenX, OpenOK, Awaited, Spent, Fresh
<1>10. HeldOK
  BY DEF HeldOK, LiveIsHeld, CallOf
<1>11. Ordered
  <2>1. \A x \in Exchange : state[x] = "idle"
    OBVIOUS
  <2> QED
    BY <1>4, <2>1 DEF Ordered, OwedBehind, RunsAfter, OpenX
<1>12. Settled
  <2>1. <<"owed", gen>> \in Exchange
    BY <1>1, OriginsOfAnId
  <2> QED
    BY <2>1 DEF Settled, NothingLeft, OwedTold, OpenTold, ReleaseTold, NoHandleLeaks, CallOf
<1> QED
  BY <1>2, <1>3, <1>5, <1>6, <1>7, <1>8, <1>9, <1>10, <1>11, <1>12
  DEF IInv, ClientInv, WireInv

(* Every step of the protocol keeps it.                                    *)
LEMMA NextIInv == ASSUME IInv, [Next]_vars PROVE IInv'
<1>1. CASE UNCHANGED vars
  <2>1. /\ UNCHANGED <<current, state, conn, gaveUp, gen, up, epochOf, wire, reset, ans, cancels, pend>>
        /\ UNCHANGED <<held, rec, status, on, min_generation, owed, round, published, task>>
    BY <1>1 DEF vars, wireVars, session, link, streams, pending, client, taken
  <2>2. WireType' /\ ClientType' /\ ClientOK' /\ \A c \in CallOf : CallOK(c)'
    <3>1. WireType'
      BY <2>1 DEF IInv, ClientInv, WireType
    <3>2. ClientType'
      BY <2>1 DEF IInv, ClientInv, ClientType
    <3>3. ClientOK'
      BY <2>1 DEF IInv, ClientInv, ClientOK
    <3>4. \A c \in CallOf : CallOK(c)'
      BY <2>1 DEF IInv, ClientInv, CallOK
    <3> QED
      BY <3>1, <3>2, <3>3, <3>4
  <2>3. GoesOn
    BY <2>1 DEF GoesOn
  <2>4. StaysHeld /\ Settles
    BY <2>1 DEF StaysHeld, Settles, IInv, HeldOK, LiveIsHeld, Forgotten
  <2> QED
    BY <2>1, <2>2, <2>3, <2>4, AloneIInv
    DEF ClientInv, wireVars, session, link, streams, pending
<1>2. CASE Calls
  BY <1>2, ClientAloneIInv, SendOpenIInv, SendReleaseIInv, GiveUpsIInv
  DEF Calls, ClientAlone, CallOf
<1>3. CASE Task
  BY <1>3, ClientAloneIInv, SendOwedIInv DEF Task, ClientAlone, LookAndSend
<1>4. CASE Manager
  BY <1>4, ClientAloneIInv, ResumeIInv, NewSessionIInv, ReopenSentIInv, GiveUpsIInv
  DEF Manager, ClientAlone
<1>5. CASE Net
  BY <1>5, NetIInv
<1>6. ASSUME NEW x \in Exchange, Serve(x) PROVE IInv'
  BY <1>6, ServedIInv, GiveUpsIInv DEF Serve, Served
<1> QED
  BY <1>1, <1>2, <1>3, <1>4, <1>5, <1>6 DEF Next

-----------------------------------------------------------------------------
(* The release task sleeps through nothing: it marks the watch of what is
   owed before it looks, and that of the cancels as it does.               *)
LEMMA SeenKept ==
  ASSUME ClientInv, OwedIsSeen, [Next]_vars PROVE OwedIsSeen'
<1> SUFFICES ASSUME task' = "wait", up', owed' = Unsent, cancels'[gen'] = 0 PROVE unseen' # {}
  BY DEF OwedIsSeen
<1> USE DEF client, taken, NotOwed, Unsent
<1>0. /\ task = "wait" /\ up /\ owed = Unsent /\ cancels[gen] = 0 => unseen # {}
      /\ gen \in Nat /\ gen \in Gen /\ gen >= 1 /\ cancels \in [Gen -> Int]
      /\ task # "off" => published
      /\ round # "none" => ~published
  BY NamedFacts, ExchangeFacts DEF OwedIsSeen, ClientInv, ClientOK, WireType
<1>1. UNCHANGED wireVars => UNCHANGED <<gen, up, cancels>>
  BY DEF wireVars, link, pending
<1>2. \A x \in Exchange : Write(x) => UNCHANGED <<gen, up, cancels>>
  BY DEF Write, link, pending
<1>3. CASE UNCHANGED vars
  BY <1>0, <1>1, <1>3 DEF vars
<1>4. CASE Calls
  <2>1. CASE StartOpen \/ StartRelease \/ ReleaseReplied
    BY <1>0, <1>1, <2>1 DEF StartOpen, StartRelease, ReleaseReplied
  <2>2. ASSUME NEW c \in CallOf, Send(c) PROVE unseen' # {}
    <3>1. <<c, gen>> \in Exchange
      BY NamedFacts
    <3> QED
      BY <1>0, <1>2, <2>2, <3>1 DEF Send
  <2>3. ASSUME NEW c \in CallOf, NotSent(c) \/ Lost(c) \/ GiveUpUnsent(c) PROVE unseen' # {}
    BY <1>0, <1>1, <2>3 DEF NotSent, Lost, GiveUpUnsent, EndUnknown, OweRelease, OwesNothing
  <2>4. CASE GiveUpOpen
    BY <2>4 DEF GiveUpOpen
  <2>5. CASE GiveUpRelease
    BY <1>0, <1>1, <2>5 DEF GiveUpRelease, EndUnknown, OweRelease
  <2>6. CASE OpenReplied
    BY <1>0, <1>1, <2>6 DEF OpenReplied, OweRelease, OwesNothing
  <2> QED
    BY <1>4, <2>1, <2>2, <2>3, <2>4, <2>5, <2>6 DEF Calls
<1>5. CASE Task
  <2>1. CASE LookAndSend
    <3>1. <<"owed", gen>> \in Exchange
      BY NamedFacts, OriginsOfAnId
    <3>2. UNCHANGED <<gen, up, cancels>>
      BY <1>1, <1>2, <2>1, <3>1 DEF LookAndSend
    <3> QED
      BY <1>0, <2>1, <3>2 DEF LookAndSend, OwedSendable
  <2>2. CASE MarkOwed \/ TaskWakes \/ Settle \/ TaskEnds
    BY <1>0, <1>1, <2>2 DEF MarkOwed, TaskWakes, Settle, TaskEnds
  <2> QED
    BY <1>5, <2>1, <2>2 DEF Task
<1>6. CASE Manager
  <2>1. CASE Resume \/ NewSession
    BY <2>1 DEF Resume, NewSession, NextTurn
  <2>2. CASE Publish
    BY <2>2 DEF Publish
  <2>3. CASE ReopenSent \/ ReopenReplied \/ ReopenLost \/ GiveUpReopen
    <3>1. round # "none" /\ task' = task
      BY <2>3 DEF ReopenSent, ReopenReplied, ReopenLost, GiveUpReopen
    <3> QED
      BY <1>0, <3>1
  <2> QED
    BY <1>6, <2>1, <2>2, <2>3 DEF Manager
<1>7. CASE Net
  BY <1>0, <1>7 DEF Net, Lose, Stray, link, pending
<1>8. ASSUME NEW x \in Exchange, Serve(x) PROVE unseen' # {}
  <2>1. CASE Cancels(x)
    <3>1. /\ UNCHANGED <<gen, up, owed, task>> /\ cancels' = [cancels EXCEPT ![x[2]] = @ - 1]
          /\ unseen' = IF x[2] = gen THEN unseen \cup {"cancels"} ELSE unseen
      BY <2>1 DEF Cancels, CancelAnswered, link
    <3>2. x[2] # gen => cancels'[gen] = cancels[gen]
      BY <1>0, <3>1
    <3> QED
      BY <1>0, <3>1, <3>2
  <2>2. CASE ~Cancels(x)
    <3>1. UNCHANGED <<gen, up, cancels, client>>
      BY <1>8, <2>2
      DEF Serve, ServeChange, RunRelease, FinishOpen, FinishOwed, Finish, Serves, Begin,
          Arrive,
          Undecoded, Clear, Stops, Superseded, Cancelled, Dropped, Fenced, Refused, link, pending
    <3> QED
      BY <1>0, <3>1
  <2> QED
    BY <2>1, <2>2
<1> QED
  BY <1>3, <1>4, <1>5, <1>6, <1>7, <1>8 DEF Next

(* A live handle is open on the session, whatever became of the requests,
   connections and sessions before, for any number of connections and
   handshakes (`open_settled`, `ReopenRound`, crates/client/src/machine.rs;
   `Handles`, crates/server/src/handles.rs).                               *)
THEOREM LiveIsHeldAlways == Spec => []LiveIsHeld
<1>1. Init => IInv
  BY InitIInv
<1>2. IInv /\ [Next]_vars => IInv'
  BY NextIInv
<1>3. IInv => LiveIsHeld
  BY DEF IInv, HeldOK
<1> QED
  BY <1>1, <1>2, <1>3, PTL DEF Spec

(* No descriptor outlives the client's interest in it, and the release task
   never sleeps through a release that is owed and can be sent, for any
   number of connections and handshakes (`open_settled`, `release_owed`,
   crates/client/src/machine.rs; `send_releases`,
   crates/client/src/conn.rs).                                             *)
THEOREM ReleasedForGoodAlways == Spec => []ReleasedForGood
<1> DEFINE Both == IInv /\ OwedIsSeen
<1>1. Init => Both
  BY InitIInv DEF Init, OwedIsSeen
<1>2. Both /\ [Next]_vars => Both'
  BY NextIInv, SeenKept DEF IInv
<1>3. Both => ReleasedForGood
  BY DEF IInv, Settled, ReleasedForGood
<1> HIDE DEF Both
<1> QED
  BY <1>1, <1>2, <1>3, PTL DEF Spec
=============================================================================
