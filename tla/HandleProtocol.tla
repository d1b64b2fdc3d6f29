--------------------------- MODULE HandleProtocol ---------------------------
(***************************************************************************)
(* The life of one handle id across connections and sessions: its open and *)
(* the kernel's release as calls of the client, the releases owed and the  *)
(* task that sends them, and a new session's reopen                        *)
(* (`open_handle`, `release`, crates/client/src/client.rs; `ReopenRound`,  *)
(* `open_settled`, crates/client/src/machine.rs; `HandleTable`,            *)
(* crates/client/src/handles.rs; `run`, `reopen_handles`, `send_releases`, *)
(* crates/client/src/conn.rs), against what the session's table holds      *)
(* (`Handles`, crates/server/src/handles.rs).                              *)
(*                                                                         *)
(* Ids are never reused and the table is keyed by them, so one id stands   *)
(* for all.                                                                *)
(***************************************************************************)
EXTENDS SessionWire, Integers

CONSTANT OpenResendable   \* the open is retry_safe

ASSUME OriginsOfAnId == Origin = {"open", "reopen", "release", "owed"}
ASSUME OpenResendableIsBool == OpenResendable \in BOOLEAN

VARIABLES
  held,       \* the server's session holds a handle under the id
  rec,        \* the client's record of it
  status,     \* of the open's call, and of the kernel's release's
  on, min_generation, lost_once,
  owed,       \* the release owed: not, unsent, or the generation it is sent on
  round,      \* the reopen of a new session's round
  published,  \* AttachedState::published of the newest connection
  task,       \* its release task
  unseen      \* watches changed since the task last marked them seen

CallOf  == {"open", "release"}
taken   == <<on, min_generation, lost_once>>
client  == <<rec, status, taken, owed, round, published, task, unseen>>
vars    == <<wireVars, held, client>>

NotOwed == -1
Unsent  == 0

Init ==
  /\ WireInit
  /\ held = FALSE /\ rec = "none"
  /\ status = [c \in CallOf |-> "idle"]
  /\ on = [c \in CallOf |-> 0] /\ min_generation = [c \in CallOf |-> 0]
  /\ lost_once = [c \in CallOf |-> FALSE]
  /\ owed = NotOwed /\ round = "none" /\ published = TRUE
  /\ task = "mark" /\ unseen = {}

Now(c)        == <<c, on[c]>>
Become(c, to) == status' = [status EXCEPT ![c] = to]

(* mutant of OweRelease: the task is not woken. *)
OweReleaseQuietly ==
  /\ owed' = IF owed = NotOwed THEN Unsent ELSE owed
  /\ UNCHANGED unseen

(* `owe_release`: one already owed stays as it is.                         *)
OweRelease ==
  /\ owed' = IF owed = NotOwed THEN Unsent ELSE owed
  /\ unseen' = IF owed = NotOwed THEN unseen \cup {"owed"} ELSE unseen

OwesNothing == UNCHANGED <<owed, unseen>>

-----------------------------------------------------------------------------
(* The two calls. *)

StartOpen ==
  /\ status["open"] = "idle"
  /\ Become("open", "waiting")
  /\ UNCHANGED <<wireVars, held, rec, taken, owed, round, published, task,
                 unseen>>

(* `release_begins`: a dead handle's release is owed already.              *)
ReleaseBegins == rec # "dead"

(* The kernel releases the handle.                                         *)
StartRelease ==
  /\ rec # "none" /\ rec' = "none"
  /\ Become("release", IF ReleaseBegins THEN "waiting" ELSE "ended")
  /\ UNCHANGED <<wireVars, held, taken, owed, round, published, task, unseen>>

(* A change waits for the connection's cancels; the kernel's release is not
   one.                                                                    *)
Sendable(c) == c = "release" \/ cancels[gen] = 0

Send(c) ==
  /\ status[c] = "waiting"
  /\ published /\ gen >= min_generation[c] /\ Sendable(c)
  /\ Write(<<c, gen>>)
  /\ Become(c, "reply")
  /\ on' = [on EXCEPT ![c] = gen]
  /\ UNCHANGED <<held, rec, min_generation, lost_once, owed, round, published,
                 task, unseen>>

(* The request could not be written.                                       *)
NotSent(c) ==
  /\ status[c] = "waiting"
  /\ published /\ gen >= min_generation[c] /\ Sendable(c)
  /\ min_generation' = [min_generation EXCEPT ![c] = gen + 1]
  /\ UNCHANGED <<wireVars, held, rec, status, on, lost_once, owed, round,
                 published, task, unseen>>

Resends(c) == (c = "release" \/ OpenResendable) /\ ~lost_once[c]

(* The call ends with no reply: what the server did is in doubt, so the
   release of the id is owed (`open_settled`, `release_owed`).             *)
EndUnknown(c) == Become(c, "ended") /\ OweRelease

Lost(c) ==
  /\ status[c] = "reply" /\ ReplyLost(Now(c))
  /\ \/ /\ Resends(c)
        /\ Become(c, "waiting")
        /\ min_generation' = [min_generation EXCEPT ![c] = on[c] + 1]
        /\ lost_once' = [lost_once EXCEPT ![c] = TRUE]
        /\ OwesNothing
     \/ /\ ~Resends(c)
        /\ EndUnknown(c)
        /\ UNCHANGED <<min_generation, lost_once>>
  /\ UNCHANGED <<wireVars, held, rec, on, round, published, task>>

(* The deadline of a call passes, or an open is interrupted.               *)
GiveUpUnsent(c) ==
  /\ status[c] = "waiting"
  /\ EndUnknown(c)
  /\ UNCHANGED <<wireVars, held, rec, taken, round, published, task>>

GiveUpOpen ==
  /\ status["open"] = "reply"
  /\ CountGiveUp(Now("open"))
  /\ Become("open", "ended")
  /\ owed' = IF owed = NotOwed THEN Unsent ELSE owed
  /\ unseen' = unseen \cup {"owed", "cancels"}
  /\ UNCHANGED <<held, rec, taken, round, published, task>>

(* Not a change: its streams are dropped, and nothing is counted.          *)
GiveUpRelease ==
  /\ status["release"] = "reply"
  /\ EndUnknown("release")
  /\ UNCHANGED <<wireVars, held, rec, taken, round, published, task>>

(* An open's reply: the handle is kept, or its node refused and the handle
   released; or the server refused the open.  A reply received before the
   connection's loss may be read after it, but before the next connection:
   the call has been woken, and a handshake takes a round trip.            *)
OpenReplied ==
  /\ status["open"] = "reply" /\ on["open"] = gen
  /\ \/ /\ ans[Now("open")] = "reply"
        /\ \/ rec' = "live" /\ OwesNothing /\ Become("open", "ended")
           \/ UNCHANGED rec /\ OweRelease  /\ Become("open", "ended")
     \/ /\ ans[Now("open")] = "errno"
        /\ Become("open", "ended")
        /\ OwesNothing /\ UNCHANGED rec
  /\ UNCHANGED <<wireVars, held, taken, round, published, task>>

ReleaseReplied ==
  /\ status["release"] = "reply" /\ ans[Now("release")] = "reply"
  /\ Become("release", "ended")
  /\ UNCHANGED <<wireVars, held, rec, taken, owed, round, published, task,
                 unseen>>

-----------------------------------------------------------------------------
(* The release task of the newest connection: send_releases. *)

MarkOwed ==
  /\ task = "mark" /\ task' = "look"
  /\ unseen' = unseen \ {"owed"}
  /\ UNCHANGED <<wireVars, held, rec, status, taken, owed, round, published>>

(* mutant of OwedSendable: the pending cancels are not waited for. *)
OwedSendableNow == owed = Unsent

(* `owed_sendable`.                                                        *)
OwedSendable == owed = Unsent /\ cancels[gen] = 0

(* The cancels are marked seen, and the release sent if it may be; its
   request may fail to be written, and it stays sending.                   *)
LookAndSend ==
  /\ task = "look" /\ task' = "wait"
  /\ unseen' = unseen \ {"cancels"}
  /\ \/ /\ OwedSendable
        /\ owed' = gen
        /\ Write(<<"owed", gen>>) \/ UNCHANGED wireVars
     \/ ~OwedSendable /\ UNCHANGED <<wireVars, owed>>
  /\ UNCHANGED <<held, rec, status, taken, round, published>>

(* A watch has changed since it was marked.                                *)
TaskWakes ==
  /\ task = "wait" /\ unseen # {}
  /\ task' = "mark"
  /\ UNCHANGED <<wireVars, held, rec, status, taken, owed, round, published,
                 unseen>>

(* The release sent is answered: `owed_delivered`.                         *)
Settle ==
  /\ task # "off" /\ owed = gen /\ ans[<<"owed", gen>>] = "reply"
  /\ owed' = NotOwed
  /\ task' = IF task = "wait" THEN "mark" ELSE task
  /\ UNCHANGED <<wireVars, held, rec, status, taken, round, published, unseen>>

(* `owed_connection_ended`.                                                *)
Undelivered == IF owed = gen THEN Unsent ELSE owed

(* The connection has closed.                                              *)
TaskEnds ==
  /\ task = "wait" /\ ~up
  /\ task' = "off" /\ unseen' = {}
  /\ owed' = Undelivered
  /\ UNCHANGED <<wireVars, held, rec, status, taken, round, published>>

-----------------------------------------------------------------------------
(* The connection manager: run. *)

(* The server has another root: `kill_all`.                                *)
Killed == IF rec = "live" THEN "dead" ELSE rec

(* The manager takes its loop's next turn only once the last connection's
   reopens are over, it is published, and its release task has ended.      *)
NextTurn == published /\ task = "off"

(* The session resumes.                                                    *)
Resume ==
  /\ NextTurn /\ Reconnect
  /\ \/ UNCHANGED <<rec, owed>>
     \/ /\ rec' = Killed
        /\ owed' = IF rec = "live" /\ owed = NotOwed THEN Unsent ELSE owed
  /\ published' = FALSE
  /\ UNCHANGED <<held, status, taken, round, task, unseen>>

(* `owed_moot`.                                                            *)
Moot == NotOwed

(* The server has no such session, and nothing of the old one can run any
   more: it is dropped from the table once nothing of it is under way, or
   the server has restarted.  The handles held are to be reopened.         *)
NewSession ==
  /\ NextTurn /\ current < MaxEpoch
  /\ current' = current + 1
  /\ state' = [x \in Exchange |-> IF x[2] <= gen THEN "over" ELSE "idle"]
  /\ gaveUp' = {} /\ wire' = {}
  /\ held' = FALSE
  /\ Attach
  /\ rec' \in {rec, Killed}
  /\ owed' = Moot
  /\ round' = IF rec' = "live" THEN "unsent" ELSE "none"
  /\ published' = FALSE
  /\ UNCHANGED <<conn, reset, ans, pending, status, taken, task, unseen>>

ReopenSent ==
  /\ round = "unsent" /\ round' = "sending"
  /\ Write(<<"reopen", gen>>)
  /\ UNCHANGED <<held, rec, status, taken, owed, published, task, unseen>>

(* mutant of ReopenEnds: a reopen that failed leaves the handle alive. *)
ReopenEndsKept(ok) ==
  /\ round' = "none"
  /\ rec' = rec
  /\ IF rec' = "live" THEN OwesNothing ELSE OweRelease

(* `ended`: the same file keeps the handle; the release is owed of one the
   reopen killed, or the kernel released meanwhile.                        *)
ReopenEnds(ok) ==
  /\ round' = "none"
  /\ rec' = IF ok THEN rec ELSE Killed
  /\ IF rec' = "live" THEN OwesNothing ELSE OweRelease

(* The same file, another, or none.                                        *)
ReopenReplied ==
  /\ round = "sending"
  /\ \/ ans[<<"reopen", gen>>] = "reply" /\ \E ok \in BOOLEAN : ReopenEnds(ok)
     \/ ans[<<"reopen", gen>>] = "errno" /\ ReopenEnds(FALSE)
  /\ UNCHANGED <<wireVars, held, status, taken, published, task>>

(* It could not be written, or its reply is lost.                          *)
ReopenLost ==
  /\ \/ round = "unsent"
     \/ round = "sending" /\ ReplyLost(<<"reopen", gen>>)
  /\ ReopenEnds(FALSE)
  /\ UNCHANGED <<wireVars, held, status, taken, published, task>>

(* The offline deadline passes: a change given up on.                      *)
GiveUpReopen ==
  /\ round = "sending"
  /\ CountGiveUp(<<"reopen", gen>>)
  /\ ReopenEnds(FALSE)
  /\ UNCHANGED <<held, status, taken, published, task>>

(* The round is over: calls may take the connection, and the release task
   starts.                                                                 *)
Publish ==
  /\ ~published /\ round = "none"
  /\ published' = TRUE /\ task' = "mark" /\ unseen' = {}
  /\ UNCHANGED <<wireVars, held, rec, status, taken, owed, round>>

-----------------------------------------------------------------------------
(* The server. *)

Opens == {"open", "reopen"}

(* The kernel's release is no change: it is not fenced, and runs whatever
   connection it came on.                                                  *)
RunRelease(x) ==
  /\ x[1] = "release" /\ x \in wire
  /\ wire' = wire \ {x}
  /\ held' = FALSE
  /\ \E with \in {"reply", "ended"} : Answer(x, with)
  /\ UNCHANGED <<session, link, reset, pending, client>>

(* The operation of an open: the handle it finds under the id, or one it
   opens and keeps, or an error.                                           *)
FinishOpen(x) ==
  /\ x[1] \in Opens
  /\ \/ Finish(x, "reply") /\ held' = TRUE
     \/ ~held /\ Finish(x, "errno") /\ UNCHANGED held
  /\ UNCHANGED client

FinishOwed(x) ==
  /\ x[1] = "owed" /\ Finish(x, "reply")
  /\ held' = FALSE
  /\ UNCHANGED client

(* A change of the connection's count of pending cancels wakes its task.   *)
Cancels(x) ==
  /\ CancelAnswered(x)
  /\ unseen' = IF x[2] = gen THEN unseen \cup {"cancels"} ELSE unseen
  /\ UNCHANGED <<held, rec, status, taken, owed, round, published, task>>

ServeChange(x) ==
  /\ IF x[1] = "release" THEN Undecoded(x) ELSE Serves(x) \/ Begin(x)
  /\ UNCHANGED <<held, client>>

-----------------------------------------------------------------------------
Calls ==
  \/ StartOpen \/ StartRelease
  \/ \E c \in CallOf : Send(c) \/ NotSent(c) \/ Lost(c) \/ GiveUpUnsent(c)
  \/ GiveUpOpen \/ GiveUpRelease \/ OpenReplied \/ ReleaseReplied

Task    == MarkOwed \/ LookAndSend \/ TaskWakes \/ Settle \/ TaskEnds
Manager ==
  \/ Resume \/ NewSession \/ Publish
  \/ ReopenSent \/ ReopenReplied \/ ReopenLost \/ GiveUpReopen
Net     == (Lose \/ Stray) /\ UNCHANGED <<held, client>>
Serve(x) ==
  ServeChange(x) \/ RunRelease(x) \/ FinishOpen(x) \/ FinishOwed(x) \/ Cancels(x)

Next == Calls \/ Task \/ Manager \/ Net \/ \E x \in Exchange : Serve(x)

Spec == Init /\ [][Next]_vars

-----------------------------------------------------------------------------
(* The client is done with the id: nothing of it is under way or owed.     *)
Forgotten ==
  /\ status["open"] = "ended" /\ status["release"] \in {"idle", "ended"}
  /\ rec # "live" /\ owed = NotOwed /\ round = "none"

(* S3 of docs/design.md: no descriptor outlives the client's interest in it.
   Once nothing of the id is under way or owed at the client, the session
   holds none, and no open still on its way to the server lands later.     *)
NoHandleLeaks == Forgotten => ~held

(* S3 of docs/design.md: a live handle is open on the session, whatever
   became of the requests, connections and sessions before.                *)
LiveIsHeld == rec = "live" /\ round = "none" => held

(* The release task never sleeps through its work: while it waits, a release
   owed that nothing holds back has a wake on its way to it, whenever it came
   to be owed and whichever cancel was the last to be answered.            *)
OwedIsSeen ==
  task = "wait" /\ up /\ owed = Unsent /\ cancels[gen] = 0 => unseen # {}

(* No descriptor outlives the client's interest in it, and the release task
   never sleeps through a release that is owed and can be sent
   (`open_settled`, `release_owed`, `send_releases`).                      *)
ReleasedForGood == NoHandleLeaks /\ OwedIsSeen
=============================================================================
