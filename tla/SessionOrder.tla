---------------------------- MODULE SessionOrder ----------------------------
(***************************************************************************)
(* How one session of the server orders its changes: `SessionState`, its   *)
(* `Attachment` counts and the `Exchange` of every request                 *)
(* (crates/server/src/session.rs).                                         *)
(*                                                                         *)
(* A request has two threads of control.  Its task (`handle_request`)      *)
(* decodes it, waits in `drain` while it is held, then waits for the       *)
(* blocking thread or for the client to give up.  The blocking thread      *)
(* calls `begin`, does the work and drops the guard.  Every step below is  *)
(* one critical section of the attachment lock, or of `Notify`, by one of  *)
(* them.  A step is guarded by where its thread of control is, never by    *)
(* the phase it expects to find: what the code asserts or calls            *)
(* unreachable is an invariant here (PhasesAsAsserted).                    *)
(***************************************************************************)
EXTENDS Naturals, FiniteSets

CONSTANTS
  Change,     \* requests with Request::changes() true
  Read,       \* every other request
  MaxEpoch    \* bound on the number of connections the session attaches

ASSUME ChangeFinite  == IsFiniteSet(Change)
ASSUME ReadNoChange  == Change \cap Read = {}
ASSUME MaxEpochIsNat == MaxEpoch \in Nat \ {0}

Request == Change \cup Read

VARIABLES
  epoch, running, abandoned, running_older,   \* the Attachment
  phase,      \* PhaseExchange of each request, "none" before it is decoded
  at,         \* epoch of the connection that carries it
  task,       \* where its handle_request task is
  thread,     \* where its blocking thread is
  woken,      \* requests whose enabled `notified` future has been woken
  wakes,      \* notify_waiters() calls due: made after the lock is let go
  answer,     \* what the client is told
  behind      \* history: what fenced the request as it was decoded

counts  == <<epoch, running, abandoned, running_older>>
control == <<task, thread, woken, wakes>>
vars    == <<counts, phase, at, control, answer, behind>>

Phase  == {"none", "Held", "Ready", "Cancelled", "Superseded", "Dropped",
           "Running", "Abandoned", "Finished"}
Task   == {"none", "enable", "look", "await", "sleep", "select", "join",
           "end"}
Thread == {"none", "spawned", "running", "refused", "done"}
Answer == {"none", "unrun", "fenced", "superseded", "reply"}

(* Changes begun and not finished.                                         *)
Active == {c \in Change : phase[c] \in {"Running", "Abandoned"}}

(* What a change decoded now on the current connection must wait for.      *)
Blockers == {c \in Active : at[c] < epoch \/ phase[c] = "Abandoned"}

-----------------------------------------------------------------------------
Init ==
  /\ epoch = 1 /\ running = 0 /\ abandoned = 0 /\ running_older = 0
  /\ phase  = [r \in Request |-> "none"]
  /\ at     = [r \in Request |-> 0]
  /\ task   = [r \in Request |-> "none"]
  /\ thread = [r \in Request |-> "none"]
  /\ woken  = {} /\ wakes = 0
  /\ answer = [r \in Request |-> "none"]
  /\ behind = [r \in Request |-> {}]

(* Exchange::end and every other move of a phase.                          *)
Move(r, to) == phase' = [phase EXCEPT ![r] = to]

(* The task is done with the request, having told the client `said`.       *)
EndTask(r, said) ==
  /\ task'   = [task EXCEPT ![r] = "end"]
  /\ answer' = [answer EXCEPT ![r] = said]

(* mutant of Spawn: every request listens for the client giving up. *)
SpawnAllListening(r) ==
  /\ task'   = [task EXCEPT ![r] = "select"]
  /\ thread' = [thread EXCEPT ![r] = "spawned"]

(* The request is handed to a blocking thread; only a change's task listens
   for the client giving up meanwhile.                                     *)
Spawn(r) ==
  /\ task'   = [task EXCEPT ![r] = IF r \in Change THEN "select" ELSE "join"]
  /\ thread' = [thread EXCEPT ![r] = "spawned"]

(* mutant of Waiting: only the changes of older connections fence. *)
WaitingOlderOnly(e) == IF e = epoch THEN running_older ELSE 0

(* mutant of Waiting: a reconnect fences nothing. *)
WaitingAbandonedOnly(e) == IF e = epoch THEN abandoned ELSE 0

(* How many changes one arriving on the connection of e is to wait for.    *)
Waiting(e) == IF e = epoch THEN running_older + abandoned ELSE 0

(* A request is decoded on the connection attached at e, current or not:
   `fencing` holds it or leaves it ready.                                  *)
Decode(r, e) ==
  /\ task[r] = "none"
  /\ at'     = [at EXCEPT ![r] = e]
  /\ behind' = [behind EXCEPT ![r] =
                  IF r \in Change /\ e = epoch THEN Blockers ELSE {}]
  /\ \/ /\ r \in Change /\ Waiting(e) > 0
        /\ Move(r, "Held")
        /\ task' = [task EXCEPT ![r] = "enable"]
        /\ UNCHANGED thread
     \/ /\ r \in Read \/ Waiting(e) = 0
        /\ Move(r, "Ready")
        /\ Spawn(r)
  /\ UNCHANGED <<counts, woken, wakes, answer>>

(* `drain`: the wait is enabled before the look.                           *)
Enable(r) ==
  /\ task[r] = "enable"
  /\ task'  = [task EXCEPT ![r] = "look"]
  /\ woken' = woken \ {r}
  /\ UNCHANGED <<counts, phase, at, thread, wakes, answer, behind>>

(* `drained`, with what the task does on its verdict before it next waits. *)
Look(r) ==
  /\ task[r] = "look"
  /\ \/ /\ at[r] # epoch
        /\ Move(r, "Superseded")
        /\ EndTask(r, "superseded")
        /\ UNCHANGED thread
     \/ /\ at[r] = epoch /\ Waiting(at[r]) = 0
        /\ Move(r, "Ready")
        /\ Spawn(r)
        /\ UNCHANGED answer
     \/ /\ at[r] = epoch /\ Waiting(at[r]) > 0
        /\ task' = [task EXCEPT ![r] = "await"]
        /\ UNCHANGED <<phase, thread, answer>>
  /\ UNCHANGED <<counts, at, woken, wakes, behind>>

(* The wait itself begins after the look.                                  *)
Await(r) ==
  /\ task[r] = "await"
  /\ task' = [task EXCEPT ![r] = "sleep"]
  /\ UNCHANGED <<counts, phase, at, thread, woken, wakes, answer, behind>>

(* It ends if the future was woken, and the loop goes round.               *)
Wake(r) ==
  /\ task[r] = "sleep" /\ r \in woken
  /\ task' = [task EXCEPT ![r] = "enable"]
  /\ UNCHANGED <<counts, phase, at, thread, woken, wakes, answer, behind>>

(* The select around `drain` polls one branch at a time: the other two are
   taken only before the drain's first look or while it sleeps.            *)
InDrain(r) == task[r] \in {"enable", "sleep"}

(* The client gives up on a held change: `abandon` finds it unbegun.       *)
CancelHeld(r) ==
  /\ InDrain(r)
  /\ Move(r, "Cancelled")
  /\ EndTask(r, "unrun")
  /\ UNCHANGED <<counts, at, thread, woken, wakes, behind>>

(* The stream of a held change ends: `stopped`.                            *)
Stopped(r) ==
  /\ InDrain(r)
  /\ Move(r, "Dropped")
  /\ EndTask(r, "none")
  /\ UNCHANGED <<counts, at, thread, woken, wakes, behind>>

(* mutants of Refused: one of its two grounds is not looked at. *)
RefusedStaleOnly(r)     == at[r] # epoch
RefusedCancelledOnly(r) == phase[r] = "Cancelled"

(* A change `begin` turns away, under the lock that counts it.             *)
Refused(r) == phase[r] = "Cancelled" \/ at[r] # epoch

(* The blocking thread calls `begin`.                                      *)
Begin(r) ==
  /\ thread[r] = "spawned"
  /\ \/ /\ r \in Change /\ Refused(r)
        /\ Move(r, IF phase[r] = "Cancelled" THEN "Cancelled" ELSE "Superseded")
        /\ thread' = [thread EXCEPT ![r] = "refused"]
        /\ UNCHANGED running
     \/ /\ r \in Read \/ ~Refused(r)
        /\ Move(r, "Running")
        /\ thread' = [thread EXCEPT ![r] = "running"]
        /\ running' = IF r \in Change THEN running + 1 ELSE running
  /\ UNCHANGED <<epoch, abandoned, running_older, at, task, woken, wakes,
                 answer, behind>>

(* The client gives up on a change handed to a thread: `abandon`.          *)
Cancel(r) ==
  /\ task[r] = "select"
  /\ \/ /\ phase[r] = "Ready"
        /\ Move(r, "Cancelled")
        /\ EndTask(r, "unrun")
        /\ UNCHANGED abandoned
     \/ /\ phase[r] \in {"Superseded", "Finished"}
        /\ task' = [task EXCEPT ![r] = "join"]
        /\ UNCHANGED <<phase, answer, abandoned>>
     \/ /\ phase[r] = "Running"
        /\ Move(r, "Abandoned")
        /\ abandoned' = IF at[r] = epoch THEN abandoned + 1 ELSE abandoned
        /\ task'   = [task EXCEPT ![r] = "join"]
        /\ answer' = [answer EXCEPT ![r] = "fenced"]
  /\ UNCHANGED <<epoch, running, running_older, at, thread, woken, wakes,
                 behind>>

(* mutant of Uncount: an abandoned change is uncounted whatever its epoch. *)
UncountAnyAbandoned(r) ==
  /\ running' = IF at[r] = epoch THEN running - 1 ELSE running
  /\ running_older' = IF at[r] # epoch THEN running_older - 1 ELSE running_older
  /\ abandoned' = IF phase[r] = "Abandoned" THEN abandoned - 1 ELSE abandoned

(* The guard's drop takes a change out of the counts it is in.             *)
Uncount(r) ==
  \/ /\ at[r] = epoch
     /\ running'   = running - 1
     /\ abandoned' = IF phase[r] = "Abandoned" THEN abandoned - 1 ELSE abandoned
     /\ UNCHANGED running_older
  \/ /\ at[r] # epoch
     /\ running_older' = running_older - 1
     /\ UNCHANGED <<running, abandoned>>

(* mutant of Drains: only the last change of the older connections wakes. *)
DrainsOlderOnly(r) == at[r] # epoch /\ running_older = 1

(* It was the last of a count that later changes wait for.                 *)
Drains(r) ==
  IF at[r] = epoch THEN phase[r] = "Abandoned" /\ abandoned = 1
                   ELSE running_older = 1

(* The work is done and the guard dropped, by a return or a panic.         *)
Finish(r) ==
  /\ thread[r] = "running"
  /\ Move(r, "Finished")
  /\ thread' = [thread EXCEPT ![r] = "done"]
  /\ \/ /\ r \in Read
        /\ UNCHANGED <<running, abandoned, running_older, wakes>>
     \/ /\ r \in Change
        /\ Uncount(r)
        /\ wakes' = IF Drains(r) THEN wakes + 1 ELSE wakes
  /\ UNCHANGED <<epoch, at, task, woken, answer, behind>>

(* The task has the thread's outcome: a change refused as it began is
   answered as superseded, one fenced has been answered already.           *)
Reply(r) ==
  /\ task[r] \in {"select", "join"}
  /\ \/ thread[r] = "refused" /\ EndTask(r, "superseded")
     \/ /\ thread[r] = "done"
        /\ EndTask(r, IF answer[r] = "fenced" THEN "fenced" ELSE "reply")
  /\ UNCHANGED <<counts, phase, at, thread, woken, wakes, behind>>

(* mutant of Listeners: a future counts from its first await only. *)
ListenersAsleep == {r \in Request : task[r] = "sleep"}

(* Requests whose `notified` future is enabled.                            *)
Listeners == {r \in Request : task[r] \in {"look", "await", "sleep"}}

(* drained.notify_waiters(), after the lock is let go.                     *)
NotifyWaiters ==
  /\ wakes > 0
  /\ wakes' = wakes - 1
  /\ woken' = woken \cup Listeners
  /\ UNCHANGED <<counts, phase, at, task, thread, answer, behind>>

(* mutant of Reattach: the changes given up stay counted as this epoch's. *)
ReattachKeepsAbandoned ==
  /\ epoch' = epoch + 1
  /\ running_older' = running_older + running
  /\ running' = 0 /\ abandoned' = abandoned

(* The counts as a newer connection takes the session.                     *)
Reattach ==
  /\ epoch' = epoch + 1
  /\ running_older' = running_older + running
  /\ running' = 0 /\ abandoned' = 0

(* `Sessions::resume`.                                                     *)
Resume ==
  /\ epoch < MaxEpoch
  /\ Reattach
  /\ wakes' = wakes + 1
  /\ UNCHANGED <<phase, at, task, thread, woken, answer, behind>>

Step(r) ==
  \/ \E e \in 1 .. epoch : Decode(r, e)
  \/ Enable(r) \/ Look(r) \/ Await(r) \/ Wake(r) \/ CancelHeld(r)
  \/ Stopped(r)
  \/ Begin(r) \/ Cancel(r) \/ Finish(r) \/ Reply(r)

Next == Resume \/ NotifyWaiters \/ \E r \in Request : Step(r)

Spec == Init /\ [][Next]_vars

(* The runtime polls a woken task, runs a queued blocking thread, and a
   thread on its way out of the guard's drop makes its notify call.  A
   connection, a give-up and the end of a filesystem operation are no one's
   duty.                                                                   *)
Fairness ==
  /\ WF_vars(NotifyWaiters)
  /\ \A r \in Request :
       WF_vars(Enable(r)) /\ WF_vars(Look(r)) /\ WF_vars(Await(r))
         /\ WF_vars(Wake(r)) /\ WF_vars(Begin(r)) /\ WF_vars(Reply(r))

(* Every filesystem operation returns in the end.                          *)
OperationsReturn == \A r \in Request : WF_vars(Finish(r))

FairSpec == Spec /\ Fairness

-----------------------------------------------------------------------------
(* Each variable keeps its type: above all the counts of the attachment,
   which are unsigned in the code, are never taken below zero.             *)
TypeOK ==
  /\ epoch \in 1 .. MaxEpoch
  /\ running \in Nat /\ abandoned \in Nat /\ running_older \in Nat
  /\ phase  \in [Request -> Phase]
  /\ at     \in [Request -> 0 .. MaxEpoch]
  /\ task   \in [Request -> Task]
  /\ thread \in [Request -> Thread]
  /\ woken  \subseteq Request /\ wakes \in Nat
  /\ answer \in [Request -> Answer]
  /\ behind \in [Request -> SUBSET Change]

(* Of the changes begun and not finished: those of the current connection,
   those of older ones, and those of the current one given up on.          *)
ActiveNow    == {c \in Active : at[c] = epoch}
ActiveBefore == {c \in Active : at[c] < epoch}
GivenUpNow   == {c \in ActiveNow : phase[c] = "Abandoned"}

(* The three counts are what they are documented to count (Attachment,
   session.rs:82): they survive a resume that moves the running changes over
   to the older ones, and a change that finishes on the far side of it.    *)
CountsMatch ==
  /\ running       = Cardinality(ActiveNow)
  /\ running_older = Cardinality(ActiveBefore)
  /\ abandoned     = Cardinality(GivenUpNow)

(* Changes carried by two connections are never in the filesystem together:
   `begin` refuses those of a superseded connection, and `fencing` holds
   those of the current one until the older have finished.                 *)
OneEpochRuns == \A c, d \in Active : at[c] = at[d]

(* A change on the current connection is let through only when everything
   that fenced it as it was decoded (a change of an older connection still
   running, one whose caller was told it was given up) has finished.       *)
FenceRespected ==
  \A c \in Change :
    (phase[c] \in {"Ready", "Running", "Abandoned"} /\ at[c] = epoch)
      => behind[c] \cap Active = {}

(* `begin`, `drained`, `stopped`, `abandon` and the guard's drop each meet
   only the phases they do not assert against or call unreachable!.        *)
PhasesAsAsserted ==
  \A r \in Request :
    /\ thread[r] = "spawned" =>
         phase[r] \in IF r \in Change THEN {"Ready", "Cancelled"} ELSE {"Ready"}
    /\ task[r] \in {"enable", "look", "await", "sleep"} => phase[r] = "Held"
    /\ task[r] = "select" =>
         phase[r] \in {"Ready", "Superseded", "Running", "Finished"}
    /\ thread[r] = "running" => phase[r] \in {"Running", "Abandoned"}

(* The session's state stays in order, however resumes, cancels and the
   requests' threads interleave: the four invariants above, and its type.  *)
SessionSafe ==
  TypeOK /\ CountsMatch /\ OneEpochRuns /\ FenceRespected /\ PhasesAsAsserted

(* What a client is told of a change it gave up is true for good: told unrun
   or superseded, or its stream dropped while held, the change never begins;
   told fenced or answered, it has begun.                                  *)
AnswersAreTrue ==
  [][\A c \in Change :
       /\ (answer[c] \in {"unrun", "superseded"} \/ phase[c] = "Dropped")
            => thread[c]' # "running"
       /\ answer[c]' \in {"fenced", "reply"}
            => thread[c] \in {"running", "done"}]_vars

(* When operations return, no request waits for ever: no wake is lost, and
   the fence of one change behind another, across any number of resumes, is
   no deadlock.                                                            *)
EveryRequestEnds ==
  OperationsReturn => \A r \in Request : (task[r] # "none") ~> (task[r] = "end")

(* The changes of a session as ChangeOrder sees them.                      *)
OrderState == [c \in Change |->
  CASE phase[c] = "none"  -> "idle"
    [] phase[c] = "Held"  -> "waiting"
    [] phase[c] = "Ready" -> "clear"
    [] phase[c] \in {"Running", "Abandoned"} -> "active"
    [] OTHER -> "over"]

Order == INSTANCE ChangeOrder WITH
  current <- epoch,
  state   <- OrderState,
  conn    <- [c \in Change |-> at[c]],
  gaveUp  <- {c \in Change : phase[c] = "Abandoned"}

(* The counters, phases, threads and wakes implement ChangeOrder, which
   speaks of the set of changes in the filesystem and of nothing else.     *)
OrderSpec == Order!Spec
=============================================================================
