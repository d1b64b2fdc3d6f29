------------------------- MODULE SessionOrderProofs -------------------------
(***************************************************************************)
(* Proofs about SessionOrder, for any number of requests and connections.  *)
(***************************************************************************)
EXTENDS SessionOrder, FiniteSetTheorems, TLAPS

(* Most steps are first-order: Zenon tries each before the SMT solver does. *)
USE ZenonT(3), SMTT(10)

(* What a request's task, its blocking thread and its answer can be in each
   phase.                                                                  *)
Listening(r) == IF r \in Change THEN "select" ELSE "join"

Shape(r) ==
  \/ /\ phase[r] = "none" /\ task[r] = "none" /\ thread[r] = "none"
     /\ answer[r] = "none"
  \/ /\ phase[r] = "Held" /\ r \in Change /\ thread[r] = "none"
     /\ task[r] \in {"enable", "look", "await", "sleep"} /\ answer[r] = "none"
  \/ /\ phase[r] = "Ready" /\ thread[r] = "spawned"
     /\ task[r] = Listening(r) /\ answer[r] = "none"
  \/ /\ phase[r] = "Running" /\ thread[r] = "running"
     /\ task[r] = Listening(r) /\ answer[r] = "none"
  \/ /\ phase[r] = "Abandoned" /\ r \in Change /\ thread[r] = "running"
     /\ task[r] = "join" /\ answer[r] = "fenced"
  \/ /\ phase[r] = "Finished" /\ thread[r] = "done"
     /\ \/ task[r] \in {"select", "join"} /\ answer[r] \in {"none", "fenced"}
        \/ task[r] = "end" /\ answer[r] \in {"reply", "fenced"}
  \/ /\ phase[r] = "Superseded" /\ r \in Change
     /\ \/ /\ thread[r] = "refused" /\ task[r] \in {"select", "join"}
           /\ answer[r] = "none"
        \/ /\ thread[r] \in {"none", "refused"} /\ task[r] = "end"
           /\ answer[r] = "superseded"
  \/ /\ phase[r] = "Cancelled" /\ r \in Change /\ task[r] = "end"
     /\ thread[r] \in {"none", "spawned", "refused"} /\ answer[r] = "unrun"
  \/ /\ phase[r] = "Dropped" /\ r \in Change /\ task[r] = "end"
     /\ thread[r] = "none" /\ answer[r] = "none"

Shaped == \A r \in Request : Shape(r)

(* A request decoded came on a connection the session has had.             *)
AtAttached == \A r \in Request : phase[r] # "none" => at[r] \in 1 .. epoch

(* Once a change of the current connection is let through, no change of an
   older connection is left in the filesystem, and none can enter it.      *)
OlderDrained ==
  \A c \in Change :
    (phase[c] \in {"Ready", "Running", "Abandoned"} /\ at[c] = epoch)
      => \A d \in Active : at[d] = epoch

(* What a change was put behind had begun by then, and stands in its way for
   as long as it runs.                                                     *)
BehindOlder ==
  \A c \in Change : \A d \in behind[c] :
    /\ phase[d] \in {"Running", "Abandoned", "Finished"}
    /\ at[d] < at[c] \/ phase[d] # "Running"

(* The inductive invariant. *)
Inductive ==
  /\ TypeOK /\ Shaped /\ AtAttached /\ CountsMatch
  /\ OlderDrained /\ OneEpochRuns /\ BehindOlder /\ FenceRespected

-----------------------------------------------------------------------------
(* What the counts count is finite. *)
LEMMA CountSetsFinite ==
  /\ IsFiniteSet(ActiveNow) /\ IsFiniteSet(ActiveBefore)
  /\ IsFiniteSet(GivenUpNow)
BY ChangeFinite, FS_Subset DEF ActiveNow, ActiveBefore, GivenUpNow, Active

(* A session just created satisfies the invariant. *)
LEMMA InitInductive == Init => Inductive
<1> SUFFICES ASSUME Init PROVE Inductive
  OBVIOUS
<1>1. TypeOK /\ Shaped /\ AtAttached
  BY MaxEpochIsNat
  DEF Init, TypeOK, Shaped, Shape, AtAttached, Phase, Task, Thread, Answer
<1>2. Active = {}
  BY DEF Init, Active, Request
<1>3. CountsMatch
  <2>1. ActiveNow = {} /\ ActiveBefore = {} /\ GivenUpNow = {}
    BY <1>2 DEF ActiveNow, ActiveBefore, GivenUpNow
  <2> QED
    BY <2>1, FS_EmptySet DEF CountsMatch, Init
<1>4. OlderDrained /\ OneEpochRuns /\ BehindOlder /\ FenceRespected
  BY <1>2 DEF OlderDrained, OneEpochRuns, BehindOlder, FenceRespected, Init,
              Request
<1> QED
  BY <1>1, <1>3, <1>4 DEF Inductive

(* Each step keeps the shape of every request. *)
LEMMA ShapedStep ==
  ASSUME TypeOK, Shaped, Next
  PROVE  Shaped'
<1> USE DEF TypeOK, Shaped, Shape, Listening, Phase, Task, Thread, Answer
<1>1. CASE Resume
  BY <1>1 DEF Resume
<1>2. CASE NotifyWaiters
  BY <1>2 DEF NotifyWaiters, counts
<1>3. ASSUME NEW r \in Request, Step(r) PROVE Shaped'
  <2> USE DEF counts, Move, EndTask, Spawn
  <2>1. ASSUME NEW e \in 1 .. epoch, Decode(r, e) PROVE Shaped'
    BY <2>1 DEF Decode, Request
  <2>2. CASE Enable(r)
    BY <2>2 DEF Enable
  <2>3. CASE Look(r)
    BY <2>3 DEF Look
  <2>4. CASE Await(r) \/ Wake(r)
    BY <2>4 DEF Await, Wake
  <2>5. CASE CancelHeld(r)
    BY <2>5 DEF CancelHeld, InDrain
  <2>6. CASE Stopped(r)
    BY <2>6 DEF Stopped, InDrain
  <2>7. CASE Begin(r)
    BY <2>7, ReadNoChange DEF Begin, Request, Refused
  <2>8. CASE Cancel(r)
    BY <2>8 DEF Cancel
  <2>9. CASE Finish(r)
    BY <2>9 DEF Finish
  <2>10. CASE Reply(r)
    BY <2>10 DEF Reply
  <2> QED
    BY <1>3, <2>1, <2>2, <2>3, <2>4, <2>5, <2>6, <2>7, <2>8, <2>9, <2>10
    DEF Step
<1> QED
  BY <1>1, <1>2, <1>3 DEF Next

(* The counts follow the changes into and out of the filesystem: a change
   begins, is given up, finishes, or is left behind by a newer connection. *)
LEMMA CountsStep ==
  ASSUME Inductive, Next
  PROVE  CountsMatch'
<1> USE DEF Inductive, TypeOK, counts
<1> DEFINE Same == /\ ActiveNow' = ActiveNow /\ ActiveBefore' = ActiveBefore
                   /\ GivenUpNow' = GivenUpNow
<1>0. ASSUME Same, UNCHANGED counts PROVE CountsMatch'
  BY <1>0 DEF CountsMatch
<1>1. CASE Resume
  <2> USE <1>1 DEF Resume, Reattach
  <2>1. Active' = Active
    BY DEF Active
  <2>2. \A c \in Active : at[c] \in 1 .. epoch
    BY DEF Active, AtAttached, Request
  <2>3. ActiveNow' = {} /\ GivenUpNow' = {}
    BY <2>1, <2>2 DEF ActiveNow, GivenUpNow
  <2>4. ActiveBefore' = ActiveBefore \cup ActiveNow
    BY <2>1, <2>2 DEF ActiveNow, ActiveBefore
  <2>5. ActiveBefore \cap ActiveNow = {}
    BY DEF ActiveNow, ActiveBefore
  <2>6. Cardinality(ActiveBefore') = running_older + running
    <3>1. Cardinality(ActiveBefore \cup ActiveNow)
            = Cardinality(ActiveBefore) + Cardinality(ActiveNow)
                - Cardinality(ActiveBefore \cap ActiveNow)
      BY CountSetsFinite, FS_Union
    <3>2. Cardinality(ActiveBefore \cap ActiveNow) = 0
      BY <2>5, FS_EmptySet
    <3> QED
      BY <2>4, <3>1, <3>2 DEF CountsMatch
  <2> QED
    BY <2>3, <2>6, FS_EmptySet DEF CountsMatch
<1>2. CASE NotifyWaiters
  <2>1. Same
    BY <1>2 DEF NotifyWaiters, ActiveNow, ActiveBefore, GivenUpNow, Active
  <2> QED
    BY <1>0, <1>2, <2>1 DEF NotifyWaiters
<1>3. ASSUME NEW r \in Request, Step(r) PROVE CountsMatch'
  <2> USE DEF Move, EndTask, Spawn
  <2>0. ASSUME phase[r] \notin {"Running", "Abandoned"},
               phase' = phase \/ \E p : p \notin {"Running", "Abandoned"}
                                         /\ Move(r, p),
               \A q \in Request \ {r} : at'[q] = at[q],
               UNCHANGED counts
        PROVE  CountsMatch'
    <3>1. Active' = Active /\ r \notin Active
      BY <2>0 DEF Active, Request
    <3>2. \A c \in Active : at'[c] = at[c] /\ phase'[c] = phase[c]
      BY <2>0, <3>1 DEF Active, Request
    <3>3. Same
      BY <2>0, <3>1, <3>2 DEF ActiveNow, ActiveBefore, GivenUpNow
    <3> QED
      BY <1>0, <2>0, <3>3
  <2>1. ASSUME NEW e \in 1 .. epoch, Decode(r, e) PROVE CountsMatch'
    BY <2>0, <2>1 DEF Decode, Shaped, Shape, Listening
  <2>2. CASE Enable(r)
    BY <2>0, <2>2 DEF Enable, Shaped, Shape, Listening
  <2>3. CASE Look(r)
    BY <2>0, <2>3 DEF Look, Shaped, Shape, Listening
  <2>4. CASE Await(r) \/ Wake(r)
    BY <2>0, <2>4 DEF Await, Wake, Shaped, Shape, Listening
  <2>5. CASE CancelHeld(r)
    BY <2>0, <2>5 DEF CancelHeld, InDrain, Shaped, Shape, Listening
  <2>6. CASE Stopped(r)
    BY <2>0, <2>6 DEF Stopped, InDrain, Shaped, Shape, Listening
  <2>7. CASE Begin(r)
    <3> USE <2>7 DEF Begin
    <3>1. CASE r \in Change /\ Refused(r)
      <4>1. phase[r] \in {"Ready", "Cancelled"}
        BY <3>1, ReadNoChange DEF Shaped, Shape, Listening
      <4>2. Move(r, "Cancelled") \/ Move(r, "Superseded")
        BY <3>1, ReadNoChange
      <4>3. UNCHANGED <<counts, at>>
        BY <3>1, ReadNoChange
      <4> QED
        BY <2>0, <4>1, <4>2, <4>3
    <3>2. CASE r \in Read
      <4>1. Active' = Active /\ r \notin Active
        BY <3>2, ReadNoChange DEF Active, Request
      <4>2. Same
        BY <4>1, <3>2, ReadNoChange
        DEF ActiveNow, ActiveBefore, GivenUpNow, Active, Request
      <4> QED
        BY <1>0, <3>2, <4>2, ReadNoChange
    <3>3. CASE r \in Change /\ ~Refused(r)
      <4>1. /\ phase' = [phase EXCEPT ![r] = "Running"]
            /\ at' = at /\ at[r] = epoch /\ phase[r] = "Ready"
            /\ epoch' = epoch /\ running' = running + 1
            /\ abandoned' = abandoned /\ running_older' = running_older
        BY <3>3 DEF Refused, Shaped, Shape, Listening
      <4>2. ActiveNow' = ActiveNow \cup {r} /\ r \notin ActiveNow
        BY <3>3, <4>1 DEF ActiveNow, Active, Request
      <4>3. ActiveBefore' = ActiveBefore /\ GivenUpNow' = GivenUpNow
        BY <3>3, <4>1 DEF ActiveNow, ActiveBefore, GivenUpNow, Active, Request
      <4> QED
        BY <4>1, <4>2, <4>3, CountSetsFinite, FS_AddElement DEF CountsMatch
    <3> QED
      BY <3>1, <3>2, <3>3 DEF Request
  <2>8. CASE Cancel(r)
    <3> USE <2>8 DEF Cancel
    <3>1. CASE phase[r] = "Ready"
      BY <2>0, <3>1
    <3>2. CASE phase[r] \in {"Superseded", "Finished"}
      BY <2>0, <3>2
    <3>3. CASE phase[r] = "Running"
      <4>1. /\ phase' = [phase EXCEPT ![r] = "Abandoned"]
            /\ at' = at /\ epoch' = epoch /\ r \in Change
            /\ running' = running /\ running_older' = running_older
            /\ abandoned' = IF at[r] = epoch THEN abandoned + 1 ELSE abandoned
        BY <3>3 DEF Shaped, Shape, Listening
      <4>2. Active' = Active /\ r \in Active
        BY <3>3, <4>1 DEF Active, Request
      <4>3. ActiveNow' = ActiveNow /\ ActiveBefore' = ActiveBefore
        BY <4>1, <4>2 DEF ActiveNow, ActiveBefore
      <4>4. CASE at[r] = epoch
        <5>1. GivenUpNow' = GivenUpNow \cup {r} /\ r \notin GivenUpNow
          BY <3>3, <4>1, <4>2, <4>3, <4>4
          DEF GivenUpNow, ActiveNow, Active, Request
        <5> QED
          BY <4>1, <4>3, <4>4, <5>1, CountSetsFinite, FS_AddElement
          DEF CountsMatch
      <4>5. CASE at[r] # epoch
        <5>1. GivenUpNow' = GivenUpNow
          BY <3>3, <4>1, <4>2, <4>3, <4>5
          DEF GivenUpNow, ActiveNow, Active, Request
        <5> QED
          BY <4>1, <4>3, <4>5, <5>1 DEF CountsMatch
      <4> QED
        BY <4>4, <4>5
    <3> QED
      BY <3>1, <3>2, <3>3
  <2>9. CASE Finish(r)
    <3> USE <2>9 DEF Finish
    <3>1. CASE r \in Read
      <4>1. Active' = Active /\ r \notin Active
        BY <3>1, ReadNoChange DEF Active, Request
      <4>2. Same
        BY <4>1, <3>1, ReadNoChange
        DEF ActiveNow, ActiveBefore, GivenUpNow, Active, Request
      <4> QED
        BY <1>0, <3>1, <4>2, ReadNoChange
    <3>2. CASE r \in Change
      <4>1. /\ phase' = [phase EXCEPT ![r] = "Finished"]
            /\ at' = at /\ epoch' = epoch /\ Uncount(r)
            /\ phase[r] \in {"Running", "Abandoned"}
        BY <3>2, ReadNoChange DEF Shaped, Shape, Listening
      <4>2. Active' = Active \ {r} /\ r \in Active
        BY <3>2, <4>1 DEF Active, Request
      <4>3. at[r] \in 1 .. epoch
        BY <4>1 DEF AtAttached
      <4>4. CASE at[r] = epoch
        <5>1. ActiveNow' = ActiveNow \ {r} /\ r \in ActiveNow
          BY <4>1, <4>2, <4>4 DEF ActiveNow
        <5>2. ActiveBefore' = ActiveBefore
          BY <4>1, <4>2, <4>4 DEF ActiveBefore
        <5>3. GivenUpNow' = GivenUpNow \ {r}
          BY <3>2, <4>1, <5>1 DEF GivenUpNow, ActiveNow, Active, Request
        <5>4. r \in GivenUpNow <=> phase[r] = "Abandoned"
          BY <5>1 DEF GivenUpNow
        <5>5. /\ running' = running - 1 /\ running_older' = running_older
              /\ abandoned' = IF phase[r] = "Abandoned" THEN abandoned - 1
                                                        ELSE abandoned
          BY <4>1, <4>4 DEF Uncount
        <5> QED
          BY <5>1, <5>2, <5>3, <5>4, <5>5, CountSetsFinite, FS_RemoveElement
          DEF CountsMatch
      <4>5. CASE at[r] # epoch
        <5>1. ActiveBefore' = ActiveBefore \ {r} /\ r \in ActiveBefore
          BY <4>1, <4>2, <4>3, <4>5 DEF ActiveBefore
        <5>2. ActiveNow' = ActiveNow /\ GivenUpNow' = GivenUpNow
          BY <3>2, <4>1, <4>2, <4>5
          DEF ActiveNow, GivenUpNow, Active, Request
        <5>3. /\ running_older' = running_older - 1 /\ running' = running
              /\ abandoned' = abandoned
          BY <4>1, <4>5 DEF Uncount
        <5> QED
          BY <5>1, <5>2, <5>3, CountSetsFinite, FS_RemoveElement
          DEF CountsMatch
      <4> QED
        BY <4>4, <4>5
    <3> QED
      BY <3>1, <3>2 DEF Request
  <2>10. CASE Reply(r)
    <3>1. Active' = Active
      BY <2>10 DEF Reply, Active
    <3>2. Same
      BY <2>10, <3>1 DEF Reply, ActiveNow, ActiveBefore, GivenUpNow
    <3> QED
      BY <1>0, <2>10, <3>2 DEF Reply
  <2> QED
    BY <1>3, <2>1, <2>2, <2>3, <2>4, <2>5, <2>6, <2>7, <2>8, <2>9, <2>10
    DEF Step
<1> QED
  BY <1>1, <1>2, <1>3 DEF Next

(* Each step keeps the types; a count is taken from only while it counts.  *)
LEMMA TypeStep ==
  ASSUME Inductive, Next, CountsMatch'
  PROVE  TypeOK'
<1> USE DEF Inductive, TypeOK, counts
<1>1. running' \in Nat /\ abandoned' \in Nat /\ running_older' \in Nat
  <2>1. /\ IsFiniteSet(ActiveNow') /\ IsFiniteSet(ActiveBefore')
        /\ IsFiniteSet(GivenUpNow')
    BY ChangeFinite, FS_Subset DEF ActiveNow, ActiveBefore, GivenUpNow, Active
  <2> QED
    BY <2>1, FS_CardinalityType DEF CountsMatch
<1>2. CASE Resume
  BY <1>1, <1>2, MaxEpochIsNat DEF Resume, Reattach
<1>3. CASE NotifyWaiters
  BY <1>1, <1>3 DEF NotifyWaiters, Listeners
<1>4. ASSUME NEW r \in Request, Step(r) PROVE TypeOK'
  <2> USE <1>1 DEF Move, EndTask, Spawn, Phase, Task, Thread, Answer
  <2>1. ASSUME NEW e \in 1 .. epoch, Decode(r, e) PROVE TypeOK'
    <3>1. Blockers \in SUBSET Change
      BY DEF Blockers, Active
    <3>2. e \in 0 .. MaxEpoch
      BY MaxEpochIsNat
    <3> QED
      BY <2>1, <3>1, <3>2 DEF Decode
  <2>2. CASE Enable(r)
    BY <2>2 DEF Enable
  <2>3. CASE Look(r)
    BY <2>3 DEF Look
  <2>4. CASE Await(r) \/ Wake(r)
    BY <2>4 DEF Await, Wake
  <2>5. CASE CancelHeld(r)
    BY <2>5 DEF CancelHeld
  <2>6. CASE Stopped(r)
    BY <2>6 DEF Stopped
  <2>7. CASE Begin(r)
    BY <2>7 DEF Begin
  <2>8. CASE Cancel(r)
    BY <2>8 DEF Cancel
  <2>9. CASE Finish(r)
    BY <2>9 DEF Finish
  <2>10. CASE Reply(r)
    BY <2>10 DEF Reply
  <2> QED
    BY <1>4, <2>1, <2>2, <2>3, <2>4, <2>5, <2>6, <2>7, <2>8, <2>9, <2>10
    DEF Step
<1> QED
  BY <1>2, <1>3, <1>4 DEF Next

(* The counts a change waits for are zero exactly when nothing is in the way
   of it.                                                                  *)
LEMMA WaitingIsBlockers ==
  ASSUME Inductive
  PROVE  /\ Waiting(epoch) \in Nat
         /\ Waiting(epoch) = 0 <=> Blockers = {}
<1> USE DEF Inductive, TypeOK
<1>1. /\ running_older = 0 <=> ActiveBefore = {}
      /\ abandoned = 0 <=> GivenUpNow = {}
  BY CountSetsFinite, FS_EmptySet DEF CountsMatch
<1>2. \A c \in Active : at[c] \in 1 .. epoch
  BY DEF Active, AtAttached, Request
<1>3. Blockers = ActiveBefore \cup GivenUpNow
  BY <1>2 DEF Blockers, ActiveBefore, GivenUpNow, ActiveNow
<1> QED
  BY <1>1, <1>3 DEF Waiting

(* What the order of the changes rests on: nothing is let through while an
   older change is in the filesystem, and none is begun out of turn.       *)
LEMMA OrderStep ==
  ASSUME Inductive, Next
  PROVE  /\ AtAttached' /\ OlderDrained' /\ OneEpochRuns'
         /\ BehindOlder' /\ FenceRespected'
<1> DEFINE Goal == /\ AtAttached /\ OlderDrained /\ OneEpochRuns
                   /\ BehindOlder /\ FenceRespected
<1> USE DEF Inductive, TypeOK, counts
<1> USE DEF AtAttached, OlderDrained, OneEpochRuns, BehindOlder, FenceRespected
<1>1. CASE Resume
  <2>1. Active' = Active
    BY <1>1 DEF Resume, Active
  <2>2. \A r \in Request : phase[r] # "none" => at[r] # epoch'
    BY <1>1 DEF Resume, Reattach
  <2> QED
    BY <1>1, <2>1, <2>2 DEF Resume, Reattach, Request
<1>2. CASE NotifyWaiters
  BY <1>2 DEF NotifyWaiters, Active
<1>3. ASSUME NEW r \in Request, Step(r) PROVE Goal'
  <2> USE DEF Move, EndTask, Spawn
  <2>0. ASSUME UNCHANGED <<epoch, phase, at, behind>> PROVE Goal'
    BY <2>0 DEF Active
  <2>a. ASSUME NEW p \in {"Superseded", "Cancelled", "Dropped"}, Move(r, p),
               phase[r] \in {"Held", "Ready", "Cancelled"},
               UNCHANGED <<epoch, at, behind>>
        PROVE  Goal'
    <3>1. Active' = Active
      BY <2>a DEF Active, Request
    <3>2. \A c \in Change : phase'[c] \in {"Ready", "Running", "Abandoned"}
             => phase'[c] = phase[c]
      BY <2>a DEF Request
    <3>3. AtAttached' /\ OlderDrained' /\ OneEpochRuns' /\ FenceRespected'
      BY <2>a, <3>1, <3>2
    <3>4. BehindOlder'
      BY <2>a DEF Request
    <3> QED
      BY <3>3, <3>4
  <2>1. ASSUME NEW e \in 1 .. epoch, Decode(r, e) PROVE Goal'
    <3> USE <2>1 DEF Decode
    <3>0. phase[r] = "none"
      BY DEF Shaped, Shape, Listening
    <3>1. PICK p \in {"Held", "Ready"} :
            /\ Move(r, p)
            /\ (p = "Ready" /\ r \in Change) => Waiting(e) = 0
      BY ReadNoChange
    <3>2. Active' = Active /\ r \notin Active
      BY <3>0, <3>1 DEF Active, Request
    <3>3. (p = "Ready" /\ r \in Change /\ e = epoch) => Blockers = {}
      BY <3>1, WaitingIsBlockers
    <3>4. \A d \in Active : at[d] \in 1 .. epoch /\ at'[d] = at[d]
      BY <3>2 DEF Active, Request
    <3>5. AtAttached'
      BY <3>0, <3>1
    <3>6. OlderDrained' /\ OneEpochRuns'
      BY <3>1, <3>2, <3>3, <3>4 DEF Blockers, Request
    <3>7. BehindOlder'
      <4> SUFFICES ASSUME NEW c \in Change, NEW d \in behind'[c]
                   PROVE  /\ phase'[d] \in {"Running", "Abandoned", "Finished"}
                          /\ at'[d] < at'[c] \/ phase'[d] # "Running"
        OBVIOUS
      <4>1. CASE c = r
        BY <3>1, <3>2, <3>4, <4>1 DEF Blockers, Active, Request
      <4>2. CASE c # r
        BY <3>0, <3>1, <4>2 DEF Request
      <4> QED
        BY <4>1, <4>2
    <3>8. FenceRespected'
      BY <3>1, <3>2, <3>3 DEF Request
    <3> QED
      BY <3>5, <3>6, <3>7, <3>8
  <2>2. CASE Enable(r)
    BY <2>0, <2>2 DEF Enable
  <2>3. CASE Look(r)
    <3> USE <2>3 DEF Look
    <3>0. phase[r] = "Held" /\ r \in Change
      BY DEF Shaped, Shape, Listening
    <3>1. CASE at[r] # epoch
      BY <2>a, <3>0, <3>1
    <3>2. CASE at[r] = epoch /\ Waiting(at[r]) > 0
      <4>1. UNCHANGED <<epoch, phase, at, behind>>
        BY <3>2 DEF counts
      <4> QED
        BY ONLY <2>0, <4>1
    <3>3. CASE at[r] = epoch /\ Waiting(at[r]) = 0
      <4>1. Blockers = {}
        BY <3>3, WaitingIsBlockers
      <4>2. Move(r, "Ready") /\ UNCHANGED <<epoch, at, behind>>
        BY <3>3
      <4>3. Active' = Active
        BY <3>0, <4>2 DEF Active, Request
      <4>a. \A d \in Active : at[d] \in 1 .. epoch
        BY DEF Active, Request
      <4>4. \A d \in Active : at[d] = epoch
        BY ONLY <4>1, <4>a, epoch \in Nat DEF Blockers
      <4>5. behind[r] \cap Active = {}
        BY <3>0, <3>3, <4>1 DEF Blockers, Active
      <4>6. AtAttached' /\ OlderDrained' /\ OneEpochRuns'
        BY <3>0, <4>2, <4>3, <4>4 DEF Request
      <4>7. FenceRespected'
        BY <3>0, <4>2, <4>3, <4>5 DEF Request
      <4>8. BehindOlder'
        BY <3>0, <4>2 DEF Request
      <4> QED
        BY <4>6, <4>7, <4>8
    <3> QED
      BY <3>1, <3>2, <3>3, WaitingIsBlockers
  <2>4. CASE Await(r) \/ Wake(r)
    BY <2>0, <2>4 DEF Await, Wake
  <2>5. CASE CancelHeld(r)
    BY <2>a, <2>5 DEF CancelHeld, InDrain, Shaped, Shape, Listening
  <2>6. CASE Stopped(r)
    BY <2>a, <2>6 DEF Stopped, InDrain, Shaped, Shape, Listening
  <2>7. CASE Begin(r)
    <3> USE <2>7 DEF Begin
    <3>1. CASE r \in Change /\ Refused(r)
      <4>1. phase[r] \in {"Ready", "Cancelled"}
        BY <3>1 DEF Shaped, Shape, Listening
      <4>2. Move(r, "Cancelled") \/ Move(r, "Superseded")
        BY <3>1, ReadNoChange
      <4> QED
        BY <2>a, <4>1, <4>2
    <3>2. CASE r \in Read
      <4>1. \A c \in Change : phase'[c] = phase[c]
        BY <3>2, ReadNoChange DEF Request
      <4>2. Active' = Active
        BY <4>1 DEF Active
      <4>a. phase[r] # "none"
        BY <3>2, ReadNoChange DEF Shaped, Shape
      <4>b. Move(r, "Running") \/ UNCHANGED phase
        BY <3>2, ReadNoChange
      <4>3. AtAttached'
        BY <4>a, <4>b
      <4>4. BehindOlder'
        BY <4>1 DEF Request
      <4> QED
        BY <4>1, <4>2, <4>3, <4>4
    <3>3. CASE r \in Change /\ ~Refused(r)
      <4>1. Move(r, "Running") /\ phase[r] = "Ready" /\ at[r] = epoch
        BY <3>3 DEF Refused, Shaped, Shape, Listening
      <4>2. Active' = Active \cup {r}
        BY <3>3, <4>1 DEF Active, Request
      <4>3. \A d \in Active' : at[d] = epoch
        BY <3>3, <4>1, <4>2
      <4>4. AtAttached' /\ OlderDrained' /\ OneEpochRuns'
        BY <3>3, <4>1, <4>3
      <4>5. \A c \in Change : r \notin behind[c]
        BY <4>1
      <4>6. BehindOlder'
        BY <4>1, <4>5 DEF Request
      <4>7. FenceRespected'
        BY <3>3, <4>1, <4>2, <4>5 DEF Request
      <4> QED
        BY <4>4, <4>6, <4>7
    <3> QED
      BY <3>1, <3>2, <3>3 DEF Request
  <2>8. CASE Cancel(r)
    <3> USE <2>8 DEF Cancel
    <3>1. CASE phase[r] = "Ready"
      BY <2>a, <3>1
    <3>2. CASE phase[r] \in {"Superseded", "Finished"}
      BY <2>0, <3>2
    <3>3. CASE phase[r] = "Running"
      <4>1. Move(r, "Abandoned")
        BY <3>3
      <4>2. Active' = Active
        BY <3>3, <4>1 DEF Active, Request
      <4>3. AtAttached' /\ OlderDrained' /\ OneEpochRuns' /\ FenceRespected'
        BY <3>3, <4>1, <4>2 DEF Request
      <4>4. BehindOlder'
        BY <3>3, <4>1 DEF Request
      <4> QED
        BY <4>3, <4>4
    <3> QED
      BY <3>1, <3>2, <3>3
  <2>9. CASE Finish(r)
    <3> USE <2>9 DEF Finish
    <3>1. Active' = Active \ {r}
      BY DEF Active, Request
    <3>2. phase[r] # "none"
      BY DEF Shaped, Shape
    <3>3. AtAttached' /\ OlderDrained' /\ OneEpochRuns' /\ FenceRespected'
      BY <3>1, <3>2 DEF Request
    <3>4. BehindOlder'
      BY DEF Request
    <3> QED
      BY <3>3, <3>4
  <2>10. CASE Reply(r)
    BY <2>0, <2>10 DEF Reply
  <2> QED
    BY <1>3, <2>1, <2>2, <2>3, <2>4, <2>5, <2>6, <2>7, <2>8, <2>9, <2>10
    DEF Step
<1> QED
  BY <1>1, <1>2, <1>3 DEF Next

(* The inductive invariant holds of every state. *)
LEMMA InductiveInvariant == Spec => []Inductive
<1>1. Inductive /\ [Next]_vars => Inductive'
  <2>1. ASSUME Inductive, Next PROVE Inductive'
    BY <2>1, ShapedStep, CountsStep, TypeStep, OrderStep DEF Inductive
  <2>2. ASSUME Inductive, UNCHANGED vars PROVE Inductive'
    <3> USE <2>2 DEF vars, counts, control, Inductive
    <3>1. TypeOK'
      BY DEF TypeOK
    <3>2. Shaped'
      <4>1. phase' = phase /\ task' = task /\ thread' = thread /\ answer' = answer
        OBVIOUS
      <4>2. \A r \in Request : Shape(r)
        BY DEF Shaped
      <4> QED
        BY ONLY <4>1, <4>2 DEF Shaped, Shape, Listening
    <3>a. AtAttached'
      BY DEF AtAttached
    <3>3. Active' = Active
      BY DEF Active
    <3>4. CountsMatch'
      BY <3>3 DEF CountsMatch, ActiveNow, ActiveBefore, GivenUpNow
    <3>5. OlderDrained' /\ OneEpochRuns'
      BY <3>3 DEF OlderDrained, OneEpochRuns
    <3>6. BehindOlder' /\ FenceRespected'
      BY <3>3 DEF BehindOlder, FenceRespected
    <3> QED
      BY <3>1, <3>2, <3>a, <3>4, <3>5, <3>6
  <2> QED
    BY <2>1, <2>2
<1> QED
  BY InitInductive, <1>1, PTL DEF Spec
-----------------------------------------------------------------------------
(* The counts of an attachment keep their types, and are never taken below
   zero by a guard dropped on either side of a resume.                     *)
THEOREM TypeCorrect == Spec => []TypeOK
BY InductiveInvariant, PTL DEF Inductive

(* The counts are those of the changes in the filesystem, always.          *)
THEOREM CountsCorrect == Spec => []CountsMatch
BY InductiveInvariant, PTL DEF Inductive

(* Changes of two connections are never in the filesystem together.        *)
THEOREM OneEpochCorrect == Spec => []OneEpochRuns
BY InductiveInvariant, PTL DEF Inductive

(* No change is let through past one that fenced it.                       *)
THEOREM FenceCorrect == Spec => []FenceRespected
BY InductiveInvariant, PTL DEF Inductive

(* No assertion of the exchange's methods fails, and none of their
   unreachable! arms is reached.                                           *)
THEOREM PhasesCorrect == Spec => []PhasesAsAsserted
<1>1. Inductive => PhasesAsAsserted
  BY ReadNoChange
  DEF Inductive, Shaped, Shape, Listening, PhasesAsAsserted, Request
<1> QED
  BY <1>1, InductiveInvariant, PTL

(* All of these together, as the model is checked for them.                *)
THEOREM SessionIsSafe == Spec => []SessionSafe
BY TypeCorrect, CountsCorrect, OneEpochCorrect, FenceCorrect, PhasesCorrect, PTL
DEF SessionSafe

(* What a client is told of a change it gave up stays true.                *)
THEOREM AnswersCorrect == Spec => AnswersAreTrue
<1> DEFINE Kept(c) ==
      /\ (answer[c] \in {"unrun", "superseded"} \/ phase[c] = "Dropped")
           => thread[c]' # "running"
      /\ answer[c]' \in {"fenced", "reply"} => thread[c] \in {"running", "done"}
<1>1. ASSUME Inductive, Next, NEW c \in Change PROVE Kept(c)
  <2> USE <1>1 DEF Inductive, TypeOK, counts
  <2>0. Shape(c) /\ c \in Request /\ c \notin Read
    BY ReadNoChange DEF Shaped, Request
  <2>1. CASE Resume \/ NotifyWaiters
    BY <2>0, <2>1 DEF Resume, NotifyWaiters, Shape, Listening
  <2>2. ASSUME NEW r \in Request, Step(r) PROVE Kept(c)
    <3> USE DEF Move, EndTask, Spawn
    <3>1. ASSUME NEW e \in 1 .. epoch, Decode(r, e) PROVE Kept(c)
      BY <2>0, <3>1 DEF Decode, Shape, Listening
    <3>2. CASE Enable(r) \/ Look(r) \/ Await(r) \/ Wake(r)
      BY <2>0, <3>2 DEF Enable, Look, Await, Wake, Shape, Listening
    <3>3. CASE CancelHeld(r) \/ Stopped(r)
      BY <2>0, <3>3 DEF CancelHeld, Stopped, Shape, Listening
    <3>4. CASE Begin(r)
      BY <2>0, <3>4 DEF Begin, Refused, Shape, Listening
    <3>5. CASE Cancel(r)
      BY <2>0, <3>5 DEF Cancel, Shape, Listening
    <3>6. CASE Finish(r)
      BY <2>0, <3>6 DEF Finish, Shape, Listening
    <3>7. CASE Reply(r)
      BY <2>0, <3>7 DEF Reply, Shape, Listening
    <3> QED
      BY <2>2, <3>1, <3>2, <3>3, <3>4, <3>5, <3>6, <3>7 DEF Step
  <2> QED
    BY <2>1, <2>2 DEF Next
<1>2. Inductive /\ [Next]_vars => [\A c \in Change : Kept(c)]_vars
  BY <1>1
<1> QED
  BY <1>2, InductiveInvariant, PTL DEF Spec, AnswersAreTrue
-----------------------------------------------------------------------------
(* The abstract changes in the filesystem, and in the way, are the concrete
   ones.                                                                   *)
LEMMA OrderSets ==
  ASSUME TypeOK
  PROVE  Order!Active = Active /\ Order!InTheWay = Blockers
<1>1. Order!Active = Active
  BY DEF Order!Active, OrderState, Active
<1> QED
  BY <1>1 DEF Order!InTheWay, Blockers, Active

(* A step of one request is a step of ChangeOrder, or leaves it alone.     *)
LEMMA OrderStepOf ==
  ASSUME Inductive, NEW r \in Request, Step(r)
  PROVE  Order!Next \/ UNCHANGED Order!vars
<1> DEFINE Alone == UNCHANGED Order!vars
<1> USE DEF Inductive, TypeOK, counts, Move, EndTask, Spawn
<1>0. ASSUME UNCHANGED <<epoch, phase, at>> PROVE Alone
  BY <1>0 DEF Order!vars, OrderState
<1>a. ASSUME r \in Read, epoch' = epoch,
             \A q \in Request \ {r} : phase'[q] = phase[q] /\ at'[q] = at[q]
      PROVE  Alone
  <2>1. \A c \in Change : phase'[c] = phase[c] /\ at'[c] = at[c]
    BY <1>a, ReadNoChange DEF Request
  <2> QED
    BY <1>a, <2>1 DEF Order!vars, OrderState
<1>b. ASSUME NEW p \in {"Superseded", "Cancelled", "Dropped"}, Move(r, p),
             phase[r] \in {"Held", "Ready"}, r \in Change,
             UNCHANGED <<epoch, at>>
      PROVE  Order!Refuse(r)
  BY <1>b DEF Order!Refuse, Order!Become, OrderState, Request, Phase
<1>1. ASSUME NEW e \in 1 .. epoch, Decode(r, e) PROVE Order!Next \/ Alone
  <2> USE <1>1 DEF Decode
  <2>1. CASE r \in Read
    BY <1>a, <2>1, ReadNoChange
  <2>2. CASE r \in Change
    <3>1. phase[r] = "none"
      BY DEF Shaped, Shape, Listening
    <3>2. PICK p : /\ p = IF e = epoch /\ Blockers # {} THEN "Held" ELSE "Ready"
                   /\ Move(r, p)
      BY <2>2, ReadNoChange, WaitingIsBlockers DEF Waiting
    <3>3. OrderState[r] = "idle"
      BY <2>2, <3>1 DEF OrderState
    <3>4. OrderState' = [OrderState EXCEPT ![r] =
             IF e = epoch /\ Order!InTheWay # {} THEN "waiting" ELSE "clear"]
      BY <2>2, <3>2, OrderSets DEF OrderState, Request
    <3>5. {c \in Change : phase[c] = "Abandoned"}'
            = {c \in Change : phase[c] = "Abandoned"}
      BY <2>2, <3>1, <3>2 DEF Request
    <3>6. [c \in Change |-> at[c]]' = [[c \in Change |-> at[c]] EXCEPT ![r] = e]
      BY <2>2 DEF Request
    <3>7. Order!Arrive(r, e)
      BY <3>3, <3>4, <3>5, <3>6 DEF Order!Arrive, Order!Become
    <3> QED
      BY <2>2, <3>7 DEF Order!Next
  <2> QED
    BY <2>1, <2>2 DEF Request
<1>2. CASE Enable(r) \/ Await(r) \/ Wake(r) \/ Reply(r)
  BY <1>0, <1>2 DEF Enable, Await, Wake, Reply
<1>3. CASE Look(r)
  <2> USE <1>3 DEF Look
  <2>0. phase[r] = "Held" /\ r \in Change
    BY DEF Shaped, Shape, Listening
  <2>1. CASE at[r] # epoch
    BY <1>b, <2>0, <2>1 DEF Order!Next
  <2>2. CASE at[r] = epoch /\ Waiting(at[r]) > 0
    BY <1>0, <2>2
  <2>3. CASE at[r] = epoch /\ Waiting(at[r]) = 0
    <3>1. Order!InTheWay = {}
      BY <2>3, WaitingIsBlockers, OrderSets
    <3>2. Move(r, "Ready") /\ UNCHANGED <<epoch, at>>
      BY <2>3
    <3>3. Order!Clear(r)
      BY <2>0, <2>3, <3>1, <3>2
      DEF Order!Clear, Order!Become, OrderState, Request
    <3> QED
      BY <2>0, <3>3 DEF Order!Next
  <2> QED
    BY <2>1, <2>2, <2>3, WaitingIsBlockers
<1>4. CASE CancelHeld(r) \/ Stopped(r)
  BY <1>b, <1>4
  DEF CancelHeld, Stopped, InDrain, Shaped, Shape, Listening, Order!Next
<1>5. CASE Begin(r)
  <2> USE <1>5 DEF Begin
  <2>1. CASE r \in Read
    BY <1>a, <2>1, ReadNoChange
  <2>2. CASE r \in Change /\ phase[r] = "Cancelled"
    <3>1. UNCHANGED <<epoch, phase, at>>
      BY <2>2, ReadNoChange DEF Refused
    <3> QED
      BY <1>0, <3>1
  <2>3. CASE r \in Change /\ phase[r] # "Cancelled" /\ Refused(r)
    <3>1. phase[r] = "Ready" /\ Move(r, "Superseded")
      BY <2>3, ReadNoChange DEF Shaped, Shape, Listening
    <3> QED
      BY <1>b, <2>3, <3>1 DEF Order!Next
  <2>4. CASE r \in Change /\ ~Refused(r)
    <3>1. Move(r, "Running") /\ phase[r] = "Ready" /\ at[r] = epoch
      BY <2>4 DEF Refused, Shaped, Shape, Listening
    <3>2. \A d \in Order!Active : at[d] = epoch
      BY <2>4, <3>1, OrderSets DEF OlderDrained
    <3>3. Order!Begin(r)
      BY <2>4, <3>1, <3>2
      DEF Order!Begin, Order!Become, Order!Active, OrderState, Request
    <3> QED
      BY <2>4, <3>3 DEF Order!Next
  <2> QED
    BY <2>1, <2>2, <2>3, <2>4 DEF Request
<1>6. CASE Cancel(r)
  <2> USE <1>6 DEF Cancel
  <2>0. r \in Change \/ phase[r] = "Finished"
    BY DEF Shaped, Shape, Listening
  <2>1. CASE phase[r] = "Ready"
    BY <1>b, <2>0, <2>1 DEF Order!Next
  <2>2. CASE phase[r] \in {"Superseded", "Finished"}
    BY <1>0, <2>2
  <2>3. CASE phase[r] = "Running"
    <3>1. Order!GiveUp(r)
      BY <2>0, <2>3
      DEF Order!GiveUp, Order!Active, OrderState, Request
    <3> QED
      BY <2>0, <2>3, <3>1 DEF Order!Next
  <2> QED
    BY <2>1, <2>2, <2>3
<1>7. CASE Finish(r)
  <2> USE <1>7 DEF Finish
  <2>1. CASE r \in Read
    BY <1>a, <2>1, ReadNoChange
  <2>2. CASE r \in Change
    <3>1. phase[r] \in {"Running", "Abandoned"}
      BY DEF Shaped, Shape
    <3>2. Order!Finish(r)
      BY <2>2, <3>1
      DEF Order!Finish, Order!Become, Order!Active, OrderState, Request
    <3> QED
      BY <2>2, <3>2 DEF Order!Next
  <2> QED
    BY <2>1, <2>2 DEF Request
<1> QED
  BY <1>1, <1>2, <1>3, <1>4, <1>5, <1>6, <1>7 DEF Step
(* A session implements ChangeOrder: it runs each change at most once, on its
   newest connection, and never past one that was to finish first.         *)
THEOREM OrderImplemented == Spec => OrderSpec
<1>1. Init => Order!Init
  BY DEF Init, Order!Init, OrderState, Request
<1>2. Inductive /\ [Next]_vars => [Order!Next]_(Order!vars)
  <2>1. ASSUME Inductive, Resume PROVE Order!Next
    <3>1. Order!Resume
      BY <2>1
      DEF Resume, Reattach, Order!Resume, OrderState, Inductive, TypeOK
    <3> QED
      BY <3>1 DEF Order!Next
  <2>2. ASSUME NotifyWaiters \/ UNCHANGED vars PROVE UNCHANGED Order!vars
    BY <2>2 DEF NotifyWaiters, vars, counts, Order!vars, OrderState
  <2> QED
    BY <2>1, <2>2, OrderStepOf DEF Next
<1> QED
  BY <1>1, <1>2, InductiveInvariant, PTL DEF Spec, OrderSpec, Order!Spec
=============================================================================
