--------------------------- MODULE Invalidation ---------------------------
(* How the client turns what the server reports into invalidations of the   *)
(* kernel's cache (client/src/invalidate.rs, and read_events and run in     *)
(* client/src/conn.rs).  A task per connection reads event frames into a    *)
(* bounded queue; the translator turns events and reconnects into work for  *)
(* a second bounded queue; the notifier thread does the work, in calls that *)
(* may block for long.  Nobody waits for room: a full queue becomes a flag  *)
(* that stands for everything dropped.                                      *)
EXTENDS Naturals, Sequences, FiniteSets, SequencesExt

CONSTANTS
    Item,       \* what the kernel may have cached: an entry, a file's data
    EventRoom,  \* EVENT_QUEUE
    WorkRoom,   \* QUEUE
    MaxGen      \* bound: connections made

Overflow == "overflow"
Sweep == "sweep"
Event == (SUBSET Item \ {{}}) \cup {{Overflow}}

VARIABLES
    gen,               \* the generation of the newest connection, 0 before the first
    up,                \* whether that connection is published and not lost
    changed,           \* the state was published and the translator has not looked
    overflow_pending,  \* read_events: events were dropped since the last overflow queued
    events,            \* events read and not yet translated
    last_generation,   \* translate: the last generation it saw connected
    sweep_pending,     \* translate: work was dropped since the last sweep queued
    queue,             \* work for the notifier
    stopped,           \* the invalidator is being dropped
    ended,             \* the notifier thread has ended
    stale,             \* history: reported changed and not invalidated since
    accepted           \* history: of these, what the queue has had work for

reader == <<overflow_pending, events>>
translator == <<last_generation, sweep_pending>>
vars == <<gen, up, changed, reader, translator, queue, stopped, ended, stale>>

Init ==
    /\ gen = 0 /\ up = FALSE /\ changed = FALSE
    /\ overflow_pending = FALSE /\ events = <<>>
    /\ last_generation = 0 /\ sweep_pending = FALSE
    /\ queue = <<>>
    /\ stopped = FALSE /\ ended = FALSE
    /\ stale = {} /\ accepted = {}

---------------------------------------------------------------------------
(* The connection.                                                          *)

(* The manager publishes a connection and starts its reader.  Whatever the  *)
(* kernel cached over an earlier one may have changed meanwhile.            *)
Publish ==
    /\ ~up /\ gen < MaxGen
    /\ gen' = gen + 1 /\ up' = TRUE /\ changed' = TRUE
    /\ overflow_pending' = FALSE
    /\ stale' = IF gen = 0 THEN stale ELSE Item
    /\ UNCHANGED <<events, translator, queue, stopped, ended>>

(* It is lost, and the reader's flag with its task.                         *)
Lose ==
    /\ up
    /\ up' = FALSE /\ changed' = TRUE
    /\ overflow_pending' = FALSE
    /\ UNCHANGED <<gen, events, translator, queue, stopped, ended, stale>>

(* read_events gets one frame: the overflow it owes goes first, if there is *)
(* room, and then the event, if there still is.                             *)
ReadEvent(e) ==
    LET room == Len(events) < EventRoom
        owed == IF overflow_pending /\ room THEN Append(events, {Overflow}) ELSE events
        dropped == overflow_pending /\ ~room
        fits == ~dropped /\ Len(owed) < EventRoom
    IN  /\ up /\ ~stopped
        /\ stale' = stale \cup (IF e = {Overflow} THEN Item ELSE e)
        /\ events' = IF fits THEN Append(owed, e) ELSE owed
        /\ overflow_pending' = ~fits
        /\ UNCHANGED <<gen, up, changed, translator, queue, stopped, ended>>

---------------------------------------------------------------------------
(* The translator.                                                          *)

(* Sends that stop at a full queue without a sweep to come.                 *)
SendQuietly(work) ==
    LET room == WorkRoom - Len(queue)
    IN  /\ queue' = queue \o SubSeq(work, 1, IF Len(work) < room THEN Len(work) ELSE room)
        /\ UNCHANGED sweep_pending

(* The end of each turn of translate: the sweep it owes goes first, and     *)
(* nothing else while that does not fit; then the work, up to what does     *)
(* not fit.                                                                 *)
Send(work) ==
    LET room == WorkRoom - Len(queue)
        all == IF sweep_pending THEN <<Sweep>> \o work ELSE work
    IN  /\ queue' = queue \o SubSeq(all, 1, IF Len(all) < room THEN Len(all) ELSE room)
        /\ sweep_pending' = (Len(all) > room)

(* An event: a piece of work for each of its items.                         *)
TranslateEvent ==
    /\ ~stopped /\ events # <<>>
    /\ events' = Tail(events)
    /\ Send(IF Head(events) = {Overflow} THEN <<Sweep>> ELSE SetToSeq(Head(events)))
    /\ UNCHANGED <<gen, up, changed, overflow_pending, last_generation, stopped, ended, stale>>

(* A change of the connection's state: a new connection is a sweep, unless  *)
(* it is the first; anything but a connection is passed over.               *)
TranslateState ==
    /\ ~stopped /\ changed
    /\ changed' = FALSE
    /\ IF up
       THEN /\ last_generation' = gen
            /\ Send(IF gen > 1 /\ gen # last_generation THEN <<Sweep>> ELSE <<>>)
       ELSE UNCHANGED <<translator, queue>>
    /\ UNCHANGED <<gen, up, reader, stopped, ended, stale>>

(* The FUSE layer drops a name it found wrong, or a file whose attributes   *)
(* changed; with the queue full it does without.                            *)
Own(i) ==
    /\ ~stopped
    /\ Len(queue) < WorkRoom
    /\ queue' = Append(queue, i)
    /\ UNCHANGED <<gen, up, changed, reader, translator, stopped, ended, stale>>

---------------------------------------------------------------------------
(* The notifier thread.                                                     *)

(* A thread that leaves its queue when it is told to stop.                  *)
NotifyUntilStopped ==
    /\ ~stopped /\ queue # <<>>
    /\ queue' = Tail(queue)
    /\ stale' = IF Head(queue) = Sweep THEN {} ELSE stale \ {Head(queue)}
    /\ UNCHANGED <<gen, up, changed, reader, translator, stopped, ended>>

(* A sweep that is taken off the queue and not made.                        *)
NotifyNoSweep ==
    /\ queue # <<>>
    /\ queue' = Tail(queue)
    /\ stale' = stale \ {Head(queue)}
    /\ UNCHANGED <<gen, up, changed, reader, translator, stopped, ended>>

(* One piece of work: the kernel drops what it had of the item, or of       *)
(* everything.                                                              *)
Notify ==
    /\ queue # <<>>
    /\ queue' = Tail(queue)
    /\ stale' = IF Head(queue) = Sweep THEN {} ELSE stale \ {Head(queue)}
    /\ UNCHANGED <<gen, up, changed, reader, translator, stopped, ended>>

(* Invalidator::drop lets every sender go, and waits for the thread, which  *)
(* ends when its queue is empty.                                            *)
Stop ==
    /\ ~stopped
    /\ stopped' = TRUE
    /\ UNCHANGED <<gen, up, changed, reader, translator, queue, ended, stale>>

Ends ==
    /\ stopped /\ queue = <<>> /\ ~ended
    /\ ended' = TRUE
    /\ UNCHANGED <<gen, up, changed, reader, translator, queue, stopped, stale>>

Accept ==
    accepted' = {i \in stale' : i \in accepted \/ Range(queue') \cap {i, Sweep} # {}}

Next ==
    /\ \/ Publish \/ Lose
       \/ \E e \in Event : ReadEvent(e)
       \/ TranslateEvent \/ TranslateState
       \/ \E i \in Item : Own(i)
       \/ Notify \/ Stop \/ Ends
    /\ Accept

Spec == Init /\ [][Next]_<<vars, accepted>>

(* The translator is woken by an event and by a state; the thread by work,  *)
(* and by the last sender's going.                                          *)
Fairness ==
    /\ WF_vars(TranslateEvent) /\ WF_vars(TranslateState)
    /\ WF_vars(Notify) /\ WF_vars(Ends)

FairSpec == Spec /\ Fairness

---------------------------------------------------------------------------
(* What was reported changed is invalidated or going to be: it is in one of *)
(* the queues, a sweep is or is owed, or a connection the translator has    *)
(* yet to see will bring one.  No drop at a full queue, and no flag lost    *)
(* with its connection's reader, leaves the kernel with stale data and      *)
(* nothing to say so (read_events, translate).                              *)
StaleIsCovered ==
    ~stopped => \A i \in stale :
        \/ \E e \in Range(events) : e \cap {i, Overflow} # {}
        \/ overflow_pending \/ sweep_pending
        \/ Range(queue) \cap {i, Sweep} # {}
        \/ ~up \/ (changed /\ last_generation # gen)

(* Work that was accepted is done, also while the invalidator is stopping   *)
(* (notifier_loop and Invalidator::drop).                                   *)
WorkIsDone == \A i \in Item : []<>(i \notin accepted)

(* Dropping the invalidator returns: the thread it waits for ends.          *)
DropReturns == []<>(stopped => ended)

---------------------------------------------------------------------------
(* What invalidate.rs:1 says: "a full queue collapses into one bounded      *)
(* sweep", so one that is owed is sent.                                     *)
SweepIsSent == sweep_pending ~> (~sweep_pending \/ stopped)
===========================================================================
