---------------------------- MODULE ChangeFeed ----------------------------
(* How a change on the export reaches the sessions (server/src/watch.rs     *)
(* and forward_events in server/src/session.rs).  A mutating request        *)
(* records whose change it is, the kernel queues an inotify event, the      *)
(* event thread folds what it reads into a batch, each window's batch is    *)
(* broadcast, and a task per connection writes it to the client unless the  *)
(* session made the change itself.  Every stage is bounded, and one that    *)
(* overflows must say so: a client that misses a change serves stale data.  *)
(*                                                                          *)
(* Which directories are watched is another part of watch.rs: here every    *)
(* path is.  A path stands for the item an event about it gives, an entry   *)
(* or a data change; a notice is an item no session's change gives, such as *)
(* Unwatched.                                                               *)
EXTENDS Naturals, Sequences, FiniteSets, SequencesExt

CONSTANTS
    Session,      \* sessions, each on one connection at a time
    Writer,       \* the sessions that change anything
    Path,         \* paths that change
    Notice,       \* items the server itself announces
    Nobody,       \* no session: a change made on the server, an unknown origin
    LogCapacity,  \* CHANGE_LOG_CAPACITY
    KernelQueue,  \* events the kernel queues before it reports an overflow
    MaxPending,   \* MAX_PENDING
    Channel,      \* batches the broadcast channel keeps for a slow receiver
    MaxChanges    \* bound: changes and announcements made

ASSUME FeedSets ==
    /\ Writer \subseteq Session
    /\ Nobody \notin Session
    /\ Path \cap Notice = {}
ASSUME FeedBounds ==
    {LogCapacity, KernelQueue, MaxPending, Channel, MaxChanges} \subseteq Nat \ {0}

Overflow == "overflow"
Item == Path \cup Notice
Origin == Session \cup {Nobody}

VARIABLES
    by_path,   \* ChangeLog: whose change each recorded path is, Nobody when unrecorded
    aged,      \* the recorded paths whose record is older than ORIGIN_MEMORY
    order,     \* ChangeLog: recorded paths in insertion order
    op,        \* the path each session's running request has recorded and will change
    queue,     \* the kernel's inotify queue
    items,     \* Pending::items, with their origins
    overflow,  \* Pending::overflow
    channel,   \* the batches broadcast and not yet received, by session
    lagged,    \* the sessions whose receiver lost a batch
    stream,    \* each session's event stream: "up", "ended" or "none"
    due,       \* history: the items each session must hear of, being another's doing
    changes    \* changes made, bounded by MaxChanges

log == <<by_path, aged, order>>
pending == <<items, overflow>>
fan == <<channel, lagged>>
vars == <<log, op, queue, pending, fan, stream, due, changes>>

Init ==
    /\ by_path = [p \in Path |-> Nobody] /\ aged = {} /\ order = <<>>
    /\ op = [s \in Session |-> {}]
    /\ queue = <<>>
    /\ items = <<>> /\ overflow = FALSE
    /\ channel = [s \in Session |-> <<>>] /\ lagged = {}
    /\ stream = [s \in Session |-> "none"]
    /\ due = [s \in Session |-> {}]
    /\ changes = 0

---------------------------------------------------------------------------
(* The change log.                                                          *)

(* A log that puts nothing in the order queue the second time round.        *)
record_once(p, s) ==
    /\ by_path' = [by_path EXCEPT ![p] = s]
    /\ aged' = aged \ {p}
    /\ order' = IF p \in Range(order) \/ Len(order) >= LogCapacity THEN order
                ELSE Append(order, p)

(* record: one more slot unless the path has a record, and the oldest slot  *)
(* goes when there are too many, with the record of its path.               *)
record(p, s) ==
    LET known == by_path[p] # Nobody
        longer == Append(order, p)
        evicted == IF ~known /\ Len(longer) > LogCapacity THEN {Head(longer)} ELSE {}
        recorded == [by_path EXCEPT ![p] = s]
    IN  /\ by_path' = [q \in Path |-> IF q \in evicted THEN Nobody ELSE recorded[q]]
        /\ aged' = aged \ ({p} \cup evicted)
        /\ order' = IF known THEN order ELSE IF evicted # {} THEN Tail(longer) ELSE longer

(* The origin take_origin gives for the k-th event of the queue, the events *)
(* before it having taken theirs.                                           *)
take_origin(k) ==
    IF queue[k] \in Path \ aged /\ \A j \in 1..(k - 1) : queue[j] # queue[k]
    THEN by_path[queue[k]] ELSE Nobody

(* A record outlives ORIGIN_MEMORY.                                         *)
Age(p) ==
    /\ by_path[p] # Nobody
    /\ aged' = aged \cup {p}
    /\ UNCHANGED <<by_path, order, op, queue, pending, fan, stream, due, changes>>

---------------------------------------------------------------------------
(* Requests and the kernel's queue.                                         *)

(* A request records the path it is about to change (a rename both of its   *)
(* paths, one after the other).                                             *)
Record(s, p) ==
    /\ s \in Writer
    /\ p \notin op[s]
    /\ changes < MaxChanges
    /\ record(p, s)
    /\ op' = [op EXCEPT ![s] = @ \cup {p}]
    /\ UNCHANGED <<queue, pending, fan, stream, due, changes>>

(* The request fails, and no event ever takes its record.                   *)
Fail(s) ==
    /\ op[s] # {}
    /\ op' = [op EXCEPT ![s] = {}]
    /\ UNCHANGED <<log, queue, pending, fan, stream, due, changes>>

(* An event is queued: merged with an equal one at the end of the queue,    *)
(* and replaced by an overflow mark when the queue is full.                 *)
Queued(q, p) ==
    IF q # <<>> /\ Last(q) \in {p, Overflow} THEN q
    ELSE Append(q, IF Len(q) < KernelQueue THEN p ELSE Overflow)

(* The connected sessions that must hear of what s did.                     *)
Owe(s, its) ==
    due' = [t \in Session |-> IF t # s /\ stream[t] = "up" THEN due[t] \cup its ELSE due[t]]

(* The filesystem makes the change of session s's request.                  *)
Change(s) ==
    /\ op[s] # {}
    /\ changes < MaxChanges
    /\ \E ps \in SetToSeqs(op[s]) : queue' = FoldLeft(Queued, queue, ps)
    /\ Owe(s, op[s])
    /\ op' = [op EXCEPT ![s] = {}]
    /\ changes' = changes + 1
    /\ UNCHANGED <<log, pending, fan, stream>>

(* Somebody on the server changes a path; no one records it.                *)
Outside(p) ==
    /\ changes < MaxChanges
    /\ queue' = Queued(queue, p)
    /\ Owe(Nobody, {p})
    /\ changes' = changes + 1
    /\ UNCHANGED <<log, op, pending, fan, stream>>

---------------------------------------------------------------------------
(* The event thread.                                                        *)

(* A fold whose overflow still lets later items in, and the first out.      *)
fold_reset(acc, it) ==
    IF it[1] = Overflow \/ Len(acc.items) >= MaxPending
    THEN [items |-> <<>>, overflow |-> FALSE]
    ELSE [acc EXCEPT !.items = Append(@, it)]

(* Pending::fold of one item with its origin.                               *)
fold(acc, it) ==
    IF acc.overflow THEN acc
    ELSE IF it[1] = Overflow \/ Len(acc.items) >= MaxPending
    THEN [items |-> <<>>, overflow |-> TRUE]
    ELSE IF \E seen \in Range(acc.items) : seen[1] = it[1] THEN acc
    ELSE [acc EXCEPT !.items = Append(@, it)]

Fold(its) ==
    LET acc == FoldLeft(fold, [items |-> items, overflow |-> overflow], its)
    IN  items' = acc.items /\ overflow' = acc.overflow

(* One read of the queue: its events are folded in order, each taking its   *)
(* path's record.                                                           *)
ReadEvents ==
    /\ queue # <<>>
    /\ Fold([k \in DOMAIN queue |-> <<queue[k], take_origin(k)>>])
    /\ by_path' = [p \in Path |-> IF p \in Range(queue) THEN Nobody ELSE by_path[p]]
    /\ aged' = aged \ Range(queue)
    /\ queue' = <<>>
    /\ UNCHANGED <<order, op, fan, stream, due, changes>>

(* Watches::arm gave a directory up, which it announces to everyone.        *)
Announce(u) ==
    /\ changes < MaxChanges
    /\ Fold(<<<<u, Nobody>>>>)
    /\ Owe(Nobody, {u})
    /\ changes' = changes + 1
    /\ UNCHANGED <<log, op, queue, fan, stream>>

(* The batch goes to every receiver; one that is Channel batches behind     *)
(* loses its oldest and will be told so.                                    *)
Broadcast(batch) ==
    /\ channel' = [s \in Session |->
                     IF stream[s] # "up" THEN channel[s]
                     ELSE Append(IF Len(channel[s]) < Channel THEN channel[s]
                                 ELSE Tail(channel[s]), batch)]
    /\ lagged' = lagged \cup {s \in Session : stream[s] = "up" /\ Len(channel[s]) >= Channel}

(* mutant of Flush: an overflow of the window is not sent for its items.    *)
FlushItems ==
    /\ overflow \/ items # <<>>
    /\ Broadcast(items)
    /\ items' = <<>> /\ overflow' = FALSE
    /\ UNCHANGED <<log, op, queue, stream, due, changes>>

(* The window ends.                                                         *)
Flush ==
    /\ overflow \/ items # <<>>
    /\ Broadcast(IF overflow THEN <<<<Overflow, Nobody>>>> ELSE items)
    /\ items' = <<>> /\ overflow' = FALSE
    /\ UNCHANGED <<log, op, queue, stream, due, changes>>

---------------------------------------------------------------------------
(* A session's event stream.                                                *)

(* handle_connection subscribes before it accepts the first request, and    *)
(* the client starts a connection by distrusting all it had cached.         *)
Attach(s) ==
    /\ stream[s] = "none"
    /\ stream' = [stream EXCEPT ![s] = "up"]
    /\ channel' = [channel EXCEPT ![s] = <<>>]
    /\ lagged' = lagged \ {s}
    /\ due' = [due EXCEPT ![s] = {}]
    /\ UNCHANGED <<log, op, queue, pending, changes>>

(* The connection is lost, or closed because the client stopped reading the *)
(* stream; its receiver goes with it.                                       *)
Detach(s) ==
    /\ stream[s] # "none"
    /\ stream' = [stream EXCEPT ![s] = "none"]
    /\ channel' = [channel EXCEPT ![s] = <<>>]
    /\ lagged' = lagged \ {s}
    /\ due' = [due EXCEPT ![s] = {}]
    /\ UNCHANGED <<log, op, queue, pending, changes>>

(* What a batch tells session s: EventBatch::for_session.                   *)
for_session(batch, s) == {it[1] : it \in {i \in Range(batch) : i[2] # s}}

Heard(s, told) == due' = [due EXCEPT ![s] = IF Overflow \in told THEN {} ELSE @ \ told]

(* forward_events writes one event: an overflow if the receiver lagged,     *)
(* else what the next batch holds for the session, which may be nothing.    *)
Forward(s) ==
    /\ stream[s] = "up"
    /\ \/ /\ s \in lagged
          /\ lagged' = lagged \ {s}
          /\ Heard(s, {Overflow})
          /\ UNCHANGED channel
       \/ /\ s \notin lagged /\ channel[s] # <<>>
          /\ channel' = [channel EXCEPT ![s] = Tail(@)]
          /\ Heard(s, for_session(Head(channel[s]), s))
          /\ UNCHANGED lagged
    /\ UNCHANGED <<log, op, queue, pending, stream, changes>>

(* The batch is more than a frame may carry: the stream ends, and the       *)
(* client is left to its cache TTL.                                         *)
TooLarge(s) ==
    /\ stream[s] = "up" /\ s \notin lagged /\ channel[s] # <<>>
    /\ Len(Head(channel[s])) > 1
    /\ stream' = [stream EXCEPT ![s] = "ended"]
    /\ channel' = [channel EXCEPT ![s] = <<>>]
    /\ due' = [due EXCEPT ![s] = {}]
    /\ UNCHANGED <<log, op, queue, pending, lagged, changes>>

Next ==
    \/ \E p \in Path : Age(p) \/ Outside(p) \/ \E s \in Session : Record(s, p)
    \/ \E s \in Session : Fail(s) \/ Change(s)
    \/ \E u \in Notice : Announce(u)
    \/ ReadEvents \/ Flush
    \/ \E s \in Session : Attach(s) \/ Detach(s) \/ Forward(s) \/ TooLarge(s)

Spec == Init /\ [][Next]_vars

(* The event thread polls with a timeout and flushes every window; the task *)
(* of a connection is woken by each batch.                                  *)
Fairness == WF_vars(ReadEvents) /\ WF_vars(Flush) /\ \A s \in Session : WF_vars(Forward(s))

FairSpec == Spec /\ Fairness

---------------------------------------------------------------------------
(* The items on their way to session s, at any stage, overflows included.   *)
OnTheWay(s) ==
    LET batches == {items} \cup Range(channel[s])
    IN  Range(queue) \cup UNION {for_session(b, s) : b \in batches}
          \cup (IF overflow \/ s \in lagged THEN {Overflow} ELSE {})

(* A session that only reads loses no change: each one it must hear of is   *)
(* still queued, pending or broadcast for it, or an overflow is on its way  *)
(* that makes it distrust everything, whichever bounds were hit and whoever *)
(* else was changing what (watch.rs, every stage up to forward_events).     *)
ReaderMissesNothing ==
    \A s \in Session \ Writer : \A i \in due[s] :
        OnTheWay(s) \cap {i, Overflow} # {}

(* Every record of the change log has a slot in the order queue, which is   *)
(* what bounds the log: one without a slot would never be evicted (watch.rs,*)
(* record and take_origin).                                                 *)
RecordsHaveSlots ==
    /\ Len(order) <= LogCapacity
    /\ \A p \in Path : by_path[p] # Nobody => p \in Range(order)

(* A reader hears of each change, unless it stops listening.                *)
ReaderHears ==
    \A s \in Session \ Writer, i \in Item : []<>(i \notin due[s])

---------------------------------------------------------------------------
(* What watch.rs:88 and design.md:80 say: a session's record is taken by    *)
(* the first event of its path, and "a later change to the same path by     *)
(* someone else is reported normally": an event that finds no record of     *)
(* session s is pending for s once it is folded.                            *)
LaterReported ==
    [][ReadEvents => \A k \in DOMAIN queue, s \in Session :
          take_origin(k) # s => \/ overflow'
                                \/ queue[k] \in for_session(items, s)']_vars
===========================================================================
