-------------------------------- MODULE Taps --------------------------------
(* The taps of one process (crates/perf/src/hub.rs), the events that are     *)
(* traced through them (events.rs) and the control socket's tasks that hand  *)
(* their records to a reader (control.rs).  Producers (request tasks and     *)
(* threads) deliver without any lock around a tap's queue: what one does to  *)
(* the counters of a tap is a sequence of separate atomic operations, each a *)
(* step here.  Names and payloads are left out; what a tap selects is a set  *)
(* of classes: events, request summaries, frames.                            *)
EXTENDS Integers, Sequences, FiniteSets, FiniteSetsExt, SequencesExt

CONSTANTS Tap,            \* subscriptions, each used once
          Producer,       \* threads that deliver
          Selections,     \* what a reader may select, sets of classes
          TapRecords,     \* TAP_RECORDS
          TapBytes,       \* TAP_BYTES, in units of the smallest record
          MaxWork         \* bound: what is begun in all: subscriptions, deliveries, registering;
                          \* a subscription counts as three

VARIABLES lock,       \* who holds the registries' lock: {} or {t}, {"new"}
          listed,     \* Hub.taps, in order
          registered, \* whether the events are among Hub.registries
          wants,      \* Hub.requests, Hub.frames and Events.traced
          tap,        \* the shared part of each tap
          task,       \* the control task that answers its subscriber
          reader,     \* what the subscriber has
          prod,       \* the producers
          begun       \* counts what MaxWork bounds

vars == <<lock, listed, registered, wants, tap, task, reader, prod, begun>>

Class == {"event", "request", "frame"}

Told(n) == [what |-> "told", n |-> n]
Rec(what) == [what |-> what, n |-> 1]

(* size: what a record counts against the byte bound; an exchange is large. *)
Size(record) == IF record.what = "exchange" THEN 2 ELSE 1

Idle == [at |-> "idle", class |-> "event", todo |-> <<>>, told |-> 0,
         rec |-> Rec("record"), counts |-> FALSE, guard |-> FALSE, owed |-> {}]

NoTap == [sel |-> {}, queue |-> <<>>, open |-> FALSE, bytes |-> 0, dropped |-> 0,
          ever |-> 0, seen |-> 0, sampled |-> 0, missed |-> 0]

Init ==
    /\ lock = {} /\ listed = <<>> /\ registered \in BOOLEAN
    /\ wants = [c \in Class |-> 0]
    /\ tap = [t \in Tap |-> NoTap]
    /\ task = [t \in Tap |-> [at |-> "none", todo |-> <<>>, hand |-> {}]]
    /\ reader = [t \in Tap |-> [told |-> 0, held |-> 0, asked |-> FALSE, gone |-> FALSE,
                                census |-> {}]]
    /\ prod = [p \in Producer |-> Idle]
    /\ begun = 0

-----------------------------------------------------------------------------
(* Subscribing and unsubscribing, by the control task of tap t.             *)

Free == lock = {}

(* Nobody is delivering under the list's read lock.                          *)
NoReader == \A p \in Producer : ~prod[p].guard

(* adjust: the order in which the counters of a selection are changed.  A   *)
(* tap of frames is not counted among those that want summaries; events are *)
(* counted by the registry, once it is among the registries.                *)
Adjusted(sel) ==
    (IF "frame" \in sel THEN <<"frame">> ELSE IF "request" \in sel THEN <<"request">> ELSE <<>>)
      \o (IF registered /\ "event" \in sel THEN <<"event">> ELSE <<>>)

Subscribe(t) ==
    /\ Free /\ begun + 3 <= MaxWork
    /\ begun' = begun + 3
    /\ \E sel \in Selections :
         /\ tap' = [tap EXCEPT ![t].sel = sel, ![t].open = TRUE]
         /\ task' = [task EXCEPT ![t].at = "list"]
    /\ lock' = {t}
    /\ UNCHANGED <<listed, registered, wants, reader, prod>>

List(t) ==
    /\ task[t].at = "list" /\ NoReader
    /\ listed' = Append(listed, t)
    /\ task' = [task EXCEPT ![t].at = "count", ![t].todo = Adjusted(tap[t].sel)]
    /\ UNCHANGED <<lock, registered, wants, tap, reader, prod, begun>>

(* mutant of SubscribeStep: the counters first, the list after *)
SubscribeStepLate(t) ==
    \/ /\ task[t].at = "list"
       /\ task' = [task EXCEPT ![t].at = "count", ![t].todo = Adjusted(tap[t].sel)]
       /\ UNCHANGED <<lock, listed, registered, wants, tap, reader, prod, begun>>
    \/ /\ task[t].at = "count" /\ task[t].todo # <<>>
       /\ wants' = [wants EXCEPT ![Head(task[t].todo)] = @ + 1]
       /\ task' = [task EXCEPT ![t].todo = Tail(@)]
       /\ UNCHANGED <<lock, listed, registered, tap, reader, prod, begun>>
    \/ /\ task[t].at = "count" /\ task[t].todo = <<>> /\ NoReader
       /\ listed' = Append(listed, t)
       /\ task' = [task EXCEPT ![t].at = "serve"] /\ lock' = {}
       /\ UNCHANGED <<registered, wants, tap, reader, prod, begun>>

(* The rest of subscribe: into the list, then counted, one counter at a time, *)
(* and the lock is dropped.                                                  *)
SubscribeStep(t) ==
    \/ List(t)
    \/ /\ task[t].at = "count" /\ task[t].todo # <<>>
       /\ wants' = [wants EXCEPT ![Head(task[t].todo)] = @ + 1]
       /\ task' = [task EXCEPT ![t].todo = Tail(@)]
       /\ UNCHANGED <<lock, listed, registered, tap, reader, prod, begun>>
    \/ /\ task[t].at = "count" /\ task[t].todo = <<>>
       /\ task' = [task EXCEPT ![t].at = "serve"] /\ lock' = {}
       /\ UNCHANGED <<listed, registered, wants, tap, reader, prod, begun>>

(* The task returns: the receiver goes first, and what is queued with it.   *)
Closed(t) == tap' = [tap EXCEPT ![t].open = FALSE, ![t].queue = <<>>]

(* Then the handle: out of the list, then out of the counters.              *)
Unlist(t) ==
    /\ task[t].at = "leave" /\ Free /\ NoReader
    /\ lock' = {t}
    /\ listed' = SelectSeq(listed, LAMBDA u : u # t)
    /\ task' = [task EXCEPT ![t].at = "uncount", ![t].todo = Adjusted(tap[t].sel)]
    /\ UNCHANGED <<registered, wants, tap, reader, prod, begun>>

Uncount(t) ==
    /\ task[t].at = "uncount"
    /\ IF task[t].todo # <<>>
       THEN /\ wants' = [wants EXCEPT ![Head(task[t].todo)] = @ - 1]
            /\ task' = [task EXCEPT ![t].todo = Tail(@)]
            /\ UNCHANGED lock
       ELSE /\ task' = [task EXCEPT ![t].at = "gone"] /\ lock' = {}
            /\ UNCHANGED wants
    /\ UNCHANGED <<listed, registered, tap, reader, prod, begun>>

(* mutant of Register: the list is walked before the lock is taken *)
RegisterUnlocked ==
    \/ /\ ~registered /\ "new" \notin lock /\ begun < MaxWork
       /\ begun' = begun + 1
       /\ wants' = [wants EXCEPT !["event"] =
                      Cardinality({t \in ToSet(listed) : "event" \in tap[t].sel})]
       /\ lock' = lock \cup {"new"}
       /\ UNCHANGED <<listed, registered, tap, task, reader, prod>>
    \/ /\ "new" \in lock
       /\ registered' = TRUE /\ lock' = lock \ {"new"}
       /\ UNCHANGED <<listed, wants, tap, task, reader, prod, begun>>

(* Events::new registers: every tap already there is counted, then the      *)
(* registry is among those a later tap is counted in, all under the lock.   *)
Register ==
    \/ /\ ~registered /\ Free /\ begun < MaxWork
       /\ begun' = begun + 1
       /\ wants' = [wants EXCEPT !["event"] =
                      Cardinality({t \in ToSet(listed) : "event" \in tap[t].sel})]
       /\ lock' = {"new"}
       /\ UNCHANGED <<listed, registered, tap, task, reader, prod>>
    \/ /\ lock = {"new"}
       /\ registered' = TRUE /\ lock' = {}
       /\ UNCHANGED <<listed, wants, tap, task, reader, prod, begun>>

-----------------------------------------------------------------------------
(* answer: the subscription's loop, and what its reader does.               *)

(* recv, or try_recv while draining: a record out of the queue, counted out *)
(* of the bytes in a step of its own.                                       *)
Receive(t) ==
    /\ task[t].at \in {"serve", "drain"} /\ task[t].hand = {} /\ tap[t].queue # <<>>
    /\ task' = [task EXCEPT ![t].hand = {Head(tap[t].queue)}]
    /\ tap' = [tap EXCEPT ![t].queue = Tail(@)]
    /\ UNCHANGED <<lock, listed, registered, wants, reader, prod, begun>>

(* send_record: written, left out as too large for a frame, or the reader   *)
(* turns out to be gone, which ends the subscription.                       *)
SendRecord(t) ==
    \E record \in task[t].hand :
      /\ \/ /\ ~reader[t].gone
            /\ reader' = [reader EXCEPT ![t].told = @ + (IF record.what = "told" THEN record.n ELSE 0),
                                        ![t].held = @ + (IF record.what = "exchange" THEN 1 ELSE 0)]
            /\ tap' = [tap EXCEPT ![t].bytes = @ - Size(record)]
            /\ task' = [task EXCEPT ![t].hand = {}]
         \/ /\ ~reader[t].gone /\ record.what = "exchange"
            /\ tap' = [tap EXCEPT ![t].bytes = @ - Size(record)]
            /\ task' = [task EXCEPT ![t].hand = {}]
            /\ UNCHANGED reader
         \/ /\ reader[t].gone
            /\ tap' = [tap EXCEPT ![t].bytes = @ - Size(record), ![t].open = FALSE,
                                  ![t].queue = <<>>]
            /\ task' = [task EXCEPT ![t].hand = {}, ![t].at = "leave"]
            /\ UNCHANGED reader
      /\ UNCHANGED <<lock, listed, registered, wants, prod, begun>>

(* The reader's side: it asks for the census once, or goes.                 *)
Ask(t) ==
    /\ task[t].at # "none" /\ ~reader[t].asked /\ ~reader[t].gone
    /\ \/ reader' = [reader EXCEPT ![t].asked = TRUE]
       \/ reader' = [reader EXCEPT ![t].gone = TRUE]
    /\ UNCHANGED <<lock, listed, registered, wants, tap, task, prod, begun>>

(* The other branch of the select: a census request begins the drain;       *)
(* anything else, or the connection closing, ends the tap.  The request is  *)
(* read in two reads, and a record that comes between them drops the half   *)
(* read, so what follows does not decode.                                   *)
ReadAsk(t) ==
    /\ task[t].at = "serve" /\ task[t].hand = {}
    /\ \/ /\ reader[t].asked
          /\ task' = [task EXCEPT ![t].at = "drain"] /\ UNCHANGED tap
       \/ /\ reader[t].gone \/ (reader[t].asked /\ tap[t].queue # <<>>)
          /\ task' = [task EXCEPT ![t].at = "leave"] /\ Closed(t)
    /\ UNCHANGED <<lock, listed, registered, wants, reader, prod, begun>>

(* TapHandle::census, once nothing is queued, and the task returns.         *)
TakeCensus(t) ==
    /\ task[t].at = "drain" /\ task[t].hand = {} /\ tap[t].queue = <<>>
    /\ reader' = IF reader[t].gone THEN reader
                 ELSE [reader EXCEPT ![t].census =
                         {[seen |-> tap[t].seen, sampled |-> tap[t].sampled,
                           missed |-> tap[t].missed, dropped |-> tap[t].ever]}]
    /\ task' = [task EXCEPT ![t].at = "leave"] /\ Closed(t)
    /\ UNCHANGED <<lock, listed, registered, wants, prod, begun>>

-----------------------------------------------------------------------------
(* The producers.                                                           *)

(* The taps whose counter says they want class c, whatever the list holds.  *)
Counting(c) ==
    {t \in Tap : c \in tap[t].sel /\ ~(c = "request" /\ "frame" \in tap[t].sel)
                 /\ \/ task[t].at \in {"serve", "drain"}
                    \/ task[t].at = "count" /\ c \notin ToSet(task[t].todo)
                       /\ (c = "event" => registered)}

Selecting(c) == SelectSeq(listed, LAMBDA t : c \in tap[t].sel)

(* deliver_request passes over the taps that want frames.                   *)
Takes(c) ==
    IF c = "request" THEN SelectSeq(Selecting(c), LAMBDA t : "frame" \notin tap[t].sel)
    ELSE Selecting(c)

(* event!, wants_requests, wants_frames: the relaxed load, before anything  *)
(* is built or the list is looked at.                                       *)
Check(p, c) ==
    /\ begun < MaxWork
    /\ begun' = begun + 1
    /\ wants[c] > 0
    /\ prod' = [prod EXCEPT ![p] = [Idle EXCEPT !.at = "checked", !.class = c,
                                                !.owed = Counting(c)]]
    /\ UNCHANGED <<lock, listed, registered, wants, tap, task, reader>>

(* deliver_event, deliver_request, undecodable: to every tap that selects   *)
(* it, under the list's read lock.                                          *)
Deliver(p) ==
    /\ prod[p].at = "checked"
    /\ prod' = [prod EXCEPT ![p].at = "offer", ![p].guard = TRUE,
                            ![p].todo = Takes(prod[p].class), ![p].class = "event",
                            ![p].owed = @ \ ToSet(Takes(prod[p].class))]
    /\ UNCHANGED <<lock, listed, registered, wants, tap, task, reader, begun>>

SeenBy(ts) == [t \in Tap |-> IF t \in ts THEN [tap[t] EXCEPT !.seen = @ + 1] ELSE tap[t]]

(* event_frame: counted as seen, and offered to those whose turn it is,     *)
(* under the read lock.                                                     *)
EventFrame(p) ==
    /\ prod[p].at = "checked" /\ prod[p].class = "frame"
    /\ \E taking \in SUBSET ToSet(Takes("frame")) :
         prod' = [prod EXCEPT ![p].at = "offer", ![p].guard = TRUE, ![p].counts = TRUE, ![p].class = "event",
                              ![p].owed = @ \ ToSet(Takes("frame")),
                              ![p].todo = SelectSeq(listed, LAMBDA t : t \in taking)]
    /\ tap' = SeenBy(ToSet(Takes("frame")))
    /\ UNCHANGED <<lock, listed, registered, wants, task, reader, begun>>

(* mutant of Sample: the exchange is counted when it is delivered *)
SampleUncounted(p) ==
    /\ prod[p].at = "checked" /\ prod[p].class = "frame"
    /\ \E taking \in SUBSET ToSet(Takes("frame")) :
         prod' = [prod EXCEPT ![p].at = "exchange", ![p].counts = TRUE, ![p].class = "event",
                              ![p].rec = Rec("exchange"), ![p].owed = @ \ ToSet(Takes("frame")),
                              ![p].todo = SelectSeq(listed, LAMBDA t : t \in taking)]
    /\ UNCHANGED <<lock, listed, registered, wants, tap, task, reader, begun>>

(* Hub::sample: every frame tap counts the exchange, and those the hash     *)
(* chooses it for are kept, to be offered it when it ends.                  *)
Sample(p) ==
    /\ prod[p].at = "checked" /\ prod[p].class = "frame"
    /\ \E taking \in SUBSET ToSet(Takes("frame")) :
         prod' = [prod EXCEPT ![p].at = "exchange", ![p].counts = TRUE, ![p].class = "event",
                              ![p].rec = Rec("exchange"), ![p].owed = @ \ ToSet(Takes("frame")),
                              ![p].todo = SelectSeq(listed, LAMBDA t : t \in taking)]
    /\ tap' = SeenBy(ToSet(Takes("frame")))
    /\ UNCHANGED <<lock, listed, registered, wants, task, reader, begun>>

(* Sampled::reply, undecodable, or its drop without a reply: each delivers, *)
(* with no lock on the list, to taps that may have left it.                 *)
Ends(p) ==
    /\ prod[p].at = "exchange"
    /\ prod' = [prod EXCEPT ![p].at = "offer"]
    /\ UNCHANGED <<lock, listed, registered, wants, tap, task, reader, begun>>

At(p) == Head(prod[p].todo)

(* Whether the tap at hand takes one more record: its receiver lives and    *)
(* its queue has room.                                                      *)
TrySend(p) == tap[At(p)].open /\ Len(tap[At(p)].queue) < TapRecords

(* offer: what was dropped since the reader was last told is taken.         *)
Swap(p) ==
    /\ prod[p].at = "offer" /\ prod[p].todo # <<>>
    /\ prod' = [prod EXCEPT ![p].told = tap[At(p)].dropped,
                            ![p].at = IF tap[At(p)].dropped > 0 THEN "tell" ELSE "send"]
    /\ tap' = [tap EXCEPT ![At(p)].dropped = 0]
    /\ UNCHANGED <<lock, listed, registered, wants, task, reader, begun>>

(* Tap::send, in its three steps: the bytes are taken, and given back when  *)
(* they pass the bound or the queue takes no more.                          *)
Sending(p) == IF prod[p].at \in {"tell", "tell_try", "tell_back"} THEN Told(prod[p].told)
              ELSE prod[p].rec

Reserve(p) ==
    \E s \in {"tell", "send"} :
      /\ prod[p].at = s
      /\ tap' = [tap EXCEPT ![At(p)].bytes = @ + Size(Sending(p))]
      /\ prod' = [prod EXCEPT ![p].at =
                    CASE s = "tell" /\ tap'[At(p)].bytes > TapBytes -> "tell_back"
                      [] s = "tell" /\ tap'[At(p)].bytes <= TapBytes -> "tell_try"
                      [] s = "send" /\ tap'[At(p)].bytes > TapBytes -> "send_back"
                      [] s = "send" /\ tap'[At(p)].bytes <= TapBytes -> "send_try"]
      /\ UNCHANGED <<lock, listed, registered, wants, task, reader, begun>>

(* mutant of Try: a full queue keeps the bytes *)
TryKeeping(p) ==
    /\ prod[p].at \in {"tell_try", "send_try"}
    /\ IF TrySend(p)
       THEN /\ tap' = [tap EXCEPT ![At(p)].queue = Append(@, Sending(p))]
            /\ prod' = [prod EXCEPT ![p].at = IF @ = "tell_try" THEN "send" ELSE "taken",
                                    ![p].told = 0]
       ELSE /\ prod' = [prod EXCEPT ![p].at = IF @ = "tell_try" THEN "untold" ELSE "lost"]
            /\ UNCHANGED tap
    /\ UNCHANGED <<lock, listed, registered, wants, task, reader, begun>>

Try(p) ==
    /\ prod[p].at \in {"tell_try", "send_try"}
    /\ IF TrySend(p)
       THEN /\ tap' = [tap EXCEPT ![At(p)].queue = Append(@, Sending(p))]
            /\ prod' = [prod EXCEPT ![p].at = IF @ = "tell_try" THEN "send" ELSE "taken",
                                    ![p].told = 0]
       ELSE /\ prod' = [prod EXCEPT ![p].at = IF @ = "tell_try" THEN "tell_back" ELSE "send_back"]
            /\ UNCHANGED tap
    /\ UNCHANGED <<lock, listed, registered, wants, task, reader, begun>>

GiveBack(p) ==
    /\ prod[p].at \in {"tell_back", "send_back"}
    /\ tap' = [tap EXCEPT ![At(p)].bytes = @ - Size(Sending(p))]
    /\ prod' = [prod EXCEPT ![p].at = IF @ = "tell_back" THEN "untold" ELSE "lost"]
    /\ UNCHANGED <<lock, listed, registered, wants, task, reader, begun>>

(* mutant of Untold: the count is stored over what others dropped meanwhile *)
UntoldStored(p) ==
    /\ prod[p].at = "untold"
    /\ tap' = [tap EXCEPT ![At(p)].dropped = prod[p].told]
    /\ prod' = [prod EXCEPT ![p].at = "send", ![p].told = 0]
    /\ UNCHANGED <<lock, listed, registered, wants, task, reader, begun>>

(* offer: a count the reader could not be told of is put back.              *)
Untold(p) ==
    /\ prod[p].at = "untold"
    /\ tap' = [tap EXCEPT ![At(p)].dropped = @ + prod[p].told]
    /\ prod' = [prod EXCEPT ![p].at = "send", ![p].told = 0]
    /\ UNCHANGED <<lock, listed, registered, wants, task, reader, begun>>

(* offer: a record not taken is counted, in two counters one after another. *)
Lost(p) ==
    /\ prod[p].at \in {"lost", "lost_ever"}
    /\ tap' = [tap EXCEPT ![At(p)] =
                 IF prod[p].at = "lost" THEN [@ EXCEPT !.dropped = @ + 1]
                 ELSE [@ EXCEPT !.ever = @ + 1]]
    /\ prod' = [prod EXCEPT ![p].at = IF @ = "lost" THEN "lost_ever" ELSE "refused"]
    /\ UNCHANGED <<lock, listed, registered, wants, task, reader, begun>>

(* The census counts what was taken and what was dropped, and on to the     *)
(* next tap.                                                                *)
Counted(p) ==
    /\ prod[p].at \in {"taken", "refused"}
    /\ prod' = [prod EXCEPT ![p].at = "offer", ![p].told = 0, ![p].todo = Tail(@)]
    /\ tap' = IF ~prod[p].counts THEN tap
              ELSE [tap EXCEPT ![At(p)] =
                      IF prod[p].at = "taken" THEN [@ EXCEPT !.sampled = @ + 1]
                      ELSE [@ EXCEPT !.missed = @ + 1]]
    /\ UNCHANGED <<lock, listed, registered, wants, task, reader, begun>>

Done(p) ==
    /\ prod[p].at = "offer" /\ prod[p].todo = <<>>
    /\ prod' = [prod EXCEPT ![p] = Idle]
    /\ UNCHANGED <<lock, listed, registered, wants, tap, task, reader, begun>>

(* Taps not used yet are alike.                                             *)
Unused == {t \in Tap : task[t].at = "none"}

Next ==
    \/ Unused # {} /\ Subscribe(CHOOSE t \in Unused : TRUE)
    \/ \E t \in Tap : \/ SubscribeStep(t) \/ Unlist(t) \/ Uncount(t)
                      \/ Receive(t) \/ SendRecord(t) \/ Ask(t) \/ ReadAsk(t) \/ TakeCensus(t)
    \/ Register
    \/ \E p \in Producer : \/ prod[p].at = "idle" /\ \E c \in Class : Check(p, c)
                           \/ Deliver(p) \/ EventFrame(p) \/ Sample(p) \/ Ends(p)
                           \/ Swap(p) \/ Reserve(p) \/ Try(p) \/ GiveBack(p)
                           \/ Untold(p) \/ Lost(p) \/ Counted(p) \/ Done(p)

Spec == Init /\ [][Next]_vars

-----------------------------------------------------------------------------
Total(seq) == FoldSeq(LAMBDA r, n : n + Size(r), 0, seq)

ToldIn(seq) == FoldSeq(LAMBDA r, n : n + (IF r.what = "told" THEN r.n ELSE 0), 0, seq)

(* Producers in the middle of something with tap t.                         *)
OfTap(t, ats) == {p \in Producer : prod[p].at \in ats /\ At(p) = t}

(* A tap's byte count is exactly what its queue holds, what producers have   *)
(* reserved and what its task has taken and not yet counted out, and what is *)
(* queued keeps within both bounds: whatever order concurrent sends and      *)
(* receives come in, no failed send leaves bytes behind that would make the  *)
(* tap drop everything from then on.                                         *)
QueueBounded ==
    \A t \in Tap : tap[t].open =>
      /\ tap[t].bytes = Total(tap[t].queue)
            + MapThenSumSet(Size, task[t].hand)
            + MapThenSumSet(LAMBDA p : Size(Sending(p)),
                            OfTap(t, {"tell_try", "tell_back", "send_try", "send_back"}))
      /\ Total(tap[t].queue) <= TapBytes

(* Every record dropped is told to the reader once: what it was told, what is *)
(* queued to tell it, what a producer has in hand to tell or put back and    *)
(* what waits in the counter add up to what was dropped, although producers  *)
(* swap the counter out and add it back without a lock.                      *)
DropsAccounted ==
    \A t \in Tap : tap[t].open =>
      tap[t].ever + Cardinality(OfTap(t, {"lost_ever"})) = tap[t].dropped + reader[t].told + ToldIn(tap[t].queue)
        + ToldIn(SetToSeq(task[t].hand))
        + MapThenSumSet(LAMBDA p : prod[p].told,
                        OfTap(t, {"tell", "tell_try", "tell_back", "untold"}))

(* A delivery whose check a tap had made true reaches that tap, unless the   *)
(* tap has begun to leave: a tap is in the list before its counters say so,  *)
(* and out of it before they stop saying so.                                 *)
NothingMissed ==
    \A p \in Producer : prod[p].at \notin {"idle", "checked"} =>
      \A t \in prod[p].owed : task[t].at \in {"leave", "uncount", "gone"}

(* Whenever nobody is changing the taps or the registries, each check counts *)
(* exactly the listed taps that want its class, also when the events         *)
(* registered among taps coming and going: no tap is counted twice or missed *)
(* in a registry, and once all are gone every check is false again.          *)
CountedOnce ==
    Free => \A c \in Class :
      wants[c] = Cardinality({t \in ToSet(listed) : c \in ToSet(Adjusted(tap[t].sel))})

(* The census a capture ends with covers it: every exchange the capture      *)
(* holds is among those the census counts as seen, and so is every one it    *)
(* counts as sampled or dropped, although exchanges were ending while it was *)
(* taken.                                                                    *)
CensusCovers ==
    \A t \in Tap : \A census \in reader[t].census :
      /\ reader[t].held <= census.seen
      /\ census.sampled + census.missed <= census.seen

=============================================================================
