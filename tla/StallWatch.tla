------------------------------ MODULE StallWatch ------------------------------
(***************************************************************************)
(* The stall watchdog of either side (perf/src/stall.rs, client and server *)
(* watchdog.rs) and the table of requests in flight it scans: the client's *)
(* (fuse.rs), scanned and marked under the table's one lock, and the       *)
(* server's (server perf.rs), copied out under the table's lock and then   *)
(* examined entry by entry, each under its own.  Requests come and end     *)
(* while the watchdog is between any two of its steps.                     *)
(***************************************************************************)
EXTENDS Integers, FiniteSets

CONSTANTS
    Req,        \* requests; an id is never used twice
    Sides,      \* the sides modelled, of {"client", "server"}
    StallFirst, \* STALL_FIRST, in watch periods
    Detailed,   \* STALL_DETAILED
    MaxNow,     \* the periods that pass
    MaxCalls    \* the notifier calls made

VARIABLES
    side,      \* which side's table this is
    now,       \* the time, in watch periods
    req,       \* [Req -> [stage, arrived, reported]]: the table's entry, reported its stall mark
    ended,     \* Ended: [lines, more], the stalled requests that ended since the last check
    busy,      \* notifier_busy: when the call in progress began, {} for none
    calls,     \* the notifier calls begun
    dog,       \* the watchdog: [pc, at, todo] and check_notifier's condition
    told,      \* ghost: [Req -> the ages it was reported stalled at]
    blamed,    \* ghost: the ages of the notifier calls reported stalled
    logged     \* ghost: the stalled requests whose end was logged, how many

vars == <<side, now, req, ended, busy, calls, dog, told, blamed, logged>>

work == <<req, ended>>
ghosts == <<told, blamed, logged>>

Pristine == [since |-> {}, reported |-> 0]

Init ==
    /\ side \in Sides
    /\ now = 0
    /\ req = [r \in Req |-> [stage |-> "none", arrived |-> 0, reported |-> 0]]
    /\ ended = [lines |-> {}, more |-> 0]
    /\ busy = {} /\ calls = 0
    /\ dog = [pc |-> "asleep", at |-> 0, todo |-> {},
              notifier_busy |-> Pristine, notifier_since |-> {}]
    /\ told = [r \in Req |-> {}]
    /\ blamed = {} /\ logged = 0

-----------------------------------------------------------------------------
(* When a report is due. *)

\* The thresholds a value of MaxNow can cross.
Threshold == {StallFirst * 2^k : k \in 0..MaxNow}

Crossed(v) == {t \in Threshold : t <= v}
Highest(v) == CHOOSE t \in Crossed(v) : \A u \in Crossed(v) : u <= t

\* doubling_due: the mark a value leaves, or the mark it had when no report is due.
Due(v, reported) == v >= StallFirst /\ v >= 2 * reported

(* mutant of Marked: one threshold at a time, however many were crossed *)
MarkedNext(v, reported) ==
    IF ~Due(v, reported) THEN reported
    ELSE IF reported = 0 THEN StallFirst ELSE 2 * reported

Marked(v, reported) == IF Due(v, reported) THEN Highest(v) ELSE reported

\* Persisting::check: the condition and whether it is due a report.
Check(p, at, holds) ==
    LET since == IF p.since = {} THEN {at} ELSE p.since
        age == at - (CHOOSE s \in since : TRUE)
    IN  IF holds
        THEN [cond |-> [since |-> since, reported |-> Marked(age, p.reported)],
              due |-> Due(age, p.reported)]
        ELSE [cond |-> Pristine, due |-> FALSE]

-----------------------------------------------------------------------------
(* The requests. *)

InTable == {r \in Req : req[r].stage \in {"spawned", "running"}}

\* Backend::spawn registers a kernel request before its task runs; Perf::start of the server
\* registers a request as its stream is taken up, and the guard it returns is running.
Start(r) ==
    /\ req' = [req EXCEPT ![r].stage = IF side = "client" THEN "spawned" ELSE "running",
                          ![r].arrived = now]
    /\ UNCHANGED <<side, now, ended, busy, calls, dog, ghosts>>

\* Requests that have not come yet are alike: the next one to come.
Coming == {r \in Req : req[r].stage = "none"}

\* The client's task runs for the first time.
Run(r) ==
    /\ req[r].stage = "spawned"
    /\ req' = [req EXCEPT ![r].stage = "running"]
    /\ UNCHANGED <<side, now, ended, busy, calls, dog, ghosts>>

\* Registered::finish, and InFlight's drop: the request leaves the table under its lock and
\* counts as progress.
Finish(r) ==
    /\ req[r].stage = "running"
    /\ req' = [req EXCEPT ![r].stage = "ending"]
    /\ UNCHANGED <<side, now, ended, busy, calls, dog, ghosts>>

\* Ended::push: the first lines are kept, the rest counted.
Pushed(r) ==
    IF Cardinality(ended.lines) < Detailed
    THEN [ended EXCEPT !.lines = @ \cup {r}] ELSE [ended EXCEPT !.more = @ + 1]

\* The end of spawn's task and of InFlight's drop: the mark decides whether the end is told.
\* The client's came out with the entry; the server's is read under the entry's own lock.
Push(r) ==
    /\ req[r].stage = "ending"
    /\ ended' = IF req[r].reported # 0 THEN Pushed(r) ELSE ended
    /\ req' = [req EXCEPT ![r].stage = "done"]
    /\ UNCHANGED <<side, now, busy, calls, dog, ghosts>>

-----------------------------------------------------------------------------
(* What else the watchdog looks at. *)

\* The notifier thread starts a call into the kernel, and comes back from it.
CallBegins ==
    /\ side = "client" /\ busy = {} /\ calls < MaxCalls
    /\ busy' = {now} /\ calls' = calls + 1
    /\ UNCHANGED <<side, now, work, dog, ghosts>>

CallEnds ==
    /\ busy # {}
    /\ busy' = {}
    /\ UNCHANGED <<side, now, work, calls, dog, ghosts>>

\* A watch period passes, for the watchdog asleep the one it waits.
Pass ==
    /\ now < MaxNow
    /\ now' = now + 1
    /\ dog' = [dog EXCEPT !.pc = IF @ = "asleep" THEN "due" ELSE @]
    /\ UNCHANGED <<side, work, busy, calls, ghosts>>

-----------------------------------------------------------------------------
(* The watchdog's tick. *)

\* Watchdog::spawn's loop: a period after the last tick ended; Ended::lines, which leaves the
\* lines for the next tick when the lock is held past LOCK_PATIENCE.
Tick ==
    /\ dog.pc = "due"
    /\ dog' = [dog EXCEPT !.pc = "scan", !.at = now]
    /\ \/ /\ ended' = [lines |-> {}, more |-> 0]
          /\ logged' = logged + Cardinality(ended.lines) + ended.more
       \/ UNCHANGED <<ended, logged>>
    /\ UNCHANGED <<side, now, req, busy, calls, told, blamed>>

Age(r) == dog.at - req[r].arrived

\* ModeScan::Due for the entries of S: those due are marked and reported.
Examined(S) ==
    LET due == {r \in S : Due(Age(r), req[r].reported)}
    IN  /\ req' = [r \in Req |-> IF r \in due THEN [req[r] EXCEPT !.reported = Marked(Age(r), @)]
                                 ELSE req[r]]
        /\ told' = [r \in Req |-> IF r \in due THEN told[r] \cup {Age(r)} ELSE told[r]]

(* mutant of Scan: the client's scan, too, examines clones once the table is free again *)
ScanCopies ==
    /\ dog.pc = "scan"
    /\ dog' = [dog EXCEPT !.pc = "examine", !.todo = InTable]
    /\ UNCHANGED <<side, now, work, busy, calls, ghosts>>

\* scan_pending: the client's marks the entries under the table's lock, the server's takes
\* clones of them out.
Scan ==
    /\ dog.pc = "scan"
    /\ dog' = [dog EXCEPT !.pc = "examine",
                          !.todo = IF side = "server" THEN InTable ELSE {}]
    /\ IF side = "client" THEN Examined(InTable) ELSE UNCHANGED <<req, told>>
    /\ UNCHANGED <<side, now, ended, busy, calls, blamed, logged>>

\* The table's lock is held past LOCK_PATIENCE.
ScanHeld ==
    /\ dog.pc = "scan"
    /\ dog' = [dog EXCEPT !.pc = "examine"]
    /\ UNCHANGED <<side, now, work, busy, calls, ghosts>>

\* The server's scan of one entry under its lock, whether or not the request has since ended;
\* an entry whose lock is held past the patience goes unexamined.
Examine(r) ==
    /\ dog.pc = "examine" /\ r \in dog.todo
    /\ dog' = [dog EXCEPT !.todo = @ \ {r}]
    /\ Examined({r}) \/ UNCHANGED <<req, told>>
    /\ UNCHANGED <<side, now, ended, busy, calls, blamed, logged>>

(* mutant of Notifier: the condition is not started over for another call *)
NotifierCarriesOn ==
    Check([dog.notifier_busy EXCEPT !.since = IF busy = {} THEN {} ELSE @], dog.at, busy # {})

\* check_notifier: another call than the last check saw is another instance of the condition.
Notifier ==
    Check(IF busy = dog.notifier_since THEN dog.notifier_busy ELSE Pristine, dog.at, busy # {})

\* The rest of tick: the notifier.
Conclude ==
    /\ dog.pc = "examine" /\ dog.todo = {}
    /\ dog' = [dog EXCEPT !.pc = "asleep", !.at = 0,
                          !.notifier_busy = Notifier.cond, !.notifier_since = busy]
    /\ blamed' = IF Notifier.due THEN blamed \cup {dog.at - b : b \in busy} ELSE blamed
    /\ UNCHANGED <<side, now, work, busy, calls, told, logged>>

Next ==
    \/ Coming # {} /\ Start(CHOOSE r \in Coming : TRUE)
    \/ \E r \in Req : Run(r) \/ Finish(r) \/ Push(r) \/ Examine(r)
    \/ CallBegins \/ CallEnds \/ Pass
    \/ Tick \/ Scan \/ ScanHeld \/ Conclude

Spec == Init /\ [][Next]_vars

-----------------------------------------------------------------------------
Stalled == {r \in Req : told[r] # {}}

\* Every kernel request the client's watchdog reported as stalled and that has been answered
\* since is told of once as ended: it waits in Ended, described or counted, or was logged.  The
\* scan (fuse.rs scan_pending) marks a request under the lock it leaves the table under, so none
\* is reported after its task has looked for the mark.
EndsTold ==
    side = "client" =>
        Cardinality({r \in Stalled : req[r].stage = "done"})
            = Cardinality(ended.lines) + ended.more + logged

\* A request is reported only once it is a stall, and between two reports of it its age crosses
\* a threshold, however late the checks come (stall_due, doubling_due): a scan that finds several
\* thresholds crossed reports once.
ReportsSpaced ==
    \A r \in Req : \A a \in told[r] :
        /\ a >= StallFirst
        /\ \A b \in told[r] : a < b => \E t \in Threshold : a < t /\ t <= b

\* A notifier call reported as stalled has itself been in progress for STALL_FIRST: the time an
\* earlier call took is not counted for it, though a check saw the notifier busy both times
\* (check_notifier's reset).
BlamedIsStalled == \A a \in blamed : a >= StallFirst
=============================================================================
