------------------------------ MODULE Reports -------------------------------
(***************************************************************************)
(* The tables a client keeps of what it does (`Perf`,                      *)
(* crates/client/src/perf.rs; `Totals` and its histograms, crates/perf):   *)
(* every request is recorded in the row of the window under way and in the *)
(* totals, under one lock.  A report takes the window and starts the next  *)
(* one; a reader of the totals (`jackalopefs-ctl top`, crates/ctl) has     *)
(* them as they stand, and takes differences and quantiles of its own.     *)
(* The server's table is the same with one level.                          *)
(*                                                                         *)
(* One operation is kept, one kind of event, and of bytes and items what a *)
(* time tells as well.                                                     *)
(***************************************************************************)
EXTENDS Integers, FiniteSets, FiniteSetsExt

CONSTANTS
  Kind,       \* what a record may be: [took, failed, resent]
  Reader,     \* those who read the totals
  MaxWork     \* bound on requests begun, recorded and read, and events

Level == {"fuse", "call"}

VARIABLES
  inflight, peak, rows,     \* of Inner: the gauge, its most, and the window
  events, events_seen,      \* an event's count, and at the last report
  totals,                   \* by level
  before,                   \* each reader's last reading, if it has any
  snap, shown,              \* what a report or a reading just made tells
  told, ought,              \* and what it has to tell
  window, most, noticed,    \* history: the records, the most in flight and
                            \* the events, in the window
  interval,                 \* history: the records since each reading
  work

tables  == <<inflight, peak, rows, events, events_seen, totals>>
history == <<window, most, noticed, interval>>
output  == <<snap, told, shown, ought>>
vars    == <<tables, before, output, history, work>>

-----------------------------------------------------------------------------
(* Histograms. *)

(* The buckets are (lo, hi], four to each power of two above 4: of v > 4
   the exponent of v - 1, and its quarter.                                 *)
bucket(v) ==
  IF v <= 4 THEN v
  ELSE LET x == v - 1
           e == CHOOSE e \in 2 .. x : 2 ^ e <= x /\ x < 2 ^ (e + 1)
       IN  5 + 4 * (e - 2) + ((x \div 2 ^ (e - 2)) % 4)

(* The largest value in a bucket.                                          *)
upper(i) ==
  IF i <= 4 THEN i
  ELSE LET e == (i - 5) \div 4 + 2
       IN  2 ^ e + (((i - 5) % 4) + 1) * 2 ^ (e - 2)

Bucket == {bucket(k.took) : k \in Kind}

-----------------------------------------------------------------------------
(* Rows and totals. *)

NoRow   == [n |-> 0, total |-> 0, min |-> 0, max |-> 0, errors |-> 0, phased |-> 0]
NoTotal == [count |-> 0, total |-> 0, errors |-> 0, latency |-> [b \in Bucket |-> 0]]

One(yes) == IF yes THEN 1 ELSE 0

Lesser(a, b)  == IF a < b THEN a ELSE b
Greater(a, b) == IF a > b THEN a ELSE b

RowMin(row, took) == IF row.n = 0 THEN took ELSE Lesser(row.min, took)

(* `Row::record`, and of a call the phases of one that was not resent.     *)
Recorded(row, took, failed, resent) ==
  [n      |-> row.n + 1,
   total  |-> row.total + took,
   min    |-> RowMin(row, took),
   max    |-> Greater(row.max, took),
   errors |-> row.errors + One(failed),
   phased |-> row.phased + One(~resent)]

(* `Totals::add`.                                                          *)
Added(t, took, failed) ==
  [count   |-> t.count + 1,
   total   |-> t.total + took,
   errors  |-> t.errors + One(failed),
   latency |-> [t.latency EXCEPT ![bucket(took)] = @ + 1]]

-----------------------------------------------------------------------------
NoRecords == [k \in Kind |-> 0]

Init ==
  /\ inflight = 0 /\ peak = 0 /\ rows = [l \in Level |-> NoRow]
  /\ events = 0 /\ events_seen = 0 /\ totals = [l \in Level |-> NoTotal]
  /\ before = [r \in Reader |-> {}]
  /\ window = [l \in Level |-> NoRecords] /\ most = 0 /\ noticed = 0
  /\ interval = [r \in Reader |-> NoRecords]
  /\ snap = {} /\ told = {} /\ shown = {} /\ ought = {}
  /\ work = 0

Silent == snap' = {} /\ told' = {} /\ shown' = {} /\ ought' = {}

Work == work < MaxWork /\ work' = work + 1

(* `Perf::start`: a kernel request is counted in flight.                   *)
Start ==
  /\ Work
  /\ inflight' = inflight + 1 /\ peak' = Greater(peak, inflight + 1)
  /\ most' = Greater(most, inflight + 1)
  /\ Silent
  /\ UNCHANGED <<rows, events, events_seen, totals, before, window, noticed,
                 interval>>

(* `InFlight::drop`.                                                       *)
End ==
  /\ inflight > 0 /\ inflight' = inflight - 1
  /\ Silent
  /\ UNCHANGED <<peak, rows, events, events_seen, totals, before, history, work>>

(* `record_fuse` or `record_call`; a kernel request is not resent.  A reader
   looks at one of the levels.                                             *)
Record(l, k) ==
  /\ Work /\ (l = "fuse" => ~k.resent)
  /\ rows' = [rows EXCEPT ![l] = Recorded(@, k.took, k.failed, k.resent)]
  /\ totals' = [totals EXCEPT ![l] = Added(@, k.took, k.failed)]
  /\ window' = [window EXCEPT ![l][k] = @ + 1]
  /\ interval' = IF l = "call" THEN [r \in Reader |-> [interval[r] EXCEPT ![k] = @ + 1]]
                 ELSE interval
  /\ Silent
  /\ UNCHANGED <<inflight, peak, events, events_seen, before, most, noticed>>

Event ==
  /\ Work /\ Silent /\ events' = events + 1 /\ noticed' = noticed + 1
  /\ UNCHANGED <<inflight, peak, rows, events_seen, totals, before, window, most,
                 interval>>

-----------------------------------------------------------------------------
(* What the records of a bag come to.                                      *)
Count(bag, Is(_)) == MapThenSumSet(LAMBDA k : IF Is(k) THEN bag[k] ELSE 0, Kind)
Sum(bag)          == MapThenSumSet(LAMBDA k : bag[k] * k.took, Kind)
Seen(bag)         == {k.took : k \in {k \in Kind : bag[k] > 0}}
Size(bag)         == Count(bag, LAMBDA k : TRUE)

Comes(bag) ==
  [n      |-> Size(bag),
   total  |-> Sum(bag),
   min    |-> IF Seen(bag) = {} THEN 0 ELSE Min(Seen(bag)),
   max    |-> IF Seen(bag) = {} THEN 0 ELSE Max(Seen(bag)),
   errors |-> Count(bag, LAMBDA k : k.failed),
   phased |-> Count(bag, LAMBDA k : ~k.resent)]

(* mutant of Restart: the most in flight is counted from nothing. *)
RestartAtZero == 0

(* The peak of a window that starts now.                                   *)
Restart == inflight

(* `Perf::report`: the rows go with the window, the gauge stays.           *)
Report ==
  /\ snap' = {[inflight |-> inflight, peak |-> peak, rows |-> rows,
               events |-> events - events_seen]}
  /\ rows' = [l \in Level |-> NoRow] /\ events_seen' = events /\ peak' = Restart
  /\ told' = {[peak |-> most, events |-> noticed,
                rows |-> [l \in Level |-> Comes(window[l])]]}
  /\ window' = [l \in Level |-> NoRecords] /\ most' = inflight /\ noticed' = 0
  /\ shown' = {} /\ ought' = {}
  /\ UNCHANGED <<inflight, events, totals, before, interval, work>>

-----------------------------------------------------------------------------
Gained(to, from) == IF to > from THEN to - from ELSE 0

(* mutant of Rank: rounded down. *)
RankDown(total, num, den) ==
  LET rank == (num * total) \div den
  IN  IF rank < 1 THEN 1 ELSE rank

(* The rank of the num/den quantile, from 1: rounded up.                   *)
Rank(total, num, den) ==
  LET rank == (num * total + den - 1) \div den
  IN  IF rank < 1 THEN 1 ELSE Lesser(rank, total)

(* `quantile`: of what was added to a histogram between two readings.      *)
quantile(was, is, num, den) ==
  LET added(b) == Gained(is[b], was[b])
      some     == {b \in Bucket : added(b) > 0}
      seen(b)  == MapThenSumSet(added, {c \in some : upper(c) <= upper(b)})
      total    == MapThenSumSet(added, some)
      over     == {b \in some : seen(b) >= Rank(total, num, den)}
  IN  {upper(b) : b \in {b \in over : \A c \in over : upper(b) <= upper(c)}}

(* `rates` of the call level between a reading and the totals now; what is
   not there yet has no earlier total.                                     *)
Rates(was) ==
  LET is    == totals["call"]
      count == Gained(is.count, was.count)
  IN  [count  |-> count,
       mean   |-> IF count > 0 THEN {Gained(is.total, was.total) \div count} ELSE {},
       errors |-> Gained(is.errors, was.errors),
       p50    |-> quantile(was.latency, is.latency, 1, 2),
       p99    |-> quantile(was.latency, is.latency, 99, 100)]

(* The least time that num/den of the records are at or below.             *)
Exact(bag, num, den) ==
  LET upto(v) == Count(bag, LAMBDA k : k.took <= v)
  IN  {Min({v \in Seen(bag) : den * upto(v) >= num * Size(bag)}) :
         some \in {x \in {1} : Seen(bag) # {}}}

(* A reader takes a reading, and shows the rates since its last one.       *)
Read(r) ==
  /\ Work
  /\ before' = [before EXCEPT ![r] = {totals["call"]}]
  /\ shown' = {Rates(was) : was \in before[r]}
  /\ ought' = {[sum |-> Comes(interval[r]), p50 |-> Exact(interval[r], 1, 2),
                p99 |-> Exact(interval[r], 99, 100)] : was \in before[r]}
  /\ interval' = [interval EXCEPT ![r] = NoRecords]
  /\ snap' = {} /\ told' = {}
  /\ UNCHANGED <<tables, window, most, noticed>>

Next ==
  \/ Start \/ End \/ Event \/ Report
  \/ \E l \in Level, k \in Kind : Record(l, k)
  \/ \E r \in Reader : Read(r)

Spec == Init /\ [][Next]_vars

-----------------------------------------------------------------------------
(* A report tells its window and nothing else: every request recorded since
   the last one is in its rows once, the fastest and the slowest among them,
   and the peak is the most that were in flight at any time since then, those
   begun before it too (`Perf::report`, `Row::record`, `Events::window`).  *)
ReportIsTrue ==
  \A s \in snap, t \in told : 
    s.rows = t.rows /\ s.peak = t.peak /\ s.events = t.events

(* A reader sees what was recorded between its readings, however reports and
   other readers come between: the count, mean and errors as they are, and a
   quantile no less than the true one and at most a quarter above it, as
   `RateOp` says (`rates` and `quantile`).                                 *)
Near(given, true) ==
  (given = {}) = (true = {}) /\ \A u \in given, v \in true : v <= u /\ 4 * u <= 5 * v

ReadingIsTrue ==
  \A s \in shown, t \in ought :
    /\ s.count = t.sum.n /\ s.errors = t.sum.errors
    /\ \A mean \in s.mean : mean = t.sum.total \div t.sum.n
    /\ Near(s.p50, t.p50) /\ Near(s.p99, t.p99)
=============================================================================
