------------------------------- MODULE Meters -------------------------------
(***************************************************************************)
(* What a client's report samples besides its tables (`Meters` and         *)
(* `Mount::report`, crates/client/src/mount.rs; the meters themselves,     *)
(* crates/perf/src/lib.rs): counters that others raise, each read against  *)
(* a baseline of its own.  A rate needs a window of MIN_WINDOW, and its    *)
(* baseline waits for one; drops are told over any window.  Ports come and *)
(* go, their counters starting over, and so do connections.  The server's  *)
(* report is the same with a tracker for every attached session.           *)
(*                                                                         *)
(* One direction of each port and connection is kept, one kind of drop,    *)
(* and one of the process's counters.                                      *)
(***************************************************************************)
EXTENDS Integers

CONSTANTS
  Port,
  Wired,        \* the ports that are not wireless
  Speed,        \* of each port, what it moves in a tick; 0 if it has none
  MIN_WINDOW,
  REPORT,       \* bound on a report's time, from its look at the ports on
  Burst,        \* bytes that a port moves at a time
  MaxTime,
  MaxWork       \* bound on what happens to be counted, and comes and goes

ASSUME MetersBounds ==
  /\ MIN_WINDOW \in Nat \ {0} /\ REPORT \in Nat /\ Burst \in Nat
  /\ Wired \subseteq Port /\ Speed \in [Port -> Nat]

VARIABLES
  now, work,
  there, counter,       \* the ports that can be read; what each one says
  baselines,            \* MeterLink: of the ports at the last sample
  served, process,      \* requests answered so far; MeterProcess's last
  errors, udp,          \* /proc/net/snmp; MeterUdp's last, if it has one
  gen, up, stats,       \* the newest connection, and what it has moved
  generation, quic,     \* Meters: the tracker's generation and baseline
  pc, begun, links,     \* the report under way, and what it read of ports
  verdict,              \* what the last report concluded, if anything
  since, told           \* history, by meter: what really happened since its
                        \* baseline was first taken, and what was told of it

world   == <<work, there, counter, served, errors, gen, up, stats>>
meters  == <<baselines, process, udp, generation, quic>>
report  == <<pc, begun, links, verdict>>
history == <<since, told>>
vars    == <<now, world, meters, report, history>>

(* `saturating_sub`.                                                       *)
Gained(to, from) == IF to > from THEN to - from ELSE 0

(* What is counted: two counters of every port, and three of the host.     *)
Quic    == <<"host", "quic">>
Udp     == <<"host", "udp">>
Process == <<"host", "process">>
Meter   == (Port \X {"bytes", "drops"}) \cup {Quic, Udp, Process}

Fresh(p) == [drops |-> counter[p].drops, at |-> now, bytes |-> counter[p].bytes]

(* Every meter has taken its baseline; no connection has been looked at.   *)
Init ==
  /\ now = 0 /\ work = 0 /\ pc = "idle" /\ begun = 0 /\ links = << >> /\ verdict = {}
  /\ there \in SUBSET Port /\ counter = [p \in Port |-> [drops |-> 0, bytes |-> 0]]
  /\ baselines = [p \in there |-> Fresh(p)]
  /\ served = 0 /\ process = [at |-> 0, served |-> 0]
  /\ errors = 0 /\ udp \in {{}, {0}}
  /\ gen = 1 /\ up = TRUE /\ stats = 0
  /\ generation = 0 /\ quic = {}
  /\ since = [m \in Meter |-> 0] /\ told = [m \in Meter |-> 0]

-----------------------------------------------------------------------------
(* The world. *)

(* A report takes little time; between reports any may pass.               *)
Tick ==
  /\ now < MaxTime
  /\ pc = "idle" \/ now < begun + REPORT
  /\ now' = now + 1
  /\ UNCHANGED <<world, meters, report, history>>

(* One of the happenings the world may have.                               *)
Work == work < MaxWork /\ work' = work + 1

Happened(m, n) == Work /\ since' = [since EXCEPT ![m] = @ + n]

Count(p, what) ==
  /\ p \in there
  /\ LET n == IF what = "bytes" THEN Burst ELSE 1
     IN /\ counter' = [counter EXCEPT ![p][what] = @ + n]
        /\ Happened(<<p, what>>, n)
  /\ UNCHANGED <<now, there, served, errors, gen, up, stats, meters, report, told>>

Serve ==
  /\ served' = served + 1 /\ Happened(Process, 1)
  /\ UNCHANGED <<now, there, counter, errors, gen, up, stats, meters, report, told>>

UdpError ==
  /\ errors' = errors + 1 /\ Happened(Udp, 1)
  /\ UNCHANGED <<now, there, counter, served, gen, up, stats, meters, report, told>>

Transfer ==
  /\ up /\ stats' = stats + 1 /\ Happened(Quic, 1)
  /\ UNCHANGED <<now, there, counter, served, errors, gen, up, meters, report, told>>

Unplug(p) ==
  /\ Work /\ p \in there /\ there' = there \ {p}
  /\ UNCHANGED <<now, counter, served, errors, gen, up, stats, meters, report, history>>

(* A port comes back, or another one under its name: it counts from zero.  *)
Plug(p) ==
  /\ Work /\ p \notin there /\ there' = there \cup {p}
  /\ counter' = [counter EXCEPT ![p] = [drops |-> 0, bytes |-> 0]]
  /\ UNCHANGED <<now, served, errors, gen, up, stats, meters, report, history>>

Lose ==
  /\ Work /\ up /\ up' = FALSE
  /\ UNCHANGED <<now, there, counter, served, errors, gen, stats, meters, report, history>>

(* A connection of the next generation, of which nothing has been told.    *)
Connect ==
  /\ ~up /\ Work
  /\ up' = TRUE /\ gen' = gen + 1 /\ stats' = 0
  /\ since' = [since EXCEPT ![Quic] = 0] /\ told' = [told EXCEPT ![Quic] = 0]
  /\ UNCHANGED <<now, there, counter, served, errors, meters, report>>

-----------------------------------------------------------------------------
(* A report. *)

(* `MeterProcess::sample`.                                                 *)
SampleProcess == process' = [at |-> now, served |-> served]

Due(at) == now - at >= MIN_WINDOW

Known(p) == p \in DOMAIN baselines

(* A port's sample: its drops since the last one, and its rate once the
   window is long enough.                                                  *)
Drops(p) ==
  IF Known(p) THEN Gained(counter[p].drops, baselines[p].drops) ELSE 0

Rates(p) ==
  IF Known(p) /\ Due(baselines[p].at)
  THEN {[at    |-> baselines[p].at, window |-> now - baselines[p].at,
         bytes |-> Gained(counter[p].bytes, baselines[p].bytes)]}
  ELSE {}

(* mutant of Rebased: the drops wait for the rate's window. *)
RebasedTogether(p) == IF Known(p) /\ Rates(p) = {} THEN baselines[p] ELSE Fresh(p)

(* The baseline of the drops moves; the rate's moves when a rate is told.  *)
Rebased(p) ==
  IF Known(p) /\ Rates(p) = {}
  THEN [baselines[p] EXCEPT !.drops = counter[p].drops]
  ELSE Fresh(p)

(* mutant of SampleLinks: a port that has gone is remembered. *)
SampleLinksRemember ==
  /\ links' = [p \in there |-> Rates(p)]
  /\ baselines' = [p \in there \cup DOMAIN baselines |->
                     IF p \in there THEN Rebased(p) ELSE baselines[p]]

(* `MeterLink::sample_at`.  A port that is not there is forgotten, and
   starts from a fresh baseline when it comes back.                        *)
SampleLinks ==
  /\ links' = [p \in there |-> Rates(p)]
  /\ baselines' = [p \in there |-> Rebased(p)]

(* `MeterUdp::sample_at`; what cannot be read leaves the meter as it was.  *)
SampleUdp(readable) == udp' = IF readable THEN {errors} ELSE udp

(* What these tell, by meter; an interval that is not positive has no rate.
   And whether a meter takes its first baseline.                           *)
Tells(m, readable) ==
  CASE m = Process -> IF now > process.at THEN Gained(served, process.served) ELSE 0
    [] m = Udp     -> IF readable /\ udp # {}
                      THEN Gained(errors, CHOOSE last \in udp : TRUE) ELSE 0
    [] m = Quic    -> 0
    [] OTHER       -> IF m[1] \notin there THEN 0
                      ELSE IF m[2] = "drops" THEN Drops(m[1])
                      ELSE IF Rates(m[1]) = {} THEN 0
                      ELSE (CHOOSE r \in Rates(m[1]) : TRUE).bytes

Begins(m, readable) ==
  \/ m = Udp /\ readable /\ udp = {}
  \/ m[1] \in there /\ ~Known(m[1])

(* The report's look at the process and the host.                          *)
SampleHost ==
  /\ pc = "idle" /\ pc' = "quic" /\ begun' = now
  /\ \E readable \in BOOLEAN :
       /\ SampleProcess /\ SampleLinks /\ SampleUdp(readable)
       /\ since' = [m \in Meter |-> IF Begins(m, readable) THEN 0 ELSE since[m]]
       /\ told' = [m \in Meter |-> IF Begins(m, readable) THEN 0
                                   ELSE told[m] + Tells(m, readable)]
  /\ UNCHANGED <<now, world, generation, quic, verdict>>

(* The port's utilization, as the numbers to compare.                      *)
Busier(p, q) ==
  \E r \in links[p], s \in links[q] :
    r.bytes * Speed[q] * s.window > s.bytes * Speed[p] * r.window

Judged == {p \in DOMAIN links : p \in Wired /\ Speed[p] > 0 /\ links[p] # {}}

Busiest(p) == p \in Judged /\ \A q \in Judged : ~Busier(q, p)

(* The port is at 8/10 of its speed; the connection's share of what it
   moves, which cannot be above 11/10, is under or over a half.            *)
Full(p, r)       == 10 * r.bytes >= 8 * Speed[p] * r.window
Possible(d, r)   == 10 * d.bytes * r.window <= 11 * r.bytes * d.window
Filling(d, r)    == IF 2 * d.bytes * r.window < r.bytes * d.window
                    THEN "others" ELSE "ours"

(* What `verdict` may say of the connection's window d, of the ports that
   are as busy one of which is taken.                                      *)
Verdicts(d) ==
  {[port |-> x[1], link |-> x[2].at, quic |-> d.at, filling |-> Filling(d, x[2])] :
     x \in {x \in Judged \X UNION {links[p] : p \in Judged} :
              /\ Busiest(x[1]) /\ x[2] \in links[x[1]]
              /\ Full(x[1], x[2]) /\ Possible(d, x[2])}}

(* mutant of Tracker: the window goes on over a reconnect. *)
TrackerKept == quic

(* The tracker's baseline: none for a generation not sampled before.       *)
Tracker == IF generation = gen THEN quic ELSE {}

(* `TrackerQuic::sample_at`: the window, once it is long enough, and the
   baseline after it.                                                      *)
Delta ==
  {[at |-> b.at, window |-> now - b.at, bytes |-> Gained(stats, b.bytes)] :
     b \in {b \in Tracker : Due(b.at)}}

Baseline ==
  IF Delta # {} \/ Tracker = {} THEN {[at |-> now, bytes |-> stats]} ELSE Tracker

SampleQuic ==
  /\ pc = "quic" /\ pc' = "idle" /\ links' = << >>
  /\ \/ /\ up
        /\ generation' = gen
        /\ quic' = Baseline
        /\ \/ Delta = {} /\ verdict' = {}
           \/ \E d \in Delta :
                IF Verdicts(d) = {} THEN verdict' = {}
                ELSE \E v \in Verdicts(d) : verdict' = {v}
        /\ since' = IF generation = gen THEN since ELSE [since EXCEPT ![Quic] = 0]
        /\ told' = [told EXCEPT ![Quic] =
                      IF Delta = {} THEN @ ELSE @ + (CHOOSE d \in Delta : TRUE).bytes]
     \/ /\ ~up /\ verdict' = {}
        /\ UNCHANGED <<generation, quic, history>>
  /\ UNCHANGED <<now, world, baselines, process, udp, begun>>

-----------------------------------------------------------------------------
World ==
  \/ Tick \/ Serve \/ UdpError \/ Transfer \/ Lose \/ Connect
  \/ \E p \in Port : Unplug(p) \/ Plug(p) \/ \E what \in {"bytes", "drops"} : Count(p, what)

Next == World \/ SampleHost \/ SampleQuic

Spec == Init /\ [][Next]_vars

-----------------------------------------------------------------------------
(* What a counter has to tell beyond its baseline.                         *)
Untold(m) ==
  CASE m = Quic    -> IF generation = gen /\ quic # {}
                        THEN Gained(stats, (CHOOSE b \in quic : TRUE).bytes) ELSE 0
    [] m = Udp     -> IF udp = {} THEN 0 ELSE errors - CHOOSE last \in udp : TRUE
    [] m = Process -> Gained(served, process.served)
    [] OTHER         -> IF Known(m[1])
                        THEN Gained(counter[m[1]][m[2]], baselines[m[1]][m[2]]) ELSE 0

(* No report tells more than there was, however ports, connections and
   readings come and go between its looks at them: what the windows of a
   meter have told and what its next one would tell are no more than what
   happened since it began.                                                *)
NeverOvercounted == \A m \in Meter : told[m] + Untold(m) <= since[m]

(* The two windows a verdict compares cover the same time but for less than
   MIN_WINDOW and a report's own time at their beginning, though each has a
   baseline that moves by a rule of its own.                               *)
SkewBounded ==
  \A v \in verdict : /\ v.link < v.quic + MIN_WINDOW
                     /\ v.quic < v.link + MIN_WINDOW + REPORT
=============================================================================
