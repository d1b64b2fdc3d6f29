---------------------------- MODULE MetersProofs ----------------------------
(***************************************************************************)
(* The windows a verdict compares, for any ports, window and report time.  *)
(***************************************************************************)
EXTENDS Meters, TLAPS

(* Two baselines a verdict may compare: a port's and the connection's.     *)
Near(link, conn) == link < conn + MIN_WINDOW /\ conn < link + MIN_WINDOW + REPORT

Base   == [drops : Nat, at : Nat, bytes : Nat]
Counts == [drops : Nat, bytes : Nat]

Shape ==
  /\ now \in Nat /\ begun \in Nat /\ gen \in Nat /\ generation \in Nat
  /\ up \in BOOLEAN /\ pc \in {"idle", "quic"}
  /\ there \subseteq Port /\ counter \in [Port -> Counts]
  /\ \A p \in DOMAIN baselines : baselines[p] \in Base /\ baselines[p].at <= now
  /\ \A b \in quic : b.at \in Nat /\ b.at <= now
  /\ generation <= gen

(* Between reports, the connection's baseline is near every port's.        *)
Between ==
  pc = "idle" /\ up /\ generation = gen =>
    \A p \in DOMAIN baselines, b \in quic : Near(baselines[p].at, b.at)

(* Within one, the ports' baselines are those of `begun` or younger than a
   window then, and the windows it has read began near the connection's.   *)
Within ==
  pc = "quic" =>
    /\ begun <= now /\ now <= begun + REPORT
    /\ \A p \in DOMAIN baselines :
         baselines[p].at <= begun /\ begun < baselines[p].at + MIN_WINDOW
    /\ \A p \in DOMAIN links : \A r \in links[p] : r.at \in Nat
    /\ up /\ generation = gen =>
         /\ \A b \in quic : b.at <= begun
         /\ \A p \in DOMAIN links : \A r \in links[p] : \A b \in quic :
              Near(r.at, b.at)

IInv == Shape /\ Between /\ Within /\ SkewBounded

(* The meters and the tracker have no windows to compare at first.         *)
LEMMA InitIInv == Init => IInv
<1> SUFFICES ASSUME Init PROVE IInv
    OBVIOUS
<1>1. Shape
  <2>1. counter \in [Port -> Counts] /\ there \subseteq Port /\ now = 0
    BY DEF Init, Counts
  <2>2. \A p \in there : counter[p].drops = 0 /\ counter[p].bytes = 0
    BY DEF Init
  <2>3. \A p \in DOMAIN baselines : baselines[p] \in Base /\ baselines[p].at <= now
    <3> TAKE p \in DOMAIN baselines
    <3>1. p \in there /\ baselines[p] = Fresh(p)
      BY DEF Init
    <3>2. baselines[p] = [drops |-> 0, at |-> 0, bytes |-> 0]
      BY <2>1, <2>2, <3>1 DEF Fresh
    <3> QED
      BY <2>1, <3>2 DEF Base
  <2> QED
    BY <2>1, <2>3 DEF Init, Shape
<1>2. Between /\ Within /\ SkewBounded
  BY DEF Init, Between, Within, SkewBounded
<1> QED
  BY <1>1, <1>2 DEF IInv

(* The baseline of a port after `MeterLink::sample_at`: of now, or kept and
   younger than a window.                                                  *)
LEMMA RebasedIsYoung ==
  ASSUME Shape, NEW p \in there
  PROVE  /\ Rebased(p) \in Base
         /\ Rebased(p).at <= now /\ now < Rebased(p).at + MIN_WINDOW
<1>1. Fresh(p) \in Base /\ Fresh(p).at = now
  BY DEF Shape, Fresh, Base, Counts
<1>2. CASE Known(p) /\ Rates(p) = {}
  <2> DEFINE b == baselines[p]
  <2>1. b \in Base /\ b.at <= now
    BY <1>2 DEF Shape, Known
  <2>2. ~Due(b.at)
    BY <1>2 DEF Rates
  <2>3. Rebased(p) = [b EXCEPT !.drops = counter[p].drops]
    BY <1>2 DEF Rebased
  <2>4. counter[p].drops \in Nat
    BY DEF Shape, Counts
  <2>5. Rebased(p) \in Base /\ Rebased(p).at = b.at
    BY <2>1, <2>3, <2>4 DEF Base
  <2>6. now < b.at + MIN_WINDOW
    BY <2>1, <2>2, MetersBounds DEF Due, Base, Shape
  <2> QED
    BY <2>1, <2>5, <2>6
<1>3. CASE ~(Known(p) /\ Rates(p) = {})
  <2>1. Rebased(p) = Fresh(p)
    BY <1>3 DEF Rebased
  <2> QED
    BY <1>1, <2>1, MetersBounds DEF Shape
<1> QED
  BY <1>2, <1>3

(* The world's steps touch no baseline; a new connection has none yet.     *)
LEMMA WorldStep == IInv /\ World => IInv'
<1> SUFFICES ASSUME IInv, World PROVE IInv'
    OBVIOUS
<1> USE MetersBounds
<1>1. UNCHANGED <<meters, report>>
  BY DEF World, Tick, Serve, UdpError, Transfer, Lose, Connect, Unplug, Plug,
         Count
<1>2. now' \in Nat /\ now <= now' /\ (pc = "quic" => now' <= begun + REPORT)
  <2>1. CASE Tick
    BY <2>1 DEF Tick, IInv, Shape, Within
  <2>2. CASE ~Tick
    <3>1. UNCHANGED now
      BY <2>2 DEF World, Serve, UdpError, Transfer, Lose, Connect, Unplug,
                  Plug, Count
    <3> QED
      BY <3>1 DEF IInv, Shape, Within
  <2> QED
    BY <2>1, <2>2
<1>3. \/ UNCHANGED <<gen, up>>
      \/ gen' = gen /\ up' = FALSE
      \/ gen' = gen + 1 /\ up' = TRUE
  BY DEF World, world, Tick, Serve, UdpError, Transfer, Lose, Connect, Unplug,
         Plug, Count
<1>4. there' \subseteq Port /\ counter' \in [Port -> Counts]
  <2>1. CASE \E p \in Port : Plug(p) \/ Unplug(p)
    BY <2>1 DEF Plug, Unplug, IInv, Shape, Counts
  <2>2. CASE \E p \in Port, what \in {"bytes", "drops"} : Count(p, what)
    <3>1. PICK p \in Port, what \in {"bytes", "drops"} : Count(p, what)
      BY <2>2
    <3> DEFINE n == IF what = "bytes" THEN Burst ELSE 1
    <3>2. n \in Nat /\ counter' = [counter EXCEPT ![p][what] = @ + n]
      BY <3>1 DEF Count
    <3>3. [counter[p] EXCEPT ![what] = @ + n] \in Counts
      BY <3>2 DEF IInv, Shape, Counts
    <3>4. counter' = [counter EXCEPT ![p] = [counter[p] EXCEPT ![what] = @ + n]]
      BY <3>2
    <3> QED
      BY <3>1, <3>3, <3>4 DEF Count, IInv, Shape
  <2>3. CASE ~(\E p \in Port : Plug(p) \/ Unplug(p))
             /\ ~(\E p \in Port, what \in {"bytes", "drops"} : Count(p, what))
    BY <2>3 DEF World, world, Tick, Serve, UdpError, Transfer, Lose, Connect,
                IInv, Shape
  <2> QED
    BY <2>1, <2>2, <2>3
<1>5. Shape'
  <2>1. up' \in BOOLEAN
    BY <1>3, Zenon DEF IInv, Shape
  <2>2. gen' \in Nat /\ gen <= gen'
    BY <1>3 DEF IInv, Shape
  <2>3. \A p \in DOMAIN baselines' :
          baselines'[p] \in Base /\ baselines'[p].at <= now'
    BY <1>1, <1>2 DEF IInv, Shape, meters, Base
  <2>4. \A b \in quic' : b.at \in Nat /\ b.at <= now'
    BY <1>1, <1>2 DEF IInv, Shape, meters
  <2>5. begun' \in Nat /\ pc' \in {"idle", "quic"} /\ generation' = generation
    BY <1>1 DEF IInv, Shape, meters, report
  <2> QED
    BY <1>2, <1>4, <2>1, <2>2, <2>3, <2>4, <2>5 DEF IInv, Shape
<1>6. up' /\ generation' = gen' => up /\ generation = gen
  <2>1. generation' = generation /\ generation <= gen
        /\ generation \in Nat /\ gen \in Nat
    BY <1>1 DEF IInv, Shape, meters
  <2>2. CASE UNCHANGED <<gen, up>>
    BY <2>1, <2>2
  <2>3. CASE gen' = gen /\ up' = FALSE
    BY <2>3
  <2>4. CASE gen' = gen + 1 /\ up' = TRUE
    <3>1. generation' # gen'
      BY <2>1, <2>4
    <3> QED
      BY <3>1
  <2> QED
    BY <1>3, <2>2, <2>3, <2>4
<1>7. Between' /\ Within' /\ SkewBounded'
  BY <1>1, <1>2, <1>6
  DEF IInv, Shape, Between, Within, SkewBounded, Near, meters, report
<1> QED
  BY <1>5, <1>7 DEF IInv

(* The look at the ports: every baseline is young, and the windows read
   began at the old ones.                                                  *)
LEMMA HostStep == IInv /\ SampleHost => IInv'
<1> SUFFICES ASSUME IInv, SampleHost PROVE IInv'
    OBVIOUS
<1> USE MetersBounds
<1>1. /\ pc = "idle" /\ pc' = "quic" /\ begun' = now /\ now' = now
      /\ links' = [p \in there |-> Rates(p)]
      /\ baselines' = [p \in there |-> Rebased(p)]
      /\ UNCHANGED <<there, counter, gen, up, generation, quic, verdict>>
  BY DEF SampleHost, SampleLinks, world
<1>2. \A p \in there : /\ Rebased(p) \in Base /\ Rebased(p).at <= now
                       /\ now < Rebased(p).at + MIN_WINDOW
  BY RebasedIsYoung DEF IInv
<1>3. Shape'
  BY <1>1, <1>2 DEF IInv, Shape
<1>4. \A p \in there : \A r \in Rates(p) :
        p \in DOMAIN baselines /\ r.at = baselines[p].at /\ r.at \in Nat
  BY DEF Rates, Known, IInv, Shape, Base
<1>5. \A p \in DOMAIN links' : \A r \in links'[p] :
        p \in DOMAIN baselines /\ r.at = baselines[p].at /\ r.at \in Nat
  BY <1>1, <1>4
<1>6. up' /\ generation' = gen' =>
        \A p \in DOMAIN links' : \A r \in links'[p] : \A b \in quic' : Near(r.at, b.at)
  BY <1>1, <1>5 DEF IInv, Between
<1>7. Within'
  BY <1>1, <1>2, <1>5, <1>6 DEF IInv, Shape, Within, Near
<1>8. Between' /\ SkewBounded'
  BY <1>1 DEF IInv, Between, SkewBounded
<1> QED
  BY <1>3, <1>7, <1>8 DEF IInv

(* The look at the connection: a verdict compares two windows that were near,
   and its baseline is again near every port's, moved or not.              *)
LEMMA QuicStep == IInv /\ SampleQuic => IInv'
<1> SUFFICES ASSUME IInv, SampleQuic PROVE IInv'
    OBVIOUS
<1> USE MetersBounds
<1>1. /\ pc = "quic" /\ pc' = "idle"
      /\ UNCHANGED <<now, begun, there, counter, gen, up, baselines>>
  BY DEF SampleQuic, world
<1>2. CASE ~up
  BY <1>1, <1>2 DEF SampleQuic, IInv, Shape, Between, Within, SkewBounded
<1>3. CASE up
  <2>1. generation' = gen /\ quic' = Baseline
    BY <1>3 DEF SampleQuic
  <2>2. \A b \in Tracker : b \in quic /\ generation = gen
    BY DEF Tracker
  <2>3. \A b \in quic' : \/ b.at = now
                         \/ b \in Tracker /\ now < b.at + MIN_WINDOW
    <3>1. CASE Delta # {} \/ Tracker = {}
      BY <2>1, <3>1 DEF Baseline
    <3>2. CASE ~(Delta # {} \/ Tracker = {})
      <4>1. \A b \in Tracker : ~Due(b.at)
        BY <3>2 DEF Delta
      <4> QED
        BY <2>1, <2>2, <3>2, <4>1 DEF Baseline, Due, IInv, Shape
    <3> QED
      BY <3>1, <3>2
  <2>4. Shape'
    BY <1>1, <2>1, <2>2, <2>3 DEF IInv, Shape
  <2>5. Between'
    BY <1>1, <1>3, <2>1, <2>2, <2>3 DEF IInv, Shape, Between, Within, Near, Base
  <2>6. \A v \in verdict' : \E d \in Delta : v \in Verdicts(d)
    BY <1>3 DEF SampleQuic
  <2>7. \A d \in Delta : \E b \in Tracker : d.at = b.at
    BY DEF Delta
  <2>8. \A d \in Delta : \A v \in Verdicts(d) :
          v.quic = d.at /\ \E p \in DOMAIN links : \E r \in links[p] : v.link = r.at
    BY DEF Verdicts, Judged
  <2>9. SkewBounded'
    <3> SUFFICES ASSUME NEW v \in verdict' PROVE Near(v.link, v.quic)
        BY DEF SkewBounded, Near
    <3>1. PICK d \in Delta : v \in Verdicts(d)
      BY <2>6
    <3>2. PICK b \in Tracker : d.at = b.at
      BY <2>7, <3>1
    <3>3. PICK p \in DOMAIN links : \E r \in links[p] : v.link = r.at
      BY <2>8, <3>1
    <3>4. PICK r \in links[p] : v.link = r.at
      BY <3>3
    <3>5. Near(r.at, b.at)
      BY <1>1, <1>3, <2>2 DEF IInv, Within
    <3> QED
      BY <2>8, <3>1, <3>2, <3>4, <3>5
  <2> QED
    BY <1>1, <2>4, <2>5, <2>9 DEF IInv, Within
<1> QED
  BY <1>2, <1>3

(* A verdict (`verdict` in `Mount::report` and `log_quic`) compares windows
   that begin less than MIN_WINDOW and a report's time apart, whatever the
   ports, the connections, and the times of the reports.                   *)
THEOREM VerdictsCompareOneWindow == Spec => []SkewBounded
<1>1. IInv /\ [Next]_vars => IInv'
  <2> SUFFICES ASSUME IInv, [Next]_vars PROVE IInv'
      OBVIOUS
  <2>1. CASE World
    BY <2>1, WorldStep
  <2>2. CASE SampleHost
    BY <2>2, HostStep
  <2>3. CASE SampleQuic
    BY <2>3, QuicStep
  <2>4. CASE UNCHANGED vars
    BY <2>4 DEF vars, world, meters, report, IInv, Shape, Between, Within,
                SkewBounded
  <2> QED
    BY <2>1, <2>2, <2>3, <2>4 DEF Next
<1>2. IInv => SkewBounded
  BY DEF IInv
<1> QED
  BY InitIInv, <1>1, <1>2, PTL DEF Spec
=============================================================================
