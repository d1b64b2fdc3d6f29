----------------------------- MODULE MCReports ------------------------------
(* What a report is made of and how messages cross the wire, on instances   *)
(* small enough for TLC: the meters and the tables behind a report, and the *)
(* frames.  They do not meet: a behaviour is of the part that `focus`       *)
(* names, and leaves the others as they were.                               *)
EXTENDS Meters, WireSamples

CONSTANTS
  Kind, Reader, MaxRecords,
  MAX_FRAME, READ_CHUNK, Messages, Entries,
  p1, r1

VARIABLES
  focus,
  inflight, peak, rows, events, events_seen, totals, before, snap, shown, answer, ought,
  window, most, noticed, interval, recorded,
  page, msg, frame, arrived, cut, reader

tableVars  == <<inflight, peak, rows, events, events_seen, totals, before, snap, shown, answer,
                ought, window, most, noticed, interval, recorded>>
wireVars   == <<page, msg, frame, arrived, cut, reader>>

R == INSTANCE Reports WITH told <- answer, work <- recorded, MaxWork <- MaxRecords
W == INSTANCE Wire

MCPort   == {p1}
MCSpeed  == [p \in MCPort |-> 1]
MCKind   == {[took |-> 2, failed |-> FALSE, resent |-> FALSE],
             [took |-> 6, failed |-> TRUE, resent |-> FALSE],
             [took |-> 9, failed |-> FALSE, resent |-> TRUE]}
MCReader == {r1}

(* Meters that are not looked at start in one of their states.              *)
MCInit ==
  /\ focus \in {"meters", "tables", "wire"}
  /\ Init /\ R!Init /\ W!Init
  /\ focus # "meters" => there = Port /\ udp = {}

MCNext ==
  \/ focus = "meters" /\ Next /\ UNCHANGED <<focus, tableVars, wireVars>>
  \/ focus = "tables" /\ R!Next /\ UNCHANGED <<focus, vars, wireVars>>
  \/ focus = "wire" /\ W!Next /\ UNCHANGED <<focus, vars, tableVars>>

MCSpec == MCInit /\ [][MCNext]_<<focus, vars, tableVars, wireVars>>

(* What a report says was counted in a window was counted in that window,   *)
(* for the meters of the machine and of the connection as for the tables of *)
(* requests, and so were the rates and quantiles a reader works out         *)
(* (perf/src/lib.rs, client/src/perf.rs, ctl/src/lib.rs).                   *)
FiguresAreTrue ==
  /\ focus = "meters" => NeverOvercounted
  /\ focus = "tables" => R!ReportIsTrue /\ R!ReadingIsTrue

(* A message that is read is the one that was sent, a message is built in   *)
(* the one segment that its reader takes, and only a batch of events can be *)
(* too large for a frame: a page of a listing and any request fit           *)
(* (codec.rs, wire.rs, dirents.rs).                                         *)
FramesAreTrue ==
  focus = "wire" => W!ReadIsSent /\ W!OneSegment /\ W!OnlyEventsTooLarge
=============================================================================
