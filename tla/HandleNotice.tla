---------------------------- MODULE HandleNotice ----------------------------
(***************************************************************************)
(* How a session that holds many handles has its client told: the report   *)
(* thresholds of `Slot::insert` and `Handles::remove`                      *)
(* (crates/server/src/handles.rs), `doubling_due` (crates/perf/src/lib.rs) *)
(* and the notices of `forward_events` (crates/server/src/session.rs).     *)
(* `notice` is a watch channel: `fresh` holds the forwarders that have not *)
(* seen its latest value.                                                  *)
(***************************************************************************)
EXTENDS Naturals

CONSTANTS
  Share,       \* the handles past which the session is reported
  MaxHeld,     \* bound on the handles held at once
  Forwarder    \* forward_events tasks, one per connection of the session

VARIABLES
  held,      \* the number of handles in the session's map
  reported,  \* the threshold last crossed
  notice,    \* the count the client is to be told of, 0 for none
  fresh,     \* forwarders whose `notices.changed()` is ready
  task,      \* where each forwarder is
  sending,   \* the count each forwarder is writing to its stream, 0 for none
  quiet      \* history: under half the share since the last notice was set

vars == <<held, reported, notice, fresh, task, sending, quiet>>

Init ==
  /\ held = 0 /\ reported = 0 /\ notice = 0
  /\ fresh = {} /\ task = [w \in Forwarder |-> "none"]
  /\ sending = [w \in Forwarder |-> 0]
  /\ quiet = TRUE

First == IF Share = 0 THEN 1 ELSE Share

(* mutant of Due: a count must pass the next threshold, not only reach it. *)
DueLate(value) == value >= First /\ value > 2 * reported

(* `doubling_due`: whether a count of `value` is to be reported, and the
   threshold it has then crossed.                                          *)
Due(value) == value >= First /\ value >= 2 * reported

Threshold(value) ==
  CHOOSE t \in First .. value :
    /\ \E i \in 0 .. value : t = First * 2 ^ i
    /\ 2 * t > value

(* `Slot::insert` of one more handle.                                      *)
Insert ==
  /\ held < MaxHeld
  /\ held' = held + 1
  /\ \/ /\ Due(held + 1)
        /\ reported' = Threshold(held + 1)
        /\ notice'   = held + 1
        /\ fresh'    = {w \in Forwarder : task[w] \in {"idle", "send"}}
        /\ quiet' = FALSE
     \/ /\ ~Due(held + 1)
        /\ UNCHANGED <<reported, notice, fresh, quiet>>
  /\ UNCHANGED <<task, sending>>

(* mutant of Hushed: under the share is enough. *)
HushedUnderShare(n) == n < Share

(* Back under half the share.                                              *)
Hushed(n) == 2 * n < Share

(* `Handles::remove`.                                                      *)
Remove ==
  /\ held > 0
  /\ held' = held - 1
  /\ \/ /\ Hushed(held - 1)
        /\ reported' = 0 /\ notice' = 0
        /\ fresh' = IF notice = 0 THEN fresh
                    ELSE {w \in Forwarder : task[w] \in {"idle", "send"}}
     \/ /\ ~Hushed(held - 1)
        /\ UNCHANGED <<reported, notice, fresh>>
  /\ quiet' = (quiet \/ 2 * (held - 1) < Share)
  /\ UNCHANGED <<task, sending>>

(* A forwarder writes `what`, if there is anything, before it next waits.  *)
Send(w, what) ==
  /\ task'    = [task EXCEPT ![w] = IF what = 0 THEN "idle" ELSE "send"]
  /\ sending' = [sending EXCEPT ![w] = what]

(* mutant of Pending: a new connection waits for the next notice. *)
PendingIgnored == 0

(* What a connection that has just attached finds pending.                 *)
Pending == notice

(* A connection attaches: the forwarder subscribes.                        *)
Subscribe(w) ==
  /\ task[w] = "none"
  /\ Send(w, Pending)
  /\ fresh' = fresh \ {w}
  /\ UNCHANGED <<held, reported, notice, quiet>>

(* `notices.changed()`: the value is read and marked seen.                 *)
Changed(w) ==
  /\ task[w] = "idle" /\ w \in fresh
  /\ fresh' = fresh \ {w}
  /\ Send(w, notice)
  /\ UNCHANGED <<held, reported, notice, quiet>>

(* The notice is written; `delivered` clears it if it is still that one,
   going by the counts it carries.                                         *)
Written(w) ==
  /\ task[w] = "send"
  /\ notice'  = IF notice = sending[w] THEN 0 ELSE notice
  /\ task'    = [task EXCEPT ![w] = "idle"]
  /\ sending' = [sending EXCEPT ![w] = 0]
  /\ UNCHANGED <<held, reported, fresh, quiet>>

(* Its connection ends.                                                    *)
Stop(w) ==
  /\ task[w] # "none"
  /\ task'    = [task EXCEPT ![w] = "none"]
  /\ sending' = [sending EXCEPT ![w] = 0]
  /\ fresh'   = fresh \ {w}
  /\ UNCHANGED <<held, reported, notice, quiet>>

Next ==
  \/ Insert \/ Remove
  \/ \E w \in Forwarder : Subscribe(w) \/ Changed(w) \/ Written(w) \/ Stop(w)

Spec == Init /\ [][Next]_vars

(* A forwarder that can go on does; nobody need connect or stop.           *)
FairSpec ==
  Spec /\ \A w \in Forwarder : WF_vars(Changed(w)) /\ WF_vars(Written(w))

-----------------------------------------------------------------------------
(* No threshold is passed without a report: the count is below the next one
   due, after any sequence of opens and releases.                          *)
NoCrossingMissed == held < First \/ held < 2 * reported

(* A session hovering at a threshold is reported once: a notice that does not
   raise the threshold comes only after the session was back under half its
   share (the comment in Handles::remove).                                 *)
HoveringIsQuiet ==
  [][notice' # notice /\ notice' # 0 =>
       IF reported = 0 THEN quiet ELSE reported' >= 2 * reported]_vars

(* A notice pending while a connection is up is sent or withdrawn, whatever
   happens while an earlier one is being written.                          *)
NoticeGoesOut ==
  \A w \in Forwarder : []<>~(notice # 0 /\ task[w] # "none")
=============================================================================
