------------------------------ MODULE MCEvents ------------------------------
(* What must in the end happen, on instances small enough for TLC: changes  *)
(* on the export reach a session, its client's notifier and the session's   *)
(* owner; outages are announced; and a mount comes to its end.  The parts   *)
(* do not meet: a behaviour is of the one that `focus` names, with the      *)
(* fairness of its module, and leaves the others as they were.              *)
EXTENDS ChangeFeed

CONSTANTS
  Cached, EventRoom, WorkRoom, MaxGen,
  Share, MaxHeld, Forwarder,
  Addr, Family, MaxOutages, MaxSweeps

VARIABLES
  focus,
  gen, up, changed, overflow_pending, events, last_generation, sweep_pending, works, stopped,
  ended, stale, accepted,
  held, reported, notice, fresh, task, sending, quiet,
  stop, mgr, state, told, seen, lapsed, teller, warned,
  main, sig, root, control, mnt, used, asked, aborted, over, busy, closed, second

invalVars  == <<gen, up, changed, overflow_pending, events, last_generation, sweep_pending,
                works, stopped, ended, stale, accepted>>
noticeVars == <<held, reported, notice, fresh, task, sending, quiet>>
connVars   == <<stop, mgr, state, told, seen, lapsed, teller, warned>>
mountVars  == <<main, sig, root, control, mnt, used, asked, aborted, over, busy, closed, second>>

I == INSTANCE Invalidation WITH queue <- works, Item <- Cached
N == INSTANCE HandleNotice
C == INSTANCE ConnManager
M == INSTANCE MountLife WITH pending <- asked

MCFamily == <<4, 6, 4>>

(* A part that is not looked at starts in one of its states.                *)
MCInit ==
  /\ focus \in {"feed", "invalidation", "notice", "conn", "mount"}
  /\ Init /\ I!Init /\ N!Init /\ C!Init /\ M!Init
  /\ focus # "conn" => mgr.order = [a \in Addr |-> a]
  /\ focus # "mount" => ~root /\ ~control

MCNext ==
  \/ focus = "feed" /\ Next
       /\ UNCHANGED <<focus, invalVars, noticeVars, connVars, mountVars>>
  \/ focus = "invalidation" /\ I!Next
       /\ UNCHANGED <<focus, vars, noticeVars, connVars, mountVars>>
  \/ focus = "notice" /\ N!Next
       /\ UNCHANGED <<focus, vars, invalVars, connVars, mountVars>>
  \/ focus = "conn" /\ C!Next
       /\ UNCHANGED <<focus, vars, invalVars, noticeVars, mountVars>>
  \/ focus = "mount" /\ M!Next
       /\ UNCHANGED <<focus, vars, invalVars, noticeVars, connVars>>

(* The fairness of each part's own module, of the part looked at.           *)
MCFairness ==
  /\ WF_vars(focus = "feed" /\ ReadEvents) /\ WF_vars(focus = "feed" /\ Flush)
  /\ \A s \in Session : WF_vars(focus = "feed" /\ Forward(s))
  /\ WF_I!vars(focus = "invalidation" /\ I!TranslateEvent)
  /\ WF_I!vars(focus = "invalidation" /\ I!TranslateState)
  /\ WF_I!vars(focus = "invalidation" /\ I!Notify)
  /\ WF_I!vars(focus = "invalidation" /\ I!Ends)
  /\ \A w \in Forwarder : /\ WF_noticeVars(focus = "notice" /\ N!Changed(w))
                          /\ WF_noticeVars(focus = "notice" /\ N!Written(w))
  /\ WF_connVars(focus = "conn" /\ C!Stopped) /\ WF_connVars(focus = "conn" /\ C!ManagerEnds)
  /\ WF_connVars(focus = "conn" /\ C!Look) /\ WF_connVars(focus = "conn" /\ C!Changed)
  /\ SF_connVars(focus = "conn" /\ C!Announce)
  /\ WF_M!vars(focus = "mount" /\ M!LeavesLoop) /\ WF_M!vars(focus = "mount" /\ M!Umount)
  /\ WF_M!vars(focus = "mount" /\ M!Join) /\ WF_M!vars(focus = "mount" /\ M!Stops)
  /\ WF_M!vars(focus = "mount" /\ M!Shutdown) /\ WF_M!vars(focus = "mount" /\ M!Abort)
  /\ WF_M!vars(focus = "mount" /\ M!SessionEnds)
  /\ WF_M!vars(focus = "mount" /\ M!AbortFails)
  /\ WF_M!vars(focus = "mount" /\ M!NotifyReturns)

MCSpec ==
  /\ MCInit
  /\ [][MCNext]_<<focus, vars, invalVars, noticeVars, connVars, mountVars>>
  /\ MCFairness

(* No change is lost on its way to a cache.  What a session that only reads *)
(* is due is queued for it, or an overflow that stands for it is; the       *)
(* change log's queue keeps a slot for every record, within its bound       *)
(* (watch.rs, ChangeLog, Pending and for_session).  And what the server     *)
(* reported changed and the kernel may still have is queued for the         *)
(* notifier, or a sweep that covers it is queued or owed (invalidate.rs,    *)
(* translate).                                                              *)
ChangesCovered == ReaderMissesNothing /\ RecordsHaveSlots /\ I!StaleIsCovered

(* What a user is told of is what happened, and once.  No threshold of a    *)
(* session's handles is passed without a notice (Handles::insert and        *)
(* remove); an outage is announced at most once (conn.rs,                   *)
(* announce_outages); and what a sweep over the addresses fails with is the *)
(* worst that any address answered (connect_any).                           *)
ToldAsItIs == N!NoCrossingMissed /\ C!OutageToldOnce /\ C!ReasonKept

(* Work that was accepted is done, also while the invalidator is stopping,  *)
(* and dropping the invalidator returns (notifier_loop, Invalidator::drop). *)
WorkIsDone == I!WorkIsDone /\ I!DropReturns

(* A threshold that the handles hover at is reported once, and a notice     *)
(* pending while a connection is up is sent or withdrawn (Handles::insert,  *)
(* Handles::remove, forward_events).                                        *)
NoticeGoesOut == N!HoveringIsQuiet /\ N!NoticeGoesOut

(* An outage that lasts is announced (conn.rs, announce_outages).           *)
OutageTold == C!OutageTold

(* A stop signal during the unmount ends the client, whatever the server,   *)
(* the notifier and the programs on the mount do, if the mount's control    *)
(* file is known (main.rs, Aborter::abort, Mount::unmount).                 *)
SecondSignalEnds == M!SecondSignalEnds
=============================================================================
