----------------------------- MODULE MountLife ----------------------------
(* The client process from its start to its exit: main and its signals      *)
(* (client/src/main.rs), the mount it starts and takes down                 *)
(* (client/src/mount.rs).  The kernel's side of the mount, and the umount   *)
(* of the vendored fuser, are external.                                     *)
EXTENDS Naturals

Signal == {"term", "int"}

VARIABLES
    main,      \* where main is
    sig,       \* stop signals it has yet to take; two of a kind are one
    root,      \* it runs as root, who may call umount2
    control,   \* the path of the mount's control file is known
    mnt,       \* the kernel's mount: none, attached, detached (lazily), gone
    used,      \* a program has a file of it open
    pending,   \* a kernel request waits for its answer
    aborted,   \* the FUSE connection was aborted
    over,      \* session_over: the session thread has returned
    busy,      \* the notifier thread is inside a call into the kernel
    closed,    \* the client was told to stop
    second     \* history: a stop signal has come during the unmount

kernel == <<mnt, used, pending, over>>
fixed == <<root, control>>
vars == <<main, sig, fixed, kernel, aborted, busy, closed>>

Init ==
    /\ main = "connecting" /\ sig = {}
    /\ root \in BOOLEAN /\ control \in BOOLEAN
    /\ mnt = "none" /\ used = FALSE /\ pending = FALSE /\ over = FALSE
    /\ aborted = FALSE /\ busy = FALSE /\ closed = FALSE /\ second = FALSE

---------------------------------------------------------------------------
Signalled(s) ==
    /\ s \notin sig /\ main # "exited"
    /\ sig' = sig \cup {s}
    /\ UNCHANGED <<main, fixed, kernel, aborted, busy, closed>>

(* The first connection is waited for; signals are taken note of, but not   *)
(* looked at until the mount is up.                                         *)
Connected ==
    /\ main = "connecting"
    /\ main' \in {"mounting", "exited"}
    /\ UNCHANGED <<sig, fixed, kernel, aborted, busy, closed>>

(* Mount::start: the kernel mount, then the invalidator and the watchdog.   *)
(* If the watchdog cannot be started the mount goes down with the session.  *)
MountStarts ==
    /\ main = "mounting"
    /\ \/ main' = "up" /\ mnt' = "attached" /\ UNCHANGED closed
       \/ main' = "exited" /\ closed' = TRUE /\ UNCHANGED mnt
    /\ UNCHANGED <<sig, fixed, used, pending, over, aborted, busy>>

(* The loop of main ends: a stop signal, or the session ended by itself.    *)
LeavesLoop ==
    /\ main = "up"
    /\ main' = "umount"
    /\ \/ \E s \in sig : sig' = sig \ {s}
       \/ over /\ UNCHANGED sig
    /\ UNCHANGED <<fixed, kernel, aborted, busy, closed>>

(* umount_and_join: as root by umount2, which fails if a file is in use or  *)
(* the mount point detached already; otherwise by a lazy unmount.  On an    *)
(* error the session thread is not joined, and the rest of unmount is done  *)
(* all the same.                                                            *)
Umount ==
    /\ main = "umount"
    /\ IF over THEN main' = "join" /\ UNCHANGED mnt
       ELSE IF ~root THEN main' = "join" /\ mnt' = "detached"
       ELSE IF mnt = "detached" \/ used THEN main' = "invalidator" /\ UNCHANGED mnt
       ELSE ~pending /\ main' = "join" /\ mnt' = "gone"
    /\ UNCHANGED <<sig, fixed, used, pending, over, aborted, busy, closed>>

Join ==
    /\ main = "join" /\ over
    /\ main' = "invalidator"
    /\ UNCHANGED <<sig, fixed, kernel, aborted, busy, closed>>

(* The notifier is joined; then the watchdog; then the last report, whose   *)
(* listing can wait on a request of this mount, is awaited.                 *)
Stops ==
    /\ \/ main = "invalidator" /\ ~busy /\ main' = "watchdog"
       \/ main = "watchdog" /\ main' = "report"
       \/ main = "report" /\ ~pending /\ main' = "shutdown"
    /\ UNCHANGED <<sig, fixed, kernel, aborted, busy, closed>>

(* Client::shutdown, every wait of which has a deadline.                    *)
Shutdown ==
    /\ \/ main = "shutdown" /\ main' = "closing"
       \/ main = "closing" /\ main' = "exited"
    /\ closed' = TRUE
    /\ UNCHANGED <<sig, fixed, kernel, aborted, busy>>

Unmounting == main \in {"umount", "join", "invalidator", "watchdog", "report", "shutdown", "closing"}

(* mutant of Abort: the control file is looked up in the mount, which has   *)
(* let go of it by its last report.                                         *)
AbortLate ==
    /\ Unmounting /\ sig # {} /\ ~aborted
    /\ aborted' = (control /\ main \notin {"report", "shutdown", "closing"})
    /\ sig' = {}
    /\ UNCHANGED <<main, fixed, kernel, busy, closed>>

(* A stop signal during unmount aborts the connection, through the path     *)
(* taken beforehand, if it is known; main then only waits for unmount.      *)
Abort ==
    /\ Unmounting /\ sig # {} /\ ~aborted
    /\ aborted' = control
    /\ sig' = {}
    /\ UNCHANGED <<main, fixed, kernel, busy, closed>>

---------------------------------------------------------------------------
(* The kernel, the programs on the mount, and the notifier's calls.         *)
Mounted == mnt \in {"attached", "detached"} /\ ~over /\ ~aborted /\ main # "exited"

Use ==
    /\ Mounted /\ (used \/ mnt = "attached")
    /\ used' = ~used
    /\ UNCHANGED <<main, sig, fixed, mnt, pending, over, aborted, busy, closed>>

Request ==
    /\ Mounted /\ ~pending
    /\ pending' = TRUE
    /\ UNCHANGED <<main, sig, fixed, mnt, used, over, aborted, busy, closed>>

Answered ==
    /\ pending
    /\ pending' = FALSE
    /\ UNCHANGED <<main, sig, fixed, mnt, used, over, aborted, busy, closed>>

LazyUnmount ==
    /\ mnt = "attached" /\ main \in {"up", "umount"}
    /\ mnt' = "detached"
    /\ UNCHANGED <<main, sig, fixed, used, pending, over, aborted, busy, closed>>

SessionEnds ==
    /\ ~over
    /\ aborted \/ mnt = "gone" \/ (mnt = "detached" /\ ~used /\ ~pending)
    /\ over' = TRUE /\ mnt' = "gone" /\ used' = FALSE
    /\ UNCHANGED <<main, sig, fixed, pending, aborted, busy, closed>>

(* An aborted connection fails the request that was pending.                *)
AbortFails == aborted /\ Answered

(* A call of the notifier waits while a request does.                       *)
NotifyBegins ==
    /\ ~busy /\ main \in {"up", "umount", "join"} /\ Mounted
    /\ busy' = TRUE
    /\ UNCHANGED <<main, sig, fixed, kernel, aborted, closed>>

NotifyReturns ==
    /\ busy /\ ~pending
    /\ busy' = FALSE
    /\ UNCHANGED <<main, sig, fixed, kernel, aborted, closed>>

Next ==
    /\ \/ \E s \in Signal : Signalled(s)
       \/ Connected \/ MountStarts \/ LeavesLoop \/ Umount \/ Join \/ Stops \/ Shutdown \/ Abort
       \/ Use \/ Request \/ Answered \/ LazyUnmount \/ SessionEnds
       \/ NotifyBegins \/ NotifyReturns
    /\ second' = (second \/ (Unmounting /\ sig # {})')

(* Main runs; the kernel fails the requests of an aborted connection, lets  *)
(* go of who waits for them and ends its session.  Nothing makes the server *)
(* answer, a program close its files or a signal come.                      *)
Fairness ==
    /\ WF_vars(LeavesLoop) /\ WF_vars(Umount) /\ WF_vars(Join) /\ WF_vars(Stops) /\ WF_vars(Shutdown)
    /\ WF_vars(Abort)
    /\ WF_vars(SessionEnds) /\ WF_vars(AbortFails) /\ WF_vars(NotifyReturns)

Spec == Init /\ [][Next]_<<vars, second>> /\ Fairness

---------------------------------------------------------------------------
(* A stop signal during the unmount ends the client, whatever the server,   *)
(* the notifier and the programs on the mount do, if the mount's control    *)
(* file is known (main.rs, Aborter::abort, Mount::unmount).                 *)
SecondSignalEnds == []<>(second /\ control => main = "exited")
===========================================================================
