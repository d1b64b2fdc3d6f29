------------------------------ MODULE Interrupts ------------------------------
(***************************************************************************)
(* FUSE_INTERRUPT on the client (fuse.rs interrupt, signals.rs, client.rs  *)
(* RequestKernel).  The kernel interrupts a request once, when the thread  *)
(* blocked in it has a signal pending or has only been given task work;    *)
(* the client honours what stands for a signal and watches for a real one  *)
(* after an interrupt that stood for none.  Each request is the one its    *)
(* thread is blocked in; the threads are those of one process.             *)
(***************************************************************************)
EXTENDS Naturals

CONSTANTS
    Req,      \* requests, each of a thread of its own
    Threads   \* the kinds of thread, of {"plain", "io_worker", "unnamed"}

VARIABLES
    enabled,  \* Judge.enabled
    kind,     \* [Req -> Threads]: the thread blocked in it; an "unnamed" one has tid 0
    req,      \* [Req -> "none" | "spawned" | "running" | "replied" | "answered" | "EINTR"]
    latch,    \* [Req -> BOOLEAN]: RequestKernel.interrupt
    own,      \* [Req -> BOOLEAN]: a signal is pending for the thread, unblocked
    shared,   \* a signal is pending for the process
    work,     \* [Req -> BOOLEAN]: the thread has task work pending
    irq,      \* [Req -> where its FUSE_INTERRUPT is]
    counted,  \* ghost: [Req -> BOOLEAN]: Slowpath::Interrupt was counted for it
    owed      \* ghost: [Req -> BOOLEAN]: something since its arrival warrants EINTR

vars == <<enabled, kind, req, latch, own, shared, work, irq, counted, owed>>
signals == <<own, shared, work>>
fixed == <<enabled, kind>>

Init ==
    /\ enabled \in BOOLEAN
    /\ kind \in [Req -> Threads]
    /\ req = [r \in Req |-> "none"]
    /\ latch = [r \in Req |-> FALSE]
    /\ own = [r \in Req |-> FALSE] /\ shared = FALSE /\ work = [r \in Req |-> FALSE]
    /\ irq = [r \in Req |-> "unsent"]
    /\ counted = [r \in Req |-> FALSE]
    /\ owed = [r \in Req |-> FALSE]

Pending(r) == own[r] \/ shared
Blocked(r) == req[r] \in {"spawned", "running"}

\* The request is held by the table or by the task answering it, so a weak reference upgrades;
\* the table and the task let go only after the kernel has its answer.
Held(r) == req[r] \in {"spawned", "running", "replied"}

-----------------------------------------------------------------------------
(* The kernel and the callers. *)

\* A signal pending before the request was sent does not stop it being sent.
Warranted(r) == Pending(r) \/ ~enabled \/ kind[r] # "plain"

\* Backend::spawn registers the request before anything else is read from /dev/fuse.
Spawn(r) ==
    /\ req[r] = "none"
    /\ req' = [req EXCEPT ![r] = "spawned"]
    /\ owed' = [owed EXCEPT ![r] = Warranted(r)]
    /\ UNCHANGED <<fixed, latch, signals, irq, counted>>

SignalThread(r) ==
    /\ Blocked(r) /\ ~own[r]
    /\ own' = [own EXCEPT ![r] = TRUE]
    /\ owed' = [owed EXCEPT ![r] = TRUE]
    /\ UNCHANGED <<fixed, req, latch, shared, work, irq, counted>>

SignalProcess ==
    /\ ~shared
    /\ shared' = TRUE
    /\ owed' = [r \in Req |-> owed[r] \/ Blocked(r)]
    /\ UNCHANGED <<fixed, req, latch, own, work, irq, counted>>

\* A thread that is not blocked here takes the process's signal.
TakenElsewhere ==
    /\ shared
    /\ shared' = FALSE
    /\ UNCHANGED <<fixed, req, latch, own, work, irq, counted, owed>>

\* An io_uring completion, a freezer, a tracer's stop.
TaskWork(r) ==
    /\ Blocked(r) /\ ~work[r]
    /\ work' = [work EXCEPT ![r] = TRUE]
    /\ UNCHANGED <<fixed, req, latch, own, shared, irq, counted, owed>>

\* The kernel queues the one interrupt a request gets.
Queue(r) ==
    /\ Blocked(r) /\ irq[r] = "unsent" /\ (Pending(r) \/ work[r])
    /\ irq' = [irq EXCEPT ![r] = "queued"]
    /\ UNCHANGED <<fixed, req, latch, signals, counted, owed>>

-----------------------------------------------------------------------------
(* The task answering the request. *)

Run(r) ==
    /\ req[r] = "spawned"
    /\ req' = [req EXCEPT ![r] = "running"]
    /\ UNCHANGED <<fixed, latch, signals, irq, counted, owed>>

\* The thread is let go with its answer and takes whatever signal was pending.
Unblock(r) ==
    /\ own' = [own EXCEPT ![r] = FALSE]
    /\ work' = [work EXCEPT ![r] = FALSE]
    /\ UNCHANGED shared

\* The server's answer, or one that needs no call.
Reply(r) ==
    /\ req[r] = "running"
    /\ req' = [req EXCEPT ![r] = "replied"]
    /\ Unblock(r)
    /\ UNCHANGED <<fixed, latch, irq, counted, owed>>

\* give_up and interruptible: the call in progress, or the next one, fails at once.
GiveUp(r) ==
    /\ req[r] = "running" /\ latch[r]
    /\ req' = [req EXCEPT ![r] = "EINTR"]
    /\ Unblock(r)
    /\ UNCHANGED <<fixed, latch, irq, counted, owed>>

\* The table (Registered::finish) and the task let go of the request.
Finish(r) ==
    /\ req[r] = "replied"
    /\ req' = [req EXCEPT ![r] = "answered"]
    /\ UNCHANGED <<fixed, latch, signals, irq, counted, owed>>

-----------------------------------------------------------------------------
(* The interrupt. *)

\* interrupt: read on the session thread, it looks the request up in the table; one already
\* answered is ignored.
Interrupt(r) ==
    /\ irq[r] = "queued"
    /\ irq' = [irq EXCEPT ![r] = IF Held(r) THEN "judging" ELSE "over"]
    /\ UNCHANGED <<fixed, req, latch, signals, counted, owed>>

\* Judge::verdict of what /proc shows now: what cannot be judged is honoured.  A thread that is
\* no longer blocked here may be gone, or its id another's, so its verdict is any.
Verdict(r, shown) ==
    IF ~enabled \/ kind[r] = "unnamed" THEN {TRUE}
    ELSE IF Blocked(r) THEN {shown} ELSE BOOLEAN

(* mutant of Stands: the thread's task work counts as a signal *)
StandsForWork(r) == Verdict(r, Pending(r) \/ work[r] \/ kind[r] = "io_worker")

\* Judge::stands
Stands(r) == Verdict(r, Pending(r) \/ kind[r] = "io_worker")

\* Judge::signal_came
SignalCame(r) == Verdict(r, Pending(r))

\* The verdict, read on the blocking pool.
Judge(r) ==
    /\ irq[r] = "judging"
    /\ \E stands \in Stands(r) : irq' = [irq EXCEPT ![r] = IF stands THEN "stands" ELSE "ignored"]
    /\ UNCHANGED <<fixed, req, latch, signals, counted, owed>>

(* mutant of Honour: the request is interrupted before the interrupt is counted *)
HonourUncounted(r) ==
    /\ irq[r] \in {"stands", "count"}
    /\ IF irq[r] = "stands" /\ Held(r)
       THEN /\ latch' = [latch EXCEPT ![r] = TRUE]
            /\ irq' = [irq EXCEPT ![r] = "count"]
            /\ UNCHANGED counted
       ELSE /\ counted' = [counted EXCEPT ![r] = irq[r] = "count"]
            /\ irq' = [irq EXCEPT ![r] = "over"]
            /\ UNCHANGED latch
    /\ UNCHANGED <<fixed, req, signals, owed>>

\* The interrupt stands: it is counted, and then the request interrupted.
Honour(r) ==
    /\ irq[r] \in {"stands", "latch"}
    /\ IF irq[r] = "stands" /\ Held(r)
       THEN /\ counted' = [counted EXCEPT ![r] = TRUE]
            /\ irq' = [irq EXCEPT ![r] = "latch"]
            /\ UNCHANGED latch
       ELSE /\ latch' = [latch EXCEPT ![r] = irq[r] = "latch"]
            /\ irq' = [irq EXCEPT ![r] = "over"]
            /\ UNCHANGED counted
    /\ UNCHANGED <<fixed, req, signals, owed>>

(* mutant of Ignore: the kernel is taken to interrupt again when a signal comes *)
IgnoreForGood(r) ==
    /\ irq[r] = "ignored"
    /\ counted' = [counted EXCEPT ![r] = Held(r)]
    /\ irq' = [irq EXCEPT ![r] = "over"]
    /\ UNCHANGED <<fixed, req, latch, signals, owed>>

\* The interrupt stood for no signal: it is counted, and a watcher takes over.
Ignore(r) ==
    /\ irq[r] = "ignored"
    /\ counted' = [counted EXCEPT ![r] = Held(r)]
    /\ irq' = [irq EXCEPT ![r] = IF Held(r) THEN "watching" ELSE "over"]
    /\ UNCHANGED <<fixed, req, latch, signals, owed>>

\* Every RECHECK the watcher looks again, until the request is answered or a signal has come.
Watch(r) ==
    /\ irq[r] = "watching"
    /\ IF ~Held(r)
       THEN irq' = [irq EXCEPT ![r] = "over"] /\ UNCHANGED latch
       ELSE \E came \in SignalCame(r) :
                /\ latch' = [latch EXCEPT ![r] = @ \/ came]
                /\ irq' = [irq EXCEPT ![r] = IF came THEN "over" ELSE @]
    /\ UNCHANGED <<fixed, req, signals, counted, owed>>

Client(r) ==
    \/ Run(r) \/ GiveUp(r) \/ Finish(r)
    \/ Interrupt(r) \/ Judge(r) \/ Honour(r) \/ Ignore(r) \/ Watch(r)

Next ==
    \/ \E r \in Req : \/ Spawn(r) \/ SignalThread(r) \/ TaskWork(r) \/ Queue(r) \/ Reply(r)
                      \/ Client(r)
    \/ SignalProcess \/ TakenElsewhere

\* The kernel queues an interrupt that is due and the client's tasks run; nothing makes the
\* server answer, a caller's signal come or anyone take it.
Fairness ==
    \A r \in Req : /\ WF_vars(Queue(r)) /\ WF_vars(Run(r)) /\ WF_vars(GiveUp(r))
                   /\ WF_vars(Interrupt(r)) /\ WF_vars(Judge(r)) /\ WF_vars(Honour(r))
                   /\ WF_vars(Ignore(r)) /\ WF_vars(Watch(r))

Spec == Init /\ [][Next]_vars /\ Fairness

-----------------------------------------------------------------------------
\* A call fails with EINTR only if, since its request arrived, a signal was pending for its
\* thread, or the thread is an io_uring worker, or the interrupt could not be judged; an io_uring
\* completion alone never ends one (fuse.rs interrupt, signals.rs).  The interrupt has been
\* counted by then, so a caller that looks at the counts finds it there.
EintrIsOwed == \A r \in Req : req[r] = "EINTR" => owed[r] /\ counted[r]

\* No thread stays blocked in a request with a signal pending for it: the kernel's one interrupt
\* of a request may have come earlier and stood for no signal, and the server may never answer
\* (fuse.rs interrupt's watcher).
SignalEnds == \A r \in Req : []<>~(Blocked(r) /\ Pending(r))
=============================================================================
