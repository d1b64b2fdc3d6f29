---------------------------- MODULE FileCaches ----------------------------
(* What the client keeps about a regular file beside its node: the size and *)
(* mtime the server last reported, the xattr names it last listed, and the  *)
(* handles open on it (client/src/fuse.rs, Shared; client/src/handles.rs).  *)
(* The kernel caches writes and trusts its own size and mtime for a file it *)
(* holds, so the client has to notice that a file changed behind it and to  *)
(* take the file away by name.  Replies come in any order.                  *)
EXTENDS Integers, Sequences, FiniteSets

CONSTANTS
    Req,          \* requests in flight at once
    Fh,           \* handles
    Xattr,        \* names of extended attributes
    QueueRoom,    \* QUEUE, of the invalidations waiting for the notifier
    MaxVer,       \* bound: changes of the file
    MaxRequests   \* bound: requests made

None == -1   \* no record, no inode
Mine == -2   \* the kernel's own size and mtime, of a file written here

VARIABLES
    ver,       \* the server's size and mtime, as a number
    names,     \* the server's xattr names of the file
    kview,     \* the size and mtime the kernel has for it, None if it has no inode
    linked,    \* the kernel has the inode under its name
    kopen,     \* the handles open in the kernel
    kcount,    \* the kernel's lookups
    forgets,   \* those it is telling the client to forget
    lookups,   \* Node.lookup_count
    live,      \* HandleTable: the mode of each handle recorded, or "none"
    dead,      \* those that a reconnect found stale
    reported,  \* Shared.reported of the node
    xattrs,    \* Shared.xattrs of the node while fresh: {} or the set of the names known
    queue,     \* entry invalidations waiting
    task,
    asked,
    late,      \* history: xattrs is from a reply that a change here overtook
    missed     \* history: the kernel kept an inode it should have lost

vars == <<ver, names, kview, linked, kopen, kcount, forgets, lookups, live, dead, reported, xattrs, queue,
          task, asked, late, missed>>

Idle == [op |-> "none"]
Busy == {r \in Req : task[r] # Idle}

(* Tasks are alike: a request is given the first that has nothing to do.    *)
FirstIdle == CHOOSE r \in Req \cup {"none"} : IF Busy = Req THEN r = "none" ELSE r \in Req \ Busy

Init ==
    /\ ver = 0 /\ names = {}
    /\ kview = None /\ linked = FALSE /\ kopen = {} /\ kcount = 0 /\ forgets = 0
    /\ lookups = 0 /\ live = [h \in Fh |-> "none"] /\ dead = {}
    /\ reported = None /\ xattrs = {} /\ queue = 0
    /\ task = [r \in Req |-> Idle]
    /\ asked = 0 /\ late = FALSE /\ missed = FALSE

kernel == <<kview, linked, kopen, kcount, forgets>>
server == <<ver, names>>
client == <<lookups, live, dead, reported, xattrs, queue>>
history == <<late, missed>>

any_live == \E h \in Fh \ dead : live[h] # "none"

---------------------------------------------------------------------------
(* The kernel's requests.  It looks a name up when it has no inode under    *)
(* it, once at a time, and makes one change at a time under the inode's lock. *)
Changes == {"chmod", "truncate", "setxattr", "removexattr"}

Ask(r, t) ==
    /\ asked' = asked + 1
    /\ task' = [task EXCEPT ![r] = t]

Request(op, h) == [op |-> op, at |-> "sent", fh |-> h, got |-> None, known |-> {}, late |-> FALSE,
                   over |-> kview # None]

AskAttr(r, op) ==
    /\ IF op = "lookup" THEN ~linked /\ \A s \in Busy : task[s].op # "lookup"
       ELSE linked \/ kopen # {}
    /\ op \in Changes => \A s \in Busy : task[s].op \notin Changes
    /\ Ask(r, Request(op, None))
    /\ UNCHANGED <<server, kernel, client, history>>

(* A handle is a number not in use, and numbers are alike.                  *)
Free == {h \in Fh : h \notin kopen /\ live[h] = "none" /\ ~\E s \in Busy : task[s].fh = h}

AskOpen(r, mode) ==
    /\ linked /\ Free # {}
    /\ Ask(r, Request(mode, CHOOSE h \in Free : TRUE))
    /\ UNCHANGED <<server, kernel, client, history>>

(* The last close of a handle; its inode is not held by it from then on.    *)
AskRelease(r, h) ==
    /\ h \in kopen /\ kopen' = kopen \ {h}
    /\ ~\E s \in Busy : task[s].fh = h
    /\ Ask(r, Request("release", h))
    /\ UNCHANGED <<server, kview, linked, kcount, forgets, client, history>>

(* Written pages reach the server.                                          *)
Write(h) ==
    /\ h \in kopen \ dead /\ live[h] = "write" /\ ver < MaxVer
    /\ ver' = ver + 1 /\ kview' = Mine
    /\ UNCHANGED <<names, linked, kopen, kcount, forgets, client, task, asked, history>>

(* The client is told what the kernel forgot.                               *)
ForgetReported ==
    /\ forgets > 0 /\ forgets' = 0
    /\ lookups' = lookups - forgets
    /\ IF lookups' = 0 THEN reported' = None /\ xattrs' = {} ELSE UNCHANGED <<reported, xattrs>>
    /\ UNCHANGED <<server, kview, linked, kopen, kcount, live, dead, queue, task, asked, history>>

---------------------------------------------------------------------------
(* The server.                                                              *)
OtherWrites ==
    /\ ver < MaxVer /\ ver' = ver + 1
    /\ UNCHANGED <<names, kernel, client, task, asked, history>>

Serve(r) ==
    LET t == task[r] IN
    /\ t.at = "sent" /\ t.op # "release"
    /\ names' = CASE t.op = "setxattr" -> Xattr [] t.op = "removexattr" -> {} [] OTHER -> names
    /\ IF t.op = "truncate" THEN ver < MaxVer /\ ver' = ver + 1 ELSE UNCHANGED ver
    /\ task' = [task EXCEPT ![r].at = "served", ![r].got = ver', ![r].known = names']
    /\ UNCHANGED <<kernel, client, asked, history>>

---------------------------------------------------------------------------
(* The client.                                                              *)
Told(r) == task' = [task EXCEPT ![r].at = "told"]

(* xattr_remember, of attributes that say which names there are.            *)
Remember(t) == xattrs' = {t.known} /\ late' = t.late

(* mutant of Noted: the record moves whether or not the file was dropped.   *)
NotedAtOnce(r) ==
    /\ reported' = task[r].got
    /\ IF reported = None \/ reported = task[r].got \/ any_live THEN Told(r)
       ELSE task' = [task EXCEPT ![r].at = "drop"]

(* attr_reported: the first report is recorded; one that differs, of a file *)
(* not open here, must take the file from the kernel first.                 *)
Noted(r) ==
    IF reported = None THEN reported' = task[r].got /\ Told(r)
    ELSE /\ UNCHANGED reported
         /\ IF reported = task[r].got \/ any_live THEN Told(r)
            ELSE task' = [task EXCEPT ![r].at = "drop"]

(* A reply with attributes.  register counts a lookup before anything else. *)
Reported(r) ==
    LET t == task[r] IN
    /\ t.at = "served" /\ t.op \in {"lookup", "getattr", "chmod"}
    /\ lookups' = IF t.op = "lookup" THEN lookups + 1 ELSE lookups
    /\ Remember(t)
    /\ Noted(r)
    /\ UNCHANGED <<server, kernel, live, dead, queue, asked, missed>>

(* An open's handle is recorded before its attributes are.                  *)
Opened(r) ==
    LET t == task[r] IN
    /\ t.at = "served" /\ t.op \in {"read", "write"}
    /\ live' = [live EXCEPT ![t.fh] = t.op] /\ UNCHANGED dead
    /\ Remember(t)
    /\ reported' = IF reported = None THEN t.got ELSE reported
    /\ Told(r)
    /\ UNCHANGED <<server, kernel, lookups, queue, asked, missed>>

(* setattr of size or mtime: our own change, so only the record moves.      *)
Truncated(r) ==
    LET t == task[r] IN
    /\ t.at = "served" /\ t.op = "truncate"
    /\ Remember(t)
    /\ reported' = t.got
    /\ Told(r)
    /\ UNCHANGED <<server, kernel, lookups, live, dead, queue, asked, missed>>

(* mutant of XattrChanged: what was known is kept.                          *)
XattrChangedKept(r) ==
    /\ task[r].at = "served" /\ task[r].op \in {"setxattr", "removexattr"}
    /\ Told(r)
    /\ UNCHANGED <<server, kernel, client, asked, history>>

(* setxattr, removexattr: whatever the outcome, what was known is forgotten.*)
XattrChanged(r) ==
    /\ task[r].at = "served" /\ task[r].op \in {"setxattr", "removexattr"}
    /\ xattrs' = {}
    /\ late' = FALSE
    /\ task' = [s \in Req |-> CASE s = r -> [task[s] EXCEPT !.at = "told"]
                               [] s \in Busy \ {r} -> [task[s] EXCEPT !.late = @ \/ task[s].at = "served"]
                               [] OTHER -> Idle]
    /\ UNCHANGED <<server, kernel, lookups, live, dead, reported, queue, asked, missed>>

(* drop_by_name: no name to drop if the node is gone.                       *)
drop_by_name ==
    IF lookups = 0 THEN UNCHANGED queue ELSE queue < QueueRoom /\ queue' = queue + 1

Drop(r) ==
    /\ task[r].at = "drop"
    /\ \/ drop_by_name /\ task' = [task EXCEPT ![r].at = "dropped"]
       \/ lookups > 0 /\ queue = QueueRoom /\ UNCHANGED queue /\ Told(r)
    /\ UNCHANGED <<server, kernel, lookups, live, dead, reported, xattrs, asked, history>>

(* The record moves once the invalidation is queued.                        *)
Move(r) ==
    /\ task[r].at = "dropped"
    /\ reported' = task[r].got
    /\ Told(r)
    /\ UNCHANGED <<server, kernel, lookups, live, dead, xattrs, queue, asked, history>>

(* release: the record of the handle goes first, then the server is told.   *)
(* unless the handle is dead.  If that fails nothing more happens.          *)
ReleaseBegins(r) ==
    LET t == task[r] IN
    /\ t.op = "release" /\ t.at = "sent"
    /\ live' = [live EXCEPT ![t.fh] = "none"] /\ dead' = dead \ {t.fh}
    /\ \E at \in (IF live[t.fh] # "write" THEN {"told"} ELSE IF t.fh \in dead THEN {"released"}
                   ELSE {"told", "released"}) : task' = [task EXCEPT ![r].at = at]
    /\ UNCHANGED <<server, kernel, lookups, reported, xattrs, queue, asked, history>>

(* The last handle of a file written here: the record goes, and the file by *)
(* name, if there is room.                                                  *)
Released(r) ==
    /\ task[r].at = "released"
    /\ IF any_live THEN UNCHANGED <<reported, queue, missed>>
       ELSE /\ reported' = None
            /\ \/ drop_by_name /\ UNCHANGED missed
               \/ lookups > 0 /\ queue = QueueRoom /\ UNCHANGED queue /\ missed' = TRUE
    /\ Told(r)
    /\ UNCHANGED <<server, kernel, lookups, live, dead, xattrs, asked, late>>

(* The kernel has its answer.  Attributes fill an inode that is new; one it *)
(* holds keeps its own, whether or not it had lost its name.                *)
Reply(r) ==
    LET t == task[r]
        found == t.op = "lookup"
    IN
    /\ t.at = "told"
    /\ kview' = IF (found /\ kview = None) \/ (t.op = "truncate" /\ kview # None)
                THEN t.got ELSE kview
    /\ linked' = (linked \/ found)
    /\ kcount' = IF found THEN kcount + 1 ELSE kcount
    /\ kopen' = IF t.op \in {"read", "write"} THEN kopen \cup {t.fh} ELSE kopen
    /\ missed' = (missed \/ (found /\ t.over))
    /\ task' = [task EXCEPT ![r] = Idle]
    /\ UNCHANGED <<server, forgets, client, asked, late>>

(* A reconnect finds a handle stale.                                        *)
Kill(h) ==
    /\ live[h] # "none" /\ dead' = dead \cup {h}
    /\ h \notin dead
    /\ UNCHANGED <<server, kernel, lookups, live, reported, xattrs, queue, task, asked, history>>

(* A data event for the node: its names are dropped too.                    *)
DataEvent ==
    /\ lookups > 0 /\ queue < QueueRoom
    /\ queue' = queue + 1 /\ xattrs' = {}
    /\ UNCHANGED <<server, kernel, lookups, live, dead, reported, task, asked, history>>

(* The notifier takes the name from the inode.                              *)
InvalEntry ==
    /\ queue > 0 /\ queue' = queue - 1
    /\ linked' = FALSE
    /\ UNCHANGED <<server, kview, kopen, kcount, forgets, lookups, live, dead, reported, xattrs,
                   task, asked, history>>

(* The kernel lets go of an inode with no name once nothing holds it.       *)
Evictable == kview # None /\ ~linked /\ kopen = {} /\ \A r \in Busy : task[r].op = "lookup"

Evict ==
    /\ Evictable
    /\ kview' = None /\ kcount' = 0 /\ forgets' = forgets + kcount
    /\ missed' = FALSE
    /\ UNCHANGED <<server, linked, kopen, client, task, asked, late>>

(* The attribute TTL passes.                                                *)
XattrsExpire ==
    /\ xattrs # {} /\ xattrs' = {}
    /\ late' = FALSE
    /\ UNCHANGED <<server, kernel, lookups, live, dead, reported, queue, task, asked, missed>>

Next ==
    \/ \E r \in Req :
         \/ /\ asked < MaxRequests /\ r = FirstIdle
            /\ \/ \E op \in Changes \cup {"lookup", "getattr"} : AskAttr(r, op)
               \/ \E mode \in {"read", "write"} : AskOpen(r, mode)
               \/ \E h \in Fh : AskRelease(r, h)
         \/ /\ r \in Busy
            /\ \/ Serve(r) \/ Reported(r) \/ Opened(r) \/ Truncated(r) \/ XattrChanged(r)
               \/ Drop(r) \/ Move(r) \/ ReleaseBegins(r) \/ Released(r) \/ Reply(r)
    \/ \E h \in Fh : Write(h) \/ Kill(h)
    \/ ForgetReported \/ OtherWrites \/ DataEvent \/ InvalEntry \/ Evict \/ XattrsExpire

Spec == Init /\ [][Next]_vars

---------------------------------------------------------------------------
Quiet == Busy = {} /\ queue = 0 /\ forgets = 0 /\ ~Evictable

(* A file that nobody holds open here and that the kernel has out of date   *)
(* is found out by the next reply about it: what was last reported is       *)
(* something else than the server's, and not nothing (fuse.rs,              *)
(* attr_reported and release).  Two exceptions: a last close that found no  *)
(* room in the queue, and a lookup made while a request or a handle kept    *)
(* the inode from going with its old name.                                  *)
StaleIsDetected ==
    Quiet /\ kview \notin {None, ver} /\ kopen = {} /\ ~missed => reported \notin {None, ver}

(* A name this client has set is not missing from what it knows of the      *)
(* file's names, and one it removed not listed, unless a reply from before  *)
(* the change was still to be applied (fuse.rs, setxattr and getxattr).     *)
OwnNamesKnown ==
    ~late /\ ~(\E r \in Busy : task[r].op \in {"setxattr", "removexattr"} /\ task[r].at # "told") => xattrs \subseteq {names}
===========================================================================
