---------------------------- MODULE ServerOps -----------------------------
(* The requests as the server runs them on its blocking pool                *)
(* (server/src/ops.rs, Ops::run, over export.rs and dirents.rs): each is a  *)
(* program of system calls, and the calls of two requests, and of other     *)
(* processes on the server's machine, interleave.  The tree is a root with  *)
(* one directory in it; a name is a number and stands at its own place in a *)
(* listing.                                                                 *)
EXTENDS Integers, Sequences, SequencesExt, FiniteSets

CONSTANTS
    Thread,
    Root, Sub, File,  \* the nodes: two directories, regular files
    MaxName,          \* names of a directory
    Paths,            \* bound: paths that requests and others name
    PageRoom,         \* max_bytes of a readdir, in entries
    XattrTries,       \* tries of xattr_read
    MaxRequests, MaxOutside  \* bounds: requests made, changes of others

Name == 1 .. MaxName
Nil == "nil"
Dir == {Root, Sub}

VARIABLES
    tree,     \* the node under each name of each directory
    attr,     \* each node's attributes: owner, setuid, size, time, and its xattr's length
    log,      \* ChangeLog: paths this session has recorded
    handles,  \* Handles: what is open, with the path it was opened by
    pos,      \* the position of the one descriptor of the root's directory handle
    lock,     \* who holds that handle's mutex
    task,
    asked, outside,
    moved,    \* history: nodes that changed names since
    echoes    \* history: changes of this session on paths it had not recorded

vars == <<tree, attr, log, handles, pos, lock, task, asked, outside, moved, echoes>>

(* A path has at most two names.  Walk follows no symlink and stays beneath *)
(* the root.                                                                *)
Walk(tr, p) ==
    CASE p = <<>> -> Root
      [] Len(p) = 1 -> tr[Root, p[1]]
      [] OTHER -> IF tr[Root, p[1]] = Sub THEN tr[Sub, p[2]] ELSE Nil

PathsOf(d) == IF d = Root THEN {<<>>} ELSE {<<n>> : n \in {m \in Name : tree[Root, m] = d}}
NamesOf(x) == {at \in Dir \X Name : tree[at] = x}
EventPaths(at) == {p \o <<at[2]>> : p \in PathsOf(at[1])}

Fresh == [owner |-> "own", suid |-> FALSE, size |-> 0, time |-> 0, xattr |-> 0]
Idle == [op |-> "none"]
Running == {t \in Thread : task[t] # Idle /\ task[t].todo # <<>>}

---------------------------------------------------------------------------
(* A request's programs.                                                    *)
If(c, s) == IF c THEN s ELSE <<>>

(* mutant of SetattrSteps: the mode before the owner.                       *)
SetattrStepsModeFirst(q, byHandle) ==
    If("mode" \in q.set, <<"chmod">>) \o If("owner" \in q.set, <<"chown">>)
    \o If("size" \in q.set, If(~byHandle, <<"file">>) \o <<"truncate">>)
    \o If("time" \in q.set, If(~byHandle, <<"dir">>) \o <<"times">>)

(* The changes of setattr in the order that leaves the mode as asked for.   *)
(* By path, the size and the times each resolve the path again.             *)
SetattrSteps(q, byHandle) ==
    If("owner" \in q.set, <<"chown">>) \o If("mode" \in q.set, <<"chmod">>)
    \o If("size" \in q.set, If(~byHandle, <<"file">>) \o <<"truncate">>)
    \o If("time" \in q.set, If(~byHandle, <<"dir">>) \o <<"times">>)

(* mutant of ChangeProgram: the record is made once the change is.          *)
ChangeProgramLate(q) == <<"dir">> \o If(q.op \in {"rename", "link"}, <<"dir2">>) \o <<q.op, "record">>

(* mknod, mkdir, symlink, unlink, rmdir, rename, link.                      *)
ChangeProgram(q) == <<"dir">> \o If(q.op \in {"rename", "link"}, <<"dir2">>) \o <<"record", q.op>>

(* Open and Create: an open that truncates is recorded as a change is; the   *)
(* handle is kept last.                                                     *)
OpenProgram(q) ==
    IF q.op = "create" THEN <<"record", "dir", "create", "attr", "keep">>
    ELSE If("size" \in q.set, <<"record">>) \o <<"file">>
         \o If("size" \in q.set, <<"truncate">>) \o <<"attr", "keep">>

(* Write, CopyFileRange and Fallocate: the path the handle was opened by is *)
(* recorded, then the file changed by one call, made again on EINTR.        *)
WriteProgram == <<"record", "write">>

(* Setxattr and Removexattr; Getxattr and Listxattr.                        *)
SetxattrProgram == <<"record", "node", "setxattr">>
GetxattrProgram == <<"node", "query", "fetch">>

(* Lookup; and Readdir, the only request on a directory's position.         *)
LookupProgram == <<"dir", "describe", "attr">>
ReaddirProgram == <<"lock", "seek", "getdents">>

Program(q) ==
    CASE q.op \in {"remove", "rename"} -> ChangeProgram(q)
      [] q.op \in {"make", "link"} -> ChangeProgram(q) \o <<"describe", "attr">>
      [] q.op \in {"open", "create"} -> OpenProgram(q)
      [] q.op = "setattr" -> <<"record", "node">> \o SetattrSteps(q, FALSE) \o <<"attr">>
      [] q.op = "fsetattr" -> <<"record">> \o SetattrSteps(q, TRUE) \o <<"attr">>
      [] q.op = "write" -> WriteProgram
      [] q.op = "setxattr" -> SetxattrProgram
      [] q.op = "getxattr" -> GetxattrProgram
      [] q.op = "lookup" -> LookupProgram
      [] q.op = "readdir" -> ReaddirProgram

(* The paths a request records: of a rename both, of a link the new one.    *)
Recorded(q) == CASE q.op = "rename" -> {q.path, q.path2} [] q.op = "link" -> {q.path2} [] OTHER -> {q.path}

Request == [op |-> "none", path |-> <<>>, path2 |-> <<>>, set |-> {}, offset |-> 0, node |-> Nil]

Begin(t, q) ==
    /\ asked' = asked + 1
    /\ task' = [task EXCEPT ![t] =
           [op |-> q.op, q |-> q, todo |-> Program(q), failed |-> FALSE, reply |-> {},
            dir |-> Nil, dir2 |-> Nil, node |-> q.node, file |-> q.node,
            need |-> 0, tries |-> XattrTries, batch |-> <<>>, raw |-> 0, ident |-> Nil, stat |-> Nil,
            page |-> <<>>, steady |-> {n \in Name : tree[Root, n] # Nil}, flips |-> 0,
            disturbed |-> FALSE]]
    /\ UNCHANGED <<tree, attr, log, handles, pos, lock, outside, moved, echoes>>

Start(t) ==
    /\ task[t] = Idle /\ asked < MaxRequests
    /\ \/ \E op \in {"make", "remove", "create", "lookup", "setxattr", "getxattr"}, p \in Paths :
            Begin(t, [Request EXCEPT !.op = op, !.path = p])
       \/ \E op \in {"rename", "link"}, p, p2 \in Paths :
            p # p2 /\ Begin(t, [Request EXCEPT !.op = op, !.path = p, !.path2 = p2])
       \/ \E p \in Paths, set \in {{}, {"size"}} : Begin(t, [Request EXCEPT !.op = "open", !.path = p, !.set = set])
       \/ \E p \in Paths, set \in {{"owner", "mode"}, {"size", "time"}} :
            \/ Begin(t, [Request EXCEPT !.op = "setattr", !.path = p, !.set = set])
            \/ \E h \in handles : h.path = p /\ Begin(t, [Request EXCEPT !.op = "fsetattr", !.path = p, !.node = h.node, !.set = set])
       \/ \E h \in handles : Begin(t, [Request EXCEPT !.op = "write", !.path = h.path, !.node = h.node])
       \/ \E o \in {0, 1} : Begin(t, [Request EXCEPT !.op = "readdir", !.offset = o])

---------------------------------------------------------------------------
(* What a step of one actor does to the requests of the others: histories.  *)
Seen(u) ==
    IF u \notin Running THEN task[u]
    ELSE [task[u] EXCEPT
            !.disturbed = @ \/ Walk(tree', task[u].q.path) # Walk(tree, task[u].q.path)
                            \/ (task[u].node # Nil /\ attr'[task[u].node] # attr[task[u].node]),
            !.steady = @ \cap {n \in Name : tree'[Root, n] = tree[Root, n]},
            !.flips = IF task[u].raw # 0 /\ tree'[Root, task[u].raw] # tree[Root, task[u].raw] THEN @ + 1 ELSE @]

Goes(t, r) == task' = [u \in Thread |-> IF u = t THEN [r EXCEPT !.todo = Tail(@)] ELSE Seen(u)]
Steps(t, r) == task' = [task EXCEPT ![t] = [r EXCEPT !.todo = Tail(@)]]
Fails(t) == task' = [task EXCEPT ![t].todo = <<>>, ![t].failed = TRUE]

At(t, s) == Head(task[t].todo) = s
where(t, s) == CASE s = "dir" -> Front(task[t].q.path) [] s = "dir2" -> Front(task[t].q.path2) [] OTHER -> task[t].q.path

(* resolve, resolve_dir, open_node.                                         *)
Resolve(t) ==
    /\ \E s \in {"dir", "dir2", "node", "file"} :
         LET x == Walk(tree, where(t, s)) IN
         /\ At(t, s)
         /\ IF x = Nil \/ (s \in {"dir", "dir2"} /\ x \notin Dir) \/ (s = "file" /\ x \in Dir) THEN Fails(t)
            ELSE Steps(t, CASE s = "dir" -> [task[t] EXCEPT !.dir = x]
                           [] s = "dir2" -> [task[t] EXCEPT !.dir2 = x]
                           [] s = "node" -> [task[t] EXCEPT !.node = x]
                           [] s = "file" -> [task[t] EXCEPT !.file = x, !.node = IF @ = Nil THEN x ELSE @])
    /\ UNCHANGED <<tree, attr, log, handles, pos, lock, asked, outside, moved, echoes>>

Record(t) ==
    /\ At(t, "record")
    /\ log' = log \cup Recorded(task[t].q)
    /\ Steps(t, task[t])
    /\ UNCHANGED <<tree, attr, handles, pos, lock, asked, outside, moved, echoes>>

(* Events of names, seen by the server's watch on the paths the names have  *)
(* by now: one not recorded is reported back to the session that made it.   *)
Raise(ats) ==
    echoes' = echoes \cup {at \in ats : /\ EventPaths(at) # {} /\ EventPaths(at) \cap log = {}
                                        /\ at[1] \notin moved}

ChangeTree(d, n, x) == tree' = [tree EXCEPT ![d, n] = x] /\ Raise({<<d, n>>})

(* The changes of the tree.                                                 *)
Apply(t) ==
    LET r == task[t]
        n == Last(r.q.path)
        n2 == Last(r.q.path2)
        x == tree[r.dir, n]
        x2 == tree[r.dir2, n2]
        unused == {f \in File : NamesOf(f) = {} /\ ~\E h \in handles : h.node = f}
    IN
    /\ \E s \in {"make", "create", "remove", "rename", "link"} : At(t, s)
    /\ CASE r.op = "make" /\ x = Nil /\ unused # {} ->
              \E f \in unused : /\ ChangeTree(r.dir, n, f) /\ UNCHANGED moved
                                /\ attr' = [attr EXCEPT ![f] = Fresh]
                                /\ Goes(t, r)
         [] r.op = "create" /\ x = Nil /\ unused # {} ->
              \E f \in unused : /\ ChangeTree(r.dir, n, f) /\ UNCHANGED moved
                                /\ attr' = [attr EXCEPT ![f] = Fresh]
                                /\ Goes(t, [r EXCEPT !.node = f, !.file = f])
         [] r.op = "create" /\ x \in File ->
              UNCHANGED <<tree, attr, moved, echoes>> /\ Goes(t, [r EXCEPT !.node = x, !.file = x])
         [] r.op = "remove" /\ x # Nil /\ (x = Sub => \A m \in Name : tree[Sub, m] = Nil) ->
              ChangeTree(r.dir, n, Nil) /\ UNCHANGED <<attr, moved>> /\ Goes(t, r)
         [] r.op = "link" /\ x \in File /\ x2 = Nil ->
              ChangeTree(r.dir2, n2, x) /\ UNCHANGED <<attr, moved>> /\ Goes(t, r)
         [] r.op = "rename" /\ x # Nil /\ x # x2 /\ (x = Sub => x2 = Nil /\ r.dir2 = Root) /\ x2 # Sub ->
              /\ tree' = [tree EXCEPT ![r.dir, n] = Nil, ![r.dir2, n2] = x]
              /\ Raise({<<r.dir, n>>, <<r.dir2, n2>>})
              /\ moved' = moved \cup {x} /\ UNCHANGED attr
              /\ Goes(t, r)
         [] OTHER -> Fails(t) /\ UNCHANGED <<tree, attr, moved, echoes>>
    /\ UNCHANGED <<log, handles, pos, lock, asked, outside>>

(* attr_in: the node now under the name.                                    *)
Describe(t) ==
    LET r == task[t]
        x == IF r.op = "link" THEN tree[r.dir2, Last(r.q.path2)] ELSE tree[r.dir, Last(r.q.path)]
    IN
    /\ At(t, "describe")
    /\ IF x = Nil THEN Fails(t) ELSE Steps(t, [r EXCEPT !.node = x])
    /\ UNCHANGED <<tree, attr, log, handles, pos, lock, asked, outside, moved, echoes>>

(* The changes of a node's own data.                                        *)
ChangeNode(t) ==
    LET r == task[t]
        s == Head(r.todo)
        x == CASE s \in {"truncate", "write"} -> r.file
               [] s = "times" /\ r.op = "setattr" -> tree[r.dir, Last(r.q.path)]
               [] OTHER -> r.node
    IN
    /\ UNCHANGED tree
    /\ t \in Running /\ s \in {"chown", "chmod", "truncate", "times", "write", "setxattr"}
    /\ IF x = Nil THEN Fails(t) /\ UNCHANGED <<attr, echoes>>
       ELSE /\ attr' = [attr EXCEPT ![x] = CASE s = "chown" -> [@ EXCEPT !.owner = "other", !.suid = FALSE]
                                             [] s = "chmod" -> [@ EXCEPT !.suid = TRUE]
                                             [] s = "times" -> [@ EXCEPT !.time = 1]
                                             [] s = "setxattr" -> [@ EXCEPT !.xattr = 1]
                                             [] OTHER -> [@ EXCEPT !.size = 1]]
            /\ Raise(NamesOf(x) \cap {at \in Dir \X Name : r.q.path \in EventPaths(at)})
            /\ Goes(t, r)
    /\ UNCHANGED <<log, handles, pos, lock, asked, outside, moved>>

(* attr_of: the pinned node's attributes are the reply.                     *)
Attr(t) ==
    /\ At(t, "attr")
    /\ Steps(t, [task[t] EXCEPT !.reply = {attr[task[t].node]}])
    /\ UNCHANGED <<tree, attr, log, handles, pos, lock, asked, outside, moved, echoes>>

(* The handle is kept, with the path it was opened by.                      *)
Keep(t) ==
    /\ At(t, "keep")
    /\ handles' = handles \cup {[node |-> task[t].file, path |-> task[t].q.path]}
    /\ Steps(t, task[t])
    /\ UNCHANGED <<tree, attr, log, pos, lock, asked, outside, moved, echoes>>

(* xattr_read: asks for the length, then for as much; a value that grew     *)
(* meanwhile is asked for again.                                            *)
XattrRead(t) ==
    LET r == task[t]
        now == attr[r.node].xattr
    IN
    /\ \/ At(t, "query") /\ Steps(t, [r EXCEPT !.need = now])
       \/ /\ At(t, "fetch")
          /\ IF now <= r.need THEN Steps(t, [r EXCEPT !.reply = {now}])
             ELSE IF r.tries = 1 THEN Fails(t)
             ELSE task' = [task EXCEPT ![t].tries = @ - 1, ![t].todo = <<"query", "fetch">>]
    /\ UNCHANGED <<tree, attr, log, handles, pos, lock, asked, outside, moved, echoes>>

(* mutant of Lock: nobody waits.                                            *)
LockAnyway(t) ==
    /\ At(t, "lock") /\ UNCHANGED lock
    /\ Steps(t, task[t])
    /\ UNCHANGED <<tree, attr, log, handles, pos, asked, outside, moved, echoes>>

(* readdir: the handle's mutex is held from the seek to the end of the      *)
(* page, since the position belongs to the descriptor.                      *)
Lock(t) ==
    /\ At(t, "lock") /\ lock = Nil
    /\ lock' = t
    /\ Steps(t, task[t])
    /\ UNCHANGED <<tree, attr, log, handles, pos, asked, outside, moved, echoes>>

Seek(t) ==
    /\ At(t, "seek")
    /\ pos' = task[t].q.offset
    /\ Steps(t, task[t])
    /\ UNCHANGED <<tree, attr, log, handles, lock, asked, outside, moved, echoes>>

Page(t, page, end) ==
    /\ task' = [task EXCEPT ![t].page = page, ![t].todo = <<>>, ![t].raw = 0, ![t].batch = <<>>,
                            ![t].reply = {end}]
    /\ lock' = Nil

(* Some names after the position, each to be described by attr_entry.       *)
Getdents(t) ==
    LET next == SetToSortSeq({n \in Name : n > pos /\ tree[Root, n] # Nil}, <) IN
    /\ At(t, "getdents")
    /\ IF next = <<>> THEN Page(t, task[t].page, TRUE) /\ UNCHANGED pos
       ELSE \E k \in 1 .. Len(next) :
              /\ pos' = next[k] /\ UNCHANGED lock
              /\ task' = [task EXCEPT ![t].batch = SubSeq(next, 2, k), ![t].raw = next[1], ![t].flips = 0,
                                      ![t].todo = <<"handle", "statx", "again">>]
    /\ UNCHANGED <<tree, attr, log, handles, asked, outside, moved, echoes>>

(* On to the next name of those read, or to read more.                      *)
Skipped(r) ==
    IF r.batch = <<>> THEN [r EXCEPT !.raw = 0, !.todo = <<"getdents">>]
    ELSE [r EXCEPT !.raw = Head(r.batch), !.batch = Tail(@), !.flips = 0, !.todo = <<"handle", "statx", "again">>]
Entry(r) == [name |-> r.raw, ident |-> r.ident, stat |-> r.stat, flips |-> r.flips]

(* mutant of SameFile: the handle is not asked for again.                   *)
SameFileAnyway(t) == TRUE

(* The name still leads to the file whose identity was taken.               *)
SameFile(t) == tree[Root, task[t].raw] = task[t].ident

(* attr_entry: the identity, the attributes, and the identity again, each   *)
(* by the name; an entry that is gone or another file is skipped.           *)
AttrEntry(t) ==
    LET r == task[t]
        x == tree[Root, r.raw]
        page == Append(r.page, Entry(r))
    IN
    /\ \/ At(t, "handle") /\ UNCHANGED lock
          /\ IF x = Nil THEN task' = [task EXCEPT ![t] = Skipped(r)] ELSE Steps(t, [r EXCEPT !.ident = x])
       \/ At(t, "statx") /\ UNCHANGED lock
          /\ IF x = Nil THEN task' = [task EXCEPT ![t] = Skipped(r)] ELSE Steps(t, [r EXCEPT !.stat = x])
       \/ At(t, "again")
          /\ IF ~SameFile(t) THEN task' = [task EXCEPT ![t] = Skipped(r)] /\ UNCHANGED lock
             ELSE IF Len(page) >= PageRoom THEN Page(t, page, FALSE)
             ELSE task' = [task EXCEPT ![t] = Skipped([r EXCEPT !.page = page])] /\ UNCHANGED lock
    /\ UNCHANGED <<tree, attr, log, handles, pos, asked, outside, moved, echoes>>

Answer(t) ==
    /\ task[t] # Idle /\ t \notin Running
    /\ task' = [task EXCEPT ![t] = Idle]
    /\ UNCHANGED <<tree, attr, log, handles, pos, lock, asked, outside, moved, echoes>>

---------------------------------------------------------------------------
(* Other processes of the server's machine.                                 *)
Places == {at \in Dir \X Name : EventPaths(at) \cap Paths # {}}

MayIntrude == outside < MaxOutside

Others ==
    /\ outside' = outside + 1
    /\ task' = [u \in Thread |-> Seen(u)]
    /\ UNCHANGED <<log, handles, pos, lock, asked, echoes>>

OtherRenames ==
    /\ MayIntrude
    /\ \E from, to \in Places :
         LET x == tree[from] IN
         /\ x # Nil /\ x # tree[to] /\ tree[to] # Sub
         /\ x = Sub => to[1] = Root /\ tree[to] = Nil
         /\ tree' = [tree EXCEPT ![from] = Nil, ![to] = x]
         /\ moved' = moved \cup {x}
    /\ UNCHANGED attr
    /\ Others

OtherRemoves ==
    /\ MayIntrude
    /\ \E at \in Places : tree[at] \in File /\ tree' = [tree EXCEPT ![at] = Nil]
    /\ UNCHANGED <<attr, moved>>
    /\ Others

OtherSetsXattr ==
    /\ MayIntrude
    /\ \E f \in File : NamesOf(f) # {} /\ attr' = [attr EXCEPT ![f].xattr = @ + 1]
    /\ UNCHANGED <<tree, moved>>
    /\ Others

Next ==
    \/ \E t \in Thread :
         \/ Start(t) \/ Answer(t)
         \/ /\ t \in Running
            /\ \/ Resolve(t) \/ Record(t) \/ Apply(t) \/ Describe(t) \/ ChangeNode(t) \/ Attr(t)
               \/ Keep(t) \/ XattrRead(t) \/ Lock(t) \/ Seek(t) \/ Getdents(t) \/ AttrEntry(t)
    \/ OtherRenames \/ OtherRemoves \/ OtherSetsXattr

---------------------------------------------------------------------------
Answered(t, ops) == task[t] # Idle /\ task[t].todo = <<>> /\ task[t].op \in ops /\ ~task[t].failed

(* Whatever a request of the session changes is on a path the session has   *)
(* recorded by then, so that the watch, which may see the change before the *)
(* request ends, does not report it back, unless a directory on the path    *)
(* was moved under the request (ops.rs, record before each system call).    *)
ChangesAreRecorded == echoes = {}

(* A setattr that succeeds leaves and reports every attribute it was asked  *)
(* for, setuid after a change of owner included, unless someone else        *)
(* changed the file or its name meanwhile (ops.rs, setattr).                *)
SetattrDone ==
    \A t \in Thread : Answered(t, {"setattr", "fsetattr"}) /\ ~task[t].disturbed =>
      LET set == task[t].q.set IN
      \A a \in task[t].reply :
         /\ "owner" \in set => a.owner = "other"
         /\ "mode" \in set => a.suid
         /\ "size" \in set => a.size = 1
         /\ "time" \in set => a.time = 1

(* An entry of a listing has the identity and the attributes of one file,   *)
(* unless its name went to another file and back between the calls that     *)
(* describe it (export.rs, attr_entry).                                     *)
EntryIsOneFile ==
    \A t \in Thread : task[t] # Idle =>
      \A i \in 1 .. Len(task[t].page) :
        task[t].page[i].ident = task[t].page[i].stat \/ task[t].page[i].flips >= 2

(* A page lists, in order, the names after its own offset: every one that   *)
(* was there and the same file throughout, up to its last entry or, if it   *)
(* says so, to the end, whatever other page is read through the same handle *)
(* (ops.rs, Readdir; dirents.rs, read_dir).                                 *)
PageFollowsOffset ==
    \A t \in Thread : Answered(t, {"readdir"}) =>
      LET page == task[t].page
          listed == {page[i].name : i \in 1 .. Len(page)}
          after == {n \in task[t].steady : n > task[t].q.offset}
      IN /\ \A i, j \in 1 .. Len(page) : i < j => page[i].name < page[j].name
         /\ \A n \in listed : n > task[t].q.offset
         /\ \A n \in after : task[t].reply = {TRUE} \/ (\E m \in listed : n <= m) => n \in listed
===========================================================================
