---------------------------- MODULE WatchTable ----------------------------
(* Which directories of the export are watched (server/src/watch.rs, Table  *)
(* and Watches).  A request arms the directories it names before it runs    *)
(* and holds them until its reply is sent; the event thread applies what    *)
(* inotify reports; other processes of the server's machine move, make and  *)
(* remove directories all the while.  A client may cache what it is told    *)
(* only as long as someone would tell it otherwise.                         *)
(*                                                                          *)
(* The table is a tree by path while the filesystem moves beneath it: the   *)
(* operators below take the table, the kernel's marks and its event queue   *)
(* as one record t and give the next, as the code's methods take &mut self. *)
EXTENDS Integers, Sequences, FiniteSets, FiniteSetsExt, SequencesExt

CONSTANTS
    Root, Dir,     \* the export root and the other directories
    Outside,       \* where a directory is that was moved out of the export
    Name,
    Request,       \* requests in flight and handles kept open
    MaxPath,       \* names in the longest Path; a deeper directory has none
    Budget,        \* directories watched at most, besides the root
    QueueLen,      \* fs.inotify.max_queued_events
    MaxOps,        \* bound: what other processes do
    MaxArms        \* bound: requests made

ASSUME WatchSets ==
    /\ Root \notin Dir /\ Outside \notin Dir \cup {Root}
    /\ {MaxPath, Budget, QueueLen} \subseteq Nat \ {0}

NoDir == "no directory"
Gone == <<NoDir, NoDir>>
NoFact == <<>>
Path == UNION {[1..k -> Name] : k \in 0..MaxPath}
Parent(p) == SubSeq(p, 1, Len(p) - 1)
Prefix(p, k) == SubSeq(p, 1, k)

VARIABLES
    up,      \* the filesystem: <<parent, name>> of each directory, or Gone
    stamp,   \* and a number that is its attributes
    table,   \* the watch table with the kernel's marks and queue: see New
    req,     \* each request: {}, or the path it armed with the directory that was there
    cached,  \* by path, what a client was told is there and may still believe
    ops, arms

vars == <<up, stamp, table, req, cached, ops, arms>>

---------------------------------------------------------------------------
(* The filesystem.                                                          *)
Child(d, n) ==
    IF \E c \in Dir : up[c] = <<d, n>> THEN CHOOSE c \in Dir : up[c] = <<d, n>> ELSE NoDir

RECURSIVE Resolve(_)
Resolve(p) == IF p = <<>> THEN Root ELSE Child(Resolve(Parent(p)), Last(p))

(* What a lookup or getattr of p gives.                                     *)
Fact(p) == LET d == Resolve(p) IN IF d = NoDir THEN <<NoDir, 0>> ELSE <<d, stamp[d]>>

---------------------------------------------------------------------------
(* The kernel's inotify: marks, and a bounded queue that says when it lost  *)
(* something.  A watch descriptor is a number nothing else refers to.       *)
Event(wd, kind, name, cookie) == [wd |-> wd, kind |-> kind, name |-> name, cookie |-> cookie]
Lost == Event(0, "overflow", "", 0)

Enqueue(t, e) ==
    IF Len(t.queue) < QueueLen THEN [t EXCEPT !.queue = Append(@, e)]
    ELSE IF Lost \in Range(t.queue) THEN t
    ELSE [t EXCEPT !.queue = Append(@, Lost)]

(* An event on directory d, if it is watched.                               *)
Emit(t, d, kind, name, cookie) ==
    IF d \notin DOMAIN t.marks \/ t.marks[d] = 0 THEN t
    ELSE Enqueue(t, Event(t.marks[d], kind, name, cookie))

Fresh(t) ==
    LET used == Range(t.marks) \cup DOMAIN t.by_wd \cup {e.wd : e \in Range(t.queue)}
    IN  CHOOSE w \in 1..(Cardinality(used) + 1) : w \notin used

(* Inotified::add of a directory already watched gives the mark it has.     *)
add(t, d) == IF t.marks[d] # 0 THEN t ELSE [t EXCEPT !.marks[d] = Fresh(t)]

(* Inotified::rm: the mark goes and leaves an IN_IGNORED in the queue.      *)
rm(t, wd) ==
    LET marked == {d \in DOMAIN t.marks : t.marks[d] = wd}
    IN  IF marked = {} THEN t
        ELSE Enqueue([t EXCEPT !.marks = [d \in DOMAIN @ |-> IF d \in marked THEN 0 ELSE @[d]]],
                     Event(wd, "ignored", "", 0))

---------------------------------------------------------------------------
(* The tree.  A node is Watched when its wd is not 0, else Unwatchable, and *)
(* then due once its retry_at is past.                                      *)
Node(wd, round) == [wd |-> wd, due |-> FALSE, used |-> round, holds |-> {}]

(* Table::new: the root is watched at once, and never counted.              *)
New ==
    [tree |-> [p \in {<<>>} |-> Node(1, 0)], by_wd |-> [w \in {1} |-> <<>>],
     watched |-> 0, capped |-> Budget, round |-> 0, dead |-> FALSE, out |-> {},
     marks |-> [d \in Dir \cup {Root} |-> IF d = Root THEN 1 ELSE 0], queue |-> <<>>]

IsWatched(t, p) == p \in DOMAIN t.tree /\ t.tree[p].wd # 0

(* How far along p the tree is watched without a gap.                       *)
Depth(t, p) ==
    Max({k \in 0..Len(p) : \A j \in 0..k : IsWatched(t, Prefix(p, j))})

(* The nodes at and below p, by their path from p.                          *)
Below(t, p) ==
    LET rest == {q \in Path : p \o q \in DOMAIN t.tree}
    IN  [q \in rest |-> t.tree[p \o q]]

detach(t, p) ==
    [t EXCEPT !.tree = [q \in {q \in DOMAIN @ : ~IsPrefix(p, q)} |-> @[q]]]

(* The path of q below p, or as much of it as is not too long.              *)
Clip(p, q) == Prefix(p \o q, Min({Len(p) + Len(q), MaxPath}))

Unwatched(p) == [kind |-> "unwatched", path |-> p]
Overflow == [kind |-> "overflow", path |-> <<>>]

(* drop_tree of the nodes sub, which were at p.                             *)
drop_tree(t, sub, p, announced) ==
    LET gone == {q \in DOMAIN sub : sub[q].wd # 0}
        wds  == {sub[q].wd : q \in gone} \cap DOMAIN t.by_wd
        kept == [t EXCEPT !.by_wd = [w \in DOMAIN @ \ wds |-> @[w]],
                          !.watched = @ - Cardinality(gone),
                          !.out = @ \cup (IF announced THEN {Unwatched(Clip(p, q)) : q \in gone}
                                          ELSE {})]
    IN  FoldLeft(rm, kept, SetToSeq(wds))

(* What is at p, if anything, goes.                                         *)
Displace(t, p, announced) == drop_tree(detach(t, p), Below(t, p), p, announced)

(* put: the nodes sub at p, whatever was there being dropped; without a     *)
(* parent they are dropped themselves.                                      *)
put(t, p, sub) ==
    IF p = <<>> THEN t
    ELSE IF Parent(p) \notin DOMAIN t.tree THEN drop_tree(t, sub, p, TRUE)
    ELSE LET cleared == Displace(t, p, TRUE)
             here == {p \o q : q \in DOMAIN sub}
         IN  [cleared EXCEPT !.tree = [q \in DOMAIN @ \cup here |->
                 IF q \in here THEN sub[SubSeq(q, Len(p) + 1, Len(q))] ELSE @[q]]]

(* Settle, without rekey.                                                   *)
SettleUnkeyed(t, p, sub) == put(t, p, [q \in {q \in DOMAIN sub : Len(p) + Len(q) <= MaxPath} |-> sub[q]])

(* rekey and put: the nodes sub are now at p; one that would be too deep to *)
(* have a path is dropped.                                                  *)
Settle(t, p, sub) ==
    LET long == {q \in DOMAIN sub : Len(p) + Len(q) > MaxPath}
        fit  == DOMAIN sub \ long
        at   == {sub[q].wd : q \in fit} \ {0}
        pruned == drop_tree(t, [q \in long |-> sub[q]], p, TRUE)
        keyed == [pruned EXCEPT !.by_wd = [w \in DOMAIN @ \cup at |->
                     IF w \in at THEN p \o (CHOOSE q \in fit : sub[q].wd = w) ELSE @[w]]]
    IN  put(keyed, p, [q \in fit |-> sub[q]])

(* reroot: the directory recorded at old is found at p.                     *)
reroot(t, old, p) == Settle(detach(t, old), p, Below(t, old))

---------------------------------------------------------------------------
(* Eviction.                                                                *)
LeavesHeld(t, keep) ==
    {p \in DOMAIN t.tree :
        /\ p # <<>> /\ t.tree[p].wd # 0
        /\ ~\E q \in DOMAIN t.tree : q # p /\ IsPrefix(p, q) /\ t.tree[q].wd # 0
        /\ ~IsPrefix(p, keep)}

(* leaves_of: watched, nothing watched below, not held, not on keep.        *)
Leaves(t, keep) ==
    {p \in DOMAIN t.tree :
        /\ p # <<>> /\ t.tree[p].wd # 0
        /\ ~\E q \in DOMAIN t.tree : q # p /\ IsPrefix(p, q) /\ t.tree[q].wd # 0
        /\ t.tree[p].holds = {} /\ ~IsPrefix(p, keep)}

(* Used longer ago, or as long ago and deeper: the order leaves are taken.  *)
Sooner(t, p, q) ==
    \/ t.tree[p].used < t.tree[q].used
    \/ t.tree[p].used = t.tree[q].used /\ Len(p) > Len(q)

DropAll(t, paths) == FoldLeft(LAMBDA u, p : Displace(u, p, TRUE), t, SetToSeq(paths))

RECURSIVE EvictMore(_, _, _)
EvictMore(t, want, keep) ==
    LET leaves == Leaves(t, keep)
        take == Min({want, Cardinality(leaves)})
        victims == CHOOSE v \in kSubset(take, leaves) :
                      \A p \in v, q \in leaves \ v : ~Sooner(t, q, p)
    IN  IF take = 0 THEN t ELSE EvictMore(DropAll(t, victims), want - take, keep)

evict(t, keep) ==
    EvictMore([t EXCEPT !.round = @ + 1], Max({1, t.watched + 1 - t.capped}), keep)

---------------------------------------------------------------------------
(* Watching one more directory.  Each call that may need a new mark has an  *)
(* outcome: "ok", "nospc" (there is one once something was evicted), "full" *)
(* (there is none even then), "err".                                        *)
Outcome == {"ok", "nospc", "full", "err"}

(* One call for each name of the path, of which at most one fails.          *)
Outcomes ==
    [p \in Path |->
        {h \in [1..Len(p) -> Outcome] : \A j, k \in 1..Len(p) : j < k => "ok" \in {h[j], h[k]}}]

place(t, p, wd) ==
    IF wd \in DOMAIN t.by_wd THEN
        IF t.by_wd[wd] = p THEN t ELSE reroot(t, t.by_wd[wd], p)
    ELSE LET room == IF t.watched >= t.capped THEN evict(t, p) ELSE t
             known == [room EXCEPT !.watched = @ + 1,
                                   !.by_wd = [w \in DOMAIN @ \cup {wd} |->
                                                 IF w = wd THEN p ELSE @[w]]]
         IN  put(known, p, [q \in {<<>>} |-> Node(wd, known.round)])

(* The directory has a mark, or gets one.                                   *)
Markable(t, d, how) == t.marks[d] # 0 \/ how = "ok" \/ (how = "nospc" /\ t.watched > 0)

(* install: d, found at p inside a watched directory.  After ENOSPC no more *)
(* than now are watched for a while.                                        *)
install(t, p, d, how) ==
    LET short == t.marks[d] = 0 /\ how \in {"nospc", "full"} /\ t.watched > 0
        base  == IF short THEN evict([t EXCEPT !.capped = t.watched], p) ELSE t
        marked == add(base, d)
    IN  IF Markable(t, d, how) THEN place(marked, p, marked.marks[d])
        ELSE put(base, p, [q \in {<<>>} |-> Node(0, base.round)])

(* verify: the directory found at p is the one recorded there, or takes its *)
(* place.                                                                   *)
verify(t, p, d) ==
    LET marked == add(t, d)
    IN  IF marked.marks[d] = t.tree[p].wd THEN t
        ELSE place(Displace(marked, p, TRUE), p, marked.marks[d])

(* extend: from the depth p is watched to, which is verified, to the end of *)
(* p or the first directory that cannot be found or watched.                *)
extend(t, p, how) ==
    LET from == Depth(t, p)
        at(k) == Resolve(Prefix(p, k))
        stuck == at(from) = NoDir \/ (from > 0 /\ t.marks[at(from)] = 0 /\ how[from] # "ok")
        step(s, k) ==
            IF s.stop \/ at(k) = NoDir THEN [s EXCEPT !.stop = TRUE]
            ELSE [t |-> install(s.t, Prefix(p, k), at(k), how[k]),
                  stop |-> ~Markable(s.t, at(k), how[k])]
    IN  IF stuck THEN t
        ELSE FoldLeft(step, [t |-> IF from = 0 THEN t ELSE verify(t, Prefix(p, from), at(from)),
                             stop |-> FALSE],
                      [k \in 1..(Len(p) - from) |-> from + k]).t

(* touch finds all there is to find: p is watched, or ends in a directory   *)
(* that could not be and is left alone.                                     *)
Touched(t, p) ==
    LET k == Depth(t, p) IN
    \/ k = Len(p)
    \/ Prefix(p, k + 1) \in DOMAIN t.tree /\ ~t.tree[Prefix(p, k + 1)].due

(* touch marks what it passes as used in this round.                        *)
Stamped(t, p) ==
    [t EXCEPT !.tree = [q \in DOMAIN @ |->
        IF q # <<>> /\ IsPrefix(q, Prefix(p, Depth(t, p))) THEN [@[q] EXCEPT !.used = t.round]
        ELSE @[q]]]

(* arm p for request r, which then holds the deepest directory watched.     *)
arm(t, p, r, how) ==
    LET seen == Stamped(t, p)
        armed == IF Touched(t, p) THEN seen ELSE extend(seen, p, how)
    IN  [armed EXCEPT !.tree[Prefix(p, Depth(armed, p))].holds = @ \cup {r}]

---------------------------------------------------------------------------
(* Applying events.                                                         *)

(* Finding out what a directory is watched as takes a watch on it, which is *)
(* taken off again: an IN_IGNORED for a descriptor the table never had.     *)
Probe(t, d) == IF t.marks[d] = 0 THEN Enqueue(t, Event(0, "ignored", "", 0)) ELSE t

(* still_there: the directory recorded at p is the one at p.                *)
still_there(t, p) ==
    IsWatched(t, p) /\ Resolve(p) # NoDir /\ t.marks[Resolve(p)] = t.tree[p].wd

Probed(t, p) == IF IsWatched(t, p) /\ Resolve(p) # NoDir THEN Probe(t, Resolve(p)) ELSE t

recheckNone(t) == t

(* recheck: what is no longer where it is recorded goes, with all below it. *)
recheck(t) ==
    LET lost == {p \in DOMAIN t.tree \ {<<>>} :
                    /\ ~still_there(t, p)
                    /\ \A k \in 1..(Len(p) - 1) : still_there(t, Prefix(p, k))}
    IN  DropAll(FoldLeft(Probed, t, SetToSeq(lost)), lost)

(* die: the root's own watch ended.                                         *)
die(t) ==
    [t EXCEPT !.tree = [p \in {<<>>} |-> @[p]], !.by_wd = [w \in {} |-> <<>>],
              !.watched = 0, !.dead = TRUE]

Item(kind, p) == [kind |-> kind, path |-> p]
EntryKinds == {"create", "delete", "from", "to"}

(* report: what an event says happened, if it has a name that makes a path. *)
report(t, e) ==
    LET dir == t.by_wd[e.wd] IN
    IF e.wd \notin DOMAIN t.by_wd THEN {}
    ELSE IF e.name = "" THEN (IF dir = <<>> /\ e.kind = "attrib" THEN {Item("data", dir)} ELSE {})
    ELSE IF e.kind \in EntryKinds THEN {Item("entry", Append(dir, e.name))}
    ELSE IF e.kind = "attrib" /\ Len(dir) < MaxPath THEN {Item("data", Append(dir, e.name))}
    ELSE {}

(* The directories on the move between the two halves of a rename, in one   *)
(* batch: a set of [cookie, path, sub].                                     *)
DropMoving(t, moving) ==
    FoldLeft(LAMBDA u, m : drop_tree(u, m.sub, m.path, TRUE), t, SetToSeq(moving))

(* What an event about the entry at p of a watched directory does.          *)
Entry(s, e, p) ==
    LET t == Probed(s.t, p)
        there == still_there(s.t, p)
        known == p \in DOMAIN s.t.tree
        pair == {m \in s.moving : m.cookie = e.cookie}
        rest == s.moving \ pair
    IN  CASE e.kind = "from" /\ ~there /\ known ->
               [t |-> detach(t, p),
                moving |-> s.moving \cup {[cookie |-> e.cookie, path |-> p, sub |-> Below(t, p)]}]
          [] e.kind = "to" /\ there -> [t |-> DropMoving(t, pair), moving |-> rest]
          [] e.kind = "to" /\ ~there ->
               [t |-> FoldLeft(LAMBDA u, m : Settle(u, p, m.sub), Displace(t, p, TRUE), SetToSeq(pair)),
                moving |-> rest]
          [] e.kind = "delete" /\ ~there -> [s EXCEPT !.t = Displace(t, p, TRUE)]
          [] OTHER -> IF e.kind \in {"from", "delete"} THEN [s EXCEPT !.t = t] ELSE s

(* One event of a batch.                                                    *)
applied(s, e) ==
    LET t == s.t
        told == [t EXCEPT !.out = @ \cup report(t, e)]
        dir == t.by_wd[e.wd]
    IN  CASE t.dead -> s
          [] ~t.dead /\ e = Lost ->
               LET dropped == DropMoving(t, s.moving)
               IN  [t |-> recheck([dropped EXCEPT !.out = @ \cup {Overflow}]), moving |-> {}]
          [] ~t.dead /\ e # Lost /\ e.wd \notin DOMAIN t.by_wd -> s
          [] OTHER ->
               IF e.kind \in {"ignored", "unmount", "delete_self"} THEN
                   IF dir = <<>> THEN [s EXCEPT !.t = [die(t) EXCEPT !.out = @ \cup {Overflow}]]
                   ELSE IF e.kind = "ignored" THEN [s EXCEPT !.t = Displace(t, dir, FALSE)]
                   ELSE s
               ELSE IF e.kind = "move_self" THEN s
               ELSE IF e.name = "" \/ Len(dir) = MaxPath THEN [s EXCEPT !.t = told]
               ELSE Entry([s EXCEPT !.t = told], e, Append(dir, e.name))

(* apply: what has not arrived by the end of the batch is dropped.          *)
apply(t, batch) ==
    LET end == FoldLeft(applied, [t |-> t, moving |-> {}], batch)
    IN  DropMoving(end.t, end.moving)

---------------------------------------------------------------------------
Init ==
    /\ up \in [Dir -> {Gone} \cup ({Root} \X Name)]
    /\ \A c, d \in Dir : up[c] = up[d] /\ up[c] # Gone => c = d
    /\ stamp = [d \in Dir \cup {Root} |-> 0]
    /\ table = New
    /\ req = [r \in Request |-> {}]
    /\ cached = [p \in Path |-> NoFact]
    /\ ops = 0 /\ arms = 0

(* What a client does with an item: an entry's name goes with all beneath   *)
(* it, and so does a directory no longer watched; Invalidation has the rest.*)
Covers(item, p) ==
    CASE item.kind = "overflow" -> TRUE
      [] item.kind = "data" -> p = item.path
      [] item.kind \in {"entry", "unwatched"} -> IsPrefix(item.path, p)

(* The table is t, and its items are folded before the lock is released.    *)
Commit(t) ==
    /\ table' = [t EXCEPT !.out = {}]
    /\ cached' = [p \in Path |-> IF \E i \in t.out : Covers(i, p) THEN NoFact ELSE cached[p]]

(* arm_request, for one of the directories named.  Kept with it is the      *)
(* directory that is then watched under that path.                          *)
Arm(r, p, how) ==
    /\ LET t == arm(table, p, r, how)
       IN  /\ Commit(t)
           /\ req' = [req EXCEPT ![r] =
                 {[path |-> p, dir |-> IF still_there(t, p) THEN Resolve(p) ELSE NoDir]}]
    /\ arms' = arms + 1
    /\ UNCHANGED <<up, stamp, ops>>

Released(t, r) ==
    [t EXCEPT !.tree = [p \in DOMAIN @ |-> [@[p] EXCEPT !.holds = @ \ {r}]]]

(* The request runs and is answered, then its guards are dropped.  What it  *)
(* says of path q is cached, and counts if its directory was watched and    *)
(* has been there since.                                                    *)
Serve(r, q) ==
    /\ \E a \in req[r] :
         /\ Parent(q) = a.path
         /\ cached' = IF a.dir # NoDir /\ ~table.dead
                      THEN [cached EXCEPT ![q] = Fact(q)] ELSE cached
    /\ table' = Released(table, r)
    /\ req' = [req EXCEPT ![r] = {}]
    /\ UNCHANGED <<up, stamp, ops, arms>>

(* run_events: one read's worth of what is queued, up to any point.         *)
ApplyEvents(k) ==
    /\ k \in 1..Len(table.queue)
    /\ Commit(apply([table EXCEPT !.queue = SubSeq(@, k + 1, Len(@))], SubSeq(table.queue, 1, k)))
    /\ UNCHANGED <<up, stamp, req, ops, arms>>

(* UNWATCHABLE_RETRY passes for the directory at p; LIMITED_HOLD passes.    *)
RetryDue(p) ==
    /\ p \in DOMAIN table.tree /\ table.tree[p].wd = 0 /\ ~table.tree[p].due
    /\ table' = [table EXCEPT !.tree[p].due = TRUE]
    /\ UNCHANGED <<up, stamp, req, cached, ops, arms>>

Uncap ==
    /\ table.capped # Budget
    /\ table' = [table EXCEPT !.capped = Budget]
    /\ UNCHANGED <<up, stamp, req, cached, ops, arms>>

---------------------------------------------------------------------------
(* Other processes, and the events the kernel queues for what they do.      *)
Other(t) ==
    /\ ops' = ops + 1
    /\ table' = t
    /\ req' = [r \in Request |->
          {[a EXCEPT !.dir = IF @ = Resolve(a.path)' THEN @ ELSE NoDir] : a \in req[r]}]
    /\ UNCHANGED <<cached, arms>>

(* The inode is gone, and the mark on it.                                   *)
Vanish(t, d) ==
    LET last == Emit(Emit(t, d, "delete_self", "", 0), d, "ignored", "", 0)
    IN  [last EXCEPT !.marks[d] = 0]

Mkdir(d, in, n) ==
    /\ up[d] = Gone /\ Child(in, n) = NoDir /\ in # d
    /\ up' = [up EXCEPT ![d] = <<in, n>>]
    /\ Other(Emit(table, in, "create", n, 0))
    /\ UNCHANGED stamp

Empty(d) == \A c \in Dir : up[c][1] # d

Rmdir(d) ==
    /\ up[d] # Gone /\ Empty(d)
    /\ up' = [up EXCEPT ![d] = Gone]
    /\ Other(Vanish(Emit(table, up[d][1], "delete", up[d][2], 0), d))
    /\ UNCHANGED stamp

Above(d) ==
    LET step(s) == s \cup {up[c][1] : c \in s \cap Dir} IN step(step(step({d})))

(* Within the export, out of it or back, replacing an empty directory; what *)
(* it is called outside does not matter.                                    *)
Move(d, in, n) ==
    LET to == IF in = Outside THEN <<Outside, NoDir>> ELSE <<in, n>>
        over == IF in = Outside THEN NoDir ELSE Child(in, n)
        moved == Emit(Emit(table, up[d][1], "from", up[d][2], ops + 1), in, "to", n, ops + 1)
        done == Emit(moved, d, "move_self", "", 0)
    IN  /\ up[d] # Gone /\ up[d] # to /\ d \notin Above(in)
        /\ in \in Dir => up[in] # Gone
        /\ over # NoDir => over # d /\ Empty(over)
        /\ up' = [c \in Dir |-> IF c = d THEN to ELSE IF c = over THEN Gone ELSE up[c]]
        /\ Other(IF over = NoDir THEN done ELSE Vanish(done, over))
        /\ UNCHANGED stamp

(* A change of attributes, reported on the directory and on its parent.     *)
Chmod(d) ==
    /\ d \in Dir => up[d] # Gone
    /\ stamp' = [stamp EXCEPT ![d] = @ + 1]
    /\ UNCHANGED up
    /\ Other(LET own == Emit(table, d, "attrib", "", 0)
             IN  IF d = Root THEN own ELSE Emit(own, up[d][1], "attrib", up[d][2], 0))

(* The export's filesystem is unmounted.                                    *)
Unmount ==
    /\ table.marks[Root] # 0
    /\ UNCHANGED <<up, stamp>>
    /\ Other([Emit(table, Root, "unmount", "", 0) EXCEPT !.marks[Root] = 0])

Next ==
    \/ \E r \in Request :
         \/ /\ req[r] = {} /\ arms < MaxArms /\ ~table.dead
            /\ \E p \in Path : \E how \in Outcomes[p] : Arm(r, p, how)
         \/ req[r] # {} /\ \E p \in Path : Serve(r, p)
    \/ \E k \in 1..(QueueLen + 1) : ApplyEvents(k)
    \/ \E p \in Path : RetryDue(p)
    \/ Uncap
    \/ /\ ops < MaxOps
       /\ \/ \E d \in Dir, in \in Dir \cup {Root}, n \in Name : Mkdir(d, in, n)
          \/ \E d \in Dir : Rmdir(d)
          \/ \E d \in Dir, in \in Dir \cup {Root, Outside}, n \in Name : Move(d, in, n)
          \/ \E d \in Dir \cup {Root} : Chmod(d)
          \/ Unmount

Spec == Init /\ [][Next]_vars

---------------------------------------------------------------------------
(* The table's books agree with each other and with the kernel: descriptors *)
(* and paths are the same in both directions, the count is the number of    *)
(* directories watched, a directory is watched only below a watched parent, *)
(* and the kernel has no watch that the table has lost track of.            *)
TableExact ==
    LET t == table
        on == {p \in DOMAIN t.tree : t.tree[p].wd # 0}
    IN  ~t.dead =>
        /\ DOMAIN t.by_wd = {t.tree[p].wd : p \in on}
        /\ \A p \in on : t.by_wd[t.tree[p].wd] = p
        /\ t.watched = Cardinality(on) - 1
        /\ \A p \in DOMAIN t.tree \ {<<>>} : Parent(p) \in on
        /\ Range(t.marks) \subseteq DOMAIN t.by_wd \cup {0}

(* Once every event is applied, and as long as the root has its own watch,  *)
(* the table mirrors the filesystem: each directory it has as watched is    *)
(* the one at that path, with a live watch, so the next change there is     *)
(* reported, and under the right path.                                      *)
QuietMirrors ==
    table.queue = <<>> /\ table.marks[Root] # 0 =>
        \A p \in DOMAIN table.tree : table.tree[p].wd # 0 => still_there(table, p)

(* Once every event is applied, nothing a client may still believe is out   *)
(* of date: whatever changed was reported under the path the client knows,  *)
(* or the client was told that the directory is no longer watched (as long  *)
(* as the root has its own watch).                                          *)
QuietIsFresh ==
    table.queue = <<>> /\ ~table.dead /\ table.marks[Root] # 0 =>
        \A p \in Path : cached[p] # NoFact => cached[p] = Fact(p)
===========================================================================
