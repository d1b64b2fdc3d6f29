--------------------------- MODULE FuseRequests ---------------------------
(* The FUSE backend's requests on the node table (client/src/fuse.rs): each *)
(* kernel request is a task that takes a path out of the table, waits for   *)
(* the server with no lock held, and then applies the reply to a table that *)
(* other tasks, and the kernel's forgets, have changed meanwhile.  On the   *)
(* server the tree is changed by these requests and by other clients.       *)
EXTENDS NodeTable

CONSTANTS
    Req,          \* tasks at work at once
    RootFile,     \* the file that is the export root
    Tree,         \* the server's entries at the start: <<directory, name, file>>
    MaxRequests,  \* bound: requests the kernel makes
    MaxOutside    \* bound: changes other clients make

ASSUME TreeIsOne == Tree \subseteq ({RootFile} \cup Directory) \X Name \X File

VARIABLES
    ent,     \* the server's tree: the file at each <<directory, name>>, or NoFile
    held,    \* the lookups of each node the kernel has been told of
    live,    \* the nodes the kernel has an open handle on
    task,    \* what each task is doing
    asked,   \* requests made so far
    outside  \* changes others made so far

fuse == <<ent, held, live, task, asked, outside>>

Dirs == {RootFile} \cup Directory
Idle == [op |-> "none"]
Busy == {r \in Req : task[r] # Idle}

Served ==
    [e \in Dirs \X Name |->
        IF \E f \in File : <<e[1], e[2], f>> \in Tree
        THEN CHOOSE f \in File : <<e[1], e[2], f>> \in Tree ELSE NoFile]

FuseInit ==
    /\ Init
    /\ ent = Served
    /\ held = [i \in Id |-> 0]
    /\ live = {}
    /\ task = [r \in Req |-> Idle]
    /\ asked = 0 /\ outside = 0

---------------------------------------------------------------------------
(* The server.                                                              *)
Walk(path) ==
    LET at[k \in 0..Len(path)] ==
          IF k = 0 THEN RootFile
          ELSE IF at[k - 1] \in Dirs THEN ent[<<at[k - 1], path[k]>>] ELSE NoFile
    IN  at[Len(path)]

(* Files that are nowhere: what a request makes next is one of them.        *)
Unmade == {f \in File : /\ Ino[f] # ROOT /\ \A e \in DOMAIN ent : ent[e] # f
                        /\ f \in Directory => \A n \in Name : ent[<<f, n>>] = NoFile}

(* A filesystem is mounted on a number 1 that is not the export's root, and *)
(* stays; a directory goes when it is empty.                                *)
MayGo(f) ==
    f # NoFile /\ Ino[f] # ROOT /\ (f \in Directory => \A n \in Name : ent[<<f, n>>] = NoFile)

(* A directory is renamed within the root only, so the tree stays one.      *)
MayMove(f, dir) == f # NoFile /\ Ino[f] # ROOT /\ (f \in Directory => dir = RootFile)

Moved(from, to) == [ent EXCEPT ![from] = NoFile, ![to] = ent[from]]
Swapped(from, to) == [ent EXCEPT ![from] = ent[to], ![to] = ent[from]]

FileOf(i) == IF i = ROOT THEN RootFile ELSE key[i]

(* What the server does for a task, and the file its reply describes:       *)
(* NoFile in place of an error.                                             *)
Done(t, entries, reply) ==
    LET dir == Walk(t.path)
        to == Walk(t.newpath)
        from == <<dir, t.name>>
        over == <<to, t.newname>>
        nothing == entries = ent /\ reply = NoFile
    IN  CASE t.op = "lookup" ->
               entries = ent /\ reply = Walk(Append(t.path, t.name))
          [] t.op \in {"getattr", "setattr", "open"} ->
               entries = ent /\ reply = IF t.by_handle THEN FileOf(t.node) ELSE dir
          [] t.op \in {"make", "create"} ->
               IF dir \notin Dirs THEN nothing
               ELSE IF ent[from] # NoFile
                    THEN entries = ent /\ reply = IF t.op = "create" THEN ent[from] ELSE NoFile
               ELSE IF Unmade = {} THEN nothing
               ELSE reply \in Unmade /\ entries = [ent EXCEPT ![from] = reply]
          [] t.op = "unlink" ->
               IF dir \notin Dirs THEN nothing
               ELSE IF ~MayGo(ent[from]) THEN nothing
               ELSE entries = [ent EXCEPT ![from] = NoFile] /\ reply = ent[from]
          [] t.op = "link" ->
               IF to \notin Dirs \/ dir \in Dirs \cup {NoFile} THEN nothing
               ELSE IF ent[over] # NoFile THEN nothing
               ELSE entries = [ent EXCEPT ![over] = dir] /\ reply = dir
          [] t.op = "rename" ->
               IF {dir, to} \subseteq Dirs
               THEN IF MayMove(ent[from], to) /\ (ent[over] = NoFile \/ MayGo(ent[over]))
                    THEN entries = (IF ent[over] = ent[from] THEN ent ELSE Moved(from, over))
                         /\ reply = ent[from]
                    ELSE nothing
               ELSE nothing
          [] t.op = "exchange" ->
               IF {dir, to} \subseteq Dirs
               THEN IF MayMove(ent[from], to) /\ MayMove(ent[over], dir)
                    THEN entries = Swapped(from, over) /\ reply = ent[from]
                    ELSE nothing
               ELSE nothing

(* Another client renames or removes an entry.                              *)
Outside(from, to) ==
    /\ outside' = outside + 1
    /\ MayMove(ent[from], to[1]) /\ from # to /\ (ent[to] = NoFile \/ MayGo(ent[to]))
    /\ ent' = Moved(from, to)
    /\ UNCHANGED <<vars, held, live, task, asked>>

OutsideUnlink(e) ==
    /\ outside' = outside + 1
    /\ MayGo(ent[e])
    /\ ent' = [ent EXCEPT ![e] = NoFile]
    /\ UNCHANGED <<vars, held, live, task, asked>>

---------------------------------------------------------------------------
(* The kernel.  It names only nodes it holds, holds them while a request is *)
(* out, and lets one request change a directory at a time, alone: lookups   *)
(* and listings share it.                                                   *)
Known(i) == i = ROOT \/ held[i] > 0
Changes(op) == op \in {"make", "create", "unlink", "link", "rename", "exchange"}
OnNode == {"getattr", "setattr", "open"}
DirsOf(t) ==
    (IF t.op \in OnNode \cup {"link"} THEN {} ELSE {t.node})
        \cup (IF t.op \in {"link", "rename", "exchange"} THEN {t.newnode} ELSE {})
Clash(t, u) ==
    /\ Changes(t.op) \/ Changes(u.op)
    /\ DirsOf(t) \cap DirsOf(u) # {}

(* path_of, and path_for_handle_op: a node without a path is reached by a   *)
(* handle if one is open on it.                                             *)
Ways(op, i) ==
    IF names_to(i, 0) # {} THEN {[by_handle |-> FALSE, path |-> p] : p \in names_to(i, 0)}
    ELSE IF op \in {"getattr", "setattr"} /\ i \in live THEN {[by_handle |-> TRUE, path |-> <<>>]}
    ELSE {}

(* Tasks are alike: a request is given the first that has nothing to do.    *)
FirstIdle == CHOOSE r \in Req \cup {"none"} : IF Busy = Req THEN r = "none" ELSE r \in Req \ Busy

(* A request arrives and its task begins: spawn registers it, and the path  *)
(* it goes by is taken from the table.  Without one it is answered ESTALE.  *)
Ask(r, op, i, n, j, m) ==
    LET t == [op |-> op, node |-> i, name |-> n, newnode |-> j, newname |-> m, at |-> "sent",
              path |-> <<>>, by_handle |-> FALSE, newpath |-> <<>>, got |-> NoFile,
              told |-> <<>>, page |-> <<>>]
    IN  /\ Known(i) /\ Known(j)
        /\ ~\E s \in Busy : Clash(t, task[s])
        /\ asked' = asked + 1
        /\ \E w \in Ways(op, i), q \in names_to(j, 0) :
              task' = [task EXCEPT ![r] = [t EXCEPT !.path = w.path, !.by_handle = w.by_handle,
                                                    !.newpath = q]]
        /\ UNCHANGED <<vars, ent, held, live, outside>>

AskIn(r, op, i, n) == Ask(r, op, i, n, ROOT, n)
AskOn(r, op, i) == Ask(r, op, i, CHOOSE n \in Name : TRUE, ROOT, CHOOSE n \in Name : TRUE)

Lookup(r, i, n) == AskIn(r, "lookup", i, n)
Make(r, i, n) == AskIn(r, "make", i, n)         \* mknod, mkdir, symlink
Create(r, i, n) == AskIn(r, "create", i, n)
Unlink(r, i, n) == AskIn(r, "unlink", i, n)     \* and rmdir
Getattr(r, i) == AskOn(r, "getattr", i)
Setattr(r, i) == AskOn(r, "setattr", i)
Open(r, i) == AskOn(r, "open", i)               \* and opendir
List(r, i) == AskOn(r, "list", i)               \* readdirplus
Link(r, i, j, m) == Ask(r, "link", i, m, j, m)
Rename(r, op, i, n, j, m) == <<i, n>> # <<j, m>> /\ Ask(r, op, i, n, j, m)

Arrives(r) ==
    /\ asked < MaxRequests /\ r = FirstIdle
    /\ \/ \E i \in Parent, n \in Name :
            Lookup(r, i, n) \/ Make(r, i, n) \/ Create(r, i, n) \/ Unlink(r, i, n)
       \/ \E i \in Id : Getattr(r, i) \/ Setattr(r, i) \/ Open(r, i)
       \/ \E i \in Parent : List(r, i)
       \/ \E i \in Id \ Parent, j \in Parent, m \in Name : Link(r, i, j, m)
       \/ \E i, j \in Parent, n, m \in Name, op \in {"rename", "exchange"} :
            Rename(r, op, i, n, j, m)

(* The kernel drops some of its lookups of a node no request is about.      *)
Forget(i, n) ==
    /\ n \in 1..held[i]
    /\ ~\E r \in Busy : i \in {task[r].node, task[r].newnode}
    /\ i \in live => n < held[i]
    /\ forget(i, n)
    /\ held' = [held EXCEPT ![i] = @ - n]
    /\ UNCHANGED <<ent, live, task, asked, outside>>

(* The last handle on a node is closed.                                     *)
Release(i) ==
    /\ i \in live /\ live' = live \ {i}
    /\ UNCHANGED <<vars, ent, held, task, asked, outside>>

---------------------------------------------------------------------------
(* The server answers, or the call fails, before or after it was carried    *)
(* out (a lost connection, a timeout, an interrupt), and the kernel has its *)
(* error.                                                                   *)
Serve(r, failed) ==
    LET t == task[r] IN
    /\ t # Idle /\ t.op # "list" /\ t.at = "sent"
    /\ \E reply \in File \cup {NoFile} :
         /\ Done(t, ent', reply)
         /\ task' = [task EXCEPT ![r] = IF failed \/ reply = NoFile THEN Idle
                                        ELSE [t EXCEPT !.at = "served", !.got = reply]]
    /\ UNCHANGED <<vars, held, live, asked, outside>>

(* A directory is read through its handle, not by path.                     *)
ServeList(r) ==
    LET t == task[r]
        dir == FileOf(t.node)
        there == {n \in Name : ent[<<dir, n>>] # NoFile}
    IN  /\ t # Idle /\ t.op = "list" /\ t.at = "sent"
        /\ task' = [task EXCEPT ![r].at = "served",
                                ![r].page = [k \in 1..Cardinality(there) |->
                                    LET n == SetToSeq(there)[k] IN <<n, ent[<<dir, n>>]>>]]
        /\ UNCHANGED <<vars, ent, held, live, asked, outside>>

---------------------------------------------------------------------------
(* The reply is applied to the table.                                       *)
Step(r, at) ==
    /\ task' = [task EXCEPT ![r].at = at]
    /\ UNCHANGED <<ent, held, live, asked, outside>>

Registers(t) ==
    \/ t.op \in {"lookup", "make", "create"}
    \/ t.op = "link" /\ key[t.node] = t.got

(* register: the node the reply's file is, for reply_entry to tell the      *)
(* kernel of.  Both are done with the table's lock held once.               *)
Register(r) ==
    LET t == task[r]
        p == IF t.op = "link" THEN t.newnode ELSE t.node
        n == IF t.op = "link" THEN t.newname ELSE t.name
    IN  /\ t # Idle /\ (t.at = "checked" \/ (t.at = "served" /\ Registers(t)))
        /\ \/ /\ insert_lookup(p, n, t.got)
              /\ task' = [task EXCEPT ![r].at = "told", ![r].told = <<<<id_for(t.got), t.got>>>>]
           \/ /\ insert_root(t.got)
              /\ task' = [task EXCEPT ![r] = Idle]
        /\ UNCHANGED <<ent, held, live, asked, outside>>

(* AddEntry, registering the node whether or not the kernel had room.       *)
AddEntryAnyway(r, full) ==
    LET t == task[r]
        e == Head(t.page)
    IN  /\ t # Idle /\ t.op = "list" /\ t.at = "served" /\ t.page # <<>>
        /\ IF id_for(e[2]) = ROOT THEN UNCHANGED vars ELSE insert_lookup(t.node, e[1], e[2])
        /\ task' = [task EXCEPT ![r].page = IF full THEN <<>> ELSE Tail(@),
                                ![r].told = IF full THEN @ ELSE Append(@, <<id_for(e[2]), e[2]>>)]
        /\ UNCHANGED <<ent, held, live, asked, outside>>

(* readdirplus: the kernel is offered an entry and the node registered with *)
(* the table locked; once it has no room the rest waits for its next page.  *)
AddEntry(r, full) ==
    LET t == task[r]
        e == Head(t.page)
    IN  /\ t # Idle /\ t.op = "list" /\ t.at = "served" /\ t.page # <<>>
        /\ IF full \/ id_for(e[2]) = ROOT THEN UNCHANGED vars ELSE insert_lookup(t.node, e[1], e[2])
        /\ task' = [task EXCEPT ![r].page = IF full THEN <<>> ELSE Tail(@),
                                ![r].told = IF full THEN @ ELSE Append(@, <<id_for(e[2]), e[2]>>)]
        /\ UNCHANGED <<ent, held, live, asked, outside>>

EndOfPage(r) ==
    /\ task[r] # Idle /\ task[r].op = "list" /\ task[r].at = "served" /\ task[r].page = <<>>
    /\ UNCHANGED vars /\ Step(r, "told")

(* unlink, rmdir, rename, exchange.                                         *)
Rearrange(r) ==
    LET t == task[r]
        known == child(t.node, t.name)
        other == child(t.newnode, t.newname)
    IN  /\ t # Idle /\ t.at = "served"
        /\ CASE t.op = "unlink" ->
                  IF known = NoId THEN UNCHANGED vars ELSE unlink(t.node, t.name)
             [] t.op = "rename" ->
                  IF known \in {NoId, other} THEN UNCHANGED vars
                  ELSE rename(t.node, t.name, t.newnode, t.newname)
             [] t.op = "exchange" ->
                  IF known = other THEN UNCHANGED vars
                  ELSE exchange(t.node, t.name, t.newnode, t.newname)
             [] OTHER -> FALSE
        /\ Step(r, "told")

DescribesAny(i, f) == TRUE

(* describes: a reply by path is about the node's own file.                 *)
describes(i, f) == i = ROOT \/ key[i] = f

(* A reply by handle is the handle's file.  A getattr of the root says what *)
(* the root is; an open leaves a handle on the node.                        *)
Confirmed(r) ==
    LET t == task[r] IN
    /\ t # Idle /\ t.op \in OnNode /\ t.at = "served"
    /\ t.by_handle \/ describes(t.node, t.got)
    /\ IF t.node = ROOT /\ t.op = "getattr" THEN root_seen(t.got) ELSE UNCHANGED vars
    /\ live' = IF t.op = "open" THEN live \cup {t.node} ELSE live
    /\ task' = [task EXCEPT ![r].at = "told"]
    /\ UNCHANGED <<ent, held, asked, outside>>

(* WrongName that goes on without telling the table.                        *)
WrongNameKept(r) ==
    LET t == task[r] IN
    /\ t # Idle /\ t.op \in OnNode \cup {"link"} /\ t.at = "served"
    /\ ~(t.by_handle \/ describes(t.node, t.got))
    /\ UNCHANGED vars
    /\ Step(r, IF t.op = "link" THEN "checked" ELSE "again")

(* The path led to another file: that name goes.  A link has been made all  *)
(* the same, and is registered as what it is.                               *)
WrongName(r) ==
    LET t == task[r] IN
    /\ t # Idle /\ t.op \in OnNode \cup {"link"} /\ t.at = "served"
    /\ ~(t.by_handle \/ describes(t.node, t.got))
    /\ \/ alias_was_wrong(t.node, t.path)
       \/ Spelling(t.node, t.path) = {} /\ UNCHANGED vars
    /\ Step(r, IF t.op = "link" THEN "checked" ELSE "again")

(* The next turn of the loop: the node by its next name, or ESTALE.         *)
Again(r) ==
    LET t == task[r] IN
    /\ t # Idle /\ t.at = "again"
    /\ \/ /\ Ways(t.op, t.node) = {}
          /\ task' = [task EXCEPT ![r] = Idle]
       \/ \E w \in Ways(t.op, t.node) :
            task' = [task EXCEPT ![r].at = "sent", ![r].path = w.path,
                                 ![r].by_handle = w.by_handle]
    /\ UNCHANGED <<vars, ent, held, live, asked, outside>>

(* The kernel has its answer, and counts the nodes it was told of.          *)
Reply(r) ==
    LET t == task[r] IN
    /\ t # Idle /\ t.at = "told"
    /\ held' = [i \in Id |-> IF i = ROOT THEN held[i]
                             ELSE held[i] + Cardinality({k \in DOMAIN t.told : t.told[k][1] = i})]
    /\ task' = [task EXCEPT ![r] = Idle]
    /\ UNCHANGED <<vars, ent, live, asked, outside>>

Work(r) ==
    \/ Reply(r) \/ Again(r) \/ EndOfPage(r) \/ Confirmed(r) \/ ServeList(r)
    \/ \E full \in BOOLEAN : AddEntry(r, full)
    \/ Rearrange(r) \/ WrongName(r) \/ Register(r) \/ Serve(r, FALSE)

FuseNext ==
    \/ \E r \in Req : Arrives(r) \/ Work(r) \/ Serve(r, TRUE)
    \/ \E i \in Id, n \in 1..MaxLookups : Forget(i, n)
    \/ \E i \in Id : Release(i)
    \/ outside < MaxOutside /\ \E from, to \in Dirs \X Name : Outside(from, to)
    \/ outside < MaxOutside /\ \E e \in Dirs \X Name : OutsideUnlink(e)

(* The runtime runs every task, and every call ends: the server answers or  *)
(* the call times out.                                                      *)
FuseSpec ==
    FuseInit /\ [][FuseNext]_<<vars, fuse>> /\ \A r \in Req : WF_task(Work(r))

---------------------------------------------------------------------------
(* Lookups of node i a task has registered and not yet told the kernel of.  *)
Telling(i) ==
    Cardinality({s \in Busy \X (1..Cardinality(Name)) :
                    s[2] \in DOMAIN task[s[1]].told /\ task[s[1]].told[s[2]][1] = i})

(* The table's lookup count of a node is the kernel's, with what is on its  *)
(* way there: a count too low would drop a node the kernel still names, one *)
(* too high would keep it for ever.  Forgets come in between the            *)
(* registering of a node and the reply that tells of it (fuse.rs, register, *)
(* readdirplus and forget).                                                 *)
CountsAgree == \A i \in Id \ {ROOT} : lookups[i] = held[i] + Telling(i)

(* The kernel is told of a file only by the number that is that file's,     *)
(* also when between the registering and the reply nodes were forgotten and *)
(* numbers given out again; and attributes given for a node are its own     *)
(* file's, whatever others have put at the path it was asked by (fuse.rs,   *)
(* describes and reply_entry).                                              *)
TellsTheFile ==
    \A r \in Busy : task[r].at = "told" =>
        /\ \A k \in DOMAIN task[r].told :
             LET id == task[r].told[k][1] IN id # ROOT => id \in nodes /\ key[id] = task[r].told[k][2]
        /\ task[r].op \in OnNode => FileOf(task[r].node) = task[r].got

(* Every request is answered, so that its task is free again: the loop that *)
(* tries a node's names one after the other ends, however often they turn   *)
(* out wrong (fuse.rs, getattr, setattr, open and opendir).                 *)
Answered == \A r \in Req : []<>(task[r] = Idle)
===========================================================================
