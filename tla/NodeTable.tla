----------------------------- MODULE NodeTable -----------------------------
(* The client's inode table (client/src/inodes.rs): which number the kernel *)
(* knows each file of the server by, and under which names the file can be  *)
(* addressed on the wire.  Every operation runs whole under one mutex, so   *)
(* each is one action; what makes the table hard is the order they come in: *)
(* the kernel forgets nodes when it likes, other clients rename and replace *)
(* files behind this one's back, inode numbers are recycled, and a path is  *)
(* taken out of the table, sent to the server, and only then found wrong.   *)
EXTENDS Integers, Sequences, FiniteSets, SequencesExt

CONSTANTS
    File,        \* the files of the server: a key (inode number, identity) each
    Ino,         \* the inode number of each file
    Foreign,     \* the files outside the export root's subvolume
    Directory,   \* the files that are directories
    Substitute,  \* where each file's substitute numbers start: a hash, so any number
    Name,        \* names of directory entries
    MaxId,       \* the last node number, where wrapping_add starts again
    MaxDepth,    \* MAX_DEPTH
    MaxNames,    \* bound: names in a path sent
    MaxLookups,  \* bound: lookups the kernel holds of one node
    MaxAliases   \* bound: names known of one node

ROOT == 1
Id == ROOT..MaxId
NoId == 0
NoFile == "unknown"

ASSUME TableConstants ==
    /\ Ino \in [File -> Id]
    /\ Substitute \in [File -> 2..MaxId]
    /\ Foreign \cup Directory \subseteq File
    /\ NoFile \notin File
    /\ {MaxId, MaxDepth, MaxNames, MaxLookups, MaxAliases} \subseteq Nat \ {0}

(* A free number is always found: the kernel never holds 2^64 nodes.        *)
ASSUME RoomForEveryFile == IsFiniteSet(File) /\ Cardinality(File) < MaxId

VARIABLES
    nodes,     \* the registered numbers
    key,       \* Node.key: the file each node is
    lookups,   \* Node.lookup_count
    aliases,   \* Node.aliases: the <<parent, name>> pairs, oldest first
    unlinked,  \* Node.unlinked
    children,  \* Node.children
    by_key     \* the number each known file is registered under

vars == <<nodes, key, lookups, aliases, unlinked, children, by_key>>

NoChildren == [n \in Name |-> NoId]

(* Each field of the table keeps its type: no forget takes a lookup count
   below zero, and none removes the root.                                  *)
TypeOK ==
    /\ nodes \subseteq Id /\ ROOT \in nodes
    /\ key \in [Id -> File \cup {NoFile}]
    /\ lookups \in [Id -> 0..MaxLookups]
    /\ \A i \in Id : aliases[i] \in Seq(Id \X Name) /\ Len(aliases[i]) <= MaxAliases
    /\ unlinked \in [Id -> BOOLEAN]
    /\ children \in [Id -> [Name -> Id \cup {NoId}]]
    /\ by_key \in [File -> Id \cup {NoId}]

Init ==
    /\ nodes = {ROOT}
    /\ key = [i \in Id |-> NoFile]
    /\ lookups = [i \in Id |-> IF i = ROOT THEN 1 ELSE 0]
    /\ aliases = [i \in Id |-> <<>>]
    /\ unlinked = [i \in Id |-> FALSE]
    /\ children = [i \in Id |-> NoChildren]
    /\ by_key = [f \in File |-> NoId]

---------------------------------------------------------------------------
(* Numbers.                                                                 *)

(* The first number from Substitute[f] on that no node has.                 *)
Probe(f) ==
    LET at(k) == 2 + ((Substitute[f] - 2 + k) % (MaxId - 1))
        taken(k) == at(k) \in nodes
    IN  at(CHOOSE k \in 0..MaxId : ~taken(k) /\ \A j \in 0..(k - 1) : taken(j))

IsRoot(f) == Ino[f] = ROOT /\ key[ROOT] \in {NoFile, f}

id_for(f) ==
    CASE IsRoot(f) -> ROOT
      [] ~IsRoot(f) /\ by_key[f] # NoId -> by_key[f]
      [] ~IsRoot(f) /\ by_key[f] = NoId /\ f \notin Foreign
           /\ Ino[f] > ROOT /\ Ino[f] \notin nodes -> Ino[f]
      [] OTHER -> Probe(f)

---------------------------------------------------------------------------
(* Paths.  An optional result is a set of at most one element.              *)

(* The names leading to every node, at each depth of the search: the newest *)
(* alias is tried first, and one whose directory has no names is passed     *)
(* over.                                                                    *)
names_at[d \in Nat] ==
    IF d > MaxDepth THEN [i \in Id |-> {}]
    ELSE LET deeper == names_at[d + 1]
             next(j) == IF j = ROOT THEN {<<>>} ELSE deeper[j]
         IN  [i \in Id |->
                LET ways == {k \in DOMAIN aliases[i] : next(aliases[i][k][1]) # {}}
                    newest == CHOOSE k \in ways : \A j \in ways : j <= k
                IN  IF i \notin nodes \/ ways = {} THEN {}
                    ELSE {Append(names, aliases[i][newest][2]) :
                            names \in next(aliases[i][newest][1])}]

names_to(i, depth) == IF i = ROOT THEN {<<>>} ELSE names_at[depth][i]

(* The directories the kernel may be naming an entry of.                    *)
Parent == {ROOT} \cup {i \in nodes : key[i] \in Directory}

child(p, n) == IF p \in nodes THEN children[p][n] ELSE NoId

---------------------------------------------------------------------------
(* Changes to the name lists.  al is a node's aliases.                      *)

Without(al, a) == SelectSeq(al, LAMBDA b : b # a)

(* A drop that leaves the flag to someone else.                             *)
DropAliasOnly(i, a) ==
    /\ aliases' = [aliases EXCEPT ![i] = Without(@, a)]
    /\ UNCHANGED unlinked

DropAlias(i, a) ==
    IF i \in nodes
    THEN /\ aliases' = [aliases EXCEPT ![i] = Without(@, a)]
         /\ unlinked' = [unlinked EXCEPT ![i] = @ \/ Without(aliases[i], a) = <<>>]
    ELSE UNCHANGED <<aliases, unlinked>>

---------------------------------------------------------------------------
(* A lookup that takes the entry and leaves the other node its name.        *)
insert_lookup_beside(p, n, f) ==
    LET id == id_for(f)
    IN  /\ p \in Parent /\ id # ROOT /\ lookups[id] < MaxLookups
        /\ nodes' = nodes \cup {id}
        /\ by_key' = [by_key EXCEPT ![f] = id]
        /\ key' = [key EXCEPT ![id] = IF id \in nodes THEN @ ELSE f]
        /\ lookups' = [lookups EXCEPT ![id] = @ + 1]
        /\ children' = [children EXCEPT ![p][n] = id]
        /\ aliases' = [aliases EXCEPT ![id] = Append(Without(@, <<p, n>>), <<p, n>>)]
        /\ unlinked' = [unlinked EXCEPT ![id] = FALSE]
        /\ Len(aliases'[id]) <= MaxAliases

(* insert_lookup: the kernel was told that p/n is file f.  The node takes   *)
(* the name from whichever node the table had under it.                     *)
insert_lookup(p, n, f) ==
    LET id == id_for(f)
        previous == child(p, n)
        dropped == IF previous \in nodes \ {id}
                   THEN [aliases EXCEPT ![previous] = Without(@, <<p, n>>)] ELSE aliases
    IN  /\ p \in Parent
        /\ id # ROOT
        /\ lookups[id] < MaxLookups
        /\ nodes' = nodes \cup {id}
        /\ by_key' = [by_key EXCEPT ![f] = id]
        /\ key' = [key EXCEPT ![id] = IF id \in nodes THEN @ ELSE f]
        /\ lookups' = [lookups EXCEPT ![id] = @ + 1]
        /\ children' = [children EXCEPT ![p][n] = id]
        /\ aliases' = [dropped EXCEPT ![id] = Append(Without(@, <<p, n>>), <<p, n>>)]
        /\ unlinked' = [i \in Id |-> IF i = id THEN FALSE
                                     ELSE unlinked[i] \/ (i = previous /\ dropped[i] = <<>>)]
        /\ Len(aliases'[id]) <= MaxAliases

(* insert_lookup of what claims to be the root: refused, nothing changes.   *)
insert_root(f) == id_for(f) = ROOT /\ UNCHANGED vars

(* root_seen: a getattr of the root described it.                           *)
root_seen(f) ==
    /\ Ino[f] = ROOT
    /\ key' = [key EXCEPT ![ROOT] = f]
    /\ UNCHANGED <<nodes, lookups, aliases, unlinked, children, by_key>>

(* A forget that leaves the file's entry in by_key.                         *)
ForgetNodeUnkeyed(i) ==
    /\ nodes' = nodes \ {i}
    /\ key' = [key EXCEPT ![i] = NoFile]
    /\ lookups' = [lookups EXCEPT ![i] = 0]
    /\ aliases' = [aliases EXCEPT ![i] = <<>>]
    /\ unlinked' = [unlinked EXCEPT ![i] = FALSE]
    /\ children' = [p \in Id |-> IF p = i THEN NoChildren ELSE
                      [n \in Name |-> IF children[p][n] = i THEN NoId ELSE children[p][n]]]
    /\ UNCHANGED by_key

(* forget: the kernel drops n of its lookups.  At zero the node goes, and   *)
(* with it every entry of another node's children that its aliases name.    *)
ForgetNode(i) ==
    /\ nodes' = nodes \ {i}
    /\ key' = [key EXCEPT ![i] = NoFile]
    /\ lookups' = [lookups EXCEPT ![i] = 0]
    /\ by_key' = [f \in File |-> IF f = key[i] THEN NoId ELSE by_key[f]]
    /\ aliases' = [aliases EXCEPT ![i] = <<>>]
    /\ unlinked' = [unlinked EXCEPT ![i] = FALSE]
    /\ children' = [p \in Id |-> IF p = i THEN NoChildren ELSE
                      [n \in Name |-> IF /\ children[p][n] = i
                                         /\ <<p, n>> \in Range(aliases[i])
                                      THEN NoId ELSE children[p][n]]]

forget(i, n) ==
    /\ i \in nodes \ {ROOT}
    /\ n \in 1..lookups[i]
    /\ IF n < lookups[i]
       THEN /\ lookups' = [lookups EXCEPT ![i] = @ - n]
            /\ UNCHANGED <<nodes, key, aliases, unlinked, children, by_key>>
       ELSE ForgetNode(i)

---------------------------------------------------------------------------
(* unlink: p/n was removed through this client.                             *)
unlink(p, n) ==
    /\ child(p, n) # NoId
    /\ children' = [children EXCEPT ![p][n] = NoId]
    /\ DropAlias(child(p, n), <<p, n>>)
    /\ UNCHANGED <<nodes, key, lookups, by_key>>

(* rename: p/n became q/m through this client, over whatever was there.     *)
(* Two names of one file: nothing happens.                                  *)
rename(p, n, q, m) ==
    LET c == child(p, n)
        replaced == child(q, m)
        freed == [i \in Id |-> IF i = replaced THEN Without(aliases[i], <<q, m>>)
                               ELSE aliases[i]]
    IN  /\ c # NoId
        /\ replaced # c
        /\ q \in Parent
        /\ children' = [children EXCEPT ![p][n] = NoId, ![q][m] = c]
        /\ aliases' = [freed EXCEPT ![c] = Append(Without(@, <<p, n>>), <<q, m>>)]
        /\ unlinked' = [i \in Id |-> unlinked[i] \/ (i = replaced /\ freed[i] = <<>>)]
        /\ Len(aliases'[c]) <= MaxAliases
        /\ UNCHANGED <<nodes, key, lookups, by_key>>

(* An exchange that leaves one of the two its old name only.                *)
ExchangeOne(p, n, q, m) ==
    LET a == child(p, n)
        b == child(q, m)
    IN  /\ NoId \notin {a, b} /\ a # b
        /\ children' = [children EXCEPT ![p][n] = b, ![q][m] = a]
        /\ aliases' = [aliases EXCEPT ![a] = Append(Without(@, <<p, n>>), <<q, m>>)]
        /\ Len(aliases'[a]) <= MaxAliases
        /\ UNCHANGED <<nodes, key, lookups, unlinked, by_key>>

(* exchange: the two entries swap files; with one of them unknown, both are *)
(* let go (which the two unlinks do).                                       *)
ExchangeBoth(p, n, q, m) ==
    LET a == child(p, n)
        b == child(q, m)
    IN  /\ NoId \notin {a, b} /\ a # b
        /\ children' = [children EXCEPT ![p][n] = b, ![q][m] = a]
        /\ aliases' = [aliases EXCEPT ![a] = Append(Without(@, <<p, n>>), <<q, m>>),
                                      ![b] = Append(Without(@, <<q, m>>), <<p, n>>)]
        /\ \A c \in {a, b} : Len(aliases'[c]) <= MaxAliases
        /\ UNCHANGED <<nodes, key, lookups, unlinked, by_key>>

exchange(p, n, q, m) ==
    \/ ExchangeBoth(p, n, q, m)
    \/ child(p, n) # NoId /\ child(q, m) = NoId /\ unlink(p, n)
    \/ child(p, n) = NoId /\ child(q, m) # NoId /\ unlink(q, m)

---------------------------------------------------------------------------
(* alias_was_wrong: path, given for node i some time before, led to another *)
(* file.  The newest alias that spells it goes.                             *)
Spelling(i, path) ==
    {k \in DOMAIN aliases[i] : /\ aliases[i][k][2] = Last(path)
                               /\ names_to(aliases[i][k][1], 0) = {Front(path)}}

alias_was_wrong(i, path) ==
    LET found == Spelling(i, path)
        at == CHOOSE k \in found : \A j \in found : j <= k
        a == aliases[i][at]
    IN  /\ i \in nodes
        /\ path # <<>>
        /\ found # {}
        /\ aliases' = [aliases EXCEPT ![i] = RemoveAt(@, at)]
        /\ unlinked' = [unlinked EXCEPT ![i] = @ \/ Len(aliases[i]) = 1]
        /\ children' = IF child(a[1], a[2]) = i
                       THEN [children EXCEPT ![a[1]][a[2]] = NoId] ELSE children
        /\ UNCHANGED <<nodes, key, lookups, by_key>>

---------------------------------------------------------------------------
(* Paths a request may have been sent with.                                 *)
Path == SeqOf(Name, MaxNames)

Next ==
    \/ \E f \in File : insert_root(f) \/ root_seen(f)
    \/ \E p \in Id, n \in Name, f \in File : insert_lookup(p, n, f)
    \/ \E i \in Id, n \in 1..MaxLookups : forget(i, n)
    \/ \E p \in Id, n \in Name : unlink(p, n)
    \/ \E p, q \in Id, n, m \in Name : rename(p, n, q, m) \/ exchange(p, n, q, m)
    \/ \E i \in Id, path \in Path : alias_was_wrong(i, path)

Spec == Init /\ [][Next]_vars

---------------------------------------------------------------------------
(* One node per file and one file per node: by_key and the nodes' keys are  *)
(* inverse, so that no two files ever share a number and hardlinks share    *)
(* one, whatever numbers were recycled, substituted or forgotten between    *)
(* (inodes.rs, id_for, insert_lookup and forget).                           *)
OneNodePerFile ==
    /\ \A i \in nodes \ {ROOT} : key[i] \in File /\ by_key[key[i]] = i
    /\ \A f \in File : by_key[f] # NoId => by_key[f] \in nodes /\ key[by_key[f]] = f

(* The entries a directory node lists are nodes the table has, known by     *)
(* that very name.  forget finds the entries to take out through the        *)
(* node's aliases alone, so an entry without its alias would outlive its    *)
(* node, and an event for that path would reach another file's node.        *)
ChildrenNamed ==
    \A p \in Id, n \in Name : children[p][n] # NoId =>
        /\ p \in nodes /\ children[p][n] \in nodes
        /\ <<p, n>> \in Range(aliases[children[p][n]])

(* A node is marked unlinked exactly when no name of it is left.  rename    *)
(* and exchange add names without looking at the mark, and unlinked_file    *)
(* (fuse.rs) answers a flush of times without the server on its word.       *)
UnlinkedIsNameless == \A i \in nodes \ {ROOT} : unlinked[i] <=> aliases[i] = <<>>

(* The names the table would address a node by although their directory     *)
(* lists something else, or nothing, under them.                            *)
Stale == {s \in nodes \X (nodes \X Name) :
            s[2] \in Range(aliases[s[1]]) /\ children[s[2][1]][s[2][2]] # s[1]}

(* A name goes stale in one way only: its directory is forgotten and then   *)
(* looked up again, without its entries.  (A name that is recorded twice    *)
(* also does, when alias_was_wrong takes one of the two and the entry.)     *)
NamesGoStale ==
    [][\A s \in Stale' \ Stale : \/ s[2][1] \in nodes' \ nodes
                                 \/ ~IsInjective(aliases[s[1]])]_vars
===========================================================================
