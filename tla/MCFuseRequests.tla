-------------------------- MODULE MCFuseRequests --------------------------
(* An instance of FuseRequests for TLC.                                     *)
EXTENDS FuseRequests

CONSTANTS root, folder, twin, inner, new, one, two

(* A directory with a file of another subvolume in it that has the same     *)
(* inode number, and a filesystem mounted there whose root is numbered 1 as *)
(* the export's is.                                                         *)
InoOf == [f \in File |-> IF f \in {root, inner} THEN 1 ELSE IF f = new THEN 3 ELSE 2]
SubstituteOf == [f \in File |-> IF f = inner THEN 3 ELSE 2]
Entries == {<<root, one, folder>>, <<folder, two, twin>>, <<folder, one, inner>>}

(* The kernel has looked up one, and looked up and opened one/two; it has   *)
(* not asked about the root yet.                                            *)
Warm(was, x, y) == [k \in Id |-> IF k = 2 THEN x ELSE IF k = 3 THEN y ELSE was]
MCInit ==
    /\ nodes = {ROOT, 2, 3}
    /\ key = Warm(NoFile, folder, twin)
    /\ lookups = [Warm(0, 1, 1) EXCEPT ![ROOT] = 1]
    /\ aliases = Warm(<<>>, <<<<ROOT, one>>>>, <<<<2, two>>>>)
    /\ unlinked = Warm(FALSE, FALSE, FALSE)
    /\ children = [Warm(NoChildren, NoChildren, NoChildren) EXCEPT ![ROOT][one] = 2, ![2][two] = 3]
    /\ by_key = [f \in File |-> IF f = folder THEN 2 ELSE IF f = twin THEN 3 ELSE NoId]
    /\ held = Warm(0, 1, 1)
    /\ live = {3}
    /\ ent = Served
    /\ task = [r \in Req |-> Idle]
    /\ asked = 0 /\ outside = 0

MCSpec == MCInit /\ [][FuseNext]_<<vars, fuse>> /\ \A r \in Req : WF_task(Work(r))

(* The table of nodes stays consistent under every interleaving of requests *)
(* and forgets: one node per file, entries and names that match, the mark   *)
(* of an unlinked file exactly where no name is left; and a name goes stale *)
(* only with its directory's node (inodes.rs).                              *)
NodesAgree == [](OneNodePerFile /\ ChildrenNamed /\ UnlinkedIsNameless) /\ NamesGoStale
===========================================================================
