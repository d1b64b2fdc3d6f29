----------------------------- MODULE MCServer -------------------------------
(* The server's operations on the export, what they do when a request is    *)
(* run again, and the pool of handles, on an instance small enough for TLC. *)
(* The parts do not meet: a behaviour is of the one that `focus` names, and *)
(* leaves the others as they were.                                          *)
EXTENDS ServerOps, HandlePool

CONSTANTS F, G, MAX_COPY, MaxLen, MaxWork

VARIABLES focus, fs, rec, ids, work

fileVars == <<fs, rec, ids, work>>

R == INSTANCE Resend WITH Name <- {1, 2}, used <- ids

(* Threads are interchangeable.                                             *)
Symmetry == Permutations(Thread)

MCPaths == {<<1>>, <<1, 1>>, <<2>>, <<3>>}

(* Two names in the root, a directory and a file open already, and a file   *)
(* in the directory.                                                        *)
OpInit ==
    /\ tree = [at \in Dir \X Name |-> CASE at = <<Root, 1>> -> Sub [] at = <<Root, 2>> -> F
                                       [] at = <<Sub, 1>> -> G [] OTHER -> Nil]
    /\ attr = [x \in Dir \cup File |-> Fresh]
    /\ log = {} /\ handles = {[node |-> F, path |-> <<2>>]}
    /\ pos = 0 /\ lock = Nil
    /\ task = [t \in Thread |-> Idle]
    /\ asked = 0 /\ outside = 0 /\ moved = {} /\ echoes = {}

MCInit ==
    /\ focus \in {"ops", "files", "pool"}
    /\ OpInit /\ PoolInit /\ R!Init
    /\ focus # "pool" => key = [o \in Open |-> CHOOSE k \in Key : TRUE]

MCNext ==
    \/ focus = "ops" /\ Next /\ UNCHANGED <<focus, poolVars, fileVars>>
    \/ focus = "files" /\ R!Next /\ UNCHANGED <<focus, vars, poolVars>>
    \/ focus = "pool" /\ PoolNext /\ UNCHANGED <<focus, vars, fileVars>>

MCSpec == MCInit /\ [][MCNext]_<<focus, vars, poolVars, fileVars>>

(* A page of a listing has the names after its own offset in order, none    *)
(* left out, whatever other page is read through the same handle, and every *)
(* entry describes one file (dirents.rs, read_dir; export.rs, attr_entry).  *)
ListingIsTrue == PageFollowsOffset /\ EntryIsOneFile

(* A request that retry_safe lets a client send again has one outcome,      *)
(* however often the server runs it (client.rs retry_safe, Ops::run).       *)
ResendIsHarmless == focus = "files" => R!ResendIsHarmless
===========================================================================
