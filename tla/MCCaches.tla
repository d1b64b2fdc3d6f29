----------------------------- MODULE MCCaches -------------------------------
(* What a mount keeps and shows, on an instance small enough for TLC: the   *)
(* caches of one file, the buffers of directory handles, and owners.  They  *)
(* do not meet: a behaviour is of the part that `focus` names, and leaves   *)
(* the others as they were.                                                 *)
EXTENDS Owners

CONSTANTS
    Req, Fh, Xattr, QueueRoom, MaxVer, MaxRequests,
    Handle, Dir, MaxPos, PageRoom, FirstRoom, FetchRoom, MaxChanges

VARIABLES
    focus,
    ver, names, kview, linked, kopen, kcount, forgets, lookups, live, dead, reported, xattrs,
    queue, task, asked, late, missed,
    present, reports, dirs, reader, call, steady, unaware, changes

fileVars == <<ver, names, kview, linked, kopen, kcount, forgets, lookups, live, dead, reported,
              xattrs, queue, task, asked, late, missed>>
dirVars  == <<present, reports, dirs, reader, call, steady, unaware, changes>>

C == INSTANCE FileCaches
D == INSTANCE DirHandles

(* A part that is not looked at starts in one of its states.                *)
MCInit ==
    /\ focus \in {"file", "dir", "owners"}
    /\ C!Init /\ D!Init /\ Init
    /\ focus # "dir" => \A d \in Dir : 1 \in present[d]
    /\ focus = "owners" => server.own["user"] # 1     \* or with 0 and 1 exchanged
    /\ focus # "owners" => /\ {server.mode, mount.mode} = {"direct"} /\ acl = {}
                           /\ \A k \in Kind : {server.own[k], mount.local[k], owner[k]} = {Nobody}

MCNext ==
    \/ focus = "file" /\ C!Next /\ UNCHANGED <<focus, dirVars, vars>>
    \/ focus = "dir" /\ D!Next /\ UNCHANGED <<focus, fileVars, vars>>
    \/ focus = "owners" /\ Next /\ UNCHANGED <<focus, fileVars, dirVars>>

MCSpec == MCInit /\ [][MCNext]_<<focus, fileVars, dirVars, vars>>

(* A file that nobody holds open here and that the kernel has out of date   *)
(* is found out by the next reply about it (fuse.rs, attr_reported and      *)
(* release).                                                                *)
StaleIsDetected == C!StaleIsDetected

(* A name this client has set is not missing from what it knows of the      *)
(* file's names, and one it removed not listed (fuse.rs, setxattr and       *)
(* getxattr).                                                               *)
OwnNamesKnown == C!OwnNamesKnown

(* A program that lists a directory to its end has been given every name    *)
(* that was there all along, and none twice; and a handle that answers its  *)
(* end without asking has missed no addition made here or reported by the   *)
(* server (fuse.rs, dir_page, dir_grew and note_end).                       *)
ListsEach == D!ListsEach /\ D!ParkedIsCurrent
===========================================================================
