---------------------------- MODULE DirHandles ----------------------------
(* Directory listings through the client (client/src/fuse.rs, DirState):    *)
(* each handle buffers what a fetch brought beyond the kernel's page, and   *)
(* remembers the cookie at which a fetch said the directory ended, where    *)
(* later reads are answered without asking.  Names are added and removed    *)
(* while readers list, seek and stay parked at the end.  A name is its      *)
(* position, and the position is the cookie after it.                       *)
EXTENDS Integers, Sequences, SequencesExt, FiniteSets

CONSTANTS
    Handle,    \* open directory handles
    Dir,       \* directories
    MaxPos,    \* positions in a directory
    PageRoom,  \* entries the kernel's page takes
    FirstRoom, FetchRoom,  \* READDIR_FETCH_FIRST, READDIR_FETCH in entries
    MaxChanges \* bound: additions and removals

Pos == 1 .. MaxPos
NoEnd == 0

VARIABLES
    present,  \* the names of each directory, on the server
    reports,  \* directories of additions the server has yet to report
    dirs,     \* Shared.dirs: the state of each handle
    reader,   \* the program reading each handle
    call,     \* the readdir in flight on each handle
    steady,   \* history: the names there since the pass began
    unaware,  \* history: additions that no report will follow, or that a fetch was overtaken by
    changes

vars == <<present, reports, dirs, reader, call, steady, unaware, changes>>

Closed == [ino |-> "none"]
Opened(d) == [ino |-> d, buffer |-> <<>>, fresh |-> TRUE, end |-> NoEnd]
NoCall == [at |-> "none"]
Start == [offset |-> 0, seen |-> <<>>, done |-> FALSE]

Init ==
    /\ present \in [Dir -> {Pos \ {1}, Pos \ {MaxPos}}]
    /\ reports = {}
    /\ dirs = [h \in Handle |-> Closed]
    /\ reader = [h \in Handle |-> Start]
    /\ call = [h \in Handle |-> NoCall]
    /\ steady = [h \in Handle |-> {}]
    /\ unaware = [d \in Dir |-> {}]
    /\ changes = 0

Open == {h \in Handle : dirs[h] # Closed}
Reading(d) == {h \in Open : dirs[h].ino = d /\ call[h] # NoCall}
Resting(h) == h \in Open /\ call[h] = NoCall

---------------------------------------------------------------------------
(* The program and the kernel: one read at a time on a handle.              *)
opendir(h, d) ==
    /\ h \notin Open
    /\ dirs' = [dirs EXCEPT ![h] = Opened(d)]
    /\ reader' = [reader EXCEPT ![h] = Start]
    /\ steady' = [steady EXCEPT ![h] = present[d]]
    /\ UNCHANGED <<present, reports, call, unaware, changes>>

releasedir(h) ==
    /\ Resting(h)
    /\ dirs' = [dirs EXCEPT ![h] = Closed]
    /\ reader' = [reader EXCEPT ![h] = Start]
    /\ steady' = [steady EXCEPT ![h] = {}]
    /\ UNCHANGED <<present, reports, call, unaware, changes>>

Rewind(h) ==
    /\ Resting(h)
    /\ reader' = [reader EXCEPT ![h] = Start]
    /\ steady' = [steady EXCEPT ![h] = present[dirs[h].ino]]
    /\ UNCHANGED <<present, reports, dirs, call, unaware, changes>>

(* seekdir to a place in the pass so far.                                   *)
SeekBack(h) ==
    /\ Resting(h)
    /\ \E i \in 1 .. Len(reader[h].seen) - 1 :
         reader' = [reader EXCEPT ![h] = [offset |-> reader[h].seen[i],
                                          seen |-> SubSeq(reader[h].seen, 1, i), done |-> FALSE]]
    /\ UNCHANGED <<present, reports, dirs, call, steady, unaware, changes>>

---------------------------------------------------------------------------
(* Entries tagged with the cookie that yields them, as tag_with_cookies     *)
(* pairs them: the request's offset, then each entry's own.                 *)
tag_with_cookies(entries, first) ==
    [i \in 1 .. Len(entries) |-> <<IF i = 1 THEN first ELSE entries[i - 1], entries[i]>>]

(* What the kernel takes of a page; the rest is stashed.  An empty page is  *)
(* the end of the directory to it.                                          *)
Hand(h, page, state) ==
    \E k \in (IF page = <<>> THEN {0} ELSE 1 .. PageRoom) :
      LET taken == SubSeq(page, 1, k)
          rest == SubSeq(page, k + 1, Len(page))
          got == [i \in 1 .. Len(taken) |-> taken[i][2]]
      IN
      /\ k <= Len(page)
      /\ dirs' = [dirs EXCEPT ![h] = [state EXCEPT !.buffer = rest]]
      /\ reader' = [reader EXCEPT ![h] =
             [offset |-> IF got = <<>> THEN @.offset ELSE Last(got),
              seen |-> @.seen \o got, done |-> got = <<>>]]
      /\ call' = [call EXCEPT ![h] = NoCall]

(* mutant of BufferServes: whatever is asked for.                           *)
BufferServesAny(h, plus) == reader[h].offset # 0 /\ dirs[h].buffer # <<>>

(* The buffer serves a read at its first cookie, unless its attributes are  *)
(* too old for a readdirplus.                                               *)
BufferServes(h, plus) ==
    /\ reader[h].offset # 0
    /\ ~plus \/ dirs[h].fresh
    /\ dirs[h].buffer # <<>> /\ Head(dirs[h].buffer)[1] = reader[h].offset

AtEnd(h) == reader[h].offset # 0 /\ dirs[h].end = reader[h].offset

(* readdir and readdirplus as far as dir_page's first part.                 *)
Read(h, plus) ==
    /\ Resting(h)
    /\ \/ BufferServes(h, plus) /\ Hand(h, dirs[h].buffer, dirs[h])
       \/ ~BufferServes(h, plus) /\ AtEnd(h) /\ Hand(h, <<>>, dirs[h])
       \/ /\ ~BufferServes(h, plus) /\ ~AtEnd(h)
          /\ dirs' = [dirs EXCEPT ![h].buffer = <<>>]
          /\ call' = [call EXCEPT ![h] = [at |-> "sent"]]
          /\ UNCHANGED reader
    /\ UNCHANGED <<present, reports, steady, unaware, changes>>

After(d, offset) == {p \in present[d] : p > offset}

(* The server lists from the offset as many entries as asked for.           *)
Serve(h) ==
    LET after == SetToSortSeq(After(dirs[h].ino, reader[h].offset), <)
        room == IF reader[h].offset = 0 THEN FirstRoom ELSE FetchRoom
        sent == SubSeq(after, 1, IF Len(after) < room THEN Len(after) ELSE room)
    IN
    /\ call[h].at = "sent"
    /\ call' = [call EXCEPT ![h] = [at |-> "served", entries |-> sent, end |-> sent = after]]
    /\ UNCHANGED <<present, reports, dirs, reader, steady, unaware, changes>>

(* A fetch says where the directory ended, or that it did not end there.    *)
note_end(state, h) ==
    LET c == call[h] IN
    IF c.entries = <<>> THEN state
    ELSE [state EXCEPT !.end = IF c.end THEN Last(c.entries) ELSE NoEnd]

(* The rest of dir_page, and of the read.  An addition reported since the   *)
(* server answered is one this end does not know of.                        *)
Fetched(h) ==
    LET d == dirs[h].ino IN
    /\ call[h].at = "served"
    /\ Hand(h, tag_with_cookies(call[h].entries, reader[h].offset),
            note_end([dirs[h] EXCEPT !.fresh = TRUE], h))
    /\ unaware' = [unaware EXCEPT ![d] = @ \cup
           (IF d \in reports THEN {} ELSE After(d, reader[h].offset) \ ToSet(call[h].entries))]
    /\ UNCHANGED <<present, reports, steady, changes>>

FetchFails(h) ==
    /\ call[h].at \in {"sent", "served"}
    /\ call' = [call EXCEPT ![h] = NoCall]
    /\ UNCHANGED <<present, reports, dirs, reader, steady, unaware, changes>>

(* The attribute TTL passes.                                                *)
Age(h) ==
    /\ h \in Open /\ dirs[h].fresh /\ dirs[h].buffer # <<>>
    /\ dirs' = [dirs EXCEPT ![h].fresh = FALSE]
    /\ UNCHANGED <<present, reports, reader, call, steady, unaware, changes>>

---------------------------------------------------------------------------
Grown(d) == [h \in Handle |-> IF h \in Open /\ dirs[h].ino = d THEN [dirs[h] EXCEPT !.end = NoEnd] ELSE dirs[h]]

(* mutant of dir_grew: nothing is cleared.                                  *)
dir_grew_not(d) == UNCHANGED dirs

(* A name was added under the directory: its parked handles ask again.      *)
dir_grew(d) == dirs' = Grown(d)

dirs_grew_all ==
    dirs' = [h \in Handle |-> IF h \in Open THEN [dirs[h] EXCEPT !.end = NoEnd] ELSE dirs[h]]

Change == changes < MaxChanges /\ changes' = changes + 1

Added(d, p) == p \notin present[d] /\ present' = [present EXCEPT ![d] = @ \cup {p}]

(* This client's own create, link or rename: the kernel holds the           *)
(* directory's lock, so no listing of it is under way.  One that is         *)
(* answered with an error though carried out tells nobody.                  *)
OwnAdd(d, p) ==
    /\ Change /\ Added(d, p) /\ Reading(d) = {}
    /\ \/ dir_grew(d) /\ UNCHANGED unaware
       \/ UNCHANGED dirs /\ unaware' = [unaware EXCEPT ![d] = @ \cup {p}]
    /\ UNCHANGED <<reports, reader, call, steady>>

OtherAdd(d, p) ==
    /\ Change /\ Added(d, p)
    /\ reports' = reports \cup {d}
    /\ UNCHANGED <<dirs, reader, call, steady, unaware>>

(* A removal clears nothing.                                                *)
RemoveName(d, p) ==
    /\ Change /\ p \in present[d]
    /\ present' = [present EXCEPT ![d] = @ \ {p}]
    /\ unaware' = [unaware EXCEPT ![d] = @ \ {p}]
    /\ steady' = [h \in Handle |-> IF h \in Open /\ dirs[h].ino = d THEN steady[h] \ {p} ELSE steady[h]]
    /\ UNCHANGED <<reports, dirs, reader, call>>

(* The server's report of an addition, handled by the notifier.             *)
Report(d) ==
    /\ d \in reports /\ reports' = reports \ {d}
    /\ dir_grew(d)
    /\ UNCHANGED <<present, reader, call, steady, unaware, changes>>

(* A sweep, for reports lost.                                               *)
Sweep ==
    /\ reports # {} /\ reports' = {}
    /\ dirs_grew_all
    /\ UNCHANGED <<present, reader, call, steady, unaware, changes>>

Next ==
    \/ \E h \in Handle :
         \/ \E d \in Dir : opendir(h, d)
         \/ releasedir(h) \/ Rewind(h) \/ SeekBack(h)
         \/ \E plus \in BOOLEAN : Read(h, plus)
         \/ Serve(h) \/ Fetched(h) \/ FetchFails(h) \/ Age(h)
    \/ \E d \in Dir :
         \/ \E p \in Pos : OwnAdd(d, p) \/ OtherAdd(d, p) \/ RemoveName(d, p)
         \/ Report(d)
    \/ Sweep

Spec == Init /\ [][Next]_vars

---------------------------------------------------------------------------
(* A program that reads from the start until it is told of the end has been *)
(* given every name that was there all along, and none twice, whatever page *)
(* sizes, seeks, failures and buffers were in between (fuse.rs, dir_page).  *)
ListsEach ==
    \A h \in Open : /\ reader[h].done => steady[h] \subseteq ToSet(reader[h].seen)
                    /\ IsInjective(reader[h].seen)

(* A handle that answers its end without asking has missed no addition that *)
(* was made here or reported by the server, unless a fetch answered before  *)
(* the addition was still to land when the report was handled (fuse.rs,     *)
(* dir_grew and note_end).                                                  *)
ParkedIsCurrent ==
    \A h \in Open : dirs[h].end # NoEnd /\ dirs[h].ino \notin reports
                      => After(dirs[h].ino, dirs[h].end) \subseteq unaware[dirs[h].ino]
===========================================================================
