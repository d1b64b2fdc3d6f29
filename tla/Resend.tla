------------------------------- MODULE Resend -------------------------------
(***************************************************************************)
(* What a request does when the server runs it a second time.  A call      *)
(* whose reply was lost with its connection is sent again when             *)
(* `retry_safe` (crates/client/src/client.rs) says so; CallProtocol has    *)
(* when that happens, this module what it does to the files, against       *)
(* `Ops::run` (crates/server/src/ops.rs).  The second run meets the        *)
(* handles of the first one's session or, when that session was lost too,  *)
(* the ones the client reopened (`HandleRec::reopen_request`,              *)
(* crates/client/src/handles.rs).                                          *)
(*                                                                         *)
(* One directory; a file is its bytes and one extended attribute.  The     *)
(* calls the server makes are the filesystem's, external.                  *)
(***************************************************************************)
EXTENDS Integers, Sequences, FiniteSets, SequencesExt, FiniteSetsExt

CONSTANTS
  Name, Fh,
  MAX_COPY,     \* most bytes one CopyFileRange copies
  MaxLen,       \* bound on a file's size
  MaxWork       \* bound on the requests asked and sessions lost

VARIABLES
  fs,           \* [at: Name -> inode if any, data, tag: by inode, open: Fh -> handle if any]
  rec,          \* the client's handle table: Fh -> HandleRec if any
  used,         \* the ids `HandleTable::alloc` has given out
  work

vars == <<fs, rec, used, work>>

Ino == 1 .. Cardinality(Name) + Cardinality(Fh)     \* never all in use

-----------------------------------------------------------------------------
(* The filesystem. *)

Done(f, reply) == [fs |-> f, reply |-> reply]
Fails(f, errno) == Done(f, <<errno>>)

InUse(f) == UNION {f.at[n] : n \in Name} \cup {h.ino : h \in UNION {f.open[x] : x \in Fh}}

Resized(d, n) == [i \in 1 .. n |-> IF i <= Len(d) THEN d[i] ELSE 0]
Larger(a, b)  == IF a > b THEN a ELSE b

(* Bytes `new` put at an offset, which may lie past the end.               *)
Spliced(d, off, new) ==
  [i \in 1 .. Larger(Len(d), off + Len(new)) |->
     IF i > off /\ i <= off + Len(new) THEN new[i - off]
     ELSE IF i <= Len(d) THEN d[i] ELSE 0]

Attr(f, i) == <<"attr", i, Len(f.data[i])>>

(* A handle is put under its id.                                           *)
Opened(f, fh, i, flags) ==
  LET g == [f EXCEPT !.open[fh] = {[ino |-> i, append |-> "append" \in flags]},
                     !.data[i]  = IF "trunc" \in flags THEN <<>> ELSE @]
  IN  Done(g, Attr(g, i))

NewFile(f, n) ==
  LET i == Min(Ino \ InUse(f))
  IN  [f EXCEPT !.at[n] = {i}, !.data[i] = <<>>, !.tag[i] = {}]

-----------------------------------------------------------------------------
(* Ops::run. *)

(* An open or a create whose id already has a handle opens nothing.        *)
OpenFile(f, r) ==
  IF f.open[r.fh] # {} THEN Done(f, Attr(f, (CHOOSE h \in f.open[r.fh] : TRUE).ino))
  ELSE IF f.at[r.path] # {}
       THEN IF "excl" \in r.flags THEN Fails(f, "EEXIST")
            ELSE Opened(f, r.fh, CHOOSE i \in f.at[r.path] : TRUE, r.flags)
  ELSE IF r.op = "open" THEN Fails(f, "ENOENT")
  ELSE LET g == NewFile(f, r.path)
       IN  Opened(g, r.fh, CHOOSE i \in g.at[r.path] : TRUE, r.flags)

Release(f, r) == Done([f EXCEPT !.open[r.fh] = {}], <<"ok">>)

(* A write on a handle opened to append goes to the end of the file.       *)
Write(f, h, r) ==
  LET off == IF h.append THEN Len(f.data[h.ino]) ELSE r.off
  IN  Done([f EXCEPT !.data[h.ino] = Spliced(@, off, <<r.val>>)], <<"written", 1>>)

(* The count is cut to MAX_COPY by the server, and to the end of the
   source by the filesystem, which refuses overlapping ranges of one file. *)
CopyFileRange(f, h, r) ==
  LET out   == CHOOSE o \in f.open[r.out] : TRUE
      src   == f.data[h.ino]
      count == Min({r.len, MAX_COPY, Larger(Len(src) - r.off, 0)})
  IN  IF out.append THEN Fails(f, "EBADF")
      ELSE IF h.ino = out.ino /\ r.to < r.off + count /\ r.off < r.to + count
      THEN Fails(f, "EINVAL")
      ELSE Done(IF count = 0 THEN f
                ELSE [f EXCEPT !.data[out.ino] =
                        Spliced(@, r.to, SubSeq(src, r.off + 1, r.off + count))],
                <<"copied", count>>)

Fallocate(f, h, r) ==
  LET d    == f.data[h.ino]
      upTo == Min({Len(d), r.off + r.len})
  IN  Done([f EXCEPT !.data[h.ino] =
              CASE r.mode = "allocate"  -> Resized(d, Larger(Len(d), r.off + r.len))
                [] r.mode = "keep_size" -> d
                [] r.mode = "punch"     -> [i \in DOMAIN d |-> IF i > r.off /\ i <= upTo
                                                               THEN 0 ELSE d[i]]],
           <<"ok">>)

(* The requests that name a path of a file there is.                       *)
ByPath(f, r, i) ==
  CASE r.op = "getattr" -> Done(f, Attr(f, i))
    [] r.op = "setattr" ->
         LET g == [f EXCEPT !.data[i] = Resized(@, r.size)] IN Done(g, Attr(g, i))
    [] r.op = "getxattr" -> Done(f, <<"xattr", f.tag[i]>>)
    [] r.op = "setxattr" ->
         IF r.flag = "create" /\ f.tag[i] # {} THEN Fails(f, "EEXIST")
         ELSE IF r.flag = "replace" /\ f.tag[i] = {} THEN Fails(f, "ENODATA")
         ELSE Done([f EXCEPT !.tag[i] = {r.val}], <<"ok">>)
    [] r.op = "removexattr" ->
         IF f.tag[i] = {} THEN Fails(f, "ENODATA")
         ELSE Done([f EXCEPT !.tag[i] = {}], <<"ok">>)
    [] r.op = "unlink" -> Done([f EXCEPT !.at[r.path] = {}], <<"ok">>)
    [] r.op = "link" ->
         IF f.at[r.to] # {} THEN Fails(f, "EEXIST")
         ELSE Done([f EXCEPT !.at[r.to] = {i}], Attr(f, i))
    [] r.op = "rename" ->
         Done(IF f.at[r.to] = {i} THEN f
              ELSE [f EXCEPT !.at[r.to] = {i}, !.at[r.path] = {}], <<"ok">>)

Mknod(f, r) ==
  IF f.at[r.path] # {} THEN Fails(f, "EEXIST")
  ELSE LET g == NewFile(f, r.path)
       IN  Done(g, Attr(g, CHOOSE i \in g.at[r.path] : TRUE))

ByHandle(f, r, h) ==
  CASE r.op = "read"      -> Done(f, <<"read", f.data[h.ino]>>)
    [] r.op = "write"     -> Write(f, h, r)
    [] r.op = "copy"      -> CopyFileRange(f, h, r)
    [] r.op = "fallocate" -> Fallocate(f, h, r)

Opens    == {"open", "create"}
Handled  == {"read", "write", "copy", "fallocate"}

run(f, r) ==
  IF r.op \in Opens THEN OpenFile(f, r)
  ELSE IF r.op = "release" THEN Release(f, r)
  ELSE IF r.op = "mknod" THEN Mknod(f, r)
  ELSE IF r.op \in Handled
       THEN IF f.open[r.fh] = {} THEN Fails(f, "EBADF")
            ELSE ByHandle(f, r, CHOOSE h \in f.open[r.fh] : TRUE)
  ELSE IF f.at[r.path] = {} THEN Fails(f, "ENOENT")
  ELSE ByPath(f, r, CHOOSE i \in f.at[r.path] : TRUE)

-----------------------------------------------------------------------------
(* The client. *)

(* `Request::fhs`: the handles a request names.                            *)
fhs(r) == IF r.op = "copy" THEN {r.fh, r.out}
          ELSE IF r.op \in Handled \cup Opens \cup {"release"} THEN {r.fh} ELSE {}

appends(fh) == \E h \in rec[fh] : "append" \in h.flags

(* mutant of retry_safe: any write is sent again.                          *)
retry_safe_writes(r) ==
  CASE r.op \in {"open", "create"} -> r.flags \cap {"excl", "trunc"} = {}
    [] r.op = "setxattr" -> r.flag = "any"
    [] OTHER -> r.op \notin {"mknod", "unlink", "rename", "link", "removexattr"}

retry_safe(r) ==
  CASE r.op = "write"    -> rec[r.fh] # {} /\ ~appends(r.fh)
    [] r.op = "open"     -> "trunc" \notin r.flags
    [] r.op = "create"   -> r.flags \cap {"excl", "trunc"} = {}
    [] r.op = "setxattr" -> r.flag = "any"
    [] OTHER -> r.op \notin {"mknod", "unlink", "rename", "link", "removexattr"}

(* mutant of reopen_request: the flags of the open are used as they are.   *)
reopen_request_as_opened(fh, h) == [op |-> "open", fh |-> fh, path |-> h.path, flags |-> h.flags]

reopen_request(fh, h) ==
  [op |-> "open", fh |-> fh, path |-> h.path, flags |-> h.flags \ {"excl", "trunc"}]

(* The handles of a lost session, reopened: one whose path no longer leads
   to its file is dead (HandleProtocol has the round itself).              *)
Alive(f, fh) == \A h \in rec[fh] : f.at[h.path] = {h.key}

Reopened(f) ==
  LET none  == [f EXCEPT !.open = [x \in Fh |-> {}]]
      again == {x \in Fh : rec[x] # {} /\ Alive(f, x)}
  IN  FoldSet(LAMBDA x, g : run(g, reopen_request(x, CHOOSE h \in rec[x] : TRUE)).fs,
              none, again)

-----------------------------------------------------------------------------
(* Requests. *)

Flags(all) == SUBSET all
Val == {1}

Request ==
  [op : {"open"}, fh : Fh, path : Name, flags : Flags({"append", "trunc"})]
  \cup [op : {"create"}, fh : Fh, path : Name, flags : Flags({"append", "trunc", "excl"})]
  \cup [op : {"release", "read"}, fh : Fh]
  \cup [op : {"write"}, fh : Fh, off : 0 .. MaxLen - 1, val : Val]
  \cup [op : {"copy"}, fh : Fh, off : 0 .. MaxLen - 1, out : Fh, to : 0 .. MaxLen - 1, len : 1 .. 2]
  \cup [op : {"fallocate"}, fh : Fh, off : 0 .. MaxLen - 2, len : 1 .. 2,
        mode : {"allocate", "keep_size", "punch"}]
  \cup [op : {"getattr", "getxattr", "removexattr", "unlink", "mknod"}, path : Name]
  \cup [op : {"setattr"}, path : Name, size : 0 .. MaxLen]
  \cup [op : {"setxattr"}, path : Name, flag : {"any", "create", "replace"}, val : Val]
  \cup [op : {"link", "rename"}, path : Name, to : Name]

Size(fh) == Max({0} \cup {Len(fs.data[h.ino]) : h \in fs.open[fh]})

(* What this client asks: an open under a fresh id, other requests with
   handles it has, a copy that ends within the source as the kernel cuts
   it, and nothing past the bound.                                         *)
Asked(r) ==
  /\ IF r.op \in Opens THEN r.fh \notin used ELSE \A x \in fhs(r) : rec[x] # {}
  /\ r.op = "write" /\ appends(r.fh) => Size(r.fh) < MaxLen
  /\ r.op = "copy" => r.off + r.len <= Size(r.fh) /\ r.to + r.len <= MaxLen

(* One file is there when the client comes.                                *)
Init ==
  /\ LET first == CHOOSE n \in Name : TRUE
     IN  fs = [at   |-> [n \in Name |-> IF n = first THEN {1} ELSE {}],
               data |-> [i \in Ino |-> IF i = 1 THEN <<1>> ELSE <<>>],
               tag  |-> [i \in Ino |-> {}], open |-> [x \in Fh |-> {}]]
  /\ rec = [x \in Fh |-> {}] /\ used = {} /\ work = 0

(* What an answered request leaves in the handle table.                    *)
Settled(r, reply) ==
  CASE r.op \in Opens /\ reply[1] = "attr" ->
         [rec EXCEPT ![r.fh] = {[path |-> r.path, key |-> reply[2], flags |-> r.flags]}]
    [] r.op = "release" -> [rec EXCEPT ![r.fh] = {}]
    [] OTHER -> rec

Ask(r) ==
  /\ Asked(r)
  /\ LET done == run(fs, r) IN fs' = done.fs /\ rec' = Settled(r, done.reply)
  /\ used' = IF r.op \in Opens THEN used \cup {r.fh} ELSE used

(* The session is lost and another one begun; a handle with no file at its
   path is forgotten here with its death.                                  *)
SessionLost ==
  /\ fs'  = Reopened(fs)
  /\ rec' = [x \in Fh |-> IF Alive(fs, x) THEN rec[x] ELSE {}]
  /\ UNCHANGED used

Next == work < MaxWork /\ work' = work + 1 /\ ((\E r \in Request : Ask(r)) \/ SessionLost)

Spec == Init /\ [][Next]_vars

-----------------------------------------------------------------------------
Files(f) == <<f.at, [n \in Name |-> {<<f.data[i], f.tag[i]>> : i \in f.at[n]}]>>

(* A request that `retry_safe` lets a client send again after its reply
   was lost has one outcome, however often the server runs it: the second
   run leaves the files as the first did and gives the same reply, in the
   same session and, where its handles could be reopened, in a later one.  *)
ResendIsHarmless ==
  \A r \in {q \in Request : Asked(q) /\ retry_safe(q)} :
    LET once == run(fs, r)
        kept == \A x \in fhs(r) : r.op \in Opens \/ Alive(once.fs, x)
        Same(f) == LET again == run(f, r)
                   IN  again.reply = once.reply /\ Files(again.fs) = Files(once.fs)
    IN  Same(once.fs) /\ (kept => Same(Reopened(once.fs)))
=============================================================================
