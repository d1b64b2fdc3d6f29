------------------------------- MODULE Wire -------------------------------
(* One message on one stream: it is built, framed and written by one side,  *)
(* and read in pieces and parsed by the other, while the stream may end at  *)
(* any byte (proto/src/codec.rs, wire.rs).  A readdir reply is first        *)
(* gathered entry by entry within its budget (server/src/dirents.rs).       *)
EXTENDS WireMessages

CONSTANTS
    MAX_FRAME,   \* largest frame body, in bytes
    MAX_IO,      \* largest payload, and largest budget of a listing page
    READ_CHUNK,  \* bytes of a body read per step
    Messages,    \* what is sent
    Entries      \* the directory entries a listing may meet

VARIABLES
    page,     \* the listing being gathered: its entries and the bytes counted for them
    msg,      \* the message sent, {} before
    frame,    \* its frame: body length, words, what it holds; {} when it is too large to send
    arrived,  \* bytes of the stream that have reached the reader
    cut,      \* the stream has ended short of its frame
    reader    \* the reader: what it is at, the length it was told, what it has filled, its result

vars == <<page, msg, frame, arrived, cut, reader>>

---------------------------------------------------------------------------
(* Values on the wire.                                                      *)

RECURSIVE BuildAs(_, _), BuildStruct(_), Content(_), ParseAs(_, _), ParseStruct(_, _), Refused(_, _, _)

BuildStruct(m) ==
    LET b == Build[m.of][m.op]
    IN  [t |-> "struct", of |-> m.of, which |-> b.which,
         slots |-> [s \in DOMAIN b.put |-> BuildAs(Type[m.of][m.op][b.put[s]], m.f[b.put[s]])]]

(* A path goes as a list of its names' bytes (build_path), an option as the *)
(* union or the pointer that stands for it.                                 *)
BuildAs(ty, v) ==
    CASE ty.t = "num" -> [t |-> "int", v |-> v]
      [] ty.t = "text" -> [t |-> "text", b |-> v]
      [] ty.t \in {"data", "name", "token", "handle"} -> [t |-> "data", b |-> v]
      [] ty.t = "path" -> [t |-> "list", items |-> [i \in DOMAIN v |-> BuildAs(NameT, v[i])]]
      [] ty.t = "list" -> [t |-> IF ty.ty.t = "struct" THEN "structs" ELSE "list",
                           items |-> [i \in DOMAIN v |-> BuildAs(ty.ty, v[i])]]
      [] ty.t = "opt" -> [t |-> "opt", v |-> {BuildAs(ty.ty, x) : x \in v}]
      [] ty.t = "struct" -> BuildStruct(v)

(* The words of each struct, its data and its pointers, as the schema lays  *)
(* it out.                                                                  *)
StructWords ==
    [Request |-> 6 + 4, Response |-> 2 + 1, Hello |-> 2 + 2, HelloReply |-> 4 + 2, Event |-> 0 + 2,
     EventItem |-> 1 + 2, NoticeHandles |-> 2 + 0, Attr |-> 12 + 2, Identity |-> 1 + 1,
     DirEntry |-> 2 + 2, Statfs |-> 7 + 0, SetAttr |-> 4 + 2, TimeOrNow |-> 1 + 1,
     TimeSpec |-> 2 + 0, Resume |-> 1 + 1]

(* The words a value takes beyond the slot that holds it: a list has a word *)
(* per pointer, a list of structs a word for its tag, and a text a NUL.     *)
Content(w) ==
    CASE w.t = "int" -> 0
      [] w.t = "data" -> Words(w.b.len)
      [] w.t = "text" -> Words(w.b.len + 1)
      [] w.t = "list" -> Len(w.items) + SumFunction([i \in DOMAIN w.items |-> Content(w.items[i])])
      [] w.t = "structs" -> 1 + SumFunction([i \in DOMAIN w.items |-> Content(w.items[i])])
      [] w.t = "opt" -> IF w.v = {} THEN 0 ELSE Content(CHOOSE x \in w.v : TRUE)
      [] w.t = "struct" -> StructWords[w.of] + SumFunction([s \in DOMAIN w.slots |-> Content(w.slots[s])])

(* A slot that was never set reads as zero or empty. *)
Default(ty) ==
    CASE ty.t = "num" -> 0
      [] ty.t \in {"path", "list"} -> <<>>
      [] ty.t = "opt" -> {}
      [] OTHER -> Bytes(0, "")

ParseStruct(of, w) ==
    LET p == Parse[of][w.which]
    IN  [of |-> of, op |-> p.op,
         f |-> [x \in DOMAIN p.get |->
                  LET ty == Type[of][p.op][x]
                  IN  IF p.get[x] \in DOMAIN w.slots THEN ParseAs(ty, w.slots[p.get[x]]) ELSE Default(ty)]]

ParseAs(ty, w) ==
    CASE ty.t = "num" -> w.v
      [] ty.t \in {"data", "name", "token", "handle", "text"} -> w.b
      [] ty.t = "path" -> [i \in DOMAIN w.items |-> w.items[i].b]
      [] ty.t = "list" -> [i \in DOMAIN w.items |-> ParseAs(ty.ty, w.items[i])]
      [] ty.t = "opt" -> {ParseAs(ty.ty, x) : x \in w.v}
      [] ty.t = "struct" -> ParseStruct(ty.of, w)

MAX_PATH_COMPONENTS == PATH_MAX \div 2 + 1

(* mutant of parse_path: the separator before the first name is counted *)
parse_path_short(names) ==
    /\ Len(names) <= MAX_PATH_COMPONENTS
    /\ \A i \in DOMAIN names : NameNew(names[i])
    /\ SumFunction([i \in DOMAIN names |-> names[i].len + 1]) <= PATH_MAX
    /\ FromNames(names)

(* Whether parse_path takes the list: not too many names, each a name, and  *)
(* neither the running length nor the joined path too long.                 *)
parse_path(names) ==
    /\ Len(names) <= MAX_PATH_COMPONENTS
    /\ \A i \in DOMAIN names : NameNew(names[i])
    /\ SumFunction([i \in DOMAIN names |-> names[i].len + 1]) <= PATH_MAX + 1
    /\ FromNames(names)

(* A list of structs may not declare more of them than the message has      *)
(* words.                                                                   *)
checked_len(declared, words) == declared <= words

(* Whether a parser refuses a value: a name, a path, a resume token or a    *)
(* file handle it does not take, a text that is not UTF-8, a list of        *)
(* structs longer than the message.                                         *)
Refused(ty, w, words) ==
    CASE ty.t = "name" -> ~ NameNew(w.b)
      [] ty.t = "path" -> ~ parse_path([i \in DOMAIN w.items |-> w.items[i].b])
      [] ty.t = "token" -> w.b.len # 16
      [] ty.t = "handle" -> w.b.len > HANDLE_MAX
      [] ty.t = "text" -> w.b.tag = "notutf8"
      [] ty.t = "list" -> \/ w.t = "structs" /\ ~ checked_len(Len(w.items), words)
                          \/ \E i \in DOMAIN w.items : Refused(ty.ty, w.items[i], words)
      [] ty.t = "opt" -> \E x \in w.v : Refused(ty.ty, x, words)
      [] ty.t = "struct" ->
            LET p == Parse[ty.of][w.which]
            IN  \E x \in DOMAIN p.get : /\ p.get[x] \in DOMAIN w.slots
                                        /\ Refused(Type[ty.of][p.op][x], w.slots[p.get[x]], words)
      [] OTHER -> FALSE

---------------------------------------------------------------------------
(* How many words a message's first segment is given.                       *)

BASE_WORDS == 32

(* mutant of words_for: the pointer to the data is not counted *)
words_for_data_only(len) == Words(len)

words_for(len) == Words(len) + 1

words_for_text(len) == words_for(len + 1)

words_for_path(path) == SumFunction([i \in DOMAIN path |-> words_for(path[i].len)]) + 2

(* What an option adds: nothing when it is empty. *)
map_or_0(opt, words(_)) == IF opt = {} THEN 0 ELSE words(CHOOSE x \in opt : TRUE)

words_for_attr(attr) ==
    LET names(list) == SumFunction([i \in DOMAIN list |-> words_for(list[i].len)])
    IN  Words(attr.f.identity.f.handle.len) + map_or_0(attr.f.xattr_names, names)

RequestHint(op, f) ==
    CASE op \in {"Lookup", "Unlink", "Rmdir", "Mkdir", "Mknod", "Create"} ->
            words_for_path(f.parent) + words_for(f.name.len)
      [] op \in {"Getattr", "Setattr"} -> map_or_0(f.path, words_for_path) + 16
      [] op \in {"Readlink", "Open", "Opendir", "Statfs", "Listxattr", "Access"} -> words_for_path(f.path)
      [] op = "Symlink" -> words_for_path(f.parent) + words_for(f.name.len) + words_for(f.target.len)
      [] op = "Rename" -> words_for_path(f.parent) + words_for(f.name.len)
                            + words_for_path(f.newparent) + words_for(f.newname.len)
      [] op = "Link" -> words_for_path(f.path) + words_for_path(f.newparent) + words_for(f.newname.len)
      [] op = "Write" -> words_for(f.data.len)
      [] op = "Setxattr" -> words_for_path(f.path) + words_for(f.name.len) + words_for(f.value.len)
      [] op \in {"Getxattr", "Removexattr"} -> words_for_path(f.path) + words_for(f.name.len)
      [] OTHER -> 0

DIR_ENTRY_WORDS == 4
ENTRY_ATTR_WORDS == 17
ATTR_WORDS == 22

ResponseHint(op, f) ==
    CASE op \in {"Entry", "Attr", "Opened"} -> ATTR_WORDS + words_for_attr(f.attr)
      [] op = "Readlink" -> words_for(f.target.len)
      [] op = "Read" -> words_for(f.data.len)
      [] op = "Xattr" -> words_for(f.value.len)
      [] op = "Readdir" ->
            LET attr(a) == ENTRY_ATTR_WORDS + words_for_attr(a)
                entry(e) == DIR_ENTRY_WORDS + Words(e.f.name.len) + map_or_0(e.f.attr, attr)
            IN  SumFunction([i \in DOMAIN f.entries |-> entry(f.entries[i])])
      [] op = "Statfs" -> 8
      [] OTHER -> 0

EVENT_ITEM_WORDS == 3

EventHint(f) ==
    LET item(e) == CASE e.op = "Entry" -> 4 + words_for_path(e.f.dir) + words_for(e.f.name.len)
                     [] e.op = "Data" -> EVENT_ITEM_WORDS + words_for_path(e.f.path)
                     [] e.op = "Overflow" -> EVENT_ITEM_WORDS
                     [] e.op = "Unwatched" -> EVENT_ITEM_WORDS + words_for_path(e.f.dir)
    IN  3 + SumFunction([i \in DOMAIN f.items |-> item(f.items[i])])

HelloHint(f) == map_or_0(f.auth, LAMBDA token : words_for(token.len)) + 8

HelloReplyHint(op, f) ==
    CASE op = "Ack" -> 9 + words_for(f.root_identity.f.handle.len)
      [] op = "Reject" -> words_for_text(f.reason.len)
      [] op = "RevisionMismatch" -> 1

size_hint(m) ==
    BASE_WORDS + CASE m.of = "Request" -> RequestHint(m.op, m.f)
                   [] m.of = "Response" -> ResponseHint(m.op, m.f)
                   [] m.of = "Event" -> EventHint(m.f)
                   [] m.of = "Hello" -> HelloHint(m.f)
                   [] m.of = "HelloReply" -> HelloReplyHint(m.op, m.f)

---------------------------------------------------------------------------
(* Gathering a page.                                                        *)

ENTRY_ATTR_BYTES == 128

(* mutant of dir_entry_bytes: the attributes are not counted *)
dir_entry_bytes_bare(e) == 32 + 8 * Words(e.f.name.len)

dir_entry_bytes(e) ==
    LET names(list) == SumFunction([i \in DOMAIN list |-> 8 + 8 * Words(list[i].len)])
        attr(a) == ENTRY_ATTR_BYTES + 8 * Words(a.f.identity.f.handle.len) + map_or_0(a.f.xattr_names, names)
    IN  32 + 8 * Words(e.f.name.len) + map_or_0(e.f.attr, attr)

Idle == [at |-> "idle", len |-> 0, filled |-> 0, result |-> {}]

Init ==
    /\ page = [entries |-> <<>>, used |-> 0]
    /\ msg = {} /\ frame = {}
    /\ arrived = 0 /\ cut = FALSE /\ reader = Idle

(* read_dir describes the next entry and counts it; the page is full at the *)
(* budget, which ops.rs clamps to MAX_IO.                                   *)
Describe(e) ==
    /\ msg = {} /\ page.used < MAX_IO /\ e \notin Range(page.entries)
    /\ page' = [entries |-> Append(page.entries, e), used |-> page.used + dir_entry_bytes(e)]
    /\ UNCHANGED <<msg, frame, arrived, cut, reader>>

(* encode: the message in one segment behind its table, unless that is too  *)
(* large to send.  One that outgrew its first segment would be copied into  *)
(* a single one.                                                            *)
encode(m) ==
    LET w == BuildStruct(m)
        words == 1 + Content(w)
        len == 8 + 8 * words
    IN  IF len > MAX_FRAME THEN {} ELSE {[len |-> len, words |-> words, holds |-> w]}

write_frame(m) ==
    /\ msg = {}
    /\ msg' = {m} /\ frame' = encode(m)
    /\ reader' = IF frame' = {} THEN Idle ELSE [Idle EXCEPT !.at = "len"]
    /\ UNCHANGED <<arrived, cut>>

Send(m) ==
    /\ page.entries = <<>>
    /\ write_frame(m) /\ UNCHANGED page

(* The page is full, or the directory ended with it. *)
SendPage(end) ==
    /\ page.entries # <<>> /\ (end = 1 \/ page.used >= MAX_IO)
    /\ write_frame([of |-> "Response", op |-> "Readdir", f |-> [entries |-> page.entries, end |-> end]])
    /\ page' = [entries |-> <<>>, used |-> 0]

---------------------------------------------------------------------------
(* The stream and the reader.                                               *)

Total == LET f == CHOOSE f \in frame : TRUE IN 4 + f.len

(* Bytes reach the reader in any pieces: within the length prefix and past  *)
(* it, within the body, up to its last byte, and whole.                     *)
Pieces == {2, 4, 12, 4 + READ_CHUNK, Total - 1, Total}

Arrive(n) ==
    /\ reader.at \in {"len", "body"} /\ ~ cut
    /\ n > arrived /\ n <= Total
    /\ arrived' = n
    /\ UNCHANGED <<page, msg, frame, cut, reader>>

(* The writer gives up, or its connection goes. *)
Cut ==
    /\ reader.at \in {"len", "body"} /\ arrived < Total /\ ~ cut
    /\ cut' = TRUE
    /\ UNCHANGED <<page, msg, frame, arrived, reader>>

(* The bytes the reader's next read_exact is for. *)
Wanted ==
    IF reader.at = "len" THEN 4
    ELSE 4 + reader.filled + (IF reader.len - reader.filled < READ_CHUNK THEN reader.len - reader.filled
                                                                        ELSE READ_CHUNK)

(* read_frame_body reads the length, and refuses one past the limit before  *)
(* it allocates anything.                                                   *)
ReadLen ==
    /\ reader.at = "len" /\ arrived >= Wanted
    /\ LET len == Total - 4
       IN  reader' = IF len > MAX_FRAME THEN [reader EXCEPT !.at = "done"]
                                        ELSE [reader EXCEPT !.at = "body", !.len = len]
    /\ UNCHANGED <<page, msg, frame, arrived, cut>>

(* decode: the root struct of the one segment, unless a value is refused.   *)
decode(f) ==
    LET m == CHOOSE m \in msg : TRUE
    IN  IF Refused(Struct(m.of), f.holds, f.words) THEN {} ELSE {ParseStruct(m.of, f.holds)}

(* mutant of ReadChunk: a body that stops short is decoded as it is *)
ReadChunkShort ==
    /\ reader.at = "body" /\ (arrived >= Wanted \/ cut)
    /\ LET filled == Wanted - 4
       IN  reader' = IF filled < reader.len /\ ~ cut THEN [reader EXCEPT !.filled = filled]
                     ELSE [at |-> "done", len |-> reader.len, filled |-> filled,
                           result |-> decode(CHOOSE f \in frame : TRUE)]
    /\ UNCHANGED <<page, msg, frame, arrived, cut>>

(* A chunk of the body is filled; with the last of it the body is decoded.  *)
ReadChunk ==
    /\ reader.at = "body" /\ arrived >= Wanted
    /\ LET filled == Wanted - 4
       IN  reader' = IF filled < reader.len THEN [reader EXCEPT !.filled = filled]
                     ELSE [at |-> "done", len |-> reader.len, filled |-> filled,
                           result |-> decode(CHOOSE f \in frame : TRUE)]
    /\ UNCHANGED <<page, msg, frame, arrived, cut>>

(* The stream ended inside what the reader waits for: an early end of file. *)
ReadEof ==
    /\ reader.at \in {"len", "body"} /\ cut /\ arrived < Wanted
    /\ reader' = [reader EXCEPT !.at = "eof"]
    /\ UNCHANGED <<page, msg, frame, arrived, cut>>

Next ==
    \/ msg = {} /\ \E e \in Entries : Describe(e)
    \/ msg = {} /\ \E m \in Messages : Send(m)
    \/ \E end \in {0, 1} : SendPage(end)
    \/ frame # {} /\ \E n \in Pieces : Arrive(n)
    \/ frame # {} /\ (Cut \/ ReadLen \/ ReadChunk \/ ReadEof)

Spec == Init /\ [][Next]_vars

---------------------------------------------------------------------------
(* What a reader makes of a stream is the message that was sent, every      *)
(* field where it was and nothing refused, or, when the stream ended short, *)
(* the end of file, never another or a shorter message: encode and          *)
(* read_frame_body with every message's build and parse.                    *)
ReadIsSent ==
    /\ reader.at = "done" => reader.result = msg /\ ~ cut
    /\ reader.at = "eof" => cut

(* A message never outgrows the first segment its size_hint reserves, so    *)
(* nothing is ever copied into a second one.                                *)
OneSegment == \A f \in frame : \A m \in msg : f.words <= size_hint(m)

(* Only a batch of events can be too large for a frame: every request fits, *)
(* and so does every reply, a page that overshot its budget by an entry     *)
(* included (dirents.rs, read_dir's clamp).                                 *)
OnlyEventsTooLarge == (frame = {}) => \A m \in msg : m.of = "Event"
====
