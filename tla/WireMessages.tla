--------------------------- MODULE WireMessages ---------------------------
(* The messages of the protocol and their conversions to and from Cap'n     *)
(* Proto (proto/src/msg.rs, types.rs, wire.rs).                             *)
(*                                                                          *)
(* A message, and every struct within one, is a record: the type it is of,  *)
(* its variant (op) and its fields (f).  A run of bytes is its length and a *)
(* tag that tells it from others, an option the empty set or a singleton, a *)
(* number a small integer.  A value on the wire is a tree, as the readers   *)
(* and builders generated from the schema see it: a struct has a type, the  *)
(* union member that is set and its slots.  For every variant one table     *)
(* gives its fields' types, one the slot its builder puts each field in,    *)
(* and one the slot its parser reads each field from; how a value is        *)
(* converted goes by its type.                                              *)
EXTENDS Integers, Sequences, FiniteSets, Functions, TLC

CONSTANTS
    NAME_MAX,    \* longest path component, in bytes
    PATH_MAX,    \* longest joined path
    HANDLE_MAX   \* longest file handle

Bytes(len, tag) == [len |-> len, tag |-> tag]

Words(len) == (len + 7) \div 8

---------------------------------------------------------------------------
(* Names and paths.                                                         *)

(* Whether Name::new takes the bytes: neither empty nor too long, no '/' or *)
(* NUL among them, and neither dot entry (the tag tells).                   *)
NameNew(b) == b.len \in 1 .. NAME_MAX /\ b.tag \notin {"badbyte", "dot"}

byte_len(path) == SumFunction([i \in DOMAIN path |-> path[i].len])
                    + (IF path = <<>> THEN 0 ELSE Len(path) - 1)

(* Path::from_names. *)
FromNames(path) == byte_len(path) <= PATH_MAX

---------------------------------------------------------------------------
(* The type of a field, and the fields of each variant.                     *)

Num == [t |-> "num"]        \* an integer, a flag or an enumerated value
Data == [t |-> "data"]      \* bytes that mean nothing to the protocol
NameT == [t |-> "name"]
PathT == [t |-> "path"]
Token == [t |-> "token"]    \* a resume token
Handle == [t |-> "handle"]  \* the bytes of a file handle
Text == [t |-> "text"]
Opt(ty) == [t |-> "opt", ty |-> ty]
List(ty) == [t |-> "list", ty |-> ty]
Struct(of) == [t |-> "struct", of |-> of]

Each(names, ty) == [f \in names |-> ty]

At == [parent |-> PathT, name |-> NameT]

RequestType ==
    [Lookup |-> At, Unlink |-> At, Rmdir |-> At,
     Getattr |-> [path |-> Opt(PathT), fh |-> Opt(Num)],
     Setattr |-> [path |-> Opt(PathT), fh |-> Opt(Num), set |-> Struct("SetAttr")],
     Readlink |-> [path |-> PathT], Statfs |-> [path |-> PathT], Listxattr |-> [path |-> PathT],
     Mknod |-> At @@ Each({"mode", "rdev"}, Num),
     Mkdir |-> At @@ [mode |-> Num],
     Symlink |-> At @@ [target |-> Data],
     Rename |-> At @@ [newparent |-> PathT, newname |-> NameT, flags |-> Num],
     Link |-> [path |-> PathT, newparent |-> PathT, newname |-> NameT],
     Open |-> [fh |-> Num, path |-> PathT, flags |-> Num],
     Create |-> At @@ Each({"fh", "mode", "flags"}, Num),
     Read |-> Each({"fh", "offset", "size"}, Num),
     Write |-> [fh |-> Num, offset |-> Num, data |-> Data],
     Release |-> [fh |-> Num, ordered |-> Num],
     Fsync |-> [fh |-> Num, datasync |-> Num],
     Opendir |-> [fh |-> Num, path |-> PathT],
     Readdir |-> Each({"fh", "offset", "max_bytes"}, Num),
     Releasedir |-> [fh |-> Num, ordered |-> Num],
     Setxattr |-> [path |-> PathT, name |-> Data, value |-> Data, flags |-> Num],
     Getxattr |-> [path |-> PathT, name |-> Data],
     Removexattr |-> [path |-> PathT, name |-> Data],
     Access |-> [path |-> PathT, mask |-> Num],
     CopyFileRange |-> Each({"fh_in", "offset_in", "fh_out", "offset_out", "len"}, Num),
     Fallocate |-> Each({"fh", "offset", "len", "mode"}, Num),
     Lseek |-> Each({"fh", "offset", "whence"}, Num)]

ResponseType ==
    [Err |-> [errno |-> Num], Ok |-> <<>>, Written |-> [n |-> Num], Copied |-> [n |-> Num],
     Seeked |-> [offset |-> Num], Entry |-> [attr |-> Struct("Attr")],
     Attr |-> [attr |-> Struct("Attr")], Opened |-> [attr |-> Struct("Attr")],
     Readlink |-> [target |-> Data], Read |-> [data |-> Data], Xattr |-> [value |-> Data],
     Statfs |-> [s |-> Struct("Statfs")],
     Readdir |-> [entries |-> List(Struct("DirEntry")), end |-> Num]]

EventItemType ==
    [Entry |-> [dir |-> PathT, name |-> NameT], Data |-> [path |-> PathT],
     Overflow |-> <<>>, Unwatched |-> [dir |-> PathT]]

HelloReplyType ==
    [Ack |-> Each({"session_id", "resumed", "root_ino", "uid", "gid"}, Num)
               @@ [resume_token |-> Token, root_identity |-> Struct("Identity")],
     Reject |-> [reason |-> Text],
     RevisionMismatch |-> [revision |-> Num]]

AttrType ==
    Each({"ino", "size", "blocks", "atime.sec", "atime.nsec", "mtime.sec", "mtime.nsec", "ctime.sec",
          "ctime.nsec", "kind", "perm", "nlink", "uid", "gid", "rdev", "blksize", "foreign"}, Num)
      @@ [xattr_names |-> Opt(List(Data)), identity |-> Struct("Identity")]

SetAttrType == Each({"mode", "uid", "gid", "size"}, Opt(Num))
                 @@ Each({"atime", "mtime"}, Opt(Struct("TimeOrNow")))

(* A struct with no union has the one variant. *)
One(fields) == [It |-> fields]

Type ==
    [Request |-> RequestType, Response |-> ResponseType, HelloReply |-> HelloReplyType,
     EventItem |-> EventItemType,
     TimeOrNow |-> [Time |-> [ts |-> Struct("TimeSpec")], Now |-> <<>>],
     TimeSpec |-> One([sec |-> Num, nsec |-> Num]),
     Hello |-> One([revision |-> Num, auth |-> Opt(Data), resume |-> Opt(Struct("Resume"))]),
     Resume |-> One([session_id |-> Num, token |-> Token]),
     Event |-> One([items |-> List(Struct("EventItem")), handles |-> Opt(Struct("NoticeHandles"))]),
     NoticeHandles |-> One([held |-> Num, share |-> Num]),
     DirEntry |-> One([next_offset |-> Num, name |-> Data, attr |-> Opt(Struct("Attr"))]),
     Identity |-> One([handle_type |-> Num, handle |-> Handle]),
     Statfs |-> One(Each({"blocks", "bfree", "bavail", "files", "ffree", "bsize", "namelen", "frsize"}, Num)),
     Attr |-> One(AttrType), SetAttr |-> One(SetAttrType)]

---------------------------------------------------------------------------
(* Where a variant's builder puts its fields: the union member it sets, and *)
(* the field each slot is set from.                                         *)

To(which, put) == [which |-> which, put |-> put]

Same(names) == [f \in names |-> f]

BuildNamed ==
    [Lookup |-> To("lookup", Same({"parent", "name"})),
     Getattr |-> To("getattr", Same({"path", "fh"})),
     Setattr |-> To("setattr", Same({"path", "fh", "set"})),
     Readlink |-> To("readlink", Same({"path"})),
     Mknod |-> To("mknod", Same({"parent", "name", "mode", "rdev"})),
     Mkdir |-> To("mkdir", Same({"parent", "name", "mode"})),
     Unlink |-> To("unlink", Same({"parent", "name"})),
     Rmdir |-> To("rmdir", Same({"parent", "name"})),
     Symlink |-> To("symlink", Same({"parent", "name", "target"})),
     Rename |-> To("rename", Same({"parent", "name", "flags"})
                               @@ [newParent |-> "newparent", newName |-> "newname"]),
     Link |-> To("link", [path |-> "path", newParent |-> "newparent", newName |-> "newname"])]

BuildOpen ==
    [Open |-> To("open", Same({"fh", "path", "flags"})),
     Create |-> To("create", Same({"fh", "parent", "name", "mode", "flags"})),
     Read |-> To("read", Same({"fh", "offset", "size"})),
     Write |-> To("write", Same({"fh", "offset", "data"})),
     Release |-> To("release", Same({"fh", "ordered"})),
     Fsync |-> To("fsync", Same({"fh", "datasync"})),
     Opendir |-> To("opendir", Same({"fh", "path"})),
     Readdir |-> To("readdir", [fh |-> "fh", offset |-> "offset", maxBytes |-> "max_bytes"]),
     Releasedir |-> To("releasedir", Same({"fh", "ordered"}))]

BuildOther ==
    [Statfs |-> To("statfs", Same({"path"})),
     Setxattr |-> To("setxattr", Same({"path", "name", "value", "flags"})),
     Getxattr |-> To("getxattr", Same({"path", "name"})),
     Listxattr |-> To("listxattr", Same({"path"})),
     Removexattr |-> To("removexattr", Same({"path", "name"})),
     Access |-> To("access", Same({"path", "mask"})),
     CopyFileRange |-> To("copyFileRange", [fhIn |-> "fh_in", offsetIn |-> "offset_in", fhOut |-> "fh_out",
                                            offsetOut |-> "offset_out", len |-> "len"]),
     Fallocate |-> To("fallocate", Same({"fh", "offset", "len", "mode"})),
     Lseek |-> To("lseek", Same({"fh", "offset", "whence"}))]

BuildResponse ==
    [Err |-> To("err", [err |-> "errno"]), Entry |-> To("entry", Same({"attr"})),
     Attr |-> To("attr", Same({"attr"})), Readlink |-> To("readlink", [readlink |-> "target"]),
     Ok |-> To("ok", <<>>), Opened |-> To("opened", Same({"attr"})), Read |-> To("read", Same({"data"})),
     Written |-> To("written", [written |-> "n"]), Copied |-> To("copied", [copied |-> "n"]),
     Seeked |-> To("seeked", [seeked |-> "offset"]), Readdir |-> To("readdir", Same({"end", "entries"})),
     Statfs |-> To("statfs", [statfs |-> "s"]), Xattr |-> To("xattr", [xattr |-> "value"])]

BuildEventItem ==
    [Entry |-> To("entry", Same({"dir", "name"})), Data |-> To("data", [data |-> "path"]),
     Overflow |-> To("overflow", <<>>), Unwatched |-> To("unwatched", [unwatched |-> "dir"])]

BuildHelloReply ==
    [Ack |-> To("ack", [sessionId |-> "session_id", resumeToken |-> "resume_token", resumed |-> "resumed",
                        rootIno |-> "root_ino", uid |-> "uid", gid |-> "gid",
                        rootIdentity |-> "root_identity"]),
     Reject |-> To("reject", Same({"reason"})),
     RevisionMismatch |-> To("revisionMismatch", Same({"revision"}))]

BuildAttr == To("it", Same({"ino", "size", "blocks", "atime.sec", "atime.nsec", "mtime.sec", "mtime.nsec",
                            "ctime.sec", "ctime.nsec", "kind", "perm", "nlink", "uid", "gid", "rdev",
                            "blksize", "identity", "foreign"}) @@ [xattrNames |-> "xattr_names"])

BuildStatfs == To("it", Same({"blocks", "bfree", "bavail", "files", "ffree", "bsize", "namelen", "frsize"}))

BuildSetAttr == To("it", Same({"mode", "uid", "gid", "size", "atime", "mtime"}))

BuildDirEntry == To("it", [nextOffset |-> "next_offset", name |-> "name", attr |-> "attr"])

BuildIdentity == To("it", [handleType |-> "handle_type", handle |-> "handle"])

BuildTimeOrNow == [Time |-> To("time", [time |-> "ts"]), Now |-> To("now", <<>>)]

BuildHello == To("it", Same({"revision", "auth", "resume"}))

BuildResume == To("it", [sessionId |-> "session_id", token |-> "token"])

BuildEvent == To("it", Same({"handles", "items"}))

BuildNotice == To("it", Same({"held", "share"}))

Build ==
    [Request |-> BuildNamed @@ BuildOpen @@ BuildOther, Response |-> BuildResponse,
     HelloReply |-> BuildHelloReply, EventItem |-> BuildEventItem, TimeOrNow |-> BuildTimeOrNow,
     TimeSpec |-> One(To("it", Same({"sec", "nsec"}))), Hello |-> One(BuildHello), Resume |-> One(BuildResume),
     Event |-> One(BuildEvent), NoticeHandles |-> One(BuildNotice), DirEntry |-> One(BuildDirEntry),
     Identity |-> One(BuildIdentity), Statfs |-> One(BuildStatfs), Attr |-> One(BuildAttr),
     SetAttr |-> One(BuildSetAttr)]

---------------------------------------------------------------------------
(* Where a variant's parser takes its fields from: the variant a union      *)
(* member stands for, and the slot of each field.                           *)

From(op, get) == [op |-> op, get |-> get]

ParseRequest ==
    [lookup |-> From("Lookup", Same({"parent", "name"})),
     getattr |-> From("Getattr", Same({"path", "fh"})),
     setattr |-> From("Setattr", Same({"path", "fh", "set"})),
     readlink |-> From("Readlink", Same({"path"})),
     mknod |-> From("Mknod", Same({"parent", "name", "mode", "rdev"})),
     mkdir |-> From("Mkdir", Same({"parent", "name", "mode"})),
     unlink |-> From("Unlink", Same({"parent", "name"})),
     rmdir |-> From("Rmdir", Same({"parent", "name"})),
     symlink |-> From("Symlink", Same({"parent", "name", "target"})),
     rename |-> From("Rename", Same({"parent", "name", "flags"})
                                 @@ [newparent |-> "newParent", newname |-> "newName"]),
     link |-> From("Link", [path |-> "path", newparent |-> "newParent", newname |-> "newName"]),
     open |-> From("Open", Same({"fh", "path", "flags"})),
     create |-> From("Create", Same({"fh", "parent", "name", "mode", "flags"})),
     read |-> From("Read", Same({"fh", "offset", "size"})),
     write |-> From("Write", Same({"fh", "offset", "data"})),
     release |-> From("Release", Same({"fh", "ordered"})),
     fsync |-> From("Fsync", Same({"fh", "datasync"})),
     opendir |-> From("Opendir", Same({"fh", "path"})),
     readdir |-> From("Readdir", [fh |-> "fh", offset |-> "offset", max_bytes |-> "maxBytes"]),
     releasedir |-> From("Releasedir", Same({"fh", "ordered"})),
     statfs |-> From("Statfs", Same({"path"})),
     setxattr |-> From("Setxattr", Same({"path", "name", "value", "flags"})),
     getxattr |-> From("Getxattr", Same({"path", "name"})),
     listxattr |-> From("Listxattr", Same({"path"})),
     removexattr |-> From("Removexattr", Same({"path", "name"})),
     access |-> From("Access", Same({"path", "mask"})),
     copyFileRange |-> From("CopyFileRange", [fh_in |-> "fhIn", offset_in |-> "offsetIn", fh_out |-> "fhOut",
                                              offset_out |-> "offsetOut", len |-> "len"]),
     fallocate |-> From("Fallocate", Same({"fh", "offset", "len", "mode"})),
     lseek |-> From("Lseek", Same({"fh", "offset", "whence"}))]

ParseResponse ==
    [err |-> From("Err", [errno |-> "err"]), entry |-> From("Entry", Same({"attr"})),
     attr |-> From("Attr", Same({"attr"})), readlink |-> From("Readlink", [target |-> "readlink"]),
     ok |-> From("Ok", <<>>), opened |-> From("Opened", Same({"attr"})), read |-> From("Read", Same({"data"})),
     written |-> From("Written", [n |-> "written"]), copied |-> From("Copied", [n |-> "copied"]),
     seeked |-> From("Seeked", [offset |-> "seeked"]), readdir |-> From("Readdir", Same({"entries", "end"})),
     statfs |-> From("Statfs", [s |-> "statfs"]), xattr |-> From("Xattr", [value |-> "xattr"])]

ParseEventItem ==
    [entry |-> From("Entry", Same({"dir", "name"})), data |-> From("Data", [path |-> "data"]),
     overflow |-> From("Overflow", <<>>), unwatched |-> From("Unwatched", [dir |-> "unwatched"])]

ParseHelloReply ==
    [ack |-> From("Ack", [session_id |-> "sessionId", resume_token |-> "resumeToken", resumed |-> "resumed",
                          root_ino |-> "rootIno", root_identity |-> "rootIdentity", uid |-> "uid",
                          gid |-> "gid"]),
     reject |-> From("Reject", Same({"reason"})),
     revisionMismatch |-> From("RevisionMismatch", Same({"revision"}))]

ParseAttr == From("It", Same({"ino", "size", "blocks", "atime.sec", "atime.nsec", "mtime.sec", "mtime.nsec",
                              "ctime.sec", "ctime.nsec", "kind", "perm", "nlink", "uid", "gid", "rdev",
                              "blksize", "identity", "foreign"}) @@ [xattr_names |-> "xattrNames"])

ParseStatfs == From("It", Same({"blocks", "bfree", "bavail", "files", "ffree", "bsize", "namelen", "frsize"}))

ParseSetAttr == From("It", Same({"mode", "uid", "gid", "size", "atime", "mtime"}))

ParseDirEntry == From("It", [next_offset |-> "nextOffset", name |-> "name", attr |-> "attr"])

ParseIdentity == From("It", [handle_type |-> "handleType", handle |-> "handle"])

ParseTimeOrNow == [time |-> From("Time", [ts |-> "time"]), now |-> From("Now", <<>>)]

ParseHello == From("It", Same({"auth", "resume", "revision"}))

ParseResume == From("It", [session_id |-> "sessionId", token |-> "token"])

ParseEvent == From("It", Same({"items", "handles"}))

ParseNotice == From("It", Same({"held", "share"}))

Parse ==
    [Request |-> ParseRequest, Response |-> ParseResponse, HelloReply |-> ParseHelloReply,
     EventItem |-> ParseEventItem, TimeOrNow |-> ParseTimeOrNow,
     TimeSpec |-> [it |-> From("It", Same({"sec", "nsec"}))], Hello |-> [it |-> ParseHello],
     Resume |-> [it |-> ParseResume], Event |-> [it |-> ParseEvent], NoticeHandles |-> [it |-> ParseNotice],
     DirEntry |-> [it |-> ParseDirEntry], Identity |-> [it |-> ParseIdentity], Statfs |-> [it |-> ParseStatfs],
     Attr |-> [it |-> ParseAttr], SetAttr |-> [it |-> ParseSetAttr]]
====
