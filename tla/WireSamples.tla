---------------------------- MODULE WireSamples ---------------------------
(* The messages of one run of Wire: every variant of every message, its     *)
(* fields drawn in turn from names, paths and data at the lengths where     *)
(* rounding to words and the name and path limits bite, and from numbers    *)
(* that tell the fields apart.                                              *)
EXTENDS WireMessages, SequencesExt

CONSTANTS
    MAX_IO,    \* largest payload
    Samples    \* how many messages of each variant

A == Bytes(1, "a")

NameSample == <<A, Bytes(8, "b"), Bytes(NAME_MAX, "c")>>

(* The root, a path of two names, one of the longest length, and one of the *)
(* most names.                                                              *)
PathSample == <<<<>>, <<Bytes(9, "c"), Bytes(8, "d")>>,
                <<Bytes(9, "c"), Bytes(9, "d"), Bytes(9, "e"), Bytes(8, "b"), A>>,
                [i \in 1 .. PATH_MAX \div 2 |-> A]>>

DataSample == <<Bytes(0, ""), Bytes(7, "x"), Bytes(200, "y")>>

Pick1(seq, n) == seq[(n % Len(seq)) + 1]

Mk(of, op, f) == [of |-> of, op |-> op, f |-> f]

RECURSIVE Pick(_, _), Fill(_, _, _)

(* The n-th value of a type. *)
Pick(ty, n) ==
    CASE ty.t = "num" -> n
      [] ty.t = "data" -> Pick1(DataSample, n)
      [] ty.t = "name" -> Pick1(NameSample, n)
      [] ty.t = "path" -> Pick1(PathSample, n)
      [] ty.t = "token" -> Pick1(<<Bytes(16, "t"), Bytes(16, "u")>>, n)
      [] ty.t = "text" -> Pick1(<<Bytes(0, ""), Bytes(8, "r")>>, n)
      [] ty.t = "handle" -> Pick1(<<Bytes(8, "h"), Bytes(HANDLE_MAX, "k")>>, n)
      [] ty.t = "opt" -> IF n % 3 = 0 THEN {} ELSE {Pick(ty.ty, n)}
      [] ty.t = "list" -> [i \in 1 .. (n % 3) |-> Pick(ty.ty, n + i)]
      [] ty.t = "struct" ->
            LET ops == SetToSeq(DOMAIN Type[ty.of])
                op == Pick1(ops, n)
            IN  Mk(ty.of, op, Fill(Type[ty.of][op], DOMAIN Type[ty.of][op], n))

(* A value for each of the fields F, each from a number of its own. *)
Fill(type, F, n) ==
    IF F = {} THEN <<>>
    ELSE LET x == CHOOSE x \in F : TRUE
         IN  (x :> Pick(type[x], n)) @@ Fill(type, F \ {x}, (7 * n + 3) % 1009)

Of(of) == UNION {{Mk(of, op, Fill(Type[of][op], DOMAIN Type[of][op], n)) : n \in 1 .. Samples} : op \in DOMAIN Type[of]}

(* The largest payloads, the longest paths, and a batch of changes that no  *)
(* frame holds.                                                             *)
Extremes ==
    {Mk("Request", "Rename", [parent |-> PathSample[4], name |-> A, newparent |-> PathSample[4],
                              newname |-> A, flags |-> 0]),
     Mk("Request", "Write", [fh |-> 1, offset |-> 2, data |-> Bytes(MAX_IO, "z")]),
     Mk("Response", "Read", [data |-> Bytes(MAX_IO, "z")]),
     Mk("Event", "It", [items |-> [i \in 1 .. 6 |-> Mk("EventItem", "Data", [path |-> PathSample[4]])],
                        handles |-> {}])}

MCMessages == Extremes \cup Of("Request") \cup Of("Response") \cup Of("Hello") \cup Of("HelloReply") \cup Of("Event")

MCEntries ==
    {Mk("DirEntry", "It", [next_offset |-> 5, name |-> Bytes(2, "dot"), attr |-> {}])}
      \cup {Mk("DirEntry", "It", [next_offset |-> 6, name |-> Bytes(NAME_MAX, "c"), attr |-> {Pick(Struct("Attr"), n)}])
              : n \in 1 .. 5}
====
