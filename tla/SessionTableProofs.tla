------------------------- MODULE SessionTableProofs -------------------------
(***************************************************************************)
(* The session table is safe for any number of clients, sessions and       *)
(* connections: OneServes and ReplacedForGood of SessionTable.             *)
(***************************************************************************)
EXTENDS SessionTable, FiniteSetTheorems, TLAPS

(* Most steps are first-order: Zenon tries each before the SMT solver does. *)
USE ZenonT(3), SMTT(10)

Places == {"none", "hello", "create", "ack", "fail", "register", "takeover", "serve", "unlist",
           "detach", "mark", "ended"}

(* Sessions are numbered from 1, and so are connections; 0 is none.        *)
TypeOK ==
  /\ map \subseteq Session /\ dropped \subseteq Session
  /\ next_id \in 0 .. MaxSession
  /\ epoch \in [Session -> Nat] /\ detached_at \in [Session -> Nat]
  /\ connections \in [Session -> Conn \cup {0}]
  /\ pc \in [Conn -> Places]
  /\ name \in [Conn -> Session \cup {0}] /\ sess \in [Conn -> Session \cup {0}]
  /\ at \in [Conn -> Nat] /\ old \in [Conn -> Conn \cup {0}]
  /\ closed \subseteq Conn
  /\ req \in [Conn -> {"none", "queued", "doing", "done"}]
  /\ made \in 0 .. MaxConn
  /\ token \in [Client -> Session \cup {0}] /\ cur \in [Client -> Conn \cup {0}]
  /\ acked \subseteq Conn /\ took \subseteq Conn

(* What a task has by where it is.                                         *)
TaskOK ==
  \A c \in Conn :
    /\ pc[c] = "none" <=> c > made
    /\ pc[c] \in {"none", "hello", "create"} => sess[c] = 0
    /\ pc[c] \notin {"none", "hello", "create", "ended"} => sess[c] # 0
    /\ pc[c] \in {"none", "hello", "create", "ack", "fail"} => c \notin acked
    /\ pc[c] \in {"register", "takeover", "serve", "unlist"} => c \in acked
    /\ c \in acked => sess[c] # 0
    /\ c \in took => c \in acked
    /\ req[c] # "none" => c \in took

(* No id is used before it is given out.                                   *)
IdsOK ==
  /\ \A s \in map \cup dropped : s <= next_id
  /\ \A c \in Conn : sess[c] <= next_id /\ name[c] <= next_id
  /\ \A k \in Client : token[k] <= next_id

(* An attach has an epoch of its session to itself.                        *)
EpochsOK ==
  /\ \A c \in Conn : sess[c] # 0 => 1 <= at[c] /\ at[c] <= epoch[sess[c]]
  /\ \A c, d \in Conn : c # d /\ sess[c] # 0 /\ sess[c] = sess[d] => at[c] # at[d]

(* A detached session is in the table, and none is both there and dropped. *)
MapOK == Detached \subseteq map /\ map \cap dropped = {}

(* Whatever has a task or a request under way can be found again.          *)
Findable ==
  \A c \in Conn : sess[c] # 0 /\ (pc[c] # "ended" \/ Holding(c)) => sess[c] \in map \cup dropped

(* The connection listed for a session is one of its own.                  *)
ListedOK ==
  \A s \in Session : connections[s] # 0 =>
    /\ sess[connections[s]] = s
    /\ pc[connections[s]] \in {"takeover", "serve", "unlist"}

(* Who serves is listed, or has been taken over from.                      *)
Serving ==
  \A c \in Conn : pc[c] \in {"takeover", "serve"} =>
    connections[sess[c]] = c \/ c \in closed \/ \E d \in Conn : old[d] = c

TakingOver ==
  \A c \in Conn : old[c] # 0 =>
    pc[c] = "takeover" /\ sess[old[c]] = sess[c] /\ at[old[c]] < at[c]

(* A client waits for or uses a connection of its own, on which it has named
   the session it holds the token of; and no two hold the same.            *)
ClientsOK ==
  \A k \in Client :
    /\ cur[k] <= made
    /\ cur[k] # 0 /\ cur[k] \notin took => name[cur[k]] = token[k]
    /\ \A l \in Client \ {k} :
         /\ cur[k] # 0 => cur[k] # cur[l]
         /\ token[k] # 0 => token[k] # token[l]

(* A session made anew is known to nobody until its client has the Ack.    *)
FreshUnknown ==
  \A c \in Conn : sess[c] # 0 /\ sess[c] # name[c] /\ c \notin took =>
    /\ at[c] = epoch[sess[c]]
    /\ \A d \in Conn \ {c} : sess[d] # sess[c] /\ name[d] # sess[c]
    /\ \A k \in Client : token[k] # sess[c]

(* A connection that named a session and was, or will be, given another,
   and whose client has the new one or still waits for it.                 *)
TurnedAway(d) ==
  /\ name[d] # 0
  /\ pc[d] = "create" \/ (sess[d] # 0 /\ sess[d] # name[d])
  /\ d \in took \/ \E k \in Client : cur[k] = d

(* Of the session d named nothing runs, and nothing that waits will.       *)
NothingRuns(d) ==
  \A c \in Conn : sess[c] = name[d] =>
    /\ req[c] # "doing"
    /\ req[c] = "queued" => at[c] # epoch[name[d]]
    /\ c \in took /\ at[c] = epoch[name[d]] => pc[c] = "ended"

(* No client waits for a connection that attached or would attach it.      *)
NobodyWaits(d) ==
  \A c \in Conn : c # d /\ c \notin took /\ name[d] \in {sess[c], name[c]} =>
    \A k \in Client : cur[k] # c

(* Nor is it anybody's to resume, once the client has the new one.         *)
Forgotten(d) == d \in took => \A k \in Client : token[k] # name[d]

OldIsOver ==
  \A d \in Conn : TurnedAway(d) => NothingRuns(d) /\ NobodyWaits(d) /\ Forgotten(d)

(* KeptWhileAttached, one way and the other.                               *)
Kept ==
  /\ \A s \in map : detached_at[s] = 0 => \E c \in Conn : sess[c] = s /\ Attached(c)
  /\ \A c \in Conn : Attached(c) => sess[c] \in map /\ detached_at[sess[c]] = 0

IInv ==
  /\ TypeOK /\ TaskOK /\ IdsOK /\ EpochsOK /\ MapOK /\ Findable /\ ListedOK /\ Serving
  /\ TakingOver /\ ClientsOK /\ FreshUnknown /\ OldIsOver /\ Kept

-----------------------------------------------------------------------------
(* Facts the steps share. *)

(* No session and no connection is 0.                                      *)
LEMMA Numbers ==
  /\ 0 \notin Session /\ Session \subseteq Nat
  /\ 0 \notin Conn /\ Conn \subseteq Nat
  BY DEF Session, Conn

(* Sessions can be counted, and any that there are make the count positive. *)
LEMMA Counted ==
  ASSUME MaxSession \in Nat, NEW S \in SUBSET Session
  PROVE  Cardinality(S) \in Nat /\ (S # {} => Cardinality(S) # 0)
  <1>1. IsFiniteSet(Session)
    BY FS_Interval DEF Session
  <1>2. IsFiniteSet(S)
    BY <1>1, FS_Subset
  <1> QED BY <1>2, FS_CardinalityType, FS_EmptySet

(* The order kept among the sessions left is of those alone.               *)
LEMMA Undetached ==
  ASSUME MaxSession \in Nat, TypeOK, NEW gone, Undetach(gone)
  PROVE  /\ detached_at' \in [Session -> Nat]
         /\ Detached' = Detached \ gone
  <1> DEFINE left == Detached \ gone
             upto(s) == {t \in left : detached_at[t] <= detached_at[s]}
  <1>1. detached_at' = [s \in Session |-> IF s \notin left THEN 0 ELSE Cardinality(upto(s))]
    BY DEF Undetach
  <1>2. ASSUME NEW s \in left
        PROVE  Cardinality(upto(s)) \in Nat \ {0}
    <2>1. s \in upto(s) /\ upto(s) \in SUBSET Session
      BY DEF TypeOK, Detached
    <2> HIDE DEF upto, left
    <2> QED BY <2>1, Counted
  <1> HIDE DEF upto
  <1>3. detached_at' \in [Session -> Nat]
    BY <1>1, <1>2
  <1>4. \A s \in Session : detached_at'[s] # 0 <=> s \in left
    BY <1>1, <1>2
  <1> QED BY <1>3, <1>4 DEF Detached

(* A session retired is still held weakly, and no other one in use is let go. *)
LEMMA Retired ==
  ASSUME MaxSession \in Nat, TypeOK, NEW gone \in SUBSET Detached, Retire(gone)
  PROVE  /\ detached_at' \in [Session -> Nat]
         /\ Detached' = Detached \ gone
         /\ gone \subseteq dropped' /\ dropped' \subseteq dropped \cup gone
         /\ \A c \in Conn : sess[c] \in dropped /\ (pc[c] # "ended" \/ Holding(c)) => sess[c] \in dropped'
  <1>1. Undetach(gone)
    BY DEF Retire
  <1>2. \A c \in Conn : pc[c] # "ended" \/ Holding(c) => Referenced(sess[c])
    BY DEF Referenced
  <1>3. gone \subseteq dropped' /\ dropped' \subseteq dropped \cup gone
    BY DEF Retire
  <1>4. \A s \in dropped : Referenced(s) => s \in dropped'
    BY DEF Retire
  <1> QED BY <1>1, <1>2, <1>3, <1>4, Undetached

(* Tasks that go on, and are not sent to `create`, leave what was replaced. *)
LEMMA OldIsOverKept ==
  ASSUME OldIsOver, UNCHANGED <<epoch, name, sess, at, req, token, cur, took>>,
         \A d \in Conn : /\ pc'[d] = "create" => pc[d] = "create"
                         /\ pc[d] = "ended" => pc'[d] = "ended"
  PROVE  OldIsOver'
  <1> SUFFICES ASSUME NEW d \in Conn, TurnedAway(d)'
               PROVE  NothingRuns(d)' /\ NobodyWaits(d)' /\ Forgotten(d)'
    BY DEF OldIsOver
  <1>1. TurnedAway(d)
    BY DEF TurnedAway
  <1>2. NothingRuns(d) /\ NobodyWaits(d) /\ Forgotten(d)
    BY <1>1 DEF OldIsOver
  <1>3. NothingRuns(d)'
    BY <1>2 DEF NothingRuns
  <1> QED BY <1>2, <1>3 DEF NobodyWaits, Forgotten

-----------------------------------------------------------------------------
(* Every step keeps IInv. *)

(* A client's new attempt names the session it can resume.                 *)
LEMMA ConnectIInv ==
  ASSUME MaxSession \in Nat, MaxConn \in Nat, IInv, NEW k \in Client, Connect(k)
  PROVE  IInv'
  <1> SUFFICES ASSUME TypeOK, TaskOK, IdsOK, EpochsOK, MapOK, Findable, ListedOK, Serving,
                      TakingOver, ClientsOK, FreshUnknown, OldIsOver, Kept
               PROVE  IInv'
    BY DEF IInv
  <1> USE DEF Connect, Goto, table
  <1>1. EpochsOK' /\ MapOK'
    BY DEF EpochsOK, MapOK, Detached
  <1>2. TypeOK'
    <2>1. made + 1 \in Conn /\ made + 1 \in 0 .. MaxConn
      BY DEF TypeOK, Conn
    <2>2. pc' \in [Conn -> Places] /\ name' \in [Conn -> Session \cup {0}]
      BY <2>1 DEF TypeOK, Places
    <2>3. cur' \in [Client -> Conn \cup {0}] /\ made' \in 0 .. MaxConn
      BY <2>1 DEF TypeOK
    <2> QED BY <2>2, <2>3 DEF TypeOK
  <1>3. TaskOK'
    BY Numbers DEF TaskOK, TypeOK, Conn
  <1>4. IdsOK'
    BY ZenonT(20), Numbers DEF IdsOK, TypeOK, TaskOK
  <1>5. Findable'
    BY Numbers DEF Findable, Holding, TypeOK, TaskOK
  <1>6. ListedOK'
    BY Numbers DEF ListedOK, TypeOK, TaskOK
  <1>7. Serving'
    BY Numbers DEF Serving, TypeOK, TaskOK, ListedOK
  <1>8. TakingOver'
    BY Numbers DEF TakingOver, TypeOK, TaskOK
  <1>9. ClientsOK'
    BY Numbers DEF ClientsOK, TypeOK, TaskOK, Conn
  <1>10. FreshUnknown'
    BY Numbers DEF FreshUnknown, TypeOK, TaskOK
  <1>11. OldIsOver'
    <2> DEFINE n == made + 1
    <2>1. n \in Conn /\ pc[n] = "none" /\ sess[n] = 0
      BY Numbers DEF TypeOK, TaskOK, Conn
    <2>2. SUFFICES ASSUME NEW d \in Conn, TurnedAway(d)'
                   PROVE  (NothingRuns(d) /\ NobodyWaits(d) /\ Forgotten(d))'
      BY DEF OldIsOver
    <2>3. d # n /\ name'[d] = name[d] /\ name[d] # 0 /\ TurnedAway(d)
      BY ZenonT(20), <2>1, <2>2, Numbers DEF TurnedAway, TypeOK
    <2>4. NothingRuns(d) /\ NobodyWaits(d) /\ Forgotten(d)
      BY <2>3 DEF OldIsOver
    <2>5. NothingRuns(d)'
      BY <2>1, <2>3, <2>4 DEF NothingRuns, TypeOK
    <2>6. token[k] # name[d]
      <3>1. CASE d \in took
        BY <2>4, <3>1 DEF Forgotten
      <3>2. CASE d \notin took
        <4>1. PICK l \in Client : cur[l] = d
          BY <2>3, <3>2 DEF TurnedAway
        <4>2. l # k /\ name[d] = token[l]
          BY <3>2, <4>1, Numbers DEF ClientsOK
        <4> QED BY ZenonT(20), <2>3, <4>2 DEF ClientsOK
      <3> QED BY <3>1, <3>2
    <2>7. NobodyWaits(d)'
      BY ZenonT(20), <2>1, <2>3, <2>4, <2>6 DEF NobodyWaits, TypeOK
    <2>8. Forgotten(d)'
      BY <2>3, <2>4 DEF Forgotten
    <2> QED BY <2>5, <2>7, <2>8
  <1>12. Kept'
    BY Numbers DEF Kept, Attached, TypeOK, TaskOK
  <1> QED BY <1>1, <1>2, <1>3, <1>4, <1>5, <1>6, <1>7, <1>8, <1>9, <1>10, <1>11, <1>12
  DEF IInv

(* A client takes the Ack of its connection.                               *)
LEMMA TakeAckIInv ==
  ASSUME MaxSession \in Nat, MaxConn \in Nat, IInv, NEW k \in Client, TakeAck(k)
  PROVE  IInv'
  <1> SUFFICES ASSUME TypeOK, TaskOK, IdsOK, EpochsOK, MapOK, Findable, ListedOK, Serving,
                      TakingOver, ClientsOK, FreshUnknown, OldIsOver, Kept
               PROVE  IInv'
    BY DEF IInv
  <1> USE DEF TakeAck, table, tasks
  <1>p1. cur[k] \in Conn /\ cur[k] # 0 /\ cur[k] \in acked \ took
    BY Numbers DEF TypeOK
  <1>p2. sess[cur[k]] \in Session
    BY <1>p1 DEF TypeOK, TaskOK
  <1>p3. name[cur[k]] = token[k]
    BY <1>p1 DEF ClientsOK
  <1>p4. \A l \in Client : sess[cur[k]] = token[k] \/ sess[cur[k]] # token[l]
    BY <1>p1, <1>p2, <1>p3, Numbers DEF FreshUnknown
  <1>1. EpochsOK' /\ MapOK' /\ Findable' /\ ListedOK'
    BY DEF EpochsOK, MapOK, Detached, Findable, Holding, ListedOK
  <1>2. Serving' /\ TakingOver' /\ Kept'
    BY DEF Serving, TakingOver, Kept, Attached
  <1>3. TypeOK'
    BY <1>p1, <1>p2, <1>p3, <1>p4, Numbers DEF TypeOK, Places, TaskOK
  <1>4. TaskOK'
    BY ZenonT(20), <1>p1, <1>p2, <1>p3, <1>p4, Numbers DEF TaskOK, TypeOK
  <1>5. IdsOK'
    BY ZenonT(20), <1>p1, <1>p2, <1>p3, <1>p4, Numbers DEF IdsOK, TypeOK, TaskOK
  <1>6. ClientsOK'
    BY <1>p1, <1>p2, <1>p3, <1>p4, Numbers DEF ClientsOK, TypeOK
  <1>7. FreshUnknown'
    <2> SUFFICES ASSUME NEW d \in Conn, sess[d] # 0, sess[d] # name[d], d \notin took, d # cur[k]
                 PROVE  \A l \in Client : token'[l] # sess[d]
      BY <1>p1 DEF FreshUnknown
    <2>1. sess[cur[k]] # sess[d] /\ \A l \in Client : token[l] # sess[d]
      BY <1>p1 DEF FreshUnknown
    <2> QED BY <2>1 DEF TypeOK
  <1>8. OldIsOver'
    <2> DEFINE c == cur[k]
    <2>2. SUFFICES ASSUME NEW d \in Conn, TurnedAway(d)'
                   PROVE  (NothingRuns(d) /\ NobodyWaits(d) /\ Forgotten(d))'
      BY DEF OldIsOver
    <2>3. name[d] # 0 /\ TurnedAway(d)
      BY <2>2 DEF TurnedAway
    <2>4. NothingRuns(d) /\ NobodyWaits(d) /\ Forgotten(d)
      BY <2>3 DEF OldIsOver
    <2>5. sess[c] # name[d]
      <3>1. CASE d = c
        BY <1>p1, <1>p2, <2>3, <3>1, Numbers DEF TurnedAway, TaskOK
      <3>2. CASE d # c
        BY <1>p1, <2>4, <3>2 DEF NobodyWaits
      <3> QED BY <3>1, <3>2
    <2>6. NothingRuns(d)'
      BY <2>4, <2>5 DEF NothingRuns
    <2>7. NobodyWaits(d)'
      BY <2>4 DEF NobodyWaits
    <2>8. Forgotten(d)'
      <3>1. CASE d = c
        BY <1>p1, <1>p3, <2>3, <2>5, <3>1 DEF Forgotten, ClientsOK, TypeOK
      <3>2. CASE d # c
        BY <2>4, <2>5, <3>2 DEF Forgotten, TypeOK
      <3> QED BY <3>1, <3>2
    <2> QED BY <2>6, <2>7, <2>8
  <1> QED BY <1>1, <1>2, <1>3, <1>4, <1>5, <1>6, <1>7, <1>8 DEF IInv

(* A client gives its connection up.                                       *)
LEMMA LeaveIInv ==
  ASSUME MaxSession \in Nat, MaxConn \in Nat, IInv, NEW k \in Client, Leave(k)
  PROVE  IInv'
  <1> SUFFICES ASSUME TypeOK, TaskOK, IdsOK, EpochsOK, MapOK, Findable, ListedOK, Serving,
                      TakingOver, ClientsOK, FreshUnknown, OldIsOver, Kept
               PROVE  IInv'
    BY DEF IInv
  <1> USE DEF Leave, table, tasks
  <1>1. TaskOK' /\ IdsOK' /\ EpochsOK' /\ MapOK'
    BY DEF TaskOK, IdsOK, EpochsOK, MapOK, Detached
  <1>2. Findable' /\ ListedOK' /\ Serving' /\ TakingOver'
    BY DEF Findable, Holding, ListedOK, Serving, TakingOver
  <1>3. FreshUnknown' /\ Kept'
    BY DEF FreshUnknown, Kept, Attached
  <1>4. TypeOK'
    BY Numbers DEF TypeOK, Places, TaskOK
  <1>5. ClientsOK'
    BY Numbers DEF ClientsOK, TypeOK, TaskOK
  <1>6. OldIsOver'
    BY Numbers
    DEF OldIsOver, TurnedAway, NothingRuns, NobodyWaits, Forgotten, TypeOK, TaskOK
  <1> QED BY <1>1, <1>2, <1>3, <1>4, <1>5, <1>6 DEF IInv

(* The Ack is written, or not.                                             *)
LEMMA WriteAckIInv ==
  ASSUME MaxSession \in Nat, MaxConn \in Nat, IInv, NEW c \in Conn, WriteAck(c)
  PROVE  IInv'
  <1> SUFFICES ASSUME TypeOK, TaskOK, IdsOK, EpochsOK, MapOK, Findable, ListedOK, Serving,
                      TakingOver, ClientsOK, FreshUnknown, OldIsOver, Kept
               PROVE  IInv'
    BY DEF IInv
  <1> USE DEF WriteAck, Goto, table, clients
  <1>1. IdsOK' /\ EpochsOK' /\ MapOK' /\ ClientsOK'
    BY DEF IdsOK, EpochsOK, MapOK, Detached, ClientsOK
  <1>2. FreshUnknown'
    BY DEF FreshUnknown
  <1>3. TypeOK'
    <2>1. acked' \subseteq Conn
      BY DEF TypeOK
    <2>2. pc' \in [Conn -> Places]
      BY ZenonT(20) DEF TypeOK, Places
    <2> QED BY <2>1, <2>2 DEF TypeOK
  <1>4. TaskOK'
    BY Numbers DEF TaskOK, TypeOK
  <1>5. Findable'
    BY Numbers DEF Findable, Holding, TypeOK, TaskOK
  <1>6. ListedOK'
    <2>1. \A s \in Session : connections[s] # c
      BY ZenonT(20), Numbers DEF ListedOK
    <2>2. \A s \in Session : connections[s] # 0 => pc'[connections[s]] = pc[connections[s]]
      BY <2>1 DEF TypeOK
    <2> QED BY <2>2 DEF ListedOK
  <1>7. Serving'
    BY Numbers DEF Serving, TypeOK, TaskOK
  <1>8. TakingOver'
    BY ZenonT(20), Numbers DEF TakingOver, TypeOK, TaskOK
  <1>9. OldIsOver'
    BY Numbers
    DEF OldIsOver, TurnedAway, NothingRuns, NobodyWaits, Forgotten, TypeOK, TaskOK
  <1>10. Kept'
    BY Numbers DEF Kept, Attached, TypeOK, TaskOK
  <1> QED BY <1>1, <1>2, <1>3, <1>4, <1>5, <1>6, <1>7, <1>8, <1>9, <1>10 DEF IInv

(* A session made anew goes with its handshake, one resumed is detached.   *)
LEMMA FailIInv ==
  ASSUME MaxSession \in Nat, MaxConn \in Nat, IInv, NEW c \in Conn, FailHandshake(c)
  PROVE  IInv'
  <1> SUFFICES ASSUME TypeOK, TaskOK, IdsOK, EpochsOK, MapOK, Findable, ListedOK, Serving,
                      TakingOver, ClientsOK, FreshUnknown, OldIsOver, Kept
               PROVE  IInv'
    BY DEF IInv
  <1> USE DEF FailHandshake, Unacked, Goto, clients
  <1>p1. sess[c] \in Session /\ c \notin took /\ pc[c] = "fail"
    BY Numbers DEF TypeOK, TaskOK
  <1>p2. map' \subseteq map /\ map' = (IF sess[c] = name[c] THEN map ELSE map \ {sess[c]})
    OBVIOUS
  <1>p3. pc' = [pc EXCEPT ![c] = IF sess[c] = name[c] THEN "detach" ELSE "ended"]
    OBVIOUS
  <1>p4. sess[c] # name[c] =>
          /\ \A d \in Conn \ {c} : sess[d] # sess[c]
          /\ Attached(c) /\ detached_at[sess[c]] = 0
    BY <1>p1, Numbers DEF FreshUnknown, Kept, Attached
  <1>1. EpochsOK' /\ ClientsOK' /\ FreshUnknown'
    BY DEF EpochsOK, ClientsOK, FreshUnknown
  <1>2. TypeOK'
    BY <1>p1, <1>p2, <1>p3 DEF TypeOK, Places
  <1>3. TaskOK'
    BY ZenonT(20), <1>p1, <1>p2, <1>p3, <1>p4, Numbers DEF TaskOK, TypeOK
  <1>4. IdsOK'
    BY <1>p1, <1>p2, <1>p3, <1>p4, Numbers DEF IdsOK, TypeOK, TaskOK
  <1>5. MapOK'
    BY <1>p1, <1>p2, <1>p4 DEF MapOK, Detached, TypeOK
  <1>6. Findable'
    BY ZenonT(20), <1>p1, <1>p2, <1>p3, <1>p4, Numbers
    DEF Findable, Holding, TypeOK, TaskOK, FreshUnknown
  <1>7. ListedOK'
    <2>1. \A s \in Session : connections[s] # c
      BY ZenonT(20), <1>p1, Numbers DEF ListedOK
    <2> QED BY <1>p3, <2>1, Numbers DEF ListedOK, TypeOK
  <1>8. Serving'
    BY ZenonT(20), <1>p1, <1>p2, <1>p3, <1>p4, Numbers DEF Serving, TypeOK, TaskOK
  <1>9. TakingOver'
    BY ZenonT(20), <1>p1, <1>p2, <1>p3, <1>p4, Numbers DEF TakingOver, TypeOK, TaskOK
  <1>10. OldIsOver'
    BY <1>p1, <1>p2, <1>p3, <1>p4, Numbers
    DEF OldIsOver, TurnedAway, NothingRuns, NobodyWaits, Forgotten, TypeOK, TaskOK
  <1>11. Kept'
    <2>1. \A d \in Conn : Attached(d)' => Attached(d) /\ (d = c => sess[c] = name[c])
      BY <1>p1, <1>p3 DEF Attached, TypeOK
    <2>2. \A d \in Conn : Attached(d) /\ (d = c => sess[c] = name[c]) => Attached(d)'
      BY <1>p1, <1>p3 DEF Attached, TypeOK
    <2>3. \A d \in Conn : Attached(d)' => sess[d] \in map' /\ detached_at[sess[d]] = 0
      BY <1>p2, <1>p4, <2>1 DEF Kept
    <2>4. \A s \in map' : detached_at[s] = 0 => \E d \in Conn : sess[d] = s /\ Attached(d)'
      BY <1>p2, <2>2 DEF Kept
    <2> QED BY <2>3, <2>4 DEF Kept
  <1> QED BY <1>1, <1>2, <1>3, <1>4, <1>5, <1>6, <1>7, <1>8, <1>9, <1>10, <1>11 DEF IInv

(* Of two connections the older gives way, whichever registers first.      *)
LEMMA RegisterIInv ==
  ASSUME MaxSession \in Nat, MaxConn \in Nat, IInv, NEW c \in Conn, Register(c)
  PROVE  IInv'
  <1> SUFFICES ASSUME TypeOK, TaskOK, IdsOK, EpochsOK, MapOK, Findable, ListedOK, Serving,
                      TakingOver, ClientsOK, FreshUnknown, OldIsOver, Kept
               PROVE  IInv'
    BY DEF IInv
  <1> USE DEF Goto, table, clients
  <1>p1. /\ pc[c] = "register" /\ UNCHANGED <<table, name, sess, at, req, acked, clients>>
         /\ pc' = [pc EXCEPT ![c] = IF Outdated(c) THEN "ended" ELSE "takeover"]
    BY DEF Register
  <1>p2. IF Outdated(c) THEN closed' = closed \cup {c} /\ UNCHANGED <<connections, old>>
         ELSE /\ connections' = [connections EXCEPT ![sess[c]] = c]
              /\ old' = [old EXCEPT ![c] = connections[sess[c]]] /\ UNCHANGED closed
    BY DEF Register
  <1>p3. sess[c] \in Session
    BY ZenonT(20), <1>p1, Numbers DEF TypeOK, TaskOK
  <1>p4. /\ connections[sess[c]] \in Conn \cup {0}
         /\ \A s \in Session : connections[s] # c
         /\ \A d \in Conn : old[d] # 0 => d # c
    <2>1. connections[sess[c]] \in Conn \cup {0}
      BY <1>p3 DEF TypeOK
    <2>2. \A s \in Session : connections[s] # c
      BY <1>p1, Numbers DEF ListedOK
    <2>3. \A d \in Conn : old[d] # 0 => d # c
      BY <1>p1 DEF TakingOver
    <2> QED BY <2>1, <2>2, <2>3
  <1>p5. connections[sess[c]] # 0 =>
          /\ sess[connections[sess[c]]] = sess[c]
          /\ at[connections[sess[c]]] # at[c] /\ at[connections[sess[c]]] <= epoch[sess[c]]
    <2>1. connections[sess[c]] # 0 => connections[sess[c]] \in Conn /\ sess[connections[sess[c]]] = sess[c]
      BY <1>p3 DEF ListedOK, TypeOK
    <2>2. connections[sess[c]] # 0 => connections[sess[c]] # c /\ sess[c] # 0
      BY <1>p3, <1>p4, Numbers
    <2> QED BY <2>1, <2>2 DEF EpochsOK
  <1>p6. Outdated(c) => ~Attached(c)
    BY <1>p3, <1>p4, <1>p5 DEF Attached, Outdated, TypeOK
  <1>1. IdsOK' /\ EpochsOK' /\ MapOK' /\ ClientsOK'
    BY <1>p1 DEF IdsOK, EpochsOK, MapOK, Detached, ClientsOK
  <1>2. FreshUnknown'
    BY <1>p1 DEF FreshUnknown
  <1>3. TypeOK'
    <2>1. CASE Outdated(c)
      BY <1>p1, <1>p2, <1>p3, <1>p4, <2>1 DEF TypeOK, Places
    <2>2. CASE ~Outdated(c)
      BY ZenonT(20), <1>p1, <1>p2, <1>p3, <1>p4, <2>2 DEF TypeOK, Places
    <2> QED BY <2>1, <2>2
  <1>4. TaskOK'
    BY ZenonT(20), <1>p1, <1>p2, <1>p3, <1>p4, <1>p5, <1>p6, Numbers DEF TaskOK, TypeOK
  <1>5. Findable'
    BY <1>p1, <1>p2, <1>p3, <1>p4, <1>p5, <1>p6, Numbers
    DEF Findable, Holding, TypeOK, TaskOK
  <1>6. ListedOK'
    <2>1. \A s \in Session : connections[s] # 0 => pc'[connections[s]] = pc[connections[s]]
      BY <1>p1, <1>p4 DEF TypeOK
    <2>2. CASE Outdated(c)
      BY ZenonT(20), <1>p1, <1>p2, <2>1, <2>2 DEF ListedOK
    <2>3. CASE ~Outdated(c)
      BY <1>p1, <1>p2, <1>p3, <2>1, <2>3 DEF ListedOK, TypeOK
    <2> QED BY <2>2, <2>3
  <1>7. Serving'
    <2>1. CASE Outdated(c)
      BY <1>p1, <1>p2, <1>p3, <1>p4, <2>1 DEF Serving, TypeOK
    <2>2. CASE ~Outdated(c)
      <3>1. SUFFICES ASSUME NEW d \in Conn, d # c, pc[d] \in {"takeover", "serve"}
                     PROVE  connections'[sess[d]] = d \/ d \in closed \/ \E e \in Conn : old'[e] = d
        BY <1>p1, <1>p2, <1>p3, <1>p4, <2>2 DEF Serving, TypeOK
      <3>2. CASE connections[sess[d]] = d
        <4>1. sess[d] \in Session
          BY <3>1, Numbers DEF TypeOK, TaskOK
        <4>2. CASE sess[d] = sess[c]
          BY <1>p2, <2>2, <3>2, <4>2 DEF TypeOK
        <4>3. CASE sess[d] # sess[c]
          BY <1>p2, <1>p3, <2>2, <3>2, <4>1, <4>3 DEF TypeOK
        <4> QED BY <4>2, <4>3
      <3>3. CASE \E e \in Conn : old[e] = d
        BY <1>p1, <1>p2, <1>p3, <1>p4, <2>2, <3>1, <3>3, Numbers DEF TypeOK
      <3> QED BY <3>1, <3>2, <3>3 DEF Serving
    <2> QED BY <2>1, <2>2
  <1>8. TakingOver'
    <2>1. CASE Outdated(c)
      BY <1>p1, <1>p2, <1>p3, <1>p4, <2>1 DEF TakingOver, TypeOK
    <2>2. CASE ~Outdated(c)
      <3>1. connections[sess[c]] # 0 => at[connections[sess[c]]] < at[c]
        BY <1>p4, <1>p5, <2>2 DEF Outdated, TypeOK
      <3> QED BY ZenonT(20), <1>p1, <1>p2, <1>p3, <1>p4, <1>p5, <2>2, <3>1
      DEF TakingOver, TypeOK
    <2> QED BY <2>1, <2>2
  <1>9. OldIsOver'
    BY <1>p1, <1>p2, <1>p3, <1>p4, <1>p5, <1>p6, Numbers
    DEF OldIsOver, TurnedAway, NothingRuns, NobodyWaits, Forgotten, TypeOK, TaskOK
  <1>10. Kept'
    <2>1. \A d \in Conn : Attached(d)' <=> Attached(d)
      BY <1>p1, <1>p6 DEF Attached, TypeOK
    <2> QED BY <1>p1, <2>1 DEF Kept
  <1> QED BY <1>1, <1>2, <1>3, <1>4, <1>5, <1>6, <1>7, <1>8, <1>9, <1>10 DEF IInv

(* The connection taken over from is closed.                               *)
LEMMA TakeOverIInv ==
  ASSUME MaxSession \in Nat, MaxConn \in Nat, IInv, NEW c \in Conn, TakeOver(c)
  PROVE  IInv'
  <1> SUFFICES ASSUME TypeOK, TaskOK, IdsOK, EpochsOK, MapOK, Findable, ListedOK, Serving,
                      TakingOver, ClientsOK, FreshUnknown, OldIsOver, Kept
               PROVE  IInv'
    BY DEF IInv
  <1> USE DEF TakeOver, Goto, table, clients
  <1>1. IdsOK' /\ EpochsOK' /\ MapOK' /\ ClientsOK'
    BY DEF IdsOK, EpochsOK, MapOK, Detached, ClientsOK
  <1>2. FreshUnknown'
    BY DEF FreshUnknown
  <1>3. TypeOK'
    <2>1. closed' \subseteq Conn /\ old' \in [Conn -> Conn \cup {0}]
      BY DEF TypeOK
    <2>2. pc' \in [Conn -> Places]
      BY DEF TypeOK, Places
    <2> QED BY <2>1, <2>2 DEF TypeOK
  <1>4. TaskOK'
    BY Numbers DEF TaskOK, TypeOK
  <1>5. Findable'
    BY Numbers DEF Findable, Holding, TypeOK, TaskOK
  <1>6. ListedOK'
    BY Numbers DEF ListedOK, TypeOK, TaskOK
  <1>7. Serving'
    BY Numbers DEF Serving, TypeOK, TaskOK
  <1>8. TakingOver'
    BY ZenonT(20), Numbers DEF TakingOver, TypeOK, TaskOK
  <1>9. OldIsOver'
    BY Numbers
    DEF OldIsOver, TurnedAway, NothingRuns, NobodyWaits, Forgotten, TypeOK, TaskOK
  <1>10. Kept'
    BY Numbers DEF Kept, Attached, TypeOK, TaskOK
  <1> QED BY <1>1, <1>2, <1>3, <1>4, <1>5, <1>6, <1>7, <1>8, <1>9, <1>10 DEF IInv

(* A change is accepted.                                                   *)
LEMMA AcceptIInv ==
  ASSUME MaxSession \in Nat, MaxConn \in Nat, IInv, NEW c \in Conn, Accept(c)
  PROVE  IInv'
  <1> SUFFICES ASSUME TypeOK, TaskOK, IdsOK, EpochsOK, MapOK, Findable, ListedOK, Serving,
                      TakingOver, ClientsOK, FreshUnknown, OldIsOver, Kept
               PROVE  IInv'
    BY DEF IInv
  <1> USE DEF Accept, table, tasks, clients
  <1>1. IdsOK' /\ EpochsOK' /\ MapOK' /\ ListedOK'
    BY DEF IdsOK, EpochsOK, MapOK, Detached, ListedOK
  <1>2. Serving' /\ TakingOver' /\ ClientsOK' /\ FreshUnknown'
    <2>1. Serving'
      BY DEF Serving
    <2>2. TakingOver'
      BY DEF TakingOver
    <2>3. ClientsOK'
      BY DEF ClientsOK
    <2>4. FreshUnknown'
      BY DEF FreshUnknown
    <2> QED BY <2>1, <2>2, <2>3, <2>4
  <1>3. Kept'
    BY ZenonT(20) DEF Kept, Attached
  <1>4. TypeOK'
    BY Numbers DEF TypeOK, Places, TaskOK
  <1>5. TaskOK'
    BY Numbers DEF TaskOK, TypeOK
  <1>6. Findable'
    BY Numbers DEF Findable, Holding, TypeOK, TaskOK
  <1>7. OldIsOver'
    BY Numbers
    DEF OldIsOver, TurnedAway, NothingRuns, NobodyWaits, Forgotten, TypeOK, TaskOK
  <1> QED BY <1>1, <1>2, <1>3, <1>4, <1>5, <1>6, <1>7 DEF IInv

(* It begins only on the newest connection.                                *)
LEMMA BeginIInv ==
  ASSUME MaxSession \in Nat, MaxConn \in Nat, IInv, NEW c \in Conn, BeginRequest(c)
  PROVE  IInv'
  <1> SUFFICES ASSUME TypeOK, TaskOK, IdsOK, EpochsOK, MapOK, Findable, ListedOK, Serving,
                      TakingOver, ClientsOK, FreshUnknown, OldIsOver, Kept
               PROVE  IInv'
    BY DEF IInv
  <1> USE DEF BeginRequest, table, tasks, clients
  <1>1. IdsOK' /\ EpochsOK' /\ MapOK' /\ ListedOK'
    BY DEF IdsOK, EpochsOK, MapOK, Detached, ListedOK
  <1>2. TakingOver' /\ ClientsOK' /\ FreshUnknown' /\ Kept'
    BY DEF TakingOver, ClientsOK, FreshUnknown, Kept, Attached
  <1>3. TypeOK'
    BY ZenonT(20), Numbers DEF TypeOK, Places, TaskOK
  <1>4. TaskOK'
    BY Numbers DEF TaskOK, TypeOK
  <1>5. Findable'
    BY Numbers DEF Findable, Holding, TypeOK, TaskOK
  <1>6. Serving'
    BY ZenonT(20), Numbers DEF Serving, TypeOK, TaskOK
  <1>7. OldIsOver'
    BY Numbers
    DEF OldIsOver, TurnedAway, NothingRuns, NobodyWaits, Forgotten, TypeOK, TaskOK
  <1> QED BY <1>1, <1>2, <1>3, <1>4, <1>5, <1>6, <1>7 DEF IInv

(* It ends.                                                                *)
LEMMA EndIInv ==
  ASSUME MaxSession \in Nat, MaxConn \in Nat, IInv, NEW c \in Conn, EndRequest(c)
  PROVE  IInv'
  <1> SUFFICES ASSUME TypeOK, TaskOK, IdsOK, EpochsOK, MapOK, Findable, ListedOK, Serving,
                      TakingOver, ClientsOK, FreshUnknown, OldIsOver, Kept
               PROVE  IInv'
    BY DEF IInv
  <1> USE DEF EndRequest, table, tasks, clients
  <1>1. IdsOK' /\ EpochsOK' /\ MapOK' /\ ListedOK'
    BY DEF IdsOK, EpochsOK, MapOK, Detached, ListedOK
  <1>2. Serving' /\ TakingOver' /\ ClientsOK' /\ FreshUnknown'
    <2>1. Serving'
      BY DEF Serving
    <2>2. TakingOver'
      BY DEF TakingOver
    <2>3. ClientsOK'
      BY DEF ClientsOK
    <2>4. FreshUnknown'
      BY DEF FreshUnknown
    <2> QED BY <2>1, <2>2, <2>3, <2>4
  <1>3. Kept'
    BY ZenonT(20) DEF Kept, Attached
  <1>4. TypeOK'
    BY Numbers DEF TypeOK, Places, TaskOK
  <1>5. TaskOK'
    BY Numbers DEF TaskOK, TypeOK
  <1>6. Findable'
    BY Numbers DEF Findable, Holding, TypeOK, TaskOK
  <1>7. OldIsOver'
    BY Numbers
    DEF OldIsOver, TurnedAway, NothingRuns, NobodyWaits, Forgotten, TypeOK, TaskOK
  <1> QED BY <1>1, <1>2, <1>3, <1>4, <1>5, <1>6, <1>7 DEF IInv

(* A connection stops serving.                                             *)
LEMMA LeaveLoopIInv ==
  ASSUME MaxSession \in Nat, MaxConn \in Nat, IInv, NEW c \in Conn, LeaveLoop(c)
  PROVE  IInv'
  <1> SUFFICES ASSUME TypeOK, TaskOK, IdsOK, EpochsOK, MapOK, Findable, ListedOK, Serving,
                      TakingOver, ClientsOK, FreshUnknown, OldIsOver, Kept
               PROVE  IInv'
    BY DEF IInv
  <1> USE DEF LeaveLoop, Goto, table, clients
  <1>1. IdsOK' /\ EpochsOK' /\ MapOK' /\ ClientsOK'
    BY DEF IdsOK, EpochsOK, MapOK, Detached, ClientsOK
  <1>2. FreshUnknown'
    BY DEF FreshUnknown
  <1>3. TypeOK'
    BY Numbers DEF TypeOK, Places, TaskOK
  <1>4. TaskOK'
    BY Numbers DEF TaskOK, TypeOK
  <1>5. Findable'
    BY Numbers DEF Findable, Holding, TypeOK, TaskOK
  <1>6. ListedOK'
    BY Numbers DEF ListedOK, TypeOK, TaskOK
  <1>7. Serving'
    BY Numbers DEF Serving, TypeOK, TaskOK
  <1>8. TakingOver'
    BY ZenonT(20), Numbers DEF TakingOver, TypeOK, TaskOK
  <1>9. OldIsOver'
    <2>1. \A d \in Conn : /\ pc'[d] = "create" => pc[d] = "create"
                          /\ pc[d] = "ended" => pc'[d] = "ended"
      BY DEF TypeOK
    <2> QED BY <2>1, OldIsOverKept
  <1>10. Kept'
    BY Numbers DEF Kept, Attached, TypeOK, TaskOK
  <1> QED BY <1>1, <1>2, <1>3, <1>4, <1>5, <1>6, <1>7, <1>8, <1>9, <1>10 DEF IInv

(* Its entry goes, and no other's.                                         *)
LEMMA UnlistIInv ==
  ASSUME MaxSession \in Nat, MaxConn \in Nat, IInv, NEW c \in Conn, Unlist(c)
  PROVE  IInv'
  <1> SUFFICES ASSUME TypeOK, TaskOK, IdsOK, EpochsOK, MapOK, Findable, ListedOK, Serving,
                      TakingOver, ClientsOK, FreshUnknown, OldIsOver, Kept
               PROVE  IInv'
    BY DEF IInv
  <1> USE DEF Unlist, Listed, Goto, table, clients
  <1>1. IdsOK' /\ EpochsOK' /\ MapOK' /\ ClientsOK'
    BY DEF IdsOK, EpochsOK, MapOK, Detached, ClientsOK
  <1>2. FreshUnknown'
    BY DEF FreshUnknown
  <1>3. TypeOK'
    BY Numbers DEF TypeOK, Places, TaskOK
  <1>4. TaskOK'
    BY Numbers DEF TaskOK, TypeOK
  <1>5. Findable'
    BY Numbers DEF Findable, Holding, TypeOK, TaskOK
  <1>6. ListedOK'
    <2> SUFFICES ASSUME NEW s \in Session, connections'[s] # 0
                 PROVE  /\ sess[connections'[s]] = s
                        /\ pc'[connections'[s]] \in {"takeover", "serve", "unlist"}
      BY DEF ListedOK
    <2>1. connections'[s] = connections[s] /\ connections[s] \in Conn
      BY DEF TypeOK
    <2>2. sess[connections[s]] = s /\ pc[connections[s]] \in {"takeover", "serve", "unlist"}
      BY <2>1 DEF ListedOK
    <2>3. connections[s] # c
      BY <2>1, <2>2, Numbers DEF TypeOK
    <2> QED BY <2>1, <2>2, <2>3 DEF TypeOK
  <1>7. Serving'
    BY Numbers DEF Serving, TypeOK, TaskOK, ListedOK, EpochsOK
  <1>8. TakingOver'
    BY ZenonT(20), Numbers DEF TakingOver, TypeOK, TaskOK
  <1>9. OldIsOver'
    <2>1. \A d \in Conn : /\ pc'[d] = "create" => pc[d] = "create"
                          /\ pc[d] = "ended" => pc'[d] = "ended"
      BY DEF TypeOK
    <2> QED BY <2>1, OldIsOverKept
  <1>10. Kept'
    BY Numbers DEF Kept, Attached, TypeOK, TaskOK
  <1> QED BY <1>1, <1>2, <1>3, <1>4, <1>5, <1>6, <1>7, <1>8, <1>9, <1>10 DEF IInv

(* The session is looked up.                                               *)
LEMMA DetachIInv ==
  ASSUME MaxSession \in Nat, MaxConn \in Nat, IInv, NEW c \in Conn, Detach(c)
  PROVE  IInv'
  <1> SUFFICES ASSUME TypeOK, TaskOK, IdsOK, EpochsOK, MapOK, Findable, ListedOK, Serving,
                      TakingOver, ClientsOK, FreshUnknown, OldIsOver, Kept
               PROVE  IInv'
    BY DEF IInv
  <1> USE DEF Detach, Goto, table, clients
  <1>1. IdsOK' /\ EpochsOK' /\ MapOK' /\ ClientsOK'
    BY DEF IdsOK, EpochsOK, MapOK, Detached, ClientsOK
  <1>2. FreshUnknown'
    BY DEF FreshUnknown
  <1>3. TypeOK'
    BY Numbers DEF TypeOK, Places, TaskOK
  <1>4. TaskOK'
    BY Numbers DEF TaskOK, TypeOK
  <1>5. Findable'
    BY Numbers DEF Findable, Holding, TypeOK, TaskOK
  <1>6. ListedOK'
    BY Numbers DEF ListedOK, TypeOK, TaskOK
  <1>7. Serving'
    BY Numbers DEF Serving, TypeOK, TaskOK
  <1>8. TakingOver'
    BY Numbers DEF TakingOver, TypeOK, TaskOK
  <1>9. OldIsOver'
    <2>1. \A d \in Conn : /\ pc'[d] = "create" => pc[d] = "create"
                          /\ pc[d] = "ended" => pc'[d] = "ended"
      BY DEF TypeOK
    <2> QED BY <2>1, OldIsOverKept
  <1>10. Kept'
    BY Numbers DEF Kept, Attached, TypeOK, TaskOK
  <1> QED BY <1>1, <1>2, <1>3, <1>4, <1>5, <1>6, <1>7, <1>8, <1>9, <1>10 DEF IInv

(* A connection without a Hello ends.                                      *)
LEMMA NoHelloIInv ==
  ASSUME MaxSession \in Nat, MaxConn \in Nat, IInv, NEW c \in Conn, pc[c] = "hello", NoHello(c),
         UNCHANGED <<connections, name, old, closed, req, acked, clients>>
  PROVE  IInv'
  <1> SUFFICES ASSUME TypeOK, TaskOK, IdsOK, EpochsOK, MapOK, Findable, ListedOK, Serving,
                      TakingOver, ClientsOK, FreshUnknown, OldIsOver, Kept
               PROVE  IInv'
    BY DEF IInv
  <1> USE DEF NoHello, Goto, table, clients
  <1>1. IdsOK' /\ EpochsOK' /\ MapOK' /\ ClientsOK'
    BY DEF IdsOK, EpochsOK, MapOK, Detached, ClientsOK
  <1>2. FreshUnknown'
    BY DEF FreshUnknown
  <1>3. TypeOK'
    BY Numbers DEF TypeOK, Places, TaskOK
  <1>4. TaskOK'
    BY Numbers DEF TaskOK, TypeOK
  <1>5. Findable'
    BY Numbers DEF Findable, Holding, TypeOK, TaskOK
  <1>6. ListedOK'
    BY Numbers DEF ListedOK, TypeOK, TaskOK
  <1>7. Serving'
    BY Numbers DEF Serving, TypeOK, TaskOK
  <1>8. TakingOver'
    BY ZenonT(20), Numbers DEF TakingOver, TypeOK, TaskOK
  <1>9. OldIsOver'
    <2>1. \A d \in Conn : /\ pc'[d] = "create" => pc[d] = "create"
                          /\ pc[d] = "ended" => pc'[d] = "ended"
      BY DEF TypeOK
    <2> QED BY <2>1, OldIsOverKept
  <1>10. Kept'
    BY Numbers DEF Kept, Attached, TypeOK, TaskOK
  <1> QED BY <1>1, <1>2, <1>3, <1>4, <1>5, <1>6, <1>7, <1>8, <1>9, <1>10 DEF IInv

(* The session named is gone, or of no use: nothing of it is under way.    *)
LEMMA TurnAwayIInv ==
  ASSUME MaxSession \in Nat, MaxConn \in Nat, IInv, NEW c \in Conn, pc[c] = "hello", TurnAway(c),
         UNCHANGED <<connections, name, old, closed, req, acked, clients>>
  PROVE  IInv'
  <1> SUFFICES ASSUME TypeOK, TaskOK, IdsOK, EpochsOK, MapOK, Findable, ListedOK, Serving,
                      TakingOver, ClientsOK, FreshUnknown, OldIsOver, Kept
               PROVE  IInv'
    BY DEF IInv
  <1> USE DEF TurnAway, Goto, table, clients
  <1>1. IdsOK' /\ EpochsOK' /\ MapOK' /\ ClientsOK'
    BY DEF IdsOK, EpochsOK, MapOK, Detached, ClientsOK
  <1>2. FreshUnknown'
    BY DEF FreshUnknown
  <1>3. TypeOK'
    BY Numbers DEF TypeOK, Places, TaskOK
  <1>4. TaskOK'
    BY Numbers DEF TaskOK, TypeOK
  <1>5. Findable'
    BY Numbers DEF Findable, Holding, TypeOK, TaskOK
  <1>6. ListedOK'
    BY Numbers DEF ListedOK, TypeOK, TaskOK
  <1>7. Serving'
    BY Numbers DEF Serving, TypeOK, TaskOK
  <1>8. TakingOver'
    BY ZenonT(20), Numbers DEF TakingOver, TypeOK, TaskOK
  <1>9. OldIsOver'
    <2>1. sess[c] = 0 /\ c \notin took
      BY DEF TaskOK
    <2>2. SUFFICES ASSUME NEW d \in Conn, TurnedAway(d)'
                   PROVE  (NothingRuns(d) /\ NobodyWaits(d) /\ Forgotten(d))'
      BY DEF OldIsOver
    <2>3. name[d] # 0
      BY <2>2 DEF TurnedAway
    <2>4. CASE d # c
      <3>1. TurnedAway(d)
        BY <2>2, <2>4 DEF TurnedAway, TypeOK
      <3>2. NothingRuns(d) /\ NobodyWaits(d) /\ Forgotten(d)
        BY <3>1 DEF OldIsOver
      <3> QED BY <2>1, <2>3, <3>2 DEF NothingRuns, NobodyWaits, Forgotten, TypeOK
    <2>5. CASE d = c
      <3>1. PICK k \in Client : cur[k] = c
        BY <2>1, <2>2, <2>5 DEF TurnedAway
      <3>2. NothingRuns(c)'
        <4>1. SUFFICES ASSUME NEW e \in Conn, sess[e] = name[c]
                       PROVE  /\ req[e] \notin {"queued", "doing"}
                              /\ at[e] = epoch[name[c]] => pc[e] = "ended"
          BY <2>1, <2>3, <2>5 DEF NothingRuns, TypeOK
        <4>2. name[c] \notin map /\ (name[c] \in dropped => ~Holding(e))
          BY <4>1 DEF Resumable, Holders
        <4>3. req[e] \notin {"queued", "doing"}
          BY <2>3, <2>5, <4>1, <4>2 DEF Findable, Holding
        <4>4. at[e] = epoch[name[c]] => pc[e] = "ended"
          BY <2>3, <2>5, <4>1, <4>2 DEF Kept, Attached
        <4> QED BY <4>3, <4>4
      <3>3. NobodyWaits(c)'
        <4>1. SUFFICES ASSUME NEW e \in Conn, e # c, e \notin took, NEW l \in Client, cur[l] = e,
                              name[c] \in {sess[e], name[e]}
                       PROVE  FALSE
          BY DEF NobodyWaits
        <4>2. l # k /\ name[e] = token[l] /\ name[c] = token[k]
          BY <2>1, <3>1, <4>1, Numbers DEF ClientsOK
        <4>3. name[e] # name[c]
          BY ZenonT(20), <2>3, <2>5, <4>2 DEF ClientsOK
        <4>4. sess[e] # 0 /\ sess[e] # name[e] /\ name[c] = sess[e]
          BY <2>3, <2>5, <4>1, <4>3
        <4> QED BY <4>1, <4>4 DEF FreshUnknown
      <3>4. Forgotten(c)'
        BY <2>1 DEF Forgotten
      <3> QED BY <2>5, <3>2, <3>3, <3>4
    <2> QED BY <2>4, <2>5
  <1>10. Kept'
    BY Numbers DEF Kept, Attached, TypeOK, TaskOK
  <1> QED BY <1>1, <1>2, <1>3, <1>4, <1>5, <1>6, <1>7, <1>8, <1>9, <1>10 DEF IInv

(* A resumed session is attached anew, at the next epoch.                  *)
LEMMA ResumeIInv ==
  ASSUME MaxSession \in Nat, MaxConn \in Nat, IInv, NEW c \in Conn, pc[c] = "hello", ResumeNamed(c),
         UNCHANGED <<connections, name, old, closed, req, acked, clients>>
  PROVE  IInv'
  <1> SUFFICES ASSUME TypeOK, TaskOK, IdsOK, EpochsOK, MapOK, Findable, ListedOK, Serving,
                      TakingOver, ClientsOK, FreshUnknown, OldIsOver, Kept
               PROVE  IInv'
    BY DEF IInv
  <1> USE DEF Goto, clients
  <1>p1. /\ name[c] \in Session /\ name[c] \in map \cup dropped /\ UNCHANGED next_id
         /\ map' = map \cup {name[c]} /\ dropped' = dropped \ {name[c]}
         /\ pc' = [pc EXCEPT ![c] = "ack"] /\ sess' = [sess EXCEPT ![c] = name[c]]
    BY DEF ResumeNamed, Resumable, Retake, TypeOK
  <1>p2. /\ epoch' = [epoch EXCEPT ![name[c]] = epoch[name[c]] + 1]
         /\ at' = [at EXCEPT ![c] = epoch[name[c]] + 1]
    BY <1>p1 DEF ResumeNamed, TypeOK
  <1>p3. Detached' = Detached \ {name[c]} /\ detached_at' \in [Session -> Nat]
    BY Undetached DEF ResumeNamed
  <1>p4. sess[c] = 0 /\ c \notin took /\ c \notin acked /\ req[c] = "none"
    BY DEF TaskOK, TypeOK
  <1>1. ClientsOK'
    BY <1>p1 DEF ClientsOK
  <1>2. TypeOK'
    <2>1. pc' \in [Conn -> Places] /\ sess' \in [Conn -> Session \cup {0}]
      BY <1>p1 DEF TypeOK, Places
    <2>2. epoch' \in [Session -> Nat] /\ at' \in [Conn -> Nat]
      BY <1>p1, <1>p2 DEF TypeOK
    <2>3. map' \subseteq Session /\ dropped' \subseteq Session
      BY <1>p1 DEF TypeOK
    <2> QED BY <1>p1, <1>p3, <2>1, <2>2, <2>3 DEF TypeOK
  <1>3. TaskOK'
    BY <1>p1, <1>p4, Numbers DEF TaskOK, TypeOK
  <1>4. IdsOK'
    BY <1>p1 DEF IdsOK, TypeOK
  <1>5. EpochsOK'
    <2>1. epoch[name[c]] \in Nat /\ epoch'[name[c]] = epoch[name[c]] + 1
      BY <1>p1, <1>p2 DEF TypeOK
    <2>2. sess'[c] = name[c] /\ at'[c] = epoch[name[c]] + 1
      BY <1>p1, <1>p2 DEF TypeOK
    <2>3. ASSUME NEW d \in Conn, d # c, sess[d] # 0
          PROVE  /\ sess'[d] = sess[d] /\ at'[d] = at[d] /\ at[d] \in Nat
                 /\ 1 <= at[d] /\ at[d] <= epoch[sess[d]] /\ epoch[sess[d]] <= epoch'[sess[d]]
      <3>1. sess[d] \in Session /\ epoch[sess[d]] \in Nat
        BY <2>3 DEF TypeOK
      <3>2. epoch[sess[d]] <= epoch'[sess[d]]
        BY <1>p2, <2>1, <3>1 DEF TypeOK
      <3> QED BY <1>p1, <1>p2, <2>3, <3>2 DEF EpochsOK, TypeOK
    <2>4. \A d \in Conn : d # c => sess'[d] = sess[d]
      BY <1>p1 DEF TypeOK
    <2>5. \A d \in Conn : sess'[d] # 0 => 1 <= at'[d] /\ at'[d] <= epoch'[sess'[d]]
      <3>1. ASSUME NEW d \in Conn, d # c, sess'[d] # 0
            PROVE  1 <= at'[d] /\ at'[d] <= epoch'[sess'[d]]
        <4>1. sess[d] \in Session /\ epoch[sess[d]] \in Nat /\ epoch'[sess[d]] \in Nat
          BY <1>2, <2>4, <3>1 DEF TypeOK
        <4> QED BY <2>3, <2>4, <3>1, <4>1
      <3> QED BY <2>1, <2>2, <3>1
    <2>6. ASSUME NEW d \in Conn, d # c, sess'[d] = name[c]
          PROVE  at'[d] # at'[c]
      BY <1>p1, <2>1, <2>2, <2>3, <2>4, <2>6, Numbers
    <2>7. \A d, e \in Conn : d # e /\ sess'[d] # 0 /\ sess'[d] = sess'[e] => at'[d] # at'[e]
      BY <2>2, <2>3, <2>4, <2>6 DEF EpochsOK
    <2> QED BY <2>5, <2>7 DEF EpochsOK
  <1>6. MapOK'
    BY <1>p1, <1>p3 DEF MapOK
  <1>7. Findable'
    BY <1>p1, <1>p4 DEF Findable, Holding, TypeOK
  <1>8. ListedOK'
    <2>1. \A s \in Session : connections[s] # c
      BY Numbers DEF ListedOK
    <2> QED BY <1>p1, <2>1 DEF ListedOK, TypeOK
  <1>9. Serving'
    BY <1>p1 DEF Serving, TypeOK
  <1>10. TakingOver'
    <2>1. \A d \in Conn : old[d] # 0 => d # c /\ old[d] # c
      BY <1>p4 DEF TakingOver, TaskOK
    <2> QED BY <1>p1, <1>p2, <2>1 DEF TakingOver, TypeOK
  <1>11. FreshUnknown'
    BY <1>p1, <1>p2, <1>p4 DEF FreshUnknown, TypeOK
  <1>12. OldIsOver'
    <2>2. SUFFICES ASSUME NEW d \in Conn, TurnedAway(d)'
                   PROVE  (NothingRuns(d) /\ NobodyWaits(d) /\ Forgotten(d))'
      BY DEF OldIsOver
    <2>3. d # c /\ name[d] # 0 /\ TurnedAway(d)
      BY <1>p1, <2>2 DEF TurnedAway, TypeOK
    <2>4. NothingRuns(d) /\ NobodyWaits(d) /\ Forgotten(d)
      BY <2>3 DEF OldIsOver
    <2>5. NothingRuns(d)'
      <3>1. SUFFICES ASSUME NEW e \in Conn, e # c, sess[e] = name[d]
                     PROVE  /\ req[e] # "doing"
                            /\ req[e] = "queued" => at[e] # epoch'[name[d]]
                            /\ e \in took /\ at[e] = epoch'[name[d]] => pc[e] = "ended"
        BY ZenonT(20), <1>p1, <1>p2, <1>p4, <2>3 DEF NothingRuns, TypeOK
      <3>2. CASE name[d] = name[c]
        <4>1. at[e] <= epoch[name[d]] /\ epoch'[name[d]] = epoch[name[d]] + 1 /\ epoch[name[d]] \in Nat
          BY <1>p1, <1>p2, <2>3, <3>1, <3>2 DEF EpochsOK, TypeOK
        <4>2. at[e] # epoch'[name[d]]
          BY <4>1 DEF TypeOK
        <4> QED BY <2>4, <3>1, <4>2 DEF NothingRuns
      <3>3. CASE name[d] # name[c]
        <4>1. epoch'[name[d]] = epoch[name[d]]
          BY <1>p1, <1>p2, <2>3, <3>3 DEF TypeOK
        <4> QED BY <2>4, <3>1, <4>1 DEF NothingRuns
      <3> QED BY <3>2, <3>3
    <2>6. NobodyWaits(d)'
      BY <1>p1, <2>4 DEF NobodyWaits, TypeOK
    <2>7. Forgotten(d)'
      BY <2>4 DEF Forgotten
    <2> QED BY <2>5, <2>6, <2>7
  <1>13. Kept'
    <2>1. \A d \in Conn : Attached(d) /\ sess[d] # name[c] => sess'[d] = sess[d] /\ Attached(d)'
      BY <1>p1, <1>p2, <1>p4 DEF Attached, TypeOK
    <2>2. sess'[c] = name[c] /\ Attached(c)'
      BY <1>p1, <1>p2, Numbers DEF Attached, TypeOK
    <2>3. \A d \in Conn : Attached(d)' /\ d # c => Attached(d) /\ sess'[d] = sess[d] /\ sess[d] # name[c]
      <3>1. SUFFICES ASSUME NEW d \in Conn, Attached(d)', d # c
                     PROVE  Attached(d) /\ sess'[d] = sess[d] /\ sess[d] # name[c]
        OBVIOUS
      <3>2. sess'[d] = sess[d] /\ at'[d] = at[d] /\ pc'[d] = pc[d] /\ sess[d] # 0 /\ sess[d] \in Session
        BY <1>p1, <1>p2, <3>1 DEF Attached, TypeOK
      <3>3. at[d] <= epoch[sess[d]] /\ at[d] \in Nat /\ epoch[sess[d]] \in Nat
        BY <3>2 DEF EpochsOK, TypeOK
      <3>4. sess[d] # name[c]
        BY <1>p1, <1>p2, <3>1, <3>2, <3>3 DEF Attached, TypeOK
      <3>5. epoch'[sess[d]] = epoch[sess[d]]
        BY <1>p2, <3>2, <3>4 DEF TypeOK
      <3> QED BY <3>1, <3>2, <3>4, <3>5 DEF Attached
    <2>4. \A s \in map' : detached_at'[s] = 0 => s = name[c] \/ (s \in map /\ detached_at[s] = 0)
      BY <1>p1, <1>p3 DEF Detached, TypeOK
    <2>5. detached_at'[name[c]] = 0
      BY <1>p1, <1>p3 DEF Detached
    <2>6. \A s \in Session : detached_at[s] = 0 => detached_at'[s] = 0
      BY <1>p3 DEF Detached
    <2>7. \A s \in map' : detached_at'[s] = 0 => \E d \in Conn : sess'[d] = s /\ Attached(d)'
      BY <2>1, <2>2, <2>4 DEF Kept
    <2>8. \A d \in Conn : Attached(d)' => sess'[d] \in map' /\ detached_at'[sess'[d]] = 0
      BY <1>p1, <2>2, <2>3, <2>5, <2>6 DEF Kept, TypeOK
    <2> QED BY <2>7, <2>8 DEF Kept
  <1> QED BY <1>1, <1>2, <1>3, <1>4, <1>5, <1>6, <1>7, <1>8, <1>9, <1>10, <1>11, <1>12,
    <1>13
  DEF IInv

(* A new session is unlike any before it, and evicts none that is attached. *)
LEMMA CreateIInv ==
  ASSUME MaxSession \in Nat, MaxConn \in Nat, IInv, NEW c \in Conn, Create(c)
  PROVE  IInv'
  <1> SUFFICES ASSUME TypeOK, TaskOK, IdsOK, EpochsOK, MapOK, Findable, ListedOK, Serving,
                      TakingOver, ClientsOK, FreshUnknown, OldIsOver, Kept
               PROVE  IInv'
    BY DEF IInv
  <1> USE DEF Goto, clients
  <1>p1. next_id + 1 \in Session /\ pc[c] = "create" /\ next_id' = next_id + 1
         /\ pc' = [pc EXCEPT ![c] = "ack"] /\ sess' = [sess EXCEPT ![c] = next_id + 1]
         /\ epoch' = [epoch EXCEPT ![next_id + 1] = 1] /\ at' = [at EXCEPT ![c] = 1]
         /\ UNCHANGED <<connections, name, old, closed, req, acked, clients>>
    BY DEF Create
  <1>p2. PICK gone \in SUBSET Detached : Retire(gone) /\ map' = (map \ gone) \cup {next_id + 1}
    BY DEF Create
  <1>p3. /\ detached_at' \in [Session -> Nat]
         /\ Detached' = Detached \ gone
         /\ gone \subseteq dropped' /\ dropped' \subseteq dropped \cup gone
         /\ \A d \in Conn : sess[d] \in dropped /\ (pc[d] # "ended" \/ Holding(d)) => sess[d] \in dropped'
    BY <1>p2, Retired
  <1>p4. sess[c] = 0 /\ c \notin took /\ c \notin acked /\ req[c] = "none" /\ next_id \in Nat
    BY <1>p1 DEF TaskOK, TypeOK
  <1>p5. /\ next_id + 1 \notin map \cup dropped
         /\ \A d \in Conn : sess[d] # next_id + 1 /\ name[d] # next_id + 1
         /\ \A k \in Client : token[k] # next_id + 1
    BY <1>p4 DEF IdsOK, TypeOK, Session
  <1>p6. gone \subseteq map /\ gone \subseteq Session
    BY <1>p2 DEF MapOK, Detached
  <1>1. ClientsOK'
    BY <1>p1 DEF ClientsOK
  <1>2. TypeOK'
    <2>1. pc' \in [Conn -> Places] /\ sess' \in [Conn -> Session \cup {0}]
      BY <1>p1 DEF TypeOK, Places
    <2>2. epoch' \in [Session -> Nat] /\ at' \in [Conn -> Nat]
      BY <1>p1 DEF TypeOK
    <2>3. map' \subseteq Session /\ dropped' \subseteq Session
      BY <1>p1, <1>p2, <1>p3, <1>p6 DEF TypeOK
    <2>4. next_id' \in 0 .. MaxSession
      BY <1>p1 DEF TypeOK, Session
    <2> QED BY <1>p1, <1>p3, <2>1, <2>2, <2>3, <2>4 DEF TypeOK
  <1>3. TaskOK'
    BY <1>p1, <1>p4, Numbers DEF TaskOK, TypeOK
  <1>4. IdsOK'
    <2>1. \A s \in map' \cup dropped' : s <= next_id + 1
      BY <1>p2, <1>p3, <1>p4, <1>p6, Numbers DEF IdsOK, TypeOK
    <2>2. \A d \in Conn : sess'[d] <= next_id + 1 /\ name[d] <= next_id + 1
      <3>1. \A d \in Conn : sess[d] \in Nat /\ name[d] \in Nat
        BY DEF TypeOK, Session
      <3>2. \A d \in Conn : sess[d] <= next_id /\ name[d] <= next_id
        BY DEF IdsOK
      <3>3. \A d \in Conn : sess[d] <= next_id + 1 /\ name[d] <= next_id + 1
        <4>1. \A m, n \in Nat : m <= n => m <= n + 1
          OBVIOUS
        <4> QED BY <1>p4, <3>1, <3>2, <4>1
      <3> QED BY <1>p1, <1>p4, <3>3 DEF TypeOK
    <2>3. \A k \in Client : token[k] <= next_id + 1
      <3>1. \A k \in Client : token[k] \in Nat
        BY DEF TypeOK, Session
      <3> QED BY <1>p4, <3>1 DEF IdsOK
    <2> QED BY <1>p1, <2>1, <2>2, <2>3 DEF IdsOK
  <1>5. EpochsOK'
    BY <1>p1, <1>p5, Numbers DEF EpochsOK, TypeOK
  <1>6. MapOK'
    BY <1>p2, <1>p3, <1>p5, <1>p6 DEF MapOK
  <1>7. Findable'
    <2>1. SUFFICES ASSUME NEW d \in Conn, d # c, sess[d] # 0, pc[d] # "ended" \/ Holding(d)
                   PROVE  sess[d] \in map' \cup dropped'
      BY <1>p1, <1>p2 DEF Findable, Holding, TypeOK
    <2>2. sess[d] \in map \cup dropped
      BY <2>1 DEF Findable
    <2> QED BY <1>p2, <1>p3, <2>1, <2>2
  <1>8. ListedOK'
    <2>1. \A s \in Session : connections[s] # c
      BY <1>p1, Numbers DEF ListedOK
    <2> QED BY <1>p1, <2>1 DEF ListedOK, TypeOK
  <1>9. Serving'
    BY <1>p1 DEF Serving, TypeOK
  <1>10. TakingOver'
    <2>1. \A d \in Conn : old[d] # 0 => d # c /\ old[d] # c
      BY <1>p1, <1>p4 DEF TakingOver, TaskOK
    <2> QED BY <1>p1, <2>1 DEF TakingOver, TypeOK
  <1>11. FreshUnknown'
    BY <1>p1, <1>p4, <1>p5 DEF FreshUnknown, TypeOK
  <1>12. OldIsOver'
    <2>2. SUFFICES ASSUME NEW d \in Conn, TurnedAway(d)'
                   PROVE  (NothingRuns(d) /\ NobodyWaits(d) /\ Forgotten(d))'
      BY DEF OldIsOver
    <2>3. name[d] # 0 /\ TurnedAway(d)
      BY <1>p1, <2>2 DEF TurnedAway, TypeOK
    <2>4. NothingRuns(d) /\ NobodyWaits(d) /\ Forgotten(d)
      BY <2>3 DEF OldIsOver
    <2>5. name[d] \in Session /\ name[d] # next_id + 1 /\ epoch'[name[d]] = epoch[name[d]]
      BY <1>p1, <1>p5, <2>3 DEF TypeOK
    <2>6. NothingRuns(d)'
      BY <1>p1, <2>4, <2>5 DEF NothingRuns, TypeOK
    <2>7. NobodyWaits(d)'
      BY <1>p1, <2>4, <2>5 DEF NobodyWaits, TypeOK
    <2>8. Forgotten(d)'
      BY <1>p1, <2>4 DEF Forgotten
    <2> QED BY <2>6, <2>7, <2>8
  <1>13. Kept'
    <2>1. \A d \in Conn : d # c => (Attached(d)' <=> Attached(d)) /\ sess'[d] = sess[d]
      BY ZenonT(20), <1>p1, <1>p5 DEF Attached, TypeOK
    <2>2. sess'[c] = next_id + 1 /\ Attached(c)' /\ ~Attached(c)
      BY <1>p1, <1>p4, Numbers DEF Attached, TypeOK
    <2>3. next_id + 1 \notin Detached'
      BY <1>p3, <1>p5 DEF MapOK
    <2>4. \A s \in map' : detached_at'[s] = 0 => s = next_id + 1 \/ (s \in map /\ detached_at[s] = 0)
      BY <1>p2, <1>p3 DEF Detached, TypeOK
    <2>5. \A s \in map : detached_at[s] = 0 => s \in map' /\ detached_at'[s] = 0
      BY <1>p2, <1>p3 DEF Detached, TypeOK
    <2>6. \A s \in map' : detached_at'[s] = 0 => \E d \in Conn : sess'[d] = s /\ Attached(d)'
      BY <2>1, <2>2, <2>4 DEF Kept
    <2>7. \A d \in Conn : Attached(d)' => sess'[d] \in map' /\ detached_at'[sess'[d]] = 0
      BY <1>p1, <1>p2, <2>1, <2>2, <2>3, <2>5 DEF Kept, Detached
    <2> QED BY <2>6, <2>7 DEF Kept
  <1> QED BY <1>1, <1>2, <1>3, <1>4, <1>5, <1>6, <1>7, <1>8, <1>9, <1>10, <1>11, <1>12,
    <1>13
  DEF IInv

(* Only the newest connection's detach counts.                             *)
LEMMA MarkIInv ==
  ASSUME MaxSession \in Nat, MaxConn \in Nat, IInv, NEW c \in Conn, MarkDetached(c)
  PROVE  IInv'
  <1> SUFFICES ASSUME TypeOK, TaskOK, IdsOK, EpochsOK, MapOK, Findable, ListedOK, Serving,
                      TakingOver, ClientsOK, FreshUnknown, OldIsOver, Kept
               PROVE  IInv'
    BY DEF IInv
  <1> USE DEF Goto, clients
  <1>p1. /\ pc[c] = "mark" /\ pc' = [pc EXCEPT ![c] = "ended"]
         /\ UNCHANGED <<map, dropped, next_id, epoch, connections, name, sess, at, old, closed, req,
                        acked, clients>>
    BY DEF MarkDetached
  <1>p2. sess[c] \in Session /\ sess[c] # 0
    BY <1>p1 DEF TypeOK, TaskOK
  <1>p3. Cardinality(Detached) \in Nat
    BY Counted DEF Detached
  <1>p4. PICK n \in Nat : /\ n # 0
                        /\ detached_at' = IF Overtaken(c) THEN detached_at
                                          ELSE [detached_at EXCEPT ![sess[c]] = n]
    <2> DEFINE n == Cardinality(Detached) + 1
    <2>1. n \in Nat /\ n # 0
      BY <1>p3
    <2>2. detached_at' = IF Overtaken(c) THEN detached_at ELSE [detached_at EXCEPT ![sess[c]] = n]
      BY DEF MarkDetached
    <2> HIDE DEF n
    <2> QED BY <2>1, <2>2
  <1>p5. /\ ~Overtaken(c) <=> Attached(c)
         /\ \A d \in Conn : Attached(d) /\ Attached(c) /\ sess[d] = sess[c] => d = c
    BY <1>p1, <1>p2 DEF Overtaken, Attached, EpochsOK
  <1>1. IdsOK' /\ EpochsOK' /\ ClientsOK' /\ FreshUnknown'
    <2>1. IdsOK' /\ EpochsOK' /\ ClientsOK'
      BY <1>p1 DEF IdsOK, EpochsOK, ClientsOK
    <2>2. FreshUnknown'
      BY <1>p1 DEF FreshUnknown
    <2> QED BY <2>1, <2>2
  <1>2. TypeOK'
    BY <1>p1, <1>p2, <1>p4 DEF TypeOK, Places
  <1>3. TaskOK'
    BY ZenonT(20), <1>p1, <1>p2, <1>p3, <1>p4, <1>p5, Numbers DEF TaskOK, TypeOK
  <1>4. MapOK'
    <2>1. ~Overtaken(c) => sess[c] \in map
      BY <1>p5 DEF Kept
    <2> QED BY <1>p1, <1>p2, <1>p4, <2>1 DEF MapOK, Detached, TypeOK
  <1>5. Findable'
    BY <1>p1, <1>p2, <1>p3, <1>p4, <1>p5, Numbers DEF Findable, Holding, TypeOK, TaskOK
  <1>6. ListedOK'
    BY <1>p1, <1>p2, <1>p3, <1>p4, <1>p5, Numbers DEF ListedOK, TypeOK, TaskOK
  <1>7. Serving'
    BY <1>p1, <1>p2, <1>p3, <1>p4, <1>p5, Numbers DEF Serving, TypeOK, TaskOK
  <1>8. TakingOver'
    BY <1>p1, <1>p2, <1>p3, <1>p4, <1>p5, Numbers DEF TakingOver, TypeOK, TaskOK
  <1>9. OldIsOver'
    BY <1>p1, <1>p2, <1>p3, <1>p4, <1>p5, Numbers
    DEF OldIsOver, TurnedAway, NothingRuns, NobodyWaits, Forgotten, TypeOK, TaskOK
  <1>10. Kept'
    <2>1. \A d \in Conn : Attached(d)' <=> Attached(d) /\ d # c
      BY <1>p1 DEF Attached, TypeOK
    <2>2. CASE Overtaken(c)
      BY <1>p1, <1>p4, <1>p5, <2>1, <2>2 DEF Kept
    <2>3. CASE ~Overtaken(c)
      <3>1. detached_at'[sess[c]] # 0 /\ \A s \in Session \ {sess[c]} : detached_at'[s] = detached_at[s]
        BY <1>p2, <1>p4, <2>3 DEF TypeOK
      <3>2. \A s \in map : detached_at'[s] = 0 => \E d \in Conn : sess[d] = s /\ Attached(d)'
        BY <2>1, <3>1 DEF Kept, TypeOK
      <3>3. \A d \in Conn : Attached(d)' => sess[d] \in map /\ detached_at'[sess[d]] = 0
        BY <1>p5, <2>1, <2>3, <3>1 DEF Kept, TypeOK
      <3> QED BY <1>p1, <3>2, <3>3 DEF Kept
    <2> QED BY <2>2, <2>3
  <1> QED BY <1>1, <1>2, <1>3, <1>4, <1>5, <1>6, <1>7, <1>8, <1>9, <1>10 DEF IInv

(* What is reaped is attached by nobody.                                   *)
LEMMA ReapIInv ==
  ASSUME MaxSession \in Nat, MaxConn \in Nat, IInv, NEW s \in Detached, Reap(s)
  PROVE  IInv'
  <1> SUFFICES ASSUME TypeOK, TaskOK, IdsOK, EpochsOK, MapOK, Findable, ListedOK, Serving,
                      TakingOver, ClientsOK, FreshUnknown, OldIsOver, Kept
               PROVE  IInv'
    BY DEF IInv
  <1> USE DEF clients, tasks
  <1>p1. UNCHANGED <<next_id, epoch, connections, tasks, closed, req, acked, clients>>
    BY DEF Reap
  <1>p2. PICK gone \in SUBSET Detached : Retire(gone) /\ map' = map \ gone
    BY DEF Reap
  <1>p3. /\ detached_at' \in [Session -> Nat]
         /\ Detached' = Detached \ gone
         /\ gone \subseteq dropped' /\ dropped' \subseteq dropped \cup gone
         /\ \A d \in Conn : sess[d] \in dropped /\ (pc[d] # "ended" \/ Holding(d)) => sess[d] \in dropped'
    BY <1>p2, Retired
  <1>p4. gone \subseteq map /\ gone \subseteq Session
    BY <1>p2 DEF MapOK, Detached
  <1>1. TaskOK' /\ EpochsOK' /\ ListedOK' /\ Serving'
    BY <1>p1 DEF TaskOK, EpochsOK, ListedOK, Serving
  <1>2. TakingOver' /\ ClientsOK' /\ FreshUnknown'
    <2>1. TakingOver' /\ ClientsOK'
      BY <1>p1 DEF TakingOver, ClientsOK
    <2>2. FreshUnknown'
      BY <1>p1 DEF FreshUnknown
    <2> QED BY <2>1, <2>2
  <1>8. OldIsOver'
    BY ZenonT(20), <1>p1 DEF OldIsOver, TurnedAway, NothingRuns, NobodyWaits, Forgotten
  <1>3. TypeOK'
    BY <1>p1, <1>p2, <1>p3, <1>p4 DEF TypeOK
  <1>4. IdsOK'
    BY <1>p1, <1>p2, <1>p3, <1>p4 DEF IdsOK
  <1>5. MapOK'
    BY <1>p2, <1>p3, <1>p4 DEF MapOK
  <1>6. Findable'
    <2>1. SUFFICES ASSUME NEW d \in Conn, sess[d] # 0, pc[d] # "ended" \/ Holding(d)
                   PROVE  sess[d] \in map' \cup dropped'
      BY <1>p1 DEF Findable, Holding
    <2>2. sess[d] \in map \cup dropped
      BY <2>1 DEF Findable
    <2> QED BY <1>p2, <1>p3, <2>1, <2>2
  <1>7. Kept'
    <2>1. \A t \in map' : detached_at'[t] = 0 => t \in map /\ detached_at[t] = 0
      BY <1>p2, <1>p3 DEF Detached, TypeOK
    <2>2. \A t \in map : detached_at[t] = 0 => t \in map' /\ detached_at'[t] = 0
      BY <1>p2, <1>p3 DEF Detached, TypeOK
    <2>3. \A d \in Conn : Attached(d)' <=> Attached(d)
      BY <1>p1 DEF Attached
    <2> QED BY <1>p1, <2>1, <2>2, <2>3 DEF Kept
  <1> QED BY <1>1, <1>2, <1>3, <1>4, <1>5, <1>6, <1>7, <1>8 DEF IInv

-----------------------------------------------------------------------------
(* The invariants. *)

(* Nothing is there at first.                                              *)
LEMMA InitIInv ==
  ASSUME MaxSession \in Nat, MaxConn \in Nat, TableInit
  PROVE  IInv
  <1> USE Numbers DEF TableInit
  <1>1. TypeOK
    BY DEF TypeOK, Places
  <1>2. TaskOK /\ IdsOK /\ EpochsOK
    BY DEF TaskOK, IdsOK, EpochsOK, Conn
  <1>3. MapOK /\ Findable /\ ListedOK /\ Serving /\ TakingOver
    BY DEF MapOK, Detached, Findable, ListedOK, Serving, TakingOver
  <1>4. ClientsOK /\ FreshUnknown /\ OldIsOver /\ Kept
    BY DEF ClientsOK, FreshUnknown, OldIsOver, TurnedAway, Kept, Attached
  <1> QED BY <1>1, <1>2, <1>3, <1>4 DEF IInv

(* One step per action.                                                    *)
LEMMA NextIInv ==
  ASSUME MaxSession \in Nat, MaxConn \in Nat, IInv, [TableNext]_tableVars
  PROVE  IInv'
  <1>1. ASSUME NEW k \in Client, Connect(k) \/ TakeAck(k) \/ Leave(k)
        PROVE  IInv'
    BY <1>1, ConnectIInv, TakeAckIInv, LeaveIInv
  <1>2. ASSUME NEW c \in Conn, Hello(c)
        PROVE  IInv'
    BY <1>2, NoHelloIInv, ResumeIInv, TurnAwayIInv DEF Hello
  <1>3. ASSUME NEW c \in Conn, ConnTask(c)
        PROVE  IInv'
    BY <1>2, <1>3, CreateIInv, WriteAckIInv, FailIInv, RegisterIInv, TakeOverIInv,
       LeaveLoopIInv,
       UnlistIInv, DetachIInv, MarkIInv DEF ConnTask
  <1>4. ASSUME NEW c \in Conn, Accept(c) \/ BeginRequest(c) \/ EndRequest(c)
        PROVE  IInv'
    BY <1>4, AcceptIInv, BeginIInv, EndIInv
  <1>5. ASSUME NEW s \in Detached, Reap(s)
        PROVE  IInv'
    BY <1>5, ReapIInv
  <1>6. CASE UNCHANGED tableVars
    <2> USE <1>6 DEF tableVars, table, tasks, clients
    <2>1. TypeOK' /\ TaskOK' /\ IdsOK' /\ EpochsOK'
      BY DEF IInv, TypeOK, TaskOK, IdsOK, EpochsOK
    <2>2. MapOK' /\ Findable' /\ ListedOK' /\ Serving' /\ TakingOver'
      BY DEF IInv, MapOK, Detached, Findable, Holding, ListedOK, Serving, TakingOver
    <2>3. ClientsOK' /\ FreshUnknown'
      BY ZenonT(20) DEF IInv, ClientsOK, FreshUnknown
    <2>4. Kept'
      BY ZenonT(20) DEF IInv, Kept, Attached
    <2>5. OldIsOver'
      BY ZenonT(20) DEF IInv, OldIsOver, TurnedAway, NothingRuns, NobodyWaits, Forgotten
    <2> QED BY <2>1, <2>2, <2>3, <2>4, <2>5 DEF IInv
  <1> QED BY <1>1, <1>3, <1>4, <1>5, <1>6 DEF TableNext

(* The invariant holds throughout.                                         *)
LEMMA Inductive ==
  ASSUME MaxSession \in Nat, MaxConn \in Nat
  PROVE  TableSpec => []IInv
  BY InitIInv, NextIInv, PTL DEF TableSpec

(* A session is in the table, its grace not running, exactly while the task *)
(* of its newest connection is there, and no two connections go on serving  *)
(* it, whatever the handshakes, detaches, evictions and reaps interleave as *)
(* (Sessions::attach, create, reap, DetachOnDrop).                          *)
THEOREM OneServesEach ==
  ASSUME MaxSession \in Nat, MaxConn \in Nat
  PROVE  TableSpec => []OneServes
  <1>1. IInv => OneServes
    <2> SUFFICES ASSUME IInv PROVE KeptWhileAttached /\ ServesAlone
      BY DEF OneServes
    <2>1. KeptWhileAttached
      BY ZenonT(20) DEF IInv, Kept, KeptWhileAttached, Detached, Attached, TypeOK
    <2>2. ServesAlone
      BY DEF IInv, Serving, ServesAlone
    <2> QED BY <2>1, <2>2
  <1> QED BY <1>1, Inductive, PTL

(* A connection is closed for another only if the other attached later; and *)
(* of a session whose client took a new one in its place nothing runs any   *)
(* more: the server turns a client away only once nothing of its session is *)
(* under way (Sessions::resume, handle_connection).                         *)
THEOREM ReplacedIsOver ==
  ASSUME MaxSession \in Nat, MaxConn \in Nat
  PROVE  TableSpec => []ReplacedForGood
  <1>1. IInv => ReplacedForGood
    <2> SUFFICES ASSUME IInv PROVE TakesOverOlder /\ NothingOfTheOld
      BY DEF ReplacedForGood
    <2>1. TakesOverOlder
      BY DEF IInv, TakingOver, TakesOverOlder
    <2>2. NothingOfTheOld
      <3>1. SUFFICES ASSUME NEW c \in Conn, NEW d \in took, sess[d] # name[d], sess[c] = name[d],
                            req[c] = "doing"
                     PROVE  FALSE
        BY DEF NothingOfTheOld, Replaced
      <3>2. d \in Conn /\ sess[d] # 0 /\ sess[c] # 0
        BY <3>1 DEF IInv, TypeOK, TaskOK
      <3>3. NothingRuns(d)
        BY <3>1, <3>2 DEF IInv, OldIsOver, TurnedAway
      <3> QED BY <3>1, <3>3 DEF NothingRuns
    <2> QED BY <2>1, <2>2
  <1> QED BY <1>1, Inductive, PTL
=============================================================================
