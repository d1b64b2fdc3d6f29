---------------------------- MODULE SessionTable ----------------------------
(***************************************************************************)
(* The server's table of sessions (`Sessions`), the connections that       *)
(* attach to them, from the handshake to `DetachOnDrop`, and the clients   *)
(* that make them (crates/server/src/session.rs, crates/client/src/        *)
(* conn.rs).  A client makes one connection at a time and names the last   *)
(* session it was given; one it has given up on may still be under way at  *)
(* the server.  What orders the changes of one session is SessionOrder;    *)
(* here a connection carries at most one change.                           *)
(***************************************************************************)
EXTENDS Naturals, FiniteSets

CONSTANTS
  Client,
  MaxSession,    \* bound on the sessions created
  MaxConn,       \* bound on the connections made
  MaxDetached    \* MAX_DETACHED_SESSIONS

Session == 1 .. MaxSession
Conn    == 1 .. MaxConn

VARIABLES
  map,          \* Sessions::map: the sessions in the table
  dropped,      \* Sessions::dropped: weakly held
  next_id,
  epoch,        \* Attachment::epoch of each session
  detached_at,  \* Attachment::detached_at of each, as its place in their order, 0 for None
  connections,  \* Server::connections: the connection listed for a session
  pc,           \* where the task of each connection is at the server
  name,         \* the session its Hello names, 0 for none
  sess, at,     \* the session it attached, and at which epoch
  old,          \* the connection it took over from, to be closed
  closed,       \* connections the server closed
  req,          \* the change it carries
  made,         \* connections made so far
  token,        \* the session each client can resume, 0 for none
  cur,          \* the connection each client waits for or uses, 0 for none
  acked,        \* connections whose Ack the server wrote
  took          \* and whose client took it

table   == <<map, dropped, next_id, epoch, detached_at>>
tasks   == <<pc, name, sess, at, old>>
clients == <<made, token, cur, took>>
tableVars == <<table, connections, tasks, closed, req, acked, clients>>

TableInit ==
  /\ map = {} /\ dropped = {} /\ next_id = 0
  /\ epoch = [s \in Session |-> 0] /\ detached_at = [s \in Session |-> 0]
  /\ connections = [s \in Session |-> 0]
  /\ pc   = [c \in Conn |-> "none"]
  /\ name = [c \in Conn |-> 0] /\ sess = [c \in Conn |-> 0]
  /\ at   = [c \in Conn |-> 0] /\ old  = [c \in Conn |-> 0]
  /\ closed = {} /\ req = [c \in Conn |-> "none"]
  /\ made = 0
  /\ token = [k \in Client |-> 0] /\ cur = [k \in Client |-> 0]
  /\ acked = {} /\ took = {}

Goto(c, where) == pc' = [pc EXCEPT ![c] = where]

-----------------------------------------------------------------------------
(* What counts as under way for a session. *)

(* mutant of Holding: a request holds its session from when it begins. *)
HoldingBegun(c) ==
  \/ c \in acked /\ pc[c] \in {"serve", "unlist", "detach", "mark"}
  \/ req[c] = "doing"

(* A Holder: of the connection until it has detached, or of its request
   from when it is accepted until it is done.                              *)
Holding(c) ==
  \/ c \in acked /\ pc[c] \in {"serve", "unlist", "detach", "mark"}
  \/ req[c] \in {"queued", "doing"}

Holders(s) == {c \in Conn : sess[c] = s /\ Holding(c)}

(* Strong references: of a task past its attaching, or of a holder.        *)
Referenced(s) ==
  \E c \in Conn : sess[c] = s /\ (pc[c] # "ended" \/ Holding(c))

Detached == {s \in Session : detached_at[s] # 0}

(* The sessions in gone are not detached any more; the others keep their
   order.                                                                  *)
Undetach(gone) ==
  LET left == Detached \ gone
  IN  detached_at' = [s \in Session |->
                        IF s \notin left THEN 0
                        ELSE Cardinality({t \in left : detached_at[t] <= detached_at[s]})]

(* `retire` of each of the sessions in gone.                               *)
Retire(gone) ==
  /\ Undetach(gone)
  /\ dropped'  = IF gone = {} THEN dropped
                 ELSE {s \in dropped : Referenced(s)} \cup gone

-----------------------------------------------------------------------------
(* Clients. *)

Connect(k) ==
  /\ cur[k] = 0 /\ made < MaxConn
  /\ made' = made + 1
  /\ cur'  = [cur EXCEPT ![k] = made + 1]
  /\ name' = [name EXCEPT ![made + 1] = token[k]]
  /\ Goto(made + 1, "hello")
  /\ UNCHANGED <<table, connections, sess, at, old, closed, req, acked, token,
                 took>>

(* The Ack is read: the client will resume this session from now on.       *)
TakeAck(k) ==
  LET c == cur[k] IN
  /\ c \in acked \ took
  /\ took' = took \cup {c}
  /\ token' = [token EXCEPT ![k] = sess[c]]
  /\ UNCHANGED <<table, connections, tasks, closed, req, acked, made, cur>>

(* The attempt times out, or the connection is lost: as far as the client
   goes; the server's task learns of it later, if ever (LeaveLoop).        *)
Leave(k) ==
  /\ cur[k] # 0
  /\ cur' = [cur EXCEPT ![k] = 0]
  /\ UNCHANGED <<table, connections, tasks, closed, req, acked, made, token,
                 took>>

-----------------------------------------------------------------------------
(* The handshake. *)

(* A session `resume` finds: in the table, or dropped with work under way. *)
Resumable(s) == s \in map \/ (s \in dropped /\ Holders(s) # {})

(* A session found among those dropped goes back into the table.           *)
Retake(s) == map' = map \cup {s} /\ dropped' = dropped \ {s}

(* `resume` of the session a Hello names.                                  *)
ResumeNamed(c) ==
  /\ Resumable(name[c])
  /\ Retake(name[c])
  /\ epoch' = [epoch EXCEPT ![name[c]] = @ + 1]
  /\ Undetach({name[c]})
  /\ sess'  = [sess EXCEPT ![c] = name[c]]
  /\ at'    = [at EXCEPT ![c] = epoch'[name[c]]]
  /\ Goto(c, "ack")
  /\ UNCHANGED next_id

(* It finds none: the connection gets a new one.                           *)
TurnAway(c) ==
  /\ ~Resumable(name[c])
  /\ Goto(c, "create")
  /\ UNCHANGED <<table, sess, at>>

(* No Hello comes in time.                                                 *)
NoHello(c) == Goto(c, "ended") /\ UNCHANGED <<table, sess, at>>

(* The Hello is read; the session it names is resumed, or one is to be made. *)
Hello(c) ==
  /\ pc[c] = "hello"
  /\ NoHello(c) \/ ResumeNamed(c) \/ TurnAway(c)
  /\ UNCHANGED <<connections, name, old, closed, req, acked, clients>>

(* `create`, which makes room among the detached sessions first.           *)
Create(c) ==
  LET id   == next_id + 1
      gone == {s \in Detached : detached_at[s] + MaxDetached <= Cardinality(Detached) + 1}
  IN
  /\ pc[c] = "create" /\ id \in Session
  /\ next_id' = id
  /\ Retire(gone)
  /\ map'   = (map \ gone) \cup {id}
  /\ epoch' = [epoch EXCEPT ![id] = 1]
  /\ sess'  = [sess EXCEPT ![c] = id]
  /\ at'    = [at EXCEPT ![c] = 1]
  /\ Goto(c, "ack")
  /\ UNCHANGED <<connections, name, old, closed, req, acked, clients>>

(* The Ack is written, or cannot be (the handshake is dropped with it).    *)
WriteAck(c) ==
  /\ pc[c] = "ack"
  /\ \/ Goto(c, "register") /\ acked' = acked \cup {c}
     \/ Goto(c, "fail") /\ UNCHANGED acked
  /\ UNCHANGED <<table, connections, name, sess, at, old, closed, req, clients>>

(* mutant of Unacked: a resumed session is left as it is. *)
UnackedResumedKept(c) ==
  IF sess[c] = name[c] THEN Goto(c, "ended") /\ UNCHANGED map
  ELSE Goto(c, "ended") /\ map' = map \ {sess[c]}

(* DetachUnlessAcked: a resumed session is detached, a new one forgotten.  *)
Unacked(c) ==
  IF sess[c] = name[c] THEN Goto(c, "detach") /\ UNCHANGED map
  ELSE Goto(c, "ended") /\ map' = map \ {sess[c]}

FailHandshake(c) ==
  /\ pc[c] = "fail"
  /\ Unacked(c)
  /\ closed' = closed \cup {c}
  /\ UNCHANGED <<dropped, next_id, epoch, detached_at, connections, name, sess,
                 at, old, req, acked, clients>>

-----------------------------------------------------------------------------
(* The rest of handle_connection. *)

(* mutant of Outdated: whoever comes last is listed. *)
OutdatedNever(c) == FALSE

(* A newer connection of the session is listed already.                    *)
Outdated(c) ==
  connections[sess[c]] # 0 /\ at[connections[sess[c]]] > at[c]

Register(c) ==
  /\ pc[c] = "register"
  /\ \/ /\ Outdated(c)
        /\ closed' = closed \cup {c}
        /\ Goto(c, "ended")
        /\ UNCHANGED <<connections, old>>
     \/ /\ ~Outdated(c)
        /\ connections' = [connections EXCEPT ![sess[c]] = c]
        /\ old' = [old EXCEPT ![c] = connections[sess[c]]]
        /\ Goto(c, "takeover")
        /\ UNCHANGED closed
  /\ UNCHANGED <<table, name, sess, at, req, acked, clients>>

(* The connection taken over from is closed, the lock let go; then this one
   attaches (AttachmentConn) and serves.                                   *)
TakeOver(c) ==
  /\ pc[c] = "takeover"
  /\ closed' = closed \cup ({old[c]} \ {0})
  /\ old' = [old EXCEPT ![c] = 0]
  /\ Goto(c, "serve")
  /\ UNCHANGED <<table, connections, name, sess, at, req, acked, clients>>

(* A change of the client's is accepted; only a connection whose Ack it
   took carries any.                                                       *)
Accept(c) ==
  /\ pc[c] = "serve" /\ c \in took \ closed /\ req[c] = "none"
  /\ req' = [req EXCEPT ![c] = "queued"]
  /\ UNCHANGED <<table, connections, tasks, closed, acked, clients>>

(* It begins, unless the connection is superseded, which is then closed.   *)
BeginRequest(c) ==
  /\ req[c] = "queued"
  /\ \/ /\ at[c] = epoch[sess[c]]
        /\ req' = [req EXCEPT ![c] = "doing"]
        /\ UNCHANGED closed
     \/ /\ at[c] # epoch[sess[c]]
        /\ req' = [req EXCEPT ![c] = "done"]
        /\ closed' = closed \cup {c}
  /\ UNCHANGED <<table, connections, tasks, acked, clients>>

EndRequest(c) ==
  /\ req[c] = "doing"
  /\ req' = [req EXCEPT ![c] = "done"]
  /\ UNCHANGED <<table, connections, tasks, closed, acked, clients>>

(* The accept loop finds the connection closed: by this server, by the
   client, or by the network at any time.                                  *)
LeaveLoop(c) ==
  /\ pc[c] = "serve"
  /\ Goto(c, "unlist")
  /\ UNCHANGED <<table, connections, name, sess, at, old, closed, req, acked,
                 clients>>

(* mutant of Listed: the session's entry is taken for this connection's. *)
ListedAny(c) == connections[sess[c]] # 0

(* The session's entry is of this connection's epoch.                      *)
Listed(c) ==
  connections[sess[c]] # 0 /\ at[connections[sess[c]]] = at[c]

(* DetachOnDrop, first half: the entry goes, if it is this connection's.   *)
Unlist(c) ==
  /\ pc[c] = "unlist"
  /\ connections' = IF Listed(c) THEN [connections EXCEPT ![sess[c]] = 0]
                                 ELSE connections
  /\ Goto(c, "detach")
  /\ UNCHANGED <<table, name, sess, at, old, closed, req, acked, clients>>

(* `detach` looks the session up, and lets the table go.                   *)
Detach(c) ==
  /\ pc[c] = "detach"
  /\ Goto(c, IF sess[c] \in map THEN "mark" ELSE "ended")
  /\ UNCHANGED <<table, connections, name, sess, at, old, closed, req, acked,
                 clients>>

Overtaken(c) == at[c] # epoch[sess[c]]

(* Then it marks it detached, unless a newer connection has it; the holder
   goes after that.                                                        *)
MarkDetached(c) ==
  /\ pc[c] = "mark"
  /\ detached_at' = IF Overtaken(c) THEN detached_at
                    ELSE [detached_at EXCEPT ![sess[c]] = Cardinality(Detached) + 1]
  /\ Goto(c, "ended")
  /\ UNCHANGED <<map, dropped, next_id, epoch, connections, name, sess, at,
                 old, closed, req, acked, clients>>

(* `reap`: the grace has passed for a session, and so for those detached
   before it.                                                              *)
Reap(s) ==
  LET gone == {t \in Detached : detached_at[t] <= detached_at[s]} IN
  /\ Retire(gone)
  /\ map' = map \ gone
  /\ UNCHANGED <<next_id, epoch, connections, tasks, closed, req, acked,
                 clients>>

ConnTask(c) ==
  \/ Hello(c) \/ Create(c) \/ WriteAck(c) \/ FailHandshake(c)
  \/ Register(c) \/ TakeOver(c) \/ LeaveLoop(c) \/ Unlist(c)
  \/ Detach(c) \/ MarkDetached(c)

TableNext ==
  \/ \E k \in Client : Connect(k) \/ TakeAck(k) \/ Leave(k)
  \/ \E c \in Conn : ConnTask(c) \/ Accept(c) \/ BeginRequest(c)
                       \/ EndRequest(c)
  \/ \E s \in Detached : Reap(s)

TableSpec == TableInit /\ [][TableNext]_tableVars

-----------------------------------------------------------------------------
Attached(c) == sess[c] # 0 /\ pc[c] # "ended" /\ at[c] = epoch[sess[c]]

(* A session is in the table, its grace not running, exactly while the task
   of its newest connection is there.  No detach of an older connection, no
   eviction by `create` and no `reap` takes it away before; and none stays for
   ever with its handles, whatever fails between handshake and end.        *)
KeptWhileAttached ==
  \A s \in Session :
    s \in map \ Detached <=> \E c \in Conn : sess[c] = s /\ Attached(c)

(* A connection that serves is the one listed for its session, or is about
   to be closed by the one that took its place: no two go on serving.      *)
ServesAlone ==
  \A c \in Conn : pc[c] = "serve" /\ c \notin closed =>
    connections[sess[c]] = c \/ \E d \in Conn : old[d] = c

(* A session is in the table, its grace not running, exactly while the task
   of its newest connection is there, and no two connections go on serving
   it (Sessions::attach, DetachOnDrop, the accept loop).                   *)
OneServes == KeptWhileAttached /\ ServesAlone

(* A connection is closed for another only if the other attached later,
   however the two handshakes and registrations interleave.                *)
TakesOverOlder ==
  \A c \in Conn : old[c] # 0 => sess[old[c]] = sess[c] /\ at[old[c]] < at[c]

(* Sessions whose client named them and took a new one instead.            *)
Replaced == {name[c] : c \in {d \in took : sess[d] # name[d]}}

(* A client that is given a new session in place of its own can trust that
   nothing of the old one is in the filesystem, nor will be: what the new
   session runs is ordered after all the old one did.                      *)
NothingOfTheOld ==
  \A c \in Conn : sess[c] \in Replaced => req[c] # "doing"

(* A connection is closed for another only if the other attached later; and
   of a session that was replaced nothing runs (Sessions::resume and create).  *)
ReplacedForGood == TakesOverOlder /\ NothingOfTheOld
=============================================================================
