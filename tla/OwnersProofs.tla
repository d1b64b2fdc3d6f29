--------------------------- MODULE OwnersProofs ---------------------------
(* Proof that a mount never gives away a file by copying back the owner it  *)
(* was shown, for any set of ids.                                           *)
EXTENDS Owners, TLAPS

(* Pairs of a kind and an id.                                               *)
Entries(S) == \A e \in S : e = <<e[1], e[2]>> /\ e[1] \in Kind

(* What is known of the ids, and of what was last shown while it is         *)
(* current.                                                                 *)
IInv ==
    /\ server \in [mode : {"direct", "flatten"}, own : Ids]
    /\ mount \in [mode : {"direct", "owned"}, server : {server.own}, local : Ids]
    /\ Servable(server)
    /\ owner = [k \in Kind |-> owner[k]]
    /\ Entries(acl) /\ Entries(shown.acl)
    /\ current \in BOOLEAN
    /\ current => shown = [owner |-> Shown(OwnerEntries(owner)), acl |-> Shown(acl)]

(* An id shown to a mount that passes both maps on its way back is the id   *)
(* it came from (Owned::local, IdMap::reply, Owned::server, IdMap::admit).  *)
LEMMA Restored ==
    ASSUME IInv, ~Caveat, NEW k \in Kind, NEW id,
           Mapped(k, Local(k, FromServer(k, id))),
           server.mode = "flatten" => ToServer(k, Local(k, FromServer(k, id))) = server.own[k]
    PROVE  ToServer(k, Local(k, FromServer(k, id))) = id
  <1> DEFINE f == FromServer(k, id)
  <1>1. mount.server = server.own
    BY DEF IInv
  <1>2. CASE mount.mode = "direct"
    <2>1. ToServer(k, Local(k, f)) = f
      BY <1>2 DEF ToServer, Local
    <2>2. CASE server.mode = "direct"
      BY <2>1, <2>2 DEF FromServer
    <2>3. CASE server.mode = "flatten"
      BY <2>1, <2>3 DEF FromServer, IInv, Servable
    <2> QED
      BY <2>2, <2>3 DEF IInv
  <1>3. CASE mount.mode = "owned"
    <2>1. f = server.own[k]
      BY <1>1, <1>3 DEF Caveat, Mapped, Local
    <2>2. ToServer(k, Local(k, f)) = server.own[k]
      BY <1>1, <1>3 DEF ToServer
    <2>3. id = server.own[k]
      BY <1>1, <1>3, <2>1 DEF FromServer, Caveat
    <2> QED
      BY <2>2, <2>3
  <1> QED
    BY <1>2, <1>3 DEF IInv

(* Entries shown and sent back, if they pass, are the entries there were.   *)
LEMMA SentBack ==
    ASSUME IInv, ~Caveat, NEW S, Entries(S), Passes(Shown(S))
    PROVE  Sent(Shown(S)) = S
  <1>1. \A e \in S : <<e[1], ToServer(e[1], Local(e[1], FromServer(e[1], e[2])))>> = e
    <2> SUFFICES ASSUME NEW e \in S
                 PROVE  ToServer(e[1], Local(e[1], FromServer(e[1], e[2]))) = e[2]
      BY DEF Entries
    <2> DEFINE back == <<e[1], Local(e[1], FromServer(e[1], e[2]))>>
    <2>1. back \in Shown(S)
      BY DEF Shown
    <2>2. Mapped(e[1], back[2])
      BY <2>1 DEF Passes
    <2>3. <<e[1], ToServer(e[1], back[2])>> \in Sent(Shown(S))
      BY <2>1 DEF Sent
    <2>4. server.mode = "flatten" => ToServer(e[1], back[2]) = server.own[e[1]]
      BY <2>3 DEF Passes, Admitted
    <2> QED
      BY <2>2, <2>4, Restored DEF Entries
  <1>2. ASSUME NEW x \in S PROVE x \in Sent(Shown(S))
    <2> DEFINE back == <<x[1], Local(x[1], FromServer(x[1], x[2]))>>
    <2>1. back \in Shown(S)
      BY DEF Shown
    <2>2. <<back[1], ToServer(back[1], back[2])>> \in Sent(Shown(S))
      BY <2>1 DEF Sent
    <2> QED
      BY <1>1, <2>2
  <1>3. ASSUME NEW x \in Sent(Shown(S)) PROVE x \in S
    <2>1. PICK y \in Shown(S) : x = <<y[1], ToServer(y[1], y[2])>>
      BY DEF Sent
    <2>2. PICK e \in S : y = <<e[1], Local(e[1], FromServer(e[1], e[2]))>>
      BY DEF Shown
    <2> QED
      BY <1>1, <2>1, <2>2
  <1> QED
    BY <1>2, <1>3

(* IInv holds initially and is kept by every step.                          *)
LEMMA Inductive ==
    /\ Init => IInv
    /\ IInv /\ [Next]_vars => IInv'
  <1>1. Init => IInv
    <2> SUFFICES ASSUME Init PROVE IInv
      OBVIOUS
    <2>1. Entries(acl)
      BY DEF Init, Entries, Entry
    <2>2. Entries(shown.acl)
      BY DEF Init, Nothing, Entries
    <2>3. owner = [k \in Kind |-> owner[k]]
      BY DEF Init, Ids
    <2> QED
      BY <2>1, <2>2, <2>3 DEF Init, IInv
  <1>2. IInv /\ [Next]_vars => IInv'
    <2> SUFFICES ASSUME IInv, [Next]_vars PROVE IInv'
      OBVIOUS
    <2>1. CASE Stat
      <3>1. Entries(Shown(acl))
        BY DEF Entries, Shown, IInv
      <3>2. shown'.acl = Shown(acl) /\ UNCHANGED <<server, mount, owner, acl>>
        BY <2>1 DEF Stat
      <3> QED
        BY <2>1, <3>1, <3>2 DEF Stat, IInv, Entries, Shown, OwnerEntries, Local, FromServer, Servable
    <2>2. ASSUME NEW S, Chown(S) PROVE IInv'
      <3>1. UNCHANGED <<server, mount, acl, shown>> /\ (current' <=> current /\ owner' = owner)
            /\ current' \in BOOLEAN
        BY <2>2 DEF Chown
      <3>2. owner' = [k \in Kind |-> owner'[k]]
        BY <2>2 DEF Chown, IInv
      <3>3. CASE owner' = owner
        BY <3>1, <3>2, <3>3 DEF IInv, Entries, Shown, OwnerEntries, Local, FromServer, Servable
      <3>4. CASE owner' # owner
        BY <3>1, <3>2, <3>4 DEF IInv, Entries, Servable
      <3> QED
        BY <3>3, <3>4
    <2>3. ASSUME NEW S, Entries(S), Setfacl(S) PROVE IInv'
      <3>1. UNCHANGED <<server, mount, owner, shown>> /\ (current' <=> current /\ acl' = acl)
            /\ current' \in BOOLEAN
        BY <2>3 DEF Setfacl
      <3>2. Entries(acl')
        <4>1. Entries(Sent(S))
          BY <2>3 DEF Entries, Sent
        <4> QED
          BY <2>3, <4>1 DEF Setfacl, IInv
      <3>3. CASE acl' = acl
        BY <3>1, <3>2, <3>3 DEF IInv, Entries, Shown, OwnerEntries, Local, FromServer, Servable
      <3>4. CASE acl' # acl
        BY <3>1, <3>2, <3>4 DEF IInv, Entries, Servable
      <3> QED
        BY <3>3, <3>4
    <2>4. CASE Outside
      <3>1. owner' = [k \in Kind |-> owner'[k]] /\ Entries(acl')
        BY <2>4 DEF Outside, IInv, Ids, Entry, Entries
      <3> QED
        BY <2>4, <3>1 DEF Outside, IInv, Servable, Entries
    <2>5. CASE UNCHANGED vars
      BY <2>5 DEF vars, IInv, Entries, Shown, OwnerEntries, Local, FromServer, Servable
    <2>6. \A e \in Entry : Entries({e})
      BY DEF Entry, Entries
    <2>7. Entries(shown.acl)
      BY DEF IInv
    <2> QED
      BY <2>1, <2>2, <2>3, <2>4, <2>5, <2>6, <2>7 DEF Next, CopyOwner, CopyAcl
  <1> QED
    BY <1>1, <1>2

(* For every set of ids, modes and mapped users: a chown or an ACL copied   *)
(* from what the mount showed is refused or changes nothing, unless the     *)
(* client warned of nobody (ids.rs of both sides).                          *)
THEOREM CopiesAreHarmless == Spec => CopyKeepsOwners
  <1>1. ASSUME IInv, CopyOwner \/ CopyAcl, current, ~Caveat
        PROVE  owner' = owner /\ acl' = acl
    <2>1. shown.owner = Shown(OwnerEntries(owner)) /\ shown.acl = Shown(acl)
      BY <1>1 DEF IInv
    <2>2. CASE CopyOwner
      <3>1. CASE Passes(shown.owner)
        <4>1. Entries(OwnerEntries(owner))
          BY DEF Entries, OwnerEntries
        <4>2. Sent(shown.owner) = OwnerEntries(owner)
          BY <1>1, <2>1, <3>1, <4>1, SentBack
        <4>3. ASSUME NEW k \in Kind PROVE owner'[k] = owner[k]
          <5>1. \A e \in OwnerEntries(owner) : e[1] = k => e[2] = owner[k]
            BY DEF OwnerEntries
          <5>2. <<k, owner[k]>> \in OwnerEntries(owner)
            BY DEF OwnerEntries
          <5>3. \E e \in OwnerEntries(owner) : e[1] = k
            BY <5>2
          <5> QED
            BY <2>2, <3>1, <4>2, <5>1, <5>3 DEF CopyOwner, Chown
        <4>4. owner' = [k \in Kind |-> owner'[k]]
          BY <2>2, <3>1 DEF CopyOwner, Chown
        <4> QED
          BY <1>1, <2>2, <4>3, <4>4 DEF CopyOwner, Chown, IInv
      <3>2. CASE ~Passes(shown.owner)
        BY <2>2, <3>2 DEF CopyOwner, Chown
      <3> QED
        BY <3>1, <3>2
    <2>3. CASE CopyAcl
      <3>1. CASE Passes(shown.acl)
        <4>1. Sent(shown.acl) = acl
          BY <1>1, <2>1, <3>1, SentBack DEF IInv
        <4> QED
          BY <2>3, <3>1, <4>1 DEF CopyAcl, Setfacl
      <3>2. CASE ~Passes(shown.acl)
        BY <2>3, <3>2 DEF CopyAcl, Setfacl
      <3> QED
        BY <3>1, <3>2
    <2> QED
      BY <1>1, <2>2, <2>3
  <1> QED
    BY <1>1, Inductive, PTL DEF Spec, CopyKeepsOwners
===========================================================================
