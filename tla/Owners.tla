------------------------------ MODULE Owners ------------------------------
(* How owners cross between a server and a mount: `--ids` of the server     *)
(* (server/src/ids.rs), `--ids` of the client (client/src/ids.rs), and the  *)
(* owners in attributes and in POSIX ACLs that both map                     *)
(* (proto/src/owners.rs).  One file, whose owner and ACL the mount shows,   *)
(* and programs that change them, with ids of their own or with what they   *)
(* were shown.                                                              *)
EXTENDS Naturals

CONSTANTS
    Id,      \* uids and gids
    Nobody   \* NOBODY

ASSUME NobodyIsId == Nobody \in Id

Kind == {"user", "group"}

VARIABLES
    server,  \* IdMap of the server: its mode and its own ids
    mount,   \* IdMap of the client: its mode, the server's ids and the local ones
    owner,   \* the file's owners, on the server
    acl,     \* the named entries of its ACL: kinds and ids
    shown,   \* what the mount last showed of both
    current  \* history: neither has changed since

vars == <<server, mount, owner, acl, shown, current>>

Ids == [Kind -> Id]
Entry == Kind \X Id

---------------------------------------------------------------------------
(* IdMap::new of the server: flattening as nobody is refused.               *)
Servable(s) == s.mode = "flatten" => \A k \in Kind : s.own[k] # Nobody

(* IdMap::reply: under flatten every owner but the server's own is nobody.  *)
FromServer(k, id) == IF server.mode = "flatten" /\ id # server.own[k] THEN Nobody ELSE id

(* Owned::local.                                                            *)
Local(k, id) ==
    IF mount.mode = "direct" THEN id
    ELSE IF id = mount.server[k] THEN mount.local[k] ELSE Nobody

(* Owned::server: whether an id has a counterpart, and which.               *)
Mapped(k, id) == mount.mode = "direct" \/ id = mount.local[k]
ToServer(k, id) == IF mount.mode = "direct" THEN id ELSE mount.server[k]

(* mutant of Admitted: nobody may be named too.                             *)
AdmittedNobody(entries) ==
    server.mode = "flatten" => \A e \in entries : e[2] \in {server.own[e[1]], Nobody}

(* IdMap::admit: under flatten a request names no id but the server's own.  *)
Admitted(entries) == server.mode = "flatten" => \A e \in entries : e[2] = server.own[e[1]]

(* A request through Owned::outgoing and then IdMap::admit.                 *)
Sent(entries) == {<<e[1], ToServer(e[1], e[2])>> : e \in entries}
Passes(entries) == (\A e \in entries : Mapped(e[1], e[2])) /\ Admitted(Sent(entries))

(* map_reply and acl_map: every id of the reply goes through both maps.     *)
Shown(entries) == {<<e[1], Local(e[1], FromServer(e[1], e[2]))>> : e \in entries}
OwnerEntries(o) == {<<k, o[k]>> : k \in Kind}
Nothing == [owner |-> {}, acl |-> {}]

---------------------------------------------------------------------------
Init ==
    /\ server \in {s \in [mode : {"direct", "flatten"}, own : Ids] : Servable(s)}
    /\ mount \in [mode : {"direct", "owned"}, server : {server.own}, local : Ids]
    /\ owner \in Ids /\ acl \in {{}} \cup {{e} : e \in Entry}
    /\ shown = Nothing /\ current = FALSE

(* getattr and getxattr of the ACL.                                         *)
Stat ==
    /\ shown' = [owner |-> Shown(OwnerEntries(owner)), acl |-> Shown(acl)]
    /\ current' = TRUE
    /\ UNCHANGED <<server, mount, owner, acl>>

(* setattr naming some of the ids; what is not named stays.  One that does  *)
(* not pass is refused before anything is touched.                          *)
Chown(entries) ==
    /\ entries # {} /\ \A e, f \in entries : e[1] = f[1] => e = f
    /\ IF Passes(entries)
       THEN owner' = [k \in Kind |-> IF \E e \in Sent(entries) : e[1] = k
                                     THEN (CHOOSE e \in Sent(entries) : e[1] = k)[2] ELSE owner[k]]
       ELSE owner' = owner
    /\ current' = (current /\ owner' = owner)
    /\ UNCHANGED <<server, mount, acl, shown>>

(* setxattr of the ACL.                                                     *)
Setfacl(entries) ==
    /\ acl' = IF Passes(entries) THEN Sent(entries) ELSE acl
    /\ current' = (current /\ acl' = acl)
    /\ UNCHANGED <<server, mount, owner, shown>>

(* A program that restores what it was shown (cp -p, rsync, an editor).     *)
CopyOwner == shown # Nothing /\ Chown(shown.owner)
CopyAcl == shown # Nothing /\ Setfacl(shown.acl)

(* Someone on the server's machine.                                         *)
Outside ==
    /\ \/ owner' \in Ids /\ acl' = acl
       \/ owner' = owner /\ \E e \in Entry : acl' = {e}
    /\ current' = FALSE
    /\ UNCHANGED <<server, mount, shown>>

Next ==
    \/ Stat \/ CopyOwner \/ CopyAcl \/ Outside
    \/ \E e \in Entry : Chown({e}) \/ Setfacl({e})

Spec == Init /\ [][Next]_vars

---------------------------------------------------------------------------
(* Nobody on one side of an owned mount, which the client warns about       *)
(* (IdMap::caveat).                                                         *)
Caveat ==
    mount.mode = "owned" /\ \E k \in Kind : mount.server[k] = Nobody \/ mount.local[k] = Nobody

(* A chown or an ACL copied from what was shown is refused or changes       *)
(* nothing: it never overwrites an owner that was hidden (ids.rs of both    *)
(* sides, through setattr, setxattr and every reply), unless the client     *)
(* warned that nobody stands for someone.                                   *)
CopyKeepsOwners ==
    [][(CopyOwner \/ CopyAcl) /\ current /\ ~Caveat => owner' = owner /\ acl' = acl]_vars
===========================================================================
