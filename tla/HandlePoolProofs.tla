-------------------------- MODULE HandlePoolProofs --------------------------
(***************************************************************************)
(* The pool of handles is exact for every capacity, every set of sessions  *)
(* and ids, and any finite number of opens.                                *)
(***************************************************************************)
EXTENDS HandlePool, FiniteSetTheorems, TLAPS

(* An open that is past its look at the map keeps its session's Handles
   from going: this is what Insert needs to keep nothing for a session that
   is gone.                                                                *)
OpensKeep ==
  \A o \in Open : pc[o] \in {"take", "slot"} => key[o][1] \notin gone

IInv ==
  /\ TypeOK /\ IsFiniteSet(held)
  /\ OpensKeep
  /\ PoolExact

(* Nothing is open, and nothing in use, at first.                          *)
LEMMA InitIInv ==
  ASSUME Capacity \in Nat, PoolInit PROVE IInv
<1>1. TypeOK /\ OpensKeep
  BY DEF PoolInit, TypeOK, OpensKeep
<1>2. held = {} /\ Slots = {} /\ used = 0
  BY DEF PoolInit, Slots
<1> QED
  BY <1>1, <1>2, FS_EmptySet DEF IInv, PoolExact

(* What an open's step does to the slots in hand.                          *)
LEMMA SlotsAfter ==
  ASSUME TypeOK, NEW o \in Open, NEW where, Goto(o, where)
  PROVE  Slots' = IF where = "slot" THEN Slots \cup {o} ELSE Slots \ {o}
BY DEF TypeOK, Goto, Slots

(* Every step leaves the pool exact: what it adds to or takes from the
   handles and the slots it adds to or takes from the count.               *)
LEMMA NextIInv ==
  ASSUME Capacity \in Nat, IsFiniteSet(Open), IInv, [PoolNext]_poolVars PROVE IInv'
<1> USE DEF IInv
<1>fin. IsFiniteSet(Slots) /\ Cardinality(Slots) \in Nat /\ Cardinality(held) \in Nat
  <2>1. Slots \subseteq Open
    BY DEF Slots
  <2> QED
    BY <2>1, FS_Subset, FS_CardinalityType
<1>1. ASSUME NEW o \in Open, Reserve(o) PROVE IInv'
  <2>1. Slots' = Slots
    BY <1>1, SlotsAfter DEF Reserve, Slots, TypeOK
  <2> QED
    BY <1>1, <2>1 DEF Reserve, Goto, TypeOK, OpensKeep, PoolExact
<1>2. ASSUME NEW o \in Open, Take(o) PROVE IInv'
  <2>1. CASE Room /\ used' = used + 1 /\ Goto(o, "slot")
    <3>1. Slots' = Slots \cup {o} /\ o \notin Slots
      BY <1>2, <2>1, SlotsAfter DEF Take, Slots
    <3>2. Cardinality(Slots') = Cardinality(Slots) + 1
      BY <3>1, <1>fin, FS_AddElement
    <3> QED
      BY <1>2, <1>fin, <2>1, <3>2 DEF Take, Room, Goto, TypeOK, OpensKeep, PoolExact
  <2>2. CASE ~Room /\ Goto(o, "refused") /\ UNCHANGED used
    <3>1. Slots' = Slots
      BY <1>2, <2>2, SlotsAfter DEF Take, Slots
    <3> QED
      BY <1>2, <2>2, <3>1 DEF Take, Goto, TypeOK, OpensKeep, PoolExact
  <2> QED
    BY <1>2, <2>1, <2>2 DEF Take
<1>3. ASSUME NEW o \in Open, Insert(o) PROVE IInv'
  <2>1. o \in Slots /\ Cardinality(Slots \ {o}) = Cardinality(Slots) - 1
    BY <1>3, <1>fin, FS_RemoveElement DEF Insert, Slots
  <2>2. Slots' = Slots \ {o}
    BY <1>3, SlotsAfter DEF Insert
  <2>5. Cardinality(Slots \ {o}) \in Nat
    BY <1>fin, FS_RemoveElement, FS_CardinalityType
  <2>3. CASE /\ key[o] \notin held /\ held' = held \cup {key[o]}
             /\ Goto(o, "answered") /\ UNCHANGED used
    <3>1. IsFiniteSet(held') /\ Cardinality(held') = Cardinality(held) + 1
      BY <2>3, FS_AddElement
    <3>2. key[o] \in Key /\ key[o][1] \notin gone
      BY <1>3 DEF Insert, TypeOK, OpensKeep
    <3> QED
      BY <1>3, <1>fin, <2>1, <2>2, <2>3, <3>1, <3>2
      DEF Insert, Goto, TypeOK, OpensKeep, PoolExact
  <2>4. CASE key[o] \in held /\ used' = used - 1 /\ Goto(o, "refused") /\ UNCHANGED held
    BY <1>3, <1>fin, <2>1, <2>2, <2>4, <2>5 DEF Insert, Goto, TypeOK, OpensKeep, PoolExact
  <2> QED
    BY <1>3, <2>3, <2>4 DEF Insert
<1>4. ASSUME NEW o \in Open, FailOpen(o) PROVE IInv'
  <2>1. o \in Slots /\ Cardinality(Slots \ {o}) = Cardinality(Slots) - 1
    BY <1>4, <1>fin, FS_RemoveElement DEF FailOpen, Slots
  <2>2. Slots' = Slots \ {o}
    BY <1>4, SlotsAfter DEF FailOpen
  <2>3. Cardinality(Slots \ {o}) \in Nat
    BY <1>fin, FS_RemoveElement, FS_CardinalityType
  <2> QED
    BY <1>4, <1>fin, <2>1, <2>2, <2>3 DEF FailOpen, Goto, TypeOK, OpensKeep, PoolExact
<1>5. ASSUME NEW k \in Key, Release(k) PROVE IInv'
  <2>1. IsFiniteSet(held') /\ Cardinality(held') = Cardinality(held) - 1
    BY <1>5, FS_RemoveElement DEF Release
  <2>2. Slots' = Slots /\ Cardinality(held') \in Nat
    BY <1>5, <2>1, FS_CardinalityType DEF Release, Slots
  <2> QED
    BY <1>5, <1>fin, <2>1, <2>2 DEF Release, TypeOK, OpensKeep, PoolExact
<1>6. ASSUME NEW s \in Session, DropHandles(s) PROVE IInv'
  <2> DEFINE kept == {k \in held : k[1] = s}
  <2>1. /\ held' = held \ kept /\ used' = used - Cardinality(kept)
        /\ Slots' = Slots /\ UNCHANGED <<pc, key>> /\ gone' = gone \cup {s}
    BY <1>6 DEF DropHandles, Slots
  <2>2. IsFiniteSet(held') /\ Cardinality(held') = Cardinality(held) - Cardinality(kept)
    <3>1. held \cap kept = kept
      OBVIOUS
    <3> HIDE DEF kept
    <3>2. /\ IsFiniteSet(held \ kept)
          /\ Cardinality(held \ kept) = Cardinality(held) - Cardinality(held \cap kept)
      BY FS_Difference
    <3> QED
      BY <2>1, <3>1, <3>2
  <2>3. Cardinality(held') \in Nat /\ Cardinality(kept) \in Nat
    <3>1. IsFiniteSet(kept)
      BY FS_Subset
    <3> QED
      BY <2>2, <3>1, FS_CardinalityType
  <2>4. OpensKeep'
    BY <1>6, <2>1 DEF DropHandles, Unused, OpensKeep
  <2> QED
    BY <1>fin, <2>1, <2>2, <2>3, <2>4 DEF TypeOK, PoolExact
<1>7. CASE UNCHANGED poolVars
  BY <1>7 DEF poolVars, TypeOK, OpensKeep, PoolExact, Slots
<1> QED
  BY <1>1, <1>2, <1>3, <1>4, <1>5, <1>6, <1>7 DEF PoolNext

(* The count of the pool, unsigned in the code, is never below zero, never
   above the capacity, and is the handles kept plus the slots in hand, by
   whatever opens, resends, failures, releases and ends of sessions; and
   nothing is kept for a session that is gone (HandlePool, Slot, Handles).  *)
THEOREM PoolIsExact ==
  ASSUME Capacity \in Nat, IsFiniteSet(Open)
  PROVE  PoolSpec => [](TypeOK /\ PoolExact)
<1>1. PoolInit => IInv
  BY InitIInv
<1>2. IInv /\ [PoolNext]_poolVars => IInv'
  BY NextIInv
<1>3. IInv => TypeOK /\ PoolExact
  BY DEF IInv
<1> QED
  BY <1>1, <1>2, <1>3, PTL DEF PoolSpec
=============================================================================
