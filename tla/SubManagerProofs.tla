-------------------------- MODULE SubManagerProofs --------------------------
(***************************************************************************)
(* Proofs about SubManager: any number of slots, connections and names,    *)
(* and any lists of filters.                                               *)
(***************************************************************************)
EXTENDS SubManager, FiniteSetTheorems, SequenceTheorems, TLAPS

(* The invariant that is inductive. *)
Inv == TypeOK /\ UniqueKey /\ CountIsExact /\ SharesKept

LEMMA SlotsFinite ==
    /\ IsFiniteSet(Slots)
    /\ IsFiniteSet(Active)
    /\ \A c : IsFiniteSet(SlotsOf(c))
  <1>1. 1 \in Int /\ MaxTotal \in Int
    BY SubAssumption
  <1>2. IsFiniteSet(Slots)
    BY <1>1, FS_Interval, Zenon DEF Slots
  <1>3. Active \in SUBSET Slots /\ \A c : SlotsOf(c) \in SUBSET Slots
    BY DEF Active, SlotsOf
  <1> QED
    BY <1>2, <1>3, FS_Subset, Zenon

LEMMA CappedType ==
    ASSUME NEW fs \in Requests
    PROVE  Capped(fs) \in Seq(Filters) /\ Len(Capped(fs)) <= MaxFilters
  <1>1. fs \in Seq(Filters) /\ MaxFilters \in Nat
    BY SubAssumption
  <1>2. CASE Len(fs) > MaxFilters
    <2>1. SubSeq(fs, 1, MaxFilters) \in Seq(Filters)
      BY <1>1, <1>2
    <2>2. Len(SubSeq(fs, 1, MaxFilters)) = MaxFilters
      BY <1>1, <1>2
    <2> QED
      BY <1>1, <1>2, <2>1, <2>2 DEF Capped
  <1>3. CASE ~(Len(fs) > MaxFilters)
    BY <1>1, <1>3 DEF Capped
  <1> QED
    BY <1>2, <1>3

-----------------------------------------------------------------------------
(* The slots after a step *)

(* A free slot is taken. *)
LEMMA TakeSlot ==
    ASSUME Inv, NEW c \in Conns, NEW s \in SubIds, NEW i \in Slots \ Active,
           NEW fs \in Seq(Filters),
           subs' = [subs EXCEPT ![i] = Holding(c, s, fs)]
    PROVE  /\ subs' \in [Slots -> Sub]
           /\ Active' = Active \cup {i}
           /\ subs'[i] = Holding(c, s, fs)
           /\ \A j \in Slots \ {i} : subs'[j] = subs[j]
           /\ SlotsOf(c)' = SlotsOf(c) \cup {i}
           /\ \A d \in Conns \ {c} : SlotsOf(d)' = SlotsOf(d)
  <1>1. Holding(c, s, fs) \in Sub /\ Holding(c, s, fs).active /\ Holding(c, s, fs).conn_fd = c
    BY DEF Holding, Sub
  <1>2. /\ subs' \in [Slots -> Sub]
        /\ subs'[i] = Holding(c, s, fs)
        /\ \A j \in Slots \ {i} : subs'[j] = subs[j]
    BY <1>1 DEF Inv, TypeOK
  <1>3. Active' = Active \cup {i}
    BY <1>1, <1>2 DEF Active
  <1> QED
    BY <1>1, <1>2, <1>3 DEF SlotsOf, Active

(* The filters of a slot in use are replaced. *)
LEMMA RefillSlot ==
    ASSUME Inv, NEW c \in Conns, NEW s \in SubIds, NEW i \in Active, Named(c, s, i),
           NEW fs \in Seq(Filters),
           subs' = [subs EXCEPT ![i] = Holding(c, s, fs)]
    PROVE  /\ subs' \in [Slots -> Sub]
           /\ Active' = Active
           /\ subs'[i] = Holding(c, s, fs)
           /\ \A j \in Slots \ {i} : subs'[j] = subs[j]
           /\ \A d \in Conns : SlotsOf(d)' = SlotsOf(d)
  <1>1. Holding(c, s, fs) \in Sub /\ Holding(c, s, fs).active /\ Holding(c, s, fs).conn_fd = c
    BY DEF Holding, Sub
  <1>2. i \in Slots /\ subs[i].conn_fd = c
    BY DEF Active, Named
  <1>3. /\ subs' \in [Slots -> Sub]
        /\ subs'[i] = Holding(c, s, fs)
        /\ \A j \in Slots \ {i} : subs'[j] = subs[j]
    BY <1>1, <1>2 DEF Inv, TypeOK
  <1>4. Active' = Active
    BY <1>1, <1>3 DEF Active
  <1> QED
    BY <1>1, <1>2, <1>3, <1>4 DEF SlotsOf

(* A set of slots is cleared. *)
LEMMA ClearSlots ==
    ASSUME Inv, NEW S \in SUBSET Active,
           subs' = [j \in Slots |-> IF j \in S THEN Cleared ELSE subs[j]]
    PROVE  /\ subs' \in [Slots -> Sub]
           /\ Active' = Active \ S
           /\ \A j \in S : subs'[j] = Cleared
           /\ \A j \in Slots \ S : subs'[j] = subs[j]
           /\ \A d \in Conns : SlotsOf(d)' = SlotsOf(d) \ S
           /\ Cardinality(Active') = Cardinality(Active) - Cardinality(S)
  <1>1. Cleared \in Sub /\ ~Cleared.active
    BY DEF Cleared, Sub
  <1>2. /\ subs' \in [Slots -> Sub]
        /\ \A j \in S : subs'[j] = Cleared
        /\ \A j \in Slots \ S : subs'[j] = subs[j]
    BY <1>1 DEF Inv, TypeOK, Active
  <1>3. Active' = Active \ S
    BY <1>1, <1>2 DEF Active
  <1>4. \A d \in Conns : SlotsOf(d)' = SlotsOf(d) \ S
    BY <1>2, <1>3 DEF SlotsOf, Active
  <1>5. Cardinality(Active \ S) = Cardinality(Active) - Cardinality(Active \cap S)
    BY SlotsFinite, FS_Difference, Zenon
  <1>6. Active \cap S = S
    OBVIOUS
  <1> QED
    BY <1>2, <1>3, <1>4, <1>5, <1>6

-----------------------------------------------------------------------------
(* Invariance *)

LEMMA InvInit == Init => Inv
  <1> SUFFICES ASSUME Init PROVE Inv
    OBVIOUS
  <1>1. Cleared \in Sub /\ ~Cleared.active /\ Cleared.filters = <<>>
    BY DEF Cleared, Sub
  <1>2. subs \in [Slots -> Sub] /\ \A i \in Slots : subs[i] = Cleared
    BY <1>1 DEF Init
  <1>3. Active = {} /\ \A c : SlotsOf(c) = {}
    BY <1>1, <1>2 DEF Active, SlotsOf
  <1>4. TypeOK /\ UniqueKey
    BY <1>2, <1>3 DEF TypeOK, UniqueKey, Init
  <1>5. CountIsExact /\ \A c \in Conns : Cardinality(SlotsOf(c)) <= MaxPerConn
    <2>1. Cardinality({}) = 0
      BY FS_EmptySet, Zenon
    <2>2. MaxPerConn \in Nat
      BY SubAssumption
    <2> QED
      BY <1>3, <2>1, <2>2 DEF CountIsExact, Init
  <1>6. \A i \in Slots : Len(subs[i].filters) <= MaxFilters
    BY <1>1, <1>2, SubAssumption
  <1> QED
    BY <1>4, <1>5, <1>6 DEF Inv, SharesKept

LEMMA InvOpen ==
    ASSUME Inv, NEW c \in Conns, NEW s \in SubIds, NEW fs \in Requests, AddOpens(c, s, fs)
    PROVE  Inv'
  <1> DEFINE new == Holding(c, s, Capped(fs))
  <1>1. PICK i \in Slots \ Active : subs' = [subs EXCEPT ![i] = new]
    BY DEF AddOpens, FindFreeSlot
  <1>2. Capped(fs) \in Seq(Filters) /\ Len(Capped(fs)) <= MaxFilters
    BY CappedType
  <1>3. /\ subs' \in [Slots -> Sub]
        /\ Active' = Active \cup {i}
        /\ subs'[i] = new
        /\ \A j \in Slots \ {i} : subs'[j] = subs[j]
        /\ SlotsOf(c)' = SlotsOf(c) \cup {i}
        /\ \A d \in Conns \ {c} : SlotsOf(d)' = SlotsOf(d)
    BY <1>1, <1>2, TakeSlot
  <1>4. new.conn_fd = c /\ new.sub_id = s /\ new.filters = Capped(fs)
    BY DEF Holding
  <1> HIDE DEF new
  <1>5. /\ Cardinality(Active') = Cardinality(Active) + 1
        /\ Cardinality(SlotsOf(c)') = Cardinality(SlotsOf(c)) + 1
    <2>1. i \notin Active /\ i \notin SlotsOf(c)
      BY <1>1 DEF SlotsOf
    <2>2. /\ Cardinality(Active \cup {i}) = Cardinality(Active) + 1
          /\ Cardinality(SlotsOf(c) \cup {i}) = Cardinality(SlotsOf(c)) + 1
      BY <2>1, SlotsFinite, FS_AddElement, Zenon
    <2> QED
      BY <1>3, <2>2
  <1>6. active_count' = active_count + 1 /\ Cardinality(SlotsOf(c)) < MaxPerConn /\ ~Exists(c, s)
    BY DEF AddOpens
  <1>7. TypeOK'
    BY <1>3, <1>4, <1>6 DEF Inv, TypeOK, Active
  <1>8. UniqueKey'
    BY <1>3, <1>4, <1>6 DEF Inv, UniqueKey, Exists, Named, Active
  <1>9. CountIsExact'
    BY <1>5, <1>6 DEF Inv, CountIsExact
  <1>10. \A d \in Conns : Cardinality(SlotsOf(d)') <= MaxPerConn
    <2>1. Cardinality(SlotsOf(c)) \in Nat
      BY SlotsFinite, FS_CardinalityType, Zenon
    <2>2. Cardinality(SlotsOf(c)') <= MaxPerConn
      BY <1>5, <1>6, <2>1, SubAssumption
    <2>3. \A d \in Conns \ {c} : Cardinality(SlotsOf(d)') <= MaxPerConn
      BY <1>3 DEF Inv, SharesKept
    <2> QED
      BY <2>2, <2>3
  <1>11. \A j \in Slots : Len(subs'[j].filters) <= MaxFilters
    BY <1>2, <1>3, <1>4 DEF Inv, SharesKept
  <1> QED
    BY <1>7, <1>8, <1>9, <1>10, <1>11 DEF Inv, SharesKept

LEMMA InvReplace ==
    ASSUME Inv, NEW c \in Conns, NEW s \in SubIds, NEW fs \in Seq(Filters),
           Len(fs) <= MaxFilters, UNCHANGED active_count,
           \E i \in Slots : Find(c, s, i) /\ subs' = [subs EXCEPT ![i] = Holding(c, s, fs)]
    PROVE  Inv'
  <1> DEFINE new == Holding(c, s, fs)
  <1>1. PICK i \in Active : Named(c, s, i) /\ subs' = [subs EXCEPT ![i] = new]
    BY DEF Find
  <1>2. /\ subs' \in [Slots -> Sub]
        /\ Active' = Active
        /\ subs'[i] = new
        /\ \A j \in Slots \ {i} : subs'[j] = subs[j]
        /\ \A d \in Conns : SlotsOf(d)' = SlotsOf(d)
    BY <1>1, RefillSlot
  <1>3. new.conn_fd = c /\ new.sub_id = s /\ new.filters = fs
    BY DEF Holding
  <1> HIDE DEF new
  <1>4. TypeOK'
    BY <1>1, <1>2, <1>3 DEF Inv, TypeOK, Active
  <1>5. UniqueKey'
    BY <1>1, <1>2, <1>3 DEF Inv, UniqueKey, Named, Active
  <1>6. CountIsExact'
    BY <1>2 DEF Inv, CountIsExact
  <1>7. SharesKept'
    BY <1>2, <1>3 DEF Inv, SharesKept
  <1> QED
    BY <1>4, <1>5, <1>6, <1>7 DEF Inv

LEMMA InvClear ==
    ASSUME Inv, NEW S \in SUBSET Active,
           subs' = [j \in Slots |-> IF j \in S THEN Cleared ELSE subs[j]],
           active_count' = active_count - Cardinality(S)
    PROVE  Inv'
  <1>1. /\ subs' \in [Slots -> Sub]
        /\ Active' = Active \ S
        /\ \A j \in S : subs'[j] = Cleared
        /\ \A j \in Slots \ S : subs'[j] = subs[j]
        /\ \A d \in Conns : SlotsOf(d)' = SlotsOf(d) \ S
        /\ Cardinality(Active') = Cardinality(Active) - Cardinality(S)
    BY ClearSlots
  <1>2. Cardinality(S) \in Nat
    BY SlotsFinite, FS_Subset, FS_CardinalityType
  <1>3. TypeOK'
    <2>1. active_count' \in Int
      BY <1>2 DEF Inv, TypeOK
    <2>2. \A j \in Slots \ Active : subs[j] = Cleared
      BY DEF Inv, TypeOK
    <2>3. \A j \in Slots \ Active' : subs'[j] = Cleared
      BY <1>1, <2>2
    <2>4. \A j \in Active : subs[j].conn_fd \in Conns /\ subs[j].sub_id \in SubIds
      BY DEF Inv, TypeOK
    <2>5. \A j \in Active' : j \in Active /\ subs'[j] = subs[j]
      BY <1>1 DEF Active
    <2>6. \A j \in Active' : subs'[j].conn_fd \in Conns /\ subs'[j].sub_id \in SubIds
      BY <2>4, <2>5
    <2> QED
      BY <1>1, <2>1, <2>3, <2>6 DEF TypeOK
  <1>4. UniqueKey'
    BY <1>1 DEF Inv, UniqueKey, Active
  <1>5. CountIsExact'
    BY <1>1 DEF Inv, CountIsExact
  <1>6. \A d \in Conns : Cardinality(SlotsOf(d)') <= MaxPerConn
    <2> TAKE d \in Conns
    <2>1. SlotsOf(d)' \in SUBSET SlotsOf(d) /\ IsFiniteSet(SlotsOf(d))
      BY <1>1, SlotsFinite
    <2>2. /\ Cardinality(SlotsOf(d)') <= Cardinality(SlotsOf(d))
          /\ Cardinality(SlotsOf(d)') \in Nat /\ Cardinality(SlotsOf(d)) \in Nat
      BY <2>1, FS_Subset, FS_CardinalityType
    <2> QED
      BY <2>2, SubAssumption DEF Inv, SharesKept
  <1>7. \A j \in Slots : Len(subs'[j].filters) <= MaxFilters
    <2>1. Len(Cleared.filters) = 0
      BY DEF Cleared
    <2> QED
      BY <1>1, <2>1, SubAssumption DEF Inv, SharesKept
  <1> QED
    BY <1>3, <1>4, <1>5, <1>6, <1>7 DEF Inv, SharesKept

LEMMA InvRemove ==
    ASSUME Inv, NEW c \in Conns, NEW s \in SubIds, Remove(c, s)
    PROVE  Inv'
  <1>1. PICK i \in Active : subs' = [subs EXCEPT ![i] = Cleared]
    BY DEF Remove, Find
  <1>2. subs' = [j \in Slots |-> IF j \in {i} THEN Cleared ELSE subs[j]]
    BY <1>1 DEF Inv, TypeOK
  <1>3. Cardinality({i}) = 1
    BY FS_Singleton
  <1>4. active_count' = active_count - Cardinality({i})
    BY <1>3 DEF Remove
  <1> QED
    BY <1>2, <1>4, InvClear

LEMMA InvStep == Inv /\ [Next]_vars => Inv'
  <1> SUFFICES ASSUME Inv, [Next]_vars PROVE Inv'
    OBVIOUS
  <1>1. ASSUME NEW c \in Conns, NEW s \in SubIds, NEW fs \in Requests, AddReplaces(c, s, fs)
        PROVE  Inv'
    BY <1>1, CappedType, InvReplace DEF AddReplaces
  <1>2. ASSUME NEW c \in Conns, NEW s \in SubIds, NEW fs \in Requests, AddReplaceFails(c, s, fs)
        PROVE  Inv'
    <2>1. <<>> \in Seq(Filters) /\ Len(<<>>) <= MaxFilters
      BY SubAssumption
    <2> QED
      BY <1>2, <2>1, InvReplace DEF AddReplaceFails
  <1>3. ASSUME NEW c \in Conns, NEW s \in SubIds, NEW fs \in Requests, AddOpens(c, s, fs)
        PROVE  Inv'
    BY <1>3, InvOpen
  <1>4. ASSUME NEW c \in Conns, NEW s \in SubIds, Remove(c, s)
        PROVE  Inv'
    BY <1>4, InvRemove
  <1>5. ASSUME NEW c \in Conns, RemoveAll(c)
        PROVE  Inv'
    <2>1. SlotsOf(c) \in SUBSET Active
      BY DEF SlotsOf
    <2> QED
      BY <1>5, <2>1, InvClear DEF RemoveAll
  <1>6. ASSUME UNCHANGED vars
        PROVE  Inv'
    BY <1>6 DEF vars, Inv, TypeOK, UniqueKey, CountIsExact, SharesKept, Active, SlotsOf
  <1> QED
    BY <1>1, <1>2, <1>3, <1>4, <1>5, <1>6 DEF Next

LEMMA InvHolds == Spec => []Inv
  BY InvInit, InvStep, PTL DEF Spec

-----------------------------------------------------------------------------
(* Theorems *)

(* Every slot is a subscription or cleared, whatever the calls. *)
THEOREM SubTypeCorrect == Spec => []TypeOK
  <1>1. Inv => TypeOK
    BY DEF Inv
  <1> QED
    BY <1>1, InvHolds, PTL

(* sub_manager_find never has two slots to choose from. *)
THEOREM UniqueKeyThm == Spec => []UniqueKey
  <1>1. Inv => UniqueKey
    BY DEF Inv
  <1> QED
    BY <1>1, InvHolds, PTL

(* mgr->active_count is the number of slots in use. *)
THEOREM CountIsExactThm == Spec => []CountIsExact
  <1>1. Inv => CountIsExact
    BY DEF Inv
  <1> QED
    BY <1>1, InvHolds, PTL

(* The limits for each connection and each slot are kept. *)
THEOREM SharesKeptThm == Spec => []SharesKept
  <1>1. Inv => SharesKept
    BY DEF Inv
  <1> QED
    BY <1>1, InvHolds, PTL

-----------------------------------------------------------------------------
(* Refinement *)

(* What the table holds, in terms of the slots. *)
TableIsRead ==
    \A k \in Conns \X SubIds :
        /\ \A i \in Active : Named(k[1], k[2], i) => Table[k] = subs[i].filters
        /\ ~Exists(k[1], k[2]) => Table[k] = Nobody

LEMMA TableRead == Inv => TableIsRead
  <1> SUFFICES ASSUME Inv, NEW k \in Conns \X SubIds
               PROVE  /\ \A i \in Active : Named(k[1], k[2], i) => Table[k] = subs[i].filters
                      /\ ~Exists(k[1], k[2]) => Table[k] = Nobody
    BY DEF TableIsRead
  <1>1. ASSUME NEW i \in Active, Named(k[1], k[2], i)
        PROVE  Table[k] = subs[i].filters
    <2>1. Exists(k[1], k[2])
      BY <1>1 DEF Exists
    <2>2. \A j \in Active : Named(k[1], k[2], j) => j = i
      BY <1>1 DEF Inv, UniqueKey, Named
    <2>3. (CHOOSE j \in Active : Named(k[1], k[2], j)) = i
      BY <1>1, <2>2
    <2> QED
      BY <2>1, <2>3 DEF Table
  <1>2. ~Exists(k[1], k[2]) => Table[k] = Nobody
    BY DEF Table
  <1> QED
    BY <1>1, <1>2

LEMMA TableReadNext == Inv' => TableIsRead'
  BY TableRead, PTL

(* A subscription whose slot keeps it keeps its place in the table. *)
LEMMA TableKeeps ==
    ASSUME Inv, Inv', NEW k \in Conns \X SubIds,
           \A j \in Slots :
               (j \in Active /\ Named(k[1], k[2], j)) <=> (j \in Active' /\ Named(k[1], k[2], j)'),
           \A j \in Active : Named(k[1], k[2], j) => subs'[j].filters = subs[j].filters
    PROVE  Table'[k] = Table[k]
  <1>1. TableIsRead /\ TableIsRead'
    BY TableRead, TableReadNext
  <1>2. Active \subseteq Slots /\ Active' \subseteq Slots
    BY DEF Active, Slots
  <1>3. CASE Exists(k[1], k[2])
    <2>1. PICK j \in Active : Named(k[1], k[2], j)
      BY <1>3 DEF Exists
    <2>2. j \in Active' /\ Named(k[1], k[2], j)'
      BY <1>2, <2>1
    <2>3. Table[k] = subs[j].filters
      BY <1>1, <2>1 DEF TableIsRead
    <2>4. Table'[k] = subs'[j].filters
      BY <1>1, <2>2 DEF TableIsRead
    <2> QED
      BY <2>1, <2>3, <2>4
  <1>4. CASE ~Exists(k[1], k[2])
    <2>1. ~Exists(k[1], k[2])'
      BY <1>2, <1>4 DEF Exists
    <2>2. Table[k] = Nobody
      BY <1>1, <1>4 DEF TableIsRead
    <2>3. Table'[k] = Nobody
      BY <1>1, <2>1 DEF TableIsRead
    <2> QED
      BY <2>2, <2>3
  <1> QED
    BY <1>3, <1>4

(* A table of Conns \X SubIds that differs from Table in one place. *)
LEMMA TableIs ==
    ASSUME NEW k \in Conns \X SubIds, NEW v, Table'[k] = v,
           \A p \in (Conns \X SubIds) \ {k} : Table'[p] = Table[p]
    PROVE  Table' = [Table EXCEPT ![k] = v]
  <1>1. DOMAIN Table = Conns \X SubIds /\ Table = [p \in DOMAIN Table |-> Table[p]]
    BY DEF Table
  <1>2. DOMAIN Table' = Conns \X SubIds /\ Table' = [p \in DOMAIN Table' |-> Table'[p]]
    BY DEF Table
  <1> HIDE DEF Table
  <1> QED
    BY <1>1, <1>2

(* The subscriptions of the table are those that have a slot. *)
PresentIsRead ==
    /\ \A k \in Conns \X SubIds : k \in Abstract!Present <=> Exists(k[1], k[2])
    /\ Abstract!Present \subseteq Conns \X SubIds

LEMMA PresentRead == Inv => PresentIsRead
  <1> SUFFICES ASSUME Inv PROVE PresentIsRead
    OBVIOUS
  <1>1. TableIsRead
    BY TableRead
  <1>2. ASSUME NEW k \in Conns \X SubIds
        PROVE  Table[k] # Nobody <=> Exists(k[1], k[2])
    <2>1. ASSUME NEW i \in Active, Named(k[1], k[2], i) PROVE Table[k] # Nobody
      <3>1. Table[k] = subs[i].filters
        BY <1>1, <2>1 DEF TableIsRead
      <3>2. subs[i].filters \in Seq(Filters)
        BY DEF Inv, TypeOK, Sub, Active
      <3> QED
        BY <3>1, <3>2, SubAssumption
    <2> QED
      BY <1>1, <2>1 DEF TableIsRead, Exists
  <1> QED
    BY <1>2 DEF PresentIsRead, Abstract!Present, Abstract!Keys

(* There are no more subscriptions than slots, in all and of a connection. *)
LEMMA PresentCount ==
    ASSUME Inv, NEW c \in Conns
    PROVE  /\ IsFiniteSet(Abstract!Present)
           /\ IsFiniteSet({p \in Abstract!Present : p[1] = c})
           /\ Cardinality(Abstract!Present) <= Cardinality(Active)
           /\ Cardinality({p \in Abstract!Present : p[1] = c}) <= Cardinality(SlotsOf(c))
  <1>1. PresentIsRead
    BY PresentRead
  <1> DEFINE key == [i \in Active |-> <<subs[i].conn_fd, subs[i].sub_id>>]
             keyOf == [i \in SlotsOf(c) |-> <<subs[i].conn_fd, subs[i].sub_id>>]
             P == Abstract!Present
             Q == {p \in Abstract!Present : p[1] = c}
  <1>2. \A i \in Active : key[i] \in P
    BY <1>1 DEF PresentIsRead, Exists, Named, Inv, TypeOK
  <1>3. \A p \in P : \E i \in Active : key[i] = p
    <2> SUFFICES ASSUME NEW p \in P PROVE \E i \in Active : key[i] = p
      OBVIOUS
    <2>1. p \in Conns \X SubIds /\ Exists(p[1], p[2])
      BY <1>1 DEF PresentIsRead
    <2>2. PICK i \in Active : Named(p[1], p[2], i)
      BY <2>1 DEF Exists
    <2> QED
      BY <2>1, <2>2 DEF Named
  <1>4. SlotsOf(c) \subseteq Active /\ \A i \in Active : i \in SlotsOf(c) <=> key[i][1] = c
    BY DEF SlotsOf
  <1>5. key \in Surjection(Active, P)
    BY <1>2, <1>3 DEF Surjection
  <1>6. keyOf \in Surjection(SlotsOf(c), Q)
    <2>1. \A i \in SlotsOf(c) : keyOf[i] = key[i] /\ keyOf[i] \in Q
      BY <1>2, <1>4
    <2>2. \A p \in Q : \E i \in SlotsOf(c) : keyOf[i] = p
      BY <1>3, <1>4
    <2> QED
      BY <2>1, <2>2 DEF Surjection
  <1> HIDE DEF key, keyOf, P, Q
  <1>7. IsFiniteSet(P) /\ Cardinality(P) <= Cardinality(Active)
    BY <1>5, SlotsFinite, FS_Surjection
  <1>8. IsFiniteSet(Q) /\ Cardinality(Q) <= Cardinality(SlotsOf(c))
    BY <1>6, SlotsFinite, FS_Surjection
  <1> QED
    BY <1>7, <1>8 DEF P, Q

LEMMA OpenRefines ==
    ASSUME Inv, Inv', NEW c \in Conns, NEW s \in SubIds, NEW fs \in Requests, AddOpens(c, s, fs)
    PROVE  Abstract!Open(<<c, s>>, Capped(fs))
  <1> DEFINE k == <<c, s>>
  <1>1. PICK i \in Slots \ Active : subs' = [subs EXCEPT ![i] = Holding(c, s, Capped(fs))]
    BY DEF AddOpens, FindFreeSlot
  <1>2. Capped(fs) \in Seq(Filters)
    BY CappedType
  <1>3. /\ Active' = Active \cup {i}
        /\ subs'[i] = Holding(c, s, Capped(fs))
        /\ \A j \in Slots \ {i} : subs'[j] = subs[j]
    BY <1>1, <1>2, TakeSlot
  <1>4. subs'[i].conn_fd = c /\ subs'[i].sub_id = s /\ subs'[i].filters = Capped(fs)
    BY <1>3 DEF Holding
  <1>5. k \in Conns \X SubIds /\ k[1] = c /\ k[2] = s
    OBVIOUS
  <1>6. Table'[k] = Capped(fs)
    <2>1. TableIsRead'
      BY TableReadNext
    <2>2. i \in Active' /\ Named(k[1], k[2], i)'
      BY <1>3, <1>4, <1>5 DEF Named
    <2> QED
      BY <1>4, <1>5, <2>1, <2>2 DEF TableIsRead
  <1>7. ASSUME NEW p \in (Conns \X SubIds) \ {k} PROVE Table'[p] = Table[p]
    <2>1. p[1] # c \/ p[2] # s
      BY <1>5
    <2>2. \A j \in Slots :
              (j \in Active /\ Named(p[1], p[2], j)) <=> (j \in Active' /\ Named(p[1], p[2], j)')
      BY <1>3, <1>4, <2>1 DEF Named
    <2>3. \A j \in Active : Named(p[1], p[2], j) => subs'[j].filters = subs[j].filters
      BY <1>3 DEF Active
    <2> QED
      BY <2>2, <2>3, TableKeeps
  <1>8. Table' = [Table EXCEPT ![k] = Capped(fs)]
    BY <1>5, <1>6, <1>7, TableIs
  <1>9. k \notin Abstract!Present
    BY <1>5, PresentRead DEF PresentIsRead, AddOpens
  <1>10. Abstract!HasRoom(k)
    <2>1. Cardinality(Abstract!Present) <= Cardinality(Active)
      BY PresentCount
    <2>2. Cardinality({p \in Abstract!Present : p[1] = c}) <= Cardinality(SlotsOf(c))
      BY PresentCount
    <2>3. Cardinality(SlotsOf(c)) < MaxPerConn
      BY DEF AddOpens
    <2>4. Cardinality(Active) < MaxTotal
      <3>1. Active \in SUBSET Slots /\ Active # Slots
        BY <1>1 DEF Active
      <3>2. Cardinality(Active) <= Cardinality(Slots) /\ Cardinality(Active) # Cardinality(Slots)
        BY <3>1, SlotsFinite, FS_Subset
      <3>3. Cardinality(Slots) = MaxTotal
        <4>1. MaxTotal \in Nat
          BY SubAssumption
        <4>2. Cardinality(1 .. MaxTotal) = IF 1 > MaxTotal THEN 0 ELSE MaxTotal - 1 + 1
          BY <4>1, FS_Interval
        <4> QED
          BY <4>1, <4>2 DEF Slots
      <3>4. Cardinality(Active) \in Nat /\ Cardinality(Slots) \in Nat
        BY SlotsFinite, FS_CardinalityType
      <3> QED
        BY <3>2, <3>3, <3>4
    <2>5. /\ IsFiniteSet(Abstract!Present) /\ IsFiniteSet(Active)
          /\ IsFiniteSet({p \in Abstract!Present : p[1] = c}) /\ IsFiniteSet(SlotsOf(c))
      BY SlotsFinite, PresentCount
    <2>6. /\ Cardinality(Abstract!Present) \in Nat /\ Cardinality(Active) \in Nat
          /\ Cardinality({p \in Abstract!Present : p[1] = c}) \in Nat /\ Cardinality(SlotsOf(c)) \in Nat
      BY <2>5, FS_CardinalityType, Zenon
    <2>7. MaxTotal \in Nat /\ MaxPerConn \in Nat
      BY SubAssumption
    <2>8. Cardinality(Abstract!Present) < MaxTotal
      BY <2>1, <2>4, <2>6, <2>7
    <2>9. Cardinality({p \in Abstract!Present : p[1] = k[1]}) < MaxPerConn
      BY <1>5, <2>2, <2>3, <2>6, <2>7
    <2>10. \A T : Abstract!Cardinality(T) = Cardinality(T)
      BY DEF Abstract!Cardinality, Cardinality
    <2> QED
      BY <2>8, <2>9, <2>10 DEF Abstract!HasRoom
  <1> QED
    BY <1>8, <1>9, <1>10 DEF Abstract!Open

LEMMA ReplaceRefines ==
    ASSUME Inv, Inv', NEW c \in Conns, NEW s \in SubIds, NEW fs \in Seq(Filters),
           \E i \in Slots : Find(c, s, i) /\ subs' = [subs EXCEPT ![i] = Holding(c, s, fs)]
    PROVE  Abstract!Replace(<<c, s>>, fs)
  <1> DEFINE k == <<c, s>>
             new == Holding(c, s, fs)
  <1>1. PICK i \in Active : Named(c, s, i) /\ subs' = [subs EXCEPT ![i] = new]
    BY DEF Find
  <1>2. /\ subs' \in [Slots -> Sub]
        /\ Active' = Active
        /\ subs'[i] = new
        /\ \A j \in Slots \ {i} : subs'[j] = subs[j]
        /\ \A d \in Conns : SlotsOf(d)' = SlotsOf(d)
    BY <1>1, RefillSlot
  <1>3. subs'[i].conn_fd = c /\ subs'[i].sub_id = s /\ subs'[i].filters = fs
    BY <1>2 DEF Holding
  <1>4. k \in Conns \X SubIds /\ k[1] = c /\ k[2] = s
    OBVIOUS
  <1>5. Table'[k] = fs
    <2>1. TableIsRead'
      BY TableReadNext
    <2>2. i \in Active' /\ Named(k[1], k[2], i)'
      BY <1>2, <1>3, <1>4 DEF Named
    <2> QED
      BY <1>3, <1>4, <2>1, <2>2 DEF TableIsRead
  <1>6. ASSUME NEW p \in (Conns \X SubIds) \ {k} PROVE Table'[p] = Table[p]
    <2>1. p[1] # c \/ p[2] # s
      BY <1>4
    <2>2. \A j \in Slots :
              (j \in Active /\ Named(p[1], p[2], j)) <=> (j \in Active' /\ Named(p[1], p[2], j)')
      BY <1>1, <1>2, <1>3, <2>1 DEF Named
    <2>3. \A j \in Active : Named(p[1], p[2], j) => subs'[j].filters = subs[j].filters
      BY <1>1, <1>2, <2>1 DEF Active, Named
    <2> QED
      BY <2>2, <2>3, TableKeeps
  <1>7. Table' = [Table EXCEPT ![k] = fs]
    BY <1>4, <1>5, <1>6, TableIs
  <1>8. k \in Abstract!Present
    BY <1>1, <1>4, PresentRead DEF PresentIsRead, Exists
  <1> QED
    BY <1>7, <1>8 DEF Abstract!Replace

(* The slots in S, which are all the slots of their names, are cleared. *)
LEMMA ClearRefines ==
    ASSUME Inv, Inv', NEW S \in SUBSET Active,
           subs' = [j \in Slots |-> IF j \in S THEN Cleared ELSE subs[j]],
           NEW k \in Conns \X SubIds
    PROVE  Table'[k] = IF \E i \in S : Named(k[1], k[2], i) THEN Nobody ELSE Table[k]
  <1>1. /\ Active' = Active \ S
        /\ \A j \in Slots \ S : subs'[j] = subs[j]
    BY ClearSlots
  <1>2. CASE \E i \in S : Named(k[1], k[2], i)
    <2>1. PICK i \in S : Named(k[1], k[2], i)
      BY <1>2
    <2>2. \A j \in Active : Named(k[1], k[2], j) => j = i
      BY <2>1 DEF Inv, UniqueKey, Named
    <2>3. \A j \in Active' : j \in Active /\ j # i /\ subs'[j] = subs[j]
      BY <1>1, <2>1 DEF Active
    <2>4. ~Exists(k[1], k[2])'
      BY <2>2, <2>3 DEF Exists, Named
    <2>5. TableIsRead'
      BY TableReadNext
    <2> QED
      BY <1>2, <2>4, <2>5 DEF TableIsRead
  <1>3. CASE ~\E i \in S : Named(k[1], k[2], i)
    <2>1. \A j \in Slots :
              (j \in Active /\ Named(k[1], k[2], j)) <=> (j \in Active' /\ Named(k[1], k[2], j)')
      BY <1>1, <1>3 DEF Named
    <2>2. \A j \in Active : Named(k[1], k[2], j) => subs'[j].filters = subs[j].filters
      BY <1>1, <1>3 DEF Active
    <2> QED
      BY <1>3, <2>1, <2>2, TableKeeps
  <1> QED
    BY <1>2, <1>3

LEMMA RemoveRefines ==
    ASSUME Inv, Inv', NEW c \in Conns, NEW s \in SubIds, Remove(c, s)
    PROVE  Abstract!Close(<<c, s>>)
  <1> DEFINE k == <<c, s>>
  <1>1. PICK i \in Active : Named(c, s, i) /\ subs' = [subs EXCEPT ![i] = Cleared]
    BY DEF Remove, Find
  <1>2. subs' = [j \in Slots |-> IF j \in {i} THEN Cleared ELSE subs[j]]
    BY <1>1 DEF Inv, TypeOK
  <1>3. k \in Conns \X SubIds /\ k[1] = c /\ k[2] = s
    OBVIOUS
  <1>4. {i} \in SUBSET Active
    OBVIOUS
  <1>5. \A p \in Conns \X SubIds :
            Table'[p] = IF \E j \in {i} : Named(p[1], p[2], j) THEN Nobody ELSE Table[p]
    BY <1>2, <1>4, ClearRefines
  <1>6. Table'[k] = Nobody
    BY <1>1, <1>3, <1>5
  <1>7. \A p \in (Conns \X SubIds) \ {k} : Table'[p] = Table[p]
    BY <1>1, <1>3, <1>5 DEF Named
  <1>8. Table' = [Table EXCEPT ![k] = Nobody]
    BY <1>3, <1>6, <1>7, TableIs
  <1>9. k \in Abstract!Present
    BY <1>1, <1>3, PresentRead DEF PresentIsRead, Exists
  <1> QED
    BY <1>8, <1>9 DEF Abstract!Close

LEMMA RemoveAllRefines ==
    ASSUME Inv, Inv', NEW c \in Conns, RemoveAll(c)
    PROVE  Abstract!Disconnect(c)
  <1>1. SlotsOf(c) \in SUBSET Active
    BY DEF SlotsOf
  <1>2. \A p \in Conns \X SubIds :
            Table'[p] = IF \E j \in SlotsOf(c) : Named(p[1], p[2], j) THEN Nobody ELSE Table[p]
    BY <1>1, ClearRefines DEF RemoveAll
  <1>3. ASSUME NEW p \in Conns \X SubIds
        PROVE  Table'[p] = IF p[1] = c THEN Nobody ELSE Table[p]
    <2>1. CASE p[1] # c
      BY <1>2, <2>1 DEF Named, SlotsOf
    <2>2. CASE p[1] = c /\ Exists(p[1], p[2])
      <3>1. \E j \in SlotsOf(c) : Named(p[1], p[2], j)
        BY <2>2 DEF Exists, Named, SlotsOf
      <3> QED
        BY <1>2, <2>2, <3>1
    <2>3. CASE p[1] = c /\ ~Exists(p[1], p[2])
      <3>1. Table[p] = Nobody
        BY <2>3, TableRead DEF TableIsRead
      <3> QED
        BY <1>2, <2>3, <3>1
    <2> QED
      BY <2>1, <2>2, <2>3
  <1>4. Table' = [p \in Conns \X SubIds |-> Table'[p]]
    BY DEF Table
  <1> HIDE DEF Table
  <1> QED
    BY <1>3, <1>4 DEF Abstract!Disconnect, Abstract!Keys

LEMMA StepRefines == Inv /\ Inv' /\ [Next]_vars => [Abstract!Next]_Table
  <1> SUFFICES ASSUME Inv, Inv', [Next]_vars PROVE [Abstract!Next]_Table
    OBVIOUS
  <1>1. ASSUME NEW c \in Conns, NEW s \in SubIds, NEW fs \in Requests, AddReplaces(c, s, fs)
        PROVE  Abstract!Next
    <2>1. Capped(fs) \in Seq(Filters)
      BY CappedType
    <2>2. Abstract!Replace(<<c, s>>, Capped(fs))
      BY <1>1, <2>1, ReplaceRefines DEF AddReplaces
    <2> QED
      BY <2>2 DEF Abstract!Next, Abstract!Keys
  <1>2. ASSUME NEW c \in Conns, NEW s \in SubIds, NEW fs \in Requests, AddReplaceFails(c, s, fs)
        PROVE  Abstract!Next
    <2>1. <<>> \in Seq(Filters)
      OBVIOUS
    <2>2. Abstract!Replace(<<c, s>>, <<>>)
      BY <1>2, <2>1, ReplaceRefines DEF AddReplaceFails
    <2> QED
      BY <2>2 DEF Abstract!Next, Abstract!Starve, Abstract!Keys
  <1>3. ASSUME NEW c \in Conns, NEW s \in SubIds, NEW fs \in Requests, AddOpens(c, s, fs)
        PROVE  Abstract!Next
    <2>1. Abstract!Open(<<c, s>>, Capped(fs))
      BY <1>3, OpenRefines
    <2> QED
      BY <2>1 DEF Abstract!Next, Abstract!Keys
  <1>4. ASSUME NEW c \in Conns, NEW s \in SubIds, Remove(c, s)
        PROVE  Abstract!Next
    <2>1. Abstract!Close(<<c, s>>)
      BY <1>4, RemoveRefines
    <2> QED
      BY <2>1 DEF Abstract!Next, Abstract!Keys
  <1>5. ASSUME NEW c \in Conns, RemoveAll(c)
        PROVE  Abstract!Next
    BY <1>5, RemoveAllRefines DEF Abstract!Next
  <1>6. CASE UNCHANGED vars
    <2>1. Table' = Table
      BY <1>6 DEF vars, Table, Exists, Named, Active
    <2> QED
      BY <2>1
  <1> QED
    BY <1>1, <1>2, <1>3, <1>4, <1>5, <1>6 DEF Next

LEMMA InitRefines == Init => Abstract!Init
  <1> SUFFICES ASSUME Init PROVE Abstract!Init
    OBVIOUS
  <1>1. \A i \in Slots : subs[i] = Cleared /\ ~Cleared.active
    BY DEF Init, Cleared
  <1>2. Active = {}
    BY <1>1 DEF Active
  <1>3. \A k \in Conns \X SubIds : Table[k] = Nobody
    BY <1>2 DEF Table, Exists
  <1>4. Table = [k \in Conns \X SubIds |-> Table[k]]
    BY DEF Table
  <1> HIDE DEF Table
  <1> QED
    BY <1>3, <1>4 DEF Abstract!Init, Abstract!Keys

(* The slots, their order and the running count implement the table: each  *)
(* call of sub_manager.c changes the one subscription it names, or those   *)
(* of the connection it names, as SubTable says, or nothing.               *)
THEOREM ImplementsTableThm == Spec => ImplementsTable
  <1>1. Init => Abstract!Init
    BY InitRefines
  <1>2. Inv /\ Inv' /\ [Next]_vars => [Abstract!Next]_Table
    BY StepRefines
  <1> QED
    BY <1>1, <1>2, InvHolds, PTL DEF Spec, ImplementsTable, Abstract!Spec

=============================================================================
