-------------------------- MODULE DurabilityProofs --------------------------
(***************************************************************************)
(* What a power loss costs (QuiescentLossBounded), for every set of        *)
(* events, size of the index and its chunks and number of power losses,    *)
(* provided that the NVS partition holds all the chunks there may be.      *)
(*                                                                         *)
(* Durable says what NVS holds of the index at every step of a save.  It   *)
(* is about a relay that starts or serves, and says nothing of the copy a  *)
(* torn save has left behind: a boot loads what that copy reads as, and    *)
(* the index it loads is then what the copy holds.                         *)
(***************************************************************************)
EXTENDS StorageEngineProofs, WellFoundedInduction

(* The NVS partition has room for every chunk. *)
NvsHoldsIndex == NvsCapacity >= MaxChunks * ChunkSize

(* The copy in NVS is the index without its last appended entries, fewer   *)
(* than would have reached a multiple of SaveEvery, and without the flags  *)
(* set on expired entries since.                                           *)
CopyIsRecent ==
    /\ Len(Recovered) <= Len(index)
    /\ Len(index) - Len(Recovered) <= Len(index) % SaveEvery
    /\ \A i \in DOMAIN Recovered :
          \/ Recovered[i] = index[i]
          \/ index[i] = Flagged(Recovered[i]) /\ Expired(index[i])

(* What a running save has written. *)
SaveProgress ==
    /\ save \in {"next_idx", "chunks"} => nvs_count = Len(index)
    /\ save = "chunks" =>
        /\ nvs_next \in Nat
        /\ \A k \in 1 .. NumChunks(Len(index)) : k < chunk => nvs_chunks[k] = IndexChunk(k)
    /\ save # "chunks" => chunk = 1

Up == relay \in {"starting", "serving"}

DurableWhileUp ==
    /\ max_index_entries \in IndexSizes
    /\ marking.by # "none" => save = "idle"
    /\ \A i \in marking.left : Expired(index[i])
    /\ SaveProgress
    /\ save = "idle" => CopyIsRecent

Durable ==
    /\ relay = "off" => save = "idle" /\ chunk = 1 /\ cleanup = "none"
    /\ Up /\ nvs_errors = 0 => DurableWhileUp

-----------------------------------------------------------------------------
(* The room in NVS *)

(* With a partition of that size no chunk is refused. *)
LEMMA BlobAlwaysFits ==
    ASSUME TypeOK, NvsHoldsIndex, ~ChunksWritten
    PROVE  BlobFits
  <1> DEFINE n == Len(index)
             others == {k \in 1 .. MaxChunks : k # chunk}
             used == {kj \in others \X (1 .. ChunkSize) : kj[2] <= Len(nvs_chunks[kj[1]])}
  <1>1. n \in Nat /\ n <= MaxChunks * ChunkSize
    BY SizesAssumption, ChunkOrder DEF TypeOK
  <1>2. MaxChunks \in Nat /\ ChunkSize \in Nat \ {0} /\ NvsCapacity \in Nat
    BY SizesAssumption
  <1>3. chunk \in 1 .. NumChunks(n) /\ NumChunks(n) \in 0 .. MaxChunks
    BY <1>1, NumChunksBound DEF TypeOK, ChunksWritten
  <1>4. ChunkLen(n, chunk) \in 1 .. ChunkSize
    BY <1>1, <1>3, ChunkWithinIndex
  <1>5. IsFiniteSet(others) /\ Cardinality(others) = MaxChunks - 1
    <2>1. IsFiniteSet(1 .. MaxChunks) /\ Cardinality(1 .. MaxChunks) = MaxChunks
      BY <1>2, FS_Interval
    <2>2. others = (1 .. MaxChunks) \ {chunk} /\ chunk \in 1 .. MaxChunks
      BY <1>2, <1>3
    <2> QED
      BY <2>1, <2>2, FS_RemoveElement
  <1>6. IsFiniteSet(1 .. ChunkSize) /\ Cardinality(1 .. ChunkSize) = ChunkSize
    BY <1>2, FS_Interval
  <1>7. /\ IsFiniteSet(others \X (1 .. ChunkSize))
        /\ Cardinality(others \X (1 .. ChunkSize)) = Cardinality(others) * Cardinality(1 .. ChunkSize)
    BY <1>5, <1>6, FS_Product, Zenon
  <1>8. used \in SUBSET (others \X (1 .. ChunkSize))
    OBVIOUS
  <1>9. /\ IsFiniteSet(used)
        /\ Cardinality(used) <= Cardinality(others \X (1 .. ChunkSize))
    BY <1>7, <1>8, FS_Subset, Zenon
  <1>10. Cardinality(used) \in Nat
    BY <1>9, FS_CardinalityType, Zenon
  <1>11. Cardinality(others \X (1 .. ChunkSize)) = (MaxChunks - 1) * ChunkSize
    BY <1>5, <1>6, <1>7
  <1>12. (MaxChunks - 1) * ChunkSize = MaxChunks * ChunkSize - ChunkSize /\ MaxChunks * ChunkSize \in Int
    BY <1>2, ChunkOrder
  <1>13. NvsCapacity >= MaxChunks * ChunkSize
    BY DEF NvsHoldsIndex
  <1> HIDE DEF others, used, n
  <1>14. Cardinality(used) + ChunkLen(n, chunk) <= NvsCapacity
    BY <1>2, <1>4, <1>9, <1>10, <1>11, <1>12, <1>13
  <1> QED
    BY <1>14 DEF BlobFits, others, used, n

-----------------------------------------------------------------------------
(* A save that has run to its end *)

(* The entry that load_index_from_nvs puts at i is the one saved from i. *)
LEMMA SavedIsIndex ==
    ASSUME TypeOK, max_index_entries \in IndexSizes,
           nvs_count = Len(index), nvs_next \in Nat,
           \A k \in 1 .. NumChunks(Len(index)) : nvs_chunks[k] = IndexChunk(k)
    PROVE  Recovered = index
  <1> DEFINE n == Len(index)
             q(i) == ((i - 1) \div ChunkSize) + 1
             r(i) == ((i - 1) % ChunkSize) + 1
  <1>1. n \in Nat /\ index \in Seq(Entry) /\ DOMAIN index = 1 .. n /\ index = [i \in 1 .. n |-> index[i]]
    BY DEF TypeOK
  <1>2. LoadCount(max_index_entries) = n
    <2>1. n <= max_index_entries /\ max_index_entries \in Nat
      BY SizesAssumption DEF TypeOK
    <2> QED
      BY <1>1, <2>1 DEF LoadCount
  <1>3. ASSUME NEW k \in 1 .. NumChunks(n)
        PROVE  /\ Len(nvs_chunks[k]) = ChunkLen(n, k)
               /\ \A j \in 1 .. ChunkLen(n, k) : nvs_chunks[k][j] = index[(k - 1) * ChunkSize + j]
    <2>1. /\ ChunkLen(n, k) \in 1 .. ChunkSize /\ (k - 1) * ChunkSize \in Nat
          /\ (k - 1) * ChunkSize + ChunkLen(n, k) <= n
      BY <1>1, ChunkWithinIndex
    <2>2. nvs_chunks[k] = [j \in 1 .. ChunkLen(n, k) |-> index[(k - 1) * ChunkSize + j]]
      BY DEF IndexChunk
    <2>3. ChunkLen(n, k) \in Nat
      BY <2>1
    <2> DEFINE l == ChunkLen(n, k)
               o == (k - 1) * ChunkSize
    <2> HIDE DEF l, o, n
    <2>4. \A j \in 1 .. l : index[o + j] \in Entry
      BY <1>1, <2>1 DEF l, o
    <2>5. Len([j \in 1 .. l |-> index[o + j]]) = l
      BY <2>3, <2>4 DEF l
    <2> QED
      BY <2>2, <2>5 DEF l, o
  <1>4. LoadSucceeds(max_index_entries)
    BY <1>1, <1>2, <1>3, NoValueAssumption DEF LoadSucceeds
  <1>5. ASSUME NEW i \in 1 .. n PROVE nvs_chunks[q(i)][r(i)] = index[i]
    <2>1. q(i) \in 1 .. NumChunks(n) /\ r(i) \in 1 .. ChunkLen(n, q(i))
      BY <1>1, EntryWithinChunk
    <2>2. (q(i) - 1) * ChunkSize + r(i) = i
      <3> DEFINE a == (i - 1) \div ChunkSize
                 b == (i - 1) % ChunkSize
      <3>1. i - 1 \in Nat /\ ChunkSize \in Nat \ {0}
        BY <1>1, SizesAssumption
      <3>2. a \in Nat /\ b \in Nat /\ i - 1 = ChunkSize * a + b
        BY <3>1, DivMod
      <3>3. q(i) = a + 1 /\ r(i) = b + 1
        OBVIOUS
      <3> HIDE DEF a, b, q, r
      <3>4. q(i) - 1 = a
        BY <3>2, <3>3
      <3>5. ChunkSize * a = a * ChunkSize /\ a * ChunkSize \in Int
        BY <3>1, <3>2
      <3>6. a * ChunkSize + (b + 1) = i
        BY <3>1, <3>2, <3>5
      <3> QED
        BY <3>3, <3>4, <3>6
    <2> HIDE DEF q, r, n
    <2>3. nvs_chunks[q(i)][r(i)] = index[(q(i) - 1) * ChunkSize + r(i)]
      BY <1>3, <2>1
    <2> QED
      BY <2>2, <2>3
  <1>6. LoadedIndex(max_index_entries) = [i \in 1 .. n |-> nvs_chunks[q(i)][r(i)]]
    BY <1>2 DEF LoadedIndex
  <1> HIDE DEF n, q, r
  <1>7. LoadedIndex(max_index_entries) = index
    BY <1>1, <1>5, <1>6
  <1> QED
    BY <1>4, <1>7 DEF Recovered

-----------------------------------------------------------------------------
(* Between two saves *)

(* The remainder grows by one with each entry, until a save is due. *)
LEMMA SinceLastSave ==
    ASSUME NEW n \in Nat
    PROVE  /\ n % SaveEvery \in 0 .. SaveEvery - 1
           /\ (n + 1) % SaveEvery # 0 => (n + 1) % SaveEvery = (n % SaveEvery) + 1
  <1> DEFINE S == SaveEvery
             a == n \div S
             b == n % S
             c == (n + 1) \div S
             d == (n + 1) % S
  <1>1. S \in Nat \ {0} /\ n + 1 \in Nat
    BY SizesAssumption
  <1>2. a \in Nat /\ b \in Nat /\ b < S /\ n = S * a + b
    BY <1>1, DivMod
  <1>3. c \in Nat /\ d \in Nat /\ d < S /\ n + 1 = S * c + d
    BY <1>1, DivMod
  <1> HIDE DEF S, a, b, c, d
  <1>4. ASSUME d # 0 PROVE d = b + 1
    <2>1. S * c = S * a + (b + 1 - d) /\ b + 1 - d < S /\ b + 1 - d > -S
      BY <1>1, <1>2, <1>3, <1>4
    <2>2. c < a + 1
      <3>1. S * c < S * a + S /\ S * a + S = S * (a + 1)
        BY <1>1, <1>2, <1>3, <2>1
      <3> QED
        BY <1>1, <1>2, <1>3, <3>1, Z3
    <2>3. c > a - 1
      <3>1. S * c > S * a - S /\ S * a - S = S * (a - 1)
        BY <1>1, <1>2, <1>3, <2>1
      <3> QED
        BY <1>1, <1>2, <1>3, <3>1, Z3
    <2>4. c = a
      BY <1>2, <1>3, <2>2, <2>3
    <2> QED
      BY <1>1, <1>2, <1>3, <2>4
  <1>5. b \in 0 .. S - 1
    BY <1>1, <1>2
  <1> QED
    BY <1>4, <1>5 DEF S, b, d

(* What the next boot would load is an index. *)
LEMMA RecoveredType ==
    ASSUME TypeOK, max_index_entries \in IndexSizes
    PROVE  Recovered \in Seq(Entry) /\ Len(Recovered) \in Nat /\ DOMAIN Recovered = 1 .. Len(Recovered)
  <1>1. Recovered \in Seq(Entry)
    BY LoadedType DEF Recovered
  <1> QED
    BY <1>1

(* Nothing but the index size and NVS decides what is loaded. *)
LEMMA RecoveredUnchanged ==
    ASSUME UNCHANGED <<max_index_entries, nvs>>
    PROVE  Recovered' = Recovered
  BY DEF Recovered, LoadSucceeds, LoadedIndex, LoadCount, nvs

(* A step of a call that changes neither the index nor NVS. *)
LEMMA DurableUnchanged ==
    ASSUME TypeOK, TypeOK', DurableWhileUp,
           UNCHANGED <<index, max_index_entries, nvs, save, chunk>>,
           now <= now',
           marking'.by # "none" => save = "idle",
           \A i \in marking'.left : Expired(index[i])
    PROVE  DurableWhileUp'
  <1>1. now \in Nat /\ now' \in Nat /\ index \in Seq(Entry)
    BY DEF TypeOK
  <1>2. \A i \in DOMAIN index : Expired(index[i]) => Expired(index[i])'
    BY <1>1, ExpiredStays DEF Expired
  <1>3. \A i \in marking'.left : Expired(index[i])'
    <2>1. marking'.left \subseteq DOMAIN index
      BY DEF TypeOK, LivePos
    <2> QED
      BY <1>2, <2>1
  <1>4. SaveProgress'
    BY DEF DurableWhileUp, SaveProgress, IndexChunk, nvs
  <1>5. CopyIsRecent => CopyIsRecent'
    <2> SUFFICES ASSUME CopyIsRecent PROVE CopyIsRecent'
      OBVIOUS
    <2>1. Recovered' = Recovered
      BY RecoveredUnchanged
    <2>2. DOMAIN Recovered \subseteq DOMAIN index
      BY <1>1, RecoveredType, SMTT(30) DEF CopyIsRecent, DurableWhileUp
    <2> QED
      BY <1>2, <2>1, <2>2 DEF CopyIsRecent, Flagged
  <1> QED
    BY <1>3, <1>4, <1>5 DEF DurableWhileUp

(* A call that is about to save the index may change it as it likes. *)
LEMMA DurableBeforeSave ==
    ASSUME DurableWhileUp, UNCHANGED max_index_entries,
           marking'.by = "none", marking'.left = {}, save' = "count", chunk' = 1
    PROVE  DurableWhileUp'
  BY DEF DurableWhileUp, SaveProgress

-----------------------------------------------------------------------------
(* The calls that change the index *)

(* Every set of naturals has a least element. *)
LEMMA LeastNatural ==
    ASSUME NEW T, T \subseteq Nat, T # {}
    PROVE  \E x \in T : \A y \in T : x <= y
  <1> DEFINE R == {ss \in Nat \X Nat : ss[1] < ss[2]}
  <1>1. IsWellFoundedOn(R, Nat)
    BY NatLessThanWellFounded, Zenon DEF OpToRel
  <1> HIDE DEF R
  <1>2. \E x \in T : \A y \in T : ~(<<y, x>> \in R)
    BY <1>1, WFMin, Zenon
  <1>3. PICK x \in T : \A y \in T : ~(<<y, x>> \in R)
    BY <1>2
  <1>4. \A y \in T : ~(y < x)
    BY <1>3 DEF R
  <1> QED
    BY <1>4

(* Compaction that drops nothing moves nothing. *)
LEMMA OrderedIsIdentity ==
    ASSUME NEW n \in Nat, NEW f \in [1 .. n -> 1 .. n], Ordered(f, 1 .. n)
    PROVE  \A i \in 1 .. n : f[i] = i
  <1> DEFINE moved == {i \in 1 .. n : f[i] # i}
  <1>1. /\ \A i, j \in 1 .. n : i < j => f[i] < f[j]
        /\ \A p \in 1 .. n : \E i \in 1 .. n : f[i] = p
    BY DEF Ordered
  <1>2. ASSUME moved # {} PROVE FALSE
    <2>1. PICK x \in moved : \A y \in moved : x <= y
      BY <1>2, LeastNatural, moved \subseteq Nat
    <2>2. x \in 1 .. n /\ f[x] \in 1 .. n /\ f[x] # x /\ \A y \in 1 .. n : y < x => f[y] = y
      BY <2>1
    <2>3. CASE f[x] < x
      BY <1>1, <2>2, <2>3
    <2>4. CASE x < f[x]
      <3>1. PICK k \in 1 .. n : f[k] = x
        BY <1>1, <2>2
      <3>2. ~(k < x) /\ k # x
        BY <2>2, <3>1
      <3>3. x < k
        BY <2>2, <3>2
      <3>4. f[x] < f[k]
        BY <1>1, <2>2, <3>3
      <3> QED
        BY <2>2, <2>4, <3>1, <3>4
    <2> QED
      BY <2>2, <2>3, <2>4
  <1> QED
    BY <1>2

LEMMA DurableCompact ==
    ASSUME TypeInv, TypeInv', DurableWhileUp, CompactIndex
    PROVE  DurableWhileUp'
  <1>1. PICK f \in [1 .. Cardinality(LivePos) -> LivePos] :
            Ordered(f, LivePos) /\ index' = [i \in DOMAIN f |-> index[f[i]]]
    BY DEF CompactIndex
  <1>2. /\ marking' = marking /\ marking.by = "none" /\ marking.left = {}
        /\ save = "idle" /\ chunk' = chunk /\ chunk = 1
        /\ UNCHANGED <<max_index_entries, nvs, now>>
    BY DEF CompactIndex, LockFree, TypeInv, DurableWhileUp, SaveProgress, env
  <1>3. CASE LivePos # DOMAIN index
    BY <1>2, <1>3, DurableBeforeSave DEF CompactIndex
  <1>4. CASE LivePos = DOMAIN index
    <2> DEFINE n == Len(index)
    <2>0. index \in Seq(Entry)
      BY DEF TypeInv, TypeOK
    <2>1. n \in Nat /\ DOMAIN index = 1 .. n /\ index \in Seq(Entry) /\ index = [i \in 1 .. n |-> index[i]]
      BY <2>0
    <2> HIDE DEF n
    <2>2. Cardinality(LivePos) = n
      BY <1>4, <2>1, FS_Interval
    <2>3. f \in [1 .. n -> 1 .. n] /\ Ordered(f, 1 .. n)
      BY <1>1, <1>4, <2>1, <2>2
    <2>4. \A i \in 1 .. n : f[i] = i
      BY <2>1, <2>3, OrderedIsIdentity
    <2>5. index' = index
      BY <1>1, <2>1, <2>3, <2>4
    <2>6. save' = save
      BY <1>2, <1>4 DEF CompactIndex
    <2>7. now <= now'
      BY <1>2 DEF TypeInv, TypeOK
    <2> QED
      BY <1>2, <2>5, <2>6, <2>7, DurableUnchanged DEF TypeInv
  <1> QED
    BY <1>3, <1>4

LEMMA DurableMark ==
    ASSUME TypeInv, DurableWhileUp, MarkEntryExpired
    PROVE  DurableWhileUp'
  <1>1. PICK i \in marking.left :
            /\ index' = Marked(i)
            /\ IF marking.left = {i}
               THEN /\ marking' = NotMarking
                    /\ save' = IF marking.by = "purge" THEN "count" ELSE "idle"
               ELSE /\ marking' = [marking EXCEPT !.left = @ \ {i}]
                    /\ UNCHANGED save
    BY DEF MarkEntryExpired
  <1>2. /\ UNCHANGED <<max_index_entries, nvs, now>> /\ chunk' = 1
        /\ save = "idle" /\ CopyIsRecent /\ marking.left \subseteq LivePos
        /\ \A j \in marking.left : Expired(index[j])
    BY DEF MarkEntryExpired, DurableWhileUp, SaveProgress, env, TypeInv, TypeOK
  <1>3. CASE save' = "count"
    BY <1>1, <1>2, <1>3, DurableBeforeSave DEF NotMarking
  <1>4. CASE save' # "count"
    <2>1. save' = "idle"
      BY <1>1, <1>2, <1>4
    <2>2. marking'.left \subseteq marking.left \ {i}
      BY <1>1 DEF NotMarking, TypeInv, TypeOK
    <2>3. /\ Len(index') = Len(index) /\ DOMAIN index' = DOMAIN index
          /\ index'[i] = Flagged(index[i])
          /\ \A j \in DOMAIN index \ {i} : index'[j] = index[j]
      BY <1>1, <1>2, MarkedType DEF TypeInv
    <2>4. \A j \in marking'.left : Expired(index[j])'
      BY <1>2, <2>2, <2>3 DEF Expired, LivePos
    <2>5. CopyIsRecent'
      <3>1. Recovered' = Recovered
        BY <1>2, RecoveredUnchanged
      <3>2. DOMAIN Recovered \subseteq DOMAIN index
        BY <1>2, RecoveredType DEF TypeInv, TypeOK, CopyIsRecent, DurableWhileUp
      <3>3. \A j \in DOMAIN Recovered \ {i} :
                \/ Recovered'[j] = index'[j]
                \/ index'[j] = Flagged(Recovered'[j]) /\ Expired(index[j])'
        BY <1>2, <2>3, <3>1, <3>2 DEF CopyIsRecent, Expired
      <3>4. ASSUME i \in DOMAIN Recovered
            PROVE  index'[i] = Flagged(Recovered'[i]) /\ Expired(index[i])'
        <4>1. ~index[i].deleted /\ Expired(index[i])
          BY <1>2 DEF LivePos
        <4>2. Recovered[i] = index[i] \/ index[i] = Flagged(Recovered[i])
          BY <1>2, <3>4 DEF CopyIsRecent
        <4>3. Flagged(Recovered[i]).deleted = TRUE
          BY DEF Flagged
        <4>4. Recovered[i] = index[i]
          BY <4>1, <4>2, <4>3
        <4>5. index'[i].expires_at = index[i].expires_at
          BY <2>3 DEF Flagged
        <4>6. Expired(index[i])'
          BY <1>2, <4>1, <4>5 DEF Expired
        <4>7. index'[i] = Flagged(Recovered'[i])
          BY <2>3, <3>1, <4>4
        <4> QED
          BY <4>6, <4>7
      <3> QED
        BY <1>2, <2>3, <3>1, <3>3, <3>4 DEF CopyIsRecent, Flagged
    <2> QED
      BY <1>2, <2>1, <2>4, <2>5 DEF DurableWhileUp, SaveProgress
  <1> QED
    BY <1>3, <1>4

LEMMA DurableAppend ==
    ASSUME TypeInv, DurableWhileUp, NEW e \in Events, SaveEvent(e)
    PROVE  DurableWhileUp'
  <1>1. /\ marking' = marking /\ marking.by = "none" /\ marking.left = {}
        /\ save = "idle" /\ CopyIsRecent /\ chunk' = chunk /\ chunk = 1
        /\ UNCHANGED <<max_index_entries, nvs, now>>
    BY DEF SaveEvent, Serving, LockFree, TypeInv, DurableWhileUp, SaveProgress, env
  <1>2. CASE (Len(index) + 1) % SaveEvery = 0
    BY <1>1, <1>2, DurableBeforeSave DEF SaveEvent
  <1>3. CASE (Len(index) + 1) % SaveEvery # 0
    <2>1. save' = "idle"
      BY <1>3 DEF SaveEvent
    <2>2. Recovered' = Recovered
      BY <1>1, RecoveredUnchanged
    <2>3. /\ Len(index) \in Nat /\ DOMAIN index = 1 .. Len(index)
          /\ Len(index') = Len(index) + 1
          /\ \A j \in DOMAIN index : index'[j] = index[j]
      BY DEF SaveEvent, TypeInv, TypeOK
    <2>4. /\ (Len(index) + 1) % SaveEvery = (Len(index) % SaveEvery) + 1
          /\ Len(index) % SaveEvery \in Nat
      <3> DEFINE n == Len(index)
      <3>1. n \in Nat
        BY <2>3
      <3> HIDE DEF n
      <3>2. n % SaveEvery \in 0 .. SaveEvery - 1 /\ ((n + 1) % SaveEvery # 0 => (n + 1) % SaveEvery = (n % SaveEvery) + 1)
        BY <3>1, SinceLastSave
      <3>3. n % SaveEvery \in Nat
        BY <3>2, SizesAssumption
      <3> QED
        BY <1>3, <3>2, <3>3 DEF n
    <2>5. Len(Recovered) \in Nat /\ DOMAIN Recovered = 1 .. Len(Recovered)
      BY RecoveredType DEF TypeInv, DurableWhileUp
    <2>6. \A j \in DOMAIN Recovered :
                \/ Recovered'[j] = index'[j]
                \/ index'[j] = Flagged(Recovered'[j]) /\ Expired(index[j])'
      BY <1>1, <2>2, <2>3, <2>5 DEF CopyIsRecent, Expired
    <2>7. Len(index') - Len(Recovered) <= Len(index') % SaveEvery
      BY <1>1, <2>3, <2>4, <2>5 DEF CopyIsRecent
    <2>8. CopyIsRecent'
      BY <1>1, <2>2, <2>3, <2>5, <2>6, <2>7 DEF CopyIsRecent
    <2> QED
      BY <1>1, <2>1, <2>8 DEF DurableWhileUp, SaveProgress
  <1> QED
    BY <1>2, <1>3

-----------------------------------------------------------------------------
(* The steps of a save *)

LEMMA DurableSave ==
    ASSUME TypeInv, NvsHoldsIndex, DurableWhileUp, SaveIndexToNvs,
           nvs_errors = 0, nvs_errors' = 0
    PROVE  DurableWhileUp'
  <1>1. /\ UNCHANGED <<index, max_index_entries, marking, now>>
        /\ marking.by = "none" /\ marking.left = {}
        /\ max_index_entries \in IndexSizes
    <2>1. save # "idle"
      BY DEF SaveIndexToNvs, SetCount, SetNextIdx, SetBlob, EraseStaleChunk, SaveDone,
             SetBlobNoSpace, SaveFails, EraseFails
    <2>2. UNCHANGED <<index, max_index_entries, marking, now>>
      BY DEF SaveIndexToNvs, SetCount, SetNextIdx, SetBlob, EraseStaleChunk, SaveDone,
             SetBlobNoSpace, SaveFails, EraseFails, engine, env
    <2> QED
      BY <2>1, <2>2 DEF DurableWhileUp, TypeInv
  <1>2. Len(index) \in Nat /\ NumChunks(Len(index)) \in 0 .. MaxChunks
    <2>1. Len(index) \in Nat /\ Len(index) <= max_index_entries
      BY DEF TypeInv, TypeOK
    <2>2. max_index_entries \in Nat /\ max_index_entries <= MaxChunks * ChunkSize
      BY <1>1, SizesAssumption
    <2>3. Len(index) <= MaxChunks * ChunkSize
      BY <2>1, <2>2, ChunkOrder, SizesAssumption
    <2> QED
      BY <2>1, <2>3, NumChunksBound
  <1>3. ASSUME save' # "idle", SaveProgress' PROVE DurableWhileUp'
    BY <1>1, <1>3 DEF DurableWhileUp
  <1>4. CASE SetCount
    BY <1>1, <1>3, <1>4 DEF SetCount, DurableWhileUp, SaveProgress
  <1>5. CASE SetNextIdx
    <2>1. nvs_next' \in Nat /\ chunk' = 1 /\ nvs_count' = Len(index)
      BY <1>5 DEF SetNextIdx, DurableWhileUp, SaveProgress, TypeInv, TypeOK
    <2>2. \A k \in 1 .. NumChunks(Len(index)) : ~(k < 1)
      BY <1>2
    <2> QED
      BY <1>1, <1>3, <1>5, <2>1, <2>2 DEF SetNextIdx, SaveProgress
  <1>6. CASE SetBlob
    <2>1. /\ save' = "chunks" /\ save = "chunks" /\ chunk' = chunk + 1
          /\ nvs_chunks' = [nvs_chunks EXCEPT ![chunk] = IndexChunk(chunk)]
          /\ UNCHANGED <<nvs_count, nvs_next>>
      BY <1>6 DEF SetBlob
    <2>2. nvs_chunks \in [1 .. MaxChunks -> Seq(Entry)] /\ chunk \in 1 .. MaxChunks + 1
      BY DEF TypeInv, TypeOK
    <2>3. \A k \in 1 .. NumChunks(Len(index)) : k < chunk => nvs_chunks[k] = IndexChunk(k)
      BY <2>1 DEF DurableWhileUp, SaveProgress
    <2>4. ASSUME NEW k \in 1 .. NumChunks(Len(index)), k < chunk + 1
          PROVE  nvs_chunks'[k] = IndexChunk(k)
      <3>1. k \in 1 .. MaxChunks
        BY <1>2, SizesAssumption
      <3>2. CASE k = chunk
        BY <2>1, <2>2, <3>1, <3>2
      <3>3. CASE k # chunk
        <4>1. k < chunk
          BY <2>2, <2>4, <3>1, <3>3, SizesAssumption
        <4> QED
          BY <2>1, <2>2, <2>3, <3>1, <3>3, <4>1
      <3> QED
        BY <3>2, <3>3
    <2>5. \A k \in 1 .. NumChunks(Len(index)) : k < chunk + 1 => nvs_chunks'[k] = IndexChunk(k)'
      BY <1>1, <2>4 DEF IndexChunk
    <2> QED
      BY <1>1, <1>3, <2>1, <2>5 DEF DurableWhileUp, SaveProgress
  <1>7. CASE EraseStaleChunk
    <2>1. /\ save' = "chunks" /\ save = "chunks" /\ chunk' = chunk + 1 /\ ChunksWritten
          /\ nvs_chunks' = [nvs_chunks EXCEPT ![chunk] = <<>>]
          /\ UNCHANGED <<nvs_count, nvs_next>>
      BY <1>7 DEF EraseStaleChunk
    <2>2. nvs_chunks \in [1 .. MaxChunks -> Seq(Entry)] /\ chunk \in 1 .. MaxChunks + 1
      BY DEF TypeInv, TypeOK
    <2>3. \A k \in 1 .. NumChunks(Len(index)) : k < chunk => nvs_chunks[k] = IndexChunk(k)
      BY <2>1 DEF DurableWhileUp, SaveProgress
    <2>4. \A k \in 1 .. NumChunks(Len(index)) : k < chunk /\ k \in 1 .. MaxChunks
      BY <1>2, <2>1, <2>2, SizesAssumption DEF ChunksWritten
    <2>5. \A k \in 1 .. NumChunks(Len(index)) : nvs_chunks'[k] = IndexChunk(k)
      BY <2>1, <2>2, <2>3, <2>4
    <2>6. \A k \in 1 .. NumChunks(Len(index)) : nvs_chunks'[k] = IndexChunk(k)'
      BY <1>1, <2>5 DEF IndexChunk
    <2> QED
      BY <1>1, <1>3, <2>1, <2>6 DEF DurableWhileUp, SaveProgress
  <1>8. CASE SaveDone
    <2>1. save' = "idle" /\ save = "chunks" /\ chunk' = 1 /\ ChunksWritten /\ UNCHANGED nvs
      BY <1>8 DEF SaveDone
    <2>2. /\ nvs_count = Len(index) /\ nvs_next \in Nat
          /\ \A k \in 1 .. NumChunks(Len(index)) : k < chunk => nvs_chunks[k] = IndexChunk(k)
      BY <2>1 DEF DurableWhileUp, SaveProgress
    <2>3. \A k \in 1 .. NumChunks(Len(index)) : nvs_chunks[k] = IndexChunk(k)
      BY <1>2, <2>1, <2>2 DEF ChunksWritten, TypeInv, TypeOK
    <2>4. Recovered = index
      BY <1>1, <2>2, <2>3, SavedIsIndex DEF TypeInv
    <2>5. Recovered' = index'
      BY <1>1, <2>1, <2>4, RecoveredUnchanged
    <2>6. Len(index) % SaveEvery \in 0 .. SaveEvery - 1
      BY <1>2, SinceLastSave
    <2>7. Len(index') <= Len(index') /\ Len(index') - Len(index') <= Len(index') % SaveEvery
      BY <1>1, <1>2, <2>6, SizesAssumption
    <2>8. CopyIsRecent'
      BY <2>5, <2>7 DEF CopyIsRecent
    <2> QED
      BY <1>1, <2>1, <2>8 DEF DurableWhileUp, SaveProgress
  <1>9. CASE SetBlobNoSpace
    BY <1>9, BlobAlwaysFits DEF SetBlobNoSpace, TypeInv
  <1>10. CASE SaveFails \/ EraseFails
    BY <1>10 DEF SaveFails, EraseFails
  <1> QED
    BY <1>4, <1>5, <1>6, <1>7, <1>8, <1>9, <1>10 DEF SaveIndexToNvs

-----------------------------------------------------------------------------
(* Boot *)

LEMMA DurableBoot ==
    ASSUME TypeInv, TypeInv', Durable, StorageInit, nvs_errors = 0, nvs_errors' = 0
    PROVE  DurableWhileUp'
  <1>1. /\ UNCHANGED <<marking, save, chunk, nvs>>
        /\ save = "idle" /\ chunk = 1 /\ marking.by = "none" /\ marking.left = {}
    BY DEF StorageInit, Durable, TypeInv, call
  <1>2. PICK m \in IndexSizes :
            /\ max_index_entries' = m
            /\ \/ LoadSucceeds(m) /\ index' = LoadedIndex(m)
               \/ ~LoadSucceeds(m) /\ index' = <<>>
    BY DEF StorageInit, StartFresh
  <1>3. Recovered' = index'
    <2>1. LoadSucceeds(m)' <=> LoadSucceeds(m)
      BY <1>1 DEF LoadSucceeds, LoadCount, nvs
    <2>2. LoadedIndex(m)' = LoadedIndex(m)
      BY <1>1 DEF LoadedIndex, LoadCount, nvs
    <2>3. Recovered' = IF LoadSucceeds(m)' THEN LoadedIndex(m)' ELSE <<>>
      BY <1>2 DEF Recovered, LoadSucceeds, LoadedIndex, LoadCount
    <2> QED
      BY <1>2, <2>1, <2>2, <2>3
  <1>4. Len(index') \in Nat
    BY DEF TypeInv, TypeOK
  <1>5. PICK n \in Nat : n = Len(index')
    BY <1>4
  <1>6. n % SaveEvery \in 0 .. SaveEvery - 1
    BY SinceLastSave
  <1>7. CopyIsRecent'
    BY <1>3, <1>5, <1>6, SizesAssumption DEF CopyIsRecent
  <1> QED
    BY <1>1, <1>2, <1>7 DEF DurableWhileUp, SaveProgress

-----------------------------------------------------------------------------
(* The invariant *)

(* A relay that is off is only switched on. *)
LEMMA OffSteps ==
    ASSUME TypeInv, Durable, Next, relay = "off"
    PROVE  StorageInit \/ Tick
  <1>1. save = "idle" /\ cleanup = "none" /\ marking.by = "none"
    BY DEF Durable, TypeInv
  <1> QED
    BY <1>1
    DEF Next, Client, SaveEvent, SaveEventShortWrite, DeleteEvent, QueryEvents, Serving,
        Cleanup, PurgeExpired, CompactIndex, CleanupExit, MarkEntryExpired,
        SaveIndexToNvs, SetCount, SetNextIdx, SetBlob, EraseStaleChunk, SaveDone,
        SetBlobNoSpace, SaveFails, EraseFails, Lifecycle, StartCleanupTask,
        StartServing, StartFails, DestroySaves, DestroyDone, PowerLoss

(* The errors are only counted up. *)
LEMMA ErrorsGrow ==
    ASSUME TypeInv, Next, nvs_errors' = 0
    PROVE  nvs_errors = 0
  <1>1. nvs_errors' \in {nvs_errors, nvs_errors + 1} /\ nvs_errors \in Nat
    BY DEF Next, Client, SaveEvent, SaveEventShortWrite, DeleteEvent, QueryEvents,
        Cleanup, PurgeExpired, CompactIndex, CleanupExit, MarkEntryExpired,
        SaveIndexToNvs, SetCount, SetNextIdx, SetBlob, EraseStaleChunk, SaveDone,
        SetBlobNoSpace, SaveFails, EraseFails, Lifecycle, StorageInit, StartCleanupTask,
        StartServing, StartFails, DestroySaves, DestroyDone, PowerLoss, Tick, env, TypeInv, TypeOK
  <1> QED
    BY <1>1

LEMMA DurableStep == TypeInv /\ TypeInv' /\ NvsHoldsIndex /\ Durable /\ [Next]_vars => Durable'
  <1> SUFFICES ASSUME TypeInv, TypeInv', NvsHoldsIndex, Durable, Next PROVE Durable'
    <2>1. Durable /\ UNCHANGED vars => Durable'
      BY RecoveredUnchanged
      DEF Durable, DurableWhileUp, SaveProgress, CopyIsRecent, Up, Expired, IndexChunk,
          vars, engine, tasks, call, nvs, env
    <2> QED
      BY <2>1
  <1>1. relay' = "off" => save' = "idle" /\ chunk' = 1 /\ cleanup' = "none"
    <2>1. CASE relay = "off"
      BY <2>1, OffSteps DEF StorageInit, Tick, tasks, call, Durable
    <2>2. CASE relay # "off"
      <3>1. relay' = "off" => DestroyDone \/ PowerLoss
        BY <2>2
        DEF Next, Client, SaveEvent, SaveEventShortWrite, DeleteEvent, QueryEvents,
            Cleanup, PurgeExpired, CompactIndex, CleanupExit, MarkEntryExpired,
            SaveIndexToNvs, SetCount, SetNextIdx, SetBlob, EraseStaleChunk, SaveDone,
            SetBlobNoSpace, SaveFails, EraseFails, Lifecycle, StorageInit,
            StartCleanupTask, StartServing, StartFails, DestroySaves, Tick, tasks
      <3> QED
        BY <3>1 DEF DestroyDone, PowerLoss, ForgetRam
    <2> QED
      BY <2>1, <2>2
  <1>2. ASSUME Up', nvs_errors' = 0 PROVE DurableWhileUp'
    <2>1. nvs_errors = 0
      BY <1>2, ErrorsGrow
    <2>2. CASE StorageInit
      BY <1>2, <2>1, <2>2, DurableBoot
    <2>3. CASE ~StorageInit
      <3>1. relay # "off"
        BY <1>2, <2>3, OffSteps DEF Tick, tasks, Up
      <3>2. Up /\ DurableWhileUp
        <4>1. Up
          BY <1>2, <2>3, <3>1
          DEF Next, Client, SaveEvent, SaveEventShortWrite, DeleteEvent, QueryEvents, Serving,
              Cleanup, PurgeExpired, CompactIndex, CleanupExit, MarkEntryExpired,
              SaveIndexToNvs, SetCount, SetNextIdx, SetBlob, EraseStaleChunk, SaveDone,
              SetBlobNoSpace, SaveFails, EraseFails, Lifecycle, StartCleanupTask, StartServing,
              StartFails, DestroySaves, DestroyDone, PowerLoss, ForgetRam, Tick, tasks, Up
        <4> QED
          BY <2>1, <4>1 DEF Durable
      <3>3. \A i \in marking.left : Expired(index[i])
        BY <3>2 DEF DurableWhileUp
      <3>4. TypeOK /\ TypeOK' /\ now \in Nat
        BY DEF TypeInv, TypeOK
      <3>5. ASSUME NEW e \in Events, SaveEvent(e) PROVE DurableWhileUp'
        BY <3>2, <3>5, DurableAppend
      <3>6. ASSUME NEW e \in Events, DeleteEvent(e) PROVE DurableWhileUp'
        <4>1. /\ marking'.by = "none" /\ marking'.left = {} /\ save' = "count" /\ chunk' = 1
              /\ UNCHANGED max_index_entries
          BY <3>2, <3>6 DEF DeleteEvent, Serving, LockFree, TypeInv, DurableWhileUp, SaveProgress
        <4> QED
          BY <3>2, <4>1, DurableBeforeSave
      <3>7. CASE CompactIndex
        BY <3>2, <3>7, DurableCompact
      <3>8. CASE MarkEntryExpired
        BY <3>2, <3>8, DurableMark
      <3>9. CASE SaveIndexToNvs
        BY <1>2, <2>1, <3>2, <3>9, DurableSave
      <3>10. CASE \/ \E e \in Events : SaveEventShortWrite(e)
                  \/ CleanupExit \/ StartCleanupTask \/ StartServing \/ Tick
        <4>1. UNCHANGED <<index, max_index_entries, nvs, save, chunk, marking>> /\ now <= now'
          BY <3>4, <3>10
          DEF SaveEventShortWrite, CleanupExit, StartCleanupTask, StartServing, Tick, engine, call, env
        <4>2. /\ marking'.by # "none" => save = "idle"
              /\ \A i \in marking'.left : Expired(index[i])
          BY <3>2, <4>1 DEF DurableWhileUp
        <4> QED
          BY <3>2, <3>4, <4>1, <4>2, DurableUnchanged
      <3>11. CASE \/ \E filter \in SUBSET Events, limit \in QueryLimits : QueryEvents(filter, limit)
                  \/ PurgeExpired
        <4>1. UNCHANGED <<index, max_index_entries, nvs, save, chunk>> /\ now <= now' /\ save = "idle"
          BY <3>4, <3>11 DEF QueryEvents, PurgeExpired, Serving, LockFree, engine, env
        <4>2. \A i \in marking'.left : Expired(index[i])
          BY <3>11 DEF QueryEvents, PurgeExpired, ExpiredPos, NotMarking
        <4> QED
          BY <3>2, <3>4, <4>1, <4>2, DurableUnchanged
      <3>12. CASE StartFails \/ DestroySaves \/ DestroyDone \/ PowerLoss
        BY <1>2, <3>12 DEF StartFails, DestroySaves, DestroyDone, PowerLoss, ForgetRam, Up
      <3> QED
        BY <2>3, <3>5, <3>6, <3>7, <3>8, <3>9, <3>10, <3>11, <3>12
        DEF Next, Client, Cleanup, Lifecycle
    <2> QED
      BY <2>2, <2>3
  <1> QED
    BY <1>1, <1>2 DEF Durable

(* An NVS partition that holds every chunk bounds what a power loss costs: *)
(* whenever no call runs and no NVS write has failed, the next boot loads  *)
(* the index but for its last entries, fewer than SaveEvery, after any     *)
(* number of earlier power losses at any point of a save.                  *)
THEOREM QuiescentLossBoundedThm ==
    ASSUME NvsHoldsIndex
    PROVE  Spec => []QuiescentLossBounded
  <1>1. Init => Durable
    BY DEF Init, Durable, Up
  <1>2. TypeInv /\ Durable => QuiescentLossBounded
    <2> SUFFICES ASSUME TypeInv, Durable, relay = "serving", LockFree, nvs_errors = 0
                 PROVE  /\ Len(Recovered) \in (Len(index) - SaveEvery) + 1 .. Len(index)
                        /\ \A i \in DOMAIN Recovered :
                              \/ Recovered[i] = index[i]
                              \/ index[i] = Flagged(Recovered[i]) /\ Expired(index[i])
      BY DEF QuiescentLossBounded
    <2>1. CopyIsRecent /\ max_index_entries \in IndexSizes
      BY DEF Durable, DurableWhileUp, Up, LockFree
    <2>2. Len(index) \in Nat /\ Len(Recovered) \in Nat
      BY <2>1, RecoveredType DEF TypeInv, TypeOK
    <2>3. PICK n \in Nat : n = Len(index)
      BY <2>2
    <2>4. n % SaveEvery \in 0 .. SaveEvery - 1
      BY SinceLastSave
    <2>5. Len(Recovered) <= n /\ n - Len(Recovered) <= n % SaveEvery
      BY <2>1, <2>3 DEF CopyIsRecent
    <2>6. Len(Recovered) \in (n - SaveEvery) + 1 .. n
      BY <2>2, <2>4, <2>5, SizesAssumption
    <2> QED
      BY <2>1, <2>3, <2>6 DEF CopyIsRecent
  <1>3. Spec => []TypeInv
    BY TypeInit, TypeStep, PTL DEF Spec
  <1>4. TypeInv /\ TypeInv' /\ Durable /\ [Next]_vars => Durable'
    BY DurableStep
  <1> QED
    BY <1>1, <1>2, <1>3, <1>4, PTL DEF Spec

=============================================================================
