------------------------ MODULE StorageEngineProofs ------------------------
(***************************************************************************)
(* Proofs about StorageEngine, for every set of events, every size of the  *)
(* index and of its chunks, and any number of power losses and NVS errors. *)
(***************************************************************************)
EXTENDS StorageEngine, FiniteSetTheorems, SequenceTheorems, TLAPS

-----------------------------------------------------------------------------
(* Arithmetic of the chunks *)

(* What quotient and remainder are, for a positive divisor. *)
LEMMA DivMod ==
    ASSUME NEW a \in Nat, NEW b \in Nat \ {0}
    PROVE  /\ a \div b \in Nat
           /\ a % b \in Nat
           /\ a % b < b
           /\ a = b * (a \div b) + (a % b)
  BY Z3

LEMMA NumChunksType ==
    ASSUME NEW n \in Nat
    PROVE  /\ NumChunks(n) \in Nat
           /\ n <= NumChunks(n) * ChunkSize
           /\ NumChunks(n) * ChunkSize < n + ChunkSize
  BY SizesAssumption, DivMod, n + ChunkSize - 1 \in Nat, Z3 DEF NumChunks

(* Multiplication by the chunk size keeps and reflects the order. *)
LEMMA ChunkOrder ==
    ASSUME NEW x \in Int, NEW y \in Int
    PROVE  /\ x <= y => x * ChunkSize <= y * ChunkSize
           /\ x * ChunkSize < y * ChunkSize => x < y
           /\ (x - 1) * ChunkSize = x * ChunkSize - ChunkSize
           /\ (x + 1) * ChunkSize = x * ChunkSize + ChunkSize
           /\ x * ChunkSize \in Int
  BY SizesAssumption, Z3

(* An index that fits the array needs no more keys than there are. *)
LEMMA NumChunksBound ==
    ASSUME NEW n \in Nat, n <= MaxChunks * ChunkSize
    PROVE  NumChunks(n) \in 0 .. MaxChunks
  <1>1. NumChunks(n) * ChunkSize < (MaxChunks + 1) * ChunkSize
    BY NumChunksType, ChunkOrder, SizesAssumption, SMTT(30)
  <1>2. NumChunks(n) < MaxChunks + 1
    BY <1>1, NumChunksType, ChunkOrder, SizesAssumption, MaxChunks + 1 \in Int
  <1> QED
    BY <1>2, NumChunksType, SizesAssumption

(* The entries of a chunk are entries of the index. *)
LEMMA ChunkWithinIndex ==
    ASSUME NEW n \in Nat, NEW k \in 1 .. NumChunks(n)
    PROVE  /\ ChunkLen(n, k) \in 1 .. ChunkSize
           /\ (k - 1) * ChunkSize \in Nat
           /\ (k - 1) * ChunkSize + ChunkLen(n, k) <= n
  <1>1. k * ChunkSize <= NumChunks(n) * ChunkSize
    BY NumChunksType, ChunkOrder
  <1>2. k * ChunkSize < n + ChunkSize
    BY <1>1, NumChunksType, ChunkOrder, SizesAssumption
  <1>3. (k - 1) * ChunkSize = k * ChunkSize - ChunkSize /\ k * ChunkSize \in Int
    BY ChunkOrder
  <1>4. 0 * ChunkSize <= (k - 1) * ChunkSize /\ 0 * ChunkSize = 0
    BY ChunkOrder, SizesAssumption
  <1> QED
    BY <1>2, <1>3, <1>4, SizesAssumption DEF ChunkLen

(* The place load_index_from_nvs reads an entry from lies in its chunk. *)
LEMMA EntryWithinChunk ==
    ASSUME NEW n \in Nat, NEW i \in 1 .. n
    PROVE  /\ ((i - 1) \div ChunkSize) + 1 \in 1 .. NumChunks(n)
           /\ ((i - 1) % ChunkSize) + 1 \in 1 .. ChunkLen(n, ((i - 1) \div ChunkSize) + 1)
  <1> DEFINE q == (i - 1) \div ChunkSize
             r == (i - 1) % ChunkSize
  <1>1. /\ q \in Nat /\ r \in Nat /\ r < ChunkSize
        /\ i - 1 = ChunkSize * q + r
    BY DivMod, SizesAssumption, i - 1 \in Nat
  <1>2. ChunkSize * q = q * ChunkSize
    BY <1>1, SizesAssumption
  <1>3. q * ChunkSize < NumChunks(n) * ChunkSize
    BY <1>1, <1>2, NumChunksType, ChunkOrder, SizesAssumption
  <1>4. q < NumChunks(n)
    BY <1>1, <1>3, NumChunksType, ChunkOrder
  <1>5. (q + 1) * ChunkSize = q * ChunkSize + ChunkSize /\ q * ChunkSize \in Int
    BY <1>1, ChunkOrder
  <1> HIDE DEF q, r
  <1>6. r + 1 \in 1 .. ChunkLen(n, q + 1)
    <2>1. CASE (q + 1) * ChunkSize <= n
      BY <2>1, <1>1, SizesAssumption DEF ChunkLen
    <2>2. CASE ~((q + 1) * ChunkSize <= n)
      <3>1. ChunkLen(n, q + 1) = n - q * ChunkSize
        BY <2>2, <1>1 DEF ChunkLen
      <3> QED
        BY <3>1, <1>1, <1>2, <1>5, SizesAssumption
    <2> QED
      BY <2>1, <2>2
  <1> QED
    BY <1>1, <1>4, <1>6, NumChunksType DEF q, r

-----------------------------------------------------------------------------
(* Type correctness *)

(* What the type invariant needs to be inductive: a scan that is not       *)
(* running has nothing left, a sleeping cleanup task has not reached the   *)
(* cycle that compacts, and no scan runs in a relay that is off.           *)
TypeInv ==
    /\ TypeOK
    /\ marking.by = "none" => marking.left = {}
    /\ cleanup = "sleep" => cycles < CompactEvery
    /\ relay = "off" => marking.by = "none"

LEMMA TypeInit == Init => TypeInv
  BY SizesAssumption DEF Init, TypeInv, TypeOK, NotMarking, LivePos

LEMMA TypeSave == TypeInv /\ SaveIndexToNvs => TypeInv'
  <1> SUFFICES ASSUME TypeInv, SaveIndexToNvs PROVE TypeInv'
    OBVIOUS
  <1> USE DEF TypeInv, TypeOK, engine, tasks, env, nvs, LivePos
  <1>0. Len(index) \in Nat /\ NumChunks(Len(index)) \in 0 .. MaxChunks
    <2>1. 0 <= MaxChunks * ChunkSize /\ MaxChunks * ChunkSize \in Int
      BY SizesAssumption, ChunkOrder, 0 * ChunkSize = 0
    <2>2. max_index_entries \in Nat /\ max_index_entries <= MaxChunks * ChunkSize
      BY <2>1, SizesAssumption
    <2>3. Len(index) <= MaxChunks * ChunkSize
      BY <2>1, <2>2
    <2> QED
      BY <2>3, NumChunksBound
  <1>1. CASE SetCount
    BY <1>1 DEF SetCount
  <1>2. CASE SetNextIdx
    BY <1>2 DEF SetNextIdx
  <1>3. CASE SetBlob
    <2>1. chunk \in 1 .. NumChunks(Len(index))
      BY <1>0, <1>3 DEF SetBlob, ChunksWritten
    <2>2. IndexChunk(chunk) \in Seq(Entry)
      <3> DEFINE n == ChunkLen(Len(index), chunk)
                 base == (chunk - 1) * ChunkSize
      <3>1. n \in Nat /\ base \in Nat /\ base + n <= Len(index)
        BY <1>0, <2>1, ChunkWithinIndex
      <3> HIDE DEF n, base
      <3>2. \A j \in 1 .. n : index[base + j] \in Entry
        BY <1>0, <3>1
      <3>3. [j \in 1 .. n |-> index[base + j]] \in Seq(Entry)
        BY <3>1, <3>2
      <3> QED
        BY <3>3 DEF IndexChunk, n, base
    <2>3. chunk' \in 1 .. MaxChunks + 1
      BY <1>0, <1>3, <2>1, SizesAssumption DEF SetBlob
    <2> QED
      BY <1>3, <2>2, <2>3 DEF SetBlob
  <1>4. CASE EraseStaleChunk
    BY <1>4, SizesAssumption DEF EraseStaleChunk, StaleChunk
  <1>5. CASE SaveDone
    BY <1>5, SizesAssumption DEF SaveDone
  <1>6. CASE SetBlobNoSpace
    BY <1>6, SizesAssumption DEF SetBlobNoSpace
  <1>7. CASE SaveFails
    BY <1>7, SizesAssumption DEF SaveFails
  <1>8. CASE EraseFails
    BY <1>8, SizesAssumption DEF EraseFails, StaleChunk
  <1> QED
    BY <1>1, <1>2, <1>3, <1>4, <1>5, <1>6, <1>7, <1>8 DEF SaveIndexToNvs

(* Flagging an entry changes nothing else of the index. *)
LEMMA MarkedType ==
    ASSUME TypeOK, NEW i \in LivePos
    PROVE  /\ Marked(i) \in Seq(Entry)
           /\ Len(Marked(i)) = Len(index)
           /\ DOMAIN Marked(i) = DOMAIN index
           /\ Marked(i)[i] = Flagged(index[i])
           /\ \A j \in DOMAIN index \ {i} : Marked(i)[j] = index[j]
  <1>1. i \in DOMAIN index /\ index \in Seq(Entry)
    BY DEF TypeOK, LivePos
  <1>2. index[i] \in Entry
    BY <1>1
  <1>3. Flagged(index[i]) \in Entry
    BY <1>2 DEF Flagged, Entry
  <1> QED
    BY <1>1, <1>3 DEF Marked

LEMMA TypeClient == TypeInv /\ Client => TypeInv'
  <1> SUFFICES ASSUME TypeInv, Client PROVE TypeInv'
    OBVIOUS
  <1> USE DEF TypeInv, TypeOK, engine, tasks, call, env, nvs, LivePos
  <1>1. ASSUME NEW e \in Events, SaveEvent(e) PROVE TypeInv'
    <2>1. ExpiresAt(e) \in Nat
      BY TimeAssumption, DivMod DEF ExpiresAt
    <2>2. NewEntry(e) \in Entry /\ Path(NewEntry(e)) \in Events \X Nat
      BY <2>1 DEF NewEntry, Entry, Path
    <2>3. Len(index) < max_index_entries
      BY <1>1, SizesAssumption DEF SaveEvent, SaveResult
    <2>4. /\ index' \in Seq(Entry)
          /\ Len(index') = Len(index) + 1
          /\ marking' = marking /\ marking.left = {}
      BY <1>1, <2>2 DEF SaveEvent, Serving, LockFree
    <2> QED
      BY <1>1, <2>2, <2>3, <2>4, SizesAssumption, SMTT(30) DEF SaveEvent, Serving
  <1>2. ASSUME NEW e \in Events, SaveEventShortWrite(e) PROVE TypeInv'
    BY <1>2 DEF SaveEventShortWrite
  <1>3. ASSUME NEW e \in Events, DeleteEvent(e) PROVE TypeInv'
    <2>1. PICK i \in LivePos : index' = Marked(i) /\ files' = files \ {Path(index[i])}
      BY <1>3 DEF DeleteEvent
    <2>2. index' \in Seq(Entry) /\ Len(index') = Len(index)
      BY <2>1, MarkedType
    <2> QED
      BY <1>3, <2>1, <2>2 DEF DeleteEvent, Serving, LockFree
  <1>4. ASSUME NEW filter \in SUBSET Events, NEW limit \in QueryLimits,
               QueryEvents(filter, limit)
        PROVE  TypeInv'
    BY <1>4 DEF QueryEvents, Serving, ExpiredPos, NotMarking
  <1> QED
    BY <1>1, <1>2, <1>3, <1>4 DEF Client

(* The live positions are finitely many, no more than the entries. *)
LEMMA LiveCount ==
    ASSUME TypeOK
    PROVE  /\ IsFiniteSet(LivePos)
           /\ Cardinality(LivePos) \in 0 .. Len(index)
  <1>1. Len(index) \in Nat /\ DOMAIN index = 1 .. Len(index)
    BY DEF TypeOK
  <1> DEFINE n == Len(index)
  <1> HIDE DEF n
  <1>2. n \in Int /\ 1 \in Int
    BY <1>1 DEF n
  <1>3. IsFiniteSet(1 .. n) /\ Cardinality(1 .. n) = IF 1 > n THEN 0 ELSE n - 1 + 1
    BY <1>2, FS_Interval, Zenon
  <1>4. LivePos \in SUBSET (1 .. n)
    BY <1>1 DEF LivePos, n
  <1>5. IsFiniteSet(LivePos) /\ Cardinality(LivePos) <= Cardinality(1 .. n)
    BY <1>3, <1>4, FS_Subset, Zenon
  <1>6. Cardinality(LivePos) \in Nat
    BY <1>5, FS_CardinalityType, Zenon
  <1> QED
    BY <1>1, <1>3, <1>5, <1>6 DEF n

LEMMA TypeCleanup == TypeInv /\ Cleanup => TypeInv'
  <1> SUFFICES ASSUME TypeInv, Cleanup PROVE TypeInv'
    OBVIOUS
  <1>1. CASE PurgeExpired
    BY <1>1, SizesAssumption
    DEF PurgeExpired, TypeInv, TypeOK, ExpiredPos, NotMarking, engine, nvs, env, LivePos
  <1>2. CASE CompactIndex
    <2>1. PICK f \in [1 .. Cardinality(LivePos) -> LivePos] :
                index' = [i \in DOMAIN f |-> index[f[i]]]
      BY <1>2 DEF CompactIndex
    <2>2. Cardinality(LivePos) \in 0 .. Len(index)
      BY LiveCount DEF TypeInv
    <2>3. \A i \in 1 .. Cardinality(LivePos) : index[f[i]] \in Entry
      BY <2>1 DEF TypeInv, TypeOK, LivePos
    <2>4. index' \in Seq(Entry) /\ Len(index') = Cardinality(LivePos)
      BY <2>1, <2>2, <2>3
    <2>5. marking' = marking /\ marking.left = {}
      BY <1>2 DEF CompactIndex, LockFree, TypeInv
    <2> QED
      BY <1>2, <2>2, <2>4, <2>5, SizesAssumption
      DEF CompactIndex, TypeInv, TypeOK, nvs, env
  <1>3. CASE CleanupExit
    BY <1>3 DEF CleanupExit, TypeInv, TypeOK, engine, call, nvs, env, LivePos
  <1> QED
    BY <1>1, <1>2, <1>3 DEF Cleanup

LEMMA TypeMark == TypeInv /\ MarkEntryExpired => TypeInv'
  <1> SUFFICES ASSUME TypeInv, MarkEntryExpired PROVE TypeInv'
    OBVIOUS
  <1>1. PICK i \in marking.left :
            /\ files' = files \ {Path(index[i])}
            /\ index' = Marked(i)
            /\ IF marking.left = {i}
               THEN /\ marking' = NotMarking
                    /\ save' = IF marking.by = "purge" THEN "count" ELSE "idle"
               ELSE /\ marking' = [marking EXCEPT !.left = @ \ {i}]
                    /\ UNCHANGED save
    BY DEF MarkEntryExpired
  <1>2. i \in LivePos /\ marking.left \subseteq LivePos
    BY DEF TypeInv, TypeOK
  <1>3. index' \in Seq(Entry) /\ Len(index') = Len(index)
    BY <1>1, <1>2, MarkedType DEF TypeInv
  <1>4. LivePos \ {i} \subseteq LivePos'
    BY <1>1, <1>2, MarkedType DEF LivePos, TypeInv
  <1>5. marking' \in [by: {"none", "purge", "query"}, left: SUBSET LivePos']
    BY <1>1, <1>2, <1>4 DEF NotMarking, TypeInv, TypeOK
  <1>6. marking'.by = "none" => marking'.left = {}
    BY <1>1 DEF NotMarking, MarkEntryExpired, TypeInv, TypeOK
  <1> QED
    BY <1>1, <1>3, <1>5, <1>6
    DEF MarkEntryExpired, TypeInv, TypeOK, tasks, nvs, env

(* What load_index_from_nvs accepts is an index that fits the array. *)
LEMMA LoadedType ==
    ASSUME TypeOK, NEW m \in IndexSizes, LoadSucceeds(m)
    PROVE  /\ LoadedIndex(m) \in Seq(Entry)
           /\ Len(LoadedIndex(m)) <= m
  <1> DEFINE n == LoadCount(m)
             q(i) == ((i - 1) \div ChunkSize) + 1
             r(i) == ((i - 1) % ChunkSize) + 1
  <1>1. m \in Nat /\ m <= MaxChunks * ChunkSize
    BY SizesAssumption
  <1>2. n \in Nat /\ n <= m
    BY <1>1 DEF TypeOK, LoadSucceeds, LoadCount
  <1>3. NumChunks(n) \in 0 .. MaxChunks
    <2>1. n <= MaxChunks * ChunkSize
      BY <1>1, <1>2, ChunkOrder, SizesAssumption
    <2> QED
      BY <1>2, <2>1, NumChunksBound
  <1>4. ASSUME NEW i \in 1 .. n PROVE nvs_chunks[q(i)][r(i)] \in Entry
    <2>1. q(i) \in 1 .. NumChunks(n) /\ r(i) \in 1 .. ChunkLen(n, q(i))
      BY <1>2, EntryWithinChunk
    <2> HIDE DEF q, r
    <2>2. Len(nvs_chunks[q(i)]) = ChunkLen(n, q(i))
      BY <2>1 DEF LoadSucceeds
    <2>3. nvs_chunks[q(i)] \in Seq(Entry)
      BY <1>3, <2>1, SizesAssumption DEF TypeOK
    <2> QED
      BY <2>1, <2>2, <2>3
  <1> HIDE DEF n, q, r
  <1>5. [i \in 1 .. n |-> nvs_chunks[q(i)][r(i)]] \in Seq(Entry)
    BY <1>2, <1>4
  <1>6. LoadedIndex(m) = [i \in 1 .. n |-> nvs_chunks[q(i)][r(i)]]
    BY DEF LoadedIndex, n, q, r
  <1> QED
    BY <1>1, <1>2, <1>5, <1>6

LEMMA TypeLifecycle == TypeInv /\ (Lifecycle \/ PowerLoss \/ Tick) => TypeInv'
  <1> SUFFICES ASSUME TypeInv, Lifecycle \/ PowerLoss \/ Tick PROVE TypeInv'
    OBVIOUS
  <1>1. CASE StorageInit
    <2>1. PICK m \in IndexSizes :
            /\ max_index_entries' = m
            /\ \/ /\ LoadSucceeds(m)
                  /\ index' = LoadedIndex(m)
                  /\ next_file_index' = nvs_next
                  /\ UNCHANGED nvs_errors
               \/ StartFresh /\ nvs_errors' \in {nvs_errors, nvs_errors + 1}
      BY <1>1 DEF StorageInit
    <2>2. index' \in Seq(Entry) /\ Len(index') <= m
      <3>1. CASE LoadSucceeds(m) /\ index' = LoadedIndex(m)
        BY <3>1, LoadedType DEF TypeInv
      <3>2. CASE StartFresh
        BY <3>2, SizesAssumption DEF StartFresh
      <3> QED
        BY <2>1, <3>1, <3>2
    <2>3. next_file_index' \in Nat
      BY <2>1 DEF StartFresh, LoadSucceeds, TypeInv, TypeOK
    <2>4. marking' = marking /\ marking.left = {}
      BY <1>1 DEF StorageInit, call, TypeInv
    <2> QED
      BY <1>1, <2>1, <2>2, <2>3, <2>4 DEF StorageInit, TypeInv, TypeOK, call, nvs
  <1>2. CASE StartCleanupTask
    BY <1>2, SizesAssumption DEF StartCleanupTask, TypeInv, TypeOK, engine, call, nvs, env, LivePos
  <1>3. CASE StartServing
    BY <1>3 DEF StartServing, TypeInv, TypeOK, engine, call, nvs, env, LivePos
  <1>4. CASE StartFails
    BY <1>4 DEF StartFails, TypeInv, TypeOK, engine, call, nvs, env, LivePos
  <1>5. CASE DestroySaves
    BY <1>5 DEF DestroySaves, TypeInv, TypeOK, engine, nvs, env, LivePos
  <1>6. CASE DestroyDone
    BY <1>6, SizesAssumption
    DEF DestroyDone, ForgetRam, NotMarking, TypeInv, TypeOK, nvs, env, LivePos
  <1>7. CASE PowerLoss
    BY <1>7, SizesAssumption
    DEF PowerLoss, ForgetRam, NotMarking, TypeInv, TypeOK, nvs, LivePos
  <1>8. CASE Tick
    BY <1>8 DEF Tick, TypeInv, TypeOK, engine, tasks, call, nvs, LivePos
  <1> QED
    BY <1>1, <1>2, <1>3, <1>4, <1>5, <1>6, <1>7, <1>8 DEF Lifecycle

LEMMA TypeStep == TypeInv /\ [Next]_vars => TypeInv'
  <1>1. TypeInv /\ UNCHANGED vars => TypeInv'
    BY DEF TypeInv, TypeOK, LivePos, vars, engine, tasks, call, nvs, env
  <1> QED
    BY <1>1, TypeClient, TypeCleanup, TypeMark, TypeSave, TypeLifecycle DEF Next

(* Every reachable state of the storage engine is well typed: in           *)
(* particular no save, whatever the flash held at boot, appends past the   *)
(* end of the array storage_init allocated.                                *)
THEOREM TypeCorrect == Spec => []TypeOK
  <1>1. Spec => []TypeInv
    BY TypeInit, TypeStep, PTL DEF Spec
  <1>2. TypeInv => TypeOK
    BY DEF TypeInv
  <1> QED
    BY <1>1, <1>2, PTL

-----------------------------------------------------------------------------
(* Agreement of the index and the files *)

(* A step does not add to what the index and the files disagree on. *)
Agreement ==
    /\ UniqueLive'
    /\ Orphans' \subseteq Orphans
    /\ Dangling' \subseteq Dangling

LEMMA AgreementUnchanged ==
    ASSUME UniqueLive, UNCHANGED <<index, files>>
    PROVE  Agreement
  BY DEF Agreement, UniqueLive, Orphans, Dangling, LivePaths, LivePos

(* Flagging a live entry and removing its file: no other live entry leads  *)
(* to that file, since none has the same id.                               *)
LEMMA AgreementMark ==
    ASSUME TypeOK, UniqueLive, NEW i \in LivePos,
           index' = Marked(i), files' = files \ {Path(index[i])}
    PROVE  Agreement
  <1>0. /\ DOMAIN index' = DOMAIN index
        /\ index'[i] = Flagged(index[i])
        /\ \A j \in DOMAIN index \ {i} : index'[j] = index[j]
    BY MarkedType
  <1>1. LivePos' = LivePos \ {i} /\ \A j \in LivePos' : index'[j] = index[j]
    <2>1. index'[i].deleted = TRUE
      BY <1>0 DEF Flagged
    <2> QED
      BY <1>0, <2>1 DEF LivePos
  <1>2. UniqueLive'
    BY <1>1 DEF UniqueLive
  <1>3. \A j \in LivePos' : Path(index[j]) # Path(index[i])
    BY <1>1 DEF UniqueLive, Path
  <1>4. LivePaths' = LivePaths \ {Path(index[i])}
    <2>1. LivePaths' = {Path(index[j]) : j \in LivePos'}
      BY <1>1 DEF LivePaths, Path
    <2> QED
      BY <1>1, <1>3, <2>1 DEF LivePaths
  <1> QED
    BY <1>2, <1>4 DEF Agreement, Orphans, Dangling

LEMMA AgreementSave ==
    ASSUME TypeOK, UniqueLive, NEW e \in Events, SaveEvent(e)
    PROVE  Agreement
  <1>1. /\ index' = Append(index, NewEntry(e))
        /\ files' = files \cup {Path(NewEntry(e))}
        /\ ~EventExists(e)
    BY DEF SaveEvent, SaveResult
  <1> DEFINE n == Len(index) + 1
  <1>2. /\ index \in Seq(Entry) /\ Len(index) \in Nat
        /\ DOMAIN index = 1 .. Len(index)
        /\ DOMAIN index' = 1 .. n
        /\ index'[n] = NewEntry(e)
        /\ \A j \in DOMAIN index : index'[j] = index[j]
    BY <1>1 DEF TypeOK
  <1>3. /\ LivePos' = LivePos \cup {n}
        /\ n \notin LivePos
        /\ \A j \in LivePos : index'[j] = index[j]
    BY <1>2 DEF LivePos, NewEntry
  <1> HIDE DEF n
  <1>4. \A j \in LivePos : index[j].id # index'[n].id
    <2>1. index'[n].id = e
      BY <1>2 DEF NewEntry
    <2> QED
      BY <1>1, <2>1 DEF EventExists
  <1>5. UniqueLive'
    BY <1>3, <1>4 DEF UniqueLive
  <1>6. LivePaths' = LivePaths \cup {Path(NewEntry(e))}
    <2>1. LivePaths' = {Path(index'[j]) : j \in LivePos'}
      BY DEF LivePaths, Path
    <2> QED
      BY <1>2, <1>3, <2>1 DEF LivePaths
  <1> QED
    BY <1>1, <1>5, <1>6 DEF Agreement, Orphans, Dangling

(* A short write removes a file only if no live entry leads to it. *)
LEMMA AgreementShortWrite ==
    ASSUME UniqueLive, NEW e \in Events, SaveEventShortWrite(e)
    PROVE  Agreement
  <1>1. /\ index' = index /\ files' = files \ {Path(NewEntry(e))}
        /\ ~EventExists(e)
    BY DEF SaveEventShortWrite, SaveResult, engine
  <1>2. Path(NewEntry(e)) \notin LivePaths
    BY <1>1 DEF LivePaths, EventExists, Path, NewEntry
  <1>3. UniqueLive' /\ LivePaths' = LivePaths
    BY <1>1 DEF UniqueLive, LivePaths, LivePos
  <1> QED
    BY <1>1, <1>2, <1>3 DEF Agreement, Orphans, Dangling

(* Compaction keeps every live entry and repeats none. *)
LEMMA AgreementCompact ==
    ASSUME TypeInv, UniqueLive, CompactIndex
    PROVE  Agreement
  <1>1. PICK f \in [1 .. Cardinality(LivePos) -> LivePos] :
            Ordered(f, LivePos) /\ index' = [i \in DOMAIN f |-> index[f[i]]]
    BY DEF CompactIndex
  <1> DEFINE n == Cardinality(LivePos)
  <1>2. n \in Nat /\ DOMAIN f = 1 .. n
    BY <1>1, LiveCount DEF TypeInv, TypeOK
  <1> HIDE DEF n
  <1>3. \A i \in 1 .. n : f[i] \in LivePos /\ f[i] \in Nat
    <2>1. LivePos \subseteq Nat
      BY DEF LivePos, TypeInv, TypeOK
    <2> QED
      BY <1>1, <2>1 DEF n
  <1>4. \A i, j \in 1 .. n : f[i] = f[j] => i = j
    BY <1>1, <1>2, <1>3 DEF Ordered
  <1>5. LivePos' = 1 .. n /\ \A i \in 1 .. n : index'[i] = index[f[i]]
    BY <1>1, <1>2, <1>3 DEF LivePos
  <1>6. UniqueLive'
    BY <1>3, <1>4, <1>5 DEF UniqueLive
  <1>7. LivePaths' = LivePaths
    <2>1. LivePaths' = {Path(index[f[i]]) : i \in 1 .. n}
      BY <1>5 DEF LivePaths, Path
    <2>2. \A p \in LivePos : \E i \in 1 .. n : f[i] = p
      BY <1>1, <1>2 DEF Ordered
    <2> QED
      BY <1>3, <2>1, <2>2 DEF LivePaths
  <1>8. files' = files
    BY DEF CompactIndex
  <1> QED
    BY <1>6, <1>7, <1>8 DEF Agreement, Orphans, Dangling

LEMMA AgreementStep ==
    ASSUME TypeInv, UniqueLive, Next, relay # "off", relay' # "off"
    PROVE  Agreement
  <1> USE DEF engine
  <1>1. CASE Client
    <2>1. ASSUME NEW e \in Events, SaveEvent(e) PROVE Agreement
      BY <2>1, AgreementSave DEF TypeInv
    <2>2. ASSUME NEW e \in Events, SaveEventShortWrite(e) PROVE Agreement
      BY <2>2, AgreementShortWrite
    <2>3. ASSUME NEW e \in Events, DeleteEvent(e) PROVE Agreement
      <3>1. PICK i \in LivePos : index' = Marked(i) /\ files' = files \ {Path(index[i])}
        BY <2>3 DEF DeleteEvent
      <3> QED
        BY <3>1, AgreementMark DEF TypeInv
    <2>4. ASSUME NEW filter, NEW limit, QueryEvents(filter, limit) PROVE Agreement
      BY <2>4, AgreementUnchanged DEF QueryEvents
    <2> QED
      BY <1>1, <2>1, <2>2, <2>3, <2>4 DEF Client
  <1>2. CASE Cleanup
    <2>1. CASE PurgeExpired
      BY <2>1, AgreementUnchanged DEF PurgeExpired
    <2>2. CASE CompactIndex
      BY <2>2, AgreementCompact
    <2>3. CASE CleanupExit
      BY <2>3, AgreementUnchanged DEF CleanupExit
    <2> QED
      BY <1>2, <2>1, <2>2, <2>3 DEF Cleanup
  <1>3. CASE MarkEntryExpired
    <2>1. PICK i \in marking.left : index' = Marked(i) /\ files' = files \ {Path(index[i])}
      BY <1>3 DEF MarkEntryExpired
    <2>2. i \in LivePos
      BY DEF TypeInv, TypeOK
    <2> QED
      BY <2>1, <2>2, AgreementMark DEF TypeInv
  <1>4. CASE SaveIndexToNvs
    BY <1>4, AgreementUnchanged
    DEF SaveIndexToNvs, SetCount, SetNextIdx, SetBlob, EraseStaleChunk, SaveDone,
        SetBlobNoSpace, SaveFails, EraseFails
  <1>5. CASE Lifecycle \/ PowerLoss \/ Tick
    BY <1>5, AgreementUnchanged
    DEF Lifecycle, StorageInit, StartCleanupTask, StartServing, StartFails,
        DestroySaves, DestroyDone, ForgetRam, PowerLoss, Tick
  <1> QED
    BY <1>1, <1>2, <1>3, <1>4, <1>5 DEF Next

(* Between two boots no call of either task adds an orphan file, an entry  *)
(* without a file or an event that is named twice, however many power      *)
(* losses and failed NVS writes came before.                               *)
THEOREM CallsKeepAgreementThm == Spec => CallsKeepAgreement
  <1>1. TypeInv /\ [Next]_vars =>
            [relay # "off" /\ relay' # "off" /\ UniqueLive
                => UniqueLive' /\ Orphans' \subseteq Orphans /\ Dangling' \subseteq Dangling]_vars
    BY AgreementStep DEF Agreement
  <1>2. Spec => []TypeInv
    BY TypeInit, TypeStep, PTL DEF Spec
  <1> QED
    BY <1>1, <1>2, PTL DEF Spec, CallsKeepAgreement

(* Before the first power loss there is nothing to recover: as long as no  *)
(* client has been served the index is empty, and so is what NVS holds.    *)
FirstSession ==
    power_losses = 0 =>
        /\ Consistent
        /\ relay # "serving" => index = <<>> /\ nvs_count \in {NoValue, 0}

LEMMA FirstSessionStep == TypeInv /\ FirstSession /\ [Next]_vars => FirstSession'
  <1> SUFFICES ASSUME TypeInv, FirstSession, Next, power_losses' = 0
               PROVE  /\ Consistent'
                      /\ relay' # "serving" => index' = <<>> /\ nvs_count' \in {NoValue, 0}
    <2>1. FirstSession /\ UNCHANGED vars => FirstSession'
      BY DEF FirstSession, Consistent, UniqueLive, Orphans, Dangling, LivePaths, LivePos,
             vars, engine, tasks, nvs, env
    <2> QED
      BY <2>1 DEF FirstSession
  <1>1. power_losses = 0 /\ ~PowerLoss
    <2>1. power_losses' = power_losses \/ PowerLoss
      BY DEF Next, Client, SaveEvent, SaveEventShortWrite, DeleteEvent, QueryEvents,
             Cleanup, PurgeExpired, CompactIndex, CleanupExit, MarkEntryExpired,
             SaveIndexToNvs, SetCount, SetNextIdx, SetBlob, EraseStaleChunk, SaveDone,
             SetBlobNoSpace, SaveFails, EraseFails, Lifecycle, StorageInit,
             StartCleanupTask, StartServing, StartFails, DestroySaves, DestroyDone,
             Tick, env
    <2>2. PowerLoss => power_losses' # 0
      BY DEF PowerLoss, TypeInv, TypeOK
    <2> QED
      BY <2>1, <2>2
  <1>2. CASE relay = "serving"
    <2>1. relay' = "serving"
      BY <1>1, <1>2
      DEF Next, Client, SaveEvent, SaveEventShortWrite, DeleteEvent, QueryEvents,
          Cleanup, PurgeExpired, CompactIndex, CleanupExit, MarkEntryExpired,
          SaveIndexToNvs, SetCount, SetNextIdx, SetBlob, EraseStaleChunk, SaveDone,
          SetBlobNoSpace, SaveFails, EraseFails, Lifecycle, StorageInit,
          StartCleanupTask, StartServing, StartFails, DestroySaves, DestroyDone,
          Tick, tasks
    <2>2. UniqueLive /\ Orphans = {} /\ Dangling = {}
      BY <1>1 DEF FirstSession, Consistent
    <2>3. Agreement
      BY <1>2, <2>1, <2>2, AgreementStep
    <2> QED
      BY <2>1, <2>2, <2>3 DEF Agreement, Consistent
  <1>3. CASE relay # "serving"
    <2>1. index = <<>> /\ nvs_count \in {NoValue, 0} /\ files = {} /\ LivePos = {}
      <3>1. index = <<>> /\ nvs_count \in {NoValue, 0} /\ Orphans = {}
        BY <1>1, <1>3 DEF FirstSession, Consistent
      <3>2. LivePos = {} /\ LivePaths = {}
        BY <3>1 DEF LivePos, LivePaths
      <3> QED
        BY <3>1, <3>2 DEF Orphans
    <2>2. index' = <<>> /\ files' = {} /\ nvs_count' \in {NoValue, 0}
      <3>1. CASE Client
        BY <3>1, <1>3
        DEF Client, SaveEvent, SaveEventShortWrite, DeleteEvent, QueryEvents, Serving
      <3>2. CASE PurgeExpired \/ CleanupExit
        BY <3>2, <2>1 DEF PurgeExpired, CleanupExit, engine, nvs
      <3>3. CASE CompactIndex
        <4>1. PICK f \in [1 .. Cardinality(LivePos) -> LivePos] :
                    index' = [i \in DOMAIN f |-> index[f[i]]]
          BY <3>3 DEF CompactIndex
        <4>2. DOMAIN f = {}
          BY <4>1, <2>1
        <4>3. index' = <<>>
          BY <4>1, <4>2
        <4> QED
          BY <4>3, <3>3, <2>1 DEF CompactIndex, nvs
      <3>4. CASE MarkEntryExpired
        BY <3>4, <2>1 DEF MarkEntryExpired, TypeInv, TypeOK
      <3>5. CASE SaveIndexToNvs
        BY <3>5, <2>1
        DEF SaveIndexToNvs, SetCount, SetNextIdx, SetBlob, EraseStaleChunk, SaveDone,
            SetBlobNoSpace, SaveFails, EraseFails, engine, nvs
      <3>6. CASE StorageInit
        <4>1. PICK m \in IndexSizes :
                (LoadSucceeds(m) /\ index' = LoadedIndex(m)) \/ StartFresh
          BY <3>6 DEF StorageInit
        <4>2. LoadSucceeds(m) => LoadCount(m) = 0
          BY <2>1, SizesAssumption DEF LoadSucceeds, LoadCount
        <4>3. index' = <<>>
          BY <4>1, <4>2 DEF LoadedIndex, StartFresh
        <4> QED
          BY <4>3, <3>6, <2>1 DEF StorageInit, nvs
      <3>7. CASE Lifecycle /\ ~StorageInit
        BY <3>7, <2>1
        DEF Lifecycle, StartCleanupTask, StartServing, StartFails, DestroySaves,
            DestroyDone, ForgetRam, engine, nvs
      <3>8. CASE Tick
        BY <3>8, <2>1 DEF Tick, engine, nvs
      <3> QED
        BY <1>1, <3>1, <3>2, <3>3, <3>4, <3>5, <3>6, <3>7, <3>8 DEF Next, Cleanup
    <2>3. Consistent'
      BY <2>2 DEF Consistent, UniqueLive, Orphans, Dangling, LivePaths, LivePos
    <2> QED
      BY <2>2, <2>3
  <1> QED
    BY <1>2, <1>3

(* On a blank flash, and until the power first fails, every live entry has *)
(* its file, every file its live entry, and no event two: for any          *)
(* interleaving of the server and the cleanup task, and although the       *)
(* results of the NVS writes are ignored.                                  *)
THEOREM ConsistentUntilPowerLossThm == Spec => []ConsistentUntilPowerLoss
  <1>1. Init => FirstSession
    BY DEF Init, FirstSession, Consistent, UniqueLive, Orphans, Dangling, LivePaths, LivePos
  <1>2. Spec => [](TypeInv /\ FirstSession)
    BY <1>1, TypeInit, TypeStep, FirstSessionStep, PTL DEF Spec
  <1>3. FirstSession => ConsistentUntilPowerLoss
    BY DEF FirstSession, ConsistentUntilPowerLoss
  <1> QED
    BY <1>2, <1>3, PTL

-----------------------------------------------------------------------------
(* Refinement *)

(* A step leaves the set of stored events as it is. *)
LEMMA StoredUnchanged ==
    ASSUME index' = index
    PROVE  Stored' = Stored
  BY DEF Stored, LivePos

(* Flagging an entry removes its event, unless it has another entry. *)
LEMMA StoredMark ==
    ASSUME TypeOK, NEW i \in LivePos, index' = Marked(i)
    PROVE  Stored' = Stored \/ (index[i].id \in Stored /\ Stored' = Stored \ {index[i].id})
  <1>1. /\ DOMAIN index' = DOMAIN index
        /\ index'[i] = Flagged(index[i])
        /\ \A j \in DOMAIN index \ {i} : index'[j] = index[j]
    BY MarkedType
  <1>2. index'[i].deleted = TRUE
    BY <1>1 DEF Flagged
  <1>3. LivePos' = LivePos \ {i} /\ \A j \in LivePos' : index'[j] = index[j]
    BY <1>1, <1>2 DEF LivePos
  <1>4. Stored' = {index[j].id : j \in LivePos \ {i}}
    BY <1>3 DEF Stored
  <1> QED
    BY <1>4 DEF Stored

(* Appending an entry adds its event. *)
LEMMA StoredAppend ==
    ASSUME TypeOK, NEW e \in Events, SaveEvent(e)
    PROVE  e \notin Stored /\ Stored' = Stored \cup {e}
  <1>1. index' = Append(index, NewEntry(e)) /\ ~EventExists(e)
    BY DEF SaveEvent, SaveResult
  <1> DEFINE n == Len(index) + 1
  <1>2. /\ DOMAIN index = 1 .. Len(index) /\ Len(index) \in Nat
        /\ DOMAIN index' = 1 .. n
        /\ index'[n] = NewEntry(e)
        /\ \A j \in DOMAIN index : index'[j] = index[j]
    BY <1>1 DEF TypeOK
  <1>3. LivePos' = LivePos \cup {n} /\ \A j \in LivePos : index'[j] = index[j]
    BY <1>2 DEF LivePos, NewEntry
  <1>4. index'[n].id = e
    BY <1>2 DEF NewEntry
  <1> HIDE DEF n
  <1>5. e \notin Stored
    BY <1>1 DEF EventExists, Stored
  <1>6. Stored' = {index'[j].id : j \in LivePos \cup {n}}
    BY <1>3 DEF Stored
  <1> QED
    BY <1>3, <1>4, <1>5, <1>6 DEF Stored

(* Compaction loses no event and makes up none. *)
LEMMA StoredCompact ==
    ASSUME TypeInv, CompactIndex
    PROVE  Stored' = Stored
  <1>1. PICK f \in [1 .. Cardinality(LivePos) -> LivePos] :
            Ordered(f, LivePos) /\ index' = [i \in DOMAIN f |-> index[f[i]]]
    BY DEF CompactIndex
  <1> DEFINE n == Cardinality(LivePos)
  <1>2. DOMAIN f = 1 .. n /\ \A i \in 1 .. n : f[i] \in LivePos
    BY <1>1
  <1> HIDE DEF n
  <1>3. LivePos' = 1 .. n /\ \A i \in 1 .. n : index'[i] = index[f[i]]
    BY <1>1, <1>2 DEF LivePos
  <1>4. \A p \in LivePos : \E i \in 1 .. n : f[i] = p
    BY <1>1, <1>2 DEF Ordered
  <1>5. Stored' = {index'[i].id : i \in 1 .. n}
    BY <1>3 DEF Stored
  <1>6. \A x \in Stored' : x \in Stored
    BY <1>2, <1>3, <1>5 DEF Stored
  <1>7. \A x \in Stored : x \in Stored'
    BY <1>3, <1>4, <1>5 DEF Stored
  <1> QED
    BY <1>6, <1>7

(* What a boot loads names events only. *)
StoredAreEvents == Stored \subseteq Events

LEMMA StoredType == TypeInv => StoredAreEvents
  <1> SUFFICES ASSUME TypeInv, NEW i \in LivePos PROVE index[i].id \in Events
    BY DEF StoredAreEvents, Stored
  <1>1. index[i] \in Entry
    BY DEF TypeInv, TypeOK, LivePos
  <1> QED
    BY <1>1 DEF Entry

LEMMA StoredTypeNext == TypeInv' => StoredAreEvents'
  BY StoredType, PTL

LEMMA StoreStep == TypeInv /\ TypeInv' /\ [Next]_vars => [Store!Next]_(Store!vars)
  <1> SUFFICES ASSUME TypeInv, TypeInv', [Next]_vars PROVE [Store!Next]_(Store!vars)
    OBVIOUS
  <1> USE DEF Store!vars
  <1>1. ASSUME Stored' = Stored, relay # "off", relay' # "off" PROVE UNCHANGED Store!vars
    BY <1>1
  <1>2. ASSUME NEW i \in LivePos, index' = Marked(i), relay # "off", relay' # "off"
        PROVE  [Store!Next]_(Store!vars)
    <2>1. index[i].id \in Events
      BY StoredType DEF StoredAreEvents, Stored
    <2>2. CASE Stored' = Stored
      BY <1>1, <1>2, <2>2
    <2>3. CASE index[i].id \in Stored /\ Stored' = Stored \ {index[i].id}
      BY <1>2, <2>1, <2>3 DEF Store!Next, Store!Delete
    <2> QED
      BY <1>2, <2>2, <2>3, StoredMark DEF TypeInv
  <1>3. CASE Client
    <2>1. relay # "off" /\ relay' # "off"
      BY <1>3 DEF Client, SaveEvent, SaveEventShortWrite, DeleteEvent, QueryEvents, Serving, tasks
    <2>2. ASSUME NEW e \in Events, SaveEvent(e) PROVE [Store!Next]_(Store!vars)
      BY <2>1, <2>2, StoredAppend DEF TypeInv, Store!Next, Store!Save
    <2>3. ASSUME NEW e \in Events, DeleteEvent(e) PROVE [Store!Next]_(Store!vars)
      BY <1>2, <2>1, <2>3 DEF DeleteEvent
    <2>4. CASE index' = index
      BY <1>1, <2>1, <2>4, StoredUnchanged
    <2> QED
      BY <1>3, <2>2, <2>3, <2>4 DEF Client, SaveEventShortWrite, QueryEvents, engine
  <1>4. CASE MarkEntryExpired
    <2>1. PICK i \in marking.left : index' = Marked(i)
      BY <1>4 DEF MarkEntryExpired
    <2>2. i \in LivePos /\ relay # "off" /\ relay' = relay
      BY <1>4 DEF MarkEntryExpired, TypeInv, TypeOK, tasks
    <2> QED
      BY <1>2, <2>1, <2>2
  <1>5. CASE CompactIndex
    <2>1. Stored' = Stored /\ relay' = relay
      BY <1>5, StoredCompact DEF CompactIndex
    <2> QED
      BY <2>1
  <1>6. CASE index' = index /\ relay' = relay
    <2>1. Stored' = Stored
      BY <1>6, StoredUnchanged
    <2> QED
      BY <1>6, <2>1
  <1>7. CASE PurgeExpired \/ CleanupExit \/ SaveIndexToNvs \/ Tick \/ UNCHANGED vars
    BY <1>6, <1>7
    DEF PurgeExpired, CleanupExit, SaveIndexToNvs, SetCount, SetNextIdx, SetBlob, EraseStaleChunk,
        SaveDone, SetBlobNoSpace, SaveFails, EraseFails, Tick, vars, engine, tasks
  <1>8. CASE StorageInit
    <2>1. relay = "off" /\ relay' = "starting"
      BY <1>8 DEF StorageInit
    <2>2. Stored' \in SUBSET Events
      BY StoredTypeNext DEF StoredAreEvents
    <2> QED
      BY <2>1, <2>2 DEF Store!Next, Store!Boot
  <1>9. CASE StartCleanupTask \/ StartServing \/ StartFails \/ DestroySaves
    <2>1. index' = index /\ relay # "off" /\ relay' # "off"
      BY <1>9 DEF StartCleanupTask, StartServing, StartFails, DestroySaves, engine
    <2> QED
      BY <1>1, <2>1, StoredUnchanged
  <1>10. CASE DestroyDone \/ PowerLoss
    <2>1. relay # "off" /\ relay' = "off" /\ index' = <<>>
      BY <1>10 DEF DestroyDone, PowerLoss, ForgetRam
    <2>2. Stored' = {}
      BY <2>1 DEF Stored, LivePos
    <2> QED
      BY <2>1, <2>2 DEF Store!Next, Store!Down
  <1> QED
    BY <1>3, <1>4, <1>5, <1>7, <1>8, <1>9, <1>10 DEF Next, Cleanup, Lifecycle

(* To its callers the engine is a set of events: each step of storage_     *)
(* engine.c, the scans and compaction with them, adds or removes the one   *)
(* event it is about or leaves the set as it is, until the relay stops.    *)
THEOREM ImplementsStoreThm == Spec => ImplementsStore
  <1>1. Init => Store!Init
    BY DEF Init, Store!Init, Stored, LivePos
  <1>2. Spec => []TypeInv
    BY TypeInit, TypeStep, PTL DEF Spec
  <1>3. TypeInv /\ TypeInv' /\ [Next]_vars => [Store!Next]_(Store!vars)
    BY StoreStep
  <1> QED
    BY <1>1, <1>2, <1>3, PTL DEF Spec, ImplementsStore, Store!Spec

-----------------------------------------------------------------------------
(* Events are lost to deletions and to expiry only *)

(* What a scan has still to mark has expired. *)
ScanIsRight == \A i \in marking.left : Expired(index[i])

(* What has expired stays expired. *)
LEMMA ExpiredStays ==
    ASSUME NEW en \in Entry, now \in Nat, now' \in Nat, now <= now', Expired(en)
    PROVE  en.expires_at > 0 /\ en.expires_at < now'
  BY DEF Expired, Entry

LEMMA ScanStep == TypeInv /\ TypeInv' /\ ScanIsRight /\ [Next]_vars => ScanIsRight'
  <1> SUFFICES ASSUME TypeInv, TypeInv', ScanIsRight, [Next]_vars PROVE ScanIsRight'
    OBVIOUS
  <1>1. ASSUME marking'.left = {} PROVE ScanIsRight'
    BY <1>1 DEF ScanIsRight
  <1>2. ASSUME index' = index, now' \in Nat, now <= now', marking'.left \subseteq LivePos,
               \A i \in marking'.left : Expired(index[i])
        PROVE  ScanIsRight'
    <2> SUFFICES ASSUME NEW i \in marking'.left PROVE Expired(index[i])'
      BY DEF ScanIsRight
    <2>1. index[i] \in Entry /\ now \in Nat
      BY <1>2 DEF TypeInv, TypeOK, LivePos
    <2>2. index[i].expires_at > 0 /\ index[i].expires_at < now'
      BY <1>2, <2>1, ExpiredStays
    <2> QED
      BY <1>2, <2>2 DEF Expired
  <1>3. ASSUME index' = index, marking' = marking, now' \in Nat, now <= now'
        PROVE  ScanIsRight'
    BY <1>2, <1>3 DEF ScanIsRight, TypeInv, TypeOK
  <1>4. now \in Nat /\ marking.left \subseteq LivePos /\ (LockFree => marking.left = {})
    BY DEF TypeInv, TypeOK, LockFree
  <1>5. CASE Client
    <2>1. ASSUME NEW e \in Events, SaveEvent(e) \/ SaveEventShortWrite(e) \/ DeleteEvent(e)
          PROVE  ScanIsRight'
      BY <1>1, <1>4, <2>1 DEF SaveEvent, SaveEventShortWrite, DeleteEvent, Serving, call
    <2>2. ASSUME NEW filter \in SUBSET Events, NEW limit \in QueryLimits,
                 QueryEvents(filter, limit)
          PROVE  ScanIsRight'
      <3>1. /\ index' = index /\ now' = now
            /\ \A i \in marking'.left : i \in ExpiredPos
        BY <2>2 DEF QueryEvents, NotMarking, engine, env
      <3> QED
        BY <1>2, <1>4, <3>1 DEF ExpiredPos
    <2> QED
      BY <1>5, <2>1, <2>2 DEF Client
  <1>6. CASE PurgeExpired
    <2>1. /\ index' = index /\ now' = now
          /\ \A i \in marking'.left : i \in ExpiredPos
      BY <1>6 DEF PurgeExpired, NotMarking, engine, env
    <2> QED
      BY <1>2, <1>4, <2>1 DEF ExpiredPos
  <1>7. CASE CompactIndex
    BY <1>1, <1>4, <1>7 DEF CompactIndex
  <1>8. CASE MarkEntryExpired
    <2>1. PICK i \in marking.left :
              /\ index' = Marked(i)
              /\ IF marking.left = {i}
                 THEN marking' = NotMarking
                 ELSE marking' = [marking EXCEPT !.left = @ \ {i}]
      BY <1>8 DEF MarkEntryExpired
    <2>2. marking'.left \subseteq marking.left \ {i}
      BY <2>1 DEF NotMarking, TypeInv, TypeOK
    <2>3. \A j \in DOMAIN index \ {i} : index'[j] = index[j]
      BY <1>4, <2>1, MarkedType DEF TypeInv
    <2>4. now' = now /\ marking.left \subseteq DOMAIN index
      BY <1>4, <1>8 DEF MarkEntryExpired, env, LivePos
    <2> QED
      BY <2>2, <2>3, <2>4 DEF ScanIsRight, Expired
  <1>9. CASE Tick
    BY <1>3, <1>4, <1>9 DEF Tick, engine, call
  <1>10. CASE SaveIndexToNvs
    BY <1>3, <1>4, <1>10
    DEF SaveIndexToNvs, SetCount, SetNextIdx, SetBlob, EraseStaleChunk, SaveDone,
        SetBlobNoSpace, SaveFails, EraseFails, engine, env
  <1>11. CASE CleanupExit \/ StartCleanupTask \/ StartServing \/ StartFails \/ DestroySaves
              \/ UNCHANGED vars
    BY <1>3, <1>4, <1>11
    DEF CleanupExit, StartCleanupTask, StartServing, StartFails, DestroySaves, vars,
        engine, call, env
  <1>12. CASE StorageInit
    <2>1. marking.left = {} /\ marking' = marking
      BY <1>12 DEF StorageInit, TypeInv, call
    <2> QED
      BY <1>1, <2>1
  <1>13. CASE DestroyDone \/ PowerLoss
    BY <1>1, <1>13 DEF DestroyDone, PowerLoss, ForgetRam, NotMarking
  <1> QED
    BY <1>5, <1>6, <1>7, <1>8, <1>9, <1>10, <1>11, <1>12, <1>13 DEF Next, Cleanup, Lifecycle

(* While the relay is off no event is stored. *)
OffIsEmpty == relay = "off" => Stored = {}

LEMMA OffStep == TypeInv /\ OffIsEmpty /\ [Next]_vars => OffIsEmpty'
  <1> SUFFICES ASSUME TypeInv, OffIsEmpty, [Next]_vars, relay' = "off" PROVE Stored' = {}
    BY DEF OffIsEmpty
  <1>1. CASE DestroyDone \/ PowerLoss
    BY <1>1 DEF DestroyDone, PowerLoss, ForgetRam, Stored, LivePos
  <1>2. CASE CompactIndex
    BY <1>2, StoredCompact DEF OffIsEmpty, CompactIndex
  <1>3. CASE index' = index /\ relay' = relay
    BY <1>3, StoredUnchanged DEF OffIsEmpty
  <1>4. CASE Client \/ MarkEntryExpired
    BY <1>4
    DEF Client, SaveEvent, SaveEventShortWrite, DeleteEvent, QueryEvents, Serving, tasks,
        MarkEntryExpired, TypeInv
  <1>5. CASE PurgeExpired \/ CleanupExit \/ SaveIndexToNvs \/ Tick \/ UNCHANGED vars
    BY <1>3, <1>5
    DEF PurgeExpired, CleanupExit, SaveIndexToNvs, SetCount, SetNextIdx, SetBlob, EraseStaleChunk,
        SaveDone, SetBlobNoSpace, SaveFails, EraseFails, Tick, vars, engine, tasks
  <1>6. CASE StorageInit \/ StartCleanupTask \/ StartServing \/ StartFails \/ DestroySaves
    BY <1>6 DEF StorageInit, StartCleanupTask, StartServing, StartFails, DestroySaves
  <1> QED
    BY <1>1, <1>2, <1>4, <1>5, <1>6 DEF Next, Cleanup, Lifecycle

(* Whether a loss is one that may happen. *)
MayBeLost(e) ==
    \/ relay' = "off"
    \/ DeleteEvent(e)
    \/ \E i \in LivePos : index[i].id = e /\ Expired(index[i])

LEMMA UnexpiredStep ==
    TypeInv /\ ScanIsRight /\ OffIsEmpty /\ [Next]_vars => \A e \in Stored \ Stored' : MayBeLost(e)
  <1> SUFFICES ASSUME TypeInv, ScanIsRight, OffIsEmpty, [Next]_vars, NEW e \in Stored, e \notin Stored'
               PROVE  MayBeLost(e)
    OBVIOUS
  <1>1. index' # index
    BY StoredUnchanged
  <1>2. ASSUME NEW d \in Events, SaveEvent(d) PROVE FALSE
    BY <1>2, StoredAppend DEF TypeInv
  <1>3. ASSUME NEW d \in Events, DeleteEvent(d) PROVE MayBeLost(e)
    <2>1. PICK i \in LivePos : FindIndexEntry(d, i) /\ index' = Marked(i)
      BY <1>3 DEF DeleteEvent
    <2>2. e = index[i].id /\ index[i].id = d
      BY <2>1, StoredMark DEF TypeInv, FindIndexEntry
    <2> QED
      BY <1>3, <2>2 DEF MayBeLost
  <1>4. ASSUME MarkEntryExpired PROVE MayBeLost(e)
    <2>1. PICK i \in marking.left : index' = Marked(i)
      BY <1>4 DEF MarkEntryExpired
    <2>2. i \in LivePos /\ Expired(index[i])
      BY DEF TypeInv, TypeOK, ScanIsRight
    <2>3. e = index[i].id
      BY <2>1, <2>2, StoredMark DEF TypeInv
    <2> QED
      BY <2>2, <2>3 DEF MayBeLost
  <1>5. ASSUME CompactIndex PROVE FALSE
    BY <1>5, StoredCompact
  <1>6. ASSUME StorageInit PROVE FALSE
    BY <1>6 DEF StorageInit, OffIsEmpty
  <1>7. ASSUME DestroyDone \/ PowerLoss PROVE MayBeLost(e)
    BY <1>7 DEF DestroyDone, PowerLoss, ForgetRam, MayBeLost
  <1>8. ~(SaveIndexToNvs \/ PurgeExpired \/ CleanupExit \/ Tick \/ UNCHANGED vars
          \/ StartCleanupTask \/ StartServing \/ StartFails \/ DestroySaves)
    BY <1>1
    DEF SaveIndexToNvs, SetCount, SetNextIdx, SetBlob, EraseStaleChunk, SaveDone,
        SetBlobNoSpace, SaveFails, EraseFails, PurgeExpired, CleanupExit, Tick, vars,
        StartCleanupTask, StartServing, StartFails, DestroySaves, engine
  <1>9. \A d, filter, limit : ~SaveEventShortWrite(d) /\ ~QueryEvents(filter, limit)
    BY <1>1 DEF SaveEventShortWrite, QueryEvents, engine
  <1> QED
    BY <1>2, <1>3, <1>4, <1>5, <1>6, <1>7, <1>8, <1>9 DEF Next, Client, Cleanup, Lifecycle

(* Until the relay goes down no event is lost but by a deletion that names *)
(* it or after it has expired, for every size of the index, every limit of *)
(* a query and every interleaving of the server and the cleanup task.      *)
THEOREM UnexpiredStayThm == Spec => UnexpiredStay
  <1>1. Init => ScanIsRight /\ OffIsEmpty
    BY DEF Init, ScanIsRight, OffIsEmpty, NotMarking, Stored, LivePos
  <1>2. Spec => [](TypeInv /\ ScanIsRight /\ OffIsEmpty)
    BY <1>1, TypeInit, TypeStep, ScanStep, OffStep, PTL DEF Spec
  <1>3. TypeInv /\ ScanIsRight /\ OffIsEmpty /\ [Next]_vars
            => [\A e \in Stored \ Stored' :
                  \/ relay' = "off"
                  \/ DeleteEvent(e)
                  \/ \E i \in LivePos : index[i].id = e /\ Expired(index[i])]_vars
    BY UnexpiredStep DEF MayBeLost
  <1> QED
    BY <1>2, <1>3, PTL DEF Spec, UnexpiredStay

=============================================================================
