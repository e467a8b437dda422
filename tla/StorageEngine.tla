--------------------------- MODULE StorageEngine ---------------------------
(***************************************************************************)
(* The event store of the relay (main/storage_engine.c) together with the  *)
(* part of main/main.c that creates and destroys it.                       *)
(*                                                                         *)
(* Two durable media are written one call at a time: LittleFS, a set of    *)
(* event files, and NVS, which holds a copy of the index as a count, a     *)
(* file number and a row of fixed-size chunks.  Everything else is RAM and *)
(* is gone after a power loss.  Two tasks share the engine through         *)
(* engine->lock: the HTTP server task (save, delete, query) and the        *)
(* cleanup task (purge, compact).  A call holds the lock from its first    *)
(* step to its last, so the RAM changes of one call are made in one step   *)
(* here, and its writes to NVS, between which the power may fail, in one   *)
(* step each.                                                              *)
(*                                                                         *)
(* An event is known by its id: created_at, kind and pubkey are functions  *)
(* of the id, and a filter is the set of the events it matches.            *)
(***************************************************************************)
EXTENDS Integers, Sequences, FiniteSets

CONSTANTS
    Events,         \* event ids
    Expiration,     \* the NIP-40 expiration tag of an event, 0 when it has none
    Ttl,            \* default_ttl_sec
    U32,            \* 2^32, the modulus of uint32_t
    IndexSizes,     \* the sizes storage_init may get for the index (5000, 1000)
    ChunkSize,      \* index entries per NVS blob (50)
    MaxChunks,      \* blob keys the stale-chunk loop may visit (100)
    SaveEvery,      \* an append that reaches a multiple of it saves (10)
    CompactEvery,   \* cleanup cycles per compaction (10)
    NvsCapacity,    \* index entries that fit the NVS partition
    QueryLimits,    \* limits a query is called with
    NoValue,        \* an NVS key that was never written
    MaxTime,        \* bound on the clock
    MaxFileIndex,   \* bound on next_file_index
    MaxPowerLosses, \* bound on the number of power losses
    MaxNvsErrors    \* bound on the number of NVS calls that fail

ASSUME SizesAssumption ==
    /\ ChunkSize \in Nat \ {0}
    /\ MaxChunks \in Nat
    /\ IndexSizes # {}
    /\ \A m \in IndexSizes : m \in Nat /\ m <= MaxChunks * ChunkSize
    /\ SaveEvery \in Nat \ {0}
    /\ CompactEvery \in Nat \ {0}
    /\ NvsCapacity \in Nat
    /\ QueryLimits \subseteq Nat

ASSUME TimeAssumption ==
    /\ Ttl \in Nat
    /\ U32 \in Nat \ {0}
    /\ Expiration \in [Events -> Nat]

ASSUME BoundsAssumption ==
    /\ MaxTime \in Nat
    /\ MaxFileIndex \in Nat
    /\ MaxPowerLosses \in Nat
    /\ MaxNvsErrors \in Nat

ASSUME NoValueAssumption == NoValue \notin Nat

VARIABLES
    \* RAM: storage_engine_t
    index,              \* the first index_count entries of engine->index
    next_file_index,
    max_index_entries,
    \* RAM: the tasks
    relay,              \* how far start_relay_server has got
    cleanup,            \* where the cleanup task is
    cycles,             \* its cycles_since_compact
    marking,            \* the scan that is expiring entries, and those it has left
    save,               \* the next call of save_index_to_nvs, "idle" outside it
    chunk,              \* the chunk it will write or erase next, 1 outside it
    \* flash
    files,              \* event files on LittleFS
    nvs_count,          \* NVS "count"
    nvs_next,           \* NVS "next_idx"
    nvs_chunks,         \* NVS "idx_<k>", <<>> when the key does not exist
    \* environment
    now,                \* time(NULL)
    power_losses,
    nvs_errors

engine   == <<index, next_file_index, max_index_entries>>
tasks    == <<relay, cleanup, cycles>>
call     == <<marking, save, chunk>>
nvs      == <<nvs_count, nvs_next, nvs_chunks>>
env      == <<now, power_losses, nvs_errors>>
vars     == <<engine, tasks, call, files, nvs, env>>

-----------------------------------------------------------------------------
(* Index entries *)

Entry == [id: Events, file_index: Nat, expires_at: Nat, deleted: BOOLEAN]

(* get_event_path: the file name is the id and the file number. *)
Path(en) == <<en.id, en.file_index>>

(* Positions of the entries that are not flagged STORAGE_FLAG_DELETED. *)
LivePos == {i \in DOMAIN index : ~index[i].deleted}

(* find_index_entry returns the entry at i: the first live one with the id. *)
FindIndexEntry(e, i) ==
    /\ i \in LivePos
    /\ index[i].id = e
    /\ \A j \in LivePos : index[j].id = e => i <= j

(* find_index_entry returns an entry. *)
EventExists(e) == \E i \in LivePos : index[i].id = e

(* The test the purge and the query make on a live entry. *)
Expired(en) == en.expires_at > 0 /\ en.expires_at < now

(* expires_at of an entry made now: the default TTL, or the NIP-40 tag     *)
(* when, cast to uint32_t, it is earlier.                                  *)
ExpiresAt(e) ==
    LET byTtl == (now + Ttl) % U32
        byTag == Expiration[e] % U32
    IN  IF Expiration[e] > 0 /\ byTag < byTtl THEN byTag ELSE byTtl

(* engine->lock is not held by any call. *)
LockFree == marking.by = "none" /\ save = "idle"

(* An entry with STORAGE_FLAG_DELETED set. *)
Flagged(en) ==
    [id |-> en.id, file_index |-> en.file_index,
     expires_at |-> en.expires_at, deleted |-> TRUE]

Marked(i) == [index EXCEPT ![i] = Flagged(index[i])]

NotMarking == [by |-> "none", left |-> {}]

-----------------------------------------------------------------------------
(* save_index_to_nvs: the count, the file number, the chunks in order, then *)
(* the stale chunks up to the first key that does not exist.  Its callers   *)
(* ignore its result and hold the lock until it returns.                    *)

NumChunks(n) == (n + ChunkSize - 1) \div ChunkSize

ChunkLen(n, k) ==
    IF k * ChunkSize <= n THEN ChunkSize ELSE n - (k - 1) * ChunkSize

IndexChunk(k) ==
    [j \in 1 .. ChunkLen(Len(index), k) |-> index[(k - 1) * ChunkSize + j]]

(* The chunk loop is over: what is left is erasing stale chunks. *)
ChunksWritten == chunk > NumChunks(Len(index))

StaleChunk == chunk <= MaxChunks /\ nvs_chunks[chunk] # <<>>

(* nvs_set_blob finds room: NVS keeps the other chunks as they are.  Only  *)
(* index entries are counted; what NVS adds to each blob and page, which   *)
(* leaves less room than this, is not.                                     *)
BlobFits ==
    LET others == {k \in 1 .. MaxChunks : k # chunk}
        used   == {kj \in others \X (1 .. ChunkSize) : kj[2] <= Len(nvs_chunks[kj[1]])}
    IN  Cardinality(used) + ChunkLen(Len(index), chunk) <= NvsCapacity

SetCount ==
    /\ save = "count"
    /\ nvs_count' = Len(index)
    /\ save' = "next_idx"
    /\ UNCHANGED <<engine, tasks, marking, chunk, files, nvs_next, nvs_chunks, env>>

SetNextIdx ==
    /\ save = "next_idx"
    /\ nvs_next' = next_file_index
    /\ save' = "chunks"
    /\ UNCHANGED <<engine, tasks, marking, chunk, files, nvs_count, nvs_chunks, env>>

SetBlob ==
    /\ save = "chunks"
    /\ ~ChunksWritten
    /\ BlobFits
    /\ nvs_chunks' = [nvs_chunks EXCEPT ![chunk] = IndexChunk(chunk)]
    /\ chunk' = chunk + 1
    /\ UNCHANGED <<engine, tasks, marking, save, files, nvs_count, nvs_next, env>>

EraseStaleChunk ==
    /\ save = "chunks"
    /\ ChunksWritten
    /\ StaleChunk
    /\ nvs_chunks' = [nvs_chunks EXCEPT ![chunk] = <<>>]
    /\ chunk' = chunk + 1
    /\ UNCHANGED <<engine, tasks, marking, save, files, nvs_count, nvs_next, env>>

(* nvs_commit and the return to the caller, which gives the lock back. *)
SaveDone ==
    /\ save = "chunks"
    /\ ChunksWritten
    /\ ~StaleChunk
    /\ save' = "idle"
    /\ chunk' = 1
    /\ UNCHANGED <<engine, tasks, marking, files, nvs, env>>

(* A blob that does not fit the partition: the save returns early. *)
SetBlobNoSpace ==
    /\ save = "chunks"
    /\ ~ChunksWritten
    /\ ~BlobFits
    /\ save' = "idle"
    /\ chunk' = 1
    /\ UNCHANGED <<engine, tasks, marking, files, nvs, env>>

(* nvs_open or an nvs_set call fails: the save returns early, what it has  *)
(* written stays.                                                          *)
SaveFails ==
    /\ save \in {"count", "next_idx"} \/ (save = "chunks" /\ ~ChunksWritten)
    /\ nvs_errors < MaxNvsErrors
    /\ nvs_errors' = nvs_errors + 1
    /\ save' = "idle"
    /\ chunk' = 1
    /\ UNCHANGED <<engine, tasks, marking, files, nvs, now, power_losses>>

(* nvs_erase_key fails: a warning, and the loop goes on. *)
EraseFails ==
    /\ save = "chunks"
    /\ ChunksWritten
    /\ StaleChunk
    /\ nvs_errors < MaxNvsErrors
    /\ nvs_errors' = nvs_errors + 1
    /\ chunk' = chunk + 1
    /\ UNCHANGED <<engine, tasks, marking, save, files, nvs, now, power_losses>>

SaveIndexToNvs ==
    \/ SetCount \/ SetNextIdx \/ SetBlob \/ EraseStaleChunk \/ SaveDone
    \/ SetBlobNoSpace \/ SaveFails \/ EraseFails

-----------------------------------------------------------------------------
(* storage_save_event, by the HTTP server task *)

Serving == relay = "serving" /\ LockFree

(* Mutant: no duplicate check. *)
SaveResultAllowsTwins(e) ==
    IF Len(index) >= max_index_entries THEN "STORAGE_ERR_FULL" ELSE "STORAGE_OK"

(* Mutant: the capacity check is off by one. *)
SaveResultOneMore(e) ==
    IF EventExists(e) THEN "STORAGE_ERR_DUPLICATE"
    ELSE IF Len(index) > max_index_entries THEN "STORAGE_ERR_FULL"
    ELSE "STORAGE_OK"

(* What storage_save_event answers when nothing fails. *)
SaveResult(e) ==
    IF EventExists(e) THEN "STORAGE_ERR_DUPLICATE"
    ELSE IF Len(index) >= max_index_entries THEN "STORAGE_ERR_FULL"
    ELSE "STORAGE_OK"

NewEntry(e) ==
    [id |-> e, file_index |-> next_file_index,
     expires_at |-> ExpiresAt(e), deleted |-> FALSE]

(* The file is written, the entry appended, and every SaveEvery-th count   *)
(* the index saved.                                                        *)
SaveEvent(e) ==
    /\ Serving
    /\ SaveResult(e) = "STORAGE_OK"
    /\ next_file_index < MaxFileIndex
    /\ files' = files \cup {Path(NewEntry(e))}
    /\ index' = Append(index, NewEntry(e))
    /\ next_file_index' = next_file_index + 1
    /\ save' = IF (Len(index) + 1) % SaveEvery = 0 THEN "count" ELSE "idle"
    /\ UNCHANGED <<max_index_entries, tasks, marking, chunk, nvs, env>>

(* A short write: the file, which may have been an old one of that name,   *)
(* is removed and the index left alone.  The errors before the file is     *)
(* opened change nothing.                                                  *)
SaveEventShortWrite(e) ==
    /\ Serving
    /\ SaveResult(e) = "STORAGE_OK"
    /\ files' = files \ {Path(NewEntry(e))}
    /\ UNCHANGED <<engine, tasks, call, nvs, env>>

(* Mutant: the file stays. *)
DeleteEventKeepsFile(e) ==
    /\ Serving
    /\ \E i \in LivePos : FindIndexEntry(e, i) /\ index' = Marked(i)
    /\ save' = "count"
    /\ UNCHANGED <<next_file_index, max_index_entries, tasks, marking, chunk, files, nvs, env>>

(* Mutant: the index is not saved. *)
DeleteEventUnsaved(e) ==
    /\ Serving
    /\ \E i \in LivePos :
        /\ FindIndexEntry(e, i)
        /\ files' = files \ {Path(index[i])}
        /\ index' = Marked(i)
    /\ UNCHANGED <<next_file_index, max_index_entries, tasks, call, nvs, env>>

(* storage_delete_event: NOT_FOUND unless there is a live entry. *)
DeleteEvent(e) ==
    /\ Serving
    /\ \E i \in LivePos :
        /\ FindIndexEntry(e, i)
        /\ files' = files \ {Path(index[i])}
        /\ index' = Marked(i)
    /\ save' = "count"
    /\ UNCHANGED <<next_file_index, max_index_entries, tasks, marking, chunk, nvs, env>>

-----------------------------------------------------------------------------
(* Expiry.  The purge visits every entry from the oldest; the query visits *)
(* them from the newest until it has its limit.  Each entry found expired  *)
(* has its file removed and is flagged.                                    *)

(* Mutant: an entry expires in the second it names, not after it. *)
ExpiredPosInTheSecond ==
    {i \in LivePos : index[i].expires_at > 0 /\ index[i].expires_at <= now}

(* Mutant: the scan stops before the last entry. *)
ExpiredPosButLast == {i \in LivePos : i < Len(index) /\ Expired(index[i])}

ExpiredPos == {i \in LivePos : Expired(index[i])}

(* The entries a query for the events in filter delivers when it reaches   *)
(* them.  One that is not read back (no memory, no file) is as one that    *)
(* does not match.                                                         *)
Hits(filter) ==
    {i \in LivePos \ ExpiredPos : index[i].id \in filter /\ Path(index[i]) \in files}

(* The loop reaches position i: it has not yet collected its limit. *)
Visited(filter, limit, i) ==
    Cardinality({j \in Hits(filter) : j > i}) < limit

QueryEvents(filter, limit) ==
    /\ Serving
    /\ LET found == {i \in ExpiredPos : Visited(filter, limit, i)}
       IN  marking' = IF found = {} THEN NotMarking
                                    ELSE [by |-> "query", left |-> found]
    /\ UNCHANGED <<engine, tasks, save, chunk, files, nvs, env>>

(* Mutant: the cycle counter is never advanced. *)
PurgeExpiredUncounted ==
    /\ cleanup = "sleep"
    /\ relay \in {"starting", "serving"}
    /\ LockFree
    /\ marking' = IF ExpiredPos = {} THEN NotMarking
                                     ELSE [by |-> "purge", left |-> ExpiredPos]
    /\ cleanup' = IF cycles >= CompactEvery THEN "compact" ELSE "sleep"
    /\ UNCHANGED <<engine, relay, cycles, save, chunk, files, nvs, env>>

(* storage_purge_expired, the first half of a cycle of the cleanup task. *)
PurgeExpired ==
    /\ cleanup = "sleep"
    /\ relay \in {"starting", "serving"}
    /\ LockFree
    /\ marking' = IF ExpiredPos = {} THEN NotMarking
                                     ELSE [by |-> "purge", left |-> ExpiredPos]
    /\ cycles' = cycles + 1
    /\ cleanup' = IF cycles + 1 >= CompactEvery THEN "compact" ELSE "sleep"
    /\ UNCHANGED <<engine, relay, save, chunk, files, nvs, env>>

(* Mutant: the file is removed, the entry is not flagged. *)
MarkEntryExpiredNoFlag ==
    /\ marking.by # "none"
    /\ \E i \in marking.left :
        /\ \A j \in marking.left : IF marking.by = "purge" THEN i <= j ELSE j <= i
        /\ files' = files \ {Path(index[i])}
        /\ IF marking.left = {i}
           THEN /\ marking' = NotMarking
                /\ save' = IF marking.by = "purge" THEN "count" ELSE "idle"
           ELSE /\ marking' = [marking EXCEPT !.left = @ \ {i}]
                /\ UNCHANGED save
    /\ UNCHANGED <<engine, tasks, chunk, nvs, env>>

(* mark_entry_expired for the next entry of the scan.  After its last one  *)
(* the purge saves the index, the query does not.                          *)
MarkEntryExpired ==
    /\ marking.by # "none"
    /\ \E i \in marking.left :
        /\ \A j \in marking.left : IF marking.by = "purge" THEN i <= j ELSE j <= i
        /\ files' = files \ {Path(index[i])}
        /\ index' = Marked(i)
        /\ IF marking.left = {i}
           THEN /\ marking' = NotMarking
                /\ save' = IF marking.by = "purge" THEN "count" ELSE "idle"
           ELSE /\ marking' = [marking EXCEPT !.left = @ \ {i}]
                /\ UNCHANGED save
    /\ UNCHANGED <<next_file_index, max_index_entries, tasks, chunk, nvs, env>>

-----------------------------------------------------------------------------
(* storage_compact_index: the live entries move down over the flagged ones *)
(* in order, and the index is saved if that dropped any.                   *)

(* f lists the positions in live, in order. *)
Ordered(f, live) ==
    /\ \A i, j \in DOMAIN f : i < j => f[i] < f[j]
    /\ \A p \in live : \E i \in DOMAIN f : f[i] = p

(* Mutant: the compacted index is not saved. *)
CompactIndexUnsaved ==
    /\ cleanup = "compact"
    /\ LockFree
    /\ \E f \in [1 .. Cardinality(LivePos) -> LivePos] :
        /\ Ordered(f, LivePos)
        /\ index' = [i \in DOMAIN f |-> index[f[i]]]
    /\ cleanup' = "sleep"
    /\ cycles' = 0
    /\ UNCHANGED <<next_file_index, max_index_entries, relay, call, files, nvs, env>>

(* Mutant: the test of the flag is inverted. *)
CompactIndexKeepsFlagged ==
    /\ cleanup = "compact"
    /\ LockFree
    /\ LET kept == DOMAIN index \ LivePos
       IN  \E f \in [1 .. Cardinality(kept) -> kept] :
            /\ Ordered(f, kept)
            /\ index' = [i \in DOMAIN f |-> index[f[i]]]
    /\ save' = IF LivePos # DOMAIN index THEN "count" ELSE "idle"
    /\ cleanup' = "sleep"
    /\ cycles' = 0
    /\ UNCHANGED <<next_file_index, max_index_entries, relay, marking, chunk, files, nvs, env>>

CompactIndex ==
    /\ cleanup = "compact"
    /\ LockFree
    /\ \E f \in [1 .. Cardinality(LivePos) -> LivePos] :
        /\ Ordered(f, LivePos)
        /\ index' = [i \in DOMAIN f |-> index[f[i]]]
    /\ save' = IF LivePos # DOMAIN index THEN "count" ELSE "idle"
    /\ cleanup' = "sleep"
    /\ cycles' = 0
    /\ UNCHANGED <<next_file_index, max_index_entries, relay, marking, chunk, files, nvs, env>>

-----------------------------------------------------------------------------
(* Start, stop, and power loss *)

(* load_index_from_nvs into an index of m entries. *)
LoadCount(m) == IF nvs_count > m THEN m ELSE nvs_count

LoadSucceeds(m) ==
    /\ nvs_count # NoValue
    /\ nvs_next # NoValue
    /\ \A k \in 1 .. NumChunks(LoadCount(m)) :
           Len(nvs_chunks[k]) = ChunkLen(LoadCount(m), k)

LoadedIndex(m) ==
    [i \in 1 .. LoadCount(m) |->
        nvs_chunks[((i - 1) \div ChunkSize) + 1][((i - 1) % ChunkSize) + 1]]

StartFresh == index' = <<>> /\ next_file_index' = 0

(* storage_init: the index that NVS holds, or none when there is none or   *)
(* it does not read back.                                                  *)
StorageInit ==
    /\ relay = "off"
    /\ relay' = "starting"
    /\ \E m \in IndexSizes :
        /\ max_index_entries' = m
        /\ \/ /\ LoadSucceeds(m)
              /\ index' = LoadedIndex(m)
              /\ next_file_index' = nvs_next
              /\ UNCHANGED nvs_errors
           \/ /\ ~LoadSucceeds(m)
              /\ StartFresh
              /\ UNCHANGED nvs_errors
           \/ /\ nvs_errors < MaxNvsErrors   \* nvs_open or a read fails
              /\ nvs_errors' = nvs_errors + 1
              /\ StartFresh
    /\ UNCHANGED <<cleanup, cycles, call, files, nvs, now, power_losses>>

(* storage_start_cleanup_task *)
StartCleanupTask ==
    /\ relay = "starting"
    /\ cleanup = "none"
    /\ cleanup' = "sleep"
    /\ cycles' = 0
    /\ UNCHANGED <<engine, relay, call, files, nvs, env>>

(* ws_server_init succeeds: clients are served. *)
StartServing ==
    /\ relay = "starting"
    /\ cleanup # "none"
    /\ relay' = "serving"
    /\ UNCHANGED <<engine, cleanup, cycles, call, files, nvs, env>>

(* The cleanup task or the server does not start, and storage_destroy is   *)
(* called: cleanup_stop is set and the task waited for.                    *)
StartFails ==
    /\ relay = "starting"
    /\ relay' = "stopping"
    /\ UNCHANGED <<engine, cleanup, cycles, call, files, nvs, env>>

(* Mutant: the task ends without clearing cleanup_task. *)
CleanupExitKeepsHandle ==
    /\ cleanup = "sleep"
    /\ relay = "stopping"
    /\ LockFree
    /\ UNCHANGED vars

(* The cleanup task sees cleanup_stop.  It does not look between the purge *)
(* and the compaction of one cycle.                                        *)
CleanupExit ==
    /\ cleanup = "sleep"
    /\ relay = "stopping"
    /\ LockFree
    /\ cleanup' = "none"
    /\ UNCHANGED <<engine, relay, cycles, call, files, nvs, env>>

DestroySaves ==
    /\ relay = "stopping"
    /\ cleanup = "none"
    /\ relay' = "closing"
    /\ save' = "count"
    /\ UNCHANGED <<engine, cleanup, cycles, marking, chunk, files, nvs, env>>

ForgetRam ==
    /\ index' = <<>>
    /\ next_file_index' = 0
    /\ max_index_entries' = 0
    /\ relay' = "off"
    /\ cleanup' = "none"
    /\ cycles' = 0
    /\ marking' = NotMarking
    /\ save' = "idle"
    /\ chunk' = 1

(* storage_destroy returns; the next address from DHCP starts again. *)
DestroyDone ==
    /\ relay = "closing"
    /\ save = "idle"
    /\ ForgetRam
    /\ UNCHANGED <<files, nvs, env>>

PowerLoss ==
    /\ relay # "off"
    /\ power_losses < MaxPowerLosses
    /\ power_losses' = power_losses + 1
    /\ ForgetRam
    /\ UNCHANGED <<files, nvs, now, nvs_errors>>

Tick ==
    /\ now < MaxTime
    /\ now' = now + 1
    /\ UNCHANGED <<engine, tasks, call, files, nvs, power_losses, nvs_errors>>

-----------------------------------------------------------------------------
Init ==
    /\ index = <<>>
    /\ next_file_index = 0
    /\ max_index_entries = 0
    /\ relay = "off"
    /\ cleanup = "none"
    /\ cycles = 0
    /\ marking = NotMarking
    /\ save = "idle"
    /\ chunk = 1
    /\ files = {}
    /\ nvs_count = NoValue
    /\ nvs_next = NoValue
    /\ nvs_chunks = [k \in 1 .. MaxChunks |-> <<>>]
    /\ now = 0
    /\ power_losses = 0
    /\ nvs_errors = 0

Client ==
    \/ \E e \in Events : SaveEvent(e) \/ SaveEventShortWrite(e) \/ DeleteEvent(e)
    \/ \E filter \in SUBSET Events, limit \in QueryLimits : QueryEvents(filter, limit)

Cleanup == PurgeExpired \/ CompactIndex \/ CleanupExit

Lifecycle ==
    \/ StorageInit \/ StartCleanupTask \/ StartServing
    \/ StartFails \/ DestroySaves \/ DestroyDone

Next ==
    \/ Client \/ Cleanup \/ MarkEntryExpired \/ SaveIndexToNvs
    \/ Lifecycle \/ PowerLoss \/ Tick

Spec == Init /\ [][Next]_vars

-----------------------------------------------------------------------------
(* Properties *)

(* Every variable keeps its type, and the index never outgrows the array   *)
(* that storage_init allocated for it.                                     *)
TypeOK ==
    /\ index \in Seq(Entry)
    /\ Len(index) <= max_index_entries
    /\ next_file_index \in Nat
    /\ max_index_entries \in IndexSizes \cup {0}
    /\ relay \in {"off", "starting", "serving", "stopping", "closing"}
    /\ cleanup \in {"none", "sleep", "compact"}
    /\ cycles \in 0 .. CompactEvery
    /\ marking \in [by: {"none", "purge", "query"}, left: SUBSET LivePos]
    /\ save \in {"idle", "count", "next_idx", "chunks"}
    /\ chunk \in 1 .. MaxChunks + 1
    /\ files \subseteq Events \X Nat
    /\ nvs_count \in Nat \cup {NoValue}
    /\ nvs_next \in Nat \cup {NoValue}
    /\ nvs_chunks \in [1 .. MaxChunks -> Seq(Entry)]
    /\ now \in Nat
    /\ power_losses \in Nat
    /\ nvs_errors \in Nat

(* No event has two live index entries: the duplicate check, the deletion  *)
(* of the first match only and compaction all rely on it.                  *)
UniqueLive ==
    \A i, j \in LivePos : index[i].id = index[j].id => i = j

LivePaths == {Path(index[i]) : i \in LivePos}

(* Files no live entry leads to: nothing will ever remove them. *)
Orphans == files \ LivePaths

(* Live entries without a file: the event counts as stored, and a copy     *)
(* sent again is refused as a duplicate, but no query can return it.       *)
Dangling == LivePaths \ files

Consistent == UniqueLive /\ Orphans = {} /\ Dangling = {}

(* Until the power first fails, the index and the files agree after every  *)
(* step of every call, whichever calls of the two tasks interleave and     *)
(* whichever NVS writes fail.                                              *)
ConsistentUntilPowerLoss == power_losses = 0 => Consistent

(* Whatever a boot has found on the flash, no call makes it worse: as long *)
(* as the index names no event twice, no step between two boots leaves a   *)
(* new orphan file, a new entry without a file, or an event named twice.   *)
CallsKeepAgreement ==
    [][relay # "off" /\ relay' # "off" /\ UniqueLive
        => UniqueLive' /\ Orphans' \subseteq Orphans /\ Dangling' \subseteq Dangling]_vars

(* The index the next boot would load. *)
Recovered ==
    IF LoadSucceeds(max_index_entries) THEN LoadedIndex(max_index_entries) ELSE <<>>

(* Whenever no call is running and no NVS write has failed, a power loss   *)
(* would lose only the last appended entries, fewer than SaveEvery: what   *)
(* the boot would load is the index without them, except that entries a    *)
(* query has expired may come back (and are still expired).                *)
QuiescentLossBounded ==
    relay = "serving" /\ LockFree /\ nvs_errors = 0 =>
        /\ Len(Recovered) \in (Len(index) - SaveEvery) + 1 .. Len(index)
        /\ \A i \in DOMAIN Recovered :
              \/ Recovered[i] = index[i]
              \/ /\ index[i] = Flagged(Recovered[i])
                 /\ Expired(index[i])

-----------------------------------------------------------------------------
(* Liveness.  A call that holds the lock goes on; the cleanup task gets    *)
(* the lock as long as it is released again and again (the server task     *)
(* blocks on its sockets between messages); the clock advances;            *)
(* storage_destroy goes on, and the relay boots and, tried again and       *)
(* again, starts its server.  Nothing is assumed of the clients, of        *)
(* failures and of power losses.                                           *)

Fairness ==
    /\ WF_vars(MarkEntryExpired)
    /\ WF_vars(SaveIndexToNvs)
    /\ SF_vars(PurgeExpired)
    /\ SF_vars(CompactIndex)
    /\ WF_vars(CleanupExit)
    /\ WF_vars(DestroySaves)
    /\ WF_vars(DestroyDone)
    /\ WF_vars(StorageInit)
    /\ WF_vars(StartCleanupTask)
    /\ SF_vars(StartServing)
    /\ WF_vars(Tick)

LiveSpec == Spec /\ Fairness

(* The cleanup task reaches every expired event: its file is removed, or   *)
(* the relay goes down first.                                              *)
ExpiredAreRemoved ==
    \A e \in Events, n \in 0 .. MaxFileIndex :
        (relay = "serving" /\ \E i \in ExpiredPos : Path(index[i]) = <<e, n>>)
            ~> (relay = "off" \/ <<e, n>> \notin files)

(* An index full of flagged entries does not stay full. *)
SlotsAreReclaimed ==
    (relay = "serving" /\ Len(index) = max_index_entries /\ LivePos # DOMAIN index)
        ~> (relay = "off" \/ Len(index) < max_index_entries)

(* storage_destroy always gets through: the task it waits for exits. *)
DestroyTerminates == relay = "stopping" ~> relay = "off"

(* README: "21-day TTL means data automatically disappears": the file of   *)
(* every event is removed in the end (of those that are stored early       *)
(* enough for the clock of the model to reach their expiry).               *)
DataDisappears ==
    \A e \in Events, n \in 0 .. MaxFileIndex :
        (<<e, n>> \in files /\ now + Ttl < MaxTime) ~> <<e, n>> \notin files

(* test_storage_reuses_deleted_slots: an event can be saved once another   *)
(* has been deleted.                                                       *)
DeletedSlotIsReusable ==
    \A e \in Events :
        Serving /\ LivePos # DOMAIN index => SaveResult(e) # "STORAGE_ERR_FULL"

-----------------------------------------------------------------------------
(* Refinement *)

(* The events a query may find: those with a live entry. *)
Stored == {index[i].id : i \in LivePos}

Store == INSTANCE EventStore WITH stored <- Stored, up <- (relay # "off")

(* To the rest of the relay the engine is a set of events: appending,      *)
(* flagging, the scans of the purge and the query, and compaction, which   *)
(* moves every entry, add or remove at most one event at a time between    *)
(* two boots.  Which event and why is for UnexpiredStay to say.            *)
ImplementsStore == Store!Spec

(* Until the relay goes down, an event is lost only by a deletion that     *)
(* names it or once it has expired: the scan of a purge or a query, which  *)
(* goes on by positions while the clock moves, and compaction, which       *)
(* changes the positions, never cost an event that is still good.          *)
UnexpiredStay ==
    [][\A e \in Stored \ Stored' :
        \/ relay' = "off"
        \/ DeleteEvent(e)
        \/ \E i \in LivePos : index[i].id = e /\ Expired(index[i])]_vars

=============================================================================
