# Wisp ESP32: specifications and proofs

TLA+ models of the Wisp relay (`src/main`), TLC configurations that check them on
small instances, and TLAPS proofs of their main properties for all instances.

    tlc -workers 2 -config StoragePower.cfg MCStorage      # one run
    tlapm StorageEngineProofs.tla                          # one module of proofs

`PROJECT.json` lists the components, the runs, the mutants that show each property
can fail, the source lines each definition stands for, the findings, the hazards
and the theorems.

## 1. The system

Wisp is a Nostr relay on an ESP32. It accepts WebSocket connections, stores the
events it receives in flash for 21 days, answers subscriptions from the store and
forwards new events to the subscriptions they match.

| Component | State | Operations | What makes it hard |
|---|---|---|---|
| storage engine (`storage_engine.c`) | index array in RAM, event files on LittleFS, copy of the index in NVS | init, save, delete, query, purge, compact, destroy | two tasks behind one lock; several flash writes per call, with power loss or an error between any two |
| cleanup task (`storage_engine.c`) | cycle counter, stop flag | purge every minute, compact every tenth time | runs between any two calls of the server; must be waited for |
| subscription manager (`sub_manager.c`) | 64 slots, running count | add, remove, remove_all, match | slots are reused; an update can fail half way |
| rate limiter (`rate_limiter.c`) | 16 buckets | check, reset | windows, descriptors that are reused |
| WebSocket server (`ws_server.c`) | 8 connection slots and their count, callbacks, queue of asynchronous sends (in esp_http_server) | start, open, close, receive, send | sends run later than they are queued; callbacks set after the start; descriptors belong to the library until a close callback is installed |
| router (`router.c`) | none | parse, dispatch, reply | order of checks; what a refusal leaves behind |
| handlers (`handlers_stub.c`) | none | EVENT, REQ, CLOSE | compose the store, the subscriptions and the broadcast without a common lock |
| broadcaster (`broadcaster.c`) | none | fan-out | uses a list of matches made earlier |
| deletion (`deletion.c`) | none | by id, by address, by kind | read, authorise and delete in separate lock sections |
| validator (`validator.c`) | none | check an event | order of checks, mapping of errors |
| application (`main.c`) | relay context | start on DHCP lease, undo a failed start | partial start, clock not yet set |
| information document, flash monitor | none | constant answer, log line | not modelled |

All client messages and connection callbacks run in the one task of
esp_http_server; the cleanup task, the event loop that starts the relay and the
clock run beside it. Server and cleanup task share only the storage engine, through
`engine->lock`.

Correctness, by component:

* storage: index and files agree; an event is named once; the index fits its array;
  a power loss costs a bounded number of events; expired events go; destroy ends;
* subscriptions: the slots behave as a table from (connection, id) to filters;
  limits and count are right;
* rate limiter: a bounded number of messages passes; a connection is only refused for
  what it did;
* server and start: slots and count follow the sessions; a failed start leaves nothing
  and a message never meets a part that is missing; nothing of a closed connection
  stays behind; a queued send reaches the client it was for or nobody; a waiting
  client gets in;
* router, handlers, deletion, validator, broadcaster: OK says what is stored; a refusal
  leaves no trace; a deletion removes all it covers, and only its author's events; an
  answer holds what the filters ask for, each event once.

## 2. The modules

| Module | Models | Checked by | Proofs |
|---|---|---|---|
| `StorageEngine` | storage engine, cleanup task, its part of `main.c` | `MCStorage`, `Storage*.cfg` | `StorageEngineProofs`, `DurabilityProofs` |
| `SubManager` | subscription manager | `MCSubManager`, `SubManager.cfg` | `SubManagerProofs` |
| `SubTable` | abstract specification that `SubManager` implements, used by `Relay` | as `ImplementsTable` | `SubManagerProofs` |
| `EventStore` | abstract specification that `StorageEngine` implements, used by `Relay` | as `ImplementsStore` | `StorageEngineProofs` |
| `Filters` | the two tests of a query: on the index entry and on the event | with `Relay` | `FiltersProofs` |
| `Relay` | router, handlers, validator, deletion, broadcaster over `EventStore` and `SubTable` | `MCRelay`, `Relay*.cfg` | `RelayProofs`, `RequestProofs` |
| `WsServer` | WebSocket server and `start_relay_server` over sessions and descriptors | `MCWsServer`, `Ws*.cfg` | `WsServerProofs` |
| `RateLimiter` | rate limiter, with the opening and closing of connections | `MCRateLimiter`, `RateLimiter.cfg` | `RateLimiterProofs` |

### StorageEngine

`index`, `next_file_index` and `max_index_entries` are the fields of
`storage_engine_t`; `files` are the files on LittleFS (id and file number, as in the
path); `nvs_count`, `nvs_next` and `nvs_chunks` the keys of the NVS namespace.
`relay` and `cleanup` say where `start_relay_server` and the cleanup task are.

A call holds `engine->lock` to its end. Its changes in RAM are therefore one step,
but its writes to flash are one step each, because the power can fail between
them: `save` and `chunk` walk through `save_index_to_nvs`, `marking` through the
entries a purge or a query is expiring. While either is in progress the lock is held
(`LockFree` is false) and no other call starts.

* `SaveEvent`, `SaveEventShortWrite`, `DeleteEvent`, `QueryEvents`: the calls of the
  server task. A save creates the file and appends the entry in one step: a power
  loss between the two leaves the same flash as one just after.
* `PurgeExpired`, `MarkEntryExpired`, `CompactIndex`, `CleanupExit`: the cleanup task.
* `SetCount` ... `EraseFails`: `save_index_to_nvs`, with a failure of each NVS call.
* `StorageInit`, `StartCleanupTask`, `StartServing`, `StartFails`, `DestroySaves`,
  `DestroyDone`: start and failed start.
* `PowerLoss`, `Tick`: the environment.

`ImplementsStore` maps the engine to `EventStore`: the events with a live entry are a
set that gains or loses one event at a time. The scans and the compaction, which move or
flag many entries, are invisible or are deletions of single events. `EventStore` does not
say why an event goes: that is `UnexpiredStay`, by which an event leaves the store of a
running relay only through a deletion that names it or once its time has come. What a
boot finds is left open, because a power loss may have cost the last events.

Abstracted: an event is its id; a filter is the set of events it matches; file
contents. Numbers keep their width in `ExpiresAt`, where the code casts to
`uint32_t` (`U32` stands for 2^32).

`BlobFits` counts the index entries in the NVS partition and not what NVS adds to each
blob and page: it is optimistic, and the partition is full earlier than in
`StorageNvsFull`.

Assumed: `unlink` succeeds; LittleFS is not reformatted by a failed mount; an NVS
`set` or `erase` that returned is durable and those of one call reach the flash in
order; the clock does not go back or jump.

### SubManager and SubTable

`subs` is the array, `active_count` the running count. Every call is one step.
`SubTable` is what the users of the manager rely on: a table from (connection, id) to
filter lists, with the limits. `ImplementsTable` maps the slots to the table and
states that each call changes just the entry it names. It also shows the one failure
that is not harmless: an update that runs out of memory leaves the subscription with
an empty list (`Starve`).

### RateLimiter

`buckets` is the array, `open` the connections the server has admitted (at most
`MaxConns`, as in `on_open`) and `admitted` a history variable: when each message
of an open connection was let in. A check is one step, `Admit` or `Refuse`; the two
readings of the clock in a check are taken as one, which matters only if they
straddle the end of a window that began in the same call, and none can. A closing
connection gives its bucket back (`Reset`, from `on_ws_disconnect`) if the disconnect
callback is set by then (`callback`). `start_relay_server` sets it when the server runs
already (`SetDisconnectCb`), and a connection that closes before leaves its bucket behind;
`early` remembers those. Their descriptors are not handed out again, because `on_close`
does not close them (see `WsServer`), so no later connection inherits such a bucket, but
it is never free again either. The 16 buckets for 8 connections absorb eight of them, and
`RefusedOnlyIfSpent` is stated as long as they do. The other return of `on_close`, without
`g_server`, happens only while a failed start is undone, and the next start initialises
the limiter anew. The 32-bit clock of seconds is not wrapped: it lasts 136 years.

### Filters and Relay

An event is its id, with fields in `Data`; a hexadecimal string in a filter is a prefix
(`of`, `len`) of an id or a key, and `Shared` gives the number of leading digits two ids
or keys share. `IndexMatchesFilter` is the test on the index entry, with its cuts: times
to 32 bits, complete ids only, four bytes (eight digits) of the key. `FilterMatches` is
`nostr_filter_matches` of libnostr, which is not in the repository; its meaning is taken
from the reference in `test/native/test_filter.c` and from its callers. The conditions of a
filter on tags (`e`, `p` and the generic ones, which `filter_copy` copies) are left out of
both: the index test ignores them and the full test only becomes narrower, so no property
depends on them.

`Relay` follows one message at a time, as the one task of esp_http_server does: `job` is
what the handler's locals hold, and `job.stage` where it is. Each lock section is a step.
Between any two the cleanup task may expire a stored event (`Expire`), which is all the
handlers can see of it. A REQ goes through `ReceiveReq`, one `AnswerFilter` for each
filter, `AnswerDone` and `Reply`; an EVENT through `ReceiveEvent`, for a deletion request
`DeletionLook` and `DeletionRemove` for each part of it, then `SaveEvent`, `FanoutSend`
for each matching subscription, `FanoutDone` and `Reply`. What goes to the connection
being served leaves at once, the rest through `queue`.

The clock is read once for an event: libnostr's check and `check_event_age` see the same
second. An expiration tag that has passed is one of the faults an event may have. An event
counts as sent when it is handed to `router_send_event`, which may still fail, as the
handler does when it remembers the id; an event that cannot be read back is left out of an
answer by itself. `CloseConn` is `on_ws_disconnect`: here the disconnect callback is set,
and the closes before that are those of `OnlyEarlyResidue` in `WsServer`.

`before`, `expired`, `sound`, `repeated`, `reached` and `at` in `job` are history for the
properties. Which of more matching events than the limit a query returns (the ones stored
last) is left open: the abstract store has no order. The rate limiter is reduced to its
answer (`RateLimiter` says when it refuses). `Atoi` and `ScanD` are the conversions
`atoi` and `%255s`, given by a table.

### WsServer

`start` is where `start_relay_server` is; `ctx`, `running`, `g_server`, `on_message` and
`on_disconnect` are the globals it sets; `connections` and `connection_count` the slots.
The actions before the first line are the event loop, one for each step that can fail,
the others the server task, which begins with `httpd_start`. Of esp_http_server (ESP-IDF
5.3.4, outside the repository) the model takes: sessions are named by descriptor and at
most `max_open_sockets` of them; when all are taken and a client waits, the least
recently used one is closed through the work queue (`PurgeLru`; which one is left open);
work runs in order; a client `on_open` refuses is closed by the library; a session that
ends is handed to `close_fn` and the library closes the descriptor only when there is no
`close_fn`. `peer` and `peers` say which client a descriptor was given to, `subscribed`
and `early` what the users of the server keep for it.

`on_open` and `on_close` are one step each. Both read `g_server` twice before they hold the
lock, and a start that fails in the event loop can clear it in between
(`cleanup_server_init`); what the second reading then does is not modelled. Neither is a
mutex of the rate limiter that could not be allocated, which `rate_limiter_init` does not
look at. `ws_server_stop`,
`ws_server_broadcast` and `ws_server_close_connection` have no caller in the firmware.

## 3. The runs

| Run | Shows | Bounds |
|---|---|---|
| `StoragePower` | consistency, bounded loss, agreement kept by every call, with two power losses, a failing NVS call and two array sizes | 2 events, index of 4, chunks of 2: empty, partial, full and second chunks all occur, and after a first recovery a second one |
| `StorageExpiry` | the same with TTL, tags and queries of several limits, the refinement of `EventStore`, and that no event goes before its time | clock of 3 ticks, TTL 1, so entries expire while others are alive |
| `StorageLive` | expired events are removed, a full index gets room, destroy ends, also when NVS has no room | 2 events, one power loss |
| `SubManager` | refinement of `SubTable`, unique names, exact count, limits | 3 connections with 3 names for 4 slots, 2 each; lists longer than a slot takes |
| `RateLimiter` | ownership of buckets, refusals only for one's own messages, at most twice the limit | 4 descriptors, 2 connections, 3 buckets: one bucket left behind is absorbed, two are not; windows of 2 in a clock of 4, so they are renewed twice |
| `WsServer` | slots follow sessions, all-or-nothing start, late callback, no foreign delivery, waiting clients get in | 3 sessions, 5 descriptors and `MaxPeers` 5, so sessions fill up, are purged, and all descriptors are used; `QueueLimit` 2, so a close waits behind a send |
| `Relay` | true replies, no trace of a refusal, deletions authorised and thorough, complete answers, repetitions only beyond the list of ids | 2 clients, 7 events by two authors whose keys share the eight digits of the index, `MaxExpired` 1 per message, `MaxFailures` 1; limits of 1, 2 and 5 so that queries, the list of ids and the queue overflow |

The other configurations show where the code departs from what its documentation or
tests say:

| Run | What is said | What happens |
|---|---|---|
| `StorageOrphan` | `README.md:15`: data automatically disappears | a file written after the last index save is orphaned by a power loss and never removed |
| `StorageSlots` | `test_storage.c:398`: a save succeeds after a deletion in a full store | refused until the compaction ten minutes later; the test has a copy of the engine that differs |
| `StorageNvsFull` | `README.md:54`: 5,000 events | the index outgrows the NVS partition (0x6000 bytes, 52 bytes an entry), saves fail unnoticed, a reboot finds nothing |
| `WsSocketLeak` | `README.md:53`: 5-10 concurrent connections | `on_close` replaces the close of the descriptor and does not close it: after about 48 connections in all (the listening and control sockets count too), no client gets in |
| `RelayDeleteNothing` | `test_deletion.py:139`: a request for an event that does not exist deletes nothing | its `k` tag deletes all events of that kind by the author |

`NoForeignDelivery` holds because of the leak that `WsSocketLeak` shows: a descriptor is
never given to another client. Its mutant is the obvious repair, a `close` in `on_close`,
and shows that the repair needs more than that: a send queued for the old client would
reach the new one.

Limits of the code that the properties make room for. `QuiescentLossBounded` speaks only
of moments when no save is running, because inside one the only copy of the index does
not load (the count is new, the chunks are old) and a power loss can cost every event.
`CallsKeepAgreement` speaks of an index that names no event twice: a copy torn in the save
after a compaction may load with an entry next to its moved copy, and what the calls do
then is left open; no call makes such a duplicate by itself.
An expiration tag that is a multiple of 2^32 becomes 0 in `ExpiresAt`, which means never.
`RefusedLeavesNoTrace` excepts a deletion request that could not be saved: its deletions
stand. `DeletionIsThorough` excepts a query that met its limit: an address is looked for
among 100 events of its kind. `AnswerIsComplete` speaks of filters with complete ids, keys
of eight digits or more and 32-bit times: shorter prefixes, which the broadcast honours,
find nothing in the store. Its limit is the one after the cut to 16 bits: a filter that asks
for 65536 events is given the limit 0, and is owed nothing. `RefusedOnlyIfSpent` excepts a
relay that has left more buckets behind than it has to spare. A deletion request of time 0 would have no upper bound on what
it deletes; with the clock set it is refused as too old.

Deadlock is checked in every run but the two of `WsServer` and that of `RateLimiter`, which
really stop: when the descriptors are used up, or all were closed early, no session is open
and no more clients come, nothing is left to do. Symmetry is used only with interchangeable
events, connections, names, descriptors and types of message, and never with liveness.

Fairness. `StorageEngine!LiveSpec`: a call that holds the lock goes on; the cleanup task
gets the lock if it is released again and again (FreeRTOS mutexes wake the waiting task,
and the server task blocks on its sockets between messages), hence strong fairness of its
two calls; the relay boots, and a start tried again and again succeeds at some time; the
clock advances. Nothing is assumed of clients, failures or power losses. `DataDisappears`
is also stated under this fairness: without it the counterexample would only say that the
relay may stop. `WsServer!LiveSpec`: queued work is run (weak fairness of `RunWork`: each
round of the server's loop does one piece); a client that waits is looked at in every
round, after the messages that have arrived, so `Accept` and the queueing of a close are
strongly fair: clients that fill the queue or the sessions again and again cannot keep it
out for ever, the rate limiter bounding what each can queue in a minute.

## 4. The proofs

Every safety property of a passing run is proved, for every value of the constants that
satisfies the named assumptions of the modules. Most are invariants; `CallsKeepAgreement`
and `UnexpiredStay` are action properties, `ImplementsTable` and `ImplementsStore` are refinements, and
`IndexLosesNothing` is about operators. Four theorems have a hypothesis on the constants
besides (a partition that is large enough, a clock that is set and fits 32 bits). It is
named below, the instance of the run satisfies it, and it is there because the code needs
it.

`StorageEngineProofs`
* `TypeCorrect`: `TypeOK`. The part that is not about types is that the index fits its
  array and the chunk counter its range, which needs the arithmetic of the chunks
  (`NumChunksBound`, `ChunkWithinIndex`). `TypeInv` adds what that takes of the
  control state: outside a scan no entry is left to mark, a sleeping cleanup task has
  counted fewer than `CompactEvery` cycles, and nothing is scanned while the relay is
  off.
* `CallsKeepAgreementThm`: each action, given an index without duplicates, adds no
  orphan, no dangling entry and no duplicate. Compaction is the hard case: the order-
  preserving map of positions is shown to keep the set of live paths.
* `ConsistentUntilPowerLossThm`: from the same lemmas, with an invariant for the time
  before the first power loss (`FirstSession`): an index exists only while the relay
  serves, and a relay that has served is not stopped but by a power loss, so the
  copy in NVS is absent or empty whenever a boot could load it.
* `ImplementsStoreThm`: every step is a step of `EventStore` on the events with a live entry,
  or leaves them alone. A lemma for each way the index changes says what becomes of that
  set: `StoredMark` (a flag takes out one event, or none if another entry has it),
  `StoredAppend`, and `StoredCompact` (the map of positions loses no live entry).
* `UnexpiredStayThm`: from the same lemmas. The positions a scan still has to mark are those
  of expired entries (`ScanIsRight`): they were when the scan began, the clock only goes
  forward, and nothing moves an entry while the scan holds the lock. A relay that is off
  has no index (`OffIsEmpty`).

`DurabilityProofs`: `QuiescentLossBounded`, with the hypothesis `NvsHoldsIndex`, that the
partition holds every chunk (the run `storage_nvs_full` shows what happens if it does not).
The property compares the index with what a boot would load, which several writes to NVS
have made. `Durable` follows them: while a save runs, the count and the chunks before
`chunk` are those of the index (`SaveProgress`); between saves the copy is the index
without its last entries, fewer than would reach a multiple of `SaveEvery`, and without
flags set since on expired entries (`CopyIsRecent`). It says nothing of a copy that a power
loss tore during a save: the next boot loads what that copy reads as, and the index is
then the copy again (`OrderedIsIdentity`: a boot that drops nothing moves nothing).
`BlobAlwaysFits` counts the entries in NVS; `SavedIsIndex` puts the chunks together again.

`SubManagerProofs`: `UniqueKey`, `CountIsExact`, `SharesKept` and `TypeOK` are inductive
together. Three lemmas describe the slots after a step (one taken, one refilled, some
cleared); the cardinalities follow from those. `ImplementsTable` follows from the same
invariant: `TableIsRead` says what the table holds in terms of the slots, which takes
`UniqueKey` because the map chooses a slot, and `PresentCount` that the table has no more
subscriptions than there are slots in use (a surjection), so that a free slot is room in
the table.

`RateLimiterProofs`: `BucketsAreOwned`, `TwiceTheLimit` and `RefusedOnlyIfSpent`. The
invariant (`Fits`) ties each counter to the history: the last `count` messages are in
the window, the earlier ones before it, and those more than a limit before that, more
than a window before it. Renewing a window and letting in a message keep it.
`BucketsAreOwned` includes the buckets left behind by connections closed before the
callback: `Connect` never takes their descriptors. `RefusedOnlyIfSpent` also needs a bucket
for every connection. The held buckets that were not left behind inject into the other
open connections, of which there are fewer than `MaxConns`; with those left behind, at most
`MaxBuckets - MaxConns`, they leave one free.

`RelayProofs`: `OkIsTrue` and `RefusedLeavesNoTrace`, which together say that the answer to
an EVENT is true. Neither is inductive: what makes them true happens stages before the
reply. `Shape` says which stages have an event at all (a REQ has none, an idle server task
has the empty job), and `Course` what holds of the event on its way: until the save it is
acceptable, the store has gained nothing and nobody has been sent it; during the
broadcast it is stored, or ephemeral, or has expired since. The step that matters for
every stage is `Expire`, which the cleanup task may take at any of them
(`CourseExpire`). `ValidIsAcceptable` and `RefusalIsTold` are about the chain of error
codes in `validator.c` and `handlers_stub.c`: no code that is not OK is mapped to OK on the
way. `TypeOK` of `Relay` needs in addition (`Typed`) that a deletion goes through parts of its
own request (`ItemsListed`, about the sequence that `DeletionItems` puts together), because
what it finds next depends on the part.

`RequestProofs`: what a REQ is answered with and what a deletion request removes.
* `NoRepeat`: as long as the ids sent fit the list, the list has them all (`Recall`). An answer
  that overflows the list does not return to that state: the number of ids sent only
  grows.
* `RemovalIsAuthorised`: what has been found and not yet deleted is covered (`Authorised`),
  since a lookup finds only what its part of the request covers (`LookCovers`). The
  hypothesis `DeletionsAreDated` is that a deletion request that is accepted has a time
  other than 0: a query with a zero `until` has no upper bound, and the request would
  remove later events too. `ClockDatesDeletions` shows that a clock that has been set and a
  limit on the age of events are enough.
* `DeletionIsThorough`: every stored event that the request covers has been found or is named
  by a part that comes later (`Pending`). `LookFinds` is the heart of it: a query that its
  limit does not cut short delivers everything (`QueryWhole`), and the index entry does
  not hide an event of the author, if times fit 32 bits. Hence the second hypothesis,
  `ClockFits`: the clock and the tolerance for the future stay below 2^32.
* `AnswerIsComplete`: each filter is met or comes later, and the store has lost nothing but
  what expired since the REQ came (`Progress`). A filter is met by `QueryMeets`, from
  `QueryWhole` and `IndexLosesNothing`. That stored events have 32-bit times (`Fits`) follows
  from `ClockFits` and the validator.

`FiltersProofs`: `IndexLosesNothing`, the part of `AnswerIsComplete` that is about data:
`index_matches_filter` turns away no event that `nostr_filter_matches` would let through,
for a filter of complete ids, keys of at least eight digits and times that fit 32 bits.
The three conditions (`Exact`) and the 32-bit time of the event are needed: each of them
is the place where the entry holds less than the event.

`WsServerProofs`: all safety properties of `WsServer`, from one inductive invariant.
`Phase` lists what `start_relay_server` has set at each of its steps, and is what
`HandlersFindTheirContext` and `StartIsAllOrNothing` follow from; `QuietWhenDown` adds that
without the server task there is neither a session nor work. `NoForeignDelivery` needs
`WorkIsAddressed`: queued work names a descriptor that has not been given to another client,
because `on_close` leaves it open (the leak that the run `WsSocketLeak` shows is what
keeps this property true). `OnlyEarlyResidue` needs `SubscribedWereSessions`: nobody
subscribes before the handler is registered, and a subscription is of a descriptor that
was a session once. `KnockIsBounded` only serves the type of the number of clients.

The invariants behind `QuiescentLossBounded`, `NoRepeat`, `RemovalIsAuthorised`,
`DeletionIsThorough` and `AnswerIsComplete` were also model-checked on the instances of the
runs.

Only model-checked: the liveness properties `ExpiredAreRemoved`, `SlotsAreReclaimed`,
`DestroyTerminates` and `ClientsGetInWhileSocketsLast` (fairness is out of the prover's reach).

## 5. Not modelled

Formatting, parsing and hashing (libnostr, not part of the repository); the
information document, a constant answer; the flash and memory monitors, which log;
WiFi, SNTP and the watchdog, which configure drivers; the calls nothing makes
(`ws_server_stop`, `ws_server_broadcast`, `ws_server_close_connection`,
`storage_get_stats`, `storage_event_exists` outside the save); the tests. A store whose
index and files disagree after a power loss appears in `Relay` only as an event that
cannot be read. Left out of modelled parts, and said where the module is described: tag
conditions of filters, the second reading of `g_server` in the connection callbacks, the
unchecked mutex of the rate limiter, the overhead of NVS.

## 6. Plan

The clock set after the start, as a jump in `StorageEngine`, and what becomes of `Durable` then.
