------------------------------- MODULE Relay -------------------------------
(***************************************************************************)
(* What the relay does with a message: router.c, handlers_stub.c,          *)
(* validator.c, deletion.c and broadcaster.c over the event store and the  *)
(* subscription table, which are used through the specifications that the  *)
(* storage engine and the subscription manager implement.                  *)
(*                                                                         *)
(* The one task of esp_http_server handles a message from its first step   *)
(* to its reply.  It holds the storage lock for single calls only, so the  *)
(* cleanup task may expire an event between any two of them.  What is sent *)
(* to the connection that is being served leaves at once; what is sent to  *)
(* another is queued and sent by the same task when it is idle.            *)
(*                                                                         *)
(* The rate limiter is reduced to its answer.  A connection that is opened *)
(* while the queue still names a closed one is not that connection         *)
(* (WsServer).                                                             *)
(***************************************************************************)
EXTENDS Filters, Sequences

CONSTANTS
    Conns,          \* connections
    SubIds,         \* subscription ids
    Reqs,           \* filter lists that clients send
    Absent,         \* no such subscription
    NoEvent,        \* no event is being handled
    Times,          \* readings of the clock
    MaxAge,         \* max_event_age_sec
    MaxFuture,      \* max_future_sec
    MaxTotal,       \* SUB_MAX_TOTAL
    MaxPerConn,     \* SUB_MAX_PER_CONN
    MaxFilters,     \* ROUTER_MAX_FILTERS
    MaxSentIds,     \* ids of sent events that handle_req remembers (64)
    AddressLimit,   \* limit of the query of delete_by_addresses (100)
    KindLimit,      \* limit of the query of delete_by_kinds (500)
    MaxKinds,       \* k tags that delete_by_kinds reads (32)
    Atoi,           \* the number atoi reads in the text of a k tag
    ScanD,          \* what %255s reads of the d part of an address
    MaxExpired,     \* bound on events that expire during one message
    QueueLimit,     \* work the control socket of the server holds
    MaxFailures     \* bound on allocations and flash accesses that fail

ASSUME RelayAssumption ==
    /\ MaxSentIds \in Nat
    /\ MaxTotal \in Nat
    /\ MaxPerConn \in Nat
    /\ MaxFilters \in Nat
    /\ AddressLimit \in Nat
    /\ KindLimit \in Nat
    /\ QueueLimit \in Nat
    /\ MaxFailures \in Nat
    /\ MaxExpired \in Nat
    /\ MaxKinds \in Nat
    /\ MaxAge \in Nat
    /\ MaxFuture \in Nat
    /\ Times \subseteq Nat
    /\ NoEvent \notin Events

ASSUME TagsAssumption ==
    \A d \in Events :
        /\ Data[d].e \in Seq(Events \cup {NoEvent})
        /\ Data[d].a \in Seq([kind: Int, author: Authors, d: DOMAIN ScanD])
        /\ Data[d].k \in Seq(DOMAIN Atoi)

ASSUME ReqsAssumption == Reqs \subseteq Seq(Filter)

VARIABLES
    open,       \* connections that are open
    table,      \* the subscriptions
    stored,     \* the stored events
    queue,      \* sends that wait for the server task
    job,        \* the message the server task is handling
    failures

vars == <<open, table, stored, queue, job, failures>>

Subs == INSTANCE SubTable WITH FilterLists <- Reqs, NoFilters <- <<>>

Store == INSTANCE EventStore WITH up <- TRUE

-----------------------------------------------------------------------------
(* The job.  stage is what comes next, todo the filters or the parts of a  *)
(* deletion request not yet looked at, found the events fetched and not    *)
(* yet deleted, targets the subscriptions not yet sent to, sent and        *)
(* remembered the ids in an answer, answer the message of the reply.  The  *)
(* rest is there for the properties: before is the store when the message  *)
(* came, expired what the cleanup task took since, sound whether no        *)
(* allocation or flash access has failed, repeated the events sent twice   *)
(* and reached whether anyone was sent the event.                          *)

Idle ==
    [stage |-> "idle", conn |-> Absent, sub |-> Absent, event |-> NoEvent, todo |-> <<>>,
     found |-> {}, targets |-> {}, sent |-> {}, remembered |-> {}, dedup |-> TRUE,
     answer |-> "", at |-> 0, before |-> {}, expired |-> {}, repeated |-> {},
     sound |-> TRUE, reached |-> FALSE]

(* The server task takes a message from connection c. *)
Ready(c) == job.stage = "idle" /\ c \in open

Fail == failures < MaxFailures /\ failures' = failures + 1

NoFail == UNCHANGED failures

-----------------------------------------------------------------------------
(* validator.c *)

IsEphemeral(e) == Data[e].kind \in 20000 .. 29999

IsDeletion(e) == Data[e].kind = 5

(* nostr_event_validate_full: the first thing wrong with the event. *)
ValidateFull(e, now) ==
    IF Data[e].fault # "NOSTR_RELAY_OK" THEN Data[e].fault
    ELSE IF Data[e].created > now + MaxFuture THEN "NOSTR_RELAY_ERR_FUTURE_EVENT"
    ELSE "NOSTR_RELAY_OK"

MapRelayError(err) ==
    CASE err = "NOSTR_RELAY_OK" -> "VALIDATION_OK"
      [] err = "NOSTR_RELAY_ERR_ID_MISMATCH" -> "VALIDATION_ERR_ID"
      [] err \in {"NOSTR_RELAY_ERR_SIG_MISMATCH", "NOSTR_RELAY_ERR_INVALID_SIG"} -> "VALIDATION_ERR_SIG"
      [] err = "NOSTR_RELAY_ERR_FUTURE_EVENT" -> "VALIDATION_ERR_FUTURE"
      [] err = "NOSTR_RELAY_ERR_EXPIRED_EVENT" -> "VALIDATION_ERR_EXPIRED"
      [] OTHER -> "VALIDATION_ERR_SCHEMA"

CheckEventAge(e, now) ==
    IF MaxAge # 0 /\ now - Data[e].created > MaxAge
    THEN "VALIDATION_ERR_TOO_OLD" ELSE "VALIDATION_OK"

(* No proof of work is asked for, and the test for duplicates is a stub. *)
ValidatorCheckEvent(e, now) ==
    IF ValidateFull(e, now) # "NOSTR_RELAY_OK" THEN MapRelayError(ValidateFull(e, now))
    ELSE CheckEventAge(e, now)

ResultToRelayError(result) ==
    CASE result = "VALIDATION_OK" -> "NOSTR_RELAY_OK"
      [] result = "VALIDATION_ERR_SIG" -> "NOSTR_RELAY_ERR_SIG_MISMATCH"
      [] result = "VALIDATION_ERR_ID" -> "NOSTR_RELAY_ERR_ID_MISMATCH"
      [] result = "VALIDATION_ERR_FUTURE" -> "NOSTR_RELAY_ERR_FUTURE_EVENT"
      [] result \in {"VALIDATION_ERR_EXPIRED", "VALIDATION_ERR_TOO_OLD"} -> "NOSTR_RELAY_ERR_EXPIRED_EVENT"
      [] OTHER -> "NOSTR_RELAY_ERR_INVALID_JSON"

(* get_event_rejection_message, and "" for an event that is accepted. *)
Message(err) ==
    CASE err = "NOSTR_RELAY_OK" -> ""
      [] err \in {"NOSTR_RELAY_ERR_INVALID_SIG", "NOSTR_RELAY_ERR_SIG_MISMATCH"} -> "invalid: bad signature"
      [] err \in {"NOSTR_RELAY_ERR_INVALID_ID", "NOSTR_RELAY_ERR_ID_MISMATCH"} -> "invalid: bad event id"
      [] err = "NOSTR_RELAY_ERR_FUTURE_EVENT" -> "invalid: event too far in future"
      [] err = "NOSTR_RELAY_ERR_EXPIRED_EVENT" -> "invalid: event expired"
      [] err = "NOSTR_RELAY_ERR_STORAGE" -> "error: could not save event"
      [] OTHER -> "error: internal error"

-----------------------------------------------------------------------------
(* EVENT: rate limiter, validator, deletion, save, broadcast, reply *)

(* What deletion_process goes through, in its order. *)
DeletionItems(d) ==
    LET ids       == Data[d].e
        addresses == Data[d].a
        kinds     == SubSeq(Data[d].k, 1, IF Len(Data[d].k) < MaxKinds THEN Len(Data[d].k) ELSE MaxKinds)
    IN  [i \in DOMAIN ids |-> [by |-> "id", id |-> ids[i]]]
        \o [i \in DOMAIN addresses |-> [by |-> "address", addr |-> addresses[i]]]
        \o [i \in DOMAIN kinds |-> [by |-> "kind", kind |-> Atoi[kinds[i]]]]

(* Where an event goes once it is valid. *)
Handling(c, e, now) ==
    [Idle EXCEPT !.conn = c, !.event = e, !.before = stored, !.at = now,
                 !.stage = IF IsDeletion(e) THEN "delete" ELSE "save",
                 !.todo = IF IsDeletion(e) THEN DeletionItems(e) ELSE <<>>]

Refusal(c, e, now, message) ==
    [Idle EXCEPT !.conn = c, !.event = e, !.before = stored, !.at = now,
                 !.stage = "reply", !.answer = message]

(* The rate limiter, then the validator, whose two readings of the clock   *)
(* are taken as one.  Whether the event carries an expiration tag that is  *)
(* over is one of its faults, whatever the time.                           *)
ReceiveEvent(c, e) ==
    /\ Ready(c)
    /\ \E now \in Times :
        LET result == ValidatorCheckEvent(e, now)
        IN  \/ job' = Refusal(c, e, now, "rate-limited:")
            \/ /\ result # "VALIDATION_OK"
               /\ job' = Refusal(c, e, now, Message(ResultToRelayError(result)))
            \/ /\ result = "VALIDATION_OK"
               /\ job' = Handling(c, e, now)
    /\ UNCHANGED <<open, table, stored, queue, failures>>

(* nostr_deletion_parse fails: the request is stored without effect. *)
DeletionParseFails ==
    /\ job.stage = "delete"
    /\ job.todo = DeletionItems(job.event)
    /\ job.found = {}
    /\ Fail
    /\ job' = [job EXCEPT !.stage = "save", !.todo = <<>>, !.sound = FALSE]
    /\ UNCHANGED <<open, table, stored, queue>>

(* The results a query of the store may have: as many of the selected      *)
(* events as the limit allows.                                             *)
QueryResults(f, limit) ==
    LET hits  == Selected(stored, f)
        count == IF Cardinality(hits) < QueryLimit(limit) THEN Cardinality(hits) ELSE QueryLimit(limit)
    IN  {r \in SUBSET hits : Cardinality(r) = count}

(* The filter of delete_by_addresses and delete_by_kinds. *)
AuthorsEvents(d, kind, limit) ==
    [ids |-> {}, authors |-> {[of |-> Data[d].author, len |-> HexDigits]}, kinds |-> {kind},
     since |-> 0, until |-> Data[d].created, limit |-> limit]

(* Mutant: the d part of an address is compared the wrong way round. *)
LookSwapsD(d, item) ==
    CASE item.by = "id" ->
            {{e \in {item.id} \cap stored : Data[e].author = Data[d].author}}
      [] item.by = "address" ->
            IF item.addr.author # Data[d].author THEN {{}}
            ELSE {{e \in r : Data[e].d # ScanD[item.addr.d]} :
                     r \in QueryResults(AuthorsEvents(d, item.addr.kind, AddressLimit), AddressLimit)}
      [] item.by = "kind" -> QueryResults(AuthorsEvents(d, item.kind, KindLimit), KindLimit)

(* The sets of events that one part of the request may find to delete:     *)
(* storage_get_event and the author's name, or a query.                    *)
Look(d, item) ==
    CASE item.by = "id" ->
            {{e \in {item.id} \cap stored : Data[e].author = Data[d].author}}
      [] item.by = "address" ->
            IF item.addr.author # Data[d].author THEN {{}}
            ELSE {{e \in r : Data[e].d = ScanD[item.addr.d]} :
                     r \in QueryResults(AuthorsEvents(d, item.addr.kind, AddressLimit), AddressLimit)}
      [] item.by = "kind" -> QueryResults(AuthorsEvents(d, item.kind, KindLimit), KindLimit)

DeletionLook ==
    /\ job.stage = "delete"
    /\ job.found = {}
    /\ job.todo # <<>>
    /\ \E found \in Look(job.event, Head(job.todo)) :
        \/ /\ job' = [job EXCEPT !.todo = Tail(@), !.found = found]
           /\ NoFail
        \/ \E read \in SUBSET found :       \* no memory for some of it
            /\ Fail
            /\ job' = [job EXCEPT !.todo = Tail(@), !.found = read, !.sound = FALSE]
    /\ UNCHANGED <<open, table, stored, queue>>

(* storage_delete_event, which answers NOT_FOUND when the event is gone. *)
DeletionRemove(e) ==
    /\ job.stage = "delete"
    /\ e \in job.found
    /\ \/ Store!Delete(e)
       \/ e \notin stored /\ UNCHANGED stored
    /\ job' = [job EXCEPT !.found = @ \ {e}]
    /\ UNCHANGED <<open, table, queue, failures>>

DeletionDone ==
    /\ job.stage = "delete"
    /\ job.todo = <<>>
    /\ job.found = {}
    /\ job' = [job EXCEPT !.stage = "save"]
    /\ UNCHANGED <<open, table, stored, queue, failures>>

(* The subscriptions sub_manager_match finds. *)
Matching(e) == {k \in Subs!Present : FiltersMatch(table[k], e)}

(* sub_manager_match, at the head of broadcaster_fanout. *)
Broadcasting == [job EXCEPT !.stage = "fanout", !.targets = Matching(job.event)]

(* Mutant: an event that cannot be stored is broadcast all the same. *)
SaveEventAnyway ==
    /\ job.stage = "save"
    /\ \/ Store!Save(job.event) /\ NoFail
       \/ job.event \in stored /\ UNCHANGED stored /\ NoFail
       \/ UNCHANGED stored /\ Fail
       \/ IsEphemeral(job.event) /\ UNCHANGED stored /\ NoFail
    /\ job' = Broadcasting
    /\ UNCHANGED <<open, table, queue>>

(* Mutant: the entry is made although the file could not be written. *)
SaveEventHalfWay ==
    /\ job.stage = "save"
    /\ \/ /\ Fail
          /\ Store!Save(job.event)
          /\ job' = [job EXCEPT !.stage = "reply", !.sound = FALSE,
                                !.answer = Message("NOSTR_RELAY_ERR_STORAGE")]
       \/ /\ job' = Broadcasting
          /\ UNCHANGED <<stored, failures>>
    /\ UNCHANGED <<open, table, queue>>

(* The save: a duplicate is as good as a success, a full store or a flash  *)
(* error ends the message.                                                 *)
SaveEvent ==
    /\ job.stage = "save"
    /\ IF IsEphemeral(job.event)
       THEN /\ UNCHANGED <<stored, failures>>
            /\ job' = Broadcasting
       ELSE \/ /\ Store!Save(job.event)
               /\ job' = Broadcasting
               /\ NoFail
            \/ /\ job.event \in stored
               /\ job' = Broadcasting
               /\ UNCHANGED <<stored, failures>>
            \/ /\ Fail
               /\ job' = [job EXCEPT !.stage = "reply", !.sound = FALSE,
                                     !.answer = Message("NOSTR_RELAY_ERR_STORAGE")]
               /\ UNCHANGED stored
    /\ UNCHANGED <<open, table, queue>>

(* router_send_event to one of the matching subscriptions: at once on the  *)
(* connection being served, else queued.  It is lost when there is no      *)
(* memory for it or no room in the queue.                                  *)
FanoutSend(k) ==
    /\ job.stage = "fanout"
    /\ k \in job.targets
    /\ \/ /\ k[1] = job.conn
          /\ UNCHANGED <<queue, failures>>
       \/ /\ k[1] # job.conn
          /\ Len(queue) < QueueLimit
          /\ queue' = Append(queue, [key |-> k, event |-> job.event])
          /\ NoFail
       \/ /\ k[1] # job.conn
          /\ Len(queue) = QueueLimit
          /\ UNCHANGED <<queue, failures>>
       \/ /\ Fail
          /\ UNCHANGED queue
    /\ job' = [job EXCEPT !.targets = @ \ {k}, !.reached = TRUE]
    /\ UNCHANGED <<open, table, stored>>

FanoutDone ==
    /\ job.stage = "fanout"
    /\ job.targets = {}
    /\ job' = [job EXCEPT !.stage = "reply"]
    /\ UNCHANGED <<open, table, stored, queue, failures>>

(* router_send_ok, router_send_eose, or the CLOSED that refuses a REQ. *)
Reply ==
    /\ job.stage = "reply"
    /\ job' = Idle
    /\ UNCHANGED <<open, table, stored, queue, failures>>

-----------------------------------------------------------------------------
(* REQ *)

(* Rate limiter, an empty id, or more filters than a subscription takes:   *)
(* CLOSED, and an earlier subscription of that id stays as it is.          *)
RefuseReq(c, s) ==
    /\ Ready(c)
    /\ job' = [Idle EXCEPT !.stage = "reply", !.conn = c, !.sub = s, !.answer = "closed"]
    /\ UNCHANGED <<open, table, stored, queue, failures>>

Answering(c, s, fs, dedup) ==
    [Idle EXCEPT !.stage = "query", !.conn = c, !.sub = s, !.todo = fs, !.before = stored,
                 !.dedup = dedup]

(* handle_req: sub_manager_add opens or replaces the subscription, and the *)
(* list of sent ids is allocated.                                          *)
ReceiveReq(c, s, fs) ==
    /\ Ready(c)
    /\ Len(fs) <= MaxFilters
    /\ Subs!Open(<<c, s>>, fs) \/ Subs!Replace(<<c, s>>, fs)
    /\ \/ /\ job' = Answering(c, s, fs, TRUE)
          /\ NoFail
       \/ /\ job' = Answering(c, s, fs, FALSE)
          /\ Fail
    /\ UNCHANGED <<open, stored, queue>>

(* sub_manager_add finds no room, or no memory for the filters: CLOSED.  A *)
(* subscription that was being replaced is left without filters.           *)
ReqNotAdded(c, s) ==
    /\ Ready(c)
    /\ \/ Subs!Starve(<<c, s>>) /\ Fail
       \/ /\ <<c, s>> \notin Subs!Present
          /\ (~Subs!HasRoom(<<c, s>>) /\ NoFail) \/ Fail
          /\ UNCHANGED table
    /\ job' = [Idle EXCEPT !.stage = "reply", !.conn = c, !.sub = s, !.answer = "closed"]
    /\ UNCHANGED <<open, stored, queue>>

(* Mutant: an id is not looked up before it is sent. *)
WithResultsNoLookup(r, kept, sound) ==
    [job EXCEPT !.todo = Tail(@), !.sent = @ \cup r, !.sound = sound,
                !.remembered = @ \cup kept, !.repeated = @ \cup (r \cap job.sent)]

(* The results of one filter are sent, but for those remembered as sent;   *)
(* kept are the ones that are remembered now.  Sent is what was handed to  *)
(* router_send_event: when that fails the id is remembered all the same.   *)
WithResults(r, kept, sound) ==
    [job EXCEPT !.todo = Tail(@), !.sent = @ \cup r, !.sound = sound,
                !.remembered = @ \cup kept,
                !.repeated = @ \cup ((r \ job.remembered) \cap job.sent)]

(* The ids remembered of the ones just sent: as many as there is room for. *)
Remembered(r) ==
    LET fresh == r \ job.remembered
        room  == IF job.dedup THEN MaxSentIds - Cardinality(job.remembered) ELSE 0
    IN  {m \in SUBSET fresh :
            Cardinality(m) = IF Cardinality(fresh) < room THEN Cardinality(fresh) ELSE room}

(* One filter of the REQ: a query of the store, and its results sent. *)
AnswerFilter ==
    /\ job.stage = "query"
    /\ job.todo # <<>>
    /\ LET f == Head(job.todo)
       IN  \E r \in QueryResults(f, ReqLimit(f)) :
            \/ /\ \E kept \in Remembered(r) : job' = WithResults(r, kept, job.sound)
               /\ NoFail
            \/ \E read \in SUBSET r :           \* no memory for some of it, or to send it
                /\ Fail
                /\ \E kept \in Remembered(read) : job' = WithResults(read, kept, FALSE)
    /\ UNCHANGED <<open, table, stored, queue>>

AnswerDone ==
    /\ job.stage = "query"
    /\ job.todo = <<>>
    /\ job' = [job EXCEPT !.stage = "reply", !.answer = "eose"]
    /\ UNCHANGED <<open, table, stored, queue, failures>>

-----------------------------------------------------------------------------
(* CLOSE, other messages, connections, and the work of the idle server *)

(* CLOSE: CLOSED is sent whether or not there was such a subscription. *)
ReceiveClose(c, s) ==
    /\ Ready(c)
    /\ \/ Subs!Close(<<c, s>>)
       \/ <<c, s>> \notin Subs!Present /\ UNCHANGED table
    /\ job' = [Idle EXCEPT !.stage = "reply", !.conn = c, !.sub = s, !.answer = "closed"]
    /\ UNCHANGED <<open, stored, queue, failures>>

(* AUTH, an unknown type, or text that does not parse: a NOTICE. *)
ReceiveOther(c) ==
    /\ Ready(c)
    /\ job' = [Idle EXCEPT !.stage = "reply", !.conn = c, !.answer = "notice"]
    /\ UNCHANGED <<open, table, stored, queue, failures>>

(* ws_async_send for the oldest work: httpd_ws_send_frame_async fails when *)
(* the connection has been closed.                                         *)
RunWork ==
    /\ job.stage = "idle"
    /\ queue # <<>>
    /\ queue' = Tail(queue)
    /\ UNCHANGED <<open, table, stored, job, failures>>

OpenConn(c) ==
    /\ job.stage = "idle"
    /\ c \notin open
    /\ \A i \in DOMAIN queue : queue[i].key[1] # c
    /\ open' = open \cup {c}
    /\ UNCHANGED <<table, stored, queue, job, failures>>

(* Mutant: the subscriptions stay. *)
CloseConnKeepsSubs(c) ==
    /\ Ready(c)
    /\ open' = open \ {c}
    /\ UNCHANGED <<table, stored, queue, job, failures>>

(* on_ws_disconnect.  Every close calls it, since the callback is taken to *)
(* be set: start_relay_server sets it when the server runs already, and a  *)
(* close before that leaves the subscriptions behind (see WsServer).       *)
CloseConn(c) ==
    /\ Ready(c)
    /\ open' = open \ {c}
    /\ Subs!Disconnect(c)
    /\ UNCHANGED <<stored, queue, job, failures>>

(* The cleanup task, or the query that the server task is about to make,   *)
(* finds a stored event expired.                                           *)
Expire(e) ==
    /\ Store!Delete(e)
    /\ Cardinality(job.expired) < MaxExpired
    /\ job' = IF job.stage = "idle" THEN job ELSE [job EXCEPT !.expired = @ \cup {e}]
    /\ UNCHANGED <<open, table, queue, failures>>

-----------------------------------------------------------------------------
Init ==
    /\ open = {}
    /\ Subs!Init
    /\ stored = {}
    /\ queue = <<>>
    /\ job = Idle
    /\ failures = 0

Receive ==
    \E c \in Conns :
        \/ \E e \in Events : ReceiveEvent(c, e)
        \/ \E s \in SubIds :
            \/ RefuseReq(c, s)
            \/ \E fs \in Reqs : ReceiveReq(c, s, fs)
            \/ ReqNotAdded(c, s)
            \/ ReceiveClose(c, s)
        \/ ReceiveOther(c)

Handle ==
    \/ DeletionParseFails \/ DeletionLook \/ DeletionDone
    \/ \E e \in Events : DeletionRemove(e)
    \/ SaveEvent
    \/ \E k \in Subs!Keys : FanoutSend(k)
    \/ FanoutDone
    \/ AnswerFilter \/ AnswerDone
    \/ Reply

Connection == \E c \in Conns : OpenConn(c) \/ CloseConn(c)

Next ==
    \/ Receive \/ Handle \/ RunWork \/ Connection
    \/ \E e \in Events : Expire(e)

Spec == Init /\ [][Next]_vars

-----------------------------------------------------------------------------
(* Properties *)

(* Every variable keeps its type: subscriptions belong to open connections *)
(* (once the disconnect callback is set) and the queue keeps to its limit. *)
TypeOK ==
    /\ open \subseteq Conns
    /\ table \in [Subs!Keys -> Reqs \cup {<<>>, Absent}]
    /\ \A k \in Subs!Present : k[1] \in open
    /\ stored \subseteq Events
    /\ queue \in Seq([key: Subs!Keys, event: Events])
    /\ Len(queue) <= QueueLimit
    /\ failures \in 0 .. MaxFailures
    /\ job.stage \in {"idle", "delete", "save", "fanout", "query", "reply"}
    /\ job.stage = "idle" => job = Idle
    /\ job.stage # "idle" => job.conn \in open
    /\ job.found \cup job.sent \cup job.before \cup job.expired \subseteq Events
    /\ job.targets \subseteq Subs!Present
    /\ job.remembered \subseteq job.sent

Replying == job.stage = "reply" /\ job.event # NoEvent

(* What the validator is meant to let through. *)
Acceptable(e, now) ==
    /\ Data[e].fault = "NOSTR_RELAY_OK"
    /\ Data[e].created <= now + MaxFuture
    /\ MaxAge = 0 \/ now <= Data[e].created + MaxAge

(* OK true is the truth: the event is valid and recent, and unless it is   *)
(* ephemeral it is stored or has expired since, also when it was stored    *)
(* before and when it is a request that deletes its own kind.              *)
OkIsTrue ==
    Replying /\ job.answer = "" =>
        /\ Acceptable(job.event, job.at)
        /\ IsEphemeral(job.event) \/ job.event \in stored \cup job.expired

(* What is gone from the store since the message came, and not expired. *)
Removed == job.before \ (stored \cup job.expired)

(* OK false leaves nothing behind: the event is not stored and nobody was  *)
(* sent it.  Only a deletion request that could not be saved has had its   *)
(* effect.                                                                 *)
RefusedLeavesNoTrace ==
    Replying /\ job.answer # "" =>
        /\ stored \subseteq job.before
        /\ ~job.reached
        /\ job.answer # Message("NOSTR_RELAY_ERR_STORAGE") => Removed = {}

(* Events the e tags of d name. *)
NamedById(d, e) == \E i \in DOMAIN Data[d].e : Data[d].e[i] = e

(* Events the a tags of d name, as deletion.c reads them. *)
NamedByAddress(d, e) ==
    \E i \in DOMAIN Data[d].a :
        /\ Data[d].a[i].kind = Data[e].kind
        /\ Data[d].a[i].author = Data[e].author
        /\ ScanD[Data[d].a[i].d] = Data[e].d
        /\ Data[e].created <= Data[d].created

(* Events of a kind that a k tag of d names, as deletion.c reads it. *)
OfNamedKind(d, e) ==
    /\ \E i \in DOMAIN Data[d].k : Atoi[Data[d].k[i]] = Data[e].kind
    /\ Data[e].created <= Data[d].created

(* What the deletion request d is to remove. *)
Covers(d, e) ==
    /\ Data[e].author = Data[d].author
    /\ NamedById(d, e) \/ NamedByAddress(d, e) \/ OfNamedKind(d, e)

(* Handling a message takes an event out of the store only if the message  *)
(* is a deletion request of the author of that event, and covers it,       *)
(* although an index entry holds no more than four bytes of the author's   *)
(* key and an event fetched in one lock section is deleted in another.     *)
RemovalIsAuthorised ==
    \A e \in Removed : job.event # NoEvent /\ IsDeletion(job.event) /\ Covers(job.event, e)

(* No query of the deletion request d is cut short by its limit. *)
WithinLimits(d) ==
    LET older(kind) == {e \in job.before : /\ Data[e].author = Data[d].author
                                           /\ Data[e].kind = kind
                                           /\ Data[e].created <= Data[d].created}
    IN  /\ \A i \in DOMAIN Data[d].a :
              Cardinality(older(Data[d].a[i].kind)) <= QueryLimit(AddressLimit)
        /\ \A i \in DOMAIN Data[d].k :
              Cardinality(older(Atoi[Data[d].k[i]])) <= QueryLimit(KindLimit)
        /\ Len(Data[d].k) <= MaxKinds

(* When a deletion request has been carried out, nothing it covers is left *)
(* (unless an allocation failed or a query met its limit), whatever the    *)
(* cleanup task has expired in between.                                    *)
DeletionIsThorough ==
    job.stage = "save" /\ IsDeletion(job.event) /\ job.sound /\ WithinLimits(job.event) =>
        \A e \in stored : ~Covers(job.event, e)

(* An answer holds every stored event that the filters ask for, and no     *)
(* other: the test on the index, which is cruder than the test on the      *)
(* event, loses none for a filter made of complete ids, keys and 32-bit    *)
(* times whose limit is not exceeded.  The limit is the one after the cut  *)
(* to 16 bits: a filter that asks for 65536 events or more is held to less *)
(* than it asks for, and exempt.                                           *)
AnswerIsComplete ==
    job.stage = "reply" /\ job.answer = "eose" /\ job.sound =>
        LET fs       == table[<<job.conn, job.sub>>]
            asked(f) == {e \in job.before : FilterMatches(f, e)}
        IN  /\ \A e \in job.sent : FiltersMatch(fs, e)
            /\ \A i \in DOMAIN fs :
                  Exact(fs[i]) /\ Cardinality(asked(fs[i])) <= QueryLimit(ReqLimit(fs[i]))
                      => asked(fs[i]) \ job.expired \subseteq job.sent

(* An answer repeats an event that several filters match only when the     *)
(* list of sent ids is full or could not be allocated.                     *)
NoRepeat ==
    job.repeated # {} => ~job.dedup \/ Cardinality(job.sent) > MaxSentIds

(* test_delete_nonexistent, "delete nothing": a deletion request removes   *)
(* the events its e and a tags name and no other.                          *)
OnlyNamedRemoved ==
    \A e \in Removed : NamedById(job.event, e) \/ NamedByAddress(job.event, e)

=============================================================================
