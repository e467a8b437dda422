--------------------------- MODULE RequestProofs ---------------------------
(***************************************************************************)
(* What a REQ is answered with and what a deletion request removes, for    *)
(* any events, filters and limits, and however the cleanup task cuts in    *)
(* between the steps of a message.                                         *)
(***************************************************************************)
EXTENDS RelayProofs

(* A finite set has no other subset of its size than itself. *)
LEMMA WholeSet ==
    ASSUME NEW S, IsFiniteSet(S), NEW T, T \subseteq S, Cardinality(T) = Cardinality(S)
    PROVE  T = S
  BY FS_Subset

LEMMA EventsCount ==
    ASSUME NEW S, S \subseteq Events
    PROVE  IsFiniteSet(S) /\ Cardinality(S) \in Nat
  BY DataAssumption, FS_Subset, FS_CardinalityType

(* What the server task knows when it starts on a message. *)
EmptyJob ==
    /\ job'.sent = {} /\ job'.remembered = {} /\ job'.repeated = {}
    /\ job'.found = {} /\ job'.expired = {} /\ job'.before \in {{}, stored}
    /\ stored' = stored /\ job'.answer # "eose"

StartsOnEvent ==
    /\ job'.event \in Events
    /\ \E now \in Times : Acceptable(job'.event, now)
    /\ \/ job'.stage = "save" /\ ~IsDeletion(job'.event)
       \/ /\ job'.stage = "delete" /\ IsDeletion(job'.event)
          /\ job'.todo = DeletionItems(job'.event) /\ job'.before = stored

StartsOnReq ==
    /\ job'.stage = "query" /\ job'.before = stored
    /\ \E c \in Conns, s \in SubIds :
        /\ job'.conn = c /\ job'.sub = s /\ job'.todo \in Reqs
        /\ table' = [table EXCEPT ![<<c, s>>] = job'.todo]

LEMMA FreshJob ==
    ASSUME Receive
    PROVE  EmptyJob /\ (job'.stage = "reply" \/ StartsOnEvent \/ StartsOnReq)
<1> SUFFICES ASSUME NEW c \in Conns,
                    \/ \E e \in Events : ReceiveEvent(c, e)
                    \/ \E s \in SubIds :
                        \/ RefuseReq(c, s)
                        \/ \E fs \in Reqs : ReceiveReq(c, s, fs)
                        \/ ReqNotAdded(c, s)
                        \/ ReceiveClose(c, s)
                    \/ ReceiveOther(c)
             PROVE  EmptyJob /\ (job'.stage = "reply" \/ StartsOnEvent \/ StartsOnReq)
  BY DEF Receive
<1>1. ASSUME NEW s,
             job' = [Idle EXCEPT !.stage = "reply", !.conn = c, !.sub = s, !.answer = "closed"],
             stored' = stored
      PROVE  EmptyJob /\ job'.stage = "reply"
  BY <1>1, IdleShape, IdleIsEmpty DEF Fields, EmptyJob
<1>2. ASSUME NEW s \in SubIds, RefuseReq(c, s) \/ ReqNotAdded(c, s) \/ ReceiveClose(c, s)
      PROVE  EmptyJob /\ job'.stage = "reply"
  <2>1. /\ job' = [Idle EXCEPT !.stage = "reply", !.conn = c, !.sub = s, !.answer = "closed"]
        /\ stored' = stored
    BY <1>2 DEF RefuseReq, ReqNotAdded, ReceiveClose
  <2> QED
    BY <1>1, <2>1
<1>3. ASSUME ReceiveOther(c) PROVE EmptyJob /\ job'.stage = "reply"
  BY <1>3, IdleShape, IdleIsEmpty DEF ReceiveOther, Fields, EmptyJob
<1>4. ASSUME NEW e \in Events, ReceiveEvent(c, e)
      PROVE  EmptyJob /\ (job'.stage = "reply" \/ StartsOnEvent)
  <2>1. PICK now \in Times :
            \/ \E message : message # "eose" /\ job' = Refusal(c, e, now, message)
            \/ ValidatorCheckEvent(e, now) = "VALIDATION_OK" /\ job' = Handling(c, e, now)
    <3>1. \A err : Message(err) # "eose"
      BY DEF Message
    <3> QED
      BY <1>4, <3>1 DEF ReceiveEvent
  <2>2. stored' = stored
    BY <1>4 DEF ReceiveEvent
  <2>3. ASSUME NEW message, message # "eose", job' = Refusal(c, e, now, message)
        PROVE  EmptyJob /\ job'.stage = "reply"
    BY <2>2, <2>3, IdleShape, IdleIsEmpty DEF Refusal, Fields, EmptyJob
  <2>4. CASE ValidatorCheckEvent(e, now) = "VALIDATION_OK" /\ job' = Handling(c, e, now)
    <3>1. /\ EmptyJob /\ job'.event = e /\ job'.before = stored
          /\ job'.stage = IF IsDeletion(e) THEN "delete" ELSE "save"
          /\ IsDeletion(e) => job'.todo = DeletionItems(e)
      BY <2>2, <2>4, IdleShape, IdleIsEmpty DEF Handling, Fields, EmptyJob
    <3>2. Acceptable(e, now)
      BY <2>4, ValidIsAcceptable
    <3>3. StartsOnEvent
      BY <3>1, <3>2 DEF StartsOnEvent
    <3> QED
      BY <3>1, <3>3
  <2> QED
    BY <2>1, <2>3, <2>4
<1>5. ASSUME NEW s \in SubIds, NEW fs \in Reqs, ReceiveReq(c, s, fs)
      PROVE  EmptyJob /\ StartsOnReq
  <2>1. PICK dedup : job' = Answering(c, s, fs, dedup)
    BY <1>5 DEF ReceiveReq
  <2>2. stored' = stored /\ table' = [table EXCEPT ![<<c, s>>] = fs]
    BY <1>5 DEF ReceiveReq, Subs!Open, Subs!Replace
  <2>3. EmptyJob
    BY <2>1, <2>2, IdleShape, IdleIsEmpty DEF Answering, Fields, EmptyJob
  <2>4. job'.stage = "query" /\ job'.before = stored /\ job'.conn = c /\ job'.sub = s /\ job'.todo = fs
    BY <2>1, IdleShape DEF Answering, Fields
  <2> QED
    BY <2>2, <2>3, <2>4 DEF StartsOnReq
<1> QED
  BY <1>2, <1>3, <1>4, <1>5

-----------------------------------------------------------------------------
(* An answer repeats nothing *)

(* As long as the ids sent fit the list, the list has them all. *)
Recall ==
    job.dedup /\ Cardinality(job.sent) <= MaxSentIds
        => job.remembered = job.sent /\ job.repeated = {}

LEMMA RecallKept ==
    ASSUME Recall, job'.dedup = job.dedup, job'.sent = job.sent,
           job'.remembered = job.remembered, job'.repeated = job.repeated
    PROVE  Recall'
  BY DEF Recall

LEMMA RecallFresh ==
    ASSUME job'.sent = {}, job'.remembered = {}, job'.repeated = {}
    PROVE  Recall'
  BY DEF Recall

(* The results of one filter: what is sent again is what was not on the    *)
(* list, and what is new goes on the list if there is room for all of it.  *)
LEMMA RecallAnswer ==
    ASSUME Typed, Recall, NEW r, r \subseteq Events, NEW kept \in Remembered(r),
           NEW sound, job' = WithResults(r, kept, sound)
    PROVE  Recall'
<1>1. /\ job'.sent = job.sent \cup r /\ job'.remembered = job.remembered \cup kept
      /\ job'.repeated = job.repeated \cup ((r \ job.remembered) \cap job.sent)
      /\ job'.dedup = job.dedup
  BY DEF WithResults, Typed, Shape, Fields
<1>2. job.sent \subseteq Events
  BY DEF Typed, TypeOK
<1> SUFFICES ASSUME job.dedup, Cardinality(job.sent \cup r) <= MaxSentIds
             PROVE  job'.remembered = job'.sent /\ job'.repeated = {}
  BY <1>1 DEF Recall
<1>3. /\ IsFiniteSet(job.sent \cup r) /\ Cardinality(job.sent \cup r) \in Nat
      /\ IsFiniteSet(job.sent) /\ Cardinality(job.sent) \in Nat
      /\ IsFiniteSet(r \ job.sent) /\ Cardinality(r \ job.sent) \in Nat
  BY <1>2, EventsCount
<1>4. Cardinality(job.sent \cup r) = Cardinality(job.sent) + Cardinality(r \ job.sent)
  <2> DEFINE new == r \ job.sent
  <2>1. /\ job.sent \cup r = job.sent \cup new /\ job.sent \cap new = {}
        /\ IsFiniteSet(new) /\ Cardinality(new) \in Nat
    BY <1>3
  <2> HIDE DEF new
  <2>2. /\ IsFiniteSet(job.sent \cup new)
        /\ Cardinality(job.sent \cup new) = Cardinality(job.sent) + Cardinality(new) - Cardinality(job.sent \cap new)
    BY <1>3, <2>1, FS_Union, Zenon
  <2>3. Cardinality({}) = 0
    BY FS_EmptySet
  <2>4. Cardinality(job.sent \cup r) = Cardinality(job.sent \cup new) /\ Cardinality(job.sent \cap new) = 0
    BY <2>1, <2>3, Zenon
  <2>5. Cardinality(job.sent \cup r) = Cardinality(job.sent) + Cardinality(new)
    BY <1>3, <2>1, <2>2, <2>4
  <2> QED
    BY <2>5 DEF new
<1>5. Cardinality(job.sent) <= MaxSentIds
  BY <1>3, <1>4, RelayAssumption
<1>6. job.remembered = job.sent /\ job.repeated = {}
  BY <1>5 DEF Recall
<1>7. kept \subseteq r \ job.sent /\ Cardinality(kept) = Cardinality(r \ job.sent)
  <2>1. /\ kept \subseteq r \ job.sent
        /\ Cardinality(kept) = IF Cardinality(r \ job.sent) < MaxSentIds - Cardinality(job.sent)
                               THEN Cardinality(r \ job.sent) ELSE MaxSentIds - Cardinality(job.sent)
    BY <1>6 DEF Remembered
  <2> QED
    BY <1>3, <1>4, <2>1, RelayAssumption
<1>8. kept = r \ job.sent
  BY <1>3, <1>7, WholeSet
<1> QED
  BY <1>1, <1>6, <1>8

LEMMA RecallStep == Typed /\ Recall /\ [Next]_vars => Recall'
<1> SUFFICES ASSUME Typed, Recall, [Next]_vars PROVE Recall'
  OBVIOUS
<1>0. DOMAIN job = Fields
  BY DEF Typed, Shape
<1>1. CASE Receive
  <2>1. job'.sent = {} /\ job'.remembered = {} /\ job'.repeated = {}
    BY <1>1, FreshJob DEF EmptyJob
  <2> QED
    BY <2>1, RecallFresh
<1>2. CASE Handle
  <2>1. CASE DeletionLook
    BY <2>1, LookStep, RecallKept DEF OnlyLooks, Typed
  <2>2. CASE AnswerFilter
    <3>1. PICK r, read, kept, sound :
            /\ r \in QueryResults(Head(job.todo), ReqLimit(Head(job.todo)))
            /\ read \subseteq r /\ kept \in Remembered(read)
            /\ job' = WithResults(read, kept, sound)
      BY <2>2, AnswerStep
    <3>2. read \subseteq Events
      BY <3>1, QueryIsStored DEF Typed, TypeOK
    <3> QED
      BY <3>1, <3>2, RecallAnswer
  <2>3. CASE Reply
    BY <2>3, IdleIsEmpty, RecallFresh DEF Reply
  <2>4. CASE SaveEvent
    <3>1. \/ job' = Broadcasting
          \/ job' = [job EXCEPT !.stage = "reply", !.sound = FALSE, !.answer = Message("NOSTR_RELAY_ERR_STORAGE")]
      BY <2>4 DEF SaveEvent
    <3> QED
      BY <1>0, <3>1, RecallKept DEF Broadcasting, Fields
  <2>5. ASSUME NEW e, DeletionRemove(e) PROVE Recall'
    BY <1>0, <2>5, RecallKept DEF DeletionRemove, Fields
  <2>6. ASSUME NEW k, FanoutSend(k) PROVE Recall'
    BY <1>0, <2>6, RecallKept DEF FanoutSend, Fields
  <2>7. CASE DeletionParseFails \/ DeletionDone \/ FanoutDone \/ AnswerDone
    BY <1>0, <2>7, RecallKept DEF DeletionParseFails, DeletionDone, FanoutDone, AnswerDone, Fields
  <2> QED
    BY <1>2, <2>1, <2>2, <2>3, <2>4, <2>5, <2>6, <2>7 DEF Handle
<1>3. CASE job' = job
  BY <1>3, RecallKept
<1>4. ASSUME NEW e, Expire(e) PROVE Recall'
  BY <1>0, <1>4, RecallKept DEF Expire, Fields
<1> QED
  BY <1>1, <1>2, <1>3, <1>4 DEF Next, RunWork, Connection, OpenConn, CloseConn, vars

(* handle_req sends no event twice in one answer, however many filters     *)
(* match it, as long as the list of sent ids was allocated and holds all   *)
(* that was sent.                                                          *)
THEOREM NoRepeatThm == Spec => []NoRepeat
<1>1. Init => Recall
  BY IdleIsEmpty DEF Init, Recall
<1>2. Typed /\ Recall => NoRepeat
  <2> SUFFICES ASSUME Typed, Recall, job.repeated # {}, job.dedup, ~(Cardinality(job.sent) > MaxSentIds)
               PROVE  FALSE
    BY DEF NoRepeat
  <2>1. Cardinality(job.sent) \in Nat
    BY EventsCount DEF Typed, TypeOK
  <2> QED
    BY <2>1, RelayAssumption DEF Recall
<1> QED
  BY <1>1, <1>2, TypedHolds, RecallStep, PTL DEF Spec

-----------------------------------------------------------------------------
(* A deletion removes only what it covers *)

(* A deletion request that is accepted has a time, which is the upper      *)
(* bound of its queries: 0 would be no bound.                              *)
DeletionsAreDated ==
    \A d \in Events, now \in Times : IsDeletion(d) /\ Acceptable(d, now) => Data[d].created > 0

(* It is enough that the clock has been set and that there is a limit on   *)
(* the age of an event.                                                    *)
LEMMA ClockDatesDeletions ==
    ASSUME MaxAge # 0, \A now \in Times : now > MaxAge
    PROVE  DeletionsAreDated
<1> SUFFICES ASSUME NEW d \in Events, NEW now \in Times, Acceptable(d, now) PROVE Data[d].created > 0
  BY DEF DeletionsAreDated
<1>1. Data[d].created \in Nat /\ now \in Nat /\ MaxAge \in Nat
  BY DataAssumption, RelayAssumption
<1>2. now <= Data[d].created + MaxAge /\ now > MaxAge
  BY DEF Acceptable
<1> QED
  BY <1>1, <1>2

(* The queries of deletion.c deliver events of the author of the request,  *)
(* of the kind asked for and no later than the request.                    *)
LEMMA DeletionQuery ==
    ASSUME stored \subseteq Events, NEW d \in Events, Data[d].created > 0, NEW kind, NEW limit,
           NEW r \in QueryResults(AuthorsEvents(d, kind, limit), limit), NEW e \in r
    PROVE  Data[e].author = Data[d].author /\ Data[e].kind = kind /\ Data[e].created <= Data[d].created
<1> DEFINE f == AuthorsEvents(d, kind, limit)
<1>1. FilterMatches(f, e) /\ e \in Events
  BY QueryIsStored
<1>2. /\ f.kinds = {kind} /\ f.until = Data[d].created
      /\ f.authors = {[of |-> Data[d].author, len |-> HexDigits]}
  BY DEF AuthorsEvents
<1> HIDE DEF f
<1>3. Data[e].kind = kind /\ Data[e].created <= Data[d].created
  BY <1>1, <1>2 DEF FilterMatches
<1>4. Shared[<<Data[d].author, Data[e].author>>] >= HexDigits
  <2>1. PICK p \in f.authors : Shared[<<p.of, Data[e].author>>] >= p.len
    BY <1>1, <1>2 DEF FilterMatches
  <2> QED
    BY <1>2, <2>1
<1>5. Data[d].author \in Authors /\ Data[e].author \in Authors
  BY <1>1, DataAssumption
<1> QED
  BY <1>3, <1>4, <1>5, SameAuthor

LEMMA LookCovers ==
    ASSUME stored \subseteq Events, NEW d \in Events, Data[d].created > 0,
           NEW item \in ItemsOf(d), NEW found \in Look(d, item), NEW e \in found
    PROVE  Covers(d, e)
<1>1. ASSUME NEW i \in DOMAIN Data[d].e, item = [by |-> "id", id |-> Data[d].e[i]] PROVE Covers(d, e)
  <2>1. item.by = "id" /\ item.id = Data[d].e[i]
    BY <1>1
  <2>2. e = item.id /\ Data[e].author = Data[d].author
    BY <2>1 DEF Look
  <2> QED
    BY <2>1, <2>2 DEF Covers, NamedById
<1>2. ASSUME NEW i \in DOMAIN Data[d].a, item = [by |-> "address", addr |-> Data[d].a[i]] PROVE Covers(d, e)
  <2>1. item.by = "address" /\ item.addr = Data[d].a[i]
    BY <1>2
  <2>2. item.addr.author = Data[d].author
    BY <2>1 DEF Look
  <2>3. PICK r \in QueryResults(AuthorsEvents(d, item.addr.kind, AddressLimit), AddressLimit) :
            e \in r /\ Data[e].d = ScanD[item.addr.d]
    BY <2>1, <2>2 DEF Look
  <2>4. /\ Data[e].author = Data[d].author /\ Data[e].kind = item.addr.kind
        /\ Data[e].created <= Data[d].created
    BY <2>3, DeletionQuery
  <2> QED
    BY <2>1, <2>2, <2>3, <2>4 DEF Covers, NamedByAddress
<1>3. ASSUME NEW i \in DOMAIN Data[d].k, item = [by |-> "kind", kind |-> Atoi[Data[d].k[i]]] PROVE Covers(d, e)
  <2>1. item.by = "kind" /\ item.kind = Atoi[Data[d].k[i]]
    BY <1>3
  <2>2. found \in QueryResults(AuthorsEvents(d, item.kind, KindLimit), KindLimit)
    BY <2>1 DEF Look
  <2>3. /\ Data[e].author = Data[d].author /\ Data[e].kind = item.kind
        /\ Data[e].created <= Data[d].created
    BY <2>2, DeletionQuery
  <2> QED
    BY <2>1, <2>3 DEF Covers, OfNamedKind
<1> QED
  BY <1>1, <1>2, <1>3 DEF ItemsOf

(* What deletion.c holds to be deleted is covered. *)
Authorised ==
    /\ job.stage = "delete" =>
        /\ IsDeletion(job.event) /\ Data[job.event].created > 0
        /\ \A e \in job.found : Covers(job.event, e)
    /\ RemovalIsAuthorised

(* A step that keeps the event and takes no more out of the store. *)
LEMMA AuthorisedKept ==
    ASSUME Authorised, job'.event = job.event, job'.before = job.before,
           stored \cup job.expired \subseteq stored' \cup job'.expired,
           job'.stage = "delete" => job.stage = "delete" /\ job'.found \subseteq job.found
    PROVE  Authorised'
<1>1. Removed' \subseteq Removed
  BY DEF Removed
<1>2. \A e : Covers(job.event, e)' <=> Covers(job.event, e)
  BY DEF Covers, NamedById, NamedByAddress, OfNamedKind
<1>3. IsDeletion(job.event)' <=> IsDeletion(job.event)
  BY DEF IsDeletion
<1> QED
  BY <1>1, <1>2, <1>3 DEF Authorised, RemovalIsAuthorised

LEMMA AuthorisedStep ==
    DeletionsAreDated /\ Typed /\ Authorised /\ [Next]_vars => Authorised'
<1> SUFFICES ASSUME DeletionsAreDated, Typed, Authorised, [Next]_vars PROVE Authorised'
  OBVIOUS
<1>0. DOMAIN job = Fields /\ stored \subseteq Events
  BY DEF Typed, Shape
<1>1. CASE Receive
  <2>1. EmptyJob /\ (job'.stage = "reply" \/ StartsOnEvent \/ StartsOnReq)
    BY <1>1, FreshJob
  <2>2. Removed' = {} /\ job'.found = {}
    BY <2>1 DEF EmptyJob, Removed
  <2>3. ASSUME job'.stage = "delete" PROVE IsDeletion(job.event)' /\ Data[job'.event].created > 0
    BY <2>1, <2>3 DEF StartsOnEvent, StartsOnReq, DeletionsAreDated, IsDeletion
  <2> QED
    BY <2>2, <2>3 DEF Authorised, RemovalIsAuthorised
<1>2. CASE Handle
  <2>1. CASE DeletionLook
    <3>1. PICK found \in Look(job.event, Head(job.todo)) : job'.found \subseteq found /\ OnlyLooks
      BY <2>1, LookStep DEF Typed
    <3>2. job.stage = "delete" /\ job.todo \in Seq(ItemsOf(job.event)) /\ job.todo # <<>> /\ job.event \in Events
      BY <2>1 DEF DeletionLook, Typed, Shape
    <3>3. Head(job.todo) \in ItemsOf(job.event)
      BY <3>2, HeadTailProperties
    <3>4. \A e \in found : Covers(job.event, e)
      BY <1>0, <3>2, <3>3, LookCovers DEF Authorised
    <3>5. stored' = stored /\ job'.event = job.event /\ job'.before = job.before /\ job'.expired = job.expired
      BY <2>1, <3>1 DEF DeletionLook, OnlyLooks
    <3>6. \A e : Covers(job.event, e)' <=> Covers(job.event, e)
      BY <3>5 DEF Covers, NamedById, NamedByAddress, OfNamedKind
    <3>7. (IsDeletion(job.event)' <=> IsDeletion(job.event)) /\ Removed' = Removed
      BY <3>5 DEF IsDeletion, Removed
    <3> QED
      BY <3>1, <3>2, <3>4, <3>5, <3>6, <3>7 DEF Authorised, RemovalIsAuthorised
  <2>2. ASSUME NEW e \in Events, DeletionRemove(e) PROVE Authorised'
    <3>1. job.stage = "delete" /\ e \in job.found /\ stored' \in {stored, stored \ {e}}
      BY <2>2 DEF DeletionRemove, Store!Delete
    <3>2. /\ job'.event = job.event /\ job'.before = job.before /\ job'.expired = job.expired
          /\ job'.found = job.found \ {e} /\ job'.stage = job.stage /\ job.event \in Events
      BY <1>0, <2>2 DEF DeletionRemove, Fields, Typed, Shape
    <3>3. Removed' \subseteq Removed \cup {e}
      BY <3>1, <3>2 DEF Removed
    <3>4. IsDeletion(job.event) /\ Covers(job.event, e) /\ job.event # NoEvent
      BY <3>1, <3>2, RelayAssumption DEF Authorised
    <3>5. \A x : Covers(job.event, x)' <=> Covers(job.event, x)
      BY <3>2 DEF Covers, NamedById, NamedByAddress, OfNamedKind
    <3>6. IsDeletion(job.event)' <=> IsDeletion(job.event)
      BY <3>2 DEF IsDeletion
    <3> QED
      BY <3>1, <3>2, <3>3, <3>4, <3>5, <3>6 DEF Authorised, RemovalIsAuthorised
  <2>3. CASE SaveEvent
    <3>1. \/ job' = Broadcasting
          \/ job' = [job EXCEPT !.stage = "reply", !.sound = FALSE, !.answer = Message("NOSTR_RELAY_ERR_STORAGE")]
      BY <2>3 DEF SaveEvent
    <3>2. stored \subseteq stored'
      BY <2>3 DEF SaveEvent, Store!Save
    <3>3. /\ job'.event = job.event /\ job'.before = job.before /\ job'.expired = job.expired
          /\ job'.stage # "delete"
      BY <1>0, <3>1 DEF Broadcasting, Fields
    <3> QED
      BY <3>2, <3>3, AuthorisedKept
  <2>4. CASE AnswerFilter
    <3>1. /\ job'.event = job.event /\ job'.before = job.before /\ job'.expired = job.expired
          /\ job'.stage = job.stage /\ job.stage = "query" /\ stored' = stored
      <4>1. PICK read, kept, sound : job' = WithResults(read, kept, sound)
        BY <2>4, AnswerStep
      <4> QED
        BY <1>0, <2>4, <4>1 DEF AnswerFilter, WithResults, Fields
    <3> QED
      BY <3>1, AuthorisedKept
  <2>5. CASE Reply
    <3>1. job'.before = {} /\ job'.stage = "idle"
      BY <2>5, IdleShape, IdleIsEmpty DEF Reply
    <3> QED
      BY <3>1 DEF Authorised, RemovalIsAuthorised, Removed
  <2>6. ASSUME NEW k, FanoutSend(k) PROVE Authorised'
    <3>1. /\ job'.event = job.event /\ job'.before = job.before /\ job'.expired = job.expired
          /\ job'.stage = job.stage /\ job.stage = "fanout" /\ stored' = stored
      BY <1>0, <2>6 DEF FanoutSend, Fields
    <3> QED
      BY <3>1, AuthorisedKept
  <2>7. CASE DeletionParseFails \/ DeletionDone \/ FanoutDone \/ AnswerDone
    <3>1. /\ job'.event = job.event /\ job'.before = job.before /\ job'.expired = job.expired
          /\ job'.stage # "delete" /\ stored' = stored
      BY <1>0, <2>7 DEF DeletionParseFails, DeletionDone, FanoutDone, AnswerDone, Fields
    <3> QED
      BY <3>1, AuthorisedKept
  <2> QED
    BY <1>2, <2>1, <2>2, <2>3, <2>4, <2>5, <2>6, <2>7 DEF Handle
<1>3. CASE job' = job /\ stored' = stored
  BY <1>3, AuthorisedKept
<1>4. ASSUME NEW e \in Events, Expire(e) PROVE Authorised'
  <2>1. stored' = stored \ {e}
    BY <1>4 DEF Expire, Store!Delete
  <2>2. CASE job.stage = "idle"
    <3>1. job' = job /\ job = Idle
      BY <1>4, <2>2 DEF Expire, Typed, Shape
    <3> QED
      BY <3>1, IdleShape, IdleIsEmpty DEF Authorised, RemovalIsAuthorised, Removed
  <2>3. CASE job.stage # "idle"
    <3>1. job' = [job EXCEPT !.expired = @ \cup {e}]
      BY <1>4, <2>3 DEF Expire
    <3>2. /\ job'.event = job.event /\ job'.before = job.before /\ job'.expired = job.expired \cup {e}
          /\ job'.stage = job.stage /\ job'.found = job.found
      BY <1>0, <3>1 DEF Fields
    <3> QED
      BY <2>1, <3>2, AuthorisedKept
  <2> QED
    BY <2>2, <2>3
<1> QED
  BY <1>1, <1>2, <1>3, <1>4 DEF Next, RunWork, Connection, OpenConn, CloseConn, vars

(* deletion.c removes an event only for a request that covers it and has   *)
(* the same author, and no other message removes one, provided that the    *)
(* requests that are accepted have a time (ClockDatesDeletions).           *)
THEOREM RemovalIsAuthorisedThm ==
    ASSUME DeletionsAreDated
    PROVE  Spec => []RemovalIsAuthorised
<1>1. Init => Authorised
  BY IdleShape, IdleIsEmpty DEF Init, Authorised, RemovalIsAuthorised, Removed
<1>2. Typed /\ Authorised /\ [Next]_vars => Authorised'
  BY AuthorisedStep
<1>3. Authorised => RemovalIsAuthorised
  BY DEF Authorised
<1> QED
  BY <1>1, <1>2, <1>3, TypedHolds, PTL DEF Spec

-----------------------------------------------------------------------------
(* A deletion leaves nothing that it covers *)

(* The clock is not yet near the end of 32 bits. *)
ClockFits == \A now \in Times : now + MaxFuture < U32

(* A query that its limit does not cut short delivers all that is          *)
(* selected.                                                               *)
LEMMA QueryWhole ==
    ASSUME stored \subseteq Events, NEW f, NEW limit \in Nat, NEW r \in QueryResults(f, limit),
           Cardinality(Selected(stored, f)) <= QueryLimit(limit)
    PROVE  r = Selected(stored, f)
<1> DEFINE hits == Selected(stored, f)
<1>1. r \subseteq hits /\ hits \subseteq Events
  BY QueryIsStored DEF Selected
<1>2. IsFiniteSet(hits) /\ Cardinality(hits) \in Nat /\ QueryLimit(limit) \in Nat
  BY <1>1, EventsCount, WidthAssumption DEF QueryLimit
<1>3. Cardinality(r) = IF Cardinality(hits) < QueryLimit(limit) THEN Cardinality(hits) ELSE QueryLimit(limit)
  BY DEF QueryResults
<1>4. Cardinality(hits) <= QueryLimit(limit)
  OBVIOUS
<1> HIDE DEF hits
<1>5. Cardinality(r) = Cardinality(hits)
  BY <1>2, <1>3, <1>4
<1>6. r = hits
  BY <1>1, <1>2, <1>5, WholeSet
<1> QED
  BY <1>6 DEF hits

(* The events of set S that a query of the deletion request d is for. *)
Older(S, d, kind) ==
    {e \in S : Data[e].author = Data[d].author /\ Data[e].kind = kind /\ Data[e].created <= Data[d].created}

(* Such a query delivers them all, although the index has four bytes of    *)
(* the author's key and 32 bits of the time.                               *)
LEMMA DeletionQueryWhole ==
    ASSUME stored \subseteq Events, NEW S, S \subseteq Events, stored \subseteq S,
           NEW d \in Events, Data[d].created > 0, Data[d].created < U32,
           NEW kind, NEW limit \in Nat,
           Cardinality(Older(S, d, kind)) <= QueryLimit(limit),
           NEW r \in QueryResults(AuthorsEvents(d, kind, limit), limit)
    PROVE  Older(stored, d, kind) \subseteq r
<1> DEFINE f == AuthorsEvents(d, kind, limit)
           hits == Selected(stored, f)
<1>0. /\ f.kinds = {kind} /\ f.until = Data[d].created /\ f.since = 0 /\ f.ids = {}
      /\ f.authors = {[of |-> Data[d].author, len |-> HexDigits]}
  BY DEF AuthorsEvents
<1>1. hits \subseteq Older(S, d, kind)
  <2> SUFFICES ASSUME NEW e \in hits PROVE e \in Older(S, d, kind)
    OBVIOUS
  <2>1. FilterMatches(f, e) /\ e \in stored /\ e \in S /\ e \in Events
    BY DEF Selected
  <2> HIDE DEF f, hits
  <2>2. Data[e].kind = kind /\ Data[e].created <= Data[d].created
    BY <1>0, <2>1 DEF FilterMatches
  <2>3. Shared[<<Data[d].author, Data[e].author>>] >= HexDigits
    <3>1. PICK p \in f.authors : Shared[<<p.of, Data[e].author>>] >= p.len
      BY <1>0, <2>1 DEF FilterMatches
    <3> QED
      BY <1>0, <3>1
  <2>4. Data[e].author = Data[d].author
    BY <2>1, <2>3, DataAssumption, SameAuthor
  <2> QED
    BY <2>1, <2>2, <2>4 DEF Older
<1>2. Cardinality(hits) <= QueryLimit(limit)
  <2>1. Older(S, d, kind) \subseteq Events
    BY DEF Older
  <2>2. /\ IsFiniteSet(Older(S, d, kind)) /\ Cardinality(Older(S, d, kind)) \in Nat
        /\ Cardinality(hits) \in Nat /\ QueryLimit(limit) \in Nat
    BY <1>1, <2>1, EventsCount, WidthAssumption DEF QueryLimit
  <2>3. Cardinality(hits) <= Cardinality(Older(S, d, kind))
    BY <1>1, <2>2, FS_Subset
  <2> QED
    BY <2>2, <2>3
<1>3. r = hits
  BY <1>2, QueryWhole
<1>4. ASSUME NEW e \in Older(stored, d, kind) PROVE e \in hits
  <2>1. /\ e \in stored /\ e \in Events
        /\ Data[e].author = Data[d].author /\ Data[e].kind = kind /\ Data[e].created <= Data[d].created
    BY DEF Older
  <2>2. Data[e].created \in Nat /\ Data[d].created \in Nat /\ Data[d].author \in Authors /\ U32 \in Nat \ {0}
    BY <2>1, DataAssumption, WidthAssumption
  <2>3. Data[e].created % U32 = Data[e].created /\ Data[d].created % U32 = Data[d].created
    <3>1. Data[e].created < U32
      BY <2>1, <2>2
    <3> QED
      BY <2>2, <3>1, SmallRemainder
  <2>4. Shared[<<Data[d].author, Data[e].author>>] = HexDigits /\ HexDigits >= IndexDigits
        /\ HexDigits >= HexDigits
    BY <2>1, <2>2, DigitsAssumption
  <2> HIDE DEF f
  <2>5. IndexMatchesFilter(e, f)
    <3>1. \E p \in f.authors : p.len >= IndexDigits /\ Shared[<<p.of, Data[e].author>>] >= IndexDigits
      BY <1>0, <2>4
    <3> QED
      BY <1>0, <2>1, <2>3, <3>1 DEF IndexMatchesFilter
  <2>6. FilterMatches(f, e)
    <3>1. \E p \in f.authors : Shared[<<p.of, Data[e].author>>] >= p.len
      BY <1>0, <2>4
    <3> QED
      BY <1>0, <2>1, <3>1 DEF FilterMatches
  <2> QED
    BY <2>1, <2>5, <2>6 DEF Selected
<1> QED
  BY <1>3, <1>4

(* The part item of the deletion request d names e. *)
Names(d, item, e) ==
    \/ item.by = "id" /\ item.id = e
    \/ /\ item.by = "address"
       /\ item.addr.kind = Data[e].kind /\ item.addr.author = Data[e].author
       /\ ScanD[item.addr.d] = Data[e].d /\ Data[e].created <= Data[d].created
    \/ item.by = "kind" /\ item.kind = Data[e].kind /\ Data[e].created <= Data[d].created

LEMMA CoveredIsNamed ==
    ASSUME NEW d, NEW e, Covers(d, e)
    PROVE  Data[e].author = Data[d].author /\ \E item \in ItemsOf(d) : Names(d, item, e)
<1>1. ASSUME NamedById(d, e) PROVE \E item \in ItemsOf(d) : Names(d, item, e)
  <2>1. PICK i \in DOMAIN Data[d].e : Data[d].e[i] = e
    BY <1>1 DEF NamedById
  <2> DEFINE item == [by |-> "id", id |-> Data[d].e[i]]
  <2>2. item \in ItemsOf(d)
    BY DEF ItemsOf
  <2>3. item.by = "id" /\ item.id = e
    BY <2>1
  <2> QED
    BY <2>2, <2>3 DEF Names
<1>2. ASSUME NamedByAddress(d, e) PROVE \E item \in ItemsOf(d) : Names(d, item, e)
  <2>1. PICK i \in DOMAIN Data[d].a :
            /\ Data[d].a[i].kind = Data[e].kind /\ Data[d].a[i].author = Data[e].author
            /\ ScanD[Data[d].a[i].d] = Data[e].d /\ Data[e].created <= Data[d].created
    BY <1>2 DEF NamedByAddress
  <2> DEFINE item == [by |-> "address", addr |-> Data[d].a[i]]
  <2>2. item \in ItemsOf(d)
    BY DEF ItemsOf
  <2>3. item.by = "address" /\ item.addr = Data[d].a[i]
    OBVIOUS
  <2> QED
    BY <2>1, <2>2, <2>3 DEF Names
<1>3. ASSUME OfNamedKind(d, e) PROVE \E item \in ItemsOf(d) : Names(d, item, e)
  <2>1. PICK i \in DOMAIN Data[d].k : Atoi[Data[d].k[i]] = Data[e].kind
    BY <1>3 DEF OfNamedKind
  <2> DEFINE item == [by |-> "kind", kind |-> Atoi[Data[d].k[i]]]
  <2>2. item \in ItemsOf(d)
    BY DEF ItemsOf
  <2>3. item.by = "kind" /\ item.kind = Data[e].kind /\ Data[e].created <= Data[d].created
    BY <1>3, <2>1 DEF OfNamedKind
  <2> QED
    BY <2>2, <2>3 DEF Names
<1> QED
  BY <1>1, <1>2, <1>3 DEF Covers

(* deletion.c finds every stored event of the author that a part names. *)
LEMMA LookFinds ==
    ASSUME stored \subseteq job.before, job.before \subseteq Events,
           NEW d \in Events, Data[d].created > 0, Data[d].created < U32, WithinLimits(d),
           NEW item \in ItemsOf(d), NEW found \in Look(d, item),
           NEW e \in stored, Data[e].author = Data[d].author, Names(d, item, e)
    PROVE  e \in found
<1>0. stored \subseteq Events /\ AddressLimit \in Nat /\ KindLimit \in Nat
  BY RelayAssumption
<1>1. ASSUME NEW i \in DOMAIN Data[d].e, item = [by |-> "id", id |-> Data[d].e[i]] PROVE e \in found
  BY <1>1 DEF Look, Names
<1>2. ASSUME NEW i \in DOMAIN Data[d].a, item = [by |-> "address", addr |-> Data[d].a[i]] PROVE e \in found
  <2>1. item.by = "address" /\ item.addr = Data[d].a[i]
    BY <1>2
  <2>2. /\ item.addr.kind = Data[e].kind /\ item.addr.author = Data[e].author
        /\ ScanD[item.addr.d] = Data[e].d /\ Data[e].created <= Data[d].created
    BY <2>1 DEF Names
  <2>3. PICK r \in QueryResults(AuthorsEvents(d, item.addr.kind, AddressLimit), AddressLimit) :
            found = {x \in r : Data[x].d = ScanD[item.addr.d]}
    BY <2>1, <2>2 DEF Look
  <2>4. Cardinality(Older(job.before, d, item.addr.kind)) <= QueryLimit(AddressLimit)
    BY <2>1 DEF WithinLimits, Older
  <2>5. Older(stored, d, item.addr.kind) \subseteq r
    BY <1>0, <2>3, <2>4, DeletionQueryWhole
  <2>6. e \in Older(stored, d, item.addr.kind)
    BY <2>2 DEF Older
  <2> QED
    BY <2>2, <2>3, <2>5, <2>6
<1>3. ASSUME NEW i \in DOMAIN Data[d].k, item = [by |-> "kind", kind |-> Atoi[Data[d].k[i]]] PROVE e \in found
  <2>1. item.by = "kind" /\ item.kind = Atoi[Data[d].k[i]]
    BY <1>3
  <2>2. item.kind = Data[e].kind /\ Data[e].created <= Data[d].created
    BY <2>1 DEF Names
  <2>3. found \in QueryResults(AuthorsEvents(d, item.kind, KindLimit), KindLimit)
    BY <2>1 DEF Look
  <2>4. Cardinality(Older(job.before, d, item.kind)) <= QueryLimit(KindLimit)
    BY <2>1 DEF WithinLimits, Older
  <2>5. Older(stored, d, item.kind) \subseteq found
    BY <1>0, <2>3, <2>4, DeletionQueryWhole
  <2>6. e \in Older(stored, d, item.kind)
    BY <2>2 DEF Older
  <2> QED
    BY <2>5, <2>6
<1> QED
  BY <1>1, <1>2, <1>3 DEF ItemsOf

(* What the request is still to find or to remove. *)
Pending ==
    job.sound /\ WithinLimits(job.event) =>
        \A e \in stored : Covers(job.event, e) =>
            e \in job.found \/ \E i \in DOMAIN job.todo : Names(job.event, job.todo[i], e)

(* Until it is done, every stored event that the request covers has been   *)
(* found or is named by a part that comes later.                           *)
Thorough ==
    /\ job.stage = "delete" =>
        /\ Data[job.event].created > 0 /\ Data[job.event].created < U32
        /\ Pending
    /\ DeletionIsThorough

(* What a request covers depends on its event and on the store when it     *)
(* came.                                                                   *)
LEMMA SameRequest ==
    ASSUME job'.event = job.event, job'.before = job.before
    PROVE  /\ \A e : Covers(job.event, e)' <=> Covers(job.event, e)
           /\ \A item, e : Names(job.event, item, e)' <=> Names(job.event, item, e)
           /\ IsDeletion(job.event)' <=> IsDeletion(job.event)
           /\ WithinLimits(job.event)' <=> WithinLimits(job.event)
<1>1. \A e : Covers(job.event, e)' <=> Covers(job.event, e)
  BY DEF Covers, NamedById, NamedByAddress, OfNamedKind
<1>2. \A item, e : Names(job.event, item, e)' <=> Names(job.event, item, e)
  BY DEF Names
<1>3. IsDeletion(job.event)' <=> IsDeletion(job.event)
  BY DEF IsDeletion
<1>4. WithinLimits(job.event)' <=> WithinLimits(job.event)
  BY DEF WithinLimits, QueryLimit
<1> QED
  BY <1>1, <1>2, <1>3, <1>4

(* A step that leaves the request as it is and stores nothing. *)
LEMMA ThoroughKept ==
    ASSUME Thorough, job'.event = job.event, job'.before = job.before, stored' \subseteq stored,
           job'.stage = job.stage, job'.sound = job.sound,
           job'.found = job.found, job'.todo = job.todo
    PROVE  Thorough'
<1>1. /\ \A e : Covers(job.event, e)' <=> Covers(job.event, e)
      /\ \A item, e : Names(job.event, item, e)' <=> Names(job.event, item, e)
      /\ IsDeletion(job.event)' <=> IsDeletion(job.event)
      /\ WithinLimits(job.event)' <=> WithinLimits(job.event)
  BY SameRequest
<1>2. ASSUME job.stage = "delete" PROVE Pending'
  <2>1. Pending
    BY <1>2 DEF Thorough
  <2>2. \A e, i : Names(job.event, job.todo[i], e)' <=> Names(job.event, job.todo[i], e)
    BY DEF Names
  <2> QED
    BY <1>1, <2>1, <2>2 DEF Pending
<1>3. DeletionIsThorough'
  BY <1>1 DEF Thorough, DeletionIsThorough
<1> QED
  BY <1>2, <1>3 DEF Thorough

LEMMA ThoroughElsewhere ==
    ASSUME job'.stage \notin {"delete", "save"} PROVE Thorough'
  BY DEF Thorough, DeletionIsThorough

LEMMA ThoroughStart ==
    ASSUME DeletionsAreDated, ClockFits, Typed, Receive PROVE Thorough'
<1>1. EmptyJob /\ (job'.stage = "reply" \/ StartsOnEvent \/ StartsOnReq)
  BY FreshJob
<1>2. CASE job'.stage \notin {"delete", "save"}
  BY <1>2, ThoroughElsewhere
<1>3. CASE job'.stage = "save"
  <2>1. ~IsDeletion(job.event)'
    BY <1>1, <1>3 DEF StartsOnEvent, StartsOnReq, IsDeletion
  <2> QED
    BY <1>3, <2>1 DEF Thorough, DeletionIsThorough
<1>4. CASE job'.stage = "delete"
  <2>1. StartsOnEvent
    BY <1>1, <1>4 DEF StartsOnReq
  <2>2. PICK d \in Events : d = job'.event
    BY <2>1 DEF StartsOnEvent
  <2>3. PICK now \in Times : Acceptable(d, now)
    BY <2>1, <2>2 DEF StartsOnEvent
  <2>4. IsDeletion(d) /\ job'.todo = DeletionItems(d)
    BY <1>4, <2>1, <2>2 DEF StartsOnEvent
  <2>5. Data[d].created > 0
    BY <2>3, <2>4 DEF DeletionsAreDated
  <2>6. Data[d].created < U32
    <3>1. Data[d].created \in Nat /\ now \in Nat /\ MaxFuture \in Nat /\ U32 \in Nat
      BY DataAssumption, RelayAssumption, WidthAssumption
    <3>2. Data[d].created <= now + MaxFuture /\ now + MaxFuture < U32
      BY <2>3 DEF Acceptable, ClockFits
    <3> QED
      BY <3>1, <3>2
  <2>7. ASSUME WithinLimits(job.event)', NEW e, Covers(job.event, e)'
        PROVE  \E i \in DOMAIN job'.todo : Names(job.event, job.todo[i], e)'
    <3>1. Len(Data[d].k) <= MaxKinds
      BY <2>2, <2>7 DEF WithinLimits
    <3>2. Covers(d, e)
      BY <2>2, <2>7 DEF Covers, NamedById, NamedByAddress, OfNamedKind
    <3>3. PICK item \in ItemsOf(d) : Names(d, item, e)
      BY <3>2, CoveredIsNamed
    <3>4. PICK i \in DOMAIN DeletionItems(d) : DeletionItems(d)[i] = item
      BY <3>1, ItemsListed
    <3>5. i \in DOMAIN job'.todo /\ job'.todo[i] = item
      BY <2>4, <3>4
    <3>6. Names(job.event, job.todo[i], e)'
      BY <2>2, <3>3, <3>5 DEF Names
    <3> QED
      BY <3>5, <3>6
  <2>8. Pending'
    BY <2>7 DEF Pending
  <2> QED
    BY <1>4, <2>2, <2>5, <2>6, <2>8 DEF Thorough, DeletionIsThorough
<1> QED
  BY <1>2, <1>3, <1>4

LEMMA ThoroughLook ==
    ASSUME Typed, Course, Thorough, DeletionLook PROVE Thorough'
<1> DEFINE d == job.event
<1>1. PICK found \in Look(d, Head(job.todo)) :
        /\ OnlyLooks
        /\ (job'.found = found /\ job'.sound = job.sound) \/ job'.sound = FALSE
  BY LookStep DEF Typed
<1>2. /\ job.stage = "delete" /\ job.found = {} /\ job.todo # <<>> /\ stored' = stored
      /\ job.todo \in Seq(ItemsOf(d)) /\ d \in Events /\ stored \subseteq job.before /\ job.before \subseteq Events
  BY DEF DeletionLook, Typed, TypeOK, Shape, Course
<1>3. Data[d].created > 0 /\ Data[d].created < U32 /\ Pending
  BY <1>2 DEF Thorough
<1>4. job'.stage = "delete" /\ job'.event = d /\ job'.before = job.before /\ job'.todo = Tail(job.todo)
  BY <1>1, <1>2 DEF OnlyLooks
<1>5. /\ \A e : Covers(job.event, e)' <=> Covers(job.event, e)
      /\ \A item, e : Names(job.event, item, e)' <=> Names(job.event, item, e)
      /\ WithinLimits(job.event)' <=> WithinLimits(job.event)
  BY <1>4, SameRequest
<1>6. ASSUME job'.sound, WithinLimits(d), NEW e \in stored, Covers(d, e)
      PROVE  e \in job'.found \/ \E i \in DOMAIN job'.todo : Names(d, job'.todo[i], e)
  <2>1. job'.found = found /\ job.sound
    BY <1>1, <1>6
  <2>2. PICK i \in DOMAIN job.todo : Names(d, job.todo[i], e)
    BY <1>2, <1>3, <1>6, <2>1 DEF Pending
  <2>3. /\ Head(job.todo) \in ItemsOf(d) /\ Tail(job.todo) \in Seq(ItemsOf(d))
        /\ Len(Tail(job.todo)) = Len(job.todo) - 1
        /\ \A j \in 1 .. Len(Tail(job.todo)) : Tail(job.todo)[j] = job.todo[j + 1]
    BY <1>2, HeadTailProperties
  <2>4. /\ DOMAIN job.todo = 1 .. Len(job.todo) /\ Len(job.todo) \in Nat
        /\ DOMAIN Tail(job.todo) = 1 .. Len(Tail(job.todo)) /\ Head(job.todo) = job.todo[1]
    BY <1>2, <2>3
  <2>5. CASE i = 1
    <3>1. Names(d, Head(job.todo), e) /\ Data[e].author = Data[d].author
      BY <1>6, <2>2, <2>4, <2>5 DEF Covers
    <3>2. e \in found
      BY <1>2, <1>3, <1>6, <2>3, <3>1, LookFinds
    <3> QED
      BY <2>1, <3>2
  <2>6. CASE i # 1
    <3>1. i - 1 \in 1 .. Len(Tail(job.todo)) /\ (i - 1) + 1 = i
      BY <2>2, <2>3, <2>4, <2>6
    <3>2. Tail(job.todo)[i - 1] = job.todo[i]
      BY <2>3, <3>1
    <3> QED
      BY <1>4, <2>2, <2>4, <3>1, <3>2
  <2> QED
    BY <2>5, <2>6
<1>7. Pending'
  <2>1. \A e, i : Names(job.event, job.todo[i], e)' <=> Names(d, job'.todo[i], e)
    BY <1>4 DEF Names
  <2> QED
    BY <1>2, <1>5, <1>6, <2>1 DEF Pending
<1> QED
  BY <1>3, <1>4, <1>7 DEF Thorough, DeletionIsThorough

LEMMA ThoroughStep ==
    DeletionsAreDated /\ ClockFits /\ Typed /\ Course /\ Thorough /\ [Next]_vars => Thorough'
<1> SUFFICES ASSUME DeletionsAreDated, ClockFits, Typed, Course, Thorough, [Next]_vars PROVE Thorough'
  OBVIOUS
<1>0. DOMAIN job = Fields
  BY DEF Typed, Shape
<1>1. CASE Receive
  BY <1>1, ThoroughStart
<1>2. CASE Handle
  <2>1. CASE DeletionParseFails
    BY <1>0, <2>1 DEF DeletionParseFails, Thorough, DeletionIsThorough, Fields
  <2>2. CASE DeletionLook
    BY <2>2, ThoroughLook
  <2>3. CASE DeletionDone
    <3>1. /\ job.stage = "delete" /\ job.todo = <<>> /\ job.found = {} /\ stored' = stored
          /\ job'.stage = "save" /\ job'.event = job.event /\ job'.before = job.before /\ job'.sound = job.sound
      BY <1>0, <2>3 DEF DeletionDone, Fields
    <3>2. /\ \A e : Covers(job.event, e)' <=> Covers(job.event, e)
          /\ WithinLimits(job.event)' <=> WithinLimits(job.event)
      BY <3>1, SameRequest
    <3>3. job.sound /\ WithinLimits(job.event) => \A e \in stored : ~Covers(job.event, e)
      BY <3>1 DEF Thorough, Pending
    <3> QED
      BY <3>1, <3>2, <3>3 DEF Thorough, DeletionIsThorough
  <2>4. ASSUME NEW e \in Events, DeletionRemove(e) PROVE Thorough'
    <3>1. job.stage = "delete" /\ stored' \subseteq stored /\ e \notin stored'
      BY <2>4 DEF DeletionRemove, Store!Delete
    <3>2. /\ job'.event = job.event /\ job'.before = job.before /\ job'.sound = job.sound
          /\ job'.found = job.found \ {e} /\ job'.stage = job.stage /\ job'.todo = job.todo
      BY <1>0, <2>4 DEF DeletionRemove, Fields
    <3>3. /\ \A x : Covers(job.event, x)' <=> Covers(job.event, x)
          /\ \A item, x : Names(job.event, item, x)' <=> Names(job.event, item, x)
          /\ WithinLimits(job.event)' <=> WithinLimits(job.event)
      BY <3>2, SameRequest
    <3>4. \A x, i : Names(job.event, job.todo[i], x)' <=> Names(job.event, job.todo[i], x)
      BY <3>2 DEF Names
    <3>5. Pending'
      BY <3>1, <3>2, <3>3, <3>4 DEF Thorough, Pending
    <3> QED
      BY <3>1, <3>2, <3>5 DEF Thorough, DeletionIsThorough
  <2>5. CASE SaveEvent
    <3>1. \/ job' = Broadcasting
          \/ job' = [job EXCEPT !.stage = "reply", !.sound = FALSE, !.answer = Message("NOSTR_RELAY_ERR_STORAGE")]
      BY <2>5 DEF SaveEvent
    <3>2. job'.stage \in {"fanout", "reply"}
      BY <1>0, <3>1 DEF Broadcasting, Fields
    <3> QED
      BY <3>2, ThoroughElsewhere
  <2>6. ASSUME NEW k, FanoutSend(k) PROVE Thorough'
    <3>1. job'.stage = "fanout"
      BY <1>0, <2>6 DEF FanoutSend, Fields
    <3> QED
      BY <3>1, ThoroughElsewhere
  <2>7. CASE FanoutDone \/ AnswerFilter \/ AnswerDone
    <3>1. job'.stage \in {"reply", "query"}
      BY <1>0, <2>7 DEF FanoutDone, AnswerFilter, AnswerDone, WithResults, Fields
    <3> QED
      BY <3>1, ThoroughElsewhere
  <2>8. CASE Reply
    BY <2>8, IdleShape, ThoroughElsewhere DEF Reply
  <2> QED
    BY <1>2, <2>1, <2>2, <2>3, <2>4, <2>5, <2>6, <2>7, <2>8 DEF Handle
<1>3. CASE job' = job /\ stored' = stored
  BY <1>3, ThoroughKept
<1>4. ASSUME NEW e \in Events, Expire(e) PROVE Thorough'
  <2>1. stored' \subseteq stored
    BY <1>4 DEF Expire, Store!Delete
  <2>2. /\ job'.event = job.event /\ job'.before = job.before /\ job'.sound = job.sound
        /\ job'.found = job.found /\ job'.stage = job.stage /\ job'.todo = job.todo
    BY <1>0, <1>4 DEF Expire, Fields
  <2> QED
    BY <2>1, <2>2, ThoroughKept
<1> QED
  BY <1>1, <1>2, <1>3, <1>4 DEF Next, RunWork, Connection, OpenConn, CloseConn, vars

(* Once deletion.c is through with a request, nothing that it covers is    *)
(* left in the store, whatever the cleanup task has expired in between,    *)
(* provided that no allocation failed, no query met its limit, the request *)
(* has a time (ClockDatesDeletions) and the clock fits the 32 bits of the  *)
(* index.                                                                  *)
THEOREM DeletionIsThoroughThm ==
    ASSUME DeletionsAreDated, ClockFits
    PROVE  Spec => []DeletionIsThorough
<1>1. Init => Thorough
  BY IdleShape DEF Init, Thorough, DeletionIsThorough
<1>2. Typed /\ Course /\ Thorough /\ [Next]_vars => Thorough'
  BY ThoroughStep
<1>3. Thorough => DeletionIsThorough
  BY DEF Thorough
<1> QED
  BY <1>1, <1>2, <1>3, TypedHolds, CourseHolds, PTL DEF Spec

-----------------------------------------------------------------------------
(* An answer is complete *)

(* The time of every event that is stored, or may be, fits 32 bits. *)
Fits ==
    /\ \A e \in stored : Data[e].created < U32
    /\ job.stage \in {"delete", "save"} => Data[job.event].created < U32

LEMMA FitsStep == ClockFits /\ Typed /\ Fits /\ [Next]_vars => Fits'
<1> SUFFICES ASSUME ClockFits, Typed, Fits, [Next]_vars PROVE Fits'
  OBVIOUS
<1>0. DOMAIN job = Fields /\ (job.stage = "idle" => job = Idle)
  BY DEF Typed, Shape
<1>1. ASSUME stored' \subseteq stored,
             job'.stage \in {"delete", "save"} => job.stage \in {"delete", "save"} /\ job'.event = job.event
      PROVE  Fits'
  BY <1>1 DEF Fits
<1>2. CASE Receive
  <2>1. EmptyJob /\ (job'.stage = "reply" \/ StartsOnEvent \/ StartsOnReq)
    BY <1>2, FreshJob
  <2>2. ASSUME job'.stage \in {"delete", "save"} PROVE Data[job'.event].created < U32
    <3>1. StartsOnEvent
      BY <2>1, <2>2 DEF StartsOnReq
    <3>2. PICK d \in Events : d = job'.event
      BY <3>1 DEF StartsOnEvent
    <3>3. PICK now \in Times : Acceptable(d, now)
      BY <3>1, <3>2 DEF StartsOnEvent
    <3>4. Data[d].created \in Nat /\ now \in Nat /\ MaxFuture \in Nat /\ U32 \in Nat
      BY DataAssumption, RelayAssumption, WidthAssumption
    <3>5. Data[d].created <= now + MaxFuture /\ now + MaxFuture < U32
      BY <3>3 DEF Acceptable, ClockFits
    <3>6. Data[d].created < U32
      BY <3>4, <3>5
    <3> QED
      BY <3>2, <3>6
  <2> QED
    BY <2>1, <2>2 DEF Fits, EmptyJob
<1>3. CASE Handle
  <2>1. CASE SaveEvent
    <3>1. \/ job' = Broadcasting
          \/ job' = [job EXCEPT !.stage = "reply", !.sound = FALSE, !.answer = Message("NOSTR_RELAY_ERR_STORAGE")]
      BY <2>1 DEF SaveEvent
    <3>2. job'.stage \in {"fanout", "reply"}
      BY <1>0, <3>1 DEF Broadcasting, Fields
    <3>3. stored' \subseteq stored \cup {job.event} /\ job.stage = "save"
      BY <2>1 DEF SaveEvent, Store!Save
    <3> QED
      BY <3>2, <3>3 DEF Fits
  <2>2. CASE DeletionLook
    <3>1. OnlyLooks /\ stored' = stored
      BY <2>2, LookStep DEF Typed, DeletionLook
    <3> QED
      BY <1>1, <3>1 DEF OnlyLooks
  <2>3. ASSUME NEW e, DeletionRemove(e) PROVE Fits'
    <3>1. stored' \subseteq stored /\ job'.stage = job.stage /\ job'.event = job.event
      BY <1>0, <2>3 DEF DeletionRemove, Store!Delete, Fields
    <3> QED
      BY <1>1, <3>1
  <2>4. CASE DeletionParseFails \/ DeletionDone
    <3>1. stored' = stored /\ job.stage = "delete" /\ job'.event = job.event
      BY <1>0, <2>4 DEF DeletionParseFails, DeletionDone, Fields
    <3> QED
      BY <1>1, <3>1
  <2>5. CASE FanoutDone \/ AnswerFilter \/ AnswerDone \/ \E k : FanoutSend(k)
    <3>1. stored' = stored /\ job'.stage \in {"fanout", "query", "reply"}
      BY <1>0, <2>5 DEF FanoutDone, AnswerFilter, AnswerDone, FanoutSend, WithResults, Fields
    <3> QED
      BY <1>1, <3>1
  <2>6. CASE Reply
    <3>1. stored' = stored /\ job'.stage = "idle"
      BY <2>6, IdleShape DEF Reply
    <3> QED
      BY <1>1, <3>1
  <2> QED
    BY <1>3, <2>1, <2>2, <2>3, <2>4, <2>5, <2>6 DEF Handle
<1>4. CASE job' = job /\ stored' = stored
  BY <1>1, <1>4
<1>5. ASSUME NEW e, Expire(e) PROVE Fits'
  <2>1. stored' \subseteq stored /\ job'.stage = job.stage /\ job'.event = job.event
    BY <1>0, <1>5 DEF Expire, Store!Delete, Fields
  <2> QED
    BY <1>1, <2>1
<1> QED
  BY <1>2, <1>3, <1>4, <1>5 DEF Next, RunWork, Connection, OpenConn, CloseConn, vars

(* The events that the filter f asks for. *)
AskedFor(f) == {e \in job.before : FilterMatches(f, e)}

(* All of them have been sent, if the index can tell and the limit allows. *)
Met(f) ==
    Exact(f) /\ Cardinality(AskedFor(f)) <= QueryLimit(ReqLimit(f)) => AskedFor(f) \ job.expired \subseteq job.sent

(* How far the answer to the filters fs has come: each filter is met or    *)
(* comes later, and the store has lost nothing but what expired.           *)
Progress(fs) ==
    /\ fs \in Seq(Filter) /\ job.todo \in Seq(Filter)
    /\ job.stage = "reply" => job.todo = <<>>
    /\ \A j \in DOMAIN job.todo : \E i \in DOMAIN fs : job.todo[j] = fs[i]
    /\ stored \subseteq job.before /\ job.before \subseteq stored \cup job.expired
    /\ \A e \in job.sent : FiltersMatch(fs, e)
    /\ job.sound => \A i \in DOMAIN fs : Met(fs[i]) \/ \E j \in DOMAIN job.todo : job.todo[j] = fs[i]

InAnswer == job.stage = "query" \/ (job.stage = "reply" /\ job.answer = "eose")

Complete == InAnswer => \E fs \in {table[<<job.conn, job.sub>>]} : Progress(fs)

(* handle_req gets from a query all that an exact filter asks for. *)
LEMMA QueryMeets ==
    ASSUME stored \subseteq job.before, job.before \subseteq stored \cup job.expired, job.before \subseteq Events,
           Fits, NEW f \in Filter, NEW r \in QueryResults(f, ReqLimit(f)),
           Exact(f), Cardinality(AskedFor(f)) <= QueryLimit(ReqLimit(f))
    PROVE  AskedFor(f) \ job.expired \subseteq r
<1> DEFINE hits == Selected(stored, f)
<1>1. ReqLimit(f) \in Nat /\ QueryLimit(ReqLimit(f)) \in Nat
  <2>1. f.limit \in Nat /\ U16 \in Nat \ {0} /\ DefaultLimit \in Nat /\ MaxLimit \in Nat
    BY WidthAssumption DEF Filter
  <2>2. f.limit % U16 \in Nat
    BY <2>1
  <2>3. ReqLimit(f) \in Nat
    BY <2>1, <2>2 DEF ReqLimit
  <2> QED
    BY <2>1, <2>3 DEF QueryLimit
<1>2. hits \subseteq AskedFor(f) /\ AskedFor(f) \subseteq Events /\ stored \subseteq Events
  BY DEF Selected, AskedFor
<1>3. Cardinality(hits) <= QueryLimit(ReqLimit(f))
  <2>1. /\ IsFiniteSet(AskedFor(f)) /\ Cardinality(AskedFor(f)) \in Nat /\ Cardinality(hits) \in Nat
    BY <1>2, EventsCount
  <2>2. Cardinality(hits) <= Cardinality(AskedFor(f))
    BY <1>2, <2>1, FS_Subset
  <2> QED
    BY <1>1, <2>1, <2>2
<1>4. r = hits
  BY <1>1, <1>2, <1>3, QueryWhole
<1>5. ASSUME NEW e \in AskedFor(f) \ job.expired PROVE e \in hits
  <2>1. e \in stored /\ e \in Events /\ FilterMatches(f, e) /\ Data[e].created < U32
    BY <1>2 DEF AskedFor, Fits
  <2>2. IndexMatchesFilter(e, f)
    BY <2>1, IndexLosesNothing
  <2> QED
    BY <2>1, <2>2 DEF Selected
<1> QED
  BY <1>4, <1>5

(* A step that only lets events expire. *)
LEMMA ProgressKept ==
    ASSUME NEW fs, Progress(fs), stored' \subseteq stored, job'.before = job.before,
           stored \cup job.expired \subseteq stored' \cup job'.expired, job.expired \subseteq job'.expired,
           job'.sent = job.sent, job'.todo = job.todo, job'.sound = job.sound,
           job'.stage = "reply" => job.todo = <<>>
    PROVE  Progress(fs)'
<1>1. \A f : Met(f) => Met(f)'
  <2>1. \A f : AskedFor(f)' = AskedFor(f)
    BY DEF AskedFor, FilterMatches
  <2>2. \A f : (Exact(f)' <=> Exact(f)) /\ QueryLimit(ReqLimit(f))' = QueryLimit(ReqLimit(f))
    BY DEF Exact, QueryLimit, ReqLimit
  <2> QED
    BY <2>1, <2>2 DEF Met
<1>2. \A e : FiltersMatch(fs, e)' <=> FiltersMatch(fs, e)
  BY DEF FiltersMatch, FilterMatches
<1>3. (fs \in Seq(Filter))' /\ (job.todo \in Seq(Filter))'
  BY DEF Progress, Filter, Prefix
<1>4. /\ (\A j \in DOMAIN job.todo : \E i \in DOMAIN fs : job.todo[j] = fs[i])'
      /\ (stored \subseteq job.before)' /\ (job.before \subseteq stored \cup job.expired)'
      /\ (\A e \in job.sent : FiltersMatch(fs, e))'
  BY <1>2 DEF Progress
<1>5. (job.sound => \A i \in DOMAIN fs : Met(fs[i]) \/ \E j \in DOMAIN job.todo : job.todo[j] = fs[i])'
  BY <1>1 DEF Progress
<1> QED
  BY <1>3, <1>4, <1>5 DEF Progress

LEMMA CompleteElsewhere == ASSUME ~InAnswer' PROVE Complete'
  BY DEF Complete

(* The filters of the subscription stay the same during the answer. *)
LEMMA SameFilters ==
    ASSUME NEW fs, fs = table[<<job.conn, job.sub>>], table' = table,
           job'.conn = job.conn, job'.sub = job.sub, Progress(fs)'
    PROVE  Complete'
<1>1. table'[<<job'.conn, job'.sub>>] = fs
  OBVIOUS
<1> QED
  BY <1>1 DEF Complete

LEMMA CompleteStart == ASSUME Typed, Receive PROVE Complete'
<1>1. EmptyJob /\ (job'.stage = "reply" \/ StartsOnEvent \/ StartsOnReq)
  BY FreshJob
<1>2. CASE ~InAnswer'
  BY <1>2, CompleteElsewhere
<1>3. CASE InAnswer'
  <2>1. StartsOnReq
    BY <1>1, <1>3 DEF InAnswer, EmptyJob, StartsOnEvent
  <2>2. PICK c \in Conns, s \in SubIds :
            /\ job'.conn = c /\ job'.sub = s /\ job'.todo \in Reqs
            /\ table' = [table EXCEPT ![<<c, s>>] = job'.todo]
    BY <2>1 DEF StartsOnReq
  <2>3. PICK fs \in Reqs : fs = job'.todo
    BY <2>2
  <2>4. table'[<<job'.conn, job'.sub>>] = fs
    BY <2>2, <2>3 DEF Typed, TypeOK, Subs!Keys
  <2>5. fs \in Seq(Filter) /\ job'.todo = fs
    BY <2>3, ReqsAssumption
  <2>6. /\ job'.stage = "query" /\ job'.before = stored /\ stored' = stored
        /\ job'.sent = {}
    BY <1>1, <2>1 DEF StartsOnReq, EmptyJob
  <2>7. \A i \in DOMAIN fs : \E j \in DOMAIN job'.todo : job'.todo[j] = fs[i]
    BY <2>5
  <2>8. Progress(fs)'
    BY <2>5, <2>6, <2>7 DEF Progress
  <2> QED
    BY <2>4, <2>8 DEF Complete
<1> QED
  BY <1>2, <1>3

LEMMA CompleteAnswer == ASSUME Typed, Fits, Complete, AnswerFilter PROVE Complete'
<1>0. DOMAIN job = Fields /\ job.before \subseteq Events
  BY DEF Typed, TypeOK, Shape
<1>1. PICK fs : fs = table[<<job.conn, job.sub>>]
  OBVIOUS
<1>2. job.stage = "query" /\ job.todo # <<>> /\ stored' = stored /\ table' = table
  BY DEF AnswerFilter
<1>3. Progress(fs)
  BY <1>1, <1>2 DEF Complete, InAnswer
<1>4. PICK f : f = Head(job.todo)
  OBVIOUS
<1>5. PICK r, read, kept, sound :
        /\ r \in QueryResults(f, ReqLimit(f))
        /\ read \subseteq r /\ kept \in Remembered(read)
        /\ job' = WithResults(read, kept, sound)
        /\ (read = r /\ sound = job.sound) \/ sound = FALSE
  BY <1>4, AnswerStep
<1>6. /\ job'.stage = "query" /\ job'.conn = job.conn /\ job'.sub = job.sub /\ job'.todo = Tail(job.todo)
      /\ job'.before = job.before /\ job'.expired = job.expired
      /\ read \subseteq r /\ job'.sent = job.sent \cup read
      /\ (read = r /\ job'.sound = job.sound) \/ job'.sound = FALSE
  BY <1>0, <1>2, <1>5 DEF WithResults, Fields
<1>7. /\ f \in Filter /\ Tail(job.todo) \in Seq(Filter)
      /\ f = job.todo[1] /\ 1 \in DOMAIN job.todo
      /\ \A j \in DOMAIN Tail(job.todo) : \E i \in DOMAIN job.todo : Tail(job.todo)[j] = job.todo[i]
      /\ \A i \in DOMAIN job.todo :
            job.todo[i] = f \/ \E j \in DOMAIN Tail(job.todo) : Tail(job.todo)[j] = job.todo[i]
  <2>0. job.todo \in Seq(Filter)
    BY <1>3 DEF Progress
  <2>1. /\ Head(job.todo) \in Filter /\ Tail(job.todo) \in Seq(Filter)
        /\ Len(Tail(job.todo)) = Len(job.todo) - 1
        /\ \A j \in 1 .. Len(Tail(job.todo)) : Tail(job.todo)[j] = job.todo[j + 1]
    BY <1>2, <2>0, HeadTailProperties
  <2>2. /\ DOMAIN job.todo = 1 .. Len(job.todo) /\ Len(job.todo) \in Nat /\ Len(job.todo) > 0
        /\ DOMAIN Tail(job.todo) = 1 .. Len(Tail(job.todo)) /\ Head(job.todo) = job.todo[1]
    BY <1>2, <2>0, <2>1
  <2>3. ASSUME NEW j \in DOMAIN Tail(job.todo)
        PROVE  \E i \in DOMAIN job.todo : Tail(job.todo)[j] = job.todo[i]
    <3>1. j + 1 \in DOMAIN job.todo
      BY <2>1, <2>2
    <3> QED
      BY <2>1, <2>2, <3>1
  <2>4. ASSUME NEW i \in DOMAIN job.todo, i # 1
        PROVE  \E j \in DOMAIN Tail(job.todo) : Tail(job.todo)[j] = job.todo[i]
    <3>1. i - 1 \in 1 .. Len(Tail(job.todo)) /\ (i - 1) + 1 = i
      BY <2>1, <2>2, <2>4
    <3>2. Tail(job.todo)[i - 1] = job.todo[i]
      BY <2>1, <3>1
    <3> QED
      BY <2>2, <3>1, <3>2
  <2>5. 1 \in DOMAIN job.todo
    BY <2>2
  <2>6. \A i \in DOMAIN job.todo :
            job.todo[i] = f \/ \E j \in DOMAIN Tail(job.todo) : Tail(job.todo)[j] = job.todo[i]
    BY <1>4, <2>2, <2>4
  <2> QED
    BY <1>4, <2>1, <2>2, <2>3, <2>5, <2>6
<1>8. \A g : AskedFor(g)' = AskedFor(g) /\ (Exact(g)' <=> Exact(g))
             /\ QueryLimit(ReqLimit(g))' = QueryLimit(ReqLimit(g))
  <2>1. \A g : AskedFor(g)' = AskedFor(g)
    BY <1>6 DEF AskedFor, FilterMatches
  <2>2. \A g : (Exact(g)' <=> Exact(g)) /\ QueryLimit(ReqLimit(g))' = QueryLimit(ReqLimit(g))
    BY DEF Exact, QueryLimit, ReqLimit
  <2> QED
    BY <2>1, <2>2
<1>9. \A g : Met(g) => Met(g)'
  BY <1>6, <1>8 DEF Met
<1>10. job'.sound => Met(f)'
  <2> SUFFICES ASSUME job'.sound, Exact(f), Cardinality(AskedFor(f)) <= QueryLimit(ReqLimit(f))
               PROVE  AskedFor(f) \ job.expired \subseteq job'.sent
    BY <1>6, <1>8 DEF Met
  <2>1. AskedFor(f) \ job.expired \subseteq r
    BY <1>0, <1>3, <1>5, <1>7, QueryMeets DEF Progress
  <2> QED
    BY <1>6, <2>1
<1>11. (\A e \in job.sent : FiltersMatch(fs, e))'
  <2>1. \A e : FiltersMatch(fs, e)' <=> FiltersMatch(fs, e)
    BY DEF FiltersMatch, FilterMatches
  <2>2. \E i \in DOMAIN fs : f = fs[i]
    BY <1>3, <1>7 DEF Progress
  <2>3. \A e \in r : FilterMatches(f, e)
    BY <1>5, QueryIsStored
  <2>4. \A e \in r : FiltersMatch(fs, e)
    BY <2>2, <2>3 DEF FiltersMatch
  <2> QED
    BY <1>3, <1>6, <2>1, <2>4 DEF Progress
<1>12. (job.sound => \A i \in DOMAIN fs : Met(fs[i]) \/ \E j \in DOMAIN job.todo : job.todo[j] = fs[i])'
  <2> SUFFICES ASSUME job'.sound, NEW i \in DOMAIN fs
               PROVE  Met(fs[i])' \/ \E j \in DOMAIN Tail(job.todo) : Tail(job.todo)[j] = fs[i]
    BY <1>6
  <2>1. job.sound
    BY <1>6
  <2>2. Met(fs[i]) \/ \E j \in DOMAIN job.todo : job.todo[j] = fs[i]
    BY <1>3, <2>1 DEF Progress
  <2>3. CASE fs[i] = f
    BY <1>10, <2>3
  <2>4. CASE Met(fs[i])
    BY <1>9, <2>4
  <2>5. CASE fs[i] # f /\ \E j \in DOMAIN job.todo : job.todo[j] = fs[i]
    <3>1. PICK j \in DOMAIN job.todo : job.todo[j] = fs[i]
      BY <2>5
    <3>2. job.todo[j] = f \/ \E k \in DOMAIN Tail(job.todo) : Tail(job.todo)[k] = job.todo[j]
      BY <1>7
    <3>3. \E k \in DOMAIN Tail(job.todo) : Tail(job.todo)[k] = fs[i]
      BY <2>5, <3>1, <3>2, Zenon
    <3> QED
      BY <3>3
  <2> QED
    BY <2>2, <2>3, <2>4, <2>5
<1>13. Progress(fs)'
  <2>1. (fs \in Seq(Filter))' /\ (job.todo \in Seq(Filter))'
    BY <1>3, <1>6, <1>7 DEF Progress, Filter, Prefix
  <2>2. (\A j \in DOMAIN job.todo : \E i \in DOMAIN fs : job.todo[j] = fs[i])'
    <3> SUFFICES ASSUME NEW j \in DOMAIN Tail(job.todo) PROVE \E i \in DOMAIN fs : Tail(job.todo)[j] = fs[i]
      BY <1>6
    <3>1. PICK k \in DOMAIN job.todo : Tail(job.todo)[j] = job.todo[k]
      BY <1>7
    <3>2. \E i \in DOMAIN fs : job.todo[k] = fs[i]
      BY <1>3 DEF Progress
    <3> QED
      BY <3>1, <3>2
  <2>3. (stored \subseteq job.before)' /\ (job.before \subseteq stored \cup job.expired)'
    BY <1>2, <1>3, <1>6 DEF Progress
  <2> QED
    BY <1>6, <1>11, <1>12, <2>1, <2>2, <2>3 DEF Progress
<1> QED
  BY <1>1, <1>2, <1>6, <1>13, SameFilters

LEMMA CompleteStep == Typed /\ Course /\ Fits /\ Complete /\ [Next]_vars => Complete'
<1> SUFFICES ASSUME Typed, Course, Fits, Complete, [Next]_vars PROVE Complete'
  OBVIOUS
<1>0. DOMAIN job = Fields /\ (job.stage = "idle" => job = Idle) /\ job.stage \in Stages
  BY DEF Typed, Shape
<1>1. CASE Receive
  BY <1>1, CompleteStart
<1>2. CASE Handle
  <2>1. CASE DeletionParseFails \/ DeletionDone \/ FanoutDone
    <3>1. job'.stage = "save" \/ (job'.stage = "reply" /\ job'.answer = "")
      BY <1>0, <2>1 DEF DeletionParseFails, DeletionDone, FanoutDone, Course, Fields
    <3> QED
      BY <3>1, CompleteElsewhere DEF InAnswer
  <2>2. CASE DeletionLook
    <3>1. job'.stage = "delete"
      BY <2>2, LookStep DEF Typed, DeletionLook, OnlyLooks
    <3> QED
      BY <3>1, CompleteElsewhere DEF InAnswer
  <2>3. ASSUME NEW e, DeletionRemove(e) PROVE Complete'
    <3>1. job'.stage = "delete"
      BY <1>0, <2>3 DEF DeletionRemove, Fields
    <3> QED
      BY <3>1, CompleteElsewhere DEF InAnswer
  <2>4. CASE SaveEvent
    <3>1. \/ job' = Broadcasting
          \/ job' = [job EXCEPT !.stage = "reply", !.sound = FALSE, !.answer = Message("NOSTR_RELAY_ERR_STORAGE")]
      BY <2>4 DEF SaveEvent
    <3>2. job'.stage = "fanout" \/ (job'.stage = "reply" /\ job'.answer = Message("NOSTR_RELAY_ERR_STORAGE"))
      BY <1>0, <3>1 DEF Broadcasting, Fields
    <3>3. Message("NOSTR_RELAY_ERR_STORAGE") # "eose"
      BY DEF Message
    <3> QED
      BY <3>2, <3>3, CompleteElsewhere DEF InAnswer
  <2>5. ASSUME NEW k, FanoutSend(k) PROVE Complete'
    <3>1. job'.stage = "fanout"
      BY <1>0, <2>5 DEF FanoutSend, Fields
    <3> QED
      BY <3>1, CompleteElsewhere DEF InAnswer
  <2>6. CASE AnswerFilter
    BY <2>6, CompleteAnswer
  <2>7. CASE AnswerDone
    <3>1. /\ job'.conn = job.conn /\ job'.sub = job.sub /\ job'.before = job.before /\ job'.expired = job.expired
          /\ job'.sent = job.sent /\ job'.todo = job.todo /\ job'.sound = job.sound
          /\ job.stage = "query" /\ job.todo = <<>> /\ stored' = stored /\ table' = table
      BY <1>0, <2>7 DEF AnswerDone, Fields
    <3>2. PICK fs : fs = table[<<job.conn, job.sub>>]
      OBVIOUS
    <3>3. Progress(fs)
      BY <3>1, <3>2 DEF Complete, InAnswer
    <3>4. Progress(fs)'
      BY <3>1, <3>3, ProgressKept
    <3> QED
      BY <3>1, <3>2, <3>4, SameFilters
  <2>8. CASE Reply
    BY <2>8, IdleShape, CompleteElsewhere DEF Reply, InAnswer
  <2> QED
    BY <1>2, <2>1, <2>2, <2>3, <2>4, <2>5, <2>6, <2>7, <2>8 DEF Handle
<1>3. CASE job' = job /\ (job.stage = "idle" \/ UNCHANGED <<stored, table>>)
  <2>1. CASE ~InAnswer
    <3>1. ~InAnswer'
      BY <1>3, <2>1 DEF InAnswer
    <3> QED
      BY <3>1, CompleteElsewhere
  <2>2. CASE InAnswer
    <3>1. PICK fs : fs = table[<<job.conn, job.sub>>]
      OBVIOUS
    <3>2. Progress(fs) /\ job.stage # "idle"
      BY <2>2, <3>1 DEF Complete, InAnswer
    <3>3. stored' = stored /\ table' = table /\ (job.stage = "reply" => job.todo = <<>>)
      BY <1>3, <3>2 DEF Progress
    <3>4. Progress(fs)'
      BY <1>3, <3>2, <3>3, ProgressKept
    <3> QED
      BY <1>3, <3>1, <3>3, <3>4, SameFilters
  <2> QED
    BY <2>1, <2>2
<1>4. ASSUME NEW e \in Events, Expire(e) PROVE Complete'
  <2>1. stored' = stored \ {e} /\ table' = table
    BY <1>4 DEF Expire, Store!Delete
  <2>2. CASE ~InAnswer
    <3>1. job'.stage = job.stage /\ job'.answer = job.answer
      BY <1>0, <1>4 DEF Expire, Fields
    <3> QED
      BY <2>2, <3>1, CompleteElsewhere DEF InAnswer
  <2>3. CASE InAnswer
    <3>1. job' = [job EXCEPT !.expired = @ \cup {e}]
      BY <1>4, <2>3 DEF Expire, InAnswer
    <3>2. /\ job'.conn = job.conn /\ job'.sub = job.sub /\ job'.before = job.before
          /\ job'.expired = job.expired \cup {e} /\ job'.stage = job.stage
          /\ job'.sent = job.sent /\ job'.todo = job.todo /\ job'.sound = job.sound
      BY <1>0, <3>1 DEF Fields
    <3>3. PICK fs : fs = table[<<job.conn, job.sub>>]
      OBVIOUS
    <3>4. Progress(fs)
      BY <2>3, <3>3 DEF Complete
    <3>5. job.stage = "reply" => job.todo = <<>>
      BY <3>4 DEF Progress
    <3>6. Progress(fs)'
      BY <2>1, <3>2, <3>4, <3>5, ProgressKept
    <3> QED
      BY <2>1, <3>2, <3>3, <3>6, SameFilters
  <2> QED
    BY <2>2, <2>3
<1> QED
  BY <1>1, <1>2, <1>3, <1>4 DEF Next, RunWork, Connection, OpenConn, CloseConn, Ready, vars

(* When handle_req sends EOSE, the client has been sent nothing that its   *)
(* filters do not match and, for every filter of complete ids, long enough *)
(* keys and 32-bit times whose limit was not met, every event that was     *)
(* stored when the REQ came and has not expired since, provided that no    *)
(* query failed and the clock fits the 32 bits of the index.               *)
THEOREM AnswerIsCompleteThm ==
    ASSUME ClockFits
    PROVE  Spec => []AnswerIsComplete
<1>1. Init => Fits /\ Complete
  BY IdleShape DEF Init, Fits, Complete, InAnswer
<1>2. Typed /\ Course /\ Fits /\ Complete /\ [Next]_vars => Fits' /\ Complete'
  BY FitsStep, CompleteStep
<1>3. Complete => AnswerIsComplete
  <2> SUFFICES ASSUME Complete, job.stage = "reply", job.answer = "eose", job.sound
               PROVE  LET fs       == table[<<job.conn, job.sub>>]
                          asked(f) == {e \in job.before : FilterMatches(f, e)}
                      IN  /\ \A e \in job.sent : FiltersMatch(fs, e)
                          /\ \A i \in DOMAIN fs :
                                Exact(fs[i]) /\ Cardinality(asked(fs[i])) <= QueryLimit(ReqLimit(fs[i]))
                                    => asked(fs[i]) \ job.expired \subseteq job.sent
    BY DEF AnswerIsComplete
  <2>1. PICK fs : fs = table[<<job.conn, job.sub>>]
    OBVIOUS
  <2>2. Progress(fs) /\ job.todo = <<>>
    BY <2>1 DEF Complete, InAnswer, Progress
  <2>3. \A e \in job.sent : FiltersMatch(fs, e)
    BY <2>2 DEF Progress
  <2>4. \A i \in DOMAIN fs : Met(fs[i])
    BY <2>2 DEF Progress
  <2> QED
    BY <2>1, <2>3, <2>4 DEF Met, AskedFor
<1> QED
  BY <1>1, <1>2, <1>3, TypedHolds, CourseHolds, PTL DEF Spec

=============================================================================
