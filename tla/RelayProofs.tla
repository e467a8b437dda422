---------------------------- MODULE RelayProofs ----------------------------
(***************************************************************************)
(* What the answer to an EVENT says is true, for any events, clock and     *)
(* limits, and however the cleanup task cuts in.  The proof follows the    *)
(* event through the stages of handle_event: Shape says which stage has an *)
(* event at all, Course what holds of it at each stage.                    *)
(***************************************************************************)
EXTENDS Relay, FiltersProofs, FiniteSetTheorems, SequenceTheorems

(* The fields of job. *)
Fields ==
    {"stage", "conn", "sub", "event", "todo", "found", "targets", "sent", "remembered", "dedup",
     "answer", "at", "before", "expired", "repeated", "sound", "reached"}

Stages == {"idle", "delete", "save", "fanout", "query", "reply"}

(* job is a record, whose stage tells what it holds. *)
Shape ==
    /\ DOMAIN job = Fields
    /\ job.stage \in Stages
    /\ job.stage = "idle" => job = Idle
    /\ job.event \in Events \cup {NoEvent}
    /\ job.stage = "query" => job.event = NoEvent
    /\ job.stage \in {"delete", "save", "fanout"} => job.event \in Events
    /\ stored \subseteq Events

LEMMA IdleShape ==
    /\ DOMAIN Idle = Fields
    /\ Idle.stage = "idle"
    /\ Idle.event = NoEvent
  BY DEF Idle, Fields

LEMMA ShapeInit == Init => Shape
  BY IdleShape DEF Init, Shape, Stages

LEMMA ShapeReceive == Shape /\ Receive => Shape'
<1> SUFFICES ASSUME Shape, NEW c \in Conns,
                    \/ \E e \in Events : ReceiveEvent(c, e)
                    \/ \E s \in SubIds :
                        \/ RefuseReq(c, s)
                        \/ \E fs \in Reqs : ReceiveReq(c, s, fs)
                        \/ ReqNotAdded(c, s)
                        \/ ReceiveClose(c, s)
                    \/ ReceiveOther(c)
             PROVE  Shape'
  BY DEF Receive
<1>1. ASSUME NEW e \in Events, ReceiveEvent(c, e) PROVE Shape'
  <2>1. PICK now \in Times :
            \/ \E message : job' = Refusal(c, e, now, message)
            \/ job' = Handling(c, e, now)
    BY <1>1 DEF ReceiveEvent
  <2>2. CASE \E message : job' = Refusal(c, e, now, message)
    BY <1>1, <2>2, IdleShape DEF Shape, Fields, Stages, Refusal, ReceiveEvent
  <2>3. CASE job' = Handling(c, e, now)
    BY <1>1, <2>3, IdleShape DEF Shape, Fields, Stages, Handling, ReceiveEvent
  <2> QED
    BY <2>1, <2>2, <2>3
<1>2. ASSUME NEW s \in SubIds, RefuseReq(c, s) PROVE Shape'
  BY <1>2, IdleShape DEF RefuseReq, Shape, Fields, Stages
<1>3. ASSUME NEW s \in SubIds, NEW fs \in Reqs, ReceiveReq(c, s, fs) PROVE Shape'
  <2>1. PICK dedup : job' = Answering(c, s, fs, dedup)
    BY <1>3 DEF ReceiveReq
  <2>2. stored' = stored
    BY <1>3 DEF ReceiveReq
  <2> QED
    BY <2>1, <2>2, IdleShape DEF Answering, Shape, Fields, Stages
<1>4. ASSUME NEW s \in SubIds, ReqNotAdded(c, s) PROVE Shape'
  BY <1>4, IdleShape DEF ReqNotAdded, Shape, Fields, Stages
<1>5. ASSUME NEW s \in SubIds, ReceiveClose(c, s) PROVE Shape'
  BY <1>5, IdleShape DEF ReceiveClose, Shape, Fields, Stages
<1>6. CASE ReceiveOther(c)
  BY <1>6, IdleShape DEF ReceiveOther, Shape, Fields, Stages
<1> QED
  BY <1>1, <1>2, <1>3, <1>4, <1>5, <1>6

(* One filter of an answer: all of its results are sent, or something has  *)
(* failed and only some are.                                               *)
LEMMA AnswerStep ==
    ASSUME AnswerFilter
    PROVE  \E r, read, kept, sound :
               /\ r \in QueryResults(Head(job.todo), ReqLimit(Head(job.todo)))
               /\ read \subseteq r /\ kept \in Remembered(read)
               /\ job' = WithResults(read, kept, sound)
               /\ (read = r /\ sound = job.sound) \/ sound = FALSE
<1>1. PICK r \in QueryResults(Head(job.todo), ReqLimit(Head(job.todo))) :
        \/ \E kept \in Remembered(r) : job' = WithResults(r, kept, job.sound)
        \/ \E read \in SUBSET r : \E kept \in Remembered(read) :
              job' = WithResults(read, kept, FALSE)
  BY DEF AnswerFilter
<1> QED
  BY <1>1

LEMMA ShapeHandle == Shape /\ Handle => Shape'
<1> SUFFICES ASSUME Shape, Handle PROVE Shape'
  OBVIOUS
<1>1. CASE DeletionParseFails
  BY <1>1 DEF Shape, Fields, Stages, DeletionParseFails
<1>2. CASE DeletionLook
  BY <1>2 DEF Shape, Fields, Stages, DeletionLook
<1>3. CASE DeletionDone
  BY <1>3 DEF Shape, Fields, Stages, DeletionDone
<1>4. ASSUME NEW e \in Events, DeletionRemove(e) PROVE Shape'
  BY <1>4 DEF Shape, Fields, Stages, DeletionRemove, Store!Delete
<1>5. CASE SaveEvent
  BY <1>5 DEF Shape, Fields, Stages, SaveEvent, Broadcasting, Store!Save
<1>6. ASSUME NEW k \in Subs!Keys, FanoutSend(k) PROVE Shape'
  BY <1>6 DEF Shape, Fields, Stages, FanoutSend
<1>7. CASE FanoutDone
  BY <1>7 DEF Shape, Fields, Stages, FanoutDone
<1>8. CASE AnswerFilter
  <2>1. PICK read, kept, sound : job' = WithResults(read, kept, sound)
    BY <1>8, AnswerStep
  <2>2. job.stage = "query" /\ stored' = stored
    BY <1>8 DEF AnswerFilter
  <2> QED
    BY <2>1, <2>2 DEF Shape, Fields, Stages, WithResults
<1>9. CASE AnswerDone
  BY <1>9 DEF Shape, Fields, Stages, AnswerDone
<1>10. CASE Reply
  BY <1>10 DEF Shape, Fields, Stages, Reply, Idle
<1> QED
  BY <1>1, <1>2, <1>3, <1>4, <1>5, <1>6, <1>7, <1>8, <1>9, <1>10 DEF Handle

LEMMA ShapeStep == Shape /\ [Next]_vars => Shape'
<1> SUFFICES ASSUME Shape, [Next]_vars PROVE Shape'
  OBVIOUS
<1>1. CASE Receive
  BY <1>1, ShapeReceive
<1>2. CASE Handle
  BY <1>2, ShapeHandle
<1>3. CASE RunWork \/ Connection
  BY <1>3 DEF Shape, Idle, RunWork, Connection, OpenConn, CloseConn, Ready
<1>4. ASSUME NEW e \in Events, Expire(e) PROVE Shape'
  BY <1>4 DEF Shape, Fields, Stages, Expire, Store!Delete
<1>5. CASE UNCHANGED vars
  BY <1>5 DEF Shape, Idle, vars
<1> QED
  BY <1>1, <1>2, <1>3, <1>4, <1>5 DEF Next

-----------------------------------------------------------------------------
(* Type correctness *)

(* The parts of the deletion request d. *)
ItemsOf(d) ==
    {[by |-> "id", id |-> Data[d].e[i]] : i \in DOMAIN Data[d].e}
    \cup {[by |-> "address", addr |-> Data[d].a[i]] : i \in DOMAIN Data[d].a}
    \cup {[by |-> "kind", kind |-> Atoi[Data[d].k[i]]] : i \in DOMAIN Data[d].k}

(* Where the elements of a concatenation come from. *)
LEMMA ConcatAt ==
    ASSUME NEW S, NEW s \in Seq(S), NEW t \in Seq(S)
    PROVE  /\ s \o t \in Seq(S)
           /\ Len(s) \in Nat /\ Len(t) \in Nat
           /\ Len(s \o t) = Len(s) + Len(t)
           /\ \A i \in 1 .. Len(s) : (s \o t)[i] = s[i]
           /\ \A i \in 1 .. Len(t) : (s \o t)[Len(s) + i] = t[i]
<1>1. /\ s \o t \in Seq(S)
      /\ Len(s \o t) = Len(s) + Len(t)
      /\ \A i \in 1 .. Len(s) + Len(t) : (s \o t)[i] = IF i <= Len(s) THEN s[i] ELSE t[i - Len(s)]
  BY ConcatProperties
<1> DEFINE st == s \o t
           m == Len(s)
           n == Len(t)
<1>2. m \in Nat /\ n \in Nat
  OBVIOUS
<1>3. \A i \in 1 .. m + n : st[i] = IF i <= m THEN s[i] ELSE t[i - m]
  BY <1>1
<1> HIDE DEF st, m, n
<1>4. \A i \in 1 .. m : st[i] = s[i]
  BY <1>2, <1>3
<1>5. ASSUME NEW i \in 1 .. n PROVE st[m + i] = t[i]
  <2>1. m + i \in 1 .. m + n /\ ~(m + i <= m) /\ (m + i) - m = i
    BY <1>2
  <2> QED
    BY <1>3, <2>1
<1> QED
  BY <1>1, <1>2, <1>4, <1>5 DEF st, m, n

(* deletion_process goes through parts of the request and, unless there    *)
(* are too many k tags, through all of them.                               *)
LEMMA ItemsListed ==
    ASSUME NEW d \in Events
    PROVE  /\ DeletionItems(d) \in Seq(ItemsOf(d))
           /\ Len(Data[d].k) <= MaxKinds =>
                \A item \in ItemsOf(d) : \E i \in DOMAIN DeletionItems(d) : DeletionItems(d)[i] = item
<1> DEFINE S == ItemsOf(d)
           n == IF Len(Data[d].k) < MaxKinds THEN Len(Data[d].k) ELSE MaxKinds
           kinds == SubSeq(Data[d].k, 1, n)
           x == [i \in DOMAIN Data[d].e |-> [by |-> "id", id |-> Data[d].e[i]]]
           y == [i \in DOMAIN Data[d].a |-> [by |-> "address", addr |-> Data[d].a[i]]]
           z == [i \in DOMAIN kinds |-> [by |-> "kind", kind |-> Atoi[kinds[i]]]]
<1>1. /\ Len(Data[d].e) \in Nat /\ DOMAIN Data[d].e = 1 .. Len(Data[d].e)
      /\ Len(Data[d].a) \in Nat /\ DOMAIN Data[d].a = 1 .. Len(Data[d].a)
      /\ Len(Data[d].k) \in Nat /\ DOMAIN Data[d].k = 1 .. Len(Data[d].k)
  BY TagsAssumption
<1>2. n \in Nat /\ n <= Len(Data[d].k) /\ MaxKinds \in Nat
  BY <1>1, RelayAssumption
<1>3. DOMAIN kinds = 1 .. n /\ \A i \in 1 .. n : kinds[i] = Data[d].k[i]
  BY <1>1, <1>2, TagsAssumption
<1>4. x \in Seq(S) /\ Len(x) = Len(Data[d].e) /\ \A i \in 1 .. Len(x) : x[i] = [by |-> "id", id |-> Data[d].e[i]]
  BY <1>1 DEF ItemsOf
<1>5. y \in Seq(S) /\ Len(y) = Len(Data[d].a) /\ \A i \in 1 .. Len(y) : y[i] = [by |-> "address", addr |-> Data[d].a[i]]
  BY <1>1 DEF ItemsOf
<1>6. z \in Seq(S) /\ Len(z) = n /\ \A i \in 1 .. n : z[i] = [by |-> "kind", kind |-> Atoi[Data[d].k[i]]]
  <2> HIDE DEF n
  <2>1. z = [i \in 1 .. n |-> [by |-> "kind", kind |-> Atoi[Data[d].k[i]]]]
    BY <1>3
  <2>2. \A i \in 1 .. n : [by |-> "kind", kind |-> Atoi[Data[d].k[i]]] \in S
    BY <1>1, <1>2 DEF ItemsOf
  <2> QED
    BY <1>2, <2>1, <2>2
<1>7. DeletionItems(d) = (x \o y) \o z
  BY DEF DeletionItems
<1> HIDE DEF S, x, y, z, kinds
<1>8. /\ x \o y \in Seq(S) /\ Len(x \o y) = Len(x) + Len(y)
      /\ \A i \in 1 .. Len(x) : (x \o y)[i] = x[i]
      /\ \A i \in 1 .. Len(y) : (x \o y)[Len(x) + i] = y[i]
  <2>1. x \in Seq(S) /\ y \in Seq(S)
    BY <1>4, <1>5
  <2> QED
    BY <2>1, ConcatAt
<1> DEFINE xy == x \o y
<1> HIDE DEF xy
<1>9. /\ xy \o z \in Seq(S) /\ Len(xy \o z) = Len(xy) + Len(z)
      /\ \A i \in 1 .. Len(xy) : (xy \o z)[i] = xy[i]
      /\ \A i \in 1 .. Len(z) : (xy \o z)[Len(xy) + i] = z[i]
  BY <1>6, <1>8, ConcatAt DEF xy
<1> DEFINE all == xy \o z
<1> HIDE DEF all, n
<1>10. /\ all \in Seq(S) /\ DOMAIN all = 1 .. Len(all) /\ Len(all) = Len(x) + Len(y) + Len(z)
       /\ \A i \in 1 .. Len(x) : all[i] = x[i]
       /\ \A i \in 1 .. Len(y) : all[Len(x) + i] = y[i]
       /\ \A i \in 1 .. Len(z) : all[Len(x) + Len(y) + i] = z[i]
  <2>1. /\ Len(x) \in Nat /\ Len(y) \in Nat /\ Len(xy) = Len(x) + Len(y)
        /\ \A i \in 1 .. Len(x) : xy[i] = x[i]
        /\ \A i \in 1 .. Len(y) : xy[Len(x) + i] = y[i]
    BY <1>1, <1>4, <1>5, <1>8 DEF xy
  <2>2. \A i \in 1 .. Len(x) : all[i] = x[i]
    BY <1>9, <2>1 DEF all
  <2>3. \A i \in 1 .. Len(y) : all[Len(x) + i] = y[i]
    BY <1>9, <2>1 DEF all
  <2>4. /\ all \in Seq(S) /\ Len(all) = Len(x) + Len(y) + Len(z)
        /\ \A i \in 1 .. Len(z) : all[Len(x) + Len(y) + i] = z[i]
    BY <1>9, <2>1 DEF all
  <2>5. DOMAIN all = 1 .. Len(all)
    BY <2>4
  <2> QED
    BY <2>2, <2>3, <2>4, <2>5
<1>11. ASSUME Len(Data[d].k) <= MaxKinds, NEW item \in S PROVE \E i \in 1 .. Len(all) : all[i] = item
  <2>1. n = Len(Data[d].k)
    BY <1>1, <1>2, <1>11 DEF n
  <2>0. Len(x) \in Nat /\ Len(y) \in Nat /\ Len(z) \in Nat /\ Len(all) = Len(x) + Len(y) + Len(z)
    BY <1>1, <1>2, <1>4, <1>5, <1>6, <1>10
  <2>2. CASE \E i \in 1 .. Len(x) : item = x[i]
    <3>1. PICK i \in 1 .. Len(x) : item = x[i]
      BY <2>2
    <3>2. i \in 1 .. Len(all)
      BY <2>0
    <3> QED
      BY <1>10, <3>1, <3>2
  <2>3. CASE \E i \in 1 .. Len(y) : item = y[i]
    <3>1. PICK i \in 1 .. Len(y) : item = y[i]
      BY <2>3
    <3>2. Len(x) + i \in 1 .. Len(all)
      BY <2>0
    <3> QED
      BY <1>10, <3>1, <3>2
  <2>4. CASE \E i \in 1 .. Len(z) : item = z[i]
    <3>1. PICK i \in 1 .. Len(z) : item = z[i]
      BY <2>4
    <3>2. Len(x) + Len(y) + i \in 1 .. Len(all)
      BY <2>0
    <3> QED
      BY <1>10, <3>1, <3>2
  <2>5. CASE \E i \in DOMAIN Data[d].e : item = [by |-> "id", id |-> Data[d].e[i]]
    BY <1>1, <1>4, <2>2, <2>5
  <2>6. CASE \E i \in DOMAIN Data[d].a : item = [by |-> "address", addr |-> Data[d].a[i]]
    BY <1>1, <1>5, <2>3, <2>6
  <2>7. CASE \E i \in DOMAIN Data[d].k : item = [by |-> "kind", kind |-> Atoi[Data[d].k[i]]]
    BY <1>1, <1>6, <2>1, <2>4, <2>7
  <2> QED
    BY <2>5, <2>6, <2>7 DEF S, ItemsOf
<1>12. DeletionItems(d) = all
  BY <1>7 DEF all, xy
<1> QED
  BY <1>10, <1>11, <1>12 DEF S

(* TypeOK with what makes it inductive: a deletion goes through parts of   *)
(* its request.                                                            *)
Typed ==
    /\ Shape
    /\ TypeOK
    /\ job.stage = "delete" => job.todo \in Seq(ItemsOf(job.event))

LEMMA IdleIsEmpty ==
    /\ Idle.found = {} /\ Idle.targets = {} /\ Idle.sent = {} /\ Idle.remembered = {}
    /\ Idle.before = {} /\ Idle.expired = {} /\ Idle.repeated = {}
    /\ Idle.todo = <<>> /\ Idle.answer = "" /\ Idle.sound = TRUE /\ Idle.dedup = TRUE
  BY DEF Idle

(* A query delivers stored events that the filter matches. *)
LEMMA QueryIsStored ==
    ASSUME NEW f, NEW limit, NEW r \in QueryResults(f, limit)
    PROVE  r \subseteq stored /\ r \subseteq Selected(stored, f) /\ \A e \in r : FilterMatches(f, e)
  BY DEF QueryResults, Selected

(* What a part of a deletion request finds is stored. *)
LEMMA LookIsStored ==
    ASSUME NEW d, NEW item \in ItemsOf(d), NEW found \in Look(d, item)
    PROVE  found \subseteq stored
<1>1. CASE item.by = "id"
  BY <1>1 DEF Look
<1>2. CASE item.by = "address"
  <2>1. CASE item.addr.author # Data[d].author
    BY <1>2, <2>1 DEF Look
  <2>2. CASE item.addr.author = Data[d].author
    BY <1>2, <2>2, QueryIsStored DEF Look
  <2> QED
    BY <2>1, <2>2
<1>3. CASE item.by = "kind"
  BY <1>3, QueryIsStored DEF Look
<1>4. item.by \in {"id", "address", "kind"}
  BY DEF ItemsOf
<1> QED
  BY <1>1, <1>2, <1>3, <1>4

(* Starting on a message. *)
LEMMA FreshJobTyped ==
    ASSUME TypeOK, UNCHANGED <<open, stored, queue>>, failures' \in 0 .. MaxFailures,
           table' \in [Subs!Keys -> Reqs \cup {<<>>, Absent}],
           \A k \in (Subs!Present)' : k[1] \in open,
           job'.stage \in Stages \ {"idle"}, job'.conn \in open,
           job'.found = {}, job'.targets = {}, job'.sent = {}, job'.remembered = {},
           job'.expired = {}, job'.before \in {{}, stored}
    PROVE  TypeOK'
<1> USE DEF TypeOK, Stages
<1>1. (open \subseteq Conns)' /\ (stored \subseteq Events)' /\ (failures \in 0 .. MaxFailures)'
  OBVIOUS
<1>2. /\ (table \in [Subs!Keys -> Reqs \cup {<<>>, Absent}])'
      /\ (\A k \in Subs!Present : k[1] \in open)'
  BY DEF Subs!Keys
<1>3. (queue \in Seq([key: Subs!Keys, event: Events]))' /\ (Len(queue) <= QueueLimit)'
  BY DEF Subs!Keys
<1>4. /\ (job.found \cup job.sent \cup job.before \cup job.expired \subseteq Events)'
      /\ (job.targets \subseteq Subs!Present)' /\ (job.remembered \subseteq job.sent)'
  OBVIOUS
<1> QED
  BY <1>1, <1>2, <1>3, <1>4

(* One subscription of an open connection is changed. *)
LEMMA TableTyped ==
    ASSUME TypeOK, NEW c \in open, NEW s \in SubIds, NEW fs \in Reqs \cup {<<>>, Absent},
           table' = [table EXCEPT ![<<c, s>>] = fs]
    PROVE  /\ table' \in [Subs!Keys -> Reqs \cup {<<>>, Absent}]
           /\ \A k \in (Subs!Present)' : k[1] \in open
<1>1. table' \in [Subs!Keys -> Reqs \cup {<<>>, Absent}]
  BY DEF TypeOK
<1>2. \A k \in (Subs!Present)' : k \in Subs!Present \/ k = <<c, s>>
  BY DEF Subs!Present, Subs!Keys, TypeOK
<1> QED
  BY <1>1, <1>2 DEF TypeOK

LEMMA TypedReceive == Typed /\ Receive => Typed'
<1> SUFFICES ASSUME Typed, NEW c \in Conns,
                    \/ \E e \in Events : ReceiveEvent(c, e)
                    \/ \E s \in SubIds :
                        \/ RefuseReq(c, s)
                        \/ \E fs \in Reqs : ReceiveReq(c, s, fs)
                        \/ ReqNotAdded(c, s)
                        \/ ReceiveClose(c, s)
                    \/ ReceiveOther(c),
                    Shape'
             PROVE  TypeOK' /\ (job.stage = "delete" => job.todo \in Seq(ItemsOf(job.event)))'
  BY ShapeReceive DEF Receive, Typed
<1>0. TypeOK /\ (\A k \in Subs!Present : k[1] \in open) /\ failures \in 0 .. MaxFailures
      /\ MaxFailures \in Nat /\ table \in [Subs!Keys -> Reqs \cup {<<>>, Absent}]
  BY RelayAssumption DEF Typed, TypeOK
<1>1. ASSUME NEW e \in Events, ReceiveEvent(c, e)
      PROVE  TypeOK' /\ (job.stage = "delete" => job.todo \in Seq(ItemsOf(job.event)))'
  <2>1. PICK now \in Times :
            \/ \E message : job' = Refusal(c, e, now, message)
            \/ job' = Handling(c, e, now)
    BY <1>1 DEF ReceiveEvent
  <2>2. /\ c \in open /\ UNCHANGED <<open, table, stored, queue, failures>>
        /\ \A k \in (Subs!Present)' : k[1] \in open
    BY <1>0, <1>1 DEF ReceiveEvent, Ready, Subs!Present
  <2>3. /\ job'.stage \in {"delete", "save", "reply"} /\ job'.conn = c /\ job'.event = e
        /\ job'.found = {} /\ job'.targets = {} /\ job'.sent = {} /\ job'.remembered = {}
        /\ job'.expired = {} /\ job'.before = stored
        /\ job'.stage = "delete" => job'.todo = DeletionItems(e)
    <3>1. CASE \E message : job' = Refusal(c, e, now, message)
      <4>1. PICK message : job' = Refusal(c, e, now, message)
        BY <3>1
      <4> QED
        BY <4>1, IdleShape, IdleIsEmpty DEF Refusal, Fields
    <3>2. CASE job' = Handling(c, e, now)
      BY <3>2, IdleShape, IdleIsEmpty DEF Handling, Fields
    <3> QED
      BY <2>1, <3>1, <3>2
  <2>4. TypeOK'
    BY <1>0, <2>2, <2>3, FreshJobTyped DEF Stages
  <2>5. (job.stage = "delete" => job.todo \in Seq(ItemsOf(job.event)))'
    <3>1. DeletionItems(e) \in Seq(ItemsOf(e))
      BY ItemsListed
    <3>2. ItemsOf(job.event)' = ItemsOf(e)
      BY <2>3 DEF ItemsOf
    <3> QED
      BY <2>3, <3>1, <3>2
  <2> QED
    BY <2>4, <2>5
<1> DEFINE goal == TypeOK' /\ (job.stage = "delete" => job.todo \in Seq(ItemsOf(job.event)))'
           kept == c \in open /\ UNCHANGED <<open, stored, queue>> /\ failures' \in 0 .. MaxFailures
           changed ==
               \/ table' = table
               \/ \E s \in SubIds, fs \in Reqs \cup {<<>>, Absent} : table' = [table EXCEPT ![<<c, s>>] = fs]
           fresh ==
               /\ job'.stage \in {"query", "reply"} /\ job'.conn = c
               /\ job'.found = {} /\ job'.targets = {} /\ job'.sent = {} /\ job'.remembered = {}
               /\ job'.expired = {} /\ job'.before \in {{}, stored}
<1>2. ASSUME kept, changed, fresh PROVE goal
  <2>1. /\ table' \in [Subs!Keys -> Reqs \cup {<<>>, Absent}]
        /\ \A k \in (Subs!Present)' : k[1] \in open
    <3>1. CASE table' = table
      BY <1>0, <3>1 DEF Subs!Present
    <3>2. ASSUME NEW s \in SubIds, NEW fs \in Reqs \cup {<<>>, Absent}, table' = [table EXCEPT ![<<c, s>>] = fs]
          PROVE  /\ table' \in [Subs!Keys -> Reqs \cup {<<>>, Absent}]
                 /\ \A k \in (Subs!Present)' : k[1] \in open
      BY <1>0, <1>2, <3>2, TableTyped
    <3> QED
      BY <1>2, <3>1, <3>2
  <2> QED
    BY <1>0, <1>2, <2>1, FreshJobTyped DEF Stages
<1> HIDE DEF goal
<1>3. ASSUME NEW s \in SubIds, RefuseReq(c, s)
      PROVE  goal
  <2>1. kept
    BY <1>0, <1>3 DEF RefuseReq, Ready, Fail, NoFail
  <2>2. changed
    BY <1>3 DEF RefuseReq
  <2>3. fresh
    BY <1>3, IdleShape, IdleIsEmpty DEF RefuseReq, Fields
  <2> QED
    BY <1>2, <2>1, <2>2, <2>3
<1>4. ASSUME NEW s \in SubIds, NEW fs \in Reqs, ReceiveReq(c, s, fs)
      PROVE  goal
  <2>1. kept
    <3>1. c \in open /\ UNCHANGED <<open, stored, queue>> /\ (Fail \/ NoFail)
      BY <1>4 DEF ReceiveReq, Ready
    <3> QED
      BY <1>0, <3>1 DEF Fail, NoFail
  <2>2. changed
    BY <1>4 DEF ReceiveReq, Subs!Open, Subs!Replace
  <2>3. fresh
    <3>1. PICK dedup : job' = Answering(c, s, fs, dedup)
      BY <1>4 DEF ReceiveReq
    <3> QED
      BY <3>1, IdleShape, IdleIsEmpty DEF Answering, Fields
  <2> QED
    BY <1>2, <2>1, <2>2, <2>3
<1>5. ASSUME NEW s \in SubIds, ReqNotAdded(c, s)
      PROVE  goal
  <2>1. kept
    <3>1. c \in open /\ UNCHANGED <<open, stored, queue>> /\ (Fail \/ NoFail)
      BY <1>5 DEF ReqNotAdded, Ready
    <3> QED
      BY <1>0, <3>1 DEF Fail, NoFail
  <2>2. changed
    BY <1>5 DEF ReqNotAdded, Subs!Starve, Subs!Replace
  <2>3. fresh
    <3>1. job' = [Idle EXCEPT !.stage = "reply", !.conn = c, !.sub = s, !.answer = "closed"]
      BY <1>5 DEF ReqNotAdded
    <3> QED
      BY <3>1, IdleShape, IdleIsEmpty DEF Fields
  <2> QED
    BY <1>2, <2>1, <2>2, <2>3
<1>6. ASSUME NEW s \in SubIds, ReceiveClose(c, s)
      PROVE  goal
  <2>1. kept
    BY <1>0, <1>6 DEF ReceiveClose, Ready, Fail, NoFail
  <2>2. changed
    BY <1>6 DEF ReceiveClose, Subs!Close
  <2>3. fresh
    BY <1>6, IdleShape, IdleIsEmpty DEF ReceiveClose, Fields
  <2> QED
    BY <1>2, <2>1, <2>2, <2>3
<1>7. ASSUME ReceiveOther(c) PROVE goal
  <2>1. kept
    BY <1>0, <1>7 DEF ReceiveOther, Ready, Fail, NoFail
  <2>2. changed
    BY <1>7 DEF ReceiveOther
  <2>3. fresh
    BY <1>7, IdleShape, IdleIsEmpty DEF ReceiveOther, Fields
  <2> QED
    BY <1>2, <2>1, <2>2, <2>3
<1> QED
  BY <1>1, <1>3, <1>4, <1>5, <1>6, <1>7 DEF goal

(* Going on with a message: table and connections stay, and so do the      *)
(* fields of job that a step does not name.                                *)
LEMMA GoingOnTyped ==
    ASSUME TypeOK, job.stage # "idle", UNCHANGED <<open, table>>,
           stored' \subseteq Events, failures' \in 0 .. MaxFailures,
           queue' \in Seq([key: Subs!Keys, event: Events]), Len(queue') <= QueueLimit,
           job'.stage \in Stages \ {"idle"}, job'.conn = job.conn, job'.before = job.before,
           job'.found \subseteq Events, job'.sent \subseteq Events, job'.expired \subseteq Events,
           job'.targets \subseteq Subs!Present, job'.remembered \subseteq job'.sent
    PROVE  TypeOK'
<1> USE DEF TypeOK, Stages
<1>1. (open \subseteq Conns)' /\ (stored \subseteq Events)' /\ (failures \in 0 .. MaxFailures)'
  OBVIOUS
<1>2. Subs!Present' = Subs!Present
  BY DEF Subs!Present
<1>3. /\ (table \in [Subs!Keys -> Reqs \cup {<<>>, Absent}])'
      /\ (\A k \in Subs!Present : k[1] \in open)'
      /\ (queue \in Seq([key: Subs!Keys, event: Events]))' /\ (Len(queue) <= QueueLimit)'
  BY <1>2 DEF Subs!Keys
<1>4. /\ (job.found \cup job.sent \cup job.before \cup job.expired \subseteq Events)'
      /\ (job.targets \subseteq Subs!Present)' /\ (job.remembered \subseteq job.sent)'
      /\ (job.stage # "idle" => job.conn \in open)'
  BY <1>2
<1> QED
  BY <1>1, <1>3, <1>4

(* The fields that looking at a part of a deletion request leaves alone. *)
OnlyLooks ==
    /\ job'.todo = Tail(job.todo)
    /\ job'.stage = job.stage /\ job'.conn = job.conn /\ job'.event = job.event
    /\ job'.before = job.before /\ job'.expired = job.expired /\ job'.targets = job.targets
    /\ job'.sent = job.sent /\ job'.remembered = job.remembered /\ job'.repeated = job.repeated
    /\ job'.dedup = job.dedup /\ job'.answer = job.answer

LEMMA LookStep ==
    ASSUME Shape, DeletionLook
    PROVE  \E found \in Look(job.event, Head(job.todo)) :
                /\ job'.found \subseteq found /\ OnlyLooks
                /\ \/ job'.found = found /\ job'.sound = job.sound
                   \/ job'.sound = FALSE
<1>1. PICK found \in Look(job.event, Head(job.todo)) :
        \/ job' = [job EXCEPT !.todo = Tail(@), !.found = found]
        \/ \E read \in SUBSET found : job' = [job EXCEPT !.todo = Tail(@), !.found = read, !.sound = FALSE]
  BY DEF DeletionLook
<1>2. CASE job' = [job EXCEPT !.todo = Tail(@), !.found = found]
  <2>1. /\ job'.found = found /\ job'.sound = job.sound /\ OnlyLooks
    BY <1>2 DEF OnlyLooks, Shape, Fields
  <2> QED
    BY <2>1
<1>3. ASSUME NEW read \in SUBSET found,
             job' = [job EXCEPT !.todo = Tail(@), !.found = read, !.sound = FALSE]
      PROVE  job'.found \subseteq found /\ job'.sound = FALSE /\ OnlyLooks
  BY <1>3 DEF OnlyLooks, Shape, Fields
<1> QED
  BY <1>1, <1>2, <1>3

LEMMA TypedHandle == Typed /\ Handle => Typed'
<1> SUFFICES ASSUME Typed, Handle, Shape'
             PROVE  TypeOK' /\ (job.stage = "delete" => job.todo \in Seq(ItemsOf(job.event)))'
  BY ShapeHandle DEF Typed
<1> DEFINE items == (job.stage = "delete" => job.todo \in Seq(ItemsOf(job.event)))'
           fields ==
               /\ job'.conn = job.conn /\ job'.before = job.before
               /\ job'.found \subseteq Events /\ job'.sent \subseteq Events /\ job'.expired \subseteq Events
               /\ job'.targets \subseteq Subs!Present /\ job'.remembered \subseteq job'.sent
           rest ==
               /\ UNCHANGED <<open, table>>
               /\ stored' \subseteq Events /\ failures' \in 0 .. MaxFailures
               /\ queue' \in Seq([key: Subs!Keys, event: Events]) /\ Len(queue') <= QueueLimit
<1>0. /\ TypeOK /\ stored \subseteq Events /\ failures \in 0 .. MaxFailures /\ MaxFailures \in Nat
      /\ queue \in Seq([key: Subs!Keys, event: Events]) /\ Len(queue) <= QueueLimit /\ QueueLimit \in Nat
      /\ DOMAIN job = Fields /\ job.event \in Events \cup {NoEvent}
      /\ job.found \subseteq Events /\ job.sent \subseteq Events /\ job.before \subseteq Events
      /\ job.expired \subseteq Events /\ job.targets \subseteq Subs!Present /\ job.remembered \subseteq job.sent
  BY RelayAssumption DEF Typed, TypeOK, Shape
<1>1. ASSUME fields, rest, items, job.stage # "idle", job'.stage \in Stages \ {"idle"} PROVE TypeOK' /\ items
  BY <1>0, <1>1, GoingOnTyped
<1>2. ASSUME job'.stage # "delete" PROVE items
  BY <1>2
<1>3. ASSUME stored' \subseteq stored \cup {job.event}, job.event \in Events,
             Fail \/ NoFail, UNCHANGED <<open, table, queue>>
      PROVE  rest
  <2>1. failures' \in 0 .. MaxFailures
    BY <1>0, <1>3 DEF Fail, NoFail
  <2> QED
    BY <1>0, <1>3, <2>1
<1>4. CASE DeletionParseFails
  <2>1. fields /\ job.stage = "delete" /\ job'.stage = "save"
    BY <1>0, <1>4 DEF DeletionParseFails, Fields
  <2>2. rest
    BY <1>0, <1>3, <1>4 DEF DeletionParseFails, Typed, Shape
  <2> QED
    BY <1>1, <1>2, <2>1, <2>2 DEF Stages
<1>5. CASE DeletionLook
  <2>0. job.stage = "delete" /\ job.todo \in Seq(ItemsOf(job.event)) /\ job.todo # <<>> /\ job.event \in Events
    BY <1>5 DEF DeletionLook, Typed, Shape
  <2>1. PICK found \in Look(job.event, Head(job.todo)) :
            job'.found \subseteq found /\ OnlyLooks
    BY <1>5, LookStep DEF Typed
  <2>2. Head(job.todo) \in ItemsOf(job.event) /\ Tail(job.todo) \in Seq(ItemsOf(job.event))
    BY <2>0, HeadTailProperties
  <2>3. found \subseteq stored
    BY <2>2, LookIsStored
  <2>4. fields /\ job'.stage = "delete" /\ job'.todo = Tail(job.todo) /\ job'.event = job.event
    BY <1>0, <2>0, <2>1, <2>3, <1>5 DEF OnlyLooks, DeletionLook
  <2>5. items
    <3>1. ItemsOf(job.event)' = ItemsOf(job.event)
      BY <2>4 DEF ItemsOf
    <3> QED
      BY <2>2, <2>4, <3>1
  <2>6. rest
    <3>1. Fail \/ NoFail
      BY <1>5 DEF DeletionLook
    <3> QED
      BY <1>0, <1>3, <1>5, <2>0, <3>1 DEF DeletionLook
  <2> QED
    BY <1>1, <2>0, <2>4, <2>5, <2>6 DEF Stages
<1>6. CASE DeletionDone
  <2>1. fields /\ job.stage = "delete" /\ job'.stage = "save"
    BY <1>0, <1>6 DEF DeletionDone, Fields
  <2>2. rest
    BY <1>0, <1>6 DEF DeletionDone
  <2> QED
    BY <1>1, <1>2, <2>1, <2>2 DEF Stages
<1>7. ASSUME NEW e \in Events, DeletionRemove(e) PROVE TypeOK' /\ items
  <2>1. /\ fields /\ job.stage = "delete" /\ job'.stage = "delete"
        /\ job'.todo = job.todo /\ job'.event = job.event
    BY <1>0, <1>7 DEF DeletionRemove, Fields
  <2>2. rest
    BY <1>0, <1>7 DEF DeletionRemove, Store!Delete
  <2>3. items
    <3>1. ItemsOf(job.event)' = ItemsOf(job.event)
      BY <2>1 DEF ItemsOf
    <3> QED
      BY <2>1, <3>1 DEF Typed
  <2> QED
    BY <1>1, <2>1, <2>2, <2>3 DEF Stages
<1>8. CASE SaveEvent
  <2>1. job.event \in Events /\ job.stage = "save"
    BY <1>8 DEF SaveEvent, Typed, Shape
  <2>2. CASE job' = Broadcasting
    <3>1. Matching(job.event) \subseteq Subs!Present
      BY DEF Matching
    <3> QED
      <4>1. fields /\ job'.stage = "fanout"
        BY <1>0, <2>2, <3>1 DEF Broadcasting, Fields
      <4>2. rest
        BY <1>0, <1>3, <1>8, <2>1 DEF SaveEvent, NoFail, Store!Save
      <4> QED
        BY <1>1, <1>2, <2>1, <4>1, <4>2 DEF Stages
  <2>3. CASE job' = [job EXCEPT !.stage = "reply", !.sound = FALSE,
                                !.answer = Message("NOSTR_RELAY_ERR_STORAGE")]
    <3>1. fields /\ job'.stage = "reply"
      BY <1>0, <2>3 DEF Fields
    <3>2. rest
      BY <1>0, <1>3, <1>8, <2>1 DEF SaveEvent, NoFail, Store!Save
    <3> QED
      BY <1>1, <1>2, <2>1, <3>1, <3>2 DEF Stages
  <2> QED
    BY <1>8, <2>2, <2>3 DEF SaveEvent
<1>9. ASSUME NEW k \in Subs!Keys, FanoutSend(k) PROVE TypeOK' /\ items
  <2>1. fields /\ job.stage = "fanout" /\ job'.stage = "fanout"
    BY <1>0, <1>9 DEF FanoutSend, Fields
  <2>2. queue' \in Seq([key: Subs!Keys, event: Events]) /\ Len(queue') <= QueueLimit
    <3>1. job.event \in Events
      BY <2>1 DEF Typed, Shape
    <3>2. CASE queue' = queue
      BY <1>0, <3>2
    <3>3. CASE queue' = Append(queue, [key |-> k, event |-> job.event]) /\ Len(queue) < QueueLimit
      <4>1. [key |-> k, event |-> job.event] \in [key: Subs!Keys, event: Events]
        BY <3>1
      <4>2. queue' \in Seq([key: Subs!Keys, event: Events]) /\ Len(queue') = Len(queue) + 1 /\ Len(queue) \in Nat
        BY <1>0, <3>3, <4>1
      <4> QED
        BY <1>0, <3>3, <4>2
    <3> QED
      BY <1>9, <3>2, <3>3 DEF FanoutSend
  <2>3. failures' \in 0 .. MaxFailures
    <3>1. Fail \/ NoFail
      BY <1>9 DEF FanoutSend, NoFail
    <3> QED
      BY <1>0, <3>1 DEF Fail, NoFail
  <2>4. rest
    BY <1>0, <1>9, <2>2, <2>3 DEF FanoutSend
  <2> QED
    BY <1>1, <1>2, <2>1, <2>4 DEF Stages
<1>10. CASE FanoutDone
  <2>1. fields /\ job.stage = "fanout" /\ job'.stage = "reply"
    BY <1>0, <1>10 DEF FanoutDone, Fields
  <2>2. rest
    BY <1>0, <1>10 DEF FanoutDone
  <2> QED
    BY <1>1, <1>2, <2>1, <2>2 DEF Stages
<1>11. CASE AnswerFilter
  <2>1. job.stage = "query" /\ job'.stage = "query" /\ fields
    <3>1. PICK r, read, kept, sound :
            /\ r \in QueryResults(Head(job.todo), ReqLimit(Head(job.todo)))
            /\ read \subseteq r /\ kept \in Remembered(read)
            /\ job' = WithResults(read, kept, sound)
      BY <1>11, AnswerStep
    <3>2. read \subseteq Events /\ kept \subseteq read
      BY <1>0, <3>1, QueryIsStored DEF Remembered
    <3>3. job'.stage = job.stage /\ fields
      BY <1>0, <3>1, <3>2 DEF WithResults, Fields
    <3> QED
      BY <1>11, <3>3 DEF AnswerFilter
  <2>2. rest
    <3>1. Fail \/ NoFail
      BY <1>11 DEF AnswerFilter
    <3>2. failures' \in 0 .. MaxFailures
      BY <1>0, <3>1 DEF Fail, NoFail
    <3> QED
      BY <1>0, <1>11, <3>2 DEF AnswerFilter
  <2> QED
    BY <1>1, <1>2, <2>1, <2>2 DEF Stages
<1>12. CASE AnswerDone
  <2>1. fields /\ job.stage = "query" /\ job'.stage = "reply"
    BY <1>0, <1>12 DEF AnswerDone, Fields
  <2>2. rest
    BY <1>0, <1>12 DEF AnswerDone
  <2> QED
    BY <1>1, <1>2, <2>1, <2>2 DEF Stages
<1>13. CASE Reply
  <2>1. job' = Idle /\ UNCHANGED <<open, table, stored, queue, failures>>
    BY <1>13 DEF Reply
  <2>2. (Subs!Present)' = Subs!Present /\ Idle' = Idle
    BY <2>1 DEF Subs!Present, Idle
  <2> QED
    BY <1>0, <2>1, <2>2, IdleShape, IdleIsEmpty DEF TypeOK
<1> HIDE DEF items
<1> QED
  BY <1>4, <1>5, <1>6, <1>7, <1>8, <1>9, <1>10, <1>11, <1>12, <1>13 DEF Handle, items

LEMMA TypedStep == Typed /\ [Next]_vars => Typed'
<1> SUFFICES ASSUME Typed, [Next]_vars PROVE Typed'
  OBVIOUS
<1>0. TypeOK /\ Shape /\ Shape' /\ DOMAIN job = Fields
  BY ShapeStep DEF Typed, Shape
<1>1. CASE Receive
  BY <1>1, TypedReceive
<1>2. CASE Handle
  BY <1>2, TypedHandle
<1>3. CASE UNCHANGED <<open, table, stored, job, failures>> /\ (queue' = queue \/ (queue # <<>> /\ queue' = Tail(queue)))
  <2>1. /\ queue \in Seq([key: Subs!Keys, event: Events]) /\ Len(queue) <= QueueLimit
        /\ QueueLimit \in Nat
    BY <1>0, RelayAssumption DEF TypeOK
  <2>2. queue' \in Seq([key: Subs!Keys, event: Events]) /\ Len(queue') <= QueueLimit
    BY <1>3, <2>1
  <2>3. (Subs!Present)' = Subs!Present /\ Idle' = Idle /\ ItemsOf(job.event)' = ItemsOf(job.event)
    BY <1>3 DEF Subs!Present, Idle, ItemsOf
  <2> QED
    BY <1>0, <1>3, <2>2, <2>3 DEF TypeOK, Typed
<1>4. ASSUME NEW c \in Conns, OpenConn(c) \/ CloseConn(c) PROVE Typed'
  <2>1. job' = job /\ job = Idle /\ UNCHANGED <<stored, queue, failures>> /\ open' \subseteq Conns
    BY <1>0, <1>4 DEF OpenConn, CloseConn, Ready, TypeOK
  <2>2. table' \in [Subs!Keys -> Reqs \cup {<<>>, Absent}] /\ \A k \in (Subs!Present)' : k[1] \in open'
    <3>1. CASE OpenConn(c)
      BY <1>0, <3>1 DEF OpenConn, TypeOK, Subs!Present
    <3>2. CASE CloseConn(c)
      BY <1>0, <3>2 DEF CloseConn, TypeOK, Subs!Disconnect, Subs!Present, Subs!Keys
    <3> QED
      BY <1>4, <3>1, <3>2
  <2>3. Idle' = Idle
    BY DEF Idle
  <2> QED
    BY <1>0, <2>1, <2>2, <2>3, IdleShape, IdleIsEmpty DEF TypeOK, Typed
<1>5. ASSUME NEW e \in Events, Expire(e) PROVE Typed'
  <2>1. UNCHANGED <<open, table, queue, failures>> /\ stored' \subseteq stored
    BY <1>5 DEF Expire, Store!Delete
  <2>2. \/ job' = job
        \/ job' = [job EXCEPT !.expired = job.expired \cup {e}] /\ job.stage # "idle"
    BY <1>5, Zenon DEF Expire
  <2>3. /\ job'.stage = job.stage /\ job'.conn = job.conn /\ job'.before = job.before /\ job'.todo = job.todo
        /\ job'.event = job.event /\ job'.found = job.found /\ job'.sent = job.sent
        /\ job'.targets = job.targets /\ job'.remembered = job.remembered
        /\ job'.expired \subseteq job.expired \cup {e}
        /\ job.stage = "idle" => job' = job
    BY <1>0, <2>2 DEF Fields
  <2>4. (Subs!Present)' = Subs!Present /\ Idle' = Idle /\ ItemsOf(job.event)' = ItemsOf(job.event)
    BY <2>1, <2>3 DEF Subs!Present, Idle, ItemsOf
  <2> QED
    BY <1>0, <2>1, <2>3, <2>4 DEF TypeOK, Typed
<1> QED
  BY <1>1, <1>2, <1>3, <1>4, <1>5 DEF Next, RunWork, Connection, vars

LEMMA TypedHolds == Spec => []Typed
<1>1. Init => Typed
  <2> SUFFICES ASSUME Init PROVE TypeOK /\ (job.stage = "delete" => job.todo \in Seq(ItemsOf(job.event)))
    BY ShapeInit DEF Typed
  <2>1. table \in [Subs!Keys -> Reqs \cup {<<>>, Absent}] /\ Subs!Present = {}
    BY DEF Init, Subs!Init, Subs!Present
  <2>2. /\ queue \in Seq([key: Subs!Keys, event: Events]) /\ Len(queue) <= QueueLimit
        /\ failures \in 0 .. MaxFailures /\ open = {} /\ stored = {} /\ job = Idle
    BY RelayAssumption DEF Init
  <2> QED
    BY <2>1, <2>2, IdleShape, IdleIsEmpty DEF TypeOK
<1> QED
  BY <1>1, TypedStep, PTL DEF Spec

(* Only open connections have subscriptions, the queue keeps to its limit  *)
(* and the server task works for an open connection, whatever messages     *)
(* come and whatever fails.                                                *)
THEOREM TypeCorrect == Spec => []TypeOK
<1>1. Typed => TypeOK
  BY DEF Typed
<1> QED
  BY <1>1, TypedHolds, PTL

-----------------------------------------------------------------------------
(* The course of an event that is not turned away at once. *)
Course ==
    /\ job.stage \in {"delete", "save"} =>
        /\ Acceptable(job.event, job.at)
        /\ stored \subseteq job.before
        /\ ~job.reached
        /\ job.answer = ""
    /\ job.stage = "fanout" =>
        /\ Acceptable(job.event, job.at)
        /\ job.answer = ""
        /\ IsEphemeral(job.event) \/ job.event \in stored \cup job.expired
    /\ OkIsTrue
    /\ RefusedLeavesNoTrace

(* No way to refuse an event is reported as "". *)
LEMMA RefusalIsTold ==
    /\ "rate-limited:" # "" /\ "rate-limited:" # Message("NOSTR_RELAY_ERR_STORAGE")
    /\ Message("NOSTR_RELAY_ERR_STORAGE") # ""
    /\ \A result : result # "VALIDATION_OK" => Message(ResultToRelayError(result)) # ""
<1>1. Message("NOSTR_RELAY_ERR_STORAGE") = "error: could not save event"
  BY DEF Message
<1>2. ASSUME NEW result, result # "VALIDATION_OK" PROVE Message(ResultToRelayError(result)) # ""
  <2>1. ResultToRelayError(result) \in
            {"NOSTR_RELAY_ERR_SIG_MISMATCH", "NOSTR_RELAY_ERR_ID_MISMATCH", "NOSTR_RELAY_ERR_FUTURE_EVENT",
             "NOSTR_RELAY_ERR_EXPIRED_EVENT", "NOSTR_RELAY_ERR_INVALID_JSON"}
    BY <1>2 DEF ResultToRelayError
  <2> QED
    BY <2>1 DEF Message
<1> QED
  BY <1>1, <1>2

(* What the validator lets through is acceptable. *)
LEMMA ValidIsAcceptable ==
    ASSUME NEW e \in Events, NEW now \in Times, ValidatorCheckEvent(e, now) = "VALIDATION_OK"
    PROVE  Acceptable(e, now)
<1>1. ASSUME NEW err, MapRelayError(err) = "VALIDATION_OK" PROVE err = "NOSTR_RELAY_OK"
  BY <1>1 DEF MapRelayError
<1>2. ValidateFull(e, now) = "NOSTR_RELAY_OK"
  BY <1>1 DEF ValidatorCheckEvent
<1>3. CheckEventAge(e, now) = "VALIDATION_OK"
  BY <1>2 DEF ValidatorCheckEvent
<1>4. Data[e].created \in Nat /\ now \in Nat /\ MaxAge \in Nat /\ MaxFuture \in Nat
  BY DataAssumption, RelayAssumption
<1>5. Data[e].fault = "NOSTR_RELAY_OK" /\ ~(Data[e].created > now + MaxFuture)
  BY <1>2 DEF ValidateFull
<1>6. MaxAge = 0 \/ ~(now - Data[e].created > MaxAge)
  BY <1>3 DEF CheckEventAge
<1>7. Data[e].created <= now + MaxFuture
  BY <1>4, <1>5
<1>8. MaxAge = 0 \/ now <= Data[e].created + MaxAge
  BY <1>4, <1>6
<1> QED
  BY <1>5, <1>7, <1>8 DEF Acceptable

LEMMA CourseInit == Init => Course
  BY IdleShape DEF Init, Course, OkIsTrue, RefusedLeavesNoTrace, Replying

(* A message that is not an EVENT has no course. *)
LEMMA NoCourse ==
    ASSUME job'.event = NoEvent, job'.stage \in {"idle", "query", "reply"}
    PROVE  Course'
  BY DEF Course, OkIsTrue, RefusedLeavesNoTrace, Replying

LEMMA CourseReceive == Shape /\ Course /\ Receive => Course'
<1> SUFFICES ASSUME Shape, Course, NEW c \in Conns,
                    \/ \E e \in Events : ReceiveEvent(c, e)
                    \/ \E s \in SubIds :
                        \/ RefuseReq(c, s)
                        \/ \E fs \in Reqs : ReceiveReq(c, s, fs)
                        \/ ReqNotAdded(c, s)
                        \/ ReceiveClose(c, s)
                    \/ ReceiveOther(c)
             PROVE  Course'
  BY DEF Receive
<1>1. ASSUME NEW e \in Events, ReceiveEvent(c, e) PROVE Course'
  <2>0. stored' = stored /\ Message("NOSTR_RELAY_ERR_STORAGE")' = Message("NOSTR_RELAY_ERR_STORAGE")
    BY <1>1 DEF ReceiveEvent, Message
  <2>1. PICK now \in Times :
            \/ \E message : message # "" /\ job' = Refusal(c, e, now, message)
            \/ ValidatorCheckEvent(e, now) = "VALIDATION_OK" /\ job' = Handling(c, e, now)
    BY <1>1, RefusalIsTold DEF ReceiveEvent
  <2>2. ASSUME NEW message, message # "", job' = Refusal(c, e, now, message) PROVE Course'
    <3>1. /\ job'.stage = "reply" /\ job'.answer = message /\ job'.before = stored
          /\ job'.expired = Idle.expired /\ job'.reached = Idle.reached
      BY <2>2, IdleShape DEF Refusal, Fields
    <3>2. Idle.expired = {} /\ Idle.reached = FALSE
      BY DEF Idle
    <3> QED
      BY <2>0, <2>2, <3>1, <3>2 DEF Course, OkIsTrue, RefusedLeavesNoTrace, Replying, Removed
  <2>3. CASE ValidatorCheckEvent(e, now) = "VALIDATION_OK" /\ job' = Handling(c, e, now)
    <3>1. /\ job'.stage \in {"delete", "save"} /\ job'.answer = Idle.answer /\ job'.before = stored
          /\ job'.reached = Idle.reached /\ job'.event = e /\ job'.at = now
      BY <2>3, IdleShape DEF Handling, Fields
    <3>2. Idle.answer = "" /\ Idle.reached = FALSE
      BY DEF Idle
    <3>3. Acceptable(e, now)
      BY <2>3, ValidIsAcceptable
    <3>4. Acceptable(job.event, job.at)'
      BY <3>1, <3>3 DEF Acceptable
    <3> QED
      BY <2>0, <3>1, <3>2, <3>4 DEF Course, OkIsTrue, RefusedLeavesNoTrace, Replying
  <2> QED
    BY <2>1, <2>2, <2>3
<1>2. ASSUME NEW s \in SubIds, RefuseReq(c, s) PROVE Course'
  BY <1>2, IdleShape, NoCourse DEF RefuseReq, Fields
<1>3. ASSUME NEW s \in SubIds, NEW fs \in Reqs, ReceiveReq(c, s, fs) PROVE Course'
  BY <1>3, IdleShape, NoCourse DEF ReceiveReq, Answering, Fields
<1>4. ASSUME NEW s \in SubIds, ReqNotAdded(c, s) PROVE Course'
  BY <1>4, IdleShape, NoCourse DEF ReqNotAdded, Fields
<1>5. ASSUME NEW s \in SubIds, ReceiveClose(c, s) PROVE Course'
  BY <1>5, IdleShape, NoCourse DEF ReceiveClose, Fields
<1>6. CASE ReceiveOther(c)
  BY <1>6, IdleShape, NoCourse DEF ReceiveOther, Fields
<1> QED
  BY <1>1, <1>2, <1>3, <1>4, <1>5, <1>6

LEMMA SameEvent ==
    ASSUME job'.event = job.event, job'.at = job.at
    PROVE  /\ Acceptable(job.event, job.at)' <=> Acceptable(job.event, job.at)
           /\ IsEphemeral(job.event)' <=> IsEphemeral(job.event)
  BY DEF Acceptable, IsEphemeral

LEMMA CourseHandle == Shape /\ Course /\ Handle => Course'
<1> SUFFICES ASSUME Shape, Course, Handle PROVE Course'
  OBVIOUS
<1> USE DEF Course, Shape, Fields, OkIsTrue, RefusedLeavesNoTrace, Replying
<1>1. CASE DeletionParseFails
  BY <1>1 DEF DeletionParseFails, Acceptable
<1>2. CASE DeletionLook
  BY <1>2 DEF DeletionLook, Acceptable
<1>3. CASE DeletionDone
  BY <1>3 DEF DeletionDone, Acceptable
<1>4. ASSUME NEW e \in Events, DeletionRemove(e) PROVE Course'
  BY <1>4 DEF DeletionRemove, Store!Delete, Acceptable
<1>5. CASE SaveEvent
  <2>1. Message("NOSTR_RELAY_ERR_STORAGE")' = Message("NOSTR_RELAY_ERR_STORAGE")
    BY DEF Message
  <2>2. CASE job' = Broadcasting
    <3>1. /\ job'.stage = "fanout" /\ job'.event = job.event /\ job'.at = job.at
          /\ job'.answer = job.answer
      BY <2>2 DEF Broadcasting
    <3>2. IsEphemeral(job.event) \/ job.event \in stored'
      BY <1>5, <2>2, <3>1, RefusalIsTold DEF SaveEvent, Store!Save
    <3>3. /\ Acceptable(job.event, job.at)' <=> Acceptable(job.event, job.at)
          /\ IsEphemeral(job.event)' <=> IsEphemeral(job.event)
      BY <3>1, SameEvent
    <3> QED
      BY <1>5, <3>1, <3>2, <3>3 DEF SaveEvent
  <2>3. CASE job' # Broadcasting
    <3>1. /\ stored' = stored
          /\ job' = [job EXCEPT !.stage = "reply", !.sound = FALSE,
                                !.answer = Message("NOSTR_RELAY_ERR_STORAGE")]
      BY <1>5, <2>3 DEF SaveEvent
    <3>2. /\ job'.stage = "reply" /\ job'.answer = Message("NOSTR_RELAY_ERR_STORAGE")
          /\ job'.before = job.before /\ job'.reached = job.reached
      BY <3>1
    <3> QED
      BY <1>5, <2>1, <3>1, <3>2, RefusalIsTold DEF SaveEvent
  <2> QED
    BY <2>2, <2>3
<1>6. ASSUME NEW k \in Subs!Keys, FanoutSend(k) PROVE Course'
  <2>1. /\ job.stage = "fanout" /\ job'.stage = job.stage /\ job'.event = job.event /\ job'.at = job.at
        /\ job'.answer = job.answer /\ job'.expired = job.expired /\ stored' = stored
    BY <1>6 DEF FanoutSend
  <2>2. /\ Acceptable(job.event, job.at)' <=> Acceptable(job.event, job.at)
        /\ IsEphemeral(job.event)' <=> IsEphemeral(job.event)
    BY <2>1, SameEvent
  <2> QED
    BY <2>1, <2>2
<1>7. CASE FanoutDone
  <2>1. /\ job.stage = "fanout" /\ job'.stage = "reply" /\ job'.event = job.event /\ job'.at = job.at
        /\ job'.answer = job.answer /\ job'.expired = job.expired /\ stored' = stored
    BY <1>7 DEF FanoutDone
  <2>2. /\ Acceptable(job.event, job.at)' <=> Acceptable(job.event, job.at)
        /\ IsEphemeral(job.event)' <=> IsEphemeral(job.event)
    BY <2>1, SameEvent
  <2> QED
    BY <2>1, <2>2
<1>8. CASE AnswerFilter
  <2>1. PICK read, kept, sound : job' = WithResults(read, kept, sound)
    BY <1>8, AnswerStep
  <2>2. job'.stage = job.stage /\ job.stage = "query"
    BY <1>8, <2>1 DEF AnswerFilter, WithResults
  <2> QED
    BY <2>2
<1>9. CASE AnswerDone
  BY <1>9 DEF AnswerDone
<1>10. CASE Reply
  BY <1>10, IdleShape DEF Reply
<1> QED
  BY <1>1, <1>2, <1>3, <1>4, <1>5, <1>6, <1>7, <1>8, <1>9, <1>10 DEF Handle

LEMMA CourseExpire == ASSUME Shape, Course, NEW e \in Events, Expire(e) PROVE Course'
<1>1. stored' = stored \ {e} /\ e \in stored
  BY DEF Expire, Store!Delete
<1>2. CASE job.stage = "idle"
  <2>1. job' = job /\ job.event = NoEvent
    BY <1>2, IdleShape DEF Expire, Shape
  <2> QED
    BY <1>2, <2>1, NoCourse
<1>3. CASE job.stage # "idle"
  <2>1. job' = [job EXCEPT !.expired = @ \cup {e}]
    BY <1>3 DEF Expire
  <2>2. /\ job'.stage = job.stage /\ job'.event = job.event /\ job'.at = job.at
        /\ job'.answer = job.answer /\ job'.reached = job.reached /\ job'.before = job.before
        /\ job'.expired = job.expired \cup {e}
    BY <2>1 DEF Shape, Fields
  <2>3. stored' \cup job'.expired = stored \cup job.expired
    BY <1>1, <2>2
  <2>4. /\ Acceptable(job.event, job.at)' <=> Acceptable(job.event, job.at)
        /\ IsEphemeral(job.event)' <=> IsEphemeral(job.event)
        /\ Removed' = Removed
        /\ Message("NOSTR_RELAY_ERR_STORAGE")' = Message("NOSTR_RELAY_ERR_STORAGE")
    BY <2>2, <2>3 DEF Acceptable, IsEphemeral, Removed, Message
  <2> QED
    BY <1>1, <2>2, <2>3, <2>4 DEF Course, OkIsTrue, RefusedLeavesNoTrace, Replying
<1> QED
  BY <1>2, <1>3

LEMMA CourseStep == Shape /\ Course /\ [Next]_vars => Course'
<1> SUFFICES ASSUME Shape, Course, [Next]_vars PROVE Course'
  OBVIOUS
<1>1. CASE Receive
  BY <1>1, CourseReceive
<1>2. CASE Handle
  BY <1>2, CourseHandle
<1>3. CASE RunWork \/ Connection
  <2>1. job' = job /\ job.stage = "idle"
    BY <1>3 DEF RunWork, Connection, OpenConn, CloseConn, Ready
  <2>2. job.event = NoEvent
    BY <2>1, IdleShape DEF Shape
  <2> QED
    BY <2>1, <2>2, NoCourse
<1>4. ASSUME NEW e \in Events, Expire(e) PROVE Course'
  BY <1>4, CourseExpire
<1>5. CASE UNCHANGED vars
  <2>1. stored' = stored /\ job' = job
    BY <1>5 DEF vars
  <2>2. /\ Acceptable(job.event, job.at)' <=> Acceptable(job.event, job.at)
        /\ IsEphemeral(job.event)' <=> IsEphemeral(job.event)
        /\ Removed' = Removed
        /\ Message("NOSTR_RELAY_ERR_STORAGE")' = Message("NOSTR_RELAY_ERR_STORAGE")
    BY <2>1 DEF Acceptable, IsEphemeral, Removed, Message
  <2> QED
    BY <2>1, <2>2 DEF Course, OkIsTrue, RefusedLeavesNoTrace, Replying
<1> QED
  BY <1>1, <1>2, <1>3, <1>4, <1>5 DEF Next

LEMMA CourseHolds == Spec => [](Shape /\ Course)
  BY ShapeInit, ShapeStep, CourseInit, CourseStep, PTL DEF Spec

(* handle_event answers OK true only for an event that is valid and recent *)
(* and, unless it is ephemeral, is stored or has expired meanwhile.        *)
THEOREM OkIsTrueThm == Spec => []OkIsTrue
<1>1. Course => OkIsTrue
  BY DEF Course
<1> QED
  BY <1>1, CourseHolds, PTL

(* handle_event answers OK false only when the event was not stored and    *)
(* nobody was sent it, and nothing was deleted unless the save failed.     *)
THEOREM RefusedLeavesNoTraceThm == Spec => []RefusedLeavesNoTrace
<1>1. Course => RefusedLeavesNoTrace
  BY DEF Course
<1> QED
  BY <1>1, CourseHolds, PTL

=============================================================================
