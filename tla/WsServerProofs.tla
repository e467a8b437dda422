--------------------------- MODULE WsServerProofs ---------------------------
(***************************************************************************)
(* The safety properties of WsServer, for any number of connections,       *)
(* descriptors and clients.                                                *)
(*                                                                         *)
(* They are proved together from one inductive invariant.  Phase lists     *)
(* what start_relay_server has set at each of its steps; it is what makes  *)
(* the callbacks see either all of the relay or nothing.                   *)
(***************************************************************************)
EXTENDS WsServer, FiniteSetTheorems, TLAPS

NothingSet == ~g_server /\ ~on_message /\ ~on_disconnect /\ ~uri

(* What is set at each step of start_relay_server. *)
Phase ==
    \/ /\ start = "idle" /\ running /\ ctx = Parts
       /\ g_server /\ on_message /\ on_disconnect /\ uri
    \/ start = "idle" /\ ~running /\ ctx = {} /\ NothingSet
    \/ start = "storage" /\ ~running /\ ctx = {"sub_manager"} /\ NothingSet
    \/ start = "cleanup" /\ ~running /\ ctx = {"sub_manager", "storage"} /\ NothingSet
    \/ start = "server" /\ ~running /\ ctx = Parts /\ NothingSet
    \/ /\ start = "httpd" /\ ~running /\ ctx = Parts
       /\ g_server /\ on_message /\ ~on_disconnect /\ ~uri
    \/ /\ start = "register" /\ running /\ ctx = Parts
       /\ g_server /\ on_message /\ ~on_disconnect /\ ~uri
    \/ /\ start = "callback" /\ running /\ ctx = Parts
       /\ g_server /\ on_message /\ ~on_disconnect /\ uri
    \/ start = "stop" /\ running /\ ctx = Parts /\ NothingSet

(* Without the server task there is neither a session nor work. *)
QuietWhenDown == ~running => sessions = {} /\ queue = <<>>

(* Nobody subscribes before the handler is registered, and what is         *)
(* subscribed was a session once.                                          *)
SubscribedWereSessions == (~uri => subscribed = {}) /\ subscribed \subseteq sockets

(* Work is for the client its descriptor was given to, and the descriptor  *)
(* is not given to another, being still open.                              *)
WorkIsAddressed ==
    \A i \in DOMAIN queue : queue[i].fd \in sockets /\ queue[i].to = peer[queue[i].fd]

(* A client that waits is within the bound on clients. *)
KnockIsBounded == knock => peers < MaxPeers

Inv ==
    /\ TypeOK
    /\ KnockIsBounded
    /\ Phase
    /\ QuietWhenDown
    /\ SlotsMirrorSessions
    /\ OnlyEarlyResidue
    /\ SubscribedWereSessions
    /\ WorkIsAddressed

-----------------------------------------------------------------------------
(* The sessions are finitely many. *)
LEMMA SessionsFinite ==
    ASSUME NEW S \in SUBSET Fds
    PROVE  IsFiniteSet(S) /\ Cardinality(S) \in Nat
<1>1. IsFiniteSet(Fds)
  BY FS_Interval, ServerAssumption DEF Fds
<1>2. IsFiniteSet(S)
  BY <1>1, FS_Subset
<1> QED
  BY <1>2, FS_CardinalityType

(* What is left of a sequence when its head has been taken. *)
LEMMA TailIsShorter ==
    ASSUME NEW S, NEW q \in Seq(S), q # <<>>
    PROVE  Tail(q) \in Seq(S) /\ Len(Tail(q)) = Len(q) - 1 /\ Len(q) \in Nat
OBVIOUS

(* The elements of a sequence with one more. *)
LEMMA AppendedAre ==
    ASSUME NEW S, NEW q \in Seq(S), NEW w \in S
    PROVE  \A i \in DOMAIN Append(q, w) :
               Append(q, w)[i] = w \/ (i \in DOMAIN q /\ Append(q, w)[i] = q[i])
OBVIOUS

(* The empty sequence. *)
LEMMA EmptyQueue ==
    ASSUME NEW S
    PROVE  <<>> \in Seq(S) /\ Len(<<>>) = 0
OBVIOUS

(* Init establishes the invariant. *)
LEMMA InvInit == Init => Inv
<1> SUFFICES ASSUME Init PROVE Inv
  OBVIOUS
<1>1. TypeOK
  <2>1. peer \in [Fds -> 0 .. MaxPeers] /\ peers \in 0 .. MaxPeers
        /\ connection_count \in 0 .. MaxConns
    BY ServerAssumption DEF Init
  <2>2. Cardinality(sessions) <= MaxConns
    BY FS_EmptySet, ServerAssumption DEF Init
  <2>3. queue \in Seq([type: {"send", "close"}, fd: Fds, to: 0 .. MaxPeers])
        /\ Len(queue) <= QueueLimit
    BY ServerAssumption DEF Init
  <2> QED
    BY <2>1, <2>2, <2>3 DEF Init, TypeOK
<1>2. KnockIsBounded /\ Phase /\ QuietWhenDown /\ SlotsMirrorSessions
  BY DEF Init, KnockIsBounded, Phase, NothingSet, QuietWhenDown, SlotsMirrorSessions
<1>3. OnlyEarlyResidue /\ SubscribedWereSessions /\ WorkIsAddressed
  BY DEF Init, OnlyEarlyResidue, SubscribedWereSessions, WorkIsAddressed
<1> QED
  BY <1>1, <1>2, <1>3 DEF Inv

-----------------------------------------------------------------------------
(* The steps of start_relay_server up to the start of the server: they     *)
(* leave the server task's variables alone, or clear the slots.            *)
LEMMA StartStep ==
    ASSUME Inv, GotIp \/ InitStorage \/ StartCleanupTask \/ WsServerInit \/ SetDisconnectCb
    PROVE  Inv'
<1> USE DEF boot, slots, net, users
<1>1. Phase'
  BY DEF Inv, Phase, NothingSet, Parts, GotIp, InitStorage, StartCleanupTask, WsServerInit,
         SetDisconnectCb, StartFails
<1>2. /\ UNCHANGED <<running, sessions, sockets, peer, queue, peers, knock, uri>>
      /\ UNCHANGED <<subscribed, early>> \/ (subscribed' = {} /\ early' = {})
      /\ UNCHANGED <<connections, connection_count>> \/ (connections' = {} /\ connection_count' = 0)
  BY DEF GotIp, InitStorage, StartCleanupTask, WsServerInit, SetDisconnectCb, StartFails
<1>3. TypeOK'
  <2>1. start' \in {"idle", "storage", "cleanup", "server", "httpd", "register", "callback", "stop"}
        /\ ctx' \subseteq Parts
        /\ {running', g_server', on_message', on_disconnect', uri', knock'} \subseteq BOOLEAN
    BY <1>1, <1>2 DEF Phase, NothingSet, Parts, Inv, TypeOK, GotIp, InitStorage, StartCleanupTask,
                      WsServerInit, SetDisconnectCb, StartFails
  <2>2. connections' \subseteq Fds /\ connection_count' \in 0 .. MaxConns
        /\ subscribed' \subseteq Fds /\ early' \subseteq Fds
    BY <1>2, ServerAssumption DEF Inv, TypeOK
  <2> QED
    BY <2>1, <2>2, <1>2 DEF Inv, TypeOK
<1>4. SlotsMirrorSessions'
  <2>1. CASE WsServerInit
    <3>1. sessions = {}
      BY <2>1 DEF WsServerInit, Inv, Phase, QuietWhenDown
    <3> QED
      BY <2>1, <3>1, FS_EmptySet DEF WsServerInit, SlotsMirrorSessions
  <2>2. CASE ~WsServerInit
    BY <2>2 DEF Inv, SlotsMirrorSessions, Phase, NothingSet, GotIp, InitStorage, StartCleanupTask,
                SetDisconnectCb, StartFails
  <2> QED
    BY <2>1, <2>2
<1>5. KnockIsBounded' /\ QuietWhenDown' /\ OnlyEarlyResidue' /\ SubscribedWereSessions'
      /\ WorkIsAddressed'
  BY <1>2 DEF Inv, KnockIsBounded, QuietWhenDown, OnlyEarlyResidue, SubscribedWereSessions,
              WorkIsAddressed
<1> QED
  BY <1>1, <1>3, <1>4, <1>5 DEF Inv

(* The steps of ws_server_init that start and stop the server task. *)
LEMMA ServerStep ==
    ASSUME Inv, HttpdStart \/ RegisterUri \/ HttpdStop
    PROVE  Inv'
<1> USE DEF boot, slots, net, users
<1>1. Phase'
  BY DEF Inv, Phase, NothingSet, Parts, HttpdStart, RegisterUri, HttpdStop, StartFails
<1>2. /\ UNCHANGED <<sockets, peer, peers, knock, connections, connection_count>>
      /\ UNCHANGED <<subscribed, early>> \/ (subscribed' = {} /\ early' = {})
      /\ UNCHANGED <<sessions, queue>> \/ (sessions' = {} /\ queue' = <<>> /\ subscribed' = {})
  BY DEF HttpdStart, RegisterUri, HttpdStop, StartFails
<1>3. TypeOK'
  <2>1. start' \in {"idle", "storage", "cleanup", "server", "httpd", "register", "callback", "stop"}
        /\ ctx' \subseteq Parts
        /\ {running', g_server', on_message', on_disconnect', uri', knock'} \subseteq BOOLEAN
    BY <1>1, <1>2 DEF Phase, NothingSet, Parts, Inv, TypeOK, HttpdStart, RegisterUri, HttpdStop,
                      StartFails
  <2>2. sessions' \subseteq sockets' /\ subscribed' \subseteq Fds /\ early' \subseteq Fds
    BY <1>2 DEF Inv, TypeOK
  <2>3. Cardinality(sessions') <= MaxConns
    <3>1. Cardinality({}) = 0
      BY FS_EmptySet
    <3>2. CASE sessions' = {}
      BY <3>1, <3>2, ServerAssumption
    <3>3. CASE sessions' = sessions
      BY <3>3 DEF Inv, TypeOK
    <3> QED
      BY <1>2, <3>2, <3>3
  <2>4. queue' \in Seq([type: {"send", "close"}, fd: Fds, to: 0 .. MaxPeers])
        /\ Len(queue') <= QueueLimit
    <3>1. CASE queue' = <<>>
      BY <3>1, EmptyQueue, ServerAssumption
    <3>2. CASE queue' = queue
      BY <3>2 DEF Inv, TypeOK
    <3> QED
      BY <1>2, <3>1, <3>2
  <2> QED
    BY <2>1, <2>2, <2>3, <2>4, <1>2 DEF Inv, TypeOK
<1>4. SlotsMirrorSessions'
  BY DEF Inv, SlotsMirrorSessions, Phase, NothingSet, HttpdStart, RegisterUri, HttpdStop, StartFails
<1>5. QuietWhenDown'
  BY DEF Inv, QuietWhenDown, Phase, HttpdStart, RegisterUri, HttpdStop, StartFails
<1>6. OnlyEarlyResidue' /\ SubscribedWereSessions'
  BY <1>2 DEF Inv, OnlyEarlyResidue, SubscribedWereSessions, HttpdStart, RegisterUri, HttpdStop,
              StartFails, Phase, NothingSet
<1>7. WorkIsAddressed' /\ KnockIsBounded'
  BY <1>2 DEF Inv, KnockIsBounded, WorkIsAddressed
<1> QED
  BY <1>1, <1>3, <1>4, <1>5, <1>6, <1>7 DEF Inv

-----------------------------------------------------------------------------
(* A client is let in: the descriptor is a new one. *)
LEMMA AcceptStep ==
    ASSUME Inv, Accept
    PROVE  Inv'
<1> USE DEF boot, slots, net, users
<1>1. PICK fd \in Fds :
        /\ fd \notin sockets
        /\ connections' = connections \cup {fd}
        /\ sessions' = sessions \cup {fd}
        /\ sockets' = sockets \cup {fd}
        /\ peer' = [peer EXCEPT ![fd] = peers + 1]
  BY DEF Accept, LowestFree
<1>2. /\ running /\ g_server /\ Cardinality(sessions) < MaxConns
      /\ connection_count' = connection_count + 1
      /\ peers' = peers + 1
      /\ knock' = FALSE
      /\ UNCHANGED <<start, ctx, running, g_server, on_message, on_disconnect, uri, queue,
                     subscribed, early>>
  BY DEF Accept, Admits
<1>3. IsFiniteSet(sessions) /\ Cardinality(sessions) \in Nat
  BY SessionsFinite DEF Inv, TypeOK
<1>4. fd \notin sessions
  BY <1>1 DEF Inv, TypeOK
<1>5. Cardinality(sessions') = Cardinality(sessions) + 1
  BY <1>1, <1>3, <1>4, FS_AddElement
<1>6. connections = sessions /\ connection_count = Cardinality(sessions)
  BY <1>2 DEF Inv, SlotsMirrorSessions
<1>7. peers' \in 0 .. MaxPeers /\ peer' \in [Fds -> 0 .. MaxPeers]
  <2>1. peers' \in 0 .. MaxPeers
    BY <1>2, ServerAssumption DEF Inv, TypeOK, KnockIsBounded, Accept
  <2> QED
    BY <2>1, <1>1, <1>2 DEF Inv, TypeOK
<1>8. TypeOK'
  <2>1. connection_count' \in 0 .. MaxConns /\ Cardinality(sessions') <= MaxConns
    BY <1>2, <1>3, <1>5, <1>6, ServerAssumption
  <2>2. connections' \subseteq Fds /\ sessions' \subseteq sockets' /\ sockets' \subseteq Fds
    BY <1>1 DEF Inv, TypeOK
  <2>3. {running', g_server', on_message', on_disconnect', uri', knock'} \subseteq BOOLEAN
    BY <1>2 DEF Inv, TypeOK
  <2> QED
    BY <1>2, <1>7, <2>1, <2>2, <2>3 DEF Inv, TypeOK
<1>9. Phase' /\ QuietWhenDown' /\ KnockIsBounded'
  BY <1>2 DEF Inv, KnockIsBounded, Phase, NothingSet, QuietWhenDown
<1>10. SlotsMirrorSessions'
  BY <1>1, <1>2, <1>5, <1>6 DEF SlotsMirrorSessions
<1>11. OnlyEarlyResidue' /\ SubscribedWereSessions'
  BY <1>1, <1>2 DEF Inv, OnlyEarlyResidue, SubscribedWereSessions
<1>12. WorkIsAddressed'
  BY <1>1, <1>2 DEF Inv, TypeOK, WorkIsAddressed
<1> QED
  BY <1>8, <1>9, <1>10, <1>11, <1>12 DEF Inv

(* A session is closed, by its own end or by queued work. *)
LEMMA CloseStep ==
    ASSUME Inv, running, NEW fd \in sessions,
           sessions' = sessions \ {fd},
           OnClose(fd),
           UNCHANGED <<boot, peer, knock, peers>>,
           queue' \in Seq([type: {"send", "close"}, fd: Fds, to: 0 .. MaxPeers]),
           Len(queue') <= QueueLimit,
           WorkIsAddressed'
    PROVE  Inv'
<1> USE DEF boot, slots, users
<1>1. UNCHANGED <<start, ctx, running, g_server, on_message, on_disconnect, uri, peer, knock,
                  peers, sockets>>
  BY DEF OnClose
<1>2. IsFiniteSet(sessions) /\ Cardinality(sessions) \in Nat
  BY SessionsFinite DEF Inv, TypeOK
<1>3. Cardinality(sessions') = Cardinality(sessions) - 1
  BY <1>2, FS_RemoveElement
<1>4. Cardinality(sessions') \in Nat
  BY SessionsFinite DEF Inv, TypeOK
<1>5. CASE g_server
  <2>1. connections = sessions /\ connection_count = Cardinality(sessions)
    BY <1>5 DEF Inv, SlotsMirrorSessions
  <2>2. connections' = sessions' /\ connection_count' = Cardinality(sessions')
    BY <1>3, <1>5, <2>1 DEF OnClose
  <2>3. SlotsMirrorSessions'
    BY <2>2 DEF SlotsMirrorSessions
  <2>4. connection_count' \in 0 .. MaxConns /\ Cardinality(sessions') <= MaxConns
    BY <1>2, <1>3, <1>4, <2>2, ServerAssumption DEF Inv, TypeOK
  <2>5. /\ connections' \subseteq Fds /\ sessions' \subseteq sockets'
        /\ subscribed' \subseteq Fds /\ early' \subseteq Fds
    BY <1>1, <2>2 DEF Inv, TypeOK, OnClose
  <2>6. TypeOK'
    BY <1>1, <2>4, <2>5 DEF Inv, TypeOK
  <2>7. OnlyEarlyResidue' /\ SubscribedWereSessions'
    BY <1>1, <1>5 DEF Inv, OnlyEarlyResidue, SubscribedWereSessions, OnClose
  <2>8. KnockIsBounded' /\ Phase' /\ QuietWhenDown'
    BY <1>1 DEF Inv, KnockIsBounded, Phase, NothingSet, QuietWhenDown
  <2> QED
    BY <2>3, <2>6, <2>7, <2>8 DEF Inv
<1>6. CASE ~g_server
  <2>1. UNCHANGED <<connections, connection_count, subscribed, early>> /\ subscribed = {}
    BY <1>6 DEF OnClose, Inv, Phase, NothingSet, SubscribedWereSessions
  <2>2. Cardinality(sessions') <= MaxConns
    BY <1>2, <1>3, ServerAssumption DEF Inv, TypeOK
  <2>3. TypeOK'
    BY <1>1, <2>1, <2>2 DEF Inv, TypeOK
  <2>4. SlotsMirrorSessions' /\ OnlyEarlyResidue' /\ SubscribedWereSessions'
    BY <1>1, <1>6, <2>1 DEF SlotsMirrorSessions, OnlyEarlyResidue, SubscribedWereSessions
  <2>5. KnockIsBounded' /\ Phase' /\ QuietWhenDown'
    BY <1>1 DEF Inv, KnockIsBounded, Phase, NothingSet, QuietWhenDown
  <2> QED
    BY <2>3, <2>4, <2>5 DEF Inv
<1> QED
  BY <1>5, <1>6

(* A session ends. *)
LEMMA EndSessionStep ==
    ASSUME Inv, NEW fd \in Fds, EndSession(fd)
    PROVE  Inv'
<1>1. running /\ fd \in sessions /\ sessions' = sessions \ {fd} /\ OnClose(fd)
      /\ UNCHANGED <<boot, peer, knock, peers>> /\ queue' = queue /\ sockets' = sockets
  BY DEF EndSession, OnClose
<1>2. queue' \in Seq([type: {"send", "close"}, fd: Fds, to: 0 .. MaxPeers])
      /\ Len(queue') <= QueueLimit
  BY <1>1 DEF Inv, TypeOK
<1>3. WorkIsAddressed'
  BY <1>1 DEF Inv, WorkIsAddressed
<1> QED
  BY <1>1, <1>2, <1>3, CloseStep, Zenon

(* Queued work runs. *)
LEMMA RunWorkStep ==
    ASSUME Inv, RunWork
    PROVE  Inv'
<1>1. /\ running /\ queue # <<>> /\ queue' = Tail(queue)
      /\ UNCHANGED <<boot, peer, knock, peers>> /\ sockets' = sockets
  BY DEF RunWork, OnClose
<1>2. queue' \in Seq([type: {"send", "close"}, fd: Fds, to: 0 .. MaxPeers])
      /\ Len(queue') <= QueueLimit
  <2>1. queue \in Seq([type: {"send", "close"}, fd: Fds, to: 0 .. MaxPeers])
        /\ Len(queue) <= QueueLimit
    BY DEF Inv, TypeOK
  <2>2. /\ Tail(queue) \in Seq([type: {"send", "close"}, fd: Fds, to: 0 .. MaxPeers])
        /\ Len(Tail(queue)) = Len(queue) - 1 /\ Len(queue) \in Nat
    BY <1>1, <2>1, TailIsShorter
  <2> QED
    BY <1>1, <2>1, <2>2, ServerAssumption
<1>3. WorkIsAddressed'
  <2>1. \A i \in DOMAIN queue' : i + 1 \in DOMAIN queue /\ queue'[i] = queue[i + 1]
    BY <1>1 DEF Inv, TypeOK
  <2> QED
    BY <1>1, <2>1 DEF Inv, WorkIsAddressed
<1>4. CASE Head(queue).type = "close" /\ Head(queue).fd \in sessions
  <2>1. PICK fd \in sessions : fd = Head(queue).fd
    BY <1>4
  <2>2. sessions' = sessions \ {fd} /\ OnClose(fd)
    BY <1>4, <2>1 DEF RunWork
  <2> QED
    BY <1>1, <1>2, <1>3, <2>2, CloseStep, Zenon
<1>5. CASE ~(Head(queue).type = "close" /\ Head(queue).fd \in sessions)
  <2> USE DEF boot, slots, users
  <2>1. UNCHANGED <<boot, peer, knock, peers, sessions, sockets, slots, users>>
    BY <1>5 DEF RunWork
  <2>2. TypeOK'
    BY <1>2, <2>1 DEF Inv, TypeOK
  <2>3. KnockIsBounded' /\ Phase' /\ QuietWhenDown' /\ SlotsMirrorSessions'
        /\ OnlyEarlyResidue' /\ SubscribedWereSessions'
    BY <1>1, <2>1 DEF Inv, KnockIsBounded, Phase, NothingSet, QuietWhenDown, SlotsMirrorSessions,
                      OnlyEarlyResidue,
                      SubscribedWereSessions
  <2> QED
    BY <1>3, <2>2, <2>3 DEF Inv
<1> QED
  BY <1>4, <1>5

(* Work is queued: the closing of a session, or a send to a subscriber. *)
LEMMA QueueStep ==
    ASSUME Inv, running, NEW work \in [type: {"send", "close"}, fd: Fds, to: 0 .. MaxPeers],
           work.fd \in sockets, work.to = peer[work.fd],
           Len(queue) < QueueLimit, queue' = Append(queue, work),
           UNCHANGED <<boot, slots, net, users>>
    PROVE  Inv'
<1> USE DEF boot, slots, net, users
<1>1. queue' \in Seq([type: {"send", "close"}, fd: Fds, to: 0 .. MaxPeers])
      /\ Len(queue') <= QueueLimit
  BY ServerAssumption DEF Inv, TypeOK
<1>2. WorkIsAddressed'
  <2>1. queue \in Seq([type: {"send", "close"}, fd: Fds, to: 0 .. MaxPeers])
    BY DEF Inv, TypeOK
  <2>2. \A i \in DOMAIN queue' : queue'[i] = work \/ (i \in DOMAIN queue /\ queue'[i] = queue[i])
    BY <2>1, AppendedAre
  <2> QED
    BY <2>2 DEF Inv, WorkIsAddressed
<1>3. TypeOK'
  BY <1>1 DEF Inv, TypeOK
<1>4. KnockIsBounded' /\ Phase' /\ QuietWhenDown' /\ SlotsMirrorSessions' /\ OnlyEarlyResidue'
      /\ SubscribedWereSessions'
  BY DEF Inv, KnockIsBounded, Phase, NothingSet, QuietWhenDown, SlotsMirrorSessions,
         OnlyEarlyResidue, SubscribedWereSessions
<1> QED
  BY <1>2, <1>3, <1>4 DEF Inv

LEMMA PurgeLruStep ==
    ASSUME Inv, PurgeLru
    PROVE  Inv'
<1>1. PICK fd \in sessions : queue' = Append(queue, [type |-> "close", fd |-> fd, to |-> peer[fd]])
  BY DEF PurgeLru
<1>2. PICK work \in [type: {"send", "close"}, fd: Fds, to: 0 .. MaxPeers] :
        work = [type |-> "close", fd |-> fd, to |-> peer[fd]]
  BY DEF Inv, TypeOK
<1>3. work.fd \in sockets /\ work.to = peer[work.fd] /\ queue' = Append(queue, work)
  BY <1>1, <1>2 DEF Inv, TypeOK
<1>4. running /\ Len(queue) < QueueLimit /\ UNCHANGED <<boot, slots, net, users>>
  BY DEF PurgeLru
<1> QED
  BY <1>3, <1>4, QueueStep, Zenon

LEMMA PublishStep ==
    ASSUME Inv, NEW fd \in Fds, NEW to \in Fds, Publish(fd, to)
    PROVE  Inv'
<1>1. PICK work \in [type: {"send", "close"}, fd: Fds, to: 0 .. MaxPeers] :
        work = [type |-> "send", fd |-> to, to |-> peer[to]]
  BY DEF Inv, TypeOK
<1>2. work.fd \in sockets /\ work.to = peer[work.fd] /\ queue' = Append(queue, work)
  BY <1>1 DEF Inv, SubscribedWereSessions, Publish
<1>3. running /\ Len(queue) < QueueLimit /\ UNCHANGED <<boot, slots, net, users>>
  BY DEF Publish, Handles
<1> QED
  BY <1>2, <1>3, QueueStep, Zenon

(* A client connects, or a message leaves a subscription. *)
LEMMA ClientStep ==
    ASSUME Inv, Knock \/ \E fd \in Fds : Subscribe(fd)
    PROVE  Inv'
<1> USE DEF boot, slots, net, users
<1>1. CASE Knock
  <2>1. TypeOK'
    BY <1>1 DEF Inv, TypeOK, Knock
  <2>2. KnockIsBounded' /\ Phase' /\ QuietWhenDown' /\ SlotsMirrorSessions'
        /\ OnlyEarlyResidue' /\ SubscribedWereSessions'
        /\ WorkIsAddressed'
    BY <1>1 DEF Inv, KnockIsBounded, Knock, Phase, NothingSet, QuietWhenDown,
                SlotsMirrorSessions, OnlyEarlyResidue,
                SubscribedWereSessions, WorkIsAddressed
  <2> QED
    BY <2>1, <2>2 DEF Inv
<1>2. CASE \E fd \in Fds : Subscribe(fd)
  <2>1. PICK fd \in Fds : Subscribe(fd)
    BY <1>2
  <2>2. TypeOK'
    BY <2>1 DEF Inv, TypeOK, Subscribe
  <2>3. OnlyEarlyResidue' /\ SubscribedWereSessions'
    BY <2>1 DEF Inv, TypeOK, Subscribe, Handles, OnlyEarlyResidue, SubscribedWereSessions
  <2>4. KnockIsBounded' /\ Phase' /\ QuietWhenDown' /\ SlotsMirrorSessions' /\ WorkIsAddressed'
    BY <2>1 DEF Inv, KnockIsBounded, Subscribe, Phase, NothingSet, QuietWhenDown,
                SlotsMirrorSessions, WorkIsAddressed
  <2> QED
    BY <2>2, <2>3, <2>4 DEF Inv
<1> QED
  BY <1>1, <1>2

(* A stuttering step. *)
LEMMA StutterStep == Inv /\ UNCHANGED vars => Inv'
<1> SUFFICES ASSUME Inv, UNCHANGED vars PROVE Inv'
  OBVIOUS
<1> USE DEF vars, boot, slots, net, users
<1>1. TypeOK'
  BY DEF Inv, TypeOK
<1>2. KnockIsBounded' /\ Phase' /\ QuietWhenDown' /\ SlotsMirrorSessions' /\ OnlyEarlyResidue'
      /\ SubscribedWereSessions'
      /\ WorkIsAddressed'
  BY DEF Inv, KnockIsBounded, Phase, NothingSet, QuietWhenDown, SlotsMirrorSessions,
         OnlyEarlyResidue,
         SubscribedWereSessions, WorkIsAddressed
<1> QED
  BY <1>1, <1>2 DEF Inv

(* Every step keeps the invariant. *)
LEMMA InvNext == Inv /\ [Next]_vars => Inv'
<1> SUFFICES ASSUME Inv, [Next]_vars PROVE Inv'
  OBVIOUS
<1>1. CASE Boot
  BY <1>1, StartStep, ServerStep DEF Boot
<1>2. CASE Knock
  BY <1>2, ClientStep
<1>3. CASE Accept
  BY <1>3, AcceptStep
<1>4. CASE PurgeLru
  BY <1>4, PurgeLruStep
<1>5. CASE RunWork
  BY <1>5, RunWorkStep
<1>6. ASSUME NEW fd \in Fds, EndSession(fd) PROVE Inv'
  BY <1>6, EndSessionStep
<1>7. ASSUME NEW fd \in Fds, Subscribe(fd) PROVE Inv'
  BY <1>7, ClientStep
<1>8. ASSUME NEW fd \in Fds, NEW to \in Fds, Publish(fd, to) PROVE Inv'
  BY <1>8, PublishStep
<1>9. CASE UNCHANGED vars
  BY <1>9, StutterStep
<1> QED
  BY <1>1, <1>2, <1>3, <1>4, <1>5, <1>6, <1>7, <1>8, <1>9 DEF Next, Serve

(* The invariant holds in every reachable state. *)
THEOREM InvHolds == Spec => []Inv
  BY InvInit, InvNext, PTL DEF Spec

-----------------------------------------------------------------------------
(* The variables keep their types, the count of connections its range, and *)
(* sessions and queue their limits, for every size of the server.          *)
THEOREM WsTypeCorrect == Spec => []TypeOK
<1>1. Inv => TypeOK
  BY DEF Inv
<1> QED
  BY <1>1, InvHolds, PTL

(* on_open and on_close keep slots and count equal to the sessions, also   *)
(* across a start that failed with sessions open.                          *)
THEOREM SlotsMirrorSessionsThm == Spec => []SlotsMirrorSessions
<1>1. Inv => SlotsMirrorSessions
  BY DEF Inv
<1> QED
  BY <1>1, InvHolds, PTL

(* ws_handler passes no message on while a part of g_relay_ctx is missing. *)
THEOREM HandlersFindTheirContextThm == Spec => []HandlersFindTheirContext
<1>1. Inv => HandlersFindTheirContext
  BY DEF Inv, Phase, NothingSet, HandlersFindTheirContext
<1> QED
  BY <1>1, InvHolds, PTL

(* start_relay_server leaves either a relay with all its parts or nothing. *)
THEOREM StartIsAllOrNothingThm == Spec => []StartIsAllOrNothing
<1>1. Inv => StartIsAllOrNothing
  BY DEF Inv, Phase, NothingSet, QuietWhenDown, StartIsAllOrNothing
<1> QED
  BY <1>1, InvHolds, PTL

(* on_close leaves nothing of a connection once the disconnect callback is *)
(* set.                                                                    *)
THEOREM OnlyEarlyResidueThm == Spec => []OnlyEarlyResidue
<1>1. Inv => OnlyEarlyResidue
  BY DEF Inv
<1> QED
  BY <1>1, InvHolds, PTL

(* ws_async_send never reaches a client other than the one ws_server_send  *)
(* was called for.                                                         *)
THEOREM NoForeignDeliveryThm == Spec => []NoForeignDelivery
<1>1. Inv => NoForeignDelivery
  BY DEF Inv, WorkIsAddressed, NoForeignDelivery
<1> QED
  BY <1>1, InvHolds, PTL

=============================================================================
