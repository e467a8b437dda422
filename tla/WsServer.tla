------------------------------ MODULE WsServer ------------------------------
(***************************************************************************)
(* The WebSocket server (main/ws_server.c) and the start of the relay      *)
(* (start_relay_server in main/main.c).                                    *)
(*                                                                         *)
(* Two tasks: the event loop, which starts the relay when the station gets *)
(* an address and undoes a start that fails, and the task of               *)
(* esp_http_server, which begins with httpd_start, before the start is     *)
(* complete, and calls on_open, on_close, the handler and queued work.     *)
(*                                                                         *)
(* Of esp_http_server the model keeps what ws_server.c relies on: sessions *)
(* named by their descriptor, at most max_open_sockets of them, of which   *)
(* one is closed through the work queue when a client waits and all are    *)
(* taken (lru_purge_enable); work done in order; a send to a descriptor    *)
(* without a session fails; and a session that ends is handed to close_fn, *)
(* which has to close the descriptor, as the library then does not.        *)
(***************************************************************************)
EXTENDS Integers, Sequences, FiniteSets

CONSTANTS
    MaxConns,       \* WS_MAX_CONNECTIONS, also max_open_sockets (8)
    MaxSockets,     \* descriptors lwIP has for clients (CONFIG_LWIP_MAX_SOCKETS)
    QueueLimit,     \* work the control socket of the server holds
    MaxPeers        \* bound on the clients that connect

ASSUME ServerAssumption ==
    /\ MaxConns \in Nat \ {0}
    /\ MaxSockets \in Nat
    /\ QueueLimit \in Nat \ {0}
    /\ MaxPeers \in Nat

VARIABLES
    \* the event loop and the globals it sets
    start,          \* where start_relay_server is, "idle" outside it
    ctx,            \* the pointers of g_relay_ctx that are set
    running,        \* ws_server.server # NULL
    g_server,       \* g_server # NULL
    on_message,     \* g_message_callback # NULL
    on_disconnect,  \* g_disconnect_callback # NULL
    connections,    \* descriptors in the active slots of connections
    connection_count,
    \* esp_http_server and lwIP
    uri,            \* the handler is registered
    sessions,       \* descriptors of the open sessions
    sockets,        \* descriptors that are not closed
    peer,           \* the client a descriptor was given to last
    queue,          \* work for the server task
    knock,          \* a client waits to be accepted
    peers,          \* clients accepted so far
    \* the users of the server
    subscribed,     \* descriptors with subscriptions and a rate bucket
    early           \* those closed before on_disconnect was set

boot   == <<start, ctx, running, g_server, on_message, on_disconnect, uri>>
slots  == <<connections, connection_count>>
net    == <<sessions, sockets, peer, knock, peers>>
users  == <<subscribed, early>>
vars   == <<boot, slots, net, queue, users>>

Fds == 1 .. MaxSockets

Parts == {"sub_manager", "storage", "rate_limiter"}

-----------------------------------------------------------------------------
(* start_relay_server, in the event loop task *)

(* Mutant: no test of ws_server_is_running. *)
GotIpAgain ==
    /\ start = "idle"
    /\ \/ start' = "storage" /\ ctx' = ctx \cup {"sub_manager"}
       \/ UNCHANGED <<start, ctx>>
    /\ UNCHANGED <<running, g_server, on_message, on_disconnect, uri, slots, net, queue, users>>

(* IP_EVENT_STA_GOT_IP: nothing if the server runs, else sub_manager_init, *)
(* which may fail.                                                         *)
GotIp ==
    /\ start = "idle"
    /\ ~running
    /\ \/ start' = "storage" /\ ctx' = {"sub_manager"}
       \/ UNCHANGED <<start, ctx>>
    /\ UNCHANGED <<running, g_server, on_message, on_disconnect, uri, slots, net, queue, users>>

(* Mutant: the subscription manager is not destroyed. *)
StartFailsLeaky ==
    /\ start' = "idle"
    /\ ctx' = ctx \cap {"sub_manager"}
    /\ subscribed' = {}
    /\ early' = {}

(* cleanup_relay_resources and the return: each step passes what it has    *)
(* made so far, which is what the pointers tell.                           *)
StartFails ==
    /\ start' = "idle"
    /\ ctx' = {}
    /\ subscribed' = {}
    /\ early' = {}

(* storage_init *)
InitStorage ==
    /\ start = "storage"
    /\ \/ start' = "cleanup" /\ ctx' = ctx \cup {"storage"} /\ UNCHANGED users
       \/ StartFails
    /\ UNCHANGED <<running, g_server, on_message, on_disconnect, uri, slots, net, queue>>

(* storage_start_cleanup_task, and rate_limiter_init if it succeeds.  The  *)
(* latter does not look whether its mutex was allocated; here it is.       *)
StartCleanupTask ==
    /\ start = "cleanup"
    /\ \/ start' = "server" /\ ctx' = ctx \cup {"rate_limiter"} /\ UNCHANGED users
       \/ StartFails
    /\ UNCHANGED <<running, g_server, on_message, on_disconnect, uri, slots, net, queue>>

(* Mutant: the slots of an earlier start are kept. *)
WsServerInitKeepsSlots ==
    /\ start = "server"
    /\ \/ /\ start' = "httpd"
          /\ g_server' = TRUE
          /\ on_message' = TRUE
          /\ UNCHANGED <<ctx, users>>
       \/ StartFails /\ UNCHANGED <<g_server, on_message>>
    /\ UNCHANGED <<running, on_disconnect, uri, slots, net, queue>>

(* ws_server_init up to httpd_start: the slots are cleared, the lock made, *)
(* g_server and the message callback set.                                  *)
WsServerInit ==
    /\ start = "server"
    /\ connections' = {}
    /\ connection_count' = 0
    /\ \/ /\ start' = "httpd"
          /\ g_server' = TRUE
          /\ on_message' = TRUE
          /\ UNCHANGED <<ctx, users>>
       \/ StartFails /\ UNCHANGED <<g_server, on_message>>
    /\ UNCHANGED <<running, on_disconnect, uri, net, queue>>

(* httpd_start: from here on the server task runs.  If it fails,           *)
(* cleanup_server_init takes back what was set.                            *)
HttpdStart ==
    /\ start = "httpd"
    /\ \/ /\ start' = "register"
          /\ running' = TRUE
          /\ UNCHANGED <<ctx, g_server, on_message, users>>
       \/ /\ StartFails
          /\ g_server' = FALSE
          /\ on_message' = FALSE
          /\ UNCHANGED running
    /\ UNCHANGED <<on_disconnect, uri, slots, net, queue>>

(* httpd_register_uri_handler.  If it fails, cleanup_server_init clears    *)
(* the globals while the server task still runs.                           *)
RegisterUri ==
    /\ start = "register"
    /\ \/ /\ start' = "callback"
          /\ uri' = TRUE
          /\ UNCHANGED <<g_server, on_message>>
       \/ /\ start' = "stop"
          /\ g_server' = FALSE
          /\ on_message' = FALSE
          /\ UNCHANGED uri
    /\ UNCHANGED <<ctx, running, on_disconnect, slots, net, queue, users>>

(* httpd_stop ends the server task and its sessions, for which on_close    *)
(* does nothing any more; then everything is undone.                       *)
HttpdStop ==
    /\ start = "stop"
    /\ running' = FALSE
    /\ sessions' = {}
    /\ queue' = <<>>
    /\ StartFails
    /\ UNCHANGED <<g_server, on_message, on_disconnect, uri, slots, sockets, peer, knock, peers>>

(* ws_server_set_disconnect_cb *)
SetDisconnectCb ==
    /\ start = "callback"
    /\ start' = "idle"
    /\ on_disconnect' = TRUE
    /\ UNCHANGED <<ctx, running, g_server, on_message, uri, slots, net, queue, users>>

-----------------------------------------------------------------------------
(* The server task *)

(* A client connects. *)
Knock ==
    /\ ~knock
    /\ peers < MaxPeers
    /\ knock' = TRUE
    /\ UNCHANGED <<boot, slots, sessions, sockets, peer, peers, queue, users>>

(* What on_open asks for: the server, a count below the limit and a slot. *)
Admits ==
    /\ g_server
    /\ connection_count < MaxConns
    /\ Cardinality(connections) < MaxConns

(* lwIP gives out the lowest descriptor. *)
LowestFree(fd) == fd \in Fds \ sockets /\ \A x \in Fds \ sockets : fd <= x

(* accept, and on_open.  A client that on_open refuses has its descriptor  *)
(* closed by the library, and tries again.  One step: on_open reads        *)
(* g_server twice before it holds the lock, and a failing start that       *)
(* clears it between the two readings (cleanup_server_init) is left out.   *)
Accept ==
    /\ running
    /\ knock
    /\ Cardinality(sessions) < MaxConns
    /\ Admits
    /\ \E fd \in Fds :
        /\ LowestFree(fd)
        /\ connections' = connections \cup {fd}
        /\ sessions' = sessions \cup {fd}
        /\ sockets' = sockets \cup {fd}
        /\ peer' = [peer EXCEPT ![fd] = peers + 1]
    /\ connection_count' = connection_count + 1
    /\ peers' = peers + 1
    /\ knock' = FALSE
    /\ UNCHANGED <<boot, queue, users>>

(* All sessions are taken: the closing of one is queued. *)
PurgeLru ==
    /\ running
    /\ knock
    /\ Cardinality(sessions) = MaxConns
    /\ Len(queue) < QueueLimit
    /\ \A i \in DOMAIN queue : queue[i].type = "send"
    /\ \E fd \in sessions : queue' = Append(queue, [type |-> "close", fd |-> fd, to |-> peer[fd]])
    /\ UNCHANGED <<boot, slots, net, users>>

(* Mutant: the count stays. *)
OnCloseKeepsCount(fd) ==
    /\ IF g_server /\ fd \in connections
       THEN connections' = connections \ {fd}
       ELSE UNCHANGED connections
    /\ UNCHANGED <<connection_count, sockets>>
    /\ subscribed' = IF g_server /\ on_disconnect THEN subscribed \ {fd} ELSE subscribed
    /\ early' = IF g_server /\ ~on_disconnect THEN early \cup {fd} ELSE early

(* Mutant: the descriptor is closed, and given to the next client. *)
OnCloseCloses(fd) ==
    /\ IF g_server /\ fd \in connections
       THEN /\ connections' = connections \ {fd}
            /\ connection_count' = connection_count - 1
       ELSE UNCHANGED slots
    /\ sockets' = sockets \ {fd}
    /\ subscribed' = IF g_server /\ on_disconnect THEN subscribed \ {fd} ELSE subscribed
    /\ early' = IF g_server /\ ~on_disconnect THEN early \cup {fd} ELSE early

(* Mutant: the disconnect callback is not called. *)
OnCloseNoCallback(fd) ==
    /\ IF g_server /\ fd \in connections
       THEN /\ connections' = connections \ {fd}
            /\ connection_count' = connection_count - 1
       ELSE UNCHANGED slots
    /\ early' = IF g_server /\ ~on_disconnect THEN early \cup {fd} ELSE early
    /\ UNCHANGED <<sockets, subscribed>>

(* Mutant: the connection is counted out twice. *)
OnCloseCountsTwice(fd) ==
    /\ IF g_server /\ fd \in connections
       THEN /\ connections' = connections \ {fd}
            /\ connection_count' = connection_count - 2
       ELSE UNCHANGED slots
    /\ subscribed' = IF g_server /\ on_disconnect THEN subscribed \ {fd} ELSE subscribed
    /\ early' = IF g_server /\ ~on_disconnect THEN early \cup {fd} ELSE early
    /\ UNCHANGED sockets

(* on_close: the disconnect callback, then the slot.  The descriptor is    *)
(* not closed.  One step, with the same reservation as Accept: g_server is *)
(* read before the callback and again after it, without a lock.            *)
OnClose(fd) ==
    /\ IF g_server /\ fd \in connections
       THEN /\ connections' = connections \ {fd}
            /\ connection_count' = connection_count - 1
       ELSE UNCHANGED slots
    /\ UNCHANGED sockets
    /\ subscribed' = IF g_server /\ on_disconnect THEN subscribed \ {fd} ELSE subscribed
    /\ early' = IF g_server /\ ~on_disconnect THEN early \cup {fd} ELSE early

(* A session ends: the client has gone, a frame is a CLOSE, too large or   *)
(* does not arrive, or there is no memory for it.                          *)
EndSession(fd) ==
    /\ running
    /\ fd \in sessions
    /\ sessions' = sessions \ {fd}
    /\ OnClose(fd)
    /\ UNCHANGED <<boot, peer, knock, peers, queue>>

(* ws_handler passes a text frame on. *)
Handles(fd) == running /\ uri /\ on_message /\ fd \in sessions

(* A message leaves a subscription, a rate bucket, or both. *)
Subscribe(fd) ==
    /\ Handles(fd)
    /\ fd \notin subscribed
    /\ subscribed' = subscribed \cup {fd}
    /\ UNCHANGED <<boot, slots, net, queue, early>>

(* A message makes the relay send to the connection to; ws_server_send     *)
(* queues it unless it is the one being served.  The users of the server   *)
(* know a client by its descriptor alone.                                  *)
Publish(fd, to) ==
    /\ Handles(fd)
    /\ to \in subscribed \ {fd}
    /\ Len(queue) < QueueLimit
    /\ queue' = Append(queue, [type |-> "send", fd |-> to, to |-> peer[to]])
    /\ UNCHANGED <<boot, slots, net, users>>

(* ws_async_send, or the closing of a session. *)
RunWork ==
    /\ running
    /\ queue # <<>>
    /\ queue' = Tail(queue)
    /\ LET work == Head(queue)
       IN  IF work.type = "close" /\ work.fd \in sessions
           THEN sessions' = sessions \ {work.fd} /\ OnClose(work.fd)
           ELSE UNCHANGED <<sessions, sockets, slots, users>>
    /\ UNCHANGED <<boot, peer, knock, peers>>

-----------------------------------------------------------------------------
Init ==
    /\ start = "idle"
    /\ ctx = {}
    /\ running = FALSE
    /\ g_server = FALSE
    /\ on_message = FALSE
    /\ on_disconnect = FALSE
    /\ connections = {}
    /\ connection_count = 0
    /\ uri = FALSE
    /\ sessions = {}
    /\ sockets = {}
    /\ peer = [fd \in Fds |-> 0]
    /\ queue = <<>>
    /\ knock = FALSE
    /\ peers = 0
    /\ subscribed = {}
    /\ early = {}

Boot ==
    \/ GotIp \/ InitStorage \/ StartCleanupTask \/ WsServerInit
    \/ HttpdStart \/ RegisterUri \/ HttpdStop \/ SetDisconnectCb

Serve ==
    \/ Accept \/ PurgeLru \/ RunWork
    \/ \E fd \in Fds : EndSession(fd) \/ Subscribe(fd) \/ \E to \in Fds : Publish(fd, to)

Next == Boot \/ Knock \/ Serve

Spec == Init /\ [][Next]_vars

-----------------------------------------------------------------------------
(* Properties *)

(* Every variable keeps its type, and the queue and the sessions keep to   *)
(* their limits.                                                           *)
TypeOK ==
    /\ start \in {"idle", "storage", "cleanup", "server", "httpd", "register", "callback", "stop"}
    /\ ctx \subseteq Parts
    /\ {running, g_server, on_message, on_disconnect, uri, knock} \subseteq BOOLEAN
    /\ connections \subseteq Fds
    /\ connection_count \in 0 .. MaxConns
    /\ sessions \subseteq sockets
    /\ Cardinality(sessions) <= MaxConns
    /\ sockets \subseteq Fds
    /\ peer \in [Fds -> 0 .. MaxPeers]
    /\ peers \in 0 .. MaxPeers
    /\ queue \in Seq([type: {"send", "close"}, fd: Fds, to: 0 .. MaxPeers])
    /\ Len(queue) <= QueueLimit
    /\ subscribed \subseteq Fds
    /\ early \subseteq Fds

(* While the server is known to its callbacks, the slots and the running   *)
(* count are those of the open sessions, also after a start that failed    *)
(* with sessions open: on_open never turns away a client for whom there is *)
(* a session, and "no free slot despite connection_count" never happens.   *)
SlotsMirrorSessions ==
    g_server => connections = sessions /\ connection_count = Cardinality(sessions)

(* A message is handled only when all that the handlers use has been made, *)
(* and none of it is destroyed while the server task may be using it.      *)
HandlersFindTheirContext ==
    running /\ uri /\ on_message => ctx = Parts

(* Outside start_relay_server the relay either runs with all its parts and *)
(* callbacks, or a failed start has left nothing of itself.                *)
StartIsAllOrNothing ==
    start = "idle" =>
        IF running THEN ctx = Parts /\ g_server /\ on_message /\ on_disconnect /\ uri
        ELSE ctx = {} /\ ~g_server /\ ~on_message /\ sessions = {} /\ queue = <<>>

(* A closed connection leaves no subscription and no rate bucket, except   *)
(* one that was closed in the moment before the disconnect callback was    *)
(* set.                                                                    *)
OnlyEarlyResidue == subscribed \subseteq sessions \cup early

(* A queued send reaches the client it was meant for or nobody: its        *)
(* descriptor never belongs to another client by the time it is sent.      *)
NoForeignDelivery ==
    \A i \in DOMAIN queue : queue[i].fd \in sessions => peer[queue[i].fd] = queue[i].to

-----------------------------------------------------------------------------
(* Liveness.  Each round of the server's loop does one piece of queued     *)
(* work and, after the messages that have arrived, looks for a waiting     *)
(* client; the rate limiter keeps the clients from filling the queue in    *)
(* every round.                                                            *)

LiveSpec == Spec /\ WF_vars(RunWork) /\ SF_vars(PurgeLru) /\ SF_vars(Accept)

Up == running /\ start = "idle"

(* A client that waits while the server runs gets in, at the cost of       *)
(* another when all sessions are taken, as long as there is a descriptor   *)
(* for it.                                                                 *)
ClientsGetInWhileSocketsLast ==
    (knock /\ Up) ~> (~knock \/ sockets = Fds)

(* README: "5-10 concurrent WebSocket": a client that waits while the      *)
(* server runs gets in.                                                    *)
ClientsGetIn == (knock /\ Up) ~> ~knock

=============================================================================
