----------------------------- MODULE RateLimiter -----------------------------
(***************************************************************************)
(* The rate limiter of the relay (main/rate_limiter.c) between the         *)
(* connections it serves: a fixed array of buckets, each with one counter  *)
(* for every type of message and one window that both counters share.      *)
(* Every call holds rl->lock from start to end, so a call is one step; the *)
(* clock does not move inside it.                                          *)
(***************************************************************************)
EXTENDS Integers, Sequences, FiniteSets

CONSTANTS
    Fds,            \* socket descriptors
    NoFd,           \* the descriptor in a bucket that was never used
    Types,          \* RATE_TYPE_EVENT and RATE_TYPE_REQ
    Limit,          \* rl->config: messages of each type in a window
    MaxBuckets,     \* RATE_LIMITER_MAX_BUCKETS (16)
    MaxConns,       \* WS_MAX_CONNECTIONS (8)
    Window,         \* seconds in a window (60)
    MaxTime         \* bound: the last second of a behaviour

ASSUME RateAssumption ==
    /\ IsFiniteSet(Fds)
    /\ Limit \in [Types -> Nat]
    /\ MaxBuckets \in Nat
    /\ MaxConns \in Nat
    /\ MaxConns <= MaxBuckets
    /\ Window \in Nat \ {0}
    /\ MaxTime \in Nat

VARIABLES
    buckets,        \* rl->buckets
    now,            \* esp_timer_get_time() / 1000000
    open,           \* the descriptors of the open connections
    callback,       \* g_disconnect_callback is set
    admitted,       \* history: when each message of an open connection was let in
    early           \* history: the descriptors closed before the callback was set

vars == <<buckets, now, open, callback, admitted, early>>

Slots == 1 .. MaxBuckets

Bucket == [fd: Fds \cup {NoFd}, active: BOOLEAN, count: [Types -> Nat], window_start: Nat]

NoneAdmitted == [t \in Types |-> <<>>]

Active == {i \in Slots : buckets[i].active}

BucketsOf(fd) == {i \in Active : buckets[i].fd = fd}

-----------------------------------------------------------------------------
(* rate_limiter_check *)

(* Mutant: a free bucket is taken before the one in use is looked for. *)
GetBucketFreeFirst(fd, i) ==
    IF Active = Slots
    THEN i \in BucketsOf(fd) /\ \A j \in BucketsOf(fd) : i <= j
    ELSE i \in Slots \ Active /\ \A j \in Slots \ Active : i <= j

(* get_bucket returns bucket i: the one in use for fd, or the first free.  *)
GetBucket(fd, i) ==
    IF BucketsOf(fd) # {}
    THEN i \in BucketsOf(fd) /\ \A j \in BucketsOf(fd) : i <= j
    ELSE i \in Slots \ Active /\ \A j \in Slots \ Active : i <= j

Fresh(fd) ==
    [fd |-> fd, active |-> TRUE, count |-> [t \in Types |-> 0], window_start |-> now]

(* Mutant: the window is over one second early. *)
WindowOverEarly(i) == now - buckets[i].window_start >= Window - 1

WindowOver(i) == now - buckets[i].window_start >= Window

(* The bucket as the counters are compared: fresh if it was free or its    *)
(* window is over.                                                         *)
Current(fd, i) == IF i \in Active /\ ~WindowOver(i) THEN buckets[i] ELSE Fresh(fd)

(* Mutant: the limit itself is let in. *)
UnderLimitOneMore(b, t) == b.count[t] <= Limit[t]

UnderLimit(b, t) == b.count[t] < Limit[t]

Counted(b, t) == [b EXCEPT !.count = [b.count EXCEPT ![t] = b.count[t] + 1]]

Admit(fd, t) ==
    /\ fd \in open
    /\ \E i \in Slots :
        /\ GetBucket(fd, i)
        /\ UnderLimit(Current(fd, i), t)
        /\ buckets' = [buckets EXCEPT ![i] = Counted(Current(fd, i), t)]
    /\ admitted' = [admitted EXCEPT
            ![fd] = [admitted[fd] EXCEPT ![t] = Append(admitted[fd][t], now)]]
    /\ UNCHANGED <<now, open, callback, early>>

(* The counter is at its limit.  The bucket is taken or renewed all the    *)
(* same, which shows only with a limit of zero.                            *)
Refuse(fd, t) ==
    /\ fd \in open
    /\ \E i \in Slots :
        /\ GetBucket(fd, i)
        /\ ~UnderLimit(Current(fd, i), t)
        /\ buckets' = [buckets EXCEPT ![i] = Current(fd, i)]
    /\ UNCHANGED <<now, open, callback, admitted, early>>

(* What a check would answer.  With no bucket to be had it is a refusal    *)
(* that changes nothing.                                                   *)
Allowed(fd, t) == \E i \in Slots : GetBucket(fd, i) /\ UnderLimit(Current(fd, i), t)

-----------------------------------------------------------------------------
(* The connections: on_open and on_close of main/ws_server.c *)

(* on_close replaces the library's close and does not close the            *)
(* descriptor, so a descriptor closed early is not handed out again (see   *)
(* WsServer).  The others may come back, which is more than the code does. *)
Connect(fd) ==
    /\ fd \notin open \cup early
    /\ Cardinality(open) < MaxConns
    /\ open' = open \cup {fd}
    /\ UNCHANGED <<buckets, now, callback, admitted, early>>

(* start_relay_server sets the callback when the server runs already.  It  *)
(* stays: a relay that runs is not stopped, and a start that fails never   *)
(* comes this far and initialises the limiter anew.                        *)
SetDisconnectCb ==
    /\ ~callback
    /\ callback' = TRUE
    /\ UNCHANGED <<buckets, now, open, admitted, early>>

(* Mutant: the bucket is not given back. *)
ResetForgotten(fd) == buckets

(* rate_limiter_reset: the first bucket of fd, if it has one, is free; its *)
(* other fields stay.                                                      *)
Reset(fd) ==
    [i \in Slots |->
        IF i \in BucketsOf(fd) /\ \A j \in BucketsOf(fd) : i <= j
        THEN [buckets[i] EXCEPT !.active = FALSE]
        ELSE buckets[i]]

(* on_close.  Without the callback the bucket stays behind.  It also       *)
(* returns at once without g_server, which is gone only while a failed     *)
(* start is undone, before the limiter is initialised anew.                *)
Disconnect(fd) ==
    /\ fd \in open
    /\ \/ callback /\ buckets' = Reset(fd) /\ early' = early
       \/ ~callback /\ buckets' = buckets /\ early' = early \cup {fd}
    /\ open' = open \ {fd}
    /\ admitted' = [admitted EXCEPT ![fd] = NoneAdmitted]
    /\ UNCHANGED <<now, callback>>

Tick ==
    /\ now < MaxTime
    /\ now' = now + 1
    /\ UNCHANGED <<buckets, open, callback, admitted, early>>

-----------------------------------------------------------------------------
Unused == [fd |-> NoFd, active |-> FALSE, count |-> [t \in Types |-> 0], window_start |-> 0]

(* rate_limiter_init *)
Init ==
    /\ buckets = [i \in Slots |-> Unused]
    /\ now = 0
    /\ open = {}
    /\ callback = FALSE
    /\ admitted = [fd \in Fds |-> NoneAdmitted]
    /\ early = {}

Next ==
    \/ \E fd \in Fds :
        \/ \E t \in Types : Admit(fd, t) \/ Refuse(fd, t)
        \/ Connect(fd)
        \/ Disconnect(fd)
    \/ SetDisconnectCb
    \/ Tick

Spec == Init /\ [][Next]_vars

-----------------------------------------------------------------------------
(* Properties *)

(* The counters stay within their limits and no window starts in the       *)
(* future.                                                                 *)
TypeOK ==
    /\ buckets \in [Slots -> Bucket]
    /\ now \in Nat
    /\ open \in SUBSET Fds
    /\ callback \in BOOLEAN
    /\ early \in SUBSET Fds
    /\ admitted \in [Fds -> [Types -> Seq(Nat)]]
    /\ \A i \in Slots :
        /\ buckets[i].window_start <= now
        /\ \A t \in Types : buckets[i].count[t] <= Limit[t]

(* No connection has two buckets, which would give it two allowances, and  *)
(* every bucket in use belongs to a connection that is open or that was    *)
(* closed before the callback was set.                                     *)
BucketsAreOwned ==
    /\ \A i, j \in Active : buckets[i].fd = buckets[j].fd => i = j
    /\ \A i \in Active : buckets[i].fd \in open \cup early

(* The buckets of connections that are gone. *)
LeftBehind == {i \in Active : buckets[i].fd \notin open}

(* Windows are aligned with the messages and not with the clock, so        *)
(* neighbouring windows can be spent back to back; but never three: more   *)
(* than twice the limit takes a connection longer than a window.           *)
TwiceTheLimit ==
    \A fd \in open, t \in Types :
        LET h == admitted[fd][t] IN
        \A k \in DOMAIN h :
            k + 2 * Limit[t] \in DOMAIN h => h[k + 2 * Limit[t]] - h[k] > Window

(* A connection is refused only for what it did itself: its last Limit     *)
(* messages were let in less than a window ago.  It never goes without a   *)
(* bucket and never inherits the counters of an earlier connection that    *)
(* had the same descriptor.  It takes that no more buckets were left       *)
(* behind than there are besides one for each connection (16 and 8).       *)
RefusedOnlyIfSpent ==
    Cardinality(LeftBehind) <= MaxBuckets - MaxConns =>
        \A fd \in open, t \in Types :
            LET h == admitted[fd][t] IN
            Limit[t] > 0 /\ ~Allowed(fd, t) =>
                /\ Len(h) >= Limit[t]
                /\ now - h[Len(h) - Limit[t] + 1] < Window

=============================================================================
