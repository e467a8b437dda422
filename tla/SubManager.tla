----------------------------- MODULE SubManager -----------------------------
(***************************************************************************)
(* The subscription table of the relay (main/sub_manager.c): a fixed array *)
(* of slots searched from the start, and a running count.  Every call      *)
(* holds mgr->lock from start to end, so a call is one step.  Copying a    *)
(* filter list may run out of memory at any filter.                        *)
(***************************************************************************)
EXTENDS Integers, Sequences, FiniteSets

CONSTANTS
    Conns,          \* connections (socket descriptors)
    SubIds,         \* subscription ids of at most SUB_MAX_ID_LEN characters
    Filters,        \* filters
    Requests,       \* the filter lists of the REQ messages
    MaxTotal,       \* SUB_MAX_TOTAL (64)
    MaxPerConn,     \* SUB_MAX_PER_CONN (8)
    MaxFilters,     \* SUB_MAX_FILTERS (4)
    Nobody          \* the fields of a slot that memset has cleared

ASSUME SubAssumption ==
    /\ MaxTotal \in Nat
    /\ MaxPerConn \in Nat
    /\ MaxFilters \in Nat
    /\ Requests \subseteq Seq(Filters)
    /\ Nobody \notin Conns
    /\ Nobody \notin Seq(Filters)

VARIABLES
    subs,           \* mgr->subs
    active_count    \* mgr->active_count

vars == <<subs, active_count>>

Slots == 1 .. MaxTotal

Sub == [active: BOOLEAN, conn_fd: Conns \cup {Nobody}, sub_id: SubIds \cup {Nobody},
        filters: Seq(Filters)]

Cleared == [active |-> FALSE, conn_fd |-> Nobody, sub_id |-> Nobody, filters |-> <<>>]

(* A slot taken by subscription s of connection c. *)
Holding(c, s, fs) == [active |-> TRUE, conn_fd |-> c, sub_id |-> s, filters |-> fs]

Active == {i \in Slots : subs[i].active}

(* The slots of a connection, which sub_manager_count counts. *)
SlotsOf(c) == {i \in Active : subs[i].conn_fd = c}

(* Mutant: the connection is not compared. *)
NamedByAnyone(c, s, i) == subs[i].sub_id = s

Named(c, s, i) == subs[i].conn_fd = c /\ subs[i].sub_id = s

(* sub_manager_find returns slot i: the first active one with that name. *)
Find(c, s, i) ==
    /\ i \in Active
    /\ Named(c, s, i)
    /\ \A j \in Active : Named(c, s, j) => i <= j

Exists(c, s) == \E i \in Active : Named(c, s, i)

(* find_free_slot returns slot i. *)
FindFreeSlot(i) ==
    /\ i \in Slots \ Active
    /\ \A j \in Slots \ Active : i <= j

(* A list longer than the array of a slot is cut. *)
Capped(fs) == IF Len(fs) > MaxFilters THEN SubSeq(fs, 1, MaxFilters) ELSE fs

-----------------------------------------------------------------------------
(* sub_manager_add *)

(* REQ for a subscription that exists: its filters are freed, then copied. *)
AddReplaces(c, s, fs) ==
    /\ \E i \in Slots :
        /\ Find(c, s, i)
        /\ subs' = [subs EXCEPT ![i] = Holding(c, s, Capped(fs))]
    /\ UNCHANGED active_count

(* The copy fails, NOSTR_RELAY_ERR_MEMORY: the old filters are gone and    *)
(* the subscription stays active with none.                                *)
AddReplaceFails(c, s, fs) ==
    /\ Capped(fs) # <<>>
    /\ \E i \in Slots :
        /\ Find(c, s, i)
        /\ subs' = [subs EXCEPT ![i] = Holding(c, s, <<>>)]
    /\ UNCHANGED active_count

(* Mutant: the search for an existing subscription is left out. *)
AddOpensAgain(c, s, fs) ==
    /\ Cardinality(SlotsOf(c)) < MaxPerConn
    /\ \E i \in Slots :
        /\ FindFreeSlot(i)
        /\ subs' = [subs EXCEPT ![i] = Holding(c, s, Capped(fs))]
    /\ active_count' = active_count + 1

(* Mutant: one subscription too many. *)
AddOpensOneMore(c, s, fs) ==
    /\ ~Exists(c, s)
    /\ Cardinality(SlotsOf(c)) <= MaxPerConn
    /\ \E i \in Slots :
        /\ FindFreeSlot(i)
        /\ subs' = [subs EXCEPT ![i] = Holding(c, s, Capped(fs))]
    /\ active_count' = active_count + 1

(* REQ for a new subscription.  With MaxPerConn of them, or no free slot,  *)
(* or no memory for the filters, it is refused and nothing changes.        *)
AddOpens(c, s, fs) ==
    /\ ~Exists(c, s)
    /\ Cardinality(SlotsOf(c)) < MaxPerConn
    /\ \E i \in Slots :
        /\ FindFreeSlot(i)
        /\ subs' = [subs EXCEPT ![i] = Holding(c, s, Capped(fs))]
    /\ active_count' = active_count + 1

(* Mutant: the slot is released but not cleared. *)
RemoveLeavesFields(c, s) ==
    /\ \E i \in Slots :
        /\ Find(c, s, i)
        /\ subs' = [subs EXCEPT ![i].active = FALSE]
    /\ active_count' = active_count - 1

(* sub_manager_remove: refused unless the subscription exists. *)
Remove(c, s) ==
    /\ \E i \in Slots :
        /\ Find(c, s, i)
        /\ subs' = [subs EXCEPT ![i] = Cleared]
    /\ active_count' = active_count - 1

(* Mutant: the count is lowered once for the connection. *)
RemoveAllCountsOnce(c) ==
    /\ subs' = [i \in Slots |-> IF i \in SlotsOf(c) THEN Cleared ELSE subs[i]]
    /\ active_count' = IF SlotsOf(c) = {} THEN active_count ELSE active_count - 1

(* sub_manager_remove_all, when the connection closes. *)
RemoveAll(c) ==
    /\ subs' = [i \in Slots |-> IF i \in SlotsOf(c) THEN Cleared ELSE subs[i]]
    /\ active_count' = active_count - Cardinality(SlotsOf(c))

-----------------------------------------------------------------------------
Init ==
    /\ subs = [i \in Slots |-> Cleared]
    /\ active_count = 0

Next ==
    \E c \in Conns :
        \/ \E s \in SubIds :
            \/ \E fs \in Requests :
                AddReplaces(c, s, fs) \/ AddReplaceFails(c, s, fs) \/ AddOpens(c, s, fs)
            \/ Remove(c, s)
        \/ RemoveAll(c)

Spec == Init /\ [][Next]_vars

-----------------------------------------------------------------------------
(* Properties *)

(* Every slot is a subscription or has been cleared. *)
TypeOK ==
    /\ subs \in [Slots -> Sub]
    /\ active_count \in Int
    /\ \A i \in Slots \ Active : subs[i] = Cleared
    /\ \A i \in Active : subs[i].conn_fd \in Conns /\ subs[i].sub_id \in SubIds

(* No subscription occupies two slots, so that the first match is the only *)
(* one: a second would go on matching events after its CLOSE.              *)
UniqueKey ==
    \A i, j \in Active :
        subs[i].conn_fd = subs[j].conn_fd /\ subs[i].sub_id = subs[j].sub_id => i = j

(* The running count, which three calls adjust, is the number of slots in  *)
(* use after any sequence of calls.                                        *)
CountIsExact == active_count = Cardinality(Active)

(* No connection holds more than its share of the slots, and every slot    *)
(* holds a list that fits it.                                              *)
SharesKept ==
    /\ \A c \in Conns : Cardinality(SlotsOf(c)) <= MaxPerConn
    /\ \A i \in Slots : Len(subs[i].filters) <= MaxFilters

(* The table the slots stand for. *)
Table ==
    [k \in Conns \X SubIds |->
        IF Exists(k[1], k[2])
        THEN subs[CHOOSE i \in Active : Named(k[1], k[2], i)].filters
        ELSE Nobody]

Abstract == INSTANCE SubTable WITH
    table <- Table, FilterLists <- {Capped(fs) : fs \in Requests},
    NoFilters <- <<>>, Absent <- Nobody

(* The slots implement the table: every call acts on the one subscription  *)
(* it names, or on those of the one connection, and on no other.           *)
ImplementsTable == Abstract!Spec

=============================================================================
