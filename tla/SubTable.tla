------------------------------ MODULE SubTable ------------------------------
(***************************************************************************)
(* What the subscription manager promises: a table that gives each         *)
(* subscription, named by its connection and its id, the filters of the    *)
(* last REQ that was accepted for it.  It says nothing of slots, of the    *)
(* order they are searched in or of the running count.                     *)
(***************************************************************************)
EXTENDS Integers, FiniteSets

CONSTANTS
    Conns,          \* connections (socket descriptors)
    SubIds,         \* subscription ids
    FilterLists,    \* lists of filters
    NoFilters,      \* the empty list
    Absent,         \* no such subscription
    MaxTotal,       \* subscriptions in all
    MaxPerConn      \* subscriptions of one connection

VARIABLE table

Keys == Conns \X SubIds

Present == {k \in Keys : table[k] # Absent}

Init == table = [k \in Keys |-> Absent]

(* The filters of a subscription are replaced. *)
Replace(k, fs) ==
    /\ k \in Present
    /\ table' = [table EXCEPT ![k] = fs]

HasRoom(k) ==
    /\ Cardinality(Present) < MaxTotal
    /\ Cardinality({p \in Present : p[1] = k[1]}) < MaxPerConn

(* A subscription is added if there is room for it. *)
Open(k, fs) ==
    /\ k \notin Present
    /\ HasRoom(k)
    /\ table' = [table EXCEPT ![k] = fs]

(* A replacement that runs out of memory leaves the subscription with no   *)
(* filter at all; nothing else is lost by a failure.                       *)
Starve(k) == Replace(k, NoFilters)

Close(k) ==
    /\ k \in Present
    /\ table' = [table EXCEPT ![k] = Absent]

(* All subscriptions of a connection go when it is closed. *)
Disconnect(c) ==
    table' = [k \in Keys |-> IF k[1] = c THEN Absent ELSE table[k]]

Next ==
    \/ \E k \in Keys :
        \/ \E fs \in FilterLists : Replace(k, fs) \/ Open(k, fs)
        \/ Starve(k)
        \/ Close(k)
    \/ \E c \in Conns : Disconnect(c)

Spec == Init /\ [][Next]_table

=============================================================================
