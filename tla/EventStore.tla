----------------------------- MODULE EventStore -----------------------------
(***************************************************************************)
(* What the storage engine promises to the rest of the relay: a set of     *)
(* events that gains an event when one is saved and loses events one at a  *)
(* time.  It does not say why one is lost, nor anything of the index, of   *)
(* files, of the copy in NVS or of compaction.  What a boot finds is left  *)
(* open: a power loss may have cost the last events saved.                 *)
(***************************************************************************)
CONSTANT Events

VARIABLES
    stored,     \* the events a query may find
    up          \* the engine is initialised

vars == <<stored, up>>

Init == stored = {} /\ up = FALSE

Boot ==
    /\ ~up
    /\ up' = TRUE
    /\ stored' \in SUBSET Events

Down ==
    /\ up
    /\ up' = FALSE
    /\ stored' = {}

Save(e) ==
    /\ up
    /\ e \notin stored
    /\ stored' = stored \cup {e}
    /\ up' = up

(* A deletion, or the cleanup task or a query that finds the event expired. *)
Delete(e) ==
    /\ up
    /\ e \in stored
    /\ stored' = stored \ {e}
    /\ up' = up

Next ==
    \/ Boot
    \/ Down
    \/ \E e \in Events : Save(e) \/ Delete(e)

Spec == Init /\ [][Next]_vars

=============================================================================
