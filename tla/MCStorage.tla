----------------------------- MODULE MCStorage -----------------------------
(***************************************************************************)
(* Instances of StorageEngine for TLC.                                     *)
(***************************************************************************)
EXTENDS StorageEngine, TLC

CONSTANTS a, b, c, d

(* Interchangeable events: none has an expiration tag. *)
NoTag == [e \in Events |-> 0]

(* One event expires by its NIP-40 tag before the TTL would end it. *)
TagOnA == [e \in Events |-> IF e = a THEN 1 ELSE 0]

Symmetric == Permutations(Events)

=============================================================================
