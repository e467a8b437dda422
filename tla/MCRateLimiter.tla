---------------------------- MODULE MCRateLimiter ----------------------------
(***************************************************************************)
(* Instances of RateLimiter for TLC: one bucket more than connections, and *)
(* enough descriptors for two connections that close early and two that    *)
(* are open.                                                               *)
(***************************************************************************)
EXTENDS RateLimiter, TLC

CONSTANTS EVENT, REQ

OneEach == (EVENT :> 1) @@ (REQ :> 1)

(* The two types have one limit, so they can change places. *)
Symmetric == Permutations(Fds) \cup Permutations(Types)

=============================================================================
