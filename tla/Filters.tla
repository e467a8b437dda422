------------------------------ MODULE Filters ------------------------------
(***************************************************************************)
(* Events, filters and the two tests a query makes: index_matches_filter   *)
(* on the 52-byte index entry (main/storage_engine.c), and                 *)
(* nostr_filter_matches of libnostr on the event read back from its file.  *)
(* The broadcast makes only the second.                                    *)
(*                                                                         *)
(* An event is its id.  A hexadecimal string a client sends is a prefix of *)
(* some id or key, and strings are compared by the number of leading       *)
(* digits they share.                                                      *)
(***************************************************************************)
EXTENDS Integers, FiniteSets

CONSTANTS
    Events,         \* event ids
    Authors,        \* public keys
    Data,           \* the fields of each event
    Shared,         \* leading digits that two ids or keys share
    HexDigits,      \* digits of an id or a key (64)
    IndexDigits,    \* digits of a key that an index entry keeps (8)
    U32,            \* 2^32
    U16,            \* 2^16
    DefaultLimit,   \* limit of a filter that has none (100)
    MaxLimit        \* largest limit of a query (500)

ASSUME DigitsAssumption ==
    /\ HexDigits \in Nat
    /\ IndexDigits \in 0 .. HexDigits
    /\ \A x, y \in Events : Shared[<<x, y>>] \in 0 .. HexDigits
    /\ \A x, y \in Authors : Shared[<<x, y>>] \in 0 .. HexDigits
    /\ \A x, y \in Events : Shared[<<x, y>>] = HexDigits <=> x = y
    /\ \A x, y \in Authors : Shared[<<x, y>>] = HexDigits <=> x = y

ASSUME WidthAssumption ==
    /\ U32 \in Nat \ {0}
    /\ U16 \in Nat \ {0}
    /\ DefaultLimit \in Nat
    /\ MaxLimit \in Nat

ASSUME DataAssumption ==
    /\ IsFiniteSet(Events)
    /\ \A e \in Events : Data[e].author \in Authors /\ Data[e].created \in Nat

(* The first len digits of an id or a key. *)
Prefix(S) == [of: S, len: 0 .. HexDigits]

Filter ==
    [ids: SUBSET Prefix(Events), authors: SUBSET Prefix(Authors), kinds: SUBSET Nat,
     since: Nat, until: Nat, limit: Nat]

(* nostr_filter_matches: an empty list and a zero bound ask for nothing.   *)
(* The conditions on tags (e, p and the generic ones) are left out: they   *)
(* only narrow this test, and the index test knows nothing of them.        *)
FilterMatches(f, e) ==
    /\ f.kinds # {} => Data[e].kind \in f.kinds
    /\ f.authors # {} => \E p \in f.authors : Shared[<<p.of, Data[e].author>>] >= p.len
    /\ f.ids # {} => \E p \in f.ids : Shared[<<p.of, e>>] >= p.len
    /\ f.since > 0 => Data[e].created >= f.since
    /\ f.until > 0 => Data[e].created <= f.until

(* nostr_filters_match on a list: no filter matches nothing. *)
FiltersMatch(fs, e) == \E i \in DOMAIN fs : FilterMatches(fs[i], e)

(* Mutant: an event of the time of the bound is left out. *)
IndexMatchesStrictly(e, f) ==
    /\ f.since > 0 => Data[e].created % U32 > f.since % U32
    /\ f.until > 0 => Data[e].created % U32 <= f.until % U32
    /\ f.kinds # {} => Data[e].kind \in f.kinds
    /\ f.ids # {} => \E p \in f.ids : p.len = HexDigits /\ p.of = e

(* index_matches_filter: times are cut to 32 bits, an id must be complete, *)
(* and of a key the first IndexDigits digits must be there and be those of *)
(* the entry.                                                              *)
IndexMatchesFilter(e, f) ==
    /\ f.since > 0 => Data[e].created % U32 >= f.since % U32
    /\ f.until > 0 => Data[e].created % U32 <= f.until % U32
    /\ f.kinds # {} => Data[e].kind \in f.kinds
    /\ f.ids # {} => \E p \in f.ids : p.len = HexDigits /\ p.of = e
    /\ f.authors # {} =>
        \E p \in f.authors :
            p.len >= IndexDigits /\ Shared[<<p.of, Data[e].author>>] >= IndexDigits

(* Mutant: the event read back is not tested. *)
SelectedByIndex(S, f) == {e \in S : IndexMatchesFilter(e, f)}

(* The events of S that a query for f delivers when no limit stops it. *)
Selected(S, f) == {e \in S : IndexMatchesFilter(e, f) /\ FilterMatches(f, e)}

(* The limit handle_req passes on, cut to uint16_t. *)
ReqLimit(f) == IF f.limit > 0 THEN f.limit % U16 ELSE DefaultLimit

(* The limit storage_query_events keeps to. *)
QueryLimit(limit) == IF limit > MaxLimit THEN MaxLimit ELSE limit

(* A filter made of complete ids, keys of at least the digits the index    *)
(* keeps, and times that fit 32 bits.                                      *)
Exact(f) ==
    /\ \A p \in f.ids : p.len = HexDigits
    /\ \A p \in f.authors : p.len >= IndexDigits
    /\ f.since < U32
    /\ f.until < U32

=============================================================================
