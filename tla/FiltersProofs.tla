--------------------------- MODULE FiltersProofs ---------------------------
(***************************************************************************)
(* The test of a query on the index entry against the test on the event.   *)
(***************************************************************************)
EXTENDS Filters, TLAPS

(* A number below the modulus is its own remainder. *)
LEMMA SmallRemainder ==
    ASSUME NEW n \in Nat, NEW m \in Nat \ {0}, n < m
    PROVE  n % m = n
OBVIOUS

(* Ids, and keys, that share all digits are the same. *)
LEMMA SameId ==
    ASSUME NEW x \in Events, NEW y \in Events, Shared[<<x, y>>] >= HexDigits
    PROVE  x = y
<1>1. Shared[<<x, y>>] \in 0 .. HexDigits /\ HexDigits \in Nat
  BY DigitsAssumption
<1>2. Shared[<<x, y>>] = HexDigits
  BY <1>1
<1> QED
  BY <1>2, DigitsAssumption

LEMMA SameAuthor ==
    ASSUME NEW x \in Authors, NEW y \in Authors, Shared[<<x, y>>] >= HexDigits
    PROVE  x = y
<1>1. Shared[<<x, y>>] \in 0 .. HexDigits /\ HexDigits \in Nat
  BY DigitsAssumption
<1>2. Shared[<<x, y>>] = HexDigits
  BY <1>1
<1> QED
  BY <1>2, DigitsAssumption

(* index_matches_filter, which runs first and sees 32 bits of the times    *)
(* and four bytes of the author's key, turns away no event that            *)
(* nostr_filter_matches lets through, for a filter of complete ids, keys   *)
(* of at least eight digits and times that fit 32 bits.                    *)
THEOREM IndexLosesNothing ==
    ASSUME NEW f \in Filter, NEW e \in Events,
           Exact(f), Data[e].created < U32, FilterMatches(f, e)
    PROVE  IndexMatchesFilter(e, f)
<1>1. Data[e].author \in Authors /\ Data[e].created \in Nat /\ f.since \in Nat /\ f.until \in Nat
  BY DataAssumption DEF Filter
<1>2. Data[e].created % U32 = Data[e].created
  BY <1>1, SmallRemainder, WidthAssumption
<1>3. f.since % U32 = f.since /\ f.until % U32 = f.until
  BY <1>1, SmallRemainder, WidthAssumption DEF Exact
<1>4. /\ f.since > 0 => Data[e].created % U32 >= f.since % U32
      /\ f.until > 0 => Data[e].created % U32 <= f.until % U32
  BY <1>2, <1>3 DEF FilterMatches
<1>5. ASSUME f.ids # {}
      PROVE  \E p \in f.ids : p.len = HexDigits /\ p.of = e
  <2>1. PICK p \in f.ids : Shared[<<p.of, e>>] >= p.len
    BY <1>5 DEF FilterMatches
  <2>2. p.len = HexDigits /\ p.of \in Events
    BY <2>1 DEF Exact, Filter, Prefix
  <2>3. p.of = e
    BY <2>1, <2>2, SameId
  <2> QED
    BY <2>2, <2>3
<1>6. ASSUME f.authors # {}
      PROVE  \E p \in f.authors : p.len >= IndexDigits /\ Shared[<<p.of, Data[e].author>>] >= IndexDigits
  <2>1. PICK p \in f.authors : Shared[<<p.of, Data[e].author>>] >= p.len
    BY <1>6 DEF FilterMatches
  <2>2. p.len >= IndexDigits /\ p.of \in Authors /\ p.len \in Nat
    BY <2>1, DigitsAssumption DEF Exact, Filter, Prefix
  <2>3. Shared[<<p.of, Data[e].author>>] \in Nat /\ IndexDigits \in Nat
    BY <1>1, <2>2, DigitsAssumption
  <2>4. Shared[<<p.of, Data[e].author>>] >= IndexDigits
    BY <2>1, <2>2, <2>3
  <2> QED
    BY <2>2, <2>4
<1>7. f.kinds # {} => Data[e].kind \in f.kinds
  BY DEF FilterMatches
<1> QED
  BY <1>4, <1>5, <1>6, <1>7 DEF IndexMatchesFilter

=============================================================================
