------------------------------ MODULE MCRelay ------------------------------
(***************************************************************************)
(* An instance of Relay for TLC: two authors whose keys begin with the     *)
(* same eight digits.                                                      *)
(***************************************************************************)
EXTENDS Relay, TLC

CONSTANTS c1, c2, p, q, note, other, page, draft, wipe, kill, flash, forged

Fields(author, kind, created, d) ==
    [author |-> author, kind |-> kind, created |-> created, d |-> d,
     e |-> <<>>, a |-> <<>>, k |-> <<>>, fault |-> "NOSTR_RELAY_OK"]

(* wipe names an event of the other author, a note, a page and the kind of *)
(* deletion requests; kill names no event that there is, and the kind of   *)
(* notes.                                                                  *)
MCData ==
    [e \in Events |->
        CASE e = note   -> Fields(p, 1, 1, "")
          [] e = other  -> Fields(q, 30023, 1, "x")
          [] e = page   -> Fields(p, 30023, 1, "x")
          [] e = draft  -> Fields(p, 30023, 1, "y")
          [] e = wipe   -> [Fields(p, 5, 1, "") EXCEPT !.e = <<other, note>>, !.k = <<"5">>,
                                !.a = <<[kind |-> 30023, author |-> p, d |-> "x"]>>]
          [] e = kill   -> [Fields(p, 5, 2, "") EXCEPT !.e = <<NoEvent>>, !.k = <<"1", "one">>]
          [] e = flash  -> Fields(q, 20001, 3, "")
          [] e = forged -> [Fields(p, 1, 2, "") EXCEPT !.fault = "NOSTR_RELAY_ERR_SIG_MISMATCH"]]

MCShared ==
    [xy \in (Events \X Events) \cup (Authors \X Authors) |->
        IF xy[1] = xy[2] THEN HexDigits ELSE IF xy[1] \in Authors THEN IndexDigits ELSE 0]

MCAtoi == [t \in {"1", "5", "one"} |-> CASE t = "1" -> 1 [] t = "5" -> 5 [] t = "one" -> 0]

MCScanD == [d \in {"", "x"} |-> d]

Symmetric == Permutations(Conns)

Everything == [ids |-> {}, authors |-> {}, kinds |-> {}, since |-> 0, until |-> 0, limit |-> 0]

(* Everything by p up to time 2 and, again, two of the pages; one id, and  *)
(* a key too short for the index with a limit that is 0 in 16 bits.        *)
MCReqs ==
    {<<[Everything EXCEPT !.authors = {[of |-> p, len |-> HexDigits]}, !.until = 2],
       [Everything EXCEPT !.kinds = {30023}, !.limit = 2]>>,
     <<[Everything EXCEPT !.ids = {[of |-> other, len |-> HexDigits]}, !.since = 1],
       [Everything EXCEPT !.authors = {[of |-> q, len |-> IndexDigits - 1]}, !.limit = U16]>>}

NoReqs == {}

=============================================================================
