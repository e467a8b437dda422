-------------------------- MODULE RateLimiterProofs --------------------------
(***************************************************************************)
(* Proofs about RateLimiter: any number of descriptors, types of message   *)
(* and buckets, any limits and any length of the window.                   *)
(***************************************************************************)
EXTENDS RateLimiter, FiniteSetTheorems, SequenceTheorems, TLAPS

(* How a counter n of a window that started at w stands to the history h   *)
(* of its messages, with limit m: the last n of them are in the window,    *)
(* the ones before are earlier, and those more than m before it are        *)
(* earlier by more than a whole window.                                    *)
Fits(h, n, w, m) ==
    /\ n <= Len(h)
    /\ \A k \in 1 .. Len(h) : h[k] < w + Window
    /\ \A k \in 1 .. Len(h) : k + n > Len(h) => h[k] >= w
    /\ \A k \in 1 .. Len(h) : k + n <= Len(h) => h[k] < w
    /\ \A k \in 1 .. Len(h) : k + n + m <= Len(h) => h[k] + Window < w

Spaced(h, m) ==
    \A k \in 1 .. Len(h) : k + 2 * m <= Len(h) => h[k + 2 * m] - h[k] > Window

BucketFits(b) ==
    \A t \in Types : Fits(admitted[b.fd][t], b.count[t], b.window_start, Limit[t])

(* Every bucket of an open connection tells the history of the connection, *)
(* and a descriptor without a bucket has none.                             *)
HistoryKept ==
    /\ \A i \in Active : buckets[i].fd \in open => BucketFits(buckets[i])
    /\ \A fd \in Fds : BucketsOf(fd) = {} => admitted[fd] = NoneAdmitted

AllSpaced == \A fd \in Fds, t \in Types : Spaced(admitted[fd][t], Limit[t])

Inv == TypeOK /\ BucketsAreOwned /\ HistoryKept /\ AllSpaced

-----------------------------------------------------------------------------
(* Windows and histories *)

(* A window that is over can be renewed: what it held is now the past. *)
LEMMA RenewFits ==
    ASSUME NEW h \in Seq(Nat), NEW n \in Nat, NEW w \in Nat, NEW m \in Nat, NEW v \in Nat,
           Fits(h, n, w, m), n <= m, v - w >= Window
    PROVE  Fits(h, 0, v, m)
  <1>1. Len(h) \in Nat /\ \A k \in 1 .. Len(h) : h[k] \in Nat
    OBVIOUS
  <1>2. \A k \in 1 .. Len(h) : h[k] < v
    BY <1>1, RateAssumption DEF Fits
  <1>3. \A k \in 1 .. Len(h) : k + m <= Len(h) => h[k] + Window < v
    <2> SUFFICES ASSUME NEW k \in 1 .. Len(h), k + m <= Len(h)
                 PROVE  h[k] + Window < v
      OBVIOUS
    <2>1. k + n <= Len(h)
      BY <1>1
    <2>2. h[k] < w
      BY <2>1 DEF Fits
    <2> QED
      BY <1>1, <2>2, RateAssumption, SMTT(30)
  <1>4. \A k \in 1 .. Len(h) : h[k] < v + Window
    BY <1>1, <1>2, RateAssumption
  <1>5. 0 <= Len(h) /\ \A k \in 1 .. Len(h) : k + 0 = k /\ k <= Len(h)
    BY <1>1
  <1> QED
    BY <1>1, <1>2, <1>3, <1>4, <1>5 DEF Fits

(* A message let in below the limit of a window that is not over. *)
LEMMA AppendFits ==
    ASSUME NEW h \in Seq(Nat), NEW n \in Nat, NEW w \in Nat, NEW m \in Nat, NEW v \in Nat,
           Fits(h, n, w, m), n < m, w <= v, v - w < Window, Spaced(h, m)
    PROVE  /\ Fits(Append(h, v), n + 1, w, m)
           /\ Spaced(Append(h, v), m)
  <1> DEFINE g == Append(h, v)
  <1>1. /\ Len(h) \in Nat /\ Len(g) = Len(h) + 1
        /\ \A k \in 1 .. Len(h) : h[k] \in Nat /\ g[k] = h[k]
        /\ g[Len(h) + 1] = v
    OBVIOUS
  <1> HIDE DEF g
  <1>2. Fits(g, n + 1, w, m)
    <2>1. n + 1 <= Len(g)
      BY <1>1 DEF Fits
    <2>2. ASSUME NEW k \in 1 .. Len(g)
          PROVE  /\ g[k] < w + Window
                 /\ k + (n + 1) > Len(g) => g[k] >= w
                 /\ k + (n + 1) <= Len(g) => g[k] < w
                 /\ k + (n + 1) + m <= Len(g) => g[k] + Window < w
      <3>1. CASE k = Len(h) + 1
        BY <1>1, <3>1, RateAssumption
      <3>2. CASE k \in 1 .. Len(h)
        <4>1. /\ k + (n + 1) > Len(g) <=> k + n > Len(h)
              /\ k + (n + 1) <= Len(g) <=> k + n <= Len(h)
              /\ k + (n + 1) + m <= Len(g) <=> k + n + m <= Len(h)
          <5>1. Len(h) \in Nat /\ Len(g) = Len(h) + 1
            BY <1>1
          <5> QED
            BY <3>2, <5>1, SMTT(30)
        <4>2. /\ h[k] < w + Window
              /\ k + n > Len(h) => h[k] >= w
              /\ k + n <= Len(h) => h[k] < w
              /\ k + n + m <= Len(h) => h[k] + Window < w
          BY <3>2 DEF Fits
        <4> QED
          BY <1>1, <3>2, <4>1, <4>2
      <3> QED
        BY <1>1, <3>1, <3>2
    <2> QED
      BY <2>1, <2>2 DEF Fits
  <1>3. Spaced(g, m)
    <2> SUFFICES ASSUME NEW k \in 1 .. Len(g), k + 2 * m <= Len(g)
                 PROVE  g[k + 2 * m] - g[k] > Window
      BY DEF Spaced
    <2>1. 2 * m = m + m /\ m > 0 /\ 2 * m \in Nat
      BY Z3
    <2>2. k \in 1 .. Len(h) /\ (k + 2 * m <= Len(h) \/ k + 2 * m = Len(h) + 1)
      <3>1. k \in Int /\ 1 <= k /\ k + (m + m) <= Len(h) + 1
        BY <1>1, <2>1
      <3>0. Len(h) \in Nat
        BY <1>1
      <3>2. k <= Len(h)
        BY <2>1, <3>0, <3>1
      <3>3. k + (m + m) <= Len(h) \/ k + (m + m) = Len(h) + 1
        BY <3>0, <3>1, SMTT(30)
      <3>4. k \in 1 .. Len(h)
        BY <3>0, <3>1, <3>2
      <3> QED
        BY <2>1, <3>3, <3>4, Zenon
    <2>3. CASE k + 2 * m <= Len(h)
      BY <1>1, <2>1, <2>2, <2>3 DEF Spaced
    <2>4. CASE k + 2 * m = Len(h) + 1
      <3>1. k + n + m <= Len(h)
        BY <1>1, <2>1, <2>4
      <3>2. h[k] + Window < w
        BY <2>2, <3>1 DEF Fits
      <3> QED
        BY <1>1, <2>2, <2>4, <3>2, RateAssumption, SMTT(30)
    <2> QED
      BY <2>2, <2>3, <2>4
  <1> QED
    BY <1>2, <1>3 DEF g

LEMMA EmptyFits ==
    ASSUME NEW w \in Nat, NEW m \in Nat
    PROVE  Fits(<<>>, 0, w, m) /\ Spaced(<<>>, m)
  BY DEF Fits, Spaced

-----------------------------------------------------------------------------
(* The bucket of a check *)

(* The bucket a check compares is one of the connection, its window is not *)
(* over and it fits the history, whether it was in use, renewed or free.   *)
LEMMA CurrentBucket ==
    ASSUME Inv, NEW fd \in open, NEW i \in Slots, GetBucket(fd, i)
    PROVE  /\ Current(fd, i) \in Bucket
           /\ Current(fd, i).fd = fd
           /\ Current(fd, i).active = TRUE
           /\ Current(fd, i).window_start <= now
           /\ now - Current(fd, i).window_start < Window
           /\ \A t \in Types : Current(fd, i).count[t] <= Limit[t]
           /\ BucketFits(Current(fd, i))
  <1>1. fd \in Fds /\ now \in Nat /\ Window \in Nat \ {0}
    BY RateAssumption DEF Inv, TypeOK
  <1>2. \A t \in Types : Limit[t] \in Nat /\ admitted[fd][t] \in Seq(Nat)
    BY <1>1, RateAssumption DEF Inv, TypeOK
  <1>3. /\ Fresh(fd) \in Bucket /\ Fresh(fd).fd = fd /\ Fresh(fd).active = TRUE
        /\ Fresh(fd).window_start = now /\ \A t \in Types : Fresh(fd).count[t] = 0
    BY <1>1 DEF Fresh, Bucket
  <1>4. /\ Fresh(fd).window_start <= now /\ now - Fresh(fd).window_start < Window
        /\ \A t \in Types : Fresh(fd).count[t] <= Limit[t]
    BY <1>1, <1>2, <1>3
  <1>5. CASE i \notin Active
    <2>1. BucketsOf(fd) = {}
      BY <1>5 DEF GetBucket, BucketsOf
    <2>2. \A t \in Types : admitted[fd][t] = <<>>
      BY <1>1, <2>1 DEF Inv, HistoryKept, NoneAdmitted
    <2>3. BucketFits(Fresh(fd))
      BY <1>1, <1>2, <1>3, <2>2, EmptyFits DEF BucketFits
    <2>4. Current(fd, i) = Fresh(fd)
      BY <1>5 DEF Current
    <2> QED
      BY <1>3, <1>4, <2>3, <2>4
  <1>6. CASE i \in Active
    <2>1. buckets[i].fd = fd /\ buckets[i].active = TRUE
      BY <1>6 DEF GetBucket, BucketsOf, Active, Inv, TypeOK, Bucket
    <2>2. buckets[i] \in Bucket /\ buckets[i].window_start <= now
          /\ \A t \in Types : buckets[i].count[t] <= Limit[t]
      BY DEF Inv, TypeOK
    <2>3. BucketFits(buckets[i])
      BY <1>6, <2>1 DEF Inv, HistoryKept
    <2>4. buckets[i].window_start \in Nat /\ \A t \in Types : buckets[i].count[t] \in Nat
      BY <2>2 DEF Bucket
    <2>5. CASE WindowOver(i)
      <3>1. now - buckets[i].window_start >= Window
        BY <2>5 DEF WindowOver
      <3>2. ASSUME NEW t \in Types
            PROVE  Fits(admitted[fd][t], 0, now, Limit[t])
        <4>1. Fits(admitted[fd][t], buckets[i].count[t], buckets[i].window_start, Limit[t])
          BY <2>1, <2>3 DEF BucketFits
        <4> QED
          BY <1>1, <1>2, <2>2, <2>4, <3>1, <4>1, RenewFits
      <3>3. BucketFits(Fresh(fd))
        BY <1>3, <3>2 DEF BucketFits
      <3>4. Current(fd, i) = Fresh(fd)
        BY <2>5 DEF Current
      <3> QED
        BY <1>3, <1>4, <3>3, <3>4
    <2>6. CASE ~WindowOver(i)
      <3>1. now - buckets[i].window_start < Window
        BY <1>1, <2>4, <2>6 DEF WindowOver
      <3>2. Current(fd, i) = buckets[i]
        BY <1>6, <2>6 DEF Current
      <3> QED
        BY <2>1, <2>2, <2>3, <3>1, <3>2
    <2> QED
      BY <2>5, <2>6
  <1> QED
    BY <1>5, <1>6

(* The bucket of a check is stored: no other one changes. *)
LEMMA PutBucket ==
    ASSUME Inv, NEW fd \in open, NEW i \in Slots, GetBucket(fd, i),
           NEW b \in Bucket, b.fd = fd, b.active = TRUE,
           buckets' = [buckets EXCEPT ![i] = b], open' = open, early' = early
    PROVE  /\ buckets' \in [Slots -> Bucket]
           /\ buckets'[i] = b
           /\ \A j \in Slots \ {i} : buckets'[j] = buckets[j]
           /\ Active' = Active \cup {i}
           /\ \A j \in Active \ {i} : buckets[j].fd # fd
           /\ \A d \in Fds : BucketsOf(d)' = {} => BucketsOf(d) = {} /\ d # fd
           /\ BucketsAreOwned'
  <1>1. /\ buckets' \in [Slots -> Bucket]
        /\ buckets'[i] = b
        /\ \A j \in Slots \ {i} : buckets'[j] = buckets[j]
    BY DEF Inv, TypeOK
  <1>2. Active' = Active \cup {i}
    BY <1>1 DEF Active
  <1>3. \A j \in Active \ {i} : buckets[j].fd # fd
    BY DEF GetBucket, BucketsOf, Inv, BucketsAreOwned
  <1>4. BucketsAreOwned'
    BY <1>1, <1>2, <1>3 DEF Inv, BucketsAreOwned, Active
  <1>5. ASSUME NEW d \in Fds, BucketsOf(d)' = {}
        PROVE  BucketsOf(d) = {} /\ d # fd
    <2>1. d # fd
      BY <1>1, <1>2, <1>5 DEF BucketsOf
    <2>2. i \notin BucketsOf(d)
      BY <2>1 DEF GetBucket, BucketsOf
    <2> QED
      BY <1>1, <1>2, <1>5, <2>1, <2>2 DEF BucketsOf, Active
  <1> QED
    BY <1>1, <1>2, <1>3, <1>4, <1>5

-----------------------------------------------------------------------------
(* Invariance *)

LEMMA InvInit == Init => Inv
  <1> SUFFICES ASSUME Init PROVE Inv
    OBVIOUS
  <1>1. Unused \in Bucket /\ Unused.active = FALSE /\ Unused.window_start = 0
        /\ \A t \in Types : Unused.count[t] = 0
    BY DEF Unused, Bucket
  <1>2. buckets \in [Slots -> Bucket] /\ \A i \in Slots : buckets[i] = Unused
    BY <1>1 DEF Init
  <1>3. Active = {}
    BY <1>1, <1>2 DEF Active
  <1>4. /\ NoneAdmitted \in [Types -> Seq(Nat)] /\ \A t \in Types : NoneAdmitted[t] = <<>>
        /\ \A fd \in Fds : admitted[fd] = NoneAdmitted
    BY DEF NoneAdmitted, Init
  <1>5. TypeOK
    <2>1. admitted \in [Fds -> [Types -> Seq(Nat)]]
      BY <1>4 DEF Init
    <2>2. /\ now \in Nat /\ open \in SUBSET Fds /\ callback \in BOOLEAN /\ early \in SUBSET Fds
          /\ now = 0
      BY DEF Init
    <2>3. ASSUME NEW i \in Slots
          PROVE  /\ buckets[i].window_start <= now
                 /\ \A t \in Types : buckets[i].count[t] <= Limit[t]
      BY <1>1, <1>2, <2>2, RateAssumption
    <2> QED
      BY <1>2, <2>1, <2>2, <2>3 DEF TypeOK
  <1>6. BucketsAreOwned /\ HistoryKept
    BY <1>3, <1>4 DEF BucketsAreOwned, HistoryKept
  <1>7. AllSpaced
    BY <1>4, EmptyFits, 0 \in Nat, RateAssumption DEF AllSpaced
  <1> QED
    BY <1>5, <1>6, <1>7 DEF Inv

LEMMA InvAdmit ==
    ASSUME Inv, NEW fd \in Fds, NEW t \in Types, Admit(fd, t)
    PROVE  Inv'
  <1>1. PICK i \in Slots :
            /\ GetBucket(fd, i)
            /\ UnderLimit(Current(fd, i), t)
            /\ buckets' = [buckets EXCEPT ![i] = Counted(Current(fd, i), t)]
    BY DEF Admit
  <1>2. fd \in open /\ open' = open /\ now' = now /\ callback' = callback /\ early' = early
    BY DEF Admit
  <1>3. PICK b \in Bucket :
            /\ b = Current(fd, i) /\ b.fd = fd /\ b.active = TRUE
            /\ b.window_start <= now /\ now - b.window_start < Window
            /\ \A u \in Types : b.count[u] <= Limit[u]
            /\ BucketFits(b)
    BY <1>1, <1>2, CurrentBucket
  <1>4. b.count[t] < Limit[t]
    BY <1>1, <1>3 DEF UnderLimit
  <1>5. PICK c \in Bucket :
            /\ c = Counted(b, t) /\ c.fd = fd /\ c.active = TRUE
            /\ c.window_start = b.window_start /\ c.count[t] = b.count[t] + 1
            /\ \A u \in Types \ {t} : c.count[u] = b.count[u]
    <2>1. /\ Counted(b, t) = [fd |-> b.fd, active |-> b.active,
                              count |-> [b.count EXCEPT ![t] = b.count[t] + 1],
                              window_start |-> b.window_start]
          /\ b.count \in [Types -> Nat] /\ b.window_start \in Nat /\ b.fd \in Fds \cup {NoFd}
      BY <1>3 DEF Counted, Bucket
    <2>2. b.count[t] + 1 \in Nat
      BY <2>1
    <2>3. [b.count EXCEPT ![t] = b.count[t] + 1] \in [Types -> Nat]
      BY <2>1, <2>2
    <2>4. Counted(b, t) \in Bucket
      BY <1>3, <2>1, <2>3 DEF Bucket
    <2> QED
      BY <1>3, <2>1, <2>4
  <1>6. buckets' = [buckets EXCEPT ![i] = c]
    BY <1>1, <1>3, <1>5
  <1> DEFINE h == admitted[fd][t]
  <1>7. /\ buckets' \in [Slots -> Bucket]
        /\ buckets'[i] = c
        /\ \A j \in Slots \ {i} : buckets'[j] = buckets[j]
        /\ Active' = Active \cup {i}
        /\ \A j \in Active \ {i} : buckets[j].fd # fd
        /\ \A d \in Fds : BucketsOf(d)' = {} => BucketsOf(d) = {} /\ d # fd
        /\ BucketsAreOwned'
    <2>1. c \in Bucket /\ c.fd = fd /\ c.active = TRUE
      BY <1>5
    <2>2. GetBucket(fd, i)
      BY <1>1
    <2> QED
      BY <1>2, <1>6, <2>1, <2>2, PutBucket, Zenon
  <1>8. /\ h \in Seq(Nat) /\ now \in Nat /\ Limit[t] \in Nat /\ b.window_start \in Nat
        /\ b.count[t] \in Nat
    BY <1>3, RateAssumption DEF Inv, TypeOK, Bucket
  <1>9. /\ admitted' \in [Fds -> [Types -> Seq(Nat)]]
        /\ admitted'[fd][t] = Append(h, now)
        /\ \A u \in Types \ {t} : admitted'[fd][u] = admitted[fd][u]
        /\ \A d \in Fds \ {fd} : admitted'[d] = admitted[d]
    <2>1. admitted \in [Fds -> [Types -> Seq(Nat)]] /\ Append(h, now) \in Seq(Nat)
      BY <1>8 DEF Inv, TypeOK
    <2>2. admitted' = [admitted EXCEPT ![fd] = [admitted[fd] EXCEPT ![t] = Append(h, now)]]
      BY DEF Admit
    <2> HIDE DEF h
    <2> QED
      BY <2>1, <2>2
  <1>10. Fits(h, b.count[t], b.window_start, Limit[t]) /\ Spaced(h, Limit[t])
    BY <1>3 DEF BucketFits, Inv, AllSpaced
  <1>11. /\ Fits(Append(h, now), b.count[t] + 1, b.window_start, Limit[t])
         /\ Spaced(Append(h, now), Limit[t])
    <2> HIDE DEF h
    <2> QED
      BY <1>3, <1>4, <1>8, <1>10, AppendFits
  <1> HIDE DEF h
  <1>12. TypeOK'
    <2>1. c.window_start <= now /\ \A u \in Types : c.count[u] <= Limit[u]
      BY <1>3, <1>4, <1>5, <1>8
    <2> QED
      BY <1>2, <1>7, <1>9, <2>1 DEF Inv, TypeOK
  <1>13. HistoryKept'
    <2>1. BucketFits(c)'
      <3>1. Fits(admitted'[fd][t], c.count[t], c.window_start, Limit[t])
        BY <1>5, <1>9, <1>11
      <3>2. \A u \in Types \ {t} : Fits(admitted'[fd][u], c.count[u], c.window_start, Limit[u])
        BY <1>3, <1>5, <1>9 DEF BucketFits
      <3> QED
        BY <1>5, <3>1, <3>2 DEF BucketFits
    <2>2. ASSUME NEW j \in Active \ {i}, (buckets[j].fd \in open)'
          PROVE  BucketFits(buckets[j])'
      <3>1. buckets[j].fd \in Fds \ {fd} /\ buckets'[j] = buckets[j] /\ buckets[j].fd \in open
        BY <1>2, <1>7, <2>2 DEF Inv, TypeOK, BucketsAreOwned, Active
      <3>2. BucketFits(buckets[j])
        BY <3>1 DEF Inv, HistoryKept
      <3> QED
        BY <1>9, <3>1, <3>2 DEF BucketFits
    <2>3. \A j \in Active' : (buckets[j].fd \in open)' => BucketFits(buckets[j])'
      BY <1>7, <2>1, <2>2
    <2>4. ASSUME NEW d \in Fds, BucketsOf(d)' = {}
          PROVE  admitted'[d] = NoneAdmitted
      BY <1>7, <1>9, <2>4 DEF Inv, HistoryKept
    <2> QED
      BY <2>3, <2>4 DEF HistoryKept, NoneAdmitted
  <1>14. AllSpaced'
    BY <1>9, <1>11 DEF Inv, AllSpaced
  <1> QED
    BY <1>7, <1>12, <1>13, <1>14 DEF Inv

LEMMA InvRefuse ==
    ASSUME Inv, NEW fd \in Fds, NEW t \in Types, Refuse(fd, t)
    PROVE  Inv'
  <1>1. PICK i \in Slots :
            GetBucket(fd, i) /\ buckets' = [buckets EXCEPT ![i] = Current(fd, i)]
    BY DEF Refuse
  <1>2. /\ fd \in open /\ open' = open /\ now' = now /\ admitted' = admitted
        /\ callback' = callback /\ early' = early
    BY DEF Refuse
  <1>3. PICK b \in Bucket :
            /\ b = Current(fd, i) /\ b.fd = fd /\ b.active = TRUE
            /\ b.window_start <= now
            /\ \A u \in Types : b.count[u] <= Limit[u]
            /\ BucketFits(b)
    BY <1>1, <1>2, CurrentBucket
  <1>4. buckets' = [buckets EXCEPT ![i] = b]
    BY <1>1, <1>3
  <1>5. /\ buckets' \in [Slots -> Bucket]
        /\ buckets'[i] = b
        /\ \A j \in Slots \ {i} : buckets'[j] = buckets[j]
        /\ Active' = Active \cup {i}
        /\ \A d \in Fds : BucketsOf(d)' = {} => BucketsOf(d) = {} /\ d # fd
        /\ BucketsAreOwned'
    <2>1. b \in Bucket /\ b.fd = fd /\ b.active = TRUE
      BY <1>3
    <2>2. GetBucket(fd, i)
      BY <1>1
    <2> QED
      BY <1>2, <1>4, <2>1, <2>2, PutBucket, Zenon
  <1>6. TypeOK'
    BY <1>2, <1>3, <1>5 DEF Inv, TypeOK
  <1>7. HistoryKept'
    <2>1. \A j \in Active' : buckets'[j].fd \in open => BucketFits(buckets'[j])
      BY <1>3, <1>5 DEF Inv, HistoryKept, Active
    <2>2. \A j \in Active' : buckets'[j].fd \in open' => BucketFits(buckets[j])'
      BY <1>2, <2>1 DEF BucketFits
    <2> QED
      BY <1>2, <1>5, <2>2 DEF Inv, HistoryKept, NoneAdmitted
  <1>8. AllSpaced'
    BY <1>2 DEF Inv, AllSpaced
  <1> QED
    BY <1>5, <1>6, <1>7, <1>8 DEF Inv

(* A connection that comes has no bucket yet; time that passes and the     *)
(* setting of the callback disturb no bucket.                              *)
LEMMA InvConnectTick ==
    ASSUME Inv, UNCHANGED <<buckets, admitted, early>>,
           open' \in SUBSET Fds, open \subseteq open', open' \cap early \subseteq open,
           now' \in Nat, now <= now', callback' \in BOOLEAN
    PROVE  Inv'
  <1>1. Active' = Active /\ \A d : BucketsOf(d)' = BucketsOf(d)
    BY DEF Active, BucketsOf
  <1>2. TypeOK'
    <2>1. \A i \in Slots : buckets[i].window_start \in Nat /\ now \in Nat
      BY DEF Inv, TypeOK, Bucket
    <2> QED
      BY <2>1 DEF Inv, TypeOK
  <1>3. BucketsAreOwned'
    BY <1>1 DEF Inv, BucketsAreOwned
  <1>4. HistoryKept' /\ AllSpaced'
    <2>1. \A i \in Active : buckets[i].fd \in open' => buckets[i].fd \in open
      BY DEF Inv, BucketsAreOwned
    <2> QED
      BY <1>1, <2>1 DEF Inv, HistoryKept, BucketFits, NoneAdmitted, AllSpaced
  <1> QED
    BY <1>2, <1>3, <1>4 DEF Inv

(* What a close does to the buckets: the one of the connection is free, or *)
(* stays behind with a descriptor that is remembered.                      *)
LEMMA CloseBuckets ==
    ASSUME Inv, NEW fd \in Fds, Disconnect(fd)
    PROVE  /\ buckets' \in [Slots -> Bucket]
           /\ \A i \in Slots : /\ buckets'[i].fd = buckets[i].fd
                                 /\ buckets'[i].count = buckets[i].count
                                 /\ buckets'[i].window_start = buckets[i].window_start
           /\ \A i \in Active' : i \in Active /\ buckets'[i] = buckets[i]
           /\ Active \ BucketsOf(fd) \subseteq Active'
           /\ early \subseteq early' /\ early' \in SUBSET Fds
           /\ \A i \in Active' : i \in BucketsOf(fd) => fd \in early'
  <1>0. buckets \in [Slots -> Bucket] /\ early \in SUBSET Fds
    BY DEF Inv, TypeOK
  <1>1. CASE callback /\ buckets' = Reset(fd) /\ early' = early
    <2> DEFINE Freed == {i \in BucketsOf(fd) : \A j \in BucketsOf(fd) : i <= j}
    <2>1. Freed = BucketsOf(fd)
      <3>1. \A i, j \in BucketsOf(fd) : i = j /\ i \in Int
        BY DEF BucketsOf, Inv, BucketsAreOwned, Active, Slots
      <3> QED
        BY <3>1
    <2>2. /\ buckets' \in [Slots -> Bucket]
          /\ \A i \in BucketsOf(fd) : buckets'[i].active = FALSE
          /\ \A i \in Slots \ BucketsOf(fd) : buckets'[i] = buckets[i]
          /\ \A i \in Slots : /\ buckets'[i].fd = buckets[i].fd
                                /\ buckets'[i].count = buckets[i].count
                                /\ buckets'[i].window_start = buckets[i].window_start
      <3>1. buckets' = [i \in Slots |-> IF i \in Freed THEN [buckets[i] EXCEPT !.active = FALSE]
                                                       ELSE buckets[i]]
        BY <1>1 DEF Reset
      <3>2. \A i \in Slots : buckets[i] \in Bucket
        BY <1>0
      <3>3. BucketsOf(fd) \subseteq Slots
        BY DEF BucketsOf, Active
      <3> HIDE DEF Freed
      <3> QED
        BY <2>1, <3>1, <3>2, <3>3 DEF Bucket
    <2>3. Active' = Active \ BucketsOf(fd) /\ \A i \in Active' : buckets'[i] = buckets[i]
      BY <2>2 DEF Active, BucketsOf
    <2> QED
      BY <1>0, <1>1, <2>2, <2>3
  <1>2. CASE ~callback /\ buckets' = buckets /\ early' = early \cup {fd}
    <2>1. Active' = Active
      BY <1>2 DEF Active
    <2> QED
      BY <1>0, <1>2, <2>1
  <1> QED
    BY <1>1, <1>2 DEF Disconnect

LEMMA InvDisconnect ==
    ASSUME Inv, NEW fd \in Fds, Disconnect(fd)
    PROVE  Inv'
  <1>1. /\ open' = open \ {fd} /\ now' = now /\ callback' = callback
        /\ admitted' = [admitted EXCEPT ![fd] = NoneAdmitted]
    BY DEF Disconnect
  <1>2. /\ buckets' \in [Slots -> Bucket]
        /\ \A i \in Slots : /\ buckets'[i].fd = buckets[i].fd
                              /\ buckets'[i].count = buckets[i].count
                              /\ buckets'[i].window_start = buckets[i].window_start
        /\ \A i \in Active' : i \in Active /\ buckets'[i] = buckets[i]
        /\ Active \ BucketsOf(fd) \subseteq Active'
        /\ early \subseteq early' /\ early' \in SUBSET Fds
        /\ \A i \in Active' : i \in BucketsOf(fd) => fd \in early'
    BY CloseBuckets, Zenon
  <1>3. /\ admitted' \in [Fds -> [Types -> Seq(Nat)]]
        /\ admitted'[fd] = NoneAdmitted
        /\ \A d \in Fds \ {fd} : admitted'[d] = admitted[d]
    <2>1. NoneAdmitted \in [Types -> Seq(Nat)]
      BY DEF NoneAdmitted
    <2> QED
      BY <1>1, <2>1 DEF Inv, TypeOK
  <1>4. TypeOK'
    BY <1>1, <1>2, <1>3 DEF Inv, TypeOK
  <1>5. BucketsAreOwned'
    <2>1. \A i, j \in Active' : buckets'[i].fd = buckets'[j].fd => i = j
      BY <1>2 DEF Inv, BucketsAreOwned
    <2>2. ASSUME NEW i \in Active' PROVE buckets'[i].fd \in open' \cup early'
      BY <1>1, <1>2 DEF Inv, BucketsAreOwned, BucketsOf
    <2> QED
      BY <2>1, <2>2 DEF BucketsAreOwned
  <1>6. HistoryKept'
    <2>1. ASSUME NEW i \in Active', (buckets[i].fd \in open)'
          PROVE  BucketFits(buckets[i])'
      <3>1. buckets[i].fd \in Fds \ {fd} /\ BucketFits(buckets[i]) /\ buckets'[i] = buckets[i]
        BY <1>1, <1>2, <2>1 DEF Inv, TypeOK, HistoryKept
      <3> QED
        BY <1>3, <3>1 DEF BucketFits
    <2>2. ASSUME NEW d \in Fds, BucketsOf(d)' = {}
          PROVE  admitted'[d] = NoneAdmitted
      <3>1. d # fd => BucketsOf(d) = {}
        BY <1>2, <2>2 DEF BucketsOf, Active
      <3> QED
        BY <1>3, <3>1 DEF Inv, HistoryKept
    <2> QED
      BY <2>1, <2>2 DEF HistoryKept, NoneAdmitted
  <1>7. AllSpaced'
    <2>1. \A t \in Types : NoneAdmitted[t] = <<>> /\ Spaced(<<>>, Limit[t])
      BY EmptyFits, 0 \in Nat, RateAssumption DEF NoneAdmitted
    <2> QED
      BY <1>3, <2>1 DEF Inv, AllSpaced
  <1> QED
    BY <1>4, <1>5, <1>6, <1>7 DEF Inv

LEMMA InvStep == Inv /\ [Next]_vars => Inv'
  <1> SUFFICES ASSUME Inv, [Next]_vars PROVE Inv'
    OBVIOUS
  <1>0. open \in SUBSET Fds /\ now \in Nat /\ callback \in BOOLEAN
    BY DEF Inv, TypeOK
  <1>1. ASSUME NEW fd \in Fds, NEW t \in Types, Admit(fd, t) PROVE Inv'
    BY <1>1, InvAdmit
  <1>2. ASSUME NEW fd \in Fds, NEW t \in Types, Refuse(fd, t) PROVE Inv'
    BY <1>2, InvRefuse
  <1>3. ASSUME NEW fd \in Fds, Connect(fd) PROVE Inv'
    BY <1>0, <1>3, InvConnectTick DEF Connect
  <1>4. ASSUME NEW fd \in Fds, Disconnect(fd) PROVE Inv'
    BY <1>4, InvDisconnect
  <1>5. ASSUME Tick PROVE Inv'
    BY <1>0, <1>5, InvConnectTick DEF Tick
  <1>6. ASSUME SetDisconnectCb PROVE Inv'
    BY <1>0, <1>6, InvConnectTick DEF SetDisconnectCb
  <1>7. ASSUME UNCHANGED vars PROVE Inv'
    BY <1>0, <1>7, InvConnectTick DEF vars
  <1> QED
    BY <1>1, <1>2, <1>3, <1>4, <1>5, <1>6, <1>7 DEF Next

LEMMA InvHolds == Spec => []Inv
  BY InvInit, InvStep, PTL DEF Spec

-----------------------------------------------------------------------------
(* There is a bucket for every connection *)

ConnsBounded == Cardinality(open) <= MaxConns

LEMMA ConnsBoundedHolds == Spec => []ConnsBounded
  <1>1. Init => ConnsBounded
    BY FS_EmptySet, RateAssumption DEF Init, ConnsBounded
  <1>2. Inv /\ ConnsBounded /\ [Next]_vars => ConnsBounded'
    <2> SUFFICES ASSUME Inv, ConnsBounded, [Next]_vars PROVE ConnsBounded'
      OBVIOUS
    <2>1. IsFiniteSet(open) /\ Cardinality(open) \in Nat /\ MaxConns \in Nat
      <3>1. open \in SUBSET Fds /\ IsFiniteSet(Fds)
        BY RateAssumption DEF Inv, TypeOK
      <3> QED
        BY <3>1, FS_Subset, FS_CardinalityType, RateAssumption
    <2>2. ASSUME NEW fd \in Fds, Connect(fd) PROVE ConnsBounded'
      <3>1. Cardinality(open \cup {fd}) = Cardinality(open) + 1
        BY <2>1, <2>2, FS_AddElement DEF Connect
      <3> QED
        BY <2>1, <2>2, <3>1 DEF Connect, ConnsBounded
    <2>3. ASSUME NEW fd \in Fds, Disconnect(fd) PROVE ConnsBounded'
      <3>1. Cardinality(open \ {fd}) = Cardinality(open) - 1
        BY <2>1, <2>3, FS_RemoveElement DEF Disconnect
      <3> QED
        BY <2>1, <2>3, <3>1 DEF Disconnect, ConnsBounded
    <2>4. ASSUME open' = open PROVE ConnsBounded'
      BY <2>4 DEF ConnsBounded
    <2> QED
      BY <2>2, <2>3, <2>4 DEF Next, Admit, Refuse, SetDisconnectCb, Tick, vars
  <1> QED
    BY <1>1, <1>2, InvHolds, PTL DEF Spec

Spare == Cardinality(LeftBehind) <= MaxBuckets - MaxConns

(* While a connection has no bucket, one is free: besides the buckets left *)
(* behind there is at most one for each of the other connections.          *)
LEMMA FreeBucket ==
    ASSUME Inv, ConnsBounded, Spare, NEW fd \in open, BucketsOf(fd) = {}
    PROVE  Slots \ Active # {}
  <1> SUFFICES ASSUME Active = Slots PROVE FALSE
    BY DEF Active
  <1> DEFINE Others == open \ {fd}
             Held == Slots \ LeftBehind
             owner == [i \in Held |-> buckets[i].fd]
  <1>1. IsFiniteSet(open) /\ IsFiniteSet(Others) /\ Cardinality(Others) = Cardinality(open) - 1
        /\ Cardinality(open) \in Nat
    <2>1. open \in SUBSET Fds /\ IsFiniteSet(Fds)
      BY RateAssumption DEF Inv, TypeOK
    <2>2. IsFiniteSet(open) /\ Cardinality(open) \in Nat
      BY <2>1, FS_Subset, FS_CardinalityType
    <2> QED
      BY <2>2, FS_RemoveElement
  <1>2. owner \in [Held -> Others] /\ \A i, j \in Held : owner[i] = owner[j] => i = j
    <2>1. \A i \in Held : i \in Active /\ buckets[i].fd \in open /\ buckets[i].fd # fd
      BY DEF LeftBehind, BucketsOf
    <2> QED
      BY <2>1 DEF Inv, BucketsAreOwned
  <1>3. owner \in Injection(Held, Others)
    BY <1>2 DEF Injection, IsInjective
  <1>4. IsFiniteSet(Slots) /\ Cardinality(Slots) = MaxBuckets
    <2>1. 1 \in Int /\ MaxBuckets \in Int
      BY RateAssumption
    <2>2. IsFiniteSet(1 .. MaxBuckets)
          /\ Cardinality(1 .. MaxBuckets) = IF 1 > MaxBuckets THEN 0 ELSE MaxBuckets - 1 + 1
      BY <2>1, FS_Interval, Zenon
    <2> QED
      BY <2>2, RateAssumption DEF Slots
  <1>5. LeftBehind \subseteq Slots
    BY DEF LeftBehind, Active
  <1>6. Cardinality(Held) = Cardinality(Slots) - Cardinality(Slots \cap LeftBehind)
    BY <1>4, FS_Difference
  <1>7. Slots \cap LeftBehind = LeftBehind
    BY <1>5
  <1>8. Cardinality(LeftBehind) \in Nat
    BY <1>4, <1>5, FS_Subset, FS_CardinalityType
  <1> HIDE DEF owner, Others, Held
  <1>9. Cardinality(Held) <= Cardinality(Others)
    BY <1>1, <1>3, FS_Injection, Zenon
  <1>10. Cardinality(Held) = MaxBuckets - Cardinality(LeftBehind)
    BY <1>4, <1>6, <1>7
  <1> QED
    BY <1>1, <1>8, <1>9, <1>10, RateAssumption DEF ConnsBounded, Spare

(* Every set of buckets has a first one. *)
LEMMA FirstSlot ==
    ASSUME NEW S \in SUBSET Slots, S # {}
    PROVE  \E i \in S : \A j \in S : i <= j
  <1>1. S \subseteq Nat
    BY DEF Slots
  <1>2. \E i \in S : \A j \in S : ~(<<j, i>> \in OpToRel(<, Nat))
    BY <1>1, NatLessThanWellFounded, WFMin
  <1>3. PICK i \in S : \A j \in S : ~(<<j, i>> \in OpToRel(<, Nat))
    BY <1>2
  <1>4. \A j \in S : ~(j < i)
    BY <1>1, <1>3 DEF OpToRel
  <1> QED
    BY <1>1, <1>4

-----------------------------------------------------------------------------
(* Theorems *)

(* Counters never exceed their limits. *)
THEOREM RateTypeCorrect == Spec => []TypeOK
  <1>1. Inv => TypeOK
    BY DEF Inv
  <1> QED
    BY <1>1, InvHolds, PTL

(* Each bucket in use is the only one of its connection, which is open or  *)
(* was closed before the disconnect callback was set.                      *)
THEOREM BucketsAreOwnedThm == Spec => []BucketsAreOwned
  <1>1. Inv => BucketsAreOwned
    BY DEF Inv
  <1> QED
    BY <1>1, InvHolds, PTL

(* A connection is let in at most twice its limit in any window. *)
THEOREM TwiceTheLimitThm == Spec => []TwiceTheLimit
  <1>1. Inv => TwiceTheLimit
    <2> SUFFICES ASSUME Inv, NEW fd \in open, NEW t \in Types, NEW k \in DOMAIN admitted[fd][t],
                        k + 2 * Limit[t] \in DOMAIN admitted[fd][t]
                 PROVE  admitted[fd][t][k + 2 * Limit[t]] - admitted[fd][t][k] > Window
      BY DEF TwiceTheLimit
    <2> DEFINE h == admitted[fd][t]
    <2>1. h \in Seq(Nat) /\ Spaced(h, Limit[t])
      BY DEF Inv, TypeOK, AllSpaced
    <2> HIDE DEF h
    <2>2. ASSUME k \in DOMAIN h, k + 2 * Limit[t] \in DOMAIN h
          PROVE  h[k + 2 * Limit[t]] - h[k] > Window
      BY <2>1, <2>2 DEF Spaced
    <2> QED
      BY <2>2 DEF h
  <1> QED
    BY <1>1, InvHolds, PTL

(* A connection is refused only when it has used up its own limit, as long *)
(* as the buckets left behind fit in the spare ones.                       *)
THEOREM RefusedOnlyIfSpentThm == Spec => []RefusedOnlyIfSpent
  <1>1. Inv /\ ConnsBounded => RefusedOnlyIfSpent
    <2> SUFFICES ASSUME Inv, ConnsBounded, Spare, NEW fd \in open, NEW t \in Types,
                        Limit[t] > 0, ~Allowed(fd, t)
                 PROVE  /\ Len(admitted[fd][t]) >= Limit[t]
                        /\ now - admitted[fd][t][Len(admitted[fd][t]) - Limit[t] + 1] < Window
      BY DEF RefusedOnlyIfSpent, Spare
    <2> DEFINE h == admitted[fd][t]
    <2>1. h \in Seq(Nat) /\ Limit[t] \in Nat /\ now \in Nat /\ Window \in Nat
      BY RateAssumption DEF Inv, TypeOK
    <2>2. PICK i \in Slots : GetBucket(fd, i)
      <3>1. CASE BucketsOf(fd) = {}
        BY <3>1, FreeBucket, FirstSlot, Slots \ Active \in SUBSET Slots DEF GetBucket
      <3>2. CASE BucketsOf(fd) # {}
        <4>1. BucketsOf(fd) \in SUBSET Slots
          BY DEF BucketsOf, Active
        <4> QED
          BY <3>2, <4>1, FirstSlot DEF GetBucket
      <3> QED
        BY <3>1, <3>2
    <2>3. PICK b \in Bucket :
              /\ b = Current(fd, i) /\ b.fd = fd /\ b.window_start <= now
              /\ now - b.window_start < Window /\ b.count[t] <= Limit[t]
              /\ Fits(h, b.count[t], b.window_start, Limit[t])
      BY <2>2, CurrentBucket DEF BucketFits
    <2>4. ~(b.count[t] < Limit[t]) /\ b.count[t] \in Nat /\ b.window_start \in Nat
      BY <2>2, <2>3 DEF Allowed, UnderLimit, Bucket
    <2>5. b.count[t] = Limit[t]
      BY <2>1, <2>3, <2>4
    <2> HIDE DEF h
    <2>6. Limit[t] <= Len(h) /\ Len(h) \in Nat
      BY <2>1, <2>3, <2>5 DEF Fits
    <2> DEFINE k == Len(h) - Limit[t] + 1
    <2>7. k \in 1 .. Len(h) /\ k + Limit[t] > Len(h)
      BY <2>1, <2>6
    <2> HIDE DEF k
    <2>8. h[k] >= b.window_start /\ h[k] \in Nat
      BY <2>1, <2>3, <2>5, <2>7 DEF Fits
    <2>9. now - h[k] < Window
      BY <2>1, <2>3, <2>4, <2>8
    <2> QED
      BY <2>6, <2>9 DEF h, k
  <1> QED
    BY <1>1, InvHolds, ConnsBoundedHolds, PTL

=============================================================================
