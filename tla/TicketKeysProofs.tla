-------------------------- MODULE TicketKeysProofs --------------------------
(***************************************************************************)
(* Proofs about TicketKeys: the config's set of ticket keys stays sorted   *)
(* and free of doubles, sessions are honoured while their keys live, and   *)
(* promised tickets can be encrypted, for any number of connections, keys  *)
(* and tickets and any lifetimes.                                          *)
(*                                                                         *)
(* The loops and the binary search are recursive functions.  What they     *)
(* compute is shown by induction, as the least counterexample: a solution  *)
(* of the recursive equation exists, and every solution is as claimed.     *)
(***************************************************************************)
EXTENDS TicketKeys, WellFoundedInduction, TLAPS

\* A non-empty set of natural numbers has a least one: proofs by induction below
\* look at the least counterexample.
LEMMA LeastNatural ==
    ASSUME NEW T, T \subseteq Nat, T # {}
    PROVE  \E m \in T : \A k \in T : m <= k
<1> DEFINE R == {ss \in Nat \X Nat : ss[1] < ss[2]}
<1>1. IsWellFoundedOn(R, Nat)
  BY NatLessThanWellFounded DEF OpToRel
<1> HIDE DEF R
<1>2. PICK x \in T : \A y \in T : ~ (<<y, x>> \in R)
  BY <1>1, WFMin, Zenon
<1>3. \A y \in T : ~ (y < x)
  BY <1>2 DEF R
<1> QED
  BY <1>3

----------------------------------------------------------------------------
\* Removal.
LEMMA RemoveAtFacts ==
    ASSUME NEW S, NEW s \in Seq(S), NEW i \in 1 .. Len(s)
    PROVE  /\ RemoveAt(s, i) \in Seq(S)
           /\ Len(RemoveAt(s, i)) = Len(s) - 1
           /\ \A j \in 1 .. Len(s) - 1 :
                 RemoveAt(s, i)[j] = IF j < i THEN s[j] ELSE s[j + 1]
<1> DEFINE a == SubSeq(s, 1, i - 1)
           b == SubSeq(s, i + 1, Len(s))
<1>1. Len(s) \in Nat
  OBVIOUS
<1>2. a \in Seq(S) /\ Len(a) = i - 1 /\ \A j \in 1 .. i - 1 : a[j] = s[j]
  BY <1>1
<1>3. b \in Seq(S) /\ Len(b) = Len(s) - i /\ \A j \in 1 .. Len(s) - i : b[j] = s[i + j]
  BY <1>1
<1>4. RemoveAt(s, i) = a \o b
  BY DEF RemoveAt
<1> HIDE DEF a, b
<1>5. a \o b \in Seq(S) /\ Len(a \o b) = Len(s) - 1
  <2>1. a \in Seq(S) /\ b \in Seq(S) /\ Len(a) + Len(b) = Len(s) - 1
    BY <1>1, <1>2, <1>3
  <2> QED
    BY <2>1
<1>6. \A j \in 1 .. Len(s) - 1 : (a \o b)[j] = IF j < i THEN s[j] ELSE s[j + 1]
  <2> TAKE j \in 1 .. Len(s) - 1
  <2>1. CASE j < i
    BY <2>1, <1>1, <1>2, <1>3
  <2>2. CASE ~(j < i)
    <3>1. (a \o b)[j] = b[j - (i - 1)]
      BY <2>2, <1>1, <1>2, <1>3
    <3>2. j - (i - 1) \in 1 .. Len(s) - i /\ i + (j - (i - 1)) = j + 1
      BY <2>2, <1>1
    <3> QED
      BY <3>1, <3>2, <1>3, <2>2
  <2> QED
    BY <2>1, <2>2
<1> QED
  BY <1>4, <1>5, <1>6

\* Insertion.
LEMMA InsertAtFacts ==
    ASSUME NEW S, NEW s \in Seq(S), NEW e \in S, NEW i \in 1 .. Len(s) + 1
    PROVE  /\ InsertAt(s, i, e) \in Seq(S)
           /\ Len(InsertAt(s, i, e)) = Len(s) + 1
           /\ \A j \in 1 .. Len(s) + 1 :
                 InsertAt(s, i, e)[j] = IF j < i THEN s[j] ELSE IF j = i THEN e ELSE s[j - 1]
<1> DEFINE a == SubSeq(s, 1, i - 1)
           b == SubSeq(s, i, Len(s))
           ae == a \o <<e>>
<1>1. Len(s) \in Nat
  OBVIOUS
<1>2. a \in Seq(S) /\ Len(a) = i - 1 /\ \A j \in 1 .. i - 1 : a[j] = s[j]
  BY <1>1
<1>3. b \in Seq(S) /\ Len(b) = Len(s) - i + 1 /\ \A j \in 1 .. Len(s) - i + 1 : b[j] = s[i + j - 1]
  BY <1>1
<1>4. InsertAt(s, i, e) = ae \o b
  BY DEF InsertAt
<1> HIDE DEF a, b
<1>5. ae \in Seq(S) /\ Len(ae) = i /\ ae[i] = e /\ \A j \in 1 .. i - 1 : ae[j] = s[j]
  BY <1>1, <1>2
<1> HIDE DEF ae
<1>6. ae \o b \in Seq(S) /\ Len(ae \o b) = Len(s) + 1
  BY <1>1, <1>3, <1>5
<1>7. \A j \in 1 .. Len(s) + 1 :
         (ae \o b)[j] = IF j < i THEN s[j] ELSE IF j = i THEN e ELSE s[j - 1]
  <2> TAKE j \in 1 .. Len(s) + 1
  <2>1. CASE j <= i
    BY <2>1, <1>1, <1>3, <1>5
  <2>2. CASE j > i
    <3>1. (ae \o b)[j] = b[j - i]
      BY <2>2, <1>1, <1>3, <1>5
    <3>2. j - i \in 1 .. Len(s) - i + 1 /\ i + (j - i) - 1 = j - 1
      BY <2>2, <1>1
    <3> QED
      BY <3>1, <3>2, <1>3, <2>2
  <2>3. j <= i \/ j > i
    BY <1>1
  <2> QED
    BY <2>1, <2>2, <2>3, Zenon
<1> QED
  BY <1>4, <1>6, <1>7

----------------------------------------------------------------------------
(***************************************************************************)
(* The set of keys.                                                        *)
(***************************************************************************)

\* KeysInOrder, of any sequence of keys and set of hashes.
GoodKeys(keys, hashes) ==
    /\ keys \in Seq(TicketKey)
    /\ \A i, j \in 1 .. Len(keys) :
          i # j => keys[i].name # keys[j].name /\ keys[i].key # keys[j].key
    /\ \A i \in 1 .. Len(keys) : keys[i].key \in hashes
    /\ \A i, j \in 1 .. Len(keys) : i < j => keys[i].intro <= keys[j].intro

\* No key of `keys` that is alive at time t is missing in `rest`.
KeepsLive(keys, rest, t) ==
    \A i \in 1 .. Len(keys) : t < Expiry(keys[i]) => \E j \in 1 .. Len(rest) : rest[j] = keys[i]

\* Keys have a time of introduction and an expiry.
LEMMA KeyTimes ==
    ASSUME NEW k \in TicketKey
    PROVE  k.intro \in Nat /\ EncryptEnd(k) \in Nat /\ Expiry(k) \in Nat /\ EncryptEnd(k) <= Expiry(k)
BY TicketKeysAssumption DEF TicketKey, Time, EncryptEnd, Expiry

\* KeepsLive is transitive.
LEMMA KeepsLiveTrans ==
    ASSUME NEW t \in Nat, NEW a, NEW b, NEW c, KeepsLive(a, b, t), KeepsLive(b, c, t)
    PROVE  KeepsLive(a, c, t)
<1> SUFFICES ASSUME NEW i \in 1 .. Len(a), t < Expiry(a[i])
             PROVE  \E j \in 1 .. Len(c) : c[j] = a[i]
  BY DEF KeepsLive
<1>1. PICK j \in 1 .. Len(b) : b[j] = a[i]
  BY DEF KeepsLive
<1> QED
  BY <1>1 DEF KeepsLive

\* Removing an expired key leaves the others as they were.
LEMMA RemoveExpired ==
    ASSUME NEW keys, NEW hashes, GoodKeys(keys, hashes), NEW t \in Nat,
           NEW i \in 1 .. Len(keys), t >= Expiry(keys[i])
    PROVE  /\ GoodKeys(RemoveAt(keys, i), hashes)
           /\ Len(RemoveAt(keys, i)) = Len(keys) - 1
           /\ KeepsLive(keys, RemoveAt(keys, i), t)
<1> DEFINE r == RemoveAt(keys, i)
<1>1. keys \in Seq(TicketKey) /\ Len(keys) \in Nat
  BY DEF GoodKeys
<1>2. /\ r \in Seq(TicketKey)
      /\ Len(r) = Len(keys) - 1
      /\ \A j \in 1 .. Len(keys) - 1 : r[j] = IF j < i THEN keys[j] ELSE keys[j + 1]
  BY <1>1, RemoveAtFacts
<1> HIDE DEF r
<1>3. GoodKeys(r, hashes)
  <2> DEFINE e == [j \in 1 .. Len(r) |-> IF j < i THEN j ELSE j + 1]
  <2>1. \A j \in 1 .. Len(r) : e[j] \in 1 .. Len(keys) /\ r[j] = keys[e[j]]
    BY <1>1, <1>2
  <2>2. \A j, k \in 1 .. Len(r) : (j < k => e[j] < e[k]) /\ (j # k => e[j] # e[k])
    BY <1>1, <1>2
  <2> HIDE DEF e
  <2>3. \A j, k \in 1 .. Len(r) :
           j # k => r[j].name # r[k].name /\ r[j].key # r[k].key
    <3> TAKE j, k \in 1 .. Len(r)
    <3> HAVE j # k
    <3>1. e[j] \in 1 .. Len(keys) /\ e[k] \in 1 .. Len(keys) /\ e[j] # e[k]
      BY <2>1, <2>2
    <3>2. r[j] = keys[e[j]] /\ r[k] = keys[e[k]]
      BY <2>1
    <3>3. keys[e[j]].name # keys[e[k]].name /\ keys[e[j]].key # keys[e[k]].key
      BY <3>1 DEF GoodKeys
    <3> QED
      BY <3>2, <3>3
  <2>4. \A j \in 1 .. Len(r) : r[j].key \in hashes
    BY <2>1 DEF GoodKeys
  <2>5. \A j, k \in 1 .. Len(r) : j < k => r[j].intro <= r[k].intro
    BY <2>1, <2>2, SMTT(30) DEF GoodKeys
  <2> QED
    BY <1>2, <2>3, <2>4, <2>5 DEF GoodKeys
<1>4. KeepsLive(keys, r, t)
  <2> SUFFICES ASSUME NEW j \in 1 .. Len(keys), t < Expiry(keys[j])
               PROVE  \E k \in 1 .. Len(r) : r[k] = keys[j]
    BY DEF KeepsLive
  <2>1. j # i
    <3>1. Expiry(keys[i]) \in Nat
      BY <1>1, KeyTimes
    <3> QED
      BY <3>1
  <2>2. CASE j < i
    BY <2>2, <1>1, <1>2
  <2>3. CASE j > i
    <3>1. j - 1 \in 1 .. Len(r) /\ r[j - 1] = keys[j]
      BY <2>3, <1>1, <1>2
    <3> QED
      BY <3>1
  <2> QED
    BY <2>1, <2>2, <2>3, <1>1
<1> QED
  BY <1>2, <1>3, <1>4 DEF r

----------------------------------------------------------------------------
(***************************************************************************)
(* Wiping what has expired.                                                *)
(***************************************************************************)

\* The equation of the loop that collects the indices of expired keys.
IsCollect(keys, t, c, n) ==
    c = [i \in 0 .. n |-> IF i = 0 THEN << >>
                          ELSE IF t >= Expiry(keys[i]) THEN Append(c[i - 1], i)
                          ELSE c[i - 1]]

CollectStep(keys, t, prev, i) == IF t >= Expiry(keys[i]) THEN Append(prev, i) ELSE prev

\* The loop that collects has a result, whatever the number of keys.
LEMMA CollectExists ==
    ASSUME NEW keys, NEW t, NEW N \in Nat
    PROVE  \E c : IsCollect(keys, t, c, N)
<1> DEFINE T == {n \in 0 .. N : ~ \E c : IsCollect(keys, t, c, n)}
<1>1. SUFFICES ASSUME T # {} PROVE FALSE
  OBVIOUS
<1>2. PICK n \in T : \A k \in T : n <= k
  <2>1. T \subseteq Nat
    OBVIOUS
  <2> HIDE DEF T
  <2> QED
    BY <1>1, <2>1, LeastNatural
<1>3. n \in 0 .. N /\ ~ \E c : IsCollect(keys, t, c, n)
  BY <1>2
<1>4. CASE n = 0
  <2>1. IsCollect(keys, t, [i \in 0 .. 0 |-> << >>], 0)
    BY DEF IsCollect
  <2> QED
    BY <1>3, <1>4, <2>1
<1>5. CASE n # 0
  <2>1. n - 1 \in 0 .. N /\ n - 1 \notin T
    BY <1>2, <1>3, <1>5
  <2>2. PICK g : IsCollect(keys, t, g, n - 1)
    BY <2>1
  <2> DEFINE h == [i \in 0 .. n |-> IF i < n THEN g[i] ELSE CollectStep(keys, t, g[n - 1], n)]
  <2>3. \A i \in 0 .. n : h[i] = IF i = 0 THEN << >>
                                 ELSE IF t >= Expiry(keys[i]) THEN Append(h[i - 1], i)
                                 ELSE h[i - 1]
    <3> TAKE i \in 0 .. n
    <3>1. CASE i < n
      <4>1. h[i] = g[i] /\ i \in 0 .. n - 1
        BY <3>1, <1>3
      <4>2. i # 0 => h[i - 1] = g[i - 1]
        BY <3>1, <1>3
      <4> HIDE DEF h
      <4> QED
        BY <4>1, <4>2, <2>2 DEF IsCollect
    <3>2. CASE i = n
      <4>1. h[i] = CollectStep(keys, t, g[n - 1], n) /\ h[i - 1] = g[n - 1]
        BY <3>2, <1>3, <1>5
      <4> HIDE DEF h
      <4> QED
        BY <4>1, <3>2, <1>5 DEF CollectStep
    <3> QED
      BY <3>1, <3>2, <1>3
  <2>4. h = [i \in 0 .. n |-> h[i]]
    OBVIOUS
  <2>5. IsCollect(keys, t, h, n)
    <3> HIDE DEF h
    <3> QED
      BY <2>3, <2>4 DEF IsCollect
  <2> QED
    BY <2>5, <1>3
<1> QED
  BY <1>4, <1>5

\* The indices collected up to key i: each of an expired key, in order.
Collected(keys, t, c, i) ==
    /\ c \in Seq(1 .. i)
    /\ Len(c) <= i
    /\ \A j \in 1 .. Len(c) : c[j] >= j /\ t >= Expiry(keys[c[j]])
    /\ \A j, k \in 1 .. Len(c) : j < k => c[j] < c[k]

\* The indices of the expired keys come out in order.
LEMMA ExpiredIndicesFacts ==
    ASSUME NEW keys, Len(keys) \in Nat, NEW t
    PROVE  Collected(keys, t, ExpiredIndices(keys, t), Len(keys))
<1> DEFINE N == Len(keys)
<1>1. PICK c : IsCollect(keys, t, c, N) /\ ExpiredIndices(keys, t) = c[N]
  <2>1. \E c : IsCollect(keys, t, c, Len(keys))
    BY CollectExists
  <2> DEFINE cc[i \in 0 .. Len(keys)] ==
               IF i = 0 THEN << >>
               ELSE IF t >= Expiry(keys[i]) THEN Append(cc[i - 1], i)
               ELSE cc[i - 1]
  <2>2. ExpiredIndices(keys, t) = cc[Len(keys)]
    BY Zenon DEF ExpiredIndices
  <2>3. cc = CHOOSE c : IsCollect(keys, t, c, Len(keys))
    BY Zenon DEF IsCollect
  <2> HIDE DEF cc
  <2> QED
    BY <2>1, <2>2, <2>3, Zenon
<1> DEFINE T == {n \in 0 .. N : ~ Collected(keys, t, c[n], n)}
<1>2. SUFFICES ASSUME T # {} PROVE FALSE
  BY <1>1
<1>3. PICK n \in T : \A k \in T : n <= k
  <2>1. T \subseteq Nat
    OBVIOUS
  <2> HIDE DEF T
  <2> QED
    BY <1>2, <2>1, LeastNatural
<1>4. n \in 0 .. N /\ ~ Collected(keys, t, c[n], n)
  BY <1>3
<1>5. CASE n = 0
  <2>1. c[0] = << >>
    BY <1>1 DEF IsCollect
  <2>2. Collected(keys, t, << >>, 0)
    BY DEF Collected
  <2> QED
    BY <1>4, <1>5, <2>1, <2>2
<1>6. CASE n # 0
  <2>1. n - 1 \in 0 .. N /\ n - 1 \notin T
    BY <1>3, <1>4, <1>6
  <2> DEFINE p == c[n - 1]
  <2>2. Collected(keys, t, p, n - 1)
    BY <2>1
  <2>3. c[n] = IF t >= Expiry(keys[n]) THEN Append(p, n) ELSE p
    BY <1>1, <1>4, <1>6 DEF IsCollect
  <2> HIDE DEF p
  <2>4. p \in Seq(1 .. n - 1) /\ p \in Seq(1 .. n) /\ Len(p) \in Nat /\ Len(p) <= n - 1
    BY <2>2, <1>4, <1>6 DEF Collected
  <2>5. \A j \in 1 .. Len(p) : p[j] \in 1 .. n - 1
    BY <2>4
  <2>6. CASE t >= Expiry(keys[n])
    <3> DEFINE q == Append(p, n)
    <3>1. q \in Seq(1 .. n) /\ Len(q) = Len(p) + 1 /\ q[Len(p) + 1] = n
      BY <2>4, <1>4, <1>6
    <3>2. \A j \in 1 .. Len(p) : q[j] = p[j]
      BY <2>4
    <3> HIDE DEF q
    <3>3. \A j \in 1 .. Len(q) : q[j] >= j /\ t >= Expiry(keys[q[j]])
      <4> TAKE j \in 1 .. Len(q)
      <4>1. CASE j \in 1 .. Len(p)
        BY <4>1, <3>2, <2>2 DEF Collected
      <4>2. CASE j = Len(p) + 1
        BY <4>2, <3>1, <2>4, <2>6, <1>4
      <4> QED
        BY <4>1, <4>2, <3>1, <2>4
    <3>4. \A j, k \in 1 .. Len(q) : j < k => q[j] < q[k]
      <4> TAKE j, k \in 1 .. Len(q)
      <4> HAVE j < k
      <4>1. CASE k \in 1 .. Len(p)
        <5>1. j \in 1 .. Len(p)
          BY <4>1, <2>4
        <5> QED
          BY <5>1, <4>1, <3>2, <2>2 DEF Collected
      <4>2. CASE k = Len(p) + 1
        <5>1. j \in 1 .. Len(p)
          BY <4>2, <2>4
        <5> QED
          BY <5>1, <4>2, <3>1, <3>2, <2>5, <1>4
      <4>3. k \in 1 .. Len(p) \/ k = Len(p) + 1
        <5>1. Len(q) = Len(p) + 1 /\ Len(p) \in Nat
          BY <3>1, <2>4
        <5> QED
          BY <5>1
      <4> QED
        BY <4>1, <4>2, <4>3, Zenon
    <3>5. Collected(keys, t, q, n)
      BY <3>1, <3>3, <3>4, <2>4, <1>4 DEF Collected
    <3> QED
      BY <3>5, <2>3, <2>6, <1>4 DEF q
  <2>7. CASE ~(t >= Expiry(keys[n]))
    <3>1. Collected(keys, t, p, n)
      BY <2>2, <2>4, <1>4 DEF Collected
    <3> QED
      BY <3>1, <2>3, <2>7, <1>4
  <2> QED
    BY <2>6, <2>7
<1> QED
  BY <1>5, <1>6

\* The equation of the loop that removes them.
IsWipe(keys, expired, w, n) ==
    w = [j \in 0 .. n |-> IF j = 0 THEN keys ELSE RemoveAt(w[j - 1], expired[j] - (j - 1))]

\* The loop that removes has a result.
LEMMA WipeExists ==
    ASSUME NEW keys, NEW expired, NEW N \in Nat
    PROVE  \E w : IsWipe(keys, expired, w, N)
<1> DEFINE T == {n \in 0 .. N : ~ \E w : IsWipe(keys, expired, w, n)}
<1>1. SUFFICES ASSUME T # {} PROVE FALSE
  OBVIOUS
<1>2. PICK n \in T : \A k \in T : n <= k
  <2>1. T \subseteq Nat
    OBVIOUS
  <2> HIDE DEF T
  <2> QED
    BY <1>1, <2>1, LeastNatural
<1>3. n \in 0 .. N /\ ~ \E w : IsWipe(keys, expired, w, n)
  BY <1>2
<1>4. CASE n = 0
  <2>1. IsWipe(keys, expired, [i \in 0 .. 0 |-> keys], 0)
    BY DEF IsWipe
  <2> QED
    BY <1>3, <1>4, <2>1
<1>5. CASE n # 0
  <2>1. n - 1 \in 0 .. N /\ n - 1 \notin T
    BY <1>2, <1>3, <1>5
  <2>2. PICK g : IsWipe(keys, expired, g, n - 1)
    BY <2>1
  <2> DEFINE h == [i \in 0 .. n |-> IF i < n THEN g[i]
                                    ELSE RemoveAt(g[n - 1], expired[n] - (n - 1))]
  <2>3. \A i \in 0 .. n : h[i] = IF i = 0 THEN keys
                                 ELSE RemoveAt(h[i - 1], expired[i] - (i - 1))
    <3> TAKE i \in 0 .. n
    <3>1. CASE i < n
      <4>1. h[i] = g[i] /\ i \in 0 .. n - 1
        BY <3>1, <1>3
      <4>2. i # 0 => h[i - 1] = g[i - 1]
        BY <3>1, <1>3
      <4> HIDE DEF h
      <4> QED
        BY <4>1, <4>2, <2>2 DEF IsWipe
    <3>2. CASE i = n
      <4>1. h[i] = RemoveAt(g[n - 1], expired[n] - (n - 1)) /\ h[i - 1] = g[n - 1]
        BY <3>2, <1>3, <1>5
      <4> HIDE DEF h
      <4> QED
        BY <4>1, <3>2, <1>5
    <3> QED
      BY <3>1, <3>2, <1>3
  <2>4. h = [i \in 0 .. n |-> h[i]]
    OBVIOUS
  <2>5. IsWipe(keys, expired, h, n)
    <3> HIDE DEF h
    <3> QED
      BY <2>3, <2>4 DEF IsWipe
  <2> QED
    BY <2>5, <1>3
<1> QED
  BY <1>4, <1>5

\* After j removals: what is left is good, nothing alive is gone, and the keys
\* after the last one removed have moved by j.
WipedUpTo(keys, hashes, t, expired, w, j) ==
    /\ GoodKeys(w, hashes)
    /\ Len(w) = Len(keys) - j
    /\ KeepsLive(keys, w, t)
    /\ \A i \in 1 .. Len(keys) : (j > 0 => i > expired[j]) => w[i - j] = keys[i]

\* Wiping the expired keys keeps the set good and every key that is alive.
LEMMA WipeFacts ==
    ASSUME NEW keys, NEW hashes, GoodKeys(keys, hashes), NEW t \in Nat
    PROVE  LET w == s2n_config_wipe_expired_ticket_crypto_keys(keys, t)
           IN  /\ GoodKeys(w, hashes)
               /\ Len(w) <= Len(keys)
               /\ KeepsLive(keys, w, t)
<1> DEFINE expired == ExpiredIndices(keys, t)
           N == Len(expired)
<1>0. keys \in Seq(TicketKey) /\ Len(keys) \in Nat
  BY DEF GoodKeys
<1>1. Collected(keys, t, expired, Len(keys))
  BY <1>0, ExpiredIndicesFacts
<1>2. PICK w : /\ IsWipe(keys, expired, w, N)
               /\ s2n_config_wipe_expired_ticket_crypto_keys(keys, t) = w[N]
  <2>1. \E w : IsWipe(keys, expired, w, N)
    <3>1. N \in Nat
      BY <1>1 DEF Collected
    <3> QED
      BY <3>1, WipeExists
  <2> DEFINE ww[j \in 0 .. Len(ExpiredIndices(keys, t))] ==
               IF j = 0 THEN keys
               ELSE RemoveAt(ww[j - 1], ExpiredIndices(keys, t)[j] - (j - 1))
  <2>2. s2n_config_wipe_expired_ticket_crypto_keys(keys, t) = ww[Len(ExpiredIndices(keys, t))]
    BY Zenon DEF s2n_config_wipe_expired_ticket_crypto_keys
  <2>3. ww = CHOOSE w : IsWipe(keys, ExpiredIndices(keys, t), w, Len(ExpiredIndices(keys, t)))
    BY Zenon DEF IsWipe
  <2> HIDE DEF ww
  <2> QED
    BY <2>1, <2>2, <2>3, Zenon
<1> HIDE DEF expired
<1>3. /\ expired \in Seq(1 .. Len(keys))
      /\ N \in Nat /\ N <= Len(keys)
      /\ \A j \in 1 .. N : expired[j] \in j .. Len(keys) /\ t >= Expiry(keys[expired[j]])
      /\ \A j, k \in 1 .. N : j < k => expired[j] < expired[k]
  BY <1>0, <1>1 DEF Collected
<1> HIDE DEF N
<1> DEFINE T == {j \in 0 .. N : ~ WipedUpTo(keys, hashes, t, expired, w[j], j)}
<1>4. SUFFICES ASSUME T # {} PROVE FALSE
  <2>1. T = {} => WipedUpTo(keys, hashes, t, expired, w[N], N)
    BY <1>3
  <2> QED
    BY <2>1, <1>2, <1>3, <1>0 DEF WipedUpTo
<1>5. PICK n \in T : \A k \in T : n <= k
  <2>1. T \subseteq Nat
    OBVIOUS
  <2> HIDE DEF T
  <2> QED
    BY <1>4, <2>1, LeastNatural
<1>6. n \in 0 .. N /\ ~ WipedUpTo(keys, hashes, t, expired, w[n], n)
  BY <1>5
<1>7. CASE n = 0
  <2>1. w[0] = keys
    BY <1>2, <1>3 DEF IsWipe
  <2>2. WipedUpTo(keys, hashes, t, expired, keys, 0)
    BY <1>0 DEF WipedUpTo, KeepsLive
  <2> QED
    BY <1>6, <1>7, <2>1, <2>2
<1>8. CASE n # 0
  <2>1. n - 1 \in 0 .. N /\ n - 1 \notin T
    BY <1>3, <1>5, <1>6, <1>8
  <2> DEFINE p == w[n - 1]
             x == expired[n] - (n - 1)
             q == RemoveAt(p, x)
  <2>2. WipedUpTo(keys, hashes, t, expired, p, n - 1)
    BY <2>1
  <2>3. w[n] = q
    BY <1>2, <1>3, <1>6, <1>8 DEF IsWipe
  <2> HIDE DEF p
  <2>4. expired[n] \in n .. Len(keys) /\ t >= Expiry(keys[expired[n]])
    BY <1>3, <1>6, <1>8
  <2>5. n - 1 > 0 => expired[n - 1] < expired[n]
    BY <1>3, <1>6, <1>8
  <2>6. GoodKeys(p, hashes) /\ Len(p) = Len(keys) - (n - 1) /\ KeepsLive(keys, p, t)
    BY <2>2 DEF WipedUpTo
  <2>7. x \in 1 .. Len(p) /\ x = expired[n] - (n - 1)
    BY <2>4, <2>6, <1>0, <1>3, <1>6, <1>8, SMTT(30)
  <2>8. p[x] = keys[expired[n]]
    <3>1. expired[n] \in 1 .. Len(keys)
      BY <2>4, <1>0, <1>3, <1>6, <1>8
    <3> QED
      BY <3>1, <2>2, <2>5 DEF WipedUpTo
  <2> HIDE DEF x
  <2>9. GoodKeys(q, hashes) /\ Len(q) = Len(p) - 1 /\ KeepsLive(p, q, t)
    BY <2>4, <2>6, <2>7, <2>8, RemoveExpired
  <2>10. KeepsLive(keys, q, t)
    BY <2>6, <2>9, KeepsLiveTrans
  <2>11. \A i \in 1 .. Len(keys) : (n > 0 => i > expired[n]) => q[i - n] = keys[i]
    <3> SUFFICES ASSUME NEW i \in 1 .. Len(keys), i > expired[n]
                 PROVE  q[i - n] = keys[i]
      BY <1>6, <1>8, <1>3
    <3>1. p \in Seq(TicketKey) /\ Len(p) \in Nat
      BY <2>6 DEF GoodKeys
    <3>2. i - n \in 1 .. Len(p) - 1 /\ ~(i - n < x) /\ i - n + 1 = i - (n - 1)
      BY <2>4, <2>6, <2>7, <1>0, <1>3, <1>6, <1>8, SMTT(30)
    <3>3. q[i - n] = p[i - n + 1]
      BY <3>1, <3>2, <2>7, RemoveAtFacts
    <3>4. n - 1 > 0 => i > expired[n - 1]
      <4> SUFFICES ASSUME n - 1 > 0 PROVE i > expired[n - 1]
        OBVIOUS
      <4>1. expired[n - 1] \in n - 1 .. Len(keys)
        BY <1>3, <1>6
      <4> QED
        BY <4>1, <2>4, <2>5, <1>0, <1>3, <1>6
    <3>5. p[i - (n - 1)] = keys[i]
      BY <3>4, <2>2 DEF WipedUpTo
    <3> QED
      BY <3>2, <3>3, <3>5
  <2>12. Len(q) = Len(keys) - n
    BY <2>6, <2>9, <1>0, <1>3, <1>6
  <2>13. WipedUpTo(keys, hashes, t, expired, q, n)
    <3> HIDE DEF q
    <3> QED
      BY <2>9, <2>10, <2>11, <2>12 DEF WipedUpTo
  <2> QED
    BY <2>3, <2>13, <1>6
<1> QED
  BY <1>7, <1>8

----------------------------------------------------------------------------
(***************************************************************************)
(* Adding a key.                                                           *)
(***************************************************************************)

\* The equation of the search.
Ranges(N) == (0 .. N) \X (-1 .. N - 1)
Mid(r) == r[1] + (r[2] - r[1]) \div 2
IsSearch(keys, k, f) ==
    f = [r \in Ranges(Len(keys)) |->
          IF r[1] > r[2] THEN r[1]
          ELSE IF keys[Mid(r) + 1].intro >= k.intro THEN f[<<r[1], Mid(r) - 1>>]
          ELSE f[<<Mid(r) + 1, r[2]>>]]

\* Where a key belongs: older ones before, the others after.
InsertionPoint(keys, k, p) ==
    /\ p \in 0 .. Len(keys)
    /\ \A q \in 1 .. p : keys[q].intro < k.intro
    /\ \A q \in p + 1 .. Len(keys) : keys[q].intro >= k.intro

\* In a sorted set there is a place for every key.
LEMMA InsertionPointExists ==
    ASSUME NEW keys, NEW hashes, GoodKeys(keys, hashes), NEW k \in TicketKey
    PROVE  \E p : InsertionPoint(keys, k, p)
<1> DEFINE N == Len(keys)
           T == {q \in 0 .. N : q = N \/ keys[q + 1].intro >= k.intro}
<1>1. N \in Nat /\ \A i \in 1 .. N : keys[i].intro \in Nat
  <2>1. keys \in Seq(TicketKey)
    BY DEF GoodKeys
  <2> QED
    BY <2>1, KeyTimes
<1>2. \A i, j \in 1 .. N : i < j => keys[i].intro <= keys[j].intro
  BY DEF GoodKeys
<1>3. k.intro \in Nat
  BY KeyTimes
<1> HIDE DEF N
<1>4. PICK p \in T : \A q \in T : p <= q
  <2>1. T \subseteq Nat /\ N \in T
    BY <1>1
  <2> HIDE DEF T
  <2> QED
    BY <2>1, LeastNatural
<1>5. p \in 0 .. N
  OBVIOUS
<1>6. \A q \in 1 .. p : keys[q].intro < k.intro
  <2> TAKE q \in 1 .. p
  <2>1. q - 1 \in 0 .. N /\ q - 1 \notin T /\ q - 1 # N /\ q \in 1 .. N /\ (q - 1) + 1 = q
    BY <1>1, <1>4, <1>5
  <2> QED
    BY <2>1, <1>1, <1>3
<1>7. \A q \in p + 1 .. N : keys[q].intro >= k.intro
  <2> TAKE q \in p + 1 .. N
  <2>1. p + 1 \in 1 .. N /\ q \in 1 .. N /\ keys[p + 1].intro >= k.intro
    BY <1>1, <1>4, <1>5
  <2>2. p + 1 = q \/ p + 1 < q
    BY <1>1, <1>5
  <2> QED
    BY <2>1, <2>2, <1>1, <1>2, <1>3
<1> QED
  BY <1>5, <1>6, <1>7 DEF InsertionPoint, N

\* The part [low, top] of the search, if the place is p.
Clamp(p, low, top) == IF low > top THEN low
                      ELSE IF p < low THEN low ELSE IF p > top THEN top + 1 ELSE p

\* The half that is kept has the place.
Halves(keys, k, p, low, top, mid) ==
    /\ mid \in low .. top
    /\ mid - 1 \in -1 .. Len(keys) - 1 /\ mid + 1 \in 0 .. Len(keys)
    /\ keys[mid + 1].intro >= k.intro => Clamp(p, low, top) = Clamp(p, low, mid - 1)
    /\ ~(keys[mid + 1].intro >= k.intro) => Clamp(p, low, top) = Clamp(p, mid + 1, top)

\* One step of the search, for a sorted set.
LEMMA ClampStep ==
    ASSUME NEW keys, NEW hashes, GoodKeys(keys, hashes), NEW k \in TicketKey,
           NEW p, InsertionPoint(keys, k, p),
           NEW low \in 0 .. Len(keys), NEW top \in -1 .. Len(keys) - 1, low <= top
    PROVE  Halves(keys, k, p, low, top, low + (top - low) \div 2)
<1> DEFINE N == Len(keys)
           mid == low + (top - low) \div 2
<1>1. N \in Nat /\ \A i \in 1 .. N : keys[i].intro \in Nat
  <2>1. keys \in Seq(TicketKey)
    BY DEF GoodKeys
  <2> QED
    BY <2>1, KeyTimes
<1>2. k.intro \in Nat
  BY KeyTimes
<1>3. mid \in low .. top
  BY <1>1
<1>4. /\ p \in 0 .. N
      /\ \A q \in 1 .. p : keys[q].intro < k.intro
      /\ \A q \in p + 1 .. N : keys[q].intro >= k.intro
  BY DEF InsertionPoint
<1> HIDE DEF mid, N
<1>5. low \in 0 .. N /\ top \in -1 .. N - 1 /\ mid + 1 \in 1 .. N
  BY <1>1, <1>3 DEF N
<1>6. ASSUME keys[mid + 1].intro >= k.intro
      PROVE  p <= mid
  <2> SUFFICES ASSUME p > mid PROVE FALSE
    BY <1>4, <1>5, <1>3, <1>1
  <2>1. mid + 1 \in 1 .. p
    BY <1>4, <1>5, <1>3, <1>1
  <2> QED
    BY <2>1, <1>6, <1>1, <1>2, <1>4, <1>5
<1>7. ASSUME ~(keys[mid + 1].intro >= k.intro)
      PROVE  p > mid
  <2> SUFFICES ASSUME p <= mid PROVE FALSE
    BY <1>4, <1>5, <1>3, <1>1
  <2>1. mid + 1 \in p + 1 .. N
    BY <1>4, <1>5, <1>3, <1>1
  <2> QED
    BY <2>1, <1>7, <1>4
<1>8. p \in Int /\ mid \in Int /\ low \in Int /\ top \in Int /\ N \in Int
  BY <1>1, <1>3, <1>4, <1>5
<1>9. p <= mid => Clamp(p, low, top) = Clamp(p, low, mid - 1)
  BY <1>3, <1>8 DEF Clamp
<1>10. p > mid => Clamp(p, low, top) = Clamp(p, mid + 1, top)
  BY <1>3, <1>8 DEF Clamp
<1>11. mid - 1 \in -1 .. N - 1 /\ mid + 1 \in 0 .. N
  BY <1>3, <1>5, <1>8
<1> QED
  <2>1. Halves(keys, k, p, low, top, mid)
    BY <1>3, <1>6, <1>7, <1>9, <1>10, <1>11 DEF N, Halves
  <2> QED
    BY <2>1 DEF mid

\* The search finds the place.
LEMMA BinarySearchFinds ==
    ASSUME NEW keys, NEW hashes, GoodKeys(keys, hashes), NEW k \in TicketKey
    PROVE  InsertionPoint(keys, k, s2n_set_binary_search(keys, k))
<1> DEFINE N == Len(keys)
<1>1. PICK p : InsertionPoint(keys, k, p)
  BY InsertionPointExists
<1>2. N \in Nat /\ p \in 0 .. N
  BY <1>1 DEF GoodKeys, InsertionPoint
<1>3. \A r \in Ranges(N) : r[1] \in 0 .. N /\ r[2] \in -1 .. N - 1 /\ r = <<r[1], r[2]>>
  BY DEF Ranges
<1>4. ASSUME NEW r \in Ranges(N), ~(r[1] > r[2])
      PROVE  /\ Mid(r) \in r[1] .. r[2]
             /\ <<r[1], Mid(r) - 1>> \in Ranges(N) /\ <<Mid(r) + 1, r[2]>> \in Ranges(N)
             /\ keys[Mid(r) + 1].intro >= k.intro =>
                   Clamp(p, r[1], r[2]) = Clamp(p, r[1], Mid(r) - 1)
             /\ ~(keys[Mid(r) + 1].intro >= k.intro) =>
                   Clamp(p, r[1], r[2]) = Clamp(p, Mid(r) + 1, r[2])
  <2> DEFINE low == r[1]
             top == r[2]
             mid == low + (top - low) \div 2
  <2>1. low \in 0 .. N /\ top \in -1 .. N - 1 /\ low <= top
    BY <1>2, <1>3, <1>4
  <2> HIDE DEF low, top
  <2>2. /\ mid \in low .. top
        /\ mid - 1 \in -1 .. N - 1 /\ mid + 1 \in 0 .. N
        /\ keys[mid + 1].intro >= k.intro => Clamp(p, low, top) = Clamp(p, low, mid - 1)
        /\ ~(keys[mid + 1].intro >= k.intro) => Clamp(p, low, top) = Clamp(p, mid + 1, top)
    <3>1. Halves(keys, k, p, low, top, mid)
      BY <2>1, <1>1, ClampStep, Zenon
    <3> HIDE DEF mid
    <3> QED
      BY <3>1 DEF Halves
  <2>3. Mid(r) = mid
    BY DEF Mid, low, top
  <2> HIDE DEF mid
  <2>4. <<low, mid - 1>> \in Ranges(N) /\ <<mid + 1, top>> \in Ranges(N)
    BY <2>1, <2>2 DEF Ranges
  <2> QED
    BY <2>2, <2>3, <2>4 DEF low, top
<1>5. \E f : IsSearch(keys, k, f)
  <2> DEFINE f == [r \in Ranges(N) |-> Clamp(p, r[1], r[2])]
  <2>1. ASSUME NEW r \in Ranges(N)
        PROVE  Clamp(p, r[1], r[2]) =
                 IF r[1] > r[2] THEN r[1]
                 ELSE IF keys[Mid(r) + 1].intro >= k.intro THEN f[<<r[1], Mid(r) - 1>>]
                 ELSE f[<<Mid(r) + 1, r[2]>>]
    <3>1. CASE r[1] > r[2]
      BY <3>1 DEF Clamp
    <3>2. CASE ~(r[1] > r[2])
      <4> DEFINE a == <<r[1], Mid(r) - 1>>
                 b == <<Mid(r) + 1, r[2]>>
      <4>1. a \in Ranges(N) /\ b \in Ranges(N)
        BY <3>2, <1>4
      <4>2. f[a] = Clamp(p, a[1], a[2]) /\ f[b] = Clamp(p, b[1], b[2])
        <5> HIDE DEF a, b
        <5> QED
          BY <4>1
      <4>3. f[a] = Clamp(p, r[1], Mid(r) - 1) /\ f[b] = Clamp(p, Mid(r) + 1, r[2])
        <5> HIDE DEF f
        <5> QED
          BY <4>2
      <4> HIDE DEF f
      <4> QED
        BY <4>3, <3>2, <1>4
    <3> QED
      BY <3>1, <3>2
  <2>2. \A r \in Ranges(N) : f[r] = IF r[1] > r[2] THEN r[1]
                 ELSE IF keys[Mid(r) + 1].intro >= k.intro THEN f[<<r[1], Mid(r) - 1>>]
                 ELSE f[<<Mid(r) + 1, r[2]>>]
    <3> TAKE r \in Ranges(N)
    <3>1. f[r] = Clamp(p, r[1], r[2])
      OBVIOUS
    <3> HIDE DEF f
    <3> QED
      BY <3>1, <2>1, Zenon
  <2>3. f = [r \in Ranges(N) |-> f[r]]
    OBVIOUS
  <2>4. IsSearch(keys, k, f)
    <3> HIDE DEF f
    <3> QED
      BY <2>2, <2>3 DEF IsSearch
  <2> QED
    BY <2>4, Zenon
<1>6. PICK f : IsSearch(keys, k, f) /\ s2n_set_binary_search(keys, k) = f[<<0, N - 1>>]
  <2> DEFINE ff[r \in (0 .. Len(keys)) \X (-1 .. Len(keys) - 1)] ==
               LET low == r[1]
                   top == r[2]
                   mid == low + (top - low) \div 2
               IN  IF low > top THEN low
                   ELSE IF keys[mid + 1].intro >= k.intro THEN ff[<<low, mid - 1>>]
                   ELSE ff[<<mid + 1, top>>]
  <2>1. s2n_set_binary_search(keys, k) = ff[<<0, Len(keys) - 1>>]
    BY Zenon DEF s2n_set_binary_search
  <2>2. ff = CHOOSE f : IsSearch(keys, k, f)
    BY Zenon DEF IsSearch, Ranges, Mid
  <2> HIDE DEF ff
  <2> QED
    BY <1>5, <2>1, <2>2, Zenon
\* Any function that satisfies the equation is Clamp.
<1> DEFINE Wrong(d) == \E r \in Ranges(N) : r[2] - r[1] + 1 = d /\ f[r] # Clamp(p, r[1], r[2])
           T == {d \in 0 .. N : Wrong(d)}
<1>7. \A r \in Ranges(N) :
         f[r] = IF r[1] > r[2] THEN r[1]
                ELSE IF keys[Mid(r) + 1].intro >= k.intro THEN f[<<r[1], Mid(r) - 1>>]
                ELSE f[<<Mid(r) + 1, r[2]>>]
  BY <1>6 DEF IsSearch
<1>8. T = {}
  <2> SUFFICES ASSUME T # {} PROVE FALSE
    OBVIOUS
  <2>1. PICK d \in T : \A e \in T : d <= e
    <3>1. T \subseteq Nat
      BY <1>2
    <3> HIDE DEF T
    <3> QED
      BY <3>1, LeastNatural
  <2>2. d \in 0 .. N /\ \A e \in 0 .. d - 1 : ~ Wrong(e)
    BY <2>1, <1>2
  <2>3. PICK r \in Ranges(N) : r[2] - r[1] + 1 = d /\ f[r] # Clamp(p, r[1], r[2])
    BY <2>1
  <2>4. r[1] \in 0 .. N /\ r[2] \in -1 .. N - 1
    BY <1>3
  <2>5. CASE d = 0
    <3>1. r[1] > r[2]
      BY <2>3, <2>4, <2>5, <1>2
    <3> QED
      BY <3>1, <2>3, <1>7 DEF Clamp
  <2>6. CASE d # 0
    <3> DEFINE a == <<r[1], Mid(r) - 1>>
               b == <<Mid(r) + 1, r[2]>>
    <3>1. ~(r[1] > r[2])
      BY <2>2, <2>3, <2>4, <2>6, <1>2
    <3>2. /\ Mid(r) \in r[1] .. r[2]
          /\ a \in Ranges(N) /\ b \in Ranges(N)
          /\ keys[Mid(r) + 1].intro >= k.intro =>
                Clamp(p, r[1], r[2]) = Clamp(p, r[1], Mid(r) - 1)
          /\ ~(keys[Mid(r) + 1].intro >= k.intro) =>
                Clamp(p, r[1], r[2]) = Clamp(p, Mid(r) + 1, r[2])
      BY <3>1, <1>4
    <3>3. f[r] = IF keys[Mid(r) + 1].intro >= k.intro THEN f[a] ELSE f[b]
      BY <3>1, <1>7
    <3>4. f[a] = Clamp(p, r[1], Mid(r) - 1)
      <4>1. a[2] - a[1] + 1 \in 0 .. d - 1 /\ a[1] = r[1] /\ a[2] = Mid(r) - 1
        <5>1. a[1] = r[1] /\ a[2] = Mid(r) - 1
          OBVIOUS
        <5>2. r[1] \in Int /\ r[2] \in Int /\ Mid(r) \in r[1] .. r[2] /\ d = r[2] - r[1] + 1
          BY <3>2, <2>3, <2>4, <1>2
        <5> HIDE DEF a
        <5> QED
          BY <5>1, <5>2, SMTT(30)
      <4>2. ~ Wrong(a[2] - a[1] + 1)
        BY <4>1, <2>2
      <4> HIDE DEF a
      <4>3. f[a] = Clamp(p, a[1], a[2])
        BY <4>2, <3>2
      <4> QED
        BY <4>1, <4>3
    <3>5. f[b] = Clamp(p, Mid(r) + 1, r[2])
      <4>1. b[2] - b[1] + 1 \in 0 .. d - 1 /\ b[1] = Mid(r) + 1 /\ b[2] = r[2]
        <5>1. b[1] = Mid(r) + 1 /\ b[2] = r[2]
          OBVIOUS
        <5>2. r[1] \in Int /\ r[2] \in Int /\ Mid(r) \in r[1] .. r[2] /\ d = r[2] - r[1] + 1
          BY <3>2, <2>3, <2>4, <1>2
        <5> HIDE DEF b
        <5> QED
          BY <5>1, <5>2, SMTT(30)
      <4>2. ~ Wrong(b[2] - b[1] + 1)
        BY <4>1, <2>2
      <4> HIDE DEF b
      <4>3. f[b] = Clamp(p, b[1], b[2])
        BY <4>2, <3>2
      <4> QED
        BY <4>1, <4>3
    <3> HIDE DEF a, b
    <3> QED
      BY <3>2, <3>3, <3>4, <3>5, <2>3
  <2> QED
    BY <2>5, <2>6
<1>9. f[<<0, N - 1>>] = p
  <2> DEFINE r == <<0, N - 1>>
  <2>1. r \in Ranges(N) /\ r[1] = 0 /\ r[2] = N - 1 /\ r[2] - r[1] + 1 = N
    BY <1>2 DEF Ranges
  <2>2. ~ Wrong(N)
    BY <1>8, <1>2
  <2> HIDE DEF r
  <2>3. f[r] = Clamp(p, 0, N - 1)
    BY <2>1, <2>2
  <2> QED
    BY <2>3, <1>2 DEF Clamp, r
<1> QED
  BY <1>1, <1>6, <1>9

\* A key added where the search says: the set stays good if its name and its
\* content are new, and it holds all it held.
LEMMA StoreFacts ==
    ASSUME NEW keys, NEW hashes, GoodKeys(keys, hashes), NEW k \in TicketKey,
           \A i \in 1 .. Len(keys) : keys[i].name # k.name,
           k.key \notin hashes
    PROVE  LET s == s2n_config_store_ticket_key(keys, k)
           IN  /\ GoodKeys(s, hashes \cup {k.key})
               /\ Len(s) = Len(keys) + 1
               /\ \A i \in 1 .. Len(keys) : \E j \in 1 .. Len(s) : s[j] = keys[i]
<1> DEFINE N == Len(keys)
           p == s2n_set_binary_search(keys, k)
           x == p + 1
           s == InsertAt(keys, x, k)
<1>1. keys \in Seq(TicketKey) /\ N \in Nat
  BY DEF GoodKeys
<1>2. InsertionPoint(keys, k, p)
  BY BinarySearchFinds
<1>3. s2n_config_store_ticket_key(keys, k) = s
  BY DEF s2n_config_store_ticket_key
<1> HIDE DEF p
<1>4. x \in 1 .. N + 1
  BY <1>1, <1>2 DEF InsertionPoint
<1>5. (\A i \in 1 .. N : i < x => keys[i].intro < k.intro) /\
      (\A i \in 1 .. N : i >= x => keys[i].intro >= k.intro)
  BY <1>1, <1>2 DEF InsertionPoint
<1> HIDE DEF x
<1>6. /\ s \in Seq(TicketKey) /\ Len(s) = N + 1
      /\ \A j \in 1 .. N + 1 : s[j] = IF j < x THEN keys[j] ELSE IF j = x THEN k ELSE keys[j - 1]
  BY <1>1, <1>4, InsertAtFacts
<1> HIDE DEF s
\* From a place in the new sequence to the one in the old.
<1> DEFINE e == [j \in 1 .. N + 1 |-> IF j < x THEN j ELSE j - 1]
<1>7. \A j \in 1 .. N + 1 : j # x => e[j] \in 1 .. N /\ s[j] = keys[e[j]]
  BY <1>1, <1>4, <1>6
<1>8. s[x] = k
  BY <1>4, <1>6
<1>9. \A i, j \in 1 .. N + 1 : i # x /\ j # x =>
         (i < j => e[i] < e[j]) /\ (i # j => e[i] # e[j])
  BY <1>1, <1>4
<1>10. \A j \in 1 .. N + 1 : (j < x => e[j] < x) /\ (j > x => e[j] >= x)
  BY <1>1, <1>4
<1> HIDE DEF e
<1>11. \A i, j \in 1 .. N + 1 : i # j => s[i].name # s[j].name /\ s[i].key # s[j].key
  <2> TAKE i, j \in 1 .. N + 1
  <2> HAVE i # j
  <2>1. CASE i # x /\ j # x
    <3>1. e[i] \in 1 .. N /\ e[j] \in 1 .. N /\ e[i] # e[j]
      BY <2>1, <1>7, <1>9
    <3>2. s[i] = keys[e[i]] /\ s[j] = keys[e[j]]
      BY <2>1, <1>7
    <3>3. keys[e[i]].name # keys[e[j]].name /\ keys[e[i]].key # keys[e[j]].key
      BY <3>1 DEF GoodKeys, N
    <3> QED
      BY <3>2, <3>3
  <2>2. CASE i = x
    <3>1. e[j] \in 1 .. N /\ s[j] = keys[e[j]] /\ s[i] = k
      BY <2>2, <1>7, <1>8
    <3>2. keys[e[j]].name # k.name /\ keys[e[j]].key \in hashes
      BY <3>1 DEF GoodKeys, N
    <3> QED
      BY <3>1, <3>2
  <2>3. CASE j = x
    <3>1. e[i] \in 1 .. N /\ s[i] = keys[e[i]] /\ s[j] = k
      BY <2>3, <1>7, <1>8
    <3>2. keys[e[i]].name # k.name /\ keys[e[i]].key \in hashes
      BY <3>1 DEF GoodKeys, N
    <3> QED
      BY <3>1, <3>2
  <2> QED
    BY <2>1, <2>2, <2>3
<1>12. \A i \in 1 .. N + 1 : s[i].key \in hashes \cup {k.key}
  <2> TAKE i \in 1 .. N + 1
  <2>1. CASE i = x
    BY <2>1, <1>8
  <2>2. CASE i # x
    BY <2>2, <1>7 DEF GoodKeys, N
  <2> QED
    BY <2>1, <2>2
<1>13. \A i, j \in 1 .. N + 1 : i < j => s[i].intro <= s[j].intro
  <2> TAKE i, j \in 1 .. N + 1
  <2> HAVE i < j
  <2>0. s[i].intro \in Nat /\ s[j].intro \in Nat /\ k.intro \in Nat
    <3>1. s[i] \in TicketKey /\ s[j] \in TicketKey
      BY <1>6
    <3> QED
      BY <3>1, KeyTimes
  <2>1. CASE i # x /\ j # x
    <3>1. e[i] \in 1 .. N /\ e[j] \in 1 .. N /\ e[i] < e[j]
      BY <2>1, <1>7, <1>9
    <3>2. s[i] = keys[e[i]] /\ s[j] = keys[e[j]]
      BY <2>1, <1>7
    <3>3. keys[e[i]].intro <= keys[e[j]].intro
      BY <3>1 DEF GoodKeys, N
    <3> QED
      BY <3>2, <3>3
  <2>2. CASE i = x
    <3>1. e[j] \in 1 .. N /\ s[j] = keys[e[j]] /\ s[i] = k /\ e[j] >= x
      BY <2>2, <1>1, <1>4, <1>7, <1>8, <1>10
    <3>2. keys[e[j]].intro >= k.intro
      BY <3>1, <1>5
    <3> QED
      BY <3>1, <3>2, <2>0
  <2>3. CASE j = x
    <3>1. e[i] \in 1 .. N /\ s[i] = keys[e[i]] /\ s[j] = k /\ e[i] < x
      BY <2>3, <1>1, <1>4, <1>7, <1>8, <1>10
    <3>2. keys[e[i]].intro < k.intro
      BY <3>1, <1>5
    <3> QED
      BY <3>1, <3>2, <2>0
  <2> QED
    BY <2>1, <2>2, <2>3
<1>14. \A i \in 1 .. N : \E j \in 1 .. N + 1 : s[j] = keys[i]
  <2> TAKE i \in 1 .. N
  <2>1. CASE i < x
    <3>1. i \in 1 .. N + 1 /\ s[i] = keys[i]
      BY <2>1, <1>1, <1>6
    <3> QED
      BY <3>1
  <2>2. CASE i >= x
    <3>1. i + 1 \in 1 .. N + 1 /\ s[i + 1] = keys[i]
      BY <2>2, <1>1, <1>4, <1>6
    <3> QED
      BY <3>1
  <2> QED
    BY <2>1, <2>2, <1>1, <1>4
<1>15. GoodKeys(s, hashes \cup {k.key})
  BY <1>6, <1>11, <1>12, <1>13 DEF GoodKeys
<1> QED
  BY <1>3, <1>6, <1>14, <1>15

----------------------------------------------------------------------------
(***************************************************************************)
(* Finding a key.                                                          *)
(***************************************************************************)

\* What s2n_find_ticket_key returns: the key of that name if it is alive, and a
\* set that lost nothing that is.  If there is no key, the name is free.
LEMMA FindFacts ==
    ASSUME NEW keys, NEW hashes, GoodKeys(keys, hashes), NEW name, NEW t \in Nat
    PROVE  LET found == s2n_find_ticket_key(keys, name, t)
           IN  /\ GoodKeys(found.keys, hashes)
               /\ Len(found.keys) <= Len(keys)
               /\ KeepsLive(keys, found.keys, t)
               /\ \/ found.key = NoKey
                  \/ \E i \in 1 .. Len(keys) : found.key = keys[i]
               /\ found.key = NoKey =>
                     \A i \in 1 .. Len(found.keys) : found.keys[i].name # name
               /\ \A i \in 1 .. Len(keys) :
                     keys[i].name = name /\ t < Expiry(keys[i]) => found.key = keys[i]
<1> DEFINE N == Len(keys)
           I == {i \in 1 .. Len(keys) : keys[i].name = name}
           i == IF I # {} THEN Min(I) ELSE 0
           r == RemoveAt(keys, i)
           found == s2n_find_ticket_key(keys, name, t)
<1>1. keys \in Seq(TicketKey) /\ N \in Nat
  BY DEF GoodKeys
<1>2. found = IF i = 0 THEN [key |-> NoKey, keys |-> keys]
              ELSE IF t >= Expiry(keys[i]) THEN [key |-> NoKey, keys |-> r]
              ELSE [key |-> keys[i], keys |-> keys]
  BY Zenon DEF s2n_find_ticket_key, SelectInSeq
<1>3. CASE I = {}
  <2>1. i = 0
    BY <1>3
  <2>2. found = [key |-> NoKey, keys |-> keys]
    <3> HIDE DEF i, found
    <3> QED
      BY <1>2, <2>1
  <2> HIDE DEF found
  <2>3. found.key = NoKey /\ found.keys = keys
    BY <2>2
  <2> QED
    BY <2>3, <1>1, <1>3 DEF KeepsLive, found
<1>4. CASE I # {}
  <2>1. i \in I
    <3>1. I \subseteq Nat
      BY <1>1
    <3>2. i = Min(I)
      BY <1>4
    <3> HIDE DEF I
    <3>3. \E m \in I : \A n \in I : m <= n
      BY <3>1, <1>4, LeastNatural
    <3> QED
      BY <3>2, <3>3, Zenon DEF Min
  <2>2. i \in 1 .. N /\ keys[i].name = name /\ i # 0
    <3> HIDE DEF i
    <3> QED
      BY <2>1, <1>1
  <2>3. \A j \in 1 .. N : keys[j].name = name => j = i
    <3> HIDE DEF i
    <3> QED
      BY <2>2 DEF GoodKeys, N
  <2> HIDE DEF i
  <2>4. Expiry(keys[i]) \in Nat
    BY <1>1, <2>2, KeyTimes
  <2>5. CASE t >= Expiry(keys[i])
    <3>1. found = [key |-> NoKey, keys |-> r]
      <4> HIDE DEF found, r
      <4> QED
        BY <1>2, <2>2, <2>5
    <3>2. GoodKeys(r, hashes) /\ Len(r) = N - 1 /\ KeepsLive(keys, r, t)
      BY <2>2, <2>5, RemoveExpired
    <3>3. \A j \in 1 .. N - 1 : r[j] = IF j < i THEN keys[j] ELSE keys[j + 1]
      BY <1>1, <2>2, RemoveAtFacts
    <3> HIDE DEF r, found
    <3>4. \A j \in 1 .. N - 1 : r[j].name # name
      <4> TAKE j \in 1 .. N - 1
      <4> DEFINE l == IF j < i THEN j ELSE j + 1
      <4>1. l \in 1 .. N /\ l # i /\ r[j] = keys[l]
        BY <1>1, <2>2, <3>3
      <4> HIDE DEF l
      <4> QED
        BY <4>1, <2>3
    <3>5. found.key = NoKey /\ found.keys = r
      BY <3>1
    <3>6. \A j \in 1 .. N : ~(keys[j].name = name /\ t < Expiry(keys[j]))
      BY <2>3, <2>4, <2>5
    <3> QED
      BY <3>2, <3>4, <3>5, <3>6, <1>1 DEF found
  <2>6. CASE ~(t >= Expiry(keys[i]))
    <3>1. found = [key |-> keys[i], keys |-> keys]
      <4> HIDE DEF found, r
      <4> QED
        BY <1>2, <2>2, <2>6
    <3> HIDE DEF found
    <3>2. found.key = keys[i] /\ found.keys = keys
      BY <3>1
    <3>3. keys[i] # NoKey
      <4>1. keys[i] \in TicketKey
        BY <1>1, <2>2
      <4> QED
        BY <4>1 DEF TicketKey, NoKey
    <3>4. KeepsLive(keys, keys, t)
      BY DEF KeepsLive
    <3> QED
      BY <3>2, <3>3, <3>4, <2>2, <2>3, <1>1 DEF found
  <2> QED
    BY <2>5, <2>6
<1> QED
  BY <1>3, <1>4

----------------------------------------------------------------------------
(***************************************************************************)
(* The invariant.                                                          *)
(***************************************************************************)

\* The config still knows the key of every ticket that has to be honoured.
TicketsKnown ==
    \A tk \in issued : ~tk.lost /\ now < Expiry(tk.by) =>
        \E i \in 1 .. Len(ticket_keys) : ticket_keys[i] = tk.by

\* A promise was made in the past or just now, and then there is a key for it.
PromisesMade ==
    /\ \A c \in Conn : conn[c].promise <= now
    /\ \A c \in Conn : conn[c].at \in {"KEY_EXCHANGE", "NST"} /\ conn[c].promise = now =>
          \E i \in 1 .. Len(ticket_keys) : Usable(ticket_keys[i], now)

IInv ==
    /\ TypeOK
    /\ KeysInOrder
    /\ TicketsKnown
    /\ Tls12SessionHonoured
    /\ PromisesMade

\* The keys of the config are good in the sense of the lemmas above.
LEMMA GoodKeysIs ==
    ASSUME ticket_keys \in Seq(TicketKey)
    PROVE  KeysInOrder <=> GoodKeys(ticket_keys, ticket_key_hashes)
<1>1. DOMAIN ticket_keys = 1 .. Len(ticket_keys)
  OBVIOUS
<1> QED
  BY <1>1 DEF KeysInOrder, KeysDistinct, OldestFirst, GoodKeys

\* The readings of the clock are in order and none is in the past.
LEMMA ReadingsFacts ==
    ASSUME now \in Time, NEW t \in Readings
    PROVE  /\ t[1] \in Time /\ t[2] \in Time /\ t[3] \in Time
           /\ now <= t[1] /\ t[1] <= t[2] /\ t[2] <= t[3]
BY TicketKeysAssumption DEF Readings, Time

\* What is alive later is alive now.
LEMMA KeepsLiveLater ==
    ASSUME NEW a \in Seq(TicketKey), NEW b, NEW t \in Nat, NEW u \in Nat, t <= u, KeepsLive(a, b, t)
    PROVE  KeepsLive(a, b, u)
<1> SUFFICES ASSUME NEW i \in 1 .. Len(a), u < Expiry(a[i])
             PROVE  \E j \in 1 .. Len(b) : b[j] = a[i]
  BY DEF KeepsLive
<1>1. Expiry(a[i]) \in Nat
  BY KeyTimes
<1> QED
  BY <1>1 DEF KeepsLive

\* A usable key is alive.
LEMMA UsableIsLive ==
    ASSUME NEW k \in TicketKey, NEW t \in Nat, Usable(k, t)
    PROVE  t < Expiry(k)
BY KeyTimes DEF Usable

\* A step that lets time pass and wipes only what has expired, as every step
\* that changes the keys does until they are freed.
KeysStep ==
    /\ ticket_keys' \in Seq(TicketKey) /\ Len(ticket_keys') <= S2N_MAX_TICKET_KEYS
    /\ GoodKeys(ticket_keys', ticket_key_hashes')
    /\ ticket_key_hashes' \subseteq Material
    /\ now' \in Time /\ now <= now'
    /\ KeepsLive(ticket_keys, ticket_keys', now')

\* Such a step keeps the keys in order and the tickets known.
LEMMA KeysStepKnown ==
    ASSUME IInv, KeysStep, issued' = issued
    PROVE  KeysInOrder' /\ TicketsKnown'
<1>1. KeysInOrder'
  <2>1. DOMAIN ticket_keys' = 1 .. Len(ticket_keys')
    BY DEF KeysStep
  <2> QED
    BY <2>1 DEF KeysStep, GoodKeys, KeysInOrder, KeysDistinct, OldestFirst
<1>2. TicketsKnown'
  <2> SUFFICES ASSUME NEW tk \in issued, ~tk.lost, now' < Expiry(tk.by)
               PROVE  \E i \in 1 .. Len(ticket_keys') : ticket_keys'[i] = tk.by
    BY DEF TicketsKnown, Expiry
  <2>1. tk.by \in TicketKey
    BY DEF IInv, TypeOK, Ticket
  <2>2. now < Expiry(tk.by)
    <3>1. Expiry(tk.by) \in Nat
      BY <2>1, KeyTimes
    <3> QED
      BY <3>1 DEF KeysStep, IInv, TypeOK, Time
  <2>3. PICK i \in 1 .. Len(ticket_keys) : ticket_keys[i] = tk.by
    BY <2>2 DEF IInv, TicketsKnown
  <2> QED
    BY <2>3 DEF KeysStep, KeepsLive
<1> QED
  BY <1>1, <1>2

\* ... and the promises, of the connections that it leaves alone.
LEMMA KeysStepPromises ==
    ASSUME IInv, KeysStep, NEW c \in Conn, conn'[c] = conn[c]
    PROVE  /\ conn'[c].promise <= now'
           /\ conn'[c].at \in {"KEY_EXCHANGE", "NST"} /\ conn'[c].promise = now' =>
                 \E i \in 1 .. Len(ticket_keys') : Usable(ticket_keys'[i], now')
<1>1. now \in Nat /\ now' \in Nat /\ now <= now'
  BY DEF KeysStep, IInv, TypeOK, Time
<1>2. conn[c].promise \in Nat /\ conn[c].promise <= now
  BY DEF IInv, TypeOK, ConnState, Time, Never, PromisesMade
<1>3. ASSUME conn[c].at \in {"KEY_EXCHANGE", "NST"}, conn[c].promise = now'
      PROVE  \E i \in 1 .. Len(ticket_keys') : Usable(ticket_keys'[i], now')
  <2>1. now' = now
    BY <1>1, <1>2, <1>3
  <2>2. PICK i \in 1 .. Len(ticket_keys) : Usable(ticket_keys[i], now)
    BY <2>1, <1>3 DEF IInv, PromisesMade
  <2>3. ticket_keys[i] \in TicketKey
    BY DEF IInv, TypeOK
  <2>4. now' < Expiry(ticket_keys[i])
    BY <2>1, <2>2, <2>3, <1>1, UsableIsLive
  <2>5. PICK j \in 1 .. Len(ticket_keys') : ticket_keys'[j] = ticket_keys[i]
    BY <2>4 DEF KeysStep, KeepsLive
  <2> QED
    BY <2>1, <2>2, <2>5
<1> QED
  BY <1>1, <1>2, <1>3

\* Time passing, or nothing, is such a step.
LEMMA KeysSame ==
    ASSUME IInv, UNCHANGED <<ticket_keys, ticket_key_hashes>>, now' \in Time, now <= now'
    PROVE  KeysStep
<1>1. GoodKeys(ticket_keys, ticket_key_hashes)
  BY GoodKeysIs DEF IInv, TypeOK
<1>2. KeepsLive(ticket_keys, ticket_keys, now')
  BY DEF KeepsLive
<1>3. ticket_keys' = ticket_keys /\ ticket_key_hashes' = ticket_key_hashes
  OBVIOUS
<1>4. GoodKeys(ticket_keys', ticket_key_hashes') /\ KeepsLive(ticket_keys, ticket_keys', now')
  BY <1>1, <1>2, <1>3
<1> QED
  BY <1>3, <1>4 DEF KeysStep, IInv, TypeOK

\* The state of a connection after its hello.
LEMMA HelloFacts ==
    ASSUME conn \in [Conn -> ConnState], NEW c \in Conn, NEW version \in Version,
           NEW nst \in BOOLEAN, NEW resumed \in BOOLEAN, NEW due \in BOOLEAN, NEW u \in Time,
           Hello(c, version, nst, resumed, due, u)
    PROVE  /\ conn' \in [Conn -> ConnState]
           /\ \A d \in Conn : d # c => conn'[d] = conn[d]
           /\ conn'[c].version = version
           /\ conn'[c].resumed = resumed
           /\ conn'[c].due = due
           /\ conn'[c].promise \in {u, Never}
           /\ conn'[c].promise = u => version = "TLS12" /\ nst
<1> DEFINE at == IF version = "TLS13" THEN "NST_TLS13"
                 ELSE IF ~resumed THEN "KEY_EXCHANGE" ELSE IF nst THEN "NST" ELSE "DONE"
           promise == IF version = "TLS12" /\ nst THEN u ELSE Never
           r == [at |-> at, version |-> version, nst |-> nst, resumed |-> resumed, due |-> due,
                 promise |-> promise]
<1>1. conn' = [conn EXCEPT ![c] = r]
  BY DEF Hello
<1>2. at \in {"START", "KEY_EXCHANGE", "NST", "NST_TLS13", "DONE", "FAILED"}
  OBVIOUS
<1>3. promise \in Time \cup {Never} /\ promise \in {u, Never}
  OBVIOUS
<1>4. promise = u => version = "TLS12" /\ nst
  BY DEF Time, Never
<1> HIDE DEF at, promise
<1>5. r \in ConnState
  BY <1>2, <1>3 DEF ConnState
<1>6. /\ r.version = version /\ r.resumed = resumed /\ r.due = due /\ r.promise = promise
  OBVIOUS
<1> HIDE DEF r
<1>7. conn' \in [Conn -> ConnState] /\ conn'[c] = r /\ \A d \in Conn : d # c => conn'[d] = conn[d]
  BY <1>1, <1>5
<1> QED
  BY <1>3, <1>4, <1>6, <1>7, Zenon

\* A hello keeps the invariant if the session is resumed when it is due and
\* there is a key for a ticket promised at this moment.
LEMMA HelloInv ==
    ASSUME IInv, KeysStep, issued' = issued, UNCHANGED <<use_tickets, use_session_cache>>,
           NEW c \in Conn, NEW version \in Version,
           NEW nst \in BOOLEAN, NEW resumed \in BOOLEAN, NEW due \in BOOLEAN, NEW u \in Time,
           Hello(c, version, nst, resumed, due, u),
           version = "TLS12" /\ due => resumed,
           u <= now',
           version = "TLS12" /\ nst /\ u = now' =>
              \E i \in 1 .. Len(ticket_keys') : Usable(ticket_keys'[i], now')
    PROVE  IInv'
<1>1. /\ conn' \in [Conn -> ConnState]
      /\ \A d \in Conn : d # c => conn'[d] = conn[d]
      /\ conn'[c].version = version
      /\ conn'[c].resumed = resumed
      /\ conn'[c].due = due
      /\ conn'[c].promise \in {u, Never}
      /\ conn'[c].promise = u => version = "TLS12" /\ nst
  BY HelloFacts DEF IInv, TypeOK
<1>2. TypeOK'
  BY <1>1 DEF IInv, TypeOK, KeysStep
<1>3. KeysInOrder' /\ TicketsKnown'
  BY KeysStepKnown
<1>4. Tls12SessionHonoured'
  <2> SUFFICES ASSUME NEW d \in Conn
               PROVE  conn'[d].version = "TLS12" /\ conn'[d].due => conn'[d].resumed
    BY DEF Tls12SessionHonoured
  <2>1. CASE d = c
    BY <2>1, <1>1, Zenon
  <2>2. CASE d # c
    <3>1. conn'[d] = conn[d]
      BY <2>2, <1>1
    <3>2. conn[d].version = "TLS12" /\ conn[d].due => conn[d].resumed
      BY DEF IInv, Tls12SessionHonoured
    <3> QED
      BY <3>1, <3>2
  <2> QED
    BY <2>1, <2>2
<1>5. ASSUME NEW d \in Conn
      PROVE  /\ conn'[d].promise <= now'
             /\ conn'[d].at \in {"KEY_EXCHANGE", "NST"} /\ conn'[d].promise = now' =>
                   \E i \in 1 .. Len(ticket_keys') : Usable(ticket_keys'[i], now')
  <2>1. CASE d = c
    <3>1. now' \in Nat /\ now' # Never /\ Never <= now'
      BY DEF KeysStep, Time, Never
    <3> QED
      BY <3>1, <2>1, <1>1
  <2>2. CASE d # c
    BY <2>2, <1>1, KeysStepPromises
  <2> QED
    BY <2>1, <2>2
<1>6. PromisesMade'
  BY <1>5 DEF PromisesMade, Usable, EncryptEnd
<1> QED
  BY <1>2, <1>3, <1>4, <1>6 DEF IInv

\* What s2n_find_ticket_key does in a step that ends at time now' or later.
LEMMA FindStep ==
    ASSUME IInv, NEW name, NEW t \in Time, now <= t, t <= now', now' \in Time,
           ticket_keys' = s2n_find_ticket_key(ticket_keys, name, t).keys,
           ticket_key_hashes' = ticket_key_hashes
    PROVE  KeysStep
<1> DEFINE found == s2n_find_ticket_key(ticket_keys, name, t)
<1>1. GoodKeys(ticket_keys, ticket_key_hashes)
  BY GoodKeysIs DEF IInv, TypeOK
<1>2. t \in Nat /\ now \in Nat /\ now' \in Nat
  BY DEF Time, IInv, TypeOK
<1>3. /\ GoodKeys(found.keys, ticket_key_hashes)
      /\ Len(found.keys) <= Len(ticket_keys)
      /\ KeepsLive(ticket_keys, found.keys, t)
  BY <1>1, <1>2, FindFacts
<1>4. ticket_keys' = found.keys
  OBVIOUS
<1> HIDE DEF found
<1>5. KeepsLive(ticket_keys, ticket_keys', now')
  BY <1>2, <1>3, <1>4, KeepsLiveLater DEF IInv, TypeOK
<1>6. ticket_keys' \in Seq(TicketKey)
  BY <1>3, <1>4 DEF GoodKeys
<1>7. Len(ticket_keys') <= S2N_MAX_TICKET_KEYS
  <2>1. Len(ticket_keys') \in Nat /\ Len(ticket_keys) \in Nat /\ Len(ticket_keys) <= S2N_MAX_TICKET_KEYS
    BY <1>6 DEF IInv, TypeOK
  <2> QED
    BY <2>1, <1>3, <1>4, TicketKeysAssumption
<1> QED
  BY <1>2, <1>3, <1>4, <1>5, <1>6, <1>7 DEF KeysStep, IInv, TypeOK

\* The key of an offer that is due is found, and it opens the offer.
LEMMA DueOpens ==
    ASSUME IInv, NEW offer \in issued, NEW t \in Time, now <= t, Due(offer, t)
    PROVE  Opens(s2n_find_ticket_key(ticket_keys, offer.by.name, t), offer)
<1> DEFINE found == s2n_find_ticket_key(ticket_keys, offer.by.name, t)
<1>1. offer.by \in TicketKey /\ t \in Nat /\ now \in Nat
  BY DEF IInv, TypeOK, Ticket, Time
<1>2. ~offer.lost /\ t < Expiry(offer.by) /\ now < Expiry(offer.by)
  BY <1>1, KeyTimes DEF Due
<1>3. PICK i \in 1 .. Len(ticket_keys) : ticket_keys[i] = offer.by
  BY <1>2 DEF IInv, TicketsKnown
<1>4. GoodKeys(ticket_keys, ticket_key_hashes)
  BY GoodKeysIs DEF IInv, TypeOK
<1>5. found.key = ticket_keys[i]
  BY <1>1, <1>2, <1>3, <1>4, FindFacts
<1> HIDE DEF found
<1>6. found.key = offer.by /\ offer.by # NoKey
  BY <1>1, <1>3, <1>5 DEF TicketKey, NoKey
<1>7. Opens(found, offer)
  BY <1>6 DEF Opens
<1> QED
  BY <1>7 DEF found

----------------------------------------------------------------------------
(***************************************************************************)
(* The hellos.                                                             *)
(***************************************************************************)

\* A hello with a ticket.
LEMMA HelloWithTicketInv ==
    ASSUME IInv, NEW c \in Conn, NEW offer \in issued, HelloWithTicket(c, offer)
    PROVE  IInv'
<1> DEFINE F(t) == s2n_find_ticket_key(ticket_keys, offer.by.name, t[1])
           N(t) == /\ Opens(F(t), offer) => t[2] >= EncryptEnd(F(t).key)
                   /\ s2n_config_is_encrypt_decrypt_key_available(F(t).keys, t[3])
<1>1. PICK t \in Readings :
         /\ ticket_keys' = F(t).keys
         /\ Hello(c, "TLS12", N(t), Opens(F(t), offer), Due(offer, t[1]), t[3])
         /\ now' = t[3]
  BY Zenon DEF HelloWithTicket
<1> DEFINE nst == N(t)
           opens == Opens(F(t), offer)
           due == Due(offer, t[1])
<1>2. /\ t[1] \in Time /\ t[2] \in Time /\ t[3] \in Time
      /\ now <= t[1] /\ t[1] <= t[2] /\ t[2] <= t[3]
  BY ReadingsFacts DEF IInv, TypeOK
<1>3. UNCHANGED <<use_tickets, use_session_cache, ticket_key_hashes, issued>>
  BY DEF HelloWithTicket
<1>4. KeysStep
  <2>1. t[1] <= now' /\ now' \in Time
    BY <1>1, <1>2 DEF Time
  <2> QED
    BY <1>1, <1>2, <1>3, <2>1, FindStep
<1>5. nst \in BOOLEAN /\ opens \in BOOLEAN /\ due \in BOOLEAN
  BY DEF Opens, Due
<1>6. due => opens
  BY <1>2, DueOpens
<1>7. nst => \E i \in 1 .. Len(ticket_keys') : Usable(ticket_keys'[i], now')
  <2>1. nst => \E i \in DOMAIN ticket_keys' : Usable(ticket_keys'[i], now')
    BY <1>1 DEF s2n_config_is_encrypt_decrypt_key_available
  <2>2. DOMAIN ticket_keys' = 1 .. Len(ticket_keys')
    BY <1>4 DEF KeysStep
  <2> QED
    BY <2>1, <2>2
<1>8. Hello(c, "TLS12", nst, opens, due, t[3])
  BY <1>1
<1> HIDE DEF nst, opens, due
<1>9. t[3] <= now' /\ "TLS12" \in Version
  BY <1>1, <1>2 DEF Time, Version
<1> QED
  BY <1>2, <1>3, <1>4, <1>5, <1>6, <1>7, <1>8, <1>9, HelloInv

\* A hello without one: the session cache may have an entry.
LEMMA HelloWithoutTicketInv ==
    ASSUME IInv, NEW c \in Conn, NEW asks \in BOOLEAN, NEW entry \in issued \cup {NoTicket},
           HelloWithoutTicket(c, asks, entry)
    PROVE  IInv'
<1> DEFINE F(t) == s2n_find_ticket_key(ticket_keys, entry.by.name, t[2])
           N(t) == /\ use_tickets /\ asks
                   /\ s2n_config_is_encrypt_decrypt_key_available(ticket_keys, t[1])
<1>1. PICK t \in Readings :
         \/ /\ entry = NoTicket
            /\ Hello(c, "TLS12", N(t), FALSE, FALSE, t[1])
            /\ now' = t[1]
            /\ UNCHANGED ticket_keys
         \/ /\ entry # NoTicket
            /\ ticket_keys' = F(t).keys
            /\ Hello(c, "TLS12", N(t), Opens(F(t), entry), Due(entry, t[2]), t[1])
            /\ now' = t[2]
  BY Zenon DEF HelloWithoutTicket
<1> DEFINE nst == N(t)
           opens == Opens(F(t), entry)
           due == Due(entry, t[2])
<1>2. /\ t[1] \in Time /\ t[2] \in Time /\ t[3] \in Time
      /\ now <= t[1] /\ t[1] <= t[2] /\ t[2] <= t[3]
  BY ReadingsFacts DEF IInv, TypeOK
<1>3. UNCHANGED <<use_tickets, use_session_cache, ticket_key_hashes, issued>>
  BY DEF HelloWithoutTicket
<1>4. KeysStep /\ t[1] <= now'
  <2>1. CASE entry = NoTicket
    <3>1. now' = t[1] /\ UNCHANGED ticket_keys
      BY <1>1, <2>1
    <3>2. now' \in Time /\ now <= now' /\ t[1] <= now'
      BY <1>2, <3>1 DEF Time
    <3> QED
      BY <3>1, <3>2, <1>3, KeysSame
  <2>2. CASE entry # NoTicket
    <3>1. now' = t[2] /\ ticket_keys' = F(t).keys
      BY <1>1, <2>2
    <3>2. now' \in Time /\ t[2] <= now' /\ now <= t[2] /\ t[1] <= now'
      BY <1>2, <3>1 DEF Time, IInv, TypeOK
    <3> QED
      BY <1>2, <1>3, <3>1, <3>2, FindStep
  <2> QED
    BY <2>1, <2>2
<1>5. nst \in BOOLEAN /\ opens \in BOOLEAN /\ due \in BOOLEAN /\ FALSE \in BOOLEAN
  BY DEF Opens, Due, IInv, TypeOK
<1>6. entry # NoTicket /\ due => opens
  <2>1. now <= t[2]
    BY <1>2 DEF Time, IInv, TypeOK
  <2> QED
    BY <2>1, <1>2, DueOpens
<1>7. nst /\ t[1] = now' => \E i \in 1 .. Len(ticket_keys') : Usable(ticket_keys'[i], now')
  <2> SUFFICES ASSUME nst, t[1] = now'
               PROVE  \E i \in 1 .. Len(ticket_keys') : Usable(ticket_keys'[i], now')
    OBVIOUS
  <2>1. DOMAIN ticket_keys = 1 .. Len(ticket_keys) /\ ticket_keys \in Seq(TicketKey)
    BY DEF IInv, TypeOK
  <2>2. PICK i \in 1 .. Len(ticket_keys) : Usable(ticket_keys[i], now')
    BY <2>1 DEF s2n_config_is_encrypt_decrypt_key_available
  <2>3. now' < Expiry(ticket_keys[i])
    BY <2>1, <2>2, <1>4, UsableIsLive DEF KeysStep, Time
  <2>4. PICK j \in 1 .. Len(ticket_keys') : ticket_keys'[j] = ticket_keys[i]
    BY <2>3, <1>4 DEF KeysStep, KeepsLive
  <2> QED
    BY <2>2, <2>4
<1>8. "TLS12" \in Version
  BY DEF Version
<1>9. CASE entry = NoTicket
  <2> DEFINE no == FALSE
  <2>1. Hello(c, "TLS12", nst, no, no, t[1]) /\ no \in BOOLEAN /\ (no => no)
    BY <1>1, <1>9
  <2> HIDE DEF nst, no
  <2> QED
    BY <1>2, <1>3, <1>4, <1>5, <1>7, <1>8, <2>1, HelloInv
<1>10. CASE entry # NoTicket
  <2>1. Hello(c, "TLS12", nst, opens, due, t[1])
    BY <1>1, <1>10
  <2>2. due => opens
    BY <1>6, <1>10
  <2> HIDE DEF nst, opens, due
  <2> QED
    BY <1>2, <1>3, <1>4, <1>5, <1>7, <1>8, <2>1, <2>2, HelloInv
<1> QED
  BY <1>9, <1>10

\* A TLS 1.3 hello.
LEMMA HelloTls13Inv ==
    ASSUME IInv, NEW c \in Conn, NEW offer \in issued \cup {NoTicket}, HelloTls13(c, offer)
    PROVE  IInv'
<1> DEFINE F(t) == s2n_find_ticket_key(ticket_keys, offer.by.name, t[1])
           Renew(t) == /\ t[2] >= EncryptEnd(F(t).key)
                       /\ s2n_config_is_encrypt_decrypt_key_available(F(t).keys, t[3])
<1>1. PICK t \in Readings :
         \/ /\ offer = NoTicket \/ ~use_tickets
            /\ Hello(c, "TLS13", FALSE, FALSE, FALSE, t[1])
            /\ now' = t[1]
            /\ UNCHANGED ticket_keys
         \/ /\ offer # NoTicket /\ use_tickets
            /\ ticket_keys' = F(t).keys
            /\ Hello(c, "TLS13", FALSE, Opens(F(t), offer) /\ ~Renew(t), Due(offer, t[1]), t[3])
            /\ now' = t[3]
  BY Zenon DEF HelloTls13
<1> DEFINE resumed == Opens(F(t), offer) /\ ~Renew(t)
           due == Due(offer, t[1])
           no == FALSE
<1>2. /\ t[1] \in Time /\ t[2] \in Time /\ t[3] \in Time
      /\ now <= t[1] /\ t[1] <= t[2] /\ t[2] <= t[3]
  BY ReadingsFacts DEF IInv, TypeOK
<1>3. UNCHANGED <<use_tickets, use_session_cache, ticket_key_hashes, issued>>
  BY DEF HelloTls13
<1>4. resumed \in BOOLEAN /\ due \in BOOLEAN /\ no \in BOOLEAN
  BY DEF Opens, Due
<1>5. "TLS13" \in Version /\ "TLS13" # "TLS12"
  BY DEF Version
<1>6. CASE /\ Hello(c, "TLS13", FALSE, FALSE, FALSE, t[1])
           /\ now' = t[1]
           /\ UNCHANGED ticket_keys
  <2>1. now' \in Time /\ now <= now' /\ t[1] <= now'
    BY <1>2, <1>6 DEF Time
  <2>2. KeysStep
    BY <2>1, <1>3, <1>6, KeysSame
  <2>3. Hello(c, "TLS13", no, no, no, t[1])
    BY <1>6
  <2> HIDE DEF no
  <2> QED
    BY <1>2, <1>3, <1>4, <1>5, <2>1, <2>2, <2>3, HelloInv
<1>7. CASE /\ ticket_keys' = F(t).keys
           /\ Hello(c, "TLS13", FALSE, Opens(F(t), offer) /\ ~Renew(t), Due(offer, t[1]), t[3])
           /\ now' = t[3]
  <2>1. now' \in Time /\ t[1] <= now' /\ t[3] <= now'
    BY <1>2, <1>7 DEF Time
  <2>2. KeysStep
    BY <1>2, <1>3, <1>7, <2>1, FindStep
  <2>3. Hello(c, "TLS13", no, resumed, due, t[3])
    BY <1>7
  <2> HIDE DEF no, resumed, due
  <2> QED
    BY <1>2, <1>3, <1>4, <1>5, <2>1, <2>2, <2>3, HelloInv
<1> QED
  BY <1>1, <1>6, <1>7

----------------------------------------------------------------------------
(***************************************************************************)
(* The other steps of a connection.                                        *)
(***************************************************************************)

\* A step that touches neither the keys nor the clock, and leaves every
\* connection's promise, its session and its version: only tickets of keys of
\* the config come into circulation.
LEMMA QuietInv ==
    ASSUME IInv, UNCHANGED <<now, config>>,
           conn' \in [Conn -> ConnState],
           \A c \in Conn :
              \/ conn'[c] = Fresh
              \/ /\ conn'[c].version = conn[c].version
                 /\ conn'[c].due = conn[c].due
                 /\ conn'[c].resumed = conn[c].resumed
                 /\ conn'[c].promise = conn[c].promise
                 /\ conn'[c].at \in {"KEY_EXCHANGE", "NST"} => conn[c].at \in {"KEY_EXCHANGE", "NST"},
           issued' \subseteq Ticket,
           \A tk \in issued' :
              tk \in issued \/ \E i \in 1 .. Len(ticket_keys) : ticket_keys[i] = tk.by
    PROVE  IInv'
<1>1. /\ now' = now /\ ticket_keys' = ticket_keys /\ ticket_key_hashes' = ticket_key_hashes
      /\ use_tickets' = use_tickets /\ use_session_cache' = use_session_cache
  BY DEF config
<1>2. TypeOK'
  BY <1>1 DEF IInv, TypeOK
<1>3. KeysInOrder'
  BY <1>1 DEF IInv, KeysInOrder, KeysDistinct, OldestFirst
<1>4. TicketsKnown'
  BY <1>1 DEF IInv, TicketsKnown, Expiry
<1>5. Tls12SessionHonoured'
  <2> SUFFICES ASSUME NEW c \in Conn
               PROVE  conn'[c].version = "TLS12" /\ conn'[c].due => conn'[c].resumed
    BY DEF Tls12SessionHonoured
  <2>1. CASE conn'[c] = Fresh
    <3>1. ~ Fresh.due
      BY Zenon DEF Fresh
    <3> QED
      BY <2>1, <3>1
  <2>2. CASE conn'[c] # Fresh
    <3>1. conn[c].version = "TLS12" /\ conn[c].due => conn[c].resumed
      BY DEF IInv, Tls12SessionHonoured
    <3> QED
      BY <2>2, <3>1
  <2> QED
    BY <2>1, <2>2
<1>6. PromisesMade'
  <2>1. ASSUME NEW c \in Conn
        PROVE  /\ conn'[c].promise <= now
               /\ conn'[c].at \in {"KEY_EXCHANGE", "NST"} /\ conn'[c].promise = now =>
                     \E i \in 1 .. Len(ticket_keys) : Usable(ticket_keys[i], now)
    <3>1. CASE conn'[c] = Fresh
      <4>1. Fresh.promise = 0 /\ Fresh.at = "START"
        BY DEF Fresh, Never
      <4>2. now \in Nat
        BY DEF IInv, TypeOK, Time
      <4> QED
        BY <3>1, <4>1, <4>2
    <3>2. CASE conn'[c] # Fresh
      BY <3>2 DEF IInv, PromisesMade
    <3> QED
      BY <3>1, <3>2
  <2> QED
    BY <2>1, <1>1 DEF PromisesMade, Usable, EncryptEnd
<1> QED
  BY <1>2, <1>3, <1>4, <1>5, <1>6 DEF IInv

\* A ticket is encrypted under a key of the config.
LEMMA EncryptFacts ==
    ASSUME IInv, NEW version \in Version, Encrypt(version)
    PROVE  /\ issued' \subseteq Ticket
           /\ \A tk \in issued' :
                 tk \in issued \/ \E i \in 1 .. Len(ticket_keys) : ticket_keys[i] = tk.by
<1> DEFINE keys == s2n_get_ticket_encrypt_decrypt_key(ticket_keys, now)
           no == FALSE
<1>1. \A k \in keys : k \in TicketKey /\ \E i \in 1 .. Len(ticket_keys) : ticket_keys[i] = k
  <2>1. ticket_keys \in Seq(TicketKey) /\ DOMAIN ticket_keys = 1 .. Len(ticket_keys)
    BY DEF IInv, TypeOK
  <2> QED
    BY <2>1 DEF s2n_get_ticket_encrypt_decrypt_key
<1>2. \/ \E k \in keys : issued' \subseteq issued \cup {[by |-> k, version |-> version, lost |-> no]}
      \/ issued' = issued
  BY Zenon DEF Encrypt
<1>3. issued \subseteq Ticket /\ no \in BOOLEAN
  BY DEF IInv, TypeOK
<1> HIDE DEF keys, no
<1>4. \A k \in keys : LET tk == [by |-> k, version |-> version, lost |-> no]
                      IN  tk \in Ticket /\ tk.by = k
  BY <1>1, <1>3 DEF Ticket
<1> QED
  BY <1>1, <1>2, <1>3, <1>4

\* The key exchange.
LEMMA ClientKeyExchangeInv ==
    ASSUME IInv, NEW c \in Conn, ClientKeyExchange(c)
    PROVE  IInv'
<1> DEFINE at == IF conn[c].nst THEN "NST" ELSE "DONE"
<1>1. conn[c].at = "KEY_EXCHANGE" /\ conn' = [conn EXCEPT ![c].at = at]
  BY DEF ClientKeyExchange
<1>2. at \in {"NST", "DONE"} /\ conn \in [Conn -> ConnState]
  BY DEF IInv, TypeOK
<1> HIDE DEF at
<1>3. conn' \in [Conn -> ConnState]
  BY <1>1, <1>2 DEF ConnState
<1>4. \A d \in Conn : /\ conn'[d].version = conn[d].version
                      /\ conn'[d].due = conn[d].due
                      /\ conn'[d].resumed = conn[d].resumed
                      /\ conn'[d].promise = conn[d].promise
                      /\ conn'[d].at \in {"KEY_EXCHANGE", "NST"} => conn[d].at \in {"KEY_EXCHANGE", "NST"}
  BY <1>1, <1>2 DEF ConnState
<1>5. /\ issued' \subseteq Ticket
      /\ \A tk \in issued' :
            tk \in issued \/ \E i \in 1 .. Len(ticket_keys) : ticket_keys[i] = tk.by
  <2>1. "TLS12" \in Version
    BY DEF Version
  <2>2. CASE Encrypt("TLS12")
    BY <2>1, <2>2, EncryptFacts
  <2>3. CASE issued' = issued
    BY <2>3 DEF IInv, TypeOK
  <2> QED
    BY <2>2, <2>3 DEF ClientKeyExchange
<1>6. UNCHANGED <<now, config>>
  BY DEF ClientKeyExchange
<1> QED
  BY <1>3, <1>4, <1>5, <1>6, QuietInv

\* The NewSessionTicket of TLS 1.2.
LEMMA ServerNstInv ==
    ASSUME IInv, NEW c \in Conn, s2n_server_nst_send(c)
    PROVE  IInv'
<1> DEFINE at == IF use_tickets /\ s2n_get_ticket_encrypt_decrypt_key(ticket_keys, now) = {}
                 THEN "FAILED" ELSE "DONE"
<1>1. conn[c].at = "NST" /\ conn' = [conn EXCEPT ![c].at = at]
  BY DEF s2n_server_nst_send
<1>2. at \in {"FAILED", "DONE"} /\ conn \in [Conn -> ConnState]
  BY DEF IInv, TypeOK
<1> HIDE DEF at
<1>3. conn' \in [Conn -> ConnState]
  BY <1>1, <1>2 DEF ConnState
<1>4. \A d \in Conn : /\ conn'[d].version = conn[d].version
                      /\ conn'[d].due = conn[d].due
                      /\ conn'[d].resumed = conn[d].resumed
                      /\ conn'[d].promise = conn[d].promise
                      /\ conn'[d].at \in {"KEY_EXCHANGE", "NST"} => conn[d].at \in {"KEY_EXCHANGE", "NST"}
  BY <1>1, <1>2 DEF ConnState
<1>5. /\ issued' \subseteq Ticket
      /\ \A tk \in issued' :
            tk \in issued \/ \E i \in 1 .. Len(ticket_keys) : ticket_keys[i] = tk.by
  <2>1. "TLS12" \in Version
    BY DEF Version
  <2>2. CASE Encrypt("TLS12")
    BY <2>1, <2>2, EncryptFacts
  <2>3. CASE issued' = issued
    BY <2>3 DEF IInv, TypeOK
  <2> QED
    BY <2>2, <2>3 DEF s2n_server_nst_send
<1>6. UNCHANGED <<now, config>>
  BY DEF s2n_server_nst_send
<1> QED
  BY <1>3, <1>4, <1>5, <1>6, QuietInv

\* The NewSessionTicket of TLS 1.3.
LEMMA Tls13ServerNstInv ==
    ASSUME IInv, NEW c \in Conn, s2n_tls13_server_nst_send(c)
    PROVE  IInv'
<1>1. conn' = [conn EXCEPT ![c].at = "DONE"] /\ conn \in [Conn -> ConnState]
  BY DEF s2n_tls13_server_nst_send, IInv, TypeOK
<1>2. conn' \in [Conn -> ConnState]
  BY <1>1 DEF ConnState
<1>3. \A d \in Conn : /\ conn'[d].version = conn[d].version
                      /\ conn'[d].due = conn[d].due
                      /\ conn'[d].resumed = conn[d].resumed
                      /\ conn'[d].promise = conn[d].promise
                      /\ conn'[d].at \in {"KEY_EXCHANGE", "NST"} => conn[d].at \in {"KEY_EXCHANGE", "NST"}
  BY <1>1 DEF ConnState
<1>4. /\ issued' \subseteq Ticket
      /\ \A tk \in issued' :
            tk \in issued \/ \E i \in 1 .. Len(ticket_keys) : ticket_keys[i] = tk.by
  <2>1. "TLS13" \in Version
    BY DEF Version
  <2>2. CASE Encrypt("TLS13")
    BY <2>1, <2>2, EncryptFacts
  <2>3. CASE issued' = issued
    BY <2>3 DEF IInv, TypeOK
  <2> QED
    BY <2>2, <2>3 DEF s2n_tls13_server_nst_send
<1>5. UNCHANGED <<now, config>>
  BY DEF s2n_tls13_server_nst_send
<1> QED
  BY <1>2, <1>3, <1>4, <1>5, QuietInv

\* A connection is wiped and starts again.
LEMMA WipeConnectionInv ==
    ASSUME IInv, NEW c \in Conn, s2n_connection_wipe(c)
    PROVE  IInv'
<1>1. conn' = [conn EXCEPT ![c] = Fresh] /\ conn \in [Conn -> ConnState]
  BY DEF s2n_connection_wipe, IInv, TypeOK
<1>2. Fresh \in ConnState
  BY Zenon DEF Fresh, ConnState, Version, Never
<1>3. conn' \in [Conn -> ConnState] /\ \A d \in Conn : conn'[d] = Fresh \/ conn'[d] = conn[d]
  BY <1>1, <1>2
<1>4. issued' = issued /\ issued \subseteq Ticket
  BY DEF s2n_connection_wipe, IInv, TypeOK
<1>5. UNCHANGED <<now, config>>
  BY DEF s2n_connection_wipe
<1> QED
  BY <1>3, <1>4, <1>5, QuietInv

----------------------------------------------------------------------------
(***************************************************************************)
(* The clock and the application.                                          *)
(***************************************************************************)

\* A step of the keys that no connection and no ticket takes part in.
LEMMA KeysOnlyInv ==
    ASSUME IInv, KeysStep, UNCHANGED <<use_tickets, use_session_cache, issued, conn>>
    PROVE  IInv'
<1>1. TypeOK'
  BY DEF IInv, TypeOK, KeysStep
<1>2. KeysInOrder' /\ TicketsKnown'
  BY KeysStepKnown
<1>3. Tls12SessionHonoured'
  BY DEF IInv, Tls12SessionHonoured
<1>4. \A c \in Conn :
         /\ conn'[c].promise <= now'
         /\ conn'[c].at \in {"KEY_EXCHANGE", "NST"} /\ conn'[c].promise = now' =>
               \E i \in 1 .. Len(ticket_keys') : Usable(ticket_keys'[i], now')
  <2> TAKE c \in Conn
  <2>1. conn'[c] = conn[c]
    OBVIOUS
  <2> QED
    BY <2>1, KeysStepPromises
<1>5. PromisesMade'
  BY <1>4 DEF PromisesMade, Usable, EncryptEnd
<1> QED
  BY <1>1, <1>2, <1>3, <1>5 DEF IInv

\* The clock advances.
LEMMA TickInv ==
    ASSUME IInv, Tick
    PROVE  IInv'
<1>1. now' \in Time /\ now <= now'
  BY TicketKeysAssumption DEF Tick, IInv, TypeOK, Time
<1>2. UNCHANGED <<use_tickets, use_session_cache, ticket_keys, ticket_key_hashes, issued, conn>>
  BY DEF Tick, config
<1>3. KeysStep
  BY <1>1, <1>2, KeysSame
<1> QED
  BY <1>2, <1>3, KeysOnlyInv

\* A key is added, or refused.
LEMMA AddKeyInv ==
    ASSUME IInv, NEW name \in Name, NEW key \in Material, NEW intro \in Intro,
           s2n_config_add_ticket_crypto_key(name, key, intro)
    PROVE  IInv'
<1> DEFINE W(t) == s2n_config_wipe_expired_ticket_crypto_keys(ticket_keys, t[1])
           F(t) == s2n_find_ticket_key(W(t), name, t[2])
           New(t) == [name |-> name, key |-> key, intro |-> IntroTimestamp(intro, t[3])]
<1>1. PICK t \in Readings :
         \/ /\ Len(W(t)) >= S2N_MAX_TICKET_KEYS
            /\ ticket_keys' = W(t)
            /\ now' = t[1]
            /\ UNCHANGED ticket_key_hashes
         \/ /\ Len(W(t)) < S2N_MAX_TICKET_KEYS
            /\ F(t).key # NoKey \/ key \in Hashes(F(t).keys)
            /\ ticket_keys' = F(t).keys
            /\ ticket_key_hashes' =
                  IF F(t).key # NoKey THEN ticket_key_hashes ELSE Hashes(F(t).keys)
            /\ now' = t[2]
         \/ /\ Len(W(t)) < S2N_MAX_TICKET_KEYS
            /\ F(t).key = NoKey /\ key \notin Hashes(F(t).keys)
            /\ ticket_keys' = s2n_config_store_ticket_key(F(t).keys, New(t))
            /\ ticket_key_hashes' = Hashes(F(t).keys) \cup {key}
            /\ now' = t[3]
  BY Zenon DEF s2n_config_add_ticket_crypto_key
<1> DEFINE wiped == W(t)
           found == F(t)
           new == New(t)
           stored == s2n_config_store_ticket_key(found.keys, new)
<1>2. /\ t[1] \in Time /\ t[2] \in Time /\ t[3] \in Time
      /\ now <= t[1] /\ t[1] <= t[2] /\ t[2] <= t[3]
  BY ReadingsFacts DEF IInv, TypeOK
<1>3. t[1] \in Nat /\ t[2] \in Nat /\ t[3] \in Nat /\ now \in Nat
  BY <1>2 DEF Time, IInv, TypeOK
<1>4. UNCHANGED <<use_tickets, use_session_cache, issued, conn>>
  BY DEF s2n_config_add_ticket_crypto_key
<1>5. /\ ticket_keys \in Seq(TicketKey) /\ Len(ticket_keys) <= S2N_MAX_TICKET_KEYS
      /\ GoodKeys(ticket_keys, ticket_key_hashes)
  BY GoodKeysIs DEF IInv, TypeOK
<1>6. /\ GoodKeys(wiped, ticket_key_hashes)
      /\ Len(wiped) <= Len(ticket_keys)
      /\ KeepsLive(ticket_keys, wiped, t[1])
  BY <1>3, <1>5, WipeFacts
<1>7. wiped \in Seq(TicketKey) /\ Len(wiped) \in Nat /\ Len(wiped) <= S2N_MAX_TICKET_KEYS
  <2>1. wiped \in Seq(TicketKey)
    BY <1>6 DEF GoodKeys
  <2>2. Len(wiped) \in Nat /\ Len(ticket_keys) \in Nat
    BY <2>1, <1>5
  <2> HIDE DEF wiped
  <2> QED
    BY <2>1, <2>2, <1>5, <1>6, TicketKeysAssumption
<1> HIDE DEF W
<1>8. /\ GoodKeys(found.keys, ticket_key_hashes)
      /\ Len(found.keys) <= Len(wiped)
      /\ KeepsLive(wiped, found.keys, t[2])
      /\ found.key = NoKey => \A i \in 1 .. Len(found.keys) : found.keys[i].name # name
  BY <1>3, <1>6, FindFacts, SMTT(30)
<1> HIDE DEF wiped, found, F
<1>9. found.keys \in Seq(TicketKey) /\ Len(found.keys) \in Nat
  BY <1>8 DEF GoodKeys
<1>10. Len(found.keys) <= S2N_MAX_TICKET_KEYS
  BY <1>7, <1>8, <1>9, TicketKeysAssumption
<1>11. Hashes(found.keys) = ticket_key_hashes /\ ticket_key_hashes \subseteq Material
  BY <1>9, <1>10, TicketKeysAssumption DEF Hashes, IInv, TypeOK
<1>12. KeepsLive(ticket_keys, found.keys, t[2])
  BY <1>2, <1>3, <1>5, <1>6, <1>8, KeepsLiveLater, KeepsLiveTrans
<1>13. CASE ticket_keys' = wiped /\ now' = t[1] /\ UNCHANGED ticket_key_hashes
  <2>1. KeysStep
    BY <1>2, <1>6, <1>7, <1>11, <1>13 DEF KeysStep
  <2> QED
    BY <2>1, <1>4, KeysOnlyInv
<1>14. CASE /\ ticket_keys' = found.keys /\ now' = t[2]
            /\ ticket_key_hashes' = ticket_key_hashes
  <2>1. now <= t[2]
    BY <1>2, <1>3
  <2>2. KeysStep
    BY <2>1, <1>2, <1>8, <1>9, <1>10, <1>11, <1>12, <1>14 DEF KeysStep
  <2> QED
    BY <2>2, <1>4, KeysOnlyInv
<1>15. CASE /\ Len(wiped) < S2N_MAX_TICKET_KEYS /\ found.key = NoKey /\ key \notin ticket_key_hashes
            /\ ticket_keys' = stored
            /\ ticket_key_hashes' = ticket_key_hashes \cup {key}
            /\ now' = t[3]
  <2>1. new \in TicketKey /\ new.name = name /\ new.key = key
    <3> DEFINE at == IntroTimestamp(intro, t[3])
    <3>1. at \in Time
      BY <1>2, TicketKeysAssumption DEF IntroTimestamp, Time, Never
    <3> HIDE DEF at
    <3> QED
      BY <3>1 DEF TicketKey, at
  <2> HIDE DEF new
  <2>2. /\ GoodKeys(stored, ticket_key_hashes \cup {key})
        /\ Len(stored) = Len(found.keys) + 1
        /\ \A i \in 1 .. Len(found.keys) : \E j \in 1 .. Len(stored) : stored[j] = found.keys[i]
    BY <2>1, <1>8, <1>15, StoreFacts, ZenonT(40)
  <2> HIDE DEF stored
  <2>3. stored \in Seq(TicketKey) /\ Len(stored) <= S2N_MAX_TICKET_KEYS
    <3>1. stored \in Seq(TicketKey)
      BY <2>2 DEF GoodKeys
    <3> QED
      BY <3>1, <2>2, <1>7, <1>8, <1>9, <1>15, TicketKeysAssumption
  <2>4. KeepsLive(ticket_keys, stored, t[3])
    <3>1. KeepsLive(ticket_keys, found.keys, t[3])
      BY <1>2, <1>3, <1>5, <1>12, KeepsLiveLater
    <3>2. KeepsLive(found.keys, stored, t[3])
      BY <2>2 DEF KeepsLive
    <3> QED
      BY <3>1, <3>2, <1>3, KeepsLiveTrans
  <2>5. now <= t[3]
    BY <1>2, <1>3
  <2>6. KeysStep
    BY <2>2, <2>3, <2>4, <2>5, <1>2, <1>11, <1>15 DEF KeysStep
  <2> QED
    BY <2>6, <1>4, KeysOnlyInv
<1> QED
  <2>1. F(t) = found /\ W(t) = wiped
    BY DEF found, wiped
  <2> QED
    BY <2>1, <1>1, <1>11, <1>13, <1>14, <1>15

\* Freeing the keys: what they encrypted is lost, and no promise is left.
LEMMA FreeKeysInv ==
    ASSUME IInv, s2n_config_free_session_ticket_keys, now' = now,
           use_tickets' \in BOOLEAN, use_session_cache' \in BOOLEAN
    PROVE  IInv'
<1> DEFINE yes == TRUE
           none == << >>
<1>1. /\ ticket_keys' = none
      /\ ticket_key_hashes' = {}
      /\ issued' = {[t EXCEPT !.lost = yes] : t \in issued}
      /\ conn' = [c \in Conn |-> [conn[c] EXCEPT !.promise = Never]]
  BY DEF s2n_config_free_session_ticket_keys
<1>2. yes \in BOOLEAN /\ yes
  OBVIOUS
<1>3. none \in Seq(TicketKey) /\ Len(none) = 0 /\ DOMAIN none = {}
  OBVIOUS
<1> HIDE DEF yes, none
<1>4. \A t \in issued : /\ [t EXCEPT !.lost = yes] \in Ticket
                        /\ [t EXCEPT !.lost = yes].lost = yes
  BY <1>2 DEF IInv, TypeOK, Ticket
<1>5. issued' \subseteq Ticket /\ \A tk \in issued' : tk.lost = yes
  BY <1>1, <1>4
<1>6. conn' \in [Conn -> ConnState]
  BY <1>1 DEF IInv, TypeOK, ConnState
<1>7. \A c \in Conn : /\ conn'[c].promise = Never
                      /\ conn'[c].version = conn[c].version
                      /\ conn'[c].due = conn[c].due
                      /\ conn'[c].resumed = conn[c].resumed
  BY <1>1 DEF IInv, TypeOK, ConnState
<1>8. now \in Nat /\ Never <= now /\ Never # now
  BY DEF IInv, TypeOK, Time, Never
<1>9. TypeOK'
  BY <1>1, <1>3, <1>5, <1>6, TicketKeysAssumption DEF IInv, TypeOK
<1>10. KeysInOrder'
  BY <1>1, <1>3 DEF KeysInOrder, KeysDistinct, OldestFirst
<1>11. TicketsKnown'
  BY <1>2, <1>5 DEF TicketsKnown
<1>12. Tls12SessionHonoured'
  BY <1>7 DEF IInv, Tls12SessionHonoured
<1>13. PromisesMade'
  BY <1>7, <1>8 DEF PromisesMade
<1> QED
  BY <1>9, <1>10, <1>11, <1>12, <1>13 DEF IInv

\* Tickets or the session cache are turned on or off.
LEMMA OnOffInv ==
    ASSUME IInv, NEW keep \in BOOLEAN, KeepOrFree(keep), now' = now,
           use_tickets' \in BOOLEAN, use_session_cache' \in BOOLEAN
    PROVE  IInv'
<1>1. CASE UNCHANGED <<ticket_keys, ticket_key_hashes, issued, conn>>
  <2>1. TypeOK'
    BY <1>1 DEF IInv, TypeOK
  <2>2. KeysInOrder' /\ Tls12SessionHonoured'
    BY <1>1 DEF IInv, KeysInOrder, KeysDistinct, OldestFirst, Tls12SessionHonoured
  <2>3. TicketsKnown' /\ PromisesMade'
    BY <1>1 DEF IInv, TicketsKnown, PromisesMade, Expiry, Usable, EncryptEnd
  <2> QED
    BY <2>1, <2>2, <2>3 DEF IInv
<1>2. CASE s2n_config_free_session_ticket_keys
  BY <1>2, FreeKeysInv
<1> QED
  BY <1>1, <1>2 DEF KeepOrFree

----------------------------------------------------------------------------
(***************************************************************************)
(* The theorems.                                                           *)
(***************************************************************************)

\* The invariant holds at the start.
LEMMA InitIInv ==
    ASSUME Init
    PROVE  IInv
<1>1. Fresh \in ConnState /\ Fresh.promise = 0 /\ Fresh.at = "START" /\ ~Fresh.due
  BY Zenon DEF Fresh, ConnState, Version, Never
<1>2. \A c \in Conn : conn[c] = Fresh
  BY DEF Init
<1>3. ticket_keys = << >> /\ issued = {} /\ ticket_key_hashes = {} /\ now = 1
  BY DEF Init
<1>4. conn \in [Conn -> ConnState]
  BY <1>1 DEF Init
<1>5. TypeOK
  <2>1. use_tickets \in BOOLEAN /\ use_session_cache \in BOOLEAN
    BY DEF Init
  <2>2. now \in Time
    BY <1>3, TicketKeysAssumption DEF Time
  <2>3. ticket_keys \in Seq(TicketKey) /\ Len(ticket_keys) <= S2N_MAX_TICKET_KEYS
    BY <1>3, TicketKeysAssumption
  <2> QED
    BY <2>1, <2>2, <2>3, <1>3, <1>4 DEF TypeOK
<1>6. KeysInOrder
  BY <1>3 DEF KeysInOrder, KeysDistinct, OldestFirst
<1>7. TicketsKnown
  BY <1>3 DEF TicketsKnown
<1>8. Tls12SessionHonoured
  BY <1>1, <1>2 DEF Tls12SessionHonoured
<1>9. PromisesMade
  BY <1>1, <1>2, <1>3 DEF PromisesMade
<1> QED
  BY <1>5, <1>6, <1>7, <1>8, <1>9 DEF IInv

\* Every step keeps it.
LEMMA NextIInv ==
    ASSUME IInv, [Next]_vars
    PROVE  IInv'
<1>1. CASE UNCHANGED vars
  <2>1. UNCHANGED <<use_tickets, use_session_cache, ticket_keys, ticket_key_hashes, issued, conn, now>>
    BY <1>1 DEF vars
  <2>2. KeysStep
    BY <2>1, KeysSame DEF IInv, TypeOK, Time
  <2> QED
    BY <2>1, <2>2, KeysOnlyInv
<1>2. CASE Tick
  BY <1>2, TickInv
<1>3. ASSUME NEW enabled \in BOOLEAN, s2n_config_set_session_tickets_onoff(enabled)
      PROVE  IInv'
  <2> DEFINE keep == enabled \/ use_session_cache
  <2>1. keep \in BOOLEAN
    BY DEF IInv, TypeOK
  <2>2. KeepOrFree(keep) /\ now' = now /\ use_tickets' \in BOOLEAN /\ use_session_cache' \in BOOLEAN
    BY <1>3 DEF s2n_config_set_session_tickets_onoff, IInv, TypeOK
  <2> HIDE DEF keep
  <2> QED
    BY <2>1, <2>2, OnOffInv
<1>4. ASSUME NEW enabled \in BOOLEAN, s2n_config_set_session_cache_onoff(enabled)
      PROVE  IInv'
  <2> DEFINE keep == enabled \/ use_tickets
  <2>1. keep \in BOOLEAN
    BY DEF IInv, TypeOK
  <2>2. KeepOrFree(keep) /\ now' = now /\ use_tickets' \in BOOLEAN /\ use_session_cache' \in BOOLEAN
    BY <1>4 DEF s2n_config_set_session_cache_onoff, IInv, TypeOK
  <2> HIDE DEF keep
  <2> QED
    BY <2>1, <2>2, OnOffInv
<1>5. CASE Configure
  BY <1>3, <1>4, <1>5, AddKeyInv DEF Configure
<1>6. ASSUME NEW c \in Conn, Handshake(c)
      PROVE  IInv'
  BY <1>6, HelloWithTicketInv, HelloWithoutTicketInv, HelloTls13Inv, ClientKeyExchangeInv,
     ServerNstInv, Tls13ServerNstInv, WipeConnectionInv DEF Handshake
<1> QED
  BY <1>1, <1>2, <1>5, <1>6 DEF Next

\* The invariant holds in every state.
LEMMA AlwaysIInv == Spec => []IInv
<1>1. Init => IInv
  BY InitIInv
<1>2. IInv /\ [Next]_vars => IInv'
  BY NextIInv
<1> QED
  BY <1>1, <1>2, PTL DEF Spec

\* The state of the config, of the tickets and of the connections has its type,
\* and there are never more keys than S2N_MAX_TICKET_KEYS.
THEOREM TicketKeysTyped == Spec => []TypeOK
<1>1. IInv => TypeOK
  BY DEF IInv
<1> QED
  BY <1>1, AlwaysIInv, PTL

\* The keys of a config are always sorted from oldest to newest, with distinct
\* names and contents, whatever is added, expires, is wiped by an index or is
\* freed: the binary search of s2n_set_add and the shifting indices of
\* s2n_config_wipe_expired_ticket_crypto_keys are right for any number of keys.
THEOREM KeysStayInOrder == Spec => []KeysInOrder
<1>1. IInv => KeysInOrder
  BY DEF IInv
<1> QED
  BY <1>1, AlwaysIInv, PTL

\* A TLS 1.2 session that is offered before its key expires is resumed, for any
\* number of connections, keys and tickets.
THEOREM SessionsAreHonoured == Spec => []Tls12SessionHonoured
<1>1. IInv => Tls12SessionHonoured
  BY DEF IInv
<1> QED
  BY <1>1, AlwaysIInv, PTL

\* A usable key weighs something.
LEMMA UsableWeighs ==
    ASSUME NEW k \in TicketKey, NEW t \in Nat, Usable(k, t)
    PROVE  Weight(k, t) > 0
<1> DEFINE half == encrypt_decrypt_key_lifetime \div 2
<1>1. k.intro \in Nat
  BY KeyTimes
<1>2. half \in Nat /\ encrypt_decrypt_key_lifetime = 2 * half
  BY TicketKeysAssumption
<1> HIDE DEF half
<1>3. k.intro < t /\ t < k.intro + 2 * half
  BY <1>2 DEF Usable, EncryptEnd
<1>4. Weight(k, t) = IF t < k.intro + half THEN t - k.intro ELSE half - (t - (k.intro + half))
  BY DEF Weight, half
<1> QED
  BY <1>1, <1>2, <1>3, <1>4

\* While the clock stands still a promised ticket can be encrypted, for any
\* lifetime of keys: the weights never leave a usable key without a chance.
THEOREM PromisesCanBeKept == Spec => []PromiseCanBeKept
<1>1. ASSUME IInv PROVE PromiseCanBeKept
  <2> SUFFICES ASSUME NEW c \in Conn, conn[c].at \in {"KEY_EXCHANGE", "NST"}, conn[c].promise = now
               PROVE  s2n_get_ticket_encrypt_decrypt_key(ticket_keys, now) # {}
    BY DEF PromiseCanBeKept
  <2>1. PICK i \in 1 .. Len(ticket_keys) : Usable(ticket_keys[i], now)
    BY <1>1 DEF IInv, PromisesMade
  <2>2. ticket_keys[i] \in TicketKey /\ now \in Nat /\ i \in DOMAIN ticket_keys
    BY <1>1 DEF IInv, TypeOK, Time
  <2>3. Weight(ticket_keys[i], now) > 0
    BY <2>1, <2>2, UsableWeighs
  <2> QED
    BY <2>1, <2>2, <2>3 DEF s2n_get_ticket_encrypt_decrypt_key
<1> QED
  BY <1>1, AlwaysIInv, PTL

=============================================================================
