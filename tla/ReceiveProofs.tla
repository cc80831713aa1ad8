--------------------------- MODULE ReceiveProofs ---------------------------
(***************************************************************************)
(* Proofs about Receive: what a conforming peer sends is understood,       *)
(* however many records it sends and wherever calls are interrupted.       *)
(*                                                                         *)
(* The records on their way are steps of a path: the number of data units, *)
(* the half alert and the key generation before each record lead to those  *)
(* after it, from what the connection has to what the peer has sent.       *)
(***************************************************************************)
EXTENDS Receive, FiniteSetTheorems, SequenceTheorems, WellFoundedInduction, TLAPS

Units   == [what: {"DATA", "KEY_UPDATE", "TICKET", "HELLO_REQUEST", "CLIENT_HELLO", "PART"} \cup Alerts,
            n: Int]
Records == [type: {"APPLICATION_DATA", "ALERT", "HANDSHAKE"}, epoch: Int, body: Seq(Units)]
Sent    == [what: {"DATA", "KEY_UPDATE", "CLOSE_NOTIFY"}, epoch: Nat]

PeerState == [records: Nat, data: Nat, epoch: Nat, half: Seq(Alerts), rest: Seq(Units),
              refusable: BOOLEAN, over: BOOLEAN, gone: BOOLEAN, damaged: BOOLEAN]

TypeOK ==
    /\ setup \in [mode: {"CLIENT", "SERVER"}, version: {"TLS12", "TLS13"},
                  alert_behavior: {"FAIL_ON_WARNINGS", "IGNORE_WARNINGS"}]
    /\ wire \in Seq(Records)
    /\ peer \in PeerState
    /\ Len(peer.half) \in 0 .. 1 /\ (peer.rest # << >> => peer.half = << >>)
    /\ in \in Seq(Units) /\ in_status \in {"PLAINTEXT", "ENCRYPTED"}
    /\ alert_in \in Seq(Units) /\ Len(alert_in) \in 0 .. 2
    /\ delivered \in Seq(Units)
    /\ recv_epoch \in Nat /\ send_epoch \in Nat
    /\ key_update_pending \in BOOLEAN
    /\ out \in Seq(Sent) /\ sent \in Seq(Sent)
    /\ writer_alert_out \in BOOLEAN /\ close_notify_queued \in BOOLEAN
    /\ closed \in BOOLEAN /\ dropped \in BOOLEAN
    /\ error \in {"NONE", "ALERT", "ALERT_PRESENT", "DECRYPT", "BAD_MESSAGE"}

\* The two units of data after the first d.
DataBody(d) == <<Unit("DATA", d + 1), Unit("DATA", d + 2)>>

\* A record of the peer takes the counts of data and of half alerts from d, h to e, k.
StreamStep(rec, d, e, h, k) ==
    \/ /\ rec.type = "APPLICATION_DATA" /\ rec.body = DataBody(d)
       /\ e = d + 2 /\ h = 0 /\ k = 0
    \/ /\ rec.type = "HANDSHAKE"
       /\ e = d /\ h = 0 /\ k = 0
    \/ /\ rec.type = "ALERT" /\ Len(rec.body) = 2
       /\ e = d /\ h = 0 /\ k = 0
    \/ /\ rec.type = "ALERT" /\ Len(rec.body) = 1
       /\ e = d /\ k = 1 - h

\* The records w lead from the counts a, h to the counts b, k.
StreamPath(p, q, w, a, b, h, k) ==
    /\ p \in [1 .. Len(w) + 1 -> Nat] /\ q \in [1 .. Len(w) + 1 -> {0, 1}]
    /\ p[1] = a /\ p[Len(w) + 1] = b
    /\ q[1] = h /\ q[Len(w) + 1] = k
    /\ \A i \in 1 .. Len(w) : StreamStep(w[i], p[i], p[i + 1], q[i], q[i + 1])

Stream(w, a, b, h, k) ==
    \E p \in [1 .. Len(w) + 1 -> Nat], q \in [1 .. Len(w) + 1 -> {0, 1}] :
        StreamPath(p, q, w, a, b, h, k)

\* While the connection is open, the data delivered, that in conn->in and that on
\* its way are the peer's, and so are the halves of an alert.
Flow ==
    ~closed =>
        /\ Stream(wire, Len(delivered) + Len(in), peer.data, Len(alert_in), Len(peer.half))
        /\ \A i \in 1 .. Len(in) : in[i] = Unit("DATA", Len(delivered) + i)
        /\ in_status = "ENCRYPTED" => in = << >>

IsUpdate(rec) == Last(rec.body).what = "KEY_UPDATE"

\* No record is empty, and one of alerts holds one alert or half of one.
Shapes(w) ==
    \A i \in 1 .. Len(w) :
        /\ w[i].body # << >>
        /\ w[i].type = "ALERT" => Len(w[i].body) \in 1 .. 2 /\ ~IsUpdate(w[i])

\* The records w lead from key generation a to b; a damaged one has none.
EpochPath(f, w, a, b, damaged) ==
    /\ f \in [1 .. Len(w) + 1 -> Nat]
    /\ f[1] = a /\ f[Len(w) + 1] = b
    /\ \A i \in 1 .. Len(w) : f[i + 1] = f[i] + (IF IsUpdate(w[i]) THEN 1 ELSE 0)
    /\ \A i \in 1 .. Len(w) : w[i].epoch # f[i] => damaged

Epochs(w, a, b, damaged) == \E f \in [1 .. Len(w) + 1 -> Nat] : EpochPath(f, w, a, b, damaged)

\* As long as no record was thrown away, those on their way fit the key.
ReadKeys == ~dropped /\ ~Paused => Epochs(wire, recv_epoch, peer.epoch, peer.damaged)

\* The records sealed, w, each follow from the one before, and b comes next.
SealedPath(f, w, b) ==
    /\ f \in [1 .. Len(w) + 1 -> Nat]
    /\ f[1] = 0 /\ f[Len(w) + 1] = b
    /\ \A i \in 1 .. Len(w) : f[i + 1] = f[i] + (IF w[i].what = "KEY_UPDATE" THEN 1 ELSE 0)
    /\ \A i \in 1 .. Len(w) : w[i].epoch = f[i]

SealedInStep(w, b) == \E f \in [1 .. Len(w) + 1 -> Nat] : SealedPath(f, w, b)

WriteKeys == SealedInStep(sent \o out, send_epoch)

\* What an error tells of the state it was met in.
Errors ==
    /\ dropped => closed
    /\ error # "NONE" => closed
    /\ error = "ALERT" => /\ Len(alert_in) = 2
                          /\ alert_in[1].what # "CLOSE_NOTIFY"
                          /\ ~s2n_handle_as_warning(alert_in[1].what)
    /\ error = "DECRYPT" => dropped \/ peer.damaged
    /\ error = "ALERT_PRESENT" => close_notify_queued

IInv == TypeOK /\ Shapes(wire) /\ DataIntact /\ Flow /\ ReadKeys /\ WriteKeys /\ Errors

----------------------------------------------------------------------------
\* A non-empty set of natural numbers has a least one: the proof by induction
\* below looks at the least counterexample.
LEMMA LeastNatural ==
    ASSUME NEW T, T \subseteq Nat, T # {}
    PROVE  \E m \in T : \A k \in T : m <= k
<1> DEFINE R == {ss \in Nat \X Nat : ss[1] < ss[2]}
<1>1. IsWellFoundedOn(R, Nat)
  BY NatLessThanWellFounded DEF OpToRel
<1> HIDE DEF R
<1>2. PICK x \in T : \A y \in T : ~ (<<y, x>> \in R)
  BY <1>1, WFMin, Zenon
<1>3. \A y \in T : ~ (y < x)
  BY <1>2 DEF R
<1> QED
  BY <1>3

\* f goes up by one at the indices of S, and the number of those up to k.
RisesAt(f, S, n) == \A i \in 1 .. n : f[i + 1] = f[i] + (IF i \in S THEN 1 ELSE 0)
NumberOf(S, k) == Cardinality({i \in 1 .. k : i \in S})

\* Such a path goes up, in all, by the number of the indices.
LEMMA CountPath ==
    ASSUME NEW n \in Nat, NEW S, NEW f \in [1 .. n + 1 -> Nat], RisesAt(f, S, n)
    PROVE  \A k \in 0 .. n : NumberOf(S, k) = f[k + 1] - f[1]
<1> USE DEF RisesAt, NumberOf
<1> DEFINE C(k) == {i \in 1 .. k : i \in S}
           T == {k \in 0 .. n : Cardinality(C(k)) # f[k + 1] - f[1]}
<1>1. SUFFICES ASSUME T # {} PROVE FALSE
  OBVIOUS
<1>2. PICK m \in T : \A k \in T : m <= k
  <2>1. T \subseteq Nat
    OBVIOUS
  <2> HIDE DEF T
  <2> QED
    BY <1>1, <2>1, LeastNatural
<1>3. m \in 0 .. n /\ Cardinality(C(m)) # f[m + 1] - f[1]
  BY <1>2
<1>4. CASE m = 0
  <2>1. C(m) = {}
    BY <1>4
  <2>2. Cardinality(C(m)) = 0
    BY <2>1, FS_EmptySet
  <2> QED
    BY <1>3, <1>4, <2>2
<1>5. CASE m # 0
  <2>1. m - 1 \in 0 .. n /\ m - 1 \notin T
    <3>1. m - 1 \in 0 .. n
      BY <1>3, <1>5
    <3> HIDE DEF T
    <3> QED
      BY <1>2, <1>3, <3>1
  <2>2. Cardinality(C(m - 1)) = f[m] - f[1]
    BY <2>1
  <2>3. IsFiniteSet(C(m - 1))
    <3>1. IsFiniteSet(1 .. m - 1)
      BY FS_Interval, <2>1
    <3>2. C(m - 1) \subseteq 1 .. m - 1
      OBVIOUS
    <3> QED
      BY <3>1, <3>2, FS_Subset
  <2>4. f[m + 1] = f[m] + (IF m \in S THEN 1 ELSE 0)
    BY <1>3, <1>5
  <2>5. CASE m \in S
    <3>1. C(m) = C(m - 1) \cup {m} /\ m \notin C(m - 1)
      BY <1>3, <1>5, <2>5
    <3>2. Cardinality(C(m)) = Cardinality(C(m - 1)) + 1
      BY <3>1, <2>3, FS_AddElement
    <3> QED
      BY <3>2, <2>2, <2>4, <2>5, <1>3, <1>5
  <2>6. CASE m \notin S
    <3>1. C(m) = C(m - 1)
      BY <1>3, <1>5, <2>6
    <3> HIDE DEF C
    <3> QED
      BY <3>1, <2>2, <2>4, <2>6, <1>3, <1>5
  <2> QED
    BY <2>5, <2>6
<1> QED
  BY <1>4, <1>5

----------------------------------------------------------------------------
(***************************************************************************)
(* Paths: the first record is taken off, one is put behind, one is damaged.*)
(***************************************************************************)
\* The path of data and half alerts without its first record.
LEMMA StreamTail ==
    ASSUME NEW w \in Seq(Records), w # << >>, NEW a, NEW b, NEW h, NEW k, Stream(w, a, b, h, k)
    PROVE  \E e \in Nat, g \in {0, 1} :
              StreamStep(w[1], a, e, h, g) /\ Stream(Tail(w), e, b, g, k)
<1>1. PICK p \in [1 .. Len(w) + 1 -> Nat], q \in [1 .. Len(w) + 1 -> {0, 1}] :
          StreamPath(p, q, w, a, b, h, k)
  BY DEF Stream
<1>2. Len(w) \in Nat \ {0} /\ Tail(w) \in Seq(Records) /\ Len(Tail(w)) = Len(w) - 1
  OBVIOUS
<1>3. \A i \in 1 .. Len(w) - 1 : Tail(w)[i] = w[i + 1]
  OBVIOUS
<1>4. \A i \in 1 .. Len(w) : StreamStep(w[i], p[i], p[i + 1], q[i], q[i + 1])
  BY <1>1 DEF StreamPath
<1>5. p[1] = a /\ p[Len(w) + 1] = b /\ q[1] = h /\ q[Len(w) + 1] = k
  BY <1>1 DEF StreamPath
<1> DEFINE pp == [i \in 1 .. Len(w) |-> p[i + 1]]
           qq == [i \in 1 .. Len(w) |-> q[i + 1]]
<1>6. pp \in [1 .. Len(w) -> Nat] /\ qq \in [1 .. Len(w) -> {0, 1}]
  BY <1>2
<1>7. StreamPath(pp, qq, Tail(w), p[2], b, q[2], k)
  <2>1. \A i \in 1 .. Len(w) : pp[i] = p[i + 1] /\ qq[i] = q[i + 1]
    OBVIOUS
  <2> HIDE DEF pp, qq
  <2>2. \A i \in 1 .. Len(w) - 1 : StreamStep(Tail(w)[i], pp[i], pp[i + 1], qq[i], qq[i + 1])
    <3> TAKE i \in 1 .. Len(w) - 1
    <3>1. i \in 1 .. Len(w) /\ i + 1 \in 1 .. Len(w)
      BY <1>2
    <3>2. StreamStep(w[i + 1], p[i + 1], p[i + 1 + 1], q[i + 1], q[i + 1 + 1])
      BY <3>1, <1>4
    <3> QED
      BY <3>1, <3>2, <2>1, <1>3
  <2>3. Len(Tail(w)) + 1 = Len(w) /\ 1 \in 1 .. Len(w) /\ Len(w) \in 1 .. Len(w)
    BY <1>2
  <2>4. pp[1] = p[2] /\ qq[1] = q[2] /\ pp[Len(w)] = b /\ qq[Len(w)] = k
    BY <2>1, <2>3, <1>5
  <2> QED
    BY <2>2, <2>3, <2>4, <1>2, <1>6 DEF StreamPath
<1>8. Stream(Tail(w), p[2], b, q[2], k)
  <2>1. Len(Tail(w)) + 1 = Len(w)
    BY <1>2
  <2> HIDE DEF pp, qq
  <2> QED
    BY <2>1, <1>6, <1>7 DEF Stream
<1>9. p[2] \in Nat /\ q[2] \in {0, 1} /\ StreamStep(w[1], a, p[2], h, q[2])
  <2>1. 1 \in 1 .. Len(w) /\ 2 \in 1 .. Len(w) + 1 /\ 1 + 1 = 2
    BY <1>2
  <2> QED
    BY <2>1, <1>4, <1>5
<1> QED
  BY <1>8, <1>9

\* The path with a record more.
LEMMA StreamAppend ==
    ASSUME NEW w \in Seq(Records), NEW rec \in Records, NEW a, NEW b, NEW h, NEW k,
           Stream(w, a, b, h, k), NEW e \in Nat, NEW g \in {0, 1}, StreamStep(rec, b, e, k, g)
    PROVE  Stream(Append(w, rec), a, e, h, g)
<1>1. PICK p \in [1 .. Len(w) + 1 -> Nat], q \in [1 .. Len(w) + 1 -> {0, 1}] :
          StreamPath(p, q, w, a, b, h, k)
  BY DEF Stream
<1> DEFINE v == Append(w, rec)
           n == Len(w)
<1>2. n \in Nat /\ v \in Seq(Records) /\ Len(v) = n + 1
  OBVIOUS
<1>3. v[n + 1] = rec /\ \A i \in 1 .. n : v[i] = w[i]
  OBVIOUS
<1>4. \A i \in 1 .. n : StreamStep(w[i], p[i], p[i + 1], q[i], q[i + 1])
  BY <1>1 DEF StreamPath
<1>5. p[1] = a /\ p[n + 1] = b /\ q[1] = h /\ q[n + 1] = k
  BY <1>1 DEF StreamPath
<1> HIDE DEF v
<1> DEFINE pp == [i \in 1 .. n + 2 |-> IF i = n + 2 THEN e ELSE p[i]]
           qq == [i \in 1 .. n + 2 |-> IF i = n + 2 THEN g ELSE q[i]]
<1>6. pp \in [1 .. n + 2 -> Nat] /\ qq \in [1 .. n + 2 -> {0, 1}]
  BY <1>2
<1>7. /\ \A i \in 1 .. n + 1 : pp[i] = p[i] /\ qq[i] = q[i]
      /\ pp[n + 2] = e /\ qq[n + 2] = g
  BY <1>2
<1> HIDE DEF pp, qq
<1>8. \A i \in 1 .. n + 1 : StreamStep(v[i], pp[i], pp[i + 1], qq[i], qq[i + 1])
  <2> TAKE i \in 1 .. n + 1
  <2>1. CASE i = n + 1
    BY <2>1, <1>2, <1>3, <1>5, <1>7
  <2>2. CASE i # n + 1
    <3>1. i \in 1 .. n /\ i + 1 \in 1 .. n + 1
      BY <2>2, <1>2
    <3> QED
      BY <3>1, <1>3, <1>4, <1>7
  <2> QED
    BY <2>1, <2>2
<1>9. StreamPath(pp, qq, v, a, e, h, g)
  <2>1. Len(v) + 1 = n + 2 /\ 1 \in 1 .. n + 1
    BY <1>2
  <2> QED
    BY <2>1, <1>2, <1>5, <1>6, <1>7, <1>8 DEF StreamPath
<1>10. Stream(v, a, e, h, g)
  <2>1. Len(v) + 1 = n + 2
    BY <1>2
  <2> QED
    BY <2>1, <1>6, <1>9 DEF Stream
<1> QED
  BY <1>10 DEF v

\* The path depends on types and bodies only.
LEMMA StreamSame ==
    ASSUME NEW w \in Seq(Records), NEW v \in Seq(Records), Len(v) = Len(w),
           \A i \in 1 .. Len(w) : v[i].type = w[i].type /\ v[i].body = w[i].body,
           NEW a, NEW b, NEW h, NEW k, Stream(w, a, b, h, k)
    PROVE  Stream(v, a, b, h, k)
<1>1. PICK p \in [1 .. Len(w) + 1 -> Nat], q \in [1 .. Len(w) + 1 -> {0, 1}] :
          StreamPath(p, q, w, a, b, h, k)
  BY DEF Stream
<1>2. \A i \in 1 .. Len(w) : StreamStep(w[i], p[i], p[i + 1], q[i], q[i + 1])
  BY <1>1 DEF StreamPath
<1>3. \A i \in 1 .. Len(w) : StreamStep(v[i], p[i], p[i + 1], q[i], q[i + 1])
  BY <1>2 DEF StreamStep
<1>4. StreamPath(p, q, v, a, b, h, k)
  BY <1>1, <1>3 DEF StreamPath
<1> QED
  BY <1>4 DEF Stream

\* The path of key generations without its first record.
LEMMA EpochsTail ==
    ASSUME NEW w \in Seq(Records), w # << >>, NEW a, NEW b, NEW damaged, Epochs(w, a, b, damaged)
    PROVE  /\ w[1].epoch # a => damaged
           /\ a \in Nat
           /\ Epochs(Tail(w), a + (IF IsUpdate(w[1]) THEN 1 ELSE 0), b, damaged)
<1>1. PICK f \in [1 .. Len(w) + 1 -> Nat] : EpochPath(f, w, a, b, damaged)
  BY DEF Epochs
<1>2. Len(w) \in Nat \ {0} /\ Tail(w) \in Seq(Records) /\ Len(Tail(w)) = Len(w) - 1
  OBVIOUS
<1>3. \A i \in 1 .. Len(w) - 1 : Tail(w)[i] = w[i + 1]
  OBVIOUS
<1>4. \A i \in 1 .. Len(w) : /\ f[i + 1] = f[i] + (IF IsUpdate(w[i]) THEN 1 ELSE 0)
                             /\ w[i].epoch # f[i] => damaged
  BY <1>1 DEF EpochPath
<1>5. f[1] = a /\ f[Len(w) + 1] = b
  BY <1>1 DEF EpochPath
<1> DEFINE ff == [i \in 1 .. Len(w) |-> f[i + 1]]
<1>6. ff \in [1 .. Len(w) -> Nat] /\ \A i \in 1 .. Len(w) : ff[i] = f[i + 1]
  BY <1>2
<1> HIDE DEF ff
<1>7. 1 \in 1 .. Len(w) /\ Len(w) \in 1 .. Len(w) /\ Len(Tail(w)) + 1 = Len(w) /\ 1 + 1 = 2
  BY <1>2
<1>8. \A i \in 1 .. Len(w) - 1 : /\ ff[i + 1] = ff[i] + (IF IsUpdate(Tail(w)[i]) THEN 1 ELSE 0)
                                 /\ Tail(w)[i].epoch # ff[i] => damaged
  <2> TAKE i \in 1 .. Len(w) - 1
  <2>1. i \in 1 .. Len(w) /\ i + 1 \in 1 .. Len(w)
    BY <1>2
  <2>2. /\ f[i + 1 + 1] = f[i + 1] + (IF IsUpdate(w[i + 1]) THEN 1 ELSE 0)
        /\ w[i + 1].epoch # f[i + 1] => damaged
    BY <2>1, <1>4
  <2> QED
    BY <2>1, <2>2, <1>3, <1>6
<1>9. ff[1] = a + (IF IsUpdate(w[1]) THEN 1 ELSE 0)
  BY <1>4, <1>5, <1>6, <1>7
<1>10. ff[Len(w)] = b
  BY <1>5, <1>6, <1>7
<1>11. EpochPath(ff, Tail(w), a + (IF IsUpdate(w[1]) THEN 1 ELSE 0), b, damaged)
  BY <1>2, <1>6, <1>7, <1>8, <1>9, <1>10 DEF EpochPath
<1>12. Epochs(Tail(w), a + (IF IsUpdate(w[1]) THEN 1 ELSE 0), b, damaged)
  BY <1>6, <1>7, <1>11 DEF Epochs
<1>13. a \in Nat /\ (w[1].epoch # a => damaged)
  BY <1>4, <1>5, <1>7
<1> QED
  BY <1>12, <1>13

\* The path of key generations with a record more.
LEMMA EpochsAppend ==
    ASSUME NEW w \in Seq(Records), NEW rec \in Records, NEW a, NEW b \in Nat, NEW damaged,
           Epochs(w, a, b, damaged), rec.epoch = b
    PROVE  Epochs(Append(w, rec), a, b + (IF IsUpdate(rec) THEN 1 ELSE 0), damaged)
<1>1. PICK f \in [1 .. Len(w) + 1 -> Nat] : EpochPath(f, w, a, b, damaged)
  BY DEF Epochs
<1> DEFINE v == Append(w, rec)
           n == Len(w)
           e == b + (IF IsUpdate(rec) THEN 1 ELSE 0)
           ff == [i \in 1 .. n + 2 |-> IF i = n + 2 THEN e ELSE f[i]]
<1>2. n \in Nat /\ v \in Seq(Records) /\ Len(v) = n + 1
  OBVIOUS
<1>3. v[n + 1] = rec /\ \A i \in 1 .. n : v[i] = w[i]
  OBVIOUS
<1>4. \A i \in 1 .. n : /\ f[i + 1] = f[i] + (IF IsUpdate(w[i]) THEN 1 ELSE 0)
                        /\ w[i].epoch # f[i] => damaged
  BY <1>1 DEF EpochPath
<1>5. f[1] = a /\ f[n + 1] = b
  BY <1>1 DEF EpochPath
<1>6. e \in Nat
  OBVIOUS
<1> HIDE DEF v
<1>7. ff \in [1 .. n + 2 -> Nat] /\ ff[n + 2] = e /\ \A i \in 1 .. n + 1 : ff[i] = f[i]
  <2> HIDE DEF e
  <2> QED
    BY <1>2, <1>6
<1> HIDE DEF ff
<1>8. \A i \in 1 .. n + 1 : /\ ff[i + 1] = ff[i] + (IF IsUpdate(v[i]) THEN 1 ELSE 0)
                            /\ v[i].epoch # ff[i] => damaged
  <2> TAKE i \in 1 .. n + 1
  <2>1. CASE i = n + 1
    <3>1. ff[i] = b /\ ff[i + 1] = e /\ v[i] = rec
      <4>1. i + 1 = n + 2
        BY <2>1, <1>2
      <4> QED
        BY <4>1, <2>1, <1>3, <1>5, <1>7
    <3> QED
      BY <3>1
  <2>2. CASE i # n + 1
    <3>1. i \in 1 .. n /\ i + 1 \in 1 .. n + 1
      BY <2>2, <1>2
    <3> QED
      BY <3>1, <1>3, <1>4, <1>7
  <2> QED
    BY <2>1, <2>2
<1>9. Len(v) + 1 = n + 2 /\ 1 \in 1 .. n + 1
  BY <1>2
<1> HIDE DEF e
<1>10. EpochPath(ff, v, a, e, damaged)
  BY <1>2, <1>5, <1>7, <1>8, <1>9 DEF EpochPath
<1>11. Epochs(v, a, e, damaged)
  BY <1>7, <1>9, <1>10 DEF Epochs
<1> QED
  BY <1>11 DEF v, e

\* A record is damaged.
LEMMA EpochsDamage ==
    ASSUME NEW w \in Seq(Records), NEW v \in Seq(Records), Len(v) = Len(w),
           \A i \in 1 .. Len(w) : v[i].body = w[i].body,
           NEW a, NEW b, NEW damaged, Epochs(w, a, b, damaged)
    PROVE  Epochs(v, a, b, TRUE)
<1>1. PICK f \in [1 .. Len(w) + 1 -> Nat] : EpochPath(f, w, a, b, damaged)
  BY DEF Epochs
<1>2. \A i \in 1 .. Len(w) : f[i + 1] = f[i] + (IF IsUpdate(v[i]) THEN 1 ELSE 0)
  BY <1>1 DEF EpochPath, IsUpdate
<1>3. EpochPath(f, v, a, b, TRUE)
  BY <1>1, <1>2 DEF EpochPath
<1> QED
  BY <1>3 DEF Epochs

\* A record more is sealed.
LEMMA SealedAppend ==
    ASSUME NEW w \in Seq(Sent), NEW rec \in Sent, NEW b \in Nat, SealedInStep(w, b), rec.epoch = b
    PROVE  SealedInStep(w \o <<rec>>, b + (IF rec.what = "KEY_UPDATE" THEN 1 ELSE 0))
<1>1. PICK f \in [1 .. Len(w) + 1 -> Nat] : SealedPath(f, w, b)
  BY DEF SealedInStep
<1> DEFINE v == w \o <<rec>>
           n == Len(w)
           e == b + (IF rec.what = "KEY_UPDATE" THEN 1 ELSE 0)
           ff == [i \in 1 .. n + 2 |-> IF i = n + 2 THEN e ELSE f[i]]
<1>2. n \in Nat /\ v \in Seq(Sent) /\ Len(v) = n + 1
  OBVIOUS
<1>3. v[n + 1] = rec /\ \A i \in 1 .. n : v[i] = w[i]
  OBVIOUS
<1>4. \A i \in 1 .. n : /\ f[i + 1] = f[i] + (IF w[i].what = "KEY_UPDATE" THEN 1 ELSE 0)
                        /\ w[i].epoch = f[i]
  BY <1>1 DEF SealedPath
<1>5. f[1] = 0 /\ f[n + 1] = b
  BY <1>1 DEF SealedPath
<1>6. e \in Nat
  OBVIOUS
<1> HIDE DEF v
<1>7. ff \in [1 .. n + 2 -> Nat] /\ ff[n + 2] = e /\ \A i \in 1 .. n + 1 : ff[i] = f[i]
  <2> HIDE DEF e
  <2> QED
    BY <1>2, <1>6
<1> HIDE DEF ff
<1>8. \A i \in 1 .. n + 1 : /\ ff[i + 1] = ff[i] + (IF v[i].what = "KEY_UPDATE" THEN 1 ELSE 0)
                            /\ v[i].epoch = ff[i]
  <2> TAKE i \in 1 .. n + 1
  <2>1. CASE i = n + 1
    <3>1. ff[i] = b /\ ff[i + 1] = e /\ v[i] = rec
      <4>1. i + 1 = n + 2
        BY <2>1, <1>2
      <4> QED
        BY <4>1, <2>1, <1>3, <1>5, <1>7
    <3> QED
      BY <3>1
  <2>2. CASE i # n + 1
    <3>1. i \in 1 .. n /\ i + 1 \in 1 .. n + 1
      BY <2>2, <1>2
    <3> QED
      BY <3>1, <1>3, <1>4, <1>7
  <2> QED
    BY <2>1, <2>2
<1>9. Len(v) + 1 = n + 2 /\ 1 \in 1 .. n + 1
  BY <1>2
<1> HIDE DEF e
<1>10. SealedPath(ff, v, e)
  BY <1>2, <1>5, <1>7, <1>8, <1>9 DEF SealedPath
<1>11. SealedInStep(v, e)
  BY <1>7, <1>9, <1>10 DEF SealedInStep
<1> QED
  BY <1>11 DEF v, e

----------------------------------------------------------------------------
\* What s2n_process_alert_fragment makes of a body of at most two bytes.
LEMMA AlertFragment ==
    ASSUME NEW body \in Seq(Units), Len(body) \in 0 .. 2, alert_in \in Seq(Units), Len(alert_in) \in 0 .. 2
    PROVE  LET p == s2n_process_alert_fragment(body)
           IN  /\ p.result \in {"OK", "CLOSE_NOTIFY", "ALERT", "ALERT_PRESENT"}
               /\ p.alert_in \in Seq(Units) /\ Len(p.alert_in) \in 0 .. 2
               /\ p.in \in Seq(Units)
               /\ p.result = "ALERT_PRESENT" <=> Len(alert_in) = 2
               /\ p.result = "ALERT" => /\ Len(p.alert_in) = 2
                                        /\ p.alert_in[1].what # "CLOSE_NOTIFY"
                                        /\ ~s2n_handle_as_warning(p.alert_in[1].what)
               /\ Len(alert_in) + Len(body) <= 2 /\ Len(alert_in) < 2 => p.in = << >>
               /\ p.result = "OK" /\ Len(alert_in) + Len(body) <= 2 /\ Len(alert_in) < 2 =>
                     Len(p.alert_in) = IF Len(alert_in) + Len(body) < 2 THEN Len(alert_in) + Len(body) ELSE 0
<1>1. Len(body) \in 0 .. 2 /\ Len(alert_in) \in 0 .. 2
  <2>1. Len(body) \in Nat /\ Len(alert_in) \in Nat
    OBVIOUS
  <2> QED
    BY <2>1
<1> DEFINE n    == IF Len(body) < 2 - Len(alert_in) THEN Len(body) ELSE 2 - Len(alert_in)
           got  == alert_in \o SubSeq(body, 1, n)
           rest == SubSeq(body, n + 1, Len(body))
           a    == got[1].what
           p    == s2n_process_alert_fragment(body)
<1>2. n \in 0 .. Len(body) /\ n <= 2 - Len(alert_in)
  <2>1. \A x \in 0 .. 2, y \in 0 .. 2 :
           LET z == IF x < 2 - y THEN x ELSE 2 - y IN z \in 0 .. x /\ z <= 2 - y
    OBVIOUS
  <2> QED
    BY <2>1, <1>1, Zenon
<1>3. n = Len(body) \/ n = 2 - Len(alert_in)
  OBVIOUS
<1>4. got \in Seq(Units) /\ Len(got) = Len(alert_in) + n
  <2>1. SubSeq(body, 1, n) \in Seq(Units) /\ Len(SubSeq(body, 1, n)) = n
    <3> HIDE DEF n
    <3> QED
      BY <1>1, <1>2
  <2> HIDE DEF n
  <2> QED
    BY <1>1, <2>1
<1>5. rest \in Seq(Units) /\ (n = Len(body) => rest = << >>)
  <2> HIDE DEF n
  <2>1. rest \in Seq(Units)
    BY <1>1, <1>2
  <2>2. n = Len(body) => rest = << >>
    BY <1>1, <1>2
  <2> QED
    BY <2>1, <2>2
<1>6. p = IF Len(alert_in) = 2 THEN [result |-> "ALERT_PRESENT", alert_in |-> alert_in, in |-> body]
          ELSE IF Len(got) < 2 THEN [result |-> "OK", alert_in |-> got, in |-> rest]
          ELSE IF a = "CLOSE_NOTIFY" THEN [result |-> "CLOSE_NOTIFY", alert_in |-> got, in |-> rest]
          ELSE IF s2n_handle_as_warning(a) THEN [result |-> "OK", alert_in |-> << >>, in |-> rest]
          ELSE [result |-> "ALERT", alert_in |-> got, in |-> rest]
  BY DEF s2n_process_alert_fragment
<1>7. Len(alert_in) + Len(body) <= 2 => n = Len(body)
  BY <1>1
<1>8. << >> \in Seq(Units) /\ Len(<< >>) = 0
  OBVIOUS
<1> HIDE DEF n, got, rest, p
<1> SUFFICES
       /\ p.result \in {"OK", "CLOSE_NOTIFY", "ALERT", "ALERT_PRESENT"}
       /\ p.alert_in \in Seq(Units) /\ Len(p.alert_in) \in 0 .. 2
       /\ p.in \in Seq(Units)
       /\ p.result = "ALERT_PRESENT" <=> Len(alert_in) = 2
       /\ p.result = "ALERT" => /\ Len(p.alert_in) = 2
                                /\ p.alert_in[1].what # "CLOSE_NOTIFY"
                                /\ ~s2n_handle_as_warning(p.alert_in[1].what)
       /\ Len(alert_in) + Len(body) <= 2 /\ Len(alert_in) < 2 => p.in = << >>
       /\ p.result = "OK" /\ Len(alert_in) + Len(body) <= 2 /\ Len(alert_in) < 2 =>
             Len(p.alert_in) = IF Len(alert_in) + Len(body) < 2 THEN Len(alert_in) + Len(body) ELSE 0
  BY DEF p
<1>9. CASE Len(alert_in) = 2
  <2>1. p = [result |-> "ALERT_PRESENT", alert_in |-> alert_in, in |-> body]
    BY <1>9, <1>6
  <2> QED
    BY <2>1, <1>9, <1>1
<1>10. CASE Len(alert_in) # 2 /\ Len(got) < 2
  BY <1>10, <1>6, <1>1, <1>2, <1>3, <1>4, <1>5, <1>7
<1>11. CASE Len(alert_in) # 2 /\ ~(Len(got) < 2) /\ a = "CLOSE_NOTIFY"
  BY <1>11, <1>6, <1>1, <1>2, <1>3, <1>4, <1>5, <1>7
<1>12. CASE Len(alert_in) # 2 /\ ~(Len(got) < 2) /\ a # "CLOSE_NOTIFY" /\ s2n_handle_as_warning(a)
  BY <1>12, <1>6, <1>1, <1>2, <1>3, <1>4, <1>5, <1>7, <1>8
<1>13. CASE Len(alert_in) # 2 /\ ~(Len(got) < 2) /\ a # "CLOSE_NOTIFY" /\ ~s2n_handle_as_warning(a)
  <2>1. p = [result |-> "ALERT", alert_in |-> got, in |-> rest]
    BY <1>13, <1>6
  <2>2. Len(got) = 2
    BY <1>13, <1>1, <1>2, <1>4
  <2> QED
    BY <2>1, <2>2, <1>13, <1>1, <1>4, <1>5, <1>7
<1> QED
  BY <1>9, <1>10, <1>11, <1>12, <1>13

\* The shapes of records without the first, and with one more.
LEMMA ShapesTail ==
    ASSUME NEW w \in Seq(Records), w # << >>, Shapes(w)
    PROVE  Shapes(Tail(w)) /\ Tail(w) \in Seq(Records)
<1>1. Len(w) \in Nat \ {0} /\ Tail(w) \in Seq(Records) /\ Len(Tail(w)) = Len(w) - 1
  OBVIOUS
<1>2. \A i \in 1 .. Len(w) - 1 : Tail(w)[i] = w[i + 1] /\ i + 1 \in 1 .. Len(w)
  BY <1>1
<1> QED
  BY <1>1, <1>2 DEF Shapes

\* A record of one alert or of half of one may follow.
LEMMA ShapesAppend ==
    ASSUME NEW w \in Seq(Records), NEW rec \in Records, Shapes(w), rec.body # << >>,
           rec.type = "ALERT" => Len(rec.body) \in 1 .. 2 /\ ~IsUpdate(rec)
    PROVE  Shapes(Append(w, rec)) /\ Append(w, rec) \in Seq(Records)
<1> DEFINE v == Append(w, rec)
<1>1. v \in Seq(Records) /\ Len(v) = Len(w) + 1 /\ Len(w) \in Nat
  OBVIOUS
<1>2. v[Len(w) + 1] = rec /\ \A i \in 1 .. Len(w) : v[i] = w[i]
  OBVIOUS
<1> HIDE DEF v
<1>3. \A i \in 1 .. Len(w) + 1 : i \in 1 .. Len(w) \/ i = Len(w) + 1
  BY <1>1
<1>4. Shapes(v)
  BY <1>1, <1>2, <1>3 DEF Shapes
<1> QED
  BY <1>1, <1>4 DEF v

\* A call takes some of the data in a body and leaves the rest: nothing is lost.
LEMMA Deliver ==
    ASSUME NEW d \in Seq(Units), NEW body \in Seq(Units), NEW n \in 1 .. Len(body),
           \A i \in 1 .. Len(d) : d[i] = Unit("DATA", i),
           \A i \in 1 .. Len(body) : body[i] = Unit("DATA", Len(d) + i)
    PROVE  LET dd   == d \o SubSeq(body, 1, n)
               rest == SubSeq(body, n + 1, Len(body))
           IN  /\ dd \in Seq(Units) /\ rest \in Seq(Units)
               /\ \A i \in 1 .. Len(dd) : dd[i] = Unit("DATA", i)
               /\ \A i \in 1 .. Len(rest) : rest[i] = Unit("DATA", Len(dd) + i)
               /\ Len(dd) + Len(rest) = Len(d) + Len(body)
               /\ n = Len(body) => rest = << >>
<1> DEFINE a    == SubSeq(body, 1, n)
           dd   == d \o a
           rest == SubSeq(body, n + 1, Len(body))
<1>1. Len(d) \in Nat /\ Len(body) \in Nat
  OBVIOUS
<1>2. a \in Seq(Units) /\ Len(a) = n /\ \A i \in 1 .. n : a[i] = body[i]
  BY <1>1
<1>3. rest \in Seq(Units) /\ Len(rest) = Len(body) - n /\ \A i \in 1 .. Len(body) - n : rest[i] = body[n + i]
  BY <1>1
<1>4. n = Len(body) => rest = << >>
  BY <1>1
<1> HIDE DEF a, rest
<1>5. dd \in Seq(Units) /\ Len(dd) = Len(d) + n
  <2>1. dd \in Seq(Units) /\ Len(dd) = Len(d) + Len(a)
    BY <1>2, ConcatProperties, Zenon
  <2> QED
    BY <2>1, <1>2, Zenon
<1>6. \A i \in 1 .. Len(d) + n : dd[i] = IF i <= Len(d) THEN d[i] ELSE a[i - Len(d)]
  <2>1. \A i \in 1 .. Len(d) + Len(a) : dd[i] = IF i <= Len(d) THEN d[i] ELSE a[i - Len(d)]
    BY <1>2, ConcatProperties, Zenon
  <2> QED
    BY <2>1, <1>2
<1> HIDE DEF dd
<1>7. \A i \in 1 .. Len(dd) : dd[i] = Unit("DATA", i)
  <2> TAKE i \in 1 .. Len(dd)
  <2>1. CASE i <= Len(d)
    BY <2>1, <1>1, <1>5, <1>6
  <2>2. CASE ~(i <= Len(d))
    <3>1. i - Len(d) \in 1 .. n /\ i - Len(d) \in 1 .. Len(body) /\ Len(d) + (i - Len(d)) = i
      BY <2>2, <1>1, <1>5
    <3>2. dd[i] = body[i - Len(d)]
      BY <3>1, <2>2, <1>1, <1>2, <1>5, <1>6
    <3> QED
      BY <3>1, <3>2
  <2> QED
    BY <2>1, <2>2
<1>8. \A i \in 1 .. Len(rest) : rest[i] = Unit("DATA", Len(dd) + i)
  <2> TAKE i \in 1 .. Len(rest)
  <2>1. i \in 1 .. Len(body) - n /\ n + i \in 1 .. Len(body) /\ Len(d) + (n + i) = Len(dd) + i
    BY <1>1, <1>3, <1>5
  <2>2. rest[i] = body[n + i]
    BY <2>1, <1>3
  <2> QED
    BY <2>1, <2>2
<1>9. Len(dd) + Len(rest) = Len(d) + Len(body)
  BY <1>1, <1>3, <1>5
<1> QED
  BY <1>3, <1>4, <1>5, <1>7, <1>8, <1>9 DEF dd, rest, a

\* Indices of short sequences.
LEMMA ShortIndices ==
    \A n \in 1 .. 2 : \A i \in 1 .. n : i = 1 \/ (i = 2 /\ n = 2)
OBVIOUS

\* Short sequences are the same when their elements are.
LEMMA SameElements ==
    ASSUME NEW S, NEW t \in Seq(S), NEW u \in Seq(S), Len(t) = Len(u), Len(t) \in 1 .. 2,
           t[1] = u[1], Len(t) = 2 => t[2] = u[2]
    PROVE  t = u
<1>1. \A i \in 1 .. Len(t) : i = 1 \/ (i = 2 /\ Len(t) = 2)
  BY ShortIndices, Zenon
<1>2. \A i \in 1 .. Len(t) : t[i] = u[i]
  BY <1>1, Zenon
<1> QED
  BY <1>2, SeqEqual, Zenon

\* What SubSeq takes from a sequence of two elements.
LEMMA SubSeqOfTwo ==
    ASSUME NEW S, NEW t \in Seq(S), Len(t) = 2
    PROVE  SubSeq(t, 1, 0) = << >> /\ SubSeq(t, 1, 1) = <<t[1]>> /\ SubSeq(t, 1, 2) = t
<1>1. t[1] \in S /\ t[2] \in S
  <2>1. \A n : n = 2 => 1 \in 1 .. n /\ 2 \in 1 .. n
    OBVIOUS
  <2> QED
    BY <2>1, ElementOfSeq, Zenon
<1>2. SubSeq(t, 1, 0) = << >>
  OBVIOUS
<1>3. SubSeq(t, 1, 1) = <<t[1]>>
  <2> DEFINE u == SubSeq(t, 1, 1)
             v == <<t[1]>>
  <2>1. v \in Seq(S) /\ Len(v) = 1 /\ v[1] = t[1]
    BY <1>1
  <2>2. u \in Seq(S) /\ Len(u) = 1 /\ u[1] = t[1]
    BY <1>1
  <2> HIDE DEF u, v
  <2>3. Len(u) = Len(v) /\ Len(u) \in 1 .. 2 /\ Len(u) # 2 /\ u[1] = v[1]
    BY <2>1, <2>2
  <2>4. u = v
    BY <2>1, <2>2, <2>3, SameElements, Zenon
  <2> QED
    BY <2>4 DEF u, v
<1>4. SubSeq(t, 1, 2) = t
  <2> DEFINE u == SubSeq(t, 1, 2)
  <2>1. u \in Seq(S) /\ Len(u) = 2 /\ u[1] = t[1] /\ u[2] = t[2]
    BY <1>1
  <2> HIDE DEF u
  <2>2. Len(u) = Len(t) /\ Len(u) \in 1 .. 2
    BY <2>1
  <2>3. u = t
    BY <2>1, <2>2, SameElements, Zenon
  <2> QED
    BY <2>3 DEF u
<1> QED
  BY <1>2, <1>3, <1>4, Zenon

\* Two sequences of one element make one of two.
LEMMA ConcatOfOnes ==
    ASSUME NEW S, NEW x \in S, NEW y \in S
    PROVE  <<x>> \o <<y>> = <<x, y>>
<1> DEFINE u == <<x>> \o <<y>>
           v == <<x, y>>
<1>1. u \in Seq(S) /\ Len(u) = 2 /\ u[1] = x /\ u[2] = y
  OBVIOUS
<1>2. v \in Seq(S) /\ Len(v) = 2 /\ v[1] = x /\ v[2] = y
  OBVIOUS
<1> HIDE DEF u, v
<1>3. Len(u) = Len(v) /\ Len(u) \in 1 .. 2 /\ u[1] = v[1] /\ u[2] = v[2]
  BY <1>1, <1>2
<1>4. u = v
  BY <1>1, <1>2, <1>3, SameElements, Zenon
<1> QED
  BY <1>4 DEF u, v

----------------------------------------------------------------------------
(***************************************************************************)
(* What is sealed: s2n_flush and s2n_send.                                 *)
(***************************************************************************)
\* s2n_flush, blocked or not, at most seals the alert that was queued.
LEMMA FlushKeepsKeys ==
    ASSUME TypeOK, WriteKeys, NEW queued \in BOOLEAN, FlushAll(queued) \/ FlushBlocks(queued),
           send_epoch' = send_epoch
    PROVE  /\ out' \in Seq(Sent) /\ sent' \in Seq(Sent) /\ WriteKeys'
           /\ writer_alert_out' \in BOOLEAN
<1> DEFINE rec == [what |-> "CLOSE_NOTIFY", epoch |-> send_epoch]
           q   == sent \o out
<1>1. out \in Seq(Sent) /\ sent \in Seq(Sent) /\ send_epoch \in Nat
  BY DEF TypeOK
<1>2. rec \in Sent /\ rec.epoch = send_epoch /\ rec.what # "KEY_UPDATE"
  BY <1>1 DEF Sent
<1>3. Written("CLOSE_NOTIFY") = <<rec>>
  BY DEF Written
<1>4. q \in Seq(Sent)
  BY <1>1
<1> HIDE DEF rec
<1>5. SealedInStep(q \o <<rec>>, send_epoch)
  <2>1. SealedInStep(q, send_epoch)
    BY DEF WriteKeys
  <2>2. send_epoch + (IF rec.what = "KEY_UPDATE" THEN 1 ELSE 0) = send_epoch
    BY <1>1, <1>2
  <2> HIDE DEF q
  <2> QED
    BY <1>1, <1>2, <1>4, <2>1, <2>2, SealedAppend
<1>6. <<rec>> \in Seq(Sent) /\ << >> \in Seq(Sent)
  BY <1>2
<1>7. CASE FlushAll(queued) /\ queued
  <2>1. sent' = q \o <<rec>> /\ out' = << >> /\ writer_alert_out' = FALSE
    BY <1>3, <1>7 DEF FlushAll
  <2>2. sent' \in Seq(Sent)
    BY <2>1, <1>4, <1>6
  <2>3. sent' \o out' = q \o <<rec>>
    BY <2>1, <2>2
  <2> QED
    BY <2>1, <2>2, <2>3, <1>5, <1>6 DEF WriteKeys
<1>8. CASE FlushAll(queued) /\ ~queued
  <2>1. sent' = q \o << >> /\ out' = << >> /\ writer_alert_out' = FALSE
    BY <1>8 DEF FlushAll
  <2>2. sent' = q
    BY <2>1, <1>4
  <2>3. sent' \o out' = q
    BY <2>1, <2>2, <1>4
  <2> QED
    BY <2>1, <2>2, <2>3, <1>4, <1>6 DEF WriteKeys
<1>9. CASE out' = out /\ sent' = sent /\ writer_alert_out' = queued
  BY <1>9, <1>1 DEF WriteKeys
<1>10. CASE sent' = q /\ out' = <<rec>> /\ writer_alert_out' = FALSE
  BY <1>10, <1>4, <1>5, <1>6 DEF WriteKeys
<1>11. FlushBlocks(queued) => \/ out' = out /\ sent' = sent /\ writer_alert_out' = queued
                              \/ sent' = q /\ out' = <<rec>> /\ writer_alert_out' = FALSE
  BY <1>3 DEF FlushBlocks
<1> QED
  BY <1>7, <1>8, <1>9, <1>10, <1>11

\* s2n_send seals a KeyUpdate if one is due, and data behind it unless it blocks.
LEMMA SendKeepsKeys ==
    ASSUME TypeOK, WriteKeys, s2n_send
    PROVE  /\ out' \in Seq(Sent) /\ sent' \in Seq(Sent) /\ send_epoch' \in Nat /\ WriteKeys'
           /\ key_update_pending' \in BOOLEAN
<1> DEFINE q   == sent \o out
           upd == [what |-> "KEY_UPDATE", epoch |-> send_epoch]
<1>1. out \in Seq(Sent) /\ sent \in Seq(Sent) /\ send_epoch \in Nat /\ key_update_pending \in BOOLEAN
  BY DEF TypeOK
<1>2. q \in Seq(Sent) /\ SealedInStep(q, send_epoch)
  BY <1>1 DEF WriteKeys
<1> HIDE DEF q
<1>3. PICK k \in 0 .. Len(SendRecords) :
          /\ sent' = q \o SubSeq(SendRecords, 1, k)
          /\ out' = IF k = Len(SendRecords) THEN << >> ELSE <<SendRecords[k + 1]>>
  BY DEF s2n_send, q
<1>4. send_epoch' = SendRecords[Len(SendRecords)].epoch /\ key_update_pending' = FALSE
  BY DEF s2n_send
<1>5. CASE ~key_update_pending
  <2> DEFINE data == [what |-> "DATA", epoch |-> send_epoch]
  <2>1. SendRecords = <<data>>
    BY <1>5, <1>1 DEF SendRecords
  <2>2. data \in Sent /\ data.epoch = send_epoch /\ data.what # "KEY_UPDATE"
    BY <1>1 DEF Sent
  <2> HIDE DEF data
  <2>3. <<data>> \in Seq(Sent) /\ << >> \in Seq(Sent) /\ Len(<<data>>) = 1
    BY <2>2
  <2>4. SealedInStep(q \o <<data>>, send_epoch)
    <3>1. send_epoch + (IF data.what = "KEY_UPDATE" THEN 1 ELSE 0) = send_epoch
      BY <1>1, <2>2
    <3> QED
      BY <1>1, <1>2, <2>2, <3>1, SealedAppend
  <2>5. send_epoch' = send_epoch
    BY <1>4, <2>1, <2>2
  <2>6. k = 0 \/ k = 1
    BY <1>3, <2>1
  <2>7. CASE k = 0
    <3>1. SubSeq(SendRecords, 1, k) = << >>
      BY <2>7, <2>1
    <3>2. sent' = q /\ out' = <<data>>
      BY <3>1, <2>7, <1>2, <1>3, <2>1
    <3> QED
      BY <3>2, <1>1, <1>2, <1>4, <2>3, <2>4, <2>5 DEF WriteKeys
  <2>8. CASE k = 1
    <3>1. SubSeq(SendRecords, 1, k) = <<data>>
      <4>1. SubSeq(SendRecords, 1, k) = SubSeq(<<data>>, 1, Len(<<data>>))
        BY <2>1, <2>3, <2>8
      <4>2. \A ss \in Seq(Sent) : SubSeq(ss, 1, Len(ss)) = ss
        BY SubSeqFull, Zenon
      <4> QED
        BY <4>1, <4>2, <2>3
    <3>2. sent' = q \o <<data>> /\ out' = << >>
      BY <3>1, <2>8, <1>3, <2>1
    <3>3. sent' \in Seq(Sent) /\ sent' \o out' = q \o <<data>>
      BY <3>2, <1>2, <2>3
    <3> QED
      BY <3>2, <3>3, <1>1, <1>4, <2>3, <2>4, <2>5 DEF WriteKeys
  <2> QED
    BY <2>6, <2>7, <2>8
<1>6. CASE key_update_pending
  <2> DEFINE data == [what |-> "DATA", epoch |-> send_epoch + 1]
             v    == q \o <<upd>>
  <2>1. SendRecords = <<upd, data>>
    <3>1. Written("KEY_UPDATE") = <<upd>>
      BY DEF Written
    <3>2. SendRecords = <<upd>> \o <<data>>
      BY <1>6, <3>1 DEF SendRecords
    <3>3. <<upd>> \o <<data>> = <<upd, data>>
      <4>1. upd \in Sent /\ data \in Sent
        BY <1>1 DEF Sent
      <4> HIDE DEF upd, data
      <4> QED
        BY <4>1, ConcatOfOnes
    <3> QED
      BY <3>2, <3>3
  <2>2. data \in Sent /\ data.epoch = send_epoch + 1 /\ data.what # "KEY_UPDATE"
    BY <1>1 DEF Sent
  <2>3. upd \in Sent /\ upd.epoch = send_epoch /\ upd.what = "KEY_UPDATE"
    BY <1>1 DEF Sent
  <2> HIDE DEF data, upd
  <2>4. <<data>> \in Seq(Sent) /\ << >> \in Seq(Sent) /\ <<upd>> \in Seq(Sent) /\ Len(<<upd, data>>) = 2
    BY <2>2, <2>3
  <2>5. SealedInStep(v, send_epoch + 1)
    <3>1. send_epoch + (IF upd.what = "KEY_UPDATE" THEN 1 ELSE 0) = send_epoch + 1
      BY <2>3
    <3> QED
      BY <1>1, <1>2, <2>3, <3>1, SealedAppend
  <2>6. v \in Seq(Sent)
    BY <1>2, <2>4
  <2> HIDE DEF v
  <2>7. SealedInStep(v \o <<data>>, send_epoch + 1)
    <3>1. (send_epoch + 1) + (IF data.what = "KEY_UPDATE" THEN 1 ELSE 0) = send_epoch + 1
      BY <1>1, <2>2
    <3>2. send_epoch + 1 \in Nat
      BY <1>1
    <3> QED
      BY <2>2, <2>5, <2>6, <3>1, <3>2, SealedAppend
  <2>8. send_epoch' = send_epoch + 1
    BY <1>4, <2>1, <2>2
  <2>9. k = 0 \/ k = 1 \/ k = 2
    BY <1>3, <2>1
  <2> DEFINE S2 == <<upd, data>>
  <2>13. /\ SubSeq(S2, 1, 0) = << >> /\ SubSeq(S2, 1, 1) = <<upd>> /\ SubSeq(S2, 1, 2) = S2
         /\ q \o S2 = v \o <<data>> /\ S2[1] = upd /\ S2[2] = data
    <3>1. S2 \in Seq(Sent) /\ Len(S2) = 2 /\ S2[1] = upd /\ S2[2] = data
      BY <2>2, <2>3
    <3>2. S2 = <<upd>> \o <<data>>
      BY <2>2, <2>3, ConcatOfOnes
    <3> DEFINE X == <<upd>>
               Y == <<data>>
    <3>3. X \in Seq(Sent) /\ Y \in Seq(Sent)
      BY <2>2, <2>3
    <3>4. v = q \o X
      BY DEF v
    <3> HIDE DEF S2
    <3>5. q \o S2 = v \o Y
      <4> HIDE DEF X, Y
      <4>1. q \o (X \o Y) = (q \o X) \o Y
        BY <1>2, <3>3, ConcatAssociative, SMTT(30)
      <4> QED
        BY <4>1, <3>2, <3>4 DEF X, Y
    <3>6. SubSeq(S2, 1, 0) = << >> /\ SubSeq(S2, 1, 1) = <<S2[1]>> /\ SubSeq(S2, 1, 2) = S2
      BY <3>1, SubSeqOfTwo, Zenon
    <3> QED
      BY <3>1, <3>5, <3>6
  <2>14. /\ sent' = q \o SubSeq(S2, 1, k)
         /\ out' = IF k = 2 THEN << >> ELSE <<S2[k + 1]>>
    BY <1>3, <2>1, <2>4
  <2>15. send_epoch + 1 \in Nat
    BY <1>1
  <2> HIDE DEF S2
  <2>16. \A s1, s2 \in Seq(Sent) : sent' = s1 /\ out' = s2 /\ SealedInStep(s1 \o s2, send_epoch + 1)
            => out' \in Seq(Sent) /\ sent' \in Seq(Sent) /\ WriteKeys'
    BY <2>8 DEF WriteKeys
  <2>17. q \o << >> = q /\ (v \o <<data>>) \o << >> = v \o <<data>> /\ v \o <<data>> \in Seq(Sent)
    BY <1>2, <2>4, <2>6
  <2>10. CASE k = 0
    <3>1. sent' = q /\ out' = <<upd>>
      <4>1. sent' = q \o << >>
        BY <2>10, <2>13, <2>14, Zenon
      <4>2. out' = <<upd>>
        BY <2>10, <2>13, <2>14
      <4> QED
        BY <4>1, <4>2, <2>17
    <3>2. SealedInStep(q \o <<upd>>, send_epoch + 1)
      BY <2>5 DEF v
    <3>3. out' \in Seq(Sent) /\ sent' \in Seq(Sent) /\ WriteKeys'
      BY <3>1, <3>2, <1>2, <2>4, <2>16, Zenon
    <3> QED
      BY <3>3, <1>4, <2>8, <2>15
  <2>11. CASE k = 1
    <3>1. sent' = q \o <<upd>> /\ out' = <<data>>
      BY <2>11, <2>13, <2>14
    <3>2. out' \in Seq(Sent) /\ sent' \in Seq(Sent) /\ WriteKeys'
      <4>1. sent' = v
        BY <3>1 DEF v
      <4> QED
        BY <3>1, <4>1, <2>4, <2>6, <2>7, <2>16, Zenon
    <3> QED
      BY <3>2, <1>4, <2>8, <2>15
  <2>12. CASE k = 2
    <3>1. sent' = v \o <<data>> /\ out' = << >>
      BY <2>12, <2>13, <2>14
    <3>2. SealedInStep((v \o <<data>>) \o << >>, send_epoch + 1)
      BY <2>7, <2>17, Zenon
    <3>3. out' \in Seq(Sent) /\ sent' \in Seq(Sent) /\ WriteKeys'
      BY <3>1, <3>2, <2>4, <2>16, <2>17, Zenon
    <3> QED
      BY <3>3, <1>4, <2>8, <2>15
  <2> QED
    BY <2>9, <2>10, <2>11, <2>12
<1> QED
  BY <1>5, <1>6

----------------------------------------------------------------------------
(***************************************************************************)
(* The peer's actions.                                                     *)
(***************************************************************************)
\* The peer sends a record that follows from what it sent before.
LEMMA PeerSendsKeeps ==
    ASSUME IInv, NEW type \in {"APPLICATION_DATA", "ALERT", "HANDSHAKE"}, NEW body \in Seq(Units),
           body # << >>,
           NEW after \in PeerState,
           Len(after.half) \in 0 .. 1, after.rest # << >> => after.half = << >>,
           PeerSends(type, body, after),
           StreamStep(RecordOf(type, body), peer.data, after.data, Len(peer.half), Len(after.half)),
           after.epoch = peer.epoch + (IF IsUpdate(RecordOf(type, body)) THEN 1 ELSE 0),
           after.damaged = peer.damaged,
           type = "ALERT" => Len(body) \in 1 .. 2 /\ ~IsUpdate(RecordOf(type, body))
    PROVE  IInv'
<1> DEFINE rec == RecordOf(type, body)
<1>1. TypeOK /\ Shapes(wire) /\ DataIntact /\ Flow /\ ReadKeys /\ WriteKeys /\ Errors
  BY DEF IInv
<1>2. /\ wire' = Append(wire, rec)
      /\ peer' = [after EXCEPT !.records = @ + 1]
      /\ UNCHANGED <<setup, in, in_status, alert_in, delivered, recv_epoch, key_update_pending,
                     out, sent, send_epoch, writer_alert_out, close_notify_queued,
                     closed, error, dropped>>
  BY DEF PeerSends, inVars, outVars
<1>3. wire \in Seq(Records) /\ peer.epoch \in Nat /\ peer.data \in Nat
  BY <1>1 DEF TypeOK, PeerState
<1>4. rec \in Records /\ rec.type = type /\ rec.epoch = peer.epoch /\ rec.body = body
  BY <1>3 DEF RecordOf, Records
<1>5. /\ peer' \in PeerState
      /\ peer'.data = after.data /\ peer'.epoch = after.epoch /\ peer'.half = after.half
      /\ peer'.damaged = peer.damaged /\ peer'.rest = after.rest
  <2> DEFINE more == [after EXCEPT !.records = @ + 1]
  <2>1. /\ more \in PeerState
        /\ more.data = after.data /\ more.epoch = after.epoch /\ more.half = after.half
        /\ more.damaged = after.damaged /\ more.rest = after.rest
    BY DEF PeerState
  <2> HIDE DEF more
  <2> QED
    BY <2>1, <1>2 DEF more
<1> HIDE DEF rec
<1>6. Shapes(wire)' /\ wire' \in Seq(Records)
  <2>1. Shapes(Append(wire, rec)) /\ Append(wire, rec) \in Seq(Records)
    BY <1>1, <1>3, <1>4, ShapesAppend DEF rec
  <2> QED
    BY <2>1, <1>2
<1>7. TypeOK'
  BY <1>1, <1>2, <1>5, <1>6 DEF TypeOK
<1>8. Flow'
  <2>1. ASSUME ~closed
        PROVE  Stream(wire', Len(delivered) + Len(in), peer'.data, Len(alert_in), Len(peer'.half))
    <3>1. Stream(wire, Len(delivered) + Len(in), peer.data, Len(alert_in), Len(peer.half))
      BY <1>1, <2>1 DEF Flow
    <3>2. after.data \in Nat /\ Len(after.half) \in {0, 1}
      BY DEF PeerState
    <3>3. StreamStep(rec, peer.data, after.data, Len(peer.half), Len(after.half))
      BY DEF rec
    <3>4. Stream(Append(wire, rec), Len(delivered) + Len(in), after.data, Len(alert_in), Len(after.half))
      <4> DEFINE a == Len(delivered) + Len(in)
                 h == Len(alert_in)
                 k == Len(peer.half)
                 g == Len(after.half)
      <4>1. Stream(wire, a, peer.data, h, k) /\ StreamStep(rec, peer.data, after.data, k, g) /\ g \in {0, 1}
        BY <3>1, <3>2, <3>3
      <4> HIDE DEF a, h, k, g
      <4>2. Stream(Append(wire, rec), a, after.data, h, g)
        BY <4>1, <3>2, <1>3, <1>4, StreamAppend
      <4> QED
        BY <4>2 DEF a, h, k, g
    <3> QED
      BY <3>4, <1>2, <1>5
  <2>2. ~closed => /\ \A i \in 1 .. Len(in) : in[i] = Unit("DATA", Len(delivered) + i)
                   /\ in_status = "ENCRYPTED" => in = << >>
    BY <1>1 DEF Flow
  <2> QED
    BY <2>1, <2>2, <1>2 DEF Flow
<1>9. ReadKeys'
  <2>1. ASSUME ~dropped, ~Paused
        PROVE  Epochs(wire', recv_epoch, peer'.epoch, peer'.damaged)
    <3>1. Epochs(wire, recv_epoch, peer.epoch, peer.damaged)
      BY <1>1, <2>1 DEF Paused, ReadKeys
    <3>2. Epochs(Append(wire, rec), recv_epoch, peer.epoch + (IF IsUpdate(rec) THEN 1 ELSE 0), peer.damaged)
      BY <3>1, <1>3, <1>4, EpochsAppend
    <3>3. after.epoch = peer.epoch + (IF IsUpdate(rec) THEN 1 ELSE 0)
      BY DEF rec
    <3> QED
      BY <3>2, <3>3, <1>2, <1>5
  <2> QED
    BY <2>1, <1>2 DEF Paused, ReadKeys
<1>10. DataIntact' /\ WriteKeys' /\ Errors'
  BY <1>1, <1>2, <1>5 DEF DataIntact, WriteKeys, Errors, s2n_handle_as_warning, Tls13
<1> QED
  BY <1>6, <1>7, <1>8, <1>9, <1>10 DEF IInv

\* Data: two units that go on from what was sent.
LEMMA PeerDataKeeps ==
    ASSUME IInv, PeerData
    PROVE  IInv'
<1> DEFINE x     == Unit("DATA", peer.data + 1)
           y     == Unit("DATA", peer.data + 2)
           body  == <<x, y>>
           after == [peer EXCEPT !.data = @ + 2]
           rec   == RecordOf("APPLICATION_DATA", body)
<1>1. /\ peer \in PeerState
      /\ peer.half = << >> /\ PeerSends("APPLICATION_DATA", body, after)
  BY DEF IInv, TypeOK, PeerData, PeerMayBegin
<1>2. x \in Units /\ y \in Units /\ y.what = "DATA"
  BY <1>1 DEF Unit, Units, PeerState
<1>3. body = DataBody(peer.data)
  BY DEF DataBody
<1> HIDE DEF x, y
<1>4. body \in Seq(Units) /\ Len(body) = 2 /\ body[2] = y /\ body # << >>
  BY <1>2
<1> HIDE DEF body
<1>5. rec.type = "APPLICATION_DATA" /\ rec.body = body
  BY DEF RecordOf
<1>6. ~IsUpdate(rec)
  BY <1>2, <1>4, <1>5 DEF IsUpdate, Last
<1>7. /\ after \in PeerState
      /\ after.data = peer.data + 2 /\ after.half = << >> /\ after.epoch = peer.epoch
      /\ after.damaged = peer.damaged
  BY <1>1 DEF PeerState
<1>8. Len(peer.half) = 0 /\ Len(after.half) = 0 /\ Len(after.half) \in 0 .. 1
  BY <1>1, <1>7
<1> HIDE DEF rec, after
<1>9. StreamStep(rec, peer.data, after.data, Len(peer.half), Len(after.half))
  BY <1>3, <1>5, <1>7, <1>8 DEF StreamStep
<1>10. after.epoch = peer.epoch + (IF IsUpdate(rec) THEN 1 ELSE 0)
  BY <1>1, <1>6, <1>7 DEF PeerState
<1> QED
  BY <1>1, <1>4, <1>6, <1>7, <1>8, <1>9, <1>10, PeerSendsKeeps DEF rec

\* Half an alert or a whole one, whatever the alert is.
LEMMA AlertUnits ==
    ASSUME NEW a \in Alerts
    PROVE  /\ AlertOf(a) \in Seq(Units) /\ Len(AlertOf(a)) = 2 /\ AlertOf(a)[2].what = a
           /\ <<Head(AlertOf(a))>> \in Seq(Units) /\ Len(<<Head(AlertOf(a))>>) = 1
           /\ <<Head(AlertOf(a))>>[1].what = a
           /\ Tail(AlertOf(a)) \in Seq(Units) /\ Len(Tail(AlertOf(a))) = 1
           /\ Tail(AlertOf(a))[1].what = a
<1> DEFINE x == Unit(a, 1)
           y == Unit(a, 2)
           s == <<x, y>>
<1>1. x \in Units /\ y \in Units /\ x.what = a /\ y.what = a
  BY DEF Unit, Units
<1>2. AlertOf(a) = s
  BY DEF AlertOf
<1> HIDE DEF x, y
<1>3. s \in Seq(Units) /\ Len(s) = 2 /\ s[1] = x /\ s[2] = y
  BY <1>1
<1> HIDE DEF s
<1>4. Head(s) = x /\ Tail(s) \in Seq(Units) /\ Len(Tail(s)) = 1 /\ Tail(s)[1] = y
  <2>1. \A t \in Seq(Units) : Len(t) = 2 =>
           Head(t) = t[1] /\ Tail(t) \in Seq(Units) /\ Len(Tail(t)) = 1 /\ Tail(t)[1] = t[2]
    BY SMTT(30)
  <2> QED
    BY <2>1, <1>3, Zenon
<1>5. <<x>> \in Seq(Units) /\ Len(<<x>>) = 1 /\ <<x>>[1] = x
  BY <1>1
<1> QED
  BY <1>1, <1>2, <1>3, <1>4, <1>5

\* A body of one or two units is not empty.
LEMMA NonEmpty == \A b \in Seq(Units) : Len(b) \in 1 .. 2 => b # << >>
OBVIOUS

\* A record of an alert, or of half of one, leads on.
LEMMA AlertRecordKeeps ==
    ASSUME IInv, NEW body \in Seq(Units), Len(body) \in 1 .. 2, Last(body).what # "KEY_UPDATE",
           NEW half \in Seq(Alerts), NEW over \in BOOLEAN, peer.rest = << >> \/ half = << >>,
           Len(body) = 2 => Len(peer.half) = 0 /\ Len(half) = 0,
           Len(body) = 1 => Len(half) = 1 - Len(peer.half),
           PeerSends("ALERT", body, [peer EXCEPT !.half = half, !.over = over])
    PROVE  IInv'
<1> DEFINE after == [peer EXCEPT !.half = half, !.over = over]
           rec   == RecordOf("ALERT", body)
<1>1. /\ peer \in PeerState
      /\ Len(peer.half) \in 0 .. 1
  BY DEF IInv, TypeOK
<1>2. /\ after \in PeerState
      /\ after.data = peer.data /\ after.half = half /\ after.epoch = peer.epoch
      /\ after.damaged = peer.damaged /\ after.rest = peer.rest
  BY <1>1 DEF PeerState
<1>3. rec.type = "ALERT" /\ rec.body = body
  BY DEF RecordOf
<1>4. ~IsUpdate(rec)
  BY <1>3 DEF IsUpdate
<1>5. PeerSends("ALERT", body, after)
  OBVIOUS
<1> HIDE DEF rec, after
<1>6. Len(half) \in 0 .. 1
  BY <1>1
<1>7. StreamStep(rec, peer.data, after.data, Len(peer.half), Len(after.half))
  <2>1. Len(body) = 1 \/ Len(body) = 2
    OBVIOUS
  <2> QED
    BY <2>1, <1>1, <1>2, <1>3 DEF StreamStep
<1>8. after.epoch = peer.epoch + (IF IsUpdate(rec) THEN 1 ELSE 0)
  BY <1>1, <1>2, <1>4 DEF PeerState
<1>9. after.rest # << >> => after.half = << >>
  BY <1>2
<1>10. body # << >>
  BY NonEmpty
<1> QED
  BY <1>10, <1>2, <1>4, <1>5, <1>6, <1>7, <1>8, <1>9, PeerSendsKeeps DEF rec

\* An alert in one record, or its first half.
LEMMA PeerAlertKeeps ==
    ASSUME IInv, ~CoalesceAlerts, PeerAlert
    PROVE  IInv'
<1>1. /\ peer \in PeerState
      /\ peer.half = << >> /\ peer.rest = << >>
  BY DEF IInv, TypeOK, PeerAlert, PeerMayBegin
<1>2. PICK a \in Alerts :
          \/ PeerSends("ALERT", AlertOf(a), [peer EXCEPT !.over = a \in ClosingAlerts])
          \/ PeerSends("ALERT", <<Head(AlertOf(a))>>, [peer EXCEPT !.half = <<a>>])
  BY DEF PeerAlert, AlertBodies
<1>3. a # "KEY_UPDATE"
  BY DEF Alerts
<1>4. CASE PeerSends("ALERT", AlertOf(a), [peer EXCEPT !.over = a \in ClosingAlerts])
  <2> DEFINE body == AlertOf(a)
             over == a \in ClosingAlerts
             half == peer.half
  <2>1. body \in Seq(Units) /\ Len(body) = 2 /\ Len(body) # 1 /\ Len(body) \in 1 .. 2
    BY AlertUnits
  <2>2. Last(body).what # "KEY_UPDATE"
    BY <2>1, <1>3, AlertUnits DEF Last
  <2>3. [peer EXCEPT !.over = over] = [peer EXCEPT !.half = half, !.over = over]
    BY <1>1 DEF PeerState
  <2>4. PeerSends("ALERT", body, [peer EXCEPT !.half = half, !.over = over])
    BY <1>4, <2>3
  <2>5. Len(peer.half) = 0 /\ half \in Seq(Alerts) /\ over \in BOOLEAN
    BY <1>1 DEF PeerState
  <2>6. Len(half) = 0
    BY <2>5
  <2> HIDE DEF body, over, half
  <2> QED
    BY <1>1, <2>1, <2>2, <2>4, <2>5, <2>6, AlertRecordKeeps
<1>5. CASE PeerSends("ALERT", <<Head(AlertOf(a))>>, [peer EXCEPT !.half = <<a>>])
  <2> DEFINE body == <<Head(AlertOf(a))>>
             over == peer.over
             half == <<a>>
  <2>1. body \in Seq(Units) /\ Len(body) = 1 /\ Len(body) # 2 /\ Len(body) \in 1 .. 2
    BY AlertUnits
  <2>2. Last(body).what # "KEY_UPDATE"
    BY <2>1, <1>3, AlertUnits DEF Last
  <2>3. [peer EXCEPT !.half = half] = [peer EXCEPT !.half = half, !.over = over]
    BY <1>1 DEF PeerState
  <2>4. PeerSends("ALERT", body, [peer EXCEPT !.half = half, !.over = over])
    BY <1>5, <2>3
  <2>5. half \in Seq(Alerts) /\ over \in BOOLEAN
    BY <1>1 DEF PeerState
  <2>6. Len(half) = 1 - Len(peer.half)
    BY <1>1
  <2> HIDE DEF body, over, half
  <2> QED
    BY <1>1, <2>1, <2>2, <2>4, <2>5, <2>6, AlertRecordKeeps
<1> QED
  BY <1>2, <1>4, <1>5

\* The second half of an alert.
LEMMA PeerSecondHalfKeeps ==
    ASSUME IInv, PeerSecondHalf
    PROVE  IInv'
<1> DEFINE a    == peer.half[1]
           body == Tail(AlertOf(a))
           over == a \in ClosingAlerts
           half == << >>
<1>1. /\ peer.half \in Seq(Alerts) /\ Len(peer.half) \in 0 .. 1 /\ peer.half # << >>
      /\ PeerSends("ALERT", body, [peer EXCEPT !.half = half, !.over = over])
  BY DEF IInv, TypeOK, PeerSecondHalf, PeerState
<1>2. Len(peer.half) = 1 /\ a \in Alerts
  BY <1>1
<1>3. a # "KEY_UPDATE"
  BY <1>2 DEF Alerts
<1> HIDE DEF a
<1>4. body \in Seq(Units) /\ Len(body) = 1 /\ Len(body) # 2 /\ Len(body) \in 1 .. 2
  <2>1. body \in Seq(Units) /\ Len(body) = 1
    BY <1>2, AlertUnits, Zenon
  <2> HIDE DEF body
  <2> QED
    BY <2>1
<1>5. Last(body).what # "KEY_UPDATE"
  BY <1>4, <1>2, <1>3, AlertUnits DEF Last
<1>6. half \in Seq(Alerts) /\ Len(half) = 1 - Len(peer.half) /\ over \in BOOLEAN /\ half = << >>
  BY <1>2
<1> HIDE DEF body, over, half
<1> QED
  BY <1>1, <1>4, <1>5, <1>6, AlertRecordKeeps

\* A record of post-handshake messages, or of parts of them, leads on.
LEMMA HandshakeRecordKeeps ==
    ASSUME IInv, peer.half = << >>, NEW body \in Seq(Units), body # << >>, NEW after \in PeerState,
           after.data = peer.data, after.half = peer.half, after.damaged = peer.damaged,
           after.epoch = NextEpoch(body), PeerSends("HANDSHAKE", body, after)
    PROVE  IInv'
<1> DEFINE rec == RecordOf("HANDSHAKE", body)
<1>1. peer.epoch \in Nat
  BY DEF IInv, TypeOK, PeerState
<1>2. rec.type = "HANDSHAKE" /\ rec.body = body
  BY DEF RecordOf
<1>3. Len(peer.half) = 0 /\ Len(after.half) \in 0 .. 1
  OBVIOUS
<1> HIDE DEF rec
<1>4. StreamStep(rec, peer.data, after.data, Len(peer.half), Len(after.half))
  BY <1>2, <1>3 DEF StreamStep
<1>5. after.epoch = peer.epoch + (IF IsUpdate(rec) THEN 1 ELSE 0)
  BY <1>1, <1>2 DEF IsUpdate, NextEpoch
<1> QED
  BY <1>3, <1>4, <1>5, PeerSendsKeeps DEF rec

\* The bodies of such records.
LEMMA PeerMessagesTyped ==
    ASSUME NEW body \in PeerMessages
    PROVE  body \in Seq(Units) /\ Len(body) \in 1 .. 2
<1>1. \A n \in {0, 1} : /\ Unit("KEY_UPDATE", n) \in Units /\ Unit("TICKET", 0) \in Units
                        /\ Unit("HELLO_REQUEST", 0) \in Units /\ Unit("CLIENT_HELLO", 0) \in Units
  BY DEF Unit, Units
<1>2. \A x, y \in Units : /\ <<x>> \in Seq(Units) /\ <<x, y>> \in Seq(Units)
                          /\ Len(<<x>>) \in 1 .. 2 /\ Len(<<x, y>>) \in 1 .. 2
  OBVIOUS
<1>3. \/ body \in {<<Unit("KEY_UPDATE", r)>> : r \in {0, 1}}
      \/ body = <<Unit("TICKET", 0), Unit("TICKET", 0)>>
      \/ body = <<Unit("TICKET", 0), Unit("KEY_UPDATE", 1)>>
      \/ body = <<Unit("HELLO_REQUEST", 0)>>
      \/ body = <<Unit("CLIENT_HELLO", 0)>>
  BY DEF PeerMessages
<1>4. CASE body \in {<<Unit("KEY_UPDATE", r)>> : r \in {0, 1}}
  <2>1. PICK r \in {0, 1} : body = <<Unit("KEY_UPDATE", r)>>
    BY <1>4
  <2> QED
    BY <2>1, <1>1, <1>2, Zenon
<1>5. CASE body = <<Unit("TICKET", 0), Unit("TICKET", 0)>>
  BY <1>5, <1>1, <1>2
<1>6. CASE body = <<Unit("TICKET", 0), Unit("KEY_UPDATE", 1)>>
  BY <1>6, <1>1, <1>2
<1>7. CASE body = <<Unit("HELLO_REQUEST", 0)>>
  BY <1>7, <1>1, <1>2
<1>8. CASE body = <<Unit("CLIENT_HELLO", 0)>>
  BY <1>8, <1>1, <1>2
<1> QED
  BY <1>3, <1>4, <1>5, <1>6, <1>7, <1>8, Zenon

\* Post-handshake messages, and a client that renegotiates.
LEMMA PeerHandshakeKeeps ==
    ASSUME IInv, PeerHandshake
    PROVE  IInv'
<1>1. peer \in PeerState /\ peer.half = << >>
  BY DEF IInv, TypeOK, PeerHandshake, PeerMayBegin
<1>2. PICK body \in PeerMessages :
          PeerSends("HANDSHAKE", body,
                    [peer EXCEPT !.epoch = NextEpoch(body),
                                 !.refusable = @ \/ Last(body).what = "CLIENT_HELLO"])
  BY DEF PeerHandshake
<1>3. body \in Seq(Units) /\ body # << >>
  BY PeerMessagesTyped
<1>4. NextEpoch(body) \in Nat
  BY <1>1 DEF NextEpoch, PeerState
<1> DEFINE no    == peer.refusable \/ Last(body).what = "CLIENT_HELLO"
           after == [peer EXCEPT !.epoch = NextEpoch(body), !.refusable = no]
<1>5. no \in BOOLEAN
  BY <1>1 DEF PeerState
<1>6. PeerSends("HANDSHAKE", body, after)
  BY <1>2
<1> HIDE DEF no
<1>7. /\ after \in PeerState /\ after.data = peer.data /\ after.half = peer.half
      /\ after.damaged = peer.damaged /\ after.epoch = NextEpoch(body)
  BY <1>1, <1>4, <1>5 DEF PeerState
<1> HIDE DEF after
<1> QED
  BY <1>1, <1>3, <1>6, <1>7, HandshakeRecordKeeps

\* The first part of a message leaves the key alone.
LEMMA PeerCutsMessageKeeps ==
    ASSUME IInv, PeerCutsMessage
    PROVE  IInv'
<1>1. peer \in PeerState /\ peer.half = << >>
  BY DEF IInv, TypeOK, PeerCutsMessage, PeerMayBegin
<1>2. PICK msgs \in PeerMessages :
          PeerSends("HANDSHAKE", Append(Front(msgs), FirstPart),
                    [peer EXCEPT !.rest = <<LastPart(Last(msgs))>>, !.refusable = TRUE])
  BY DEF PeerCutsMessage
<1> DEFINE body  == Append(Front(msgs), FirstPart)
           rest  == <<LastPart(Last(msgs))>>
           yes   == TRUE
           after == [peer EXCEPT !.rest = rest, !.refusable = yes]
<1>3. msgs \in Seq(Units) /\ Len(msgs) \in 1 .. 2
  BY PeerMessagesTyped
<1>4. Front(msgs) \in Seq(Units) /\ Last(msgs) \in Units
  BY <1>3 DEF Front, Last
<1>5. FirstPart \in Units /\ FirstPart.what = "PART" /\ LastPart(Last(msgs)) \in Units
  BY <1>4 DEF FirstPart, LastPart, Unit, Units
<1>6. rest \in Seq(Units)
  BY <1>5
<1>7. body \in Seq(Units) /\ Last(body) = FirstPart /\ body # << >>
  BY <1>4, <1>5 DEF Last
<1>8. PeerSends("HANDSHAKE", body, after)
  BY <1>2
<1> HIDE DEF body, rest
<1>9. NextEpoch(body) = peer.epoch
  BY <1>5, <1>7 DEF NextEpoch
<1>10. yes \in BOOLEAN
  OBVIOUS
<1> HIDE DEF yes
<1>11. /\ after \in PeerState /\ after.data = peer.data /\ after.half = peer.half
       /\ after.damaged = peer.damaged /\ after.epoch = peer.epoch
  BY <1>1, <1>6, <1>10 DEF PeerState
<1> HIDE DEF after
<1> QED
  BY <1>1, <1>7, <1>8, <1>9, <1>11, HandshakeRecordKeeps

\* The last part of a KeyUpdate changes the key.
LEMMA PeerLastPartKeeps ==
    ASSUME IInv, PeerLastPart
    PROVE  IInv'
<1>1. peer \in PeerState /\ peer.half = << >> /\ peer.rest \in Seq(Units) /\ peer.rest # << >>
  BY DEF IInv, TypeOK, PeerLastPart, PeerState
<1> DEFINE rest  == << >>
           body  == peer.rest
           after == [peer EXCEPT !.rest = rest, !.epoch = NextEpoch(body)]
<1>2. PeerSends("HANDSHAKE", body, after)
  BY DEF PeerLastPart
<1>3. NextEpoch(body) \in Nat
  BY <1>1 DEF NextEpoch, PeerState
<1>4. rest \in Seq(Units)
  OBVIOUS
<1> HIDE DEF rest
<1>5. /\ after \in PeerState /\ after.data = peer.data /\ after.half = peer.half
      /\ after.damaged = peer.damaged /\ after.epoch = NextEpoch(body)
  BY <1>1, <1>3, <1>4 DEF PeerState
<1> HIDE DEF after
<1> QED
  BY <1>1, <1>2, <1>5, HandshakeRecordKeeps

\* A damaged record keeps its type and body.
LEMMA RecordDamagedKeeps ==
    ASSUME IInv, RecordDamaged
    PROVE  IInv'
<1>1. TypeOK /\ Shapes(wire) /\ DataIntact /\ Flow /\ ReadKeys /\ WriteKeys /\ Errors
  BY DEF IInv
<1>2. /\ wire # << >>
      /\ wire' = [wire EXCEPT ![Len(wire)].epoch = -1]
      /\ peer' = [peer EXCEPT !.damaged = TRUE, !.over = TRUE]
      /\ UNCHANGED <<setup, in, in_status, alert_in, delivered, recv_epoch, key_update_pending,
                     out, sent, send_epoch, writer_alert_out, close_notify_queued,
                     closed, error, dropped>>
  BY DEF RecordDamaged, inVars, outVars
<1>3. /\ wire \in Seq(Records)
      /\ peer \in PeerState
  BY <1>1 DEF TypeOK
<1>4. /\ peer' \in PeerState
      /\ peer'.data = peer.data /\ peer'.half = peer.half /\ peer'.epoch = peer.epoch
      /\ peer'.rest = peer.rest
      /\ peer'.damaged = TRUE
  BY <1>2, <1>3 DEF PeerState
<1> DEFINE n   == Len(wire)
           bad == [wire[n] EXCEPT !.epoch = -1]
<1>5. n \in 1 .. Len(wire) /\ wire[n] \in Records
  BY <1>2, <1>3
<1>6. bad \in Records /\ bad.type = wire[n].type /\ bad.body = wire[n].body
  BY <1>5 DEF Records
<1>7. wire' = [wire EXCEPT ![n] = bad]
  BY <1>2
<1> HIDE DEF n, bad
<1>8. /\ wire' \in Seq(Records) /\ Len(wire') = Len(wire)
      /\ \A i \in 1 .. Len(wire) : wire'[i] = IF i = n THEN bad ELSE wire[i]
  <2>1. /\ [wire EXCEPT ![n] = bad] \in Seq(Records) /\ Len([wire EXCEPT ![n] = bad]) = Len(wire)
        /\ \A i \in 1 .. Len(wire) : [wire EXCEPT ![n] = bad][i] = IF i = n THEN bad ELSE wire[i]
    BY <1>3, <1>5, <1>6, ExceptSeq
  <2> QED
    BY <2>1, <1>7, Zenon
<1>9. \A i \in 1 .. Len(wire) : wire'[i].type = wire[i].type /\ wire'[i].body = wire[i].body
  BY <1>6, <1>8, Zenon
<1>10. Shapes(wire')
  BY <1>1, <1>8, <1>9 DEF Shapes, IsUpdate
<1>11. TypeOK'
  BY <1>1, <1>2, <1>4, <1>8 DEF TypeOK
<1>12. Flow'
  <2>1. ASSUME ~closed
        PROVE  Stream(wire', Len(delivered) + Len(in), peer.data, Len(alert_in), Len(peer.half))
    <3> DEFINE a == Len(delivered) + Len(in)
               h == Len(alert_in)
               k == Len(peer.half)
    <3>1. Stream(wire, a, peer.data, h, k)
      BY <1>1, <2>1 DEF Flow
    <3> HIDE DEF a, h, k
    <3>2. Stream(wire', a, peer.data, h, k)
      BY <3>1, <1>3, <1>8, <1>9, StreamSame
    <3> QED
      BY <3>2 DEF a, h, k
  <2>2. ~closed => /\ \A i \in 1 .. Len(in) : in[i] = Unit("DATA", Len(delivered) + i)
                   /\ in_status = "ENCRYPTED" => in = << >>
    BY <1>1 DEF Flow
  <2> QED
    BY <2>1, <2>2, <1>2, <1>4 DEF Flow
<1>13. ReadKeys'
  <2>1. ASSUME ~dropped, ~Paused
        PROVE  Epochs(wire', recv_epoch, peer.epoch, TRUE)
    <3>1. Epochs(wire, recv_epoch, peer.epoch, peer.damaged)
      BY <1>1, <2>1 DEF Paused, ReadKeys
    <3> QED
      BY <3>1, <1>3, <1>8, <1>9, EpochsDamage
  <2> QED
    BY <2>1, <1>2, <1>4 DEF Paused, ReadKeys
<1>14. DataIntact' /\ WriteKeys' /\ Errors'
  BY <1>1, <1>2, <1>4 DEF DataIntact, WriteKeys, Errors, s2n_handle_as_warning, Tls13
<1> QED
  BY <1>10, <1>11, <1>12, <1>13, <1>14 DEF IInv

\* The peer disappears: what it sent is still on its way.
LEMMA PeerDisappearsKeeps ==
    ASSUME IInv, PeerDisappears
    PROVE  IInv'
<1>1. TypeOK /\ Shapes(wire) /\ DataIntact /\ Flow /\ ReadKeys /\ WriteKeys /\ Errors
  BY DEF IInv
<1>2. /\ peer' = [peer EXCEPT !.over = TRUE, !.gone = TRUE]
      /\ UNCHANGED <<wire, setup, in, in_status, alert_in, delivered, recv_epoch, key_update_pending,
                     out, sent, send_epoch, writer_alert_out, close_notify_queued,
                     closed, error, dropped>>
  BY DEF PeerDisappears, inVars, outVars
<1>3. /\ peer' \in PeerState
      /\ peer'.data = peer.data /\ peer'.half = peer.half /\ peer'.epoch = peer.epoch
      /\ peer'.rest = peer.rest
      /\ peer'.damaged = peer.damaged
  <2>1. peer \in PeerState
    BY <1>1 DEF TypeOK
  <2> QED
    BY <2>1, <1>2 DEF PeerState
<1>4. TypeOK'
  BY <1>1, <1>2, <1>3 DEF TypeOK
<1>5. Flow'
  BY <1>1, <1>2, <1>3 DEF Flow
<1>6. Shapes(wire)' /\ ReadKeys' /\ DataIntact' /\ WriteKeys' /\ Errors'
  BY <1>1, <1>2, <1>3 DEF Paused, ReadKeys, DataIntact, WriteKeys, Errors, s2n_handle_as_warning, Tls13
<1> QED
  BY <1>4, <1>5, <1>6 DEF IInv

----------------------------------------------------------------------------
(***************************************************************************)
(* s2n_recv.                                                               *)
(***************************************************************************)
\* The first record on its way, of a connection that is open and has read the
\* record before to its end.
LEMMA FirstRecord ==
    ASSUME IInv, ~closed, in_status = "ENCRYPTED", wire # << >>
    PROVE  /\ in = << >> /\ wire[1] \in Records
           /\ Tail(wire) \in Seq(Records) /\ Shapes(Tail(wire))
           /\ \E e \in Nat, g \in {0, 1} :
                 /\ StreamStep(wire[1], Len(delivered), e, Len(alert_in), g)
                 /\ Stream(Tail(wire), e, peer.data, g, Len(peer.half))
           /\ wire[1].epoch # recv_epoch => peer.damaged
           /\ Epochs(Tail(wire), recv_epoch + (IF IsUpdate(wire[1]) THEN 1 ELSE 0), peer.epoch, peer.damaged)
<1>1. TypeOK /\ Shapes(wire) /\ Flow /\ ReadKeys /\ Errors
  BY DEF IInv
<1>2. wire \in Seq(Records) /\ delivered \in Seq(Units)
  BY <1>1 DEF TypeOK
<1>3. in = << >> /\ Stream(wire, Len(delivered) + Len(in), peer.data, Len(alert_in), Len(peer.half))
  BY <1>1 DEF Flow
<1>4. Len(delivered) + Len(in) = Len(delivered)
  BY <1>2, <1>3
<1>5. Stream(wire, Len(delivered), peer.data, Len(alert_in), Len(peer.half))
  BY <1>3, <1>4
<1>6. wire[1] \in Records
  BY <1>2
<1>7. Tail(wire) \in Seq(Records) /\ Shapes(Tail(wire))
  BY <1>1, <1>2, ShapesTail
<1>8. \E e \in Nat, g \in {0, 1} : /\ StreamStep(wire[1], Len(delivered), e, Len(alert_in), g)
                                   /\ Stream(Tail(wire), e, peer.data, g, Len(peer.half))
  <2> DEFINE a == Len(delivered)
             h == Len(alert_in)
             k == Len(peer.half)
  <2>1. Stream(wire, a, peer.data, h, k)
    BY <1>5
  <2> HIDE DEF a, h, k
  <2>2. \E e \in Nat, g \in {0, 1} : StreamStep(wire[1], a, e, h, g) /\ Stream(Tail(wire), e, peer.data, g, k)
    BY <2>1, <1>2, StreamTail
  <2> QED
    BY <2>2 DEF a, h, k
<1>9. Epochs(wire, recv_epoch, peer.epoch, peer.damaged)
  BY <1>1 DEF Paused, ReadKeys, Errors
<1>10. /\ wire[1].epoch # recv_epoch => peer.damaged
       /\ Epochs(Tail(wire), recv_epoch + (IF IsUpdate(wire[1]) THEN 1 ELSE 0), peer.epoch, peer.damaged)
  BY <1>2, <1>9, EpochsTail
<1> QED
  BY <1>3, <1>6, <1>7, <1>8, <1>10

\* Data are delivered from what a record left in conn->in, or from a new record.
LEMMA RecvDataKeeps ==
    ASSUME IInv, RecvData
    PROVE  IInv'
<1> DEFINE r == s2n_read_full_record
<1>1. TypeOK /\ Shapes(wire) /\ DataIntact /\ Flow /\ ReadKeys /\ WriteKeys /\ Errors
  BY DEF IInv
<1>2. /\ ~closed /\ CanRead /\ r.type = "APPLICATION_DATA" /\ r.decrypts
      /\ wire' = r.rest
      /\ IF r.body = << >> THEN in' = << >> /\ in_status' = "ENCRYPTED" /\ delivered' = delivered
         ELSE \E n \in 1 .. Len(r.body) :
                /\ delivered' = delivered \o SubSeq(r.body, 1, n)
                /\ IF n = Len(r.body) THEN in' = << >> /\ in_status' = "ENCRYPTED"
                   ELSE in' = SubSeq(r.body, n + 1, Len(r.body)) /\ in_status' = "PLAINTEXT"
  BY DEF RecvData, Receiving, Wipe
<1>3. UNCHANGED <<setup, peer, alert_in, recv_epoch, key_update_pending, out, sent, send_epoch,
                  writer_alert_out, close_notify_queued, closed, error, dropped>>
  BY DEF RecvData, outVars
<1>4. delivered \in Seq(Units) /\ in \in Seq(Units) /\ wire \in Seq(Records)
      /\ in_status \in {"PLAINTEXT", "ENCRYPTED"}
  BY <1>1 DEF TypeOK
<1>5. /\ r.body \in Seq(Units) /\ r.rest \in Seq(Records) /\ Shapes(r.rest)
      /\ \A i \in 1 .. Len(r.body) : r.body[i] = Unit("DATA", Len(delivered) + i)
      /\ Stream(r.rest, Len(delivered) + Len(r.body), peer.data, Len(alert_in), Len(peer.half))
      /\ Epochs(r.rest, recv_epoch, peer.epoch, peer.damaged)
  <2>1. CASE in_status = "PLAINTEXT"
    <3>1. r.body = in /\ r.rest = wire
      BY <2>1 DEF s2n_read_full_record
    <3>2. /\ Stream(wire, Len(delivered) + Len(in), peer.data, Len(alert_in), Len(peer.half))
          /\ \A i \in 1 .. Len(in) : in[i] = Unit("DATA", Len(delivered) + i)
      BY <1>1, <1>2 DEF Flow
    <3>3. Epochs(wire, recv_epoch, peer.epoch, peer.damaged)
      BY <1>1, <1>2 DEF Paused, ReadKeys, Errors
    <3> HIDE DEF r
    <3> QED
      BY <3>1, <3>2, <3>3, <1>1, <1>4, Zenon
  <2>2. CASE in_status = "ENCRYPTED"
    <3>1. wire # << >>
      BY <2>2, <1>2 DEF CanRead
    <3>2. r.type = wire[1].type /\ r.body = wire[1].body /\ r.rest = Tail(wire)
      BY <2>2 DEF s2n_read_full_record
    <3> HIDE DEF r
    <3>3. /\ wire[1] \in Records /\ Tail(wire) \in Seq(Records) /\ Shapes(Tail(wire))
          /\ \E e \in Nat, g \in {0, 1} :
                /\ StreamStep(wire[1], Len(delivered), e, Len(alert_in), g)
                /\ Stream(Tail(wire), e, peer.data, g, Len(peer.half))
          /\ Epochs(Tail(wire), recv_epoch + (IF IsUpdate(wire[1]) THEN 1 ELSE 0), peer.epoch, peer.damaged)
      BY <1>2, <2>2, <3>1, FirstRecord
    <3>4. PICK e \in Nat, g \in {0, 1} :
                /\ StreamStep(wire[1], Len(delivered), e, Len(alert_in), g)
                /\ Stream(Tail(wire), e, peer.data, g, Len(peer.half))
      BY <3>3
    <3>5. wire[1].type = "APPLICATION_DATA"
      BY <1>2, <3>2
    <3>6. wire[1].body = DataBody(Len(delivered)) /\ e = Len(delivered) + 2 /\ Len(alert_in) = 0 /\ g = 0
      BY <3>4, <3>5 DEF StreamStep
    <3> DEFINE d == Len(delivered)
               b == wire[1].body
    <3>7. d \in Nat
      BY <1>4
    <3> HIDE DEF d
    <3>8. Unit("DATA", d + 1) \in Units /\ Unit("DATA", d + 2) \in Units
      BY <3>7 DEF Unit, Units
    <3>9. /\ b \in Seq(Units) /\ Len(b) = 2 /\ b[1] = Unit("DATA", d + 1) /\ b[2] = Unit("DATA", d + 2)
      BY <3>6, <3>8 DEF DataBody, d
    <3> HIDE DEF b
    <3>10. \A i \in 1 .. Len(b) : b[i] = Unit("DATA", d + i)
      <4>1. \A i \in 1 .. Len(b) : i = 1 \/ i = 2
        BY <3>9
      <4> QED
        BY <4>1, <3>9, Zenon
    <3>11. ~IsUpdate(wire[1])
      <4>1. Last(b).what = "DATA"
        BY <3>9 DEF Last, Unit
      <4> QED
        BY <4>1 DEF IsUpdate, b
    <3>12. Epochs(Tail(wire), recv_epoch, peer.epoch, peer.damaged)
      <4>1. recv_epoch \in Nat
        BY <1>1 DEF TypeOK
      <4>2. recv_epoch + (IF IsUpdate(wire[1]) THEN 1 ELSE 0) = recv_epoch
        BY <3>11, <4>1
      <4> QED
        BY <3>3, <4>2, Zenon
    <3>13. Stream(Tail(wire), d + Len(b), peer.data, Len(alert_in), Len(peer.half))
      <4>1. e = d + Len(b) /\ g = Len(alert_in)
        BY <3>6, <3>9 DEF d
      <4> QED
        BY <4>1, <3>4
    <3> QED
      BY <3>2, <3>3, <3>9, <3>10, <3>12, <3>13 DEF b, d
  <2> QED
    BY <2>1, <2>2, <1>4
<1> HIDE DEF r
<1>6. CASE r.body = << >>
  <2>1. in' = << >> /\ in_status' = "ENCRYPTED" /\ delivered' = delivered /\ Len(in') = Len(r.body)
    BY <1>2, <1>6
  <2>2. TypeOK' /\ Shapes(wire)'
    BY <2>1, <1>1, <1>2, <1>3, <1>5 DEF TypeOK
  <2>3. Flow'
    BY <2>1, <1>2, <1>3, <1>5 DEF Flow
  <2>4. ReadKeys' /\ DataIntact' /\ WriteKeys' /\ Errors'
    BY <2>1, <1>1, <1>2, <1>3, <1>5 DEF Paused, ReadKeys, DataIntact, WriteKeys, Errors, s2n_handle_as_warning, Tls13
  <2> QED
    BY <2>2, <2>3, <2>4 DEF IInv
<1>7. CASE r.body # << >>
  <2>1. PICK n \in 1 .. Len(r.body) :
                /\ delivered' = delivered \o SubSeq(r.body, 1, n)
                /\ IF n = Len(r.body) THEN in' = << >> /\ in_status' = "ENCRYPTED"
                   ELSE in' = SubSeq(r.body, n + 1, Len(r.body)) /\ in_status' = "PLAINTEXT"
    BY <1>2, <1>7
  <2> DEFINE dd   == delivered \o SubSeq(r.body, 1, n)
             rest == SubSeq(r.body, n + 1, Len(r.body))
  <2>2. /\ dd \in Seq(Units) /\ rest \in Seq(Units)
        /\ \A i \in 1 .. Len(dd) : dd[i] = Unit("DATA", i)
        /\ \A i \in 1 .. Len(rest) : rest[i] = Unit("DATA", Len(dd) + i)
        /\ Len(dd) + Len(rest) = Len(delivered) + Len(r.body)
        /\ n = Len(r.body) => rest = << >>
    <3>1. \A i \in 1 .. Len(delivered) : delivered[i] = Unit("DATA", i)
      BY <1>1 DEF DataIntact
    <3>2. delivered \in Seq(Units) /\ r.body \in Seq(Units) /\ n \in 1 .. Len(r.body)
      BY <1>4, <1>5
    <3>3. \A i \in 1 .. Len(r.body) : r.body[i] = Unit("DATA", Len(delivered) + i)
      BY <1>5
    <3> QED
      BY <3>1, <3>2, <3>3, Deliver
  <2>3. delivered' = dd /\ in' = rest /\ (in_status' = "ENCRYPTED" => in' = << >>)
        /\ in_status' \in {"PLAINTEXT", "ENCRYPTED"}
    BY <2>1, <2>2
  <2> HIDE DEF dd, rest
  <2>4. TypeOK' /\ Shapes(wire)'
    BY <2>2, <2>3, <1>1, <1>2, <1>3, <1>5 DEF TypeOK
  <2>5. Flow'
    BY <2>2, <2>3, <1>2, <1>3, <1>5 DEF Flow
  <2>6. ReadKeys' /\ DataIntact' /\ WriteKeys' /\ Errors'
    BY <2>2, <2>3, <1>1, <1>2, <1>3, <1>5 DEF Paused, ReadKeys, DataIntact, WriteKeys, Errors, s2n_handle_as_warning, Tls13
  <2> QED
    BY <2>4, <2>5, <2>6 DEF IInv
<1> QED
  BY <1>6, <1>7

\* An alert, whole or half: what the record holds is taken to its end.
LEMMA RecvAlertKeeps ==
    ASSUME IInv, RecvAlert
    PROVE  IInv'
<1> DEFINE body == wire[1].body
           p    == s2n_process_alert_fragment(body)
<1>1. TypeOK /\ Shapes(wire) /\ DataIntact /\ Flow /\ ReadKeys /\ WriteKeys /\ Errors
  BY DEF IInv
<1>2. in_status = "ENCRYPTED" /\ wire # << >> /\ ~closed
  <2>1. in_status # "PLAINTEXT"
    BY DEF RecvAlert, s2n_read_full_record
  <2> QED
    BY <2>1, <1>1 DEF RecvAlert, Receiving, CanRead, TypeOK
<1>3. s2n_read_full_record = [type |-> wire[1].type, body |-> wire[1].body,
                              decrypts |-> wire[1].epoch = recv_epoch, rest |-> Tail(wire)]
  BY <1>2 DEF s2n_read_full_record
<1>4. /\ wire[1].type = "ALERT" /\ wire' = Tail(wire) /\ alert_in' = p.alert_in
      /\ UNCHANGED <<setup, peer, delivered, recv_epoch, key_update_pending, dropped>>
  BY <1>3 DEF RecvAlert
<1>5. \/ /\ p.result \in {"ALERT", "ALERT_PRESENT"}
         /\ in' = p.in /\ in_status' = "PLAINTEXT"
         /\ error' = p.result
         /\ closed' = (p.result = "ALERT")
         /\ UNCHANGED <<out, sent, send_epoch, writer_alert_out, close_notify_queued>>
      \/ /\ p.result \in {"OK", "CLOSE_NOTIFY"}
         /\ \/ /\ FlushAll(writer_alert_out) /\ in' = << >> /\ in_status' = "ENCRYPTED"
               /\ closed' = (ClosedByFlush(TRUE) \/ p.result = "CLOSE_NOTIFY")
            \/ /\ FlushBlocks(writer_alert_out)
               /\ in' = p.in /\ in_status' = "PLAINTEXT"
               /\ closed' = (ClosedByFlush(FALSE) \/ p.result = "CLOSE_NOTIFY")
         /\ UNCHANGED <<send_epoch, close_notify_queued, error>>
  BY <1>3 DEF RecvAlert, Wipe, outVars
<1>6. /\ in = << >> /\ wire[1] \in Records /\ Tail(wire) \in Seq(Records) /\ Shapes(Tail(wire))
      /\ \E e \in Nat, g \in {0, 1} :
            /\ StreamStep(wire[1], Len(delivered), e, Len(alert_in), g)
            /\ Stream(Tail(wire), e, peer.data, g, Len(peer.half))
      /\ Epochs(Tail(wire), recv_epoch + (IF IsUpdate(wire[1]) THEN 1 ELSE 0), peer.epoch, peer.damaged)
  BY <1>2, FirstRecord
<1>7. PICK e \in Nat, g \in {0, 1} :
            /\ StreamStep(wire[1], Len(delivered), e, Len(alert_in), g)
            /\ Stream(Tail(wire), e, peer.data, g, Len(peer.half))
  BY <1>6
<1>8. body \in Seq(Units) /\ alert_in \in Seq(Units) /\ Len(alert_in) \in 0 .. 2
      /\ delivered \in Seq(Units) /\ recv_epoch \in Nat /\ writer_alert_out \in BOOLEAN
  BY <1>1, <1>6 DEF Records, TypeOK
<1>9. e = Len(delivered) /\ \/ Len(body) = 2 /\ Len(alert_in) = 0 /\ g = 0
                            \/ Len(body) = 1 /\ g = 1 - Len(alert_in)
  BY <1>4, <1>7 DEF StreamStep
<1>10. /\ Len(body) \in 0 .. 2 /\ Len(alert_in) + Len(body) <= 2 /\ Len(alert_in) < 2
       /\ g = IF Len(alert_in) + Len(body) < 2 THEN Len(alert_in) + Len(body) ELSE 0
  <2>1. \A h, n \in 0 .. 2 : \A k \in {0, 1} :
           (n = 2 /\ h = 0 /\ k = 0) \/ (n = 1 /\ k = 1 - h) =>
              h + n <= 2 /\ h < 2 /\ k = IF h + n < 2 THEN h + n ELSE 0
    OBVIOUS
  <2>2. Len(body) \in 0 .. 2
    BY <1>9
  <2> HIDE DEF body
  <2> QED
    BY <2>1, <2>2, <1>8, <1>9
<1>11. /\ p.result \in {"OK", "CLOSE_NOTIFY", "ALERT"} /\ p.in = << >>
       /\ p.alert_in \in Seq(Units) /\ Len(p.alert_in) \in 0 .. 2
       /\ p.result = "ALERT" => /\ Len(p.alert_in) = 2
                                /\ p.alert_in[1].what # "CLOSE_NOTIFY"
                                /\ ~s2n_handle_as_warning(p.alert_in[1].what)
       /\ p.result = "OK" => Len(p.alert_in) = g
  <2> HIDE DEF body
  <2>1. /\ p.result \in {"OK", "CLOSE_NOTIFY", "ALERT", "ALERT_PRESENT"}
        /\ p.alert_in \in Seq(Units) /\ Len(p.alert_in) \in 0 .. 2
        /\ p.in \in Seq(Units)
        /\ p.result = "ALERT_PRESENT" <=> Len(alert_in) = 2
        /\ p.result = "ALERT" => /\ Len(p.alert_in) = 2
                                 /\ p.alert_in[1].what # "CLOSE_NOTIFY"
                                 /\ ~s2n_handle_as_warning(p.alert_in[1].what)
        /\ Len(alert_in) + Len(body) <= 2 /\ Len(alert_in) < 2 => p.in = << >>
        /\ p.result = "OK" /\ Len(alert_in) + Len(body) <= 2 /\ Len(alert_in) < 2 =>
              Len(p.alert_in) = IF Len(alert_in) + Len(body) < 2 THEN Len(alert_in) + Len(body) ELSE 0
    BY <1>8, <1>10, AlertFragment
  <2> HIDE DEF p
  <2>2. Len(alert_in) # 2
    BY <1>10
  <2> QED
    BY <2>1, <2>2, <1>10
<1> HIDE DEF p, body
<1>12. /\ in' = << >> /\ in_status' \in {"PLAINTEXT", "ENCRYPTED"} /\ close_notify_queued' = close_notify_queued
       /\ closed' \in BOOLEAN /\ (p.result # "OK" => closed')
       /\ error' \in {"NONE", "ALERT"} /\ (error' = "ALERT" <=> p.result = "ALERT")
       /\ send_epoch' = send_epoch
       /\ \/ UNCHANGED <<out, sent, writer_alert_out>>
          \/ FlushAll(writer_alert_out)
          \/ FlushBlocks(writer_alert_out)
  <2>1. error = "NONE"
    BY <1>1, <1>2 DEF Errors
  <2>2. CASE /\ p.result \in {"ALERT", "ALERT_PRESENT"}
             /\ in' = p.in /\ in_status' = "PLAINTEXT"
             /\ error' = p.result
             /\ closed' = (p.result = "ALERT")
             /\ UNCHANGED <<out, sent, send_epoch, writer_alert_out, close_notify_queued>>
    BY <2>2, <1>11
  <2>3. CASE /\ p.result \in {"OK", "CLOSE_NOTIFY"}
             /\ \/ /\ FlushAll(writer_alert_out) /\ in' = << >> /\ in_status' = "ENCRYPTED"
                   /\ closed' = (ClosedByFlush(TRUE) \/ p.result = "CLOSE_NOTIFY")
                \/ /\ FlushBlocks(writer_alert_out)
                   /\ in' = p.in /\ in_status' = "PLAINTEXT"
                   /\ closed' = (ClosedByFlush(FALSE) \/ p.result = "CLOSE_NOTIFY")
             /\ UNCHANGED <<send_epoch, close_notify_queued, error>>
    BY <2>1, <2>3, <1>11
  <2> QED
    BY <2>2, <2>3, <1>5
<1>13. out' \in Seq(Sent) /\ sent' \in Seq(Sent) /\ WriteKeys' /\ writer_alert_out' \in BOOLEAN
  <2>1. CASE UNCHANGED <<out, sent, writer_alert_out>>
    BY <2>1, <1>1, <1>12 DEF TypeOK, WriteKeys
  <2>2. CASE FlushAll(writer_alert_out) \/ FlushBlocks(writer_alert_out)
    BY <2>2, <1>1, <1>8, <1>12, FlushKeepsKeys
  <2> QED
    BY <2>1, <2>2, <1>12
<1>14. TypeOK' /\ Shapes(wire)'
  BY <1>1, <1>4, <1>6, <1>11, <1>12, <1>13 DEF TypeOK
<1>15. Flow'
  <2>1. SUFFICES ASSUME ~closed' PROVE Flow'
    BY DEF Flow
  <2>2. Len(p.alert_in) = g
    BY <2>1, <1>11, <1>12
  <2>3. Len(delivered') + Len(in') = e
    BY <1>4, <1>8, <1>9, <1>12
  <2>4. Stream(wire', Len(delivered') + Len(in'), peer'.data, Len(alert_in'), Len(peer'.half))
    BY <2>2, <2>3, <1>4, <1>7
  <2> QED
    BY <2>4, <1>12 DEF Flow
<1>16. ReadKeys'
  <2>1. ~IsUpdate(wire[1])
    <3>1. 1 \in 1 .. Len(wire)
      BY <1>1, <1>2 DEF TypeOK
    <3> QED
      BY <3>1, <1>1, <1>4 DEF Shapes
  <2>2. recv_epoch + (IF IsUpdate(wire[1]) THEN 1 ELSE 0) = recv_epoch
    BY <2>1, <1>8
  <2> QED
    BY <2>2, <1>4, <1>6 DEF Paused, ReadKeys
<1>17. Errors'
  BY <1>1, <1>2, <1>4, <1>11, <1>12 DEF Errors, s2n_handle_as_warning, Tls13
<1>18. DataIntact'
  BY <1>1, <1>4 DEF DataIntact
<1> QED
  BY <1>13, <1>14, <1>15, <1>16, <1>17, <1>18 DEF IInv

\* Post-handshake messages: a KeyUpdate moves the key on with the peer's.
LEMMA RecvPostHandshakeKeeps ==
    ASSUME IInv, RecvPostHandshake
    PROVE  IInv'
<1>1. TypeOK /\ Shapes(wire) /\ DataIntact /\ Flow /\ ReadKeys /\ WriteKeys /\ Errors
  BY DEF IInv
<1>2. in_status = "ENCRYPTED" /\ wire # << >> /\ ~closed
  <2>1. in_status # "PLAINTEXT"
    BY DEF RecvPostHandshake, s2n_read_full_record
  <2> QED
    BY <2>1, <1>1 DEF RecvPostHandshake, Receiving, CanRead, TypeOK
<1>3. s2n_read_full_record = [type |-> wire[1].type, body |-> wire[1].body,
                              decrypts |-> wire[1].epoch = recv_epoch, rest |-> Tail(wire)]
  BY <1>2 DEF s2n_read_full_record
<1>4. /\ wire[1].type = "HANDSHAKE" /\ wire' = Tail(wire) /\ in' = << >> /\ in_status' = "ENCRYPTED"
      /\ UNCHANGED <<setup, peer, alert_in, delivered, closed, error, dropped, out, sent, send_epoch,
                     writer_alert_out, close_notify_queued>>
      /\ IF IsUpdate(wire[1]) THEN recv_epoch' = recv_epoch + 1 /\ key_update_pending' \in BOOLEAN
         ELSE UNCHANGED <<recv_epoch, key_update_pending>>
  BY <1>3 DEF RecvPostHandshake, Wipe, outVars, IsUpdate, s2n_key_update_recv
<1>5. /\ in = << >> /\ wire[1] \in Records /\ Tail(wire) \in Seq(Records) /\ Shapes(Tail(wire))
      /\ \E e \in Nat, g \in {0, 1} :
            /\ StreamStep(wire[1], Len(delivered), e, Len(alert_in), g)
            /\ Stream(Tail(wire), e, peer.data, g, Len(peer.half))
      /\ Epochs(Tail(wire), recv_epoch + (IF IsUpdate(wire[1]) THEN 1 ELSE 0), peer.epoch, peer.damaged)
  BY <1>2, FirstRecord
<1>6. PICK e \in Nat, g \in {0, 1} :
            /\ StreamStep(wire[1], Len(delivered), e, Len(alert_in), g)
            /\ Stream(Tail(wire), e, peer.data, g, Len(peer.half))
  BY <1>5
<1>7. e = Len(delivered) /\ Len(alert_in) = 0 /\ g = 0
  BY <1>4, <1>6 DEF StreamStep
<1>8. recv_epoch \in Nat /\ delivered \in Seq(Units) /\ key_update_pending \in BOOLEAN
  BY <1>1 DEF TypeOK
<1>9. recv_epoch' = recv_epoch + (IF IsUpdate(wire[1]) THEN 1 ELSE 0)
      /\ recv_epoch' \in Nat /\ key_update_pending' \in BOOLEAN
  BY <1>4, <1>8
<1>10. TypeOK' /\ Shapes(wire)'
  BY <1>1, <1>4, <1>5, <1>9 DEF TypeOK
<1>11. Flow'
  <2>1. Len(delivered') + Len(in') = e /\ Len(alert_in') = g
    BY <1>4, <1>7, <1>8
  <2>2. Stream(wire', Len(delivered') + Len(in'), peer'.data, Len(alert_in'), Len(peer'.half))
    BY <2>1, <1>4, <1>6
  <2> QED
    BY <2>2, <1>4 DEF Flow
<1>12. ReadKeys'
  BY <1>4, <1>5, <1>9 DEF Paused, ReadKeys
<1>13. DataIntact' /\ WriteKeys' /\ Errors'
  BY <1>1, <1>4 DEF DataIntact, WriteKeys, Errors, s2n_handle_as_warning, Tls13
<1> QED
  BY <1>10, <1>11, <1>12, <1>13 DEF IInv

\* A message that is refused closes the connection.
LEMMA RecvRefusedKeeps ==
    ASSUME IInv, RecvRefused
    PROVE  IInv'
<1>1. TypeOK /\ Shapes(wire) /\ DataIntact /\ Flow /\ ReadKeys /\ WriteKeys /\ Errors
  BY DEF IInv
<1>2. in_status = "ENCRYPTED" /\ wire # << >> /\ ~closed
  <2>1. in_status # "PLAINTEXT"
    BY DEF RecvRefused, s2n_read_full_record
  <2> QED
    BY <2>1, <1>1 DEF RecvRefused, Receiving, CanRead, TypeOK
<1>3. s2n_read_full_record = [type |-> wire[1].type, body |-> wire[1].body,
                              decrypts |-> wire[1].epoch = recv_epoch, rest |-> Tail(wire)]
  BY <1>2 DEF s2n_read_full_record
<1>4. /\ wire' = Tail(wire) /\ in' \in {<< >>, <<Last(wire[1].body)>>} /\ in_status' = "PLAINTEXT"
      /\ error' = "BAD_MESSAGE" /\ closed' = TRUE
      /\ UNCHANGED <<setup, peer, alert_in, delivered, recv_epoch, key_update_pending, out, sent,
                     send_epoch, writer_alert_out, close_notify_queued, dropped>>
  BY <1>3 DEF RecvRefused, outVars
<1>5. wire[1] \in Records /\ Tail(wire) \in Seq(Records) /\ Shapes(Tail(wire))
  BY <1>2, FirstRecord
<1>6. wire[1].body \in Seq(Units) /\ wire[1].body # << >>
  <2>1. wire \in Seq(Records) /\ 1 \in 1 .. Len(wire)
    BY <1>1, <1>2 DEF TypeOK
  <2> QED
    BY <2>1, <1>1, <1>5 DEF Shapes, Records
<1>7. in' \in Seq(Units)
  <2>1. Last(wire[1].body) \in Units
    BY <1>6 DEF Last
  <2>2. \A x \in Units : <<x>> \in Seq(Units)
    OBVIOUS
  <2>3. << >> \in Seq(Units)
    OBVIOUS
  <2> QED
    BY <2>1, <2>2, <2>3, <1>4
<1>8. TypeOK' /\ Shapes(wire)'
  BY <1>1, <1>4, <1>5, <1>7 DEF TypeOK
<1>9. Flow' /\ ReadKeys' /\ DataIntact' /\ WriteKeys' /\ Errors'
  BY <1>1, <1>4 DEF Flow, ReadKeys, Paused, DataIntact, WriteKeys, Errors
<1> QED
  BY <1>8, <1>9 DEF IInv

\* A record that the key does not open was damaged.
LEMMA RecvDecryptErrorKeeps ==
    ASSUME IInv, RecvDecryptError
    PROVE  IInv'
<1>1. TypeOK /\ Shapes(wire) /\ DataIntact /\ Flow /\ ReadKeys /\ WriteKeys /\ Errors
  BY DEF IInv
<1>2. /\ ~closed /\ CanRead /\ ~s2n_read_full_record.decrypts /\ wire' = Tail(wire)
      /\ error' = "DECRYPT" /\ closed' = TRUE
      /\ UNCHANGED <<setup, peer, in, in_status, alert_in, delivered, recv_epoch, key_update_pending,
                     out, sent, send_epoch, writer_alert_out, close_notify_queued, dropped>>
  BY DEF RecvDecryptError, Killed, outVars
<1>3. in_status = "ENCRYPTED" /\ wire # << >> /\ wire[1].epoch # recv_epoch
  <2>1. in_status # "PLAINTEXT"
    BY <1>2 DEF s2n_read_full_record
  <2> QED
    BY <2>1, <1>1, <1>2 DEF s2n_read_full_record, CanRead, TypeOK
<1>4. peer.damaged /\ Tail(wire) \in Seq(Records) /\ Shapes(Tail(wire))
  BY <1>2, <1>3, FirstRecord
<1>5. TypeOK' /\ Shapes(wire)'
  BY <1>1, <1>2, <1>4 DEF TypeOK
<1>6. Flow' /\ ReadKeys' /\ DataIntact' /\ WriteKeys' /\ Errors'
  BY <1>1, <1>2, <1>4 DEF Flow, ReadKeys, Paused, DataIntact, WriteKeys, Errors
<1> QED
  BY <1>5, <1>6 DEF IInv

\* The end of the stream closes the connection.
LEMMA RecvEndOfStreamKeeps ==
    ASSUME IInv, RecvEndOfStream
    PROVE  IInv'
<1>1. TypeOK /\ Shapes(wire) /\ DataIntact /\ ReadKeys /\ WriteKeys /\ Errors
  BY DEF IInv
<1>2. /\ closed' = TRUE
      /\ UNCHANGED <<wire, setup, peer, in, in_status, alert_in, delivered, recv_epoch, key_update_pending,
                     out, sent, send_epoch, writer_alert_out, close_notify_queued, error, dropped>>
  BY DEF RecvEndOfStream, inVars, outVars
<1>3. TypeOK' /\ Shapes(wire)' /\ Flow' /\ ReadKeys' /\ DataIntact' /\ WriteKeys' /\ Errors'
  BY <1>1, <1>2 DEF TypeOK, Flow, ReadKeys, Paused, DataIntact, WriteKeys, Errors, s2n_handle_as_warning, Tls13
<1> QED
  BY <1>3 DEF IInv

----------------------------------------------------------------------------
(***************************************************************************)
(* s2n_send and s2n_shutdown.                                              *)
(***************************************************************************)
\* s2n_send leaves what is received alone.
LEMMA SendKeeps ==
    ASSUME IInv, s2n_send
    PROVE  IInv'
<1>1. TypeOK /\ Shapes(wire) /\ DataIntact /\ Flow /\ ReadKeys /\ WriteKeys /\ Errors
  BY DEF IInv
<1>2. UNCHANGED <<wire, setup, peer, in, in_status, alert_in, delivered, recv_epoch,
                  writer_alert_out, close_notify_queued, closed, error, dropped>>
  BY DEF s2n_send
<1>3. /\ out' \in Seq(Sent) /\ sent' \in Seq(Sent) /\ send_epoch' \in Nat /\ WriteKeys'
      /\ key_update_pending' \in BOOLEAN
  BY <1>1, SendKeepsKeys
<1>4. TypeOK' /\ Shapes(wire)'
  BY <1>1, <1>2, <1>3 DEF TypeOK
<1>5. Flow' /\ ReadKeys' /\ DataIntact' /\ Errors'
  BY <1>1, <1>2 DEF Flow, ReadKeys, Paused, DataIntact, Errors, s2n_handle_as_warning, Tls13
<1> QED
  BY <1>3, <1>4, <1>5 DEF IInv

\* s2n_shutdown that blocks in s2n_flush.
LEMMA ShutdownBlockedKeeps ==
    ASSUME IInv, ShutdownBlocked
    PROVE  IInv'
<1>1. TypeOK /\ Shapes(wire) /\ DataIntact /\ Flow /\ ReadKeys /\ WriteKeys /\ Errors
  BY DEF IInv
<1>2. /\ FlushBlocks(QueueClose) /\ close_notify_queued' = TRUE
      /\ UNCHANGED <<wire, setup, peer, in, in_status, alert_in, delivered, recv_epoch, key_update_pending,
                     send_epoch, error, dropped>>
  BY DEF ShutdownBlocked, inVars
<1>3. closed' \in BOOLEAN /\ (closed => closed')
  BY DEF ShutdownBlocked, ClosedByFlush
<1>4. QueueClose \in BOOLEAN
  BY DEF QueueClose
<1>5. out' \in Seq(Sent) /\ sent' \in Seq(Sent) /\ WriteKeys' /\ writer_alert_out' \in BOOLEAN
  BY <1>1, <1>2, <1>4, FlushKeepsKeys
<1>6. TypeOK' /\ Shapes(wire)'
  BY <1>1, <1>2, <1>3, <1>5 DEF TypeOK
<1>7. Flow' /\ ReadKeys' /\ DataIntact' /\ Errors'
  BY <1>1, <1>2, <1>3 DEF Flow, ReadKeys, Paused, DataIntact, Errors, s2n_handle_as_warning, Tls13
<1> QED
  BY <1>5, <1>6, <1>7 DEF IInv

\* What s2n_recv_close_notify does with the record it finds.
LEMMA AwaitCloseKeeps ==
    ASSUME IInv, ~Paused, AwaitClose, closed' = TRUE, close_notify_queued' = TRUE,
           UNCHANGED <<setup, peer, delivered, recv_epoch>>
    PROVE  /\ wire' \in Seq(Records) /\ Shapes(wire)'
           /\ in' \in Seq(Units) /\ in_status' \in {"PLAINTEXT", "ENCRYPTED"}
           /\ alert_in' \in Seq(Units) /\ Len(alert_in') \in 0 .. 2
           /\ error' \in {"NONE", "ALERT", "ALERT_PRESENT", "DECRYPT", "BAD_MESSAGE"} /\ dropped' \in BOOLEAN
           /\ ReadKeys' /\ Errors'
<1> DEFINE rec == wire[1]
           p   == s2n_process_alert_fragment(rec.body)
<1>1. TypeOK /\ Shapes(wire) /\ ReadKeys /\ Errors
  BY DEF IInv
<1>2. /\ wire \in Seq(Records) /\ alert_in \in Seq(Units) /\ Len(alert_in) \in 0 .. 2 /\ dropped \in BOOLEAN
      /\ error \in {"NONE", "ALERT", "ALERT_PRESENT", "DECRYPT", "BAD_MESSAGE"} /\ recv_epoch \in Nat
  BY <1>1 DEF TypeOK
<1>3. << >> \in Seq(Units)
  OBVIOUS
<1>4. wire # << >> => /\ rec \in Records /\ 1 \in 1 .. Len(wire)
                      /\ Tail(wire) \in Seq(Records) /\ Shapes(Tail(wire))
  BY <1>1, <1>2, ShapesTail
<1>5. rec \in Records => rec.body \in Seq(Units)
  BY DEF Records
<1>6. ~dropped => Epochs(wire, recv_epoch, peer.epoch, peer.damaged)
  BY <1>1 DEF Paused, ReadKeys
<1>7. wire # << >> /\ ~dropped =>
          /\ rec.epoch # recv_epoch => peer.damaged
          /\ Epochs(Tail(wire), recv_epoch + (IF IsUpdate(rec) THEN 1 ELSE 0), peer.epoch, peer.damaged)
  BY <1>2, <1>6, EpochsTail
<1>8. CASE /\ wire = << >> /\ in' = << >> /\ in_status' = "ENCRYPTED"
           /\ UNCHANGED <<wire, alert_in, error, dropped>>
  <2>1. wire' \in Seq(Records) /\ Shapes(wire)'
    BY <1>1, <1>2, <1>8
  <2>2. ReadKeys' /\ Errors'
    BY <1>1, <1>8 DEF Paused, ReadKeys, Errors, s2n_handle_as_warning, Tls13
  <2> QED
    BY <2>1, <2>2, <1>2, <1>3, <1>8
<1>9. CASE /\ wire # << >> /\ rec.epoch # recv_epoch /\ wire' = Tail(wire)
           /\ in' = << >> /\ in_status' = "ENCRYPTED" /\ error' = "DECRYPT"
           /\ UNCHANGED <<alert_in, dropped>>
  <2>1. wire' \in Seq(Records) /\ Shapes(wire)'
    BY <1>4, <1>9
  <2>2. dropped \/ peer.damaged
    BY <1>7, <1>9
  <2>3. ReadKeys' /\ Errors'
    BY <2>2, <1>9 DEF Paused, ReadKeys, Errors
  <2> QED
    BY <2>1, <2>3, <1>2, <1>3, <1>9
<1>10. CASE /\ wire # << >> /\ wire' = Tail(wire)
            /\ in' = rec.body /\ in_status' = "PLAINTEXT" /\ dropped' = TRUE
            /\ UNCHANGED <<alert_in, error>>
  <2>1. wire' \in Seq(Records) /\ Shapes(wire)' /\ in' \in Seq(Units)
    BY <1>4, <1>5, <1>10
  <2>2. ReadKeys' /\ Errors'
    BY <1>1, <1>10 DEF Paused, ReadKeys, Errors, s2n_handle_as_warning, Tls13
  <2> QED
    BY <2>1, <2>2, <1>2, <1>10
<1>11. CASE /\ wire # << >> /\ rec.epoch = recv_epoch /\ rec.type = "ALERT" /\ wire' = Tail(wire)
            /\ in' = p.in /\ in_status' = "PLAINTEXT" /\ alert_in' = p.alert_in
            /\ error' = IF p.result \in {"ALERT", "ALERT_PRESENT"} THEN p.result ELSE error
            /\ UNCHANGED dropped
  <2>1. wire' \in Seq(Records) /\ Shapes(wire)' /\ rec.body \in Seq(Units)
    BY <1>4, <1>5, <1>11
  <2>2. Len(rec.body) \in 1 .. 2 /\ ~IsUpdate(rec)
    BY <1>1, <1>4, <1>11 DEF Shapes
  <2> DEFINE body == rec.body
  <2>3. body \in Seq(Units) /\ Len(body) \in 0 .. 2
    BY <2>1, <2>2
  <2> HIDE DEF body
  <2>4. p = s2n_process_alert_fragment(body)
    BY DEF body
  <2>5. LET pp == s2n_process_alert_fragment(body)
        IN  /\ pp.result \in {"OK", "CLOSE_NOTIFY", "ALERT", "ALERT_PRESENT"}
            /\ pp.alert_in \in Seq(Units) /\ Len(pp.alert_in) \in 0 .. 2
            /\ pp.in \in Seq(Units)
            /\ pp.result = "ALERT_PRESENT" <=> Len(alert_in) = 2
            /\ pp.result = "ALERT" => /\ Len(pp.alert_in) = 2
                                      /\ pp.alert_in[1].what # "CLOSE_NOTIFY"
                                      /\ ~s2n_handle_as_warning(pp.alert_in[1].what)
    BY <2>3, <1>2, AlertFragment
  <2> HIDE DEF p
  <2>6. /\ p.result \in {"OK", "CLOSE_NOTIFY", "ALERT", "ALERT_PRESENT"}
        /\ p.alert_in \in Seq(Units) /\ Len(p.alert_in) \in 0 .. 2
        /\ p.in \in Seq(Units)
        /\ p.result = "ALERT_PRESENT" <=> Len(alert_in) = 2
        /\ p.result = "ALERT" => /\ Len(p.alert_in) = 2
                                 /\ p.alert_in[1].what # "CLOSE_NOTIFY"
                                 /\ ~s2n_handle_as_warning(p.alert_in[1].what)
    BY <2>4, <2>5, Zenon
  <2>7. error' \in {"NONE", "ALERT", "ALERT_PRESENT", "DECRYPT", "BAD_MESSAGE"} /\ error' # "DECRYPT"
    BY <2>6, <1>2, <1>11 DEF Paused
  <2>8. error' = "ALERT" => p.result = "ALERT"
    <3>1. p.result \notin {"ALERT", "ALERT_PRESENT"} => error # "ALERT"
      BY <2>6, <1>1 DEF Errors
    <3> QED
      BY <3>1, <1>11
  <2>9. Errors'
    <3>1. error' = "ALERT" => /\ Len(alert_in') = 2
                              /\ alert_in'[1].what # "CLOSE_NOTIFY"
                              /\ ~s2n_handle_as_warning(alert_in'[1].what)
      BY <2>6, <2>8, <1>11
    <3> QED
      BY <3>1, <2>7 DEF Errors, s2n_handle_as_warning, Tls13
  <2>10. ReadKeys'
    <3>1. recv_epoch + (IF IsUpdate(rec) THEN 1 ELSE 0) = recv_epoch
      BY <2>2, <1>2
    <3> QED
      BY <3>1, <1>7, <1>11 DEF Paused, ReadKeys
  <2> QED
    BY <2>1, <2>6, <2>7, <2>9, <2>10, <1>2, <1>11
<1> QED
  BY <1>8, <1>9, <1>10, <1>11 DEF AwaitClose, Wipe

\* s2n_shutdown that has written all it had.
LEMMA ShutdownFlushedKeeps ==
    ASSUME IInv, ShutdownFlushed
    PROVE  IInv'
<1>1. TypeOK /\ Shapes(wire) /\ DataIntact /\ ReadKeys /\ WriteKeys /\ Errors
  BY DEF IInv
<1>2. /\ ~Paused /\ FlushAll(QueueClose) /\ close_notify_queued' = TRUE /\ closed' = TRUE
      /\ UNCHANGED <<setup, peer, delivered, recv_epoch, key_update_pending, send_epoch>>
      /\ \/ in' = << >> /\ in_status' = "ENCRYPTED" /\ UNCHANGED <<wire, alert_in, error, dropped>>
         \/ AwaitClose
  BY DEF ShutdownFlushed, Wipe
<1>3. QueueClose \in BOOLEAN
  BY DEF QueueClose
<1>4. out' \in Seq(Sent) /\ sent' \in Seq(Sent) /\ WriteKeys' /\ writer_alert_out' \in BOOLEAN
  BY <1>1, <1>2, <1>3, FlushKeepsKeys
<1>5. /\ wire' \in Seq(Records) /\ Shapes(wire)'
      /\ in' \in Seq(Units) /\ in_status' \in {"PLAINTEXT", "ENCRYPTED"}
      /\ alert_in' \in Seq(Units) /\ Len(alert_in') \in 0 .. 2
      /\ error' \in {"NONE", "ALERT", "ALERT_PRESENT", "DECRYPT", "BAD_MESSAGE"} /\ dropped' \in BOOLEAN
      /\ ReadKeys' /\ Errors'
  <2>1. CASE in' = << >> /\ in_status' = "ENCRYPTED" /\ UNCHANGED <<wire, alert_in, error, dropped>>
    <3>1. in' \in Seq(Units) /\ in_status' \in {"PLAINTEXT", "ENCRYPTED"}
      BY <2>1
    <3> QED
      BY <2>1, <3>1, <1>1, <1>2 DEF TypeOK, ReadKeys, Paused, Errors, s2n_handle_as_warning, Tls13
  <2>2. CASE AwaitClose
    BY <2>2, <1>2, AwaitCloseKeeps
  <2> QED
    BY <2>1, <2>2, <1>2
<1>6. TypeOK'
  BY <1>1, <1>2, <1>4, <1>5 DEF TypeOK
<1>7. Flow' /\ DataIntact'
  BY <1>1, <1>2 DEF Flow, DataIntact
<1> QED
  BY <1>4, <1>5, <1>6, <1>7 DEF IInv

----------------------------------------------------------------------------
(***************************************************************************)
(* The theorems.                                                           *)
(***************************************************************************)
\* Nothing is on its way at first, and nothing was sealed.
LEMMA InitIInv ==
    ASSUME Init
    PROVE  IInv
<1>1. TypeOK
  <2>1. /\ << >> \in Seq(Records) /\ << >> \in Seq(Units) /\ << >> \in Seq(Sent) /\ << >> \in Seq(Alerts)
        /\ Len(<< >>) \in 0 .. 1 /\ Len(<< >>) \in 0 .. 2
    OBVIOUS
  <2>2. peer = [records |-> 0, data |-> 0, epoch |-> 0, half |-> << >>, rest |-> << >>,
                refusable |-> FALSE, over |-> FALSE, gone |-> FALSE, damaged |-> FALSE]
    BY DEF Init
  <2>3. /\ peer \in PeerState
        /\ peer.half = << >>
    BY <2>1, <2>2 DEF PeerState
  <2> QED
    BY <2>1, <2>3 DEF Init, TypeOK
<1>2. wire = << >> /\ in = << >> /\ delivered = << >> /\ alert_in = << >> /\ out = << >> /\ sent = << >>
  BY DEF Init
<1>3. Len(wire) = 0 /\ Len(in) = 0 /\ Len(delivered) = 0 /\ Len(alert_in) = 0 /\ Len(peer.half) = 0
  BY <1>2 DEF Init
<1> DEFINE f == [i \in 1 .. 1 |-> 0]
<1>4. f \in [1 .. 1 -> Nat] /\ f \in [1 .. 1 -> {0, 1}] /\ f[1] = 0
  OBVIOUS
<1>5. Len(wire) + 1 = 1 /\ Len(delivered) + Len(in) = 0 /\ 1 .. Len(wire) = {}
  BY <1>3
<1>6. peer.data = 0 /\ peer.epoch = 0 /\ recv_epoch = 0 /\ send_epoch = 0
  BY DEF Init
<1> HIDE DEF f
<1>7. Flow
  <2>1. StreamPath(f, f, wire, 0, 0, 0, 0)
    BY <1>4, <1>5 DEF StreamPath
  <2>2. Stream(wire, 0, 0, 0, 0)
    BY <2>1, <1>4, <1>5 DEF Stream
  <2>3. \A i \in 1 .. Len(in) : in[i] = Unit("DATA", Len(delivered) + i)
    BY <1>3
  <2> QED
    BY <2>2, <2>3, <1>2, <1>3, <1>5, <1>6 DEF Flow
<1>8. ReadKeys
  <2>1. EpochPath(f, wire, 0, 0, peer.damaged)
    BY <1>4, <1>5 DEF EpochPath
  <2>2. Epochs(wire, 0, 0, peer.damaged)
    BY <2>1, <1>4, <1>5 DEF Epochs
  <2> QED
    BY <2>2, <1>6 DEF Paused, ReadKeys
<1>9. WriteKeys
  <2> DEFINE w == sent \o out
  <2>1. Len(w) = 0
    BY <1>2
  <2>2. Len(w) + 1 = 1 /\ 1 .. Len(w) = {}
    BY <2>1
  <2> HIDE DEF w
  <2>3. SealedPath(f, w, 0)
    BY <2>2, <1>4 DEF SealedPath
  <2>4. SealedInStep(w, 0)
    BY <2>2, <2>3, <1>4 DEF SealedInStep
  <2> QED
    BY <2>4, <1>6 DEF WriteKeys, w
<1>10. Shapes(wire) /\ DataIntact
  BY <1>3 DEF Shapes, DataIntact
<1>11. Errors
  BY DEF Init, Errors
<1> QED
  BY <1>1, <1>7, <1>8, <1>9, <1>10, <1>11 DEF IInv

\* Every step keeps the invariant.
LEMMA NextIInv ==
    ASSUME ~CoalesceAlerts, IInv, [Next]_vars
    PROVE  IInv'
<1>1. CASE PeerData          BY <1>1, PeerDataKeeps
<1>2. CASE PeerAlert         BY <1>2, PeerAlertKeeps
<1>3. CASE PeerSecondHalf    BY <1>3, PeerSecondHalfKeeps
<1>4. CASE PeerHandshake     BY <1>4, PeerHandshakeKeeps
<1>5. CASE RecordDamaged     BY <1>5, RecordDamagedKeeps
<1>16. CASE PeerCutsMessage  BY <1>16, PeerCutsMessageKeeps
<1>17. CASE PeerLastPart     BY <1>17, PeerLastPartKeeps
<1>18. CASE RecvRefused      BY <1>18, RecvRefusedKeeps
<1>6. CASE PeerDisappears    BY <1>6, PeerDisappearsKeeps
<1>7. CASE RecvData          BY <1>7, RecvDataKeeps
<1>8. CASE RecvAlert         BY <1>8, RecvAlertKeeps
<1>9. CASE RecvPostHandshake BY <1>9, RecvPostHandshakeKeeps
<1>10. CASE RecvDecryptError BY <1>10, RecvDecryptErrorKeeps
<1>11. CASE RecvEndOfStream  BY <1>11, RecvEndOfStreamKeeps
<1>12. CASE s2n_send         BY <1>12, SendKeeps
<1>13. CASE ShutdownBlocked  BY <1>13, ShutdownBlockedKeeps
<1>14. CASE ShutdownFlushed  BY <1>14, ShutdownFlushedKeeps
<1>15. CASE UNCHANGED vars
  <2>1. UNCHANGED <<wire, setup, peer, in, in_status, alert_in, delivered, recv_epoch, key_update_pending,
                    out, sent, send_epoch, writer_alert_out, close_notify_queued, closed, error, dropped>>
    BY <1>15 DEF vars, inVars, outVars
  <2>2. TypeOK /\ Shapes(wire) /\ DataIntact /\ Flow /\ ReadKeys /\ WriteKeys /\ Errors
    BY DEF IInv
  <2>3. TypeOK' /\ Shapes(wire)' /\ DataIntact' /\ Flow'
    BY <2>1, <2>2 DEF TypeOK, DataIntact, Flow
  <2>4. ReadKeys' /\ WriteKeys' /\ Errors'
    BY <2>1, <2>2 DEF ReadKeys, Paused, WriteKeys, Errors, s2n_handle_as_warning, Tls13
  <2> QED
    BY <2>3, <2>4 DEF IInv
<1> QED
  BY <1>1, <1>2, <1>3, <1>4, <1>5, <1>6, <1>7, <1>8, <1>9, <1>10, <1>11, <1>12, <1>13, <1>14, <1>15,
     <1>16, <1>17, <1>18 DEF Next, PeerStep, s2n_recv, s2n_shutdown

\* A message is refused, or on its way to be, only when the peer sent such a one.
RefusedOf(w) == {i \in 1 .. Len(w) : Refused(w[i].body) /\ w[i].type = "HANDSHAKE"}

Refusals == error = "BAD_MESSAGE" \/ RefusedOf(wire) # {} \/ peer.rest # << >> => peer.refusable

\* A whole message other than a hello is not refused.
LEMMA WholeMessages ==
    ASSUME NEW body \in PeerMessages, Refused(body)
    PROVE  Last(body).what = "CLIENT_HELLO"
<1>1. \A n \in {0, 1} : Unit("KEY_UPDATE", n).what = "KEY_UPDATE" /\ Unit("KEY_UPDATE", n).n = n
  BY DEF Unit
<1>2. /\ Unit("TICKET", 0).what = "TICKET" /\ Unit("TICKET", 0).n = 0
      /\ Unit("HELLO_REQUEST", 0).what = "HELLO_REQUEST" /\ Unit("HELLO_REQUEST", 0).n = 0
      /\ Unit("CLIENT_HELLO", 0).what = "CLIENT_HELLO"
  BY DEF Unit
<1>3. \A x, y : Last(<<x>>) = x /\ Last(<<x, y>>) = y
  BY DEF Last
<1>4. \/ body \in {<<Unit("KEY_UPDATE", r)>> : r \in {0, 1}}
      \/ body = <<Unit("TICKET", 0), Unit("TICKET", 0)>>
      \/ body = <<Unit("TICKET", 0), Unit("KEY_UPDATE", 1)>>
      \/ body = <<Unit("HELLO_REQUEST", 0)>>
      \/ body = <<Unit("CLIENT_HELLO", 0)>>
  BY DEF PeerMessages
<1>5. CASE body \in {<<Unit("KEY_UPDATE", r)>> : r \in {0, 1}}
  <2>1. PICK r \in {0, 1} : body = <<Unit("KEY_UPDATE", r)>>
    BY <1>5
  <2>2. Last(body).what = "KEY_UPDATE" /\ Last(body).n = r
    BY <2>1, <1>1, <1>3
  <2> QED
    BY <2>2 DEF Refused
<1>6. CASE body = <<Unit("TICKET", 0), Unit("TICKET", 0)>>
  BY <1>6, <1>2, <1>3 DEF Refused
<1>7. CASE body = <<Unit("TICKET", 0), Unit("KEY_UPDATE", 1)>>
  BY <1>7, <1>1, <1>3 DEF Refused
<1>8. CASE body = <<Unit("HELLO_REQUEST", 0)>>
  BY <1>8, <1>2, <1>3 DEF Refused
<1>9. CASE body = <<Unit("CLIENT_HELLO", 0)>>
  BY <1>9, <1>2, <1>3
<1> QED
  BY <1>4, <1>5, <1>6, <1>7, <1>8, <1>9, Zenon

\* The records but the first hold no more messages to refuse than all.
LEMMA RefusedOfTail ==
    ASSUME NEW w \in Seq(Records), w # << >>, RefusedOf(Tail(w)) # {}
    PROVE  RefusedOf(w) # {}
<1>1. PICK i \in 1 .. Len(Tail(w)) : Refused(Tail(w)[i].body) /\ Tail(w)[i].type = "HANDSHAKE"
  BY DEF RefusedOf
<1>2. Tail(w)[i] = w[i + 1] /\ i + 1 \in 1 .. Len(w)
  OBVIOUS
<1>3. i + 1 \in RefusedOf(w)
  BY <1>1, <1>2 DEF RefusedOf
<1> QED
  BY <1>3

\* One more record adds at most itself.
LEMMA RefusedOfAppend ==
    ASSUME NEW w \in Seq(Records), NEW rec, RefusedOf(Append(w, rec)) # {}
    PROVE  RefusedOf(w) # {} \/ (Refused(rec.body) /\ rec.type = "HANDSHAKE")
<1> DEFINE v == Append(w, rec)
<1>1. Len(v) = Len(w) + 1 /\ Len(w) \in Nat /\ v[Len(w) + 1] = rec /\ \A i \in 1 .. Len(w) : v[i] = w[i]
  OBVIOUS
<1>2. PICK i \in 1 .. Len(v) : Refused(v[i].body) /\ v[i].type = "HANDSHAKE"
  BY DEF RefusedOf
<1> HIDE DEF v
<1>3. CASE i = Len(w) + 1
  BY <1>1, <1>2, <1>3
<1>4. CASE i # Len(w) + 1
  <2>1. i \in 1 .. Len(w)
    BY <1>1, <1>4
  <2>2. i \in RefusedOf(w)
    BY <2>1, <1>1, <1>2 DEF RefusedOf
  <2> QED
    BY <2>2
<1> QED
  BY <1>3, <1>4

\* The peer's record is not one to refuse, or the peer is known to send such.
LEMMA SendingKeepsRefusals ==
    ASSUME IInv, Refusals, NEW type, NEW body, NEW after, PeerSends(type, body, after),
           after \in PeerState,
           peer.refusable => after.refusable,
           after.rest # << >> => after.refusable \/ peer.rest # << >>,
           type = "HANDSHAKE" /\ Refused(body) => after.refusable
    PROVE  Refusals'
<1>1. wire \in Seq(Records)
  BY DEF IInv, TypeOK
<1> DEFINE rec  == RecordOf(type, body)
           more == [after EXCEPT !.records = @ + 1]
<1>2. wire' = Append(wire, rec) /\ peer' = more /\ error' = error
  BY DEF PeerSends
<1>3. rec.type = type /\ rec.body = body
  BY DEF RecordOf
<1>4. more.rest = after.rest /\ more.refusable = after.refusable
  BY DEF PeerState
<1> HIDE DEF rec, more
<1>5. ASSUME RefusedOf(wire') # {} PROVE peer'.refusable
  <2>1. RefusedOf(wire) # {} \/ (Refused(rec.body) /\ rec.type = "HANDSHAKE")
    BY <1>1, <1>2, <1>5, RefusedOfAppend
  <2> QED
    BY <2>1, <1>2, <1>3, <1>4 DEF Refusals
<1> QED
  BY <1>2, <1>4, <1>5 DEF Refusals

\* Every step keeps that.
LEMMA RefusalsKept ==
    ASSUME IInv, Refusals, [Next]_vars
    PROVE  Refusals'
<1>1. wire \in Seq(Records) /\ peer \in PeerState /\ in_status \in {"PLAINTEXT", "ENCRYPTED"}
  BY DEF IInv, TypeOK
<1>2. CASE PeerData
  <2> DEFINE body  == <<Unit("DATA", peer.data + 1), Unit("DATA", peer.data + 2)>>
             after == [peer EXCEPT !.data = @ + 2]
  <2>1. PeerSends("APPLICATION_DATA", body, after)
    BY <1>2 DEF PeerData
  <2>2. after \in PeerState /\ after.refusable = peer.refusable /\ after.rest = peer.rest
    BY <1>1 DEF PeerState
  <2> HIDE DEF body, after
  <2> QED
    BY <2>1, <2>2, SendingKeepsRefusals
<1>3. CASE PeerAlert
  <2>1. PICK a \in Alerts :
            \/ \E body \in AlertBodies(a) :
                  PeerSends("ALERT", body, [peer EXCEPT !.over = a \in ClosingAlerts])
            \/ PeerSends("ALERT", <<Head(AlertOf(a))>>, [peer EXCEPT !.half = <<a>>])
    BY <1>3 DEF PeerAlert
  <2> DEFINE over == a \in ClosingAlerts
             half == <<a>>
             x    == [peer EXCEPT !.over = over]
             y    == [peer EXCEPT !.half = half]
  <2>2. over \in BOOLEAN /\ half \in Seq(Alerts)
    OBVIOUS
  <2>3. PICK body : PeerSends("ALERT", body, x) \/ PeerSends("ALERT", body, y)
    BY <2>1
  <2> HIDE DEF over, half
  <2>4. /\ x \in PeerState /\ x.refusable = peer.refusable /\ x.rest = peer.rest
        /\ y \in PeerState /\ y.refusable = peer.refusable /\ y.rest = peer.rest
    BY <1>1, <2>2 DEF PeerState
  <2> HIDE DEF x, y
  <2> QED
    BY <2>3, <2>4, SendingKeepsRefusals
<1>4. CASE PeerSecondHalf
  <2> DEFINE over == peer.half[1] \in ClosingAlerts
             half == << >>
             body == Tail(AlertOf(peer.half[1]))
             after == [peer EXCEPT !.half = half, !.over = over]
  <2>1. PeerSends("ALERT", body, after)
    BY <1>4 DEF PeerSecondHalf
  <2>2. over \in BOOLEAN /\ half \in Seq(Alerts)
    OBVIOUS
  <2> HIDE DEF over, half
  <2>3. after \in PeerState /\ after.refusable = peer.refusable /\ after.rest = peer.rest
    BY <1>1, <2>2 DEF PeerState
  <2> HIDE DEF body, after
  <2> QED
    BY <2>1, <2>3, SendingKeepsRefusals
<1>5. CASE PeerHandshake
  <2>1. PICK body \in PeerMessages :
            PeerSends("HANDSHAKE", body,
                      [peer EXCEPT !.epoch = NextEpoch(body),
                                   !.refusable = @ \/ Last(body).what = "CLIENT_HELLO"])
    BY <1>5 DEF PeerHandshake
  <2>2. NextEpoch(body) \in Nat
    BY <1>1 DEF NextEpoch, PeerState
  <2> DEFINE no    == peer.refusable \/ Last(body).what = "CLIENT_HELLO"
             after == [peer EXCEPT !.epoch = NextEpoch(body), !.refusable = no]
  <2>3. PeerSends("HANDSHAKE", body, after)
    BY <2>1
  <2>4. no \in BOOLEAN /\ (peer.refusable => no) /\ (Last(body).what = "CLIENT_HELLO" => no)
    BY <1>1 DEF PeerState
  <2> HIDE DEF no
  <2>5. after \in PeerState /\ after.refusable = no /\ after.rest = peer.rest
    BY <1>1, <2>2, <2>4 DEF PeerState
  <2> HIDE DEF after
  <2>6. Refused(body) => Last(body).what = "CLIENT_HELLO"
    BY WholeMessages
  <2> QED
    BY <2>3, <2>4, <2>5, <2>6, SendingKeepsRefusals
<1>6. CASE PeerCutsMessage
  <2>1. PICK msgs \in PeerMessages :
            PeerSends("HANDSHAKE", Append(Front(msgs), FirstPart),
                      [peer EXCEPT !.rest = <<LastPart(Last(msgs))>>, !.refusable = TRUE])
    BY <1>6 DEF PeerCutsMessage
  <2> DEFINE body  == Append(Front(msgs), FirstPart)
             rest  == <<LastPart(Last(msgs))>>
             yes   == TRUE
             after == [peer EXCEPT !.rest = rest, !.refusable = yes]
  <2>2. rest \in Seq(Units)
    <3>1. msgs \in Seq(Units) /\ Len(msgs) \in 1 .. 2
      BY PeerMessagesTyped
    <3>2. Last(msgs) \in Units
      BY <3>1 DEF Last
    <3>3. LastPart(Last(msgs)) \in Units
      BY <3>2 DEF LastPart, Unit, Units
    <3> QED
      BY <3>3
  <2>3. PeerSends("HANDSHAKE", body, after)
    BY <2>1
  <2>4. yes \in BOOLEAN /\ yes
    OBVIOUS
  <2> HIDE DEF body, rest, yes
  <2>5. after \in PeerState /\ after.refusable = yes
    BY <1>1, <2>2, <2>4 DEF PeerState
  <2> HIDE DEF after
  <2> QED
    BY <2>3, <2>4, <2>5, SendingKeepsRefusals
<1>7. CASE PeerLastPart
  <2> DEFINE rest  == << >>
             body  == peer.rest
             after == [peer EXCEPT !.rest = rest, !.epoch = NextEpoch(body)]
  <2>1. PeerSends("HANDSHAKE", body, after)
    BY <1>7 DEF PeerLastPart
  <2>2. NextEpoch(body) \in Nat
    BY <1>1 DEF NextEpoch, PeerState
  <2>3. rest \in Seq(Units) /\ rest = << >>
    OBVIOUS
  <2> HIDE DEF rest
  <2>4. after \in PeerState /\ after.refusable = peer.refusable /\ after.rest = rest
    BY <1>1, <2>2, <2>3 DEF PeerState
  <2>5. peer.refusable
    BY <1>7 DEF PeerLastPart, Refusals
  <2> HIDE DEF after
  <2> QED
    BY <2>1, <2>3, <2>4, <2>5, SendingKeepsRefusals
<1>8. CASE RecordDamaged
  <2>1. /\ wire # << >> /\ wire' = [wire EXCEPT ![Len(wire)].epoch = -1] /\ error' = error
        /\ peer' = [peer EXCEPT !.damaged = TRUE, !.over = TRUE]
    BY <1>8 DEF RecordDamaged
  <2>2. peer'.refusable = peer.refusable /\ peer'.rest = peer.rest
    BY <1>1, <2>1 DEF PeerState
  <2>3. RefusedOf(wire') = RefusedOf(wire)
    <3> DEFINE n == Len(wire)
               bad == [wire[n] EXCEPT !.epoch = -1]
    <3>1. n \in 1 .. Len(wire) /\ wire[n] \in Records
      BY <1>1, <2>1
    <3>2. bad \in Records /\ bad.type = wire[n].type /\ bad.body = wire[n].body
      BY <3>1 DEF Records
    <3>3. wire' = [wire EXCEPT ![n] = bad]
      BY <2>1
    <3> HIDE DEF n, bad
    <3>4. /\ Len(wire') = Len(wire)
          /\ \A i \in 1 .. Len(wire) : wire'[i] = IF i = n THEN bad ELSE wire[i]
      <4>1. /\ Len([wire EXCEPT ![n] = bad]) = Len(wire)
            /\ \A i \in 1 .. Len(wire) : [wire EXCEPT ![n] = bad][i] = IF i = n THEN bad ELSE wire[i]
        BY <1>1, <3>1, <3>2, ExceptSeq
      <4> QED
        BY <4>1, <3>3, Zenon
    <3>5. \A i \in 1 .. Len(wire) : wire'[i].type = wire[i].type /\ wire'[i].body = wire[i].body
      BY <3>2, <3>4, Zenon
    <3> QED
      BY <3>4, <3>5 DEF RefusedOf
  <2> QED
    BY <2>1, <2>2, <2>3 DEF Refusals
<1>9. CASE PeerDisappears
  <2>1. wire' = wire /\ error' = error /\ peer' = [peer EXCEPT !.over = TRUE, !.gone = TRUE]
    BY <1>9 DEF PeerDisappears
  <2>2. peer'.refusable = peer.refusable /\ peer'.rest = peer.rest
    BY <1>1, <2>1 DEF PeerState
  <2> QED
    BY <2>1, <2>2 DEF Refusals
<1>10. ASSUME UNCHANGED peer, wire' = wire \/ (wire # << >> /\ wire' = Tail(wire)),
              error' = "BAD_MESSAGE" => error = "BAD_MESSAGE" \/ RefusedOf(wire) # {}
       PROVE  Refusals'
  BY <1>1, <1>10, RefusedOfTail DEF Refusals
<1>11. in_status # "PLAINTEXT" =>
          s2n_read_full_record = [type |-> wire[1].type, body |-> wire[1].body,
                                  decrypts |-> wire[1].epoch = recv_epoch, rest |-> Tail(wire)]
  BY DEF s2n_read_full_record
<1>12. s2n_read_full_record.rest = wire \/ (in_status # "PLAINTEXT" /\ s2n_read_full_record.rest = Tail(wire))
  BY DEF s2n_read_full_record
<1>13. CASE RecvData
  BY <1>13, <1>10, <1>12 DEF RecvData, Receiving, CanRead
<1>14. CASE RecvAlert
  <2>1. error' # error => error' \in {"ALERT", "ALERT_PRESENT"}
    BY <1>14 DEF RecvAlert
  <2> QED
    BY <2>1, <1>14, <1>10, <1>12 DEF RecvAlert, Receiving, CanRead
<1>15. CASE RecvPostHandshake
  BY <1>15, <1>10, <1>12 DEF RecvPostHandshake, Receiving, CanRead
<1>16. CASE RecvRefused
  <2>1. in_status # "PLAINTEXT"
    BY <1>16 DEF RecvRefused, s2n_read_full_record
  <2>2. /\ wire # << >> /\ wire[1].type = "HANDSHAKE" /\ Refused(wire[1].body)
        /\ wire' = Tail(wire) /\ UNCHANGED peer
    BY <2>1, <1>11, <1>16 DEF RecvRefused, Receiving, CanRead
  <2>3. 1 \in 1 .. Len(wire)
    BY <2>2, <1>1
  <2>4. 1 \in RefusedOf(wire)
    BY <2>2, <2>3 DEF RefusedOf
  <2> QED
    BY <2>2, <2>4, <1>10
<1>17. CASE RecvDecryptError
  <2>1. in_status # "PLAINTEXT"
    BY <1>17 DEF RecvDecryptError, Killed, s2n_read_full_record
  <2> QED
    BY <2>1, <1>17, <1>10 DEF RecvDecryptError, Killed, CanRead
<1>18. CASE RecvEndOfStream
  BY <1>18, <1>10 DEF RecvEndOfStream
<1>19. CASE s2n_send
  BY <1>19, <1>10 DEF s2n_send
<1>20. CASE ShutdownBlocked
  BY <1>20, <1>10 DEF ShutdownBlocked
<1>21. CASE ShutdownFlushed
  <2>1. UNCHANGED peer
    BY <1>21 DEF ShutdownFlushed
  <2>2. CASE AwaitClose
    <3>1. wire' = wire \/ (wire # << >> /\ wire' = Tail(wire))
      BY <2>2 DEF AwaitClose
    <3>2. error' # error => error' \in {"DECRYPT", "ALERT", "ALERT_PRESENT"}
      BY <2>2 DEF AwaitClose
    <3> QED
      BY <2>1, <3>1, <3>2, <1>10
  <2>3. CASE UNCHANGED <<wire, error>>
    BY <2>1, <2>3, <1>10
  <2> QED
    BY <2>2, <2>3, <1>21 DEF ShutdownFlushed
<1>22. CASE UNCHANGED vars
  BY <1>22, <1>10 DEF vars
<1> QED
  BY <1>2, <1>3, <1>4, <1>5, <1>6, <1>7, <1>8, <1>9, <1>13, <1>14, <1>15, <1>16, <1>17, <1>18, <1>19,
     <1>20, <1>21, <1>22 DEF Next, PeerStep, s2n_recv, s2n_shutdown

\* The invariant says what StreamUnderstood does: the paths of key generations
\* go up by one at each KeyUpdate, so they count them.
LEMMA IInvUnderstood ==
    ASSUME IInv, Refusals
    PROVE  StreamUnderstood
<1>1. TypeOK /\ DataIntact /\ ReadKeys /\ WriteKeys /\ Errors
  BY DEF IInv
<1>2. NoSpuriousError
  BY <1>1 DEF Errors, Refusals, NoSpuriousError
<1>3. ASSUME ~dropped, ~closed
      PROVE  recv_epoch + Updates(wire) = peer.epoch
  <2>1. Epochs(wire, recv_epoch, peer.epoch, peer.damaged)
    BY <1>1, <1>3 DEF Paused, ReadKeys, Errors
  <2>2. PICK f \in [1 .. Len(wire) + 1 -> Nat] : EpochPath(f, wire, recv_epoch, peer.epoch, peer.damaged)
    BY <2>1 DEF Epochs
  <2> DEFINE n == Len(wire)
             S == {i \in 1 .. n : IsUpdate(wire[i])}
  <2>3. n \in Nat /\ recv_epoch \in Nat /\ peer.epoch \in Nat
    BY <1>1 DEF TypeOK, PeerState
  <2>4. f[1] = recv_epoch /\ f[n + 1] = peer.epoch
    BY <2>2 DEF EpochPath
  <2>5. RisesAt(f, S, n)
    BY <2>2 DEF EpochPath, RisesAt
  <2>6. f \in [1 .. n + 1 -> Nat]
    OBVIOUS
  <2>7. {i \in 1 .. n : i \in S} = {i \in 1 .. Len(wire) : Last(wire[i].body).what = "KEY_UPDATE"}
    BY DEF IsUpdate
  <2>8. Updates(wire) = NumberOf(S, n)
    BY <2>7 DEF Updates, NumberOf
  <2> HIDE DEF n, S
  <2>9. \A k \in 0 .. n : NumberOf(S, k) = f[k + 1] - f[1]
    BY <2>3, <2>5, <2>6, CountPath, Zenon
  <2>10. n \in 0 .. n
    BY <2>3
  <2> QED
    BY <2>3, <2>4, <2>8, <2>9, <2>10
<1>4. \A i \in 1 .. Len(sent) :
          sent[i].epoch = Cardinality({j \in 1 .. i - 1 : sent[j].what = "KEY_UPDATE"})
  <2> DEFINE w == sent \o out
             n == Len(w)
             S == {i \in 1 .. n : w[i].what = "KEY_UPDATE"}
  <2>1. sent \in Seq(Sent) /\ out \in Seq(Sent) /\ send_epoch \in Nat
    BY <1>1 DEF TypeOK
  <2>2. w \in Seq(Sent) /\ n \in Nat /\ Len(sent) \in Nat /\ Len(sent) <= n
    BY <2>1
  <2>3. \A i \in 1 .. Len(sent) : w[i] = sent[i]
    BY <2>1
  <2>4. SealedInStep(w, send_epoch)
    BY <1>1 DEF WriteKeys
  <2> HIDE DEF w
  <2>5. PICK f \in [1 .. Len(w) + 1 -> Nat] : SealedPath(f, w, send_epoch)
    BY <2>4 DEF SealedInStep
  <2>6. RisesAt(f, S, n)
    BY <2>5 DEF SealedPath, RisesAt
  <2>7. f[1] = 0 /\ \A i \in 1 .. n : w[i].epoch = f[i]
    BY <2>5 DEF SealedPath
  <2>8. f \in [1 .. n + 1 -> Nat]
    OBVIOUS
  <2>9. \A i \in 1 .. n : i \in S <=> w[i].what = "KEY_UPDATE"
    OBVIOUS
  <2> HIDE DEF n, S
  <2>10. \A k \in 0 .. n : NumberOf(S, k) = f[k + 1] - f[1]
    BY <2>2, <2>6, <2>8, CountPath, Zenon
  <2> TAKE i \in 1 .. Len(sent)
  <2>11. i \in 1 .. n /\ i - 1 \in 0 .. n /\ (i - 1) + 1 = i
    BY <2>2
  <2>12. {j \in 1 .. i - 1 : j \in S} = {j \in 1 .. i - 1 : sent[j].what = "KEY_UPDATE"}
    <3>1. \A j \in 1 .. i - 1 : j \in 1 .. n /\ j \in 1 .. Len(sent)
      BY <2>2, <2>11
    <3> QED
      BY <3>1, <2>3, <2>9
  <2>13. NumberOf(S, i - 1) = f[(i - 1) + 1] - f[1]
    BY <2>10, <2>11, Zenon
  <2>14. sent[i].epoch = f[i] /\ f[i] \in Nat /\ f[i] - f[1] = f[i]
    <3>1. sent[i].epoch = f[i]
      BY <2>3, <2>7, <2>11
    <3>2. i \in 1 .. n + 1
      BY <2>2, <2>11
    <3>3. f[i] \in Nat
      BY <3>2, <2>8
    <3> QED
      BY <3>1, <3>3, <2>7
  <2> QED
    BY <2>11, <2>12, <2>13, <2>14 DEF NumberOf
<1> QED
  BY <1>1, <1>2, <1>3, <1>4 DEF StreamUnderstood, KeysFollow

\* What a conforming peer sends is understood: its data are delivered in order and
\* whole, and the keys of both directions follow the KeyUpdates, through alerts cut
\* in two.  It is the cause of an error only when it cuts a post-handshake message in
\* two or renegotiates, which s2n_post_handshake_recv refuses.  The peer puts at most one
\* alert in a record, as s2n_process_alert_fragment leaves what follows the first in conn->in.
THEOREM PeerUnderstood == ~CoalesceAlerts => (Spec => []StreamUnderstood)
<1> SUFFICES ASSUME ~CoalesceAlerts PROVE Spec => []StreamUnderstood
  OBVIOUS
<1>1. Init => IInv /\ Refusals
  <2>1. Init => RefusedOf(wire) = {} /\ error # "BAD_MESSAGE" /\ peer.rest = << >>
    BY DEF Init, RefusedOf
  <2> QED
    BY <2>1, InitIInv DEF Refusals
<1>2. IInv /\ Refusals /\ [Next]_vars => (IInv /\ Refusals)'
  BY NextIInv, RefusalsKept
<1>3. IInv /\ Refusals => StreamUnderstood
  BY IInvUnderstood
<1> QED
  BY <1>1, <1>2, <1>3, PTL DEF Spec

=============================================================================
