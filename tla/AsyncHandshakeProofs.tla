------------------------ MODULE AsyncHandshakeProofs ------------------------
(***************************************************************************)
(* AsyncHandshake implements MessageOrder when the peer does not put a     *)
(* message behind one that waits for the private key: whatever the records *)
(* are, and whenever the worker applies its operation.                     *)
(*                                                                         *)
(* Three things are kept by every step.  The units in flight continue one  *)
(* another, from the message being read to the last unit that the peer     *)
(* sent (Flow).  The handshake waits for the private key at the one        *)
(* message that needs it, and holds all of that message and nothing behind *)
(* it (Waiting).  Of the operations of this handshake at most one is not   *)
(* applied, it belongs to the message being handled, and once on_complete  *)
(* has written its result nobody overwrites it (Operations).               *)
(***************************************************************************)
EXTENDS AsyncHandshake, TLAPS, SequenceTheorems, WellFoundedInduction

\* A record of a script's units, or what is left of one.
Record(s, r) ==
    /\ r \in Seq(Nat) /\ r # << >>
    /\ \A i \in 1 .. Len(r) : r[i] = r[1] + i - 1
    /\ \A i \in 1 .. Len(r) : UnitMsg(r[i]) <= Len(s) /\ s[UnitMsg(r[i])].reads
    /\ \A i \in 1 .. Len(r) - 1 : s[UnitMsg(r[i])].async => UnitMsg(r[i + 1]) = UnitMsg(r[i])

\* With message p being read, b of it in handshake.io, r in conn->in and w on
\* the wire: the units that come next behind each of them.
NextUnit(p, b)        == 2 * p - 1 + Len(b)
NextFirst(p, b, r)    == NextUnit(p, b) + Len(r)
Behind(r)             == r[1] + Len(r)
NextSent(p, b, r, w)  == IF w = << >> THEN NextFirst(p, b, r) ELSE Behind(w[Len(w)])

FlowOf(s, p, b, r, w) ==
    /\ b \in Seq(Nat) /\ Len(b) <= 2
    /\ \A i \in 1 .. Len(b) : b[i] = 2 * p - 2 + i
    /\ b # << >> => p <= Len(s) /\ s[p].reads
    /\ r # << >> => Record(s, r) /\ r[1] = NextUnit(p, b)
    /\ \A k \in 1 .. Len(w) : Record(s, w[k])
    /\ w # << >> => w[1][1] = NextFirst(p, b, r)
    /\ \A k \in 1 .. Len(w) - 1 : w[k + 1][1] = Behind(w[k])
    /\ \A j, k \in 1 .. Len(w) : j < k => Behind(w[j]) <= w[k][1]

\* The peer has sent up to there, or the handshake has only written since.
SentOf(s, p, b, r, w, n) ==
    \/ n + 1 = NextSent(p, b, r, w)
    \/ /\ w = << >> /\ r = << >> /\ b = << >>
       /\ \E m \in 0 .. p - 2 : n = 2 * m /\ \A k \in m + 1 .. p - 1 : ~s[k].reads

Flow     == FlowOf(script, pos, io, in, wire)
SentUpTo == SentOf(script, pos, io, in, wire, sent)

Waits == at = "CALLBACK" \/ paused

Waiting ==
    /\ at = "CALLBACK" => ~paused
    /\ Waits => /\ pos <= Len(script) /\ Message.async
                /\ async_state \in {"INVOKED", "COMPLETE"}
                /\ error = "NONE"
                /\ in = << >>
                /\ Len(io) = IF Message.reads THEN 2 ELSE 0
                /\ async_state = "COMPLETE" => result = pos
    /\ ~Waits /\ error = "NONE" =>
                /\ Len(io) < 2
                /\ async_state # "INVOKED"
                /\ async_state = "COMPLETE" => \A k \in pos .. Len(script) : ~script[k].async

Unapplied(o) == Current(o) /\ ~ops[o].applied

Operations ==
    /\ \A o \in DOMAIN ops :
          /\ ops[o].generation <= generation
          /\ Unapplied(o) => async_state = "INVOKED" /\ ops[o].msg = pos
          /\ ops[o].status \in {"COMPLETE", "APPLYING"} => ops[o].valid \/ ops[o].strict
          /\ ops[o].status = "APPLYING" => Unapplied(o) /\ ~ops[o].freed /\ result = pos
          /\ ops[o].freed => ops[o].buffers = {}
          /\ ops[o].applied => ops[o].buffers = {} /\ ops[o].status = "COMPLETE"
    /\ \A o, p \in DOMAIN ops : Unapplied(o) /\ Unapplied(p) => o = p

OpType ==
    [generation : Nat, msg : Nat, type : {"DECRYPT", "SIGN"}, strict : BOOLEAN,
     status : {"NEW", "COMPLETE", "FAILED", "APPLYING"}, valid : BOOLEAN, applied : BOOLEAN,
     freed : BOOLEAN, buffers : SUBSET {"INPUT", "OUTPUT"}]

Typed ==
    /\ script \in Scripts /\ generation \in Nat /\ sent \in Nat
    /\ pos \in 1 .. Len(script) + 1
    /\ wire \in Seq(Seq(Nat)) /\ in \in Seq(Nat)
    /\ paused \in BOOLEAN /\ async_state \in {"NOT_INVOKED", "INVOKED", "COMPLETE"}
    /\ at \in {"NEGOTIATE", "CALLBACK"} /\ result \in Nat
    /\ ops \in Seq(OpType)
    /\ handled \in Seq(Nat \X Nat) /\ Len(handled) + 1 = pos
    /\ error \in {"NONE", "ASYNC_CALLBACK_FAILED"}

Inv == Typed /\ Waiting /\ Operations /\ (error = "NONE" => Flow /\ SentUpTo)

Script == Seq([reads : BOOLEAN, async : BOOLEAN])

----------------------------------------------------------------------------
(***************************************************************************)
(* Scripts and units.                                                      *)
(***************************************************************************)
\* A script is a sequence of messages, and one of them at most needs the key.
LEMMA ScriptShape ==
    ASSUME NEW s \in Scripts
    PROVE  /\ s \in Script
           /\ Len(s) \in Nat
           /\ \A i, j \in 1 .. Len(s) : s[i].async /\ s[j].async => i = j
<1>1. CASE s = <<Msg(TRUE, FALSE), Msg(TRUE, TRUE), Msg(TRUE, FALSE), Msg(TRUE, FALSE)>>
  BY <1>1 DEF Script, Msg
<1>2. CASE s = <<Msg(FALSE, TRUE), Msg(FALSE, FALSE), Msg(TRUE, FALSE)>>
  BY <1>2 DEF Script, Msg
<1>3. CASE s = <<Msg(TRUE, FALSE), Msg(FALSE, FALSE), Msg(FALSE, TRUE), Msg(TRUE, FALSE)>>
  BY <1>3 DEF Script, Msg
<1> QED BY <1>1, <1>2, <1>3 DEF Scripts

\* A message is its two units.
LEMMA UnitMsgOf ==
    ASSUME NEW u \in Nat
    PROVE  /\ UnitMsg(u) \in Nat
           /\ 2 * UnitMsg(u) - 1 <= u /\ u <= 2 * UnitMsg(u)
BY DEF UnitMsg

\* The units of message p.
LEMMA MsgOfUnits ==
    ASSUME NEW p \in Nat \ {0}
    PROVE  UnitMsg(2 * p - 1) = p /\ UnitMsg(2 * p) = p /\ UnitMsg(2 * p + 1) = p + 1
BY DEF UnitMsg

\* A record has a first unit and one behind its last.
LEMMA RecordBounds ==
    ASSUME NEW s, NEW r, Record(s, r)
    PROVE  r[1] \in Nat /\ Len(r) \in Nat \ {0} /\ Behind(r) \in Nat /\ r[1] < Behind(r)
<1>1. r \in Seq(Nat) /\ r # << >>
  BY DEF Record
<1>2. Len(r) \in Nat \ {0}
  BY <1>1, EmptySeq
<1>3. r[1] \in Nat
  BY <1>1, <1>2
<1> QED BY <1>2, <1>3 DEF Behind

\* What is left of a record is a record.
LEMMA RecordTail ==
    ASSUME NEW s \in Script, NEW r, Record(s, r), NEW n \in Nat, n < Len(r)
    PROVE  /\ Record(s, SubSeq(r, n + 1, Len(r)))
           /\ SubSeq(r, n + 1, Len(r))[1] = r[1] + n
           /\ Len(SubSeq(r, n + 1, Len(r))) = Len(r) - n
<1> DEFINE t == SubSeq(r, n + 1, Len(r))
<1>1. r \in Seq(Nat) /\ Len(r) \in Nat
  BY DEF Record
<1>2. /\ t \in Seq(Nat) /\ Len(t) = Len(r) - n
      /\ \A i \in 1 .. Len(t) : t[i] = r[n + i]
  BY <1>1, SubSeqProperties
<1> HIDE DEF t
<1>3. Len(t) > 0 /\ t # << >>
  BY <1>1, <1>2, EmptySeq
<1>4. \A i \in 1 .. Len(t) : n + i \in 1 .. Len(r) /\ r[n + i] = r[1] + (n + i) - 1
  BY <1>1, <1>2 DEF Record
<1>5. t[1] = r[1] + n
  <2>1. 1 \in 1 .. Len(t)
    BY <1>1, <1>2, <1>3
  <2>2. t[1] = r[n + 1] /\ r[n + 1] = r[1] + (n + 1) - 1
    BY <1>2, <1>4, <2>1
  <2>3. r[1] \in Nat
    BY <1>1, <1>3
  <2> QED BY <2>2, <2>3
<1>6. \A i \in 1 .. Len(t) : t[i] = t[1] + i - 1
  <2>1. r[1] \in Nat
    BY <1>1, <1>3
  <2> SUFFICES ASSUME NEW i \in 1 .. Len(t)
               PROVE  t[i] = t[1] + i - 1
    OBVIOUS
  <2>2. t[i] = r[1] + (n + i) - 1
    BY <1>2, <1>4
  <2> QED BY <1>5, <2>1, <2>2
<1>7. \A i \in 1 .. Len(t) : UnitMsg(t[i]) <= Len(s) /\ s[UnitMsg(t[i])].reads
  BY <1>2, <1>4 DEF Record
<1>8. \A i \in 1 .. Len(t) - 1 : s[UnitMsg(t[i])].async => UnitMsg(t[i + 1]) = UnitMsg(t[i])
  <2> SUFFICES ASSUME NEW i \in 1 .. Len(t) - 1
               PROVE  s[UnitMsg(t[i])].async => UnitMsg(t[i + 1]) = UnitMsg(t[i])
    OBVIOUS
  <2>1. n + i \in 1 .. Len(r) - 1 /\ i \in 1 .. Len(t) /\ i + 1 \in 1 .. Len(t)
    BY <1>1, <1>2
  <2>2. t[i] = r[n + i] /\ t[i + 1] = r[n + (i + 1)] /\ n + (i + 1) = (n + i) + 1
    BY <1>2, <2>1
  <2> QED BY <2>1, <2>2 DEF Record
<1>9. Record(s, t)
  BY <1>2, <1>3, <1>6, <1>7, <1>8 DEF Record
<1> QED BY <1>2, <1>5, <1>9 DEF t

\* The record behind it is in place when its first unit is read.
LEMMA TakeRecord ==
    ASSUME NEW s \in Script, NEW p \in Nat \ {0}, NEW b, NEW w \in Seq(Seq(Nat)), NEW n,
           w # << >>, FlowOf(s, p, b, << >>, w), SentOf(s, p, b, << >>, w, n)
    PROVE  FlowOf(s, p, b, w[1], Tail(w)) /\ SentOf(s, p, b, w[1], Tail(w), n)
<1>1. /\ Tail(w) \in Seq(Seq(Nat)) /\ Len(Tail(w)) = Len(w) - 1 /\ Len(w) \in Nat \ {0}
      /\ \A k \in 1 .. Len(Tail(w)) : Tail(w)[k] = w[k + 1]
  OBVIOUS
<1>2. Record(s, w[1]) /\ w[1][1] = NextUnit(p, b)
  BY <1>1 DEF FlowOf, NextFirst, NextUnit
<1>3. w[1][1] + Len(w[1]) = NextFirst(p, b, w[1])
  BY <1>2 DEF NextFirst
<1>4. \A k \in 1 .. Len(Tail(w)) : Record(s, Tail(w)[k])
  BY <1>1 DEF FlowOf
<1>5. \A k \in 1 .. Len(Tail(w)) - 1 : Tail(w)[k + 1][1] = Behind(Tail(w)[k])
  <2> SUFFICES ASSUME NEW k \in 1 .. Len(Tail(w)) - 1
               PROVE  Tail(w)[k + 1][1] = Behind(Tail(w)[k])
    OBVIOUS
  <2>1. k + 1 \in 1 .. Len(w) - 1 /\ Tail(w)[k] = w[k + 1] /\ Tail(w)[k + 1] = w[(k + 1) + 1]
    BY <1>1
  <2> QED BY <2>1 DEF FlowOf
<1>6. Tail(w) # << >> => Tail(w)[1][1] = NextFirst(p, b, w[1])
  <2> HAVE Tail(w) # << >>
  <2>1. 1 \in 1 .. Len(w) - 1 /\ Tail(w)[1] = w[1 + 1]
    BY <1>1
  <2>2. w[1 + 1][1] = Behind(w[1])
    BY <2>1 DEF FlowOf
  <2> QED BY <2>1, <2>2, <1>3 DEF Behind
<1>7. FlowOf(s, p, b, w[1], Tail(w))
  <2>1. ASSUME NEW j \in 1 .. Len(Tail(w)), NEW k \in 1 .. Len(Tail(w)), j < k
        PROVE  Behind(Tail(w)[j]) <= Tail(w)[k][1]
    <3>1. /\ j + 1 \in 1 .. Len(w) /\ k + 1 \in 1 .. Len(w) /\ j + 1 < k + 1
          /\ Tail(w)[j] = w[j + 1] /\ Tail(w)[k] = w[k + 1]
      BY <1>1, <2>1
    <3> QED BY <3>1 DEF FlowOf
  <2> QED BY <1>2, <1>4, <1>5, <1>6, <2>1 DEF FlowOf
<1>8. n + 1 = Behind(w[Len(w)])
  BY DEF SentOf, NextSent
<1>9. NextSent(p, b, w[1], Tail(w)) = Behind(w[Len(w)])
  <2>1. CASE Tail(w) = << >>
    <3>1. Len(<< >>) = 0
      OBVIOUS
    <3>2. Len(Tail(w)) = 0
      BY <2>1, <3>1, Zenon
    <3>3. Len(w) = 1
      BY <3>2, <1>1
    <3> QED BY <2>1, <3>3, <1>3 DEF NextSent, Behind
  <2>2. CASE Tail(w) # << >>
    <3>1. Tail(w)[Len(Tail(w))] = w[Len(w)]
      BY <2>2, <1>1
    <3> QED BY <2>2, <3>1 DEF NextSent
  <2> QED BY <2>1, <2>2
<1> QED BY <1>7, <1>8, <1>9 DEF SentOf

\* Units move from the record to handshake.io in their order; a message that
\* needs the key is the last of its record.
LEMMA ReadUnits ==
    ASSUME NEW s \in Script, NEW p \in Nat \ {0}, NEW b, NEW r, NEW w, NEW n,
           r # << >>, Len(b) < 2, FlowOf(s, p, b, r, w), SentOf(s, p, b, r, w, n),
           NEW b2, NEW r2,
           s2n_read_full_handshake_message(r, b) = [io |-> b2, in |-> r2]
    PROVE  /\ FlowOf(s, p, b2, r2, w) /\ SentOf(s, p, b2, r2, w, n)
           /\ Len(b2) \in 1 .. 2 /\ r2 \in Seq(Nat)
           /\ UnitMsg(b2[1]) = p
           /\ Len(b2) = 2 /\ s[p].async => r2 = << >>
<1> DEFINE k == IF Len(r) < 2 - Len(b) THEN Len(r) ELSE 2 - Len(b)
           c == SubSeq(r, 1, k)
<1>1. b2 = b \o c /\ r2 = SubSeq(r, k + 1, Len(r))
  BY DEF s2n_read_full_handshake_message
<1>2. /\ b \in Seq(Nat) /\ Len(b) \in 0 .. 1
      /\ \A i \in 1 .. Len(b) : b[i] = 2 * p - 2 + i
      /\ Record(s, r) /\ r[1] = 2 * p - 1 + Len(b)
      /\ r \in Seq(Nat) /\ Len(r) \in Nat \ {0}
  <2>1. b \in Seq(Nat) /\ \A i \in 1 .. Len(b) : b[i] = 2 * p - 2 + i
    BY DEF FlowOf
  <2>2. Record(s, r) /\ r[1] = 2 * p - 1 + Len(b)
    BY DEF FlowOf, NextUnit
  <2>3. r \in Seq(Nat)
    BY <2>2 DEF Record
  <2>4. Len(r) \in Nat \ {0}
    BY <2>3, EmptySeq
  <2>5. Len(b) \in 0 .. 1
    <3>1. Len(b) \in Nat
      BY <2>1
    <3>2. Len(b) < 2
      OBVIOUS
    <3>3. \A x \in Nat : x < 2 => x \in 0 .. 1
      OBVIOUS
    <3> QED BY <3>1, <3>2, <3>3, Zenon
  <2> QED BY <2>1, <2>2, <2>3, <2>4, <2>5
<1>3. k \in 1 .. Len(r) /\ Len(b) + k \in 1 .. 2 /\ (k = Len(r) \/ Len(b) + k = 2)
  BY <1>2
<1> HIDE DEF k
<1>4. c \in Seq(Nat) /\ Len(c) = k /\ \A i \in 1 .. k : c[i] = r[i]
  BY <1>2, <1>3, SubSeqProperties
<1> HIDE DEF c
<1>5. \A i \in 1 .. k : r[i] = 2 * p - 1 + Len(b) + i - 1
  BY <1>2, <1>3 DEF Record
<1>6. /\ b2 \in Seq(Nat) /\ Len(b2) = Len(b) + k
      /\ \A i \in 1 .. Len(b) : b2[i] = b[i]
      /\ \A i \in 1 .. k : b2[Len(b) + i] = c[i]
  <2>1. b2 \in Seq(Nat) /\ Len(b2) = Len(b) + Len(c)
    BY <1>1, <1>2, <1>4, ConcatProperties
  <2>2. \A i \in 1 .. Len(b) + Len(c) : b2[i] = IF i <= Len(b) THEN b[i] ELSE c[i - Len(b)]
    BY <1>1, <1>2, <1>4, ConcatProperties
  <2>3. ASSUME NEW i \in 1 .. Len(b) PROVE b2[i] = b[i]
    <3>1. i \in 1 .. Len(b) + Len(c) /\ i <= Len(b)
      BY <1>2, <1>3, <1>4
    <3> QED BY <2>2, <3>1
  <2>4. ASSUME NEW i \in 1 .. k PROVE b2[Len(b) + i] = c[i]
    <3>1. Len(b) + i \in 1 .. Len(b) + Len(c) /\ ~(Len(b) + i <= Len(b)) /\ (Len(b) + i) - Len(b) = i
      BY <1>2, <1>3, <1>4
    <3> QED BY <2>2, <3>1
  <2> QED BY <1>4, <2>1, <2>3, <2>4
<1>7. \A i \in 1 .. Len(b2) : b2[i] = 2 * p - 2 + i
  <2> SUFFICES ASSUME NEW i \in 1 .. Len(b2)
               PROVE  b2[i] = 2 * p - 2 + i
    OBVIOUS
  <2>1. CASE i <= Len(b)
    BY <1>2, <1>6, <2>1
  <2>2. CASE i > Len(b)
    <3>1. i - Len(b) \in 1 .. k /\ i = Len(b) + (i - Len(b))
      BY <1>2, <1>3, <1>6, <2>2
    <3>2. b2[i] = r[i - Len(b)]
      BY <1>4, <1>6, <3>1
    <3> QED BY <1>2, <1>5, <3>1, <3>2
  <2> QED BY <1>2, <2>1, <2>2
<1>8. p <= Len(s) /\ s[p].reads
  <2>1. UnitMsg(r[1]) = p
    <3>1. CASE Len(b) = 0
      BY <1>2, <3>1, MsgOfUnits
    <3>2. CASE Len(b) = 1
      <4>1. r[1] = 2 * p
        BY <1>2, <3>2
      <4> QED BY <4>1, MsgOfUnits
    <3> QED BY <1>2, <3>1, <3>2
  <2> QED BY <1>2, <2>1 DEF Record
<1>9. UnitMsg(b2[1]) = p
  <2>1. b2[1] = 2 * p - 1
    BY <1>3, <1>6, <1>7
  <2> QED BY <2>1, MsgOfUnits
<1>10. /\ r2 \in Seq(Nat) /\ Len(r2) = Len(r) - k
       /\ r2 # << >> => Record(s, r2) /\ r2[1] = NextUnit(p, b2)
  <2>1. CASE k = Len(r)
    <3>1. r2 = << >>
      BY <1>1, <1>2, <2>1
    <3> QED BY <1>2, <2>1, <3>1
  <2>2. CASE k < Len(r)
    <3>1. /\ Record(s, r2) /\ r2[1] = r[1] + k /\ Len(r2) = Len(r) - k
      BY <1>1, <1>2, <1>3, <2>2, RecordTail
    <3>2. r2 \in Seq(Nat)
      BY <3>1 DEF Record
    <3>3. r2[1] = NextUnit(p, b2)
      BY <1>2, <1>3, <1>6, <3>1 DEF NextUnit
    <3> QED BY <3>1, <3>2, <3>3
  <2> QED BY <1>2, <1>3, <2>1, <2>2
<1>11. NextFirst(p, b2, r2) = NextFirst(p, b, r)
  BY <1>2, <1>3, <1>6, <1>10 DEF NextFirst, NextUnit
<1>12. FlowOf(s, p, b2, r2, w)
  <2>1. Len(b2) <= 2 /\ b2 \in Seq(Nat)
    BY <1>3, <1>6
  <2> QED BY <1>7, <1>8, <1>10, <1>11, <2>1 DEF FlowOf
<1>13. SentOf(s, p, b2, r2, w, n)
  BY <1>11 DEF SentOf, NextSent
<1>14. Len(b2) = 2 /\ s[p].async => r2 = << >>
  <2> SUFFICES ASSUME Len(b2) = 2, s[p].async, k < Len(r)
               PROVE  FALSE
    BY <1>1, <1>2, <1>3
  <2>1. k \in 1 .. Len(r) - 1 /\ k \in 1 .. Len(r) /\ k + 1 \in 1 .. Len(r)
    BY <1>2, <1>3
  <2>2. r[k] = 2 * p /\ r[k + 1] = 2 * p + 1
    <3>1. r[k] = r[1] + k - 1 /\ r[k + 1] = r[1] + (k + 1) - 1
      BY <1>2, <2>1 DEF Record
    <3>2. Len(b) + k = 2 /\ r[1] = 2 * p - 1 + Len(b)
      BY <1>2, <1>6
    <3>3. k \in Int /\ Len(b) \in Int
      BY <1>2, <1>3
    <3> QED BY <3>1, <3>2, <3>3
  <2>3. UnitMsg(r[k]) = p /\ UnitMsg(r[k + 1]) = p + 1
    BY <2>2, MsgOfUnits
  <2>4. s[UnitMsg(r[k])].async => UnitMsg(r[k + 1]) = UnitMsg(r[k])
    BY <1>2, <2>1 DEF Record
  <2> QED BY <2>3, <2>4
<1> QED BY <1>3, <1>6, <1>9, <1>10, <1>12, <1>13, <1>14

\* A message read is done: the units that come next are those of the next one.
LEMMA NextMessageRead ==
    ASSUME NEW s \in Script, NEW p \in Nat \ {0}, NEW b, NEW r, NEW w, NEW n,
           Len(b) = 2, FlowOf(s, p, b, r, w), SentOf(s, p, b, r, w, n)
    PROVE  FlowOf(s, p + 1, << >>, r, w) /\ SentOf(s, p + 1, << >>, r, w, n)
<1>1. NextUnit(p, b) = NextUnit(p + 1, << >>)
  BY DEF NextUnit
<1>2. NextFirst(p, b, r) = NextFirst(p + 1, << >>, r)
  BY <1>1 DEF NextFirst
<1>3. FlowOf(s, p + 1, << >>, r, w)
  <2>1. /\ << >> \in Seq(Nat) /\ Len(<< >>) <= 2
        /\ \A i \in 1 .. Len(<< >>) : << >>[i] = 2 * (p + 1) - 2 + i
    OBVIOUS
  <2>2. r # << >> => Record(s, r) /\ r[1] = NextUnit(p + 1, << >>)
    BY <1>1 DEF FlowOf
  <2>3. w # << >> => w[1][1] = NextFirst(p + 1, << >>, r)
    BY <1>2 DEF FlowOf
  <2> QED BY <2>1, <2>2, <2>3, Zenon DEF FlowOf
<1>4. b # << >>
  OBVIOUS
<1>5. SentOf(s, p + 1, << >>, r, w, n)
  BY <1>2, <1>4 DEF SentOf, NextSent
<1> QED BY <1>3, <1>5

\* While a message is to be written nothing is in flight ...
LEMMA WritesAlone ==
    ASSUME NEW s \in Script, NEW p \in Nat \ {0}, NEW b, NEW r, NEW w \in Seq(Seq(Nat)),
           p <= Len(s), ~s[p].reads, FlowOf(s, p, b, r, w)
    PROVE  b = << >> /\ r = << >> /\ w = << >>
<1>1. b = << >>
  BY DEF FlowOf
<1>2. \A q : Record(s, q) => q[1] # 2 * p - 1
  <2> SUFFICES ASSUME NEW q, Record(s, q), q[1] = 2 * p - 1
               PROVE  FALSE
    OBVIOUS
  <2>1. UnitMsg(q[1]) = p
    BY MsgOfUnits
  <2>2. 1 \in 1 .. Len(q)
    BY EmptySeq DEF Record
  <2> QED BY <2>1, <2>2 DEF Record
<1>3. r = << >>
  BY <1>1, <1>2 DEF FlowOf, NextUnit
<1>4. w = << >>
  <2> SUFFICES ASSUME w # << >> PROVE FALSE
    OBVIOUS
  <2>1. 1 \in 1 .. Len(w)
    BY EmptySeq
  <2> QED BY <1>1, <1>2, <1>3, <2>1 DEF FlowOf, NextFirst, NextUnit
<1> QED BY <1>1, <1>3, <1>4

\* ... and so it is after it.
LEMMA NextMessageWritten ==
    ASSUME NEW s \in Script, NEW p \in Nat \ {0}, NEW b, NEW r, NEW w \in Seq(Seq(Nat)),
           NEW n \in Nat, p <= Len(s), ~s[p].reads, FlowOf(s, p, b, r, w), SentOf(s, p, b, r, w, n)
    PROVE  FlowOf(s, p + 1, << >>, r, w) /\ SentOf(s, p + 1, << >>, r, w, n)
<1>1. b = << >>
  BY WritesAlone
<1>3. r = << >>
  BY WritesAlone
<1>4. w = << >>
  BY WritesAlone
<1>5. FlowOf(s, p + 1, << >>, r, w)
  BY <1>3, <1>4 DEF FlowOf
<1>6. CASE n + 1 = NextSent(p, b, r, w)
  <2>1. n = 2 * (p - 1)
    BY <1>1, <1>3, <1>4, <1>6 DEF NextSent, NextFirst, NextUnit
  <2>2. p - 1 \in 0 .. (p + 1) - 2 /\ \A k \in (p - 1) + 1 .. (p + 1) - 1 : ~s[k].reads
    OBVIOUS
  <2>3. \E m \in 0 .. (p + 1) - 2 : n = 2 * m /\ \A k \in m + 1 .. (p + 1) - 1 : ~s[k].reads
    BY <2>1, <2>2
  <2> QED BY <1>3, <1>4, <1>5, <2>3 DEF SentOf
<1>7. CASE \E m \in 0 .. p - 2 : n = 2 * m /\ \A k \in m + 1 .. p - 1 : ~s[k].reads
  <2>1. PICK m \in 0 .. p - 2 : n = 2 * m /\ \A k \in m + 1 .. p - 1 : ~s[k].reads
    BY <1>7
  <2>2. m \in 0 .. (p + 1) - 2 /\ \A k \in m + 1 .. (p + 1) - 1 : ~s[k].reads
    BY <2>1
  <2> QED BY <1>3, <1>4, <1>5, <2>1, <2>2 DEF SentOf
<1> QED BY <1>6, <1>7 DEF SentOf

\* The last unit sent is not before the ones that are here.
LEMMA SentIsAhead ==
    ASSUME NEW s \in Script, NEW p \in Nat \ {0}, NEW b, NEW r \in Seq(Nat),
           NEW w \in Seq(Seq(Nat)), FlowOf(s, p, b, r, w)
    PROVE  NextSent(p, b, r, w) \in Nat /\ NextSent(p, b, r, w) >= 2 * p - 1
<1>1. Len(b) \in Nat /\ Len(r) \in Nat
  BY DEF FlowOf
<1>2. NextFirst(p, b, r) \in Nat /\ NextFirst(p, b, r) >= 2 * p - 1
  BY <1>1 DEF NextFirst, NextUnit
<1>3. CASE w = << >>
  BY <1>2, <1>3 DEF NextSent
<1>4. CASE w # << >>
  <2>1. Len(w) \in Nat \ {0}
    BY <1>4, EmptySeq
  <2>2. 1 \in 1 .. Len(w) /\ Len(w) \in 1 .. Len(w)
    BY <2>1
  <2>3. Record(s, w[1]) /\ Record(s, w[Len(w)])
    BY <2>2 DEF FlowOf
  <2>4. /\ w[1][1] < Behind(w[1]) /\ Behind(w[1]) \in Nat
        /\ w[Len(w)][1] < Behind(w[Len(w)]) /\ Behind(w[Len(w)]) \in Nat /\ w[Len(w)][1] \in Nat
    BY <2>3, RecordBounds
  <2>5. w[1][1] = NextFirst(p, b, r)
    BY <1>4 DEF FlowOf
  <2>6. Behind(w[Len(w)]) >= NextFirst(p, b, r)
    <3>1. CASE Len(w) = 1
      BY <1>2, <2>4, <2>5, <3>1
    <3>2. CASE 1 < Len(w)
      <4>1. Behind(w[1]) <= w[Len(w)][1]
        BY <2>2, <3>2 DEF FlowOf
      <4> QED BY <1>2, <2>4, <2>5, <4>1
    <3>3. \A x \in Nat \ {0} : x = 1 \/ 1 < x
      OBVIOUS
    <3> QED BY <2>1, <3>1, <3>2, <3>3, Zenon
  <2>7. NextSent(p, b, r, w) = Behind(w[Len(w)])
    BY <1>4 DEF NextSent
  <2> QED BY <1>2, <2>4, <2>6, <2>7
<1> QED BY <1>3, <1>4

\* A record is sent behind all others.
LEMMA SendRecord ==
    ASSUME NEW s \in Script, NEW p \in Nat \ {0}, NEW b, NEW r \in Seq(Nat),
           NEW w \in Seq(Seq(Nat)), FlowOf(s, p, b, r, w),
           NEW q, Record(s, q), q[1] = NextSent(p, b, r, w)
    PROVE  /\ FlowOf(s, p, b, r, Append(w, q))
           /\ SentOf(s, p, b, r, Append(w, q), q[1] + Len(q) - 1)
<1> DEFINE v == Append(w, q)
<1>1. q \in Seq(Nat)
  BY DEF Record
<1>2. /\ v \in Seq(Seq(Nat)) /\ Len(v) = Len(w) + 1 /\ Len(w) \in Nat
      /\ \A k \in 1 .. Len(w) : v[k] = w[k]
      /\ v[Len(w) + 1] = q
  BY <1>1, AppendProperties
<1> HIDE DEF v
<1>3. v # << >> /\ v[Len(v)] = q
  BY <1>2
<1>4. ASSUME NEW k \in 1 .. Len(v) PROVE Record(s, v[k])
  <2>1. CASE k \in 1 .. Len(w)
    BY <1>2, <2>1 DEF FlowOf
  <2>2. CASE k = Len(w) + 1
    BY <1>2, <2>2
  <2> QED BY <1>2, <2>1, <2>2
<1>5. v[1][1] = NextFirst(p, b, r)
  <2>1. CASE w = << >>
    BY <1>2, <2>1 DEF NextSent
  <2>2. CASE w # << >>
    <3>1. 1 \in 1 .. Len(w)
      BY <2>2, EmptySeq
    <3> QED BY <1>2, <2>2, <3>1 DEF FlowOf
  <2> QED BY <2>1, <2>2
<1>6. ASSUME NEW k \in 1 .. Len(v) - 1 PROVE v[k + 1][1] = Behind(v[k])
  <2>1. CASE k \in 1 .. Len(w) - 1
    <3>1. v[k] = w[k] /\ v[k + 1] = w[k + 1]
      BY <1>2, <2>1
    <3> QED BY <2>1, <3>1 DEF FlowOf
  <2>2. CASE k = Len(w)
    <3>1. w # << >> /\ v[k] = w[Len(w)] /\ v[k + 1] = q
      BY <1>2, <2>2
    <3> QED BY <3>1 DEF NextSent
  <2> QED BY <1>2, <2>1, <2>2
<1>7. ASSUME NEW j \in 1 .. Len(v), NEW k \in 1 .. Len(v), j < k
      PROVE  Behind(v[j]) <= v[k][1]
  <2>0. j \in 1 .. Len(w) /\ v[j] = w[j] /\ w # << >>
    BY <1>2, <1>7
  <2>1. CASE k \in 1 .. Len(w)
    <3>1. v[k] = w[k]
      BY <1>2, <2>1
    <3> QED BY <1>7, <2>0, <2>1, <3>1 DEF FlowOf
  <2>2. CASE k = Len(w) + 1
    <3>1. q[1] = Behind(w[Len(w)]) /\ v[k] = q
      BY <1>2, <2>0, <2>2 DEF NextSent
    <3>2. CASE j = Len(w)
      <4>1. Behind(w[j]) \in Nat
        BY <3>1, <3>2, <2>0, SentIsAhead DEF NextSent
      <4> QED BY <2>0, <3>1, <3>2, <4>1
    <3>3. CASE j < Len(w)
      <4>1. Len(w) \in 1 .. Len(w)
        BY <1>2, <2>0
      <4>2. Behind(w[j]) <= w[Len(w)][1]
        BY <2>0, <3>3, <4>1 DEF FlowOf
      <4>3. Record(s, w[j]) /\ Record(s, w[Len(w)])
        BY <2>0, <4>1 DEF FlowOf
      <4>4. /\ Behind(w[j]) \in Nat /\ w[Len(w)][1] \in Nat /\ Behind(w[Len(w)]) \in Nat
            /\ w[Len(w)][1] < Behind(w[Len(w)])
        BY <4>3, RecordBounds
      <4>5. Behind(w[j]) <= Behind(w[Len(w)])
        BY <4>2, <4>4
      <4> QED BY <2>0, <3>1, <4>5
    <3> QED BY <1>2, <2>0, <3>2, <3>3
  <2> QED BY <1>2, <2>1, <2>2
<1>8. FlowOf(s, p, b, r, v)
  BY <1>4, <1>5, <1>6, <1>7 DEF FlowOf
<1>9. q[1] \in Nat /\ Len(q) \in Nat
  BY RecordBounds
<1>10. SentOf(s, p, b, r, v, q[1] + Len(q) - 1)
  <2>1. NextSent(p, b, r, v) = q[1] + Len(q)
    BY <1>3 DEF NextSent, Behind
  <2>2. (q[1] + Len(q) - 1) + 1 = q[1] + Len(q)
    BY <1>9
  <2> QED BY <2>1, <2>2 DEF SentOf
<1> QED BY <1>8, <1>10 DEF v

\* A set of numbers has a smallest one.
LEMMA HasSmallest ==
    ASSUME NEW T \in SUBSET Nat, T # {}
    PROVE  \E m \in T : \A k \in T : m <= k
<1> DEFINE Less == {ss \in Nat \X Nat : ss[1] < ss[2]}
<1>1. IsWellFoundedOn(Less, Nat)
  BY NatLessThanWellFounded, Zenon DEF OpToRel
<1> HIDE DEF Less
<1>2. PICK m \in T : \A k \in T : ~(<<k, m>> \in Less)
  BY <1>1, WFMin, Zenon
<1>3. \A k \in T : ~(k < m)
  BY <1>2 DEF Less
<1> QED BY <1>3

\* What the peer may send next are the units behind the last one sent.
LEMMA SendsNext ==
    ASSUME Typed, Flow, SentUpTo, sent < 2 * Len(script),
           NEW first, first = SkipWritten(sent + 1), MaySend(UnitMsg(first))
    PROVE  first = NextSent(pos, io, in, wire)
<1> DEFINE u  == UnitMsg(sent + 1)
           ms == {m \in u .. Len(script) : script[m].reads}
<1>1. script \in Script /\ Len(script) \in Nat /\ pos \in Nat \ {0} /\ sent \in Nat
  BY ScriptShape DEF Typed
<1>2. u \in Nat /\ 2 * u - 1 <= sent + 1 /\ sent + 1 <= 2 * u /\ u <= Len(script)
  <2>1. u \in Nat /\ 2 * u - 1 <= sent + 1 /\ sent + 1 <= 2 * u
    BY <1>1, UnitMsgOf, sent + 1 \in Nat
  <2> HIDE DEF u
  <2>2. sent < 2 * Len(script)
    OBVIOUS
  <2> QED BY <1>1, <2>1, <2>2
<1> HIDE DEF u
<1>3. CASE script[u].reads \/ ms = {}
  <2>1. first = sent + 1 /\ UnitMsg(first) = u
    BY <1>3 DEF SkipWritten, u
  <2>2. script[u].reads
    BY <2>1 DEF MaySend
  <2>3. CASE sent + 1 = NextSent(pos, io, in, wire)
    BY <2>1, <2>3
  <2>4. ASSUME wire = << >>, in = << >>, io = << >>, NEW m \in 0 .. pos - 2, sent = 2 * m,
               \A k \in m + 1 .. pos - 1 : ~script[k].reads
        PROVE  FALSE
    <3>1. u = m + 1
      BY <1>1, <1>2, <2>4
    <3> QED BY <1>1, <2>2, <2>4, <3>1
  <2> QED BY <2>3, <2>4 DEF SentUpTo, SentOf
<1>4. CASE ~script[u].reads /\ ms # {}
  <2> DEFINE least == CHOOSE m \in ms : \A k \in ms : m <= k
  <2>1. least \in ms /\ \A k \in ms : least <= k
    <3>1. ms \in SUBSET Nat
      BY <1>1, <1>2
    <3>2. \E m \in ms : \A k \in ms : m <= k
      BY <1>4, <3>1, HasSmallest
    <3> QED BY <3>2
  <2>2. first = 2 * least - 1
    BY <1>4 DEF SkipWritten, u
  <2> HIDE DEF least, ms
  <2>3. /\ least \in Nat \ {0} /\ u < least /\ least <= Len(script)
        /\ \A k \in u .. least - 1 : ~script[k].reads
    <3>1. least \in u .. Len(script) /\ script[least].reads
      BY <2>1 DEF ms
    <3>2. least \in Nat /\ u < least /\ least <= Len(script)
      BY <1>1, <1>2, <1>4, <3>1
    <3>3. ASSUME NEW k \in u .. least - 1, script[k].reads PROVE FALSE
      <4>1. k \in u .. Len(script) /\ k < least
        BY <1>1, <1>2, <3>2
      <4> QED BY <2>1, <3>2, <3>3, <4>1 DEF ms
    <3> QED BY <1>2, <3>2, <3>3
  <2>4. UnitMsg(first) = least
    BY <2>2, <2>3, MsgOfUnits
  <2>5. \A k \in pos .. least - 1 : script[k].reads
    BY <2>4 DEF MaySend
  <2>6. u < pos
    BY <1>1, <1>2, <2>3, <2>5
  <2>7. least >= pos => least = pos
    BY <1>1, <1>2, <2>3, <2>5, <2>6
  <2>8. ASSUME sent + 1 = NextSent(pos, io, in, wire) PROVE FALSE
    <3>1. sent + 1 >= 2 * pos - 1
      BY <1>1, <2>8, SentIsAhead DEF Flow, Typed
    <3> QED BY <1>1, <1>2, <2>6, <3>1
  <2>9. ASSUME wire = << >>, in = << >>, io = << >>, NEW m \in 0 .. pos - 2, sent = 2 * m,
               \A k \in m + 1 .. pos - 1 : ~script[k].reads
        PROVE  first = NextSent(pos, io, in, wire)
    <3>1. u = m + 1
      BY <1>1, <1>2, <2>9
    <3>2. script[least].reads
      BY <2>1 DEF ms
    <3>3. least >= pos
      BY <1>1, <2>3, <2>9, <3>1, <3>2
    <3>4. NextSent(pos, io, in, wire) = 2 * pos - 1
      BY <1>1, <2>9 DEF NextSent, NextFirst, NextUnit
    <3> QED BY <2>2, <2>7, <3>3, <3>4
  <2> QED BY <2>8, <2>9 DEF SentUpTo, SentOf
<1> QED BY <1>3, <1>4

----------------------------------------------------------------------------
(***************************************************************************)
(* The steps.                                                              *)
(***************************************************************************)
\* What a step does to the log of MessageOrder.
Logged ==
    \/ script' = script /\ handled' = handled
    \/ /\ script' = script /\ pos <= Len(script)
       /\ handled' = Append(handled, <<pos, IF Message.async THEN pos ELSE 0>>)
    \/ script' \in Scripts /\ handled' = << >>

\* handshake.io with two units holds the message that is read.
LEMMA FullMessage ==
    ASSUME NEW s, NEW p \in Nat \ {0}, NEW b, NEW r, NEW w, FlowOf(s, p, b, r, w), Len(b) = 2
    PROVE  b = <<2 * p - 1, 2 * p>>
<1>1. b \in Seq(Nat) /\ b[1] = 2 * p - 2 + 1 /\ b[2] = 2 * p - 2 + 2
  BY DEF FlowOf
<1>2. b[1] = 2 * p - 1 /\ b[2] = 2 * p
  BY <1>1
<1> QED BY <1>1, <1>2

\* A message is done.
LEMMA Finished ==
    ASSUME Typed, pos <= Len(script), script' = script, NEW buffer, s2n_finish_message(buffer),
           Message.reads => buffer = <<2 * pos - 1, 2 * pos>>,
           Message.async => result = pos
    PROVE  /\ handled' = Append(handled, <<pos, IF Message.async THEN pos ELSE 0>>)
           /\ handled' \in Seq(Nat \X Nat) /\ Len(handled') + 1 = pos'
           /\ pos' = pos + 1 /\ pos' \in 1 .. Len(script) + 1 /\ io' = << >>
           /\ Logged
<1>1. pos \in Nat \ {0} /\ Len(script) \in Nat /\ handled \in Seq(Nat \X Nat)
  BY ScriptShape DEF Typed
<1>2. handled' = Append(handled, <<pos, IF Message.async THEN pos ELSE 0>>)
  BY DEF s2n_finish_message
<1>3. <<pos, IF Message.async THEN pos ELSE 0>> \in Nat \X Nat
  BY <1>1
<1>4. handled' \in Seq(Nat \X Nat) /\ Len(handled') = Len(handled) + 1
  BY <1>1, <1>2, <1>3, AppendProperties
<1>5. pos' = pos + 1 /\ io' = << >>
  BY DEF s2n_finish_message
<1> QED BY <1>1, <1>2, <1>4, <1>5 DEF Typed, Logged

\* While the connection waits for no operation there is none to be applied.
LEMMA NothingOutstanding ==
    ASSUME Operations, async_state # "INVOKED", UNCHANGED <<ops, generation>>
    PROVE  Operations'
BY DEF Operations, Unapplied, Current

\* The guard of a handler that needs the private key.
LEMMA HandlerInvoked ==
    ASSUME Typed, Waiting, Operations, Running, ~paused,
           NEW buffer, InvokeHandler(buffer),
           UNCHANGED <<script, generation, paused, result, error>>,
           Message.reads => buffer = <<2 * pos - 1, 2 * pos>>,
           Len(buffer) = IF Message.reads THEN 2 ELSE 0,
           Message.async => in' = << >>
    PROVE  /\ Waiting' /\ Operations' /\ Logged
           /\ handled' \in Seq(Nat \X Nat) /\ Len(handled') + 1 = pos'
           /\ pos' \in 1 .. Len(script) + 1
           /\ at' \in {"NEGOTIATE", "CALLBACK"} /\ ops' \in Seq(OpType)
           /\ async_state' \in {"NOT_INVOKED", "INVOKED", "COMPLETE"}
           /\ (pos' = pos + 1 /\ io' = << >>) \/ (pos' = pos /\ io' = buffer)
<1>1. /\ pos \in Nat \ {0} /\ Len(script) \in Nat /\ script \in Script
      /\ pos <= Len(script) /\ at = "NEGOTIATE" /\ error = "NONE" /\ ~Waits
  BY ScriptShape DEF Typed, Running, Done, Waits
<1>2. /\ async_state # "INVOKED"
      /\ async_state = "COMPLETE" => \A k \in pos .. Len(script) : ~script[k].async
  BY <1>1 DEF Waiting
<1>3. Message.async => async_state = "NOT_INVOKED"
  BY <1>1, <1>2 DEF Typed, Message
<1>4. CASE /\ ~Message.async \/ async_state = "COMPLETE"
           /\ s2n_finish_message(buffer)
           /\ async_state' = IF Message.async THEN "NOT_INVOKED" ELSE async_state
           /\ UNCHANGED <<at, ops>>
  <2>1. ~Message.async /\ async_state' = async_state
    BY <1>3, <1>4
  <2>2. /\ handled' \in Seq(Nat \X Nat) /\ Len(handled') + 1 = pos' /\ Logged
        /\ pos' = pos + 1 /\ io' = << >> /\ pos' \in 1 .. Len(script) + 1
    BY <1>1, <1>4, <2>1, Finished
  <2>3. Operations'
    BY <1>2, <1>4, NothingOutstanding
  <2>4. Waiting'
    <3>1. ~Waits' /\ at' # "CALLBACK"
      BY <1>1, <1>4 DEF Waits
    <3>2. Len(io') < 2
      BY <2>2
    <3>3. async_state' = "COMPLETE" => \A k \in pos' .. Len(script') : ~script'[k].async
      BY <1>1, <1>2, <2>1, <2>2
    <3> QED BY <1>2, <2>1, <3>1, <3>2, <3>3 DEF Waiting
  <2> QED BY <1>4, <2>1, <2>2, <2>3, <2>4 DEF Typed
<1>5. ASSUME NEW strict \in {FALSE, ~Message.reads}, Message.async,
             async_state' = "INVOKED", at' = "CALLBACK", ops' = Append(ops, NewOp(strict)),
             io' = buffer, UNCHANGED <<pos, handled>>
      PROVE  Waiting' /\ Operations' /\ ops' \in Seq(OpType)
  <2>1. Message \in [reads : BOOLEAN, async : BOOLEAN]
    <3>1. pos \in 1 .. Len(script)
      BY <1>1
    <3>2. script[pos] \in [reads : BOOLEAN, async : BOOLEAN]
      BY <1>1, <3>1, ElementOfSeq, Zenon DEF Script
    <3> QED BY <3>2 DEF Message
  <2>2. NewOp(strict) \in OpType
    <3>1. generation \in Nat /\ pos \in Nat /\ Message.reads \in BOOLEAN /\ strict \in BOOLEAN
      BY <1>1, <2>1 DEF Typed
    <3>2. /\ (IF Message.reads THEN "DECRYPT" ELSE "SIGN") \in {"DECRYPT", "SIGN"}
          /\ (IF Message.reads THEN {"INPUT", "OUTPUT"} ELSE {"INPUT"}) \in SUBSET {"INPUT", "OUTPUT"}
      BY <3>1, Zenon
    <3> QED BY <3>1, <3>2 DEF NewOp, OpType
  <2>3. /\ ops' \in Seq(OpType) /\ Len(ops') = Len(ops) + 1 /\ Len(ops) \in Nat
        /\ \A o \in 1 .. Len(ops) : ops'[o] = ops[o]
        /\ ops'[Len(ops) + 1] = NewOp(strict)
        /\ DOMAIN ops' = 1 .. Len(ops) + 1 /\ DOMAIN ops = 1 .. Len(ops)
    BY <1>5, <2>2, AppendProperties DEF Typed
  <2>4. Waiting'
    BY <1>1, <1>5 DEF Waiting, Waits, Message
  <2>5. \A o \in 1 .. Len(ops) : ~Unapplied(o) /\ ops[o].status # "APPLYING"
    BY <1>2, <2>3 DEF Operations
  <2>6. \A o \in 1 .. Len(ops) : ~(ops'[o].generation = generation' /\ ~ops'[o].applied)
    BY <2>3, <2>5 DEF Unapplied, Current
  <2>7. /\ NewOp(strict).generation = generation /\ NewOp(strict).msg = pos
        /\ NewOp(strict).status = "NEW" /\ ~NewOp(strict).applied /\ ~NewOp(strict).freed
    BY DEF NewOp
  <2>8. generation \in Nat
    BY DEF Typed
  <2>9. ASSUME NEW o \in DOMAIN ops'
        PROVE  /\ ops'[o].generation <= generation'
               /\ Unapplied(o)' => async_state' = "INVOKED" /\ ops'[o].msg = pos'
               /\ ops'[o].status \in {"COMPLETE", "APPLYING"} => ops'[o].valid \/ ops'[o].strict
               /\ ops'[o].status # "APPLYING"
               /\ ops'[o].freed => ops'[o].buffers = {}
               /\ ops'[o].applied => ops'[o].buffers = {} /\ ops'[o].status = "COMPLETE"
               /\ Unapplied(o)' => o = Len(ops) + 1
    <3>1. CASE o \in 1 .. Len(ops)
      <4>1. ops'[o] = ops[o] /\ o \in DOMAIN ops
        BY <2>3, <3>1
      <4>2. ~Unapplied(o)'
        BY <2>6, <3>1 DEF Unapplied, Current
      <4> QED BY <2>5, <3>1, <4>1, <4>2 DEF Operations
    <3>2. CASE o = Len(ops) + 1
      <4>1. ops'[o] = NewOp(strict)
        BY <2>3, <3>2
      <4> QED BY <1>5, <2>7, <2>8, <3>2, <4>1
    <3> QED BY <2>3, <3>1, <3>2
  <2>10. Operations'
    BY <2>9 DEF Operations
  <2> QED BY <2>3, <2>4, <2>10
<1>6. CASE /\ Message.async /\ async_state = "NOT_INVOKED"
           /\ async_state' = "INVOKED"
           /\ at' = "CALLBACK"
           /\ \E strict \in {FALSE, ~Message.reads} : ops' = Append(ops, NewOp(strict))
           /\ io' = buffer
           /\ UNCHANGED <<pos, handled>>
  <2>1. Waiting' /\ Operations' /\ ops' \in Seq(OpType)
    BY <1>5, <1>6
  <2> QED BY <1>1, <1>6, <2>1 DEF Typed, Logged
<1> QED BY <1>4, <1>6 DEF InvokeHandler

\* PeerSendsRecord.
LEMMA PeerSendsRecordInv ==
    ASSUME ~CoalesceAfterAsync, Inv, PeerSendsRecord
    PROVE  Inv' /\ Logged
<1>1. /\ script \in Script /\ Len(script) \in Nat /\ pos \in Nat \ {0} /\ sent \in Nat
      /\ wire \in Seq(Seq(Nat)) /\ in \in Seq(Nat) /\ Typed /\ Flow /\ SentUpTo /\ error = "NONE"
  BY ScriptShape DEF Inv, Typed, PeerSendsRecord
<1>2. PICK n \in 1 .. MaxRecordUnits :
         LET first == SkipWritten(sent + 1)
             units == [i \in 1 .. n |-> first + i - 1]
         IN  /\ \A i \in 1 .. n : MaySend(UnitMsg(units[i]))
             /\ CoalesceAfterAsync \/ \A i \in 1 .. n - 1 :
                   ~(script[UnitMsg(units[i])].async /\ UnitMsg(units[i + 1]) # UnitMsg(units[i]))
             /\ wire' = Append(wire, units)
             /\ sent' = first + n - 1
  BY DEF PeerSendsRecord
<1> DEFINE first == SkipWritten(sent + 1)
           q == [i \in 1 .. n |-> first + i - 1]
<1>3. n \in Nat \ {0}
  BY AsyncAssumption
<1>4. /\ \A i \in 1 .. n : MaySend(UnitMsg(q[i]))
      /\ \A i \in 1 .. n - 1 : script[UnitMsg(q[i])].async => UnitMsg(q[i + 1]) = UnitMsg(q[i])
      /\ wire' = Append(wire, q) /\ sent' = first + n - 1
  BY <1>2
<1>5. /\ \A i \in 1 .. n : q[i] = first + i - 1
      /\ DOMAIN q = 1 .. n
  OBVIOUS
<1>6. first = NextSent(pos, io, in, wire) /\ first \in Nat
  <2>1. 1 \in 1 .. n
    BY <1>3
  <2> HIDE DEF q
  <2>2. q[1] = first + 1 - 1
    BY <1>5, <2>1
  <2>3. NextSent(pos, io, in, wire) \in Nat
    BY <1>1, SentIsAhead DEF Flow
  <2>5. first \in Int
    <3> DEFINE ms == {m \in UnitMsg(sent + 1) .. Len(script) : script[m].reads}
    <3>1. CASE script[UnitMsg(sent + 1)].reads \/ ms = {}
      BY <1>1, <3>1 DEF SkipWritten
    <3>2. CASE ~(script[UnitMsg(sent + 1)].reads \/ ms = {})
      <4>1. sent + 1 \in Nat
        BY <1>1
      <4>2. UnitMsg(sent + 1) \in Nat
        BY <4>1, UnitMsgOf
      <4>3. ms \in SUBSET Nat
        BY <1>1, <4>2
      <4>4. \E m \in ms : \A k \in ms : m <= k
        BY <3>2, <4>3, HasSmallest
      <4>5. (CHOOSE m \in ms : \A k \in ms : m <= k) \in Nat
        BY <4>3, <4>4
      <4> QED BY <3>2, <4>5 DEF SkipWritten
    <3> QED BY <3>1, <3>2
  <2>6. q[1] = first
    BY <2>2, <2>5
  <2>7. MaySend(UnitMsg(first))
    BY <1>4, <2>1, <2>6
  <2>8. sent < 2 * Len(script)
    BY DEF PeerSendsRecord
  <2>9. first = NextSent(pos, io, in, wire)
    BY <1>1, <2>7, <2>8, SendsNext
  <2> QED BY <2>3, <2>9
<1> HIDE DEF first
<1>7. q \in Seq(Nat) /\ Len(q) = n /\ q # << >> /\ q[1] = first
  <2>1. q \in [1 .. n -> Nat]
    BY <1>3, <1>6
  <2>2. 1 \in 1 .. n
    BY <1>3
  <2> QED BY <1>3, <1>6, <2>1, <2>2
<1> HIDE DEF q
<1>8. Record(script, q)
  BY <1>3, <1>4, <1>5, <1>6, <1>7 DEF Record, MaySend
<1>9. FlowOf(script, pos, io, in, Append(wire, q)) /\ SentOf(script, pos, io, in, Append(wire, q), q[1] + Len(q) - 1)
  BY <1>1, <1>6, <1>7, <1>8, SendRecord DEF Flow
<1>10. UNCHANGED <<script, generation, pos, in, io, paused, at, handled, error, async_state, result, ops>>
  BY DEF PeerSendsRecord
<1>11. Flow' /\ SentUpTo'
  BY <1>4, <1>7, <1>9, <1>10 DEF Flow, SentUpTo
<1>12. wire' \in Seq(Seq(Nat)) /\ sent' \in Nat
  BY <1>1, <1>3, <1>4, <1>6, <1>7, AppendProperties
<1>13. Typed'
  BY <1>10, <1>12 DEF Inv, Typed
<1>14. Waiting' /\ Operations'
  BY <1>10 DEF Inv, Waiting, Waits, Message, Operations, Unapplied, Current
<1> QED BY <1>10, <1>11, <1>13, <1>14 DEF Inv, Logged

\* ReadRecord.
LEMMA ReadRecordInv ==
    ASSUME Inv, ReadRecord
    PROVE  Inv' /\ Logged
<1>1. /\ script \in Script /\ Len(script) \in Nat /\ pos \in Nat \ {0} /\ Typed
      /\ wire \in Seq(Seq(Nat)) /\ Flow /\ SentUpTo /\ error = "NONE" /\ ~Waits
      /\ in = << >> /\ wire # << >> /\ in' = wire[1] /\ wire' = Tail(wire)
  BY ScriptShape DEF Inv, Typed, ReadRecord, Running, Waits
<1>2. UNCHANGED <<script, generation, pos, sent, io, paused, at, handled, error, async_state, result, ops>>
  BY DEF ReadRecord
<1>3. FlowOf(script, pos, io, wire[1], Tail(wire)) /\ SentOf(script, pos, io, wire[1], Tail(wire), sent)
  BY <1>1, TakeRecord DEF Flow, SentUpTo
<1>4. Flow' /\ SentUpTo'
  BY <1>1, <1>2, <1>3 DEF Flow, SentUpTo
<1>5. wire' \in Seq(Seq(Nat)) /\ in' \in Seq(Nat)
  <2>1. Len(wire) \in Nat \ {0}
    BY <1>1, EmptySeq
  <2> QED BY <1>1, <2>1
<1>6. Typed'
  BY <1>2, <1>5 DEF Inv, Typed
<1>7. Waiting' /\ Operations'
  <2>1. ~Waits'
    BY <1>1, <1>2 DEF Waits
  <2> QED BY <1>1, <1>2, <2>1 DEF Inv, Waiting, Waits, Message, Operations, Unapplied, Current
<1> QED BY <1>2, <1>4, <1>6, <1>7 DEF Inv, Logged

\* A turn of the loop over the record.
LEMMA ReadMessageInv ==
    ASSUME Inv, ReadMessage
    PROVE  Inv' /\ Logged
<1> DEFINE read == s2n_read_full_handshake_message(in, io)
<1>1. /\ script \in Script /\ Len(script) \in Nat /\ pos \in Nat \ {0} /\ Typed
      /\ Waiting /\ Operations /\ Flow /\ SentUpTo
      /\ Running /\ ~paused /\ error = "NONE" /\ at = "NEGOTIATE" /\ ~Waits
      /\ pos <= Len(script) /\ Message.reads /\ in # << >> /\ in' = read.in
  BY ScriptShape DEF Inv, Typed, ReadMessage, Running, Waits, Done
<1>2. UNCHANGED <<script, generation, sent, wire, paused, result>>
  BY DEF ReadMessage
<1>3. Len(io) < 2
  BY <1>1 DEF Waiting
<1>4. /\ FlowOf(script, pos, read.io, read.in, wire) /\ SentOf(script, pos, read.io, read.in, wire, sent)
      /\ Len(read.io) \in 1 .. 2 /\ read.in \in Seq(Nat)
      /\ UnitMsg(read.io[1]) = pos
      /\ Len(read.io) = 2 /\ script[pos].async => read.in = << >>
  <2>1. read = [io |-> read.io, in |-> read.in]
    BY DEF s2n_read_full_handshake_message
  <2> HIDE DEF read
  <2> QED BY <1>1, <1>3, <2>1, ReadUnits DEF Flow, SentUpTo, read
<1> HIDE DEF read
<1>5. CASE /\ Len(read.io) < 2 /\ io' = read.io
           /\ UNCHANGED <<pos, at, handled, error, async_state, ops>>
  <2>1. Flow' /\ SentUpTo'
    BY <1>1, <1>2, <1>4, <1>5 DEF Flow, SentUpTo
  <2>2. Typed'
    BY <1>1, <1>2, <1>4, <1>5 DEF Typed
  <2>3. ~Waits' /\ at' # "CALLBACK"
    BY <1>1, <1>2, <1>5 DEF Waits
  <2>4. Waiting'
    BY <1>1, <1>2, <1>5, <2>3 DEF Waiting
  <2>5. Operations'
    BY <1>1, <1>2, <1>5 DEF Operations, Unapplied, Current
  <2> QED BY <1>2, <1>5, <2>1, <2>2, <2>4, <2>5 DEF Inv, Logged
<1>6. CASE Len(read.io) = 2 /\ InvokeHandler(read.io) /\ UNCHANGED error
  <2>1. read.io = <<2 * pos - 1, 2 * pos>>
    BY <1>1, <1>4, <1>6, FullMessage
  <2>2. Message.async => in' = << >>
    BY <1>1, <1>4, <1>6 DEF Message
  <2>3. /\ Waiting' /\ Operations' /\ Logged
        /\ handled' \in Seq(Nat \X Nat) /\ Len(handled') + 1 = pos'
        /\ pos' \in 1 .. Len(script) + 1
        /\ at' \in {"NEGOTIATE", "CALLBACK"} /\ ops' \in Seq(OpType)
        /\ async_state' \in {"NOT_INVOKED", "INVOKED", "COMPLETE"}
        /\ (pos' = pos + 1 /\ io' = << >>) \/ (pos' = pos /\ io' = read.io)
    BY <1>1, <1>2, <1>6, <2>1, <2>2, HandlerInvoked
  <2>4. Typed'
    BY <1>1, <1>2, <1>4, <1>6, <2>3 DEF Typed
  <2>5. /\ FlowOf(script, pos + 1, << >>, read.in, wire)
        /\ SentOf(script, pos + 1, << >>, read.in, wire, sent)
    BY <1>1, <1>4, <1>6, NextMessageRead
  <2>6. Flow' /\ SentUpTo'
    BY <1>1, <1>2, <1>4, <2>3, <2>5 DEF Flow, SentUpTo
  <2> QED BY <2>3, <2>4, <2>6 DEF Inv
<1> QED BY <1>4, <1>5, <1>6 DEF ReadMessage, read

\* A message that is written.
LEMMA WriteMessageInv ==
    ASSUME Inv, WriteMessage
    PROVE  Inv' /\ Logged
<1>1. /\ script \in Script /\ Len(script) \in Nat /\ pos \in Nat \ {0} /\ Typed
      /\ wire \in Seq(Seq(Nat)) /\ sent \in Nat
      /\ Waiting /\ Operations /\ Flow /\ SentUpTo
      /\ Running /\ ~paused /\ error = "NONE"
      /\ pos <= Len(script) /\ ~Message.reads /\ InvokeHandler(<< >>)
  BY ScriptShape DEF Inv, Typed, WriteMessage, Running, Done
<1>2. UNCHANGED <<script, generation, sent, wire, in, paused, error, result>>
  BY DEF WriteMessage
<1>3. io = << >> /\ in = << >>
  BY <1>1, WritesAlone DEF Flow, Message
<1>4. /\ Waiting' /\ Operations' /\ Logged
      /\ handled' \in Seq(Nat \X Nat) /\ Len(handled') + 1 = pos'
      /\ pos' \in 1 .. Len(script) + 1
      /\ at' \in {"NEGOTIATE", "CALLBACK"} /\ ops' \in Seq(OpType)
      /\ async_state' \in {"NOT_INVOKED", "INVOKED", "COMPLETE"}
      /\ (pos' = pos + 1 /\ io' = << >>) \/ (pos' = pos /\ io' = << >>)
  <2>1. Len(<< >>) = IF Message.reads THEN 2 ELSE 0
    BY <1>1
  <2> QED BY <1>1, <1>2, <1>3, <2>1, HandlerInvoked
<1>5. Typed'
  BY <1>1, <1>2, <1>4 DEF Typed
<1>6. FlowOf(script, pos + 1, << >>, in, wire) /\ SentOf(script, pos + 1, << >>, in, wire, sent)
  BY <1>1, NextMessageWritten DEF Flow, SentUpTo, Message
<1>7. Flow' /\ SentUpTo'
  BY <1>1, <1>2, <1>3, <1>4, <1>6 DEF Flow, SentUpTo
<1> QED BY <1>4, <1>5, <1>7 DEF Inv

\* The message that the connection waits for is all that was read.
LEMMA WaitedFor ==
    ASSUME Inv, Waits
    PROVE  /\ script \in Script /\ Len(script) \in Nat /\ pos \in Nat \ {0} /\ pos <= Len(script)
           /\ wire \in Seq(Seq(Nat)) /\ sent \in Nat
           /\ Typed /\ Waiting /\ Operations /\ Flow /\ SentUpTo
           /\ Message.async /\ error = "NONE" /\ in = << >>
           /\ async_state = "COMPLETE" => result = pos
           /\ Message.reads => io = <<2 * pos - 1, 2 * pos>>
           /\ \A k \in pos + 1 .. Len(script) : ~script[k].async
           /\ FlowOf(script, pos + 1, << >>, in, wire)
           /\ SentOf(script, pos + 1, << >>, in, wire, sent)
<1>1. /\ script \in Script /\ Len(script) \in Nat /\ pos \in Nat \ {0}
      /\ wire \in Seq(Seq(Nat)) /\ sent \in Nat
      /\ \A i, j \in 1 .. Len(script) : script[i].async /\ script[j].async => i = j
  BY ScriptShape DEF Inv, Typed
<1>2. /\ pos <= Len(script) /\ Message.async /\ error = "NONE" /\ in = << >>
      /\ async_state = "COMPLETE" => result = pos
      /\ Len(io) = IF Message.reads THEN 2 ELSE 0
  BY DEF Inv, Waiting
<1>3. Typed /\ Waiting /\ Operations /\ Flow /\ SentUpTo
  BY <1>2 DEF Inv
<1>4. Message.reads => io = <<2 * pos - 1, 2 * pos>>
  BY <1>1, <1>2, <1>3, FullMessage DEF Flow
<1>5. \A k \in pos + 1 .. Len(script) : ~script[k].async
  BY <1>1, <1>2 DEF Message
<1>6. FlowOf(script, pos + 1, << >>, in, wire) /\ SentOf(script, pos + 1, << >>, in, wire, sent)
  <2>1. CASE Message.reads
    BY <1>1, <1>2, <1>3, <2>1, NextMessageRead DEF Flow, SentUpTo
  <2>2. CASE ~Message.reads
    BY <1>1, <1>2, <1>3, <2>2, NextMessageWritten DEF Flow, SentUpTo, Message
  <2> QED BY <2>1, <2>2
<1> QED BY <1>1, <1>2, <1>3, <1>4, <1>5, <1>6

\* CallbackReturns.
LEMMA CallbackReturnsInv ==
    ASSUME Inv, CallbackReturns
    PROVE  Inv' /\ Logged
<1>1. Waits /\ at' = "NEGOTIATE" /\ ~paused /\ paused = FALSE
  BY DEF CallbackReturns, Waits, Inv, Waiting, Typed
<1>2. UNCHANGED <<script, generation, sent, wire, in, error, async_state, result, ops>>
  BY DEF CallbackReturns
<1>3. CASE async_state = "COMPLETE" /\ s2n_finish_message(io) /\ UNCHANGED paused
  <2>1. /\ handled' \in Seq(Nat \X Nat) /\ Len(handled') + 1 = pos' /\ Logged
        /\ pos' = pos + 1 /\ io' = << >> /\ pos' \in 1 .. Len(script) + 1
    BY <1>1, <1>2, <1>3, WaitedFor, Finished
  <2>2. Flow' /\ SentUpTo'
    BY <1>1, <1>2, <2>1, WaitedFor DEF Flow, SentUpTo
  <2>3. Operations'
    BY <1>2, <1>3, NothingOutstanding DEF Inv
  <2>4. Typed'
    BY <1>1, <1>2, <1>3, <2>1 DEF Inv, Typed
  <2>5. ~Waits' /\ at' # "CALLBACK"
    BY <1>1, <1>3 DEF Waits
  <2>6. Len(io') < 2
    BY <2>1
  <2>7. \A k \in pos' .. Len(script') : ~script'[k].async
    BY <1>1, <1>2, <2>1, WaitedFor
  <2>8. Waiting'
    BY <1>2, <1>3, <2>5, <2>6, <2>7 DEF Waiting
  <2> QED BY <2>1, <2>2, <2>3, <2>4, <2>8 DEF Inv
<1>4. CASE async_state # "COMPLETE" /\ paused' = TRUE /\ UNCHANGED <<handled, io, pos>>
  <2>1. Flow' /\ SentUpTo'
    BY <1>1, <1>2, <1>4, WaitedFor DEF Flow, SentUpTo
  <2>2. Operations'
    BY <1>2, <1>4 DEF Inv, Operations, Unapplied, Current
  <2>3. Typed'
    BY <1>1, <1>2, <1>4 DEF Inv, Typed
  <2>4. Waiting'
    BY <1>1, <1>2, <1>4 DEF Inv, Waiting, Waits, Message
  <2> QED BY <1>2, <1>4, <2>1, <2>2, <2>3, <2>4 DEF Inv, Logged
<1> QED BY <1>3, <1>4 DEF CallbackReturns

\* CallbackFails.
LEMMA CallbackFailsInv ==
    ASSUME Inv, CallbackFails
    PROVE  Inv' /\ Logged
<1>1. /\ ~paused /\ at' = "NEGOTIATE" /\ error' = "ASYNC_CALLBACK_FAILED"
      /\ UNCHANGED <<script, generation, pos, sent, wire, in, io, paused, handled, async_state, result, ops>>
  BY DEF CallbackFails, Inv, Waiting
<1>2. Typed'
  BY <1>1 DEF Inv, Typed
<1>3. Waiting'
  BY <1>1 DEF Waiting, Waits
<1>4. Operations'
  BY <1>1 DEF Inv, Operations, Unapplied, Current
<1> QED BY <1>1, <1>2, <1>3, <1>4 DEF Inv, Logged

\* The handler is called again and finds the operation applied.
LEMMA RetryInv ==
    ASSUME Inv, s2n_handle_retry_state
    PROVE  Inv' /\ Logged
<1>1. /\ Waits /\ paused' = FALSE /\ at = "NEGOTIATE" /\ at' = at /\ async_state = "COMPLETE"
      /\ async_state' = "NOT_INVOKED" /\ s2n_finish_message(io)
      /\ UNCHANGED <<script, generation, sent, wire, error, result, ops>>
  BY DEF s2n_handle_retry_state, Running, Waits
<1>2. in' = << >> /\ in' = in
  BY <1>1, WaitedFor DEF s2n_handle_retry_state
<1>3. /\ handled' \in Seq(Nat \X Nat) /\ Len(handled') + 1 = pos' /\ Logged
      /\ pos' = pos + 1 /\ io' = << >> /\ pos' \in 1 .. Len(script) + 1
  BY <1>1, WaitedFor, Finished
<1>4. Flow' /\ SentUpTo'
  BY <1>1, <1>2, <1>3, WaitedFor DEF Flow, SentUpTo
<1>5. Operations'
  BY <1>1, NothingOutstanding DEF Inv
<1>6. Typed'
  BY <1>1, <1>2, <1>3 DEF Inv, Typed
<1>7. Waiting'
  <2>1. ~Waits' /\ at' # "CALLBACK"
    BY <1>1 DEF Waits
  <2>2. Len(io') < 2
    BY <1>3
  <2> QED BY <1>1, <2>1, <2>2 DEF Waiting
<1> QED BY <1>3, <1>4, <1>5, <1>6, <1>7 DEF Inv

\* Every operation is one.
LEMMA OpTyped ==
    ASSUME Typed, NEW o \in DOMAIN ops
    PROVE  ops[o] \in OpType /\ ops[o].generation \in Nat
<1>1. ops \in Seq(OpType) /\ o \in 1 .. Len(ops)
  BY DEF Typed
<1>2. ops[o] \in OpType
  BY <1>1, ElementOfSeq, Zenon
<1> QED BY <1>2 DEF OpType

\* A handshake begins: nothing is in flight.
LEMMA Begins ==
    ASSUME NEW s
    PROVE  FlowOf(s, 1, << >>, << >>, << >>) /\ SentOf(s, 1, << >>, << >>, << >>, 0)
BY DEF FlowOf, SentOf, NextSent, NextFirst, NextUnit

\* s2n_connection_wipe: an operation that is left over is of an older handshake.
LEMMA WipeInv ==
    ASSUME Inv, s2n_connection_wipe
    PROVE  Inv' /\ Logged
<1>1. PICK s \in Scripts : Start(s)
  BY DEF s2n_connection_wipe
<1>2. /\ at = "NEGOTIATE" /\ generation' = generation + 1 /\ UNCHANGED <<at, ops>>
      /\ \A o \in DOMAIN ops : ops[o].status # "APPLYING"
      /\ generation \in Nat /\ ops \in Seq(OpType)
  BY DEF s2n_connection_wipe, Inv, Typed
<1>3. /\ script' = s /\ pos' = 1 /\ sent' = 0 /\ wire' = << >> /\ in' = << >> /\ io' = << >>
      /\ paused' = FALSE /\ async_state' = "NOT_INVOKED" /\ result' = 0
      /\ handled' = << >> /\ error' = "NONE"
  BY <1>1 DEF Start
<1>4. Flow' /\ SentUpTo'
  BY <1>3, Begins DEF Flow, SentUpTo
<1>5. Len(s) \in Nat
  BY ScriptShape
<1>6. Typed'
  <2>1. /\ << >> \in Seq(Seq(Nat)) /\ << >> \in Seq(Nat) /\ << >> \in Seq(Nat \X Nat)
        /\ Len(<< >>) + 1 = 1 /\ 1 \in 1 .. Len(s) + 1 /\ generation + 1 \in Nat
    BY <1>2, <1>5
  <2> QED BY <1>2, <1>3, <2>1 DEF Typed
<1>7. Waiting'
  BY <1>2, <1>3 DEF Waiting, Waits
<1>8. \A o \in DOMAIN ops : ops[o].generation \in Nat /\ ops[o].generation <= generation
  <2> SUFFICES ASSUME NEW o \in DOMAIN ops
               PROVE  ops[o].generation \in Nat /\ ops[o].generation <= generation
    OBVIOUS
  <2>1. Typed /\ Operations
    BY DEF Inv
  <2>2. ops[o].generation \in Nat
    BY <2>1, OpTyped
  <2> QED BY <2>1, <2>2 DEF Operations
<1>9. \A o \in DOMAIN ops' : ops'[o] = ops[o] /\ ops'[o].generation <= generation' /\ ~Unapplied(o)'
  BY <1>2, <1>8 DEF Unapplied, Current
<1>10. Operations'
  <2>1. ASSUME NEW o \in DOMAIN ops'
        PROVE  /\ ops'[o].status \in {"COMPLETE", "APPLYING"} => ops'[o].valid \/ ops'[o].strict
               /\ ops'[o].status # "APPLYING"
               /\ ops'[o].freed => ops'[o].buffers = {}
               /\ ops'[o].applied => ops'[o].buffers = {} /\ ops'[o].status = "COMPLETE"
    <3>1. o \in DOMAIN ops /\ ops'[o] = ops[o]
      BY <1>2
    <3> QED BY <1>2, <3>1 DEF Inv, Operations
  <2> QED BY <1>9, <2>1 DEF Operations
<1> QED BY <1>1, <1>3, <1>4, <1>6, <1>7, <1>10 DEF Inv, Logged

\* The worker changes one operation, and the connection only when it applies it.
LEMMA WorkerInv ==
    ASSUME Inv, NEW o \in DOMAIN ops, Worker(o)
    PROVE  Inv' /\ Logged
<1>1. UNCHANGED connVars
  BY DEF Worker, s2n_async_pkey_op_perform, s2n_async_pkey_op_set_output, ApplyBegin, ApplyEnd,
         s2n_async_pkey_op_free
<1>2. Typed /\ Operations /\ Waiting /\ ops \in Seq(OpType) /\ ops[o] \in OpType /\ pos \in Nat
  BY OpTyped, ScriptShape DEF Inv, Typed
<1>3. Logged /\ (error' = "NONE" => Flow' /\ SentUpTo')
  BY <1>1 DEF connVars, Logged, Inv, Flow, SentUpTo
<1> DEFINE Keeps(op) ==
      /\ op.generation = ops[o].generation /\ op.msg = ops[o].msg /\ op.strict = ops[o].strict
      /\ op.status \in {"COMPLETE", "APPLYING"} => op.valid \/ op.strict
      /\ op.freed => op.buffers = {}
      /\ op.applied => op.buffers = {} /\ op.status = "COMPLETE"
      /\ ops[o].applied => op.applied
\* One operation changes.
<1>4. ASSUME NEW op \in OpType, SetOp(o, op), Keeps(op),
             op.status = "APPLYING" => Unapplied(o) /\ ~op.applied /\ ~op.freed /\ result' = pos,
             \/ UNCHANGED <<async_state, result>>
             \/ Unapplied(o) /\ UNCHANGED async_state
             \/ Unapplied(o) /\ op.applied /\ UNCHANGED result /\ async_state' = "COMPLETE"
      PROVE  Operations' /\ ops' \in Seq(OpType)
  <2>1. /\ ops' \in Seq(OpType) /\ DOMAIN ops' = DOMAIN ops /\ ops'[o] = op
        /\ \A p \in DOMAIN ops : p # o => ops'[p] = ops[p]
    BY <1>2, <1>4 DEF SetOp
  <2>2. pos' = pos /\ generation' = generation
    BY <1>1 DEF connVars
  <2>3. \A p \in DOMAIN ops : Unapplied(p)' => Unapplied(p)
    BY <1>4, <2>1, <2>2 DEF Unapplied, Current
  <2>4. ASSUME NEW p \in DOMAIN ops
        PROVE  /\ ops'[p].generation <= generation'
               /\ ops'[p].status \in {"COMPLETE", "APPLYING"} => ops'[p].valid \/ ops'[p].strict
               /\ ops'[p].freed => ops'[p].buffers = {}
               /\ ops'[p].applied => ops'[p].buffers = {} /\ ops'[p].status = "COMPLETE"
               /\ ops'[p].msg = ops[p].msg
    <3>1. CASE p = o
      BY <1>2, <1>4, <2>1, <2>2, <3>1 DEF Operations
    <3>2. CASE p # o
      BY <1>2, <2>1, <2>2, <3>2 DEF Operations
    <3> QED BY <3>1, <3>2
  <2>5. ASSUME NEW p \in DOMAIN ops, Unapplied(p)'
        PROVE  async_state' = "INVOKED" /\ ops'[p].msg = pos'
    <3>1. Unapplied(p) /\ async_state = "INVOKED" /\ ops[p].msg = pos
      BY <1>2, <2>3, <2>5 DEF Operations
    <3>2. async_state' = async_state
      <4> SUFFICES ASSUME Unapplied(o), op.applied PROVE FALSE
        BY <1>4
      <4>1. p = o
        BY <1>2, <3>1 DEF Operations
      <4> QED BY <2>1, <2>5, <4>1 DEF Unapplied
    <3> QED BY <2>2, <2>4, <3>1, <3>2
  <2>6. ASSUME NEW p \in DOMAIN ops, ops'[p].status = "APPLYING"
        PROVE  Unapplied(p)' /\ ~ops'[p].freed /\ result' = pos'
    <3>1. CASE p = o
      BY <1>4, <2>1, <2>2, <2>6, <3>1 DEF Unapplied, Current
    <3>2. CASE p # o
      <4>1. Unapplied(p) /\ ~ops[p].freed /\ result = pos /\ ops'[p] = ops[p]
        BY <1>2, <2>1, <2>6, <3>2 DEF Operations
      <4>2. ~Unapplied(o)
        BY <1>2, <3>2, <4>1 DEF Operations
      <4> QED BY <1>4, <2>2, <4>1, <4>2 DEF Unapplied, Current
    <3> QED BY <3>1, <3>2
  <2>7. \A p, q \in DOMAIN ops : Unapplied(p)' /\ Unapplied(q)' => p = q
    BY <1>2, <2>3 DEF Operations
  <2>8. Operations'
    BY <2>1, <2>4, <2>5, <2>6, <2>7 DEF Operations
  <2> QED BY <2>1, <2>8
\* The connection, which waits for that operation if it is applied now.
<1>5. ASSUME ops' \in Seq(OpType), Operations',
             \/ UNCHANGED <<async_state, result>>
             \/ async_state = "INVOKED" /\ UNCHANGED async_state /\ result' \in Nat
             \/ async_state = "INVOKED" /\ async_state' = "COMPLETE" /\ UNCHANGED result /\ result = pos
      PROVE  Inv'
  <2>1. Typed'
    BY <1>1, <1>2, <1>5 DEF Typed, connVars
  <2>2. Waiting'
    BY <1>1, <1>2, <1>5 DEF Waiting, Waits, Message, connVars
  <2> QED BY <1>3, <1>5, <2>1, <2>2 DEF Inv
<1>6. CASE s2n_async_pkey_op_perform(o)
  <2>1. PICK status \in PerformOutcomes(ops[o].type) :
           SetOp(o, [ops[o] EXCEPT !.status = status, !.valid = TRUE, !.buffers = @ \cup {"OUTPUT"}])
    BY <1>6 DEF s2n_async_pkey_op_perform
  <2> DEFINE op == [ops[o] EXCEPT !.status = status, !.valid = TRUE, !.buffers = @ \cup {"OUTPUT"}]
  <2>2. ~ops[o].freed /\ ops[o].status = "NEW" /\ UNCHANGED <<async_state, result>>
    BY <1>6 DEF s2n_async_pkey_op_perform, Live
  <2>3. ~ops[o].applied
    BY <1>2, <2>2 DEF Operations
  <2>4. status \in {"COMPLETE", "FAILED"}
    BY <2>1 DEF PerformOutcomes
  <2>5. op \in OpType /\ Keeps(op) /\ op.status # "APPLYING"
    BY <1>2, <2>2, <2>3, <2>4 DEF OpType
  <2> HIDE DEF op, Keeps
  <2>6. SetOp(o, op)
    BY <2>1 DEF op
  <2>7. Operations' /\ ops' \in Seq(OpType)
    BY <1>4, <2>2, <2>5, <2>6
  <2> QED BY <1>3, <1>5, <2>2, <2>7
<1>7. ASSUME NEW valid \in BOOLEAN, s2n_async_pkey_op_set_output(o, valid) PROVE Inv' /\ Logged
  <2> DEFINE op == [ops[o] EXCEPT !.status = "COMPLETE", !.valid = valid, !.buffers = @ \cup {"OUTPUT"}]
  <2>1. /\ ~ops[o].freed /\ ~ops[o].applied /\ (valid \/ ops[o].strict)
        /\ UNCHANGED <<async_state, result>> /\ SetOp(o, op)
    BY <1>7 DEF s2n_async_pkey_op_set_output, Live
  <2>2. op \in OpType /\ Keeps(op) /\ op.status # "APPLYING"
    BY <1>2, <1>7, <2>1 DEF OpType
  <2> HIDE DEF op, Keeps
  <2>3. Operations' /\ ops' \in Seq(OpType)
    BY <1>4, <2>1, <2>2
  <2> QED BY <1>3, <1>5, <2>1, <2>3
<1>8. CASE ApplyBegin(o)
  <2> DEFINE op == [ops[o] EXCEPT !.status = "APPLYING"]
  <2>1. /\ ~ops[o].freed /\ Current(o) /\ ops[o].status = "COMPLETE" /\ ~ops[o].applied
        /\ async_state = "INVOKED" /\ UNCHANGED async_state
        /\ ops[o].strict => ops[o].valid
        /\ result' = IF ops[o].valid THEN ops[o].msg ELSE 0
        /\ SetOp(o, op)
    BY <1>8 DEF ApplyBegin, Live, s2n_async_pkey_verify_signature
  <2>2. Unapplied(o) /\ ops[o].msg = pos /\ ops[o].valid
    BY <1>2, <2>1 DEF Unapplied, Operations
  <2>3. result' = pos
    BY <2>1, <2>2
  <2>4. op \in OpType /\ Keeps(op) /\ ~op.applied /\ ~op.freed
    BY <1>2, <2>1, <2>2 DEF OpType
  <2> HIDE DEF op, Keeps
  <2>5. Operations' /\ ops' \in Seq(OpType)
    BY <1>4, <2>1, <2>2, <2>3, <2>4
  <2> QED BY <1>2, <1>3, <1>5, <2>1, <2>3, <2>5
<1>9. CASE ApplyEnd(o)
  <2> DEFINE op == [ops[o] EXCEPT !.status = "COMPLETE", !.applied = TRUE, !.buffers = Released]
  <2>1. /\ ops[o].status = "APPLYING" /\ async_state' = "COMPLETE" /\ UNCHANGED result
        /\ SetOp(o, op)
    BY <1>9 DEF ApplyEnd
  <2>2. Unapplied(o) /\ result = pos /\ ~ops[o].freed /\ async_state = "INVOKED"
    BY <1>2, <2>1 DEF Operations
  <2>3. ops[o].valid \/ ops[o].strict
    BY <1>2, <2>1 DEF Operations
  <2>4. op \in OpType /\ Keeps(op) /\ op.applied /\ op.status # "APPLYING"
    BY <1>2, <2>1, <2>2, <2>3 DEF OpType, Released
  <2> HIDE DEF op, Keeps
  <2>5. Operations' /\ ops' \in Seq(OpType)
    BY <1>4, <2>1, <2>2, <2>4
  <2> QED BY <1>3, <1>5, <2>1, <2>2, <2>5
<1>10. CASE s2n_async_pkey_op_free(o)
  <2> DEFINE op == [ops[o] EXCEPT !.freed = TRUE, !.buffers = IF ops[o].applied THEN @ ELSE Released]
  <2>1. ops[o].status # "APPLYING" /\ UNCHANGED <<async_state, result>> /\ SetOp(o, op)
    BY <1>10 DEF s2n_async_pkey_op_free, Live
  <2>2. op \in OpType /\ Keeps(op) /\ op.status # "APPLYING"
    BY <1>2, <2>1 DEF OpType, Released, Operations
  <2> HIDE DEF op, Keeps
  <2>3. Operations' /\ ops' \in Seq(OpType)
    BY <1>4, <2>1, <2>2
  <2> QED BY <1>3, <1>5, <2>1, <2>3
<1> QED BY <1>6, <1>7, <1>8, <1>9, <1>10 DEF Worker

----------------------------------------------------------------------------
(***************************************************************************)
(* The theorems.                                                           *)
(***************************************************************************)
\* A handshake that has not begun.
LEMMA InitInv ==
    ASSUME Init
    PROVE  Inv
<1>1. Len(script) \in Nat /\ script \in Scripts
  BY ScriptShape DEF Init
<1>2. Typed
  <2>1. /\ << >> \in Seq(Seq(Nat)) /\ << >> \in Seq(Nat) /\ << >> \in Seq(Nat \X Nat)
        /\ << >> \in Seq(OpType) /\ Len(<< >>) + 1 = 1 /\ 1 \in 1 .. Len(script) + 1
    BY <1>1
  <2> QED BY <1>1, <2>1 DEF Init, Typed
<1>3. Flow /\ SentUpTo
  BY Begins DEF Init, Flow, SentUpTo
<1>4. Waiting /\ Operations
  BY DEF Init, Waiting, Waits, Operations
<1> QED BY <1>2, <1>3, <1>4 DEF Inv

\* Every step keeps the invariant and handles a message in its turn, if any.
LEMMA NextInv ==
    ASSUME ~CoalesceAfterAsync, Inv, Next
    PROVE  Inv' /\ Logged
<1>1. CASE \E o \in DOMAIN ops : Worker(o)
  BY <1>1, WorkerInv
<1> QED BY <1>1, PeerSendsRecordInv, ReadRecordInv, ReadMessageInv, WriteMessageInv, RetryInv,
           CallbackReturnsInv, CallbackFailsInv, WipeInv DEF Next, s2n_negotiate

\* A step that leaves the variables alone keeps the invariant.
LEMMA StutterInv ==
    ASSUME Inv, UNCHANGED vars
    PROVE  Inv'
BY DEF Inv, Typed, Waiting, Waits, Message, Operations, Unapplied, Current, Flow, SentUpTo, vars,
       connVars

\* The invariant in every state.
LEMMA AlwaysInv == ~CoalesceAfterAsync => (Spec => []Inv)
<1> SUFFICES ASSUME ~CoalesceAfterAsync PROVE Spec => []Inv
  OBVIOUS
<1>1. Init => Inv
  BY InitInv
<1>2. Inv /\ [Next]_vars => Inv'
  BY NextInv, StutterInv
<1> QED BY <1>1, <1>2, PTL DEF Spec

\* The messages that need the key, of a script.
LEMMA OrderOf ==
    ASSUME NEW s \in Scripts
    PROVE  /\ [i \in DOMAIN s |-> s[i].async] \in Seq(BOOLEAN)
           /\ DOMAIN s = 1 .. Len(s)
<1>1. s \in Script /\ Len(s) \in Nat
  BY ScriptShape
<1>2. DOMAIN s = 1 .. Len(s) /\ \A i \in 1 .. Len(s) : s[i].async \in BOOLEAN
  <2>1. DOMAIN s = 1 .. Len(s)
    BY <1>1 DEF Script
  <2>2. ASSUME NEW i \in 1 .. Len(s) PROVE s[i].async \in BOOLEAN
    <3>1. s[i] \in [reads : BOOLEAN, async : BOOLEAN]
      BY <1>1, ElementOfSeq, Zenon DEF Script
    <3> QED BY <3>1
  <2> QED BY <2>1, <2>2
<1>3. [i \in DOMAIN s |-> s[i].async] \in [1 .. Len(s) -> BOOLEAN]
  BY <1>2
<1> QED BY <1>1, <1>2, <1>3

\* AsyncHandshake implements MessageOrder: however the peer cuts its messages
\* into records, whether the private-key operation completes inside the
\* callback or later, and whatever a worker does with the operations of a
\* connection wiped since, the handlers of s2n_negotiate run for the messages of
\* the handshake in order, each once, and the one that needs the private key
\* uses the result of its own operation.
THEOREM MessagesInOrder == ~CoalesceAfterAsync => (Spec => InOrder)
<1> SUFFICES ASSUME ~CoalesceAfterAsync PROVE Spec => InOrder
  OBVIOUS
<1> DEFINE order == [i \in DOMAIN script |-> script[i].async]
<1>1. Init => Promise!Init
  BY OrderOf DEF Init, Promise!Init
<1>2. ASSUME Inv, Logged PROVE Promise!Next \/ UNCHANGED <<order, handled>>
  <2>1. CASE script' = script /\ handled' = handled
    BY <2>1
  <2>2. CASE /\ script' = script /\ pos <= Len(script)
             /\ handled' = Append(handled, <<pos, IF Message.async THEN pos ELSE 0>>)
    <3>1. Len(handled) + 1 = pos /\ pos \in DOMAIN script /\ DOMAIN order = DOMAIN script
      BY <1>2, <2>2, OrderOf DEF Inv, Typed
    <3>2. order[pos] = Message.async /\ order' = order
      BY <2>2, <3>1 DEF Message
    <3> HIDE DEF order
    <3>3. handled' = Append(handled, <<Len(handled) + 1,
                                       IF order[Len(handled) + 1] THEN Len(handled) + 1 ELSE 0>>)
      BY <2>2, <3>1, <3>2
    <3>4. Promise!Handle
      BY <3>1, <3>2, <3>3 DEF Promise!Handle, order
    <3> QED BY <3>4 DEF Promise!Next
  <2>3. CASE script' \in Scripts /\ handled' = << >>
    <3>1. order' \in Seq(BOOLEAN)
      BY <2>3, OrderOf
    <3> QED BY <2>3, <3>1 DEF Promise!Next, Promise!StartOver
  <2> QED BY <1>2, <2>1, <2>2, <2>3 DEF Logged
<1>3. Inv /\ [Next]_vars => [Promise!Next]_<<order, handled>>
  <2>1. ASSUME Inv, Next PROVE [Promise!Next]_<<order, handled>>
    BY <1>2, <2>1, NextInv
  <2>2. ASSUME UNCHANGED vars PROVE [Promise!Next]_<<order, handled>>
    BY <2>2 DEF vars, connVars
  <2> QED BY <2>1, <2>2
<1>4. Spec => []Inv
  BY AlwaysInv
<1> QED BY <1>1, <1>3, <1>4, PTL DEF Spec, InOrder, Promise!Spec

\* No message of a conforming peer is taken for another one, whatever the
\* records, and an operation that the application freed holds no memory,
\* whether it was applied, failed, or outlived its connection.
THEOREM NothingIsLost == ~CoalesceAfterAsync => (Spec => []NothingLost)
<1> SUFFICES ASSUME ~CoalesceAfterAsync PROVE Spec => []NothingLost
  OBVIOUS
<1>1. Inv => NothingLost
  BY DEF Inv, Typed, Operations, NothingLost, EveryMessageArrives, OperationsReleased
<1>2. Spec => []Inv
  BY AlwaysInv
<1> QED BY <1>1, <1>2, PTL
=============================================================================
