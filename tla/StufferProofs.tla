--------------------------- MODULE StufferProofs ---------------------------
(***************************************************************************)
(* Stuffer implements ByteQueue, keeps its cursors in order and leaves no  *)
(* written byte where a wipe would not reach, for every growth, page and   *)
(* largest length.                                                         *)
(*                                                                         *)
(* That the cursors are in order is not inductive: a wipe reaches only the *)
(* high water mark, so the bytes above it must be known to be harmless,    *)
(* and zeroing a blob reaches only what it says is allocated, so that must *)
(* be all of its memory.  Sound says both.  The argument: each operation   *)
(* takes a sound stuffer to a sound one and does to it one of the things   *)
(* that a queue allows (Kept to Patched, said of memory and cursors);      *)
(* those things, said of the sequences that a stuffer stands for, are      *)
(* ByteQueue's actions; and a step of Stuffer is one such operation.       *)
(***************************************************************************)
EXTENDS Stuffer, SequenceTheorems, WellFoundedInduction, NaturalsInduction, TLAPS

\* A byte of memory: what callers write, or one digit of a number.
Cell == Int \cup {NetworkOrder(u, 1)[1] : u \in Nat}

\* The fields of blobs and stuffers.
BlobType == [mem : Seq(Cell), size : Nat, allocated : Nat, growable : BOOLEAN]

StufferType ==
    [blob : BlobType, read_cursor : Nat, write_cursor : Nat, high_water_mark : Nat,
     alloced : BOOLEAN, growable : BOOLEAN, tainted : BOOLEAN]

\* What a call on one stuffer returns: it releases nothing but zeros and wiped
\* bytes.
OutType == [ok : BOOLEAN, s : StufferType, rel : SUBSET Harmless]

\* The size is inside the memory; the allocator's blobs know all of it.
BlobSound(b) ==
    /\ b \in BlobType
    /\ b.size <= Len(b.mem)
    /\ b.growable => b.allocated = Len(b.mem)

\* A stuffer as every call finds and leaves it: beyond s2n_stuffer_validate, the
\* bytes above the high water mark are harmless, and an allocated stuffer has a
\* blob that may grow.
Sound(s) ==
    /\ s \in StufferType
    /\ BlobSound(s.blob)
    /\ s.alloced => s2n_blob_is_growable(s.blob)
    /\ s2n_stuffer_validate(s)
    /\ \A i \in 1..Len(s.blob.mem) : i > s.high_water_mark => s.blob.mem[i] \in Harmless

\* The bytes from a to b are the same.
Same(s, t, a, b) == \A i \in (a + 1)..b : t.blob.mem[i] = s.blob.mem[i]

\* What a call may do to a stuffer: nothing, append, move the read cursor,
\* erase what it reads, drop the end, change one byte.
Kept(s, t) ==
    /\ t.read_cursor = s.read_cursor
    /\ t.write_cursor = s.write_cursor
    /\ Same(s, t, 0, s.write_cursor)

Appended(s, t) ==
    /\ t.read_cursor = s.read_cursor
    /\ t.write_cursor >= s.write_cursor
    /\ Same(s, t, 0, s.write_cursor)

MovedTo(s, t) ==
    /\ t.write_cursor = s.write_cursor
    /\ Same(s, t, 0, s.write_cursor)

Erased(s, t) ==
    /\ t.write_cursor = s.write_cursor
    /\ t.read_cursor >= s.read_cursor
    /\ Same(s, t, 0, s.read_cursor)
    /\ Same(s, t, t.read_cursor, s.write_cursor)
    /\ \A i \in (s.read_cursor + 1)..t.read_cursor : t.blob.mem[i] = 0

Dropped(s, t) ==
    /\ t.write_cursor <= s.write_cursor
    /\ t.read_cursor <= s.read_cursor
    /\ Same(s, t, 0, t.write_cursor)

Patched(s, t) ==
    /\ t.write_cursor = s.write_cursor
    /\ t.read_cursor = s.read_cursor
    /\ \E k \in 1..s.write_cursor : \A i \in (1..s.write_cursor) \ {k} : t.blob.mem[i] = s.blob.mem[i]

\* The space and the bytes that were there are still there.
NotLess(s, t) == t.write_cursor >= s.write_cursor /\ t.blob.size >= s.blob.size

\* The result of a call that leaves a sound stuffer.
Good(r) == r \in OutType /\ Sound(r.s)

-----------------------------------------------------------------------------
\* The bytes behind a, up to b.
Cut(m, a, b) == SubSeq(m, a + 1, b)

Past(s) == Cut(s.blob.mem, 0, s.read_cursor)
Rest(s) == Cut(s.blob.mem, s.read_cursor, s.write_cursor)
Whole(s) == Cut(s.blob.mem, 0, s.write_cursor)

\* A cut of a memory: its length and its bytes.
LEMMA Pieces ==
    ASSUME NEW m \in Seq(Cell), NEW a \in Nat, NEW b \in Nat, a <= b, b <= Len(m)
    PROVE  /\ Cut(m, a, b) \in Seq(Cell)
           /\ Len(Cut(m, a, b)) = b - a
           /\ \A i \in 1..(b - a) : Cut(m, a, b)[i] = m[a + i]
  BY DEF Cut

\* Two adjoining cuts make one.
LEMMA Joined ==
    ASSUME NEW m \in Seq(Cell), NEW a \in Nat, NEW b \in Nat, a <= b, b <= Len(m)
    PROVE  Cut(m, 0, a) \o Cut(m, a, b) = Cut(m, 0, b)
<1>1. 0 + 1 \in 1..(Len(m) + 1) /\ a \in ((0 + 1) - 1)..Len(m) /\ b \in a..Len(m)
  OBVIOUS
<1> QED BY <1>1, ConcatAdjacentSubSeq DEF Cut

\* A sequence whose bytes begin another is a prefix of it (IsPrefix of the
\* community modules compares subsequences).
LEMMA PrefixRule ==
    ASSUME NEW p \in Seq(Cell), NEW q \in Seq(Cell), Len(p) <= Len(q),
           \A i \in 1..Len(p) : q[i] = p[i]
    PROVE  IsPrefix(p, q)
<1> DEFINE t == Cut(q, 0, Len(p))
<1>1. t \in Seq(Cell) /\ Len(t) = Len(p) - 0 /\ \A i \in 1..(Len(p) - 0) : t[i] = q[0 + i]
  <2>1. 0 \in Nat /\ Len(p) \in Nat /\ 0 <= Len(p)
    OBVIOUS
  <2> QED BY <2>1, Pieces
<1> HIDE DEF t
<1>2. Len(t) = Len(p) /\ \A i \in 1..Len(p) : t[i] = p[i]
  BY <1>1
<1>3. t = p
  BY <1>1, <1>2, SeqEqual
<1>4. SubSeq(p, 1, Len(p)) = p
  BY SubSeqFull
<1>5. SubSeq(q, 1, Len(p)) = t
  BY DEF t, Cut
<1> QED BY <1>3, <1>4, <1>5 DEF IsPrefix

\* Two memories that agree from a to b, cut there, at a later place in the
\* second one, or at an earlier place in the first.
LEMMA CutSame ==
    ASSUME NEW m \in Seq(Cell), NEW n \in Seq(Cell), NEW a \in Nat, NEW b \in Nat,
           a <= b, b <= Len(m), b <= Len(n), \A i \in (a + 1)..b : n[i] = m[i]
    PROVE  Cut(n, a, b) = Cut(m, a, b)
<1> DEFINE p == Cut(m, a, b)
           q == Cut(n, a, b)
<1>1. p \in Seq(Cell) /\ Len(p) = b - a /\ \A i \in 1..(b - a) : p[i] = m[a + i]
  BY Pieces
<1>2. q \in Seq(Cell) /\ Len(q) = b - a /\ \A i \in 1..(b - a) : q[i] = n[a + i]
  BY Pieces
<1> HIDE DEF p, q
<1>3. \A i \in 1..(b - a) : q[i] = p[i]
  BY <1>1, <1>2
<1>4. q = p
  BY <1>1, <1>2, <1>3, SeqEqual
<1> QED BY <1>4 DEF p, q

\* A longer cut begins with a shorter one of a memory that agrees there.
LEMMA CutPrefix ==
    ASSUME NEW m \in Seq(Cell), NEW n \in Seq(Cell), NEW a \in Nat, NEW b \in Nat, NEW c \in Nat,
           a <= b, b <= c, b <= Len(m), c <= Len(n), \A i \in (a + 1)..b : n[i] = m[i]
    PROVE  IsPrefix(Cut(m, a, b), Cut(n, a, c))
<1> DEFINE p == Cut(m, a, b)
           q == Cut(n, a, c)
<1>1. p \in Seq(Cell) /\ Len(p) = b - a /\ \A i \in 1..(b - a) : p[i] = m[a + i]
  BY Pieces
<1>2. q \in Seq(Cell) /\ Len(q) = c - a /\ \A i \in 1..(c - a) : q[i] = n[a + i]
  <2>1. a <= c
    OBVIOUS
  <2> QED BY <2>1, Pieces
<1> HIDE DEF p, q
<1>3. Len(p) <= Len(q) /\ \A i \in 1..Len(p) : q[i] = p[i]
  BY <1>1, <1>2
<1>4. IsPrefix(p, q)
  BY <1>1, <1>2, <1>3, PrefixRule
<1> QED BY <1>4 DEF p, q

\* A later cut is the end of an earlier one of a memory that agrees there.
LEMMA CutSuffix ==
    ASSUME NEW m \in Seq(Cell), NEW n \in Seq(Cell), NEW a \in Nat, NEW b \in Nat, NEW c \in Nat,
           a <= c, c <= b, b <= Len(m), b <= Len(n), \A i \in (c + 1)..b : n[i] = m[i]
    PROVE  IsSuffix(Cut(n, c, b), Cut(m, a, b))
<1> DEFINE p == Cut(m, a, b)
           q == Cut(n, c, b)
<1>1. p \in Seq(Cell) /\ Len(p) = b - a /\ \A i \in 1..(b - a) : p[i] = m[a + i]
  <2>1. a <= b
    OBVIOUS
  <2> QED BY <2>1, Pieces
<1>2. q \in Seq(Cell) /\ Len(q) = b - c /\ \A i \in 1..(b - c) : q[i] = n[c + i]
  BY Pieces
<1> HIDE DEF p, q
<1>3. \A i \in 1..(b - c) : q[i] = p[i + (c - a)]
  BY <1>1, <1>2
<1> DEFINE u == Reverse(q)
           v == Reverse(p)
<1>4. u \in Seq(Cell) /\ Len(u) = b - c /\ \A i \in 1..(b - c) : u[i] = q[(b - c) - i + 1]
  BY <1>2 DEF Reverse
<1>5. v \in Seq(Cell) /\ Len(v) = b - a /\ \A i \in 1..(b - a) : v[i] = p[(b - a) - i + 1]
  BY <1>1 DEF Reverse
<1> HIDE DEF u, v
<1>6. \A i \in 1..(b - c) : v[i] = u[i]
  <2> TAKE i \in 1..(b - c)
  <2>1. (b - c) - i + 1 \in 1..(b - c) /\ ((b - c) - i + 1) + (c - a) = (b - a) - i + 1
        /\ i \in 1..(b - a)
    OBVIOUS
  <2> QED BY <1>3, <1>4, <1>5, <2>1
<1>7. Len(u) <= Len(v) /\ \A i \in 1..Len(u) : v[i] = u[i]
  BY <1>4, <1>5, <1>6
<1>8. IsPrefix(u, v)
  BY <1>4, <1>5, <1>7, PrefixRule
<1> QED BY <1>8 DEF u, v, p, q, IsSuffix

\* Where the cursors of a sound stuffer are.
LEMMA Cursors ==
    ASSUME NEW s, Sound(s)
    PROVE  /\ s.blob.mem \in Seq(Cell)
           /\ s.read_cursor \in Nat
           /\ s.write_cursor \in Nat
           /\ s.read_cursor <= s.write_cursor
           /\ s.write_cursor <= Len(s.blob.mem)
           /\ Len(s.blob.mem) \in Nat
  BY DEF Sound, StufferType, BlobType, BlobSound, s2n_stuffer_validate

\* Past and Rest of a sound stuffer, and that they make up what was written.
LEMMA Views ==
    ASSUME NEW s, Sound(s)
    PROVE  /\ Past(s) \in Seq(Cell) /\ Len(Past(s)) = s.read_cursor
           /\ Rest(s) \in Seq(Cell) /\ Len(Rest(s)) = s.write_cursor - s.read_cursor
           /\ Whole(s) \in Seq(Cell) /\ Len(Whole(s)) = s.write_cursor
           /\ Past(s) \o Rest(s) = Whole(s)
<1> DEFINE m == s.blob.mem
           a == s.read_cursor
           b == s.write_cursor
<1>1. m \in Seq(Cell) /\ a \in Nat /\ b \in Nat /\ a <= b /\ b <= Len(m) /\ Len(m) \in Nat
  BY Cursors
<1> HIDE DEF m, a, b
<1>z. 0 \in Nat /\ 0 <= a /\ 0 <= b /\ a <= Len(m)
  BY <1>1
<1>2. Cut(m, 0, a) \in Seq(Cell) /\ Len(Cut(m, 0, a)) = a - 0
  BY <1>1, <1>z, Pieces
<1>3. Cut(m, a, b) \in Seq(Cell) /\ Len(Cut(m, a, b)) = b - a
  BY <1>1, Pieces
<1>4. Cut(m, 0, b) \in Seq(Cell) /\ Len(Cut(m, 0, b)) = b - 0
  BY <1>1, <1>z, Pieces
<1>5. Cut(m, 0, a) \o Cut(m, a, b) = Cut(m, 0, b)
  BY <1>1, Joined
<1> QED BY <1>1, <1>2, <1>3, <1>4, <1>5 DEF m, a, b, Past, Rest, Whole

\* What keeps a stuffer keeps its queue.
LEMMA KeptIsSame ==
    ASSUME NEW s, NEW t, Sound(s), Sound(t), Kept(s, t)
    PROVE  Past(t) = Past(s) /\ Rest(t) = Rest(s)
<1> DEFINE m == s.blob.mem
           n == t.blob.mem
           a == s.read_cursor
           b == s.write_cursor
           c == t.read_cursor
           d == t.write_cursor
<1>1. /\ m \in Seq(Cell) /\ n \in Seq(Cell) /\ Len(m) \in Nat /\ Len(n) \in Nat
      /\ a \in Nat /\ b \in Nat /\ c \in Nat /\ d \in Nat
      /\ a <= b /\ b <= Len(m) /\ c <= d /\ d <= Len(n)
  BY Cursors
<1>2. c = a /\ d = b /\ \A i \in (0 + 1)..b : n[i] = m[i]
  BY DEF Kept, Same
<1> HIDE DEF m, n, a, b, c, d
<1>3. 0 \in Nat /\ 0 <= a /\ a <= Len(m) /\ a <= Len(n) /\ b <= Len(n)
      /\ (\A i \in (0 + 1)..a : n[i] = m[i]) /\ (\A i \in (a + 1)..b : n[i] = m[i])
  BY <1>1, <1>2
<1>4. Cut(n, 0, a) = Cut(m, 0, a)
  BY <1>1, <1>3, CutSame
<1>5. Cut(n, a, b) = Cut(m, a, b)
  BY <1>1, <1>3, CutSame
<1> QED BY <1>2, <1>4, <1>5 DEF m, n, a, b, c, d, Past, Rest

\* What appends to a stuffer appends to its queue.
LEMMA AppendedIsAppend ==
    ASSUME NEW s, NEW t, Sound(s), Sound(t), Appended(s, t)
    PROVE  Past(t) = Past(s) /\ IsPrefix(Rest(s), Rest(t))
<1> DEFINE m == s.blob.mem
           n == t.blob.mem
           a == s.read_cursor
           b == s.write_cursor
           c == t.read_cursor
           d == t.write_cursor
<1>1. /\ m \in Seq(Cell) /\ n \in Seq(Cell) /\ Len(m) \in Nat /\ Len(n) \in Nat
      /\ a \in Nat /\ b \in Nat /\ c \in Nat /\ d \in Nat
      /\ a <= b /\ b <= Len(m) /\ c <= d /\ d <= Len(n)
  BY Cursors
<1>2. c = a /\ d >= b /\ \A i \in (0 + 1)..b : n[i] = m[i]
  BY DEF Appended, Same
<1> HIDE DEF m, n, a, b, c, d
<1>3. 0 \in Nat /\ 0 <= a /\ a <= Len(m) /\ a <= Len(n) /\ b <= d
      /\ (\A i \in (0 + 1)..a : n[i] = m[i]) /\ (\A i \in (a + 1)..b : n[i] = m[i])
  <2>1. 0 \in Nat /\ 0 <= a /\ a <= Len(m) /\ a <= Len(n) /\ b <= d
    BY <1>1, <1>2
  <2>2. (0 + 1)..a \subseteq (0 + 1)..b /\ (a + 1)..b \subseteq (0 + 1)..b
    BY <1>1
  <2> QED BY <1>2, <2>1, <2>2, Zenon
<1>4. Cut(n, 0, a) = Cut(m, 0, a)
  BY <1>1, <1>3, CutSame
<1>5. IsPrefix(Cut(m, a, b), Cut(n, a, d))
  BY <1>1, <1>3, CutPrefix
<1> QED BY <1>2, <1>4, <1>5 DEF m, n, a, b, c, d, Past, Rest

\* What moves the read cursor moves the boundary of the queue.
LEMMA MovedIsMove ==
    ASSUME NEW s, NEW t, Sound(s), Sound(t), MovedTo(s, t)
    PROVE  Past(t) \o Rest(t) = Past(s) \o Rest(s)
<1> DEFINE m == s.blob.mem
           n == t.blob.mem
           a == s.read_cursor
           b == s.write_cursor
           c == t.read_cursor
           d == t.write_cursor
<1>1. /\ m \in Seq(Cell) /\ n \in Seq(Cell) /\ Len(m) \in Nat /\ Len(n) \in Nat
      /\ a \in Nat /\ b \in Nat /\ c \in Nat /\ d \in Nat
      /\ a <= b /\ b <= Len(m) /\ c <= d /\ d <= Len(n)
  BY Cursors
<1>2. d = b /\ \A i \in (0 + 1)..b : n[i] = m[i]
  BY DEF MovedTo, Same
<1> HIDE DEF m, n, a, b, c, d
<1>3. 0 \in Nat /\ 0 <= b /\ b <= Len(n)
  BY <1>1, <1>2
<1>4. Cut(n, 0, b) = Cut(m, 0, b)
  BY <1>1, <1>2, <1>3, CutSame
<1> QED BY <1>2, <1>4, Views DEF m, n, a, b, c, d, Whole

\* What drops the end of a stuffer drops the end of its queue.
LEMMA DroppedIsDrop ==
    ASSUME NEW s, NEW t, Sound(s), Sound(t), Dropped(s, t)
    PROVE  /\ IsPrefix(Past(t) \o Rest(t), Past(s) \o Rest(s))
           /\ IsPrefix(Past(t), Past(s))
<1> DEFINE m == s.blob.mem
           n == t.blob.mem
           a == s.read_cursor
           b == s.write_cursor
           c == t.read_cursor
           d == t.write_cursor
<1>1. /\ m \in Seq(Cell) /\ n \in Seq(Cell) /\ Len(m) \in Nat /\ Len(n) \in Nat
      /\ a \in Nat /\ b \in Nat /\ c \in Nat /\ d \in Nat
      /\ a <= b /\ b <= Len(m) /\ c <= d /\ d <= Len(n)
  BY Cursors
<1>2. d <= b /\ c <= a /\ \A i \in (0 + 1)..d : m[i] = n[i]
  BY DEF Dropped, Same
<1> HIDE DEF m, n, a, b, c, d
<1>3. 0 \in Nat /\ 0 <= d /\ 0 <= c /\ c <= Len(n) /\ a <= Len(m)
      /\ \A i \in (0 + 1)..c : m[i] = n[i]
  BY <1>1, <1>2
<1>4. IsPrefix(Cut(n, 0, d), Cut(m, 0, b))
  BY <1>1, <1>2, <1>3, CutPrefix
<1>5. IsPrefix(Cut(n, 0, c), Cut(m, 0, a))
  BY <1>1, <1>2, <1>3, CutPrefix
<1>6. Past(t) \o Rest(t) = Cut(n, 0, d) /\ Past(s) \o Rest(s) = Cut(m, 0, b)
  BY Views DEF m, n, b, d, Whole
<1>7. Past(t) = Cut(n, 0, c) /\ Past(s) = Cut(m, 0, a)
  BY DEF m, n, a, c, Past
<1> QED BY <1>4, <1>5, <1>6, <1>7

\* What erases and reads a stuffer erases and reads its queue.
LEMMA ErasedIsErase ==
    ASSUME NEW s, NEW t, Sound(s), Sound(t), Erased(s, t)
    PROVE  /\ IsSuffix(Rest(t), Rest(s))
           /\ IsPrefix(Past(s), Past(t))
           /\ Len(Past(t) \o Rest(t)) = Len(Past(s) \o Rest(s))
           /\ \A i \in (Len(Past(s)) + 1)..Len(Past(t)) : Past(t)[i] = 0
<1> DEFINE m == s.blob.mem
           n == t.blob.mem
           a == s.read_cursor
           b == s.write_cursor
           c == t.read_cursor
           d == t.write_cursor
<1>1. /\ m \in Seq(Cell) /\ n \in Seq(Cell) /\ Len(m) \in Nat /\ Len(n) \in Nat
      /\ a \in Nat /\ b \in Nat /\ c \in Nat /\ d \in Nat
      /\ a <= b /\ b <= Len(m) /\ c <= d /\ d <= Len(n)
  BY Cursors
<1>2. /\ d = b /\ c >= a
      /\ \A i \in (0 + 1)..a : n[i] = m[i]
      /\ \A i \in (c + 1)..b : n[i] = m[i]
      /\ \A i \in (a + 1)..c : n[i] = 0
  BY DEF Erased, Same
<1> HIDE DEF m, n, a, b, c, d
<1>3. 0 \in Nat /\ a <= c /\ c <= b /\ b <= Len(n) /\ 0 <= a /\ 0 <= c /\ a <= Len(m) /\ c <= Len(n)
  BY <1>1, <1>2
<1>4. IsSuffix(Cut(n, c, b), Cut(m, a, b))
  BY <1>1, <1>2, <1>3, CutSuffix
<1>5. IsPrefix(Cut(m, 0, a), Cut(n, 0, c))
  BY <1>1, <1>2, <1>3, CutPrefix
<1>6. Len(Past(t) \o Rest(t)) = Len(Past(s) \o Rest(s))
  BY <1>2, Views DEF b, d
<1>7. \A i \in (a + 1)..c : Cut(n, 0, c)[i] = 0
  <2>1. \A i \in 1..(c - 0) : Cut(n, 0, c)[i] = n[0 + i]
    BY <1>1, <1>3, Pieces, ZenonT(60)
  <2> QED BY <1>1, <1>2, <2>1
<1>8. Len(Past(s)) = a /\ Len(Past(t)) = c
  BY Views DEF a, c
<1>9. IsSuffix(Rest(t), Rest(s)) /\ IsPrefix(Past(s), Past(t))
  BY <1>2, <1>4, <1>5 DEF m, n, a, b, c, d, Past, Rest
<1>10. Past(t) = Cut(n, 0, c)
  BY DEF n, c, Past
<1>11. \A i \in (Len(Past(s)) + 1)..Len(Past(t)) : Past(t)[i] = 0
  BY <1>7, <1>8, <1>10
<1> QED BY <1>6, <1>9, <1>11

\* What changes one byte of a stuffer changes one of its queue.
LEMMA PatchedIsPatch ==
    ASSUME NEW s, NEW t, Sound(s), Sound(t), Patched(s, t)
    PROVE  /\ Len(Past(t)) = Len(Past(s)) /\ Len(Rest(t)) = Len(Rest(s))
           /\ \E k \in 1..Len(Past(s) \o Rest(s)) :
                 \A i \in (1..Len(Past(s) \o Rest(s))) \ {k} :
                     (Past(t) \o Rest(t))[i] = (Past(s) \o Rest(s))[i]
<1> DEFINE m == s.blob.mem
           n == t.blob.mem
           a == s.read_cursor
           b == s.write_cursor
           c == t.read_cursor
           d == t.write_cursor
<1>1. /\ m \in Seq(Cell) /\ n \in Seq(Cell) /\ Len(m) \in Nat /\ Len(n) \in Nat
      /\ a \in Nat /\ b \in Nat /\ c \in Nat /\ d \in Nat
      /\ a <= b /\ b <= Len(m) /\ c <= d /\ d <= Len(n)
  BY Cursors
<1>2. PICK k \in 1..b : \A i \in (1..b) \ {k} : n[i] = m[i]
  BY DEF Patched
<1>3. c = a /\ d = b
  BY DEF Patched
<1> HIDE DEF m, n, a, b, c, d
<1>4. 0 \in Nat /\ 0 <= b /\ b <= Len(n)
  BY <1>1, <1>3
<1>5. \A i \in 1..(b - 0) : Cut(m, 0, b)[i] = m[0 + i]
  BY <1>1, <1>4, Pieces, SMTT(60)
<1>6. \A i \in 1..(b - 0) : Cut(n, 0, b)[i] = n[0 + i]
  BY <1>1, <1>4, Pieces, ZenonT(60)
<1>7. \A i \in (1..b) \ {k} : Cut(n, 0, b)[i] = Cut(m, 0, b)[i]
  BY <1>1, <1>2, <1>5, <1>6
<1>8. Past(s) \o Rest(s) = Cut(m, 0, b) /\ Past(t) \o Rest(t) = Cut(n, 0, b) /\ Len(Cut(m, 0, b)) = b
  BY <1>3, Views DEF m, n, b, d, Whole
<1>9. Len(Past(t)) = Len(Past(s)) /\ Len(Rest(t)) = Len(Rest(s))
  BY <1>3, Views DEF a, b, c, d
<1> QED BY <1>7, <1>8, <1>9
-----------------------------------------------------------------------------
\* Fresh and wiped bytes can be in memory.
LEMMA Cells == Harmless \subseteq Cell /\ WIPE \in Cell /\ Int \subseteq Cell
  BY StufferConstants DEF Harmless, WIPE, Cell

\* s2n_align_to rounds up.
LEMMA Aligned ==
    ASSUME NEW n \in Nat, n > 0
    PROVE  s2n_align_to(n) \in Nat /\ s2n_align_to(n) >= n
<1> DEFINE q == (n - 1) \div PageSize
           r == (n - 1) % PageSize
<1>1. PageSize \in Nat /\ PageSize > 0
  BY StufferConstants
<1>2. n - 1 = PageSize * q + r /\ r < PageSize /\ q \in Nat /\ r \in Nat
  BY <1>1
<1>3. s2n_align_to(n) = PageSize * (q + 1)
  BY DEF s2n_align_to
<1> HIDE DEF q, r
<1>4. PageSize * (q + 1) = PageSize * q + PageSize /\ PageSize * q \in Nat
  BY <1>1, <1>2
<1> QED BY <1>1, <1>2, <1>3, <1>4

\* What memset writes (Fill).
LEMMA Filled ==
    ASSUME NEW m \in Seq(Cell), NEW from \in Nat, NEW to \in Nat, NEW v \in Cell
    PROVE  /\ Fill(m, from, to, v) \in Seq(Cell)
           /\ Len(Fill(m, from, to, v)) = Len(m)
           /\ \A i \in 1..Len(m) :
                 Fill(m, from, to, v)[i] = IF i > from /\ i <= to THEN v ELSE m[i]
<1>1. DOMAIN m = 1..Len(m) /\ Len(m) \in Nat /\ \A i \in 1..Len(m) : m[i] \in Cell
  BY ElementOfSeq
<1> QED BY <1>1 DEF Fill

\* What memcpy writes (Put).
LEMMA PutIn ==
    ASSUME NEW m \in Seq(Cell), NEW from \in Nat, NEW bytes \in Seq(Cell)
    PROVE  /\ Put(m, from, bytes) \in Seq(Cell)
           /\ Len(Put(m, from, bytes)) = Len(m)
           /\ \A i \in 1..Len(m) :
                 Put(m, from, bytes)[i] = IF i > from /\ i <= from + Len(bytes)
                                          THEN bytes[i - from] ELSE m[i]
<1>1. DOMAIN m = 1..Len(m) /\ Len(m) \in Nat /\ \A i \in 1..Len(m) : m[i] \in Cell
  BY ElementOfSeq
<1>2. \A i \in 1..Len(m) : i > from /\ i <= from + Len(bytes) => bytes[i - from] \in Cell
  <2>1. \A j \in 1..Len(bytes) : bytes[j] \in Cell
    BY ElementOfSeq
  <2> QED BY <1>1, <2>1
<1> QED BY <1>1, <1>2 DEF Put

\* No memory.
LEMMA EmptyMemory == <<>> \in Seq(Cell) /\ Len(<<>>) = 0
  BY EmptySeq

\* The empty blob is sound, and may grow.
LEMMA NoBlobSound == BlobSound(NoBlob) /\ s2n_blob_is_growable(NoBlob)
  BY EmptyMemory DEF BlobSound, NoBlob, BlobType, s2n_blob_is_growable

\* s2n_blob_zero leaves only zeros in a blob that the allocator made: it
\* covers the allocated bytes, not just the used ones.
LEMMA ZeroedWhole ==
    ASSUME NEW b, BlobSound(b), s2n_blob_is_growable(b)
    PROVE  Range(s2n_blob_zero(b).mem) \subseteq {0}
<1> DEFINE m == b.mem
           top == Larger(b.allocated, b.size)
           z == Fill(m, 0, top, 0)
<1>1. m \in Seq(Cell) /\ Len(m) \in Nat /\ top \in Nat /\ top >= Len(m)
  BY EmptyMemory DEF BlobSound, BlobType, s2n_blob_is_growable, NoBlob, Larger
<1>2. s2n_blob_zero(b).mem = z
  BY DEF s2n_blob_zero, BlobSound, BlobType
<1> HIDE DEF m, top
<1>3. z \in Seq(Cell) /\ Len(z) = Len(m) /\ \A i \in 1..Len(m) : z[i] = 0
  <2>1. 0 \in Nat /\ 0 \in Cell
    BY Cells
  <2>2. /\ z \in Seq(Cell) /\ Len(z) = Len(m)
        /\ \A i \in 1..Len(m) : z[i] = IF i > 0 /\ i <= top THEN 0 ELSE m[i]
    BY <1>1, <2>1, Filled
  <2> HIDE DEF z
  <2> QED BY <1>1, <2>2
<1> HIDE DEF z
<1>4. DOMAIN z = 1..Len(m)
  BY <1>3
<1>5. Range(z) \subseteq {0}
  BY <1>3, <1>4 DEF Range
<1> QED BY <1>2, <1>5

\* s2n_free of an allocated blob succeeds and gives back only zeros.
LEMMA Freed ==
    ASSUME NEW b, BlobSound(b), s2n_blob_is_growable(b)
    PROVE  s2n_free(b).ok = TRUE /\ s2n_free(b).blob = NoBlob /\ s2n_free(b).rel \subseteq {0}
  BY ZeroedWhole DEF s2n_free, Blob
\* Growing a blob keeps its bytes and adds harmless ones.
LEMMA Reallocated ==
    ASSUME NEW b, BlobSound(b), s2n_blob_is_growable(b), NEW n \in Nat, n >= b.size,
           NEW malloc \in BOOLEAN, NEW r, r = s2n_realloc(b, n, malloc)
    PROVE  /\ r.ok \in BOOLEAN /\ r.rel \subseteq {0}
           /\ BlobSound(r.blob) /\ s2n_blob_is_growable(r.blob)
           /\ ~r.ok => r.blob = b
           /\ r.ok => /\ r.blob.size = n
                      /\ \A i \in 1..b.size : r.blob.mem[i] = b.mem[i]
                      /\ \A i \in 1..Len(r.blob.mem) :
                                i > b.size => r.blob.mem[i] = 0 \/ (i <= Len(b.mem) /\ r.blob.mem[i] = b.mem[i])
<1>0. b \in BlobType /\ b.mem \in Seq(Cell) /\ Len(b.mem) \in Nat /\ b.size \in Nat
      /\ b.allocated \in Nat /\ b.growable \in BOOLEAN /\ b.size <= Len(b.mem)
  BY DEF BlobSound, BlobType
<1>1. CASE n = 0
  <2>1. r = s2n_free(b)
    BY <1>1 DEF s2n_realloc
  <2>2. r.ok = TRUE /\ r.blob = NoBlob /\ r.rel \subseteq {0}
    BY <2>1, Freed
  <2>3. b.size = 0
    BY <1>0, <1>1
  <2>4. r.blob.size = 0 /\ r.blob.mem = <<>>
    BY <2>2 DEF NoBlob
  <2>5. 1..b.size = {} /\ 1..Len(r.blob.mem) = {}
    BY <2>3, <2>4, EmptyMemory
  <2> QED BY <1>1, <2>2, <2>4, <2>5, NoBlobSound
<1>2. CASE n > 0 /\ n <= b.allocated
  <2>1. r = Blob(TRUE, [b EXCEPT !.mem = Fill(b.mem, n, b.size, 0), !.size = n], {})
    BY <1>0, <1>2, SMTT(30) DEF s2n_realloc, Blob
  <2> DEFINE m == Fill(b.mem, n, b.size, 0)
  <2>2. 0 \in Cell
    BY Cells
  <2>3. m \in Seq(Cell) /\ Len(m) = Len(b.mem)
        /\ \A i \in 1..Len(b.mem) : m[i] = IF i > n /\ i <= b.size THEN 0 ELSE b.mem[i]
    <3> DEFINE mem == b.mem
               size == b.size
               zero == 0
               f == Fill(mem, n, size, zero)
    <3>1. mem \in Seq(Cell) /\ size \in Nat /\ zero \in Cell
      BY <1>0, <2>2
    <3> HIDE DEF mem, size, zero, f
    <3>2. /\ f \in Seq(Cell) /\ Len(f) = Len(mem)
          /\ \A i \in 1..Len(mem) : f[i] = IF i > n /\ i <= size THEN zero ELSE mem[i]
      BY <3>1, Filled, ZenonT(60) DEF f
    <3> QED BY <3>2, Zenon DEF mem, size, zero, f
  <2> HIDE DEF m
  <2>4. r.ok = TRUE /\ r.rel = {} /\ r.blob = [b EXCEPT !.mem = m, !.size = n]
    BY <2>1 DEF m, Blob
  <2>5. r.blob \in BlobType /\ r.blob.mem = m /\ r.blob.size = n /\ r.blob.allocated = b.allocated
        /\ r.blob.growable = b.growable
    BY <1>0, <2>3, <2>4 DEF BlobType
  <2>6. b.growable /\ b.allocated = Len(b.mem)
    BY <1>2 DEF s2n_blob_is_growable, NoBlob, BlobSound
  <2>7. BlobSound(r.blob) /\ s2n_blob_is_growable(r.blob)
    BY <1>2, <2>3, <2>5, <2>6 DEF BlobSound, s2n_blob_is_growable
  <2>8. \A i \in 1..Len(b.mem) : m[i] = b.mem[i]
    BY <1>0, <2>3
  <2>9. /\ \A i \in 1..b.size : r.blob.mem[i] = b.mem[i]
        /\ \A i \in 1..Len(r.blob.mem) : i <= Len(b.mem) /\ r.blob.mem[i] = b.mem[i]
    BY <1>0, <2>3, <2>5, <2>8
  <2> QED BY <2>4, <2>5, <2>7, <2>9
<1>3. CASE n > 0 /\ ~(n <= b.allocated)
  <2> DEFINE fresh == [i \in 1..s2n_align_to(n) |-> IF i <= b.size THEN b.mem[i] ELSE UNINIT]
             t == [mem |-> fresh, size |-> n, allocated |-> Len(fresh), growable |-> TRUE]
  <2>1. r = IF s2n_mem_malloc_mlock_impl(n, malloc)
            THEN Blob(TRUE, t, Range(s2n_blob_zero(b).mem))
            ELSE Blob(FALSE, b, {})
    <3>1. n # 0
      BY <1>3
    <3> QED BY <1>3, <3>1, Zenon DEF s2n_realloc
  <2>2. s2n_align_to(n) \in Nat /\ s2n_align_to(n) >= n
    BY <1>3, Aligned
  <2>3. fresh \in Seq(Cell) /\ Len(fresh) = s2n_align_to(n)
        /\ \A i \in 1..s2n_align_to(n) : fresh[i] = IF i <= b.size THEN b.mem[i] ELSE 0
    <3>1. \A i \in 1..b.size : b.mem[i] \in Cell
      BY <1>0, ElementOfSeq
    <3>2. 0 \in Cell
      BY Cells
    <3> QED BY <1>0, <2>2, <3>1, <3>2 DEF UNINIT
  <2> HIDE DEF fresh
  <2>4. t \in BlobType /\ t.mem = fresh /\ t.size = n /\ t.allocated = Len(fresh) /\ t.growable = TRUE
    BY <2>2, <2>3 DEF BlobType
  <2> HIDE DEF t
  <2>5. BlobSound(t) /\ s2n_blob_is_growable(t)
    BY <2>2, <2>3, <2>4 DEF BlobSound, s2n_blob_is_growable
  <2>6. /\ \A i \in 1..b.size : t.mem[i] = b.mem[i]
        /\ \A i \in 1..Len(t.mem) : i > b.size => t.mem[i] = 0
    BY <1>0, <2>2, <2>3, <2>4
  <2>7. CASE s2n_mem_malloc_mlock_impl(n, malloc)
    <3>1. r.ok = TRUE /\ r.blob = t /\ r.rel \subseteq {0}
      BY <2>1, <2>7, ZeroedWhole DEF Blob
    <3> QED BY <2>4, <2>5, <2>6, <3>1
  <2>8. CASE ~s2n_mem_malloc_mlock_impl(n, malloc)
    <3>1. r.ok = FALSE /\ r.blob = b /\ r.rel = {}
      BY <2>1, <2>8 DEF Blob
    <3> QED BY <3>1
  <2> QED BY <2>7, <2>8
<1> QED BY <1>0, <1>1, <1>2, <1>3
-----------------------------------------------------------------------------
\* The result of a call is good if its parts are.
LEMMA OutIsGood ==
    ASSUME NEW ok \in BOOLEAN, NEW s, Sound(s), NEW rel \in SUBSET Harmless
    PROVE  /\ Good(Out(ok, s, rel))
           /\ Out(ok, s, rel).ok = ok /\ Out(ok, s, rel).s = s /\ Out(ok, s, rel).rel = rel
  BY DEF Out, Good, OutType, Sound

\* The results that only change, or keep, the stuffer.
LEMMA OkNo ==
    ASSUME NEW s, Sound(s)
    PROVE  /\ Good(Ok(s)) /\ Ok(s).ok = TRUE /\ Ok(s).s = s
           /\ Good(No(s)) /\ No(s).ok = FALSE /\ No(s).s = s
  BY DEF Ok, No, Out, Good, OutType, Sound

\* A stuffer that is left alone is kept, in every sense.
LEMMA Itself ==
    ASSUME NEW s, Sound(s)
    PROVE  /\ Kept(s, s) /\ Appended(s, s) /\ MovedTo(s, s) /\ Dropped(s, s) /\ NotLess(s, s)
  BY DEF Kept, Appended, MovedTo, Dropped, Same, NotLess, Sound, StufferType, BlobType

\* What Sound says of each field.
LEMMA Fields ==
    ASSUME NEW s, Sound(s)
    PROVE  /\ s \in StufferType /\ BlobSound(s.blob) /\ s.blob \in BlobType
           /\ s.blob.mem \in Seq(Cell) /\ Len(s.blob.mem) \in Nat /\ s.blob.size \in Nat
           /\ s.read_cursor \in Nat /\ s.write_cursor \in Nat /\ s.high_water_mark \in Nat
           /\ s.read_cursor <= s.write_cursor /\ s.write_cursor <= s.high_water_mark
           /\ s.high_water_mark <= s.blob.size /\ s.blob.size <= Len(s.blob.mem)
           /\ s.alloced \in BOOLEAN /\ s.growable \in BOOLEAN /\ s.tainted \in BOOLEAN
           /\ s.growable => s.alloced
           /\ s.alloced => s2n_blob_is_growable(s.blob)
           /\ \A i \in 1..Len(s.blob.mem) : i > s.high_water_mark => s.blob.mem[i] \in Harmless
  BY DEF Sound, StufferType, BlobSound, BlobType, s2n_stuffer_validate

\* A stuffer that holds a blob with the bytes of its own and more room.
LEMMA Held ==
    ASSUME NEW s, Sound(s), NEW b, BlobSound(b), s2n_blob_is_growable(b), b.size >= s.blob.size,
           \A i \in 1..s.blob.size : b.mem[i] = s.blob.mem[i],
           \A i \in 1..Len(b.mem) : i > s.blob.size =>
                b.mem[i] = 0 \/ (i <= Len(s.blob.mem) /\ b.mem[i] = s.blob.mem[i]),
           NEW t, t = [s EXCEPT !.blob = b]
    PROVE  Sound(t) /\ Kept(s, t) /\ NotLess(s, t) /\ t.blob = b
<1>1. /\ t \in StufferType /\ t.blob = b /\ t.read_cursor = s.read_cursor
      /\ t.write_cursor = s.write_cursor /\ t.high_water_mark = s.high_water_mark
      /\ t.alloced = s.alloced /\ t.growable = s.growable
  BY Fields DEF StufferType, BlobSound
<1>2. b.mem \in Seq(Cell) /\ Len(b.mem) \in Nat /\ b.size \in Nat /\ b.size <= Len(b.mem)
  BY DEF BlobSound, BlobType
<1>3. \A i \in 1..Len(b.mem) : i > s.high_water_mark => b.mem[i] \in Harmless
  <2> SUFFICES ASSUME NEW i \in 1..Len(b.mem), i > s.high_water_mark
               PROVE  b.mem[i] \in Harmless
    OBVIOUS
  <2>1. CASE i <= s.blob.size
    <3>1. i \in 1..Len(s.blob.mem) /\ i \in 1..s.blob.size
      BY <1>2, <2>1, Fields
    <3> QED BY <3>1, Fields
  <2>2. CASE i > s.blob.size
    <3>1. b.mem[i] = 0 \/ (i \in 1..Len(s.blob.mem) /\ b.mem[i] = s.blob.mem[i])
      BY <1>2, <2>2, Fields
    <3> QED BY <3>1, Fields DEF Harmless
  <2> QED BY <1>2, <2>1, <2>2, Fields
<1>4. s2n_stuffer_validate(t)
  BY <1>1, <1>2, Fields DEF s2n_stuffer_validate
<1>5. Sound(t)
  BY <1>1, <1>3, <1>4 DEF Sound
<1>6. \A i \in (0 + 1)..s.write_cursor : b.mem[i] = s.blob.mem[i]
  BY Fields
<1> QED BY <1>1, <1>5, <1>6, Fields DEF Kept, Same, NotLess

\* Holding, with its value computed.
LEMMA HoldingIs ==
    ASSUME NEW s, NEW x
    PROVE  Holding(s, x) = Out(x.ok, [s EXCEPT !.blob = x.blob], x.rel)
  BY DEF Holding, With

\* Reallocating the blob of a stuffer.
LEMMA Regrown ==
    ASSUME NEW s, Sound(s), s.growable, NEW n \in Nat, n >= s.blob.size, NEW malloc \in BOOLEAN,
           NEW r, r = Holding(s, s2n_realloc(s.blob, n, malloc))
    PROVE  Good(r) /\ Kept(s, r.s) /\ NotLess(s, r.s) /\ (r.ok => r.s.blob.size = n)
<1> DEFINE x == s2n_realloc(s.blob, n, malloc)
           t == [s EXCEPT !.blob = x.blob]
<1>0. BlobSound(s.blob) /\ s2n_blob_is_growable(s.blob)
  BY Fields
<1>1. /\ x.ok \in BOOLEAN /\ x.rel \subseteq {0}
      /\ BlobSound(x.blob) /\ s2n_blob_is_growable(x.blob)
      /\ ~x.ok => x.blob = s.blob
      /\ x.ok => /\ x.blob.size = n
                 /\ \A i \in 1..s.blob.size : x.blob.mem[i] = s.blob.mem[i]
                 /\ \A i \in 1..Len(x.blob.mem) :
                       i > s.blob.size => x.blob.mem[i] = 0 \/ (i <= Len(s.blob.mem) /\ x.blob.mem[i] = s.blob.mem[i])
  BY <1>0, Reallocated
<1>2. r = Out(x.ok, t, x.rel)
  BY HoldingIs
<1> HIDE DEF x
<1>3. x.rel \in SUBSET Harmless
  BY <1>1 DEF Harmless
<1>4. CASE x.ok
  <2> HIDE DEF t
  <2>1. x.blob.size >= s.blob.size
    BY <1>1, <1>4
  <2>2. Sound(t) /\ Kept(s, t) /\ NotLess(s, t) /\ t.blob = x.blob
    BY <1>1, <1>4, <2>1, Held DEF t
  <2>3. Good(r) /\ r.ok = x.ok /\ r.s = t
    BY <1>1, <1>2, <1>3, <2>2, OutIsGood
  <2> QED BY <1>1, <1>4, <2>2, <2>3
<1>5. CASE ~x.ok
  <2>1. t = s
    BY <1>1, <1>5, Fields DEF StufferType
  <2> HIDE DEF t
  <2>2. Good(r) /\ r.ok = x.ok /\ r.s = s
    BY <1>1, <1>2, <1>3, <2>1, OutIsGood
  <2> QED BY <1>5, <2>2, Itself
<1> QED BY <1>1, <1>4, <1>5

\* s2n_stuffer_wipe drops everything and leaves no byte above the mark.
LEMMA Wiped ==
    ASSUME NEW s, Sound(s), NEW t, t = s2n_stuffer_wipe(s)
    PROVE  Sound(t) /\ Dropped(s, t) /\ t.blob.size = s.blob.size /\ t.growable = s.growable
<1> DEFINE m == s.blob.mem
           h == s.high_water_mark
           n == Fill(m, 0, h, WIPE)
<1>1. m \in Seq(Cell) /\ h \in Nat /\ WIPE \in Cell /\ 0 \in Nat
  BY Fields, Cells
<1> HIDE DEF m, h
<1>2. /\ n \in Seq(Cell) /\ Len(n) = Len(m)
      /\ \A i \in 1..Len(m) : n[i] = IF i > 0 /\ i <= h THEN WIPE ELSE m[i]
  BY <1>1, Filled
<1>3. t = [s EXCEPT !.blob.mem = n, !.tainted = FALSE,
                    !.read_cursor = 0, !.write_cursor = 0, !.high_water_mark = 0]
  BY DEF s2n_stuffer_wipe, m, h
<1> HIDE DEF n
<1>4. /\ t.blob = [s.blob EXCEPT !.mem = n] /\ t.read_cursor = 0 /\ t.write_cursor = 0
      /\ t.high_water_mark = 0 /\ t.alloced = s.alloced /\ t.growable = s.growable
      /\ t \in StufferType
  <2>1. s \in StufferType /\ s.blob \in BlobType
    BY Fields
  <2>2. /\ t.blob = [s.blob EXCEPT !.mem = n] /\ t.read_cursor = 0 /\ t.write_cursor = 0
        /\ t.high_water_mark = 0 /\ t.alloced = s.alloced /\ t.growable = s.growable
    BY <1>3, <2>1 DEF StufferType
  <2>3. [s.blob EXCEPT !.mem = n] \in BlobType
    BY <1>2, <2>1 DEF BlobType
  <2> DEFINE e == [s.blob EXCEPT !.mem = n]
  <2>4. t = [s EXCEPT !.blob = e, !.tainted = FALSE,
                      !.read_cursor = 0, !.write_cursor = 0, !.high_water_mark = 0]
    BY <1>3, <2>1 DEF StufferType
  <2>5. e \in BlobType
    BY <2>3
  <2> HIDE DEF e
  <2>6. \A f \in BOOLEAN :
           [s EXCEPT !.blob = e, !.tainted = f,
                     !.read_cursor = 0, !.write_cursor = 0, !.high_water_mark = 0] \in StufferType
    BY <2>1, <2>5 DEF StufferType
  <2>7. t \in StufferType
    BY <2>4, <2>6
  <2> QED BY <2>2, <2>7
<1>5. /\ t.blob.mem = n /\ t.blob.size = s.blob.size /\ t.blob.allocated = s.blob.allocated
      /\ t.blob.growable = s.blob.growable
  BY <1>4, Fields DEF BlobType
<1>6. \A i \in 1..Len(n) : n[i] \in Harmless
  <2>1. \A i \in 1..Len(m) : i > h => m[i] \in Harmless
    BY Fields DEF m, h
  <2> QED BY <1>1, <1>2, <2>1 DEF Harmless
<1>7. BlobSound(t.blob)
  BY <1>2, <1>4, <1>5, Fields, SMTT(60) DEF BlobSound, StufferType, m
<1>8. s2n_blob_is_growable(s.blob) => s2n_blob_is_growable(t.blob)
  <2>1. s.blob = NoBlob => Len(n) = 0
    BY <1>2, EmptyMemory DEF NoBlob, m
  <2>2. Len(n) = 0 => n = <<>>
    BY <1>2, EmptySeq
  <2>3. s.blob = NoBlob => t.blob = NoBlob
    BY <1>4, <2>1, <2>2 DEF NoBlob
  <2> QED BY <1>5, <2>3 DEF s2n_blob_is_growable
<1>9. s2n_stuffer_validate(t)
  BY <1>4, <1>5, Fields DEF s2n_stuffer_validate
<1>10. Sound(t)
  BY <1>4, <1>5, <1>6, <1>7, <1>8, <1>9, Fields DEF Sound
<1>11. Dropped(s, t)
  BY <1>4, Fields DEF Dropped, Same
<1> QED BY <1>4, <1>5, <1>10, <1>11

\* Cutting the end of the blob off.
LEMMA CutOff ==
    ASSUME NEW s, Sound(s), NEW n \in Nat, n > 0, n < s.blob.size,
           NEW t, t = [s EXCEPT !.blob.mem = Fill(s.blob.mem, n, s.blob.size, WIPE),
                                !.blob.size = n,
                                !.read_cursor = Lesser(s.read_cursor, n),
                                !.write_cursor = Lesser(s.write_cursor, n),
                                !.high_water_mark = Lesser(s.high_water_mark, n)]
    PROVE  Sound(t) /\ Dropped(s, t)
<1> DEFINE m == s.blob.mem
           z == s.blob.size
           f == Fill(m, n, z, WIPE)
<1>1. m \in Seq(Cell) /\ z \in Nat /\ WIPE \in Cell /\ Len(m) \in Nat /\ z <= Len(m)
  BY Fields, Cells
<1>2. t = [s EXCEPT !.blob.mem = f, !.blob.size = n,
                    !.read_cursor = Lesser(s.read_cursor, n),
                    !.write_cursor = Lesser(s.write_cursor, n),
                    !.high_water_mark = Lesser(s.high_water_mark, n)]
  OBVIOUS
<1> HIDE DEF m, z
<1>3. /\ f \in Seq(Cell) /\ Len(f) = Len(m)
      /\ \A i \in 1..Len(m) : f[i] = IF i > n /\ i <= z THEN WIPE ELSE m[i]
  <2>1. m \in Seq(Cell) /\ n \in Nat /\ z \in Nat /\ WIPE \in Cell
    BY <1>1
  <2> QED BY <2>1, Filled
<1> HIDE DEF f
<1>4. /\ t.blob = [s.blob EXCEPT !.mem = f, !.size = n]
      /\ t.read_cursor = Lesser(s.read_cursor, n) /\ t.write_cursor = Lesser(s.write_cursor, n)
      /\ t.high_water_mark = Lesser(s.high_water_mark, n)
      /\ t.alloced = s.alloced /\ t.growable = s.growable /\ t \in StufferType
  <2>1. s \in StufferType /\ s.blob \in BlobType
    BY Fields
  <2>2. /\ t.blob = [s.blob EXCEPT !.mem = f, !.size = n]
        /\ t.read_cursor = Lesser(s.read_cursor, n) /\ t.write_cursor = Lesser(s.write_cursor, n)
        /\ t.high_water_mark = Lesser(s.high_water_mark, n)
        /\ t.alloced = s.alloced /\ t.growable = s.growable
    BY <1>2, <2>1 DEF StufferType
  <2>3. [s.blob EXCEPT !.mem = f, !.size = n] \in BlobType
    BY <1>3, <2>1 DEF BlobType
  <2>4. Lesser(s.read_cursor, n) \in Nat /\ Lesser(s.write_cursor, n) \in Nat
        /\ Lesser(s.high_water_mark, n) \in Nat
    BY <2>1 DEF Lesser, StufferType
  <2> QED BY <1>2, <2>1, <2>2, <2>3, <2>4, ZenonT(60) DEF StufferType
<1>5. /\ t.blob.mem = f /\ t.blob.size = n /\ t.blob.allocated = s.blob.allocated
      /\ t.blob.growable = s.blob.growable /\ t.blob \in BlobType
  <2>1. s.blob \in BlobType
    BY Fields
  <2>2. t.blob \in BlobType
    BY <1>4 DEF StufferType
  <2>3. t.blob = [s.blob EXCEPT !.mem = f, !.size = n]
    BY <1>4
  <2> QED BY <2>1, <2>2, <2>3, ZenonT(60) DEF BlobType
<1>6. \A i \in 1..Len(f) : i > t.high_water_mark => f[i] \in Harmless
  <2>1. \A i \in 1..Len(m) : i > s.high_water_mark => m[i] \in Harmless
    BY Fields DEF m
  <2>2. t.high_water_mark = s.high_water_mark \/ t.high_water_mark = n
    BY <1>4 DEF Lesser
  <2>3. s.high_water_mark <= z /\ s.high_water_mark \in Nat
    BY Fields DEF z
  <2> QED BY <1>1, <1>3, <2>1, <2>2, <2>3 DEF Harmless
<1>7. BlobSound(t.blob)
  BY <1>1, <1>3, <1>5, Fields DEF BlobSound, m, z
<1>8. s2n_blob_is_growable(s.blob) => s2n_blob_is_growable(t.blob)
  BY <1>5 DEF s2n_blob_is_growable, NoBlob
<1>9. s2n_stuffer_validate(t)
  BY <1>4, <1>5, Fields DEF s2n_stuffer_validate, Lesser
<1>10. Sound(t)
  BY <1>4, <1>5, <1>6, <1>7, <1>8, <1>9, Fields DEF Sound
<1>11. \A i \in (0 + 1)..t.write_cursor : f[i] = m[i]
  <2>1. t.write_cursor <= n /\ t.write_cursor \in Nat
    BY <1>4, Fields DEF Lesser
  <2> QED BY <1>1, <1>3, <2>1 DEF z
<1>12. t.write_cursor <= s.write_cursor /\ t.read_cursor <= s.read_cursor
  BY <1>4, Fields DEF Lesser
<1> QED BY <1>5, <1>10, <1>11, <1>12 DEF Dropped, Same, m

\* s2n_stuffer_resize drops the end or keeps everything.
LEMMA Resized ==
    ASSUME NEW s, Sound(s), NEW n \in Nat, NEW malloc \in BOOLEAN,
           NEW r, r = s2n_stuffer_resize(s, n, malloc)
    PROVE  /\ Good(r)
           /\ ~r.ok => Kept(s, r.s) /\ NotLess(s, r.s)
           /\ r.ok /\ n <= s.blob.size => Dropped(s, r.s)
           /\ r.ok /\ n >= s.blob.size => Kept(s, r.s) /\ NotLess(s, r.s) /\ r.s.blob.size = n
<1>0. s.blob.size \in Nat
  BY Fields
<1>1. CASE s.tainted \/ ~s.growable
  <2>1. r = No(s)
    BY <1>1 DEF s2n_stuffer_resize
  <2> QED BY <2>1, OkNo, Itself, ZenonT(60)
<1>2. CASE ~(s.tainted \/ ~s.growable) /\ n = s.blob.size
  <2>1. r = Ok(s)
    BY <1>2 DEF s2n_stuffer_resize
  <2> QED BY <1>2, <2>1, OkNo, Itself, ZenonT(60)
<1>3. CASE ~(s.tainted \/ ~s.growable) /\ n = 0 /\ n # s.blob.size
  <2> DEFINE w == s2n_stuffer_wipe(s)
             x == s2n_free(w.blob)
             t == [w EXCEPT !.blob = NoBlob]
  <2>1. r = Holding(w, x)
    BY <1>3 DEF s2n_stuffer_resize, With
  <2>2. Sound(w) /\ Dropped(s, w) /\ w.growable
    BY <1>3, Wiped
  <2>3. x.ok = TRUE /\ x.blob = NoBlob /\ x.rel \subseteq {0}
    BY <2>2, Fields, Freed
  <2>4. w.read_cursor = 0 /\ w.write_cursor = 0 /\ w.high_water_mark = 0
    BY Fields DEF s2n_stuffer_wipe, StufferType
  <2> HIDE DEF w, x
  <2>5. r = Out(TRUE, t, x.rel)
    BY <2>1, <2>3, HoldingIs
  <2>6. t \in StufferType /\ t.blob = NoBlob /\ t.read_cursor = 0 /\ t.write_cursor = 0 /\ t.high_water_mark = 0
        /\ t.alloced = w.alloced /\ t.growable = w.growable
    BY <2>2, <2>4, Fields, NoBlobSound DEF StufferType, BlobSound
  <2> HIDE DEF t
  <2>7. t.blob.mem = <<>> /\ t.blob.size = 0 /\ Len(t.blob.mem) = 0
    BY <2>6, EmptyMemory DEF NoBlob
  <2>8. Sound(t)
    BY <2>2, <2>6, <2>7, NoBlobSound, Fields DEF Sound, s2n_stuffer_validate
  <2>9. Dropped(s, t)
    BY <2>6, Fields DEF Dropped, Same
  <2>10. Good(r) /\ r.ok = TRUE /\ r.s = t
    <3>1. x.rel \in SUBSET Harmless
      BY <2>3 DEF Harmless
    <3> QED BY <2>5, <2>8, <3>1 DEF Out, Good, OutType, Sound
  <2> QED BY <1>0, <1>3, <2>9, <2>10
<1>4. CASE ~(s.tainted \/ ~s.growable) /\ n > 0 /\ n < s.blob.size
  <2> DEFINE t == [s EXCEPT !.blob.mem = Fill(s.blob.mem, n, s.blob.size, WIPE),
                            !.blob.size = n,
                            !.read_cursor = Lesser(s.read_cursor, n),
                            !.write_cursor = Lesser(s.write_cursor, n),
                            !.high_water_mark = Lesser(s.high_water_mark, n)]
  <2>1. r = Ok(t)
    <3>1. n # s.blob.size /\ n # 0
      BY <1>0, <1>4
    <3> QED BY <1>4, <3>1 DEF s2n_stuffer_resize
  <2>2. Sound(t) /\ Dropped(s, t)
    BY <1>4, CutOff
  <2> HIDE DEF t
  <2>3. Good(r) /\ r.ok = TRUE /\ r.s = t
    BY <2>1, <2>2, OkNo
  <2> QED BY <1>0, <1>4, <2>2, <2>3
<1>5. CASE ~(s.tainted \/ ~s.growable) /\ n > s.blob.size
  <2>1. r = Holding(s, s2n_realloc(s.blob, n, malloc))
    <3>1. n # s.blob.size /\ n # 0 /\ ~(n < s.blob.size)
      BY <1>0, <1>5
    <3> QED BY <1>5, <3>1 DEF s2n_stuffer_resize
  <2> QED BY <1>0, <1>5, <2>1, Regrown
<1> QED BY <1>0, <1>1, <1>2, <1>3, <1>4, <1>5
\* Other cursors on the same blob.
LEMMA Placed ==
    ASSUME NEW s, Sound(s), NEW t, t \in StufferType, t.blob = s.blob, t.alloced = s.alloced,
           t.growable = s.growable, t.read_cursor <= t.write_cursor,
           t.write_cursor <= t.high_water_mark, t.high_water_mark <= s.blob.size,
           t.high_water_mark >= s.high_water_mark
    PROVE  Sound(t)
<1>1. t.high_water_mark \in Nat
  BY DEF StufferType
<1>2. \A i \in 1..Len(t.blob.mem) : i > t.high_water_mark => t.blob.mem[i] \in Harmless
  BY <1>1, Fields
<1>3. s2n_stuffer_validate(t)
  BY Fields DEF s2n_stuffer_validate
<1> QED BY <1>2, <1>3, Fields DEF Sound

\* A stuffer with other bytes, and bytes with no secret behind h.
WithBytes(s, m) == [s EXCEPT !.blob.mem = m]
Quiet(m, h) == \A i \in 1..Len(m) : i > h => m[i] \in Harmless

\* Other bytes below the mark keep a stuffer sound.
LEMMA Rewritten ==
    ASSUME NEW s, Sound(s), NEW m \in Seq(Cell), Len(m) = Len(s.blob.mem),
           Quiet(m, s.high_water_mark), NEW t, t = WithBytes(s, m)
    PROVE  /\ Sound(t) /\ t.blob.mem = m /\ t.blob.size = s.blob.size
           /\ t.read_cursor = s.read_cursor /\ t.write_cursor = s.write_cursor
           /\ t.high_water_mark = s.high_water_mark
<1>1. s \in StufferType /\ s.blob \in BlobType
  BY Fields
<1>2. /\ t.blob = [s.blob EXCEPT !.mem = m] /\ t.read_cursor = s.read_cursor
      /\ t.write_cursor = s.write_cursor /\ t.high_water_mark = s.high_water_mark
      /\ t.alloced = s.alloced /\ t.growable = s.growable
  BY <1>1 DEF StufferType, WithBytes
<1>3. [s.blob EXCEPT !.mem = m] \in BlobType
  BY <1>1 DEF BlobType
<1>4. t \in StufferType
  BY <1>1, <1>2, <1>3 DEF StufferType, WithBytes
<1>5. /\ t.blob.mem = m /\ t.blob.size = s.blob.size /\ t.blob.allocated = s.blob.allocated
      /\ t.blob.growable = s.blob.growable
  BY <1>1, <1>2 DEF BlobType
<1>6. BlobSound(t.blob)
  BY <1>2, <1>3, <1>5, Fields DEF BlobSound
<1>7. s2n_blob_is_growable(s.blob) => s2n_blob_is_growable(t.blob)
  <2>1. s.blob = NoBlob => Len(m) = 0
    BY EmptyMemory DEF NoBlob
  <2>2. Len(m) = 0 => m = <<>>
    BY EmptySeq
  <2>3. s.blob = NoBlob => t.blob = NoBlob
    BY <1>2, <2>1, <2>2 DEF NoBlob
  <2> QED BY <1>5, <2>3 DEF s2n_blob_is_growable
<1>8. s2n_stuffer_validate(t)
  BY <1>2, <1>5, Fields DEF s2n_stuffer_validate
<1> QED BY <1>2, <1>4, <1>5, <1>6, <1>7, <1>8, Fields DEF Sound, Quiet

\* s2n_stuffer_resize_if_empty keeps everything.
LEMMA ResizedIfEmpty ==
    ASSUME NEW s, Sound(s), NEW n \in Nat, n >= s.blob.size, NEW malloc \in BOOLEAN,
           NEW r, r = s2n_stuffer_resize_if_empty(s, n, malloc)
    PROVE  Good(r) /\ Kept(s, r.s) /\ NotLess(s, r.s)
<1>1. r = Ok(s) \/ r = No(s) \/ (s.growable /\ r = Holding(s, s2n_realloc(s.blob, n, malloc)))
  BY DEF s2n_stuffer_resize_if_empty
<1>2. CASE r = Ok(s) \/ r = No(s)
  BY <1>2, OkNo, Itself, ZenonT(60)
<1>3. CASE s.growable /\ r = Holding(s, s2n_realloc(s.blob, n, malloc))
  BY <1>3, Regrown
<1> QED BY <1>1, <1>2, <1>3

\* s2n_stuffer_reserve_space keeps everything and, if it succeeds, there is
\* room.
LEMMA ReservedSpace ==
    ASSUME NEW s, Sound(s), NEW n \in Nat, NEW malloc \in BOOLEAN,
           NEW r, r = s2n_stuffer_reserve_space(s, n, malloc)
    PROVE  /\ Good(r) /\ Kept(s, r.s) /\ NotLess(s, r.s)
           /\ r.ok => r.s.blob.size >= s.write_cursor + n
<1> DEFINE short == n - (s.blob.size - s.write_cursor)
           growth == Larger(short, GROWTH)
<1>0. s.blob.size \in Nat /\ s.write_cursor \in Nat /\ short \in Int
  BY Fields
<1>1. growth \in Nat /\ growth >= short /\ growth >= 1
  BY <1>0, StufferConstants DEF Larger
<1>2. r = IF short <= 0 THEN Ok(s)
          ELSE IF s.growable /\ s2n_add_overflow(s.blob.size, growth)
               THEN s2n_stuffer_resize(s, s.blob.size + growth, malloc)
               ELSE No(s)
  BY DEF s2n_stuffer_reserve_space, s2n_stuffer_space_remaining
<1>3. CASE short <= 0
  <2>1. Good(r) /\ r.s = s
    BY <1>2, <1>3, OkNo
  <2>2. s.blob.size >= s.write_cursor + n
    BY <1>0, <1>3
  <2> QED BY <2>1, <2>2, Itself
<1>4. CASE r = No(s)
  BY <1>4, OkNo, Itself
<1>5. CASE r = s2n_stuffer_resize(s, s.blob.size + growth, malloc)
  <2>0. s.blob.size + growth >= s.write_cursor + n
    BY <1>0, <1>1
  <2> HIDE DEF short, growth
  <2>1. s.blob.size + growth \in Nat /\ s.blob.size + growth >= s.blob.size
    BY <1>0, <1>1
  <2> DEFINE k == s.blob.size + growth
  <2>2. k \in Nat /\ k >= s.blob.size /\ r = s2n_stuffer_resize(s, k, malloc)
        /\ k >= s.write_cursor + n
    BY <1>5, <2>0, <2>1
  <2> HIDE DEF k
  <2>3. /\ Good(r) /\ (~r.ok => Kept(s, r.s) /\ NotLess(s, r.s))
        /\ r.ok => Kept(s, r.s) /\ NotLess(s, r.s) /\ r.s.blob.size = k
    BY <2>2, Resized
  <2> QED BY <2>2, <2>3
<1> QED BY <1>2, <1>3, <1>4, <1>5

\* s2n_stuffer_skip_write appends what is there, or keeps everything.
LEMMA SkippedWrite ==
    ASSUME NEW s, Sound(s), NEW n \in Nat, NEW malloc \in BOOLEAN,
           NEW r, r = s2n_stuffer_skip_write(s, n, malloc)
    PROVE  /\ Good(r) /\ NotLess(s, r.s) /\ Appended(s, r.s)
           /\ ~r.ok => Kept(s, r.s)
           /\ r.ok => r.s.write_cursor = s.write_cursor + n
<1> DEFINE o == s2n_stuffer_reserve_space(s, n, malloc)
           w == s.write_cursor + n
           t == [o.s EXCEPT !.write_cursor = w,
                            !.high_water_mark = Larger(w, o.s.high_water_mark)]
<1>1. r = IF o.ok THEN [o EXCEPT !.s = t] ELSE o
  BY DEF s2n_stuffer_skip_write, After, With
<1>2. /\ Good(o) /\ Kept(s, o.s) /\ NotLess(s, o.s)
      /\ o.ok => o.s.blob.size >= w
  BY ReservedSpace
<1> HIDE DEF o
<1>3. CASE ~o.ok
  <2>1. r = o
    BY <1>1, <1>3
  <2> QED BY <1>2, <1>3, <2>1, Fields DEF Kept, Appended
<1>4. CASE o.ok
  <2>1. w \in Nat /\ s.write_cursor \in Nat /\ w >= s.write_cursor
    BY Fields
  <2>2. Sound(o.s) /\ o \in OutType /\ o.s \in StufferType
    BY <1>2 DEF Good, Sound
  <2> DEFINE h == Larger(w, o.s.high_water_mark)
  <2>3. h \in Nat /\ h >= w /\ h >= o.s.high_water_mark /\ h <= o.s.blob.size
    BY <1>2, <1>4, <2>1, <2>2, Fields DEF Larger
  <2>4. t = [o.s EXCEPT !.write_cursor = w, !.high_water_mark = h]
    OBVIOUS
  <2> HIDE DEF t, h, w
  <2>5. /\ t \in StufferType /\ t.blob = o.s.blob /\ t.write_cursor = w /\ t.high_water_mark = h
        /\ t.read_cursor = o.s.read_cursor /\ t.alloced = o.s.alloced /\ t.growable = o.s.growable
    BY <2>1, <2>2, <2>3, <2>4 DEF StufferType
  <2>6. t.read_cursor <= t.write_cursor
    BY <1>2, <2>1, <2>5, Fields DEF Kept
  <2>7. Sound(t)
    BY <2>2, <2>3, <2>5, <2>6, Placed
  <2>8. r = [o EXCEPT !.s = t] /\ r.s = t /\ r.ok = o.ok /\ r \in OutType
    BY <1>1, <1>4, <2>2, <2>5 DEF OutType
  <2>9. NotLess(s, t) /\ Appended(s, t)
    BY <1>2, <2>1, <2>5 DEF NotLess, Kept, Appended, Same
  <2> QED BY <1>4, <2>5, <2>7, <2>8, <2>9 DEF Good, w
<1> QED BY <1>2, <1>3, <1>4

\* Tainting a stuffer changes nothing else.
LEMMA Tainted ==
    ASSUME NEW s, Sound(s), NEW t, t = [s EXCEPT !.tainted = TRUE]
    PROVE  /\ Sound(t) /\ t.blob = s.blob /\ t.read_cursor = s.read_cursor
           /\ t.write_cursor = s.write_cursor /\ t.high_water_mark = s.high_water_mark
<1>1. s \in StufferType
  BY Fields
<1>2. \A f \in BOOLEAN : [s EXCEPT !.tainted = f] \in StufferType
  BY <1>1 DEF StufferType
<1>3. t \in StufferType
  BY <1>2
<1>4. /\ t.blob = s.blob /\ t.read_cursor = s.read_cursor /\ t.alloced = s.alloced
      /\ t.write_cursor = s.write_cursor /\ t.high_water_mark = s.high_water_mark
      /\ t.growable = s.growable
  BY <1>1 DEF StufferType
<1>5. t.read_cursor <= t.write_cursor /\ t.write_cursor <= t.high_water_mark
      /\ t.high_water_mark <= s.blob.size /\ t.high_water_mark >= s.high_water_mark
  BY <1>4, Fields
<1>6. Sound(t)
  BY <1>3, <1>4, <1>5, Placed
<1> QED BY <1>4, <1>6

\* A successful outcome with another stuffer in it.
LEMMA WithStuffer ==
    ASSUME NEW o, Good(o), NEW t, Sound(t), NEW r, r = [o EXCEPT !.s = t]
    PROVE  Good(r) /\ r.s = t /\ r.ok = o.ok
  BY DEF Good, OutType, Sound

\* s2n_stuffer_raw_write appends.
LEMMA RawWritten ==
    ASSUME NEW s, Sound(s), NEW n \in Nat, NEW malloc \in BOOLEAN,
           NEW r, r = s2n_stuffer_raw_write(s, n, malloc)
    PROVE  /\ Good(r) /\ NotLess(s, r.s) /\ Appended(s, r.s)
           /\ ~r.ok => Kept(s, r.s)
           /\ r.ok => r.s.write_cursor = s.write_cursor + n
<1> DEFINE o == s2n_stuffer_skip_write(s, n, malloc)
           t == [o.s EXCEPT !.tainted = TRUE]
<1>1. r = IF o.ok THEN [o EXCEPT !.s = t] ELSE o
  BY DEF s2n_stuffer_raw_write, After, With
<1>2. /\ Good(o) /\ NotLess(s, o.s) /\ Appended(s, o.s)
      /\ ~o.ok => Kept(s, o.s)
      /\ o.ok => o.s.write_cursor = s.write_cursor + n
  BY SkippedWrite
<1> HIDE DEF o
<1>3. CASE ~o.ok
  BY <1>1, <1>2, <1>3
<1>4. CASE o.ok
  <2>1. Sound(t) /\ t.blob = o.s.blob /\ t.read_cursor = o.s.read_cursor
        /\ t.write_cursor = o.s.write_cursor
    BY <1>2, Tainted DEF Good
  <2> HIDE DEF t
  <2>2. Good(r) /\ r.s = t /\ r.ok = o.ok
    BY <1>1, <1>2, <1>4, <2>1, WithStuffer
  <2>3. NotLess(s, t) /\ Appended(s, t)
    BY <1>2, <2>1 DEF NotLess, Appended, Same
  <2> QED BY <1>2, <1>4, <2>1, <2>2, <2>3
<1> QED BY <1>2, <1>3, <1>4

\* The bytes put where the cursor was.
LEMMA PutBehind ==
    ASSUME NEW s, Sound(s), NEW t, Sound(t), Appended(s, t), NotLess(s, t), NEW bytes \in Seq(Cell),
           t.write_cursor = s.write_cursor + Len(bytes),
           NEW u, u = WithBytes(t, Put(t.blob.mem, s.write_cursor, bytes))
    PROVE  /\ Sound(u) /\ Appended(s, u) /\ NotLess(s, u)
           /\ u.write_cursor = s.write_cursor + Len(bytes)
           /\ \A i \in 1..Len(bytes) : u.blob.mem[s.write_cursor + i] = bytes[i]
<1> DEFINE m == t.blob.mem
           w == s.write_cursor
           p == Put(m, w, bytes)
           h == t.high_water_mark
<1>1. m \in Seq(Cell) /\ Len(m) \in Nat /\ w \in Nat /\ h \in Nat
      /\ h >= w + Len(bytes) /\ Len(m) >= h /\ Len(bytes) \in Nat
  <2>1. /\ m \in Seq(Cell) /\ Len(m) \in Nat /\ h \in Nat /\ t.blob.size \in Nat
        /\ t.write_cursor <= h /\ h <= t.blob.size /\ t.blob.size <= Len(m)
    BY Fields
  <2>2. w \in Nat
    BY Fields
  <2>3. Len(bytes) \in Nat
    OBVIOUS
  <2> HIDE DEF m, h
  <2> QED BY <2>1, <2>2, <2>3
<1>2. u = WithBytes(t, p)
  OBVIOUS
<1>3. \A i \in 1..Len(m) : i > h => m[i] \in Harmless
  BY Fields
<1> HIDE DEF m, w, h
<1>4. /\ p \in Seq(Cell) /\ Len(p) = Len(m)
      /\ \A i \in 1..Len(m) : p[i] = IF i > w /\ i <= w + Len(bytes) THEN bytes[i - w] ELSE m[i]
  BY <1>1, PutIn
<1> HIDE DEF p
<1>5. \A i \in 1..Len(p) : i > h => p[i] \in Harmless
  BY <1>1, <1>3, <1>4
<1>6. /\ Sound(u) /\ u.blob.mem = p /\ u.blob.size = t.blob.size
      /\ u.read_cursor = t.read_cursor /\ u.write_cursor = t.write_cursor
  <2>1. Len(p) = Len(t.blob.mem) /\ Quiet(p, t.high_water_mark)
    BY <1>4, <1>5 DEF m, h, Quiet
  <2>2. p \in Seq(Cell)
    BY <1>4
  <2> QED BY <1>2, <2>1, <2>2, Rewritten
<1>7. \A i \in (0 + 1)..w : p[i] = m[i]
  BY <1>1, <1>4
<1>8. \A i \in 1..Len(bytes) : p[w + i] = bytes[i]
  <2> TAKE i \in 1..Len(bytes)
  <2>1. w + i \in 1..Len(m) /\ w + i > w /\ w + i <= w + Len(bytes) /\ (w + i) - w = i
    BY <1>1
  <2> QED BY <1>4, <2>1
<1>9. Appended(s, u) /\ NotLess(s, u)
  BY <1>6, <1>7 DEF Appended, NotLess, Same, m, w
<1> QED BY <1>6, <1>8, <1>9 DEF w

\* s2n_stuffer_write_bytes appends the bytes, or keeps everything.
LEMMA WrittenBytes ==
    ASSUME NEW s, Sound(s), NEW bytes \in Seq(Cell), NEW malloc \in BOOLEAN,
           NEW r, r = s2n_stuffer_write_bytes(s, bytes, malloc)
    PROVE  /\ Good(r) /\ NotLess(s, r.s) /\ Appended(s, r.s)
           /\ ~r.ok => Kept(s, r.s)
           /\ r.ok => /\ r.s.write_cursor = s.write_cursor + Len(bytes)
                      /\ \A i \in 1..Len(bytes) : r.s.blob.mem[s.write_cursor + i] = bytes[i]
<1> DEFINE o == s2n_stuffer_skip_write(s, Len(bytes), malloc)
           t == [o.s EXCEPT !.blob.mem = Put(o.s.blob.mem, s.write_cursor, bytes)]
<1>1. r = IF o.ok THEN [o EXCEPT !.s = t] ELSE o
  BY DEF s2n_stuffer_write_bytes, After, With
<1>2. /\ Good(o) /\ NotLess(s, o.s) /\ Appended(s, o.s)
      /\ ~o.ok => Kept(s, o.s)
      /\ o.ok => o.s.write_cursor = s.write_cursor + Len(bytes)
  <2>1. Len(bytes) \in Nat
    OBVIOUS
  <2> QED BY <2>1, SkippedWrite
<1> HIDE DEF o
<1>3. CASE ~o.ok
  BY <1>1, <1>2, <1>3
<1>4. CASE o.ok
  <2>1. /\ Sound(t) /\ Appended(s, t) /\ NotLess(s, t)
        /\ t.write_cursor = s.write_cursor + Len(bytes)
        /\ \A i \in 1..Len(bytes) : t.blob.mem[s.write_cursor + i] = bytes[i]
    <3>1. /\ Sound(o.s) /\ Appended(s, o.s) /\ NotLess(s, o.s)
          /\ o.s.write_cursor = s.write_cursor + Len(bytes)
      BY <1>2, <1>4 DEF Good
    <3>2. t = WithBytes(o.s, Put(o.s.blob.mem, s.write_cursor, bytes))
      BY DEF WithBytes
    <3> HIDE DEF t
    <3> QED BY <3>1, <3>2, PutBehind
  <2> HIDE DEF t
  <2>2. Good(r) /\ r.s = t /\ r.ok = o.ok
    BY <1>1, <1>2, <1>4, <2>1, WithStuffer, ZenonT(60)
  <2> QED BY <1>4, <2>1, <2>2
<1> QED BY <1>2, <1>3, <1>4

\* What is gathered from the second piece of a scattered input is a byte.
LEMMA Scattered ==
    ASSUME NEW bytes \in Seq(Cell), Len(bytes) >= 1, NEW iov, iov = << << 1 >>, bytes >>
    PROVE  Gather(iov, 1, 1) \in Seq(Cell) /\ Len(Gather(iov, 1, 1)) = 1
<1> DEFINE flat == <<1>> \o bytes
<1>1. 1 \in Cell
  BY Cells
<1>2. flat \in Seq(Cell) /\ Len(flat) = 1 + Len(bytes)
  BY <1>1, ConcatProperties
<1>3. FlattenSeq(iov) = flat
  <2> DEFINE g == [i \in 1..2 |-> IF i = 1 THEN <<1>> ELSE flat]
  <2>1. g = [i \in 1..2 |-> IF i = 1 THEN iov[i] ELSE g[i - 1] \o iov[i]]
    OBVIOUS
  <2> HIDE DEF flat
  <2>2. \A f : f = [i \in 1..2 |-> IF i = 1 THEN iov[i] ELSE f[i - 1] \o iov[i]]
               => f[2] = <<1>> \o bytes
    <3> SUFFICES ASSUME NEW f,
                        f = [i \in 1..2 |-> IF i = 1 THEN iov[i] ELSE f[i - 1] \o iov[i]]
                 PROVE  f[2] = <<1>> \o bytes
      OBVIOUS
    <3>1. iov[1] = <<1>> /\ iov[2] = bytes
      OBVIOUS
    <3>2. 1 \in 1..2 /\ 2 \in 1..2 /\ 2 # 1 /\ 2 - 1 = 1
      OBVIOUS
    <3>3. \A i \in 1..2 : f[i] = IF i = 1 THEN iov[i] ELSE f[i - 1] \o iov[i]
      BY Zenon
    <3>4. f[1] = iov[1]
      BY <3>2, <3>3, Zenon
    <3>5. f[2] = f[2 - 1] \o iov[2]
      BY <3>2, <3>3, Zenon
    <3> QED BY <3>1, <3>2, <3>4, <3>5, Zenon
  <2>3. Len(iov) = 2
    OBVIOUS
  <2>4. Len(iov) # 0
    BY <2>3
  <2> DEFINE flatten == CHOOSE f : f = [i \in 1..Len(iov) |-> IF i = 1 THEN iov[i] ELSE f[i - 1] \o iov[i]]
  <2>5. FlattenSeq(iov) = flatten[Len(iov)]
    BY <2>4, Zenon DEF FlattenSeq
  <2>6. \E f : f = [i \in 1..Len(iov) |-> IF i = 1 THEN iov[i] ELSE f[i - 1] \o iov[i]]
    BY <2>1, <2>3, Zenon
  <2>7. flatten = [i \in 1..Len(iov) |-> IF i = 1 THEN iov[i] ELSE flatten[i - 1] \o iov[i]]
    BY <2>6, Zenon
  <2> HIDE DEF flatten
  <2>8. flatten[2] = <<1>> \o bytes
    BY <2>2, <2>3, <2>7, Zenon
  <2> QED BY <2>3, <2>5, <2>8 DEF flat
<1> HIDE DEF flat
<1>4. Gather(iov, 1, 1) = SubSeq(flat, 2, 2)
  BY <1>3 DEF Gather
<1>5. Cut(flat, 1, 2) \in Seq(Cell) /\ Len(Cut(flat, 1, 2)) = 2 - 1
  <2>1. 1 \in Nat /\ 2 \in Nat /\ 1 <= 2 /\ 2 <= Len(flat)
    BY <1>2
  <2> QED BY <1>2, <2>1, Pieces
<1>6. Cut(flat, 1, 2) = SubSeq(flat, 2, 2)
  BY DEF Cut
<1> QED BY <1>4, <1>5, <1>6

\* s2n_stuffer_writev_bytes appends.
LEMMA WrittenVector ==
    ASSUME NEW s, Sound(s), NEW bytes \in Seq(Cell), Len(bytes) >= 1, NEW malloc \in BOOLEAN,
           NEW r, r = s2n_stuffer_writev_bytes(s, << << 1 >>, bytes >>, 1, 1, malloc)
    PROVE  Good(r) /\ NotLess(s, r.s) /\ Appended(s, r.s) /\ (~r.ok => Kept(s, r.s))
<1> DEFINE o == s2n_stuffer_raw_write(s, 1, malloc)
           iov == << << 1 >>, bytes >>
           in == Gather(iov, 1, 1)
           t == [o.s EXCEPT !.blob.mem = Put(o.s.blob.mem, s.write_cursor, in)]
<1>1. r = IF o.ok THEN [o EXCEPT !.s = t] ELSE o
  <2>1. r = s2n_stuffer_writev_bytes(s, iov, 1, 1, malloc)
    OBVIOUS
  <2> HIDE DEF iov
  <2> QED BY <2>1 DEF s2n_stuffer_writev_bytes, After, With
<1>2. /\ Good(o) /\ NotLess(s, o.s) /\ Appended(s, o.s)
      /\ ~o.ok => Kept(s, o.s)
      /\ o.ok => o.s.write_cursor = s.write_cursor + 1
  <2>1. 1 \in Nat
    OBVIOUS
  <2> QED BY <2>1, RawWritten
<1>3. in \in Seq(Cell) /\ Len(in) = 1
  <2>1. iov = << << 1 >>, bytes >>
    OBVIOUS
  <2> HIDE DEF iov
  <2> QED BY <2>1, Scattered
<1> HIDE DEF o, in
<1>4. CASE ~o.ok
  BY <1>1, <1>2, <1>4
<1>5. CASE o.ok
  <2>1. /\ Sound(o.s) /\ Appended(s, o.s) /\ NotLess(s, o.s)
        /\ o.s.write_cursor = s.write_cursor + Len(in)
    BY <1>2, <1>3, <1>5 DEF Good
  <2>2. t = WithBytes(o.s, Put(o.s.blob.mem, s.write_cursor, in))
    BY DEF WithBytes
  <2> HIDE DEF t
  <2>3. Sound(t) /\ Appended(s, t) /\ NotLess(s, t)
    BY <1>3, <2>1, <2>2, PutBehind
  <2>4. Good(r) /\ r.s = t /\ r.ok = o.ok
    BY <1>1, <1>2, <1>5, <2>3, WithStuffer
  <2> QED BY <1>5, <2>3, <2>4
<1> QED BY <1>2, <1>4, <1>5

\* The read cursor anywhere up to the write cursor.
LEMMA ReadAt ==
    ASSUME NEW s, Sound(s), NEW a \in Nat, a <= s.write_cursor,
           NEW t, t = [s EXCEPT !.read_cursor = a]
    PROVE  /\ Sound(t) /\ MovedTo(s, t) /\ NotLess(s, t)
           /\ t.read_cursor = a /\ t.blob = s.blob /\ t.write_cursor = s.write_cursor
           /\ t.high_water_mark = s.high_water_mark
<1>1. s \in StufferType
  BY Fields
<1>2. /\ t \in StufferType /\ t.blob = s.blob /\ t.read_cursor = a /\ t.alloced = s.alloced
      /\ t.write_cursor = s.write_cursor /\ t.high_water_mark = s.high_water_mark
      /\ t.growable = s.growable
  BY <1>1 DEF StufferType
<1>3. t.read_cursor <= t.write_cursor /\ t.write_cursor <= t.high_water_mark
      /\ t.high_water_mark <= s.blob.size /\ t.high_water_mark >= s.high_water_mark
  BY <1>2, Fields
<1>4. Sound(t)
  BY <1>1, <1>2, <1>3, Placed
<1> QED BY <1>2, <1>4, Fields DEF MovedTo, NotLess, Same

\* s2n_stuffer_skip_read moves the boundary, or nothing.
LEMMA SkippedRead ==
    ASSUME NEW s, Sound(s), NEW n \in Nat, NEW r, r = s2n_stuffer_skip_read(s, n)
    PROVE  /\ Good(r) /\ MovedTo(s, r.s) /\ NotLess(s, r.s)
           /\ ~r.ok => r.s = s
           /\ r.ok => /\ n <= s.write_cursor - s.read_cursor
                      /\ r.s.read_cursor = s.read_cursor + n /\ r.s.blob = s.blob
                      /\ r.s.high_water_mark = s.high_water_mark
<1>1. CASE s.write_cursor - s.read_cursor >= n
  <2> DEFINE a == s.read_cursor + n
             t == [s EXCEPT !.read_cursor = a]
  <2>1. r = Ok(t)
    BY <1>1 DEF s2n_stuffer_skip_read, s2n_stuffer_data_available
  <2>2. a \in Nat /\ a <= s.write_cursor
    BY <1>1, Fields
  <2> HIDE DEF a
  <2>3. /\ Sound(t) /\ MovedTo(s, t) /\ NotLess(s, t)
        /\ t.read_cursor = a /\ t.blob = s.blob /\ t.high_water_mark = s.high_water_mark
    BY <2>2, ReadAt
  <2> HIDE DEF t
  <2>5. Good(r) /\ r.ok = TRUE /\ r.s = t
    BY <2>1, <2>3, OkNo
  <2>6. n <= s.write_cursor - s.read_cursor
    BY <1>1, Fields
  <2> QED BY <2>3, <2>5, <2>6 DEF a
<1>2. CASE ~(s.write_cursor - s.read_cursor >= n)
  <2>1. r = No(s)
    BY <1>2 DEF s2n_stuffer_skip_read, s2n_stuffer_data_available
  <2> QED BY <2>1, OkNo, Itself
<1> QED BY <1>1, <1>2

\* s2n_stuffer_raw_read moves the boundary.
LEMMA RawRead ==
    ASSUME NEW s, Sound(s), NEW n \in Nat, NEW r, r = s2n_stuffer_raw_read(s, n)
    PROVE  Good(r) /\ MovedTo(s, r.s) /\ NotLess(s, r.s) /\ (~r.ok => r.s = s)
<1> DEFINE o == s2n_stuffer_skip_read(s, n)
           t == [o.s EXCEPT !.tainted = TRUE]
<1>1. r = IF o.ok THEN [o EXCEPT !.s = t] ELSE o
  BY DEF s2n_stuffer_raw_read, After, With
<1>2. Good(o) /\ MovedTo(s, o.s) /\ NotLess(s, o.s) /\ (~o.ok => o.s = s)
  BY SkippedRead
<1> HIDE DEF o
<1>3. CASE ~o.ok
  BY <1>1, <1>2, <1>3
<1>4. CASE o.ok
  <2>1. Sound(t) /\ t.blob = o.s.blob /\ t.write_cursor = o.s.write_cursor
    BY <1>2, Tainted DEF Good
  <2> HIDE DEF t
  <2>2. Good(r) /\ r.s = t /\ r.ok = o.ok
    BY <1>1, <1>2, <1>4, <2>1, WithStuffer
  <2>3. NotLess(s, t) /\ MovedTo(s, t)
    BY <1>2, <2>1 DEF NotLess, MovedTo, Same
  <2> QED BY <1>4, <2>2, <2>3
<1> QED BY <1>2, <1>3, <1>4

\* s2n_stuffer_read_bytes moves the boundary; when it fails after the skip
\* it has skipped nothing.
LEMMA ReadBytes ==
    ASSUME NEW s, Sound(s), NEW n \in Nat, NEW r, r = s2n_stuffer_read_bytes(s, n)
    PROVE  Good(r) /\ MovedTo(s, r.s) /\ NotLess(s, r.s) /\ (~r.ok => Kept(s, r.s))
<1> DEFINE o == s2n_stuffer_skip_read(s, n)
<1>1. r = IF o.ok /\ o.s.blob.mem # <<>> THEN o ELSE No(o.s)
  BY DEF s2n_stuffer_read_bytes, With
<1>2. /\ Good(o) /\ MovedTo(s, o.s) /\ NotLess(s, o.s) /\ (~o.ok => o.s = s)
      /\ o.ok => o.s.read_cursor = s.read_cursor + n /\ o.s.blob = s.blob
  BY SkippedRead
<1> HIDE DEF o
<1>3. CASE o.ok /\ o.s.blob.mem # <<>>
  BY <1>1, <1>2, <1>3
<1>4. CASE ~(o.ok /\ o.s.blob.mem # <<>>)
  <2>1. Good(r) /\ r.ok = FALSE /\ r.s = o.s
    BY <1>1, <1>2, <1>4, OkNo, ZenonT(60) DEF Good
  <2>2. Kept(s, o.s)
    <3>1. CASE ~o.ok
      BY <1>2, <3>1, Itself
    <3>2. CASE o.ok
      <4>1. Sound(o.s) /\ Len(o.s.blob.mem) = 0
        BY <1>2, <1>4, <3>2, EmptyMemory DEF Good
      <4>2. o.s.read_cursor = 0 /\ s.read_cursor = 0 /\ o.s.write_cursor = s.write_cursor
        BY <1>2, <3>2, <4>1, Fields, SMTT(60) DEF MovedTo
      <4> QED BY <1>2, <4>2 DEF MovedTo, Kept
    <3> QED BY <3>1, <3>2
  <2> QED BY <1>2, <2>1, <2>2
<1> QED BY <1>3, <1>4

\* s2n_stuffer_erase_and_read erases what it passes and nothing else.
LEMMA ErasedRead ==
    ASSUME NEW s, Sound(s), NEW n \in Nat, NEW r, r = s2n_stuffer_erase_and_read(s, n)
    PROVE  Good(r) /\ NotLess(s, r.s) /\ (~r.ok => r.s = s) /\ (r.ok => Erased(s, r.s))
<1> DEFINE o == s2n_stuffer_skip_read(s, n)
           f == Fill(o.s.blob.mem, s.read_cursor, o.s.read_cursor, 0)
           t == [o.s EXCEPT !.blob.mem = f]
<1>1. r = IF o.ok THEN [o EXCEPT !.s = t] ELSE o
  BY DEF s2n_stuffer_erase_and_read, After, With
<1>2. /\ Good(o) /\ MovedTo(s, o.s) /\ NotLess(s, o.s)
      /\ ~o.ok => o.s = s
      /\ o.ok => /\ n <= s.write_cursor - s.read_cursor
                 /\ o.s.read_cursor = s.read_cursor + n /\ o.s.blob = s.blob
                 /\ o.s.high_water_mark = s.high_water_mark
  BY SkippedRead
<1> HIDE DEF o
<1>3. CASE ~o.ok
  BY <1>1, <1>2, <1>3
<1>4. CASE o.ok
  <2> DEFINE m == s.blob.mem
             a == s.read_cursor
             c == o.s.read_cursor
             h == s.high_water_mark
             w == s.write_cursor
  <2>1. /\ m \in Seq(Cell) /\ Len(m) \in Nat /\ a \in Nat /\ c \in Nat /\ h \in Nat /\ w \in Nat
        /\ a <= c /\ c <= w /\ w <= h /\ h <= Len(m)
    BY <1>2, <1>4, Fields, SMTT(60)
  <2>2. \A i \in 1..Len(m) : i > h => m[i] \in Harmless
    BY Fields
  <2>3. f = Fill(m, a, c, 0)
    BY <1>2, <1>4
  <2>4. t = WithBytes(o.s, f)
    BY DEF WithBytes
  <2> HIDE DEF m, a, c, h, f, t, w
  <2>5. /\ f \in Seq(Cell) /\ Len(f) = Len(m)
        /\ \A i \in 1..Len(m) : f[i] = IF i > a /\ i <= c THEN 0 ELSE m[i]
    <3>1. 0 \in Cell
      BY Cells
    <3>2. m \in Seq(Cell) /\ a \in Nat /\ c \in Nat
      BY <2>1
    <3>3. /\ Fill(m, a, c, 0) \in Seq(Cell) /\ Len(Fill(m, a, c, 0)) = Len(m)
          /\ \A i \in 1..Len(m) : Fill(m, a, c, 0)[i] = IF i > a /\ i <= c THEN 0 ELSE m[i]
      BY <3>1, <3>2, Filled, ZenonT(60)
    <3> QED BY <2>3, <3>3
  <2>6. Quiet(f, h)
    BY <2>1, <2>2, <2>5 DEF Quiet
  <2>7. Sound(o.s) /\ Len(f) = Len(o.s.blob.mem) /\ Quiet(f, o.s.high_water_mark)
    BY <1>2, <1>4, <2>5, <2>6 DEF Good, m, h
  <2>8. /\ Sound(t) /\ t.blob.mem = f /\ t.blob.size = o.s.blob.size
        /\ t.read_cursor = o.s.read_cursor /\ t.write_cursor = o.s.write_cursor
    BY <2>4, <2>5, <2>7, Rewritten
  <2>9. Good(r) /\ r.s = t /\ r.ok = o.ok
    BY <1>1, <1>2, <1>4, <2>8, WithStuffer, ZenonT(60)
  <2>10. /\ \A i \in (0 + 1)..a : f[i] = m[i]
         /\ \A i \in (c + 1)..w : f[i] = m[i]
         /\ \A i \in (a + 1)..c : f[i] = 0
    BY <2>1, <2>5
  <2>11. Erased(s, t)
    <3>1. t.write_cursor = s.write_cursor /\ t.read_cursor = c /\ c >= s.read_cursor
      BY <1>2, <2>1, <2>8 DEF MovedTo, a, c
    <3> QED BY <2>8, <2>10, <3>1 DEF Erased, Same, m, a, w
  <2>12. NotLess(s, t)
    BY <1>2, <2>8 DEF NotLess
  <2> QED BY <1>4, <2>9, <2>11, <2>12
<1> QED BY <1>2, <1>3, <1>4

\* s2n_stuffer_rewind_read moves the boundary back.
LEMMA RewoundRead ==
    ASSUME NEW s, Sound(s), NEW n \in Nat, NEW r, r = s2n_stuffer_rewind_read(s, n)
    PROVE  Good(r) /\ MovedTo(s, r.s) /\ NotLess(s, r.s) /\ (~r.ok => r.s = s)
<1>1. CASE s.read_cursor >= n
  <2> DEFINE a == s.read_cursor - n
             t == [s EXCEPT !.read_cursor = a]
  <2>1. r = Ok(t)
    BY <1>1 DEF s2n_stuffer_rewind_read
  <2>2. a \in Nat /\ a <= s.write_cursor
    BY <1>1, Fields
  <2> HIDE DEF a
  <2>3. Sound(t) /\ MovedTo(s, t) /\ NotLess(s, t)
    BY <2>2, ReadAt
  <2> HIDE DEF t
  <2>4. Good(r) /\ r.ok = TRUE /\ r.s = t
    BY <2>1, <2>3, OkNo
  <2> QED BY <2>3, <2>4
<1>2. CASE ~(s.read_cursor >= n)
  <2>1. r = No(s)
    BY <1>2 DEF s2n_stuffer_rewind_read
  <2> QED BY <2>1, OkNo, Itself
<1> QED BY <1>1, <1>2

\* s2n_stuffer_send_to_fd moves by what was sent; when write fails it undoes
\* the skip.
LEMMA SentToFd ==
    ASSUME NEW s, Sound(s), NEW n \in Nat, NEW w \in 0..n, NEW fails \in BOOLEAN,
           NEW r, r = s2n_stuffer_send_to_fd(s, n, w, fails)
    PROVE  Good(r) /\ MovedTo(s, r.s) /\ NotLess(s, r.s) /\ (~r.ok => r.s = s)
<1> DEFINE o == s2n_stuffer_skip_read(s, n)
           a == s.read_cursor + w
           t == [s EXCEPT !.read_cursor = a]
<1>1. r = IF ~o.ok THEN o ELSE IF fails \/ s.blob.mem = <<>> THEN No(s) ELSE Ok(t)
  BY DEF s2n_stuffer_send_to_fd, With
<1>2. /\ Good(o) /\ MovedTo(s, o.s) /\ NotLess(s, o.s)
      /\ ~o.ok => o.s = s
      /\ o.ok => n <= s.write_cursor - s.read_cursor
  BY SkippedRead
<1> HIDE DEF o
<1>3. CASE ~o.ok
  BY <1>1, <1>2, <1>3
<1>4. CASE o.ok /\ r = No(s)
  BY <1>4, OkNo, Itself
<1>5. CASE o.ok /\ r = Ok(t)
  <2>1. a \in Nat /\ a <= s.write_cursor
    BY <1>2, <1>5, Fields
  <2> HIDE DEF a
  <2>2. Sound(t) /\ MovedTo(s, t) /\ NotLess(s, t)
    BY <2>1, ReadAt
  <2> HIDE DEF t
  <2>3. Good(r) /\ r.ok = TRUE /\ r.s = t
    BY <1>5, <2>2, OkNo
  <2> QED BY <2>2, <2>3
<1> QED BY <1>1, <1>3, <1>4, <1>5

\* The choice from a singleton.
LEMMA Single ==
    ASSUME NEW e
    PROVE  (CHOOSE y \in {e} : TRUE) = e
  OBVIOUS

\* s2n_stuffer_recv_from_fd appends what was received; when read fails it
\* undoes the skip, and the growth of the blob stays.
LEMMA ReceivedFromFd ==
    ASSUME NEW s, Sound(s), NEW n \in Nat, NEW bytes \in Seq(Cell), NEW fails \in BOOLEAN,
           NEW malloc \in BOOLEAN, NEW r, r = s2n_stuffer_recv_from_fd(s, n, bytes, fails, malloc)
    PROVE  Good(r) /\ Appended(s, r.s) /\ NotLess(s, r.s) /\ (~r.ok => Kept(s, r.s))
<1> DEFINE o == s2n_stuffer_skip_write(s, n, malloc)
           u == [o.s EXCEPT !.write_cursor = s.write_cursor]
           b == s2n_stuffer_write_bytes(u, bytes, FALSE)
<1>1. r = IF ~o.ok THEN o
          ELSE IF fails \/ u.blob.mem = <<>> THEN Out(FALSE, u, o.rel)
          ELSE [b EXCEPT !.rel = o.rel]
  <2> DEFINE G(v) == IF fails \/ v.blob.mem = <<>> THEN Out(FALSE, v, o.rel)
                     ELSE [s2n_stuffer_write_bytes(v, bytes, FALSE) EXCEPT !.rel = o.rel]
             H(q) == IF ~q.ok THEN q
                     ELSE With([q.s EXCEPT !.write_cursor = s.write_cursor], LAMBDA undone :
                            IF fails \/ undone.blob.mem = <<>> THEN Out(FALSE, undone, q.rel)
                            ELSE [s2n_stuffer_write_bytes(undone, bytes, FALSE) EXCEPT !.rel = q.rel])
             x == CHOOSE y \in {G(v) : v \in {u}} : TRUE
  <2>1. r = CHOOSE y \in {H(q) : q \in {o}} : TRUE
    BY Zenon DEF s2n_stuffer_recv_from_fd, With
  <2>2. H(o) = IF ~o.ok THEN o ELSE x
    BY Zenon DEF With
  <2> HIDE DEF H
  <2>3. r = H(o)
    <3>1. {H(q) : q \in {o}} = {H(o)}
      BY Zenon
    <3> QED BY <2>1, <3>1, Single
  <2>4. G(u) = IF fails \/ u.blob.mem = <<>> THEN Out(FALSE, u, o.rel) ELSE [b EXCEPT !.rel = o.rel]
    BY Zenon
  <2> HIDE DEF G
  <2>5. x = G(u)
    <3>1. {G(v) : v \in {u}} = {G(u)}
      BY Zenon
    <3> QED BY <3>1, Single
  <2>6. r = IF ~o.ok THEN o ELSE G(u)
    BY <2>2, <2>3, <2>5, Zenon
  <2> QED BY <2>4, <2>6, Zenon
<1>2. /\ Good(o) /\ NotLess(s, o.s) /\ Appended(s, o.s)
      /\ ~o.ok => Kept(s, o.s)
  BY SkippedWrite
<1> HIDE DEF o
<1>3. Sound(u) /\ Kept(s, u) /\ NotLess(s, u)
  <2>1. Sound(o.s) /\ o.s \in StufferType
    BY <1>2 DEF Good, Sound
  <2>2. s.write_cursor \in Nat /\ s.read_cursor <= s.write_cursor
    BY Fields
  <2>3. /\ u \in StufferType /\ u.blob = o.s.blob /\ u.write_cursor = s.write_cursor
        /\ u.read_cursor = o.s.read_cursor /\ u.high_water_mark = o.s.high_water_mark
        /\ u.alloced = o.s.alloced /\ u.growable = o.s.growable
    BY <2>1, <2>2 DEF StufferType
  <2> HIDE DEF u
  <2>4. u.read_cursor <= u.write_cursor /\ u.write_cursor <= u.high_water_mark
        /\ u.high_water_mark <= o.s.blob.size /\ u.high_water_mark >= o.s.high_water_mark
    BY <1>2, <2>1, <2>2, <2>3, Fields DEF Appended
  <2>5. Sound(u)
    BY <2>1, <2>3, <2>4, Placed
  <2> QED BY <1>2, <2>2, <2>3, <2>5 DEF NotLess, Kept, Appended, Same
<1> HIDE DEF u
<1>4. /\ Good(b) /\ NotLess(u, b.s) /\ Appended(u, b.s)
      /\ ~b.ok => Kept(u, b.s)
  <2>1. \A f \in BOOLEAN : LET x == s2n_stuffer_write_bytes(u, bytes, f)
                           IN  /\ Good(x) /\ NotLess(u, x.s) /\ Appended(u, x.s)
                               /\ ~x.ok => Kept(u, x.s)
    BY <1>3, WrittenBytes
  <2> QED BY <2>1
<1> HIDE DEF b
<1>5. CASE ~o.ok
  BY <1>1, <1>2, <1>5
<1>6. CASE r = Out(FALSE, u, o.rel)
  <2>1. Good(r) /\ r.ok = FALSE /\ r.s = u
    BY <1>2, <1>3, <1>6 DEF Good, Out, OutType, Sound
  <2> QED BY <1>3, <2>1, Fields DEF Kept, Appended
<1>7. CASE r = [b EXCEPT !.rel = o.rel]
  <2>1. Good(r) /\ r.ok = b.ok /\ r.s = b.s
    BY <1>2, <1>4, <1>7 DEF Good, OutType
  <2>2. Sound(b.s)
    BY <1>4 DEF Good
  <2>3. NotLess(s, b.s)
    BY <1>3, <1>4, <2>2, Fields DEF NotLess
  <2>4. Appended(s, b.s) /\ (~b.ok => Kept(s, b.s))
    BY <1>3, <1>4, <2>2, Fields DEF Kept, Appended, Same
  <2> QED BY <2>1, <2>3, <2>4
<1> QED BY <1>1, <1>5, <1>6, <1>7
-----------------------------------------------------------------------------
BothType == [ok : BOOLEAN, from : StufferType, to : StufferType, rel : SUBSET Harmless]

\* What a copy of n bytes that succeeded did.
Copied(p, q, c, n) ==
    /\ n <= p.write_cursor - p.read_cursor
    /\ MovedTo(p, c.from)
    /\ c.from.read_cursor \in {p.read_cursor + n, p.read_cursor + n + 1}
    /\ Appended(q, c.to)
    /\ c.to.write_cursor = q.write_cursor + n
    /\ \A i \in 1..n : c.to.blob.mem[q.write_cursor + i] = p.blob.mem[p.read_cursor + i]

GoodBoth(p, q, c) ==
    /\ c \in BothType /\ Sound(c.from) /\ Sound(c.to)
    /\ NotLess(p, c.from) /\ NotLess(q, c.to)
    /\ ~c.ok => Kept(p, c.from) /\ Kept(q, c.to)

\* s2n_stuffer_copy_impl: if it fails after reading, the read cursor has
\* moved.
LEMMA CopiedImpl ==
    ASSUME NEW p, Sound(p), NEW q, Sound(q), NEW n \in Nat, NEW malloc \in BOOLEAN,
           NEW c, c = s2n_stuffer_copy_impl(p, q, n, malloc)
    PROVE  /\ c \in BothType /\ Sound(c.from) /\ Sound(c.to)
           /\ NotLess(p, c.from) /\ NotLess(q, c.to) /\ MovedTo(p, c.from)
           /\ ~c.ok => Kept(q, c.to)
           /\ c.ok => Copied(p, q, c, n) /\ c.from.read_cursor = p.read_cursor + n
<1> DEFINE bytes == Cut(p.blob.mem, p.read_cursor, p.read_cursor + n)
           r == s2n_stuffer_skip_read(p, n)
           w == s2n_stuffer_write_bytes(q, bytes, malloc)
           x == With(w, LAMBDA z : Both(z.ok, r.s, z.s, z.rel))
<1>1. c = IF ~r.ok THEN Both(FALSE, p, q, {}) ELSE x
  <2> DEFINE H(y) == IF ~y.ok THEN Both(FALSE, p, q, {})
                     ELSE With(w, LAMBDA z : Both(z.ok, y.s, z.s, z.rel))
  <2>1. c = CHOOSE y \in {H(v) : v \in {r}} : TRUE
    BY Zenon DEF s2n_stuffer_copy_impl, With, Cut
  <2>2. H(r) = IF ~r.ok THEN Both(FALSE, p, q, {}) ELSE x
    BY Zenon
  <2> HIDE DEF H
  <2>3. {H(v) : v \in {r}} = {H(r)}
    BY Zenon
  <2>4. c = H(r)
    BY <2>1, <2>3, Single
  <2> QED BY <2>2, <2>4, Zenon
<1>2. x = Both(w.ok, r.s, w.s, w.rel)
  <2> DEFINE y == r.s
  <2>1. x = With(w, LAMBDA z : Both(z.ok, y, z.s, z.rel))
    OBVIOUS
  <2> HIDE DEF w, y
  <2>2. x = Both(w.ok, y, w.s, w.rel)
    BY <2>1 DEF With
  <2> QED BY <2>2 DEF y
<1>3. /\ Good(r) /\ MovedTo(p, r.s) /\ NotLess(p, r.s)
      /\ r.ok => /\ n <= p.write_cursor - p.read_cursor
                 /\ r.s.read_cursor = p.read_cursor + n
  BY SkippedRead
<1> HIDE DEF r, x
<1>4. CASE ~r.ok
  <2>1. c = Both(FALSE, p, q, {})
    BY <1>1, <1>4
  <2>2. c.ok = FALSE /\ c.from = p /\ c.to = q /\ c \in BothType
    <3>1. p \in StufferType /\ q \in StufferType
      BY Fields
    <3>2. \A f \in BOOLEAN : Both(f, p, q, {}) \in BothType
      BY <3>1 DEF Both, BothType
    <3>3. c \in BothType
      BY <2>1, <3>2, Zenon
    <3>4. c.ok = FALSE /\ c.from = p /\ c.to = q
      BY <2>1 DEF Both
    <3> QED BY <3>3, <3>4
  <2> QED BY <2>2, Itself
<1>5. CASE r.ok
  <2> DEFINE m == p.blob.mem
             a == p.read_cursor
             b == a + n
  <2>1. m \in Seq(Cell) /\ a \in Nat /\ b \in Nat /\ a <= b /\ b <= Len(m) /\ b - a = n
    BY <1>3, <1>5, Fields, SMTT(60)
  <2>2. bytes = Cut(m, a, b)
    OBVIOUS
  <2> HIDE DEF m, a, b, bytes
  <2>3. bytes \in Seq(Cell) /\ Len(bytes) = b - a /\ \A i \in 1..(b - a) : bytes[i] = m[a + i]
    BY <2>1, <2>2, Pieces, ZenonT(60)
  <2>4. bytes \in Seq(Cell) /\ Len(bytes) = n /\ \A i \in 1..n : bytes[i] = m[a + i]
    BY <2>1, <2>3
  <2>5. /\ Good(w) /\ NotLess(q, w.s) /\ Appended(q, w.s)
        /\ ~w.ok => Kept(q, w.s)
        /\ w.ok => /\ w.s.write_cursor = q.write_cursor + Len(bytes)
                   /\ \A i \in 1..Len(bytes) : w.s.blob.mem[q.write_cursor + i] = bytes[i]
    BY <2>4, WrittenBytes
  <2> HIDE DEF w
  <2>6. c = Both(w.ok, r.s, w.s, w.rel)
    BY <1>1, <1>2, <1>5
  <2>7. c.ok = w.ok /\ c.from = r.s /\ c.to = w.s /\ c \in BothType
    BY <1>3, <2>5, <2>6 DEF Both, BothType, Good, OutType
  <2>8. w.ok => /\ w.s.write_cursor = q.write_cursor + n
                /\ \A i \in 1..n : w.s.blob.mem[q.write_cursor + i] = p.blob.mem[p.read_cursor + i]
    BY <2>4, <2>5 DEF m, a
  <2>9. w.ok => Copied(p, q, c, n)
    BY <1>3, <1>5, <2>5, <2>7, <2>8 DEF Copied
  <2> QED BY <1>3, <1>5, <2>5, <2>7, <2>9 DEF Good
<1> QED BY <1>4, <1>5

\* s2n_stuffer_copy: what copy_impl took is given back when it fails.
LEMMA CopyDone ==
    ASSUME NEW p, Sound(p), NEW q, Sound(q), NEW n \in Nat, NEW malloc \in BOOLEAN,
           NEW c, c = s2n_stuffer_copy(p, q, n, malloc)
    PROVE  /\ GoodBoth(p, q, c)
           /\ c.ok => Copied(p, q, c, n) /\ c.from.read_cursor = p.read_cursor + n
<1> DEFINE d == s2n_stuffer_copy_impl(p, q, n, malloc)
           f == [d.from EXCEPT !.read_cursor = p.read_cursor]
           t == [d.to EXCEPT !.write_cursor = q.write_cursor]
<1>1. c = IF d.ok THEN d ELSE Both(FALSE, f, t, d.rel)
  <2> DEFINE H(y) == IF y.ok THEN y
                     ELSE Both(FALSE, [y.from EXCEPT !.read_cursor = p.read_cursor],
                                      [y.to EXCEPT !.write_cursor = q.write_cursor], y.rel)
  <2>1. c = CHOOSE y \in {H(v) : v \in {d}} : TRUE
    BY Zenon DEF s2n_stuffer_copy, With
  <2>2. H(d) = IF d.ok THEN d ELSE Both(FALSE, f, t, d.rel)
    BY Zenon
  <2> HIDE DEF H
  <2>3. {H(v) : v \in {d}} = {H(d)}
    BY Zenon
  <2>4. c = H(d)
    BY <2>1, <2>3, Single
  <2> QED BY <2>2, <2>4, Zenon
<1>2. /\ d \in BothType /\ Sound(d.from) /\ Sound(d.to)
      /\ NotLess(p, d.from) /\ NotLess(q, d.to) /\ MovedTo(p, d.from)
      /\ ~d.ok => Kept(q, d.to)
      /\ d.ok => Copied(p, q, d, n) /\ d.from.read_cursor = p.read_cursor + n
  BY CopiedImpl
<1> HIDE DEF d
<1>3. CASE d.ok
  BY <1>1, <1>2, <1>3 DEF GoodBoth
<1>4. CASE ~d.ok
  <2>1. p.read_cursor \in Nat /\ p.read_cursor <= d.from.write_cursor
    BY <1>2, Fields DEF MovedTo
  <2>2. Sound(f) /\ MovedTo(d.from, f) /\ NotLess(d.from, f) /\ f.read_cursor = p.read_cursor
        /\ f.blob = d.from.blob
    BY <1>2, <2>1, ReadAt
  <2>3. t = d.to
    <3>1. d.to \in StufferType /\ d.to.write_cursor = q.write_cursor
      BY <1>2, <1>4, Fields DEF Kept
    <3> QED BY <3>1 DEF StufferType
  <2> HIDE DEF f, t
  <2>4. Kept(p, f) /\ NotLess(p, f)
    BY <1>2, <2>2 DEF Kept, MovedTo, NotLess, Same
  <2>5. c = Both(FALSE, f, d.to, d.rel)
    BY <1>1, <1>4, <2>3
  <2>6. c.ok = FALSE /\ c.from = f /\ c.to = d.to /\ c \in BothType
    <3>1. f \in StufferType /\ d.to \in StufferType /\ d.rel \in SUBSET Harmless
      BY <1>2, <2>2, Fields DEF BothType
    <3>2. \A g \in BOOLEAN : Both(g, f, d.to, d.rel) \in BothType
      BY <3>1 DEF Both, BothType
    <3>3. c \in BothType
      BY <2>5, <3>2, Zenon
    <3>4. c.ok = FALSE /\ c.from = f /\ c.to = d.to
      BY <2>5 DEF Both
    <3> QED BY <3>3, <3>4
  <2> QED BY <1>2, <1>4, <2>2, <2>4, <2>6 DEF GoodBoth
<1> QED BY <1>3, <1>4
\* Taking the delimiter too.
LEMMA TokenRead ==
    ASSUME NEW p, Sound(p), NEW q, Sound(q), NEW n \in Nat, NEW malloc \in BOOLEAN,
           n = Run(p, LAMBDA b : b = Delim),
           NEW c, c = s2n_stuffer_read_token(p, q, malloc)
    PROVE  GoodBoth(p, q, c) /\ (c.ok => Copied(p, q, c, n))
<1> DEFINE d == s2n_stuffer_copy(p, q, n, malloc)
           taken == d.ok /\ d.from.read_cursor < d.from.write_cursor
           e == [d EXCEPT !.from.read_cursor = d.from.read_cursor + 1]
<1>1. c = IF taken THEN e ELSE d
  <2> DEFINE H(y) == IF y.ok /\ y.from.read_cursor < y.from.write_cursor
                     THEN [y EXCEPT !.from.read_cursor = y.from.read_cursor + 1]
                     ELSE y
  <2>1. c = CHOOSE y \in {H(v) : v \in {d}} : TRUE
    BY Zenon DEF s2n_stuffer_read_token, With
  <2>2. H(d) = IF taken THEN e ELSE d
    BY Zenon
  <2> HIDE DEF H
  <2>3. {H(v) : v \in {d}} = {H(d)}
    BY Zenon
  <2>4. c = H(d)
    BY <2>1, <2>3, Single
  <2> QED BY <2>2, <2>4, Zenon
<1>2. /\ GoodBoth(p, q, d)
      /\ d.ok => Copied(p, q, d, n) /\ d.from.read_cursor = p.read_cursor + n
  BY CopyDone
<1> HIDE DEF d
<1>3. CASE ~taken
  BY <1>1, <1>2, <1>3
<1>4. CASE taken
  <2> DEFINE a == d.from.read_cursor + 1
             f == [d.from EXCEPT !.read_cursor = a]
  <2>1. Sound(d.from) /\ d \in BothType /\ d.from \in StufferType
    BY <1>2, Fields DEF GoodBoth
  <2>2. a \in Nat /\ a <= d.from.write_cursor
    BY <1>4, <2>1, Fields
  <2>3. e = [d EXCEPT !.from = f]
    BY <2>1 DEF BothType
  <2> HIDE DEF a, e, taken
  <2>4. Sound(f) /\ MovedTo(d.from, f) /\ NotLess(d.from, f) /\ f.read_cursor = a
        /\ f.blob = d.from.blob
    BY <2>1, <2>2, ReadAt
  <2> HIDE DEF f
  <2>5. f \in StufferType
    BY <2>4, Fields
  <2>6. e \in BothType /\ e.ok = d.ok /\ e.from = f /\ e.to = d.to
    BY <2>1, <2>3, <2>5 DEF BothType
  <2>7. NotLess(p, f)
    BY <1>2, <2>1, <2>4, Fields, SMTT(60) DEF NotLess, GoodBoth
  <2>8. c = e /\ d.ok
    BY <1>1, <1>4 DEF taken
  <2>9. GoodBoth(p, q, c)
    BY <1>2, <2>4, <2>6, <2>7, <2>8 DEF GoodBoth
  <2>10. Copied(p, q, c, n)
    <3>1. MovedTo(p, f)
      BY <1>2, <2>4, <2>8 DEF Copied, MovedTo, Same
    <3>2. f.read_cursor = p.read_cursor + n + 1
      BY <1>2, <2>4, <2>8 DEF a
    <3> QED BY <1>2, <2>6, <2>8, <3>1, <3>2 DEF Copied
  <2> QED BY <2>9, <2>10
<1> QED BY <1>3, <1>4

\* What a copy is for the queues.
CopyView(p, q, c, n) ==
    /\ n \in 0..Len(Rest(p))
    /\ Past(c.from) \o Rest(c.from) = Past(p) \o Rest(p)
    /\ Len(Past(c.from)) - Len(Past(p)) \in {n, n + 1}
    /\ Rest(c.to) = Rest(q) \o SubSeq(Rest(p), 1, n)
    /\ Past(c.to) = Past(q)

\* A copy between stuffers is a copy between their queues.
LEMMA CopyIsCopy ==
    ASSUME NEW p, Sound(p), NEW q, Sound(q), NEW n \in Nat, NEW c, GoodBoth(p, q, c), Copied(p, q, c, n)
    PROVE  CopyView(p, q, c, n)
<1> SUFFICES /\ n \in 0..Len(Rest(p))
             /\ Past(c.from) \o Rest(c.from) = Past(p) \o Rest(p)
             /\ Len(Past(c.from)) - Len(Past(p)) \in {n, n + 1}
             /\ Rest(c.to) = Rest(q) \o SubSeq(Rest(p), 1, n)
             /\ Past(c.to) = Past(q)
  BY Zenon DEF CopyView
<1>0. Sound(c.from) /\ Sound(c.to)
  BY DEF GoodBoth
<1>1. n \in 0..Len(Rest(p))
  BY Views, Fields DEF Copied
<1>2. Past(c.from) \o Rest(c.from) = Past(p) \o Rest(p)
  BY <1>0, MovedIsMove DEF Copied
<1>3. Len(Past(c.from)) - Len(Past(p)) \in {n, n + 1}
  <2>1. Len(Past(c.from)) = c.from.read_cursor /\ Len(Past(p)) = p.read_cursor
    BY <1>0, Views
  <2>2. p.read_cursor \in Nat
    BY Fields
  <2> QED BY <2>1, <2>2 DEF Copied
<1>4. Past(c.to) = Past(q)
  BY <1>0, AppendedIsAppend DEF Copied
<1>5. Rest(c.to) = Rest(q) \o SubSeq(Rest(p), 1, n)
  <2> DEFINE m == q.blob.mem
             l == c.to.blob.mem
             a == q.read_cursor
             b == q.write_cursor
             d == b + n
             k == p.blob.mem
             u == p.read_cursor
             v == p.write_cursor
  <2>1. /\ m \in Seq(Cell) /\ l \in Seq(Cell) /\ k \in Seq(Cell)
        /\ Len(m) \in Nat /\ Len(l) \in Nat /\ Len(k) \in Nat
        /\ a \in Nat /\ b \in Nat /\ u \in Nat /\ v \in Nat
        /\ a <= b /\ b <= Len(m) /\ u <= v /\ v <= Len(k)
    BY <1>0, Cursors
  <2>2. c.to.read_cursor = a /\ c.to.write_cursor = d /\ d <= Len(l) /\ n <= v - u
    BY <1>0, Cursors DEF Copied, Appended
  <2>3. /\ \A i \in (0 + 1)..b : l[i] = m[i]
        /\ \A i \in 1..n : l[b + i] = k[u + i]
    BY DEF Copied, Appended, Same
  <2>4. Rest(c.to) = Cut(l, a, d) /\ Rest(q) = Cut(m, a, b) /\ Rest(p) = Cut(k, u, v)
    BY <2>2 DEF Rest
  <2> HIDE DEF m, l, a, b, k, u, v
  <2>5. d \in Nat /\ b <= d /\ b <= Len(l) /\ d - b = n /\ a <= d
    BY <2>1, <2>2
  <2> HIDE DEF d
  <2>6. Cut(l, a, b) = Cut(m, a, b)
    <3>1. \A i \in (a + 1)..b : l[i] = m[i]
      BY <2>1, <2>3
    <3> QED BY <2>1, <2>5, <3>1, CutSame
  <2>7. Cut(l, a, b) \o Cut(l, b, d) = Cut(l, a, d)
    <3>1. a + 1 \in 1..(Len(l) + 1) /\ b \in ((a + 1) - 1)..Len(l) /\ d \in b..Len(l)
      BY <2>1, <2>2, <2>5
    <3> QED BY <2>1, <3>1, ConcatAdjacentSubSeq DEF Cut
  <2>8. Cut(l, b, d) = Cut(Cut(k, u, v), 0, n)
    <3> DEFINE x == Cut(l, b, d)
               y == Cut(k, u, v)
               z == Cut(y, 0, n)
    <3>1. x \in Seq(Cell) /\ Len(x) = d - b /\ \A i \in 1..(d - b) : x[i] = l[b + i]
      <4>1. l \in Seq(Cell) /\ b \in Nat /\ d \in Nat /\ b <= d /\ d <= Len(l)
        BY <2>1, <2>2, <2>5
      <4> QED BY <4>1, Pieces
    <3>2. y \in Seq(Cell) /\ Len(y) = v - u /\ \A i \in 1..(v - u) : y[i] = k[u + i]
      BY <2>1, Pieces, ZenonT(60)
    <3> HIDE DEF x, y
    <3>3. 0 \in Nat /\ 0 <= n /\ n <= Len(y)
      BY <2>2, <3>2
    <3>4. z \in Seq(Cell) /\ Len(z) = n - 0 /\ \A i \in 1..(n - 0) : z[i] = y[0 + i]
      BY <3>2, <3>3, Pieces
    <3> HIDE DEF z
    <3>5. Len(x) = Len(z) /\ \A i \in 1..Len(x) : x[i] = z[i]
      <4>1. Len(x) = n /\ Len(z) = n
        BY <2>5, <3>1, <3>4
      <4>2. \A i \in 1..n : x[i] = z[i]
        <5> TAKE i \in 1..n
        <5>1. x[i] = l[b + i]
          BY <2>5, <3>1
        <5>2. i \in 1..(v - u) /\ i \in 1..(n - 0) /\ 0 + i = i
          BY <2>1, <2>2
        <5>3. z[i] = k[u + i]
          BY <3>2, <3>4, <5>2
        <5> QED BY <2>3, <5>1, <5>3
      <4> QED BY <4>1, <4>2
    <3>6. x = z
      BY <3>1, <3>4, <3>5, SeqEqual
    <3> QED BY <3>6 DEF x, y, z
  <2>9. SubSeq(Rest(p), 1, n) = Cut(Cut(k, u, v), 0, n)
    BY <2>4 DEF Cut
  <2> QED BY <2>4, <2>6, <2>7, <2>8, <2>9
<1> QED BY <1>1, <1>2, <1>3, <1>4, <1>5

\* The first of some places in a sequence.
LEMMA FirstStop ==
    ASSUME NEW a \in Seq(Cell), NEW stops, stops \subseteq 1..Len(a)
    PROVE  (IF stops = {} THEN Len(a) ELSE (CHOOSE i \in stops : \A j \in stops : i <= j) - 1)
              \in 0..Len(a)
<1>1. CASE stops = {}
  BY <1>1
<1>2. CASE stops # {}
  <2>1. stops \subseteq Nat /\ Len(a) \in Nat
    OBVIOUS
  <2>2. PICK i \in stops : \A j \in stops : ~(<<j, i>> \in OpToRel(<, Nat))
    BY <1>2, <2>1, WFMin, NatLessThanWellFounded
  <2>3. \A j \in stops : i <= j
    <3> TAKE j \in stops
    <3>1. ~(j < i)
      BY <2>1, <2>2 DEF OpToRel
    <3> QED BY <2>1, <3>1
  <2> DEFINE k == CHOOSE x \in stops : \A j \in stops : x <= j
  <2>4. k \in stops
    BY <2>3
  <2> HIDE DEF k
  <2>5. k - 1 \in 0..Len(a)
    BY <2>1, <2>4
  <2> QED BY <1>2, <2>5 DEF k
<1> QED BY <1>1, <1>2

\* A run of text does not pass the write cursor.
LEMMA RunBounds ==
    ASSUME NEW s, Sound(s)
    PROVE  /\ Run(s, LAMBDA b : b # Delim) \in 0..(s.write_cursor - s.read_cursor)
           /\ Run(s, LAMBDA b : b = Delim) \in 0..(s.write_cursor - s.read_cursor)
<1> DEFINE a == Ahead(s)
           S == {i \in DOMAIN a : a[i] # Delim}
           T == {i \in DOMAIN a : a[i] = Delim}
<1>1. a \in Seq(Cell) /\ Len(a) = s.write_cursor - s.read_cursor
  BY Views DEF Ahead, Rest, Cut
<1> HIDE DEF a
<1>2. S \subseteq 1..Len(a) /\ T \subseteq 1..Len(a)
  BY <1>1
<1>3. Run(s, LAMBDA b : b # Delim) = IF S = {} THEN Len(a) ELSE (CHOOSE i \in S : \A j \in S : i <= j) - 1
  BY Zenon DEF Run, a
<1>4. Run(s, LAMBDA b : b = Delim) = IF T = {} THEN Len(a) ELSE (CHOOSE i \in T : \A j \in T : i <= j) - 1
  BY Zenon DEF Run, a
<1> HIDE DEF S, T
<1>5. Run(s, LAMBDA b : b # Delim) \in 0..Len(a)
  BY <1>1, <1>2, <1>3, FirstStop
<1>6. Run(s, LAMBDA b : b = Delim) \in 0..Len(a)
  BY <1>1, <1>2, <1>4, FirstStop
<1> QED BY <1>1, <1>5, <1>6
-----------------------------------------------------------------------------
\* A call that only reads: it moves the boundary, or leaves it when it fails.
Reads(s, r) == Good(r) /\ MovedTo(s, r.s) /\ NotLess(s, r.s) /\ (~r.ok => Kept(s, r.s))

\* Moving the read cursor ahead by no more than there is.
LEMMA ReadAhead ==
    ASSUME NEW s, Sound(s), NEW n \in 0..(s.write_cursor - s.read_cursor),
           NEW r, r = Ok([s EXCEPT !.read_cursor = s.read_cursor + n])
    PROVE  Reads(s, r)
<1> DEFINE a == s.read_cursor + n
           t == [s EXCEPT !.read_cursor = a]
<1>1. a \in Nat /\ a <= s.write_cursor
  BY Fields
<1>2. r = Ok(t)
  OBVIOUS
<1> HIDE DEF a
<1>3. Sound(t) /\ MovedTo(s, t) /\ NotLess(s, t)
  BY <1>1, ReadAt
<1> HIDE DEF t
<1> QED BY <1>2, <1>3, OkNo DEF Reads

\* The text skips move the boundary.
LEMMA SkippedText ==
    ASSUME NEW s, Sound(s), NEW r,
           \/ r = Ok(s2n_stuffer_skip_whitespace(s))
           \/ r = Ok(s2n_stuffer_skip_to_char(s))
           \/ r = [s2n_stuffer_skip_expected_char(s, 1, 2) EXCEPT !.ok = TRUE]
    PROVE  Reads(s, r)
<1> DEFINE k == Run(s, LAMBDA b : b # Delim)
           l == Run(s, LAMBDA b : b = Delim)
<1>1. k \in 0..(s.write_cursor - s.read_cursor) /\ l \in 0..(s.write_cursor - s.read_cursor)
  BY RunBounds, Zenon
<1>2. CASE r = Ok(s2n_stuffer_skip_whitespace(s))
  <2>1. r = Ok([s EXCEPT !.read_cursor = s.read_cursor + k])
    BY <1>2, Zenon DEF s2n_stuffer_skip_whitespace
  <2> HIDE DEF k
  <2> QED BY <1>1, <2>1, ReadAhead
<1>3. CASE r = Ok(s2n_stuffer_skip_to_char(s))
  <2>1. r = Ok([s EXCEPT !.read_cursor = s.read_cursor + l])
    BY <1>3, Zenon DEF s2n_stuffer_skip_to_char
  <2> HIDE DEF l
  <2> QED BY <1>1, <2>1, ReadAhead
<1>4. CASE r = [s2n_stuffer_skip_expected_char(s, 1, 2) EXCEPT !.ok = TRUE]
  <2> DEFINE n == Lesser(k, 2)
             t == [s EXCEPT !.read_cursor = s.read_cursor + n]
  <2>1. s2n_stuffer_skip_expected_char(s, 1, 2) = Out(n >= 1, t, {})
    BY Zenon DEF s2n_stuffer_skip_expected_char
  <2> HIDE DEF k, l
  <2>2. n \in 0..(s.write_cursor - s.read_cursor)
    BY <1>1, Fields DEF Lesser
  <2> HIDE DEF n
  <2>3. r = [Out(n >= 1, t, {}) EXCEPT !.ok = TRUE]
    BY <1>4, <2>1
  <2> HIDE DEF t
  <2>4. r = Ok(t)
    BY <2>3 DEF Ok, Out
  <2> QED BY <2>2, <2>4, ReadAhead DEF t
<1> QED BY <1>2, <1>3, <1>4

\* s2n_stuffer_read_expected_str moves the boundary and
\* s2n_stuffer_peek_check_for_str puts it back.
LEMMA ReadString ==
    ASSUME NEW s, Sound(s), NEW str \in Seq(Cell), NEW r,
           \/ r = s2n_stuffer_read_expected_str(s, str)
           \/ r = s2n_stuffer_peek_check_for_str(s, str)
    PROVE  Reads(s, r)
<1> DEFINE o == s2n_stuffer_read_expected_str(s, str)
           n == Len(str)
           t == [s EXCEPT !.read_cursor = s.read_cursor + n]
<1>1. o = No(s) \/ (o = Ok(t) /\ n <= s.write_cursor - s.read_cursor)
  BY DEF s2n_stuffer_read_expected_str, s2n_stuffer_data_available
<1>2. n \in Nat
  OBVIOUS
<1> HIDE DEF n, o
<1>3. Reads(s, o)
  <2>1. CASE o = No(s)
    BY <2>1, OkNo, Itself DEF Reads
  <2>2. CASE o = Ok(t) /\ n <= s.write_cursor - s.read_cursor
    <3>1. n \in 0..(s.write_cursor - s.read_cursor)
      BY <1>2, <2>2, Fields
    <3> QED BY <2>2, <3>1, ReadAhead
  <2> QED BY <1>1, <2>1, <2>2
<1>4. CASE r = s2n_stuffer_read_expected_str(s, str)
  BY <1>3, <1>4 DEF o
<1>5. CASE r = s2n_stuffer_peek_check_for_str(s, str)
  <2> DEFINE f == [o.s EXCEPT !.read_cursor = s.read_cursor]
  <2>1. r = [o EXCEPT !.s.read_cursor = s.read_cursor]
    BY <1>5 DEF s2n_stuffer_peek_check_for_str, o
  <2>2. r = [o EXCEPT !.s = f]
    BY <1>3, <2>1 DEF Reads, Good, OutType, Sound
  <2>3. s.read_cursor \in Nat /\ s.read_cursor <= o.s.write_cursor /\ Sound(o.s)
    BY <1>3, Fields DEF Reads, MovedTo, Good
  <2>4. /\ Sound(f) /\ MovedTo(o.s, f) /\ NotLess(o.s, f)
        /\ f.read_cursor = s.read_cursor /\ f.blob = o.s.blob
    BY <2>3, ReadAt
  <2> HIDE DEF f
  <2>5. Good(r) /\ r.s = f
    BY <1>3, <2>2, <2>4, WithStuffer DEF Reads
  <2>6. Kept(s, f) /\ MovedTo(s, f) /\ NotLess(s, f)
    BY <1>3, <2>4 DEF Reads, Kept, MovedTo, NotLess, Same
  <2> QED BY <2>5, <2>6 DEF Reads
<1> QED BY <1>4, <1>5

\* s2n_stuffer_reread moves the boundary back to the start.
LEMMA RereadMoves ==
    ASSUME NEW s, Sound(s), NEW r, r = Ok(s2n_stuffer_reread(s))
    PROVE  Reads(s, r)
<1> DEFINE t == [s EXCEPT !.read_cursor = 0]
<1>1. 0 \in Nat /\ 0 <= s.write_cursor
  BY Fields
<1>2. Sound(t) /\ MovedTo(s, t) /\ NotLess(s, t)
  BY <1>1, ReadAt
<1>3. r = Ok(t)
  BY DEF s2n_stuffer_reread
<1> HIDE DEF t
<1> QED BY <1>2, <1>3, OkNo DEF Reads

\* s2n_stuffer_rewrite drops everything; the mark stays, so a later wipe
\* reaches what was written before.
LEMMA RewriteDrops ==
    ASSUME NEW s, Sound(s), NEW t, t = s2n_stuffer_rewrite(s)
    PROVE  Sound(t) /\ Dropped(s, t)
<1>1. s \in StufferType
  BY Fields
<1>2. /\ t \in StufferType /\ t.blob = s.blob /\ t.read_cursor = 0 /\ t.alloced = s.alloced
      /\ t.write_cursor = 0 /\ t.high_water_mark = s.high_water_mark
      /\ t.growable = s.growable
  BY <1>1 DEF StufferType, s2n_stuffer_rewrite
<1>3. t.read_cursor <= t.write_cursor /\ t.write_cursor <= t.high_water_mark
      /\ t.high_water_mark <= s.blob.size /\ t.high_water_mark >= s.high_water_mark
  BY <1>2, Fields
<1>4. Sound(t)
  BY <1>1, <1>2, <1>3, Placed
<1> QED BY <1>2, <1>4, Fields DEF Dropped, Same

\* s2n_stuffer_wipe_n drops the last bytes and wipes them.
LEMMA WipedEnd ==
    ASSUME NEW s, Sound(s), NEW n \in Nat, NEW t, t = s2n_stuffer_wipe_n(s, n)
    PROVE  Sound(t) /\ Dropped(s, t)
<1>1. CASE n >= s.write_cursor
  <2>1. t = s2n_stuffer_wipe(s)
    BY <1>1 DEF s2n_stuffer_wipe_n
  <2> QED BY <2>1, Wiped
<1>2. CASE ~(n >= s.write_cursor)
  <2> DEFINE m == s.blob.mem
             b == s.write_cursor
             w == b - n
             h == s.high_water_mark
             f == Fill(m, w, w + n, WIPE)
             a == Lesser(s.read_cursor, w)
             u == [s EXCEPT !.write_cursor = w, !.read_cursor = a]
  <2>1. /\ m \in Seq(Cell) /\ Len(m) \in Nat /\ b \in Nat /\ w \in Nat /\ h \in Nat
        /\ b <= h /\ w <= b /\ h <= Len(m) /\ WIPE \in Cell
    BY <1>2, Fields, Cells
  <2>2. \A i \in 1..Len(m) : i > h => m[i] \in Harmless
    BY Fields
  <2>3. a \in Nat /\ a <= w /\ a <= s.read_cursor
    BY <2>1, Fields DEF Lesser
  <2>4. t = [s EXCEPT !.write_cursor = w, !.blob.mem = f, !.read_cursor = a]
    BY <1>2 DEF s2n_stuffer_wipe_n
  <2> HIDE DEF a, f
  <2>5. t = WithBytes(u, f)
    <3>1. s \in StufferType
      BY Fields
    <3> QED BY <2>4, <3>1 DEF WithBytes, StufferType
  <2>6. /\ f \in Seq(Cell) /\ Len(f) = Len(m)
        /\ \A i \in 1..Len(m) : f[i] = IF i > w /\ i <= w + n THEN WIPE ELSE m[i]
    <3> HIDE DEF m, b, w, h
    <3>1. m \in Seq(Cell) /\ w \in Nat /\ w + n \in Nat /\ WIPE \in Cell
      BY <2>1
    <3> QED BY <3>1, Filled, ZenonT(60) DEF f
  <2>7. Sound(u) /\ u.blob = s.blob /\ u.high_water_mark = s.high_water_mark
        /\ u.write_cursor = w /\ u.read_cursor = a
    <3>1. s \in StufferType
      BY Fields
    <3> HIDE DEF w
    <3>2. /\ u \in StufferType /\ u.blob = s.blob /\ u.read_cursor = a /\ u.alloced = s.alloced
          /\ u.write_cursor = w /\ u.high_water_mark = s.high_water_mark
          /\ u.growable = s.growable
      BY <2>1, <2>3, <3>1 DEF StufferType
    <3> HIDE DEF u
    <3>3. u.read_cursor <= u.write_cursor /\ u.write_cursor <= u.high_water_mark
          /\ u.high_water_mark <= s.blob.size /\ u.high_water_mark >= s.high_water_mark
      BY <2>1, <2>3, <3>2, Fields
    <3> QED BY <3>2, <3>3, Placed
  <2> HIDE DEF u
  <2>8. Quiet(f, h)
    <3>1. w + n = b
      BY <2>1
    <3> HIDE DEF m, b, w, h
    <3> QED BY <2>1, <2>2, <2>6, <3>1 DEF Quiet
  <2>9. Len(f) = Len(u.blob.mem) /\ Quiet(f, u.high_water_mark)
    BY <2>6, <2>7, <2>8
  <2>10. /\ Sound(t) /\ t.blob.mem = f /\ t.read_cursor = a /\ t.write_cursor = w
    BY <2>5, <2>6, <2>7, <2>9, Rewritten
  <2>11. \A i \in (0 + 1)..w : f[i] = m[i]
    <3> HIDE DEF m, b, w, h
    <3> QED BY <2>1, <2>6
  <2> QED BY <2>1, <2>3, <2>10, <2>11 DEF Dropped, Same
<1> QED BY <1>1, <1>2
\* A stuffer that holds nothing yet.
Fresh(b, alloced, growable) ==
    [blob |-> b, read_cursor |-> 0, write_cursor |-> 0, high_water_mark |-> 0,
     alloced |-> alloced, growable |-> growable, tainted |-> FALSE]

\* A stuffer over a blob of harmless bytes is sound.
LEMMA FreshSound ==
    ASSUME NEW b, BlobSound(b), Quiet(b.mem, 0), NEW alloced \in BOOLEAN, NEW growable \in BOOLEAN,
           growable => alloced, alloced => s2n_blob_is_growable(b)
    PROVE  LET t == Fresh(b, alloced, growable)
           IN  Sound(t) /\ t.read_cursor = 0 /\ t.write_cursor = 0
<1> DEFINE t == Fresh(b, alloced, growable)
<1>1. \A f \in BOOLEAN :
        [blob |-> b, read_cursor |-> 0, write_cursor |-> 0, high_water_mark |-> 0,
         alloced |-> alloced, growable |-> growable, tainted |-> f] \in StufferType
  BY DEF StufferType, BlobSound
<1>2. t \in StufferType
  BY <1>1, Zenon DEF Fresh
<1>3. t.blob = b /\ t.read_cursor = 0 /\ t.write_cursor = 0 /\ t.high_water_mark = 0
  BY DEF Fresh
<1>4. t.alloced = alloced /\ t.growable = growable
  BY DEF Fresh
<1> HIDE DEF t
<1>5. s2n_stuffer_validate(t)
  BY <1>3, <1>4 DEF s2n_stuffer_validate, BlobSound, BlobType
<1>6. Sound(t)
  BY <1>2, <1>3, <1>4, <1>5 DEF Sound, Quiet
<1> QED BY <1>3, <1>6 DEF t

\* The stuffer of no blob is sound.
LEMMA NoStufferSound == Sound(NoStuffer) /\ NoStuffer.read_cursor = 0 /\ NoStuffer.write_cursor = 0
<1>1. Quiet(NoBlob.mem, 0)
  BY EmptyMemory DEF NoBlob, Quiet
<1>2. \A f, g \in BOOLEAN : f = FALSE /\ g = FALSE =>
         LET t == Fresh(NoBlob, f, g) IN Sound(t) /\ t.read_cursor = 0 /\ t.write_cursor = 0
  BY <1>1, NoBlobSound, FreshSound
<1>3. NoStuffer = Fresh(NoBlob, FALSE, FALSE)
  BY Zenon DEF NoStuffer, s2n_stuffer_init, Fresh
<1> QED BY <1>2, <1>3, Zenon

\* s2n_stuffer_alloc makes a sound stuffer, which holds nothing.
LEMMA Allocated ==
    ASSUME NEW n \in Nat, NEW growable \in BOOLEAN, NEW malloc \in BOOLEAN,
           NEW r, r = s2n_stuffer_alloc(n, growable, malloc)
    PROVE  Good(r) /\ Kept(NoStuffer, r.s)
<1> DEFINE x == s2n_alloc(n, malloc)
           t == [s2n_stuffer_init(x.blob) EXCEPT !.alloced = TRUE, !.growable = growable]
<1>1. r = IF x.ok THEN Ok(t) ELSE No(NoStuffer)
  BY DEF s2n_stuffer_alloc, With
<1>2. NoBlob.size = 0 /\ NoBlob.mem = <<>> /\ Len(NoBlob.mem) = 0
  BY EmptyMemory DEF NoBlob
<1>3. /\ x.ok \in BOOLEAN /\ BlobSound(x.blob) /\ s2n_blob_is_growable(x.blob)
      /\ x.ok => \A i \in 1..Len(x.blob.mem) : x.blob.mem[i] = 0
  <2>1. n >= NoBlob.size /\ x = s2n_realloc(NoBlob, n, malloc)
    BY <1>2 DEF s2n_alloc
  <2> HIDE DEF x
  <2>2. /\ x.ok \in BOOLEAN /\ BlobSound(x.blob) /\ s2n_blob_is_growable(x.blob)
        /\ x.ok => \A i \in 1..Len(x.blob.mem) :
              i > NoBlob.size => x.blob.mem[i] = 0 \/ (i <= Len(NoBlob.mem) /\ x.blob.mem[i] = NoBlob.mem[i])
    <3> DEFINE b == NoBlob
               y == s2n_realloc(b, n, malloc)
    <3>1. BlobSound(b) /\ s2n_blob_is_growable(b) /\ n >= b.size /\ x = y
      BY <2>1, NoBlobSound
    <3> HIDE DEF b
    <3>2. /\ y.ok \in BOOLEAN /\ y.rel \subseteq {0}
          /\ BlobSound(y.blob) /\ s2n_blob_is_growable(y.blob)
          /\ ~y.ok => y.blob = b
          /\ y.ok => /\ y.blob.size = n
                     /\ \A i \in 1..b.size : y.blob.mem[i] = b.mem[i]
                     /\ \A i \in 1..Len(y.blob.mem) :
                               i > b.size => y.blob.mem[i] = 0 \/ (i <= Len(b.mem) /\ y.blob.mem[i] = b.mem[i])
      BY <3>1, Reallocated
    <3> HIDE DEF y
    <3> QED BY <3>1, <3>2, Zenon DEF b
  <2>3. Len(x.blob.mem) \in Nat
    BY <2>2 DEF BlobSound, BlobType
  <2> QED BY <1>2, <2>2, <2>3
<1> HIDE DEF x
<1>4. CASE ~x.ok
  <2>1. Good(r) /\ r.s = NoStuffer
    BY <1>1, <1>4, NoStufferSound, OkNo
  <2> QED BY <2>1, NoStufferSound, Itself
<1>5. CASE x.ok
  <2>1. Sound(t) /\ t.read_cursor = 0 /\ t.write_cursor = 0
    <3> DEFINE no == FALSE
               yes == TRUE
               b == x.blob
               i == [blob |-> b, read_cursor |-> 0, write_cursor |-> 0, high_water_mark |-> 0,
                     alloced |-> no, growable |-> no, tainted |-> no]
               j == [i EXCEPT !.alloced = yes]
    <3>1. t = [j EXCEPT !.growable = growable]
      BY Zenon DEF s2n_stuffer_init
    <3>2. t = Fresh(x.blob, TRUE, growable)
      <4> HIDE DEF no, yes, b
      <4>1. j = [blob |-> b, read_cursor |-> 0, write_cursor |-> 0, high_water_mark |-> 0,
                 alloced |-> yes, growable |-> no, tainted |-> no]
        OBVIOUS
      <4> HIDE DEF j, t
      <4>2. t = [blob |-> b, read_cursor |-> 0, write_cursor |-> 0, high_water_mark |-> 0,
                 alloced |-> yes, growable |-> growable, tainted |-> no]
        BY <3>1, <4>1
      <4> QED BY <4>2, Zenon DEF Fresh, no, yes, b
    <3>3. Quiet(x.blob.mem, 0)
      BY <1>3, <1>5 DEF Quiet, Harmless
    <3>4. \A f \in BOOLEAN : f = TRUE =>
             LET y == Fresh(x.blob, f, growable)
             IN  Sound(y) /\ y.read_cursor = 0 /\ y.write_cursor = 0
      BY <1>3, <3>3, FreshSound
    <3> QED BY <3>2, <3>4, Zenon
  <2>2. r = Ok(t)
    BY <1>1, <1>5
  <2> HIDE DEF t
  <2>3. Good(r) /\ r.s = t
    BY <2>1, <2>2, OkNo
  <2>4. Kept(NoStuffer, t)
    BY <2>1, NoStufferSound DEF Kept, Same
  <2> QED BY <2>3, <2>4
<1> QED BY <1>3, <1>4, <1>5

\* s2n_stuffer_free succeeds on an allocated stuffer and leaves nothing.
LEMMA FreedStuffer ==
    ASSUME NEW s, Sound(s), s.alloced, NEW r, r = s2n_stuffer_free(s)
    PROVE  Good(r) /\ r.ok /\ Dropped(s, r.s)
<1> DEFINE x == s2n_free(s.blob)
<1>1. r = Out(x.ok, NoStuffer, x.rel)
  BY DEF s2n_stuffer_free, With
<1>2. x.ok = TRUE /\ x.rel \subseteq {0}
  BY Fields, Freed
<1> HIDE DEF x
<1>3. x.ok \in BOOLEAN /\ x.rel \in SUBSET Harmless
  BY <1>2 DEF Harmless
<1>4. Good(r) /\ r.ok = x.ok /\ r.s = NoStuffer
  BY <1>1, <1>3, NoStufferSound, OutIsGood
<1>5. Dropped(s, NoStuffer)
  BY NoStufferSound, Fields DEF Dropped, Same
<1> QED BY <1>2, <1>4, <1>5

\* s2n_stuffer_reserve appends one byte.
LEMMA Reserved ==
    ASSUME NEW s, Sound(s), NEW malloc \in BOOLEAN, NEW r, r = s2n_stuffer_reserve(s, 1, malloc)
    PROVE  /\ Good(r) /\ NotLess(s, r.s) /\ Appended(s, r.s)
           /\ ~r.ok => Kept(s, r.s)
           /\ r.ok => r.s.write_cursor = s.write_cursor + 1
<1> DEFINE bytes == [i \in 1..1 |-> WIPE]
<1>1. bytes \in Seq(Cell) /\ Len(bytes) = 1
  BY Cells
<1>2. r = s2n_stuffer_write_bytes(s, bytes, malloc)
  BY Zenon DEF s2n_stuffer_reserve
<1> HIDE DEF bytes
<1> DEFINE o == s2n_stuffer_write_bytes(s, bytes, malloc)
<1>3. /\ Good(o) /\ NotLess(s, o.s) /\ Appended(s, o.s)
      /\ ~o.ok => Kept(s, o.s)
      /\ o.ok => /\ o.s.write_cursor = s.write_cursor + Len(bytes)
                 /\ \A i \in 1..Len(bytes) : o.s.blob.mem[s.write_cursor + i] = bytes[i]
  <2>1. bytes \in Seq(Cell)
    BY <1>1
  <2> QED BY <2>1, WrittenBytes
<1> HIDE DEF o
<1>4. r = o
  BY <1>2 DEF o
<1> QED BY <1>1, <1>3, <1>4

\* The length filled in: one byte where it was reserved.
LEMMA FilledIn ==
    ASSUME NEW s, Sound(s), NEW v, v.write_cursor \in Nat, v.length = 1,
           v.write_cursor < s.write_cursor,
           NEW r, r = s2n_stuffer_write_vector_size(s, v)
    PROVE  Good(r) /\ (r.ok => Patched(s, r.s)) /\ (~r.ok => r.s = s)
<1> DEFINE no == FALSE
           k == v.write_cursor
           b == s.write_cursor
           u == b - k - 1
           bytes == NetworkOrder(u, 1)
           e == [s EXCEPT !.write_cursor = k]
           o == s2n_stuffer_write_bytes(e, bytes, no)
<1>1. k \in Nat /\ b \in Nat /\ u \in Nat /\ k + 1 <= b
  BY Fields
<1>2. r = No(s) \/ r = [o EXCEPT !.s.write_cursor = b]
  BY <1>1 DEF s2n_stuffer_write_vector_size, s2n_stuffer_write_reservation,
              s2n_stuffer_write_network_order
<1>3. bytes \in Seq(Cell) /\ Len(bytes) = 1
  <2>1. bytes[1] \in Cell
    BY <1>1 DEF Cell
  <2>2. DOMAIN bytes = 1..1
    BY DEF NetworkOrder
  <2>3. bytes = [i \in 1..1 |-> bytes[1]]
    BY <2>2 DEF NetworkOrder
  <2> HIDE DEF bytes
  <2>4. \A x \in Cell : [i \in 1..1 |-> x] \in Seq(Cell) /\ Len([i \in 1..1 |-> x]) = 1
    OBVIOUS
  <2> QED BY <2>1, <2>3, <2>4
<1>4. s \in StufferType /\ s.blob \in BlobType /\ s.blob.mem \in Seq(Cell)
  BY Fields
<1>0. no \in BOOLEAN
  OBVIOUS
<1> HIDE DEF bytes, u, no
<1>5. /\ e \in StufferType /\ e.blob = s.blob /\ e.write_cursor = k
      /\ e.high_water_mark = s.high_water_mark /\ e.read_cursor = s.read_cursor
      /\ e.alloced = s.alloced /\ e.growable = s.growable
  BY <1>1, <1>4 DEF StufferType
<1>6. CASE r = No(s)
  BY <1>6, OkNo
<1>7. CASE r = [o EXCEPT !.s.write_cursor = b]
  <2> DEFINE z == s2n_stuffer_reserve_space(e, Len(bytes), no)
             h == Larger(e.write_cursor + Len(bytes), z.s.high_water_mark)
             y == [z.s EXCEPT !.write_cursor = e.write_cursor + Len(bytes), !.high_water_mark = h]
             x == s2n_stuffer_skip_write(e, Len(bytes), no)
             p == Put(x.s.blob.mem, e.write_cursor, bytes)
             q == [x.s EXCEPT !.blob.mem = p]
  <2>1. z = Ok(e)
    <3> DEFINE short == Len(bytes) - s2n_stuffer_space_remaining(e)
    <3>1. e.blob.size \in Nat /\ e.write_cursor = k /\ e.blob.size >= b
      BY <1>5, Fields
    <3> HIDE DEF e
    <3>2. short <= 0
      BY <1>1, <1>3, <3>1 DEF s2n_stuffer_space_remaining
    <3> HIDE DEF short
    <3> QED BY <3>2, Zenon DEF s2n_stuffer_reserve_space, short
  <2>2. x = IF z.ok THEN [z EXCEPT !.s = y] ELSE z
    BY DEF s2n_stuffer_skip_write, After, With
  <2>3. o = IF x.ok THEN [x EXCEPT !.s = q] ELSE x
    BY SMTT(60) DEF s2n_stuffer_write_bytes, After, With
  <2> HIDE DEF z, x, o, e
  <2>4. z.ok = TRUE /\ z.s = e
    BY <2>1 DEF Ok, Out
  <2>5. h = s.high_water_mark /\ e.write_cursor + Len(bytes) = k + 1
    BY <1>1, <1>3, <1>5, <2>4, Fields DEF Larger
  <2> HIDE DEF h
  <2>6. y = [e EXCEPT !.write_cursor = k + 1, !.high_water_mark = s.high_water_mark]
    BY <2>4, <2>5
  <2> HIDE DEF y
  <2>7. x = Ok(y)
    BY <2>1, <2>2, <2>4 DEF Ok, Out
  <2>8. x.ok = TRUE /\ x.s = y
    BY <2>7 DEF Ok, Out
  <2>9. /\ y \in StufferType /\ y.blob = s.blob /\ y.read_cursor = s.read_cursor
        /\ y.high_water_mark = s.high_water_mark
    <3> DEFINE hw == s.high_water_mark
    <3>1. hw \in Nat /\ k + 1 \in Nat
      BY <1>1, Fields
    <3> HIDE DEF hw
    <3>2. y = [e EXCEPT !.write_cursor = k + 1, !.high_water_mark = hw]
      BY <2>6 DEF hw
    <3>3. y \in StufferType
      BY <1>5, <3>1, <3>2 DEF StufferType
    <3>4. y.blob = e.blob /\ y.read_cursor = e.read_cursor /\ y.high_water_mark = hw
      BY <1>5, <3>2 DEF StufferType
    <3> QED BY <1>5, <3>3, <3>4 DEF hw
  <2>10. p = Put(s.blob.mem, k, bytes) /\ q = [y EXCEPT !.blob.mem = p]
    BY <1>5, <2>8, <2>9
  <2> HIDE DEF p, q
  <2>11. o = Ok(q)
    BY <2>3, <2>7, <2>8 DEF Ok, Out
  <2> DEFINE t == WithBytes(s, p)
  <2>12. [q EXCEPT !.write_cursor = b] = t
    <3>1. y = [s EXCEPT !.write_cursor = k + 1, !.high_water_mark = s.high_water_mark]
      BY <1>4, <1>5, <2>6 DEF e, StufferType
    <3>2. q = [s EXCEPT !.write_cursor = k + 1, !.high_water_mark = s.high_water_mark, !.blob.mem = p]
      BY <1>4, <2>10, <3>1 DEF StufferType
    <3> QED BY <1>4, <3>2 DEF WithBytes, StufferType
  <2>13. r = Ok(t)
    <3>1. o = [ok |-> TRUE, s |-> q, rel |-> {}]
      BY <2>11 DEF Ok, Out
    <3>2. r = [ok |-> TRUE, s |-> [q EXCEPT !.write_cursor = b], rel |-> {}]
      BY <1>7, <3>1
    <3> QED BY <2>12, <3>2 DEF Ok, Out
  <2>14. /\ p \in Seq(Cell) /\ Len(p) = Len(s.blob.mem)
         /\ \A i \in 1..Len(s.blob.mem) :
                 p[i] = IF i > k /\ i <= k + Len(bytes) THEN bytes[i - k] ELSE s.blob.mem[i]
    <3> DEFINE m == s.blob.mem
    <3>1. m \in Seq(Cell) /\ k \in Nat /\ bytes \in Seq(Cell) /\ p = Put(m, k, bytes)
      BY <1>1, <1>3, <1>4, <2>10
    <3> HIDE DEF m, k
    <3>2. /\ p \in Seq(Cell) /\ Len(p) = Len(m)
          /\ \A i \in 1..Len(m) :
                p[i] = IF i > k /\ i <= k + Len(bytes) THEN bytes[i - k] ELSE m[i]
      BY <3>1, PutIn
    <3> QED BY <3>2 DEF m
  <2>15. Quiet(p, s.high_water_mark)
    BY <1>1, <1>3, <2>14, Fields, SMTT(60) DEF Quiet
  <2>16. /\ Sound(t) /\ t.blob.mem = p
         /\ t.read_cursor = s.read_cursor /\ t.write_cursor = s.write_cursor
    BY <2>14, <2>15, Rewritten
  <2>17. \A i \in (1..b) \ {k + 1} : p[i] = s.blob.mem[i]
    <3> DEFINE m == s.blob.mem
    <3>1. b \in Nat /\ b <= Len(m) /\ Len(m) \in Nat
      BY Fields, SMTT(60)
    <3> HIDE DEF m, k, b
    <3>2. \A i \in 1..Len(m) :
                p[i] = IF i > k /\ i <= k + Len(bytes) THEN bytes[i - k] ELSE m[i]
      BY <2>14 DEF m
    <3>3. \A i \in (1..b) \ {k + 1} : p[i] = m[i]
      BY <1>1, <1>3, <3>1, <3>2
    <3> QED BY <3>3 DEF m
  <2>18. Patched(s, t)
    <3>1. k + 1 \in 1..s.write_cursor
      BY <1>1
    <3>2. \A i \in (1..s.write_cursor) \ {k + 1} : t.blob.mem[i] = s.blob.mem[i]
      BY <2>16, <2>17
    <3> QED BY <2>16, <3>1, <3>2 DEF Patched
  <2> HIDE DEF t
  <2>19. Good(r) /\ r.ok = TRUE /\ r.s = t
    BY <2>13, <2>16, OkNo
  <2> QED BY <2>18, <2>19
<1> QED BY <1>2, <1>6, <1>7

-----------------------------------------------------------------------------
\* What every call finds and leaves: sound stuffers, and no byte given back.
Shape ==
    /\ stuffer \in [Stuffers -> StufferType]
    /\ \A q \in Stuffers : Sound(stuffer[q])
    /\ leaked = FALSE

\* A reservation is behind the write cursor.
Holds(s, v) ==
    v = NoReservation \/ (v.write_cursor \in Nat /\ v.length = 1 /\ v.write_cursor < s.write_cursor)

IInv == Shape /\ Holds(stuffer["s"], reservation)

Others(q) == \A p \in Stuffers \ {q} : stuffer'[p] = stuffer[p]

\* The two stuffers.
LEMMA Names == "s" \in Stuffers /\ "token" \in Stuffers /\ "s" # "token"
  BY DEF Stuffers

\* What the step of a call on one stuffer leaves, given its result.
LEMMA OneCall ==
    ASSUME Shape, NEW q \in Stuffers, NEW r, Good(r), Did(q, r)
    PROVE  /\ Shape' /\ stuffer'[q] = r.s /\ Others(q)
           /\ r.ok => call' = "one"
           /\ ~r.ok => call' = "failed"
<1>1. /\ stuffer' = [stuffer EXCEPT ![q] = r.s]
      /\ leaked' = (leaked \/ ~(r.rel \subseteq Harmless))
      /\ call' = IF r.ok THEN "one" ELSE "failed"
  BY DEF Did
<1>2. Sound(r.s) /\ r.s \in StufferType /\ r.rel \subseteq Harmless
  BY DEF Good, OutType
<1>3. leaked' = FALSE
  BY <1>1, <1>2, Zenon DEF Shape
<1>4. /\ stuffer' \in [Stuffers -> StufferType] /\ stuffer'[q] = r.s /\ Others(q)
  BY <1>1, <1>2 DEF Shape, Others
<1>5. \A p \in Stuffers : Sound(stuffer'[p])
  BY <1>2, <1>4, Zenon DEF Shape, Others
<1> QED BY <1>1, <1>3, <1>4, <1>5, Zenon DEF Shape

\* The queues that the stuffers are.
PastNow == [q \in Stuffers |-> SubSeq(stuffer[q].blob.mem, 1, stuffer[q].read_cursor)]
RestNow == [q \in Stuffers |-> Ahead(stuffer[q])]

\* The queues are what the stuffers have read and have ahead.
LEMMA ViewsNow ==
    /\ \A q \in Stuffers : PastNow[q] = Past(stuffer[q]) /\ RestNow[q] = Rest(stuffer[q])
    /\ \A q \in Stuffers : PastNow'[q] = Past(stuffer'[q]) /\ RestNow'[q] = Rest(stuffer'[q])
<1>1. 0 + 1 = 1
  OBVIOUS
<1>2. \A s : Past(s) = SubSeq(s.blob.mem, 1, s.read_cursor) /\ Rest(s) = Ahead(s)
  BY <1>1, Zenon DEF Past, Rest, Cut, Ahead
<1> QED BY <1>2, Zenon DEF PastNow, RestNow

\* The queues of the stuffers that a call does not touch stay.
LEMMA Unmoved ==
    ASSUME NEW q, Others(q)
    PROVE  \A p \in Stuffers \ {q} : PastNow'[p] = PastNow[p] /\ RestNow'[p] = RestNow[p]
<1> TAKE p \in Stuffers \ {q}
<1>1. p \in Stuffers /\ stuffer'[p] = stuffer[p]
  BY DEF Others
<1> QED BY <1>1, ViewsNow, Zenon

\* A call that appends is a step of the queue.
LEMMA Appends ==
    ASSUME Shape, Shape', NEW q \in Stuffers, Appended(stuffer[q], stuffer'[q]), Others(q),
           call' = "one"
    PROVE  Queue!Next
<1>1. Past(stuffer'[q]) = Past(stuffer[q]) /\ IsPrefix(Rest(stuffer[q]), Rest(stuffer'[q]))
  BY AppendedIsAppend DEF Shape
<1>2. PastNow'[q] = PastNow[q] /\ IsPrefix(RestNow[q], RestNow'[q])
  BY <1>1, ViewsNow, Zenon
<1>3. Queue!IsPrefix(RestNow[q], RestNow'[q])
  BY <1>2, Zenon DEF IsPrefix, Queue!IsPrefix
<1>4. Queue!Only(q)
  BY Unmoved, Zenon DEF Queue!Only, PastNow, RestNow
<1>5. Queue!Append1(q)
  BY <1>2, <1>3, <1>4, Zenon DEF Queue!Append1, PastNow, RestNow
<1> QED BY <1>5, Zenon DEF Queue!Next

\* A call that moves the boundary is a step of the queue.
LEMMA Moves ==
    ASSUME Shape, Shape', NEW q \in Stuffers, MovedTo(stuffer[q], stuffer'[q]), Others(q),
           call' = "one"
    PROVE  Queue!Next
<1> DEFINE s == stuffer[q]
           t == stuffer'[q]
<1>1. Past(t) \o Rest(t) = Past(s) \o Rest(s)
  BY MovedIsMove DEF Shape
<1>2. Past(s) = PastNow[q] /\ Rest(s) = RestNow[q] /\ Past(t) = PastNow'[q] /\ Rest(t) = RestNow'[q]
  BY ViewsNow, Zenon
<1> HIDE DEF s, t
<1>3. Queue!Only(q)
  BY Unmoved, Zenon DEF Queue!Only, PastNow, RestNow
<1>4. PastNow'[q] \o RestNow'[q] = PastNow[q] \o RestNow[q]
  BY <1>1, <1>2, Zenon
<1>5. Queue!Move(q)
  BY <1>3, <1>4, Zenon DEF Queue!Move, Queue!All, PastNow, RestNow
<1> QED BY <1>5, Zenon DEF Queue!Next

\* A call that drops the end is a step of the queue.
LEMMA Drops ==
    ASSUME Shape, Shape', NEW q \in Stuffers, Dropped(stuffer[q], stuffer'[q]), Others(q),
           call' = "one"
    PROVE  Queue!Next
<1> DEFINE s == stuffer[q]
           t == stuffer'[q]
<1>1. /\ IsPrefix(Past(t) \o Rest(t), Past(s) \o Rest(s))
      /\ IsPrefix(Past(t), Past(s))
  BY DroppedIsDrop DEF Shape
<1>2. Past(s) = PastNow[q] /\ Rest(s) = RestNow[q] /\ Past(t) = PastNow'[q] /\ Rest(t) = RestNow'[q]
  BY ViewsNow, Zenon
<1> HIDE DEF s, t
<1>3. Queue!Only(q)
  BY Unmoved, Zenon DEF Queue!Only, PastNow, RestNow
<1>4. /\ Queue!IsPrefix(PastNow'[q] \o RestNow'[q], PastNow[q] \o RestNow[q])
      /\ Queue!IsPrefix(PastNow'[q], PastNow[q])
  BY <1>1, <1>2, Zenon DEF IsPrefix, Queue!IsPrefix
<1>5. Queue!Drop(q)
  BY <1>3, <1>4, Zenon DEF Queue!Drop, Queue!All, PastNow, RestNow
<1> QED BY <1>5, Zenon DEF Queue!Next

\* A call that erases and reads is a step of the queue.
LEMMA Erases ==
    ASSUME Shape, Shape', NEW q \in Stuffers, Erased(stuffer[q], stuffer'[q]), Others(q),
           call' = "one"
    PROVE  Queue!Next
<1> DEFINE s == stuffer[q]
           t == stuffer'[q]
<1>1. /\ IsSuffix(Rest(t), Rest(s))
      /\ IsPrefix(Past(s), Past(t))
      /\ Len(Past(t) \o Rest(t)) = Len(Past(s) \o Rest(s))
      /\ \A i \in (Len(Past(s)) + 1)..Len(Past(t)) : Past(t)[i] = 0
  BY ErasedIsErase DEF Shape
<1>2. Past(s) = PastNow[q] /\ Rest(s) = RestNow[q] /\ Past(t) = PastNow'[q] /\ Rest(t) = RestNow'[q]
  BY ViewsNow, Zenon
<1> HIDE DEF s, t
<1>3. Queue!Only(q)
  BY Unmoved, Zenon DEF Queue!Only, PastNow, RestNow
<1>4. /\ Queue!IsSuffix(RestNow'[q], RestNow[q])
      /\ Queue!IsPrefix(PastNow[q], PastNow'[q])
      /\ Len(PastNow'[q] \o RestNow'[q]) = Len(PastNow[q] \o RestNow[q])
      /\ \A i \in (Len(PastNow[q]) + 1)..Len(PastNow'[q]) : PastNow'[q][i] = 0
  BY <1>1, <1>2, Zenon DEF IsPrefix, Queue!IsPrefix, IsSuffix, Queue!IsSuffix, Reverse, Queue!Reverse
<1>5. Queue!Erase(q)
  BY <1>3, <1>4, Zenon DEF Queue!Erase, Queue!All, PastNow, RestNow
<1> QED BY <1>5, Zenon DEF Queue!Next

\* A call that changes one byte is a step of the queue.
LEMMA Patches ==
    ASSUME Shape, Shape', NEW q \in Stuffers, Patched(stuffer[q], stuffer'[q]), Others(q),
           call' = "one"
    PROVE  Queue!Next
<1> DEFINE s == stuffer[q]
           t == stuffer'[q]
<1>1. /\ Len(Past(t)) = Len(Past(s)) /\ Len(Rest(t)) = Len(Rest(s))
      /\ \E k \in 1..Len(Past(s) \o Rest(s)) :
            \A i \in (1..Len(Past(s) \o Rest(s))) \ {k} :
                (Past(t) \o Rest(t))[i] = (Past(s) \o Rest(s))[i]
  BY PatchedIsPatch DEF Shape
<1>2. Past(s) = PastNow[q] /\ Rest(s) = RestNow[q] /\ Past(t) = PastNow'[q] /\ Rest(t) = RestNow'[q]
  BY ViewsNow, Zenon
<1> HIDE DEF s, t
<1>3. Queue!Only(q)
  BY Unmoved, Zenon DEF Queue!Only, PastNow, RestNow
<1>4. /\ Len(PastNow'[q]) = Len(PastNow[q]) /\ Len(RestNow'[q]) = Len(RestNow[q])
      /\ \E k \in 1..Len(PastNow[q] \o RestNow[q]) :
            \A i \in (1..Len(PastNow[q] \o RestNow[q])) \ {k} :
                (PastNow'[q] \o RestNow'[q])[i] = (PastNow[q] \o RestNow[q])[i]
  BY <1>1, <1>2, Zenon
<1>5. Queue!Patch(q)
  BY <1>3, <1>4, Zenon DEF Queue!Patch, Queue!All, PastNow, RestNow
<1> QED BY <1>5, Zenon DEF Queue!Next

\* A failed call that leaves the queues alone is a step of the queue.
LEMMA NothingMoved ==
    ASSUME call' = "failed",
           \A p \in Stuffers : Past(stuffer'[p]) = Past(stuffer[p]) /\ Rest(stuffer'[p]) = Rest(stuffer[p])
    PROVE  Queue!Next
<1>1. /\ [p \in Stuffers |-> Past(stuffer'[p])] = [p \in Stuffers |-> Past(stuffer[p])]
      /\ [p \in Stuffers |-> Rest(stuffer'[p])] = [p \in Stuffers |-> Rest(stuffer[p])]
  BY Zenon
<1>2. /\ PastNow = [p \in Stuffers |-> Past(stuffer[p])] /\ PastNow' = [p \in Stuffers |-> Past(stuffer'[p])]
      /\ RestNow = [p \in Stuffers |-> Rest(stuffer[p])] /\ RestNow' = [p \in Stuffers |-> Rest(stuffer'[p])]
  <2>1. 0 + 1 = 1
    OBVIOUS
  <2> QED BY <2>1, Zenon DEF PastNow, RestNow, Past, Rest, Cut, Ahead
<1>3. PastNow' = PastNow /\ RestNow' = RestNow
  BY <1>1, <1>2, Zenon
<1>4. Queue!Fail
  BY <1>3, Zenon DEF Queue!Fail, PastNow, RestNow
<1> QED BY <1>4, Zenon DEF Queue!Next

\* A failed call on one stuffer that keeps it is a step of the queue.
LEMMA Fails ==
    ASSUME Shape, Shape', NEW q \in Stuffers, Kept(stuffer[q], stuffer'[q]), Others(q),
           call' = "failed"
    PROVE  Queue!Next
<1>1. Past(stuffer'[q]) = Past(stuffer[q]) /\ Rest(stuffer'[q]) = Rest(stuffer[q])
  BY KeptIsSame DEF Shape
<1>2. \A p \in Stuffers : Past(stuffer'[p]) = Past(stuffer[p]) /\ Rest(stuffer'[p]) = Rest(stuffer[p])
  BY <1>1, Zenon DEF Others
<1> QED BY <1>2, NothingMoved, Zenon

\* A copy is a step of the queue.
LEMMA Copies ==
    ASSUME Shape, Shape', NEW p \in Stuffers, NEW q \in Stuffers, p # q, NEW c, NEW n \in Nat,
           GoodBoth(stuffer[p], stuffer[q], c), Copied(stuffer[p], stuffer[q], c, n),
           stuffer'[p] = c.from, stuffer'[q] = c.to,
           \A o \in Stuffers \ {p, q} : stuffer'[o] = stuffer[o], call' = "copy"
    PROVE  Queue!Next
<1> DEFINE s == stuffer[p]
           t == stuffer[q]
<1>1. CopyView(s, t, c, n)
  <2>1. Sound(s) /\ Sound(t)
    BY DEF Shape
  <2> HIDE DEF s, t
  <2>2. GoodBoth(s, t, c) /\ Copied(s, t, c, n)
    BY DEF s, t
  <2> QED BY <2>1, <2>2, CopyIsCopy
<1>2. /\ Past(s) = PastNow[p] /\ Rest(s) = RestNow[p] /\ Past(t) = PastNow[q] /\ Rest(t) = RestNow[q]
      /\ Past(c.from) = PastNow'[p] /\ Rest(c.from) = RestNow'[p]
      /\ Past(c.to) = PastNow'[q] /\ Rest(c.to) = RestNow'[q]
  BY ViewsNow, Zenon
<1> HIDE DEF s, t
<1>3. \A o \in Stuffers \ {p, q} : PastNow'[o] = PastNow[o] /\ RestNow'[o] = RestNow[o]
  <2> TAKE o \in Stuffers \ {p, q}
  <2>1. o \in Stuffers /\ stuffer'[o] = stuffer[o]
    OBVIOUS
  <2> QED BY <2>1, ViewsNow, ZenonT(60)
<1>4. \E k \in 0..Len(RestNow[p]) :
        /\ PastNow'[p] \o RestNow'[p] = PastNow[p] \o RestNow[p]
        /\ Len(PastNow'[p]) - Len(PastNow[p]) \in {k, k + 1}
        /\ RestNow'[q] = RestNow[q] \o SubSeq(RestNow[p], 1, k)
        /\ PastNow'[q] = PastNow[q]
  BY <1>1, <1>2, Zenon DEF CopyView
<1>5. Queue!Copy(p, q)
  BY <1>3, <1>4, Zenon DEF Queue!Copy, Queue!All, PastNow, RestNow
<1> QED BY <1>5, Zenon DEF Queue!Next

-----------------------------------------------------------------------------
\* What a call on one stuffer may do with it: what a queue allows, or nothing.
Does(s, r) ==
    /\ Good(r)
    /\ ~r.ok => Kept(s, r.s)
    /\ r.ok => \/ Appended(s, r.s)
               \/ MovedTo(s, r.s)
               \/ Erased(s, r.s)
               \/ Dropped(s, r.s)
               \/ Patched(s, r.s)

\* A call that does what a queue may do is a step of the queue.
LEMMA Calls ==
    ASSUME Shape, NEW q \in Stuffers, NEW r, Does(stuffer[q], r), Did(q, r)
    PROVE  Shape' /\ Queue!Next /\ stuffer'[q] = r.s /\ Others(q)
<1>1. Good(r)
  BY DEF Does
<1>2. /\ Shape' /\ stuffer'[q] = r.s /\ Others(q)
      /\ r.ok => call' = "one"
      /\ ~r.ok => call' = "failed"
  BY <1>1, OneCall
<1>3. CASE ~r.ok
  BY <1>2, <1>3, Fails DEF Does
<1>4. CASE r.ok
  BY <1>2, <1>4, Appends, Moves, Erases, Drops, Patches DEF Does
<1> QED BY <1>2, <1>3, <1>4

\* Keeping a stuffer is appending nothing.
LEMMA KeptAppends ==
    ASSUME NEW s, Sound(s), NEW t, Kept(s, t)
    PROVE  Appended(s, t)
  BY Fields DEF Kept, Appended

\* A call that takes nothing away from "s" leaves a reservation in it.
LEMMA StillHolds ==
    ASSUME Shape, Shape', Holds(stuffer["s"], reservation), NotLess(stuffer["s"], stuffer'["s"]),
           reservation' = reservation
    PROVE  Holds(stuffer["s"], reservation)'
<1> DEFINE v == reservation
           s == stuffer["s"]
           t == stuffer'["s"]
<1>1. s.write_cursor \in Nat /\ t.write_cursor \in Nat /\ t.write_cursor >= s.write_cursor
  BY Names, Fields DEF Shape, NotLess
<1>2. Holds(t, v)
  <2> HIDE DEF s, t
  <2>1. Holds(s, v)
    BY DEF s
  <2> HIDE DEF v
  <2> QED BY <1>1, <2>1 DEF Holds
<1> QED BY <1>2

\* A call on "s" that keeps a reservation.
LEMMA Keeps ==
    ASSUME IInv, NEW r, Does(stuffer["s"], r), NotLess(stuffer["s"], r.s), Did("s", r),
           reservation' = reservation
    PROVE  IInv' /\ Queue!Next
<1>1. Shape /\ "s" \in Stuffers /\ Holds(stuffer["s"], reservation)
  BY Names DEF IInv
<1>2. Shape' /\ Queue!Next /\ stuffer'["s"] = r.s
  BY <1>1, Calls
<1>3. Holds(stuffer["s"], reservation)'
  BY <1>1, <1>2, StillHolds
<1> QED BY <1>2, <1>3 DEF IInv

\* A call on a stuffer that ends a reservation in it.
LEMMA Forgets ==
    ASSUME IInv, NEW q \in Stuffers, NEW r, Does(stuffer[q], r), Did(q, r), Forget(q)
    PROVE  IInv' /\ Queue!Next
<1>1. Shape /\ Holds(stuffer["s"], reservation)
  BY DEF IInv
<1>2. Shape' /\ Queue!Next /\ Others(q)
  BY <1>1, Calls
<1>3. CASE q = "s"
  <2>1. reservation' = NoReservation
    BY <1>3 DEF Forget
  <2> QED BY <1>2, <2>1 DEF IInv, Holds
<1>4. CASE q # "s"
  <2>1. reservation' = reservation /\ stuffer'["s"] = stuffer["s"]
    BY <1>2, <1>4, Names DEF Forget, Others
  <2>2. Holds(stuffer'["s"], reservation')
    BY <1>1, <2>1, Zenon
  <2> QED BY <1>2, <2>2 DEF IInv
<1> QED BY <1>3, <1>4

-----------------------------------------------------------------------------
\* The stuffers are sound.
LEMMA SoundNow ==
    ASSUME IInv
    PROVE  \A q \in Stuffers : Sound(stuffer[q])
  BY DEF IInv, Shape

\* s2n_stuffer_alloc and s2n_stuffer_growable_alloc.
LEMMA CreateStep ==
    ASSUME IInv, Create
    PROVE  IInv' /\ Queue!Next
<1>1. stuffer["s"] = NoStuffer /\ Forget("s")
  BY DEF Create
<1>2. PICK n \in Lengths, growable \in BOOLEAN, malloc \in BOOLEAN :
        Did("s", s2n_stuffer_alloc(n, growable, malloc))
  BY DEF Create
<1>3. n \in Nat
  BY StufferConstants DEF Lengths
<1> DEFINE r == s2n_stuffer_alloc(n, growable, malloc)
<1>4. Good(r) /\ Kept(NoStuffer, r.s)
  BY <1>3, Allocated
<1> HIDE DEF r
<1>5. Does(stuffer["s"], r)
  BY <1>1, <1>4, NoStufferSound, KeptAppends DEF Does
<1>6. Did("s", r)
  BY <1>2 DEF r
<1> QED BY <1>1, <1>5, <1>6, Names, Forgets

\* s2n_stuffer_free.
LEMMA FreeStep ==
    ASSUME IInv, Free
    PROVE  IInv' /\ Queue!Next
<1> DEFINE s == stuffer["s"]
           r == s2n_stuffer_free(s)
<1>1. s.alloced /\ Did("s", r) /\ Forget("s")
  BY DEF Free
<1>2. Sound(s)
  BY Names, SoundNow
<1>3. Good(r) /\ r.ok /\ Dropped(s, r.s)
  <2> HIDE DEF s
  <2> QED BY <1>1, <1>2, FreedStuffer
<1> HIDE DEF r
<1>4. Does(s, r)
  BY <1>3 DEF Does
<1> QED BY <1>1, <1>4, Names, Forgets

\* s2n_stuffer_resize to a smaller size.
LEMMA ShrinkStep ==
    ASSUME IInv, Shrink
    PROVE  IInv' /\ Queue!Next
<1> DEFINE s == stuffer["s"]
           no == FALSE
<1>1. PICK n \in 0..s.blob.size : Did("s", s2n_stuffer_resize(s, n, no)) /\ Forget("s")
  BY Zenon DEF Shrink
<1> DEFINE r == s2n_stuffer_resize(s, n, no)
<1>2. Sound(s) /\ s.blob.size \in Nat /\ n \in Nat /\ n <= s.blob.size
  BY Names, SoundNow, Fields
<1>3. Good(r) /\ (~r.ok => Kept(s, r.s)) /\ (r.ok => Dropped(s, r.s))
  <2>1. no \in BOOLEAN
    OBVIOUS
  <2> HIDE DEF s, no
  <2>2. /\ Good(r)
        /\ ~r.ok => Kept(s, r.s) /\ NotLess(s, r.s)
        /\ r.ok /\ n <= s.blob.size => Dropped(s, r.s)
        /\ r.ok /\ n >= s.blob.size => Kept(s, r.s) /\ NotLess(s, r.s) /\ r.s.blob.size = n
    BY <1>2, <2>1, Resized
  <2> QED BY <1>2, <2>2
<1> HIDE DEF r
<1>4. Does(s, r) /\ Did("s", r)
  BY <1>1, <1>3 DEF Does, r
<1> QED BY <1>1, <1>4, Names, Forgets

\* The calls that make room.
LEMMA GrowStep ==
    ASSUME IInv, Grow
    PROVE  IInv' /\ Queue!Next
<1> DEFINE s == stuffer["s"]
<1>1. PICK n \in s.blob.size..UINT32_MAX, malloc \in BOOLEAN :
        /\ \/ Did("s", s2n_stuffer_resize(s, n, malloc))
           \/ Did("s", s2n_stuffer_resize_if_empty(s, n, malloc))
           \/ Did("s", s2n_stuffer_reserve_space(s, n, malloc))
        /\ reservation' = reservation
  BY Zenon DEF Grow
<1>2. Sound(s) /\ s.blob.size \in Nat /\ n \in Nat /\ n >= s.blob.size
  BY StufferConstants, Names, SoundNow, Fields
<1> HIDE DEF s
<1>3. PICK r : Did("s", r) /\ Good(r) /\ Kept(s, r.s) /\ NotLess(s, r.s)
  <2>1. CASE Did("s", s2n_stuffer_resize(s, n, malloc))
    <3> DEFINE r == s2n_stuffer_resize(s, n, malloc)
    <3>1. /\ Good(r)
          /\ ~r.ok => Kept(s, r.s) /\ NotLess(s, r.s)
          /\ r.ok /\ n <= s.blob.size => Dropped(s, r.s)
          /\ r.ok /\ n >= s.blob.size => Kept(s, r.s) /\ NotLess(s, r.s) /\ r.s.blob.size = n
      BY <1>2, Resized
    <3> HIDE DEF r
    <3>2. Good(r) /\ Kept(s, r.s) /\ NotLess(s, r.s)
      BY <1>2, <3>1
    <3> QED BY <2>1, <3>2 DEF r
  <2>2. CASE Did("s", s2n_stuffer_resize_if_empty(s, n, malloc))
    <3> DEFINE r == s2n_stuffer_resize_if_empty(s, n, malloc)
    <3>1. Good(r) /\ Kept(s, r.s) /\ NotLess(s, r.s)
      BY <1>2, ResizedIfEmpty
    <3> QED BY <2>2, <3>1
  <2>3. CASE Did("s", s2n_stuffer_reserve_space(s, n, malloc))
    <3> DEFINE r == s2n_stuffer_reserve_space(s, n, malloc)
    <3>1. /\ Good(r) /\ Kept(s, r.s) /\ NotLess(s, r.s)
          /\ r.ok => r.s.blob.size >= s.write_cursor + n
      BY <1>2, ReservedSpace
    <3> QED BY <2>3, <3>1
  <2> QED BY <1>1, <2>1, <2>2, <2>3
<1>4. Does(s, r)
  BY <1>2, <1>3, KeptAppends DEF Does
<1> QED BY <1>1, <1>3, <1>4, Keeps DEF s

\* The calls that drop bytes.
LEMMA DiscardStep ==
    ASSUME IInv, Discard
    PROVE  IInv' /\ Queue!Next
<1> SUFFICES ASSUME NEW q \in Stuffers, NEW t, Did(q, Ok(t)), Forget(q),
                    \/ t = s2n_stuffer_rewrite(stuffer[q])
                    \/ \E n \in 1..2 : t = s2n_stuffer_wipe_n(stuffer[q], n)
                    \/ t = s2n_stuffer_wipe(stuffer[q])
             PROVE  IInv' /\ Queue!Next
  BY Names, Zenon DEF Discard
<1> DEFINE s == stuffer[q]
           r == Ok(t)
<1>1. Sound(s)
  BY SoundNow
<1>2. Sound(t) /\ Dropped(s, t)
  <2>1. CASE t = s2n_stuffer_rewrite(s)
    BY <1>1, <2>1, RewriteDrops
  <2>2. CASE t = s2n_stuffer_wipe(s)
    BY <1>1, <2>2, Wiped
  <2>3. ASSUME NEW n \in 1..2, t = s2n_stuffer_wipe_n(s, n) PROVE Sound(t) /\ Dropped(s, t)
    <3>1. n \in Nat
      OBVIOUS
    <3> QED BY <1>1, <2>3, <3>1, WipedEnd
  <2> QED BY <2>1, <2>2, <2>3
<1>3. Good(r) /\ r.ok = TRUE /\ r.s = t
  BY <1>2, OkNo
<1>4. Did(q, r)
  OBVIOUS
<1> HIDE DEF r, s
<1>5. Does(s, r)
  BY <1>2, <1>3 DEF Does
<1> QED BY <1>4, <1>5, Forgets DEF s

\* The calls that read.
LEMMA ReadStep ==
    ASSUME IInv, Read
    PROVE  IInv' /\ Queue!Next
<1> DEFINE s == stuffer["s"]
<1>1. Sound(s)
  BY Names, SoundNow
<1>2. reservation' = reservation
  BY DEF Read
<1> SUFFICES ASSUME NEW r, Did("s", r),
                    \/ \E n \in 0..2 : r = s2n_stuffer_read_bytes(s, n)
                    \/ \E n \in 1..2 : r = s2n_stuffer_raw_read(s, n)
                    \/ \E n \in 1..2 : r = s2n_stuffer_rewind_read(s, n)
                    \/ \E n \in 1..2 : r = s2n_stuffer_erase_and_read(s, n)
                    \/ \E w \in 0..2, fails \in BOOLEAN : r = s2n_stuffer_send_to_fd(s, 2, w, fails)
                    \/ r = Ok(s2n_stuffer_reread(s))
             PROVE  IInv' /\ Queue!Next
  BY Zenon DEF Read
<1> HIDE DEF s
<1>3. 0..2 \subseteq Nat /\ 1..2 \subseteq Nat /\ 2 \in Nat
  OBVIOUS
<1>4. Does(s, r) /\ NotLess(s, r.s)
  <2>1. ASSUME NEW n \in 0..2, r = s2n_stuffer_read_bytes(s, n) PROVE Does(s, r) /\ NotLess(s, r.s)
    BY <1>1, <1>3, <2>1, ReadBytes DEF Does
  <2>2. ASSUME NEW n \in 1..2, r = s2n_stuffer_raw_read(s, n) PROVE Does(s, r) /\ NotLess(s, r.s)
    BY <1>1, <1>3, <2>2, RawRead, Itself DEF Does
  <2>3. ASSUME NEW n \in 1..2, r = s2n_stuffer_rewind_read(s, n) PROVE Does(s, r) /\ NotLess(s, r.s)
    BY <1>1, <1>3, <2>3, RewoundRead, Itself DEF Does
  <2>4. ASSUME NEW n \in 1..2, r = s2n_stuffer_erase_and_read(s, n) PROVE Does(s, r) /\ NotLess(s, r.s)
    BY <1>1, <1>3, <2>4, ErasedRead, Itself DEF Does
  <2>5. ASSUME NEW w \in 0..2, NEW fails \in BOOLEAN, r = s2n_stuffer_send_to_fd(s, 2, w, fails)
        PROVE  Does(s, r) /\ NotLess(s, r.s)
    BY <1>1, <1>3, <2>5, SentToFd, Itself DEF Does
  <2>6. ASSUME r = Ok(s2n_stuffer_reread(s)) PROVE Does(s, r) /\ NotLess(s, r.s)
    BY <1>1, <2>6, RereadMoves DEF Does, Reads
  <2> QED BY <2>1, <2>2, <2>3, <2>4, <2>5, <2>6
<1> QED BY <1>2, <1>4, Keeps DEF s

\* What the caller writes is bytes.
LEMMA InputBytes ==
    ASSUME NEW bytes \in Bytes
    PROVE  /\ bytes \in Seq(Cell) /\ Len(bytes) \in Nat /\ Len(bytes) >= 1
           /\ \A n \in 1..Len(bytes) : SubSeq(bytes, 1, n) \in Seq(Cell)
<1>1. 0 \in Cell /\ 1 \in Cell
  BY Cells
<1>2. bytes \in Seq(Cell) /\ Len(bytes) \in Nat /\ Len(bytes) >= 1
  <2>1. CASE bytes = << 1 >>
    BY <1>1, <2>1
  <2>2. CASE bytes = <<1, 0>>
    BY <1>1, <2>2
  <2> QED BY <2>1, <2>2 DEF Bytes
<1>3. ASSUME NEW n \in 1..Len(bytes) PROVE SubSeq(bytes, 1, n) \in Seq(Cell)
  BY <1>2, <1>3
<1> QED BY <1>2, <1>3

\* The calls that write.
LEMMA WriteStep ==
    ASSUME IInv, Write
    PROVE  IInv' /\ Queue!Next
<1> DEFINE s == stuffer["s"]
<1>1. Sound(s)
  BY Names, SoundNow
<1>2. PICK bytes \in Bytes, malloc \in BOOLEAN :
        /\ \/ Did("s", s2n_stuffer_write_bytes(s, bytes, malloc))
           \/ Did("s", s2n_stuffer_raw_write(s, Len(bytes), malloc))
           \/ Did("s", s2n_stuffer_writev_bytes(s, << << 1 >>, bytes >>, 1, 1, malloc))
           \/ \E n \in 1..Len(bytes), fails \in BOOLEAN :
                 Did("s", s2n_stuffer_recv_from_fd(s, Len(bytes), SubSeq(bytes, 1, n), fails, malloc))
        /\ reservation' = reservation
  BY Zenon DEF Write
<1>3. /\ bytes \in Seq(Cell) /\ Len(bytes) \in Nat /\ Len(bytes) >= 1
      /\ \A n \in 1..Len(bytes) : SubSeq(bytes, 1, n) \in Seq(Cell)
  BY InputBytes
<1> HIDE DEF s
<1>4. PICK r : Did("s", r) /\ Good(r) /\ Appended(s, r.s) /\ NotLess(s, r.s) /\ (~r.ok => Kept(s, r.s))
  <2>1. CASE Did("s", s2n_stuffer_write_bytes(s, bytes, malloc))
    <3> DEFINE r == s2n_stuffer_write_bytes(s, bytes, malloc)
    <3>1. Good(r) /\ NotLess(s, r.s) /\ Appended(s, r.s) /\ (~r.ok => Kept(s, r.s))
      <4>1. bytes \in Seq(Cell)
        BY <1>3
      <4> QED BY <1>1, <4>1, WrittenBytes
    <3> QED BY <2>1, <3>1
  <2>2. CASE Did("s", s2n_stuffer_raw_write(s, Len(bytes), malloc))
    <3> DEFINE r == s2n_stuffer_raw_write(s, Len(bytes), malloc)
    <3>1. Good(r) /\ NotLess(s, r.s) /\ Appended(s, r.s) /\ (~r.ok => Kept(s, r.s))
      BY <1>1, <1>3, RawWritten
    <3> QED BY <2>2, <3>1
  <2>3. CASE Did("s", s2n_stuffer_writev_bytes(s, << << 1 >>, bytes >>, 1, 1, malloc))
    <3> DEFINE r == s2n_stuffer_writev_bytes(s, << << 1 >>, bytes >>, 1, 1, malloc)
    <3>1. Good(r) /\ NotLess(s, r.s) /\ Appended(s, r.s) /\ (~r.ok => Kept(s, r.s))
      BY <1>1, <1>3, WrittenVector
    <3> QED BY <2>3, <3>1
  <2>4. ASSUME NEW n \in 1..Len(bytes), NEW fails \in BOOLEAN,
               Did("s", s2n_stuffer_recv_from_fd(s, Len(bytes), SubSeq(bytes, 1, n), fails, malloc))
        PROVE  \E r : Did("s", r) /\ Good(r) /\ Appended(s, r.s) /\ NotLess(s, r.s) /\ (~r.ok => Kept(s, r.s))
    <3> DEFINE part == SubSeq(bytes, 1, n)
               length == Len(bytes)
               r == s2n_stuffer_recv_from_fd(s, length, part, fails, malloc)
    <3>1. part \in Seq(Cell) /\ length \in Nat
      BY <1>3
    <3>2. Did("s", r)
      BY <2>4
    <3> HIDE DEF part, length
    <3>3. Good(r) /\ Appended(s, r.s) /\ NotLess(s, r.s) /\ (~r.ok => Kept(s, r.s))
      BY <1>1, <3>1, ReceivedFromFd
    <3> QED BY <3>2, <3>3
  <2> QED BY <1>2, <2>1, <2>2, <2>3, <2>4
<1>5. Does(s, r)
  BY <1>4 DEF Does
<1> QED BY <1>2, <1>4, <1>5, Keeps DEF s

\* The calls that parse text.
LEMMA TextStep ==
    ASSUME IInv, Text
    PROVE  IInv' /\ Queue!Next
<1> DEFINE s == stuffer["s"]
<1>1. Sound(s)
  BY Names, SoundNow
<1>2. reservation' = reservation
  BY DEF Text
<1> SUFFICES ASSUME NEW r, Did("s", r),
                    \/ r = Ok(s2n_stuffer_skip_whitespace(s))
                    \/ r = Ok(s2n_stuffer_skip_to_char(s))
                    \/ r = [s2n_stuffer_skip_expected_char(s, 1, 2) EXCEPT !.ok = TRUE]
                    \/ \E str \in Bytes : \/ r = s2n_stuffer_read_expected_str(s, str)
                                          \/ r = s2n_stuffer_peek_check_for_str(s, str)
             PROVE  IInv' /\ Queue!Next
  BY Zenon DEF Text
<1> HIDE DEF s
<1>3. Reads(s, r)
  <2>1. ASSUME NEW str \in Bytes,
               \/ r = s2n_stuffer_read_expected_str(s, str)
               \/ r = s2n_stuffer_peek_check_for_str(s, str)
        PROVE  Reads(s, r)
    <3>1. str \in Seq(Cell)
      BY InputBytes
    <3> QED BY <1>1, <2>1, <3>1, ReadString, Zenon
  <2>2. ASSUME \/ r = Ok(s2n_stuffer_skip_whitespace(s))
               \/ r = Ok(s2n_stuffer_skip_to_char(s))
               \/ r = [s2n_stuffer_skip_expected_char(s, 1, 2) EXCEPT !.ok = TRUE]
        PROVE  Reads(s, r)
    BY <1>1, <2>2, SkippedText, Zenon
  <2> QED BY <2>1, <2>2, Zenon
<1>4. Does(s, r) /\ NotLess(s, r.s)
  BY <1>3 DEF Reads, Does
<1> QED BY <1>2, <1>4, Keeps DEF s

\* A call that copies from one stuffer to the other.
LEMMA MovedCall ==
    ASSUME IInv, NEW p \in Stuffers, NEW q \in Stuffers, p # q, NEW n \in Nat, NEW c,
           GoodBoth(stuffer[p], stuffer[q], c), c.ok => Copied(stuffer[p], stuffer[q], c, n),
           Moved(p, q, c)
    PROVE  IInv' /\ Queue!Next
<1>1. /\ stuffer' = [stuffer EXCEPT ![p] = c.from, ![q] = c.to]
      /\ leaked' = (leaked \/ ~(c.rel \subseteq Harmless))
      /\ call' = IF c.ok THEN "copy" ELSE "failed"
      /\ reservation' = reservation
  BY DEF Moved
<1>2. /\ Sound(c.from) /\ Sound(c.to) /\ c.from \in StufferType /\ c.to \in StufferType
      /\ c.rel \subseteq Harmless /\ c.ok \in BOOLEAN
  BY DEF GoodBoth, BothType
<1>3. leaked' = FALSE
  BY <1>1, <1>2, Zenon DEF IInv, Shape
<1>4. /\ stuffer' \in [Stuffers -> StufferType] /\ stuffer'[p] = c.from /\ stuffer'[q] = c.to
      /\ \A o \in Stuffers \ {p, q} : stuffer'[o] = stuffer[o]
  BY <1>1, <1>2 DEF IInv, Shape
<1>5. \A o \in Stuffers : Sound(stuffer'[o])
  <2> SUFFICES ASSUME NEW o \in Stuffers PROVE Sound(stuffer'[o])
    OBVIOUS
  <2>1. CASE o \in {p, q}
    BY <1>2, <1>4, <2>1, Zenon
  <2>2. CASE o \notin {p, q}
    BY <1>4, <2>2, SoundNow, Zenon
  <2> QED BY <2>1, <2>2
<1>6. Shape /\ Shape'
  BY <1>3, <1>4, <1>5, Zenon DEF IInv, Shape
<1>7. Holds(stuffer["s"], reservation)'
  <2>1. "s" \in {p, q}
    BY DEF Stuffers
  <2>2. NotLess(stuffer["s"], stuffer'["s"])
    BY <1>4, <2>1 DEF GoodBoth
  <2> QED BY <1>1, <1>6, <2>2, StillHolds DEF IInv
<1>8. Queue!Next
  <2>1. CASE c.ok
    <3>1. call' = "copy"
      BY <1>1, <2>1
    <3> QED BY <1>4, <1>6, <2>1, <3>1, Copies
  <2>2. CASE ~c.ok
    <3>1. call' = "failed"
      BY <1>1, <2>2
    <3>2. Kept(stuffer[p], stuffer'[p]) /\ Kept(stuffer[q], stuffer'[q])
      BY <1>4, <2>2 DEF GoodBoth
    <3>3. /\ Past(stuffer'[p]) = Past(stuffer[p]) /\ Rest(stuffer'[p]) = Rest(stuffer[p])
          /\ Past(stuffer'[q]) = Past(stuffer[q]) /\ Rest(stuffer'[q]) = Rest(stuffer[q])
      BY <1>6, <3>2, KeptIsSame DEF Shape
    <3>4. ASSUME NEW o \in Stuffers
          PROVE  Past(stuffer'[o]) = Past(stuffer[o]) /\ Rest(stuffer'[o]) = Rest(stuffer[o])
      <4>1. CASE o \in {p, q}
        BY <3>3, <4>1, Zenon
      <4>2. CASE o \notin {p, q}
        BY <1>4, <4>2, Zenon
      <4> QED BY <4>1, <4>2
    <3> QED BY <3>1, <3>4, NothingMoved, Zenon
  <2> QED BY <2>1, <2>2
<1> QED BY <1>6, <1>7, <1>8 DEF IInv

\* s2n_stuffer_copy.
LEMMA TransferStep ==
    ASSUME IInv, Transfer
    PROVE  IInv' /\ Queue!Next
<1>1. PICK p \in Stuffers, q \in Stuffers, n \in 1..2, malloc \in BOOLEAN :
        p # q /\ Moved(p, q, s2n_stuffer_copy(stuffer[p], stuffer[q], n, malloc))
  BY Zenon DEF Transfer
<1> DEFINE c == s2n_stuffer_copy(stuffer[p], stuffer[q], n, malloc)
<1>2. Sound(stuffer[p]) /\ Sound(stuffer[q]) /\ n \in Nat
  BY SoundNow
<1>3. /\ GoodBoth(stuffer[p], stuffer[q], c)
      /\ c.ok => Copied(stuffer[p], stuffer[q], c, n) /\ c.from.read_cursor = stuffer[p].read_cursor + n
  BY <1>2, CopyDone
<1>4. Moved(p, q, c)
  BY <1>1
<1> HIDE DEF c
<1> QED BY <1>1, <1>2, <1>3, <1>4, MovedCall

\* s2n_stuffer_read_token.
LEMMA TokenStep ==
    ASSUME IInv, Token
    PROVE  IInv' /\ Queue!Next
<1> DEFINE s == stuffer["s"]
           t == stuffer["token"]
           n == Run(s, LAMBDA b : b = Delim)
<1>1. PICK malloc \in BOOLEAN : Moved("s", "token", s2n_stuffer_read_token(s, t, malloc))
  BY Zenon DEF Token
<1> DEFINE c == s2n_stuffer_read_token(s, t, malloc)
<1>2. Sound(s) /\ Sound(t)
  BY Names, SoundNow
<1> HIDE DEF s, t
<1>3. n \in 0..(s.write_cursor - s.read_cursor)
  BY <1>2, RunBounds, Zenon
<1>4. ASSUME NEW k, k = n
      PROVE  k \in Nat /\ GoodBoth(s, t, c) /\ (c.ok => Copied(s, t, c, k))
  <2>1. k \in 0..(s.write_cursor - s.read_cursor)
    BY <1>3, <1>4, Zenon
  <2> HIDE DEF n
  <2>2. k \in Nat
    BY <2>1
  <2>3. k = Run(s, LAMBDA b : b = Delim)
    BY <1>4, Zenon DEF n
  <2> QED BY <1>2, <2>2, <2>3, TokenRead, Zenon
<1> HIDE DEF n
<1>5. \E k \in Nat : GoodBoth(s, t, c) /\ (c.ok => Copied(s, t, c, k))
  BY <1>4
<1>6. Moved("s", "token", c)
  BY <1>1
<1> HIDE DEF c
<1> QED BY <1>5, <1>6, Names, MovedCall DEF s, t

\* s2n_stuffer_reserve: the reservation is the byte it appends.
LEMMA ReserveStep ==
    ASSUME IInv, Reserve
    PROVE  IInv' /\ Queue!Next
<1> DEFINE s == stuffer["s"]
<1>1. PICK malloc \in BOOLEAN :
        \E r \in {s2n_stuffer_reserve(s, 1, malloc)} :
            /\ Did("s", r)
            /\ reservation' = IF r.ok THEN [write_cursor |-> s.write_cursor, length |-> 1]
                                      ELSE reservation
  BY Zenon DEF Reserve
<1> DEFINE r == s2n_stuffer_reserve(s, 1, malloc)
<1>2. /\ Did("s", r)
      /\ reservation' = IF r.ok THEN [write_cursor |-> s.write_cursor, length |-> 1] ELSE reservation
  BY <1>1, Zenon
<1>3. Sound(s) /\ s.write_cursor \in Nat
  BY Names, SoundNow, Fields
<1>4. /\ Good(r) /\ NotLess(s, r.s) /\ Appended(s, r.s)
      /\ ~r.ok => Kept(s, r.s)
      /\ r.ok => r.s.write_cursor = s.write_cursor + 1
  <2> HIDE DEF s
  <2> QED BY <1>3, Reserved
<1> HIDE DEF r
<1>5. Does(s, r)
  BY <1>4 DEF Does
<1>6. CASE ~r.ok
  BY <1>2, <1>4, <1>5, <1>6, Keeps
<1>7. CASE r.ok
  <2>1. Shape' /\ Queue!Next /\ stuffer'["s"] = r.s
    BY <1>2, <1>5, Names, Calls DEF IInv
  <2>2. reservation' = [write_cursor |-> s.write_cursor, length |-> 1]
    BY <1>2, <1>7
  <2> HIDE DEF s
  <2>3. Holds(r.s, reservation')
    BY <1>3, <1>4, <1>7, <2>2 DEF Holds
  <2> QED BY <2>1, <2>3 DEF IInv
<1> QED BY <1>6, <1>7

\* s2n_stuffer_write_vector_size.
LEMMA FillInStep ==
    ASSUME IInv, FillIn
    PROVE  IInv' /\ Queue!Next
<1> DEFINE s == stuffer["s"]
           v == reservation
           r == s2n_stuffer_write_vector_size(s, v)
<1>1. v # NoReservation /\ Did("s", r) /\ reservation' = NoReservation
  BY DEF FillIn
<1>2. Sound(s)
  BY Names, SoundNow
<1>3. v.write_cursor \in Nat /\ v.length = 1 /\ v.write_cursor < s.write_cursor
  BY <1>1, Zenon DEF IInv, Holds
<1>4. Good(r) /\ (r.ok => Patched(s, r.s)) /\ (~r.ok => r.s = s)
  <2> HIDE DEF s, v
  <2> QED BY <1>2, <1>3, FilledIn
<1> HIDE DEF r
<1>5. Does(s, r)
  BY <1>2, <1>4, Itself DEF Does
<1>6. Shape' /\ Queue!Next
  BY <1>1, <1>5, Names, Calls DEF IInv
<1> QED BY <1>1, <1>6 DEF IInv, Holds

-----------------------------------------------------------------------------
\* A call takes IInv to itself, and is a step of the queue.
LEMMA NextStep ==
    ASSUME IInv, StufferNext
    PROVE  IInv' /\ Queue!Next
  BY CreateStep, FreeStep, ShrinkStep, GrowStep, DiscardStep, ReadStep, WriteStep, TextStep,
     TransferStep, TokenStep, ReserveStep, FillInStep DEF StufferNext

\* A stuffer over a caller's buffer is sound.
LEMMA StaticSound ==
    LET t == s2n_stuffer_init(StaticBlob)
    IN  Sound(t) /\ t.read_cursor = 0 /\ t.write_cursor = 0
<1> DEFINE b == StaticBlob
           no == FALSE
           m == <<0>>
<1>1. m \in Seq(Cell) /\ Len(m) = 1 /\ m[1] = 0
  BY Cells
<1>2. no \in BOOLEAN /\ ~no
  OBVIOUS
<1>3. b = [mem |-> m, size |-> 1, allocated |-> 0, growable |-> no]
  BY Zenon DEF StaticBlob, UNINIT
<1> HIDE DEF b, m, no
<1>4. BlobSound(b) /\ b.mem = m
  BY <1>1, <1>2, <1>3 DEF BlobSound, BlobType
<1>5. Quiet(b.mem, 0)
  <2>1. \A i \in 1..1 : i = 1
    OBVIOUS
  <2>2. \A i \in 1..Len(m) : m[i] \in Harmless
    BY <1>1, <2>1, Zenon DEF Harmless
  <2> QED BY <1>4, <2>2, Zenon DEF Quiet
<1>6. Sound(Fresh(b, no, no)) /\ Fresh(b, no, no).read_cursor = 0 /\ Fresh(b, no, no).write_cursor = 0
  BY <1>2, <1>4, <1>5, FreshSound
<1>7. s2n_stuffer_init(StaticBlob) = Fresh(b, no, no)
  BY Zenon DEF s2n_stuffer_init, Fresh, b, no
<1> QED BY <1>6, <1>7, Zenon

\* The first state satisfies IInv, and nothing is written.
LEMMA AtFirst ==
    ASSUME StufferInit
    PROVE  IInv /\ \A q \in Stuffers : stuffer[q].read_cursor = 0 /\ stuffer[q].write_cursor = 0
<1>1. /\ stuffer = [q \in Stuffers |-> IF q = "s" THEN NoStuffer ELSE s2n_stuffer_init(StaticBlob)]
      /\ reservation = NoReservation /\ leaked = FALSE
  BY DEF StufferInit
<1>2. ASSUME NEW q \in Stuffers
      PROVE  Sound(stuffer[q]) /\ stuffer[q].read_cursor = 0 /\ stuffer[q].write_cursor = 0
  <2>1. stuffer[q] = NoStuffer \/ stuffer[q] = s2n_stuffer_init(StaticBlob)
    BY <1>1, Zenon
  <2> QED BY <2>1, NoStufferSound, StaticSound, Zenon
<1>3. \A q \in Stuffers : stuffer[q] \in StufferType
  BY <1>2, Zenon DEF Sound
<1>4. stuffer = [q \in Stuffers |-> stuffer[q]]
  BY <1>1, Zenon
<1>5. stuffer \in [Stuffers -> StufferType]
  BY <1>3, <1>4
<1> QED BY <1>1, <1>2, <1>5, Zenon DEF IInv, Shape, Holds

\* At first the queues are empty.
LEMMA EmptyQueues ==
    ASSUME StufferInit
    PROVE  Queue!Init
<1>1. call = "one"
  BY DEF StufferInit
<1>2. ASSUME NEW q \in Stuffers PROVE Past(stuffer[q]) = <<>> /\ Rest(stuffer[q]) = <<>>
  <2> DEFINE s == stuffer[q]
  <2>1. Sound(s) /\ s.read_cursor = 0 /\ s.write_cursor = 0
    BY AtFirst, SoundNow
  <2> HIDE DEF s
  <2>2. /\ Past(s) \in Seq(Cell) /\ Len(Past(s)) = 0
        /\ Rest(s) \in Seq(Cell) /\ Len(Rest(s)) = 0
    BY <2>1, Views
  <2> QED BY <2>2, EmptySeq DEF s
<1>3. PastNow = [q \in Stuffers |-> <<>>] /\ RestNow = [q \in Stuffers |-> <<>>]
  <2>1. 0 + 1 = 1
    OBVIOUS
  <2>2. PastNow = [q \in Stuffers |-> Past(stuffer[q])] /\ RestNow = [q \in Stuffers |-> Rest(stuffer[q])]
    BY <2>1, Zenon DEF PastNow, RestNow, Past, Rest, Cut, Ahead
  <2> QED BY <1>2, <2>2, Zenon
<1> QED BY <1>1, <1>3, Zenon DEF Queue!Init, PastNow, RestNow

\* A step that changes no stuffer changes no queue.
LEMMA Stutters ==
    ASSUME UNCHANGED stufferVars
    PROVE  (IInv => IInv') /\ UNCHANGED Queue!vars
<1>1. stuffer' = stuffer /\ reservation' = reservation /\ leaked' = leaked /\ call' = call
  BY DEF stufferVars
<1>2. IInv => IInv'
  BY <1>1 DEF IInv, Shape
<1>3. UNCHANGED Queue!vars
  BY <1>1, Zenon DEF Queue!vars
<1> QED BY <1>2, <1>3

\* Whatever is called, for every size of the growth, of the page and of the
\* largest length: the stuffers are sound, no byte that was written has been
\* given back, and a reservation is behind the write cursor
\* (stuffer/s2n_stuffer.c).
THEOREM StuffersSound == StufferSpec => []IInv
<1>1. StufferInit => IInv
  BY AtFirst
<1>2. IInv /\ [StufferNext]_stufferVars => IInv'
  BY NextStep, Stutters
<1> QED BY <1>1, <1>2, PTL DEF StufferSpec

\* The postconditions that s2n_stuffer_validate and
\* s2n_stuffer_reservation_validate state hold after every call.
THEOREM CursorsStayInOrder == StufferSpec => []CursorsInOrder
<1>1. IInv => CursorsInOrder
  <2> SUFFICES ASSUME IInv PROVE CursorsInOrder
    OBVIOUS
  <2>1. \A q \in Stuffers : s2n_stuffer_validate(stuffer[q])
    BY SoundNow DEF Sound
  <2>2. s2n_stuffer_reservation_validate(stuffer["s"], reservation)
    <3> DEFINE s == stuffer["s"]
               v == reservation
    <3>1. s.blob.size \in Nat /\ s.write_cursor \in Nat /\ s.write_cursor <= s.blob.size
      BY Names, SoundNow, Fields
    <3>2. Holds(s, v)
      BY DEF IInv
    <3> HIDE DEF s, v
    <3> QED BY <3>1, <3>2 DEF Holds, NoReservation, s2n_stuffer_reservation_validate, s, v
  <2> QED BY <2>1, <2>2 DEF CursorsInOrder
<1> QED BY <1>1, StuffersSound, PTL

\* No byte that was written is left above the high water mark, where
\* s2n_stuffer_wipe would not reach, or in memory that s2n_realloc and s2n_free
\* give back.
THEOREM SecretsAreWiped == StufferSpec => []SecretsWiped
<1>1. IInv => SecretsWiped
  <2> SUFFICES ASSUME IInv PROVE SecretsWiped
    OBVIOUS
  <2>1. ~leaked
    BY DEF IInv, Shape
  <2>2. ASSUME NEW q \in Stuffers
        PROVE  \A i \in DOMAIN stuffer[q].blob.mem :
                  i > stuffer[q].high_water_mark => stuffer[q].blob.mem[i] \in Harmless
    <3> DEFINE s == stuffer[q]
    <3>1. Sound(s)
      BY SoundNow
    <3> HIDE DEF s
    <3> QED BY <3>1, Fields DEF s
  <2> QED BY <2>1, <2>2 DEF SecretsWiped
<1> QED BY <1>1, StuffersSound, PTL

\* A stuffer is a queue of bytes: every call on it, through growth,
\* reallocation, failed allocation, failed descriptors and failed copies, is a
\* step of ByteQueue, and a call that fails takes and adds nothing.
THEOREM StufferImplementsQueue == StufferSpec => StufferIsQueue
<1>1. StufferInit => Queue!Init
  BY EmptyQueues
<1>2. IInv /\ [StufferNext]_stufferVars => [Queue!Next]_(Queue!vars)
  BY NextStep, Stutters
<1> QED BY <1>1, <1>2, StuffersSound, PTL DEF StufferSpec, StufferIsQueue, Queue!Spec
=============================================================================
