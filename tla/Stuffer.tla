------------------------------- MODULE Stuffer -------------------------------
(***************************************************************************)
(* Growable buffers (stuffer/s2n_stuffer.c and its helpers) on top of      *)
(* blobs and the allocator (utils/s2n_blob.c, utils/s2n_mem.c).            *)
(*                                                                         *)
(* A stuffer is a record of the code's fields; mem is the allocated        *)
(* memory, of which the first size bytes belong to the blob.  Every        *)
(* operation is an operator that returns the new stuffer and whether it    *)
(* succeeded.  Allocation may fail at any call (malloc is FALSE).          *)
(***************************************************************************)
EXTENDS Integers, Sequences, FiniteSets, SequencesExt

CONSTANTS UINT32_MAX,     \* the largest length, scaled down
          GROWTH,         \* S2N_MIN_STUFFER_GROWTH_IN_BYTES, scaled down
          PageSize,       \* page_size
          Radix           \* the number of values of a byte, scaled down

ASSUME StufferConstants ==
    /\ UINT32_MAX \in Nat
    /\ GROWTH \in 1..UINT32_MAX
    /\ PageSize \in 1..UINT32_MAX
    /\ Radix \in Nat \ {0, 1}

VARIABLES stuffer,        \* the stuffers, by name
          reservation,    \* a reservation in "s", or NoReservation
          leaked,         \* whether memory was given back with a byte in it
          call            \* what the last call was, and that it failed

stufferVars == <<stuffer, reservation, leaked, call>>

Stuffers == {"s", "token"}

Byte == 0..(Radix - 1)

WIPE == Radix             \* S2N_WIPE_PATTERN
UNINIT == 0               \* a byte of fresh memory: nothing the caller wrote

Delim == 0                \* a delimiter or a white space in text

Harmless == {0, WIPE}

Lesser(a, b) == IF a < b THEN a ELSE b
Larger(a, b) == IF a > b THEN a ELSE b

\* F of a value that is computed once.
With(x, F(_)) == CHOOSE y \in {F(v) : v \in {x}} : TRUE

(***************************************************************************)
(* Blobs and memory.                                                       *)
(***************************************************************************)
NoBlob == [mem |-> <<>>, size |-> 0, allocated |-> 0, growable |-> FALSE]

Fill(mem, from, to, v) ==
    [i \in DOMAIN mem |-> IF i > from /\ i <= to THEN v ELSE mem[i]]

Put(mem, from, bytes) ==
    [i \in DOMAIN mem |->
        IF i > from /\ i <= from + Len(bytes) THEN bytes[i - from] ELSE mem[i]]

s2n_blob_zero(b) == [b EXCEPT !.mem = Fill(b.mem, 0, Larger(b.allocated, b.size), 0)]

s2n_blob_is_growable(b) == b.growable \/ b = NoBlob

s2n_align_to(n) == IF n = 0 THEN 0 ELSE PageSize * (((n - 1) \div PageSize) + 1)

s2n_add_overflow(a, b) == a + b <= UINT32_MAX

\* What an operation on a blob gives: the blob, and the bytes it released.
Blob(ok, b, rel) == [ok |-> ok, blob |-> b, rel |-> rel]

s2n_free(b) ==
    IF s2n_blob_is_growable(b)
    THEN Blob(TRUE, NoBlob, Range(s2n_blob_zero(b).mem))
    ELSE Blob(FALSE, s2n_blob_zero(b), {})

s2n_mem_malloc_mlock_impl(n, malloc) == malloc /\ s2n_align_to(n) <= UINT32_MAX

s2n_realloc(b, n, malloc) ==
    LET fresh == [i \in 1..s2n_align_to(n) |-> IF i <= b.size THEN b.mem[i] ELSE UNINIT]
    IN  CASE ~s2n_blob_is_growable(b) -> Blob(FALSE, b, {})
          [] s2n_blob_is_growable(b) /\ n = 0 -> s2n_free(b)
          [] s2n_blob_is_growable(b) /\ n > 0 /\ n <= b.allocated ->
                Blob(TRUE, [b EXCEPT !.mem = Fill(b.mem, n, b.size, 0), !.size = n], {})
          [] OTHER ->
                IF s2n_mem_malloc_mlock_impl(n, malloc)
                THEN Blob(TRUE, [mem |-> fresh, size |-> n, allocated |-> Len(fresh),
                                 growable |-> TRUE],
                          Range(s2n_blob_zero(b).mem))
                ELSE Blob(FALSE, b, {})

s2n_alloc(n, malloc) == s2n_realloc(NoBlob, n, malloc)

(***************************************************************************)
(* Stuffers.                                                               *)
(***************************************************************************)
s2n_stuffer_init(b) ==
    [blob |-> b, read_cursor |-> 0, write_cursor |-> 0, high_water_mark |-> 0,
     alloced |-> FALSE, growable |-> FALSE, tainted |-> FALSE]

NoStuffer == s2n_stuffer_init(NoBlob)

s2n_stuffer_validate(s) ==
    /\ s.growable => s.alloced
    /\ s.high_water_mark <= s.blob.size
    /\ s.write_cursor <= s.high_water_mark
    /\ s.read_cursor <= s.write_cursor

s2n_stuffer_data_available(s) == s.write_cursor - s.read_cursor
s2n_stuffer_space_remaining(s) == s.blob.size - s.write_cursor

Out(ok, s, rel) == [ok |-> ok, s |-> s, rel |-> rel]
Ok(s) == Out(TRUE, s, {})
No(s) == Out(FALSE, s, {})

\* A call goes on with the stuffer that the call before it returned, unless
\* that one failed.
After(out, Next(_)) ==
    With(out, LAMBDA r : IF r.ok THEN [r EXCEPT !.s = Next(@)] ELSE r)

\* s with the blob that an operation on it gave.
Holding(s, result) == With(result, LAMBDA b : Out(b.ok, [s EXCEPT !.blob = b.blob], b.rel))

s2n_stuffer_alloc(n, growable, malloc) ==
    With(s2n_alloc(n, malloc), LAMBDA b :
        IF b.ok
        THEN Ok([s2n_stuffer_init(b.blob) EXCEPT !.alloced = TRUE, !.growable = growable])
        ELSE No(NoStuffer))

s2n_stuffer_free(s) ==
    IF s.alloced THEN With(s2n_free(s.blob), LAMBDA b : Out(b.ok, NoStuffer, b.rel))
                 ELSE Ok(NoStuffer)

\* Mutant: only what is behind the write cursor is wiped.
s2n_stuffer_wipe_ToCursor(s) ==
    [s EXCEPT !.blob.mem = Fill(s.blob.mem, 0, s.write_cursor, WIPE), !.tainted = FALSE,
              !.read_cursor = 0, !.write_cursor = 0, !.high_water_mark = 0]

s2n_stuffer_wipe(s) ==
    [s EXCEPT !.blob.mem = Fill(s.blob.mem, 0, s.high_water_mark, WIPE), !.tainted = FALSE,
              !.read_cursor = 0, !.write_cursor = 0, !.high_water_mark = 0]

s2n_stuffer_resize(s, n, malloc) ==
    IF s.tainted \/ ~s.growable THEN No(s)
    ELSE CASE n = s.blob.size -> Ok(s)
           [] n = 0 /\ n # s.blob.size ->
                With(s2n_stuffer_wipe(s), LAMBDA w : Holding(w, s2n_free(w.blob)))
           [] n > 0 /\ n < s.blob.size ->
                Ok([s EXCEPT !.blob.mem = Fill(s.blob.mem, n, s.blob.size, WIPE),
                             !.blob.size = n,
                             !.read_cursor = Lesser(@, n),
                             !.write_cursor = Lesser(@, n),
                             !.high_water_mark = Lesser(@, n)])
           [] OTHER -> Holding(s, s2n_realloc(s.blob, n, malloc))

s2n_stuffer_resize_if_empty(s, n, malloc) ==
    IF s.blob.mem # <<>> THEN Ok(s)
    ELSE IF s.tainted \/ ~s.growable THEN No(s)
    ELSE Holding(s, s2n_realloc(s.blob, n, malloc))

s2n_stuffer_rewrite(s) == [s EXCEPT !.write_cursor = 0, !.read_cursor = 0]

s2n_stuffer_rewind_read(s, n) ==
    IF s.read_cursor >= n THEN Ok([s EXCEPT !.read_cursor = @ - n]) ELSE No(s)

s2n_stuffer_reread(s) == [s EXCEPT !.read_cursor = 0]

s2n_stuffer_wipe_n(s, n) ==
    IF n >= s.write_cursor THEN s2n_stuffer_wipe(s)
    ELSE LET w == s.write_cursor - n
         IN  [s EXCEPT !.write_cursor = w,
                       !.blob.mem = Fill(s.blob.mem, w, w + n, WIPE),
                       !.read_cursor = Lesser(@, w)]

s2n_stuffer_skip_read(s, n) ==
    IF s2n_stuffer_data_available(s) >= n THEN Ok([s EXCEPT !.read_cursor = @ + n]) ELSE No(s)

s2n_stuffer_raw_read(s, n) ==
    After(s2n_stuffer_skip_read(s, n), LAMBDA t : [t EXCEPT !.tainted = TRUE])

\* The NULL check comes after the skip, which is of no byte when data is NULL.
s2n_stuffer_read_bytes(s, n) ==
    With(s2n_stuffer_skip_read(s, n), LAMBDA r :
        IF r.ok /\ r.s.blob.mem # <<>> THEN r ELSE No(r.s))

s2n_stuffer_erase_and_read(s, n) ==
    After(s2n_stuffer_skip_read(s, n), LAMBDA t :
            [t EXCEPT !.blob.mem = Fill(@, s.read_cursor, t.read_cursor, 0)])

s2n_stuffer_reserve_space(s, n, malloc) ==
    LET short == n - s2n_stuffer_space_remaining(s)
        growth == Larger(short, GROWTH)
    IN  IF short <= 0 THEN Ok(s)
        ELSE IF s.growable /\ s2n_add_overflow(s.blob.size, growth)
             THEN s2n_stuffer_resize(s, s.blob.size + growth, malloc)
             ELSE No(s)

s2n_stuffer_skip_write(s, n, malloc) ==
    LET w == s.write_cursor + n
    IN  After(s2n_stuffer_reserve_space(s, n, malloc), LAMBDA t :
                [t EXCEPT !.write_cursor = w, !.high_water_mark = Larger(w, @)])

s2n_stuffer_raw_write(s, n, malloc) ==
    After(s2n_stuffer_skip_write(s, n, malloc), LAMBDA t : [t EXCEPT !.tainted = TRUE])

s2n_stuffer_write_bytes(s, bytes, malloc) ==
    After(s2n_stuffer_skip_write(s, Len(bytes), malloc), LAMBDA t :
            [t EXCEPT !.blob.mem = Put(@, s.write_cursor, bytes)])

\* The scattered input, from an offset, in one piece.
Gather(iov, offs, n) == SubSeq(FlattenSeq(iov), offs + 1, offs + n)

\* The input is an array of buffers that hold n bytes after the offset, as
\* s2n_send's do: none is NULL and none is of 4 GiB or more, which the code
\* would refuse once the cursor has moved.
s2n_stuffer_writev_bytes(s, iov, offs, n, malloc) ==
    After(s2n_stuffer_raw_write(s, n, malloc), LAMBDA t :
            [t EXCEPT !.blob.mem = Put(@, s.write_cursor, Gather(iov, offs, n))])

\* Two stuffers: the one read and the one written.
Both(ok, from, to, rel) == [ok |-> ok, from |-> from, to |-> to, rel |-> rel]

s2n_stuffer_copy_impl(from, to, n, malloc) ==
    LET bytes == SubSeq(from.blob.mem, from.read_cursor + 1, from.read_cursor + n)
    IN  With(s2n_stuffer_skip_read(from, n), LAMBDA r :
            IF ~r.ok THEN Both(FALSE, from, to, {})
            ELSE With(s2n_stuffer_write_bytes(to, bytes, malloc), LAMBDA w :
                        Both(w.ok, r.s, w.s, w.rel)))

\* Mutant: a failed copy does not give back what it took.
s2n_stuffer_copy_NoRestore(from, to, n, malloc) == s2n_stuffer_copy_impl(from, to, n, malloc)

s2n_stuffer_copy(from, to, n, malloc) ==
    With(s2n_stuffer_copy_impl(from, to, n, malloc), LAMBDA c :
        IF c.ok THEN c
        ELSE Both(FALSE, [c.from EXCEPT !.read_cursor = from.read_cursor],
                         [c.to EXCEPT !.write_cursor = to.write_cursor], c.rel))

s2n_stuffer_extract_blob(s) == SubSeq(s.blob.mem, s.read_cursor + 1, s.write_cursor)

(***************************************************************************)
(* Numbers in network order, and lengths filled in later.                  *)
(***************************************************************************)
NetworkOrder(u, n) == [i \in 1..n |-> (u \div (Radix ^ (n - i))) % Radix]

s2n_stuffer_write_network_order(s, u, n, malloc) ==
    s2n_stuffer_write_bytes(s, NetworkOrder(u, n), malloc)

s2n_stuffer_reserve(s, n, malloc) ==
    s2n_stuffer_write_bytes(s, [i \in 1..n |-> WIPE], malloc)

length_matches_value_check(u, n) == u < Radix ^ n

s2n_stuffer_reservation_validate(s, r) ==
    /\ s.blob.size >= r.length
    /\ r.length > 0 => r.write_cursor < s.write_cursor /\ r.write_cursor + r.length <= s.blob.size

\* The cursor goes back to the reservation for the write, and returns.
s2n_stuffer_write_reservation(s, r, u) ==
    IF length_matches_value_check(u, r.length)
    THEN [s2n_stuffer_write_network_order([s EXCEPT !.write_cursor = r.write_cursor], u, r.length,
                                          FALSE) EXCEPT !.s.write_cursor = s.write_cursor]
    ELSE No(s)

s2n_stuffer_write_vector_size(s, r) ==
    IF s.write_cursor < r.write_cursor + r.length THEN No(s)
    ELSE s2n_stuffer_write_reservation(s, r, s.write_cursor - r.write_cursor - r.length)

(***************************************************************************)
(* Text.                                                                   *)
(***************************************************************************)
Ahead(s) == SubSeq(s.blob.mem, s.read_cursor + 1, s.write_cursor)

\* How many of the next bytes come before the first that satisfies a test.
Run(s, Test(_)) ==
    LET a == Ahead(s)
        stops == {i \in DOMAIN a : Test(a[i])}
    IN  IF stops = {} THEN Len(a) ELSE (CHOOSE i \in stops : \A j \in stops : i <= j) - 1

s2n_stuffer_skip_whitespace(s) ==
    [s EXCEPT !.read_cursor = @ + Run(s, LAMBDA b : b # Delim)]

s2n_stuffer_skip_to_char(s) ==
    [s EXCEPT !.read_cursor = @ + Run(s, LAMBDA b : b = Delim)]

\* On too few the cursor is left behind what was skipped.
s2n_stuffer_skip_expected_char(s, min, max) ==
    LET skip == Lesser(Run(s, LAMBDA b : b # Delim), max)
    IN  Out(skip >= min, [s EXCEPT !.read_cursor = @ + skip], {})

s2n_stuffer_read_expected_str(s, expected) ==
    IF /\ Len(expected) <= s2n_stuffer_data_available(s)
       /\ IsPrefix(expected, Ahead(s))
    THEN Ok([s EXCEPT !.read_cursor = @ + Len(expected)])
    ELSE No(s)

s2n_stuffer_peek_check_for_str(s, expected) ==
    [s2n_stuffer_read_expected_str(s, expected) EXCEPT !.s.read_cursor = s.read_cursor]

\* A token ends at the delimiter, which is consumed with it.
s2n_stuffer_read_token(s, token, malloc) ==
    With(s2n_stuffer_copy(s, token, Run(s, LAMBDA b : b = Delim), malloc), LAMBDA c :
        IF c.ok /\ c.from.read_cursor < c.from.write_cursor
        THEN [c EXCEPT !.from.read_cursor = @ + 1]
        ELSE c)

(***************************************************************************)
(* File descriptors: read and write transfer some of what they are asked   *)
(* to, or fail (got = -1).                                                 *)
(***************************************************************************)
s2n_stuffer_recv_from_fd(s, n, bytes, fails, malloc) ==
    With(s2n_stuffer_skip_write(s, n, malloc), LAMBDA room :
        IF ~room.ok THEN room
        ELSE With([room.s EXCEPT !.write_cursor = s.write_cursor], LAMBDA undone :
                IF fails \/ undone.blob.mem = <<>> THEN Out(FALSE, undone, room.rel)
                ELSE [s2n_stuffer_write_bytes(undone, bytes, FALSE) EXCEPT !.rel = room.rel]))

s2n_stuffer_send_to_fd(s, n, w, fails) ==
    With(s2n_stuffer_skip_read(s, n), LAMBDA r :
        IF ~r.ok THEN r
        ELSE IF fails \/ s.blob.mem = <<>> THEN No(s)
        ELSE Ok([s EXCEPT !.read_cursor = @ + w]))

-----------------------------------------------------------------------------
NoReservation == [write_cursor |-> 0, length |-> 0]

\* A caller's static buffer is what the token is made of.
StaticBlob == [mem |-> <<UNINIT>>, size |-> 1, allocated |-> 0, growable |-> FALSE]

StufferInit == /\ stuffer = [q \in Stuffers |-> IF q = "s" THEN NoStuffer ELSE s2n_stuffer_init(StaticBlob)]
        /\ reservation = NoReservation
        /\ leaked = FALSE
        /\ call = "one"

\* The step of a call on one stuffer that returned r.
Did(q, result) ==
    \E r \in {result} :
        /\ stuffer' = [stuffer EXCEPT ![q] = r.s]
        /\ leaked' = (leaked \/ ~(r.rel \subseteq Harmless))
        /\ call' = IF r.ok THEN "one" ELSE "failed"

\* A caller holds a reservation only while it appends behind it.
Forget(q) == reservation' = IF q = "s" THEN NoReservation ELSE reservation

Lengths == 0..UINT32_MAX
Bytes == {<<1>>, <<1, 0>>}

Create ==
    /\ stuffer["s"] = NoStuffer
    /\ \E n \in Lengths, growable, malloc \in BOOLEAN :
          Did("s", s2n_stuffer_alloc(n, growable, malloc))
    /\ Forget("s")

Free == /\ stuffer["s"].alloced
        /\ Did("s", s2n_stuffer_free(stuffer["s"]))
        /\ Forget("s")

Shrink ==
    \E n \in 0..stuffer["s"].blob.size :
        /\ Did("s", s2n_stuffer_resize(stuffer["s"], n, FALSE))
        /\ Forget("s")

Grow ==
    \E n \in stuffer["s"].blob.size..UINT32_MAX, malloc \in BOOLEAN :
        /\ \/ Did("s", s2n_stuffer_resize(stuffer["s"], n, malloc))
           \/ Did("s", s2n_stuffer_resize_if_empty(stuffer["s"], n, malloc))
           \/ Did("s", s2n_stuffer_reserve_space(stuffer["s"], n, malloc))
        /\ UNCHANGED reservation

Discard ==
    \/ /\ \/ Did("s", Ok(s2n_stuffer_rewrite(stuffer["s"])))
          \/ \E n \in 1..2 : Did("s", Ok(s2n_stuffer_wipe_n(stuffer["s"], n)))
       /\ Forget("s")
    \/ \E q \in Stuffers : /\ Did(q, Ok(s2n_stuffer_wipe(stuffer[q])))
                           /\ Forget(q)

Read ==
    LET s == stuffer["s"] IN
        /\ \/ \E n \in 0..2 : Did("s", s2n_stuffer_read_bytes(s, n))
           \/ \E n \in 1..2 : \/ Did("s", s2n_stuffer_raw_read(s, n))
                               \/ Did("s", s2n_stuffer_rewind_read(s, n))
                               \/ Did("s", s2n_stuffer_erase_and_read(s, n))
           \/ \E w \in 0..2, fails \in BOOLEAN : Did("s", s2n_stuffer_send_to_fd(s, 2, w, fails))
           \/ Did("s", Ok(s2n_stuffer_reread(s)))
        /\ UNCHANGED reservation

Write ==
    \E bytes \in Bytes, malloc \in BOOLEAN : LET s == stuffer["s"] IN
        /\ \/ Did("s", s2n_stuffer_write_bytes(s, bytes, malloc))
           \/ Did("s", s2n_stuffer_raw_write(s, Len(bytes), malloc))
           \/ Did("s", s2n_stuffer_writev_bytes(s, <<<<1>>, bytes>>, 1, 1, malloc))
           \/ \E n \in 1..Len(bytes), fails \in BOOLEAN :
                 Did("s", s2n_stuffer_recv_from_fd(s, Len(bytes),
                                                          SubSeq(bytes, 1, n), fails, malloc))
        /\ UNCHANGED reservation

Text ==
    LET s == stuffer["s"]
    IN  /\ \/ Did("s", Ok(s2n_stuffer_skip_whitespace(s)))
           \/ Did("s", Ok(s2n_stuffer_skip_to_char(s)))
           \/ Did("s", [s2n_stuffer_skip_expected_char(s, 1, 2) EXCEPT !.ok = TRUE])
           \/ \E str \in Bytes : \/ Did("s", s2n_stuffer_read_expected_str(s, str))
                                 \/ Did("s", s2n_stuffer_peek_check_for_str(s, str))
        /\ UNCHANGED reservation

\* The step of a call that moves bytes from q to p and returned c.
Moved(q, p, result) ==
    /\ \E c \in {result} :
          /\ stuffer' = [stuffer EXCEPT ![q] = c.from, ![p] = c.to]
          /\ leaked' = (leaked \/ ~(c.rel \subseteq Harmless))
          /\ call' = IF c.ok THEN "copy" ELSE "failed"
    /\ UNCHANGED reservation

Transfer ==
    \E q, p \in Stuffers, n \in 1..2, malloc \in BOOLEAN :
        /\ q # p
        /\ Moved(q, p, s2n_stuffer_copy(stuffer[q], stuffer[p], n, malloc))

Token ==
    \E malloc \in BOOLEAN :
        Moved("s", "token", s2n_stuffer_read_token(stuffer["s"], stuffer["token"], malloc))

Reserve ==
    \E malloc \in BOOLEAN :
        \E r \in {s2n_stuffer_reserve(stuffer["s"], 1, malloc)} :
            /\ Did("s", r)
            /\ reservation' = IF r.ok
                              THEN [write_cursor |-> stuffer["s"].write_cursor, length |-> 1]
                              ELSE reservation

FillIn ==
    /\ reservation # NoReservation
    /\ s2n_stuffer_reservation_validate(stuffer["s"], reservation)
    /\ Did("s", s2n_stuffer_write_vector_size(stuffer["s"], reservation))
    /\ reservation' = NoReservation

StufferNext == \/ Create \/ Free \/ Shrink \/ Grow \/ Discard \/ Read \/ Write \/ Text
        \/ Transfer \/ Token \/ Reserve \/ FillIn

StufferSpec == StufferInit /\ [][StufferNext]_stufferVars

-----------------------------------------------------------------------------
\* The cursors stay in order and inside the blob whatever is called, and a
\* reservation stays inside what was written (s2n_stuffer_validate and
\* s2n_stuffer_reservation_validate, the code's own postconditions).
CursorsInOrder ==
    /\ \A q \in Stuffers : s2n_stuffer_validate(stuffer[q])
    /\ s2n_stuffer_reservation_validate(stuffer["s"], reservation)

\* No byte that was written is left where a wipe would not reach: above the
\* high water mark, or in memory given back to the system (s2n_stuffer_wipe
\* clears only up to the mark, s2n_realloc and s2n_free give memory back).
SecretsWiped ==
    /\ ~leaked
    /\ \A q \in Stuffers : \A i \in DOMAIN stuffer[q].blob.mem :
          i > stuffer[q].high_water_mark => stuffer[q].blob.mem[i] \in Harmless

Queue == INSTANCE ByteQueue
            WITH past <- [q \in Stuffers |->
                            SubSeq(stuffer[q].blob.mem, 1, stuffer[q].read_cursor)],
                 rest <- [q \in Stuffers |-> Ahead(stuffer[q])]

\* Through growth, reallocation, failed allocation, failed reads and writes
\* of descriptors and failed copies, a stuffer is a queue of bytes: a call
\* that fails takes and adds nothing (stuffer/s2n_stuffer.c).
StufferIsQueue == Queue!Spec

=============================================================================
