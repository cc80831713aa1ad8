----------------------------- MODULE Containers -----------------------------
(***************************************************************************)
(* The hash map (utils/s2n_map.c), which probes its table linearly and     *)
(* doubles it, and the array and the sorted set (utils/s2n_array.c,        *)
(* utils/s2n_set.c).  An allocation may fail anywhere in the middle of an  *)
(* operation: Failures bounds how often.                                   *)
(***************************************************************************)
EXTENDS Integers, Sequences, FiniteSets, FiniteSetsExt

CONSTANTS Keys, Values,          \* what the map holds
          Elements,              \* what the set holds, positive integers
          InitialCapacity,       \* of the map
          MaxCapacity,           \* of the map, a bound of the model
          S2N_INITIAL_ARRAY_SIZE,
          Failures               \* how many allocations may fail

ASSUME ContainersConstants ==
    /\ InitialCapacity \in Nat \ {0}
    /\ S2N_INITIAL_ARRAY_SIZE \in Nat \ {0}
    /\ Elements \subseteq Nat \ {0}
    /\ Failures \in Nat

VARIABLES hash,        \* the hash of every key: any function
          map,         \* [table, size, immutable]
          content,     \* what was put in the map, by key
          array,       \* [mem, len]
          members,     \* the elements the set should hold
          failures     \* allocations that may still fail

containersVars == <<hash, map, content, array, members, failures>>

NoKey == "none"
Empty == [of |-> NoKey, n |-> 0]    \* a value without bytes
Absent == [of |-> NoKey, n |-> -1]  \* what a lookup that finds nothing returns

\* The values put under a key, told apart from those of other keys.
ValuesOf(k) == {[of |-> k, n |-> v] : v \in Values}

NoEntry == [key |-> NoKey, value |-> Empty]

(***************************************************************************)
(* The map.                                                                *)
(***************************************************************************)
Capacity(m) == Cardinality(DOMAIN m.table)

s2n_map_slot(m, k) == hash[k] % Capacity(m)

\* The n-th slot a search for k looks at.
Slot(m, k, n) == (s2n_map_slot(m, k) + n) % Capacity(m)

Stops(m, k) == {n \in 0..(Capacity(m) - 1) : m.table[Slot(m, k, n)].key \in {NoKey, k}}

\* Where the search for k ends: at k or at a free slot.  A search in a table
\* with neither goes round for ever.
Hangs(m, k) == Stops(m, k) = {}
Probe(m, k) == Slot(m, k, Min(Stops(m, k)))

NewTable(capacity) == [i \in 0..(capacity - 1) |-> NoEntry]

Enter(m, slot, k, v) ==
    [m EXCEPT !.table[slot] = [key |-> k, value |-> v], !.size = @ + 1]

\* The entries of slots below n of a table, moved to a table twice as large.
Rehashed(m, n) ==
    LET Moved(t, e) == IF e.key = NoKey THEN t ELSE Enter(t, Probe(t, e.key), e.key, e.value)
        Move[i \in 0..Capacity(m)] ==
            IF i = 0 THEN [m EXCEPT !.table = NewTable(2 * Capacity(m)), !.size = 0]
            ELSE CHOOSE next \in {Moved(t, m.table[i - 1]) : t \in {Move[i - 1]}} : TRUE
    IN  Move[n]

\* The table doubles.  When it fails at slot n, the entries below n are freed
\* already and the rest stays; the new table is lost.
s2n_map_embiggen(m) == Rehashed(m, Capacity(m))

EmbiggenFailed(m, n) ==
    [m EXCEPT !.table = [i \in DOMAIN @ |-> IF i < n THEN NoEntry ELSE @[i]]]

Crowded(m) == Capacity(m) < 2 * m.size

\* The map an add or a put finds when it searches its slot.
Roomy(m) == IF Crowded(m) THEN s2n_map_embiggen(m) ELSE m

s2n_map_lookup(m, k) ==
    IF Hangs(m, k) \/ m.table[Probe(m, k)].key = NoKey THEN Absent
    ELSE m.table[Probe(m, k)].value

(***************************************************************************)
(* The array and the set.  mem is the memory in elements, zero where it    *)
(* holds none.                                                             *)
(***************************************************************************)
s2n_array_capacity(a) == Len(a.mem)

s2n_array_enlarge(a, capacity) ==
    [a EXCEPT !.mem = [i \in 1..capacity |-> IF i <= a.len THEN a.mem[i] ELSE 0]]

NeedsRoom(a) == a.len >= s2n_array_capacity(a)

NewCapacity(a) ==
    Max({2 * s2n_array_capacity(a), S2N_INITIAL_ARRAY_SIZE})

\* An element goes to index idx, those from there on move up.
s2n_array_insert_and_copy(a, idx, e) ==
    LET b == IF NeedsRoom(a) THEN s2n_array_enlarge(a, NewCapacity(a)) ELSE a
    IN  [mem |-> [i \in DOMAIN b.mem |->
                    CASE i <= idx -> b.mem[i]
                      [] i = idx + 1 -> e
                      [] i > idx + 1 /\ i <= b.len + 1 -> b.mem[i - 1]
                      [] OTHER -> b.mem[i]],
         len |-> b.len + 1]

s2n_array_remove(a, idx) ==
    [mem |-> [i \in DOMAIN a.mem |->
                CASE i <= idx -> a.mem[i]
                  [] i > idx /\ i < a.len -> a.mem[i + 1]
                  [] i = a.len -> 0
                  [] OTHER -> a.mem[i]],
     len |-> a.len - 1]

\* The index of the first larger element, or -1 when e is there already.
s2n_set_binary_search(a, e) ==
    LET Search[low \in 0..a.len, top \in -1..(a.len - 1)] ==
            LET mid == low + ((top - low) \div 2)
            IN  IF low > top THEN low
                ELSE IF a.mem[mid + 1] = e THEN -1
                ELSE IF a.mem[mid + 1] > e THEN Search[low, mid - 1]
                ELSE Search[mid + 1, top]
    IN  IF a.len = 0 THEN 0 ELSE Search[0, a.len - 1]

-----------------------------------------------------------------------------
\* A new array allocates its first elements; one in place starts with none.
ContainersInit == /\ hash \in [Keys -> 0..(MaxCapacity - 1)]
        /\ map = [table |-> NewTable(InitialCapacity), size |-> 0, immutable |-> FALSE]
        /\ content = [k \in Keys |-> Absent]
        /\ array \in {[mem |-> <<>>, len |-> 0],
                      [mem |-> [i \in 1..S2N_INITIAL_ARRAY_SIZE |-> 0], len |-> 0]}
        /\ members = {}
        /\ failures = Failures

ArrayVars == <<array, members>>
MapVars == <<map, content, hash>>

\* A call on key k searches m, which has room, and ends at slot.
OnMap(k, Op(_, _)) == /\ ~map.immutable
                      /\ Crowded(map) => 2 * Capacity(map) <= MaxCapacity
                      /\ \E m \in {Roomy(map)} :
                            \* otherwise the call would not return
                            /\ ~Hangs(m, k)
                            /\ \E slot \in {Probe(m, k)} : Op(m, slot)

s2n_map_add(k, v) ==
    LET In(m, slot) == map' = IF m.table[slot].key = k THEN m ELSE Enter(m, slot, k, v)
        Content(m, slot) ==
            content' = IF m.table[slot].key = k THEN content ELSE [content EXCEPT ![k] = v]
    IN  /\ OnMap(k, LAMBDA m, slot : In(m, slot) /\ Content(m, slot))
        /\ UNCHANGED <<hash, ArrayVars, failures>>

Replaced(m, slot, k) == [m EXCEPT !.size = IF m.table[slot].key = k THEN @ - 1 ELSE @]

s2n_map_put(k, v) ==
    /\ OnMap(k, LAMBDA m, slot : map' = Enter(Replaced(m, slot, k), slot, k, v))
    /\ content' = [content EXCEPT ![k] = v]
    /\ UNCHANGED <<hash, ArrayVars, failures>>

\* A put frees the entry it replaces before it copies the key and the value.
EntryFreed(m, slot, k) == IF m.table[slot].key = k
                     THEN [Replaced(m, slot, k) EXCEPT !.table[slot] = NoEntry] ELSE m

\* An add or put that fails: while the table grows, or at the copy of the key
\* or of the value.
MapCallFails(k, put) ==
    LET Copies(m, slot) ==
            /\ put \/ m.table[slot].key # k
            /\ map' \in {EntryFreed(m, slot, k),
                         [EntryFreed(m, slot, k) EXCEPT !.table[slot] = [key |-> k, value |-> Empty]]}
        Grows(m, slot) ==
            /\ Crowded(map)
            /\ \E n \in 0..Capacity(map) : map' = EmbiggenFailed(map, n)
    IN  /\ failures > 0
        /\ OnMap(k, LAMBDA m, slot : Grows(m, slot) \/ Copies(m, slot))
        /\ failures' = failures - 1
        /\ UNCHANGED <<hash, content, ArrayVars>>

s2n_map_complete == /\ map' = [map EXCEPT !.immutable = TRUE]
                    /\ UNCHANGED <<hash, content, ArrayVars, failures>>

s2n_map_unlock == /\ map' = [map EXCEPT !.immutable = FALSE]
                  /\ UNCHANGED <<hash, content, ArrayVars, failures>>

s2n_set_add(e) ==
    LET idx == s2n_set_binary_search(array, e)
    IN  /\ array' = IF idx < 0 THEN array ELSE s2n_array_insert_and_copy(array, idx, e)
        /\ members' = members \cup {e}
        /\ UNCHANGED <<MapVars, failures>>

\* The array cannot grow: nothing is added.
SetAddFails(e) == /\ failures > 0
                  /\ s2n_set_binary_search(array, e) >= 0
                  /\ NeedsRoom(array)
                  /\ failures' = failures - 1
                  /\ UNCHANGED <<MapVars, ArrayVars>>

s2n_set_remove(idx) == /\ idx < array.len
                       /\ array' = s2n_array_remove(array, idx)
                       /\ members' = members \ {array.mem[idx + 1]}
                       /\ UNCHANGED <<MapVars, failures>>

MapNext == \/ \E k \in Keys : \E v \in ValuesOf(k) : s2n_map_add(k, v) \/ s2n_map_put(k, v)
           \/ \E k \in Keys, put \in BOOLEAN : MapCallFails(k, put)
           \/ s2n_map_complete
           \/ s2n_map_unlock

SetNext == \/ \E e \in Elements : s2n_set_add(e) \/ SetAddFails(e)
           \/ \E idx \in 0..(Cardinality(Elements) - 1) : s2n_set_remove(idx)

-----------------------------------------------------------------------------
\* While no allocation has failed the map answers every lookup with what was
\* put, through collisions and growth, its size counts its keys and a search
\* ends.  After a failure it may have lost keys, but it never gives one key
\* the value of another (s2n_map_embiggen, s2n_map_put and s2n_map_add free
\* and copy entry by entry).
MapAnswers ==
    \A k \in Keys :
        LET r == s2n_map_lookup(map, k)
        IN  IF failures = Failures
            THEN /\ r = content[k]
                 /\ map.size = Cardinality({j \in Keys : content[j] # Absent})
                 /\ ~Hangs(Roomy(map), k)
            ELSE r \in ValuesOf(k) \cup {Absent, Empty}

\* The set holds its members in order and nothing else, and the memory behind
\* the last one is clear (s2n_set_add finds the place by binary search in an
\* array that grows under it).
SetInOrder ==
    /\ array.len = Cardinality(members)
    /\ \A i \in 1..array.len : array.mem[i] \in members
    /\ \A i \in 1..(array.len - 1) : array.mem[i] < array.mem[i + 1]
    /\ \A i \in (array.len + 1)..s2n_array_capacity(array) : array.mem[i] = 0

\* The containers hold what was put in them: the two properties above.
ContainersRight == MapAnswers /\ SetInOrder

=============================================================================
