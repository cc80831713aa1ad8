------------------------------ MODULE ByteQueue ------------------------------
(***************************************************************************)
(* What a stuffer promises: a queue of bytes that remembers what was read. *)
(* past is what has been read and can be read again, rest is what is still *)
(* to be read.  A call works on one queue, copies from one to another, or   *)
(* fails.                                                                  *)
(***************************************************************************)
EXTENDS Naturals, Sequences, SequencesExt

CONSTANT Stuffers

VARIABLES past, rest, call

vars == <<past, rest, call>>

All(q) == past[q] \o rest[q]

Only(q) == \A p \in Stuffers \ {q} : past'[p] = past[p] /\ rest'[p] = rest[p]

Init == /\ past = [q \in Stuffers |-> <<>>]
        /\ rest = [q \in Stuffers |-> <<>>]
        /\ call = "one"

\* A write adds bytes at the end.
Append1(q) == /\ call' = "one"
              /\ IsPrefix(rest[q], rest'[q])
              /\ past'[q] = past[q]
              /\ Only(q)

\* Reading moves the boundary, forwards or back, and changes no byte.
Move(q) == /\ call' = "one"
           /\ past'[q] \o rest'[q] = All(q)
           /\ Only(q)

\* An erasing read moves the boundary forwards and zeroes what it passed.
Erase(q) == /\ call' = "one"
            /\ IsSuffix(rest'[q], rest[q])
            /\ IsPrefix(past[q], past'[q])
            /\ Len(past'[q] \o rest'[q]) = Len(All(q))
            /\ \A i \in (Len(past[q]) + 1)..Len(past'[q]) : past'[q][i] = 0
            /\ Only(q)

\* Wiping, shrinking, rewriting and freeing drop bytes at the end.
Drop(q) == /\ call' = "one"
           /\ IsPrefix(past'[q] \o rest'[q], All(q))
           /\ IsPrefix(past'[q], past[q])
           /\ Only(q)

\* Filling in a length that was reserved keeps every other byte.
Patch(q) == /\ call' = "one"
            /\ Len(past'[q]) = Len(past[q])
            /\ Len(rest'[q]) = Len(rest[q])
            /\ \E k \in 1..Len(All(q)) : \A i \in (1..Len(All(q))) \ {k} :
                  (past'[q] \o rest'[q])[i] = All(q)[i]
            /\ Only(q)

\* A copy takes from one what it adds to the other; a token's delimiter is
\* taken too.
Copy(p, q) == /\ call' = "copy"
              /\ p # q
              /\ \E n \in 0..Len(rest[p]) :
                    /\ past'[p] \o rest'[p] = All(p)
                    /\ Len(past'[p]) - Len(past[p]) \in {n, n + 1}
                    /\ rest'[q] = rest[q] \o SubSeq(rest[p], 1, n)
                    /\ past'[q] = past[q]
              /\ \A r \in Stuffers \ {p, q} : past'[r] = past[r] /\ rest'[r] = rest[r]

\* A call that fails leaves every queue as it was.
Fail == /\ call' = "failed"
        /\ UNCHANGED <<past, rest>>

Next == \/ \E q \in Stuffers : \/ Append1(q)
                               \/ Move(q)
                               \/ Erase(q)
                               \/ Drop(q)
                               \/ Patch(q)
        \/ \E p, q \in Stuffers : Copy(p, q)
        \/ Fail

Spec == Init /\ [][Next]_vars

=============================================================================
