--------------------------- MODULE MCConnectionIO ---------------------------
(***************************************************************************)
(* Model checking ConnectionIO.                                            *)
(***************************************************************************)
EXTENDS ConnectionIO

\* The client sends most; the server enough to cross a key update.
ClientSends == [e \in Mode |-> IF e = "C" THEN 2 ELSE 1]

ClientOnly == [e \in Mode |-> IF e = "C" THEN 2 ELSE 0]

=============================================================================
