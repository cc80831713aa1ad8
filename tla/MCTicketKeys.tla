---------------------------- MODULE MCTicketKeys ----------------------------
(***************************************************************************)
(* Model checking TicketKeys.                                              *)
(***************************************************************************)
EXTENDS TicketKeys, TLC

\* Connections, names and contents are only compared.
Symmetry == Permutations(Conn) \cup Permutations(Name) \cup Permutations(Material)

=============================================================================
