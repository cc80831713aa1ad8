---------------------------- MODULE MessageOrder ----------------------------
(***************************************************************************)
(* What the reading and writing of handshake messages promises: the        *)
(* messages of a handshake are handled in order, each once, and one that   *)
(* needs the private key is done with the result of its own operation.     *)
(* Wiping the connection starts over.                                      *)
(***************************************************************************)
EXTENDS Naturals, Sequences

VARIABLES
    order,      \* order[i]: does message i need the private key?
    log         \* the messages handled: <<message, operation that it used or 0>>

Handle ==
    LET i == Len(log) + 1
    IN  /\ i \in DOMAIN order
        /\ log' = Append(log, <<i, IF order[i] THEN i ELSE 0>>)
        /\ UNCHANGED order

StartOver == log' = << >> /\ order' \in Seq(BOOLEAN)

Init == log = << >> /\ order \in Seq(BOOLEAN)
Next == Handle \/ StartOver
Spec == Init /\ [][Next]_<<order, log>>
=============================================================================
