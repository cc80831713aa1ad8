--------------------------- MODULE AsyncHandshake ---------------------------
(***************************************************************************)
(* The handshake messages of one connection as s2n_negotiate reads them    *)
(* out of records and writes them, and the asynchronous private-key        *)
(* operations that a message waits for: the callback, the worker that      *)
(* performs and applies the operation in a thread of its own, the retry.   *)
(*                                                                         *)
(* A message is two units on the wire, its header and its body.  The peer  *)
(* cuts its units into records as it likes.                                *)
(***************************************************************************)
EXTENDS Integers, Sequences

CONSTANTS
    MaxRecordUnits,     \* units that a record holds
    MaxWipes,           \* times that the connection is wiped and used again
    CoalesceAfterAsync  \* the peer may put a message behind one that is to
                        \* wait for the private key, in the same record

ASSUME AsyncAssumption ==
    /\ MaxRecordUnits \in Nat \ {0} /\ MaxWipes \in Nat
    /\ CoalesceAfterAsync \in BOOLEAN

VARIABLES
    script,         \* the messages of this handshake, read or written
    generation,     \* how often the connection was wiped
    pos,            \* message_number
    sent,           \* units of the script that the peer has sent
    wire,           \* records on their way
    in, io,         \* conn->in and conn->handshake.io
    paused, async_state,
    at,             \* s2n_negotiate is in the callback, or not running
    result,         \* the operation whose on_complete wrote to the connection
    ops,            \* the operations handed to the callback
    handled,        \* messages handled and the operation used: a history
    error

connVars == <<script, generation, pos, sent, wire, in, io, paused, at, handled, error>>
vars == <<connVars, async_state, result, ops>>

----------------------------------------------------------------------------
Msg(reads, async) == [reads |-> reads, async |-> async]

\* An RSA key exchange with a client certificate, the signature of a
\* ServerKeyExchange, and of a client's CertificateVerify.
Scripts == {
    <<Msg(TRUE, FALSE), Msg(TRUE, TRUE), Msg(TRUE, FALSE), Msg(TRUE, FALSE)>>,
    <<Msg(FALSE, TRUE), Msg(FALSE, FALSE), Msg(TRUE, FALSE)>>,
    <<Msg(TRUE, FALSE), Msg(FALSE, FALSE), Msg(FALSE, TRUE), Msg(TRUE, FALSE)>> }

Done    == pos > Len(script)
Message == script[pos]

\* The peer sends a message when it has seen all that come before it.
MaySend(m) ==
    /\ m <= Len(script) /\ script[m].reads
    /\ \A k \in pos .. m - 1 : script[k].reads

UnitMsg(u) == (u + 1) \div 2       \* of unit u
SkipWritten(u) ==                  \* the first unit from u on that the peer sends
    LET ms == {m \in UnitMsg(u) .. Len(script) : script[m].reads}
    IN  IF script[UnitMsg(u)].reads \/ ms = {} THEN u
        ELSE 2 * (CHOOSE m \in ms : \A k \in ms : m <= k) - 1

PeerSendsRecord ==
    /\ error = "NONE" /\ sent < 2 * Len(script)
    /\ \E n \in 1 .. MaxRecordUnits :
          LET first == SkipWritten(sent + 1)
              units == [i \in 1 .. n |-> first + i - 1]
          IN  /\ \A i \in 1 .. n : MaySend(UnitMsg(units[i]))
              /\ CoalesceAfterAsync \/ \A i \in 1 .. n - 1 :
                    ~(script[UnitMsg(units[i])].async /\ UnitMsg(units[i + 1]) # UnitMsg(units[i]))
              /\ wire' = Append(wire, units)
              /\ sent' = first + n - 1
    /\ UNCHANGED <<script, generation, pos, in, io, paused, at, handled, error, async_state,
                   result, ops>>

----------------------------------------------------------------------------
(***************************************************************************)
(* s2n_negotiate.                                                          *)
(***************************************************************************)
Running == at = "NEGOTIATE" /\ error = "NONE" /\ ~Done

\* A message is done: hashed, handshake.io wiped, the state machine advanced.
\* A message read is what handshake.io holds.
s2n_finish_message(buffer) ==
    /\ handled' = Append(handled, <<IF ~Message.reads THEN pos
                                    ELSE IF buffer = <<2 * pos - 1, 2 * pos>> THEN pos ELSE 0,
                                    IF Message.async THEN result ELSE 0>>)
    /\ io' = << >>
    /\ pos' = pos + 1

ReadRecord ==
    /\ Running /\ ~paused /\ Message.reads
    /\ in = << >> /\ wire # << >>
    /\ in' = wire[1]
    /\ wire' = Tail(wire)
    /\ UNCHANGED <<script, generation, pos, sent, io, paused, at, handled, error, async_state,
                   result, ops>>

\* s2n_async_pkey_sign_async, s2n_async_pkey_decrypt_async: the input is copied
\* and so is, for a decryption, the random output that stands for a failed one.
NewOp(strict) ==
    [generation |-> generation, msg |-> pos, type |-> IF Message.reads THEN "DECRYPT" ELSE "SIGN",
     strict |-> strict, status |-> "NEW", valid |-> FALSE, applied |-> FALSE, freed |-> FALSE,
     buffers |-> IF Message.reads THEN {"INPUT", "OUTPUT"} ELSE {"INPUT"}]

\* S2N_ASYNC_PKEY_GUARD and, if no operation was started, s2n_async_cb_execute.
InvokeHandler(buffer) ==
    \/ /\ ~Message.async \/ async_state = "COMPLETE"
       /\ s2n_finish_message(buffer)
       /\ async_state' = IF Message.async THEN "NOT_INVOKED" ELSE async_state
       /\ UNCHANGED <<at, ops>>
    \/ /\ Message.async /\ async_state = "NOT_INVOKED"
       /\ async_state' = "INVOKED"
       /\ at' = "CALLBACK"
       /\ \E strict \in {FALSE, ~Message.reads} : ops' = Append(ops, NewOp(strict))
       /\ io' = buffer
       /\ UNCHANGED <<pos, handled>>

\* Mutant: the record is wiped with its first message.
ReadFull_WipesTheRecord(record, buffer) ==
    LET n == IF Len(record) < 2 - Len(buffer) THEN Len(record) ELSE 2 - Len(buffer)
    IN  [io |-> buffer \o SubSeq(record, 1, n), in |-> << >>]

\* What is missing of the message, or what the record has of it.
s2n_read_full_handshake_message(record, buffer) ==
    LET n == IF Len(record) < 2 - Len(buffer) THEN Len(record) ELSE 2 - Len(buffer)
    IN  [io |-> buffer \o SubSeq(record, 1, n), in |-> SubSeq(record, n + 1, Len(record))]

\* One turn of the loop of s2n_handshake_read_io over the record.
ReadMessage ==
    /\ Running /\ ~paused /\ Message.reads /\ in # << >>
    /\ LET read == s2n_read_full_handshake_message(in, io)
       IN  /\ in' = read.in
           /\ \/ /\ Len(read.io) < 2
                 /\ io' = read.io
                 /\ UNCHANGED <<pos, at, handled, error, async_state, ops>>
              \/ /\ Len(read.io) = 2
                 /\ IF UnitMsg(read.io[1]) = pos
                    THEN InvokeHandler(read.io) /\ UNCHANGED error
                    ELSE /\ error' = "BAD_MESSAGE"
                         /\ UNCHANGED <<pos, io, at, handled, async_state, ops>>
    /\ UNCHANGED <<script, generation, sent, wire, paused, result>>

WriteMessage ==
    /\ Running /\ ~paused /\ ~Message.reads
    /\ InvokeHandler(<< >>)
    /\ UNCHANGED <<script, generation, sent, wire, in, paused, error, result>>

\* Mutant: the connection is marked when the callback has returned.
CallbackReturns_MarksLate ==
    /\ at = "CALLBACK"
    /\ at' = "NEGOTIATE"
    /\ paused' = TRUE
    /\ async_state' = "INVOKED"
    /\ UNCHANGED <<script, generation, pos, sent, wire, in, io, handled, error, result, ops>>

\* The callback returns.  If the operation is applied by now the handler goes
\* on, and async_state stays as it is; if not, the handshake pauses.
CallbackReturns ==
    /\ at = "CALLBACK"
    /\ at' = "NEGOTIATE"
    /\ \/ /\ async_state = "COMPLETE"
          /\ s2n_finish_message(io)
          /\ UNCHANGED paused
       \/ /\ async_state # "COMPLETE"
          /\ paused' = TRUE
          /\ UNCHANGED <<handled, io, pos>>
    /\ UNCHANGED <<script, generation, sent, wire, in, error, async_state, result, ops>>

CallbackFails ==
    /\ at = "CALLBACK"
    /\ at' = "NEGOTIATE"
    /\ error' = "ASYNC_CALLBACK_FAILED"
    /\ UNCHANGED <<script, generation, pos, sent, wire, in, io, paused, handled, async_state,
                   result, ops>>

\* Mutant: the handshake stays paused.
Retry_StaysPaused ==
    /\ Running /\ paused
    /\ async_state = "COMPLETE"
    /\ in' = IF Message.reads THEN << >> ELSE in
    /\ s2n_finish_message(io)
    /\ UNCHANGED <<script, generation, sent, wire, paused, at, error, async_state, result, ops>>

\* s2n_handle_retry_state.  While the operation is not applied the handler is
\* blocked again and nothing changes.  A reader's whole record is wiped.
s2n_handle_retry_state ==
    /\ Running /\ paused
    /\ async_state = "COMPLETE"
    /\ async_state' = "NOT_INVOKED"
    /\ paused' = FALSE
    /\ in' = IF Message.reads THEN << >> ELSE in
    /\ s2n_finish_message(io)
    /\ UNCHANGED <<script, generation, sent, wire, at, error, result, ops>>

s2n_negotiate == ReadRecord \/ ReadMessage \/ WriteMessage \/ s2n_handle_retry_state

----------------------------------------------------------------------------
(***************************************************************************)
(* The application's worker, which may run while s2n_negotiate does.  It   *)
(* performs an operation once, or computes the output itself; it does not  *)
(* touch an operation of a connection wiped since but to free it.          *)
(***************************************************************************)
Live(o) == ~ops[o].freed /\ ops[o].status # "APPLYING"
Current(o) == ops[o].generation = generation

SetOp(o, op) == ops' = [ops EXCEPT ![o] = op]

\* s2n_async_pkey_sign_perform may fail after it allocated the signature; a
\* decryption that fails is complete all the same (rsa_failed).
PerformOutcomes(type) == IF type = "SIGN" THEN {"COMPLETE", "FAILED"} ELSE {"COMPLETE"}

s2n_async_pkey_op_perform(o) ==
    /\ Live(o) /\ Current(o) /\ ops[o].status = "NEW"
    /\ \E status \in PerformOutcomes(ops[o].type) :
          SetOp(o, [ops[o] EXCEPT !.status = status, !.valid = TRUE, !.buffers = @ \cup {"OUTPUT"}])
    /\ UNCHANGED <<connVars, async_state, result>>

\* An output computed elsewhere.  It may be wrong where the operation is to
\* validate it; without validation the application is trusted.
s2n_async_pkey_op_set_output(o, valid) ==
    /\ Live(o) /\ Current(o) /\ ~ops[o].applied
    /\ valid \/ ops[o].strict
    /\ SetOp(o, [ops[o] EXCEPT !.status = "COMPLETE", !.valid = valid, !.buffers = @ \cup {"OUTPUT"}])
    /\ UNCHANGED <<connVars, async_state, result>>

\* s2n_async_pkey_verify_signature, for a signature in strict mode.
s2n_async_pkey_verify_signature(op) == op.strict => op.valid

\* s2n_async_pkey_op_apply: on_complete writes to the connection first ...
ApplyBegin(o) ==
    /\ Live(o) /\ Current(o) /\ ops[o].status = "COMPLETE" /\ ~ops[o].applied
    /\ async_state = "INVOKED"
    /\ s2n_async_pkey_verify_signature(ops[o])
    /\ result' = IF ops[o].valid THEN ops[o].msg ELSE 0
    /\ SetOp(o, [ops[o] EXCEPT !.status = "APPLYING"])
    /\ UNCHANGED <<connVars, async_state>>

\* s2n_async_pkey_sign_free, s2n_async_pkey_decrypt_free: both buffers.
Released == {}

\* ... and then the connection is told, and the buffers are released.
ApplyEnd(o) ==
    /\ ops[o].status = "APPLYING"
    /\ async_state' = "COMPLETE"
    /\ SetOp(o, [ops[o] EXCEPT !.status = "COMPLETE", !.applied = TRUE, !.buffers = Released])
    /\ UNCHANGED <<connVars, result>>

\* When it was applied, or when nobody waits for it any more.
s2n_async_pkey_op_free(o) ==
    /\ Live(o)
    /\ ops[o].applied \/ ~Current(o) \/ error # "NONE"
    /\ SetOp(o, [ops[o] EXCEPT !.freed = TRUE, !.buffers = IF ops[o].applied THEN @ ELSE Released])
    /\ UNCHANGED <<connVars, async_state, result>>

Worker(o) ==
    \/ s2n_async_pkey_op_perform(o)
    \/ \E valid \in BOOLEAN : s2n_async_pkey_op_set_output(o, valid)
    \/ ApplyBegin(o) \/ ApplyEnd(o) \/ s2n_async_pkey_op_free(o)

----------------------------------------------------------------------------
Start(s) ==
    /\ script' = s /\ pos' = 1 /\ sent' = 0 /\ wire' = << >> /\ in' = << >> /\ io' = << >>
    /\ paused' = FALSE /\ async_state' = "NOT_INVOKED" /\ result' = 0
    /\ handled' = << >> /\ error' = "NONE"

\* s2n_connection_wipe, between two calls.
s2n_connection_wipe ==
    /\ at = "NEGOTIATE" /\ generation < MaxWipes
    /\ \A o \in DOMAIN ops : ops[o].status # "APPLYING"
    /\ generation' = generation + 1
    /\ \E s \in Scripts : Start(s)
    /\ UNCHANGED <<at, ops>>

Init ==
    /\ script \in Scripts
    /\ generation = 0 /\ pos = 1 /\ sent = 0 /\ wire = << >> /\ in = << >> /\ io = << >>
    /\ paused = FALSE /\ async_state = "NOT_INVOKED" /\ at = "NEGOTIATE" /\ result = 0
    /\ ops = << >> /\ handled = << >> /\ error = "NONE"

Next ==
    \/ PeerSendsRecord \/ s2n_negotiate \/ CallbackReturns \/ CallbackFails
    \/ s2n_connection_wipe
    \/ \E o \in DOMAIN ops : Worker(o)

Spec == Init /\ [][Next]_vars

\* Each of the three keeps going: the peer, the thread that calls s2n_negotiate,
\* the worker, which tries again when it failed, with an output of its own, and
\* does not replace a good output by a bad one for ever.
FairSpec ==
    /\ Spec
    /\ WF_vars(PeerSendsRecord) /\ WF_vars(s2n_negotiate) /\ WF_vars(CallbackReturns)
    /\ \A o \in 1 .. MaxWipes + 1 :
          /\ SF_vars(o \in DOMAIN ops /\ (ApplyBegin(o) \/ ApplyEnd(o)))
          /\ WF_vars(o \in DOMAIN ops /\ ~(ops[o].status = "COMPLETE" /\ ops[o].valid)
                     /\ s2n_async_pkey_op_set_output(o, TRUE))

----------------------------------------------------------------------------
\* The implementation of MessageOrder: records cut anywhere, a callback that
\* completes at once or later, a worker in between any two steps and operations
\* that outlive the handshake that started them do not change which messages
\* are handled, and with which result.
Promise == INSTANCE MessageOrder
              WITH order <- [i \in DOMAIN script |-> script[i].async], log <- handled
InOrder == Promise!Spec

\* No message of a conforming peer is taken for another, or lost: "it could be a
\* partial fragment of a message, or it might contain several messages"
\* (s2n_handshake_io.c).
EveryMessageArrives == error # "BAD_MESSAGE"

\* An operation that is freed holds no memory: what s2n_async_pkey_op_free does
\* not release was released when the operation was applied.
OperationsReleased == \A o \in DOMAIN ops : ops[o].freed => ops[o].buffers = {}

\* Pausing for a worker loses neither a message nor memory: the two properties
\* above.
NothingLost == EveryMessageArrives /\ OperationsReleased

\* The handshake ends, or fails because the callback did: no interleaving of the
\* worker and the callback's return leaves the connection waiting.
HandshakeEnds == <>[](Done \/ error = "ASYNC_CALLBACK_FAILED")
=============================================================================
