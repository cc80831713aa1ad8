---------------------------- MODULE ConnectionIO ----------------------------
(***************************************************************************)
(* Two connections past their handshake: s2n_send, s2n_recv, s2n_shutdown, *)
(* the s2n_flush they share, key updates and session tickets, over a       *)
(* socket that may refuse a record at any time.                            *)
(*                                                                         *)
(* The application's data is a stream of bytes named by their position.    *)
(* The application keeps the contract of s2n_send: after a short or a      *)
(* blocked call it offers the bytes from the first one not reported sent.  *)
(*                                                                         *)
(* conn->out holds at most one record.  Each call runs in the sender or in *)
(* the receiver thread of its connection; with Duplex the two run at once, *)
(* without it one call returns before the next starts.                     *)
(***************************************************************************)
EXTENDS Integers, Sequences

CONSTANTS
    StreamLen,      \* StreamLen[e]: the bytes that e's application sends
    PayloadSizes,   \* the limits that a record's payload may have: the smallest
                    \* (dynamic records), the largest, and 1 (TLS 1.0 splitting)
    encryption_limit,   \* records under one key, before it is updated
    tickets_to_send,    \* session tickets the server issues
    Capacity,       \* records the socket holds
    Duplex          \* a sender and a receiver thread at the same time

Mode == {"C", "S"}
Thread == {"SENDER", "RECEIVER"}
Peer(e) == IF e = "C" THEN "S" ELSE "C"

ASSUME IOAssumption ==
    /\ StreamLen \in [Mode -> Nat]
    /\ PayloadSizes \subseteq Nat \ {0} /\ PayloadSizes # {}
    /\ encryption_limit \in Nat \ {0}
    /\ tickets_to_send \in Nat
    /\ Capacity \in Nat \ {0}
    /\ Duplex \in BOOLEAN

VARIABLES
    at,         \* at[e][t]: where thread t of e is; see Pc
    total,      \* total_size of the s2n_send in progress
    sent,       \* user_data_sent of the s2n_send in progress
    consumed,   \* conn->current_user_data_consumed
    acked,      \* bytes that calls of s2n_send have reported as sent
    written,    \* bytes put in records, and
    flushed,    \* bytes handed to the socket: two histories
    out,        \* conn->out
    chan,       \* chan[e]: records on their way to e
    left,       \* bytes in conn->in, decrypted and not yet delivered
    delivered,  \* bytes that calls of s2n_recv have returned
    w, r,       \* the traffic keys in force: generation and sequence number
    tickets_sent,
    tainted,    \* conn->handshake.io still holds a ticket that was read from it
    reader_alert_out, writer_alert_out, close_notify_queued,
    closing, closed, close_notify_received,
    failed      \* a call returned an error that is not retryable

sendVars  == <<total, sent, consumed, acked, written, flushed>>
recvVars  == <<left, delivered, r, close_notify_received>>
alertVars == <<reader_alert_out, writer_alert_out, close_notify_queued>>
vars == <<at, sendVars, out, chan, recvVars, w, tickets_sent, tainted, alertVars, closing, closed,
          failed>>

----------------------------------------------------------------------------
(***************************************************************************)
(* Where a thread is: idle; in s2n_flush, called by `caller` (WRITE is its *)
(* loop, DRAINED the code after it); at the head of the loop of            *)
(* s2n_sendv_with_offset_impl; after its key update; or waiting for the    *)
(* close_notify in s2n_shutdown.                                           *)
(***************************************************************************)
Caller == {"SEND", "KEY_UPDATE", "TICKET", "DATA", "RECV", "SHUTDOWN"}

Idle          == [caller |-> "NONE", phase |-> "IDLE"]
Flush(caller) == [caller |-> caller, phase |-> "WRITE"]
Loop          == [caller |-> "NONE", phase |-> "LOOP"]
Tickets       == [caller |-> "NONE", phase |-> "TICKETS"]
Await         == [caller |-> "NONE", phase |-> "AWAIT"]

Pc == {Idle, Loop, Tickets, Await}
      \cup [caller: Caller, phase: {"WRITE", "DRAINED"}]

Goto(e, t, pc) == at' = [at EXCEPT ![e][t] = pc]

\* The locals of s2n_send end with it.
Return(e, t) ==
    /\ Goto(e, t, Idle)
    /\ IF t = "SENDER" THEN /\ total' = [total EXCEPT ![e] = 0]
                            /\ sent' = [sent EXCEPT ![e] = 0]
                       ELSE UNCHANGED <<total, sent>>

\* A call may start: the thread is free, and the other one too unless threads
\* are used.  The application gives up after an error.
CanStart(e, t) ==
    /\ at[e][t] = Idle
    /\ Duplex \/ \A u \in Thread : at[e][u] = Idle
    /\ ~failed[e]

----------------------------------------------------------------------------
(***************************************************************************)
(* Records.                                                                *)
(***************************************************************************)
RecordType == {"DATA", "CLOSE_NOTIFY", "FATAL", "KEY_UPDATE", "TICKET"}

Key == [gen: Nat, seq: Nat]
Record == [type: RecordType, from: Nat, len: Nat, key: Key]

NextSeq(key) == [key EXCEPT !.seq = @ + 1]
NextGen(key) == [gen |-> key.gen + 1, seq |-> 0]

Sealed(e, type, from, len) == [type |-> type, from |-> from, len |-> len, key |-> w[e]]

\* s2n_record_write of a record without application data, into an empty conn->out.
s2n_record_write(e, type) ==
    /\ out' = [out EXCEPT ![e] = <<Sealed(e, type, 0, 0)>>]
    /\ w' = [w EXCEPT ![e] = NextSeq(@)]

----------------------------------------------------------------------------
(***************************************************************************)
(* s2n_flush, called by any of the calls.                                  *)
(***************************************************************************)
InFlush(e, t, phase) == at[e][t].caller \in Caller /\ at[e][t].phase = phase

\* The socket takes what is in conn->out.
FlushWrite(e, t) ==
    /\ InFlush(e, t, "WRITE")
    /\ out[e] # << >>
    /\ Len(chan[Peer(e)]) < Capacity
    /\ chan' = [chan EXCEPT ![Peer(e)] = Append(@, out[e][1])]
    /\ out' = [out EXCEPT ![e] = << >>]
    /\ flushed' = [flushed EXCEPT ![e] = @ + out[e][1].len]
    /\ UNCHANGED <<at, total, sent, consumed, acked, written, recvVars, w,
                   tickets_sent, tainted, alertVars, closing, closed, failed>>

\* S2N_ERR_IO_BLOCKED: the call returns.  A send that got some bytes through
\* before reports them.  One in s2n_tls13_server_nst_send leaves before its wipe of
\* handshake.io, a stuffer that is tainted since the ticket was read from it.
FlushBlocked(e, t) ==
    /\ InFlush(e, t, "WRITE")
    /\ out[e] # << >>
    /\ Return(e, t)
    /\ LET progress == IF at[e][t].caller = "DATA" THEN sent[e] ELSE 0
       IN  /\ consumed' = [consumed EXCEPT ![e] = @ - progress]
           /\ acked' = [acked EXCEPT ![e] = @ + progress]
    /\ tainted' = [tainted EXCEPT ![e] = @ \/ at[e][t].caller = "TICKET"]
    /\ UNCHANGED <<written, flushed, out, chan, recvVars, w, tickets_sent, alertVars,
                   closing, closed, failed>>

FlushDrained(e, t) ==
    /\ InFlush(e, t, "WRITE")
    /\ out[e] = << >>
    /\ at' = [at EXCEPT ![e][t].phase = "DRAINED"]
    /\ UNCHANGED <<sendVars, out, chan, recvVars, w, tickets_sent, tainted,
                   alertVars, closing, closed, failed>>

\* conn->out is rewritten and a pending alert put in it, the reader's first.
FlushAlert(e, t) ==
    /\ InFlush(e, t, "DRAINED")
    /\ closed' = [closed EXCEPT ![e] = @ \/ closing[e]]
    /\ \/ /\ reader_alert_out[e]
          /\ s2n_record_write(e, "FATAL")
          /\ reader_alert_out' = [reader_alert_out EXCEPT ![e] = FALSE]
          /\ UNCHANGED writer_alert_out
       \/ /\ ~reader_alert_out[e]
          /\ writer_alert_out[e]
          /\ s2n_record_write(e, "CLOSE_NOTIFY")
          /\ writer_alert_out' = [writer_alert_out EXCEPT ![e] = FALSE]
          /\ UNCHANGED reader_alert_out
    /\ closing' = [closing EXCEPT ![e] = TRUE]
    /\ at' = [at EXCEPT ![e][t].phase = "WRITE"]
    /\ UNCHANGED <<sendVars, chan, recvVars, tickets_sent, tainted,
                   close_notify_queued, failed>>

\* Where the call goes on when its flush succeeds.
AfterFlush(e, t) ==
    CASE at[e][t].caller = "SEND" -> IF consumed[e] > total[e] THEN Idle ELSE Loop
      [] at[e][t].caller \in {"KEY_UPDATE", "TICKET"} -> Tickets
      [] at[e][t].caller = "DATA" -> Loop
      [] at[e][t].caller = "RECV" -> Idle
      [] at[e][t].caller = "SHUTDOWN" -> IF close_notify_received[e] THEN Idle ELSE Await

\* What was consumed before is now acknowledged (SEND, DATA); a shutdown drops
\* the plaintext nobody asked for.
FlushReturn(e, t) ==
    /\ InFlush(e, t, "DRAINED")
    /\ ~reader_alert_out[e] /\ ~writer_alert_out[e]
    /\ closed' = [closed EXCEPT ![e] = @ \/ closing[e]]
    /\ out' = [out EXCEPT ![e] = << >>]
    /\ Goto(e, t, AfterFlush(e, t))
    /\ sent' = [sent EXCEPT ![e] = IF at[e][t].caller \in {"SEND", "DATA"}
                                   THEN consumed[e] ELSE @]
    /\ left' = [left EXCEPT ![e] = IF at[e][t].caller = "SHUTDOWN" THEN 0 ELSE @]
    /\ UNCHANGED <<total, consumed, acked, written, flushed, chan, delivered, r,
                   close_notify_received, w, tickets_sent, tainted, alertVars,
                   closing, failed>>

----------------------------------------------------------------------------
(***************************************************************************)
(* s2n_send with n bytes from the first one not reported as sent.          *)
(***************************************************************************)
s2n_send(e, n) ==
    /\ CanStart(e, "SENDER")
    /\ ~closed[e]
    /\ total' = [total EXCEPT ![e] = n]
    /\ Goto(e, "SENDER", Flush("SEND"))
    /\ UNCHANGED <<sent, consumed, acked, written, flushed, out, chan, recvVars, w,
                   tickets_sent, tainted, alertVars, closing, closed, failed>>

\* Mutant: current_user_data_consumed is not reset.
SendReturn_NoReset(e) ==
    /\ at[e]["SENDER"] = Loop
    /\ consumed[e] = total[e]
    /\ acked' = [acked EXCEPT ![e] = @ + total[e]]
    /\ Return(e, "SENDER")
    /\ UNCHANGED <<consumed, written, flushed, out, chan, recvVars, w, tickets_sent, tainted, alertVars,
                   closing, closed, failed>>

\* Everything is written and flushed.
SendReturn(e) ==
    /\ at[e]["SENDER"] = Loop
    /\ consumed[e] = total[e]
    /\ acked' = [acked EXCEPT ![e] = @ + total[e]]
    /\ consumed' = [consumed EXCEPT ![e] = 0]
    /\ Return(e, "SENDER")
    /\ UNCHANGED <<written, flushed, out, chan, recvVars, w, tickets_sent, tainted, alertVars,
                   closing, closed, failed>>

s2n_check_record_limit(e) == w[e].seq + 1 > encryption_limit

\* Mutant: the key is updated before the message is encrypted.
KeyUpdateSend_NewKeyFirst(e) ==
    /\ at[e]["SENDER"] = Loop
    /\ consumed[e] < total[e]
    /\ IF s2n_check_record_limit(e)
       THEN /\ out' = [out EXCEPT ![e] =
                         <<[Sealed(e, "KEY_UPDATE", 0, 0) EXCEPT !.key = NextGen(@)]>>]
            /\ w' = [w EXCEPT ![e] = NextSeq(NextGen(@))]
            /\ Goto(e, "SENDER", Flush("KEY_UPDATE"))
       ELSE /\ out' = [out EXCEPT ![e] = << >>]
            /\ Goto(e, "SENDER", Tickets)
            /\ UNCHANGED w
    /\ UNCHANGED <<sendVars, chan, recvVars, tickets_sent, tainted, alertVars, closing, closed, failed>>

\* s2n_key_update_send: the message goes out under the old key, what follows
\* under the new one.
s2n_key_update_send(e) ==
    /\ at[e]["SENDER"] = Loop
    /\ consumed[e] < total[e]
    /\ IF s2n_check_record_limit(e)
       THEN /\ out' = [out EXCEPT ![e] = <<Sealed(e, "KEY_UPDATE", 0, 0)>>]
            /\ w' = [w EXCEPT ![e] = NextGen(@)]
            /\ Goto(e, "SENDER", Flush("KEY_UPDATE"))
       ELSE /\ out' = [out EXCEPT ![e] = << >>]
            /\ Goto(e, "SENDER", Tickets)
            /\ UNCHANGED w
    /\ UNCHANGED <<sendVars, chan, recvVars, tickets_sent, tainted, alertVars, closing, closed, failed>>

TicketsLeft(e) == e = "S" /\ tickets_sent[e] < tickets_to_send

\* Without a usable ticket key there is no ticket, and no error.
s2n_tls13_server_nst_send(e) ==
    /\ at[e]["SENDER"] = Tickets
    /\ out[e] = << >>
    /\ ~tainted[e]
    /\ TicketsLeft(e)
    /\ s2n_record_write(e, "TICKET")
    /\ tickets_sent' = [tickets_sent EXCEPT ![e] = @ + 1]
    /\ Goto(e, "SENDER", Flush("TICKET"))
    /\ UNCHANGED <<sendVars, chan, recvVars, tainted, alertVars, closing, closed,
                   failed>>

\* A tainted stuffer cannot be resized, neither for a further ticket nor to
\* nothing after the last: S2N_ERR_RESIZE_TAINTED_STUFFER, in this s2n_send and in
\* every later one.  s2n_recv and s2n_shutdown go on.
NstFails(e) ==
    /\ at[e]["SENDER"] = Tickets
    /\ tainted[e]
    /\ Return(e, "SENDER")
    /\ UNCHANGED <<consumed, acked, written, flushed, out, chan, recvVars, w, tickets_sent, tainted,
                   alertVars, closing, closed, failed>>

\* For the mutants: one record of data, read `from` the stream, the bytes of
\* which count as sent at once when `counted`.
WriteOne(e, from, counted) ==
    /\ at[e]["SENDER"] = Tickets
    /\ out[e] = << >> /\ ~tainted[e]
    /\ \E limit \in PayloadSizes :
          LET rest == total[e] - consumed[e]
              to_write == IF rest < limit THEN rest ELSE limit
          IN  /\ out' = [out EXCEPT ![e] = <<Sealed(e, "DATA", from, to_write)>>]
              /\ consumed' = [consumed EXCEPT ![e] = @ + to_write]
              /\ written' = [written EXCEPT ![e] = @ + to_write]
              /\ sent' = [sent EXCEPT ![e] = IF counted THEN consumed[e] + to_write ELSE @]
    /\ w' = [w EXCEPT ![e] = NextSeq(@)]
    /\ Goto(e, "SENDER", Flush("DATA"))
    /\ UNCHANGED <<total, acked, flushed, chan, recvVars,
                   tickets_sent, tainted, alertVars, closing, closed, failed>>

\* Mutants: the bytes count as sent before the flush; the offset is forgotten.
WriteData_SentTooSoon(e) == WriteOne(e, acked[e] + consumed[e], TRUE)

WriteData_NoOffset(e) == WriteOne(e, acked[e], FALSE)

\* The next piece of the data, at the offset of what was consumed.  A record
\* left in conn->out would be S2N_ERR_RECORD_STUFFER_NEEDS_DRAINING; there is
\* none, or the call would be stuck here.
WriteData(e) ==
    /\ at[e]["SENDER"] = Tickets
    /\ out[e] = << >> /\ ~tainted[e]
    /\ \E limit \in PayloadSizes :
          LET rest == total[e] - consumed[e]
              to_write == IF rest < limit THEN rest ELSE limit
          IN  /\ out' = [out EXCEPT ![e] =
                            <<Sealed(e, "DATA", acked[e] + consumed[e], to_write)>>]
              /\ consumed' = [consumed EXCEPT ![e] = @ + to_write]
              /\ written' = [written EXCEPT ![e] = @ + to_write]
    /\ w' = [w EXCEPT ![e] = NextSeq(@)]
    /\ Goto(e, "SENDER", Flush("DATA"))
    /\ UNCHANGED <<total, sent, acked, flushed, chan, recvVars,
                   tickets_sent, tainted, alertVars, closing, closed, failed>>

----------------------------------------------------------------------------
(***************************************************************************)
(* s2n_recv, into a buffer of any size: first what is left of a record,    *)
(* then the next record; a short buffer leaves the rest.                   *)
(***************************************************************************)
RecvLeft(e) ==
    /\ CanStart(e, "RECEIVER")
    /\ ~closed[e]
    /\ \E n \in 1 .. left[e] :
          /\ left' = [left EXCEPT ![e] = @ - n]
          /\ delivered' = [delivered EXCEPT ![e] = @ + n]
    /\ UNCHANGED <<at, sendVars, out, chan, r, close_notify_received, w,
                   tickets_sent, tainted, alertVars, closing, closed, failed>>

Reading(e) == CanStart(e, "RECEIVER") /\ ~closed[e] /\ left[e] = 0 /\ chan[e] # << >>

TakeRecord(e) == chan' = [chan EXCEPT ![e] = Tail(@)]

\* s2n_record_parse succeeds: the record was sealed with the key in force.
Opened(e) == Head(chan[e]).key = r[e]

RecvData(e) ==
    /\ Reading(e)
    /\ Head(chan[e]).type = "DATA" /\ Opened(e)
    /\ TakeRecord(e)
    /\ \E n \in 1 .. Head(chan[e]).len :
          /\ left' = [left EXCEPT ![e] = Head(chan[e]).len - n]
          /\ delivered' = [delivered EXCEPT ![e] = @ + n]
    /\ r' = [r EXCEPT ![e] = NextSeq(@)]
    /\ UNCHANGED <<at, sendVars, out, close_notify_received, w,
                   tickets_sent, tainted, alertVars, closing, closed, failed>>

\* Mutant: nothing remembers the close_notify.
RecvAlert_Forgets(e) ==
    /\ Reading(e)
    /\ Head(chan[e]).type \in {"CLOSE_NOTIFY", "FATAL"} /\ Opened(e)
    /\ TakeRecord(e)
    /\ r' = [r EXCEPT ![e] = NextSeq(@)]
    /\ closed' = [closed EXCEPT ![e] = TRUE]
    /\ IF Head(chan[e]).type = "CLOSE_NOTIFY"
       THEN Goto(e, "RECEIVER", Flush("RECV")) /\ UNCHANGED failed
       ELSE failed' = [failed EXCEPT ![e] = TRUE] /\ UNCHANGED at
    /\ UNCHANGED <<close_notify_received, sendVars, out, left, delivered, w, tickets_sent, tainted,
                   alertVars, closing>>

\* s2n_process_alert_fragment; a close_notify is followed by a flush.  A record
\* that does not open kills the connection like a fatal alert.
RecvAlert(e) ==
    /\ Reading(e)
    /\ Opened(e) => Head(chan[e]).type \in {"CLOSE_NOTIFY", "FATAL"}
    /\ TakeRecord(e)
    /\ r' = [r EXCEPT ![e] = IF Opened(e) THEN NextSeq(@) ELSE @]
    /\ closed' = [closed EXCEPT ![e] = TRUE]
    /\ IF Opened(e) /\ Head(chan[e]).type = "CLOSE_NOTIFY"
       THEN /\ close_notify_received' = [close_notify_received EXCEPT ![e] = TRUE]
            /\ Goto(e, "RECEIVER", Flush("RECV"))
            /\ UNCHANGED failed
       ELSE /\ failed' = [failed EXCEPT ![e] = TRUE]
            /\ UNCHANGED <<at, close_notify_received>>
    /\ UNCHANGED <<sendVars, out, left, delivered, w, tickets_sent, tainted,
                   alertVars, closing>>

\* s2n_post_handshake_recv.  A KeyUpdate of s2n never requests another one, so
\* key_update_pending is only ever set by the record limit.
RecvPostHandshake(e) ==
    /\ Reading(e)
    /\ Head(chan[e]).type \in {"KEY_UPDATE", "TICKET"} /\ Opened(e)
    /\ TakeRecord(e)
    /\ r' = [r EXCEPT ![e] = IF Head(chan[e]).type = "KEY_UPDATE"
                             THEN NextGen(@) ELSE NextSeq(@)]
    /\ UNCHANGED <<at, sendVars, out, left, delivered, close_notify_received, w, tickets_sent, tainted,
                   alertVars, closing, closed, failed>>

----------------------------------------------------------------------------
(***************************************************************************)
(* s2n_shutdown: queue a close_notify once, flush, and wait for the peer's.*)
(***************************************************************************)
s2n_shutdown(e) ==
    /\ \A t \in Thread : CanStart(e, t)
    /\ IF close_notify_queued[e] \/ writer_alert_out[e]
       THEN UNCHANGED <<writer_alert_out, close_notify_queued>>
       ELSE /\ writer_alert_out' = [writer_alert_out EXCEPT ![e] = TRUE]
            /\ close_notify_queued' = [close_notify_queued EXCEPT ![e] = TRUE]
    /\ Goto(e, "SENDER", Flush("SHUTDOWN"))
    /\ UNCHANGED <<sendVars, out, chan, recvVars, w, tickets_sent, tainted,
                   reader_alert_out, closing, closed, failed>>

\* s2n_recv_close_notify: anything but a close_notify is an error.
AwaitRecord(e) ==
    /\ at[e]["SENDER"] = Await
    /\ chan[e] # << >>
    /\ TakeRecord(e)
    /\ Goto(e, "SENDER", Idle)
    /\ LET done == Opened(e) /\ Head(chan[e]).type = "CLOSE_NOTIFY"
       IN  /\ r' = [r EXCEPT ![e] = IF Opened(e) THEN NextSeq(@) ELSE @]
           /\ close_notify_received' = [close_notify_received EXCEPT ![e] = @ \/ done]
           /\ closed' = [closed EXCEPT ![e] = @ \/ done \/ ~Opened(e)
                                              \/ Head(chan[e]).type = "FATAL"]
           /\ failed' = [failed EXCEPT ![e] = @ \/ ~done]
    /\ UNCHANGED <<sendVars, out, left, delivered, w, tickets_sent, tainted,
                   alertVars, closing>>

\* Nothing to read: the call is blocked, and will be retried.
AwaitBlocked(e) ==
    /\ at[e]["SENDER"] = Await
    /\ chan[e] = << >>
    /\ Goto(e, "SENDER", Idle)
    /\ UNCHANGED <<sendVars, out, chan, recvVars, w, tickets_sent, tainted,
                   alertVars, closing, closed, failed>>

----------------------------------------------------------------------------
Zero == [e \in Mode |-> 0]
No == [e \in Mode |-> FALSE]

\* A connection whose handshake failed may start with a reader's alert queued.
Init ==
    /\ at = [e \in Mode |-> [t \in Thread |-> Idle]]
    /\ total = Zero /\ sent = Zero /\ consumed = Zero
    /\ acked = Zero /\ written = Zero /\ flushed = Zero
    /\ out = [e \in Mode |-> << >>] /\ chan = [e \in Mode |-> << >>]
    /\ left = Zero /\ delivered = Zero
    /\ w = [e \in Mode |-> [gen |-> 0, seq |-> 0]] /\ r = w
    /\ tickets_sent = Zero /\ tainted = No
    /\ reader_alert_out \in [Mode -> BOOLEAN]
    /\ closed = reader_alert_out
    /\ writer_alert_out = No /\ close_notify_queued = No
    /\ closing = No /\ close_notify_received = No /\ failed = No

s2n_flush(e, t) ==
    \/ FlushWrite(e, t) \/ FlushBlocked(e, t) \/ FlushDrained(e, t)
    \/ FlushAlert(e, t) \/ FlushReturn(e, t)

SendStep(e) ==
    \/ SendReturn(e) \/ s2n_key_update_send(e) \/ s2n_tls13_server_nst_send(e)
    \/ NstFails(e) \/ WriteData(e)

s2n_recv(e) ==
    \/ RecvLeft(e) \/ RecvData(e) \/ RecvAlert(e) \/ RecvPostHandshake(e)

Step(e) ==
    \/ \E t \in Thread : s2n_flush(e, t)
    \/ \E n \in 0 .. StreamLen[e] - acked[e] : s2n_send(e, n)
    \/ SendStep(e)
    \/ s2n_recv(e)
    \/ s2n_shutdown(e) \/ AwaitRecord(e) \/ AwaitBlocked(e)

\* Between calls nothing has to happen; inside one, something can.
Rest == (\A e \in Mode, t \in Thread : at[e][t] = Idle) /\ UNCHANGED vars

Next == (\E e \in Mode : Step(e)) \/ Rest

Spec == Init /\ [][Next]_vars

(***************************************************************************)
(* Both applications poll: they keep calling s2n_recv and s2n_send, with   *)
(* everything they have left, and s2n_shutdown once they have started it;  *)
(* the socket takes a record every so often while it has room.  A call     *)
(* runs to its end.                                                        *)
(***************************************************************************)
SendAll(e) == acked[e] < StreamLen[e] /\ s2n_send(e, StreamLen[e] - acked[e])

RetryShutdown(e) == close_notify_queued[e] /\ s2n_shutdown(e)

SocketTakes(e) == \E t \in Thread : FlushWrite(e, t)

CallGoesOn(e) ==
    \/ \E t \in Thread : FlushDrained(e, t) \/ FlushAlert(e, t) \/ FlushReturn(e, t)
    \/ SendStep(e)
    \/ AwaitRecord(e)

Fairness ==
    \A e \in Mode :
        /\ WF_vars(CallGoesOn(e))
        /\ SF_vars(SocketTakes(e))
        /\ SF_vars(s2n_recv(e))
        /\ SF_vars(SendAll(e))
        /\ SF_vars(RetryShutdown(e))

FairSpec == Spec /\ Fairness

----------------------------------------------------------------------------
(***************************************************************************)
(* Properties.                                                             *)
(***************************************************************************)

CountersOK ==
    /\ total \in [Mode -> Nat] /\ sent \in [Mode -> Nat] /\ consumed \in [Mode -> Nat]
    /\ acked \in [Mode -> Nat] /\ written \in [Mode -> Nat] /\ flushed \in [Mode -> Nat]
    /\ left \in [Mode -> Nat] /\ delivered \in [Mode -> Nat]
    /\ tickets_sent \in [Mode -> 0 .. tickets_to_send]

BuffersOK ==
    /\ out \in [Mode -> Seq(Record)] /\ chan \in [Mode -> Seq(Record)]
    /\ w \in [Mode -> Key] /\ r \in [Mode -> Key]

FlagsOK ==
    /\ reader_alert_out \in [Mode -> BOOLEAN] /\ writer_alert_out \in [Mode -> BOOLEAN]
    /\ close_notify_queued \in [Mode -> BOOLEAN] /\ closing \in [Mode -> BOOLEAN]
    /\ closed \in [Mode -> BOOLEAN] /\ close_notify_received \in [Mode -> BOOLEAN]
    /\ failed \in [Mode -> BOOLEAN] /\ tainted \in [Mode -> BOOLEAN]

\* The type invariant.
TypeOK == at \in [Mode -> [Thread -> Pc]] /\ CountersOK /\ BuffersOK /\ FlagsOK

(***************************************************************************)
(* The bytes put in records are exactly those reported as sent and those   *)
(* in current_user_data_consumed, however calls were cut short: the record *)
(* to come starts where the last one ended.                                *)
(***************************************************************************)
NothingSkippedOrRepeated == \A e \in Mode : acked[e] + consumed[e] = written[e]

(***************************************************************************)
(* s2n_send reports bytes as sent only once the socket has them.           *)
(***************************************************************************)
ReportedIsOnTheWire == \A e \in Mode : acked[e] <= flushed[e]

\* The records on their way from e, the oldest first; conn->out holds at most one.
Queue(e) ==
    IF out[e] = << >> THEN chan[Peer(e)] ELSE Append(chan[Peer(e)], out[e][1])

\* The application data in the records q is the stream from start to end.
Contiguous(q, start, end) ==
    LET data == {i \in 1 .. Len(q) : q[i].type = "DATA"}
        Ends(i) == q[i].from + q[i].len
    IN  /\ data = {} => start = end
        /\ \A i \in data : (\A j \in data : i <= j) => q[i].from = start
        /\ \A i \in data : (\A j \in data : j <= i) => Ends(i) = end
        /\ \A i, k \in data :
              i < k /\ (\A j \in data : j <= i \/ k <= j) => q[k].from = Ends(i)

(***************************************************************************)
(* What the peer's s2n_recv has returned is a prefix of the stream, and    *)
(* the rest of what was written is on its way, in order and without a gap. *)
(***************************************************************************)
StreamIntact ==
    \A e \in Mode :
        ~closed[Peer(e)] =>
            Contiguous(Queue(e), delivered[Peer(e)] + left[Peer(e)], written[e])

\* encryption_limit is overrun by no more than the tickets and the one alert
\* that may follow data: s2n_check_record_limit looks only before a data
\* record, and a KeyUpdate goes out instead of the record over the limit.
SequenceBounded ==
    \A e \in Mode :
        w[e].seq <= encryption_limit + (IF e = "S" THEN tickets_to_send ELSE 0) + 1

(***************************************************************************)
(* No record meets a reader whose key has not reached its own, through key *)
(* updates, tickets and alerts, blocked and retried; and no key seals many *)
(* more records than its limit.                                            *)
(***************************************************************************)
KeysInSync ==
    /\ \A e \in Mode : chan[e] # << >> /\ ~failed[e] => Head(chan[e]).key = r[e]
    /\ SequenceBounded

(***************************************************************************)
(* As long as nobody closes, every byte is sent, received and reported, in *)
(* whatever pieces the socket takes them.                                  *)
(***************************************************************************)
EverythingArrives ==
    <>(\/ \E e \in Mode : closed[e] \/ close_notify_queued[e]
       \/ \A e \in Mode : acked[e] = StreamLen[e] /\ delivered[Peer(e)] = StreamLen[e])

(***************************************************************************)
(* Two shutdowns that meet both end, in success or because one of them     *)
(* fails, unless a socket stays full for ever because its reader, in       *)
(* s2n_shutdown too, writes before it reads or has read all it wanted.     *)
(***************************************************************************)
Stuck(e) == out[e] # << >> /\ Len(chan[Peer(e)]) = Capacity

ShutdownsMeet ==
    <>(\A e \in Mode : close_notify_queued[e])
        => \/ <>(\E e \in Mode : failed[e])
           \/ <>(\A e \in Mode : close_notify_received[e])
           \/ <>[](\E e \in Mode : Stuck(e))

=============================================================================
