------------------------------ MODULE Receive ------------------------------
(***************************************************************************)
(* What a connection past its handshake does with the records of a         *)
(* conforming peer: application data, alerts whole, halved or several in a *)
(* record, KeyUpdate, NewSessionTicket and HelloRequest, whole or cut in   *)
(* two, a client that renegotiates, and the end of the stream.  A message  *)
(* cut in two and a renegotiation are refused.  The interplay of s2n_recv, *)
(* s2n_send and s2n_shutdown is at the granularity of one record read: the *)
(* socket may be empty before any record, so a call may return there.      *)
(*                                                                         *)
(* conn->in does not say what type of record it holds.  What is left in it *)
(* when a call returns is taken for application data by the next.          *)
(***************************************************************************)
EXTENDS Integers, Sequences, FiniteSets, SequencesExt

CONSTANTS
    MaxRecords,     \* records that the peer sends, and
    MaxSent,        \* that the application sends
    CoalesceAlerts  \* a TLS 1.2 peer may put two alerts in a record

ASSUME ReceiveAssumption == MaxRecords \in Nat /\ MaxSent \in Nat /\ CoalesceAlerts \in BOOLEAN

VARIABLES
    setup,          \* mode, protocol version and alert_behavior: constant
    wire,           \* records on their way to the connection
    peer,           \* the peer: records sent, data sent, key epoch, what it owes
    in, in_status, alert_in,    \* conn->in, its status, conn->alert_in
    delivered,      \* what calls of s2n_recv have returned
    recv_epoch, send_epoch,     \* generations of the traffic keys
    key_update_pending,
    cached,         \* the session is in the server's cache
    out,            \* conn->out, and
    sent,           \* the records the socket took, a history
    writer_alert_out, close_notify_queued, closing, closed, close_notify_received,
    error,          \* the error of the last call that failed for good
    dropped,        \* s2n_shutdown threw a record away, a history
    shut            \* s2n_shutdown has returned success, a history

inVars    == <<in, in_status, alert_in, delivered, recv_epoch, key_update_pending, cached,
               close_notify_received>>
outVars   == <<out, sent, send_epoch, writer_alert_out, close_notify_queued, closing>>
vars      == <<setup, wire, peer, inVars, outVars, closed, error, dropped, shut>>

----------------------------------------------------------------------------
(***************************************************************************)
(* Records.  A record's body is a sequence of units: a piece of data, a    *)
(* byte of an alert, a post-handshake message or a part of one.            *)
(***************************************************************************)
Unit(what, n)  == [what |-> what, n |-> n]
FirstPart      == Unit("PART", 0)
LastPart(m)    == Unit(m.what, 2)
AlertOf(what)  == <<Unit(what, 1), Unit(what, 2)>>
Alerts         == {"CLOSE_NOTIFY", "USER_CANCELED", "OTHER_WARNING", "FATAL"}
ClosingAlerts  == {"CLOSE_NOTIFY", "FATAL"}

RecordOf(type, body) == [type |-> type, epoch |-> peer.epoch, body |-> body]
Tls13 == setup.version = "TLS13"

(***************************************************************************)
(* The peer.  It splits an alert over two records, or puts two in one,     *)
(* only in TLS 1.2; a KeyUpdate is the last message of its record, and     *)
(* nothing comes between the parts of a message; nothing follows an alert  *)
(* that closes.  It may disappear at any time.                             *)
(***************************************************************************)
PeerMay == ~peer.over /\ peer.records < MaxRecords
PeerMayBegin == PeerMay /\ peer.half = << >> /\ peer.rest = << >>

PeerSends(type, body, after) ==
    /\ wire' = Append(wire, RecordOf(type, body))
    /\ peer' = [after EXCEPT !.records = @ + 1]
    /\ UNCHANGED <<setup, inVars, outVars, closed, error, dropped, shut>>

PeerData ==
    /\ PeerMayBegin
    /\ PeerSends("APPLICATION_DATA", <<Unit("DATA", peer.data + 1), Unit("DATA", peer.data + 2)>>,
                 [peer EXCEPT !.data = @ + 2])

AlertBodies(a) ==
    {AlertOf(a)} \cup IF CoalesceAlerts /\ ~Tls13 THEN {AlertOf("OTHER_WARNING") \o AlertOf(a)} ELSE {}

PeerAlert ==
    /\ PeerMayBegin
    /\ \E a \in Alerts :
          \/ \E body \in AlertBodies(a) :
                PeerSends("ALERT", body, [peer EXCEPT !.over = a \in ClosingAlerts])
          \/ /\ ~Tls13
             /\ PeerSends("ALERT", <<Head(AlertOf(a))>>, [peer EXCEPT !.half = <<a>>])

PeerSecondHalf ==
    /\ PeerMay /\ peer.half # << >>
    /\ PeerSends("ALERT", Tail(AlertOf(peer.half[1])),
                 [peer EXCEPT !.half = << >>, !.over = peer.half[1] \in ClosingAlerts])

PeerMessages ==
    IF Tls13 THEN {<<Unit("KEY_UPDATE", r)>> : r \in {0, 1}}
                  \cup (IF setup.mode = "CLIENT"
                        THEN {<<Unit("TICKET", 0), Unit("TICKET", 0)>>,
                              <<Unit("TICKET", 0), Unit("KEY_UPDATE", 1)>>} ELSE {})
             ELSE IF setup.mode = "CLIENT" THEN {<<Unit("HELLO_REQUEST", 0)>>}
                                           ELSE {<<Unit("CLIENT_HELLO", 0)>>}

NextEpoch(body) == IF Last(body).what = "KEY_UPDATE" THEN peer.epoch + 1 ELSE peer.epoch

PeerHandshake ==
    /\ PeerMayBegin
    /\ \E body \in PeerMessages :
          PeerSends("HANDSHAKE", body,
                    [peer EXCEPT !.epoch = NextEpoch(body),
                                 !.refusable = @ \/ Last(body).what = "CLIENT_HELLO"])

\* The last message of the record goes on in the next.
PeerCutsMessage ==
    /\ PeerMayBegin
    /\ \E body \in PeerMessages :
          PeerSends("HANDSHAKE", Append(Front(body), FirstPart),
                    [peer EXCEPT !.rest = <<LastPart(Last(body))>>, !.refusable = TRUE])

PeerLastPart ==
    /\ PeerMay /\ peer.rest # << >>
    /\ PeerSends("HANDSHAKE", peer.rest,
                 [peer EXCEPT !.rest = << >>, !.epoch = NextEpoch(peer.rest)])

\* A record is damaged on its way: no key opens it.
RecordDamaged ==
    /\ wire # << >> /\ ~peer.damaged
    /\ wire' = [wire EXCEPT ![Len(wire)].epoch = -1]
    /\ peer' = [peer EXCEPT !.damaged = TRUE, !.over = TRUE]
    /\ UNCHANGED <<setup, inVars, outVars, closed, error, dropped, shut>>

PeerDisappears ==
    /\ ~peer.gone
    /\ peer' = [peer EXCEPT !.over = TRUE, !.gone = TRUE]
    /\ UNCHANGED <<setup, wire, inVars, outVars, closed, error, dropped, shut>>

----------------------------------------------------------------------------
(***************************************************************************)
(* s2n_flush, as what a call does to the connection.  The socket takes     *)
(* conn->out and the alert queued behind it, or blocks at one of the two.  *)
(***************************************************************************)
Written(what) == <<[what |-> what, epoch |-> send_epoch]>>

FlushAll(queued) ==
    LET alert == IF queued THEN Written("CLOSE_NOTIFY") ELSE << >>
    IN  /\ sent' = sent \o out \o alert
        /\ out' = << >>
        /\ writer_alert_out' = FALSE
        /\ closing' = (closing \/ queued)

FlushBlocks(queued) ==
    \/ /\ out # << >>
       /\ writer_alert_out' = queued
       /\ UNCHANGED <<out, sent, closing>>
    \/ /\ queued
       /\ sent' = sent \o out
       /\ out' = Written("CLOSE_NOTIFY")
       /\ writer_alert_out' = FALSE
       /\ closing' = TRUE

\* conn->closed is set when the loop finds conn->out written and conn->closing.
ClosedByFlush(all) == closed \/ (IF all THEN closing' ELSE closing /\ out' # out)

----------------------------------------------------------------------------
(***************************************************************************)
(* s2n_read_full_record.                                                   *)
(***************************************************************************)
s2n_read_full_record ==
    IF in_status = "PLAINTEXT"
    THEN [type |-> "APPLICATION_DATA", body |-> in, decrypts |-> TRUE, rest |-> wire]
    ELSE [type |-> wire[1].type, body |-> wire[1].body,
          decrypts |-> wire[1].epoch = recv_epoch, rest |-> Tail(wire)]

CanRead == in_status = "PLAINTEXT" \/ wire # << >>

Wipe == in' = << >> /\ in_status' = "ENCRYPTED"

s2n_handle_as_warning(a) ==
    IF Tls13 THEN a = "USER_CANCELED"
             ELSE /\ a \in {"USER_CANCELED", "OTHER_WARNING"}
                  /\ setup.alert_behavior = "IGNORE_WARNINGS"

\* Mutant: two bytes are asked for, whatever alert_in holds.
ProcessAlert_AsksForTwo(body) ==
    LET got == SubSeq(body, 1, IF Len(body) < 2 THEN Len(body) ELSE 2)
        rest == SubSeq(body, Len(got) + 1, Len(body))
        Result(r, alert) == [result |-> r, alert_in |-> alert, in |-> rest]
    IN  IF Len(got) < 2 THEN Result("OK", << >>)
        ELSE IF got[1].what = "CLOSE_NOTIFY" THEN Result("CLOSE_NOTIFY", got)
        ELSE IF s2n_handle_as_warning(got[1].what) THEN Result("OK", << >>)
        ELSE Result("ALERT", got)

(***************************************************************************)
(* s2n_process_alert_fragment of a record's body.  It returns at the first *)
(* alert that is complete, so what follows in the record stays in conn->in.*)
(***************************************************************************)
s2n_process_alert_fragment(body) ==
    LET n    == IF Len(body) < 2 - Len(alert_in) THEN Len(body) ELSE 2 - Len(alert_in)
        got  == alert_in \o SubSeq(body, 1, n)
        rest == SubSeq(body, n + 1, Len(body))
        a    == got[1].what
        Result(r, alert) == [result |-> r, alert_in |-> alert, in |-> rest]
    IN  IF Len(alert_in) = 2 THEN [result |-> "ALERT_PRESENT", alert_in |-> alert_in, in |-> body]
        ELSE IF Len(got) < 2 THEN Result("OK", got)
        ELSE IF a = "CLOSE_NOTIFY" THEN Result("CLOSE_NOTIFY", got)
        ELSE IF s2n_handle_as_warning(a) THEN Result("OK", << >>)
        ELSE Result("ALERT", got)

----------------------------------------------------------------------------
(***************************************************************************)
(* s2n_recv.                                                               *)
(***************************************************************************)
Receiving == ~closed /\ CanRead

\* Mutant: a short buffer loses the rest of the record.
RecvData_LosesTheRest ==
    LET r == s2n_read_full_record
    IN  /\ Receiving /\ r.type = "APPLICATION_DATA" /\ r.decrypts
        /\ wire' = r.rest
        /\ Wipe
        /\ \E n \in 1 .. Len(r.body) : delivered' = delivered \o SubSeq(r.body, 1, n)
        /\ UNCHANGED <<setup, peer, alert_in, recv_epoch, key_update_pending, cached,
                       close_notify_received, outVars, closed, error, dropped, shut>>

\* Data, or what is left of a record: as much as the buffer holds.
RecvData ==
    LET r == s2n_read_full_record
    IN  /\ Receiving /\ r.type = "APPLICATION_DATA" /\ r.decrypts
        /\ wire' = r.rest
        /\ IF r.body = << >> THEN Wipe /\ UNCHANGED delivered
           ELSE \E n \in 1 .. Len(r.body) :
                  /\ delivered' = delivered \o SubSeq(r.body, 1, n)
                  /\ IF n = Len(r.body) THEN Wipe
                     ELSE in' = SubSeq(r.body, n + 1, Len(r.body)) /\ in_status' = "PLAINTEXT"
        /\ UNCHANGED <<setup, peer, alert_in, recv_epoch, key_update_pending, cached,
                       close_notify_received, outVars, closed, error, dropped, shut>>

\* The error of an alert is returned at once; otherwise s2n_flush follows,
\* and only when it succeeds is the record wiped.
RecvAlert ==
    LET r == s2n_read_full_record
        p == s2n_process_alert_fragment(r.body)
    IN  /\ Receiving /\ r.type = "ALERT" /\ r.decrypts
        /\ wire' = r.rest
        /\ alert_in' = p.alert_in
        /\ close_notify_received' = (close_notify_received \/ p.result = "CLOSE_NOTIFY")
        /\ \/ /\ p.result \in {"ALERT", "ALERT_PRESENT"}
              /\ in' = p.in /\ in_status' = "PLAINTEXT"
              /\ error' = p.result
              /\ closed' = (p.result = "ALERT")
              /\ cached' = (cached /\ p.result # "ALERT")
              /\ UNCHANGED outVars
           \/ /\ p.result \in {"OK", "CLOSE_NOTIFY"}
              /\ \/ FlushAll(writer_alert_out) /\ Wipe /\ closed' = (ClosedByFlush(TRUE) \/ p.result = "CLOSE_NOTIFY")
                 \/ /\ FlushBlocks(writer_alert_out)
                    /\ in' = p.in /\ in_status' = "PLAINTEXT"
                    /\ closed' = (ClosedByFlush(FALSE) \/ p.result = "CLOSE_NOTIFY")
              /\ UNCHANGED <<send_epoch, close_notify_queued, error, cached>>
        /\ UNCHANGED <<setup, peer, delivered, recv_epoch, key_update_pending, dropped, shut>>

s2n_key_update_recv(n) == recv_epoch' = recv_epoch + 1 /\ key_update_pending' = (n = 1)

\* s2n_post_handshake_recv reads its messages from the record alone: one of which
\* the record holds a part is out of data, and a hello is a BAD_MESSAGE.
Refused(body) == Last(body).what \in {"PART", "CLIENT_HELLO"} \/ Last(body).n = 2

\* Every message of the record in turn.  A ticket concerns the client's session
\* only and a HelloRequest is ignored; the KeyUpdate comes last.
RecvPostHandshake ==
    LET r == s2n_read_full_record
    IN  /\ Receiving /\ r.type = "HANDSHAKE" /\ r.decrypts /\ ~Refused(r.body)
        /\ wire' = r.rest
        /\ IF Last(r.body).what = "KEY_UPDATE" THEN s2n_key_update_recv(Last(r.body).n)
           ELSE UNCHANGED <<recv_epoch, key_update_pending>>
        /\ Wipe
        /\ UNCHANGED <<setup, peer, alert_in, delivered, cached, close_notify_received,
                       outVars, closed, error, dropped, shut>>

\* The last message fails, those before it do not matter.  The connection is
\* killed, the record is not wiped, and the session stays in the cache.
RecvRefused ==
    LET r == s2n_read_full_record
    IN  /\ Receiving /\ r.type = "HANDSHAKE" /\ r.decrypts /\ Refused(r.body)
        /\ wire' = r.rest
        /\ in' \in {<< >>, <<Last(r.body)>>} /\ in_status' = "PLAINTEXT"
        /\ error' = "BAD_MESSAGE"
        /\ closed' = TRUE
        /\ UNCHANGED <<setup, peer, alert_in, delivered, recv_epoch, key_update_pending, cached,
                       close_notify_received, outVars, dropped, shut>>

\* A record that the key does not open: the connection is killed.  The session
\* leaves the cache when s2n_recv was reading, not when s2n_shutdown was.
Killed(forget) ==
    /\ CanRead /\ ~s2n_read_full_record.decrypts
    /\ wire' = Tail(wire)
    /\ error' = "DECRYPT"
    /\ closed' = TRUE
    /\ cached' = (cached /\ ~forget)

RecvDecryptError ==
    /\ ~closed
    /\ Killed(TRUE)
    /\ UNCHANGED <<setup, peer, in, in_status, alert_in, delivered, recv_epoch,
                   key_update_pending, close_notify_received, outVars, dropped, shut>>

RecvEndOfStream ==
    /\ ~closed /\ ~CanRead /\ peer.gone
    /\ closed' = TRUE
    /\ UNCHANGED <<setup, wire, peer, inVars, outVars, error, dropped, shut>>

s2n_recv == \/ RecvData \/ RecvAlert \/ RecvPostHandshake \/ RecvRefused
            \/ RecvDecryptError \/ RecvEndOfStream

----------------------------------------------------------------------------
(***************************************************************************)
(* s2n_send of one record: the flush of what is pending, a KeyUpdate when  *)
(* one is due, the data.  The socket takes the first k of the records.     *)
(***************************************************************************)
SendRecords ==
    LET data == [what |-> "DATA", epoch |-> send_epoch + IF key_update_pending THEN 1 ELSE 0]
    IN  (IF key_update_pending THEN Written("KEY_UPDATE") ELSE << >>) \o <<data>>

s2n_send ==
    /\ ~closed /\ ~close_notify_queued        \* nothing is sent after s2n_shutdown
    /\ Len(sent) + Len(out) < MaxSent
    /\ \E k \in 0 .. Len(SendRecords) :
          /\ sent' = sent \o out \o SubSeq(SendRecords, 1, k)
          /\ out' = IF k = Len(SendRecords) THEN << >> ELSE <<SendRecords[k + 1]>>
    /\ send_epoch' = SendRecords[Len(SendRecords)].epoch
    /\ key_update_pending' = FALSE
    /\ UNCHANGED <<writer_alert_out, close_notify_queued, closing, closed>>
    /\ UNCHANGED <<setup, wire, peer, in, in_status, alert_in, delivered, recv_epoch,
                   cached, close_notify_received, error, dropped, shut>>

----------------------------------------------------------------------------
(***************************************************************************)
(* s2n_shutdown.                                                           *)
(***************************************************************************)
QueueClose == writer_alert_out \/ ~close_notify_queued

\* Killed: S2N_ERR_SHUTDOWN_PAUSED for the delay.
Paused == error \in {"DECRYPT", "BAD_MESSAGE"}

ShutdownBlocked ==
    /\ ~Paused
    /\ FlushBlocks(QueueClose)
    /\ close_notify_queued' = TRUE
    /\ closed' = ClosedByFlush(FALSE)
    /\ UNCHANGED <<setup, wire, peer, inVars, send_epoch, error, dropped, shut>>

\* s2n_recv_close_notify.  A record that is no alert is an error, and the
\* record stays; half an alert, or a warning that is ignored, is a success.
AwaitClose ==
    LET rec == wire[1]
        p   == s2n_process_alert_fragment(rec.body)
    IN  \/ /\ wire = << >>
           /\ Wipe
           /\ UNCHANGED <<wire, alert_in, close_notify_received, cached, error, dropped, shut>>
        \/ /\ wire # << >> /\ rec.epoch # recv_epoch
           /\ wire' = Tail(wire)
           /\ Wipe
           /\ error' = "DECRYPT"
           /\ UNCHANGED <<alert_in, close_notify_received, cached, dropped, shut>>
        \/ /\ wire # << >> /\ rec.epoch = recv_epoch /\ rec.type # "ALERT"
           /\ wire' = Tail(wire)
           /\ in' = rec.body /\ in_status' = "PLAINTEXT"
           /\ dropped' = TRUE
           /\ UNCHANGED <<alert_in, close_notify_received, cached, error, shut>>
        \/ /\ wire # << >> /\ rec.epoch = recv_epoch /\ rec.type = "ALERT"
           /\ wire' = Tail(wire)
           /\ in' = p.in /\ in_status' = "PLAINTEXT"
           /\ alert_in' = p.alert_in
           /\ close_notify_received' = (p.result = "CLOSE_NOTIFY")
           /\ error' = IF p.result \in {"ALERT", "ALERT_PRESENT"} THEN p.result ELSE error
           /\ cached' = (cached /\ p.result # "ALERT")
           /\ shut' = (shut \/ p.result \in {"OK", "CLOSE_NOTIFY"})
           /\ UNCHANGED dropped

ShutdownFlushed ==
    /\ ~Paused
    /\ FlushAll(QueueClose)
    /\ close_notify_queued' = TRUE
    /\ closed' = TRUE           \* conn->closing is set
    /\ IF close_notify_received
       THEN /\ Wipe
            /\ shut' = TRUE
            /\ UNCHANGED <<wire, alert_in, close_notify_received, cached, error, dropped>>
       ELSE AwaitClose
    /\ UNCHANGED <<setup, peer, delivered, recv_epoch, key_update_pending, send_epoch>>

s2n_shutdown == ShutdownBlocked \/ ShutdownFlushed

----------------------------------------------------------------------------
Init ==
    /\ setup \in [mode: {"CLIENT", "SERVER"}, version: {"TLS12", "TLS13"},
                  alert_behavior: {"FAIL_ON_WARNINGS", "IGNORE_WARNINGS"}]
    /\ Tls13 => setup.alert_behavior = "FAIL_ON_WARNINGS"      \* it makes no difference
    /\ wire = << >>
    /\ peer = [records |-> 0, data |-> 0, epoch |-> 0, half |-> << >>, rest |-> << >>,
              refusable |-> FALSE, over |-> FALSE, gone |-> FALSE, damaged |-> FALSE]
    /\ in = << >> /\ in_status = "ENCRYPTED" /\ alert_in = << >> /\ delivered = << >>
    /\ recv_epoch = 0 /\ send_epoch = 0 /\ key_update_pending = FALSE
    /\ cached = (setup.mode = "SERVER" /\ setup.version = "TLS12")
    /\ out = << >> /\ sent = << >>
    /\ writer_alert_out = FALSE /\ close_notify_queued = FALSE
    /\ closing = FALSE /\ closed = FALSE /\ close_notify_received = FALSE
    /\ error = "NONE" /\ dropped = FALSE /\ shut = FALSE

PeerStep == \/ PeerData \/ PeerAlert \/ PeerSecondHalf
            \/ PeerHandshake \/ PeerCutsMessage \/ PeerLastPart
            \/ RecordDamaged \/ PeerDisappears

Next == PeerStep \/ s2n_recv \/ s2n_send \/ s2n_shutdown

Spec == Init /\ [][Next]_vars
FairSpec == Spec /\ WF_vars(s2n_recv)

----------------------------------------------------------------------------
(***************************************************************************)
(* Properties.                                                             *)
(***************************************************************************)
\* What s2n_recv returns is the peer's data, in order, without a gap and with
\* nothing that is not data: no byte of an alert or of a post-handshake message
\* that an interrupted call left in conn->in.
DataIntact == \A i \in 1 .. Len(delivered) : delivered[i] = Unit("DATA", i)

\* s2n_recv and s2n_shutdown fail for good only when the peer sent an alert that
\* is not to be ignored, when a record was damaged, after s2n_shutdown threw a
\* record away (a KeyUpdate, say) or was called again after such an alert, or when
\* the peer did one of the two legal things s2n does not support: it cut a
\* post-handshake message in two (s2n_post_handshake_recv does not put it together)
\* or started a renegotiation.
NoSpuriousError ==
    /\ error = "ALERT" => alert_in[1].what # "CLOSE_NOTIFY" /\ ~s2n_handle_as_warning(alert_in[1].what)
    /\ error = "DECRYPT" => dropped \/ peer.damaged
    /\ error = "ALERT_PRESENT" => close_notify_queued
    /\ error = "BAD_MESSAGE" => peer.refusable

\* The keys of both directions follow the KeyUpdates: while nothing is thrown
\* away, the records on their way need as many updates as separate the peer's
\* key from the connection's, and each record sent has the key that the
\* KeyUpdates sent before it established.
Updates(records) == Cardinality({i \in 1 .. Len(records) : Last(records[i].body).what = "KEY_UPDATE"})

KeysFollow ==
    /\ ~dropped /\ ~closed => recv_epoch + Updates(wire) = peer.epoch
    /\ \A i \in 1 .. Len(sent) :
          sent[i].epoch = Cardinality({j \in 1 .. i - 1 : sent[j].what = "KEY_UPDATE"})

\* What the peer sends is understood, or refused where it is a message in two
\* parts or a renegotiation, whatever interrupts the calls: the three properties
\* above.
StreamUnderstood == DataIntact /\ NoSpuriousError /\ KeysFollow

\* The end of the peer's stream, whether by an alert in one record or in two or
\* by its disappearance, ends the connection, if the application keeps reading.
EndIsNoticed == peer.over ~> closed

=============================================================================
