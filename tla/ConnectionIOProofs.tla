------------------------ MODULE ConnectionIOProofs --------------------------
(***************************************************************************)
(* Proofs about ConnectionIO, for every length of the streams, every set   *)
(* of payload sizes, every record limit and every socket.                  *)
(*                                                                         *)
(* Accounting holds whatever the threads do; that what is reported as sent *)
(* is on the wire needs one call at a time (~Duplex): two threads may wipe *)
(* each other's record from conn->out.                                     *)
(***************************************************************************)
EXTENDS ConnectionIO, TLAPS, SequenceTheorems

----------------------------------------------------------------------------
(***************************************************************************)
(* The inductive invariant: what each thread may be doing, and how the     *)
(* locals of s2n_send bound each other at each point of it.                *)
(***************************************************************************)
ThreadRoles ==
    \A e \in Mode :
        /\ at[e]["RECEIVER"] \in {Idle} \cup [caller: {"RECV"}, phase: {"WRITE", "DRAINED"}]
        /\ at[e]["SENDER"].caller # "RECV"

\* s2n_send has something left to write: from the loop's test to the next record.
HasRest(pc) == pc = Tickets \/ pc.caller \in {"KEY_UPDATE", "TICKET"}

SendLocals ==
    \A e \in Mode :
        /\ sent[e] <= consumed[e]
        /\ HasRest(at[e]["SENDER"]) => consumed[e] < total[e]
        /\ at[e]["SENDER"] = Loop \/ at[e]["SENDER"].caller = "DATA" => consumed[e] <= total[e]

IInv == TypeOK /\ ThreadRoles /\ SendLocals /\ NothingSkippedOrRepeated

----------------------------------------------------------------------------
(***************************************************************************)
(* Records and keys.                                                       *)
(***************************************************************************)

\* An empty conn->out is a sequence of records.
LEMMA NoRecords == << >> \in Seq(Record)
    OBVIOUS

\* What s2n_flush and s2n_read_full_record take from a buffer is a record.
LEMMA RecordParts ==
    ASSUME NEW s \in Seq(Record), s # << >>
    PROVE  /\ s[1] \in Record /\ s[1].len \in Nat
           /\ Head(s) \in Record /\ Head(s).len \in Nat
           /\ Tail(s) \in Seq(Record)
<1>1. Len(s) \in Nat /\ Len(s) >= 1
    OBVIOUS
<1>2. s[1] \in Record /\ Head(s) = s[1] /\ Tail(s) \in Seq(Record)
    BY <1>1
<1>3. \A rec \in Record : rec.len \in Nat
    BY DEF Record
<1> QED
    BY <1>2, <1>3

\* The keys after a record and after a key update.
LEMMA NextKeys ==
    ASSUME NEW key \in Key
    PROVE  NextSeq(key) \in Key /\ NextGen(key) \in Key
    BY DEF Key, NextSeq, NextGen

\* What s2n_record_write puts in conn->out is a record.
LEMMA SealedIsRecord ==
    ASSUME BuffersOK, NEW e \in Mode, NEW type \in RecordType, NEW from \in Nat, NEW len \in Nat
    PROVE  /\ Sealed(e, type, from, len) \in Record
           /\ <<Sealed(e, type, from, len)>> \in Seq(Record)
<1>1. w[e] \in Key
    BY DEF BuffersOK
<1>2. Sealed(e, type, from, len) \in Record
    BY <1>1 DEF Sealed, Record
<1> QED
    BY <1>2

----------------------------------------------------------------------------
(***************************************************************************)
(* One lemma per conjunct of the invariant, one step per action.           *)
(***************************************************************************)

(***************************************************************************)
(* Every step keeps the types of the flags.                                *)
(***************************************************************************)
LEMMA StepFlags ==
    ASSUME IInv, NEW e \in Mode, Step(e)
    PROVE  FlagsOK'
<1> USE DEF IInv, TypeOK, FlagsOK, sendVars, recvVars, alertVars
<1>1. ASSUME NEW t \in Thread, FlushWrite(e, t) PROVE FlagsOK'
    BY <1>1 DEF FlushWrite
<1>2. ASSUME NEW t \in Thread, FlushBlocked(e, t) PROVE FlagsOK'
    BY <1>2 DEF FlushBlocked
<1>3. ASSUME NEW t \in Thread, FlushDrained(e, t) PROVE FlagsOK'
    BY <1>3 DEF FlushDrained
<1>4. ASSUME NEW t \in Thread, FlushAlert(e, t) PROVE FlagsOK'
    BY <1>4 DEF FlushAlert
<1>5. ASSUME NEW t \in Thread, FlushReturn(e, t) PROVE FlagsOK'
    BY <1>5 DEF FlushReturn
<1>6. ASSUME NEW n \in 0 .. StreamLen[e] - acked[e], s2n_send(e, n) PROVE FlagsOK'
    BY <1>6 DEF s2n_send
<1>7. CASE SendReturn(e)
    BY <1>7 DEF SendReturn
<1>8. CASE s2n_key_update_send(e)
    BY <1>8 DEF s2n_key_update_send
<1>9. CASE s2n_tls13_server_nst_send(e)
    BY <1>9 DEF s2n_tls13_server_nst_send
<1>10. CASE WriteData(e)
    BY <1>10 DEF WriteData
<1>11. CASE RecvLeft(e)
    BY <1>11 DEF RecvLeft
<1>12. CASE RecvData(e)
    BY <1>12 DEF RecvData
<1>13. CASE RecvAlert(e)
    BY <1>13 DEF RecvAlert
<1>14. CASE RecvPostHandshake(e)
    BY <1>14 DEF RecvPostHandshake
<1>15. CASE s2n_shutdown(e)
    BY <1>15 DEF s2n_shutdown
<1>16. CASE AwaitRecord(e)
    BY <1>16 DEF AwaitRecord
<1>17. CASE AwaitBlocked(e)
    BY <1>17 DEF AwaitBlocked
<1>18. CASE NstFails(e)
    BY <1>18 DEF NstFails
<1> QED
    BY <1>1, <1>2, <1>3, <1>4, <1>5, <1>6, <1>7, <1>8, <1>9, <1>10, <1>11, <1>12, <1>13,
       <1>14, <1>15, <1>16, <1>17, <1>18 DEF Step, s2n_flush, SendStep, s2n_recv

(***************************************************************************)
(* Every step leaves each thread at a point of the code.                   *)
(***************************************************************************)
LEMMA StepAt ==
    ASSUME IInv, NEW e \in Mode, Step(e)
    PROVE  (at \in [Mode -> [Thread -> Pc]])'
<1> USE DEF IInv, TypeOK, Thread, Pc, Caller, Idle, Loop, Tickets, Await, Flush, Goto,
            Return, InFlush, AfterFlush, sendVars, recvVars, alertVars
<1>1. ASSUME NEW t \in Thread, FlushWrite(e, t) PROVE (at \in [Mode -> [Thread -> Pc]])'
    BY <1>1 DEF FlushWrite
<1>2. ASSUME NEW t \in Thread, FlushBlocked(e, t) PROVE (at \in [Mode -> [Thread -> Pc]])'
    BY <1>2 DEF FlushBlocked
<1>3. ASSUME NEW t \in Thread, FlushDrained(e, t) PROVE (at \in [Mode -> [Thread -> Pc]])'
    BY <1>3 DEF FlushDrained
<1>4. ASSUME NEW t \in Thread, FlushAlert(e, t) PROVE (at \in [Mode -> [Thread -> Pc]])'
    BY <1>4 DEF FlushAlert
<1>5. ASSUME NEW t \in Thread, FlushReturn(e, t) PROVE (at \in [Mode -> [Thread -> Pc]])'
    BY <1>5 DEF FlushReturn
<1>6. ASSUME NEW n \in 0 .. StreamLen[e] - acked[e], s2n_send(e, n) PROVE (at \in [Mode -> [Thread -> Pc]])'
    BY <1>6 DEF s2n_send
<1>7. CASE SendReturn(e)
    BY <1>7 DEF SendReturn
<1>8. CASE s2n_key_update_send(e)
    BY <1>8 DEF s2n_key_update_send
<1>9. CASE s2n_tls13_server_nst_send(e)
    BY <1>9 DEF s2n_tls13_server_nst_send
<1>10. CASE WriteData(e)
    BY <1>10 DEF WriteData
<1>11. CASE RecvLeft(e)
    BY <1>11 DEF RecvLeft
<1>12. CASE RecvData(e)
    BY <1>12 DEF RecvData
<1>13. CASE RecvAlert(e)
    BY <1>13 DEF RecvAlert
<1>14. CASE RecvPostHandshake(e)
    BY <1>14 DEF RecvPostHandshake
<1>15. CASE s2n_shutdown(e)
    BY <1>15 DEF s2n_shutdown
<1>16. CASE AwaitRecord(e)
    BY <1>16 DEF AwaitRecord
<1>17. CASE AwaitBlocked(e)
    BY <1>17 DEF AwaitBlocked
<1>18. CASE NstFails(e)
    BY <1>18 DEF NstFails
<1> QED
    BY <1>1, <1>2, <1>3, <1>4, <1>5, <1>6, <1>7, <1>8, <1>9, <1>10, <1>11, <1>12, <1>13,
       <1>14, <1>15, <1>16, <1>17, <1>18 DEF Step, s2n_flush, SendStep, s2n_recv

(***************************************************************************)
(* Every step keeps the counters natural numbers: what FlushBlocked        *)
(* subtracts from current_user_data_consumed was added to it before.       *)
(***************************************************************************)
LEMMA StepCounters ==
    ASSUME IInv, NEW e \in Mode, Step(e)
    PROVE  CountersOK'
<1> USE DEF IInv, TypeOK, CountersOK, SendLocals, sendVars, recvVars, alertVars
<1>1. ASSUME NEW t \in Thread, FlushWrite(e, t) PROVE CountersOK'
    <2>1. out[e][1].len \in Nat
        BY <1>1, RecordParts DEF FlushWrite, BuffersOK
    <2>2. flushed[e] + out[e][1].len \in Nat
        BY <2>1
    <2>3. /\ flushed' = [flushed EXCEPT ![e] = flushed[e] + out[e][1].len]
          /\ UNCHANGED <<total, sent, consumed, acked, written, left, delivered, tickets_sent>>
        BY <1>1 DEF FlushWrite
    <2> QED
        BY <2>2, <2>3
<1>2. ASSUME NEW t \in Thread, FlushBlocked(e, t) PROVE CountersOK'
    <2> DEFINE progress == IF at[e][t].caller = "DATA" THEN sent[e] ELSE 0
    <2>1. progress \in Nat /\ consumed[e] - progress \in Nat /\ acked[e] + progress \in Nat
        OBVIOUS
    <2>2. /\ consumed' = [consumed EXCEPT ![e] = consumed[e] - progress]
          /\ acked' = [acked EXCEPT ![e] = acked[e] + progress]
        BY <1>2 DEF FlushBlocked
    <2>3. Return(e, t) /\ UNCHANGED <<written, flushed, left, delivered, tickets_sent>>
        BY <1>2 DEF FlushBlocked
    <2>4. \/ total' = [total EXCEPT ![e] = 0] /\ sent' = [sent EXCEPT ![e] = 0]
          \/ total' = total /\ sent' = sent
        BY <2>3 DEF Return
    <2>5. total' \in [Mode -> Nat] /\ sent' \in [Mode -> Nat]
        BY <2>4
    <2> HIDE DEF progress
    <2>6. consumed' \in [Mode -> Nat] /\ acked' \in [Mode -> Nat]
        BY <2>1, <2>2
    <2> QED
        BY <2>3, <2>5, <2>6
<1>3. ASSUME NEW t \in Thread, FlushDrained(e, t) PROVE CountersOK'
    BY <1>3 DEF FlushDrained
<1>4. ASSUME NEW t \in Thread, FlushAlert(e, t) PROVE CountersOK'
    BY <1>4 DEF FlushAlert
<1>5. ASSUME NEW t \in Thread, FlushReturn(e, t) PROVE CountersOK'
    BY <1>5 DEF FlushReturn
<1>6. ASSUME NEW n \in 0 .. StreamLen[e] - acked[e], s2n_send(e, n) PROVE CountersOK'
    BY <1>6, IOAssumption DEF s2n_send
<1>7. CASE SendReturn(e)
    <2>1. acked[e] + total[e] \in Nat
        OBVIOUS
    <2>2. /\ acked' = [acked EXCEPT ![e] = acked[e] + total[e]]
          /\ consumed' = [consumed EXCEPT ![e] = 0]
        BY <1>7 DEF SendReturn
    <2>3. /\ total' \in [Mode -> Nat] /\ sent' \in [Mode -> Nat]
          /\ UNCHANGED <<written, flushed, left, delivered, tickets_sent>>
        BY <1>7 DEF SendReturn, Return
    <2> QED
        BY <2>1, <2>2, <2>3
<1>8. CASE s2n_key_update_send(e)
    BY <1>8 DEF s2n_key_update_send
<1>9. CASE s2n_tls13_server_nst_send(e)
    <2>1. /\ UNCHANGED sendVars
          /\ UNCHANGED recvVars
          /\ tickets_sent' = [tickets_sent EXCEPT ![e] = tickets_sent[e] + 1]
          /\ tickets_sent[e] < tickets_to_send
        BY <1>9 DEF s2n_tls13_server_nst_send, TicketsLeft
    <2>2. tickets_sent[e] + 1 \in 0 .. tickets_to_send
        BY <2>1, IOAssumption
    <2>3. tickets_sent' \in [Mode -> 0 .. tickets_to_send]
        BY <2>1, <2>2
    <2> QED
        BY <2>1, <2>3
<1>10. CASE WriteData(e)
    <2>1. PICK limit \in PayloadSizes :
             LET rest == total[e] - consumed[e]
                 to_write == IF rest < limit THEN rest ELSE limit
             IN  /\ consumed' = [consumed EXCEPT ![e] = @ + to_write]
                 /\ written' = [written EXCEPT ![e] = @ + to_write]
        BY <1>10 DEF WriteData
    <2> DEFINE rest == total[e] - consumed[e]
               to_write == IF rest < limit THEN rest ELSE limit
    <2>2. consumed[e] < total[e]
        BY <1>10 DEF WriteData, HasRest
    <2>3. to_write \in Nat
        BY <2>2, IOAssumption
    <2>4. consumed[e] + to_write \in Nat /\ written[e] + to_write \in Nat
        BY <2>3
    <2> HIDE DEF to_write
    <2> QED
        BY <1>10, <2>1, <2>4 DEF WriteData, to_write
<1>11. CASE RecvLeft(e)
    BY <1>11 DEF RecvLeft
<1>12. CASE RecvData(e)
    <2>1. Head(chan[e]).len \in Nat
        BY <1>12, RecordParts DEF RecvData, Reading, BuffersOK
    <2> QED
        BY <1>12, <2>1 DEF RecvData
<1>13. CASE RecvAlert(e)
    BY <1>13 DEF RecvAlert
<1>14. CASE RecvPostHandshake(e)
    BY <1>14 DEF RecvPostHandshake
<1>15. CASE s2n_shutdown(e)
    BY <1>15 DEF s2n_shutdown
<1>16. CASE AwaitRecord(e)
    BY <1>16 DEF AwaitRecord
<1>17. CASE AwaitBlocked(e)
    BY <1>17 DEF AwaitBlocked
<1>18. CASE NstFails(e)
    <2>1. /\ total' \in [Mode -> Nat] /\ sent' \in [Mode -> Nat]
          /\ UNCHANGED <<consumed, acked, written, flushed, left, delivered, tickets_sent>>
        BY <1>18 DEF NstFails, Return
    <2> QED
        BY <2>1
<1> QED
    BY <1>1, <1>2, <1>3, <1>4, <1>5, <1>6, <1>7, <1>8, <1>9, <1>10, <1>11, <1>12, <1>13,
       <1>14, <1>15, <1>16, <1>17, <1>18 DEF Step, s2n_flush, SendStep, s2n_recv

(***************************************************************************)
(* Every step leaves typed records in conn->out and on the socket, and     *)
(* typed keys.                                                             *)
(***************************************************************************)
LEMMA StepBuffers ==
    ASSUME IInv, NEW e \in Mode, Step(e)
    PROVE  BuffersOK'
<1> USE DEF IInv, TypeOK, BuffersOK, sendVars, recvVars, alertVars
<1>1. ASSUME NEW t \in Thread, FlushWrite(e, t) PROVE BuffersOK'
    <2>1. out[e][1] \in Record /\ Peer(e) \in Mode
        BY <1>1, RecordParts DEF FlushWrite, Peer, Mode
    <2>2. Append(chan[Peer(e)], out[e][1]) \in Seq(Record)
        BY <2>1
    <2> QED
        BY <1>1, <2>1, <2>2 DEF FlushWrite
<1>2. ASSUME NEW t \in Thread, FlushBlocked(e, t) PROVE BuffersOK'
    BY <1>2 DEF FlushBlocked
<1>3. ASSUME NEW t \in Thread, FlushDrained(e, t) PROVE BuffersOK'
    BY <1>3 DEF FlushDrained
<1>4. ASSUME NEW t \in Thread, FlushAlert(e, t) PROVE BuffersOK'
    <2>1. \A type \in RecordType : <<Sealed(e, type, 0, 0)>> \in Seq(Record)
        BY SealedIsRecord
    <2>2. NextSeq(w[e]) \in Key
        BY NextKeys
    <2> QED
        BY <1>4, <2>1, <2>2 DEF FlushAlert, s2n_record_write, RecordType
<1>5. ASSUME NEW t \in Thread, FlushReturn(e, t) PROVE BuffersOK'
    BY <1>5, NoRecords DEF FlushReturn
<1>6. ASSUME NEW n \in 0 .. StreamLen[e] - acked[e], s2n_send(e, n) PROVE BuffersOK'
    BY <1>6 DEF s2n_send
<1>7. CASE SendReturn(e)
    BY <1>7 DEF SendReturn
<1>8. CASE s2n_key_update_send(e)
    <2>1. <<Sealed(e, "KEY_UPDATE", 0, 0)>> \in Seq(Record) /\ << >> \in Seq(Record)
        BY SealedIsRecord, NoRecords DEF RecordType
    <2>2. NextGen(w[e]) \in Key
        BY NextKeys
    <2> QED
        BY <1>8, <2>1, <2>2 DEF s2n_key_update_send
<1>9. CASE s2n_tls13_server_nst_send(e)
    <2>1. <<Sealed(e, "TICKET", 0, 0)>> \in Seq(Record)
        BY SealedIsRecord DEF RecordType
    <2>2. NextSeq(w[e]) \in Key
        BY NextKeys
    <2> QED
        BY <1>9, <2>1, <2>2 DEF s2n_tls13_server_nst_send, s2n_record_write
<1>10. CASE WriteData(e)
    <2>1. PICK limit \in PayloadSizes :
             LET rest == total[e] - consumed[e]
                 to_write == IF rest < limit THEN rest ELSE limit
             IN  out' = [out EXCEPT ![e] =
                            <<Sealed(e, "DATA", acked[e] + consumed[e], to_write)>>]
        BY <1>10 DEF WriteData
    <2> DEFINE rest == total[e] - consumed[e]
               to_write == IF rest < limit THEN rest ELSE limit
    <2>2. consumed[e] < total[e]
        BY <1>10 DEF WriteData, SendLocals, HasRest
    <2>3. to_write \in Nat /\ acked[e] + consumed[e] \in Nat
        BY <2>2, IOAssumption, SMTT(40) DEF CountersOK
    <2>4. <<Sealed(e, "DATA", acked[e] + consumed[e], to_write)>> \in Seq(Record)
        BY <2>3, SealedIsRecord DEF RecordType
    <2>5. NextSeq(w[e]) \in Key
        BY NextKeys
    <2> HIDE DEF to_write
    <2> QED
        BY <1>10, <2>1, <2>4, <2>5 DEF WriteData, to_write
<1>11. CASE RecvLeft(e)
    BY <1>11 DEF RecvLeft
<1>12. CASE RecvData(e)
    <2>1. Head(chan[e]) \in Record /\ Tail(chan[e]) \in Seq(Record)
        BY <1>12, RecordParts DEF RecvData, Reading
    <2>2. NextSeq(r[e]) \in Key /\ NextGen(r[e]) \in Key
        BY NextKeys
    <2> QED
        BY <1>12, <2>1, <2>2 DEF RecvData, TakeRecord
<1>13. CASE RecvAlert(e)
    <2>1. Head(chan[e]) \in Record /\ Tail(chan[e]) \in Seq(Record)
        BY <1>13, RecordParts DEF RecvAlert, Reading
    <2>2. NextSeq(r[e]) \in Key /\ NextGen(r[e]) \in Key
        BY NextKeys
    <2> QED
        BY <1>13, <2>1, <2>2 DEF RecvAlert, TakeRecord
<1>14. CASE RecvPostHandshake(e)
    <2>1. Head(chan[e]) \in Record /\ Tail(chan[e]) \in Seq(Record)
        BY <1>14, RecordParts DEF RecvPostHandshake, Reading
    <2>2. NextSeq(r[e]) \in Key /\ NextGen(r[e]) \in Key
        BY NextKeys
    <2> QED
        BY <1>14, <2>1, <2>2 DEF RecvPostHandshake, TakeRecord
<1>15. CASE s2n_shutdown(e)
    BY <1>15 DEF s2n_shutdown
<1>16. CASE AwaitRecord(e)
    <2>1. Head(chan[e]) \in Record /\ Tail(chan[e]) \in Seq(Record)
        BY <1>16, RecordParts DEF AwaitRecord, Reading
    <2>2. NextSeq(r[e]) \in Key /\ NextGen(r[e]) \in Key
        BY NextKeys
    <2> QED
        BY <1>16, <2>1, <2>2 DEF AwaitRecord, TakeRecord
<1>17. CASE AwaitBlocked(e)
    BY <1>17 DEF AwaitBlocked
<1>18. CASE NstFails(e)
    BY <1>18 DEF NstFails
<1> QED
    BY <1>1, <1>2, <1>3, <1>4, <1>5, <1>6, <1>7, <1>8, <1>9, <1>10, <1>11, <1>12, <1>13,
       <1>14, <1>15, <1>16, <1>17, <1>18 DEF Step, s2n_flush, SendStep, s2n_recv

(***************************************************************************)
(* The receiver thread only ever flushes for s2n_recv, the sender never    *)
(* does.                                                                   *)
(***************************************************************************)
LEMMA StepRoles ==
    ASSUME IInv, NEW e \in Mode, Step(e)
    PROVE  ThreadRoles'
<1> USE DEF IInv, TypeOK, ThreadRoles, Pc, Caller, AfterFlush, Idle, Loop, Tickets,
            Await, Flush, Goto, Return, InFlush, Thread, sendVars, recvVars, alertVars
<1>1. ASSUME NEW t \in Thread, FlushWrite(e, t) PROVE ThreadRoles'
    BY <1>1 DEF FlushWrite
<1>2. ASSUME NEW t \in Thread, FlushBlocked(e, t) PROVE ThreadRoles'
    BY <1>2 DEF FlushBlocked
<1>3. ASSUME NEW t \in Thread, FlushDrained(e, t) PROVE ThreadRoles'
    BY <1>3 DEF FlushDrained
<1>4. ASSUME NEW t \in Thread, FlushAlert(e, t) PROVE ThreadRoles'
    BY <1>4 DEF FlushAlert
<1>5. ASSUME NEW t \in Thread, FlushReturn(e, t) PROVE ThreadRoles'
    BY <1>5 DEF FlushReturn
<1>6. ASSUME NEW n \in 0 .. StreamLen[e] - acked[e], s2n_send(e, n) PROVE ThreadRoles'
    BY <1>6 DEF s2n_send
<1>7. CASE SendReturn(e)
    BY <1>7 DEF SendReturn
<1>8. CASE s2n_key_update_send(e)
    BY <1>8 DEF s2n_key_update_send
<1>9. CASE s2n_tls13_server_nst_send(e)
    BY <1>9 DEF s2n_tls13_server_nst_send
<1>10. CASE WriteData(e)
    BY <1>10 DEF WriteData
<1>11. CASE RecvLeft(e)
    BY <1>11 DEF RecvLeft
<1>12. CASE RecvData(e)
    BY <1>12 DEF RecvData
<1>13. CASE RecvAlert(e)
    BY <1>13 DEF RecvAlert
<1>14. CASE RecvPostHandshake(e)
    BY <1>14 DEF RecvPostHandshake
<1>15. CASE s2n_shutdown(e)
    BY <1>15 DEF s2n_shutdown
<1>16. CASE AwaitRecord(e)
    BY <1>16 DEF AwaitRecord
<1>17. CASE AwaitBlocked(e)
    BY <1>17 DEF AwaitBlocked
<1>18. CASE NstFails(e)
    BY <1>18 DEF NstFails
<1> QED
    BY <1>1, <1>2, <1>3, <1>4, <1>5, <1>6, <1>7, <1>8, <1>9, <1>10, <1>11, <1>12, <1>13,
       <1>14, <1>15, <1>16, <1>17, <1>18 DEF Step, s2n_flush, SendStep, s2n_recv

(***************************************************************************)
(* Every step keeps the bounds between the locals of s2n_send.             *)
(***************************************************************************)
LEMMA StepLocals ==
    ASSUME IInv, NEW e \in Mode, Step(e)
    PROVE  SendLocals'
<1> USE DEF IInv, TypeOK, CountersOK, ThreadRoles, SendLocals, HasRest, Pc, Caller,
            AfterFlush, Idle, Loop, Tickets, Await, Flush, Goto, Return, InFlush,
            Thread, sendVars, recvVars, alertVars
<1>1. ASSUME NEW t \in Thread, FlushWrite(e, t) PROVE SendLocals'
    <2>1. UNCHANGED <<at, total, sent, consumed>>
        BY <1>1 DEF FlushWrite
    <2> QED
        BY <2>1
<1>2. ASSUME NEW t \in Thread, FlushBlocked(e, t) PROVE SendLocals'
    <2> DEFINE progress == IF at[e][t].caller = "DATA" THEN sent[e] ELSE 0
    <2>1. /\ at' = [at EXCEPT ![e][t] = Idle]
          /\ consumed' = [consumed EXCEPT ![e] = consumed[e] - progress]
        BY <1>2 DEF FlushBlocked
    <2>2. CASE t = "SENDER"
        <3>1. total' = [total EXCEPT ![e] = 0] /\ sent' = [sent EXCEPT ![e] = 0]
            BY <1>2, <2>2 DEF FlushBlocked
        <3>2. consumed'[e] >= 0 /\ at'[e]["SENDER"] = Idle
            BY <2>1, <2>2
        <3> QED
            BY <2>1, <2>2, <3>1, <3>2
    <2>3. CASE t = "RECEIVER"
        <3>1. UNCHANGED <<total, sent>>
            BY <1>2, <2>3 DEF FlushBlocked
        <3>2. progress = 0 /\ \A f \in Mode : at'[f]["SENDER"] = at[f]["SENDER"]
            BY <2>1, <2>3
        <3> QED
            BY <2>1, <3>1, <3>2
    <2> QED
        BY <2>2, <2>3
<1>3. ASSUME NEW t \in Thread, FlushDrained(e, t) PROVE SendLocals'
    <2>1. UNCHANGED <<total, sent, consumed>>
        BY <1>3 DEF FlushDrained
    <2>2. at' = [at EXCEPT ![e][t].phase = "DRAINED"]
        BY <1>3 DEF FlushDrained
    <2>3. at[e][t].caller \in Caller /\ at[e][t].phase = "WRITE"
        BY <1>3 DEF FlushDrained
    <2>4. \A f \in Mode : /\ at'[f]["SENDER"].caller = at[f]["SENDER"].caller
                          /\ HasRest(at'[f]["SENDER"]) => HasRest(at[f]["SENDER"])
                          /\ at'[f]["SENDER"] = Loop => at[f]["SENDER"] = Loop
        BY <2>2, <2>3
    <2> QED
        BY <2>1, <2>4
<1>4. ASSUME NEW t \in Thread, FlushAlert(e, t) PROVE SendLocals'
    BY <1>4 DEF FlushAlert
<1>5. ASSUME NEW t \in Thread, FlushReturn(e, t) PROVE SendLocals'
    BY <1>5, SMTT(40) DEF FlushReturn
<1>6. ASSUME NEW n \in 0 .. StreamLen[e] - acked[e], s2n_send(e, n) PROVE SendLocals'
    BY <1>6, IOAssumption DEF s2n_send, CanStart
<1>7. CASE SendReturn(e)
    BY <1>7 DEF SendReturn
<1>8. CASE s2n_key_update_send(e)
    BY <1>8 DEF s2n_key_update_send
<1>9. CASE s2n_tls13_server_nst_send(e)
    BY <1>9 DEF s2n_tls13_server_nst_send
<1>10. CASE WriteData(e)
    BY <1>10, IOAssumption, SMTT(40) DEF WriteData
<1>11. CASE RecvLeft(e)
    BY <1>11 DEF RecvLeft
<1>12. CASE RecvData(e)
    <2>1. UNCHANGED <<at, total, sent, consumed>>
        BY <1>12 DEF RecvData
    <2> QED
        BY <2>1
<1>13. CASE RecvAlert(e)
    <2>1. UNCHANGED <<total, sent, consumed>>
        BY <1>13 DEF RecvAlert
    <2>2. at' = at \/ at' = [at EXCEPT ![e]["RECEIVER"] = Flush("RECV")]
        BY <1>13 DEF RecvAlert
    <2>3. \A f \in Mode : at'[f]["SENDER"] = at[f]["SENDER"]
        BY <2>2, SMTT(40)
    <2> QED
        BY <2>1, <2>3
<1>14. CASE RecvPostHandshake(e)
    BY <1>14 DEF RecvPostHandshake
<1>15. CASE s2n_shutdown(e)
    BY <1>15 DEF s2n_shutdown
<1>16. CASE AwaitRecord(e)
    BY <1>16 DEF AwaitRecord
<1>17. CASE AwaitBlocked(e)
    BY <1>17 DEF AwaitBlocked
<1>18. CASE NstFails(e)
    BY <1>18 DEF NstFails
<1> QED
    BY <1>1, <1>2, <1>3, <1>4, <1>5, <1>6, <1>7, <1>8, <1>9, <1>10, <1>11, <1>12, <1>13,
       <1>14, <1>15, <1>16, <1>17, <1>18 DEF Step, s2n_flush, SendStep, s2n_recv

(***************************************************************************)
(* Every step keeps the account of the bytes written.                      *)
(***************************************************************************)
LEMMA StepAccounting ==
    ASSUME IInv, NEW e \in Mode, Step(e)
    PROVE  NothingSkippedOrRepeated'
<1> USE DEF IInv, TypeOK, CountersOK, SendLocals, NothingSkippedOrRepeated, Return,
            sendVars, recvVars, alertVars
<1>1. ASSUME NEW t \in Thread, FlushWrite(e, t) PROVE NothingSkippedOrRepeated'
    BY <1>1 DEF FlushWrite
<1>2. ASSUME NEW t \in Thread, FlushBlocked(e, t) PROVE NothingSkippedOrRepeated'
    BY <1>2 DEF FlushBlocked
<1>3. ASSUME NEW t \in Thread, FlushDrained(e, t) PROVE NothingSkippedOrRepeated'
    BY <1>3 DEF FlushDrained
<1>4. ASSUME NEW t \in Thread, FlushAlert(e, t) PROVE NothingSkippedOrRepeated'
    BY <1>4 DEF FlushAlert
<1>5. ASSUME NEW t \in Thread, FlushReturn(e, t) PROVE NothingSkippedOrRepeated'
    BY <1>5 DEF FlushReturn
<1>6. ASSUME NEW n \in 0 .. StreamLen[e] - acked[e], s2n_send(e, n) PROVE NothingSkippedOrRepeated'
    BY <1>6 DEF s2n_send
<1>7. CASE SendReturn(e)
    BY <1>7 DEF SendReturn
<1>8. CASE s2n_key_update_send(e)
    BY <1>8 DEF s2n_key_update_send
<1>9. CASE s2n_tls13_server_nst_send(e)
    BY <1>9 DEF s2n_tls13_server_nst_send
<1>10. CASE WriteData(e)
    BY <1>10, IOAssumption DEF WriteData, HasRest
<1>11. CASE RecvLeft(e)
    BY <1>11 DEF RecvLeft
<1>12. CASE RecvData(e)
    BY <1>12 DEF RecvData
<1>13. CASE RecvAlert(e)
    BY <1>13 DEF RecvAlert
<1>14. CASE RecvPostHandshake(e)
    BY <1>14 DEF RecvPostHandshake
<1>15. CASE s2n_shutdown(e)
    BY <1>15 DEF s2n_shutdown
<1>16. CASE AwaitRecord(e)
    BY <1>16 DEF AwaitRecord
<1>17. CASE AwaitBlocked(e)
    BY <1>17 DEF AwaitBlocked
<1>18. CASE NstFails(e)
    BY <1>18 DEF NstFails
<1> QED
    BY <1>1, <1>2, <1>3, <1>4, <1>5, <1>6, <1>7, <1>8, <1>9, <1>10, <1>11, <1>12, <1>13,
       <1>14, <1>15, <1>16, <1>17, <1>18 DEF Step, s2n_flush, SendStep, s2n_recv

----------------------------------------------------------------------------
(***************************************************************************)
(* The invariant is inductive.                                             *)
(***************************************************************************)

\* It holds of two connections whose handshake has just ended.
LEMMA InitIInv == Init => IInv
<1> SUFFICES ASSUME Init PROVE IInv
    OBVIOUS
<1> USE DEF Init, Zero, No
<1>1. at \in [Mode -> [Thread -> Pc]]
    BY DEF Pc, Idle
<1>2. CountersOK
    BY IOAssumption DEF CountersOK
<1>3. BuffersOK
    BY NoRecords DEF BuffersOK, Key
<1>4. FlagsOK
    BY DEF FlagsOK
<1>5. ThreadRoles /\ SendLocals
    BY DEF ThreadRoles, SendLocals, HasRest, Idle, Loop, Tickets, Thread
<1>6. NothingSkippedOrRepeated
    BY DEF NothingSkippedOrRepeated
<1> QED
    BY <1>1, <1>2, <1>3, <1>4, <1>5, <1>6 DEF IInv, TypeOK

\* Every step of either connection, and a stutter, preserves it.
LEMMA NextIInv == IInv /\ [Next]_vars => IInv'
<1> SUFFICES ASSUME IInv, [Next]_vars PROVE IInv'
    OBVIOUS
<1>1. ASSUME NEW e \in Mode, Step(e) PROVE IInv'
    BY <1>1, StepAt, StepCounters, StepBuffers, StepFlags, StepRoles, StepLocals,
       StepAccounting DEF IInv, TypeOK
<1>2. ASSUME UNCHANGED vars PROVE IInv'
    BY <1>2 DEF IInv, TypeOK, CountersOK, BuffersOK, FlagsOK, ThreadRoles, SendLocals,
                NothingSkippedOrRepeated, vars, sendVars, recvVars, alertVars
<1> QED
    BY <1>1, <1>2 DEF Next, Rest

(***************************************************************************)
(* The connections are always well typed: in particular the subtraction    *)
(* that s2n_send makes from current_user_data_consumed when it is blocked  *)
(* never goes below zero, and no record or key is ever malformed.          *)
(***************************************************************************)
THEOREM TypeCorrect == Spec => []TypeOK
<1>1. IInv => TypeOK
    BY DEF IInv
<1> QED
    BY InitIInv, NextIInv, <1>1, PTL DEF Spec

(***************************************************************************)
(* However calls of s2n_send are blocked, shortened and retried, and       *)
(* whatever the receiver thread does meanwhile, the bytes put in records   *)
(* are exactly those reported as sent plus current_user_data_consumed.     *)
(***************************************************************************)
THEOREM Accounting == Spec => []NothingSkippedOrRepeated
<1>1. IInv => NothingSkippedOrRepeated
    BY DEF IInv
<1> QED
    BY InitIInv, NextIInv, <1>1, PTL DEF Spec

----------------------------------------------------------------------------
(***************************************************************************)
(* One call at a time.  conn->out then belongs to the call in progress: it *)
(* is empty past the loop of s2n_flush and in the loop of s2n_send, so     *)
(* that nothing it holds is lost when it is rewritten.                     *)
(***************************************************************************)
OneCall == \A e \in Mode : at[e]["SENDER"] = Idle \/ at[e]["RECEIVER"] = Idle

OutEmpty ==
    \A e \in Mode :
        /\ \A t \in Thread : at[e][t].phase = "DRAINED" => out[e] = << >>
        /\ at[e]["SENDER"] \in {Loop, Tickets} => out[e] = << >>

OutLen(e) == IF out[e] = << >> THEN 0 ELSE out[e][1].len

WireAt(e) ==
    /\ Len(out[e]) <= 1
    /\ written[e] = flushed[e] + OutLen(e)
    /\ acked[e] + sent[e] <= flushed[e]

OnTheWire == \A e \in Mode : WireAt(e)

WireInv == IInv /\ OneCall /\ OutEmpty /\ OnTheWire

\* The receiver thread does not acknowledge data.
LEMMA ReceiverCaller ==
    ASSUME ThreadRoles, NEW e \in Mode
    PROVE  at[e]["RECEIVER"].caller # "DATA"
    BY DEF ThreadRoles, Idle

\* A step leaves f's side of the account alone.
SameAt(f) ==
    /\ out'[f] = out[f] /\ written'[f] = written[f] /\ flushed'[f] = flushed[f]
    /\ acked'[f] = acked[f] /\ sent'[f] = sent[f]

\* A call on one connection leaves the account of the other as it was.
LEMMA OtherUntouched ==
    ASSUME WireInv, NEW e \in Mode, \A f \in Mode \ {e} : SameAt(f), WireAt(e)'
    PROVE  OnTheWire'
    BY DEF WireInv, OnTheWire, WireAt, OutLen, SameAt


(***************************************************************************)
(* Without threads, a call starts only when the last one has returned.     *)
(***************************************************************************)
LEMMA StepOneCall ==
    ASSUME WireInv, ~Duplex, NEW e \in Mode, Step(e)
    PROVE  OneCall'
<1> USE DEF WireInv, OneCall, IInv, TypeOK, ThreadRoles, CanStart, Reading, Pc, Caller,
            AfterFlush, Idle, Loop, Tickets, Await, Flush, Goto, Return, InFlush,
            Thread, sendVars, recvVars, alertVars
<1>1. ASSUME NEW t \in Thread, FlushWrite(e, t) PROVE OneCall'
    BY <1>1 DEF FlushWrite
<1>2. ASSUME NEW t \in Thread, FlushBlocked(e, t) PROVE OneCall'
    BY <1>2 DEF FlushBlocked
<1>3. ASSUME NEW t \in Thread, FlushDrained(e, t) PROVE OneCall'
    BY <1>3 DEF FlushDrained
<1>4. ASSUME NEW t \in Thread, FlushAlert(e, t) PROVE OneCall'
    BY <1>4 DEF FlushAlert
<1>5. ASSUME NEW t \in Thread, FlushReturn(e, t) PROVE OneCall'
    BY <1>5 DEF FlushReturn
<1>6. ASSUME NEW n \in 0 .. StreamLen[e] - acked[e], s2n_send(e, n) PROVE OneCall'
    BY <1>6 DEF s2n_send
<1>7. CASE SendReturn(e)
    BY <1>7 DEF SendReturn
<1>8. CASE s2n_key_update_send(e)
    BY <1>8 DEF s2n_key_update_send
<1>9. CASE s2n_tls13_server_nst_send(e)
    BY <1>9 DEF s2n_tls13_server_nst_send
<1>10. CASE WriteData(e)
    BY <1>10 DEF WriteData
<1>11. CASE RecvLeft(e)
    BY <1>11 DEF RecvLeft
<1>12. CASE RecvData(e)
    BY <1>12 DEF RecvData
<1>13. CASE RecvAlert(e)
    BY <1>13 DEF RecvAlert
<1>14. CASE RecvPostHandshake(e)
    BY <1>14 DEF RecvPostHandshake
<1>15. CASE s2n_shutdown(e)
    BY <1>15 DEF s2n_shutdown
<1>16. CASE AwaitRecord(e)
    BY <1>16 DEF AwaitRecord
<1>17. CASE AwaitBlocked(e)
    BY <1>17 DEF AwaitBlocked
<1>18. CASE NstFails(e)
    BY <1>18 DEF NstFails
<1> QED
    BY <1>1, <1>2, <1>3, <1>4, <1>5, <1>6, <1>7, <1>8, <1>9, <1>10, <1>11, <1>12, <1>13,
       <1>14, <1>15, <1>16, <1>17, <1>18 DEF Step, s2n_flush, SendStep, s2n_recv

(***************************************************************************)
(* Every step keeps conn->out empty where the code takes it to be.         *)
(***************************************************************************)
LEMMA StepOutEmpty ==
    ASSUME WireInv, ~Duplex, NEW e \in Mode, Step(e)
    PROVE  OutEmpty'
<1> USE DEF WireInv, OneCall, OutEmpty, IInv, TypeOK, ThreadRoles, CanStart, Reading,
            Pc, Caller, AfterFlush, Idle, Loop, Tickets, Await, Flush, Goto, Return,
            InFlush, Thread, sendVars, recvVars, alertVars
<1>1. ASSUME NEW t \in Thread, FlushWrite(e, t) PROVE OutEmpty'
    BY <1>1 DEF FlushWrite
<1>2. ASSUME NEW t \in Thread, FlushBlocked(e, t) PROVE OutEmpty'
    BY <1>2 DEF FlushBlocked
<1>3. ASSUME NEW t \in Thread, FlushDrained(e, t) PROVE OutEmpty'
    BY <1>3 DEF FlushDrained
<1>4. ASSUME NEW t \in Thread, FlushAlert(e, t) PROVE OutEmpty'
    <2>1. at[e][t] # Idle
        BY <1>4 DEF FlushAlert
    <2>2. \A u \in Thread : u # t => at[e][u] = Idle
        BY <2>1
    <2>3. /\ at' = [at EXCEPT ![e][t].phase = "WRITE"]
          /\ \A f \in Mode : f # e => out'[f] = out[f]
        BY <1>4 DEF FlushAlert, s2n_record_write, BuffersOK
    <2>4. /\ at'[e][t].phase = "WRITE"
          /\ \A u \in Thread : u # t => at'[e][u] = Idle
          /\ \A f \in Mode : f # e => at'[f] = at[f]
        BY <2>2, <2>3
    <2> QED
        BY <2>3, <2>4
<1>5. ASSUME NEW t \in Thread, FlushReturn(e, t) PROVE OutEmpty'
    BY <1>5 DEF FlushReturn
<1>6. ASSUME NEW n \in 0 .. StreamLen[e] - acked[e], s2n_send(e, n) PROVE OutEmpty'
    BY <1>6 DEF s2n_send
<1>7. CASE SendReturn(e)
    BY <1>7 DEF SendReturn
<1>8. CASE s2n_key_update_send(e)
    <2>1. at[e]["RECEIVER"] = Idle
        BY <1>8 DEF s2n_key_update_send
    <2>2. /\ \A f \in Mode : f # e => out'[f] = out[f]
          /\ \/ out'[e] = << >> /\ at' = [at EXCEPT ![e]["SENDER"] = Tickets]
             \/ at' = [at EXCEPT ![e]["SENDER"] = Flush("KEY_UPDATE")]
        BY <1>8 DEF s2n_key_update_send, BuffersOK
    <2>3. /\ at'[e]["RECEIVER"] = Idle
          /\ \A f \in Mode : f # e => at'[f] = at[f]
        BY <2>1, <2>2
    <2>4. \/ out'[e] = << >> /\ at'[e]["SENDER"] = Tickets
          \/ at'[e]["SENDER"] = Flush("KEY_UPDATE")
        BY <2>2
    <2> QED
        BY <2>2, <2>3, <2>4
<1>9. CASE s2n_tls13_server_nst_send(e)
    BY <1>9 DEF s2n_tls13_server_nst_send, s2n_record_write
<1>10. CASE WriteData(e)
    BY <1>10 DEF WriteData
<1>11. CASE RecvLeft(e)
    BY <1>11 DEF RecvLeft
<1>12. CASE RecvData(e)
    BY <1>12 DEF RecvData
<1>13. CASE RecvAlert(e)
    BY <1>13, SMTT(40) DEF RecvAlert
<1>14. CASE RecvPostHandshake(e)
    BY <1>14 DEF RecvPostHandshake
<1>15. CASE s2n_shutdown(e)
    BY <1>15 DEF s2n_shutdown
<1>16. CASE AwaitRecord(e)
    BY <1>16 DEF AwaitRecord
<1>17. CASE AwaitBlocked(e)
    BY <1>17 DEF AwaitBlocked
<1>18. CASE NstFails(e)
    BY <1>18 DEF NstFails
<1> QED
    BY <1>1, <1>2, <1>3, <1>4, <1>5, <1>6, <1>7, <1>8, <1>9, <1>10, <1>11, <1>12, <1>13,
       <1>14, <1>15, <1>16, <1>17, <1>18 DEF Step, s2n_flush, SendStep, s2n_recv

(***************************************************************************)
(* Every step keeps what s2n_send has acknowledged within what the socket  *)
(* has.                                                                    *)
(***************************************************************************)
LEMMA StepOnTheWire ==
    ASSUME WireInv, ~Duplex, NEW e \in Mode, Step(e)
    PROVE  OnTheWire'
<1> USE DEF WireInv, OnTheWire, WireAt, OutLen, SameAt, IInv, TypeOK, CountersOK,
            sendVars, recvVars, alertVars
<1>1. ASSUME NEW t \in Thread, FlushWrite(e, t) PROVE OnTheWire'
    <2>1. out[e][1].len \in Nat
        BY <1>1, RecordParts DEF FlushWrite, BuffersOK
    <2>2. /\ out[e] # << >>
          /\ out' = [out EXCEPT ![e] = << >>]
          /\ flushed' = [flushed EXCEPT ![e] = flushed[e] + out[e][1].len]
          /\ UNCHANGED <<written, acked, sent>>
        BY <1>1 DEF FlushWrite
    <2>3. out'[e] = << >> /\ flushed'[e] = flushed[e] + out[e][1].len
        BY <2>2 DEF BuffersOK
    <2>4. Len(out'[e]) = 0
        BY <2>3
    <2>8. \A f \in Mode \ {e} : SameAt(f)
        BY <2>2 DEF BuffersOK
    <2>9. WireAt(e)'
        BY <2>1, <2>2, <2>3, <2>4
    <2> QED
        BY <2>8, <2>9, OtherUntouched
<1>2. ASSUME NEW t \in Thread, FlushBlocked(e, t) PROVE OnTheWire'
    <2> DEFINE progress == IF at[e][t].caller = "DATA" THEN sent[e] ELSE 0
    <2>1. /\ acked' = [acked EXCEPT ![e] = acked[e] + progress]
          /\ Return(e, t)
          /\ UNCHANGED <<out, written, flushed>>
        BY <1>2 DEF FlushBlocked
    <2>2. acked'[e] + sent'[e] <= flushed[e]
        <3>1. CASE t = "SENDER"
            BY <2>1, <3>1 DEF Return
        <3>2. CASE t = "RECEIVER"
            <4>1. at[e]["RECEIVER"].caller # "DATA"
                BY ReceiverCaller
            <4>2. acked'[e] = acked[e] /\ sent'[e] = sent[e]
                BY <2>1, <3>2, <4>1 DEF Return
            <4> QED
                BY <4>2
        <3> QED
            BY <3>1, <3>2 DEF Thread
    <2>3. \A f \in Mode : f # e => acked'[f] = acked[f] /\ sent'[f] = sent[f]
        BY <2>1 DEF Return
    <2> QED
        BY <2>1, <2>2, <2>3
<1>3. ASSUME NEW t \in Thread, FlushDrained(e, t) PROVE OnTheWire'
    <2>1. UNCHANGED <<out, written, flushed, acked, sent>>
        BY <1>3 DEF FlushDrained
    <2> QED
        BY <2>1
<1>4. ASSUME NEW t \in Thread, FlushAlert(e, t) PROVE OnTheWire'
    <2>1. out[e] = << >> /\ UNCHANGED <<written, flushed, acked, sent>>
        BY <1>4 DEF FlushAlert, InFlush, OutEmpty
    <2>2. \E type \in RecordType : out' = [out EXCEPT ![e] = <<Sealed(e, type, 0, 0)>>]
        <3>1. \/ out' = [out EXCEPT ![e] = <<Sealed(e, "FATAL", 0, 0)>>]
              \/ out' = [out EXCEPT ![e] = <<Sealed(e, "CLOSE_NOTIFY", 0, 0)>>]
            BY <1>4 DEF FlushAlert, s2n_record_write
        <3> QED
            BY <3>1 DEF RecordType
    <2>3. PICK type \in RecordType : out' = [out EXCEPT ![e] = <<Sealed(e, type, 0, 0)>>]
        BY <2>2
    <2>4. out'[e] = <<Sealed(e, type, 0, 0)>>
        BY <2>3 DEF BuffersOK
    <2>5. Len(out'[e]) = 1 /\ out'[e] # << >> /\ out'[e][1].len = 0
        BY <2>4 DEF Sealed
    <2>6. \A f \in Mode \ {e} : SameAt(f)
        BY <2>1, <2>3 DEF BuffersOK
    <2>7. WireAt(e)'
        BY <2>1, <2>5
    <2> QED
        BY <2>6, <2>7, OtherUntouched
<1>5. ASSUME NEW t \in Thread, FlushReturn(e, t) PROVE OnTheWire'
    <2>1. out[e] = << >>
        BY <1>5 DEF FlushReturn, InFlush, OutEmpty
    <2>2. /\ out' = [out EXCEPT ![e] = << >>]
          /\ UNCHANGED <<written, flushed, acked>>
          /\ \/ sent' = [sent EXCEPT ![e] = consumed[e]]
             \/ sent' = [sent EXCEPT ![e] = sent[e]]
        BY <1>5 DEF FlushReturn
    <2>3. acked[e] + consumed[e] = flushed[e]
        BY <2>1 DEF NothingSkippedOrRepeated
    <2>4. out'[e] = << >> /\ sent'[e] \in {sent[e], consumed[e]}
        BY <2>2 DEF BuffersOK
    <2>8. \A f \in Mode \ {e} : SameAt(f)
        BY <2>2 DEF BuffersOK
    <2>9. WireAt(e)'
        BY <2>1, <2>2, <2>3, <2>4
    <2> QED
        BY <2>8, <2>9, OtherUntouched
<1>6. ASSUME NEW n \in 0 .. StreamLen[e] - acked[e], s2n_send(e, n) PROVE OnTheWire'
    <2>1. UNCHANGED <<out, written, flushed, acked, sent>>
        BY <1>6 DEF s2n_send
    <2> QED
        BY <2>1
<1>7. CASE SendReturn(e)
    <2>1. out[e] = << >> /\ consumed[e] = total[e]
        BY <1>7 DEF SendReturn, OutEmpty
    <2>2. /\ acked' = [acked EXCEPT ![e] = acked[e] + total[e]]
          /\ sent' = [sent EXCEPT ![e] = 0]
          /\ UNCHANGED <<out, written, flushed>>
        BY <1>7 DEF SendReturn, Return
    <2>3. acked[e] + consumed[e] = flushed[e]
        BY <2>1 DEF NothingSkippedOrRepeated
    <2> QED
        BY <2>1, <2>2, <2>3
<1>8. CASE s2n_key_update_send(e)
    <2>1. out[e] = << >> /\ UNCHANGED <<written, flushed, acked, sent>>
        BY <1>8 DEF s2n_key_update_send, OutEmpty
    <2>2. \/ out' = [out EXCEPT ![e] = <<Sealed(e, "KEY_UPDATE", 0, 0)>>]
          \/ out' = [out EXCEPT ![e] = << >>]
        BY <1>8 DEF s2n_key_update_send
    <2>3. out'[e] = <<Sealed(e, "KEY_UPDATE", 0, 0)>> \/ out'[e] = << >>
        BY <2>2 DEF BuffersOK
    <2>4. Len(out'[e]) <= 1 /\ (out'[e] # << >> => out'[e][1].len = 0)
        <3>1. CASE out'[e] = <<Sealed(e, "KEY_UPDATE", 0, 0)>>
            BY <3>1 DEF Sealed
        <3>2. CASE out'[e] = << >>
            BY <3>2
        <3> QED
            BY <2>3, <3>1, <3>2
    <2>5. \A f \in Mode \ {e} : SameAt(f)
        BY <2>1, <2>2 DEF BuffersOK
    <2>6. WireAt(e)'
        BY <2>1, <2>4
    <2> QED
        BY <2>5, <2>6, OtherUntouched
<1>9. CASE s2n_tls13_server_nst_send(e)
    <2>1. out[e] = << >> /\ UNCHANGED <<written, flushed, acked, sent>>
        BY <1>9 DEF s2n_tls13_server_nst_send, InFlush, OutEmpty
    <2>2. out' = [out EXCEPT ![e] = <<Sealed(e, "TICKET", 0, 0)>>]
        BY <1>9 DEF s2n_tls13_server_nst_send, s2n_record_write
    <2>3. out'[e] = <<Sealed(e, "TICKET", 0, 0)>>
        BY <2>2 DEF BuffersOK
    <2>4. Len(out'[e]) = 1 /\ out'[e] # << >> /\ out'[e][1].len = 0
        BY <2>3 DEF Sealed
    <2>8. \A f \in Mode \ {e} : SameAt(f)
        BY <2>1, <2>2 DEF BuffersOK
    <2>9. WireAt(e)'
        BY <2>1, <2>4
    <2> QED
        BY <2>8, <2>9, OtherUntouched
<1>10. CASE WriteData(e)
    <2> DEFINE rest == total[e] - consumed[e]
               to_write(limit) == IF rest < limit THEN rest ELSE limit
               rec(limit) == Sealed(e, "DATA", acked[e] + consumed[e], to_write(limit))
    <2>1. out[e] = << >> /\ UNCHANGED <<flushed, acked, sent>>
        BY <1>10 DEF WriteData
    <2>2. PICK limit \in PayloadSizes :
             /\ out' = [out EXCEPT ![e] = <<rec(limit)>>]
             /\ written' = [written EXCEPT ![e] = written[e] + to_write(limit)]
        BY <1>10 DEF WriteData
    <2>3. to_write(limit) \in Nat
        BY <1>10, IOAssumption, SMTT(40) DEF WriteData, SendLocals, HasRest
    <2>4. rec(limit).len = to_write(limit)
        BY DEF Sealed
    <2> HIDE DEF to_write, rec
    <2>5. out'[e] = <<rec(limit)>> /\ written'[e] = written[e] + to_write(limit)
        BY <2>2 DEF BuffersOK
    <2>6. Len(out'[e]) = 1 /\ out'[e] # << >> /\ out'[e][1].len = to_write(limit)
        BY <2>4, <2>5
    <2>8. \A f \in Mode \ {e} : SameAt(f)
        BY <2>1, <2>2 DEF BuffersOK
    <2>9. WireAt(e)'
        BY <2>1, <2>3, <2>5, <2>6
    <2> QED
        BY <2>8, <2>9, OtherUntouched
<1>11. CASE RecvLeft(e)
    <2>1. UNCHANGED <<out, written, flushed, acked, sent>>
        BY <1>11 DEF RecvLeft
    <2> QED
        BY <2>1
<1>12. CASE RecvData(e)
    <2>1. UNCHANGED <<out, written, flushed, acked, sent>>
        BY <1>12 DEF RecvData
    <2> QED
        BY <2>1
<1>13. CASE RecvAlert(e)
    <2>1. UNCHANGED <<out, written, flushed, acked, sent>>
        BY <1>13 DEF RecvAlert
    <2> QED
        BY <2>1
<1>14. CASE RecvPostHandshake(e)
    <2>1. UNCHANGED <<out, written, flushed, acked, sent>>
        BY <1>14 DEF RecvPostHandshake
    <2> QED
        BY <2>1
<1>15. CASE s2n_shutdown(e)
    <2>1. UNCHANGED <<out, written, flushed, acked, sent>>
        BY <1>15 DEF s2n_shutdown
    <2> QED
        BY <2>1
<1>16. CASE AwaitRecord(e)
    <2>1. UNCHANGED <<out, written, flushed, acked, sent>>
        BY <1>16 DEF AwaitRecord
    <2> QED
        BY <2>1
<1>17. CASE AwaitBlocked(e)
    <2>1. UNCHANGED <<out, written, flushed, acked, sent>>
        BY <1>17 DEF AwaitBlocked
    <2> QED
        BY <2>1
<1>18. CASE NstFails(e)
    <2>1. sent' = [sent EXCEPT ![e] = 0] /\ UNCHANGED <<out, written, flushed, acked>>
        BY <1>18 DEF NstFails, Return
    <2> QED
        BY <2>1
<1> QED
    BY <1>1, <1>2, <1>3, <1>4, <1>5, <1>6, <1>7, <1>8, <1>9, <1>10, <1>11, <1>12, <1>13,
       <1>14, <1>15, <1>16, <1>17, <1>18 DEF Step, s2n_flush, SendStep, s2n_recv

\* The invariant holds at first.
LEMMA InitWireInv == Init => WireInv
    BY InitIInv DEF Init, Zero, WireInv, OneCall, OutEmpty, OnTheWire, WireAt, OutLen, Idle,
                    Thread, Loop, Tickets

\* Every step keeps the invariant.
LEMMA NextWireInv == ~Duplex => (WireInv /\ [Next]_vars => WireInv')
<1> SUFFICES ASSUME ~Duplex, WireInv, [Next]_vars PROVE WireInv'
    OBVIOUS
<1>1. IInv'
    BY NextIInv DEF WireInv
<1>2. ASSUME NEW e \in Mode, Step(e) PROVE WireInv'
    BY <1>1, <1>2, StepOneCall, StepOutEmpty, StepOnTheWire DEF WireInv
<1>3. ASSUME UNCHANGED vars PROVE WireInv'
    BY <1>1, <1>3 DEF WireInv, OneCall, OutEmpty, OnTheWire, WireAt, OutLen, vars, sendVars
<1> QED
    BY <1>2, <1>3 DEF Next, Rest

(***************************************************************************)
(* Without threads, s2n_send reports bytes as sent only once the socket    *)
(* has them, whichever call's flush put them there.                        *)
(***************************************************************************)
THEOREM ReportedOnceOnTheWire == ~Duplex => (Spec => []ReportedIsOnTheWire)
<1> SUFFICES ASSUME ~Duplex PROVE Spec => []ReportedIsOnTheWire
    OBVIOUS
<1>1. WireInv => ReportedIsOnTheWire
    BY DEF WireInv, IInv, TypeOK, CountersOK, OnTheWire, WireAt, ReportedIsOnTheWire
<1> QED
    BY <1>1, InitWireInv, NextWireInv, PTL DEF Spec

----------------------------------------------------------------------------
(***************************************************************************)
(* More proofs about ConnectionIO: with one call at a time, the bytes that *)
(* s2n_recv returns are a prefix of those that the peer's s2n_send took,   *)
(* and every record meets the key it was sealed with.                      *)
(*                                                                         *)
(* Whatever the calls do, the records on their way from e are a queue: a   *)
(* step leaves it as it is, puts one record, sealed with the key in force  *)
(* and starting where the last ended, at its end, or takes the first one.  *)
(* Both invariants follow from that, and from what is known of an endpoint *)
(* that closes.                                                            *)
(***************************************************************************)

(***************************************************************************)
(* A queue of records.                                                     *)
(***************************************************************************)
IsData(rec) == rec.type = "DATA"

\* The key that seals the record after rec.
After(rec) == IF rec.type = "KEY_UPDATE" THEN NextGen(rec.key) ELSE NextSeq(rec.key)

\* From the key rkey, each record of q leads to the key of the next one, and
\* the last one to wkey.
KeyChain(q, rkey, wkey) ==
    /\ q = << >> => wkey = rkey
    /\ q # << >> => q[1].key = rkey /\ wkey = After(q[Len(q)])
    /\ \A i \in 1 .. Len(q) - 1 : q[i + 1].key = After(q[i])

\* What a record adds to the stream.
Bytes(rec) == IF IsData(rec) THEN rec.len ELSE 0

\* What a record is made of.
LEMMA RecordFields ==
    ASSUME NEW rec \in Record
    PROVE  rec.len \in Nat /\ rec.from \in Nat /\ rec.key \in Key
    BY DEF Record

\* What a queue is made of.
LEMMA RecordAt ==
    ASSUME NEW q \in Seq(Record), NEW i \in 1 .. Len(q)
    PROVE  q[i] \in Record
    OBVIOUS

\* A data record that starts where the stream ends extends it.
LEMMA ContiguousAppend ==
    ASSUME NEW q \in Seq(Record), NEW rec \in Record, NEW start \in Nat, NEW end \in Nat,
           Contiguous(q, start, end), IsData(rec) => rec.from = end
    PROVE  Contiguous(Append(q, rec), start, end + Bytes(rec))
<1> DEFINE s == Append(q, rec)
           Data(p) == {i \in 1 .. Len(p) : p[i].type = "DATA"}
<1>1. /\ Len(q) \in Nat /\ Len(s) = Len(q) + 1
      /\ \A i \in 1 .. Len(q) : s[i] = q[i]
      /\ s[Len(q) + 1] = rec
    BY AppendProperties, LenProperties
<1>2. rec.len \in Nat /\ rec.from \in Nat /\ \A i \in 1 .. Len(q) : q[i].len \in Nat /\ q[i].from \in Nat
    BY RecordAt, RecordFields
<1> HIDE DEF s
<1>3. CASE IsData(rec)
    <2>1. Data(s) = Data(q) \cup {Len(q) + 1}
        BY <1>1, <1>3 DEF IsData
    <2>2. \A i \in Data(q) : i \in 1 .. Len(q) /\ s[i] = q[i]
        BY <1>1
    <2>3. Bytes(rec) = rec.len /\ rec.from = end
        BY <1>3 DEF Bytes
    <2>4. /\ Data(q) = {} => start = end
          /\ \A i \in Data(q) : (\A j \in Data(q) : i <= j) => q[i].from = start
          /\ \A i \in Data(q) : (\A j \in Data(q) : j <= i) => q[i].from + q[i].len = end
          /\ \A i, k \in Data(q) :
                i < k /\ (\A j \in Data(q) : j <= i \/ k <= j) => q[k].from = q[i].from + q[i].len
        BY DEF Contiguous
    <2> HIDE DEF Data
    <2>5. \A i \in Data(s) : (\A j \in Data(s) : i <= j) => s[i].from = start
        BY <1>1, <2>1, <2>2, <2>3, <2>4
    <2>6. \A i \in Data(s) : (\A j \in Data(s) : j <= i) => s[i].from + s[i].len = end + rec.len
        BY <1>1, <1>2, <2>1, <2>2, <2>3
    <2>7. \A i, k \in Data(s) :
              i < k /\ (\A j \in Data(s) : j <= i \/ k <= j) => s[k].from = s[i].from + s[i].len
        <3> SUFFICES ASSUME NEW i \in Data(s), NEW k \in Data(s), i < k,
                            \A j \in Data(s) : j <= i \/ k <= j
                     PROVE  s[k].from = s[i].from + s[i].len
            OBVIOUS
        <3>1. i \in Data(q) /\ i \in 1 .. Len(q)
            BY <1>1, <2>1, <2>2
        <3>2. CASE k = Len(q) + 1
            <4>1. \A j \in Data(q) : j <= i
                BY <1>1, <2>1, <2>2, <3>2
            <4> QED
                BY <1>1, <2>2, <2>3, <2>4, <3>1, <3>2, <4>1
        <3>3. CASE k # Len(q) + 1
            <4>1. k \in Data(q) /\ \A j \in Data(q) : j <= i \/ k <= j
                BY <2>1, <3>3
            <4> QED
                BY <2>2, <2>4, <3>1, <4>1
        <3> QED
            BY <3>2, <3>3
    <2> QED
        BY <2>1, <2>3, <2>5, <2>6, <2>7 DEF Contiguous, Data, s
<1>4. CASE ~IsData(rec)
    <2>1. Data(s) = Data(q)
        BY <1>1, <1>4 DEF IsData
    <2>2. \A i \in Data(q) : i \in 1 .. Len(q) /\ s[i] = q[i]
        BY <1>1
    <2>3. end + Bytes(rec) = end
        BY <1>4 DEF Bytes
    <2>4. /\ Data(q) = {} => start = end
          /\ \A i \in Data(q) : (\A j \in Data(q) : i <= j) => q[i].from = start
          /\ \A i \in Data(q) : (\A j \in Data(q) : j <= i) => q[i].from + q[i].len = end
          /\ \A i, k \in Data(q) :
                i < k /\ (\A j \in Data(q) : j <= i \/ k <= j) => q[k].from = q[i].from + q[i].len
        BY DEF Contiguous
    <2> HIDE DEF Data
    <2>5. /\ Data(s) = {} => start = end
          /\ \A i \in Data(s) : (\A j \in Data(s) : i <= j) => s[i].from = start
          /\ \A i \in Data(s) : (\A j \in Data(s) : j <= i) => s[i].from + s[i].len = end
          /\ \A i, k \in Data(s) :
                i < k /\ (\A j \in Data(s) : j <= i \/ k <= j) => s[k].from = s[i].from + s[i].len
        BY <2>1, <2>2, <2>4
    <2> QED
        BY <2>3, <2>5 DEF Contiguous, Data, s
<1> QED
    BY <1>3, <1>4

\* Without its first record, the queue starts where that record ended.
LEMMA ContiguousTail ==
    ASSUME NEW q \in Seq(Record), q # << >>, NEW start \in Nat, NEW end \in Nat,
           Contiguous(q, start, end)
    PROVE  Contiguous(Tail(q), start + Bytes(Head(q)), end)
<1> DEFINE s == Tail(q)
           Data(p) == {i \in 1 .. Len(p) : p[i].type = "DATA"}
<1>1. /\ Len(q) \in Nat /\ Len(q) >= 1 /\ Len(s) = Len(q) - 1 /\ Head(q) = q[1]
      /\ \A i \in 1 .. Len(s) : s[i] = q[i + 1]
    BY HeadTailProperties, LenProperties
<1>2. \A i \in 1 .. Len(q) : q[i].len \in Nat /\ q[i].from \in Nat
    BY RecordAt, RecordFields
<1> HIDE DEF s
<1>3. \A i \in Data(s) : i \in Nat /\ i >= 1 /\ i + 1 \in Data(q) /\ s[i] = q[i + 1]
    BY <1>1
<1>4. \A i \in Data(q) : i \in Nat /\ (i = 1 \/ i - 1 \in Data(s))
    BY <1>1
<1>5. /\ Data(q) = {} => start = end
      /\ \A i \in Data(q) : (\A j \in Data(q) : i <= j) => q[i].from = start
      /\ \A i \in Data(q) : (\A j \in Data(q) : j <= i) => q[i].from + q[i].len = end
      /\ \A i, k \in Data(q) :
            i < k /\ (\A j \in Data(q) : j <= i \/ k <= j) => q[k].from = q[i].from + q[i].len
    BY DEF Contiguous
<1>6. 1 \in Data(q) <=> IsData(q[1])
    BY <1>1 DEF IsData
<1>7. start + Bytes(Head(q)) = IF 1 \in Data(q) THEN q[1].from + q[1].len ELSE start
    <2>1. CASE 1 \in Data(q)
        <3>1. \A j \in Data(q) : 1 <= j
            OBVIOUS
        <3>2. q[1].from = start
            BY <1>5, <2>1, <3>1
        <3> QED
            BY <1>1, <1>6, <2>1, <3>2 DEF Bytes
    <2>2. CASE 1 \notin Data(q)
        BY <1>1, <1>6, <2>2 DEF Bytes
    <2> QED
        BY <2>1, <2>2
<1> HIDE DEF Data
<1>8. Data(s) = {} => start + Bytes(Head(q)) = end
    <2> SUFFICES ASSUME Data(s) = {} PROVE start + Bytes(Head(q)) = end
        OBVIOUS
    <2>1. \A i \in Data(q) : i = 1
        BY <1>4
    <2>2. CASE 1 \in Data(q)
        BY <1>5, <1>7, <2>1, <2>2
    <2>3. CASE 1 \notin Data(q)
        BY <1>5, <1>7, <2>1, <2>3
    <2> QED
        BY <2>2, <2>3
<1>9. \A i \in Data(s) : (\A j \in Data(s) : i <= j) => s[i].from = start + Bytes(Head(q))
    <2> SUFFICES ASSUME NEW i \in Data(s), \A j \in Data(s) : i <= j
                 PROVE  s[i].from = start + Bytes(Head(q))
        OBVIOUS
    <2>1. i \in Nat /\ i >= 1 /\ i + 1 \in Data(q) /\ s[i] = q[i + 1]
        BY <1>3
    <2>2. \A j \in Data(q) : j = 1 \/ i + 1 <= j
        BY <1>4, <2>1
    <2>3. CASE 1 \in Data(q)
        <3>1. 1 < i + 1 /\ \A j \in Data(q) : j <= 1 \/ i + 1 <= j
            BY <1>4, <2>1, <2>2
        <3>2. q[i + 1].from = q[1].from + q[1].len
            BY <1>5, <2>1, <2>3, <3>1
        <3> QED
            BY <1>7, <2>1, <2>3, <3>2
    <2>4. CASE 1 \notin Data(q)
        <3>1. \A j \in Data(q) : i + 1 <= j
            BY <2>2, <2>4
        <3>2. q[i + 1].from = start
            BY <1>5, <2>1, <3>1
        <3> QED
            BY <1>7, <2>1, <2>4, <3>2
    <2> QED
        BY <2>3, <2>4
<1>10. \A i \in Data(s) : (\A j \in Data(s) : j <= i) => s[i].from + s[i].len = end
    <2> SUFFICES ASSUME NEW i \in Data(s), \A j \in Data(s) : j <= i
                 PROVE  s[i].from + s[i].len = end
        OBVIOUS
    <2>1. i \in Nat /\ i >= 1 /\ i + 1 \in Data(q) /\ s[i] = q[i + 1]
        BY <1>3
    <2>2. \A j \in Data(q) : j <= i + 1
        BY <1>4, <2>1
    <2> QED
        BY <1>5, <2>1, <2>2
<1>11. \A i, k \in Data(s) :
            i < k /\ (\A j \in Data(s) : j <= i \/ k <= j) => s[k].from = s[i].from + s[i].len
    <2> SUFFICES ASSUME NEW i \in Data(s), NEW k \in Data(s), i < k,
                        \A j \in Data(s) : j <= i \/ k <= j
                 PROVE  s[k].from = s[i].from + s[i].len
        OBVIOUS
    <2>1. /\ i \in Nat /\ i >= 1 /\ i + 1 \in Data(q) /\ s[i] = q[i + 1]
          /\ k \in Nat /\ k >= 1 /\ k + 1 \in Data(q) /\ s[k] = q[k + 1]
        BY <1>3
    <2>2. i + 1 < k + 1 /\ \A j \in Data(q) : j <= i + 1 \/ k + 1 <= j
        BY <1>4, <2>1
    <2> QED
        BY <1>5, <2>1, <2>2
<1> QED
    BY <1>8, <1>9, <1>10, <1>11 DEF Contiguous, Data, s

\* A record sealed with the key that the others lead to.
LEMMA KeyChainAppend ==
    ASSUME NEW q \in Seq(Record), NEW rec \in Record, NEW rkey, NEW wkey,
           KeyChain(q, rkey, wkey), rec.key = wkey
    PROVE  KeyChain(Append(q, rec), rkey, After(rec))
<1> DEFINE s == Append(q, rec)
<1>1. /\ Len(q) \in Nat /\ Len(s) = Len(q) + 1 /\ s # << >>
      /\ \A i \in 1 .. Len(q) : s[i] = q[i]
      /\ s[Len(q) + 1] = rec
    BY AppendProperties, LenProperties
<1> HIDE DEF s
<1>2. CASE q = << >>
    <2>1. Len(q) = 0
        BY <1>2
    <2> QED
        BY <1>1, <1>2, <2>1 DEF KeyChain, s
<1>3. CASE q # << >>
    <2>1. Len(q) >= 1
        BY <1>3, EmptySeq, LenProperties
    <2>2. /\ q[1].key = rkey /\ wkey = After(q[Len(q)])
          /\ \A i \in 1 .. Len(q) - 1 : q[i + 1].key = After(q[i])
        BY <1>3 DEF KeyChain
    <2>3. s[1].key = rkey
        BY <1>1, <2>1, <2>2
    <2>4. \A i \in 1 .. Len(s) - 1 : s[i + 1].key = After(s[i])
        <3> SUFFICES ASSUME NEW i \in 1 .. Len(q) PROVE s[i + 1].key = After(s[i])
            BY <1>1
        <3>1. CASE i = Len(q)
            BY <1>1, <2>1, <2>2, <3>1
        <3>2. CASE i # Len(q)
            <4>1. i \in 1 .. Len(q) - 1 /\ i + 1 \in 1 .. Len(q)
                BY <1>1, <3>2
            <4> QED
                BY <1>1, <2>2, <4>1
        <3> QED
            BY <3>1, <3>2
    <2> QED
        BY <1>1, <2>3, <2>4 DEF KeyChain, s
<1> QED
    BY <1>2, <1>3

\* Without its first record, the chain starts from the key that record leads to.
LEMMA KeyChainTail ==
    ASSUME NEW q \in Seq(Record), q # << >>, NEW rkey, NEW wkey, KeyChain(q, rkey, wkey)
    PROVE  Head(q).key = rkey /\ KeyChain(Tail(q), After(Head(q)), wkey)
<1> DEFINE s == Tail(q)
<1>1. /\ Len(q) \in Nat /\ Len(q) >= 1 /\ Len(s) = Len(q) - 1 /\ Head(q) = q[1]
      /\ \A i \in 1 .. Len(s) : s[i] = q[i + 1]
      /\ s \in Seq(Record)
    BY HeadTailProperties, LenProperties
<1> HIDE DEF s
<1>2. s = << >> <=> Len(q) = 1
    <2>1. s = << >> <=> Len(s) = 0
        BY <1>1
    <2> QED
        BY <1>1, <2>1
<1>3. /\ q[1].key = rkey /\ wkey = After(q[Len(q)])
      /\ \A i \in 1 .. Len(q) - 1 : q[i + 1].key = After(q[i])
    BY DEF KeyChain
<1>4. s = << >> => wkey = After(Head(q))
    BY <1>1, <1>2, <1>3
<1>5. s # << >> => s[1].key = After(Head(q)) /\ wkey = After(s[Len(s)])
    <2> SUFFICES ASSUME s # << >> PROVE s[1].key = After(Head(q)) /\ wkey = After(s[Len(s)])
        OBVIOUS
    <2>1. Len(q) >= 2
        BY <1>1, <1>2
    <2>2. s[1] = q[2] /\ q[1 + 1].key = After(q[1]) /\ s[Len(s)] = q[Len(q)]
        BY <1>1, <1>3, <2>1
    <2> QED
        BY <1>1, <1>3, <2>2
<1>6. \A i \in 1 .. Len(s) - 1 : s[i + 1].key = After(s[i])
    <2> SUFFICES ASSUME NEW i \in 1 .. Len(s) - 1 PROVE s[i + 1].key = After(s[i])
        OBVIOUS
    <2>1. i \in 1 .. Len(s) /\ i + 1 \in 1 .. Len(s) /\ i + 1 \in 1 .. Len(q) - 1
        BY <1>1
    <2> QED
        BY <1>1, <1>3, <2>1
<1> QED
    BY <1>1, <1>3, <1>4, <1>5, <1>6 DEF KeyChain, s

----------------------------------------------------------------------------
(***************************************************************************)
(* What a step does to the queue of records from e to its peer.            *)
(***************************************************************************)
Received(p) == delivered[p] + left[p]

\* A connection that is closed, or has failed, stays so.
Monotone(p) == (closed[p] => closed'[p]) /\ (failed[p] => failed'[p])

\* The queue is as it was; the reader may drop its plaintext when it closes.
Kept(e) ==
    /\ Queue(e)' = Queue(e)
    /\ written'[e] = written[e] /\ w'[e] = w[e] /\ r'[Peer(e)] = r[Peer(e)]
    /\ closed'[Peer(e)] \/ Received(Peer(e))' = Received(Peer(e))
    /\ Monotone(Peer(e))

\* One more record, sealed with the key in force; data starts where it ended.
Wrote(e) ==
    \E rec \in Record :
        /\ Queue(e)' = Append(Queue(e), rec)
        /\ rec.key = w[e] /\ w'[e] = After(rec)
        /\ IsData(rec) => rec.from = written[e]
        /\ written'[e] = written[e] + Bytes(rec)
        /\ r'[Peer(e)] = r[Peer(e)] /\ Received(Peer(e))' = Received(Peer(e))
        /\ Monotone(Peer(e))

\* The first record is gone: received, and opened, unless the reader gives up.
Took(e) ==
    /\ Queue(e) # << >> /\ Queue(e)' = Tail(Queue(e))
    /\ written'[e] = written[e] /\ w'[e] = w[e]
    /\ \/ closed'[Peer(e)]
       \/ Received(Peer(e))' = Received(Peer(e)) + Bytes(Head(Queue(e)))
    /\ failed'[Peer(e)] \/ r'[Peer(e)] = After(Head(Queue(e)))
    /\ Monotone(Peer(e))

Flow(e) == Kept(e) \/ Wrote(e) \/ Took(e)

StreamAt(e) ==
    ~closed[Peer(e)] => Contiguous(Queue(e), Received(Peer(e)), written[e])

KeysAt(e) == ~failed[Peer(e)] => KeyChain(Queue(e), r[Peer(e)], w[e])

\* e's peer is an endpoint, and e is its peer.
LEMMA PeerOfPeer ==
    ASSUME NEW e \in Mode
    PROVE  Peer(e) \in Mode /\ Peer(e) # e /\ Peer(Peer(e)) = e
    BY DEF Mode, Peer

\* The queue is a sequence of records.
LEMMA QueueType ==
    ASSUME BuffersOK, NEW e \in Mode
    PROVE  Queue(e) \in Seq(Record)
<1>1. chan[Peer(e)] \in Seq(Record) /\ out[e] \in Seq(Record)
    BY PeerOfPeer DEF BuffersOK
<1>2. CASE out[e] = << >>
    BY <1>1, <1>2 DEF Queue
<1>3. CASE out[e] # << >>
    <2>1. out[e][1] \in Record
        BY <1>1, <1>3, RecordParts
    <2> QED
        BY <1>1, <1>3, <2>1, AppendProperties DEF Queue
<1> QED
    BY <1>2, <1>3

\* Each of the three keeps the stream whole.
LEMMA FlowKeepsStream ==
    ASSUME TypeOK, NEW e \in Mode, StreamAt(e), Flow(e)
    PROVE  StreamAt(e)'
<1> DEFINE q == Queue(e)  start == Received(Peer(e))  end == written[e]
<1>1. q \in Seq(Record)
    BY QueueType DEF TypeOK
<1>2. start \in Nat /\ end \in Nat
    BY PeerOfPeer DEF TypeOK, CountersOK, Received
<1> SUFFICES ASSUME ~closed'[Peer(e)]
             PROVE  Contiguous(Queue(e)', Received(Peer(e))', written'[e])
    BY DEF StreamAt, Contiguous
<1> HIDE DEF q, start, end
<1>3. Monotone(Peer(e)) => Contiguous(q, start, end)
    BY DEF StreamAt, Monotone, q, start, end
<1>4. CASE Kept(e)
    BY <1>3, <1>4 DEF Kept, q, start, end
<1>5. CASE Wrote(e)
    <2>1. PICK rec \in Record :
             /\ Queue(e)' = Append(q, rec)
             /\ IsData(rec) => rec.from = end
             /\ written'[e] = end + Bytes(rec)
             /\ Received(Peer(e))' = start
             /\ Monotone(Peer(e))
        BY <1>5 DEF Wrote, q, start, end
    <2>2. Contiguous(Append(q, rec), start, end + Bytes(rec))
        BY <1>1, <1>2, <1>3, <2>1, ContiguousAppend
    <2> QED
        BY <2>1, <2>2
<1>6. CASE Took(e)
    <2>1. /\ q # << >> /\ Queue(e)' = Tail(q) /\ written'[e] = end
          /\ Received(Peer(e))' = start + Bytes(Head(q))
          /\ Monotone(Peer(e))
        BY <1>6 DEF Took, q, start, end
    <2>2. Contiguous(Tail(q), start + Bytes(Head(q)), end)
        BY <1>1, <1>2, <1>3, <2>1, ContiguousTail
    <2> QED
        BY <2>1, <2>2
<1> QED
    BY <1>4, <1>5, <1>6 DEF Flow

\* Each of the three keeps the keys in step.
LEMMA FlowKeepsKeys ==
    ASSUME TypeOK, NEW e \in Mode, KeysAt(e), Flow(e)
    PROVE  KeysAt(e)'
<1> DEFINE q == Queue(e)
<1>1. q \in Seq(Record)
    BY QueueType DEF TypeOK
<1> SUFFICES ASSUME ~failed'[Peer(e)]
             PROVE  KeyChain(Queue(e)', r'[Peer(e)], w'[e])
    BY DEF KeysAt, KeyChain, After, NextGen, NextSeq
<1> HIDE DEF q
<1>2. Monotone(Peer(e)) => KeyChain(q, r[Peer(e)], w[e])
    BY DEF KeysAt, Monotone, q
<1>3. CASE Kept(e)
    BY <1>2, <1>3 DEF Kept, q
<1>4. CASE Wrote(e)
    <2>1. PICK rec \in Record :
             /\ Queue(e)' = Append(q, rec) /\ rec.key = w[e] /\ w'[e] = After(rec)
             /\ r'[Peer(e)] = r[Peer(e)] /\ Monotone(Peer(e))
        BY <1>4 DEF Wrote, q
    <2>2. KeyChain(Append(q, rec), r[Peer(e)], After(rec))
        BY <1>1, <1>2, <2>1, KeyChainAppend
    <2> QED
        BY <2>1, <2>2
<1>5. CASE Took(e)
    <2>1. /\ q # << >> /\ Queue(e)' = Tail(q) /\ w'[e] = w[e]
          /\ r'[Peer(e)] = After(Head(q)) /\ Monotone(Peer(e))
        BY <1>5 DEF Took, q
    <2>2. KeyChain(Tail(q), After(Head(q)), w[e])
        BY <1>1, <1>2, <2>1, KeyChainTail
    <2> QED
        BY <2>1, <2>2
<1> QED
    BY <1>3, <1>4, <1>5 DEF Flow

----------------------------------------------------------------------------
(***************************************************************************)
(* An endpoint that closes: the close_notify is queued, then written, and  *)
(* from the flush that follows on the connection is closed.                *)
(***************************************************************************)
ClosingAt(e) ==
    /\ writer_alert_out[e] => close_notify_queued[e]
    /\ close_notify_queued[e] => writer_alert_out[e] \/ closing[e]
    /\ at[e]["SENDER"].caller = "SHUTDOWN" => close_notify_queued[e]
    /\ at[e]["SENDER"] = Await => closed[e]

Closing == \A e \in Mode : ClosingAt(e)

(***************************************************************************)
(* Every step keeps what is known of an endpoint that closes.              *)
(***************************************************************************)
LEMMA StepClosing ==
    ASSUME IInv, Closing, NEW e \in Mode, Step(e)
    PROVE  Closing'
<1> USE DEF IInv, TypeOK, FlagsOK, ThreadRoles, CanStart, Reading, Pc, Caller, AfterFlush,
            Idle, Loop, Tickets, Await, Flush, Goto, Return, InFlush, Thread, sendVars,
            recvVars, alertVars, Closing, ClosingAt
<1>1. ASSUME NEW t \in Thread, FlushWrite(e, t) PROVE Closing'
    BY <1>1 DEF FlushWrite
<1>2. ASSUME NEW t \in Thread, FlushBlocked(e, t) PROVE Closing'
    BY <1>2 DEF FlushBlocked
<1>3. ASSUME NEW t \in Thread, FlushDrained(e, t) PROVE Closing'
    BY <1>3 DEF FlushDrained
<1>4. ASSUME NEW t \in Thread, FlushAlert(e, t) PROVE Closing'
    BY <1>4 DEF FlushAlert
<1>5. ASSUME NEW t \in Thread, FlushReturn(e, t) PROVE Closing'
    BY <1>5 DEF FlushReturn
<1>6. ASSUME NEW n \in 0 .. StreamLen[e] - acked[e], s2n_send(e, n) PROVE Closing'
    BY <1>6 DEF s2n_send
<1>7. CASE SendReturn(e)
    BY <1>7 DEF SendReturn
<1>8. CASE s2n_key_update_send(e)
    <2>1. /\ \/ at' = [at EXCEPT ![e]["SENDER"] = Flush("KEY_UPDATE")]
             \/ at' = [at EXCEPT ![e]["SENDER"] = Tickets]
          /\ UNCHANGED <<writer_alert_out, close_notify_queued, closing, closed>>
        BY <1>8 DEF s2n_key_update_send
    <2>2. /\ at'[e]["SENDER"].caller # "SHUTDOWN" /\ at'[e]["SENDER"] # Await
          /\ \A f \in Mode \ {e} : at'[f] = at[f]
        BY <2>1
    <2> QED
        BY <2>1, <2>2
<1>9. CASE s2n_tls13_server_nst_send(e)
    BY <1>9 DEF s2n_tls13_server_nst_send
<1>10. CASE WriteData(e)
    BY <1>10 DEF WriteData
<1>11. CASE RecvLeft(e)
    BY <1>11 DEF RecvLeft
<1>12. CASE RecvData(e)
    BY <1>12 DEF RecvData
<1>13. CASE RecvAlert(e)
    <2>1. /\ \/ at' = [at EXCEPT ![e]["RECEIVER"] = Flush("RECV")]
             \/ at' = at
          /\ closed' = [closed EXCEPT ![e] = TRUE]
          /\ UNCHANGED <<writer_alert_out, close_notify_queued, closing>>
        BY <1>13 DEF RecvAlert
    <2> QED
        BY <2>1
<1>14. CASE RecvPostHandshake(e)
    BY <1>14 DEF RecvPostHandshake
<1>15. CASE s2n_shutdown(e)
    BY <1>15 DEF s2n_shutdown
<1>16. CASE AwaitRecord(e)
    BY <1>16 DEF AwaitRecord
<1>17. CASE AwaitBlocked(e)
    BY <1>17 DEF AwaitBlocked
<1>18. CASE NstFails(e)
    BY <1>18 DEF NstFails
<1> QED
    BY <1>1, <1>2, <1>3, <1>4, <1>5, <1>6, <1>7, <1>8, <1>9, <1>10, <1>11, <1>12, <1>13,
       <1>14, <1>15, <1>16, <1>17, <1>18 DEF Step, s2n_flush, SendStep, s2n_recv

----------------------------------------------------------------------------
(***************************************************************************)
(* What the actions do to the two buffers, in terms of the queue.          *)
(***************************************************************************)

\* Neither buffer changes.
LEMMA QueueUntouched ==
    ASSUME NEW e \in Mode, out'[e] = out[e], chan'[Peer(e)] = chan[Peer(e)]
    PROVE  Queue(e)' = Queue(e)
    BY DEF Queue, Peer

\* s2n_record_write into an empty conn->out.
LEMMA QueueWritten ==
    ASSUME NEW e \in Mode, NEW rec, out[e] = << >>, out'[e] = <<rec>>,
           chan'[Peer(e)] = chan[Peer(e)]
    PROVE  Queue(e)' = Append(Queue(e), rec)
<1>1. out'[e] # << >> /\ out'[e][1] = rec
    OBVIOUS
<1> QED
    BY <1>1 DEF Queue, Peer

\* s2n_flush moves the record from one buffer to the other.
LEMMA QueueMoved ==
    ASSUME NEW e \in Mode, out[e] # << >>, out'[e] = << >>,
           chan'[Peer(e)] = Append(chan[Peer(e)], out[e][1])
    PROVE  Queue(e)' = Queue(e)
    BY DEF Queue, Peer

\* The peer reads a record.
LEMMA QueueTaken ==
    ASSUME BuffersOK, NEW e \in Mode, out'[e] = out[e], chan[Peer(e)] # << >>,
           chan'[Peer(e)] = Tail(chan[Peer(e)])
    PROVE  /\ Queue(e) # << >> /\ Queue(e)' = Tail(Queue(e))
           /\ Head(Queue(e)) = Head(chan[Peer(e)])
<1>1. chan[Peer(e)] \in Seq(Record)
    BY PeerOfPeer DEF BuffersOK
<1>2. CASE out[e] = << >>
    BY <1>2 DEF Queue, Peer
<1>3. CASE out[e] # << >>
    <2>1. out[e][1] \in Record
        BY <1>3, RecordParts DEF BuffersOK
    <2>2. /\ Queue(e) = Append(chan[Peer(e)], out[e][1])
          /\ Queue(e)' = Append(Tail(chan[Peer(e)]), out[e][1])
        BY <1>3 DEF Queue, Peer
    <2>3. Append(chan[Peer(e)], out[e][1]) # << >>
        BY <1>1, <2>1, AppendProperties
    <2> QED
        BY <1>1, <2>2, <2>3, HeadTailAppend
<1> QED
    BY <1>2, <1>3

SameWriter(e) == out'[e] = out[e] /\ written'[e] = written[e] /\ w'[e] = w[e]

SameReader(p) ==
    /\ chan'[p] = chan[p] /\ r'[p] = r[p] /\ left'[p] = left[p]
    /\ delivered'[p] = delivered[p] /\ closed'[p] = closed[p] /\ failed'[p] = failed[p]

\* Nothing happens at either end of the queue.
LEMMA KeptBySame ==
    ASSUME NEW e \in Mode, SameWriter(e), SameReader(Peer(e))
    PROVE  Kept(e)
<1>1. Queue(e)' = Queue(e)
    BY QueueUntouched DEF SameWriter, SameReader
<1>2. Received(Peer(e))' = Received(Peer(e))
    BY DEF Received, SameReader, Peer
<1> QED
    BY <1>1, <1>2 DEF Kept, Monotone, SameWriter, SameReader

(***************************************************************************)
(* Every step of e leaves the two queues as Flow says: s2n_record_write    *)
(* only ever finds conn->out empty, and s2n_flush loses nothing.           *)
(***************************************************************************)
LEMMA StepFlow ==
    ASSUME WireInv, Closing, ~Duplex, NEW e \in Mode, Step(e)
    PROVE  Flow(e) /\ Flow(Peer(e))
<1> DEFINE p == Peer(e)
<1>a. p \in Mode /\ p # e /\ Peer(p) = e
    BY PeerOfPeer
<1>b. TypeOK /\ BuffersOK /\ CountersOK /\ FlagsOK
    BY DEF WireInv, IInv, TypeOK
<1>c. ASSUME SameWriter(e), SameReader(e), SameWriter(p), SameReader(p)
      PROVE  Flow(e) /\ Flow(p)
    BY <1>a, <1>c, KeptBySame DEF Flow
<1>d. ASSUME NEW type \in RecordType, NEW from \in Nat, NEW len \in Nat,
             out[e] = << >>, out'[e] = <<Sealed(e, type, from, len)>>,
             w'[e] = After(Sealed(e, type, from, len)),
             type = "DATA" => from = written[e],
             written'[e] = written[e] + (IF type = "DATA" THEN len ELSE 0),
             SameReader(p)
      PROVE  Flow(e)
    <2> DEFINE rec == Sealed(e, type, from, len)
    <2>1. rec \in Record
        BY <1>b, SealedIsRecord
    <2>2. Queue(e)' = Append(Queue(e), rec)
        BY <1>d, QueueWritten DEF SameReader
    <2>3. rec.key = w[e] /\ rec.type = type /\ rec.from = from /\ rec.len = len
        BY DEF Sealed
    <2>4. Received(p)' = Received(p) /\ r'[p] = r[p] /\ Monotone(p)
        BY <1>d DEF Received, SameReader, Monotone, Peer
    <2> HIDE DEF rec
    <2> QED
        BY <1>d, <2>1, <2>2, <2>3, <2>4 DEF Flow, Wrote, IsData, Bytes, rec
<1>e. ASSUME chan[e] # << >>, chan'[e] = Tail(chan[e]), SameWriter(p),
             \/ closed'[e]
             \/ delivered'[e] + left'[e] = delivered[e] + left[e] + Bytes(Head(chan[e])),
             failed'[e] \/ r'[e] = After(Head(chan[e])),
             Monotone(e)
      PROVE  Flow(p)
    <2>1. Queue(p) # << >> /\ Queue(p)' = Tail(Queue(p)) /\ Head(Queue(p)) = Head(chan[e])
        BY <1>a, <1>b, <1>e, QueueTaken DEF SameWriter
    <2>2. Received(e)' = delivered'[e] + left'[e] /\ Received(e) = delivered[e] + left[e]
        BY DEF Received
    <2> QED
        BY <1>a, <1>e, <2>1, <2>2 DEF Flow, Took, SameWriter
<1>f. ASSUME SameWriter(p), chan'[e] = chan[e], r'[e] = r[e],
             closed'[e] \/ delivered'[e] + left'[e] = delivered[e] + left[e], Monotone(e)
      PROVE  Flow(p)
    <2>1. Queue(p)' = Queue(p)
        BY <1>a, <1>f, QueueUntouched DEF SameWriter
    <2>2. Received(e)' = delivered'[e] + left'[e] /\ Received(e) = delivered[e] + left[e]
        BY DEF Received
    <2> QED
        BY <1>a, <1>f, <2>1, <2>2 DEF Flow, Kept, SameWriter
<1>g. ASSUME SameWriter(e), SameReader(p) PROVE Flow(e)
    BY <1>g, KeptBySame DEF Flow
<1> SUFFICES Flow(e) /\ Flow(p)
    OBVIOUS
<1> HIDE DEF p
<1> USE DEF sendVars, recvVars, alertVars
<1>1. ASSUME NEW t \in Thread, FlushWrite(e, t) PROVE Flow(e) /\ Flow(p)
    <2>1. /\ out[e] # << >>
          /\ chan' = [chan EXCEPT ![p] = Append(chan[p], out[e][1])]
          /\ out' = [out EXCEPT ![e] = << >>]
          /\ UNCHANGED <<written, w, r, left, delivered, closed, failed>>
        BY <1>1 DEF FlushWrite, p
    <2>2. /\ out'[e] = << >> /\ chan'[p] = Append(chan[p], out[e][1])
          /\ chan'[e] = chan[e] /\ out'[p] = out[p]
        BY <1>a, <1>b, <2>1 DEF BuffersOK
    <2>3. Queue(e)' = Queue(e)
        BY <2>1, <2>2, QueueMoved DEF p
    <2>4. Received(p)' = Received(p)
        BY <2>1 DEF Received, p, Peer
    <2>5. Kept(e)
        BY <2>1, <2>3, <2>4 DEF Kept, Monotone, p
    <2> QED
        BY <1>f, <2>1, <2>2, <2>5 DEF Flow, SameWriter, Monotone
<1>2. ASSUME NEW t \in Thread, FlushBlocked(e, t) PROVE Flow(e) /\ Flow(p)
    <2>1. UNCHANGED <<out, chan, written, w, r, left, delivered, closed, failed>>
        BY <1>2 DEF FlushBlocked
    <2> QED
        BY <1>c, <2>1 DEF SameWriter, SameReader
<1>3. ASSUME NEW t \in Thread, FlushDrained(e, t) PROVE Flow(e) /\ Flow(p)
    <2>1. UNCHANGED <<out, chan, written, w, r, left, delivered, closed, failed>>
        BY <1>3 DEF FlushDrained
    <2> QED
        BY <1>c, <2>1 DEF SameWriter, SameReader
<1>4. ASSUME NEW t \in Thread, FlushAlert(e, t) PROVE Flow(e) /\ Flow(p)
    <2>1. out[e] = << >>
        BY <1>4 DEF FlushAlert, InFlush, OutEmpty, WireInv
    <2>2. PICK type \in {"FATAL", "CLOSE_NOTIFY"} : s2n_record_write(e, type)
        BY <1>4 DEF FlushAlert
    <2>3. /\ out' = [out EXCEPT ![e] = <<Sealed(e, type, 0, 0)>>]
          /\ w' = [w EXCEPT ![e] = NextSeq(w[e])]
          /\ closed' = [closed EXCEPT ![e] = closed[e] \/ closing[e]]
          /\ UNCHANGED <<chan, written, r, left, delivered, failed>>
        BY <1>4, <2>2 DEF FlushAlert, s2n_record_write
    <2>4. /\ out'[e] = <<Sealed(e, type, 0, 0)>> /\ out'[p] = out[p]
          /\ w'[e] = NextSeq(w[e]) /\ w'[p] = w[p]
        BY <1>a, <1>b, <2>3 DEF BuffersOK
    <2>5. closed'[p] = closed[p] /\ (closed[e] => closed'[e])
        BY <1>a, <1>b, <2>3 DEF FlagsOK
    <2>6. w'[e] = After(Sealed(e, type, 0, 0))
        BY <2>4 DEF After, Sealed
    <2>7. Flow(e)
        <3>1. type \in RecordType /\ type # "DATA" /\ SameReader(p)
            BY <2>3, <2>5 DEF RecordType, SameReader
        <3>2. written'[e] = written[e] + 0
            BY <1>b, <2>3 DEF CountersOK
        <3> QED
            BY <1>d, <2>1, <2>4, <2>6, <3>1, <3>2
    <2> QED
        BY <1>f, <2>3, <2>4, <2>5, <2>7 DEF SameWriter, Monotone
<1>5. ASSUME NEW t \in Thread, FlushReturn(e, t) PROVE Flow(e) /\ Flow(p)
    <2>1. out[e] = << >>
        BY <1>5 DEF FlushReturn, InFlush, OutEmpty, WireInv
    <2>2. /\ out' = [out EXCEPT ![e] = << >>]
          /\ closed' = [closed EXCEPT ![e] = closed[e] \/ closing[e]]
          /\ left' = [left EXCEPT ![e] = IF at[e][t].caller = "SHUTDOWN" THEN 0 ELSE left[e]]
          /\ UNCHANGED <<chan, written, w, r, delivered, failed>>
        BY <1>5 DEF FlushReturn
    <2>3. /\ out'[e] = out[e] /\ out'[p] = out[p] /\ left'[p] = left[p]
          /\ closed'[p] = closed[p] /\ (closed[e] => closed'[e])
        BY <1>a, <1>b, <2>1, <2>2 DEF BuffersOK, CountersOK, FlagsOK
    <2>4. closed'[e] \/ left'[e] = left[e]
        <3>1. CASE at[e][t].caller = "SHUTDOWN"
            <4>1. t = "SENDER"
                BY <3>1 DEF Thread, ThreadRoles, Idle, WireInv, IInv
            <4>2. closing[e]
                BY <1>5, <3>1, <4>1 DEF FlushReturn, Closing, ClosingAt
            <4> QED
                BY <1>b, <2>2, <4>2 DEF FlagsOK
        <3>2. CASE at[e][t].caller # "SHUTDOWN"
            BY <1>b, <2>2, <3>2 DEF CountersOK
        <3> QED
            BY <3>1, <3>2
    <2>5. Flow(e)
        BY <1>a, <1>g, <2>2, <2>3 DEF SameWriter, SameReader
    <2> QED
        BY <1>f, <2>2, <2>3, <2>4, <2>5 DEF SameWriter, Monotone
<1>6. ASSUME NEW n \in 0 .. StreamLen[e] - acked[e], s2n_send(e, n) PROVE Flow(e) /\ Flow(p)
    <2>1. UNCHANGED <<out, chan, written, w, r, left, delivered, closed, failed>>
        BY <1>6 DEF s2n_send
    <2> QED
        BY <1>c, <2>1 DEF SameWriter, SameReader
<1>7. CASE SendReturn(e)
    <2>1. UNCHANGED <<out, chan, written, w, r, left, delivered, closed, failed>>
        BY <1>7 DEF SendReturn
    <2> QED
        BY <1>c, <2>1 DEF SameWriter, SameReader
<1>8. CASE s2n_key_update_send(e)
    <2>1. out[e] = << >> /\ UNCHANGED <<chan, written, r, left, delivered, closed, failed>>
        BY <1>8 DEF s2n_key_update_send, OutEmpty, WireInv
    <2>2. CASE s2n_check_record_limit(e)
        <3>1. /\ out' = [out EXCEPT ![e] = <<Sealed(e, "KEY_UPDATE", 0, 0)>>]
              /\ w' = [w EXCEPT ![e] = NextGen(w[e])]
            BY <1>8, <2>2 DEF s2n_key_update_send
        <3>2. /\ out'[e] = <<Sealed(e, "KEY_UPDATE", 0, 0)>> /\ out'[p] = out[p]
              /\ w'[e] = NextGen(w[e]) /\ w'[p] = w[p]
            BY <1>a, <1>b, <3>1 DEF BuffersOK
        <3>3. w'[e] = After(Sealed(e, "KEY_UPDATE", 0, 0))
            BY <3>2 DEF After, Sealed
        <3>4. Flow(e)
            <4>1. "KEY_UPDATE" \in RecordType /\ SameReader(p)
                BY <2>1 DEF RecordType, SameReader
            <4>2. written'[e] = written[e] + 0
                BY <1>b, <2>1 DEF CountersOK
            <4> QED
                BY <1>d, <2>1, <3>2, <3>3, <4>1, <4>2
        <3> QED
            BY <1>f, <2>1, <3>2, <3>4 DEF SameWriter, Monotone
    <2>3. CASE ~s2n_check_record_limit(e)
        <3>1. out' = [out EXCEPT ![e] = << >>] /\ w' = w
            BY <1>8, <2>3 DEF s2n_key_update_send
        <3>2. out' = out
            BY <1>b, <2>1, <3>1 DEF BuffersOK
        <3> QED
            BY <1>c, <2>1, <3>1, <3>2 DEF SameWriter, SameReader
    <2> QED
        BY <2>2, <2>3
<1>9. CASE s2n_tls13_server_nst_send(e)
    <2>1. /\ out[e] = << >>
          /\ out' = [out EXCEPT ![e] = <<Sealed(e, "TICKET", 0, 0)>>]
          /\ w' = [w EXCEPT ![e] = NextSeq(w[e])]
          /\ UNCHANGED <<chan, written, r, left, delivered, closed, failed>>
        BY <1>9 DEF s2n_tls13_server_nst_send, s2n_record_write
    <2>2. /\ out'[e] = <<Sealed(e, "TICKET", 0, 0)>> /\ out'[p] = out[p]
          /\ w'[e] = NextSeq(w[e]) /\ w'[p] = w[p]
        BY <1>a, <1>b, <2>1 DEF BuffersOK
    <2>3. w'[e] = After(Sealed(e, "TICKET", 0, 0))
        BY <2>2 DEF After, Sealed
    <2>4. Flow(e)
        <3>1. "TICKET" \in RecordType /\ SameReader(p)
            BY <2>1 DEF RecordType, SameReader
        <3>2. written'[e] = written[e] + 0
            BY <1>b, <2>1 DEF CountersOK
        <3> QED
            BY <1>d, <2>1, <2>2, <2>3, <3>1, <3>2
    <2> QED
        BY <1>f, <2>1, <2>2, <2>4 DEF SameWriter, Monotone
<1>10. CASE WriteData(e)
    <2> DEFINE rest == total[e] - consumed[e]
               to_write(limit) == IF rest < limit THEN rest ELSE limit
               from == acked[e] + consumed[e]
    <2>1. /\ out[e] = << >>
          /\ w' = [w EXCEPT ![e] = NextSeq(w[e])]
          /\ UNCHANGED <<chan, r, left, delivered, closed, failed>>
        BY <1>10 DEF WriteData
    <2>2. PICK limit \in PayloadSizes :
             /\ out' = [out EXCEPT ![e] = <<Sealed(e, "DATA", from, to_write(limit))>>]
             /\ written' = [written EXCEPT ![e] = written[e] + to_write(limit)]
        BY <1>10 DEF WriteData
    <2>3. consumed[e] < total[e]
        BY <1>10 DEF WriteData, HasRest, SendLocals, IInv, WireInv
    <2>4. to_write(limit) \in Nat
        BY <1>b, <2>3, IOAssumption DEF CountersOK
    <2>5. from \in Nat /\ from = written[e]
        BY <1>b DEF CountersOK, NothingSkippedOrRepeated, IInv, WireInv
    <2> HIDE DEF to_write, from
    <2>6. /\ out'[e] = <<Sealed(e, "DATA", from, to_write(limit))>> /\ out'[p] = out[p]
          /\ w'[e] = NextSeq(w[e]) /\ w'[p] = w[p]
        BY <1>a, <1>b, <2>1, <2>2 DEF BuffersOK
    <2>7. written'[e] = written[e] + to_write(limit) /\ written'[p] = written[p]
        BY <1>a, <1>b, <2>2 DEF CountersOK
    <2>8. w'[e] = After(Sealed(e, "DATA", from, to_write(limit)))
        BY <2>6 DEF After, Sealed
    <2>9. SameReader(p)
        BY <2>1 DEF SameReader
    <2>10. Flow(e)
        BY <1>d, <2>1, <2>4, <2>5, <2>6, <2>7, <2>8, <2>9 DEF RecordType
    <2> QED
        BY <1>f, <2>1, <2>6, <2>7, <2>10 DEF SameWriter, Monotone
<1>11. CASE RecvLeft(e)
    <2>1. PICK n \in 1 .. left[e] :
             /\ left' = [left EXCEPT ![e] = left[e] - n]
             /\ delivered' = [delivered EXCEPT ![e] = delivered[e] + n]
        BY <1>11 DEF RecvLeft
    <2>2. UNCHANGED <<out, chan, written, w, r, closed, failed>>
        BY <1>11 DEF RecvLeft
    <2>3. /\ left'[e] = left[e] - n /\ delivered'[e] = delivered[e] + n
          /\ left'[p] = left[p] /\ delivered'[p] = delivered[p]
        BY <1>a, <1>b, <2>1 DEF CountersOK
    <2>4. delivered'[e] + left'[e] = delivered[e] + left[e]
        BY <1>b, <2>3 DEF CountersOK
    <2>5. Flow(e)
        BY <1>g, <2>2, <2>3 DEF SameWriter, SameReader, p
    <2> QED
        BY <1>f, <2>2, <2>4, <2>5 DEF SameWriter, Monotone
<1>12. CASE RecvData(e)
    <2> DEFINE rec == Head(chan[e])
    <2>1. /\ chan[e] # << >> /\ left[e] = 0 /\ rec.type = "DATA" /\ rec.key = r[e]
          /\ chan' = [chan EXCEPT ![e] = Tail(chan[e])]
          /\ r' = [r EXCEPT ![e] = NextSeq(r[e])]
          /\ UNCHANGED <<out, written, w, closed, failed>>
        BY <1>12 DEF RecvData, Reading, Opened, TakeRecord
    <2>2. PICK n \in 1 .. rec.len :
             /\ left' = [left EXCEPT ![e] = rec.len - n]
             /\ delivered' = [delivered EXCEPT ![e] = delivered[e] + n]
        BY <1>12 DEF RecvData
    <2>3. rec \in Record /\ rec.len \in Nat
        BY <1>b, <2>1, RecordParts DEF BuffersOK
    <2> HIDE DEF rec
    <2>4. /\ left'[e] = rec.len - n /\ delivered'[e] = delivered[e] + n
          /\ left'[p] = left[p] /\ delivered'[p] = delivered[p]
        BY <1>a, <1>b, <2>2 DEF CountersOK
    <2>5. /\ chan'[e] = Tail(chan[e]) /\ chan'[p] = chan[p]
          /\ r'[e] = NextSeq(r[e]) /\ r'[p] = r[p]
        BY <1>a, <1>b, <2>1 DEF BuffersOK
    <2>6. delivered'[e] + left'[e] = delivered[e] + left[e] + Bytes(rec)
        <3>1. Bytes(rec) = rec.len
            BY <2>1 DEF Bytes, IsData, rec
        <3> QED
            BY <1>b, <2>1, <2>3, <2>4, <3>1 DEF CountersOK
    <2>7. r'[e] = After(rec)
        BY <2>1, <2>5 DEF After
    <2>8. Flow(e)
        BY <1>g, <2>1, <2>4, <2>5 DEF SameWriter, SameReader, p
    <2> QED
        BY <1>e, <2>1, <2>5, <2>6, <2>7, <2>8 DEF SameWriter, Monotone, rec
<1>13. CASE RecvAlert(e)
    <2>1. /\ chan[e] # << >>
          /\ chan' = [chan EXCEPT ![e] = Tail(chan[e])]
          /\ r' = [r EXCEPT ![e] = IF Opened(e) THEN NextSeq(r[e]) ELSE r[e]]
          /\ closed' = [closed EXCEPT ![e] = TRUE]
          /\ UNCHANGED <<out, written, w, left, delivered>>
          /\ \/ Opened(e) /\ Head(chan[e]).type = "CLOSE_NOTIFY" /\ failed' = failed
             \/ failed' = [failed EXCEPT ![e] = TRUE]
        BY <1>13 DEF RecvAlert, Reading, TakeRecord
    <2>2. /\ chan'[e] = Tail(chan[e]) /\ chan'[p] = chan[p] /\ r'[p] = r[p]
          /\ (Opened(e) => r'[e] = NextSeq(r[e]))
        BY <1>a, <1>b, <2>1 DEF BuffersOK
    <2>3. /\ closed'[e] /\ closed'[p] = closed[p] /\ failed'[p] = failed[p]
          /\ failed[e] => failed'[e]
        BY <1>a, <1>b, <2>1 DEF FlagsOK
    <2>4. failed'[e] \/ r'[e] = After(Head(chan[e]))
        <3>1. CASE failed' = [failed EXCEPT ![e] = TRUE]
            BY <1>b, <3>1 DEF FlagsOK
        <3>2. CASE Opened(e) /\ Head(chan[e]).type = "CLOSE_NOTIFY"
            BY <2>2, <3>2 DEF After, Opened
        <3> QED
            BY <2>1, <3>1, <3>2
    <2>5. Flow(e)
        BY <1>g, <2>1, <2>2, <2>3 DEF SameWriter, SameReader, p
    <2> QED
        BY <1>e, <2>1, <2>2, <2>3, <2>4, <2>5 DEF SameWriter, Monotone
<1>14. CASE RecvPostHandshake(e)
    <2> DEFINE rec == Head(chan[e])
    <2>1. /\ chan[e] # << >> /\ rec.type \in {"KEY_UPDATE", "TICKET"} /\ rec.key = r[e]
          /\ chan' = [chan EXCEPT ![e] = Tail(chan[e])]
          /\ r' = [r EXCEPT ![e] = IF rec.type = "KEY_UPDATE" THEN NextGen(r[e]) ELSE NextSeq(r[e])]
          /\ UNCHANGED <<out, written, w, left, delivered, closed, failed>>
        BY <1>14 DEF RecvPostHandshake, Reading, Opened, TakeRecord
    <2>2. /\ chan'[e] = Tail(chan[e]) /\ chan'[p] = chan[p] /\ r'[p] = r[p]
          /\ r'[e] = After(rec)
        BY <1>a, <1>b, <2>1 DEF BuffersOK, After
    <2>3. delivered'[e] + left'[e] = delivered[e] + left[e] + Bytes(rec)
        BY <1>b, <2>1 DEF CountersOK, Bytes, IsData
    <2>4. Flow(e)
        BY <1>g, <2>1, <2>2 DEF SameWriter, SameReader, p
    <2> QED
        BY <1>e, <2>1, <2>2, <2>3, <2>4 DEF SameWriter, Monotone
<1>15. CASE s2n_shutdown(e)
    <2>1. UNCHANGED <<out, chan, written, w, r, left, delivered, closed, failed>>
        BY <1>15 DEF s2n_shutdown
    <2> QED
        BY <1>c, <2>1 DEF SameWriter, SameReader
<1>16. CASE AwaitRecord(e)
    <2> DEFINE rec == Head(chan[e])
               done == Opened(e) /\ rec.type = "CLOSE_NOTIFY"
    <2>1. /\ chan[e] # << >> /\ at[e]["SENDER"] = Await
          /\ chan' = [chan EXCEPT ![e] = Tail(chan[e])]
          /\ r' = [r EXCEPT ![e] = IF Opened(e) THEN NextSeq(r[e]) ELSE r[e]]
          /\ UNCHANGED <<out, written, w, left, delivered>>
        BY <1>16 DEF AwaitRecord, TakeRecord
    <2>2. /\ \E b \in BOOLEAN : closed' = [closed EXCEPT ![e] = closed[e] \/ b]
          /\ failed' = [failed EXCEPT ![e] = failed[e] \/ ~done]
        BY <1>16 DEF AwaitRecord
    <2>3. closed[e]
        BY <2>1 DEF Closing, ClosingAt
    <2>4. /\ chan'[e] = Tail(chan[e]) /\ chan'[p] = chan[p] /\ r'[p] = r[p]
          /\ (Opened(e) => r'[e] = NextSeq(r[e]))
        BY <1>a, <1>b, <2>1 DEF BuffersOK
    <2>5. /\ closed'[e] /\ closed'[p] = closed[p] /\ failed'[p] = failed[p]
          /\ (failed[e] => failed'[e]) /\ (failed'[e] \/ done)
        BY <1>a, <1>b, <2>2, <2>3 DEF FlagsOK
    <2>6. failed'[e] \/ r'[e] = After(rec)
        BY <2>4, <2>5 DEF After, Opened
    <2>7. Flow(e)
        BY <1>g, <2>1, <2>4, <2>5 DEF SameWriter, SameReader, p
    <2> QED
        BY <1>e, <2>1, <2>4, <2>5, <2>6, <2>7 DEF SameWriter, Monotone
<1>17. CASE AwaitBlocked(e)
    <2>1. UNCHANGED <<out, chan, written, w, r, left, delivered, closed, failed>>
        BY <1>17 DEF AwaitBlocked
    <2> QED
        BY <1>c, <2>1 DEF SameWriter, SameReader
<1>18. CASE NstFails(e)
    <2>1. UNCHANGED <<out, chan, written, w, r, left, delivered, closed, failed>>
        BY <1>18 DEF NstFails
    <2> QED
        BY <1>c, <2>1 DEF SameWriter, SameReader
<1> QED
    BY <1>1, <1>2, <1>3, <1>4, <1>5, <1>6, <1>7, <1>8, <1>9, <1>10, <1>11, <1>12, <1>13,
       <1>14, <1>15, <1>16, <1>17, <1>18 DEF Step, s2n_flush, SendStep, s2n_recv

----------------------------------------------------------------------------
(***************************************************************************)
(* How many records a key seals.  s2n_check_record_limit is asked before a *)
(* data record only; what may come on top of it is one record per ticket   *)
(* and one close_notify.  A connection that starts with the reader's alert *)
(* is closed, and seals that alert and a close_notify.                     *)
(***************************************************************************)
CloseNotifySent(e) == IF close_notify_queued[e] /\ ~writer_alert_out[e] THEN 1 ELSE 0

Limit(e) == encryption_limit + tickets_sent[e] + CloseNotifySent(e)

Sending(e) ==
    /\ ~reader_alert_out[e]
    /\ w[e].seq <= Limit(e)
    /\ HasRest(at[e]["SENDER"]) => w[e].seq < Limit(e)

OnlyAlerts(e) ==
    /\ closed[e]
    /\ at[e]["SENDER"] \in {Idle, Await} \/ at[e]["SENDER"].caller = "SHUTDOWN"
    /\ w[e].seq <= CloseNotifySent(e) + (IF reader_alert_out[e] THEN 0 ELSE 1)

Sealing == tickets_sent["C"] = 0 /\ \A e \in Mode : Sending(e) \/ OnlyAlerts(e)

SameSealing(e) ==
    /\ w'[e] = w[e] /\ tickets_sent'[e] = tickets_sent[e]
    /\ reader_alert_out'[e] = reader_alert_out[e]
    /\ CloseNotifySent(e)' = CloseNotifySent(e)
    /\ closed[e] => closed'[e]

\* Nothing is sealed, and no data record comes nearer.
LEMMA SealingKept ==
    ASSUME NEW e \in Mode, SameSealing(e), Sending(e) \/ OnlyAlerts(e),
           HasRest(at'[e]["SENDER"]) => HasRest(at[e]["SENDER"]),
           OnlyAlerts(e) => \/ at'[e]["SENDER"] \in {Idle, Await}
                            \/ at'[e]["SENDER"].caller = "SHUTDOWN"
    PROVE  (Sending(e) \/ OnlyAlerts(e))'
<1>1. Limit(e)' = Limit(e)
    BY DEF SameSealing, Limit
<1> QED
    BY <1>1 DEF SameSealing, Sending, OnlyAlerts

(***************************************************************************)
(* Every step keeps the number of records under a key within bounds.       *)
(***************************************************************************)
LEMMA StepSealing ==
    ASSUME IInv, Closing, Sealing, NEW e \in Mode, Step(e)
    PROVE  Sealing'
<1> DEFINE Bounded(f) == Sending(f) \/ OnlyAlerts(f)
<1>a. TypeOK /\ BuffersOK /\ CountersOK /\ FlagsOK /\ ThreadRoles
    BY DEF IInv, TypeOK
<1>b. Bounded(e) /\ tickets_sent["C"] = 0 /\ "C" \in Mode
    BY DEF Sealing, Mode
<1>c. /\ w[e].seq \in Nat /\ w[e] \in Key /\ tickets_sent[e] \in Nat
      /\ encryption_limit \in Nat /\ encryption_limit >= 1
    <2>1. w[e] \in Key /\ tickets_sent[e] \in 0 .. tickets_to_send
        BY <1>a DEF BuffersOK, CountersOK
    <2> QED
        BY <2>1, IOAssumption DEF Key
<1> DEFINE Same(f) == SameSealing(f) /\ at'[f] = at[f]
<1>d. \A f \in Mode \ {e} : Same(f)
    <2> USE <1>a DEF FlagsOK, TypeOK, BuffersOK, CountersOK, Goto, Return, SameSealing,
                     CloseNotifySent, sendVars, recvVars, alertVars, s2n_record_write
    <2>1. ASSUME NEW t \in Thread, FlushWrite(e, t) PROVE \A f \in Mode \ {e} : Same(f)
        BY <2>1 DEF FlushWrite
    <2>2. ASSUME NEW t \in Thread, FlushBlocked(e, t) PROVE \A f \in Mode \ {e} : Same(f)
        BY <2>2 DEF FlushBlocked
    <2>3. ASSUME NEW t \in Thread, FlushDrained(e, t) PROVE \A f \in Mode \ {e} : Same(f)
        BY <2>3 DEF FlushDrained
    <2>4. ASSUME NEW t \in Thread, FlushAlert(e, t) PROVE \A f \in Mode \ {e} : Same(f)
        <3>1. /\ closed' = [closed EXCEPT ![e] = closed[e] \/ closing[e]]
              /\ \/ reader_alert_out' = [reader_alert_out EXCEPT ![e] = FALSE] /\ UNCHANGED writer_alert_out
                 \/ writer_alert_out' = [writer_alert_out EXCEPT ![e] = FALSE] /\ UNCHANGED reader_alert_out
              /\ w' = [w EXCEPT ![e] = NextSeq(w[e])]
              /\ at' = [at EXCEPT ![e][t].phase = "WRITE"]
              /\ UNCHANGED <<tickets_sent, close_notify_queued>>
            BY <2>4 DEF FlushAlert
        <3> QED
            BY ONLY <1>a, <3>1 DEF Same, SameSealing, CloseNotifySent, FlagsOK, TypeOK, BuffersOK, CountersOK
    <2>5. ASSUME NEW t \in Thread, FlushReturn(e, t) PROVE \A f \in Mode \ {e} : Same(f)
        BY <2>5 DEF FlushReturn
    <2>6. ASSUME NEW n \in 0 .. StreamLen[e] - acked[e], s2n_send(e, n) PROVE \A f \in Mode \ {e} : Same(f)
        BY <2>6 DEF s2n_send
    <2>7. CASE SendReturn(e)
        BY <2>7 DEF SendReturn
    <2>8. CASE s2n_key_update_send(e)
        BY <2>8 DEF s2n_key_update_send
    <2>9. CASE s2n_tls13_server_nst_send(e)
        BY <2>9 DEF s2n_tls13_server_nst_send
    <2>10. CASE WriteData(e)
        BY <2>10 DEF WriteData
    <2>11. CASE RecvLeft(e)
        BY <2>11 DEF RecvLeft
    <2>12. CASE RecvData(e)
        BY <2>12 DEF RecvData
    <2>13. CASE RecvAlert(e)
        BY <2>13 DEF RecvAlert
    <2>14. CASE RecvPostHandshake(e)
        BY <2>14 DEF RecvPostHandshake
    <2>15. CASE s2n_shutdown(e)
        BY <2>15 DEF s2n_shutdown
    <2>16. CASE AwaitRecord(e)
        BY <2>16 DEF AwaitRecord
    <2>17. CASE AwaitBlocked(e)
        BY <2>17 DEF AwaitBlocked
    <2>18. CASE NstFails(e)
        BY <2>18 DEF NstFails
    <2> QED
        BY <2>1, <2>2, <2>3, <2>4, <2>5, <2>6, <2>7, <2>8, <2>9, <2>10, <2>11, <2>12, <2>13,
           <2>14, <2>15, <2>16, <2>17, <2>18 DEF Step, s2n_flush, SendStep, s2n_recv
<1>e. \A f \in Mode \ {e} : Bounded(f)'
    BY <1>d, SealingKept DEF Sealing, OnlyAlerts
<1>f. ASSUME UNCHANGED <<writer_alert_out, close_notify_queued>>
      PROVE  CloseNotifySent(e)' = CloseNotifySent(e)
    BY <1>f DEF CloseNotifySent
<1>g. \A pc : HasRest(pc) <=> pc = Tickets \/ pc.caller \in {"KEY_UPDATE", "TICKET"}
    BY DEF HasRest
<1>h. /\ ~HasRest(Idle) /\ ~HasRest(Await) /\ ~HasRest(Loop)
      /\ \A c \in {"SEND", "DATA", "RECV", "SHUTDOWN"} : ~HasRest(Flush(c))
    BY DEF HasRest, Idle, Await, Loop, Tickets, Flush
\* An endpoint that is in the middle of sending is not one that only sends alerts.
<1>i. \A pc \in {Loop, Tickets} : pc \notin {Idle, Await} /\ pc.caller # "SHUTDOWN"
    BY DEF Idle, Await, Loop, Tickets
<1>j. ASSUME SameSealing(e), at'[e]["SENDER"] = at[e]["SENDER"] \/ at'[e]["SENDER"] \in {Idle, Await}
      PROVE  Bounded(e)'
    BY <1>b, <1>h, <1>j, SealingKept DEF OnlyAlerts
<1>k. (at \in [Mode -> [Thread -> Pc]]) /\ "SENDER" \in Thread
    BY <1>a DEF TypeOK, Thread
<1> HIDE DEF Bounded, Same
<1> USE DEF sendVars, recvVars, alertVars
<1>1. ASSUME NEW t \in Thread, FlushWrite(e, t) PROVE Bounded(e)'
    <2>1. UNCHANGED <<at, w, tickets_sent, alertVars, closed>>
        BY <1>1 DEF FlushWrite
    <2> QED
        BY <1>f, <1>j, <2>1 DEF SameSealing
<1>2. ASSUME NEW t \in Thread, FlushBlocked(e, t) PROVE Bounded(e)'
    <2>1. UNCHANGED <<w, tickets_sent, alertVars, closed>>
        BY <1>2 DEF FlushBlocked
    <2>2. at' = [at EXCEPT ![e][t] = Idle]
        BY <1>2 DEF FlushBlocked, Return, Goto
    <2>3. at'[e]["SENDER"] \in {at[e]["SENDER"], Idle}
        BY <1>k, <2>2
    <2> QED
        BY <1>f, <1>j, <2>1, <2>3 DEF SameSealing
<1>3. ASSUME NEW t \in Thread, InFlush(e, t, "WRITE") \/ InFlush(e, t, "DRAINED"),
             NEW phase \in {"WRITE", "DRAINED"}, at' = [at EXCEPT ![e][t].phase = phase]
      PROVE  /\ HasRest(at'[e]["SENDER"]) <=> HasRest(at[e]["SENDER"])
             /\ at[e]["SENDER"] \in {Idle, Await} => at'[e]["SENDER"] = at[e]["SENDER"]
             /\ at'[e]["SENDER"].caller = at[e]["SENDER"].caller
    <2>1. CASE t = "SENDER"
        <3>1. at[e]["SENDER"] \in [caller: Caller, phase: {"WRITE", "DRAINED"}]
            BY <1>3, <1>k, <2>1 DEF InFlush, Pc, Idle, Loop, Tickets, Await, Caller
        <3>2. at'[e]["SENDER"] = [at[e]["SENDER"] EXCEPT !.phase = phase]
            BY <1>3, <1>k, <2>1
        <3>3. /\ at'[e]["SENDER"].caller = at[e]["SENDER"].caller
              /\ at[e]["SENDER"].caller \in Caller
            BY <3>1, <3>2
        <3> QED
            BY <3>3 DEF HasRest, Idle, Await, Tickets, Caller
    <2>2. CASE t # "SENDER"
        <3>1. at'[e]["SENDER"] = at[e]["SENDER"]
            BY <1>3, <1>k, <2>2
        <3> QED
            BY <3>1
    <2> QED
        BY <2>1, <2>2
<1>4. ASSUME NEW t \in Thread, FlushDrained(e, t) PROVE Bounded(e)'
    <2>1. UNCHANGED <<w, tickets_sent, alertVars, closed>>
        BY <1>4 DEF FlushDrained
    <2>2. InFlush(e, t, "WRITE") /\ at' = [at EXCEPT ![e][t].phase = "DRAINED"]
        BY <1>4 DEF FlushDrained
    <2>3. SameSealing(e)
        BY <1>f, <2>1 DEF SameSealing
    <2>4. /\ HasRest(at'[e]["SENDER"]) <=> HasRest(at[e]["SENDER"])
          /\ at[e]["SENDER"] \in {Idle, Await} => at'[e]["SENDER"] = at[e]["SENDER"]
          /\ at'[e]["SENDER"].caller = at[e]["SENDER"].caller
        BY <1>3, <2>2
    <2> QED
        BY <1>b, <2>3, <2>4, SealingKept DEF OnlyAlerts, Bounded
<1>5. ASSUME NEW t \in Thread, FlushAlert(e, t) PROVE Bounded(e)'
    <2>1. /\ InFlush(e, t, "DRAINED") /\ at' = [at EXCEPT ![e][t].phase = "WRITE"]
          /\ w' = [w EXCEPT ![e] = NextSeq(w[e])]
          /\ closed' = [closed EXCEPT ![e] = closed[e] \/ closing[e]]
          /\ UNCHANGED <<tickets_sent, close_notify_queued>>
        BY <1>5 DEF FlushAlert, s2n_record_write
    <2>2. /\ HasRest(at'[e]["SENDER"]) <=> HasRest(at[e]["SENDER"])
          /\ at[e]["SENDER"] \in {Idle, Await} => at'[e]["SENDER"] = at[e]["SENDER"]
          /\ at'[e]["SENDER"].caller = at[e]["SENDER"].caller
        BY <1>3, <2>1
    <2>3. w'[e].seq = w[e].seq + 1 /\ (closed[e] => closed'[e])
        BY <1>a, <1>c, <2>1 DEF BuffersOK, FlagsOK, NextSeq, Key
    <2>4. CASE reader_alert_out[e]
        <3>1. reader_alert_out' = [reader_alert_out EXCEPT ![e] = FALSE] /\ UNCHANGED writer_alert_out
            BY <1>5, <2>4 DEF FlushAlert
        <3>2. ~reader_alert_out'[e] /\ CloseNotifySent(e)' = CloseNotifySent(e)
            BY <1>a, <1>f, <2>1, <3>1 DEF FlagsOK
        <3>3. OnlyAlerts(e) /\ w[e].seq <= CloseNotifySent(e)
            BY <1>b, <1>c, <2>4 DEF Bounded, Sending, OnlyAlerts, CloseNotifySent
        <3>4. w'[e].seq <= CloseNotifySent(e) + 1
            BY <1>c, <2>3, <3>3 DEF CloseNotifySent
        <3>5. OnlyAlerts(e)'
            BY <2>2, <2>3, <3>2, <3>3, <3>4 DEF OnlyAlerts
        <3> QED
            BY <3>5 DEF Bounded
    <2>5. CASE ~reader_alert_out[e]
        <3>1. /\ writer_alert_out[e]
              /\ writer_alert_out' = [writer_alert_out EXCEPT ![e] = FALSE]
              /\ UNCHANGED reader_alert_out
            BY <1>5, <2>5 DEF FlushAlert
        <3>2. CloseNotifySent(e) = 0 /\ CloseNotifySent(e)' = 1
            BY <1>a, <2>1, <3>1 DEF FlagsOK, CloseNotifySent, Closing, ClosingAt
        <3>3. Limit(e)' = Limit(e) + 1 /\ Limit(e) \in Nat
            BY <1>c, <2>1, <3>2 DEF Limit
        <3>4. CASE Sending(e)
            BY <1>c, <2>2, <2>3, <3>1, <3>3, <3>4 DEF Sending, Bounded
        <3>5. CASE OnlyAlerts(e)
            <4>1. w'[e].seq <= 1 + 1
                BY <1>c, <2>3, <2>5, <3>2, <3>5 DEF OnlyAlerts
            <4>2. OnlyAlerts(e)'
                BY <2>2, <2>3, <2>5, <3>1, <3>2, <3>5, <4>1 DEF OnlyAlerts
            <4> QED
                BY <4>2 DEF Bounded
        <3> QED
            BY <1>b, <3>4, <3>5 DEF Bounded
    <2> QED
        BY <2>4, <2>5
<1>6. ASSUME NEW t \in Thread, FlushReturn(e, t) PROVE Bounded(e)'
    <2>1. /\ InFlush(e, t, "DRAINED") /\ at' = [at EXCEPT ![e][t] = AfterFlush(e, t)]
          /\ closed' = [closed EXCEPT ![e] = closed[e] \/ closing[e]]
          /\ UNCHANGED <<w, tickets_sent, alertVars>>
        BY <1>6 DEF FlushReturn, Goto
    <2>2. SameSealing(e)
        BY <1>a, <1>f, <2>1 DEF SameSealing, FlagsOK
    <2>3. CASE t = "SENDER"
        <3>1. at'[e]["SENDER"] = AfterFlush(e, t) /\ at[e]["SENDER"].caller \in Caller
            BY <1>k, <2>1, <2>3 DEF InFlush
        <3>2. CASE at[e]["SENDER"].caller \in {"KEY_UPDATE", "TICKET"}
            BY <1>b, <2>2, <2>3, <3>1, <3>2, SealingKept
               DEF OnlyAlerts, Bounded, HasRest, AfterFlush, Idle, Await
        <3>3. CASE at[e]["SENDER"].caller \in {"SEND", "DATA"}
            <4>1. at'[e]["SENDER"] \in {Idle, Loop} /\ ~OnlyAlerts(e)
                BY <2>3, <3>1, <3>3 DEF AfterFlush, OnlyAlerts, Idle, Await
            <4> QED
                BY <1>b, <1>h, <2>2, <4>1, SealingKept DEF Bounded
        <3>4. CASE at[e]["SENDER"].caller \in {"RECV", "SHUTDOWN"}
            <4>1. at'[e]["SENDER"] \in {Idle, Await}
                BY <2>3, <3>1, <3>4 DEF AfterFlush
            <4> QED
                BY <1>j, <2>2, <4>1
        <3> QED
            BY <3>1, <3>2, <3>3, <3>4 DEF Caller
    <2>4. CASE t # "SENDER"
        <3>1. at'[e]["SENDER"] = at[e]["SENDER"]
            BY <1>k, <2>1, <2>4
        <3> QED
            BY <1>j, <2>2, <3>1
    <2> QED
        BY <2>3, <2>4
<1>7. ASSUME NEW n \in 0 .. StreamLen[e] - acked[e], s2n_send(e, n) PROVE Bounded(e)'
    <2>1. /\ ~closed[e] /\ at' = [at EXCEPT ![e]["SENDER"] = Flush("SEND")]
          /\ UNCHANGED <<w, tickets_sent, alertVars, closed>>
        BY <1>7 DEF s2n_send, Goto
    <2>2. at'[e]["SENDER"] = Flush("SEND") /\ SameSealing(e) /\ ~OnlyAlerts(e)
        BY <1>f, <1>k, <2>1 DEF SameSealing, OnlyAlerts
    <2> QED
        BY <1>b, <1>h, <2>2, SealingKept DEF Bounded
<1>8. ASSUME SendReturn(e) PROVE Bounded(e)'
    <2>1. at' = [at EXCEPT ![e]["SENDER"] = Idle] /\ UNCHANGED <<w, tickets_sent, alertVars, closed>>
        BY <1>8 DEF SendReturn, Return, Goto
    <2>2. at'[e]["SENDER"] = Idle /\ SameSealing(e)
        BY <1>f, <1>k, <2>1 DEF SameSealing
    <2> QED
        BY <1>j, <2>2
<1>9. ASSUME s2n_key_update_send(e) PROVE Bounded(e)'
    <2>1. at[e]["SENDER"] = Loop /\ UNCHANGED <<tickets_sent, alertVars>>
        BY <1>9 DEF s2n_key_update_send
    <2>2. Sending(e)
        BY <1>b, <1>i, <2>1 DEF Bounded, OnlyAlerts
    <2>3. Limit(e)' = Limit(e) /\ Limit(e) \in Nat /\ Limit(e) >= encryption_limit
        BY <1>c, <1>f, <2>1 DEF Limit, CloseNotifySent
    <2>4. w'[e].seq < Limit(e)
        <3>1. CASE s2n_check_record_limit(e)
            <4>1. w' = [w EXCEPT ![e] = NextGen(w[e])]
                BY <1>9, <3>1 DEF s2n_key_update_send
            <4>2. w'[e].seq = 0
                BY <1>a, <4>1 DEF BuffersOK, NextGen
            <4> QED
                BY <1>c, <2>3, <4>2
        <3>2. CASE ~s2n_check_record_limit(e)
            <4>1. w' = w /\ ~(w[e].seq + 1 > encryption_limit)
                BY <1>9, <3>2 DEF s2n_key_update_send, s2n_check_record_limit
            <4> QED
                BY <1>c, <2>3, <4>1
        <3> QED
            BY <3>1, <3>2
    <2>5. w'[e].seq \in Nat
        BY <1>a, StepBuffers DEF BuffersOK, Key
    <2> QED
        BY <2>1, <2>2, <2>3, <2>4, <2>5 DEF Sending, Bounded
<1>10. ASSUME s2n_tls13_server_nst_send(e) PROVE Bounded(e)'
    <2>1. /\ at[e]["SENDER"] = Tickets
          /\ w' = [w EXCEPT ![e] = NextSeq(w[e])]
          /\ tickets_sent' = [tickets_sent EXCEPT ![e] = tickets_sent[e] + 1]
          /\ UNCHANGED alertVars
        BY <1>10 DEF s2n_tls13_server_nst_send, s2n_record_write
    <2>2. Sending(e) /\ w[e].seq < Limit(e)
        BY <1>b, <1>i, <2>1 DEF Bounded, OnlyAlerts, Sending, HasRest
    <2>3. w'[e].seq = w[e].seq + 1 /\ tickets_sent'[e] = tickets_sent[e] + 1
        BY <1>a, <1>c, <2>1 DEF BuffersOK, CountersOK, NextSeq, Key
    <2>4. Limit(e)' = Limit(e) + 1 /\ Limit(e) \in Nat
        BY <1>c, <1>f, <2>1, <2>3 DEF Limit, CloseNotifySent
    <2> QED
        BY <1>c, <2>1, <2>2, <2>3, <2>4 DEF Sending, Bounded
<1>11. ASSUME WriteData(e) PROVE Bounded(e)'
    <2>1. /\ at[e]["SENDER"] = Tickets
          /\ at' = [at EXCEPT ![e]["SENDER"] = Flush("DATA")]
          /\ w' = [w EXCEPT ![e] = NextSeq(w[e])]
          /\ UNCHANGED <<tickets_sent, alertVars>>
        BY <1>11 DEF WriteData, Goto
    <2>2. Sending(e) /\ w[e].seq < Limit(e)
        BY <1>b, <1>i, <2>1 DEF Bounded, OnlyAlerts, Sending, HasRest
    <2>3. w'[e].seq = w[e].seq + 1 /\ at'[e]["SENDER"] = Flush("DATA")
        BY <1>a, <1>c, <1>k, <2>1 DEF BuffersOK, NextSeq, Key
    <2>4. Limit(e)' = Limit(e) /\ Limit(e) \in Nat
        BY <1>c, <1>f, <2>1 DEF Limit, CloseNotifySent
    <2> QED
        BY <1>c, <1>h, <2>1, <2>2, <2>3, <2>4 DEF Sending, Bounded
<1>12. ASSUME RecvLeft(e) \/ RecvData(e) \/ RecvPostHandshake(e) PROVE Bounded(e)'
    <2>1. UNCHANGED <<at, w, tickets_sent, alertVars, closed>>
        BY <1>12 DEF RecvLeft, RecvData, RecvPostHandshake
    <2> QED
        BY <1>f, <1>j, <2>1 DEF SameSealing
<1>13. ASSUME RecvAlert(e) PROVE Bounded(e)'
    <2>1. /\ at' = [at EXCEPT ![e]["RECEIVER"] = Flush("RECV")] \/ at' = at
          /\ closed' = [closed EXCEPT ![e] = TRUE]
          /\ UNCHANGED <<w, tickets_sent, alertVars>>
        BY <1>13 DEF RecvAlert, Goto
    <2>2. at'[e]["SENDER"] = at[e]["SENDER"] /\ SameSealing(e)
        BY <1>a, <1>f, <1>k, <2>1 DEF SameSealing, FlagsOK
    <2> QED
        BY <1>j, <2>2
<1>14. ASSUME s2n_shutdown(e) PROVE Bounded(e)'
    <2>1. /\ at' = [at EXCEPT ![e]["SENDER"] = Flush("SHUTDOWN")]
          /\ UNCHANGED <<w, tickets_sent, reader_alert_out, closed>>
        BY <1>14 DEF s2n_shutdown, Goto
    <2>2. CloseNotifySent(e)' = CloseNotifySent(e)
        <3>1. CASE close_notify_queued[e] \/ writer_alert_out[e]
            BY <1>14, <1>f, <3>1 DEF s2n_shutdown
        <3>2. CASE ~(close_notify_queued[e] \/ writer_alert_out[e])
            BY <1>14, <1>a, <3>2 DEF s2n_shutdown, CloseNotifySent, FlagsOK
        <3> QED
            BY <3>1, <3>2
    <2>3. at'[e]["SENDER"] = Flush("SHUTDOWN") /\ SameSealing(e)
        BY <1>k, <2>1, <2>2 DEF SameSealing
    <2>4. Flush("SHUTDOWN").caller = "SHUTDOWN" /\ ~HasRest(Flush("SHUTDOWN"))
        BY <1>h DEF Flush
    <2> QED
        BY <1>b, <2>3, <2>4, SealingKept DEF Bounded
<1>15. ASSUME AwaitRecord(e) \/ AwaitBlocked(e) PROVE Bounded(e)'
    <2>1. /\ at' = [at EXCEPT ![e]["SENDER"] = Idle]
          /\ \E b \in BOOLEAN : closed' = [closed EXCEPT ![e] = closed[e] \/ b]
          /\ UNCHANGED <<w, tickets_sent, alertVars>>
        <3>1. CASE AwaitRecord(e)
            BY <3>1 DEF AwaitRecord, Goto
        <3>2. CASE AwaitBlocked(e)
            <4>1. closed = [closed EXCEPT ![e] = closed[e] \/ FALSE]
                BY <1>a DEF FlagsOK
            <4> QED
                BY <3>2, <4>1 DEF AwaitBlocked, Goto
        <3> QED
            BY <1>15, <3>1, <3>2
    <2>2. at'[e]["SENDER"] = Idle /\ SameSealing(e)
        BY <1>a, <1>f, <1>k, <2>1 DEF SameSealing, FlagsOK
    <2> QED
        BY <1>j, <2>2
<1>n. ASSUME NstFails(e) PROVE Bounded(e)'
    <2>1. at' = [at EXCEPT ![e]["SENDER"] = Idle] /\ UNCHANGED <<w, tickets_sent, alertVars, closed>>
        BY <1>n DEF NstFails, Return, Goto
    <2>2. at'[e]["SENDER"] = Idle /\ SameSealing(e)
        BY <1>f, <1>k, <2>1 DEF SameSealing
    <2> QED
        BY <1>j, <2>2
<1>16. Bounded(e)'
    BY <1>1, <1>2, <1>4, <1>5, <1>6, <1>7, <1>8, <1>9, <1>10, <1>11, <1>12, <1>13, <1>14, <1>15, <1>n
       DEF Step, s2n_flush, SendStep, s2n_recv
<1>17. tickets_sent'["C"] = 0
    <2>1. CASE s2n_tls13_server_nst_send(e)
        BY <1>a, <1>b, <2>1 DEF s2n_tls13_server_nst_send, TicketsLeft, CountersOK
    <2>2. CASE ~s2n_tls13_server_nst_send(e)
        <3>1. UNCHANGED tickets_sent
            BY <2>2 DEF Step, s2n_flush, SendStep, s2n_recv, FlushWrite, FlushBlocked, FlushDrained,
                        FlushAlert, FlushReturn, s2n_send, SendReturn, s2n_key_update_send,
                        NstFails, WriteData, RecvLeft, RecvData, RecvAlert, RecvPostHandshake,
                        s2n_shutdown, AwaitRecord, AwaitBlocked
        <3> QED
            BY <1>b, <3>1
    <2> QED
        BY <2>1, <2>2
<1> QED
    BY <1>e, <1>16, <1>17 DEF Sealing, Bounded

----------------------------------------------------------------------------
(***************************************************************************)
(* The theorems.                                                           *)
(***************************************************************************)
StreamInv == WireInv /\ Closing /\ \A e \in Mode : StreamAt(e) /\ KeysAt(e)

SealInv == IInv /\ Closing /\ Sealing

\* Nothing is on its way, and every key is the first one.
LEMMA InitStream == Init => StreamInv /\ SealInv
<1> SUFFICES ASSUME Init PROVE StreamInv /\ SealInv
    OBVIOUS
<1>1. WireInv
    BY InitWireInv
<1>2. Closing
    BY DEF Init, No, Closing, ClosingAt, Idle, Await, Thread
<1>3. ASSUME NEW e \in Mode PROVE StreamAt(e) /\ KeysAt(e)
    <2>1. Peer(e) \in Mode
        BY PeerOfPeer
    <2>2. Queue(e) = << >> /\ Received(Peer(e)) = 0 /\ written[e] = 0 /\ r[Peer(e)] = w[e]
        BY <2>1 DEF Init, Zero, Queue, Received
    <2>3. Len(Queue(e)) = 0
        BY <2>2
    <2> QED
        BY <2>2, <2>3 DEF StreamAt, KeysAt, Contiguous, KeyChain
<1>4. Sealing
    <2> SUFFICES ASSUME NEW e \in Mode PROVE Sending(e) \/ OnlyAlerts(e)
        BY DEF Sealing, Init, Zero, Mode
    <2>1. /\ w[e].seq = 0 /\ tickets_sent[e] = 0 /\ CloseNotifySent(e) = 0
          /\ at[e]["SENDER"] = Idle /\ closed[e] = reader_alert_out[e]
          /\ reader_alert_out[e] \in BOOLEAN
        BY DEF Init, Zero, No, CloseNotifySent, Thread
    <2>2. Limit(e) = encryption_limit /\ 0 <= encryption_limit /\ ~HasRest(Idle)
        BY <2>1, IOAssumption DEF Limit, HasRest, Idle, Tickets
    <2> QED
        BY <2>1, <2>2 DEF Sending, OnlyAlerts
<1> QED
    BY <1>1, <1>2, <1>3, <1>4 DEF StreamInv, SealInv, WireInv

\* The records under a key, with or without threads.
LEMMA NextSeal == SealInv /\ [Next]_vars => SealInv'
<1> SUFFICES ASSUME SealInv, [Next]_vars PROVE SealInv'
    OBVIOUS
<1>1. IInv'
    BY NextIInv DEF SealInv
<1>2. ASSUME NEW e \in Mode, Step(e) PROVE SealInv'
    BY <1>1, <1>2, StepClosing, StepSealing DEF SealInv
<1>3. ASSUME UNCHANGED vars PROVE SealInv'
    BY <1>1, <1>3 DEF SealInv, Closing, ClosingAt, Sealing, Sending, OnlyAlerts, Limit,
                      CloseNotifySent, vars, alertVars
<1> QED
    BY <1>2, <1>3 DEF Next, Rest

\* The queues, with one call at a time.
LEMMA NextStream == ~Duplex => (StreamInv /\ [Next]_vars => StreamInv')
<1> SUFFICES ASSUME ~Duplex, StreamInv, [Next]_vars PROVE StreamInv'
    OBVIOUS
<1>1. WireInv'
    BY NextWireInv DEF StreamInv
<1>2. ASSUME NEW e \in Mode, Step(e) PROVE StreamInv'
    <2>1. Flow(e) /\ Flow(Peer(e))
        BY <1>2, StepFlow DEF StreamInv
    <2>2. \A f \in Mode : f = e \/ f = Peer(e)
        BY DEF Mode, Peer
    <2>3. \A f \in Mode : StreamAt(f)' /\ KeysAt(f)'
        BY <2>1, <2>2, FlowKeepsStream, FlowKeepsKeys DEF StreamInv, WireInv, IInv
    <2>4. Closing'
        BY <1>2, StepClosing DEF StreamInv, WireInv
    <2> QED
        BY <1>1, <2>3, <2>4 DEF StreamInv
<1>3. ASSUME UNCHANGED vars PROVE StreamInv'
    <2>1. \A f \in Mode : Kept(f)
        BY <1>3, PeerOfPeer, KeptBySame DEF SameWriter, SameReader, vars, sendVars, recvVars
    <2>2. \A f \in Mode : StreamAt(f)' /\ KeysAt(f)'
        BY <2>1, FlowKeepsStream, FlowKeepsKeys DEF StreamInv, WireInv, IInv, Flow
    <2>3. Closing'
        BY <1>3 DEF StreamInv, Closing, ClosingAt, vars, alertVars
    <2> QED
        BY <1>1, <2>2, <2>3 DEF StreamInv
<1> QED
    BY <1>2, <1>3 DEF Next, Rest

(***************************************************************************)
(* No key seals more records than encryption_limit, the tickets and one    *)
(* alert, whatever the threads do.                                         *)
(***************************************************************************)
THEOREM RecordsPerKey == Spec => []SequenceBounded
<1>1. SealInv => SequenceBounded
    <2> SUFFICES ASSUME SealInv, NEW e \in Mode
                 PROVE  w[e].seq <= encryption_limit + (IF e = "S" THEN tickets_to_send ELSE 0) + 1
        BY DEF SequenceBounded
    <2>1. w[e] \in Key /\ tickets_sent[e] \in 0 .. tickets_to_send
        BY DEF SealInv, IInv, TypeOK, BuffersOK, CountersOK
    <2>2. /\ w[e].seq \in Nat /\ tickets_sent[e] \in Nat /\ encryption_limit \in Nat
          /\ encryption_limit >= 1 /\ tickets_to_send \in Nat
        BY <2>1, IOAssumption DEF Key
    <2>3. tickets_sent[e] <= IF e = "S" THEN tickets_to_send ELSE 0
        BY <2>1, <2>2 DEF SealInv, Sealing, Mode
    <2>4. CloseNotifySent(e) \in {0, 1}
        BY DEF CloseNotifySent
    <2>5. CASE Sending(e)
        BY <2>2, <2>3, <2>4, <2>5 DEF Sending, Limit
    <2>6. CASE OnlyAlerts(e)
        BY <2>2, <2>3, <2>4, <2>6 DEF OnlyAlerts
    <2> QED
        BY <2>5, <2>6 DEF SealInv, Sealing
<1> QED
    BY <1>1, InitStream, NextSeal, PTL DEF Spec

(***************************************************************************)
(* With one call at a time, what s2n_recv has returned is a prefix of the  *)
(* stream and the rest is on its way, in order and without a gap, for      *)
(* every stream, every way of cutting it into records and every socket.    *)
(***************************************************************************)
THEOREM StreamDelivered == ~Duplex => (Spec => []StreamIntact)
<1> SUFFICES ASSUME ~Duplex PROVE Spec => []StreamIntact
    OBVIOUS
<1>1. StreamInv => StreamIntact
    BY DEF StreamInv, StreamIntact, StreamAt, Received
<1> QED
    BY <1>1, InitStream, NextStream, PTL DEF Spec

(***************************************************************************)
(* With one call at a time, every record that s2n_recv meets was sealed    *)
(* with the key that the reader has reached, through every key update,     *)
(* ticket and alert.                                                       *)
(***************************************************************************)
THEOREM KeysMeet == ~Duplex => (Spec => []KeysInSync)
<1> SUFFICES ASSUME ~Duplex PROVE Spec => []KeysInSync
    OBVIOUS
<1>1. StreamInv /\ SequenceBounded => KeysInSync
    <2> SUFFICES ASSUME StreamInv, NEW e \in Mode, chan[e] # << >>, ~failed[e]
                 PROVE  Head(chan[e]).key = r[e]
        BY DEF KeysInSync
    <2> DEFINE p == Peer(e)
    <2>1. p \in Mode /\ Peer(p) = e
        BY PeerOfPeer
    <2>2. KeyChain(Queue(p), r[e], w[p])
        BY <2>1 DEF StreamInv, KeysAt
    <2>3. chan[e] \in Seq(Record) /\ BuffersOK
        BY DEF StreamInv, WireInv, IInv, TypeOK, BuffersOK
    <2>4. Queue(p) # << >> /\ Head(Queue(p)) = Head(chan[e])
        <3>1. CASE out[p] = << >>
            BY <2>1, <3>1 DEF Queue
        <3>2. CASE out[p] # << >>
            <4>1. Queue(p) = Append(chan[e], out[p][1]) /\ out[p][1] \in Record
                BY <2>1, <2>3, <3>2, RecordParts DEF Queue, BuffersOK
            <4>2. Append(chan[e], out[p][1]) # << >>
                BY <2>3, <4>1, AppendProperties
            <4> QED
                BY <2>3, <4>1, <4>2, HeadTailAppend
        <3> QED
            BY <3>1, <3>2
    <2>5. Queue(p) \in Seq(Record)
        BY <2>1, <2>3, QueueType
    <2> QED
        BY <2>2, <2>4, <2>5, KeyChainTail
<1>2. Spec => []SequenceBounded
    BY RecordsPerKey
<1> QED
    BY <1>1, <1>2, InitStream, NextStream, PTL DEF Spec

=============================================================================
