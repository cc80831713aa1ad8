-------------------------- MODULE NegotiateProofs --------------------------
(***************************************************************************)
(* Proof that no recomputation of the handshake type rewrites the past.    *)
(*                                                                         *)
(* The proof has three layers: the tables of message orders, of which it   *)
(* needs how long two orders agree; the handlers, of which it needs what   *)
(* they do to the few fields that decide the type; and the two endpoints,  *)
(* whose messages tie their versions and their requests together.          *)
(***************************************************************************)
EXTENDS Negotiate, TLAPS

----------------------------------------------------------------------------
(***************************************************************************)
(* The tables.                                                             *)
(***************************************************************************)

\* The messages that the tables name.
LEMMA AreMessages ==
    {"CLIENT_HELLO", "SERVER_HELLO", "SERVER_CERT", "SERVER_NEW_SESSION_TICKET",
     "SERVER_CERT_STATUS", "SERVER_KEY", "SERVER_CERT_REQ", "SERVER_HELLO_DONE",
     "SERVER_CHANGE_CIPHER_SPEC", "SERVER_FINISHED", "ENCRYPTED_EXTENSIONS",
     "SERVER_CERT_VERIFY", "HELLO_RETRY_MSG", "CLIENT_CERT", "CLIENT_KEY",
     "CLIENT_CERT_VERIFY", "CLIENT_CHANGE_CIPHER_SPEC", "CLIENT_FINISHED",
     "END_OF_EARLY_DATA", "APPLICATION_DATA"} = Message
  BY DEF Message, ServerMessage, ClientMessage

\* One member of S is a sequence over S, present or not.
LEMMA OneSeq ==
    ASSUME NEW S, NEW b, NEW x \in S
    PROVE  <<x>> \in Seq(S) /\ Opt(b, <<x>>) \in Seq(S)
  BY DEF Opt

\* So are several.
LEMMA MoreSeq ==
    ASSUME NEW S, NEW b, NEW x \in S, NEW y \in S
    PROVE  /\ <<x, y>> \in Seq(S) /\ Opt(b, <<x, y>>) \in Seq(S)
           /\ \A z \in S : <<x, y, z>> \in Seq(S)
           /\ \A z \in S : \A v \in S : \A w \in S : <<x, y, z, v, w>> \in Seq(S)
  BY DEF Opt

\* An optional sequence is a sequence.
LEMMA OptSeq ==
    ASSUME NEW S, NEW b, NEW s \in Seq(S)
    PROVE  Opt(b, s) \in Seq(S)
  BY DEF Opt

\* Every entry of handshakes[] is a sequence of messages.
LEMMA Tls12OrderSeq ==
    ASSUME NEW t
    PROVE  Tls12Order(t) \in Seq(Message)
<1>1. /\ Opt("WITH_SESSION_TICKET" \in t, <<"SERVER_NEW_SESSION_TICKET">>) \in Seq(Message)
      /\ Opt("OCSP_STATUS" \in t, <<"SERVER_CERT_STATUS">>) \in Seq(Message)
      /\ Opt("TLS12_PERFECT_FORWARD_SECRECY" \in t, <<"SERVER_KEY">>) \in Seq(Message)
      /\ Opt("CLIENT_AUTH" \in t, <<"SERVER_CERT_REQ">>) \in Seq(Message)
      /\ Opt("CLIENT_AUTH" \in t, <<"CLIENT_CERT">>) \in Seq(Message)
      /\ Opt("CLIENT_AUTH" \in t /\ "NO_CLIENT_CERT" \notin t, <<"CLIENT_CERT_VERIFY">>)
            \in Seq(Message)
      /\ <<"SERVER_HELLO_DONE">> \in Seq(Message)
      /\ <<"CLIENT_KEY">> \in Seq(Message)
  BY OneSeq, AreMessages
<1>2. /\ <<"CLIENT_HELLO", "SERVER_HELLO">> \in Seq(Message)
      /\ <<"CLIENT_HELLO", "SERVER_HELLO", "SERVER_CERT">> \in Seq(Message)
      /\ <<"SERVER_CHANGE_CIPHER_SPEC", "SERVER_FINISHED", "APPLICATION_DATA">> \in Seq(Message)
      /\ <<"CLIENT_CHANGE_CIPHER_SPEC", "CLIENT_FINISHED">> \in Seq(Message)
      /\ <<"SERVER_CHANGE_CIPHER_SPEC", "SERVER_FINISHED", "CLIENT_CHANGE_CIPHER_SPEC",
           "CLIENT_FINISHED", "APPLICATION_DATA">> \in Seq(Message)
  BY MoreSeq, AreMessages
<1> QED BY <1>1, <1>2 DEF Tls12Order

\* Every entry of tls13_handshakes[] is a sequence of messages.
LEMMA Tls13OrderSeq ==
    ASSUME NEW t
    PROVE  Tls13Order(t) \in Seq(Message)
<1> DEFINE Hrr == "HELLO_RETRY_REQUEST" \in t
           Auth1 == "CLIENT_AUTH" \in t
           SCcs == Opt("MIDDLEBOX_COMPAT" \in t, <<"SERVER_CHANGE_CIPHER_SPEC">>)
           CCcs == Opt("MIDDLEBOX_COMPAT" \in t /\ ~("EARLY_CLIENT_CCS" \in t),
                       <<"CLIENT_CHANGE_CIPHER_SPEC">>)
           Hello == <<"CLIENT_HELLO">>
                    \o Opt("EARLY_CLIENT_CCS" \in t, <<"CLIENT_CHANGE_CIPHER_SPEC">>)
           Hellos == IF Hrr THEN <<"HELLO_RETRY_MSG">> \o SCcs \o CCcs
                                 \o <<"CLIENT_HELLO", "SERVER_HELLO">>
                     ELSE <<"SERVER_HELLO">> \o SCcs
<1>1. /\ Opt("EARLY_CLIENT_CCS" \in t, <<"CLIENT_CHANGE_CIPHER_SPEC">>) \in Seq(Message)
      /\ SCcs \in Seq(Message) /\ CCcs \in Seq(Message)
      /\ Opt(Auth1, <<"SERVER_CERT_REQ">>) \in Seq(Message)
      /\ Opt("WITH_EARLY_DATA" \in t, <<"END_OF_EARLY_DATA">>) \in Seq(Message)
      /\ Opt(Auth1, <<"CLIENT_CERT">>) \in Seq(Message)
      /\ Opt(Auth1 /\ "NO_CLIENT_CERT" \notin t, <<"CLIENT_CERT_VERIFY">>) \in Seq(Message)
      /\ <<"SERVER_HELLO">> \in Seq(Message) /\ <<"CLIENT_HELLO">> \in Seq(Message)
      /\ <<"HELLO_RETRY_MSG">> \in Seq(Message) /\ <<"ENCRYPTED_EXTENSIONS">> \in Seq(Message)
      /\ <<"SERVER_FINISHED">> \in Seq(Message)
  BY OneSeq, AreMessages
<1>2. /\ <<"CLIENT_HELLO", "SERVER_HELLO">> \in Seq(Message)
      /\ Opt("FULL_HANDSHAKE" \in t, <<"SERVER_CERT", "SERVER_CERT_VERIFY">>) \in Seq(Message)
      /\ <<"CLIENT_FINISHED", "APPLICATION_DATA">> \in Seq(Message)
  BY MoreSeq, AreMessages
<1> HIDE DEF SCcs, CCcs
<1>3. Opt(~Hrr, CCcs) \in Seq(Message)
  BY <1>1, OptSeq
<1>4. Hellos \in Seq(Message) /\ Hello \in Seq(Message)
  BY <1>1, <1>2
<1> HIDE DEF Hello, Hellos
<1>5. Hello \o (IF Hrr THEN <<"HELLO_RETRY_MSG">> ELSE <<"SERVER_HELLO">>) \in Seq(Message)
  BY <1>1, <1>4
<1>6. Hello \o Hellos \o <<"ENCRYPTED_EXTENSIONS">> \o Opt(Auth1, <<"SERVER_CERT_REQ">>)
      \o Opt("FULL_HANDSHAKE" \in t, <<"SERVER_CERT", "SERVER_CERT_VERIFY">>)
      \o <<"SERVER_FINISHED">> \o Opt(~Hrr, CCcs)
      \o Opt("WITH_EARLY_DATA" \in t, <<"END_OF_EARLY_DATA">>)
      \o Opt(Auth1, <<"CLIENT_CERT">>)
      \o Opt(Auth1 /\ "NO_CLIENT_CERT" \notin t, <<"CLIENT_CERT_VERIFY">>)
      \o <<"CLIENT_FINISHED", "APPLICATION_DATA">> \in Seq(Message)
  BY <1>1, <1>2, <1>3, <1>4
<1> QED BY <1>5, <1>6 DEF Tls13Order, Hello, Hellos, SCcs, CCcs

\* Every entry of the tables is a sequence of messages.
LEMMA OrderSeq ==
    ASSUME NEW v, NEW t
    PROVE  Order(v, t) \in Seq(Message)
  BY Tls12OrderSeq, Tls13OrderSeq DEF Order

(***************************************************************************)
(* A connection of version v and type t, with n messages behind it, has    *)
(* gone past the messages p: those its order starts with.                  *)
(***************************************************************************)
Past(v, t, n, p) ==
    /\ Defined(v, t)
    /\ n \in Nat
    /\ n < Len(Order(v, t))
    /\ p = SubSeq(Order(v, t), 1, n)

At(v, t, n) == Order(v, t)[n + 1]

\* Another order that starts with the same messages has the same past.
LEMMA SamePast ==
    ASSUME NEW v, NEW t, NEW w, NEW u, NEW n, NEW p, Past(v, t, n, p), Defined(w, u),
           n < Len(Order(w, u)),
           \A i \in 1 .. n : Order(w, u)[i] = Order(v, t)[i]
    PROVE  Past(w, u, n, p)
  BY OrderSeq DEF Past

\* The number of messages up to the first answer of the server.
HelloEnd(v, t) == IF v = S2N_TLS13 /\ "EARLY_CLIENT_CCS" \in t THEN 2 ELSE 1

\* Up to there, every order is the same.
LEMMA HelloStarts ==
    ASSUME NEW v, NEW t, NEW w, NEW u
    PROVE  /\ Len(Order(v, t)) > HelloEnd(v, t)
           /\ Order(v, t)[1] = "CLIENT_HELLO"
           /\ HelloEnd(v, t) = HelloEnd(w, u) =>
                 \A i \in 1 .. HelloEnd(v, t) : Order(v, t)[i] = Order(w, u)[i]
           /\ At(v, t, HelloEnd(v, t)) = IF v = S2N_TLS13 /\ "HELLO_RETRY_REQUEST" \in t
                                         THEN "HELLO_RETRY_MSG" ELSE "SERVER_HELLO"
  BY DEF Order, Tls12Order, Tls13Order, Opt, HelloEnd, At

\* And starts with the ClientHello.
LEMMA StartsWithHello ==
    ASSUME NEW v, NEW t
    PROVE  Order(v, t)[1] = "CLIENT_HELLO"
  BY HelloStarts

\* Then comes a hello of the server.
LEMMA FirstIsHello ==
    ASSUME NEW v, NEW t
    PROVE  At(v, t, HelloEnd(v, t)) \in {"SERVER_HELLO", "HELLO_RETRY_MSG"}
  BY HelloStarts

\* A type computed before the first answer rewrites nothing.
LEMMA RetypeAtHello ==
    ASSUME NEW v, NEW t, NEW w, NEW u, NEW n, NEW p, Past(v, t, n, p), Defined(w, u),
           n = 0 \/ (HelloEnd(w, u) = HelloEnd(v, t) /\ n <= HelloEnd(v, t))
    PROVE  Past(w, u, n, p)
<1>1. /\ Len(Order(w, u)) > HelloEnd(w, u)
      /\ HelloEnd(w, u) = HelloEnd(v, t) =>
            \A i \in 1 .. HelloEnd(w, u) : Order(w, u)[i] = Order(v, t)[i]
  BY HelloStarts
<1>2. n \in Nat
  BY DEF Past
<1>3. n < Len(Order(w, u)) /\ \A i \in 1 .. n : Order(w, u)[i] = Order(v, t)[i]
  BY <1>1, <1>2, OrderSeq DEF HelloEnd
<1> QED BY <1>3, SamePast

\* The second hellos only exist after a retry: before TLS 1.3, ...
LEMMA WhereHellos12 ==
    ASSUME NEW t, NEW n \in Nat, n < Len(Tls12Order(t)), NEW m, m = Tls12Order(t)[n + 1]
    PROVE  /\ m = "CLIENT_HELLO" => n = 0
           /\ m # "HELLO_RETRY_MSG"
           /\ m = "SERVER_HELLO" => n = 1
           /\ "NEGOTIATED" \notin t => n <= 1
<1>1. m = "CLIENT_HELLO" => n = 0
  BY DEF Tls12Order, Opt
<1>2. m # "HELLO_RETRY_MSG"
  BY DEF Tls12Order, Opt
<1>3. m = "SERVER_HELLO" => n = 1
  BY DEF Tls12Order, Opt
<1>4. "NEGOTIATED" \notin t => n <= 1
  BY DEF Tls12Order, Opt
<1> QED BY <1>1, <1>2, <1>3, <1>4

\* ... and from it.
LEMMA WhereHellos13 ==
    ASSUME NEW t, NEW n \in Nat, n < Len(Tls13Order(t)), NEW m, m = Tls13Order(t)[n + 1],
           NEW h, h = IF "EARLY_CLIENT_CCS" \in t THEN 2 ELSE 1
    PROVE  /\ m = "CLIENT_HELLO" => n = 0 \/ ("HELLO_RETRY_REQUEST" \in t /\ "NEGOTIATED" \in t)
           /\ m = "HELLO_RETRY_MSG" => n = h /\ "HELLO_RETRY_REQUEST" \in t
           /\ m = "SERVER_HELLO" /\ "HELLO_RETRY_REQUEST" \notin t => n = h
           /\ m = "SERVER_HELLO" /\ "HELLO_RETRY_REQUEST" \in t => n > h /\ "NEGOTIATED" \in t
           /\ "NEGOTIATED" \notin t => n <= h
<1>1. ASSUME m = "CLIENT_HELLO", "NEGOTIATED" \notin t PROVE n = 0
  BY <1>1 DEF Tls13Order, Opt
<1>2. ASSUME m = "CLIENT_HELLO", "HELLO_RETRY_REQUEST" \notin t, "NEGOTIATED" \in t PROVE n = 0
  BY <1>2 DEF Tls13Order, Opt
<1>3. m = "HELLO_RETRY_MSG" => n = h /\ "HELLO_RETRY_REQUEST" \in t
  BY DEF Tls13Order, Opt
<1>4. m = "SERVER_HELLO" /\ "HELLO_RETRY_REQUEST" \notin t => n = h
  BY DEF Tls13Order, Opt
<1>5. m = "SERVER_HELLO" /\ "HELLO_RETRY_REQUEST" \in t => n > h /\ "NEGOTIATED" \in t
  BY DEF Tls13Order, Opt
<1>6. "NEGOTIATED" \notin t => n <= h
  BY DEF Tls13Order, Opt
<1> QED BY <1>1, <1>2, <1>3, <1>4, <1>5, <1>6

\* The two together.
LEMMA WhereHellos ==
    ASSUME NEW v, NEW t, NEW n \in Nat, n < Len(Order(v, t))
    PROVE  /\ At(v, t, n) = "CLIENT_HELLO" =>
                 n = 0 \/ (v = S2N_TLS13 /\ "HELLO_RETRY_REQUEST" \in t /\ "NEGOTIATED" \in t)
           /\ At(v, t, n) = "HELLO_RETRY_MSG" =>
                 v = S2N_TLS13 /\ n = HelloEnd(v, t) /\ "HELLO_RETRY_REQUEST" \in t
           /\ At(v, t, n) = "SERVER_HELLO" =>
                 \/ n = HelloEnd(v, t) /\ ~(v = S2N_TLS13 /\ "HELLO_RETRY_REQUEST" \in t)
                 \/ /\ v = S2N_TLS13 /\ "HELLO_RETRY_REQUEST" \in t /\ "NEGOTIATED" \in t
                    /\ n > HelloEnd(v, t)
           /\ "NEGOTIATED" \notin t => n <= HelloEnd(v, t)
<1>1. CASE v = S2N_TLS13
  BY <1>1, WhereHellos13 DEF Order, HelloEnd, At
<1>2. CASE v # S2N_TLS13
  BY <1>2, WhereHellos12 DEF Order, HelloEnd, At
<1> QED BY <1>1, <1>2

\* A type recomputed at a hello of a TLS 1.3 handshake rewrites nothing when
\* it keeps the flags that shaped the order so far.
LEMMA RetypeAtHellos13 ==
    ASSUME NEW t, NEW u, NEW n, NEW p, Past(S2N_TLS13, t, n, p), Defined(S2N_TLS13, u),
           At(S2N_TLS13, t, n) \in {"CLIENT_HELLO", "SERVER_HELLO"},
           "NEGOTIATED" \in t, "NEGOTIATED" \in u,
           "HELLO_RETRY_REQUEST" \in t <=> "HELLO_RETRY_REQUEST" \in u,
           "MIDDLEBOX_COMPAT" \in t <=> "MIDDLEBOX_COMPAT" \in u,
           "EARLY_CLIENT_CCS" \in t <=> "EARLY_CLIENT_CCS" \in u
    PROVE  Past(S2N_TLS13, u, n, p) /\ At(S2N_TLS13, u, n) = At(S2N_TLS13, t, n)
<1>0. n \in Nat /\ n < Len(Order(S2N_TLS13, t))
  BY DEF Past
<1>1. n < Len(Order(S2N_TLS13, u)) /\ At(S2N_TLS13, u, n) = At(S2N_TLS13, t, n)
  BY <1>0 DEF Order, Tls13Order, Opt, At
<1>2. ASSUME NEW i \in 1 .. n PROVE Order(S2N_TLS13, u)[i] = Order(S2N_TLS13, t)[i]
  BY <1>0 DEF Order, Tls13Order, Opt, At
<1> QED BY <1>1, <1>2, SamePast

\* EncryptedExtensions may announce the EndOfEarlyData that comes later.
LEMMA RetypeAtExtensions ==
    ASSUME NEW t, NEW u, NEW n, NEW p, Past(S2N_TLS13, t, n, p), Defined(S2N_TLS13, u),
           At(S2N_TLS13, t, n) = "ENCRYPTED_EXTENSIONS", u = t \cup {"WITH_EARLY_DATA"}
    PROVE  Past(S2N_TLS13, u, n, p) /\ At(S2N_TLS13, u, n) = At(S2N_TLS13, t, n)
<1>0. n \in Nat /\ n < Len(Order(S2N_TLS13, t))
  BY DEF Past
<1>1. n < Len(Order(S2N_TLS13, u)) /\ At(S2N_TLS13, u, n) = At(S2N_TLS13, t, n)
  BY <1>0 DEF Order, Tls13Order, Opt, At
<1>2. ASSUME NEW i \in 1 .. n PROVE Order(S2N_TLS13, u)[i] = Order(S2N_TLS13, t)[i]
  BY <1>0 DEF Order, Tls13Order, Opt, At
<1> QED BY <1>1, <1>2, SamePast

\* An empty client certificate drops the CertificateVerify that comes after it.
LEMMA RetypeAtClientCert ==
    ASSUME NEW v, NEW t, NEW n, NEW p, Past(v, t, n, p),
           At(v, t, n) = "CLIENT_CERT", NEW u, u = t \cup {"NO_CLIENT_CERT"}
    PROVE  Past(v, u, n, p) /\ At(v, u, n) = At(v, t, n)
<1>0. n \in Nat /\ n < Len(Order(v, t))
  BY DEF Past
<1>1. n < Len(Order(v, u)) /\ At(v, u, n) = At(v, t, n)
  <2>1. CASE v = S2N_TLS13
    BY <1>0, <2>1 DEF Order, Tls13Order, Opt, At
  <2>2. CASE v # S2N_TLS13
    BY <1>0, <2>2 DEF Order, Tls12Order, Opt, At
  <2> QED BY <2>1, <2>2
<1>2. ASSUME NEW i \in 1 .. n PROVE Order(v, u)[i] = Order(v, t)[i]
  <2>1. CASE v = S2N_TLS13
    BY <1>0, <2>1 DEF Order, Tls13Order, Opt, At
  <2>2. CASE v # S2N_TLS13
    BY <1>0, <2>2 DEF Order, Tls12Order, Opt, At
  <2> QED BY <2>1, <2>2
<1>3. {"CLIENT_AUTH", "NEGOTIATED", "FULL_HANDSHAKE"} \subseteq t
  <2>1. "CLIENT_AUTH" \in t /\ "NEGOTIATED" \in t
    BY <1>0 DEF Order, Tls12Order, Tls13Order, Opt, At
  <2> QED BY <2>1 DEF Past, Defined, Tls12Type, Tls13Type
<1>4. Defined(v, u)
  BY <1>3 DEF Past, Defined, Tls12Type, Tls13Type, CommonFlag, Tls12Flag, Tls13Flag
<1> QED BY <1>1, <1>2, <1>4, SamePast

\* A certificate status that does not come leaves only what is before it.
LEMMA RetypeAtStatus ==
    ASSUME NEW v, NEW t, NEW n, NEW p, Past(v, t, n, p),
           At(v, t, n) = "SERVER_CERT_STATUS", NEW u, u = t \ {"OCSP_STATUS"}
    PROVE  Past(v, u, n, p) /\ v # S2N_TLS13 /\ {"NEGOTIATED", "FULL_HANDSHAKE"} \subseteq t
<1>0. n \in Nat /\ n < Len(Order(v, t))
  BY DEF Past
<1>1. n < Len(Order(v, u)) /\ v # S2N_TLS13 /\ {"NEGOTIATED", "FULL_HANDSHAKE"} \subseteq t
  BY <1>0 DEF Order, Tls12Order, Tls13Order, Opt, At
<1>2. ASSUME NEW i \in 1 .. n PROVE Order(v, u)[i] = Order(v, t)[i]
  BY <1>0, <1>1 DEF Order, Tls12Order, Opt, At
<1>3. Defined(v, u)
  BY <1>1 DEF Past, Defined, Tls12Type, Tls13Type, CommonFlag, Tls12Flag, Tls13Flag
<1> QED BY <1>1, <1>2, <1>3, SamePast

(***************************************************************************)
(* The message after which a certificate request would come too late, and  *)
(* its place in a full handshake.                                          *)
(***************************************************************************)
LateMessage(v) == IF v = S2N_TLS13 THEN "SERVER_CERT" ELSE "SERVER_HELLO_DONE"

CertAt(t) ==
    LET one(b) == IF b THEN 1 ELSE 0
        ccs    == one("MIDDLEBOX_COMPAT" \in t /\ "EARLY_CLIENT_CCS" \notin t)
    IN  4 + one("EARLY_CLIENT_CCS" \in t) + one("MIDDLEBOX_COMPAT" \in t)
        + (IF "HELLO_RETRY_REQUEST" \in t THEN 2 + ccs ELSE 0) + one("CLIENT_AUTH" \in t)

DoneAt(t) ==
    LET one(f) == IF f \in t THEN 1 ELSE 0
    IN  4 + one("OCSP_STATUS") + one("TLS12_PERFECT_FORWARD_SECRECY") + one("CLIENT_AUTH")

LateAt(v, t) == IF v = S2N_TLS13 THEN CertAt(t) ELSE DoneAt(t)

\* It is where it is said to be.
LEMMA LateIsLate ==
    ASSUME NEW v, NEW t, {"NEGOTIATED", "FULL_HANDSHAKE"} \subseteq t
    PROVE  LateAt(v, t) \in Nat \ {0} /\ Order(v, t)[LateAt(v, t)] = LateMessage(v)
<1>1. CertAt(t) \in Nat \ {0} /\ Tls13Order(t)[CertAt(t)] = "SERVER_CERT"
  BY DEF Tls13Order, Opt, CertAt
<1>2. DoneAt(t) \in Nat \ {0} /\ Tls12Order(t)[DoneAt(t)] = "SERVER_HELLO_DONE"
  BY DEF Tls12Order, Opt, DoneAt
<1> QED BY <1>1, <1>2 DEF LateAt, LateMessage, Order

\* A certificate request is in the order only before it.
LEMMA ReqIsEarly ==
    ASSUME NEW v, NEW t, NEW n \in Nat, n < Len(Order(v, t)), At(v, t, n) = "SERVER_CERT_REQ",
           NEW i \in 1 .. n
    PROVE  Order(v, t)[i] # LateMessage(v)
<1>1. CASE v = S2N_TLS13
  BY <1>1 DEF Order, Tls13Order, Opt, At, LateMessage
<1>2. CASE v # S2N_TLS13
  <2>1. {"NEGOTIATED", "FULL_HANDSHAKE", "CLIENT_AUTH"} \subseteq t
    BY <1>2 DEF Order, Tls12Order, Opt, At
  <2>2. CASE "OCSP_STATUS" \in t
    BY <1>2, <2>1, <2>2 DEF Order, Tls12Order, Opt, At, LateMessage
  <2>3. CASE "OCSP_STATUS" \notin t
    BY <1>2, <2>1, <2>3 DEF Order, Tls12Order, Opt, At, LateMessage
  <2> QED BY <2>2, <2>3
<1> QED BY <1>1, <1>2

\* A certificate request that is not too late changes only what comes.
LEMMA RetypeAtRequest ==
    ASSUME NEW v, NEW t, NEW n, NEW p, Past(v, t, n, p),
           {"NEGOTIATED", "FULL_HANDSHAKE"} \subseteq t,
           \A i \in 1 .. n : p[i] # LateMessage(v),
           NEW u, u = t \cup {"CLIENT_AUTH"}
    PROVE  Past(v, u, n, p)
<1>0. n \in Nat /\ n < Len(Order(v, t)) /\ \A i \in 1 .. n : p[i] = Order(v, t)[i]
  BY OrderSeq DEF Past
<1>1. n < LateAt(v, t)
  BY <1>0, LateIsLate
<1>2. n < Len(Order(v, u))
  BY <1>0, <1>1 DEF Order, Tls12Order, Tls13Order, Opt, LateAt, CertAt, DoneAt
<1>3. ASSUME NEW i \in 1 .. n PROVE Order(v, u)[i] = Order(v, t)[i]
  BY <1>0, <1>1 DEF Order, Tls12Order, Tls13Order, Opt, LateAt, CertAt, DoneAt
<1>4. Defined(v, u)
  BY DEF Past, Defined, Tls12Type, Tls13Type, CommonFlag, Tls12Flag, Tls13Flag
<1> QED BY <1>2, <1>3, <1>4, SamePast

\* Only the end of the handshake, and the answer to the ClientHello before the
\* type is computed, are the last message of an order.
LEMMA NotLast ==
    ASSUME NEW v, NEW t, NEW n \in Nat, n < Len(Order(v, t)), At(v, t, n) # "APPLICATION_DATA",
           "NEGOTIATED" \in t \/ At(v, t, n) \notin {"SERVER_HELLO", "HELLO_RETRY_MSG"}
    PROVE  n + 1 < Len(Order(v, t))
  BY DEF Order, Tls12Order, Tls13Order, Opt, At

----------------------------------------------------------------------------
(***************************************************************************)
(* The inductive invariant.                                                *)
(***************************************************************************)

\* The client was given a session of TLS 1.2.
Resumable(k) == k["C"].session \in {"TICKET", "CACHE"}

\* The version the client offers, and the one that the two settle on.
Offered(k) == IF Resumable(k) THEN S2N_TLS12 ELSE k["C"].maxVersion

Agreed(k) == IF k["S"].maxVersion < Offered(k) THEN k["S"].maxVersion ELSE Offered(k)

\* The fields of a connection, and those that the proof is about.
ConnFields ==
    {"version", "handshake_type", "message_number", "early_data_state", "early_data_expected",
     "io", "paused", "client_hello_received", "client_hello_cb", "early_data_cb",
     "cache_retrieve", "async_state", "key_share", "chosen_psk", "client_session_resumed",
     "session_id", "session_ticket_status", "status_request", "pfs", "extract_secret",
     "derived", "r", "w", "transcript", "status"}

CoreFields ==
    {"version", "handshake_type", "message_number", "early_data_state", "io", "paused",
     "client_hello_received", "early_data_cb", "chosen_psk", "client_session_resumed",
     "session_id", "session_ticket_status", "status"}

IsConn(c) == c = [f \in ConnFields |-> c[f]] /\ c.async_state \in AsyncState

\* d is a connection like c, but for the fields F.
Same(c, d, F) == IsConn(d) /\ \A f \in CoreFields \ F : d[f] = c[f]

Neg(c) == "NEGOTIATED" \in c.handshake_type
Hrr(c) == "HELLO_RETRY_REQUEST" \in c.handshake_type

PastOf(c, p) == Past(c.version, c.handshake_type, c.message_number, p)
AtOf(c) == At(c.version, c.handshake_type, c.message_number)
HelloEndOf(c) == HelloEnd(c.version, c.handshake_type)

(***************************************************************************)
(* A client that has not failed.  Before it has computed a type it is at   *)
(* the version it offers, and only a request for early data has shaped the *)
(* order; a type that it computed is for the version agreed on.            *)
(***************************************************************************)
Opening(c) == c.message_number = 0 /\ c.io = "WIPED"

ClientUntyped(k, c) ==
    /\ c.early_data_state \in {"UNKNOWN", "REQUESTED", "NOT_REQUESTED"}
    /\ c.session_id # "SERVER"
    /\ c.handshake_type # {} => c.early_data_state = "REQUESTED"
    /\ Opening(c) => /\ c.version = IF Resumable(k) THEN S2N_TLS12 ELSE S2N_TLS13
                     /\ c.early_data_state = "UNKNOWN"
    /\ ~Opening(c) => c.version = Offered(k) /\ c.early_data_state # "UNKNOWN"

ClientTyped(k, c) ==
    /\ c.version = Agreed(k)
    /\ c.early_data_state # "UNKNOWN"
    /\ c.version = S2N_TLS13 =>
          /\ "FULL_HANDSHAKE" \in c.handshake_type <=> ~c.chosen_psk
          /\ ~k["C"].quic => "MIDDLEBOX_COMPAT" \in c.handshake_type

ClientOk(k, c) ==
    /\ c.version \in Version
    /\ c.session_ticket_status \in {"NO_TICKET", "NEW_TICKET"}
    /\ c.early_data_cb = "NOT_INVOKED"
    /\ c.client_session_resumed => Resumable(k)
    /\ c.session_id = "SESSION" => k["C"].session = "CACHE"
    /\ Hrr(c) => /\ Neg(c) /\ c.version = S2N_TLS13
                 /\ c.early_data_state \in {"NOT_REQUESTED", "REJECTED"}
    /\ ~Neg(c) => ClientUntyped(k, c)
    /\ Neg(c) => ClientTyped(k, c)

(***************************************************************************)
(* A server that has not failed.  Its type is computed at a ClientHello,   *)
(* and the lookup in the cache may leave it computed at the first one.     *)
(***************************************************************************)
ServerOk(k, c) ==
    /\ c.version \in {S2N_UNKNOWN_PROTOCOL_VERSION, Agreed(k)}
    /\ Neg(c) \/ c.client_hello_received => c.version = Agreed(k)
    /\ c.message_number > 0 => Neg(c)
    /\ ~Neg(c) /\ ~c.client_hello_received => c.handshake_type = {}
    /\ Hrr(c) => /\ c.version = S2N_TLS13
                 /\ c.early_data_state \in {"NOT_REQUESTED", "REJECTED"}
    /\ Neg(c) /\ c.version = S2N_TLS13 /\ ~k["S"].quic => "MIDDLEBOX_COMPAT" \in c.handshake_type
    /\ c.early_data_state = "ACCEPTED" => c.chosen_psk
    /\ c.early_data_cb = "INVOKED" =>
          /\ c.chosen_psk /\ c.early_data_state = "REQUESTED" /\ c.client_hello_received
          /\ k["S"].earlyCb # "NONE"
    /\ c.session_ticket_status = "DECRYPT_TICKET" =>
          k["S"].auth = "NONE" /\ k["C"].session = "TICKET"
    /\ c.session_id = "SESSION" => k["C"].session = "CACHE"
    /\ c.message_number > 0 /\ c.version = S2N_TLS12 => c.session_id = "SERVER" \/ Resumable(k)

\* A client computes the type at the answer to its ClientHello and goes past it
\* at once; a TLS 1.3 server goes past the ClientHello at once.
ClientEntered(c) == Neg(c) => c.message_number > HelloEndOf(c)

ServerEntered(c) ==
    Neg(c) /\ c.message_number = 0 => c.version # S2N_TLS13 /\ c.client_hello_received

\* What a ClientHello and a ServerHello say.
ClientHelloSays(k, body) ==
    /\ body.maxVersion = Offered(k)
    /\ body.ticket = "TICKET" => k["C"].session = "TICKET"
    /\ body.session_id = "SESSION" => k["C"].session = "CACHE"

ServerHelloSays(k, body) ==
    /\ body.version = Agreed(k)
    /\ body.hrr => Agreed(k) = S2N_TLS13
    /\ Agreed(k) # S2N_TLS13 => body.session_id = "SERVER" \/ Resumable(k)
    /\ body.session_id = "SESSION" => k["C"].session = "CACHE"

ClientSafe(k, c) == ClientOk(k, c) /\ ClientEntered(c)
ServerSafe(k, c) == ServerOk(k, c) /\ ServerEntered(c)

Safe(e, k, c) == IF e = "C" THEN ClientSafe(k, c) ELSE ServerSafe(k, c)

Alive(c) == c.status = "NEGOTIATING"

(***************************************************************************)
(* One endpoint: c its connection, o what it has not flushed, h what is on *)
(* its way to it, p its past.  A paused endpoint waits at the message it   *)
(* blocked on; a record that is not flushed is of the message being        *)
(* written.                                                                *)
(***************************************************************************)
Signed == {"SERVER_KEY", "SERVER_CERT_VERIFY", "CLIENT_CERT_VERIFY"}

Waiting(e, c, o, h) ==
    /\ c.paused /\ Writer(AtOf(c)) = e => AtOf(c) \in Signed
    /\ c.paused /\ Writer(AtOf(c)) # e => h # << >> /\ Head(h).message = WireType(AtOf(c))
    /\ o # << >> => Writer(AtOf(c)) = e /\ c.io = "MESSAGE" /\ ~c.paused

IsSeq(s) == s \in Seq({s[i] : i \in DOMAIN s})

Endpoint(e, k, c, o, h, p) ==
    /\ IsConn(c) /\ PastOf(c, p) /\ IsSeq(o) /\ IsSeq(h)
    /\ Alive(c) => Safe(e, k, c) /\ Waiting(e, c, o, h)

\* The hellos among the records on their way to e.
RecordSays(e, k, record) ==
    /\ e = "S" /\ record.message = "CLIENT_HELLO" => ClientHelloSays(k, record.body)
    /\ e = "C" /\ record.message = "TLS_SERVER_HELLO" => ServerHelloSays(k, record.body)

Says(e, k, s) == \A i \in 1 .. Len(s) : RecordSays(e, k, s[i])

\* A message that a connection has gone past, or is at.
Has(p, m) == \E i \in 1 .. Len(p) : p[i] = m

Reached(m, c, p) == Has(p, m) \/ AtOf(c) = m

\* The stream f to the client, of past p: behind the message late, which the
\* server has then reached, comes no request for a certificate.
NoRequest(f, i) == \A j \in i .. Len(f) : f[j].message # "SERVER_CERT_REQ"

Requests(late, f, p, reached) ==
    /\ \A i \in 1 .. Len(f) : f[i].message = WireType(late) => reached /\ NoRequest(f, i)
    /\ Has(p, late) => reached /\ NoRequest(f, 1)

RequestsInTime(k, f, p, c, q) ==
    LET late == LateMessage(Agreed(k)) IN Requests(late, f, p, Reached(late, c, q))

IInv ==
    /\ cfg \in Configs
    /\ conn = [e \in Mode |-> conn[e]] /\ passed = [e \in Mode |-> passed[e]]
    /\ out = [e \in Mode |-> out[e]] /\ chan = [e \in Mode |-> chan[e]]
    /\ \A e \in Mode : Endpoint(e, cfg, conn[e], out[e], chan[e], passed[e])
    /\ \A e \in Mode : Says(e, cfg, chan[e]) /\ Says(S2N_PEER_MODE(e), cfg, out[e])
    /\ RequestsInTime(cfg, chan["C"] \o out["S"], passed["C"], conn["S"], passed["S"])

----------------------------------------------------------------------------
(***************************************************************************)
(* The end of a message.                                                   *)
(***************************************************************************)

\* A connection is like itself.
LEMMA SameSelf ==
    ASSUME NEW c, IsConn(c)
    PROVE  \A F : Same(c, c, F)
  BY DEF Same

\* Like one that is like another.
LEMMA SameThen ==
    ASSUME NEW c, NEW d, NEW x, NEW F, NEW G, Same(c, d, F), Same(d, x, G)
    PROVE  Same(c, x, F \cup G)
  BY DEF Same

\* Connections that are alike are at the same place of the same order.
LEMMA SamePlace ==
    ASSUME NEW c, NEW d, NEW F, Same(c, d, F),
           F \cap {"version", "handshake_type", "message_number"} = {}
    PROVE  /\ d.version = c.version /\ d.handshake_type = c.handshake_type
           /\ d.message_number = c.message_number
           /\ AtOf(d) = AtOf(c) /\ HelloEndOf(d) = HelloEndOf(c)
           /\ \A p : PastOf(d, p) <=> PastOf(c, p)
<1>1. /\ d.version = c.version /\ d.handshake_type = c.handshake_type
      /\ d.message_number = c.message_number
  BY DEF Same, CoreFields
<1> QED BY <1>1 DEF AtOf, HelloEndOf, PastOf

\* A connection whose past is its own is at the message the table holds.
LEMMA ActiveIsAt ==
    ASSUME NEW c, NEW p, PastOf(c, p)
    PROVE  ACTIVE_MESSAGE(c) = AtOf(c)
  BY DEF PastOf, Past, AtOf, At, ACTIVE_MESSAGE, ActiveMessage

\* The secrets and the keys are none of the fields that decide the type.
LEMMA SecretsSame ==
    ASSUME NEW c, IsConn(c)
    PROVE  Same(c, s2n_tls13_secrets_update(c), {}) /\ Same(c, s2n_tls13_secrets_clean(c), {})
<1>1. ASSUME NEW level PROVE Same(c, s2n_tls13_extract_secret(c, level), {})
  BY DEF s2n_tls13_extract_secret, Same, IsConn, ConnFields, CoreFields
<1>2. Same(c, c, {})
  BY SameSelf
<1>3. Same(c, s2n_tls13_secrets_update(c), {})
  BY <1>1, <1>2 DEF s2n_tls13_secrets_update
<1>4. Same(c, [c EXCEPT !.extract_secret = "NONE"], {})
  BY DEF Same, IsConn, ConnFields, CoreFields
<1> QED BY <1>2, <1>3, <1>4 DEF s2n_tls13_secrets_clean

\* A key is put in force or refused.
LEMMA KeySame ==
    ASSUME NEW c, IsConn(c), NEW level
    PROVE  /\ Same(c, K_send(c, level).c, {}) /\ K_send(c, level).r \in {"OK", "ERROR"}
           /\ Same(c, K_recv(c, level).c, {}) /\ K_recv(c, level).r \in {"OK", "ERROR"}
  BY DEF K_send, K_recv, Ok, Fail, Same, IsConn, ConnFields, CoreFields

\* So is every step of the key schedule.
LEMMA KeysSame ==
    ASSUME NEW e, NEW c, IsConn(c), NEW res, res = s2n_tls13_key_schedule_update(e, c)
    PROVE  Same(c, res.c, {}) /\ res.r \in {"OK", "ERROR"}
<1>1. Same(c, Ok(c).c, {}) /\ Ok(c).r = "OK"
  BY SameSelf DEF Ok
<1> DEFINE m == K_send(c, "MASTER")
<1>2. ASSUME NEW level
      PROVE  Same(c, K_recv(m.c, level).c, {}) /\ K_recv(m.c, level).r \in {"OK", "ERROR"}
  <2>1. Same(c, m.c, {})
    BY KeySame
  <2>2. IsConn(m.c)
    BY <2>1 DEF Same
  <2>3. Same(m.c, K_recv(m.c, level).c, {}) /\ K_recv(m.c, level).r \in {"OK", "ERROR"}
    BY <2>2, KeySame
  <2> QED BY <2>1, <2>3 DEF Same
<1>3. ASSUME NEW level
      PROVE  /\ Same(c, K_send(c, level).c, {}) /\ K_send(c, level).r \in {"OK", "ERROR"}
             /\ Same(c, K_recv(c, level).c, {}) /\ K_recv(c, level).r \in {"OK", "ERROR"}
  BY KeySame
<1>4. Same(c, s2n_client_key_schedule(c).c, {}) /\ s2n_client_key_schedule(c).r \in {"OK", "ERROR"}
  BY <1>1, <1>2, <1>3 DEF s2n_client_key_schedule, Then
<1>5. Same(c, s2n_server_key_schedule(c).c, {}) /\ s2n_server_key_schedule(c).r \in {"OK", "ERROR"}
  BY <1>1, <1>2, <1>3 DEF s2n_server_key_schedule, Then
<1> QED BY <1>1, <1>4, <1>5 DEF s2n_tls13_key_schedule_update

\* message_number counts one message, or also the ChangeCipherSpec behind it.
LEMMA AdvanceSame ==
    ASSUME NEW e, NEW c, IsConn(c), NEW p, PastOf(c, p),
           NEW d, d = s2n_advance_message(e, c)
    PROVE  /\ Same(c, d, {"message_number"})
           /\ \/ d.message_number = c.message_number + 1
              \/ /\ d.message_number = c.message_number + 2
                 /\ ActiveMessage(c.version, c.handshake_type, c.message_number + 1) \in CCS
<1> DEFINE x == [c EXCEPT !.message_number = @ + 1]
           y == [x EXCEPT !.message_number = @ + 1]
<1>0. c.message_number \in Nat
  BY DEF PastOf, Past
<1>1. Same(c, x, {"message_number"}) /\ x.message_number = c.message_number + 1
  BY DEF Same, IsConn, ConnFields, CoreFields
<1>4. d = IF SkipsCcs(e, x) THEN y ELSE x
  BY DEF s2n_advance_message
<1>3. ACTIVE_MESSAGE(x) = ActiveMessage(c.version, c.handshake_type, c.message_number + 1)
  BY <1>1 DEF ACTIVE_MESSAGE, Same, CoreFields
<1>2. Same(c, y, {"message_number"}) /\ y.message_number = c.message_number + 2
  <2> HIDE DEF x
  <2>1. IsConn(x)
    BY <1>1 DEF Same
  <2>2. Same(x, y, {"message_number"}) /\ y.message_number = x.message_number + 1
    BY <2>1 DEF Same, IsConn, ConnFields, CoreFields
  <2>3. y.message_number = c.message_number + 2
    BY <1>0, <1>1, <2>2
  <2> HIDE DEF y
  <2> QED BY <1>1, <2>2, <2>3 DEF Same
<1> HIDE DEF x, y
<1> QED BY <1>1, <1>2, <1>3, <1>4 DEF SkipsCcs

\* d is c one message further, or also past the ChangeCipherSpec behind it.
Further(c, d) ==
    /\ Same(c, d, {"message_number"})
    /\ \/ d.message_number = c.message_number + 1
       \/ /\ d.message_number = c.message_number + 2
          /\ ActiveMessage(c.version, c.handshake_type, c.message_number + 1) \in CCS

\* The end of a message moves on, or fails and leaves the connection where it was.
LEMMA FinishSame ==
    ASSUME NEW e, NEW c, IsConn(c), NEW p, PastOf(c, p), NEW res, res = FinishMessage(e, c)
    PROVE  \/ res.r = "OK" /\ Further(c, res.c)
           \/ res.r = "ERROR" /\ Same(c, res.c, {})
<1> DEFINE c1 == s2n_tls13_secrets_update(c)
           r2 == s2n_tls13_key_schedule_update(e, c1)
           c3 == s2n_advance_message(e, r2.c)
           c4 == s2n_tls13_secrets_clean(c3)
<1>1. res = IF r2.r = "OK" THEN Ok(c4) ELSE r2
  <2>1. Then(Ok(c), LAMBDA d : Ok(s2n_tls13_secrets_update(d))) = Ok(c1)
    BY DEF Then, Ok
  <2>2. Then(Ok(c1), LAMBDA d : s2n_tls13_key_schedule_update(e, d)) = r2
    BY DEF Then, Ok
  <2>3. Then(r2, LAMBDA d : Ok(s2n_advance_message(e, d))) = IF r2.r = "OK" THEN Ok(c3) ELSE r2
    BY DEF Then
  <2>4. Then(IF r2.r = "OK" THEN Ok(c3) ELSE r2, LAMBDA d : Ok(s2n_tls13_secrets_clean(d)))
        = IF r2.r = "OK" THEN Ok(c4) ELSE r2
    BY DEF Then, Ok
  <2> QED BY <2>1, <2>2, <2>3, <2>4 DEF FinishMessage
<1>2. Same(c, c1, {})
  BY SecretsSame
<1>3. IsConn(c1)
  BY <1>2 DEF Same
<1> HIDE DEF c1
<1>4. Same(c1, r2.c, {}) /\ r2.r \in {"OK", "ERROR"}
  BY <1>3, KeysSame
<1>5. Same(c, r2.c, {}) /\ IsConn(r2.c)
  BY <1>2, <1>4 DEF Same
<1> HIDE DEF r2
<1>6. /\ r2.c.version = c.version /\ r2.c.handshake_type = c.handshake_type
      /\ r2.c.message_number = c.message_number /\ PastOf(r2.c, p)
  BY <1>5, SamePlace
<1>7. /\ Same(r2.c, c3, {"message_number"})
      /\ \/ c3.message_number = c.message_number + 1
         \/ /\ c3.message_number = c.message_number + 2
            /\ ActiveMessage(c.version, c.handshake_type, c.message_number + 1) \in CCS
  BY <1>5, <1>6, AdvanceSame
<1>8. Same(c, c3, {"message_number"}) /\ IsConn(c3)
  BY <1>5, <1>7 DEF Same
<1> HIDE DEF c3
<1>9. Same(c3, c4, {})
  BY <1>8, SecretsSame
<1>10. Same(c, c4, {"message_number"}) /\ c4.message_number = c3.message_number
  BY <1>8, <1>9 DEF Same, CoreFields
<1> HIDE DEF c4
<1>11. Further(c, c4)
  BY <1>7, <1>10 DEF Further
<1>12. CASE r2.r = "OK"
  BY <1>1, <1>11, <1>12 DEF Ok
<1>13. CASE r2.r # "OK"
  BY <1>1, <1>4, <1>5, <1>13
<1> QED BY <1>12, <1>13

\* Two beginnings of a sequence and what is between them.
LEMMA Beginnings ==
    ASSUME NEW S, NEW O \in Seq(S), NEW p \in Seq(S), NEW q \in Seq(S),
           Len(q) \in {1, 2}, Len(p) + Len(q) < Len(O),
           \A i \in 1 .. Len(p) : p[i] = O[i],
           \A i \in 1 .. Len(q) : q[i] = O[Len(p) + i]
    PROVE  /\ p \o q = SubSeq(O, 1, Len(p) + Len(q)) /\ Len(p \o q) = Len(p) + Len(q)
           /\ \A i \in 1 .. Len(p) : i \in 1 .. Len(p \o q) /\ (p \o q)[i] = p[i]
           /\ \A i \in 1 .. Len(p \o q) : (p \o q)[i] = O[i]
<1>3. p \o q \in Seq(S) /\ Len(p \o q) = Len(p) + Len(q)
  OBVIOUS
<1>4. SubSeq(O, 1, Len(p) + Len(q)) \in Seq(S) /\ Len(SubSeq(O, 1, Len(p) + Len(q))) = Len(p) + Len(q)
  OBVIOUS
<1>5. ASSUME NEW i \in 1 .. Len(p) + Len(q)
      PROVE  /\ (p \o q)[i] = O[i] /\ SubSeq(O, 1, Len(p) + Len(q))[i] = O[i]
             /\ i <= Len(p) => (p \o q)[i] = p[i]
  <2>1. SubSeq(O, 1, Len(p) + Len(q))[i] = O[i]
    OBVIOUS
  <2>2. CASE i <= Len(p)
    BY <2>1, <2>2
  <2>3. CASE i > Len(p)
    <3>1. i - Len(p) \in 1 .. Len(q) /\ (p \o q)[i] = q[i - Len(p)] /\ Len(p) + (i - Len(p)) = i
      BY <2>3
    <3> QED BY <2>1, <2>3, <3>1
  <2> QED BY <2>2, <2>3
<1>6. p \o q = SubSeq(O, 1, Len(p) + Len(q))
  BY <1>3, <1>4, <1>5
<1>7. \A i \in 1 .. Len(p) : i \in 1 .. Len(p \o q) /\ (p \o q)[i] = p[i]
  BY <1>3, <1>5
<1> QED BY <1>3, <1>5, <1>6, <1>7

\* s is p with m, and perhaps a ChangeCipherSpec, behind it.
Grown(p, s, m) ==
    /\ \A i \in 1 .. Len(s) : (i \in 1 .. Len(p) /\ s[i] = p[i]) \/ s[i] \in {m} \cup CCS
    /\ \A i \in 1 .. Len(p) : i \in 1 .. Len(s) /\ s[i] = p[i]
    /\ \E i \in 1 .. Len(s) : s[i] = m

\* The k messages after the first n.
Passing(v, t, n, k, q) == q = [i \in 1 .. k |-> ActiveMessage(v, t, n + i - 1)]

\* The past that counting k more messages makes.
LEMMA PastGrows ==
    ASSUME NEW v, NEW t, NEW n, NEW p, Past(v, t, n, p), At(v, t, n) # "APPLICATION_DATA",
           "NEGOTIATED" \in t \/ At(v, t, n) \notin {"SERVER_HELLO", "HELLO_RETRY_MSG"},
           NEW k \in {1, 2}, k = 2 => ActiveMessage(v, t, n + 1) \in CCS,
           NEW q, Passing(v, t, n, k, q), NEW s, s = p \o q
    PROVE  /\ Past(v, t, n + k, s)
           /\ Grown(p, s, At(v, t, n))
<1> DEFINE O == Order(v, t)
<1>0. /\ Defined(v, t) /\ n \in Nat /\ n < Len(O) /\ O \in Seq(Message)
      /\ p = SubSeq(O, 1, n) /\ At(v, t, n) = O[n + 1]
  BY OrderSeq DEF Past, At
<1>1. n + 1 < Len(O)
  BY <1>0, NotLast
<1>2. k = 2 => n + 2 < Len(O) /\ O[n + 2] \in CCS
  <2>1. SUFFICES ASSUME k = 2 PROVE n + 2 < Len(O) /\ O[n + 2] \in CCS
    OBVIOUS
  <2>2. n + 1 \in Nat /\ (n + 1) + 1 = n + 2
    BY <1>0
  <2>3. At(v, t, n + 1) \in CCS /\ O[n + 2] \in CCS
    BY <1>0, <1>1, <2>1, <2>2 DEF ActiveMessage, At
  <2>4. At(v, t, n + 1) \notin {"APPLICATION_DATA", "SERVER_HELLO", "HELLO_RETRY_MSG"}
    BY <2>3 DEF CCS
  <2>5. (n + 1) + 1 < Len(O)
    BY <1>1, <2>2, <2>4, NotLast
  <2> QED BY <2>2, <2>3, <2>5
<1>3. n + k < Len(O)
  BY <1>1, <1>2
<1>4. ASSUME NEW i \in 1 .. k PROVE ActiveMessage(v, t, n + i - 1) = O[n + i]
  <2>1. n + i - 1 \in Nat /\ n + i - 1 < Len(O) /\ n + i - 1 + 1 = n + i
    BY <1>0, <1>3
  <2> QED BY <1>0, <2>1 DEF ActiveMessage
<1> HIDE DEF O
<1>5. q \in Seq(Message) /\ Len(q) = k /\ \A i \in 1 .. k : q[i] = O[n + i]
  <2>1. \A i \in 1 .. k : q[i] = O[n + i]
    BY <1>4 DEF Passing
  <2>2. \A i \in 1 .. k : O[n + i] \in Message
    BY <1>0, <1>3
  <2>3. DOMAIN q = 1 .. k /\ q = [i \in 1 .. k |-> q[i]]
    BY DEF Passing
  <2>4. \A i \in 1 .. k : q[i] \in Message
    BY <2>1, <2>2
  <2>5. q \in [1 .. k -> Message]
    BY <2>3, <2>4
  <2> QED BY <2>1, <2>5
<1>6. p \in Seq(Message) /\ Len(p) = n /\ \A i \in 1 .. n : p[i] = O[i]
  BY <1>0
<1>7. /\ s = SubSeq(O, 1, n + k) /\ Len(s) = n + k
      /\ \A i \in 1 .. n : i \in 1 .. Len(s) /\ s[i] = p[i]
      /\ \A i \in 1 .. Len(s) : s[i] = O[i]
  BY <1>0, <1>3, <1>5, <1>6, Beginnings
<1>8. Past(v, t, n + k, s)
  BY <1>0, <1>3, <1>7 DEF Past, O
<1>9. ASSUME NEW i \in 1 .. Len(s)
      PROVE  (i \in 1 .. n /\ s[i] = p[i]) \/ s[i] \in {At(v, t, n)} \cup CCS
  <2>1. i \in 1 .. n \/ i = n + 1 \/ (k = 2 /\ i = n + 2)
    BY <1>0, <1>7
  <2> QED BY <1>0, <1>2, <1>7, <2>1
<1>10. n + 1 \in 1 .. Len(s) /\ s[n + 1] = At(v, t, n)
  BY <1>0, <1>7
<1> QED BY <1>6, <1>7, <1>8, <1>9, <1>10 DEF Grown

\* There is a message behind the one c is at, and d has gone past that one.
Inner(c) ==
    /\ AtOf(c) # "APPLICATION_DATA"
    /\ Neg(c) \/ AtOf(c) \notin {"SERVER_HELLO", "HELLO_RETRY_MSG"}

WentOn(c, d, p, s) ==
    PastOf(d, s) /\ Grown(p, s, AtOf(c)) /\ d.message_number > c.message_number

\* Moving on adds to the past what the order in force has there.
LEMMA FurtherPast ==
    ASSUME NEW b, NEW c, NEW d, NEW p, PastOf(c, p), b.message_number = c.message_number,
           Inner(c), Further(c, d)
    PROVE  WentOn(c, d, p, p \o PassedBy(b, d))
<1> DEFINE s == p \o PassedBy(b, d)
<1> SUFFICES WentOn(c, d, p, s)
  OBVIOUS
<1> USE DEF Inner, WentOn
<1>0. d.version = c.version /\ d.handshake_type = c.handshake_type /\ c.message_number \in Nat
  BY DEF Further, Same, CoreFields, PastOf, Past
<1>1. PICK k \in {1, 2} : /\ d.message_number = c.message_number + k
                          /\ k = 2 => ActiveMessage(c.version, c.handshake_type, c.message_number + 1) \in CCS
  BY DEF Further
<1>2. d.message_number - b.message_number = k
  BY <1>0, <1>1
<1> DEFINE q == [i \in 1 .. k |-> ActiveMessage(c.version, c.handshake_type, c.message_number + i - 1)]
<1>3. PassedBy(b, d) = q
  BY <1>0, <1>2 DEF PassedBy
<1>4. /\ Past(c.version, c.handshake_type, c.message_number, p)
      /\ AtOf(c) = At(c.version, c.handshake_type, c.message_number)
      /\ At(c.version, c.handshake_type, c.message_number) # "APPLICATION_DATA"
      /\ \/ "NEGOTIATED" \in c.handshake_type
         \/ At(c.version, c.handshake_type, c.message_number)
               \notin {"SERVER_HELLO", "HELLO_RETRY_MSG"}
  BY DEF PastOf, AtOf, Neg
<1>5. s = p \o q /\ Passing(c.version, c.handshake_type, c.message_number, k, q)
  BY <1>3 DEF Passing
<1> HIDE DEF q
<1>6. /\ Past(c.version, c.handshake_type, c.message_number + k, s)
      /\ Grown(p, s, AtOf(c))
  <2> DEFINE v == c.version
             t == c.handshake_type
             n == c.message_number
  <2>1. /\ Past(v, t, n, p) /\ AtOf(c) = At(v, t, n) /\ At(v, t, n) # "APPLICATION_DATA"
        /\ "NEGOTIATED" \in t \/ At(v, t, n) \notin {"SERVER_HELLO", "HELLO_RETRY_MSG"}
        /\ k = 2 => ActiveMessage(v, t, n + 1) \in CCS
        /\ Passing(v, t, n, k, q)
    BY <1>1, <1>4, <1>5
  <2> HIDE DEF v, t, n
  <2>2. /\ Past(v, t, n + k, s)
        /\ Grown(p, s, At(v, t, n))
    BY <1>5, <2>1, PastGrows
  <2> QED BY <2>1, <2>2 DEF v, t, n
<1>7. d.message_number > c.message_number
  BY <1>0, <1>1
<1>8. PastOf(d, s)
  BY <1>0, <1>1, <1>6 DEF PastOf
<1> QED BY <1>6, <1>7, <1>8

----------------------------------------------------------------------------
(***************************************************************************)
(* The calls that the handlers are made of.                                *)
(***************************************************************************)

\* s2n_connection_set_early_data_state changes the state or refuses.
LEMMA SetEarlySame ==
    ASSUME NEW c, IsConn(c),
           NEW next \in {"REQUESTED", "NOT_REQUESTED", "REJECTED", "ACCEPTED", "END"},
           NEW res, res = s2n_connection_set_early_data_state(c, next)
    PROVE  /\ Same(c, res.c, {"early_data_state"})
           /\ \/ /\ res.r = "OK" /\ res.c.early_data_state = next
                 /\ c.early_data_state \in {next, valid_previous_states[next]}
              \/ res = Fail(c)
           /\ c.early_data_state = valid_previous_states[next] => res.r = "OK"
  BY DEF IsConn, Same, ConnFields, CoreFields, s2n_connection_set_early_data_state,
         valid_previous_states, Ok, Fail

\* The two flags of a connection that requests early data.
EarlyType(k, c) ==
    IF c.version >= S2N_TLS13 /\ ~k.quic
    THEN c.handshake_type \cup {"MIDDLEBOX_COMPAT", "EARLY_CLIENT_CCS"} ELSE c.handshake_type

\* They are set first.
LEMMA MiddleboxSame ==
    ASSUME NEW c, IsConn(c), NEW k, NEW d, d = s2n_setup_middlebox_compat_for_early_data(k, c)
    PROVE  Same(c, d, {"handshake_type"}) /\ d.handshake_type = EarlyType(k, c)
  BY DEF IsConn, Same, ConnFields, CoreFields, EarlyType, SetFlag,
         s2n_setup_middlebox_compat_for_early_data, s2n_is_middlebox_compat_enabled

\* A request for early data sets them also when it fails.
LEMMA RequestSame ==
    ASSUME NEW c, IsConn(c), NEW k, NEW res, res = RequestEarlyData(k, c)
    PROVE  /\ Same(c, res.c, {"handshake_type", "early_data_state"})
           /\ res.c.handshake_type = EarlyType(k, c)
           /\ (res.r = "OK" /\ res.c.early_data_state = "REQUESTED") \/ res.r = "ERROR"
<1> DEFINE d == s2n_setup_middlebox_compat_for_early_data(k, c)
<1>1. res = s2n_connection_set_early_data_state(d, "REQUESTED")
  BY DEF RequestEarlyData, Then, Ok
<1>2. Same(c, d, {"handshake_type"}) /\ d.handshake_type = EarlyType(k, c)
  BY MiddleboxSame
<1> HIDE DEF d
<1>3. IsConn(d)
  BY <1>2 DEF Same
<1>4. /\ Same(d, res.c, {"early_data_state"})
      /\ (res.r = "OK" /\ res.c.early_data_state = "REQUESTED") \/ res = Fail(d)
  BY <1>1, <1>3, SetEarlySame
<1> QED BY <1>2, <1>4 DEF Same, CoreFields, Fail

\* A retry sets its flag and rejects early data.
LEMMA RetrySame ==
    ASSUME NEW c, IsConn(c), NEW res, res = s2n_set_hello_retry_required(c)
    PROVE  \/ res = Fail(c) /\ c.version < S2N_TLS13
           \/ /\ res.r = "OK" /\ ~(c.version < S2N_TLS13)
              /\ Same(c, res.c, {"handshake_type", "early_data_state"})
              /\ res.c.handshake_type = c.handshake_type \cup {"HELLO_RETRY_REQUEST"}
              /\ res.c.early_data_state = IF c.early_data_state = "REQUESTED" THEN "REJECTED"
                                          ELSE c.early_data_state
<1> DEFINE d == SetFlag(c, "HELLO_RETRY_REQUEST")
<1>1. /\ Same(c, d, {"handshake_type"})
      /\ d.handshake_type = c.handshake_type \cup {"HELLO_RETRY_REQUEST"}
  BY DEF IsConn, Same, ConnFields, CoreFields, SetFlag
<1>2. res = IF c.version < S2N_TLS13 THEN Fail(c)
            ELSE IF d.early_data_state = "REQUESTED"
                 THEN s2n_connection_set_early_data_state(d, "REJECTED") ELSE Ok(d)
  BY DEF s2n_set_hello_retry_required
<1> HIDE DEF d
<1>3. IsConn(d) /\ d.early_data_state = c.early_data_state
  BY <1>1 DEF Same, CoreFields
<1>4. CASE c.version < S2N_TLS13
  BY <1>2, <1>4
<1>5. CASE ~(c.version < S2N_TLS13) /\ d.early_data_state = "REQUESTED"
  <2>1. res = s2n_connection_set_early_data_state(d, "REJECTED")
    BY <1>2, <1>5
  <2>2. d.early_data_state = valid_previous_states["REJECTED"]
    BY <1>5 DEF valid_previous_states
  <2>3. res.r = "OK" /\ Same(d, res.c, {"early_data_state"})
        /\ (res.c.early_data_state = "REJECTED" \/ res = Fail(d))
    BY <1>3, <2>1, <2>2, SetEarlySame
  <2>4. res.c.early_data_state = "REJECTED"
    BY <2>3 DEF Fail
  <2> QED BY <1>1, <1>3, <1>5, <2>3, <2>4 DEF Same, CoreFields
<1>6. CASE ~(c.version < S2N_TLS13) /\ d.early_data_state # "REQUESTED"
  <2>1. res = Ok(d)
    BY <1>2, <1>6
  <2> QED BY <1>1, <1>3, <1>6, <2>1 DEF Same, CoreFields, Ok
<1> QED BY <1>4, <1>5, <1>6

(***************************************************************************)
(* The TLS 1.3 type.                                                       *)
(***************************************************************************)
LEMMA Tls13TypeSame ==
    ASSUME NEW mode, NEW k, NEW c, IsConn(c), NEW d,
           d = s2n_conn_set_tls13_handshake_type(mode, k, c)
    PROVE  /\ Same(c, d, {"handshake_type"})
           /\ d.handshake_type \subseteq CommonFlag \cup Tls13Flag
           /\ Neg(d) /\ (Hrr(d) <=> Hrr(c))
           /\ "FULL_HANDSHAKE" \in d.handshake_type <=> ~c.chosen_psk
           /\ "CLIENT_AUTH" \in d.handshake_type => ~c.chosen_psk
           /\ "NO_CLIENT_CERT" \notin d.handshake_type
           /\ "WITH_EARLY_DATA" \in d.handshake_type <=> c.early_data_state = "ACCEPTED"
           /\ "MIDDLEBOX_COMPAT" \in d.handshake_type <=>
                 \/ "MIDDLEBOX_COMPAT" \in c.handshake_type
                 \/ c.version >= S2N_TLS13 /\ ~k.quic
           /\ "EARLY_CLIENT_CCS" \in d.handshake_type <=> "EARLY_CLIENT_CCS" \in c.handshake_type
<1> DEFINE t == d.handshake_type
           kept == c.handshake_type \cap {"HELLO_RETRY_REQUEST", "MIDDLEBOX_COMPAT",
                                          "EARLY_CLIENT_CCS"}
           full == ~c.chosen_psk
           auth == full /\ IF mode = "C" THEN k.auth = "REQUIRED" ELSE k.auth # "NONE"
           flags == {f \in {"NEGOTIATED", "FULL_HANDSHAKE", "WITH_EARLY_DATA",
                         "CLIENT_AUTH", "MIDDLEBOX_COMPAT"} :
                     \/ f = "NEGOTIATED"
                     \/ f = "FULL_HANDSHAKE" /\ full
                     \/ f = "WITH_EARLY_DATA" /\ c.early_data_state = "ACCEPTED"
                     \/ f = "CLIENT_AUTH" /\ auth
                     \/ f = "MIDDLEBOX_COMPAT" /\ s2n_is_middlebox_compat_enabled(k, c)}
<1>1. d = [c EXCEPT !.handshake_type = kept \cup flags]
  BY DEF s2n_conn_set_tls13_handshake_type
<1> HIDE DEF kept, flags
<1>2. Same(c, d, {"handshake_type"}) /\ t = kept \cup flags
  BY <1>1 DEF IsConn, Same, ConnFields, CoreFields
<1> HIDE DEF t
<1>3. t \subseteq CommonFlag \cup Tls13Flag
  BY <1>2 DEF kept, flags, CommonFlag, Tls13Flag
<1>4. /\ "NEGOTIATED" \in t
      /\ "HELLO_RETRY_REQUEST" \in t <=> "HELLO_RETRY_REQUEST" \in c.handshake_type
      /\ "FULL_HANDSHAKE" \in t <=> ~c.chosen_psk
      /\ "CLIENT_AUTH" \in t => ~c.chosen_psk
      /\ "NO_CLIENT_CERT" \notin t
      /\ "WITH_EARLY_DATA" \in t <=> c.early_data_state = "ACCEPTED"
      /\ "EARLY_CLIENT_CCS" \in t <=> "EARLY_CLIENT_CCS" \in c.handshake_type
  BY <1>2 DEF kept, flags
<1>5. "MIDDLEBOX_COMPAT" \in t <=> \/ "MIDDLEBOX_COMPAT" \in c.handshake_type
                                   \/ c.version >= S2N_TLS13 /\ ~k.quic
  BY <1>2 DEF kept, flags, s2n_is_middlebox_compat_enabled
<1> QED BY <1>2, <1>3, <1>4, <1>5 DEF t, Neg, Hrr

\* It has an entry in the table when early data that is accepted came with a
\* PSK and without a retry.
LEMMA Tls13TypeDefined ==
    ASSUME NEW mode, NEW k, NEW c, IsConn(c), Defined(S2N_TLS13, c.handshake_type),
           c.early_data_state = "ACCEPTED" => c.chosen_psk /\ ~Hrr(c),
           NEW d, d = s2n_conn_set_tls13_handshake_type(mode, k, c)
    PROVE  Defined(S2N_TLS13, d.handshake_type)
<1> DEFINE t == d.handshake_type
<1>1. /\ t \subseteq CommonFlag \cup Tls13Flag
      /\ "NEGOTIATED" \in t
      /\ "HELLO_RETRY_REQUEST" \in t <=> "HELLO_RETRY_REQUEST" \in c.handshake_type
      /\ "FULL_HANDSHAKE" \in t <=> ~c.chosen_psk
      /\ "CLIENT_AUTH" \in t => ~c.chosen_psk
      /\ "NO_CLIENT_CERT" \notin t
      /\ "WITH_EARLY_DATA" \in t <=> c.early_data_state = "ACCEPTED"
      /\ "EARLY_CLIENT_CCS" \in t <=> "EARLY_CLIENT_CCS" \in c.handshake_type
      /\ "MIDDLEBOX_COMPAT" \in c.handshake_type => "MIDDLEBOX_COMPAT" \in t
  BY Tls13TypeSame DEF Neg, Hrr
<1> HIDE DEF t
<1>2. "EARLY_CLIENT_CCS" \in c.handshake_type => "MIDDLEBOX_COMPAT" \in c.handshake_type
  BY DEF Defined, Tls13Type
<1>3. "HELLO_RETRY_REQUEST" \in c.handshake_type => c.early_data_state # "ACCEPTED"
  BY DEF Hrr
<1> QED BY <1>1, <1>2, <1>3 DEF Defined, Tls13Type, t

(***************************************************************************)
(* The type before TLS 1.3.  A ticket that decrypts is not looked at when  *)
(* the server authenticates clients, and a client that requires            *)
(* authentication was given no session: a resumption has no CLIENT_AUTH.   *)
(***************************************************************************)

\* What the type is made of.
LEMMA FullType ==
    ASSUME NEW mode, NEW c, IsConn(c), NEW d, d = Tls12FullHandshake(mode, c),
           c.handshake_type \subseteq {"NEGOTIATED", "CLIENT_AUTH", "WITH_SESSION_TICKET"}, Neg(c)
    PROVE  /\ Same(c, d, {"handshake_type", "session_id"})
           /\ Neg(d) /\ Tls12Type(d.handshake_type)
           /\ d.session_id = IF mode = "S" THEN "SERVER" ELSE c.session_id
<1> DEFINE t == c.handshake_type \cup {"FULL_HANDSHAKE"}
                    \cup (IF c.pfs THEN {"TLS12_PERFECT_FORWARD_SECRECY"} ELSE {})
                    \cup (IF c.status_request THEN {"OCSP_STATUS"} ELSE {})
           i == IF mode = "S" THEN "SERVER" ELSE c.session_id
<1>1. d = [c EXCEPT !.session_id = i, !.handshake_type = t]
  BY DEF Tls12FullHandshake
<1>2. "NEGOTIATED" \in t /\ Tls12Type(t)
  BY DEF Neg, Tls12Type, CommonFlag, Tls12Flag
<1> HIDE DEF t, i
<1>3. Same(c, d, {"handshake_type", "session_id"}) /\ d.handshake_type = t /\ d.session_id = i
  BY <1>1 DEF IsConn, Same, ConnFields, CoreFields
<1> QED BY <1>2, <1>3 DEF Neg, i

\* The type is for a full handshake, or for one that resumes.
LEMMA Tls12TypeSame ==
    ASSUME NEW mode \in Mode, NEW k, NEW c, IsConn(c),
           NEW res, res = s2n_conn_set_tls12_handshake_type(mode, k, c),
           c.session_ticket_status = "DECRYPT_TICKET" => mode = "S" /\ k.auth = "NONE",
           mode = "C" /\ c.client_session_resumed => k.auth # "REQUIRED"
    PROVE  /\ Same(c, res.c, {"handshake_type", "session_id", "session_ticket_status"})
           /\ Neg(res.c) /\ Tls12Type(res.c.handshake_type)
           /\ res.c.session_ticket_status \in {c.session_ticket_status, "NEW_TICKET"}
           /\ res.c.session_id = c.session_id \/ (mode = "S" /\ res.c.session_id = "SERVER")
           /\ \/ /\ res.r = "OK"
                 /\ mode = "S" => \/ res.c.session_id = "SERVER"
                                  \/ c.session_ticket_status = "DECRYPT_TICKET"
                                  \/ c.session_id = "SESSION"
              \/ res.r = "ASYNC_BLOCKED" /\ mode = "S"
<1> DEFINE auth == IF mode = "C" THEN k.auth = "REQUIRED" ELSE k.auth # "NONE"
           bt == {"NEGOTIATED"} \cup IF auth THEN {"CLIENT_AUTH"} ELSE {}
           base == [c EXCEPT !.handshake_type = bt]
           new == [base EXCEPT !.session_ticket_status = "NEW_TICKET"]
           renewed == SetFlag(new, "WITH_SESSION_TICKET")
           ticket == IF k.use_tickets /\ c.session_ticket_status = "NEW_TICKET"
                     THEN SetFlag(base, "WITH_SESSION_TICKET") ELSE base
           cached == s2n_resume_from_cache(k, ticket)
<1>1. res = IF k.use_tickets /\ c.session_ticket_status = "DECRYPT_TICKET"
            THEN IF k.session # "TICKET" THEN Ok(Tls12FullHandshake(mode, renewed))
                 ELSE Ok(IF k.renew THEN renewed ELSE base)
            ELSE IF mode = "S" /\ s2n_allowed_to_cache_connection(k) /\ cached.r # "ERROR"
            THEN cached
            ELSE IF mode = "C" /\ c.client_session_resumed
            THEN Ok(ticket)
            ELSE Ok(Tls12FullHandshake(mode, ticket))
  BY DEF s2n_conn_set_tls12_handshake_type
<1>2. Same(c, base, {"handshake_type"}) /\ base.handshake_type = bt
  BY DEF IsConn, Same, ConnFields, CoreFields
<1>3. /\ bt \subseteq {"NEGOTIATED", "CLIENT_AUTH"} /\ "NEGOTIATED" \in bt
      /\ ~auth => bt = {"NEGOTIATED"}
  OBVIOUS
<1>4. (mode = "S" /\ k.auth = "NONE") \/ (mode = "C" /\ k.auth # "REQUIRED") => ~auth
  OBVIOUS
<1> HIDE DEF base, bt, auth
<1>5. IsConn(base)
  BY <1>2 DEF Same
<1>6. /\ Same(base, new, {"session_ticket_status"})
      /\ new.session_ticket_status = "NEW_TICKET"
  BY <1>5 DEF IsConn, Same, ConnFields, CoreFields
<1> HIDE DEF new
<1>7. IsConn(new) /\ new.handshake_type = bt
  BY <1>2, <1>6 DEF Same, CoreFields
<1>8. /\ Same(new, renewed, {"handshake_type"})
      /\ renewed.handshake_type = bt \cup {"WITH_SESSION_TICKET"}
  BY <1>7 DEF SetFlag, IsConn, Same, ConnFields, CoreFields
<1> HIDE DEF renewed
<1>9. /\ Same(c, renewed, {"handshake_type", "session_ticket_status"})
      /\ renewed.session_ticket_status = "NEW_TICKET"
  BY <1>2, <1>6, <1>8 DEF Same, CoreFields
<1>10. /\ Same(base, ticket, {"handshake_type"})
       /\ ticket.handshake_type \in {bt, bt \cup {"WITH_SESSION_TICKET"}}
  BY <1>2, <1>5 DEF SetFlag, IsConn, Same, ConnFields, CoreFields
<1> HIDE DEF ticket
<1>11. Same(c, ticket, {"handshake_type"}) /\ IsConn(ticket) /\ IsConn(renewed)
  BY <1>2, <1>9, <1>10 DEF Same, CoreFields
<1>12. ASSUME NEW x, x.handshake_type \in {bt, bt \cup {"WITH_SESSION_TICKET"}}
       PROVE  /\ Neg(x)
              /\ x.handshake_type \subseteq {"NEGOTIATED", "CLIENT_AUTH", "WITH_SESSION_TICKET"}
              /\ ~auth => Tls12Type(x.handshake_type)
  BY <1>3, <1>12 DEF Neg, Tls12Type, CommonFlag, Tls12Flag
<1>13. CASE k.use_tickets /\ c.session_ticket_status = "DECRYPT_TICKET"
  <2>1. mode = "S" /\ ~auth
    BY <1>4, <1>13
  <2>2. CASE k.session # "TICKET"
    <3> DEFINE d == Tls12FullHandshake(mode, renewed)
    <3>1. /\ Same(renewed, d, {"handshake_type", "session_id"}) /\ Neg(d)
          /\ Tls12Type(d.handshake_type) /\ d.session_id = "SERVER"
      BY <1>8, <1>11, <1>12, <2>1, FullType
    <3>2. res = Ok(d)
      BY <1>1, <1>13, <2>2
    <3> HIDE DEF d
    <3>3. res.r = "OK" /\ res.c = d
      BY <3>2 DEF Ok
    <3> QED BY <1>9, <2>1, <3>1, <3>3 DEF Same, CoreFields
  <2>3. CASE k.session = "TICKET"
    <3>1. res = Ok(renewed) \/ res = Ok(base)
      BY <1>1, <1>13, <2>3
    <3>2. res.r = "OK" /\ (res.c = renewed \/ res.c = base)
      BY <3>1 DEF Ok
    <3>3. Neg(res.c) /\ Tls12Type(res.c.handshake_type)
      BY <1>2, <1>8, <1>12, <2>1, <3>2
    <3> QED BY <1>2, <1>9, <1>13, <2>1, <3>2, <3>3 DEF Same, CoreFields
  <2> QED BY <2>2, <2>3
<1>14. CASE /\ ~(k.use_tickets /\ c.session_ticket_status = "DECRYPT_TICKET")
            /\ mode = "S" /\ s2n_allowed_to_cache_connection(k) /\ cached.r # "ERROR"
  <2>1. res = cached /\ ~auth
    BY <1>1, <1>4, <1>14 DEF s2n_allowed_to_cache_connection
  <2>2. /\ Same(ticket, cached.c, {})
        /\ \/ cached.r = "ASYNC_BLOCKED"
           \/ cached.r = "OK" /\ ticket.session_id = "SESSION"
    BY <1>11, <1>14 DEF s2n_resume_from_cache, IsConn, Same, ConnFields, CoreFields, Ok, Fail,
                        Block, Ensure
  <2> HIDE DEF cached
  <2>3. Same(c, res.c, {"handshake_type"}) /\ res.c.handshake_type = ticket.handshake_type
    BY <1>11, <2>1, <2>2 DEF Same, CoreFields
  <2>4. Neg(res.c) /\ Tls12Type(res.c.handshake_type)
    BY <1>10, <1>12, <2>1, <2>3
  <2>5. ticket.session_id = c.session_id
    BY <1>11 DEF Same, CoreFields
  <2> QED BY <1>14, <2>1, <2>2, <2>3, <2>4, <2>5 DEF Same, CoreFields
<1>15. CASE /\ ~(k.use_tickets /\ c.session_ticket_status = "DECRYPT_TICKET")
            /\ ~(mode = "S" /\ s2n_allowed_to_cache_connection(k) /\ cached.r # "ERROR")
            /\ mode = "C" /\ c.client_session_resumed
  <2>1. res.r = "OK" /\ res.c = ticket /\ ~auth
    BY <1>1, <1>4, <1>15 DEF Ok
  <2>2. Neg(res.c) /\ Tls12Type(res.c.handshake_type)
    BY <1>10, <1>12, <2>1
  <2> QED BY <1>11, <1>15, <2>1, <2>2 DEF Same, CoreFields
<1>16. CASE /\ ~(k.use_tickets /\ c.session_ticket_status = "DECRYPT_TICKET")
            /\ ~(mode = "S" /\ s2n_allowed_to_cache_connection(k) /\ cached.r # "ERROR")
            /\ ~(mode = "C" /\ c.client_session_resumed)
  <2> DEFINE d == Tls12FullHandshake(mode, ticket)
  <2>1. /\ Same(ticket, d, {"handshake_type", "session_id"}) /\ Neg(d)
        /\ Tls12Type(d.handshake_type)
        /\ d.session_id = IF mode = "S" THEN "SERVER" ELSE ticket.session_id
    BY <1>10, <1>11, <1>12, FullType
  <2>2. res = Ok(d)
    BY <1>1, <1>16
  <2> HIDE DEF d
  <2>3. res.r = "OK" /\ res.c = d
    BY <2>2 DEF Ok
  <2>4. ticket.session_id = c.session_id
    BY <1>11 DEF Same, CoreFields
  <2> QED BY <1>11, <2>1, <2>3, <2>4 DEF Same, CoreFields, Mode
<1> QED BY <1>13, <1>14, <1>15, <1>16

(***************************************************************************)
(* The ClientHello is sent.                                                *)
(***************************************************************************)

\* The versions that are configured, offered and agreed on.
LEMMA Versions ==
    ASSUME NEW k \in Configs
    PROVE  /\ k["C"].maxVersion \in {33, 34} /\ k["S"].maxVersion \in {33, 34}
           /\ Offered(k) \in {33, 34} /\ Agreed(k) \in {33, 34}
           /\ Agreed(k) = 34 => Offered(k) = 34
           /\ Offered(k) = 34 => k["C"].maxVersion = 34 /\ ~Resumable(k)
           /\ Offered(k) = 33 => Resumable(k) \/ k["C"].maxVersion = 33
<1>1. k \in [Mode -> Config]
  BY NegotiateAssumption
<1>2. k["C"] \in Config /\ k["S"] \in Config
  BY <1>1 DEF Mode
<1>3. k["C"].maxVersion \in {33, 34} /\ k["S"].maxVersion \in {33, 34}
  BY <1>2 DEF Config, Version, S2N_TLS12, S2N_TLS13
<1> QED BY <1>3 DEF Offered, Agreed, S2N_TLS12, S2N_TLS13

\* The session id is generated or kept.
LEMMA SessionIdSame ==
    ASSUME NEW k, NEW c, IsConn(c), NEW d, d = s2n_generate_client_session_id(k, c)
    PROVE  Same(c, d, {"session_id"}) /\ d.session_id \in {c.session_id, "CLIENT"}
  BY DEF s2n_generate_client_session_id, IsConn, Same, ConnFields, CoreFields

\* Sending lowers the version, generates a session id and requests early data.
Lowered(k, c) == IF k.maxVersion < S2N_TLS13 THEN [c EXCEPT !.version = S2N_TLS12] ELSE c

HelloSent(k, c, d, res) ==
    /\ Same(c, d, {"version"})
    /\ d.version = IF k.maxVersion < S2N_TLS13 THEN S2N_TLS12 ELSE c.version
    /\ Same(d, res.c, {"session_id", "handshake_type", "early_data_state"})
    /\ res.c.session_id \in {c.session_id, "CLIENT"}
    /\ \/ /\ ~IS_HELLO_RETRY_HANDSHAKE(d)
          /\ res.c.handshake_type = EarlyType(k, d)
          /\ (res.r = "OK" /\ res.c.early_data_state = "REQUESTED") \/ res.r = "ERROR"
       \/ /\ res.c.handshake_type = d.handshake_type
          /\ res.r = "OK"
          /\ res.c.early_data_state = IF d.early_data_state = "UNKNOWN"
                                      THEN "NOT_REQUESTED" ELSE d.early_data_state

\* It does no more.
LEMMA ClientHelloSame ==
    ASSUME NEW k, NEW c, IsConn(c), NEW res, res = s2n_client_hello_send(k, c)
    PROVE  HelloSent(k, c, Lowered(k, c), res)
<1> DEFINE d == Lowered(k, c)
<1> SUFFICES HelloSent(k, c, d, res)
  OBVIOUS
<1> USE DEF HelloSent
<1>1. Same(c, d, {"version"}) /\ d.version = IF k.maxVersion < S2N_TLS13 THEN S2N_TLS12 ELSE c.version
  BY DEF Lowered, IsConn, Same, ConnFields, CoreFields
<1> DEFINE s == s2n_generate_client_session_id(k, d)
           rq == RequestEarlyData(k, s)
           no == s2n_connection_set_early_data_state(s, "NOT_REQUESTED")
<1>2. res = IF s2n_client_early_data_indication_should_send(k, s) THEN rq
            ELSE IF s.early_data_state = "UNKNOWN" THEN no ELSE Ok(s)
  <2>1. Then(Ok(d), LAMBDA x : Ok(s2n_generate_client_session_id(k, x))) = Ok(s)
    BY DEF Then, Ok
  <2> HIDE DEF s
  <2>2. Then(Ok(s), LAMBDA x : IF s2n_client_early_data_indication_should_send(k, x)
                    THEN RequestEarlyData(k, x)
                    ELSE IF x.early_data_state = "UNKNOWN"
                    THEN s2n_connection_set_early_data_state(x, "NOT_REQUESTED")
                    ELSE Ok(x))
        = IF s2n_client_early_data_indication_should_send(k, s) THEN rq
            ELSE IF s.early_data_state = "UNKNOWN" THEN no ELSE Ok(s)
    BY DEF Then, Ok
  <2> QED BY <2>1, <2>2 DEF s2n_client_hello_send, s, Lowered
<1> HIDE DEF d
<1>3. IsConn(d) /\ d.session_id = c.session_id
  BY <1>1 DEF Same, CoreFields
<1>4. Same(d, s, {"session_id"}) /\ s.session_id \in {c.session_id, "CLIENT"}
  BY <1>3, SessionIdSame
<1> HIDE DEF s
<1>5. /\ IsConn(s) /\ s.version = d.version /\ s.handshake_type = d.handshake_type
      /\ s.early_data_state = d.early_data_state
  BY <1>4 DEF Same, CoreFields
<1>6. CASE s2n_client_early_data_indication_should_send(k, s)
  <2>1. res = rq
    BY <1>2, <1>6
  <2>2. /\ Same(s, res.c, {"handshake_type", "early_data_state"})
        /\ res.c.handshake_type = EarlyType(k, s)
        /\ (res.r = "OK" /\ res.c.early_data_state = "REQUESTED") \/ res.r = "ERROR"
    BY <1>5, <2>1, RequestSame
  <2>3. ~IS_HELLO_RETRY_HANDSHAKE(d) /\ EarlyType(k, s) = EarlyType(k, d)
    BY <1>5, <1>6 DEF s2n_client_early_data_indication_should_send, IS_HELLO_RETRY_HANDSHAKE,
                      EarlyType
  <2> QED BY <1>1, <1>4, <2>2, <2>3 DEF Same, CoreFields
<1>7. CASE ~s2n_client_early_data_indication_should_send(k, s) /\ s.early_data_state = "UNKNOWN"
  <2>1. res = no
    BY <1>2, <1>7
  <2>2. s.early_data_state = valid_previous_states["NOT_REQUESTED"]
    BY <1>7 DEF valid_previous_states
  <2>3. /\ Same(s, res.c, {"early_data_state"}) /\ res.r = "OK"
        /\ res.c.early_data_state = "NOT_REQUESTED" \/ res = Fail(s)
    BY <1>5, <2>1, <2>2, SetEarlySame
  <2>4. res.c.early_data_state = "NOT_REQUESTED"
    BY <2>3 DEF Fail
  <2> QED BY <1>1, <1>4, <1>5, <1>7, <2>3, <2>4 DEF Same, CoreFields
<1>8. CASE ~s2n_client_early_data_indication_should_send(k, s) /\ s.early_data_state # "UNKNOWN"
  <2>1. res.r = "OK" /\ res.c = s
    BY <1>2, <1>8 DEF Ok
  <2> QED BY <1>1, <1>4, <1>5, <1>8, <2>1 DEF Same, CoreFields
<1> QED BY <1>6, <1>7, <1>8

(***************************************************************************)
(* What a handler leaves when it does not fail, and what it always keeps.  *)
(***************************************************************************)
Kept(c, d, p) ==
    /\ IsConn(d)
    /\ d.message_number = c.message_number /\ d.status = c.status
    /\ d.paused = c.paused /\ d.io = c.io
    /\ PastOf(d, p)

\* A connection like c keeps all of it.
LEMMA SameKept ==
    ASSUME NEW c, NEW d, NEW p, PastOf(c, p), NEW F, Same(c, d, F),
           F \cap {"version", "handshake_type", "message_number", "status", "paused", "io"} = {}
    PROVE  Kept(c, d, p) /\ AtOf(d) = AtOf(c)
<1>1. PastOf(d, p) /\ AtOf(d) = AtOf(c)
  BY SamePlace
<1> QED BY <1>1 DEF Kept, Same, CoreFields

\* A client moves on, or its output buffer changes.
LEMMA ClientSafeSame ==
    ASSUME NEW k, NEW c, NEW d, ClientSafe(k, c), Same(c, d, {"io", "paused", "message_number"}),
           c.message_number \in Nat, d.message_number \in Nat,
           d.message_number >= c.message_number,
           Opening(c) <=> Opening(d)
    PROVE  ClientSafe(k, d)
<1>1. /\ d.version = c.version /\ d.handshake_type = c.handshake_type
      /\ d.early_data_state = c.early_data_state /\ d.early_data_cb = c.early_data_cb
      /\ d.chosen_psk = c.chosen_psk /\ d.client_session_resumed = c.client_session_resumed
      /\ d.session_id = c.session_id /\ d.session_ticket_status = c.session_ticket_status
  BY DEF Same, CoreFields
<1>2. ClientOk(k, d)
  <2>1. Neg(d) <=> Neg(c)
    BY <1>1 DEF Neg
  <2>2. Hrr(d) <=> Hrr(c)
    BY <1>1 DEF Hrr
  <2>3. ClientUntyped(k, c) => ClientUntyped(k, d)
    BY <1>1 DEF ClientUntyped
  <2>4. ClientTyped(k, c) => ClientTyped(k, d)
    BY <1>1 DEF ClientTyped
  <2> HIDE DEF Neg, Hrr
  <2> QED BY <1>1, <2>1, <2>2, <2>3, <2>4 DEF ClientOk, ClientSafe
<1>3. ClientEntered(d)
  BY <1>1 DEF ClientSafe, ClientEntered, Neg, HelloEndOf, HelloEnd
<1> QED BY <1>2, <1>3 DEF ClientSafe

\* A server's output buffer changes.
LEMMA ServerSafeSame ==
    ASSUME NEW k, NEW c, NEW d, ServerSafe(k, c), Same(c, d, {}) \/ Same(c, d, {"io", "paused"})
    PROVE  ServerSafe(k, d)
<1>1. /\ d.version = c.version /\ d.handshake_type = c.handshake_type
      /\ d.message_number = c.message_number /\ d.early_data_state = c.early_data_state
      /\ d.early_data_cb = c.early_data_cb
      /\ d.chosen_psk = c.chosen_psk /\ d.client_hello_received = c.client_hello_received
      /\ d.session_id = c.session_id /\ d.session_ticket_status = c.session_ticket_status
  BY DEF Same, CoreFields
<1>2. (Neg(d) <=> Neg(c)) /\ (Hrr(d) <=> Hrr(c))
  BY <1>1 DEF Neg, Hrr
<1>3. ServerOk(k, d)
  BY <1>1, <1>2 DEF ServerSafe, ServerOk
<1> QED BY <1>1, <1>2, <1>3 DEF ServerSafe, ServerEntered

\* A client that goes past a message other than the first hello.
Sendable(k, c) ==
    \A d : Same(c, d, {"io", "paused"}) /\ d.io = "MESSAGE" => ClientSafe(k, d)

\* One that was safe can send, if it is not at the first message.
LEMMA SafeSendable ==
    ASSUME NEW k, NEW c, NEW p, PastOf(c, p), ClientSafe(k, c), c.message_number # 0
    PROVE  Sendable(k, c)
<1> SUFFICES ASSUME NEW d, Same(c, d, {"io", "paused"}), d.io = "MESSAGE" PROVE ClientSafe(k, d)
  BY DEF Sendable
<1>1. c.message_number \in Nat /\ d.message_number = c.message_number
  BY DEF PastOf, Past, Same, CoreFields
<1>2. ~Opening(c) /\ ~Opening(d)
  BY <1>1 DEF Opening
<1>3. Same(c, d, {"io", "paused", "message_number"})
  BY DEF Same
<1> QED BY <1>1, <1>2, <1>3, ClientSafeSame

\* The first ClientHello.
LEMMA FirstHelloSent ==
    ASSUME NEW k \in Configs, NEW c, IsConn(c), NEW p, PastOf(c, p), ClientSafe(k, c),
           c.message_number = 0, c.io = "WIPED",
           NEW res, res = s2n_client_hello_send(k["C"], c)
    PROVE  /\ Kept(c, res.c, p) /\ AtOf(res.c) = "CLIENT_HELLO" /\ res.r \in {"OK", "ERROR"}
           /\ res.r = "OK" => Sendable(k, res.c) /\ ClientHelloSays(k, ClientHelloBody(k["C"], res.c))
<1> DEFINE d == Lowered(k["C"], c)
<1>0. HelloSent(k["C"], c, d, res)
  BY ClientHelloSame
<1> HIDE DEF d
<1>1. /\ Same(c, d, {"version"})
      /\ d.version = IF k["C"].maxVersion < S2N_TLS13 THEN S2N_TLS12 ELSE c.version
      /\ Same(d, res.c, {"session_id", "handshake_type", "early_data_state"})
      /\ res.c.session_id \in {c.session_id, "CLIENT"}
      /\ \/ /\ ~IS_HELLO_RETRY_HANDSHAKE(d)
            /\ res.c.handshake_type = EarlyType(k["C"], d)
            /\ (res.r = "OK" /\ res.c.early_data_state = "REQUESTED") \/ res.r = "ERROR"
         \/ /\ res.c.handshake_type = d.handshake_type
            /\ res.r = "OK"
            /\ res.c.early_data_state = IF d.early_data_state = "UNKNOWN"
                                        THEN "NOT_REQUESTED" ELSE d.early_data_state
  BY <1>0 DEF HelloSent
<1>2. ~Neg(c) /\ Opening(c)
  BY DEF ClientSafe, ClientEntered, Opening, HelloEndOf, HelloEnd
<1>3. /\ c.early_data_state = "UNKNOWN" /\ c.handshake_type = {} /\ c.session_id # "SERVER"
      /\ c.version = IF Resumable(k) THEN S2N_TLS12 ELSE S2N_TLS13
  BY <1>2 DEF ClientSafe, ClientOk, ClientUntyped
<1>4. d.version = Offered(k) /\ d.version \in {33, 34}
  BY <1>1, <1>3, Versions DEF S2N_TLS12, S2N_TLS13
<1>5. /\ d.handshake_type = {} /\ d.early_data_state = "UNKNOWN"
      /\ d.message_number = 0 /\ d.status = c.status /\ d.paused = c.paused /\ d.io = c.io
      /\ d.session_ticket_status = c.session_ticket_status /\ d.early_data_cb = c.early_data_cb
      /\ d.client_session_resumed = c.client_session_resumed
  BY <1>1, <1>3 DEF Same, CoreFields
<1>6. /\ res.c.handshake_type \in {{}, {"MIDDLEBOX_COMPAT", "EARLY_CLIENT_CCS"}}
      /\ res.c.handshake_type # {} => d.version = S2N_TLS13 /\ (res.r = "OK" => res.c.early_data_state = "REQUESTED")
      /\ res.r = "OK" => res.c.early_data_state \in {"REQUESTED", "NOT_REQUESTED"}
      /\ res.r \in {"OK", "ERROR"}
  BY <1>1, <1>4, <1>5 DEF EarlyType, S2N_TLS13
<1>7. /\ IsConn(res.c) /\ res.c.version = d.version /\ res.c.message_number = 0
      /\ res.c.status = c.status /\ res.c.paused = c.paused /\ res.c.io = c.io
      /\ res.c.session_ticket_status = c.session_ticket_status
      /\ res.c.early_data_cb = c.early_data_cb
      /\ res.c.client_session_resumed = c.client_session_resumed
  BY <1>1, <1>5 DEF Same, CoreFields
<1>8. Defined(res.c.version, res.c.handshake_type)
  BY <1>6, <1>7 DEF Defined, Tls12Type, Tls13Type, CommonFlag, Tls12Flag, Tls13Flag, S2N_TLS13
<1>9. PastOf(res.c, p)
  BY <1>7, <1>8, RetypeAtHello DEF PastOf
<1>10. AtOf(res.c) = "CLIENT_HELLO"
  <2>1. Order(res.c.version, res.c.handshake_type)[1] = "CLIENT_HELLO"
    BY StartsWithHello
  <2> QED BY <1>7, <2>1 DEF AtOf, At
<1>11. Kept(c, res.c, p)
  BY <1>7, <1>9 DEF Kept
<1>12. ASSUME res.r = "OK" PROVE Sendable(k, res.c)
  <2> SUFFICES ASSUME NEW x, Same(res.c, x, {"io", "paused"}), x.io = "MESSAGE"
               PROVE  ClientSafe(k, x)
    BY DEF Sendable
  <2>1. /\ x.version = Offered(k) /\ x.handshake_type = res.c.handshake_type
        /\ x.early_data_state = res.c.early_data_state /\ x.message_number = 0
        /\ x.session_id = res.c.session_id
        /\ x.session_ticket_status = c.session_ticket_status
        /\ x.early_data_cb = c.early_data_cb
        /\ x.client_session_resumed = c.client_session_resumed
    BY <1>4, <1>7 DEF Same, CoreFields
  <2>2. ~Neg(x) /\ ~Hrr(x) /\ ~Opening(x)
    BY <1>6, <2>1 DEF Neg, Hrr, Opening
  <2>3. ClientUntyped(k, x)
    BY <1>1, <1>3, <1>6, <1>12, <2>1, <2>2 DEF ClientUntyped
  <2>4. ClientOk(k, x)
    BY <1>1, <1>4, <2>1, <2>2, <2>3 DEF ClientOk, ClientSafe, Version, S2N_TLS12, S2N_TLS13
  <2> QED BY <2>2, <2>4 DEF ClientSafe, ClientEntered
<1>13. ClientHelloSays(k, ClientHelloBody(k["C"], res.c))
  <2>1. Offered(k) = IF res.c.version >= S2N_TLS13 THEN k["C"].maxVersion ELSE S2N_TLS12
    BY <1>4, <1>7, Versions DEF S2N_TLS12, S2N_TLS13
  <2>2. res.c.session_id = "SESSION" => k["C"].session = "CACHE"
    BY <1>1 DEF ClientSafe, ClientOk
  <2> QED BY <2>1, <2>2 DEF ClientHelloSays, ClientHelloBody, client_protocol_version
<1> QED BY <1>6, <1>10, <1>11, <1>12, <1>13

\* The ClientHello after a retry.
LEMMA SecondHelloSent ==
    ASSUME NEW k \in Configs, NEW c, IsConn(c), NEW p, PastOf(c, p), ClientSafe(k, c),
           c.message_number # 0, AtOf(c) = "CLIENT_HELLO",
           NEW res, res = s2n_client_hello_send(k["C"], c)
    PROVE  /\ Kept(c, res.c, p) /\ AtOf(res.c) = "CLIENT_HELLO" /\ res.r \in {"OK", "ERROR"}
           /\ res.r = "OK" => Sendable(k, res.c) /\ ClientHelloSays(k, ClientHelloBody(k["C"], res.c))
<1> DEFINE d == Lowered(k["C"], c)
<1>0. HelloSent(k["C"], c, d, res)
  BY ClientHelloSame
<1> HIDE DEF d
<1>1. /\ Same(c, d, {"version"})
      /\ d.version = IF k["C"].maxVersion < S2N_TLS13 THEN S2N_TLS12 ELSE c.version
      /\ Same(d, res.c, {"session_id", "handshake_type", "early_data_state"})
      /\ res.c.session_id \in {c.session_id, "CLIENT"}
      /\ \/ /\ ~IS_HELLO_RETRY_HANDSHAKE(d)
            /\ res.c.handshake_type = EarlyType(k["C"], d)
            /\ (res.r = "OK" /\ res.c.early_data_state = "REQUESTED") \/ res.r = "ERROR"
         \/ /\ res.c.handshake_type = d.handshake_type
            /\ res.r = "OK"
            /\ res.c.early_data_state = IF d.early_data_state = "UNKNOWN"
                                        THEN "NOT_REQUESTED" ELSE d.early_data_state
  BY <1>0 DEF HelloSent
<1>2. c.version = S2N_TLS13 /\ Hrr(c) /\ Neg(c)
  BY WhereHellos DEF PastOf, Past, AtOf, Hrr, Neg
<1>3. /\ Agreed(k) = S2N_TLS13 /\ c.early_data_state # "UNKNOWN"
      /\ c.version = Agreed(k)
  BY <1>2 DEF ClientSafe, ClientOk, ClientTyped
<1>4. d.version = c.version /\ k["C"].maxVersion = S2N_TLS13 /\ Offered(k) = S2N_TLS13
  BY <1>1, <1>2, <1>3, Versions DEF S2N_TLS13
<1>5. IS_HELLO_RETRY_HANDSHAKE(d) /\ d.early_data_state = c.early_data_state
  <2>1. d.handshake_type = c.handshake_type /\ d.early_data_state = c.early_data_state
    BY <1>1 DEF Same, CoreFields
  <2> QED BY <1>2, <1>4, <2>1 DEF IS_HELLO_RETRY_HANDSHAKE, Hrr, S2N_TLS13
<1>6. Same(c, res.c, {"session_id"}) /\ res.r = "OK"
  BY <1>1, <1>3, <1>4, <1>5 DEF Same, CoreFields
<1>7. Kept(c, res.c, p) /\ AtOf(res.c) = AtOf(c)
  BY <1>6, SameKept
<1>8. ClientSafe(k, res.c)
  <2>1. /\ res.c.version = c.version /\ res.c.handshake_type = c.handshake_type
        /\ res.c.early_data_state = c.early_data_state /\ res.c.early_data_cb = c.early_data_cb
        /\ res.c.chosen_psk = c.chosen_psk
        /\ res.c.client_session_resumed = c.client_session_resumed
        /\ res.c.session_ticket_status = c.session_ticket_status
        /\ res.c.message_number = c.message_number
    BY <1>6 DEF Same, CoreFields
  <2>2. Neg(res.c) /\ (Hrr(res.c) <=> Hrr(c)) /\ ClientTyped(k, res.c)
    BY <1>2, <2>1 DEF Neg, Hrr, ClientTyped, ClientSafe, ClientOk
  <2>3. ClientOk(k, res.c)
    BY <1>1, <1>2, <2>1, <2>2 DEF ClientOk, ClientSafe
  <2> QED BY <1>2, <2>1, <2>3 DEF ClientSafe, ClientEntered, HelloEndOf
<1>9. Sendable(k, res.c)
  <2>1. PastOf(res.c, p) /\ res.c.message_number # 0
    BY <1>7 DEF Kept
  <2> QED BY <1>8, <2>1, SafeSendable
<1>10. ClientHelloSays(k, ClientHelloBody(k["C"], res.c))
  <2>1. res.c.version = S2N_TLS13
    BY <1>2, <1>6 DEF Same, CoreFields
  <2>2. Offered(k) = IF res.c.version >= S2N_TLS13 THEN k["C"].maxVersion ELSE S2N_TLS12
    BY <1>4, <2>1 DEF S2N_TLS13
  <2>3. res.c.session_id = "SESSION" => k["C"].session = "CACHE"
    BY <1>1 DEF ClientSafe, ClientOk
  <2> QED BY <2>2, <2>3 DEF ClientHelloSays, ClientHelloBody, client_protocol_version
<1> QED BY <1>6, <1>7, <1>9, <1>10

(***************************************************************************)
(* The ClientHello is read.                                                *)
(***************************************************************************)

\* Processing a ClientHello sets the version and what the extensions say.  At
\* the first one the flags of a retry and of early data may be set; at the one
\* after a retry the order has been shaped and stays.
Processed(k, c, body, x) ==
    /\ Same(c, x, {"version", "session_id", "session_ticket_status", "handshake_type",
                   "early_data_state", "chosen_psk"})
    /\ x.version = Agreed(k)
    /\ x.session_id = body.session_id
    /\ x.session_ticket_status = "DECRYPT_TICKET" =>
          \/ c.session_ticket_status = "DECRYPT_TICKET"
          \/ k["S"].auth = "NONE" /\ body.ticket = "TICKET"

FirstFlags(x) ==
    /\ x.handshake_type \subseteq {"HELLO_RETRY_REQUEST", "MIDDLEBOX_COMPAT", "EARLY_CLIENT_CCS"}
    /\ "MIDDLEBOX_COMPAT" \in x.handshake_type <=> "EARLY_CLIENT_CCS" \in x.handshake_type
    /\ x.version # S2N_TLS13 => x.handshake_type = {}

Shaped(c, x) ==
    IF c.message_number = 0 THEN FirstFlags(x)
    ELSE x.handshake_type = c.handshake_type /\ x.early_data_state = c.early_data_state

\* The early data of a ClientHello that was processed.
EarlySettled(x) == x.early_data_state \in {"REQUESTED", "NOT_REQUESTED", "REJECTED"}

\* A ticket is remembered, or not looked at.
TicketNoted(k, d, body, x) ==
    /\ Same(d, x, {"session_ticket_status"})
    /\ x.session_ticket_status = "DECRYPT_TICKET" =>
          \/ d.session_ticket_status = "DECRYPT_TICKET"
          \/ k.auth = "NONE" /\ body.ticket = "TICKET"

\* The extension does no more.
LEMMA TicketSame ==
    ASSUME NEW k, NEW d, IsConn(d), NEW body, NEW x, x = s2n_client_session_ticket_recv(k, d, body)
    PROVE  TicketNoted(k, d, body, x)
<1> DEFINE s == IF body.ticket = "TICKET" THEN "DECRYPT_TICKET" ELSE "NEW_TICKET"
<1>1. x = d \/ (x = [d EXCEPT !.session_ticket_status = s] /\ k.auth = "NONE")
  BY DEF s2n_client_session_ticket_recv
<1>2. s = "DECRYPT_TICKET" => body.ticket = "TICKET"
  OBVIOUS
<1> HIDE DEF s
<1> QED BY <1>1, <1>2 DEF TicketNoted, IsConn, Same, ConnFields, CoreFields

\* What is copied before the extensions are looked at.
Noted(k, c, body) ==
    [c EXCEPT !.version = IF k.maxVersion < body.maxVersion THEN k.maxVersion ELSE body.maxVersion,
              !.session_id = body.session_id,
              !.status_request = body.ocsp /\ k.ocsp,
              !.pfs = k.pfs]

\* Every stage keeps to this: the first assignments and the ticket, ...
LEMMA ProcessTicket ==
    ASSUME NEW k, NEW c, IsConn(c), NEW body, ClientHelloSays(k, body),
           c.message_number = 0 => c.handshake_type = {},
           NEW d, d = Noted(k["S"], c, body),
           NEW x, x = s2n_client_session_ticket_recv(k["S"], d, body)
    PROVE  Processed(k, c, body, x) /\ Shaped(c, x)
<1> DEFINE v == IF k["S"].maxVersion < body.maxVersion THEN k["S"].maxVersion ELSE body.maxVersion
<1>1. v = Agreed(k)
  BY DEF ClientHelloSays, Agreed
<1> HIDE DEF v
<1>2. /\ Same(c, d, {"version", "session_id"}) /\ d.version = v
      /\ d.session_id = body.session_id
  BY DEF v, Noted, IsConn, Same, ConnFields, CoreFields
<1>3. IsConn(d)
  BY <1>2 DEF Same
<1>4. /\ Same(d, x, {"session_ticket_status"})
      /\ x.session_ticket_status = "DECRYPT_TICKET" =>
            \/ d.session_ticket_status = "DECRYPT_TICKET"
            \/ k["S"].auth = "NONE" /\ body.ticket = "TICKET"
  <2>1. TicketNoted(k["S"], d, body, x)
    BY <1>3, TicketSame
  <2> QED BY <2>1 DEF TicketNoted
<1>5. /\ Same(c, x, {"version", "session_id", "session_ticket_status"})
      /\ x.version = v /\ x.session_id = body.session_id
      /\ d.session_ticket_status = c.session_ticket_status
      /\ x.handshake_type = c.handshake_type /\ x.early_data_state = c.early_data_state
  BY <1>2, <1>4 DEF Same, CoreFields
<1>6. Processed(k, c, body, x)
  BY <1>1, <1>4, <1>5 DEF Processed, Same
<1>7. Shaped(c, x)
  BY <1>5 DEF Shaped, FirstFlags
<1> QED BY <1>6, <1>7

\* ... the early data indication, ...
LEMMA ProcessEarly ==
    ASSUME NEW k \in Configs, NEW c, NEW body, NEW x, Processed(k, c, body, x), Shaped(c, x),
           c.message_number = 0 => x.handshake_type = {},
           c.message_number # 0 => c.early_data_state \in {"NOT_REQUESTED", "REJECTED"},
           NEW res, res = EarlyDataIndicationRecv(k["S"], x, body)
    PROVE  /\ Processed(k, c, body, res.c) /\ Shaped(c, res.c) /\ res.r \in {"OK", "ERROR"}
           /\ res.r = "OK" => EarlySettled(res.c)
           /\ c.message_number = 0 => ~Hrr(res.c)
<1>0. IsConn(x) /\ x.message_number = c.message_number /\ x.version = Agreed(k)
  BY DEF Processed, Same, CoreFields
<1>1. ASSUME NEW y, Same(x, y, {"handshake_type", "early_data_state"})
      PROVE  Processed(k, c, body, y)
  <2>1. /\ y.version = x.version /\ y.session_id = x.session_id
        /\ y.session_ticket_status = x.session_ticket_status
    BY <1>1 DEF Same, CoreFields
  <2> QED BY <1>1, <2>1 DEF Processed, Same
<1>2. Same(x, x, {"handshake_type", "early_data_state"})
  BY <1>0, SameSelf
<1>3. CASE body.early /\ x.message_number # 0
  <2>1. res.r = "ERROR" /\ res.c = x
    BY <1>3 DEF EarlyDataIndicationRecv, Fail
  <2> QED BY <1>0, <1>3, <2>1
<1>4. CASE body.early /\ x.message_number = 0
  <2>1. res = RequestEarlyData(k["S"], x)
    BY <1>4 DEF EarlyDataIndicationRecv
  <2>2. /\ Same(x, res.c, {"handshake_type", "early_data_state"})
        /\ res.c.handshake_type = EarlyType(k["S"], x)
        /\ (res.r = "OK" /\ res.c.early_data_state = "REQUESTED") \/ res.r = "ERROR"
    BY <1>0, <2>1, RequestSame
  <2>3. res.c.version = x.version /\ x.version \in {33, 34}
    BY <1>0, <2>2, Versions DEF Same, CoreFields
  <2>4. FirstFlags(res.c) /\ ~Hrr(res.c)
    BY <1>0, <1>4, <2>2, <2>3 DEF FirstFlags, EarlyType, S2N_TLS13, Hrr
  <2>5. Shaped(c, res.c)
    BY <1>0, <1>4, <2>4 DEF Shaped
  <2> QED BY <1>1, <2>2, <2>4, <2>5 DEF EarlySettled
<1>5. CASE ~body.early /\ x.early_data_state = "REJECTED"
  <2>1. res.r = "OK" /\ res.c = x
    BY <1>5 DEF EarlyDataIndicationRecv, Ok
  <2> QED BY <1>5, <2>1 DEF EarlySettled, Hrr
<1>6. CASE ~body.early /\ x.early_data_state # "REJECTED"
  <2>1. res = s2n_connection_set_early_data_state(x, "NOT_REQUESTED")
    BY <1>6 DEF EarlyDataIndicationRecv
  <2>2. /\ Same(x, res.c, {"early_data_state"})
        /\ \/ res.r = "OK" /\ res.c.early_data_state = "NOT_REQUESTED"
           \/ res = Fail(x)
    BY <1>0, <2>1, SetEarlySame
  <2>3. res.c.handshake_type = x.handshake_type /\ res.c.version = x.version
    BY <2>2 DEF Same, CoreFields
  <2>4. Same(x, res.c, {"handshake_type", "early_data_state"})
    BY <2>2 DEF Same
  <2>5. Shaped(c, res.c)
    <3>1. CASE c.message_number = 0
      BY <2>3, <3>1 DEF Shaped, FirstFlags
    <3>2. CASE c.message_number # 0
      <4>1. x.early_data_state = "NOT_REQUESTED" /\ x.handshake_type = c.handshake_type
            /\ x.early_data_state = c.early_data_state
        BY <1>6, <3>2 DEF Shaped
      <4> QED BY <2>2, <2>3, <3>2, <4>1 DEF Shaped, Fail
    <3> QED BY <3>1, <3>2
  <2> QED BY <1>1, <2>2, <2>3, <2>4, <2>5 DEF EarlySettled, Fail, Hrr
<1> QED BY <1>0, <1>3, <1>4, <1>5, <1>6

\* ... the PSK, ...
LEMMA ProcessPsk ==
    ASSUME NEW k, NEW c, NEW body, NEW x, Processed(k, c, body, x), Shaped(c, x),
           EarlySettled(x), c.message_number = 0 => ~Hrr(x),
           NEW res, res = ClientPskRecv(k["S"], x, body)
    PROVE  /\ Processed(k, c, body, res.c) /\ Shaped(c, res.c) /\ res.r \in {"OK", "ERROR"}
           /\ EarlySettled(res.c)
           /\ c.message_number = 0 => ~Hrr(res.c)
<1>0. IsConn(x)
  BY DEF Processed, Same
<1>1. Same(x, res.c, {"chosen_psk"}) /\ res.r \in {"OK", "ERROR"}
  BY <1>0 DEF ClientPskRecv, IsConn, Same, ConnFields, CoreFields, Ok, Fail, Ensure
<1>2. /\ res.c.version = x.version /\ res.c.session_id = x.session_id
      /\ res.c.session_ticket_status = x.session_ticket_status
      /\ res.c.handshake_type = x.handshake_type
      /\ res.c.early_data_state = x.early_data_state
  BY <1>1 DEF Same, CoreFields
<1>3. Processed(k, c, body, res.c)
  BY <1>1, <1>2 DEF Processed, Same
<1>4. Shaped(c, res.c)
  BY <1>2 DEF Shaped, FirstFlags
<1> QED BY <1>1, <1>2, <1>3, <1>4 DEF EarlySettled, Hrr

\* ... and the key share, which may ask for a retry.
LEMMA ProcessShare ==
    ASSUME NEW k \in Configs, NEW c, NEW body, NEW x, Processed(k, c, body, x), Shaped(c, x),
           EarlySettled(x), c.message_number = 0 => ~Hrr(x), c.message_number # 0 => Hrr(c),
           c.message_number # 0 => c.early_data_state \in {"NOT_REQUESTED", "REJECTED"},
           NEW res, res = s2n_extensions_server_key_share_select(x, body)
    PROVE  /\ Processed(k, c, body, res.c) /\ Shaped(c, res.c) /\ res.r \in {"OK", "ERROR"}
           /\ EarlySettled(res.c)
           /\ Hrr(res.c) => res.c.early_data_state \in {"NOT_REQUESTED", "REJECTED"}
<1>0. IsConn(x) /\ x.version = Agreed(k) /\ Agreed(k) \in {33, 34}
  BY Versions DEF Processed, Same
<1>5. c.message_number # 0 => x.early_data_state \in {"NOT_REQUESTED", "REJECTED"}
  BY DEF Shaped
<1>1. CASE res.c = x /\ res.r \in {"OK", "ERROR"}
  BY <1>1, <1>5
<1>2. CASE /\ res.r = "OK" /\ ~(x.version < S2N_TLS13)
           /\ Same(x, res.c, {"handshake_type", "early_data_state"})
           /\ res.c.handshake_type = x.handshake_type \cup {"HELLO_RETRY_REQUEST"}
           /\ res.c.early_data_state = IF x.early_data_state = "REQUESTED" THEN "REJECTED"
                                       ELSE x.early_data_state
  <2>1. /\ res.c.version = x.version /\ res.c.session_id = x.session_id
        /\ res.c.session_ticket_status = x.session_ticket_status
    BY <1>2 DEF Same, CoreFields
  <2>2. Processed(k, c, body, res.c)
    BY <1>2, <2>1 DEF Processed, Same
  <2>3. Shaped(c, res.c)
    <3>1. CASE c.message_number = 0
      <4>1. FirstFlags(x) /\ res.c.version = S2N_TLS13
        BY <1>0, <1>2, <2>1, <3>1 DEF Shaped, S2N_TLS13
      <4> QED BY <1>2, <3>1, <4>1 DEF Shaped, FirstFlags
    <3>2. CASE c.message_number # 0
      <4>1. res.c.early_data_state = c.early_data_state
        BY <1>2, <3>2 DEF Shaped
      <4>2. res.c.handshake_type = c.handshake_type
        BY <1>2, <3>2 DEF Shaped, Hrr
      <4> QED BY <3>2, <4>1, <4>2 DEF Shaped
    <3> QED BY <3>1, <3>2
  <2>4. res.c.early_data_state \in {"NOT_REQUESTED", "REJECTED"}
    BY <1>2 DEF EarlySettled
  <2> QED BY <1>2, <2>2, <2>3, <2>4 DEF EarlySettled
<1>3. x.version < S2N_TLS13 \/ body.key_share => res.c = x /\ res.r = "OK"
  BY DEF s2n_extensions_server_key_share_select, Ok
<1>4. ~(x.version < S2N_TLS13 \/ body.key_share) => res = s2n_set_hello_retry_required(x)
  BY DEF s2n_extensions_server_key_share_select
<1>6. CASE x.version < S2N_TLS13 \/ body.key_share
  BY <1>1, <1>3, <1>6
<1>7. CASE ~(x.version < S2N_TLS13 \/ body.key_share)
  BY <1>0, <1>2, <1>4, <1>7, RetrySame
<1> QED BY <1>6, <1>7

\* The whole of s2n_process_client_hello.
LEMMA ProcessHello ==
    ASSUME NEW k \in Configs, NEW c, IsConn(c), NEW body, ClientHelloSays(k, body),
           c.message_number = 0 => c.handshake_type = {},
           c.message_number # 0 => Hrr(c) /\ c.early_data_state \in {"NOT_REQUESTED", "REJECTED"},
           NEW res, res = s2n_process_client_hello(k["S"], c, body)
    PROVE  /\ Processed(k, c, body, res.c) /\ Shaped(c, res.c) /\ res.r \in {"OK", "ERROR"}
           /\ res.r = "OK" =>
                 /\ EarlySettled(res.c)
                 /\ Hrr(res.c) => res.c.early_data_state \in {"NOT_REQUESTED", "REJECTED"}
<1> DEFINE kc == k["S"]
           d == Noted(kc, c, body)
           x == s2n_client_session_ticket_recv(kc, d, body)
           r1 == EarlyDataIndicationRecv(kc, x, body)
           r2 == ClientPskRecv(kc, r1.c, body)
           r3 == s2n_extensions_server_key_share_select(r2.c, body)
           r4 == Ensure(kc.quic => r3.c.version >= S2N_TLS13, r3.c)
<1>1. res = IF r1.r # "OK" THEN r1 ELSE IF r2.r # "OK" THEN r2 ELSE IF r3.r # "OK" THEN r3 ELSE r4
  <2> HIDE DEF kc
  <2>0. res = s2n_process_client_hello(kc, c, body)
    BY DEF kc
  <2>1. Then(Ok(d), LAMBDA y : Ok(s2n_client_session_ticket_recv(kc, y, body))) = Ok(x)
    BY DEF Then, Ok
  <2> HIDE DEF x
  <2>2. Then(Ok(x), LAMBDA y : EarlyDataIndicationRecv(kc, y, body)) = r1
    BY DEF Then, Ok
  <2> HIDE DEF r1
  <2>3. Then(r1, LAMBDA y : ClientPskRecv(kc, y, body)) = IF r1.r = "OK" THEN r2 ELSE r1
    BY DEF Then
  <2> HIDE DEF r2
  <2>4. Then(IF r1.r = "OK" THEN r2 ELSE r1,
             LAMBDA y : s2n_extensions_server_key_share_select(y, body))
        = IF r1.r = "OK" THEN IF r2.r = "OK" THEN r3 ELSE r2 ELSE r1
    BY DEF Then
  <2> HIDE DEF r3
  <2>5. Then(IF r1.r = "OK" THEN IF r2.r = "OK" THEN r3 ELSE r2 ELSE r1,
             LAMBDA y : Ensure(kc.quic => y.version >= S2N_TLS13, y))
        = IF r1.r = "OK" THEN IF r2.r = "OK" THEN IF r3.r = "OK" THEN r4 ELSE r3 ELSE r2 ELSE r1
    BY DEF Then
  <2> HIDE DEF r4
  <2>6. res = IF r1.r = "OK" THEN IF r2.r = "OK" THEN IF r3.r = "OK" THEN r4 ELSE r3 ELSE r2 ELSE r1
    BY <2>0, <2>1, <2>2, <2>3, <2>4, <2>5 DEF s2n_process_client_hello, d, Noted
  <2> QED BY <2>6
<1>2. Processed(k, c, body, x) /\ Shaped(c, x)
  BY ProcessTicket
<1>3. c.message_number = 0 => x.handshake_type = {}
  <2>1. IsConn(d) /\ d.handshake_type = c.handshake_type
    BY DEF Noted, IsConn, ConnFields
  <2> HIDE DEF d, kc
  <2>2. TicketNoted(kc, d, body, x)
    BY <2>1, TicketSame
  <2> HIDE DEF x
  <2>3. x.handshake_type = d.handshake_type
    BY <2>2 DEF TicketNoted, Same, CoreFields
  <2> QED BY <2>1, <2>3
<1> HIDE DEF x
<1>4. /\ Processed(k, c, body, r1.c) /\ Shaped(c, r1.c) /\ r1.r \in {"OK", "ERROR"}
      /\ r1.r = "OK" => EarlySettled(r1.c)
      /\ c.message_number = 0 => ~Hrr(r1.c)
  BY <1>2, <1>3, ProcessEarly
<1> HIDE DEF r1
<1>5. r1.r = "OK" => /\ Processed(k, c, body, r2.c) /\ Shaped(c, r2.c) /\ r2.r \in {"OK", "ERROR"}
                     /\ EarlySettled(r2.c)
                     /\ c.message_number = 0 => ~Hrr(r2.c)
  BY <1>4, ProcessPsk
<1> HIDE DEF r2
<1>6. r1.r = "OK" /\ r2.r = "OK" =>
         /\ Processed(k, c, body, r3.c) /\ Shaped(c, r3.c) /\ r3.r \in {"OK", "ERROR"}
         /\ EarlySettled(r3.c)
         /\ Hrr(r3.c) => r3.c.early_data_state \in {"NOT_REQUESTED", "REJECTED"}
  BY <1>5, ProcessShare
<1> HIDE DEF r3
<1>7. r4.c = r3.c /\ r4.r \in {"OK", "ERROR"}
  BY DEF Ensure, Ok, Fail
<1> HIDE DEF r4
<1> QED BY <1>1, <1>4, <1>5, <1>6, <1>7

\* It rewrites nothing.
LEMMA ProcessedPast ==
    ASSUME NEW k, NEW c, NEW p, PastOf(c, p), AtOf(c) = "CLIENT_HELLO",
           NEW body, NEW x, Processed(k, c, body, x), Shaped(c, x),
           c.message_number # 0 => c.version = Agreed(k)
    PROVE  PastOf(x, p) /\ AtOf(x) = "CLIENT_HELLO" /\ Kept(c, x, p)
<1>1. /\ x.message_number = c.message_number /\ x.version = Agreed(k) /\ IsConn(x)
      /\ x.status = c.status /\ x.paused = c.paused /\ x.io = c.io
  BY DEF Processed, Same, CoreFields
<1>2. CASE c.message_number = 0
  <2>1. FirstFlags(x)
    BY <1>2 DEF Shaped
  <2>2. Defined(x.version, x.handshake_type)
    BY <2>1 DEF FirstFlags, Defined, Tls12Type, Tls13Type, CommonFlag, Tls12Flag, Tls13Flag
  <2>3. PastOf(x, p)
    BY <1>1, <1>2, <2>2, RetypeAtHello DEF PastOf
  <2>4. AtOf(x) = "CLIENT_HELLO"
    BY <1>1, <1>2, StartsWithHello DEF AtOf, At
  <2> QED BY <1>1, <2>3, <2>4 DEF Kept
<1>3. CASE c.message_number # 0
  <2>1. x.version = c.version /\ x.handshake_type = c.handshake_type
    BY <1>1, <1>3 DEF Shaped
  <2> QED BY <1>1, <2>1 DEF PastOf, AtOf, Kept
<1> QED BY <1>2, <1>3

\* The connection that has processed a ClientHello is in order.
LEMMA ProcessedOk ==
    ASSUME NEW k \in Configs, NEW c, IsConn(c), ServerOk(k, c), NEW body, ClientHelloSays(k, body),
           NEW x, Processed(k, c, body, x), Shaped(c, x), EarlySettled(x),
           Hrr(x) => x.early_data_state \in {"NOT_REQUESTED", "REJECTED"},
           c.message_number \in Nat, ~c.client_hello_received,
           c.message_number = 0 => c.handshake_type = {},
           c.message_number # 0 => Hrr(c) /\ c.early_data_state \in {"NOT_REQUESTED", "REJECTED"},
           NEW d, d = [x EXCEPT !.client_hello_received = TRUE]
    PROVE  ServerSafe(k, d) /\ Same(x, d, {"client_hello_received"}) /\ d.client_hello_received
<1>0. /\ IsConn(x) /\ x.version = Agreed(k) /\ Agreed(k) \in {33, 34}
      /\ x.message_number = c.message_number /\ x.early_data_cb = c.early_data_cb
      /\ x.session_id = body.session_id
  BY Versions DEF Processed, Same, CoreFields
<1>1. Same(x, d, {"client_hello_received"}) /\ d.client_hello_received = TRUE
  BY <1>0 DEF IsConn, Same, ConnFields, CoreFields
<1>2. /\ d.version = x.version /\ d.handshake_type = x.handshake_type
      /\ d.message_number = c.message_number /\ d.early_data_state = x.early_data_state
      /\ d.early_data_cb = c.early_data_cb /\ d.session_id = x.session_id
      /\ d.session_ticket_status = x.session_ticket_status
  BY <1>0, <1>1 DEF Same, CoreFields
<1>3. c.message_number = 0 => ~Neg(d)
  BY <1>2 DEF Shaped, FirstFlags, Neg
<1>4. c.message_number # 0 => /\ d.handshake_type = c.handshake_type /\ Neg(d)
                              /\ c.version = Agreed(k)
  BY <1>2 DEF Shaped, ServerOk, Neg
<1>5. Hrr(d) => d.version = S2N_TLS13 /\ d.early_data_state \in {"NOT_REQUESTED", "REJECTED"}
  <2>1. Hrr(d) <=> Hrr(x)
    BY <1>2 DEF Hrr
  <2>2. Hrr(x) => x.version = S2N_TLS13
    BY <1>0, <1>4 DEF Shaped, FirstFlags, Hrr, ServerOk
  <2> QED BY <1>2, <2>1, <2>2
<1>6. d.early_data_cb # "INVOKED" /\ d.early_data_state # "ACCEPTED"
  BY <1>2 DEF ServerOk, EarlySettled
<1>7. d.session_ticket_status = "DECRYPT_TICKET" => k["S"].auth = "NONE" /\ k["C"].session = "TICKET"
  BY <1>2 DEF Processed, ServerOk, ClientHelloSays
<1>8. d.session_id = "SESSION" => k["C"].session = "CACHE"
  BY <1>0, <1>2 DEF ClientHelloSays
<1>9. d.message_number > 0 => /\ Neg(d) /\ d.version = S2N_TLS13
                              /\ ~k["S"].quic => "MIDDLEBOX_COMPAT" \in d.handshake_type
  BY <1>0, <1>2, <1>4, <1>5 DEF ServerOk, Hrr, Neg
<1>10. ServerOk(k, d)
  BY <1>0, <1>1, <1>2, <1>3, <1>5, <1>6, <1>7, <1>8, <1>9 DEF ServerOk, S2N_TLS12, S2N_TLS13
<1> QED BY <1>1, <1>2, <1>3, <1>10 DEF ServerSafe, ServerEntered

\* What a stage of the server's CLIENT_HELLO handler leaves.
AtHello(k, c, d, p) == Kept(c, d, p) /\ AtOf(d) = "CLIENT_HELLO" /\ ServerSafe(k, d)

\* s2n_client_hello_recv waits for the callback, fails, or has processed it.
HelloReceived(k, c, p, res) ==
    /\ res.r \in {"OK", "ERROR", "ASYNC_BLOCKED"}
    /\ Kept(c, res.c, p)
    /\ res.r # "ERROR" => AtHello(k, c, res.c, p)
    /\ res.r = "OK" => res.c.client_hello_received

\* It does one of the three.
LEMMA HelloRecv ==
    ASSUME NEW k \in Configs, NEW c, IsConn(c), NEW p, PastOf(c, p), AtOf(c) = "CLIENT_HELLO",
           ServerSafe(k, c), ~c.client_hello_received, NEW body, ClientHelloSays(k, body),
           NEW res, res = s2n_client_hello_recv(k["S"], c, body)
    PROVE  HelloReceived(k, c, p, res)
<1>0. c.message_number \in Nat /\ c.message_number < Len(Order(c.version, c.handshake_type))
  BY DEF PastOf, Past
<1>1. c.message_number = 0 => c.handshake_type = {}
  BY DEF ServerSafe, ServerOk, ServerEntered
<1>2. /\ c.message_number # 0 =>
             Hrr(c) /\ c.early_data_state \in {"NOT_REQUESTED", "REJECTED"}
      /\ c.message_number # 0 => c.version = Agreed(k)
  <2>1. c.message_number # 0 => Hrr(c) /\ Neg(c)
    BY <1>0, WhereHellos DEF AtOf, Hrr, Neg
  <2> QED BY <2>1 DEF ServerSafe, ServerOk
<1>3. CASE res = Block([c EXCEPT !.client_hello_cb = "INVOKED"])
  <2>1. Same(c, res.c, {}) /\ res.r = "ASYNC_BLOCKED"
    BY <1>3 DEF Block, IsConn, Same, ConnFields, CoreFields
  <2>2. Kept(c, res.c, p) /\ AtOf(res.c) = "CLIENT_HELLO"
    BY <2>1, SameKept
  <2>3. ServerSafe(k, res.c)
    BY <2>1, ServerSafeSame
  <2> QED BY <2>1, <2>2, <2>3 DEF HelloReceived, AtHello
<1> DEFINE r == s2n_process_client_hello(k["S"], c, body)
           d == [r.c EXCEPT !.client_hello_received = TRUE]
<1>4. CASE res = IF r.r = "OK" THEN Ok(d) ELSE r
  <2>1. /\ Processed(k, c, body, r.c) /\ Shaped(c, r.c) /\ r.r \in {"OK", "ERROR"}
        /\ r.r = "OK" =>
              /\ EarlySettled(r.c)
              /\ Hrr(r.c) => r.c.early_data_state \in {"NOT_REQUESTED", "REJECTED"}
    BY <1>1, <1>2, ProcessHello
  <2> HIDE DEF r
  <2>2. PastOf(r.c, p) /\ AtOf(r.c) = "CLIENT_HELLO" /\ Kept(c, r.c, p)
    BY <1>2, <2>1, ProcessedPast
  <2>3. CASE r.r # "OK"
    BY <1>4, <2>1, <2>2, <2>3 DEF HelloReceived
  <2>4. CASE r.r = "OK"
    <3>1. ServerOk(k, c)
      BY DEF ServerSafe
    <3>2. ServerSafe(k, d) /\ Same(r.c, d, {"client_hello_received"}) /\ d.client_hello_received
      BY <1>0, <1>1, <1>2, <2>1, <2>4, <3>1, ProcessedOk
    <3>3. res.r = "OK" /\ res.c = d
      BY <1>4, <2>4 DEF Ok
    <3> HIDE DEF d
    <3>4. Kept(r.c, d, p) /\ AtOf(d) = "CLIENT_HELLO"
      BY <2>2, <3>2, SameKept
    <3>5. Kept(c, d, p)
      BY <2>2, <3>4 DEF Kept
    <3> QED BY <3>2, <3>3, <3>4, <3>5 DEF HelloReceived, AtHello
  <2> QED BY <2>3, <2>4
<1>5. \/ res = Block([c EXCEPT !.client_hello_cb = "INVOKED"])
      \/ res = IF r.r = "OK" THEN Ok(d) ELSE r
  BY DEF s2n_client_hello_recv, Then
<1> QED BY <1>3, <1>4, <1>5

\* The application, or the configuration, settles the early data.
LEMMA EarlyServerOk ==
    ASSUME NEW k, NEW c, ServerSafe(k, c), NEW d, Same(c, d, {"early_data_state"}),
           c.early_data_state = "REQUESTED", c.early_data_cb # "INVOKED",
           d.early_data_state \in {"ACCEPTED", "REJECTED"},
           d.early_data_state = "ACCEPTED" => c.chosen_psk
    PROVE  ServerSafe(k, d)
<1>1. /\ d.version = c.version /\ d.handshake_type = c.handshake_type
      /\ d.message_number = c.message_number /\ d.early_data_cb = c.early_data_cb
      /\ d.chosen_psk = c.chosen_psk /\ d.client_hello_received = c.client_hello_received
      /\ d.session_id = c.session_id /\ d.session_ticket_status = c.session_ticket_status
  BY DEF Same, CoreFields
<1>2. (Neg(d) <=> Neg(c)) /\ (Hrr(d) <=> Hrr(c))
  BY <1>1 DEF Neg, Hrr
<1>3. ServerOk(k, d)
  BY <1>1, <1>2 DEF ServerSafe, ServerOk
<1> QED BY <1>1, <1>2, <1>3 DEF ServerSafe, ServerEntered

\* s2n_early_data_accept_or_reject of a server.
EarlyDecided(k, c, res) ==
    /\ res.r \in {"OK", "ERROR", "ASYNC_BLOCKED"}
    /\ Same(c, res.c, {"early_data_state", "early_data_cb"})
    /\ res.r # "ERROR" => ServerSafe(k, res.c)

\* It accepts, rejects, or asks the application.
LEMMA AcceptOrReject ==
    ASSUME NEW k \in Configs, NEW c, IsConn(c), ServerSafe(k, c), c.client_hello_received,
           NEW res, res = s2n_early_data_accept_or_reject("S", k["S"], c)
    PROVE  EarlyDecided(k, c, res)
<1>1. CASE res = Ok(c) \/ res = Block(c)
  <2>1. Same(c, c, {"early_data_state", "early_data_cb"})
    BY SameSelf
  <2> QED BY <1>1, <2>1 DEF EarlyDecided, Ok, Block
<1>2. CASE /\ c.early_data_state = "REQUESTED" /\ c.early_data_cb # "INVOKED"
           /\ \E next \in {"ACCEPTED", "REJECTED"} :
                 /\ res = s2n_connection_set_early_data_state(c, next)
                 /\ next = "ACCEPTED" => c.chosen_psk
  <2>1. PICK next \in {"ACCEPTED", "REJECTED"} :
                 /\ res = s2n_connection_set_early_data_state(c, next)
                 /\ next = "ACCEPTED" => c.chosen_psk
    BY <1>2
  <2>2. /\ Same(c, res.c, {"early_data_state"})
        /\ (res.r = "OK" /\ res.c.early_data_state = next) \/ res = Fail(c)
    BY <2>1, SetEarlySame
  <2>3. Same(c, res.c, {"early_data_state", "early_data_cb"})
    BY <2>2 DEF Same
  <2>4. CASE res = Fail(c)
    BY <2>3, <2>4 DEF EarlyDecided, Fail
  <2>5. CASE res.r = "OK" /\ res.c.early_data_state = next
    <3>1. ServerSafe(k, res.c)
      BY <1>2, <2>1, <2>2, <2>5, EarlyServerOk
    <3> QED BY <2>3, <2>5, <3>1 DEF EarlyDecided
  <2> QED BY <2>2, <2>4, <2>5
<1>3. CASE /\ c.early_data_state = "REQUESTED" /\ c.chosen_psk /\ k["S"].earlyCb # "NONE"
           /\ res = Block([c EXCEPT !.early_data_cb = "INVOKED"])
  <2>1. /\ Same(c, res.c, {"early_data_cb"}) /\ res.r = "ASYNC_BLOCKED"
        /\ res.c.early_data_cb = "INVOKED"
    BY <1>3 DEF Block, IsConn, Same, ConnFields, CoreFields
  <2>2. LET d == res.c
        IN  /\ d.version = c.version /\ d.handshake_type = c.handshake_type
            /\ d.message_number = c.message_number /\ d.early_data_state = c.early_data_state
            /\ d.chosen_psk = c.chosen_psk /\ d.client_hello_received = c.client_hello_received
            /\ d.session_id = c.session_id /\ d.session_ticket_status = c.session_ticket_status
    BY <2>1 DEF Same, CoreFields
  <2>3. (Neg(res.c) <=> Neg(c)) /\ (Hrr(res.c) <=> Hrr(c))
    BY <2>2 DEF Neg, Hrr
  <2>4. ServerOk(k, res.c)
    BY <1>3, <2>2, <2>3 DEF ServerSafe, ServerOk
  <2>5. ServerEntered(res.c)
    BY <2>2, <2>3 DEF ServerSafe, ServerEntered
  <2>6. Same(c, res.c, {"early_data_state", "early_data_cb"})
    BY <2>1 DEF Same
  <2> QED BY <2>1, <2>4, <2>5, <2>6 DEF EarlyDecided, ServerSafe
<1>4. k["S"].earlyCb \in {"NONE", "ACCEPTED", "REJECTED"}
  BY NegotiateAssumption DEF Config, Mode
<1>5. \/ res = Ok(c) \/ res = Block(c)
      \/ /\ c.early_data_state = "REQUESTED" /\ c.early_data_cb # "INVOKED"
         /\ \/ res = s2n_connection_set_early_data_state(c, "REJECTED")
            \/ res = s2n_connection_set_early_data_state(c, "ACCEPTED") /\ c.chosen_psk
      \/ /\ c.early_data_state = "REQUESTED" /\ c.chosen_psk /\ k["S"].earlyCb # "NONE"
         /\ res = Block([c EXCEPT !.early_data_cb = "INVOKED"])
  BY <1>4 DEF s2n_early_data_accept_or_reject, s2n_early_data_is_valid_for_connection
<1> QED BY <1>1, <1>2, <1>3, <1>5

\* What computing the type leaves: the order that it is for starts with the
\* messages already passed.
TypeComputed(k, c, p, res) ==
    /\ res.r \in {"OK", "ASYNC_BLOCKED"}
    /\ Kept(c, res.c, p) /\ AtOf(res.c) = "CLIENT_HELLO"
    /\ ServerOk(k, res.c) /\ Neg(res.c)
    /\ res.r = "ASYNC_BLOCKED" => ServerEntered(res.c)
    /\ res.r = "OK" /\ res.c.version = S2N_TLS12 => res.c.session_id = "SERVER" \/ Resumable(k)

\* In TLS 1.3, ...
LEMMA ServerType13 ==
    ASSUME NEW k \in Configs, NEW c, IsConn(c), NEW p, PastOf(c, p), AtOf(c) = "CLIENT_HELLO",
           ServerSafe(k, c), c.client_hello_received, c.version = S2N_TLS13,
           NEW d, d = s2n_conn_set_tls13_handshake_type("S", k["S"], c)
    PROVE  TypeComputed(k, c, p, Ok(d))
<1>0. /\ c.message_number \in Nat /\ Defined(S2N_TLS13, c.handshake_type)
      /\ c.message_number < Len(Order(c.version, c.handshake_type))
  BY DEF PastOf, Past
<1>1. /\ Same(c, d, {"handshake_type"})
      /\ Neg(d) /\ (Hrr(d) <=> Hrr(c))
      /\ "MIDDLEBOX_COMPAT" \in d.handshake_type <=>
                 \/ "MIDDLEBOX_COMPAT" \in c.handshake_type
                 \/ c.version >= S2N_TLS13 /\ ~k["S"].quic
      /\ "EARLY_CLIENT_CCS" \in d.handshake_type <=> "EARLY_CLIENT_CCS" \in c.handshake_type
  BY Tls13TypeSame
<1>2. c.early_data_state = "ACCEPTED" => c.chosen_psk /\ ~Hrr(c)
  BY DEF ServerSafe, ServerOk
<1>3. Defined(S2N_TLS13, d.handshake_type)
  BY <1>0, <1>2, Tls13TypeDefined
<1>4. /\ d.version = S2N_TLS13 /\ d.message_number = c.message_number
      /\ d.early_data_state = c.early_data_state /\ d.early_data_cb = c.early_data_cb
      /\ d.chosen_psk = c.chosen_psk /\ d.client_hello_received = c.client_hello_received
      /\ d.session_id = c.session_id /\ d.session_ticket_status = c.session_ticket_status
      /\ d.status = c.status /\ d.paused = c.paused /\ d.io = c.io /\ IsConn(d)
  BY <1>1 DEF Same, CoreFields
<1>5. S2N_TLS13 >= S2N_TLS13 /\ S2N_TLS13 # S2N_TLS12
  BY DEF S2N_TLS13, S2N_TLS12
<1>6. "MIDDLEBOX_COMPAT" \in c.handshake_type \/ ~k["S"].quic =>
         "MIDDLEBOX_COMPAT" \in d.handshake_type
  BY <1>1, <1>5
<1>7. PastOf(d, p) /\ AtOf(d) = "CLIENT_HELLO"
  <2>1. CASE c.message_number = 0
    <3>1. PastOf(d, p)
      BY <1>3, <1>4, <2>1, RetypeAtHello DEF PastOf
    <3>2. AtOf(d) = "CLIENT_HELLO"
      BY <1>4, <2>1, StartsWithHello DEF AtOf, At
    <3> QED BY <3>1, <3>2
  <2>2. CASE c.message_number # 0
    <3>1. Neg(c) /\ (~k["S"].quic => "MIDDLEBOX_COMPAT" \in c.handshake_type)
      BY <1>0, <2>2 DEF ServerSafe, ServerOk
    <3>2. "MIDDLEBOX_COMPAT" \in c.handshake_type <=> "MIDDLEBOX_COMPAT" \in d.handshake_type
      BY <1>1, <3>1
    <3> DEFINE t == c.handshake_type
               u == d.handshake_type
               n == c.message_number
    <3>3. /\ Past(S2N_TLS13, t, n, p) /\ Defined(S2N_TLS13, u)
          /\ At(S2N_TLS13, t, n) \in {"CLIENT_HELLO", "SERVER_HELLO"}
          /\ "NEGOTIATED" \in t /\ "NEGOTIATED" \in u
          /\ "HELLO_RETRY_REQUEST" \in t <=> "HELLO_RETRY_REQUEST" \in u
          /\ "MIDDLEBOX_COMPAT" \in t <=> "MIDDLEBOX_COMPAT" \in u
          /\ "EARLY_CLIENT_CCS" \in t <=> "EARLY_CLIENT_CCS" \in u
      BY <1>1, <1>3, <3>1, <3>2 DEF PastOf, AtOf, Neg, Hrr
    <3>4. At(S2N_TLS13, t, n) = "CLIENT_HELLO"
      BY DEF AtOf
    <3> HIDE DEF t, u, n
    <3>5. Past(S2N_TLS13, u, n, p) /\ At(S2N_TLS13, u, n) = At(S2N_TLS13, t, n)
      BY <3>3, RetypeAtHellos13
    <3> QED BY <1>4, <3>4, <3>5 DEF PastOf, AtOf, t, u, n
  <2> QED BY <2>1, <2>2
<1>8. ServerOk(k, d)
  BY <1>1, <1>4, <1>5, <1>6 DEF ServerSafe, ServerOk
<1>9. Kept(c, d, p)
  BY <1>4, <1>7 DEF Kept
<1> QED BY <1>1, <1>4, <1>5, <1>7, <1>8, <1>9 DEF TypeComputed, Ok

\* ... and before.
LEMMA ServerType12 ==
    ASSUME NEW k \in Configs, NEW c, IsConn(c), NEW p, PastOf(c, p), AtOf(c) = "CLIENT_HELLO",
           ServerSafe(k, c), c.client_hello_received, c.version # S2N_TLS13,
           NEW res, res = s2n_conn_set_tls12_handshake_type("S", k["S"], c)
    PROVE  TypeComputed(k, c, p, res)
<1>0. c.message_number \in Nat /\ c.message_number < Len(Order(c.version, c.handshake_type))
  BY DEF PastOf, Past
<1>1. c.message_number = 0
  BY <1>0, WhereHellos DEF AtOf
<1>2. /\ Same(c, res.c, {"handshake_type", "session_id", "session_ticket_status"})
      /\ Neg(res.c) /\ Tls12Type(res.c.handshake_type)
      /\ res.c.session_ticket_status \in {c.session_ticket_status, "NEW_TICKET"}
      /\ res.c.session_id = c.session_id \/ res.c.session_id = "SERVER"
      /\ \/ /\ res.r = "OK"
            /\ \/ res.c.session_id = "SERVER"
               \/ c.session_ticket_status = "DECRYPT_TICKET"
               \/ c.session_id = "SESSION"
         \/ res.r = "ASYNC_BLOCKED"
  <2>1. "S" \in Mode /\ "S" # "C"
    BY DEF Mode
  <2>2. c.session_ticket_status = "DECRYPT_TICKET" => k["S"].auth = "NONE"
    BY DEF ServerSafe, ServerOk
  <2> QED BY <2>1, <2>2, Tls12TypeSame
<1>3. /\ res.c.version = c.version /\ res.c.message_number = c.message_number
      /\ res.c.early_data_state = c.early_data_state /\ res.c.early_data_cb = c.early_data_cb
      /\ res.c.chosen_psk = c.chosen_psk
      /\ res.c.client_hello_received = c.client_hello_received
      /\ res.c.status = c.status /\ res.c.paused = c.paused /\ res.c.io = c.io /\ IsConn(res.c)
  BY <1>2 DEF Same, CoreFields
<1>4. ~Hrr(res.c) /\ Defined(res.c.version, res.c.handshake_type)
  BY <1>2, <1>3 DEF Hrr, Defined, Tls12Type, CommonFlag, Tls12Flag
<1>5. PastOf(res.c, p)
  BY <1>1, <1>3, <1>4, RetypeAtHello DEF PastOf
<1>6. AtOf(res.c) = "CLIENT_HELLO"
  BY <1>1, <1>3, StartsWithHello DEF AtOf, At
<1>7. ServerOk(k, res.c)
  BY <1>1, <1>2, <1>3, <1>4 DEF ServerSafe, ServerOk
<1>8. ServerEntered(res.c)
  BY <1>3 DEF ServerEntered
<1>9. c.session_ticket_status = "DECRYPT_TICKET" \/ c.session_id = "SESSION" => Resumable(k)
  BY DEF ServerSafe, ServerOk, Resumable
<1>10. Kept(c, res.c, p)
  BY <1>3, <1>5 DEF Kept
<1> QED BY <1>2, <1>6, <1>7, <1>8, <1>9, <1>10 DEF TypeComputed

\* The server's CLIENT_HELLO handler.
Established(k, c, p, res) ==
    /\ res.r \in {"OK", "ERROR", "ASYNC_BLOCKED"}
    /\ Kept(c, res.c, p)
    /\ res.r # "ERROR" => ServerOk(k, res.c) /\ AtOf(res.c) = "CLIENT_HELLO"
    /\ res.r = "ASYNC_BLOCKED" => ServerEntered(res.c)
    /\ res.r = "OK" => /\ Neg(res.c)
                       /\ res.c.version = S2N_TLS12 =>
                             res.c.session_id = "SERVER" \/ Resumable(k)

\* It waits, fails, or has computed the type.
LEMMA EstablishSession ==
    ASSUME NEW k \in Configs, NEW c, IsConn(c), NEW p, PastOf(c, p), AtOf(c) = "CLIENT_HELLO",
           ServerSafe(k, c), NEW body, ClientHelloSays(k, body),
           NEW res, res = s2n_establish_session(k["S"], c, body)
    PROVE  Established(k, c, p, res)
<1> DEFINE r1 == IF c.client_hello_received THEN Ok(c) ELSE s2n_client_hello_recv(k["S"], c, body)
           r2 == s2n_early_data_accept_or_reject("S", k["S"], r1.c)
           r3 == s2n_conn_set_handshake_type("S", k["S"], r2.c)
<1>1. res = IF r1.r # "OK" THEN r1 ELSE IF r2.r # "OK" THEN r2 ELSE r3
  <2> HIDE DEF r1
  <2>1. Then(r1, LAMBDA d : s2n_early_data_accept_or_reject("S", k["S"], d))
        = IF r1.r = "OK" THEN r2 ELSE r1
    BY DEF Then
  <2> HIDE DEF r2
  <2>2. Then(IF r1.r = "OK" THEN r2 ELSE r1,
             LAMBDA d : s2n_conn_set_handshake_type("S", k["S"], d))
        = IF r1.r = "OK" THEN IF r2.r = "OK" THEN r3 ELSE r2 ELSE r1
    BY DEF Then
  <2> HIDE DEF r3
  <2>3. res = IF r1.r = "OK" THEN IF r2.r = "OK" THEN r3 ELSE r2 ELSE r1
    BY <2>1, <2>2 DEF s2n_establish_session, r1
  <2> QED BY <2>3
<1>2. HelloReceived(k, c, p, r1)
  <2>1. CASE c.client_hello_received
    <3>1. r1.r = "OK" /\ r1.c = c
      BY <2>1 DEF Ok
    <3> HIDE DEF r1
    <3>2. Kept(c, c, p)
      BY DEF Kept
    <3> QED BY <2>1, <3>1, <3>2 DEF HelloReceived, AtHello
  <2>2. CASE ~c.client_hello_received
    <3>1. r1 = s2n_client_hello_recv(k["S"], c, body)
      BY <2>2
    <3> HIDE DEF r1
    <3> QED BY <2>2, <3>1, HelloRecv
  <2> QED BY <2>1, <2>2
<1> HIDE DEF r1
<1>3. CASE r1.r # "OK"
  BY <1>1, <1>2, <1>3 DEF HelloReceived, AtHello, ServerSafe, Established
<1>4. CASE r1.r = "OK"
  <2>1. /\ IsConn(r1.c) /\ ServerSafe(k, r1.c) /\ r1.c.client_hello_received
        /\ PastOf(r1.c, p) /\ AtOf(r1.c) = "CLIENT_HELLO" /\ Kept(c, r1.c, p)
    BY <1>2, <1>4 DEF HelloReceived, AtHello, Kept
  <2>2. EarlyDecided(k, r1.c, r2)
    BY <2>1, AcceptOrReject
  <2> HIDE DEF r2
  <2>3. Same(r1.c, r2.c, {"early_data_state", "early_data_cb"})
    BY <2>2 DEF EarlyDecided
  <2>4. Kept(r1.c, r2.c, p) /\ AtOf(r2.c) = AtOf(r1.c)
    BY <2>1, <2>3, SameKept
  <2>5. Kept(c, r2.c, p)
    BY <2>1, <2>4 DEF Kept
  <2>6. CASE r2.r # "OK"
    BY <1>1, <1>4, <2>1, <2>2, <2>4, <2>5, <2>6 DEF EarlyDecided, ServerSafe, Established
  <2>7. CASE r2.r = "OK"
    <3>1. /\ IsConn(r2.c) /\ ServerSafe(k, r2.c) /\ r2.c.client_hello_received
          /\ PastOf(r2.c, p) /\ AtOf(r2.c) = "CLIENT_HELLO"
      BY <2>1, <2>2, <2>3, <2>4, <2>7 DEF EarlyDecided, Kept, Same, CoreFields
    <3>2. TypeComputed(k, r2.c, p, r3)
      <4>1. CASE r2.c.version = S2N_TLS13
        <5>1. r3 = Ok(s2n_conn_set_tls13_handshake_type("S", k["S"], r2.c))
          BY <4>1 DEF s2n_conn_set_handshake_type
        <5> HIDE DEF r3
        <5> QED BY <3>1, <4>1, <5>1, ServerType13
      <4>2. CASE r2.c.version # S2N_TLS13
        <5>1. r3 = s2n_conn_set_tls12_handshake_type("S", k["S"], r2.c)
          BY <4>2 DEF s2n_conn_set_handshake_type
        <5> HIDE DEF r3
        <5> QED BY <3>1, <4>2, <5>1, ServerType12
      <4> QED BY <4>1, <4>2
    <3> HIDE DEF r3
    <3>3. res = r3
      BY <1>1, <1>4, <2>7
    <3>4. Kept(c, r3.c, p)
      BY <2>5, <3>2 DEF TypeComputed, Kept
    <3> QED BY <3>2, <3>3, <3>4 DEF TypeComputed, Established
  <2> QED BY <2>6, <2>7
<1> QED BY <1>3, <1>4

(***************************************************************************)
(* The ServerHello is read.                                                *)
(***************************************************************************)

\* The client waits for the answer to its first ClientHello, or to the one
\* after a retry.
FirstAnswer(k, c) ==
    /\ ~Neg(c) /\ ~Hrr(c) /\ c.message_number = HelloEndOf(c)
    /\ c.version = Offered(k)
    /\ c.early_data_state \in {"REQUESTED", "NOT_REQUESTED"}
    /\ c.handshake_type # {} => c.early_data_state = "REQUESTED"
    /\ c.session_id # "SERVER"

SecondAnswer(k, c) ==
    /\ Neg(c) /\ Hrr(c) /\ c.message_number > HelloEndOf(c) /\ AtOf(c) = "SERVER_HELLO"
    /\ c.version = S2N_TLS13 /\ Agreed(k) = S2N_TLS13
    /\ c.early_data_state \in {"NOT_REQUESTED", "REJECTED"}
    /\ ~k["C"].quic => "MIDDLEBOX_COMPAT" \in c.handshake_type

\* There is no other.
LEMMA TwoAnswers ==
    ASSUME NEW k \in Configs, NEW c, NEW p, PastOf(c, p), ClientSafe(k, c),
           AtOf(c) \in {"SERVER_HELLO", "HELLO_RETRY_MSG"}
    PROVE  FirstAnswer(k, c) \/ SecondAnswer(k, c)
<1>0. c.message_number \in Nat /\ c.message_number < Len(Order(c.version, c.handshake_type))
  BY DEF PastOf, Past
<1>1. \/ /\ c.message_number = HelloEndOf(c)
         /\ AtOf(c) = "SERVER_HELLO" => ~(c.version = S2N_TLS13 /\ Hrr(c))
         /\ AtOf(c) = "HELLO_RETRY_MSG" => Hrr(c)
      \/ /\ c.version = S2N_TLS13 /\ Hrr(c) /\ Neg(c) /\ c.message_number > HelloEndOf(c)
         /\ AtOf(c) = "SERVER_HELLO"
  BY <1>0, WhereHellos DEF AtOf, HelloEndOf, Hrr, Neg
<1>2. CASE Neg(c)
  <2>1. c.message_number > HelloEndOf(c)
    BY <1>2 DEF ClientSafe, ClientEntered
  <2>2. HelloEndOf(c) \in Nat
    BY DEF HelloEndOf, HelloEnd
  <2>3. c.version = S2N_TLS13 /\ Hrr(c) /\ AtOf(c) = "SERVER_HELLO"
    BY <1>0, <1>1, <2>1, <2>2
  <2> QED BY <1>2, <2>1, <2>3 DEF ClientSafe, ClientOk, ClientTyped, SecondAnswer
<1>3. CASE ~Neg(c)
  <2>1. ~Hrr(c) /\ ClientUntyped(k, c)
    BY <1>3 DEF ClientSafe, ClientOk
  <2>2. c.message_number = HelloEndOf(c) /\ c.message_number # 0
    BY <1>1, <2>1 DEF HelloEndOf, HelloEnd
  <2>3. ~Opening(c)
    BY <2>2 DEF Opening
  <2> QED BY <1>3, <2>1, <2>2, <2>3 DEF ClientUntyped, FirstAnswer
<1> QED BY <1>2, <1>3

\* While the answer is parsed.
Answering(k, c, x) ==
    /\ Same(c, x, {"version", "handshake_type", "early_data_state", "session_ticket_status",
                   "chosen_psk", "client_session_resumed", "session_id"})
    /\ x.session_ticket_status \in {"NO_TICKET", "NEW_TICKET"}
    /\ x.version = c.version \/ (x.version = Agreed(k) /\ x.handshake_type = {} /\ ~Neg(c))
    /\ \/ x.handshake_type = c.handshake_type
       \/ /\ ~Neg(c) /\ c.version = S2N_TLS13 /\ x.version = S2N_TLS13
          /\ x.handshake_type = c.handshake_type \cup {"HELLO_RETRY_REQUEST"}
    /\ x.early_data_state \in {"REQUESTED", "NOT_REQUESTED", "REJECTED"}
    /\ Hrr(x) => x.early_data_state # "REQUESTED"
    /\ x.client_session_resumed => Resumable(k)
    /\ x.session_id = "SESSION" => k["C"].session = "CACHE"

\* Before the version is looked at.
Unversioned(k, c, x) ==
    /\ x.version = c.version
    /\ Agreed(k) # S2N_TLS13 => /\ x.handshake_type # {} => x.early_data_state = "REQUESTED"
                                /\ x.session_id # "SERVER"

\* It rewrites nothing.
LEMMA AnsweringPast ==
    ASSUME NEW k \in Configs, NEW c, NEW p, PastOf(c, p),
           FirstAnswer(k, c) \/ SecondAnswer(k, c), NEW x, Answering(k, c, x)
    PROVE  Kept(c, x, p) /\ HelloEndOf(x) = HelloEndOf(c)
<1>1. /\ x.message_number = c.message_number /\ IsConn(x)
      /\ x.status = c.status /\ x.paused = c.paused /\ x.io = c.io
  BY DEF Answering, Same, CoreFields
<1>2. CASE x.version = c.version /\ x.handshake_type = c.handshake_type
  BY <1>1, <1>2 DEF PastOf, HelloEndOf, Kept
<1>3. CASE ~(x.version = c.version /\ x.handshake_type = c.handshake_type)
  <2>1. ~Neg(c) /\ c.message_number = HelloEndOf(c)
    BY <1>3 DEF Answering, FirstAnswer, SecondAnswer
  <2>2. HelloEndOf(x) = HelloEndOf(c)
    BY <1>3, <2>1 DEF Answering, HelloEndOf, HelloEnd
  <2>3. Defined(x.version, x.handshake_type)
    <3>1. CASE x.handshake_type = {}
      BY <3>1 DEF Defined, Tls12Type, Tls13Type
    <3>2. CASE /\ x.version = S2N_TLS13 /\ c.version = S2N_TLS13
               /\ x.handshake_type = c.handshake_type \cup {"HELLO_RETRY_REQUEST"}
      <4>1. Tls13Type(c.handshake_type)
        BY <3>2 DEF PastOf, Past, Defined
      <4> QED BY <2>1, <3>2, <4>1 DEF Defined, Tls13Type, Tls13Flag, CommonFlag, Neg
    <3> QED BY <1>3, <3>1, <3>2 DEF Answering
  <2>4. PastOf(x, p)
    <3> DEFINE v == c.version
               t == c.handshake_type
               w == x.version
               u == x.handshake_type
               n == c.message_number
    <3>1. /\ Past(v, t, n, p) /\ Defined(w, u)
          /\ HelloEnd(w, u) = HelloEnd(v, t) /\ n = HelloEnd(v, t)
          /\ HelloEnd(v, t) \in Nat
      BY <2>1, <2>2, <2>3 DEF PastOf, HelloEndOf, HelloEnd
    <3> HIDE DEF v, t, w, u, n
    <3>2. Past(w, u, n, p)
      BY <3>1, RetypeAtHello
    <3> QED BY <1>1, <3>2 DEF PastOf, w, u, n
  <2> QED BY <1>1, <2>2, <2>4 DEF Kept
<1> QED BY <1>2, <1>3

\* Before it is parsed.
LEMMA AnswerStart ==
    ASSUME NEW k \in Configs, NEW c, IsConn(c), ClientSafe(k, c),
           FirstAnswer(k, c) \/ SecondAnswer(k, c)
    PROVE  Answering(k, c, c) /\ Unversioned(k, c, c)
<1>1. \A F : Same(c, c, F)
  BY SameSelf
<1>2. /\ c.session_ticket_status \in {"NO_TICKET", "NEW_TICKET"}
      /\ c.client_session_resumed => Resumable(k)
      /\ c.session_id = "SESSION" => k["C"].session = "CACHE"
  BY DEF ClientSafe, ClientOk
<1>3. /\ c.early_data_state \in {"REQUESTED", "NOT_REQUESTED", "REJECTED"}
      /\ Hrr(c) => c.early_data_state # "REQUESTED"
  BY DEF FirstAnswer, SecondAnswer
<1>4. Answering(k, c, c)
  BY <1>1, <1>2, <1>3 DEF Answering
<1> QED BY <1>4 DEF Unversioned, FirstAnswer, SecondAnswer

\* A HelloRetryRequest sets the flag of a retry.
LEMMA AnswerRetry ==
    ASSUME NEW k \in Configs, NEW c, IsConn(c), ClientSafe(k, c),
           FirstAnswer(k, c) \/ SecondAnswer(k, c), NEW body, ServerHelloSays(k, body),
           NEW res, res = IF ~body.hrr THEN Ok(c)
                          ELSE IF IS_HELLO_RETRY_HANDSHAKE(c) THEN Fail(c)
                          ELSE s2n_set_hello_retry_required(c)
    PROVE  Answering(k, c, res.c) /\ Unversioned(k, c, res.c) /\ res.r \in {"OK", "ERROR"}
<1>1. Answering(k, c, c) /\ Unversioned(k, c, c)
  BY AnswerStart
<1>2. CASE res = Ok(c) \/ res = Fail(c)
  BY <1>1, <1>2 DEF Ok, Fail
<1>3. CASE body.hrr /\ ~IS_HELLO_RETRY_HANDSHAKE(c) /\ res = s2n_set_hello_retry_required(c)
  <2>1. Agreed(k) = S2N_TLS13 /\ Offered(k) = S2N_TLS13
    BY <1>3, Versions DEF ServerHelloSays, S2N_TLS13
  <2>2. FirstAnswer(k, c) /\ c.version = S2N_TLS13
    BY <1>3, <2>1 DEF FirstAnswer, SecondAnswer, IS_HELLO_RETRY_HANDSHAKE, Hrr, S2N_TLS13
  <2>3. CASE res = Fail(c)
    BY <1>2, <2>3
  <2>4. CASE /\ res.r = "OK"
             /\ Same(c, res.c, {"handshake_type", "early_data_state"})
             /\ res.c.handshake_type = c.handshake_type \cup {"HELLO_RETRY_REQUEST"}
             /\ res.c.early_data_state = IF c.early_data_state = "REQUESTED" THEN "REJECTED"
                                         ELSE c.early_data_state
    <3>1. /\ res.c.version = c.version /\ res.c.session_id = c.session_id
          /\ res.c.session_ticket_status = c.session_ticket_status
          /\ res.c.client_session_resumed = c.client_session_resumed
      BY <2>4 DEF Same, CoreFields
    <3>2. Same(c, res.c, {"version", "handshake_type", "early_data_state",
                   "session_ticket_status", "chosen_psk", "client_session_resumed", "session_id"})
      BY <2>4 DEF Same
    <3>3. res.c.early_data_state \in {"NOT_REQUESTED", "REJECTED"}
      BY <2>2, <2>4 DEF FirstAnswer
    <3>4. Answering(k, c, res.c)
      BY <1>1, <2>2, <2>4, <3>1, <3>2, <3>3 DEF Answering, FirstAnswer
    <3>5. Unversioned(k, c, res.c)
      BY <2>1, <3>1 DEF Unversioned
    <3> QED BY <2>4, <3>4, <3>5
  <2> QED BY <1>3, <2>3, <2>4, RetrySame
<1> QED BY <1>2, <1>3

\* The extensions set what does not steer the order.
LEMMA AnswerExtensions ==
    ASSUME NEW k, NEW c, NEW x, Answering(k, c, x), Unversioned(k, c, x), NEW body,
           NEW y, y = ServerExtensionsRecv(x, body)
    PROVE  Answering(k, c, y) /\ Unversioned(k, c, y)
<1>0. IsConn(x)
  BY DEF Answering, Same
<1> DEFINE s == IF body.nst THEN "NEW_TICKET" ELSE x.session_ticket_status
<1>1. y = [x EXCEPT !.status_request = body.ocsp, !.session_ticket_status = s,
                    !.chosen_psk = body.psk]
  BY DEF ServerExtensionsRecv
<1>2. s \in {"NEW_TICKET", x.session_ticket_status}
  OBVIOUS
<1> HIDE DEF s
<1>3. Same(x, y, {"session_ticket_status", "chosen_psk"}) /\ y.session_ticket_status = s
  BY <1>0, <1>1 DEF IsConn, Same, ConnFields, CoreFields
<1>4. /\ y.version = x.version /\ y.handshake_type = x.handshake_type
      /\ y.early_data_state = x.early_data_state /\ y.session_id = x.session_id
      /\ y.client_session_resumed = x.client_session_resumed
  BY <1>3 DEF Same, CoreFields
<1>5. Hrr(y) <=> Hrr(x)
  BY <1>4 DEF Hrr
<1>6. Same(c, y, {"version", "handshake_type", "early_data_state", "session_ticket_status",
                   "chosen_psk", "client_session_resumed", "session_id"})
  BY <1>3 DEF Answering, Same
<1>7. Answering(k, c, y)
  BY <1>2, <1>3, <1>4, <1>5, <1>6 DEF Answering
<1> QED BY <1>4, <1>7 DEF Unversioned

\* The client takes the version of the answer, or refuses.
LEMMA AnswerVersion ==
    ASSUME NEW k \in Configs, NEW c, FirstAnswer(k, c) \/ SecondAnswer(k, c),
           NEW x, Answering(k, c, x), Unversioned(k, c, x),
           NEW body, ServerHelloSays(k, body),
           NEW res, res = ServerHelloVersion(k["C"], x, body)
    PROVE  /\ Answering(k, c, res.c) /\ res.r \in {"OK", "ERROR"}
           /\ res.r = "OK" => /\ res.c.version = Agreed(k)
                              /\ Agreed(k) # S2N_TLS13 => res.c.handshake_type = {}
<1>0. /\ IsConn(x) /\ body.version = Agreed(k) /\ Agreed(k) \in {33, 34}
      /\ x.version = c.version
  BY Versions DEF Answering, Same, ServerHelloSays, Unversioned
<1>1. CASE res = Fail(x)
  BY <1>1 DEF Fail
<1>2. CASE body.version >= S2N_TLS13 /\ res = Ok([x EXCEPT !.version = body.version])
  <2>1. Agreed(k) = S2N_TLS13 /\ Offered(k) = S2N_TLS13 /\ x.version = S2N_TLS13
    BY <1>0, <1>2, Versions DEF FirstAnswer, SecondAnswer, S2N_TLS13
  <2>2. res.r = "OK" /\ res.c = [x EXCEPT !.version = body.version]
    BY <1>2 DEF Ok
  <2>3. res.c = x
    BY <1>0, <2>1, <2>2 DEF IsConn, ConnFields
  <2> QED BY <2>1, <2>2, <2>3
<1>3. CASE ~(body.version >= S2N_TLS13) /\ x.early_data_state # "REQUESTED" /\ res # Fail(x)
  <2>1. Agreed(k) # S2N_TLS13
    BY <1>0, <1>3 DEF S2N_TLS13
  <2>2. /\ x.handshake_type = {} /\ x.session_id # "SERVER" /\ FirstAnswer(k, c) /\ ~Neg(c)
        /\ c.handshake_type = {}
    BY <1>3, <2>1 DEF Unversioned, SecondAnswer, FirstAnswer, Answering
  <2>3. CASE /\ body.session_id # "EMPTY" /\ body.session_id = x.session_id
             /\ x.version = body.version /\ res = Ok([x EXCEPT !.client_session_resumed = TRUE])
    <3>1. Resumable(k)
      BY <2>1, <2>2, <2>3 DEF ServerHelloSays
    <3>2. /\ Same(x, res.c, {"client_session_resumed"}) /\ res.r = "OK"
      BY <1>0, <2>3 DEF Ok, IsConn, Same, ConnFields, CoreFields
    <3>3. /\ res.c.version = x.version /\ res.c.handshake_type = x.handshake_type
          /\ res.c.early_data_state = x.early_data_state /\ res.c.session_id = x.session_id
          /\ res.c.session_ticket_status = x.session_ticket_status
      BY <3>2 DEF Same, CoreFields
    <3>4. Same(c, res.c, {"version", "handshake_type", "early_data_state",
                   "session_ticket_status", "chosen_psk", "client_session_resumed", "session_id"})
      BY <3>2 DEF Answering, Same
    <3>5. Answering(k, c, res.c)
      BY <2>2, <3>1, <3>3, <3>4 DEF Answering, Hrr
    <3> QED BY <1>0, <2>2, <2>3, <3>2, <3>3, <3>5
  <2>4. CASE res = Ok([x EXCEPT !.session_id = body.session_id, !.version = body.version,
                                !.pfs = body.pfs])
    <3>2. /\ Same(x, res.c, {"session_id", "version"}) /\ res.r = "OK"
          /\ res.c.session_id = body.session_id /\ res.c.version = body.version
      <4> DEFINE i == body.session_id
                 v == body.version
                 f == body.pfs
                 y == [x EXCEPT !.session_id = i, !.version = v, !.pfs = f]
      <4>1. res.r = "OK" /\ res.c = y
        BY <2>4 DEF Ok
      <4> HIDE DEF i, v, f
      <4>2. Same(x, y, {"session_id", "version"}) /\ y.session_id = i /\ y.version = v
        BY <1>0 DEF IsConn, Same, ConnFields, CoreFields
      <4> HIDE DEF y
      <4> QED BY <4>1, <4>2 DEF i, v
    <3>3. /\ res.c.handshake_type = x.handshake_type
          /\ res.c.early_data_state = x.early_data_state
          /\ res.c.client_session_resumed = x.client_session_resumed
          /\ res.c.session_ticket_status = x.session_ticket_status
      BY <3>2 DEF Same, CoreFields
    <3>4. Same(c, res.c, {"version", "handshake_type", "early_data_state",
                   "session_ticket_status", "chosen_psk", "client_session_resumed", "session_id"})
      BY <3>2 DEF Answering, Same
    <3>5. Answering(k, c, res.c)
      BY <1>0, <2>2, <3>2, <3>3, <3>4 DEF Answering, Hrr, ServerHelloSays
    <3> QED BY <1>0, <2>2, <3>2, <3>3, <3>5
  <2>5. \/ /\ body.session_id # "EMPTY" /\ body.session_id = x.session_id
           /\ x.version = body.version /\ res = Ok([x EXCEPT !.client_session_resumed = TRUE])
        \/ res = Ok([x EXCEPT !.session_id = body.session_id, !.version = body.version,
                              !.pfs = body.pfs])
    BY <1>3 DEF ServerHelloVersion
  <2> QED BY <2>3, <2>4, <2>5
<1>4. \/ res = Fail(x)
      \/ body.version >= S2N_TLS13 /\ res = Ok([x EXCEPT !.version = body.version])
      \/ ~(body.version >= S2N_TLS13) /\ x.early_data_state # "REQUESTED"
  BY DEF ServerHelloVersion
<1> QED BY <1>1, <1>2, <1>3, <1>4

\* Early data is rejected when the answer does not allow it.
LEMMA AnswerEarly ==
    ASSUME NEW k, NEW c, c.early_data_cb = "NOT_INVOKED", NEW x, Answering(k, c, x),
           NEW res, res = s2n_early_data_accept_or_reject("C", k["C"], x)
    PROVE  /\ Answering(k, c, res.c) /\ res.r \in {"OK", "ERROR"}
           /\ res.c.version = x.version /\ res.c.handshake_type = x.handshake_type
<1>0. IsConn(x) /\ x.early_data_cb # "INVOKED"
  BY DEF Answering, Same, CoreFields
<1>1. \/ res = Ok(x)
      \/ res = s2n_connection_set_early_data_state(x, "REJECTED")
  BY <1>0 DEF s2n_early_data_accept_or_reject
<1>2. CASE res = Ok(x)
  BY <1>2 DEF Ok
<1>3. CASE res = s2n_connection_set_early_data_state(x, "REJECTED")
  <2>1. /\ Same(x, res.c, {"early_data_state"})
        /\ (res.r = "OK" /\ res.c.early_data_state = "REJECTED") \/ res = Fail(x)
    BY <1>0, <1>3, SetEarlySame
  <2>2. /\ res.c.version = x.version /\ res.c.handshake_type = x.handshake_type
        /\ res.c.session_id = x.session_id
        /\ res.c.session_ticket_status = x.session_ticket_status
        /\ res.c.client_session_resumed = x.client_session_resumed
    BY <2>1 DEF Same, CoreFields
  <2>3. Same(c, res.c, {"version", "handshake_type", "early_data_state",
                   "session_ticket_status", "chosen_psk", "client_session_resumed", "session_id"})
    BY <2>1 DEF Answering, Same
  <2>4. CASE res = Fail(x)
    BY <2>4 DEF Fail
  <2>5. CASE res.r = "OK" /\ res.c.early_data_state = "REJECTED"
    <3>1. Answering(k, c, res.c)
      BY <2>2, <2>3, <2>5 DEF Answering, Hrr
    <3> QED BY <2>2, <2>5, <3>1
  <2> QED BY <2>1, <2>4, <2>5
<1> QED BY <1>1, <1>2, <1>3

\* The whole of s2n_server_hello_parse.
LEMMA AnswerParsed ==
    ASSUME NEW k \in Configs, NEW c, IsConn(c), ClientSafe(k, c),
           FirstAnswer(k, c) \/ SecondAnswer(k, c), NEW body, ServerHelloSays(k, body),
           NEW res, res = s2n_server_hello_parse(k["C"], c, body)
    PROVE  /\ Answering(k, c, res.c) /\ res.r \in {"OK", "ERROR"}
           /\ res.r = "OK" => /\ res.c.version = Agreed(k)
                              /\ Agreed(k) # S2N_TLS13 => res.c.handshake_type = {}
<1> DEFINE kc == k["C"]
           r1 == IF ~body.hrr THEN Ok(c)
                 ELSE IF IS_HELLO_RETRY_HANDSHAKE(c) THEN Fail(c)
                 ELSE s2n_set_hello_retry_required(c)
           x == ServerExtensionsRecv(r1.c, body)
           r2 == ServerHelloVersion(kc, x, body)
           r3 == s2n_early_data_accept_or_reject("C", kc, r2.c)
           y == IF r3.c.early_data_state = "REJECTED"
                THEN s2n_tls13_key_schedule_reset(r3.c) ELSE r3.c
<1>1. res = IF r1.r # "OK" THEN r1 ELSE IF r2.r # "OK" THEN r2 ELSE IF r3.r # "OK" THEN r3 ELSE Ok(y)
  <2> HIDE DEF kc
  <2>0. res = s2n_server_hello_parse(kc, c, body)
    BY DEF kc
  <2> HIDE DEF r1
  <2>1. Then(r1, LAMBDA d : Ok(ServerExtensionsRecv(d, body))) = IF r1.r = "OK" THEN Ok(x) ELSE r1
    BY DEF Then
  <2> HIDE DEF x
  <2>2. Then(IF r1.r = "OK" THEN Ok(x) ELSE r1, LAMBDA d : ServerHelloVersion(kc, d, body))
        = IF r1.r = "OK" THEN r2 ELSE r1
    BY DEF Then, Ok
  <2> HIDE DEF r2
  <2>3. Then(IF r1.r = "OK" THEN r2 ELSE r1,
             LAMBDA d : s2n_early_data_accept_or_reject("C", kc, d))
        = IF r1.r = "OK" THEN IF r2.r = "OK" THEN r3 ELSE r2 ELSE r1
    BY DEF Then
  <2> HIDE DEF r3
  <2>4. Then(IF r1.r = "OK" THEN IF r2.r = "OK" THEN r3 ELSE r2 ELSE r1,
             LAMBDA d : Ok(IF d.early_data_state = "REJECTED"
                           THEN s2n_tls13_key_schedule_reset(d) ELSE d))
        = IF r1.r = "OK" THEN IF r2.r = "OK" THEN IF r3.r = "OK" THEN Ok(y) ELSE r3 ELSE r2 ELSE r1
    BY DEF Then
  <2> HIDE DEF y
  <2>5. res = IF r1.r = "OK" THEN IF r2.r = "OK" THEN IF r3.r = "OK" THEN Ok(y) ELSE r3 ELSE r2
              ELSE r1
    BY <2>0, <2>1, <2>2, <2>3, <2>4 DEF s2n_server_hello_parse, r1
  <2> QED BY <2>5
<1>2. Answering(k, c, r1.c) /\ Unversioned(k, c, r1.c) /\ r1.r \in {"OK", "ERROR"}
  BY AnswerRetry
<1> HIDE DEF r1
<1>3. Answering(k, c, x) /\ Unversioned(k, c, x)
  BY <1>2, AnswerExtensions
<1> HIDE DEF x
<1>4. /\ Answering(k, c, r2.c) /\ r2.r \in {"OK", "ERROR"}
      /\ r2.r = "OK" => /\ r2.c.version = Agreed(k)
                        /\ Agreed(k) # S2N_TLS13 => r2.c.handshake_type = {}
  BY <1>3, AnswerVersion
<1> HIDE DEF r2
<1>5. /\ Answering(k, c, r3.c) /\ r3.r \in {"OK", "ERROR"}
      /\ r3.c.version = r2.c.version /\ r3.c.handshake_type = r2.c.handshake_type
  <2>1. c.early_data_cb = "NOT_INVOKED"
    BY DEF ClientSafe, ClientOk
  <2> QED BY <1>4, <2>1, AnswerEarly
<1> HIDE DEF r3
<1>6. Same(r3.c, y, {})
  <2>1. IsConn(r3.c)
    BY <1>5 DEF Answering, Same
  <2> QED BY <2>1 DEF s2n_tls13_key_schedule_reset, IsConn, Same, ConnFields, CoreFields
<1> HIDE DEF y
<1>7. /\ y.version = r3.c.version /\ y.handshake_type = r3.c.handshake_type
      /\ y.early_data_state = r3.c.early_data_state
      /\ y.session_id = r3.c.session_id /\ y.session_ticket_status = r3.c.session_ticket_status
      /\ y.client_session_resumed = r3.c.client_session_resumed
  BY <1>6 DEF Same, CoreFields
<1>8. Answering(k, c, y)
  <2>1. Same(c, y, {"version", "handshake_type", "early_data_state", "session_ticket_status",
                    "chosen_psk", "client_session_resumed", "session_id"})
    BY <1>5, <1>6 DEF Answering, Same
  <2> QED BY <1>5, <1>7, <2>1 DEF Answering, Hrr
<1>9. Ok(y).r = "OK" /\ Ok(y).c = y
  BY DEF Ok
<1> QED BY <1>1, <1>2, <1>4, <1>5, <1>7, <1>8, <1>9

\* What the type of the client is computed from, and what it is.
Answered(k, c, x) ==
    /\ Answering(k, c, x) /\ x.version = Agreed(k)
    /\ Agreed(k) # S2N_TLS13 => x.handshake_type = {}

ClientReady(k, c, d, p) ==
    /\ Kept(c, d, p) /\ ClientOk(k, d) /\ Neg(d)
    /\ AtOf(d) \in {"SERVER_HELLO", "HELLO_RETRY_MSG"}
    /\ d.message_number >= HelloEndOf(d)

\* In TLS 1.3, ...
LEMMA ClientType13 ==
    ASSUME NEW k \in Configs, NEW c, NEW p, PastOf(c, p), ClientSafe(k, c),
           FirstAnswer(k, c) \/ SecondAnswer(k, c),
           NEW x, Answered(k, c, x), x.version = S2N_TLS13,
           NEW d, d = s2n_conn_set_tls13_handshake_type("C", k["C"], x)
    PROVE  ClientReady(k, c, d, p)
<1>0. /\ Kept(c, x, p) /\ HelloEndOf(x) = HelloEndOf(c) /\ IsConn(x) /\ PastOf(x, p)
  BY AnsweringPast DEF Answered, Kept
<1>1. /\ Same(x, d, {"handshake_type"})
      /\ Neg(d) /\ (Hrr(d) <=> Hrr(x))
      /\ "FULL_HANDSHAKE" \in d.handshake_type <=> ~x.chosen_psk
      /\ "MIDDLEBOX_COMPAT" \in d.handshake_type <=>
                 \/ "MIDDLEBOX_COMPAT" \in x.handshake_type
                 \/ x.version >= S2N_TLS13 /\ ~k["C"].quic
      /\ "EARLY_CLIENT_CCS" \in d.handshake_type <=> "EARLY_CLIENT_CCS" \in x.handshake_type
  BY <1>0, Tls13TypeSame
<1>2. Defined(S2N_TLS13, x.handshake_type) /\ x.early_data_state # "ACCEPTED"
  BY <1>0 DEF PastOf, Past, Answered, Answering
<1>3. Defined(S2N_TLS13, d.handshake_type)
  BY <1>0, <1>2, Tls13TypeDefined
<1>4. /\ d.version = S2N_TLS13 /\ d.message_number = x.message_number
      /\ d.early_data_state = x.early_data_state /\ d.early_data_cb = x.early_data_cb
      /\ d.chosen_psk = x.chosen_psk /\ d.client_session_resumed = x.client_session_resumed
      /\ d.session_id = x.session_id /\ d.session_ticket_status = x.session_ticket_status
      /\ d.status = x.status /\ d.paused = x.paused /\ d.io = x.io /\ IsConn(d)
  BY <1>1 DEF Same, CoreFields
<1>5. x.message_number = c.message_number /\ x.early_data_cb = "NOT_INVOKED"
      /\ c.message_number \in Nat
  BY DEF Answered, Answering, Same, CoreFields, ClientSafe, ClientOk, PastOf, Past
<1>6. HelloEndOf(d) = HelloEndOf(x) /\ HelloEndOf(d) \in Nat
  BY <1>1, <1>4 DEF HelloEndOf, HelloEnd
<1>7. ~k["C"].quic => "MIDDLEBOX_COMPAT" \in d.handshake_type
  BY <1>1 DEF S2N_TLS13
<1>8. /\ PastOf(d, p) /\ AtOf(d) \in {"SERVER_HELLO", "HELLO_RETRY_MSG"}
      /\ d.message_number >= HelloEndOf(d)
  <2>1. CASE FirstAnswer(k, c)
    <3> DEFINE t == x.handshake_type
               u == d.handshake_type
               n == x.message_number
    <3>1. /\ Past(S2N_TLS13, t, n, p) /\ Defined(S2N_TLS13, u)
          /\ HelloEnd(S2N_TLS13, u) = HelloEnd(S2N_TLS13, t) /\ n = HelloEnd(S2N_TLS13, t)
          /\ HelloEnd(S2N_TLS13, t) \in Nat
      BY <1>0, <1>3, <1>4, <1>5, <1>6, <2>1 DEF PastOf, HelloEndOf, FirstAnswer
    <3> HIDE DEF t, u, n
    <3>2. Past(S2N_TLS13, u, n, p)
      BY <3>1, RetypeAtHello
    <3>3. At(S2N_TLS13, u, n) \in {"SERVER_HELLO", "HELLO_RETRY_MSG"}
      BY <3>1, FirstIsHello
    <3>4. PastOf(d, p) /\ AtOf(d) \in {"SERVER_HELLO", "HELLO_RETRY_MSG"}
      BY <1>4, <3>2, <3>3 DEF PastOf, AtOf, t, u, n
    <3> QED BY <1>0, <1>4, <1>5, <1>6, <2>1, <3>4 DEF FirstAnswer
  <2>2. CASE SecondAnswer(k, c)
    <3>1. /\ Neg(c) /\ Hrr(c) /\ AtOf(c) = "SERVER_HELLO" /\ x.version = c.version
          /\ ~k["C"].quic => "MIDDLEBOX_COMPAT" \in c.handshake_type
      BY <2>2 DEF SecondAnswer
    <3>2. x.handshake_type = c.handshake_type
      BY <3>1 DEF Answered, Answering
    <3>3. "MIDDLEBOX_COMPAT" \in x.handshake_type <=> "MIDDLEBOX_COMPAT" \in d.handshake_type
      BY <1>1, <3>1, <3>2
    <3> DEFINE t == x.handshake_type
               u == d.handshake_type
               n == x.message_number
    <3>4. /\ Past(S2N_TLS13, t, n, p) /\ Defined(S2N_TLS13, u)
          /\ At(S2N_TLS13, t, n) = "SERVER_HELLO"
          /\ "NEGOTIATED" \in t /\ "NEGOTIATED" \in u
          /\ "HELLO_RETRY_REQUEST" \in t <=> "HELLO_RETRY_REQUEST" \in u
          /\ "MIDDLEBOX_COMPAT" \in t <=> "MIDDLEBOX_COMPAT" \in u
          /\ "EARLY_CLIENT_CCS" \in t <=> "EARLY_CLIENT_CCS" \in u
      BY <1>0, <1>1, <1>3, <1>5, <3>1, <3>2, <3>3 DEF PastOf, AtOf, Neg, Hrr
    <3> HIDE DEF t, u, n
    <3>5. Past(S2N_TLS13, u, n, p) /\ At(S2N_TLS13, u, n) = At(S2N_TLS13, t, n)
      BY <3>4, RetypeAtHellos13
    <3>6. PastOf(d, p) /\ AtOf(d) = "SERVER_HELLO"
      BY <1>4, <3>4, <3>5 DEF PastOf, AtOf, t, u, n
    <3>7. c.message_number > HelloEndOf(c)
      BY <2>2 DEF SecondAnswer
    <3> QED BY <1>0, <1>4, <1>5, <1>6, <3>6, <3>7
  <2> QED BY <2>1, <2>2
<1>9. ClientOk(k, d)
  <2>1. ClientTyped(k, d)
    BY <1>1, <1>4, <1>7 DEF ClientTyped, Answered, Answering
  <2>2. Hrr(d) => d.early_data_state \in {"NOT_REQUESTED", "REJECTED"}
    BY <1>1, <1>4 DEF Answered, Answering
  <2> QED BY <1>1, <1>4, <1>5, <2>1, <2>2 DEF ClientOk, Answered, Answering, Version
<1>10. Kept(c, d, p)
  BY <1>0, <1>4, <1>8 DEF Kept
<1> QED BY <1>1, <1>8, <1>9, <1>10 DEF ClientReady

\* ... and before.
LEMMA ClientType12 ==
    ASSUME NEW k \in Configs, NEW c, NEW p, PastOf(c, p), ClientSafe(k, c),
           FirstAnswer(k, c) \/ SecondAnswer(k, c),
           NEW x, Answered(k, c, x), x.version # S2N_TLS13,
           NEW res, res = s2n_conn_set_tls12_handshake_type("C", k["C"], x)
    PROVE  ClientReady(k, c, res.c, p) /\ res.r = "OK"
<1> DEFINE d == res.c
<1>0. /\ Kept(c, x, p) /\ HelloEndOf(x) = HelloEndOf(c) /\ IsConn(x) /\ PastOf(x, p)
  BY AnsweringPast DEF Answered, Kept
<1>1. Agreed(k) # S2N_TLS13 /\ x.handshake_type = {} /\ x.version = Agreed(k)
  BY DEF Answered
<1>2. /\ Same(x, d, {"handshake_type", "session_id", "session_ticket_status"})
      /\ Neg(d) /\ Tls12Type(d.handshake_type)
      /\ d.session_ticket_status \in {x.session_ticket_status, "NEW_TICKET"}
      /\ d.session_id = x.session_id /\ res.r = "OK"
  <2>1. "C" \in Mode /\ "S" # "C"
    BY DEF Mode
  <2>2. x.session_ticket_status # "DECRYPT_TICKET"
    BY DEF Answered, Answering
  <2>3. x.client_session_resumed => k["C"].auth # "REQUIRED"
    BY SessionAssumption DEF Answered, Answering, Resumable
  <2> QED BY <1>0, <2>1, <2>2, <2>3, Tls12TypeSame
<1> HIDE DEF d
<1>3. /\ d.version = x.version /\ d.message_number = x.message_number
      /\ d.early_data_state = x.early_data_state /\ d.early_data_cb = x.early_data_cb
      /\ d.chosen_psk = x.chosen_psk /\ d.client_session_resumed = x.client_session_resumed
      /\ d.status = x.status /\ d.paused = x.paused /\ d.io = x.io /\ IsConn(d)
  BY <1>2 DEF Same, CoreFields
<1>4. ~Hrr(d) /\ Defined(d.version, d.handshake_type)
  BY <1>1, <1>2, <1>3 DEF Hrr, Defined, Tls12Type, CommonFlag, Tls12Flag
<1>5. /\ x.message_number = c.message_number /\ x.early_data_cb = "NOT_INVOKED"
      /\ c.message_number = HelloEndOf(c)
  BY <1>1 DEF Answered, Answering, Same, CoreFields, ClientSafe, ClientOk, FirstAnswer, SecondAnswer
<1>6. HelloEndOf(x) = 1 /\ HelloEndOf(d) = 1
  BY <1>1, <1>3 DEF HelloEndOf, HelloEnd
<1>7. PastOf(d, p) /\ AtOf(d) \in {"SERVER_HELLO", "HELLO_RETRY_MSG"}
  <2> DEFINE v == x.version
             t == x.handshake_type
             u == d.handshake_type
             n == x.message_number
  <2>1. /\ Past(v, t, n, p) /\ Defined(v, u)
        /\ HelloEnd(v, u) = HelloEnd(v, t) /\ n = HelloEnd(v, t) /\ HelloEnd(v, t) \in Nat
    BY <1>0, <1>3, <1>4, <1>5, <1>6 DEF PastOf, HelloEndOf
  <2> HIDE DEF v, t, u, n
  <2>2. Past(v, u, n, p)
    BY <2>1, RetypeAtHello
  <2>3. At(v, u, n) \in {"SERVER_HELLO", "HELLO_RETRY_MSG"}
    BY <2>1, FirstIsHello
  <2> QED BY <1>3, <2>2, <2>3 DEF PastOf, AtOf, v, t, u, n
<1>8. ClientOk(k, d)
  <2>1. ClientTyped(k, d)
    BY <1>1, <1>3 DEF ClientTyped, Answered, Answering
  <2>2. d.version \in Version
    BY <1>1, <1>3, Versions DEF Version, S2N_TLS12, S2N_TLS13
  <2> QED BY <1>2, <1>3, <1>4, <1>5, <2>1, <2>2 DEF ClientOk, Answered, Answering
<1>9. Kept(c, d, p)
  BY <1>0, <1>3, <1>7 DEF Kept
<1>10. d.message_number >= HelloEndOf(d)
  BY <1>0, <1>3, <1>5, <1>6
<1> QED BY <1>2, <1>7, <1>8, <1>9, <1>10 DEF ClientReady, d

\* Whether the keys are derived decides nothing.
LEMMA DerivedSame ==
    ASSUME NEW c, IsConn(c), NEW b
    PROVE  Same(c, [c EXCEPT !.derived = b], {})
  BY DEF Same, IsConn, ConnFields, CoreFields

\* The handler of both hellos of the server.
LEMMA ServerHelloRecv ==
    ASSUME NEW k \in Configs, NEW c, IsConn(c), NEW p, PastOf(c, p), ClientSafe(k, c),
           AtOf(c) \in {"SERVER_HELLO", "HELLO_RETRY_MSG"},
           NEW body, ServerHelloSays(k, body),
           NEW res, res = s2n_server_hello_recv(k["C"], c, body)
    PROVE  /\ res.r \in {"OK", "ERROR"} /\ Kept(c, res.c, p)
           /\ res.r = "OK" => ClientReady(k, c, res.c, p)
<1> DEFINE kc == k["C"]
           r1 == s2n_server_hello_parse(kc, c, body)
           r2 == s2n_conn_set_handshake_type("C", kc, r1.c)
           keys(d) == IF ACTIVE_MESSAGE(d) = "HELLO_RETRY_MSG"
                      THEN s2n_server_hello_retry_recv(d)
                      ELSE Ok([d EXCEPT !.derived = \/ @
                                                    \/ /\ d.version < S2N_TLS13
                                                       /\ IS_RESUMPTION_HANDSHAKE(d)])
           r3 == keys(r2.c)
<1>1. res = IF r1.r # "OK" THEN r1 ELSE IF r2.r # "OK" THEN r2 ELSE r3
  <2> HIDE DEF kc
  <2>0. res = s2n_server_hello_recv(kc, c, body)
    BY DEF kc
  <2> HIDE DEF r1
  <2>1. Then(r1, LAMBDA d : s2n_conn_set_handshake_type("C", kc, d))
        = IF r1.r = "OK" THEN r2 ELSE r1
    BY DEF Then
  <2> HIDE DEF r2
  <2> HIDE DEF keys
  <2>2. Then(IF r1.r = "OK" THEN r2 ELSE r1, keys)
        = IF r1.r = "OK" THEN IF r2.r = "OK" THEN r3 ELSE r2 ELSE r1
    BY DEF Then
  <2> HIDE DEF r3
  <2>3. res = IF r1.r = "OK" THEN IF r2.r = "OK" THEN r3 ELSE r2 ELSE r1
    BY <2>0, <2>1, <2>2 DEF s2n_server_hello_recv, r1, keys
  <2> QED BY <2>3
<1>2. FirstAnswer(k, c) \/ SecondAnswer(k, c)
  BY TwoAnswers
<1>3. /\ Answering(k, c, r1.c) /\ r1.r \in {"OK", "ERROR"}
      /\ r1.r = "OK" => /\ r1.c.version = Agreed(k)
                        /\ Agreed(k) # S2N_TLS13 => r1.c.handshake_type = {}
  BY <1>2, AnswerParsed
<1> HIDE DEF r1
<1>4. Kept(c, r1.c, p)
  BY <1>2, <1>3, AnsweringPast
<1>5. CASE r1.r # "OK"
  BY <1>1, <1>3, <1>4, <1>5
<1>6. CASE r1.r = "OK"
  <2>1. Answered(k, c, r1.c)
    BY <1>3, <1>6 DEF Answered
  <2>2. ClientReady(k, c, r2.c, p) /\ r2.r = "OK"
    <3>1. CASE r1.c.version = S2N_TLS13
      <4>1. r2 = Ok(s2n_conn_set_tls13_handshake_type("C", kc, r1.c))
        BY <3>1 DEF s2n_conn_set_handshake_type
      <4>2. r2.r = "OK" /\ r2.c = s2n_conn_set_tls13_handshake_type("C", k["C"], r1.c)
        BY <4>1 DEF Ok
      <4> HIDE DEF r2
      <4> QED BY <1>2, <2>1, <3>1, <4>2, ClientType13
    <3>2. CASE r1.c.version # S2N_TLS13
      <4>1. r2 = s2n_conn_set_tls12_handshake_type("C", k["C"], r1.c)
        BY <3>2 DEF s2n_conn_set_handshake_type
      <4> HIDE DEF r2
      <4> QED BY <1>2, <2>1, <3>2, <4>1, ClientType12
    <3> QED BY <3>1, <3>2
  <2>3. IsConn(r2.c) /\ PastOf(r2.c, p) /\ Kept(c, r2.c, p)
    BY <2>2 DEF ClientReady, Kept
  <2> HIDE DEF r2
  <2>4. Same(r2.c, r3.c, {}) /\ r3.r \in {"OK", "ERROR"}
    <3> DEFINE x == [r2.c EXCEPT !.transcript = MessageHash, !.key_share = TRUE]
               y == [r2.c EXCEPT !.derived = \/ @
                                             \/ /\ r2.c.version < S2N_TLS13
                                                /\ IS_RESUMPTION_HANDSHAKE(r2.c)]
    <3>1. Same(r2.c, x, {})
      BY <2>3 DEF Same, IsConn, ConnFields, CoreFields
    <3>2. Same(r2.c, y, {})
      BY <2>3, DerivedSame
    <3>3. Same(r2.c, r2.c, {})
      BY <2>3, SameSelf
    <3>4. r3 = IF ACTIVE_MESSAGE(r2.c) = "HELLO_RETRY_MSG"
               THEN s2n_server_hello_retry_recv(r2.c) ELSE Ok(y)
      OBVIOUS
    <3>5. s2n_server_hello_retry_recv(r2.c) \in {Ok(x), Fail(r2.c)}
      BY DEF s2n_server_hello_retry_recv
    <3> HIDE DEF r3, x, y
    <3> QED BY <3>1, <3>2, <3>3, <3>4, <3>5 DEF Ok, Fail
  <2> HIDE DEF r3
  <2>5. Kept(r2.c, r3.c, p) /\ AtOf(r3.c) = AtOf(r2.c)
    BY <2>3, <2>4, SameKept
  <2>6. Kept(c, r3.c, p)
    BY <2>3, <2>5 DEF Kept
  <2>7. ClientReady(k, c, r3.c, p)
    <3>1. /\ r3.c.version = r2.c.version /\ r3.c.handshake_type = r2.c.handshake_type
          /\ r3.c.message_number = r2.c.message_number
          /\ r3.c.early_data_state = r2.c.early_data_state /\ r3.c.early_data_cb = r2.c.early_data_cb
          /\ r3.c.chosen_psk = r2.c.chosen_psk
          /\ r3.c.client_session_resumed = r2.c.client_session_resumed
          /\ r3.c.session_id = r2.c.session_id
          /\ r3.c.session_ticket_status = r2.c.session_ticket_status
      BY <2>4 DEF Same, CoreFields
    <3>2. Neg(r3.c) /\ Neg(r2.c) /\ (Hrr(r3.c) <=> Hrr(r2.c)) /\ HelloEndOf(r3.c) = HelloEndOf(r2.c)
      BY <2>2, <3>1 DEF Neg, Hrr, HelloEndOf, ClientReady
    <3>3. ClientOk(k, r3.c)
      BY <2>2, <3>1, <3>2 DEF ClientReady, ClientOk, ClientTyped
    <3> QED BY <2>2, <2>5, <2>6, <3>1, <3>2, <3>3 DEF ClientReady
  <2> QED BY <1>1, <1>6, <2>2, <2>4, <2>6, <2>7
<1> QED BY <1>5, <1>6

(***************************************************************************)
(* An endpoint moves on.                                                   *)
(***************************************************************************)

\* What a connection must be to go past the message it is at.
Movable(e, k, b) ==
    /\ Inner(b)
    /\ e = "C" => /\ ClientOk(k, b) /\ ~Opening(b)
                  /\ Neg(b) => b.message_number >= HelloEndOf(b)
    /\ e = "S" => /\ ServerOk(k, b) /\ Neg(b)
                  /\ b.version = S2N_TLS12 => b.session_id = "SERVER" \/ Resumable(k)

\* Then it is safe behind it: a client, ...
LEMMA ClientMoves ==
    ASSUME NEW k, NEW b, NEW d, ClientOk(k, b), ~Opening(b),
           Neg(b) => b.message_number >= HelloEndOf(b),
           Same(b, d, {"io", "paused", "message_number"}),
           b.message_number \in Nat, d.message_number \in Nat,
           d.message_number > b.message_number
    PROVE  ClientSafe(k, d)
<1>1. /\ d.version = b.version /\ d.handshake_type = b.handshake_type
      /\ d.early_data_state = b.early_data_state /\ d.early_data_cb = b.early_data_cb
      /\ d.chosen_psk = b.chosen_psk /\ d.client_session_resumed = b.client_session_resumed
      /\ d.session_id = b.session_id /\ d.session_ticket_status = b.session_ticket_status
  BY DEF Same, CoreFields
<1>0. ~Opening(d)
  BY DEF Opening
<1>2. ClientOk(k, d)
  <2>1. (Neg(d) <=> Neg(b)) /\ (Hrr(d) <=> Hrr(b))
    BY <1>1 DEF Neg, Hrr
  <2>3. ClientUntyped(k, b) => ClientUntyped(k, d)
    BY <1>0, <1>1 DEF ClientUntyped
  <2>4. ClientTyped(k, b) => ClientTyped(k, d)
    BY <1>1 DEF ClientTyped
  <2> QED BY <1>1, <2>1, <2>3, <2>4 DEF ClientOk
<1>3. ClientEntered(d)
  BY <1>1 DEF ClientEntered, Neg, HelloEndOf, HelloEnd
<1> QED BY <1>2, <1>3 DEF ClientSafe

\* ... and a server.
LEMMA ServerMoves ==
    ASSUME NEW k, NEW b, NEW d, ServerOk(k, b), Neg(b),
           b.version = S2N_TLS12 => b.session_id = "SERVER" \/ Resumable(k),
           Same(b, d, {"io", "paused", "message_number"}),
           b.message_number \in Nat, d.message_number \in Nat,
           d.message_number > b.message_number
    PROVE  ServerSafe(k, d)
<1>1. /\ d.version = b.version /\ d.handshake_type = b.handshake_type
      /\ d.early_data_state = b.early_data_state /\ d.early_data_cb = b.early_data_cb
      /\ d.chosen_psk = b.chosen_psk /\ d.client_hello_received = b.client_hello_received
      /\ d.session_id = b.session_id /\ d.session_ticket_status = b.session_ticket_status
  BY DEF Same, CoreFields
<1>2. Neg(d) /\ (Hrr(d) <=> Hrr(b))
  BY <1>1 DEF Neg, Hrr
<1>3. ServerOk(k, d)
  BY <1>1, <1>2 DEF ServerOk
<1> QED BY <1>1, <1>2, <1>3 DEF ServerSafe, ServerEntered

\* The end of a message: b is the connection before it, p its past.
Finished(e, k, b, p, res) ==
    /\ res.r \in {"OK", "ERROR"} /\ IsConn(res.c) /\ res.c.status = b.status
    /\ res.r = "ERROR" => PastOf(res.c, p) /\ AtOf(res.c) = AtOf(b)
    /\ res.r = "OK" =>
          /\ Safe(e, k, res.c)
          /\ \A c : c.message_number = b.message_number =>
                /\ PastOf(res.c, p \o PassedBy(c, res.c))
                /\ Grown(p, p \o PassedBy(c, res.c), AtOf(b))

\* It fails, or moves a connection that can move.
LEMMA Finishes ==
    ASSUME NEW e \in Mode, NEW k, NEW b, NEW p, PastOf(b, p), Movable(e, k, b),
           NEW x, Same(b, x, {"io", "paused"}), NEW res, res = FinishMessage(e, x)
    PROVE  Finished(e, k, b, p, res) /\ res.c.paused = x.paused /\ res.c.io = x.io
<1>1. /\ IsConn(x) /\ x.message_number = b.message_number /\ x.status = b.status
      /\ x.version = b.version /\ x.handshake_type = b.handshake_type
      /\ AtOf(x) = AtOf(b) /\ PastOf(x, p) /\ (Neg(x) <=> Neg(b)) /\ b.message_number \in Nat
  <2>1. AtOf(x) = AtOf(b) /\ PastOf(x, p) /\ x.handshake_type = b.handshake_type
    BY SamePlace
  <2>2. b.message_number \in Nat
    BY DEF PastOf, Past
  <2>3. /\ IsConn(x) /\ x.message_number = b.message_number /\ x.status = b.status
        /\ x.version = b.version
    BY DEF Same, CoreFields
  <2> QED BY <2>1, <2>2, <2>3 DEF Neg
<1>2. \/ res.r = "OK" /\ Further(x, res.c)
      \/ res.r = "ERROR" /\ Same(x, res.c, {})
  BY <1>1, FinishSame
<1>3. CASE res.r = "ERROR" /\ Same(x, res.c, {})
  <2>1. Kept(x, res.c, p) /\ AtOf(res.c) = AtOf(x)
    BY <1>1, <1>3, SameKept
  <2> QED BY <1>1, <1>3, <2>1 DEF Kept, Finished
<1>4. CASE res.r = "OK" /\ Further(x, res.c)
  <2>1. ASSUME NEW c, c.message_number = b.message_number
        PROVE  /\ PastOf(res.c, p \o PassedBy(c, res.c))
               /\ Grown(p, p \o PassedBy(c, res.c), AtOf(b))
               /\ res.c.message_number > x.message_number
    <3>1. Inner(x) /\ c.message_number = x.message_number
      BY <1>1, <2>1 DEF Movable, Inner
    <3>2. WentOn(x, res.c, p, p \o PassedBy(c, res.c))
      BY <1>1, <1>4, <3>1, FurtherPast
    <3> QED BY <1>1, <3>2 DEF WentOn
  <2>2. Same(x, res.c, {"message_number"})
    BY <1>4 DEF Further
  <2>3. /\ IsConn(res.c) /\ res.c.status = x.status
        /\ res.c.paused = x.paused /\ res.c.io = x.io
        /\ Same(b, res.c, {"io", "paused", "message_number"})
    BY <2>2 DEF Same, CoreFields
  <2>4. PastOf(res.c, p \o PassedBy(b, res.c)) /\ res.c.message_number > b.message_number
    BY <1>1, <2>1
  <2>5. res.c.message_number \in Nat
    BY <2>4 DEF PastOf, Past
  <2>6. Safe(e, k, res.c)
    <3>1. CASE e = "C"
      BY <1>1, <2>3, <2>4, <2>5, <3>1, ClientMoves DEF Movable, Safe
    <3>2. CASE e = "S"
      BY <1>1, <2>3, <2>4, <2>5, <3>2, ServerMoves DEF Movable, Safe
    <3> QED BY <3>1, <3>2 DEF Mode
  <2> QED BY <1>1, <1>4, <2>1, <2>3, <2>6 DEF Finished
<1> QED BY <1>2, <1>3, <1>4

(***************************************************************************)
(* The handlers of the other messages.                                     *)
(***************************************************************************)

\* The messages that are not of the opening come after the type is computed.
LEMMA LaterMessages ==
    ASSUME NEW v, NEW t, NEW n \in Nat, n < Len(Order(v, t)),
           At(v, t, n) \notin {"CLIENT_HELLO", "CLIENT_CHANGE_CIPHER_SPEC", "SERVER_HELLO",
                               "HELLO_RETRY_MSG"}
    PROVE  "NEGOTIATED" \in t /\ (At(v, t, n) = "ENCRYPTED_EXTENSIONS" => v = S2N_TLS13)
<1>1. CASE v = S2N_TLS13
  BY <1>1 DEF Order, Tls13Order, Opt, At
<1>2. CASE v # S2N_TLS13
  <2>1. "NEGOTIATED" \in t
    BY <1>2 DEF Order, Tls12Order, Opt, At
  <2>2. At(v, t, n) # "ENCRYPTED_EXTENSIONS"
    BY <1>2 DEF Order, Tls12Order, Opt, At
  <2> QED BY <2>1, <2>2
<1> QED BY <1>1, <1>2

\* So a connection that is at one is typed, and has gone past the ClientHello.
LEMMA Inside ==
    ASSUME NEW c, NEW p, PastOf(c, p)
    PROVE  /\ c.message_number \in Nat
           /\ AtOf(c) # "CLIENT_HELLO" => c.message_number > 0
           /\ AtOf(c) \notin {"CLIENT_HELLO", "CLIENT_CHANGE_CIPHER_SPEC", "SERVER_HELLO",
                              "HELLO_RETRY_MSG"} => Neg(c)
           /\ AtOf(c) = "ENCRYPTED_EXTENSIONS" => c.version = S2N_TLS13
<1>1. c.message_number \in Nat /\ c.message_number < Len(Order(c.version, c.handshake_type))
  BY DEF PastOf, Past
<1>2. AtOf(c) # "CLIENT_HELLO" => c.message_number > 0
  BY <1>1, StartsWithHello DEF AtOf, At
<1>3. AtOf(c) \notin {"CLIENT_HELLO", "CLIENT_CHANGE_CIPHER_SPEC", "SERVER_HELLO",
                      "HELLO_RETRY_MSG"}
      => Neg(c) /\ (AtOf(c) = "ENCRYPTED_EXTENSIONS" => c.version = S2N_TLS13)
  BY <1>1, LaterMessages DEF AtOf, Neg
<1> QED BY <1>1, <1>2, <1>3

\* The flags that the invariant looks at.
SameFlags(c, d) ==
    \A f \in {"NEGOTIATED", "FULL_HANDSHAKE", "HELLO_RETRY_REQUEST", "MIDDLEBOX_COMPAT",
              "EARLY_CLIENT_CCS"} : f \in c.handshake_type <=> f \in d.handshake_type

\* A typed client that only learns about early data or changes what is to come.
LEMMA ClientChanged ==
    ASSUME NEW k, NEW c, ClientSafe(k, c), Neg(c),
           NEW d, Same(c, d, {"handshake_type", "early_data_state"}), SameFlags(c, d),
           d.early_data_state # "UNKNOWN",
           Hrr(c) => d.early_data_state \in {"NOT_REQUESTED", "REJECTED"}
    PROVE  ClientSafe(k, d)
<1>1. /\ d.version = c.version /\ d.message_number = c.message_number
      /\ d.early_data_cb = c.early_data_cb /\ d.chosen_psk = c.chosen_psk
      /\ d.client_session_resumed = c.client_session_resumed
      /\ d.session_id = c.session_id /\ d.session_ticket_status = c.session_ticket_status
  BY DEF Same, CoreFields
<1>2. /\ Neg(d) /\ (Hrr(d) <=> Hrr(c))
      /\ "FULL_HANDSHAKE" \in c.handshake_type <=> "FULL_HANDSHAKE" \in d.handshake_type
      /\ "MIDDLEBOX_COMPAT" \in c.handshake_type <=> "MIDDLEBOX_COMPAT" \in d.handshake_type
      /\ "EARLY_CLIENT_CCS" \in c.handshake_type <=> "EARLY_CLIENT_CCS" \in d.handshake_type
  BY DEF SameFlags, Neg, Hrr
<1>3. ClientTyped(k, d)
  BY <1>1, <1>2 DEF ClientSafe, ClientOk, ClientTyped
<1>4. ClientOk(k, d)
  BY <1>1, <1>2, <1>3 DEF ClientSafe, ClientOk
<1>5. HelloEndOf(d) = HelloEndOf(c)
  BY <1>1, <1>2 DEF HelloEndOf, HelloEnd
<1> QED BY <1>1, <1>4, <1>5 DEF ClientSafe, ClientEntered

\* And a server.
LEMMA ServerChanged ==
    ASSUME NEW k, NEW c, ServerSafe(k, c), c.message_number > 0,
           NEW d, Same(c, d, {"handshake_type", "early_data_state", "client_hello_received"}),
           SameFlags(c, d),
           d.early_data_state = "ACCEPTED" => c.early_data_state = "ACCEPTED",
           Hrr(c) => d.early_data_state \in {"NOT_REQUESTED", "REJECTED"},
           c.early_data_cb # "INVOKED" \/
              (d.early_data_state = c.early_data_state
                 /\ d.client_hello_received = c.client_hello_received)
    PROVE  ServerSafe(k, d)
<1>1. /\ d.version = c.version /\ d.message_number = c.message_number
      /\ d.early_data_cb = c.early_data_cb /\ d.chosen_psk = c.chosen_psk
      /\ d.session_id = c.session_id /\ d.session_ticket_status = c.session_ticket_status
  BY DEF Same, CoreFields
<1>2. Neg(c)
  BY DEF ServerSafe, ServerOk
<1>3. /\ Neg(d) /\ (Hrr(d) <=> Hrr(c))
      /\ "MIDDLEBOX_COMPAT" \in c.handshake_type <=> "MIDDLEBOX_COMPAT" \in d.handshake_type
  BY <1>2 DEF SameFlags, Neg, Hrr
<1>4. ServerOk(k, d)
  BY <1>1, <1>2, <1>3 DEF ServerSafe, ServerOk
<1>5. ServerEntered(d)
  <2>1. c.message_number # 0
    OBVIOUS
  <2> QED BY <1>1, <2>1 DEF ServerEntered
<1> QED BY <1>4, <1>5 DEF ServerSafe

\* A connection that is like a safe one is safe.
LEMMA SafeSame ==
    ASSUME NEW e \in Mode, NEW k, NEW c, NEW p, PastOf(c, p), Safe(e, k, c),
           NEW d, Same(c, d, {})
    PROVE  Safe(e, k, d)
<1>1. CASE e = "S"
  BY <1>1, ServerSafeSame DEF Safe
<1>2. CASE e = "C"
  <2>1. ClientSafe(k, c) /\ c.message_number \in Nat
    BY <1>2 DEF Safe, PastOf, Past
  <2>2. d.message_number = c.message_number /\ d.io = c.io
    BY DEF Same, CoreFields
  <2>3. Same(c, d, {"io", "paused", "message_number"})
    BY DEF Same
  <2>4. Opening(c) <=> Opening(d)
    BY <2>2 DEF Opening
  <2>5. d.message_number >= c.message_number /\ d.message_number \in Nat
    BY <2>1, <2>2
  <2>6. ClientSafe(k, d)
    BY <2>1, <2>3, <2>4, <2>5, ClientSafeSame
  <2> QED BY <1>2, <2>6 DEF Safe
<1> QED BY <1>1, <1>2 DEF Mode

\* A connection with a message in its output buffer.
Writable(e, k, c) == \A d : Same(c, d, {"io", "paused"}) /\ d.io = "MESSAGE" => Safe(e, k, d)

\* Any safe one, behind the first message.
LEMMA SafeWritable ==
    ASSUME NEW e \in Mode, NEW k, NEW c, NEW p, PastOf(c, p), Safe(e, k, c),
           c.message_number # 0
    PROVE  Writable(e, k, c)
<1>1. CASE e = "S"
  BY <1>1, ServerSafeSame DEF Safe, Writable
<1>2. CASE e = "C"
  BY <1>2, SafeSendable DEF Safe, Writable, Sendable
<1> QED BY <1>1, <1>2 DEF Mode

\* Also a connection that is like it.
LEMMA SameWritable ==
    ASSUME NEW e \in Mode, NEW k, NEW c, NEW p, PastOf(c, p), Safe(e, k, c),
           c.message_number # 0, NEW d, Same(c, d, {})
    PROVE  Kept(c, d, p) /\ AtOf(d) = AtOf(c) /\ Writable(e, k, d)
<1>1. Kept(c, d, p) /\ AtOf(d) = AtOf(c)
  BY SameKept
<1>2. Safe(e, k, d)
  BY SafeSame
<1>3. PastOf(d, p) /\ d.message_number # 0
  BY <1>1 DEF Kept
<1> QED BY <1>1, <1>2, <1>3, SafeWritable

\* A private-key operation completes, is invoked or is waited for.
LEMMA PkeySame ==
    ASSUME NEW k, NEW c, IsConn(c), NEW res, res = s2n_async_pkey(k, c)
    PROVE  Same(c, res.c, {}) /\ res.r \in {"OK", "ASYNC_BLOCKED"}
<1> DEFINE x == [c EXCEPT !.async_state = "NOT_INVOKED"]
           y == [c EXCEPT !.async_state = "INVOKED"]
<1>1. Same(c, x, {}) /\ Same(c, y, {}) /\ Same(c, c, {})
  BY DEF Same, IsConn, ConnFields, CoreFields, AsyncState
<1>2. c.async_state \in AsyncState
  BY DEF IsConn
<1>3. res \in {Ok(x), Block(c), Block(y), Ok(c)}
  BY <1>2 DEF s2n_async_pkey, AsyncState
<1> HIDE DEF x, y
<1> QED BY <1>1, <1>3 DEF Ok, Block

\* The client has no certificate.
LEMMA NoCertSame ==
    ASSUME NEW e \in Mode, NEW k, NEW c, IsConn(c), NEW p, PastOf(c, p), Safe(e, k, c),
           AtOf(c) = "CLIENT_CERT", NEW d, d = SetFlag(c, "NO_CLIENT_CERT")
    PROVE  Kept(c, d, p) /\ AtOf(d) = AtOf(c) /\ Safe(e, k, d)
<1>1. /\ Same(c, d, {"handshake_type"})
      /\ d.handshake_type = c.handshake_type \cup {"NO_CLIENT_CERT"}
  BY DEF SetFlag, Same, IsConn, ConnFields, CoreFields
<1>2. /\ d.version = c.version /\ d.message_number = c.message_number /\ d.status = c.status
      /\ d.paused = c.paused /\ d.io = c.io /\ d.early_data_state = c.early_data_state
      /\ d.client_hello_received = c.client_hello_received /\ IsConn(d)
  BY <1>1 DEF Same, CoreFields
<1>3. PastOf(d, p) /\ AtOf(d) = AtOf(c)
  <2> DEFINE v == c.version
             t == c.handshake_type
             n == c.message_number
             u == d.handshake_type
  <2>1. Past(v, t, n, p) /\ At(v, t, n) = "CLIENT_CERT" /\ u = t \cup {"NO_CLIENT_CERT"}
    BY <1>1 DEF PastOf, AtOf
  <2> HIDE DEF v, t, n, u
  <2>2. Past(v, u, n, p) /\ At(v, u, n) = At(v, t, n)
    BY <2>1, RetypeAtClientCert
  <2> QED BY <1>2, <2>2 DEF PastOf, AtOf, v, t, n, u
<1>4. Kept(c, d, p)
  BY <1>2, <1>3 DEF Kept
<1>5. c.message_number > 0 /\ Neg(c) /\ SameFlags(c, d)
  BY <1>1, Inside DEF SameFlags
<1>6. CASE e = "C"
  <2>1. ClientSafe(k, c)
    BY <1>6 DEF Safe
  <2>2. /\ c.early_data_state # "UNKNOWN"
        /\ Hrr(c) => c.early_data_state \in {"NOT_REQUESTED", "REJECTED"}
    BY <1>5, <2>1 DEF ClientSafe, ClientOk, ClientTyped
  <2>3. Same(c, d, {"handshake_type", "early_data_state"})
    BY <1>1 DEF Same
  <2>4. ClientSafe(k, d)
    BY <1>2, <1>5, <2>1, <2>2, <2>3, ClientChanged
  <2> QED BY <1>3, <1>4, <1>6, <2>4 DEF Safe
<1>7. CASE e = "S"
  <2>1. ServerSafe(k, c)
    BY <1>7 DEF Safe
  <2>2. Hrr(c) => c.early_data_state \in {"NOT_REQUESTED", "REJECTED"}
    BY <2>1 DEF ServerSafe, ServerOk
  <2>3. Same(c, d, {"handshake_type", "early_data_state", "client_hello_received"})
    BY <1>1 DEF Same
  <2>4. ServerSafe(k, d)
    BY <1>2, <1>5, <2>1, <2>2, <2>3, ServerChanged
  <2> QED BY <1>3, <1>4, <1>7, <2>4 DEF Safe
<1> QED BY <1>6, <1>7 DEF Mode

\* The early data ends, if it was accepted.
LEMMA EndSame ==
    ASSUME NEW e \in Mode, NEW k, NEW c, IsConn(c), NEW p, PastOf(c, p), Safe(e, k, c),
           AtOf(c) = "END_OF_EARLY_DATA",
           NEW res, res = s2n_connection_set_early_data_state(c, "END")
    PROVE  /\ res.r \in {"OK", "ERROR"} /\ Kept(c, res.c, p) /\ AtOf(res.c) = AtOf(c)
           /\ res.r = "OK" => Safe(e, k, res.c)
<1>1. /\ Same(c, res.c, {"early_data_state"})
      /\ \/ /\ res.r = "OK" /\ res.c.early_data_state = "END"
            /\ c.early_data_state \in {"END", "ACCEPTED"}
         \/ res.r = "ERROR"
  BY SetEarlySame DEF valid_previous_states, Fail
<1>2. Kept(c, res.c, p) /\ AtOf(res.c) = AtOf(c)
  BY <1>1, SameKept
<1>3. c.message_number > 0 /\ Neg(c)
  BY Inside
<1>4. SameFlags(c, res.c) /\ res.c.client_hello_received = c.client_hello_received
  BY <1>1 DEF Same, CoreFields, SameFlags
<1>5. ASSUME res.r = "OK" PROVE Safe(e, k, res.c)
  <2>1. CASE e = "C"
    <3>1. ClientSafe(k, c) /\ ~Hrr(c)
      BY <1>1, <1>5, <2>1 DEF Safe, ClientSafe, ClientOk
    <3>2. Same(c, res.c, {"handshake_type", "early_data_state"})
      BY <1>1 DEF Same
    <3>3. ClientSafe(k, res.c)
      BY <1>1, <1>3, <1>4, <1>5, <3>1, <3>2, ClientChanged
    <3> QED BY <2>1, <3>3 DEF Safe
  <2>2. CASE e = "S"
    <3>1. ServerSafe(k, c) /\ ~Hrr(c) /\ c.early_data_cb # "INVOKED"
      BY <1>1, <1>5, <2>2 DEF Safe, ServerSafe, ServerOk
    <3>2. Same(c, res.c, {"handshake_type", "early_data_state", "client_hello_received"})
      BY <1>1 DEF Same
    <3>3. ServerSafe(k, res.c)
      BY <1>1, <1>3, <1>4, <1>5, <3>1, <3>2, ServerChanged
    <3> QED BY <2>2, <3>3 DEF Safe
  <2> QED BY <2>1, <2>2 DEF Mode
<1> QED BY <1>1, <1>2, <1>5

(***************************************************************************)
(* A message is written.                                                   *)
(***************************************************************************)

\* What the handler leaves of a connection c at the message m.
Written(e, k, c, p, m, res) ==
    /\ res.r \in {"OK", "ERROR", "ASYNC_BLOCKED", "EARLY_DATA_BLOCKED"}
    /\ Kept(c, res.c, p) /\ AtOf(res.c) = m
    /\ res.r \in {"OK", "ASYNC_BLOCKED"} => Writable(e, k, res.c)
    /\ res.r = "ASYNC_BLOCKED" => m \in Signed
    /\ res.r = "EARLY_DATA_BLOCKED" => m = "END_OF_EARLY_DATA"
    /\ res.r = "OK" /\ m = "CLIENT_HELLO" => ClientHelloSays(k, MessageBody(k[e], res.c, m))
    /\ res.r = "OK" /\ m \in {"SERVER_HELLO", "HELLO_RETRY_MSG"} =>
          ServerHelloSays(k, MessageBody(k[e], res.c, m))

\* The keys and the flag that they are derived decide nothing.
LEMMA KeysDerivedSame ==
    ASSUME NEW c, IsConn(c), NEW x, NEW b
    PROVE  Same(c, [c EXCEPT !.w = x, !.derived = b], {})
  BY DEF Same, IsConn, ConnFields, CoreFields

\* The Finished message.
LEMMA FinishedSendSame ==
    ASSUME NEW e, NEW c, IsConn(c), NEW res, res = s2n_finished_send(e, c)
    PROVE  Same(c, res.c, {}) /\ res.r = "OK"
<1> DEFINE x == [c EXCEPT !.w = [epoch |-> "SECURE", seq |-> 0],
                          !.derived = @ \/ (e = "S" /\ IS_RESUMPTION_HANDSHAKE(c))]
<1>1. Same(c, x, {})
  BY KeysDerivedSame
<1>2. res = Ok(IF c.version >= S2N_TLS13 THEN c ELSE x)
  BY DEF s2n_finished_send
<1> HIDE DEF x
<1>3. Same(c, c, {})
  BY SameSelf
<1> QED BY <1>1, <1>2, <1>3 DEF Ok

\* A handler that changes nothing, if the message is no hello.
LEMMA PlainWritten ==
    ASSUME NEW e \in Mode, NEW k, NEW c, NEW p, PastOf(c, p), Safe(e, k, c), NEW m, m = AtOf(c),
           m \notin {"CLIENT_HELLO", "SERVER_HELLO", "HELLO_RETRY_MSG"},
           NEW res, Same(c, res.c, {}), res.r \in {"OK", "ERROR", "ASYNC_BLOCKED"},
           res.r = "ASYNC_BLOCKED" => m \in Signed
    PROVE  Written(e, k, c, p, m, res)
<1>1. c.message_number # 0
  BY Inside
<1>2. Kept(c, res.c, p) /\ AtOf(res.c) = m /\ Writable(e, k, res.c)
  BY <1>1, SameWritable
<1> QED BY <1>2 DEF Written

\* What a client writes.
LEMMA ClientWrites ==
    ASSUME NEW k \in Configs, NEW c, IsConn(c), NEW p, PastOf(c, p), ClientSafe(k, c),
           c.message_number = 0 => c.io = "WIPED",
           NEW m \in ClientMessage, m = AtOf(c),
           NEW res, res = WriteHandler("C", k["C"], c, m)
    PROVE  Written("C", k, c, p, m, res)
<1>0. "C" \in Mode /\ Safe("C", k, c)
  BY DEF Mode, Safe
<1>1. CASE m = "CLIENT_HELLO"
  <2>1. res = s2n_client_hello_send(k["C"], c)
    BY <1>1 DEF WriteHandler
  <2>2. /\ Kept(c, res.c, p) /\ AtOf(res.c) = "CLIENT_HELLO" /\ res.r \in {"OK", "ERROR"}
        /\ res.r = "OK" => Sendable(k, res.c) /\ ClientHelloSays(k, ClientHelloBody(k["C"], res.c))
    <3>1. CASE c.message_number = 0
      BY <2>1, <3>1, FirstHelloSent
    <3>2. CASE c.message_number # 0
      BY <1>1, <2>1, <3>2, SecondHelloSent
    <3> QED BY <3>1, <3>2
  <2>3. MessageBody(k["C"], res.c, m) = ClientHelloBody(k["C"], res.c)
    BY <1>1 DEF MessageBody
  <2>4. Sendable(k, res.c) => Writable("C", k, res.c)
    BY DEF Sendable, Writable, Safe
  <2> QED BY <1>1, <2>2, <2>3, <2>4 DEF Written
<1>2. CASE m # "CLIENT_HELLO"
  <2>0. m \notin {"CLIENT_HELLO", "SERVER_HELLO", "HELLO_RETRY_MSG"} /\ c.message_number # 0
    BY <1>2, Inside DEF ClientMessage
  <2>1. CASE m = "CLIENT_CERT_VERIFY"
    <3>1. res = s2n_async_pkey(k["C"], c)
      BY <2>1 DEF WriteHandler
    <3> QED BY <1>0, <2>0, <2>1, <3>1, PkeySame, PlainWritten DEF Signed
  <2>2. CASE m = "CLIENT_CERT"
    <3>1. res = IF k["C"].cert THEN Ok(c)
                ELSE IF k["C"].auth # "OPTIONAL" THEN Fail(c) ELSE Ok(SetFlag(c, "NO_CLIENT_CERT"))
      BY <2>2 DEF WriteHandler, s2n_client_cert_send, s2n_conn_set_handshake_no_client_cert
    <3>2. CASE res = Ok(c) \/ res = Fail(c)
      <4>1. Same(c, res.c, {}) /\ res.r \in {"OK", "ERROR"}
        BY <3>2, SameSelf DEF Ok, Fail
      <4> QED BY <1>0, <2>0, <4>1, PlainWritten
    <3>3. CASE res = Ok(SetFlag(c, "NO_CLIENT_CERT"))
      <4>1. res.r = "OK" /\ res.c = SetFlag(c, "NO_CLIENT_CERT")
        BY <3>3 DEF Ok
      <4>2. Kept(c, res.c, p) /\ AtOf(res.c) = m /\ Safe("C", k, res.c)
        BY <1>0, <2>2, <4>1, NoCertSame
      <4>3. PastOf(res.c, p) /\ res.c.message_number # 0
        BY <2>0, <4>2 DEF Kept
      <4>4. Writable("C", k, res.c)
        BY <1>0, <4>2, <4>3, SafeWritable
      <4> QED BY <2>0, <4>1, <4>2, <4>4 DEF Written
    <3> QED BY <3>1, <3>2, <3>3
  <2>3. CASE m = "CLIENT_KEY"
    <3>1. res = Ok([c EXCEPT !.derived = TRUE])
      BY <2>3 DEF WriteHandler
    <3>2. Same(c, res.c, {}) /\ res.r = "OK"
      BY <3>1, DerivedSame DEF Ok
    <3> QED BY <1>0, <2>0, <3>2, PlainWritten
  <2>4. CASE m = "END_OF_EARLY_DATA"
    <3>1. res = s2n_end_of_early_data_send(c)
      BY <2>4 DEF WriteHandler
    <3>2. CASE c.early_data_expected
      <4>1. res.r = "EARLY_DATA_BLOCKED" /\ res.c = c
        BY <3>1, <3>2 DEF s2n_end_of_early_data_send
      <4> QED BY <2>0, <2>4, <4>1 DEF Written, Kept
    <3>3. CASE ~c.early_data_expected
      <4>1. res = s2n_connection_set_early_data_state(c, "END")
        BY <3>1, <3>3 DEF s2n_end_of_early_data_send
      <4>2. /\ res.r \in {"OK", "ERROR"} /\ Kept(c, res.c, p) /\ AtOf(res.c) = AtOf(c)
            /\ res.r = "OK" => Safe("C", k, res.c)
        BY <1>0, <2>4, <4>1, EndSame
      <4>3. PastOf(res.c, p) /\ res.c.message_number # 0
        BY <2>0, <4>2 DEF Kept
      <4>4. res.r = "OK" => Writable("C", k, res.c)
        BY <1>0, <4>2, <4>3, SafeWritable
      <4> QED BY <2>0, <4>2, <4>4 DEF Written
    <3> QED BY <3>2, <3>3
  <2>5. CASE m = "CLIENT_FINISHED"
    <3>1. res = s2n_finished_send("C", c)
      BY <2>5 DEF WriteHandler
    <3> QED BY <1>0, <2>0, <3>1, FinishedSendSame, PlainWritten
  <2>6. CASE m = "CLIENT_CHANGE_CIPHER_SPEC"
    <3>1. res = Ok(c)
      BY <2>6 DEF WriteHandler
    <3>2. Same(c, res.c, {}) /\ res.r = "OK"
      BY <3>1, SameSelf DEF Ok
    <3> QED BY <1>0, <2>0, <3>2, PlainWritten
  <2> QED BY <1>2, <2>1, <2>2, <2>3, <2>4, <2>5, <2>6 DEF ClientMessage
<1> QED BY <1>1, <1>2

\* What the hellos of a server say.
LEMMA ServerHelloWritten ==
    ASSUME NEW k \in Configs, NEW c, NEW p, PastOf(c, p), ServerSafe(k, c),
           NEW m \in {"SERVER_HELLO", "HELLO_RETRY_MSG"}, m = AtOf(c)
    PROVE  ServerHelloSays(k, MessageBody(k["S"], c, m))
<1>1. c.message_number > 0
  BY Inside
<1>2. /\ Neg(c) /\ c.version = Agreed(k) /\ (c.session_id = "SESSION" => k["C"].session = "CACHE")
      /\ c.version = S2N_TLS12 => c.session_id = "SERVER" \/ Resumable(k)
  BY <1>1 DEF ServerSafe, ServerOk
<1>3. c.message_number \in Nat /\ c.message_number < Len(Order(c.version, c.handshake_type))
  BY DEF PastOf, Past
<1>4. m = "HELLO_RETRY_MSG" => c.version = S2N_TLS13
  BY <1>3, WhereHellos DEF AtOf
<1>5. Agreed(k) # S2N_TLS13 => c.version = S2N_TLS12
  BY <1>2, Versions DEF S2N_TLS12, S2N_TLS13
<1>6. \E hrr \in BOOLEAN : /\ MessageBody(k["S"], c, m) = ServerHelloBody(k["S"], c, hrr)
                           /\ hrr <=> m = "HELLO_RETRY_MSG"
  BY DEF MessageBody
<1>7. PICK hrr \in BOOLEAN : /\ MessageBody(k["S"], c, m) = ServerHelloBody(k["S"], c, hrr)
                             /\ hrr <=> m = "HELLO_RETRY_MSG"
  BY <1>6
<1>8. /\ ServerHelloBody(k["S"], c, hrr).version = c.version
      /\ ServerHelloBody(k["S"], c, hrr).session_id = c.session_id
      /\ ServerHelloBody(k["S"], c, hrr).hrr = hrr
  BY DEF ServerHelloBody
<1> QED BY <1>2, <1>4, <1>5, <1>7, <1>8 DEF ServerHelloSays

\* A HelloRetryRequest asks for a ClientHello that is yet to be received.
LEMMA RetrySent ==
    ASSUME NEW k \in Configs, NEW c, IsConn(c), NEW p, PastOf(c, p), ServerSafe(k, c),
           AtOf(c) = "HELLO_RETRY_MSG", NEW res, res = s2n_server_hello_retry_send(c)
    PROVE  Kept(c, res.c, p) /\ AtOf(res.c) = AtOf(c) /\ ServerSafe(k, res.c) /\ res.r = "OK"
<1>1. Same(c, res.c, {"client_hello_received"}) /\ res.r = "OK"
  <2> DEFINE x == [c EXCEPT !.transcript = MessageHash, !.client_hello_received = FALSE]
  <2>1. Same(c, x, {"client_hello_received"})
    BY DEF Same, IsConn, ConnFields, CoreFields
  <2>2. res = Ok(x)
    BY DEF s2n_server_hello_retry_send
  <2> HIDE DEF x
  <2> QED BY <2>1, <2>2 DEF Ok
<1>2. Kept(c, res.c, p) /\ AtOf(res.c) = AtOf(c)
  BY <1>1, SameKept
<1>3. c.message_number > 0
  BY Inside
<1>4. Hrr(c)
  <2>1. c.message_number \in Nat /\ c.message_number < Len(Order(c.version, c.handshake_type))
    BY DEF PastOf, Past
  <2> QED BY <2>1, WhereHellos DEF AtOf, Hrr
<1>5. /\ c.early_data_state \in {"NOT_REQUESTED", "REJECTED"} /\ c.early_data_cb # "INVOKED"
  BY <1>4 DEF ServerSafe, ServerOk
<1>6. /\ SameFlags(c, res.c) /\ res.c.early_data_state = c.early_data_state
      /\ Same(c, res.c, {"handshake_type", "early_data_state", "client_hello_received"})
  BY <1>1 DEF Same, CoreFields, SameFlags
<1>7. ServerSafe(k, res.c)
  BY <1>3, <1>5, <1>6, ServerChanged
<1> QED BY <1>1, <1>2, <1>7

\* What a server writes.
LEMMA ServerWrites ==
    ASSUME NEW k \in Configs, NEW c, IsConn(c), NEW p, PastOf(c, p), ServerSafe(k, c),
           NEW m \in ServerMessage, m = AtOf(c),
           NEW res, res = WriteHandler("S", k["S"], c, m)
    PROVE  Written("S", k, c, p, m, res)
<1>0. "S" \in Mode /\ Safe("S", k, c) /\ m # "CLIENT_HELLO" /\ c.message_number # 0
  BY Inside DEF Mode, Safe, ServerMessage
<1>1. CASE m \in {"SERVER_HELLO", "HELLO_RETRY_MSG"}
  <2>1. /\ res.r = "OK" /\ Kept(c, res.c, p) /\ AtOf(res.c) = m /\ ServerSafe(k, res.c)
    <3>1. CASE m = "SERVER_HELLO"
      <4>1. res = Ok(c)
        BY <3>1 DEF WriteHandler
      <4> QED BY <4>1 DEF Ok, Kept
    <3>2. CASE m = "HELLO_RETRY_MSG"
      <4>1. res = s2n_server_hello_retry_send(c)
        BY <3>2 DEF WriteHandler
      <4> QED BY <3>2, <4>1, RetrySent
    <3> QED BY <1>1, <3>1, <3>2
  <2>2. PastOf(res.c, p) /\ res.c.message_number # 0 /\ Safe("S", k, res.c)
    BY <1>0, <2>1 DEF Kept, Safe
  <2>3. Writable("S", k, res.c)
    BY <1>0, <2>2, SafeWritable
  <2>4. ServerHelloSays(k, MessageBody(k["S"], res.c, m))
    BY <1>1, <2>1, <2>2, ServerHelloWritten
  <2> QED BY <1>1, <2>1, <2>3, <2>4 DEF Written
<1>2. CASE m \notin {"SERVER_HELLO", "HELLO_RETRY_MSG"}
  <2>0. m \notin {"CLIENT_HELLO", "SERVER_HELLO", "HELLO_RETRY_MSG"}
    BY <1>0, <1>2
  <2>1. CASE m \in {"SERVER_KEY", "SERVER_CERT_VERIFY"}
    <3>1. res = s2n_async_pkey(k["S"], c)
      BY <2>1 DEF WriteHandler
    <3> QED BY <1>0, <2>0, <2>1, <3>1, PkeySame, PlainWritten DEF Signed
  <2>2. CASE m = "SERVER_NEW_SESSION_TICKET"
    <3>1. res = Ok(c) \/ res = Fail(c)
      BY <2>2 DEF WriteHandler, s2n_server_nst_send, Ensure
    <3>2. Same(c, res.c, {}) /\ res.r \in {"OK", "ERROR"}
      BY <3>1, SameSelf DEF Ok, Fail
    <3> QED BY <1>0, <2>0, <3>2, PlainWritten
  <2>3. CASE m = "SERVER_FINISHED"
    <3>1. res = s2n_finished_send("S", c)
      BY <2>3 DEF WriteHandler
    <3> QED BY <1>0, <2>0, <3>1, FinishedSendSame, PlainWritten
  <2>4. CASE m \in {"SERVER_CERT", "SERVER_CERT_STATUS", "SERVER_CERT_REQ", "SERVER_HELLO_DONE",
                    "SERVER_CHANGE_CIPHER_SPEC", "ENCRYPTED_EXTENSIONS"}
    <3>1. res = Ok(c)
      BY <2>4 DEF WriteHandler
    <3>2. Same(c, res.c, {}) /\ res.r = "OK"
      BY <3>1, SameSelf DEF Ok
    <3> QED BY <1>0, <2>0, <3>2, PlainWritten
  <2> QED BY <1>2, <2>1, <2>2, <2>3, <2>4 DEF ServerMessage
<1> QED BY <1>1, <1>2

\* Either side.
LEMMA Writes ==
    ASSUME NEW e \in Mode, NEW k \in Configs, NEW c, IsConn(c), NEW p, PastOf(c, p),
           Safe(e, k, c), c.message_number = 0 => c.io = "WIPED",
           NEW m, m = AtOf(c), Writer(m) = e,
           NEW res, res = WriteHandler(e, k[e], c, m)
    PROVE  Written(e, k, c, p, m, res)
<1>1. CASE e = "C"
  <2>1. m \in ClientMessage
    BY <1>1 DEF Writer
  <2> QED BY <1>1, <2>1, ClientWrites DEF Safe
<1>2. CASE e = "S"
  <2>1. m \in ServerMessage
    BY <1>2 DEF Writer
  <2> QED BY <1>2, <2>1, ServerWrites DEF Safe
<1> QED BY <1>1, <1>2 DEF Mode

(***************************************************************************)
(* A message is read.                                                      *)
(***************************************************************************)

\* A safe connection can go past the message it is at, except for the hellos
\* at which the type is computed.
LEMMA SafeMovable ==
    ASSUME NEW e \in Mode, NEW k, NEW c, NEW p, PastOf(c, p), Safe(e, k, c),
           AtOf(c) # "APPLICATION_DATA",
           e = "C" => AtOf(c) \notin {"SERVER_HELLO", "HELLO_RETRY_MSG"} /\ ~Opening(c),
           e = "S" => AtOf(c) # "CLIENT_HELLO"
    PROVE  Movable(e, k, c)
<1>1. c.message_number \in Nat /\ HelloEndOf(c) \in Nat
  BY Inside DEF HelloEndOf, HelloEnd
<1>2. CASE e = "C"
  <2>1. ClientOk(k, c) /\ ClientEntered(c) /\ e # "S"
    BY <1>2 DEF Safe, ClientSafe
  <2>2. Neg(c) => c.message_number >= HelloEndOf(c)
    BY <1>1, <2>1 DEF ClientEntered
  <2> QED BY <1>2, <2>1, <2>2 DEF Movable, Inner
<1>3. CASE e = "S"
  <2>1. ServerOk(k, c) /\ c.message_number > 0 /\ e # "C"
    BY <1>3, Inside DEF Safe, ServerSafe
  <2>2. Neg(c) /\ (c.version = S2N_TLS12 => c.session_id = "SERVER" \/ Resumable(k))
    BY <2>1 DEF ServerOk
  <2> QED BY <1>3, <2>1, <2>2 DEF Movable, Inner
<1> QED BY <1>2, <1>3 DEF Mode

\* What the handler leaves of a connection c at the message m.
Taken(e, k, c, p, m, res) ==
    /\ res.r \in {"OK", "ERROR", "ASYNC_BLOCKED"}
    /\ Kept(c, res.c, p)
    /\ res.r # "ERROR" => WireType(AtOf(res.c)) = WireType(m) /\ Writer(AtOf(res.c)) = Writer(m)
    /\ res.r = "ASYNC_BLOCKED" => Safe(e, k, res.c)
    /\ res.r = "OK" => Movable(e, k, res.c)

\* Neither a hello nor the end.
NoHello(m) == m \notin {"CLIENT_HELLO", "SERVER_HELLO", "HELLO_RETRY_MSG", "APPLICATION_DATA"}

\* A handler that leaves the connection safe, if the message is no hello.
LEMMA SafeTaken ==
    ASSUME NEW e \in Mode, NEW k, NEW c, NEW p, PastOf(c, p), NEW m, m = AtOf(c),
           NoHello(m),
           NEW res, res.r \in {"OK", "ERROR", "ASYNC_BLOCKED"},
           Kept(c, res.c, p), AtOf(res.c) = m, Safe(e, k, res.c)
    PROVE  Taken(e, k, c, p, m, res)
<1>1. c.message_number > 0
  BY Inside DEF NoHello
<1>2. PastOf(res.c, p) /\ ~Opening(res.c)
  BY <1>1 DEF Kept, Opening
<1>3. Movable(e, k, res.c)
  <2>1. /\ AtOf(res.c) # "APPLICATION_DATA" /\ AtOf(res.c) \notin {"SERVER_HELLO", "HELLO_RETRY_MSG"}
        /\ AtOf(res.c) # "CLIENT_HELLO"
    BY DEF NoHello
  <2> QED BY <1>2, <2>1, SafeMovable
<1> QED BY <1>3 DEF Taken

\* A handler that changes nothing.
LEMMA PlainTaken ==
    ASSUME NEW e \in Mode, NEW k, NEW c, NEW p, PastOf(c, p), Safe(e, k, c), NEW m, m = AtOf(c),
           NoHello(m),
           NEW res, Same(c, res.c, {}), res.r \in {"OK", "ERROR", "ASYNC_BLOCKED"}
    PROVE  Taken(e, k, c, p, m, res)
<1>1. Kept(c, res.c, p) /\ AtOf(res.c) = m
  BY SameKept
<1>2. Safe(e, k, res.c)
  BY SafeSame
<1> QED BY <1>1, <1>2, SafeTaken

\* EncryptedExtensions that accept the early data.
LEMMA EarlyAccepted ==
    ASSUME NEW k, NEW c, IsConn(c), NEW p, PastOf(c, p), ClientSafe(k, c),
           AtOf(c) = "ENCRYPTED_EXTENSIONS", c.chosen_psk, c.early_data_state \in {"REQUESTED", "ACCEPTED"},
           NEW x, Same(c, x, {"early_data_state"}), x.early_data_state = "ACCEPTED",
           NEW d, d = SetFlag(x, "WITH_EARLY_DATA")
    PROVE  Kept(c, d, p) /\ AtOf(d) = AtOf(c) /\ ClientSafe(k, d)
<1>1. Neg(c) /\ c.version = S2N_TLS13
  BY Inside
<1>2. ~Hrr(c)
  BY DEF ClientSafe, ClientOk
<1>3. "FULL_HANDSHAKE" \notin c.handshake_type
  BY <1>1 DEF ClientSafe, ClientOk, ClientTyped
<1>4. IsConn(x) /\ x.handshake_type = c.handshake_type
  BY DEF Same, CoreFields
<1>5. /\ Same(x, d, {"handshake_type"})
      /\ d.handshake_type = x.handshake_type \cup {"WITH_EARLY_DATA"}
  BY <1>4 DEF SetFlag, Same, IsConn, ConnFields, CoreFields
<1>6. /\ Same(c, d, {"handshake_type", "early_data_state"})
      /\ d.handshake_type = c.handshake_type \cup {"WITH_EARLY_DATA"}
      /\ d.early_data_state = "ACCEPTED"
  BY <1>4, <1>5 DEF Same, CoreFields
<1>7. SameFlags(c, d)
  BY <1>6 DEF SameFlags
<1>8. ClientSafe(k, d)
  BY <1>1, <1>2, <1>6, <1>7, ClientChanged
<1>9. /\ d.version = c.version /\ d.message_number = c.message_number /\ d.status = c.status
      /\ d.paused = c.paused /\ d.io = c.io /\ IsConn(d)
  BY <1>6 DEF Same, CoreFields
<1>10. PastOf(d, p) /\ AtOf(d) = AtOf(c)
  <2> DEFINE t == c.handshake_type
             n == c.message_number
             u == d.handshake_type
  <2>1. /\ Past(S2N_TLS13, t, n, p) /\ At(S2N_TLS13, t, n) = "ENCRYPTED_EXTENSIONS"
        /\ u = t \cup {"WITH_EARLY_DATA"}
    BY <1>1, <1>6 DEF PastOf, AtOf
  <2>2. Defined(S2N_TLS13, t) /\ "FULL_HANDSHAKE" \notin t /\ "HELLO_RETRY_REQUEST" \notin t
        /\ "NEGOTIATED" \in t
    BY <1>1, <1>2, <1>3, <2>1 DEF Past, Hrr, Neg
  <2> HIDE DEF t, n, u
  <2>3. Defined(S2N_TLS13, u)
    BY <2>1, <2>2 DEF Defined, Tls13Type, CommonFlag, Tls13Flag
  <2>4. Past(S2N_TLS13, u, n, p) /\ At(S2N_TLS13, u, n) = At(S2N_TLS13, t, n)
    BY <2>1, <2>3, RetypeAtExtensions
  <2> QED BY <1>1, <1>9, <2>4 DEF PastOf, AtOf, t, n, u
<1> QED BY <1>8, <1>9, <1>10 DEF Kept

\* EncryptedExtensions.
LEMMA ExtensionsRecv ==
    ASSUME NEW k, NEW c, IsConn(c), NEW p, PastOf(c, p), ClientSafe(k, c),
           NEW m, m = AtOf(c), m = "ENCRYPTED_EXTENSIONS",
           NEW body, NEW res, res = s2n_encrypted_extensions_recv(c, body)
    PROVE  Taken("C", k, c, p, m, res)
<1>0. "C" \in Mode /\ Safe("C", k, c) /\ Neg(c) /\ c.version = S2N_TLS13
  BY Inside DEF Mode, Safe
<1> DEFINE r1 == s2n_connection_set_early_data_state(c, "ACCEPTED")
           r2 == s2n_connection_set_early_data_state(c, "REJECTED")
<1>1. Then(r1, LAMBDA d : Ok(SetFlag(d, "WITH_EARLY_DATA")))
      = IF r1.r = "OK" THEN Ok(SetFlag(r1.c, "WITH_EARLY_DATA")) ELSE r1
  BY DEF Then
<1>2. \/ res = Ok(c) \/ res = Fail(c)
      \/ res = r2 /\ c.early_data_state = "REQUESTED"
      \/ res = r1 /\ r1.r # "OK"
      \/ res = Ok(SetFlag(r1.c, "WITH_EARLY_DATA")) /\ r1.r = "OK" /\ c.chosen_psk
  BY <1>1 DEF s2n_encrypted_extensions_recv, s2n_early_data_is_valid_for_connection
<1>3. /\ Same(c, r1.c, {"early_data_state"})
      /\ \/ /\ r1.r = "OK" /\ r1.c.early_data_state = "ACCEPTED"
            /\ c.early_data_state \in {"ACCEPTED", "REQUESTED"}
         \/ r1 = Fail(c)
  BY SetEarlySame DEF valid_previous_states
<1>4. /\ Same(c, r2.c, {"early_data_state"})
      /\ \/ r2.r = "OK" /\ r2.c.early_data_state = "REJECTED"
         \/ r2 = Fail(c)
  BY SetEarlySame DEF valid_previous_states
<1> HIDE DEF r1, r2
<1>8. NoHello(m) /\ m = AtOf(c) /\ PastOf(c, p)
  BY DEF NoHello
<1>5. CASE res = Ok(c) \/ res = Fail(c)
  <2>1. Same(c, res.c, {}) /\ res.r \in {"OK", "ERROR"}
    BY <1>5, SameSelf DEF Ok, Fail
  <2> QED BY <1>0, <1>8, <2>1, PlainTaken
<1>6. CASE res = r2 /\ r2.r = "OK" /\ r2.c.early_data_state = "REJECTED"
  <2>1. Kept(c, res.c, p) /\ AtOf(res.c) = m
    BY <1>4, <1>6, SameKept
  <2>2. SameFlags(c, res.c) /\ Same(c, res.c, {"handshake_type", "early_data_state"})
    BY <1>4, <1>6 DEF SameFlags, Same, CoreFields
  <2>3. ClientSafe(k, res.c)
    BY <1>0, <1>6, <2>2, ClientChanged
  <2>4. Safe("C", k, res.c)
    BY <2>3 DEF Safe
  <2>5. res.r \in {"OK", "ERROR", "ASYNC_BLOCKED"}
    BY <1>6
  <2> QED BY ONLY <1>0, <1>8, <2>1, <2>4, <2>5, SafeTaken
<1>7. CASE res = Ok(SetFlag(r1.c, "WITH_EARLY_DATA")) /\ r1.r = "OK" /\ c.chosen_psk
  <2>1. res.r = "OK" /\ res.c = SetFlag(r1.c, "WITH_EARLY_DATA") /\ r1 # Fail(c)
    BY <1>7 DEF Ok, Fail
  <2>4. /\ Same(c, r1.c, {"early_data_state"}) /\ r1.c.early_data_state = "ACCEPTED"
        /\ c.early_data_state \in {"REQUESTED", "ACCEPTED"} /\ c.chosen_psk
        /\ AtOf(c) = "ENCRYPTED_EXTENSIONS"
    BY <1>3, <1>7, <2>1
  <2>2. Kept(c, res.c, p) /\ AtOf(res.c) = m /\ ClientSafe(k, res.c)
    BY <2>1, <2>4, EarlyAccepted
  <2>3. Safe("C", k, res.c)
    BY <2>2 DEF Safe
  <2>5. res.r \in {"OK", "ERROR", "ASYNC_BLOCKED"}
    BY <2>1
  <2> QED BY ONLY <1>0, <1>8, <2>2, <2>3, <2>5, SafeTaken
<1> QED BY <1>2, <1>3, <1>4, <1>5, <1>6, <1>7

\* The hellos of the server share a code.
LEMMA WireOfHello ==
    /\ WireType("SERVER_HELLO") = "TLS_SERVER_HELLO"
    /\ WireType("HELLO_RETRY_MSG") = "TLS_SERVER_HELLO"
  BY DEF WireType, RecordType, CCS

\* A hello of the server.
LEMMA HelloTaken ==
    ASSUME NEW k \in Configs, NEW c, IsConn(c), NEW p, PastOf(c, p), ClientSafe(k, c),
           AtOf(c) \in {"SERVER_HELLO", "HELLO_RETRY_MSG"},
           NEW body, ServerHelloSays(k, body),
           NEW res, res = s2n_server_hello_recv(k["C"], c, body)
    PROVE  Taken("C", k, c, p, AtOf(c), res)
<1>1. /\ res.r \in {"OK", "ERROR"} /\ Kept(c, res.c, p)
      /\ res.r = "OK" => ClientReady(k, c, res.c, p)
  BY ServerHelloRecv
<1>2. c.message_number > 0
  BY Inside
<1>3. ASSUME res.r = "OK"
      PROVE  /\ WireType(AtOf(res.c)) = WireType(AtOf(c)) /\ Writer(AtOf(res.c)) = Writer(AtOf(c))
             /\ Movable("C", k, res.c)
  <2>1. /\ ClientOk(k, res.c) /\ Neg(res.c) /\ res.c.message_number >= HelloEndOf(res.c)
        /\ AtOf(res.c) \in {"SERVER_HELLO", "HELLO_RETRY_MSG"}
        /\ res.c.message_number = c.message_number
    BY <1>1, <1>3 DEF ClientReady, Kept
  <2>2. ~Opening(res.c)
    BY <1>2, <2>1 DEF Opening
  <2>3. WireType(AtOf(res.c)) = WireType(AtOf(c)) /\ Writer(AtOf(res.c)) = Writer(AtOf(c))
    BY <2>1, WireOfHello DEF Writer, ServerMessage
  <2>4. Inner(res.c)
    BY <2>1 DEF Inner
  <2> QED BY <2>1, <2>2, <2>3, <2>4 DEF Movable
<1> QED BY <1>1, <1>3 DEF Taken

\* What a client reads.
LEMMA ClientReads ==
    ASSUME NEW k \in Configs, NEW c, IsConn(c), NEW p, PastOf(c, p), ClientSafe(k, c),
           NEW m \in ServerMessage, m = AtOf(c), NEW body,
           m \in {"SERVER_HELLO", "HELLO_RETRY_MSG"} => ServerHelloSays(k, body),
           NEW res, res = ReadHandler(k["C"], c, m, body)
    PROVE  Taken("C", k, c, p, m, res)
<1>0. "C" \in Mode /\ Safe("C", k, c)
  BY DEF Mode, Safe
<1>1. CASE m \in {"SERVER_HELLO", "HELLO_RETRY_MSG"}
  <2>1. res = s2n_server_hello_recv(k["C"], c, body)
    BY <1>1 DEF ReadHandler
  <2>2. Taken("C", k, c, p, AtOf(c), res)
    BY <1>1, <2>1, HelloTaken
  <2> QED BY <2>2
<1>2. CASE m = "ENCRYPTED_EXTENSIONS"
  <2>1. res = s2n_encrypted_extensions_recv(c, body)
    BY <1>2 DEF ReadHandler
  <2> QED BY <1>2, <2>1, ExtensionsRecv
<1>3. CASE m \notin {"SERVER_HELLO", "HELLO_RETRY_MSG", "ENCRYPTED_EXTENSIONS"}
  <2>1. NoHello(m)
    BY <1>3 DEF NoHello, ServerMessage
  <2>2. res = Ok(c) \/ res = Fail(c)
    BY <1>3 DEF ReadHandler, ServerMessage, s2n_finished_recv, Ensure
  <2>3. Same(c, res.c, {}) /\ res.r \in {"OK", "ERROR", "ASYNC_BLOCKED"}
    BY <2>2, SameSelf DEF Ok, Fail
  <2> QED BY <1>0, <2>1, <2>3, PlainTaken
<1> QED BY <1>1, <1>2, <1>3

\* The premaster secret is decrypted, perhaps later, and the keys are derived.
LEMMA ClientKeySame ==
    ASSUME NEW k, NEW c, IsConn(c), NEW res, res = s2n_client_key_recv(k, c)
    PROVE  Same(c, res.c, {}) /\ res.r \in {"OK", "ERROR", "ASYNC_BLOCKED"}
<1> DEFINE r1 == IF c.pfs THEN Ok(c) ELSE s2n_async_pkey(k, c)
           d == [r1.c EXCEPT !.derived = TRUE]
<1>1. res = IF r1.r = "OK" THEN Ok(d) ELSE r1
  <2>1. res = Then(r1, LAMBDA x : Ok([x EXCEPT !.derived = TRUE]))
    BY DEF s2n_client_key_recv
  <2> HIDE DEF r1
  <2>2. Then(r1, LAMBDA x : Ok([x EXCEPT !.derived = TRUE])) = IF r1.r = "OK" THEN Ok(d) ELSE r1
    BY DEF Then, Ok
  <2> QED BY <2>1, <2>2
<1>2. Same(c, r1.c, {}) /\ r1.r \in {"OK", "ASYNC_BLOCKED"}
  <2>1. CASE c.pfs
    BY <2>1, SameSelf DEF Ok
  <2>2. CASE ~c.pfs
    BY <2>2, PkeySame
  <2> QED BY <2>1, <2>2
<1> HIDE DEF r1
<1>3. IsConn(r1.c)
  BY <1>2 DEF Same
<1>4. Same(r1.c, d, {})
  BY <1>3, DerivedSame
<1> HIDE DEF d
<1>5. Same(c, d, {})
  BY <1>2, <1>4 DEF Same
<1> QED BY <1>1, <1>2, <1>5 DEF Ok

\* The ClientHello.
LEMMA ClientHelloTaken ==
    ASSUME NEW k \in Configs, NEW c, IsConn(c), NEW p, PastOf(c, p), ServerSafe(k, c),
           AtOf(c) = "CLIENT_HELLO", NEW body, ClientHelloSays(k, body),
           NEW res, res = s2n_establish_session(k["S"], c, body)
    PROVE  Taken("S", k, c, p, AtOf(c), res)
<1>1. Established(k, c, p, res)
  BY EstablishSession
<1>2. /\ res.r \in {"OK", "ERROR", "ASYNC_BLOCKED"} /\ Kept(c, res.c, p)
      /\ res.r # "ERROR" => AtOf(res.c) = AtOf(c)
  BY <1>1 DEF Established
<1>3. res.r = "ASYNC_BLOCKED" => Safe("S", k, res.c)
  BY <1>1 DEF Established, Safe, ServerSafe
<1>4. ASSUME res.r = "OK" PROVE Movable("S", k, res.c)
  <2>1. ServerOk(k, res.c) /\ AtOf(res.c) = "CLIENT_HELLO" /\ Neg(res.c)
    BY <1>1, <1>4 DEF Established
  <2>2. res.c.version = S2N_TLS12 => res.c.session_id = "SERVER" \/ Resumable(k)
    BY <1>1, <1>4 DEF Established
  <2>3. Inner(res.c)
    BY <2>1 DEF Inner
  <2> QED BY <2>1, <2>2, <2>3 DEF Movable
<1> QED BY <1>2, <1>3, <1>4 DEF Taken

\* What a server reads.
LEMMA ServerReads ==
    ASSUME NEW k \in Configs, NEW c, IsConn(c), NEW p, PastOf(c, p), ServerSafe(k, c),
           NEW m \in ClientMessage, m = AtOf(c), NEW body,
           m = "CLIENT_HELLO" => ClientHelloSays(k, body),
           NEW res, res = ReadHandler(k["S"], c, m, body)
    PROVE  Taken("S", k, c, p, m, res)
<1>0. "S" \in Mode /\ Safe("S", k, c)
  BY DEF Mode, Safe
<1>1. CASE m = "CLIENT_HELLO"
  <2>1. res = s2n_establish_session(k["S"], c, body)
    BY <1>1 DEF ReadHandler
  <2>2. Taken("S", k, c, p, AtOf(c), res)
    BY <1>1, <2>1, ClientHelloTaken
  <2> QED BY <2>2
<1>2. CASE m # "CLIENT_HELLO"
  <2>0. NoHello(m) /\ m = AtOf(c) /\ PastOf(c, p)
    BY <1>2 DEF NoHello, ClientMessage
  <2>1. CASE m = "CLIENT_CERT" /\ res = Ok(SetFlag(c, "NO_CLIENT_CERT"))
    <3>1. res.r = "OK" /\ res.c = SetFlag(c, "NO_CLIENT_CERT") /\ AtOf(c) = "CLIENT_CERT"
      BY <2>1 DEF Ok
    <3>2. Kept(c, res.c, p) /\ AtOf(res.c) = m /\ Safe("S", k, res.c)
      BY <1>0, <3>1, NoCertSame
    <3>3. res.r \in {"OK", "ERROR", "ASYNC_BLOCKED"}
      BY <3>1
    <3> QED BY ONLY <1>0, <2>0, <3>2, <3>3, SafeTaken
  <2>2. CASE m = "END_OF_EARLY_DATA" /\ res = s2n_connection_set_early_data_state(c, "END")
    <3>1. /\ res.r \in {"OK", "ERROR"} /\ Kept(c, res.c, p) /\ AtOf(res.c) = m
          /\ res.r = "OK" => Safe("S", k, res.c)
      BY <1>0, <2>2, EndSame
    <3>2. CASE res.r = "ERROR"
      BY <3>1, <3>2 DEF Taken
    <3>3. CASE res.r = "OK"
      <4>1. Safe("S", k, res.c) /\ res.r \in {"OK", "ERROR", "ASYNC_BLOCKED"}
        BY <3>1, <3>3
      <4> QED BY ONLY <1>0, <2>0, <3>1, <4>1, SafeTaken
    <3> QED BY <3>1, <3>2, <3>3
  <2>3. CASE \/ res = Ok(c) \/ res = Fail(c)
             \/ m = "CLIENT_KEY" /\ res = s2n_client_key_recv(k["S"], c)
    <3>1. Same(c, res.c, {}) /\ res.r \in {"OK", "ERROR", "ASYNC_BLOCKED"}
      <4>1. CASE res = Ok(c) \/ res = Fail(c)
        BY <4>1, SameSelf DEF Ok, Fail
      <4>2. CASE res = s2n_client_key_recv(k["S"], c)
        BY <4>2, ClientKeySame
      <4> QED BY <2>3, <4>1, <4>2
    <3> QED BY ONLY <1>0, <2>0, <3>1, PlainTaken
  <2>4. m = "CLIENT_CERT" => res \in {Ok(c), Fail(c), Ok(SetFlag(c, "NO_CLIENT_CERT"))}
    BY DEF ReadHandler, s2n_client_cert_recv, s2n_conn_set_handshake_no_client_cert
  <2>5. m = "END_OF_EARLY_DATA" => res \in {Fail(c), s2n_connection_set_early_data_state(c, "END")}
    BY DEF ReadHandler, s2n_end_of_early_data_recv
  <2>6. m = "CLIENT_KEY" => res = s2n_client_key_recv(k["S"], c)
    BY DEF ReadHandler
  <2>7. m \in {"CLIENT_CERT_VERIFY", "CLIENT_CHANGE_CIPHER_SPEC", "CLIENT_FINISHED"} =>
           res \in {Ok(c), Fail(c)}
    BY DEF ReadHandler, s2n_finished_recv, Ensure
  <2> QED BY <1>2, <2>1, <2>2, <2>3, <2>4, <2>5, <2>6, <2>7 DEF ClientMessage
<1> QED BY <1>1, <1>2

\* Either side.
LEMMA Reads ==
    ASSUME NEW e \in Mode, NEW k \in Configs, NEW c, IsConn(c), NEW p, PastOf(c, p),
           Safe(e, k, c), NEW m, m = AtOf(c), Writer(m) # e, m \in Message \ {"APPLICATION_DATA"},
           NEW record, RecordSays(e, k, record), record.message = WireType(m),
           NEW res, res = ReadHandler(k[e], c, m, record.body)
    PROVE  Taken(e, k, c, p, m, res)
<1>1. CASE e = "C"
  <2>1. m \in ServerMessage
    BY <1>1 DEF Writer, Message
  <2>2. ASSUME m \in {"SERVER_HELLO", "HELLO_RETRY_MSG"} PROVE ServerHelloSays(k, record.body)
    BY <1>1, <2>2, WireOfHello DEF RecordSays
  <2>3. ClientSafe(k, c)
    BY <1>1 DEF Safe
  <2> QED BY <1>1, <2>1, <2>2, <2>3, ClientReads
<1>2. CASE e = "S"
  <2>1. m \in ClientMessage
    BY <1>2 DEF Writer, Message, ServerMessage
  <2>2. ASSUME m = "CLIENT_HELLO" PROVE ClientHelloSays(k, record.body)
    BY <1>2, <2>2 DEF RecordSays, WireType, RecordType, CCS
  <2>3. ServerSafe(k, c)
    BY <1>2 DEF Safe
  <2> QED BY <1>2, <2>1, <2>2, <2>3, ServerReads
<1> QED BY <1>1, <1>2 DEF Mode

\* The keys in force decide nothing, ...
LEMMA KeyFieldSame ==
    ASSUME NEW c, IsConn(c), NEW x
    PROVE  Same(c, [c EXCEPT !.r = x], {}) /\ Same(c, [c EXCEPT !.w = x], {})
  BY DEF Same, IsConn, ConnFields, CoreFields

\* ... so the record layer leaves a connection as it was, ...
LEMMA RecordSame ==
    ASSUME NEW c, IsConn(c), NEW k, NEW record, NEW type, NEW message, NEW body
    PROVE  /\ Same(c, s2n_record_parse(k, c, record).c, {})
           /\ Same(c, s2n_record_write(k, c, type, message, body).c, {})
           /\ s2n_record_write(k, c, type, message, body).record.message = message
           /\ s2n_record_write(k, c, type, message, body).record.body = body
<1> DEFINE x == [c EXCEPT !.r = NextSeq(@)]
           y == [c EXCEPT !.w = NextSeq(@)]
<1>1. Same(c, x, {}) /\ Same(c, y, {}) /\ Same(c, c, {})
  BY KeyFieldSame, SameSelf
<1>2. s2n_record_parse(k, c, record) \in {Ok(c), Ok(x), Fail(c)}
  BY DEF s2n_record_parse
<1>3. /\ s2n_record_write(k, c, type, message, body).c \in {c, y}
      /\ s2n_record_write(k, c, type, message, body).record.message = message
      /\ s2n_record_write(k, c, type, message, body).record.body = body
  BY DEF s2n_record_write
<1> HIDE DEF x, y
<1> QED BY <1>1, <1>2, <1>3 DEF Ok, Fail

\* ... as does the transcript.
LEMMA HashedSame ==
    ASSUME NEW c, IsConn(c), NEW m
    PROVE  Same(c, Hashed(c, m), {})
<1> DEFINE x == [c EXCEPT !.transcript = Append(@, WireType(m))]
<1>1. Same(c, x, {}) /\ Same(c, c, {})
  BY SameSelf DEF Same, IsConn, ConnFields, CoreFields
<1>2. Hashed(c, m) \in {c, x}
  BY DEF Hashed
<1> HIDE DEF x
<1> QED BY <1>1, <1>2

\* A past has as many messages as were counted, and ends before a message.
LEMMA PastLen ==
    ASSUME NEW c, NEW p, PastOf(c, p)
    PROVE  /\ p \in Seq(Message) /\ Len(p) = c.message_number /\ c.message_number \in Nat
           /\ AtOf(c) \in Message
<1> DEFINE O == Order(c.version, c.handshake_type)
           n == c.message_number
<1>1. O \in Seq(Message) /\ n \in Nat /\ n < Len(O) /\ p = SubSeq(O, 1, n) /\ AtOf(c) = O[n + 1]
  BY OrderSeq DEF PastOf, Past, AtOf, At
<1> HIDE DEF O, n
<1>2. p \in Seq(Message) /\ Len(p) = n /\ O[n + 1] \in Message
  BY <1>1
<1> QED BY <1>1, <1>2 DEF n

\* A change of what is to come of a typed client.
LEMMA Retyped ==
    ASSUME NEW k, NEW c, IsConn(c), NEW p, PastOf(c, p), ClientSafe(k, c), Neg(c),
           NEW u, SameFlags(c, [handshake_type |-> u]),
           Past(c.version, u, c.message_number, p),
           NEW d, d = [c EXCEPT !.handshake_type = u]
    PROVE  Kept(c, d, p) /\ ClientSafe(k, d)
<1>1. Same(c, d, {"handshake_type"}) /\ d.handshake_type = u
  BY DEF Same, IsConn, ConnFields, CoreFields
<1>2. /\ d.version = c.version /\ d.message_number = c.message_number /\ d.status = c.status
      /\ d.paused = c.paused /\ d.io = c.io /\ IsConn(d)
      /\ d.early_data_state = c.early_data_state
  BY <1>1 DEF Same, CoreFields
<1>3. Kept(c, d, p)
  BY <1>1, <1>2 DEF Kept, PastOf
<1>4. SameFlags(c, d) /\ Same(c, d, {"handshake_type", "early_data_state"})
  BY <1>1 DEF SameFlags, Same
<1>5. /\ c.early_data_state # "UNKNOWN"
      /\ Hrr(c) => c.early_data_state \in {"NOT_REQUESTED", "REJECTED"}
  BY DEF ClientSafe, ClientOk, ClientTyped
<1>6. ClientSafe(k, d)
  BY <1>2, <1>4, <1>5, ClientChanged
<1> QED BY <1>3, <1>6

\* A certificate request of a server that has not gone too far.
LEMMA Requested ==
    ASSUME NEW k, NEW c, IsConn(c), NEW p, PastOf(c, p), ClientSafe(k, c),
           IS_FULL_HANDSHAKE(c), ~Has(p, LateMessage(Agreed(k))),
           NEW d, d = SetFlag(c, "CLIENT_AUTH")
    PROVE  Kept(c, d, p) /\ ClientSafe(k, d)
<1>1. {"NEGOTIATED", "FULL_HANDSHAKE"} \subseteq c.handshake_type
  BY DEF PastOf, Past, Defined, Tls12Type, Tls13Type, IS_FULL_HANDSHAKE
<1>2. Neg(c) /\ c.version = Agreed(k)
  BY <1>1 DEF Neg, ClientSafe, ClientOk, ClientTyped
<1> DEFINE v == c.version
           t == c.handshake_type
           n == c.message_number
           u == t \cup {"CLIENT_AUTH"}
<1>3. /\ Past(v, t, n, p) /\ {"NEGOTIATED", "FULL_HANDSHAKE"} \subseteq t
      /\ \A i \in 1 .. n : p[i] # LateMessage(v)
  BY <1>1, <1>2, PastLen DEF PastOf, Has
<1>4. SameFlags(c, [handshake_type |-> u])
  BY DEF SameFlags
<1>5. d = [c EXCEPT !.handshake_type = u]
  BY DEF SetFlag
<1>6. Past(v, u, n, p)
  <2>1. u = t \cup {"CLIENT_AUTH"}
    OBVIOUS
  <2> HIDE DEF v, t, n, u
  <2> QED BY <1>3, <2>1, RetypeAtRequest
<1> QED BY <1>2, <1>4, <1>5, <1>6, Retyped

\* A certificate status that does not come.
LEMMA Unstapled ==
    ASSUME NEW k, NEW c, IsConn(c), NEW p, PastOf(c, p), ClientSafe(k, c),
           AtOf(c) = "SERVER_CERT_STATUS",
           NEW d, d = [c EXCEPT !.handshake_type = @ \ {"OCSP_STATUS"}]
    PROVE  Kept(c, d, p) /\ ClientSafe(k, d)
<1> DEFINE v == c.version
           t == c.handshake_type
           n == c.message_number
           u == t \ {"OCSP_STATUS"}
<1>1. Past(v, t, n, p) /\ At(v, t, n) = "SERVER_CERT_STATUS"
  BY DEF PastOf, AtOf
<1>2. SameFlags(c, [handshake_type |-> u]) /\ d = [c EXCEPT !.handshake_type = u]
  BY DEF SameFlags
<1>3. Past(v, u, n, p) /\ {"NEGOTIATED", "FULL_HANDSHAKE"} \subseteq t
  <2>1. u = t \ {"OCSP_STATUS"}
    OBVIOUS
  <2> HIDE DEF v, t, n, u
  <2> QED BY <1>1, <2>1, RetypeAtStatus
<1>4. Neg(c)
  BY <1>3 DEF Neg
<1> QED BY <1>2, <1>3, <1>4, Retyped

\* What comes before the message is compared with the order.
LEMMA Adjusted ==
    ASSUME cfg \in Configs, NEW e \in Mode, NEW c, IsConn(c), NEW p, PastOf(c, p),
           Safe(e, cfg, c), NEW w,
           e = "C" /\ w = "SERVER_CERT_REQ" => ~Has(p, LateMessage(Agreed(cfg))),
           NEW res, res = AdjustType(e, c, w)
    PROVE  /\ res.r \in {"OK", "ERROR"} /\ Kept(c, res.c, p)
           /\ res.r = "OK" => Safe(e, cfg, res.c)
<1> DEFINE requested == e = "C" /\ cfg[e].auth = "OPTIONAL" /\ w = "SERVER_CERT_REQ"
           r1 == IF ~requested THEN Ok(c)
                 ELSE IF IS_FULL_HANDSHAKE(c) THEN Ok(SetFlag(c, "CLIENT_AUTH")) ELSE Fail(c)
           unstapled(d) == /\ e = "C"
                           /\ ACTIVE_MESSAGE(d) = "SERVER_CERT_STATUS"
                           /\ w # "SERVER_CERT_STATUS"
           dropped == [r1.c EXCEPT !.handshake_type = @ \ {"OCSP_STATUS"}]
<1>1. res = IF r1.r = "OK" THEN Ok(IF unstapled(r1.c) THEN dropped ELSE r1.c) ELSE r1
  <2>1. res = Then(r1, LAMBDA d : Ok(IF unstapled(d)
                                      THEN [d EXCEPT !.handshake_type = @ \ {"OCSP_STATUS"}] ELSE d))
    BY DEF AdjustType
  <2> HIDE DEF r1, unstapled
  <2> QED BY <2>1 DEF Then, Ok
<1>2. Kept(c, c, p)
  BY DEF Kept
<1>3. r1.r \in {"OK", "ERROR"} /\ Kept(c, r1.c, p) /\ (r1.r = "OK" => Safe(e, cfg, r1.c))
  <2>1. CASE ~requested
    <3>1. r1 = Ok(c)
      BY <2>1
    <3> HIDE DEF r1, requested
    <3> QED BY <1>2, <3>1 DEF Ok
  <2>2. CASE requested /\ IS_FULL_HANDSHAKE(c)
    <3>1. r1 = Ok(SetFlag(c, "CLIENT_AUTH")) /\ e = "C" /\ ~Has(p, LateMessage(Agreed(cfg)))
      BY <2>2
    <3>2. ClientSafe(cfg, c)
      BY <3>1 DEF Safe
    <3> HIDE DEF r1, requested
    <3>3. r1.r = "OK" /\ r1.c = SetFlag(c, "CLIENT_AUTH")
      BY <3>1 DEF Ok
    <3>4. Kept(c, r1.c, p) /\ ClientSafe(cfg, r1.c)
      BY <2>2, <3>1, <3>2, <3>3, Requested
    <3> QED BY <3>1, <3>3, <3>4 DEF Safe
  <2>3. CASE requested /\ ~IS_FULL_HANDSHAKE(c)
    <3>1. r1 = Fail(c)
      BY <2>3
    <3> HIDE DEF r1, requested
    <3> QED BY <1>2, <3>1 DEF Fail
  <2> QED BY <2>1, <2>2, <2>3
<1> HIDE DEF r1
<1>4. CASE r1.r # "OK"
  BY <1>1, <1>3, <1>4
<1>5. CASE r1.r = "OK" /\ ~unstapled(r1.c)
  BY <1>1, <1>3, <1>5 DEF Ok
<1>6. CASE r1.r = "OK" /\ unstapled(r1.c)
  <2>1. e = "C" /\ ACTIVE_MESSAGE(r1.c) = "SERVER_CERT_STATUS" /\ res = Ok(dropped)
    BY <1>1, <1>6
  <2>2. IsConn(r1.c) /\ PastOf(r1.c, p) /\ ClientSafe(cfg, r1.c)
    BY <1>3, <1>6, <2>1 DEF Kept, Safe
  <2>3. AtOf(r1.c) = "SERVER_CERT_STATUS"
    BY <2>1, <2>2, ActiveIsAt
  <2>4. Kept(r1.c, dropped, p) /\ ClientSafe(cfg, dropped)
    BY <2>2, <2>3, Unstapled
  <2> HIDE DEF dropped
  <2>5. Kept(c, dropped, p)
    BY <1>3, <2>4 DEF Kept
  <2> QED BY <2>1, <2>4, <2>5 DEF Ok, Safe
<1> QED BY <1>3, <1>4, <1>5, <1>6

\* Whether it is paused does not matter to whether a connection is safe.
LEMMA SafePaused ==
    ASSUME NEW e \in Mode, NEW k, NEW c, NEW p, PastOf(c, p), Safe(e, k, c),
           NEW d, Same(c, d, {"paused"})
    PROVE  Safe(e, k, d)
<1>1. d.message_number = c.message_number /\ d.io = c.io
  BY DEF Same, CoreFields
<1>2. Same(c, d, {"io", "paused"}) /\ Same(c, d, {"io", "paused", "message_number"})
  BY DEF Same
<1>3. CASE e = "S"
  BY <1>2, <1>3, ServerSafeSame DEF Safe
<1>4. CASE e = "C"
  <2>1. ClientSafe(k, c) /\ c.message_number \in Nat
    BY <1>4 DEF Safe, PastOf, Past
  <2>2. Opening(c) <=> Opening(d)
    BY <1>1 DEF Opening
  <2>3. d.message_number >= c.message_number /\ d.message_number \in Nat
    BY <1>1, <2>1
  <2>4. ClientSafe(k, d)
    BY <1>2, <2>1, <2>2, <2>3, ClientSafeSame
  <2> QED BY <1>4, <2>4 DEF Safe
<1> QED BY <1>3, <1>4 DEF Mode

(***************************************************************************)
(* What a whole read leaves of a connection b of past p: it blocked at a   *)
(* message of the wire type w, failed, or went past one.                   *)
(***************************************************************************)
WentPast(e, p, s, w) ==
    \E m \in Message \ {"APPLICATION_DATA"} : WireType(m) = w /\ Writer(m) # e /\ Grown(p, s, m)

Handled(e, k, b, p, w, res) ==
    /\ res.r \in {"OK", "ERROR", "ASYNC_BLOCKED"} /\ IsConn(res.c) /\ res.c.status = b.status
    /\ res.r # "OK" => PastOf(res.c, p)
    /\ res.r = "ASYNC_BLOCKED" =>
          Safe(e, k, res.c) /\ WireType(AtOf(res.c)) = w /\ Writer(AtOf(res.c)) # e
    /\ res.r = "OK" => /\ Safe(e, k, res.c) /\ ~res.c.paused
                       /\ PastOf(res.c, p \o PassedBy(b, res.c))
                       /\ WentPast(e, p, p \o PassedBy(b, res.c), w)

\* A handler that took its message and the end of the message make such a read.
LEMMA TakenFinished ==
    ASSUME NEW e \in Mode, NEW k, NEW b, NEW c, NEW p, NEW m, NEW r,
           c.message_number = b.message_number, c.status = b.status,
           Taken(e, k, c, p, m, r), Writer(m) # e,
           NEW x, Same(r.c, x, {"paused"}), ~x.paused, NEW n,
           NEW res, res = IF r.r = "OK" THEN s2n_finish_read(e, x, n) ELSE r
    PROVE  Handled(e, k, b, p, WireType(m), res)
<1>1. /\ r.r \in {"OK", "ERROR", "ASYNC_BLOCKED"} /\ IsConn(r.c) /\ r.c.status = b.status
      /\ r.c.message_number = b.message_number /\ PastOf(r.c, p)
      /\ r.r # "ERROR" => WireType(AtOf(r.c)) = WireType(m) /\ Writer(AtOf(r.c)) = Writer(m)
  BY DEF Taken, Kept
<1>2. CASE r.r # "OK"
  <2>1. res = r
    BY <1>2
  <2>2. r.r = "ASYNC_BLOCKED" => Safe(e, k, r.c)
    BY DEF Taken
  <2> QED BY <1>1, <1>2, <2>1, <2>2 DEF Handled
<1>3. CASE r.r = "OK"
  <2> DEFINE y == Hashed(x, n)
  <2>1. res = FinishMessage(e, y)
    BY <1>3 DEF s2n_finish_read
  <2>2. IsConn(x)
    BY DEF Same
  <2>3. Same(x, y, {})
    BY <2>2, HashedSame
  <2> HIDE DEF y
  <2>4. Same(r.c, y, {"io", "paused"}) /\ y.paused = x.paused
    BY <2>3 DEF Same, CoreFields
  <2>5. Movable(e, k, r.c)
    BY <1>3 DEF Taken
  <2>6. Finished(e, k, r.c, p, res) /\ res.c.paused = y.paused
    BY <1>1, <2>1, <2>4, <2>5, Finishes
  <2>7. /\ res.r \in {"OK", "ERROR"} /\ IsConn(res.c) /\ res.c.status = b.status
        /\ res.r = "ERROR" => PastOf(res.c, p)
        /\ res.r = "OK" => Safe(e, k, res.c)
    BY <1>1, <2>6 DEF Finished
  <2>8. ASSUME res.r = "OK"
        PROVE  /\ PastOf(res.c, p \o PassedBy(b, res.c))
               /\ Grown(p, p \o PassedBy(b, res.c), AtOf(r.c))
    BY <1>1, <2>6, <2>8 DEF Finished
  <2>9. AtOf(r.c) \in Message \ {"APPLICATION_DATA"}
    BY <1>1, <2>5, PastLen DEF Movable, Inner
  <2>10. ASSUME res.r = "OK" PROVE WentPast(e, p, p \o PassedBy(b, res.c), WireType(m))
    BY <1>1, <1>3, <2>8, <2>9, <2>10 DEF WentPast
  <2> QED BY <2>4, <2>6, <2>7, <2>8, <2>10 DEF Handled
<1> QED BY <1>2, <1>3

\* A handshake record is read.
LEMMA HandshakeRead ==
    ASSUME cfg \in Configs, NEW e \in Mode, NEW b, IsConn(b), NEW p, PastOf(b, p),
           Safe(e, cfg, b), ~b.paused, NEW c, Same(b, c, {}),
           NEW record, RecordSays(e, cfg, record),
           e = "C" /\ record.message = "SERVER_CERT_REQ" => ~Has(p, LateMessage(Agreed(cfg))),
           NEW res, res = HandshakeResult(e, c, record)
    PROVE  Handled(e, cfg, b, p, record.message, res)
<1> DEFINE expected(d) == /\ RecordType(ACTIVE_MESSAGE(d)) = "TLS_HANDSHAKE"
                          /\ WireType(ACTIVE_MESSAGE(d)) = record.message
                          /\ ~CONNECTION_IS_WRITER(e, d)
           check(d) == Ensure(expected(d), d)
           r1 == AdjustType(e, c, record.message)
           r2 == IF r1.r = "OK" THEN check(r1.c) ELSE r1
           r3 == IF r2.r = "OK" THEN ReadHandler(cfg[e], r2.c, ACTIVE_MESSAGE(r2.c), record.body)
                 ELSE r2
<1>1. res = IF r3.r = "OK" THEN s2n_finish_read(e, r3.c, ACTIVE_MESSAGE(r3.c)) ELSE r3
  <2>0. res = Then(Then(Then(r1, check),
                        LAMBDA d : ReadHandler(cfg[e], d, ACTIVE_MESSAGE(d), record.body)),
                   LAMBDA d : s2n_finish_read(e, d, ACTIVE_MESSAGE(d)))
    BY DEF HandshakeResult
  <2> HIDE DEF check, r1
  <2>1. Then(r1, check) = r2
    BY DEF Then
  <2> HIDE DEF r2
  <2>2. Then(r2, LAMBDA d : ReadHandler(cfg[e], d, ACTIVE_MESSAGE(d), record.body)) = r3
    BY DEF Then
  <2> HIDE DEF r3
  <2>3. Then(r3, LAMBDA d : s2n_finish_read(e, d, ACTIVE_MESSAGE(d)))
        = IF r3.r = "OK" THEN s2n_finish_read(e, r3.c, ACTIVE_MESSAGE(r3.c)) ELSE r3
    BY DEF Then
  <2> QED BY <2>0, <2>1, <2>2, <2>3
<1>2. Kept(b, c, p) /\ Safe(e, cfg, c)
  BY SameKept, SafeSame
<1>3. IsConn(c) /\ PastOf(c, p)
  BY <1>2 DEF Kept
<1>4. /\ r1.r \in {"OK", "ERROR"} /\ Kept(c, r1.c, p)
      /\ r1.r = "OK" => Safe(e, cfg, r1.c)
  BY <1>2, <1>3, Adjusted
<1>5. Kept(b, r1.c, p)
  BY <1>2, <1>4 DEF Kept
<1> HIDE DEF r1
<1>6. \/ r2.r = "ERROR" /\ r2.c = r1.c
      \/ r2.r = "OK" /\ r2.c = r1.c /\ r1.r = "OK" /\ expected(r1.c)
  BY <1>4 DEF Ensure, Ok, Fail
<1> HIDE DEF r2
<1>7. CASE r2.r = "ERROR"
  <2>1. res = r2
    BY <1>1, <1>7
  <2> QED BY <1>5, <1>6, <1>7, <2>1 DEF Handled, Kept
<1>8. CASE r2.r = "OK"
  <2> DEFINE d == r1.c
             m == AtOf(d)
  <2>1. /\ r2.c = d /\ expected(d) /\ Safe(e, cfg, d) /\ IsConn(d) /\ PastOf(d, p)
        /\ d.message_number = b.message_number /\ d.status = b.status /\ ~d.paused
    BY <1>4, <1>5, <1>6, <1>8 DEF Kept
  <2>2. ACTIVE_MESSAGE(d) = m
    BY <2>1, ActiveIsAt
  <2>3. WireType(m) = record.message /\ Writer(m) # e /\ RecordType(m) = "TLS_HANDSHAKE"
    BY <2>1, <2>2 DEF CONNECTION_IS_WRITER
  <2>4. m \in Message \ {"APPLICATION_DATA"}
    BY <2>1, <2>3, PastLen DEF RecordType, CCS
  <2>5. r3 = ReadHandler(cfg[e], d, m, record.body)
    BY <1>8, <2>1, <2>2
  <2> HIDE DEF r3
  <2>6. Taken(e, cfg, d, p, m, r3)
    BY <2>1, <2>3, <2>4, <2>5, Reads
  <2>7. IsConn(r3.c) /\ r3.c.paused = d.paused
    BY <2>6 DEF Taken, Kept
  <2>8. Same(r3.c, r3.c, {"paused"}) /\ ~r3.c.paused
    BY <2>1, <2>7, SameSelf
  <2> HIDE DEF d, m
  <2>9. Handled(e, cfg, b, p, WireType(m), res)
    BY <1>1, <2>1, <2>3, <2>6, <2>8, TakenFinished
  <2> QED BY <2>3, <2>9
<1> QED BY <1>6, <1>7, <1>8

----------------------------------------------------------------------------
(***************************************************************************)
(* The records between the two endpoints.                                  *)
(***************************************************************************)

\* Any sequence is one of its own elements.
LEMMA SeqIsSeq ==
    ASSUME NEW S, NEW s \in Seq(S)
    PROVE  IsSeq(s)
  BY DEF IsSeq

\* So are the empty one, one record, ...
LEMMA SmallSeq ==
    ASSUME NEW x
    PROVE  IsSeq(<< >>) /\ IsSeq(<<x>>)
<1>1. << >> \in Seq({x}) /\ <<x>> \in Seq({x})
  OBVIOUS
<1> QED BY <1>1, SeqIsSeq

\* ... what is left of a sequence, ...
LEMMA TailSeq ==
    ASSUME NEW s, IsSeq(s), s # << >>
    PROVE  /\ IsSeq(Tail(s)) /\ Len(s) \in Nat /\ Len(s) > 0 /\ Len(Tail(s)) = Len(s) - 1
           /\ Head(s) = s[1]
           /\ \A i \in 1 .. Len(Tail(s)) : i + 1 \in 1 .. Len(s) /\ Tail(s)[i] = s[i + 1]
<1> DEFINE S == {s[i] : i \in DOMAIN s}
<1>1. s \in Seq(S)
  BY DEF IsSeq
<1> HIDE DEF S
<1>2. /\ Tail(s) \in Seq(S) /\ Len(s) \in Nat /\ Len(s) > 0 /\ Len(Tail(s)) = Len(s) - 1
      /\ Head(s) = s[1]
      /\ \A i \in 1 .. Len(Tail(s)) : i + 1 \in 1 .. Len(s) /\ Tail(s)[i] = s[i + 1]
  BY <1>1
<1> QED BY <1>2, SeqIsSeq

\* ... and two together.
LEMMA TwoSeqs ==
    ASSUME NEW s, IsSeq(s), NEW t, IsSeq(t)
    PROVE  /\ IsSeq(s \o t) /\ Len(s) \in Nat /\ Len(t) \in Nat /\ Len(s \o t) = Len(s) + Len(t)
           /\ \A i \in 1 .. Len(s) : (s \o t)[i] = s[i]
           /\ \A i \in 1 .. Len(t) : (s \o t)[Len(s) + i] = t[i]
           /\ \A i \in 1 .. Len(s \o t) : i \in 1 .. Len(s) \/ i - Len(s) \in 1 .. Len(t)
<1> DEFINE S == {s[i] : i \in DOMAIN s}
           T == {t[i] : i \in DOMAIN t}
           U == S \cup T
<1>1. s \in Seq(S) /\ t \in Seq(T)
  BY DEF IsSeq
<1>0. S \subseteq U /\ T \subseteq U
  OBVIOUS
<1> HIDE DEF S, T, U
<1>2. s \in Seq(U) /\ t \in Seq(U)
  BY <1>0, <1>1
<1>3. s \o t \in Seq(U) /\ Len(s) \in Nat /\ Len(t) \in Nat /\ Len(s \o t) = Len(s) + Len(t)
  BY <1>2
<1>4. \A i \in 1 .. Len(s) : (s \o t)[i] = s[i]
  BY <1>2, <1>3
<1>5. \A i \in 1 .. Len(t) : (s \o t)[Len(s) + i] = t[i]
  BY <1>2, <1>3
<1>6. \A i \in 1 .. Len(s \o t) : i \in 1 .. Len(s) \/ i - Len(s) \in 1 .. Len(t)
  BY <1>3
<1> QED BY <1>3, <1>4, <1>5, <1>6, SeqIsSeq

\* Nothing behind a sequence, and what is left of the first of two.
LEMMA TailOfTwo ==
    ASSUME NEW s, IsSeq(s), NEW t, IsSeq(t)
    PROVE  /\ s \o << >> = s
           /\ s # << >> => /\ s \o t # << >> /\ Head(s \o t) = Head(s)
                           /\ Tail(s) \o t = Tail(s \o t)
<1> DEFINE S == {s[i] : i \in DOMAIN s}
           T == {t[i] : i \in DOMAIN t}
           U == S \cup T
<1>1. s \in Seq(S) /\ t \in Seq(T)
  BY DEF IsSeq
<1>0. S \subseteq U /\ T \subseteq U
  OBVIOUS
<1> HIDE DEF S, T, U
<1>2. s \in Seq(U) /\ t \in Seq(U)
  BY <1>0, <1>1
<1>3. s \o << >> = s
  BY <1>2
<1>4. ASSUME s # << >>
      PROVE s \o t # << >> /\ Head(s \o t) = Head(s) /\ Tail(s) \o t = Tail(s \o t)
  <2>1. s \o t \in Seq(U) /\ Len(s \o t) = Len(s) + Len(t) /\ Len(s) > 0 /\ Len(s) \in Nat /\ Len(t) \in Nat
    BY <1>2, <1>4
  <2>2. s \o t # << >> /\ Head(s \o t) = Head(s)
    BY <1>2, <1>4, <2>1
  <2>3. /\ Tail(s) \in Seq(U) /\ Len(Tail(s)) = Len(s) - 1
        /\ Tail(s \o t) \in Seq(U) /\ Len(Tail(s \o t)) = Len(s) + Len(t) - 1
    BY <1>2, <1>4, <2>1, <2>2
  <2>4. Tail(s) \o t \in Seq(U) /\ Len(Tail(s) \o t) = Len(s) + Len(t) - 1
    BY <1>2, <2>1, <2>3
  <2>5. ASSUME NEW i \in 1 .. Len(s) + Len(t) - 1 PROVE (Tail(s) \o t)[i] = Tail(s \o t)[i]
    <3>1. Tail(s \o t)[i] = (s \o t)[i + 1]
      BY <2>1, <2>2, <2>3
    <3>2. CASE i <= Len(s) - 1
      BY <1>2, <1>4, <2>1, <2>3, <3>1, <3>2
    <3>3. CASE i > Len(s) - 1
      <4>1. (Tail(s) \o t)[i] = t[i - (Len(s) - 1)]
        BY <1>2, <2>1, <2>3, <3>3
      <4>2. (s \o t)[i + 1] = t[i + 1 - Len(s)]
        BY <1>2, <2>1, <3>3
      <4>3. i - (Len(s) - 1) = i + 1 - Len(s)
        BY <2>1
      <4> QED BY <3>1, <4>1, <4>2, <4>3
    <3> QED BY <2>1, <3>2, <3>3
  <2> QED BY <2>2, <2>3, <2>4, <2>5
<1> QED BY <1>3, <1>4

\* The hellos among fewer or more records.
LEMMA SaysSeq ==
    ASSUME NEW e, NEW k, NEW s, IsSeq(s), Says(e, k, s), NEW t, IsSeq(t), Says(e, k, t)
    PROVE  /\ Says(e, k, s \o t) /\ Says(e, k, << >>)
           /\ s # << >> => Says(e, k, Tail(s)) /\ RecordSays(e, k, Head(s))
<1>1. Says(e, k, << >>)
  BY DEF Says
<1>2. ASSUME s # << >> PROVE Says(e, k, Tail(s)) /\ RecordSays(e, k, Head(s))
  BY <1>2, TailSeq DEF Says
<1>3. ASSUME NEW i \in 1 .. Len(s \o t) PROVE RecordSays(e, k, (s \o t)[i])
  <2>1. CASE i \in 1 .. Len(s)
    BY <2>1, TwoSeqs DEF Says
  <2>2. CASE i - Len(s) \in 1 .. Len(t)
    <3> DEFINE j == i - Len(s)
    <3>1. j \in 1 .. Len(t) /\ Len(s) + j = i
      BY <2>2, TwoSeqs
    <3>2. (s \o t)[Len(s) + j] = t[j]
      BY <3>1, TwoSeqs
    <3> QED BY <3>1, <3>2 DEF Says
  <2> QED BY <2>1, <2>2, TwoSeqs
<1>4. Says(e, k, s \o t)
  BY <1>3 DEF Says
<1> QED BY <1>1, <1>2, <1>4

\* What growing adds to a past.
LEMMA GrownHas ==
    ASSUME NEW p, NEW s, NEW m, Grown(p, s, m), NEW late, late \notin CCS
    PROVE  /\ Has(p, late) => Has(s, late)
           /\ Has(s, late) => Has(p, late) \/ late = m
           /\ Has(s, m)
  BY DEF Grown, Has

\* The late message of a handshake: a message of the server, alone with its
\* code among those, and no request.
Late(k) == LateMessage(Agreed(k))

LEMMA LateIs ==
    ASSUME NEW k
    PROVE  /\ Late(k) \in ServerMessage /\ Late(k) \notin CCS
           /\ WireType(Late(k)) # "SERVER_CERT_REQ"
           /\ \A m \in ServerMessage : WireType(m) = WireType(Late(k)) => m = Late(k)
           /\ WireType(Late(k)) # "0"
<1>1. Late(k) \in {"SERVER_CERT", "SERVER_HELLO_DONE"}
  BY DEF Late, LateMessage
<1>2. WireType("SERVER_CERT") = "TLS_CERTIFICATE" /\ WireType("SERVER_HELLO_DONE") = "SERVER_HELLO_DONE"
  BY DEF WireType, RecordType, CCS
<1>3. ASSUME NEW m \in ServerMessage
      PROVE  /\ WireType(m) = "TLS_CERTIFICATE" => m = "SERVER_CERT"
             /\ WireType(m) = "SERVER_HELLO_DONE" => m = "SERVER_HELLO_DONE"
  BY DEF WireType, RecordType, CCS, ServerMessage
<1> QED BY <1>1, <1>2, <1>3 DEF ServerMessage, CCS

\* The server has gone further, or the client has not.
LEMMA RequestsSame ==
    ASSUME NEW k, NEW f, NEW p, NEW c, NEW q, RequestsInTime(k, f, p, c, q),
           NEW p1, NEW c1, NEW q1,
           Reached(Late(k), c, q) => Reached(Late(k), c1, q1),
           Has(p1, Late(k)) => Has(p, Late(k))
    PROVE  RequestsInTime(k, f, p1, c1, q1)
  BY DEF RequestsInTime, Requests, Late

\* The client has taken a record, and gone past the late message only with that.
LEMMA RequestsTail ==
    ASSUME NEW k, NEW f, IsSeq(f), f # << >>, NEW p, NEW c, NEW q, RequestsInTime(k, f, p, c, q),
           NEW p1, Has(p1, Late(k)) => Has(p, Late(k)) \/ Head(f).message = WireType(Late(k))
    PROVE  RequestsInTime(k, Tail(f), p1, c, q)
<1> DEFINE late == Late(k)
           g == Tail(f)
<1>1. /\ \A i \in 1 .. Len(f) : f[i].message = WireType(late) =>
                                   Reached(late, c, q) /\ NoRequest(f, i)
      /\ Has(p, late) => Reached(late, c, q) /\ NoRequest(f, 1)
  BY DEF RequestsInTime, Requests, Late
<1>2. /\ Len(f) \in Nat /\ Len(f) > 0 /\ Len(g) = Len(f) - 1 /\ Head(f) = f[1]
      /\ \A i \in 1 .. Len(g) : i + 1 \in 1 .. Len(f) /\ g[i] = f[i + 1]
  BY TailSeq
<1> HIDE DEF late, g
<1>3. ASSUME NEW i \in 1 .. Len(f), NoRequest(f, i), NEW h \in 1 .. Len(f), h >= i - 1
      PROVE  NoRequest(g, h)
  <2> SUFFICES ASSUME NEW j \in h .. Len(g) PROVE g[j].message # "SERVER_CERT_REQ"
    BY DEF NoRequest
  <2>1. j \in 1 .. Len(g) /\ j + 1 \in i .. Len(f)
    BY <1>2, <1>3
  <2> QED BY <1>2, <1>3, <2>1 DEF NoRequest
<1>4. ASSUME NEW i \in 1 .. Len(g), g[i].message = WireType(late)
      PROVE  Reached(late, c, q) /\ NoRequest(g, i)
  <2>1. i + 1 \in 1 .. Len(f) /\ f[i + 1].message = WireType(late) /\ i \in 1 .. Len(f)
    BY <1>2, <1>4
  <2>2. Reached(late, c, q) /\ NoRequest(f, i + 1)
    BY <1>1, <2>1
  <2>3. i >= (i + 1) - 1
    OBVIOUS
  <2> QED BY <1>3, <2>1, <2>2, <2>3
<1>5. ASSUME Has(p1, late) PROVE Reached(late, c, q) /\ NoRequest(g, 1)
  <2>1. Has(p, late) \/ Head(f).message = WireType(late)
    BY <1>5 DEF late
  <2>2. 1 \in 1 .. Len(f) /\ 1 >= 1 - 1
    BY <1>2
  <2>3. Reached(late, c, q) /\ NoRequest(f, 1)
    BY <1>1, <1>2, <2>1, <2>2
  <2> QED BY <1>3, <2>2, <2>3
<1> QED BY <1>4, <1>5 DEF RequestsInTime, Requests, Late, late, g

\* The server has written a record.
LEMMA RequestsMore ==
    ASSUME NEW k, NEW f, IsSeq(f), NEW p, NEW c, NEW q, RequestsInTime(k, f, p, c, q),
           NEW c1, Reached(Late(k), c, q) => Reached(Late(k), c1, q),
           NEW record, record.message = WireType(Late(k)) => Reached(Late(k), c1, q),
           record.message = "SERVER_CERT_REQ" => ~Reached(Late(k), c, q)
    PROVE  RequestsInTime(k, f \o <<record>>, p, c1, q)
<1> DEFINE late == Late(k)
           g == f \o <<record>>
           n == Len(f)
<1>1. /\ \A i \in 1 .. n : f[i].message = WireType(late) =>
                              Reached(late, c, q) /\ NoRequest(f, i)
      /\ Has(p, late) => Reached(late, c, q) /\ NoRequest(f, 1)
  BY DEF RequestsInTime, Requests, Late
<1>2. /\ n \in Nat /\ Len(g) = n + 1 /\ g[n + 1] = record
      /\ \A i \in 1 .. n : g[i] = f[i]
  <2> DEFINE t == <<record>>
  <2>0. IsSeq(t)
    BY SmallSeq
  <2>1. Len(t) = 1 /\ t[1] = record
    OBVIOUS
  <2> HIDE DEF t
  <2>2. Len(f) \in Nat /\ Len(f \o t) = Len(f) + Len(t)
    BY <2>0, TwoSeqs
  <2>3. ASSUME NEW i \in 1 .. Len(f) PROVE (f \o t)[i] = f[i]
    BY <2>0, TwoSeqs
  <2>4. ASSUME NEW i \in 1 .. Len(t) PROVE (f \o t)[Len(f) + i] = t[i]
    BY <2>0, TwoSeqs
  <2>5. (f \o t)[Len(f) + 1] = t[1]
    BY <2>1, <2>4
  <2> QED BY <2>1, <2>2, <2>3, <2>5 DEF t
<1>3. WireType(late) # "SERVER_CERT_REQ"
  BY LateIs
<1>8. /\ record.message = WireType(late) => Reached(late, c1, q)
      /\ record.message = "SERVER_CERT_REQ" => ~Reached(late, c, q)
      /\ Reached(late, c, q) => Reached(late, c1, q)
  OBVIOUS
<1> HIDE DEF late, g, n
<1>4. ASSUME NEW i \in 1 .. n + 1, Reached(late, c, q), NoRequest(f, i) PROVE NoRequest(g, i)
  <2> SUFFICES ASSUME NEW j \in i .. n + 1 PROVE g[j].message # "SERVER_CERT_REQ"
    BY <1>2 DEF NoRequest
  <2>1. CASE j = n + 1
    BY <1>2, <1>4, <1>8, <2>1
  <2>2. CASE j # n + 1
    <3>1. j \in 1 .. n /\ j \in i .. n
      BY <1>2, <2>2
    <3> QED BY <1>2, <1>4, <3>1 DEF NoRequest, n
  <2> QED BY <2>1, <2>2
<1>5. ASSUME NEW i \in 1 .. n + 1, g[i].message = WireType(late)
      PROVE  Reached(late, c1, q) /\ NoRequest(g, i)
  <2>1. CASE i = n + 1
    <3>1. record.message = WireType(late)
      BY <1>2, <1>5, <2>1
    <3>2. NoRequest(g, i)
      BY <1>2, <1>3, <1>5, <2>1 DEF NoRequest
    <3> QED BY <1>8, <3>1, <3>2
  <2>2. CASE i # n + 1
    <3>1. i \in 1 .. n /\ f[i].message = WireType(late)
      BY <1>2, <1>5, <2>2
    <3> QED BY <1>1, <1>4, <1>8, <3>1
  <2> QED BY <2>1, <2>2
<1>6. ASSUME Has(p, late) PROVE Reached(late, c1, q) /\ NoRequest(g, 1)
  <2>1. 1 \in 1 .. n + 1
    BY <1>2
  <2> QED BY <1>1, <1>4, <1>6, <1>8, <2>1
<1>7. \A i \in 1 .. Len(g) : g[i].message = WireType(late) => Reached(late, c1, q) /\ NoRequest(g, i)
  BY <1>2, <1>5
<1> QED BY <1>6, <1>7 DEF RequestsInTime, Requests, Late, late, g

----------------------------------------------------------------------------
(***************************************************************************)
(* The steps.                                                              *)
(***************************************************************************)

\* The invariant of one endpoint.
LEMMA OfEndpoint ==
    ASSUME IInv, NEW e \in Mode
    PROVE  /\ cfg \in Configs /\ IsConn(conn[e]) /\ PastOf(conn[e], passed[e])
           /\ IsSeq(out[e]) /\ IsSeq(chan[e])
           /\ Alive(conn[e]) => /\ Safe(e, cfg, conn[e])
                                /\ Waiting(e, conn[e], out[e], chan[e])
           /\ Says(e, cfg, chan[e]) /\ Says(S2N_PEER_MODE(e), cfg, out[e])
  BY DEF IInv, Endpoint

\* A step of the endpoint e changes what is its own and what is between the two.
LEMMA StepOf ==
    ASSUME IInv, cfg' = cfg, NEW e \in Mode, NEW a, a = S2N_PEER_MODE(e),
           NEW c, NEW p, NEW o, NEW h, NEW g,
           conn' = [conn EXCEPT ![e] = c], passed' = [passed EXCEPT ![e] = p],
           out' = [out EXCEPT ![e] = o], chan' = [chan EXCEPT ![e] = h, ![a] = g],
           Endpoint(e, cfg, c, o, h, p),
           Says(e, cfg, h), Says(a, cfg, g), Says(a, cfg, o), IsSeq(g),
           chan[a] # << >> => g # << >> /\ Head(g) = Head(chan[a]),
           RequestsInTime(cfg, chan'["C"] \o out'["S"], passed'["C"], conn'["S"], passed'["S"])
    PROVE  IInv'
<1>1. a \in Mode /\ a # e /\ S2N_PEER_MODE(a) = e /\ \A x \in Mode : x = e \/ x = a
  BY DEF Mode, S2N_PEER_MODE
<1>2. /\ conn = [x \in Mode |-> conn[x]] /\ passed = [x \in Mode |-> passed[x]]
      /\ out = [x \in Mode |-> out[x]] /\ chan = [x \in Mode |-> chan[x]]
  BY DEF IInv
<1>3. conn' = [x \in Mode |-> conn'[x]] /\ conn'[e] = c /\ conn'[a] = conn[a]
  BY <1>1, <1>2
<1>4. passed' = [x \in Mode |-> passed'[x]] /\ passed'[e] = p /\ passed'[a] = passed[a]
  BY <1>1, <1>2
<1>5. out' = [x \in Mode |-> out'[x]] /\ out'[e] = o /\ out'[a] = out[a]
  BY <1>1, <1>2
<1>6. chan' = [x \in Mode |-> chan'[x]] /\ chan'[e] = h /\ chan'[a] = g
  BY <1>1, <1>2
<1>7. Endpoint(a, cfg, conn[a], out[a], g, passed[a])
  <2>1. /\ IsConn(conn[a]) /\ PastOf(conn[a], passed[a]) /\ IsSeq(out[a])
        /\ Alive(conn[a]) => Safe(a, cfg, conn[a]) /\ Waiting(a, conn[a], out[a], chan[a])
    BY <1>1, OfEndpoint
  <2>2. Waiting(a, conn[a], out[a], chan[a]) => Waiting(a, conn[a], out[a], g)
    BY DEF Waiting
  <2> QED BY <2>1, <2>2 DEF Endpoint
<1>8. Says(e, cfg, out[a])
  BY <1>1, OfEndpoint
<1>9. ASSUME NEW x \in Mode
      PROVE  /\ Endpoint(x, cfg, conn'[x], out'[x], chan'[x], passed'[x])
             /\ Says(x, cfg, chan'[x]) /\ Says(S2N_PEER_MODE(x), cfg, out'[x])
  <2>1. CASE x = e
    BY <1>3, <1>4, <1>5, <1>6, <2>1
  <2>2. CASE x = a
    BY <1>1, <1>3, <1>4, <1>5, <1>6, <1>7, <1>8, <2>2
  <2> QED BY <1>1, <2>1, <2>2
<1>10. cfg' \in Configs
  BY DEF IInv
<1> QED BY <1>3, <1>4, <1>5, <1>6, <1>9, <1>10 DEF IInv

\* What the requests look like after a step that leaves the records between
\* the two, or takes one of them.
LEMMA StepRead ==
    ASSUME IInv, cfg' = cfg, out' = out, NEW e \in Mode, NEW c, NEW p, NEW h,
           conn' = [conn EXCEPT ![e] = c], passed' = [passed EXCEPT ![e] = p],
           chan' = [chan EXCEPT ![e] = h],
           h = chan[e] \/ (chan[e] # << >> /\ h = Tail(chan[e])),
           Endpoint(e, cfg, c, out[e], h, p),
           e = "S" => (Reached(Late(cfg), conn[e], passed[e]) => Reached(Late(cfg), c, p)),
           e = "C" /\ Has(p, Late(cfg)) =>
              \/ Has(passed[e], Late(cfg))
              \/ chan[e] # << >> /\ h = Tail(chan[e]) /\ Head(chan[e]).message = WireType(Late(cfg))
    PROVE  IInv'
<1> DEFINE a == S2N_PEER_MODE(e)
           late == Late(cfg)
<1>1. a \in Mode /\ a # e /\ S2N_PEER_MODE(a) = e
  BY DEF Mode, S2N_PEER_MODE
<1>2. /\ conn = [x \in Mode |-> conn[x]] /\ passed = [x \in Mode |-> passed[x]]
      /\ out = [x \in Mode |-> out[x]] /\ chan = [x \in Mode |-> chan[x]]
  BY DEF IInv
<1>3. /\ IsSeq(chan[e]) /\ Says(e, cfg, chan[e])
      /\ IsSeq(chan[a]) /\ Says(a, cfg, chan[a]) /\ Says(a, cfg, out[e]) /\ IsSeq(out[a])
  BY <1>1, OfEndpoint
<1>4. Says(e, cfg, h)
  BY <1>3, SaysSeq
<1>5. out' = [out EXCEPT ![e] = out[e]] /\ chan' = [chan EXCEPT ![e] = h, ![a] = chan[a]]
  BY <1>1, <1>2
<1>6. /\ conn'[e] = c /\ conn'[a] = conn[a] /\ passed'[e] = p /\ passed'[a] = passed[a]
      /\ chan'[e] = h /\ chan'[a] = chan[a]
  BY <1>1, <1>2
<1>7. RequestsInTime(cfg, chan["C"] \o out["S"], passed["C"], conn["S"], passed["S"])
  BY DEF IInv
<1>8. RequestsInTime(cfg, chan'["C"] \o out'["S"], passed'["C"], conn'["S"], passed'["S"])
  <2>1. CASE e = "S"
    <3>1. a = "C"
      BY <2>1 DEF S2N_PEER_MODE
    <3>2. chan'["C"] = chan["C"] /\ passed'["C"] = passed["C"] /\ conn'["S"] = c /\ passed'["S"] = p
      BY <1>6, <2>1, <3>1
    <3>3. Reached(Late(cfg), conn["S"], passed["S"]) => Reached(Late(cfg), c, p)
      BY <2>1
    <3>4. RequestsInTime(cfg, chan["C"] \o out["S"], passed["C"], c, p)
      BY <1>7, <3>3, RequestsSame
    <3> QED BY <3>2, <3>4
  <2>2. CASE e = "C"
    <3>1. a = "S"
      BY <2>2 DEF S2N_PEER_MODE
    <3>2. chan'["C"] = h /\ passed'["C"] = p /\ conn'["S"] = conn["S"] /\ passed'["S"] = passed["S"]
      BY <1>6, <2>2, <3>1
    <3> DEFINE f == chan["C"] \o out["S"]
    <3>3. IsSeq(chan["C"]) /\ IsSeq(out["S"])
      BY <1>3, <2>2, <3>1
    <3>4. IsSeq(f)
      BY <3>3, TwoSeqs
    <3>5. CASE h = chan["C"] /\ (Has(p, late) => Has(passed["C"], late))
      <4>1. RequestsInTime(cfg, f, p, conn["S"], passed["S"])
        BY <1>7, <3>5, RequestsSame
      <4> QED BY <3>2, <3>5, <4>1
    <3>6. CASE chan["C"] # << >> /\ h = Tail(chan["C"])
      <4>1. f # << >> /\ Head(f) = Head(chan["C"]) /\ h \o out["S"] = Tail(f)
        BY <3>3, <3>6, TailOfTwo
      <4>2. Has(p, late) => Has(passed["C"], late) \/ Head(f).message = WireType(late)
        BY <2>2, <4>1
      <4> HIDE DEF f
      <4>3. RequestsInTime(cfg, f, passed["C"], conn["S"], passed["S"])
        BY <1>7 DEF f
      <4>4. RequestsInTime(cfg, Tail(f), p, conn["S"], passed["S"])
        BY <3>4, <4>1, <4>2, <4>3, RequestsTail
      <4> QED BY <3>2, <4>1, <4>4
    <3> QED BY <2>2, <3>5, <3>6
  <2> QED BY <2>1, <2>2 DEF Mode
<1>9. chan[a] # << >> => chan[a] # << >> /\ Head(chan[a]) = Head(chan[a])
  OBVIOUS
<1> HIDE DEF a
<1>10. a = S2N_PEER_MODE(e)
  BY DEF a
<1> QED BY <1>3, <1>4, <1>5, <1>8, <1>10, StepOf

\* A record is put in conn->out.
LEMMA StepWrite ==
    ASSUME IInv, cfg' = cfg, chan' = chan, NEW e \in Mode, NEW c, NEW record,
           conn' = [conn EXCEPT ![e] = c], passed' = [passed EXCEPT ![e] = passed[e]],
           out[e] = << >>, out' = [out EXCEPT ![e] = <<record>>],
           Endpoint(e, cfg, c, <<record>>, chan[e], passed[e]),
           RecordSays(S2N_PEER_MODE(e), cfg, record),
           e = "S" => (Reached(Late(cfg), conn[e], passed[e]) => Reached(Late(cfg), c, passed[e])),
           e = "S" /\ record.message = WireType(Late(cfg)) => Reached(Late(cfg), c, passed[e]),
           e = "S" /\ record.message = "SERVER_CERT_REQ" =>
              ~Reached(Late(cfg), conn[e], passed[e])
    PROVE  IInv'
<1> DEFINE a == S2N_PEER_MODE(e)
           o == <<record>>
<1>1. a \in Mode /\ a # e /\ S2N_PEER_MODE(a) = e
  BY DEF Mode, S2N_PEER_MODE
<1>2. /\ conn = [x \in Mode |-> conn[x]] /\ passed = [x \in Mode |-> passed[x]]
      /\ out = [x \in Mode |-> out[x]] /\ chan = [x \in Mode |-> chan[x]]
  BY DEF IInv
<1>3. /\ IsSeq(chan[e]) /\ Says(e, cfg, chan[e])
      /\ IsSeq(chan[a]) /\ Says(a, cfg, chan[a])
  BY <1>1, OfEndpoint
<1>4. Says(a, cfg, o)
  BY DEF Says
<1>5. chan' = [chan EXCEPT ![e] = chan[e], ![a] = chan[a]]
  BY <1>1, <1>2
<1>6. /\ conn'[e] = c /\ conn'[a] = conn[a] /\ passed' = passed
      /\ out'[e] = o /\ out'[a] = out[a]
  BY <1>1, <1>2
<1>7. RequestsInTime(cfg, chan["C"] \o out["S"], passed["C"], conn["S"], passed["S"])
  BY DEF IInv
<1>8. RequestsInTime(cfg, chan'["C"] \o out'["S"], passed'["C"], conn'["S"], passed'["S"])
  <2>1. CASE e = "C"
    <3>1. a = "S"
      BY <2>1 DEF S2N_PEER_MODE
    <3>2. conn'["S"] = conn["S"] /\ out'["S"] = out["S"]
      BY <1>6, <3>1
    <3> QED BY <1>6, <1>7, <3>2
  <2>2. CASE e = "S"
    <3>1. a = "C"
      BY <2>2 DEF S2N_PEER_MODE
    <3>2. conn'["S"] = c /\ out'["S"] = o /\ out["S"] = << >>
      BY <1>6, <2>2
    <3>3. IsSeq(chan["C"])
      BY <1>3, <3>1
    <3>4. chan["C"] \o << >> = chan["C"]
      BY <3>3, TailOfTwo
    <3>5. RequestsInTime(cfg, chan["C"], passed["C"], conn["S"], passed["S"])
      BY <1>7, <3>2, <3>4
    <3>6. /\ Reached(Late(cfg), conn["S"], passed["S"]) => Reached(Late(cfg), c, passed["S"])
          /\ record.message = WireType(Late(cfg)) => Reached(Late(cfg), c, passed["S"])
          /\ record.message = "SERVER_CERT_REQ" => ~Reached(Late(cfg), conn["S"], passed["S"])
      BY <2>2
    <3>7. RequestsInTime(cfg, chan["C"] \o <<record>>, passed["C"], c, passed["S"])
      BY <3>3, <3>5, <3>6, RequestsMore
    <3> QED BY <1>6, <3>2, <3>7
  <2> QED BY <2>1, <2>2 DEF Mode
<1>10. a = S2N_PEER_MODE(e) /\ out' = [out EXCEPT ![e] = o]
  OBVIOUS
<1>11. Endpoint(e, cfg, c, o, chan[e], passed[e])
  OBVIOUS
<1> HIDE DEF a, o
<1> QED BY <1>3, <1>4, <1>5, <1>8, <1>10, <1>11, StepOf

\* What is in conn->out is flushed.
LEMMA StepFlush ==
    ASSUME IInv, cfg' = cfg, NEW e \in Mode, NEW c, NEW p,
           conn' = [conn EXCEPT ![e] = c], passed' = [passed EXCEPT ![e] = p],
           out' = [out EXCEPT ![e] = << >>],
           chan' = [chan EXCEPT ![S2N_PEER_MODE(e)] = @ \o out[e]],
           Endpoint(e, cfg, c, << >>, chan[e], p),
           e = "S" => (Reached(Late(cfg), conn[e], passed[e]) => Reached(Late(cfg), c, p)),
           e = "C" => (Has(p, Late(cfg)) => Has(passed[e], Late(cfg)))
    PROVE  IInv'
<1> DEFINE a == S2N_PEER_MODE(e)
           g == chan[a] \o out[e]
<1>1. a \in Mode /\ a # e /\ S2N_PEER_MODE(a) = e
  BY DEF Mode, S2N_PEER_MODE
<1>2. /\ conn = [x \in Mode |-> conn[x]] /\ passed = [x \in Mode |-> passed[x]]
      /\ out = [x \in Mode |-> out[x]] /\ chan = [x \in Mode |-> chan[x]]
  BY DEF IInv
<1>3. /\ IsSeq(chan[e]) /\ Says(e, cfg, chan[e]) /\ IsSeq(out[e]) /\ Says(a, cfg, out[e])
      /\ IsSeq(chan[a]) /\ Says(a, cfg, chan[a])
  BY <1>1, OfEndpoint
<1>4. Says(a, cfg, g) /\ Says(a, cfg, << >>)
  BY <1>3, SaysSeq
<1>5. IsSeq(g)
  BY <1>3, TwoSeqs
<1>6. chan[a] # << >> => g # << >> /\ Head(g) = Head(chan[a])
  BY <1>3, TailOfTwo
<1>7. chan' = [chan EXCEPT ![e] = chan[e], ![a] = g]
  BY <1>1, <1>2
<1>8. /\ conn'[e] = c /\ conn'[a] = conn[a] /\ passed'[e] = p /\ passed'[a] = passed[a]
      /\ out'[e] = << >> /\ out'[a] = out[a] /\ chan'[e] = chan[e] /\ chan'[a] = g
  BY <1>1, <1>2
<1>9. RequestsInTime(cfg, chan["C"] \o out["S"], passed["C"], conn["S"], passed["S"])
  BY DEF IInv
<1>10. RequestsInTime(cfg, chan'["C"] \o out'["S"], passed'["C"], conn'["S"], passed'["S"])
  <2>1. CASE e = "C"
    <3>1. a = "S"
      BY <2>1 DEF S2N_PEER_MODE
    <3>2. /\ chan'["C"] = chan["C"] /\ out'["S"] = out["S"] /\ passed'["C"] = p
          /\ conn'["S"] = conn["S"] /\ passed'["S"] = passed["S"]
      BY <1>8, <2>1, <3>1
    <3>3. Has(p, Late(cfg)) => Has(passed["C"], Late(cfg))
      BY <2>1
    <3>4. RequestsInTime(cfg, chan["C"] \o out["S"], p, conn["S"], passed["S"])
      BY <1>9, <3>3, RequestsSame
    <3> QED BY <3>2, <3>4
  <2>2. CASE e = "S"
    <3>1. a = "C"
      BY <2>2 DEF S2N_PEER_MODE
    <3>2. /\ chan'["C"] = chan["C"] \o out["S"] /\ out'["S"] = << >> /\ passed'["C"] = passed["C"]
          /\ conn'["S"] = c /\ passed'["S"] = p
      BY <1>8, <2>2, <3>1
    <3>3. g \o << >> = g /\ g = chan["C"] \o out["S"]
      BY <1>5, <2>2, <3>1, TailOfTwo
    <3>4. Reached(Late(cfg), conn["S"], passed["S"]) => Reached(Late(cfg), c, p)
      BY <2>2
    <3>5. RequestsInTime(cfg, chan["C"] \o out["S"], passed["C"], c, p)
      BY <1>9, <3>4, RequestsSame
    <3> QED BY <3>2, <3>3, <3>5
  <2> QED BY <2>1, <2>2 DEF Mode
<1>11. a = S2N_PEER_MODE(e)
  OBVIOUS
<1> HIDE DEF a, g
<1> QED BY <1>3, <1>4, <1>5, <1>6, <1>7, <1>10, <1>11, StepOf

\* A connection fails.
LEMMA FailedSame ==
    ASSUME NEW c, IsConn(c), NEW d, d = [c EXCEPT !.status = "ERROR"]
    PROVE  Same(c, d, {"status"}) /\ ~Alive(d)
  BY DEF Same, IsConn, ConnFields, CoreFields, Alive

\* A failed connection has no more than its past.
LEMMA FailedEndpoint ==
    ASSUME NEW c, IsConn(c), NEW d, d = [c EXCEPT !.status = "ERROR"],
           NEW e, NEW k, NEW o, IsSeq(o), NEW h, IsSeq(h), NEW p, PastOf(c, p)
    PROVE  Endpoint(e, k, d, o, h, p) /\ AtOf(d) = AtOf(c)
<1>1. Same(c, d, {"status"}) /\ ~Alive(d)
  BY FailedSame
<1>2. PastOf(d, p) /\ AtOf(d) = AtOf(c)
  BY <1>1, SamePlace
<1>3. IsConn(d)
  BY <1>1 DEF Same
<1> QED BY <1>1, <1>2, <1>3 DEF Endpoint

\* Nothing is passed when message_number stays.
LEMMA NothingPassed ==
    ASSUME NEW c, NEW p, PastOf(c, p), NEW d, d.message_number = c.message_number
    PROVE  p \o PassedBy(c, d) = p /\ p \o << >> = p
<1>1. p \in Seq(Message) /\ c.message_number \in Nat
  BY PastLen
<1>2. PassedBy(c, d) = << >>
  <2>1. 1 .. d.message_number - c.message_number = {}
    BY <1>1
  <2> QED BY <2>1 DEF PassedBy
<1> QED BY <1>1, <1>2

\* The state a call leaves the connection in.
LEMMA BecomeOk ==
    ASSUME NEW e, NEW res, Become(e, res), res.r = "OK"
    PROVE  /\ conn' = [conn EXCEPT ![e] = res.c]
           /\ passed' = [passed EXCEPT ![e] = passed[e] \o PassedBy(conn[e], res.c)]
  BY DEF Become

\* It waits.
LEMMA BecomeBlocked ==
    ASSUME NEW e, NEW res, Become(e, res), res.r = "ASYNC_BLOCKED"
    PROVE  /\ conn' = [conn EXCEPT ![e] = [res.c EXCEPT !.paused = TRUE]]
           /\ passed' = [passed EXCEPT ![e] = passed[e] \o << >>]
  BY DEF Become

\* It has failed.
LEMMA BecomeFailed ==
    ASSUME NEW e, NEW res, Become(e, res), res.r \notin {"OK", "ASYNC_BLOCKED"}
    PROVE  /\ conn' = [conn EXCEPT ![e] = [res.c EXCEPT !.status = "ERROR"]]
           /\ passed' = [passed EXCEPT ![e] = passed[e] \o << >>]
  BY DEF Become

\* The output buffer.
LEMMA IoSame ==
    ASSUME NEW c, IsConn(c), NEW x, NEW d, d = [c EXCEPT !.io = x]
    PROVE  Same(c, d, {"io"}) /\ d.io = x /\ d.paused = c.paused
<1>1. DOMAIN c = ConnFields
  BY DEF IsConn
<1>2. Same(c, d, {"io"})
  BY DEF Same, IsConn, ConnFields, CoreFields
<1>3. d.io = x /\ d.paused = c.paused
  BY <1>1 DEF ConnFields
<1> QED BY <1>2, <1>3

\* The pause.
LEMMA PauseSame ==
    ASSUME NEW c, IsConn(c), NEW b, NEW d, d = [c EXCEPT !.paused = b]
    PROVE  Same(c, d, {"paused"}) /\ d.paused = b /\ d.io = c.io
<1>1. DOMAIN c = ConnFields
  BY DEF IsConn
<1>2. Same(c, d, {"paused"})
  BY DEF Same, IsConn, ConnFields, CoreFields
<1>3. d.paused = b /\ d.io = c.io
  BY <1>1 DEF ConnFields
<1> QED BY <1>2, <1>3

\* The messages behind some codes.
LEMMA WireBack ==
    ASSUME NEW m \in Message
    PROVE  /\ WireType(m) = "TLS_SERVER_HELLO" => m \in {"SERVER_HELLO", "HELLO_RETRY_MSG"}
           /\ WireType(m) = "CLIENT_HELLO" => m = "CLIENT_HELLO"
           /\ WireType(m) = "SERVER_CERT_REQ" => m = "SERVER_CERT_REQ"
  BY AreMessages DEF WireType, RecordType, CCS

\* A server that is about to request a certificate has not reached the late message.
LEMMA RequestIsEarly ==
    ASSUME NEW k, NEW c, NEW p, PastOf(c, p), ServerSafe(k, c), AtOf(c) = "SERVER_CERT_REQ"
    PROVE  ~Reached(Late(k), c, p)
<1>1. c.message_number > 0
  BY Inside
<1>2. c.version = Agreed(k)
  BY <1>1 DEF ServerSafe, ServerOk
<1> DEFINE v == c.version
           t == c.handshake_type
           n == c.message_number
<1>3. /\ n \in Nat /\ n < Len(Order(v, t)) /\ At(v, t, n) = "SERVER_CERT_REQ"
      /\ p = SubSeq(Order(v, t), 1, n)
  BY DEF PastOf, Past, AtOf
<1>4. Late(k) = LateMessage(v) /\ Len(p) = n
  BY <1>2, PastLen DEF Late
<1> HIDE DEF v, t, n
<1>5. ASSUME NEW i \in 1 .. n PROVE p[i] # LateMessage(v)
  BY <1>3, <1>5, ReqIsEarly, OrderSeq
<1>6. Late(k) # "SERVER_CERT_REQ"
  BY DEF Late, LateMessage
<1> QED BY <1>4, <1>5, <1>6 DEF Reached, Has

\* Written is written: WriteMessage and RetryWrite.
LEMMA WriteStep ==
    ASSUME IInv, NEW e \in Mode, Alive(conn[e]), NEW m, m = AtOf(conn[e]), Writer(m) = e,
           out[e] = << >>, conn[e].message_number = 0 => conn[e].io = "WIPED",
           NEW res, res = WriteHandler(e, cfg[e], conn[e], m), WriteResult(e, res, m),
           cfg' = cfg, chan' = chan
    PROVE  IInv'
<1> DEFINE b == conn[e]
           p == passed[e]
           a == S2N_PEER_MODE(e)
<1>1. /\ cfg \in Configs /\ IsConn(b) /\ PastOf(b, p) /\ IsSeq(out[e]) /\ IsSeq(chan[e])
      /\ Safe(e, cfg, b)
  BY OfEndpoint
<1>2. Written(e, cfg, b, p, m, res)
  BY <1>1, Writes
<1>3. /\ IsConn(res.c) /\ PastOf(res.c, p) /\ AtOf(res.c) = m
      /\ res.c.message_number = b.message_number
      /\ res.r \in {"OK", "ERROR", "ASYNC_BLOCKED", "EARLY_DATA_BLOCKED"}
  BY <1>2 DEF Written, Kept
<1>4. m \in Message
  BY <1>1, PastLen
<1>5. CASE res.r = "OK"
  <2> DEFINE sealed == Seal(e, res.c, m)
             x == Hashed(sealed.c, m)
             no == FALSE
             c == [x EXCEPT !.io = "MESSAGE", !.paused = no]
             record == sealed.record
  <2>1. Become(e, Ok(c)) /\ out' = [out EXCEPT ![e] = <<record>>]
    BY <1>5 DEF WriteResult
  <2>2. /\ Same(res.c, sealed.c, {}) /\ record.message = WireType(m)
        /\ record.body = MessageBody(cfg[e], res.c, m)
    BY <1>3, RecordSame DEF Seal
  <2> HIDE DEF sealed
  <2>3. IsConn(sealed.c)
    BY <2>2 DEF Same
  <2>4. Same(sealed.c, x, {})
    BY <2>3, HashedSame
  <2> HIDE DEF x
  <2>5. IsConn(x)
    BY <2>4 DEF Same
  <2> HIDE DEF no
  <2>6. Same(x, c, {"io", "paused"}) /\ c.io = "MESSAGE" /\ c.paused = no
    <3>1. DOMAIN x = ConnFields
      BY <2>5 DEF IsConn
    <3>2. Same(x, c, {"io", "paused"})
      BY <2>5 DEF Same, IsConn, ConnFields, CoreFields
    <3>3. c.io = "MESSAGE" /\ c.paused = no
      BY <3>1 DEF ConnFields
    <3> QED BY <3>2, <3>3
  <2> HIDE DEF c, record
  <2>7. Same(res.c, c, {"io", "paused"})
    BY <2>2, <2>4, <2>6 DEF Same
  <2>8. Ok(c).r = "OK" /\ Ok(c).c = c
    BY DEF Ok
  <2>9. /\ conn' = [conn EXCEPT ![e] = c]
        /\ passed' = [passed EXCEPT ![e] = p \o PassedBy(b, c)]
    <3> DEFINE d == Ok(c)
    <3>1. Become(e, d) /\ d.r = "OK" /\ d.c = c
      BY <2>1, <2>8
    <3> HIDE DEF d
    <3> QED BY <3>1, BecomeOk
  <2>10. /\ PastOf(c, p) /\ AtOf(c) = m /\ c.message_number = b.message_number /\ IsConn(c)
    <3>1. PastOf(c, p) /\ AtOf(c) = m /\ c.message_number = res.c.message_number
      BY <1>3, <2>7, SamePlace
    <3> QED BY <1>3, <2>7, <3>1 DEF Same
  <2>11. passed' = [passed EXCEPT ![e] = passed[e]]
    <3>1. p \o PassedBy(b, c) = p
      BY <1>1, <2>10, NothingPassed
    <3> QED BY <2>9, <3>1
  <2>12. Safe(e, cfg, c)
    BY <1>2, <1>5, <2>6, <2>7 DEF Written, Writable
  <2>13. Waiting(e, c, <<record>>, chan[e])
    BY <2>6, <2>10 DEF Waiting, no
  <2>14. Endpoint(e, cfg, c, <<record>>, chan[e], passed[e])
    BY <1>1, <2>10, <2>12, <2>13, SmallSeq DEF Endpoint
  <2>15. RecordSays(a, cfg, record)
    <3>1. ASSUME a = "S", record.message = "CLIENT_HELLO" PROVE ClientHelloSays(cfg, record.body)
      BY <1>2, <1>4, <1>5, <2>2, <3>1, WireBack DEF Written
    <3>2. ASSUME a = "C", record.message = "TLS_SERVER_HELLO" PROVE ServerHelloSays(cfg, record.body)
      BY <1>2, <1>4, <1>5, <2>2, <3>2, WireBack DEF Written
    <3> QED BY <3>1, <3>2 DEF RecordSays
  <2>16. Reached(Late(cfg), b, p) => Reached(Late(cfg), c, p)
    BY <2>10 DEF Reached
  <2>17. ASSUME e = "S", record.message = WireType(Late(cfg)) PROVE Reached(Late(cfg), c, p)
    <3>1. m \in ServerMessage
      BY <2>17 DEF Writer
    <3>2. m = Late(cfg)
      BY <2>2, <2>17, <3>1, LateIs
    <3> QED BY <2>10, <3>2 DEF Reached
  <2>18. ASSUME e = "S", record.message = "SERVER_CERT_REQ" PROVE ~Reached(Late(cfg), b, p)
    <3>1. AtOf(b) = "SERVER_CERT_REQ"
      BY <1>4, <2>2, <2>18, WireBack
    <3>2. ServerSafe(cfg, b)
      BY <1>1, <2>18 DEF Safe
    <3> QED BY <1>1, <3>1, <3>2, RequestIsEarly
  <2> QED BY <2>1, <2>9, <2>11, <2>14, <2>15, <2>16, <2>17, <2>18, StepWrite
<1>6. CASE res.r # "OK"
  <2> DEFINE x == [res.c EXCEPT !.io = "MESSAGE"]
             r1 == [r |-> res.r, c |-> x]
  <2>1. Become(e, r1) /\ out' = out
    BY <1>6 DEF WriteResult
  <2>3. r1.r = res.r /\ r1.c = x
    OBVIOUS
  <2>4. Same(res.c, x, {"io"}) /\ x.io = "MESSAGE"
    BY <1>3, IoSame
  <2> HIDE DEF x, r1
  <2>5. IsConn(x) /\ PastOf(x, p) /\ AtOf(x) = m /\ x.message_number = b.message_number
    <3>1. PastOf(x, p) /\ AtOf(x) = m /\ x.message_number = res.c.message_number
      BY <1>3, <2>4, SamePlace
    <3> QED BY <1>3, <2>4, <3>1 DEF Same
  <2>6. p \o << >> = p
    BY <1>1, NothingPassed
  <2>7. chan' = [chan EXCEPT ![e] = chan[e]]
    <3>1. chan = [y \in Mode |-> chan[y]]
      BY DEF IInv
    <3> QED BY <3>1
  <2>8. CASE res.r = "ASYNC_BLOCKED"
    <3> DEFINE yes == TRUE
               c == [x EXCEPT !.paused = yes]
    <3>1. conn' = [conn EXCEPT ![e] = c] /\ passed' = [passed EXCEPT ![e] = p]
      BY <2>1, <2>3, <2>6, <2>8, BecomeBlocked
    <3> HIDE DEF yes
    <3>2. Same(x, c, {"paused"}) /\ c.paused = yes
      BY <2>5, PauseSame
    <3> HIDE DEF c
    <3>3. Same(res.c, c, {"io", "paused"}) /\ c.io = "MESSAGE"
      BY <2>4, <3>2 DEF Same, CoreFields
    <3>4. Safe(e, cfg, c)
      BY <1>2, <2>8, <3>3 DEF Written, Writable
    <3>5. IsConn(c) /\ PastOf(c, p) /\ AtOf(c) = m
      <4>1. PastOf(c, p) /\ AtOf(c) = m
        BY <2>5, <3>2, SamePlace
      <4> QED BY <3>2, <4>1 DEF Same
    <3>6. m \in Signed
      BY <1>2, <2>8 DEF Written
    <3>7. Waiting(e, c, out[e], chan[e])
      BY <3>5, <3>6 DEF Waiting
    <3>8. Endpoint(e, cfg, c, out[e], chan[e], p)
      BY <1>1, <3>4, <3>5, <3>7 DEF Endpoint
    <3>9. Reached(Late(cfg), b, p) => Reached(Late(cfg), c, p)
      BY <3>5 DEF Reached
    <3> QED BY <2>1, <2>7, <3>1, <3>8, <3>9, StepRead
  <2>9. CASE res.r # "ASYNC_BLOCKED"
    <3> DEFINE c == [x EXCEPT !.status = "ERROR"]
    <3>1. conn' = [conn EXCEPT ![e] = c] /\ passed' = [passed EXCEPT ![e] = p]
      BY <1>6, <2>1, <2>3, <2>6, <2>9, BecomeFailed
    <3>2. Endpoint(e, cfg, c, out[e], chan[e], p) /\ AtOf(c) = m
      BY <1>1, <2>5, FailedEndpoint
    <3> HIDE DEF c
    <3>3. Reached(Late(cfg), b, p) => Reached(Late(cfg), c, p)
      BY <3>2 DEF Reached
    <3> QED BY <2>1, <2>7, <3>1, <3>2, <3>3, StepRead
  <2> QED BY <2>8, <2>9
<1> QED BY <1>5, <1>6

\* A connection that negotiates is at a message of one side or the other.
LEMMA Going ==
    ASSUME IInv, NEW e \in Mode, Negotiating(e)
    PROVE  /\ Alive(conn[e]) /\ ACTIVE_MESSAGE(conn[e]) = AtOf(conn[e])
           /\ AtOf(conn[e]) \in Message /\ AtOf(conn[e]) # "APPLICATION_DATA"
           /\ CONNECTION_IS_WRITER(e, conn[e]) <=> Writer(AtOf(conn[e])) = e
<1>1. PastOf(conn[e], passed[e])
  BY OfEndpoint
<1>2. ACTIVE_MESSAGE(conn[e]) = AtOf(conn[e]) /\ AtOf(conn[e]) \in Message
  BY <1>1, ActiveIsAt, PastLen
<1>3. Alive(conn[e]) /\ AtOf(conn[e]) # "APPLICATION_DATA"
  BY <1>2 DEF Negotiating, Alive
<1>4. CONNECTION_IS_WRITER(e, conn[e]) <=> Writer(AtOf(conn[e])) = e
  BY <1>2 DEF CONNECTION_IS_WRITER
<1> QED BY <1>2, <1>3, <1>4

\* An endpoint that neither waits nor has anything to flush.
LEMMA FreeEndpoint ==
    ASSUME NEW e, NEW k, NEW c, IsConn(c), NEW s, PastOf(c, s), Safe(e, k, c), ~c.paused,
           NEW h, IsSeq(h)
    PROVE  Endpoint(e, k, c, << >>, h, s)
  BY SmallSeq DEF Endpoint, Waiting

\* A paused writer is at a message it signs, one with an unflushed record is not paused.
LEMMA WaitingWriter ==
    ASSUME IInv, NEW e \in Mode, Alive(conn[e])
    PROVE  /\ conn[e].paused => out[e] = << >>
           /\ Writer(AtOf(conn[e])) # e => out[e] = << >>
           /\ out[e] # << >> => Writer(AtOf(conn[e])) = e /\ conn[e].io = "MESSAGE" /\ ~conn[e].paused
           /\ conn[e].paused /\ Writer(AtOf(conn[e])) = e => AtOf(conn[e]) \in Signed
           /\ conn[e].paused /\ Writer(AtOf(conn[e])) # e =>
                 chan[e] # << >> /\ Head(chan[e]).message = WireType(AtOf(conn[e]))
<1>1. Waiting(e, conn[e], out[e], chan[e])
  BY OfEndpoint
<1> QED BY <1>1 DEF Waiting

\* A record is flushed: FlushMessage.
LEMMA FlushStep ==
    ASSUME IInv, NEW e \in Mode, FlushMessage(e)
    PROVE  IInv'
<1> DEFINE b == conn[e]
           p == passed[e]
           m == AtOf(b)
           x == [b EXCEPT !.io = "WIPED"]
           res == FinishMessage(e, x)
           late == Late(cfg)
<1>1. /\ cfg' = cfg /\ Negotiating(e) /\ out[e] # << >> /\ Become(e, res)
      /\ out' = [out EXCEPT ![e] = << >>]
      /\ chan' = [chan EXCEPT ![S2N_PEER_MODE(e)] = @ \o out[e]]
  BY DEF FlushMessage
<1>2. Alive(b) /\ m \in Message /\ m # "APPLICATION_DATA"
  BY <1>1, Going
<1>3. /\ cfg \in Configs /\ IsConn(b) /\ PastOf(b, p) /\ IsSeq(chan[e]) /\ Safe(e, cfg, b)
  BY <1>2, OfEndpoint
<1>4. Writer(m) = e /\ b.io = "MESSAGE" /\ ~b.paused
  BY <1>1, <1>2, WaitingWriter
<1>5. /\ e = "C" => m \in ClientMessage
      /\ e = "S" => m \in ServerMessage
  BY <1>4 DEF Writer, Message
<1>6. Movable(e, cfg, b)
  <2>1. ~Opening(b)
    BY <1>4 DEF Opening
  <2>2. /\ e = "C" => m \notin {"SERVER_HELLO", "HELLO_RETRY_MSG"}
        /\ e = "S" => m # "CLIENT_HELLO"
    BY <1>5 DEF ClientMessage, ServerMessage
  <2> QED BY <1>2, <1>3, <2>1, <2>2, SafeMovable
<1>7. Same(b, x, {"io"}) /\ x.paused = b.paused
  BY <1>3, IoSame
<1>8. Same(b, x, {"io", "paused"})
  BY <1>7 DEF Same
<1>9. res = FinishMessage(e, x)
  OBVIOUS
<1> HIDE DEF x, res
<1>10. Finished(e, cfg, b, p, res) /\ res.c.paused = x.paused
  BY <1>3, <1>6, <1>8, <1>9, Finishes
<1>11. late \in ServerMessage /\ late \notin CCS
  BY LateIs
<1>12. CASE res.r = "OK"
  <2> DEFINE c == res.c
             s == p \o PassedBy(b, c)
  <2>1. conn' = [conn EXCEPT ![e] = c] /\ passed' = [passed EXCEPT ![e] = s]
    BY <1>1, <1>12, BecomeOk
  <2>2. /\ Safe(e, cfg, c) /\ IsConn(c) /\ PastOf(c, s) /\ Grown(p, s, m)
    BY <1>10, <1>12 DEF Finished
  <2>3. ~c.paused
    BY <1>4, <1>7, <1>10
  <2> HIDE DEF c, s
  <2>4. Endpoint(e, cfg, c, << >>, chan[e], s)
    BY <1>3, <2>2, <2>3, FreeEndpoint
  <2>5. /\ Has(p, late) => Has(s, late)
        /\ Has(s, late) => Has(p, late) \/ late = m
        /\ Has(s, m)
    BY <1>11, <2>2, GrownHas
  <2>6. Reached(late, b, p) => Reached(late, c, s)
    BY <2>5 DEF Reached
  <2>7. e = "C" => late # m
    BY <1>5, <1>11 DEF ClientMessage, ServerMessage
  <2>8. e = "C" => (Has(s, late) => Has(p, late))
    BY <2>5, <2>7
  <2> QED BY <1>1, <2>1, <2>4, <2>6, <2>8, StepFlush
<1>13. CASE res.r # "OK"
  <2> DEFINE c == [res.c EXCEPT !.status = "ERROR"]
  <2>1. res.r = "ERROR" /\ IsConn(res.c) /\ PastOf(res.c, p) /\ AtOf(res.c) = m
    BY <1>10, <1>13 DEF Finished
  <2>2. p \o << >> = p
    BY <1>3, NothingPassed
  <2>3. conn' = [conn EXCEPT ![e] = c] /\ passed' = [passed EXCEPT ![e] = p]
    BY <1>1, <2>1, <2>2, BecomeFailed
  <2>4. Endpoint(e, cfg, c, << >>, chan[e], p) /\ AtOf(c) = m
    BY <1>3, <2>1, SmallSeq, FailedEndpoint
  <2> HIDE DEF c
  <2>5. Reached(late, b, p) => Reached(late, c, p)
    BY <2>4 DEF Reached
  <2> QED BY <1>1, <2>3, <2>4, <2>5, StepFlush
<1> QED BY <1>12, <1>13

\* A record is taken, or none.
Takes(e, h) == h = chan[e] \/ (chan[e] # << >> /\ ~conn[e].paused /\ h = Tail(chan[e]))

\* A step that leaves the endpoint what it was.
LEMMA SteadyStep ==
    ASSUME IInv, cfg' = cfg, out' = out, NEW e \in Mode, NEW c, Same(conn[e], c, {}),
           conn' = [conn EXCEPT ![e] = c], passed' = [passed EXCEPT ![e] = passed[e]],
           NEW h, chan' = [chan EXCEPT ![e] = h], Takes(e, h)
    PROVE  IInv'
<1> DEFINE b == conn[e]
           p == passed[e]
<1>1. IsConn(b) /\ PastOf(b, p) /\ IsSeq(out[e]) /\ IsSeq(chan[e])
  BY OfEndpoint
<1>2. PastOf(c, p) /\ AtOf(c) = AtOf(b) /\ Kept(b, c, p)
  BY <1>1, SameKept DEF Kept
<1>3. IsSeq(h)
  BY <1>1, TailSeq DEF Takes
<1>4. ASSUME Alive(c) PROVE Safe(e, cfg, c) /\ Waiting(e, c, out[e], h)
  <2>1. Alive(b)
    BY <1>2, <1>4 DEF Kept, Alive
  <2>2. Safe(e, cfg, b) /\ Waiting(e, b, out[e], chan[e])
    BY <2>1, OfEndpoint
  <2>3. Safe(e, cfg, c)
    BY <1>1, <2>2, SafeSame
  <2>4. Waiting(e, c, out[e], h)
    BY <1>2, <2>2 DEF Kept, Waiting, Takes
  <2> QED BY <2>3, <2>4
<1>5. Endpoint(e, cfg, c, out[e], h, p)
  BY <1>1, <1>2, <1>3, <1>4 DEF Endpoint, Kept
<1>6. Reached(Late(cfg), b, p) => Reached(Late(cfg), c, p)
  BY <1>2 DEF Reached
<1>7. h = chan[e] \/ (chan[e] # << >> /\ h = Tail(chan[e]))
  BY DEF Takes
<1> QED BY <1>5, <1>6, <1>7, StepRead

\* A step in which the endpoint fails.
LEMMA FailStep ==
    ASSUME IInv, cfg' = cfg, out' = out, NEW e \in Mode, NEW x, Same(conn[e], x, {}),
           NEW res, res = Fail(x), Become(e, res),
           NEW h, chan' = [chan EXCEPT ![e] = h], Takes(e, h)
    PROVE  IInv'
<1> DEFINE b == conn[e]
           p == passed[e]
           c == [x EXCEPT !.status = "ERROR"]
<1>1. IsConn(b) /\ PastOf(b, p) /\ IsSeq(out[e]) /\ IsSeq(chan[e])
  BY OfEndpoint
<1>2. PastOf(x, p) /\ AtOf(x) = AtOf(b) /\ IsConn(x)
  BY <1>1, SameKept DEF Kept
<1>3. res.r = "ERROR" /\ res.c = x
  BY DEF Fail
<1>4. p \o << >> = p
  BY <1>1, NothingPassed
<1>5. conn' = [conn EXCEPT ![e] = c] /\ passed' = [passed EXCEPT ![e] = p]
  BY <1>3, <1>4, BecomeFailed
<1>6. IsSeq(h)
  BY <1>1, TailSeq DEF Takes
<1>7. Endpoint(e, cfg, c, out[e], h, p) /\ AtOf(c) = AtOf(x)
  BY <1>1, <1>2, <1>6, FailedEndpoint
<1> HIDE DEF c
<1>8. Reached(Late(cfg), b, p) => Reached(Late(cfg), c, p)
  BY <1>2, <1>7 DEF Reached
<1>9. h = chan[e] \/ (chan[e] # << >> /\ h = Tail(chan[e]))
  BY DEF Takes
<1> QED BY <1>5, <1>7, <1>8, <1>9, StepRead

\* A step in which a reader goes past a message that is not the late one, or
\* past the one it takes.
LEMMA PastStep ==
    ASSUME IInv, cfg' = cfg, out' = out, NEW e \in Mode, Alive(conn[e]),
           Writer(AtOf(conn[e])) # e, chan[e] # << >>,
           NEW c, IsConn(c), Safe(e, cfg, c), ~c.paused, NEW s, PastOf(c, s),
           NEW m, Grown(passed[e], s, m),
           e = "C" => m # Late(cfg) \/ Head(chan[e]).message = WireType(Late(cfg)),
           conn' = [conn EXCEPT ![e] = c], passed' = [passed EXCEPT ![e] = s],
           chan' = [chan EXCEPT ![e] = Tail(chan[e])]
    PROVE  IInv'
<1> DEFINE b == conn[e]
           p == passed[e]
           late == Late(cfg)
           h == Tail(chan[e])
<1>1. IsSeq(chan[e]) /\ out[e] = << >>
  BY OfEndpoint, WaitingWriter
<1>2. IsSeq(h)
  BY <1>1, TailSeq
<1>3. Endpoint(e, cfg, c, out[e], h, s)
  BY <1>1, <1>2, FreeEndpoint
<1>4. late \in ServerMessage /\ late \notin CCS
  BY LateIs
<1>5. /\ Has(p, late) => Has(s, late)
      /\ Has(s, late) => Has(p, late) \/ late = m
  BY <1>4, GrownHas
<1>6. e = "S" => (Reached(late, b, p) => Reached(late, c, s))
  <2>1. e = "S" => AtOf(b) # late
    BY <1>4 DEF Writer
  <2> QED BY <1>5, <2>1 DEF Reached
<1>7. e = "C" /\ Has(s, late) =>
         \/ Has(p, late)
         \/ chan[e] # << >> /\ h = Tail(chan[e]) /\ Head(chan[e]).message = WireType(late)
  BY <1>5
<1>8. /\ h = chan[e] \/ (chan[e] # << >> /\ h = Tail(chan[e]))
      /\ chan' = [chan EXCEPT ![e] = h]
  OBVIOUS
<1> HIDE DEF h
<1> QED BY <1>3, <1>6, <1>7, <1>8, StepRead

\* A step that handles the message at the head of the stream.
LEMMA HandledStep ==
    ASSUME IInv, cfg' = cfg, out' = out, NEW e \in Mode, Alive(conn[e]),
           Writer(AtOf(conn[e])) # e, chan[e] # << >>,
           NEW w, w = Head(chan[e]).message,
           NEW res, Handled(e, cfg, conn[e], passed[e], w, res), Become(e, res),
           chan' = [chan EXCEPT ![e] = IF res.r = "ASYNC_BLOCKED" THEN chan[e] ELSE Tail(chan[e])]
    PROVE  IInv'
<1> DEFINE b == conn[e]
           p == passed[e]
<1>1. IsConn(b) /\ PastOf(b, p) /\ IsSeq(chan[e]) /\ IsSeq(out[e]) /\ out[e] = << >>
  BY OfEndpoint, WaitingWriter
<1>2. /\ res.r \in {"OK", "ERROR", "ASYNC_BLOCKED"} /\ IsConn(res.c)
      /\ res.r # "OK" => PastOf(res.c, p)
  BY DEF Handled
<1>3. p \o << >> = p
  BY <1>1, NothingPassed
<1>4. e = "S" => AtOf(b) # Late(cfg)
  BY LateIs DEF Writer
<1>5. CASE res.r = "OK"
  <2> DEFINE c == res.c
             s == p \o PassedBy(b, c)
  <2>1. conn' = [conn EXCEPT ![e] = c] /\ passed' = [passed EXCEPT ![e] = s]
    BY <1>5, BecomeOk
  <2>2. /\ Safe(e, cfg, c) /\ IsConn(c) /\ ~c.paused /\ PastOf(c, s) /\ WentPast(e, p, s, w)
    BY <1>2, <1>5 DEF Handled
  <2> HIDE DEF c, s
  <2>3. PICK m \in Message \ {"APPLICATION_DATA"} :
           WireType(m) = w /\ Writer(m) # e /\ Grown(p, s, m)
    BY <2>2 DEF WentPast
  <2>4. e = "C" => m # Late(cfg) \/ Head(chan[e]).message = WireType(Late(cfg))
    BY <2>3
  <2>5. chan' = [chan EXCEPT ![e] = Tail(chan[e])]
    BY <1>5
  <2> QED BY <2>1, <2>2, <2>3, <2>4, <2>5, PastStep
<1>6. CASE res.r = "ERROR"
  <2> DEFINE c == [res.c EXCEPT !.status = "ERROR"]
             h == Tail(chan[e])
  <2>1. conn' = [conn EXCEPT ![e] = c] /\ passed' = [passed EXCEPT ![e] = p]
    BY <1>3, <1>6, BecomeFailed
  <2>2. IsSeq(h)
    BY <1>1, TailSeq
  <2>3. Endpoint(e, cfg, c, out[e], h, p)
    BY <1>1, <1>2, <1>6, <2>2, FailedEndpoint
  <2>4. e = "S" => (Reached(Late(cfg), b, p) => Reached(Late(cfg), c, p))
    BY <1>4 DEF Reached
  <2>5. /\ h = chan[e] \/ (chan[e] # << >> /\ h = Tail(chan[e]))
        /\ chan' = [chan EXCEPT ![e] = h]
    BY <1>6
  <2> HIDE DEF c, h
  <2> QED BY <2>1, <2>3, <2>4, <2>5, StepRead
<1>7. CASE res.r = "ASYNC_BLOCKED"
  <2> DEFINE yes == TRUE
             c == [res.c EXCEPT !.paused = yes]
             h == chan[e]
  <2>1. conn' = [conn EXCEPT ![e] = c] /\ passed' = [passed EXCEPT ![e] = p]
    BY <1>3, <1>7, BecomeBlocked
  <2> HIDE DEF yes
  <2>2. Same(res.c, c, {"paused"})
    BY <1>2, PauseSame
  <2> HIDE DEF c
  <2>3. /\ Safe(e, cfg, res.c) /\ PastOf(res.c, p) /\ WireType(AtOf(res.c)) = w
        /\ Writer(AtOf(res.c)) # e
    BY <1>7 DEF Handled
  <2>4. Safe(e, cfg, c)
    BY <2>2, <2>3, SafePaused
  <2>5. AtOf(c) = AtOf(res.c) /\ PastOf(c, p)
    BY <2>2, <2>3, SamePlace
  <2>6. IsConn(c)
    BY <2>2 DEF Same
  <2>7. Waiting(e, c, out[e], h)
    BY <1>1, <2>3, <2>5 DEF Waiting
  <2>8. Endpoint(e, cfg, c, out[e], h, p)
    BY <1>1, <2>4, <2>5, <2>6, <2>7, SmallSeq DEF Endpoint
  <2>9. e = "S" => (Reached(Late(cfg), b, p) => Reached(Late(cfg), c, p))
    BY <1>4 DEF Reached
  <2>10. chan' = [chan EXCEPT ![e] = h] /\ h = chan[e]
    BY <1>7
  <2> HIDE DEF h
  <2> QED BY <2>1, <2>8, <2>9, <2>10, StepRead
<1> QED BY <1>2, <1>5, <1>6, <1>7

\* What a reader has before it.
LEMMA ReaderHas ==
    ASSUME IInv, NEW e \in Mode, chan[e] # << >>
    PROVE  /\ RecordSays(e, cfg, Head(chan[e]))
           /\ e = "C" /\ Head(chan[e]).message = "SERVER_CERT_REQ" =>
                 ~Has(passed[e], Late(cfg))
<1>1. IsSeq(chan[e]) /\ Says(e, cfg, chan[e])
  BY OfEndpoint
<1>2. Len(chan[e]) \in Nat /\ Len(chan[e]) > 0 /\ Head(chan[e]) = chan[e][1]
  BY <1>1, TailSeq
<1>3. RecordSays(e, cfg, Head(chan[e]))
  <2>1. 1 \in 1 .. Len(chan[e])
    BY <1>2
  <2> QED BY <1>1, <1>2, <2>1 DEF Says
<1>4. ASSUME e = "C", Head(chan[e]).message = "SERVER_CERT_REQ", Has(passed[e], Late(cfg))
      PROVE  FALSE
  <2> DEFINE f == chan["C"] \o out["S"]
  <2>1. IsSeq(chan["C"]) /\ IsSeq(out["S"])
    BY OfEndpoint DEF Mode
  <2>2. IsSeq(f)
    BY <2>1, TwoSeqs
  <2>3. f # << >> /\ Head(f) = Head(chan["C"])
    BY <1>4, <2>1, TailOfTwo
  <2>4. RequestsInTime(cfg, f, passed["C"], conn["S"], passed["S"])
    BY DEF IInv
  <2> HIDE DEF f
  <2>5. NoRequest(f, 1)
    BY <1>4, <2>4 DEF RequestsInTime, Requests, Late
  <2>6. Len(f) \in Nat /\ Len(f) > 0 /\ Head(f) = f[1]
    BY <2>2, <2>3, TailSeq
  <2>7. 1 \in 1 .. Len(f)
    BY <2>6
  <2> QED BY <1>4, <2>3, <2>5, <2>6, <2>7 DEF NoRequest
<1> QED BY <1>3, <1>4

\* What a reader is.
LEMMA ReaderIs ==
    ASSUME IInv, NEW e \in Mode, Reading(e)
    PROVE  /\ Alive(conn[e]) /\ ~conn[e].paused /\ chan[e] # << >> /\ out[e] = << >>
           /\ AtOf(conn[e]) \in Message /\ AtOf(conn[e]) # "APPLICATION_DATA"
           /\ Writer(AtOf(conn[e])) # e
           /\ cfg \in Configs /\ IsConn(conn[e]) /\ PastOf(conn[e], passed[e])
           /\ Safe(e, cfg, conn[e])
           /\ Same(conn[e], ReceivedConn(e), {})
<1>1. Negotiating(e) /\ ~conn[e].paused /\ chan[e] # << >> /\ ~CONNECTION_IS_WRITER(e, conn[e])
  BY DEF Reading
<1>2. /\ Alive(conn[e]) /\ AtOf(conn[e]) \in Message /\ AtOf(conn[e]) # "APPLICATION_DATA"
      /\ Writer(AtOf(conn[e])) # e
  BY <1>1, Going
<1>3. out[e] = << >>
  BY <1>2, WaitingWriter
<1>4. cfg \in Configs /\ IsConn(conn[e]) /\ PastOf(conn[e], passed[e]) /\ Safe(e, cfg, conn[e])
  BY <1>2, OfEndpoint
<1>5. Same(conn[e], ReceivedConn(e), {})
  BY <1>4, RecordSame DEF ReceivedConn
<1> QED BY <1>1, <1>2, <1>3, <1>4, <1>5

\* A handshake message is read: ReadHandshake.
LEMMA ReadHandshakeStep ==
    ASSUME IInv, NEW e \in Mode, ReadHandshake(e)
    PROVE  IInv'
<1> DEFINE b == conn[e]
           p == passed[e]
           c == ReceivedConn(e)
           record == Head(chan[e])
           res == HandshakeResult(e, c, record)
<1>1. /\ Reading(e) /\ Become(e, res) /\ cfg' = cfg /\ out' = out
      /\ IF res.r = "ASYNC_BLOCKED" THEN chan' = chan ELSE Consume(e)
  BY DEF ReadHandshake
<1>2. /\ Alive(b) /\ ~b.paused /\ chan[e] # << >> /\ Writer(AtOf(b)) # e
      /\ cfg \in Configs /\ IsConn(b) /\ PastOf(b, p) /\ Safe(e, cfg, b) /\ Same(b, c, {})
  BY <1>1, ReaderIs
<1>3. /\ RecordSays(e, cfg, record)
      /\ e = "C" /\ record.message = "SERVER_CERT_REQ" => ~Has(p, LateMessage(Agreed(cfg)))
  BY <1>2, ReaderHas DEF Late
<1>4. res = HandshakeResult(e, c, record)
  OBVIOUS
<1> HIDE DEF res, c
<1>5. Handled(e, cfg, b, p, record.message, res)
  BY <1>2, <1>3, <1>4, HandshakeRead
<1>6. chan' = [chan EXCEPT ![e] = IF res.r = "ASYNC_BLOCKED" THEN chan[e] ELSE Tail(chan[e])]
  <2>1. chan = [y \in Mode |-> chan[y]]
    BY DEF IInv
  <2>2. CASE res.r = "ASYNC_BLOCKED"
    BY <1>1, <2>1, <2>2
  <2>3. CASE res.r # "ASYNC_BLOCKED"
    BY <1>1, <2>3 DEF Consume
  <2> QED BY <2>2, <2>3
<1> QED BY <1>1, <1>2, <1>5, <1>6, HandledStep

\* A blocked handler runs again: RetryRead.
LEMMA RetryReadStep ==
    ASSUME IInv, NEW e \in Mode, RetryRead(e)
    PROVE  IInv'
<1> DEFINE b == conn[e]
           p == passed[e]
           m == AtOf(b)
           record == Head(chan[e])
           r == ReadHandler(cfg[e], b, ACTIVE_MESSAGE(b), record.body)
           no == FALSE
           x == [r.c EXCEPT !.paused = no]
           resumed(c) == s2n_finish_read(e, [c EXCEPT !.paused = FALSE], ACTIVE_MESSAGE(c))
           res == Then(r, resumed)
<1>1. /\ Negotiating(e) /\ b.paused /\ ~CONNECTION_IS_WRITER(e, b) /\ Become(e, res)
      /\ cfg' = cfg /\ out' = out
      /\ IF r.r = "ASYNC_BLOCKED" THEN chan' = chan ELSE Consume(e)
  BY DEF RetryRead
<1>2. /\ Alive(b) /\ ACTIVE_MESSAGE(b) = m /\ m \in Message /\ m # "APPLICATION_DATA"
      /\ Writer(m) # e
  BY <1>1, Going
<1>3. chan[e] # << >> /\ record.message = WireType(m)
  BY <1>1, <1>2, WaitingWriter
<1>4. cfg \in Configs /\ IsConn(b) /\ PastOf(b, p) /\ Safe(e, cfg, b)
  BY <1>2, OfEndpoint
<1>5. RecordSays(e, cfg, record)
  BY <1>3, ReaderHas
<1>6. r = ReadHandler(cfg[e], b, m, record.body)
  BY <1>2
<1>7. res = IF r.r = "OK" THEN s2n_finish_read(e, x, ACTIVE_MESSAGE(r.c)) ELSE r
  <2> HIDE DEF r
  <2> QED BY DEF Then
<1> HIDE DEF r, res, m, no
<1>8. Taken(e, cfg, b, p, m, r)
  <2>1. m = AtOf(b)
    BY DEF m
  <2> QED BY <1>2, <1>3, <1>4, <1>5, <1>6, <2>1, Reads
<1>9. IsConn(r.c) /\ PastOf(r.c, p)
  BY <1>8 DEF Taken, Kept
<1>10. Same(r.c, x, {"paused"}) /\ x.paused = no
  BY <1>9, PauseSame
<1>11. ~x.paused
  BY <1>10 DEF no
<1> HIDE DEF x
<1>12. Handled(e, cfg, b, p, WireType(m), res)
  <2> DEFINE n == ACTIVE_MESSAGE(r.c)
  <2>1. res = IF r.r = "OK" THEN s2n_finish_read(e, x, n) ELSE r
    BY <1>7
  <2> HIDE DEF n
  <2> QED BY <1>2, <1>8, <1>10, <1>11, <2>1, TakenFinished
<1>13. res.r = "ASYNC_BLOCKED" <=> r.r = "ASYNC_BLOCKED"
  <2>1. CASE r.r # "OK"
    BY <1>7, <2>1
  <2>2. CASE r.r = "OK"
    <3> DEFINE y == Hashed(x, ACTIVE_MESSAGE(r.c))
    <3>1. IsConn(x) /\ PastOf(x, p)
      <4>1. IsConn(x)
        BY <1>10 DEF Same
      <4> QED BY <1>9, <1>10, <4>1, SamePlace
    <3>2. Same(x, y, {})
      BY <3>1, HashedSame
    <3>3. res = FinishMessage(e, y)
      BY <1>7, <2>2 DEF s2n_finish_read
    <3> HIDE DEF y
    <3>4. IsConn(y) /\ PastOf(y, p)
      <4>1. IsConn(y)
        BY <3>2 DEF Same
      <4> QED BY <3>1, <3>2, <4>1, SamePlace
    <3>5. res.r = "OK" \/ res.r = "ERROR"
      BY <3>3, <3>4, FinishSame
    <3> QED BY <2>2, <3>5
  <2> QED BY <2>1, <2>2
<1>14. chan' = [chan EXCEPT ![e] = IF res.r = "ASYNC_BLOCKED" THEN chan[e] ELSE Tail(chan[e])]
  <2>1. chan = [y \in Mode |-> chan[y]]
    BY DEF IInv
  <2>2. CASE res.r = "ASYNC_BLOCKED"
    BY <1>1, <1>13, <2>1, <2>2
  <2>3. CASE res.r # "ASYNC_BLOCKED"
    BY <1>1, <1>13, <2>3 DEF Consume
  <2> QED BY <2>2, <2>3
<1>15. WireType(m) = Head(chan[e]).message /\ Writer(AtOf(conn[e])) # e
  BY <1>2, <1>3 DEF m
<1> QED BY <1>1, <1>2, <1>3, <1>12, <1>14, <1>15, HandledStep

\* A reader at a ChangeCipherSpec can go past it.
LEMMA CcsMoves ==
    ASSUME NEW e \in Mode, NEW k, NEW b, NEW p, PastOf(b, p), Safe(e, k, b), AtOf(b) \in CCS,
           ~b.paused, NEW d, Same(b, d, {}), NEW x, x = s2n_advance_message(e, d),
           NEW s, s = p \o PassedBy(b, x)
    PROVE  IsConn(x) /\ Safe(e, k, x) /\ ~x.paused /\ PastOf(x, s) /\ Grown(p, s, AtOf(b))
<1>1. /\ AtOf(b) \notin {"APPLICATION_DATA", "SERVER_HELLO", "HELLO_RETRY_MSG", "CLIENT_HELLO"}
  BY DEF CCS
<1>2. b.message_number \in Nat /\ b.message_number > 0 /\ ~Opening(b)
  BY <1>1, Inside DEF Opening
<1>3. Movable(e, k, b)
  BY <1>1, <1>2, SafeMovable
<1>4. /\ IsConn(d) /\ AtOf(d) = AtOf(b) /\ PastOf(d, p) /\ d.message_number = b.message_number
      /\ d.handshake_type = b.handshake_type
  <2>1. IsConn(d)
    BY DEF Same
  <2> QED BY <2>1, SamePlace
<1>5. Further(d, x)
  BY <1>4, AdvanceSame DEF Further
<1>6. Inner(d)
  BY <1>1, <1>4 DEF Inner
<1>7. WentOn(d, x, p, s)
  BY <1>4, <1>5, <1>6, FurtherPast
<1>8. PastOf(x, s) /\ Grown(p, s, AtOf(b)) /\ x.message_number > b.message_number
  BY <1>4, <1>7 DEF WentOn
<1>9. x.message_number \in Nat
  BY <1>8, PastLen
<1>10. Same(d, x, {"message_number"})
  BY <1>5 DEF Further
<1>11. /\ IsConn(x) /\ Same(b, x, {"io", "paused", "message_number"}) /\ x.paused = b.paused
  BY <1>10 DEF Same, CoreFields
<1>12. Safe(e, k, x)
  <2>1. CASE e = "C"
    BY <1>2, <1>3, <1>8, <1>9, <1>11, <2>1, ClientMoves DEF Movable, Safe
  <2>2. CASE e = "S"
    BY <1>2, <1>3, <1>8, <1>9, <1>11, <2>2, ServerMoves DEF Movable, Safe
  <2> QED BY <2>1, <2>2 DEF Mode
<1> QED BY <1>8, <1>11, <1>12

\* A reader goes past the ChangeCipherSpec it is at.
LEMMA CcsStep ==
    ASSUME IInv, NEW e \in Mode, Reading(e), cfg' = cfg, out' = out, AtOf(conn[e]) \in CCS,
           NEW d, Same(conn[e], d, {}), Become(e, Ok(s2n_advance_message(e, d))), Consume(e)
    PROVE  IInv'
<1> DEFINE b == conn[e]
           p == passed[e]
           x == s2n_advance_message(e, d)
           s == p \o PassedBy(b, x)
           res == Ok(x)
<1>1. /\ Alive(b) /\ ~b.paused /\ chan[e] # << >> /\ Writer(AtOf(b)) # e
      /\ PastOf(b, p) /\ Safe(e, cfg, b)
  BY ReaderIs
<1>2. IsConn(x) /\ Safe(e, cfg, x) /\ ~x.paused /\ PastOf(x, s) /\ Grown(p, s, AtOf(b))
  BY <1>1, CcsMoves
<1>3. res.r = "OK" /\ res.c = x /\ Become(e, res)
  BY DEF Ok
<1> HIDE DEF x, res
<1>4. conn' = [conn EXCEPT ![e] = x] /\ passed' = [passed EXCEPT ![e] = s]
  BY <1>3, BecomeOk
<1> HIDE DEF s
<1>5. AtOf(b) # Late(cfg)
  BY LateIs
<1>6. chan' = [chan EXCEPT ![e] = Tail(chan[e])]
  BY DEF Consume
<1> QED BY <1>1, <1>2, <1>4, <1>5, <1>6, PastStep

\* A reader stays what it is.
LEMMA StayStep ==
    ASSUME IInv, NEW e \in Mode, Reading(e), cfg' = cfg, out' = out,
           NEW d, Same(conn[e], d, {}), Become(e, Ok(d)), Consume(e)
    PROVE  IInv'
<1> DEFINE res == Ok(d)
           h == Tail(chan[e])
<1>1. ~conn[e].paused /\ chan[e] # << >> /\ PastOf(conn[e], passed[e])
  BY ReaderIs
<1>2. res.r = "OK" /\ res.c = d /\ Become(e, res)
  BY DEF Ok
<1> HIDE DEF res
<1>3. conn' = [conn EXCEPT ![e] = d] /\ passed' = [passed EXCEPT ![e] = passed[e] \o PassedBy(conn[e], d)]
  BY <1>2, BecomeOk
<1>4. d.message_number = conn[e].message_number
  BY DEF Same, CoreFields
<1>5. passed' = [passed EXCEPT ![e] = passed[e]]
  <2>1. passed[e] \o PassedBy(conn[e], d) = passed[e]
    BY <1>1, <1>4, NothingPassed
  <2> QED BY <1>3, <2>1
<1>6. Takes(e, h) /\ chan' = [chan EXCEPT ![e] = h]
  BY <1>1 DEF Takes, Consume
<1> HIDE DEF h
<1> QED BY <1>3, <1>5, <1>6, SteadyStep

\* A reader fails.
LEMMA StopStep ==
    ASSUME IInv, NEW e \in Mode, Reading(e), cfg' = cfg, out' = out,
           NEW d, Same(conn[e], d, {}), Become(e, Fail(d)), Consume(e)
    PROVE  IInv'
<1> DEFINE res == Fail(d)
           h == Tail(chan[e])
<1>1. ~conn[e].paused /\ chan[e] # << >>
  BY ReaderIs
<1>2. Takes(e, h) /\ chan' = [chan EXCEPT ![e] = h]
  BY <1>1 DEF Takes, Consume
<1>3. res = Fail(d) /\ Become(e, res)
  OBVIOUS
<1> HIDE DEF h, res
<1> QED BY <1>2, <1>3, FailStep

\* A ChangeCipherSpec is read: ReadChangeCipherSpec.
LEMMA ReadCcsStep ==
    ASSUME IInv, NEW e \in Mode, ReadChangeCipherSpec(e)
    PROVE  IInv'
<1> DEFINE b == conn[e]
           c == ReceivedConn(e)
           d == s2n_ccs_recv(c)
           old == c.version # S2N_TLS13 \/ cfg[e].quic
<1>1. /\ Reading(e) /\ Consume(e) /\ cfg' = cfg /\ out' = out
  BY DEF ReadChangeCipherSpec
<1>2. Become(e, IF old THEN IF CcsExpected(e, c) THEN Ok(s2n_advance_message(e, d)) ELSE Fail(c)
                ELSE Ok(IF CcsExpected(e, c) THEN s2n_advance_message(e, c) ELSE c))
  BY DEF ReadChangeCipherSpec
<1>3. Same(b, c, {}) /\ PastOf(b, passed[e])
  BY <1>1, ReaderIs
<1> HIDE DEF c, old
<1>4. IsConn(c)
  BY <1>3 DEF Same
<1>5. Same(c, d, {})
  <2> DEFINE x == [c EXCEPT !.r = [epoch |-> "SECURE", seq |-> 0]]
  <2>1. Same(c, x, {}) /\ Same(c, c, {})
    BY <1>4, KeyFieldSame, SameSelf
  <2>2. d \in {c, x}
    BY DEF s2n_ccs_recv
  <2> HIDE DEF x, d
  <2> QED BY <2>1, <2>2
<1> HIDE DEF d
<1>6. Same(b, d, {})
  BY <1>3, <1>5 DEF Same
<1>7. ASSUME CcsExpected(e, c) PROVE AtOf(b) \in CCS
  <2>1. PastOf(c, passed[e]) /\ AtOf(c) = AtOf(b)
    BY <1>3, SamePlace
  <2>2. ACTIVE_MESSAGE(c) = AtOf(b)
    BY <2>1, ActiveIsAt
  <2> QED BY <1>7, <2>2 DEF CcsExpected, RecordType
<1>8. CASE old /\ CcsExpected(e, c)
  <2>1. Become(e, Ok(s2n_advance_message(e, d)))
    BY <1>2, <1>8
  <2> QED BY <1>1, <1>6, <1>7, <1>8, <2>1, CcsStep
<1>9. CASE ~old /\ CcsExpected(e, c)
  <2>1. Become(e, Ok(s2n_advance_message(e, c)))
    BY <1>2, <1>9
  <2> QED BY <1>1, <1>3, <1>7, <1>9, <2>1, CcsStep
<1>10. CASE old /\ ~CcsExpected(e, c)
  <2>1. Become(e, Fail(c))
    BY <1>2, <1>10
  <2> QED BY <1>1, <1>3, <2>1, StopStep
<1>11. CASE ~old /\ ~CcsExpected(e, c)
  <2>1. Become(e, Ok(c))
    BY <1>2, <1>11
  <2> QED BY <1>1, <1>3, <2>1, StayStep
<1> QED BY <1>8, <1>9, <1>10, <1>11

\* Early data is read: ReadEarlyData.
LEMMA ReadEarlyStep ==
    ASSUME IInv, NEW e \in Mode, ReadEarlyData(e)
    PROVE  IInv'
<1> DEFINE c == ReceivedConn(e)
<1>1. /\ Reading(e) /\ Consume(e) /\ cfg' = cfg /\ out' = out
      /\ Become(e, Ok(c)) \/ Become(e, Fail(c))
  BY DEF ReadEarlyData
<1>2. Same(conn[e], c, {})
  BY <1>1, ReaderIs
<1> HIDE DEF c
<1> QED BY <1>1, <1>2, StayStep, StopStep

\* A record that no key opens: ReadUndecryptable.
LEMMA ReadUndecryptableStep ==
    ASSUME IInv, NEW e \in Mode, ReadUndecryptable(e)
    PROVE  IInv'
<1>1. /\ Reading(e) /\ Consume(e) /\ cfg' = cfg /\ out' = out
      /\ Become(e, IF Trial(e) THEN Ok(conn[e]) ELSE Fail(conn[e]))
  BY DEF ReadUndecryptable
<1>2. Same(conn[e], conn[e], {})
  BY <1>1, ReaderIs, SameSelf
<1>3. CASE Trial(e)
  <2>1. Become(e, Ok(conn[e]))
    BY <1>1, <1>3
  <2> QED BY <1>1, <1>2, <2>1, StayStep
<1>4. CASE ~Trial(e)
  <2>1. Become(e, Fail(conn[e]))
    BY <1>1, <1>4
  <2> QED BY <1>1, <1>2, <2>1, StopStep
<1> QED BY <1>3, <1>4

\* The peer is gone: ReadClosed.
LEMMA ReadClosedStep ==
    ASSUME IInv, NEW e \in Mode, ReadClosed(e)
    PROVE  IInv'
<1> DEFINE res == Fail(conn[e])
<1>1. cfg' = cfg /\ out' = out /\ chan' = chan /\ Become(e, res)
  BY DEF ReadClosed
<1>2. Same(conn[e], conn[e], {})
  BY OfEndpoint, SameSelf
<1>3. chan' = [chan EXCEPT ![e] = chan[e]]
  <2>1. chan = [y \in Mode |-> chan[y]]
    BY DEF IInv
  <2> QED BY <1>1, <2>1
<1>4. Takes(e, chan[e]) /\ res = Fail(conn[e])
  BY DEF Takes
<1> HIDE DEF res
<1> QED BY <1>1, <1>2, <1>3, <1>4, FailStep

\* Fields that decide nothing.
LEMMA PlainFieldSame ==
    ASSUME NEW c, IsConn(c), NEW x
    PROVE  /\ Same(c, [c EXCEPT !.client_hello_cb = x], {})
           /\ Same(c, [c EXCEPT !.cache_retrieve = x], {})
           /\ Same(c, [c EXCEPT !.early_data_expected = x], {})
  BY DEF Same, IsConn, ConnFields, CoreFields

\* The private-key operation is done.
LEMMA AsyncDoneSame ==
    ASSUME NEW c, IsConn(c)
    PROVE  Same(c, [c EXCEPT !.async_state = "COMPLETE"], {})
  BY DEF Same, IsConn, ConnFields, CoreFields, AsyncState

\* A step of the application that leaves the endpoint what it was.
LEMMA QuietStep ==
    ASSUME IInv, cfg' = cfg, out' = out, chan' = chan, passed' = passed, NEW e \in Mode,
           NEW c, Same(conn[e], c, {}), conn' = [conn EXCEPT ![e] = c]
    PROVE  IInv'
<1>1. chan = [y \in Mode |-> chan[y]] /\ passed = [y \in Mode |-> passed[y]]
  BY DEF IInv
<1>2. chan' = [chan EXCEPT ![e] = chan[e]] /\ passed' = [passed EXCEPT ![e] = passed[e]]
  BY <1>1
<1>3. Takes(e, chan[e])
  BY DEF Takes
<1> QED BY <1>2, <1>3, SteadyStep

\* The callback has answered: the early data of a server is settled.
LEMMA EarlyAnswered ==
    ASSUME NEW k, NEW b, ServerSafe(k, b), b.early_data_cb = "INVOKED",
           NEW c, Same(b, c, {"early_data_state", "early_data_cb"}),
           c.early_data_cb = "COMPLETE", c.early_data_state \in {"ACCEPTED", "REJECTED"}
    PROVE  ServerSafe(k, c)
<1>1. /\ c.version = b.version /\ c.handshake_type = b.handshake_type
      /\ c.message_number = b.message_number
      /\ c.chosen_psk = b.chosen_psk /\ c.client_hello_received = b.client_hello_received
      /\ c.session_id = b.session_id /\ c.session_ticket_status = b.session_ticket_status
  BY DEF Same, CoreFields
<1>2. (Neg(c) <=> Neg(b)) /\ (Hrr(c) <=> Hrr(b))
  BY <1>1 DEF Neg, Hrr
<1>3. b.chosen_psk /\ b.early_data_state = "REQUESTED"
  BY DEF ServerSafe, ServerOk
<1>4. ServerOk(k, c)
  BY <1>1, <1>2, <1>3 DEF ServerSafe, ServerOk
<1> QED BY <1>1, <1>2, <1>4 DEF ServerSafe, ServerEntered

\* The early data callback answers.
LEMMA EarlyAnswerStep ==
    ASSUME IInv, cfg' = cfg, out' = out, chan' = chan, passed' = passed, NEW e \in Mode,
           Alive(conn[e]), conn[e].early_data_cb = "INVOKED",
           NEW x, x = s2n_connection_set_early_data_state(conn[e], cfg[e].earlyCb).c,
           conn' = [conn EXCEPT ![e] = [x EXCEPT !.early_data_cb = "COMPLETE"]]
    PROVE  IInv'
<1> DEFINE b == conn[e]
           p == passed[e]
           r == s2n_connection_set_early_data_state(b, cfg[e].earlyCb)
           c == [x EXCEPT !.early_data_cb = "COMPLETE"]
<1>1. /\ cfg \in Configs /\ IsConn(b) /\ PastOf(b, p) /\ IsSeq(out[e]) /\ IsSeq(chan[e])
      /\ Safe(e, cfg, b) /\ Waiting(e, b, out[e], chan[e])
  BY OfEndpoint
<1>2. e = "S" /\ ServerSafe(cfg, b)
  BY <1>1 DEF Safe, ClientSafe, ClientOk, Mode
<1>3. cfg["S"].earlyCb # "NONE" /\ b.early_data_state = "REQUESTED"
  BY <1>2 DEF ServerSafe, ServerOk
<1>4. cfg["S"].earlyCb \in {"ACCEPTED", "REJECTED"}
  <2>1. cfg["S"] \in Config
    BY <1>1, NegotiateAssumption DEF Mode
  <2>2. cfg["S"].earlyCb \in {"NONE", "ACCEPTED", "REJECTED"}
    BY <2>1 DEF Config
  <2> QED BY <1>3, <2>2
<1>5. /\ Same(b, x, {"early_data_state"}) /\ x.early_data_state = cfg["S"].earlyCb
  <2> DEFINE next == cfg["S"].earlyCb
  <2>1. next \in {"ACCEPTED", "REJECTED"} /\ r = s2n_connection_set_early_data_state(b, next)
    BY <1>2, <1>4
  <2>2. x = r.c
    OBVIOUS
  <2> HIDE DEF next, r
  <2>3. /\ Same(b, r.c, {"early_data_state"})
        /\ \/ r.r = "OK" /\ r.c.early_data_state = next
           \/ r = Fail(b)
        /\ b.early_data_state = valid_previous_states[next] => r.r = "OK"
    BY <1>1, <2>1, SetEarlySame
  <2>4. valid_previous_states[next] = "REQUESTED"
    BY <2>1 DEF valid_previous_states
  <2> QED BY <1>3, <2>2, <2>3, <2>4 DEF Fail, next
<1>6. IsConn(x)
  BY <1>5 DEF Same
<1>7. Same(x, c, {"early_data_cb"}) /\ c.early_data_cb = "COMPLETE"
  BY <1>6 DEF Same, IsConn, ConnFields, CoreFields
<1>8. conn' = [conn EXCEPT ![e] = c]
  OBVIOUS
<1> HIDE DEF c
<1>9. Same(b, c, {"early_data_state", "early_data_cb"}) /\ c.early_data_state = x.early_data_state
  BY <1>5, <1>7 DEF Same, CoreFields
<1>10. ServerSafe(cfg, c)
  BY <1>2, <1>4, <1>5, <1>7, <1>9, EarlyAnswered
<1>11. PastOf(c, p) /\ AtOf(c) = AtOf(b) /\ Kept(b, c, p)
  BY <1>1, <1>9, SameKept DEF Kept
<1>12. Waiting(e, c, out[e], chan[e])
  BY <1>1, <1>11 DEF Kept, Waiting
<1>13. Endpoint(e, cfg, c, out[e], chan[e], p)
  BY <1>1, <1>2, <1>10, <1>11, <1>12 DEF Endpoint, Kept, Safe
<1>14. Reached(Late(cfg), b, p) => Reached(Late(cfg), c, p)
  BY <1>11 DEF Reached
<1>15. chan' = [chan EXCEPT ![e] = chan[e]] /\ passed' = [passed EXCEPT ![e] = p]
  <2>1. chan = [y \in Mode |-> chan[y]] /\ passed = [y \in Mode |-> passed[y]]
    BY DEF IInv
  <2> QED BY <2>1
<1>16. IInv /\ cfg' = cfg /\ out' = out /\ e \in Mode
  OBVIOUS
<1> QED BY ONLY <1>8, <1>13, <1>14, <1>15, <1>16, StepRead

\* The application answers: Answer.
LEMMA AnswerStep ==
    ASSUME IInv, NEW e \in Mode, Answer(e)
    PROVE  IInv'
<1> DEFINE b == conn[e]
<1>1. cfg' = cfg /\ out' = out /\ chan' = chan /\ passed' = passed /\ Alive(b)
  BY DEF Answer, Alive
<1>2. IsConn(b)
  BY OfEndpoint
<1>3. CASE conn' = [conn EXCEPT ![e].async_state = "COMPLETE"]
  <2> DEFINE c == [b EXCEPT !.async_state = "COMPLETE"]
  <2>1. conn' = [conn EXCEPT ![e] = c] /\ Same(b, c, {})
    BY <1>2, <1>3, AsyncDoneSame
  <2> HIDE DEF c
  <2> QED BY <1>1, <2>1, QuietStep
<1>4. CASE conn' = [conn EXCEPT ![e].client_hello_cb = "COMPLETE"]
  <2> DEFINE c == [b EXCEPT !.client_hello_cb = "COMPLETE"]
  <2>1. conn' = [conn EXCEPT ![e] = c] /\ Same(b, c, {})
    BY <1>2, <1>4, PlainFieldSame
  <2> HIDE DEF c
  <2> QED BY <1>1, <2>1, QuietStep
<1>5. CASE conn' = [conn EXCEPT ![e].cache_retrieve = "COMPLETE"]
  <2> DEFINE c == [b EXCEPT !.cache_retrieve = "COMPLETE"]
  <2>1. conn' = [conn EXCEPT ![e] = c] /\ Same(b, c, {})
    BY <1>2, <1>5, PlainFieldSame
  <2> HIDE DEF c
  <2> QED BY <1>1, <2>1, QuietStep
<1>6. CASE /\ b.early_data_cb = "INVOKED"
           /\ conn' = [conn EXCEPT ![e] =
                 [s2n_connection_set_early_data_state(@, cfg[e].earlyCb).c
                     EXCEPT !.early_data_cb = "COMPLETE"]]
  <2> DEFINE x == s2n_connection_set_early_data_state(b, cfg[e].earlyCb).c
  <2>1. conn' = [conn EXCEPT ![e] = [x EXCEPT !.early_data_cb = "COMPLETE"]]
    BY <1>6
  <2>2. x = s2n_connection_set_early_data_state(conn[e], cfg[e].earlyCb).c
    OBVIOUS
  <2> HIDE DEF x
  <2> QED BY <1>1, <1>6, <2>1, <2>2, EarlyAnswerStep
<1> QED BY <1>3, <1>4, <1>5, <1>6 DEF Answer

\* The client ends its early data: s2n_connection_set_end_of_early_data.
LEMMA EndEarlyStep ==
    ASSUME IInv, NEW e \in Mode, s2n_connection_set_end_of_early_data(e)
    PROVE  IInv'
<1> DEFINE no == FALSE
           c == [conn[e] EXCEPT !.early_data_expected = no]
<1>1. cfg' = cfg /\ out' = out /\ chan' = chan /\ passed' = passed
  BY DEF s2n_connection_set_end_of_early_data
<1>2. conn' = [conn EXCEPT ![e] = c]
  BY DEF s2n_connection_set_end_of_early_data
<1> HIDE DEF no
<1>3. Same(conn[e], c, {})
  BY OfEndpoint, PlainFieldSame
<1> HIDE DEF c
<1> QED BY <1>1, <1>2, <1>3, QuietStep

\* The client sends early data: SendEarlyData.
LEMMA SendEarlyStep ==
    ASSUME IInv, NEW e \in Mode, SendEarlyData(e)
    PROVE  IInv'
<1> DEFINE b == conn[e]
           sealed == s2n_record_write(cfg[e], b, "TLS_APPLICATION_DATA", "0", << >>)
           c == sealed.c
           record == sealed.record
           a == S2N_PEER_MODE(e)
           g == chan[a] \o <<record>>
           p == passed[e]
<1>1. /\ e = "C" /\ cfg' = cfg /\ out' = out /\ passed' = passed
      /\ conn' = [conn EXCEPT ![e] = c]
      /\ chan' = [chan EXCEPT ![a] = Append(@, record)]
  BY DEF SendEarlyData
<1>2. a = "S" /\ a \in Mode /\ a # e
  BY <1>1 DEF S2N_PEER_MODE, Mode
<1>3. /\ IsConn(b) /\ PastOf(b, p) /\ IsSeq(out[e]) /\ IsSeq(chan[e])
      /\ Alive(b) => Safe(e, cfg, b) /\ Waiting(e, b, out[e], chan[e])
      /\ Says(e, cfg, chan[e]) /\ Says(a, cfg, out[e])
      /\ IsSeq(chan[a]) /\ Says(a, cfg, chan[a])
  BY <1>2, OfEndpoint
<1>4. Same(b, c, {}) /\ record.message = "0"
  BY <1>3, RecordSame
<1> HIDE DEF sealed, a
<1>5. IsSeq(<<record>>) /\ Says(a, cfg, <<record>>)
  <2>1. RecordSays(a, cfg, record)
    BY <1>4 DEF RecordSays
  <2>2. IsSeq(<<record>>)
    BY SmallSeq
  <2> QED BY <2>1, <2>2 DEF Says
<1>6. IsSeq(g) /\ Says(a, cfg, g)
  BY <1>3, <1>5, TwoSeqs, SaysSeq
<1>7. chan[a] # << >> => g # << >> /\ Head(g) = Head(chan[a])
  BY <1>3, <1>5, TailOfTwo
<1>8. Append(chan[a], record) = g
  <2> DEFINE S == {chan[a][i] : i \in DOMAIN chan[a]}
  <2>1. chan[a] \in Seq(S)
    BY <1>3 DEF IsSeq
  <2> HIDE DEF S
  <2> QED BY <2>1
<1>9. PastOf(c, p) /\ AtOf(c) = AtOf(b) /\ Kept(b, c, p)
  BY <1>3, <1>4, SameKept DEF Kept
<1> HIDE DEF g
<1>10. Endpoint(e, cfg, c, out[e], chan[e], p)
  <2>1. ASSUME Alive(c) PROVE Safe(e, cfg, c) /\ Waiting(e, c, out[e], chan[e])
    <3>1. Safe(e, cfg, b) /\ Waiting(e, b, out[e], chan[e])
      BY <1>3, <1>9, <2>1 DEF Kept, Alive
    <3>2. Safe(e, cfg, c)
      BY <1>3, <1>4, <3>1, SafeSame
    <3>3. Waiting(e, c, out[e], chan[e])
      BY <1>9, <3>1 DEF Kept, Waiting
    <3> QED BY <3>2, <3>3
  <2> QED BY <1>3, <1>9, <2>1 DEF Endpoint, Kept
<1> HIDE DEF c
<1>11. /\ conn = [y \in Mode |-> conn[y]] /\ chan = [y \in Mode |-> chan[y]]
       /\ passed = [y \in Mode |-> passed[y]] /\ out = [y \in Mode |-> out[y]]
  BY DEF IInv
<1>12. /\ passed' = [passed EXCEPT ![e] = p] /\ out' = [out EXCEPT ![e] = out[e]]
       /\ chan' = [chan EXCEPT ![e] = chan[e], ![a] = g]
  BY <1>1, <1>2, <1>8, <1>11
<1>13. conn'["S"] = conn["S"] /\ chan'["C"] = chan["C"]
  BY <1>1, <1>2, <1>11
<1>14. RequestsInTime(cfg, chan'["C"] \o out'["S"], passed'["C"], conn'["S"], passed'["S"])
  BY <1>1, <1>13 DEF IInv
<1>15. IInv /\ e \in Mode /\ a = S2N_PEER_MODE(e)
  BY DEF a
<1> QED BY ONLY <1>1, <1>3, <1>6, <1>7, <1>10, <1>12, <1>14, <1>15, StepOf

\* A message is written: WriteMessage.
LEMMA WriteMessageStep ==
    ASSUME IInv, NEW e \in Mode, WriteMessage(e)
    PROVE  IInv'
<1> DEFINE m == AtOf(conn[e])
           res == WriteHandler(e, cfg[e], conn[e], m)
<1>1. Negotiating(e) /\ conn[e].io = "WIPED" /\ CONNECTION_IS_WRITER(e, conn[e])
  BY DEF WriteMessage
<1>2. Alive(conn[e]) /\ ACTIVE_MESSAGE(conn[e]) = m /\ Writer(m) = e
  BY <1>1, Going
<1>3. WriteResult(e, res, m) /\ cfg' = cfg /\ chan' = chan
  BY <1>2 DEF WriteMessage
<1>4. out[e] = << >>
  BY <1>1, <1>2, WaitingWriter
<1>5. m = AtOf(conn[e]) /\ res = WriteHandler(e, cfg[e], conn[e], m)
  OBVIOUS
<1> HIDE DEF m, res
<1> QED BY <1>1, <1>2, <1>3, <1>4, <1>5, WriteStep

\* A blocked handler runs again: RetryWrite.
LEMMA RetryWriteStep ==
    ASSUME IInv, NEW e \in Mode, RetryWrite(e)
    PROVE  IInv'
<1> DEFINE m == AtOf(conn[e])
           res == WriteHandler(e, cfg[e], conn[e], m)
<1>1. Negotiating(e) /\ conn[e].paused /\ CONNECTION_IS_WRITER(e, conn[e])
  BY DEF RetryWrite
<1>2. Alive(conn[e]) /\ ACTIVE_MESSAGE(conn[e]) = m /\ Writer(m) = e
  BY <1>1, Going
<1>3. WriteResult(e, res, m) /\ cfg' = cfg /\ chan' = chan
  BY <1>2 DEF RetryWrite
<1>4. out[e] = << >> /\ m \in Signed
  BY <1>1, <1>2, WaitingWriter
<1>5. conn[e].message_number > 0
  <2>1. PastOf(conn[e], passed[e])
    BY OfEndpoint
  <2> QED BY <1>4, <2>1, Inside DEF Signed
<1>6. conn[e].message_number = 0 => conn[e].io = "WIPED"
  BY <1>5
<1>7. m = AtOf(conn[e]) /\ res = WriteHandler(e, cfg[e], conn[e], m)
  OBVIOUS
<1> HIDE DEF m, res
<1> QED BY <1>2, <1>3, <1>4, <1>6, <1>7, WriteStep

----------------------------------------------------------------------------
(***************************************************************************)
(* The theorem.                                                            *)
(***************************************************************************)

\* A new connection.
LEMMA NewIs ==
    ASSUME NEW k \in Configs, NEW e \in Mode, NEW c, c = NewConnection(e, k[e])
    PROVE  IsConn(c) /\ PastOf(c, << >>) /\ Safe(e, k, c) /\ ~c.paused
<1>1. IsConn(c)
  BY DEF NewConnection, IsConn, ConnFields, AsyncState
<1>2. c.message_number = 0 /\ c.handshake_type = {} /\ ~c.paused /\ c.io = "WIPED"
  BY DEF NewConnection
<1>3. Defined(c.version, {})
  BY DEF NewConnection, Defined, Tls12Type, Tls13Type
<1>4. PastOf(c, << >>)
  <2> DEFINE O == Order(c.version, c.handshake_type)
  <2>1. O \in Seq(Message) /\ Len(O) > 1
    BY OrderSeq, HelloStarts DEF HelloEnd
  <2> HIDE DEF O
  <2>2. SubSeq(O, 1, 0) = << >>
    BY <2>1
  <2> QED BY <1>2, <1>3, <2>1, <2>2 DEF PastOf, Past, O
<1>5. ~Neg(c) /\ ~Hrr(c)
  BY <1>2 DEF Neg, Hrr
<1>6. CASE e = "C"
  <2>1. /\ c.version = IF Resumable(k) THEN S2N_TLS12 ELSE S2N_TLS13
        /\ c.early_data_state = "UNKNOWN" /\ c.early_data_cb = "NOT_INVOKED"
        /\ c.session_ticket_status = "NO_TICKET" /\ c.client_session_resumed = FALSE
        /\ c.session_id = IF k["C"].session = "CACHE" THEN "SESSION" ELSE "EMPTY"
    BY <1>6 DEF NewConnection, Resumable
  <2>2. Opening(c)
    BY <1>2 DEF Opening
  <2>3. ClientUntyped(k, c)
    BY <1>2, <2>1, <2>2 DEF ClientUntyped
  <2>4. ClientSafe(k, c)
    BY <1>5, <2>1, <2>3 DEF ClientSafe, ClientOk, ClientEntered, Version
  <2> QED BY <1>1, <1>2, <1>4, <1>6, <2>4 DEF Safe
<1>7. CASE e = "S"
  <2>1. /\ c.version = S2N_UNKNOWN_PROTOCOL_VERSION
        /\ c.early_data_state = "UNKNOWN" /\ c.early_data_cb = "NOT_INVOKED"
        /\ c.session_ticket_status = "NO_TICKET" /\ c.client_hello_received = FALSE
        /\ c.session_id = "EMPTY"
    BY <1>7 DEF NewConnection
  <2>2. ServerSafe(k, c)
    BY <1>2, <1>5, <2>1 DEF ServerSafe, ServerOk, ServerEntered
  <2> QED BY <1>1, <1>2, <1>4, <1>7, <2>2 DEF Safe
<1> QED BY <1>6, <1>7 DEF Mode

\* Where the negotiation starts.
LEMMA Starts ==
    ASSUME Init
    PROVE  IInv
<1>1. /\ cfg \in Configs /\ conn = [e \in Mode |-> NewConnection(e, cfg[e])]
      /\ out = [e \in Mode |-> << >>] /\ chan = [e \in Mode |-> << >>]
      /\ passed = [e \in Mode |-> << >>]
  BY DEF Init
<1>2. ASSUME NEW e \in Mode
      PROVE  /\ Endpoint(e, cfg, conn[e], out[e], chan[e], passed[e])
             /\ Says(e, cfg, chan[e]) /\ Says(S2N_PEER_MODE(e), cfg, out[e])
  <2>1. conn[e] = NewConnection(e, cfg[e])
    BY <1>1
  <2>2. out[e] = << >> /\ chan[e] = << >> /\ passed[e] = << >>
    BY <1>1
  <2>3. IsConn(conn[e]) /\ PastOf(conn[e], << >>) /\ Safe(e, cfg, conn[e]) /\ ~conn[e].paused
    BY <1>1, <2>1, NewIs
  <2>4. Endpoint(e, cfg, conn[e], << >>, << >>, << >>)
    BY <2>3, SmallSeq, FreeEndpoint
  <2> QED BY <2>2, <2>4 DEF Says
<1>3. RequestsInTime(cfg, chan["C"] \o out["S"], passed["C"], conn["S"], passed["S"])
  <2>1. chan["C"] = << >> /\ out["S"] = << >> /\ passed["C"] = << >>
    BY <1>1 DEF Mode
  <2>2. << >> \o << >> = << >>
    BY SmallSeq, TailOfTwo
  <2>3. chan["C"] \o out["S"] = << >>
    BY <2>1, <2>2
  <2> QED BY <2>1, <2>3 DEF RequestsInTime, Requests, Has
<1> QED BY <1>1, <1>2, <1>3 DEF IInv

\* Every step keeps the invariant.
LEMMA Steps ==
    ASSUME IInv, [Next]_vars
    PROVE  IInv'
<1>1. ASSUME NEW e \in Mode, System(e) PROVE IInv'
  <2>1. CASE Write(e)
    BY <2>1, WriteMessageStep, FlushStep DEF Write
  <2>2. CASE Read(e)
    BY <2>2, ReadHandshakeStep, ReadCcsStep, ReadEarlyStep, ReadUndecryptableStep, ReadClosedStep
       DEF Read
  <2>3. CASE Retry(e)
    BY <2>3, RetryWriteStep, RetryReadStep DEF Retry
  <2>4. CASE Answer(e)
    BY <2>4, AnswerStep
  <2> QED BY <1>1, <2>1, <2>2, <2>3, <2>4 DEF System
<1>2. ASSUME NEW e \in Mode, SendEarlyData(e) PROVE IInv'
  BY <1>2, SendEarlyStep
<1>3. ASSUME NEW e \in Mode, s2n_connection_set_end_of_early_data(e) PROVE IInv'
  BY <1>3, EndEarlyStep
<1>4. CASE UNCHANGED vars
  BY <1>4 DEF vars, IInv
<1> QED BY <1>1, <1>2, <1>3, <1>4 DEF Next

\* What is said of the past follows from the invariant.
LEMMA PastIsKept ==
    ASSUME IInv
    PROVE  NoRewritingThePast
<1>1. ASSUME NEW e \in Mode PROVE PastOf(conn[e], passed[e])
  BY OfEndpoint
<1>2. ASSUME NEW e \in Mode
      PROVE  /\ Defined(conn[e].version, conn[e].handshake_type)
             /\ conn[e].message_number <= Len(Order(conn[e].version, conn[e].handshake_type))
             /\ passed[e] = SubSeq(Order(conn[e].version, conn[e].handshake_type), 1,
                                   conn[e].message_number)
  <2> DEFINE O == Order(conn[e].version, conn[e].handshake_type)
  <2>1. /\ Defined(conn[e].version, conn[e].handshake_type)
        /\ conn[e].message_number \in Nat /\ conn[e].message_number < Len(O)
        /\ passed[e] = SubSeq(O, 1, conn[e].message_number)
    BY <1>1 DEF PastOf, Past
  <2>2. O \in Seq(Message)
    BY OrderSeq
  <2> HIDE DEF O
  <2>3. conn[e].message_number <= Len(O)
    BY <2>1, <2>2
  <2> QED BY <2>1, <2>3 DEF O
<1> QED BY <1>2 DEF NoRewritingThePast

\* Whatever the two configurations, and however the two sides, the socket, the
\* asynchronous answers and the early data interleave: every handshake type that
\* s2n_negotiate computes, recomputes after a HelloRetryRequest or adjusts to a
\* message has an entry in its table, and none of them replaces a message that
\* the connection has already gone past.
THEOREM PastIsNeverRewritten == Spec => []NoRewritingThePast
<1>1. Init => IInv
  BY Starts
<1>2. IInv /\ [Next]_vars => IInv'
  BY Steps
<1>3. IInv => NoRewritingThePast
  BY PastIsKept
<1> QED BY <1>1, <1>2, <1>3, PTL DEF Spec
=============================================================================
