--------------------------- MODULE HandshakeTypes ---------------------------
(***************************************************************************)
(* The constant tables of tls/s2n_handshake_io.c and tls/s2n_handshake.h:  *)
(* the handshake messages, who writes each, what it looks like on the      *)
(* wire, and which order of messages every handshake type stands for.      *)
(*                                                                         *)
(* handshake_type is a bit mask in the code; here it is the set of its     *)
(* flags.  The bits 16, 32 and 64 mean different things before and from    *)
(* TLS 1.3; the two readings keep their own names, and no connection mixes *)
(* them because the set_tls12_flag / set_tls13_flag guards refuse it.      *)
(***************************************************************************)
EXTENDS Naturals, Sequences

Mode == {"C", "S"}                  \* S2N_CLIENT, S2N_SERVER

S2N_PEER_MODE(m) == IF m = "C" THEN "S" ELSE "C"

S2N_UNKNOWN_PROTOCOL_VERSION == 0
S2N_TLS12 == 33
S2N_TLS13 == 34

Version == {S2N_TLS12, S2N_TLS13}

(***************************************************************************)
(* Flags that affect the order of messages.                                *)
(***************************************************************************)
CommonFlag == {"NEGOTIATED", "FULL_HANDSHAKE", "CLIENT_AUTH", "NO_CLIENT_CERT"}
Tls12Flag  == {"TLS12_PERFECT_FORWARD_SECRECY", "OCSP_STATUS", "WITH_SESSION_TICKET"}
Tls13Flag  == {"HELLO_RETRY_REQUEST", "MIDDLEBOX_COMPAT", "WITH_EARLY_DATA",
               "EARLY_CLIENT_CCS"}
Flag == CommonFlag \cup Tls12Flag \cup Tls13Flag

ServerMessage == {"SERVER_HELLO", "SERVER_CERT", "SERVER_NEW_SESSION_TICKET",
                  "SERVER_CERT_STATUS", "SERVER_KEY", "SERVER_CERT_REQ",
                  "SERVER_HELLO_DONE", "SERVER_CHANGE_CIPHER_SPEC",
                  "SERVER_FINISHED", "ENCRYPTED_EXTENSIONS",
                  "SERVER_CERT_VERIFY", "HELLO_RETRY_MSG"}
ClientMessage == {"CLIENT_HELLO", "CLIENT_CERT", "CLIENT_KEY",
                  "CLIENT_CERT_VERIFY", "CLIENT_CHANGE_CIPHER_SPEC",
                  "CLIENT_FINISHED", "END_OF_EARLY_DATA"}

\* message_type_t: the messages of the two state machines.
Message == ServerMessage \cup ClientMessage \cup {"APPLICATION_DATA"}

\* state_machine[m].writer; "B" marks the end of the handshake.
Writer(m) == IF m \in ServerMessage THEN "S"
             ELSE IF m \in ClientMessage THEN "C" ELSE "B"

CCS == {"CLIENT_CHANGE_CIPHER_SPEC", "SERVER_CHANGE_CIPHER_SPEC"}

\* state_machine[m].record_type.
RecordType(m) == IF m \in CCS THEN "TLS_CHANGE_CIPHER_SPEC"
                 ELSE IF m = "APPLICATION_DATA" THEN "TLS_APPLICATION_DATA"
                 ELSE "TLS_HANDSHAKE"

(***************************************************************************)
(* state_machine[m].message_type: what the reader can tell apart on the    *)
(* wire.  A HelloRetryRequest travels as a ServerHello; the certificate,   *)
(* certificate-verify and finished messages of the two sides share a code. *)
(* Messages of the other record types have the code 0.                     *)
(***************************************************************************)
WireType(m) ==
    CASE m \in {"SERVER_HELLO", "HELLO_RETRY_MSG"}          -> "TLS_SERVER_HELLO"
      [] m \in {"SERVER_CERT", "CLIENT_CERT"}               -> "TLS_CERTIFICATE"
      [] m \in {"SERVER_CERT_VERIFY", "CLIENT_CERT_VERIFY"} -> "TLS_CERT_VERIFY"
      [] m \in {"SERVER_FINISHED", "CLIENT_FINISHED"}       -> "TLS_FINISHED"
      [] RecordType(m) # "TLS_HANDSHAKE"                    -> "0"
      [] OTHER                                              -> m

(***************************************************************************)
(* The two handshake tables.  Opt(b, s) is the part s of an order that is  *)
(* present only when b.                                                    *)
(***************************************************************************)
Opt(b, s) == IF b THEN s ELSE << >>

\* handshakes[t]: every order of messages before TLS 1.3.
Tls12Order(t) ==
    LET auth   == "CLIENT_AUTH" \in t
        ticket == Opt("WITH_SESSION_TICKET" \in t, <<"SERVER_NEW_SESSION_TICKET">>)
    IN  IF "NEGOTIATED" \notin t
        THEN <<"CLIENT_HELLO", "SERVER_HELLO">>
        ELSE IF "FULL_HANDSHAKE" \notin t
        THEN <<"CLIENT_HELLO", "SERVER_HELLO">> \o ticket
             \o <<"SERVER_CHANGE_CIPHER_SPEC", "SERVER_FINISHED",
                  "CLIENT_CHANGE_CIPHER_SPEC", "CLIENT_FINISHED", "APPLICATION_DATA">>
        ELSE <<"CLIENT_HELLO", "SERVER_HELLO", "SERVER_CERT">>
             \o Opt("OCSP_STATUS" \in t, <<"SERVER_CERT_STATUS">>)
             \o Opt("TLS12_PERFECT_FORWARD_SECRECY" \in t, <<"SERVER_KEY">>)
             \o Opt(auth, <<"SERVER_CERT_REQ">>) \o <<"SERVER_HELLO_DONE">>
             \o Opt(auth, <<"CLIENT_CERT">>) \o <<"CLIENT_KEY">>
             \o Opt(auth /\ "NO_CLIENT_CERT" \notin t, <<"CLIENT_CERT_VERIFY">>)
             \o <<"CLIENT_CHANGE_CIPHER_SPEC", "CLIENT_FINISHED">> \o ticket
             \o <<"SERVER_CHANGE_CIPHER_SPEC", "SERVER_FINISHED", "APPLICATION_DATA">>

\* tls13_handshakes[t]: every order of messages of TLS 1.3.
Tls13Order(t) ==
    LET hrr   == "HELLO_RETRY_REQUEST" \in t
        compat == "MIDDLEBOX_COMPAT" \in t
        early == "EARLY_CLIENT_CCS" \in t
        auth  == "CLIENT_AUTH" \in t
        sccs  == Opt(compat, <<"SERVER_CHANGE_CIPHER_SPEC">>)
        cccs  == Opt(compat /\ ~early, <<"CLIENT_CHANGE_CIPHER_SPEC">>)
        hello == <<"CLIENT_HELLO">> \o Opt(early, <<"CLIENT_CHANGE_CIPHER_SPEC">>)
    IN  IF "NEGOTIATED" \notin t
        THEN hello \o IF hrr THEN <<"HELLO_RETRY_MSG">> ELSE <<"SERVER_HELLO">>
        ELSE hello
             \o (IF hrr THEN <<"HELLO_RETRY_MSG">> \o sccs \o cccs
                             \o <<"CLIENT_HELLO", "SERVER_HELLO">>
                        ELSE <<"SERVER_HELLO">> \o sccs)
             \o <<"ENCRYPTED_EXTENSIONS">> \o Opt(auth, <<"SERVER_CERT_REQ">>)
             \o Opt("FULL_HANDSHAKE" \in t, <<"SERVER_CERT", "SERVER_CERT_VERIFY">>)
             \o <<"SERVER_FINISHED">> \o Opt(~hrr, cccs)
             \o Opt("WITH_EARLY_DATA" \in t, <<"END_OF_EARLY_DATA">>)
             \o Opt(auth, <<"CLIENT_CERT">>)
             \o Opt(auth /\ "NO_CLIENT_CERT" \notin t, <<"CLIENT_CERT_VERIFY">>)
             \o <<"CLIENT_FINISHED", "APPLICATION_DATA">>

\* The handshake types with an entry in handshakes[].
Tls12Type(t) ==
    /\ t \subseteq CommonFlag \cup Tls12Flag
    /\ t # {} => "NEGOTIATED" \in t
    /\ "NO_CLIENT_CERT" \in t => "CLIENT_AUTH" \in t
    /\ "FULL_HANDSHAKE" \notin t => t \subseteq {"NEGOTIATED", "WITH_SESSION_TICKET"}

\* The handshake types with an entry in tls13_handshakes[].
Tls13Type(t) ==
    /\ t \subseteq CommonFlag \cup Tls13Flag
    /\ "EARLY_CLIENT_CCS" \in t => "MIDDLEBOX_COMPAT" \in t
    /\ "NEGOTIATED" \notin t =>
          /\ t \subseteq {"HELLO_RETRY_REQUEST", "MIDDLEBOX_COMPAT", "EARLY_CLIENT_CCS"}
          /\ "MIDDLEBOX_COMPAT" \in t => "EARLY_CLIENT_CCS" \in t
    /\ "CLIENT_AUTH" \in t => "FULL_HANDSHAKE" \in t
    /\ "NO_CLIENT_CERT" \in t => "CLIENT_AUTH" \in t
    /\ "WITH_EARLY_DATA" \in t => t \cap {"FULL_HANDSHAKE", "HELLO_RETRY_REQUEST"} = {}

\* ACTIVE_HANDSHAKES(conn)[t]
Order(version, t) == IF version = S2N_TLS13 THEN Tls13Order(t) ELSE Tls12Order(t)

Defined(version, t) == IF version = S2N_TLS13 THEN Tls13Type(t) ELSE Tls12Type(t)

(***************************************************************************)
(* ACTIVE_MESSAGE(conn): the entry n (counted from 0) of the order in      *)
(* force.  The tables are statically allocated, so an entry nobody wrote   *)
(* holds 0, which is CLIENT_HELLO.                                         *)
(***************************************************************************)
ActiveMessage(version, t, n) ==
    IF Defined(version, t) /\ n < Len(Order(version, t))
    THEN Order(version, t)[n + 1]
    ELSE "CLIENT_HELLO"

=============================================================================
