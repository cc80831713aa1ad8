----------------------------- MODULE TicketKeys -----------------------------
(***************************************************************************)
(* The keys that protect session tickets and cached sessions of a server   *)
(* (s2n_config.c, s2n_resume.c): added by the application, used to         *)
(* encrypt, then only to decrypt, then wiped, while connections that share *)
(* the config present the tickets they were given.                         *)
(*                                                                         *)
(* A connection does not hold the config between two of its steps: keys    *)
(* are added, expire and are freed there.  The wall clock is read several  *)
(* times in one call and may advance between two readings.                 *)
(*                                                                         *)
(* A NULL set of keys and an empty one behave alike.  The lifetime of a    *)
(* session is at least that of its key, as by default (15 hours both).     *)
(***************************************************************************)
EXTENDS Integers, Sequences, FiniteSets, SequencesExt

CONSTANTS
    Conn,                         \* connections of servers with this config
    Name,                         \* names of keys
    Material,                     \* key bytes, as the hash identifies them
    encrypt_decrypt_key_lifetime, \* in ticks of the clock
    decrypt_key_lifetime,
    S2N_MAX_TICKET_KEYS,
    S2N_MAX_TICKET_KEY_HASHES,
    Intro,                        \* introduction times in use, 0 for none given
    MaxTime,                      \* bound: the last reading of the clock
    MaxIssued                     \* bound: tickets the clients remember

\* Lifetimes are whole seconds kept in nanoseconds, so half of one is exact.
ASSUME TicketKeysAssumption ==
    /\ encrypt_decrypt_key_lifetime \in Nat \ {0}
    /\ encrypt_decrypt_key_lifetime % 2 = 0
    /\ decrypt_key_lifetime \in Nat
    /\ S2N_MAX_TICKET_KEYS \in Nat \ {0}
    /\ S2N_MAX_TICKET_KEY_HASHES \in Nat
    /\ S2N_MAX_TICKET_KEY_HASHES > S2N_MAX_TICKET_KEYS
    /\ MaxTime \in Nat \ {0}
    /\ Intro \subseteq 0 .. MaxTime
    /\ MaxIssued \in Nat

VARIABLES
    now,                \* wall_clock
    use_tickets,
    use_session_cache,
    ticket_keys,        \* sequence of keys
    ticket_key_hashes,  \* every key ever added
    issued,             \* tickets and cache entries in circulation
    conn                \* connections

config == <<use_tickets, use_session_cache, ticket_keys, ticket_key_hashes>>
vars == <<now, use_tickets, use_session_cache, ticket_keys, ticket_key_hashes, issued, conn>>

Time == 1 .. MaxTime
Never == 0
Version == {"TLS12", "TLS13"}

TicketKey == [name : Name, key : Material, intro : Time]

\* A ticket: the key that encrypted it, and whether the config still has to
\* know that key (it is lost when the keys are freed).
Ticket == [by : TicketKey, version : Version, lost : BOOLEAN]

NoKey == [name |-> "NONE"]
NoTicket == [version |-> "NONE"]

\* Where a connection is; resumed; whether it had to resume (`due`); and when
\* it promised the client a ticket (`promise`).
ConnState == [at : {"START", "KEY_EXCHANGE", "NST", "NST_TLS13", "DONE", "FAILED"},
              version : Version, nst : BOOLEAN, resumed : BOOLEAN, due : BOOLEAN,
              promise : Time \cup {Never}]

Fresh == [at |-> "START", version |-> "TLS12", nst |-> FALSE, resumed |-> FALSE,
          due |-> FALSE, promise |-> Never]

\* Three readings of the clock in one call: it may advance before any of them.
Readings == {t \in {now, now + 1} \X {now, now + 1} \X {now, now + 1} :
               t[1] <= t[2] /\ t[2] <= t[3] /\ t[3] <= MaxTime}

----------------------------------------------------------------------------
(***************************************************************************)
(* The set of keys, sorted by introduction (utils/s2n_set.c).              *)
(***************************************************************************)

\* Mutant: the half that is kept is the wrong one.
BinarySearch_Swapped(keys, k) ==
    LET search[r \in (0 .. Len(keys)) \X (-1 .. Len(keys) - 1)] ==
          LET low == r[1]
              top == r[2]
              mid == low + (top - low) \div 2
          IN  IF low > top THEN low
              ELSE IF keys[mid + 1].intro >= k.intro THEN search[<<mid + 1, top>>]
              ELSE search[<<low, mid - 1>>]
    IN  search[<<0, Len(keys) - 1>>]

\* The index, from 0, to insert at.  The comparator never finds two equal.
s2n_set_binary_search(keys, k) ==
    LET search[r \in (0 .. Len(keys)) \X (-1 .. Len(keys) - 1)] ==
          LET low == r[1]
              top == r[2]
              mid == low + (top - low) \div 2
          IN  IF low > top THEN low
              ELSE IF keys[mid + 1].intro >= k.intro THEN search[<<low, mid - 1>>]
              ELSE search[<<mid + 1, top>>]
    IN  search[<<0, Len(keys) - 1>>]

s2n_config_store_ticket_key(keys, k) ==
    InsertAt(keys, s2n_set_binary_search(keys, k) + 1, k)

EncryptEnd(k) == k.intro + encrypt_decrypt_key_lifetime
Expiry(k) == k.intro + encrypt_decrypt_key_lifetime + decrypt_key_lifetime

\* Mutant: a key that no longer encrypts is taken for expired.
WipeExpired_DecryptOnly(keys, t) == SelectSeq(keys, LAMBDA k : t < EncryptEnd(k))

\* All expired keys: their indices first, then one removal after the other, by
\* an index that counts those before it.
ExpiredIndices(keys, t) ==
    LET collect[i \in 0 .. Len(keys)] ==
          IF i = 0 THEN << >>
          ELSE IF t >= Expiry(keys[i]) THEN Append(collect[i - 1], i)
          ELSE collect[i - 1]
    IN  collect[Len(keys)]

s2n_config_wipe_expired_ticket_crypto_keys(keys, t) ==
    LET expired == ExpiredIndices(keys, t)
        wipe[j \in 0 .. Len(expired)] ==
          IF j = 0 THEN keys ELSE RemoveAt(wipe[j - 1], expired[j] - (j - 1))
    IN  wipe[Len(expired)]

\* The first key of that name, unless it has expired: then it is wiped.
s2n_find_ticket_key(keys, name, t) ==
    LET i == SelectInSeq(keys, LAMBDA k : k.name = name)
    IN  IF i = 0 THEN [key |-> NoKey, keys |-> keys]
        ELSE IF t >= Expiry(keys[i]) THEN [key |-> NoKey, keys |-> RemoveAt(keys, i)]
        ELSE [key |-> keys[i], keys |-> keys]

----------------------------------------------------------------------------
(***************************************************************************)
(* The key that encrypts.                                                  *)
(***************************************************************************)

Usable(k, t) == k.intro < t /\ t < EncryptEnd(k)

\* Mutant: a key may be counted on from the moment it is introduced.
KeyAvailable_AtOnce(keys, t) ==
    \E i \in DOMAIN keys : keys[i].intro <= t /\ t < EncryptEnd(keys[i])

s2n_config_is_encrypt_decrypt_key_available(keys, t) ==
    \E i \in DOMAIN keys : Usable(keys[i], t)

\* Rises to the middle of the encryption time and falls to its end.
Weight(k, t) ==
    LET peak == k.intro + encrypt_decrypt_key_lifetime \div 2
    IN  IF t < peak THEN t - k.intro
        ELSE encrypt_decrypt_key_lifetime \div 2 - (t - peak)

\* The keys a draw can pick: any that weighs something, or the only one.
s2n_get_ticket_encrypt_decrypt_key(keys, t) ==
    LET usable == {i \in DOMAIN keys : Usable(keys[i], t)}
    IN  {keys[i] : i \in {j \in usable : Weight(keys[j], t) > 0 \/ usable = {j}}}

\* One more ticket in circulation, or none if there is no key to encrypt it.
\* Clients forget tickets.
Encrypt(version) ==
    LET keys == s2n_get_ticket_encrypt_decrypt_key(ticket_keys, now)
    IN  \/ \E k \in keys :
             /\ issued' \in SUBSET (issued \cup {[by |-> k, version |-> version, lost |-> FALSE]})
             /\ Cardinality(issued') <= MaxIssued
        \/ keys = {} /\ UNCHANGED issued

----------------------------------------------------------------------------
(***************************************************************************)
(* The application configures.                                             *)
(***************************************************************************)
Init ==
    /\ now = 1
    /\ use_tickets = FALSE
    /\ use_session_cache = FALSE
    /\ ticket_keys = << >>
    /\ ticket_key_hashes = {}
    /\ issued = {}
    /\ conn = [c \in Conn |-> Fresh]

Tick ==
    /\ now < MaxTime
    /\ now' = now + 1
    /\ UNCHANGED <<config, issued, conn>>

\* Nothing is left that could open what was encrypted, or keep a promise.
s2n_config_free_session_ticket_keys ==
    /\ ticket_keys' = << >>
    /\ ticket_key_hashes' = {}
    /\ issued' = {[t EXCEPT !.lost = TRUE] : t \in issued}
    /\ conn' = [c \in Conn |-> [conn[c] EXCEPT !.promise = Never]]

KeepOrFree(keep) ==
    \/ keep /\ UNCHANGED <<ticket_keys, ticket_key_hashes, issued, conn>>
    \/ ~keep /\ s2n_config_free_session_ticket_keys

s2n_config_set_session_tickets_onoff(enabled) ==
    /\ use_tickets # enabled
    /\ use_tickets' = enabled
    /\ KeepOrFree(enabled \/ use_session_cache)
    /\ UNCHANGED <<now, use_session_cache>>

s2n_config_set_session_cache_onoff(enabled) ==
    /\ use_session_cache' = enabled
    /\ KeepOrFree(enabled \/ use_tickets)
    /\ UNCHANGED <<now, use_tickets>>

\* The hashes a new key is compared with.
Hashes(keys) == IF Len(keys) >= S2N_MAX_TICKET_KEY_HASHES THEN {} ELSE ticket_key_hashes

\* Without an introduction time it is now.
IntroTimestamp(intro, t) == IF intro = Never THEN t ELSE intro

\* What expired is wiped even if the key is then refused: too many keys, a name
\* in use, a key added before.
s2n_config_add_ticket_crypto_key(name, key, intro) ==
    /\ use_tickets \/ use_session_cache
    /\ \E t \in Readings :
          LET wiped == s2n_config_wipe_expired_ticket_crypto_keys(ticket_keys, t[1])
              found == s2n_find_ticket_key(wiped, name, t[2])
              hashes == Hashes(found.keys)
              new == [name |-> name, key |-> key, intro |-> IntroTimestamp(intro, t[3])]
          IN  \/ /\ Len(wiped) >= S2N_MAX_TICKET_KEYS
                 /\ ticket_keys' = wiped
                 /\ now' = t[1]
                 /\ UNCHANGED ticket_key_hashes
              \/ /\ Len(wiped) < S2N_MAX_TICKET_KEYS
                 /\ found.key # NoKey \/ key \in hashes
                 /\ ticket_keys' = found.keys
                 /\ ticket_key_hashes' = IF found.key # NoKey THEN ticket_key_hashes ELSE hashes
                 /\ now' = t[2]
              \/ /\ Len(wiped) < S2N_MAX_TICKET_KEYS
                 /\ found.key = NoKey /\ key \notin hashes
                 /\ ticket_keys' = s2n_config_store_ticket_key(found.keys, new)
                 /\ ticket_key_hashes' = hashes \cup {key}
                 /\ now' = t[3]
    /\ UNCHANGED <<use_tickets, use_session_cache, issued, conn>>

----------------------------------------------------------------------------
(***************************************************************************)
(* Connections.  `offer` is the ticket the client presents or, for the     *)
(* session cache, the entry the cache returns; the cipher decrypts only    *)
(* under the key that encrypted.                                           *)
(***************************************************************************)

\* The session of `offer`, if the key is known.
Opens(found, offer) == found.key # NoKey /\ found.key.key = offer.by.key

\* An offer that has to be honoured at time t.
Due(offer, t) == ~offer.lost /\ t < Expiry(offer.by)

Hello(c, version, nst, resumed, due, t) ==
    conn' = [conn EXCEPT ![c] =
        [at |-> IF version = "TLS13" THEN "NST_TLS13"
                ELSE IF ~resumed THEN "KEY_EXCHANGE" ELSE IF nst THEN "NST" ELSE "DONE",
         version |-> version, nst |-> nst, resumed |-> resumed, due |-> due,
         promise |-> IF version = "TLS12" /\ nst THEN t ELSE Never]]

\* A TLS 1.2 client with a ticket: s2n_client_session_ticket_recv, then
\* s2n_decrypt_session_ticket.  The ticket is renewed if its key no longer
\* encrypts and another does; one that does not open gives a full handshake
\* and a new ticket.
HelloWithTicket(c, offer) ==
    /\ conn[c].at = "START"
    /\ use_tickets
    /\ offer.version = "TLS12"
    /\ \E t \in Readings :
          LET found == s2n_find_ticket_key(ticket_keys, offer.by.name, t[1])
              opens == Opens(found, offer)
              nst == /\ opens => t[2] >= EncryptEnd(found.key)
                     /\ s2n_config_is_encrypt_decrypt_key_available(found.keys, t[3])
          IN  /\ ticket_keys' = found.keys
              /\ Hello(c, "TLS12", nst, opens, Due(offer, t[1]), t[3])
              /\ now' = t[3]
    /\ UNCHANGED <<use_tickets, use_session_cache, ticket_key_hashes, issued>>

\* A TLS 1.2 client without one, or whose ticket is ignored: a new ticket if
\* the client can take one (`asks`), and the session cache.
HelloWithoutTicket(c, asks, entry) ==
    /\ conn[c].at = "START"
    /\ entry # NoTicket => use_session_cache /\ entry.version = "TLS12"
    /\ \E t \in Readings :
          LET nst == /\ use_tickets /\ asks
                     /\ s2n_config_is_encrypt_decrypt_key_available(ticket_keys, t[1])
              found == s2n_find_ticket_key(ticket_keys, entry.by.name, t[2])
          IN  \/ /\ entry = NoTicket
                 /\ Hello(c, "TLS12", nst, FALSE, FALSE, t[1])
                 /\ now' = t[1]
                 /\ UNCHANGED ticket_keys
              \/ /\ entry # NoTicket
                 /\ ticket_keys' = found.keys
                 /\ Hello(c, "TLS12", nst, Opens(found, entry), Due(entry, t[2]), t[1])
                 /\ now' = t[2]
    /\ UNCHANGED <<use_tickets, use_session_cache, ticket_key_hashes, issued>>

\* A TLS 1.3 client: s2n_offered_psk_list_choose_psk.  To renew, the ticket
\* needs a flag of the handshake type that only TLS 1.2 has: it is refused.
HelloTls13(c, offer) ==
    /\ conn[c].at = "START"
    /\ offer # NoTicket => offer.version = "TLS13"
    /\ \E t \in Readings :
          LET found == s2n_find_ticket_key(ticket_keys, offer.by.name, t[1])
              renew == /\ t[2] >= EncryptEnd(found.key)
                       /\ s2n_config_is_encrypt_decrypt_key_available(found.keys, t[3])
          IN  \/ /\ offer = NoTicket \/ ~use_tickets
                 /\ Hello(c, "TLS13", FALSE, FALSE, FALSE, t[1])
                 /\ now' = t[1]
                 /\ UNCHANGED ticket_keys
              \/ /\ offer # NoTicket /\ use_tickets
                 /\ ticket_keys' = found.keys
                 /\ Hello(c, "TLS13", FALSE, Opens(found, offer) /\ ~renew, Due(offer, t[1]), t[3])
                 /\ now' = t[3]
    /\ UNCHANGED <<use_tickets, use_session_cache, ticket_key_hashes, issued>>

\* s2n_calculate_keys: the session goes to the cache; that it cannot is ignored.
ClientKeyExchange(c) ==
    /\ conn[c].at = "KEY_EXCHANGE"
    /\ conn' = [conn EXCEPT ![c].at = IF conn[c].nst THEN "NST" ELSE "DONE"]
    /\ \/ use_session_cache /\ Encrypt("TLS12")
       \/ ~use_session_cache /\ UNCHANGED issued
    /\ UNCHANGED <<now, config>>

\* An empty ticket if tickets were turned off meanwhile; without a key the
\* handshake fails.
s2n_server_nst_send(c) ==
    /\ conn[c].at = "NST"
    /\ \/ ~use_tickets /\ UNCHANGED issued
       \/ use_tickets /\ Encrypt("TLS12")
    /\ conn' = [conn EXCEPT ![c].at =
                   IF use_tickets /\ s2n_get_ticket_encrypt_decrypt_key(ticket_keys, now) = {}
                   THEN "FAILED" ELSE "DONE"]
    /\ UNCHANGED <<now, config>>

\* After a TLS 1.3 handshake: a ticket, or none and no error.
s2n_tls13_server_nst_send(c) ==
    /\ conn[c].at = "NST_TLS13"
    /\ conn' = [conn EXCEPT ![c].at = "DONE"]
    /\ \/ ~use_tickets /\ UNCHANGED issued
       \/ use_tickets /\ Encrypt("TLS13")
    /\ UNCHANGED <<now, config>>

s2n_connection_wipe(c) ==
    /\ conn[c].at \in {"DONE", "FAILED"}
    /\ conn' = [conn EXCEPT ![c] = Fresh]
    /\ UNCHANGED <<now, config, issued>>

Configure ==
    \/ \E enabled \in BOOLEAN : \/ s2n_config_set_session_tickets_onoff(enabled)
                                \/ s2n_config_set_session_cache_onoff(enabled)
    \/ \E name \in Name, key \in Material, intro \in Intro :
          s2n_config_add_ticket_crypto_key(name, key, intro)

Handshake(c) ==
    \/ \E offer \in issued : HelloWithTicket(c, offer)
    \/ \E asks \in BOOLEAN, entry \in issued \cup {NoTicket} : HelloWithoutTicket(c, asks, entry)
    \/ \E offer \in issued \cup {NoTicket} : HelloTls13(c, offer)
    \/ ClientKeyExchange(c)
    \/ s2n_server_nst_send(c)
    \/ s2n_tls13_server_nst_send(c)
    \/ s2n_connection_wipe(c)

Next == Tick \/ Configure \/ \E c \in Conn : Handshake(c)

Spec == Init /\ [][Next]_vars

----------------------------------------------------------------------------
(***************************************************************************)
(* Properties                                                              *)
(***************************************************************************)

\* The clock, the keys, the tickets and the connections have their types.
TypeOK ==
    /\ now \in Time
    /\ use_tickets \in BOOLEAN /\ use_session_cache \in BOOLEAN
    /\ ticket_keys \in Seq(TicketKey) /\ Len(ticket_keys) <= S2N_MAX_TICKET_KEYS
    /\ ticket_key_hashes \subseteq Material
    /\ issued \subseteq Ticket
    /\ conn \in [Conn -> ConnState]

\* The config never holds two keys of one name or of one content, and
\* remembers the content of each (s2n_config_add_ticket_crypto_key): a name in
\* a ticket means one key.
KeysDistinct ==
    /\ \A i, j \in DOMAIN ticket_keys :
          i # j => ticket_keys[i].name # ticket_keys[j].name /\ ticket_keys[i].key # ticket_keys[j].key
    /\ \A i \in DOMAIN ticket_keys : ticket_keys[i].key \in ticket_key_hashes

\* "Keys are stored from oldest to newest" (s2n_config_store_ticket_key),
\* whatever the order they are added in.
OldestFirst ==
    \A i, j \in DOMAIN ticket_keys : i < j => ticket_keys[i].intro <= ticket_keys[j].intro

\* The set of keys is in order: the two properties above.
KeysInOrder == KeysDistinct /\ OldestFirst

\* A TLS 1.2 client that comes back with a ticket, or whose session is cached,
\* before the key of it expires resumes its session: no addition of keys and
\* no other connection makes s2n_find_ticket_key lose or mistake the key.
Tls12SessionHonoured ==
    \A c \in Conn : conn[c].version = "TLS12" /\ conn[c].due => conn[c].resumed

\* While the clock stands still, a ticket promised in a TLS 1.2 handshake can be
\* encrypted: what s2n_config_is_encrypt_decrypt_key_available counted on is
\* what s2n_get_ticket_encrypt_decrypt_key takes.
PromiseCanBeKept ==
    \A c \in Conn :
        conn[c].at \in {"KEY_EXCHANGE", "NST"} /\ conn[c].promise = now =>
            s2n_get_ticket_encrypt_decrypt_key(ticket_keys, now) # {}

=============================================================================
