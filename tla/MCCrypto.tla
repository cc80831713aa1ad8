----------------------------- MODULE MCCrypto -----------------------------
(***************************************************************************)
(* What the handshake's secrets, the hashes and the records are checked    *)
(* with.  One of them takes place in a behaviour, the others stay as they  *)
(* are.  For Secrets, before TLS 1.3 every version, key exchange and kind  *)
(* of cipher; in TLS 1.3 the groups, PSKs, retries and early data that     *)
(* change the schedule.                                                    *)
(***************************************************************************)
EXTENDS Secrets, Records

VARIABLE part

Base == [version |-> S2N_TLS12, kex |-> "ecdhe", prf |-> "sha256", cipher |-> "aead",
         ems |-> TRUE, fips |-> FALSE, auth |-> FALSE, cache |-> FALSE, key_log |-> TRUE,
         psks |-> 0, chosen |-> 0, early |-> "NONE", hrr |-> FALSE, group |-> "p256",
         pq |-> FALSE, resume |-> FALSE, free |-> FALSE, corrupt |-> FALSE]

Kexes == {"rsa", "dhe", "ecdhe", "hybrid"}

(* Client authentication and the hash of the PRF vary together. *)
MCPrf(auth) == IF auth THEN "sha384" ELSE "sha256"

Tls12Setups ==
    {[Base EXCEPT !.version = v, !.kex = k, !.cipher = c, !.ems = e, !.auth = a,
                  !.cache = e, !.resume = TRUE, !.free = a, !.fips = a] :
        v \in {S2N_TLS10, S2N_TLS11}, k \in Kexes \ {"hybrid"},
        c \in {"cbc", "composite", "stream"}, e \in BOOLEAN, a \in BOOLEAN}
    \cup
    {[Base EXCEPT !.version = S2N_SSLv3, !.kex = k, !.cipher = "cbc", !.ems = FALSE, !.auth = a,
                  !.resume = TRUE] : k \in Kexes \ {"hybrid"}, a \in BOOLEAN}
    \cup
    {[Base EXCEPT !.kex = k, !.prf = MCPrf(a), !.cipher = c, !.ems = e, !.auth = a, !.cache = ~e,
                  !.resume = TRUE, !.free = a] :
        k \in Kexes, c \in {"aead", "chacha", "cbc384", "composite"},
        e \in BOOLEAN, a \in BOOLEAN}
    \cup
    {[Base EXCEPT !.kex = k, !.group = g, !.version = v, !.ems = FALSE, !.corrupt = TRUE,
                  !.cipher = "composite"] :
        k \in Kexes, g \in {"p256", "x25519"}, v \in {S2N_TLS11, S2N_TLS12}}

Tls13Setups ==
    {s \in {[Base EXCEPT !.version = S2N_TLS13, !.prf = MCPrf(a), !.group = g, !.pq = q, !.hrr = r,
                         !.auth = a, !.psks = n, !.chosen = i, !.early = e, !.resume = a,
                         !.free = r, !.corrupt = x] :
               g \in {"p256", "x25519", "hybrid"}, q \in BOOLEAN,
               r \in BOOLEAN, a \in BOOLEAN, n \in 0..2, i \in 0..2,
               e \in {"NONE", "ACCEPTED", "REJECTED"}, x \in BOOLEAN} :
        /\ s.chosen <= s.psks /\ (s.psks > 0 => s.chosen > 0)
        /\ s.early # "NONE" => s.psks > 0 \/ s.resume
        /\ s.early = "ACCEPTED" => s.chosen < 2 /\ ~s.hrr
        /\ s.group = "x25519" => s.hrr                \* the first hello offers p256
        /\ s.group = "p256" => ~s.hrr
        /\ s.group = "hybrid" => (s.pq \/ s.hrr)
        /\ (s.group = "hybrid" /\ s.hrr) => s.pq
        /\ s.resume => s.psks = 0                     \* the ticket is the PSK then
        /\ s.corrupt => ~s.resume /\ s.psks < 2}

MCSetups == Tls12Setups \cup Tls13Setups
MCMaxUpdates == 1

-----------------------------------------------------------------------------
(* One state of each part, for the behaviours in which it does not act. *)

IdleSecrets == Init /\ setup = CHOOSE s \in MCSetups : s.version = S2N_TLS13
IdleHashes == HashesInit /\ crypto = [fips |-> FALSE, custom_md5_sha1 |-> FALSE, always_md5 |-> FALSE]
IdleRecords(checked) ==
    /\ RecordsStart([version |-> TLS13, negotiated |-> TRUE, mfl |-> 0, alg |-> "tls13_aes128_gcm"], checked)
    /\ writer.seq = SeqZero

CryptoInit ==
    \/ part = "secrets" /\ Init /\ IdleHashes /\ IdleRecords(NoProbe)
    \/ part \in {"hash", "hmac"} /\ IdleSecrets /\ HashesInit /\ IdleRecords(NoProbe)
    \/ part = "records" /\ IdleSecrets /\ IdleHashes /\ RecordsInit
    \/ part = "cbc" /\ IdleSecrets /\ IdleHashes /\ \E p \in CbcProbes : IdleRecords(p)

CryptoNext ==
    /\ UNCHANGED part
    /\ \/ part = "secrets" /\ Next /\ UNCHANGED <<hvars, rvars>>
       \/ part = "hash" /\ HashNext /\ UNCHANGED <<vars, rvars>>
       \/ part = "hmac" /\ HmacNext /\ UNCHANGED <<vars, rvars>>
       \/ part = "records" /\ RecordsNext /\ UNCHANGED <<vars, hvars>>

CryptoSpec == CryptoInit /\ [][CryptoNext]_<<part, vars, hvars, rvars>>

=============================================================================
