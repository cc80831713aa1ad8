-------------------------------- MODULE Records --------------------------------
(***************************************************************************)
(* The record layer for every record algorithm s2n-tls has: how a record   *)
(* is sized, protected and written (tls/s2n_record_write.c), how it is     *)
(* opened (tls/s2n_record_read_*.c, tls/s2n_cbc.c), with the ciphers of    *)
(* crypto/s2n_*_cipher_*.c and the algorithm s2n_cipher_suites_init picks. *)
(*                                                                         *)
(* Lengths are the real ones and contents are symbolic: a body opens to    *)
(* what was sealed only under the IV, nonce or key stream position, and    *)
(* the additional data, it was sealed with.  A sequence number is SeqLen   *)
(* bytes of SeqBase values instead of eight of 256.                        *)
(***************************************************************************)
EXTENDS Hashes, FiniteSetsExt

CONSTANTS RecordSuites,     \* cipher suites, and the versions they are used in
          RecordVersions,
          WriteSizes,       \* bytes given to one write
          FragmentSizes,    \* maximum fragment lengths the application asks for
          ForeignPads,      \* extra padding of a peer that is not s2n-tls
          JunkBytes,        \* last bytes a body that does not open may end in
          SeqBase, SeqLen,
          SeqStarts,        \* sequence numbers the two ends have come to
          MaxRecords, MaxFaults,
          CbcSizes          \* sizes of decrypted CBC records whose check is measured

VARIABLES params,   \* what both sides negotiated, and the build
          writer, reader,
          channel,  \* records written and not yet read
          sent, got,
          nonces,   \* the AEAD nonces used, in order
          faults,   \* what the network did
          probe     \* a decrypted CBC record to measure s2n_verify_cbc with

rvars == <<params, writer, reader, channel, sent, got, nonces, faults, probe>>

Tables == INSTANCE CipherSuites
SSLv3 == 30
TLS10 == 31
TLS11 == 32
TLS12 == 33
TLS13 == 34

-----------------------------------------------------------------------------
(* The ciphers. *)

Cipher(type, key, block, record_iv, fixed_iv, tag, mac_key) ==
    [type |-> type, key_material_size |-> key, block_size |-> block, record_iv_size |-> record_iv,
     fixed_iv_size |-> fixed_iv, tag_size |-> tag, mac_key_size |-> mac_key]

s2n_null_cipher == Cipher("STREAM", 0, 1, 0, 0, 0, 0)
s2n_rc4 == Cipher("STREAM", 16, 1, 0, 0, 0, 0)
s2n_3des == Cipher("CBC", 24, 8, 8, 0, 0, 0)
s2n_aes128 == Cipher("CBC", 16, 16, 16, 0, 0, 0)
s2n_aes256 == Cipher("CBC", 32, 16, 16, 0, 0, 0)
s2n_aes128_sha == Cipher("COMPOSITE", 16, 16, 16, 0, 0, 20)
s2n_aes256_sha == Cipher("COMPOSITE", 32, 16, 16, 0, 0, 20)
s2n_aes128_sha256 == Cipher("COMPOSITE", 16, 16, 16, 0, 0, 32)
s2n_aes256_sha256 == Cipher("COMPOSITE", 32, 16, 16, 0, 0, 32)
s2n_aes128_gcm == Cipher("AEAD", 16, 1, 8, 4, 16, 0)
s2n_aes256_gcm == Cipher("AEAD", 32, 1, 8, 4, 16, 0)
s2n_tls13_aes128_gcm == Cipher("AEAD", 16, 1, 0, 12, 16, 0)
s2n_tls13_aes256_gcm == Cipher("AEAD", 32, 1, 0, 12, 16, 0)
s2n_chacha20_poly1305 == Cipher("AEAD", 32, 1, 0, 12, 16, 0)

CipherOf(name) ==
    CASE name = "null_cipher" -> s2n_null_cipher [] name = "rc4" -> s2n_rc4 [] name = "3des" -> s2n_3des
      [] name = "aes128" -> s2n_aes128 [] name = "aes256" -> s2n_aes256
      [] name = "aes128_sha" -> s2n_aes128_sha [] name = "aes256_sha" -> s2n_aes256_sha
      [] name = "aes128_sha256" -> s2n_aes128_sha256 [] name = "aes256_sha256" -> s2n_aes256_sha256
      [] name = "aes128_gcm" -> s2n_aes128_gcm [] name = "aes256_gcm" -> s2n_aes256_gcm
      [] name = "tls13_aes128_gcm" -> s2n_tls13_aes128_gcm [] name = "tls13_aes256_gcm" -> s2n_tls13_aes256_gcm
      [] name = "chacha20_poly1305" -> s2n_chacha20_poly1305

\* The key lengths the set_*_key functions insist on, file by file.
GcmKeySize(name) == IF name \in {"aes128_gcm", "tls13_aes128_gcm"} THEN 16 ELSE 32
GcmKeySize_AeadApi(name) == IF name \in {"aes128_gcm", "tls13_aes128_gcm"} THEN 16 ELSE 32   \* BoringSSL, AWS-LC
ChachaKeySize == 32
ChachaKeySize_AeadApi == 32
CompositeKeySize(name) == IF name \in {"aes128_sha", "aes128_sha256"} THEN 16 ELSE 32
CompositeMacSize(name) == IF name \in {"aes128_sha", "aes256_sha"} THEN 20 ELSE 32
CbcKeySize(name) == IF name = "aes128" THEN 16 ELSE 32
DesKeySize == 24
Rc4KeySize == 16

\* s2n_prf_make_key and the TLS 1.3 schedule give a cipher as many bytes as its structure asks for.
set_key_accepts(name) ==
    LET c == CipherOf(name)
    IN  CASE name = "null_cipher" -> TRUE
          [] name = "rc4" -> c.key_material_size = Rc4KeySize
          [] name = "3des" -> c.key_material_size = DesKeySize
          [] name = "chacha20_poly1305" -> c.key_material_size = ChachaKeySize /\ ChachaKeySize = ChachaKeySize_AeadApi
          [] c.type = "CBC" /\ name # "3des" -> c.key_material_size = CbcKeySize(name)
          [] c.type = "COMPOSITE" -> /\ c.key_material_size = CompositeKeySize(name)
                                     /\ c.mac_key_size = CompositeMacSize(name)
          [] OTHER -> c.key_material_size = GcmKeySize(name) /\ c.key_material_size = GcmKeySize_AeadApi(name)

CompositeAvailable(build) == ~build.fips /\ build.libcrypto # "awslc"
Rc4Available(build) == ~build.fips
ChachaAvailable(build) == build.libcrypto # "openssl-1.0"
is_available(name, build) ==
    CASE name \in {"aes128_sha", "aes256_sha", "aes128_sha256", "aes256_sha256"} -> CompositeAvailable(build)
      [] name = "rc4" -> Rc4Available(build)
      [] name = "chacha20_poly1305" -> ChachaAvailable(build)
      [] OTHER -> TRUE

\* s2n_cipher_suites_init: the first record algorithm whose cipher there is, and
\* for SSLv3 the suite's own copy of it.  "none" when the suite is not available.
s2n_cipher_suites_init(name, version, build) ==
    LET s     == Tables!CipherSuite[name]
        Ok(a) == is_available(Tables!RecordAlgs[a].cipher, build)
        algs  == SelectSeq(s.all_record_algs, Ok)
    IN  IF version = SSLv3 /\ s.sslv3_record_alg # "NULL" /\ Ok(s.sslv3_record_alg) THEN s.sslv3_record_alg
        ELSE IF algs = <<>> THEN "none" ELSE algs[1]

-----------------------------------------------------------------------------
(* Sequence numbers: crypto/s2n_sequence.c. *)

SeqBytes(n) == [i \in 1..SeqLen |-> (n \div (SeqBase ^ (SeqLen - i))) % SeqBase]
SeqZero == SeqBytes(0)

\* The last byte that does not wrap takes the carry; there is none at the limit.
s2n_increment_sequence_number(seq) ==
    LET carry == {i \in 1..SeqLen : \A j \in i..SeqLen : seq[j] = SeqBase - 1}
        last  == SeqLen - Cardinality(carry)
    IN  [ok |-> last > 0,
         seq |-> [i \in 1..SeqLen |-> IF i \in carry THEN 0 ELSE IF i = last THEN seq[i] + 1 ELSE seq[i]]]

s2n_sequence_number_to_uint64(seq) == FoldLeft(LAMBDA n, d : (n * SeqBase) + d, 0, seq)

-----------------------------------------------------------------------------
(* What a side knows of the protection in force: the record algorithm of    *)
(* the connection, or none for what TLS 1.3 has in the clear: for the       *)
(* writer a ChangeCipherSpec, for the reader an alert as well.              *)

Alg(a) == Tables!RecordAlgs[a]
AlgCipher(a) == CipherOf(Alg(a).cipher)
AlgMacSize(a) == s2n_hash_digest_size(s2n_hmac_hash_alg(Alg(a).hmac_alg))
is_tls13_record(a) == Alg(a).nonce = "tls13"
Active(type) == IF params.version = TLS13 /\ type = "CCS" THEN "null" ELSE params.alg
s2n_is_tls13_plaintext_content(type) == params.version = TLS13 /\ type \in {"ALERT", "CCS"}

HEADER == 5
MAX_FRAGMENT == 16384
ETH_MTU == 1500

s2n_tls_record_overhead(a) ==
    LET c == AlgCipher(a)
        iv == IF params.version > TLS10 THEN c.record_iv_size ELSE 0
    IN  AlgMacSize(a) + (CASE c.type = "CBC" -> 1 + iv [] c.type = "AEAD" -> c.tag_size + c.record_iv_size
                           [] c.type = "COMPOSITE" -> iv [] OTHER -> 0)

s2n_record_max_write_payload_size(w) == IF w.frag < MAX_FRAGMENT THEN w.frag ELSE MAX_FRAGMENT

s2n_record_max_write_size(frag) ==
    HEADER + frag + (IF params.negotiated /\ params.version = TLS13 THEN 1 + 255 ELSE 1024)

\* Without padding, the bytes a small record may carry to fit an Ethernet frame.
s2n_record_min_write_payload_size(ipv6) ==
    LET c       == AlgCipher(params.alg)
        room    == ETH_MTU - (IF ipv6 THEN 40 ELSE 20) - 20 - 40 - HEADER
        aligned == room - (room % c.block_size)
        size    == CASE c.type = "CBC" -> aligned
                     [] c.type = "COMPOSITE" -> aligned - c.mac_key_size - 1
                     [] OTHER -> room
    IN  size - (IF params.version = TLS13 THEN 1 ELSE 0) - s2n_tls_record_overhead(params.alg)

s2n_record_write_protocol_version == IF params.version < TLS12 THEN params.version ELSE TLS12

\* EVP_CTRL_AEAD_TLS1_AAD: the bytes of MAC and padding a composite cipher appends.
s2n_composite_cipher_aes_sha_initial_hmac(c, n) ==
    ((((n + c.mac_key_size) \div c.block_size) + 1) * c.block_size) - n

\* The bytes of CBC padding, without the length byte.
Padding(a, n) ==
    LET c    == AlgCipher(a)
        over == (n + s2n_tls_record_overhead(a)) % c.block_size
    IN  IF c.type = "CBC" /\ over # 0 THEN c.block_size - over ELSE 0

\* The length written into the header.
actual_fragment_length(a, n) ==
    LET c == AlgCipher(a)
    IN  n + Padding(a, n) + s2n_tls_record_overhead(a)
          + (IF c.type = "COMPOSITE" THEN s2n_composite_cipher_aes_sha_initial_hmac(c, n) ELSE 0)
          + (IF is_tls13_record(a) THEN 1 ELSE 0)

\* The bytes that leave the header's IV in the clear, and the bytes encrypted.
ClearIv(a) == LET c == AlgCipher(a)
              IN  CASE c.type = "AEAD" -> c.record_iv_size
                    [] c.type = "CBC" /\ params.version > TLS10 -> c.record_iv_size
                    [] OTHER -> 0

encrypted_length(a, n) ==
    LET c == AlgCipher(a)
        m13 == IF is_tls13_record(a) THEN 1 ELSE 0
    IN  n + AlgMacSize(a) +
        (CASE c.type = "AEAD" -> c.tag_size + m13
           [] c.type = "CBC" -> Padding(a, n) + 1
           [] c.type = "COMPOSITE" -> s2n_tls_record_overhead(a) + s2n_composite_cipher_aes_sha_initial_hmac(c, n)
           [] OTHER -> 0)

\* s2n_connection_set_max_fragment_length, called by s2n_connection_prefer_throughput and
\* s2n_connection_prefer_low_latency.
s2n_connection_set_max_fragment_length(w, length) ==
    LET frag == IF params.mfl # 0 /\ params.mfl < length THEN params.mfl ELSE length
        need == s2n_record_max_write_size(frag)
    IN  [w EXCEPT !.frag = frag, !.out = IF w.out # 0 /\ w.out < need THEN need ELSE @]

\* s2n_stuffer_reserve_space: grow by at least a kilobyte, never once tainted.
Reserve(w, n) ==
    IF w.cursor + n <= w.out THEN [w EXCEPT !.cursor = @ + n]
    ELSE IF w.tainted THEN [w EXCEPT !.error = "BUFFER"]
    ELSE [w EXCEPT !.cursor = @ + n, !.out = @ + (IF w.cursor + n - w.out > 1024 THEN w.cursor + n - w.out ELSE 1024)]

-----------------------------------------------------------------------------
(* Writing.  A record is its header, its size in the buffer, what protects  *)
(* it (an IV, a nonce, a position of the key stream) and what was sealed.   *)

\* What is authenticated besides the data.
MacHeader(seq, type, n) ==
    <<seq, type, IF params.version > SSLv3 THEN s2n_record_write_protocol_version ELSE 0, n>>
s2n_aead_aad_init(seq, type, n) == <<seq, type, params.version, n>>
s2n_tls13_aead_aad_init(n, tag) == <<"APPLICATION_DATA", n + tag>>

\* Mutant: the nonce is made from the sequence number without its last byte.
aead_nonce_Short(a, seq) == <<Alg(a).nonce, [seq EXCEPT ![SeqLen] = 0]>>

\* Twelve bytes either way: the fixed IV before the sequence number, or the two combined.
aead_nonce(a, seq) == <<Alg(a).nonce, seq>>
NonceLength(a) == IF Alg(a).nonce = "gcm12" THEN AlgCipher(a).fixed_iv_size + 8 ELSE 4 + 8

\* The ciphers check the length of the nonce, and that it covers the fixed IV.
s2n_aead_cipher_aes_gcm_encrypt(a, size) == NonceLength(a) = 12 /\ AlgCipher(a).fixed_iv_size <= 12 /\ size >= 16
s2n_aead_chacha20_poly1305_encrypt(a, size) == NonceLength(a) = 12 /\ size >= 16
AeadApiEncrypt(a, size) == NonceLength(a) = 12 /\ size >= 16                        \* EVP_AEAD_CTX_seal
AeadEncrypts(a, size) ==
    /\ IF Alg(a).cipher = "chacha20_poly1305" THEN s2n_aead_chacha20_poly1305_encrypt(a, size)
       ELSE s2n_aead_cipher_aes_gcm_encrypt(a, size)
    /\ AeadApiEncrypt(a, size)

\* What seals the body, the IV left for the next record of CBC, and the AEAD's additional data.
Sealing(w, a, seq, type, n, id) ==
    LET c == AlgCipher(a)
        explicit == params.version > TLS10
    IN  CASE c.type = "STREAM" -> [by |-> <<"stream", w.pos>>, next |-> w.iv, aad |-> <<>>]
          [] c.type = "CBC" -> [by |-> IF explicit THEN <<"random", id>> ELSE w.iv,
                                next |-> IF explicit THEN <<"random", id>> ELSE <<"last block", id>>, aad |-> <<>>]
          \* A composite cipher encrypts a random block in front of the data.
          [] c.type = "COMPOSITE" -> [by |-> IF explicit THEN <<"random", id>> ELSE w.iv,
                                      next |-> <<"last block", id>>, aad |-> <<>>]
          [] OTHER -> [by |-> aead_nonce(a, seq), next |-> w.iv,
                       aad |-> IF is_tls13_record(a) THEN s2n_tls13_aead_aad_init(n + 1, c.tag_size)
                               ELSE s2n_aead_aad_init(seq, type, n)]

\* What is inside: the data, the MAC over it, the type and the zeros TLS 1.3 adds.
Inside(a, seq, type, n, id, pad, zeros) ==
    [n |-> n, id |-> id, pad |-> pad, even |-> TRUE, type |-> IF is_tls13_record(a) THEN type ELSE "NONE", zeros |-> zeros,
     mac |-> IF AlgMacSize(a) + AlgCipher(a).mac_key_size > 0 THEN <<"mac", MacHeader(seq, type, n), id>> ELSE <<>>]

\* A peer that is not s2n-tls may pad more: whole blocks, or zeros in TLS 1.3.
MayPad(a, n, more) ==
    LET c == AlgCipher(a)
    IN  CASE c.type \in {"CBC", "COMPOSITE"} ->
               /\ params.version > SSLv3 /\ more % c.block_size = 0
               /\ more + (IF c.type = "CBC" THEN Padding(a, n)
                          ELSE s2n_composite_cipher_aes_sha_initial_hmac(c, n) - c.mac_key_size - 1) <= 255
          \* and sixteen more than TLS 1.3 allows, as some versions of Java did
          [] OTHER -> is_tls13_record(a) /\ n + more <= MAX_FRAGMENT + 16

SealedPad(a, n) ==
    LET c == AlgCipher(a)
    IN  IF c.type = "COMPOSITE" THEN s2n_composite_cipher_aes_sha_initial_hmac(c, n) - c.mac_key_size - 1
        ELSE Padding(a, n)

\* s2n_record_encrypt: the record as it is on the wire.
Record(w, a, seq, type, n, id, more) ==
    LET seal  == Sealing(w, a, seq, type, n + (IF is_tls13_record(a) THEN more ELSE 0), id)
        zeros == IF is_tls13_record(a) THEN more ELSE 0
        pad   == IF is_tls13_record(a) THEN 0 ELSE more
    IN  [type |-> IF is_tls13_record(a) THEN "APPLICATION_DATA" ELSE type,
         version |-> s2n_record_write_protocol_version, len |-> actual_fragment_length(a, n) + more,
         size |-> ClearIv(a) + encrypted_length(a, n) + more, by |-> seal.by, aad |-> seal.aad, id |-> id,
         inside |-> Inside(a, seq, type, n, id, SealedPad(a, n) + pad, zeros), altered |-> "NO"]

Limit(a) == IF is_tls13_record(a) THEN MAX_FRAGMENT + 1 + 255 + HEADER ELSE MAX_FRAGMENT + 1024 + HEADER

\* The buffer while a record is put into it: the plaintext first, which may grow it, then the MAC,
\* which taints it; the rest must fit.
Buffered(w, a, n) ==
    LET c      == AlgCipher(a)
        ivs    == IF c.type = "COMPOSITE" /\ params.version > TLS10 THEN c.record_iv_size ELSE ClearIv(a)
        alloc  == [w EXCEPT !.out = IF @ = 0 THEN s2n_record_max_write_size(s2n_record_max_write_payload_size(w)) ELSE @,
                            !.tainted = IF w.out = 0 THEN FALSE ELSE @, !.cursor = 0]
        filled == FoldLeft(Reserve, alloc, <<HEADER, ivs, n, AlgMacSize(a)>>)
    IN  FoldLeft(Reserve, [filled EXCEPT !.tainted = TRUE, !.cursor = HEADER], <<ClearIv(a), encrypted_length(a, n)>>)

s2n_record_writev(w, type, size, id, more) ==
    LET a    == Active(type)
        max  == s2n_record_max_write_payload_size(w)
        n    == IF size < max THEN size ELSE max
        seq  == IF a = params.alg THEN w.seq ELSE w.initial_seq
        next == s2n_increment_sequence_number(seq)
        done == [Buffered(w, a, n) EXCEPT
                    !.seq = IF a = params.alg THEN next.seq ELSE @,
                    !.initial_seq = IF a = params.alg THEN @ ELSE next.seq,
                    !.iv = Sealing(w, a, seq, type, n, id).next,
                    !.pos = IF Alg(a).cipher = "rc4" THEN @ + encrypted_length(a, n) ELSE @,
                    !.cursor = 0]
        Refused(why) == [w |-> [w EXCEPT !.error = why], n |-> 0, record |-> <<>>, nonce |-> <<>>]
    IN  IF Alg(a).cipher = "null_cipher" /\ type = "APPLICATION_DATA" THEN Refused("ENCRYPT")
        ELSE IF actual_fragment_length(a, n) + HEADER > Limit(a) THEN Refused("LENGTH")
        ELSE IF ~next.ok THEN Refused("RECORD_LIMIT")
        ELSE IF done.error # "NONE" THEN Refused(done.error)
        ELSE IF /\ AlgCipher(a).type = "AEAD"
                /\ ~AeadEncrypts(a, encrypted_length(a, n)) THEN Refused("ENCRYPT")
        ELSE [w |-> done, n |-> n, record |-> Record(w, a, seq, type, n, id, more),
              nonce |-> IF AlgCipher(a).type = "AEAD" THEN aead_nonce(a, seq) ELSE <<>>]

-----------------------------------------------------------------------------
(* Reading.  "junk" is the last byte of a body that does not decrypt to     *)
(* what was encrypted; nothing else of such a body matches anything.        *)

ReadOk(r, type, n, id) == [ok |-> TRUE, r |-> r, type |-> type, n |-> n, id |-> id]
ReadFail(r) == [ok |-> FALSE, r |-> [r EXCEPT !.failed = TRUE], type |-> "NONE", n |-> 0, id |-> 0]

Junk(inside, byte) == [inside EXCEPT !.id = 0, !.mac = <<"junk">>, !.pad = byte, !.even = FALSE]
Decrypted(rec, by, junk) == IF rec.altered # "BODY" /\ rec.by = by THEN rec.inside ELSE Junk(rec.inside, junk)

s2n_record_header_parse(rec) ==
    params.negotiated => rec.version = (IF params.version < TLS12 THEN params.version ELSE TLS12)

Advanced(r, a) == LET next == s2n_increment_sequence_number(r.seq)
                  IN  [ok |-> a # params.alg \/ next.ok, r |-> IF a = params.alg THEN [r EXCEPT !.seq = next.seq] ELSE r]

s2n_record_parse_stream(r, a, rec, junk) ==
    LET size == AlgMacSize(a)
        n    == rec.len - size
        \* what was sealed and is read in the clear is not what was sealed
        clear == Alg(a).cipher = "null_cipher" /\ rec.by[1] = "stream"
        p    == Decrypted(rec, IF clear THEN rec.by ELSE <<"stream", r.pos>>, junk)
        next == Advanced([r EXCEPT !.pos = IF Alg(a).cipher = "null_cipher" THEN @ ELSE @ + rec.len], a)
    IN  IF n < 0 \/ ~next.ok THEN ReadFail(r)
        ELSE IF size > 0 /\ p.mac # <<"mac", MacHeader(r.seq, rec.type, n), p.id>> THEN ReadFail(r)
        ELSE ReadOk(next.r, rec.type, n, p.id)

\* s2n_verify_cbc, as far as what it accepts: the MAC at the place the last byte says, and, but for
\* SSLv3, every byte of the padding equal to it.
s2n_verify_cbc(a, seq, type, n, p) ==
    /\ n = p.n
    /\ p.mac = <<"mac", MacHeader(seq, type, n), p.id>>
    /\ params.version = SSLv3 \/ p.even

s2n_record_parse_cbc(r, a, rec, junk) ==
    LET c     == AlgCipher(a)
        iv    == IF params.version > TLS10 THEN rec.by ELSE r.iv
        en    == rec.len - ClearIv(a)
        p     == Decrypted(rec, iv, junk)
        n     == en - AlgMacSize(a) - p.pad - 1
        next  == Advanced([r EXCEPT !.iv = IF params.version > TLS10 THEN rec.by ELSE <<"last block", rec.id>>], a)
    IN  IF en <= 0 \/ en - AlgMacSize(a) < 0 \/ en % c.record_iv_size # 0 THEN ReadFail(r)
        ELSE IF n < 0 \/ ~next.ok \/ ~s2n_verify_cbc(a, r.seq, rec.type, n, p) THEN ReadFail(r)
        ELSE ReadOk(next.r, rec.type, n, p.id)

\* The cipher itself checks the MAC and the padding; the IV is the first block it decrypts.
s2n_record_parse_composite(r, a, rec, junk) ==
    LET c    == AlgCipher(a)
        ivs  == IF params.version > TLS10 THEN c.record_iv_size ELSE 0
        p    == Decrypted(rec, IF params.version > TLS10 THEN rec.by ELSE r.iv, junk)
        n    == rec.len - c.mac_key_size - ivs - p.pad - 1
        next == Advanced([r EXCEPT !.iv = <<"last block", rec.id>>], a)
    IN  IF rec.len < c.mac_key_size + ivs \/ rec.len % c.record_iv_size # 0 \/ ~p.even THEN ReadFail(r)
        ELSE IF p.mac # <<"mac", MacHeader(r.seq, rec.type, p.n), p.id>> \/ n < 0 \/ ~next.ok THEN ReadFail(r)
        ELSE ReadOk(next.r, rec.type, n, p.id)

\* What the tag covers: the nonce, the additional data and the body.
s2n_aead_cipher_aes_gcm_decrypt(rec, nonce, aad) == rec.altered # "BODY" /\ rec.by = nonce /\ rec.aad = aad

s2n_record_parse_aead(r, a, rec) ==
    LET c     == AlgCipher(a)
        n     == rec.len - c.record_iv_size - c.tag_size
        \* GCM before TLS 1.3 takes the nonce from the record
        nonce == IF Alg(a).nonce = "gcm12" THEN rec.by ELSE aead_nonce(a, r.seq)
        aad   == IF is_tls13_record(a) THEN s2n_tls13_aead_aad_init(n, c.tag_size)
                 ELSE s2n_aead_aad_init(r.seq, rec.type, n)
        next  == Advanced(r, a)
    IN  IF n < 0 \/ (is_tls13_record(a) /\ n + c.tag_size > MAX_FRAGMENT + 256) THEN ReadFail(r)
        ELSE IF ~s2n_aead_cipher_aes_gcm_decrypt(rec, nonce, aad) \/ ~next.ok THEN ReadFail(r)
        ELSE ReadOk(next.r, rec.type, n, rec.inside.id)

\* The zeros are stripped from the end until the type is found.
s2n_tls13_parse_record_type(got1, rec) ==
    IF got1.n > MAX_FRAGMENT + 1 + 16 \/ got1.n - rec.inside.zeros - 1 > MAX_FRAGMENT THEN ReadFail(got1.r)
    ELSE [got1 EXCEPT !.type = rec.inside.type, !.n = got1.n - rec.inside.zeros - 1]

\* With what s2n_read_full_record does after it: the type inside counts only if the header says
\* application data, and the header's own type is not authenticated in TLS 1.3.
s2n_record_parse(r, rec, junk) ==
    LET a == IF s2n_is_tls13_plaintext_content(rec.type) THEN "null" ELSE params.alg
        c == AlgCipher(a)
        Inner(o) == IF o.ok /\ params.version = TLS13 /\ rec.type = "APPLICATION_DATA"
                    THEN s2n_tls13_parse_record_type(o, rec) ELSE o
    IN  IF ~s2n_record_header_parse(rec) THEN ReadFail(r)
        ELSE IF Alg(a).cipher = "null_cipher" /\ rec.type = "APPLICATION_DATA" THEN ReadFail(r)
        ELSE CASE c.type = "AEAD" -> Inner(s2n_record_parse_aead(r, a, rec))
               [] c.type = "CBC" -> s2n_record_parse_cbc(r, a, rec, junk)
               [] c.type = "COMPOSITE" -> s2n_record_parse_composite(r, a, rec, junk)
               [] OTHER -> s2n_record_parse_stream(r, a, rec, junk)

-----------------------------------------------------------------------------
(* The time s2n_verify_cbc takes, in rounds of compression, for a decrypted *)
(* record of a size that ends in a byte.                                    *)

CbcMac(alg) == s2n_hmac_init(s2n_hmac_new(ZeroHmac), alg, KeyChunk(s2n_hash_digest_size(s2n_hmac_hash_alg(alg)))).s
CbcHeader(alg) == <<Chunk(8, <<"seq">>), Chunk(IF Sslv3(alg) THEN 3 ELSE 5, <<"header">>)>>
Blocks(s) == Total(s.inner.ctx.data) \div s.hash_block_size

\* The MAC over the rest of the record, whose result nobody looks at.
CbcSecond(s, first, rest) ==
    s2n_hmac_update(s2n_hmac_update(s2n_hmac_reset(s).s, <<Chunk(first.currently_in_hash_block, <<"again">>)>>).s,
                    <<Chunk(rest, <<"rest">>)>>).s

CbcCheck(alg, size, pad) ==
    LET digest_size == s2n_hash_digest_size(s2n_hmac_hash_alg(alg))
        n      == size - digest_size - pad - 1
        first  == s2n_hmac_update(s2n_hmac_update(CbcMac(alg), CbcHeader(alg)).s, <<Chunk(n, <<"payload">>)>>).s
        ended  == s2n_hmac_digest_two_compression_rounds(first, digest_size).s
        second == CbcSecond(ended, first, size - n - digest_size - 1)
    IN  [rounds |-> Blocks(first) + Rounds(first) + Blocks(second), reads |-> first.currently_in_hash_block]

-----------------------------------------------------------------------------
(* The two ends and the network between them. *)

Builds == [fips : BOOLEAN, libcrypto : {"openssl", "openssl-1.0", "awslc"}]
Suited(name, version) ==
    LET min == Tables!CipherSuite[name].minimum_required_tls_version
    IN  IF min = TLS13 THEN version = TLS13 ELSE version < TLS13 /\ version >= min

\* There are keys once the version is known; a client's early data comes before.
RecordParams ==
    UNION {{p \in [version : {v}, negotiated : BOOLEAN, mfl : {0, 512},
                   alg : {s2n_cipher_suites_init(s, v, b) : b \in Builds}] :
                /\ Suited(s, v) /\ p.alg # "none" /\ (p.mfl = 0 \/ p.negotiated)
                /\ p.alg = "null" \/ p.version = TLS13 \/ p.negotiated} : s \in RecordSuites, v \in RecordVersions}

NoProbe == [alg |-> "NONE", size |-> 0, pad |-> 0]
CbcProbes ==
    {p \in [alg : {"SHA1", "SHA256", "SHA384", "SSLv3_SHA1"}, size : CbcSizes, pad : 0..255] :
        \* a longer padding is refused before
        p.pad + 1 <= p.size - s2n_hash_digest_size(s2n_hmac_hash_alg(p.alg))}

RecordsStart(p, checked) ==
    /\ params = p
    /\ \E start \in SeqStarts :
       /\ writer = [seq |-> SeqBytes(start), initial_seq |-> SeqZero, iv |-> <<"iv">>, pos |-> 0, frag |-> 8087, out |-> 0,
                    tainted |-> FALSE, cursor |-> 0, error |-> "NONE"]
       /\ reader = [seq |-> SeqBytes(start), iv |-> <<"iv">>, pos |-> 0, failed |-> FALSE]
    /\ channel = <<>> /\ sent = <<>> /\ got = <<>> /\ nonces = <<>> /\ faults = 0
    /\ probe = checked

RecordsInit == \E p \in RecordParams : RecordsStart(p, NoProbe)

Unprotected(type) == params.version = TLS13 /\ type = "CCS"

\* One call of s2n_record_writev, after which the record is flushed.
WriteRecord(type, size, more) ==
    /\ writer.error = "NONE" /\ Len(sent) < MaxRecords
    /\ \E o \in {s2n_record_writev(writer, type, size, Len(sent) + 1, more)} :
         /\ more > 0 => o.n > 0 /\ MayPad(Active(type), o.n, more)
         /\ writer' = o.w
         /\ channel' = IF o.w.error = "NONE" THEN Append(channel, o.record) ELSE channel
         /\ sent' = IF o.w.error = "NONE" /\ ~Unprotected(type)
                    THEN Append(sent, [type |-> type, n |-> o.n, id |-> Len(sent) + 1]) ELSE sent
         /\ nonces' = IF o.nonce # <<>> THEN Append(nonces, o.nonce) ELSE nonces
    /\ UNCHANGED <<params, reader, got, faults, probe>>

\* s2n_connection_prefer_throughput, s2n_connection_prefer_low_latency, and the extension's own limit
SetFragment(length) ==
    /\ writer.error = "NONE" /\ writer.frag # length
    /\ writer' = s2n_connection_set_max_fragment_length(writer, length)
    /\ UNCHANGED <<params, reader, channel, sent, got, nonces, faults, probe>>

\* s2n_connection_release_buffers, once everything was sent
ReleaseOut ==
    /\ writer.out > 0
    /\ writer' = [writer EXCEPT !.out = 0]
    /\ UNCHANGED <<params, reader, channel, sent, got, nonces, faults, probe>>

\* s2n_read_full_record
ReadRecord(junk) ==
    /\ ~reader.failed /\ channel # <<>>
    /\ \E o \in {s2n_record_parse(reader, channel[1], junk)} :
         /\ reader' = o.r
         /\ got' = IF o.ok /\ ~Unprotected(channel[1].type)
                   THEN Append(got, [type |-> o.type, n |-> o.n, id |-> o.id, altered |-> channel[1].altered]) ELSE got
    /\ channel' = Tail(channel)
    /\ UNCHANGED <<params, writer, sent, nonces, faults, probe>>

\* The network loses, repeats, reorders and changes records: the type in the header, the body, or
\* bytes of the padding alone, the last one and the MAC still being right.
Misbehave(records) ==
    /\ faults < MaxFaults /\ params.alg # "null" /\ faults' = faults + 1
    /\ channel' = records
    /\ UNCHANGED <<params, writer, reader, sent, got, nonces, probe>>

Lose(i) == Misbehave(RemoveAt(channel, i))
Repeat(i) == Misbehave(Append(channel, channel[i]))
Reorder(i) == i < Len(channel) /\ Misbehave([channel EXCEPT ![i] = channel[i + 1], ![i + 1] = channel[i]])
Change(i) == channel[i].type # "CCS" /\ Misbehave([channel EXCEPT ![i].altered = "BODY"])
ChangePadding(i) ==
    /\ AlgCipher(params.alg).type \in {"CBC", "COMPOSITE"} /\ channel[i].inside.pad > 0
    /\ Misbehave([channel EXCEPT ![i].altered = "PADDING", ![i].inside.even = FALSE])
ChangeType(i, type) ==
    /\ channel[i].type \notin {"CCS", type}
    /\ Misbehave([channel EXCEPT ![i].altered = "HEADER", ![i].type = type])

RecordsNext ==
    \/ \E type \in {"APPLICATION_DATA", "HANDSHAKE"}, size \in WriteSizes, more \in ForeignPads \cup {0} :
          WriteRecord(type, size, more)
    \/ /\ Unprotected("CCS") => writer.initial_seq = SeqZero   \* s2n-tls sends one
       /\ WriteRecord("CCS", 1, 0)
    \/ \E length \in FragmentSizes : SetFragment(length)
    \/ ReleaseOut
    \/ \E junk \in JunkBytes : ReadRecord(junk)
    \/ \E i \in DOMAIN channel :
          \/ Lose(i) \/ Repeat(i) \/ Reorder(i) \/ Change(i) \/ ChangePadding(i)
          \/ \E type \in {"ALERT", "HANDSHAKE"} : ChangeType(i, type)

RecordsSpec == HashesInit /\ RecordsInit /\ [][RecordsNext /\ UNCHANGED hvars]_<<rvars, hvars>>

-----------------------------------------------------------------------------
(* What the network may change and the reader not notice: in TLS 1.3 the    *)
(* type in the header, in SSLv3 the bytes of the padding.                   *)
Unnoticed == {<<TLS13, "HEADER">>, <<SSLv3, "PADDING">>}

(* What the reader accepts and the network has not altered is what the      *)
(* writer was given, in that order, with its type and without the padding.  *)
(* What has been altered is refused, with two exceptions: the padding of    *)
(* SSLv3, and the type in a header of TLS 1.3, which is not authenticated.  *)
(* A record that it makes an alert is read in the clear; made a handshake   *)
(* record it is opened, in its place, and keeps the padding and the type    *)
(* inside.  Nothing is refused that arrives as it was written, whichever    *)
(* peer padded it, and no nonce is used twice (s2n_record_writev,           *)
(* s2n_record_parse, s2n_read_full_record, s2n_verify_cbc and the ciphers,  *)
(* IV chaining of SSLv3 and TLS 1.0 and key streams included).              *)
RecordsIntact ==
    /\ \A i \in DOMAIN got : got[i].altered = "NO" \/ <<params.version, got[i].altered>> \in Unnoticed
    /\ \A opened \in {SelectSeq(got, LAMBDA g : ~s2n_is_tls13_plaintext_content(g.type) \/ g.altered = "NO")} :
        /\ Len(opened) <= Len(sent)
        /\ \A i \in DOMAIN opened :
             /\ opened[i].id = sent[i].id
             /\ opened[i].altered # "HEADER" => opened[i].type = sent[i].type /\ opened[i].n = sent[i].n
             /\ opened[i].altered = "HEADER" => opened[i].n > sent[i].n
    /\ faults = 0 => ~reader.failed /\ (channel = <<>> => Len(got) = Len(sent))
    /\ \A i, j \in DOMAIN nonces : i # j => nonces[i] # nonces[j]
    /\ writer.error = "NONE" /\ faults = 0 =>
         s2n_sequence_number_to_uint64(writer.seq) - s2n_sequence_number_to_uint64(reader.seq) = Len(sent) - Len(got)

(* A write fails only at the end of the sequence numbers, or when it would  *)
(* send application data in the clear; the length in the header is that of  *)
(* the record in the buffer; a record of the small payload size fits one    *)
(* Ethernet frame; and the check of a CBC record takes the same number of   *)
(* hash rounds, and reads inside the record, whatever its padding is        *)
(* (s2n_record_writev, s2n_connection_set_max_fragment_length,              *)
(* s2n_record_min_write_payload_size, s2n_verify_cbc).                      *)
RecordSizesRight ==
    /\ writer.error = "ENCRYPT" => params.alg = "null"
    /\ writer.error = "RECORD_LIMIT" => s2n_sequence_number_to_uint64(writer.seq) = (SeqBase ^ SeqLen) - 1
    /\ writer.error \in {"NONE", "ENCRYPT", "RECORD_LIMIT"}
    /\ \A i \in DOMAIN channel : channel[i].len = channel[i].size
    /\ set_key_accepts(Alg(params.alg).cipher)
    /\ \A ipv6 \in BOOLEAN :
         LET n == s2n_record_min_write_payload_size(ipv6)
         IN  n > 0 /\ HEADER + actual_fragment_length(params.alg, n) <= ETH_MTU - (IF ipv6 THEN 40 ELSE 20) - 20 - 40
    /\ probe.size > 0 => /\ CbcCheck(probe.alg, probe.size, probe.pad).rounds = CbcCheck(probe.alg, probe.size, 0).rounds
                         /\ CbcCheck(probe.alg, probe.size, probe.pad).reads <= probe.size

(* Records carry the stream and fit where they go: the two properties above. *)
RecordsRight == RecordsIntact /\ RecordSizesRight

=============================================================================
