-------------------------------- MODULE Hashes --------------------------------
(***************************************************************************)
(* crypto/s2n_hash.c and crypto/s2n_hmac.c: one interface to a hash, two   *)
(* implementations of it (the low-level functions of libcrypto, and the    *)
(* EVP ones that FIPS mode requires), and HMAC on top of either.           *)
(*                                                                         *)
(* Data is a sequence of chunks that know their length; a digest is the    *)
(* symbolic value of what was hashed.  The sizes are the real ones.        *)
(***************************************************************************)
EXTENDS Integers, Sequences, SequencesExt

CONSTANTS HashAlgs,     \* hash algorithms the calls are made with
          HmacAlgs,     \* and HMAC algorithms
          Sizes,        \* lengths of the pieces of data hashed
          KeySizes,     \* lengths of HMAC keys
          MaxChunks,    \* pieces of data a state absorbs
          MaxHashCalls  \* calls of a behaviour

VARIABLES crypto,   \* what the library was built with: FIPS mode, MD5_SHA1 of its own
          h,       \* two hash states
          m,       \* two HMAC states
          digest,    \* the last digest: what came out, what should have
          hcalls

hvars == <<crypto, h, m, digest, hcalls>>

Chunk(bytes, of) == [bytes |-> bytes, of |-> of]
Total(data) == FoldLeft(LAMBDA n, c : n + c.bytes, 0, data)

-----------------------------------------------------------------------------
(* A context of libcrypto. *)

NoCtx == [alloc |-> FALSE, md |-> "NONE", data |-> <<>>, md5 |-> FALSE]
NewCtx == [NoCtx EXCEPT !.alloc = TRUE]
CtxInit(c, md) == [c EXCEPT !.md = md, !.data = <<>>]
CtxUpdate(c, data) == [c EXCEPT !.data = @ \o data]
\* EVP_MD_CTX_md tells a context that was never initialised, or is gone.
CtxUsable(c) == c.alloc /\ c.md # "NONE"
CtxDigest(c) == <<"digest", c.md, c.data>>

-----------------------------------------------------------------------------
(* s2n_hash.c.  An operation returns whether it succeeded, and the state it *)
(* leaves.                                                                  *)

HashOk(s) == [ok |-> TRUE, s |-> s]
HashFail(s) == [ok |-> FALSE, s |-> s]
HashThen(r, Op(_)) == IF r.ok THEN Op(r.s) ELSE r

s2n_hash_digest_size(alg) ==
    CASE alg = "NONE" -> 0 [] alg = "MD5" -> 16 [] alg = "SHA1" -> 20 [] alg = "SHA224" -> 28
      [] alg = "SHA256" -> 32 [] alg = "SHA384" -> 48 [] alg = "SHA512" -> 64 [] alg = "MD5_SHA1" -> 36

s2n_hash_block_size(alg) == IF alg \in {"SHA384", "SHA512"} THEN 128 ELSE 64

IsMd5(alg) == alg \in {"MD5", "MD5_SHA1"}
s2n_hash_is_available(alg) == IsMd5(alg) => ~crypto.fips

\* Two contexts make MD5_SHA1: the low-level way always, the EVP way when
\* libcrypto has no such hash.
Split(alg) == alg = "MD5_SHA1" /\ (~crypto.fips \/ crypto.custom_md5_sha1)

ZeroHash == [hash_impl |-> "NULL", alg |-> "NONE", is_ready_for_input |-> FALSE,
             currently_in_hash |-> 0, ctx |-> NoCtx, md5_secondary |-> NoCtx]

s2n_hash_set_impl(s) == [s EXCEPT !.hash_impl = IF crypto.fips THEN "evp" ELSE "low"]

s2n_hash_new(s) ==
    IF crypto.fips
    THEN [s2n_hash_set_impl(s) EXCEPT !.ctx = NewCtx,
                !.md5_secondary = IF crypto.custom_md5_sha1 THEN NewCtx ELSE @,
                !.is_ready_for_input = FALSE, !.currently_in_hash = 0]
    \* s2n_low_level_hash_new zeroes the whole state, the pointer to itself
    \* included; its contexts are inside it.
    ELSE [ZeroHash EXCEPT !.ctx = NewCtx, !.md5_secondary = NewCtx]

s2n_digest_is_md5_allowed_for_fips(c) == crypto.fips /\ (crypto.always_md5 \/ (c.alloc /\ c.md5))

\* Low-level states have no such operation.
s2n_hash_allow_md5_for_fips(s) ==
    LET set == [s EXCEPT !.ctx.md5 = TRUE]
    IN  IF ~crypto.fips \/ ~s.ctx.alloc THEN HashFail(s)
        ELSE IF ~crypto.custom_md5_sha1 THEN HashOk(set)
        ELSE IF ~s.md5_secondary.alloc THEN HashFail(set)
        ELSE HashOk([set EXCEPT !.md5_secondary.md5 = TRUE])

Started(s, alg) == [s EXCEPT !.alg = alg, !.is_ready_for_input = TRUE, !.currently_in_hash = 0]

\* s2n_low_level_hash_init and s2n_evp_hash_init
ImplInit(s, alg) ==
    IF ~s.ctx.alloc THEN HashFail(s)
    ELSE IF alg = "NONE" THEN HashOk(Started(s, alg))
    ELSE IF Split(alg)
    THEN HashOk([Started(s, alg) EXCEPT !.ctx = CtxInit(@, "SHA1"), !.md5_secondary = CtxInit(@, "MD5")])
    ELSE HashOk([Started(s, alg) EXCEPT !.ctx = CtxInit(@, alg)])

s2n_hash_init(s, alg) ==
    IF s2n_hash_is_available(alg) \/ (IsMd5(alg) /\ s2n_digest_is_md5_allowed_for_fips(s.ctx))
    THEN ImplInit(s2n_hash_set_impl(s), alg)
    ELSE HashFail(s2n_hash_set_impl(s))

s2n_hash_update(s, data) ==
    LET counted == [s EXCEPT !.currently_in_hash = @ + Total(data)]
        fed     == [counted EXCEPT !.ctx = CtxUpdate(@, data)]
    IN  IF ~s.is_ready_for_input THEN HashFail(s)
        ELSE IF s.alg = "NONE" THEN HashOk(counted)
        ELSE IF ~CtxUsable(s.ctx) \/ (Split(s.alg) /\ ~CtxUsable(s.md5_secondary)) THEN HashFail(counted)
        ELSE IF Split(s.alg) THEN HashOk([fed EXCEPT !.md5_secondary = CtxUpdate(@, data)])
        ELSE HashOk(fed)

\* What s2n_hash_digest writes.
DigestOf(s) == IF s.alg = "NONE" THEN <<"none">>
             ELSE IF Split(s.alg) THEN <<"md5_sha1", CtxDigest(s.md5_secondary), CtxDigest(s.ctx)>>
             ELSE CtxDigest(s.ctx)

\* The EVP implementation is no longer ready when it finds the size wrong, the
\* low-level one still is, and takes any size for no hash at all.
s2n_hash_digest(s, size) ==
    LET ended == [s EXCEPT !.currently_in_hash = 0, !.is_ready_for_input = FALSE]
        fits  == size = s2n_hash_digest_size(s.alg)
    IN  IF ~s.is_ready_for_input THEN HashFail(s)
        ELSE IF s.alg = "NONE" /\ (fits \/ s.hash_impl = "low") THEN HashOk(ended)
        ELSE IF fits /\ CtxUsable(s.ctx) /\ (Split(s.alg) => CtxUsable(s.md5_secondary)) THEN HashOk(ended)
        ELSE IF s.hash_impl = "low" THEN HashFail(s) ELSE HashFail(ended)

s2n_hash_copy(to, from) ==
    LET fields  == [from EXCEPT !.ctx = to.ctx, !.md5_secondary = to.md5_secondary]
        first   == [fields EXCEPT !.ctx = from.ctx]
        second  == IF Split(from.alg) THEN [first EXCEPT !.md5_secondary = from.md5_secondary] ELSE first
        allowed == s2n_digest_is_md5_allowed_for_fips(from.ctx) /\ IsMd5(from.alg)
        CtxCopies(c, d) == c.alloc /\ CtxUsable(d)     \* EVP_MD_CTX_copy_ex(c, d)
    IN  IF from.hash_impl = "low" THEN HashOk(from)
        ELSE IF from.alg = "NONE" THEN HashOk(fields)
        ELSE IF ~CtxCopies(to.ctx, from.ctx) THEN HashFail(fields)
        ELSE IF Split(from.alg) /\ ~CtxCopies(to.md5_secondary, from.md5_secondary) THEN HashFail(first)
        ELSE IF allowed THEN s2n_hash_allow_md5_for_fips(second) ELSE HashOk(second)

s2n_hash_reset(s) ==
    LET keep    == IsMd5(s.alg) /\ s2n_digest_is_md5_allowed_for_fips(s.ctx)
        Clear(c) == IF c.alloc THEN NewCtx ELSE c
        cleared == [s2n_hash_set_impl(s) EXCEPT !.ctx = Clear(@),
                        !.md5_secondary = IF Split(s.alg) THEN Clear(@) ELSE @]
    IN  IF ~crypto.fips THEN ImplInit(s2n_hash_set_impl(s), s.alg)
        ELSE IF keep THEN HashThen(s2n_hash_allow_md5_for_fips(cleared), LAMBDA t : ImplInit(t, s.alg))
        ELSE ImplInit(cleared, s.alg)

s2n_hash_free(s) ==
    LET t == [s2n_hash_set_impl(s) EXCEPT !.is_ready_for_input = FALSE]
    IN  IF ~crypto.fips THEN t
        ELSE [t EXCEPT !.ctx = NoCtx, !.md5_secondary = IF crypto.custom_md5_sha1 THEN NoCtx ELSE @]

-----------------------------------------------------------------------------
(* s2n_hmac.c *)

Sslv3(alg) == alg \in {"SSLv3_MD5", "SSLv3_SHA1"}

s2n_hmac_hash_alg(alg) ==
    CASE alg = "SSLv3_MD5" -> "MD5" [] alg = "SSLv3_SHA1" -> "SHA1" [] OTHER -> alg

s2n_hmac_is_available(alg) == alg = "MD5" \/ Sslv3(alg) => ~crypto.fips

s2n_hmac_hash_block_size(alg) == s2n_hash_block_size(s2n_hmac_hash_alg(alg))

s2n_hmac_xor_pad_size(alg) ==
    CASE alg = "SSLv3_MD5" -> 48 [] alg = "SSLv3_SHA1" -> 40 [] OTHER -> s2n_hmac_hash_block_size(alg)

ZeroHmac == [alg |-> "NONE", hash_block_size |-> 0, currently_in_hash_block |-> 0, xor_pad_size |-> 0,
             digest_size |-> 0, inner |-> ZeroHash, inner_just_key |-> ZeroHash,
             outer |-> ZeroHash, outer_just_key |-> ZeroHash]

\* Apply an operation on hashes to one of the four.
OnHash(s, f, Op(_)) == LET r == Op(s[f]) IN [ok |-> r.ok, s |-> [s EXCEPT ![f] = r.s]]
Hashes4 == <<"inner", "inner_just_key", "outer", "outer_just_key">>
OnHashes(s, Op(_, _)) == FoldLeft(LAMBDA r, f : HashThen(r, LAMBDA t : OnHash(t, f, LAMBDA x : Op(x, f))), HashOk(s), Hashes4)

s2n_hmac_new(s) == [s EXCEPT !.inner = s2n_hash_new(@), !.inner_just_key = s2n_hash_new(@),
                             !.outer = s2n_hash_new(@), !.outer_just_key = s2n_hash_new(@)]

s2n_hmac_free(s) == [s EXCEPT !.inner = s2n_hash_free(@), !.inner_just_key = s2n_hash_free(@),
                              !.outer = s2n_hash_free(@), !.outer_just_key = s2n_hash_free(@)]

\* Mutant: the bytes of the key are not counted.
s2n_hmac_reset_ForgetsKey(s) ==
    IF s.hash_block_size = 0 THEN HashFail(s)
    ELSE HashThen(OnHash(s, "inner", LAMBDA x : s2n_hash_copy(x, s.inner_just_key)),
              LAMBDA t : HashOk([t EXCEPT !.currently_in_hash_block = 0]))

s2n_hmac_reset(s) ==
    IF s.hash_block_size = 0 THEN HashFail(s)
    ELSE HashThen(OnHash(s, "inner", LAMBDA x : s2n_hash_copy(x, s.inner_just_key)), LAMBDA t :
         IF ~t.inner.is_ready_for_input THEN HashFail(t)
         ELSE HashOk([t EXCEPT !.currently_in_hash_block = t.inner.currently_in_hash % t.hash_block_size]))

\* The key under a pad: hashed first when it is longer than the pad.
PaddedKey(pad, size, key) == <<Chunk(size, <<"pad", pad, key>>)>>
PadChunk(pad, size) == <<Chunk(size, <<"pad", pad, <<>>>>)>>

\* s2n_sslv3_mac_init and s2n_tls_hmac_init, which uses the outer hash for the key
s2n_sslv3_mac_init(s, key) ==
    HashThen(OnHash(s, "inner_just_key", LAMBDA x : s2n_hash_update(x, <<key>> \o PadChunk(54, s.xor_pad_size))),
         LAMBDA t : OnHash(t, "outer_just_key", LAMBDA x : s2n_hash_update(x, <<key>> \o PadChunk(92, s.xor_pad_size))))

s2n_tls_hmac_init(s, key) ==
    LET long   == key.bytes > s.xor_pad_size
        hashed == HashThen(OnHash(s, "outer", LAMBDA x : s2n_hash_update(x, <<key>>)),
                       LAMBDA t : OnHash(t, "outer", LAMBDA x : s2n_hash_digest(x, s.digest_size)))
        r      == IF long THEN hashed ELSE HashOk(s)
        pad    == IF long THEN <<"digest", s2n_hmac_hash_alg(s.alg), <<key>>>> ELSE key.of
    IN  HashThen(r, LAMBDA t :
        HashThen(OnHash(t, "inner_just_key", LAMBDA x : s2n_hash_update(x, PaddedKey(54, s.xor_pad_size, pad))),
             LAMBDA u : OnHash(u, "outer_just_key", LAMBDA x : s2n_hash_update(x, PaddedKey(92, s.xor_pad_size, pad)))))

s2n_hmac_init(s, alg, key) ==
    LET sized == [s EXCEPT !.alg = alg, !.hash_block_size = s2n_hmac_hash_block_size(alg),
                           !.currently_in_hash_block = 0, !.xor_pad_size = s2n_hmac_xor_pad_size(alg),
                           !.digest_size = s2n_hash_digest_size(s2n_hmac_hash_alg(alg))]
    IN  IF ~s2n_hmac_is_available(alg) THEN HashFail(s)
        ELSE HashThen(OnHashes(sized, LAMBDA x, f : s2n_hash_init(x, s2n_hmac_hash_alg(alg))), LAMBDA t :
             HashThen(IF Sslv3(alg) THEN s2n_sslv3_mac_init(t, key) ELSE s2n_tls_hmac_init(t, key), s2n_hmac_reset))

\* 4294949760, as a number modulo 2^32
HIGHEST_32_BIT == 0 - 17536

s2n_hmac_update(s, data) ==
    LET value == (HIGHEST_32_BIT + Total(data)) % s.hash_block_size
        t     == [s EXCEPT !.currently_in_hash_block = (@ + value) % s.hash_block_size]
    IN  IF s.hash_block_size = 0 \/ Total(data) > 17535 THEN HashFail(s)
        ELSE OnHash(t, "inner", LAMBDA x : s2n_hash_update(x, data))

\* The outer hash before s2n_hmac_digest's last call
HmacOuter(s) ==
    LET digest_pad == <<Chunk(s.digest_size, DigestOf(s.inner))>>
    IN  HashThen(OnHash(s, "inner", LAMBDA x : s2n_hash_digest(x, s.digest_size)), LAMBDA t :
        HashThen(OnHash(t, "outer", LAMBDA x : s2n_hash_copy(x, t.outer_just_key)), LAMBDA u :
             OnHash(u, "outer", LAMBDA x : s2n_hash_update(x, digest_pad))))

s2n_hmac_digest(s, size) == HashThen(HmacOuter(s), LAMBDA t : OnHash(t, "outer", LAMBDA x : s2n_hash_digest(x, size)))

\* What it writes
HmacDigest(s) == DigestOf(HmacOuter(s).s.outer)

\* The bytes the end of the data and its length need in the last block.
SpaceLeft(s) == IF s.hash_block_size = 128 THEN 17 ELSE 9

\* The rounds the padding costs when a context is finished.
FinalRounds(c) ==
    LET block == s2n_hash_block_size(c.md)
        size  == IF block = 128 THEN 16 ELSE 8
    IN  IF (Total(c.data) % block) + 1 + size > block THEN 2 ELSE 1

ExtraRound(s) == s.currently_in_hash_block <= s.hash_block_size - SpaceLeft(s)

s2n_hmac_digest_two_compression_rounds(s, size) ==
    HashThen(s2n_hmac_digest(s, size), LAMBDA t :
    IF ~ExtraRound(t) THEN HashOk(t)
    ELSE HashThen(OnHash(t, "inner", s2n_hash_reset), LAMBDA u :
              OnHash(u, "inner", LAMBDA x : s2n_hash_update(x, PadChunk(0, s.hash_block_size)))))

\* Rounds of compression of the inner hash during that call.
Rounds(s) == FinalRounds(s.inner.ctx) + (IF ExtraRound(s) THEN 1 ELSE 0)

s2n_hmac_copy(to, from) ==
    OnHashes([from EXCEPT !.inner = to.inner, !.inner_just_key = to.inner_just_key,
                       !.outer = to.outer, !.outer_just_key = to.outer_just_key],
          LAMBDA x, f : s2n_hash_copy(x, from[f]))

\* s2n_connection_wipe: the state is zeroed, its contexts are saved and put
\* back (s2n_hmac_save_evp_hash_state, s2n_hmac_restore_evp_hash_state).
s2n_hmac_restore_evp_hash_state(s) ==
    LET Kept(x) == [ZeroHash EXCEPT !.ctx = x.ctx, !.md5_secondary = x.md5_secondary]
    IN  [ZeroHmac EXCEPT !.inner = Kept(s.inner), !.inner_just_key = Kept(s.inner_just_key),
                         !.outer = Kept(s.outer), !.outer_just_key = Kept(s.outer_just_key)]

-----------------------------------------------------------------------------
(* The calls.  "fed" is what a state should have absorbed since it was      *)
(* initialised, reset or made a copy; "live" that a digest can be taken;    *)
(* "failed" that its last call failed.  Every caller gives up then          *)
(* (POSIX_GUARD): the state is next initialised, reset, wiped, freed or     *)
(* copied onto, and an HMAC, which a reset leaves keyed, not reset either.  *)

NoDigest == [out |-> <<"none">>, want |-> <<"none">>, rounds |-> 2]

HashesInit ==
    /\ crypto \in {b \in [fips : BOOLEAN, custom_md5_sha1 : BOOLEAN, always_md5 : BOOLEAN] :
                     b.always_md5 => b.fips}
    /\ h = [i \in 1..2 |-> [s |-> s2n_hash_new(ZeroHash), live |-> FALSE, failed |-> FALSE,
                            alg |-> "NONE", fed |-> <<>>]]
    /\ m = [i \in 1..2 |-> [s |-> s2n_hmac_new(ZeroHmac), live |-> FALSE, failed |-> FALSE,
                            alg |-> "NONE", key |-> 0, fed |-> <<>>]]
    /\ digest = NoDigest
    /\ hcalls = 0

KeyChunk(n) == Chunk(n, <<"key", n>>)
DataChunk(n, k) == Chunk(n, <<"data", k>>)

\* What the two kinds of state promise.
HashOf(alg, data) == IF alg = "NONE" THEN <<"none">>
                     ELSE IF Split(alg)
                     THEN <<"md5_sha1", <<"digest", "MD5", data>>, <<"digest", "SHA1", data>>>>
                     ELSE <<"digest", alg, data>>

MacOf(alg, k, text) ==
    LET hash == s2n_hmac_hash_alg(alg)
        B    == s2n_hash_block_size(hash)
        K    == IF k > B THEN HashOf(hash, <<KeyChunk(k)>>) ELSE KeyChunk(k).of
        sslv3(pad) == <<KeyChunk(k)>> \o PadChunk(pad, IF hash = "MD5" THEN 48 ELSE 40)
        keyed(pad) == IF Sslv3(alg) THEN sslv3(pad) ELSE PaddedKey(pad, B, K)
        inside == HashOf(hash, keyed(54) \o text)
    IN  HashOf(hash, keyed(92) \o <<Chunk(s2n_hash_digest_size(hash), inside)>>)

HashCall == hcalls < MaxHashCalls /\ hcalls' = hcalls + 1

\* Update, digest and copy follow hash_impl, which the first initialisation
\* sets; no caller calls them before it.
HasImpl(s) == s.hash_impl # "NULL"

HashInit(i, alg) ==
    LET r == s2n_hash_init(h[i].s, alg)
    IN  h' = [h EXCEPT ![i] = IF r.ok THEN [s |-> r.s, live |-> TRUE, failed |-> FALSE, alg |-> alg, fed |-> <<>>]
                              ELSE [@ EXCEPT !.s = r.s, !.failed = TRUE]]

HashUpdate(i, n) ==
    LET chunk == <<DataChunk(n, Len(h[i].fed))>>
        r == s2n_hash_update(h[i].s, chunk)
    IN  /\ ~h[i].failed /\ HasImpl(h[i].s) /\ Len(h[i].fed) < MaxChunks
        /\ h' = [h EXCEPT ![i].s = r.s, ![i].failed = ~r.ok, ![i].fed = IF r.ok THEN @ \o chunk ELSE @]

HashReset(i) ==
    LET r == s2n_hash_reset(h[i].s)
    IN  h' = [h EXCEPT ![i].s = r.s, ![i].live = r.ok, ![i].failed = ~r.ok, ![i].fed = <<>>]

HashCopy(i, j) ==
    LET r == s2n_hash_copy(h[j].s, h[i].s)
    IN  /\ ~h[i].failed /\ HasImpl(h[i].s)
        /\ h' = [h EXCEPT ![j] = [h[i] EXCEPT !.s = r.s, !.live = @ /\ r.ok, !.failed = ~r.ok]]

HashDigest(i, size) ==
    LET r == s2n_hash_digest(h[i].s, size)
    IN  /\ ~h[i].failed /\ HasImpl(h[i].s)
        /\ h' = [h EXCEPT ![i].s = r.s, ![i].live = @ /\ r.s.is_ready_for_input, ![i].failed = ~r.ok]
        /\ digest' = IF r.ok THEN [out |-> DigestOf(h[i].s),
                                  want |-> IF h[i].live THEN HashOf(h[i].alg, h[i].fed) ELSE <<"refused">>,
                                  rounds |-> 2]
                   ELSE digest

HashFree(i) == h' = [h EXCEPT ![i].s = s2n_hash_free(@), ![i].live = FALSE, ![i].failed = FALSE]

HashAllow(i) ==
    LET r == s2n_hash_allow_md5_for_fips(h[i].s)
    IN  h' = [h EXCEPT ![i].s = r.s, ![i].failed = @ \/ ~r.ok]

HashNext ==
    /\ HashCall /\ UNCHANGED <<crypto, m>>
    /\ \/ \E i \in 1..2 : /\ UNCHANGED digest
                          /\ \/ \E alg \in HashAlgs : HashInit(i, alg)
                             \/ \E n \in Sizes : HashUpdate(i, n)
                             \/ HashReset(i)
                             \/ HashCopy(i, 3 - i)
                             \/ HashFree(i)
                             \/ HashAllow(i)
       \/ \E i \in 1..2 : \E size \in {s2n_hash_digest_size(h[i].s.alg), 1} : HashDigest(i, size)

HmacInit(i, alg, k) ==
    LET r == s2n_hmac_init(m[i].s, alg, KeyChunk(k))
    IN  m' = [m EXCEPT ![i] = IF r.ok THEN [s |-> r.s, live |-> TRUE, failed |-> FALSE,
                                                 alg |-> alg, key |-> k, fed |-> <<>>]
                              ELSE [@ EXCEPT !.s = r.s, !.failed = TRUE]]

HmacUpdate(i, n) ==
    LET chunk == <<DataChunk(n, Len(m[i].fed))>>
        r == s2n_hmac_update(m[i].s, chunk)
    IN  /\ m[i].live /\ ~m[i].failed /\ Len(m[i].fed) < MaxChunks
        /\ m' = [m EXCEPT ![i].s = r.s, ![i].failed = ~r.ok, ![i].fed = IF r.ok THEN @ \o chunk ELSE @]

HmacReset(i) ==
    LET r == s2n_hmac_reset(m[i].s)
    IN  /\ ~m[i].failed /\ HasImpl(m[i].s.inner_just_key)
        /\ m' = [m EXCEPT ![i].s = r.s, ![i].live = r.ok, ![i].failed = ~r.ok, ![i].fed = <<>>]

\* The users of HMAC reset it before they use it again.
HmacDone(i, r, rounds) ==
    /\ m[i].live /\ ~m[i].failed
    /\ m' = [m EXCEPT ![i].s = r.s, ![i].live = FALSE, ![i].failed = ~r.ok]
    /\ digest' = IF r.ok THEN [out |-> HmacDigest(m[i].s), want |-> MacOf(m[i].alg, m[i].key, m[i].fed),
                             rounds |-> rounds]
               ELSE digest

HmacCopy(i, j) ==
    LET r == s2n_hmac_copy(m[j].s, m[i].s)
    IN  /\ ~m[i].failed /\ HasImpl(m[i].s.inner)
        /\ m' = [m EXCEPT ![j] = [m[i] EXCEPT !.s = r.s, !.live = @ /\ r.ok, !.failed = ~r.ok]]

HmacWipe(i) == m' = [m EXCEPT ![i].s = s2n_hmac_restore_evp_hash_state(@), ![i].live = FALSE, ![i].failed = FALSE]

HmacFree(i) == m' = [m EXCEPT ![i].s = s2n_hmac_free(@), ![i].live = FALSE, ![i].failed = FALSE]

HmacNext ==
    /\ HashCall /\ UNCHANGED <<crypto, h>>
    /\ \/ \E i \in 1..2 : /\ UNCHANGED digest
                          /\ \/ \E alg \in HmacAlgs, k \in KeySizes : HmacInit(i, alg, k)
                             \/ \E n \in Sizes : HmacUpdate(i, n)
                             \/ HmacReset(i)
                             \/ HmacCopy(i, 3 - i)
                             \/ HmacWipe(i)
                             \/ HmacFree(i)
       \/ \E i \in 1..2 : HmacDone(i, s2n_hmac_digest(m[i].s, m[i].s.digest_size), 2)
       \* record_read_cbc.c only: a suite with a MAC
       \/ \E i \in 1..2 : /\ m[i].alg # "NONE"
                          /\ HmacDone(i, s2n_hmac_digest_two_compression_rounds(m[i].s, m[i].s.digest_size),
                                         Rounds(m[i].s))

HashesSpec == HashesInit /\ [][HashNext \/ HmacNext]_hvars

-----------------------------------------------------------------------------
(* Every digest is the hash, or the MAC, of exactly what was given since    *)
(* the state was initialised, reset or copied, whichever implementation is  *)
(* behind it and in whatever order states were copied, reset and freed, as  *)
(* long as a state whose last call failed is left alone; a state that was   *)
(* initialised can be used, and no other gives a digest; and                *)
(* the digest of a CBC record costs two rounds of compression whatever the  *)
(* record's length, so that time does not tell the padding (s2n_hash_copy,  *)
(* s2n_hash_reset, s2n_hmac_init, s2n_hmac_digest,                          *)
(* s2n_hmac_digest_two_compression_rounds).                                 *)
DigestsRight ==
    /\ digest.out = digest.want
    /\ digest.rounds = 2
    /\ \A i \in 1..2 : /\ h[i].live => h[i].s.is_ready_for_input
                       /\ h[i].live => h[i].s.currently_in_hash = Total(h[i].fed)
                       /\ m[i].live => m[i].s.inner.is_ready_for_input
=============================================================================
