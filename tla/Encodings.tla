------------------------------ MODULE Encodings ------------------------------
(***************************************************************************)
(* The conversions of the library that are pure computations on bytes:     *)
(* base64 and PEM (stuffer/), hexadecimal, IPv6 text, ASN.1 times and the  *)
(* constant-time helpers (utils/).  Each is an operator on sequences, and  *)
(* is compared with what it is meant to compute.                           *)
(*                                                                         *)
(* A state is one input: TLC visits every input of a kind.                 *)
(***************************************************************************)
EXTENDS Integers, Sequences, FiniteSets, SequencesExt, Bitwise

CONSTANT Inputs          \* the inputs examined, each [kind, arg]

VARIABLE input

Bad == <<-1>>            \* what a conversion that fails returns

\* F of a value that is computed once.
Given(x, F(_)) == CHOOSE y \in {F(v) : v \in {x}} : TRUE

(***************************************************************************)
(* Base64.  A character is its place in the alphabet; the tables b64 and   *)
(* b64_inverse are then the identity, with '=' at 64 and any other         *)
(* character at 255.                                                       *)
(***************************************************************************)
PAD == 64
NotBase64 == 255

s2n_is_base64_char(c) == c # NotBase64

\* One group of four characters from one to three bytes.
EncodeGroup(g) ==
    CASE Len(g) = 3 -> <<g[1] \div 4, (g[1] % 4) * 16 + g[2] \div 16,
                         (g[2] % 16) * 4 + g[3] \div 64, g[3] % 64>>
      [] Len(g) = 2 -> <<g[1] \div 4, (g[1] % 4) * 16 + g[2] \div 16, (g[2] % 16) * 4, PAD>>
      [] OTHER -> <<g[1] \div 4, (g[1] % 4) * 16, PAD, PAD>>

Groups(s, n) == [k \in 1..((Len(s) + n - 1) \div n) |->
                    SubSeq(s, (k - 1) * n + 1, IF k * n < Len(s) THEN k * n ELSE Len(s))]

s2n_stuffer_write_base64(bytes) ==
    LET gs == Groups(bytes, 3) IN FlattenSeq([k \in DOMAIN gs |-> EncodeGroup(gs[k])])

\* The bytes of a group of four characters, Bad when it is not canonical.
DecodeGroup(v) ==
    IF v[1] >= PAD \/ v[2] >= PAD \/ v[3] = NotBase64 \/ v[4] = NotBase64 THEN Bad
    ELSE IF v[3] = PAD
         THEN IF v[4] # PAD \/ v[2] % 16 # 0 THEN Bad ELSE <<v[1] * 4 + v[2] \div 16>>
    ELSE IF v[4] = PAD
         THEN IF v[3] % 4 # 0 THEN Bad
              ELSE <<v[1] * 4 + v[2] \div 16, (v[2] % 16) * 16 + v[3] \div 4>>
    ELSE <<v[1] * 4 + v[2] \div 16, (v[2] % 16) * 16 + v[3] \div 4, (v[3] % 4) * 64 + v[4]>>

\* Whole groups are read until one is short; what is left of a group stays.
s2n_stuffer_read_base64(chars) ==
    LET Read[s \in Seq(0..255)] ==
            IF Len(s) < 4 THEN <<>>
            ELSE Given(DecodeGroup(SubSeq(s, 1, 4)), LAMBDA g :
                    IF g = Bad \/ Len(g) < 3 THEN g
                    ELSE Given(Read[SubSeq(s, 5, Len(s))], LAMBDA t :
                            IF t = Bad THEN Bad ELSE g \o t))
    IN  Read[chars]

(***************************************************************************)
(* PEM.  A text is a sequence of tokens: dashes, the markers, keywords,    *)
(* base64 characters (as numbers) and "nl" for anything else.              *)
(***************************************************************************)
PemKeywords == {"RSA PRIVATE KEY", "EC PARAMETERS", "EC PRIVATE KEY", "PRIVATE KEY",
                "CERTIFICATE"}

\* The text from the first token that satisfies a test.
From(s, Test(_)) ==
    LET at == {i \in DOMAIN s : Test(s[i])}
    IN  IF at = {} THEN <<>> ELSE SubSeq(s, CHOOSE i \in at : \A j \in at : i <= j, Len(s))

Dash(t) == t = [pem |-> "-"]
Tok(t) == [pem |-> t]
NotDash(t) == ~Dash(t)

S2N_PEM_DELIMITER_MAX_COUNT == 64

\* s2n_stuffer_skip_expected_char: past a run of dashes, or as many as a line may have.
SkipDashes(s) ==
    LET run == Len(s) - Len(From(s, NotDash))
    IN  SubSeq(s, IF run < S2N_PEM_DELIMITER_MAX_COUNT THEN run + 1
                  ELSE S2N_PEM_DELIMITER_MAX_COUNT + 1, Len(s))

\* What follows an encapsulation line, Bad when the line is not there.  A run
\* of dashes that belongs to two lines loses all but its last dash, or the most
\* a line may have.
s2n_stuffer_pem_read_encapsulation_line(s, marker, keyword) ==
    Given(SkipDashes(From(s, Dash)), LAMBDA a :
        IF \/ Len(a) < 3 \/ a[1] # Tok(marker) \/ a[2] # Tok(keyword) \/ ~Dash(a[3]) THEN Bad
        ELSE Given(SkipDashes(SubSeq(a, 3, Len(a))), LAMBDA b :
                IF marker = "END" /\ b # <<>> /\ b[1] = Tok("BEGIN") THEN <<Tok("-")>> \o b
                ELSE From(b, LAMBDA t : t # Tok("nl"))))

IsBase64(t) == "b64" \in DOMAIN t

\* The contents up to the next dash; other characters are skipped.
s2n_stuffer_pem_read_contents(s) ==
    Given(From(s, Dash), LAMBDA rest :
        [rest |-> rest,
         asn1 |-> IF rest = <<>> THEN Bad
                  ELSE Given(SelectSeq(SubSeq(s, 1, Len(s) - Len(rest)), IsBase64), LAMBDA chars :
                            s2n_stuffer_read_base64([i \in DOMAIN chars |-> chars[i].b64]))])

NoPem == [ok |-> FALSE, asn1 |-> <<>>, rest |-> <<>>]

s2n_stuffer_data_from_pem(s, keyword) ==
    Given(s2n_stuffer_pem_read_encapsulation_line(s, "BEGIN", keyword), LAMBDA a :
        IF a = Bad THEN NoPem
        ELSE Given(s2n_stuffer_pem_read_contents(a), LAMBDA c :
                IF c.asn1 = Bad THEN NoPem
                ELSE Given(s2n_stuffer_pem_read_encapsulation_line(c.rest, "END", keyword), LAMBDA z :
                        IF z = Bad THEN [NoPem EXCEPT !.asn1 = c.asn1]
                        ELSE [ok |-> TRUE, asn1 |-> c.asn1, rest |-> z])))

\* The formats of a private key in the order they are tried; parameters of a
\* curve in front of its key are skipped.  asn1 keeps what a failed attempt
\* wrote, except that it is wiped before the EC key.
s2n_stuffer_private_key_from_pem(s) ==
    LET SkipParameters(params) == IF params.ok THEN params.rest ELSE s
        Ec == s2n_stuffer_data_from_pem(SkipParameters(s2n_stuffer_data_from_pem(s, "EC PARAMETERS")),
                                        "EC PRIVATE KEY")
    IN  Given(s2n_stuffer_data_from_pem(s, "RSA PRIVATE KEY"), LAMBDA rsa :
            IF rsa.ok THEN rsa
            ELSE Given(Ec, LAMBDA ec :
                    IF ec.ok THEN ec
                    ELSE [s2n_stuffer_data_from_pem(s, "PRIVATE KEY") EXCEPT !.asn1 = ec.asn1 \o @]))

(***************************************************************************)
(* Hexadecimal.  A character is its value, " " is a space, NotHex others.  *)
(***************************************************************************)
SPACE == 16
NotHex == 255

s2n_hex_string_to_bytes(str, size) ==
    LET At(i) == IF i > Len(str) THEN NotHex ELSE IF str[i] = SPACE THEN NotHex ELSE str[i]
        Read[j \in 1..(Len(str) + 2)] ==
            IF j > Len(str) THEN <<>>
            ELSE IF str[j] = SPACE THEN Read[j + 1]
            ELSE IF At(j) = NotHex \/ At(j + 1) = NotHex THEN Bad
            ELSE Given(Read[j + 2], LAMBDA t :
                    IF t = Bad THEN Bad ELSE <<At(j) * 16 + At(j + 1)>> \o t)
    IN  Given(Read[1], LAMBDA out : IF out # Bad /\ Len(out) <= size THEN out ELSE Bad)

(***************************************************************************)
(* IPv6 addresses as text: eight groups, the longest run of zero groups    *)
(* abbreviated.  The text is a sequence of groups and Colon.               *)
(***************************************************************************)
Colon == -2

ZeroRun(o) ==
    LET runs == {<<i, n>> \in (1..8) \X (0..8) :
                    i + n <= 9 /\ \A k \in i..(i + n - 1) : o[k] = 0}
    IN  CHOOSE r \in runs : \A q \in runs : q[2] < r[2] \/ (q[2] = r[2] /\ r[1] <= q[1])

s2n_inet_ntop(o) ==
    LET run == ZeroRun(o)
        Write[i \in 1..17] ==
            IF i > 8 THEN <<>>
            ELSE IF i = run[1] /\ run[2] > 1
                 THEN (IF i = 1 THEN <<Colon>> ELSE <<>>) \o (IF run[2] = 8 THEN <<Colon>> ELSE <<>>)
                        \o <<Colon>> \o Write[i + run[2]]
            ELSE <<o[i], Colon>> \o Write[i + 1]
        text == Write[1]
    IN  SubSeq(text, 1, Len(text) - 1)

(***************************************************************************)
(* ASN.1 times.  A character is a digit, or one of the names below.        *)
(***************************************************************************)
Dot == 10
Zulu == 11
Plus == 12
Minus == 13
Junk == 14

IsDigit(c) == c \in 0..9

\* The two-digit fields behind the year, in order, with their limits.
Fields == <<"mon", "mday", "hour", "min", "sec">>
Limit == [mon |-> 11, mday |-> 31, hour |-> 23, min |-> 59, sec |-> 59]

Number(s) == FoldLeft(LAMBDA n, d : n * 10 + d, 0, s)

NoTime == [ok |-> FALSE]

\* Fifteen digits, then fractions of a second, then the time zone.
process_state(s) ==
    LET Two(t, k) == Number(SubSeq(t, 2 * k, 2 * k + 1))
        Field(n) == Number(SubSeq(s, 3 + 2 * n, 4 + 2 * n)) - (IF n = 1 THEN 1 ELSE 0)
        InZone(zone) ==
            IF zone = <<>> THEN [ok |-> TRUE, local |-> TRUE, off |-> 0]
            ELSE IF zone[1] = Zulu THEN [ok |-> TRUE, local |-> FALSE, off |-> 0]
            ELSE IF \/ zone[1] \notin {Plus, Minus} \/ Len(zone) < 5
                    \/ \E i \in 2..5 : ~IsDigit(zone[i])
                    \/ \E k \in 1..2 : Two(zone, k) > 23
                 THEN NoTime
            ELSE [ok |-> TRUE, local |-> FALSE,
                  off |-> (IF zone[1] = Minus THEN -1 ELSE 1) * (Two(zone, 1) * 60 + Two(zone, 2))]
    IN  IF \/ Len(s) < 14
           \/ \E i \in 1..14 : ~IsDigit(s[i])
           \/ Number(SubSeq(s, 1, 4)) < 1900
           \/ \E n \in 1..5 : Field(n) \notin 0..Limit[Fields[n]]
        THEN NoTime
        ELSE InZone(From(SubSeq(s, 15, Len(s)), LAMBDA c : ~(IsDigit(c) \/ c = Dot)))

\* libc's mktime, in minutes: the fields are local time at that date.
mktime(utc, tz, dst) == utc - tz - 60 * dst

\* The minutes since the epoch of a date whose fields, read as UTC, are utc.
\* tz is the machine's offset without daylight saving, dst_then whether that
\* date has it, dst_now whether today has.
s2n_asn1_time_to_nano_since_epoch_ticks(p, utc, tz, dst_then, dst_now) ==
    LET clock_data == mktime(utc, tz, dst_then)
        gmt_offset_current == tz + 60 * dst_now
    IN  IF p.local THEN clock_data - p.off
        ELSE clock_data - (p.off - gmt_offset_current - 60 * (dst_then - dst_now))

(***************************************************************************)
(* Constant-time helpers.                                                  *)
(***************************************************************************)
ZeroMask(d) == ((d - 1) \div 256) % 256

s2n_constant_time_equals(a, b, len) ==
    FoldLeft(LAMBDA x, i : x | (a[i] ^^ b[i]), 0, [i \in 1..len |-> i]) = 0

s2n_constant_time_copy_or_dont(dest, src, dont) ==
    [i \in DOMAIN dest |-> dest[i] ^^ ((dest[i] ^^ src[i]) & ZeroMask(dont))]

s2n_constant_time_pkcs1_unpad_or_dont(dst, src, expectlen) ==
    LET srclen == Len(src)
        ends == (src[1] ^^ 0) | (src[2] ^^ 2) | src[srclen - expectlen]
        dont == FoldLeft(LAMBDA d, i : d | ZeroMask(src[i]), ends,
                         [k \in 1..(srclen - expectlen - 3) |-> k + 2])
    IN  IF srclen < expectlen + 3 THEN dst
        ELSE s2n_constant_time_copy_or_dont(dst, SubSeq(src, srclen - expectlen + 1, srclen), dont)

-----------------------------------------------------------------------------
EncodingsInit == input \in Inputs

-----------------------------------------------------------------------------
Is(kind) == input.kind = kind

\* What is encoded decodes to itself, and what decodes is the one encoding of
\* its bytes (s2n_stuffer_read_base64 refuses stray low bits and padding).
Base64Canonical ==
    /\ Is("bytes") => s2n_stuffer_read_base64(s2n_stuffer_write_base64(input.arg)) = input.arg
    /\ Is("chars") => \A b \in {s2n_stuffer_read_base64(input.arg)} :
                         b # Bad => IsPrefix(s2n_stuffer_write_base64(b), input.arg)

\* A key comes out of a PEM text as it went in, whatever format it is in and
\* whether or not curve parameters precede it; certificates follow one
\* another even without a line break between them; and a line with more
\* dashes than it may have is no line
\* (s2n_stuffer_private_key_from_pem, s2n_stuffer_certificate_from_pem).
PemFindsTheData ==
    /\ Is("key") => \A r \in {s2n_stuffer_private_key_from_pem(input.arg.text)} :
                       /\ r.ok <=> input.arg.dashes <= S2N_PEM_DELIMITER_MAX_COUNT
                       /\ r.ok => r.asn1 = input.arg.data
    /\ Is("chain") => \A r \in {s2n_stuffer_data_from_pem(input.arg.text, "CERTIFICATE")} :
                      \A q \in {s2n_stuffer_data_from_pem(r.rest, "CERTIFICATE")} :
                         r.ok /\ q.ok /\ <<r.asn1, q.asn1>> = input.arg.data

\* An instant does not depend on the time zone of the machine or on daylight
\* saving, then or now (s2n_asn1_time_to_nano_since_epoch_ticks).
InstantIsAbsolute ==
    Is("time") =>
        \A p \in {process_state(input.arg.text)}, t \in {input.arg} :
            p.ok /\ ~p.local =>
              s2n_asn1_time_to_nano_since_epoch_ticks(p, 1000, t.tz, t.then, t.now)
                = 1000 - t.sign * t.offset

\* Bytes leave the padding exactly when it is right PKCS#1 v1.5 padding, and
\* otherwise the random bytes stay (s2n_constant_time_pkcs1_unpad_or_dont).
UnpadExactly ==
    Is("pkcs1") =>
        LET s == input.arg.src
            n == input.arg.len
            dst == [i \in 1..n |-> 9]
            right == /\ Len(s) >= n + 3
                     /\ s[1] = 0 /\ s[2] = 2 /\ s[Len(s) - n] = 0
                     /\ \A i \in 3..(Len(s) - n - 1) : s[i] # 0
        IN  s2n_constant_time_pkcs1_unpad_or_dont(dst, s, n)
              = IF right THEN SubSeq(s, Len(s) - n + 1, Len(s)) ELSE dst

\* Spaces between the digits of bytes change nothing, a space or the end
\* within a byte is an error (s2n_hex_string_to_bytes).
HexReadsBytes ==
    Is("hex") =>
        LET s == input.arg
            digits == SelectSeq(s, LAMBDA c : c # SPACE)
            split == \E i \in DOMAIN s :
                        /\ s[i] = SPACE
                        /\ Len(SelectSeq(SubSeq(s, 1, i), LAMBDA c : c # SPACE)) % 2 = 1
        IN  s2n_hex_string_to_bytes(s, 2) =
                IF split \/ NotHex \in Range(s) \/ Len(digits) % 2 = 1 \/ Len(digits) > 4 THEN Bad
                ELSE [k \in 1..(Len(digits) \div 2) |-> digits[2 * k - 1] * 16 + digits[2 * k]]

\* The conversions compute what they are meant to.
EncodingsRight == /\ Base64Canonical
                  /\ PemFindsTheData
                  /\ HexReadsBytes
                  /\ InstantIsAbsolute
                  /\ UnpadExactly

=============================================================================
