------------------------------ MODULE MCLibrary ------------------------------
(***************************************************************************)
(* The parts of the library that TLS is built on, each by itself: a        *)
(* behaviour is one of part's.                                             *)
(***************************************************************************)
EXTENDS Stuffer, Containers, Encodings, Random, ForkDetection

VARIABLE part

Parts == {"stuffer", "map", "set", "random", "fork", "encodings"}

Of(kind, args) == {[kind |-> kind, arg |-> a] : a \in args}

UpTo(set, n) == UNION {[1..k -> set] : k \in 0..n}

\* PEM texts: a line between dashes, and the base64 of some bytes.
Dashes(d) == [i \in 1..d |-> Tok("-")]
Line(marker, keyword, d) == Dashes(d) \o <<Tok(marker), Tok(keyword)>> \o Dashes(d)
Body(bytes) == LET c == s2n_stuffer_write_base64(bytes) IN [i \in DOMAIN c |-> [b64 |-> c[i]]]
Break(nl) == IF nl THEN <<Tok("nl")>> ELSE <<>>
Pem(keyword, bytes, nl, d) ==
    Line("BEGIN", keyword, d) \o Break(nl) \o Body(bytes) \o Break(nl) \o Line("END", keyword, d)

SomeBytes == {<<0>>, <<1, 255>>, <<0, 16, 255>>, <<5, 4, 3, 2>>}

KeyTexts == {[text |-> Pem(kw, b, nl, d), data |-> b, dashes |-> d] :
                kw \in {"RSA PRIVATE KEY", "EC PRIVATE KEY", "PRIVATE KEY"}, b \in SomeBytes,
                nl \in BOOLEAN, d \in {1, 64, 65}}
            \cup {[text |-> Pem("EC PARAMETERS", <<6, 5>>, nl, 5) \o Break(nl) \o Pem("EC PRIVATE KEY", b, nl, 5),
                   data |-> b, dashes |-> 5] : b \in SomeBytes, nl \in BOOLEAN}

\* Between certificates that are not broken a run of dashes has twice as many.
ChainTexts == {[text |-> Pem("CERTIFICATE", a, nl, d) \o Break(m) \o Pem("CERTIFICATE", b, nl, d),
                data |-> <<a, b>>] : a \in SomeBytes, b \in SomeBytes, nl \in BOOLEAN, m \in BOOLEAN,
                                     d \in {1, 32, 33, 64}}

Date == <<2, 0, 2, 1, 0, 6, 1, 5, 1, 2, 3, 0, 0, 0>>
Times == {[text |-> Date \o frac \o <<Zulu>>, tz |-> tz, then |-> d, now |-> e, sign |-> 1, offset |-> 0] :
            frac \in {<<>>, <<Dot, 5>>}, tz \in {-480, 0, 330}, d \in 0..1, e \in 0..1}
         \cup {[text |-> Date \o <<IF g = 1 THEN Plus ELSE Minus, h \div 10, h % 10, m \div 10, m % 10>>,
                tz |-> tz, then |-> d, now |-> e, sign |-> g, offset |-> 60 * h + m] :
                  tz \in {-480, 0, 330}, d \in 0..1, e \in 0..1, g \in {-1, 1}, h \in {0, 5, 23},
                  m \in {0, 15, 30}}

MCInputs == Of("bytes", UpTo({0, 1, 63, 255}, 4))
            \cup Of("chars", [1..4 -> {0, 1, 16, 63, PAD, NotBase64}] \cup [1..8 -> {1, 16, PAD}])
            \cup Of("key", KeyTexts)
            \cup Of("chain", ChainTexts)
            \cup Of("hex", UpTo({0, 10, SPACE, NotHex}, 5))
            \cup Of("ipv6", [1..8 -> 0..1])
            \cup Of("time", Times)
            \cup {[kind |-> "pkcs1", arg |-> [src |-> s, len |-> n]] : s \in [1..5 -> {0, 1, 2, 255}], n \in 1..3}

NoInput == [kind |-> "none", arg |-> <<>>]

\* What a part that does not take place starts with makes no difference.
Init == /\ part \in Parts
        /\ StufferInit
        /\ ContainersInit
        /\ RandomInit
        /\ ForkInit
        /\ part # "map" => \A k \in Keys : hash[k] = 0
        /\ part # "set" => array.mem = <<>>
        /\ part # "random" => ~kernel_wipes /\ proc.threads = {CHOOSE t \in Threads : TRUE}
        /\ part # "fork" => ~wipes
        /\ input \in IF part = "encodings" THEN Inputs ELSE {NoInput}

vars == <<part, stufferVars, containersVars, input, rvars, fdvars>>

Next == /\ UNCHANGED <<part, input>>
        /\ \/ /\ part = "stuffer" /\ StufferNext
              /\ UNCHANGED <<containersVars, rvars, fdvars>>
           \/ /\ part = "map" /\ MapNext
              /\ UNCHANGED <<stufferVars, rvars, fdvars>>
           \/ /\ part = "set" /\ SetNext
              /\ UNCHANGED <<stufferVars, rvars, fdvars>>
           \/ /\ part = "random" /\ RandomNext
              /\ UNCHANGED <<stufferVars, containersVars, fdvars>>
           \/ /\ part = "fork" /\ ForkNext
              /\ UNCHANGED <<stufferVars, containersVars, rvars>>

Spec == Init /\ [][Next]_vars

-----------------------------------------------------------------------------
\* Each part does what its callers rely on: stuffers keep no secret where a
\* wipe does not reach it (s2n_stuffer_wipe), containers hold what was put in
\* them (s2n_map_put, s2n_set_add), conversions compute what they are meant to
\* and random numbers are fresh and fair (s2n_get_random_data).
LibraryRight == CursorsInOrder /\ SecretsWiped /\ ContainersRight /\ EncodingsRight /\ RandomRight

=============================================================================
