SPECIFICATION Spec
CONSTANTS
    Conn = {c}
    Name = {n1, n2}
    Material = {k1, k2, k3}
    encrypt_decrypt_key_lifetime = 2
    decrypt_key_lifetime = 1
    S2N_MAX_TICKET_KEYS = 2
    S2N_MAX_TICKET_KEY_HASHES = 3
    Intro = {0, 3}
    MaxTime = 5
    MaxIssued = 1
SYMMETRY Symmetry
INVARIANTS
    KeysInOrder
    Tls12SessionHonoured
    PromiseCanBeKept
