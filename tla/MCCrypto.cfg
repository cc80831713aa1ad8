SPECIFICATION CryptoSpec
CONSTANTS
    Setups <- MCSetups
    MaxUpdates <- MCMaxUpdates
    HashAlgs = {"SHA1", "MD5", "MD5_SHA1"}
    HmacAlgs = {"SHA1", "SHA384", "SSLv3_SHA1"}
    Sizes = {13, 55}
    KeySizes = {20, 65}
    MaxChunks = 2
    MaxHashCalls = 5
    RecordSuites = {"null_cipher_suite", "rsa_with_rc4_128_md5", "rsa_with_3des_ede_cbc_sha",
                    "rsa_with_aes_128_cbc_sha",
                    "ecdhe_rsa_with_aes_256_cbc_sha384", "rsa_with_aes_128_gcm_sha256",
                    "ecdhe_rsa_with_chacha20_poly1305_sha256", "tls13_aes_256_gcm_sha384"}
    RecordVersions = {31, 33, 34}
    WriteSizes = {0, 20000}
    FragmentSizes = {16384}
    ForeignPads = {16}
    JunkBytes = {0, 255}
    SeqBase = 2
    SeqLen = 2
    SeqStarts = {0, 2}
    MaxRecords = 2
    MaxFaults = 1
    CbcSizes = {48, 64, 80, 128, 256, 272, 320}
INVARIANTS
    SecretsRight
    DigestsRight
    RecordsRight
CHECK_DEADLOCK FALSE
