CHECK_DEADLOCK FALSE
CONSTANTS
    apsu_serialization_version = 1
    max_label_byte_count = 1024
    max_nonce_byte_count = 16
    Items = {"x", "y"}
    NoItem = "empty"
    Receivers <- MCOneReceiver
    BundleCount = 3
    ItemsPerBundle = 2
    QueryPowers <- MCQueryPowers
    Context = "ours"
    SenderParameters <- MCSame
    Caches <- MCUneven
    Threads = 2
    Askers <- MCNobody
    Troubles <- MCNoTrouble
SPECIFICATION Spec
INVARIANTS
    MasksMatch
