\* The sender waits for ever for a receiver that threw or that cannot read its
\* query, and receivers for a sender that gave up: the exchange may stop.
CHECK_DEADLOCK FALSE
CONSTANTS
    apsu_serialization_version = 1
    max_label_byte_count = 1024
    max_nonce_byte_count = 16
    Items = {"x", "y"}
    NoItem = "empty"
    Receivers <- MCReceivers
    BundleCount = 2
    ItemsPerBundle = 2
    QueryPowers <- MCQueryPowers
    Context = "ours"
    SenderParameters <- MCSenderParameters
    Caches <- MCCaches
    Threads = 2
    Askers <- MCAskers
    Troubles <- MCTroubles
SPECIFICATION Spec
INVARIANTS
    SenderFileComplete
    MasksMatch
    AnswersAreAwaited
PROPERTIES
    AllWritten
