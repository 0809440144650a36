INIT MCInit
NEXT MCNext
CONSTANTS
    MAX_TREE_SIZE = 5
    ActiveSuites = {"PS-5"}
    Operators = {"op"}
    Views <- MCViews
    Claims <- MCClaims
    Shown <- MCShown
    trustedIssuer = "issuer"
    MaxHeads = 3
    MaxProof = 4
    Entries <- MCEntries
    MaxEntries = 3
    MaxRestarts = 3
    MaxFailures = 2
    Half = Half
    DEPTH = 3
    CapIds <- MCCapIds
    Accounts = {"acme", "bolt"}
    GrantNonces = {"n1", "n2"}
    Refs = {"r1", "r2"}
    Amounts = {0, 5}
    Tiers = {0, 2}
    MAX_SAFE_INTEGER = 8
    ledgerSuite = "PS_5"
    CreditSuites = {"PS_1", "PS_5", "PS_5_HQC"}
    activeSuites = {"PS_1", "PS_5"}
    MaxLedgers = 1
    Holders = {"ann", "ben", "cyd"}
    firstHolder = "ann"
    CaveatKinds <- MCCaveats
    baseExp = 2
    Requests <- MCRequests
    MAX_CAVEATS = 2
    MaxHandovers = 3
    L = 11
    MAX_BITS = 2
    MAX_SET_SIZE = 2
    Sample = {1, 7}
    MemberSets <- MCSets
    Bounds <- MCBounds
    BoundIntents <- MCIntents
    Salts = {"s1", "s2"}
    Nil = Nil
    Peers = {"p", "q"}
    Offers <- MCOffers
    MaxSessions = 2
    NoSuite = NoSuite
    Keys = {"k1", "k2"}
    Contexts = {"", "ctx"}
    Payloads = {"x", "y"}
    Algs = {"ML_DSA_87", "ML_DSA_65"}
    Profiles = {"EAT_RESULT", "SBOM"}
    SuiteIds = {"PS_1", "PS_5", "PS_5_FN", "PS_0"}
    KemIds = {"xwing", "mlkem1024p384", "hqc"}
    Parties = {"ann", "ben"}
    Unopened = Unopened
    BYTE = 8
    BASE = 5
    PublicKeys <- MCPublicKeys
    Multicodecs = {0, 1, 3, 4, 19}
    MAX_TIME = 60
    SECOND = 10
    Times <- MCTimes
    Resources = {"r", "s"}
    Undefined = Undefined
    NotFinite = NotFinite
    Thrown = Thrown
    RangeError = RangeError
INVARIANTS
    CreditsSound
    CaveatsExact
    OneOfKExact
    AmountsProven
    NegotiationSound
    MessagesBind
    ProfileFaithful
    SplitViewsExposed
    HistoryProvable
    
    
    RevocationsExact
CHECK_DEADLOCK FALSE
