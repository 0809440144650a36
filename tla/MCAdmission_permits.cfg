SPECIFICATION MCSpec
CONSTANTS
    None = None
    NaN = NaN
    ActiveSuites = {"PS-5"}
    MAX_CHAIN_LINKS = 4
    Segments = {"data", "read", "mask", "drop", "pay", "wire", "boot"}
    policy <- MCPolicy
    trustedRoots = {"root"}
    MAX_CANDIDATES = 2
    Proposals <- MCProposals
    members = {"m1"}
    threshold = 1
    Others = {}
    VERIFIES_PER_MEMBER = 4
    MIN_VERIFIES = 4
    MaxApprovals = 1
    MaxTime = 2
    trustedAttesters = {"tee"}
    acceptedFormats = {"software"}
    acceptedSuites = {"PS-5"}
    quoteFormats = {}
    MAX_EVIDENCES = 4
    requireAttestedSession = TRUE
    permitTtlSeconds = 1
    Evidences <- MCEvidences
    Nonces = {"n1"}
    OutOfBand <- MCOutOfBand
    Intents <- MCIntents
    Presented <- MCPresented
    Aggregates = {1, 2}
    Audiences = {"bank", "kiosk"}
    Rogue = {"kiosk"}
    discharged = {"step-up-approval"}
    MaxMinted = 2
INVARIANTS
    RunsOnlyAdmitted
    AttestationLive
    RevocationBites
    HighTierControlled
    ReceiptsHold
CHECK_DEADLOCK FALSE
