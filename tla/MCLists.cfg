INIT MCInit
NEXT MCNext
CONSTANTS
    m1 = m1
    m2 = m2
    o1 = o1
    va = va
    vb = vb
    vc = vc
    Nothing = Nothing
    Proposals <- MCProposals
    members = {m1, m2}
    threshold = 2
    Others = {o1}
    VERIFIES_PER_MEMBER = 1
    MIN_VERIFIES = 3
    MaxApprovals = 4
    MaxTime = 1
    trustedAttesters = {"a", "b"}
    acceptedFormats = {"software-dev", "tdx"}
    acceptedSuites = {"PS-5"}
    quoteFormats = {"tdx"}
    MAX_EVIDENCES = 3
    Offered <- MCOffered
    nRequired = 2
    expectedNonce = "n1"
    MaxEvidence = 4
    MaxClock = 3
    Validators <- MCValidators
    Units = {1, 2, 3, 4}
    Owner <- MCOwner
    finalityNum = 2
    finalityDen = 3
    Votes <- MCVotes
    Attestations <- MCAttestations
    Blocks <- MCBlocks
    Sets <- MCSets
    Fractions <- MCFractions
    Draw <- MCDraw
    LegacySeed <- MCSeed
    VOTES_PER_VALIDATOR = 1
    MIN_VOTES = 3
    MaxLists = 4
    Bodies <- MCBodies
    Cosignatures <- MCCosignatures
    Thresholds = {0, 1, 2, 3}
    Epochs = {1, 2}
    SIGS_PER_MEMBER = 1
    MIN_SIGS = 3
    MaxCosigned = 4
    EvmSets <- MCEvmSets
    EvmSignatures <- MCEvmSignatures
    EvmFractions <- MCEvmFractions
    EvmSuites = {"PS-5", "none"}
    KnownSuites = {"PS-5"}
    BlockHashes = {"A", "B"}
    EvmHeights = {1}
    Targets <- MCTargets
    Here <- MCHere
    Word = 31
    MAX_VALIDATORS = 3
    MAX_ATTESTATIONS = 3
    MaxEvmList = 4
INVARIANTS
    QuorumDecides
    QuorumHolds
    OnlyEarnedFinality
    EarnedFinalityCounts
    CosignedExactly
    
    BlameExact
CHECK_DEADLOCK FALSE
