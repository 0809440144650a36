SPECIFICATION FairSpec
CONSTANTS
    n1 = n1
    n2 = n2
    n3 = n3
    x1 = x1
    A = A
    B = B
    C = C
    D = D
    G = G
    S = S
    Genesis = Genesis
    Nodes = {n1, n2, n3}
    Validators = {n1, n2, n3, x1}
    Units <- MCUnits
    Owner <- MCOwner
    finalityNum = 2
    finalityDen = 3
    Hashes = {A, C}
    Height <- MCHeight
    Prev <- MCPrev
    Round <- MCRound
    Proposer <- MCProposer
    Seed <- MCSeed
    Registered <- MCRegistered
    Topologies <- Split
    Strays <- LateVote
    MAX_ATTESTATIONS_PER_SIDE = 8
    MAX_PROOFS_PER_SLASH = 8
    MAX_FUTURE_HEIGHTS = 1
    MAX_PENDING_PER_HEIGHT = 2
    MAX_KNOWN_AT_HEIGHT = 2
    MAX_OBSERVED_CONFLICTS = 2
    MAX_ATTESTED_HASHES = 3
    MAX_HASHES_PER_VALIDATOR = 2
PROPERTIES
    NoSplitBrain
CHECK_DEADLOCK FALSE
