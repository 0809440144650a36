SPECIFICATION Spec
CONSTANTS
    n1 = n1
    n2 = n2
    x1 = x1
    A = A
    B = B
    C = C
    D = D
    Genesis = Genesis
    Nodes = {n1, n2}
    Validators = {n1, n2, x1}
    Units <- ThirdUnits
    Owner <- ThirdOwner
    finalityNum = 2
    finalityDen = 3
    Hashes = {A, B, C}
    Height <- MCHeight
    Prev <- MCPrev
    Round <- MCRound
    Proposer <- MCProposer
    Seed <- MCSeed
    Adversary <- ThirdAdversary
    MAX_ATTESTATIONS_PER_SIDE = 8
    MAX_PROOFS_PER_SLASH = 8
    MAX_FUTURE_HEIGHTS = 1
    MAX_PENDING_PER_HEIGHT = 2
    MAX_KNOWN_AT_HEIGHT = 2
    MAX_OBSERVED_CONFLICTS = 2
    MAX_ATTESTED_HASHES = 3
    MAX_HASHES_PER_VALIDATOR = 3
INVARIANTS
    AccountableSafety
