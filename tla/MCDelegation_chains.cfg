SPECIFICATION ChainSpec
CONSTANTS
    root = root
    p = p
    x = x
    read = read
    pay = pay
    shop = shop
    None = None
    NaN = NaN
    ActiveSuites = {"PS-5"}
    Suites = {"PS-5", "PS-5-HQC"}
    MAX_CHAIN_LINKS = 3
    Authorities = {root}
    Holders = {p}
    RootSpecs <- MCRootSpecs
    Restrictions <- MCRestrictions
    Subjects = {p, x}
    WireLinks <- MCWireLinks
    IntentSpace <- MCIntents
    Contexts <- MCContexts
    MaxCaps = 4
    MaxLen = 4
INVARIANTS
    IInv
    NoAmplification
    ConsentOfHolders
CHECK_DEADLOCK FALSE
