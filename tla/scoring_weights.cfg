SPECIFICATION Spec
CONSTANTS
    none = none
    small = small
    full = full
    over = over
    lax = lax
    strict = strict
    empty = empty
    filtered = filtered
    unfiltered = unfiltered
    invalid = invalid
    Providers = {none, small, full, over}
    Address <- MCAddress
    Location <- MCLocation
    Features <- MCFeatures
    Stake <- MCStake
    Policies = {lax, strict, empty}
    RequiredLocation <- MCRequiredLocation
    RequiredFeatures <- MCRequiredFeatures
    MinStake <- MCMinStake
    AnyLocation = AnyLocation
    Lower <- MCLower
    Blank = {" "}
    One = 140
    Log10 <- MCLog10
    Region <- MCRegion
    CustomKinds = {"CustomScorer"}
    CustomScore <- MCCustomScore
    Faulty <- MCFaulty
    Calls = {filtered, unfiltered, invalid}
    PolicyOf <- MCPolicyOf
    Listed <- MCListed
    Names = {"stake", "location", "features", "custom"}
    Weights <- MCWeights
    MaxUpdates = 1
    MaxTunings = 1
CHECK_DEADLOCK FALSE
INVARIANTS
    TypeOK
    OneTable
PROPERTIES
    OnlyFaultyMissing
    BestFirst
    HalfUpdate
