SPECIFICATION Spec
CONSTANTS
    one = one
    two = two
    moved = moved
    split = split
    joined = joined
    first = first
    second = second
    ranks = ranks
    filters = filters
    Providers = {one, two, moved}
    Address <- MCAddress
    Location <- MCLocation
    Features <- MCFeatures
    Stake <- MCStake
    RequiredLocation <- MCRequiredLocation
    RequiredFeatures <- MCRequiredFeatures
    MinStake <- MCMinStake
    AnyLocation = AnyLocation
    Lower <- MCLower
    Blank = {" "}
    One = 140
    Log10 <- MCLog10
    Region <- MCRegion
    CustomKinds = {}
    CustomScore <- MCCustomScore
    Faulty = {}
    MaxAdds = 2
    Calls = {first, second, filters, ranks}
    Policies = {split, joined}
    PolicyOf <- MCPolicyOf
    Operation <- MCOperation
    ListOf <- MCListOf
    Words <- MCWords
    Weightings <- MCWeightings
    TopNs = {1}
    DefaultTopN = 2
    DefaultWeights <- MCDefaultWeights
    Capacity = 1
    MaxResets = 1
    NotCached = NotCached
CHECK_DEADLOCK FALSE
INVARIANTS
    TypeOK
    IndexExact
    ClearedForGood
    EmptyIsFresh
    StatsExact
    AnswersSuitKey
    TopNHonoured
