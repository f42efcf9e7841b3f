SPECIFICATION Spec
CONSTANTS
    Requests = {policy}
    FeatureCount = 24
    RandomSizes = {3, 11, 12}
    RichSizes = {10, 13, 19}
    RoundSizes = {5}
CHECK_DEADLOCK FALSE
PROPERTY RoundsEnd
