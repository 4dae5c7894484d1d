SPECIFICATION Spec
CONSTANTS
    v1 = v1  v2 = v2  v3 = v3
    NoTag = NoTag
    Tags <- MCSameSchema
    Head <- MCSameHead
    Good <- MCSameGood
    Services <- MCServices
    MaxFaults = 1
INVARIANT
    RolledBack
