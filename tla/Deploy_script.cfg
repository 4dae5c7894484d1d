SPECIFICATION FairSpec
CONSTANTS
    v1 = v1  v2 = v2  v3 = v3
    NoTag = NoTag
    Tags <- MCTags
    Head <- MCHead
    Good <- MCGood
    Services <- MCServices
    MaxFaults = 2
INVARIANTS
    SchemaNotBehindCode
    LastGoodIsGood
    OkIsUniform
    GoodDeploySucceeds
    RollbackRestores
PROPERTY
    DeployEnds
