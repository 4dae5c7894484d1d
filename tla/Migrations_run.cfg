SPECIFICATION FairSpec
CONSTANTS
    a1 = a1  a2 = a2  a3 = a3
    Actors <- MCActors
    Commands <- MCCommands
    MaxRuns = 3
    MaxFaults = 1
INVARIANTS
    VersionMatchesSchema
    NullsOnlyWhereAllowed
    UpgradesDisturbNobody
PROPERTIES
    CommandsSerialize
    UpgradeFailsOnlyIfOvertaken
    CommandsEnd
