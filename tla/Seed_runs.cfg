SPECIFICATION FairSpec
CONSTANTS
    NumSources = 2
    NumTriggers = 2
    Runs <- MCRuns
INVARIANTS
    OneRowPerName
    AllOrNothing
PROPERTIES
    RerunInsertsNothing
    RunsEnd
