SPECIFICATION FairSpec
CONSTANTS
    MaxLogins = 2
    MaxVersions = 2
    MaxKills = 2
    MaxIOFails = 2
INVARIANTS
    TypeOK
    HealthyMeansConnected
    TornNeedsFault
    ClientNotBehindFile
PROPERTIES
    OnlyReloginIsUndone
    WriterPersists
    DisconnectSaves
