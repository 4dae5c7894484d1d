SPECIFICATION FairSpec
CONSTANTS
    MaxLogins = 1
    MaxVersions = 2
    MaxKills = 1
    MaxIOFails = 0
    Timeout = 8
    Grace = 10
    MaxHangup = 12
PROPERTY
    StopSaves
