SPECIFICATION FairSpec
CONSTANTS
    MaxLogins = 2
    MaxVersions = 2
    MaxKills = 1
    MaxIOFails = 1
    Timeout = 8
    Grace = 10
    MaxHangup = 12
PROPERTIES
    OrderlyStopSaves
    DeafListenerEnds
