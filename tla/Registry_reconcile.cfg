SPECIFICATION FairSpec
CONSTANTS
    s1 = s1  s2 = s2  anon = anon
    c1 = c1  c2 = c2  c3 = c3  c4 = c4
    NoChat = NoChat  NoSource = NoSource
    Dead = Dead  Refused = Refused  Flood = Flood  Unknown = Unknown
    Sources <- MCSources
    Anonymous <- MCAnonymous
    Yaml <- MCYaml
    Chats <- MCChats
    Private <- MCPrivate
    Odd <- MCOdd
    Channels <- MCChannels
    MaxFaults = 2
    MaxMoves = 2
INVARIANTS
    RouteSound
    ResolvedIsServed
PROPERTIES
    ChatIdWriteOnce
    ComesUpUnlessBlocked
