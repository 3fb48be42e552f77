SPECIFICATION FairSpec
CONSTANTS
    InitialConfigs = {"none", "good"}
    MaxPresses = 4
    MaxDrops = 2
    MaxPowerLosses = 1
    MaxPosts = 2
INVARIANTS
    TypeOK
    PairingKept
    SignalsTrue
PROPERTIES
    PressSwitchesMode
    GoodConfigConnects
\* With the requests and presses used up and no network stored, it idles.
CHECK_DEADLOCK FALSE
