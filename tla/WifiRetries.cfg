SPECIFICATION FairSpec
CONSTANTS
    InitialConfigs = {"bad"}
    MaxPresses = 0
    MaxDrops = 0
    MaxPowerLosses = 0
    MaxPosts = 0
PROPERTIES
    ConnectionAttemptEnds
\* With the requests and presses used up and no network stored, it idles.
CHECK_DEADLOCK FALSE
