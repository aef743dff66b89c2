\* Two visible regions and a hidden part, one Machine that boots, is reset warm and
\* fails to boot over three lifecycles, one failure.
CONSTANTS
    Regions = {r1, r2}
    Hidden = h
    MaxBatches = 2
    MaxSeq = 2
    MaxLife = 3
    MaxBoots = 1
    MaxFails = 1
SPECIFICATION FairSpec
INVARIANT SlotsHaveOneOwner
INVARIANT ScreenIsAPicture
PROPERTY ChangesReachTheScreen
CHECK_DEADLOCK TRUE
