\* Two visible regions and a hidden part, more guest changes than the batch list
\* holds, two Machines, cold and warm resets, no failure.
CONSTANTS
    Regions = {r1, r2}
    Hidden = h
    MaxBatches = 2
    MaxSeq = 4
    MaxLife = 3
    MaxBoots = 2
    MaxFails = 0
SYMMETRY RegionSymmetry
SPECIFICATION Spec
INVARIANT TypeOK
INVARIANT DamageCoversDifference
INVARIANT ScreenShowsThisMachine
CHECK_DEADLOCK TRUE
