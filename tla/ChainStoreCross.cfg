SPECIFICATION Spec
CONSTANTS
    MaxHeight = 3
    CrossHeights = {2}
    MaxFails = 1
    MaxSpawn = 1
INVARIANTS
    CrossRootKnown
