SPECIFICATION Spec
CONSTANTS
    Runners = {r1, r2, r3}
    Targets = {0, 1, 2, 3, 4}
    MaxRuns = 6
SYMMETRY Symmetry
CHECK_DEADLOCK FALSE
INVARIANTS VersionTellsSchema HeadIsTheModels LoneRunSucceeds
