CONSTANTS
    d1 = d1
    d2 = d2
    m1 = m1
    m2 = m2
    Ids <- MCIds
    Targets <- MCTargets
    Macs <- MCMacs
    BatchSize = 2
    MaxLog = 4
    MaxRestarts = 1
SPECIFICATION Spec
SYMMETRY Symmetry
INVARIANT TypeOK
INVARIANT SurvivesOnlyByOvertaking
PROPERTY DeleteRemovesOnlyWhatItNames
CHECK_DEADLOCK FALSE
