\* Units of 7.5 s: 4 and 2 are the defaults, 30 s and 15 s.
SPECIFICATION Spec
CONSTANTS
    ConfInitial = 4
    ConfGeneral = 2
    DefaultInitial = 4
    DefaultGeneral = 2
    LateACK = 1
    MaxTime = 10
    MaxPackets = 2
INVARIANT SilenceIsNoticed
PROPERTY TimeoutMeansSilence
CHECK_DEADLOCK FALSE
