SPECIFICATION PartsSpec
CONSTANTS
    Pools <- BoardPools
    MaxDevices = 4
    SpiFreq <- SpiClocks
    Parts = {"board", "timer"}
    TimClock = 51
    TimRange = 64
    ClockPeriod = 4
    Rigs <- TimerRigs
    Gaps = {2, 5}
    Duties = {0, 30, 50, 100, 150}
    FloatRange = 32
    FloatShare <- FiveBitShare
INVARIANTS
    OwnersGetWhatTheyAskedFor
    NothingIsSharedTwice
    AdcSlotsMatch
    DfsdmWordsLandInTheirBuffer
    EveryStreamHasItsHandle
    PwmShowsItsDuty
    CaptureReadsTheSignal
