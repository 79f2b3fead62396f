SPECIFICATION PartsSpec
CONSTANTS
    Pools <- TimerPools
    MaxDevices = 4
    SpiFreq <- SpiClocks
    Parts = {"board"}
    TimClock = 51
    TimRange = 64
    ClockPeriod = 4
    Rigs <- TimerRigs
    Gaps = {2, 5}
    Duties = {0, 30, 50, 100, 150}
    FloatRange = 32
    FloatShare <- FiveBitShare
INVARIANT TimersServeTheirOwners
