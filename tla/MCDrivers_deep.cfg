SPECIFICATION Spec
CONSTANTS
    Running = {"machine"}
    Declared <- RuntimeAndApp
    Root = "runtime"
    NestedIn <- InRuntime
    kMaxTasks = 4
    MaxRemoved = 2
    TooLong = {}
    MdmaChannels = 2
    TRANSFER_QUEUE_MAX_SIZE = 2
    Values <- TwoValues
    Buffer <- Buffers
    Sent = {"a"}
    Received = {"b"}
    External <- Outside
    Raw <- RawCopy
    SpiPeers <- TwoPeers
    SpiBits <- Frames
    SpiCallers = {c1, c2}
    SpiBytes = {2, 3}
    MaxErrors = 1
    SdBlocks = 2
    SdLast = 4
    SdWrap = 16
    SdRequests <- CardRequests
    SdHasCd = TRUE
    SdHasWp = TRUE
    REQUEST_MAX = 2
    RECV_MAX = 2
    Stamps = {1}
    TimerIds = {1, 2, 3}
INVARIANTS
    ActionsFollowTheStates
CHECK_DEADLOCK FALSE
