SPECIFICATION CoreSpec
CONSTANTS
    Types = {"lazy", "fsync"}
    LazyFree = "lazy"
    MaxJobs = 2
    MaxObjs = 2
    SizeMod = 16
    Bytes = {"a", "b"}
    Junk = "junk"
    Sizes = {1, 3, 4}
    MinSize = 2
    MaxOffset = 6
    MaxFeed = 4
INVARIANTS PendingZeroMeansDone ExactlyOnceInOrder LazyfreeCounterExact ReplyIsStream
PROPERTY ThreadsGetOn
CHECK_DEADLOCK FALSE
