\* A server that may fail the stream while write() waits for room.
CONSTANTS
    SinkMayBeMissing = FALSE
    LateFailures = TRUE
    MaxFrames = 2
    FrameSamples = 1
    SampleBytes = 4
    TargetBytes = 4
SPECIFICATION Spec
PROPERTY WriteReturns
CHECK_DEADLOCK FALSE
