\* A device name that may name no sink.
CONSTANTS
    SinkMayBeMissing = TRUE
    LateFailures = FALSE
    MaxFrames = 1
    FrameSamples = 1
    SampleBytes = 4
    TargetBytes = 4
SPECIFICATION Spec
INVARIANT NoCrash
