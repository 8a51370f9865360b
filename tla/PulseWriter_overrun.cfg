\* One frame of 2 float samples (8 bytes) into a stream with 4 writable
\* bytes.
CONSTANTS
    SinkMayBeMissing = FALSE
    LateFailures = FALSE
    MaxFrames = 1
    FrameSamples = 2
    SampleBytes = 4
    TargetBytes = 4
SPECIFICATION Spec
INVARIANT NoOverrun
