\* A sink that exists, a server that may fail the context or the stream at
\* any time, four frames of 3 samples written into a stream whose target
\* length is 2 bytes, so that write() needs several write_stream_() calls
\* per frame and waits for the server in between.  A write that waits on a
\* stream the server has failed never returns (PulseWriter_hang.cfg), so
\* that stuck state is expected and deadlock is not checked.
CONSTANTS
    SinkMayBeMissing = FALSE
    LateFailures = TRUE
    MaxFrames = 4
    FrameSamples = 3
    SampleBytes = 4
    TargetBytes = 2
SPECIFICATION Spec
INVARIANTS TypeOK NoCrash
PROPERTIES OpenedStable OpenReturns WriteReturnsWhileUp
CHECK_DEADLOCK FALSE
