----------------------------- MODULE PulseWriter -----------------------------
(***************************************************************************)
(* The PulseAudio sink of roc_sndio (pulse_writer.cpp).                    *)
(*                                                                         *)
(* Two threads share the writer: the caller thread (open(), write(),       *)
(* close()) and the PulseAudio threaded mainloop, which runs every         *)
(* callback while holding the mainloop lock.  The caller takes the same    *)
(* lock; pa_threaded_mainloop_wait() releases it and sleeps until a        *)
(* callback calls pa_threaded_mainloop_signal(), then takes it again.  A   *)
(* signal reaches only a thread that is asleep at that moment.             *)
(*                                                                         *)
(* The PulseAudio server is the environment: it makes the context ready or *)
(* failed, answers the sink-info request (with the sink, or with NULL when *)
(* no sink has the requested name), makes the stream ready or failed, and  *)
(* asks for data when the stream has room.  Each such event is delivered   *)
(* by the mainloop thread as one callback, atomically under the lock.      *)
(*                                                                         *)
(* The caller's program counter pc:                                        *)
(*   "start"       open(): start_()                                        *)
(*   "open_lock"   open_(): taking the lock                                *)
(*   "open_check"  open_(): holding it, testing open_done_                 *)
(*   "open_wait"   open_(): asleep in pa_threaded_mainloop_wait()          *)
(*   "opened"      open() returned openRet                                 *)
(*   "query"       sample_rate(): taking the lock                          *)
(*   "write_lock"  write_stream_(): taking the lock                        *)
(*   "write_check" write_stream_(): holding it, testing the writable size  *)
(*   "write_wait"  write_stream_(): asleep in pa_threaded_mainloop_wait()  *)
(*   "close"       close()                                                 *)
(*   "done"        the writer is closed                                    *)
(***************************************************************************)
EXTENDS Naturals

CONSTANTS
    SinkMayBeMissing,  \* the device name may name no sink
    LateFailures,      \* context and stream may fail after becoming ready
    MaxFrames,         \* frames the caller writes after a successful open
    FrameSamples,      \* frame.size(): samples per frame
    SampleBytes,       \* sizeof(audio::sample_t)
    TargetBytes        \* the stream's target buffer length in bytes

ASSUME
    /\ SinkMayBeMissing \in BOOLEAN
    /\ LateFailures \in BOOLEAN
    /\ MaxFrames \in Nat
    /\ FrameSamples \in Nat \ {0}
    /\ SampleBytes \in Nat \ {0}
    /\ TargetBytes \in Nat \ {0}

VARIABLES
    pc,         \* caller thread program counter
    lockHeld,   \* the caller holds the mainloop lock
    asleep,     \* the caller sleeps in pa_threaded_mainloop_wait()
    open_done,  \* open_done_
    opened,     \* opened_
    ctx,        \* context_ and its state
    op,         \* operation_: the pending sink-info request
    strm,       \* stream_ and its state
    queued,     \* bytes written to the stream and not yet played
    left,       \* write(): samples of the current frame not yet written
    sinkExists, \* a sink of the requested name exists
    openRet,    \* the value open() returned
    frames,     \* frames written
    crashed     \* a NULL dereference or roc_panic() happened

vars == <<pc, lockHeld, asleep, open_done, opened, ctx, op, strm, queued,
          left, sinkExists, openRet, frames, crashed>>

PCs == {"start", "open_lock", "open_check", "open_wait", "opened", "query",
        "write_lock", "write_check", "write_wait", "close", "done"}

CtxStates == {"none", "connecting", "ready", "failed"}
StrmStates == {"none", "unconnected", "creating", "ready", "failed"}

-----------------------------------------------------------------------------
(* Operators of the writer, on the values after the callback so far.       *)

\* Mutant: set_opened_() that does not wake the caller.
SetOpenedNoSignal(v) ==
    /\ open_done' = TRUE
    /\ opened' = v
    /\ UNCHANGED asleep

\* set_opened_(v): record the outcome and wake the caller.
SetOpened(v) ==
    /\ open_done' = TRUE
    /\ opened' = v
    /\ asleep' = FALSE

\* Mutant: a callback that forgets pa_threaded_mainloop_signal().
NoSignal ==
    /\ UNCHANGED <<open_done, opened, asleep>>

\* pa_threaded_mainloop_signal() with no other effect.
Signal ==
    /\ asleep' = FALSE
    /\ UNCHANGED <<open_done, opened>>

NoOutcome == UNCHANGED <<open_done, opened, asleep>>

\* pa_stream_writable_size(): the bytes the stream takes before reaching its
\* target length; (size_t)-1 on a stream that is not ready.
Writable == IF queued >= TargetBytes THEN 0 ELSE TargetBytes - queued

\* write_stream_(data, size): size, a count of samples, is cut down to the
\* writable size, a count of bytes, and size * sizeof(sample_t) bytes are
\* written.  Yields the samples written.
WriteStreamSize(size) ==
    IF strm = "ready" /\ size > Writable THEN Writable ELSE size

\* Mutant: write() loops while frames <= MaxFrames.
NextAfterWriteOffByOne(n) == IF n <= MaxFrames THEN "write_lock" ELSE "close"

\* write(): after write_stream_() the caller writes its next frame or
\* closes the writer.
NextAfterWrite(n) == IF n < MaxFrames THEN "write_lock" ELSE "close"

\* start_(): pa_threaded_mainloop_new() or pa_threaded_mainloop_start() may
\* fail.
StartSucceeds == BOOLEAN

\* open_context_(): pa_context_new() may fail (no context) and
\* pa_context_connect() may fail; otherwise the context is connecting.
OpenContextOutcomes == {"connecting", "none", "failed"}

\* request_sink_info_(): pa_context_get_sink_info_by_name() may return NULL.
RequestSinkInfo == BOOLEAN

\* open_stream_(): pa_stream_new() may fail (no stream) and
\* pa_stream_connect_playback() may fail (the stream stays unconnected);
\* otherwise the stream is connecting.
OpenStream == {"creating", "none", "unconnected"}

\* close_operation_(): pa_operation_cancel() the pending sink-info request.
CloseOperation == op' = FALSE

\* close_stream_(): disconnect and release the stream.
CloseStream == strm' = "none"

\* close_context_(): disconnect and release the context.
CloseContext == ctx' = "none"

\* The mainloop dispatches a callback only while the caller does not hold the
\* lock, and never once the mainloop is stopped.
LoopRuns == ~lockHeld /\ ~crashed /\ pc # "done" /\ pc # "start"

-----------------------------------------------------------------------------
Init ==
    /\ pc = "start"
    /\ lockHeld = FALSE
    /\ asleep = FALSE
    /\ open_done = FALSE
    /\ opened = FALSE
    /\ ctx = "none"
    /\ op = FALSE
    /\ strm = "none"
    /\ queued = 0
    /\ left = FrameSamples
    /\ sinkExists \in IF SinkMayBeMissing THEN BOOLEAN ELSE {TRUE}
    /\ openRet = FALSE
    /\ frames = 0
    /\ crashed = FALSE

(* ---------------------------- caller thread ---------------------------- *)

\* open(): start_() creates and starts the mainloop; on failure open()
\* returns false.
Start ==
    /\ pc = "start" /\ ~crashed
    /\ \E ok \in StartSucceeds : pc' = IF ok THEN "open_lock" ELSE "opened"
    /\ UNCHANGED <<lockHeld, asleep, open_done, opened, ctx, op, strm, queued, left,
                   sinkExists, openRet, frames, crashed>>

\* open_(): take the lock and open_context_(): pa_context_new() and
\* pa_context_connect() may fail, then open_() returns opened_ at once.
OpenContext ==
    /\ pc = "open_lock" /\ ~lockHeld /\ ~crashed
    /\ \E c \in OpenContextOutcomes :
          /\ ctx' = c
          /\ IF c = "connecting"
             THEN /\ pc' = "open_check"
                  /\ lockHeld' = TRUE
                  /\ UNCHANGED openRet
             ELSE /\ pc' = "opened"
                  /\ openRet' = opened
                  /\ UNCHANGED lockHeld
    /\ UNCHANGED <<asleep, open_done, opened, op, strm, queued, left, sinkExists,
                   frames, crashed>>

\* open_(): while (!open_done_) pa_threaded_mainloop_wait(); then return
\* opened_ and unlock.
OpenCheck ==
    /\ pc = "open_check" /\ ~crashed
    /\ IF open_done
       THEN /\ pc' = "opened"
            /\ openRet' = opened
            /\ UNCHANGED asleep
       ELSE /\ pc' = "open_wait"
            /\ asleep' = TRUE
            /\ UNCHANGED openRet
    /\ lockHeld' = FALSE
    /\ UNCHANGED <<open_done, opened, ctx, op, strm, queued, left, sinkExists, frames,
                   crashed>>

\* pa_threaded_mainloop_wait() returns once signalled and the lock is free.
Wake(from, to) ==
    /\ pc = from /\ ~asleep /\ ~lockHeld /\ ~crashed
    /\ pc' = to
    /\ lockHeld' = TRUE
    /\ UNCHANGED <<asleep, open_done, opened, ctx, op, strm, queued, left, sinkExists,
                   openRet, frames, crashed>>

\* After a successful open() the owner asks for the sample rate, writes
\* frames and then closes the writer; when open() fails it closes it at once
\* (~PulseWriter() calls close()).
AfterOpen ==
    /\ pc = "opened" /\ ~crashed
    /\ pc' = IF openRet THEN "query" ELSE "close"
    /\ UNCHANGED <<lockHeld, asleep, open_done, opened, ctx, op, strm, queued, left,
                   sinkExists, openRet, frames, crashed>>

\* sample_rate(): under the lock, check_opened_() panics on an unopened
\* writer; then the owner writes its first frame.
SampleRate ==
    /\ pc = "query" /\ ~lockHeld /\ ~crashed
    /\ IF opened THEN pc' = NextAfterWrite(0) /\ UNCHANGED crashed
                 ELSE crashed' = TRUE /\ UNCHANGED pc
    /\ UNCHANGED <<lockHeld, asleep, open_done, opened, ctx, op, strm, queued, left,
                   sinkExists, openRet, frames>>

\* write_stream_(): take the lock; check_opened_() panics on an unopened
\* writer.
WriteLock ==
    /\ pc = "write_lock" /\ ~lockHeld /\ ~crashed
    /\ lockHeld' = TRUE
    /\ IF opened THEN pc' = "write_check" /\ UNCHANGED crashed
                 ELSE crashed' = TRUE /\ UNCHANGED pc
    /\ UNCHANGED <<asleep, open_done, opened, ctx, op, strm, queued, left, sinkExists,
                   openRet, frames>>

\* write_stream_(): wait while a ready stream has no room; otherwise
\* pa_stream_write() of WriteStreamSize(left) samples (it fails on a stream
\* that is not ready), unlock, and return the samples written.  write()
\* calls write_stream_() again until the whole frame is written, then the
\* owner goes on with the next frame or closes the writer.
WriteCheck ==
    /\ pc = "write_check" /\ ~crashed
    /\ lockHeld' = FALSE
    /\ IF strm = "ready" /\ Writable = 0
       THEN /\ pc' = "write_wait"
            /\ asleep' = TRUE
            /\ UNCHANGED <<queued, left, frames>>
       ELSE LET n == WriteStreamSize(left)
            IN  /\ queued' = IF strm = "ready" THEN queued + n * SampleBytes
                             ELSE queued
                /\ IF n < left
                   THEN /\ pc' = "write_lock"
                        /\ left' = left - n
                        /\ UNCHANGED frames
                   ELSE /\ frames' = frames + 1
                        /\ pc' = NextAfterWrite(frames + 1)
                        /\ left' = FrameSamples
                /\ UNCHANGED asleep
    /\ UNCHANGED <<open_done, opened, ctx, op, strm, sinkExists, openRet,
                   crashed>>

\* close(): under the lock cancel the operation, disconnect the stream and
\* the context; then stop and free the mainloop.
Close ==
    /\ pc = "close" /\ ~lockHeld /\ ~crashed
    /\ pc' = "done"
    /\ CloseOperation /\ CloseStream /\ CloseContext
    /\ UNCHANGED <<lockHeld, asleep, open_done, opened, queued, left, sinkExists,
                   openRet, frames, crashed>>

(* --------------------- mainloop thread: callbacks ---------------------- *)

\* context_state_cb_(READY): unless opened, request_sink_info_(); a failed
\* request ends the open as failed.
ContextReady ==
    /\ LoopRuns /\ ctx = "connecting"
    /\ ctx' = "ready"
    /\ IF opened THEN NoOutcome /\ UNCHANGED op
       ELSE \E ok \in RequestSinkInfo :
               /\ op' = ok
               /\ IF ok THEN NoOutcome ELSE SetOpened(FALSE)
    /\ UNCHANGED <<pc, lockHeld, strm, queued, left, sinkExists, openRet, frames, crashed>>

\* Mutant: context_state_cb_() without the early return once opened.
ContextFailedNoEarlyReturn ==
    /\ LoopRuns
    /\ ctx = "connecting" \/ (LateFailures /\ ctx = "ready")
    /\ ctx' = "failed"
    /\ op' = FALSE
    /\ strm' = IF strm \in {"creating", "ready"} THEN "failed" ELSE strm
    /\ SetOpened(FALSE)
    /\ UNCHANGED <<pc, lockHeld, queued, left, sinkExists, openRet, frames, crashed>>

\* context_state_cb_(FAILED or TERMINATED): unless opened, the open failed.
\* The server fails the context's stream and pending request with it.
ContextFailed ==
    /\ LoopRuns
    /\ ctx = "connecting" \/ (LateFailures /\ ctx = "ready")
    /\ ctx' = "failed"
    /\ op' = FALSE
    /\ strm' = IF strm \in {"creating", "ready"} THEN "failed" ELSE strm
    /\ IF opened THEN NoOutcome ELSE SetOpened(FALSE)
    /\ UNCHANGED <<pc, lockHeld, queued, left, sinkExists, openRet, frames, crashed>>

\* sink_info_cb_(): close_operation_(), init_params_(*info) -- info is NULL
\* when there is no such sink -- and open_stream_(): pa_stream_new() or
\* pa_stream_connect_playback() may fail, which ends the open as failed.
SinkInfo ==
    /\ LoopRuns /\ op /\ ctx = "ready"
    /\ CloseOperation
    /\ IF ~sinkExists
       THEN /\ crashed' = TRUE
            /\ NoOutcome /\ UNCHANGED strm
       ELSE /\ \E st \in OpenStream :
                  /\ strm' = st
                  /\ IF st = "creating" THEN NoOutcome ELSE SetOpened(FALSE)
            /\ UNCHANGED crashed
    /\ UNCHANGED <<pc, lockHeld, ctx, queued, left, sinkExists, openRet, frames>>

\* stream_state_cb_(READY): unless opened, the open succeeded.
StreamReady ==
    /\ LoopRuns /\ strm = "creating"
    /\ strm' = "ready"
    /\ IF opened THEN NoOutcome ELSE SetOpened(TRUE)
    /\ UNCHANGED <<pc, lockHeld, ctx, op, queued, left, sinkExists, openRet, frames, crashed>>

\* Mutant: stream_state_cb_() without the early return once opened.
StreamFailedNoEarlyReturn ==
    /\ LoopRuns
    /\ strm = "creating" \/ (LateFailures /\ strm = "ready")
    /\ strm' = "failed"
    /\ SetOpened(FALSE)
    /\ UNCHANGED <<pc, lockHeld, ctx, op, queued, left, sinkExists, openRet, frames, crashed>>

\* stream_state_cb_(FAILED or TERMINATED): unless opened, the open failed.
StreamFailed ==
    /\ LoopRuns
    /\ strm = "creating" \/ (LateFailures /\ strm = "ready")
    /\ strm' = "failed"
    /\ IF opened THEN NoOutcome ELSE SetOpened(FALSE)
    /\ UNCHANGED <<pc, lockHeld, ctx, op, queued, left, sinkExists, openRet, frames, crashed>>

\* The server plays what the stream holds and stream_write_cb_(length > 0)
\* asks for more: wake the caller.
StreamWrite ==
    /\ LoopRuns /\ strm = "ready" /\ queued > 0
    /\ queued' = 0
    /\ Signal
    /\ UNCHANGED <<pc, lockHeld, ctx, op, strm, left, sinkExists, openRet, frames,
                   crashed>>

-----------------------------------------------------------------------------
Caller ==
    \/ Start \/ OpenContext \/ OpenCheck \/ Wake("open_wait", "open_check")
    \/ AfterOpen \/ SampleRate \/ WriteLock \/ WriteCheck \/ Wake("write_wait", "write_check")
    \/ Close

Server ==
    \/ ContextReady \/ ContextFailed \/ SinkInfo
    \/ StreamReady \/ StreamFailed \/ StreamWrite

\* The writer is closed, or the process died.
Stopped ==
    /\ pc = "done" \/ crashed
    /\ UNCHANGED vars

Next == Caller \/ Server \/ Stopped

\* The caller thread is scheduled; the server answers every request it has
\* (connect, sink info, stream connect) and asks for data while the stream
\* plays.  Late failures are possible, never forced.
Fairness ==
    /\ WF_vars(Caller)
    /\ WF_vars(ContextReady) /\ WF_vars(SinkInfo) /\ WF_vars(StreamReady)
    /\ WF_vars(StreamWrite)

Spec == Init /\ [][Next]_vars /\ Fairness

-----------------------------------------------------------------------------
TypeOK ==
    /\ pc \in PCs
    /\ lockHeld \in BOOLEAN /\ asleep \in BOOLEAN
    /\ open_done \in BOOLEAN /\ opened \in BOOLEAN
    /\ ctx \in CtxStates /\ op \in BOOLEAN /\ strm \in StrmStates
    /\ queued \in 0 .. TargetBytes - 1 + FrameSamples * SampleBytes
    /\ left \in 1 .. FrameSamples
    /\ sinkExists \in BOOLEAN /\ openRet \in BOOLEAN
    /\ frames \in 0 .. MaxFrames /\ crashed \in BOOLEAN

(* No callback dereferences NULL and no call panics: in particular         *)
(* sink_info_cb_() is given a sink, and the check_opened_() of             *)
(* sample_rate() and write_stream_() never finds the writer unopened,      *)
(* although the context or the stream may fail at any point after open(). *)
NoCrash == ~crashed

(* Once open_() has returned true, opened_ stays true on every later step *)
(* of the run, through the writes, after the last one and across close()   *)
(* (which leaves opened_ alone): context or stream failures at any of      *)
(* those points do not reset it, because context_state_cb_() and           *)
(* stream_state_cb_() return early once opened_ is set.  Unlike NoCrash,   *)
(* this also covers failures that no later check_opened_() would notice.  *)
OpenedStable == [][openRet => opened']_vars

(* open() returns: every path of context, sink-info and stream callbacks   *)
(* ends in set_opened_(), which wakes the caller waiting in open_().       *)
OpenReturns == (pc \in {"open_lock", "open_check", "open_wait"}) ~> (pc = "opened")

(* Every write() returns while the server keeps the stream up: a caller   *)
(* asleep in write_stream_() is woken by stream_write_cb_() once the       *)
(* server has played what the stream holds.                                *)
WriteReturnsWhileUp ==
    (pc = "write_wait") ~> (pc \in {"write_lock", "close", "done"} \/ strm = "failed")

(* Every write() returns, whatever the server does (spec 7: a sink write   *)
(* error is surfaced to the caller, which terminates the process).         *)
WriteReturns == (pc = "write_wait") ~> (pc \in {"write_lock", "close", "done"})

(* write_stream_() never puts more into the stream than                    *)
(* pa_stream_writable_size() reported, so the server's buffer stays within *)
(* its target length and the latency it adds stays bounded.                *)
NoOverrun == queued <= TargetBytes
=============================================================================
