# TLA+ models of the Roc streaming pipeline

This directory holds TLA+ specifications of the parts of Roc under `src/`. Each
one is checked with TLC. Every definition that stands for code is listed, with
its source lines, under `"map"` in `PROJECT.json`. `PROJECT.json` also lists:

- the runs;
- the mutants, which show that each checked property can fail;
- the findings;
- the hazards.

## The system and its parts

Roc sends audio over RTP/UDP and protects it with forward erasure correction
(FEC).

- **Sender.**
  - The FEC `Writer` (`roc_fec/writer.cpp`) groups source packets into blocks.
  - It passes each block through a block encoder (`iencoder.h`, OpenFEC).
  - It emits the block's repair packets after its source packets.
  - A chain of `Composer`s (`composer.h`) lays out the FEC payload id of every packet as a header or a footer.
- **Receiver dispatch.**
  - A dispatcher (not among the sources; spec 4.10) routes every UDP packet to the `ReceiverSession` (`roc_pipeline/receiver_session.cpp`) of its source address.
  - It compares addresses with `Address::operator==` (`roc_packet/.../address.cpp`).
  - When no session matches, it creates one.
- **Receiver session.**
  - A session owns a reader chain: queues, validators, the FEC reader, and the `OFDecoder` (`roc_fec/.../of_decoder.cpp`). The decoder rebuilds lost source packets with OpenFEC.
  - It also owns a watchdog and a latency monitor, which `update()` polls.
- **Output.**
  - Frames are written to a sink such as the PulseAudio `PulseWriter` (`roc_sndio/.../pulse_writer.cpp`).
  - Its caller thread and the PulseAudio threaded mainloop share one lock. They talk through wait/signal and callbacks.
- **Tools.**
  - `roc_recv` (`tools/roc_recv/main.cpp`) checks its options, opens the SoX output, and builds the receiver pipeline, the player and the network transceiver.
  - It registers the source port, and the repair port with FEC, with both the transceiver and the receiver.
  - It starts the transceiver's network thread, which pushes packets into the receiver and so into the dispatcher. Then it starts the player thread, which pulls frames through the sessions and updates them.
  - It waits for the player, then stops and joins the transceiver, removes the ports and returns. The receiver lives on its stack.
  - `roc_resample` converts a file through the resampler.

## Modules

| Module | Models | State | Actions |
|---|---|---|---|
| `OFDecoder` | `OFDecoder` and the OpenFEC session it drives. Its caller, the FEC reader, is modelled from spec 4.5. | `buff`/`data`/`recv` = `buff_tab_`/`data_tab_`/`recv_tab_`, each buffer tagged by its owner (caller, pool, OpenFEC); `hasNew`, `finished`; the codec; the OpenFEC symbols held (`known`); the memory of reconstructed symbols (`dec`); live OpenFEC allocations (`ofLive`); `destroyed` | `Begin`, `BeginFails`, `Set(i)`, `Repair(i)`, `End`, `Destroy` (`~OFDecoder`) |
| `FecWriter` | `fec::Writer`, with the encoder's begin/set/fill/end contract | `cur_sblen_`, `next_sblen_`, `cur_packet_`, `cur_sbn_`, `cur_block_repair_sn_`; the encoder's shape and the symbols set into it; the packets written | `Write` (including `handle_next_block_` at a block's end), `Resize(n)` |
| `FecStream` | The abstract packet stream the FEC writer promises (spec 2, 4.4). Not code: the specification `FecWriter` is shown to implement. | the packets sent, the open block's number, length, sources sent and first repair seqnum | `SendSource`, `CloseBlock` |
| `Composer` | `Composer::align/prepare/truncate/compose` over a chain of header and footer layers, and the writer's repair esi | the inputs only: the chain, buffer capacity, alignment, payload and truncation sizes, block and repair counts | none. The operators are recursive over the chain and checked against a reference layout. |
| `PulseWriter` | `PulseWriter`: the caller thread plus the mainloop callbacks | the caller's pc, `lockHeld`, `asleep` (in `pa_threaded_mainloop_wait`), `open_done_`, `opened_`, the context, operation and stream states; the bytes queued in the stream and the samples of the frame left to write | caller: `Start`, `OpenContext`, `OpenCheck`, `Wake`, `AfterOpen`, `SampleRate`, `WriteLock`, `WriteCheck`, `Close`; mainloop: `ContextReady`, `ContextFailed`, `SinkInfo`, `StreamReady`, `StreamFailed`, `StreamWrite` |
| `RocRecv` | `main()` of `roc_recv`: every option check and early return, the library calls (each may fail), port registration, the start of both threads and the shutdown | `args` (the command line: each option absent, good or bad), main's `pc` and `status`, the receiver object's life, the ports bound, the network thread (`none`/`running`/`stopping`/`exited`) and the player thread; the ghost `envFailed` | `ParseCmdline`, `ParseAddresses`, `SelectFec`, `ParseDurations`, `SelectResampler`, `SelectRate`, `OpenOutput`, `CreatePipeline`, `AddPort(p)`, `StartTrx`, `StartPlayer`, `JoinPlayer`, `StopTrx`, `JoinTrx`, `RemovePorts`; threads: `TrxExits`, `PlayerStops` |
| `MCRecv` | `roc_recv` as a whole: `RocRecv` composed with `ReceiverSession` through two `INSTANCE`s | both modules' state, and a ghost `hadSession` | `MainStep`, `NetworkExits`, `Deliver(a)` (only while the network thread runs), `Play(s)` (session update while the player runs), `PlayerStops` (with `--oneshot`, once the last session is gone) |
| `ReceiverSession` (+ `MCReceiverSession`) | `ReceiverSession::handle/update/valid`, `Address::operator==`, and the dispatcher from spec 4.10 | the source address of the session in each slot, the senders whose packets each session accepted, dropped packets | `Route(a)`, `Create(a)`, `Tick(s)` |

How the models stay faithful:

- Each action models a whole call. Its guards come from the code's early
  returns and panics, and its effects from the assignments. Helpers the call
  makes are operators of their own, such as `DestroySession`, `Update`,
  `FixBuffer`, `CloseStream` and `WriteStreamSize`.
- Library calls (OpenFEC, PulseAudio, the buffer pools) are nondeterministic
  choices over what they can return. Examples: `MemChoice`, `AllocOutcomes`,
  `OpenStream`, `RequestSinkInfo`, `ValidOutcomes`.
- Widths are kept where they matter:
  - block numbers and seqnums wrap (`BlkMod`, `SnMod`);
  - `compose()` truncates to 16 bits;
  - `write_stream_()` counts samples on one side and bytes on the other.

## Runs

| Run | Config | Expect | What it shows |
|---|---|---|---|
| decoder | `OFDecoder.cfg` | pass | Reed-Solomon and LDPC with the batch reader. The pool may run dry, a block may be ended early, and the decoder may be destroyed mid-block. `set()` never panics, `repair()` succeeds whenever the symbols set suffice, and Reed-Solomon loses no OpenFEC memory. |
| decoder_incremental_panic | `OFDecoder_inc.cfg` | violation | A reader that interleaves `set()` and `repair()` hits the "can't overwrite buffer" panic. |
| decoder_leak | `OFDecoder_leak.cfg` | violation | A symbol that LDPC decoded inside `set()` into OpenFEC's own memory is lost when `end()` or `~OFDecoder()` runs before `repair()` of that symbol. |
| fec_writer | `FecWriter.cfg` | pass | Every block keeps one length despite `resize()`. Repair packets follow exactly the k source packets of their block. The writer implements `FecStream`. |
| fec_writer_begin_fail | `FecWriter_beginfail.cfg` | violation | After encoder `begin()` fails, repair packets are still written. They are computed from an incomplete block. |
| pulse | `PulseWriter.cfg` | pass | `open()` returns under every order of callbacks and failures. Once open, the writer stays opened, so `sample_rate()` and `write_stream_()` never panic. While the stream is up, every `write()` returns. |
| pulse_no_sink | `PulseWriter_nosink.cfg` | violation | A device name with no sink makes `sink_info_cb_` dereference NULL. |
| pulse_write_hang | `PulseWriter_hang.cfg` | violation | A stream failure while `write()` waits for room leaves the caller asleep forever. |
| pulse_overrun | `PulseWriter_overrun.cfg` | violation | `write_stream_()` caps a sample count by a byte count, so it writes more than the stream's writable size. |
| recv | `MCRecv.cfg` | pass | All 5,832 command lines (each parsed or not), each library call failing or not, with 3 IPv4 senders delivering 6 packets into the sessions. `main()` returns 0 exactly for a valid command line with no failure. Neither thread outlives the receiver. Shutdown completes once the player stops. Each sender gets one session, which accepts only its packets. |
| sessions_ipv6 | `ReceiverSession_ipv6.cfg` | violation | Every IPv6 packet fails the address check, and the dispatcher creates a new session per packet. |
| composer | `Composer.cfg` | pass | `align`/`prepare`/`truncate` lay packets out as the reference does. The payload is aligned. Repair packets carry k and an esi in k..k+r-1 up to the 0xFFFF limit. |

### Properties

- **`OFDecoder`**
  - `NoPanic`: `set()` never reaches its overwrite panic.
  - `NoLeak`: every OpenFEC allocation stays reachable from `data_tab_` or from the session, so `destroy_session_` can free it. `NoLeakReedSolomon` states the same for Reed-Solomon.
  - `RepairSucceedsWhenDecodable`: `repair()` yields the symbol whenever the symbols set so far suffice. The one exception is when copying it out fails for lack of buffers.
- **`FecWriter`**
  - `BlockShape`: one length per block, and esi ranges that match it.
  - `RepairAfterSources`: the repair packets of a block come after exactly its k source packets, in esi order.
  - `RepairFromFullBlock`: each repair packet was computed from every source payload of its block.
  - `ImplementsFecStream` (refinement): the packets on the wire, mapped to `[kind, sbn, k, esi, sn]`, form a behaviour of `FecStream`. The mapping is `INSTANCE FecStream WITH stream <- ..., sbn <- cur_sbn, k <- cur_sblen, ...`.
- **`Composer`**
  - `LayoutMatchesReference`: `align` fails, `prepare` succeeds and `prepare` panics exactly when a direct computation of the layout says so. On success, the payload id, the payload and the buffer match the reference, and `truncate` keeps a prefix.
  - `RepairIdsOnWire`: for `k + r <= 0xFFFF`, every repair packet composes without a panic and carries k and an esi in k..k+r-1.
- **`PulseWriter`**
  - `NoCrash`: no callback dereferences NULL and `check_opened_` never panics.
  - `OpenedStable` (action property): on every step after `open()` returned true, `opened_` stays true, including failures after the last write and during `close()`, where no later `check_opened_()` would notice a reset.
  - `OpenReturns` (liveness): `open()` returns.
  - `WriteReturnsWhileUp` (liveness): `write()` returns unless the server has failed the stream.
  - `WriteReturns` (liveness): `write()` returns whatever the server does.
  - `NoOverrun`: the stream never holds more than its target length.
- **`MCRecv`**
  - `ExitStatusPerSpec`: at return, status 0 holds exactly when the command line satisfies spec 6's contract (`ConfigValid`) and no library call failed. The contract covers `--source` and `--repair` required, sizes given only with FEC and positive, and durations parsing. A missing `--repair` with FEC is caught only by the bind of an unset `Address`.
  - `ThreadsNeverOutliveReceiver`: while the network thread may deliver, or the player may pull, the receiver has not been destroyed.
  - `ShutdownCompletes` (liveness): once the player stops, `main()` returns.
  - The three `ReceiverSession` properties below, under the threads' schedule.
- **`ReceiverSession`**
  - `RoutedToOwnSession`: a session accepts only its own sender's packets.
  - `OneSessionPerSource`: at most one session per source address.
- **Type invariants.** `OFDecoder`, `FecWriter` and `PulseWriter` each have one, `TypeOK`.

The mutants in `PROJECT.json` show that every property of a passing run can
fail. Each mutant replaces a code definition with a plausible bug, and TLC
then finds the property violated. Examples: `destroy_session_` freeing only
unowned pointers, the writer's repair esi without the block length, a state
callback without its early return.

## Bounds and why they suffice

- **OFDecoder.**
  - Blocks have 3 source and 3 repair symbols, and there are 3 blocks.
  - With 3 source symbols, one can be reconstructed while another is still missing and a third arrives late; 2 repair symbols can then stand in for any two source symbols.
  - Three blocks use `begin()`'s same-shape shortcut twice, and it relies on `end()` having cleared the tables.
  - LDPC gets an overhead of 0 to 2, so a block can need up to two symbols beyond sblen and LDPC decodes iteratively inside `set()`.
- **FecWriter.**
  - Initial block length 2; `resize()` to 1 or 3 at any time.
  - 2 repair packets per block, so their order is visible.
  - 6 writes: three blocks of 2, or blocks of other lengths after a resize takes effect in between.
  - Block and sequence numbers modulo 4, so both wrap.
  - The begin-failure run uses 1 repair packet and 7 writes.
- **Composer.**
  - Chains of 1 to 3 layers of 2- or 3-byte payload ids, in every header/footer mix.
  - Capacities 0..12, which reach every branch: no room for the padding, for a header, for the payload or for a footer.
  - Alignments 1 and 4.
  - Block lengths 1 and 65532 with 1 or 3 repair packets, so the last repair esi reaches 0xFFFE, the largest value `compose()` accepts.
- **PulseWriter.**
  - 4 frames of 3 samples into a stream with 2 target bytes. Every frame then needs several `write_stream_()` calls, and the caller waits for the server between them.
  - The violation runs use the smallest sizes that show their trace.
  - The server's choices are all nondeterministic.
- **MCRecv.**
  - Every combination of the option classes: 2×3×3×3×3×3×2×2×3×2 = 11,664 initial states, half of them unparsed.
  - The six duration options and the two resampler integers are each checked in turn with the same early return, so one field each stands for them.
  - Every library call may fail at every step.
  - The sessions use the bounds below.
- **ReceiverSession.**
  - 3 IPv4 senders: two share an IP and differ in port; the third has its own IP.
  - 2 session slots, so the bound is reached.
  - 6 packets, enough to create, tear down and recreate sessions, with the slot bound reached along the way.

## Fairness

`PulseWriter` and `MCRecv` state liveness.

In `MCRecv`, `main()` and the network thread get weak fairness; the OS schedules both. The network thread leaves its loop once stopped. The player and the senders get no fairness: a player without `--oneshot` never stops, and senders may go quiet.

In `PulseWriter`:

- **Caller thread:** weak fairness. The OS schedules it.
- **Mainloop, for the server's answers to requests:** weak fairness on the context becoming ready, the sink-info reply, the stream becoming ready, and the write request while the stream holds data. PulseAudio answers every request it accepted and plays what a ready stream holds.
- **Failures after ready:** no fairness. They may happen but are never forced.

## What is not modelled, and why

- **`iwriter.h`, `sox_writer.h`, `of_encoder.h`, `iencoder.h`:** headers without their implementation. The encoder's contract appears as the writer's encoder variables.
- **`roc_resample`:** one thread reading a file through the resampler into a writer, after option checks like `roc_recv`'s. It has no interleaving and no shutdown ordering, and the libraries it drives are not among the sources. Its unchecked `size_t` casts of option values, and a division by `--rate 0`, are listed as a hazard with a note.
- **`roc_recv`'s exit status after a sink error:** `main()` returns 0 after `player.join()` whatever made the player stop. `IWriter::write()` returns `void`, so a sink error cannot reach it, while spec 7 says such an error ends the process with exit code 1. The player loop is not among the sources, so nothing in the model stops it on a sink error. This is listed as a hazard without a property.
- **Library objects in `roc_recv`:** the pipeline, the player, the transceiver and SoX are not among the sources. Each call into them is a free success or failure. The transceiver's thread and the player's oneshot rule are modelled from spec 5 and marked `spec_modelled`.
- **`OFDecoder::resize_tabs_` failing halfway:** it resizes `buff_tab_`, then `data_tab_`, then `recv_tab_`, and returns at the first failed allocation, leaving `sblen_`/`rblen_` at the old shape. A later `begin()` with the old shape takes the same-shape shortcut over tables of different sizes, and `reset_tabs_()` indexes past the shorter ones. The model has one block shape, so it cannot reach this. It is listed as a hazard with a note.
- **`ReceiverSession::handle()`/`update()` on an invalid session:** both panic (`roc_panic_if(!valid())`). Whether the dispatcher can route to such a session depends on the dispatcher, which is not among the sources. Modelled from spec 4.10, it destroys an invalid session at once, so no property is stated about it.
- **`OFDecoder::report_`:** it only logs.
- **`PulseWriter::frame_size`, `is_file`:** they return constants.
- **`Address` setters and accessors:** conversions between strings, `sockaddr` and ports. Only `operator==` decides anything the dispatcher does, and it is modelled.
- **Not among the sources:** the FEC reader, the dispatcher, the watchdog and the latency monitor.
  - The first two are modelled from the spec and marked `spec_modelled` in the map.
  - The watchdog and the latency monitor appear only as free verdicts of `update()`.

## Plan for further work

1. **FEC path.** Compose `FecWriter` with a lossy, reordering network and a
   spec-modelled FEC reader driving `OFDecoder`. Show that the composition
   refines a "stream of source payloads" specification when at most rblen
   packets per block are lost.
2. **Address.** The `sockaddr` union written by `set_ipv4`/`set_ipv6`/`set_saddr`.
   Its fields overlap, so a setter leaves bytes of the previous family behind.
