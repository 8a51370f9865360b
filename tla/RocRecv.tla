------------------------------- MODULE RocRecv -------------------------------
(***************************************************************************)
(* main() of the roc-recv tool (tools/roc_recv/main.cpp).                  *)
(*                                                                         *)
(* The main thread checks the command line option by option, returning 1  *)
(* at the first bad one, opens the SoX output, builds the receiver         *)
(* pipeline, the player and the network transceiver, registers the source *)
(* port (and the repair port when FEC is on) with both, starts the         *)
(* transceiver thread and then the player thread, waits for the player,   *)
(* stops and joins the transceiver, removes the ports and returns.        *)
(* Returning destroys, in reverse order of construction, the transceiver, *)
(* the player and the receiver.                                            *)
(*                                                                         *)
(* The command line is one record args, fixed for the run: for each option *)
(* whether it is absent, given and good, or given and bad.  The six        *)
(* duration options are checked alike, one after the other, and the two   *)
(* resampler integers likewise; each pair of fields stands for all of     *)
(* them.  Every call into a library that is not among the sources (SoX,    *)
(* the pipeline, netio, the player) may fail; the ghost envFailed records  *)
(* that one did.                                                           *)
(*                                                                         *)
(* Two threads run beside main: the transceiver's network thread, which    *)
(* delivers packets into the receiver from trx.start() until it has seen   *)
(* trx.stop() (state trx), and the player thread, which pulls frames from  *)
(* the receiver from player.start() until it stops (state player).         *)
(***************************************************************************)
EXTENDS Naturals

AddrArg == {"absent", "ok", "bad"}     \* not given / parses / does not parse
IntArg  == {"absent", "pos", "nonpos"} \* not given / > 0 / <= 0
Codecs  == {"none", "rs", "ldpc"}      \* --fec

\* Every command line cmdline_parser() may be handed.
ArgSpace ==
    [parsed: BOOLEAN, source: AddrArg, repair: AddrArg, fec: Codecs,
     nbsrc: IntArg, nbrpr: IntArg, durations: {"ok", "bad"},
     resampler: {"ok", "nonpos"}, rate: IntArg, oneshot: BOOLEAN]

Ports == {"source", "repair"}

VARIABLES
    args,       \* the command line
    pc,         \* main()'s position
    status,     \* main()'s return value once pc = "exit"
    envFailed,  \* ghost: a library call failed
    receiver,   \* the pipeline::Receiver object: "none", "live", "destroyed"
    bound,      \* ports registered with the transceiver
    trx,        \* network thread: "none", "running", "stopping", "exited"
    player      \* player thread: "none", "running", "stopped"

vars == <<args, pc, status, envFailed, receiver, bound, trx, player>>

-----------------------------------------------------------------------------
(* The options the code checks, in the order it checks them.               *)

\* packet::parse_address() of an option: an absent option leaves the
\* PortConfig's Address unset.
AddressesParse == args.source # "bad" /\ args.repair # "bad"

\* Mutant: --nbsrc accepted whatever the codec.
BlockSizeOkAnyCodec(n) == n # "absent" => n = "pos"

\* --nbsrc / --nbrpr: rejected with --fec=none, or when <= 0.
BlockSizeOk(n) == n # "absent" => args.fec # "none" /\ n = "pos"

BlockSizesOk == BlockSizeOk(args.nbsrc) /\ BlockSizeOk(args.nbrpr)

\* --rate must be > 0 when given.
RateOk == args.rate # "nonpos"

\* trx.add_udp_receiver() binds a socket to the port's Address.  An Address
\* that was never set has family 0, and slen() is 0 for it (sizeof_), so the
\* bind cannot succeed.
Bindable(a) == a = "ok"

\* The ports main() registers, and later removes: repair only with FEC.
UsedPorts == IF args.fec = "none" THEN {"source"} ELSE Ports

PortArg(p) == IF p = "source" THEN args.source ELSE args.repair

-----------------------------------------------------------------------------
(* main()'s steps.  Fail is every "return 1" after the first check: the    *)
(* objects built so far are destroyed on the way out.                      *)

Return(code) ==
    /\ pc' = "exit"
    /\ status' = code
    /\ receiver' = IF receiver = "live" THEN "destroyed" ELSE receiver

Fail == Return(1)

\* A library call: it succeeds, or it fails and main() returns 1.
Call(next) ==
    \/ pc' = next /\ UNCHANGED <<status, envFailed, receiver>>
    \/ Fail /\ envFailed' = TRUE

Init ==
    /\ args \in ArgSpace
    /\ pc = "parse"
    /\ status = 0
    /\ envFailed = FALSE
    /\ receiver = "none"
    /\ bound = {}
    /\ trx = "none"
    /\ player = "none"

\* cmdline_parser(): its non-zero code is returned as is.
ParseCmdline ==
    /\ pc = "parse"
    /\ IF args.parsed THEN pc' = "addresses" /\ UNCHANGED <<status, receiver>>
                      ELSE Fail
    /\ UNCHANGED <<args, envFailed, bound, trx, player>>

\* --source and --repair, each parsed when given.
ParseAddresses ==
    /\ pc = "addresses"
    /\ IF AddressesParse THEN pc' = "fec" /\ UNCHANGED <<status, receiver>>
                         ELSE Fail
    /\ UNCHANGED <<args, envFailed, bound, trx, player>>

\* The codec switch, then --nbsrc and --nbrpr.
SelectFec ==
    /\ pc = "fec"
    /\ IF BlockSizesOk THEN pc' = "durations" /\ UNCHANGED <<status, receiver>>
                       ELSE Fail
    /\ UNCHANGED <<args, envFailed, bound, trx, player>>

\* --latency, --min-latency, --max-latency, --np-timeout, --bp-timeout,
\* --bp-window: core::parse_duration() of each one given.
ParseDurations ==
    /\ pc = "durations"
    /\ IF args.durations = "ok" THEN pc' = "resampler" /\ UNCHANGED <<status, receiver>>
                                ELSE Fail
    /\ UNCHANGED <<args, envFailed, bound, trx, player>>

\* The resampler profile, then --resampler-interp and --resampler-window.
SelectResampler ==
    /\ pc = "resampler"
    /\ IF args.resampler = "ok" THEN pc' = "rate" /\ UNCHANGED <<status, receiver>>
                                ELSE Fail
    /\ UNCHANGED <<args, envFailed, bound, trx, player>>

\* --rate.
SelectRate ==
    /\ pc = "rate"
    /\ IF RateOk THEN pc' = "output" /\ UNCHANGED <<status, receiver>>
                 ELSE Fail
    /\ UNCHANGED <<args, envFailed, bound, trx, player>>

\* SoxWriter::open(), then sample_rate(): either may fail (with 0 requested
\* the device's rate is taken, and a device may report none).
OpenOutput ==
    /\ pc = "output"
    /\ Call("pipeline")
    /\ UNCHANGED <<args, bound, trx, player>>

\* pipeline::Receiver, sndio::Player and netio::Transceiver are built in
\* turn and each is checked with valid(); the receiver built is destroyed
\* again by the return.
CreatePipeline ==
    /\ pc = "pipeline"
    /\ \/ pc' = "add_source" /\ receiver' = "live" /\ UNCHANGED <<status, envFailed>>
       \/ pc' = "exit" /\ status' = 1 /\ envFailed' = TRUE /\ receiver' = "destroyed"
    /\ UNCHANGED <<args, bound, trx, player>>

PortPc == [source |-> "add_source", repair |-> "add_repair"]

\* trx.add_udp_receiver(port.address, receiver), then receiver.add_port(port):
\* the source port, and after it the repair port when a codec is selected.
AddPort(p) ==
    LET next == IF p = "source" /\ args.fec # "none" THEN "add_repair" ELSE "start_trx"
    IN
    /\ pc = PortPc[p]
    /\ \/ /\ ~Bindable(PortArg(p))
          /\ Fail /\ UNCHANGED <<envFailed, bound>>
       \/ /\ Bindable(PortArg(p))
          /\ Fail /\ envFailed' = TRUE /\ UNCHANGED bound
       \/ /\ Bindable(PortArg(p))
          /\ bound' = bound \cup {p}
          /\ Call(next)
    /\ UNCHANGED <<args, trx, player>>

\* trx.start(): the network thread starts delivering packets.
StartTrx ==
    /\ pc = "start_trx"
    /\ \/ trx' = "running" /\ pc' = "start_player"
          /\ UNCHANGED <<status, envFailed, receiver>>
       \/ Fail /\ envFailed' = TRUE /\ UNCHANGED trx
    /\ UNCHANGED <<args, bound, player>>

\* player.start(): on failure status stays 1 and main() goes on to stop the
\* transceiver.
StartPlayer ==
    /\ pc = "start_player"
    /\ \/ player' = "running" /\ pc' = "join_player" /\ UNCHANGED <<status, envFailed>>
       \/ pc' = "stop_trx" /\ status' = 1 /\ envFailed' = TRUE /\ UNCHANGED player
    /\ UNCHANGED <<args, receiver, bound, trx>>

\* player.join() returns once the player thread has stopped; status = 0.
JoinPlayer ==
    /\ pc = "join_player"
    /\ player = "stopped"
    /\ pc' = "stop_trx"
    /\ status' = 0
    /\ UNCHANGED <<args, envFailed, receiver, bound, trx, player>>

\* Mutant: main() forgets trx.stop().
StopTrxMissing ==
    /\ pc = "stop_trx"
    /\ pc' = "join_trx"
    /\ UNCHANGED <<args, status, envFailed, receiver, bound, trx, player>>

\* trx.stop(): asks the network thread to leave its loop.
StopTrx ==
    /\ pc = "stop_trx"
    /\ pc' = "join_trx"
    /\ trx' = "stopping"
    /\ UNCHANGED <<args, status, envFailed, receiver, bound, player>>

\* Mutant: main() goes on without trx.join().
JoinTrxNoWait ==
    /\ pc = "join_trx"
    /\ pc' = "remove_ports"
    /\ UNCHANGED <<args, status, envFailed, receiver, bound, trx, player>>

\* trx.join() returns once the network thread has exited.
JoinTrx ==
    /\ pc = "join_trx"
    /\ trx = "exited"
    /\ pc' = "remove_ports"
    /\ UNCHANGED <<args, status, envFailed, receiver, bound, trx, player>>

\* trx.remove_port() of the source port, and of the repair port with a
\* codec; then return status.
RemovePorts ==
    /\ pc = "remove_ports"
    /\ bound' = bound \ UsedPorts
    /\ Return(status)
    /\ UNCHANGED <<args, envFailed, trx, player>>

Main ==
    \/ ParseCmdline \/ ParseAddresses \/ SelectFec \/ ParseDurations
    \/ SelectResampler \/ SelectRate \/ OpenOutput \/ CreatePipeline
    \/ AddPort("source") \/ AddPort("repair") \/ StartTrx \/ StartPlayer
    \/ JoinPlayer \/ StopTrx \/ JoinTrx \/ RemovePorts

-----------------------------------------------------------------------------
(* The two threads beside main.                                            *)

\* The network thread sees the stop request and leaves its loop.
TrxExits ==
    /\ trx = "stopping"
    /\ trx' = "exited"
    /\ UNCHANGED <<args, pc, status, envFailed, receiver, bound, player>>

\* The network thread may deliver a packet into the receiver: from start()
\* until it has left its loop.
Delivering == trx \in {"running", "stopping"}

\* The player thread pulls frames from the receiver while it runs.
Playing == player = "running"

\* The player thread stops when stop holds (with --oneshot, once the last
\* session is gone).
PlayerStops(stop) ==
    /\ player = "running"
    /\ args.oneshot
    /\ stop
    /\ player' = "stopped"
    /\ UNCHANGED <<args, pc, status, envFailed, receiver, bound, trx>>
====
