------------------------------- MODULE MCRecv -------------------------------
(***************************************************************************)
(* roc-recv as a whole: main() (RocRecv) with the receiver's session       *)
(* dispatcher (ReceiverSession) between its two threads.                   *)
(*                                                                         *)
(* The network thread delivers each packet into the receiver, which routes *)
(* it to a session or creates one; it does so from trx.start() until it    *)
(* has seen trx.stop().  The player thread pulls frames through the        *)
(* receiver, whose sessions are updated as it does so (spec 5: the tick   *)
(* may run on the audio thread), from player.start() until the player     *)
(* stops.  sndio::Player is not among the sources: with --oneshot it is   *)
(* modelled as stopping once a session has existed and none is left,      *)
(* without it as never stopping.                                           *)
(***************************************************************************)
EXTENDS Naturals

CONSTANTS Senders, MaxSessions, MaxPackets

VARIABLES
    args, pc, status, envFailed, receiver, bound, trx, player,  \* main()
    addr, recvd, dropped, packets,                              \* sessions
    hadSession  \* ghost: the receiver has had a session

R == INSTANCE RocRecv
S == INSTANCE ReceiverSession

rvars == <<args, pc, status, envFailed, receiver, bound, trx, player>>
svars == <<addr, recvd, dropped, packets>>
vars == <<rvars, svars, hadSession>>

Init == R!Init /\ S!Init /\ hadSession = FALSE

\* A step of main().
MainStep == R!Main /\ UNCHANGED <<svars, hadSession>>

\* The network thread leaves its loop after trx.stop().
NetworkExits == R!TrxExits /\ UNCHANGED <<svars, hadSession>>

\* The network thread delivers a packet from sender a into the receiver.
Deliver(a) ==
    /\ R!Delivering
    /\ S!Route(a) \/ S!Create(a)
    /\ hadSession' = (hadSession \/ \E s \in S!Slots : addr'[s] # S!None)
    /\ UNCHANGED rvars

\* The player thread's pull updates the session in slot s.
Play(s) ==
    /\ R!Playing
    /\ S!Tick(s)
    /\ UNCHANGED <<rvars, hadSession>>

\* With --oneshot the player stops once the last session is gone.
PlayerStops ==
    /\ R!PlayerStops(hadSession /\ S!Live = {})
    /\ UNCHANGED <<svars, hadSession>>

\* main() has returned, or the bounded run of packets is over.
Done ==
    /\ pc = "exit" \/ packets = MaxPackets
    /\ UNCHANGED vars

Next ==
    \/ MainStep \/ NetworkExits \/ PlayerStops
    \/ \E a \in Senders : Deliver(a)
    \/ \E s \in S!Slots : Play(s)
    \/ Done

\* The main thread and the network thread are scheduled by the OS.
Spec == Init /\ [][Next]_vars /\ WF_vars(MainStep) /\ WF_vars(NetworkExits)

-----------------------------------------------------------------------------
\* The command line the receiver tool's contract accepts (spec 6: --source
\* is required, --repair is required with FEC, sizes, rates and resampler
\* windows are positive and given only where they apply, durations parse).
ConfigValid ==
    /\ args.parsed
    /\ args.source = "ok"
    /\ args.repair \in IF args.fec = "none" THEN {"absent", "ok"} ELSE {"ok"}
    /\ {args.nbsrc, args.nbrpr} \subseteq
           IF args.fec = "none" THEN {"absent"} ELSE {"absent", "pos"}
    /\ args.durations = "ok" /\ args.resampler = "ok"
    /\ args.rate \in {"absent", "pos"}

(* main() returns 0 exactly when the command line is valid and nothing it  *)
(* called failed, and 1 otherwise (spec 6: "exit 0 on graceful completion, *)
(* 1 on configuration or bind failure"): the chain of early returns in     *)
(* main.cpp together with the unset-Address bind of a missing --repair      *)
(* implement the contract.                                                  *)
ExitStatusPerSpec ==
    pc = "exit" => (status = 0 <=> ConfigValid /\ ~envFailed)

(* Neither thread outlives the receiver it works on: while the network     *)
(* thread may still deliver packets, and while the player thread pulls     *)
(* frames, the pipeline::Receiver on main()'s stack has not been destroyed *)
(* (main() joins the player, then stops and joins the transceiver, before *)
(* it returns).                                                             *)
ThreadsNeverOutliveReceiver ==
    (R!Delivering \/ R!Playing) => receiver = "live"

(* Once the player has stopped, main() returns: trx.stop() reaches the     *)
(* network thread, so trx.join() does not wait forever.                    *)
ShutdownCompletes == player = "stopped" ~> pc = "exit"

(* The session properties of ReceiverSession, with packets delivered only  *)
(* while the network thread runs and sessions updated by the player.       *)
RoutedToOwnSession == S!RoutedToOwnSession

(* See ReceiverSession: at most one session per source address.            *)
OneSessionPerSource == S!OneSessionPerSource

(* See ReceiverSession: every live session accepted its first packet.      *)

\* Two senders on one host with different ports, and a second host.
SendersIPv4 == {[family |-> 4, ip |-> 1, port |-> 1],
                [family |-> 4, ip |-> 1, port |-> 2],
                [family |-> 4, ip |-> 2, port |-> 1]}
-----------------------------------------------------------------------------
====
