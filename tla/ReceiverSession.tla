--------------------------- MODULE ReceiverSession ---------------------------
(***************************************************************************)
(* Receiver sessions and the session dispatcher of roc_pipeline.          *)
(*                                                                         *)
(* A ReceiverSession (receiver_session.cpp) is built for the UDP source    *)
(* address of the packet that created it; handle() accepts a packet only   *)
(* if its source address equals the session's (Address::operator!=,       *)
(* address.cpp), and update() runs the watchdog and then the latency       *)
(* monitor, reporting failure if either fails.                            *)
(*                                                                         *)
(* The dispatcher is not among the sources; it is modelled from spec       *)
(* section 4.10: on each packet it offers the packet to the live sessions, *)
(* and if none accepts it creates a session for the packet's source (up to *)
(* MaxSessions), drops it if construction left it invalid, and forwards   *)
(* the packet to it; on each tick it updates every session and destroys    *)
(* those whose update() failed.                                            *)
(*                                                                         *)
(* An address is a record of family, ip and port.  The watchdog and the    *)
(* latency monitor are not among the sources: their verdicts are free.     *)
(***************************************************************************)
EXTENDS Naturals, FiniteSets

CONSTANTS
    Senders,      \* source addresses of the senders
    MaxSessions,  \* the dispatcher's bound on concurrent sessions
    MaxPackets    \* packets received

ASSUME
    /\ \A a \in Senders : a.family \in {4, 6}
    /\ MaxSessions \in Nat \ {0}
    /\ MaxPackets \in Nat

Slots == 1 .. MaxSessions
None == [family |-> 0, ip |-> 0, port |-> 0]

VARIABLES
    addr,      \* addr[s]: src_address_ of the session in slot s, None if free
    recvd,     \* recvd[s]: sources of the packets the session in slot s accepted
    dropped,   \* sources of packets no session accepted
    packets    \* packets received so far

vars == <<addr, recvd, dropped, packets>>

Live == {s \in Slots : addr[s] # None}

\* The same sender: what the dispatcher's map from source address to session
\* is keyed by (spec 4.10).
SameSource(a, b) == a = b

-----------------------------------------------------------------------------
\* Mutant: IPv4 addresses compared as objects, like the IPv6 arrays.
AddressEqByObject(a, b) ==
    /\ a.family = b.family
    /\ FALSE

\* Mutant: IPv4 addresses compared without their port.
AddressEqNoPort(a, b) ==
    /\ a.family = b.family
    /\ a.family = 4 => a.ip = b.ip

\* Address::operator== of the packet's source address and a different Address
\* object.  For IPv6 the code compares the two s6_addr arrays, that is the
\* addresses of two distinct objects, so they are never equal.
AddressEq(a, b) ==
    /\ a.family = b.family
    /\ a.family = 4 => a.ip = b.ip /\ a.port = b.port
    /\ a.family # 6

\* ReceiverSession::handle() of a packet from a, by a session built for b:
\* refused when udp->src_addr != src_address_, else written to the router.
Handle(a, b) == AddressEq(a, b)

\* The slots whose sessions accept a packet from a.
Accepting(a) == {s \in Live : Handle(a, addr[s])}

\* ReceiverSession::update(): the watchdog first, then the latency monitor;
\* either one failing fails the update.
Update(wdOk, lmOk) == wdOk /\ lmOk

\* ReceiverSession(): each stage of the reader chain (router, queues,
\* validators, FEC reader, depacketizer, watchdog, resampler, latency
\* monitor) may fail to build, and then the constructor returns early with
\* audio_reader_ NULL, so that valid() is false.
ValidOutcomes == BOOLEAN

-----------------------------------------------------------------------------
Init ==
    /\ addr = [s \in Slots |-> None]
    /\ recvd = [s \in Slots |-> {}]
    /\ dropped = {}
    /\ packets = 0

\* A packet from sender a is offered to the live sessions in the dispatcher's
\* order and written to the first that accepts it.
Route(a) ==
    /\ packets < MaxPackets
    /\ Accepting(a) # {}
    /\ LET s == CHOOSE x \in Accepting(a) : \A y \in Accepting(a) : x <= y
       IN recvd' = [recvd EXCEPT ![s] = @ \cup {a}]
    /\ packets' = packets + 1
    /\ UNCHANGED <<addr, dropped>>

\* No session accepts it: the dispatcher creates one for the packet's source
\* in a free slot.  The constructor leaves the session invalid (audio_reader_
\* NULL) when building its reader chain fails; the dispatcher then destroys
\* it and drops the packet.  A valid session is handed the packet like any
\* other.  With every slot taken the packet is dropped.
Create(a) ==
    /\ packets < MaxPackets
    /\ Accepting(a) = {}
    /\ packets' = packets + 1
    /\ \/ \E s \in Slots \ Live, valid \in ValidOutcomes :
             \/ /\ valid
                /\ addr' = [addr EXCEPT ![s] = a]
                /\ IF Handle(a, a)
                   THEN recvd' = [recvd EXCEPT ![s] = {a}] /\ UNCHANGED dropped
                   ELSE recvd' = [recvd EXCEPT ![s] = {}] /\ dropped' = dropped \cup {a}
             \/ /\ ~valid
                /\ dropped' = dropped \cup {a}
                /\ UNCHANGED <<addr, recvd>>
       \/ /\ Live = Slots
          /\ dropped' = dropped \cup {a}
          /\ UNCHANGED <<addr, recvd>>

\* A scheduler tick updates the session in slot s and destroys it if
\* update() failed.
Tick(s) ==
    /\ s \in Live
    /\ \E wdOk, lmOk \in BOOLEAN :
          IF Update(wdOk, lmOk) THEN UNCHANGED addr
          ELSE addr' = [addr EXCEPT ![s] = None]
    /\ UNCHANGED <<recvd, dropped, packets>>

\* The bounded run of packets is over.
Done ==
    /\ packets = MaxPackets
    /\ UNCHANGED vars

Next ==
    \/ \E a \in Senders : Route(a) \/ Create(a)
    \/ \E s \in Slots : Tick(s)
    \/ Done

Spec == Init /\ [][Next]_vars

-----------------------------------------------------------------------------
(* A session receives only packets of the sender it was created for: the  *)
(* address check in handle() keeps two senders on one receiver port apart *)
(* (spec 8, scenario 5).                                                   *)
RoutedToOwnSession ==
    \A s \in Live : \A a \in recvd[s] : SameSource(a, addr[s])

(* The dispatcher keeps at most one session per source address: a packet  *)
(* from a sender that has a live session is handled by it and never makes  *)
(* a second one (spec 4.10).                                               *)
OneSessionPerSource ==
    \A s, t \in Live : s # t => ~SameSource(addr[s], addr[t])

=============================================================================
