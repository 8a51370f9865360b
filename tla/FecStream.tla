------------------------------ MODULE FecStream ------------------------------
(***************************************************************************)
(* What the sender's FEC writer promises the network (spec sections 2 and *)
(* 4.4): the packet stream is a sequence of source blocks with             *)
(* consecutive block numbers.  A block of length k carries its k source    *)
(* packets with esi 0 .. k-1 in order; the packet that completes the block *)
(* is followed at once by those of its repair packets that could be built, *)
(* in esi order within k .. k+R-1, and the repair seqnums of consecutive   *)
(* blocks are consecutive, R per block, whether or not a packet was built. *)
(* The length of the next block may be any of Lengths.                     *)
(*                                                                         *)
(* Packets are the fields a receiver reads: kind, sbn, k, esi, and the RTP *)
(* seqnum of repair packets.                                               *)
(***************************************************************************)
EXTENDS Naturals, Sequences, SequencesExt

CONSTANTS
    Lengths,   \* block lengths the stream may use
    R,         \* repair packets per block
    BlkMod,    \* 2^width of the block number
    SnMod      \* 2^width of the RTP seqnum

VARIABLES
    stream,    \* packets sent so far
    sbn,       \* number of the open block
    k,         \* length of the open block
    sent,      \* source packets of the open block sent so far
    rsn        \* seqnum of the open block's first repair packet

vars == <<stream, sbn, k, sent, rsn>>

Src(esi) == [kind |-> "source", sbn |-> sbn, k |-> k, esi |-> esi]

Rep(i) == [kind |-> "repair", sbn |-> sbn, k |-> k, esi |-> k + i,
           sn |-> (rsn + i) % SnMod]

Init ==
    /\ stream = <<>>
    /\ sbn \in 0 .. BlkMod - 1
    /\ k \in Lengths
    /\ sent = 0
    /\ rsn \in 0 .. SnMod - 1

\* A source packet that leaves the block open.
SendSource ==
    /\ sent + 1 < k
    /\ stream' = Append(stream, Src(sent))
    /\ sent' = sent + 1
    /\ UNCHANGED <<sbn, k, rsn>>

\* The last source packet of the block, the repair packets of the indices
\* in Built, and the next block opened.
CloseBlock ==
    /\ sent + 1 = k
    /\ \E Built \in SUBSET (0 .. R - 1), next \in Lengths :
          LET idx == SetToSortSeq(Built, <)
          IN  /\ stream' = Append(stream, Src(sent))
                           \o [j \in 1 .. Len(idx) |-> Rep(idx[j])]
              /\ sbn' = (sbn + 1) % BlkMod
              /\ k' = next
              /\ sent' = 0
              /\ rsn' = (rsn + R) % SnMod

Next == SendSource \/ CloseBlock

Spec == Init /\ [][Next]_vars
=============================================================================
