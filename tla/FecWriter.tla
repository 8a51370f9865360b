------------------------------ MODULE FecWriter ------------------------------
(***************************************************************************)
(* The sender-side FEC writer of roc_fec (writer.cpp).  It numbers the     *)
(* source packets of each block (source block number sbn, block length k,  *)
(* encoding symbol id esi), hands their payloads to the block encoder and, *)
(* after the k-th source packet, builds, encodes and writes the block's    *)
(* repair packets, then moves to the next block.  resize() may be called   *)
(* between any two writes; the new length applies from the next block.     *)
(*                                                                         *)
(* The encoder (OFEncoder, whose implementation is not among the sources)  *)
(* is modelled from its interface (iencoder.h) and spec section 4.4:       *)
(* begin() is idempotent for an unchanged shape and may fail to allocate   *)
(* its tables otherwise; encSet is the set of indices given to set() since *)
(* the last successful begin() or end().                                   *)
(*                                                                         *)
(* out is the stream of packets handed to the downstream writer.  Each     *)
(* packet record carries blk, the index of the writer's block it was       *)
(* produced in, and, for repair packets, full: whether the encoder held    *)
(* all k source symbols of that block when fill() computed it.             *)
(***************************************************************************)
EXTENDS Naturals, Sequences, SequencesExt

CONSTANTS
    NSource,       \* config.n_source_packets: initial block length
    NRepair,       \* config.n_repair_packets: repair packets per block
    SblenChoices,  \* block lengths resize() may be called with
    BlkMod,        \* 2^width of blknum_t
    SnMod,         \* 2^width of seqnum_t
    MaxWrites,     \* number of source packets written
    AllocCanFail,  \* the packet or buffer pool may be exhausted
    BeginCanFail   \* encoder begin() may fail to resize its tables

ASSUME
    /\ NSource \in Nat \ {0}
    /\ NRepair \in Nat \ {0}
    /\ SblenChoices \subseteq Nat
    /\ BlkMod \in Nat \ {0} /\ SnMod \in Nat \ {0}
    /\ MaxWrites \in Nat
    /\ AllocCanFail \in BOOLEAN /\ BeginCanFail \in BOOLEAN

VARIABLES
    cur_sblen,            \* cur_sblen_
    next_sblen,           \* next_sblen_
    cur_packet,           \* cur_packet_
    cur_sbn,              \* cur_sbn_
    cur_block_repair_sn,  \* cur_block_repair_sn_
    encShape,             \* encoder: <<sblen, rblen>> its tables are sized for
    encSet,               \* encoder: indices set since begin()/end()
    out,                  \* packets written downstream
    blk,                  \* index of the current block
    writes                \* source packets written so far

vars == <<cur_sblen, next_sblen, cur_packet, cur_sbn, cur_block_repair_sn,
          encShape, encSet, out, blk, writes>>

Shapes == {<<0, 0>>} \cup {<<k, NRepair>> : k \in SblenChoices \cup {NSource}}

Packets ==
    [kind : {"source"}, sbn : 0 .. BlkMod - 1, k : Nat, esi : Nat, blk : Nat]
    \cup
    [kind : {"repair"}, sbn : 0 .. BlkMod - 1, k : Nat, esi : Nat, blk : Nat,
     sn : 0 .. SnMod - 1, full : BOOLEAN]

-----------------------------------------------------------------------------
\* The repair packets make_repair_packet_() manages to build: each needs a
\* packet and a buffer from the pools.
AllocOutcomes ==
    IF AllocCanFail THEN SUBSET (0 .. NRepair - 1) ELSE {0 .. NRepair - 1}

\* encode_source_packet_(): the first packet of a block begins the encoder;
\* when begin() fails the packet's payload is not given to the encoder.
\* Yields the possible values of <<encShape, encSet>>.
EncodeSourcePacket ==
    LET shape == <<cur_sblen, NRepair>>
    IN IF cur_packet # 0 THEN {<<encShape, encSet \cup {cur_packet}>>}
       ELSE {<<shape, {0}>>}
            \cup (IF BeginCanFail /\ encShape # shape
                  THEN {<<encShape, encSet>>} ELSE {})

\* write_source_packet_(): fill_packet_fec_fields_() with the current block.
SourcePacket ==
    [kind |-> "source", sbn |-> cur_sbn, k |-> cur_sblen, esi |-> cur_packet,
     blk |-> blk]

\* Mutant: the block is taken as complete one packet early.
BlockCompleteEarly(n) == n + 1 = cur_sblen

\* write(): the block is complete after its cur_sblen_-th source packet.
BlockComplete(n) == n = cur_sblen

\* Mutant: the block number is kept in a wider integer than blknum_t.
NextSbnUnwrapped(sbn) == sbn + 1

\* cur_sbn_++ on a blknum_t.
NextSbn(sbn) == (sbn + 1) % BlkMod

\* Mutant: write_repair_packets_() walking the repair packets backwards.
HandleNextBlockReversed(e, o) ==
    \E A \in AllocOutcomes :
        LET idx  == SetToSortSeq(A, >)
            full == (0 .. cur_sblen - 1) \subseteq e[2]
            reps == [j \in 1 .. Len(idx) |->
                       [kind |-> "repair", sbn |-> cur_sbn, k |-> cur_sblen,
                        esi |-> cur_sblen + idx[j], blk |-> blk,
                        sn |-> (cur_block_repair_sn + idx[j]) % SnMod,
                        full |-> full]]
        IN /\ out' = o \o reps
           /\ encShape' = e[1]
           /\ encSet' = {}
           /\ cur_block_repair_sn' = (cur_block_repair_sn + NRepair) % SnMod
           /\ cur_sbn' = NextSbn(cur_sbn)
           /\ cur_packet' = 0
           /\ cur_sblen' = next_sblen
           /\ blk' = blk + 1
           /\ UNCHANGED next_sblen

\* handle_next_block_(): encode_repair_packets_() sets every repair packet it
\* could build into the encoder, fill() computes them from what the encoder
\* holds, write_repair_packets_() writes them in index order, end() clears
\* the encoder; then the repair seqnum and sbn advance, and the length given
\* to resize() takes effect.  e is the encoder state after the source packet.
HandleNextBlock(e, o) ==
    \E A \in AllocOutcomes :
        LET idx  == SetToSortSeq(A, <)
            full == (0 .. cur_sblen - 1) \subseteq e[2]
            reps == [j \in 1 .. Len(idx) |->
                       [kind |-> "repair", sbn |-> cur_sbn, k |-> cur_sblen,
                        esi |-> cur_sblen + idx[j], blk |-> blk,
                        sn |-> (cur_block_repair_sn + idx[j]) % SnMod,
                        full |-> full]]
        IN /\ out' = o \o reps
           /\ encShape' = e[1]
           /\ encSet' = {}
           /\ cur_block_repair_sn' = (cur_block_repair_sn + NRepair) % SnMod
           /\ cur_sbn' = NextSbn(cur_sbn)
           /\ cur_packet' = 0
           /\ cur_sblen' = next_sblen
           /\ blk' = blk + 1
           /\ UNCHANGED next_sblen

-----------------------------------------------------------------------------
Init ==
    /\ cur_sblen = NSource
    /\ next_sblen = NSource
    /\ cur_packet = 0
    /\ cur_sbn \in 0 .. BlkMod - 1               \* core::random()
    /\ cur_block_repair_sn \in 0 .. SnMod - 1    \* core::random()
    /\ encShape = <<0, 0>>
    /\ encSet = {}
    /\ out = <<>>
    /\ blk = 0
    /\ writes = 0

\* write(pp) of the next source packet.
Write ==
    /\ writes < MaxWrites
    /\ writes' = writes + 1
    /\ \E e \in EncodeSourcePacket :
          LET o == Append(out, SourcePacket)
              n == cur_packet + 1
          IN IF BlockComplete(n)
             THEN HandleNextBlock(e, o)
             ELSE /\ encShape' = e[1]
                  /\ encSet' = e[2]
                  /\ out' = o
                  /\ cur_packet' = n
                  /\ UNCHANGED <<cur_sblen, next_sblen, cur_sbn,
                                 cur_block_repair_sn, blk>>

\* Mutant: resize() applies the new length to the current block.
ResizeNow(n) ==
    /\ next_sblen' = n
    /\ cur_sblen' = n

\* resize(sblen): the new length is kept for the next block.
Resize(n) ==
    /\ next_sblen' = n
    /\ UNCHANGED cur_sblen

Done ==
    /\ writes = MaxWrites
    /\ UNCHANGED vars

Next ==
    \/ Write
    \/ \E n \in SblenChoices :
          /\ writes < MaxWrites
          /\ Resize(n)
          /\ UNCHANGED <<cur_packet, cur_sbn, cur_block_repair_sn, encShape,
                         encSet, out, blk, writes>>
    \/ Done

Spec == Init /\ [][Next]_vars

-----------------------------------------------------------------------------
TypeOK ==
    /\ cur_sblen \in SblenChoices \cup {NSource}
    /\ next_sblen \in SblenChoices \cup {NSource}
    /\ cur_packet \in 0 .. MaxWrites
    /\ cur_sbn \in 0 .. BlkMod - 1
    /\ cur_block_repair_sn \in 0 .. SnMod - 1
    /\ encShape \in Shapes
    /\ encSet \subseteq Nat
    /\ out \in Seq(Packets)
    /\ writes \in 0 .. MaxWrites

(* Every packet of one block carries the block length of that block, and   *)
(* its encoding symbol id lies in the source range 0..k-1 or the repair    *)
(* range k..k+rblen-1 of that length, whatever resize() calls came in      *)
(* between the writes.  The receiver groups packets by sbn and trusts k.   *)
BlockShape ==
    \A i, j \in DOMAIN out :
        /\ out[i].blk = out[j].blk => out[i].k = out[j].k
        /\ out[i].kind = "source" => out[i].esi < out[i].k
        /\ out[i].kind = "repair" =>
              out[i].esi \in out[i].k .. out[i].k + NRepair - 1

(* A repair packet is written only after all k source packets of its block *)
(* were written, each exactly once, in esi order.                          *)
RepairAfterSources ==
    \A j \in DOMAIN out :
        out[j].kind = "repair" =>
            LET S == SelectSeq(SubSeq(out, 1, j - 1),
                               LAMBDA p : p.kind = "source" /\ p.blk = out[j].blk)
            IN S = [x \in 1 .. out[j].k |-> [kind |-> "source", sbn |-> out[j].sbn,
                                            k |-> out[j].k, esi |-> x - 1,
                                            blk |-> out[j].blk]]

(* Every repair packet written was computed by fill() from all k source    *)
(* payloads of its own block (spec 7: an allocation failure may drop data  *)
(* but must not corrupt it).                                               *)
RepairFromFullBlock ==
    \A j \in DOMAIN out : out[j].kind = "repair" => out[j].full

\* The fields of a packet the receiver reads.
Wire(p) ==
    IF p.kind = "source"
    THEN [kind |-> p.kind, sbn |-> p.sbn, k |-> p.k, esi |-> p.esi]
    ELSE [kind |-> p.kind, sbn |-> p.sbn, k |-> p.k, esi |-> p.esi, sn |-> p.sn]

\* The writer seen as the stream it promises: resize() is invisible until
\* the next block opens, so next_sblen_ is hidden.
Stream == INSTANCE FecStream
    WITH stream <- [i \in DOMAIN out |-> Wire(out[i])],
         sbn <- cur_sbn, k <- cur_sblen, sent <- cur_packet,
         rsn <- cur_block_repair_sn,
         Lengths <- SblenChoices \cup {NSource}, R <- NRepair

(* The writer implements FecStream: every write() and resize() is a step   *)
(* of the abstract stream or leaves it unchanged, so blocks go out whole,  *)
(* numbered consecutively with one length each, their repair packets       *)
(* follow the last source packet in esi order, and repair seqnums advance *)
(* by rblen per block even when packets could not be built.                *)
ImplementsFecStream == Stream!Spec
=============================================================================
