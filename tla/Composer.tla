------------------------------- MODULE Composer -------------------------------
(***************************************************************************)
(* The FECFRAME packet composer, roc_fec/composer.h.                       *)
(*                                                                         *)
(* A Composer<PayloadID, Type, Pos> writes a payload id of sizeof(PayloadID)*)
(* bytes either before (Pos = Header) or after (Pos = Footer) the payload  *)
(* it hands to its inner composer.  A packet is laid out by a chain of     *)
(* composers, outermost first; each call of align/prepare/truncate/compose *)
(* does its own part and then delegates to inner_composer_.  The chain is  *)
(* a sequence of layers [pos, size], every one of which behaves as the     *)
(* template does; all of them share the packet's one FEC struct.           *)
(*                                                                         *)
(* A buffer slice is an offset into the packet buffer and a capacity;      *)
(* byte contents are left out.  The operators are checked against a       *)
(* reference layout: the headers of all layers in order, the payload, then *)
(* the footers from the innermost outwards.                                *)
(*                                                                         *)
(* The spec is a set of inputs: Init chooses them and nothing changes, so  *)
(* the invariants range over every bounded input.                          *)
(***************************************************************************)
EXTENDS Integers, SequencesExt

CONSTANTS
    Sizes,          \* sizeof(PayloadID) of the payload id types
    MaxDepth,       \* longest chain of composers
    Capacities,     \* capacities of the buffer handed to align()
    Alignments,     \* the encoder's payload alignment
    PayloadSizes,   \* payload_size passed to prepare()
    TruncSizes,     \* payload_size passed to truncate()
    BlockLengths,   \* cur_sblen_ of the writer composing repair packets
    RepairCounts    \* cur_rblen_ of that writer

ASSUME
    /\ Sizes \subseteq Nat \ {0}
    /\ MaxDepth \in Nat \ {0}
    /\ Alignments \subseteq Nat \ {0}

Layers == [pos : {"header", "footer"}, size : Sizes]
Chains == UNION {[1 .. n -> Layers] : n \in 1 .. MaxDepth}

\* The result of a composer call that returned false.
Fail == [res |-> "fail"]

U16 == 2^16

VARIABLES chain, cap, alignment, psize, newSize, k, r

vars == <<chain, cap, alignment, psize, newSize, k, r>>

-----------------------------------------------------------------------------
\* core::padding(size, alignment): the bytes to add so that size becomes a
\* multiple of alignment.
Padding(size, align) == IF size % align = 0 THEN 0 ELSE align - (size % align)

RECURSIVE Align(_, _, _, _)

\* Composer::align(buffer, header_size, payload_alignment): each header
\* layer adds its size, and the innermost pads the buffer so that the
\* headers end on the alignment, refusing when the buffer is too small.
\* The buffer then starts after the padding.
Align(ch, header_size, align, capacity) ==
    LET hs == IF Head(ch).pos = "header" THEN header_size + Head(ch).size
              ELSE header_size
    IN  IF Tail(ch) = <<>>
        THEN IF capacity < Padding(hs, align) THEN Fail
             ELSE [res |-> "ok", pad |-> Padding(hs, align)]
        ELSE Align(Tail(ch), hs, align, capacity)

RECURSIVE Prepare(_, _, _, _), PrepareNoFooterCheck(_, _, _, _)

\* Mutant: prepare() without the capacity check of the footer.
PrepareNoFooterCheck(ch, start, capacity, payload_size) ==
    LET me   == Head(ch)
        hlen == IF me.pos = "header" THEN me.size ELSE 0
        in   == IF Tail(ch) = <<>>
                THEN IF payload_size > capacity - hlen THEN [res |-> "panic"]
                     ELSE [res |-> "ok", len |-> payload_size, data |-> start + hlen]
                ELSE Prepare(Tail(ch), start + hlen, capacity - hlen, payload_size)
    IN  CASE me.pos = "header" /\ capacity < me.size -> Fail
          [] in.res # "ok" -> in
          [] OTHER ->
               [res |-> "ok", len |-> me.size + in.len, data |-> in.data,
                pid |-> <<IF me.pos = "header" THEN start ELSE start + in.len, me.size>>,
                pay |-> <<start + hlen, in.len>>]

\* Composer::prepare(packet, buffer, payload_size) on a buffer at offset
\* start with the given capacity.  A header layer takes its payload id from
\* the front when it fits; the payload follows it and is prepared by the
\* inner composer, or, by the innermost, resized to payload_size with no
\* capacity check (core::Slice::resize panics beyond the capacity); a footer
\* layer then takes its payload id after the payload when it fits.  The
\* FEC struct gets this layer's payload_id and payload, and the buffer is
\* resized to both.  "data" is where the innermost payload starts.
Prepare(ch, start, capacity, payload_size) ==
    LET me   == Head(ch)
        hlen == IF me.pos = "header" THEN me.size ELSE 0
        in   == IF Tail(ch) = <<>>
                THEN IF payload_size > capacity - hlen THEN [res |-> "panic"]
                     ELSE [res |-> "ok", len |-> payload_size, data |-> start + hlen]
                ELSE Prepare(Tail(ch), start + hlen, capacity - hlen, payload_size)
    IN  CASE me.pos = "header" /\ capacity < me.size -> Fail
          [] in.res # "ok" -> in
          [] me.pos = "footer" /\ capacity - in.len < me.size -> Fail
          [] OTHER ->
               [res |-> "ok", len |-> me.size + in.len, data |-> in.data,
                pid |-> <<IF me.pos = "header" THEN start ELSE start + in.len, me.size>>,
                pay |-> <<start + hlen, in.len>>]

\* Composer::truncate(packet, payload_size) of the FEC payload slice pay
\* (offset, size) that prepare() left in the shared FEC struct: refused when
\* it would grow; otherwise the inner composers truncate first and the
\* slice keeps its first payload_size bytes.
RECURSIVE Truncate(_, _, _)
Truncate(ch, pay, payload_size) ==
    LET in == IF Tail(ch) = <<>> THEN [res |-> "ok", pay |-> pay]
              ELSE Truncate(Tail(ch), pay, payload_size)
    IN  CASE pay[2] < payload_size -> Fail
          [] in.res # "ok" -> in
          [] OTHER -> [res |-> "ok", pay |-> <<in.pay[1], payload_size>>]

\* Composer::compose(packet), by every layer of the chain in turn, of the
\* FEC struct's source_block_length k and encoding_symbol_id esi into the
\* payload id slice pidLen bytes long that the outermost prepare() left:
\* it panics on a payload id of the wrong size, and on k or esi that do not
\* fit below 0xFFFF, and writes both truncated to 16 bits.  The source block
\* number is written as it is and left out.
RECURSIVE Compose(_, _, _, _)
Compose(ch, pidLen, blen, esi) ==
    CASE pidLen # Head(ch).size \/ blen >= U16 - 1 \/ esi >= U16 - 1 ->
              [res |-> "panic"]
      [] Tail(ch) # <<>> -> Compose(Tail(ch), pidLen, blen, esi)
      [] OTHER -> [res |-> "ok", k |-> blen % U16, esi |-> esi % U16]

\* Mutant: the repair esi without the block length added.
RepairEsiNoOffset(blen, pack_n) == pack_n % U16

\* Writer::make_repair_packet_ and fill_packet_fec_fields_: repair packet
\* pack_n of a block of blen source packets gets the esi
\* (seqnum_t)cur_sblen_ + pack_n, passed on as a 16-bit seqnum_t.
RepairEsi(blen, pack_n) == ((blen % U16) + pack_n) % U16

-----------------------------------------------------------------------------
Init ==
    /\ chain \in Chains
    /\ cap \in Capacities
    /\ alignment \in Alignments
    /\ psize \in PayloadSizes
    /\ newSize \in TruncSizes
    /\ k \in BlockLengths
    /\ r \in RepairCounts

Next == UNCHANGED vars

Spec == Init /\ [][Next]_vars

\* What the writer does with a buffer: align(data, 0, alignment), then
\* prepare() on the buffer after the padding.
Aligned == Align(chain, 0, alignment, cap)
Prepared == Prepare(chain, Aligned.pad, cap - Aligned.pad, psize)

-----------------------------------------------------------------------------
(* The reference layout.                                                   *)
SizeOf(s) == FoldLeft(LAMBDA acc, l : acc + l.size, 0, s)
HeaderBytes(ch) == SizeOf(SelectSeq(ch, LAMBDA l : l.pos = "header"))
RefPad == CHOOSE q \in 0 .. alignment - 1 : (q + HeaderBytes(chain)) % alignment = 0
RefTotal == SizeOf(chain) + psize
RefFits == RefPad + RefTotal <= cap
RefPid ==
    IF Head(chain).pos = "header" THEN <<RefPad, Head(chain).size>>
    ELSE <<RefPad + RefTotal - Head(chain).size, Head(chain).size>>
RefPayload ==
    <<RefPad + (IF Head(chain).pos = "header" THEN Head(chain).size ELSE 0),
      RefTotal - Head(chain).size>>

-----------------------------------------------------------------------------
(* align() followed by prepare() succeeds exactly when the padding, every  *)
(* layer's payload id and the payload fit in the buffer, and then lays     *)
(* the packet out as the reference does: the FEC struct's payload_id and   *)
(* payload are the outermost layer's, the buffer holds all of it, and the  *)
(* innermost payload follows all the headers; truncate() then refuses to  *)
(* grow the FEC payload and otherwise keeps its first bytes.  prepare()    *)
(* panics instead of failing exactly when the headers fit and the payload *)
(* does not: the innermost resize has no capacity check.  The              *)
(* capacity checks are spread over the layers of composer.h and over two  *)
(* functions.                                                              *)
LayoutMatchesReference ==
    /\ (Aligned.res = "ok") <=> RefPad <= cap
    /\ Aligned.res = "ok" =>
         /\ (Prepared.res = "ok") <=> RefFits
         /\ (Prepared.res = "panic") <=>
              HeaderBytes(chain) <= cap - RefPad /\ cap - RefPad < HeaderBytes(chain) + psize
         /\ Prepared.res = "ok" =>
              /\ Prepared.pid = RefPid
              /\ Prepared.pay = RefPayload
              /\ Prepared.len = RefTotal
              /\ Prepared.data = RefPad + HeaderBytes(chain)
              /\ LET t == Truncate(chain, Prepared.pay, newSize)
                 IN  /\ (t.res = "ok") <=> newSize <= Prepared.pay[2]
                     /\ t.res = "ok" => t.pay = <<Prepared.pay[1], newSize>>

(* Every repair packet the writer composes for a block of k source packets *)
(* and r repair packets, with k + r at most 0xFFFF, carries k and an esi *)
(* in k .. k+r-1, which tells the receiver it is a repair symbol, and     *)
(* compose() does not panic on it (make_repair_packet_ computes the esi in *)
(* 16 bits, compose() checks both fields against 0xFFFF).  Chains nesting  *)
(* payload ids of different sizes are left out: the composers share one   *)
(* FEC struct, and the sender nests a FEC composer only in RTP composers.  *)
RepairIdsOnWire ==
    /\ Aligned.res = "ok" /\ Prepared.res = "ok"
    /\ \A i \in DOMAIN chain : chain[i].size = Head(chain).size
    /\ k + r <= U16 - 1
    =>
        \A n \in 0 .. r - 1 :
            LET c == Compose(chain, Prepared.pid[2], k, RepairEsi(k, n))
            IN  /\ c.res = "ok"
                /\ c.k = k
                /\ k <= c.esi /\ c.esi < k + r
=============================================================================
