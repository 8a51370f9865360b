------------------------------ MODULE OFDecoder ------------------------------
(***************************************************************************)
(* The OpenFEC block decoder of roc_fec (of_decoder.cpp), driven for a     *)
(* sequence of FEC blocks by its caller, the FEC reader.                   *)
(*                                                                         *)
(* The decoder keeps three tables indexed by encoding symbol id:           *)
(*   buff  (buff_tab_)  the buffer handed out by repair(): the caller's    *)
(*                      buffer given to set(), or a pool buffer;           *)
(*   data  (data_tab_)  the raw pointer known to OpenFEC: the caller's     *)
(*                      buffer, a pool buffer, or memory that OpenFEC      *)
(*                      allocated itself ("of");                           *)
(*   recv  (recv_tab_)  whether the symbol came from set().                *)
(* A buffer is identified by its owner tag: within one block there is at   *)
(* most one buffer of each kind per index, so comparing tags is comparing  *)
(* pointers.                                                               *)
(*                                                                         *)
(* The OpenFEC library is abstracted to what the decoder relies on: the    *)
(* set of symbols its session holds (known), the memory it used for each   *)
(* source symbol it reconstructed (dec), and a decodability predicate:     *)
(* Reed-Solomon decodes once it holds SBLEN symbols, LDPC-Staircase needs  *)
(* SBLEN + overhead symbols where overhead varies per block.  LDPC may      *)
(* also reconstruct while symbols are added (iterative decoding).          *)
(*                                                                         *)
(* ofLive is bookkeeping: the source indices whose OpenFEC-allocated       *)
(* memory has not been freed.                                              *)
(***************************************************************************)
EXTENDS Naturals, FiniteSets, FiniteSetsExt

CONSTANTS
    SBLEN,        \* source symbols per block (sblen)
    RBLEN,        \* repair symbols per block (rblen)
    Codecs,       \* codecs of the config: "RS" (ReedSolomon8m, optimal),
                  \* "LDPC" (LDPCStaircase)
    MaxOverhead,  \* extra symbols LDPC may need beyond SBLEN in a block
    PoolCanFail,  \* the byte buffer pool may be exhausted at any allocation
    Batch,        \* TRUE: the caller sets all its symbols before any repair
    MaxBlocks     \* number of blocks the caller decodes

ASSUME
    /\ SBLEN \in Nat \ {0}
    /\ RBLEN \in Nat \ {0}
    /\ Codecs \subseteq {"RS", "LDPC"}
    /\ MaxOverhead \in Nat
    /\ PoolCanFail \in BOOLEAN
    /\ Batch \in BOOLEAN
    /\ MaxBlocks \in Nat \ {0}

Src == 0 .. SBLEN - 1
Rep == SBLEN .. SBLEN + RBLEN - 1
Sym == Src \cup Rep

None == "none"
BuffKinds == {None, "caller", "pool"}
DataKinds == {None, "caller", "pool", "of"}

VARIABLE codec   \* config.codec the decoder was built for

\* is_optimal_(): only Reed-Solomon recovers any source symbol from SBLEN symbols.
IsOptimal == codec = "RS"

Overheads == IF IsOptimal THEN {0} ELSE 0 .. MaxOverhead

\* Memory OpenFEC uses for a reconstructed source symbol: source_cb_ calls
\* make_buffer_, which hands out a pool buffer; when that fails (NULL) OpenFEC
\* allocates the symbol itself ("OpenFEC may allocate memory without calling
\* source_cb_()").
MemChoice == {"pool"} \cup (IF PoolCanFail THEN {"of"} ELSE {})

NoDec == [j \in Src |-> None]

VARIABLES
    shaped,     \* sblen_/rblen_ already equal the block shape
    buff,       \* buff_tab_
    data,       \* data_tab_
    recv,       \* recv_tab_
    hasNew,     \* has_new_packets_
    finished,   \* decoding_finished_
    known,      \* OpenFEC session: symbols it holds
    dec,        \* OpenFEC session: memory of each source symbol it reconstructed
    overhead,   \* LDPC: symbols beyond SBLEN this block needs
    ofLive,     \* source indices whose OpenFEC-allocated memory is not freed
    panicked,   \* roc_panic() was reached
    active,     \* caller: a block is begun and not yet ended
    arrived,    \* caller: symbols of this block it receives
    setDone,    \* caller: symbols it passed to set()
    got,        \* caller: source symbols it obtained from repair()
    tried,      \* caller: source symbols it called repair() for
    blocks,     \* caller: blocks begun so far
    lastRepair, \* the outcome of the latest repair() call
    destroyed   \* ~OFDecoder() has run

dvars == <<buff, data, recv, hasNew, finished, known, dec, ofLive>>
cvars == <<active, arrived, setDone, got, tried, blocks, lastRepair, overhead>>
vars == <<codec, shaped, panicked, destroyed, dvars, cvars>>

-----------------------------------------------------------------------------
(* The decoder and session state as a record, so that the steps of one     *)
(* call can be composed as functions from a state to its possible results. *)

St == [buff |-> buff, data |-> data, recv |-> recv, hasNew |-> hasNew,
       finished |-> finished, known |-> known, dec |-> dec, ofLive |-> ofLive]

Assign(s) ==
    /\ buff' = s.buff
    /\ data' = s.data
    /\ recv' = s.recv
    /\ hasNew' = s.hasNew
    /\ finished' = s.finished
    /\ known' = s.known
    /\ dec' = s.dec
    /\ ofLive' = s.ofLive

\* Whether the library can reconstruct every source symbol from K.
Decodable(K) == Cardinality(K) >= SBLEN + overhead

\* OpenFEC reconstructs every source symbol it does not hold, each in a pool
\* buffer obtained through source_cb_ (which also stores it in buff_tab_) or
\* in memory of its own.
ReconstructAll(s) ==
    LET M == Src \ s.known
    IN { [s EXCEPT !.known = @ \cup M,
                   !.dec = [j \in Src |-> IF j \in M THEN m[j] ELSE @[j]],
                   !.buff = [j \in Sym |-> IF j \in M /\ m[j] = "pool"
                                           THEN "pool" ELSE @[j]],
                   !.ofLive = @ \cup {j \in M : m[j] = "of"}]
         : m \in [M -> MemChoice] }

\* of_decode_with_new_symbol(): the session takes the symbol; LDPC may decode
\* iteratively as soon as it holds enough symbols.
DecodeWithNewSymbol(s, i) ==
    LET s1 == [s EXCEPT !.known = @ \cup {i}]
    IN IF ~IsOptimal /\ Decodable(s1.known)
       THEN {s1} \cup ReconstructAll(s1)
       ELSE {s1}

\* of_finish_decoding(): succeeds when the session holds enough symbols.
FinishDecoding(s) ==
    IF Decodable(s.known)
    THEN { [r EXCEPT !.finished = TRUE] : r \in ReconstructAll(s) }
    ELSE {s}

\* reset_session_(): release the session and create an empty one.  OpenFEC
\* does not free the source symbols it allocated.
ResetSession(s) == [s EXCEPT !.known = {}, !.dec = NoDec]

\* of_set_available_symbols(&data_tab_[0]).
SetAvailable(s) == [s EXCEPT !.known = {k \in Sym : s.data[k] # None}]

\* Mutant: has_n_packets_() demands one symbol more than asked for.
HasNPacketsOffByOne(s, n) == Quantify(Sym, LAMBDA k : s.data[k] # None) > n

\* has_n_packets_(n): data_tab_ holds at least n symbols.
HasNPackets(s, n) == Quantify(Sym, LAMBDA k : s.data[k] # None) >= n

\* decode_()
Decode(s) ==
    IF s.finished /\ IsOptimal THEN {s}
    ELSE IF ~HasNPackets(s, SBLEN) THEN {s}
    ELSE FinishDecoding(IF s.finished THEN SetAvailable(ResetSession(s)) ELSE s)

\* of_get_source_symbols_tab(of_sess_, &data_tab_[0]).
GetSourceSymbols(s) ==
    [s EXCEPT !.data = [k \in Sym |->
        IF k \notin Src THEN @[k]
        ELSE IF s.dec[k] # None THEN s.dec[k]
        ELSE IF k \in s.known THEN @[k]
        ELSE None]]

\* update_()
Update(s) ==
    IF ~s.hasNew THEN {s}
    ELSE { [GetSourceSymbols(r) EXCEPT !.hasNew = FALSE] : r \in Decode(s) }

\* Mutant: hand out OpenFEC's memory instead of copying it into a pool buffer.
FixBufferNoCopy(s, i) ==
    IF s.buff[i] = None /\ s.data[i] # None
    THEN {[s EXCEPT !.buff[i] = s.data[i]]}
    ELSE {s}

\* fix_buffer_(index): copy OpenFEC-owned memory into a pool buffer; the
\* allocation in make_buffer_ may fail, leaving buff_tab_ empty.
FixBuffer(s, i) ==
    IF s.buff[i] = None /\ s.data[i] # None
    THEN {[s EXCEPT !.buff[i] = "pool"]} \cup (IF PoolCanFail THEN {s} ELSE {})
    ELSE {s}

\* repair(index)
RepairResults(s, i) ==
    IF s.buff[i] # None THEN {s}
    ELSE UNION { FixBuffer(r, i) : r \in Update(s) }

\* set(index, buffer) once the panics are passed.
SetResults(s, i) ==
    DecodeWithNewSymbol([s EXCEPT !.hasNew = TRUE,
                                  !.buff[i] = "caller",
                                  !.data[i] = "caller",
                                  !.recv[i] = TRUE], i)

\* Mutant: free only the pointers that have no buffer in buff_tab_ at all.
DestroySessionUnownedOnly(s) ==
    LET F == {j \in Src : s.data[j] # None /\ s.buff[j] = None}
    IN [ResetSession(s) EXCEPT !.ofLive = @ \ F,
                               !.data = [k \in Sym |-> IF k \in F THEN None ELSE @[k]]]

\* destroy_session_(): release the session, then free every source pointer in
\* data_tab_ that is not the data of the buffer in buff_tab_.
DestroySession(s) ==
    LET F == {j \in Src : s.data[j] # None /\ s.buff[j] # s.data[j]}
    IN [ResetSession(s) EXCEPT !.ofLive = @ \ F,
                               !.data = [k \in Sym |-> IF k \in F THEN None ELSE @[k]]]

\* Mutant: end() without reset_tabs_().
EndResultNoResetTabs(s) ==
    [DestroySession(s) EXCEPT !.hasNew = FALSE, !.finished = FALSE]

\* end(): destroy the session, create a fresh one, clear the tables.
EndResult(s) ==
    [DestroySession(s) EXCEPT !.buff = [k \in Sym |-> None],
                              !.data = [k \in Sym |-> None],
                              !.recv = [k \in Sym |-> FALSE],
                              !.hasNew = FALSE,
                              !.finished = FALSE]

-----------------------------------------------------------------------------
Init ==
    /\ shaped = FALSE
    /\ buff = [k \in Sym |-> None]
    /\ data = [k \in Sym |-> None]
    /\ recv = [k \in Sym |-> FALSE]
    /\ hasNew = FALSE
    /\ finished = FALSE
    /\ known = {}
    /\ dec = NoDec
    /\ ofLive = {}
    /\ codec \in Codecs
    /\ overhead = 0
    /\ panicked = FALSE
    /\ destroyed = FALSE
    /\ active = FALSE
    /\ arrived = {}
    /\ setDone = {}
    /\ got = {}
    /\ tried = {}
    /\ blocks = 0
    /\ lastRepair = [idx |-> 0, avail |-> TRUE, decodable |-> FALSE]

\* begin(sblen, rblen) fails: resize_tabs_ cannot allocate; the caller gives
\* up the block.
BeginFails ==
    /\ ~panicked /\ ~destroyed /\ ~active /\ blocks < MaxBlocks
    /\ ~shaped /\ PoolCanFail
    /\ blocks' = blocks + 1
    /\ UNCHANGED <<codec, shaped, panicked, destroyed, dvars, active, arrived, setDone,
                   got, tried, lastRepair, overhead>>

\* begin(sblen, rblen): returns at once when the shape is unchanged, else
\* resizes the tables and resets the session.  The caller then receives the
\* symbols in arrived; the block's LDPC overhead is a property of the data.
Begin ==
    /\ ~panicked /\ ~destroyed /\ ~active /\ blocks < MaxBlocks
    /\ shaped' = TRUE
    /\ IF shaped THEN UNCHANGED dvars
       ELSE Assign(ResetSession(St))
    /\ \E A \in SUBSET Sym, o \in Overheads :
          /\ arrived' = A
          /\ overhead' = o
    /\ active' = TRUE
    /\ blocks' = blocks + 1
    /\ setDone' = {} /\ got' = {} /\ tried' = {}
    /\ UNCHANGED <<codec, panicked, destroyed, lastRepair>>

\* set(index, buffer) for a symbol the caller received and does not hold.  In
\* batch use the caller drains its source queue, then its repair queue, so
\* symbols are set in increasing index order.
Set(i) ==
    /\ ~panicked /\ ~destroyed /\ active
    /\ i \in arrived \ (setDone \cup got)
    /\ Batch => i = Min(arrived \ setDone)
    /\ setDone' = setDone \cup {i}
    /\ IF buff[i] # None
       THEN /\ panicked' = TRUE          \* "can't overwrite buffer"
            /\ UNCHANGED dvars
       ELSE /\ \E r \in SetResults(St, i) : Assign(r)
            /\ UNCHANGED panicked
    /\ UNCHANGED <<codec, shaped, destroyed, active, arrived, got, tried, blocks, lastRepair,
                   overhead>>

\* repair(index) for a source symbol the caller is missing.  In batch use all
\* received symbols are set first.
Repair(i) ==
    /\ ~panicked /\ ~destroyed /\ active
    /\ i \in Src \ (setDone \cup got)
    /\ Batch => arrived \subseteq setDone
    /\ \E r \in RepairResults(St, i) :
          /\ Assign(r)
          /\ got' = IF r.buff[i] # None THEN got \cup {i} ELSE got
          /\ lastRepair' = [idx |-> i,
                            avail |-> r.buff[i] # None \/ r.data[i] # None,
                            decodable |-> Decodable({k \in Sym : recv[k]})]
    /\ tried' = tried \cup {i}
    /\ UNCHANGED <<codec, shaped, panicked, destroyed, active, arrived, setDone, blocks,
                   overhead>>

\* end(): in batch use the caller has set every symbol it received.  It may
\* end the block before asking for every missing source symbol: spec 4.5
\* advances the block once the reader is too many blocks behind.
End ==
    /\ ~panicked /\ ~destroyed /\ active
    /\ Batch => arrived \subseteq setDone
    /\ Assign(EndResult(St))
    /\ active' = FALSE
    /\ UNCHANGED <<codec, shaped, panicked, destroyed, arrived, setDone, got, tried, blocks,
                   lastRepair, overhead>>

\* ~OFDecoder(): the owner is destroyed at any point, e.g. mid-block when the
\* dispatcher destroys a session whose update() failed; destroy_session_()
\* runs if a session exists, which it does from the first successful begin().
Destroy ==
    /\ ~panicked /\ ~destroyed
    /\ destroyed' = TRUE
    /\ IF shaped THEN Assign(DestroySession(St)) ELSE UNCHANGED dvars
    /\ UNCHANGED <<codec, shaped, panicked, cvars>>

Done ==
    /\ (~active /\ blocks = MaxBlocks) \/ destroyed
    /\ UNCHANGED vars

Next ==
    \/ BeginFails
    \/ Begin
    \/ \E i \in Sym : Set(i)
    \/ \E i \in Src : Repair(i)
    \/ End
    \/ Destroy
    \/ Done

Spec == Init /\ [][Next]_vars

-----------------------------------------------------------------------------
TypeOK ==
    /\ codec \in Codecs
    /\ shaped \in BOOLEAN
    /\ buff \in [Sym -> BuffKinds]
    /\ data \in [Sym -> DataKinds]
    /\ recv \in [Sym -> BOOLEAN]
    /\ hasNew \in BOOLEAN /\ finished \in BOOLEAN
    /\ known \subseteq Sym
    /\ dec \in [Src -> {None, "pool", "of"}]
    /\ ofLive \subseteq Src
    /\ overhead \in Overheads
    /\ panicked \in BOOLEAN /\ destroyed \in BOOLEAN /\ active \in BOOLEAN
    /\ arrived \subseteq Sym /\ setDone \subseteq Sym
    /\ got \subseteq Src /\ tried \subseteq Src
    /\ blocks \in 0 .. MaxBlocks

(* The decoder never panics in set(): the caller sets each symbol at most  *)
(* once per block, yet set() also panics when buff_tab_ already holds a    *)
(* buffer for the index, which the decoder itself may have put there.      *)
NoPanic == ~panicked

(* No memory OpenFEC allocated for a reconstructed source symbol is lost:  *)
(* each live allocation is still reachable from data_tab_ (and so freed by *)
(* destroy_session_() at end()) or held by the current session.           *)
NoLeak ==
    ofLive \subseteq {j \in Src : data[j] = "of" \/ dec[j] = "of"}

(* With Reed-Solomon no such memory is lost under the batch caller, even  *)
(* when a block is ended early or the decoder is destroyed mid-block:     *)
(* Reed-Solomon reconstructs only inside repair(), whose update_() copies  *)
(* every reconstructed pointer into data_tab_ in the same call, so         *)
(* destroy_session_() finds it there.                                      *)
NoLeakReedSolomon == codec = "RS" => NoLeak

(* repair() of a source symbol reconstructs it whenever the symbols given  *)
(* to set() in this block suffice for the codec: decode_() is attempted    *)
(* when it must be, after has_new_packets_ and has_n_packets_() are        *)
(* consulted; only copying it out may still fail for lack of buffers.      *)
RepairSucceedsWhenDecodable ==
    lastRepair.decodable => lastRepair.avail
=============================================================================
