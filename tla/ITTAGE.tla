-------------------------------- MODULE ITTAGE --------------------------------
(***************************************************************************)
(* The ITTAGE indirect-branch predictor (src/gem5/src/cpu/pred/ittage.cc)  *)
(* for one hardware thread, driven by the branch prediction unit:          *)
(*   - Predict: lookup (indirect branches), then update(squash = false),   *)
(*     which records the branch in the path history and shifts its        *)
(*     direction into the GHR;                                             *)
(*   - Squash: a branch resolves against its prediction; every younger     *)
(*     branch is squashed (youngest first), then update(squash = true)     *)
(*     corrects the branch and, for a taken indirect one, recordTarget     *)
(*     retrains the tables;                                                *)
(*   - Commit: the oldest branch commits.                                  *)
(* inflight holds the branches predicted and not committed, each with the *)
(* GHR genIndirectInfo saved for it (i_history).  PCs and targets are     *)
(* small integers, since the base predictor is indexed by pc ^ target.    *)
(***************************************************************************)
EXTENDS Integers, SequencesExt, Bitwise

CONSTANTS
    NumPredictors, TableSizes, TTagBitSizes, TTagPcShifts, HistLengths,
    SimpleBTBSize, PathLength,
    PCs,          \* branch PCs
    IndirectPCs,  \* the PCs of indirect (non-return) branches
    Targets,      \* indirect-branch targets
    NoTarget,     \* a null target pointer
    MaxSeq        \* seqNums 1..MaxSeq are handed out

RECURSIVE FloorLog2(_)
FloorLog2(n) == IF n <= 1 THEN 0 ELSE 1 + FloorLog2(n \div 2)
CeilLog2(n)  == IF n = 1 THEN 0 ELSE FloorLog2(n - 1) + 1

Tables     == 0..(NumPredictors - 1)
Size(i)    == TableSizes[i + 1]
W(i)       == CeilLog2(Size(i))
HistLen(i) == HistLengths[i + 1]                     \* getTableGhrLen
GhrLen     == Max({HistLengths[j] : j \in DOMAIN HistLengths})

\* getCSR1 folds with a stride of ceilLog2(size) - 1, which must be >= 1
\* or its loop never ends.
ASSUME /\ \A i \in Tables : W(i) >= 2
       /\ NoTarget \notin Targets \cup PCs

Entry == [tag : Nat, target : Targets \cup PCs \cup {NoTarget},
          counter : 0..3, useful : 0..1]
EmptyEntry == [tag |-> 0, target |-> NoTarget, counter |-> 0, useful |-> 0]

VARIABLES
    ghr, pathHist, headHistEntry,       \* threadInfo[tid]
    targetCache, base_predictor, previous_target, use_alt, reset_counter,
    inflight,     \* the prediction unit's history: [seq, pc, ind, taken, target, hist]
    nextSeq

vars == <<ghr, pathHist, headHistEntry, targetCache, base_predictor,
          previous_target, use_alt, reset_counter, inflight, nextSeq>>

-----------------------------------------------------------------------------
(* Folding.                                                               *)

\* The loop of getCSR1/getCSR2 on a len-bit copy of the GHR: while
\* i + s < len, xor the copy in and shift it right by s; then xor the rest.
RECURSIVE XorShift(_, _, _, _, _)

\* Mutant of XorShift: the xor after the loop is dropped.
XorShiftNoTail(hash, cpy, i, len, s) ==
    IF i + s < len THEN XorShift(hash ^^ cpy, shiftR(cpy, s), i + s, len, s) ELSE hash

XorShift(hash, cpy, i, len, s) ==
    IF i + s < len THEN XorShift(hash ^^ cpy, shiftR(cpy, s), i + s, len, s)
    ELSE hash ^^ cpy

\* getCSR1 (stride ceilLog2(size) - 1) and getCSR2 (stride ceilLog2(size)),
\* both resized to ceilLog2(size) bits.
CSR1(g, i) == XorShift(0, g % 2^HistLen(i), 0, HistLen(i), W(i) - 1) % 2^W(i)
CSR2(g, i) == XorShift(0, g % 2^HistLen(i), 0, HistLen(i), W(i)) % 2^W(i)

\* getAddrFold: eight rounds of folded ^= address; address >>= 8.
RECURSIVE AddrLoop(_, _, _)
AddrLoop(f, a, k) == IF k = 8 THEN f ELSE AddrLoop(f ^^ a, shiftR(a, 8), k + 1)
AddrFold(a, i) == AddrLoop(0, a, 0) % 2^W(i)

\* Mutant of GetTag: the mask to TTagBitSizes[i] bits is dropped.
GetTagNoMask(pc, g, i) == (shiftR(pc, TTagPcShifts[i + 1]) ^^ CSR1(g, i)) ^^ (CSR2(g, i) * 2)

GetTag(pc, g, i) ==
    ((shiftR(pc, TTagPcShifts[i + 1]) ^^ CSR1(g, i)) ^^ (CSR2(g, i) * 2))
        % 2^TTagBitSizes[i + 1]

TIndex(pc, g, i) == AddrFold(pc, i) ^^ CSR1(g, i)

-----------------------------------------------------------------------------
(* Lookup.                                                                *)

\* The tables whose entry for (pc, g) holds the tag and a target.
Hits(tc, pc, g) ==
    {i \in Tables : /\ tc[i][TIndex(pc, g, i)].tag = GetTag(pc, g, i)
                    /\ tc[i][TIndex(pc, g, i)].target # NoTarget}

\* lookup_helper.  The first hit from the longest history is counted, and
\* the "second hit" branch runs in the same iteration, so the alternate is
\* the provider itself and pred_count is 2.  Without a tagged hit, the
\* base predictor at (pc ^ previous_target) % simpleBTBSize answers.
LookupHelper(tc, base, prev, useAlt, pc, g) ==
    LET hits == Hits(tc, pc, g)
        p    == Max(hits)
        way  == tc[p][TIndex(pc, g, p)]
        bidx == (pc ^^ prev) % SimpleBTBSize
    IN  IF hits # {}
        THEN [count |-> 2, p1 |-> p, i1 |-> TIndex(pc, g, p), p2 |-> p, i2 |-> TIndex(pc, g, p),
              useAlt |-> useAlt > 10 /\ way.counter = 1 /\ way.useful = 0 /\ way.counter > 0,
              target |-> way.target, found |-> TRUE]
        ELSE [count |-> 0, p1 |-> 0, i1 |-> 0, p2 |-> 0, i2 |-> 0, useAlt |-> FALSE,
              target |-> IF prev # NoTarget THEN base[bidx] ELSE NoTarget,
              found |-> prev # NoTarget /\ base[bidx] # NoTarget]

\* ITTAGE::lookup: the helper's target; lookup returns true regardless, so
\* with nothing found the prediction is the untouched clone of pc.
PredictedTarget(pc, g) ==
    LET r == LookupHelper(targetCache, base_predictor, previous_target, use_alt, pc, g)
    IN  IF r.found THEN r.target ELSE pc

-----------------------------------------------------------------------------
(* Training.  st is [tc |-> targetCache, useAlt |-> use_alt,              *)
(* reset |-> reset_counter], threaded through the steps of recordTarget.  *)

\* Every useful bit cleared (the reset_counter reaching 0).
ClearUseful(tc) == [i \in Tables |-> [j \in DOMAIN tc[i] |-> [tc[i][j] EXCEPT !.useful = 0]]]

\* The allocation loop of recordTarget from start_pos pos: a table whose
\* entry is not useful gets the target, the tag and counter 1, and the next
\* table is skipped; a useful one decrements reset_counter, and at 0 every
\* useful bit is cleared.  At most two entries are allocated.
RECURSIVE Allocate(_, _, _, _, _, _)
Allocate(st, pos, allocated, pc, g, T) ==
    IF pos >= NumPredictors THEN st
    ELSE LET idx == TIndex(pc, g, pos)
             way == st.tc[pos][idx]
             r   == IF st.reset > 0 THEN st.reset - 1 ELSE 0
         IN  IF way.useful = 0
             THEN LET st2 == [st EXCEPT
                        !.tc[pos][idx] = [way EXCEPT !.target = T,
                                          !.tag = GetTag(pc, g, pos), !.counter = 1],
                        !.reset = IF st.reset < 255 THEN st.reset + 1 ELSE st.reset]
                  IN  IF allocated + 1 = 2 THEN st2
                      ELSE Allocate(st2, pos + 2, allocated + 1, pc, g, T)
             ELSE IF r = 0
                  THEN Allocate([st EXCEPT !.tc = ClearUseful(st.tc), !.reset = 128],
                                pos + 1, allocated, pc, g, T)
                  ELSE Allocate([st EXCEPT !.reset = r], pos + 1, allocated, pc, g, T)

\* The training half of recordTarget for the branch at pc, relooked up
\* under its saved GHR g (r is lookup_helper's result), with target T.
Train(st, r, pc, g, T) ==
    LET psel == IF r.found /\ r.useAlt THEN r.p2 ELSE r.p1
        isel == IF r.found /\ r.useAlt THEN r.i2 ELSE r.i1
        sel  == st.tc[psel][isel]
        way1 == st.tc[r.p1][r.i1]
        way2 == st.tc[r.p2][r.i2]
        mainRight == r.count > 0 /\ way1.target = T /\ r.count = 2 /\ way2.target # T
        altRight  == r.count > 0 /\ way1.target # T /\ r.count = 2 /\ way2.target = T
        \* main right, alt wrong: way1 useful, no allocation, use_alt down
        st1 == IF mainRight
               THEN [st EXCEPT !.tc[r.p1][r.i1].useful = 1,
                               !.useAlt = IF @ > 0 THEN @ - 1 ELSE @]
               ELSE st
        st2 == IF altRight THEN [st1 EXCEPT !.useAlt = IF @ < 15 THEN @ + 1 ELSE @]
               ELSE st1
        \* the selected entry: counter down, or replaced at 0
        st3 == IF r.count = 0 THEN st2
               ELSE IF st2.tc[psel][isel].counter > 0
               THEN [st2 EXCEPT !.tc[psel][isel].counter = @ - 1]
               ELSE [st2 EXCEPT !.tc[psel][isel] =
                        [target |-> T, tag |-> GetTag(pc, g, psel), counter |-> 1, useful |-> 0]]
    IN  IF r.count > 0 /\ r.target = T
        THEN \* the tables were right: strengthen the selected entry
             [st EXCEPT !.tc[psel][isel].counter = IF @ <= 2 THEN @ + 1 ELSE @]
        ELSE IF r.count = 0 \/ ~mainRight
             THEN Allocate(st3, IF r.count > 0 THEN psel + 1 ELSE 0, 0, pc, g, T)
             ELSE st3

\* commitHistoryEntry: from the longest history down, the first entry with
\* the tag and the entry's target is strengthened (counter capped at 2)
\* and marked useful.
CommitHistoryEntry(tc, e, g) ==
    LET m == {i \in Tables : /\ tc[i][TIndex(e.pc, g, i)].tag = GetTag(e.pc, g, i)
                             /\ tc[i][TIndex(e.pc, g, i)].target # NoTarget
                             /\ tc[i][TIndex(e.pc, g, i)].target = e.target}
        p == Max(m)
    IN  IF m = {} THEN tc
        ELSE [tc EXCEPT ![p][TIndex(e.pc, g, p)].counter = IF @ < 2 THEN @ + 1 ELSE @,
                        ![p][TIndex(e.pc, g, p)].useful = 1]

\* The path-history entries younger than sn popped from the back.
RECURSIVE PopYounger(_, _)
PopYounger(ph, sn) ==
    IF ph # <<>> /\ Last(ph).seq > sn THEN PopYounger(Front(ph), sn) ELSE ph

Bit(b) == IF b THEN 1 ELSE 0

\* The GHR shifted left (dropping its top bit) with bit 0 = taken.
Shift(g, taken) == (g * 2 + Bit(taken)) % 2^GhrLen

\* changeDirectionPrediction: the GHR becomes the saved one shifted left
\* with bit 0 = the actual direction.
ChangeDirectionPrediction(saved, taken) == Shift(saved, taken)

\* recordIndirect: a HistoryEntry {pc, target, sn} pushed at the back.
RecordIndirect(ph, pc, tgt, sn) == Append(ph, [pc |-> pc, target |-> tgt, seq |-> sn])

-----------------------------------------------------------------------------
(* Operations.                                                            *)

\* BPredUnit::predict of a branch at pc: ITTAGE::lookup for an indirect
\* branch (genIndirectInfo saves the GHR), then update(squash = false):
\* recordIndirect pushes [pc, predicted target, sn] on the path history of
\* an indirect branch and updateDirectionInfo shifts the direction in.
\* Indirect branches are unconditional and predicted taken.
Predict(pc, taken) ==
    LET ind == pc \in IndirectPCs
        tgt == IF ind THEN PredictedTarget(pc, ghr) ELSE NoTarget
    IN  /\ nextSeq <= MaxSeq
        /\ ind => taken
        /\ pathHist' = IF ind THEN RecordIndirect(pathHist, pc, tgt, nextSeq) ELSE pathHist
        /\ ghr' = Shift(ghr, taken)
        /\ inflight' = Append(inflight, [seq |-> nextSeq, pc |-> pc, ind |-> ind, taken |-> taken,
                                         target |-> tgt, hist |-> ghr, resolved |-> FALSE])
        /\ nextSeq' = nextSeq + 1
        /\ UNCHANGED <<headHistEntry, targetCache, base_predictor, previous_target,
                       use_alt, reset_counter>>

\* Mutant of Flush: the GHR saved for the branch is not restored.
FlushKeepsGhr(k) ==
    /\ inflight' = SubSeq(inflight, 1, k - 1)
    /\ UNCHANGED <<ghr, pathHist, headHistEntry, targetCache, base_predictor, previous_target,
                   use_alt, reset_counter, nextSeq>>

\* A squash from an instruction older than inflight[k] (not a branch
\* resolution): ITTAGE::squash for every branch from the youngest down to
\* inflight[k] restores the GHR each saved, leaving inflight[k]'s.  The
\* path history is not touched.
Flush(k) ==
    /\ ghr' = inflight[k].hist
    /\ inflight' = SubSeq(inflight, 1, k - 1)
    /\ UNCHANGED <<pathHist, headHistEntry, targetCache, base_predictor, previous_target,
                   use_alt, reset_counter, nextSeq>>

\* BPredUnit::squash with a correction: inflight[k] resolved against its
\* prediction (direction for a direct branch, target for an indirect one).
\* The younger branches are squashed (their GHR restores are overwritten),
\* then update(squash = true): changeDirectionPrediction sets the GHR from
\* the saved one, recordIndirect pushes the actual target,
\* updateDirectionInfo shifts the direction in, and recordTarget pops back
\* to the branch's entry, relooks it up under the saved GHR, updates
\* previous_target and the base predictor, pushes the entry back with the
\* actual target and trains the tables.
Squash(k, taken, target) ==
    LET b    == inflight[k]
        ghr1 == ChangeDirectionPrediction(b.hist, taken)
        ph1  == IF b.ind THEN RecordIndirect(pathHist, b.pc, target, b.seq) ELSE pathHist
        ph2  == PopYounger(ph1, b.seq)
        e    == Last(ph2)
        r    == LookupHelper(targetCache, base_predictor, previous_target, use_alt, e.pc, b.hist)
        st   == Train([tc |-> targetCache, useAlt |-> use_alt, reset |-> reset_counter],
                      r, e.pc, b.hist, target)
    IN  /\ ~b.resolved
        /\ IF b.ind THEN taken /\ target \in Targets /\ target # b.target ELSE taken # b.taken /\ target = NoTarget
        /\ ghr' = Shift(ghr1, taken)
        /\ inflight' = Append(SubSeq(inflight, 1, k - 1),
                              [b EXCEPT !.taken = taken, !.target = target, !.resolved = TRUE])
        /\ IF b.ind
           THEN /\ pathHist' = Append(Front(ph2), [e EXCEPT !.target = target])
                /\ previous_target' = target
                /\ base_predictor' = [base_predictor EXCEPT ![(e.pc ^^ target) % SimpleBTBSize] = target]
                /\ targetCache' = st.tc
                /\ use_alt' = st.useAlt
                /\ reset_counter' = st.reset
           ELSE UNCHANGED <<pathHist, previous_target, base_predictor, targetCache,
                            use_alt, reset_counter>>
        /\ UNCHANGED <<headHistEntry, nextSeq>>

\* Mutant of PopsFront: the front is popped one commit early.
PopsFrontEarly(h) == h >= PathLength - 1

\* commit pops the front of the path history once headHistEntry has
\* reached pathLength, else advances headHistEntry.
PopsFront(h) == h >= PathLength

\* BPredUnit::update: the oldest branch commits.  ITTAGE::commit trains
\* the oldest uncommitted path entry, if it is no younger than the branch,
\* with the branch's saved GHR, then pops the front once pathLength
\* entries are kept, else advances headHistEntry.
Commit ==
    LET b  == Head(inflight)
        h  == headHistEntry
        go == pathHist # <<>> /\ h < Len(pathHist) /\ pathHist[h + 1].seq <= b.seq
    IN  /\ inflight # <<>>
        /\ inflight' = Tail(inflight)
        /\ IF go
           THEN /\ targetCache' = CommitHistoryEntry(targetCache, pathHist[h + 1], b.hist)
                /\ IF PopsFront(h)
                   THEN pathHist' = Tail(pathHist) /\ UNCHANGED headHistEntry
                   ELSE headHistEntry' = h + 1 /\ UNCHANGED pathHist
           ELSE UNCHANGED <<targetCache, pathHist, headHistEntry>>
        /\ UNCHANGED <<ghr, base_predictor, previous_target, use_alt, reset_counter, nextSeq>>

\* The constructor: a zero GHR of the longest history length, empty
\* tables and base predictor, use_alt 8 and reset_counter 128.
Init ==
    /\ ghr = 0
    /\ pathHist = <<>>
    /\ headHistEntry = 0
    /\ targetCache = [i \in Tables |-> [j \in 0..(Size(i) - 1) |-> EmptyEntry]]
    /\ base_predictor = [j \in 0..(SimpleBTBSize - 1) |-> NoTarget]
    /\ previous_target = NoTarget
    /\ use_alt = 8
    /\ reset_counter = 128
    /\ inflight = <<>>
    /\ nextSeq = 1

Next ==
    \/ \E pc \in PCs, taken \in BOOLEAN : Predict(pc, taken)
    \/ \E k \in 1..Len(inflight) : Flush(k)
    \/ \E k \in 1..Len(inflight), taken \in BOOLEAN, t \in Targets \cup {NoTarget} :
           Squash(k, taken, t)
    \/ Commit

Spec == Init /\ [][Next]_vars

-----------------------------------------------------------------------------
(* Properties.                                                            *)

HistEntry == [pc : PCs, target : Targets \cup PCs \cup {NoTarget}, seq : 1..MaxSeq]

TypeOK ==
    /\ ghr \in 0..(2^GhrLen - 1)
    /\ pathHist \in Seq(HistEntry)
    /\ headHistEntry \in 0..PathLength
    /\ DOMAIN targetCache = Tables
    /\ \A i \in Tables : /\ targetCache[i] \in [0..(Size(i) - 1) -> Entry]
                        /\ \A j \in 0..(Size(i) - 1) : targetCache[i][j].tag < 2^TTagBitSizes[i + 1]
    /\ base_predictor \in [0..(SimpleBTBSize - 1) -> Targets \cup {NoTarget}]
    /\ previous_target \in Targets \cup {NoTarget}
    /\ use_alt \in 0..15
    /\ reset_counter \in 0..255
    /\ nextSeq \in 1..(MaxSeq + 1)

\* Bit j of x.
BitOf(x, j) == (x \div 2^j) % 2

\* The parity of the bits of x at j, j + s, j + 2s, ... below len.
Parity(x, j, s, len) == LET n == {m \in 0..len : j + m * s < len} IN
    (Cardinality({m \in n : BitOf(x, j + m * s) = 1})) % 2

\* The folds the indices and tags are built from, on the GHR and on every
\* GHR saved for a branch in flight: bit j of getCSR1 (stride
\* ceilLog2(size) - 1) and of getCSR2 (stride ceilLog2(size)) is the
\* parity of the history bits j, j + stride, ... below the table's history
\* length; and on the PC of every branch in flight, bit j of getAddrFold
\* is that of the address bits j, j + 8, ... (no PC modelled has a bit
\* above 23).
FoldsMatchReference ==
    /\ \A i \in Tables : \A g \in {ghr} \cup {inflight[k].hist : k \in 1..Len(inflight)} :
          \A j \in 0..(W(i) - 1) :
              /\ BitOf(CSR1(g, i), j) = Parity(g, j, W(i) - 1, HistLen(i))
              /\ BitOf(CSR2(g, i), j) = Parity(g, j, W(i), HistLen(i))
    /\ \A i \in Tables : \A pc \in {inflight[k].pc : k \in 1..Len(inflight)} :
        \A j \in 0..(W(i) - 1) : BitOf(AddrFold(pc, i), j) = Parity(pc, j, 8, 24)

\* GHR repair across flushes: whatever mix of predictions and flushes of
\* younger branches (ITTAGE::squash restoring i_history) led here, a
\* branch in flight that has not been corrected saved the GHR it found and
\* shifted its direction in once (the comment of update and spec section
\* 4.5), so the next branch saved exactly that, and so does the live GHR
\* after the youngest.  Corrected branches are left to ittage_ghr.
GhrChain ==
    /\ \A k \in 1..(Len(inflight) - 1) :
          ~inflight[k].resolved =>
              inflight[k + 1].hist = Shift(inflight[k].hist, inflight[k].taken)
    /\ inflight # <<>> /\ ~Last(inflight).resolved =>
          ghr = Shift(Last(inflight).hist, Last(inflight).taken)

\* ITTAGE::commit returns early on an empty path history, before delete
\* previousGhr, and the caller nulls i_history: that branch's saved GHR
\* leaks.  The leak stays confined to the branches committed before the
\* first indirect branch, because once the path history holds an entry it
\* never empties again: commit pops only past pathLength entries,
\* recordTarget pops back to the corrected branch's own entry and pushes
\* it again, and a flush leaves the path history alone.
PathHistStaysNonEmpty == [][pathHist # <<>> => pathHist' # <<>>]_pathHist

(* Statements of the documented behaviour that the code does not meet;   *)
(* each is checked by a run that expects a violation.                    *)

\* The GHR is shifted by one bit per branch, and a squash restores it from
\* the copy saved for the branch: the GHR is the history saved for the
\* youngest branch in flight followed by that branch's direction.
GhrMatchesYoungest ==
    inflight # <<>> => ghr = Shift(Last(inflight).hist, Last(inflight).taken)

\* The path history is truncated on squash: past the committed entries it
\* holds exactly the indirect branches in flight, one entry each, in order.
PathHistMatchesInflight ==
    LET pending == SubSeq(pathHist, headHistEntry + 1, Len(pathHist))
        ind     == SelectSeq(inflight, LAMBDA b : b.ind)
    IN  [j \in DOMAIN pending |-> pending[j].seq] = [j \in DOMAIN ind |-> ind[j].seq]

\* lookup_helper collects up to two hits, the main one from the longest
\* history and the alternate from the next table down that hits.
AltIsSecondHit ==
    \A pc \in IndirectPCs, g \in {ghr} :
        LET hits == Hits(targetCache, pc, g)
            r    == LookupHelper(targetCache, base_predictor, previous_target, use_alt, pc, g)
        IN  Cardinality(hits) >= 2 => r.p2 = Max(hits \ {Max(hits)})

\* With no tagged hit and no base-predictor entry, ITTAGE::lookup
\* signals no prediction by returning none.
NoPredictionIsNone ==
    \A pc \in IndirectPCs :
        ~LookupHelper(targetCache, base_predictor, previous_target, use_alt, pc, ghr).found
            => PredictedTarget(pc, ghr) = NoTarget

====
