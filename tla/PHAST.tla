-------------------------------- MODULE PHAST --------------------------------
(***************************************************************************)
(* The PHAST memory-dependence predictor (src/gem5/src/cpu/o3/phast.cc)   *)
(* together with the MemDepUnit hooks that drive it: insert asks          *)
(* checkInst for a store-queue distance, violation trains a table, and    *)
(* commit of every non-store confirms or weakens an entry.                *)
(*                                                                         *)
(* paths[i] is the SimplBlockCache of history length HistorySizes[i+1],   *)
(* run through the operators of SimplBlockCache.  Branch histories are   *)
(* sequences of { seq, target, taken, indirect }, youngest first, as      *)
(* checkInst and violation index them.  Each load PC has at most one      *)
(* dynamic load in flight, with the history it was dispatched with.       *)
(***************************************************************************)
EXTENDS Integers, Sequences, FiniteSetsExt, Bitwise

CONSTANTS
    SetBits, TagBits, Assoc, MaxCounter, LruBits, MaxTouches, \* of each table
    HistorySizes,       \* historySizes
    SelectedTargetBits, \* selectedTargetBits
    DepCheckShift,      \* depCheckShift (LSQDepCheckShift)
    AddrBits,           \* width of Addr
    PCs,                \* load PCs
    LoadSeq,            \* seqNum of the dispatched load
    StoreSeqs,          \* seqNums a violating store can have (< LoadSeq)
    Histories,          \* branch histories a load can be dispatched with
    Distances,          \* store-queue distances a violation trains with
    LoadAddrs,          \* effective addresses of loads and stores
    AccessSize          \* effSize of loads and stores

C == INSTANCE SimplBlockCache
        WITH Distances <- Distances, PCs <- PCs,
             Histories <- 0..(2^(SetBits + TagBits) - 1),
             tbl <- 0, clock <- 0, lastUse <- 0

Tables == 0..(Len(HistorySizes) - 1)
Size(i) == HistorySizes[i + 1]
LastTable == Len(HistorySizes) - 1

\* A PredictionResult; {0,0,0,0} is no prediction.
NoPrediction == [dist |-> 0, path |-> 0, hash |-> 0]

\* The memDepInfo of a dispatched load; fields not set by insert keep
\* their zero defaults.
NoLoad == [bh |-> <<>>, res |-> NoPrediction, predicted |-> FALSE,
           path |-> 0, hash |-> 0, storeAddr |-> 0, storeSize |-> 0, live |-> FALSE]

VARIABLES
    paths,        \* paths[i]: the table of history length Size(i)
    maxBranches,
    inflight      \* inflight[pc]: the dynamic load of pc, live or not

vars == <<paths, maxBranches, inflight>>

-----------------------------------------------------------------------------
(* Path hashing.                                                          *)

\* The backward walk of generateBranchHash from indx down to start: a
\* direct branch shifts in its taken bit, an indirect one xors in the low
\* selectedTargetBits of its target.  Returns << h, bits >>.
RECURSIVE HashWalk(_, _, _, _, _, _, _)
HashWalk(h, bits, bh, indx, start, items, n) ==
    IF indx < start \/ items >= n THEN <<h, bits>>
    ELSE LET b == bh[indx + 1] IN
         IF ~b.indirect
         THEN HashWalk(2 * h + (IF b.taken THEN 1 ELSE 0), bits + 1,
                       bh, indx - 1, start, items + 1, n)
         ELSE HashWalk((h * 2^SelectedTargetBits) ^^ (b.target % 2^SelectedTargetBits),
                       bits + SelectedTargetBits, bh, indx - 1, start, items + 1, n)

RECURSIVE FoldLoop(_, _, _)

\* Mutant of FoldLoop: h is shifted before its chunk is xored in.
FoldLoopShiftFirst(h, bits, width) ==
    IF bits >= width
    THEN ((h \div 2^width) % 2^width) ^^ FoldLoop(h \div 2^width, bits - width, width)
    ELSE h % 2^bits

\* The loop of foldHistory: xor of the width-bit chunks while bits remain,
\* then the remaining bits.
FoldLoop(h, bits, width) ==
    IF bits >= width
    THEN (h % 2^width) ^^ FoldLoop(h \div 2^width, bits - width, width)
    ELSE h % 2^bits

\* PHAST::foldHistory.
FoldHistory(h, bits) == FoldLoop(h, bits, SetBits + TagBits)

\* PHAST::generateBranchHash(i, n, bh, start): 0 when the +1 branch lies
\* beyond the history; the +1 branch's target bits seed the hash.
GenerateBranchHash(i, n, bh, start) ==
    LET endI == start + n
    IN  IF endI >= Len(bh) THEN 0
        ELSE LET r == HashWalk(bh[endI + 1].target % 2^SelectedTargetBits, 60,
                               bh, endI - 1, start, 0, n)
             IN  FoldHistory(r[1], r[2])

-----------------------------------------------------------------------------
(* checkInst.                                                             *)

\* The (0-based) index of the first branch not younger than the load:
\* the number of leading branches younger than it.
Begin(bh) ==
    LET older == {k \in 1..Len(bh) : bh[k].seq <= LoadSeq}
    IN  IF older = {} THEN Len(bh) ELSE (CHOOSE k \in older : \A j \in older : k <= j) - 1

\* The downward clamp of maxBranches for a history of length len.
Clamped(mb, len) ==
    IF Size(mb) > len
    THEN (CHOOSE i \in Tables : Size(i) > len /\ \A j \in 0..(i - 1) : Size(j) <= len) - 1
    ELSE mb

\* The tables queried, their hashes, and the first that answers.
QueryHash(i, bh) == GenerateBranchHash(i, Size(i), bh, Begin(bh))

Answers(t, pc, bh) ==
    {i \in 0..t : C!PredictDistance(paths[i], pc, QueryHash(i, bh)) # 0}

\* PHAST::checkInst for a load: the prediction and the tables after it
\* (the answering entry is touched by predict).  An empty history returns
\* before the clamp.
CheckInst(pc, bh) ==
    IF Len(bh) = 0 THEN [res |-> NoPrediction, mb |-> maxBranches, paths |-> paths]
    ELSE
    LET mb  == Clamped(maxBranches, Len(bh))
        hit == Answers(mb, pc, bh)
        i   == CHOOSE j \in hit : \A k \in hit : j <= k
        h   == QueryHash(i, bh)
    IN  IF hit = {} THEN [res |-> NoPrediction, mb |-> mb, paths |-> paths]
        ELSE [res   |-> [dist |-> C!PredictDistance(paths[i], pc, h), path |-> i, hash |-> h],
              mb    |-> mb,
              paths |-> [paths EXCEPT ![i] = C!Predicted(@, pc, h)]]

-----------------------------------------------------------------------------
(* violation.                                                             *)

\* The do-while of violation: branches up to and including the first one
\* not younger than the store.
NumBranches(bh, storeSeq) ==
    LET older == {k \in 1..Len(bh) : bh[k].seq <= storeSeq}
    IN  IF older = {} THEN Len(bh) ELSE CHOOSE k \in older : \A j \in older : k <= j

\* The quantisation of num_branches down to a history size: the table index.
Quantised(num) ==
    IF num >= Size(LastTable) THEN LastTable
    ELSE CHOOSE i \in Tables : Size(i) <= num /\ \A j \in Tables : Size(j) <= num => j <= i

\* Mutant of Violation: the table is trained before the wrong prediction
\* is charged to the predicting entry.
ViolationUpdateFirst(pc, storeSeq, d, predicted, predPath, predHash, bh) ==
    LET i  == Quantised(NumBranches(bh, storeSeq))
        h  == GenerateBranchHash(i, Size(i), bh, 0)
        p1 == [paths EXCEPT ![i] = C!Updated(@, pc, h, d)]
    IN  IF bh = <<>> \/ bh[Len(bh)].seq > storeSeq THEN [paths |-> paths, mb |-> maxBranches]
        ELSE [paths |-> IF predicted
                        THEN [p1 EXCEPT ![predPath] = C!UpdateCommitted(@, pc, predHash, TRUE)]
                        ELSE p1,
              mb    |-> IF maxBranches >= i THEN maxBranches ELSE i]

\* PHAST::violation: the tables and maxBranches after it.  A history
\* with no branch older than the store returns at once.
Violation(pc, storeSeq, d, predicted, predPath, predHash, bh) ==
    LET i  == Quantised(NumBranches(bh, storeSeq))
        h  == GenerateBranchHash(i, Size(i), bh, 0)
        p1 == IF predicted
              THEN [paths EXCEPT ![predPath] = C!UpdateCommitted(@, pc, predHash, TRUE)]
              ELSE paths
    IN  IF bh = <<>> \/ bh[Len(bh)].seq > storeSeq THEN [paths |-> paths, mb |-> maxBranches]
        ELSE [paths |-> [p1 EXCEPT ![i] = C!Updated(@, pc, h, d)],
              mb    |-> IF maxBranches >= i THEN maxBranches ELSE i]

-----------------------------------------------------------------------------
(* commit.                                                                *)

\* Mutant of LastWord: the end address is one past the access.
LastWordPastEnd(a, s) == ((a + s) % 2^AddrBits) \div 2^DepCheckShift

\* (a + s - 1) >> depCheckShift in the width of Addr.
LastWord(a, s) == ((a + s - 1) % 2^AddrBits) \div 2^DepCheckShift
FirstWord(a)   == a \div 2^DepCheckShift

\* The misprediction test of PHAST::commit.
Mispredicted(loadAddr, loadSize, storeAddr, storeSize) ==
    ~(LastWord(storeAddr, storeSize) >= FirstWord(loadAddr)
      /\ FirstWord(storeAddr) <= LastWord(loadAddr, loadSize))

\* PHAST::commit: the table of the recorded path index, after updateCommit.
Committed(pc, loadAddr, loadSize, storeAddr, storeSize, path, hash) ==
    [paths EXCEPT ![path] =
        C!UpdateCommitted(@, pc, hash, Mispredicted(loadAddr, loadSize, storeAddr, storeSize))]

-----------------------------------------------------------------------------
(* The MemDepUnit side.                                                   *)

\* The history violation is given: taken at commit, so it starts at the
\* first branch older than the load.
CommitHistory(bh) == SubSeq(bh, Begin(bh) + 1, Len(bh))

\* Room for k more touches in every table.
CanTouch(k) == \A i \in Tables : paths[i].lruCounter + k <= MaxTouches

\* MemDepUnit::insert of a load of pc: checkInst, then the prediction is
\* taken (predicted, path index and hash recorded) only if the store the
\* distance names is still in the store queue and in memDepHash, which the
\* environment decides (usable).
Dispatch(pc, bh, usable) ==
    LET r == CheckInst(pc, bh) IN
    /\ ~inflight[pc].live
    /\ CanTouch(1)
    /\ usable => r.res.dist # 0
    /\ paths' = r.paths
    /\ maxBranches' = r.mb
    /\ inflight' = [inflight EXCEPT ![pc] =
                      [NoLoad EXCEPT !.bh = bh, !.res = r.res, !.live = TRUE,
                                     !.predicted = usable,
                                     !.path = IF usable THEN r.res.path ELSE 0,
                                     !.hash = IF usable THEN r.res.hash ELSE 0]]

\* wakeDependents by the predicted store: predStoreAddr / predStoreSize.
\* It may never happen before commit (the load's last dependency was a
\* barrier; see MemDepUnit).
StoreResolves(pc, a) ==
    /\ inflight[pc].live /\ inflight[pc].predicted /\ inflight[pc].storeSize = 0
    /\ inflight' = [inflight EXCEPT ![pc].storeAddr = a, ![pc].storeSize = AccessSize]
    /\ UNCHANGED <<paths, maxBranches>>

\* MemDepUnit::violation: the load of pc violated against an older store;
\* it is squashed and leaves.
Violate(pc, storeSeq, d) ==
    LET l == inflight[pc]
        r == Violation(pc, storeSeq, d, l.predicted, l.path, l.hash, CommitHistory(l.bh))
    IN
    /\ l.live
    /\ CanTouch(2)
    /\ paths' = r.paths
    /\ maxBranches' = r.mb
    /\ inflight' = [inflight EXCEPT ![pc] = NoLoad]

\* MemDepUnit::commit of the load of pc at effective address a: every
\* non-store is passed to PHAST::commit with its memDepInfo.
CommitLoad(pc, a) ==
    LET l == inflight[pc] IN
    /\ l.live
    /\ CanTouch(1)
    /\ paths' = Committed(pc, a, AccessSize, l.storeAddr, l.storeSize, l.path, l.hash)
    /\ inflight' = [inflight EXCEPT ![pc] = NoLoad]
    /\ UNCHANGED maxBranches

\* PHAST::clear, from MemDepUnit::takeOverFrom or clear_dep_pred.
Clear ==
    /\ maxBranches' = 0
    /\ paths' = [i \in Tables |-> C!Cleared(paths[i])]
    /\ UNCHANGED inflight

Init ==
    /\ paths = [i \in Tables |-> C!InitTable]
    /\ maxBranches = 0
    /\ inflight = [pc \in PCs |-> NoLoad]

Next ==
    \/ \E pc \in PCs, bh \in Histories, usable \in BOOLEAN : Dispatch(pc, bh, usable)
    \/ \E pc \in PCs, a \in LoadAddrs : StoreResolves(pc, a)
    \/ \E pc \in PCs, s \in StoreSeqs, d \in Distances : Violate(pc, s, d)
    \/ \E pc \in PCs, a \in LoadAddrs : CommitLoad(pc, a)
    \/ Clear

Spec == Init /\ [][Next]_vars

-----------------------------------------------------------------------------
(* Properties.                                                            *)

TypeOK ==
    /\ maxBranches \in Tables
    /\ \A i \in Tables :
          /\ paths[i].cache \in [C!Sets -> [C!Ways -> C!Entry]]
          /\ paths[i].lruCounter \in 0..MaxTouches
          /\ \A s \in C!Sets, w \in C!Ways : paths[i].cache[s][w].counter <= MaxCounter
    /\ \A pc \in PCs : inflight[pc].path \in Tables /\ inflight[pc].res.path \in Tables

\* Reference definitions of two conversions of the code.
\* Bit j of x.
Bit(x, j) == (x \div 2^j) % 2

\* Folding keeps, in bit k of the hash, the parity of the bits j < bits of
\* h with j = k (mod width).  The walks of the histories modelled stay
\* below 2^30, so the higher bits, zero, are not visited.
RefFold(h, bits, width) ==
    SumSet({2^k * (Quantify(0..(IF bits < 30 THEN bits - 1 ELSE 29),
                            LAMBDA j : j % width = k /\ Bit(h, j) = 1) % 2) :
            k \in 0..(width - 1)})

\* Two accesses conflict when they share a 2^depCheckShift-byte word.
Words(a, size) == {(a + k) \div 2^DepCheckShift : k \in 0..(size - 1)}

\* foldHistory computes the chunk-wise xor of the walked path: for the
\* history of every load in flight and every table it reaches, the hash
\* generateBranchHash folds (from 60 seed bits plus the branches walked)
\* is the bit parity of RefFold.
FoldMatchesReference ==
    \A pc \in PCs : inflight[pc].live =>
        LET bh == inflight[pc].bh
            st == Begin(bh)
        IN  \A i \in Tables : st + Size(i) < Len(bh) =>
                LET w == HashWalk(bh[st + Size(i) + 1].target % 2^SelectedTargetBits, 60,
                                  bh, st + Size(i) - 1, st, 0, Size(i))
                IN  FoldHistory(w[1], w[2]) = RefFold(w[1], w[2], SetBits + TagBits)

\* The misprediction test of PHAST::commit, on word-shifted inclusive end
\* addresses, says wrong exactly when the load and the predicted store
\* that has resolved for it touch no common word, wherever the load is.
MispredictionMatchesOverlap ==
    \A pc \in PCs : inflight[pc].live /\ inflight[pc].storeSize # 0 =>
        LET l == inflight[pc] IN
        \A la \in LoadAddrs :
            Mispredicted(la, AccessSize, l.storeAddr, l.storeSize)
                <=> Words(la, AccessSize) \cap Words(l.storeAddr, l.storeSize) = {}

\* violation trains its path: right after PHAST::violation (the charge of a
\* wrong prediction to the predicting entry, then the update of the
\* quantised table), that table predicts the violating distance for the
\* load on the same path with full confidence, even when both updates hit
\* the same entry.
ViolationTrainsPath ==
    [][\A pc \in PCs, s \in StoreSeqs, d \in Distances :
         LET bh  == CommitHistory(inflight[pc].bh)
             i   == Quantised(NumBranches(bh, s))
             h   == GenerateBranchHash(i, Size(i), bh, 0)
             way == C!PredictWay(paths'[i], pc, h)
         IN  (Violate(pc, s, d) /\ d # 0 /\ bh # <<>> /\ bh[Len(bh)].seq <= s)
                => /\ way # -1
                   /\ paths'[i].cache[C!GetIndex(pc, h)][way].distance = d
                   /\ paths'[i].cache[C!GetIndex(pc, h)][way].counter = MaxCounter
      ]_vars

\* checkInst returns no prediction for a load with no branch older than it
\* (begin >= |bh|): spec section 9 on the begin > size test of checkInst.
NoPredictionWithoutAnchor ==
    \A pc \in PCs :
        inflight[pc].live /\ Begin(inflight[pc].bh) >= Len(inflight[pc].bh)
            => inflight[pc].res.dist = 0

\* checkInst finds a prediction whenever a table holds a confident entry
\* for the load's path: the clamp of maxBranches by an earlier load with a
\* short history must not hide a trained table.
CheckInstFindsTrainedPath ==
    [][\A pc \in PCs :
         LET bh == inflight'[pc].bh IN
         (~inflight[pc].live /\ inflight'[pc].live
          /\ \E i \in Tables : Begin(bh) + Size(i) < Len(bh)
                               /\ C!PredictDistance(paths[i], pc, QueryHash(i, bh)) # 0)
            => inflight'[pc].res.dist # 0
      ]_vars

\* Commit raises a table entry's confidence only for the load that entry
\* predicted: spec section 4.2 trains at commit "a load that carried a
\* prediction"; MemDepUnit::commit calls PHAST::commit for every non-store.
ConfidenceOnlyFromOwnPrediction ==
    [][\A pc \in PCs, a \in LoadAddrs :
         CommitLoad(pc, a)
            => \A i \in Tables, s \in C!Sets, w \in C!Ways :
                  paths'[i].cache[s][w].counter > paths[i].cache[s][w].counter
                     => inflight[pc].predicted /\ inflight[pc].path = i
      ]_vars

====
