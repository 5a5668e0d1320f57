--------------------------- MODULE SimplBlockCache ---------------------------
(***************************************************************************)
(* One path table of the PHAST predictor: PHAST::SimplBlockCache           *)
(* (src/gem5/src/cpu/o3/phast.cc, phast.hh), a set-associative cache of    *)
(* { tag, distance, lru, counter } entries with LRU replacement.           *)
(*                                                                         *)
(* The set index and tag are computed from (pc, history) exactly as        *)
(* getIndex / getTag / xorFold do, over small integer PCs and histories.   *)
(* Entry.lru is a uint32_t filled from the uint64_t lruCounter: LruBits is *)
(* the width of the field, and lruCounter is bounded by MaxTouches.        *)
(* clock and lastUse are history variables: the true recency order of the *)
(* touches, against which the lru stamps are judged.                       *)
(***************************************************************************)
EXTENDS Integers, Bitwise

CONSTANTS
    SetBits,      \* log2 of the number of sets (phast_num_rows)
    TagBits,      \* phast_tag_bits
    Assoc,        \* phast_associativity
    MaxCounter,   \* phast_max_counter
    LruBits,      \* width of Entry.lru (32 in the code)
    PCs,          \* load PCs presented to the table
    Histories,    \* path hashes presented to the table
    Distances,    \* store-queue distances it is trained with
    MaxTouches    \* bound on updateLRU calls (lruCounter)

ASSUME /\ SetBits \in Nat \ {0} /\ TagBits \in Nat \ {0} /\ Assoc \in Nat \ {0}
       /\ MaxCounter \in Nat /\ LruBits \in Nat \ {0} /\ MaxTouches \in Nat

Sets == 0..(2^SetBits - 1)
Ways == 0..(Assoc - 1)
Tags == 0..(2^TagBits - 1)

Entry == [tag : Nat, distance : Int, lru : Nat, counter : Nat]
EmptyEntry == [tag |-> 0, distance |-> 0, lru |-> 0, counter |-> 0]

(* A table is a record [cache |-> cache[set][way], lruCounter |-> n];    *)
(* every operation is an operator from a table to a table, so that PHAST *)
(* can run its bank of tables through the same definitions.             *)

EmptyCache == [s \in Sets |-> [w \in Ways |-> EmptyEntry]]

-----------------------------------------------------------------------------
(* Index and tag computation.                                             *)

\* The loop of xorFold: xor of the size-bit chunks of h above the first.
RECURSIVE FoldChunks(_, _)
FoldChunks(h, size) ==
    IF h = 0 THEN 0
    ELSE (h % 2^size) ^^ FoldChunks(h \div 2^size, size)

\* SimplBlockCache::xorFold(pc, history, size).
XorFold(pc, history, size) ==
    LET mask == 2^size
    IN  ((history % mask) ^^ (pc % mask)) ^^ FoldChunks(history \div mask, size)

\* SimplBlockCache::getIndex: pc is pre-mixed with pc >> 2 and pc >> 5.
GetIndex(pc, history) ==
    XorFold(0, ((pc ^^ shiftR(pc, 2)) ^^ shiftR(pc, 5)) ^^ history, SetBits)

\* SimplBlockCache::getTag: pc is pre-mixed with pc >> 3 and pc >> 7.
GetTag(pc, history) ==
    XorFold(0, ((pc ^^ shiftR(pc, 3)) ^^ shiftR(pc, 7)) ^^ history, TagBits)

\* SimplBlockCache::findEntry: the first way of the set whose tag matches,
\* -1 if there is none.
FindWay(t, set, tag) ==
    IF \E w \in Ways : t.cache[set][w].tag = tag
    THEN CHOOSE w \in Ways : t.cache[set][w].tag = tag
                             /\ \A v \in Ways : v < w => t.cache[set][v].tag # tag
    ELSE -1

\* SimplBlockCache::getLRUEntry: the first way with the smallest lru stamp
\* (the scan only moves on a strictly smaller value).
LRUWay(t, set) ==
    CHOOSE w \in Ways :
        /\ \A v \in Ways : t.cache[set][w].lru <= t.cache[set][v].lru
        /\ \A v \in Ways : v < w => t.cache[set][v].lru > t.cache[set][w].lru

\* SimplBlockCache::updateLRU: entry->lru = lruCounter (truncated to the
\* width of the uint32_t field); lruCounter++.  Writes the entry e, with
\* its stamp, into the way.
UpdateLRU(t, set, way, e) ==
    [cache      |-> [t.cache EXCEPT ![set][way] = [e EXCEPT !.lru = t.lruCounter % 2^LruBits]],
     lruCounter |-> t.lruCounter + 1]

-----------------------------------------------------------------------------
(* Operations.                                                            *)

\* The way predict answers from for the key (set, tag): a matching way
\* with a nonzero counter and a nonzero distance, -1 if there is none.
AnswerWay(t, set, tag) ==
    LET way == FindWay(t, set, tag)
    IN  IF way # -1 /\ t.cache[set][way].counter # 0 /\ t.cache[set][way].distance # 0
        THEN way ELSE -1

\* The way predict(pc, history) answers from.
PredictWay(t, pc, history) == AnswerWay(t, GetIndex(pc, history), GetTag(pc, history))

\* SimplBlockCache::predict: the distance returned (0 for none) ...
PredictDistance(t, pc, history) ==
    LET way == PredictWay(t, pc, history)
    IN  IF way = -1 THEN 0 ELSE t.cache[GetIndex(pc, history)][way].distance

\* ... and the table after it: the answering entry is touched.
Predicted(t, pc, history) ==
    LET set == GetIndex(pc, history)
        way == PredictWay(t, pc, history)
    IN  IF way = -1 THEN t ELSE UpdateLRU(t, set, way, t.cache[set][way])

\* Mutant of UpdateWay: the hit is ignored and the LRU way is written.
UpdateWayNoHit(t, pc, history) == LRUWay(t, GetIndex(pc, history))

\* The way update(pc, history, _) writes: the matching way, else the LRU way.
UpdateWay(t, pc, history) ==
    LET set == GetIndex(pc, history)
        hit == FindWay(t, set, GetTag(pc, history))
    IN  IF hit # -1 THEN hit ELSE LRUWay(t, set)

\* SimplBlockCache::update(pc, history, distance): refresh a matching entry,
\* or replace the LRU way of the set; either way the entry is made fully
\* confident and touched.
Updated(t, pc, history, d) ==
    LET set == GetIndex(pc, history)
        way == UpdateWay(t, pc, history)
    IN  UpdateLRU(t, set, way, [t.cache[set][way] EXCEPT !.tag = GetTag(pc, history),
                                                         !.distance = d,
                                                         !.counter = MaxCounter])

\* Mutant of UpdateCommitted: the early return on a zero counter is dropped.
UpdateCommittedNoZeroCheck(t, pc, history, wrong) ==
    LET set == GetIndex(pc, history)
        way == FindWay(t, set, GetTag(pc, history))
    IN  IF way = -1 THEN t
        ELSE UpdateLRU(t, set, way, [t.cache[set][way] EXCEPT
                           !.counter = IF wrong THEN @ - 1 ELSE MaxCounter])

\* SimplBlockCache::updateCommit(pc, history, wrong): on a hit with a
\* nonzero counter, a wrong prediction lowers the confidence by one and a
\* right one restores it to the maximum, and the entry is touched.  A miss
\* or a zero counter returns early.
UpdateCommitted(t, pc, history, wrong) ==
    LET set == GetIndex(pc, history)
        way == FindWay(t, set, GetTag(pc, history))
    IN  IF way = -1 \/ t.cache[set][way].counter = 0 THEN t
        ELSE UpdateLRU(t, set, way, [t.cache[set][way] EXCEPT
                           !.counter = IF wrong THEN @ - 1 ELSE MaxCounter])

\* SimplBlockCache::clear: every entry is zeroed; lruCounter is not reset.
Cleared(t) == [t EXCEPT !.cache = EmptyCache]

\* SimplBlockCache::init: every way of every set zeroed.
InitTable == [cache |-> EmptyCache, lruCounter |-> 0]

-----------------------------------------------------------------------------
(* One table as a state machine.  clock and lastUse are history          *)
(* variables recording the true order of the touches.                    *)

VARIABLES tbl, clock, lastUse

vars == <<tbl, clock, lastUse>>

\* The touch of way (set, way) in the history.
Touched(set, way) ==
    /\ clock' = clock + 1
    /\ lastUse' = [lastUse EXCEPT ![set][way] = clock + 1]

Predict(pc, history) ==
    /\ tbl.lruCounter < MaxTouches
    /\ PredictWay(tbl, pc, history) # -1
    /\ tbl' = Predicted(tbl, pc, history)
    /\ Touched(GetIndex(pc, history), PredictWay(tbl, pc, history))

Update(pc, history, d) ==
    /\ tbl.lruCounter < MaxTouches
    /\ tbl' = Updated(tbl, pc, history, d)
    /\ Touched(GetIndex(pc, history), UpdateWay(tbl, pc, history))

UpdateCommit(pc, history, wrong) ==
    LET set == GetIndex(pc, history)
        way == FindWay(tbl, set, GetTag(pc, history))
    IN
    /\ tbl.lruCounter < MaxTouches
    /\ tbl' = UpdateCommitted(tbl, pc, history, wrong)
    /\ tbl' # tbl
    /\ Touched(set, way)

Clear ==
    /\ tbl' = Cleared(tbl)
    /\ lastUse' = [s \in Sets |-> [w \in Ways |-> 0]]
    /\ UNCHANGED clock

Init ==
    /\ tbl     = InitTable
    /\ clock   = 0
    /\ lastUse = [s \in Sets |-> [w \in Ways |-> 0]]

Next ==
    \/ \E pc \in PCs, h \in Histories : Predict(pc, h)
    \/ \E pc \in PCs, h \in Histories, d \in Distances : Update(pc, h, d)
    \/ \E pc \in PCs, h \in Histories, wrong \in BOOLEAN : UpdateCommit(pc, h, wrong)
    \/ Clear

Spec == Init /\ [][Next]_vars

-----------------------------------------------------------------------------
(* Properties.                                                            *)

TypeOK ==
    /\ tbl.cache \in [Sets -> [Ways -> Entry]]
    /\ \A s \in Sets, w \in Ways :
          /\ tbl.cache[s][w].counter <= MaxCounter
          /\ tbl.cache[s][w].lru < 2^LruBits
    /\ tbl.lruCounter \in 0..MaxTouches
    /\ lastUse \in [Sets -> [Ways -> Nat]]

\* The lru stamps updateLRU gives the ways touched since the last clear
\* order them as their touches did, so getLRUEntry picks the least
\* recently used of them.
TouchedOrderMatchesRecency ==
    \A s \in Sets, a, b \in Ways :
        0 < lastUse[s][a] /\ lastUse[s][a] < lastUse[s][b]
            => tbl.cache[s][a].lru < tbl.cache[s][b].lru

\* update replaces the least recently used way of the set, a way never
\* touched since the last clear counting as least recent of all: an entry
\* is not evicted while its set has a less recently used way.
VictimIsLeastRecent ==
    [][\A s \in Sets, w \in Ways :
         (tbl'.cache[s][w].tag # tbl.cache[s][w].tag /\ lastUse'[s][w] > 0)
            => \A v \in Ways : lastUse[s][w] <= lastUse[s][v]]_vars

\* The table seen through predict: the distance each (set, tag) key answers.
KeyAnswers == [s \in Sets |-> [g \in Tags |->
                  LET w == AnswerWay(tbl, s, g) IN IF w = -1 THEN 0 ELSE tbl.cache[s][w].distance]]

Abstract == INSTANCE PathTableMap WITH Ways <- Assoc, answer <- KeyAnswers

\* The table implements PathTableMap: update makes its key answer the new
\* distance and displaces at most one other key of the set (findEntry's hit
\* check keeps a key in one way, so no stale way shadows the new one),
\* updateCommit can only silence its own key, predict's LRU touch and
\* lruCounter change no answer, and clear silences every key.
TableImplementsMap == Abstract!Spec

=============================================================================
