# TLA+ models of the memory-dependence and branch-prediction subsystem

This directory holds TLA+ models of the C++ sources under
`src/gem5/src/cpu/o3` and `src/gem5/src/cpu/pred`, together with the TLC
configurations that check them. `PROJECT.json` maps every definition to
the source lines it translates. It also lists the runs, the mutants that
show each property can fail, the findings, and the hazards of the code.

## 1. The system

| Part | Source | State | Operations |
|---|---|---|---|
| **MemDepUnit** | `o3/mem_dep_unit.{cc,hh}` | `memDepHash` (seqNum → `MemDepEntry{memDeps, regsReady, squashed, dependInsts}`), `instList[tid]`, `instsToReplay`, `loadBarrierSNs`, `storeBarrierSNs` | insert, insertNonSpec, insertBarrier, regsReady, nonSpecInstReady, reschedule, replay, completeInst (= wakeDependents + completed + barrier erase), squash, violation, issue, commit, takeOverFrom, clear_dep_pred |
| **PHAST::SimplBlockCache** | `o3/phast.{cc,hh}` | `cache[set][way] = {tag, distance, lru, counter}`, `lruCounter` | init, predict, update, updateCommit, clear, and the helpers getIndex, getTag, xorFold, findEntry, getLRUEntry, updateLRU |
| **PHAST** | `o3/phast.{cc,hh}` | `maxBranches`, eight SimplBlockCaches (`paths`), one per history length in `historySizes = {0,2,4,6,8,12,16,32}` | checkInst, violation, commit, clear, generateBranchHash, foldHistory |
| **AssociativeBTB** | `pred/associative_btb.{cc,hh}` | `numSets × assoc` entries `{tag, target, tid, valid, inst}` and a replacement policy | lookup, valid, getInst, update/updateEntry, memInvalidate |
| **ITTAGE** | `pred/ittage.cc` | per thread: GHR, path history, `headHistEntry`; a base BTB, tagged tables, `use_alt`, `reset_counter` | lookup, update, squash, commit, recordIndirect, recordTarget, and CSR/tag folding |
| **TAGE_SC_L (emilio)** | `pred/tage_sc_l_emilio.{cc,hh}` | one `TageEmilioBranchInfo {id, pc, br_type}` per branch, passed back through the unit's `bp_history`; the external `tagescl` library's state per id | lookup, predict, updateHistories, update (squashed or commit), squash |

**How the parts interact.** The IQ owns one MemDepUnit per thread, although
the unit's interface takes a thread id and keeps a list per thread.

1. At dispatch, `insert` asks PHAST (`checkInst`) for a store-queue
   distance. That store, if it is still in `memDepHash`, becomes a
   dependency.
2. Every live barrier of the matching kind also becomes a dependency.
3. The instruction is forwarded to the IQ ready list once its `memDeps`
   count is 0 and its registers are ready.
4. `completeInst` wakes the dependents.
5. `squash` removes the younger instructions of a thread and their
   barriers.
6. A memory-order violation calls `PHAST::violation`. It trains the
   table chosen by the number of branches between the store and the load.
7. Commit of a non-store calls `PHAST::commit`, which confirms or
   weakens the prediction's entry.

ITTAGE and the BTB produce the branch history that PHAST hashes. The
branch prediction unit drives ITTAGE (targets of indirect branches) and
the TAGE_SC_L adapter (directions) through one history per branch:
predict, squash of younger branches, correction of a mispredicted one,
and in-order commit.

**The hard behaviours are these:**
- shared-pointer dependents that outlive a squash;
- counters that must be decremented once per reference;
- barrier sets shared by every thread of a unit;
- the order of wake-ups against squashes and replays;
- LRU stamps and their widths;
- the global `maxBranches` clamp;
- address-range arithmetic on unsigned values;
- speculative history that must be rolled back on squash.

## 2. Modules

| Module | Models | Status |
|---|---|---|
| `MemDepUnit.tla`, `MCMemDepUnit.tla` | MemDepUnit, with the IQ as its environment | done |
| `SimplBlockCache.tla`, `PathTableMap.tla` | one PHAST table, refined against `PathTableMap`, the key-to-distance map predict answers from | done |
| `PHAST.tla`, `MCPHAST.tla` | PHAST over eight tables, composed with the MemDepUnit hooks that call it (insert's prediction, the predStoreAddr write in wakeDependents, violation, commit) | done |
| `AssociativeBTB.tla`, `MCAssociativeBTB.tla`, `BTBMap.tla` | the BTB under any replacement policy, refined against `BTBMap`, an abstract tagged map | done |
| `ITTAGE.tla`, `MCITTAGE.tla` | ITTAGE for one thread: GHR and path history under prediction, correction, squash and commit; lookup, training and allocation with `use_alt` and `reset_counter` | done for one thread |
| `TAGE_SC_L.tla` | the TAGE_EMILIO adapter: its branch infos and the calls it makes on each library id | done |
| `BPredUnit.tla`, `MCBPredUnit.tla` | the prediction unit driving ITTAGE and the adapter together | done (the driver is modelled from the spec) |

### MemDepUnit.tla

**State.** Instructions are sequence numbers `1..MaxSeq` with a kind and
an owning thread. The unit's state is `memDepHash`, `instList`,
`instsToReplay`, `loadBarrierSNs` and `storeBarrierSNs`. Each entry's
fields are functions over sequence numbers: `memDeps`, `regsReady`,
`squashed`, `dependInsts` and `predicted`. `dependInsts` is a sequence
with repetition, because an HTM command is pushed twice as a dependency
of an atomic. An entry removed from the hash keeps its fields, just as a
`shared_ptr` held in another entry's `dependInsts` keeps the object
alive.

**Environment.** The IQ is modelled by:
- `ready[s]`, the copies of `s` on the ready list;
- `executing`;
- the history variables `fwdCount` (how often the unit forwarded `s`)
  and `resched`.

**Actions.** There is one action per operation. `Insert` covers the
whole of `insert`:
- the PHAST prediction, as the store it names (`PredCandidates`);
- the barrier loops;
- `memDeps = dependencies.size()`;
- the immediate forward;
- `insertBarrierSN`.

`CompleteInst` is `wakeDependents`, then `completed`, then the barrier
erase, in one step. `Squash` filters the replay list, then walks the
thread's list from its tail (`KeptLen`).

### SimplBlockCache.tla

The module models one table. The index, the tag and `xorFold` are
computed on small integers exactly as the code computes them (`^^` is
xor, `shiftR` is `>>`). Each operation is a pure operator from a table
`[cache, lruCounter]` to a new table, so that the PHAST module can reuse
it. The constant `LruBits` gives the width of `Entry.lru`: the stamp
stored is `lruCounter % 2^LruBits`. The state-machine wrapper adds two
history variables, `clock` and `lastUse`, which record the true order of
the touches.

**Refinement.** `PathTableMap` is what a table promises the predictor:
for each (set, tag) key, the distance a lookup answers (0 for none).
Training a key makes it answer the new distance and may silence at most
one other key of its set; at most `Assoc` keys of a set answer at once;
a confidence update can only silence its own key; a lookup changes no
answer; clear silences every key. The refinement mapping `KeyAnswers`
is the table seen through predict (`AnswerWay`: the first way with the
key's tag, a nonzero counter and a nonzero distance), and
`TableImplementsMap` is `PathTableMap`'s specification under it. The LRU
stamps and `lruCounter` have no abstract counterpart: they only decide
which key a miss displaces. The check matters because empty ways all
carry tag 0, so a set may hold several ways with the same tag: only
update's hit path keeps a trained key in a single way. Writing a hit
into the LRU way instead (the mutant `UpdateWayNoHit`) leaves the old way
first in the scan, and its stale distance keeps answering.

### PHAST.tla

**State.** `paths[i]` is the table of history length `HistorySizes[i+1]`.
It is a SimplBlockCache record, and every table operation goes through
the SimplBlockCache operators (`C!Predicted`, `C!Updated`,
`C!UpdateCommitted`, `C!Cleared`). `maxBranches` is the shared index of
the longest table queried. `inflight[pc]` is the one dynamic load of a
PC. It holds the history it was dispatched with, what `checkInst`
answered, and the `memDepInfo` fields the MemDepUnit fills in:
`predicted`, path index, hash, `predStoreAddr` and `predStoreSize`.

**Branch histories** are sequences of `{seq, target, taken, indirect}`,
youngest first, which is how `checkInst` and `violation` index them.
`GenerateBranchHash` walks backwards from the anchor ("+1") branch as
the code does. It starts from `target & 31` with `bits = 60` and shifts
in a taken bit or xors in five target bits. `FoldHistory` then xors the
`setBits + tagBits`-bit chunks, including the partial top chunk.

**Actions.**
- `Dispatch` is the prediction part of `MemDepUnit::insert`. It calls
  `checkInst` (the anchor search, the clamp of `maxBranches`, the first
  hit over tables `0..maxBranches`, and the LRU touch of the answering
  entry). The load is marked predicted only when the environment says
  that the named store is still in the store queue and in the hash.
- `StoreResolves` is the `predStoreAddr` write of `wakeDependents`. It
  may never happen (see `PredictedStoreRecorded` below).
- `Violate` is `MemDepUnit::violation`, then `PHAST::violation`: the
  early return, the branch count, the quantisation, the weakening of
  the predicting entry, the training update, and the raise of
  `maxBranches`.
- `CommitLoad` is `MemDepUnit::commit`, then `PHAST::commit`: the
  word-overlap test on `(addr + size - 1) >> depCheckShift` in the
  width of `Addr`, then `updateCommit`.
- `Clear` is `PHAST::clear`, from `takeOverFrom` or `clear_dep_pred`.

**Assumptions about code outside the repository.**
- The history passed to `violation` is taken at commit. It is the part
  of the dispatch history older than the load (`CommitHistory`), as the
  comment at `phast.cc:151` says.
- `memDepInfo` fields that `insert` does not set keep zero defaults.
- `storeQueueDistance` is an input drawn from `Distances`, because no
  code in the repository sets it.



### AssociativeBTB.tla and BTBMap.tla

**State.** `btb[set][way]` is a `BTBEntry {valid, tag, tid, target}`.
`GetIndex` xors the thread id, shifted by `tagShiftAmt - instShiftAmt -
log2NumThreads`, into the pc's index bits; `GetTag` masks the bits
above `tagShiftAmt`. `answer` records the last lookup for the
refinement.

**Actions.** `Lookup` and `Update` are `lookup` and `update`
(`updateEntry` writes the way `findEntry` finds, or a victim); the
injected replacement policy may pick any way. `MemInvalidate` clears
every entry.

**Refinement.** `BTBMap` is what a BTB promises: a map from a branch's
key to its last installed target, in groups of at most `Assoc` keys,
where an install drops at most one other key of its group. The
refinement maps the key `(tid, set, tag)` to the target of the valid
way holding it (`Held`), and `BTBImplementsMap` is `BTBMap`'s
specification checked as a property of the BTB's.

### ITTAGE.tla

**State.** One thread's `ghr` (as a number of `GhrLen` bits),
`pathHist` (a sequence of `{pc, target, seq}`), `headHistEntry`, the
tagged tables `targetCache`, the base predictor, `previous_target`,
`use_alt` and `reset_counter`. `inflight` is the prediction unit's list
of branches not committed, each with the GHR saved for it, its
predicted direction and target, and whether it has been corrected.

**Actions.**
- `Predict` is `lookup` (for an indirect branch) and
  `update(squash = false)`: `recordIndirect` and `updateDirectionInfo`.
- `Flush(k)` is `squash(tid, sn, i_history)` for inflight[k] and every
  younger branch; only the GHR is restored.
- `Squash(k, taken, target)` is the correction of inflight[k]:
  `changeDirectionPrediction`, `recordIndirect`, `updateDirectionInfo`
  and, for a taken indirect branch, `recordTarget` with its re-lookup
  (`LookupHelper`), the base-predictor update, training (`Train`) and
  allocation (`Allocate`).
- `Commit` is `commit`: `commitHistoryEntry` on the oldest path entry
  not younger than the branch, then the pop or the advance of
  `headHistEntry`.

The folds `getCSR1`, `getCSR2`, `getAddrFold` and `getTag` are computed
on small integers as the code computes them.

### TAGE_SC_L.tla and BPredUnit.tla

**State.** `bpHistory[s]` is the `bp_history` pointer of the unit's
entry for branch `s`: the id of a `TageEmilioBranchInfo`, or null.
`heap` is the set of live infos. `tageLib[id]` is what the external
library has been told about `id`: nothing, speculative, repaired,
retired or flushed. Only the calls are recorded; the library's tables
are not in the repository. `nextBranchId` is the next id handed out.

**Operations.** Each adapter method is an operator from the adapter's
state to the state after the call, so that the calls the unit makes in
one step compose: `PredictBranch` (`lookup` or `predict` from
`updateHistories`, then `update_speculative_state`), `SquashBranches`
(`squash`: flush the id, delete the info, null the pointer),
`UpdateSquashed` (`flush_branch_and_repair_state`, the info kept) and
`UpdateCommit` (`commit_state`, `commit_state_at_retire`, delete).

**Composition.** `BPredUnit` extends ITTAGE and instantiates the
adapter. Each step of the unit is one ITTAGE action with the adapter
calls the unit makes for it: predict with `PredictBranch`; a flush with
`squash` of every younger branch; a correction with `squash` of the
younger branches, then `update(squashed = true)`; commit with
`update(squashed = false)`. The unit (`bpred_unit.cc`) is not under
`src/`; this call protocol is taken from the spec and from the order the
adapter's and ITTAGE's comments assume.

## 3. Runs

| Run | cfg | Bounds | Checks | Result |
|---|---|---|---|---|
| memdep_safety | `MCMemDepUnit.cfg` | 1 thread, 3 instructions, kinds Load/Store/Atomic and ReadBar/WriteBar/Htm, 1 reschedule each | TypeOK, ListMatchesHash, BarrierSetsExact, DepCountExact, CallbacksFindEntry, BarrierOrder, NoDoubleForward, ForwardOnlyWhenResolved | pass |
| memdep_liveness | `MCMemDepUnitLive.cfg` | 1 thread, 3 instructions, Load/Store, ReadBar/WriteBar | EveryInstLeaves, EventuallyDrained | pass |
| memdep_smt_strand | `MCMemDepUnitSMT.cfg` | 2 threads, 2 instructions | DepCountExact | violation (finding) |
| cache_lru | `MCSimplBlockCache.cfg` | 2 sets × 2 ways, 4 PCs × 2 histories, 6 touches, 8-bit lru | TypeOK, TableImplementsMap | pass (50,595 states) |
| cache_first_touch | `MCSimplBlockCacheFirstTouch.cfg` | the same, 3 touches | VictimIsLeastRecent | violation (finding) |
| btb_refinement | `MCAssociativeBTB.cfg` | 2 sets × 2 ways, 2 threads, 1 tag bit, PCs {0,2,4,8}, targets as a symmetry set | TypeOK, NoDuplicateKeys, BTBImplementsMap | pass (17,117 states) |
| phast_safety | `MCPHAST.cfg` | 1 PC, histories of ≤ 3 branches over seqs {1,3,5} around load 7, stores 2 and 4, 8-byte accesses at 0, 4 and 8 (the one at 4 straddles two words), 1-way tables of 2 sets, confidence 0..2, 4 touches per table | TypeOK, FoldMatchesReference, MispredictionMatchesOverlap, ViolationTrainsPath | pass (88,116 states) |
| phast_commit_unpredicted | `MCPHASTCommitUnpredicted.cfg` | as above | ConfidenceOnlyFromOwnPrediction | violation (finding) |
| bpu_safety | `MCBPredUnit.cfg` | ITTAGE: 2 tables of 4 entries, history lengths 2 and 3 (table 1 runs getCSR1's loop twice and getCSR2's once), 1-bit tags, indirect PC 513 = 2^9 + 1 (two non-zero getAddrFold slices), conditional PC 2, targets {4, 6}, path length 1; 4 branches | BPUTypeOK, FoldsMatchReference, GhrChain, BranchInfoOwned, LibraryTracksBranches, PathHistStaysNonEmpty | pass (53,356 states) |
| ittage_ghr | `MCITTAGEGhr.cfg` | as above | GhrMatchesYoungest | violation (finding) |
| ittage_path_history | `MCITTAGEPath.cfg` | as above | PathHistMatchesInflight | violation (finding) |
| ittage_alt | `MCITTAGEAlt.cfg` | as above | AltIsSecondHit | violation (finding) |

**What the passing MemDepUnit runs show.** The unit's bookkeeping stays
exact:
- the per-thread lists hold exactly the hash's instructions, in order;
- the barrier sets hold exactly the live barriers;
- each `memDeps` equals the number of references to the entry in live
  producers' `dependInsts`.

The callbacks and the squash only reach instructions that are still in
the unit. A load or atomic never issues ahead of an older live barrier,
and no instruction is put on the ready list twice or while its
dependencies are pending.

The liveness run adds that every inserted instruction leaves the unit,
and that once insertion stops the unit reaches `isDrained` (replay list,
hash and thread lists all empty) and stays there, which is what the CPU's
drain waits for. Insertion is bounded by `MaxSeq`, so every behaviour
stops inserting. An entry erased from the hash but left on its thread
list would satisfy the first property and hang the drain.

Three instructions are enough for the hard cases. For example: a
barrier, a store, and a load depending on both; or an HTM command and an
atomic that counts it twice; or a squash that removes a dependent but
not its producer.

**The violations.**
- **memdep_smt_strand.** With two threads in one unit, a squash of one
  thread strands the other thread's load forever.
- **cache_first_touch.** The first stamp handed out is 0, the same as an
  empty way's stamp. The entry just installed is then the victim while a
  way is still empty.

**What btb_refinement shows.** The BTB bounds cover:
- three keys competing for the two ways of set 0 (thread 0's PCs 0 and
  4, and thread 1's PC 2, which the tid xor moves into set 0 with tag
  0);
- two aliasing PCs (0 and 8);
- invalidation between updates.

Under them, no set holds a branch twice. Every lookup answers the
target last installed for the branch's own key, never another
thread's, and every update displaces at most one other branch of its
set.

**What phast_safety shows.**
- For every load in flight and every table its history reaches,
  `foldHistory` of the walked path equals a per-bit parity reference.
- Whenever a predicted store's address has resolved for a load in
  flight, the commit test equals word-set overlap at every load
  address. The accesses at 0, 4 and 8 include one that straddles two
  words, so a test that swaps or misplaces an interval's first and last
  word fails. The store size is non-zero here; the wrapped end of a
  zero-sized store is the violation run `phast_commit_unpredicted`.
- After every violation, the quantised table predicts the trained
  distance with full confidence for that path. This holds even when the
  weakening of the predicting entry and the training update hit the
  same entry.

Histories of up to three branches reach tables 0 (size 0) and 1
(size 2), which is where the clamp and the quantisation change
behaviour. Longer tables follow the same code with larger numbers.

**The PHAST violations.**
- **phast_commit_unpredicted.** An unpredicted load commits with
  path 0, hash 0 and store size 0. `store_addr + 0 - 1` wraps, the
  overlap test passes, and table 0's hash-0 entry is restored to full
  confidence.

**What bpu_safety shows.** Four branches (a conditional and an indirect
PC) are predicted by ITTAGE and the TAGE_SC_L adapter, corrected,
flushed and committed in every order. Under every such order:
- the counters, tags, `use_alt`, `reset_counter` and `headHistEntry`
  stay in range;
- `getCSR1` and `getCSR2` equal their parity references on the GHR and
  on every history saved for a branch in flight, and `getAddrFold` on
  the PC of every branch in flight. With history lengths 2 and 3 the
  loops of both folds run and the xor after them matters, and PC 513
  has a non-zero second address slice, so a wrong stride, a wrong shift
  or a dropped tail xor is caught;
- (`GhrChain`) after any mix of predictions and flushes, every
  uncorrected branch in flight saved the GHR its predecessor left, and
  the live GHR after an uncorrected youngest branch is that branch's
  saved history with its direction shifted in once, as the comment of
  `update` and spec section 4.5 say. `deleteIndirectInfo` restores each
  squashed branch's saved GHR, and only youngest-to-oldest restores
  leave this chain. Corrected branches are excluded: the code shifts
  their direction in twice (`ittage_ghr` below);
- (`BranchInfoOwned`) every branch in flight holds a live
  `TageEmilioBranchInfo` of its own and no other info is live: no update
  reads a freed info and none outlives its branch;
- (`LibraryTracksBranches`) the ids the library keeps speculative state
  for are exactly those of the branches in flight;
- (`PathHistStaysNonEmpty`) once the path history holds an entry it
  never empties again. This bounds a leak in `ITTAGE::commit`: on an
  empty path history it returns before `delete previousGhr`, and the
  caller nulls `i_history`, so the saved GHR copy is lost. The property
  confines the leak to the branches committed before the first indirect
  branch. A program without indirect branches leaks one copy per
  committed branch. The model carries the saved GHR in the branch
  record, so the leak itself is not state of the model.

Four branches are enough for a misprediction to allocate in table 0, a
second misprediction on a table-0 hit to allocate in table 1, and a
commit to train an entry. Tables of 4 entries are the smallest for
which the `getCSR1` loop ends. The ITTAGE runs do not check for
deadlock. Once the four branches have been predicted and committed, the
program has ended and nothing is left to do.

**The ITTAGE violations.**
- **ittage_ghr.** `update(squash = true)` restores the GHR with the
  actual direction and then shifts that direction in again.
- **ittage_path_history.** This has two causes:
  - a flush leaves the squashed indirect branches in the path history;
  - a corrected indirect branch gets a second entry. `recordTarget`'s
    pop loop stops at that entry, leaving the original entry and any
    younger wrong-path entries ahead of it.

  `commit` then trains entries that belong to no committed branch,
  under another branch's GHR.
- **ittage_alt.** With hits in both tables, the alternate is the
  provider itself, so the `use_alt` machinery never runs.


**Documented behaviours the code does not meet, stated but not run.**
Each of these properties is in its module. Replacing the properties of
the named config with it, and changing the constants as listed, makes
TLC report a violation.

| Property | Module | Config and constants | What the violation shows |
|---|---|---|---|
| `PredictedStoreRecorded` | MemDepUnit | `MCMemDepUnit.cfg`, with `MemKinds = {"Load", "Store"}`, `BarrierKinds = {"ReadBar"}` and `MaxResched = 0` | A predicted load whose last dependency is a barrier never gets its predicted store's address. `PHAST::commit` then trains on address 0. |
| `TouchedOrderMatchesRecency` | SimplBlockCache | `MCSimplBlockCache.cfg`, with `LruBits = 2`, `Histories = {0}` and `Distances = {1}` | The 64-bit counter stored in a 32-bit field wraps, after which recency is inverted (shown with a 2-bit field). |
| `NoPredictionWithoutAnchor` | PHAST | `MCPHAST.cfg`, with `BranchSeqs = {1, 3, 5, 8}` | `begin > size` can never hold. A load with no branch older than itself still queries the tables with hash 0 and can be predicted. |
| `CheckInstFindsTrainedPath` | PHAST | `MCPHAST.cfg`, with `BranchSeqs = {1, 3, 5, 8}` | One load with a short history lowers the shared `maxBranches`. A trained table-1 path is then missed for the next load. |
| `NoPredictionIsNone` | ITTAGE | `MCITTAGEGhr.cfg` (module `MCITTAGE`) | `lookup` returns the branch's own pc when nothing predicts it (already in the initial state). |

The 8-bit field of `cache_lru` stands for the code's 32 bits. It cannot
wrap within 6 touches, and TLC cannot compute `2^32`.

## 4. Fairness

The liveness run assumes weak fairness of `RegsReady`,
`NonSpecInstReady`, `Issue` and `Replay`. The IQ calls each of these
whenever it is enabled:
- a source operand becomes ready;
- the ROB head reaches a non-speculative instruction;
- a ready instruction is eventually issued;
- the replay list is drained every cycle.

It assumes strong fairness of `CompleteInst`. An issued instruction may
be rescheduled, at most `MaxResched` times, but then it completes.
`Squash`, `Insert` and `Reschedule` are not fair: the program need not
take them. `EventuallyDrained` needs no fairness of `Insert`: the
sequence numbers run out, or the program stops inserting on its own.

## 5. Not modelled, and why

- **Statistics, debug printing and the `memdep_count` counters.** They
  do not affect behaviour.
- **MemDepUnit's constructors, `init`, `setIQ`, `drainSanityCheck` and
  destructor.** They set names and pointers, register statistics, assert
  what `IsDrained` already states, or free what is left at teardown.
  `clear_dep_pred` is `PHAST::clear` (the `Clear` action of PHAST.tla).
- **The contents of `DynInst`** (effective addresses, `sqIt`, the
  `memDepInfo` defaults). This is code outside `src/`. It enters only as
  inputs: the store a prediction names, and whether registers are ready
  at dispatch.
- **The store-queue arithmetic of `insert`** (`sqIt`, `getStoreHead`).
  It is reduced to the environment's choice of whether the prediction
  is usable.
- **The StoreSet branch of `insert`.** PHAST's `checkInst` never returns
  a `seqNum`.
- **The `tagescl` library behind TAGE_SC_L.** It is not in the
  repository. Only the calls the adapter makes on it are modelled, so
  the effect of `br_type.is_indirect` being always false, and of one
  library instance being shared by every thread, cannot be checked.
- **ITTAGE with several threads.** `use_alt` and `reset_counter` are
  shared by all threads while the tables are per thread. The model runs
  one thread.
- **ITTAGE's `squash(seq_num, tid)` overload.** It is never called in
  the repository.
- **ITTAGE's useful-bit reset.** It is modelled in `Allocate`, but
  `reset_counter` must fall from 128 to 0 before it runs, which no
  bounded run reaches.
- **The replacement-policy classes the BTB is given.** They are not in
  the repository. The BTB model lets `getVictim` choose any way.
- **The BTB's thread-id shift when there are more threads than sets.**
  The unsigned subtraction wraps, and the model's ASSUME excludes that
  case. Whatever the shift gives is masked into the index and only
  moves a thread's branches to another set.
