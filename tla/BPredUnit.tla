------------------------------ MODULE BPredUnit ------------------------------
(***************************************************************************)
(* The branch prediction unit driving its two predictors of one thread    *)
(* through the same history: ITTAGE for the targets of indirect branches  *)
(* and the TAGE_EMILIO adapter for the directions.  Each step of the unit *)
(* is one ITTAGE operation together with the adapter calls the unit makes *)
(* for it:                                                                *)
(*   - predict: lookup and updateHistories of a conditional branch, or    *)
(*     updateHistories(uncond = true) of an unconditional (indirect) one; *)
(*   - squash from an older instruction: squash for every younger branch; *)
(*   - squash with a correction: squash for the younger branches, then    *)
(*     update(squashed = true) for the branch;                            *)
(*   - commit of the oldest branch: update(squashed = false).             *)
(***************************************************************************)
EXTENDS ITTAGE

CONSTANT NoInfo

VARIABLES bpHistory, heap, tageLib, nextBranchId

Tage == INSTANCE TAGE_SC_L

bpuVars == <<vars, bpHistory, heap, tageLib, nextBranchId>>

\* The sequence numbers of inflight[k] and every younger branch.
FromSeqs(k) == {inflight[j].seq : j \in k..Len(inflight)}

BPUPredict(pc, taken) ==
    /\ Predict(pc, taken)
    /\ Tage!Becomes(Tage!PredictBranch(Tage!Current, nextSeq, pc, pc \in IndirectPCs))

BPUFlush(k) ==
    /\ Flush(k)
    /\ Tage!Becomes(Tage!SquashBranches(Tage!Current, FromSeqs(k)))

BPUSquash(k, taken, target) ==
    /\ Squash(k, taken, target)
    /\ Tage!Becomes(Tage!UpdateSquashed(Tage!SquashBranches(Tage!Current, FromSeqs(k + 1)),
                                        inflight[k].seq))

BPUCommit ==
    /\ Commit
    /\ Tage!Becomes(Tage!UpdateCommit(Tage!Current, Head(inflight).seq))

BPUInit == Init /\ Tage!TageInit

BPUNext ==
    \/ \E pc \in PCs, taken \in BOOLEAN : BPUPredict(pc, taken)
    \/ \E k \in 1..Len(inflight) : BPUFlush(k)
    \/ \E k \in 1..Len(inflight), taken \in BOOLEAN, t \in Targets \cup {NoTarget} :
           BPUSquash(k, taken, t)
    \/ BPUCommit

BPUSpec == BPUInit /\ [][BPUNext]_bpuVars

-----------------------------------------------------------------------------
(* Properties of the adapter under the unit's calls.                      *)

BPUTypeOK == TypeOK /\ Tage!TageTypeOK

\* Ownership of TageEmilioBranchInfo across predict, squash, correction and
\* commit: every branch in flight holds, through bp_history, a live info of
\* its own made for its pc, and nothing else is live, so no update reads a
\* deleted info and no info outlives its branch.
BranchInfoOwned ==
    /\ \A k \in 1..Len(inflight) :
          \E o \in heap : o.id = bpHistory[inflight[k].seq] /\ o.pc = inflight[k].pc
    /\ Cardinality(heap) = Len(inflight)

\* The library is told about every branch exactly as the unit sees it: the
\* ids it still keeps speculative state for are those of the branches in
\* flight, and every other id it handed out has been flushed or retired.
LibraryTracksBranches ==
    Tage!InFlightIds = {bpHistory[inflight[k].seq] : k \in 1..Len(inflight)}

====
