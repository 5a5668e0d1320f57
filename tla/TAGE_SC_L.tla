------------------------------ MODULE TAGE_SC_L ------------------------------
(***************************************************************************)
(* The TAGE_EMILIO adapter (src/gem5/src/cpu/pred/tage_sc_l_emilio.cc):   *)
(* the branch prediction unit's conditional predictor, which forwards to  *)
(* an external tagescl::Tage_SC_L library keyed by branch ids.  What the  *)
(* adapter owns is the TageEmilioBranchInfo it allocates per branch and   *)
(* hands back through the bp_history pointer that the prediction unit     *)
(* keeps in its history entry, and the sequence of library calls per id.  *)
(*   bpHistory[s]  the bp_history pointer of the unit's entry for branch  *)
(*                 s (the id of the TageEmilioBranchInfo, or NoInfo);     *)
(*   heap          the live TageEmilioBranchInfo objects;                 *)
(*   tageLib[id]   what the library has been told about id;               *)
(*   nextBranchId  the next id get_new_branch_id hands out.               *)
(* The library's tables and histories are outside the repository; only   *)
(* the calls made on them are recorded.  Actions take the unit's sequence *)
(* number s of the branch the call is for.                                *)
(***************************************************************************)
EXTENDS Naturals, FiniteSets

CONSTANTS
    MaxSeq,   \* branches 1..MaxSeq, one library id each
    NoInfo    \* a null bp_history

Seqs == 1..MaxSeq
Ids  == 1..MaxSeq

ASSUME NoInfo \notin Ids

\* TageEmilioBranchInfo: the library id, the pc and the Branch_Type flags.
BranchInfo == [id : Ids, pc : Nat, is_conditional : BOOLEAN, is_indirect : BOOLEAN]

\* What the library has been told about an id: nothing yet, predicted and
\* speculatively updated, repaired after a misprediction, committed and
\* retired, or flushed.
LibState == {"none", "speculative", "repaired", "retired", "flushed"}

VARIABLES bpHistory, heap, tageLib, nextBranchId

tageVars == <<bpHistory, heap, tageLib, nextBranchId>>

\* The adapter's state as a record, so that the calls the prediction unit
\* makes in one step can be applied one after the other.
Current == [bp |-> bpHistory, heap |-> heap, lib |-> tageLib, next |-> nextBranchId]

Becomes(t) == /\ bpHistory' = t.bp
              /\ heap' = t.heap
              /\ tageLib' = t.lib
              /\ nextBranchId' = t.next

-----------------------------------------------------------------------------
(* Operations: each maps the adapter's state t to the state after the     *)
(* call for the unit's branch s.                                          *)

\* TAGE_EMILIO::predict, from lookup (cond_branch = true) or from
\* updateHistories of an unconditional branch (cond_branch = false): a new
\* id and a new TageEmilioBranchInfo stored through b, is_indirect always
\* false, tage.get_prediction asked for the id.  Then updateHistories:
\* assert(uncond || bp_history) and tage.update_speculative_state.
PredictBranch(t, s, pc, uncond) ==
    LET id == t.next
    IN  [t EXCEPT !.heap = @ \cup {[id |-> id, pc |-> pc, is_conditional |-> ~uncond,
                                    is_indirect |-> FALSE]},
                  !.bp[s] = id,
                  !.lib[id] = "speculative",
                  !.next = id + 1]

\* Mutant of SquashBranches: bi is deleted without tage.flush_branch.
SquashSkipsFlush(t, S) ==
    LET ids == {t.bp[s] : s \in {s \in S : t.bp[s] # NoInfo}}
    IN  [t EXCEPT !.heap = {o \in @ : o.id \notin ids},
                  !.bp = [s \in Seqs |-> IF s \in S THEN NoInfo ELSE @[s]]]

\* TAGE_EMILIO::squash for every branch in S (the prediction unit calls it
\* youngest first): a non-null bi is flushed from the library by its id
\* and deleted, and bp_history is set to null.
SquashBranches(t, S) ==
    LET ids == {t.bp[s] : s \in {s \in S : t.bp[s] # NoInfo}}
    IN  [t EXCEPT !.lib = [id \in Ids |-> IF id \in ids THEN "flushed" ELSE @[id]],
                  !.heap = {o \in @ : o.id \notin ids},
                  !.bp = [s \in Seqs |-> IF s \in S THEN NoInfo ELSE @[s]]]

\* Mutant of UpdateSquashed: bi is deleted as on commit.
UpdateSquashedFrees(t, s) ==
    [t EXCEPT !.lib[t.bp[s]] = "repaired",
              !.heap = {o \in @ : o.id # t.bp[s]}]

\* TAGE_EMILIO::update with squashed = true: assert(bp_history), then
\* tage.flush_branch_and_repair_state for bi->id; bi is kept for the
\* branch's commit.
UpdateSquashed(t, s) == [t EXCEPT !.lib[t.bp[s]] = "repaired"]

\* TAGE_EMILIO::update with squashed = false: tage.commit_state and
\* tage.commit_state_at_retire for bi->id, then delete bi and null
\* bp_history.
UpdateCommit(t, s) ==
    [t EXCEPT !.lib[t.bp[s]] = "retired",
              !.heap = {o \in @ : o.id # t.bp[s]},
              !.bp[s] = NoInfo]

\* The constructor: no branch info and no id handed out.
TageInit ==
    /\ bpHistory = [s \in Seqs |-> NoInfo]
    /\ heap = {}
    /\ tageLib = [id \in Ids |-> "none"]
    /\ nextBranchId = 1

TageTypeOK ==
    /\ bpHistory \in [Seqs -> Ids \cup {NoInfo}]
    /\ heap \subseteq BranchInfo
    /\ tageLib \in [Ids -> LibState]
    /\ nextBranchId \in 1..(MaxSeq + 1)

\* The ids the library still holds speculative state for.
InFlightIds == {id \in Ids : tageLib[id] \in {"speculative", "repaired"}}

====
