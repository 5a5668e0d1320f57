----------------------------- MODULE MemDepUnit -----------------------------
(***************************************************************************)
(* The O3 memory dependence unit (src/gem5/src/cpu/o3/mem_dep_unit.cc).    *)
(*                                                                         *)
(* It tracks every in-flight memory instruction of a CPU in memDepHash and *)
(* in a per-thread insertion-ordered instList, wires each load or store to *)
(* the producers it must wait for (the store PHAST predicts and every live *)
(* barrier), releases it to the instruction queue (IQ) once those have     *)
(* completed and its registers are ready, and removes younger instructions *)
(* on a squash.                                                            *)
(*                                                                         *)
(* Sequence numbers are the integers 1..MaxSeq, handed out in program      *)
(* order.  Instruction payloads (PCs, addresses) are abstracted away: the  *)
(* effective address a store hands to a predicted load is represented by   *)
(* the store's sequence number (0 = never written).  The prediction PHAST  *)
(* makes at insert is an input: any older store of the same thread, or     *)
(* none.  The IQ is modelled only as far as the unit's callers need it: a  *)
(* count of pending entries per instruction on its ready list, the set of  *)
(* instructions executing, and the points where it calls back into the     *)
(* unit (regsReady, nonSpecInstReady, reschedule, replay, completeInst).   *)
(***************************************************************************)
EXTENDS Naturals, Sequences, FiniteSets, SequencesExt

CONSTANTS
    Threads,        \* hardware thread ids served by this unit
    MaxSeq,         \* number of sequence numbers the front end hands out
    MemKinds,       \* kinds of memory instructions dispatched: Load/Store/Atomic
    BarrierKinds,   \* kinds of barrier instructions dispatched
    MaxResched      \* bound on reschedules of one instruction

AllMemKinds     == {"Load", "Store", "Atomic"}
AllBarrierKinds == {"ReadBar", "WriteBar", "MemBar", "Htm"}

ASSUME /\ Threads # {}
       /\ MaxSeq \in Nat \ {0}
       /\ MemKinds \subseteq AllMemKinds
       /\ BarrierKinds \subseteq AllBarrierKinds
       /\ MaxResched \in Nat

Seqs == 1..MaxSeq
None == "None"

\* The DynInst predicates the unit calls (isLoad, isStore, ...).
IsLoad(k)         == k = "Load"
IsStore(k)        == k = "Store"
IsAtomic(k)       == k = "Atomic"
IsReadBarrier(k)  == k \in {"ReadBar", "MemBar"}
IsWriteBarrier(k) == k \in {"WriteBar", "MemBar"}
IsHtmCmd(k)       == k = "Htm"

VARIABLES
    nextSeq,         \* next sequence number the front end will assign
    kind,            \* kind[s]: the instruction's class, None if not dispatched
    owner,           \* owner[s]: the instruction's threadNumber
    nonSpec,         \* instructions inserted by insertNonSpec / insertBarrier
    memDepHash,      \* keys of memDepHash: seqNums with a live MemDepEntry
    instList,        \* instList[t]: the per-thread list, in insertion order
    instsToReplay,   \* the replay list
    loadBarrierSNs,
    storeBarrierSNs,
    memDeps,         \* MemDepEntry::memDeps
    regsReady,       \* MemDepEntry::regsReady
    squashed,        \* MemDepEntry::squashed
    dependInsts,     \* MemDepEntry::dependInsts, as sequences of seqNums
    predicted,       \* memDepInfo.predicted
    predStore,       \* memDepInfo.predStoreAddr (the producing store, 0 = unset)
    ready,           \* IQ: number of entries of s on the IQ ready list
    executing,       \* IQ: instructions issued and not completed
    fwdCount,        \* history: number of moveToReady calls for s
    resched          \* history: number of reschedules of s

unitVars == <<memDepHash, instList, instsToReplay, loadBarrierSNs,
              storeBarrierSNs, memDeps, regsReady, squashed, dependInsts,
              predicted, predStore>>
envVars  == <<nextSeq, kind, owner, nonSpec, ready, executing, fwdCount, resched>>
vars     == <<unitVars, envVars>>

-----------------------------------------------------------------------------
(* Helpers translating the unit's private methods.                        *)

\* Occurrences of c in a dependInsts list.
Copies(c, list) == CopiesIn(c, ToBag(list))

\* MemDepUnit::moveToReady applied to a set of entries: each is appended to
\* the IQ's ready list once.
MoveToReady(S) ==
    /\ ready'    = [s \in Seqs |-> IF s \in S THEN ready[s] + 1 ELSE ready[s]]
    /\ fwdCount' = [s \in Seqs |-> IF s \in S THEN fwdCount[s] + 1 ELSE fwdCount[s]]

\* Mutant of InsertBarrierSN: an HTM command is recorded as a load barrier only.
InsertBarrierSNNoHtmStore(s, k) ==
    /\ loadBarrierSNs'  = loadBarrierSNs \cup
                            (IF IsReadBarrier(k) \/ IsHtmCmd(k) THEN {s} ELSE {})
    /\ storeBarrierSNs' = storeBarrierSNs \cup
                            (IF IsWriteBarrier(k) THEN {s} ELSE {})

\* MemDepUnit::insertBarrierSN: the barrier sets an instruction of kind k joins.
InsertBarrierSN(s, k) ==
    /\ loadBarrierSNs'  = loadBarrierSNs \cup
                            (IF IsReadBarrier(k) \/ IsHtmCmd(k) THEN {s} ELSE {})
    /\ storeBarrierSNs' = storeBarrierSNs \cup
                            (IF IsWriteBarrier(k) \/ IsHtmCmd(k) THEN {s} ELSE {})

\* The common first half of insert / insertBarrier: a new MemDepEntry in the
\* hash and at the tail of the thread's list; the front end assigns s.
Dispatch(s, k, t) ==
    /\ s = nextSeq
    /\ s <= MaxSeq
    /\ nextSeq'    = nextSeq + 1
    /\ kind'       = [kind EXCEPT ![s] = k]
    /\ owner'      = [owner EXCEPT ![s] = t]
    /\ memDepHash' = memDepHash \cup {s}
    /\ instList'   = [instList EXCEPT ![t] = Append(@, s)]

\* Mutant of DepMult: only loads, not atomics, wait for load barriers.
DepMultNoAtomicLoadBarrier(p, k, pred) ==
      (IF pred # 0 /\ p = pred /\ pred \in memDepHash THEN 1 ELSE 0)
    + (IF IsLoad(k) /\ p \in loadBarrierSNs /\ p \in memDepHash THEN 1 ELSE 0)
    + (IF (IsStore(k) \/ IsAtomic(k)) /\ p \in storeBarrierSNs /\ p \in memDepHash
         THEN 1 ELSE 0)

\* Multiplicity of producer p in the dependencies vector built by insert:
\* the store found through the prediction, each live load barrier (loads and
\* atomics) and each live store barrier (stores and atomics).  An HTM
\* command is in both barrier sets and is counted twice for an atomic.
DepMult(p, k, pred) ==
      (IF pred # 0 /\ p = pred /\ pred \in memDepHash THEN 1 ELSE 0)
    + (IF (IsLoad(k) \/ IsAtomic(k)) /\ p \in loadBarrierSNs /\ p \in memDepHash
         THEN 1 ELSE 0)
    + (IF (IsStore(k) \/ IsAtomic(k)) /\ p \in storeBarrierSNs /\ p \in memDepHash
         THEN 1 ELSE 0)

\* inst_entry->memDeps = dependencies.size().
DepCount(k, pred) ==
    SumFunction([p \in {q \in memDepHash : DepMult(q, k, pred) > 0} |->
                   DepMult(p, k, pred)])

\* The stores PHAST may name for a load of thread t dispatched as s: the
\* store sqIt - storeQueueDistance is an older store or atomic of the thread.
PredCandidates(s, k, t) ==
    IF IsLoad(k)
    THEN {0} \cup {q \in 1..(s - 1) : owner[q] = t /\ kind[q] \in {"Store", "Atomic"}}
    ELSE {0}

-----------------------------------------------------------------------------
(* Operations of the unit, each with the IQ step that calls it.           *)

\* MemDepUnit::insert(inst, branchHistory), called at dispatch of a
\* speculative load, store or atomic.  rdy is inst->readyToIssue(); pred is
\* the store PHAST's prediction resolves to (0: no usable prediction).
Insert(s, k, t, rdy, pred) ==
    LET deps  == {p \in memDepHash : DepMult(p, k, pred) > 0}
        total == DepCount(k, pred)
    IN
    /\ Dispatch(s, k, t)
    /\ predicted' = [predicted EXCEPT ![s] = pred # 0 /\ pred \in memDepHash]
    /\ dependInsts' = [p \in Seqs |->
                         IF p \in deps
                         THEN dependInsts[p] \o [i \in 1..DepMult(p, k, pred) |-> s]
                         ELSE dependInsts[p]]
    /\ memDeps'   = [memDeps EXCEPT ![s] = total]
    /\ regsReady' = [regsReady EXCEPT ![s] = rdy]
    /\ IF deps = {} /\ rdy THEN MoveToReady({s}) ELSE UNCHANGED <<ready, fwdCount>>
    /\ InsertBarrierSN(s, k)
    /\ UNCHANGED <<nonSpec, instsToReplay, squashed, predStore, executing, resched>>

\* MemDepUnit::insertNonSpec (a non-speculative load/store/atomic) and
\* MemDepUnit::insertBarrier: the entry is registered with no dependencies
\* and waits for nonSpecInstReady.
InsertBarrier(s, k, t) ==
    /\ Dispatch(s, k, t)
    /\ nonSpec' = nonSpec \cup {s}
    /\ InsertBarrierSN(s, k)
    /\ UNCHANGED <<instsToReplay, memDeps, regsReady, squashed, dependInsts,
                   predicted, predStore, ready, executing, fwdCount, resched>>

InsertNonSpec(s, k, t) == InsertBarrier(s, k, t)

\* MemDepUnit::regsReady, called by the IQ once when the last source
\* operand of a speculatively inserted instruction becomes ready.
RegsReady(s) ==
    /\ s \in memDepHash \ nonSpec
    /\ ~regsReady[s]
    /\ regsReady' = [regsReady EXCEPT ![s] = TRUE]
    /\ IF memDeps[s] = 0 THEN MoveToReady({s}) ELSE UNCHANGED <<ready, fwdCount>>
    /\ UNCHANGED <<memDepHash, instList, instsToReplay, loadBarrierSNs,
                   storeBarrierSNs, memDeps, squashed, dependInsts, predicted,
                   predStore, nextSeq, kind, owner, nonSpec, executing, resched>>

\* MemDepUnit::nonSpecInstReady, called when a non-speculative instruction
\* reaches the head of the ROB: every older instruction of its thread has
\* left the unit, so it is the head of its instList.
NonSpecInstReady(s) ==
    /\ s \in memDepHash \cap nonSpec
    /\ fwdCount[s] = 0
    /\ s = Head(instList[owner[s]])
    /\ MoveToReady({s})
    /\ UNCHANGED <<unitVars, nextSeq, kind, owner, nonSpec, executing, resched>>

\* IQ issue of a ready memory instruction (MemDepUnit::issue only informs
\* PHAST, whose issued() hook is empty).
Issue(s) ==
    /\ ready[s] > 0
    /\ ready'     = [ready EXCEPT ![s] = @ - 1]
    /\ executing' = executing \cup {s}
    /\ UNCHANGED <<unitVars, nextSeq, kind, owner, nonSpec, fwdCount, resched>>

\* MemDepUnit::reschedule: an executing instruction that could not complete
\* (e.g. blocked cache) is put on the replay list.
Reschedule(s) ==
    /\ s \in executing
    /\ resched[s] < MaxResched
    /\ executing'     = executing \ {s}
    /\ instsToReplay' = Append(instsToReplay, s)
    /\ resched'       = [resched EXCEPT ![s] = @ + 1]
    /\ UNCHANGED <<memDepHash, instList, loadBarrierSNs, storeBarrierSNs,
                   memDeps, regsReady, squashed, dependInsts, predicted,
                   predStore, nextSeq, kind, owner, nonSpec, ready, fwdCount>>

\* Mutant of Replay: the entries are not popped from the replay list.
ReplayKeepList ==
    /\ instsToReplay # <<>>
    /\ MoveToReady(ToSet(instsToReplay))
    /\ UNCHANGED <<memDepHash, instList, instsToReplay, loadBarrierSNs, storeBarrierSNs,
                   memDeps, regsReady, squashed, dependInsts, predicted,
                   predStore, nextSeq, kind, owner, nonSpec, executing, resched>>

\* MemDepUnit::replay: every instruction on the replay list is moved to
\* the ready list and the list is emptied.
Replay ==
    /\ instsToReplay # <<>>
    /\ MoveToReady(ToSet(instsToReplay))
    /\ instsToReplay' = <<>>
    /\ UNCHANGED <<memDepHash, instList, loadBarrierSNs, storeBarrierSNs,
                   memDeps, regsReady, squashed, dependInsts, predicted,
                   predStore, nextSeq, kind, owner, nonSpec, executing, resched>>

\* Mutant of HasDependents: barriers are not counted among the producers.
HasDependentsNoBarrier(k) == IsStore(k) \/ IsAtomic(k)

\* Mutant of HasDependents: atomics are not counted among the producers.
HasDependentsNoAtomic(k) ==
    IsStore(k) \/ IsReadBarrier(k) \/ IsWriteBarrier(k) \/ IsHtmCmd(k)

\* The early return of wakeDependents: only stores, atomics and barriers
\* have dependents.
HasDependents(k) ==
    IsStore(k) \/ IsAtomic(k) \/ IsReadBarrier(k) \/ IsWriteBarrier(k) \/ IsHtmCmd(k)

\* The dependents of p whose memDeps reach zero in wakeDependents: the
\* counter is decremented once per occurrence of c in p's list, and the
\* zero test is made after each decrement.
Woken(p) == {c \in ToSet(dependInsts[p]) :
                1 <= memDeps[c] /\ memDeps[c] <= Copies(c, dependInsts[p])}

\* Mutant of ReleasedBy: a squashed dependent is woken as well.
ReleasedBySquashed(p) == {c \in Woken(p) : regsReady[c]}

\* The woken dependents wakeDependents hands to moveToReady.
ReleasedBy(p) == {c \in Woken(p) : regsReady[c] /\ ~squashed[c]}

\* Mutant of Decremented: every reference releases the count twice.
DecrementedTwice(c, list) == memDeps[c] - 2 * Copies(c, list)

\* dependent_inst->memDeps--, once per reference to c in the list.
Decremented(c, list) == memDeps[c] - Copies(c, list)

\* MemDepUnit::wakeDependents(inst) for the completing instruction s.
WakeDependents(s) ==
    LET k      == kind[s]
        list   == IF HasDependents(k) THEN dependInsts[s] ELSE <<>>
        zeroed == IF HasDependents(k) THEN Woken(s) ELSE {}
    IN
    /\ memDeps'   = [c \in Seqs |-> Decremented(c, list)]
    /\ predStore' = [c \in Seqs |->
                       IF c \in zeroed /\ predicted[c] /\ IsStore(k)
                       THEN s ELSE predStore[c]]
    /\ MoveToReady(IF HasDependents(k) THEN ReleasedBy(s) ELSE {})
    /\ dependInsts' = IF HasDependents(k)
                      THEN [dependInsts EXCEPT ![s] = <<>>] ELSE dependInsts

\* Mutant of Completed: the list entry is left behind.
CompletedKeepList(s) ==
    /\ memDepHash' = memDepHash \ {s}
    /\ UNCHANGED instList

\* MemDepUnit::completed: the entry leaves the hash and the thread's list.
Completed(s) ==
    /\ memDepHash' = memDepHash \ {s}
    /\ instList'   = [instList EXCEPT ![owner[s]] = Remove(@, s)]

\* MemDepUnit::completeInst = wakeDependents; completed; then the barrier
\* sets forget the instruction.  Called by the IQ when s has executed.
CompleteInst(s) ==
    LET k == kind[s] IN
    /\ s \in executing
    /\ executing' = executing \ {s}
    /\ WakeDependents(s)
    /\ Completed(s)
    /\ storeBarrierSNs' = IF IsWriteBarrier(k) \/ IsHtmCmd(k)
                          THEN storeBarrierSNs \ {s} ELSE storeBarrierSNs
    /\ loadBarrierSNs'  = IF IsReadBarrier(k) \/ IsHtmCmd(k)
                          THEN loadBarrierSNs \ {s} ELSE loadBarrierSNs
    /\ UNCHANGED <<instsToReplay, regsReady, squashed, predicted,
                   nextSeq, kind, owner, nonSpec, resched>>

\* Length of the prefix of l the tail walk of squash keeps: it pops from
\* the tail while the last element is younger than n.
RECURSIVE KeptLen(_, _)
KeptLen(l, n) == IF l # <<>> /\ Last(l) > n THEN KeptLen(Front(l), n) ELSE Len(l)

\* Mutant of ReplaySquashed: off by one in the seqNum comparison.
ReplaySquashedOffByOne(r, n, t) == owner[r] = t /\ r > n + 1

\* The replay-list entries squash erases.
ReplaySquashed(r, n, t) == owner[r] = t /\ r > n

\* MemDepUnit::squash(squashed_num, tid), together with the IQ dropping the
\* squashed instructions from its ready list and execution.  Only squashes
\* that remove an instruction of the unit are enumerated: any other is a
\* stuttering step.
Squash(n, t) ==
    LET l       == instList[t]
        kept    == SubSeq(l, 1, KeptLen(l, n))
        removed == ToSet(l) \ ToSet(kept)
    IN
    /\ removed # {}
    /\ instsToReplay'   = SelectSeq(instsToReplay,
                              LAMBDA r : ~ReplaySquashed(r, n, t))
    /\ loadBarrierSNs'  = loadBarrierSNs \ removed
    /\ storeBarrierSNs' = storeBarrierSNs \ removed
    /\ squashed'   = [s \in Seqs |-> squashed[s] \/ s \in removed]
    /\ memDepHash' = memDepHash \ removed
    /\ instList'   = [instList EXCEPT ![t] = kept]
    /\ ready'      = [s \in Seqs |-> IF s \in removed THEN 0 ELSE ready[s]]
    /\ executing'  = executing \ removed
    /\ UNCHANGED <<memDeps, regsReady, dependInsts, predicted, predStore,
                   nextSeq, kind, owner, nonSpec, fwdCount, resched>>

\* MemDepUnit::isDrained.
IsDrained ==
    /\ instsToReplay = <<>>
    /\ memDepHash = {}
    /\ \A t \in Threads : instList[t] = <<>>

\* MemDepUnit::takeOverFrom, after the CPU has drained: the barrier sets
\* are reset (and the predictor cleared, see SimplBlockCache).
TakeOverFrom ==
    /\ IsDrained
    /\ loadBarrierSNs'  = {}
    /\ storeBarrierSNs' = {}
    /\ UNCHANGED <<memDepHash, instList, instsToReplay, memDeps, regsReady,
                   squashed, dependInsts, predicted, predStore, envVars>>

-----------------------------------------------------------------------------

Init ==
    /\ nextSeq = 1
    /\ kind    = [s \in Seqs |-> None]
    /\ owner   = [s \in Seqs |-> None]
    /\ nonSpec = {}
    /\ memDepHash    = {}
    /\ instList      = [t \in Threads |-> <<>>]
    /\ instsToReplay = <<>>
    /\ loadBarrierSNs  = {}
    /\ storeBarrierSNs = {}
    /\ memDeps     = [s \in Seqs |-> 0]
    /\ regsReady   = [s \in Seqs |-> FALSE]
    /\ squashed    = [s \in Seqs |-> FALSE]
    /\ dependInsts = [s \in Seqs |-> <<>>]
    /\ predicted   = [s \in Seqs |-> FALSE]
    /\ predStore   = [s \in Seqs |-> 0]
    /\ ready       = [s \in Seqs |-> 0]
    /\ executing   = {}
    /\ fwdCount    = [s \in Seqs |-> 0]
    /\ resched     = [s \in Seqs |-> 0]

Next ==
    \/ \E t \in Threads, k \in MemKinds, rdy \in BOOLEAN :
          \E pred \in PredCandidates(nextSeq, k, t) : Insert(nextSeq, k, t, rdy, pred)
    \/ \E t \in Threads, k \in MemKinds : InsertNonSpec(nextSeq, k, t)
    \/ \E t \in Threads, k \in BarrierKinds : InsertBarrier(nextSeq, k, t)
    \/ \E s \in Seqs : RegsReady(s)
    \/ \E s \in Seqs : NonSpecInstReady(s)
    \/ \E s \in Seqs : Issue(s)
    \/ \E s \in Seqs : Reschedule(s)
    \/ Replay
    \/ \E s \in Seqs : CompleteInst(s)
    \/ \E t \in Threads, n \in 0..(nextSeq - 1) : Squash(n, t)
    \/ TakeOverFrom

\* The pipeline eventually delivers every register operand, issues every
\* ready instruction, signals every non-speculative instruction at the ROB
\* head, replays the replay list, and completes every executing
\* instruction (strongly: a reschedule may interrupt execution, but only
\* MaxResched times).
Fairness ==
    /\ \A s \in Seqs : WF_vars(RegsReady(s))
    /\ \A s \in Seqs : WF_vars(NonSpecInstReady(s))
    /\ \A s \in Seqs : WF_vars(Issue(s))
    /\ \A s \in Seqs : SF_vars(CompleteInst(s))
    /\ WF_vars(Replay)

Spec == Init /\ [][Next]_vars /\ Fairness

-----------------------------------------------------------------------------
(* Properties.                                                            *)

TypeOK ==
    /\ nextSeq \in 1..(MaxSeq + 1)
    /\ kind  \in [Seqs -> AllMemKinds \cup AllBarrierKinds \cup {None}]
    /\ owner \in [Seqs -> Threads \cup {None}]
    /\ nonSpec \subseteq Seqs
    /\ memDepHash \subseteq Seqs
    /\ instList \in [Threads -> Seq(Seqs)]
    /\ instsToReplay \in Seq(Seqs)
    /\ loadBarrierSNs \subseteq Seqs /\ storeBarrierSNs \subseteq Seqs
    /\ memDeps \in [Seqs -> Nat]
    /\ regsReady \in [Seqs -> BOOLEAN] /\ squashed \in [Seqs -> BOOLEAN]
    /\ dependInsts \in [Seqs -> Seq(Seqs)]
    /\ predicted \in [Seqs -> BOOLEAN] /\ predStore \in [Seqs -> 0..MaxSeq]
    /\ ready \in [Seqs -> Nat] /\ executing \subseteq Seqs
    /\ fwdCount \in [Seqs -> Nat] /\ resched \in [Seqs -> 0..MaxResched]

\* The hash and the per-thread lists that squash walks describe the same
\* instructions: every key of memDepHash is on its own thread's list
\* exactly once, every list entry has a hash entry (squash and completed
\* assert it), and each list is in strictly ascending seqNum order, which
\* the tail walk of squash relies on.
ListMatchesHash ==
    /\ memDepHash = UNION {ToSet(instList[t]) : t \in Threads}
    /\ \A t \in Threads : \A i \in DOMAIN instList[t] :
          /\ owner[instList[t][i]] = t
          /\ \A j \in DOMAIN instList[t] : i < j => instList[t][i] < instList[t][j]

\* The barrier sets hold exactly the live barriers: a barrier leaves its set
\* when it completes or is squashed, so loads and stores never wait on a
\* barrier that is gone, and completeInst's assertion that the set is not
\* empty holds.
BarrierSetsExact ==
    /\ loadBarrierSNs  = {s \in memDepHash : IsReadBarrier(kind[s]) \/ IsHtmCmd(kind[s])}
    /\ storeBarrierSNs = {s \in memDepHash : IsWriteBarrier(kind[s]) \/ IsHtmCmd(kind[s])}

\* Every live entry's memDeps counts exactly the references to it still held
\* in the dependInsts lists of live producers (insert's count, the wake-up
\* decrements of completeInst and the entries squash drops must agree), so
\* an instruction waits exactly as long as a producer can still wake it.
DepCountExact ==
    \A c \in memDepHash :
        memDeps[c] = SumFunction([p \in memDepHash |-> Copies(c, dependInsts[p])])

\* The IQ calls back only with instructions the unit still tracks: every
\* instruction on the replay list and every executing one has a hash entry,
\* so the findInHash assertion in replay and the one in completed hold.
CallbacksFindEntry ==
    /\ ToSet(instsToReplay) \subseteq memDepHash
    /\ executing \subseteq memDepHash

\* Memory consistency with barriers: a speculatively inserted load or
\* atomic that has been released to the IQ is younger than every live load
\* barrier, and a released store or atomic is younger than every live store
\* barrier.
Released(s) == ready[s] > 0 \/ s \in executing \/ s \in ToSet(instsToReplay)

BarrierOrder ==
    \A s \in memDepHash \ nonSpec : Released(s) =>
        /\ IsLoad(kind[s]) \/ IsAtomic(kind[s]) => \A b \in loadBarrierSNs : s < b
        /\ IsStore(kind[s]) \/ IsAtomic(kind[s]) => \A b \in storeBarrierSNs : s < b

\* insert, regsReady and wakeDependents together hand an instruction to the
\* IQ at most once: it is never on the ready list twice, nor on it while
\* executing or waiting for replay.
NoDoubleForward ==
    \A s \in Seqs :
        ready[s] + (IF s \in executing THEN 1 ELSE 0)
                 + Len(SelectSeq(instsToReplay, LAMBDA r : r = s)) <= 1

\* A step that hands s to the IQ other than through replay or
\* nonSpecInstReady does so only once all its memory dependencies are
\* resolved and its registers are ready, and never for a squashed entry
\* (the assertion in moveToReady).
ForwardOnlyWhenResolved ==
    [][\A s \in Seqs :
         fwdCount'[s] > fwdCount[s] =>
            /\ ~squashed'[s]
            /\ s \notin ToSet(instsToReplay) /\ s \notin nonSpec
               => memDeps'[s] = 0 /\ regsReady'[s]]_vars

\* Every instruction inserted into the unit eventually leaves it, by
\* completing or by being squashed: no dependency is left that nobody will
\* ever wake.
EveryInstLeaves ==
    \A s \in Seqs : (s \in memDepHash) ~> (s \notin memDepHash)

\* The CPU drains by waiting for isDrained: once no more instructions are
\* inserted, the replay list, the hash and every thread's list empty out
\* and stay empty, so a drain started at any point completes.
EventuallyDrained == <>[]IsDrained

\* The predicted-store address a load carries to commit (memDepInfo.
\* predStoreAddr, compared with the load's address by PHAST::commit) is
\* recorded before the load is released: a predicted load released to the
\* IQ knows which store it waited for.
PredictedStoreRecorded ==
    \A s \in memDepHash \ nonSpec :
        (predicted[s] /\ Released(s)) => predStore[s] # 0

=============================================================================
