---------------------------- MODULE AssociativeBTB ----------------------------
(***************************************************************************)
(* The set-associative branch target buffer                                *)
(* (src/gem5/src/cpu/pred/associative_btb.cc, .hh).  btb[set][way] is a   *)
(* BTBEntry { valid, tag, tid, target }; the pc and inst fields are        *)
(* payload (pc only feeds the conflict statistic, inst is returned with    *)
(* the entry getInst finds, as the target is by lookup).                   *)
(*                                                                         *)
(* The replacement policy is injected (replacement_policy::Base) and its   *)
(* code is not in the repository: getVictim may return any way of the set,*)
(* so every property checked here holds for every policy.  touch and      *)
(* reset only change the policy's own data and are not modelled.          *)
(* answer is the last lookup and what it returned, kept for the refinement*)
(***************************************************************************)
EXTENDS Integers, Bitwise

CONSTANTS
    NumEntries,     \* numEntries
    Assoc,          \* assoc
    TagBits,        \* tagBits
    InstShiftAmt,   \* instShiftAmt
    NumThreads,     \* numThreads
    PCs,            \* branch PCs
    Targets,        \* branch targets
    NoTarget        \* nullptr: no entry found

RECURSIVE FloorLog2(_)
FloorLog2(n) == IF n <= 1 THEN 0 ELSE 1 + FloorLog2(n \div 2)

NumSets        == NumEntries \div Assoc
Log2NumThreads == FloorLog2(NumThreads)
TagShiftAmt    == InstShiftAmt + FloorLog2(NumSets)

\* numSets is a power of two (the constructor calls fatal otherwise); the
\* tid shift amount tagShiftAmt - instShiftAmt - log2NumThreads is an
\* unsigned subtraction, and the model stays where it does not wrap.
ASSUME /\ NumSets \in {2^k : k \in 0..8} /\ Assoc \in Nat \ {0}
       /\ NumThreads \in Nat \ {0} /\ Log2NumThreads <= FloorLog2(NumSets)
       /\ NoTarget \notin Targets

Sets    == 0..(NumSets - 1)
Ways    == 0..(Assoc - 1)
Threads == 0..(NumThreads - 1)

BTBEntry == [valid : BOOLEAN, tag : 0..(2^TagBits - 1), tid : Threads,
             target : Targets \cup {NoTarget}]

\* An invalid entry.  findEntry tests valid before anything else and
\* updateEntry writes every field, so what an invalid entry still holds is
\* never read: all invalid entries are this one value.
InvalidEntry == [valid |-> FALSE, tag |-> 0, tid |-> 0, target |-> NoTarget]

VARIABLES btb, answer

vars == <<btb, answer>>

-----------------------------------------------------------------------------
(* Index, tag and search.                                                 *)

\* AssociativeBTB::getIndex: the word address xor the thread id shifted
\* to the top log2NumThreads bits of the index, masked by idxMask.
GetIndex(pc, tid) ==
    (shiftR(pc, InstShiftAmt)
        ^^ (tid * 2^(TagShiftAmt - InstShiftAmt - Log2NumThreads))) % NumSets

\* Mutant of GetTag: tagMask is not applied.
GetTagNoMask(pc) == shiftR(pc, TagShiftAmt)

\* AssociativeBTB::getTag.
GetTag(pc) == shiftR(pc, TagShiftAmt) % 2^TagBits

\* The index and tag of every branch, computed once (constant tables).
Index == [p \in PCs, t \in Threads |-> GetIndex(p, t)]
Tag   == [p \in PCs |-> GetTag(p)]

\* Mutant of FindWay: the thread id of the entry is not compared.
FindWayAnyThread(pc, tid) ==
    LET set == Index[pc, tid]
        hit(w) == btb[set][w].valid /\ btb[set][w].tag = Tag[pc]
    IN  IF \E w \in Ways : hit(w)
        THEN CHOOSE w \in Ways : hit(w) /\ \A v \in Ways : v < w => ~hit(v)
        ELSE -1

\* AssociativeBTB::findEntry: the first way of the set that is valid and
\* holds the tag and the thread id, -1 for nullptr.
FindWay(pc, tid) ==
    LET set == Index[pc, tid]
        hit(w) == btb[set][w].valid /\ btb[set][w].tag = Tag[pc]
                  /\ btb[set][w].tid = tid
    IN  IF \E w \in Ways : hit(w)
        THEN CHOOSE w \in Ways : hit(w) /\ \A v \in Ways : v < w => ~hit(v)
        ELSE -1

\* AssociativeBTB::valid.
Valid(tid, pc) == FindWay(pc, tid) # -1

\* AssociativeBTB::lookup: the target of the entry found, or nullptr.
LookupTarget(tid, pc) ==
    IF FindWay(pc, tid) = -1 THEN NoTarget
    ELSE btb[Index[pc, tid]][FindWay(pc, tid)].target

\* Mutant of UpdateWays: the entry findEntry found is ignored and a victim
\* is always taken.
UpdateWaysAlwaysEvict(tid, pc) == Ways

\* The ways updateEntry may write: the entry update found, else any
\* candidate getVictim may return.
UpdateWays(tid, pc) ==
    IF FindWay(pc, tid) # -1 THEN {FindWay(pc, tid)} ELSE Ways

-----------------------------------------------------------------------------
(* Operations.                                                            *)

\* AssociativeBTB::lookup (rp->touch is policy data).
Lookup(tid, pc) ==
    /\ answer' = [tid |-> tid, pc |-> pc, target |-> LookupTarget(tid, pc)]
    /\ UNCHANGED btb

\* AssociativeBTB::update = findEntry, then updateEntry: the entry found,
\* or the victim of the set, gets tag, target and tid and becomes valid.
Update(tid, pc, target) ==
    \E way \in UpdateWays(tid, pc) :
        /\ btb' = [btb EXCEPT ![Index[pc, tid]][way] =
                      [valid |-> TRUE, tag |-> Tag[pc], tid |-> tid, target |-> target]]
        /\ UNCHANGED answer

\* AssociativeBTB::memInvalidate: every entry invalid (and its policy
\* data reset).
MemInvalidate ==
    /\ btb' = [s \in Sets |-> [w \in Ways |-> InvalidEntry]]
    /\ UNCHANGED answer

\* The constructor: every entry invalid (its uninitialised tid is never
\* read).
Init ==
    /\ btb = [s \in Sets |-> [w \in Ways |-> InvalidEntry]]
    /\ answer = [tid |-> NoTarget, pc |-> NoTarget, target |-> NoTarget]

Next ==
    \/ \E tid \in Threads, pc \in PCs : Lookup(tid, pc)
    \/ \E tid \in Threads, pc \in PCs, t \in Targets : Update(tid, pc, t)
    \/ MemInvalidate

Spec == Init /\ [][Next]_vars

-----------------------------------------------------------------------------
(* Properties.                                                            *)

TypeOK ==
    /\ btb \in [Sets -> [Ways -> BTBEntry]]
    /\ answer \in [tid : Threads \cup {NoTarget}, pc : PCs \cup {NoTarget},
                   target : Targets \cup {NoTarget}]

\* update installs a branch only when findEntry misses, so no set ever
\* holds two valid entries of one thread with one tag: findEntry's
\* first-match would otherwise answer from a stale copy.
NoDuplicateKeys ==
    \A s \in Sets, v, w \in Ways :
        /\ v # w /\ btb[s][v].valid /\ btb[s][w].valid
        /\ btb[s][v].tid = btb[s][w].tid
        => btb[s][v].tag # btb[s][w].tag

\* The key a branch of thread tid at pc is stored under.
BTBKey(tid, pc) == <<tid, Index[pc, tid], Tag[pc]>>

\* Every key of the branches modelled.
KeySet == {BTBKey(t, pc) : t \in Threads, pc \in PCs}

\* The target the BTB holds for a key: that of the valid entry of the
\* key's set with its tag and thread.
Held(k) ==
    LET hit(w) == btb[k[2]][w].valid /\ btb[k[2]][w].tag = k[3] /\ btb[k[2]][w].tid = k[1]
    IN  IF \E w \in Ways : hit(w)
        THEN btb[k[2]][CHOOSE w \in Ways : hit(w) /\ \A v \in Ways : v < w => ~hit(v)].target
        ELSE NoTarget

Abstract == INSTANCE BTBMap
    WITH Threads <- Threads, PCs <- PCs, Targets <- Targets, NoTarget <- NoTarget,
         Keys <- KeySet,
         Capacity <- Assoc, Key <- BTBKey, Group <- LAMBDA k : k[2],
         map <- [k \in KeySet |-> Held(k)],
         answer <- answer

\* The BTB implements the tagged map: lookup returns the last target
\* update installed for the branch's (thread, set, tag), or nullptr once
\* it has been evicted or invalidated, and update displaces at most one
\* other branch of its set, none when the branch was present.
BTBImplementsMap == Abstract!Spec

====
