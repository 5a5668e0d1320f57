\* 2 sets of 2 ways, 2 threads, 1 tag bit.  Thread 0 stores 0 and 8 under
\* one key (they alias) and 4 in the same set with the other tag; thread 1
\* stores 2 in that set too, so three keys compete for two ways; 8's
\* unmasked tag is 2.
CONSTANTS
    NumEntries = 4
    Assoc = 2
    TagBits = 1
    InstShiftAmt = 1
    NumThreads = 2
    PCs = {0, 2, 4, 8}
    Targets = {t1, t2}
    NoTarget = NoTarget
SYMMETRY TargetSymmetry
SPECIFICATION Spec
INVARIANTS TypeOK NoDuplicateKeys
PROPERTY BTBImplementsMap
