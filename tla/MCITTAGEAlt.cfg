\* ITTAGE with the constants of MCBPredUnit.cfg, checked against one documented behaviour (AltIsSecondHit).
CONSTANTS
    NumPredictors = 2
    TableSizes <- MCTableSizes
    HistLengths <- MCHistLengths
    TTagBitSizes <- MCTagBits
    TTagPcShifts <- MCPcShifts
    SimpleBTBSize = 2
    PathLength = 1
    PCs = {513, 2}
    IndirectPCs = {513}
    Targets = {4, 6}
    NoTarget = NoTarget
    MaxSeq = 4
SPECIFICATION Spec
INVARIANT AltIsSecondHit
CHECK_DEADLOCK FALSE
