------------------------------- MODULE MCPHAST -------------------------------
(* PHAST instantiated for TLC: branch histories of up to MaxHist branches  *)
(* whose seqNums lie around the load (LoadSeq) and the possible stores.   *)
EXTENDS PHAST

CONSTANTS MaxHist, BranchSeqs

\* historySizes as the PHAST constructor assigns it.
MCHistorySizes == <<0, 2, 4, 6, 8, 12, 16, 32>>

\* A direct branch (taken or not, target 0) or a taken indirect one.
BranchRecs ==
    {[seq |-> s, target |-> 0, taken |-> k, indirect |-> FALSE] : s \in BranchSeqs, k \in BOOLEAN}
    \cup {[seq |-> s, target |-> 1, taken |-> TRUE, indirect |-> TRUE] : s \in BranchSeqs}

\* Youngest-first histories: strictly decreasing seqNums.
MCHistories ==
    {bh \in UNION {[1..n -> BranchRecs] : n \in 0..MaxHist} :
        \A k \in 1..(Len(bh) - 1) : bh[k].seq > bh[k + 1].seq}

====
