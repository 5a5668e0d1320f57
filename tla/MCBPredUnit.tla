------------------------------ MODULE MCBPredUnit ------------------------------
(* The prediction unit over the ITTAGE instance of MCITTAGE.              *)
EXTENDS BPredUnit

MCTableSizes   == <<4, 4>>
MCHistLengths  == <<2, 3>>
MCTagBits      == <<1, 1>>
MCPcShifts     == <<0, 0>>
====
