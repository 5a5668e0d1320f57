------------------------------- MODULE MCITTAGE -------------------------------
(* ITTAGE with two tagged tables of four entries (ceilLog2 = 2, the       *)
(* smallest size whose getCSR1 loop ends), history lengths 2 and 3 (so   *)
(* table 1 runs getCSR1's loop twice and getCSR2's once), one-bit tags, a *)
(* two-entry base predictor and a path length of one.  The cfgs take the  *)
(* indirect PC 513 = 2^9 + 1, whose getAddrFold has two non-zero slices.  *)
EXTENDS ITTAGE

MCTableSizes   == <<4, 4>>
MCHistLengths  == <<2, 3>>
MCTagBits      == <<1, 1>>
MCPcShifts     == <<0, 0>>
====
