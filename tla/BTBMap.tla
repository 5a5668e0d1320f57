-------------------------------- MODULE BTBMap --------------------------------
(***************************************************************************)
(* What a branch target buffer promises, independent of its layout and    *)
(* replacement policy: a map from the key a branch is stored under to its *)
(* last installed target.  Keys are grouped; at most Capacity keys of a   *)
(* group are held at once, and installing a key may drop at most one      *)
(* other key of its group.  A lookup answers with the target held for its *)
(* key, or NoTarget.                                                       *)
(*                                                                         *)
(* Key(tid, pc) and Group(k) are parameters: the associative BTB stores a *)
(* branch under (tid, set, tag), so branches that share all three alias.  *)
(***************************************************************************)
EXTENDS Naturals, FiniteSets

CONSTANTS
    Threads, PCs, Targets,
    Keys,         \* the keys branches are stored under
    NoTarget,     \* the answer of a miss
    Capacity,     \* keys one group can hold
    Key(_, _),    \* Key(tid, pc)
    Group(_)      \* the group a key competes in

VARIABLES
    map,      \* map[k]: the target held for key k, or NoTarget
    answer    \* the last lookup: its thread, pc and the target answered

vars == <<map, answer>>

ASSUME \A t \in Threads, pc \in PCs : Key(t, pc) \in Keys

Live(m, g) == {k \in Keys : Group(k) = g /\ m[k] # NoTarget}

Init ==
    /\ map = [k \in Keys |-> NoTarget]
    /\ answer = [tid |-> NoTarget, pc |-> NoTarget, target |-> NoTarget]

\* Install tgt under the key of (t, pc).  Every other key keeps its target
\* or is dropped; a new key may displace one other key of its group, a
\* present one displaces nothing, and the group stays within Capacity.
Update(t, pc, tgt) ==
    LET k   == Key(t, pc)
        old == map
        new == map'
        dropped == {j \in Keys \ {k} : old[j] # new[j]}
    IN  /\ UNCHANGED answer
        /\ new \in [Keys -> Targets \cup {NoTarget}]
        /\ new[k] = tgt
        /\ \A j \in dropped : Group(j) = Group(k) /\ new[j] = NoTarget
        /\ Cardinality(dropped) <= 1
        /\ old[k] # NoTarget => dropped = {}
        /\ Cardinality(Live(new, Group(k))) <= Capacity

Lookup(t, pc) ==
    /\ answer' = [tid |-> t, pc |-> pc, target |-> map[Key(t, pc)]]
    /\ UNCHANGED map

Invalidate ==
    /\ UNCHANGED answer
    /\ map' = [k \in Keys |-> NoTarget]

Next ==
    \/ \E t \in Threads, pc \in PCs, tgt \in Targets : Update(t, pc, tgt)
    \/ \E t \in Threads, pc \in PCs : Lookup(t, pc)
    \/ Invalidate

Spec == Init /\ [][Next]_vars

====
