----------------------------- MODULE PathTableMap -----------------------------
(***************************************************************************)
(* What one PHAST path table promises to the predictor, independent of    *)
(* its ways and its LRU stamps: for every (set, tag) key, the store       *)
(* distance a lookup answers, 0 meaning no prediction.                    *)
(*   - training a key with a distance makes the key answer that distance, *)
(*     and may silence at most one other key of the same set (the one it *)
(*     displaces); a set answers for at most Ways keys at once;           *)
(*   - a commit-time confidence update can only silence its own key;      *)
(*   - a lookup changes nothing a later lookup answers;                   *)
(*   - clearing silences every key.                                       *)
(***************************************************************************)
EXTENDS Naturals, FiniteSets

CONSTANTS
    Sets,        \* the set indices
    Tags,        \* the tags a key carries within its set
    Distances,   \* the distances a key is trained with
    Ways         \* how many keys of one set can answer at once

VARIABLE answer   \* answer[s][t]: the distance key (s, t) predicts, or 0

Silent == [s \in Sets |-> [t \in Tags |-> 0]]

\* The keys of set s that give a prediction in the answers a.
Answering(a, s) == {t \in Tags : a[s][t] # 0}

Init == answer = Silent

(* Each step is a relation between the answers before (old) and after   *)
(* (new) it.                                                            *)

\* Key (s, t) is trained with distance d; the displaced key, if any, is
\* some other key e of the same set (e = t when nothing is displaced).
Train(old, new, s, t, d) ==
    /\ new[s][t] = d
    /\ \E e \in Tags : new = [old EXCEPT ![s][e] = 0, ![s][t] = d]
    /\ Cardinality(Answering(new, s)) <= Ways

\* Key (s, t) loses its confidence and stops predicting.
Silence(old, new, s, t) == new[s][t] = 0 /\ new = [old EXCEPT ![s][t] = 0]

Clear(new) == new = Silent

Step(old, new) ==
    \/ \E s \in Sets, t \in Tags, d \in Distances : Train(old, new, s, t, d)
    \/ \E s \in Sets, t \in Tags : Silence(old, new, s, t)
    \/ Clear(new)

Next == LET old == answer
            new == answer'
        IN  Step(old, new)

Spec == Init /\ [][Next]_answer

====
