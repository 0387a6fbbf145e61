----------------------------- MODULE MCSmartPtr -----------------------------
(* Values for the constants of SmartPtr: variables shared by threads, and  *)
(* list nodes c1 and c2 whose member slots point at another object.        *)
EXTENDS SmartPtr, TLC

CONSTANTS t1, t2, a, b, m1, m2, c1, c2, c3, c4, c5

Nodes == [c \in Cell |-> IF c = c1 /\ m1 \in Slot THEN m1
                         ELSE IF c = c2 /\ m2 \in Slot THEN m2 ELSE None]

NodeSymmetry == Permutations({c3, c4, c5})
=============================================================================
