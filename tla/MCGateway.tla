----------------------------- MODULE MCGateway -----------------------------
(* Instances of Gateway for TLC. *)
EXTENDS Gateway, TLC

CONSTANTS n1, n2, b1, b2

OneSlot == [n \in Nodes |-> [r \in Resources |-> 1]]
OneChoice == {[r \in Resources |-> 1]}
OneOrTwo == {[r \in Resources |-> l] : l \in 1 .. 2}
\* b1 is an "auto" render (both pools), b2 an "openmp" render (cpu only).
MCNeeds == [b \in Bodies |-> IF b = b1 THEN {"cpu", "gpu"} ELSE {"cpu"}]
AllSupported == [n \in Nodes |-> Bodies]
NothingRejected == [n \in Nodes |-> {}]
RejectB2 == [n \in Nodes |-> Bodies \cap {b2}]
AllEnabled == [n \in Nodes |-> TRUE]

Interchangeable == {w @@ n : w \in Permutations(Workers), n \in Permutations(Nodes)}
=============================================================================
