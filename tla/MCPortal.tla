------------------------------ MODULE MCPortal ------------------------------
EXTENDS Portal, TLC

MCSpent == [a \in DOMAIN Menu |-> IF a = "merging" THEN 1 ELSE 2]

Symmetric == Permutations(Entities) \cup Permutations(Types) \cup Permutations(Convs)
               \cup Permutations(Invoices)
=============================================================================
