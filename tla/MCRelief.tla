------------------------------ MODULE MCRelief ------------------------------
EXTENDS Relief, TLC

CONSTANT r   \* the request for more than a warehouse holds

MCRequested == [x \in Requests |-> IF x = r THEN 2 ELSE 1]
MCStock == [w \in Warehouses |-> 1]

\* Nothing reads the review of a request that is approved.
View ==
    <<[x \in Requests |-> review[x] /\ approval[x] # "approved"], approval, stage,
      allocation, moves, delivered, onHand, blind, short, edited, edits>>

Swaps == Permutations(Warehouses)

=============================================================================
