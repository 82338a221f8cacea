--------------------------------- MODULE Fund ---------------------------------
(***************************************************************************)
(* What the fund of a program promises (check_fund_balance and the posted  *)
(* rows of spp.program.fund): entitlements are charged to it only as far   *)
(* as what is posted and not charged yet covers them all.                  *)
(***************************************************************************)
EXTENDS Integers, FiniteSetsExt

CONSTANTS
    Entitlements,
    Amount          \* initial_amount of each

VARIABLES
    posted,         \* sum of the posted funds
    charged         \* entitlements that count against it

Cost(S) == MapThenSumSet(LAMBDA e : Amount[e], S)

Init == posted \in Nat /\ charged = {}

Post == posted' \in Nat /\ posted' > posted /\ UNCHANGED charged

Charge ==
    \E S \in SUBSET (Entitlements \ charged) :
        /\ S # {}
        /\ Cost(charged \cup S) <= posted
        /\ charged' = charged \cup S
        /\ UNCHANGED posted

\* An entitlement that expires or is cancelled counts no longer.
Release == charged' \in SUBSET charged /\ UNCHANGED posted

Next == Post \/ Charge \/ Release
Spec == Init /\ [][Next]_<<posted, charged>>
===============================================================================
