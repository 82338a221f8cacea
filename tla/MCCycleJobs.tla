------------------------------ MODULE MCCycleJobs ------------------------------
(* Instances of CycleJobs for TLC: entitlements of equal amounts, a fund that *)
(* covers one of two.                                                         *)
EXTENDS CycleJobs, TLC

MCAmount == [b \in Beneficiaries |-> 1]
MCSlots == {1, 2}
MCSymmetry == Permutations(Beneficiaries) \cup Permutations(Workers)
=============================================================================
