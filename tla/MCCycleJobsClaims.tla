-------------------------- MODULE MCCycleJobsClaims --------------------------
(***************************************************************************)
(* What the release notes of spp_programs say of the jobs that issue       *)
(* payments, and the handlers of CycleJobs do not do.                      *)
(***************************************************************************)
EXTENDS MCCycleJobs

\* "Add identity_key to async job dispatchers to prevent duplicate submission
\* on double-click": an entitlement gets one payment.
PaidOnce == \A b \in Beneficiaries : paid[b] <= 1
=============================================================================
