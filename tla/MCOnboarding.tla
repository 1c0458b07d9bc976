---------------------------- MODULE MCOnboarding ----------------------------
(***************************************************************************)
(* Onboarding with one credential and one installation key, on a clock     *)
(* that wraps around soon after the longest deadline it must measure.      *)
(***************************************************************************)
EXTENDS Onboarding

\* A deadline is met within one turn of the loop; the clock must not have
\* come around by then.
ASSUME TrialMs + MaxDelay < ClockSize
=============================================================================
