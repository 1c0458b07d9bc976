----------------------------- MODULE MCMacTools -----------------------------
(***************************************************************************)
(* MacTools with a factory image and two releases, the second newer.       *)
(***************************************************************************)
EXTENDS MacTools, TLC

CONSTANTS factory, r1, r2

MCVersionOf == [r \in Release |-> IF r = factory THEN 1 ELSE IF r = r1 THEN 2 ELSE 3]
MCTools == Permutations(Tool)
=============================================================================
