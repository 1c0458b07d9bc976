---------------------------- MODULE MCOtaDevice ----------------------------
(***************************************************************************)
(* OtaDevice with a factory image, a newer image, another build with the   *)
(* same version number, and one that is newer still.                       *)
(***************************************************************************)
EXTENDS OtaDevice

CONSTANTS factory, a, b, c

MCVersion == [i \in Image |-> IF i = factory THEN 1 ELSE IF i = c THEN 3 ELSE 2]
=============================================================================
