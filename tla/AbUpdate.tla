------------------------------ MODULE AbUpdate ------------------------------
(***************************************************************************)
(* What an A/B update promises: there is always one good image, a newer    *)
(* one may be on trial, and a trial is either adopted for good or leaves   *)
(* nothing behind.                                                         *)
(***************************************************************************)
EXTENDS Integers

CONSTANTS Image, Factory, Version, None

VARIABLES
    good,       \* the image the device returns to
    trial       \* the image that boots next, if it is not the good one

Init == good = Factory /\ trial = None

Offer(image) ==
    /\ trial = None
    /\ Version[image] > Version[good]
    /\ trial' = image
    /\ UNCHANGED good

Adopt ==
    /\ trial # None
    /\ good' = trial
    /\ trial' = None

Withdraw ==
    /\ trial # None
    /\ trial' = None
    /\ UNCHANGED good

Next == Adopt \/ Withdraw \/ \E image \in Image : Offer(image)

Spec == Init /\ [][Next]_<<good, trial>>
=============================================================================
