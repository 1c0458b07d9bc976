------------------------------- MODULE OneShot -------------------------------
(***************************************************************************)
(* What both deployment tools promise: what is to be done is recorded      *)
(* before the device is touched, one image is sent once, and while it is   *)
(* not known what became of it nothing else is sent.                       *)
(***************************************************************************)
EXTENDS Integers

CONSTANTS Release, None

VARIABLES
    target,         \* the release that is being deployed, or None
    sent            \* release -> how often its image was sent

Init == target = None /\ sent = [r \in Release |-> 0]

Intend(r) ==
    /\ target = None
    /\ target' = r
    /\ UNCHANGED sent

Upload ==
    /\ target # None /\ sent[target] = 0
    /\ sent' = [sent EXCEPT ![target] = 1]
    /\ UNCHANGED target

\* The outcome is known to be good; an uncertain one stays for ever.
Resolve ==
    /\ target # None /\ sent[target] = 1
    /\ target' = None
    /\ UNCHANGED sent

Next == Upload \/ Resolve \/ \E r \in Release : Intend(r)

Spec == Init /\ [][Next]_<<target, sent>>
=============================================================================
