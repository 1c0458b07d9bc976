-------------------------- MODULE ConfigLifecycle --------------------------
(***************************************************************************)
(* What the configuration store promises across power cuts and failing     *)
(* flash operations: one network setting that is absent, on trial or       *)
(* adopted, changed by four atomic transitions, and a revision counter     *)
(* that only a reset rewinds.                                              *)
(***************************************************************************)
EXTENDS Integers

CONSTANTS Cred, MaxRevision

VARIABLES
    setting,    \* the setting the next boot would find
    issued      \* the last revision given to a record

Unset == [phase |-> "None"]
InPhase(p, rec) == [phase |-> p, rec |-> rec]

Init == setting = Unset /\ issued = 0

\* A record is saved under a fresh revision; nothing refers to it yet.
Issue ==
    /\ setting = Unset
    /\ issued < MaxRevision
    /\ issued' = issued + 1
    /\ UNCHANGED setting

\* The record saved last goes on trial.
Try(cred) ==
    /\ setting = Unset
    /\ issued > 0
    /\ setting' = InPhase("Trial", [rev |-> issued, cred |-> cred])
    /\ UNCHANGED issued

Adopt ==
    /\ setting.phase = "Trial"
    /\ setting' = InPhase("Active", setting.rec)
    /\ UNCHANGED issued

Withdraw ==
    /\ setting.phase = "Trial"
    /\ setting' = Unset
    /\ UNCHANGED issued

Reset ==
    /\ setting' = Unset
    /\ issued' = 0

Next ==
    \/ Issue
    \/ \E cred \in Cred : Try(cred)
    \/ Adopt
    \/ Withdraw
    \/ Reset

Spec == Init /\ [][Next]_<<setting, issued>>
=============================================================================
