------------------------------ MODULE MacTools ------------------------------
(***************************************************************************)
(* The deployment tools on the Mac and the device they share.  Every       *)
(* process runs one of the two programs; controllers share the state file  *)
(* and its lock, remote tools the fence, and all of them the device.       *)
(***************************************************************************)
EXTENDS BridgeDevice

CONSTANTS
    CarefulOperator,    \* the fence is archived only while no tool runs
    MaxArchives         \* bound: fences an operator archives

ASSUME OperatorConstants == CarefulOperator \in BOOLEAN /\ MaxArchives \in Nat

VARIABLES lock, file, sent, fence, delivered, archives

C == INSTANCE Controller
R == INSTANCE RemoteTool

ASSUME NoRecordIsNone == None \notin C!Record \cup R!Fence \cup {R!Torn}

vars == <<device, network, processes, lock, file, sent, fence, delivered, archives>>

MacToolsInit == DeviceInit /\ C!ControllerInit /\ R!RemoteInit

Controls(p) ==
    program[p] = "controller" /\ C!ControllerStep(p) /\ UNCHANGED <<fence, delivered, archives>>
Remotes(p) ==
    program[p] = "remote" /\ R!RemoteStep(p) /\ UNCHANGED <<lock, file, sent>>

MacToolsNext ==
    \/ DeviceNext /\ UNCHANGED <<processes, lock, file, sent, fence, delivered, archives>>
    \/ \E p \in Tool : Controls(p) \/ Remotes(p)
    \/ R!Archive /\ UNCHANGED <<lock, file, sent>>

\* A process keeps running, its deadline of 45 s is on a clock that keeps
\* running, and an operator runs an interrupted deployment again.
Fairness ==
    \A p \in Tool :
        /\ WF_vars(Controls(p) /\ pc[p] # "idle" /\ crashes' = crashes)
        /\ SF_vars(Controls(p) /\ pc[p] = "poll" /\ pc'[p] = "fail")
        /\ SF_vars(Controls(p) /\ pc[p] = "idle" /\ file # None /\ job'[p].release = file.release)

MacToolsSpec == MacToolsInit /\ [][MacToolsNext]_vars
FairMacToolsSpec == MacToolsSpec /\ Fairness

-----------------------------------------------------------------------------
(* Properties.                                                             *)

\* The type invariant of the device and of both programs.
MacToolsTypeOK == DeviceTypeOK /\ C!ControllerTypeOK /\ R!RemoteTypeOK

\* While a prepare or an upload of a controller may still reach the device,
\* the state file names its release and does not call it done: "Persist intent
\* BEFORE the first mutation".
IntentCoversMutation ==
    \A q \in wire : q.by = "controller" /\ q.kind \in {"prepare", "upload"} =>
        file # None /\ file.release = q.release /\ file.status # "SUCCESS"

\* Once a deployment is recorded as failed, no controller changes the record
\* or starts anything on the device.
QuarantineIsFinal ==
    [][C!Quarantined =>
        /\ file' = file
        /\ \A q \in wire' \ wire : q.from = None \/ q.by = "remote"]_vars

\* An interrupted deployment whose transaction is known is settled one day.
InterruptedIsResolved ==
    (C!Unfinished /\ file.token # None) ~> ~C!Unfinished

\* The controller is a one-shot deployment: it records what it is about to do,
\* sends an image once, and forgets only what ended well, whichever processes
\* run, end early and are run again.
Controlled == IF file # None /\ file.status # "SUCCESS" THEN file.release ELSE None
ControllerDeployment == INSTANCE OneShot WITH target <- Controlled
ControllerIsOneShot == ControllerDeployment!Spec

\* While a request that changes the device may still reach it, the fence
\* stands, names its release and does not read VALID: "An unresolved
\* per-device fence blocks every subsequent deployment".
FenceCoversMutation ==
    \A q \in wire : q.by = "remote" =>
        fence \notin {None, R!Torn} /\ fence.release = q.release /\ fence.phase # "VALID"

\* deploy records SUCCESS, and the remote tool VALID, only for an image that
\* the device confirmed under the transaction that this very deployment opened,
\* although answers get lost and the other program or GitHub pull may have
\* installed the same release.
SuccessWasConfirmed ==
    /\ file # None /\ file.status = "SUCCESS" =>
         [release |-> file.release, token |-> file.token] \in confirmed
    /\ fence \notin {None, R!Torn} /\ fence.phase = "VALID" =>
         [release |-> fence.release, token |-> fence.token] \in confirmed

\* The remote tool is a one-shot deployment, too.
Fenced == IF fence \in {None, R!Torn} \/ fence.phase = "VALID" THEN None ELSE fence.release
RemoteDeployment == INSTANCE OneShot WITH target <- Fenced, sent <- delivered
RemoteIsOneShot == RemoteDeployment!Spec
=============================================================================
