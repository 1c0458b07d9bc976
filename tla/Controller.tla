----------------------------- MODULE Controller -----------------------------
(***************************************************************************)
(* scripts/ota_controller.py: "deploy" and "watch".  The state file of a   *)
(* device and an flock of the same name make one deployment of it at a     *)
(* time; the file is what a later process knows about an earlier one.      *)
(* Every call to the device may fail, and the process may end anywhere.    *)
(***************************************************************************)
EXTENDS BridgeDevice

VARIABLES
    lock,           \* the process that holds the flock, or None
    file,           \* the state file of the device, or None
    sent            \* history: how often the image of a release was sent

Record == [status : {"IN_PROGRESS", "SUCCESS", "FAILED"}, release : Release,
           token : Token \cup {None}]

ControllerTypeOK ==
    /\ lock \in Tool \cup {None}
    /\ file \in Record \cup {None}
    /\ sent \in [Release -> Nat]

ControllerInit == lock = None /\ file = None /\ sent = [r \in Release |-> 0]

\* The process returns or raises: the file object that holds the lock closes.
Leave(p) ==
    /\ pc' = [pc EXCEPT ![p] = "idle"]
    /\ job' = [job EXCEPT ![p] = NoJob]
    /\ lock' = IF lock = p THEN None ELSE lock

InProgress(p, token) == [status |-> "IN_PROGRESS", release |-> job[p].release, token |-> token]

-----------------------------------------------------------------------------
(* deploy                                                                  *)

\* A process that finds the lock taken raises at once.
Invoke(p, r) ==
    /\ pc[p] = "idle" /\ lock = None
    /\ lock' = p
    /\ job' = [job EXCEPT ![p] = [NoJob EXCEPT !.release = r]]
    /\ Goto(p, "read")
    /\ UNCHANGED <<device, network, program, crashes, file, sent>>

\* What the state file says about an earlier process.
Quarantined == file # None /\ file.status = "FAILED"
Unfinished == file # None /\ file.status = "IN_PROGRESS"
BlockedByUnfinished(p) ==                       \* mutant: a failure may be repeated
    Unfinished /\ (file.release # job[p].release \/ file.token = None)
Blocked(p) == Quarantined \/ (Unfinished /\ (file.release # job[p].release \/ file.token = None))
UploadAgain(p) == "upload"                      \* mutant: resumes with the upload
Resume(p) == "poll"

ReadState(p) ==
    /\ pc[p] = "read"
    /\ \/ Blocked(p) /\ Leave(p)
       \/ /\ ~Blocked(p) /\ Unfinished
          /\ job' = [job EXCEPT ![p].token = file.token]
          /\ Goto(p, Resume(p))
          /\ UNCHANGED lock
       \/ /\ ~Blocked(p) /\ ~Unfinished
          /\ Goto(p, "preflight")
          /\ UNCHANGED <<job, lock>>
    /\ UNCHANGED <<device, network, program, crashes, file, sent>>

\* client.status() and the checks on it.  A status that cannot be read, a
\* device that is not healthy and one that is up to date end the process.
Deployable(r) ==
    /\ VersionOf[dev.build] < VersionOf[r]
    /\ dev.phase \in {"IDLE", "FAILED"} /\ dev.state # "PENDING_VERIFY"

Preflight(p) ==
    /\ pc[p] = "preflight"
    /\ \/ /\ Deployable(job[p].release)
          /\ job' = [job EXCEPT ![p].csrf = boots]
          /\ Goto(p, "intend")
          /\ UNCHANGED lock
       \/ Leave(p)
    /\ UNCHANGED <<device, network, program, crashes, file, sent>>

ForgetIntent(p) == UNCHANGED file                \* mutant: written only with the token
RecordIntent(p) == file' = InProgress(p, None)
Intend(p) ==
    /\ pc[p] = "intend"
    /\ RecordIntent(p)
    /\ Goto(p, "prepare")
    /\ UNCHANGED <<device, network, program, crashes, job, lock, sent>>

Call(p, step, kind, token, next) ==
    /\ pc[p] = step
    /\ Send(p, kind, token)
    /\ Goto(p, next)
    /\ UNCHANGED <<device, program, crashes, job, lock, file>>

SendPrepare(p) == Call(p, "prepare", "prepare", None, "preparing") /\ UNCHANGED sent

\* The answer came, or the request failed in a way the tool cannot tell from
\* one that the device performed.
Prepared(p) ==
    /\ pc[p] = "preparing"
    /\ \/ /\ Answered(p)
          /\ job' = [job EXCEPT ![p].token = reply[p]]
          /\ Goto(p, "save")
       \/ Goto(p, "fail") /\ UNCHANGED job
    /\ Abandon(p)
    /\ UNCHANGED <<device, program, crashes, lock, file, sent>>

SaveToken(p) ==
    /\ pc[p] = "save"
    /\ \/ file' = InProgress(p, job[p].token) /\ Goto(p, "upload")
       \/ Goto(p, "fail") /\ UNCHANGED file     \* the write raised
    /\ UNCHANGED <<device, network, program, crashes, job, lock, sent>>

SendUpload(p) ==
    /\ Call(p, "upload", "upload", job[p].token, "uploading")
    /\ sent' = [sent EXCEPT ![job[p].release] = @ + 1]

UploadEnds(p) ==
    /\ pc[p] = "uploading"
    /\ Goto(p, "poll")
    /\ Abandon(p)
    /\ UNCHANGED <<device, program, crashes, job, lock, file, sent>>

-----------------------------------------------------------------------------
(* reconcile: look until the device has decided or the time is up.         *)

AnyTransaction(p) == TRUE                       \* mutant: only build and version are compared
Mine(p) == dev.transaction = job[p].token
Ours(p) == dev.build = job[p].release /\ Mine(p)

Poll(p) ==
    /\ pc[p] = "poll"
    /\ \/ Ours(p) /\ dev.state = "VALID" /\ Goto(p, "succeed") /\ UNCHANGED job
       \/ /\ Ours(p) /\ dev.state = "PENDING_VERIFY"
          /\ job' = [job EXCEPT ![p].csrf = boots]
          /\ Goto(p, "confirm")
       \/ /\ ~Ours(p) /\ dev.state = "ROLLED_BACK_OR_INTERRUPTED"
          /\ dev.transaction = job[p].token
          /\ Goto(p, "fail") /\ UNCHANGED job
    /\ UNCHANGED <<device, network, program, crashes, lock, file, sent>>

WaitForever(p) == FALSE                         \* mutant: no deadline
TimeIsUp(p) ==
    /\ pc[p] = "poll"
    /\ Goto(p, "fail")
    /\ UNCHANGED <<device, network, program, crashes, job, lock, file, sent>>

SendConfirm(p) ==
    Call(p, "confirm", "confirm", job[p].token, "confirming") /\ UNCHANGED sent

\* Whatever became of it, the next status request tells.
ConfirmEnds(p) ==
    /\ pc[p] = "confirming"
    /\ Goto(p, "poll")
    /\ Abandon(p)
    /\ UNCHANGED <<device, program, crashes, job, lock, file, sent>>

UnknownOutcome(p) == "UNKNOWN"                  \* mutant: a status nobody reads
Outcome(p) == IF pc[p] = "succeed" THEN "SUCCESS" ELSE "FAILED"
Finish(p) ==
    /\ pc[p] \in {"succeed", "fail"}
    /\ file' = [status |-> Outcome(p), release |-> job[p].release, token |-> job[p].token]
    /\ Leave(p)
    /\ UNCHANGED <<device, network, program, crashes, sent>>

-----------------------------------------------------------------------------
\* The process is killed or interrupted.  A write of the state file that fails
\* outside the try block ends it, too.
Crash(p) ==
    /\ pc[p] # "idle" /\ crashes < MaxCrashes
    /\ crashes' = crashes + 1
    /\ Leave(p) /\ Abandon(p)
    /\ UNCHANGED <<device, program, file, sent>>

Advance(p) ==
    \/ ReadState(p) \/ Preflight(p) \/ Intend(p) \/ SendPrepare(p) \/ Prepared(p)
    \/ SaveToken(p) \/ SendUpload(p) \/ UploadEnds(p) \/ Poll(p) \/ TimeIsUp(p)
    \/ SendConfirm(p) \/ ConfirmEnds(p) \/ Finish(p)

ControllerStep(p) == Advance(p) \/ Crash(p) \/ \E r \in Release \ {Factory} : Invoke(p, r)
=============================================================================
