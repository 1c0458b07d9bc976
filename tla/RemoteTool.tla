----------------------------- MODULE RemoteTool -----------------------------
(***************************************************************************)
(* scripts/dmota_remote.py: "deploy" sends one signed package, "reconcile" *)
(* only looks.  No lock: the fence, a file that is created exclusively     *)
(* before the device is touched, keeps every later deployment out until an *)
(* operator has archived it.                                               *)
(***************************************************************************)
EXTENDS BridgeDevice

CONSTANTS
    CarefulOperator,    \* the fence is archived only while no tool runs
    MaxArchives         \* bound: fences an operator archives

VARIABLES
    fence,              \* None, Torn or a record
    delivered,          \* history: how often the image of a package was sent
    archives

Phase == {"RESERVED", "UPLOAD_MAY_HAVE_STARTED", "VALID"}
Fence == [release : Release, token : Token \cup {None}, phase : Phase]
Torn == [release |-> Factory, token |-> None, phase |-> "torn"]

RemoteTypeOK ==
    /\ fence \in Fence \cup {Torn, None}
    /\ delivered \in [Release -> Nat]
    /\ archives \in 0 .. MaxArchives

RemoteInit == fence = None /\ delivered = [r \in Release |-> 0] /\ archives = 0

Stop(p) == Goto(p, "idle") /\ job' = [job EXCEPT ![p] = NoJob]
Noted(p, phase) == [release |-> job[p].release, token |-> job[p].token, phase |-> phase]

-----------------------------------------------------------------------------
(* deploy                                                                  *)

\* The operator names the image the device should run, and a newer package.
Deploy(p, base, r) ==
    /\ pc[p] = "idle" /\ VersionOf[r] > VersionOf[base]
    /\ job' = [job EXCEPT ![p] = [NoJob EXCEPT !.base = base, !.release = r]]
    /\ Goto(p, "check")
    /\ UNCHANGED <<device, network, program, crashes, fence, delivered, archives>>

\* ready(): the status agrees with the profile and nothing is under way.
Ready(expected) ==
    /\ dev.build = expected
    /\ dev.state = "VALID" /\ dev.phase = "IDLE"
    /\ dev.attempt = VersionOf[expected]

\* A status that cannot be read stops the tool, like one that does not agree.
Check(p, step, next) ==
    /\ pc[p] = step
    /\ \/ /\ Ready(job[p].base)
          /\ Goto(p, next)
          /\ job' = IF next = "prepare"         \* the profile has served its purpose
                    THEN [job EXCEPT ![p].csrf = boots, ![p].base = Factory] ELSE job
       \/ Stop(p)
    /\ UNCHANGED <<device, network, program, crashes, fence, delivered, archives>>

CheckFirst(p) == Check(p, "check", "reserve")
CheckAgain(p) == Check(p, "recheck", "prepare")

\* reserve: O_EXCL, then the contents, then the directory.
AnyFence == TRUE                            \* mutant: the file is opened without O_EXCL
NoFence == fence = None
Create(p) ==
    /\ pc[p] = "reserve"
    /\ \/ NoFence /\ fence' = Torn /\ Goto(p, "fill") /\ UNCHANGED job
       \/ ~NoFence /\ Stop(p) /\ UNCHANGED fence
    /\ UNCHANGED <<device, network, program, crashes, delivered, archives>>

ReservedForBase(p) ==                       \* mutant: names the installed release
    [Noted(p, "RESERVED") EXCEPT !.release = job[p].base]
Reserved(p) == Noted(p, "RESERVED")
Fill(p) ==
    /\ pc[p] = "fill"
    /\ fence' = Reserved(p)
    /\ Goto(p, "recheck")
    /\ UNCHANGED <<device, network, program, crashes, job, delivered, archives>>

SendPrepare(p) ==
    /\ pc[p] = "prepare"
    /\ Send(p, "filePrepare", None)
    /\ Goto(p, "preparing")
    /\ UNCHANGED <<device, program, crashes, job, fence, delivered, archives>>

\* Without a token the tool stops, and the fence stays.
Prepared(p) ==
    /\ pc[p] = "preparing"
    /\ \/ /\ Answered(p)
          /\ job' = [job EXCEPT ![p].token = reply[p]]
          /\ Goto(p, "save")
       \/ Stop(p)
    /\ Abandon(p)
    /\ UNCHANGED <<device, program, crashes, fence, delivered, archives>>

\* write_state replaces the file, whatever it is now.
SaveToken(p) ==
    /\ pc[p] = "save"
    /\ fence' = Noted(p, "UPLOAD_MAY_HAVE_STARTED")
    /\ Goto(p, "upload")
    /\ UNCHANGED <<device, network, program, crashes, job, delivered, archives>>

SendUpload(p) ==
    /\ pc[p] = "upload"
    /\ Send(p, "upload", job[p].token)
    /\ delivered' = [delivered EXCEPT ![job[p].release] = @ + 1]
    /\ Goto(p, "uploading")
    /\ UNCHANGED <<device, program, crashes, job, fence, archives>>

UploadEnds(p) ==
    /\ pc[p] = "uploading"
    /\ Goto(p, "poll")
    /\ Abandon(p)
    /\ UNCHANGED <<device, program, crashes, job, fence, delivered, archives>>

-----------------------------------------------------------------------------
(* reconcile, at the end of deploy or as a command of its own.             *)

\* The operator repeats the profile; with another one the tool stops here.
Recorded == fence \notin {None, Torn} /\ fence.token # None

Reconcile(p) ==
    /\ pc[p] = "idle" /\ Recorded
    /\ job' = [job EXCEPT ![p] = [NoJob EXCEPT !.release = fence.release, !.token = fence.token]]
    /\ Goto(p, "poll")
    /\ UNCHANGED <<device, network, program, crashes, fence, delivered, archives>>

SameTransaction(p) == dev.transaction = job[p].token
Settled(p) == dev.build = job[p].release /\ (SameTransaction(p) => dev.state = "VALID")

Poll(p) ==
    /\ pc[p] = "poll"
    /\ \/ /\ Settled(p) /\ SameTransaction(p) /\ Ready(job[p].release)
          /\ Goto(p, "valid") /\ UNCHANGED job
       \/ Settled(p) /\ ~(SameTransaction(p) /\ Ready(job[p].release)) /\ Stop(p)
    /\ UNCHANGED <<device, network, program, crashes, fence, delivered, archives>>

TimeIsUp(p) ==
    /\ pc[p] = "poll"
    /\ Stop(p)
    /\ UNCHANGED <<device, network, program, crashes, fence, delivered, archives>>

MarkValid(p) ==
    /\ pc[p] = "valid"
    /\ fence' = Noted(p, "VALID")
    /\ Stop(p)
    /\ UNCHANGED <<device, network, program, crashes, delivered, archives>>

-----------------------------------------------------------------------------
(* The process ends; the operator archives a fence that reads VALID, as    *)
(* docs/cleanroom/remote-ota-tool.md asks.                                 *)

Crash(p) ==
    /\ pc[p] # "idle" /\ crashes < MaxCrashes
    /\ crashes' = crashes + 1
    /\ Stop(p) /\ Abandon(p)
    /\ UNCHANGED <<device, program, fence, delivered, archives>>

Archive ==
    /\ archives < MaxArchives
    /\ fence \notin {None, Torn} /\ fence.phase = "VALID"
    /\ CarefulOperator => \A p \in Tool : program[p] = "remote" => pc[p] = "idle"
    /\ fence' = None
    /\ archives' = archives + 1
    /\ UNCHANGED <<device, network, processes, delivered>>

RemoteStep(p) ==
    \/ CheckFirst(p) \/ Create(p) \/ Fill(p) \/ CheckAgain(p) \/ SendPrepare(p)
    \/ Prepared(p) \/ SaveToken(p) \/ SendUpload(p) \/ UploadEnds(p) \/ Poll(p)
    \/ TimeIsUp(p) \/ MarkValid(p) \/ Crash(p)
    \/ Reconcile(p) \/ \E base, r \in Release : Deploy(p, base, r)
=============================================================================
