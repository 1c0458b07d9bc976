----------------------------- MODULE PullWorker -----------------------------
(***************************************************************************)
(* GitHub pull: Pull (github_pull.h) in the main loop and Worker           *)
(* (github_worker.h) in a task on the other core.  They share three queues *)
(* and the cancel flag, and nothing else; the loop alone owns the updater, *)
(* which the HTTP service uses as well.                                    *)
(*                                                                         *)
(* The worker moves at any time.  A turn of the loop is Updater::tick,     *)
(* Pull::poll and one HTTP step, in this order.  Every deadline, want of   *)
(* memory and failing connection is a choice that is always open.          *)
(***************************************************************************)
EXTENDS Naturals, Sequences

CONSTANTS
    MaxVersion,     \* bound: the newest release there will ever be
    ImageChunks,    \* chunks an image is sent in
    NoRequest

ASSUME PullAssumption ==
    /\ MaxVersion \in Nat /\ ImageChunks \in Nat \ {0}
    /\ NoRequest \notin [floor : Nat, tag : Nat]

Version == 0 .. MaxVersion          \* as an ETag or a result, 0 is none
Origin == {"WebFile", "LegacyPush"}  \* of an HTTP transfer
Successful == {"NoRelease", "Unchanged", "NoUpdate", "Updated"}

VARIABLES
    requests,       \* requests_, a queue of one
    messages,       \* messages_, a queue of two
    acks,           \* acks_, a queue of one
    cancelled,      \* cancelled_
    worker,         \* where the worker is, and its result_
    pull,           \* the Pull object
    updater,        \* the Updater object; got: what it wrote to the slot
    attempt,        \* the highest version that runs or was authorized
    latest,         \* the newest release on GitHub
    caller,         \* what the HTTP client was admitted for
    turn            \* the part of the loop that comes next

queues == <<requests, messages, acks>>
server == <<attempt, latest, caller>>
pullVars == <<queues, cancelled, worker, pull, updater, server, turn>>

Waiting == [at |-> "wait", part |-> 0, floor |-> 0, tag |-> 0, release |-> 0, code |-> "None"]
NeverPulled == [busy |-> FALSE, requested |-> FALSE, reboot |-> FALSE, tag |-> 0, code |-> "None"]
NoImageYet == [phase |-> "Idle", origin |-> "None", release |-> 0, got |-> <<>>, framed |-> FALSE]

PullInit ==
    /\ requests = NoRequest /\ messages = <<>> /\ acks = <<>> /\ cancelled = FALSE
    /\ worker = Waiting /\ pull = NeverPulled /\ updater = NoImageYet
    /\ caller = "none" /\ turn = "tick"
    /\ attempt = 0 /\ latest = 0

-----------------------------------------------------------------------------
(* The worker.                                                             *)

At(step) == worker.at = step
loopSide == <<pull, updater, server, turn>>
Ends(code) == worker' = [worker EXCEPT !.at = "close", !.code = code]

TakeRequest ==
    /\ At("wait") /\ requests # NoRequest
    /\ worker' = [Waiting EXCEPT !.at = "check", !.floor = requests.floor, !.tag = requests.tag]
    /\ requests' = NoRequest
    /\ UNCHANGED <<messages, acks, cancelled, loopSide>>

\* check(): 404, 304 to the ETag of the newest release, or that release.
CheckRelease ==
    /\ At("check")
    /\ \/ latest = 0 /\ Ends("NoRelease")
       \/ latest # 0 /\ worker.tag = latest /\ Ends("Unchanged")
       \/ /\ latest # 0 /\ worker.tag # latest
          /\ worker' = [worker EXCEPT !.release = latest,
                                      !.at = IF latest > worker.floor THEN "send" ELSE "close",
                                      !.code = IF latest > worker.floor THEN "None" ELSE "NoUpdate"]
    /\ UNCHANGED <<queues, cancelled, loopSide>>

\* A download or an exchange fails: the network, the format, memory, the
\* clock, a deadline, or a cancelled job.
Fail ==
    /\ worker.at \in {"check", "send", "await"}
    /\ Ends("Failed")
    /\ UNCHANGED <<queues, cancelled, loopSide>>

\* The last bytes are held until the framing and the total size pass.
FramedLate == FALSE                             \* mutant: checked after the last chunk
Framed == worker.part = ImageChunks

\* Sequence numbers are never repeated, so that all that is compared is
\* whether an answer is to the message that was sent last.
Stale(queue) == [i \in DOMAIN queue |-> [queue[i] EXCEPT !.mine = FALSE]]
Message(kind) ==
    [kind |-> kind, mine |-> TRUE, part |-> worker.part, release |-> worker.release,
     framed |-> Framed, code |-> worker.code]

\* exchange(), up to the queue; part 0 is the header.
Send ==
    /\ At("send") /\ ~cancelled /\ Len(messages) < 2
    /\ messages' = Append(Stale(messages), Message(IF worker.part = 0 THEN "Header" ELSE "Chunk"))
    /\ acks' = Stale(acks)
    /\ worker' = [worker EXCEPT !.at = "await"]
    /\ UNCHANGED <<requests, cancelled, loopSide>>

\* exchange(), from the queue.
AnyAnswer(ack) == TRUE                          \* mutant: the sequence is not compared
Answers(ack) == ack.mine
TakeAck ==
    /\ At("await") /\ acks # <<>>
    /\ acks' = <<>>
    /\ LET ack == Head(acks) IN
         worker' = IF ~Answers(ack) THEN worker
                   ELSE IF ~ack.accepted THEN [worker EXCEPT !.at = "close", !.code = "Failed"]
                   ELSE IF worker.part = ImageChunks THEN [worker EXCEPT !.at = "close", !.code = "Updated"]
                   ELSE [worker EXCEPT !.at = "send", !.part = @ + 1]
    /\ UNCHANGED <<requests, messages, cancelled, loopSide>>

\* execute() ends: the connection is closed.
Close ==
    /\ At("close")
    /\ worker' = [worker EXCEPT !.at = "post", !.code = IF cancelled THEN "Cancelled" ELSE @]
    /\ UNCHANGED <<queues, cancelled, loopSide>>

\* run(): retried until the queue takes it.
PostUnlessCancelled ==                          \* mutant: a cancelled job is dropped
    messages' = IF cancelled THEN messages ELSE Append(messages, Message("Done"))
Post == messages' = Append(messages, Message("Done"))
Finish ==
    /\ At("post") /\ Len(messages) < 2
    /\ Post
    /\ worker' = Waiting
    /\ UNCHANGED <<requests, acks, cancelled, loopSide>>

WorkerStep == TakeRequest \/ CheckRelease \/ Fail \/ Send \/ TakeAck \/ Close \/ Finish

-----------------------------------------------------------------------------
(* The loop: Updater::tick and Pull::poll.                                 *)

workerSide == <<requests, worker>>
Phase(phase) == [updater EXCEPT !.phase = phase]
Transferring == updater.origin = "GithubPull" /\ updater.phase = "Receiving"

\* TOKEN_EXPIRED and UPLOAD_TIMEOUT.
TickUpdater ==
    /\ turn = "tick" /\ turn' = "pull"
    /\ updater' \in IF updater.phase \in {"Prepared", "Receiving"}
                    THEN {updater, Phase("Failed")} ELSE {updater}
    /\ UNCHANGED <<queues, cancelled, worker, pull, server>>

\* The job is too old: cancel it, and take no more of it in this turn.
JobExpires ==
    /\ turn = "pull" /\ pull.busy
    /\ turn' = "late"
    /\ cancelled' = TRUE
    /\ updater' = IF Transferring THEN Phase("Failed") ELSE updater
    /\ UNCHANGED <<queues, worker, pull, server>>

\* reply(): never blocks; an answer nobody took stands in the way.
Reply(accepted) ==
    /\ messages' = Tail(messages)
    /\ acks' = IF acks = <<>> THEN <<[mine |-> Head(messages).mine, accepted |-> accepted]>> ELSE acks
    /\ cancelled' = (cancelled \/ acks # <<>>)

Received(kind) ==
    /\ pull.busy /\ turn \in {"pull", "late"} /\ turn' = "http"
    /\ messages # <<>> /\ Head(messages).kind = kind
    /\ UNCHANGED <<workerSide, latest, caller>>

\* preparePackage() and start() at once: the version is authorized before the
\* slot is erased, and either may fail.
Begun(origin, release) ==
    [phase |-> "Receiving", origin |-> origin, release |-> release, got |-> <<>>, framed |-> FALSE]
TakeHeader ==
    /\ Received("Header")
    /\ UNCHANGED pull
    /\ LET release == Head(messages).release
           open == updater.phase \in {"Idle", "Failed"}
       IN \/ Reply(FALSE) /\ UNCHANGED <<updater, attempt>>
          \/ /\ turn = "pull" /\ open
             /\ Reply(FALSE) /\ updater' = Phase("Failed") /\ UNCHANGED attempt
          \/ /\ turn = "pull" /\ open /\ release > attempt
             /\ \/ /\ Reply(TRUE) /\ updater' = Begun("GithubPull", release)
                   /\ attempt' = release
                \/ /\ Reply(FALSE)
                   /\ updater' = [Begun("GithubPull", release) EXCEPT !.phase = "Failed"]
                   /\ attempt' \in {attempt, release}

\* chunk(): the bytes are written; the last ones also select the slot, if the
\* image is what was announced.
Written(release, part, framed) ==
    LET got == Append(updater.got, [release |-> release, part |-> part])
        whole == \A i \in DOMAIN got : got[i] = [release |-> updater.release, part |-> i]
        after == IF Len(got) < ImageChunks THEN "Receiving"
                 ELSE IF whole THEN "RebootPending" ELSE "Failed"
    IN [updater EXCEPT !.got = got, !.framed = framed, !.phase = after]
TakeChunk ==
    /\ Received("Chunk")
    /\ UNCHANGED <<pull, attempt>>
    /\ LET message == Head(messages)
           written == Written(message.release, message.part, message.framed)
       IN \/ Reply(FALSE) /\ UNCHANGED updater
          \/ /\ turn = "pull" /\ Transferring
             /\ \/ Reply(written.phase # "Failed") /\ updater' = written
                \/ Reply(FALSE) /\ updater' = Phase("Failed")

\* What the flash says counts for more than what the worker says.
ReportedByWorker(done, selected) == done.code   \* mutant: an acknowledgement was lost
Reported(done, selected) == IF selected THEN "Updated" ELSE done.code
KeepTag(code, tag) ==                           \* mutant: also that of a failed download
    IF tag # 0 THEN tag ELSE pull.tag
NextTag(code, tag) ==
    IF code \notin Successful THEN 0 ELSE IF tag # 0 THEN tag ELSE pull.tag
TakeDone ==
    /\ Received("Done")
    /\ messages' = Tail(messages)
    /\ LET done == Head(messages)
           selected == updater.origin = "GithubPull" /\ updater.phase = "RebootPending"
           code == Reported(done, selected)
       IN /\ pull' = [pull EXCEPT !.busy = FALSE, !.reboot = selected, !.code = code,
                                  !.tag = NextTag(code, done.release)]
          /\ updater' = IF Transferring THEN Phase("Failed") ELSE updater
    /\ UNCHANGED <<acks, cancelled, attempt>>

\* Nothing to take; or unhealthy, or not due.
NothingToDo ==
    /\ turn \in {"pull", "late"} /\ turn' = "http"
    /\ pull.busy => messages = <<>>
    /\ UNCHANGED <<queues, cancelled, worker, pull, updater, server>>

\* A request or the schedule starts a job; the task or the queue may fail.
StartJob(ok) ==
    /\ turn = "pull" /\ turn' = "http"
    /\ ~pull.busy /\ ~pull.reboot /\ updater.phase \in {"Idle", "Failed"}
    /\ pull' = [pull EXCEPT !.requested = FALSE, !.busy = ok, !.code = IF ok THEN @ ELSE "Failed"]
    /\ requests' = IF ok THEN [floor |-> attempt, tag |-> pull.tag] ELSE requests
    /\ cancelled' \in IF ok THEN {FALSE} ELSE {FALSE, cancelled}
    /\ UNCHANGED <<messages, acks, worker, updater, server>>

-----------------------------------------------------------------------------
(* The loop: serviceHttp.  One client at a time; what headerGate admitted  *)
(* it for is carried out turns later.                                      *)

Http ==
    /\ turn = "http" /\ turn' = "tick"
    /\ UNCHANGED <<queues, cancelled, worker, latest>>
PullBusy == pull.busy \/ pull.requested
Admitted == caller = "none" /\ ~PullBusy /\ updater.phase # "RebootPending"

HttpIdles ==
    /\ Http
    /\ caller = "upload" => updater.phase = "Receiving"
    /\ UNCHANGED <<pull, updater, attempt, caller>>

\* /github/check
HttpChecks ==
    /\ Http
    /\ caller = "none" /\ ~PullBusy /\ updater.phase \in {"Idle", "Failed"}
    /\ pull' = [pull EXCEPT !.requested = TRUE]
    /\ UNCHANGED <<updater, attempt, caller>>

\* The headers of a prepare request, and its body.
HttpPrepares ==
    /\ Http
    /\ Admitted /\ caller' = "prepare"
    /\ UNCHANGED <<pull, updater, attempt>>
HttpBody(origin, release) ==
    /\ Http
    /\ caller = "prepare" /\ caller' = "none"
    /\ \/ updater' = updater
       \/ /\ updater.phase \in {"Idle", "Failed"}
          /\ \/ updater' = Phase("Failed")
             \/ /\ release > attempt
                /\ updater' = [Begun(origin, release) EXCEPT !.phase = "Prepared"]
    /\ UNCHANGED <<pull, attempt>>

\* The headers of an upload request start the transfer.  A legacy push is not
\* put on record before the slot is erased.
AdmitsBusyUpload ==                             \* mutant: the pull is not asked
    caller = "none" /\ updater.phase # "RebootPending"
AdmitsUpload == Admitted
HttpStarts ==
    /\ Http
    /\ AdmitsUpload /\ updater.phase = "Prepared"
    /\ LET recorded == IF updater.origin = "LegacyPush" THEN attempt ELSE updater.release IN
         \/ /\ updater' = Phase("Receiving") /\ caller' = "upload"
            /\ attempt' = recorded
         \/ /\ updater' = Phase("Failed") /\ caller' = caller
            /\ attempt' \in {attempt, recorded}
    /\ UNCHANGED pull
HttpChunk ==
    /\ Http
    /\ caller = "upload" /\ updater.phase = "Receiving"
    /\ updater' \in {Written(updater.release, Len(updater.got) + 1, FALSE), Phase("Failed")}
    /\ caller' = IF updater'.phase = "Receiving" THEN caller ELSE "none"
    /\ UNCHANGED <<pull, attempt>>
\* The transfer ended under the client, or the client ends it (closeClient).
HttpEnds ==
    /\ Http
    /\ caller # "none" /\ caller' = "none"
    /\ updater' = IF caller = "upload" /\ updater.phase = "Receiving" THEN Phase("Failed") ELSE updater
    /\ UNCHANGED <<pull, attempt>>

-----------------------------------------------------------------------------
\* Power is cut, or the device restarts.  Only the recorded attempt is durable,
\* and the selected image, if it boots and is confirmed.
RestartDevice ==
    /\ requests' = NoRequest /\ messages' = <<>> /\ acks' = <<>> /\ cancelled' = FALSE
    /\ worker' = Waiting /\ pull' = NeverPulled /\ updater' = NoImageYet
    /\ caller' = "none" /\ turn' = "tick"
    /\ attempt' \in {attempt} \cup IF updater.phase = "RebootPending" THEN {updater.release} ELSE {}
    /\ UNCHANGED latest

Publish(release) ==
    /\ release > latest
    /\ latest' = release
    /\ UNCHANGED <<queues, cancelled, worker, pull, updater, attempt, caller, turn>>

PullNext ==
    \/ WorkerStep
    \/ TickUpdater \/ JobExpires \/ TakeHeader \/ TakeChunk \/ TakeDone \/ NothingToDo
    \/ \E ok \in BOOLEAN : StartJob(ok)
    \/ HttpIdles \/ HttpChecks \/ HttpPrepares \/ HttpStarts \/ HttpChunk \/ HttpEnds
    \/ \E release \in Version : Publish(release) \/ \E origin \in Origin : HttpBody(origin, release)
    \/ RestartDevice

PullSpec == PullInit /\ [][PullNext]_pullVars

-----------------------------------------------------------------------------
(* Properties.                                                             *)

WorkerHasJob ==
    \/ requests # NoRequest \/ worker.at # "wait"
    \/ \E i \in DOMAIN messages : messages[i].kind = "Done"

\* Whatever is late, lost, cancelled or refused: the pull is busy exactly as
\* long as the worker still owes it a Done, so that it never stays busy and
\* never starts a second job; and when it is not, it has left no transfer open,
\* reports an update if and only if the flash selected one, and keeps no ETag
\* of a release that was not tried: a failed download "must not be stranded
\* behind a 304".
PullIsAccountedFor ==
    /\ pull.busy <=> WorkerHasJob
    /\ ~pull.busy =>
         /\ ~Transferring
         /\ pull.code = "Updated" <=> updater.origin = "GithubPull" /\ updater.phase = "RebootPending"
    /\ pull.tag <= attempt

\* A pull has the updater for itself: what it writes are the chunks of one
\* release, each once and in order, no HTTP client that may interrupt it is
\* connected, and the slot is selected only with the last bytes framed:
\* "Hold the last bytes until HTTP framing and total size also pass".
OneStream ==
    updater.origin = "GithubPull" /\ updater.phase \in {"Receiving", "RebootPending"} =>
        /\ \A i \in DOMAIN updater.got : updater.got[i] = [release |-> updater.release, part |-> i]
        /\ updater.phase = "RebootPending" => updater.framed
        /\ caller # "upload"
=============================================================================
