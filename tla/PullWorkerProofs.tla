--------------------------- MODULE PullWorkerProofs ---------------------------
(***************************************************************************)
(* That a pull is accounted for and has the updater for itself, for every  *)
(* number of releases and of chunks, wherever the worker and the loop are. *)
(***************************************************************************)
EXTENDS PullWorker, TLAPS

-----------------------------------------------------------------------------
(* The invariant.                                                          *)

Codes == {"None", "Failed", "Cancelled"} \cup Successful
Requests == [floor : Nat, tag : Nat]
Messages == [kind : {"Header", "Chunk", "Done"}, mine : BOOLEAN, part : 0 .. ImageChunks,
             release : Nat, framed : BOOLEAN, code : Codes]
Acks == [mine : BOOLEAN, accepted : BOOLEAN]
Workers == [at : {"wait", "check", "send", "await", "close", "post"}, part : 0 .. ImageChunks,
            floor : Nat, tag : Nat, release : Nat, code : Codes]
Pulls == [busy : BOOLEAN, requested : BOOLEAN, reboot : BOOLEAN, tag : Nat, code : Codes]
Parts == [release : Nat, part : Nat]
Updaters == [phase : {"Idle", "Prepared", "Receiving", "RebootPending", "Failed"},
             origin : {"None", "GithubPull"} \cup Origin, release : Nat,
             got : Seq(Parts), framed : BOOLEAN]

PullTypeOK ==
    /\ requests \in {NoRequest} \cup Requests
    /\ messages \in Seq(Messages) /\ acks \in Seq(Acks) /\ cancelled \in BOOLEAN
    /\ worker \in Workers /\ pull \in Pulls /\ updater \in Updaters
    /\ attempt \in Nat /\ latest \in Nat
    /\ caller \in {"none", "prepare", "upload"} /\ turn \in {"tick", "pull", "late", "http"}

Selected == updater.origin = "GithubPull" /\ updater.phase = "RebootPending"
Open == Transferring \/ Selected
IsDone(message) == message.kind = "Done"

\* A job is in one place: in the request, with the worker, or in the Done that
\* is the last message.  Before a Done there is at most the message that the
\* worker gave up on.
JobIsInOnePlace ==
    /\ pull.busy <=> requests # NoRequest \/ worker.at # "wait" \/ messages # <<>>
    /\ requests # NoRequest => worker.at = "wait"
    /\ requests # NoRequest \/ worker.at \in {"check", "send"} => messages = <<>>
    /\ Len(messages) <= 2
    /\ Len(messages) = 2 => worker.at = "wait" /\ ~IsDone(messages[1]) /\ IsDone(messages[2])
    /\ Len(messages) = 1 => IsDone(messages[1]) <=> worker.at = "wait"

\* The transfer is where the header or chunk, the worker or its answer says.
MessageFits(message) ==
    /\ message.kind = IF message.part = 0 THEN "Header" ELSE "Chunk"
    /\ message.framed = (message.part = ImageChunks)
    /\ ~Selected
    /\ Transferring => Len(updater.got) = message.part - 1
StreamInStep ==
    /\ messages # <<>> /\ ~IsDone(messages[1]) => MessageFits(messages[1])
    /\ messages # <<>> /\ worker.at = "await" => messages[1].part = worker.part
    /\ requests # NoRequest \/ worker.at = "check" => ~Open
    /\ worker.at = "send" => ~Selected /\ (Transferring => Len(updater.got) = worker.part - 1)
    /\ worker.at = "await" /\ acks # <<>> /\ acks[1].mine =>
         /\ messages = <<>>
         /\ acks[1].accepted =>
              /\ Transferring => Len(updater.got) = worker.part
              /\ Selected <=> worker.part = ImageChunks

\* The worker, what it sends and the transfer are about the same release.
OneRelease ==
    /\ worker.at = "check" => worker.release = 0 /\ worker.part = 0
    /\ worker.at # "wait" /\ Open => updater.release = worker.release
    /\ worker.at # "wait" /\ messages # <<>> => messages[1].release = worker.release
    /\ Len(messages) = 2 => messages[1].release = messages[2].release
    /\ messages # <<>> /\ Open => updater.release = messages[1].release

\* A code is only reported with the release it is about.
CodeFits(code, release) ==
    /\ code = "Updated" => Selected
    /\ code \in {"NoRelease", "Unchanged"} => release = 0
    /\ code = "NoUpdate" => release <= attempt
CodesFit ==
    /\ worker.at \in {"close", "post"} => CodeFits(worker.code, worker.release)
    /\ worker.at = "wait" /\ messages # <<>> =>
         CodeFits(messages[Len(messages)].code, messages[Len(messages)].release)

\* What was tried or authorized is never below what is remembered of it.
TriedIsRecorded ==
    /\ pull.tag <= attempt /\ worker.floor <= attempt
    /\ requests # NoRequest => requests.floor <= attempt
    /\ Open => updater.release <= attempt
    /\ updater.phase = "Prepared" => updater.release > attempt /\ updater.origin # "GithubPull"

\* A job that is over left nothing open.
NothingLeft ==
    ~pull.busy => ~Transferring /\ (pull.code = "Updated" <=> Selected)

\* A client whose upload ended is let go before the first message of a job is taken.
NoIntruder ==
    /\ pull.busy /\ caller = "upload" => turn = "http" /\ updater.phase # "Receiving"
    /\ Open => caller # "upload"

InOrder ==
    /\ Open => \A i \in DOMAIN updater.got : updater.got[i] = [release |-> updater.release, part |-> i]
    /\ Selected => updater.framed

PullInv ==
    /\ PullTypeOK /\ JobIsInOnePlace /\ StreamInStep /\ OneRelease /\ CodesFit
    /\ TriedIsRecorded /\ NothingLeft /\ NoIntruder /\ InOrder

-----------------------------------------------------------------------------
(* What the helpers of the model do to the queues and to the updater.      *)

\* Of an empty queue nothing becomes stale.
LEMMA StaleOfNone == Stale(<<>>) = <<>>
BY DEF Stale

\* What becomes stale keeps its place, and is no answer any more.
LEMMA StaleAcks ==
    ASSUME acks \in Seq(Acks)
    PROVE  /\ Stale(acks) \in Seq(Acks) /\ Len(Stale(acks)) = Len(acks)
           /\ \A i \in 1..Len(acks) : ~Stale(acks)[i].mine
<1>1. DOMAIN acks = 1..Len(acks) /\ Len(acks) \in Nat
  OBVIOUS
<1>2. \A i \in 1..Len(acks) : acks[i] \in Acks
  BY <1>1
<1>3. \A ack \in Acks : [ack EXCEPT !.mine = FALSE] \in Acks /\ ~[ack EXCEPT !.mine = FALSE].mine
  BY DEF Acks
<1>4. Stale(acks) = [i \in 1..Len(acks) |-> [acks[i] EXCEPT !.mine = FALSE]]
  BY <1>1 DEF Stale
<1> HIDE DEF Acks
<1>5. \A i \in 1..Len(acks) : Stale(acks)[i] \in Acks /\ ~Stale(acks)[i].mine
  BY <1>2, <1>3, <1>4
<1>6. Stale(acks) \in [1..Len(acks) -> Acks]
  BY <1>4, <1>5
<1>7. Stale(acks) \in Seq(Acks) /\ Len(Stale(acks)) = Len(acks)
  BY <1>1, <1>6
<1> QED BY <1>5, <1>7

\* What the worker says of itself is a message.
LEMMA MessageIs ==
    ASSUME PullTypeOK, NEW kind \in {"Header", "Chunk", "Done"}
    PROVE  /\ Message(kind) \in Messages /\ Message(kind).kind = kind
           /\ Message(kind).part = worker.part /\ Message(kind).release = worker.release
           /\ Message(kind).framed = (worker.part = ImageChunks) /\ Message(kind).code = worker.code
<1>1. worker \in Workers
  BY DEF PullTypeOK
<1>2. /\ worker.part \in 0 .. ImageChunks /\ worker.release \in Nat /\ worker.code \in Codes
  BY <1>1 DEF Workers
<1> QED BY <1>2 DEF Message, Messages, Framed

\* Of the updater, a step of the phase changes nothing else.
LEMMA PhaseIs ==
    ASSUME PullTypeOK, NEW phase \in {"Idle", "Prepared", "Receiving", "RebootPending", "Failed"}
    PROVE  /\ Phase(phase) \in Updaters /\ Phase(phase).phase = phase
           /\ Phase(phase).origin = updater.origin /\ Phase(phase).release = updater.release
           /\ Phase(phase).got = updater.got /\ Phase(phase).framed = updater.framed
<1>1. updater \in Updaters
  BY DEF PullTypeOK
<1> QED BY <1>1 DEF Phase, Updaters

\* A transfer begins with nothing written.
LEMMA BegunIs ==
    ASSUME NEW origin \in {"GithubPull"} \cup Origin, NEW release \in Nat
    PROVE  Begun(origin, release) \in Updaters
<1>1. <<>> \in Seq(Parts)
  OBVIOUS
<1> HIDE DEF Parts
<1> QED BY <1>1 DEF Begun, Updaters

\* Writing a part that is next keeps the order, and only the last one can
\* select the slot.
LEMMA WrittenIs ==
    ASSUME PullTypeOK, NEW release \in Nat, NEW part \in Nat, NEW framed \in BOOLEAN
    PROVE  LET w == Written(release, part, framed) IN
           /\ w \in Updaters
           /\ w.origin = updater.origin /\ w.release = updater.release /\ w.framed = framed
           /\ Len(w.got) = Len(updater.got) + 1
           /\ \A i \in 1..Len(updater.got) : w.got[i] = updater.got[i]
           /\ w.got[Len(updater.got) + 1] = [release |-> release, part |-> part]
           /\ w.phase \in {"Receiving", "RebootPending", "Failed"}
           /\ w.phase = "Receiving" <=> Len(updater.got) + 1 < ImageChunks
<1> DEFINE item == [release |-> release, part |-> part]
           got == Append(updater.got, item)
           w == Written(release, part, framed)
<1>1. updater \in Updaters
  BY DEF PullTypeOK
<1>2. updater.got \in Seq(Parts) /\ updater.origin \in {"None", "GithubPull"} \cup Origin /\ updater.release \in Nat
  BY <1>1 DEF Updaters
<1>3. item \in Parts
  BY DEF Parts
<1> HIDE DEF Parts, item
<1>4. /\ got \in Seq(Parts) /\ Len(got) = Len(updater.got) + 1
      /\ \A i \in 1..Len(updater.got) : got[i] = updater.got[i]
      /\ got[Len(updater.got) + 1] = item
  BY <1>2, <1>3
<1> HIDE DEF got
<1> DEFINE whole == \A i \in DOMAIN got : got[i] = [release |-> updater.release, part |-> i]
           after == IF Len(got) < ImageChunks THEN "Receiving"
                    ELSE IF whole THEN "RebootPending" ELSE "Failed"
<1>5. w = [updater EXCEPT !.got = got, !.framed = framed, !.phase = after]
  BY DEF Written, got, item
<1>6. after \in {"Receiving", "RebootPending", "Failed"} /\ (after = "Receiving" <=> Len(got) < ImageChunks)
  OBVIOUS
<1> HIDE DEF after
<1>7. /\ w \in Updaters /\ w.got = got /\ w.framed = framed /\ w.phase = after
      /\ w.origin = updater.origin /\ w.release = updater.release
  BY <1>1, <1>4, <1>5, <1>6 DEF Updaters
<1> HIDE DEF w
<1>8. Len(w.got) = Len(updater.got) + 1 /\ (w.phase = "Receiving" <=> Len(updater.got) + 1 < ImageChunks)
  BY <1>4, <1>6, <1>7
<1>9. \A i \in 1..Len(updater.got) : w.got[i] = updater.got[i]
  BY <1>4, <1>7
<1>10. w.got[Len(updater.got) + 1] = item /\ w.phase \in {"Receiving", "RebootPending", "Failed"}
  BY <1>4, <1>6, <1>7
<1> QED BY <1>7, <1>8, <1>9, <1>10 DEF w, item

\* The types of what the steps look at.
LEMMA Fields ==
    ASSUME PullTypeOK
    PROVE  /\ worker.at \in {"wait", "check", "send", "await", "close", "post"}
           /\ worker.part \in 0 .. ImageChunks /\ worker.floor \in Nat /\ worker.tag \in Nat
           /\ worker.release \in Nat /\ worker.code \in Codes
           /\ pull.busy \in BOOLEAN /\ pull.requested \in BOOLEAN /\ pull.reboot \in BOOLEAN
           /\ pull.tag \in Nat /\ pull.code \in Codes
           /\ updater.phase \in {"Idle", "Prepared", "Receiving", "RebootPending", "Failed"}
           /\ updater.origin \in {"None", "GithubPull"} \cup Origin /\ updater.release \in Nat
           /\ updater.got \in Seq(Parts) /\ updater.framed \in BOOLEAN
           /\ requests # NoRequest => requests.floor \in Nat /\ requests.tag \in Nat
<1>1. worker \in Workers /\ pull \in Pulls /\ updater \in Updaters
  BY DEF PullTypeOK
<1>2. requests # NoRequest => requests \in Requests
  BY DEF PullTypeOK
<1>3. requests # NoRequest => requests.floor \in Nat /\ requests.tag \in Nat
  BY <1>2 DEF Requests
<1>4. /\ worker.at \in {"wait", "check", "send", "await", "close", "post"}
      /\ worker.part \in 0 .. ImageChunks /\ worker.floor \in Nat /\ worker.tag \in Nat
      /\ worker.release \in Nat /\ worker.code \in Codes
  BY <1>1 DEF Workers
<1>5. /\ pull.busy \in BOOLEAN /\ pull.requested \in BOOLEAN /\ pull.reboot \in BOOLEAN
      /\ pull.tag \in Nat /\ pull.code \in Codes
  BY <1>1 DEF Pulls
<1>6. /\ updater.phase \in {"Idle", "Prepared", "Receiving", "RebootPending", "Failed"}
      /\ updater.origin \in {"None", "GithubPull"} \cup Origin /\ updater.release \in Nat
      /\ updater.got \in Seq(Parts) /\ updater.framed \in BOOLEAN
  BY <1>1 DEF Updaters
<1> QED BY <1>3, <1>4, <1>5, <1>6

\* The types of a message.
LEMMA MessageFields ==
    ASSUME NEW m \in Messages
    PROVE  /\ m.kind \in {"Header", "Chunk", "Done"} /\ m.mine \in BOOLEAN
           /\ m.part \in 0 .. ImageChunks /\ m.release \in Nat /\ m.framed \in BOOLEAN
           /\ m.code \in Codes
BY DEF Messages

\* A queue is empty if its length is zero.
LEMMA EmptyByLength ==
    ASSUME NEW S, NEW queue \in Seq(S)
    PROVE  queue = <<>> <=> Len(queue) = 0
OBVIOUS

\* What the head and the rest of the queue of messages are.
LEMMA QueueOfMessages ==
    ASSUME PullTypeOK
    PROVE  /\ Len(messages) \in Nat /\ (messages = <<>> <=> Len(messages) = 0)
           /\ \A i \in 1..Len(messages) : messages[i] \in Messages
           /\ messages # <<>> =>
                /\ Head(messages) = messages[1] /\ Tail(messages) \in Seq(Messages)
                /\ Len(Tail(messages)) = Len(messages) - 1
                /\ \A i \in 1..Len(messages) - 1 : Tail(messages)[i] = messages[i + 1]
                /\ Tail(messages) = <<>> <=> Len(messages) = 1
<1>1. messages \in Seq(Messages)
  BY DEF PullTypeOK
<1>2. Len(messages) \in Nat /\ (messages = <<>> <=> Len(messages) = 0)
  BY <1>1
<1>3. \A i \in 1..Len(messages) : messages[i] \in Messages
  BY <1>1
<1>4. ASSUME messages # <<>>
      PROVE  /\ Head(messages) = messages[1] /\ Tail(messages) \in Seq(Messages)
             /\ Len(Tail(messages)) = Len(messages) - 1
             /\ \A i \in 1..Len(messages) - 1 : Tail(messages)[i] = messages[i + 1]
             /\ Tail(messages) = <<>> <=> Len(messages) = 1
  <2>1. /\ Head(messages) = messages[1] /\ Tail(messages) \in Seq(Messages)
        /\ Len(Tail(messages)) = Len(messages) - 1
    BY <1>1, <1>4
  <2>2. \A i \in 1..Len(messages) - 1 : Tail(messages)[i] = messages[i + 1]
    BY <1>1, <1>4
  <2>3. Tail(messages) = <<>> <=> Len(messages) = 1
    <3>1. Tail(messages) = <<>> <=> Len(Tail(messages)) = 0
      BY <2>1, EmptyByLength, Zenon
    <3> QED BY <1>2, <2>1, <3>1
  <2> QED BY <2>1, <2>2, <2>3
<1> QED BY <1>2, <1>3, <1>4

-----------------------------------------------------------------------------
(* The steps of the worker.                                                *)

LEMMA TakeRequestInv ==
    ASSUME PullInv, TakeRequest
    PROVE  PullInv'
<1> USE PullAssumption
<1>1. PullTypeOK /\ requests # NoRequest /\ worker.at = "wait"
  BY DEF PullInv, TakeRequest, At
<1>2. /\ requests' = NoRequest /\ messages' = messages /\ acks' = acks /\ cancelled' = cancelled
      /\ pull' = pull /\ updater' = updater /\ attempt' = attempt /\ latest' = latest
      /\ caller' = caller /\ turn' = turn
      /\ worker' = [Waiting EXCEPT !.at = "check", !.floor = requests.floor, !.tag = requests.tag]
  BY DEF TakeRequest, loopSide, server
<1>3. worker' = [at |-> "check", part |-> 0, floor |-> requests.floor, tag |-> requests.tag,
                 release |-> 0, code |-> "None"]
  BY <1>2 DEF Waiting
<1>4. requests.floor \in Nat /\ requests.tag \in Nat
  BY <1>1, Fields
<1>5. worker' \in Workers
  BY <1>3, <1>4 DEF Workers, Codes
<1>6. PullTypeOK'
  BY <1>1, <1>2, <1>5 DEF PullTypeOK
<1>7. /\ worker'.at = "check" /\ worker'.release = 0 /\ worker'.part = 0
      /\ worker'.floor = requests.floor
  BY <1>3
<1>8. Transferring' = Transferring /\ Selected' = Selected /\ Open' = Open
  BY <1>2 DEF Transferring, Selected, Open
<1>9. JobIsInOnePlace'
  BY <1>1, <1>2, <1>7 DEF PullInv, JobIsInOnePlace
<1>10. StreamInStep'
  BY <1>1, <1>2, <1>7, <1>8 DEF PullInv, StreamInStep, JobIsInOnePlace
<1>11. OneRelease' /\ CodesFit' /\ TriedIsRecorded'
  BY <1>1, <1>2, <1>7, <1>8, QueueOfMessages DEF PullInv, OneRelease, JobIsInOnePlace, StreamInStep, CodesFit, TriedIsRecorded
<1>12. NothingLeft' /\ NoIntruder' /\ InOrder'
  BY <1>1, <1>2, <1>8 DEF PullInv, NothingLeft, NoIntruder, InOrder
<1> QED BY <1>6, <1>9, <1>10, <1>11, <1>12 DEF PullInv

\* What a step of the worker leaves alone, it leaves of the loop as well.
LEMMA WorkerFrame ==
    ASSUME UNCHANGED <<queues, cancelled, loopSide>>
    PROVE  /\ requests' = requests /\ messages' = messages /\ acks' = acks /\ cancelled' = cancelled
           /\ pull' = pull /\ updater' = updater /\ attempt' = attempt /\ latest' = latest
           /\ caller' = caller /\ turn' = turn
           /\ Transferring' = Transferring /\ Selected' = Selected /\ Open' = Open
BY DEF queues, loopSide, server, Transferring, Selected, Open

LEMMA CheckReleaseInv ==
    ASSUME PullInv, CheckRelease
    PROVE  PullInv'
<1>1. PullTypeOK /\ worker.at = "check" /\ UNCHANGED <<queues, cancelled, loopSide>>
  BY DEF PullInv, CheckRelease, At
<1>2. worker \in Workers /\ latest \in Nat
  BY <1>1 DEF PullTypeOK
<1>3. /\ worker' \in Workers /\ worker'.part = worker.part /\ worker'.floor = worker.floor
      /\ \/ /\ worker'.at = "close" /\ worker'.release = worker.release
            /\ worker'.code \in {"NoRelease", "Unchanged"}
         \/ /\ worker'.at = "close" /\ worker'.release = latest /\ latest <= worker.floor
            /\ worker'.code = "NoUpdate"
         \/ worker'.at = "send" /\ worker'.release = latest
  <2>1. CASE latest = 0 /\ Ends("NoRelease")
    BY <1>2, <2>1 DEF Ends, Workers, Codes, Successful
  <2>2. CASE latest # 0 /\ worker.tag = latest /\ Ends("Unchanged")
    BY <1>2, <2>2 DEF Ends, Workers, Codes, Successful
  <2>3. CASE worker' = [worker EXCEPT !.release = latest,
                                      !.at = IF latest > worker.floor THEN "send" ELSE "close",
                                      !.code = IF latest > worker.floor THEN "None" ELSE "NoUpdate"]
    <3>1. worker.floor \in Nat
      BY <1>1, Fields
    <3>2. CASE latest > worker.floor
      BY <1>2, <2>3, <3>2 DEF Workers, Codes, Successful
    <3>3. CASE ~(latest > worker.floor)
      <4>1. worker' = [worker EXCEPT !.release = latest, !.at = "close", !.code = "NoUpdate"]
        BY <2>3, <3>3
      <4>2. latest <= worker.floor
        BY <1>2, <3>1, <3>3
      <4> QED BY <1>2, <4>1, <4>2 DEF Workers, Codes, Successful
    <3> QED BY <3>2, <3>3
  <2> QED BY <2>1, <2>2, <2>3 DEF CheckRelease
<1>4. PullTypeOK'
  BY <1>1, <1>3, WorkerFrame DEF PullTypeOK
<1>5. messages = <<>> /\ requests = NoRequest /\ ~Open /\ worker.release = 0 /\ worker.part = 0
  BY <1>1 DEF PullInv, JobIsInOnePlace, StreamInStep, OneRelease
<1>6. JobIsInOnePlace'
  BY <1>1, <1>3, <1>5, WorkerFrame DEF PullInv, JobIsInOnePlace
<1>7. StreamInStep'
  BY <1>1, <1>3, <1>5, WorkerFrame DEF PullInv, StreamInStep, Open
<1>8. OneRelease'
  BY <1>1, <1>3, <1>5, WorkerFrame DEF PullInv, OneRelease
<1>9. CodesFit' /\ TriedIsRecorded'
  BY <1>1, <1>2, <1>3, <1>5, Fields, WorkerFrame DEF PullInv, PullTypeOK, CodesFit, CodeFits, TriedIsRecorded
<1>10. NothingLeft' /\ NoIntruder' /\ InOrder'
  BY <1>1, WorkerFrame DEF PullInv, NothingLeft, NoIntruder, InOrder
<1> QED BY <1>4, <1>6, <1>7, <1>8, <1>9, <1>10 DEF PullInv

LEMMA FailInv ==
    ASSUME PullInv, Fail
    PROVE  PullInv'
<1>1. /\ PullTypeOK /\ worker.at \in {"check", "send", "await"} /\ UNCHANGED <<queues, cancelled, loopSide>>
      /\ Ends("Failed")
  BY DEF PullInv, Fail
<1>2. /\ worker' \in Workers /\ worker'.part = worker.part /\ worker'.floor = worker.floor
      /\ worker'.at = "close" /\ worker'.release = worker.release /\ worker'.code = "Failed"
  BY <1>1 DEF PullTypeOK, Ends, Workers, Codes
<1>3. PullTypeOK'
  BY <1>1, <1>2, WorkerFrame DEF PullTypeOK
<1>4. JobIsInOnePlace'
  BY <1>1, <1>2, WorkerFrame DEF PullInv, JobIsInOnePlace
<1>5. StreamInStep'
  BY <1>1, <1>2, WorkerFrame DEF PullInv, StreamInStep, JobIsInOnePlace, MessageFits
<1>6. OneRelease' /\ CodesFit' /\ TriedIsRecorded'
  BY <1>1, <1>2, WorkerFrame DEF PullInv, OneRelease, CodesFit, CodeFits, TriedIsRecorded
<1>7. NothingLeft' /\ NoIntruder' /\ InOrder'
  BY <1>1, WorkerFrame DEF PullInv, NothingLeft, NoIntruder, InOrder
<1> QED BY <1>3, <1>4, <1>5, <1>6, <1>7 DEF PullInv

LEMMA CloseInv ==
    ASSUME PullInv, Close
    PROVE  PullInv'
<1>1. /\ PullTypeOK /\ worker.at = "close" /\ UNCHANGED <<queues, cancelled, loopSide>>
      /\ worker' = [worker EXCEPT !.at = "post", !.code = IF cancelled THEN "Cancelled" ELSE @]
  BY DEF PullInv, Close, At
<1>2. /\ worker' \in Workers /\ worker'.part = worker.part /\ worker'.floor = worker.floor
      /\ worker'.at = "post" /\ worker'.release = worker.release
      /\ worker'.code = worker.code \/ worker'.code = "Cancelled"
  BY <1>1 DEF PullTypeOK, Workers, Codes
<1>3. PullTypeOK'
  BY <1>1, <1>2, WorkerFrame DEF PullTypeOK
<1>4. JobIsInOnePlace'
  BY <1>1, <1>2, WorkerFrame DEF PullInv, JobIsInOnePlace
<1>5. StreamInStep'
  BY <1>1, <1>2, WorkerFrame DEF PullInv, StreamInStep, JobIsInOnePlace, MessageFits
<1>6. OneRelease' /\ CodesFit' /\ TriedIsRecorded'
  BY <1>1, <1>2, WorkerFrame DEF PullInv, OneRelease, CodesFit, CodeFits, TriedIsRecorded
<1>7. NothingLeft' /\ NoIntruder' /\ InOrder'
  BY <1>1, WorkerFrame DEF PullInv, NothingLeft, NoIntruder, InOrder
<1> QED BY <1>3, <1>4, <1>5, <1>6, <1>7 DEF PullInv

\* The header or the next chunk goes into a queue that is empty.
LEMMA SendInv ==
    ASSUME PullInv, Send
    PROVE  PullInv'
<1> USE PullAssumption
<1> DEFINE kind == IF worker.part = 0 THEN "Header" ELSE "Chunk"
           sent == Message(kind)
<1>1. /\ PullTypeOK /\ worker.at = "send" /\ acks' = Stale(acks)
      /\ messages' = Append(Stale(messages), sent) /\ worker' = [worker EXCEPT !.at = "await"]
      /\ requests' = requests /\ cancelled' = cancelled
      /\ pull' = pull /\ updater' = updater /\ attempt' = attempt /\ latest' = latest
      /\ caller' = caller /\ turn' = turn
  BY DEF PullInv, Send, At, loopSide, server
<1>2. messages = <<>> /\ requests = NoRequest
  BY <1>1 DEF PullInv, JobIsInOnePlace
<1>3. kind \in {"Header", "Chunk"}
  OBVIOUS
<1>4. /\ sent \in Messages /\ sent.kind = kind /\ sent.part = worker.part
      /\ sent.release = worker.release /\ sent.framed = (worker.part = ImageChunks)
  BY <1>1, <1>3, MessageIs
<1> HIDE DEF sent
<1>5. messages' = Append(<<>>, sent)
  BY <1>1, <1>2, StaleOfNone, Zenon
<1>6. messages' \in Seq(Messages) /\ Len(messages') = 1 /\ messages'[1] = sent /\ messages' # <<>>
  BY <1>4, <1>5
<1>7. acks' \in Seq(Acks) /\ (acks' # <<>> => ~acks'[1].mine)
  <2>1. acks \in Seq(Acks) /\ acks' = Stale(acks)
    BY <1>1 DEF PullTypeOK
  <2>2. acks' \in Seq(Acks) /\ Len(acks') = Len(acks) /\ \A i \in 1..Len(acks) : ~acks'[i].mine
    BY <2>1, StaleAcks, Zenon
  <2>3. acks' # <<>> => 1 \in 1..Len(acks)
    <3>1. acks' # <<>> => Len(acks') # 0
      BY <2>2, EmptyByLength, Zenon
    <3> QED BY <2>1, <2>2, <3>1
  <2> QED BY <2>2, <2>3
<1>8. /\ worker' \in Workers /\ worker'.part = worker.part /\ worker'.floor = worker.floor
      /\ worker'.at = "await" /\ worker'.release = worker.release
  BY <1>1 DEF PullTypeOK, Workers
<1>9. PullTypeOK'
  BY <1>1, <1>6, <1>7, <1>8 DEF PullTypeOK
<1>10. Transferring' = Transferring /\ Selected' = Selected /\ Open' = Open
  BY <1>1 DEF Transferring, Selected, Open
<1>11. ~IsDone(sent)
  BY <1>4 DEF IsDone
<1>12. JobIsInOnePlace'
  BY <1>1, <1>2, <1>6, <1>8, <1>11 DEF PullInv, JobIsInOnePlace, IsDone
<1>13. StreamInStep'
  <2>1. /\ sent.kind = (IF sent.part = 0 THEN "Header" ELSE "Chunk")
        /\ sent.framed = (sent.part = ImageChunks) /\ ~Selected'
        /\ Transferring' => Len(updater'.got) = sent.part - 1
    BY <1>1, <1>4, <1>10 DEF PullInv, StreamInStep
  <2>2. messages'[1].part = worker'.part
    BY <1>4, <1>6, <1>8
  <2> QED BY <1>1, <1>2, <1>4, <1>6, <1>7, <1>8, <1>10, <2>1, <2>2 DEF StreamInStep, MessageFits
<1>14. OneRelease' /\ CodesFit' /\ TriedIsRecorded'
  BY <1>1, <1>2, <1>4, <1>6, <1>8, <1>10 DEF PullInv, OneRelease, CodesFit, CodeFits, TriedIsRecorded
<1>15. NothingLeft' /\ NoIntruder' /\ InOrder'
  BY <1>1, <1>10 DEF PullInv, NothingLeft, NoIntruder, InOrder
<1> QED BY <1>9, <1>12, <1>13, <1>14, <1>15 DEF PullInv

LEMMA TakeAckInv ==
    ASSUME PullInv, TakeAck
    PROVE  PullInv'
<1> USE PullAssumption
<1> DEFINE ack == Head(acks)
<1>1. /\ PullTypeOK /\ worker.at = "await" /\ acks # <<>> /\ acks' = <<>>
      /\ worker' = IF ~ack.mine THEN worker
                   ELSE IF ~ack.accepted THEN [worker EXCEPT !.at = "close", !.code = "Failed"]
                   ELSE IF worker.part = ImageChunks THEN [worker EXCEPT !.at = "close", !.code = "Updated"]
                   ELSE [worker EXCEPT !.at = "send", !.part = @ + 1]
      /\ messages' = messages
      /\ requests' = requests /\ cancelled' = cancelled
      /\ pull' = pull /\ updater' = updater /\ attempt' = attempt /\ latest' = latest
      /\ caller' = caller /\ turn' = turn
  BY DEF PullInv, TakeAck, Answers, At, loopSide, server
<1>2. worker \in Workers /\ acks \in Seq(Acks) /\ worker.part \in 0 .. ImageChunks
  BY <1>1, Fields DEF PullTypeOK
<1>3. ack = acks[1] /\ ack \in Acks
  BY <1>1, <1>2
<1>4. ack.mine \in BOOLEAN /\ ack.accepted \in BOOLEAN
  BY <1>3 DEF Acks
<1>5. /\ worker' \in Workers /\ worker'.floor = worker.floor /\ worker'.release = worker.release
      /\ \/ worker' = worker
         \/ worker'.at = "close" /\ worker'.code = "Failed" /\ worker'.part = worker.part
         \/ /\ acks[1].mine /\ acks[1].accepted /\ worker.part = ImageChunks
            /\ worker'.at = "close" /\ worker'.code = "Updated" /\ worker'.part = worker.part
         \/ /\ acks[1].mine /\ acks[1].accepted /\ worker.part # ImageChunks
            /\ worker'.at = "send" /\ worker'.part = worker.part + 1
  <2>1. CASE ~ack.mine
    BY <1>1, <1>2, <2>1
  <2>2. CASE ack.mine /\ ~ack.accepted
    BY <1>1, <1>2, <2>2 DEF Workers, Codes
  <2>3. CASE ack.mine /\ ack.accepted /\ worker.part = ImageChunks
    BY <1>1, <1>2, <1>3, <2>3 DEF Workers, Codes, Successful
  <2>4. CASE ack.mine /\ ack.accepted /\ worker.part # ImageChunks
    <3>1. worker' = [worker EXCEPT !.at = "send", !.part = @ + 1]
      BY <1>1, <2>4
    <3>2. worker.part + 1 \in 0 .. ImageChunks
      BY <1>2, <2>4
    <3>3. /\ worker' \in Workers /\ worker'.floor = worker.floor /\ worker'.release = worker.release
          /\ worker'.at = "send" /\ worker'.part = worker.part + 1
      BY <1>2, <3>1, <3>2 DEF Workers
    <3> QED BY <1>3, <2>4, <3>3
  <2> QED BY <1>4, <2>1, <2>2, <2>3, <2>4
<1>6. PullTypeOK'
  BY <1>1, <1>5 DEF PullTypeOK
<1>7. Transferring' = Transferring /\ Selected' = Selected /\ Open' = Open
  BY <1>1 DEF Transferring, Selected, Open
<1>8. acks[1].mine => messages = <<>> /\ requests = NoRequest
  BY <1>1 DEF PullInv, JobIsInOnePlace, StreamInStep
<1>9. acks[1].mine /\ acks[1].accepted =>
         /\ Transferring => Len(updater.got) = worker.part
         /\ Selected <=> worker.part = ImageChunks
  BY <1>1 DEF PullInv, StreamInStep
<1>10. JobIsInOnePlace'
  BY <1>1, <1>5, <1>8 DEF PullInv, JobIsInOnePlace
<1>11. StreamInStep'
  BY <1>1, <1>2, <1>5, <1>7, <1>8, <1>9 DEF PullInv, StreamInStep, JobIsInOnePlace, MessageFits
<1>12. OneRelease' /\ CodesFit'
  BY <1>1, <1>5, <1>7, <1>8, <1>9 DEF PullInv, OneRelease, CodesFit, CodeFits
<1>13. TriedIsRecorded' /\ NothingLeft' /\ NoIntruder' /\ InOrder'
  BY <1>1, <1>5, <1>7 DEF PullInv, TriedIsRecorded, NothingLeft, NoIntruder, InOrder
<1> QED BY <1>6, <1>10, <1>11, <1>12, <1>13 DEF PullInv

\* The Done comes last: behind the message that was given up, or alone.
LEMMA FinishInv ==
    ASSUME PullInv, Finish
    PROVE  PullInv'
<1> DEFINE sent == Message("Done")
<1>1. /\ PullTypeOK /\ worker.at = "post" /\ Len(messages) < 2
      /\ messages' = Append(messages, sent) /\ worker' = Waiting
      /\ requests' = requests /\ acks' = acks /\ cancelled' = cancelled
      /\ pull' = pull /\ updater' = updater /\ attempt' = attempt /\ latest' = latest
      /\ caller' = caller /\ turn' = turn
  BY DEF PullInv, Finish, Post, At, loopSide, server
<1>2. /\ sent \in Messages /\ sent.kind = "Done" /\ sent.release = worker.release
      /\ sent.code = worker.code
  BY <1>1, MessageIs
<1> HIDE DEF sent
<1>3. messages \in Seq(Messages) /\ Len(messages) \in {0, 1}
  BY <1>1, QueueOfMessages DEF PullTypeOK
<1>4. /\ messages' \in Seq(Messages) /\ Len(messages') = Len(messages) + 1
      /\ messages'[Len(messages) + 1] = sent /\ messages' # <<>>
      /\ messages # <<>> => Len(messages) = 1 /\ messages'[1] = messages[1]
  BY <1>1, <1>2, <1>3
<1>5. messages = <<>> => Len(messages') = 1 /\ messages'[1] = sent
  BY <1>4
<1>6. messages # <<>> => Len(messages') = 2 /\ messages'[2] = sent /\ messages'[1] = messages[1] /\ Len(messages) = 1
  <2>1. messages # <<>> => Len(messages) = 1 /\ messages'[1] = messages[1]
    BY <1>4
  <2>2. Len(messages) = 1 => Len(messages') = 2 /\ messages'[2] = sent
    BY <1>4
  <2> QED BY <2>1, <2>2
<1>7. /\ worker' \in Workers /\ worker'.part = 0 /\ worker'.floor = 0
      /\ worker'.at = "wait" /\ worker'.release = 0
  BY <1>1, PullAssumption DEF Waiting, Workers, Codes
<1>8. PullTypeOK'
  BY <1>1, <1>4, <1>7 DEF PullTypeOK
<1>9. Transferring' = Transferring /\ Selected' = Selected /\ Open' = Open
  BY <1>1 DEF Transferring, Selected, Open
<1>10. JobIsInOnePlace'
  BY <1>1, <1>2, <1>4, <1>5, <1>6, <1>7 DEF PullInv, JobIsInOnePlace, IsDone
<1>11. StreamInStep'
  <2>1. requests = NoRequest
    BY <1>1 DEF PullInv, JobIsInOnePlace
  <2>2. messages' # <<>> /\ ~IsDone(messages'[1]) => messages # <<>> /\ messages'[1] = messages[1]
    BY <1>2, <1>5, <1>6 DEF IsDone
  <2>3. messages # <<>> => ~IsDone(messages[1])
    BY <1>1, <1>6 DEF PullInv, JobIsInOnePlace
  <2>4. messages # <<>> => MessageFits(messages[1])
    BY <2>3 DEF PullInv, StreamInStep
  <2>5. messages # <<>> => (MessageFits(messages[1]))'
    BY <1>1, <1>6, <1>9, <2>4 DEF MessageFits
  <2> QED BY <1>1, <1>7, <2>1, <2>2, <2>5 DEF StreamInStep, IsDone
<1>12. OneRelease'
  <2>1. worker.at # "wait"
    BY <1>1
  <2> QED BY <1>1, <1>2, <1>5, <1>6, <1>7, <1>9, <2>1 DEF PullInv, OneRelease
<1>13. CodesFit'
  <2>1. messages'[Len(messages')] = sent
    BY <1>3, <1>4
  <2> QED BY <1>1, <1>2, <1>7, <1>9, <2>1 DEF PullInv, CodesFit, CodeFits
<1>14. TriedIsRecorded' /\ NothingLeft' /\ NoIntruder' /\ InOrder'
  <2>1. attempt \in Nat
    BY <1>1 DEF PullTypeOK
  <2> QED BY <1>1, <1>7, <1>9, <2>1 DEF PullInv, TriedIsRecorded, NothingLeft, NoIntruder, InOrder
<1> QED BY <1>8, <1>10, <1>11, <1>12, <1>13, <1>14 DEF PullInv

-----------------------------------------------------------------------------
(* The steps of the loop.                                                  *)

\* A step that leaves the job where it is may close a transfer, but neither
\* opens nor selects one.
LEMMA LoopInv ==
    ASSUME PullInv, PullTypeOK', UNCHANGED <<requests, messages, acks, worker>>,
           pull'.busy = pull.busy, pull'.code = pull.code, pull'.tag = pull.tag,
           attempt <= attempt', updater' = updater \/ (~Selected /\ ~Open'),
           updater'.phase = "Prepared" => updater'.release > attempt' /\ updater'.origin # "GithubPull",
           NoIntruder'
    PROVE  PullInv'
<1>1. /\ requests' = requests /\ messages' = messages /\ acks' = acks /\ worker' = worker
      /\ PullTypeOK
  BY DEF PullInv
<1>2. /\ updater' = updater => Transferring' = Transferring /\ Selected' = Selected /\ Open' = Open
      /\ Open = (Transferring \/ Selected) /\ Open' = (Transferring' \/ Selected')
  BY DEF Transferring, Selected, Open
<1>3. /\ attempt \in Nat /\ attempt' \in Nat
      /\ pull.tag \in Nat /\ worker.floor \in Nat /\ updater.release \in Nat
      /\ requests # NoRequest => requests.floor \in Nat
      /\ worker.release \in Nat
      /\ messages # <<>> => messages[Len(messages)].release \in Nat
  <2>1. attempt \in Nat /\ attempt' \in Nat
    BY DEF PullInv, PullTypeOK
  <2>2. messages # <<>> => messages[Len(messages)] \in Messages
    BY <1>1, QueueOfMessages
  <2>3. messages # <<>> => messages[Len(messages)].release \in Nat
    BY <2>2, MessageFields
  <2> QED BY <1>1, <2>1, <2>3, Fields
<1>4. JobIsInOnePlace'
  BY <1>1 DEF PullInv, JobIsInOnePlace
<1>5. StreamInStep'
  <2>1. CASE updater' = updater
    BY <1>1, <1>2, <2>1 DEF PullInv, StreamInStep, MessageFits
  <2>2. CASE ~Selected /\ ~Open'
    BY <1>1, <1>2, <2>2 DEF PullInv, StreamInStep, MessageFits
  <2> QED BY <2>1, <2>2
<1>6. OneRelease'
  BY <1>1, <1>2 DEF PullInv, OneRelease
<1>7. CodesFit'
  <2>1. Selected => Selected'
    BY <1>2
  <2>2. worker.at \in {"close", "post"} => CodeFits(worker.code, worker.release)
    BY DEF PullInv, CodesFit
  <2>3. worker.at = "wait" /\ messages # <<>> =>
          CodeFits(messages[Len(messages)].code, messages[Len(messages)].release)
    BY DEF PullInv, CodesFit
  <2>4. worker'.at \in {"close", "post"} => CodeFits(worker.code, worker.release)'
    BY <1>1, <1>3, <2>1, <2>2 DEF CodeFits
  <2>5. worker'.at = "wait" /\ messages' # <<>> =>
          CodeFits(messages[Len(messages)].code, messages[Len(messages)].release)'
    BY <1>1, <1>3, <2>1, <2>3 DEF CodeFits
  <2> QED BY <2>4, <2>5 DEF CodesFit
<1>8. TriedIsRecorded'
  BY <1>1, <1>2, <1>3 DEF PullInv, TriedIsRecorded
<1>9. NothingLeft'
  BY <1>1, <1>2 DEF PullInv, NothingLeft
<1>10. InOrder'
  <2>1. CASE updater' = updater
    BY <1>2, <2>1 DEF PullInv, InOrder
  <2>2. CASE ~Open'
    BY <1>2, <2>2 DEF InOrder
  <2> QED BY <2>1, <2>2
<1> QED BY <1>4, <1>5, <1>6, <1>7, <1>8, <1>9, <1>10 DEF PullInv

\* A failed updater has nothing open.
LEMMA FailedIsShut ==
    ASSUME PullTypeOK, updater' = Phase("Failed")
    PROVE  updater' \in Updaters /\ updater'.phase = "Failed" /\ ~Open'
BY PhaseIs DEF Open, Transferring, Selected

LEMMA TickUpdaterInv ==
    ASSUME PullInv, TickUpdater
    PROVE  PullInv'
<1>1. /\ PullTypeOK /\ turn = "tick" /\ turn' = "pull"
      /\ requests' = requests /\ messages' = messages /\ acks' = acks /\ worker' = worker
      /\ cancelled' = cancelled /\ pull' = pull /\ attempt' = attempt /\ latest' = latest /\ caller' = caller
  BY DEF PullInv, TickUpdater, queues, server
<1>2. updater' = updater \/ (updater.phase \in {"Prepared", "Receiving"} /\ updater' = Phase("Failed"))
  BY DEF TickUpdater
<1>3. updater' = updater \/ (~Selected /\ ~Open' /\ updater' \in Updaters /\ updater'.phase = "Failed")
  BY <1>1, <1>2, FailedIsShut DEF Selected
<1>4. PullTypeOK'
  BY <1>1, <1>3 DEF PullTypeOK
<1>5. attempt <= attempt'
  BY <1>1 DEF PullTypeOK
<1>6. NoIntruder'
  BY <1>1, <1>3 DEF PullInv, NoIntruder, Open, Transferring, Selected
<1>7. updater'.phase = "Prepared" => updater'.release > attempt' /\ updater'.origin # "GithubPull"
  BY <1>1, <1>3 DEF PullInv, TriedIsRecorded
<1> QED BY <1>1, <1>3, <1>4, <1>5, <1>6, <1>7, LoopInv

LEMMA JobExpiresInv ==
    ASSUME PullInv, JobExpires
    PROVE  PullInv'
<1>1. /\ PullTypeOK /\ turn = "pull" /\ turn' = "late" /\ pull.busy
      /\ requests' = requests /\ messages' = messages /\ acks' = acks /\ worker' = worker
      /\ cancelled' = TRUE /\ pull' = pull /\ attempt' = attempt /\ latest' = latest /\ caller' = caller
  BY DEF PullInv, JobExpires, queues, server
<1>2. updater' = updater \/ (Transferring /\ updater' = Phase("Failed"))
  BY DEF JobExpires
<1>3. updater' = updater \/ (~Selected /\ ~Open' /\ updater' \in Updaters /\ updater'.phase = "Failed")
  BY <1>1, <1>2, FailedIsShut DEF Selected, Transferring
<1>4. PullTypeOK'
  BY <1>1, <1>3 DEF PullTypeOK
<1>5. attempt <= attempt'
  BY <1>1 DEF PullTypeOK
<1>6. NoIntruder'
  BY <1>1, <1>3 DEF PullInv, NoIntruder, Open, Transferring, Selected
<1>7. updater'.phase = "Prepared" => updater'.release > attempt' /\ updater'.origin # "GithubPull"
  BY <1>1, <1>3 DEF PullInv, TriedIsRecorded
<1> QED BY <1>1, <1>3, <1>4, <1>5, <1>6, <1>7, LoopInv

LEMMA NothingToDoInv ==
    ASSUME PullInv, NothingToDo
    PROVE  PullInv'
<1>1. /\ PullTypeOK /\ turn \in {"pull", "late"} /\ turn' = "http"
      /\ requests' = requests /\ messages' = messages /\ acks' = acks /\ worker' = worker
      /\ updater' = updater
      /\ cancelled' = cancelled /\ pull' = pull /\ attempt' = attempt /\ latest' = latest /\ caller' = caller
  BY DEF PullInv, NothingToDo, queues, server
<1>2. PullTypeOK'
  BY <1>1 DEF PullTypeOK
<1>3. attempt <= attempt'
  BY <1>1 DEF PullTypeOK
<1>4. NoIntruder'
  BY <1>1 DEF PullInv, NoIntruder, Open, Transferring, Selected
<1>5. updater'.phase = "Prepared" => updater'.release > attempt' /\ updater'.origin # "GithubPull"
  BY <1>1 DEF PullInv, TriedIsRecorded
<1> QED BY <1>1, <1>2, <1>3, <1>4, <1>5, LoopInv

\* An answer that nobody took stands in the way of the next.
LEMMA ReplyIs ==
    ASSUME PullTypeOK, messages # <<>>, NEW accepted \in BOOLEAN, Reply(accepted)
    PROVE  /\ messages' = Tail(messages) /\ acks' \in Seq(Acks) /\ cancelled' \in BOOLEAN
           /\ acks = <<>> => acks'[1] = [mine |-> messages[1].mine, accepted |-> accepted]
           /\ acks # <<>> => acks' = acks
<1> DEFINE answer == [mine |-> Head(messages).mine, accepted |-> accepted]
<1>1. /\ messages' = Tail(messages)
      /\ acks' = IF acks = <<>> THEN <<answer>> ELSE acks
      /\ cancelled' = (cancelled \/ acks # <<>>)
  BY DEF Reply
<1>2. Head(messages) = messages[1] /\ messages[1] \in Messages
  <2>1. Len(messages) \in Nat /\ Len(messages) # 0
    BY QueueOfMessages
  <2> QED BY <2>1, QueueOfMessages
<1>3. answer \in Acks /\ answer = [mine |-> messages[1].mine, accepted |-> accepted]
  BY <1>2, MessageFields DEF Acks
<1>4. acks \in Seq(Acks) /\ cancelled \in BOOLEAN
  BY DEF PullTypeOK
<1> HIDE DEF answer
<1>5. acks' \in Seq(Acks) /\ (acks = <<>> => acks'[1] = answer) /\ (acks # <<>> => acks' = acks)
  BY <1>1, <1>3, <1>4
<1>6. cancelled' \in BOOLEAN
  BY <1>1, Zenon
<1> QED BY <1>1, <1>3, <1>5, <1>6

\* A header or a chunk is taken and answered: what becomes of the updater is
\* what the answer says.
LEMMA TakenInv ==
    ASSUME PullInv, NEW kind \in {"Header", "Chunk"}, Received(kind), pull' = pull,
           NEW accepted \in BOOLEAN, Reply(accepted),
           updater' \in Updaters, attempt' \in Nat, attempt <= attempt',
           updater'.phase = "Prepared" => updater'.release > attempt' /\ updater'.origin # "GithubPull",
           Open' => /\ updater'.release = messages[1].release /\ updater'.release <= attempt'
                    /\ \A i \in DOMAIN updater'.got :
                          updater'.got[i] = [release |-> updater'.release, part |-> i],
           Selected' => updater'.framed,
           accepted => /\ Transferring' => Len(updater'.got) = messages[1].part
                       /\ Selected' <=> messages[1].part = ImageChunks
    PROVE  PullInv'
<1>1. /\ PullTypeOK /\ pull.busy /\ turn \in {"pull", "late"} /\ turn' = "http" /\ messages # <<>>
      /\ Head(messages).kind = kind
      /\ requests' = requests /\ worker' = worker /\ latest' = latest /\ caller' = caller
  BY DEF PullInv, Received, workerSide
<1>2. /\ messages' = Tail(messages) /\ acks' \in Seq(Acks) /\ cancelled' \in BOOLEAN
      /\ acks = <<>> => acks'[1] = [mine |-> messages[1].mine, accepted |-> accepted]
      /\ acks # <<>> => acks' = acks
  BY <1>1, ReplyIs
<1>3. /\ Len(messages) \in 1..2 /\ Len(messages') = Len(messages) - 1 /\ messages' \in Seq(Messages)
      /\ Head(messages) = messages[1] /\ (messages' = <<>> <=> Len(messages) = 1)
      /\ Len(messages) = 2 => messages'[1] = messages[2]
  <2>1. Len(messages) \in Nat /\ Len(messages) # 0 /\ Len(messages) <= 2
    BY <1>1, QueueOfMessages DEF PullInv, JobIsInOnePlace
  <2>2. /\ Len(messages') = Len(messages) - 1 /\ messages' \in Seq(Messages)
        /\ Head(messages) = messages[1] /\ (messages' = <<>> <=> Len(messages) = 1)
        /\ \A i \in 1..Len(messages) - 1 : messages'[i] = messages[i + 1]
    BY <1>1, <1>2, QueueOfMessages
  <2>3. Len(messages) = 2 => messages'[1] = messages[1 + 1]
    BY <2>2
  <2> QED BY <2>1, <2>2, <2>3
<1>4. ~IsDone(messages[1]) /\ MessageFits(messages[1]) /\ ~Selected
  BY <1>1, <1>3 DEF IsDone, PullInv, StreamInStep, MessageFits
<1>5. /\ requests = NoRequest /\ worker.at \notin {"check", "send"}
      /\ Len(messages) = 1 => worker.at # "wait"
      /\ Len(messages) = 2 => worker.at = "wait" /\ IsDone(messages[2])
  BY <1>1, <1>4 DEF PullInv, JobIsInOnePlace
<1>6. PullTypeOK'
  BY <1>1, <1>2, <1>3 DEF PullTypeOK
<1>7. /\ Open' = (Transferring' \/ Selected') /\ Open = (Transferring \/ Selected)
  BY DEF Open
<1>8. JobIsInOnePlace'
  BY <1>1, <1>3, <1>5 DEF PullInv, JobIsInOnePlace, IsDone
<1>9. StreamInStep'
  <2>1. messages' # <<>> => IsDone(messages'[1])
    BY <1>3, <1>5
  <2>2. ASSUME worker'.at = "await", acks' # <<>>, acks'[1].mine
        PROVE  /\ messages' = <<>>
               /\ acks'[1].accepted =>
                    /\ Transferring' => Len(updater'.got) = worker'.part
                    /\ Selected' <=> worker'.part = ImageChunks
    <3>1. Len(messages) = 1 /\ messages[1].part = worker.part
      BY <1>1, <1>3, <1>5, <2>2 DEF PullInv, StreamInStep
    <3>2. acks = <<>>
      BY <1>1, <1>2, <2>2 DEF PullInv, StreamInStep
    <3>3. acks'[1].accepted = accepted
      BY <1>2, <3>2
    <3> QED BY <1>1, <1>3, <3>1, <3>3
  <2> QED BY <1>1, <1>3, <1>5, <2>1, <2>2 DEF StreamInStep, IsDone
<1>10. OneRelease'
  <2>1. worker.at # "wait" => messages[1].release = worker.release
    BY <1>1 DEF PullInv, OneRelease
  <2>2. Len(messages) = 2 => messages[1].release = messages[2].release
    BY DEF PullInv, OneRelease
  <2> QED BY <1>1, <1>3, <1>5, <2>1, <2>2 DEF OneRelease
<1>11. CodesFit'
  <2>1. worker.at \in {"close", "post"} => CodeFits(worker.code, worker.release)
    BY DEF PullInv, CodesFit
  <2>2. Len(messages) = 2 => CodeFits(messages[2].code, messages[2].release)
    BY <1>1, <1>5 DEF PullInv, CodesFit
  <2>3. /\ attempt \in Nat /\ worker.release \in Nat
        /\ Len(messages) = 2 => messages[2].release \in Nat
    BY <1>1, Fields, QueueOfMessages, MessageFields DEF PullTypeOK
  <2>4. worker'.at \in {"close", "post"} => CodeFits(worker.code, worker.release)'
    BY <1>1, <1>4, <2>1, <2>3 DEF CodeFits
  <2>5. Len(messages) = 2 => CodeFits(messages[1].code, messages[1].release)'
    BY <1>3, <1>4, <2>2, <2>3 DEF CodeFits
  <2> QED BY <1>1, <1>3, <2>4, <2>5 DEF CodesFit
<1>12. TriedIsRecorded'
  <2>1. /\ attempt \in Nat /\ pull.tag \in Nat /\ worker.floor \in Nat
    BY <1>1, Fields DEF PullTypeOK
  <2> QED BY <1>1, <1>5, <2>1 DEF PullInv, TriedIsRecorded
<1>13. NothingLeft' /\ NoIntruder' /\ InOrder'
  BY <1>1 DEF PullInv, NothingLeft, NoIntruder, InOrder
<1> QED BY <1>6, <1>8, <1>9, <1>10, <1>11, <1>12, <1>13 DEF PullInv

\* The header begins the transfer, or is refused.
LEMMA TakeHeaderInv ==
    ASSUME PullInv, TakeHeader
    PROVE  PullInv'
<1> USE PullAssumption
<1> DEFINE release == messages[1].release
<1>1. /\ PullTypeOK /\ Received("Header") /\ messages # <<>> /\ Head(messages).kind = "Header" /\ pull' = pull
  BY DEF PullInv, TakeHeader, Received
<1>2. Head(messages) = messages[1] /\ messages[1] \in Messages
  <2>1. Len(messages) \in Nat /\ Len(messages) # 0
    BY <1>1, QueueOfMessages
  <2> QED BY <1>1, <2>1, QueueOfMessages
<1>3. release \in Nat /\ messages[1].part \in 0 .. ImageChunks
  BY <1>2, MessageFields
<1>4. messages[1].part = 0 /\ ~Selected /\ ~Transferring
  <2>1. MessageFits(messages[1])
    BY <1>1, <1>2 DEF IsDone, PullInv, StreamInStep
  <2>2. Len(updater.got) \in Nat
    BY <1>1, Fields
  <2> QED BY <1>1, <1>2, <1>3, <2>1, <2>2 DEF MessageFits
<1>5. updater \in Updaters /\ attempt \in Nat
  BY <1>1 DEF PullTypeOK
<1>6. \/ updater' = updater /\ attempt' = attempt /\ Reply(FALSE)
      \/ updater' = Phase("Failed") /\ attempt' = attempt /\ Reply(FALSE)
      \/ /\ release > attempt /\ Reply(TRUE)
         /\ updater' = Begun("GithubPull", release) /\ attempt' = release
      \/ /\ release > attempt /\ Reply(FALSE)
         /\ updater' = [Begun("GithubPull", release) EXCEPT !.phase = "Failed"]
         /\ attempt' \in {attempt, release}
  BY <1>2 DEF TakeHeader
<1>7. CASE updater' = updater /\ attempt' = attempt /\ Reply(FALSE)
  <2>1. ~Open'
    BY <1>4, <1>7 DEF Open, Transferring, Selected
  <2>2. updater'.phase = "Prepared" => updater'.release > attempt' /\ updater'.origin # "GithubPull"
    BY <1>7 DEF PullInv, TriedIsRecorded
  <2>3. ~Selected' /\ attempt <= attempt' /\ updater' \in Updaters /\ attempt' \in Nat
    BY <1>5, <1>7, <2>1 DEF Open
  <2> QED BY <1>1, <1>7, <2>1, <2>2, <2>3, TakenInv
<1>8. CASE updater' = Phase("Failed") /\ attempt' = attempt /\ Reply(FALSE)
  <2>1. ~Open' /\ updater'.phase = "Failed" /\ updater' \in Updaters
    BY <1>1, <1>8, FailedIsShut
  <2>2. ~Selected' /\ attempt <= attempt' /\ attempt' \in Nat
    BY <1>5, <1>8, <2>1 DEF Open
  <2> QED BY <1>1, <1>8, <2>1, <2>2, TakenInv
<1>9. CASE /\ release > attempt /\ Reply(TRUE)
           /\ updater' = Begun("GithubPull", release) /\ attempt' = release
  <2>1. updater' \in Updaters
    BY <1>3, <1>9, BegunIs
  <2>2. /\ updater'.phase = "Receiving" /\ updater'.release = release /\ updater'.got = <<>>
    BY <1>9 DEF Begun
  <2>3. ~Selected' /\ attempt <= attempt' /\ attempt' \in Nat /\ updater'.release <= attempt'
    BY <1>3, <1>5, <1>9, <2>2 DEF Selected
  <2>4. DOMAIN updater'.got = {} /\ Len(updater'.got) = 0
    BY <2>2
  <2>5. messages[1].part # ImageChunks
    BY <1>4
  <2>6. \A i \in DOMAIN updater'.got : updater'.got[i] = [release |-> updater'.release, part |-> i]
    BY <2>4
  <2>7. TRUE => /\ Transferring' => Len(updater'.got) = messages[1].part
                /\ Selected' <=> messages[1].part = ImageChunks
    BY <1>4, <2>3, <2>4, <2>5
  <2> QED BY <1>1, <1>9, <2>1, <2>2, <2>3, <2>6, <2>7, TakenInv
<1>10. CASE /\ release > attempt /\ Reply(FALSE)
            /\ updater' = [Begun("GithubPull", release) EXCEPT !.phase = "Failed"]
            /\ attempt' \in {attempt, release}
  <2>1. Begun("GithubPull", release) \in Updaters
    BY <1>3, BegunIs
  <2>2. updater' \in Updaters /\ updater'.phase = "Failed"
    BY <1>10, <2>1 DEF Updaters
  <2>3. ~Open' /\ ~Selected' /\ attempt <= attempt' /\ attempt' \in Nat
    BY <1>3, <1>5, <1>10, <2>2 DEF Open, Transferring, Selected
  <2> QED BY <1>1, <1>10, <2>2, <2>3, TakenInv
<1> QED BY <1>6, <1>7, <1>8, <1>9, <1>10

\* The chunk is the one that is next, and the last one is framed.
LEMMA TakeChunkInv ==
    ASSUME PullInv, TakeChunk
    PROVE  PullInv'
<1> USE PullAssumption
<1> DEFINE message == messages[1]
           written == Written(message.release, message.part, message.framed)
<1>1. /\ PullTypeOK /\ Received("Chunk") /\ messages # <<>> /\ Head(messages).kind = "Chunk"
      /\ pull' = pull /\ attempt' = attempt
  BY DEF PullInv, TakeChunk, Received
<1>2. Head(messages) = message /\ message \in Messages
  <2>1. Len(messages) \in Nat /\ Len(messages) # 0
    BY <1>1, QueueOfMessages
  <2> QED BY <1>1, <2>1, QueueOfMessages
<1>3. message.release \in Nat /\ message.part \in 0 .. ImageChunks /\ message.framed \in BOOLEAN
  BY <1>2, MessageFields
<1>4. MessageFits(message)
  BY <1>1, <1>2 DEF IsDone, PullInv, StreamInStep
<1>5. updater \in Updaters /\ attempt \in Nat /\ attempt <= attempt' /\ attempt' \in Nat
  BY <1>1 DEF PullTypeOK
<1>6. \/ updater' = updater /\ Reply(FALSE)
      \/ updater' = Phase("Failed") /\ Reply(FALSE)
      \/ Transferring /\ updater' = written /\ Reply(written.phase # "Failed")
  BY <1>2 DEF TakeChunk
<1>7. CASE updater' = updater /\ Reply(FALSE)
  <2>1. ~Selected' /\ Open' = Open
    BY <1>4, <1>7 DEF MessageFits, Open, Transferring, Selected
  <2>2. updater'.phase = "Prepared" => updater'.release > attempt' /\ updater'.origin # "GithubPull"
    BY <1>1, <1>7 DEF PullInv, TriedIsRecorded
  <2>3. Open' => /\ updater'.release = messages[1].release /\ updater'.release <= attempt'
                 /\ \A i \in DOMAIN updater'.got :
                       updater'.got[i] = [release |-> updater'.release, part |-> i]
    BY <1>1, <1>7, <2>1 DEF PullInv, OneRelease, TriedIsRecorded, InOrder
  <2> QED BY <1>1, <1>5, <1>7, <2>1, <2>2, <2>3, TakenInv
<1>8. CASE updater' = Phase("Failed") /\ Reply(FALSE)
  <2>1. ~Open' /\ updater'.phase = "Failed" /\ updater' \in Updaters
    BY <1>1, <1>8, FailedIsShut
  <2>2. ~Selected'
    BY <2>1 DEF Open
  <2> QED BY <1>1, <1>5, <1>8, <2>1, <2>2, TakenInv
<1>9. CASE Transferring /\ updater' = written /\ Reply(written.phase # "Failed")
  <2>1. Len(updater.got) = message.part - 1 /\ Len(updater.got) \in Nat /\ DOMAIN updater.got = 1..Len(updater.got)
    BY <1>1, <1>4, <1>9, Fields DEF MessageFits
  <2>2. /\ updater.release = message.release /\ updater.release <= attempt
        /\ \A i \in 1..Len(updater.got) : updater.got[i] = [release |-> updater.release, part |-> i]
    BY <1>1, <1>9, <2>1 DEF PullInv, OneRelease, TriedIsRecorded, InOrder, Open
  <2>3. /\ written \in Updaters
        /\ written.origin = updater.origin /\ written.release = updater.release
        /\ written.framed = message.framed
        /\ Len(written.got) = Len(updater.got) + 1
        /\ \A i \in 1..Len(updater.got) : written.got[i] = updater.got[i]
        /\ written.got[Len(updater.got) + 1] = [release |-> message.release, part |-> message.part]
        /\ written.phase \in {"Receiving", "RebootPending", "Failed"}
        /\ written.phase = "Receiving" <=> Len(updater.got) + 1 < ImageChunks
    <3>1. /\ PullTypeOK /\ message.release \in Nat /\ message.part \in Nat
          /\ message.framed \in BOOLEAN
      BY <1>1, <1>3
    <3> HIDE DEF message
    <3> QED BY ONLY <3>1, WrittenIs DEF written
  <2> HIDE DEF written
  <2>4. Len(updater'.got) = message.part /\ updater' \in Updaters /\ updater'.phase # "Prepared"
    BY <1>3, <1>9, <2>1, <2>3
  <2>5. \A i \in DOMAIN updater'.got : updater'.got[i] = [release |-> updater'.release, part |-> i]
    <3>1. updater'.got \in Seq(Parts)
      BY <2>4 DEF Updaters
    <3>2. DOMAIN updater'.got = 1..message.part
      BY <2>4, <3>1
    <3>3. ASSUME NEW i \in 1..message.part
          PROVE  updater'.got[i] = [release |-> updater'.release, part |-> i]
      <4>1. CASE i \in 1..Len(updater.got)
        BY <1>9, <2>2, <2>3, <4>1
      <4>2. CASE i = message.part
        BY <1>9, <2>1, <2>2, <2>3, <4>2
      <4> QED BY <1>3, <2>1, <4>1, <4>2
    <3> QED BY <3>2, <3>3
  <2>6. updater'.release = message.release /\ updater'.release <= attempt'
    BY <1>1, <1>9, <2>2, <2>3
  <2>7. updater'.origin = "GithubPull"
    BY <1>9, <2>3 DEF Transferring
  <2>8. Selected' <=> written.phase = "RebootPending"
    BY <1>9, <2>7 DEF Selected
  <2>9. written.phase = "Receiving" <=> message.part # ImageChunks
    BY <1>3, <2>1, <2>3
  <2>10. Selected' => updater'.framed
    BY <1>4, <1>9, <2>3, <2>8, <2>9 DEF MessageFits
  <2>11. written.phase # "Failed" =>
           /\ Transferring' => Len(updater'.got) = messages[1].part
           /\ Selected' <=> messages[1].part = ImageChunks
    BY <2>3, <2>4, <2>8, <2>9
  <2>12. (written.phase # "Failed") \in BOOLEAN
    OBVIOUS
  <2> QED BY <1>1, <1>5, <1>9, <2>4, <2>5, <2>6, <2>10, <2>11, <2>12, TakenInv
<1> QED BY <1>6, <1>7, <1>8, <1>9

\* The Done is the last of the job.  The flash says whether a slot is selected.
LEMMA TakeDoneInv ==
    ASSUME PullInv, TakeDone
    PROVE  PullInv'
<1> DEFINE done == messages[1]
           code == Reported(done, Selected)
<1>1. /\ PullTypeOK /\ pull.busy /\ turn \in {"pull", "late"} /\ turn' = "http" /\ messages # <<>>
      /\ Head(messages).kind = "Done" /\ messages' = Tail(messages)
      /\ requests' = requests /\ worker' = worker /\ latest' = latest /\ caller' = caller
      /\ acks' = acks /\ cancelled' = cancelled /\ attempt' = attempt
      /\ updater' = IF Transferring THEN Phase("Failed") ELSE updater
  BY DEF PullInv, TakeDone, Received, workerSide
<1>2. /\ Len(messages) \in Nat /\ Len(messages) # 0 /\ Head(messages) = done /\ done \in Messages
      /\ Tail(messages) \in Seq(Messages) /\ (Tail(messages) = <<>> <=> Len(messages) = 1)
  <2>1. Len(messages) \in Nat /\ Len(messages) # 0
    BY <1>1, QueueOfMessages
  <2> QED BY <1>1, <2>1, QueueOfMessages
<1>3. IsDone(done)
  BY <1>1, <1>2 DEF IsDone
<1>4. Len(messages) = 1 /\ worker.at = "wait" /\ messages' = <<>> /\ requests = NoRequest
  <2>1. /\ Len(messages) <= 2
        /\ Len(messages) = 2 => ~IsDone(messages[1])
        /\ Len(messages) = 1 => (IsDone(messages[1]) <=> worker.at = "wait")
        /\ requests # NoRequest => messages = <<>>
    BY DEF PullInv, JobIsInOnePlace
  <2>2. Len(messages) = 1
    <3>1. Len(messages) \in Nat /\ Len(messages) # 0 /\ Len(messages) # 2
      BY <1>2, <1>3, <2>1, Zenon
    <3>2. Len(messages) <= 2
      BY <2>1
    <3>3. \A n \in Nat : n # 0 /\ n # 2 /\ n <= 2 => n = 1
      OBVIOUS
    <3> QED BY <3>1, <3>2, <3>3, Zenon
  <2> QED BY <1>1, <1>2, <1>3, <2>1, <2>2
<1>5. done.release \in Nat /\ done.code \in Codes
  BY <1>2, MessageFields
<1>6. CodeFits(done.code, done.release) /\ (Selected => done.release = updater.release)
  BY <1>1, <1>4 DEF PullInv, CodesFit, OneRelease, Open
<1>7. pull' = [pull EXCEPT !.busy = FALSE, !.reboot = Selected, !.code = code,
                           !.tag = NextTag(code, done.release)]
  BY <1>2 DEF TakeDone, Selected
<1>8. /\ code \in Codes /\ (Selected => code = "Updated") /\ (~Selected => code = done.code)
  BY <1>5 DEF Reported, Codes, Successful
<1>9. code = "Updated" <=> Selected
  BY <1>6, <1>8 DEF CodeFits
<1>10. /\ pull.tag \in Nat /\ attempt \in Nat /\ pull \in Pulls /\ updater \in Updaters
       /\ pull.tag <= attempt
  BY <1>1, Fields DEF PullTypeOK, PullInv, TriedIsRecorded
<1>11. code \in Successful => done.release <= attempt
  <2>1. CASE Selected
    BY <1>6, <2>1 DEF PullInv, TriedIsRecorded, Open
  <2>2. CASE ~Selected
    BY <1>5, <1>6, <1>8, <1>10, <2>2 DEF CodeFits, Successful
  <2> QED BY <2>1, <2>2
<1>12. NextTag(code, done.release) \in Nat /\ NextTag(code, done.release) <= attempt
  BY <1>5, <1>10, <1>11 DEF NextTag
<1> HIDE DEF code
<1>13. Selected \in BOOLEAN
  BY DEF Selected
<1>14. /\ pull' \in Pulls /\ pull'.busy = FALSE /\ pull'.code = code /\ pull'.tag <= attempt
  BY <1>7, <1>8, <1>10, <1>12, <1>13 DEF Pulls
<1>15. /\ updater' \in Updaters /\ ~Transferring' /\ (Selected' <=> Selected)
       /\ (Open' => updater' = updater) /\ (updater'.phase = "Prepared" => updater' = updater)
       /\ (Open' => Open) /\ (Open' <=> Selected') /\ (updater' = updater \/ updater'.phase = "Failed")
  <2>1. CASE Transferring
    <3>1. ~Open' /\ updater' \in Updaters /\ updater'.phase = "Failed"
      BY <1>1, <2>1, FailedIsShut
    <3> QED BY <2>1, <3>1 DEF Open, Transferring, Selected
  <2>2. CASE ~Transferring
    BY <1>1, <1>10, <2>2 DEF Open, Transferring, Selected
  <2> QED BY <2>1, <2>2
<1>16. PullTypeOK'
  BY <1>1, <1>2, <1>14, <1>15 DEF PullTypeOK
<1>17. JobIsInOnePlace'
  <2>1. Len(messages') = 0
    BY <1>4
  <2>2. requests' = NoRequest /\ worker'.at = "wait"
    BY <1>1, <1>4
  <2> QED BY <1>4, <1>14, <2>1, <2>2 DEF JobIsInOnePlace
<1>18. StreamInStep' /\ OneRelease' /\ CodesFit'
  <2>1. Len(messages') = 0 /\ messages' = <<>>
    BY <1>4
  <2>2. requests' = NoRequest /\ worker'.at = "wait"
    BY <1>1, <1>4
  <2> QED BY <2>1, <2>2 DEF StreamInStep, OneRelease, CodesFit
<1>19. TriedIsRecorded'
  BY <1>1, <1>4, <1>14, <1>15 DEF PullInv, TriedIsRecorded
<1>20. NothingLeft'
  BY <1>9, <1>14, <1>15 DEF NothingLeft
<1>21. NoIntruder'
  BY <1>1, <1>14, <1>15 DEF PullInv, NoIntruder
<1>22. InOrder'
  <2>1. CASE Open'
    <3>1. updater' = updater /\ Open
      BY <1>15, <2>1
    <3>2. Selected' => Selected
      BY <1>15
    <3> QED BY <3>1, <3>2 DEF PullInv, InOrder
  <2>2. CASE ~Open'
    <3>1. ~Selected'
      BY <1>15, <2>2
    <3> QED BY <2>2, <3>1 DEF InOrder
  <2> QED BY <2>1, <2>2
<1> QED BY <1>16, <1>17, <1>18, <1>19, <1>20, <1>21, <1>22 DEF PullInv

\* A job starts where none is, and with nothing open.
LEMMA StartJobInv ==
    ASSUME PullInv, NEW ok \in BOOLEAN, StartJob(ok)
    PROVE  PullInv'
<1>1. /\ PullTypeOK /\ turn = "pull" /\ turn' = "http" /\ ~pull.busy
      /\ updater.phase \in {"Idle", "Failed"}
      /\ pull' = [pull EXCEPT !.requested = FALSE, !.busy = ok, !.code = IF ok THEN @ ELSE "Failed"]
      /\ requests' = IF ok THEN [floor |-> attempt, tag |-> pull.tag] ELSE requests
      /\ cancelled' \in IF ok THEN {FALSE} ELSE {FALSE, cancelled}
      /\ messages' = messages /\ acks' = acks /\ worker' = worker /\ updater' = updater
      /\ attempt' = attempt /\ latest' = latest /\ caller' = caller
  BY DEF PullInv, StartJob, server
<1>2. ~Transferring /\ ~Selected /\ ~Open /\ ~Transferring' /\ ~Selected' /\ ~Open'
  BY <1>1 DEF Transferring, Selected, Open
<1>3. requests = NoRequest /\ worker.at = "wait" /\ messages = <<>>
  BY <1>1 DEF PullInv, JobIsInOnePlace
<1>4. pull \in Pulls /\ attempt \in Nat /\ pull.tag \in Nat /\ cancelled \in BOOLEAN
  BY <1>1, Fields DEF PullTypeOK
<1>5. /\ pull' \in Pulls /\ pull'.busy = ok /\ pull'.tag = pull.tag
      /\ ~ok => pull'.code = "Failed"
  BY <1>1, <1>4 DEF Pulls, Codes
<1>6. /\ ok => requests' \in Requests /\ requests'.floor = attempt /\ requests' # NoRequest
      /\ ~ok => requests' = NoRequest
  <2>1. [floor |-> attempt, tag |-> pull.tag] \in Requests
    BY <1>4 DEF Requests
  <2>2. NoRequest \notin Requests
    BY PullAssumption DEF Requests
  <2> QED BY <1>1, <1>3, <2>1, <2>2
<1>7. PullTypeOK'
  BY <1>1, <1>4, <1>5, <1>6 DEF PullTypeOK
<1>8. Len(messages') = 0
  BY <1>1, <1>3
<1>9. JobIsInOnePlace'
  BY <1>1, <1>3, <1>5, <1>6, <1>8 DEF JobIsInOnePlace
<1>10. StreamInStep' /\ OneRelease' /\ CodesFit'
  BY <1>1, <1>2, <1>3, <1>8 DEF StreamInStep, OneRelease, CodesFit
<1>11. TriedIsRecorded'
  BY <1>1, <1>2, <1>4, <1>5, <1>6 DEF PullInv, TriedIsRecorded
<1>12. NothingLeft' /\ NoIntruder' /\ InOrder'
  BY <1>1, <1>2, <1>5 DEF PullInv, NothingLeft, NoIntruder, InOrder
<1> QED BY <1>7, <1>9, <1>10, <1>11, <1>12 DEF PullInv

-----------------------------------------------------------------------------
(* The HTTP service, a restart and a new release.                          *)

LEMMA HttpFrame ==
    ASSUME PullInv, Http
    PROVE  /\ PullTypeOK /\ turn = "http" /\ turn' = "tick"
           /\ requests' = requests /\ messages' = messages /\ acks' = acks /\ worker' = worker
           /\ cancelled' = cancelled /\ latest' = latest
BY DEF PullInv, Http, queues

LEMMA HttpIdlesInv ==
    ASSUME PullInv, HttpIdles
    PROVE  PullInv'
<1>1. /\ Http /\ pull' = pull /\ updater' = updater /\ attempt' = attempt /\ caller' = caller
      /\ caller = "upload" => updater.phase = "Receiving"
  BY DEF HttpIdles
<1>2. PullTypeOK'
  BY <1>1, HttpFrame DEF PullTypeOK
<1>3. attempt <= attempt'
  BY <1>1, HttpFrame DEF PullTypeOK
<1>4. NoIntruder'
  BY <1>1, HttpFrame DEF PullInv, NoIntruder, Open, Transferring, Selected
<1>5. updater'.phase = "Prepared" => updater'.release > attempt' /\ updater'.origin # "GithubPull"
  BY <1>1 DEF PullInv, TriedIsRecorded
<1> QED BY <1>1, <1>2, <1>3, <1>4, <1>5, HttpFrame, LoopInv

LEMMA HttpChecksInv ==
    ASSUME PullInv, HttpChecks
    PROVE  PullInv'
<1>1. /\ Http /\ caller = "none" /\ pull' = [pull EXCEPT !.requested = TRUE]
      /\ updater' = updater /\ attempt' = attempt /\ caller' = caller
  BY DEF HttpChecks
<1>2. pull \in Pulls
  BY <1>1, HttpFrame DEF PullTypeOK
<1>3. pull' \in Pulls /\ pull'.busy = pull.busy /\ pull'.code = pull.code /\ pull'.tag = pull.tag
  BY <1>1, <1>2 DEF Pulls
<1>4. PullTypeOK'
  BY <1>1, <1>3, HttpFrame DEF PullTypeOK
<1>5. attempt <= attempt'
  BY <1>1, HttpFrame DEF PullTypeOK
<1>6. NoIntruder'
  BY <1>1 DEF NoIntruder
<1>7. updater'.phase = "Prepared" => updater'.release > attempt' /\ updater'.origin # "GithubPull"
  BY <1>1 DEF PullInv, TriedIsRecorded
<1> QED BY <1>1, <1>3, <1>4, <1>5, <1>6, <1>7, HttpFrame, LoopInv

LEMMA HttpPreparesInv ==
    ASSUME PullInv, HttpPrepares
    PROVE  PullInv'
<1>1. /\ Http /\ pull' = pull /\ updater' = updater /\ attempt' = attempt /\ caller' = "prepare"
  BY DEF HttpPrepares
<1>2. PullTypeOK'
  BY <1>1, HttpFrame DEF PullTypeOK
<1>3. attempt <= attempt'
  BY <1>1, HttpFrame DEF PullTypeOK
<1>4. NoIntruder'
  BY <1>1 DEF NoIntruder
<1>5. updater'.phase = "Prepared" => updater'.release > attempt' /\ updater'.origin # "GithubPull"
  BY <1>1 DEF PullInv, TriedIsRecorded
<1> QED BY <1>1, <1>2, <1>3, <1>4, <1>5, HttpFrame, LoopInv

LEMMA HttpBodyInv ==
    ASSUME PullInv, NEW release \in Version, NEW origin \in Origin, HttpBody(origin, release)
    PROVE  PullInv'
<1>1. /\ Http /\ caller' = "none" /\ pull' = pull /\ attempt' = attempt
      /\ \/ updater' = updater
         \/ updater.phase \in {"Idle", "Failed"} /\ updater' = Phase("Failed")
         \/ /\ updater.phase \in {"Idle", "Failed"} /\ release > attempt
            /\ updater' = [Begun(origin, release) EXCEPT !.phase = "Prepared"]
  BY DEF HttpBody
<1>2. updater \in Updaters /\ attempt \in Nat /\ PullTypeOK
  BY <1>1, HttpFrame DEF PullTypeOK
<1>3. /\ updater' \in Updaters
      /\ updater' = updater \/ (~Selected /\ ~Open')
      /\ updater'.phase = "Prepared" => updater'.release > attempt' /\ updater'.origin # "GithubPull"
  <2>1. CASE updater' = updater
    BY <1>1, <1>2, <2>1 DEF PullInv, TriedIsRecorded
  <2>2. CASE updater.phase \in {"Idle", "Failed"} /\ updater' = Phase("Failed")
    BY <1>2, <2>2, FailedIsShut DEF Selected
  <2>3. CASE /\ updater.phase \in {"Idle", "Failed"} /\ release > attempt
             /\ updater' = [Begun(origin, release) EXCEPT !.phase = "Prepared"]
    <3>1. release \in Nat
      BY PullAssumption DEF Version
    <3>2. Begun(origin, release) \in Updaters
      BY <3>1, BegunIs
    <3>3. updater' \in Updaters
      BY <2>3, <3>2 DEF Updaters
    <3>4. updater' = [Begun(origin, release) EXCEPT !.phase = "Prepared"]
      BY <2>3
    <3>5. updater'.phase = "Prepared" /\ updater'.release = release /\ updater'.origin = origin
      BY <3>4 DEF Begun
    <3>6. origin # "GithubPull"
      BY DEF Origin
    <3> QED BY <1>1, <2>3, <3>3, <3>5, <3>6 DEF Open, Transferring, Selected
  <2> QED BY <1>1, <2>1, <2>2, <2>3
<1>4. PullTypeOK'
  BY <1>1, <1>3, HttpFrame DEF PullTypeOK
<1>5. attempt <= attempt' /\ NoIntruder'
  BY <1>1, <1>2 DEF NoIntruder
<1> QED BY <1>1, <1>3, <1>4, <1>5, HttpFrame, LoopInv

LEMMA HttpStartsInv ==
    ASSUME PullInv, HttpStarts
    PROVE  PullInv'
<1>1. /\ Http /\ ~pull.busy /\ pull' = pull /\ updater.phase = "Prepared"
      /\ updater' \in {Phase("Receiving"), Phase("Failed")} /\ caller' \in {caller, "upload"}
      /\ attempt' \in {attempt, updater.release}
  BY DEF HttpStarts, AdmitsUpload, Admitted, PullBusy
<1>2. PullTypeOK /\ attempt \in Nat /\ updater.release \in Nat
  BY <1>1, HttpFrame, Fields DEF PullTypeOK
<1>3. updater.release > attempt /\ updater.origin # "GithubPull"
  BY <1>1 DEF PullInv, TriedIsRecorded
<1>4. updater' \in Updaters /\ updater'.phase # "Prepared" /\ updater'.origin = updater.origin
  BY <1>1, <1>2, PhaseIs
<1>5. ~Selected /\ ~Open'
  BY <1>3, <1>4 DEF Selected, Open, Transferring
<1>6. PullTypeOK'
  BY <1>1, <1>2, <1>4, HttpFrame DEF PullTypeOK
<1>7. attempt <= attempt' /\ NoIntruder'
  BY <1>1, <1>2, <1>3, <1>5 DEF NoIntruder
<1> QED BY <1>1, <1>4, <1>5, <1>6, <1>7, HttpFrame, LoopInv

LEMMA HttpChunkInv ==
    ASSUME PullInv, HttpChunk
    PROVE  PullInv'
<1> DEFINE written == Written(updater.release, Len(updater.got) + 1, FALSE)
<1>1. /\ Http /\ caller = "upload" /\ updater.phase = "Receiving"
      /\ pull' = pull /\ attempt' = attempt
      /\ updater' \in {written, Phase("Failed")} /\ caller' \in {caller, "none"}
  BY DEF HttpChunk
<1>2. PullTypeOK /\ attempt \in Nat /\ updater.release \in Nat /\ Len(updater.got) + 1 \in Nat
  BY <1>1, HttpFrame, Fields DEF PullTypeOK
<1>3. updater.origin # "GithubPull" /\ ~pull.busy
  BY <1>1 DEF PullInv, NoIntruder, Open, Transferring
<1>4. written \in Updaters /\ written.origin = updater.origin /\ written.phase # "Prepared"
  BY <1>2, WrittenIs
<1> HIDE DEF written
<1>5. updater' \in Updaters /\ updater'.phase # "Prepared" /\ updater'.origin = updater.origin
  BY <1>1, <1>2, <1>4, PhaseIs
<1>6. ~Selected /\ ~Open'
  BY <1>3, <1>5 DEF Selected, Open, Transferring
<1>7. PullTypeOK'
  BY <1>1, <1>2, <1>5, HttpFrame DEF PullTypeOK
<1>8. attempt <= attempt' /\ NoIntruder'
  BY <1>1, <1>2, <1>3, <1>6 DEF NoIntruder
<1> QED BY <1>1, <1>5, <1>6, <1>7, <1>8, HttpFrame, LoopInv

LEMMA HttpEndsInv ==
    ASSUME PullInv, HttpEnds
    PROVE  PullInv'
<1>1. /\ Http /\ caller' = "none" /\ pull' = pull /\ attempt' = attempt
      /\ updater' = updater \/ (updater.phase = "Receiving" /\ updater' = Phase("Failed"))
  BY DEF HttpEnds
<1>2. PullTypeOK /\ attempt \in Nat
  BY <1>1, HttpFrame DEF PullTypeOK
<1>3. updater' = updater \/ (~Selected /\ ~Open' /\ updater' \in Updaters /\ updater'.phase = "Failed")
  BY <1>1, <1>2, FailedIsShut DEF Selected
<1>4. PullTypeOK'
  BY <1>1, <1>2, <1>3, HttpFrame DEF PullTypeOK
<1>5. attempt <= attempt' /\ NoIntruder'
  BY <1>1, <1>2 DEF NoIntruder
<1>6. updater'.phase = "Prepared" => updater'.release > attempt' /\ updater'.origin # "GithubPull"
  BY <1>1, <1>3 DEF PullInv, TriedIsRecorded
<1> QED BY <1>1, <1>3, <1>4, <1>5, <1>6, HttpFrame, LoopInv

\* A device that has just started.
JustStarted ==
    /\ requests = NoRequest /\ messages = <<>> /\ acks = <<>> /\ cancelled = FALSE
    /\ worker = Waiting /\ pull = NeverPulled /\ updater = NoImageYet
    /\ caller = "none" /\ turn = "tick" /\ attempt \in Nat /\ latest \in Nat
LEMMA StartedInv == JustStarted => PullInv
<1> SUFFICES ASSUME JustStarted PROVE PullInv
  OBVIOUS
<1> USE DEF JustStarted
<1>1. /\ worker.at = "wait" /\ worker.floor = 0 /\ worker \in Workers
  BY PullAssumption DEF Waiting, Workers, Codes
<1>2. /\ pull.busy = FALSE /\ pull.tag = 0 /\ pull.code = "None" /\ pull \in Pulls
  BY DEF NeverPulled, Pulls, Codes
<1>3. /\ updater.phase = "Idle" /\ updater \in Updaters
  <2>1. <<>> \in Seq(Parts)
    OBVIOUS
  <2> HIDE DEF Parts
  <2> QED BY <2>1 DEF NoImageYet, Updaters
<1>4. /\ messages \in Seq(Messages) /\ acks \in Seq(Acks) /\ Len(messages) = 0
  OBVIOUS
<1>5. PullTypeOK
  BY <1>1, <1>2, <1>3, <1>4 DEF PullTypeOK
<1>6. ~Open /\ ~Transferring /\ ~Selected
  BY <1>3 DEF Open, Transferring, Selected
<1>7. JobIsInOnePlace
  BY <1>1, <1>2, <1>4 DEF JobIsInOnePlace
<1>8. StreamInStep /\ OneRelease /\ CodesFit
  BY <1>1, <1>4, <1>6 DEF StreamInStep, OneRelease, CodesFit
<1>9. TriedIsRecorded
  BY <1>1, <1>2, <1>3, <1>6 DEF TriedIsRecorded
<1>10. NothingLeft /\ NoIntruder /\ InOrder
  BY <1>2, <1>6 DEF NothingLeft, NoIntruder, InOrder
<1> QED BY <1>5, <1>7, <1>8, <1>9, <1>10 DEF PullInv

LEMMA RestartDeviceInv ==
    ASSUME PullInv, RestartDevice
    PROVE  PullInv'
<1>1. /\ requests' = NoRequest /\ messages' = <<>> /\ acks' = <<>> /\ cancelled' = FALSE
      /\ worker' = Waiting /\ pull' = NeverPulled /\ updater' = NoImageYet
      /\ caller' = "none" /\ turn' = "tick" /\ latest' = latest
      /\ attempt' \in {attempt, updater.release}
  BY DEF RestartDevice
<1>2. attempt \in Nat /\ updater.release \in Nat /\ latest \in Nat
  BY Fields DEF PullInv, PullTypeOK
<1>3. attempt' \in Nat /\ latest' \in Nat
  BY <1>1, <1>2
<1>4. JustStarted'
  BY <1>1, <1>3 DEF JustStarted
<1> QED BY <1>4, StartedInv, PTL

LEMMA PublishInv ==
    ASSUME PullInv, NEW release \in Version, Publish(release)
    PROVE  PullInv'
<1>1. /\ latest' = release /\ requests' = requests /\ messages' = messages /\ acks' = acks
      /\ cancelled' = cancelled /\ worker' = worker /\ pull' = pull /\ updater' = updater
      /\ attempt' = attempt /\ caller' = caller /\ turn' = turn
  BY DEF Publish, queues
<1>2. release \in Nat
  BY PullAssumption DEF Version
<1>3. PullTypeOK' /\ attempt <= attempt'
  BY <1>1, <1>2 DEF PullInv, PullTypeOK
<1>4. NoIntruder'
  BY <1>1 DEF PullInv, NoIntruder, Open, Transferring, Selected
<1>5. updater'.phase = "Prepared" => updater'.release > attempt' /\ updater'.origin # "GithubPull"
  BY <1>1 DEF PullInv, TriedIsRecorded
<1> QED BY <1>1, <1>3, <1>4, <1>5, LoopInv

-----------------------------------------------------------------------------
(* The theorems.                                                           *)

LEMMA PullInvHolds == PullSpec => []PullInv
<1>1. PullInit => PullInv
  <2> SUFFICES ASSUME PullInit PROVE PullInv
    OBVIOUS
  <2> QED BY StartedInv DEF PullInit, JustStarted
<1>2. PullInv /\ [PullNext]_pullVars => PullInv'
  <2> SUFFICES ASSUME PullInv, [PullNext]_pullVars PROVE PullInv'
    OBVIOUS
  <2>1. CASE WorkerStep
    BY <2>1, TakeRequestInv, CheckReleaseInv, FailInv, SendInv, TakeAckInv, CloseInv, FinishInv
       DEF WorkerStep
  <2>2. CASE TickUpdater \/ JobExpires \/ TakeHeader \/ TakeChunk \/ TakeDone \/ NothingToDo
    BY <2>2, TickUpdaterInv, JobExpiresInv, TakeHeaderInv, TakeChunkInv, TakeDoneInv, NothingToDoInv
  <2>3. CASE \E ok \in BOOLEAN : StartJob(ok)
    BY <2>3, StartJobInv
  <2>4. CASE HttpIdles \/ HttpChecks \/ HttpPrepares \/ HttpStarts \/ HttpChunk \/ HttpEnds
    BY <2>4, HttpIdlesInv, HttpChecksInv, HttpPreparesInv, HttpStartsInv, HttpChunkInv, HttpEndsInv
  <2>5. CASE \E release \in Version : Publish(release) \/ \E origin \in Origin : HttpBody(origin, release)
    BY <2>5, PublishInv, HttpBodyInv
  <2>6. CASE RestartDevice
    BY <2>6, RestartDeviceInv
  <2>7. CASE UNCHANGED pullVars
    <3>1. /\ requests' = requests /\ messages' = messages /\ acks' = acks
          /\ cancelled' = cancelled /\ worker' = worker /\ pull' = pull /\ updater' = updater
          /\ attempt' = attempt /\ caller' = caller /\ turn' = turn /\ latest' = latest
      BY <2>7 DEF pullVars, queues, server
    <3>2. PullTypeOK' /\ attempt <= attempt'
      BY <3>1 DEF PullInv, PullTypeOK
    <3>3. NoIntruder'
      BY <3>1 DEF PullInv, NoIntruder, Open, Transferring, Selected
    <3>4. updater'.phase = "Prepared" => updater'.release > attempt' /\ updater'.origin # "GithubPull"
      BY <3>1 DEF PullInv, TriedIsRecorded
    <3> QED BY <3>1, <3>2, <3>3, <3>4, LoopInv
  <2> QED BY <2>1, <2>2, <2>3, <2>4, <2>5, <2>6, <2>7 DEF PullNext
<1> QED BY <1>1, <1>2, PTL DEF PullSpec

\* Whatever is late, lost or refused, the pull is busy exactly as long as the
\* worker owes it a Done; a job that is over has left no transfer open, reports
\* an update if and only if the flash selected one, and keeps no ETag of a
\* release that was not tried (Pull::poll, github_pull.h).
THEOREM PullAccounted == PullSpec => []PullIsAccountedFor
<1>1. PullInv => PullIsAccountedFor
  <2> SUFFICES ASSUME PullInv PROVE PullIsAccountedFor
    OBVIOUS
  <2>1. Len(messages) \in Nat /\ (messages = <<>> <=> Len(messages) = 0) /\ DOMAIN messages = 1..Len(messages)
    BY QueueOfMessages DEF PullInv, PullTypeOK
  <2>2. WorkerHasJob <=> requests # NoRequest \/ worker.at # "wait" \/ messages # <<>>
    <3>1. ASSUME messages # <<>>, worker.at = "wait"
          PROVE  \E i \in DOMAIN messages : messages[i].kind = "Done"
      <4>1. Len(messages) \in {1, 2}
        <5>1. Len(messages) <= 2
          BY DEF PullInv, JobIsInOnePlace
        <5> QED BY <2>1, <3>1, <5>1
      <4>2. CASE Len(messages) = 1
        BY <2>1, <3>1, <4>2 DEF PullInv, JobIsInOnePlace, IsDone
      <4>3. CASE Len(messages) = 2
        BY <2>1, <3>1, <4>3 DEF PullInv, JobIsInOnePlace, IsDone
      <4> QED BY <4>1, <4>2, <4>3
    <3>2. (\E i \in DOMAIN messages : messages[i].kind = "Done") => messages # <<>>
      OBVIOUS
    <3> QED BY <3>1, <3>2 DEF WorkerHasJob
  <2>3. pull.busy <=> WorkerHasJob
    BY <2>2 DEF PullInv, JobIsInOnePlace
  <2>4. ~pull.busy =>
          /\ ~Transferring
          /\ pull.code = "Updated" <=> updater.origin = "GithubPull" /\ updater.phase = "RebootPending"
    BY DEF PullInv, NothingLeft, Selected
  <2>5. pull.tag <= attempt
    BY DEF PullInv, TriedIsRecorded
  <2> QED BY <2>3, <2>4, <2>5 DEF PullIsAccountedFor
<1> QED BY <1>1, PullInvHolds, PTL

\* A pull has the updater for itself: what it writes are the parts of one
\* release in order, the slot is selected only with the last one framed, and no
\* HTTP client that could interrupt it is connected (Pull::reply, headerGate).
THEOREM PullIsOneStream == PullSpec => []OneStream
<1>1. PullInv => OneStream
  BY DEF PullInv, InOrder, NoIntruder, Open, Selected, Transferring, OneStream
<1> QED BY <1>1, PullInvHolds, PTL
=============================================================================
