-------------------------- MODULE OtaDeviceProofs --------------------------
(***************************************************************************)
(* Proofs about OtaDevice, for any images, versions, tokens and times.     *)
(***************************************************************************)
EXTENDS OtaDevice, TLAPS

\* The Runtime object of a device that is on, and what it says of the slots.
RunState ==
    at # "off" =>
        /\ slot[running] \in Image
        /\ running # selected => st[selected] = "New"
        /\ ~rt.pending /\ ~rt.fatal => st[running] = "Valid"
        /\ rt.pending => running = selected /\ rt.state # "VALID"
        /\ at = "armed" => running = selected /\ rt.state # "VALID"

OffState ==
    /\ at = "off" => ~rt.pending
    /\ at \in {"off", "armed"} => up.phase = "Idle"

\* A transfer installs a newer image, from an image that is confirmed.
TransferState ==
    /\ up.phase \in {"Prepared", "Receiving"} =>
          /\ up.image \in Image /\ up.token \in Token
          /\ Version[up.image] > Version[slot[running]]
    /\ up.phase = "Receiving" => ~rt.pending /\ st[running] = "Valid"
    /\ at \in {"context", "erase", "journal", "select"} => up.phase = "Receiving"
    /\ at = "run" /\ up.phase = "Receiving" => slot[1 - running] = Partial
    /\ at \in {"journal", "select"} => slot[1 - running] = up.image

TrialIsNewer ==
    OnTrial /\ slot[selected] # Partial => Version[slot[selected]] > Version[slot[Home]]

\* The context in flash covers every package that touched a slot.
Fence ==
    /\ nvs["otactx2"] = Missing => tried = 0
    /\ nvs["otactx2"] \in Context => tried <= Version[nvs["otactx2"].image]
    /\ at = "context" => up.origin \in PackageOrigin
    /\ at = "erase" /\ up.origin \in PackageOrigin =>
          /\ tried < Version[up.image]
          /\ nvs["otactx2"] \in Context /\ nvs["otactx2"].image = up.image

Trust == FallbackIsKept /\ ReportedIsKept /\ RunState /\ OffState /\ TransferState /\ TrialIsNewer

OtaIInv == OtaTypeOK /\ Trust /\ Fence

-----------------------------------------------------------------------------
(* Types.                                                                  *)

NvsKeys == {"ota", "otactx2"}
UpType == [phase : {"Idle", "Prepared", "Receiving", "RebootPending", "Failed"},
           image : Image \cup {Missing}, token : Token \cup {Missing}, origin : Origin]
RtType == [pending : BOOLEAN, fatal : BOOLEAN, contextError : BOOLEAN, begun : BOOLEAN,
           observing : BOOLEAN, state : RuntimeStates, journal : Journal \cup {Missing},
           origin : Origin]

\* There are two slots.
LEMMA TwoSlots ==
    \A s \in Slot : /\ 1 - s \in Slot /\ 1 - s # s /\ 1 - (1 - s) = s
                    /\ \A t \in Slot : t = s \/ t = 1 - s
  BY DEF Slot

LEMMA TransferTypes ==
    /\ FailedTransfer \in UpType /\ NoTransfer("Idle") \in UpType
    /\ NoTransfer("RebootPending") \in UpType
    /\ FailedTransfer.phase = "Failed" /\ NoTransfer("Idle").phase = "Idle"
    /\ NoTransfer("RebootPending").phase = "RebootPending"
    /\ \A image \in Image, token \in Token, origin \in Origin, phase \in {"Prepared", "Receiving"} :
          /\ Transfer(phase, image, token, origin) \in UpType
          /\ Transfer(phase, image, token, origin).phase = phase
          /\ Transfer(phase, image, token, origin).image = image
          /\ Transfer(phase, image, token, origin).token = token
          /\ Transfer(phase, image, token, origin).origin = origin
  BY DEF FailedTransfer, NoTransfer, UpType, Transfer, Origin

LEMMA NotStartedType ==
    NotStarted \in RtType /\ NotStarted.pending = FALSE /\ NotStarted.state = "NOT_STARTED"
  BY DEF NotStarted, RtType, Origin, RuntimeStates

\* A device that never ran is well-typed.
LEMMA OtaTypeInit == OtaInit => OtaTypeOK
  <1> SUFFICES ASSUME OtaInit PROVE OtaTypeOK
    OBVIOUS
  <1>1. nvs \in [NvsKeys -> Journal \cup Context \cup {Missing, Damaged}]
    BY DEF OtaInit, NvsKeys
  <1>2. nvs["ota"] \notin Context /\ nvs["otactx2"] \notin Journal
    BY OtaBlobs DEF OtaInit
  <1>3. slot \in [Slot -> Image \cup {Partial}]
    BY OtaImages DEF OtaInit
  <1>4. st \in [Slot -> {"New", "Pending", "Valid", "Bad"}]
    BY DEF OtaInit
  <1>5. /\ selected \in Slot /\ running \in Slot /\ at = "off"
        /\ bootAge \in 0 .. HealthMs /\ healthyFor \in 0 .. LocalHealthMs
        /\ streak \in -1 .. LocalHealthMs /\ tried \in Nat
    BY OtaTiming DEF OtaInit, Slot
  <1>6. rt \in RtType /\ up \in UpType
    BY TransferTypes, NotStartedType DEF OtaInit
  <1>7. reported \in Image \cup {Missing} /\ offeredBy \in Origin
    BY DEF OtaInit, Origin
  <1>8. bodyAllowed \in BOOLEAN /\ rotted \in BOOLEAN
    BY Zenon DEF OtaInit
  <1> QED BY <1>1, <1>2, <1>3, <1>4, <1>5, <1>6, <1>7, <1>8 DEF OtaTypeOK, NvsKeys, RtType, UpType

\* What a checked write may do to the storage.
LEMMA OtaWriteEffect ==
    ASSUME OtaTypeOK, NEW k \in NvsKeys, NEW v, NEW ok \in BOOLEAN, CheckedWrite(k, v, ok)
    PROVE  /\ \A j \in NvsKeys : j # k => nvs'[j] = nvs[j]
           /\ nvs'[k] = v \/ nvs' = nvs
           /\ ok => nvs'[k] = v
           /\ nvs' = nvs \/ nvs' = [nvs EXCEPT ![k] = v]
  BY DEF CheckedWrite, Put, OtaTypeOK, NvsKeys

NvsTypeOK ==
    /\ nvs \in [NvsKeys -> Journal \cup Context \cup {Missing, Damaged}]
    /\ nvs["ota"] \notin Context /\ nvs["otactx2"] \notin Journal

\* Journals and contexts are told apart.
LEMMA JournalIsNoContext == Journal \cap Context = {}
  <1> SUFFICES ASSUME NEW x \in Journal, x \in Context PROVE FALSE
    OBVIOUS
  <1>1. DOMAIN x = {"image", "token"}
    BY DEF Journal
  <1>2. DOMAIN x = {"image", "token", "origin"}
    BY DEF Context
  <1> QED BY <1>1, <1>2

-----------------------------------------------------------------------------
(* What a step must show.                                                  *)

GoodImage == slot[Home]
TrialImage == IF OnTrial /\ slot[selected] # Partial THEN slot[selected] ELSE Missing

\* A step of AbUpdate, seen through the refinement mapping.
AbstractStep ==
    \/ GoodImage' = GoodImage /\ TrialImage' = TrialImage
    \/ TrialImage # Missing /\ TrialImage' = Missing /\ GoodImage' \in {GoodImage, TrialImage}
    \/ /\ TrialImage = Missing /\ TrialImage' \in Image /\ GoodImage' = GoodImage
       /\ Version[TrialImage'] > Version[GoodImage]

PackageStep ==
    tried' # tried \/ (at = "erase" /\ slot' # slot /\ up.origin \in PackageOrigin) => tried' > tried

SoundStep == OtaIInv' /\ AbstractStep /\ PackageStep

\* An action of a device that is on which leaves the flash alone and does not
\* decide upon the trial changes neither the good image nor the one on trial.
LEMMA QuietStep ==
    ASSUME OtaIInv, UNCHANGED flash, at # "off", at' # "off", rt'.pending = rt.pending,
           reported' = reported, tried' = tried
    PROVE  FallbackIsKept' /\ TrialIsNewer' /\ ReportedIsKept' /\ AbstractStep /\ PackageStep
  <1>1. /\ slot' = slot /\ st' = st /\ selected' = selected /\ running' = running
    BY DEF flash
  <1>2. Undecided' = Undecided
    BY <1>1 DEF Undecided
  <1>3. Home' = Home /\ OnTrial' = OnTrial
    BY <1>1, <1>2 DEF Home, OnTrial
  <1>4. FallbackIsKept'
    BY <1>1, <1>3 DEF OtaIInv, Trust, FallbackIsKept
  <1>5. TrialIsNewer'
    BY <1>1, <1>3 DEF OtaIInv, Trust, TrialIsNewer
  <1>6. ReportedIsKept'
    BY <1>1, <1>3 DEF OtaIInv, Trust, ReportedIsKept
  <1>7. AbstractStep
    BY <1>1, <1>3 DEF AbstractStep, GoodImage, TrialImage
  <1>8. PackageStep
    BY <1>1 DEF PackageStep
  <1> QED BY <1>4, <1>5, <1>6, <1>7, <1>8

\* The steps that only touch what RAM knows of a request or a transfer.
LEMMA RequestSteps ==
    ASSUME OtaIInv, at # "off", at' # "off", UNCHANGED <<nvs, flash, ghosts>>,
           UNCHANGED trialRam, up' \in UpType, bodyAllowed' \in BOOLEAN,
           at' \in {"run", "context", "erase"}, TransferState',
           at' = "context" => up'.origin \in PackageOrigin,
           at' = "erase" => up'.origin \notin PackageOrigin,
           at' = "armed" => at = "armed"
    PROVE  SoundStep
  <1>1. /\ nvs' = nvs /\ slot' = slot /\ st' = st /\ selected' = selected /\ running' = running
        /\ rt' = rt /\ bootAge' = bootAge /\ healthyFor' = healthyFor /\ streak' = streak
        /\ reported' = reported /\ offeredBy' = offeredBy /\ tried' = tried /\ rotted' = rotted
    BY DEF flash, ghosts, trialRam
  <1>2. OtaTypeOK'
    BY <1>1 DEF OtaIInv, OtaTypeOK, UpType
  <1>3. FallbackIsKept' /\ TrialIsNewer' /\ ReportedIsKept' /\ AbstractStep /\ PackageStep
    BY <1>1, QuietStep
  <1>4. RunState' /\ OffState'
    BY <1>1 DEF OtaIInv, Trust, RunState, OffState
  <1>5. Fence'
    BY <1>1 DEF OtaIInv, Fence
  <1> QED BY <1>2, <1>3, <1>4, <1>5 DEF SoundStep, OtaIInv, Trust

LEMMA HeaderGateStep == ASSUME OtaIInv, HeaderGate PROVE SoundStep
  <1>1. TransferState' /\ up' \in UpType
    BY DEF HeaderGate, OtaIInv, Trust, TransferState, OtaTypeOK, UpType, flash
  <1>2. bodyAllowed' \in BOOLEAN
    BY Zenon DEF HeaderGate
  <1> QED BY <1>1, <1>2, RequestSteps DEF HeaderGate

LEMMA CloseClientStep == ASSUME OtaIInv, CloseClient PROVE SoundStep
  <1>0. /\ up' = up
        /\ rt' = rt /\ st' = st /\ slot' = slot /\ running' = running /\ at = "run" /\ at' = at
    BY Zenon DEF CloseClient, flash, trialRam
  <1>1. TransferState' /\ up' \in UpType
    BY <1>0 DEF OtaIInv, Trust, TransferState, OtaTypeOK, UpType
  <1>2. bodyAllowed' \in BOOLEAN
    BY Zenon DEF CloseClient
  <1> QED BY <1>1, <1>2, RequestSteps DEF CloseClient

LEMMA RefuseStep == ASSUME OtaIInv, Refuse PROVE SoundStep
  <1>0. /\ up' = IF Idle THEN FailedTransfer ELSE up
        /\ rt' = rt /\ st' = st /\ slot' = slot /\ running' = running /\ at = "run" /\ at' = at
    BY Zenon DEF Refuse, flash, trialRam
  <1>1. TransferState' /\ up' \in UpType
    BY <1>0, TransferTypes DEF OtaIInv, Trust, TransferState, OtaTypeOK, UpType
  <1>2. bodyAllowed' \in BOOLEAN
    BY Zenon DEF Refuse
  <1> QED BY <1>1, <1>2, RequestSteps DEF Refuse

LEMMA FailTransferStep == ASSUME OtaIInv, FailTransfer PROVE SoundStep
  <1>1. TransferState' /\ up' \in UpType
    BY TransferTypes DEF FailTransfer, OtaIInv, Trust, TransferState, flash
  <1>2. bodyAllowed' \in BOOLEAN
    BY DEF FailTransfer, OtaIInv, OtaTypeOK
  <1> QED BY <1>1, <1>2, RequestSteps DEF FailTransfer

LEMMA PrepareStep ==
    ASSUME OtaIInv, NEW image \in Image, NEW token \in Token, NEW origin \in Origin,
           Prepare(image, token, origin)
    PROVE  SoundStep
  <1>1. up' \in UpType /\ up'.phase = "Prepared" /\ up'.image = image /\ up'.token = token
    BY TransferTypes DEF Prepare
  <1>2. Version[image] > Version[slot[running]]
    BY DEF Prepare, Accepts, Newer
  <1>3. TransferState'
    BY <1>1, <1>2 DEF Prepare, TransferState, flash
  <1>4. bodyAllowed' \in BOOLEAN
    BY Zenon DEF Prepare
  <1> QED BY <1>1, <1>3, <1>4, RequestSteps DEF Prepare

\* What may be updated is confirmed.
LEMMA CanUpdateIsValid ==
    ASSUME OtaIInv, at # "off", CanUpdate
    PROVE  ~rt.pending /\ st[running] = "Valid"
  BY DEF OtaIInv, Trust, RunState, CanUpdate

LEMMA StartStep == ASSUME OtaIInv, Start PROVE SoundStep
  <1>1. /\ at = "run" /\ CanUpdate /\ up.phase = "Prepared" /\ up' = [up EXCEPT !.phase = "Receiving"]
        /\ at' = IF up.origin = "LegacyPush" THEN "erase" ELSE "context"
        /\ slot' = slot /\ st' = st /\ running' = running /\ rt' = rt /\ bodyAllowed' = bodyAllowed
    BY DEF Start, flash, trialRam
  <1>2. up \in UpType
    BY DEF OtaIInv, OtaTypeOK, UpType
  <1>3. up' \in UpType /\ up'.phase = "Receiving" /\ up'.image = up.image /\ up'.token = up.token
        /\ up'.origin = up.origin
    BY <1>1, <1>2 DEF UpType
  <1>4. ~rt.pending /\ st[running] = "Valid"
    BY <1>1, CanUpdateIsValid
  <1>5. TransferState'
    BY <1>1, <1>3, <1>4 DEF OtaIInv, Trust, TransferState
  <1>6. /\ at' = "context" => up'.origin \in PackageOrigin
        /\ at' = "erase" => up'.origin \notin PackageOrigin
    BY <1>1, <1>2, <1>3 DEF UpType, Origin, PackageOrigin
  <1>7. bodyAllowed' \in BOOLEAN
    BY <1>1 DEF OtaIInv, OtaTypeOK
  <1> QED BY <1>1, <1>3, <1>5, <1>6, <1>7, RequestSteps DEF Start

LEMMA PullStep ==
    ASSUME OtaIInv, NEW image \in Image, NEW token \in Token, Pull(image, token)
    PROVE  SoundStep
  <1>1. /\ up' \in UpType /\ up'.phase = "Receiving" /\ up'.image = image /\ up'.token = token
        /\ up'.origin = "GithubPull"
    BY TransferTypes DEF Pull, Origin, PackageOrigin
  <1>2. Version[image] > Version[slot[running]]
    BY DEF Pull, Accepts, Newer
  <1>3. ~rt.pending /\ st[running] = "Valid"
    BY CanUpdateIsValid DEF Pull
  <1>4. TransferState'
    BY <1>1, <1>2, <1>3 DEF Pull, TransferState, flash, trialRam
  <1>5. bodyAllowed' \in BOOLEAN
    BY DEF Pull, OtaIInv, OtaTypeOK
  <1> QED BY <1>1, <1>4, <1>5, RequestSteps DEF Pull, PackageOrigin

LEMMA SkipBeginStep == ASSUME OtaIInv, SkipBegin PROVE SoundStep
  <1>1. /\ nvs' = nvs /\ slot' = slot /\ st' = st /\ selected' = selected /\ running' = running
        /\ rt' = rt /\ bootAge' = bootAge /\ healthyFor' = healthyFor /\ streak' = streak
        /\ up' = up /\ bodyAllowed' = bodyAllowed /\ at = "armed" /\ at' = "run"
        /\ reported' = reported /\ offeredBy' = offeredBy /\ tried' = tried /\ rotted' = rotted
    BY DEF SkipBegin, flash, ghosts, ram, trialRam
  <1>2. OtaTypeOK'
    BY <1>1 DEF OtaIInv, OtaTypeOK
  <1>3. FallbackIsKept' /\ TrialIsNewer' /\ ReportedIsKept' /\ AbstractStep /\ PackageStep
    BY <1>1, QuietStep DEF flash
  <1>4. RunState' /\ OffState' /\ TransferState' /\ Fence'
    BY <1>1 DEF OtaIInv, Trust, RunState, OffState, TransferState, Fence
  <1> QED BY <1>2, <1>3, <1>4 DEF SoundStep, OtaIInv, Trust

LEMMA HeartbeatFailsStep == ASSUME OtaIInv, HeartbeatFails PROVE SoundStep
  <1>1. /\ nvs' = nvs /\ slot' = slot /\ st' = st /\ selected' = selected /\ running' = running
        /\ bootAge' = bootAge /\ healthyFor' = healthyFor /\ streak' = streak
        /\ up' = up /\ bodyAllowed' = bodyAllowed /\ at = "run" /\ at' = "run"
        /\ reported' = reported /\ offeredBy' = offeredBy /\ tried' = tried /\ rotted' = rotted
        /\ rt' = [rt EXCEPT !.fatal = TRUE, !.state = "WATCHDOG_ERROR"]
    BY DEF HeartbeatFails, flash, ghosts
  <1>2. rt \in RtType
    BY DEF OtaIInv, OtaTypeOK, RtType
  <1>3. /\ rt' \in RtType /\ rt'.pending = rt.pending /\ rt'.fatal /\ rt'.state = "WATCHDOG_ERROR"
    BY <1>1, <1>2 DEF RtType, RuntimeStates
  <1>4. OtaTypeOK'
    BY <1>1, <1>3 DEF OtaIInv, OtaTypeOK, RtType
  <1>5. FallbackIsKept' /\ TrialIsNewer' /\ ReportedIsKept' /\ AbstractStep /\ PackageStep
    BY <1>1, <1>3, QuietStep DEF flash
  <1>6. RunState' /\ OffState' /\ TransferState' /\ Fence'
    BY <1>1, <1>3 DEF OtaIInv, Trust, RunState, OffState, TransferState, Fence
  <1> QED BY <1>4, <1>5, <1>6 DEF SoundStep, OtaIInv, Trust

-----------------------------------------------------------------------------
(* The operations of a transfer.                                           *)

LEMMA ProceedEffect ==
    ASSUME up \in UpType, NEW ok \in BOOLEAN, NEW next, Proceed(ok, next)
    PROVE  /\ up' \in UpType
           /\ \/ ok /\ at' = next /\ up' = up
              \/ ~ok /\ at' = "run" /\ up' = FailedTransfer
  <1>1. CASE ok
    BY <1>1 DEF Proceed
  <1>2. CASE ~ok
    BY <1>2, TransferTypes DEF Proceed
  <1> QED BY <1>1, <1>2

\* During a transfer the image that runs is the good one.
LEMMA TransferHome ==
    ASSUME OtaIInv, up.phase = "Receiving"
    PROVE  /\ at # "off" /\ ~rt.pending /\ st[running] = "Valid"
           /\ running \in Slot /\ 1 - running \in Slot /\ 1 - running # running
           /\ 1 - (1 - running) = running
           /\ slot[running] \in Image
           /\ selected \in {running, 1 - running}
           /\ selected # running => st[selected] = "New"
           /\ Home = running /\ (OnTrial <=> selected = 1 - running)
           /\ up.image \in Image /\ up.token \in Token
           /\ Version[up.image] > Version[slot[running]]
  <1>1. /\ at # "off" /\ ~rt.pending /\ st[running] = "Valid" /\ slot[running] \in Image
        /\ selected # running => st[selected] = "New"
        /\ up.image \in Image /\ up.token \in Token /\ Version[up.image] > Version[slot[running]]
    BY DEF OtaIInv, Trust, OffState, TransferState, RunState
  <1>2. running \in Slot /\ selected \in Slot
    BY DEF OtaIInv, OtaTypeOK
  <1>3. /\ 1 - running \in Slot /\ 1 - running # running /\ 1 - (1 - running) = running
        /\ selected \in {running, 1 - running}
    BY <1>2, TwoSlots
  <1>4. Home = running /\ (OnTrial <=> selected = 1 - running)
    BY <1>1, <1>3 DEF Home, OnTrial, Undecided
  <1> QED BY <1>1, <1>2, <1>3, <1>4

\* The journal and the context of the image that is being installed.
LEMMA OwnBlobs ==
    ASSUME OtaIInv, up.phase = "Receiving"
    PROVE  /\ [image |-> up.image, token |-> up.token] \in Journal
           /\ up.origin \in PackageOrigin =>
                 [image |-> up.image, token |-> up.token, origin |-> up.origin] \in Context
  BY TransferHome DEF Journal, Context

LEMMA AuthorizeStep ==
    ASSUME OtaIInv, NEW ok \in BOOLEAN, Authorize(ok)
    PROVE  SoundStep
  <1> DEFINE own == [image |-> up.image, token |-> up.token, origin |-> up.origin]
  <1>1. /\ slot' = slot /\ st' = st /\ selected' = selected /\ running' = running
        /\ rt' = rt /\ bootAge' = bootAge /\ healthyFor' = healthyFor /\ streak' = streak
        /\ bodyAllowed' = bodyAllowed /\ at = "context"
        /\ reported' = reported /\ offeredBy' = offeredBy /\ tried' = tried /\ rotted' = rotted
    BY DEF Authorize, flash, ghosts, trialRam
  <1>2. /\ up \in UpType /\ up.phase = "Receiving" /\ up.origin \in PackageOrigin
    BY <1>1 DEF OtaIInv, OtaTypeOK, UpType, Trust, TransferState, Fence
  <1>3. own \in Context /\ own.image = up.image
    BY <1>2, OwnBlobs
  <1>4. PICK done \in BOOLEAN :
           /\ Proceed(done, "erase")
           /\ IF Available(up.image, nvs["otactx2"]) THEN WriteContext(ok) /\ done = ok
              ELSE nvs' = nvs /\ done = FALSE
    <2>1. CASE Available(up.image, nvs["otactx2"])
      BY <2>1 DEF Authorize
    <2>2. CASE ~Available(up.image, nvs["otactx2"])
      <3>1. Proceed(FALSE, "erase")
        BY <2>2 DEF Authorize, Proceed
      <3> QED BY <2>2, <3>1 DEF Authorize
    <2> QED BY <2>1, <2>2
  <1>5. /\ up' \in UpType
        /\ \/ done /\ at' = "erase" /\ up' = up
           \/ ~done /\ at' = "run" /\ up' = FailedTransfer
    BY <1>2, <1>4, ProceedEffect
  <1>6. /\ nvs' = nvs \/ nvs' = [nvs EXCEPT !["otactx2"] = own]
        /\ nvs' # nvs => Available(up.image, nvs["otactx2"])
        /\ done => Available(up.image, nvs["otactx2"]) /\ nvs'["otactx2"] = own
    <2>1. CASE Available(up.image, nvs["otactx2"])
      <3>1. CheckedWrite("otactx2", own, ok) /\ done = ok
        BY <1>4, <2>1 DEF WriteContext
      <3> QED BY <2>1, <3>1, OtaWriteEffect DEF OtaIInv, NvsKeys
    <2>2. CASE ~Available(up.image, nvs["otactx2"])
      BY <1>4, <2>2
    <2> QED BY <2>1, <2>2
  <1>7. NvsTypeOK'
    BY <1>3, <1>6, JournalIsNoContext DEF OtaIInv, OtaTypeOK, NvsTypeOK, NvsKeys
  <1>8. OtaTypeOK'
    BY <1>1, <1>5, <1>7 DEF OtaIInv, OtaTypeOK, UpType, NvsTypeOK, NvsKeys
  <1>9. FallbackIsKept' /\ TrialIsNewer' /\ ReportedIsKept' /\ AbstractStep /\ PackageStep
    BY <1>1, <1>5, QuietStep DEF flash
  <1>10. RunState' /\ OffState' /\ TransferState'
    BY <1>1, <1>5, TransferTypes DEF OtaIInv, Trust, RunState, OffState, TransferState
  <1>11. Available(up.image, nvs["otactx2"]) => tried < Version[up.image]
    <2>1. tried \in Nat /\ Version[up.image] \in Nat \ {0}
      BY <1>2, TransferHome, OtaImages DEF OtaIInv, OtaTypeOK
    <2>2. ASSUME nvs["otactx2"] \in Context
          PROVE  Version[nvs["otactx2"].image] \in Nat
      BY <2>2, OtaImages DEF Context
    <2> QED BY <2>1, <2>2 DEF Available, OtaIInv, Fence
  <1>12. tried \in Nat /\ Version[up.image] \in Nat
    BY <1>2, TransferHome, OtaImages DEF OtaIInv, OtaTypeOK
  <1>13. \/ nvs'["otactx2"] = nvs["otactx2"]
         \/ nvs'["otactx2"] = own /\ tried < Version[own.image]
    <2>1. CASE nvs' = nvs
      BY Zenon, <2>1
    <2>2. CASE nvs' # nvs
      <3>1. nvs' = [nvs EXCEPT !["otactx2"] = own] /\ "otactx2" \in DOMAIN nvs
        BY <1>6, <2>2 DEF OtaIInv, OtaTypeOK
      <3>2. nvs'["otactx2"] = own
        BY <3>1
      <3> QED BY <1>3, <1>6, <1>11, <2>2, <3>2
    <2> QED BY <2>1, <2>2
  <1>14. own # Missing
    BY <1>3, OtaBlobs
  <1>15. Fence'
    BY <1>1, <1>3, <1>5, <1>6, <1>11, <1>12, <1>13, <1>14 DEF OtaIInv, Fence
  <1> QED BY <1>8, <1>9, <1>10, <1>15 DEF SoundStep, OtaIInv, Trust

LEMMA JournalImageStep ==
    ASSUME OtaIInv, NEW ok \in BOOLEAN, JournalImage(ok)
    PROVE  SoundStep
  <1> DEFINE own == [image |-> up.image, token |-> up.token]
             mine == up.origin = "LegacyPush" \/ SameAttempt(nvs["otactx2"], own)
  <1>1. /\ slot' = slot /\ st' = st /\ selected' = selected /\ running' = running
        /\ rt' = rt /\ bootAge' = bootAge /\ healthyFor' = healthyFor /\ streak' = streak
        /\ bodyAllowed' = bodyAllowed /\ at = "journal"
        /\ reported' = reported /\ offeredBy' = offeredBy /\ tried' = tried /\ rotted' = rotted
    BY DEF JournalImage, flash, ghosts, trialRam
  <1>2. /\ up \in UpType /\ up.phase = "Receiving" /\ slot[1 - running] = up.image
    BY <1>1 DEF OtaIInv, OtaTypeOK, UpType, Trust, TransferState
  <1>3. own \in Journal
    BY <1>2, OwnBlobs
  <1>4. PICK done \in BOOLEAN :
           /\ Proceed(done, "select")
           /\ IF mine THEN WriteJournal(ok) /\ done = ok ELSE nvs' = nvs /\ done = FALSE
    <2>1. CASE mine
      BY <2>1 DEF JournalImage
    <2>2. CASE ~mine
      <3>1. Proceed(FALSE, "select")
        BY <2>2 DEF JournalImage, Proceed
      <3> QED BY <2>2, <3>1 DEF JournalImage
    <2> QED BY <2>1, <2>2
  <1>5. /\ up' \in UpType
        /\ \/ done /\ at' = "select" /\ up' = up
           \/ ~done /\ at' = "run" /\ up' = FailedTransfer
    BY <1>2, <1>4, ProceedEffect
  <1>6. nvs' = nvs \/ nvs' = [nvs EXCEPT !["ota"] = own]
    <2>1. CASE mine
      <3>1. CheckedWrite("ota", own, ok)
        BY <1>4, <2>1 DEF WriteJournal
      <3> QED BY <3>1, OtaWriteEffect DEF OtaIInv, NvsKeys
    <2>2. CASE ~mine
      BY <1>4, <2>2
    <2> QED BY <2>1, <2>2
  <1>7. NvsTypeOK' /\ nvs'["otactx2"] = nvs["otactx2"]
    BY <1>3, <1>6, JournalIsNoContext DEF OtaIInv, OtaTypeOK, NvsTypeOK, NvsKeys
  <1>8. OtaTypeOK'
    BY <1>1, <1>5, <1>7 DEF OtaIInv, OtaTypeOK, UpType, NvsTypeOK, NvsKeys
  <1>9. FallbackIsKept' /\ TrialIsNewer' /\ ReportedIsKept' /\ AbstractStep /\ PackageStep
    BY <1>1, <1>5, QuietStep DEF flash
  <1>10. RunState' /\ OffState' /\ TransferState'
    BY <1>1, <1>2, <1>5, TransferTypes DEF OtaIInv, Trust, RunState, OffState, TransferState
  <1>11. Fence'
    BY <1>1, <1>5, <1>7 DEF OtaIInv, Fence
  <1> QED BY <1>8, <1>9, <1>10, <1>11 DEF SoundStep, OtaIInv, Trust

\* What is done to the other slot during a transfer leaves the good image alone.
LEMMA OtherSlotStep ==
    ASSUME OtaIInv, up.phase = "Receiving", at' # "off",
           NEW content \in {Partial, up.image},
           content = Partial \/ slot[1 - running] = Partial,
           slot' = [slot EXCEPT ![1 - running] = content],
           st' = st, selected' = selected, running' = running, rt' = rt, reported' = reported
    PROVE  /\ slot' \in [Slot -> Image \cup {Partial}]
           /\ slot'[running] = slot[running] /\ slot'[1 - running] = content
           /\ FallbackIsKept' /\ TrialIsNewer' /\ ReportedIsKept' /\ AbstractStep
  <1>1. slot \in [Slot -> Image \cup {Partial}]
    BY DEF OtaIInv, OtaTypeOK
  <1>2. slot' \in [Slot -> Image \cup {Partial}] /\ slot'[running] = slot[running]
        /\ slot'[1 - running] = content
    BY <1>1, TransferHome
  <1>3. Home' = running /\ (OnTrial' <=> selected = 1 - running) /\ Home = running
        /\ (OnTrial <=> selected = 1 - running)
    <2>1. ~Undecided'
      BY TransferHome DEF Undecided
    <2> QED BY <2>1, TransferHome DEF Home, OnTrial
  <1>4. FallbackIsKept'
    BY <1>2, <1>3, TransferHome DEF FallbackIsKept
  <1>5. TrialIsNewer'
    BY <1>2, <1>3, TransferHome DEF TrialIsNewer
  <1>6. ReportedIsKept'
    BY <1>2, <1>3 DEF OtaIInv, Trust, ReportedIsKept
  <1>7. AbstractStep
    <2>1. GoodImage' = GoodImage /\ GoodImage = slot[running]
      BY <1>2, <1>3 DEF GoodImage
    <2>2. CASE selected = running
      <3>1. TrialImage = Missing /\ TrialImage' = Missing
        BY <1>3, <2>2, TransferHome DEF TrialImage
      <3> QED BY <2>1, <3>1 DEF AbstractStep
    <2>3. CASE selected = 1 - running
      <3>1. TrialImage = IF slot[1 - running] # Partial THEN slot[1 - running] ELSE Missing
        BY <1>3, <2>3 DEF TrialImage
      <3>2. TrialImage' = IF content # Partial THEN content ELSE Missing
        BY <1>2, <1>3, <2>3 DEF TrialImage
      <3>3. CASE content = Partial
        BY <2>1, <3>1, <3>2, <3>3 DEF AbstractStep
      <3>4. CASE content = up.image /\ slot[1 - running] = Partial
        <4>1. TrialImage = Missing /\ TrialImage' = up.image
          BY <3>1, <3>2, <3>4, TransferHome, OtaImages
        <4> QED BY <2>1, <4>1, TransferHome DEF AbstractStep
      <3> QED BY <3>3, <3>4
    <2> QED BY <2>2, <2>3, TransferHome
  <1> QED BY <1>2, <1>4, <1>5, <1>6, <1>7

LEMMA BeginFlashStep ==
    ASSUME OtaIInv, NEW ok \in BOOLEAN, BeginFlash(ok)
    PROVE  SoundStep
  <1>1. /\ nvs' = nvs /\ st' = st /\ selected' = selected /\ running' = running
        /\ rt' = rt /\ bootAge' = bootAge /\ healthyFor' = healthyFor /\ streak' = streak
        /\ bodyAllowed' = bodyAllowed /\ at = "erase"
        /\ reported' = reported /\ offeredBy' = offeredBy /\ rotted' = rotted
        /\ tried' = IF up.origin \in PackageOrigin THEN Version[up.image] ELSE tried
    BY DEF BeginFlash, trialRam
  <1>2. up \in UpType /\ up.phase = "Receiving"
    BY <1>1 DEF OtaIInv, OtaTypeOK, UpType, Trust, TransferState
  <1>3. /\ up' \in UpType
        /\ \/ ok /\ at' = "run" /\ up' = up
           \/ ~ok /\ at' = "run" /\ up' = FailedTransfer
    BY <1>2, ProceedEffect DEF BeginFlash
  <1>4. /\ slot' = slot \/ slot' = [slot EXCEPT ![1 - running] = Partial]
        /\ ok => slot' = [slot EXCEPT ![1 - running] = Partial]
    BY DEF BeginFlash
  <1>5. /\ slot' \in [Slot -> Image \cup {Partial}] /\ slot'[running] = slot[running]
        /\ ok => slot'[1 - running] = Partial
        /\ FallbackIsKept' /\ TrialIsNewer' /\ ReportedIsKept' /\ AbstractStep
    <2>1. CASE slot' = [slot EXCEPT ![1 - running] = Partial]
      BY <1>1, <1>2, <1>3, <2>1, OtherSlotStep
    <2>2. CASE slot' = slot /\ slot' # [slot EXCEPT ![1 - running] = Partial]
      <3>1. slot' \in [Slot -> Image \cup {Partial}] /\ slot'[running] = slot[running] /\ ~ok
        BY <1>4, <2>2 DEF OtaIInv, OtaTypeOK
      <3>2. Home' = Home /\ OnTrial' = OnTrial
        BY <1>1, <1>2, <1>3, TransferHome DEF Home, OnTrial, Undecided
      <3> QED BY <1>1, <2>2, <3>1, <3>2 DEF OtaIInv, Trust, FallbackIsKept, TrialIsNewer,
                ReportedIsKept, AbstractStep, GoodImage, TrialImage
    <2> QED BY <1>4, <2>1, <2>2
  <1>6. tried \in Nat /\ Version[up.image] \in Nat
    BY <1>2, TransferHome, OtaImages DEF OtaIInv, OtaTypeOK
  <1>7. PackageStep
    BY <1>1, <1>6 DEF PackageStep, OtaIInv, Fence
  <1>8. OtaTypeOK'
    BY <1>1, <1>3, <1>5, <1>6 DEF OtaIInv, OtaTypeOK, UpType
  <1>9. RunState' /\ OffState' /\ TransferState'
    BY <1>1, <1>2, <1>3, <1>5, TransferTypes DEF OtaIInv, Trust, RunState, OffState, TransferState
  <1>10. nvs["otactx2"] # Missing \/ up.origin \notin PackageOrigin
    BY <1>1, OtaBlobs DEF OtaIInv, Fence
  <1>11. Fence'
    BY <1>1, <1>3, <1>6, <1>10 DEF OtaIInv, Fence
  <1> QED BY <1>5, <1>7, <1>8, <1>9, <1>11 DEF SoundStep, OtaIInv, Trust

LEMMA LastChunkStep == ASSUME OtaIInv, LastChunk PROVE SoundStep
  <1>1. /\ nvs' = nvs /\ st' = st /\ selected' = selected /\ running' = running
        /\ rt' = rt /\ bootAge' = bootAge /\ healthyFor' = healthyFor /\ streak' = streak
        /\ up' = up /\ bodyAllowed' = bodyAllowed /\ at = "run" /\ at' = "journal"
        /\ reported' = reported /\ offeredBy' = offeredBy /\ tried' = tried /\ rotted' = rotted
        /\ up.phase = "Receiving" /\ slot' = [slot EXCEPT ![1 - running] = up.image]
    BY DEF LastChunk, ram, trialRam, ghosts
  <1>2. slot[1 - running] = Partial
    BY <1>1 DEF OtaIInv, Trust, TransferState
  <1>3. /\ slot' \in [Slot -> Image \cup {Partial}] /\ slot'[running] = slot[running]
        /\ slot'[1 - running] = up.image
        /\ FallbackIsKept' /\ TrialIsNewer' /\ ReportedIsKept' /\ AbstractStep
    BY <1>1, <1>2, OtherSlotStep
  <1>4. OtaTypeOK'
    BY <1>1, <1>3 DEF OtaIInv, OtaTypeOK
  <1>5. RunState' /\ OffState' /\ TransferState'
    BY <1>1, <1>3 DEF OtaIInv, Trust, RunState, OffState, TransferState
  <1>6. Fence' /\ PackageStep
    BY <1>1 DEF OtaIInv, Fence, PackageStep
  <1> QED BY <1>3, <1>4, <1>5, <1>6 DEF SoundStep, OtaIInv, Trust

LEMMA SelectBootStep ==
    ASSUME OtaIInv, NEW ok \in BOOLEAN, SelectBoot(ok)
    PROVE  SoundStep
  <1>1. /\ nvs' = nvs /\ slot' = slot /\ running' = running
        /\ rt' = rt /\ bootAge' = bootAge /\ healthyFor' = healthyFor /\ streak' = streak
        /\ bodyAllowed' = bodyAllowed /\ at = "select" /\ at' = "run"
        /\ reported' = reported /\ tried' = tried /\ rotted' = rotted
        /\ up' = IF ok THEN NoTransfer("RebootPending") ELSE FailedTransfer
    BY DEF SelectBoot, trialRam
  <1>2. up \in UpType /\ up.phase = "Receiving" /\ slot[1 - running] = up.image
    BY <1>1 DEF OtaIInv, OtaTypeOK, UpType, Trust, TransferState
  <1>3. up' \in UpType /\ up'.phase \in {"RebootPending", "Failed"}
    BY <1>1, TransferTypes
  <1>4. PICK done \in BOOLEAN :
           /\ st' = IF done THEN [st EXCEPT ![1 - running] = "New"] ELSE st
           /\ selected' = IF done THEN 1 - running ELSE selected
           /\ offeredBy' = IF done THEN up.origin ELSE offeredBy
    BY OtaTiming DEF SelectBoot, TakesEffect
  <1>5. st \in [Slot -> {"New", "Pending", "Valid", "Bad"}] /\ selected \in Slot /\ offeredBy \in Origin
    BY DEF OtaIInv, OtaTypeOK
  <1>6. /\ st' \in [Slot -> {"New", "Pending", "Valid", "Bad"}] /\ selected' \in Slot
        /\ offeredBy' \in Origin
        /\ st'[running] = "Valid"
        /\ selected' = running \/ (selected' = 1 - running /\ st'[1 - running] = "New")
    <2>1. up.origin \in Origin
      BY <1>2 DEF UpType
    <2>2. CASE done
      BY <1>2, <1>4, <1>5, <2>1, <2>2, TransferHome
    <2>3. CASE ~done
      BY <1>2, <1>4, <1>5, <2>3, TransferHome
    <2> QED BY <2>2, <2>3
  <1>7. OtaTypeOK'
    BY <1>1, <1>3, <1>6 DEF OtaIInv, OtaTypeOK, UpType
  <1>8. Home' = running /\ (OnTrial' <=> selected' = 1 - running)
    BY <1>1, <1>2, <1>6, TransferHome DEF Home, OnTrial, Undecided
  <1>9. FallbackIsKept' /\ TrialIsNewer' /\ ReportedIsKept'
    BY <1>1, <1>2, <1>6, <1>8, TransferHome
       DEF OtaIInv, Trust, FallbackIsKept, TrialIsNewer, ReportedIsKept
  <1>10. AbstractStep
    <2>1. GoodImage' = GoodImage /\ GoodImage = slot[running]
      BY <1>1, <1>2, <1>8, TransferHome DEF GoodImage
    <2>2. up.image \in Image /\ up.image # Partial /\ up.image # Missing
      BY <1>2, TransferHome, OtaImages
    <2>3. /\ TrialImage = IF selected = 1 - running THEN up.image ELSE Missing
          /\ TrialImage' = IF selected' = 1 - running THEN up.image ELSE Missing
      BY <1>1, <1>2, <1>6, <1>8, <2>2, TransferHome DEF TrialImage
    <2>4. selected' = selected \/ selected' = 1 - running
      BY <1>4
    <2> QED BY <1>2, <2>1, <2>2, <2>3, <2>4, TransferHome DEF AbstractStep
  <1>11. RunState' /\ OffState' /\ TransferState'
    BY <1>1, <1>2, <1>3, <1>6, TransferHome DEF OtaIInv, Trust, RunState, OffState, TransferState
  <1>12. Fence' /\ PackageStep
    BY <1>1 DEF OtaIInv, Fence, PackageStep
  <1> QED BY <1>7, <1>9, <1>10, <1>11, <1>12 DEF SoundStep, OtaIInv, Trust

-----------------------------------------------------------------------------
(* Power and the bootloader.                                               *)

LEMMA OtaPowerCutStep == ASSUME OtaIInv, OtaPowerCut PROVE SoundStep
  <1>1. /\ nvs' = nvs /\ slot' = slot /\ st' = st /\ selected' = selected /\ running' = running
        /\ at # "off" /\ at' = "off" /\ rt' = NotStarted /\ bootAge' = 0 /\ healthyFor' = 0
        /\ up' = NoTransfer("Idle") /\ streak' = -1
        /\ reported' = reported /\ offeredBy' = offeredBy /\ tried' = tried /\ rotted' = rotted
    BY DEF OtaPowerCut, RamLost, flash, ghosts
  <1>2. bodyAllowed' \in BOOLEAN
    BY Zenon DEF OtaPowerCut, RamLost
  <1>3. bootAge' \in 0 .. HealthMs /\ healthyFor' \in 0 .. LocalHealthMs
        /\ streak' \in -1 .. LocalHealthMs
    BY <1>1, OtaTiming
  <1>4. OtaTypeOK'
    BY <1>1, <1>2, <1>3, TransferTypes, NotStartedType DEF OtaIInv, OtaTypeOK, UpType, RtType
  <1>5. ~Undecided' /\ Home' = IF st[selected] = "Valid" THEN selected ELSE 1 - selected
    BY <1>1 DEF Home, Undecided
  <1>6. selected \in Slot /\ 1 - selected \in Slot
    BY TwoSlots DEF OtaIInv, OtaTypeOK
  <1>7. CASE Undecided /\ st[selected] = "Valid"
    <2>1. Home' = selected /\ Home = 1 - selected /\ OnTrial /\ ~OnTrial'
      BY <1>1, <1>5, <1>7 DEF Home, OnTrial
    <2>2. slot[selected] \in Image /\ slot[selected] # Partial /\ slot[selected] # Missing
      BY <1>1, <1>7, OtaImages DEF Undecided, OtaIInv, Trust, RunState
    <2>3. Version[slot[selected]] > Version[slot[Home]]
      BY <2>1, <2>2 DEF OtaIInv, Trust, TrialIsNewer
    <2>4. FallbackIsKept' /\ TrialIsNewer'
      BY <1>1, <1>7, <2>1, <2>2 DEF FallbackIsKept, TrialIsNewer
    <2>5. ReportedIsKept'
      <3>1. slot[Home] \in Image /\ (reported # Missing => reported \in Image)
        BY DEF OtaIInv, Trust, FallbackIsKept, OtaTypeOK
      <3>2. /\ Version[slot[selected]] \in Nat /\ Version[slot[Home]] \in Nat
            /\ reported # Missing => Version[reported] \in Nat
        BY <2>2, <3>1, OtaImages
      <3> QED BY <1>1, <2>1, <2>3, <3>2 DEF OtaIInv, Trust, ReportedIsKept
    <2>6. AbstractStep
      BY <1>1, <2>1, <2>2 DEF AbstractStep, GoodImage, TrialImage
    <2>7. RunState' /\ OffState' /\ TransferState' /\ Fence' /\ PackageStep
      BY <1>1, TransferTypes, NotStartedType
         DEF OtaIInv, Fence, RunState, OffState, TransferState, PackageStep
    <2> QED BY <1>4, <2>4, <2>5, <2>6, <2>7 DEF SoundStep, OtaIInv, Trust
  <1>8. CASE ~(Undecided /\ st[selected] = "Valid")
    <2>1. Home' = Home
      BY <1>5, <1>8 DEF Home
    <2>2. FallbackIsKept' /\ ReportedIsKept'
      BY <1>1, <2>1 DEF OtaIInv, Trust, FallbackIsKept, ReportedIsKept
    <2>3. OnTrial' => OnTrial
      BY <1>1, <1>5 DEF OnTrial
    <2>4. TrialIsNewer'
      BY <1>1, <2>1, <2>3 DEF OtaIInv, Trust, TrialIsNewer
    <2>5. AbstractStep
      <3>1. GoodImage' = GoodImage /\ TrialImage' \in {TrialImage, Missing}
        BY <1>1, <2>1, <2>3 DEF GoodImage, TrialImage
      <3> QED BY <3>1 DEF AbstractStep
    <2>6. RunState' /\ OffState' /\ TransferState' /\ Fence' /\ PackageStep
      BY <1>1, TransferTypes, NotStartedType
         DEF OtaIInv, Fence, RunState, OffState, TransferState, PackageStep
    <2> QED BY <1>4, <2>2, <2>4, <2>5, <2>6 DEF SoundStep, OtaIInv, Trust
  <1> QED BY <1>7, <1>8

LEMMA OtaRotStep ==
    ASSUME OtaIInv, NEW k \in NvsKeys, OtaRot(k)
    PROVE  SoundStep
  <1>1. /\ slot' = slot /\ st' = st /\ selected' = selected /\ running' = running
        /\ at = "off" /\ at' = at /\ rt' = rt /\ bootAge' = bootAge /\ healthyFor' = healthyFor
        /\ up' = up /\ streak' = streak /\ bodyAllowed' = bodyAllowed
        /\ reported' = reported /\ offeredBy' = offeredBy /\ tried' = tried
        /\ nvs[k] # Missing /\ nvs' = [nvs EXCEPT ![k] = Damaged]
    BY DEF OtaRot, Put, flash, ram, trialRam
  <1>2. rotted' \in BOOLEAN
    BY Zenon DEF OtaRot
  <1>3. nvs \in [NvsKeys -> Journal \cup Context \cup {Missing, Damaged}]
    BY DEF OtaIInv, OtaTypeOK, NvsKeys
  <1>4. NvsTypeOK'
    BY <1>1, <1>3, OtaBlobs DEF OtaIInv, OtaTypeOK, NvsTypeOK, NvsKeys
  <1>5. OtaTypeOK'
    BY <1>1, <1>2, <1>4 DEF OtaIInv, OtaTypeOK, NvsTypeOK, NvsKeys
  <1>6. Home' = Home /\ OnTrial' = OnTrial
    BY <1>1 DEF Home, OnTrial, Undecided
  <1>7. Trust'
    BY <1>1, <1>6 DEF OtaIInv, Trust, FallbackIsKept, ReportedIsKept, RunState, OffState,
                      TransferState, TrialIsNewer
  <1>8. Fence'
    <2>1. nvs'["otactx2"] \in {nvs["otactx2"], Damaged}
      BY <1>1, <1>3 DEF NvsKeys
    <2> QED BY <1>1, <2>1, OtaImages, OtaBlobs DEF OtaIInv, Fence
  <1>9. AbstractStep /\ PackageStep
    BY <1>1, <1>6 DEF AbstractStep, GoodImage, TrialImage, PackageStep
  <1> QED BY <1>5, <1>7, <1>8, <1>9 DEF SoundStep, OtaIInv

LEMMA BootStep ==
    ASSUME OtaIInv, NEW state \in {"USB_BASELINE", "BOOT_STATE_ERROR", "WATCHDOG_ERROR"},
           Boot(state)
    PROVE  SoundStep
  <1>1. /\ nvs' = nvs /\ slot' = slot /\ at = "off" /\ at' = "armed"
        /\ running' = BootSlot /\ selected' = BootSlot /\ slot[BootSlot] # Partial
        /\ st' = [s \in Slot |-> BootState(s)]
        /\ rt' = Armed(state, st'[BootSlot] = "Pending")
        /\ bootAge' = bootAge /\ healthyFor' = healthyFor
        /\ up' = up /\ streak' = streak /\ bodyAllowed' = bodyAllowed
        /\ reported' = reported /\ offeredBy' = offeredBy /\ tried' = tried /\ rotted' = rotted
    BY DEF Boot, ghosts
  <1>2. /\ st \in [Slot -> {"New", "Pending", "Valid", "Bad"}]
        /\ slot \in [Slot -> Image \cup {Partial}] /\ selected \in Slot
        /\ 1 - selected \in Slot /\ 1 - selected # selected /\ 1 - (1 - selected) = selected
    BY TwoSlots DEF OtaIInv, OtaTypeOK
  <1>3. BootSlot \in Slot /\ slot[BootSlot] \in Image
    BY <1>1, <1>2 DEF BootSlot
  <1>4. st' \in [Slot -> {"New", "Pending", "Valid", "Bad"}]
    BY <1>1, <1>2 DEF BootState
  <1>5. /\ rt' \in RtType
        /\ rt'.pending = (st'[BootSlot] = "Pending" /\ state # "BOOT_STATE_ERROR")
        /\ rt'.fatal = (state # "USB_BASELINE") /\ rt'.state = state
    BY <1>1, NotStartedType DEF Armed, NotStarted, RtType, RuntimeStates, Origin
  <1>6. OtaTypeOK'
    BY <1>1, <1>3, <1>4, <1>5 DEF OtaIInv, OtaTypeOK, RtType
  <1>7. /\ Home = IF st[selected] = "Valid" THEN selected ELSE 1 - selected
        /\ OnTrial <=> st[selected] \in {"New", "Pending"}
        /\ slot[Home] \in Image /\ st[Home] = "Valid"
    BY <1>1 DEF Home, OnTrial, Undecided, OtaIInv, Trust, FallbackIsKept
  <1>8. CASE Unbootable
    <2>1. BootSlot = 1 - selected
      BY <1>8 DEF BootSlot
    <2>2. Home = 1 - selected /\ st[1 - selected] = "Valid"
      BY <1>2, <1>7, <1>8, OtaImages DEF Unbootable
    <2>3. Home' = Home /\ st'[BootSlot] = "Valid" /\ ~OnTrial' /\ ~rt'.pending
      <3>1. st'[BootSlot] = "Valid"
        BY <1>1, <1>2, <2>1, <2>2 DEF BootState
      <3>2. ~rt'.pending
        BY <1>5, <3>1
      <3> QED BY <1>1, <2>1, <2>2, <3>1, <3>2 DEF Home, OnTrial, Undecided
    <2>4. FallbackIsKept' /\ ReportedIsKept' /\ TrialIsNewer'
      BY <1>1, <1>7, <2>1, <2>2, <2>3
         DEF OtaIInv, Trust, FallbackIsKept, ReportedIsKept, TrialIsNewer
    <2>5. AbstractStep
      BY <1>1, <2>3 DEF AbstractStep, GoodImage, TrialImage
    <2>6. RunState' /\ OffState' /\ TransferState' /\ Fence' /\ PackageStep
      BY <1>1, <1>3, <1>5, <2>3
         DEF OtaIInv, Trust, Fence, RunState, OffState, TransferState, PackageStep
    <2> QED BY <1>6, <2>4, <2>5, <2>6 DEF SoundStep, OtaIInv, Trust
  <1>9. CASE ~Unbootable
    <2>1. /\ BootSlot = selected /\ st[selected] \in {"New", "Valid"}
          /\ st'[selected] = IF st[selected] = "New" THEN "Pending" ELSE st[selected]
          /\ st'[1 - selected] = st[1 - selected]
      BY <1>1, <1>2, <1>9 DEF BootSlot, BootState, Unbootable
    <2>2. Home' = Home /\ OnTrial' = OnTrial
      <3>1. CASE st[selected] = "New"
        <4>1. st'[selected'] = "Pending"
          BY <1>1, <2>1, <3>1
        <4> QED BY <1>1, <1>7, <2>1, <3>1, <4>1 DEF Home, OnTrial
      <3>2. CASE st[selected] = "Valid"
        <4>1. st'[selected'] = "Valid" /\ ~rt'.pending
          BY <1>1, <1>5, <2>1, <3>2
        <4> QED BY <1>1, <1>7, <2>1, <3>2, <4>1 DEF Home, OnTrial, Undecided
      <3> QED BY <2>1, <3>1, <3>2
    <2>3. st'[Home] = "Valid"
      BY <1>2, <1>7, <2>1
    <2>4. FallbackIsKept' /\ ReportedIsKept' /\ TrialIsNewer'
      BY <1>1, <1>7, <2>1, <2>2, <2>3
         DEF OtaIInv, Trust, FallbackIsKept, ReportedIsKept, TrialIsNewer
    <2>5. AbstractStep
      BY <1>1, <2>1, <2>2 DEF AbstractStep, GoodImage, TrialImage
    <2>6. RunState' /\ OffState' /\ TransferState' /\ Fence' /\ PackageStep
      <3>1. ~rt'.pending /\ ~rt'.fatal => st'[running'] = "Valid"
        BY <1>1, <1>5, <2>1
      <3> QED BY <1>1, <1>3, <1>5, <3>1
              DEF OtaIInv, Trust, Fence, RunState, OffState, TransferState, PackageStep
    <2> QED BY <1>6, <2>4, <2>5, <2>6 DEF SoundStep, OtaIInv, Trust
  <1> QED BY <1>8, <1>9

-----------------------------------------------------------------------------
(* The trial.                                                              *)

\* During a trial the good image is in the other slot.
LEMMA TrialHome ==
    ASSUME OtaIInv, at # "off", rt.pending
    PROVE  /\ running = selected /\ Home = 1 - running /\ OnTrial
           /\ slot[running] \in Image /\ slot[running] # Partial /\ slot[running] # Missing
           /\ Version[slot[running]] > Version[slot[Home]]
           /\ Version[slot[running]] \in Nat /\ Version[slot[Home]] \in Nat
           /\ running \in Slot /\ 1 - running \in Slot /\ 1 - running # running
           /\ up.phase # "Receiving" /\ at \in {"armed", "run"}
           /\ TrialImage = slot[running] /\ GoodImage = slot[Home]
  <1>1. /\ running = selected /\ slot[running] \in Image
        /\ up.phase # "Receiving" /\ at \in {"armed", "run"}
    BY DEF OtaIInv, Trust, RunState, TransferState, OtaTypeOK
  <1>2. slot[running] # Partial /\ slot[running] # Missing
    BY <1>1, OtaImages
  <1>3. Undecided
    BY <1>1 DEF Undecided
  <1>4. Home = 1 - running /\ OnTrial
    BY <1>1, <1>3 DEF Home, OnTrial
  <1>5. Version[slot[running]] > Version[slot[Home]]
    BY <1>1, <1>2, <1>4 DEF OtaIInv, Trust, TrialIsNewer
  <1>6. Version[slot[running]] \in Nat /\ Version[slot[Home]] \in Nat
    BY <1>1, OtaImages DEF OtaIInv, Trust, FallbackIsKept
  <1>7. running \in Slot /\ 1 - running \in Slot /\ 1 - running # running
    BY TwoSlots DEF OtaIInv, OtaTypeOK
  <1>8. TrialImage = slot[running] /\ GoodImage = slot[Home]
    BY <1>1, <1>2, <1>4 DEF TrialImage, GoodImage
  <1> QED BY <1>1, <1>2, <1>4, <1>5, <1>6, <1>7, <1>8

\* An image that reports VALID for the first time raises what must be kept, and
\* so does a trial that is adopted without a report.
LEMMA AdoptedReport ==
    ASSUME OtaIInv, at # "off", rt.pending, slot' = slot, Home' = running,
           reported' \in {reported, slot[running]}
    PROVE  ReportedIsKept'
  <1>1. reported # Missing => Version[slot[Home]] >= Version[reported] /\ Version[reported] \in Nat
    BY OtaImages DEF OtaIInv, Trust, ReportedIsKept, OtaTypeOK
  <1> QED BY <1>1, TrialHome DEF ReportedIsKept

\* What an observation, a confirmation or a rollback that fails leave behind:
\* the trial goes on, is adopted, or is withdrawn.
LEMMA TrialStep ==
    ASSUME OtaIInv, at # "off", rt.pending,
           slot' = slot, selected' = selected, running' = running, up' = up, at' = "run",
           nvs' = nvs, tried' = tried,
           rt' \in RtType,
           reported' = IF rt'.state = "VALID" THEN slot[running] ELSE reported,
           \/ rt'.pending /\ rt'.state # "VALID" /\ st' \in {st, [st EXCEPT ![running] = "Valid"]}
           \/ ~rt'.pending /\ st' = [st EXCEPT ![running] = "Valid"]
           \/ /\ ~rt'.pending /\ rt'.fatal /\ rt'.state # "VALID"
              /\ st' \in {st, [st EXCEPT ![running] = "Bad"]}
    PROVE  Trust' /\ AbstractStep /\ Fence' /\ PackageStep
  <1>1. /\ st \in [Slot -> {"New", "Pending", "Valid", "Bad"}]
        /\ slot[1 - running] \in Image /\ st[1 - running] = "Valid"
    BY TrialHome DEF OtaIInv, OtaTypeOK, Trust, FallbackIsKept
  <1>2. st'[1 - running] = "Valid"
    BY <1>1, TrialHome
  <1>3. RunState' /\ OffState' /\ TransferState' /\ Fence' /\ PackageStep
    <2>1. ~rt'.pending /\ ~rt'.fatal => st'[running] = "Valid"
      BY <1>1, TrialHome
    <2>2. rt'.pending => rt'.state # "VALID"
      OBVIOUS
    <2> QED BY <2>1, <2>2, TrialHome
            DEF OtaIInv, Trust, Fence, RunState, OffState, TransferState, PackageStep
  <1>4. CASE rt'.pending
    <2>1. Undecided'
      BY <1>4, TrialHome DEF Undecided
    <2>2. Home' = Home /\ OnTrial'
      BY <2>1, TrialHome DEF Home, OnTrial
    <2>3. reported' = reported
      BY <1>4
    <2>4. FallbackIsKept' /\ TrialIsNewer' /\ ReportedIsKept'
      BY <1>1, <1>2, <2>2, <2>3, TrialHome
         DEF FallbackIsKept, TrialIsNewer, ReportedIsKept, OtaIInv, Trust
    <2>5. AbstractStep
      BY <2>2, TrialHome DEF AbstractStep, GoodImage, TrialImage
    <2> QED BY <1>3, <2>4, <2>5 DEF Trust
  <1>5. CASE ~rt'.pending /\ st'[running] = "Valid"
    <2>1. Home' = running /\ ~OnTrial'
      BY <1>5, TrialHome DEF Home, OnTrial, Undecided
    <2>2. FallbackIsKept' /\ TrialIsNewer'
      BY <1>5, <2>1, TrialHome DEF FallbackIsKept, TrialIsNewer
    <2>3. ReportedIsKept'
      BY <2>1, AdoptedReport
    <2>4. AbstractStep
      BY <2>1, TrialHome DEF AbstractStep, GoodImage, TrialImage
    <2> QED BY <1>3, <2>2, <2>3, <2>4 DEF Trust
  <1>6. CASE ~rt'.pending /\ st'[running] # "Valid"
    <2>1. Home' = Home /\ (OnTrial' <=> st'[running] \in {"New", "Pending"})
      BY <1>6, TrialHome DEF Home, OnTrial, Undecided
    <2>2. reported' = reported
      BY <1>1, <1>6, TrialHome
    <2>3. FallbackIsKept' /\ TrialIsNewer' /\ ReportedIsKept'
      BY <1>1, <1>2, <2>1, <2>2, TrialHome
         DEF FallbackIsKept, TrialIsNewer, ReportedIsKept, OtaIInv, Trust
    <2>4. AbstractStep
      BY <2>1, TrialHome DEF AbstractStep, GoodImage, TrialImage
    <2> QED BY <1>3, <2>3, <2>4 DEF Trust
  <1> QED BY <1>4, <1>5, <1>6

\* The boot data after a call that may have been done without saying so.
LEMMA MarkEffect ==
    ASSUME OtaIInv, NEW s \in Slot, NEW new \in {"Valid", "Bad"}, NEW ok \in BOOLEAN,
           Mark(s, new, ok)
    PROVE  /\ st' \in [Slot -> {"New", "Pending", "Valid", "Bad"}]
           /\ st' \in {st, [st EXCEPT ![s] = new]}
           /\ ok => st' = [st EXCEPT ![s] = new]
  <1>1. st \in [Slot -> {"New", "Pending", "Valid", "Bad"}]
    BY DEF OtaIInv, OtaTypeOK
  <1>2. st' \in {st, [st EXCEPT ![s] = new]} /\ (ok => st' = [st EXCEPT ![s] = new])
    BY OtaTiming DEF Mark, TakesEffect
  <1> QED BY <1>1, <1>2

Untouched ==
    /\ nvs' = nvs /\ slot' = slot /\ selected' = selected /\ running' = running
    /\ offeredBy' = offeredBy /\ tried' = tried /\ rotted' = rotted

\* A rollback withdraws the trial.
LEMMA RollbackDoneStep ==
    ASSUME OtaIInv, at # "off", rt.pending, RollbackDone, Report, Untouched
    PROVE  SoundStep
  <1>1. /\ nvs' = nvs /\ slot' = slot /\ selected' = selected /\ running' = running
        /\ at' = "off" /\ rt' = NotStarted /\ bootAge' = 0 /\ healthyFor' = 0
        /\ up' = NoTransfer("Idle") /\ streak' = -1
        /\ offeredBy' = offeredBy /\ tried' = tried /\ rotted' = rotted
    BY DEF RollbackDone, RamLost, Untouched
  <1>2. bodyAllowed' \in BOOLEAN
    BY Zenon DEF RollbackDone, RamLost
  <1>3. /\ bootAge' \in 0 .. HealthMs /\ healthyFor' \in 0 .. LocalHealthMs
        /\ streak' \in -1 .. LocalHealthMs
    BY <1>1, OtaTiming
  <1>4. /\ st' \in [Slot -> {"New", "Pending", "Valid", "Bad"}]
        /\ st' = [st EXCEPT ![running] = "Bad"]
    BY TrialHome, MarkEffect DEF RollbackDone
  <1>5. reported' = reported
    BY <1>1, NotStartedType DEF Report
  <1>6. OtaTypeOK'
    BY <1>1, <1>2, <1>3, <1>4, <1>5, TransferTypes, NotStartedType
       DEF OtaIInv, OtaTypeOK, UpType, RtType
  <1>7. st'[running] = "Bad" /\ st'[1 - running] = st[1 - running]
    BY <1>4, TrialHome DEF OtaIInv, OtaTypeOK
  <1>8. Home' = Home /\ ~OnTrial'
    BY <1>1, <1>7, TrialHome DEF Home, OnTrial, Undecided
  <1>9. FallbackIsKept' /\ TrialIsNewer' /\ ReportedIsKept'
    BY <1>1, <1>5, <1>7, <1>8, TrialHome
       DEF OtaIInv, Trust, FallbackIsKept, TrialIsNewer, ReportedIsKept
  <1>10. AbstractStep
    BY <1>1, <1>8, TrialHome DEF AbstractStep, GoodImage, TrialImage
  <1>11. RunState' /\ OffState' /\ TransferState' /\ Fence' /\ PackageStep
    BY <1>1, TransferTypes, NotStartedType, TrialHome
       DEF OtaIInv, Fence, RunState, OffState, TransferState, PackageStep
  <1> QED BY <1>6, <1>9, <1>10, <1>11 DEF SoundStep, OtaIInv, Trust

\* A rollback that fails leaves the image running, without updates.
LEMMA RollbackFailedStep ==
    ASSUME OtaIInv, at # "off", rt.pending, NEW state \in RtType, RollbackFailed(state),
           bootAge' \in 0 .. HealthMs, Report, Untouched
    PROVE  SoundStep
  <1>1. /\ nvs' = nvs /\ slot' = slot /\ selected' = selected /\ running' = running
        /\ at' = "run" /\ up' = up /\ healthyFor' = healthyFor /\ streak' = streak
        /\ offeredBy' = offeredBy /\ tried' = tried /\ rotted' = rotted
        /\ bodyAllowed' = bodyAllowed
    BY DEF RollbackFailed, Untouched
  <1>2. /\ rt' \in RtType /\ ~rt'.pending /\ rt'.fatal
        /\ rt'.state = "ROLLBACK_FAILED_USB_REQUIRED"
    BY DEF RollbackFailed, RolledBack, RtType, RuntimeStates
  <1>3. /\ st' \in [Slot -> {"New", "Pending", "Valid", "Bad"}]
        /\ st' \in {st, [st EXCEPT ![running] = "Bad"]}
    BY TrialHome, MarkEffect DEF RollbackFailed
  <1>4. reported' = reported
    BY <1>2 DEF Report
  <1>5. OtaTypeOK'
    BY <1>1, <1>2, <1>3, <1>4 DEF OtaIInv, OtaTypeOK, RtType
  <1>6. Trust' /\ AbstractStep /\ Fence' /\ PackageStep
    BY <1>1, <1>2, <1>3, <1>4, TrialStep
  <1> QED BY <1>5, <1>6 DEF SoundStep, OtaIInv

\* What begin() makes of what it read.
LEMMA BegunType ==
    ASSUME OtaIInv, at = "armed",
           NEW context \in ReadOf("otactx2"), NEW journal \in ReadOf("ota")
    PROVE  /\ Begun(context, journal) \in RtType
           /\ Begun(context, journal).pending = rt.pending
           /\ Begun(context, journal).fatal = (journal = Damaged)
           /\ rt.pending => Begun(context, journal).state # "VALID"
  <1>1. rt \in RtType /\ rt.state # "VALID"
    BY DEF OtaIInv, OtaTypeOK, RtType, Trust, RunState
  <1>2. Decoded(journal) \in Journal \cup {Missing}
    BY DEF Decoded
  <1>3. (IF SameAttempt(context, journal) THEN context.origin ELSE "LegacyPush") \in Origin
    BY DEF SameAttempt, Context, Origin
  <1>4. BegunState(context, journal) \in RuntimeStates
        /\ (rt.pending => BegunState(context, journal) # "VALID")
    BY <1>1 DEF BegunState, RtType, RuntimeStates
  <1>5. (context = Damaged) \in BOOLEAN /\ (journal = Damaged) \in BOOLEAN
    OBVIOUS
  <1> QED BY <1>1, <1>2, <1>3, <1>4, <1>5 DEF Begun, RtType

LEMMA BeginStep ==
    ASSUME OtaIInv, NEW context \in ReadOf("otactx2"), NEW journal \in ReadOf("ota"),
           Begin(context, journal)
    PROVE  SoundStep
  <1>1. at = "armed" /\ ~rt.fatal /\ Untouched /\ Report
    BY DEF Begin, Untouched
  <1>2. CASE rt.pending /\ ~Acceptable(context, journal)
    <2>1. CASE RollbackDone
      BY <1>1, <1>2, <2>1, RollbackDoneStep
    <2>2. CASE RollbackFailed(Begun(context, journal)) /\ UNCHANGED bootAge
      <3>1. bootAge' \in 0 .. HealthMs
        BY <2>2 DEF OtaIInv, OtaTypeOK
      <3> QED BY <1>1, <1>2, <2>2, <3>1, BegunType, RollbackFailedStep
    <2> QED BY <1>2, <2>1, <2>2 DEF Begin
  <1>3. CASE ~(rt.pending /\ ~Acceptable(context, journal))
    <2>1. /\ nvs' = nvs /\ slot' = slot /\ selected' = selected /\ running' = running
          /\ offeredBy' = offeredBy /\ tried' = tried /\ rotted' = rotted
          /\ rt' = Begun(context, journal) /\ at' = "run" /\ st' = st /\ bootAge' = bootAge
          /\ healthyFor' = healthyFor /\ up' = up /\ bodyAllowed' = bodyAllowed /\ streak' = streak
          /\ reported' = IF rt'.state = "VALID" THEN slot[running] ELSE reported
      BY <1>1, <1>3 DEF Begin, Untouched, Report
    <2>2. /\ rt' \in RtType /\ rt'.pending = rt.pending
          /\ rt.pending => rt'.state # "VALID"
      BY <1>1, <2>1, BegunType
    <2>3. running = selected /\ slot[running] \in Image
      BY <1>1 DEF OtaIInv, Trust, RunState
    <2>4. OtaTypeOK'
      BY <2>1, <2>2, <2>3 DEF OtaIInv, OtaTypeOK, RtType
    <2>5. CASE rt.pending
      <3>1. Trust' /\ AbstractStep /\ Fence' /\ PackageStep
        BY <1>1, <2>1, <2>2, <2>5, TrialStep
      <3> QED BY <2>4, <3>1 DEF SoundStep, OtaIInv
    <2>6. CASE ~rt.pending
      <3>1. st[running] = "Valid"
        BY <1>1, <2>6 DEF OtaIInv, Trust, RunState
      <3>2. Home = running /\ Home' = running /\ ~OnTrial /\ ~OnTrial'
        BY <2>1, <2>2, <2>3, <2>6, <3>1 DEF Home, OnTrial, Undecided
      <3>3. FallbackIsKept' /\ TrialIsNewer'
        BY <2>1, <2>3, <3>1, <3>2 DEF FallbackIsKept, TrialIsNewer
      <3>4. ReportedIsKept'
        <4>1. Version[slot[running]] \in Nat
          BY <2>3, OtaImages
        <4> QED BY <2>1, <3>2, <4>1 DEF OtaIInv, Trust, ReportedIsKept
      <3>5. AbstractStep /\ PackageStep
        BY <1>1, <2>1, <3>2 DEF AbstractStep, GoodImage, TrialImage, PackageStep
      <3>6. RunState' /\ OffState' /\ TransferState' /\ Fence'
        BY <1>1, <2>1, <2>2, <2>3, <2>6, <3>1
           DEF OtaIInv, Trust, RunState, OffState, TransferState, Fence
      <3> QED BY <2>4, <3>3, <3>4, <3>5, <3>6 DEF SoundStep, OtaIInv, Trust
    <2> QED BY <2>5, <2>6
  <1> QED BY <1>2, <1>3

\* poll() of a trial that is not overdue: it goes on, or is confirmed.
LEMMA ObserveStep ==
    ASSUME OtaIInv, at = "run", rt.pending, NEW dt \in Delay, NEW healthy \in BOOLEAN,
           NEW ok \in BOOLEAN, Observe(dt, healthy, ok)
    PROVE  /\ rt' \in RtType /\ healthyFor' \in 0 .. LocalHealthMs
           /\ st' \in [Slot -> {"New", "Pending", "Valid", "Bad"}]
           /\ \/ /\ rt'.pending /\ rt'.state # "VALID"
                 /\ st' \in {st, [st EXCEPT ![running] = "Valid"]}
              \/ ~rt'.pending /\ st' = [st EXCEPT ![running] = "Valid"]
  <1>1. /\ rt \in RtType /\ rt.state # "VALID" /\ healthyFor \in 0 .. LocalHealthMs
        /\ st \in [Slot -> {"New", "Pending", "Valid", "Bad"}]
    BY DEF OtaIInv, OtaTypeOK, RtType, Trust, RunState
  <1>2. Least(healthyFor + dt, LocalHealthMs) \in 0 .. LocalHealthMs /\ 0 \in 0 .. LocalHealthMs
    BY <1>1, OtaTiming DEF Least, Delay
  <1>3. CASE rt.origin = "LegacyPush"
    BY <1>1, <1>3 DEF Observe
  <1>4. CASE rt.origin # "LegacyPush"
    <2>1. healthyFor' \in 0 .. LocalHealthMs
      BY <1>2, <1>4 DEF Observe
    <2>2. CASE healthyFor' = LocalHealthMs
      <3>1. Confirmed(ok)
        BY <1>4, <2>2 DEF Observe
      <3>2. /\ st' \in [Slot -> {"New", "Pending", "Valid", "Bad"}]
            /\ st' \in {st, [st EXCEPT ![running] = "Valid"]}
            /\ ok => st' = [st EXCEPT ![running] = "Valid"]
        BY <3>1, TrialHome, MarkEffect DEF Confirmed
      <3>3. rt' \in RtType /\ rt'.pending = ~ok /\ (~ok => rt'.state = rt.state)
        BY <1>1, <3>1 DEF Confirmed, RtType, RuntimeStates
      <3> QED BY <1>1, <2>1, <3>2, <3>3
    <2>3. CASE healthyFor' # LocalHealthMs
      <3>1. rt' = [rt EXCEPT !.observing = healthy] /\ st' = st
        BY <1>4, <2>3 DEF Observe
      <3>2. rt' \in RtType /\ rt'.pending = rt.pending /\ rt'.state = rt.state
        BY <1>1, <3>1 DEF RtType
      <3> QED BY <1>1, <2>1, <3>1, <3>2
    <2> QED BY <2>2, <2>3
  <1> QED BY <1>3, <1>4

LEMMA PollStep ==
    ASSUME OtaIInv, NEW dt \in Delay, NEW healthy \in BOOLEAN, NEW ok \in BOOLEAN,
           Poll(dt, healthy, ok)
    PROVE  SoundStep
  <1>1. at = "run" /\ rt.pending /\ Untouched /\ Report
    BY DEF Poll, Untouched
  <1>2. CASE RollbackDone
    BY <1>1, <1>2, RollbackDoneStep
  <1>3. CASE RollbackFailed(rt) /\ bootAge' = HealthMs
    <2>1. bootAge' \in 0 .. HealthMs /\ rt \in RtType
      BY <1>3, OtaTiming DEF OtaIInv, OtaTypeOK, RtType
    <2> QED BY <1>1, <1>3, <2>1, RollbackFailedStep
  <1>4. CASE /\ ~Overdue(dt)
             /\ bootAge' = Least(bootAge + dt, HealthMs)
             /\ streak' = IF ~healthy THEN -1
                          ELSE IF streak = -1 \/ dt >= PollMaxMs THEN 0
                          ELSE Least(streak + dt, LocalHealthMs)
             /\ Observe(dt, healthy, ok)
             /\ UNCHANGED <<at, up, bodyAllowed>>
    <2>1. /\ nvs' = nvs /\ slot' = slot /\ selected' = selected /\ running' = running
          /\ offeredBy' = offeredBy /\ tried' = tried /\ rotted' = rotted
          /\ at' = "run" /\ up' = up /\ bodyAllowed' = bodyAllowed
          /\ reported' = IF rt'.state = "VALID" THEN slot[running] ELSE reported
      BY <1>1, <1>4 DEF Untouched, Report
    <2>2. /\ rt' \in RtType /\ healthyFor' \in 0 .. LocalHealthMs
          /\ st' \in [Slot -> {"New", "Pending", "Valid", "Bad"}]
          /\ \/ /\ rt'.pending /\ rt'.state # "VALID"
                /\ st' \in {st, [st EXCEPT ![running] = "Valid"]}
             \/ ~rt'.pending /\ st' = [st EXCEPT ![running] = "Valid"]
      BY <1>1, <1>4, ObserveStep
    <2>3. bootAge' \in 0 .. HealthMs /\ streak' \in -1 .. LocalHealthMs
      BY <1>4, OtaTiming DEF Least, Delay, OtaIInv, OtaTypeOK
    <2>4. reported' \in Image \cup {Missing}
      BY <1>1, <2>1, TrialHome DEF OtaIInv, OtaTypeOK
    <2>5. OtaTypeOK'
      BY <2>1, <2>2, <2>3, <2>4 DEF OtaIInv, OtaTypeOK, RtType
    <2>6. Trust' /\ AbstractStep /\ Fence' /\ PackageStep
      BY <1>1, <2>1, <2>2, TrialStep
    <2> QED BY <2>5, <2>6 DEF SoundStep, OtaIInv
  <1> QED BY <1>2, <1>3, <1>4 DEF Poll

LEMMA ConfirmStep ==
    ASSUME OtaIInv, NEW token \in Token, NEW ok \in BOOLEAN, Confirm(token, ok)
    PROVE  SoundStep
  <1>1. /\ nvs' = nvs /\ slot' = slot /\ selected' = selected /\ running' = running
        /\ offeredBy' = offeredBy /\ tried' = tried /\ rotted' = rotted
        /\ at = "run" /\ at' = "run" /\ up' = up /\ bodyAllowed' = bodyAllowed /\ rt.pending
        /\ bootAge' = bootAge /\ healthyFor' = healthyFor /\ streak' = streak
        /\ rt' = [rt EXCEPT !.pending = ~ok, !.state = IF ok THEN "VALID" ELSE rt.state]
        /\ reported' = IF rt'.state = "VALID" THEN slot[running] ELSE reported
    BY DEF Confirm, Report
  <1>2. /\ st' \in [Slot -> {"New", "Pending", "Valid", "Bad"}]
        /\ st' \in {st, [st EXCEPT ![running] = "Valid"]}
        /\ ok => st' = [st EXCEPT ![running] = "Valid"]
    BY <1>1, TrialHome, MarkEffect DEF Confirm
  <1>3. rt \in RtType /\ rt.state # "VALID"
    BY <1>1 DEF OtaIInv, OtaTypeOK, RtType, Trust, RunState
  <1>4. rt' \in RtType /\ rt'.pending = ~ok /\ (~ok => rt'.state = rt.state)
    BY <1>1, <1>3 DEF RtType, RuntimeStates
  <1>5. reported' \in Image \cup {Missing}
    BY <1>1, TrialHome DEF OtaIInv, OtaTypeOK
  <1>6. OtaTypeOK'
    BY <1>1, <1>2, <1>4, <1>5 DEF OtaIInv, OtaTypeOK, RtType
  <1>7. Trust' /\ AbstractStep /\ Fence' /\ PackageStep
    BY <1>1, <1>2, <1>3, <1>4, TrialStep
  <1> QED BY <1>6, <1>7 DEF SoundStep, OtaIInv

-----------------------------------------------------------------------------
(* The theorems.                                                           *)

LEMMA OtaInitIsSound == OtaInit => OtaIInv
  <1> SUFFICES ASSUME OtaInit PROVE OtaIInv
    OBVIOUS
  <1>1. OtaTypeOK
    BY OtaTypeInit
  <1>2. /\ at = "off" /\ selected = 0 /\ running = 0 /\ rt = NotStarted /\ up = NoTransfer("Idle")
        /\ slot[0] = Factory /\ st[0] = "Valid" /\ reported = Missing /\ tried = 0
        /\ nvs["otactx2"] = Missing
    BY DEF OtaInit, Slot
  <1>3. Home = 0 /\ ~OnTrial
    BY <1>2 DEF Home, OnTrial, Undecided
  <1>4. Trust
    BY <1>2, <1>3, OtaImages, TransferTypes, NotStartedType
       DEF Trust, FallbackIsKept, ReportedIsKept, RunState, OffState, TransferState, TrialIsNewer
  <1>5. Fence
    BY <1>2, OtaBlobs DEF Fence
  <1> QED BY <1>1, <1>4, <1>5 DEF OtaIInv

LEMMA StutterIsSound == ASSUME OtaIInv, UNCHANGED otaVars PROVE SoundStep
  <1>1. /\ nvs' = nvs /\ slot' = slot /\ st' = st /\ selected' = selected /\ running' = running
        /\ at' = at /\ rt' = rt /\ bootAge' = bootAge /\ healthyFor' = healthyFor
        /\ streak' = streak /\ up' = up /\ bodyAllowed' = bodyAllowed
        /\ reported' = reported /\ offeredBy' = offeredBy /\ tried' = tried /\ rotted' = rotted
    BY DEF otaVars, flash, ram, trialRam, ghosts
  <1>2. OtaTypeOK'
    BY <1>1 DEF OtaIInv, OtaTypeOK
  <1>3. Home' = Home /\ OnTrial' = OnTrial
    BY <1>1 DEF Home, OnTrial, Undecided
  <1>4. Trust'
    BY <1>1, <1>3 DEF OtaIInv, Trust, FallbackIsKept, ReportedIsKept, RunState, OffState,
                      TransferState, TrialIsNewer
  <1>5. Fence' /\ AbstractStep /\ PackageStep
    BY <1>1, <1>3 DEF OtaIInv, Fence, AbstractStep, PackageStep, GoodImage, TrialImage
  <1> QED BY <1>2, <1>4, <1>5 DEF SoundStep, OtaIInv

LEMMA TaskIsSound == ASSUME OtaIInv, Task PROVE SoundStep
  <1>1. CASE \E context \in ReadOf("otactx2"), journal \in ReadOf("ota") : Begin(context, journal)
    BY <1>1, BeginStep
  <1>2. CASE SkipBegin
    BY <1>2, SkipBeginStep
  <1>3. CASE \E dt \in Delay, healthy, ok \in BOOLEAN : Poll(dt, healthy, ok)
    BY <1>3, PollStep
  <1>4. CASE Start
    BY <1>4, StartStep
  <1>5. CASE FailTransfer
    BY <1>5, FailTransferStep
  <1>6. CASE LastChunk
    BY <1>6, LastChunkStep
  <1>7. CASE \E ok \in BOOLEAN :
                Authorize(ok) \/ BeginFlash(ok) \/ JournalImage(ok) \/ SelectBoot(ok)
    BY <1>7, AuthorizeStep, BeginFlashStep, JournalImageStep, SelectBootStep
  <1> QED BY <1>1, <1>2, <1>3, <1>4, <1>5, <1>6, <1>7 DEF Task

LEMMA NextIsSound == ASSUME OtaIInv, [OtaNext]_otaVars PROVE SoundStep
  <1>1. CASE UNCHANGED otaVars
    BY <1>1, StutterIsSound
  <1>2. CASE Task
    BY <1>2, TaskIsSound
  <1>3. CASE OtaPowerCut
    BY <1>3, OtaPowerCutStep
  <1>4. CASE \E k \in {"ota", "otactx2"} : OtaRot(k)
    BY <1>4, OtaRotStep DEF NvsKeys
  <1>5. CASE \E state \in {"USB_BASELINE", "BOOT_STATE_ERROR", "WATCHDOG_ERROR"} : Boot(state)
    BY <1>5, BootStep
  <1>6. CASE \E token \in Token, ok \in BOOLEAN : Confirm(token, ok)
    BY <1>6, ConfirmStep
  <1>7. CASE HeartbeatFails
    BY <1>7, HeartbeatFailsStep
  <1>8. CASE HeaderGate \/ CloseClient \/ Refuse
    BY <1>8, HeaderGateStep, CloseClientStep, RefuseStep
  <1>9. CASE \E image \in Image, token \in Token :
                Pull(image, token) \/ \E origin \in Origin : Prepare(image, token, origin)
    BY <1>9, PullStep, PrepareStep
  <1> QED BY <1>1, <1>2, <1>3, <1>4, <1>5, <1>6, <1>7, <1>8, <1>9 DEF OtaNext

\* Everything the proofs know of the reachable states.
THEOREM OtaInductive == OtaSpec => []OtaIInv
  <1>1. OtaInit => OtaIInv
    BY OtaInitIsSound
  <1>2. OtaIInv /\ [OtaNext]_otaVars => OtaIInv'
    BY NextIsSound DEF SoundStep
  <1> QED BY <1>1, <1>2, PTL DEF OtaSpec

\* Flash, RAM and history of the updater keep their types.
THEOREM OtaTypeCorrect == OtaSpec => []OtaTypeOK
  <1>1. OtaIInv => OtaTypeOK
    BY DEF OtaIInv
  <1> QED BY <1>1, OtaInductive, PTL

\* Wherever power is cut and whichever call fails, a complete and confirmed image
\* is left to boot (EspWriter::begin never erases it, rollback never abandons it).
THEOREM FallbackKept == OtaSpec => []FallbackIsKept
  <1>1. OtaIInv => FallbackIsKept
    BY DEF OtaIInv, Trust
  <1> QED BY <1>1, OtaInductive, PTL

\* Nothing brings back an image older than one that was reported VALID
\* (Runtime::begin, poll and confirm).
THEOREM ReportedKept == OtaSpec => []ReportedIsKept
  <1>1. OtaIInv => ReportedIsKept
    BY DEF OtaIInv, Trust
  <1> QED BY <1>1, OtaInductive, PTL

\* The versions of the packages that reach the flash strictly increase
\* (EspWriter::available and authorize).
THEOREM PackagesTriedOnce == OtaSpec => PackagesAreTriedOnce
  <1>1. OtaIInv /\ [OtaNext]_otaVars =>
            [tried' # tried \/ (at = "erase" /\ slot' # slot /\ up.origin \in PackageOrigin) =>
                tried' > tried]_otaVars
    BY NextIsSound DEF SoundStep, PackageStep
  <1> QED BY <1>1, OtaInductive, PTL DEF OtaSpec, PackagesAreTriedOnce

\* The device implements the A/B update.
THEOREM OtaImplementsUpdate == OtaSpec => ImplementsUpdate
  <1>1. OtaInit => Update!Init
    <2> SUFFICES ASSUME OtaInit PROVE Update!Init
      OBVIOUS
    <2>1. /\ at = "off" /\ selected = 0 /\ slot[0] = Factory /\ st[0] = "Valid"
      BY DEF OtaInit, Slot
    <2>2. Home = 0 /\ ~OnTrial
      BY <2>1 DEF Home, OnTrial, Undecided
    <2> QED BY <2>1, <2>2 DEF Update!Init, NoImage
  <1>2. OtaIInv /\ [OtaNext]_otaVars =>
            [Update!Next]_<<slot[Home], IF OnTrial /\ slot[selected] # Partial
                                        THEN slot[selected] ELSE Missing>>
    <2> SUFFICES ASSUME OtaIInv, [OtaNext]_otaVars
                 PROVE  [Update!Next]_<<slot[Home], IF OnTrial /\ slot[selected] # Partial
                                                    THEN slot[selected] ELSE Missing>>
      OBVIOUS
    <2>1. AbstractStep
      BY NextIsSound DEF SoundStep
    <2> QED BY <2>1 DEF AbstractStep, GoodImage, TrialImage, NoImage,
                        Update!Next, Update!Offer, Update!Adopt, Update!Withdraw
  <1> QED BY <1>1, <1>2, OtaInductive, PTL DEF OtaSpec, ImplementsUpdate, Update!Spec
=============================================================================
