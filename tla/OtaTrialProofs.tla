--------------------------- MODULE OtaTrialProofs ---------------------------
(***************************************************************************)
(* Proofs about the trial of OtaDevice, for boot-data calls that do        *)
(* nothing when they report failure.                                       *)
(***************************************************************************)
EXTENDS OtaDeviceProofs

\* Only a successful update selects the slot that does not run.
SelectedLater == at # "off" /\ selected # running => up.phase = "RebootPending"

PendingInFlash == rt.pending => st[running] = "Pending"

\* What is selected next has been journaled, under its own context.
JournaledFirst ==
    at = "select" =>
        /\ nvs["ota"] \in Journal /\ nvs["ota"].image = up.image
        /\ up.origin \in PackageOrigin => SameAttempt(nvs["otactx2"], nvs["ota"])

\* The context of a package that can boot on trial is readable as its own, or
\* damaged.
PackageIsKnown ==
    st[selected] \in {"New", "Pending"} /\ offeredBy \in PackageOrigin =>
        \/ nvs["ota"] = Damaged \/ nvs["otactx2"] = Damaged
        \/ SameAttempt(nvs["otactx2"], nvs["ota"])

FreshRam ==
    at \in {"off", "armed"} =>
        rt.origin = "LegacyPush" /\ ~rt.observing /\ ~rt.begun /\ streak = -1

\* The Runtime object knows the trial, and measures what really was healthy.
TrialKnown ==
    rt.pending /\ rt.begun =>
        /\ rt.journal.image = slot[running]
        /\ offeredBy \in PackageOrigin => rt.origin \in PackageOrigin

TrialMeasured ==
    rt.pending /\ rt.origin # "LegacyPush" =>
        /\ rt.observing <=> streak # -1
        /\ rt.observing => streak = healthyFor

TrialInv ==
    /\ SelectedLater /\ PendingInFlash /\ JournaledFirst
    /\ TrialIsJournaled /\ PackageIsKnown
    /\ FreshRam /\ TrialKnown /\ TrialMeasured

PromisedStep ==
    rt.pending /\ rt'.state = "VALID" =>
        /\ bootAge' < HealthMs
        /\ rt.journal.image = slot[running]
        /\ offeredBy \in PackageOrigin => streak' = LocalHealthMs

SoundTrial == TrialInv' /\ PromisedStep

\* A trial does not report VALID by itself.
LEMMA PendingIsNotValid == ASSUME OtaIInv, rt.pending PROVE rt.state # "VALID" /\ at # "off"
  BY DEF OtaIInv, Trust, RunState, OffState

-----------------------------------------------------------------------------
(* Requests and transfers.                                                 *)

\* What leaves flash and trial alone and selects nothing.
LEMMA RequestKeepsTrial ==
    ASSUME OtaIInv, TrialInv, at = "run", at' \in {"run", "context", "erase"},
           UNCHANGED <<nvs, flash, trialRam, ghosts>>,
           up.phase = "RebootPending" => up'.phase = "RebootPending"
    PROVE  SoundTrial
  <1>1. /\ nvs' = nvs /\ slot' = slot /\ st' = st /\ selected' = selected /\ running' = running
        /\ rt' = rt /\ bootAge' = bootAge /\ healthyFor' = healthyFor /\ streak' = streak
        /\ offeredBy' = offeredBy /\ rotted' = rotted
    BY DEF flash, trialRam, ghosts
  <1>2. TrialInv'
    BY <1>1 DEF TrialInv, SelectedLater, PendingInFlash, JournaledFirst, TrialIsJournaled,
                PackageIsKnown, FreshRam, TrialKnown, TrialMeasured, SameAttempt
  <1>3. PromisedStep
    BY <1>1, PendingIsNotValid DEF PromisedStep
  <1> QED BY <1>2, <1>3 DEF SoundTrial

LEMMA RequestsKeepTrial ==
    ASSUME OtaIInv, TrialInv,
           \/ HeaderGate \/ CloseClient \/ Refuse \/ FailTransfer \/ Start
           \/ \E image \in Image, token \in Token :
                 Pull(image, token) \/ \E origin \in Origin : Prepare(image, token, origin)
    PROVE  SoundTrial
  <1>1. CASE HeaderGate
    BY <1>1, RequestKeepsTrial DEF HeaderGate
  <1>2. CASE CloseClient
    <2>1. at = "run" /\ at' = at /\ up' = up /\ UNCHANGED <<nvs, flash, trialRam, ghosts>>
      BY <1>2, Zenon DEF CloseClient
    <2> QED BY <2>1, RequestKeepsTrial
  <1>3. CASE Refuse
    <2>1. /\ at = "run" /\ at' = at /\ UNCHANGED <<nvs, flash, trialRam, ghosts>>
          /\ up' = IF Idle THEN FailedTransfer ELSE up
      BY <1>3, Zenon DEF Refuse
    <2>2. up.phase = "RebootPending" => up'.phase = "RebootPending"
      BY <2>1 DEF Idle
    <2> QED BY <2>1, <2>2, RequestKeepsTrial
  <1>4. CASE FailTransfer
    BY <1>4, RequestKeepsTrial DEF FailTransfer
  <1>5. CASE Start
    BY <1>5, RequestKeepsTrial DEF Start
  <1>6. ASSUME NEW image \in Image, NEW token \in Token, Pull(image, token)
        PROVE  SoundTrial
    BY <1>6, RequestKeepsTrial DEF Pull, Accepts, Idle
  <1>7. ASSUME NEW image \in Image, NEW token \in Token, NEW origin \in Origin,
               Prepare(image, token, origin)
        PROVE  SoundTrial
    <2>1. at = "run" /\ at' = at /\ Idle /\ UNCHANGED <<nvs, flash, trialRam, ghosts>>
      BY <1>7, Zenon DEF Prepare, Accepts
    <2> QED BY <2>1, RequestKeepsTrial DEF Idle
  <1> QED BY <1>1, <1>2, <1>3, <1>4, <1>5, <1>6, <1>7

\* During a transfer there is no trial.
LEMMA NoTrialInTransfer ==
    ASSUME OtaIInv, TrialInv, up.phase = "Receiving"
    PROVE  /\ selected = running /\ st[selected] = "Valid" /\ ~rt.pending /\ at \notin {"off", "armed"}
           /\ slot[running] \in Image
  BY TransferHome DEF TrialInv, SelectedLater, OtaIInv, Trust, OffState

LEMMA TransferKeepsTrial ==
    ASSUME OtaIInv, TrialInv, up.phase = "Receiving",
           st' = st, selected' = selected, running' = running, rt' = rt, at' # "off", at' # "armed",
           JournaledFirst'
    PROVE  SoundTrial
  <1>1. selected' = running' /\ st'[selected'] = "Valid" /\ ~rt'.pending
    BY NoTrialInTransfer
  <1>2. TrialInv'
    BY <1>1 DEF TrialInv, SelectedLater, PendingInFlash, TrialIsJournaled, PackageIsKnown,
                FreshRam, TrialKnown, TrialMeasured
  <1>3. PromisedStep
    BY NoTrialInTransfer DEF PromisedStep
  <1> QED BY <1>2, <1>3 DEF SoundTrial

LEMMA TransfersKeepTrial ==
    ASSUME OtaIInv, TrialInv, NEW ok \in BOOLEAN,
           Authorize(ok) \/ BeginFlash(ok) \/ LastChunk
    PROVE  SoundTrial
  <1>1. up.phase = "Receiving"
    BY DEF OtaIInv, Trust, TransferState, Authorize, BeginFlash, LastChunk
  <1>2. /\ st' = st /\ selected' = selected /\ running' = running /\ rt' = rt
        /\ at' \notin {"off", "armed", "select"}
    BY DEF Authorize, BeginFlash, LastChunk, Proceed, flash, ram, trialRam
  <1> QED BY <1>1, <1>2, TransferKeepsTrial DEF JournaledFirst

LEMMA JournalKeepsTrial ==
    ASSUME OtaIInv, TrialInv, NEW ok \in BOOLEAN, JournalImage(ok)
    PROVE  SoundTrial
  <1> DEFINE own == [image |-> up.image, token |-> up.token]
             mine == up.origin = "LegacyPush" \/ SameAttempt(nvs["otactx2"], own)
  <1>1. /\ at = "journal" /\ up.phase = "Receiving" /\ up \in UpType
        /\ slot' = slot /\ st' = st /\ selected' = selected /\ running' = running /\ rt' = rt
    BY DEF JournalImage, OtaIInv, OtaTypeOK, UpType, Trust, TransferState, flash, trialRam
  <1>2. own \in Journal /\ own.image = up.image
    BY <1>1, OwnBlobs
  <1>3. CASE mine /\ ok
    <2>1. CheckedWrite("ota", own, ok) /\ at' = "select" /\ up' = up
      BY <1>3 DEF JournalImage, WriteJournal, Proceed
    <2>2. nvs'["ota"] = own /\ nvs'["otactx2"] = nvs["otactx2"]
      BY <1>3, <2>1, OtaWriteEffect DEF OtaIInv, NvsKeys
    <2>3. up.origin \in PackageOrigin => SameAttempt(nvs["otactx2"], own)
      BY <1>3 DEF PackageOrigin
    <2>4. JournaledFirst'
      BY <1>2, <2>1, <2>2, <2>3 DEF JournaledFirst, SameAttempt
    <2> QED BY <1>1, <2>1, <2>4, TransferKeepsTrial
  <1>4. CASE ~(mine /\ ok)
    <2>1. at' = "run"
      BY <1>4 DEF JournalImage, Proceed
    <2> QED BY <1>1, <2>1, TransferKeepsTrial DEF JournaledFirst
  <1> QED BY <1>3, <1>4

LEMMA SelectKeepsTrial ==
    ASSUME OtaIInv, TrialInv, MayMislead = FALSE, NEW ok \in BOOLEAN, SelectBoot(ok)
    PROVE  SoundTrial
  <1>1. /\ nvs' = nvs /\ slot' = slot /\ running' = running /\ rt' = rt
        /\ bootAge' = bootAge /\ healthyFor' = healthyFor /\ streak' = streak
        /\ at = "select" /\ at' = "run" /\ rotted' = rotted
        /\ up' = IF ok THEN NoTransfer("RebootPending") ELSE FailedTransfer
    BY DEF SelectBoot, trialRam
  <1>2. up.phase = "Receiving" /\ slot[1 - running] = up.image
    BY <1>1 DEF OtaIInv, Trust, TransferState
  <1>3. ~rt'.pending /\ selected = running /\ st[running] = "Valid"
    BY <1>1, <1>2, NoTrialInTransfer
  <1>4. PromisedStep
    BY <1>1, <1>3 DEF PromisedStep
  <1>5. CASE ok
    <2>1. selected' = 1 - running /\ offeredBy' = up.origin /\ up'.phase = "RebootPending"
      BY <1>1, <1>5, TransferTypes DEF SelectBoot, TakesEffect
    <2>2. SelectedLater' /\ PendingInFlash' /\ FreshRam' /\ TrialKnown' /\ TrialMeasured'
          /\ JournaledFirst'
      BY <1>1, <1>3, <2>1 DEF SelectedLater, PendingInFlash, FreshRam, TrialKnown, TrialMeasured,
                              JournaledFirst
    <2>3. TrialIsJournaled' /\ PackageIsKnown'
      BY <1>1, <1>2, <2>1 DEF TrialInv, JournaledFirst, TrialIsJournaled, PackageIsKnown, SameAttempt
    <2> QED BY <1>4, <2>2, <2>3 DEF SoundTrial, TrialInv
  <1>6. CASE ~ok
    <2>1. st' = st /\ selected' = selected
      BY <1>6 DEF SelectBoot, TakesEffect
    <2>2. TrialInv'
      BY <1>1, <1>3, <2>1 DEF TrialInv, SelectedLater, PendingInFlash, FreshRam, TrialKnown,
                              TrialMeasured, JournaledFirst, TrialIsJournaled, PackageIsKnown
    <2> QED BY <1>4, <2>2 DEF SoundTrial
  <1> QED BY <1>5, <1>6

-----------------------------------------------------------------------------
(* Power, the bootloader and the trial.                                    *)

LEMMA NotStartedFacts ==
    /\ ~NotStarted.pending /\ ~NotStarted.begun /\ ~NotStarted.observing
    /\ NotStarted.origin = "LegacyPush" /\ NotStarted.state = "NOT_STARTED"
  BY DEF NotStarted

LEMMA PowerCutKeepsTrial == ASSUME OtaIInv, TrialInv, OtaPowerCut PROVE SoundTrial
  <1>1. /\ nvs' = nvs /\ slot' = slot /\ st' = st /\ selected' = selected
        /\ at' = "off" /\ rt' = NotStarted /\ streak' = -1
        /\ offeredBy' = offeredBy /\ rotted' = rotted
    BY DEF OtaPowerCut, RamLost, flash, ghosts
  <1>2. SelectedLater' /\ PendingInFlash' /\ JournaledFirst' /\ FreshRam' /\ TrialKnown'
        /\ TrialMeasured' /\ PromisedStep
    BY <1>1, NotStartedFacts DEF SelectedLater, PendingInFlash, JournaledFirst, FreshRam, TrialKnown,
                                 TrialMeasured, PromisedStep
  <1>3. TrialIsJournaled' /\ PackageIsKnown'
    BY <1>1 DEF TrialInv, TrialIsJournaled, PackageIsKnown, SameAttempt
  <1> QED BY <1>2, <1>3 DEF SoundTrial, TrialInv

LEMMA RotKeepsTrial ==
    ASSUME OtaIInv, TrialInv, NEW k \in NvsKeys, OtaRot(k)
    PROVE  SoundTrial
  <1>1. /\ slot' = slot /\ st' = st /\ selected' = selected /\ running' = running
        /\ at = "off" /\ at' = at /\ rt' = rt /\ streak' = streak /\ healthyFor' = healthyFor
        /\ offeredBy' = offeredBy /\ rotted' /\ nvs' = [nvs EXCEPT ![k] = Damaged]
    BY DEF OtaRot, Put, flash, ram, trialRam
  <1>2. ~rt'.pending
    BY <1>1 DEF OtaIInv, Trust, OffState
  <1>3. nvs'["ota"] = Damaged \/ nvs'["otactx2"] = Damaged
    BY <1>1 DEF OtaIInv, OtaTypeOK, NvsKeys
  <1>4. SelectedLater' /\ PendingInFlash' /\ JournaledFirst' /\ FreshRam' /\ TrialKnown'
        /\ TrialMeasured' /\ PromisedStep
    BY <1>1, <1>2 DEF TrialInv, SelectedLater, PendingInFlash, JournaledFirst, FreshRam, TrialKnown,
                      TrialMeasured, PromisedStep
  <1>5. TrialIsJournaled' /\ PackageIsKnown'
    BY <1>1, <1>3 DEF TrialIsJournaled, PackageIsKnown
  <1> QED BY <1>4, <1>5 DEF SoundTrial, TrialInv

LEMMA BootKeepsTrial ==
    ASSUME OtaIInv, TrialInv, NEW state \in {"USB_BASELINE", "BOOT_STATE_ERROR", "WATCHDOG_ERROR"},
           Boot(state)
    PROVE  SoundTrial
  <1>1. /\ nvs' = nvs /\ slot' = slot /\ at = "off" /\ at' = "armed"
        /\ running' = BootSlot /\ selected' = BootSlot
        /\ st' = [s \in Slot |-> BootState(s)]
        /\ rt' = Armed(state, st'[BootSlot] = "Pending")
        /\ streak' = streak /\ offeredBy' = offeredBy /\ rotted' = rotted
    BY DEF Boot, ghosts
  <1>2. /\ rt'.pending = (st'[BootSlot] = "Pending" /\ state # "BOOT_STATE_ERROR")
        /\ ~rt'.begun /\ ~rt'.observing /\ rt'.origin = "LegacyPush"
    BY <1>1 DEF Armed, NotStarted
  <1>3. ~rt.pending /\ streak = -1
    BY <1>1 DEF OtaIInv, Trust, OffState, TrialInv, FreshRam
  <1>4. SelectedLater' /\ PendingInFlash' /\ JournaledFirst' /\ FreshRam' /\ TrialKnown'
        /\ TrialMeasured' /\ PromisedStep
    BY <1>1, <1>2, <1>3 DEF SelectedLater, PendingInFlash, JournaledFirst, FreshRam, TrialKnown,
                            TrialMeasured, PromisedStep
  <1>5. st'[selected'] \in {"New", "Pending"} => selected' = selected /\ st[selected] = "New"
    <2>1. selected \in Slot /\ 1 - selected \in Slot /\ 1 - selected # selected
      BY TwoSlots DEF OtaIInv, OtaTypeOK
    <2>2. Home = (IF st[selected] = "Valid" THEN selected ELSE 1 - selected)
          /\ slot[Home] \in Image /\ st[Home] = "Valid"
      BY <1>1 DEF Home, Undecided, OtaIInv, Trust, FallbackIsKept
    <2>3. CASE Unbootable
      <3>1. BootSlot = 1 - selected /\ st[1 - selected] = "Valid"
        BY <2>1, <2>2, <2>3, OtaImages DEF BootSlot, Unbootable
      <3>2. st'[selected'] = "Valid"
        BY <1>1, <2>1, <3>1 DEF BootState
      <3> QED BY <3>2
    <2>4. CASE ~Unbootable
      <3>1. BootSlot = selected /\ st'[selected] = (IF st[selected] = "New" THEN "Pending" ELSE st[selected])
        BY <1>1, <2>1, <2>4 DEF BootSlot, BootState
      <3> QED BY <1>1, <2>4, <3>1 DEF Unbootable
    <2> QED BY <2>3, <2>4
  <1>6. TrialIsJournaled' /\ PackageIsKnown'
    BY <1>1, <1>5 DEF TrialInv, TrialIsJournaled, PackageIsKnown, SameAttempt
  <1> QED BY <1>4, <1>6 DEF SoundTrial, TrialInv

LEMMA SkipBeginKeepsTrial == ASSUME OtaIInv, TrialInv, SkipBegin PROVE SoundTrial
  <1>1. /\ nvs' = nvs /\ slot' = slot /\ st' = st /\ selected' = selected /\ running' = running
        /\ rt' = rt /\ healthyFor' = healthyFor /\ streak' = streak
        /\ at = "armed" /\ at' = "run" /\ up' = up
        /\ offeredBy' = offeredBy /\ rotted' = rotted
    BY DEF SkipBegin, flash, ghosts, ram, trialRam
  <1>2. selected = running
    BY <1>1 DEF OtaIInv, Trust, RunState
  <1>3. TrialInv'
    BY <1>1, <1>2 DEF TrialInv, SelectedLater, PendingInFlash, JournaledFirst, TrialIsJournaled,
                      PackageIsKnown, FreshRam, TrialKnown, TrialMeasured, SameAttempt
  <1>4. PromisedStep
    BY <1>1, PendingIsNotValid DEF PromisedStep
  <1> QED BY <1>3, <1>4 DEF SoundTrial

LEMMA HeartbeatKeepsTrial == ASSUME OtaIInv, TrialInv, HeartbeatFails PROVE SoundTrial
  <1>1. /\ nvs' = nvs /\ slot' = slot /\ st' = st /\ selected' = selected /\ running' = running
        /\ healthyFor' = healthyFor /\ streak' = streak
        /\ at = "run" /\ at' = at /\ up' = up
        /\ offeredBy' = offeredBy /\ rotted' = rotted
        /\ rt' = [rt EXCEPT !.fatal = TRUE, !.state = "WATCHDOG_ERROR"]
    BY DEF HeartbeatFails, flash, ghosts
  <1>2. /\ rt'.pending = rt.pending /\ rt'.begun = rt.begun /\ rt'.observing = rt.observing
        /\ rt'.origin = rt.origin /\ rt'.journal = rt.journal /\ rt'.state = "WATCHDOG_ERROR"
    BY <1>1 DEF OtaIInv, OtaTypeOK
  <1>3. TrialInv'
    BY <1>1, <1>2 DEF TrialInv, SelectedLater, PendingInFlash, JournaledFirst, TrialIsJournaled,
                      PackageIsKnown, FreshRam, TrialKnown, TrialMeasured, SameAttempt
  <1>4. PromisedStep
    BY <1>2 DEF PromisedStep
  <1> QED BY <1>3, <1>4 DEF SoundTrial

\* Once the trial is over, its slot is no longer one that can boot on trial, or
\* it is the same as before.
LEMMA FlashAfterTrial ==
    ASSUME OtaIInv, TrialInv, nvs' = nvs, slot' = slot, selected' = selected, running' = running,
           offeredBy' = offeredBy, rotted' = rotted, selected = running,
           st' = st \/ st'[running] \notin {"New", "Pending"}
    PROVE  TrialIsJournaled' /\ PackageIsKnown'
  <1>1. CASE st' = st
    BY <1>1 DEF TrialInv, TrialIsJournaled, PackageIsKnown, SameAttempt
  <1>2. CASE st'[running] \notin {"New", "Pending"}
    BY <1>2 DEF TrialIsJournaled, PackageIsKnown
  <1> QED BY <1>1, <1>2

LEMMA RollbackKeepsTrial ==
    ASSUME OtaIInv, TrialInv, at # "off", rt.pending, Untouched,
           RollbackDone \/ \E state \in RtType : RollbackFailed(state)
    PROVE  SoundTrial
  <1>1. /\ nvs' = nvs /\ slot' = slot /\ selected' = selected /\ running' = running
        /\ offeredBy' = offeredBy /\ rotted' = rotted /\ selected = running /\ running \in Slot
    BY TrialHome DEF Untouched
  <1>2. st' = st \/ st'[running] = "Bad"
    <2>1. \E ok \in BOOLEAN : Mark(running, "Bad", ok)
      BY DEF RollbackDone, RollbackFailed
    <2> QED BY <1>1, <2>1, MarkEffect DEF OtaIInv, OtaTypeOK
  <1>3. TrialIsJournaled' /\ PackageIsKnown'
    BY <1>1, <1>2, FlashAfterTrial
  <1>4. CASE RollbackDone
    <2>1. at' = "off" /\ rt' = NotStarted /\ streak' = -1
      BY <1>4 DEF RollbackDone, RamLost
    <2>2. SelectedLater' /\ PendingInFlash' /\ JournaledFirst' /\ FreshRam' /\ TrialKnown'
          /\ TrialMeasured' /\ PromisedStep
      BY <2>1, NotStartedFacts DEF SelectedLater, PendingInFlash, JournaledFirst, FreshRam,
                                   TrialKnown, TrialMeasured, PromisedStep
    <2> QED BY <1>3, <2>2 DEF SoundTrial, TrialInv
  <1>5. ASSUME NEW state \in RtType, RollbackFailed(state) PROVE SoundTrial
    <2>1. at' = "run" /\ ~rt'.pending /\ rt'.state = "ROLLBACK_FAILED_USB_REQUIRED"
      BY <1>5 DEF RollbackFailed, RolledBack, RtType
    <2>2. SelectedLater' /\ PendingInFlash' /\ JournaledFirst' /\ FreshRam' /\ TrialKnown'
          /\ TrialMeasured' /\ PromisedStep
      BY <1>1, <2>1 DEF SelectedLater, PendingInFlash, JournaledFirst, FreshRam,
                        TrialKnown, TrialMeasured, PromisedStep
    <2> QED BY <1>3, <2>2 DEF SoundTrial, TrialInv
  <1> QED BY <1>4, <1>5

LEMMA BeginKeepsTrial ==
    ASSUME OtaIInv, TrialInv,
           NEW context \in ReadOf("otactx2"), NEW journal \in ReadOf("ota"),
           Begin(context, journal)
    PROVE  SoundTrial
  <1>1. at = "armed" /\ Untouched
    BY DEF Begin, Untouched
  <1>2. CASE rt.pending /\ ~Acceptable(context, journal)
    <2>1. RollbackDone \/ RollbackFailed(Begun(context, journal))
      BY <1>2 DEF Begin
    <2> QED BY <1>1, <1>2, <2>1, BegunType, RollbackKeepsTrial
  <1>3. CASE ~(rt.pending /\ ~Acceptable(context, journal))
    <2>1. /\ nvs' = nvs /\ slot' = slot /\ selected' = selected /\ running' = running
          /\ offeredBy' = offeredBy /\ rotted' = rotted
          /\ rt' = Begun(context, journal) /\ at' = "run" /\ st' = st
          /\ healthyFor' = healthyFor /\ up' = up /\ streak' = streak
      BY <1>1, <1>3 DEF Begin, Untouched
    <2>2. rt'.pending = rt.pending /\ (rt.pending => rt'.state # "VALID")
      BY <1>1, <2>1, BegunType
    <2>3. running = selected
      BY <1>1 DEF OtaIInv, Trust, RunState
    <2>4. ~rt'.observing /\ streak = -1
      BY <1>1, <2>1 DEF Begun, TrialInv, FreshRam, OtaIInv, OtaTypeOK
    <2>5. TrialIsJournaled' /\ PackageIsKnown'
      BY <2>1, <2>3, FlashAfterTrial
    <2>6. TrialKnown'
      <3> SUFFICES ASSUME rt.pending
                   PROVE  /\ rt'.journal.image = slot[running]
                          /\ offeredBy \in PackageOrigin => rt'.origin \in PackageOrigin
        BY <2>1, <2>2 DEF TrialKnown
      <3>1. context # Damaged /\ journal \in Journal /\ journal.image = slot[running]
        BY <1>3 DEF Acceptable, Matches
      <3>2. journal # Damaged
        BY <3>1, OtaBlobs
      <3>3. context = nvs["otactx2"] /\ journal = nvs["ota"]
        BY <3>1, <3>2 DEF ReadOf
      <3>4. rt'.journal = journal
        BY <2>1, <3>1 DEF Begun, Decoded, OtaIInv, OtaTypeOK
      <3>5. rt'.origin = IF SameAttempt(context, journal) THEN context.origin ELSE "LegacyPush"
        BY <2>1 DEF Begun, OtaIInv, OtaTypeOK
      <3>6. ASSUME offeredBy \in PackageOrigin PROVE SameAttempt(context, journal)
        <4>1. st[selected] = "Pending"
          BY <2>3 DEF TrialInv, PendingInFlash
        <4> QED BY <3>1, <3>2, <3>3, <3>6, <4>1 DEF TrialInv, PackageIsKnown
      <3>7. SameAttempt(context, journal) => context.origin \in PackageOrigin
        BY DEF SameAttempt, Context
      <3> QED BY <3>1, <3>4, <3>5, <3>6, <3>7
    <2>7. SelectedLater' /\ PendingInFlash' /\ JournaledFirst' /\ FreshRam' /\ TrialMeasured'
          /\ PromisedStep
      BY <2>1, <2>2, <2>3, <2>4 DEF TrialInv, SelectedLater, PendingInFlash, JournaledFirst, FreshRam,
                                    TrialMeasured, PromisedStep
    <2> QED BY <2>5, <2>6, <2>7 DEF SoundTrial, TrialInv
  <1> QED BY <1>2, <1>3

\* Without misleading failures a trial is confirmed by a call that succeeds only.
LEMMA ConfirmEffect ==
    ASSUME OtaIInv, MayMislead = FALSE, NEW ok \in BOOLEAN, running \in Slot,
           Mark(running, "Valid", ok)
    PROVE  (ok => st'[running] = "Valid") /\ (~ok => st' = st)
  BY DEF Mark, TakesEffect, OtaIInv, OtaTypeOK

LEMMA ConfirmKeepsTrial ==
    ASSUME OtaIInv, TrialInv, MayMislead = FALSE,
           NEW token \in Token, NEW ok \in BOOLEAN, Confirm(token, ok)
    PROVE  SoundTrial
  <1>1. /\ nvs' = nvs /\ slot' = slot /\ selected' = selected /\ running' = running
        /\ offeredBy' = offeredBy /\ rotted' = rotted
        /\ at = "run" /\ at' = "run" /\ up' = up /\ rt.pending /\ rt.begun
        /\ bootAge' = bootAge /\ healthyFor' = healthyFor /\ streak' = streak
        /\ rt' = [rt EXCEPT !.pending = ~ok, !.state = IF ok THEN "VALID" ELSE rt.state]
        /\ bootAge < HealthMs
        /\ rt.origin # "LegacyPush" => rt.observing /\ healthyFor = LocalHealthMs
    BY DEF Confirm
  <1>2. selected = running /\ running \in Slot
    BY <1>1, TrialHome
  <1>3. (ok => st'[running] = "Valid") /\ (~ok => st' = st)
    BY <1>2, ConfirmEffect DEF Confirm
  <1>4. /\ rt'.pending = ~ok /\ rt'.begun = rt.begun /\ rt'.observing = rt.observing
        /\ rt'.origin = rt.origin /\ rt'.journal = rt.journal
    BY <1>1 DEF OtaIInv, OtaTypeOK
  <1>5. TrialIsJournaled' /\ PackageIsKnown'
    BY <1>1, <1>2, <1>3, FlashAfterTrial
  <1>6. SelectedLater' /\ PendingInFlash' /\ JournaledFirst' /\ FreshRam' /\ TrialKnown'
        /\ TrialMeasured'
    BY <1>1, <1>2, <1>3, <1>4 DEF TrialInv, SelectedLater, PendingInFlash, JournaledFirst, FreshRam,
                                  TrialKnown, TrialMeasured
  <1>7. PromisedStep
    <2>1. /\ rt.journal.image = slot[running]
          /\ offeredBy \in PackageOrigin => rt.origin \in PackageOrigin
      BY <1>1 DEF TrialInv, TrialKnown
    <2>2. offeredBy \in PackageOrigin => streak = LocalHealthMs
      BY <1>1, <2>1 DEF TrialInv, TrialMeasured, PackageOrigin
    <2> QED BY <1>1, <2>1, <2>2 DEF PromisedStep
  <1> QED BY <1>5, <1>6, <1>7 DEF SoundTrial, TrialInv

LEMMA PollKeepsTrial ==
    ASSUME OtaIInv, TrialInv, MayMislead = FALSE,
           NEW dt \in Delay, NEW healthy \in BOOLEAN, NEW ok \in BOOLEAN, Poll(dt, healthy, ok)
    PROVE  SoundTrial
  <1>1. at = "run" /\ rt.pending /\ Untouched /\ (healthy => rt.begun)
    BY DEF Poll, Untouched
  <1>2. CASE RollbackDone \/ RollbackFailed(rt)
    <2>1. rt \in RtType
      BY DEF OtaIInv, OtaTypeOK, RtType
    <2> QED BY <1>1, <1>2, <2>1, RollbackKeepsTrial
  <1>3. CASE /\ ~Overdue(dt)
             /\ bootAge' = Least(bootAge + dt, HealthMs)
             /\ streak' = IF ~healthy THEN -1
                          ELSE IF streak = -1 \/ dt >= PollMaxMs THEN 0
                          ELSE Least(streak + dt, LocalHealthMs)
             /\ Observe(dt, healthy, ok)
             /\ UNCHANGED <<at, up, bodyAllowed>>
    <2>1. /\ nvs' = nvs /\ slot' = slot /\ selected' = selected /\ running' = running
          /\ offeredBy' = offeredBy /\ rotted' = rotted /\ at' = "run" /\ up' = up
      BY <1>1, <1>3 DEF Untouched
    <2>2. selected = running /\ running \in Slot
      BY <1>1, TrialHome
    <2>3. bootAge' < HealthMs
      BY <1>3, OtaTiming DEF Overdue, Least, Delay, OtaIInv, OtaTypeOK
    <2>4. /\ healthyFor \in 0 .. LocalHealthMs /\ streak \in -1 .. LocalHealthMs
          /\ dt \in Nat \ {0} /\ LocalHealthMs \in Nat \ {0} /\ PollMaxMs \in Nat \ {0}
      BY OtaTiming DEF OtaIInv, OtaTypeOK, Delay
    <2>5. CASE rt.origin = "LegacyPush"
      <3>1. st' = st /\ rt' = rt
        BY <1>3, <2>5 DEF Observe
      <3>2. TrialInv'
        BY <1>1, <2>1, <2>5, <3>1
           DEF TrialInv, SelectedLater, PendingInFlash, JournaledFirst, TrialIsJournaled,
               PackageIsKnown, FreshRam, TrialKnown, TrialMeasured, SameAttempt
      <3>3. PromisedStep
        BY <1>1, <3>1, PendingIsNotValid DEF PromisedStep
      <3> QED BY <3>2, <3>3 DEF SoundTrial
    <2>6. CASE rt.origin # "LegacyPush"
      <3>1. /\ rt.observing <=> streak # -1
            /\ rt.observing => streak = healthyFor
        BY <1>1, <2>6 DEF TrialInv, TrialMeasured
      <3>2. /\ healthyFor' = IF healthy /\ rt.observing /\ dt < PollMaxMs
                             THEN Least(healthyFor + dt, LocalHealthMs) ELSE 0
            /\ IF healthyFor' = LocalHealthMs THEN Confirmed(ok)
               ELSE rt' = [rt EXCEPT !.observing = healthy] /\ UNCHANGED st
        BY <1>3, <2>6 DEF Observe, Observing
      <3>3. (healthy <=> streak' # -1) /\ (healthy => streak' = healthyFor')
        BY <1>3, <2>4, <3>1, <3>2 DEF Least
      <3>4. CASE healthyFor' = LocalHealthMs
        <4>1. healthy
          BY <2>4, <3>2, <3>4
        <4>2. Mark(running, "Valid", ok)
              /\ rt' = [rt EXCEPT !.observing = TRUE, !.pending = ~ok,
                                  !.state = IF ok THEN "VALID" ELSE rt.state]
          BY <3>2, <3>4 DEF Confirmed
        <4>3. (ok => st'[running] = "Valid") /\ (~ok => st' = st)
          BY <2>2, <4>2, ConfirmEffect
        <4>4. /\ rt'.pending = ~ok /\ rt'.begun = rt.begun /\ rt'.observing
              /\ rt'.origin = rt.origin /\ rt'.journal = rt.journal
          BY <4>2 DEF OtaIInv, OtaTypeOK
        <4>5. TrialIsJournaled' /\ PackageIsKnown'
          BY <2>1, <2>2, <4>3, FlashAfterTrial
        <4>6. SelectedLater' /\ PendingInFlash' /\ JournaledFirst' /\ FreshRam' /\ TrialKnown'
              /\ TrialMeasured'
          BY <1>1, <2>1, <2>2, <3>3, <4>1, <4>3, <4>4
             DEF TrialInv, SelectedLater, PendingInFlash, JournaledFirst, FreshRam,
                 TrialKnown, TrialMeasured
        <4>7. PromisedStep
          BY <1>1, <2>3, <3>3, <3>4, <4>1 DEF PromisedStep, TrialInv, TrialKnown
        <4> QED BY <4>5, <4>6, <4>7 DEF SoundTrial, TrialInv
      <3>5. CASE healthyFor' # LocalHealthMs
        <4>1. rt' = [rt EXCEPT !.observing = healthy] /\ st' = st
          BY <3>2, <3>5
        <4>2. /\ rt'.pending = rt.pending /\ rt'.begun = rt.begun /\ rt'.observing = healthy
              /\ rt'.origin = rt.origin /\ rt'.journal = rt.journal /\ rt'.state = rt.state
          BY <4>1 DEF OtaIInv, OtaTypeOK
        <4>3. TrialIsJournaled' /\ PackageIsKnown'
          BY <2>1, <2>2, <4>1, FlashAfterTrial
        <4>4. SelectedLater' /\ PendingInFlash' /\ JournaledFirst' /\ FreshRam' /\ TrialKnown'
              /\ TrialMeasured'
          BY <1>1, <2>1, <2>2, <3>3, <4>1, <4>2
             DEF TrialInv, SelectedLater, PendingInFlash, JournaledFirst, FreshRam,
                 TrialKnown, TrialMeasured
        <4>5. PromisedStep
          BY <1>1, <4>2, PendingIsNotValid DEF PromisedStep
        <4> QED BY <4>3, <4>4, <4>5 DEF SoundTrial, TrialInv
      <3> QED BY <3>4, <3>5
    <2> QED BY <2>5, <2>6
  <1> QED BY <1>2, <1>3 DEF Poll

-----------------------------------------------------------------------------
(* The theorems.                                                           *)

LEMMA TrialInit == OtaInit => TrialInv
  <1> SUFFICES ASSUME OtaInit PROVE TrialInv
    OBVIOUS
  <1>1. at = "off" /\ rt = NotStarted /\ streak = -1 /\ selected = 0 /\ st[0] = "Valid"
    BY DEF OtaInit, Slot
  <1> QED BY <1>1, NotStartedFacts
          DEF TrialInv, SelectedLater, PendingInFlash, JournaledFirst, TrialIsJournaled,
              PackageIsKnown, FreshRam, TrialKnown, TrialMeasured

LEMMA NextKeepsTrial ==
    ASSUME OtaIInv, TrialInv, MayMislead = FALSE, [OtaNext]_otaVars
    PROVE  SoundTrial
  <1>1. CASE UNCHANGED otaVars
    <2>1. /\ nvs' = nvs /\ slot' = slot /\ st' = st /\ selected' = selected /\ running' = running
          /\ at' = at /\ rt' = rt /\ healthyFor' = healthyFor /\ streak' = streak /\ up' = up
          /\ offeredBy' = offeredBy /\ rotted' = rotted
      BY <1>1 DEF otaVars, flash, ram, trialRam, ghosts
    <2>2. TrialInv'
      BY <2>1 DEF TrialInv, SelectedLater, PendingInFlash, JournaledFirst, TrialIsJournaled,
                  PackageIsKnown, FreshRam, TrialKnown, TrialMeasured, SameAttempt
    <2>3. PromisedStep
      BY <2>1, PendingIsNotValid DEF PromisedStep
    <2> QED BY <2>2, <2>3 DEF SoundTrial
  <1>2. CASE \/ HeaderGate \/ CloseClient \/ Refuse \/ FailTransfer \/ Start
             \/ \E image \in Image, token \in Token :
                   Pull(image, token) \/ \E origin \in Origin : Prepare(image, token, origin)
    BY <1>2, RequestsKeepTrial
  <1>3. CASE \E ok \in BOOLEAN : Authorize(ok) \/ BeginFlash(ok) \/ LastChunk
    BY <1>3, TransfersKeepTrial
  <1>4. CASE \E ok \in BOOLEAN : JournalImage(ok) \/ SelectBoot(ok)
    BY <1>4, JournalKeepsTrial, SelectKeepsTrial
  <1>5. CASE \E context \in ReadOf("otactx2"), journal \in ReadOf("ota") : Begin(context, journal)
    BY <1>5, BeginKeepsTrial
  <1>6. CASE \E dt \in Delay, healthy, ok \in BOOLEAN : Poll(dt, healthy, ok)
    BY <1>6, PollKeepsTrial
  <1>7. CASE \E token \in Token, ok \in BOOLEAN : Confirm(token, ok)
    BY <1>7, ConfirmKeepsTrial
  <1>8. CASE SkipBegin \/ HeartbeatFails \/ OtaPowerCut
    BY <1>8, SkipBeginKeepsTrial, HeartbeatKeepsTrial, PowerCutKeepsTrial
  <1>9. CASE \E k \in {"ota", "otactx2"} : OtaRot(k)
    BY <1>9, RotKeepsTrial DEF NvsKeys
  <1>10. CASE \E state \in {"USB_BASELINE", "BOOT_STATE_ERROR", "WATCHDOG_ERROR"} : Boot(state)
    BY <1>10, BootKeepsTrial
  <1>11. OtaNext =>
            \/ HeaderGate \/ CloseClient \/ Refuse \/ FailTransfer \/ Start
            \/ \E image \in Image, token \in Token :
                  Pull(image, token) \/ \E origin \in Origin : Prepare(image, token, origin)
            \/ \E ok \in BOOLEAN : Authorize(ok) \/ BeginFlash(ok) \/ LastChunk
            \/ \E ok \in BOOLEAN : JournalImage(ok) \/ SelectBoot(ok)
            \/ \E context \in ReadOf("otactx2"), journal \in ReadOf("ota") : Begin(context, journal)
            \/ \E dt \in Delay, healthy, ok \in BOOLEAN : Poll(dt, healthy, ok)
            \/ \E token \in Token, ok \in BOOLEAN : Confirm(token, ok)
            \/ SkipBegin \/ HeartbeatFails \/ OtaPowerCut
            \/ \E k \in {"ota", "otactx2"} : OtaRot(k)
            \/ \E state \in {"USB_BASELINE", "BOOT_STATE_ERROR", "WATCHDOG_ERROR"} : Boot(state)
    BY DEF OtaNext, Task
  <1> QED BY <1>1, <1>2, <1>3, <1>4, <1>5, <1>6, <1>7, <1>8, <1>9, <1>10, <1>11

\* Everything the proofs know of a trial.
THEOREM TrialInductive ==
    ASSUME MayMislead = FALSE
    PROVE  OtaSpec => [](OtaIInv /\ TrialInv)
  <1>1. OtaInit => TrialInv
    BY TrialInit
  <1>2. OtaIInv /\ TrialInv /\ [OtaNext]_otaVars => TrialInv'
    BY NextKeepsTrial DEF SoundTrial
  <1> QED BY <1>1, <1>2, OtaInductive, PTL DEF OtaSpec

\* An image that can boot on trial is the one in the journal
\* (EspWriter::select journals before it selects, and nothing is journaled over
\* an image that is selected).
THEOREM TrialJournaled ==
    ASSUME MayMislead = FALSE
    PROVE  OtaSpec => []TrialIsJournaled
  <1>1. TrialInv => TrialIsJournaled
    BY DEF TrialInv
  <1> QED BY <1>1, TrialInductive, PTL

\* An image is confirmed in time, under its own journal, and a package only
\* after an unbroken observation (Runtime::poll and confirm).
THEOREM ConfirmedAsTheyPromise ==
    ASSUME MayMislead = FALSE
    PROVE  OtaSpec => ConfirmedAsPromised
  <1>1. OtaIInv /\ TrialInv /\ [OtaNext]_otaVars =>
            [rt.pending /\ rt'.state = "VALID" =>
                /\ bootAge' < HealthMs
                /\ rt.journal.image = slot[running]
                /\ offeredBy \in PackageOrigin => streak' = LocalHealthMs]_otaVars
    BY NextKeepsTrial DEF SoundTrial, PromisedStep
  <1> QED BY <1>1, TrialInductive, PTL DEF OtaSpec, ConfirmedAsPromised
=============================================================================
