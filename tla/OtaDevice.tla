----------------------------- MODULE OtaDevice -----------------------------
(***************************************************************************)
(* Over-the-air update of the device: Updater (ota_core.cpp), EspWriter    *)
(* and Runtime (ota_runtime.h, ota_context.h), and the two application     *)
(* slots of the bootloader, as this code uses them.                        *)
(*                                                                         *)
(* An image is announced by a signed manifest, streamed to the slot that   *)
(* does not run, journaled and selected.  It then boots on trial and has   *)
(* HealthMs to be confirmed, or the bootloader goes back to the image that *)
(* installed it.  Storage and flash operations are steps of their own,     *)
(* between which power may be cut, and any of them may fail.               *)
(***************************************************************************)
EXTENDS Storage, Integers

CONSTANTS
    Image,          \* what a slot can run; a manifest names one
    Factory,        \* the image installed over USB
    Version,        \* image -> version number
    Token,          \* transaction tokens randomHex can draw
    Partial,        \* a slot that does not verify
    HealthMs,       \* kHealthMs: the deadline of a trial
    LocalHealthMs,  \* kLocalHealthMs: how long a package must be healthy
    PollMaxMs,      \* kHealthPollMaxMs: the gap that interrupts an observation
    MaxDelay,       \* the longest turn of the loop
    MayRot,         \* whether a blob may be found damaged at a boot
    MayMislead      \* whether a boot-data call that fails may have been done

ASSUME OtaImages ==
    /\ Factory \in Image
    /\ Version \in [Image -> Nat \ {0}]
    /\ Partial \notin Image /\ Missing \notin Image /\ Damaged # Missing
ASSUME OtaTiming ==
    /\ {HealthMs, LocalHealthMs, PollMaxMs, MaxDelay} \subseteq Nat \ {0}
    /\ {MayRot, MayMislead} \subseteq BOOLEAN

PackageOrigin == {"WebFile", "GithubPull"}
Origin == PackageOrigin \cup {"LegacyPush"}
Slot == {0, 1}

\* NVS "ota": what was journaled before it was selected; NVS "otactx2": the
\* package that was authorized last, and by whom.
Journal == [image : Image, token : Token]
Context == [image : Image, token : Token, origin : PackageOrigin]

ASSUME OtaBlobs == {Missing, Damaged} \cap (Journal \cup Context) = {}

VARIABLES
    slot,           \* what each slot contains
    st,             \* its state in the boot data (esp_ota_img_states_t)
    selected,       \* the slot the boot data select
    running,        \* esp_ota_get_running_partition
    at,             \* the operation the main task is about to perform
    rt,             \* the Runtime object
    bootAge,        \* time since started_, up to HealthMs
    healthyFor,     \* time since healthyAt_, up to LocalHealthMs
    up,             \* the Updater object
    bodyAllowed,    \* a prepare request passed headerGate
    reported,       \* the image reported VALID last
    streak,         \* for how long every poll was healthy; -1: the last was not
    offeredBy,      \* who sent the image that was selected last
    tried,          \* the highest version of a package that touched a slot
    rotted          \* some blob was damaged since manufacture

flash == <<slot, st, selected, running>>
trialRam == <<rt, bootAge, healthyFor, streak>>
ram == <<trialRam, up, bodyAllowed>>
ghosts == <<reported, offeredBy, tried, rotted>>
otaVars == <<nvs, flash, at, ram, ghosts>>

Least(a, b) == IF a < b THEN a ELSE b

-----------------------------------------------------------------------------
(* Power and the bootloader.                                               *)

NotStarted == [pending |-> FALSE, fatal |-> FALSE, contextError |-> FALSE, begun |-> FALSE,
               observing |-> FALSE, state |-> "NOT_STARTED", journal |-> Missing,
               origin |-> "LegacyPush"]

\* fail() and resetForBoot() wipe the token; what they leave of a manifest is
\* never read again.
NoTransfer(phase) == [phase |-> phase, image |-> Missing, token |-> Missing, origin |-> "LegacyPush"]
FailedTransfer == NoTransfer("Failed")

RamLost ==
    /\ rt' = NotStarted /\ bootAge' = 0 /\ healthyFor' = 0
    /\ up' = NoTransfer("Idle") /\ bodyAllowed' = FALSE /\ streak' = -1

OtaInit ==
    /\ nvs = [k \in {"ota", "otactx2"} |-> Missing]
    /\ slot = [s \in Slot |-> IF s = 0 THEN Factory ELSE Partial]
    /\ st = [s \in Slot |-> IF s = 0 THEN "Valid" ELSE "Bad"]
    /\ selected = 0 /\ running = 0 /\ at = "off"
    /\ rt = NotStarted /\ bootAge = 0 /\ healthyFor = 0
    /\ up = NoTransfer("Idle") /\ bodyAllowed = FALSE /\ streak = -1
    /\ reported = Missing /\ offeredBy = "LegacyPush" /\ tried = 0 /\ rotted = FALSE

\* Power is cut, a watchdog bites, the image crashes or ESP.restart is called.
OtaPowerCut ==
    /\ at # "off"
    /\ at' = "off"
    /\ RamLost
    /\ UNCHANGED <<nvs, flash, ghosts>>

OtaRot(k) ==
    /\ MayRot
    /\ at = "off" /\ nvs[k] # Missing
    /\ nvs' = Put(k, Damaged)
    /\ rotted' = TRUE
    /\ UNCHANGED <<flash, at, ram, reported, offeredBy, tried>>

\* The bootloader runs a new image once, on trial, and an image on trial not a
\* second time; what it cannot run gives way to the other slot.
Unbootable == st[selected] \in {"Pending", "Bad"} \/ slot[selected] = Partial
BootSlot == IF Unbootable THEN 1 - selected ELSE selected

BootState(s) ==
    IF s = BootSlot THEN IF st[s] = "New" THEN "Pending" ELSE st[s]
    ELSE IF Unbootable THEN "Bad" ELSE st[s]

\* Boot, and setup()'s arm(): reading the image state or starting the watchdog
\* may fail.
Armed(state, trial) ==
    [NotStarted EXCEPT !.pending = trial /\ state # "BOOT_STATE_ERROR",
                       !.fatal = state # "USB_BASELINE", !.state = state]

Boot(state) ==
    /\ at = "off"
    /\ slot[BootSlot] # Partial
    /\ at' = "armed"
    /\ running' = BootSlot /\ selected' = BootSlot
    /\ st' = [s \in Slot |-> BootState(s)]
    /\ rt' = Armed(state, st'[BootSlot] = "Pending")
    /\ UNCHANGED <<nvs, slot, bootAge, healthyFor, up, bodyAllowed, streak, ghosts>>

\* A call that changes the boot data; one that fails may have been done.
TakesEffect(ok) == IF ok THEN {TRUE} ELSE {FALSE, MayMislead}

Mark(s, new, ok) ==
    \E done \in TakesEffect(ok) : st' = IF done THEN [st EXCEPT ![s] = new] ELSE st

\* rollback(): on success the device restarts and does not return.
RolledBack(state) == [state EXCEPT !.pending = FALSE, !.fatal = TRUE,
                                   !.state = "ROLLBACK_FAILED_USB_REQUIRED"]

RollbackDone ==
    /\ slot[1 - running] # Partial
    /\ Mark(running, "Bad", TRUE)
    /\ at' = "off"
    /\ RamLost

RollbackFailed(state) ==
    /\ Mark(running, "Bad", FALSE)
    /\ at' = "run"
    /\ rt' = RolledBack(state)
    /\ UNCHANGED <<up, bodyAllowed, healthyFor, streak>>

-----------------------------------------------------------------------------
(* Runtime: begin, poll, confirm, heartbeat.                               *)

Matches(journal) == journal \in Journal /\ journal.image = slot[running]

SameAttempt(context, journal) ==
    /\ context \in Context /\ journal \in Journal
    /\ context.image = journal.image /\ context.token = journal.token

BegunEarly(context, journal) ==                             \* mutant
    IF Matches(journal) THEN "VALID" ELSE rt.state
BegunState(context, journal) ==
    IF rt.pending THEN "PENDING_VERIFY"
    ELSE IF context = Damaged THEN "OTA_CONTEXT_ERROR"
    ELSE IF journal = Damaged THEN "OTA_JOURNAL_ERROR"
    ELSE IF journal = Missing THEN rt.state
    ELSE IF Matches(journal) THEN "VALID" ELSE "ROLLED_BACK_OR_INTERRUPTED"

RawJournal(journal) == journal                              \* mutant
Decoded(journal) == IF journal \in Journal THEN journal ELSE Missing

Begun(context, journal) ==
    [rt EXCEPT !.begun = TRUE,
               !.contextError = context = Damaged,
               !.fatal = journal = Damaged,
               !.journal = Decoded(journal),
               !.origin = IF SameAttempt(context, journal) THEN context.origin ELSE "LegacyPush",
               !.state = BegunState(context, journal)]

\* What a read of a key finds: its blob, or an error that reads like damage.
ReadOf(k) == {nvs[k], Damaged}

Acceptable(context, journal) == context # Damaged /\ Matches(journal)

Report == reported' = IF rt'.state = "VALID" THEN slot[running] ELSE reported

Begin(context, journal) ==
    /\ at = "armed"
    /\ ~rt.fatal
    /\ \/ /\ rt.pending => Acceptable(context, journal)
          /\ rt' = Begun(context, journal)
          /\ at' = "run"
          /\ UNCHANGED <<st, bootAge, healthyFor, up, bodyAllowed, streak>>
       \/ /\ rt.pending /\ ~Acceptable(context, journal)
          /\ \/ RollbackDone
             \/ RollbackFailed(Begun(context, journal)) /\ UNCHANGED bootAge
    /\ Report
    /\ UNCHANGED <<nvs, slot, selected, running, offeredBy, tried, rotted>>

\* begin() of a boot that arm() found faulty, or fault() before begin() is
\* reached: the loop runs, but no request can succeed.
SkipBegin ==
    /\ at = "armed"
    /\ at' = "run"
    /\ UNCHANGED <<nvs, flash, ram, ghosts>>

KeepObserving(dt, healthy) == rt.observing                  \* mutant
Observing(dt, healthy) == rt.observing /\ healthy /\ dt < PollMaxMs

\* confirm() of a trial, by poll() or by a controller; the call may fail.
Confirmed(ok) ==
    /\ Mark(running, "Valid", ok)
    /\ rt' = [rt EXCEPT !.observing = TRUE, !.pending = ~ok,
                        !.state = IF ok THEN "VALID" ELSE rt.state]

Observe(dt, healthy, ok) ==
    IF rt.origin = "LegacyPush"
    THEN UNCHANGED <<st, rt, healthyFor>>
    ELSE /\ healthyFor' = IF healthy /\ Observing(dt, healthy)
                          THEN Least(healthyFor + dt, LocalHealthMs) ELSE 0
         /\ IF healthyFor' = LocalHealthMs THEN Confirmed(ok)
            ELSE rt' = [rt EXCEPT !.observing = healthy] /\ UNCHANGED st

TolerateFault(dt) == ~rt.fatal /\ bootAge + dt >= HealthMs   \* mutant
Overdue(dt) == rt.fatal \/ bootAge + dt >= HealthMs

\* poll() of an image on trial; a device that never began is never healthy.
Poll(dt, healthy, ok) ==
    /\ at = "run" /\ rt.pending
    /\ healthy => rt.begun
    /\ \/ /\ Overdue(dt)
          /\ \/ RollbackDone
             \/ RollbackFailed(rt) /\ bootAge' = HealthMs
       \/ /\ ~Overdue(dt)
          /\ bootAge' = Least(bootAge + dt, HealthMs)
          /\ streak' = IF ~healthy THEN -1
                       ELSE IF streak = -1 \/ dt >= PollMaxMs THEN 0
                       ELSE Least(streak + dt, LocalHealthMs)
          /\ Observe(dt, healthy, ok)
          /\ UNCHANGED <<at, up, bodyAllowed>>
    /\ Report
    /\ UNCHANGED <<nvs, slot, selected, running, offeredBy, tried, rotted>>

\* POST /api/v1/ota/confirm to a healthy device, in the turn of the last poll,
\* by a controller that knows the token.  What is VALID already is acknowledged
\* again and does not change.
Confirm(token, ok) ==
    /\ at = "run" /\ rt.begun
    /\ ~rt.fatal
    /\ Matches(rt.journal) /\ token = rt.journal.token
    /\ rt.pending
    /\ bootAge < HealthMs
    /\ rt.origin # "LegacyPush" => rt.observing /\ healthyFor = LocalHealthMs
    /\ Mark(running, "Valid", ok)
    /\ rt' = [rt EXCEPT !.pending = ~ok, !.state = IF ok THEN "VALID" ELSE rt.state]
    /\ Report
    /\ UNCHANGED <<nvs, slot, selected, running, at, bootAge, healthyFor, up, bodyAllowed,
                   streak, offeredBy, tried, rotted>>

HeartbeatFails ==
    /\ at = "run"
    /\ rt' = [rt EXCEPT !.fatal = TRUE, !.state = "WATCHDOG_ERROR"]
    /\ UNCHANGED <<nvs, flash, at, bootAge, healthyFor, up, bodyAllowed, streak, ghosts>>

-----------------------------------------------------------------------------
(* Updater: prepare, start, chunk, tick, interrupt.                        *)

CanUpdateOnTrial == ~rt.fatal /\ ~rt.contextError           \* mutant
CanUpdate == ~rt.pending /\ ~rt.fatal /\ ~rt.contextError

\* headerGate lets the body of a prepare request through; it is processed
\* turns later, when a watchdog failure may have revoked canUpdate().
HeaderGate ==
    /\ at = "run" /\ rt.begun
    /\ CanUpdate
    /\ ~bodyAllowed /\ up.phase \notin {"Receiving", "RebootPending"}
    /\ bodyAllowed' = TRUE
    /\ UNCHANGED <<nvs, flash, at, trialRam, up, ghosts>>

CloseClient ==
    /\ at = "run"
    /\ bodyAllowed
    /\ bodyAllowed' = FALSE
    /\ UNCHANGED <<nvs, flash, at, trialRam, up, ghosts>>

\* EspWriter::available: a package that was authorized fences its version.
Available(image, context) ==
    \/ context = Missing
    \/ context \in Context /\ Version[image] > Version[context.image]

AnyVersion(image) == TRUE                                   \* mutant
Newer(image) == Version[image] > Version[slot[running]]

Idle == up.phase \in {"Idle", "Failed"}

\* A well-formed, signed manifest that is accepted; the token is fresh.
Accepts(image, token, context) ==
    /\ Idle
    /\ Newer(image)
    /\ Available(image, context)
    /\ \A k \in {"ota", "otactx2"} : nvs[k] \in Journal \cup Context => nvs[k].token # token

Transfer(phase, image, token, origin) ==
    [phase |-> phase, image |-> image, token |-> token, origin |-> origin]

Prepare(image, token, origin) ==
    /\ at = "run" /\ bodyAllowed
    /\ origin # "GithubPull"
    /\ Accepts(image, token, nvs["otactx2"])
    /\ up' = Transfer("Prepared", image, token, origin)
    /\ bodyAllowed' = FALSE
    /\ UNCHANGED <<nvs, flash, at, trialRam, ghosts>>

\* A manifest that is refused: malformed, not signed, not newer, fenced.
Refuse ==
    /\ at = "run" /\ bodyAllowed
    /\ bodyAllowed' = FALSE
    /\ up' = IF Idle THEN FailedTransfer ELSE up
    /\ UNCHANGED <<nvs, flash, at, trialRam, ghosts>>

\* start: the token is consumed before the first side effect.
Start ==
    /\ at = "run" /\ rt.begun /\ ~bodyAllowed
    /\ CanUpdate
    /\ up.phase = "Prepared"
    /\ up' = [up EXCEPT !.phase = "Receiving"]
    /\ at' = IF up.origin = "LegacyPush" THEN "erase" ELSE "context"
    /\ UNCHANGED <<nvs, flash, trialRam, bodyAllowed, ghosts>>

\* The pull prepares and starts in one poll.
Pull(image, token) ==
    /\ at = "run" /\ rt.begun
    /\ CanUpdate
    /\ Accepts(image, token, nvs["otactx2"])
    /\ up' = Transfer("Receiving", image, token, "GithubPull")
    /\ at' = "context"
    /\ UNCHANGED <<nvs, flash, trialRam, bodyAllowed, ghosts>>

\* The transfer expires, idles too long, is interrupted, does not fit, cannot
\* be written or does not have the announced hash.
FailTransfer ==
    /\ at = "run"
    /\ up.phase \in {"Prepared", "Receiving"}
    /\ up' = FailedTransfer
    /\ UNCHANGED <<nvs, flash, at, trialRam, bodyAllowed, ghosts>>

\* The next operation of a transfer, or its failure.
Proceed(ok, next) ==
    /\ at' = IF ok THEN next ELSE "run"
    /\ up' = IF ok THEN up ELSE FailedTransfer

\* EspWriter::authorize: the context is durable before the first erase.
SkipContext(ok) == nvs' = nvs                               \* mutant
WriteContext(ok) ==
    CheckedWrite("otactx2", [image |-> up.image, token |-> up.token, origin |-> up.origin], ok)

Authorize(ok) ==
    /\ at = "context"
    /\ IF Available(up.image, nvs["otactx2"])
       THEN WriteContext(ok) /\ Proceed(ok, "erase")
       ELSE nvs' = nvs /\ Proceed(FALSE, "run")
    /\ UNCHANGED <<flash, trialRam, bodyAllowed, ghosts>>

\* EspWriter::begin: esp_ota_begin erases the slot that does not run.
BeginFlash(ok) ==
    /\ at = "erase"
    /\ LET erased == [slot EXCEPT ![1 - running] = Partial]
       IN  slot' \in IF ok THEN {erased} ELSE {slot, erased}
    /\ Proceed(ok, "run")
    /\ tried' = IF up.origin \in PackageOrigin THEN Version[up.image] ELSE tried
    /\ UNCHANGED <<nvs, st, selected, running, trialRam, bodyAllowed, reported, offeredBy, rotted>>

\* The last chunk: the image is complete and has the announced hash.  The pull
\* passes no chunk on to a device that may not be updated.
LastChunk ==
    /\ at = "run" /\ up.phase = "Receiving"
    /\ up.origin = "GithubPull" => CanUpdate
    /\ slot' = [slot EXCEPT ![1 - running] = up.image]
    /\ at' = "journal"
    /\ UNCHANGED <<nvs, st, selected, running, ram, ghosts>>

\* EspWriter::select: the journal, then the boot data.
SelectFirst(ok) == nvs' = nvs                               \* mutant
WriteJournal(ok) == CheckedWrite("ota", [image |-> up.image, token |-> up.token], ok)

JournalImage(ok) ==
    /\ at = "journal"
    /\ IF up.origin = "LegacyPush"
          \/ SameAttempt(nvs["otactx2"], [image |-> up.image, token |-> up.token])
       THEN WriteJournal(ok) /\ Proceed(ok, "select")
       ELSE nvs' = nvs /\ Proceed(FALSE, "run")
    /\ UNCHANGED <<flash, trialRam, bodyAllowed, ghosts>>

SelectBoot(ok) ==
    /\ at = "select"
    /\ \E done \in TakesEffect(ok) :
          /\ st' = IF done THEN [st EXCEPT ![1 - running] = "New"] ELSE st
          /\ selected' = IF done THEN 1 - running ELSE selected
          /\ offeredBy' = IF done THEN up.origin ELSE offeredBy
    /\ at' = "run"
    /\ up' = IF ok THEN NoTransfer("RebootPending") ELSE FailedTransfer
    /\ UNCHANGED <<nvs, slot, running, trialRam, bodyAllowed, reported, tried, rotted>>

-----------------------------------------------------------------------------
Delay == 1 .. MaxDelay

Task ==
    \/ \E context \in ReadOf("otactx2"), journal \in ReadOf("ota") : Begin(context, journal)
    \/ SkipBegin
    \/ \E dt \in Delay, healthy, ok \in BOOLEAN : Poll(dt, healthy, ok)
    \/ Start
    \/ FailTransfer
    \/ LastChunk
    \/ \E ok \in BOOLEAN :
          Authorize(ok) \/ BeginFlash(ok) \/ JournalImage(ok) \/ SelectBoot(ok)

OtaNext ==
    \/ Task
    \/ OtaPowerCut
    \/ \E k \in {"ota", "otactx2"} : OtaRot(k)
    \/ \E state \in {"USB_BASELINE", "BOOT_STATE_ERROR", "WATCHDOG_ERROR"} : Boot(state)
    \/ \E token \in Token, ok \in BOOLEAN : Confirm(token, ok)
    \/ HeartbeatFails
    \/ HeaderGate
    \/ CloseClient
    \/ Refuse
    \/ \E image \in Image, token \in Token :
          Pull(image, token) \/ \E origin \in Origin : Prepare(image, token, origin)

\* A powered device keeps looping.
OtaSpec == OtaInit /\ [][OtaNext]_otaVars /\ WF_otaVars(Task)

-----------------------------------------------------------------------------
(* Properties.                                                             *)

RuntimeStates ==
    {"NOT_STARTED", "USB_BASELINE", "BOOT_STATE_ERROR", "WATCHDOG_ERROR", "OTA_JOURNAL_ERROR",
     "OTA_CONTEXT_ERROR", "VALID", "ROLLED_BACK_OR_INTERRUPTED", "PENDING_VERIFY",
     "ROLLBACK_FAILED_USB_REQUIRED"}

OtaTypeOK ==
    /\ nvs \in [{"ota", "otactx2"} -> Journal \cup Context \cup {Missing, Damaged}]
    /\ nvs["ota"] \notin Context /\ nvs["otactx2"] \notin Journal
    /\ slot \in [Slot -> Image \cup {Partial}]
    /\ st \in [Slot -> {"New", "Pending", "Valid", "Bad"}]
    /\ selected \in Slot /\ running \in Slot
    /\ at \in {"off", "armed", "run", "context", "erase", "journal", "select"}
    /\ rt \in [pending : BOOLEAN, fatal : BOOLEAN, contextError : BOOLEAN, begun : BOOLEAN,
               observing : BOOLEAN, state : RuntimeStates, journal : Journal \cup {Missing},
               origin : Origin]
    /\ bootAge \in 0 .. HealthMs /\ healthyFor \in 0 .. LocalHealthMs
    /\ up \in [phase : {"Idle", "Prepared", "Receiving", "RebootPending", "Failed"},
               image : Image \cup {Missing}, token : Token \cup {Missing}, origin : Origin]
    /\ bodyAllowed \in BOOLEAN
    /\ reported \in Image \cup {Missing} /\ offeredBy \in Origin /\ streak \in -1 .. LocalHealthMs
    /\ tried \in Nat /\ rotted \in BOOLEAN

\* The image the device would return to if what it tries now came to nothing:
\* an image the boot data call valid while its runtime still waits for the
\* answer is on trial for the runtime, which may yet roll it back.
Undecided == at # "off" /\ rt.pending /\ running = selected
Home == IF st[selected] = "Valid" /\ ~Undecided THEN selected ELSE 1 - selected

\* Wherever power is cut and whichever call fails, a complete image that was
\* once confirmed is left to boot: neither a transfer nor a rollback ever
\* touches the slot the device would have to return to.
FallbackIsKept == slot[Home] \in Image /\ st[Home] = "Valid"

\* What the device has reported as VALID, to a controller or on its page, is
\* final: no later power cut, failed update or rollback brings back an older
\* version.
ReportedIsKept ==
    reported # Missing => Version[slot[Home]] >= Version[reported]

\* An image that can boot on trial is the one in the journal, so that its first
\* boot recognizes itself: no attempt that fails later overwrites the journal of
\* an image that is selected already.  (A boot selection that reports failure
\* and takes effect does away with this, and with the last part of the next
\* property; begin() then rejects the image.)
TrialIsJournaled ==
    ~rotted =>
        (st[selected] \in {"New", "Pending"} =>
            nvs["ota"] \in Journal /\ nvs["ota"].image = slot[selected])

\* An image is confirmed within its deadline and under its own journal, and a
\* package only after every poll of LocalHealthMs was healthy: a controller's
\* acknowledgement does not shorten that, and a stalled loop does not count.
ConfirmedAsPromised ==
    [][ rt.pending /\ rt'.state = "VALID" =>
          /\ bootAge' < HealthMs
          /\ rt.journal.image = slot[running]
          /\ offeredBy \in PackageOrigin => streak' = LocalHealthMs ]_otaVars

\* Even a failed begin or a power cut cannot make the device install a version
\* again and again: the versions of the packages that reach the flash strictly
\* increase, across reboots, rollbacks and damaged blobs.
PackagesAreTriedOnce ==
    [][ tried' # tried \/ (at = "erase" /\ slot' # slot /\ up.origin \in PackageOrigin) =>
            tried' > tried ]_otaVars

\* A device that stays powered decides upon the image it knows to be on trial.
TrialEnds == rt.pending ~> ~rt.pending

\* "Rejection or timeout requests bootloader rollback": a trial that boots and is
\* neither confirmed nor cut short by a reset is told to go.
TrialIsRejected ==
    (at = "armed" /\ st[running] = "Pending") ~>
        (at = "off" \/ st[running] # "Pending" \/ rt.state = "ROLLBACK_FAILED_USB_REQUIRED")

NoImage == Missing
OnTrial == Undecided \/ st[selected] \in {"New", "Pending"}

Update == INSTANCE AbUpdate
    WITH None <- NoImage,
         good <- slot[Home],
         trial <- IF OnTrial /\ slot[selected] # Partial THEN slot[selected] ELSE Missing

\* Every transfer, power cut, failure, confirmation and rollback is a step of an
\* A/B update, or changes nothing.
ImplementsUpdate == Update!Spec
=============================================================================
