# Verification of the RS-485 bridge firmware

TLA+ models of the control logic of the DM-D5102Q RS-485 bridge (an M5Stack
Atom Lite, `firmware/usb_bootstrap`), TLC configurations that check them on
small instances, and TLAPS proofs of the theorems that hold for every value of
the constants.  `PROJECT.json` maps every definition to the lines it models and
lists the runs, the mutants, the findings, the hazards and the theorems.

## 1. The system

The device is provisioned once over its own access point, joins the owner's
Wi-Fi, and from then on is updated over the network.  The RS-485 bus itself is
not driven by this firmware yet.  The program has one cooperative main loop, one
worker task on the other core, and a Mac-side tool chain.

| Part | State it keeps | Operations | Hard behaviour | Correct when |
|---|---|---|---|---|
| Configuration store (`core.cpp` ConfigStore) | NVS keys `cfgA cfgB active trial reset`; in RAM state, config, revision, next slot, selected reference | load, stage, promote, discardTrial, resetWifi, resumeReset | power cuts between storage operations, operations that fail after they took effect, a reset that is interrupted, an exhausted revision counter | storage always loads, RAM never contradicts flash, an adopted setting survives everything but a reset, a reset completes |
| Boot and enrollment (`main.cpp` startApplication, enrollment; BootResetGate) | NVS `enroll`, the button gate | reset gate, load, create or reuse the installation key | a key that is durable but was never handed off | a configured device has a key, keys are never replaced |
| Automatic-update policy (`automatic_policy.h`) | NVS `ghauto`, enabled, healthy | load, save | a failed save has an unknown outcome | a healthy policy is the durable one |
| Network state (`core.cpp` NetworkState) | mode, deadlines, retry delay | begin, tick, saved, promoted, fault | deadlines against a flapping link, a 32-bit clock that wraps | a setting is adopted only after a stable link, every trial ends, an offline station retries |
| HTTP service (`main.cpp` headerGate, processBody, serviceHttp) | one client, one request, one response, pendingReboot | one bounded step per turn of the loop | checks made when the headers arrive and used when the body is complete; a client that does not read | mode, store and flash agree; the reboot waits for the response but not for ever |
| Digest login (`core.cpp` DigestAuth) | nonce, replay table of eight client nonces | begin, verify, expired | full table, expiry | a request counts once |
| OTA updater, flash writer, runtime (`ota_core.cpp`, `ota_runtime.h`, `ota_context.h`) | transfer phase, one-use token, NVS `ota` journal and `otactx2` context, boot state, health window; bootloader slots | prepare, start, chunk, tick, interrupt; arm, begin, poll, confirm | power cuts between journal, context and boot selection; deadline against confirmation | an image runs on only after it was confirmed; a failed version is not installed again |
| GitHub pull and worker (`github_pull.h`, `github_worker.h`, `github_core.cpp`) | job, ETag, three queues, cancel flag, backoff | request, poll; exchange, check, download | two cores, lost and late acknowledgements, full queues, an HTTP client on the same updater | the pull never stays busy, reports what the flash says, and hides no release behind an ETag |
| Deployment controller (`scripts/ota_controller.py`) | per device a lock and a durable state file; release directories and the channel link | deploy, watch, reconcile; package, load | a process killed anywhere, lost answers, requests that arrive after their sender is gone, restarts and rollbacks of the device | nothing is sent twice or unrecorded, a recorded success was confirmed |
| Remote package tool (`scripts/dmota_remote.py`, `dmota_package.py`) | per device a fence file; a package file | deploy, reconcile; package, verify | no lock; a reconcile beside a deployment | the fence blocks every other deployment while an outcome is unknown |
| USB flashing tools (`upload_usb_bootstrap.py` and its two upgrades) | backups, the session's report | one session: checks, backup, write, verify, boot log | a cable pulled or a board exchanged in the middle, files that change after their check | only the known board is written, and only over a backup |
| Validators (memory budget, project loop, milestones, evidence packets and captures) | none of their own; they judge documents that live for months | one pass over the document | long documents with references in all directions, edited between passes | what passes is what the design asks for |
| Packaging of upgrade bundles, web page, source checks, Monocypher | none that outlives a call | | | not modelled (section 6) |

Interaction: `setup` and `loop` call the boot gate, the OTA runtime, the pull,
the network state (whose action `applyAction` carries out on the store and the
radio) and one HTTP step, in this order, in every turn.  The worker shares
nothing with the loop but its queues and the cancel flag.  The store, the
policy, the enrollment and the OTA journal share one NVS namespace.  The pull
and the HTTP service share one updater.  The two deployment tools share nothing
but the device; several processes of one tool share its lock and state file, or
its fence.  The validators and the USB tools run one at a time, by hand.

## 2. Modules

| Module | Models |
|---|---|
| `Storage` | NVS as the firmware sees it: a map from keys to blobs; a write or erase is atomic, and one that reports failure may have happened |
| `ConfigStore` | the store, the boot sequence, enrollment and the policy; one action per storage operation |
| `ConfigLifecycle` | the abstract specification of the store: a setting that is absent, on trial or adopted, and a revision counter |
| `ConfigStoreProofs` | the inductive invariant of `ConfigStore` and the theorems |
| `NetworkState` | the methods of NetworkState as operators over a record |
| `Onboarding` | the main loop around the store and the network state, with time and HTTP |
| `OnboardingProofs` | the inductive invariant of `Onboarding`, on top of that of `ConfigStore`, and the theorems |
| `OtaDevice` | the updater, the flash writer and the runtime, with the two slots of the bootloader |
| `AbUpdate` | the abstract specification of an update: a good image, and a newer one on trial |
| `OtaDeviceProofs`, `OtaTrialProofs` | the inductive invariants of `OtaDevice`, its refinement, and the theorems |
| `PullWorker` | the pull in the loop, the worker on the other core, their queues, and the HTTP service on the same updater |
| `PullWorkerProofs` | the inductive invariant of `PullWorker` and the theorems |
| `BridgeDevice` | the device as the tools see it over HTTP, and the requests that are under way |
| `Controller`, `RemoteTool` | the two deployment tools, a process stepping through its program |
| `OneShot` | the abstract specification of both: record, send once, settle |
| `MacTools` | the composition of the device and any number of processes of either tool |
| `MacToolsProofs` | the inductive invariants of `MacTools`, the refinement of `OneShot` by both tools, and the theorems |
| `FlashLayout`, `ProjectLoop`, `MilestoneGates`, `EvidencePacket`, `CaptureStream` | the validators |
| `UsbSession` | the USB flashing tools |
| `Packaging` | release directories, single-file packages, and who loads them |
| `ValidatorProofs`, `HostToolProofs` | the inductive invariants of the five validators, of `UsbSession` and of `Packaging`, and the theorems |
| `MCConfigStore`, `MCOnboarding`, `MCOtaDevice`, `MCMacTools` | the instances for TLC |
| `MCParts` | the instance of the eight modules that share no state with any other (`PullWorker`, the validators, `UsbSession`, `Packaging`): its first step chooses one of them, and only that one moves afterwards |

### ConfigStore

`at` is the storage operation the main task performs next; between any two
values of `at` power may be cut (`PowerCut`), which forgets everything but
`nvs`.  `stage` and `promote` are two steps each (`StageRecord`,
`StageReference`; `PromoteWrite`, `PromoteErase`), `resumeReset` is one step per
erased key.  Every operation has an argument `ok`; with `ok = FALSE` the blob may
or may not have changed, which is what a failed `nvs_commit` or a failed
read-back leaves behind.  `Fail` is `fault()`: the device stays off the network
until it is powered again.  `Rot` damages a stored blob while the device is off;
`MayRot` switches it.

Data is abstracted to what the code compares: a record is its revision and its
credentials (the CRC and the encoding are an identity of the record), a
reference is its slot and the record its CRC names, the marker and the policy
records are model values.  Callers of stage, promote and discardTrial are
unconstrained, so that the store is checked as a class; `MisusedTrial` is the
error path of a call in the wrong state.

### Onboarding

A turn of `loop()` is a tick (time advances by 1 to `MaxDelay`, the link is
sampled, `NetworkState::tick` decides) and one HTTP step.  `net` is the
NetworkState object; `turn` says which half is next.  Link samples, client
behaviour and delays are nondeterministic.  `upFor` is a history variable: for
how long every sample of the current trial has found the link up.  `Restart` is
a power cut or the program's own restart.  The promotion and the withdrawal call
the actions of `ConfigStore`, so that power may be cut between their storage
operations too.  An installed update asks for a reboot in two ways: an upload with
its response, in the HTTP step (`UpdateInstalled`), and the pull without one, seen
before the tick (`PullInstalled`, `main.cpp` 603-604).

### OtaDevice

`at` is again the operation the main task performs next: `armed` (between
`arm()` and `begin()`), `run` (the loop), or one of the storage and flash
operations of a transfer: `context` (`Authorize`), `erase` (`BeginFlash`),
`journal` and `select` (`JournalImage`, `SelectBoot`, the two halves of
`EspWriter::select`).  Power may be cut between any two of them (`OtaPowerCut`),
and each of them may fail.

- *Bootloader (external).*  `slot`, `st` and `selected` are the contents of the
  two slots, their states in the boot data and the slot these select.  A new
  image boots once, pending; if it is still pending at the next boot it is
  abandoned for the other slot.  `Boot` is the bootloader's choice and `arm()`,
  which may fail to read the state or to start the watchdog.
- *Runtime.*  `rt` is the Runtime object, `bootAge` the age of the trial and
  `healthyFor` that of the healthy observation; both saturate at the limits the
  code compares them with.  Health is a nondeterministic sample of every poll.
  `Begin` reads context and journal; a read may fail, which reads like damage.
- *Updater.*  `up` is the Updater object.  A manifest is its image: length, hash
  and signature are an identity of the image.  `HeaderGate` and `Prepare` are two
  actions, because the body is processed turns after the headers were checked.
  The chunks of a transfer are one (`LastChunk`), since the earlier ones only
  add to a slot that does not verify; expiry, idling, interruption, a bad hash
  and a failing write are one action, `FailTransfer`, which may happen at any
  time.
- *Failures.*  A call that changes the boot data and reports failure may have
  taken effect if `MayMislead` is TRUE.  `OtaRot` damages a blob while the device
  is off if `MayRot` is TRUE.
- *History variables*, which no guard reads: `reported` (the image last reported
  as VALID), `streak` (for how long every poll was healthy), `offeredBy` (who
  sent the image selected last), `tried` (the highest version of a package that
  touched a slot) and `rotted`.

`AbUpdate` sees of all this the slot the device would return to (`Home`) and the
image on trial (`OnTrial`).

### PullWorker

The worker's steps are `TakeRequest`, `CheckRelease`, `Send` and `TakeAck`
(the two halves of `exchange()`), `Fail`, `Close` and `Finish`; it moves at any
time.  A turn of the loop is `TickUpdater`, one step of `Pull::poll` (with
`JobExpires` before it if the job is too old) and one HTTP step, as `turn` says.
Sequence numbers only grow, so that a message and an answer carry no number but
`mine`: whether they belong to the exchange that is open.  An image is
`ImageChunks` parts of a release; `updater.got` is what was written, which the
real updater knows as a hash.  `attempt` is the floor of the next check: the
highest version that runs or was recorded before an erase.  Deadlines, want of
memory, network and queue failures are choices that are always open, and a
restart of the device may come anywhere.

### The Mac tools

A request on `wire` is served by the device at any time, after its sender gave up
or was killed too, and is lost when the device restarts (`BridgeDevice`).  One
handler of the device is one step here; `OtaDevice` has the same code with the
storage operations apart.  `pc[p]` is where a process is between two writes of
its file or two calls to the device, and it may be killed at each of them.
Tokens are compared, never read, and are drawn from a small counter.  The remote
tool has no lock; its fence is created exclusively and removed only by an
operator (`Archive`), who with `CarefulOperator` does so while no tool runs.
`confirmed` is a history variable of the device: what it confirmed, and under
which transaction.

### The validators, the USB session and packaging

Each validator is a program counter that goes through the checks in the order of
the code, with one step per element where the code loops; the first check that
fails ends it.  What the code compares with a constant text is a set of
deviations, empty for the approved text.  Between two validations of the ledger
(`ProjectLoop`) rows are appended, dropped, exchanged, copied and rewritten;
`trusted` remembers a ledger that passed.  In `CaptureStream` the bus and the two
recorders are modelled as well, so that what a file shows can be compared with
what was on the bus; a reader opens a file that is complete, one that was damaged
after it was complete (`recorded`), or one whose recorder died before the trailer.

In `MilestoneGates` a milestone has any set of `Tasks` (its tasks, deliverables and
exits, which the code treats alike) and one stop condition, as the design has; a
group has tasks only.  `Documented` refuses an unknown proof stage, unknown evidence
and an artifact that does not exist; `RefuseEntry` stands for malformed defaults,
overrides or requirements, whatever they are.  The roles that the artifacts of an
`EvidencePacket` must cover depend on the type of the packet.

`UsbSession` has the flash of two boards and the operator who plugs them.  A write
that goes wrong may damage any region, the two that must be preserved included; a
tool that is killed leaves no report (`NoReport`), since it is written in the
`finally` block.  A file that changes after its last check and before it is opened
is written, because the code opens it again; `unchecked` remembers that, and
`WriteWasSafe` does not ask such a session for the approved segments.  `Packaging` has several packagers, builds, copies and a moving
channel link around one loader.  SHA-256 is injective and signatures cannot be
forged in all of them.

## 3. Runs

| Run | Question | Bounds and why they are enough |
|---|---|---|
| `config_store` | Do nine properties of the store survive power cuts, failing operations and damaged flash? | two credentials (a replaced setting is visible), two keys (a replaced key is visible), three revisions (both slots are used, overwritten, and the counter is exhausted) |
| `config_refinement` | Does the store implement `ConfigLifecycle`? | as above without damage, which the abstract specification does not know |
| `key_handoff` | Is the key of every device in service known to somebody? No: finding 2 | as above |
| `onboarding` | Do mode, store and flash agree, is a setting adopted only after a stable link, is every saved setting decided upon, and does an offline station retry for ever? | one credential, two revisions (a second save after a withdrawal); a trial of 4, a stable time of 2, a reboot wait of 1, a retry delay of 1 to 3, a request time of 2, turns of 1 or 2: the order of the code's 60, 5, 1, 5 to 60 and 5 s is kept where it matters (a trial is longer than the stable time, the retry delay doubles into its cap); the clock has 7 values, so that it wraps while a station runs, and is larger than the longest deadline plus one turn |
| `trial_deadline` | Is a withdrawn trial one that did not connect in time? No: finding 1 | as `onboarding`, one revision, a trial of 5 and a clock of 8 |
| `ota_device` | Across power cuts, failing calls and damaged blobs: is a confirmed image always left to boot, is what was reported VALID final, does a package version reach the flash at most once, and is all of it an A/B update (`AbUpdate`)? | four images of which two have the same version (a replay, another build of a version, a downgrade, two updates in a row); three tokens, so that a fresh one always exists besides those of journal and context; a trial of 4 units, an observation of 2, a gap of 2 and turns of at most 2, so that an observation is interrupted, restarted and still completes before the deadline, or misses it |
| `ota_trial` | Does a trial find itself in the journal, is it confirmed only in time and after an unbroken observation, and is every trial the runtime knows of decided upon? | as above; boot-data calls that report failure did nothing (see section 4) |
| `ota_rejection` | Is every trial that is not confirmed rolled back? No: finding 3 | as `ota_device` with three images and no damage |
| `mac_tools` | Two processes of either tool on one device that also updates itself: is nothing sent twice or unrecorded, and no success claimed without the device's confirmation? | two processes (a second deployment, or a reconcile, beside the first), two releases above the factory image, two tokens (an old transaction and a new one), two restarts (an update and its rollback), one crash, one archived fence; the two processes are symmetric |
| `fence_race` | Does the fence cover every request also if it may be archived while a tool runs? No: finding 4 | as `mac_tools`, without a crash |
| `mac_liveness` | Is an interrupted deployment settled if it is run again and again? | one process, as `mac_tools` otherwise |
| `parts` | What `MCParts` composes: does the pull keep its books, is what the validators accept sound, is a board written only over its backup, is a loaded release whole? | two releases and images of two chunks (a first, a last and a late chunk); tables of four partitions moved to every alignment and overlap; ledgers of two sealed and three later rows with one edit; three milestones with one task and one stop condition, and overlays of thirteen resolutions (every status, missing evidence, a removed artifact, an unknown stage); captures of two bytes in records of one or two, with one damaged line; packets with two claims and two artifacts; three USB sessions with two faults (the tools build on each other's result, and all three write); two builds, signings and packagers, one moved channel |

Fairness: `WF(Loop)` in `OnboardingSpec` and `WF(Task)` in `OtaSpec`: a
powered device goes on executing its loop (a watchdog restarts it otherwise,
`ota_runtime.h` 171-175).  Nothing is assumed of the link, of clients, of
storage operations, or that anybody switches the device on; `TrialIsDecided`
therefore only speaks of behaviours in which the device is powered and not in
its fault state from some point on.  `FairMacToolsSpec` adds for the controller:
a process that runs keeps running (weak), the deadline of its poll passes one day
(strong: it is on a clock that answers of the device do not hold up), and an
operator runs an interrupted deployment again (strong).  Nothing is assumed of
the device or the network there.

Deadlock is checked except in `parts`, whose programs end.

Every property has a mutant: a variant of a definition, next to it and marked
`mutant`, that a plausible bug would produce and that makes TLC find the property
violated.

## 4. Findings

1. *Trial deadline* (`trial_deadline`).  `signed-ota-bootstrap.md` line 31 and
   `USB-BOOTSTRAP-AMENDMENT-2026-09-08.md` line 45 promise the trial sixty
   seconds to establish its connection.  `NetworkState::tick` (`core.cpp`
   290-293) withdraws a trial that is connected at the deadline but has not been
   so for five seconds: a link that comes up in the last five seconds is lost.
2. *Installation key* (`key_handoff`).  The amendment (line 25) says the key is
   handed off once over USB when first created.  `enrollment()` stores it first
   and prints it afterwards; after a power cut in between, or a read-back that
   fails after a durable write, later boots reuse the key without printing it.
3. *Unreadable boot state* (`ota_rejection`).  `signed-ota-bootstrap.md` line 80
   says that rejection or timeout requests the bootloader's rollback.  When
   `arm()` cannot read the image state (`ota_runtime.h` 116) `pending` is false,
   and neither `begin` nor `poll` ever rolls back: an image that boots on trial
   stays in service, unconfirmed and without updates, until the next reset.

4. *Fence overwritten* (`fence_race`).  `dmota_remote.py` line 4 says that an
   unresolved fence blocks every subsequent deployment.  `reconcile` and `deploy`
   end with `write_state` (line 164), which replaces whatever the fence has become:
   a reconcile that ends late writes VALID for the old package over the fence of
   the next deployment while that one's prepare is under way.  It takes an operator
   who archives the settled fence while the reconcile is still running.

Also seen, but no contradiction: an answer of the loop that comes after the
worker gave up stays in the queue of one (`github_worker.h` 36-40).  If the loop
answers the next job's header before the worker has taken it out, the answer does
not fit, and the job is cancelled although its header was accepted and its version
recorded; `PullIsAccountedFor` and `OneStream` hold all the same.  The hashes in a
passive-capture packet are not compared with those in the header of its capture.
`write_state` of the controller does not sync its directory, so that a power loss
of the Mac may undo it.  And if `esp_ota_set_boot_partition` reports failure
although it took effect, the updater is free for another package, whose context
replaces the one of the image that is now selected.  That image then boots as a
trial without the local observation of packages, or is rejected.
`TrialIsJournaled` and `ConfirmedAsPromised` are therefore checked for calls
that do not mislead; the other properties hold either way.  A damaged record
that nothing refers to is tolerated while a trial runs, and stops the boot once
the trial is withdrawn (`RamMatchesDurable` allows exactly this);
`usb-bootstrap.md` line 112 lists the erased keys without `ghauto`, which
`dmota2-updater.md` line 21 adds.

## 5. Proofs

`ConfigStoreProofs` proves, for any set of credentials and keys and any
`MaxRevision > 0`, that `Spec` implies `[]TypeOK`, `[]CleanStorageLoads`,
`[]RamMatchesDurable`, `[]ConfiguredIsEnrolled`, `[]PolicyMirrorsDurable`,
`ResetIsComplete`, `EnrollmentIsKept`, `ActiveIsKept` and `RevisionsOnlyGrow`, and,
if flash keeps what it stores (`MayRot = FALSE`), `ImplementsLifecycle`.

The argument is one inductive invariant, `IInv`.  None of the properties is
inductive: whether storage loads after the next write depends on which slot the
reference names, on the slot that RAM believes free being the one no reference
uses, on what the two-step operations have already written, and on how far a
reset has come.  `IInv` adds to the properties: blobs are undamaged as long as
nothing rotted (`Undamaged`), the keys before `eraseIdx` are gone
(`ErasingInOrder`), no reset is pending while a loaded store is in use
(`NoPendingReset`), what RAM knows in service (`ServiceState`) and in the middle
of stage and promote (`MidStage`, `MidPromote`).  The step proof has a lemma per
group of actions; `WriteEffect` and `SameReading` say what an operation leaves
alone and what load() reads.  Two properties need more.  For `RevisionsOnlyGrow`,
`SlotInv` says that the two slots hold different revisions, that a trial is the
newest record, and that the slot written next holds the older one, also after a
withdrawal, which moves `nextSlot` without looking at the slots.  For
`PolicyMirrorsDurable`, `PolicyRead` says that what load() read holds at every
point of service and not only in the loop.

`OnboardingProofs` proves `[]OnboardingTypeOK`, `[]NetworkFollowsStore` and
`AdoptedOnlyIfStable` of `OnboardingSpec`, for any deadlines, any turn of the loop
and any clock that is longer than the deadlines.  `StoreSteps` shows first that
every step of the main loop is a step of `ConfigStore` (so that promote() and
discardTrial() are never misused), which carries `IInv` over.  The invariant
`OInv` adds that the mode of the network is the one of the setting in use
(`ModeFollowsState`), that a setting is saved in setup mode only, that a boot
starts without a pending reboot, and that the wrapped difference of two clock
readings is the time the link has been up, as long as that is below `StableMs`
(`TimedTrial`).  The last part rests on `SinceAdds`: adding to a clock reading,
across its end or not, adds to the time since another reading while the sum is
shorter than the clock.  The theorems need no bound on how long a turn takes.

`OtaDeviceProofs` proves, for any images, versions, tokens and times, with damaged
blobs and misleading boot-data calls, that `OtaSpec` implies `[]OtaTypeOK`,
`[]FallbackIsKept`, `[]ReportedIsKept`, `PackagesAreTriedOnce` and
`ImplementsUpdate`.  Whether a good image is left depends on more than the slots:
the inductive invariant `OtaIInv` adds what the Runtime object says of them
(`RunState`: what is neither pending nor fatal is confirmed, a trial runs from
the selected slot, another slot is selected only as new), that a transfer starts
from a confirmed image and ends in a slot that holds its image
(`TransferState`), that a trial is newer than the image to fall back to
(`TrialIsNewer`, without which a confirmation could lower the version), and that
the stored context covers every version that touched a slot (`Fence`).  The step
proof has a lemma per action; `QuietStep`, `OtherSlotStep` and `TrialStep` carry
the part they share: an action that leaves the flash alone, one that writes the
slot that does not run, and one that decides upon the trial.  Each lemma also
shows which step of `AbUpdate` the action is.

`OtaTrialProofs` proves `[]TrialIsJournaled` and `ConfirmedAsPromised` if
boot-data calls that report failure did nothing (`MayMislead = FALSE`).  Its
invariant `TrialInv` says that another slot is selected only by a completed
update, that what is about to be selected has been journaled under its own
context, that the Runtime object of a trial carries that journal and origin, and
that `healthyAt_` measures the unbroken observation.

`ValidatorProofs` has a section for each of the five validators.

*Flash layout*: `[]AcceptedLayoutIsSound` for every budget, partition table and
image.  The sweep compares a partition only with where the one before it ended;
the invariant `FlashInv` says what it has learnt about all it has passed: they lie
behind `previousEnd` and in the flash (`Behind`) and do not overlap each other
(`Separate`), and the later checks add that the image fits (`Judged`).
`SweepIsSound` states the first two of the sweep itself.

*Project loop*: `[]RowVouchesForHistory` for every sealed prefix and any edits of the
ledger.  The invariant `LoopInv` follows the validator line by line: as long as
nothing has failed, the lines read so far are linked and each of them vouches for
what is above it (`ReadSoFar`), whoever is past the ledger has read all of it
(`AllRead`), and the ledger that passed before is linked as well (`Trusted`).
`ChainIsFollowed` states the middle part.  The step from one line to the next is the
core: a linked row carries the digest of the row before, which is thereby the same
row of both ledgers, and no complete row can be a sealed one.

*Milestone gates*: `[]ReportsStayBehindProof` for any number of milestones and tasks
and any overlay.  The validator keeps one flag, `priorSatisfied`; the invariant `GatesInv`
says what it stands for (`Prior`), that a milestone that counts was reached when it
was reported and still is (`InTurn`), and carries what was shown of a criterion from
its resolution into the report (`Shown`).

*Evidence packets*: `[]GateClosesOnEvidence` for any packet and any files.  The
validator forgets each check when it has passed; `PacketInv` remembers them: the
head, the artifacts up to the one that is being hashed, the roles they cover, and
what the packet's type asks for (`TypeHolds`).  `FieldSettled`, the claims and the register of facts then
leave one claim per field, with the value the gate wants.  That every pair was
measured needs the set of results the code accepts, not only that none is ambiguous.

*Captures*: `[]ReadyCaptureIsWhole` for any traffic, records and damage.  The
invariant `CaptureInv` speaks of both ends: while it is recorded, what a source that
lost nothing has written and what it has heard and not yet written are the bus, in
order (`Heard`); and a trailer that is found in the file, wherever it was moved, is
one that says what the recorders wrote (`TrailersAreTheirs`).  Nothing needs to be
known of the records: the hashes of the trailer decide.

`HostToolProofs` has two sections.

*Releases*: `[]LoadedReleaseIsWhole` for any number of builds, packagers, directories,
keys and interventions.  `PackagingInv` says that a release is made of one image
which carries its identity and its key (`Genuine`), that whatever lies in a directory
is a file of some release, in its place, or a part of one (`Kept`), and that the
loader has read such files (`LoadFits`).  `ConsistentIsWhole` is the core: three files
of three releases that pass the loader's checks are those of one.

*USB sessions*: `[]WriteWasSafe` for any bundles, baselines, boards and printouts.
`UsbInv` says what each stage may rely on although files and cables change after it
was checked: the copy is the flash until the first write (`Copied`), what was opened
is approved unless a file changed in between (`Opened`), the backup is of the flash
before the first write and that was the baseline (`Backed`), the NVS is as it was
when the application starts (`NvsKept`, which the digests of `Verify` establish: a
write may damage it), what was verified stays (`SegmentsHold`), and the
credentials are the only key among the lines that were read (`KeysKept`).

`PullWorkerProofs` proves `[]PullIsAccountedFor` and `[]OneStream` for any releases,
any number of chunks, any losses and restarts, and wherever the worker and the
loop are when they interrupt each other.  The invariant `PullInv` places the job:
in the request, with the worker, or in the Done that is the last message, after
which at most the message the worker gave up on is left (`JobIsInOnePlace`).
What arrives is of use only where the updater expects it: the transfer has as
many parts as the pending message, the worker or its accepted answer says
(`StreamInStep`), all of them speak of one release (`OneRelease`), a code is only
reported with the release it is about (`CodesFit`), and no version goes unrecorded
(`TriedIsRecorded`).  `NoIntruder` is the part that concerns the HTTP service: a
client whose upload ended has been let go before the first message of a job is
taken.  That `Done` is still to come or was taken is an invariant; that it comes
would need fairness of the worker's core and of its network calls, and is not stated.

`MacToolsProofs` proves, for any number of processes of either tool, any releases,
transactions, crashes and restarts, that `MacToolsSpec` implies
`[]MacToolsTypeOK`, `[]IntentCoversMutation`, `[]SuccessWasConfirmed`,
`QuarantineIsFinal` and `ControllerIsOneShot` (the controller implements
`OneShot`).  The invariant `MacInv` relates the device, the requests under way and
every process: what runs without being on trial was confirmed under its journal
(`DeviceSound`); whoever a request would be answered to still waits for it
(`WireSound`); a token that no upload was sent with is known to one process and
its file only (`TokensSound`), without which two processes could finish each
other's transaction; the holder of the lock is the only controller that runs, and
the state file says how far it came (`LockSound`); and what was sent once is
covered by the file, or the device would not go back behind it (`SentSound`),
which is why a repeated deployment of the same release finds it no newer than what
runs and never sends it again.

`[]FenceCoversMutation` and `RemoteIsOneShot` have the hypothesis
`CarefulOperator`: a fence is archived only while no remote tool runs.  Without it
they are false, as run `fence_race` shows; the program has no lock that would
enforce it.  `CarefulInv` says under this hypothesis that the process that created
the fence is the only one that goes on, and that the fence says how far it came
(`FenceSound`), and of the remote tool what `SentSound` says of the controller
(`DeliveredSound`).  A step of the device is summed up once by what it can change
for the tools (`DeviceEffect`), and a step of a tool by what it does to the
network: nothing, giving up a connection, or one request more.

Assumptions: those named in the modules (`RevisionAssumption`, `RotAssumption`,
`BlobAssumption`: an absent or damaged key is told apart from every blob, that
is, CRC and magic do their work; `OtaImages`, `OtaTiming` and `OtaBlobs`
likewise for the updater; `FlashAssumption` and `LoopAssumption`: sizes are
numbers, the sealed prefix is not empty and its rows are not complete ones, and
the digest of a row stands for the row; `GatesAssumption`, `EvidenceAssumption` and
`CaptureAssumption`: the register and the packets have the form that their JSON
schema and parser give them, lists are lists, and a value that stands for "not seen"
is none of the values a gate accepts; `PackagingAssumption` and `UsbAssumption`:
there is a release directory, segments are named by regions outside the NVS, every
board has every region, and a printed key is not the empty text;
`ClockAssumption` and `TurnAssumption`: deadlines are positive, the stable time is
shorter than the trial and both than the clock, as 5 s, 60 s and 2^32 ms are; `BridgeReleases` and `NoRecordIsNone`:
`None`, which stands for an absent value, is no release, process, token, offer or
record).  `MCOnboarding` assumes in addition that a trial and one turn of the loop
together are shorter than the clock; the theorems do not need it, liveness does.

Every invariant and every action property of a passing run is thus a theorem.
Only model-checked: liveness (`TrialIsDecided`, `OfflineStationRetries`, `TrialEnds`
and `InterruptedIsResolved`), which is out of the prover's reach.

## 6. Not modelled, and the plan

Not modelled, and why:

- Byte formats, parsing, cryptography (Monocypher, SHA-256, Ed25519), logging,
  mDNS, the web page: data and presentation; where a property needs to know what a
  check tells apart, the model has that (a digest, an identity, a set of
  deviations).
- Digest login: the nonce and its replay table.  The limits of requests and
  headers.
- Of the pull, the schedule with its backoff and the framing of bodies
  (`github_core.cpp`): a job may start at any time, and an exchange may fail at any
  time.
- `prepare_ota_baseline.py`, `validate_m0.py`, `validate_public_sources.py`,
  `validate_usb_bootstrap.py`, `target_contract.py`, `run_arduino_evals.py`:
  straight sequences of comparisons with constants.
- How the catalog of milestone criteria is derived from the text of the design:
  one step that succeeds or fails.  Templates of captures beyond their header.
- The creation of the signing key and of its directory (`init_key`), which happens
  once.
- Which constant a comparison is made with: repeated comparisons are one set of
  deviations or one Boolean (`FlashLayout`, `ProjectLoop`, `MilestoneGates`), which
  allows more than the code does.
- Files that change while a validator reads them, and a power loss of the Mac.

Planned, in this order:

1. `DigestLogin`, `BodyFraming`, `RetryDelay`: nearly pure algorithms against
   reference definitions.
2. The policy switched over HTTP while a pull runs.
