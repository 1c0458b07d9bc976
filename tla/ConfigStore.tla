---------------------------- MODULE ConfigStore ----------------------------
(***************************************************************************)
(* The Wi-Fi configuration store of the bridge and the boot sequence that  *)
(* loads it: ConfigStore (core.cpp), enrollment and startApplication       *)
(* (main.cpp), AutomaticPolicy (automatic_policy.h).                       *)
(*                                                                         *)
(* Every step is one storage operation, so that a power cut falls between  *)
(* any two of them, and every operation may fail with or without having    *)
(* reached the flash.  The callers of stage, promote and discardTrial are  *)
(* unconstrained here; module Onboarding adds the one the firmware has.    *)
(***************************************************************************)
EXTENDS Storage, Integers

CONSTANTS
    Cred,           \* credentials: an SSID with its password
    InstallKey,     \* installation keys esp_fill_random can produce
    MaxRevision,    \* UINT32_MAX in the code
    Marker,         \* the 'WRST' reset-intent sentinel
    On, Off,        \* the two 'GHA' records of AutomaticPolicy
    MayRot          \* whether a blob may be found damaged at a boot

ASSUME RevisionAssumption == MaxRevision \in Nat \ {0}
ASSUME RotAssumption == MayRot \in BOOLEAN

Slot == {0, 1}
SlotKey(s) == IF s = 0 THEN "cfgA" ELSE "cfgB"
SlotKeys == {"cfgA", "cfgB"}
Key == SlotKeys \cup {"active", "trial", "ghauto", "reset", "enroll"}

\* A configuration record, and a reference to one: its slot, its revision and
\* its CRC.  The record itself stands for the revision and the CRC.
Record == [rev : 1 .. MaxRevision, cred : Cred]
Reference == [slot : Slot, rec : Record]

\* The blobs the firmware writes under each key.
Blob(k) == CASE k \in SlotKeys          -> Record
             [] k \in {"active", "trial"} -> Reference
             [] k = "ghauto"            -> {On, Off}
             [] k = "reset"             -> {Marker}
             [] k = "enroll"            -> InstallKey

\* What a key may be found to hold.
Content(k) == Blob(k) \cup {Missing, Damaged}
AnyContent == UNION {Content(k) : k \in Key}

\* A key that is absent or damaged is told apart from every blob.
ASSUME BlobAssumption ==
    /\ Missing # Damaged
    /\ On # Off
    /\ \A k \in Key : Missing \notin Blob(k) /\ Damaged \notin Blob(k)

VARIABLES
    at,             \* the storage operation the main task is about to perform
    resetAsked,     \* this boot saw the button held for three seconds
    eraseIdx,       \* position in resumeReset's list of keys
    state,          \* ConfigStore::state_
    config,         \* ConfigStore::config_
    revision,       \* ConfigStore::revision_
    nextSlot,       \* ConfigStore::nextSlot_
    selected,       \* ConfigStore::selected_
    policy,         \* AutomaticPolicy::enabled_ and healthy_
    printed,        \* installation keys that were handed off over USB
    rotted          \* some blob was damaged since manufacture

store == <<state, config, revision, nextSlot, selected>>
boot == <<resetAsked, eraseIdx>>
vars == <<nvs, at, boot, store, policy, printed, rotted>>

-----------------------------------------------------------------------------
(* What the stored blobs say.                                              *)

ValidSlot(s) == nvs[SlotKey(s)] \in Record
ValidRef(v) == v \in Reference /\ nvs[SlotKey(v.slot)] = v.rec

SlotRevision(s) == IF ValidSlot(s) THEN nvs[SlotKey(s)].rev ELSE 0

\* The loop over the slots keeps the later one on a tie.
NewestSlot == IF ValidSlot(1) /\ SlotRevision(1) >= SlotRevision(0) THEN 1 ELSE 0
FirstRevision == IF ValidSlot(0) THEN SlotRevision(0) ELSE SlotRevision(1)  \* mutant
HighestRevision == SlotRevision(NewestSlot)
FreeSlot == IF ValidSlot(0) \/ ValidSlot(1) THEN 1 - NewestSlot ELSE 0

LoadedState ==
    IF nvs["active"] # Missing
    THEN IF ValidRef(nvs["active"]) /\ nvs["trial"] \in {Missing, nvs["active"]}
         THEN "Active" ELSE "Corrupt"
    ELSE IF nvs["trial"] # Missing
    THEN IF ValidRef(nvs["trial"]) THEN "Trial" ELSE "Corrupt"
    ELSE IF \E k \in SlotKeys : nvs[k] \notin Record \cup {Missing}
    THEN "Corrupt" ELSE "Empty"

LoadedRef == IF nvs["active"] # Missing THEN nvs["active"] ELSE nvs["trial"]

-----------------------------------------------------------------------------
(* Boot.                                                                   *)

Init ==
    /\ nvs = [k \in Key |-> Missing]
    /\ at = "off"
    /\ resetAsked = FALSE /\ eraseIdx = 0
    /\ state = "Corrupt" /\ config = Missing /\ revision = 0
    /\ nextSlot = 0 /\ selected = Missing
    /\ policy = [enabled |-> FALSE, healthy |-> FALSE]
    /\ printed = {} /\ rotted = FALSE

\* Power is cut, a watchdog bites or the program restarts: RAM is lost.
PowerCut ==
    /\ at # "off"
    /\ at' = "off"
    /\ resetAsked' = FALSE /\ eraseIdx' = 0
    /\ state' = "Corrupt" /\ config' = Missing /\ revision' = 0
    /\ nextSlot' = 0 /\ selected' = Missing
    /\ policy' = [enabled |-> FALSE, healthy |-> FALSE]
    /\ UNCHANGED <<nvs, printed, rotted>>

\* Flash wear, noticed by the next boot only: the store reads at load.
Rot(k) ==
    /\ MayRot
    /\ at = "off"
    /\ nvs[k] # Missing
    /\ nvs' = Put(k, Damaged)
    /\ rotted' = TRUE
    /\ UNCHANGED <<at, boot, store, policy, printed>>

\* setup() and loop(): the application starts once the boot button was
\* released, or held long enough to ask for a reset.
PowerOn(asked) ==
    /\ at = "off"
    /\ at' = "gate"
    /\ resetAsked' = asked
    /\ UNCHANGED <<nvs, eraseIdx, store, policy, printed, rotted>>

\* fault(): networking stops until the next power cycle.
Fail == at' = "fault"

\* A pending or requested reset runs only on a device with a readable key.
\* A marker that cannot be read counts as pending.
GateReset(pending) ==
    /\ at = "gate"
    /\ nvs["reset"] # Missing => pending
    /\ \/ Fail
       \/ /\ (resetAsked \/ pending) => nvs["enroll"] \in InstallKey
          /\ at' = IF resetAsked THEN "mark" ELSE "resume"
    /\ UNCHANGED <<nvs, resetAsked, eraseIdx, store, policy, printed, rotted>>

\* resetWifi: the intent is durable before anything is deleted.
MarkReset(ok) ==
    /\ at = "mark"
    /\ CheckedWrite("reset", Marker, ok)
    /\ at' = IF ok THEN "resume" ELSE "fault"
    /\ state' = "Corrupt"
    /\ UNCHANGED <<boot, config, revision, nextSlot, selected, policy, printed, rotted>>

MarkerFirst == <<"reset", "active", "trial", "cfgA", "cfgB", "ghauto">>     \* mutant
ResetKeys == <<"active", "trial", "cfgA", "cfgB", "ghauto", "reset">>

\* resumeReset up to its loop.
ResumeReset ==
    /\ at = "resume"
    /\ \/ Fail /\ UNCHANGED eraseIdx
       \/ /\ nvs["reset"] = Missing
          /\ at' = "load"
          /\ UNCHANGED eraseIdx
       \/ /\ nvs["reset"] = Marker
          /\ at' = "erase"
          /\ eraseIdx' = 1
    /\ UNCHANGED <<nvs, resetAsked, store, policy, printed, rotted>>

\* One turn of resumeReset's loop; the marker goes last.
EraseNext(ok) ==
    /\ at = "erase"
    /\ CheckedErase(ResetKeys[eraseIdx], ok)
    /\ \/ ~ok /\ Fail /\ UNCHANGED <<eraseIdx, store>>
       \/ /\ ok /\ eraseIdx < 6
          /\ eraseIdx' = eraseIdx + 1
          /\ UNCHANGED <<at, store>>
       \/ /\ ok /\ eraseIdx = 6
          /\ at' = "load"
          /\ eraseIdx' = 0
          /\ state' = "Empty" /\ config' = Missing /\ revision' = 0
          /\ nextSlot' = 0 /\ selected' = Missing
    /\ UNCHANGED <<resetAsked, policy, printed, rotted>>

\* load, then AutomaticPolicy::load, which may fail without stopping the boot.
Load(policyRead) ==
    /\ at = "load"
    /\ \/ /\ Fail
          \* The other fields of a corrupt store are never read again.
          /\ state' = "Corrupt" /\ config' = Missing
          /\ UNCHANGED <<revision, nextSlot, selected, policy>>
       \/ /\ LoadedState # "Corrupt"
          /\ at' = "enroll"
          /\ state' = LoadedState
          /\ revision' = HighestRevision
          /\ nextSlot' = FreeSlot
          /\ config' = IF LoadedState = "Empty" THEN Missing ELSE LoadedRef.rec
          /\ selected' = IF LoadedState = "Empty" THEN selected ELSE LoadedRef
          /\ policy' = [enabled |-> policyRead /\ nvs["ghauto"] = On,
                        healthy |-> policyRead /\ nvs["ghauto"] \in {Missing, On, Off}]
    /\ UNCHANGED <<nvs, boot, printed, rotted>>

\* enrollment: reuse the stored key, or draw one on an unconfigured device.
ReuseAnyKey == at = "enroll" /\ at' = "idle" /\ UNCHANGED <<nvs, boot, store, policy, printed, rotted>>  \* mutant
ReuseKey ==
    /\ at = "enroll"
    /\ \/ Fail
       \/ nvs["enroll"] \in InstallKey /\ at' = "idle"
    /\ UNCHANGED <<nvs, boot, store, policy, printed, rotted>>

MayEnrollAgain == state = "Empty"           \* mutant: a stored key is replaced
MayEnroll == state = "Empty" /\ nvs["enroll"] = Missing

CreateKey(key, ok) ==
    /\ at = "enroll"
    /\ MayEnroll
    /\ CheckedWrite("enroll", key, ok)
    /\ at' = IF ok THEN "handoff" ELSE "fault"
    /\ UNCHANGED <<boot, store, policy, printed, rotted>>

\* INSTALL_KEY_ONCE: the only time the key leaves the device.
HandOffKey ==
    /\ at = "handoff"
    /\ printed' = printed \cup {nvs["enroll"]}
    /\ at' = "idle"
    /\ UNCHANGED <<nvs, boot, store, policy, rotted>>

-----------------------------------------------------------------------------
(* Service.                                                                *)

Staged(cred) == [slot |-> nextSlot, rec |-> [rev |-> revision + 1, cred |-> cred]]

MayStageAnytime == revision < MaxRevision   \* mutant: over a trial or an adopted setting
MayStageForever == state = "Empty"          \* mutant: the revision counter overflows
MayStage == state = "Empty" /\ revision < MaxRevision

\* stage: a client that quotes the current revision replaces it by the next.
\* saveConfig turns a failed write into a fault.
StageRecord(cred, ok) ==
    /\ at = "idle"
    /\ MayStage
    /\ selected' = Staged(cred)
    /\ CheckedWrite(SlotKey(nextSlot), Staged(cred).rec, ok)
    /\ \/ ok /\ at' = "stageRef" /\ UNCHANGED state
       \/ ~ok /\ Fail /\ state' = "Corrupt"
    /\ UNCHANGED <<boot, config, revision, nextSlot, policy, printed, rotted>>

StageReference(ok) ==
    /\ at = "stageRef"
    /\ CheckedWrite("trial", selected, ok)
    /\ \/ /\ ok /\ at' = "idle" /\ state' = "Trial"
          /\ config' = selected.rec
          /\ revision' = selected.rec.rev
       \/ /\ ~ok /\ Fail /\ state' = "Corrupt"
          /\ UNCHANGED <<config, revision>>
    /\ UNCHANGED <<boot, nextSlot, selected, policy, printed, rotted>>

\* promote: the reference becomes active, then the stale trial is erased and
\* nobody looks whether that worked.
PromoteWrite(ok) ==
    /\ at = "idle"
    /\ state = "Trial"
    /\ CheckedWrite("active", selected, ok)
    /\ \/ ok /\ at' = "promoteErase" /\ UNCHANGED state
       \/ ~ok /\ Fail /\ state' = "Corrupt"
    /\ UNCHANGED <<boot, config, revision, nextSlot, selected, policy, printed, rotted>>

PromoteErase ==
    /\ at = "promoteErase"
    /\ UncheckedErase("trial")
    /\ at' = "idle"
    /\ state' = "Active"
    /\ UNCHANGED <<boot, config, revision, nextSlot, selected, policy, printed, rotted>>

\* discardTrial: the revision is not given back.
DiscardTrial(ok) ==
    /\ at = "idle"
    /\ state = "Trial"
    /\ CheckedErase("trial", ok)
    /\ \/ /\ ok /\ state' = "Empty" /\ UNCHANGED at
          /\ config' = Missing
          /\ nextSlot' = 1 - selected.slot
       \/ /\ ~ok /\ Fail /\ state' = "Corrupt"
          /\ UNCHANGED <<config, nextSlot>>
    /\ UNCHANGED <<boot, revision, selected, policy, printed, rotted>>

\* promote or discardTrial called on anything but a trial.
MisusedTrial ==
    /\ at = "idle"
    /\ state # "Trial"
    /\ state' = "Corrupt"
    /\ Fail
    /\ UNCHANGED <<nvs, boot, config, revision, nextSlot, selected, policy, printed, rotted>>

\* fault() for a cause outside the store: the access point or the HTTP server
\* does not start, or a digest fails.
NetworkFault ==
    /\ at = "idle"
    /\ Fail
    /\ UNCHANGED <<nvs, boot, store, policy, printed, rotted>>

\* AutomaticPolicy::save; saving what is already healthy and equal is free.
PolicyKept(enabled, ok) == IF ok THEN [enabled |-> enabled, healthy |-> TRUE] ELSE policy   \* mutant
PolicyAfter(enabled, ok) == [enabled |-> ok /\ enabled, healthy |-> ok]

SavePolicy(enabled, ok) ==
    /\ at = "idle"
    /\ ~(policy.healthy /\ policy.enabled = enabled)
    /\ CheckedWrite("ghauto", IF enabled THEN On ELSE Off, ok)
    /\ policy' = PolicyAfter(enabled, ok)
    /\ UNCHANGED <<at, boot, store, printed, rotted>>

Next ==
    \/ PowerCut
    \/ \E k \in Key : Rot(k)
    \/ \E asked \in BOOLEAN : PowerOn(asked)
    \/ \E pending \in BOOLEAN : GateReset(pending)
    \/ ResumeReset
    \/ \E read \in BOOLEAN : Load(read)
    \/ ReuseKey
    \/ HandOffKey
    \/ PromoteErase
    \/ MisusedTrial
    \/ NetworkFault
    \/ \E ok \in BOOLEAN :
          \/ MarkReset(ok)
          \/ EraseNext(ok)
          \/ \E key \in InstallKey : CreateKey(key, ok)
          \/ \E cred \in Cred : StageRecord(cred, ok)
          \/ StageReference(ok)
          \/ PromoteWrite(ok)
          \/ DiscardTrial(ok)
          \/ \E enabled \in BOOLEAN : SavePolicy(enabled, ok)

Spec == Init /\ [][Next]_vars

-----------------------------------------------------------------------------
(* Properties.                                                             *)

Points == {"off", "gate", "mark", "resume", "erase", "load", "enroll", "handoff",
           "idle", "stageRef", "promoteErase", "fault"}

\* Every key holds what the firmware writes under it, or nothing, or damage.
TypeOK ==
    /\ nvs \in [Key -> AnyContent]
    /\ \A k \in Key : nvs[k] \in Content(k)
    /\ at \in Points
    /\ resetAsked \in BOOLEAN
    /\ eraseIdx \in 0 .. 6
    /\ state \in {"Empty", "Trial", "Active", "Corrupt"}
    /\ config \in Record \cup {Missing}
    /\ revision \in 0 .. MaxRevision
    /\ nextSlot \in Slot
    /\ selected \in Reference \cup {Missing}
    /\ policy \in [enabled : BOOLEAN, healthy : BOOLEAN]
    /\ printed \subseteq InstallKey
    /\ rotted \in BOOLEAN

\* Whatever sequence of power cuts and failed writes, erases and resets came
\* before, storage that was never damaged loads: the references and records
\* the firmware leaves behind are never a combination that load() rejects.
CleanStorageLoads == ~rotted /\ nvs["reset"] = Missing => LoadedState # "Corrupt"

\* The points at which a loaded store is in use.
InService == {"enroll", "handoff", "idle", "stageRef", "promoteErase"}

\* What the store believes is what a reboot would find, also after an
\* operation that failed and was survived: no setting is in use that is not
\* durable, none is forgotten that is (an empty store has no reference left,
\* so that the setup AP never opens over a stored setting), and no setting is
\* in use while a reset is pending.  Only a damaged record that nothing refers
\* to is tolerated by a trial and, once that is withdrawn, stops the next boot.
RamMatchesDurable ==
    at \in InService \ {"stageRef", "promoteErase"} =>
        /\ nvs["reset"] = Missing
        /\ revision = HighestRevision
        /\ state \in {LoadedState, IF rotted THEN "Empty" ELSE LoadedState}
        /\ IF state = "Empty" THEN LoadedRef = Missing
           ELSE config = LoadedRef.rec /\ selected = LoadedRef

\* A device with a stored setting has an installation key: a reset or a reboot
\* never leaves it in the field without a way to log in.
ConfiguredIsEnrolled ==
    {nvs["active"], nvs["trial"]} # {Missing} => nvs["enroll"] # Missing

\* "Healthy" is only said of a policy that is durable: automatic updates are
\* on in RAM only when they stay on after a reboot, and a healthy OFF is never
\* a durable ON.
PolicyMirrorsDurable ==
    at = "idle" /\ policy.healthy => (policy.enabled <=> nvs["ghauto"] = On)

ActiveRecord == IF ValidRef(nvs["active"]) THEN nvs["active"].rec ELSE Missing

\* An adopted setting is given up for a reset only: no later trial, failed
\* write or retry replaces its reference or overwrites its record.
ActiveIsKept ==
    [][ at # "off" /\ nvs["reset"] = Missing /\ nvs'["reset"] = Missing
        /\ ActiveRecord # Missing => ActiveRecord' = ActiveRecord ]_vars

\* A record is written under a revision above every durable one, so that a
\* revision names one setting for as long as no reset runs; and it overwrites
\* the older record: until it is durable, the newest one and with it the
\* revision counter is still in the other slot.
RevisionsOnlyGrow ==
    [][ at # "off" => \A s \in Slot : nvs'[SlotKey(s)] # nvs[SlotKey(s)] =>
        /\ nvs'[SlotKey(s)] \in Record =>
             \A t \in Slot : nvs'[SlotKey(s)].rev > SlotRevision(t)
        /\ ValidSlot(s) /\ nvs["reset"] = Missing => SlotRevision(1 - s) > SlotRevision(s) ]_vars

\* The reset marker disappears last: once the intent is durable the reset is
\* completed, across any number of power cuts and failed erases, before the
\* device forgets that it was asked, and the installation key survives it.
ResetIsComplete ==
    [][ at # "off" /\ nvs["reset"] # Missing /\ nvs'["reset"] = Missing =>
        /\ \A k \in Key \ {"enroll"} : nvs'[k] = Missing
        /\ nvs'["enroll"] = nvs["enroll"] ]_vars

\* A stored installation key is never replaced or erased, whatever the reset,
\* the retry of a failed enrollment or the state of the other keys.
EnrollmentIsKept ==
    [][ at # "off" /\ nvs["enroll"] # Missing => nvs'["enroll"] = nvs["enroll"] ]_vars

\* "The installation key is generated per device and handed off once over USB
\* when first created": a device in service has handed its key off.
KeyWasHandedOff == at = "idle" => nvs["enroll"] \in printed

\* The store implements the lifecycle.  A durable reset marker already counts
\* as the reset: what is still stored is deleted before it is ever read.
DurableSetting ==
    IF nvs["reset"] # Missing THEN [phase |-> "None"]
    ELSE IF nvs["active"] # Missing THEN [phase |-> "Active", rec |-> nvs["active"].rec]
    ELSE IF nvs["trial"] # Missing THEN [phase |-> "Trial", rec |-> nvs["trial"].rec]
    ELSE [phase |-> "None"]

DurableRevision == IF nvs["reset"] # Missing THEN 0 ELSE HighestRevision

Lifecycle == INSTANCE ConfigLifecycle
    WITH setting <- DurableSetting, issued <- DurableRevision

\* Every sequence of storage operations, failures and power cuts is a sequence
\* of atomic lifecycle transitions.
ImplementsLifecycle == Lifecycle!Spec

=============================================================================
