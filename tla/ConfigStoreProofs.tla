------------------------- MODULE ConfigStoreProofs -------------------------
(***************************************************************************)
(* Proofs about ConfigStore, for any credentials, keys and revision limit. *)
(***************************************************************************)
EXTENDS ConfigStore, TLAPS

NvsOK(n) == /\ n \in [Key -> AnyContent]
            /\ \A k \in Key : n[k] \in Content(k)

\* A storage operation with a value its key may hold, failed or not, keeps the
\* type of the storage.
LEMMA WriteKeepsType ==
    ASSUME NvsOK(nvs), NEW k \in Key, NEW v \in Content(k), NEW ok \in BOOLEAN,
           CheckedWrite(k, v, ok)
    PROVE  NvsOK(nvs')
  <1>1. v \in AnyContent
    BY DEF AnyContent
  <1>2. nvs' = nvs \/ nvs' = [nvs EXCEPT ![k] = v]
    BY DEF CheckedWrite, Put
  <1>3. CASE nvs' = nvs
    BY <1>3 DEF NvsOK
  <1>4. CASE nvs' = [nvs EXCEPT ![k] = v]
    BY <1>1, <1>4 DEF NvsOK
  <1> QED BY <1>2, <1>3, <1>4

\* What the firmware writes under each key.
LEMMA BlobOf ==
    /\ \A s \in Slot : SlotKey(s) \in Key /\ Blob(SlotKey(s)) = Record
    /\ "active" \in Key /\ Blob("active") = Reference
    /\ "trial" \in Key /\ Blob("trial") = Reference
    /\ "ghauto" \in Key /\ Blob("ghauto") = {On, Off}
    /\ "reset" \in Key /\ Blob("reset") = {Marker}
    /\ "enroll" \in Key /\ Blob("enroll") = InstallKey
  <1>1. \A s \in Slot : SlotKey(s) \in Key /\ Blob(SlotKey(s)) = Record
    BY DEF Slot, SlotKey, Key, SlotKeys, Blob
  <1>2. "active" \in Key /\ Blob("active") = Reference
    BY DEF Key, SlotKeys, Blob
  <1>3. "trial" \in Key /\ Blob("trial") = Reference
    BY DEF Key, SlotKeys, Blob
  <1>4. "ghauto" \in Key /\ Blob("ghauto") = {On, Off}
    BY DEF Key, SlotKeys, Blob
  <1>5. "reset" \in Key /\ Blob("reset") = {Marker}
    BY DEF Key, SlotKeys, Blob
  <1>6. "enroll" \in Key /\ Blob("enroll") = InstallKey
    BY DEF Key, SlotKeys, Blob
  <1> QED BY <1>1, <1>2, <1>3, <1>4, <1>5, <1>6

\* Both slots hold configuration records.
LEMMA SlotBlob == \A k \in SlotKeys : k \in Key /\ Blob(k) = Record
  <1>1. "cfgA" \in Key /\ Blob("cfgA") = Record
    BY DEF Key, SlotKeys, Blob
  <1>2. "cfgB" \in Key /\ Blob("cfgB") = Record
    BY DEF Key, SlotKeys, Blob
  <1> QED BY <1>1, <1>2 DEF SlotKeys

\* The markers for "absent" and "damaged" are no blobs.
LEMMA Distinct ==
    /\ Missing # Damaged /\ On # Off
    /\ Missing \notin Record /\ Missing \notin Reference /\ Missing \notin InstallKey
    /\ Damaged \notin Record /\ Damaged \notin Reference /\ Damaged \notin InstallKey
    /\ Marker # Missing /\ Marker # Damaged
    /\ On # Missing /\ Off # Missing
  <1>1. 0 \in Slot
    BY DEF Slot
  <1> QED BY <1>1, BlobOf, BlobAssumption

\* What a checked write leaves of the storage.
LEMMA WriteEffect ==
    ASSUME NvsOK(nvs), NEW k \in Key, NEW v, NEW ok \in BOOLEAN, CheckedWrite(k, v, ok)
    PROVE  /\ \A j \in Key : j # k => nvs'[j] = nvs[j]
           /\ nvs'[k] \in {v, nvs[k]}
           /\ ok => nvs'[k] = v
  BY DEF CheckedWrite, Put, NvsOK

\* The keys, spelled out for the frame conditions.
LEMMA Keys == Key = {"cfgA", "cfgB", "active", "trial", "ghauto", "reset", "enroll"}
  BY DEF Key, SlotKeys

\* load() looks at four keys only.
LEMMA SameReading ==
    ASSUME nvs'["cfgA"] = nvs["cfgA"], nvs'["cfgB"] = nvs["cfgB"]
    PROVE  /\ \A v : ValidRef(v)' <=> ValidRef(v)
           /\ HighestRevision' = HighestRevision /\ FreeSlot' = FreeSlot
           /\ (\E k \in SlotKeys : nvs[k] \notin Record \cup {Missing})'
                 <=> (\E k \in SlotKeys : nvs[k] \notin Record \cup {Missing})
           /\ nvs'["active"] = nvs["active"] /\ nvs'["trial"] = nvs["trial"]
                 => LoadedState' = LoadedState /\ LoadedRef' = LoadedRef
  <1>1. \A s : nvs'[SlotKey(s)] = nvs[SlotKey(s)]
    BY DEF SlotKey
  <1>2. \A v : ValidRef(v)' <=> ValidRef(v)
    BY <1>1 DEF ValidRef
  <1>3. \A s : (ValidSlot(s)' <=> ValidSlot(s)) /\ SlotRevision(s)' = SlotRevision(s)
    BY <1>1 DEF ValidSlot, SlotRevision
  <1>4. NewestSlot' = NewestSlot
    BY <1>3 DEF NewestSlot
  <1>5. HighestRevision' = HighestRevision /\ FreeSlot' = FreeSlot
    BY <1>3, <1>4 DEF HighestRevision, FreeSlot
  <1>6. (\E k \in SlotKeys : nvs[k] \notin Record \cup {Missing})'
          <=> (\E k \in SlotKeys : nvs[k] \notin Record \cup {Missing})
    BY DEF SlotKeys
  <1>7. ASSUME nvs'["active"] = nvs["active"], nvs'["trial"] = nvs["trial"]
        PROVE  LoadedState' = LoadedState /\ LoadedRef' = LoadedRef
    BY <1>2, <1>6, <1>7 DEF LoadedState, LoadedRef
  <1> QED BY <1>2, <1>5, <1>6, <1>7

\* A device that never ran is well-typed.
LEMMA TypeInit == Init => TypeOK
  <1> SUFFICES ASSUME Init PROVE TypeOK
    OBVIOUS
  <1>1. \A k \in Key : Missing \in Content(k)
    BY DEF Content
  <1>2. nvs \in [Key -> AnyContent] /\ \A k \in Key : nvs[k] \in Content(k)
    BY <1>1 DEF Init, AnyContent
  <1>3. revision \in 0 .. MaxRevision
    BY RevisionAssumption DEF Init
  <1>4. policy \in [enabled : BOOLEAN, healthy : BOOLEAN]
    BY DEF Init
  <1>5. resetAsked \in BOOLEAN
    BY Zenon DEF Init
  <1>6. at \in Points /\ eraseIdx \in 0 .. 6
    BY DEF Init, Points
  <1>7. /\ state \in {"Empty", "Trial", "Active", "Corrupt"}
        /\ config \in Record \cup {Missing} /\ selected \in Reference \cup {Missing}
        /\ nextSlot \in Slot
    BY DEF Init, Slot
  <1>8. printed \subseteq InstallKey /\ rotted \in BOOLEAN
    BY DEF Init
  <1> QED BY <1>2, <1>3, <1>4, <1>5, <1>6, <1>7, <1>8 DEF TypeOK

\* The record and the reference that stage writes.
LEMMA StagedType ==
    ASSUME TypeOK, revision < MaxRevision, NEW cred \in Cred
    PROVE  /\ Staged(cred) \in Reference
           /\ Staged(cred).rec \in Record
           /\ Staged(cred).slot = nextSlot
  <1>1. revision + 1 \in 1 .. MaxRevision
    BY RevisionAssumption DEF TypeOK
  <1> QED BY <1>1 DEF TypeOK, Staged, Reference, Record

\* What load() reads from well-typed storage.
LEMMA LoadedType ==
    ASSUME TypeOK
    PROVE  /\ \A s \in Slot : SlotRevision(s) \in 0 .. MaxRevision
           /\ NewestSlot \in Slot /\ FreeSlot \in Slot
           /\ HighestRevision \in 0 .. MaxRevision
           /\ LoadedState \in {"Empty", "Trial", "Active", "Corrupt"}
           /\ LoadedState \in {"Trial", "Active"} =>
                  LoadedRef \in Reference /\ LoadedRef.rec \in Record
  <1>1. \A s \in Slot : SlotRevision(s) \in 0 .. MaxRevision
    <2> TAKE s \in Slot
    <2>1. CASE ValidSlot(s)
      <3>1. nvs[SlotKey(s)] \in [rev : 1 .. MaxRevision, cred : Cred]
        BY <2>1 DEF ValidSlot, Record
      <3>2. nvs[SlotKey(s)].rev \in 1 .. MaxRevision
        BY <3>1
      <3> QED BY <2>1, <3>2, RevisionAssumption DEF SlotRevision
    <2>2. CASE ~ValidSlot(s)
      BY <2>2, RevisionAssumption DEF SlotRevision
    <2> QED BY <2>1, <2>2
  <1>2. NewestSlot \in Slot /\ FreeSlot \in Slot
    BY DEF NewestSlot, FreeSlot, Slot
  <1>3. HighestRevision \in 0 .. MaxRevision
    BY <1>1, <1>2 DEF HighestRevision
  <1>4. LoadedState \in {"Empty", "Trial", "Active", "Corrupt"}
    BY DEF LoadedState
  <1>5. LoadedState \in {"Trial", "Active"} => LoadedRef \in Reference
    BY DEF LoadedState, LoadedRef, ValidRef
  <1>6. \A v \in Reference : v.rec \in Record
    BY DEF Reference
  <1> QED BY <1>1, <1>2, <1>3, <1>4, <1>5, <1>6

-----------------------------------------------------------------------------
(* The inductive invariant.                                                *)

\* Damage only comes from Rot.
Undamaged == ~rotted => \A k \in Key : nvs[k] # Damaged

\* The keys before eraseIdx are gone and the marker is still there.
ErasingInOrder ==
    at = "erase" => /\ nvs["reset"] = Marker
                    /\ eraseIdx \in 1 .. 6
                    /\ \A i \in 1 .. 6 : i < eraseIdx => nvs[ResetKeys[i]] = Missing

\* Settings are read and used only when no reset is pending.
NoPendingReset == at \in InService \cup {"load"} => nvs["reset"] = Missing

ServiceState ==
    /\ at \in InService => state # "Corrupt"
    /\ at = "handoff" => nvs["enroll"] \in InstallKey
    /\ at \in {"idle", "stageRef", "promoteErase"} => nvs["enroll"] # Missing

\* Between the two writes of stage the record is stored and nothing refers to
\* a setting; between those of promote both references name the trial.
MidStage ==
    at = "stageRef" =>
        /\ state = "Empty"
        /\ nvs["active"] = Missing /\ nvs["trial"] = Missing
        /\ ValidRef(selected)
        /\ selected.rec.rev = HighestRevision

MidPromote ==
    at = "promoteErase" =>
        /\ state = "Trial"
        /\ ValidRef(selected) /\ config = selected.rec
        /\ nvs["active"] = selected /\ nvs["trial"] = selected
        /\ revision = HighestRevision

IInv ==
    /\ TypeOK
    /\ Undamaged
    /\ CleanStorageLoads
    /\ ErasingInOrder
    /\ NoPendingReset
    /\ RamMatchesDurable
    /\ ConfiguredIsEnrolled
    /\ ServiceState
    /\ MidStage
    /\ MidPromote

\* A trial in service is the one the storage holds.
LEMMA TrialAtIdle ==
    ASSUME IInv, at = "idle", state = "Trial"
    PROVE  /\ nvs["active"] = Missing /\ nvs["trial"] = selected
           /\ ValidRef(selected) /\ selected \in Reference
           /\ config = selected.rec /\ revision = HighestRevision
           /\ nvs["enroll"] # Missing
  <1>1. LoadedState = "Trial" /\ config = LoadedRef.rec /\ selected = LoadedRef
        /\ revision = HighestRevision
    BY DEF IInv, RamMatchesDurable, InService
  <1>2. nvs["active"] = Missing /\ ValidRef(nvs["trial"])
    BY <1>1 DEF LoadedState
  <1>3. LoadedRef = nvs["trial"]
    BY <1>2 DEF LoadedRef
  <1> QED BY <1>1, <1>2, <1>3 DEF ValidRef, IInv, ServiceState

\* An empty store in service stands for storage without references.
LEMMA EmptyInService ==
    ASSUME IInv, at \in {"enroll", "handoff", "idle"}, state = "Empty"
    PROVE  /\ nvs["active"] = Missing /\ nvs["trial"] = Missing
           /\ revision = HighestRevision /\ nvs["reset"] = Missing
  <1>1. LoadedRef = Missing /\ revision = HighestRevision /\ nvs["reset"] = Missing
    BY DEF IInv, RamMatchesDurable, InService
  <1> QED BY <1>1 DEF LoadedRef

\* Every action keeps the type invariant; saving and adopting need the
\* strengthened one.
LEMMA TypeStep == IInv /\ [Next]_vars => TypeOK'
  <1> SUFFICES ASSUME IInv, [Next]_vars PROVE TypeOK'
    OBVIOUS
  <1>a. TypeOK /\ NvsOK(nvs)
    BY DEF IInv, TypeOK, NvsOK
  <1>b. 0 \in 0 .. MaxRevision
    BY RevisionAssumption
  <1>1. CASE PowerCut
    <2>1. NvsOK(nvs') /\ printed' \subseteq InstallKey /\ rotted' \in BOOLEAN
      BY <1>1, <1>a DEF PowerCut, TypeOK
    <2>2. policy' \in [enabled : BOOLEAN, healthy : BOOLEAN]
      BY <1>1 DEF PowerCut
    <2>3. resetAsked' \in BOOLEAN
      BY <1>1, Zenon DEF PowerCut
    <2>5. at' \in Points /\ eraseIdx' \in 0 .. 6
      BY <1>1 DEF PowerCut, Points
    <2>4. /\ state' \in {"Empty", "Trial", "Active", "Corrupt"}
          /\ config' \in Record \cup {Missing} /\ selected' \in Reference \cup {Missing}
          /\ nextSlot' \in Slot /\ revision' \in 0 .. MaxRevision
      BY <1>1, <1>b DEF PowerCut, Slot
    <2> QED BY <2>1, <2>2, <2>3, <2>4, <2>5 DEF TypeOK, NvsOK
  <1>2. CASE \E k \in Key : Rot(k)
    <2> PICK k \in Key : Rot(k)
      BY <1>2
    <2>1. CheckedWrite(k, Damaged, TRUE) /\ Damaged \in Content(k)
      BY DEF Rot, CheckedWrite, Content
    <2>2. NvsOK(nvs')
      BY <1>a, <2>1, WriteKeepsType
    <2> QED BY <1>a, <2>2 DEF Rot, TypeOK, NvsOK, boot, store
  <1>3. CASE \E asked \in BOOLEAN : PowerOn(asked)
    BY <1>3, <1>a DEF PowerOn, TypeOK, Points, boot, store
  <1>4. CASE \E pending \in BOOLEAN : GateReset(pending)
    BY <1>4, <1>a DEF GateReset, Fail, TypeOK, Points, boot, store
  <1>5. CASE ResumeReset
    BY <1>5, <1>a DEF ResumeReset, Fail, TypeOK, Points, boot, store
  <1>6. CASE \E read \in BOOLEAN : Load(read)
    <2> PICK read \in BOOLEAN : Load(read)
      BY <1>6
    <2>1. NvsOK(nvs') /\ boot' = boot /\ printed' = printed /\ rotted' = rotted
      BY <1>a DEF Load
    <2>2. CASE Fail /\ state' = "Corrupt" /\ config' = Missing
               /\ UNCHANGED <<revision, nextSlot, selected, policy>>
      BY <1>a, <2>1, <2>2 DEF Fail, TypeOK, NvsOK, Points, boot
    <2>3. CASE LoadedState # "Corrupt" /\ at' = "enroll" /\ state' = LoadedState
      <3>1. /\ revision' = HighestRevision /\ nextSlot' = FreeSlot
            /\ config' = IF LoadedState = "Empty" THEN Missing ELSE LoadedRef.rec
            /\ selected' = IF LoadedState = "Empty" THEN selected ELSE LoadedRef
            /\ policy' = [enabled |-> read /\ nvs["ghauto"] = On,
                          healthy |-> read /\ nvs["ghauto"] \in {Missing, On, Off}]
        BY <2>3 DEF Load, Fail
      <3>2. policy' \in [enabled : BOOLEAN, healthy : BOOLEAN]
        BY <3>1
      <3>3. config' \in Record \cup {Missing} /\ selected' \in Reference \cup {Missing}
        BY <1>a, <2>3, <3>1, LoadedType DEF TypeOK
      <3> QED BY <1>a, <2>1, <2>3, <3>1, <3>2, <3>3, LoadedType DEF TypeOK, NvsOK, Points, boot
    <2> QED BY <2>2, <2>3 DEF Load
  <1>7. CASE ReuseKey
    BY <1>7, <1>a DEF ReuseKey, Fail, TypeOK, Points, boot, store
  <1>8. CASE HandOffKey
    <2>1. nvs["enroll"] \in InstallKey
      BY <1>8 DEF HandOffKey, IInv, ServiceState
    <2> QED BY <1>8, <1>a, <2>1 DEF HandOffKey, TypeOK, Points, boot, store
  <1>9. CASE PromoteErase
    <2>1. NvsOK(nvs')
      <3>1. CheckedWrite("trial", Missing, FALSE) /\ Missing \in Content("trial")
        BY <1>9 DEF PromoteErase, UncheckedErase, CheckedWrite, Content
      <3> QED BY <1>a, <3>1, BlobOf, WriteKeepsType
    <2> QED BY <1>9, <1>a, <2>1 DEF PromoteErase, TypeOK, NvsOK, Points, boot
  <1>10. CASE MisusedTrial \/ NetworkFault
    BY <1>10, <1>a DEF MisusedTrial, NetworkFault, Fail, TypeOK, Points, boot, store
  <1>11. ASSUME NEW ok \in BOOLEAN, MarkReset(ok) PROVE TypeOK'
    <2>1. NvsOK(nvs')
      BY <1>a, <1>11, BlobOf, WriteKeepsType DEF MarkReset, Content
    <2> QED BY <1>11, <1>a, <2>1 DEF MarkReset, TypeOK, NvsOK, Points, boot
  <1>12. ASSUME NEW ok \in BOOLEAN, EraseNext(ok) PROVE TypeOK'
    <2>1. eraseIdx \in 1 .. 6
      BY <1>12 DEF EraseNext, IInv, ErasingInOrder
    <2>2. ResetKeys[eraseIdx] \in Key
      BY <2>1, Keys DEF ResetKeys
    <2>3. CheckedWrite(ResetKeys[eraseIdx], Missing, ok) /\ Missing \in Content(ResetKeys[eraseIdx])
      BY <1>12 DEF EraseNext, CheckedErase, Content
    <2>4. NvsOK(nvs')
      BY <1>a, <2>2, <2>3, WriteKeepsType
    <2>5. /\ resetAsked' = resetAsked /\ policy' = policy
          /\ printed' = printed /\ rotted' = rotted
      BY <1>12 DEF EraseNext
    <2>6. CASE ~ok /\ Fail /\ UNCHANGED <<eraseIdx, store>>
      BY <1>a, <2>4, <2>5, <2>6 DEF Fail, TypeOK, NvsOK, Points, store
    <2>7. CASE eraseIdx < 6 /\ eraseIdx' = eraseIdx + 1 /\ UNCHANGED <<at, store>>
      <3>1. eraseIdx' \in 0 .. 6
        BY <2>1, <2>7
      <3> QED BY <1>a, <2>4, <2>5, <2>7, <3>1 DEF TypeOK, NvsOK, store
    <2>8. CASE /\ at' = "load" /\ eraseIdx' = 0 /\ state' = "Empty" /\ config' = Missing
               /\ revision' = 0 /\ nextSlot' = 0 /\ selected' = Missing
      BY <1>a, <1>b, <2>4, <2>5, <2>8 DEF TypeOK, NvsOK, Points, Slot
    <2> QED BY <1>12, <2>6, <2>7, <2>8 DEF EraseNext
  <1>13. ASSUME NEW ok \in BOOLEAN, NEW key \in InstallKey, CreateKey(key, ok) PROVE TypeOK'
    <2>1. NvsOK(nvs')
      BY <1>a, <1>13, BlobOf, WriteKeepsType DEF CreateKey, MayEnroll, Content
    <2> QED BY <1>13, <1>a, <2>1 DEF CreateKey, MayEnroll, TypeOK, NvsOK, Points, boot, store
  <1>14. ASSUME NEW ok \in BOOLEAN, NEW cred \in Cred, StageRecord(cred, ok) PROVE TypeOK'
    <2>1. /\ nextSlot \in Slot /\ selected' = Staged(cred) /\ selected' \in Reference
          /\ Staged(cred).rec \in Record
      BY <1>14, <1>a, StagedType DEF StageRecord, MayStage, TypeOK
    <2>2. NvsOK(nvs')
      BY <1>a, <1>14, <2>1, BlobOf, WriteKeepsType DEF StageRecord, MayStage, Content
    <2> QED BY <1>14, <1>a, <2>1, <2>2 DEF StageRecord, MayStage, Fail, TypeOK, NvsOK, Points, boot
  <1>15. ASSUME NEW ok \in BOOLEAN, StageReference(ok) PROVE TypeOK'
    <2>1. selected \in Reference
      BY <1>15 DEF StageReference, IInv, MidStage, ValidRef
    <2>2. NvsOK(nvs')
      BY <1>a, <1>15, <2>1, BlobOf, WriteKeepsType DEF StageReference, Content
    <2>3. selected.rec \in Record /\ selected.rec.rev \in 0 .. MaxRevision
      <3>1. selected.rec \in [rev : 1 .. MaxRevision, cred : Cred]
        BY <2>1 DEF Reference, Record
      <3>2. selected.rec.rev \in 1 .. MaxRevision
        BY <3>1
      <3> QED BY <3>1, <3>2, RevisionAssumption DEF Record
    <2> QED BY <1>15, <1>a, <2>2, <2>3 DEF StageReference, Fail, TypeOK, NvsOK, Points, boot
  <1>16. ASSUME NEW ok \in BOOLEAN, PromoteWrite(ok) PROVE TypeOK'
    <2>1. selected \in Content("active")
      BY <1>16, <1>a, BlobOf DEF PromoteWrite, TypeOK, Content
    <2>2. NvsOK(nvs')
      BY <1>a, <1>16, <2>1, BlobOf, WriteKeepsType DEF PromoteWrite
    <2> QED BY <1>16, <1>a, <2>2 DEF PromoteWrite, Fail, TypeOK, NvsOK, Points, boot
  <1>17. ASSUME NEW ok \in BOOLEAN, DiscardTrial(ok) PROVE TypeOK'
    <2>1. NvsOK(nvs')
      BY <1>a, <1>17, BlobOf, WriteKeepsType DEF DiscardTrial, CheckedErase, Content
    <2>2. selected \in Reference
      BY <1>17, TrialAtIdle DEF DiscardTrial
    <2>3. 1 - selected.slot \in Slot
      BY <2>2 DEF Reference, Slot
    <2> QED BY <1>17, <1>a, <2>1, <2>3 DEF DiscardTrial, Fail, TypeOK, NvsOK, Points, boot
  <1>18. ASSUME NEW ok \in BOOLEAN, NEW enabled \in BOOLEAN, SavePolicy(enabled, ok)
         PROVE  TypeOK'
    <2>1. NvsOK(nvs')
      BY <1>a, <1>18, BlobOf, WriteKeepsType DEF SavePolicy, PolicyAfter, Content
    <2>2. policy' \in [enabled : BOOLEAN, healthy : BOOLEAN]
      BY <1>18 DEF SavePolicy, PolicyAfter
    <2> QED BY <1>18, <1>a, <2>1, <2>2 DEF SavePolicy, PolicyAfter, TypeOK, NvsOK, boot, store
  <1>19. CASE UNCHANGED vars
    BY <1>19, <1>a DEF vars, boot, store, TypeOK
  <1> QED
    BY <1>1, <1>2, <1>3, <1>4, <1>5, <1>6, <1>7, <1>8, <1>9, <1>10, <1>11, <1>12, <1>13,
       <1>14, <1>15, <1>16, <1>17, <1>18, <1>19 DEF Next

-----------------------------------------------------------------------------
(* The other parts of the invariant: what they say of the storage, and what *)
(* they say of the point the main task is at.                               *)

StoragePart == Undamaged /\ CleanStorageLoads /\ ConfiguredIsEnrolled
ControlPart == /\ ErasingInOrder /\ NoPendingReset /\ RamMatchesDurable
               /\ ServiceState /\ MidStage /\ MidPromote

\* As long as nothing rotted, a slot is empty or holds a record.
LEMMA UndamagedSlots ==
    ASSUME TypeOK, Undamaged, ~rotted
    PROVE  \A k \in SlotKeys : nvs[k] \in Record \cup {Missing}
  BY SlotBlob DEF TypeOK, Undamaged, Content

\* No setting and no reset is in use at the points outside service.
LEMMA OutsideService ==
    ASSUME at' \notin InService \cup {"load", "erase"}
    PROVE  ControlPart'
  BY DEF ControlPart, ErasingInOrder, NoPendingReset, RamMatchesDurable, ServiceState,
         MidStage, MidPromote, InService

\* An action that touches neither flash nor wear keeps what is said of them.
LEMMA StorageUntouched ==
    ASSUME IInv, nvs' = nvs, rotted' = rotted
    PROVE  StoragePart'
  <1>1. LoadedState' = LoadedState
    BY SameReading
  <1> QED BY <1>1 DEF IInv, StoragePart, Undamaged, CleanStorageLoads, ConfiguredIsEnrolled

\* Writing a blob or erasing a key brings no damage.
LEMMA WriteUndamaged ==
    ASSUME IInv, NEW k \in Key, NEW v \in Blob(k) \cup {Missing}, NEW ok \in BOOLEAN,
           CheckedWrite(k, v, ok), rotted' = rotted
    PROVE  Undamaged'
  <1>1. v # Damaged
    BY BlobAssumption
  <1> QED BY <1>1, WriteEffect DEF IInv, TypeOK, NvsOK, Undamaged

\* A write to a key that load() does not look at.
LEMMA UnreadWrite ==
    ASSUME IInv, NEW k \in {"ghauto", "enroll"}, NEW v \in Blob(k), NEW ok \in BOOLEAN,
           CheckedWrite(k, v, ok), rotted' = rotted
    PROVE  /\ StoragePart' /\ LoadedState' = LoadedState /\ LoadedRef' = LoadedRef
           /\ HighestRevision' = HighestRevision
           /\ nvs'["reset"] = nvs["reset"] /\ nvs'["ghauto"] \in {v, nvs["ghauto"]}
           /\ nvs'["enroll"] \in {v, nvs["enroll"]} /\ ok => nvs'[k] = v
           /\ k = "ghauto" => nvs'["enroll"] = nvs["enroll"]
  <1>0. k \in Key /\ NvsOK(nvs)
    BY Keys DEF IInv, TypeOK, NvsOK
  <1>1. /\ \A j \in Key : j # k => nvs'[j] = nvs[j]
        /\ nvs'[k] \in {v, nvs[k]} /\ (ok => nvs'[k] = v)
    BY <1>0, WriteEffect
  <1>2. /\ nvs'["cfgA"] = nvs["cfgA"] /\ nvs'["cfgB"] = nvs["cfgB"]
        /\ nvs'["active"] = nvs["active"] /\ nvs'["trial"] = nvs["trial"]
        /\ nvs'["reset"] = nvs["reset"]
    BY <1>1, Keys
  <1>3. LoadedState' = LoadedState /\ LoadedRef' = LoadedRef
        /\ HighestRevision' = HighestRevision
    BY <1>2, SameReading
  <1>4. v # Missing
    BY <1>0, BlobAssumption
  <1>5. nvs'["enroll"] \in {v, nvs["enroll"]} /\ nvs'["ghauto"] \in {v, nvs["ghauto"]}
        /\ (k = "ghauto" => nvs'["enroll"] = nvs["enroll"])
    BY <1>1, Keys
  <1>6. Undamaged'
    BY <1>0, WriteUndamaged
  <1>7. CleanStorageLoads'
    BY <1>2, <1>3 DEF IInv, CleanStorageLoads
  <1>8. ConfiguredIsEnrolled'
    BY <1>2, <1>4, <1>5 DEF IInv, ConfiguredIsEnrolled
  <1> QED BY <1>1, <1>2, <1>3, <1>5, <1>6, <1>7, <1>8 DEF StoragePart

\* Boot: nothing is written, and nothing is used before load() has read it.
LEMMA BootSteps ==
    ASSUME IInv,
           \/ PowerCut
           \/ \E k \in Key : Rot(k)
           \/ \E asked \in BOOLEAN : PowerOn(asked)
           \/ \E pending \in BOOLEAN : GateReset(pending)
           \/ ResumeReset
           \/ \E read \in BOOLEAN : Load(read)
           \/ MisusedTrial
           \/ NetworkFault
    PROVE  StoragePart' /\ ControlPart'
  <1>1. CASE PowerCut
    BY <1>1, StorageUntouched, OutsideService DEF PowerCut, InService
  <1>2. CASE \E k \in Key : Rot(k)
    <2> PICK k \in Key : Rot(k)
      BY <1>2
    <2>1. at' = "off" /\ rotted' = TRUE
      BY DEF Rot, IInv
    <2>2. ControlPart'
      BY <2>1, OutsideService DEF InService
    <2>3. \A j \in Key : nvs'[j] = Missing <=> nvs[j] = Missing
      BY Distinct DEF Rot, Put, IInv, TypeOK
    <2>4. ConfiguredIsEnrolled'
      BY <2>3, Keys DEF IInv, ConfiguredIsEnrolled
    <2> QED BY <2>1, <2>2, <2>4 DEF StoragePart, Undamaged, CleanStorageLoads
  <1>3. CASE \E asked \in BOOLEAN : PowerOn(asked)
    BY <1>3, StorageUntouched, OutsideService DEF PowerOn, InService
  <1>4. CASE \E pending \in BOOLEAN : GateReset(pending)
    BY <1>4, StorageUntouched, OutsideService DEF GateReset, Fail, InService
  <1>5. CASE ResumeReset
    <2>1. StoragePart'
      BY <1>5, StorageUntouched DEF ResumeReset
    <2>2. CASE Fail
      BY <2>1, <2>2, OutsideService DEF Fail, InService
    <2>3. CASE nvs["reset"] = Missing /\ at' = "load"
      BY <1>5, <2>1, <2>3 DEF ResumeReset, ControlPart, ErasingInOrder, NoPendingReset,
         RamMatchesDurable, ServiceState, MidStage, MidPromote, InService
    <2>4. CASE nvs["reset"] = Marker /\ at' = "erase" /\ eraseIdx' = 1
      <3>1. ErasingInOrder'
        BY <1>5, <2>4 DEF ResumeReset, ErasingInOrder
      <3> QED BY <2>1, <2>4, <3>1 DEF ControlPart, NoPendingReset,
             RamMatchesDurable, ServiceState, MidStage, MidPromote, InService
    <2> QED BY <1>5, <2>2, <2>3, <2>4 DEF ResumeReset
  <1>6. CASE \E read \in BOOLEAN : Load(read)
    <2> PICK read \in BOOLEAN : Load(read)
      BY <1>6
    <2>1. StoragePart'
      BY StorageUntouched DEF Load
    <2>2. CASE Fail
      BY <2>1, <2>2, OutsideService DEF Fail, InService
    <2>3. CASE ~Fail
      <3>1. /\ nvs' = nvs /\ rotted' = rotted /\ at' = "enroll" /\ nvs["reset"] = Missing
            /\ LoadedState # "Corrupt" /\ state' = LoadedState /\ revision' = HighestRevision
            /\ config' = IF LoadedState = "Empty" THEN Missing ELSE LoadedRef.rec
            /\ selected' = IF LoadedState = "Empty" THEN selected ELSE LoadedRef
        BY <2>3 DEF Load, IInv, NoPendingReset
      <3>2. LoadedState' = LoadedState /\ LoadedRef' = LoadedRef
            /\ HighestRevision' = HighestRevision
        BY <3>1, SameReading
      <3>3. LoadedState = "Empty" => LoadedRef = Missing
        BY DEF LoadedState, LoadedRef
      <3>4. RamMatchesDurable'
        BY <3>1, <3>2, <3>3 DEF RamMatchesDurable
      <3> QED BY <2>1, <3>1, <3>4 DEF ControlPart, ErasingInOrder, NoPendingReset,
             ServiceState, MidStage, MidPromote, InService
    <2> QED BY <2>2, <2>3
  <1>7. CASE MisusedTrial \/ NetworkFault
    BY <1>7, StorageUntouched, OutsideService DEF MisusedTrial, NetworkFault, Fail, InService
  <1> QED BY <1>1, <1>2, <1>3, <1>4, <1>5, <1>6, <1>7

\* Enrollment and the automatic policy touch keys that load() does not read.
LEMMA SideKeySteps ==
    ASSUME IInv,
           \/ ReuseKey
           \/ \E ok \in BOOLEAN, key \in InstallKey : CreateKey(key, ok)
           \/ HandOffKey
           \/ \E ok \in BOOLEAN, enabled \in BOOLEAN : SavePolicy(enabled, ok)
    PROVE  StoragePart' /\ ControlPart'
  <1>a. ASSUME at \in {"enroll", "handoff", "idle"}, at' \in {"handoff", "idle"},
               store' = store, rotted' = rotted, nvs'["reset"] = nvs["reset"],
               LoadedState' = LoadedState, LoadedRef' = LoadedRef,
               HighestRevision' = HighestRevision, nvs'["enroll"] \in InstallKey
        PROVE  ControlPart'
    <2>1. RamMatchesDurable' /\ NoPendingReset'
      BY <1>a DEF IInv, RamMatchesDurable, NoPendingReset, InService, store
    <2>2. ServiceState'
      BY <1>a, Distinct DEF IInv, ServiceState, InService, store
    <2> QED BY <1>a, <2>1, <2>2 DEF ControlPart, ErasingInOrder, MidStage, MidPromote
  <1>1. CASE ReuseKey
    <2>1. StoragePart'
      BY <1>1, StorageUntouched DEF ReuseKey
    <2>2. CASE Fail
      BY <2>1, <2>2, OutsideService DEF Fail, InService
    <2>3. CASE nvs["enroll"] \in InstallKey /\ at' = "idle"
      <3>1. /\ LoadedState' = LoadedState /\ LoadedRef' = LoadedRef
            /\ HighestRevision' = HighestRevision
        BY <1>1, SameReading DEF ReuseKey
      <3> QED BY <1>1, <1>a, <2>1, <2>3, <3>1 DEF ReuseKey
    <2> QED BY <1>1, <2>2, <2>3 DEF ReuseKey
  <1>2. ASSUME NEW ok \in BOOLEAN, NEW key \in InstallKey, CreateKey(key, ok)
        PROVE  StoragePart' /\ ControlPart'
    <2>0. key \in Blob("enroll") /\ CheckedWrite("enroll", key, ok) /\ rotted' = rotted
      BY <1>2, BlobOf DEF CreateKey, MayEnroll
    <2>1. /\ StoragePart' /\ LoadedState' = LoadedState /\ LoadedRef' = LoadedRef
          /\ HighestRevision' = HighestRevision
          /\ nvs'["reset"] = nvs["reset"]
      BY <2>0, UnreadWrite
    <2>4. ok => nvs'["enroll"] = key
      BY <2>0, BlobOf, WriteEffect DEF IInv, TypeOK, NvsOK
    <2>2. CASE ok
      BY <1>2, <1>a, <2>1, <2>2, <2>4 DEF CreateKey, MayEnroll
    <2>3. CASE ~ok
      BY <1>2, <2>1, <2>3, OutsideService DEF CreateKey, MayEnroll, InService
    <2> QED BY <2>2, <2>3
  <1>3. CASE HandOffKey
    <2>1. StoragePart'
      BY <1>3, StorageUntouched DEF HandOffKey
    <2>2. /\ LoadedState' = LoadedState /\ LoadedRef' = LoadedRef
          /\ HighestRevision' = HighestRevision
      BY <1>3, SameReading DEF HandOffKey
    <2>3. nvs["enroll"] \in InstallKey
      BY <1>3 DEF HandOffKey, IInv, ServiceState
    <2> QED BY <1>3, <1>a, <2>1, <2>2, <2>3 DEF HandOffKey
  <1>4. ASSUME NEW ok \in BOOLEAN, NEW enabled \in BOOLEAN, SavePolicy(enabled, ok)
        PROVE  StoragePart' /\ ControlPart'
    <2> DEFINE v == IF enabled THEN On ELSE Off
    <2>0. v \in Blob("ghauto") /\ CheckedWrite("ghauto", v, ok) /\ rotted' = rotted
      BY <1>4, BlobOf DEF SavePolicy, PolicyAfter
    <2> HIDE DEF v
    <2>1. /\ StoragePart' /\ LoadedState' = LoadedState /\ LoadedRef' = LoadedRef
          /\ HighestRevision' = HighestRevision
          /\ nvs'["reset"] = nvs["reset"] /\ nvs'["enroll"] = nvs["enroll"]
      BY <2>0, UnreadWrite
    <2>2. at = "idle" /\ at' = "idle" /\ store' = store /\ rotted' = rotted
      BY <1>4 DEF SavePolicy, PolicyAfter
    <2>3. RamMatchesDurable' /\ NoPendingReset' /\ ServiceState'
      BY <2>1, <2>2 DEF IInv, RamMatchesDurable, NoPendingReset, ServiceState, InService, store
    <2> QED BY <2>1, <2>2, <2>3 DEF ControlPart, ErasingInOrder, MidStage, MidPromote
  <1> QED BY <1>1, <1>2, <1>3, <1>4

\* An undamaged store without references is empty, whatever the slots hold.
LEMMA NoReferencesNext ==
    ASSUME TypeOK', Undamaged', nvs'["active"] = Missing, nvs'["trial"] = Missing
    PROVE  /\ LoadedRef' = Missing /\ LoadedState' \in {"Empty", "Corrupt"}
           /\ ~rotted' => LoadedState' = "Empty"
  <1>1. ~rotted' => \A k \in SlotKeys : nvs'[k] \in Record \cup {Missing}
    BY SlotBlob DEF TypeOK, Undamaged, Content
  <1> QED BY <1>1 DEF LoadedState, LoadedRef

\* The reset: its marker goes last, and an erased reference is never read.
LEMMA ResetSteps ==
    ASSUME IInv, TypeOK', NEW ok \in BOOLEAN, MarkReset(ok) \/ EraseNext(ok)
    PROVE  StoragePart' /\ ControlPart'
  <1>a. NvsOK(nvs)
    BY DEF IInv, TypeOK, NvsOK
  <1>1. CASE MarkReset(ok)
    <2>1. CheckedWrite("reset", Marker, ok) /\ rotted' = rotted
      BY <1>1 DEF MarkReset
    <2>2. /\ nvs'["cfgA"] = nvs["cfgA"] /\ nvs'["cfgB"] = nvs["cfgB"]
          /\ nvs'["active"] = nvs["active"] /\ nvs'["trial"] = nvs["trial"]
          /\ nvs'["enroll"] = nvs["enroll"] /\ nvs'["reset"] \in {Marker, nvs["reset"]}
      BY <1>a, <2>1, WriteEffect, Keys
    <2>3. LoadedState' = LoadedState
      BY <2>2, SameReading
    <2>4. Undamaged'
      BY <2>1, BlobOf, WriteUndamaged
    <2>5. StoragePart'
      BY <2>1, <2>2, <2>3, <2>4, Distinct
         DEF IInv, StoragePart, CleanStorageLoads, ConfiguredIsEnrolled
    <2> QED BY <1>1, <2>5, OutsideService DEF MarkReset, InService
  <1>2. CASE EraseNext(ok)
    <2>1. /\ eraseIdx \in 1 .. 6 /\ nvs["reset"] = Marker
          /\ \A i \in 1 .. 6 : i < eraseIdx => nvs[ResetKeys[i]] = Missing
      BY <1>2 DEF EraseNext, IInv, ErasingInOrder
    <2> DEFINE k == ResetKeys[eraseIdx]
    <2>2. k \in Key /\ k # "enroll" /\ (k = "reset" <=> eraseIdx = 6)
      BY <2>1, Keys DEF ResetKeys
    <2>3. CheckedWrite(k, Missing, ok) /\ rotted' = rotted
      BY <1>2 DEF EraseNext, CheckedErase
    <2> HIDE DEF k
    <2>4. /\ \A j \in Key : j # k => nvs'[j] = nvs[j]
          /\ nvs'[k] \in {Missing, nvs[k]} /\ (ok => nvs'[k] = Missing)
      BY <1>a, <2>2, <2>3, WriteEffect
    <2>5. Undamaged'
      BY <2>2, <2>3, WriteUndamaged
    <2>6. ConfiguredIsEnrolled'
      BY <2>2, <2>4, Keys DEF IInv, ConfiguredIsEnrolled
    <2>7. eraseIdx < 6 => nvs'["reset"] = Marker
      BY <2>1, <2>2, <2>4, Keys
    <2>8. eraseIdx = 6 => \A j \in {"active", "trial", "cfgA", "cfgB", "ghauto"} : nvs'[j] = Missing
      <3>1. ASSUME eraseIdx = 6 PROVE
               /\ nvs[ResetKeys[1]] = Missing /\ nvs[ResetKeys[2]] = Missing
               /\ nvs[ResetKeys[3]] = Missing /\ nvs[ResetKeys[4]] = Missing
               /\ nvs[ResetKeys[5]] = Missing
        BY <2>1, <3>1
      <3> QED BY <2>2, <2>4, <3>1, Keys DEF ResetKeys
    <2>9. CleanStorageLoads'
      <3>1. CASE eraseIdx < 6
        BY <2>7, <3>1, Distinct DEF CleanStorageLoads
      <3>2. CASE eraseIdx = 6
        BY <2>5, <2>8, <3>2, NoReferencesNext DEF CleanStorageLoads
      <3> QED BY <2>1, <3>1, <3>2
    <2>10. StoragePart'
      BY <2>5, <2>6, <2>9 DEF StoragePart
    <2>11. CASE ~ok /\ Fail
      BY <2>10, <2>11, OutsideService DEF Fail, InService
    <2>12. CASE ok /\ eraseIdx < 6 /\ eraseIdx' = eraseIdx + 1 /\ at' = at
      <3>1. at' = "erase"
        BY <1>2, <2>12 DEF EraseNext
      <3>2. ErasingInOrder'
        <4>1. eraseIdx' \in 1 .. 6
          BY <2>1, <2>12
        <4>2. ASSUME NEW i \in 1 .. 6, i < eraseIdx' PROVE nvs'[ResetKeys[i]] = Missing
          <5>1. ResetKeys[i] \in Key
            BY Keys DEF ResetKeys
          <5>2. i < eraseIdx \/ i = eraseIdx
            BY <2>1, <2>12, <4>2
          <5>3. CASE i < eraseIdx
            BY <2>1, <2>4, <5>1, <5>3
          <5>4. CASE i = eraseIdx
            BY <2>4, <2>12, <5>4 DEF k
          <5> QED BY <5>2, <5>3, <5>4
        <4> QED BY <2>7, <2>12, <4>1, <4>2 DEF ErasingInOrder
      <3> QED BY <2>10, <3>1, <3>2 DEF ControlPart, NoPendingReset,
             RamMatchesDurable, ServiceState, MidStage, MidPromote, InService
    <2>13. CASE ok /\ eraseIdx = 6 /\ at' = "load"
      <3>1. nvs'["reset"] = Missing
        BY <2>2, <2>4, <2>13
      <3> QED BY <2>10, <2>13, <3>1 DEF ControlPart, ErasingInOrder, NoPendingReset,
             RamMatchesDurable, ServiceState, MidStage, MidPromote, InService
    <2> QED BY <1>2, <2>11, <2>12, <2>13 DEF EraseNext
  <1> QED BY <1>1, <1>2

\* A write to one of the references leaves the records alone.
LEMMA ReferenceWrite ==
    ASSUME IInv, NEW k \in {"active", "trial"}, NEW v \in Reference \cup {Missing},
           NEW ok \in BOOLEAN, CheckedWrite(k, v, ok), rotted' = rotted
    PROVE  /\ Undamaged' /\ nvs'[k] \in {v, nvs[k]} /\ (ok => nvs'[k] = v)
           /\ nvs'["reset"] = nvs["reset"] /\ nvs'["enroll"] = nvs["enroll"]
           /\ k = "active" => nvs'["trial"] = nvs["trial"]
           /\ k = "trial" => nvs'["active"] = nvs["active"]
           /\ \A r : ValidRef(r)' <=> ValidRef(r)
           /\ HighestRevision' = HighestRevision
  <1>0. NvsOK(nvs) /\ k \in Key /\ v \in Blob(k) \cup {Missing}
    BY BlobOf DEF IInv, TypeOK, NvsOK
  <1>1. /\ \A j \in Key : j # k => nvs'[j] = nvs[j]
        /\ nvs'[k] \in {v, nvs[k]} /\ (ok => nvs'[k] = v)
    BY <1>0, WriteEffect
  <1>2. Undamaged'
    BY <1>0, WriteUndamaged
  <1>3. nvs'["cfgA"] = nvs["cfgA"] /\ nvs'["cfgB"] = nvs["cfgB"]
    BY <1>1, Keys
  <1> QED BY <1>1, <1>2, <1>3, SameReading, Keys

\* The record that stage stores, if it is stored, becomes the newest one.
LEMMA StoredRecord ==
    ASSUME IInv, at = "idle", state = "Empty", revision < MaxRevision,
           NEW cred \in Cred, NEW ok \in BOOLEAN, StageRecord(cred, ok)
    PROVE  /\ \A j \in {"active", "trial", "reset", "enroll"} : nvs'[j] = nvs[j]
           /\ Undamaged'
           /\ \/ ~ok /\ nvs' = nvs
              \/ /\ ValidRef(selected)' /\ selected'.rec.rev = HighestRevision'
                 /\ HighestRevision' = HighestRevision + 1
  <1>0. NvsOK(nvs) /\ TypeOK /\ nextSlot \in Slot /\ rotted' = rotted
    BY DEF IInv, TypeOK, NvsOK, StageRecord, MayStage
  <1>1. /\ Staged(cred) \in Reference /\ Staged(cred).rec \in Record
        /\ Staged(cred).slot = nextSlot /\ Staged(cred).rec.rev = revision + 1
        /\ selected' = Staged(cred)
    BY <1>0, StagedType DEF Staged, StageRecord, MayStage
  <1> PICK s \in Slot : s = nextSlot
    BY <1>0
  <1> DEFINE k == SlotKey(s)
             rec == Staged(cred).rec
  <1>2. k \in Key /\ rec \in Blob(k) \cup {Missing} /\ k \in SlotKeys
    BY <1>0, <1>1, BlobOf DEF SlotKey, SlotKeys
  <1>3. CheckedWrite(k, rec, ok)
    BY DEF StageRecord, MayStage
  <1> HIDE DEF k, rec
  <1>4. \A j \in Key : j # k => nvs'[j] = nvs[j]
    BY <1>0, <1>2, <1>3, WriteEffect
  <1>5. Undamaged'
    BY <1>0, <1>2, <1>3, WriteUndamaged
  <1>6. \A j \in {"active", "trial", "reset", "enroll"} : nvs'[j] = nvs[j]
    BY <1>2, <1>4, Keys DEF SlotKeys
  <1>7. (~ok /\ nvs' = nvs) \/ nvs'[k] = rec
    BY <1>0, <1>2, <1>3 DEF CheckedWrite, Put, NvsOK
  <1>8. ASSUME nvs'[k] = rec
        PROVE  /\ ValidRef(selected)' /\ selected'.rec.rev = HighestRevision'
               /\ HighestRevision' = HighestRevision + 1
    <2>1. nvs'[SlotKey(s)] = rec
      BY <1>8 DEF k
    <2>2. ValidRef(selected)'
      BY <1>1, <2>1 DEF ValidRef, rec
    <2>3. revision = HighestRevision /\ \A t \in Slot : SlotRevision(t) \in 0 .. MaxRevision
      BY <1>0, EmptyInService, LoadedType
    <2>4. SlotRevision(0) <= revision /\ SlotRevision(1) <= revision
      BY <2>3, RevisionAssumption DEF HighestRevision, NewestSlot, Slot, SlotRevision
    <2>5. nvs'[SlotKey(1 - s)] = nvs[SlotKey(1 - s)]
      BY <1>0, <1>4, Keys DEF k, SlotKey, Slot
    <2>6. ValidSlot(s)' /\ SlotRevision(s)' = revision + 1
      BY <1>0, <1>1, <2>1 DEF ValidSlot, SlotRevision, rec
    <2>7. SlotRevision(1 - s)' = SlotRevision(1 - s)
      BY <2>5 DEF ValidSlot, SlotRevision
    <2>8. revision \in Nat
      BY <1>0, RevisionAssumption DEF TypeOK
    <2>9. HighestRevision' = revision + 1
      <3>1. CASE s = 0
        BY <2>3, <2>4, <2>6, <2>7, <2>8, <3>1 DEF HighestRevision, NewestSlot, Slot
      <3>2. CASE s = 1
        BY <2>3, <2>4, <2>6, <2>7, <2>8, <3>2 DEF HighestRevision, NewestSlot, Slot
      <3> QED BY <3>1, <3>2 DEF Slot
    <2> QED BY <1>1, <2>2, <2>3, <2>9
  <1> QED BY <1>5, <1>6, <1>7, <1>8

\* Saving: the reference is written over a record that is already durable.
LEMMA StageSteps ==
    ASSUME IInv, TypeOK', NEW ok \in BOOLEAN,
           (\E cred \in Cred : StageRecord(cred, ok)) \/ StageReference(ok)
    PROVE  StoragePart' /\ ControlPart'
  <1>1. ASSUME NEW cred \in Cred, StageRecord(cred, ok) PROVE StoragePart' /\ ControlPart'
    <2>1. /\ at = "idle" /\ state = "Empty" /\ revision < MaxRevision
          /\ rotted' = rotted /\ revision' = revision
      BY <1>1 DEF StageRecord, MayStage
    <2>2. /\ nvs["active"] = Missing /\ nvs["trial"] = Missing /\ nvs["reset"] = Missing
          /\ nvs["enroll"] # Missing
      BY <2>1, EmptyInService DEF IInv, ServiceState
    <2>3. /\ \A j \in {"active", "trial", "reset", "enroll"} : nvs'[j] = nvs[j]
          /\ Undamaged'
          /\ ok => ValidRef(selected)' /\ selected'.rec.rev = HighestRevision'
      BY <1>1, <2>1, StoredRecord
    <2>4. StoragePart'
      BY <2>2, <2>3, NoReferencesNext
         DEF IInv, StoragePart, CleanStorageLoads, ConfiguredIsEnrolled
    <2>5. CASE ~ok
      BY <1>1, <2>4, <2>5, OutsideService DEF StageRecord, MayStage, Fail, InService
    <2>6. CASE ok
      <3>1. at' = "stageRef" /\ state' = "Empty"
        BY <1>1, <2>6 DEF StageRecord, MayStage
      <3> QED BY <2>2, <2>3, <2>4, <2>6, <3>1 DEF ControlPart, ErasingInOrder, NoPendingReset,
             RamMatchesDurable, ServiceState, MidStage, MidPromote, InService
    <2> QED BY <2>5, <2>6
  <1>2. CASE StageReference(ok)
    <2>1. /\ nvs["active"] = Missing /\ nvs["trial"] = Missing /\ nvs["reset"] = Missing
          /\ ValidRef(selected) /\ selected.rec.rev = HighestRevision
          /\ nvs["enroll"] # Missing
      BY <1>2 DEF StageReference, IInv, MidStage, NoPendingReset, ServiceState, InService
    <2>2. CheckedWrite("trial", selected, ok) /\ selected \in Reference
          /\ rotted' = rotted /\ selected' = selected
      BY <1>2, <2>1 DEF StageReference, ValidRef
    <2>3. /\ Undamaged' /\ nvs'["trial"] \in {selected, nvs["trial"]}
          /\ nvs'["reset"] = nvs["reset"] /\ nvs'["enroll"] = nvs["enroll"]
          /\ nvs'["active"] = nvs["active"] /\ (\A r : ValidRef(r)' <=> ValidRef(r))
          /\ HighestRevision' = HighestRevision
      BY <2>2, ReferenceWrite
    <2>4. ok => nvs'["trial"] = selected
      BY <2>2, ReferenceWrite
    <2>5. nvs'["trial"] = selected => LoadedState' = "Trial" /\ LoadedRef' = selected
      BY <2>1, <2>2, <2>3, Distinct DEF LoadedState, LoadedRef
    <2>6. nvs'["trial"] = Missing => (~rotted' => LoadedState' = "Empty")
      BY <2>1, <2>3, NoReferencesNext
    <2>7. StoragePart'
      BY <2>1, <2>3, <2>5, <2>6 DEF StoragePart, CleanStorageLoads, ConfiguredIsEnrolled
    <2>8. CASE ~ok
      BY <1>2, <2>7, <2>8, OutsideService DEF StageReference, Fail, InService
    <2>9. CASE ok
      <3>1. /\ at' = "idle" /\ state' = "Trial" /\ config' = selected.rec
            /\ revision' = selected.rec.rev
        BY <1>2, <2>9 DEF StageReference
      <3>2. RamMatchesDurable'
        BY <2>1, <2>2, <2>3, <2>4, <2>5, <2>9, <3>1 DEF RamMatchesDurable
      <3> QED BY <2>1, <2>3, <2>7, <3>1, <3>2 DEF ControlPart, ErasingInOrder, NoPendingReset,
             ServiceState, MidStage, MidPromote, InService
    <2> QED BY <2>8, <2>9
  <1> QED BY <1>1, <1>2

\* Adoption: from the write on the active reference decides, so that the trial
\* may go or stay.
LEMMA PromoteSteps ==
    ASSUME IInv, TypeOK', NEW ok \in BOOLEAN, PromoteWrite(ok) \/ PromoteErase
    PROVE  StoragePart' /\ ControlPart'
  <1>1. CASE PromoteWrite(ok)
    <2>1. /\ nvs["active"] = Missing /\ nvs["trial"] = selected /\ selected \in Reference
          /\ ValidRef(selected) /\ config = selected.rec /\ revision = HighestRevision
          /\ nvs["enroll"] # Missing /\ nvs["reset"] = Missing
      BY <1>1, TrialAtIdle DEF PromoteWrite, IInv, NoPendingReset, InService
    <2>2. CheckedWrite("active", selected, ok) /\ rotted' = rotted /\ selected' = selected
          /\ config' = config /\ revision' = revision
      BY <1>1 DEF PromoteWrite
    <2>3. /\ Undamaged' /\ nvs'["active"] \in {selected, nvs["active"]}
          /\ nvs'["reset"] = nvs["reset"] /\ nvs'["enroll"] = nvs["enroll"]
          /\ nvs'["trial"] = nvs["trial"] /\ (\A r : ValidRef(r)' <=> ValidRef(r))
          /\ HighestRevision' = HighestRevision
      BY <2>1, <2>2, ReferenceWrite
    <2>4. ok => nvs'["active"] = selected
      BY <2>1, <2>2, ReferenceWrite
    <2>5. LoadedState' \in {"Active", "Trial"}
      BY <2>1, <2>3, Distinct DEF LoadedState
    <2>6. StoragePart'
      BY <2>1, <2>3, <2>5 DEF StoragePart, CleanStorageLoads, ConfiguredIsEnrolled
    <2>7. CASE ~ok
      BY <1>1, <2>6, <2>7, OutsideService DEF PromoteWrite, Fail, InService
    <2>8. CASE ok
      <3>1. at' = "promoteErase" /\ state' = "Trial"
        BY <1>1, <2>8 DEF PromoteWrite
      <3>2. MidPromote'
        BY <2>1, <2>2, <2>3, <2>4, <2>8, <3>1 DEF MidPromote
      <3> QED BY <2>1, <2>3, <2>6, <3>1, <3>2 DEF ControlPart, ErasingInOrder, NoPendingReset,
             RamMatchesDurable, ServiceState, MidStage, InService
    <2> QED BY <2>7, <2>8
  <1>2. CASE PromoteErase
    <2>1. /\ ValidRef(selected) /\ selected \in Reference /\ config = selected.rec
          /\ nvs["active"] = selected /\ nvs["trial"] = selected
          /\ revision = HighestRevision
          /\ nvs["enroll"] # Missing /\ nvs["reset"] = Missing
      BY <1>2 DEF PromoteErase, IInv, MidPromote, ServiceState, NoPendingReset, InService, ValidRef
    <2>2. CheckedWrite("trial", Missing, FALSE) /\ rotted' = rotted /\ selected' = selected
          /\ config' = config /\ revision' = revision /\ at' = "idle" /\ state' = "Active"
      BY <1>2 DEF PromoteErase, UncheckedErase, CheckedWrite
    <2>3. /\ Undamaged' /\ nvs'["trial"] \in {Missing, nvs["trial"]}
          /\ nvs'["reset"] = nvs["reset"] /\ nvs'["enroll"] = nvs["enroll"]
          /\ nvs'["active"] = nvs["active"] /\ (\A r : ValidRef(r)' <=> ValidRef(r))
          /\ HighestRevision' = HighestRevision
      BY <2>2, ReferenceWrite
    <2>4. LoadedState' = "Active" /\ LoadedRef' = selected
      BY <2>1, <2>3, Distinct DEF LoadedState, LoadedRef
    <2>5. StoragePart'
      BY <2>1, <2>3, <2>4 DEF StoragePart, CleanStorageLoads, ConfiguredIsEnrolled
    <2>6. RamMatchesDurable'
      BY <2>1, <2>2, <2>3, <2>4 DEF RamMatchesDurable
    <2> QED BY <2>1, <2>2, <2>3, <2>5, <2>6 DEF ControlPart, ErasingInOrder, NoPendingReset,
           ServiceState, MidStage, MidPromote, InService
  <1> QED BY <1>1, <1>2

\* Withdrawal: the store is empty only when the trial reference is gone.
LEMMA DiscardStep ==
    ASSUME IInv, TypeOK', NEW ok \in BOOLEAN, DiscardTrial(ok)
    PROVE  StoragePart' /\ ControlPart'
  <1>1. /\ nvs["active"] = Missing /\ nvs["trial"] = selected /\ selected \in Reference
        /\ ValidRef(selected) /\ revision = HighestRevision
        /\ nvs["enroll"] # Missing /\ nvs["reset"] = Missing
    BY TrialAtIdle DEF DiscardTrial, IInv, NoPendingReset, InService
  <1>2. CheckedWrite("trial", Missing, ok) /\ rotted' = rotted /\ revision' = revision
    BY DEF DiscardTrial, CheckedErase
  <1>3. /\ Undamaged' /\ nvs'["trial"] \in {Missing, nvs["trial"]}
        /\ nvs'["reset"] = nvs["reset"] /\ nvs'["enroll"] = nvs["enroll"]
        /\ nvs'["active"] = nvs["active"] /\ (\A r : ValidRef(r)' <=> ValidRef(r))
        /\ HighestRevision' = HighestRevision
    BY <1>2, ReferenceWrite
  <1>4. ok => nvs'["trial"] = Missing
    BY <1>2, ReferenceWrite
  <1>5. nvs'["trial"] = selected => LoadedState' = "Trial"
    BY <1>1, <1>3, Distinct DEF LoadedState
  <1>6. nvs'["trial"] = Missing =>
            LoadedRef' = Missing /\ (~rotted' => LoadedState' = "Empty")
    BY <1>1, <1>3, NoReferencesNext
  <1>7. StoragePart'
    BY <1>1, <1>3, <1>5, <1>6 DEF StoragePart, CleanStorageLoads, ConfiguredIsEnrolled
  <1>8. CASE ~ok
    BY <1>7, <1>8, OutsideService DEF DiscardTrial, Fail, InService
  <1>9. CASE ok
    <2>1. at' = "idle" /\ state' = "Empty"
      BY <1>9 DEF DiscardTrial
    <2>2. RamMatchesDurable'
      BY <1>1, <1>2, <1>3, <1>4, <1>6, <1>9, <2>1 DEF RamMatchesDurable
    <2> QED BY <1>1, <1>3, <1>7, <2>1, <2>2 DEF ControlPart, ErasingInOrder, NoPendingReset,
           ServiceState, MidStage, MidPromote, InService
  <1> QED BY <1>8, <1>9

-----------------------------------------------------------------------------
(* The theorems.                                                           *)

\* The strengthened invariant holds of a device that never ran.
LEMMA InvariantInit == Init => IInv
  <1> SUFFICES ASSUME Init PROVE IInv
    OBVIOUS
  <1>1. TypeOK
    BY TypeInit
  <1>2. \A k \in Key : nvs[k] = Missing
    BY DEF Init
  <1>3. Undamaged
    BY <1>2, Distinct DEF Undamaged
  <1>4. nvs["active"] = Missing /\ nvs["trial"] = Missing /\ at = "off" /\ rotted = FALSE
    BY <1>2, Keys DEF Init
  <1>5. LoadedState = "Empty"
    BY <1>1, <1>3, <1>4, UndamagedSlots DEF LoadedState
  <1> QED BY <1>1, <1>3, <1>4, <1>5 DEF IInv, CleanStorageLoads, ErasingInOrder, NoPendingReset,
         RamMatchesDurable, ConfiguredIsEnrolled, ServiceState, MidStage, MidPromote, InService

\* The strengthened invariant is inductive.
LEMMA InvariantStep == IInv /\ [Next]_vars => IInv'
  <1> SUFFICES ASSUME IInv, [Next]_vars PROVE IInv'
    OBVIOUS
  <1>1. TypeOK'
    BY TypeStep
  <1>2. ASSUME StoragePart', ControlPart' PROVE IInv'
    BY <1>1, <1>2 DEF IInv, StoragePart, ControlPart
  <1>3. CASE UNCHANGED vars
    <2>1. /\ LoadedState' = LoadedState /\ LoadedRef' = LoadedRef
          /\ HighestRevision' = HighestRevision /\ (ValidRef(selected)' <=> ValidRef(selected))
      <3>1. nvs' = nvs /\ selected' = selected
        BY <1>3 DEF vars, store
      <3> QED BY <3>1, SameReading DEF ValidRef
    <2> QED BY <1>1, <1>3, <2>1, StorageUntouched DEF vars, boot, store, IInv, StoragePart,
           ErasingInOrder, NoPendingReset, RamMatchesDurable, ServiceState, MidStage, MidPromote
  <1>4. CASE Next
    <2>1. ASSUME \/ PowerCut
                 \/ \E k \in Key : Rot(k)
                 \/ \E asked \in BOOLEAN : PowerOn(asked)
                 \/ \E pending \in BOOLEAN : GateReset(pending)
                 \/ ResumeReset
                 \/ \E read \in BOOLEAN : Load(read)
                 \/ MisusedTrial
                 \/ NetworkFault
          PROVE  IInv'
      BY <1>2, <2>1, BootSteps
    <2>2. ASSUME \/ ReuseKey
                 \/ \E ok \in BOOLEAN, key \in InstallKey : CreateKey(key, ok)
                 \/ HandOffKey
                 \/ \E ok \in BOOLEAN, enabled \in BOOLEAN : SavePolicy(enabled, ok)
          PROVE  IInv'
      BY <1>2, <2>2, SideKeySteps
    <2>3. ASSUME NEW ok \in BOOLEAN, MarkReset(ok) \/ EraseNext(ok) PROVE IInv'
      BY <1>1, <1>2, <2>3, ResetSteps
    <2>4. ASSUME NEW ok \in BOOLEAN,
                 (\E cred \in Cred : StageRecord(cred, ok)) \/ StageReference(ok)
          PROVE  IInv'
      BY <1>1, <1>2, <2>4, StageSteps
    <2>5. ASSUME NEW ok \in BOOLEAN, PromoteWrite(ok) \/ PromoteErase PROVE IInv'
      BY <1>1, <1>2, <2>5, PromoteSteps
    <2>6. ASSUME NEW ok \in BOOLEAN, DiscardTrial(ok) PROVE IInv'
      BY <1>1, <1>2, <2>6, DiscardStep
    <2> QED BY <1>4, <2>1, <2>2, <2>3, <2>4, <2>5, <2>6 DEF Next
  <1> QED BY <1>3, <1>4

\* It therefore holds for ever.
LEMMA InvariantHolds == Spec => []IInv
  <1>1. Init => IInv
    BY InvariantInit
  <1>2. IInv /\ [Next]_vars => IInv'
    BY InvariantStep
  <1> QED BY <1>1, <1>2, PTL DEF Spec

\* Every variable of the store, the boot sequence and the storage has its type.
THEOREM TypeCorrect == Spec => []TypeOK
  <1>1. IInv => TypeOK
    BY DEF IInv
  <1> QED BY <1>1, InvariantHolds, PTL

\* No sequence of power cuts and failing operations leaves undamaged storage in
\* a form that load() rejects.
THEOREM StorageAlwaysLoads == Spec => []CleanStorageLoads
  <1>1. IInv => CleanStorageLoads
    BY DEF IInv
  <1> QED BY <1>1, InvariantHolds, PTL

\* The store in RAM is the one a reboot would load.
THEOREM StoreIsDurable == Spec => []RamMatchesDurable
  <1>1. IInv => RamMatchesDurable
    BY DEF IInv
  <1> QED BY <1>1, InvariantHolds, PTL

\* A configured device has an installation key.
THEOREM ConfiguredHasKey == Spec => []ConfiguredIsEnrolled
  <1>1. IInv => ConfiguredIsEnrolled
    BY DEF IInv
  <1> QED BY <1>1, InvariantHolds, PTL

\* The keys a step of the main task can change, step by step.
LEMMA Changes ==
    ASSUME IInv, at # "off", [Next]_vars
    PROVE  \/ nvs' = nvs
           \/ nvs'["reset"] = Marker /\ nvs'["enroll"] = nvs["enroll"]
           \/ at = "erase" /\ eraseIdx = 6 /\ nvs'["enroll"] = nvs["enroll"]
           \/ \E k \in {"ghauto", "trial"} : \A j \in Key : j # k => nvs'[j] = nvs[j]
           \/ nvs["enroll"] = Missing /\ \A j \in Key : j # "enroll" => nvs'[j] = nvs[j]
           \/ nvs["active"] = Missing /\ nvs["reset"] = Missing
              /\ nvs'["reset"] = nvs["reset"] /\ nvs'["enroll"] = nvs["enroll"]
  <1>0. NvsOK(nvs)
    BY DEF IInv, TypeOK, NvsOK
  <1>1. ASSUME NEW ok \in BOOLEAN, MarkReset(ok)
        PROVE  nvs' = nvs \/ (nvs'["reset"] = Marker /\ nvs'["enroll"] = nvs["enroll"])
    <2>1. CheckedWrite("reset", Marker, ok)
      BY <1>1 DEF MarkReset
    <2> QED BY <1>0, <2>1, Keys DEF CheckedWrite, Put, NvsOK
  <1>2. ASSUME NEW ok \in BOOLEAN, EraseNext(ok)
        PROVE  /\ nvs'["reset"] = Marker \/ (at = "erase" /\ eraseIdx = 6)
               /\ nvs'["enroll"] = nvs["enroll"]
    <2>1. eraseIdx \in 1 .. 6 /\ nvs["reset"] = Marker /\ at = "erase"
      BY <1>2 DEF EraseNext, IInv, ErasingInOrder
    <2>2. ResetKeys[eraseIdx] \in Key /\ ResetKeys[eraseIdx] # "enroll"
          /\ (ResetKeys[eraseIdx] = "reset" => eraseIdx = 6)
      BY <2>1, Keys DEF ResetKeys
    <2>3. CheckedWrite(ResetKeys[eraseIdx], Missing, ok)
      BY <1>2 DEF EraseNext, CheckedErase
    <2> QED BY <1>0, <2>1, <2>2, <2>3, WriteEffect, Keys
  <1>3. ASSUME NEW ok \in BOOLEAN, NEW key \in InstallKey, CreateKey(key, ok)
        PROVE  nvs["enroll"] = Missing /\ \A j \in Key : j # "enroll" => nvs'[j] = nvs[j]
    BY <1>0, <1>3, WriteEffect, Keys DEF CreateKey, MayEnroll
  <1>4. ASSUME NEW ok \in BOOLEAN, NEW cred \in Cred, StageRecord(cred, ok)
        PROVE  nvs["active"] = Missing /\ nvs["reset"] = Missing
               /\ nvs'["reset"] = nvs["reset"] /\ nvs'["enroll"] = nvs["enroll"]
    <2>1. at = "idle" /\ state = "Empty" /\ revision < MaxRevision
      BY <1>4 DEF StageRecord, MayStage
    <2> QED BY <1>4, <2>1, EmptyInService, StoredRecord
  <1>5. ASSUME NEW ok \in BOOLEAN, PromoteWrite(ok)
        PROVE  nvs["active"] = Missing /\ nvs["reset"] = Missing
               /\ nvs'["reset"] = nvs["reset"] /\ nvs'["enroll"] = nvs["enroll"]
    <2>1. nvs["active"] = Missing /\ nvs["reset"] = Missing
      BY <1>5, TrialAtIdle DEF PromoteWrite, IInv, NoPendingReset, InService
    <2>2. CheckedWrite("active", selected, ok)
      BY <1>5 DEF PromoteWrite
    <2> QED BY <1>0, <2>1, <2>2, WriteEffect, Keys
  <1>6. ASSUME NEW ok \in BOOLEAN, StageReference(ok) \/ DiscardTrial(ok) \/ PromoteErase
        PROVE  \A j \in Key : j # "trial" => nvs'[j] = nvs[j]
    <2>1. \E v : \E done \in BOOLEAN : CheckedWrite("trial", v, done)
      BY <1>6 DEF StageReference, DiscardTrial, PromoteErase, UncheckedErase, CheckedErase,
         CheckedWrite
    <2> QED BY <1>0, <2>1, WriteEffect, Keys
  <1>7. ASSUME NEW ok \in BOOLEAN, NEW enabled \in BOOLEAN, SavePolicy(enabled, ok)
        PROVE  \A j \in Key : j # "ghauto" => nvs'[j] = nvs[j]
    <2>1. \E v : CheckedWrite("ghauto", v, ok)
      BY <1>7 DEF SavePolicy, PolicyAfter
    <2> QED BY <1>0, <2>1, WriteEffect, Keys
  <1>8. ASSUME \/ PowerCut
               \/ \E k \in Key : Rot(k)
               \/ \E asked \in BOOLEAN : PowerOn(asked)
               \/ \E pending \in BOOLEAN : GateReset(pending)
               \/ ResumeReset \/ ReuseKey \/ HandOffKey \/ MisusedTrial \/ NetworkFault
               \/ \E read \in BOOLEAN : Load(read)
               \/ UNCHANGED vars
        PROVE  nvs' = nvs
    BY <1>8 DEF PowerCut, Rot, PowerOn, GateReset, ResumeReset, ReuseKey, HandOffKey,
       MisusedTrial, NetworkFault, Load, vars
  <1> QED BY <1>1, <1>2, <1>3, <1>4, <1>5, <1>6, <1>7, <1>8 DEF Next

\* The reset marker is the last key a reset erases.
THEOREM ResetCompletes == Spec => ResetIsComplete
  <1>1. IInv /\ [Next]_vars =>
        (at # "off" /\ nvs["reset"] # Missing /\ nvs'["reset"] = Missing =>
            /\ \A k \in Key \ {"enroll"} : nvs'[k] = Missing
            /\ nvs'["enroll"] = nvs["enroll"])
    <2> SUFFICES ASSUME IInv, [Next]_vars, at # "off",
                        nvs["reset"] # Missing, nvs'["reset"] = Missing
                 PROVE  /\ \A k \in Key \ {"enroll"} : nvs'[k] = Missing
                        /\ nvs'["enroll"] = nvs["enroll"]
      OBVIOUS
    <2>1. at = "erase" /\ eraseIdx = 6
      BY Changes, Distinct, Keys
    <2>2. PICK ok \in BOOLEAN : EraseNext(ok)
      BY <2>1 DEF Next, PowerCut, Rot, PowerOn, GateReset, ResumeReset, Load, ReuseKey, HandOffKey,
         PromoteErase, MisusedTrial, NetworkFault, MarkReset, CreateKey, StageRecord, StageReference,
         PromoteWrite, DiscardTrial, SavePolicy, vars
    <2>3. CheckedWrite("reset", Missing, ok)
      BY <2>1, <2>2 DEF EraseNext, CheckedErase, ResetKeys
    <2>4. \A j \in Key : j # "reset" => nvs'[j] = nvs[j]
      BY <2>3, Keys, WriteEffect DEF IInv, TypeOK, NvsOK
    <2>5. /\ nvs[ResetKeys[1]] = Missing /\ nvs[ResetKeys[2]] = Missing
          /\ nvs[ResetKeys[3]] = Missing /\ nvs[ResetKeys[4]] = Missing
          /\ nvs[ResetKeys[5]] = Missing
      BY <2>1 DEF IInv, ErasingInOrder
    <2> QED BY <2>4, <2>5, Keys DEF ResetKeys
  <1> QED BY <1>1, InvariantHolds, PTL DEF Spec, ResetIsComplete

\* The installation key survives everything the firmware does.
THEOREM EnrollmentKept == Spec => EnrollmentIsKept
  <1>1. IInv /\ [Next]_vars =>
        (at # "off" /\ nvs["enroll"] # Missing => nvs'["enroll"] = nvs["enroll"])
    <2> SUFFICES ASSUME IInv, [Next]_vars, at # "off", nvs["enroll"] # Missing
                 PROVE  nvs'["enroll"] = nvs["enroll"]
      OBVIOUS
    <2> QED BY Changes, Keys
  <1> QED BY <1>1, InvariantHolds, PTL DEF Spec, EnrollmentIsKept

\* An adopted setting outlives everything but a reset.
THEOREM ActiveKept == Spec => ActiveIsKept
  <1>1. IInv /\ [Next]_vars =>
        (at # "off" /\ nvs["reset"] = Missing /\ nvs'["reset"] = Missing
            /\ ActiveRecord # Missing => ActiveRecord' = ActiveRecord)
    <2> SUFFICES ASSUME IInv, [Next]_vars, at # "off", nvs["reset"] = Missing,
                        nvs'["reset"] = Missing, ActiveRecord # Missing
                 PROVE  ActiveRecord' = ActiveRecord
      OBVIOUS
    <2>1. nvs["active"] # Missing
      BY Distinct DEF ActiveRecord, ValidRef
    <2>2. /\ nvs'["cfgA"] = nvs["cfgA"] /\ nvs'["cfgB"] = nvs["cfgB"]
          /\ nvs'["active"] = nvs["active"]
      BY <2>1, Changes, Distinct, Keys DEF IInv, ErasingInOrder
    <2> QED BY <2>2, SameReading DEF ActiveRecord
  <1> QED BY <1>1, InvariantHolds, PTL DEF Spec, ActiveIsKept

-----------------------------------------------------------------------------
(* The store implements the lifecycle, as long as no blob is damaged.      *)

Stutter == DurableSetting' = DurableSetting /\ DurableRevision' = DurableRevision

\* The lifecycle does not see what load() would not read.
LEMMA StutterWhenUnread ==
    ASSUME nvs'["cfgA"] = nvs["cfgA"], nvs'["cfgB"] = nvs["cfgB"],
           nvs'["active"] = nvs["active"], nvs'["reset"] = nvs["reset"],
           \/ nvs'["trial"] = nvs["trial"]
           \/ nvs["active"] # Missing
    PROVE  Stutter
  <1>1. HighestRevision' = HighestRevision
    BY SameReading
  <1> QED BY <1>1 DEF Stutter, DurableSetting, DurableRevision

\* A device that never ran has no setting and issued no revision.
LEMMA RefineInit == Init => Lifecycle!Init
  <1> SUFFICES ASSUME Init PROVE Lifecycle!Init
    OBVIOUS
  <1>1. \A k \in Key : nvs[k] = Missing
    BY DEF Init
  <1>2. nvs["reset"] = Missing /\ nvs["active"] = Missing /\ nvs["trial"] = Missing
    BY <1>1, Keys
  <1>3. \A s \in Slot : ~ValidSlot(s)
    BY <1>1, BlobOf, Distinct DEF ValidSlot
  <1>4. HighestRevision = 0
    BY <1>3 DEF HighestRevision, SlotRevision, NewestSlot, Slot
  <1> QED BY <1>2, <1>4 DEF Lifecycle!Init, Lifecycle!Unset, DurableSetting, DurableRevision

\* Every step of the store is a transition of the lifecycle or none.
LEMMA RefineStep ==
    ASSUME MayRot = FALSE, IInv, TypeOK', [Next]_vars
    PROVE  Lifecycle!Next \/ Stutter
  <1>0. NvsOK(nvs)
    BY DEF IInv, TypeOK, NvsOK
  <1>1. ASSUME NEW ok \in BOOLEAN, MarkReset(ok) PROVE Lifecycle!Reset \/ Stutter
    <2>1. CheckedWrite("reset", Marker, ok)
      BY <1>1 DEF MarkReset
    <2>2. nvs' = nvs \/ nvs'["reset"] = Marker
      BY <1>0, <2>1, Keys DEF CheckedWrite, Put, NvsOK
    <2>3. CASE nvs' = nvs
      BY <2>3, StutterWhenUnread
    <2>4. CASE nvs'["reset"] = Marker
      BY <2>4, Distinct DEF Lifecycle!Reset, Lifecycle!Unset, DurableSetting, DurableRevision
    <2> QED BY <2>2, <2>3, <2>4
  <1>2. ASSUME NEW ok \in BOOLEAN, EraseNext(ok) PROVE Stutter
    <2>1. /\ eraseIdx \in 1 .. 6 /\ nvs["reset"] = Marker
          /\ \A i \in 1 .. 6 : i < eraseIdx => nvs[ResetKeys[i]] = Missing
      BY <1>2 DEF EraseNext, IInv, ErasingInOrder
    <2>2. DurableSetting = [phase |-> "None"] /\ DurableRevision = 0
      BY <2>1, Distinct DEF DurableSetting, DurableRevision
    <2>3. CheckedWrite(ResetKeys[eraseIdx], Missing, ok)
      BY <1>2 DEF EraseNext, CheckedErase
    <2>4. CASE eraseIdx < 6
      <3>1. ResetKeys[eraseIdx] \in Key /\ ResetKeys[eraseIdx] # "reset"
        BY <2>1, <2>4, Keys DEF ResetKeys
      <3>2. nvs'["reset"] = nvs["reset"]
        BY <1>0, <2>3, <3>1, WriteEffect, Keys
      <3> QED BY <2>1, <2>2, <3>2, Distinct DEF Stutter, DurableSetting, DurableRevision
    <2>5. CASE eraseIdx = 6
      <3>1. /\ nvs[ResetKeys[1]] = Missing /\ nvs[ResetKeys[2]] = Missing
            /\ nvs[ResetKeys[3]] = Missing /\ nvs[ResetKeys[4]] = Missing
        BY <2>1, <2>5
      <3>2. /\ nvs'["active"] = Missing /\ nvs'["trial"] = Missing
            /\ nvs'["cfgA"] = Missing /\ nvs'["cfgB"] = Missing
        BY <1>0, <2>3, <2>5, <3>1, WriteEffect, Keys DEF ResetKeys
      <3>3. \A s \in Slot : ~ValidSlot(s)'
        BY <3>2, Distinct DEF ValidSlot, SlotKey
      <3>4. HighestRevision' = 0
        BY <3>3 DEF HighestRevision, SlotRevision, NewestSlot, Slot
      <3> QED BY <2>2, <3>2, <3>4 DEF Stutter, DurableSetting, DurableRevision
    <2> QED BY <2>1, <2>4, <2>5
  <1>3. ASSUME NEW ok \in BOOLEAN, NEW cred \in Cred, StageRecord(cred, ok)
        PROVE  Lifecycle!Issue \/ Stutter
    <2>1. at = "idle" /\ state = "Empty" /\ revision < MaxRevision
      BY <1>3 DEF StageRecord, MayStage
    <2>2. /\ nvs["active"] = Missing /\ nvs["trial"] = Missing /\ nvs["reset"] = Missing
          /\ revision = HighestRevision
      BY <2>1, EmptyInService
    <2>3. /\ nvs'["active"] = Missing /\ nvs'["trial"] = Missing /\ nvs'["reset"] = Missing
          /\ nvs' = nvs \/ HighestRevision' = HighestRevision + 1
      BY <1>3, <2>1, <2>2, StoredRecord
    <2>4. CASE nvs' = nvs
      BY <2>4, StutterWhenUnread
    <2>5. CASE HighestRevision' = HighestRevision + 1
      BY <2>1, <2>2, <2>3, <2>5
         DEF Lifecycle!Issue, Lifecycle!Unset, DurableSetting, DurableRevision
    <2> QED BY <2>3, <2>4, <2>5
  <1>4. ASSUME NEW ok \in BOOLEAN, StageReference(ok)
        PROVE  (\E cred \in Cred : Lifecycle!Try(cred)) \/ Stutter
    <2>1. /\ nvs["active"] = Missing /\ nvs["trial"] = Missing /\ nvs["reset"] = Missing
          /\ selected \in Reference /\ selected.rec.rev = HighestRevision
      BY <1>4 DEF StageReference, IInv, MidStage, ValidRef, NoPendingReset, InService
    <2>2. /\ nvs'["trial"] \in {selected, nvs["trial"]} /\ nvs'["active"] = Missing
          /\ nvs'["reset"] = Missing /\ HighestRevision' = HighestRevision
      BY <1>4, <2>1, ReferenceWrite DEF StageReference
    <2>3. /\ selected.rec.rev \in 1 .. MaxRevision /\ selected.rec.cred \in Cred
          /\ selected.rec = [rev |-> selected.rec.rev, cred |-> selected.rec.cred]
      <3>1. selected.rec \in [rev : 1 .. MaxRevision, cred : Cred]
        BY <2>1 DEF Reference, Record
      <3> QED BY <3>1
    <2>4. CASE nvs'["trial"] = Missing
      BY <2>1, <2>2, <2>4 DEF Stutter, DurableSetting, DurableRevision
    <2>5. CASE nvs'["trial"] = selected
      <3>1. DurableSetting = [phase |-> "None"] /\ DurableRevision = selected.rec.rev
        BY <2>1 DEF DurableSetting, DurableRevision
      <3>2. DurableSetting' = [phase |-> "Trial", rec |-> selected.rec]
            /\ DurableRevision' = DurableRevision
        BY <2>1, <2>2, <2>5, <3>1, Distinct DEF DurableSetting, DurableRevision
      <3>3. DurableRevision > 0
        BY <2>3, <3>1, RevisionAssumption
      <3>4. Lifecycle!Try(selected.rec.cred)
        BY <2>3, <3>1, <3>2, <3>3 DEF Lifecycle!Try, Lifecycle!Unset, Lifecycle!InPhase
      <3> QED BY <2>3, <3>4
    <2> QED BY <2>1, <2>2, <2>4, <2>5
  <1>5. ASSUME NEW ok \in BOOLEAN, PromoteWrite(ok) PROVE Lifecycle!Adopt \/ Stutter
    <2>1. /\ nvs["active"] = Missing /\ nvs["trial"] = selected /\ selected \in Reference
          /\ nvs["reset"] = Missing /\ CheckedWrite("active", selected, ok)
          /\ rotted' = rotted
      BY <1>5, TrialAtIdle DEF PromoteWrite, IInv, NoPendingReset, InService
    <2>2. /\ nvs'["active"] \in {selected, nvs["active"]} /\ nvs'["trial"] = nvs["trial"]
          /\ nvs'["reset"] = nvs["reset"] /\ HighestRevision' = HighestRevision
      BY <2>1, ReferenceWrite
    <2>3. CASE nvs'["active"] = Missing
      BY <2>1, <2>2, <2>3 DEF Stutter, DurableSetting, DurableRevision
    <2>4. CASE nvs'["active"] = selected
      <3>1. DurableSetting = [phase |-> "Trial", rec |-> selected.rec]
        BY <2>1, Distinct DEF DurableSetting
      <3>2. DurableSetting' = [phase |-> "Active", rec |-> selected.rec]
            /\ DurableRevision' = DurableRevision
        BY <2>1, <2>2, <2>4, Distinct DEF DurableSetting, DurableRevision
      <3> QED BY <3>1, <3>2 DEF Lifecycle!Adopt, Lifecycle!InPhase
    <2> QED BY <2>1, <2>2, <2>3, <2>4
  <1>6. CASE PromoteErase
    <2>1. nvs["active"] # Missing
      BY <1>6, Distinct DEF PromoteErase, IInv, MidPromote, ValidRef
    <2>2. CheckedWrite("trial", Missing, FALSE)
      BY <1>6 DEF PromoteErase, UncheckedErase, CheckedWrite
    <2>3. \A j \in Key : j # "trial" => nvs'[j] = nvs[j]
      BY <1>0, <2>2, WriteEffect, Keys
    <2> QED BY <2>1, <2>3, Keys, StutterWhenUnread
  <1>7. ASSUME NEW ok \in BOOLEAN, DiscardTrial(ok) PROVE Lifecycle!Withdraw \/ Stutter
    <2>1. /\ nvs["active"] = Missing /\ nvs["trial"] = selected /\ selected \in Reference
          /\ nvs["reset"] = Missing /\ CheckedWrite("trial", Missing, ok) /\ rotted' = rotted
      BY <1>7, TrialAtIdle DEF DiscardTrial, CheckedErase, IInv, NoPendingReset, InService
    <2>2. /\ nvs'["trial"] \in {Missing, nvs["trial"]} /\ nvs'["active"] = nvs["active"]
          /\ nvs'["reset"] = nvs["reset"] /\ HighestRevision' = HighestRevision
      BY <2>1, ReferenceWrite
    <2>3. CASE nvs'["trial"] = nvs["trial"]
      BY <2>1, <2>2, <2>3 DEF Stutter, DurableSetting, DurableRevision
    <2>4. CASE nvs'["trial"] = Missing
      <3>1. DurableSetting.phase = "Trial" /\ DurableSetting' = [phase |-> "None"]
            /\ DurableRevision' = DurableRevision
        BY <2>1, <2>2, <2>4, Distinct DEF DurableSetting, DurableRevision
      <3> QED BY <3>1 DEF Lifecycle!Withdraw, Lifecycle!Unset
    <2> QED BY <2>2, <2>3, <2>4
  <1>8. ASSUME NEW ok \in BOOLEAN,
               \/ \E key \in InstallKey : CreateKey(key, ok)
               \/ \E enabled \in BOOLEAN : SavePolicy(enabled, ok)
        PROVE  Stutter
    <2>1. \E k \in {"enroll", "ghauto"} : \E v : CheckedWrite(k, v, ok)
      BY <1>8 DEF CreateKey, MayEnroll, SavePolicy, PolicyAfter
    <2>2. \A j \in Key \ {"enroll", "ghauto"} : nvs'[j] = nvs[j]
      BY <1>0, <2>1, WriteEffect, Keys
    <2> QED BY <2>2, Keys, StutterWhenUnread
  <1>9. ASSUME \/ PowerCut
               \/ \E asked \in BOOLEAN : PowerOn(asked)
               \/ \E pending \in BOOLEAN : GateReset(pending)
               \/ ResumeReset \/ ReuseKey \/ HandOffKey \/ MisusedTrial \/ NetworkFault
               \/ \E read \in BOOLEAN : Load(read)
               \/ UNCHANGED vars
        PROVE  Stutter
    <2>1. nvs' = nvs
      BY <1>9 DEF PowerCut, PowerOn, GateReset, ResumeReset, ReuseKey, HandOffKey,
         MisusedTrial, NetworkFault, Load, vars
    <2> QED BY <2>1, StutterWhenUnread
  <1>10. ~\E k \in Key : Rot(k)
    BY DEF Rot
  <1> QED
    BY <1>1, <1>2, <1>3, <1>4, <1>5, <1>6, <1>7, <1>8, <1>9, <1>10 DEF Next, Lifecycle!Next

\* On flash that keeps what it stores, every run of the store is a run of the
\* lifecycle: power cuts and failures are invisible but for what they decide.
THEOREM StoreImplementsLifecycle ==
    ASSUME MayRot = FALSE
    PROVE  Spec => ImplementsLifecycle
  <1>1. Init => Lifecycle!Init
    BY RefineInit
  <1>2. IInv /\ TypeOK' /\ [Next]_vars
          => [Lifecycle!Next]_<<DurableSetting, DurableRevision>>
    BY RefineStep DEF Stutter
  <1>3. IInv => TypeOK
    BY DEF IInv
  <1> QED BY <1>1, <1>2, <1>3, InvariantHolds, PTL DEF Spec, ImplementsLifecycle, Lifecycle!Spec

-----------------------------------------------------------------------------
(* The two properties that need more: which slot is written next.          *)

\* Records of two revisions; a trial, if there is one, is the newer.
SlotsDiffer == ValidSlot(0) /\ ValidSlot(1) => SlotRevision(0) # SlotRevision(1)
TrialIsNewest == ValidRef(nvs["trial"]) => nvs["trial"].rec.rev = HighestRevision

\* What the next record overwrites is older than what the other slot holds.
NextIsOlder ==
    at \in {"enroll", "handoff", "idle"} /\ state = "Empty" /\ ValidSlot(nextSlot) =>
        SlotRevision(1 - nextSlot) > SlotRevision(nextSlot)

\* The policy is what was read at the boot, or saved since.
PolicyRead == at \in InService /\ policy.healthy => (policy.enabled <=> nvs["ghauto"] = On)

SlotInv == SlotsDiffer /\ TrialIsNewest /\ NextIsOlder

\* No step makes up records: the revisions of the slots stay numbers.
LEMMA Revisions ==
    ASSUME TypeOK
    PROVE  /\ SlotRevision(0) \in Nat /\ SlotRevision(1) \in Nat /\ HighestRevision \in Nat
           /\ SlotRevision(0) <= HighestRevision /\ SlotRevision(1) <= HighestRevision
           /\ HighestRevision \in {SlotRevision(0), SlotRevision(1)}
           /\ \A s \in Slot : (ValidSlot(s) <=> SlotRevision(s) > 0)
  <1>1. SlotRevision(0) \in Nat /\ SlotRevision(1) \in Nat
    BY LoadedType, RevisionAssumption DEF Slot
  <1>2. \A s \in Slot : (ValidSlot(s) <=> SlotRevision(s) > 0)
    <2> SUFFICES ASSUME NEW s \in Slot PROVE ValidSlot(s) <=> SlotRevision(s) > 0
      OBVIOUS
    <2>1. CASE ValidSlot(s)
      <3>1. nvs[SlotKey(s)] \in [rev : 1 .. MaxRevision, cred : Cred]
        BY <2>1 DEF ValidSlot, Record
      <3>2. nvs[SlotKey(s)].rev \in 1 .. MaxRevision
        BY <3>1
      <3> QED BY <2>1, <3>2, RevisionAssumption DEF SlotRevision
    <2>2. CASE ~ValidSlot(s)
      BY <2>2 DEF SlotRevision
    <2> QED BY <2>1, <2>2
  <1>3. /\ ValidSlot(1) /\ SlotRevision(1) >= SlotRevision(0) => NewestSlot = 1
        /\ ~(ValidSlot(1) /\ SlotRevision(1) >= SlotRevision(0)) => NewestSlot = 0
    BY DEF NewestSlot
  <1>4. HighestRevision \in {SlotRevision(0), SlotRevision(1)}
    BY <1>3 DEF HighestRevision
  <1>5. SlotRevision(0) <= HighestRevision /\ SlotRevision(1) <= HighestRevision
    <2>1. CASE NewestSlot = 1
      BY <1>1, <1>3, <2>1 DEF HighestRevision
    <2>2. CASE NewestSlot = 0
      BY <1>1, <1>2, <1>3, <2>2 DEF HighestRevision, Slot
    <2> QED BY <1>3, <2>1, <2>2
  <1> QED BY <1>1, <1>2, <1>4, <1>5

\* load() chooses the older of two records to be overwritten.
LEMMA FreeIsOlder ==
    ASSUME TypeOK, SlotsDiffer, ValidSlot(FreeSlot)
    PROVE  SlotRevision(1 - FreeSlot) > SlotRevision(FreeSlot)
  <1>1. FreeSlot = 1 - NewestSlot /\ NewestSlot \in {0, 1}
    <2>1. NewestSlot \in {0, 1}
      BY DEF NewestSlot
    <2>2. ValidSlot(0) \/ ValidSlot(1)
      BY DEF FreeSlot
    <2> QED BY <2>1, <2>2 DEF FreeSlot
  <1>2. SlotRevision(0) # SlotRevision(1)
    <2> SUFFICES ASSUME SlotRevision(0) = SlotRevision(1) PROVE FALSE
      OBVIOUS
    <2>1. FreeSlot \in {0, 1}
      BY <1>1
    <2>2. SlotRevision(FreeSlot) > 0
      BY <2>1, Revisions DEF Slot
    <2>3. SlotRevision(0) > 0 /\ SlotRevision(1) > 0
      BY <2>1, <2>2
    <2>4. ValidSlot(0) /\ ValidSlot(1)
      BY <2>3, Revisions DEF Slot
    <2> QED BY <2>4 DEF SlotsDiffer
  <1>3. CASE NewestSlot = 1
    <2>1. FreeSlot = 0 /\ 1 - FreeSlot = 1 /\ SlotRevision(1) = HighestRevision
      BY <1>1, <1>3 DEF HighestRevision
    <2> QED BY <1>2, <2>1, Revisions
  <1>4. CASE NewestSlot = 0
    <2>1. FreeSlot = 1 /\ 1 - FreeSlot = 0 /\ SlotRevision(0) = HighestRevision
      BY <1>1, <1>4 DEF HighestRevision
    <2> QED BY <1>2, <2>1, Revisions
  <1> QED BY <1>1, <1>3, <1>4

\* Slots that nobody touches.
LEMMA SlotsStay ==
    ASSUME nvs'["cfgA"] = nvs["cfgA"], nvs'["cfgB"] = nvs["cfgB"]
    PROVE  /\ \A s : (ValidSlot(s)' <=> ValidSlot(s)) /\ SlotRevision(s)' = SlotRevision(s)
           /\ HighestRevision' = HighestRevision
           /\ SlotsDiffer => SlotsDiffer'
           /\ TrialIsNewest /\ nvs'["trial"] \in {Missing, nvs["trial"]} => TrialIsNewest'
  <1>1. \A s : nvs'[SlotKey(s)] = nvs[SlotKey(s)]
    BY DEF SlotKey
  <1>2. \A s : (ValidSlot(s)' <=> ValidSlot(s)) /\ SlotRevision(s)' = SlotRevision(s)
    BY <1>1 DEF ValidSlot, SlotRevision
  <1>3. HighestRevision' = HighestRevision
    BY SameReading
  <1>4. ~ValidRef(Missing)
    BY Distinct DEF ValidRef
  <1>5. \A v : ValidRef(v)' <=> ValidRef(v)
    BY SameReading
  <1>6. ASSUME TrialIsNewest, nvs'["trial"] \in {Missing, nvs["trial"]} PROVE TrialIsNewest'
    <2>1. CASE nvs'["trial"] = Missing
      <3>1. ~ValidRef(nvs["trial"])'
        BY <2>1, Distinct DEF ValidRef
      <3> QED BY <3>1 DEF TrialIsNewest
    <2>2. CASE nvs'["trial"] = nvs["trial"]
      <3>1. ValidRef(nvs["trial"])' => ValidRef(nvs["trial"])
        BY <1>1, <2>2 DEF ValidRef
      <3> QED BY <1>3, <1>6, <2>2, <3>1 DEF TrialIsNewest
    <2> QED BY <1>6, <2>1, <2>2
  <1> QED BY <1>2, <1>3, <1>6 DEF SlotsDiffer

\* Where nothing is staged next, nothing is said of the slot for it.
LEMMA NothingNext ==
    ASSUME at' \notin {"enroll", "handoff", "idle"} \/ state' # "Empty"
    PROVE  NextIsOlder'
  BY DEF NextIsOlder

\* Steps that leave both slots and the trial as they are.
LEMMA UnwrittenSteps ==
    ASSUME IInv, SlotInv,
           \/ PowerCut
           \/ \E asked \in BOOLEAN : PowerOn(asked)
           \/ \E pending \in BOOLEAN : GateReset(pending)
           \/ ResumeReset
           \/ \E read \in BOOLEAN : Load(read)
           \/ ReuseKey \/ HandOffKey \/ MisusedTrial \/ NetworkFault
           \/ UNCHANGED vars
    PROVE  SlotInv'
  <1>1. nvs' = nvs
    BY DEF PowerCut, PowerOn, GateReset, ResumeReset, Load, ReuseKey, HandOffKey, MisusedTrial,
       NetworkFault, vars
  <1>2. /\ \A s : (ValidSlot(s)' <=> ValidSlot(s)) /\ SlotRevision(s)' = SlotRevision(s)
        /\ SlotsDiffer' /\ TrialIsNewest'
    BY <1>1, SlotsStay DEF SlotInv
  <1>3. CASE \E read \in BOOLEAN : Load(read)
    <2>1. CASE at' = "fault"
      BY <1>2, <2>1, NothingNext DEF SlotInv
    <2>2. CASE at' # "fault"
      <3>1. nextSlot' = FreeSlot
        BY <1>3, <2>2 DEF Load, Fail
      <3>2. ValidSlot(FreeSlot) => SlotRevision(1 - FreeSlot) > SlotRevision(FreeSlot)
        BY FreeIsOlder DEF IInv, SlotInv
      <3> QED BY <1>2, <3>1, <3>2 DEF SlotInv, NextIsOlder
    <2> QED BY <2>1, <2>2
  <1>4. CASE ReuseKey \/ HandOffKey \/ NetworkFault \/ UNCHANGED vars
    <2>1. /\ at' = "fault" \/ at \in {"enroll", "handoff", "idle"} \/ at' = at
          /\ state' = state /\ nextSlot' = nextSlot
      BY <1>4 DEF ReuseKey, HandOffKey, NetworkFault, Fail, vars, store
    <2> QED BY <1>2, <2>1 DEF SlotInv, NextIsOlder
  <1>5. CASE \/ PowerCut
             \/ \E asked \in BOOLEAN : PowerOn(asked)
             \/ \E pending \in BOOLEAN : GateReset(pending)
             \/ ResumeReset \/ MisusedTrial
    <2>1. at' \notin {"enroll", "handoff", "idle"}
      BY <1>5 DEF PowerCut, PowerOn, GateReset, ResumeReset, MisusedTrial, Fail
    <2> QED BY <1>2, <2>1, NothingNext DEF SlotInv
  <1> QED BY <1>3, <1>4, <1>5

\* Steps that write a key that is no slot.
LEMMA OtherKeySteps ==
    ASSUME IInv, SlotInv, NEW ok \in BOOLEAN,
           \/ MarkReset(ok) \/ StageReference(ok) \/ PromoteWrite(ok) \/ PromoteErase
           \/ DiscardTrial(ok)
           \/ \E key \in InstallKey : CreateKey(key, ok)
           \/ \E enabled \in BOOLEAN : SavePolicy(enabled, ok)
    PROVE  SlotInv'
  <1>0. NvsOK(nvs)
    BY DEF IInv, TypeOK, NvsOK
  <1>1. CASE MarkReset(ok) \/ PromoteWrite(ok)
    <2>1. \E k \in {"reset", "active"} : \E v : CheckedWrite(k, v, ok)
      BY <1>1 DEF MarkReset, PromoteWrite
    <2>2. nvs'["cfgA"] = nvs["cfgA"] /\ nvs'["cfgB"] = nvs["cfgB"] /\ nvs'["trial"] = nvs["trial"]
      BY <1>0, <2>1, WriteEffect, Keys
    <2>3. at' \notin {"enroll", "handoff", "idle"}
      BY <1>1 DEF MarkReset, PromoteWrite, Fail
    <2> QED BY <2>2, <2>3, SlotsStay, NothingNext DEF SlotInv
  <1>2. CASE \/ \E key \in InstallKey : CreateKey(key, ok)
             \/ \E enabled \in BOOLEAN : SavePolicy(enabled, ok)
    <2>1. \E k \in {"enroll", "ghauto"} : \E v : CheckedWrite(k, v, ok)
      BY <1>2 DEF CreateKey, SavePolicy
    <2>2. nvs'["cfgA"] = nvs["cfgA"] /\ nvs'["cfgB"] = nvs["cfgB"] /\ nvs'["trial"] = nvs["trial"]
      BY <1>0, <2>1, WriteEffect, Keys
    <2>3. /\ \A s : (ValidSlot(s)' <=> ValidSlot(s)) /\ SlotRevision(s)' = SlotRevision(s)
          /\ SlotsDiffer' /\ TrialIsNewest'
      BY <2>2, SlotsStay DEF SlotInv
    <2>4. at \in {"enroll", "idle"} /\ state' = state /\ nextSlot' = nextSlot
      BY <1>2 DEF CreateKey, SavePolicy, PolicyAfter, store
    <2> QED BY <2>3, <2>4 DEF SlotInv, NextIsOlder
  <1>3. CASE StageReference(ok)
    <2>1. /\ selected \in Reference /\ ValidRef(selected) /\ selected.rec.rev = HighestRevision
          /\ nvs["trial"] = Missing
      BY <1>3 DEF StageReference, IInv, MidStage, ValidRef
    <2>2. CheckedWrite("trial", selected, ok) /\ rotted' = rotted
      BY <1>3 DEF StageReference
    <2>3. /\ nvs'["trial"] \in {selected, Missing}
          /\ (\A r : ValidRef(r)' <=> ValidRef(r)) /\ HighestRevision' = HighestRevision
      BY <2>1, <2>2, ReferenceWrite
    <2>4. nvs'["cfgA"] = nvs["cfgA"] /\ nvs'["cfgB"] = nvs["cfgB"]
      BY <1>0, <2>2, WriteEffect, Keys
    <2>5. TrialIsNewest'
      <3>1. CASE nvs'["trial"] = Missing
        <4>1. ~ValidRef(nvs["trial"])'
          BY <3>1, Distinct DEF ValidRef
        <4> QED BY <4>1 DEF TrialIsNewest
      <3>2. CASE nvs'["trial"] = selected
        BY <2>1, <2>3, <3>2 DEF TrialIsNewest
      <3> QED BY <2>3, <3>1, <3>2
    <2>6. at' \notin {"enroll", "handoff", "idle"} \/ state' # "Empty"
      BY <1>3 DEF StageReference, Fail
    <2> QED BY <2>4, <2>5, <2>6, SlotsStay, NothingNext DEF SlotInv
  <1>4. CASE PromoteErase
    <2>1. CheckedWrite("trial", Missing, FALSE)
      BY <1>4 DEF PromoteErase, UncheckedErase, CheckedWrite
    <2>2. /\ nvs'["cfgA"] = nvs["cfgA"] /\ nvs'["cfgB"] = nvs["cfgB"]
          /\ nvs'["trial"] \in {Missing, nvs["trial"]}
      BY <1>0, <2>1, WriteEffect, Keys
    <2>3. state' # "Empty"
      BY <1>4 DEF PromoteErase
    <2> QED BY <2>2, <2>3, SlotsStay, NothingNext DEF SlotInv
  <1>5. CASE DiscardTrial(ok)
    <2>1. /\ nvs["trial"] = selected /\ ValidRef(selected) /\ selected \in Reference
      BY <1>5, TrialAtIdle DEF DiscardTrial
    <2>2. CheckedWrite("trial", Missing, ok)
      BY <1>5 DEF DiscardTrial, CheckedErase
    <2>3. /\ nvs'["cfgA"] = nvs["cfgA"] /\ nvs'["cfgB"] = nvs["cfgB"]
          /\ nvs'["trial"] \in {Missing, nvs["trial"]}
      BY <1>0, <2>2, WriteEffect, Keys
    <2>4. /\ \A s : (ValidSlot(s)' <=> ValidSlot(s)) /\ SlotRevision(s)' = SlotRevision(s)
          /\ SlotsDiffer' /\ TrialIsNewest'
      BY <2>3, SlotsStay DEF SlotInv
    <2>5. CASE ~ok
      <3>1. at' = "fault"
        BY <1>5, <2>5 DEF DiscardTrial, Fail
      <3> QED BY <2>4, <3>1, NothingNext DEF SlotInv
    <2>6. CASE ok
      <3>1. nextSlot' = 1 - selected.slot /\ selected.slot \in {0, 1} /\ selected.rec \in Record
        <4>1. selected \in [slot : Slot, rec : Record]
          BY <2>1 DEF Reference
        <4> QED BY <1>5, <2>6, <4>1 DEF DiscardTrial, Slot
      <3>2. SlotRevision(selected.slot) = HighestRevision /\ ValidSlot(selected.slot)
        BY <2>1, <3>1 DEF SlotInv, TrialIsNewest, ValidRef, ValidSlot, SlotRevision
      <3>3. ValidSlot(1 - selected.slot) => SlotRevision(selected.slot) > SlotRevision(1 - selected.slot)
        <4>1. CASE selected.slot = 0
          BY <3>2, <4>1, Revisions DEF IInv, SlotInv, SlotsDiffer
        <4>2. CASE selected.slot = 1
          BY <3>2, <4>2, Revisions DEF IInv, SlotInv, SlotsDiffer
        <4> QED BY <3>1, <4>1, <4>2
      <3>4. 1 - (1 - selected.slot) = selected.slot
        BY <3>1
      <3> QED BY <2>4, <3>1, <3>3, <3>4 DEF SlotInv, NextIsOlder
    <2> QED BY <2>5, <2>6
  <1> QED BY <1>1, <1>2, <1>3, <1>4, <1>5

\* The same of the next state.
Counted ==
    /\ SlotRevision(0) \in Nat /\ SlotRevision(1) \in Nat
    /\ SlotRevision(0) <= HighestRevision /\ SlotRevision(1) <= HighestRevision
    /\ HighestRevision \in {SlotRevision(0), SlotRevision(1)}

LEMMA RevisionsAre == TypeOK => Counted
  BY Revisions DEF Counted

LEMMA RevisionsNext == TypeOK' => Counted'
  BY RevisionsAre, PTL

\* Steps that write or lose a record.
LEMMA SlotSteps ==
    ASSUME IInv, SlotInv, TypeOK',
           \/ \E k \in Key : Rot(k)
           \/ \E ok \in BOOLEAN : EraseNext(ok)
           \/ \E ok \in BOOLEAN, cred \in Cred : StageRecord(cred, ok)
    PROVE  SlotInv'
  <1>0. NvsOK(nvs) /\ TypeOK
    BY DEF IInv, TypeOK, NvsOK
  <1>n. /\ SlotRevision(0) \in Nat /\ SlotRevision(1) \in Nat /\ HighestRevision \in Nat
        /\ SlotRevision(0)' \in Nat /\ SlotRevision(1)' \in Nat
    BY <1>0, Revisions, RevisionsNext DEF Counted
  <1>s. SlotKey(0) = "cfgA" /\ SlotKey(1) = "cfgB"
    BY DEF SlotKey
  \* a record that is lost takes nothing from the others
  <1>1. ASSUME \A s \in Slot : (nvs'[SlotKey(s)] = nvs[SlotKey(s)] \/ nvs'[SlotKey(s)] \in {Missing, Damaged}),
               nvs'["trial"] = nvs["trial"] \/ nvs'["trial"] \in {Missing, Damaged}
        PROVE  SlotsDiffer' /\ TrialIsNewest'
    <2>1. \A s \in Slot : /\ ValidSlot(s)' => nvs'[SlotKey(s)] = nvs[SlotKey(s)] /\ ValidSlot(s)
                          /\ ValidSlot(s)' => SlotRevision(s)' = SlotRevision(s)
                          /\ SlotRevision(s)' \in {0, SlotRevision(s)}
      BY <1>1, Distinct DEF ValidSlot, SlotRevision
    <2>2. SlotsDiffer'
      BY <2>1 DEF SlotInv, SlotsDiffer, Slot
    <2>3. ASSUME ValidRef(nvs["trial"])' PROVE nvs'["trial"].rec.rev = HighestRevision'
      <3>1. nvs'["trial"] = nvs["trial"] /\ nvs["trial"] \in Reference
        BY <1>1, <2>3, Distinct DEF ValidRef
      <3> PICK t \in Reference : t = nvs["trial"]
        BY <3>1
      <3>2. t.slot \in Slot /\ t.rec \in Record
        BY DEF Reference
      <3>3. nvs'[SlotKey(t.slot)] = t.rec
        BY <2>3, <3>1 DEF ValidRef
      <3>4. ValidSlot(t.slot)' /\ SlotRevision(t.slot)' = t.rec.rev
        BY <3>2, <3>3 DEF ValidSlot, SlotRevision
      <3>5. nvs[SlotKey(t.slot)] = t.rec
        BY <2>1, <3>2, <3>3, <3>4
      <3>6. ValidRef(nvs["trial"])
        BY <3>1, <3>5 DEF ValidRef
      <3>7. t.rec.rev = HighestRevision
        BY <3>6 DEF SlotInv, TrialIsNewest
      <3>8. SlotRevision(0) <= HighestRevision /\ SlotRevision(1) <= HighestRevision
        BY <1>0, Revisions
      <3>9. SlotRevision(0)' <= t.rec.rev /\ SlotRevision(1)' <= t.rec.rev
        BY <1>n, <2>1, <3>7, <3>8 DEF Slot
      <3>10. HighestRevision' \in {SlotRevision(0)', SlotRevision(1)'}
             /\ SlotRevision(0)' <= HighestRevision' /\ SlotRevision(1)' <= HighestRevision'
        BY RevisionsNext DEF Counted
      <3>11. HighestRevision' = t.rec.rev
        <4>1. CASE t.slot = 0
          BY <1>n, <3>4, <3>9, <3>10, <4>1
        <4>2. CASE t.slot = 1
          BY <1>n, <3>4, <3>9, <3>10, <4>2
        <4> QED BY <3>2, <4>1, <4>2 DEF Slot
      <3> QED BY <3>1, <3>11
    <2> QED BY <2>2, <2>3 DEF TrialIsNewest
  <1>2. CASE \E k \in Key : Rot(k)
    <2>1. PICK k \in Key : at = "off" /\ at' = "off" /\ nvs' = Put(k, Damaged)
      BY <1>2 DEF Rot
    <2>2. \A j \in Key : nvs'[j] = nvs[j] \/ nvs'[j] = Damaged
      BY <1>0, <2>1 DEF Put, NvsOK
    <2>3. SlotsDiffer' /\ TrialIsNewest'
      BY <1>1, <1>s, <2>2, Keys DEF Slot
    <2> QED BY <2>1, <2>3, NothingNext DEF SlotInv
  <1>3. ASSUME NEW ok \in BOOLEAN, EraseNext(ok) PROVE SlotInv'
    <2>1. eraseIdx \in 1 .. 6 /\ CheckedWrite(ResetKeys[eraseIdx], Missing, ok)
      BY <1>3 DEF EraseNext, CheckedErase, IInv, ErasingInOrder
    <2>2. ResetKeys[eraseIdx] \in Key
      BY <2>1, Keys DEF ResetKeys
    <2>3. \A j \in Key : nvs'[j] = nvs[j] \/ nvs'[j] = Missing
      BY <1>0, <2>1, <2>2, WriteEffect
    <2>4. SlotsDiffer' /\ TrialIsNewest'
      BY <1>1, <1>s, <2>3, Keys DEF Slot
    <2>5. at' \notin {"enroll", "handoff", "idle"}
      BY <1>3 DEF EraseNext, Fail
    <2> QED BY <2>4, <2>5, NothingNext DEF SlotInv
  <1>4. ASSUME NEW ok \in BOOLEAN, NEW cred \in Cred, StageRecord(cred, ok) PROVE SlotInv'
    <2>1. /\ at = "idle" /\ state = "Empty" /\ revision < MaxRevision /\ nextSlot \in Slot
      BY <1>0, <1>4 DEF StageRecord, MayStage, TypeOK
    <2>2. nvs["trial"] = Missing /\ revision = HighestRevision
      BY <2>1, EmptyInService
    <2>3. Staged(cred).rec \in Record /\ Staged(cred).rec.rev = revision + 1
      BY <1>0, <2>1, StagedType DEF Staged
    <2>4. CheckedWrite(SlotKey(nextSlot), Staged(cred).rec, ok) /\ SlotKey(nextSlot) \in Key
          /\ SlotKey(nextSlot) \in {"cfgA", "cfgB"}
      BY <1>4, <2>1, BlobOf DEF StageRecord, SlotKey
    <2>5. /\ \A j \in Key : j # SlotKey(nextSlot) => nvs'[j] = nvs[j]
          /\ nvs'[SlotKey(nextSlot)] \in {Staged(cred).rec, nvs[SlotKey(nextSlot)]}
      BY <1>0, <2>4, WriteEffect
    <2>6. TrialIsNewest'
      <3>1. nvs'["trial"] = Missing
        BY <2>2, <2>4, <2>5, Keys
      <3>2. ~ValidRef(nvs["trial"])'
        BY <3>1, Distinct DEF ValidRef
      <3> QED BY <3>2 DEF TrialIsNewest
    <2>7. SlotsDiffer'
      <3>1. CASE nvs'[SlotKey(nextSlot)] = nvs[SlotKey(nextSlot)]
        <4>1. nvs'["cfgA"] = nvs["cfgA"] /\ nvs'["cfgB"] = nvs["cfgB"]
          BY <2>4, <2>5, <3>1, Keys
        <4> QED BY <4>1, SlotsStay DEF SlotInv
      <3>2. CASE nvs'[SlotKey(nextSlot)] = Staged(cred).rec
        <4>1. SlotRevision(nextSlot)' = HighestRevision + 1
          <5>1. nextSlot' = nextSlot
            BY <1>4 DEF StageRecord
          <5> QED BY <2>2, <2>3, <3>2, <5>1 DEF ValidSlot, SlotRevision
        <4>2. \A s \in Slot \ {nextSlot} : SlotRevision(s)' = SlotRevision(s)
          <5>1. \A s \in Slot \ {nextSlot} : nvs'[SlotKey(s)] = nvs[SlotKey(s)]
            BY <1>s, <2>1, <2>5, Keys DEF Slot
          <5> QED BY <5>1 DEF ValidSlot, SlotRevision
        <4>3. SlotRevision(0) <= HighestRevision /\ SlotRevision(1) <= HighestRevision
          BY <1>0, Revisions
        <4>4. nextSlot' = nextSlot
          BY <1>4 DEF StageRecord
        <4>5. CASE nextSlot = 0
          <5>1. SlotRevision(0)' = HighestRevision + 1 /\ SlotRevision(1)' = SlotRevision(1)
            BY <4>1, <4>2, <4>4, <4>5 DEF Slot
          <5> QED BY <1>n, <4>3, <5>1 DEF SlotsDiffer
        <4>6. CASE nextSlot = 1
          <5>1. SlotRevision(1)' = HighestRevision + 1 /\ SlotRevision(0)' = SlotRevision(0)
            BY <4>1, <4>2, <4>4, <4>6 DEF Slot
          <5> QED BY <1>n, <4>3, <5>1 DEF SlotsDiffer
        <4> QED BY <2>1, <4>5, <4>6 DEF Slot
      <3> QED BY <2>5, <3>1, <3>2
    <2>8. at' \notin {"enroll", "handoff", "idle"}
      BY <1>4 DEF StageRecord, Fail
    <2> QED BY <2>6, <2>7, <2>8, NothingNext DEF SlotInv
  <1> QED BY <1>2, <1>3, <1>4

\* Every action keeps what is said of the slots.
LEMMA SlotInvStep == IInv /\ SlotInv /\ TypeOK' /\ [Next]_vars => SlotInv'
  <1> SUFFICES ASSUME IInv, SlotInv, TypeOK', [Next]_vars PROVE SlotInv'
    OBVIOUS
  <1>1. CASE \/ PowerCut
             \/ \E asked \in BOOLEAN : PowerOn(asked)
             \/ \E pending \in BOOLEAN : GateReset(pending)
             \/ ResumeReset
             \/ \E read \in BOOLEAN : Load(read)
             \/ ReuseKey \/ HandOffKey \/ MisusedTrial \/ NetworkFault
             \/ UNCHANGED vars
    BY <1>1, UnwrittenSteps
  <1>2. ASSUME NEW ok \in BOOLEAN,
               \/ MarkReset(ok) \/ StageReference(ok) \/ PromoteWrite(ok) \/ PromoteErase
               \/ DiscardTrial(ok)
               \/ \E key \in InstallKey : CreateKey(key, ok)
               \/ \E enabled \in BOOLEAN : SavePolicy(enabled, ok)
        PROVE  SlotInv'
    BY <1>2, OtherKeySteps
  <1>3. CASE \/ \E k \in Key : Rot(k)
             \/ \E ok \in BOOLEAN : EraseNext(ok)
             \/ \E ok \in BOOLEAN, cred \in Cred : StageRecord(cred, ok)
    BY <1>3, SlotSteps
  <1> QED BY <1>1, <1>2, <1>3 DEF Next

\* Storage without records says nothing of them.
LEMMA SlotInvInit == Init => SlotInv
  <1> SUFFICES ASSUME Init PROVE SlotInv
    OBVIOUS
  <1>1. nvs["cfgA"] = Missing /\ nvs["cfgB"] = Missing /\ nvs["trial"] = Missing /\ at = "off"
    BY Keys DEF Init
  <1>2. \A s : ~ValidSlot(s)
    BY <1>1, Distinct DEF ValidSlot, SlotKey
  <1>3. ~ValidRef(nvs["trial"])
    BY <1>1, Distinct DEF ValidRef
  <1> QED BY <1>1, <1>2, <1>3 DEF SlotInv, SlotsDiffer, TrialIsNewest, NextIsOlder

\* The slots are sound in every reachable state.
LEMMA SlotInvHolds == Spec => [](IInv /\ SlotInv)
  <1>1. Init => IInv /\ SlotInv
    BY InvariantInit, SlotInvInit
  <1>2. IInv => TypeOK
    BY DEF IInv
  <1>3. (IInv /\ SlotInv) /\ [Next]_vars => (IInv /\ SlotInv)'
    BY TypeStep, InvariantStep, SlotInvStep
  <1> QED BY <1>1, <1>3, PTL DEF Spec

\* A record is written under a revision that was never used since the last
\* reset, and never over the newest one.
THEOREM RevisionsGrow == Spec => RevisionsOnlyGrow
  <1>1. IInv /\ SlotInv /\ [Next]_vars =>
          (at # "off" => \A s \in Slot : nvs'[SlotKey(s)] # nvs[SlotKey(s)] =>
            /\ nvs'[SlotKey(s)] \in Record =>
                 \A t \in Slot : nvs'[SlotKey(s)].rev > SlotRevision(t)
            /\ ValidSlot(s) /\ nvs["reset"] = Missing => SlotRevision(1 - s) > SlotRevision(s))
    <2> SUFFICES ASSUME IInv, SlotInv, [Next]_vars, at # "off", NEW s \in Slot,
                        nvs'[SlotKey(s)] # nvs[SlotKey(s)]
                 PROVE  /\ nvs'[SlotKey(s)] \in Record =>
                             \A t \in Slot : nvs'[SlotKey(s)].rev > SlotRevision(t)
                        /\ ValidSlot(s) /\ nvs["reset"] = Missing =>
                             SlotRevision(1 - s) > SlotRevision(s)
      OBVIOUS
    <2>0. NvsOK(nvs) /\ TypeOK /\ SlotKey(s) \in Key /\ SlotKey(s) \in {"cfgA", "cfgB"}
      BY BlobOf DEF IInv, TypeOK, NvsOK, SlotKey
    <2>1. \/ \E ok \in BOOLEAN : EraseNext(ok)
          \/ \E ok \in BOOLEAN, cred \in Cred : StageRecord(cred, ok)
      <3>1. nvs' # nvs
        OBVIOUS
      <3>2. ASSUME NEW ok \in BOOLEAN,
                   \/ MarkReset(ok) \/ StageReference(ok) \/ PromoteWrite(ok) \/ PromoteErase
                   \/ DiscardTrial(ok)
                   \/ \E key \in InstallKey : CreateKey(key, ok)
                   \/ \E enabled \in BOOLEAN : SavePolicy(enabled, ok)
            PROVE  FALSE
        <4>1. \E k \in {"reset", "trial", "active", "enroll", "ghauto"} : \E v : \E done \in BOOLEAN :
                CheckedWrite(k, v, done)
          BY <3>2 DEF MarkReset, StageReference, PromoteWrite, PromoteErase, DiscardTrial, CreateKey,
             SavePolicy, CheckedErase, UncheckedErase, CheckedWrite
        <4> QED BY <2>0, <4>1, WriteEffect, Keys
      <3>3. ~ \/ PowerCut
              \/ \E k \in Key : Rot(k)
              \/ \E asked \in BOOLEAN : PowerOn(asked)
              \/ \E pending \in BOOLEAN : GateReset(pending)
              \/ ResumeReset \/ ReuseKey \/ HandOffKey \/ MisusedTrial \/ NetworkFault
              \/ \E read \in BOOLEAN : Load(read)
              \/ UNCHANGED vars
        BY <3>1 DEF PowerCut, Rot, PowerOn, GateReset, ResumeReset, Load, ReuseKey, HandOffKey,
           MisusedTrial, NetworkFault, vars
      <3> QED BY <3>2, <3>3 DEF Next
    <2>2. ASSUME NEW ok \in BOOLEAN, EraseNext(ok)
          PROVE  nvs'[SlotKey(s)] \notin Record /\ nvs["reset"] # Missing
      <3>1. /\ eraseIdx \in 1 .. 6 /\ CheckedWrite(ResetKeys[eraseIdx], Missing, ok)
            /\ nvs["reset"] = Marker
        BY <2>2 DEF EraseNext, CheckedErase, IInv, ErasingInOrder
      <3>2. ResetKeys[eraseIdx] \in Key
        BY <3>1, Keys DEF ResetKeys
      <3>3. nvs'[SlotKey(s)] = Missing
        BY <2>0, <3>1, <3>2, WriteEffect
      <3> QED BY <3>1, <3>3, Distinct
    <2>3. ASSUME NEW ok \in BOOLEAN, NEW cred \in Cred, StageRecord(cred, ok)
          PROVE  /\ \A t \in Slot : nvs'[SlotKey(s)].rev > SlotRevision(t)
                 /\ ValidSlot(s) => SlotRevision(1 - s) > SlotRevision(s)
      <3>1. at = "idle" /\ state = "Empty" /\ revision < MaxRevision /\ nextSlot \in Slot
        BY <2>0, <2>3 DEF StageRecord, MayStage, TypeOK
      <3>2. revision = HighestRevision
        BY <3>1, EmptyInService
      <3>3. Staged(cred).rec.rev = revision + 1
        BY DEF Staged
      <3>4. CheckedWrite(SlotKey(nextSlot), Staged(cred).rec, ok) /\ SlotKey(nextSlot) \in Key
        BY <2>3, <3>1, BlobOf DEF StageRecord
      <3>5. SlotKey(s) = SlotKey(nextSlot) /\ nvs'[SlotKey(s)] = Staged(cred).rec
        BY <2>0, <3>4, WriteEffect
      <3>6. s = nextSlot
        BY <3>1, <3>5 DEF SlotKey, Slot
      <3>7. \A t \in Slot : HighestRevision + 1 > SlotRevision(t)
        BY <2>0, Revisions DEF Slot
      <3> QED BY <3>1, <3>2, <3>3, <3>5, <3>6, <3>7 DEF SlotInv, NextIsOlder
    <2> QED BY <2>1, <2>2, <2>3
  <1> QED BY <1>1, SlotInvHolds, PTL DEF Spec, RevisionsOnlyGrow

\* The key of the policy changes only where the policy is saved or erased.
LEMMA PolicyStep == IInv /\ PolicyRead /\ [Next]_vars => PolicyRead'
  <1> SUFFICES ASSUME IInv, PolicyRead, [Next]_vars PROVE PolicyRead'
    OBVIOUS
  <1>0. NvsOK(nvs) /\ On # Off /\ On # Missing
    BY Distinct DEF IInv, TypeOK, NvsOK
  <1>1. CASE at' \notin InService
    BY <1>1 DEF PolicyRead
  <1>2. CASE \E read \in BOOLEAN : Load(read)
    <2>1. PICK read \in BOOLEAN : Load(read)
      BY <1>2
    <2>2. CASE at' = "fault"
      BY <1>1, <2>2 DEF InService
    <2>3. CASE at' # "fault"
      <3>1. /\ nvs' = nvs
            /\ policy' = [enabled |-> read /\ nvs["ghauto"] = On,
                          healthy |-> read /\ nvs["ghauto"] \in {Missing, On, Off}]
        BY <2>1, <2>3 DEF Load, Fail
      <3>2. /\ policy'.enabled <=> (read /\ nvs["ghauto"] = On)
            /\ policy'.healthy => read
        BY <3>1, Zenon
      <3> QED BY <3>1, <3>2 DEF PolicyRead
    <2> QED BY <2>2, <2>3
  <1>3. ASSUME NEW ok \in BOOLEAN, NEW enabled \in BOOLEAN, SavePolicy(enabled, ok) PROVE PolicyRead'
    <2>1. policy' = [enabled |-> ok /\ enabled, healthy |-> ok] /\ at' = at
          /\ CheckedWrite("ghauto", IF enabled THEN On ELSE Off, ok)
      BY <1>3 DEF SavePolicy, PolicyAfter
    <2>2. ok => nvs'["ghauto"] = IF enabled THEN On ELSE Off
      BY <1>0, <2>1, Keys, WriteEffect
    <2>3. policy'.healthy = ok /\ policy'.enabled = (ok /\ enabled)
      BY <2>1
    <2>4. CASE ok
      <3>1. policy'.healthy /\ (policy'.enabled <=> enabled)
        BY <2>3, <2>4, Zenon
      <3>2. (nvs'["ghauto"] = On) <=> enabled
        BY <1>0, <2>2, <2>4
      <3> QED BY <3>1, <3>2 DEF PolicyRead
    <2>5. CASE ~ok
      <3>1. ~policy'.healthy
        BY <2>3, <2>5, Zenon
      <3> QED BY <3>1 DEF PolicyRead
    <2> QED BY <2>4, <2>5
  <1>4. ASSUME at \in InService, at' \in InService, policy' = policy, nvs'["ghauto"] = nvs["ghauto"]
        PROVE  PolicyRead'
    BY <1>4 DEF PolicyRead
  <1>5. ASSUME NEW ok \in BOOLEAN,
               \/ StageReference(ok) \/ PromoteWrite(ok) \/ PromoteErase \/ DiscardTrial(ok)
               \/ \E key \in InstallKey : CreateKey(key, ok)
               \/ \E cred \in Cred : StageRecord(cred, ok)
        PROVE  PolicyRead'
    <2>1. at \in InService /\ policy' = policy
      BY <1>5 DEF StageReference, PromoteWrite, PromoteErase, DiscardTrial, CreateKey, StageRecord,
         InService
    <2>2. \E k \in {"trial", "active", "enroll", "cfgA", "cfgB"} : \E v : \E done \in BOOLEAN :
            CheckedWrite(k, v, done)
      <3>1. CASE \E cred \in Cred : StageRecord(cred, ok)
        BY <3>1 DEF StageRecord, SlotKey
      <3>2. CASE \E key \in InstallKey : CreateKey(key, ok)
        BY <3>2 DEF CreateKey
      <3>3. CASE StageReference(ok) \/ PromoteWrite(ok) \/ PromoteErase \/ DiscardTrial(ok)
        BY <3>3 DEF StageReference, PromoteWrite, PromoteErase, DiscardTrial, CheckedErase,
           UncheckedErase, CheckedWrite
      <3> QED BY <1>5, <3>1, <3>2, <3>3
    <2>3. nvs'["ghauto"] = nvs["ghauto"]
      BY <1>0, <2>2, WriteEffect, Keys
    <2> QED BY <1>1, <1>4, <2>1, <2>3
  <1>6. CASE ReuseKey \/ HandOffKey \/ MisusedTrial \/ NetworkFault \/ UNCHANGED vars
    <2>1. nvs' = nvs /\ policy' = policy /\ (at \in InService \/ at' = at)
      BY <1>6 DEF ReuseKey, HandOffKey, MisusedTrial, NetworkFault, vars, InService
    <2> QED BY <2>1, <1>1 DEF PolicyRead
  <1>7. CASE \/ PowerCut
             \/ \E k \in Key : Rot(k)
             \/ \E asked \in BOOLEAN : PowerOn(asked)
             \/ \E pending \in BOOLEAN : GateReset(pending)
             \/ ResumeReset
             \/ \E ok \in BOOLEAN : MarkReset(ok) \/ EraseNext(ok)
    <2>1. at' \notin InService
      BY <1>7 DEF PowerCut, Rot, PowerOn, GateReset, ResumeReset, MarkReset, EraseNext, Fail, InService
    <2> QED BY <1>1, <2>1
  <1> QED BY <1>2, <1>3, <1>5, <1>6, <1>7 DEF Next

\* Automatic updates are on in RAM only if they stay on after a reboot, and a
\* healthy OFF is never a durable ON.
THEOREM PolicyIsDurable == Spec => []PolicyMirrorsDurable
  <1>1. Init => IInv /\ PolicyRead
    <2>1. Init => PolicyRead
      BY DEF Init, PolicyRead, InService
    <2> QED BY <2>1, InvariantInit
  <1>2. (IInv /\ PolicyRead) /\ [Next]_vars => (IInv /\ PolicyRead)'
    BY InvariantStep, PolicyStep
  <1>3. PolicyRead => PolicyMirrorsDurable
    BY DEF PolicyRead, PolicyMirrorsDurable, InService
  <1> QED BY <1>1, <1>2, <1>3, PTL DEF Spec
=============================================================================
