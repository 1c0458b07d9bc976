----------------------------- MODULE FlashLayout -----------------------------
(***************************************************************************)
(* scripts/validate_memory_budget.py and the hook that calls it after a    *)
(* build: the budget document, the PlatformIO configuration, the partition *)
(* table, swept in the order of the offsets, the image and, if there is    *)
(* one, a heap sample.  The first check that fails ends the validation.    *)
(***************************************************************************)
EXTENDS Integers, Sequences

CONSTANTS
    Page, AppAlign,     \* 0x1000, 0x10000
    FlashSize,          \* targetBytes
    TableEnd,           \* the end of the partition table
    Contract,           \* the budget document that is expected
    MinHeap,            \* measurement -> the least value
    PinnedArchive,      \* ESPTOOL_ARCHIVE_SHA256
    Missing,
    Plans, Tables, Setups, Images, Samples      \* what the files may hold

OtaSlots == {"ota_0", "ota_1"}
AppKind == OtaSlots \cup {"factory"}
PartitionKind == AppKind \cup {"data", "filesystem"}
Partition == [name : STRING, kind : PartitionKind, offset : Nat, size : Nat]

ASSUME FlashAssumption ==
    /\ {Page, AppAlign, FlashSize, TableEnd} \subseteq Nat
    /\ Tables \subseteq Seq(Partition)
    /\ \A p \in Plans \cup {Contract} : p.limit \in Nat /\ p.spare \in Nat
    /\ Images \subseteq Nat /\ Missing \notin Images

VARIABLES
    plan,           \* the budget: partitions, image limit and spare
    table,          \* the rows of the partition CSV
    setup,          \* the PlatformIO configuration: deviations, local override
    image, sample,  \* the size of the image; heap measurements; or Missing
    gate,           \* the check that comes next, "pass" or "fail"
    swept,          \* the rows the sweep has passed
    previousEnd     \* where the last of them ends

flashInputs == <<plan, table, setup, image, sample>>
flashVars == <<plan, table, setup, image, sample, gate, swept, previousEnd>>

FlashInit ==
    /\ plan = Contract /\ table = <<>> /\ setup = [deviations |-> {}, override |-> Missing]
    /\ image = Missing /\ sample = Missing
    /\ gate = "start" /\ swept = {} /\ previousEnd = TableEnd

PartEnd(row) == row.offset + row.size

\* validate_repository_budget with its callers, or validate_partition_layout
\* alone with a budget of the caller's.
ReadFiles ==
    /\ gate = "start"
    /\ plan' \in Plans /\ table' \in Tables /\ setup' \in Setups
    /\ \/ gate' = "contract" /\ image' \in Images \cup {Missing} /\ sample' \in Samples \cup {Missing}
       \/ gate' = "match" /\ image' = Missing /\ sample' = Missing
    /\ UNCHANGED <<swept, previousEnd>>

\* A check passes on to the next one or fails.
Pass(from, ok, to) ==
    /\ gate = from
    /\ gate' = IF ok THEN to ELSE "fail"
    /\ UNCHANGED flashInputs

CheckContract ==
    Pass("contract", plan = Contract, "config") /\ UNCHANGED <<swept, previousEnd>>

\* The local override may replace the esptool package by one archive only.
OverrideAccepted ==
    setup.override \in {Missing, [only |-> TRUE, digest |-> PinnedArchive]}
CheckConfig ==
    /\ Pass("config", setup.deviations = {} /\ OverrideAccepted, "match")
    /\ UNCHANGED <<swept, previousEnd>>

\* Names are unique, and every partition is what the budget says.
AsPlanned ==
    /\ table # <<>>
    /\ \A i, j \in DOMAIN table : table[i].name = table[j].name => i = j
    /\ {table[i].name : i \in DOMAIN table} = DOMAIN plan.parts
    /\ \A i \in DOMAIN table :
         LET row == table[i] IN
           [kind |-> row.kind, offset |-> row.offset, size |-> row.size] = plan.parts[row.name]
CheckRows == Pass("match", AsPlanned, "sweep") /\ UNCHANGED <<swept, previousEnd>>

\* sorted() by offset, which keeps equal ones in their order.
IsNext(i) ==
    /\ i \in DOMAIN table \ swept
    /\ \A j \in DOMAIN table \ swept :
         \/ table[i].offset < table[j].offset
         \/ table[i].offset = table[j].offset /\ i <= j
Alignment(row) == IF row.kind \in AppKind THEN AppAlign ELSE Page
Placed(row) ==
    /\ row.size > 0
    /\ row.offset % Alignment(row) = 0 /\ row.size % Page = 0
    /\ row.offset >= previousEnd
    /\ PartEnd(row) <= FlashSize
    /\ row.kind # "filesystem"
SweptToStart(row) == row.offset             \* mutant: where it begins
SweptTo(row) == PartEnd(row)
Sweep(i) ==
    /\ IsNext(i)
    /\ Pass("sweep", Placed(table[i]), "sweep")
    /\ swept' = swept \cup {i}
    /\ previousEnd' = SweptTo(table[i])

Apps == {i \in DOMAIN table : table[i].kind \in AppKind}
SlotsFit ==
    /\ {table[i].kind : i \in Apps} = OtaSlots
    /\ \A i \in Apps : plan.limit <= table[i].size
    /\ \A i \in DOMAIN table : FlashSize - PartEnd(table[i]) >= plan.spare
CheckSlots ==
    /\ swept = DOMAIN table
    /\ Pass("sweep", SlotsFit, "image")
    /\ UNCHANGED <<swept, previousEnd>>

ImageFits == image = Missing \/ (image > 0 /\ image <= plan.limit)
CheckImage == Pass("image", ImageFits, "sample") /\ UNCHANGED <<swept, previousEnd>>

HeapSuffices == sample = Missing \/ \A k \in DOMAIN MinHeap : sample[k] >= MinHeap[k]
CheckSample == Pass("sample", HeapSuffices, "pass") /\ UNCHANGED <<swept, previousEnd>>

FlashNext ==
    \/ ReadFiles
    \/ CheckContract \/ CheckConfig \/ CheckRows
    \/ \E i \in DOMAIN table : Sweep(i)
    \/ CheckSlots \/ CheckImage \/ CheckSample

FlashSpec == FlashInit /\ [][FlashNext]_flashVars

-----------------------------------------------------------------------------
Apart(r, s) == PartEnd(r) <= s.offset \/ PartEnd(s) <= r.offset

\* Whatever budget a table is compared with (the tests pass budgets of their
\* own), an accepted one is a layout the bootloader can use: partitions overlap
\* neither each other nor the partition table and stay in the flash, there are
\* update slots, and an accepted image fits into either of them
\* (validate_partition_layout, validate_firmware_image).
AcceptedLayoutIsSound ==
    gate = "pass" =>
        /\ \A i, j \in DOMAIN table : i # j => Apart(table[i], table[j])
        /\ \A i \in DOMAIN table : TableEnd <= table[i].offset /\ PartEnd(table[i]) <= FlashSize
        /\ Apps # {}
        /\ image # Missing => \A i \in Apps : image <= table[i].size
=============================================================================
