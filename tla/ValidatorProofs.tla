--------------------------- MODULE ValidatorProofs ---------------------------
(***************************************************************************)
(* That the validators accept nothing on less than they stand for: the     *)
(* memory budget a layout, the project loop a ledger, the milestone gates  *)
(* their reports, the evidence packets a gate, the capture a trailer.  One *)
(* section each; the sections share nothing but the prover.                *)
(***************************************************************************)
EXTENDS FlashLayout, ProjectLoop, MilestoneGates, EvidencePacket, CaptureStream,
        SequenceTheorems, TLAPS

-----------------------------------------------------------------------------
(* That a layout which passes the memory budget is sound, for every budget *)
(* and every partition table.  The sweep compares a partition only with    *)
(* where the one before it ended; the invariant says what it has thereby   *)
(* learnt about all of those that it has passed.                           *)

FlashTypeOK ==
    /\ plan.limit \in Nat
    /\ table \in Seq(Partition)
    /\ image = Missing \/ image \in Nat
    /\ swept \subseteq DOMAIN table
    /\ previousEnd \in Nat

\* Before the sweep nothing is passed.
NotBegun ==
    gate \in {"start", "contract", "config", "match"} => swept = {} /\ previousEnd = TableEnd
\* What was passed lies between the partition table and the end of the sweep.
Behind ==
    /\ TableEnd <= previousEnd
    /\ \A i \in swept :
         /\ TableEnd <= table[i].offset
         /\ PartEnd(table[i]) <= previousEnd /\ PartEnd(table[i]) <= FlashSize
Separate == \A i, j \in swept : i # j => Apart(table[i], table[j])
\* What the later checks have added.
Judged ==
    /\ gate \in {"image", "sample", "pass"} => swept = DOMAIN table /\ SlotsFit
    /\ gate \in {"sample", "pass"} => ImageFits

FlashInv == FlashTypeOK /\ (gate # "fail" => NotBegun /\ Behind /\ Separate /\ Judged)

-----------------------------------------------------------------------------
\* A row of a table has numbers for its place.
LEMMA RowNumbers ==
    ASSUME NEW i \in DOMAIN table, table \in Seq(Partition)
    PROVE  /\ table[i] \in Partition
           /\ table[i].offset \in Nat /\ table[i].size \in Nat
           /\ PartEnd(table[i]) \in Nat
<1>1. table[i] \in Partition
  OBVIOUS
<1>2. table[i].offset \in Nat /\ table[i].size \in Nat
  BY <1>1 DEF Partition
<1> QED BY <1>1, <1>2 DEF PartEnd

\* A step that leaves the sweep alone and does not skip it keeps what it has
\* learnt.
LEMMA SweepKept ==
    ASSUME FlashInv, gate # "fail", UNCHANGED <<flashInputs, swept, previousEnd>>
    PROVE  FlashTypeOK' /\ Behind' /\ Separate'
<1>1. /\ table' = table /\ swept' = swept /\ previousEnd' = previousEnd
      /\ plan' = plan /\ image' = image
  BY DEF flashInputs
<1>2. FlashTypeOK'
  BY <1>1 DEF FlashInv, FlashTypeOK
<1>3. Behind'
  BY <1>1 DEF FlashInv, Behind, PartEnd
<1>4. Separate'
  BY <1>1 DEF FlashInv, Separate, Apart, PartEnd
<1> QED BY <1>2, <1>3, <1>4

LEMMA InitEstablishes ==
    ASSUME FlashInit
    PROVE  FlashInv
<1>1. plan.limit \in Nat /\ TableEnd \in Nat
  BY FlashAssumption DEF FlashInit
<1>2. table \in Seq(Partition) /\ swept = {} /\ image = Missing /\ previousEnd = TableEnd /\ gate = "start"
  BY DEF FlashInit
<1>3. FlashTypeOK
  BY <1>1, <1>2 DEF FlashTypeOK
<1>4. NotBegun /\ Behind /\ Separate /\ Judged
  BY <1>1, <1>2 DEF NotBegun, Behind, Separate, Judged
<1> QED BY <1>3, <1>4 DEF FlashInv

LEMMA ReadFilesPreserves ==
    ASSUME FlashInv, ReadFiles
    PROVE  FlashInv'
<1>1. gate = "start" /\ swept = {} /\ previousEnd = TableEnd /\ TableEnd \in Nat
  BY FlashAssumption DEF FlashInv, NotBegun, ReadFiles
<1>2. swept' = {} /\ previousEnd' = TableEnd
  BY <1>1 DEF ReadFiles
<1>3. plan' \in Plans /\ table' \in Tables /\ image' \in Images \cup {Missing} /\ gate' \in {"contract", "match"}
  BY DEF ReadFiles
<1>4. plan'.limit \in Nat /\ table' \in Seq(Partition) /\ (image' = Missing \/ image' \in Nat)
  BY <1>3, FlashAssumption
<1>5. FlashTypeOK'
  BY <1>1, <1>2, <1>4 DEF FlashTypeOK
<1>6. NotBegun' /\ Behind' /\ Separate' /\ Judged'
  BY <1>1, <1>2, <1>3 DEF NotBegun, Behind, Separate, Judged
<1> QED BY <1>5, <1>6 DEF FlashInv

\* The checks before the sweep.
LEMMA EarlyCheckPreserves ==
    ASSUME FlashInv, CheckContract \/ CheckConfig \/ CheckRows
    PROVE  FlashInv'
<1>1. /\ gate \in {"contract", "config", "match"}
      /\ gate' \in {"config", "match", "sweep", "fail"}
      /\ UNCHANGED <<flashInputs, swept, previousEnd>>
  BY DEF CheckContract, CheckConfig, CheckRows, Pass
<1>2. FlashTypeOK' /\ Behind' /\ Separate'
  BY <1>1, SweepKept
<1>3. swept' = swept /\ previousEnd' = previousEnd
  BY <1>1
<1>4. NotBegun'
  BY <1>1, <1>3 DEF FlashInv, NotBegun
<1>5. Judged'
  BY <1>1 DEF Judged
<1> QED BY <1>2, <1>4, <1>5 DEF FlashInv

LEMMA SweepPreserves ==
    ASSUME FlashInv, NEW i \in DOMAIN table, Sweep(i)
    PROVE  FlashInv'
<1>1. /\ table \in Seq(Partition) /\ swept \subseteq DOMAIN table /\ previousEnd \in Nat
      /\ Behind /\ Separate
      /\ gate = "sweep"
  BY DEF FlashInv, FlashTypeOK, Sweep, Pass
<1>2. /\ table' = table /\ plan' = plan /\ image' = image
      /\ swept' = swept \cup {i} /\ previousEnd' = PartEnd(table[i])
      /\ gate' = IF Placed(table[i]) THEN "sweep" ELSE "fail"
  BY DEF Sweep, Pass, SweptTo, flashInputs
<1>3. PartEnd(table[i]) \in Nat
  BY <1>1, RowNumbers
<1>4. FlashTypeOK'
  BY <1>1, <1>2, <1>3 DEF FlashInv, FlashTypeOK
<1>5. SUFFICES ASSUME gate' # "fail"
               PROVE  NotBegun' /\ Behind' /\ Separate' /\ Judged'
  BY <1>4 DEF FlashInv
<1>6. /\ table[i].offset >= previousEnd /\ PartEnd(table[i]) <= FlashSize
      /\ gate' = "sweep"
  BY <1>2, <1>5 DEF Placed
<1>7. NotBegun' /\ Judged'
  BY <1>6 DEF NotBegun, Judged
<1>8. previousEnd <= PartEnd(table[i]) /\ TableEnd <= table[i].offset /\ TableEnd <= PartEnd(table[i])
  <2>1. table[i].offset \in Nat /\ table[i].size \in Nat
    BY <1>1, RowNumbers
  <2>2. TableEnd \in Nat /\ TableEnd <= previousEnd
    BY <1>1, FlashAssumption DEF Behind
  <2> QED BY <1>1, <1>6, <2>1, <2>2 DEF PartEnd
<1>9. Behind'
  <2>1. TableEnd <= previousEnd'
    BY <1>2, <1>8
  <2>2. ASSUME NEW j \in swept'
        PROVE  /\ TableEnd <= table'[j].offset
               /\ PartEnd(table'[j]) <= previousEnd' /\ PartEnd(table'[j]) <= FlashSize
    <3>1. CASE j = i
      BY <1>2, <1>3, <1>6, <1>8, <3>1
    <3>2. CASE j \in swept
      <4>1. /\ TableEnd <= table[j].offset
            /\ PartEnd(table[j]) <= previousEnd /\ PartEnd(table[j]) <= FlashSize
        BY <1>1, <3>2 DEF Behind
      <4>2. PartEnd(table[j]) \in Nat
        BY <1>1, <3>2, RowNumbers
      <4> QED BY <1>1, <1>2, <1>3, <1>8, <4>1, <4>2
    <3> QED BY <1>2, <2>2, <3>1, <3>2
  <2> QED BY <1>2, <2>1, <2>2 DEF Behind, PartEnd
<1>10. Separate'
  <2>1. \A j \in swept : Apart(table[j], table[i]) /\ Apart(table[i], table[j])
    <3> TAKE j \in swept
    <3>1. PartEnd(table[j]) <= previousEnd
      BY <1>1 DEF Behind
    <3>2. PartEnd(table[j]) \in Nat /\ table[i].offset \in Nat
      BY <1>1, RowNumbers
    <3> QED BY <1>1, <1>6, <3>1, <3>2 DEF Apart
  <2>2. \A j, k \in swept \cup {i} : j # k => Apart(table[j], table[k])
    BY <1>1, <2>1 DEF Separate
  <2> QED BY <1>2, <2>2 DEF Separate, Apart, PartEnd
<1> QED BY <1>7, <1>9, <1>10

LEMMA CheckSlotsPreserves ==
    ASSUME FlashInv, CheckSlots
    PROVE  FlashInv'
<1>1. /\ gate = "sweep" /\ swept = DOMAIN table
      /\ gate' = IF SlotsFit THEN "image" ELSE "fail"
      /\ UNCHANGED <<flashInputs, swept, previousEnd>>
  BY DEF CheckSlots, Pass
<1>2. FlashTypeOK' /\ Behind' /\ Separate'
  BY <1>1, SweepKept
<1>3. table' = table /\ plan' = plan /\ swept' = swept
  BY <1>1 DEF flashInputs
<1>4. gate' # "fail" => SlotsFit' /\ swept' = DOMAIN table'
  BY <1>1, <1>3 DEF SlotsFit, Apps, PartEnd
<1>5. gate' # "fail" => NotBegun' /\ Judged'
  BY <1>1, <1>4 DEF NotBegun, Judged
<1> QED BY <1>2, <1>5 DEF FlashInv

LEMMA LateCheckPreserves ==
    ASSUME FlashInv, CheckImage \/ CheckSample
    PROVE  FlashInv'
<1>1. /\ gate \in {"image", "sample"}
      /\ UNCHANGED <<flashInputs, swept, previousEnd>>
      /\ gate' \in {"sample", "pass", "fail"}
      /\ gate' # "fail" /\ gate = "image" => ImageFits
  BY DEF CheckImage, CheckSample, Pass
<1>2. FlashTypeOK' /\ Behind' /\ Separate'
  BY <1>1, SweepKept
<1>3. table' = table /\ plan' = plan /\ swept' = swept /\ image' = image
  BY <1>1 DEF flashInputs
<1>4. SlotsFit /\ swept = DOMAIN table /\ (gate' # "fail" => ImageFits)
  BY <1>1 DEF FlashInv, Judged
<1>5. SlotsFit' /\ swept' = DOMAIN table' /\ (gate' # "fail" => ImageFits')
  BY <1>3, <1>4 DEF SlotsFit, Apps, PartEnd, ImageFits
<1>6. gate' # "fail" => NotBegun' /\ Judged'
  BY <1>1, <1>5 DEF NotBegun, Judged
<1> QED BY <1>2, <1>6 DEF FlashInv

\* What the sweep has learnt holds throughout a validation
\* (validate_partition_layout, main).
THEOREM SweepIsSound == FlashSpec => []FlashInv
<1>1. FlashInit => FlashInv
  BY InitEstablishes
<1>2. FlashInv /\ [FlashNext]_flashVars => FlashInv'
  <2> SUFFICES ASSUME FlashInv, [FlashNext]_flashVars PROVE FlashInv'
    OBVIOUS
  <2>1. CASE ReadFiles
    BY <2>1, ReadFilesPreserves
  <2>2. CASE CheckContract \/ CheckConfig \/ CheckRows
    BY <2>2, EarlyCheckPreserves
  <2>3. CASE \E i \in DOMAIN table : Sweep(i)
    BY <2>3, SweepPreserves
  <2>4. CASE CheckSlots
    BY <2>4, CheckSlotsPreserves
  <2>5. CASE CheckImage \/ CheckSample
    BY <2>5, LateCheckPreserves
  <2>6. CASE UNCHANGED flashVars
    <3>1. /\ plan' = plan /\ table' = table /\ image' = image /\ gate' = gate
          /\ swept' = swept /\ previousEnd' = previousEnd
      BY <2>6 DEF flashVars
    <3>2. FlashTypeOK'
      BY <3>1 DEF FlashInv, FlashTypeOK
    <3>3. gate # "fail" => NotBegun' /\ Behind' /\ Separate' /\ Judged'
      BY <3>1 DEF FlashInv, NotBegun, Behind, Separate, Judged, Apart, SlotsFit, Apps, ImageFits, PartEnd
    <3> QED BY <3>1, <3>2, <3>3 DEF FlashInv
  <2> QED BY <2>1, <2>2, <2>3, <2>4, <2>5, <2>6 DEF FlashNext
<1> QED BY <1>1, <1>2, PTL DEF FlashSpec

LEMMA InvImpliesSound ==
    ASSUME FlashInv
    PROVE  AcceptedLayoutIsSound
<1> SUFFICES ASSUME gate = "pass" PROVE
        /\ \A i, j \in DOMAIN table : i # j => Apart(table[i], table[j])
        /\ \A i \in DOMAIN table : TableEnd <= table[i].offset /\ PartEnd(table[i]) <= FlashSize
        /\ Apps # {}
        /\ image # Missing => \A i \in Apps : image <= table[i].size
  BY DEF AcceptedLayoutIsSound
<1>1. swept = DOMAIN table /\ SlotsFit /\ ImageFits /\ Behind /\ Separate
  BY DEF FlashInv, Judged
<1>2. \A i, j \in DOMAIN table : i # j => Apart(table[i], table[j])
  BY <1>1 DEF Separate
<1>3. \A i \in DOMAIN table : TableEnd <= table[i].offset /\ PartEnd(table[i]) <= FlashSize
  BY <1>1 DEF Behind
<1>4. Apps # {}
  BY <1>1 DEF SlotsFit, OtaSlots
<1>5. ASSUME image # Missing, NEW i \in Apps
      PROVE  image <= table[i].size
  <2>1. image \in Nat /\ image <= plan.limit /\ plan.limit \in Nat
    BY <1>1, <1>5 DEF ImageFits, FlashInv, FlashTypeOK
  <2>2. i \in DOMAIN table /\ table \in Seq(Partition)
    BY DEF Apps, FlashInv, FlashTypeOK
  <2>3. table[i].size \in Nat
    BY <2>2, RowNumbers
  <2>4. plan.limit <= table[i].size
    BY <1>1 DEF SlotsFit
  <2> QED BY <2>1, <2>3, <2>4
<1> QED BY <1>2, <1>3, <1>4, <1>5

\* A layout that passes is one the bootloader can use, whatever the budget, the
\* table and the image (validate_partition_layout, validate_firmware_image).
THEOREM SoundLayout == FlashSpec => []AcceptedLayoutIsSound
<1>1. FlashInv => AcceptedLayoutIsSound
  BY InvImpliesSound
<1> QED BY <1>1, SweepIsSound, PTL

-----------------------------------------------------------------------------
(* That a row of the experiment ledger vouches for all that is above it,   *)
(* for every sealed prefix, every bound and every way of editing the file: *)
(* nothing is assumed of what the ledger holds.                            *)
(*                                                                         *)
(* The chain is followed upwards by the validator's own steps: when line k *)
(* passes, what holds of line k - 1 and of the ledger that passed before   *)
(* is carried over by the one link that is compared.                       *)

Trusted ==
    \/ trusted = <<>>
    \/ /\ Len(trusted) \in Nat
       /\ HasPrefix(trusted) /\ \A j \in Later(trusted) : Linked(trusted, j)
\* Of the lines that passed, each vouches for those above it.
Vouched ==
    \A i \in (Len(Sealed) + 1)..line, j \in Later(trusted) :
        raw[i] = trusted[j] => i = j /\ \A k \in 1..i : raw[k] = trusted[k]
ReadSoFar ==
    verdict # "fail" /\ line >= 0 =>
        HasPrefix(raw) /\ (\A i \in 1..line : Linked(raw, i)) /\ Vouched
\* Whoever comes past the ledger has read all of it.
AllRead ==
    (verdict = "running" /\ part > LedgerAt) \/ verdict = "pass" => line >= 0 /\ line = Len(raw)

LoopInv ==
    /\ line \in Int /\ line >= -1 /\ part \in Nat
    /\ line = -1 => raw = <<>>
    /\ Trusted /\ ReadSoFar /\ AllRead

-----------------------------------------------------------------------------
\* The sealed rows are not complete ones.
LEMMA SealedIsOpen ==
    /\ Len(Sealed) \in Nat /\ Len(Sealed) >= 1
    /\ Len(Sealed) \in DOMAIN Sealed
    /\ DOMAIN Sealed = 1..Len(Sealed)
    /\ Sealed[Len(Sealed)].full = FALSE
<1>1. Sealed \in Seq([text : Texts, time : Nat, link : {NoLink}, full : {FALSE}]) /\ Sealed # <<>>
  BY LoopAssumption
<1>2. Len(Sealed) \in Nat /\ Len(Sealed) >= 1 /\ DOMAIN Sealed = 1..Len(Sealed)
  BY <1>1
<1>3. Len(Sealed) \in DOMAIN Sealed
  BY <1>2
<1>4. Sealed[Len(Sealed)].full \in {FALSE}
  <2> DEFINE Open == [text : Texts, time : Nat, link : {NoLink}, full : {FALSE}]
  <2>1. \A row \in Open : row.full \in {FALSE}
    OBVIOUS
  <2>2. Sealed \in Seq(Open)
    BY <1>1
  <2> HIDE DEF Open
  <2>3. Sealed[Len(Sealed)] \in Open
    BY <1>2, <2>2
  <2> QED BY <2>1, <2>3
<1> QED BY <1>2, <1>3, <1>4

\* One more line that is linked vouches for those above it.
LEMMA NextLineVouches ==
    ASSUME NEW n \in Nat, HasPrefix(raw), \A i \in 1..n : Linked(raw, i), Linked(raw, n + 1),
           Trusted,
           \A i \in (Len(Sealed) + 1)..n, j \in Later(trusted) :
               raw[i] = trusted[j] => i = j /\ \A k \in 1..i : raw[k] = trusted[k],
           NEW j \in Later(trusted), n + 1 > Len(Sealed), raw[n + 1] = trusted[j]
    PROVE  n + 1 = j /\ \A k \in 1..(n + 1) : raw[k] = trusted[k]
<1> DEFINE s == Len(Sealed)
<1>1. s \in Nat /\ s >= 1 /\ s \in DOMAIN Sealed /\ DOMAIN Sealed = 1..s /\ Sealed[s].full = FALSE
  BY SealedIsOpen
<1>2. j \in Int /\ j > s /\ j <= Len(trusted)
  BY <1>1 DEF Later
<1>3. trusted # <<>>
  <2> SUFFICES ASSUME trusted = <<>> PROVE FALSE
    OBVIOUS
  <2>1. Len(trusted) = 0
    OBVIOUS
  <2> QED BY <1>1, <1>2, <2>1
<1>4. Len(trusted) \in Nat /\ HasPrefix(trusted) /\ Linked(trusted, j)
  BY <1>3 DEF Trusted
<1>5. raw[n] = trusted[j - 1]
  <2>1. raw[n + 1].link = <<raw[(n + 1) - 1]>> /\ (n + 1) - 1 = n
    BY DEF Linked, Digest
  <2>2. trusted[j].link = <<trusted[j - 1]>>
    BY <1>1, <1>2, <1>4 DEF Linked, Digest
  <2>3. <<raw[n]>> = <<trusted[j - 1]>>
    BY <2>1, <2>2
  <2> QED BY <2>3
<1>6. n >= s /\ j - 1 >= s
  BY <1>1, <1>2
<1>7. \A k \in 1..s : raw[k] = Sealed[k] /\ trusted[k] = Sealed[k]
  BY <1>1, <1>4 DEF HasPrefix
<1>8. j - 1 # s => j - 1 \in Later(trusted) /\ trusted[j - 1].full
  <2> SUFFICES ASSUME j - 1 # s PROVE j - 1 \in Later(trusted) /\ trusted[j - 1].full
    OBVIOUS
  <2>1. j - 1 \in Later(trusted) /\ j - 1 > s
    BY <1>1, <1>2, <1>4, <1>6 DEF Later
  <2> QED BY <1>3, <2>1 DEF Trusted, Linked
<1>9. CASE n = s
  <2>1. j - 1 = s
    BY <1>1, <1>5, <1>7, <1>8, <1>9
  <2>2. n + 1 = j
    BY <1>2, <1>9, <2>1
  <2>3. \A k \in 1..(n + 1) : k \in 1..s \/ k = n + 1
    BY <1>1, <1>9
  <2> QED BY <1>7, <2>2, <2>3
<1>10. CASE n > s
  <2>1. raw[n].full /\ n \in (s + 1)..n
    BY <1>1, <1>10 DEF Linked
  <2>2. j - 1 # s
    BY <1>1, <1>5, <1>7, <2>1
  <2>3. n = j - 1 /\ \A k \in 1..n : raw[k] = trusted[k]
    BY <1>5, <1>8, <2>1, <2>2
  <2>4. n + 1 = j
    BY <1>2, <2>3
  <2>5. \A k \in 1..(n + 1) : k \in 1..n \/ k = n + 1
    OBVIOUS
  <2>6. ASSUME NEW k \in 1..(n + 1) PROVE raw[k] = trusted[k]
    <3>1. CASE k \in 1..n
      BY <2>3, <3>1
    <3>2. CASE k = n + 1
      BY <2>4, <3>2
    <3> QED BY <2>5, <3>1, <3>2
  <2> QED BY <2>4, <2>6
<1>11. n = s \/ n > s
  <2>1. n \in Nat /\ s \in Nat /\ n >= s
    BY <1>1, <1>6
  <2> HIDE DEF s
  <2> QED BY ONLY <2>1
<1> QED BY <1>9, <1>10, <1>11

-----------------------------------------------------------------------------
LEMMA LoopInitial == LoopInit => LoopInv
<1> SUFFICES ASSUME LoopInit PROVE LoopInv
  OBVIOUS
<1>1. /\ raw = <<>> /\ part = 1 /\ line = -1 /\ verdict = "none" /\ trusted = <<>>
  BY DEF LoopInit
<1> QED BY <1>1 DEF LoopInv, Trusted, ReadSoFar, AllRead

\* Whatever is done to the repository leaves the validator's state alone.
LEMMA ValidatorUnmoved ==
    ASSUME LoopInv, UNCHANGED <<raw, part, line, verdict, trusted>>
    PROVE  LoopInv'
<1>1. raw' = raw /\ part' = part /\ line' = line /\ verdict' = verdict /\ trusted' = trusted
  OBVIOUS
<1> QED BY <1>1 DEF LoopInv, Trusted, ReadSoFar, AllRead, Vouched, HasPrefix, Linked, Later

LEMMA ValidateKeeps == ASSUME LoopInv, Validate PROVE LoopInv'
<1>1. /\ verdict # "running"
      /\ trusted' = IF verdict = "pass" THEN raw ELSE trusted
      /\ verdict' = "running" /\ part' = 1 /\ line' = -1 /\ raw' = <<>>
  BY DEF Validate
<1>2. Trusted'
  <2>1. CASE verdict = "pass"
    <3>1. line \in Nat /\ line = Len(raw) /\ trusted' = raw
      BY <1>1, <2>1 DEF LoopInv, AllRead
    <3>2. HasPrefix(raw) /\ \A i \in 1..line : Linked(raw, i)
      BY <2>1, <3>1 DEF LoopInv, ReadSoFar
    <3>3. \A i \in Later(raw) : i \in 1..line
      BY <3>1, SealedIsOpen DEF Later
    <3>4. HasPrefix(raw) /\ \A i \in Later(raw) : Linked(raw, i)
      BY <3>2, <3>3
    <3> QED BY <3>1, <3>4 DEF Trusted, HasPrefix, Later, Linked
  <2>2. CASE verdict # "pass"
    <3>1. trusted' = trusted
      BY <1>1, <2>2
    <3> QED BY <3>1 DEF LoopInv, Trusted, HasPrefix, Later, Linked
  <2> QED BY <2>1, <2>2
<1> QED BY <1>1, <1>2 DEF LoopInv, ReadSoFar, AllRead, LedgerAt

LEMMA CheckPartKeeps == ASSUME LoopInv, CheckPart PROVE LoopInv'
<1>1. /\ verdict = "running"
      /\ part = LedgerAt => line = Len(raw)
      /\ part' = part + 1 /\ raw' = raw /\ line' = line /\ trusted' = trusted
      /\ verdict' = "running" \/ verdict' = "fail"
  BY DEF CheckPart, Running, Verdict, files
<1>2. part \in Nat /\ line \in Int /\ line >= -1
  BY DEF LoopInv
<1>3. part = LedgerAt => line >= 0 /\ line = Len(raw)
  <2> SUFFICES ASSUME part = LedgerAt, line = -1 PROVE FALSE
    BY <1>1, <1>2
  <2>1. Len(raw) = 0
    BY DEF LoopInv
  <2> QED BY <1>1, <2>1
<1>4. Trusted'
  BY <1>1 DEF LoopInv, Trusted, HasPrefix, Later, Linked
<1>5. ReadSoFar'
  BY <1>1 DEF LoopInv, ReadSoFar, Vouched, HasPrefix, Later, Linked
<1>6. AllRead'
  <2>1. part' > LedgerAt => part = LedgerAt \/ part > LedgerAt
    BY <1>1, <1>2 DEF LedgerAt
  <2>2. part > LedgerAt => line >= 0 /\ line = Len(raw)
    BY <1>1 DEF LoopInv, AllRead
  <2> QED BY <1>1, <1>3, <2>1, <2>2 DEF AllRead
<1> QED BY <1>1, <1>2, <1>4, <1>5, <1>6 DEF LoopInv

LEMMA ReadLedgerKeeps == ASSUME LoopInv, ReadLedger PROVE LoopInv'
<1>1. /\ verdict = "running" /\ part = LedgerAt
      /\ part' = part /\ raw' = ledger /\ line' = 0 /\ trusted' = trusted
      /\ verdict' = IF HasPrefix(ledger) THEN verdict ELSE "fail"
  BY DEF ReadLedger, Running, Verdict, files
<1>2. Trusted'
  BY <1>1 DEF LoopInv, Trusted, HasPrefix, Later, Linked
<1>3. ReadSoFar'
  <2> SUFFICES ASSUME verdict' # "fail" PROVE HasPrefix(raw') /\ Vouched'
    BY <1>1 DEF ReadSoFar, HasPrefix, Linked
  <2>1. HasPrefix(raw')
    BY <1>1
  <2>2. (Len(Sealed) + 1)..line' = {}
    BY <1>1, SealedIsOpen
  <2> QED BY <2>1, <2>2 DEF Vouched
<1>4. AllRead'
  BY <1>1 DEF AllRead, LedgerAt
<1>5. part' \in Nat
  BY <1>1 DEF LedgerAt
<1> QED BY <1>1, <1>2, <1>3, <1>4, <1>5 DEF LoopInv

LEMMA CheckLineKeeps == ASSUME LoopInv, CheckLine PROVE LoopInv'
<1>1. /\ verdict = "running" /\ part = LedgerAt /\ line >= 0
      /\ part' = part /\ raw' = raw /\ line' = line + 1 /\ trusted' = trusted
      /\ verdict' # "fail" => Linked(raw, line + 1)
      /\ verdict' = "running" \/ verdict' = "fail"
  BY DEF CheckLine, Running, Verdict, files
<1>2. line \in Nat /\ part \in Nat
  BY <1>1 DEF LoopInv
<1>3. Trusted'
  BY <1>1 DEF LoopInv, Trusted, HasPrefix, Later, Linked
<1>4. HasPrefix(raw) /\ (\A i \in 1..line : Linked(raw, i)) /\ Vouched /\ Trusted
  BY <1>1 DEF LoopInv, ReadSoFar
<1>5. ReadSoFar'
  <2> SUFFICES ASSUME Linked(raw, line + 1)
               PROVE  (\A i \in 1..(line + 1) : Linked(raw, i)) /\ Vouched'
    BY <1>1, <1>4 DEF ReadSoFar, HasPrefix, Linked
  <2>1. \A i \in 1..(line + 1) : i \in 1..line \/ i = line + 1
    BY <1>2
  <2>2. \A i \in 1..(line + 1) : Linked(raw, i)
    BY <1>4, <2>1
  <2>3. ASSUME NEW i \in (Len(Sealed) + 1)..(line + 1), NEW j \in Later(trusted),
               raw[i] = trusted[j]
        PROVE  i = j /\ \A k \in 1..i : raw[k] = trusted[k]
    <3>1. CASE i = line + 1
      <4>1. line + 1 > Len(Sealed)
        BY <1>2, <3>1, SealedIsOpen
      <4>2. \A a \in (Len(Sealed) + 1)..line, b \in Later(trusted) :
                raw[a] = trusted[b] => a = b /\ \A k \in 1..a : raw[k] = trusted[k]
        BY <1>4 DEF Vouched
      <4>3. raw[line + 1] = trusted[j]
        BY <2>3, <3>1
      <4>4. line + 1 = j /\ \A k \in 1..(line + 1) : raw[k] = trusted[k]
        BY <1>2, <1>4, <4>1, <4>2, <4>3, NextLineVouches
      <4> QED BY <3>1, <4>4
    <3>2. CASE i # line + 1
      <4>1. i \in (Len(Sealed) + 1)..line
        BY <1>2, <3>2, SealedIsOpen
      <4> QED BY <1>4, <2>3, <4>1 DEF Vouched
    <3> QED BY <3>1, <3>2
  <2>4. Vouched'
    BY <1>1, <2>3 DEF Vouched, Later
  <2> QED BY <2>2, <2>4
<1>6. AllRead'
  BY <1>1 DEF AllRead, LedgerAt
<1> QED BY <1>1, <1>2, <1>3, <1>5, <1>6 DEF LoopInv

LEMMA ConcludeKeeps == ASSUME LoopInv, Conclude PROVE LoopInv'
<1>1. /\ verdict = "running" /\ part > LedgerAt /\ verdict' = "pass"
      /\ part' = part /\ raw' = raw /\ line' = line /\ trusted' = trusted
  BY DEF Conclude, Running, Parts, LedgerAt, files
<1>2. line >= 0 /\ line = Len(raw)
  BY <1>1 DEF LoopInv, AllRead
<1>3. Trusted' /\ AllRead'
  BY <1>1, <1>2 DEF LoopInv, Trusted, AllRead, HasPrefix, Later, Linked
<1>4. ReadSoFar'
  BY <1>1, <1>2 DEF LoopInv, ReadSoFar, Vouched, HasPrefix, Later, Linked
<1> QED BY <1>1, <1>3, <1>4 DEF LoopInv

LEMMA LoopStep == LoopInv /\ [LoopNext]_loopVars => LoopInv'
<1> SUFFICES ASSUME LoopInv, [LoopNext]_loopVars PROVE LoopInv'
  OBVIOUS
<1>1. CASE UNCHANGED loopVars
  BY <1>1, ValidatorUnmoved DEF loopVars
<1>2. ASSUME NEW text \in Texts, NEW time \in 0..MaxTime, AppendRow(text, time) PROVE LoopInv'
  BY <1>2, ValidatorUnmoved DEF AppendRow, Idle
<1>3. ASSUME NEW i \in DOMAIN ledger, DropRow(i) \/ SwapRows(i) PROVE LoopInv'
  BY <1>3, ValidatorUnmoved DEF DropRow, SwapRows, Idle
<1>4. ASSUME NEW i \in DOMAIN ledger, NEW j \in DOMAIN ledger, CopyRow(i, j) PROVE LoopInv'
  BY <1>4, ValidatorUnmoved DEF CopyRow, Idle
<1>5. ASSUME NEW i \in DOMAIN ledger, NEW j \in DOMAIN ledger, NEW text \in Texts,
             RewriteRow(i, text, ledger[j])
      PROVE  LoopInv'
  BY <1>5, ValidatorUnmoved DEF RewriteRow, Idle
<1>6. ASSUME NEW i \in DOMAIN Parts, DamagePart(Parts[i]) PROVE LoopInv'
  BY <1>6, ValidatorUnmoved DEF DamagePart, Idle
<1>7. CASE Validate
  BY <1>7, ValidateKeeps
<1>8. CASE CheckPart
  BY <1>8, CheckPartKeeps
<1>9. CASE ReadLedger
  BY <1>9, ReadLedgerKeeps
<1>10. CASE CheckLine
  BY <1>10, CheckLineKeeps
<1>11. CASE Conclude
  BY <1>11, ConcludeKeeps
<1> QED BY <1>1, <1>2, <1>3, <1>4, <1>5, <1>6, <1>7, <1>8, <1>9, <1>10, <1>11 DEF LoopNext

\* What the validator knows while it follows the chain: the ledger that passed
\* before is prefixed and linked throughout, and every line read so far vouches
\* for those above it (validate_ledger, line by line).
THEOREM ChainIsFollowed == LoopSpec => []LoopInv
<1> QED BY LoopInitial, LoopStep, PTL DEF LoopSpec

\* A row after the sealed prefix that two ledgers share, both of which passed,
\* is the same line of both, below the same history (validate_ledger).
THEOREM HistoryIsVouched == LoopSpec => []RowVouchesForHistory
<1>1. LoopInv => RowVouchesForHistory
  <2> SUFFICES ASSUME LoopInv, verdict = "pass"
               PROVE  \A i \in Later(raw), j \in Later(trusted) :
                          raw[i] = trusted[j] => i = j /\ \A k \in 1..i : raw[k] = trusted[k]
    BY DEF RowVouchesForHistory
  <2>1. line >= 0 /\ line = Len(raw)
    BY DEF LoopInv, AllRead
  <2>2. Vouched
    BY <2>1 DEF LoopInv, ReadSoFar
  <2> QED BY <2>1, <2>2 DEF Vouched, Later
<1> QED BY <1>1, ChainIsFollowed, PTL

-----------------------------------------------------------------------------
(* The milestone gates.  The invariant carries from one milestone to the   *)
(* next what priorSatisfied stands for, and from each criterion to the     *)
(* report it goes into that it is supported.                               *)

GateReports == Seq([status : MilestoneStatus, items : [Criteria -> Overlays]])
GatesTypeOK ==
    /\ DOMAIN resolved \subseteq Criteria
    /\ \A k \in DOMAIN resolved : resolved[k] \in Overlays
    /\ resolved = [k \in DOMAIN resolved |-> resolved[k]]
    /\ milestones \in GateReports
    /\ groups \in Seq([Tasks -> Overlays])
\* The milestones before m are satisfied.
Reached(m) == \A n \in DOMAIN milestones : n < m => milestones[n].status = "satisfied"
Prior == priorSatisfied => \A n \in DOMAIN milestones : milestones[n].status = "satisfied"
InTurn ==
    \A m \in DOMAIN milestones :
        milestones[m].status \in {"satisfied", "in-progress"} => Reached(m)
\* Every task is done and the stop condition is clear.
AllClear(items) ==
    \A c \in Criteria : items[c].status = IF c = "stop" THEN "clear" ELSE "satisfied"
Cleared ==
    \A m \in DOMAIN milestones :
        milestones[m].status = "satisfied" => AllClear(milestones[m].items)
Shown ==
    /\ \A k \in DOMAIN resolved : Observable(resolved[k])
    /\ \A m \in DOMAIN milestones, c \in Criteria : Observable(milestones[m].items[c])
    /\ \A g \in DOMAIN groups, c \in Tasks : Observable(groups[g][c])
Released ==
    /\ \A n \in DOMAIN milestones : milestones[n].status = "satisfied"
    /\ \A g \in DOMAIN Groups, c \in Tasks :
         Groups[g] \in ReleaseGroups => groups[g][c].status = "satisfied"
Concluded ==
    /\ atGate \in {"groups", "pass"} => FirstOpen(current)
    /\ atGate = "pass" /\ releaseReady => Released

GatesInv ==
    GatesTypeOK /\ (atGate # "fail" => Prior /\ InTurn /\ Cleared /\ Shown /\ Concluded)

LEMMA GatesInitial == GatesInit => GatesInv
<1> SUFFICES ASSUME GatesInit PROVE GatesInv
  OBVIOUS
<1>1. DOMAIN resolved = {} /\ resolved = [k \in DOMAIN resolved |-> resolved[k]]
  BY DEF GatesInit, Nothing
<1>2. milestones = <<>> /\ groups = <<>> /\ atGate = "state"
  BY DEF GatesInit
<1>3. DOMAIN milestones = {} /\ DOMAIN groups = {} /\ milestones \in GateReports /\ groups \in Seq([Tasks -> Overlays])
  BY <1>2 DEF GateReports
<1> QED BY <1>1, <1>2, <1>3 DEF GatesInv, GatesTypeOK, Prior, InTurn, Cleared, Shown, Concluded

\* What the validator asks of a status, of a milestone that counts.
LEMMA WhatFollows ==
    ASSUME NEW status \in MilestoneStatus, NEW by, Follows(status, by)
    PROVE  /\ status = "satisfied" => priorSatisfied /\ AllClear(resolved)
           /\ status = "in-progress" => priorSatisfied
<1>1. CASE status = "satisfied"
  BY <1>1, GatesAssumption DEF Follows, AllTasks, AllClear, Criteria
<1>2. CASE status = "in-progress"
  BY <1>2 DEF Follows
<1> QED BY <1>1, <1>2

LEMMA SupportedIsShown ==
    ASSUME NEW r \in Overlays, Supported(r)
    PROVE  Observable(r)
BY DEF Supported, Documented, Observed, Observable

\* A step that touches no report keeps what is known of them.
LEMMA ReportsKept ==
    ASSUME GatesInv, milestones' = milestones, priorSatisfied' = priorSatisfied, atGate # "fail"
    PROVE  Prior' /\ InTurn' /\ Cleared'
BY DEF GatesInv, Prior, InTurn, Cleared, AllClear, Reached

\* An entry that is refused ends the validation.
LEMMA RefuseEntryKeeps == ASSUME GatesInv, RefuseEntry PROVE GatesInv'
<1>1. /\ atGate' = "fail" /\ resolved' = resolved /\ milestones' = milestones /\ groups' = groups
  BY DEF RefuseEntry
<1> QED BY <1>1 DEF GatesInv, GatesTypeOK

LEMMA CheckStateKeeps ==
    ASSUME GatesInv, NEW ok \in BOOLEAN, CheckState(ok)
    PROVE  GatesInv'
<1>1. /\ atGate = "state" /\ atGate' \in {"milestones", "fail"}
      /\ resolved' = resolved /\ milestones' = milestones /\ groups' = groups
      /\ priorSatisfied' = priorSatisfied
  BY DEF CheckState, Proceed
<1>2. GatesTypeOK'
  BY <1>1 DEF GatesInv, GatesTypeOK
<1>3. Prior' /\ InTurn' /\ Cleared'
  BY <1>1, ReportsKept
<1>4. Shown' /\ Concluded'
  BY <1>1 DEF GatesInv, Shown, Observable, Concluded
<1> QED BY <1>2, <1>3, <1>4 DEF GatesInv

LEMMA ResolveKeeps ==
    ASSUME GatesInv, NEW c \in Criteria, NEW r \in Overlays, Resolve(c, r)
    PROVE  GatesInv'
<1>1. /\ atGate \in {"milestones", "groups"} /\ atGate' \in {atGate, "fail"}
      /\ atGate' # "fail" => Supported(r)
      /\ c \notin DOMAIN resolved
      /\ resolved' = [d \in DOMAIN resolved \cup {c} |-> IF d = c THEN r ELSE resolved[d]]
      /\ milestones' = milestones /\ groups' = groups /\ priorSatisfied' = priorSatisfied
      /\ current' = current /\ releaseReady' = releaseReady
  BY DEF Resolve, Pending, Proceed
<1>2. /\ DOMAIN resolved' = DOMAIN resolved \cup {c} /\ resolved'[c] = r
      /\ \A k \in DOMAIN resolved : resolved'[k] = resolved[k]
      /\ resolved' = [k \in DOMAIN resolved' |-> resolved'[k]]
  BY <1>1
<1>3. GatesTypeOK'
  BY <1>1, <1>2 DEF GatesInv, GatesTypeOK
<1>4. Prior' /\ InTurn' /\ Cleared'
  BY <1>1, ReportsKept
<1>5. Concluded'
  BY <1>1 DEF GatesInv, Concluded, Released, FirstOpen
<1>6. ASSUME atGate' # "fail" PROVE Shown'
  <2>1. Observable(r)
    BY <1>1, <1>6, SupportedIsShown
  <2>2. Shown
    BY <1>1 DEF GatesInv
  <2>3. \A k \in DOMAIN resolved' : Observable(resolved'[k])
    BY <1>2, <2>1, <2>2 DEF Shown
  <2> QED BY <1>1, <2>2, <2>3 DEF Shown, Observable
<1> QED BY <1>3, <1>4, <1>5, <1>6 DEF GatesInv

LEMMA JudgeMilestoneKeeps ==
    ASSUME GatesInv, NEW status \in MilestoneStatus, NEW by, JudgeMilestone(status, by)
    PROVE  GatesInv'
<1> DEFINE report == [status |-> status, items |-> resolved]
           last == Len(milestones) + 1
<1>1. /\ atGate = "milestones" /\ DOMAIN resolved = Criteria
      /\ atGate' \in {"milestones", "fail"} /\ (atGate' # "fail" => Follows(status, by))
      /\ milestones' = Append(milestones, report)
      /\ priorSatisfied' = (priorSatisfied /\ status = "satisfied")
      /\ resolved' = Nothing /\ groups' = groups
  BY DEF JudgeMilestone, Proceed, StillSatisfied
<1>2. resolved \in [Criteria -> Overlays] /\ milestones \in GateReports
  BY <1>1 DEF GatesInv, GatesTypeOK
<1>3. report \in [status : MilestoneStatus, items : [Criteria -> Overlays]]
  BY <1>2
<1>4. report.status = status /\ report.items = resolved
  OBVIOUS
<1> HIDE DEF report
<1>5. /\ milestones' \in GateReports /\ DOMAIN milestones' = DOMAIN milestones \cup {last}
      /\ DOMAIN milestones = 1..Len(milestones) /\ Len(milestones) \in Nat
      /\ milestones'[last] = report /\ \A n \in DOMAIN milestones : milestones'[n] = milestones[n]
  BY <1>1, <1>2, <1>3 DEF GateReports
<1>6. DOMAIN resolved' = {} /\ resolved' = [k \in DOMAIN resolved' |-> resolved'[k]]
  BY <1>1 DEF Nothing
<1>7. GatesTypeOK'
  BY <1>1, <1>5, <1>6 DEF GatesInv, GatesTypeOK
<1>8. ASSUME atGate' # "fail" PROVE Prior' /\ InTurn' /\ Cleared' /\ Shown' /\ Concluded'
  <2>1. /\ status = "satisfied" => priorSatisfied /\ AllClear(resolved)
        /\ status = "in-progress" => priorSatisfied
    BY <1>1, <1>8, WhatFollows
  <2>2. Prior /\ InTurn /\ Cleared /\ Shown
    BY <1>1 DEF GatesInv
  <2>3. Prior'
    BY <1>1, <1>4, <1>5, <2>2 DEF Prior
  <2>4. InTurn'
    <3>1. \A m \in DOMAIN milestones : Reached(m) => Reached(m)'
      BY <1>5 DEF Reached
    <3>2. priorSatisfied =>
              \A n \in DOMAIN milestones' : n < last => milestones'[n].status = "satisfied"
      BY <1>5, <2>2 DEF Prior
    <3>3. ASSUME NEW m \in DOMAIN milestones', milestones'[m].status \in {"satisfied", "in-progress"}
          PROVE  Reached(m)'
      <4>1. CASE m = last
        BY <1>4, <1>5, <2>1, <3>2, <3>3, <4>1 DEF Reached
      <4>2. CASE m \in DOMAIN milestones
        BY <1>5, <2>2, <3>1, <3>3, <4>2 DEF InTurn
      <4> QED BY <1>5, <4>1, <4>2
    <3> QED BY <3>3 DEF InTurn
  <2>5. Cleared'
    BY <1>4, <1>5, <2>1, <2>2 DEF Cleared, AllClear
  <2>6. Shown'
    <3>1. \A m \in DOMAIN milestones', c \in Criteria : Observable(milestones'[m].items[c])
      BY <1>1, <1>4, <1>5, <2>2 DEF Shown
    <3>2. \A g \in DOMAIN groups', c \in Tasks : Observable(groups'[g][c])
      BY <1>1, <2>2 DEF Shown
    <3> QED BY <1>6, <3>1, <3>2 DEF Shown, Observable
  <2> QED BY <1>1, <1>8, <2>3, <2>4, <2>5, <2>6 DEF Concluded
<1> QED BY <1>7, <1>8 DEF GatesInv

LEMMA CheckCurrentKeeps ==
    ASSUME GatesInv, NEW m \in Int, CheckCurrent(m)
    PROVE  GatesInv'
<1>1. /\ atGate = "milestones" /\ atGate' \in {"groups", "fail"}
      /\ atGate' # "fail" => FirstOpen(m)
      /\ current' = m /\ resolved' = resolved /\ milestones' = milestones
      /\ groups' = groups /\ priorSatisfied' = priorSatisfied
  BY DEF CheckCurrent, Proceed
<1>2. GatesTypeOK'
  BY <1>1 DEF GatesInv, GatesTypeOK
<1>3. Prior' /\ InTurn' /\ Cleared'
  BY <1>1, ReportsKept
<1>4. Shown'
  BY <1>1 DEF GatesInv, Shown, Observable
<1>5. atGate' # "fail" => Concluded'
  BY <1>1 DEF Concluded, FirstOpen
<1> QED BY <1>2, <1>3, <1>4, <1>5 DEF GatesInv

LEMMA ReportGroupKeeps == ASSUME GatesInv, ReportGroup PROVE GatesInv'
<1>1. /\ atGate = "groups" /\ atGate' = atGate /\ DOMAIN resolved = Tasks
      /\ groups' = Append(groups, resolved) /\ resolved' = Nothing
      /\ milestones' = milestones /\ priorSatisfied' = priorSatisfied
      /\ current' = current /\ releaseReady' = releaseReady
  BY DEF ReportGroup
<1>2. resolved \in [Tasks -> Overlays] /\ groups \in Seq([Tasks -> Overlays])
  BY <1>1 DEF GatesInv, GatesTypeOK
<1>3. /\ groups' \in Seq([Tasks -> Overlays]) /\ DOMAIN groups' = DOMAIN groups \cup {Len(groups) + 1}
      /\ groups'[Len(groups) + 1] = resolved
      /\ \A g \in DOMAIN groups : groups'[g] = groups[g]
  BY <1>1, <1>2
<1>4. DOMAIN resolved' = {} /\ resolved' = [k \in DOMAIN resolved' |-> resolved'[k]]
  BY <1>1 DEF Nothing
<1>5. GatesTypeOK'
  BY <1>1, <1>3, <1>4 DEF GatesInv, GatesTypeOK
<1>6. Prior' /\ InTurn' /\ Cleared'
  BY <1>1, ReportsKept
<1>7. Shown'
  <2>1. Shown
    BY <1>1 DEF GatesInv
  <2>2. \A g \in DOMAIN groups', c \in Tasks : Observable(groups'[g][c])
    BY <1>1, <1>3, <2>1 DEF Shown
  <2>3. \A m \in DOMAIN milestones', c \in Criteria : Observable(milestones'[m].items[c])
    BY <1>1, <2>1 DEF Shown
  <2> QED BY <1>4, <2>2, <2>3 DEF Shown, Observable
<1>8. Concluded'
  BY <1>1 DEF GatesInv, Concluded, FirstOpen
<1> QED BY <1>5, <1>6, <1>7, <1>8 DEF GatesInv

LEMMA ReportReleaseKeeps == ASSUME GatesInv, ReportRelease PROVE GatesInv'
<1>1. /\ atGate = "groups" /\ atGate' = "pass"
      /\ releaseReady' => Released
      /\ current' = current /\ resolved' = resolved /\ milestones' = milestones
      /\ groups' = groups /\ priorSatisfied' = priorSatisfied
  BY DEF ReportRelease, Released
<1>2. GatesTypeOK'
  BY <1>1 DEF GatesInv, GatesTypeOK
<1>3. Prior' /\ InTurn' /\ Cleared'
  BY <1>1, ReportsKept
<1>4. Shown'
  BY <1>1 DEF GatesInv, Shown, Observable
<1>5. Concluded'
  BY <1>1 DEF GatesInv, Concluded, Released, FirstOpen
<1> QED BY <1>2, <1>3, <1>4, <1>5 DEF GatesInv

LEMMA GatesStep == GatesInv /\ [GatesNext]_gateVars => GatesInv'
<1> SUFFICES ASSUME GatesInv, [GatesNext]_gateVars PROVE GatesInv'
  OBVIOUS
<1>1. ASSUME NEW ok \in BOOLEAN, CheckState(ok) PROVE GatesInv'
  BY <1>1, CheckStateKeeps
<1>2. ASSUME NEW c \in Criteria, NEW r \in Overlays, Resolve(c, r) PROVE GatesInv'
  BY <1>2, ResolveKeeps
<1>3. ASSUME NEW status \in MilestoneStatus,
             NEW by \in SUBSET (Criteria \cup Elsewhere), JudgeMilestone(status, by)
      PROVE  GatesInv'
  BY <1>3, JudgeMilestoneKeeps
<1>4. ASSUME NEW m \in 0..Milestones, CheckCurrent(m) PROVE GatesInv'
  BY <1>4, CheckCurrentKeeps
<1>5. CASE ReportGroup
  BY <1>5, ReportGroupKeeps
<1>6. CASE ReportRelease \/ RefuseEntry
  BY <1>6, ReportReleaseKeeps, RefuseEntryKeeps
<1>7. CASE UNCHANGED gateVars
  <2>1. /\ atGate' = atGate /\ resolved' = resolved /\ milestones' = milestones /\ groups' = groups
        /\ priorSatisfied' = priorSatisfied /\ current' = current /\ releaseReady' = releaseReady
    BY <1>7 DEF gateVars
  <2>2. GatesTypeOK'
    BY <2>1 DEF GatesInv, GatesTypeOK
  <2>3. atGate # "fail" => Prior' /\ InTurn' /\ Cleared'
    BY <2>1, ReportsKept
  <2>4. atGate # "fail" => Shown' /\ Concluded'
    BY <2>1 DEF GatesInv, Shown, Observable, Concluded, Released, FirstOpen
  <2> QED BY <2>1, <2>2, <2>3, <2>4 DEF GatesInv
<1> QED BY <1>1, <1>2, <1>3, <1>4, <1>5, <1>6, <1>7 DEF GatesNext

\* What the validator knows of the reports that passed, at every criterion
\* (resolve_group, validate_repository_milestones).
THEOREM GatesAreInOrder == GatesSpec => []GatesInv
<1> QED BY GatesInitial, GatesStep, PTL DEF GatesSpec

\* A report that passes never runs ahead of what was shown, whatever the
\* overlay, the register and the number of milestones
\* (validate_repository_milestones).
THEOREM ReportsAreBehind == GatesSpec => []ReportsStayBehindProof
<1>1. GatesInv => ReportsStayBehindProof
  <2> SUFFICES ASSUME GatesInv, atGate = "pass"
               PROVE  /\ \A m, n \in DOMAIN milestones : m < n /\ ReachedTo(n) => ReachedTo(m)
                      /\ \A m \in DOMAIN milestones :
                           /\ milestones[m].status = "in-progress" => m = current
                           /\ ReachedTo(m) => AllClear(milestones[m].items)
                           /\ \A c \in Criteria : Observable(milestones[m].items[c])
                      /\ \A g \in DOMAIN groups, c \in Tasks : Observable(groups[g][c])
                      /\ releaseReady => current = 0 /\ Released
    BY DEF ReportsStayBehindProof, AllClear, Released
  <2>1. Prior /\ InTurn /\ Cleared /\ Shown /\ Concluded
    BY DEF GatesInv
  <2>2. FirstOpen(current)
    BY <2>1 DEF Concluded
  <2>3. \A m, n \in DOMAIN milestones : m < n /\ ReachedTo(n) => ReachedTo(m)
    BY <2>1 DEF InTurn, Reached, ReachedTo
  <2>4. ASSUME NEW m \in DOMAIN milestones, milestones[m].status = "in-progress"
        PROVE  m = current
    <3>1. DOMAIN milestones = 1..Len(milestones) /\ Len(milestones) \in Nat
      BY DEF GatesInv, GatesTypeOK, GateReports
    <3>2. Reached(m)
      BY <2>1, <2>4 DEF InTurn
    <3>3. current \in DOMAIN milestones /\ milestones[current].status # "satisfied"
      BY <2>2, <2>4 DEF FirstOpen
    <3>4. \A i \in 1..(current - 1) : milestones[i].status = "satisfied"
      BY <2>2, <2>4 DEF FirstOpen
    <3>5. ~(current < m)
      BY <3>2, <3>3 DEF Reached
    <3>6. ~(m < current)
      BY <2>4, <3>1, <3>3, <3>4
    <3> QED BY <3>1, <3>3, <3>5, <3>6
  <2>5. releaseReady => current = 0 /\ Released
    BY <2>1, <2>2 DEF Concluded, Released, FirstOpen
  <2> QED BY <2>1, <2>3, <2>4, <2>5 DEF Cleared, Shown, ReachedTo
<1> QED BY <1>1, GatesAreInOrder, PTL

-----------------------------------------------------------------------------
(* A packet of evidence.  The validator forgets what it has checked; the   *)
(* invariant remembers it, check by check, until the gate is asked for.    *)

HeadIsPast == checking \in {"artifacts", "gate", "pass"} \cup PacketType
ArtifactsArePast == checking \in {"gate", "pass"} \cup PacketType
Accepted(i) == ArtifactAccepted(Artifact(i))

IdentityHolds ==
    /\ IF IsTemplate THEN BlankTemplate ELSE ClaimsAccepted /\ \A f \in Fields : FieldSettled(f)
    /\ gateReady => \A f \in DOMAIN GateFacts : packet.content[f] \in GateFacts[f]
ContinuityHolds ==
    LET all == DOMAIN packet.content.measurements IN
      /\ {Measurement(i).pair : i \in all} = Pairs
      /\ \A i \in all : Measurement(i).result \in {"continuity", "open", "ambiguous"} /\ Cited(Measurement(i).refs)
      /\ gateReady => \A i \in all : Measurement(i).result # "ambiguous"
ApprovalHolds ==
    /\ packet.content.signer = packet.operator
    /\ gateReady => packet.content.evidence # {}
PassiveHolds ==
    /\ \E i \in Bound(packet.content.capture) : TRUE
    /\ gateReady => asked.artifacts
TypeHolds ==
    /\ packet.type = "identity-photo" => IdentityHolds
    /\ packet.type = "continuity" => ContinuityHolds
    /\ packet.type = "approval" => ApprovalHolds
    /\ packet.type = "passive-capture" => PassiveHolds

PacketInv ==
    /\ hashed \in Nat /\ (checking \in {"idle", "head"} => hashed = 0)
    /\ checking # "idle" => packet \in Packets /\ (asked.gateReady => ~asked.template)
    /\ HeadIsPast => HeadAccepted /\ \A i \in DOMAIN packet.artifacts : i <= hashed => Accepted(i)
    /\ ArtifactsArePast => hashed = Len(packet.artifacts) /\ RolesCovered
    /\ checking \in PacketType => packet.type = checking
    /\ checking \in {"gate", "pass"} => TypeHolds
    /\ checking = "pass" => (asked.gateReady => gateReady)

\* A check that does not move on to another artifact keeps what is known of
\* the inputs; what it adds is what it asks for.
LEMMA InputsKept ==
    ASSUME UNCHANGED packetInputs
    PROVE  /\ packet' = packet /\ disk' = disk /\ asked' = asked
           /\ HeadAccepted' = HeadAccepted /\ RolesCovered' = RolesCovered
           /\ \A i : Accepted(i)' = Accepted(i)
BY DEF packetInputs, HeadAccepted, IsTemplate, RolesCovered, Accepted, ArtifactAccepted, Artifact, Intact

LEMMA GoOnMeans ==
    ASSUME NEW from, NEW ok, NEW to, GoOn(from, ok, to)
    PROVE  /\ checking = from /\ UNCHANGED packetInputs
           /\ checking' # "fail" => ok
           /\ checking' \in {to, "fail"}
BY DEF GoOn

LEMMA PacketIsList ==
    ASSUME PacketInv, checking # "idle"
    PROVE  /\ packet \in Packets /\ packet.type \in PacketType
           /\ Len(packet.artifacts) \in Nat
           /\ DOMAIN packet.artifacts = 1..Len(packet.artifacts)
BY EvidenceAssumption DEF PacketInv

LEMMA PacketInitial == PacketInit => PacketInv
BY DEF PacketInit, PacketInv, HeadIsPast, ArtifactsArePast, PacketType

LEMMA LoadPacketKeeps == ASSUME PacketInv, LoadPacket PROVE PacketInv'
<1>1. /\ checking' = "head" /\ hashed' = hashed /\ hashed = 0 /\ packet' \in Packets
      /\ asked'.gateReady => ~asked'.template
  BY DEF PacketInv, LoadPacket
<1> QED BY <1>1 DEF PacketInv, HeadIsPast, ArtifactsArePast, PacketType

LEMMA CheckHeadKeeps == ASSUME PacketInv, CheckHead PROVE PacketInv'
<1>1. /\ checking = "head" /\ checking' \in {"artifacts", "fail"} /\ UNCHANGED packetInputs
      /\ checking' # "fail" => HeadAccepted
      /\ hashed' = hashed
  BY GoOnMeans DEF CheckHead
<1>2. hashed = 0 /\ \A i \in DOMAIN packet.artifacts : ~(i <= hashed)
  BY <1>1, PacketIsList DEF PacketInv
<1>3. packet' = packet /\ asked' = asked /\ HeadAccepted' = HeadAccepted
  BY <1>1, InputsKept
<1> QED BY <1>1, <1>2, <1>3 DEF PacketInv, HeadIsPast, ArtifactsArePast, PacketType

LEMMA CheckArtifactKeeps == ASSUME PacketInv, CheckArtifact PROVE PacketInv'
<1>1. /\ checking = "artifacts" /\ checking' \in {"artifacts", "fail"} /\ UNCHANGED packetInputs
      /\ checking' # "fail" => Accepted(hashed + 1)
      /\ hashed' = hashed + 1
  BY GoOnMeans DEF CheckArtifact, Accepted
<1>2. packet' = packet /\ asked' = asked /\ HeadAccepted' = HeadAccepted /\ \A i : Accepted(i)' = Accepted(i)
  BY <1>1, InputsKept
<1>3. /\ hashed \in Nat /\ packet \in Packets /\ (asked.gateReady => ~asked.template) /\ HeadAccepted
      /\ \A i \in DOMAIN packet.artifacts : i <= hashed => Accepted(i)
  BY <1>1 DEF PacketInv, HeadIsPast
<1>4. checking' # "fail" =>
        \A i \in DOMAIN packet.artifacts : i <= hashed + 1 => Accepted(i)
  BY <1>1, <1>3, PacketIsList
<1> QED BY <1>1, <1>2, <1>3, <1>4 DEF PacketInv, HeadIsPast, ArtifactsArePast, PacketType

LEMMA CheckRolesKeeps == ASSUME PacketInv, CheckRoles PROVE PacketInv'
<1>1. /\ checking = "artifacts" /\ checking' \in {packet.type, "fail"} /\ UNCHANGED packetInputs
      /\ hashed' = hashed /\ hashed = Len(packet.artifacts) /\ (checking' # "fail" => RolesCovered)
  BY GoOnMeans DEF CheckRoles
<1>2. /\ packet' = packet /\ asked' = asked /\ HeadAccepted' = HeadAccepted
      /\ RolesCovered' = RolesCovered /\ \A i : Accepted(i)' = Accepted(i)
  BY <1>1, InputsKept
<1>3. packet.type \in PacketType
  BY <1>1, PacketIsList
<1>4. /\ hashed \in Nat /\ packet \in Packets /\ (asked.gateReady => ~asked.template) /\ HeadAccepted
      /\ \A i \in DOMAIN packet.artifacts : i <= hashed => Accepted(i)
  BY <1>1 DEF PacketInv, HeadIsPast
<1> QED BY <1>1, <1>2, <1>3, <1>4 DEF PacketInv, HeadIsPast, ArtifactsArePast, PacketType

\* The type's own check brings what its type asks for.
LEMMA TypeKeeps ==
    ASSUME PacketInv, checking \in PacketType, UNCHANGED packetInputs, hashed' = hashed,
           checking' \in {"gate", "fail"}, checking' # "fail" => TypeHolds'
    PROVE  PacketInv'
<1>1. /\ packet' = packet /\ asked' = asked /\ HeadAccepted' = HeadAccepted
      /\ RolesCovered' = RolesCovered /\ \A i : Accepted(i)' = Accepted(i)
  BY InputsKept
<1>2. /\ hashed \in Nat /\ packet \in Packets /\ (asked.gateReady => ~asked.template) /\ HeadAccepted
      /\ hashed = Len(packet.artifacts) /\ RolesCovered
      /\ \A i \in DOMAIN packet.artifacts : i <= hashed => Accepted(i)
  BY DEF PacketInv, HeadIsPast, ArtifactsArePast, PacketType
<1> QED BY <1>1, <1>2 DEF PacketInv, HeadIsPast, ArtifactsArePast, PacketType

LEMMA CheckIdentityKeeps == ASSUME PacketInv, CheckIdentity PROVE PacketInv'
<1>1. /\ checking = "identity-photo" /\ checking' \in {"gate", "fail"} /\ UNCHANGED packetInputs
      /\ checking' # "fail" =>
           IF IsTemplate THEN BlankTemplate ELSE ClaimsAccepted /\ \A f \in Fields : FieldSettled(f)
      /\ gateReady' => \A f \in DOMAIN GateFacts : packet.content[f] \in GateFacts[f]
      /\ hashed' = hashed
  BY GoOnMeans DEF CheckIdentity
<1>2. packet' = packet
  BY <1>1, InputsKept
<1>3. packet.type = "identity-photo"
  BY <1>1 DEF PacketInv, PacketType
<1>4. checking' # "fail" => IdentityHolds'
  BY <1>1, <1>2 DEF IdentityHolds, IsTemplate, BlankTemplate, IsObserved, ClaimsAccepted, Distinct, Claim,
                    Cited, ArtifactIds, Artifact, FieldSettled, Claimed, ClaimedFields
<1>5. checking' # "fail" => TypeHolds'
  BY <1>2, <1>3, <1>4 DEF TypeHolds
<1> QED BY <1>1, <1>5, TypeKeeps DEF PacketType

LEMMA CheckContinuityKeeps == ASSUME PacketInv, CheckContinuity PROVE PacketInv'
<1> DEFINE all == DOMAIN packet.content.measurements
<1>1. /\ checking = "continuity" /\ checking' \in {"gate", "fail"} /\ UNCHANGED packetInputs
      /\ checking' # "fail" =>
           /\ {Measurement(i).pair : i \in all} = Pairs
           /\ \A i \in all : /\ Measurement(i).result \in {"continuity", "open", "ambiguous"}
                             /\ Cited(Measurement(i).refs)
      /\ gateReady' => \A i \in all : Measurement(i).result # "ambiguous"
      /\ hashed' = hashed
  BY GoOnMeans DEF CheckContinuity
<1>2. packet' = packet
  BY <1>1, InputsKept
<1>3. packet.type = "continuity"
  BY <1>1 DEF PacketInv, PacketType
<1>4. checking' # "fail" => ContinuityHolds'
  BY <1>1, <1>2 DEF ContinuityHolds, Measurement, Cited, ArtifactIds, Artifact
<1>5. checking' # "fail" => TypeHolds'
  BY <1>2, <1>3, <1>4 DEF TypeHolds
<1> QED BY <1>1, <1>5, TypeKeeps DEF PacketType

LEMMA CheckApprovalKeeps == ASSUME PacketInv, CheckApproval PROVE PacketInv'
<1>1. /\ checking = "approval" /\ checking' \in {"gate", "fail"} /\ UNCHANGED packetInputs
      /\ checking' # "fail" =>
           /\ packet.content.signer = packet.operator
           /\ packet.content.decision = "approved" => packet.content.evidence # {}
      /\ gateReady' => packet.content.decision = "approved"
      /\ hashed' = hashed
  BY GoOnMeans DEF CheckApproval
<1>2. packet' = packet
  BY <1>1, InputsKept
<1>3. packet.type = "approval"
  BY <1>1 DEF PacketInv, PacketType
<1>4. checking' # "fail" => TypeHolds'
  BY <1>1, <1>2, <1>3 DEF TypeHolds, ApprovalHolds
<1> QED BY <1>1, <1>4, TypeKeeps DEF PacketType

LEMMA CheckPassiveKeeps == ASSUME PacketInv, CheckPassive PROVE PacketInv'
<1>1. /\ checking = "passive-capture" /\ checking' \in {"gate", "fail"} /\ UNCHANGED packetInputs
      /\ checking' # "fail" => \E i \in Bound(packet.content.capture) : TRUE
      /\ gateReady' => asked.artifacts
      /\ hashed' = hashed
  BY GoOnMeans DEF CheckPassive
<1>2. packet' = packet /\ asked' = asked
  BY <1>1, InputsKept
<1>3. packet.type = "passive-capture"
  BY <1>1 DEF PacketInv, PacketType
<1>4. checking' # "fail" => TypeHolds'
  BY <1>1, <1>2, <1>3 DEF TypeHolds, PassiveHolds, Bound, Artifact
<1> QED BY <1>1, <1>4, TypeKeeps DEF PacketType

\* What a type asked for depends on nothing else.
LEMMA TypeStays ==
    ASSUME UNCHANGED packetInputs, gateReady' = gateReady
    PROVE  TypeHolds' = TypeHolds
<1>1. packet' = packet /\ asked' = asked
  BY InputsKept
<1>2. IdentityHolds' = IdentityHolds
  BY <1>1 DEF IdentityHolds, IsTemplate, BlankTemplate, IsObserved, ClaimsAccepted, Distinct, Claim,
              Cited, ArtifactIds, Artifact, FieldSettled, Claimed, ClaimedFields
<1>3. ContinuityHolds' = ContinuityHolds
  BY <1>1 DEF ContinuityHolds, Measurement, Cited, ArtifactIds, Artifact
<1>4. ApprovalHolds' = ApprovalHolds /\ PassiveHolds' = PassiveHolds
  BY <1>1 DEF ApprovalHolds, PassiveHolds, Bound, Artifact
<1> QED BY <1>1, <1>2, <1>3, <1>4 DEF TypeHolds

LEMMA CheckGateKeeps == ASSUME PacketInv, CheckGate PROVE PacketInv'
<1>1. /\ checking = "gate" /\ checking' \in {"pass", "fail"} /\ UNCHANGED packetInputs
      /\ checking' # "fail" => (asked.gateReady => gateReady)
      /\ hashed' = hashed /\ gateReady' = gateReady
  BY GoOnMeans DEF CheckGate
<1>2. /\ packet' = packet /\ asked' = asked /\ HeadAccepted' = HeadAccepted
      /\ RolesCovered' = RolesCovered /\ \A i : Accepted(i)' = Accepted(i)
  BY <1>1, InputsKept
<1>3. TypeHolds' = TypeHolds
  BY <1>1, TypeStays
<1>4. /\ hashed \in Nat /\ packet \in Packets /\ (asked.gateReady => ~asked.template) /\ HeadAccepted
      /\ hashed = Len(packet.artifacts) /\ RolesCovered /\ TypeHolds
      /\ \A i \in DOMAIN packet.artifacts : i <= hashed => Accepted(i)
  BY <1>1 DEF PacketInv, HeadIsPast, ArtifactsArePast
<1> QED BY <1>1, <1>2, <1>3, <1>4 DEF PacketInv, HeadIsPast, ArtifactsArePast, PacketType

LEMMA PacketStep == PacketInv /\ [PacketNext]_packetVars => PacketInv'
<1> SUFFICES ASSUME PacketInv, [PacketNext]_packetVars PROVE PacketInv'
  OBVIOUS
<1>1. CASE LoadPacket
  BY <1>1, LoadPacketKeeps
<1>2. CASE CheckHead
  BY <1>2, CheckHeadKeeps
<1>3. CASE CheckArtifact
  BY <1>3, CheckArtifactKeeps
<1>4. CASE CheckRoles
  BY <1>4, CheckRolesKeeps
<1>5. CASE CheckIdentity
  BY <1>5, CheckIdentityKeeps
<1>6. CASE CheckContinuity
  BY <1>6, CheckContinuityKeeps
<1>7. CASE CheckApproval
  BY <1>7, CheckApprovalKeeps
<1>8. CASE CheckPassive
  BY <1>8, CheckPassiveKeeps
<1>9. CASE CheckGate
  BY <1>9, CheckGateKeeps
<1>10. CASE UNCHANGED packetVars
  <2>1. /\ UNCHANGED packetInputs /\ checking' = checking /\ hashed' = hashed /\ gateReady' = gateReady
    BY <1>10 DEF packetVars, packetInputs
  <2>2. /\ packet' = packet /\ asked' = asked /\ HeadAccepted' = HeadAccepted
        /\ RolesCovered' = RolesCovered /\ \A i : Accepted(i)' = Accepted(i)
    BY <2>1, InputsKept
  <2>3. TypeHolds' = TypeHolds
    BY <2>1, TypeStays
  <2> QED BY <2>1, <2>2, <2>3 DEF PacketInv, HeadIsPast, ArtifactsArePast
<1> QED BY <1>1, <1>2, <1>3, <1>4, <1>5, <1>6, <1>7, <1>8, <1>9, <1>10 DEF PacketNext

\* What the validator knows of the packet at each check (validate_packet).
THEOREM ChecksAddUp == PacketSpec => []PacketInv
<1> QED BY PacketInitial, PacketStep, PTL DEF PacketSpec

\* References that an accepted packet cites lead to artifacts.
LEMMA CitedIsEvidenced ==
    ASSUME NEW refs, Cited(refs), ~IsTemplate,
           \A i \in DOMAIN packet.artifacts : Accepted(i)
    PROVE  Evidenced(refs)
<1>1. PICK id \in refs : id \in ArtifactIds
  BY DEF Cited
<1>2. PICK i \in DOMAIN packet.artifacts : Artifact(i).id = id
  BY <1>1 DEF ArtifactIds
<1>3. Private(i)
  BY <1>2 DEF Accepted, ArtifactAccepted, Private
<1> QED BY <1>1, <1>2, <1>3 DEF Evidenced

\* A packet that closes its gate closes it with evidence, whatever packet and
\* whatever files it is given (validate_packet with require_gate_ready).
THEOREM GatesCloseOnEvidence == PacketSpec => []GateClosesOnEvidence
<1>1. PacketInv => GateClosesOnEvidence
  <2> SUFFICES ASSUME PacketInv, checking = "pass", asked.gateReady PROVE GateClosesOnEvidence
    BY DEF GateClosesOnEvidence
  <2>1. /\ gateReady /\ TypeHolds /\ HeadAccepted /\ ~asked.template
        /\ \A i \in DOMAIN packet.artifacts : i <= hashed => Accepted(i)
        /\ hashed = Len(packet.artifacts) /\ RolesCovered
    BY DEF PacketInv, HeadIsPast, ArtifactsArePast
  <2>2. ~IsTemplate
    BY <2>1 DEF HeadAccepted
  <2>3. packet.type \in PacketType /\ \A i \in DOMAIN packet.artifacts : Accepted(i)
    BY <2>1, PacketIsList
  <2>4. ASSUME NEW role \in RequiredRoles[packet.type]
        PROVE  \E i \in DOMAIN packet.artifacts : role \in Artifact(i).roles /\ Private(i)
    BY <2>1, <2>2, <2>3 DEF RolesCovered, Accepted, ArtifactAccepted, Private
  <2>5. CASE packet.type = "identity-photo"
    <3>1. /\ ClaimsAccepted /\ \A f \in Fields : FieldSettled(f)
          /\ \A f \in DOMAIN GateFacts : packet.content[f] \in GateFacts[f]
      BY <2>1, <2>2, <2>5 DEF TypeHolds, IdentityHolds
    <3>2. ASSUME NEW f \in DOMAIN GateFacts
          PROVE  /\ f \notin packet.unverified
                 /\ \E i \in DOMAIN packet.claims :
                      /\ \A j \in DOMAIN packet.claims : Claim(j).field = f => i = j
                      /\ Claim(i).field = f /\ Claim(i).value \in GateFacts[f]
                      /\ Evidenced(Claim(i).refs)
      <4>1. f \in Fields /\ IsObserved(f)
        BY <3>1, EvidenceAssumption DEF IsObserved
      <4>2. f \notin packet.unverified /\ Claimed(f, packet.content[f])
        BY <3>1, <4>1 DEF FieldSettled
      <4>3. PICK i \in DOMAIN packet.claims : Claim(i).field = f /\ Claim(i).value = packet.content[f]
        BY <4>2 DEF Claimed
      <4>4. \A j \in DOMAIN packet.claims : Claim(j).field = f => i = j
        BY <3>1, <4>3 DEF ClaimsAccepted, Distinct, Claim
      <4>5. Evidenced(Claim(i).refs)
        BY <2>2, <2>3, <3>1, CitedIsEvidenced DEF ClaimsAccepted
      <4> QED BY <3>1, <4>2, <4>3, <4>4, <4>5
    <3> QED BY <2>5, <3>2, <2>4 DEF GateClosesOnEvidence
  <2>6. CASE packet.type = "continuity"
    <3> DEFINE all == DOMAIN packet.content.measurements
    <3>1. /\ {Measurement(i).pair : i \in all} = Pairs
          /\ \A i \in all : /\ Measurement(i).result \in {"continuity", "open", "ambiguous"}
                            /\ Cited(Measurement(i).refs) /\ Measurement(i).result # "ambiguous"
      BY <2>1, <2>6 DEF TypeHolds, ContinuityHolds
    <3>2. ASSUME NEW pair \in Pairs
          PROVE  \E i \in all : /\ Measurement(i).pair = pair /\ Measurement(i).result \in {"continuity", "open"}
                                /\ Evidenced(Measurement(i).refs)
      <4>1. PICK i \in all : Measurement(i).pair = pair
        BY <3>1
      <4>2. Evidenced(Measurement(i).refs)
        BY <2>2, <2>3, <3>1, CitedIsEvidenced
      <4> QED BY <3>1, <4>1, <4>2
    <3> QED BY <2>6, <3>2, <2>4 DEF GateClosesOnEvidence
  <2>7. CASE packet.type = "approval"
    BY <2>1, <2>7, <2>4 DEF TypeHolds, ApprovalHolds, GateClosesOnEvidence
  <2>8. CASE packet.type = "passive-capture"
    <3>1. asked.artifacts /\ \E i \in Bound(packet.content.capture) : TRUE
      BY <2>1, <2>8 DEF TypeHolds, PassiveHolds
    <3>2. PICK i \in DOMAIN packet.artifacts : Artifact(i).path = packet.content.capture
      BY <3>1 DEF Bound
    <3>3. Intact(Artifact(i))
      BY <2>2, <2>3, <3>1 DEF Accepted, ArtifactAccepted
    <3> QED BY <2>8, <2>4, <3>2, <3>3 DEF GateClosesOnEvidence
  <2> QED BY <2>3, <2>5, <2>6, <2>7, <2>8 DEF PacketType
<1> QED BY <1>1, ChecksAddUp, PTL

-----------------------------------------------------------------------------
(* A paired capture.  What a recorder that lost nothing has written and    *)
(* what it has heard and not yet written make up the bus; the file may be  *)
(* damaged, but a trailer in it is the one that the recorders wrote.       *)

Streams == [Source -> Seq(Byte)]
Records == [records : Nat, stream : Seq(Byte), errors : Nat]
FileLine ==
    [type : {"header"}]
        \cup [type : {"rx"}, source : Source, seq : Nat, time : Nat, bytes : Seq(Byte), errors : Nat]
        \cup [type : {"trailer"}, ending : Endings, records : [Source -> Nat], streams : Streams]
CaptureTypeOK ==
    /\ bus \in Seq(Byte) /\ heard \in Streams /\ recorded \in [Source -> Records]
    /\ lossy \subseteq Source /\ lines \in Seq(FileLine) /\ readLines \in Nat
\* While they record there is no trailer, and nothing is missing but what the
\* lossy ones lost.
Heard ==
    readerAt = "recording" =>
        /\ \A i \in DOMAIN lines : lines[i].type # "trailer"
        /\ \A s \in Source \ lossy : recorded[s].stream \o heard[s] = bus
TrailersAreTheirs ==
    \A i \in DOMAIN lines :
        lines[i].type = "trailer" =>
            /\ lines[i].streams = [s \in Source |-> recorded[s].stream]
            /\ \A s \in Source \ lossy : recorded[s].stream = bus
Concluding ==
    /\ readerAt \in {"judging", "pass"} => Len(lines) # 0 /\ Trailer.type = "trailer"
    /\ readerAt = "pass" /\ ready => Agrees /\ Complete

CaptureInv == CaptureTypeOK /\ Heard /\ TrailersAreTheirs /\ Concluding

\* What is appended to what is heard is appended to the whole, and what is
\* moved from what is heard to what is written stays in it.
LEMMA AppendedToBoth ==
    ASSUME NEW S, NEW t \in Seq(S), NEW u \in Seq(S), NEW e \in S
    PROVE  t \o Append(u, e) = Append(t \o u, e)
<1>1. <<e>> \in Seq(S) /\ t \o u \in Seq(S)
  OBVIOUS
<1>2. Append(u, e) = u \o <<e>> /\ Append(t \o u, e) = (t \o u) \o <<e>>
  BY <1>1, AppendIsConcat
<1>3. (t \o u) \o <<e>> = t \o (u \o <<e>>)
  BY <1>1, ConcatAssociative
<1> QED BY <1>2, <1>3

LEMMA CutAndJoined ==
    ASSUME NEW S, NEW u \in Seq(S), NEW n \in 1..Len(u)
    PROVE  SubSeq(u, 1, n) \o SubSeq(u, n + 1, Len(u)) = u
<1>1. Len(u) \in Nat /\ 1 \in 1 .. Len(u) + 1 /\ n \in (1 - 1) .. Len(u) /\ Len(u) \in n .. Len(u)
  OBVIOUS
<1>2. SubSeq(u, 1, n) \o SubSeq(u, n + 1, Len(u)) = SubSeq(u, 1, Len(u))
  BY ONLY u \in Seq(S), <1>1, ConcatAdjacentSubSeq
<1>3. SubSeq(u, 1, Len(u)) = u
  BY ONLY u \in Seq(S), SubSeqFull
<1> QED BY <1>2, <1>3

LEMMA MovedOver ==
    ASSUME NEW S, NEW t \in Seq(S), NEW u \in Seq(S), NEW n \in 1..Len(u)
    PROVE  /\ SubSeq(u, 1, n) \in Seq(S) /\ SubSeq(u, n + 1, Len(u)) \in Seq(S)
           /\ (t \o SubSeq(u, 1, n)) \o SubSeq(u, n + 1, Len(u)) = t \o u
<1> DEFINE a == SubSeq(u, 1, n)
           c == SubSeq(u, n + 1, Len(u))
<1>1. a \in Seq(S) /\ c \in Seq(S)
  OBVIOUS
<1>2. a \o c = u
  BY CutAndJoined
<1> HIDE DEF a, c
<1>3. (t \o a) \o c = t \o (a \o c)
  BY <1>1
<1>4. (t \o a) \o c = t \o u
  BY <1>2, <1>3, Zenon
<1> QED BY <1>1, <1>4 DEF a, c

LEMMA CaptureInitial == CaptureInit => CaptureInv
<1> SUFFICES ASSUME CaptureInit PROVE CaptureInv
  OBVIOUS
<1> DEFINE header == [type |-> "header"]
<1>1. /\ bus = <<>> /\ heard = [s \in Source |-> <<>>] /\ lossy = {}
      /\ recorded = [s \in Source |-> [records |-> 0, stream |-> <<>>, errors |-> 0]]
      /\ lines = <<header>> /\ readerAt = "recording"
      /\ readLines = 0
  BY DEF CaptureInit
<1>2. header \in FileLine /\ header.type # "trailer"
  BY DEF FileLine
<1> HIDE DEF header
<1>3. CaptureTypeOK
  BY <1>1, <1>2 DEF CaptureTypeOK, Streams, Records
<1>4. \A i \in DOMAIN lines : lines[i].type # "trailer"
  BY <1>1, <1>2
<1>5. Heard
  <2>1. <<>> \o <<>> = <<>>
    OBVIOUS
  <2> QED BY <1>1, <1>4, <2>1 DEF Heard
<1> QED BY <1>1, <1>3, <1>4, <1>5 DEF CaptureInv, TrailersAreTheirs, Concluding

\* The types of what the recorders hold.
LEMMA Recorders ==
    ASSUME CaptureTypeOK, NEW s \in Source
    PROVE  /\ heard[s] \in Seq(Byte) /\ recorded[s] \in Records
           /\ recorded[s].stream \in Seq(Byte)
           /\ recorded[s].records \in Nat /\ recorded[s].errors \in Nat
BY DEF CaptureTypeOK, Streams, Records

LEMMA TransmitKeeps ==
    ASSUME CaptureInv, NEW b \in Byte, NEW losing \in SUBSET Source, Transmit(b, losing)
    PROVE  CaptureInv'
<1>1. /\ readerAt = "recording" /\ readerAt' = readerAt /\ lines' = lines
      /\ readLines' = readLines /\ bus' = Append(bus, b)
      /\ heard' = [s \in Source |-> IF s \in losing THEN heard[s] ELSE Append(heard[s], b)]
      /\ lossy' = lossy \cup losing
      /\ recorded' = [s \in Source |->
           IF s \in losing THEN [recorded[s] EXCEPT !.errors = @ + 1] ELSE recorded[s]]
  BY DEF Transmit, Recording
<1>2. CaptureTypeOK
  BY DEF CaptureInv
<1>3. CaptureTypeOK'
  <2>1. ASSUME NEW s \in Source PROVE heard'[s] \in Seq(Byte) /\ recorded'[s] \in Records
    <3>1. [recorded[s] EXCEPT !.errors = @ + 1] \in Records
      BY <1>2, Recorders DEF Records
    <3>2. Append(heard[s], b) \in Seq(Byte) /\ heard[s] \in Seq(Byte)
      BY <1>2, Recorders
    <3> QED BY <1>1, <1>2, <3>1, <3>2, Recorders
  <2>2. heard' \in Streams /\ recorded' \in [Source -> Records]
    BY <1>1, <2>1 DEF Streams
  <2> QED BY <1>1, <1>2, <2>2 DEF CaptureTypeOK
<1>4. ASSUME NEW s \in Source \ lossy'
      PROVE  recorded'[s].stream \o heard'[s] = bus'
  <2>1. s \notin losing /\ s \in Source \ lossy
    BY <1>1
  <2>2. recorded'[s] = recorded[s] /\ heard'[s] = Append(heard[s], b)
    BY <1>1, <2>1
  <2>3. recorded[s].stream \o heard[s] = bus
    BY <1>1, <2>1 DEF CaptureInv, Heard
  <2>4. recorded[s].stream \in Seq(Byte) /\ heard[s] \in Seq(Byte)
    BY <1>2, <2>1, Recorders
  <2>5. \A t, u \in Seq(Byte) : t \o Append(u, b) = Append(t \o u, b)
    BY AppendedToBoth
  <2> QED BY <1>1, <2>2, <2>3, <2>4, <2>5
<1>5. \A i \in DOMAIN lines' : lines'[i].type # "trailer"
  BY <1>1 DEF CaptureInv, Heard
<1> QED BY <1>1, <1>3, <1>4, <1>5 DEF CaptureInv, Heard, TrailersAreTheirs, Concluding

LEMMA WriteRecordKeeps ==
    ASSUME CaptureInv, NEW s \in Source, NEW n \in Nat, WriteRecord(s, n)
    PROVE  CaptureInv'
<1> DEFINE bytes == SubSeq(heard[s], 1, n)
           rest == SubSeq(heard[s], n + 1, Len(heard[s]))
           row == [type |-> "rx", source |-> s, seq |-> recorded[s].records,
                   time |-> Len(bus), bytes |-> bytes, errors |-> recorded[s].errors]
<1>1. /\ readerAt = "recording" /\ readerAt' = readerAt /\ n \in 1..Len(heard[s])
      /\ lines' = Append(lines, row) /\ readLines' = readLines /\ bus' = bus /\ lossy' = lossy
      /\ recorded' = [recorded EXCEPT ![s].records = @ + 1, ![s].stream = @ \o bytes]
      /\ heard' = [heard EXCEPT ![s] = rest]
  BY DEF WriteRecord, Recording
<1>2. CaptureTypeOK /\ Len(bus) \in Nat
  BY DEF CaptureInv, CaptureTypeOK
<1>3. heard[s] \in Seq(Byte) /\ Len(heard[s]) \in Nat /\ recorded[s].stream \in Seq(Byte)
  BY <1>2, Recorders
<1>4. /\ bytes \in Seq(Byte) /\ rest \in Seq(Byte)
      /\ (recorded[s].stream \o bytes) \o rest = recorded[s].stream \o heard[s]
  BY <1>1, <1>3, MovedOver
<1>5. row \in FileLine /\ row.type # "trailer"
  BY <1>2, <1>4, Recorders DEF FileLine
<1> HIDE DEF bytes, rest, row
<1>6. /\ lines' \in Seq(FileLine) /\ \A i \in DOMAIN lines' : lines'[i].type # "trailer"
  <2>1. lines \in Seq(FileLine) /\ \A i \in DOMAIN lines : lines[i].type # "trailer"
    BY <1>1, <1>2 DEF CaptureInv, Heard, CaptureTypeOK
  <2> QED BY <1>1, <1>5, <2>1
<1>7. /\ recorded[s].stream \o bytes \in Seq(Byte)
      /\ recorded'[s] = [recorded[s] EXCEPT !.records = @ + 1, !.stream = @ \o bytes]
      /\ recorded'[s] \in Records /\ recorded'[s].stream = recorded[s].stream \o bytes
  <2>1. recorded[s].stream \o bytes \in Seq(Byte)
    BY <1>3, <1>4
  <2>2. recorded'[s] = [recorded[s] EXCEPT !.records = @ + 1, !.stream = @ \o bytes]
    BY <1>1, <1>2 DEF CaptureTypeOK
  <2>3. recorded[s] \in Records /\ recorded[s].records + 1 \in Nat
    BY <1>2, Recorders
  <2> QED BY <2>1, <2>2, <2>3 DEF Records
<1>8. \A t \in Source : t # s => recorded'[t] = recorded[t] /\ heard'[t] = heard[t]
  BY <1>1, <1>2 DEF CaptureTypeOK, Streams
<1>9. heard'[s] = rest /\ DOMAIN heard' = Source /\ DOMAIN recorded' = Source
  BY <1>1, <1>2 DEF CaptureTypeOK, Streams
<1>10. CaptureTypeOK'
  <2>1. heard' \in Streams
    BY <1>1, <1>2, <1>4 DEF CaptureTypeOK, Streams
  <2>2. recorded' = [t \in Source |-> recorded'[t]]
    BY <1>1, <1>2 DEF CaptureTypeOK
  <2>3. \A t \in Source : recorded'[t] \in Records
    BY <1>2, <1>7, <1>8, Recorders
  <2> QED BY <1>1, <1>2, <1>6, <2>1, <2>2, <2>3 DEF CaptureTypeOK
<1>11. ASSUME NEW t \in Source \ lossy'
       PROVE  recorded'[t].stream \o heard'[t] = bus'
  <2>1. recorded[t].stream \o heard[t] = bus
    BY <1>1 DEF CaptureInv, Heard
  <2>2. CASE t = s
    BY <1>1, <1>4, <1>7, <1>9, <2>1, <2>2
  <2> QED BY <1>1, <1>8, <2>1, <2>2
<1> QED BY <1>1, <1>6, <1>10, <1>11 DEF CaptureInv, Heard, TrailersAreTheirs, Concluding

LEMMA EndCaptureKeeps ==
    ASSUME CaptureInv, NEW ending \in Endings, EndCapture(ending)
    PROVE  CaptureInv'
<1> DEFINE last == [type |-> "trailer", ending |-> ending,
                    records |-> [s \in Source |-> recorded[s].records],
                    streams |-> [s \in Source |-> recorded[s].stream]]
<1>1. /\ readerAt = "recording" /\ readerAt' = "recorded"
      /\ lines' = Append(lines, last) /\ readLines' = readLines /\ bus' = bus /\ heard' = heard /\ recorded' = recorded
      /\ lossy' = lossy \cup {s \in Source : heard[s] # <<>>}
  BY DEF EndCapture, Recording
<1>2. CaptureTypeOK /\ lines \in Seq(FileLine) /\ \A i \in DOMAIN lines : lines[i].type # "trailer"
  BY <1>1 DEF CaptureInv, Heard, CaptureTypeOK
<1>3. last \in FileLine /\ last.streams = [s \in Source |-> recorded[s].stream]
  <2>1. [s \in Source |-> recorded[s].records] \in [Source -> Nat]
    BY <1>2, Recorders
  <2>2. [s \in Source |-> recorded[s].stream] \in Streams
    BY <1>2, Recorders DEF Streams
  <2> QED BY <2>1, <2>2 DEF FileLine
<1> HIDE DEF last
<1>4. CaptureTypeOK'
  BY <1>1, <1>2, <1>3 DEF CaptureTypeOK
<1>5. ASSUME NEW s \in Source \ lossy' PROVE recorded'[s].stream = bus'
  <2>1. heard[s] = <<>> /\ recorded[s].stream \o heard[s] = bus
    BY <1>1 DEF CaptureInv, Heard
  <2> QED BY <1>1, <1>2, <2>1, Recorders, ConcatEmptySeq
<1>6. \A i \in DOMAIN lines' : lines'[i].type = "trailer" => lines'[i] = last
  BY <1>1, <1>2, <1>3
<1>7. TrailersAreTheirs'
  BY <1>1, <1>3, <1>5, <1>6 DEF TrailersAreTheirs
<1> QED BY <1>1, <1>4, <1>7 DEF CaptureInv, Heard, Concluding

\* Whatever is lost, doubled or moved, the lines were lines before.
LEMMA DamagedLines ==
    ASSUME CaptureInv, DamageFile
    PROVE  lines' \in Seq({lines[i] : i \in DOMAIN lines})
<1> DEFINE Old == {lines[i] : i \in DOMAIN lines}
<1>1. lines \in Seq(FileLine) /\ Len(lines) \in Nat /\ DOMAIN lines = 1..Len(lines)
  BY DEF CaptureInv, CaptureTypeOK
<1>2. lines \in Seq(Old)
  BY <1>1
<1>3. \A i \in DOMAIN lines : lines[i] \in Old
  OBVIOUS
<1>4. PICK i \in DOMAIN lines :
        \/ lines' = RemoveAt(lines, i)
        \/ lines' = InsertAt(lines, i, lines[i])
        \/ i < Len(lines) /\ lines' = [lines EXCEPT ![i] = lines[i + 1], ![i + 1] = lines[i]]
  BY DEF DamageFile
<1> DEFINE before == SubSeq(lines, 1, i - 1)
           from == SubSeq(lines, i, Len(lines))
           after == SubSeq(lines, i + 1, Len(lines))
<1> HIDE DEF Old
<1>5. before \in Seq(Old) /\ from \in Seq(Old) /\ after \in Seq(Old) /\ <<lines[i]>> \in Seq(Old)
  BY <1>1, <1>2, <1>3
<1>6. /\ RemoveAt(lines, i) = before \o after
      /\ InsertAt(lines, i, lines[i]) = before \o <<lines[i]>> \o from
  BY DEF RemoveAt, InsertAt
<1>7. i < Len(lines) => lines[i + 1] \in Old
  BY <1>1, <1>3
<1>8. i < Len(lines) => [lines EXCEPT ![i] = lines[i + 1], ![i + 1] = lines[i]] \in Seq(Old)
  BY <1>1, <1>2, <1>3, <1>7
<1> HIDE DEF before, from, after
<1>9. before \o after \in Seq(Old) /\ before \o <<lines[i]>> \o from \in Seq(Old)
  BY <1>5
<1>10. lines' \in Seq(Old)
  BY <1>4, <1>6, <1>8, <1>9
<1> QED BY <1>10 DEF Old

LEMMA DamageFileKeeps == ASSUME CaptureInv, DamageFile PROVE CaptureInv'
<1> DEFINE Old == {lines[i] : i \in DOMAIN lines}
<1>1. /\ readerAt = "recorded" /\ readerAt' = readerAt /\ bus' = bus /\ heard' = heard
      /\ readLines' = readLines /\ lossy' = lossy /\ recorded' = recorded
  BY DEF DamageFile
<1>2. lines' \in Seq(Old)
  BY DamagedLines
<1>3. \A k \in DOMAIN lines' : \E i \in DOMAIN lines : lines'[k] = lines[i]
  BY <1>2
<1>4. Old \subseteq FileLine
  BY DEF CaptureInv, CaptureTypeOK
<1>5. CaptureTypeOK'
  BY <1>1, <1>2, <1>4, SeqMonotonic DEF CaptureInv, CaptureTypeOK
<1>6. TrailersAreTheirs'
  BY <1>1, <1>3 DEF CaptureInv, TrailersAreTheirs
<1> QED BY <1>1, <1>5, <1>6 DEF CaptureInv, Heard, Concluding

\* Reading changes nothing of the recording.
LEMMA ReadingKeeps ==
    ASSUME CaptureInv, UNCHANGED recorderVars, readerAt' # "recording", readLines' \in Nat, Concluding'
    PROVE  CaptureInv'
<1>1. /\ bus' = bus /\ heard' = heard /\ lossy' = lossy /\ recorded' = recorded /\ lines' = lines
  BY DEF recorderVars
<1>2. CaptureTypeOK' /\ TrailersAreTheirs'
  BY <1>1 DEF CaptureInv, CaptureTypeOK, TrailersAreTheirs
<1> QED BY <1>2 DEF CaptureInv, Heard

LEMMA EarlyReadKeeps ==
    ASSUME CaptureInv, NEW complete, OpenFile(complete) \/ ReadHeader \/ ReadRecord \/ EndWithoutTrailer
    PROVE  CaptureInv'
<1>1. UNCHANGED recorderVars /\ readerAt' \in {"reading", "fail"} /\ readLines' \in {readLines, readLines + 1, 1}
  BY DEF OpenFile, ReadHeader, ReadRecord, EndWithoutTrailer, Reading, Proceeds
<1>2. readLines' \in Nat
  BY <1>1 DEF CaptureInv, CaptureTypeOK
<1> QED BY <1>1, <1>2, ReadingKeeps DEF Concluding

LEMMA ReadTrailerKeeps == ASSUME CaptureInv, ReadTrailer PROVE CaptureInv'
<1>1. /\ UNCHANGED recorderVars /\ readerAt' \in {"judging", "fail"} /\ Line.type = "trailer"
      /\ readLines < Len(lines)
      /\ readerAt' = "judging" => readLines + 1 = Len(lines)
      /\ readLines' = readLines + 1
  BY DEF ReadTrailer, Reading, Proceeds
<1>2. readLines \in Nat /\ (readerAt' = "judging" => Trailer.type = "trailer" /\ Len(lines) # 0)
  BY <1>1 DEF Trailer, Line, CaptureInv, CaptureTypeOK
<1>3. Concluding'
  BY <1>1, <1>2 DEF Concluding, recorderVars, Trailer
<1> QED BY <1>1, <1>2, <1>3, ReadingKeeps

LEMMA JudgeKeeps == ASSUME CaptureInv, Judge PROVE CaptureInv'
<1>1. /\ readerAt = "judging" /\ readerAt' \in {"pass", "fail"} /\ UNCHANGED recorderVars /\ seen' = seen
      /\ readLines' = readLines /\ readLines \in Nat
      /\ ready' = (Agrees /\ Complete)
  BY DEF Judge, Proceeds, CaptureInv, CaptureTypeOK
<1>2. lines' = lines /\ seen' = seen
  BY <1>1 DEF recorderVars
<1>3. Trailer' = Trailer /\ Agrees' = Agrees /\ Complete' = Complete
  BY <1>2 DEF Trailer, Agrees, Complete
<1>4. Len(lines) # 0 /\ Trailer.type = "trailer"
  BY <1>1 DEF CaptureInv, Concluding
<1>5. Concluding'
  BY <1>1, <1>2, <1>3, <1>4 DEF Concluding
<1> QED BY <1>1, <1>5, ReadingKeeps

LEMMA CaptureStep == CaptureInv /\ [CaptureNext]_captureVars => CaptureInv'
<1> SUFFICES ASSUME CaptureInv, [CaptureNext]_captureVars PROVE CaptureInv'
  OBVIOUS
<1>1. ASSUME NEW b \in Byte, NEW losing \in SUBSET Source, Transmit(b, losing) PROVE CaptureInv'
  BY <1>1, TransmitKeeps
<1>2. ASSUME NEW s \in Source, NEW n \in 1..MaxRecordBytes, WriteRecord(s, n) PROVE CaptureInv'
  BY <1>2, WriteRecordKeeps, CaptureAssumption
<1>3. ASSUME NEW ending \in Endings, EndCapture(ending) PROVE CaptureInv'
  BY <1>3, EndCaptureKeeps
<1>4. CASE DamageFile
  BY <1>4, DamageFileKeeps
<1>5. ASSUME NEW complete \in BOOLEAN, OpenFile(complete) PROVE CaptureInv'
  BY <1>5, EarlyReadKeeps
<1>6. CASE ReadHeader \/ ReadRecord \/ EndWithoutTrailer
  BY <1>6, EarlyReadKeeps
<1>7. CASE ReadTrailer
  BY <1>7, ReadTrailerKeeps
<1>8. CASE Judge
  BY <1>8, JudgeKeeps
<1>9. CASE UNCHANGED captureVars
  <2>1. /\ bus' = bus /\ heard' = heard /\ lossy' = lossy /\ recorded' = recorded /\ lines' = lines
        /\ readLines' = readLines /\ readerAt' = readerAt /\ seen' = seen /\ ready' = ready
    BY <1>9 DEF captureVars
  <2>2. CaptureTypeOK' /\ Heard' /\ TrailersAreTheirs'
    BY <2>1 DEF CaptureInv, CaptureTypeOK, Heard, TrailersAreTheirs
  <2>3. Trailer' = Trailer /\ Agrees' = Agrees /\ Complete' = Complete
    BY <2>1 DEF Trailer, Agrees, Complete
  <2> QED BY <2>1, <2>2, <2>3 DEF CaptureInv, Concluding
<1> QED BY <1>1, <1>2, <1>3, <1>4, <1>5, <1>6, <1>7, <1>8, <1>9 DEF CaptureNext

\* What the recorders heard and wrote, and what the reader rests on
\* (validate_capture_file).
THEOREM TrailersAreGenuine == CaptureSpec => []CaptureInv
<1> QED BY CaptureInitial, CaptureStep, PTL DEF CaptureSpec

\* A capture that may close a gate is the traffic, for any number of bytes,
\* records and damaged lines (validate_capture_file: sequence numbers, counts
\* and hashes).
THEOREM ReadyCapturesAreWhole == CaptureSpec => []ReadyCaptureIsWhole
<1>1. CaptureInv => ReadyCaptureIsWhole
  <2> SUFFICES ASSUME CaptureInv, readerAt = "pass", ready, lossy # Source
               PROVE  \A s \in Source : seen[s].stream = bus
    BY DEF ReadyCaptureIsWhole
  <2>1. PICK whole \in Source : whole \notin lossy
    BY DEF CaptureInv, CaptureTypeOK
  <2>2. Len(lines) \in DOMAIN lines /\ Trailer.type = "trailer" /\ Agrees /\ Complete
    BY DEF CaptureInv, Concluding, CaptureTypeOK
  <2>3. Trailer.streams[whole] = bus
    BY <2>1, <2>2 DEF CaptureInv, TrailersAreTheirs, Trailer
  <2>4. Trailer.streams[whole] = seen[whole].stream
    BY <2>1, <2>2 DEF Agrees
  <2>5. \A s \in Source : seen[s].stream = seen[whole].stream
    BY <2>1, <2>2 DEF Complete
  <2> QED BY <2>3, <2>4, <2>5
<1> QED BY <1>1, TrailersAreGenuine, PTL
==============================================================================
