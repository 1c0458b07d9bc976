---------------------------- MODULE CaptureStream ----------------------------
(***************************************************************************)
(* A paired passive capture and its validation (validate_capture_file in   *)
(* scripts/validate_evidence_packet.py).  Two recorders listen to one bus  *)
(* and write records to one NDJSON file: a header, records of either       *)
(* source, a trailer with the counts and the hash of each stream.  The     *)
(* file may be damaged before it is validated, line by line.               *)
(*                                                                         *)
(* SHA-256 is taken to be injective: a hash is the stream it was taken of. *)
(***************************************************************************)
EXTENDS Integers, Sequences, SequencesExt

CONSTANTS
    Source,         \* CAPTURE_SOURCES
    Byte,
    MaxBytes,       \* transmitted on the bus
    MaxRecordBytes,
    Minimum,        \* CAPTURE_MINIMUM_MS
    Tolerance,      \* between the durations by the two clocks
    Endings,        \* [duration, wall, reported]: what a trailer may say of them,
                    \* and of transmitted frames and bus faults
    MaxDamage

ASSUME CaptureAssumption ==
    /\ {MaxBytes, MaxRecordBytes, Minimum, Tolerance, MaxDamage} \subseteq Nat
    /\ Endings \subseteq [duration : Nat, wall : Nat, reported : Nat]

VARIABLES
    bus,            \* what was transmitted
    heard,          \* source -> bytes that are not written yet
    lossy,          \* the sources that lost a byte
    recorded,       \* source -> [records, stream, errors], kept by the recorder
    lines,          \* the lines of the file
    damage,         \* how often the file was damaged
    readerAt,       \* "recording", "recorded", "reading", "judging", "pass" or "fail"
    readLines,      \* how many lines were read
    seen,           \* source -> [records, stream, time, errors], kept by the reader
    requireComplete,
    ready           \* the capture may close a gate

captureVars == <<bus, heard, lossy, recorded, lines, damage, readerAt, readLines, seen, requireComplete, ready>>
recorderVars == <<bus, heard, lossy, recorded, lines, damage>>

CaptureInit ==
    /\ bus = <<>> /\ heard = [s \in Source |-> <<>>] /\ lossy = {}
    /\ recorded = [s \in Source |-> [records |-> 0, stream |-> <<>>, errors |-> 0]]
    /\ lines = <<[type |-> "header"]>> /\ damage = 0
    /\ readerAt = "recording" /\ readLines = 0
    /\ seen = [s \in Source |-> [records |-> 0, stream |-> <<>>, time |-> -1, errors |-> 0]]
    /\ requireComplete = FALSE /\ ready = FALSE

-----------------------------------------------------------------------------
Recording == readerAt = "recording" /\ UNCHANGED <<damage, readLines, seen, ready, requireComplete>>

\* A byte on the bus, which some recorder may lose; a UART counts what it lost.
Transmit(b, losing) ==
    /\ Recording /\ Len(bus) < MaxBytes
    /\ bus' = Append(bus, b)
    /\ heard' = [s \in Source |-> IF s \in losing THEN heard[s] ELSE Append(heard[s], b)]
    /\ lossy' = lossy \cup losing
    /\ recorded' = [s \in Source |->
         IF s \in losing THEN [recorded[s] EXCEPT !.errors = @ + 1] ELSE recorded[s]]
    /\ UNCHANGED <<lines, readerAt>>

WriteRecord(s, n) ==
    /\ Recording
    /\ n \in 1..Len(heard[s])
    /\ LET bytes == SubSeq(heard[s], 1, n) IN
         /\ lines' = Append(lines, [type |-> "rx", source |-> s, seq |-> recorded[s].records,
                                    time |-> Len(bus), bytes |-> bytes, errors |-> recorded[s].errors])
         /\ recorded' = [recorded EXCEPT ![s].records = @ + 1, ![s].stream = @ \o bytes]
    /\ heard' = [heard EXCEPT ![s] = SubSeq(@, n + 1, Len(@))]
    /\ UNCHANGED <<bus, lossy, readerAt>>

\* What is not written by now is lost.
EndCapture(ending) ==
    /\ Recording /\ readerAt' = "recorded"
    /\ lines' = Append(lines, [type |-> "trailer", ending |-> ending,
                               records |-> [s \in Source |-> recorded[s].records],
                               streams |-> [s \in Source |-> recorded[s].stream]])
    /\ lossy' = lossy \cup {s \in Source : heard[s] # <<>>}
    /\ UNCHANGED <<bus, heard, recorded>>

\* A line of the file is lost, doubled or moved.
DamageFile ==
    /\ readerAt = "recorded" /\ damage < MaxDamage
    /\ damage' = damage + 1
    /\ \E i \in DOMAIN lines :
         \/ lines' = RemoveAt(lines, i)
         \/ lines' = InsertAt(lines, i, lines[i])
         \/ i < Len(lines) /\ lines' = [lines EXCEPT ![i] = lines[i + 1], ![i + 1] = lines[i]]
    /\ UNCHANGED <<bus, heard, lossy, recorded, readerAt, readLines, seen, ready, requireComplete>>

-----------------------------------------------------------------------------
Reading == readerAt = "reading" /\ UNCHANGED <<recorderVars, requireComplete>>
Proceeds(ok, to) == readerAt' = IF ok THEN to ELSE "fail"

\* --capture with or without --require-complete, of a file whose recorder may
\* have died before the trailer; the template of the repository is validated by
\* the same function.
OpenFile(complete) ==
    /\ readerAt \in {"recording", "recorded"}
    /\ readerAt' = "reading" /\ requireComplete' = complete
    /\ UNCHANGED <<recorderVars, readLines, seen, ready>>
Line == lines[readLines + 1]

ReadHeader ==
    /\ Reading /\ readLines = 0 /\ lines # <<>>
    /\ Proceeds(Line.type = "header", "reading")
    /\ readLines' = 1
    /\ UNCHANGED <<seen, ready>>

InSequence(record) == record.seq = seen[record.source].records
Continues(record) ==
    LET last == seen[record.source] IN
      /\ InSequence(record)
      /\ record.time >= last.time
      /\ Len(record.bytes) \in 1..MaxRecordBytes
      /\ record.errors >= last.errors
Extended(last, record) ==
    [records |-> last.records + 1, stream |-> last.stream \o record.bytes,
     time |-> record.time, errors |-> record.errors]
ReadRecord ==
    /\ Reading /\ readLines > 0 /\ readLines < Len(lines)
    /\ Line.type # "trailer"
    /\ IF Line.type = "rx" /\ Continues(Line)
       THEN seen' = [seen EXCEPT ![Line.source] = Extended(@, Line)] /\ Proceeds(TRUE, "reading")
       ELSE Proceeds(FALSE, "fail") /\ UNCHANGED seen
    /\ readLines' = readLines + 1
    /\ UNCHANGED ready

\* Nothing may follow the trailer.
ReadTrailer ==
    /\ Reading /\ readLines > 0 /\ readLines < Len(lines)
    /\ Line.type = "trailer"
    /\ readLines' = readLines + 1
    /\ Proceeds(readLines' = Len(lines), "judging")
    /\ UNCHANGED <<seen, ready>>
EndWithoutTrailer ==
    /\ Reading /\ readLines = Len(lines)
    /\ Proceeds(FALSE, "fail")
    /\ UNCHANGED <<readLines, seen, ready>>

Trailer == lines[Len(lines)]
Agrees ==
    /\ Trailer.ending.wall - Trailer.ending.duration \in -Tolerance..Tolerance
    /\ \A s \in Source : seen[s].time <= Trailer.ending.duration + 1
    /\ Trailer.records = [s \in Source |-> seen[s].records]
    /\ Trailer.streams = [s \in Source |-> seen[s].stream]
\* The list of reasons is empty.
CompleteByCount ==                      \* mutant: the streams come in as many records
    /\ Trailer.ending.duration >= Minimum
    /\ \A s \in Source : seen[s].stream # <<>>
    /\ \A s, t \in Source : seen[s].records = seen[t].records
    /\ Trailer.ending.reported = 0
Complete ==
    /\ Trailer.ending.duration >= Minimum
    /\ \A s \in Source : seen[s].stream # <<>>
    /\ \A s, t \in Source : seen[s].stream = seen[t].stream
    /\ Trailer.ending.reported = 0
Judge ==
    /\ readerAt = "judging"
    /\ ready' = (Agrees /\ Complete)
    /\ Proceeds(Agrees /\ (requireComplete => Complete), "pass")
    /\ UNCHANGED <<recorderVars, requireComplete, readLines, seen>>

CaptureNext ==
    \/ \E b \in Byte, losing \in SUBSET Source : Transmit(b, losing)
    \/ \E s \in Source, n \in 1..MaxRecordBytes : WriteRecord(s, n)
    \/ \E ending \in Endings : EndCapture(ending)
    \/ DamageFile
    \/ \E complete \in BOOLEAN : OpenFile(complete)
    \/ ReadHeader \/ ReadRecord \/ ReadTrailer \/ EndWithoutTrailer \/ Judge

CaptureSpec == CaptureInit /\ [][CaptureNext]_captureVars

-----------------------------------------------------------------------------
\* A capture that may close a gate shows all of the traffic, in its order, in
\* both streams, unless both recorders lost something: whatever the chunks they
\* wrote, and whatever happened to the file (validate_capture_file: sequence
\* numbers, counts and hashes; docs/cleanroom/physical-evidence-contract.md).
ReadyCaptureIsWhole ==
    readerAt = "pass" /\ ready /\ lossy # Source =>
        \A s \in Source : seen[s].stream = bus
=============================================================================
