----------------------------- MODULE ProjectLoop -----------------------------
(***************************************************************************)
(* scripts/validate_project_loop.py: the durable state of the project loop *)
(* and its experiment ledger, whose first rows are sealed by one hash and  *)
(* whose later rows carry the hash of the row before.  Between validations *)
(* rows are appended, and anything may be edited.                          *)
(*                                                                         *)
(* SHA-256 is taken to be injective: the digest of a row stands for it.    *)
(***************************************************************************)
EXTENDS Integers, Sequences

CONSTANTS
    Texts,          \* what the other fields of a row say
    Sealed,         \* the rows of the sealed prefix
    MaxRows, MaxTime, MaxEdits

Digest(row) == <<row>>
NoLink == <<>>
\* The checks around the ledger, which comes before the last of them: the
\* contract; the state files, the design and its amendment, the markers, the
\* open task, the milestone state, the evidence directories; the rollback image
\* and the ignore rules.
Parts == <<"contract", "state", "rollback">>
LedgerAt == 3

ASSUME LoopAssumption ==
    /\ Sealed \in Seq([text : Texts, time : Nat, link : {NoLink}, full : {FALSE}])
    /\ Sealed # <<>>

VARIABLES
    ledger,         \* the rows of the file
    damaged,        \* the checks that something in the repository would fail
    edits,          \* how often anything was edited
    raw,            \* the ledger as the validator read it
    part,           \* the check that comes next
    line,           \* rows of the ledger that passed; -1 before it is read
    verdict,        \* "none", "running", "pass", "fail"
    trusted         \* the ledger of an earlier validation that passed

files == <<ledger, damaged, edits>>
loopVars == <<ledger, damaged, edits, raw, part, line, verdict, trusted>>

LoopInit ==
    /\ ledger = Sealed /\ damaged = {} /\ edits = 0
    /\ raw = <<>> /\ part = 1 /\ line = -1
    /\ verdict = "none" /\ trusted = <<>>

-----------------------------------------------------------------------------
Idle == verdict # "running" /\ UNCHANGED <<raw, part, line, verdict, trusted>>

\* The project loop adds a row, as the contract wants it.
AppendRow(text, time) ==
    /\ Idle
    /\ Len(ledger) < MaxRows
    /\ time >= ledger[Len(ledger)].time
    /\ ledger' = Append(ledger, [text |-> text, time |-> time,
                                 link |-> Digest(ledger[Len(ledger)]), full |-> TRUE])
    /\ UNCHANGED <<damaged, edits>>

\* A row is lost, moved, copied or changed, or a part of the state is.
Kept(lo, hi) == SubSeq(ledger, lo, hi)
Edited == edits < MaxEdits /\ edits' = edits + 1
DropRow(i) ==
    /\ Idle /\ Edited /\ Len(ledger) > 1
    /\ ledger' = Kept(1, i - 1) \o Kept(i + 1, Len(ledger))
    /\ UNCHANGED damaged
SwapRows(i) ==
    /\ Idle /\ Edited /\ i < Len(ledger)
    /\ ledger' = [ledger EXCEPT ![i] = ledger[i + 1], ![i + 1] = ledger[i]]
    /\ UNCHANGED damaged
CopyRow(i, j) ==
    /\ Idle /\ Edited /\ Len(ledger) < MaxRows
    /\ ledger' = Kept(1, i) \o <<ledger[j]>> \o Kept(i + 1, Len(ledger))
    /\ UNCHANGED damaged
RewriteRow(i, text, row) ==
    /\ Idle /\ Edited
    /\ ledger' = [ledger EXCEPT ![i].text = text, ![i].link = Digest(row)]
    /\ UNCHANGED damaged
DamagePart(p) == Idle /\ Edited /\ damaged' = damaged \cup {p} /\ UNCHANGED ledger

-----------------------------------------------------------------------------
Running == verdict = "running" /\ UNCHANGED <<files, trusted>>
Verdict(ok) == verdict' = IF ok THEN verdict ELSE "fail"

\* What passed last time is kept to compare with.
Validate ==
    /\ verdict # "running"
    /\ trusted' = IF verdict = "pass" THEN raw ELSE trusted
    /\ verdict' = "running" /\ part' = 1 /\ line' = -1 /\ raw' = <<>>
    /\ UNCHANGED files

CheckPart ==
    /\ Running
    /\ part <= Len(Parts)
    /\ part = LedgerAt => line = Len(raw)
    /\ Verdict(Parts[part] \notin damaged)
    /\ part' = part + 1
    /\ UNCHANGED <<raw, line>>

HasPrefix(rows) ==
    /\ Len(rows) >= Len(Sealed)
    /\ \A i \in DOMAIN Sealed : rows[i] = Sealed[i]
ReadLedger ==
    /\ Running
    /\ part = LedgerAt /\ line = -1
    /\ raw' = ledger /\ line' = 0
    /\ Verdict(HasPrefix(ledger))
    /\ UNCHANGED part

\* After the prefix a row is complete and carries the hash of the row before.
LinkedLate(rows, i) ==                      \* mutant: the first one is not linked
    i > Len(Sealed) => rows[i].full /\ (i > Len(Sealed) + 1 => rows[i].link = Digest(rows[i - 1]))
Linked(rows, i) ==
    i > Len(Sealed) => rows[i].full /\ rows[i].link = Digest(rows[i - 1])
CheckLine ==
    /\ Running
    /\ part = LedgerAt /\ line >= 0 /\ line < Len(raw)
    /\ line' = line + 1
    /\ Verdict(/\ line > 0 => raw[line + 1].time >= raw[line].time
               /\ Linked(raw, line + 1))
    /\ UNCHANGED <<raw, part>>

Conclude ==
    /\ Running
    /\ part > Len(Parts)
    /\ verdict' = "pass"
    /\ UNCHANGED <<raw, part, line>>

LoopNext ==
    \/ \E text \in Texts, time \in 0..MaxTime : AppendRow(text, time)
    \/ \E i \in DOMAIN ledger : DropRow(i) \/ SwapRows(i)
    \/ \E i, j \in DOMAIN ledger : CopyRow(i, j)
    \/ \E i, j \in DOMAIN ledger, text \in Texts : RewriteRow(i, text, ledger[j])
    \/ \E i \in DOMAIN Parts : DamagePart(Parts[i])
    \/ Validate \/ CheckPart \/ ReadLedger \/ CheckLine \/ Conclude

LoopSpec == LoopInit /\ [][LoopNext]_loopVars

-----------------------------------------------------------------------------
Later(rows) == (Len(Sealed) + 1)..Len(rows)

\* A row vouches for the whole history: if a row after the sealed prefix of a
\* ledger that passes is a row of a ledger that passed before, it is the same
\* line of both and everything above it is the same. So a later edit, loss,
\* insertion or reordering shows, as long as one later row stays
\* (validate_ledger: previousRowSha256, the sealed prefix).
RowVouchesForHistory ==
    verdict = "pass" =>
        \A i \in Later(raw), j \in Later(trusted) :
            raw[i] = trusted[j] => i = j /\ \A k \in 1..i : raw[k] = trusted[k]
=============================================================================
