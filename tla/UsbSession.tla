----------------------------- MODULE UsbSession -----------------------------
(***************************************************************************)
(* The USB flashing tools: upload in scripts/upload_usb_bootstrap.py, with *)
(* the segments, the preflight, the baseline and the boot acceptance of    *)
(* its three callers (the first installation and the two upgrades).  While *)
(* a session runs, boards are plugged in and out, bundle files change and  *)
(* reads, writes and the tool itself may fail.                             *)
(***************************************************************************)
EXTENDS Integers, Sequences

CONSTANTS
    Board, NoBoard,
    C008,           \* the board with the expected chip, revision, MAC and fuses
    Segments,       \* tool -> region -> the approved content
    WriteOrder,     \* the regions that are written
    Preserved,      \* the NVS regions
    Baseline,       \* tool -> the content that some regions must have before
    FirstFlash,     \* board -> what it holds when it is first plugged in
    Junk,
    Printouts,      \* what a board may print when it is reset
    Key,            \* the lines among it that hand off an installation key
    MaxSessions, MaxFaults

\* upload_usb_bootstrap, upgrade_usb_bootstrap and upgrade_signed_ota
Tool == {"first", "upgrade", "signed"}
Region == Preserved \cup {WriteOrder[i] : i \in DOMAIN WriteOrder}
NoImage == <<>>
NoKey == ""
NoReport == [status |-> "none", writeStarted |-> FALSE]

ASSUME UsbAssumption ==
    /\ C008 \in Board /\ NoBoard \notin Board
    /\ \A t \in Tool :
         /\ DOMAIN Segments[t] = Region \ Preserved
         /\ DOMAIN Baseline[t] \subseteq Region \ Preserved
    /\ Len(WriteOrder) \in Nat /\ DOMAIN WriteOrder = 1..Len(WriteOrder)
    /\ \A i \in DOMAIN WriteOrder : WriteOrder[i] \notin Preserved
    /\ DOMAIN FirstFlash = Board /\ \A b \in Board : DOMAIN FirstFlash[b] = Region
    /\ Printouts \subseteq Seq(STRING) /\ Key \subseteq STRING /\ NoKey \notin Key
    /\ {MaxSessions, MaxFaults} \subseteq Nat

VARIABLES
    present,        \* the board whose adapter is enumerated, or NoBoard
    flash,
    altered,        \* the bundle files that are not as approved
    faults, sessions,
    tool, stage,    \* the running tool and where it is
    link,           \* the board whose port is open
    copied,        \* the flash as it was read
    opened,         \* what the opened segment files hold
    written,        \* segments that were written
    printing, printed,    \* lines to come and lines that were read
    credentials,    \* the key in credentials.txt
    report,         \* what report.json says, or will say if the tool gets that far
    backups,        \* the pre-upload files of all sessions
    before,         \* history: the flash before this session's first write
    unchecked       \* history: a file changed after its last check

usbVars == <<present, flash, altered, faults, sessions, tool, stage, link, copied, opened,
             written, printing, printed, credentials, report, backups, before, unchecked>>
bench == <<present, flash, altered, faults>>
kept == <<sessions, tool, before, unchecked>>

UsbInit ==
    /\ present = NoBoard /\ flash = FirstFlash /\ altered = {} /\ faults = 0
    /\ sessions = 0 /\ tool = "none" /\ stage = "idle" /\ link = NoBoard
    /\ copied = NoImage /\ opened = NoImage /\ written = 0
    /\ printing = <<>> /\ printed = <<>> /\ credentials = NoKey
    /\ report = NoReport
    /\ backups = {} /\ before = NoImage /\ unchecked = FALSE

-----------------------------------------------------------------------------
Fault == faults < MaxFaults /\ faults' = faults + 1

\* The cable is the operator's: pulling it closes the port.
Plug(b) ==
    /\ b # present
    /\ IF present = NoBoard THEN UNCHANGED faults ELSE Fault
    /\ present' = b /\ link' = NoBoard
    /\ UNCHANGED <<flash, altered, sessions, tool, stage, copied, opened, written,
                   printing, printed, credentials, report, backups, before, unchecked>>

\* A build replaces a file of the bundle, or somebody puts the old one back.
ChangeFile(r) ==
    /\ stage \in {"idle", "backup", "open"}
    /\ IF r \in altered THEN altered' = altered \ {r} /\ UNCHANGED faults
       ELSE altered' = altered \cup {r} /\ Fault
    /\ unchecked' = (unchecked \/ stage = "open")
    /\ UNCHANGED <<present, flash, sessions, tool, stage, link, copied, opened, written,
                   printing, printed, credentials, report, backups, before>>

-----------------------------------------------------------------------------
\* A failure is final: no retry, no restore.
Stop ==
    /\ stage' = "idle" /\ link' = NoBoard
    /\ report' = [report EXCEPT !.status = "stopped"]
Stopping ==
    /\ Stop
    /\ UNCHANGED <<bench, kept, copied, opened, written, printing, printed, credentials, backups>>

Preflight == altered = {}
Start(t) ==
    /\ stage = "idle" /\ sessions < MaxSessions
    /\ Preflight /\ present # NoBoard
    /\ tool' = t /\ stage' = "connect" /\ sessions' = sessions + 1
    /\ report' = [status |-> "started", writeStarted |-> FALSE]
    /\ copied' = NoImage /\ opened' = NoImage /\ written' = 0 /\ printed' = <<>>
    /\ credentials' = NoKey /\ before' = NoImage /\ unchecked' = FALSE
    /\ UNCHANGED <<bench, link, printing, backups>>

Connect ==
    /\ stage = "connect"
    /\ IF present = C008
       THEN /\ stage' = "backup" /\ link' = present
            /\ UNCHANGED <<bench, kept, copied, opened, written, printing, printed,
                           credentials, report, backups>>
       ELSE Stopping

\* read_flash may go wrong; the device's own digest decides.
Digested(image) == image = flash[link]
AnyImageRead(image) == TRUE                 \* mutant: no digest is asked for
ReadWhole(image) == Digested(image)
Backup(misread) ==
    LET image == IF misread THEN [flash[link] EXCEPT ![WriteOrder[1]] = Junk] ELSE flash[link] IN
      /\ stage = "backup" /\ link # NoBoard
      /\ IF misread THEN Fault ELSE UNCHANGED faults
      /\ IF ReadWhole(image)
         THEN /\ copied' = image /\ backups' = backups \cup {image}
              /\ stage' = "validate" /\ UNCHANGED <<link, report>>
         ELSE Stop /\ UNCHANGED <<copied, backups>>
      /\ UNCHANGED <<present, flash, altered, kept, opened, written, printing, printed, credentials>>

\* validate_current, the enumeration and the files once more.
HoldsBaseline == \A r \in DOMAIN Baseline[tool] : copied[r] = Baseline[tool][r]
CheckBefore ==
    /\ stage = "validate"
    /\ IF HoldsBaseline /\ present # NoBoard /\ Preflight
       THEN /\ stage' = "open"
            /\ UNCHANGED <<bench, kept, link, copied, opened, written, printing, printed,
                           credentials, report, backups>>
       ELSE Stopping

OpenFiles ==
    /\ stage = "open"
    /\ opened' = [r \in DOMAIN Segments[tool] |-> IF r \in altered THEN Junk ELSE Segments[tool][r]]
    /\ report' = [report EXCEPT !.writeStarted = TRUE]
    /\ stage' = "write"
    /\ before' = IF link = NoBoard THEN NoImage ELSE flash[link]
    /\ UNCHANGED <<bench, sessions, tool, unchecked, link, copied, written, printing, printed,
                   credentials, backups>>

\* A write that goes wrong may damage any region, the preserved ones too.
WriteSegment(damaged) ==
    LET r == WriteOrder[written + 1] IN
      /\ stage = "write" /\ link # NoBoard /\ written < Len(WriteOrder)
      /\ IF damaged = {} THEN UNCHANGED faults ELSE Fault
      /\ flash' = [flash EXCEPT ![link] =
                     [s \in Region |-> CASE s \in damaged -> Junk
                                         [] s = r /\ s \notin damaged -> opened[r]
                                         [] OTHER -> flash[link][s]]]
      /\ written' = written + 1
      /\ UNCHANGED <<present, altered, kept, stage, link, copied, opened, printing, printed,
                     credentials, report, backups>>

\* verify_flash compares with the files that are still open, the digests of the
\* preserved regions with what was read from them.
Verify ==
    /\ stage = "write" /\ link # NoBoard /\ written = Len(WriteOrder)
    /\ IF /\ \A r \in DOMAIN opened : flash[link][r] = opened[r]
          /\ \A r \in Preserved : flash[link][r] = copied[r]
       THEN /\ stage' = "reset"
            /\ UNCHANGED <<bench, kept, link, copied, opened, written, printing, printed,
                           credentials, report, backups>>
       ELSE Stopping

\* The application starts, and uses its NVS.
Reset(lines, nvs) ==
    /\ stage = "reset" /\ link # NoBoard
    /\ printing' = lines /\ stage' = "listen"
    /\ flash' = [flash EXCEPT ![link][nvs] = "used"]
    /\ UNCHANGED <<present, altered, faults, kept, link, copied, opened, written, printed,
                   credentials, report, backups>>

OtherKey(line) == line \in Key /\ credentials \notin {NoKey, line}
\* The first installation keeps the key in a file; to the upgrades any key is
\* a line that their acceptance refuses.
HearLine ==
    /\ stage = "listen" /\ link # NoBoard /\ printing # <<>>
    /\ IF tool = "first" /\ OtherKey(Head(printing)) THEN Stop /\ UNCHANGED <<printing, printed, credentials>>
       ELSE /\ printed' = Append(printed, Head(printing)) /\ printing' = Tail(printing)
            /\ credentials' = IF tool = "first" /\ Head(printing) \in Key THEN Head(printing) ELSE credentials
            /\ UNCHANGED <<stage, link, report>>
    /\ UNCHANGED <<bench, kept, copied, opened, written, backups>>

Has(lines, wanted) == wanted \subseteq {lines[i] : i \in DOMAIN lines}
Lacks(lines, unwanted) == unwanted \cap {lines[i] : i \in DOMAIN lines} = {}
Once(lines, line) == \E i \in DOMAIN lines : \A j \in DOMAIN lines : lines[j] = line <=> j = i
FirstAccepted(lines) ==
    ~Lacks(lines, Key) /\ Has(lines, {"AP_SSID", "AP_URL"}) /\ Lacks(lines, {"ERROR"})
UpgradeAccepted(lines) ==
    /\ Once(lines, "BUILD") /\ Has(lines, {"INSTALL_KEY_REUSED", "BOOT_RESET_NOT_ARMED"})
    /\ Lacks(lines, Key \cup {"RESET", "ERROR"})
    /\ Has(lines, {"AP_SSID", "AP_URL"}) \/ Has(lines, {"STA_CONNECT_ATTEMPT"})
SignedAccepted(lines) ==
    UpgradeAccepted(lines) /\ Has(lines, {"SIGNED_OTA_BASELINE", "OTA_KEY_CONFIGURED", "USB_BASELINE", "STA_IP", "MDNS_URL"})
Accepted(lines) ==
    CASE tool = "first" -> FirstAccepted(lines)
      [] tool = "upgrade" -> UpgradeAccepted(lines)
      [] tool = "signed" -> SignedAccepted(lines)
\* After 45 seconds, whatever has been read by then.
Accept ==
    /\ stage = "listen" /\ link # NoBoard
    /\ IF Accepted(printed)
       THEN /\ stage' = "idle" /\ link' = NoBoard
            /\ report' = [report EXCEPT !.status = "passed"]
            /\ UNCHANGED <<bench, kept, copied, opened, written, printing, printed, credentials, backups>>
       ELSE Stopping

\* A closed port ends every step that uses it.
LinkLost ==
    /\ stage \in {"backup", "write", "reset", "listen"} /\ link = NoBoard
    /\ Stopping
\* The tool is killed, and there will be no report.
Kill ==
    /\ stage # "idle" /\ Fault
    /\ stage' = "idle" /\ link' = NoBoard
    /\ report' = NoReport
    /\ UNCHANGED <<present, flash, altered, kept, copied, opened, written, printing, printed,
                   credentials, backups>>

UsbNext ==
    \/ \E b \in Board \cup {NoBoard} : Plug(b)
    \/ \E r \in Region \ Preserved : ChangeFile(r)
    \/ \E t \in Tool : Start(t)
    \/ Connect \/ CheckBefore \/ OpenFiles \/ Verify \/ HearLine \/ Accept \/ LinkLost \/ Kill
    \/ \E misread \in BOOLEAN : Backup(misread)
    \/ \E damaged \in SUBSET Region : WriteSegment(damaged)
    \/ \E lines \in Printouts, nvs \in Preserved : Reset(lines, nvs)

UsbSpec == UsbInit /\ [][UsbNext]_usbVars

-----------------------------------------------------------------------------
\* No session leaves a board worse off than the backup can mend: only the known
\* board is written, its flash as it was before is in a backup and was the
\* baseline of an upgrade, and a report, where the tool lived to write one, says
\* that a write began. The application starts on the NVS as it was. A session
\* that passed has the approved segments, unless a file changed after its last
\* check, and a first installation's credentials are the only key the board
\* printed (upload, capture_boot, validate_current).
WriteWasSafe ==
    /\ \A b \in Board \ {C008} : flash[b] = FirstFlash[b]
    /\ written > 0 => /\ before \in backups
                      /\ \A r \in DOMAIN Baseline[tool] : before[r] = Baseline[tool][r]
                      /\ report = NoReport \/ report.writeStarted
    /\ stage = "reset" => \A r \in Preserved : flash[C008][r] = before[r]
    /\ report.status = "passed" =>
         /\ unchecked \/ \A r \in DOMAIN Segments[tool] : flash[C008][r] = Segments[tool][r]
         /\ tool = "first" => {printed[i] : i \in DOMAIN printed} \cap Key = {credentials}
=============================================================================
