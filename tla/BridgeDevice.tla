---------------------------- MODULE BridgeDevice ----------------------------
(***************************************************************************)
(* The device as the tools on the Mac see it over HTTP: what its status    *)
(* reports, and what the update requests do to it.  OtaDevice models the   *)
(* same code step by step; here one handler is one step.  The processes    *)
(* that call it are Controller and RemoteTool.                             *)
(*                                                                         *)
(* A request outlives the tool that sent it: a tool that gives up or is    *)
(* killed leaves it on the wire, to be served later or never.  A restart   *)
(* of the device ends every connection.                                    *)
(***************************************************************************)
EXTENDS Integers, FiniteSets

CONSTANTS
    Release,        \* what can be installed
    Factory,        \* the image the device starts with
    VersionOf,      \* release -> version number
    Tool,           \* processes on the Mac
    None,
    MaxToken,       \* bound: transactions the device opens
    MaxBoots,       \* bound: restarts of the device
    MaxCrashes      \* bound: processes that end without finishing

Token == 0 .. MaxToken                  \* 0: how the first image was installed
Program == {"controller", "remote"}
Kind == {"prepare", "filePrepare", "upload", "confirm"}
Offer == [release : Release, token : Token, package : BOOLEAN]

ASSUME BridgeReleases ==
    /\ Factory \in Release /\ None \notin Release \cup Tool \cup Token \cup Offer
    /\ VersionOf \in [Release -> Nat \ {0}]
    /\ {MaxToken, MaxBoots, MaxCrashes} \subseteq Nat

Request == [kind : Kind, release : Release, token : Token \cup {None},
            csrf : 0 .. MaxBoots, by : Program, from : Tool \cup {None}]

VARIABLES
    dev,            \* what survives a restart, and what this boot loaded
    boots,          \* restarts so far; every boot draws a new CSRF token
    opened,         \* transactions opened so far
    confirmed,      \* history: the installations that became VALID
    wire,           \* requests on their way to the device
    reply,          \* the upload token that reached each waiting tool, or None
    program,        \* what each process runs
    pc,             \* what it does next
    job,            \* its local variables
    crashes         \* processes that ended early so far

device == <<dev, boots, opened, confirmed>>
network == <<wire, reply>>
processes == <<program, pc, job, crashes>>

Job == [base : Release, release : Release, token : Token \cup {None}, csrf : 0 .. MaxBoots]
NoJob == [base |-> Factory, release |-> Factory, token |-> None, csrf |-> 0]
Step == {"idle",
         "read", "preflight", "intend", "confirm", "confirming", "succeed", "fail",
         "check", "reserve", "fill", "recheck", "valid",
         "prepare", "preparing", "save", "upload", "uploading", "poll"}

BootState == {"USB_BASELINE", "VALID", "PENDING_VERIFY", "ROLLED_BACK_OR_INTERRUPTED"}
DevType == [build : Release, prior : Release,       \* running, and what it replaced
            staged : BOOLEAN,                       \* the journaled image boots next
            journal : Offer \cup {None},
            state : BootState, transaction : Token \cup {None}, attempt : Nat,
            phase : {"IDLE", "PREPARED", "REBOOT_PENDING", "FAILED"},
            offer : Offer \cup {None}]

DeviceTypeOK ==
    /\ dev \in DevType
    /\ boots \in 0 .. MaxBoots /\ opened \in Token
    /\ confirmed \subseteq [release : Release, token : Token]
    /\ wire \subseteq Request
    /\ reply \in [Tool -> Token \cup {None}]
    /\ program \in [Tool -> Program] /\ pc \in [Tool -> Step] /\ job \in [Tool -> Job]
    /\ crashes \in 0 .. MaxCrashes

FirstOffer == [release |-> Factory, token |-> 0, package |-> TRUE]

\* A device is set up over USB, or runs a package it confirmed earlier.
DeviceInit ==
    /\ \E journal \in {None, FirstOffer} :
         dev = [build |-> Factory, prior |-> Factory, staged |-> FALSE, journal |-> journal,
                state |-> IF journal = None THEN "USB_BASELINE" ELSE "VALID",
                transaction |-> IF journal = None THEN None ELSE 0,
                attempt |-> IF journal = None THEN 0 ELSE VersionOf[Factory],
                phase |-> "IDLE", offer |-> None]
    /\ boots = 0 /\ opened = 0 /\ confirmed = {} /\ wire = {}
    /\ reply = [p \in Tool |-> None]
    /\ program \in [Tool -> Program] /\ crashes = 0
    /\ pc = [p \in Tool |-> "idle"] /\ job = [p \in Tool |-> NoJob]

-----------------------------------------------------------------------------
(* The tools' side of a connection (Client.raw, Client.signed).            *)

Goto(p, step) == pc' = [pc EXCEPT ![p] = step]

Send(p, kind, token) ==
    /\ wire' = wire \cup {[kind |-> kind, release |-> job[p].release, token |-> token,
                           csrf |-> job[p].csrf, by |-> program[p], from |-> p]}
    /\ reply' = [reply EXCEPT ![p] = None]

\* The process stops waiting: a timeout, a broken connection, or its own end.
Abandon(p) ==
    /\ wire' = {IF q.from = p THEN [q EXCEPT !.from = None] ELSE q : q \in wire}
    /\ reply' = [reply EXCEPT ![p] = None]

Answered(p) == reply[p] # None

-----------------------------------------------------------------------------
(* The device's side.                                                      *)

\* Only the token of a prepared update matters to a tool: after an upload and
\* a confirmation it looks at the status, whatever the answer was, and an
\* error tells it no more than a connection that broke.
Answer(request, token) ==
    /\ wire' = wire \ {request}
    /\ reply' = IF request.from = None THEN reply ELSE [reply EXCEPT ![request.from] = token]

CanUpdate == dev.state # "PENDING_VERIFY"
Authentic(request) == request.csrf = boots

\* headerGate: digest, CSRF and health; nothing else is touched.  A request
\* that is lost on the way ends like one that is refused.
Refuse(request) ==
    /\ Answer(request, None)
    /\ UNCHANGED device

Admits(request) ==
    /\ VersionOf[request.release] > VersionOf[dev.build]
    /\ request.kind = "filePrepare" => VersionOf[request.release] > dev.attempt

HandlePrepare(request) ==
    /\ request.kind \in {"prepare", "filePrepare"}
    /\ Authentic(request) /\ CanUpdate /\ dev.phase \in {"IDLE", "FAILED"}
    /\ \/ /\ Admits(request) /\ opened < MaxToken
          /\ opened' = opened + 1
          /\ dev' = [dev EXCEPT !.phase = "PREPARED",
                                !.offer = [release |-> request.release, token |-> opened + 1,
                                           package |-> request.kind = "filePrepare"]]
          /\ Answer(request, opened + 1)
       \/ /\ ~Admits(request)
          /\ dev' = [dev EXCEPT !.phase = "FAILED", !.offer = None]
          /\ Answer(request, None)
          /\ UNCHANGED opened
    /\ UNCHANGED <<boots, confirmed>>

\* Updater::start and the chunks.  The token is consumed; the transfer may
\* fail before or after the image was journaled.
HandleUpload(request) ==
    /\ request.kind = "upload" /\ Authentic(request) /\ CanUpdate
    /\ dev.phase = "PREPARED" /\ request.token = dev.offer.token
    /\ LET begun == [dev EXCEPT !.attempt =
                        IF dev.offer.package THEN VersionOf[dev.offer.release] ELSE @]
       IN \/ /\ dev' = [begun EXCEPT !.phase = "REBOOT_PENDING",
                                     !.journal = dev.offer, !.staged = TRUE]
             /\ Answer(request, None)
          \/ /\ \E journal \in {dev.journal, dev.offer} :
                  dev' = [begun EXCEPT !.phase = "FAILED", !.offer = None,
                                       !.journal = journal]
             /\ Answer(request, None)
    /\ UNCHANGED <<boots, opened, confirmed>>

\* Runtime::confirm: repeating it after it was done is harmless.
Confirmed == confirmed' = confirmed \cup {[release |-> dev.build, token |-> dev.transaction]}

HandleConfirm(request) ==
    /\ request.kind = "confirm" /\ Authentic(request)
    /\ request.token = dev.transaction /\ dev.state \in {"PENDING_VERIFY", "VALID"}
    /\ dev' = [dev EXCEPT !.state = "VALID"]
    /\ Confirmed
    /\ Answer(request, None)
    /\ UNCHANGED <<boots, opened>>

\* Runtime::poll: a package confirms itself after it was healthy long enough.
SelfConfirm ==
    /\ dev.state = "PENDING_VERIFY" /\ dev.journal.package
    /\ dev' = [dev EXCEPT !.state = "VALID"]
    /\ Confirmed
    /\ UNCHANGED <<boots, opened, wire, reply>>

\* TOKEN_EXPIRED.
Expire ==
    /\ dev.phase = "PREPARED"
    /\ dev' = [dev EXCEPT !.phase = "FAILED", !.offer = None]
    /\ UNCHANGED <<boots, opened, confirmed, network>>

\* Updater and GitHub pull: a newer release that no tool sent.
PullUpdate(release) ==
    /\ CanUpdate /\ dev.phase \in {"IDLE", "FAILED"} /\ opened < MaxToken
    /\ VersionOf[release] > VersionOf[dev.build] /\ VersionOf[release] > dev.attempt
    /\ opened' = opened + 1
    /\ LET offer == [release |-> release, token |-> opened + 1, package |-> TRUE]
       IN dev' = [dev EXCEPT !.phase = "REBOOT_PENDING", !.offer = offer, !.journal = offer,
                             !.attempt = VersionOf[release], !.staged = TRUE]
    /\ UNCHANGED <<boots, confirmed, network>>

\* A reboot after an update, a rollback, a watchdog or a power cut: the
\* selected image starts, an image on trial is left, and Runtime::begin
\* reads the journal again.
Loaded(runs, onTrial) ==
    CASE dev.journal = None -> "USB_BASELINE"
      [] dev.journal # None /\ dev.journal.release # runs -> "ROLLED_BACK_OR_INTERRUPTED"
      [] dev.journal # None /\ dev.journal.release = runs ->
            IF onTrial THEN "PENDING_VERIFY" ELSE "VALID"

Restart ==
    /\ boots < MaxBoots
    /\ boots' = boots + 1
    /\ LET runs == IF dev.staged THEN dev.journal.release
                   ELSE IF dev.state = "PENDING_VERIFY" THEN dev.prior ELSE dev.build
       IN dev' = [dev EXCEPT !.build = runs, !.staged = FALSE,
                     !.prior = IF dev.staged THEN dev.build ELSE runs,
                     !.state = Loaded(runs, dev.staged),
                     !.transaction = IF dev.journal = None THEN None ELSE dev.journal.token,
                     !.phase = "IDLE", !.offer = None]
    /\ wire' = {}
    /\ UNCHANGED <<opened, confirmed, reply>>

DeviceNext ==
    \/ \E request \in wire : \/ Refuse(request) \/ HandlePrepare(request)
                             \/ HandleUpload(request) \/ HandleConfirm(request)
    \/ SelfConfirm \/ Expire \/ Restart
    \/ \E release \in Release : PullUpdate(release)
=============================================================================
