---------------------------- MODULE MacToolsProofs ----------------------------
(***************************************************************************)
(* That both deployment tools keep what they promise, for every number of  *)
(* processes, releases, transactions, restarts and crashes.                *)
(*                                                                         *)
(* A step of the device is summed up once, by what it can change for the   *)
(* tools (DeviceEffect).  A step of a tool is judged by what it does to    *)
(* the network: nothing, giving up a connection, or one request more.      *)
(***************************************************************************)
EXTENDS MacTools, TLAPS

-----------------------------------------------------------------------------
(* The invariant.                                                          *)

Newer(r, s) == VersionOf[r] > VersionOf[s]

\* The device would not go back behind this image, whatever happens.
Floor == IF dev.state = "PENDING_VERIFY" THEN dev.prior ELSE dev.build
Behind(r) == VersionOf[Floor] >= VersionOf[r]

\* An upload with this token was sent.
InUse(t) ==
    \/ dev.journal # None /\ dev.journal.token = t
    \/ dev.transaction = t
    \/ \E q \in wire : q.kind = "upload" /\ q.token = t
Issued == 1 .. opened

\* The device runs what its journal says, or rolled it back; and what runs
\* without being on trial was confirmed.
DeviceSound ==
    /\ dev.staged <=> dev.phase = "REBOOT_PENDING"
    /\ dev.staged => /\ dev.state # "PENDING_VERIFY" /\ dev.journal # None
                     /\ Newer(dev.journal.release, dev.build)
    /\ dev.phase = "PREPARED" => /\ dev.state # "PENDING_VERIFY" /\ dev.offer # None
                                 /\ dev.offer.token \in Issued /\ Newer(dev.offer.release, dev.build)
    /\ dev.state = "PENDING_VERIFY" =>
         /\ dev.journal # None /\ dev.journal.release = dev.build
         /\ dev.transaction = dev.journal.token /\ Newer(dev.build, dev.prior)
    /\ dev.journal # None /\ dev.journal.token # 0 /\ dev.journal.release = dev.build
         /\ ~dev.staged /\ dev.state # "PENDING_VERIFY" =>
         [release |-> dev.build, token |-> dev.journal.token] \in confirmed
    /\ dev.state = "VALID" => dev.transaction # None
    /\ dev.state = "VALID" /\ dev.transaction # 0 =>
         [release |-> dev.build, token |-> dev.transaction] \in confirmed
    /\ dev.journal # None => dev.journal.token <= opened
    /\ dev.transaction # None => dev.transaction <= opened

\* Whoever a request would be answered to is waiting for it.
Awaits(kind) ==
    CASE kind \in {"prepare", "filePrepare"} -> "preparing"
      [] kind = "upload" -> "uploading"
      [] kind = "confirm" -> "confirming"
WireSound ==
    /\ \A q \in wire :
         /\ q.kind \in IF q.by = "controller" THEN {"prepare", "upload", "confirm"}
                                              ELSE {"filePrepare", "upload"}
         /\ q.kind = "upload" => q.token \in Issued
         /\ q.from # None =>
              /\ program[q.from] = q.by /\ pc[q.from] = Awaits(q.kind)
              /\ q.release = job[q.from].release /\ q.csrf = job[q.from].csrf
              /\ q.kind \in {"prepare", "filePrepare"} => q.token = None
    /\ \A p \in Tool : reply[p] # None => pc[p] = "preparing"

\* A token that no upload was sent with is known to one process, and to the
\* file of that process.
Unsent(p) ==
    IF pc[p] = "preparing" THEN reply[p] ELSE IF pc[p] \in {"save", "upload"} THEN job[p].token ELSE None
TokensSound ==
    /\ \A p \in Tool :
         /\ pc[p] \in {"read", "preflight", "intend", "check", "reserve", "fill", "recheck",
                       "prepare", "preparing"} => job[p].token = None
         /\ job[p].token # None => job[p].token \in Issued
         /\ pc[p] \in {"save", "upload"} => job[p].token # None
         /\ pc[p] \in {"fail", "valid"} /\ job[p].token # None =>
              \A q \in Tool : Unsent(q) # job[p].token
         /\ Unsent(p) # None =>
              /\ Unsent(p) \in Issued /\ ~InUse(Unsent(p))
              /\ \A q \in Tool \ {p} : Unsent(q) # Unsent(p)
              /\ file # None /\ file.token = Unsent(p) => lock = p /\ pc[p] = "upload"
              /\ fence \notin {None, R!Torn} /\ fence.token = Unsent(p) =>
                   program[p] = "remote" /\ pc[p] = "upload"
    /\ file # None /\ file.token # None => file.token \in Issued
    /\ fence \notin {None, R!Torn} /\ fence.token # None => fence.token \in Issued
    /\ \A q, r \in wire : q.kind = "upload" /\ r.kind = "upload" /\ q.token = r.token => q = r
    /\ \A q \in wire : q.kind = "upload" =>
         /\ dev.journal # None => dev.journal.token # q.token
         /\ dev.transaction # q.token

\* The holder of the lock is the only controller that runs, and the state file
\* says how far it came.
InProgress(r, t) == [status |-> "IN_PROGRESS", release |-> r, token |-> t]
LockAt(p) ==
    /\ pc[p] \in {"read", "preflight", "intend", "confirm", "confirming", "succeed", "fail",
                  "prepare", "preparing", "save", "upload", "uploading", "poll"}
    /\ pc[p] \in {"preflight", "intend"} => file = None \/ file.status = "SUCCESS"
    /\ pc[p] \in {"prepare", "preparing", "save"} => file = InProgress(job[p].release, None)
    /\ pc[p] \in {"upload", "uploading", "poll", "confirm", "confirming", "succeed"} =>
         file = InProgress(job[p].release, job[p].token) /\ job[p].token # None
    /\ pc[p] = "fail" =>
         file # None /\ file.status = "IN_PROGRESS" /\ file.release = job[p].release
LockSound ==
    /\ lock # None => program[lock] = "controller" /\ pc[lock] # "idle"
    /\ \A p \in Tool : program[p] = "controller" /\ pc[p] # "idle" => lock = p /\ LockAt(p)

\* What a controller sent is what the state file is about, and it was sent once.
ControllerWire ==
    \A q \in wire : q.by = "controller" /\ q.kind \in {"prepare", "upload"} =>
        /\ file # None /\ file.release = q.release /\ file.status # "SUCCESS"
        /\ file.status = "IN_PROGRESS" /\ q.kind = "prepare" =>
             /\ file.token = None
             /\ lock # None => pc[lock] \in {"read", "preparing", "fail"}
             /\ lock # None /\ pc[lock] = "preparing" => q.from = lock /\ reply[lock] = None
        /\ file.status = "IN_PROGRESS" /\ q.kind = "upload" => q.token = file.token
SentCounts ==
    /\ \A r \in Release : sent[r] \in {0, 1}
    /\ \A r \in Release : sent[r] = 1 /\ Controlled # r => Behind(r)
    /\ file # None /\ file.status = "IN_PROGRESS" /\ file.token # None /\ InUse(file.token) =>
         sent[file.release] = 1
SentAt(p) ==
    /\ pc[p] \in {"intend", "prepare", "preparing", "save", "upload"} => sent[job[p].release] = 0
    /\ pc[p] = "succeed" =>
         /\ [release |-> job[p].release, token |-> job[p].token] \in confirmed
         /\ sent[job[p].release] = 1 /\ Behind(job[p].release)
         /\ \A q \in wire : q.by = "controller" => q.kind = "confirm"
SuccessRecorded ==
    file # None /\ file.status = "SUCCESS" =>
        [release |-> file.release, token |-> file.token] \in confirmed
SentSound ==
    /\ ControllerWire /\ SentCounts /\ SuccessRecorded
    /\ \A p \in Tool : program[p] = "controller" => SentAt(p)

\* A remote tool calls valid what was confirmed, however its fence fared.
RemoteAt(p) ==
    /\ pc[p] \in {"idle", "check", "reserve", "fill", "recheck", "valid",
                  "prepare", "preparing", "save", "upload", "uploading", "poll"}
    /\ pc[p] \in {"uploading", "poll", "valid"} => job[p].token # None
    /\ pc[p] \in {"check", "reserve", "fill", "recheck"} => Newer(job[p].release, job[p].base)
    /\ pc[p] = "valid" => [release |-> job[p].release, token |-> job[p].token] \in confirmed
ValidRecorded ==
    fence \notin {None, R!Torn} /\ fence.phase = "VALID" =>
        [release |-> fence.release, token |-> fence.token] \in confirmed
RemoteSound ==
    /\ \A p \in Tool : program[p] = "remote" => RemoteAt(p)
    /\ ValidRecorded

MacInv == MacToolsTypeOK /\ DeviceSound /\ WireSound /\ TokensSound /\ LockSound /\ SentSound /\ RemoteSound

\* Of the remote tools only the one that created the fence goes on, and the
\* fence says how far it came.
Owns(p) ==
    program[p] = "remote" /\ pc[p] \in {"fill", "recheck", "prepare", "preparing", "save", "upload", "uploading"}
Looks(p) == program[p] = "remote" /\ pc[p] \in {"poll", "valid"}
FenceAt(p) ==
    /\ Owns(p) /\ pc[p] = "fill" => fence = R!Torn
    /\ Owns(p) /\ pc[p] \in {"recheck", "prepare", "preparing", "save"} =>
         fence = [release |-> job[p].release, token |-> None, phase |-> "RESERVED"]
    /\ Owns(p) /\ pc[p] = "upload" =>
         fence = [release |-> job[p].release, token |-> job[p].token,
                  phase |-> "UPLOAD_MAY_HAVE_STARTED"]
    /\ (Owns(p) /\ pc[p] = "uploading") \/ Looks(p) =>
         /\ fence \notin {None, R!Torn} /\ fence.release = job[p].release
         /\ fence.token = job[p].token
FenceSound ==
    /\ \A p, q \in Tool : Owns(p) /\ Owns(q) => p = q
    /\ \A p \in Tool : FenceAt(p)
    /\ fence \notin {None, R!Torn} => (fence.token = None <=> fence.phase = "RESERVED")

\* What a remote tool sent is what the fence is about, and it was sent once.
RemoteWire ==
    \A q \in wire : q.by = "remote" =>
        /\ fence \notin {None, R!Torn} /\ fence.release = q.release /\ fence.phase # "VALID"
        /\ q.kind = "filePrepare" =>
             /\ fence.token = None
             /\ \A p \in Tool : Owns(p) => pc[p] = "preparing" /\ q.from = p /\ reply[p] = None
        /\ q.kind = "upload" => q.token = fence.token
DeliveredCounts ==
    /\ \A r \in Release : delivered[r] \in {0, 1}
    /\ \A r \in Release : delivered[r] = 1 /\ Fenced # r => Behind(r)
    /\ fence \notin {None, R!Torn} /\ fence.token # None /\ InUse(fence.token) =>
         delivered[fence.release] = 1
DeliveredAt(p) ==
    /\ pc[p] = "recheck" => (delivered[job[p].release] = 1 => Behind(job[p].release))
    /\ pc[p] \in {"prepare", "preparing", "save", "upload"} => delivered[job[p].release] = 0
    /\ pc[p] = "valid" =>
         /\ delivered[job[p].release] = 1 /\ Behind(job[p].release)
         /\ \A q \in wire : q.by # "remote"
DeliveredSound ==
    /\ RemoteWire /\ DeliveredCounts
    /\ \A p \in Tool : program[p] = "remote" => DeliveredAt(p)
CarefulInv == FenceSound /\ DeliveredSound

-----------------------------------------------------------------------------
(* The types of what the steps look at.                                    *)

LEMMA DevFields ==
    ASSUME dev \in DevType
    PROVE  /\ dev.build \in Release /\ dev.prior \in Release /\ dev.staged \in BOOLEAN
           /\ dev.journal \in Offer \cup {None} /\ dev.state \in BootState
           /\ dev.transaction \in Token \cup {None} /\ dev.attempt \in Nat
           /\ dev.phase \in {"IDLE", "PREPARED", "REBOOT_PENDING", "FAILED"}
           /\ dev.offer \in Offer \cup {None}
BY DEF DevType

LEMMA OfferFields ==
    ASSUME NEW offer \in Offer
    PROVE  offer.release \in Release /\ offer.token \in Token /\ offer.package \in BOOLEAN
BY DEF Offer

LEMMA RequestFields ==
    ASSUME NEW q \in Request
    PROVE  /\ q.kind \in Kind /\ q.release \in Release /\ q.token \in Token \cup {None}
           /\ q.csrf \in 0 .. MaxBoots /\ q.by \in Program /\ q.from \in Tool \cup {None}
BY DEF Request

LEMMA JobFields ==
    ASSUME NEW j \in Job
    PROVE  /\ j.base \in Release /\ j.release \in Release /\ j.token \in Token \cup {None}
           /\ j.csrf \in 0 .. MaxBoots
BY DEF Job

LEMMA RecordFields ==
    ASSUME NEW f \in C!Record
    PROVE  /\ f.status \in {"IN_PROGRESS", "SUCCESS", "FAILED"} /\ f.release \in Release
           /\ f.token \in Token \cup {None}
BY DEF C!Record, C!Token, Token

LEMMA FenceFields ==
    ASSUME NEW f \in R!Fence
    PROVE  /\ f.phase \in {"RESERVED", "UPLOAD_MAY_HAVE_STARTED", "VALID"} /\ f.release \in Release
           /\ f.token \in Token \cup {None}
BY DEF R!Fence, R!Phase, R!Token, Token

LEMMA VersionIsNat ==
    ASSUME NEW r \in Release
    PROVE  VersionOf[r] \in Nat
BY BridgeReleases

\* Requests that agree in every part are one request.
LEMMA SameRequest ==
    ASSUME NEW q \in Request, NEW r \in Request, q.kind = r.kind, q.release = r.release,
           q.token = r.token, q.csrf = r.csrf, q.by = r.by, q.from = r.from
    PROVE  q = r
BY DEF Request

-----------------------------------------------------------------------------
(* What a step of the device means for the tools.                          *)

Changed(p) == reply'[p] # reply[p] /\ reply'[p] # None
DeviceEffect ==
    /\ DeviceTypeOK' /\ DeviceSound'
    /\ opened <= opened' /\ confirmed \subseteq confirmed' /\ wire' \subseteq wire
    /\ \A r \in Release : Behind(r) => Behind(r)'
    /\ \A t \in Issued : InUse(t)' => InUse(t)
    /\ \A q \in wire' : q.kind = "upload" =>
         /\ dev'.journal # None => dev'.journal.token # q.token
         /\ dev'.transaction # q.token
    \* at most one tool is told of a transaction, which was opened just now
    /\ \A p \in Tool : Changed(p) =>
         /\ reply'[p] \notin Issued /\ reply'[p] \in 1 .. opened' /\ ~InUse(reply[p])'
         /\ \E q \in wire \ wire' : q.from = p /\ q.kind \in {"prepare", "filePrepare"}
    /\ \A p, q \in Tool : Changed(p) /\ Changed(q) => p = q

UploadsSpent ==
    \A q \in wire : q.kind = "upload" =>
        /\ dev.journal # None => dev.journal.token # q.token
        /\ dev.transaction # q.token

\* The network when a request was answered.
LEMMA AnswerIs ==
    ASSUME DeviceTypeOK, NEW request \in wire, NEW token \in Token \cup {None}, Answer(request, token)
    PROVE  /\ wire' = wire \ {request} /\ wire' \subseteq Request
           /\ reply' \in [Tool -> Token \cup {None}]
           /\ \A p \in Tool : reply'[p] = IF request.from = p THEN token ELSE reply[p]
<1>1. request \in Request /\ reply \in [Tool -> Token \cup {None}] /\ wire \subseteq Request
  BY DEF DeviceTypeOK
<1>2. request.from \in Tool \cup {None}
  BY <1>1, RequestFields
<1>3. None \notin Tool
  BY BridgeReleases
<1>4. /\ wire' = wire \ {request}
      /\ reply' = IF request.from = None THEN reply ELSE [reply EXCEPT ![request.from] = token]
  BY DEF Answer
<1>5. reply' \in [Tool -> Token \cup {None}]
  BY <1>1, <1>2, <1>4
<1>6. \A p \in Tool : reply'[p] = IF request.from = p THEN token ELSE reply[p]
  BY <1>1, <1>2, <1>3, <1>4
<1> QED BY <1>1, <1>4, <1>5, <1>6

\* A step that leaves the device itself alone and tells nobody of a transaction.
LEMMA QuietEffect ==
    ASSUME DeviceTypeOK, DeviceSound, UploadsSpent, UNCHANGED <<device, processes>>, wire' \subseteq wire,
           reply' \in [Tool -> Token \cup {None}], \A p \in Tool : reply'[p] \in {None, reply[p]}
    PROVE  DeviceEffect
<1>1. /\ dev' = dev /\ boots' = boots /\ opened' = opened /\ confirmed' = confirmed
      /\ program' = program /\ pc' = pc /\ job' = job /\ crashes' = crashes
  BY DEF device, processes
<1>2. DeviceTypeOK'
  BY <1>1 DEF DeviceTypeOK
<1>3. DeviceSound'
  BY <1>1 DEF DeviceSound, Issued
<1>4. \A r \in Release : Behind(r) => Behind(r)'
  BY <1>1 DEF Behind, Floor
<1>5. \A t \in Issued : InUse(t)' => InUse(t)
  BY <1>1 DEF InUse
<1>6. \A q \in wire' : q.kind = "upload" =>
        /\ dev'.journal # None => dev'.journal.token # q.token
        /\ dev'.transaction # q.token
  BY <1>1 DEF UploadsSpent
<1>7. \A p \in Tool : ~Changed(p)
  BY DEF Changed
<1>8. opened <= opened' /\ confirmed \subseteq confirmed'
  BY <1>1 DEF DeviceTypeOK, Token
<1> QED BY <1>2, <1>3, <1>4, <1>5, <1>6, <1>7, <1>8 DEF DeviceEffect

LEMMA RefuseEffect ==
    ASSUME DeviceTypeOK, DeviceSound, UploadsSpent, NEW request \in wire, Refuse(request),
           UNCHANGED processes
    PROVE  DeviceEffect
<1>1. Answer(request, None) /\ UNCHANGED device
  BY DEF Refuse
<1>2. wire' = wire \ {request} /\ reply' \in [Tool -> Token \cup {None}]
      /\ \A p \in Tool : reply'[p] \in {None, reply[p]}
  BY <1>1, AnswerIs
<1> QED BY <1>1, <1>2, QuietEffect


\* The next transaction is in no use yet.
LEMMA NextTokenIsFresh ==
    ASSUME DeviceTypeOK, DeviceSound, \A q \in wire : q.kind = "upload" => q.token \in Issued,
           opened < MaxToken
    PROVE  /\ opened + 1 \in Token /\ opened + 1 \in Nat /\ opened \in Nat /\ opened + 1 \notin Issued
           /\ opened + 1 # None /\ ~InUse(opened + 1)
<1>1. opened \in Nat /\ opened + 1 \in Token /\ opened + 1 \notin Issued
  BY BridgeReleases DEF DeviceTypeOK, Token, Issued
<1>2. opened + 1 # None
  BY <1>1, BridgeReleases
<1>3. \A q \in wire : q.kind = "upload" => q.token # opened + 1
  BY <1>1
<1>4. dev.journal # None => dev.journal.token # opened + 1
  <2>1. dev.journal # None => dev.journal.token \in Token /\ dev.journal.token <= opened
    BY DevFields, OfferFields DEF DeviceTypeOK, DeviceSound
  <2> QED BY <1>1, <2>1 DEF Token
<1>5. dev.transaction # opened + 1
  <2>1. dev.transaction # None => dev.transaction \in Token /\ dev.transaction <= opened
    BY DevFields DEF DeviceTypeOK, DeviceSound
  <2> QED BY <1>1, <1>2, <2>1 DEF Token
<1> QED BY <1>1, <1>2, <1>3, <1>4, <1>5 DEF InUse

\* A prepared update is a newer release under a new transaction, which only
\* the tool that asked is told of.
LEMMA HandlePrepareEffect ==
    ASSUME DeviceTypeOK, DeviceSound, UploadsSpent,
           \A q \in wire : q.kind = "upload" => q.token \in Issued,
           NEW request \in wire, HandlePrepare(request), UNCHANGED processes
    PROVE  DeviceEffect
<1>1. /\ request.kind \in {"prepare", "filePrepare"} /\ dev.state # "PENDING_VERIFY"
      /\ dev.phase \in {"IDLE", "FAILED"} /\ boots' = boots /\ confirmed' = confirmed
      /\ program' = program /\ pc' = pc /\ job' = job /\ crashes' = crashes
  BY DEF HandlePrepare, CanUpdate, processes
<1>2. dev \in DevType /\ request \in Request /\ opened \in Nat
  BY DEF DeviceTypeOK, Token
<1>3. request.release \in Release /\ request.from \in Tool \cup {None}
  BY <1>2, RequestFields
<1>4. CASE /\ Admits(request) /\ opened < MaxToken
           /\ opened' = opened + 1
           /\ dev' = [dev EXCEPT !.phase = "PREPARED",
                                 !.offer = [release |-> request.release, token |-> opened + 1,
                                            package |-> request.kind = "filePrepare"]]
           /\ Answer(request, opened + 1)
  <2> DEFINE offer == [release |-> request.release, token |-> opened + 1,
                       package |-> request.kind = "filePrepare"]
  <2>1. /\ opened + 1 \in Token /\ opened + 1 \notin Issued /\ opened + 1 # None
        /\ ~InUse(opened + 1)
    BY <1>4, NextTokenIsFresh
  <2>2. offer \in Offer /\ offer.release = request.release /\ offer.token = opened + 1
    BY <1>3, <2>1 DEF Offer
  <2>3. offer # None
    BY <2>2, BridgeReleases
  <2> HIDE DEF offer
  <2>4. dev' = [dev EXCEPT !.phase = "PREPARED", !.offer = offer]
    BY <1>4 DEF offer
  <2>5. /\ dev' \in DevType /\ dev'.phase = "PREPARED" /\ dev'.offer = offer
        /\ dev'.build = dev.build /\ dev'.prior = dev.prior /\ dev'.staged = dev.staged
        /\ dev'.journal = dev.journal /\ dev'.state = dev.state
        /\ dev'.transaction = dev.transaction
    BY <1>2, <2>2, <2>4 DEF DevType
  <2>6. /\ wire' = wire \ {request} /\ wire' \subseteq Request
        /\ reply' \in [Tool -> Token \cup {None}]
        /\ \A p \in Tool : reply'[p] = IF request.from = p THEN opened + 1 ELSE reply[p]
    BY <1>4, <2>1, AnswerIs
  <2>7. DeviceTypeOK'
    BY <1>1, <1>4, <2>1, <2>5, <2>6 DEF DeviceTypeOK
  <2>8. Newer(request.release, dev.build)
    BY <1>4 DEF Admits, Newer
  <2>9. DeviceSound'
    <3>1. opened + 1 \in 1 .. opened'
      BY <1>2, <1>4
    <3>2. /\ dev.journal # None => dev.journal.token <= opened'
          /\ dev.transaction # None => dev.transaction <= opened'
      <4>1. /\ dev.journal # None => dev.journal.token \in Nat
            /\ dev.transaction # None => dev.transaction \in Nat
        BY <1>2, DevFields, OfferFields DEF Token
      <4> QED BY <1>2, <1>4, <4>1 DEF DeviceSound
    <3>3. (dev.staged <=> FALSE) /\ dev'.phase # "REBOOT_PENDING"
      BY <1>1, <2>5 DEF DeviceSound
    <3> QED BY <1>1, <1>4, <2>2, <2>3, <2>5, <2>8, <3>1, <3>2, <3>3 DEF DeviceSound, Newer, Issued
  <2>10. \A r \in Release : Behind(r) => Behind(r)'
    BY <2>5 DEF Behind, Floor
  <2>11. \A t : InUse(t)' => InUse(t)
    BY <2>5, <2>6 DEF InUse
  <2>12. \A q \in wire' : q.kind = "upload" =>
           /\ dev'.journal # None => dev'.journal.token # q.token
           /\ dev'.transaction # q.token
    BY <2>5, <2>6 DEF UploadsSpent
  <2>13. \A p \in Tool : Changed(p) => request.from = p /\ reply'[p] = opened + 1
    BY <2>6 DEF Changed
  <2>15. request \in wire \ wire'
    BY <2>6
  <2>16. \A p \in Tool : Changed(p) =>
           /\ reply'[p] \notin Issued /\ reply'[p] \in 1 .. opened' /\ ~InUse(reply[p])'
           /\ \E q \in wire \ wire' : q.from = p /\ q.kind \in {"prepare", "filePrepare"}
    <3> SUFFICES ASSUME NEW p \in Tool, Changed(p)
                 PROVE  /\ reply'[p] \notin Issued /\ reply'[p] \in 1 .. opened' /\ ~InUse(reply[p])'
                        /\ \E q \in wire \ wire' : q.from = p /\ q.kind \in {"prepare", "filePrepare"}
      OBVIOUS
    <3>1. reply'[p] = opened + 1
      BY <2>13
    <3>2. ~InUse(reply[p])'
      BY <2>1, <2>5, <2>6, <3>1 DEF InUse
    <3> QED BY <1>1, <1>2, <1>4, <2>1, <2>13, <2>15, <3>1, <3>2
  <2> QED BY <1>1, <1>2, <1>4, <2>6, <2>7, <2>9, <2>10, <2>11, <2>12, <2>13, <2>16 DEF DeviceEffect
<1>5. CASE /\ dev' = [dev EXCEPT !.phase = "FAILED", !.offer = None]
           /\ Answer(request, None) /\ opened' = opened
  <2>1. /\ dev' \in DevType /\ dev'.phase = "FAILED"
        /\ dev'.build = dev.build /\ dev'.prior = dev.prior /\ dev'.staged = dev.staged
        /\ dev'.journal = dev.journal /\ dev'.state = dev.state
        /\ dev'.transaction = dev.transaction
    BY <1>2, <1>5 DEF DevType
  <2>2. /\ wire' = wire \ {request} /\ wire' \subseteq Request
        /\ reply' \in [Tool -> Token \cup {None}]
        /\ \A p \in Tool : reply'[p] = IF request.from = p THEN None ELSE reply[p]
    BY <1>5, AnswerIs
  <2>3. DeviceTypeOK'
    BY <1>1, <1>5, <2>1, <2>2 DEF DeviceTypeOK
  <2>4. DeviceSound'
    BY <1>1, <1>5, <2>1 DEF DeviceSound, Issued
  <2>5. \A r \in Release : Behind(r) => Behind(r)'
    BY <2>1 DEF Behind, Floor
  <2>6. \A t \in Issued : InUse(t)' => InUse(t)
    BY <2>1, <2>2 DEF InUse
  <2>7. \A q \in wire' : q.kind = "upload" =>
          /\ dev'.journal # None => dev'.journal.token # q.token
          /\ dev'.transaction # q.token
    BY <2>1, <2>2 DEF UploadsSpent
  <2>8. \A p \in Tool : ~Changed(p)
    BY <2>2 DEF Changed
  <2> QED BY <1>1, <1>2, <1>5, <2>2, <2>3, <2>4, <2>5, <2>6, <2>7, <2>8 DEF DeviceEffect
<1> QED BY <1>4, <1>5 DEF HandlePrepare

\* A journal names the new release only after its upload arrived; a transfer
\* that fails leaves the old image to run.
LEMMA HandleUploadEffect ==
    ASSUME DeviceTypeOK, DeviceSound, UploadsSpent,
           \A q, r \in wire : q.kind = "upload" /\ r.kind = "upload" /\ q.token = r.token => q = r,
           NEW request \in wire, HandleUpload(request), UNCHANGED processes
    PROVE  DeviceEffect
<1> DEFINE attempt == IF dev.offer.package THEN VersionOf[dev.offer.release] ELSE dev.attempt
<1>1. /\ request.kind = "upload" /\ dev.state # "PENDING_VERIFY" /\ dev.phase = "PREPARED"
      /\ request.token = dev.offer.token /\ Answer(request, None)
      /\ boots' = boots /\ opened' = opened /\ confirmed' = confirmed
      /\ program' = program /\ pc' = pc /\ job' = job /\ crashes' = crashes
  BY DEF HandleUpload, CanUpdate, processes
<1>2. \/ dev' = [[dev EXCEPT !.attempt = attempt] EXCEPT !.phase = "REBOOT_PENDING",
                    !.journal = dev.offer, !.staged = TRUE]
      \/ \E journal \in {dev.journal, dev.offer} :
            dev' = [[dev EXCEPT !.attempt = attempt] EXCEPT !.phase = "FAILED", !.offer = None,
                       !.journal = journal]
  BY DEF HandleUpload
<1>3. dev \in DevType /\ request \in Request /\ opened \in Nat
  BY DEF DeviceTypeOK, Token
<1>4. /\ dev.offer # None /\ dev.offer.token \in Issued /\ Newer(dev.offer.release, dev.build)
      /\ dev.staged = FALSE
  BY <1>1, <1>3, DevFields DEF DeviceSound
<1>5. dev.offer \in Offer /\ dev.offer.release \in Release
  BY <1>3, <1>4, DevFields, OfferFields
<1>6. attempt \in Nat
  BY <1>3, <1>5, DevFields, VersionIsNat
<1> HIDE DEF attempt
<1>7. /\ dev' \in DevType
      /\ dev'.build = dev.build /\ dev'.prior = dev.prior /\ dev'.state = dev.state
      /\ dev'.transaction = dev.transaction
      /\ \/ dev'.phase = "REBOOT_PENDING" /\ dev'.journal = dev.offer /\ dev'.staged = TRUE
         \/ /\ dev'.phase = "FAILED" /\ dev'.journal \in {dev.journal, dev.offer}
            /\ dev'.staged = FALSE
  <2>1. CASE dev' = [[dev EXCEPT !.attempt = attempt] EXCEPT !.phase = "REBOOT_PENDING",
                       !.journal = dev.offer, !.staged = TRUE]
    BY <1>3, <1>5, <1>6, <2>1 DEF DevType
  <2>2. CASE \E journal \in {dev.journal, dev.offer} :
               dev' = [[dev EXCEPT !.attempt = attempt] EXCEPT !.phase = "FAILED", !.offer = None,
                          !.journal = journal]
    <3>1. PICK journal \in {dev.journal, dev.offer} :
            dev' = [[dev EXCEPT !.attempt = attempt] EXCEPT !.phase = "FAILED", !.offer = None,
                       !.journal = journal]
      BY <2>2
    <3>2. journal \in Offer \cup {None}
      BY <1>3, <1>5, <3>1, DevFields
    <3> QED BY <1>3, <1>4, <1>6, <3>1, <3>2 DEF DevType
  <2> QED BY <1>2, <2>1, <2>2
<1>8. /\ wire' = wire \ {request} /\ wire' \subseteq Request
      /\ reply' \in [Tool -> Token \cup {None}]
      /\ \A p \in Tool : reply'[p] = IF request.from = p THEN None ELSE reply[p]
  BY <1>1, AnswerIs
<1>9. DeviceTypeOK'
  BY <1>1, <1>7, <1>8 DEF DeviceTypeOK
<1>10. dev'.journal # None => dev'.journal.token <= opened
  BY <1>4, <1>7 DEF DeviceSound, Issued
<1>11. dev.offer.release # dev.build
  BY <1>3, <1>4, DevFields, VersionIsNat DEF Newer
<1>12. DeviceSound'
  <2>1. dev'.journal # None /\ dev'.journal.token # 0 /\ dev'.journal.release = dev'.build
           /\ ~dev'.staged /\ dev'.state # "PENDING_VERIFY" =>
           [release |-> dev'.build, token |-> dev'.journal.token] \in confirmed'
    BY <1>1, <1>4, <1>7, <1>11 DEF DeviceSound
  <2>2. dev'.staged <=> dev'.phase = "REBOOT_PENDING"
    BY <1>7
  <2>3. dev'.staged => /\ dev'.state # "PENDING_VERIFY" /\ dev'.journal # None
                       /\ Newer(dev'.journal.release, dev'.build)
    BY <1>1, <1>4, <1>7
  <2> QED BY <1>1, <1>7, <1>10, <2>1, <2>2, <2>3 DEF DeviceSound, Newer
<1>13. \A r \in Release : Behind(r) => Behind(r)'
  BY <1>7 DEF Behind, Floor
<1>14. \A t \in Issued : InUse(t)' => InUse(t)
  BY <1>1, <1>7, <1>8 DEF InUse
<1>15. \A q \in wire' : q.kind = "upload" =>
         /\ dev'.journal # None => dev'.journal.token # q.token
         /\ dev'.transaction # q.token
  BY <1>1, <1>7, <1>8 DEF UploadsSpent
<1>16. \A p \in Tool : ~Changed(p)
  BY <1>8 DEF Changed
<1> QED BY <1>1, <1>3, <1>8, <1>9, <1>12, <1>13, <1>14, <1>15, <1>16 DEF DeviceEffect

\* Whoever confirms it: the image that runs is on record under the transaction
\* that installed it.
LEMMA ConfirmedEffect ==
    ASSUME DeviceTypeOK, DeviceSound, UploadsSpent, UNCHANGED processes,
           dev.state \in {"PENDING_VERIFY", "VALID"}, dev' = [dev EXCEPT !.state = "VALID"],
           Confirmed, boots' = boots, opened' = opened,
           wire' \subseteq wire, reply' \in [Tool -> Token \cup {None}],
           \A p \in Tool : reply'[p] \in {None, reply[p]}
    PROVE  DeviceEffect
<1>1. dev \in DevType /\ opened \in Nat
  BY DEF DeviceTypeOK, Token
<1>2. /\ dev' \in DevType /\ dev'.state = "VALID" /\ dev'.phase = dev.phase
      /\ dev'.build = dev.build /\ dev'.prior = dev.prior /\ dev'.staged = dev.staged
      /\ dev'.journal = dev.journal /\ dev'.transaction = dev.transaction /\ dev'.offer = dev.offer
  BY <1>1 DEF DevType, BootState
<1>3. /\ program' = program /\ pc' = pc /\ job' = job /\ crashes' = crashes
  BY DEF processes
<1>4. dev.transaction # None
  <2>1. CASE dev.state = "VALID"
    BY <2>1 DEF DeviceSound
  <2>2. CASE dev.state = "PENDING_VERIFY"
    <3>1. dev.journal \in Offer /\ dev.transaction = dev.journal.token
      BY <1>1, <2>2, DevFields DEF DeviceSound
    <3>2. dev.transaction \in Token
      BY <3>1, OfferFields
    <3> QED BY <3>2, BridgeReleases
  <2> QED BY <2>1, <2>2
<1>5. confirmed' = confirmed \cup {[release |-> dev.build, token |-> dev.transaction]}
  BY DEF Confirmed
<1>6. dev.build \in Release /\ dev.prior \in Release /\ dev.transaction \in Token
  BY <1>1, <1>4, DevFields
<1>7. DeviceTypeOK'
  BY <1>2, <1>3, <1>5, <1>6 DEF DeviceTypeOK
<1>8. DeviceSound'
  <2>1. dev.state = "PENDING_VERIFY" => dev.transaction = dev.journal.token
    BY DEF DeviceSound
  <2>2. dev'.journal # None /\ dev'.journal.token # 0 /\ dev'.journal.release = dev'.build
           /\ ~dev'.staged /\ dev'.state # "PENDING_VERIFY" =>
           [release |-> dev'.build, token |-> dev'.journal.token] \in confirmed'
    BY <1>2, <1>5, <2>1 DEF DeviceSound
  <2>3. dev'.state = "VALID" /\ dev'.transaction # 0 =>
           [release |-> dev'.build, token |-> dev'.transaction] \in confirmed'
    BY <1>2, <1>5
  <2>4. dev'.staged => /\ dev'.state # "PENDING_VERIFY" /\ dev'.journal # None
                       /\ Newer(dev'.journal.release, dev'.build)
    BY <1>2 DEF DeviceSound
  <2>5. dev'.phase = "PREPARED" => /\ dev'.state # "PENDING_VERIFY" /\ dev'.offer # None
                                 /\ dev'.offer.token \in Issued' /\ Newer(dev'.offer.release, dev'.build)
    BY <1>2 DEF DeviceSound, Issued
  <2>6. (dev'.staged <=> dev'.phase = "REBOOT_PENDING") /\ dev'.transaction # None
        /\ (dev'.journal # None => dev'.journal.token <= opened')
        /\ (dev'.transaction # None => dev'.transaction <= opened')
    BY <1>2, <1>4 DEF DeviceSound
  <2> QED BY <1>2, <2>2, <2>3, <2>4, <2>5, <2>6 DEF DeviceSound, Newer
<1>9. \A r \in Release : Behind(r) => Behind(r)'
  <2> SUFFICES ASSUME NEW r \in Release, Behind(r) PROVE Behind(r)'
    OBVIOUS
  <2>1. VersionOf[r] \in Nat /\ VersionOf[dev.build] \in Nat /\ VersionOf[dev.prior] \in Nat
    BY <1>6, VersionIsNat
  <2>2. dev.state = "PENDING_VERIFY" => VersionOf[dev.build] > VersionOf[dev.prior]
    BY DEF DeviceSound, Newer
  <2>3. VersionOf[dev.build] >= VersionOf[r]
    BY <2>1, <2>2 DEF Behind, Floor
  <2> QED BY <1>2, <2>3 DEF Behind, Floor
<1>10. \A t \in Issued : InUse(t)' => InUse(t)
  BY <1>2 DEF InUse
<1>11. \A q \in wire' : q.kind = "upload" =>
         /\ dev'.journal # None => dev'.journal.token # q.token
         /\ dev'.transaction # q.token
  BY <1>2 DEF UploadsSpent
<1>12. \A p \in Tool : ~Changed(p)
  BY DEF Changed
<1>13. opened <= opened' /\ confirmed \subseteq confirmed'
  BY <1>1, <1>5
<1> QED BY <1>7, <1>8, <1>9, <1>10, <1>11, <1>12, <1>13 DEF DeviceEffect

LEMMA ConfirmEffect ==
    ASSUME DeviceTypeOK, DeviceSound, UploadsSpent, UNCHANGED processes,
           (\E request \in wire : HandleConfirm(request)) \/ SelfConfirm
    PROVE  DeviceEffect
<1>1. CASE \E request \in wire : HandleConfirm(request)
  <2>1. PICK request \in wire : HandleConfirm(request)
    BY <1>1
  <2>2. Answer(request, None)
    BY <2>1 DEF HandleConfirm
  <2>3. /\ wire' \subseteq wire /\ reply' \in [Tool -> Token \cup {None}]
        /\ \A p \in Tool : reply'[p] \in {None, reply[p]}
    BY <2>2, AnswerIs
  <2> QED BY <2>1, <2>3, ConfirmedEffect DEF HandleConfirm
<1>2. CASE SelfConfirm
  <2>1. wire' \subseteq wire /\ reply' \in [Tool -> Token \cup {None}]
        /\ \A p \in Tool : reply'[p] \in {None, reply[p]}
    BY <1>2 DEF SelfConfirm, DeviceTypeOK
  <2> QED BY <1>2, <2>1, ConfirmedEffect DEF SelfConfirm
<1> QED BY <1>1, <1>2

LEMMA ExpireEffect ==
    ASSUME DeviceTypeOK, DeviceSound, UploadsSpent, UNCHANGED processes, Expire
    PROVE  DeviceEffect
<1>1. /\ dev.phase = "PREPARED" /\ dev' = [dev EXCEPT !.phase = "FAILED", !.offer = None]
      /\ boots' = boots /\ opened' = opened /\ confirmed' = confirmed /\ wire' = wire /\ reply' = reply
      /\ program' = program /\ pc' = pc /\ job' = job /\ crashes' = crashes
  BY DEF Expire, network, processes
<1>2. dev \in DevType /\ opened \in Nat
  BY DEF DeviceTypeOK, Token
<1>3. /\ dev' \in DevType /\ dev'.phase = "FAILED"
      /\ dev'.build = dev.build /\ dev'.prior = dev.prior /\ dev'.staged = dev.staged
      /\ dev'.journal = dev.journal /\ dev'.state = dev.state
      /\ dev'.transaction = dev.transaction
  BY <1>1, <1>2 DEF DevType
<1>4. DeviceTypeOK'
  BY <1>1, <1>3 DEF DeviceTypeOK
<1>5. DeviceSound'
  BY <1>1, <1>3 DEF DeviceSound, Issued
<1>6. \A r \in Release : Behind(r) => Behind(r)'
  BY <1>3 DEF Behind, Floor
<1>7. \A t \in Issued : InUse(t)' => InUse(t)
  BY <1>1, <1>3 DEF InUse
<1>8. \A q \in wire' : q.kind = "upload" =>
        /\ dev'.journal # None => dev'.journal.token # q.token
        /\ dev'.transaction # q.token
  BY <1>1, <1>3 DEF UploadsSpent
<1>9. \A p \in Tool : ~Changed(p)
  BY <1>1 DEF Changed
<1> QED BY <1>1, <1>2, <1>4, <1>5, <1>6, <1>7, <1>8, <1>9 DEF DeviceEffect

\* GitHub pull installs under a transaction that no tool knows.
LEMMA PullUpdateEffect ==
    ASSUME DeviceTypeOK, DeviceSound, UploadsSpent, UNCHANGED processes,
           \A q \in wire : q.kind = "upload" => q.token \in Issued,
           NEW release \in Release, PullUpdate(release)
    PROVE  DeviceEffect
<1> DEFINE offer == [release |-> release, token |-> opened + 1, package |-> TRUE]
<1>1. /\ dev.state # "PENDING_VERIFY" /\ dev.phase \in {"IDLE", "FAILED"} /\ opened < MaxToken
      /\ Newer(release, dev.build) /\ opened' = opened + 1
      /\ dev' = [dev EXCEPT !.phase = "REBOOT_PENDING", !.offer = offer, !.journal = offer,
                            !.attempt = VersionOf[release], !.staged = TRUE]
      /\ boots' = boots /\ confirmed' = confirmed /\ wire' = wire /\ reply' = reply
      /\ program' = program /\ pc' = pc /\ job' = job /\ crashes' = crashes
  BY DEF PullUpdate, CanUpdate, Newer, network, processes
<1>2. dev \in DevType /\ opened \in Nat /\ VersionOf[release] \in Nat
  BY VersionIsNat DEF DeviceTypeOK, Token
<1>3. /\ opened + 1 \in Token /\ opened + 1 \notin Issued
  BY <1>1, NextTokenIsFresh
<1>4. offer \in Offer /\ offer.release = release /\ offer.token = opened + 1
  BY <1>3 DEF Offer
<1> HIDE DEF offer
<1>5. offer # None
  BY <1>4, BridgeReleases
<1>6. /\ dev' \in DevType /\ dev'.phase = "REBOOT_PENDING" /\ dev'.staged = TRUE
      /\ dev'.build = dev.build /\ dev'.prior = dev.prior
      /\ dev'.journal = offer /\ dev'.state = dev.state
      /\ dev'.transaction = dev.transaction
  BY <1>1, <1>2, <1>4 DEF DevType
<1>7. DeviceTypeOK'
  BY <1>1, <1>3, <1>6 DEF DeviceTypeOK
<1>8. DeviceSound'
  <2>1. dev.transaction # None => dev.transaction \in Nat
    BY <1>2, DevFields DEF Token
  <2>2. /\ dev'.journal # None => dev'.journal.token <= opened'
        /\ dev'.transaction # None => dev'.transaction <= opened'
    BY <1>1, <1>2, <1>4, <1>6, <2>1 DEF DeviceSound
  <2>3. dev'.staged => /\ dev'.state # "PENDING_VERIFY" /\ dev'.journal # None
                       /\ Newer(dev'.journal.release, dev'.build)
    BY <1>1, <1>4, <1>5, <1>6
  <2> QED BY <1>1, <1>6, <2>2, <2>3 DEF DeviceSound, Newer
<1>9. \A r \in Release : Behind(r) => Behind(r)'
  BY <1>6 DEF Behind, Floor
<1>10. \A t \in Issued : InUse(t)' => InUse(t)
  BY <1>1, <1>3, <1>4, <1>6 DEF InUse
<1>11. \A q \in wire' : q.kind = "upload" =>
         /\ dev'.journal # None => dev'.journal.token # q.token
         /\ dev'.transaction # q.token
  BY <1>1, <1>3, <1>4, <1>6 DEF UploadsSpent
<1>12. \A p \in Tool : ~Changed(p)
  BY <1>1 DEF Changed
<1> QED BY <1>1, <1>2, <1>7, <1>9, <1>8, <1>10, <1>11, <1>12 DEF DeviceEffect

\* What a restart makes of the journal: the image that was selected starts on
\* trial, one that was on trial is left for the one before.
LEMMA RestartEffect ==
    ASSUME DeviceTypeOK, DeviceSound, UploadsSpent, UNCHANGED processes, Restart
    PROVE  DeviceEffect
<1> DEFINE runs == IF dev.staged THEN dev.journal.release
                   ELSE IF dev.state = "PENDING_VERIFY" THEN dev.prior ELSE dev.build
           prior == IF dev.staged THEN dev.build ELSE runs
           state == Loaded(runs, dev.staged)
           transaction == IF dev.journal = None THEN None ELSE dev.journal.token
<1>1. /\ boots < MaxBoots /\ boots' = boots + 1
      /\ dev' = [dev EXCEPT !.build = runs, !.staged = FALSE, !.prior = prior, !.state = state,
                            !.transaction = transaction, !.phase = "IDLE", !.offer = None]
      /\ wire' = {} /\ opened' = opened /\ confirmed' = confirmed /\ reply' = reply
      /\ program' = program /\ pc' = pc /\ job' = job /\ crashes' = crashes
  BY DEF Restart, processes
<1>2. dev \in DevType /\ opened \in Nat /\ boots' \in 0 .. MaxBoots
  BY <1>1, BridgeReleases DEF DeviceTypeOK, Token
<1>3. /\ dev.build \in Release /\ dev.prior \in Release /\ dev.staged \in BOOLEAN
      /\ dev.journal # None => /\ dev.journal \in Offer /\ dev.journal.release \in Release
                               /\ dev.journal.token \in Token
  BY <1>2, DevFields, OfferFields
<1>4. dev.staged => dev.journal # None /\ Newer(dev.journal.release, dev.build)
  BY DEF DeviceSound
<1>5. runs \in Release /\ prior \in Release /\ transaction \in Token \cup {None}
  BY <1>3, <1>4
<1>6. /\ dev.journal = None => state = "USB_BASELINE"
      /\ dev.journal # None /\ dev.journal.release # runs => state = "ROLLED_BACK_OR_INTERRUPTED"
      /\ dev.journal # None /\ dev.journal.release = runs /\ dev.staged => state = "PENDING_VERIFY"
      /\ dev.journal # None /\ dev.journal.release = runs /\ ~dev.staged => state = "VALID"
  BY DEF Loaded
<1>7. state \in BootState
  BY <1>6 DEF BootState
<1>8. dev.staged => runs = dev.journal.release /\ prior = dev.build
  OBVIOUS
<1>9. ~dev.staged /\ dev.state # "PENDING_VERIFY" => runs = dev.build /\ prior = dev.build
  OBVIOUS
<1>10. ~dev.staged /\ dev.state = "PENDING_VERIFY" => runs = dev.prior /\ prior = dev.prior
  OBVIOUS
<1> HIDE DEF runs, prior, state, transaction
<1>11. /\ dev' \in DevType /\ dev'.build = runs /\ dev'.prior = prior /\ dev'.staged = FALSE
       /\ dev'.journal = dev.journal /\ dev'.state = state /\ dev'.transaction = transaction
       /\ dev'.phase = "IDLE" /\ dev'.offer = None
  BY <1>1, <1>2, <1>5, <1>7 DEF DevType
<1>12. /\ dev.journal = None => transaction = None
       /\ dev.journal # None => transaction = dev.journal.token
  BY DEF transaction
<1>13. state = "VALID" => /\ ~dev.staged /\ dev.journal # None /\ dev.journal.release = runs
                          /\ dev.state # "PENDING_VERIFY" /\ runs = dev.build
  <2>1. state = "VALID" => ~dev.staged /\ dev.journal # None /\ dev.journal.release = runs
    BY <1>3, <1>6
  <2>2. dev.state = "PENDING_VERIFY" => dev.journal.release # dev.prior
    BY <1>3, VersionIsNat DEF DeviceSound, Newer
  <2> QED BY <1>9, <1>10, <2>1, <2>2
<1>14. DeviceTypeOK'
  BY <1>1, <1>2, <1>11 DEF DeviceTypeOK
<1>15. DeviceSound'
  <2>1. state = "PENDING_VERIFY" =>
          /\ dev.journal # None /\ dev.journal.release = runs
          /\ transaction = dev.journal.token /\ Newer(runs, prior)
    BY <1>3, <1>4, <1>6, <1>8, <1>12 DEF BootState
  <2>2. dev.journal # None /\ dev.journal.token # 0 /\ dev.journal.release = runs
           /\ state # "PENDING_VERIFY" =>
           [release |-> runs, token |-> dev.journal.token] \in confirmed
    <3>1. dev.journal # None /\ dev.journal.release = runs /\ state # "PENDING_VERIFY" => state = "VALID"
      BY <1>3, <1>6
    <3> QED BY <1>13, <3>1 DEF DeviceSound
  <2>3. state = "VALID" => transaction # None
    BY <1>3, <1>12, <1>13, BridgeReleases
  <2>4. state = "VALID" /\ transaction # 0 => [release |-> runs, token |-> transaction] \in confirmed
    BY <1>12, <1>13, <2>2
  <2>5. /\ dev.journal # None => dev.journal.token <= opened
        /\ transaction # None => transaction <= opened
    BY <1>12 DEF DeviceSound
  <2> QED BY <1>1, <1>11, <2>1, <2>2, <2>3, <2>4, <2>5 DEF DeviceSound, Newer
<1>16. \A r \in Release : Behind(r) => Behind(r)'
  <2> SUFFICES ASSUME NEW r \in Release, Behind(r) PROVE Behind(r)'
    OBVIOUS
  <2>1. CASE dev.staged
    <3>1. state = "PENDING_VERIFY" /\ prior = dev.build /\ dev.state # "PENDING_VERIFY"
      BY <1>4, <1>6, <1>8, <2>1 DEF DeviceSound
    <3> QED BY <1>11, <3>1 DEF Behind, Floor
  <2>2. CASE ~dev.staged /\ dev.state # "PENDING_VERIFY"
    BY <1>9, <1>11, <2>2 DEF Behind, Floor
  <2>3. CASE ~dev.staged /\ dev.state = "PENDING_VERIFY"
    BY <1>10, <1>11, <2>3 DEF Behind, Floor
  <2> QED BY <2>1, <2>2, <2>3
<1>17. \A t \in Issued : InUse(t)' => InUse(t)
  <2> SUFFICES ASSUME NEW t \in Issued, InUse(t)' PROVE InUse(t)
    OBVIOUS
  <2>1. t # None
    BY <1>2, BridgeReleases DEF Issued, DeviceTypeOK, Token
  <2> QED BY <1>1, <1>11, <1>12, <2>1 DEF InUse
<1>18. \A p \in Tool : ~Changed(p)
  BY <1>1 DEF Changed
<1> QED BY <1>1, <1>2, <1>14, <1>15, <1>16, <1>17, <1>18 DEF DeviceEffect

LEMMA DeviceNextEffect ==
    ASSUME DeviceTypeOK, DeviceSound, UploadsSpent,
           \A q \in wire : q.kind = "upload" => q.token \in Issued,
           \A q, r \in wire : q.kind = "upload" /\ r.kind = "upload" /\ q.token = r.token => q = r,
           DeviceNext, UNCHANGED processes
    PROVE  DeviceEffect
<1>1. CASE \E request \in wire : Refuse(request)
  BY <1>1, RefuseEffect
<1>2. CASE \E request \in wire : HandlePrepare(request)
  BY <1>2, HandlePrepareEffect
<1>3. CASE \E request \in wire : HandleUpload(request)
  BY <1>3, HandleUploadEffect
<1>4. CASE (\E request \in wire : HandleConfirm(request)) \/ SelfConfirm
  BY <1>4, ConfirmEffect
<1>5. CASE Expire
  BY <1>5, ExpireEffect
<1>6. CASE Restart
  BY <1>6, RestartEffect
<1>7. CASE \E release \in Release : PullUpdate(release)
  BY <1>7, PullUpdateEffect
<1> QED BY <1>1, <1>2, <1>3, <1>4, <1>5, <1>6, <1>7 DEF DeviceNext

-----------------------------------------------------------------------------
(* A step of the device preserves what concerns the tools.                 *)

DeviceStep ==
    /\ DeviceEffect /\ UNCHANGED <<program, pc, job, lock, file, sent, fence, delivered>>

LEMMA IssuedGrow ==
    ASSUME DeviceTypeOK, DeviceEffect
    PROVE  /\ Issued \subseteq Issued' /\ None \notin Issued' /\ opened \in Nat /\ opened' \in Nat
           /\ wire \subseteq Request /\ wire' \subseteq Request
<1>1. opened \in Nat /\ opened' \in Nat /\ opened <= opened' /\ opened' \in Token
  BY DEF DeviceEffect, DeviceTypeOK, Token
<1>2. Issued' \subseteq Token
  BY <1>1, BridgeReleases DEF Issued, Token
<1>3. Issued \subseteq Issued'
  BY <1>1 DEF Issued
<1> QED BY <1>1, <1>2, <1>3, BridgeReleases DEF DeviceEffect, DeviceTypeOK

LEMMA DeviceKeepsWireSound ==
    ASSUME DeviceTypeOK, WireSound, DeviceStep
    PROVE  WireSound'
<1>1. /\ program' = program /\ pc' = pc /\ job' = job /\ wire' \subseteq wire
      /\ \A p \in Tool : Changed(p) =>
           \E q \in wire \ wire' : q.from = p /\ q.kind \in {"prepare", "filePrepare"}
  BY DEF DeviceStep, DeviceEffect
<1>2. Issued \subseteq Issued' /\ None \notin Issued'
  BY IssuedGrow DEF DeviceStep
<1>3. ASSUME NEW p \in Tool, reply'[p] # None
      PROVE  pc[p] = "preparing"
  <2>1. CASE Changed(p)
    <3>1. PICK q \in wire : q.from = p /\ q.kind \in {"prepare", "filePrepare"}
      BY <1>1, <2>1
    <3>2. p # None
      BY BridgeReleases
    <3> QED BY <3>1, <3>2 DEF WireSound, Awaits
  <2>2. CASE ~Changed(p)
    BY <1>3, <2>2 DEF Changed, WireSound
  <2> QED BY <2>1, <2>2
<1>4. ASSUME NEW q \in wire'
      PROVE  /\ q.kind \in IF q.by = "controller" THEN {"prepare", "upload", "confirm"}
                                                  ELSE {"filePrepare", "upload"}
             /\ q.kind = "upload" => q.token \in Issued'
             /\ q.from # None =>
                  /\ program[q.from] = q.by /\ pc[q.from] = Awaits(q.kind)
                  /\ q.release = job[q.from].release /\ q.csrf = job[q.from].csrf
                  /\ q.kind \in {"prepare", "filePrepare"} => q.token = None
  BY <1>1, <1>2 DEF WireSound
<1> QED BY <1>1, <1>3, <1>4 DEF WireSound, Awaits

LEMMA UnsentIsIssued ==
    ASSUME TokensSound, NEW p \in Tool
    PROVE  Unsent(p) # None => Unsent(p) \in Issued
BY DEF TokensSound

LEMMA DeviceKeepsTokensSound ==
    ASSUME DeviceTypeOK, WireSound, TokensSound, DeviceStep
    PROVE  TokensSound'
<1>1. /\ program' = program /\ pc' = pc /\ job' = job /\ lock' = lock /\ file' = file /\ fence' = fence
      /\ wire' \subseteq wire
      /\ \A t \in Issued : InUse(t)' => InUse(t)
      /\ \A q \in wire' : q.kind = "upload" =>
           /\ dev'.journal # None => dev'.journal.token # q.token
           /\ dev'.transaction # q.token
      /\ \A p \in Tool : Changed(p) =>
           /\ reply'[p] \notin Issued /\ reply'[p] \in 1 .. opened' /\ ~InUse(reply[p])'
           /\ \E q \in wire \ wire' : q.from = p /\ q.kind \in {"prepare", "filePrepare"}
      /\ \A p, q \in Tool : Changed(p) /\ Changed(q) => p = q
  BY DEF DeviceStep, DeviceEffect
<1>2. Issued \subseteq Issued' /\ None \notin Issued' /\ Issued' = 1 .. opened'
  BY IssuedGrow DEF DeviceStep, Issued
<1>3. \A p \in Tool : Changed(p) => pc[p] = "preparing"
  <2> SUFFICES ASSUME NEW p \in Tool, Changed(p) PROVE pc[p] = "preparing"
    OBVIOUS
  <2>1. PICK q \in wire : q.from = p /\ q.kind \in {"prepare", "filePrepare"}
    BY <1>1
  <2>2. p # None
    BY BridgeReleases
  <2> QED BY <2>1, <2>2 DEF WireSound, Awaits
\* An unsent token is an old one, or the new one.
<1>4. \A p \in Tool : Unsent(p)' \in {None, Unsent(p)} \/ (Changed(p) /\ Unsent(p)' = reply'[p])
  <2> SUFFICES ASSUME NEW p \in Tool
               PROVE  Unsent(p)' \in {None, Unsent(p)} \/ (Changed(p) /\ Unsent(p)' = reply'[p])
    OBVIOUS
  <2>1. CASE pc[p] = "preparing"
    <3>1. Unsent(p) = reply[p] /\ Unsent(p)' = reply'[p]
      BY <1>1, <2>1 DEF Unsent
    <3> QED BY <3>1 DEF Changed
  <2>2. CASE pc[p] # "preparing"
    <3>1. pc'[p] = pc[p] /\ job'[p] = job[p]
      BY <1>1
    <3>2. Unsent(p)' = Unsent(p)
      BY <2>2, <3>1 DEF Unsent
    <3> QED BY <3>2
  <2> QED BY <2>1, <2>2
<1>5. \A p \in Tool : Unsent(p)' # None => Unsent(p)' \in Issued'
  BY <1>1, <1>2, <1>4, UnsentIsIssued
<1>6. \A p \in Tool : Unsent(p)' # None => ~InUse(Unsent(p))'
  <2> SUFFICES ASSUME NEW p \in Tool, Unsent(p)' # None PROVE ~InUse(Unsent(p))'
    OBVIOUS
  <2>1. CASE Changed(p) /\ Unsent(p)' = reply'[p]
    <3>1. ~InUse(reply[p])'
      BY <1>1, <2>1
    <3> QED BY <2>1, <3>1 DEF InUse
  <2>2. CASE Unsent(p)' = Unsent(p)
    <3>1. Unsent(p) \in Issued /\ ~InUse(Unsent(p))
      BY <2>2 DEF TokensSound
    <3>2. InUse(Unsent(p))' => InUse(Unsent(p))
      <4> DEFINE t == Unsent(p)
      <4>1. \A u : InUse(u)' <=> \/ dev'.journal # None /\ dev'.journal.token = u
                                 \/ dev'.transaction = u
                                 \/ \E q \in wire' : q.kind = "upload" /\ q.token = u
        BY DEF InUse
      <4>2. \A u \in Issued : (\/ dev'.journal # None /\ dev'.journal.token = u
                               \/ dev'.transaction = u
                               \/ \E q \in wire' : q.kind = "upload" /\ q.token = u) => InUse(u)
        BY <1>1 DEF InUse
      <4>3. InUse(Unsent(p))' => \/ dev'.journal # None /\ dev'.journal.token = Unsent(p)'
                                 \/ dev'.transaction = Unsent(p)'
                                 \/ \E q \in wire' : q.kind = "upload" /\ q.token = Unsent(p)'
        BY DEF InUse
      <4> QED BY <2>2, <3>1, <4>2, <4>3
    <3> QED BY <3>1, <3>2
  <2> QED BY <1>4, <2>1, <2>2
<1>7. \A p, q \in Tool : Unsent(p)' # None /\ p # q => Unsent(q)' # Unsent(p)'
  <2> SUFFICES ASSUME NEW p \in Tool, NEW q \in Tool, Unsent(p)' # None, p # q
               PROVE  Unsent(q)' # Unsent(p)'
    OBVIOUS
  <2>1. Unsent(p) # None => Unsent(q) # Unsent(p)
    BY DEF TokensSound
  <2>2. ~(Changed(p) /\ Changed(q))
    BY <1>1
  <2>3. CASE Unsent(p)' = Unsent(p)
    BY <1>1, <1>4, <2>1, <2>3, UnsentIsIssued
  <2>4. CASE Changed(p) /\ Unsent(p)' = reply'[p]
    BY <1>1, <1>4, <2>2, <2>4, UnsentIsIssued
  <2> QED BY <1>4, <2>3, <2>4
<1>8. \A p \in Tool : Unsent(p)' # None =>
        /\ file # None /\ file.token = Unsent(p)' => lock = p /\ pc[p] = "upload"
        /\ fence \notin {None, R!Torn} /\ fence.token = Unsent(p)' =>
             program[p] = "remote" /\ pc[p] = "upload"
  <2>1. /\ file # None /\ file.token # None => file.token \in Issued
        /\ fence \notin {None, R!Torn} /\ fence.token # None => fence.token \in Issued
    BY DEF TokensSound
  <2> QED BY <1>1, <1>4, <2>1 DEF TokensSound
<1>9. \A p \in Tool : pc[p] \in {"fail", "valid"} /\ job[p].token # None =>
        \A q \in Tool : Unsent(q)' # job[p].token
  <2>1. \A p \in Tool : pc[p] \in {"fail", "valid"} /\ job[p].token # None =>
          /\ job[p].token \in Issued
          /\ \A q \in Tool : Unsent(q) # job[p].token
    BY DEF TokensSound
  <2> QED BY <1>1, <1>4, <2>1
<1>10. /\ \A p \in Tool :
            /\ pc[p] \in {"read", "preflight", "intend", "check", "reserve", "fill", "recheck",
                          "prepare", "preparing"} => job[p].token = None
            /\ job[p].token # None => job[p].token \in Issued'
            /\ pc[p] \in {"save", "upload"} => job[p].token # None
       /\ file # None /\ file.token # None => file.token \in Issued'
       /\ fence \notin {None, R!Torn} /\ fence.token # None => fence.token \in Issued'
       /\ \A q, r \in wire' : q.kind = "upload" /\ r.kind = "upload" /\ q.token = r.token => q = r
  BY <1>1, <1>2 DEF TokensSound
<1>11. R!Torn' = R!Torn
  BY DEF R!Torn
<1>12. \A q \in wire' : q.kind = "upload" =>
         /\ dev'.journal # None => dev'.journal.token # q.token
         /\ dev'.transaction # q.token
  BY <1>1
<1> HIDE DEF Unsent, InUse, Issued, Changed
<1>13. \A p \in Tool : Unsent(p)' # None =>
         /\ Unsent(p)' \in Issued' /\ ~InUse(Unsent(p))'
         /\ \A q \in Tool \ {p} : Unsent(q)' # Unsent(p)'
         /\ file' # None /\ file'.token = Unsent(p)' => lock' = p /\ pc'[p] = "upload"
         /\ fence' \notin {None, R!Torn'} /\ fence'.token = Unsent(p)' =>
              program'[p] = "remote" /\ pc'[p] = "upload"
  BY <1>1, <1>5, <1>6, <1>7, <1>8, <1>11
<1> QED BY <1>1, <1>9, <1>10, <1>11, <1>12, <1>13 DEF TokensSound

LEMMA DeviceKeepsLockSound ==
    ASSUME LockSound, DeviceStep
    PROVE  LockSound'
BY DEF DeviceStep, LockSound, LockAt, InProgress

LEMMA DeviceKeepsSentSound ==
    ASSUME DeviceTypeOK, C!ControllerTypeOK, WireSound, TokensSound, LockSound, SentSound, DeviceStep
    PROVE  SentSound'
<1>1. /\ program' = program /\ pc' = pc /\ job' = job /\ lock' = lock /\ file' = file /\ sent' = sent
      /\ wire' \subseteq wire /\ confirmed \subseteq confirmed'
      /\ \A t \in Issued : InUse(t)' => InUse(t)
      /\ \A r \in Release : Behind(r) => Behind(r)'
      /\ \A p \in Tool : Changed(p) =>
           \E q \in wire \ wire' : q.from = p /\ q.kind \in {"prepare", "filePrepare"}
  BY DEF DeviceStep, DeviceEffect
\* While a prepare is still on the wire, its sender has no answer.
<1>2. ControllerWire'
  <2> SUFFICES ASSUME NEW q \in wire', q.by = "controller", q.kind \in {"prepare", "upload"}
               PROVE  /\ file # None /\ file.release = q.release /\ file.status # "SUCCESS"
                      /\ file.status = "IN_PROGRESS" /\ q.kind = "prepare" =>
                           /\ file.token = None
                           /\ lock # None => pc[lock] \in {"read", "preparing", "fail"}
                           /\ lock # None /\ pc[lock] = "preparing" => q.from = lock /\ reply'[lock] = None
                      /\ file.status = "IN_PROGRESS" /\ q.kind = "upload" => q.token = file.token
    BY <1>1 DEF ControllerWire
  <2>1. ControllerWire /\ q \in wire
    BY <1>1 DEF SentSound
  <2>2. ASSUME file.status = "IN_PROGRESS", q.kind = "prepare", lock # None, pc[lock] = "preparing"
        PROVE  reply'[lock] = None
    <3>1. lock \in Tool /\ reply[lock] = None /\ q.from = lock
      BY <2>1, <2>2 DEF ControllerWire, C!ControllerTypeOK
    <3>2. CASE Changed(lock)
      <4>1. PICK r \in wire \ wire' : r.from = lock /\ r.kind \in {"prepare", "filePrepare"}
        BY <1>1, <3>1, <3>2
      <4>2. /\ r \in Request /\ q \in Request
        BY <2>1, <4>1 DEF DeviceTypeOK
      <4>3. /\ r.by = program[lock] /\ q.by = program[lock] /\ r.release = job[lock].release
            /\ q.release = job[lock].release /\ r.csrf = job[lock].csrf /\ q.csrf = job[lock].csrf
            /\ r.token = None /\ q.token = None
            /\ r.kind \in IF r.by = "controller" THEN {"prepare", "upload", "confirm"}
                                                 ELSE {"filePrepare", "upload"}
        BY <2>1, <2>2, <3>1, <4>1 DEF WireSound
      <4>4. r.kind = "prepare"
        BY <4>1, <4>3
      <4>5. r = q
        BY <2>2, <3>1, <4>1, <4>2, <4>3, <4>4, SameRequest
      <4> QED BY <4>1, <4>5
    <3> QED BY <3>1, <3>2 DEF Changed
  <2> QED BY <2>1, <2>2 DEF ControllerWire
<1>3. SentCounts'
  <2>1. Controlled' = Controlled
    BY <1>1 DEF Controlled
  <2>2. file # None /\ file.token # None => file.token \in Issued
    BY DEF TokensSound
  <2>3. file # None /\ file.status = "IN_PROGRESS" /\ file.token # None /\ InUse(file.token)' =>
          sent[file.release] = 1
    <3>1. file # None /\ file.token # None => (InUse(file.token)' => InUse(file.token))
      BY <1>1, <2>2 DEF InUse
    <3> QED BY <3>1 DEF SentSound, SentCounts
  <2>4. \A r \in Release : sent[r] = 1 /\ Controlled # r => Behind(r)'
    BY <1>1 DEF SentSound, SentCounts
  <2>5. \A r \in Release : sent[r] \in {0, 1}
    BY DEF SentSound, SentCounts
  <2> HIDE DEF InUse, Behind, Controlled
  <2> QED BY <1>1, <2>1, <2>3, <2>4, <2>5 DEF SentCounts
<1>4. \A p \in Tool : program[p] = "controller" => SentAt(p)'
  <2> SUFFICES ASSUME NEW p \in Tool, program[p] = "controller" PROVE SentAt(p)'
    OBVIOUS
  <2>1. SentAt(p)
    BY DEF SentSound
  <2>2. pc[p] = "succeed" => Behind(job[p].release)'
    <3>1. job[p].release \in Release
      BY JobFields DEF DeviceTypeOK
    <3>2. Behind(job[p].release) => Behind(job[p].release)'
      BY <1>1, <3>1 DEF Behind, Floor
    <3> QED BY <2>1, <3>2 DEF SentAt
  <2> HIDE DEF Behind
  <2> QED BY <1>1, <2>1, <2>2 DEF SentAt
<1>5. SuccessRecorded'
  BY <1>1 DEF SuccessRecorded, SentSound
<1> HIDE DEF ControllerWire, SentCounts, SentAt, SuccessRecorded
<1> QED BY <1>1, <1>2, <1>3, <1>4, <1>5 DEF SentSound

LEMMA DeviceKeepsRemoteSound ==
    ASSUME RemoteSound, DeviceStep
    PROVE  RemoteSound'
<1>1. /\ program' = program /\ pc' = pc /\ job' = job /\ fence' = fence /\ confirmed \subseteq confirmed'
  BY DEF DeviceStep, DeviceEffect
<1>2. \A p \in Tool : program[p] = "remote" => RemoteAt(p)'
  BY <1>1 DEF RemoteSound, RemoteAt, Newer
<1>3. ValidRecorded'
  BY <1>1 DEF RemoteSound, ValidRecorded, R!Torn
<1> HIDE DEF RemoteAt, ValidRecorded
<1> QED BY <1>1, <1>2, <1>3 DEF RemoteSound

LEMMA DeviceKeepsFenceSound ==
    ASSUME FenceSound, DeviceStep
    PROVE  FenceSound'
<1>1. /\ program' = program /\ pc' = pc /\ job' = job /\ fence' = fence
  BY DEF DeviceStep
<1>2. \A p \in Tool : (Owns(p)' <=> Owns(p)) /\ (Looks(p)' <=> Looks(p))
  BY <1>1 DEF Owns, Looks
<1>3. \A p \in Tool : FenceAt(p)'
  BY <1>1, <1>2 DEF FenceSound, FenceAt, R!Torn
<1> HIDE DEF FenceAt, Owns
<1> QED BY <1>1, <1>2, <1>3 DEF FenceSound, R!Torn

LEMMA DeviceKeepsDeliveredSound ==
    ASSUME DeviceTypeOK, WireSound, TokensSound, FenceSound, DeliveredSound, DeviceStep
    PROVE  DeliveredSound'
<1>1. /\ program' = program /\ pc' = pc /\ job' = job /\ fence' = fence /\ delivered' = delivered
      /\ wire' \subseteq wire
      /\ \A t \in Issued : InUse(t)' => InUse(t)
      /\ \A r \in Release : Behind(r) => Behind(r)'
      /\ \A p \in Tool : Changed(p) =>
           \E q \in wire \ wire' : q.from = p /\ q.kind \in {"prepare", "filePrepare"}
  BY DEF DeviceStep, DeviceEffect
<1>2. \A p \in Tool : Owns(p)' <=> Owns(p)
  BY <1>1 DEF Owns
<1>3. RemoteWire'
  <2> SUFFICES ASSUME NEW q \in wire', q.by = "remote"
               PROVE  /\ fence \notin {None, R!Torn} /\ fence.release = q.release /\ fence.phase # "VALID"
                      /\ q.kind = "filePrepare" =>
                           /\ fence.token = None
                           /\ \A p \in Tool : Owns(p) => pc[p] = "preparing" /\ q.from = p /\ reply'[p] = None
                      /\ q.kind = "upload" => q.token = fence.token
    BY <1>1, <1>2 DEF RemoteWire, R!Torn
  <2>1. RemoteWire /\ q \in wire
    BY <1>1 DEF DeliveredSound
  <2>2. ASSUME q.kind = "filePrepare", NEW p \in Tool, Owns(p)
        PROVE  reply'[p] = None
    <3>1. reply[p] = None /\ q.from = p /\ pc[p] = "preparing"
      BY <2>1, <2>2 DEF RemoteWire
    <3>0. p # None
      BY BridgeReleases
    <3>2. CASE Changed(p)
      <4>1. PICK r \in wire \ wire' : r.from = p /\ r.kind \in {"prepare", "filePrepare"}
        BY <1>1, <3>1, <3>2
      <4>2. /\ r \in Request /\ q \in Request
        BY <2>1, <4>1 DEF DeviceTypeOK
      <4>3. /\ r.by = program[p] /\ q.by = program[p] /\ r.release = job[p].release
            /\ q.release = job[p].release /\ r.csrf = job[p].csrf /\ q.csrf = job[p].csrf
            /\ r.token = None /\ q.token = None
            /\ r.kind \in IF r.by = "controller" THEN {"prepare", "upload", "confirm"}
                                                 ELSE {"filePrepare", "upload"}
        BY <2>1, <2>2, <3>0, <3>1, <4>1 DEF WireSound
      <4>4. r.kind = "filePrepare"
        BY <4>1, <4>3
      <4>5. r = q
        BY <2>2, <3>1, <4>1, <4>2, <4>3, <4>4, SameRequest
      <4> QED BY <4>1, <4>5
    <3> QED BY <3>1, <3>2 DEF Changed
  <2> QED BY <2>1, <2>2 DEF RemoteWire
<1>4. DeliveredCounts'
  <2>1. Fenced' = Fenced
    BY <1>1 DEF Fenced, R!Torn
  <2>2. fence \notin {None, R!Torn} /\ fence.token # None => fence.token \in Issued
    BY DEF TokensSound
  <2>3. fence \notin {None, R!Torn} /\ fence.token # None /\ InUse(fence.token)' =>
          delivered[fence.release] = 1
    <3>1. fence \notin {None, R!Torn} /\ fence.token # None => (InUse(fence.token)' => InUse(fence.token))
      BY <1>1, <2>2 DEF InUse
    <3> QED BY <3>1 DEF DeliveredSound, DeliveredCounts
  <2>4. \A r \in Release : delivered[r] = 1 /\ Fenced # r => Behind(r)'
    BY <1>1 DEF DeliveredSound, DeliveredCounts
  <2>5. \A r \in Release : delivered[r] \in {0, 1}
    BY DEF DeliveredSound, DeliveredCounts
  <2>6. R!Torn' = R!Torn
    BY DEF R!Torn
  <2> HIDE DEF InUse, Behind, Fenced
  <2> QED BY <1>1, <2>1, <2>3, <2>4, <2>5, <2>6 DEF DeliveredCounts
<1>5. \A p \in Tool : program[p] = "remote" => DeliveredAt(p)'
  <2> SUFFICES ASSUME NEW p \in Tool, program[p] = "remote" PROVE DeliveredAt(p)'
    OBVIOUS
  <2>1. DeliveredAt(p)
    BY DEF DeliveredSound
  <2>2. Behind(job[p].release) => Behind(job[p].release)'
    <3>1. job[p].release \in Release
      BY JobFields DEF DeviceTypeOK
    <3> QED BY <1>1, <3>1 DEF Behind, Floor
  <2> HIDE DEF Behind
  <2> QED BY <1>1, <2>1, <2>2 DEF DeliveredAt
<1> HIDE DEF RemoteWire, DeliveredCounts, DeliveredAt
<1> QED BY <1>1, <1>3, <1>4, <1>5 DEF DeliveredSound

-----------------------------------------------------------------------------
(* What a step of a tool does to the network.                              *)

Waiting == {"preparing", "uploading", "confirming"}

\* Process p goes on and nobody else does.
Moves(p) ==
    /\ UNCHANGED <<dev, boots, opened, confirmed, program>> /\ crashes' \in 0 .. MaxCrashes
    /\ \E s \in Step, j \in Job : pc' = [pc EXCEPT ![p] = s] /\ job' = [job EXCEPT ![p] = j]

\* It waits for nothing any more, or sends one request and waits for the
\* answer.  An upload is sent with the token that the process kept for it.
Silent(p) == Abandon(p) /\ pc'[p] \notin Waiting
Sends(p, kind, token) ==
    /\ Send(p, kind, token) /\ pc[p] \notin Waiting /\ pc'[p] = Awaits(kind) /\ job'[p] = job[p]
    /\ kind \in IF program[p] = "controller" THEN {"prepare", "upload", "confirm"}
                                             ELSE {"filePrepare", "upload"}
    /\ kind \in {"prepare", "filePrepare"} => token = None
    /\ kind = "upload" => pc[p] = "upload" /\ token = job[p].token
    /\ kind = "confirm" => token \in Token
ToolStep(p) ==
    Moves(p) /\ (Silent(p) \/ \E kind \in Kind, token \in Token \cup {None} : Sends(p, kind, token))

LEMMA MovesIs ==
    ASSUME DeviceTypeOK, NEW p \in Tool, Moves(p)
    PROVE  /\ dev' = dev /\ boots' = boots /\ opened' = opened /\ confirmed' = confirmed
           /\ program' = program /\ crashes' \in 0 .. MaxCrashes
           /\ pc' \in [Tool -> Step] /\ job' \in [Tool -> Job] /\ pc'[p] \in Step /\ job'[p] \in Job
           /\ \A q \in Tool \ {p} : pc'[q] = pc[q] /\ job'[q] = job[q]
BY DEF DeviceTypeOK, Moves

\* To send nothing and to wait for nothing is to give up what nobody expects.
LEMMA IdleAbandons ==
    ASSUME DeviceTypeOK, WireSound, NEW p \in Tool, UNCHANGED network, pc[p] \notin Waiting
    PROVE  Abandon(p)
<1>1. wire' = wire /\ reply' = reply /\ reply \in [Tool -> Token \cup {None}] /\ p # None
  BY BridgeReleases DEF network, DeviceTypeOK
<1>2. \A q \in wire : q.from # p
  <2> SUFFICES ASSUME NEW q \in wire, q.from = p PROVE FALSE
    OBVIOUS
  <2>1. q.kind \in Kind /\ pc[p] = Awaits(q.kind)
    BY <1>1, RequestFields DEF WireSound, DeviceTypeOK
  <2> QED BY <2>1 DEF Kind, Awaits, Waiting
<1>3. wire = {IF q.from = p THEN [q EXCEPT !.from = None] ELSE q : q \in wire}
  BY <1>2
<1>4. reply[p] = None
  BY DEF WireSound, Waiting
<1>5. reply' = [reply EXCEPT ![p] = None]
  BY <1>1, <1>4
<1> QED BY <1>1, <1>3, <1>5 DEF Abandon

LEMMA AbandonIs ==
    ASSUME DeviceTypeOK, NEW p \in Tool, Abandon(p)
    PROVE  /\ wire' \subseteq Request /\ reply' \in [Tool -> Token \cup {None}] /\ reply'[p] = None
           /\ \A q \in Tool \ {p} : reply'[q] = reply[q]
           /\ \A q \in wire' : q \in wire \/ q.from = None
           /\ \A q \in wire' : \E o \in wire :
                /\ q.kind = o.kind /\ q.release = o.release /\ q.token = o.token
                /\ q.csrf = o.csrf /\ q.by = o.by
                /\ q.from = IF o.from = p THEN None ELSE o.from
                /\ q = IF o.from = p THEN [o EXCEPT !.from = None] ELSE o
<1>1. wire \subseteq Request /\ reply \in [Tool -> Token \cup {None}]
  BY DEF DeviceTypeOK
<1>2. /\ wire' = {IF q.from = p THEN [q EXCEPT !.from = None] ELSE q : q \in wire}
      /\ reply' = [reply EXCEPT ![p] = None]
  BY DEF Abandon
<1>3. ASSUME NEW q \in wire'
      PROVE  /\ q \in Request /\ (q \in wire \/ q.from = None)
             /\ \E o \in wire :
                /\ q.kind = o.kind /\ q.release = o.release /\ q.token = o.token
                /\ q.csrf = o.csrf /\ q.by = o.by
                /\ q.from = IF o.from = p THEN None ELSE o.from
                /\ q = IF o.from = p THEN [o EXCEPT !.from = None] ELSE o
  <2>1. PICK o \in wire : q = IF o.from = p THEN [o EXCEPT !.from = None] ELSE o
    BY <1>2
  <2>2. o \in Request
    BY <1>1
  <2>3. CASE o.from = p
    <3>1. q = [o EXCEPT !.from = None]
      BY <2>1, <2>3
    <3>2. /\ q \in Request /\ q.from = None /\ q.kind = o.kind /\ q.release = o.release
          /\ q.token = o.token /\ q.csrf = o.csrf /\ q.by = o.by
      BY <2>2, <3>1 DEF Request
    <3> QED BY <2>1, <2>3, <3>2
  <2>4. CASE o.from # p
    BY <2>1, <2>2, <2>4
  <2> QED BY <2>3, <2>4
<1> QED BY <1>1, <1>2, <1>3

LEMMA SendIs ==
    ASSUME DeviceTypeOK, NEW p \in Tool, NEW kind \in Kind, NEW token \in Token \cup {None},
           Send(p, kind, token)
    PROVE  /\ reply' \in [Tool -> Token \cup {None}] /\ reply'[p] = None
           /\ \A q \in Tool \ {p} : reply'[q] = reply[q]
           /\ \E n \in Request :
                /\ wire' = wire \cup {n} /\ n.kind = kind /\ n.release = job[p].release /\ n.token = token
                /\ n.csrf = job[p].csrf /\ n.by = program[p] /\ n.from = p
<1> DEFINE n == [kind |-> kind, release |-> job[p].release, token |-> token,
                 csrf |-> job[p].csrf, by |-> program[p], from |-> p]
<1>1. job[p].release \in Release /\ job[p].csrf \in 0 .. MaxBoots /\ program[p] \in Program
  BY JobFields DEF DeviceTypeOK
<1>2. n \in Request
  BY <1>1 DEF Request
<1>3. wire' = wire \cup {n} /\ reply' = [reply EXCEPT ![p] = None]
  BY DEF Send
<1>4. /\ n.kind = kind /\ n.release = job[p].release /\ n.token = token
      /\ n.csrf = job[p].csrf /\ n.by = program[p] /\ n.from = p
  OBVIOUS
<1>5. reply \in [Tool -> Token \cup {None}]
  BY DEF DeviceTypeOK
<1> HIDE DEF n
<1> QED BY <1>2, <1>3, <1>4, <1>5

LEMMA StepKeepsDeviceType ==
    ASSUME DeviceTypeOK, NEW p \in Tool, ToolStep(p)
    PROVE  DeviceTypeOK' /\ reply'[p] = None /\ \A q \in Tool \ {p} : reply'[q] = reply[q]
<1>1. Moves(p)
  BY DEF ToolStep
<1>2. /\ wire' \subseteq Request /\ reply' \in [Tool -> Token \cup {None}] /\ reply'[p] = None
      /\ \A q \in Tool \ {p} : reply'[q] = reply[q]
  <2>1. CASE Silent(p)
    BY <2>1, AbandonIs DEF Silent
  <2>2. CASE \E kind \in Kind, token \in Token \cup {None} : Sends(p, kind, token)
    <3>1. PICK kind \in Kind, token \in Token \cup {None} : Send(p, kind, token)
      BY <2>2 DEF Sends
    <3>2. wire \subseteq Request
      BY DEF DeviceTypeOK
    <3> QED BY <3>1, <3>2, SendIs
  <2> QED BY <2>1, <2>2 DEF ToolStep
<1>3. /\ dev' = dev /\ boots' = boots /\ opened' = opened /\ confirmed' = confirmed
      /\ program' = program /\ crashes' \in 0 .. MaxCrashes
      /\ pc' \in [Tool -> Step] /\ job' \in [Tool -> Job]
  BY <1>1, MovesIs
<1> QED BY <1>2, <1>3 DEF DeviceTypeOK

LEMMA StepKeepsDeviceSound ==
    ASSUME DeviceTypeOK, DeviceSound, NEW p \in Tool, ToolStep(p)
    PROVE  DeviceSound' /\ \A r \in Release : Behind(r)' <=> Behind(r)
<1>1. dev' = dev /\ opened' = opened /\ confirmed' = confirmed
  BY MovesIs DEF ToolStep
<1> QED BY <1>1 DEF DeviceSound, Issued, Behind, Floor, Newer

LEMMA StepKeepsWireSound ==
    ASSUME DeviceTypeOK, WireSound, TokensSound, NEW p \in Tool, ToolStep(p)
    PROVE  WireSound'
<1>1. /\ opened' = opened /\ program' = program
      /\ \A q \in Tool \ {p} : pc'[q] = pc[q] /\ job'[q] = job[q]
  BY MovesIs DEF ToolStep
<1>2. reply'[p] = None /\ \A q \in Tool \ {p} : reply'[q] = reply[q]
  BY StepKeepsDeviceType
<1>3. \A q \in Tool : reply'[q] # None => pc'[q] = "preparing"
  BY <1>1, <1>2 DEF WireSound
<1>4. Issued' = Issued /\ p # None
  BY <1>1, BridgeReleases DEF Issued
<1>5. ASSUME NEW q \in wire'
      PROVE  /\ q.kind \in IF q.by = "controller" THEN {"prepare", "upload", "confirm"}
                                                  ELSE {"filePrepare", "upload"}
             /\ q.kind = "upload" => q.token \in Issued
             /\ q.from # None =>
                  /\ program[q.from] = q.by /\ pc'[q.from] = Awaits(q.kind)
                  /\ q.release = job'[q.from].release /\ q.csrf = job'[q.from].csrf
                  /\ q.kind \in {"prepare", "filePrepare"} => q.token = None
  <2>1. ASSUME NEW o \in wire, q.kind = o.kind, q.release = o.release, q.token = o.token,
               q.csrf = o.csrf, q.by = o.by, q.from \in {o.from, None}, q.from # p
        PROVE  /\ q.kind \in IF q.by = "controller" THEN {"prepare", "upload", "confirm"}
                                                    ELSE {"filePrepare", "upload"}
               /\ q.kind = "upload" => q.token \in Issued
               /\ q.from # None =>
                    /\ program[q.from] = q.by /\ pc'[q.from] = Awaits(q.kind)
                    /\ q.release = job'[q.from].release /\ q.csrf = job'[q.from].csrf
                    /\ q.kind \in {"prepare", "filePrepare"} => q.token = None
    <3>1. q.from # None => q.from \in Tool \ {p}
      BY <2>1, RequestFields DEF DeviceTypeOK
    <3> QED BY <1>1, <2>1, <3>1 DEF WireSound, Awaits
  <2>2. CASE Silent(p)
    <3>1. PICK o \in wire : /\ q.kind = o.kind /\ q.release = o.release /\ q.token = o.token
                            /\ q.csrf = o.csrf /\ q.by = o.by
                            /\ q.from = IF o.from = p THEN None ELSE o.from
      BY <2>2, AbandonIs DEF Silent
    <3> QED BY <1>4, <2>1, <3>1
  <2>3. ASSUME NEW kind \in Kind, NEW token \in Token \cup {None}, Sends(p, kind, token)
        PROVE  /\ q.kind \in IF q.by = "controller" THEN {"prepare", "upload", "confirm"}
                                                    ELSE {"filePrepare", "upload"}
               /\ q.kind = "upload" => q.token \in Issued
               /\ q.from # None =>
                    /\ program[q.from] = q.by /\ pc'[q.from] = Awaits(q.kind)
                    /\ q.release = job'[q.from].release /\ q.csrf = job'[q.from].csrf
                    /\ q.kind \in {"prepare", "filePrepare"} => q.token = None
    <3>1. PICK n \in Request :
                /\ wire' = wire \cup {n} /\ n.kind = kind /\ n.release = job[p].release /\ n.token = token
                /\ n.csrf = job[p].csrf /\ n.by = program[p] /\ n.from = p
      BY <2>3, SendIs DEF Sends
    <3>2. CASE q = n
      <4>1. kind = "upload" => token \in Issued
        BY <2>3 DEF Sends, TokensSound
      <4> QED BY <2>3, <3>1, <3>2, <4>1 DEF Sends, Awaits
    <3>3. CASE q \in wire
      <4>1. q.from # p
        <5> SUFFICES ASSUME q.from = p PROVE FALSE
          OBVIOUS
        <5>1. q.kind \in Kind /\ pc[p] = Awaits(q.kind)
          BY <1>4, <3>3, RequestFields DEF WireSound, DeviceTypeOK
        <5> QED BY <2>3, <5>1 DEF Kind, Awaits, Waiting, Sends
      <4> QED BY <2>1, <3>3, <4>1
    <3> QED BY <3>1, <3>2, <3>3
  <2> QED BY <2>2, <2>3 DEF ToolStep
<1> QED BY <1>1, <1>3, <1>4, <1>5 DEF WireSound, Awaits

\* Only a token that its holder now gives away comes into use.
LEMMA InUseGrows ==
    ASSUME DeviceTypeOK, NEW p \in Tool, ToolStep(p)
    PROVE  \A t : InUse(t)' => InUse(t) \/ (t = Unsent(p) /\ Unsent(p)' = None /\ pc[p] = "upload")
<1>1. dev' = dev
  BY MovesIs DEF ToolStep
<1>2. CASE Silent(p)
  <2>1. \A q \in wire' : \E o \in wire : q.kind = o.kind /\ q.token = o.token
    BY <1>2, AbandonIs DEF Silent
  <2> QED BY <1>1, <2>1 DEF InUse
<1>3. CASE \E kind \in Kind, token \in Token \cup {None} : Sends(p, kind, token)
  <2>1. PICK kind \in Kind, token \in Token \cup {None} : Sends(p, kind, token)
    BY <1>3
  <2>2. PICK n \in Request : wire' = wire \cup {n} /\ n.kind = kind /\ n.token = token
    BY <2>1, SendIs DEF Sends
  <2>3. \A t : InUse(t)' => InUse(t) \/ (kind = "upload" /\ t = token)
    BY <1>1, <2>2 DEF InUse
  <2>4. kind = "upload" => token = Unsent(p) /\ Unsent(p)' = None /\ pc[p] = "upload"
    <3> SUFFICES ASSUME kind = "upload"
                 PROVE  token = Unsent(p) /\ Unsent(p)' = None /\ pc[p] = "upload"
      OBVIOUS
    <3>1. pc[p] = "upload" /\ token = job[p].token /\ pc'[p] = "uploading"
      BY <2>1 DEF Sends, Awaits
    <3> QED BY <3>1 DEF Unsent
  <2> QED BY <2>3, <2>4
<1> QED BY <1>2, <1>3 DEF ToolStep

\* The hypotheses under which a step leaves the tokens in order.
UnsentMoves(p) ==
    /\ Unsent(p)' \in {None, Unsent(p)}
    /\ pc[p] = "upload" => Unsent(p)' = None
    /\ pc'[p] \in {"read", "preflight", "intend", "check", "reserve", "fill", "recheck",
                   "prepare", "preparing"} => job'[p].token = None
    /\ job'[p].token # None => job'[p].token \in Issued
    /\ pc'[p] \in {"save", "upload"} => job'[p].token # None
    /\ pc'[p] \in {"fail", "valid"} /\ job'[p].token # None =>
         \A q \in Tool \ {p} : Unsent(q) # job'[p].token
TokenMoves(p) ==
    /\ UnsentMoves(p)
    /\ lock' = lock \/ lock \in {None, p}
    /\ \/ file' = file \/ file'.token = None
       \/ file'.token = Unsent(p) /\ lock' = p /\ pc'[p] = "upload"
       \/ file'.token \in Issued /\ \A q \in Tool : Unsent(q) # file'.token
    /\ \/ fence' = fence \/ fence' \in {None, R!Torn} \/ fence'.token = None
       \/ fence'.token = Unsent(p) /\ program[p] = "remote" /\ pc'[p] = "upload"
       \/ fence'.token \in Issued /\ \A q \in Tool : Unsent(q) # fence'.token

LEMMA StepKeepsUploads ==
    ASSUME DeviceTypeOK, TokensSound, NEW p \in Tool, ToolStep(p)
    PROVE  /\ \A q, r \in wire' : q.kind = "upload" /\ r.kind = "upload" /\ q.token = r.token => q = r
           /\ \A q \in wire' : q.kind = "upload" =>
                /\ dev'.journal # None => dev'.journal.token # q.token
                /\ dev'.transaction # q.token
<1>1. dev' = dev
  BY MovesIs DEF ToolStep
<1>2. /\ \A q, r \in wire : q.kind = "upload" /\ r.kind = "upload" /\ q.token = r.token => q = r
      /\ \A q \in wire : q.kind = "upload" =>
           /\ dev.journal # None => dev.journal.token # q.token
           /\ dev.transaction # q.token
  BY DEF TokensSound
<1>3. CASE Silent(p)
  <2>1. \A q \in wire' : \E o \in wire : q.kind = o.kind /\ q.token = o.token
                           /\ q = IF o.from = p THEN [o EXCEPT !.from = None] ELSE o
    BY <1>3, AbandonIs DEF Silent
  <2>2. ASSUME NEW q \in wire', NEW r \in wire', q.kind = "upload", r.kind = "upload", q.token = r.token
        PROVE  q = r
    <3>1. PICK o \in wire : q.kind = o.kind /\ q.token = o.token
                           /\ q = IF o.from = p THEN [o EXCEPT !.from = None] ELSE o
      BY <2>1
    <3>2. PICK m \in wire : r.kind = m.kind /\ r.token = m.token
                           /\ r = IF m.from = p THEN [m EXCEPT !.from = None] ELSE m
      BY <2>1
    <3>3. o = m
      BY <1>2, <2>2, <3>1, <3>2
    <3> QED BY <3>1, <3>2, <3>3
  <2>3. \A q \in wire' : q.kind = "upload" =>
                /\ dev'.journal # None => dev'.journal.token # q.token
                /\ dev'.transaction # q.token
    BY <1>1, <1>2, <2>1
  <2> QED BY <2>2, <2>3
<1>4. CASE \E kind \in Kind, token \in Token \cup {None} : Sends(p, kind, token)
  <2>1. PICK kind \in Kind, token \in Token \cup {None} : Sends(p, kind, token)
    BY <1>4
  <2>2. PICK n \in Request : wire' = wire \cup {n} /\ n.kind = kind /\ n.token = token
    BY <2>1, SendIs DEF Sends
  <2>3. CASE kind = "upload"
    <3>1. pc[p] = "upload" /\ token = job[p].token
      BY <2>1, <2>3 DEF Sends
    <3>2. token = Unsent(p)
      BY <3>1 DEF Unsent
    <3>3. token # None
      BY <3>1 DEF TokensSound
    <3>4. ~InUse(token)
      BY <3>2, <3>3 DEF TokensSound
    <3> QED BY <1>1, <1>2, <2>2, <3>4 DEF InUse
  <2>4. CASE kind # "upload"
    BY <1>1, <1>2, <2>2, <2>4
  <2> QED BY <2>3, <2>4
<1> QED BY <1>3, <1>4 DEF ToolStep

LEMMA StepKeepsTokensSound ==
    ASSUME DeviceTypeOK, TokensSound, NEW p \in Tool, ToolStep(p), TokenMoves(p)
    PROVE  TokensSound'
<1>1. /\ opened' = opened /\ program' = program
      /\ \A q \in Tool \ {p} : pc'[q] = pc[q] /\ job'[q] = job[q]
  BY MovesIs DEF ToolStep
<1>2. reply'[p] = None /\ \A q \in Tool \ {p} : reply'[q] = reply[q]
  BY StepKeepsDeviceType
<1>3. Issued' = Issued
  BY <1>1 DEF Issued
<1>4. \A q \in Tool : q # p => Unsent(q)' = Unsent(q)
  BY <1>1, <1>2 DEF Unsent
<1>5. Unsent(p)' \in {None, Unsent(p)} /\ (pc[p] = "upload" => Unsent(p)' = None)
  BY DEF TokenMoves, UnsentMoves
<1>6. \A q \in Tool : Unsent(q)' # None => Unsent(q)' = Unsent(q) /\ Unsent(q) # None
  BY <1>4, <1>5
<1>7. \A t : InUse(t)' => InUse(t) \/ (t = Unsent(p) /\ Unsent(p)' = None)
  BY InUseGrows
<1>8. ASSUME NEW q \in Tool, Unsent(q)' # None
      PROVE  /\ Unsent(q) \in Issued /\ ~InUse(Unsent(q))'
             /\ \A r \in Tool \ {q} : Unsent(r)' # Unsent(q)
             /\ file' # None /\ file'.token = Unsent(q) => lock' = q /\ pc'[q] = "upload"
             /\ fence' \notin {None, R!Torn} /\ fence'.token = Unsent(q) =>
                  program[q] = "remote" /\ pc'[q] = "upload"
  <2>1. Unsent(q)' = Unsent(q) /\ Unsent(q) # None
    BY <1>6, <1>8
  <2>2. /\ Unsent(q) \in Issued /\ ~InUse(Unsent(q))
        /\ \A r \in Tool \ {q} : Unsent(r) # Unsent(q)
        /\ file # None /\ file.token = Unsent(q) => lock = q /\ pc[q] = "upload"
        /\ fence \notin {None, R!Torn} /\ fence.token = Unsent(q) =>
             program[q] = "remote" /\ pc[q] = "upload"
    BY <2>1 DEF TokensSound
  <2>3. \A r \in Tool \ {q} : Unsent(r)' # Unsent(q)
    BY <1>4, <1>5, <2>1, <2>2
  <2>4. ~InUse(Unsent(q))'
    <3>1. Unsent(q) = Unsent(p) /\ Unsent(p)' = None => FALSE
      BY <1>8, <2>1, <2>2
    <3>2. \A t : InUse(t)' <=> \/ dev'.journal # None /\ dev'.journal.token = t
                               \/ dev'.transaction = t
                               \/ \E m \in wire' : m.kind = "upload" /\ m.token = t
      BY DEF InUse
    <3>3. InUse(Unsent(q))' <=> \/ dev'.journal # None /\ dev'.journal.token = Unsent(q)'
                               \/ dev'.transaction = Unsent(q)'
                               \/ \E m \in wire' : m.kind = "upload" /\ m.token = Unsent(q)'
      BY DEF InUse
    <3>4. \A t : (\/ dev'.journal # None /\ dev'.journal.token = t
                  \/ dev'.transaction = t
                  \/ \E m \in wire' : m.kind = "upload" /\ m.token = t)
                 => InUse(t) \/ (t = Unsent(p) /\ Unsent(p)' = None)
      BY <1>7, <3>2
    <3> QED BY <2>1, <2>2, <3>1, <3>3, <3>4
  <2>5. file' # None /\ file'.token = Unsent(q) => lock' = q /\ pc'[q] = "upload"
    <3> SUFFICES ASSUME file' # None, file'.token = Unsent(q) PROVE lock' = q /\ pc'[q] = "upload"
      OBVIOUS
    <3>1. CASE file' = file
      <4>1. lock = q /\ pc[q] = "upload"
        BY <2>2, <3>1
      <4>2. q # p
        BY <1>5, <1>8, <4>1
      <4>3. lock # None
        BY <4>1, BridgeReleases
      <4>4. lock' = lock
        BY <4>1, <4>2, <4>3 DEF TokenMoves
      <4> QED BY <1>1, <4>1, <4>2, <4>4
    <3>2. CASE file'.token = None
      BY <2>1, <3>2
    <3>3. CASE file'.token = Unsent(p) /\ lock' = p /\ pc'[p] = "upload"
      <4>1. q = p
        BY <2>2, <3>3
      <4> QED BY <3>3, <4>1
    <3>4. CASE \A r \in Tool : Unsent(r) # file'.token
      BY <3>4
    <3> QED BY <3>1, <3>2, <3>3, <3>4 DEF TokenMoves
  <2>6. fence' \notin {None, R!Torn} /\ fence'.token = Unsent(q) =>
          program[q] = "remote" /\ pc'[q] = "upload"
    <3> SUFFICES ASSUME fence' \notin {None, R!Torn}, fence'.token = Unsent(q)
                 PROVE  program[q] = "remote" /\ pc'[q] = "upload"
      OBVIOUS
    <3>1. CASE fence' = fence
      <4>1. program[q] = "remote" /\ pc[q] = "upload"
        BY <2>2, <3>1
      <4>2. q # p
        BY <1>5, <1>8, <4>1
      <4> QED BY <1>1, <4>1, <4>2
    <3>2. CASE fence'.token = None
      BY <2>1, <3>2
    <3>3. CASE fence'.token = Unsent(p) /\ program[p] = "remote" /\ pc'[p] = "upload"
      <4>1. q = p
        BY <2>2, <3>3
      <4> QED BY <3>3, <4>1
    <3>4. CASE \A r \in Tool : Unsent(r) # fence'.token
      BY <3>4
    <3> QED BY <3>1, <3>2, <3>3, <3>4 DEF TokenMoves
  <2> QED BY <2>2, <2>3, <2>4, <2>5, <2>6
<1>9. ASSUME NEW q \in Tool
      PROVE  /\ pc'[q] \in {"read", "preflight", "intend", "check", "reserve", "fill", "recheck",
                            "prepare", "preparing"} => job'[q].token = None
             /\ job'[q].token # None => job'[q].token \in Issued
             /\ pc'[q] \in {"save", "upload"} => job'[q].token # None
             /\ pc'[q] \in {"fail", "valid"} /\ job'[q].token # None =>
                  \A r \in Tool : Unsent(r)' # job'[q].token
  <2>1. CASE q = p
    <3>1. pc'[p] \in {"fail", "valid"} => Unsent(p)' = None
      BY DEF Unsent
    <3> QED BY <1>4, <2>1, <3>1 DEF TokenMoves, UnsentMoves
  <2>2. CASE q # p
    <3>1. pc'[q] = pc[q] /\ job'[q] = job[q]
      BY <1>1, <2>2
    <3>2. pc[q] \in {"fail", "valid"} /\ job[q].token # None =>
            \A r \in Tool : Unsent(r) # job[q].token
      BY DEF TokensSound
    <3>3. pc[q] \in {"fail", "valid"} /\ job[q].token # None =>
            \A r \in Tool : Unsent(r)' # job[q].token
      BY <1>4, <1>5, <3>2
    <3> QED BY <3>1, <3>3 DEF TokensSound
  <2> QED BY <2>1, <2>2
<1>10. /\ file' # None /\ file'.token # None => file'.token \in Issued
       /\ fence' \notin {None, R!Torn} /\ fence'.token # None => fence'.token \in Issued
  <2>1. Unsent(p) # None => Unsent(p) \in Issued
    BY UnsentIsIssued
  <2> QED BY <2>1 DEF TokenMoves, TokensSound
<1>11. R!Torn' = R!Torn
  BY DEF R!Torn
<1>12. /\ \A q, r \in wire' : q.kind = "upload" /\ r.kind = "upload" /\ q.token = r.token => q = r
       /\ \A q \in wire' : q.kind = "upload" =>
            /\ dev'.journal # None => dev'.journal.token # q.token
            /\ dev'.transaction # q.token
  BY StepKeepsUploads
<1> HIDE DEF Unsent, InUse, Issued
<1>13. \A q \in Tool : Unsent(q)' # None =>
         /\ Unsent(q)' \in Issued' /\ ~InUse(Unsent(q))'
         /\ \A r \in Tool \ {q} : Unsent(r)' # Unsent(q)'
         /\ file' # None /\ file'.token = Unsent(q)' => lock' = q /\ pc'[q] = "upload"
         /\ fence' \notin {None, R!Torn'} /\ fence'.token = Unsent(q)' =>
              program'[q] = "remote" /\ pc'[q] = "upload"
  BY <1>1, <1>3, <1>6, <1>8, <1>11
<1> QED BY <1>3, <1>9, <1>10, <1>11, <1>12, <1>13 DEF TokensSound

-----------------------------------------------------------------------------
(* A step of one program preserves what concerns the other.                *)

LEMMA RequestsOfOthers ==
    ASSUME DeviceTypeOK, WireSound, NEW p \in Tool, ToolStep(p), NEW q \in wire', q.by # program[p]
    PROVE  q \in wire
<1>1. CASE Silent(p)
  <2>1. PICK o \in wire : q.by = o.by /\ q = IF o.from = p THEN [o EXCEPT !.from = None] ELSE o
    BY <1>1, AbandonIs DEF Silent
  <2>2. o.from = p => o.by = program[p]
    <3>1. p # None
      BY BridgeReleases
    <3> QED BY <3>1 DEF WireSound
  <2> QED BY <2>1, <2>2
<1>2. CASE \E kind \in Kind, token \in Token \cup {None} : Sends(p, kind, token)
  BY <1>2, SendIs DEF Sends
<1> QED BY <1>1, <1>2 DEF ToolStep

\* The history of a record only grows with what the holder of its token sends.
LEMMA RecordedInUse ==
    ASSUME DeviceTypeOK, NEW p \in Tool, ToolStep(p), NEW t, t # Unsent(p) \/ pc[p] # "upload"
    PROVE  InUse(t)' => InUse(t)
BY InUseGrows

LEMMA ControllerKeepsRemoteSound ==
    ASSUME DeviceTypeOK, RemoteSound, NEW p \in Tool, ToolStep(p), program[p] = "controller", fence' = fence
    PROVE  RemoteSound'
<1>1. /\ program' = program /\ confirmed' = confirmed
      /\ \A q \in Tool \ {p} : pc'[q] = pc[q] /\ job'[q] = job[q]
  BY MovesIs DEF ToolStep
<1>2. \A q \in Tool : program[q] = "remote" => RemoteAt(q)'
  BY <1>1 DEF RemoteSound, RemoteAt, Newer
<1>3. ValidRecorded'
  BY <1>1 DEF RemoteSound, ValidRecorded, R!Torn
<1> HIDE DEF RemoteAt, ValidRecorded
<1> QED BY <1>1, <1>2, <1>3 DEF RemoteSound

LEMMA ControllerKeepsFenceSound ==
    ASSUME DeviceTypeOK, FenceSound, NEW p \in Tool, ToolStep(p), program[p] = "controller", fence' = fence
    PROVE  FenceSound'
<1>1. /\ program' = program
      /\ \A q \in Tool \ {p} : pc'[q] = pc[q] /\ job'[q] = job[q]
  BY MovesIs DEF ToolStep
<1>2. \A q \in Tool : (Owns(q)' <=> Owns(q)) /\ (Looks(q)' <=> Looks(q))
  BY <1>1 DEF Owns, Looks
<1>3. \A q \in Tool : FenceAt(q)'
  <2> SUFFICES ASSUME NEW q \in Tool PROVE FenceAt(q)'
    OBVIOUS
  <2>1. CASE Owns(q) \/ Looks(q)
    <3>1. pc'[q] = pc[q] /\ job'[q] = job[q]
      BY <1>1, <2>1 DEF Owns, Looks
    <3> QED BY <1>1, <1>2, <3>1 DEF FenceSound, FenceAt, R!Torn
  <2>2. CASE ~(Owns(q) \/ Looks(q))
    BY <1>2, <2>2 DEF FenceAt
  <2> QED BY <2>1, <2>2
<1> HIDE DEF FenceAt, Owns
<1> QED BY <1>1, <1>2, <1>3 DEF FenceSound, R!Torn

LEMMA ControllerKeepsDeliveredSound ==
    ASSUME DeviceTypeOK, DeviceSound, WireSound, TokensSound, FenceSound, DeliveredSound, NEW p \in Tool,
           ToolStep(p), program[p] = "controller", fence' = fence, delivered' = delivered
    PROVE  DeliveredSound'
<1>1. /\ program' = program
      /\ \A q \in Tool \ {p} : pc'[q] = pc[q] /\ job'[q] = job[q]
  BY MovesIs DEF ToolStep
<1>2. \A q \in Tool \ {p} : reply'[q] = reply[q]
  BY StepKeepsDeviceType
<1>3. \A q \in wire' : q.by = "remote" => q \in wire
  BY RequestsOfOthers
<1>4. \A q \in Tool : Owns(q)' <=> Owns(q)
  BY <1>1 DEF Owns
<1>5. RemoteWire'
  <2>1. \A q \in Tool : Owns(q) => pc'[q] = pc[q] /\ reply'[q] = reply[q]
    BY <1>1, <1>2 DEF Owns
  <2>2. R!Torn' = R!Torn
    BY DEF R!Torn
  <2> HIDE DEF Owns
  <2> QED BY <1>3, <1>4, <2>1, <2>2 DEF RemoteWire, DeliveredSound
<1>6. \A r \in Release : Behind(r)' <=> Behind(r)
  BY StepKeepsDeviceSound
<1>7. DeliveredCounts'
  <2>1. Fenced' = Fenced
    BY DEF Fenced, R!Torn
  <2>2. fence \notin {None, R!Torn} /\ fence.token # None => (InUse(fence.token)' => InUse(fence.token))
    <3> SUFFICES ASSUME fence \notin {None, R!Torn}, fence.token # None
                 PROVE  InUse(fence.token)' => InUse(fence.token)
      OBVIOUS
    <3>1. fence.token # Unsent(p)
      BY DEF TokensSound
    <3>2. \A t : t = fence.token => (InUse(t)' => InUse(t))
      BY <3>1, RecordedInUse
    <3> QED BY <3>2 DEF InUse
  <2>3. R!Torn' = R!Torn
    BY DEF R!Torn
  <2> HIDE DEF InUse, Behind, Fenced
  <2> QED BY <1>6, <2>1, <2>2, <2>3 DEF DeliveredCounts, DeliveredSound
<1>8. \A q \in Tool : program[q] = "remote" => DeliveredAt(q)'
  <2> SUFFICES ASSUME NEW q \in Tool, program[q] = "remote" PROVE DeliveredAt(q)'
    OBVIOUS
  <2>1. pc'[q] = pc[q] /\ job'[q] = job[q]
    BY <1>1
  <2>2. Behind(job[q].release) <=> Behind(job[q].release)'
    <3>1. job[q].release \in Release
      BY JobFields DEF DeviceTypeOK
    <3> QED BY <1>6, <2>1, <3>1 DEF Behind, Floor
  <2> HIDE DEF Behind
  <2> QED BY <1>3, <2>1, <2>2 DEF DeliveredAt, DeliveredSound
<1> HIDE DEF RemoteWire, DeliveredCounts, DeliveredAt
<1> QED BY <1>1, <1>5, <1>7, <1>8 DEF DeliveredSound

LEMMA RemoteKeepsLockSound ==
    ASSUME DeviceTypeOK, LockSound, NEW p \in Tool, ToolStep(p), program[p] = "remote",
           lock' = lock, file' = file
    PROVE  LockSound'
<1>1. /\ program' = program
      /\ \A q \in Tool \ {p} : pc'[q] = pc[q] /\ job'[q] = job[q]
  BY MovesIs DEF ToolStep
<1>2. lock # None => lock # p /\ pc'[lock] # "idle" /\ program[lock] = "controller"
  <2>1. CASE lock \in Tool
    BY <1>1, <2>1 DEF LockSound
  <2>2. CASE lock \notin Tool
    BY <2>2, <1>1 DEF LockSound, DeviceTypeOK, Moves, ToolStep
  <2> QED BY <2>1, <2>2
<1>3. \A q \in Tool : program[q] = "controller" /\ pc'[q] # "idle" => lock = q /\ LockAt(q)'
  BY <1>1 DEF LockSound, LockAt, InProgress
<1> HIDE DEF LockAt
<1> QED BY <1>1, <1>2, <1>3 DEF LockSound

LEMMA RemoteKeepsSentSound ==
    ASSUME DeviceTypeOK, C!ControllerTypeOK, DeviceSound, WireSound, TokensSound, LockSound, SentSound,
           NEW p \in Tool, ToolStep(p), program[p] = "remote", lock' = lock, file' = file, sent' = sent
    PROVE  SentSound'
<1>1. /\ program' = program /\ confirmed' = confirmed
      /\ \A q \in Tool \ {p} : pc'[q] = pc[q] /\ job'[q] = job[q]
  BY MovesIs DEF ToolStep
<1>2. \A q \in Tool \ {p} : reply'[q] = reply[q]
  BY StepKeepsDeviceType
<1>3. \A q \in wire' : q.by = "controller" => q \in wire
  BY RequestsOfOthers
<1>4. lock # None => lock \in Tool \ {p}
  BY DEF LockSound, C!ControllerTypeOK
<1>5. ControllerWire'
  <2>1. lock # None => pc'[lock] = pc[lock] /\ reply'[lock] = reply[lock]
    BY <1>1, <1>2, <1>4
  <2> QED BY <1>3, <2>1 DEF ControllerWire, SentSound
<1>6. \A r \in Release : Behind(r)' <=> Behind(r)
  BY StepKeepsDeviceSound
<1>7. SentCounts'
  <2>1. Controlled' = Controlled
    BY DEF Controlled
  <2>2. file # None /\ file.token # None => (InUse(file.token)' => InUse(file.token))
    <3> SUFFICES ASSUME file # None, file.token # None
                 PROVE  InUse(file.token)' => InUse(file.token)
      OBVIOUS
    <3>0. p # None
      BY BridgeReleases
    <3>1. file.token # Unsent(p)
      BY <1>4, <3>0 DEF TokensSound
    <3>2. \A t : t = file.token => (InUse(t)' => InUse(t))
      BY <3>1, RecordedInUse
    <3> QED BY <3>2 DEF InUse
  <2> HIDE DEF InUse, Behind, Controlled
  <2> QED BY <1>6, <2>1, <2>2 DEF SentCounts, SentSound
<1>8. \A q \in Tool : program[q] = "controller" => SentAt(q)'
  <2> SUFFICES ASSUME NEW q \in Tool, program[q] = "controller" PROVE SentAt(q)'
    OBVIOUS
  <2>1. pc'[q] = pc[q] /\ job'[q] = job[q]
    BY <1>1
  <2>2. Behind(job[q].release) <=> Behind(job[q].release)'
    <3>1. job[q].release \in Release
      BY JobFields DEF DeviceTypeOK
    <3> QED BY <1>6, <2>1, <3>1 DEF Behind, Floor
  <2> HIDE DEF Behind
  <2> QED BY <1>1, <1>3, <2>1, <2>2 DEF SentAt, SentSound
<1>9. SuccessRecorded'
  BY <1>1 DEF SuccessRecorded, SentSound
<1> HIDE DEF ControllerWire, SentCounts, SentAt, SuccessRecorded
<1> QED BY <1>1, <1>5, <1>7, <1>8, <1>9 DEF SentSound

-----------------------------------------------------------------------------
(* The steps of the controller.                                            *)

LEMMA NoJobIsJob ==
    /\ NoJob \in Job /\ NoJob.token = None /\ C!NoJob = NoJob /\ R!NoJob = NoJob
BY BridgeReleases DEF NoJob, Job, C!NoJob, R!NoJob

LEMMA SameNetwork ==
    ASSUME NEW p
    PROVE  /\ C!Abandon(p) <=> Abandon(p)
           /\ R!Abandon(p) <=> Abandon(p)
           /\ \A kind, token : C!Send(p, kind, token) <=> Send(p, kind, token)
           /\ \A kind, token : R!Send(p, kind, token) <=> Send(p, kind, token)
BY DEF C!Abandon, R!Abandon, C!Send, R!Send, Abandon, Send

LEMMA MovesBy ==
    ASSUME DeviceTypeOK, NEW p \in Tool, UNCHANGED device, program' = program,
           crashes' \in 0 .. MaxCrashes, NEW s \in Step, pc' = [pc EXCEPT ![p] = s],
           NEW j \in Job, job' = [job EXCEPT ![p] = j] \/ (job' = job /\ j = job[p])
    PROVE  Moves(p) /\ pc'[p] = s /\ job'[p] = j
<1>1. pc \in [Tool -> Step] /\ job \in [Tool -> Job]
  BY DEF DeviceTypeOK
<1>2. job' = [job EXCEPT ![p] = j]
  BY <1>1
<1> QED BY <1>1, <1>2 DEF Moves, device

\* What each step of the controller has to keep, beside what the device and
\* the wire ask of every tool.
ControllerShot == ControllerDeployment!Next \/ UNCHANGED <<Controlled, sent>>
QuarantineKept ==
    C!Quarantined =>
        /\ file' = file
        /\ \A q \in wire' \ wire : q.from = None \/ q.by = "remote"
ControllerEffect(p) ==
    /\ ToolStep(p) /\ TokenMoves(p)
    /\ C!ControllerTypeOK' /\ LockSound' /\ SentSound'
    /\ ControllerShot /\ QuarantineKept

\* A controller that runs holds the lock, and it is the only one.
LEMMA RunnerHoldsLock ==
    ASSUME MacInv, NEW p \in Tool, program[p] = "controller", pc[p] # "idle"
    PROVE  lock = p /\ LockAt(p) /\ \A q \in Tool \ {p} : program[q] = "controller" => pc[q] = "idle"
BY DEF MacInv, LockSound

LEMMA LockStep ==
    ASSUME DeviceTypeOK, LockSound, NEW p \in Tool, Moves(p), program[p] = "controller",
           lock = p \/ (lock = None /\ pc[p] = "idle"),
           \/ pc'[p] = "idle" /\ lock' = None
           \/ pc'[p] # "idle" /\ lock' = p /\ LockAt(p)'
    PROVE  LockSound' /\ \A q \in Tool \ {p} : program[q] = "controller" => pc'[q] = "idle"
<1>1. program' = program /\ \A q \in Tool \ {p} : pc'[q] = pc[q]
  BY MovesIs
<1>2. \A q \in Tool \ {p} : program[q] = "controller" => pc[q] = "idle"
  BY BridgeReleases DEF LockSound
<1>3. p # None
  BY BridgeReleases
<1> HIDE DEF LockAt
<1> QED BY <1>1, <1>2, <1>3 DEF LockSound

\* A step that leaves the state file alone and sends nothing.
LEMMA ControllerQuiet ==
    ASSUME MacInv, NEW p \in Tool, program[p] = "controller", Moves(p), Silent(p),
           file' = file, sent' = sent, fence' = fence,
           lock = p \/ (lock = None /\ pc[p] = "idle"),
           \/ pc'[p] = "idle" /\ lock' = None
           \/ pc'[p] # "idle" /\ lock' = p /\ LockAt(p)',
           UnsentMoves(p), SentAt(p)',
           (\E q \in wire : q.by = "controller" /\ q.kind = "prepare")
             /\ file # None /\ file.status = "IN_PROGRESS" => pc'[p] \in {"idle", "read", "fail"}
    PROVE  ControllerEffect(p)
<1>1. /\ DeviceTypeOK /\ C!ControllerTypeOK /\ DeviceSound /\ WireSound /\ TokensSound /\ LockSound
      /\ SentSound
  BY DEF MacInv, MacToolsTypeOK
<1>2. ToolStep(p)
  BY DEF ToolStep
<1>3. TokenMoves(p)
  BY DEF TokenMoves
<1>4. C!ControllerTypeOK'
  BY <1>1 DEF C!ControllerTypeOK, C!Record, C!Token
<1>5. LockSound' /\ \A q \in Tool \ {p} : program[q] = "controller" => pc'[q] = "idle"
  BY <1>1, LockStep
<1>6. /\ program' = program /\ confirmed' = confirmed /\ dev' = dev
  BY <1>1, MovesIs
<1>7. \A q \in wire' : \E o \in wire : q.kind = o.kind /\ q.by = o.by /\ q.release = o.release
                                       /\ q.token = o.token
  BY <1>1, AbandonIs DEF Silent
<1>8. ControllerWire'
  <2>1. /\ lock' # None => lock' = p
        /\ pc'[p] \notin Waiting
    BY BridgeReleases DEF Silent
  <2> SUFFICES ASSUME NEW q \in wire', q.by = "controller", q.kind \in {"prepare", "upload"}
               PROVE  /\ file # None /\ file.release = q.release /\ file.status # "SUCCESS"
                      /\ file.status = "IN_PROGRESS" /\ q.kind = "prepare" =>
                           /\ file.token = None
                           /\ lock' # None => pc'[p] \in {"read", "fail"}
                      /\ file.status = "IN_PROGRESS" /\ q.kind = "upload" => q.token = file.token
    BY <2>1 DEF ControllerWire, Waiting
  <2>2. PICK o \in wire : q.kind = o.kind /\ q.by = o.by /\ q.release = o.release /\ q.token = o.token
    BY <1>7
  <2>3. ControllerWire
    BY <1>1 DEF SentSound
  <2>4. /\ file # None /\ file.release = o.release /\ file.status # "SUCCESS"
        /\ file.status = "IN_PROGRESS" /\ o.kind = "prepare" => file.token = None
        /\ file.status = "IN_PROGRESS" /\ o.kind = "upload" => o.token = file.token
    BY <2>2, <2>3 DEF ControllerWire
  <2>5. file.status = "IN_PROGRESS" /\ o.kind = "prepare" /\ lock' # None => pc'[p] \in {"read", "fail"}
    BY <2>2, <2>4
  <2> QED BY <2>2, <2>4, <2>5
<1>9. \A r \in Release : Behind(r)' <=> Behind(r)
  BY <1>1, <1>2, StepKeepsDeviceSound
<1>10. Controlled' = Controlled
  BY DEF Controlled
<1>11. SentCounts'
  <2>1. InUse(file.token)' => InUse(file.token)
    <3>1. dev' = dev
      BY <1>6
    <3> QED BY <1>7, <3>1 DEF InUse
  <2> HIDE DEF InUse, Behind, Controlled
  <2> QED BY <1>1, <1>9, <1>10, <2>1 DEF SentCounts, SentSound
<1>12. \A q \in Tool : program[q] = "controller" => SentAt(q)'
  BY <1>5 DEF SentAt
<1>13. SuccessRecorded'
  BY <1>1, <1>6 DEF SuccessRecorded, SentSound
<1>14. SentSound'
  <2> HIDE DEF ControllerWire, SentCounts, SentAt, SuccessRecorded
  <2> QED BY <1>6, <1>8, <1>11, <1>12, <1>13 DEF SentSound
<1>15. ControllerShot
  BY <1>10 DEF ControllerShot
<1>16. QuarantineKept
  BY <1>1, AbandonIs DEF QuarantineKept, Silent
<1> QED BY <1>2, <1>3, <1>4, <1>5, <1>14, <1>15, <1>16 DEF ControllerEffect

\* The process ends or is ended, whatever it was doing.
LEMMA ControllerLeaves ==
    ASSUME MacInv, NEW p \in Tool, program[p] = "controller", pc[p] # "idle", Moves(p), Abandon(p),
           pc'[p] = "idle", job'[p].token = None, lock' = None,
           file' = file, sent' = sent, fence' = fence
    PROVE  ControllerEffect(p)
<1>1. lock = p
  BY RunnerHoldsLock
<1>2. Silent(p)
  BY DEF Silent, Waiting
<1>3. UnsentMoves(p)
  BY DEF UnsentMoves, Unsent
<1>4. SentAt(p)'
  BY DEF SentAt
<1> QED BY <1>1, <1>2, <1>3, <1>4, ControllerQuiet

ControllerFrame(p) == program[p] = "controller" /\ UNCHANGED <<fence, delivered, archives>>

\* What holds of a controller that is about to make a step.
LEMMA ControllerIsReady ==
    ASSUME MacInv, NEW p \in Tool, program[p] = "controller"
    PROVE  /\ DeviceTypeOK /\ C!ControllerTypeOK /\ DeviceSound /\ WireSound /\ TokensSound
           /\ LockSound /\ SentSound /\ SentAt(p) /\ job[p] \in Job /\ pc[p] \in Step
           /\ crashes \in 0 .. MaxCrashes /\ p # None
BY BridgeReleases DEF MacInv, MacToolsTypeOK, SentSound, DeviceTypeOK

LEMMA InvokeEffect ==
    ASSUME MacInv, NEW p \in Tool, NEW r \in Release, ControllerFrame(p), C!Invoke(p, r)
    PROVE  ControllerEffect(p)
<1>1. program[p] = "controller" /\ fence' = fence
  BY DEF ControllerFrame
<1>2. DeviceTypeOK /\ WireSound /\ crashes \in 0 .. MaxCrashes
  BY <1>1, ControllerIsReady
<1> DEFINE j == [NoJob EXCEPT !.release = r]
<1>3. j \in Job /\ j.token = None
  BY NoJobIsJob DEF Job, NoJob
<1>4. /\ pc[p] = "idle" /\ lock = None /\ lock' = p /\ job' = [job EXCEPT ![p] = j]
      /\ pc' = [pc EXCEPT ![p] = "read"] /\ UNCHANGED <<device, network>>
      /\ program' = program /\ crashes' = crashes /\ file' = file /\ sent' = sent
  BY NoJobIsJob DEF C!Invoke, C!Goto, C!device, C!network, device, network
<1> HIDE DEF j
<1>5. Moves(p) /\ pc'[p] = "read" /\ job'[p] = j
  BY <1>2, <1>3, <1>4, MovesBy DEF Step
<1>6. Silent(p)
  BY <1>2, <1>4, <1>5, IdleAbandons DEF Silent, Waiting
<1>7. UnsentMoves(p)
  BY <1>3, <1>4, <1>5 DEF UnsentMoves, Unsent
<1>8. LockAt(p)' /\ SentAt(p)'
  BY <1>5 DEF LockAt, SentAt
<1> QED BY <1>1, <1>4, <1>5, <1>6, <1>7, <1>8, ControllerQuiet

LEMMA ReadStateEffect ==
    ASSUME MacInv, NEW p \in Tool, ControllerFrame(p), C!ReadState(p)
    PROVE  ControllerEffect(p)
<1>1. program[p] = "controller" /\ fence' = fence
  BY DEF ControllerFrame
<1>2. /\ DeviceTypeOK /\ WireSound /\ TokensSound /\ SentSound /\ crashes \in 0 .. MaxCrashes
      /\ job[p] \in Job /\ C!ControllerTypeOK
  BY <1>1, ControllerIsReady
<1>3. /\ pc[p] = "read" /\ UNCHANGED <<device, network>>
      /\ program' = program /\ crashes' = crashes /\ file' = file /\ sent' = sent
  BY DEF C!ReadState, C!device, C!network, device, network
<1>4. Abandon(p)
  BY <1>2, <1>3, IdleAbandons DEF Waiting
<1>5. lock = p /\ job[p].token = None
  BY <1>1, <1>2, <1>3, RunnerHoldsLock DEF TokensSound
<1>6. CASE C!Blocked(p) /\ C!Leave(p)
  <2>1. /\ pc' = [pc EXCEPT ![p] = "idle"] /\ job' = [job EXCEPT ![p] = NoJob] /\ lock' = None
    BY <1>5, <1>6, NoJobIsJob DEF C!Leave
  <2>2. Moves(p) /\ pc'[p] = "idle" /\ job'[p] = NoJob
    BY <1>2, <1>3, <2>1, MovesBy, NoJobIsJob DEF Step
  <2> QED BY <1>1, <1>3, <1>4, <2>1, <2>2, ControllerLeaves, NoJobIsJob
<1>7. CASE /\ ~C!Blocked(p) /\ C!Unfinished
           /\ job' = [job EXCEPT ![p].token = file.token]
           /\ C!Goto(p, C!Resume(p))
           /\ UNCHANGED lock
  <2> DEFINE j == [job[p] EXCEPT !.token = file.token]
  <2>1. /\ file # None /\ file.status = "IN_PROGRESS" /\ file.release = job[p].release
        /\ file.token # None
    BY <1>7 DEF C!Blocked, C!Unfinished, C!Quarantined
  <2>2. file \in C!Record /\ file.token \in Token
    BY <1>2, <2>1, RecordFields DEF C!ControllerTypeOK
  <2>3. /\ j \in Job /\ j.token = file.token /\ j.release = job[p].release
    BY <1>2, <2>2 DEF Job
  <2>4. job' = [job EXCEPT ![p] = j] /\ pc' = [pc EXCEPT ![p] = "poll"] /\ lock' = p
    BY <1>2, <1>5, <1>7 DEF C!Goto, C!Resume, DeviceTypeOK
  <2> HIDE DEF j
  <2>5. Moves(p) /\ pc'[p] = "poll" /\ job'[p] = j
    BY <1>2, <1>3, <2>3, <2>4, MovesBy DEF Step
  <2>6. Silent(p)
    BY <1>4, <2>5 DEF Silent, Waiting
  <2>7. file.token \in Issued
    BY <1>2, <2>1 DEF TokensSound
  <2>8. UnsentMoves(p)
    BY <1>3, <2>3, <2>5, <2>7 DEF UnsentMoves, Unsent
  <2>9. LockAt(p)'
    <3>1. file = [status |-> "IN_PROGRESS", release |-> file.release, token |-> file.token]
      BY <2>1, <2>2 DEF C!Record
    <3> QED BY <1>3, <2>1, <2>3, <2>5, <3>1 DEF LockAt, InProgress
  <2>10. SentAt(p)'
    BY <2>5 DEF SentAt
  <2>11. ~\E q \in wire : q.by = "controller" /\ q.kind = "prepare"
    BY <1>2, <2>1 DEF SentSound, ControllerWire
  <2> QED BY <1>1, <1>3, <1>5, <2>4, <2>5, <2>6, <2>8, <2>9, <2>10, <2>11, ControllerQuiet
<1>8. CASE /\ ~C!Blocked(p) /\ ~C!Unfinished
           /\ C!Goto(p, "preflight")
           /\ UNCHANGED <<job, lock>>
  <2>1. Moves(p) /\ pc'[p] = "preflight" /\ job'[p] = job[p]
    <3>1. /\ UNCHANGED device /\ program' = program /\ crashes' \in 0 .. MaxCrashes
          /\ job' = job /\ pc' = [pc EXCEPT ![p] = "preflight"] /\ "preflight" \in Step
      BY <1>2, <1>3, <1>8 DEF C!Goto, Step
    <3> HIDE DEF Step
    <3> QED BY <1>2, <3>1, MovesBy
  <2>2. Silent(p)
    BY <1>4, <2>1 DEF Silent, Waiting
  <2>3. UnsentMoves(p)
    BY <1>3, <1>5, <2>1 DEF UnsentMoves, Unsent
  <2>4. file = None \/ file.status = "SUCCESS"
    <3>1. file # None => file.status \in {"IN_PROGRESS", "SUCCESS", "FAILED"}
      BY <1>2, RecordFields DEF C!ControllerTypeOK
    <3> QED BY <1>8, <3>1 DEF C!Blocked, C!Unfinished, C!Quarantined
  <2>5. LockAt(p)' /\ SentAt(p)'
    BY <1>3, <2>1, <2>4 DEF LockAt, SentAt
  <2> QED BY <1>1, <1>3, <1>5, <1>8, <2>1, <2>2, <2>3, <2>4, <2>5, ControllerQuiet
<1> QED BY <1>6, <1>7, <1>8 DEF C!ReadState

LEMMA PreflightEffect ==
    ASSUME MacInv, NEW p \in Tool, ControllerFrame(p), C!Preflight(p)
    PROVE  ControllerEffect(p)
<1>1. program[p] = "controller" /\ fence' = fence
  BY DEF ControllerFrame
<1>2. /\ DeviceTypeOK /\ WireSound /\ TokensSound /\ SentSound /\ crashes \in 0 .. MaxCrashes
      /\ job[p] \in Job /\ DeviceSound
  BY <1>1, ControllerIsReady
<1>3. /\ pc[p] = "preflight" /\ UNCHANGED <<device, network>>
      /\ program' = program /\ crashes' = crashes /\ file' = file /\ sent' = sent
  BY DEF C!Preflight, C!device, C!network, device, network
<1>4. Abandon(p)
  BY <1>2, <1>3, IdleAbandons DEF Waiting
<1>5. lock = p /\ job[p].token = None /\ LockAt(p)
  BY <1>1, <1>2, <1>3, RunnerHoldsLock DEF TokensSound
<1>6. CASE C!Leave(p)
  <2>1. /\ pc' = [pc EXCEPT ![p] = "idle"] /\ job' = [job EXCEPT ![p] = NoJob] /\ lock' = None
    BY <1>5, <1>6, NoJobIsJob DEF C!Leave
  <2>2. Moves(p) /\ pc'[p] = "idle" /\ job'[p] = NoJob
    BY <1>2, <1>3, <2>1, MovesBy, NoJobIsJob DEF Step
  <2> QED BY <1>1, <1>3, <1>4, <2>1, <2>2, ControllerLeaves, NoJobIsJob
<1>7. CASE /\ C!Deployable(job[p].release)
           /\ job' = [job EXCEPT ![p].csrf = boots]
           /\ C!Goto(p, "intend")
           /\ UNCHANGED lock
  <2> DEFINE j == [job[p] EXCEPT !.csrf = boots]
  <2>1. /\ j \in Job /\ j.token = None /\ j.release = job[p].release
    BY <1>2, <1>5 DEF Job, DeviceTypeOK
  <2>2. job' = [job EXCEPT ![p] = j] /\ pc' = [pc EXCEPT ![p] = "intend"] /\ lock' = p
    BY <1>2, <1>5, <1>7 DEF C!Goto, DeviceTypeOK
  <2> HIDE DEF j
  <2>3. Moves(p) /\ pc'[p] = "intend" /\ job'[p] = j
    BY <1>2, <1>3, <2>1, <2>2, MovesBy DEF Step
  <2>4. Silent(p)
    BY <1>4, <2>3 DEF Silent, Waiting
  <2>5. UnsentMoves(p)
    BY <1>3, <2>1, <2>3 DEF UnsentMoves, Unsent
  <2>6. file = None \/ file.status = "SUCCESS"
    BY <1>3, <1>5 DEF LockAt
  <2>7. LockAt(p)'
    BY <1>3, <2>3, <2>6 DEF LockAt
  \* A release that the device would still install was never sent.
  <2>8. sent[job[p].release] = 0
    <3>1. Controlled = None /\ job[p].release \in Release /\ job[p].release # None
      BY <1>2, <2>6, BridgeReleases, JobFields DEF Controlled
    <3>2. ~Behind(job[p].release)
      <4>1. VersionOf[dev.build] < VersionOf[job[p].release] /\ dev.state # "PENDING_VERIFY"
        BY <1>7 DEF C!Deployable
      <4>2. VersionOf[dev.build] \in Nat /\ VersionOf[job[p].release] \in Nat
        BY <1>2, <3>1, DevFields, VersionIsNat DEF DeviceTypeOK
      <4> QED BY <4>1, <4>2 DEF Behind, Floor
    <3> QED BY <1>2, <3>1, <3>2 DEF SentSound, SentCounts
  <2>9. SentAt(p)'
    BY <1>3, <2>1, <2>3, <2>8 DEF SentAt
  <2> QED BY <1>1, <1>3, <1>5, <2>2, <2>3, <2>4, <2>5, <2>6, <2>7, <2>9, ControllerQuiet
<1> QED BY <1>6, <1>7 DEF C!Preflight

LEMMA CrashEffect ==
    ASSUME MacInv, NEW p \in Tool, ControllerFrame(p), C!Crash(p)
    PROVE  ControllerEffect(p)
<1>1. program[p] = "controller" /\ fence' = fence
  BY DEF ControllerFrame
<1>2. DeviceTypeOK /\ crashes \in 0 .. MaxCrashes
  BY <1>1, ControllerIsReady
<1>3. /\ pc[p] # "idle" /\ UNCHANGED device /\ Abandon(p) /\ C!Leave(p)
      /\ program' = program /\ crashes' = crashes + 1 /\ crashes < MaxCrashes
      /\ file' = file /\ sent' = sent
  BY SameNetwork DEF C!Crash, C!device, device
<1>4. lock = p
  BY <1>1, <1>3, RunnerHoldsLock
<1>5. crashes' \in 0 .. MaxCrashes
  BY <1>2, <1>3, BridgeReleases
<1>6. /\ pc' = [pc EXCEPT ![p] = "idle"] /\ job' = [job EXCEPT ![p] = NoJob] /\ lock' = None
  BY <1>3, <1>4, NoJobIsJob DEF C!Leave
<1>7. Moves(p) /\ pc'[p] = "idle" /\ job'[p] = NoJob
  BY <1>2, <1>3, <1>5, <1>6, MovesBy, NoJobIsJob DEF Step
<1> QED BY <1>1, <1>3, <1>6, <1>7, ControllerLeaves, NoJobIsJob

\* A state file in progress is a record.
LEMMA InProgressIsRecord ==
    ASSUME NEW r \in Release, NEW t \in Token \cup {None}
    PROVE  /\ InProgress(r, t) \in C!Record /\ InProgress(r, t) # None
           /\ InProgress(r, t).status = "IN_PROGRESS" /\ InProgress(r, t).release = r
           /\ InProgress(r, t).token = t
<1>1. InProgress(r, t) \in C!Record
  BY DEF C!Record, InProgress, C!Token, Token
<1>2. None \notin C!Record
  BY NoRecordIsNone
<1> QED BY <1>1, <1>2 DEF InProgress

LEMMA PreparedEffect ==
    ASSUME MacInv, NEW p \in Tool, ControllerFrame(p), C!Prepared(p)
    PROVE  ControllerEffect(p)
<1>1. program[p] = "controller" /\ fence' = fence
  BY DEF ControllerFrame
<1>2. /\ DeviceTypeOK /\ WireSound /\ TokensSound /\ SentSound /\ crashes \in 0 .. MaxCrashes
      /\ job[p] \in Job /\ SentAt(p) /\ p # None
  BY <1>1, ControllerIsReady
<1>3. /\ pc[p] = "preparing" /\ UNCHANGED device /\ Abandon(p)
      /\ program' = program /\ crashes' = crashes /\ file' = file /\ sent' = sent /\ lock' = lock
  BY SameNetwork DEF C!Prepared, C!device, device
<1>5. lock = p /\ job[p].token = None /\ LockAt(p)
  BY <1>1, <1>2, <1>3, RunnerHoldsLock DEF TokensSound
<1>6. file = InProgress(job[p].release, None)
  BY <1>3, <1>5 DEF LockAt
<1>7. CASE reply[p] # None /\ job' = [job EXCEPT ![p].token = reply[p]] /\ C!Goto(p, "save")
  <2> DEFINE j == [job[p] EXCEPT !.token = reply[p]]
  <2>1. j \in Job /\ j.token = reply[p] /\ j.release = job[p].release
    BY <1>2 DEF Job, DeviceTypeOK
  <2>2. job' = [job EXCEPT ![p] = j] /\ pc' = [pc EXCEPT ![p] = "save"]
    BY <1>2, <1>7 DEF C!Goto, DeviceTypeOK
  <2> HIDE DEF j
  <2>3. Moves(p) /\ pc'[p] = "save" /\ job'[p] = j
    BY <1>2, <1>3, <2>1, <2>2, MovesBy DEF Step
  <2>4. Silent(p)
    BY <1>3, <2>3 DEF Silent, Waiting
  <2>5. Unsent(p) = reply[p] /\ Unsent(p)' = reply[p]
    BY <1>3, <2>1, <2>3 DEF Unsent
  <2>6. UnsentMoves(p)
    BY <1>2, <1>3, <1>7, <2>1, <2>3, <2>5, UnsentIsIssued DEF UnsentMoves
  <2>7. LockAt(p)' /\ SentAt(p)'
    BY <1>2, <1>3, <1>6, <2>1, <2>3 DEF LockAt, InProgress, SentAt
  <2>8. (\E q \in wire : q.by = "controller" /\ q.kind = "prepare") => FALSE
    BY <1>2, <1>3, <1>5, <1>6, <1>7 DEF SentSound, ControllerWire, InProgress
  <2> QED BY <1>1, <1>3, <1>5, <2>3, <2>4, <2>6, <2>7, <2>8, ControllerQuiet
<1>8. CASE C!Goto(p, "fail") /\ UNCHANGED job
  <2>1. Moves(p) /\ pc'[p] = "fail" /\ job'[p] = job[p]
    <3>1. /\ crashes' \in 0 .. MaxCrashes
          /\ job' = job /\ pc' = [pc EXCEPT ![p] = "fail"] /\ "fail" \in Step
      BY <1>2, <1>3, <1>8 DEF C!Goto, Step
    <3> HIDE DEF Step
    <3> QED BY <1>2, <1>3, <3>1, MovesBy
  <2>2. Silent(p)
    BY <1>3, <2>1 DEF Silent, Waiting
  <2>3. UnsentMoves(p)
    BY <1>3, <1>5, <2>1 DEF UnsentMoves, Unsent
  <2>4. LockAt(p)' /\ SentAt(p)'
    <3>1. file # None
      BY <1>2, <1>6, InProgressIsRecord, JobFields
    <3> QED BY <1>3, <1>6, <2>1, <3>1 DEF LockAt, InProgress, SentAt
  <2> QED BY <1>1, <1>3, <1>5, <2>1, <2>2, <2>3, <2>4, ControllerQuiet
<1> QED BY <1>7, <1>8 DEF C!Prepared, C!Answered

\* Steps of a controller that has sent its image, and only looks or listens.
LEMMA ControllerLooks ==
    ASSUME MacInv, NEW p \in Tool, ControllerFrame(p),
           pc[p] \in {"uploading", "poll", "confirming"}, UNCHANGED device, Abandon(p),
           program' = program, crashes' = crashes, file' = file, sent' = sent, lock' = lock,
           NEW s \in {"poll", "confirm", "succeed", "fail"}, pc' = [pc EXCEPT ![p] = s],
           NEW j \in Job, job' = [job EXCEPT ![p] = j] \/ (job' = job /\ j = job[p]),
           j.release = job[p].release, j.token = job[p].token,
           s = "succeed" => SentAt(p)'
    PROVE  ControllerEffect(p)
<1>1. program[p] = "controller" /\ fence' = fence
  BY DEF ControllerFrame
<1>2. /\ DeviceTypeOK /\ WireSound /\ TokensSound /\ SentSound /\ crashes \in 0 .. MaxCrashes
      /\ job[p] \in Job /\ p # None
  BY <1>1, ControllerIsReady
<1>3. lock = p /\ LockAt(p)
  BY <1>1, RunnerHoldsLock
<1>4. /\ file = InProgress(job[p].release, job[p].token) /\ job[p].token # None
      /\ job[p].release \in Release /\ job[p].token \in Token \cup {None}
  BY <1>2, <1>3, JobFields DEF LockAt
<1>5. /\ file # None /\ file.status = "IN_PROGRESS" /\ file.release = job[p].release
      /\ file.token = job[p].token
  BY <1>4, InProgressIsRecord
<1>6. s \in Step
  BY DEF Step
<1>7. Moves(p) /\ pc'[p] = s /\ job'[p] = j
  <2>1. crashes' \in 0 .. MaxCrashes
    BY <1>2
  <2> QED BY <1>2, <1>6, <2>1, MovesBy
<1>8. Silent(p)
  BY <1>7 DEF Silent, Waiting
<1>9. UnsentMoves(p)
  \* the holder of this token would be uploading
  <2>1. \A q \in Tool \ {p} : Unsent(q) # job[p].token
    <3> SUFFICES ASSUME NEW q \in Tool \ {p}, Unsent(q) = job[p].token PROVE FALSE
      OBVIOUS
    <3>1. lock = q
      BY <1>2, <1>4, <1>5 DEF TokensSound
    <3> QED BY <1>3, <3>1
  <2> QED BY <1>2, <1>7, <2>1 DEF UnsentMoves, Unsent, TokensSound
<1>10. LockAt(p)'
  BY <1>4, <1>5, <1>7 DEF LockAt, InProgress
<1>11. SentAt(p)'
  BY <1>7 DEF SentAt
<1>12. (\E q \in wire : q.by = "controller" /\ q.kind = "prepare") => FALSE
  BY <1>2, <1>4, <1>5 DEF SentSound, ControllerWire
<1> QED BY <1>1, <1>3, <1>7, <1>8, <1>9, <1>10, <1>11, <1>12, ControllerQuiet

LEMMA CallEndsEffect ==
    ASSUME MacInv, NEW p \in Tool, ControllerFrame(p), C!UploadEnds(p) \/ C!ConfirmEnds(p)
    PROVE  ControllerEffect(p)
<1>1. job[p] \in Job
  BY ControllerIsReady DEF ControllerFrame
<1>2. /\ pc[p] \in {"uploading", "poll", "confirming"} /\ UNCHANGED device /\ Abandon(p)
      /\ program' = program /\ crashes' = crashes /\ file' = file /\ sent' = sent /\ lock' = lock
      /\ pc' = [pc EXCEPT ![p] = "poll"] /\ job' = job
  BY SameNetwork DEF C!UploadEnds, C!ConfirmEnds, C!device, device, C!Goto
<1> QED BY <1>1, <1>2, ControllerLooks

LEMMA TimeIsUpEffect ==
    ASSUME MacInv, NEW p \in Tool, ControllerFrame(p), C!TimeIsUp(p)
    PROVE  ControllerEffect(p)
<1>1. job[p] \in Job /\ DeviceTypeOK /\ WireSound
  BY ControllerIsReady DEF ControllerFrame
<1>2. /\ pc[p] = "poll" /\ UNCHANGED <<device, network>>
      /\ program' = program /\ crashes' = crashes /\ file' = file /\ sent' = sent /\ lock' = lock
      /\ pc' = [pc EXCEPT ![p] = "fail"] /\ job' = job
  BY DEF C!TimeIsUp, C!device, device, C!network, network, C!Goto
<1>3. Abandon(p)
  BY <1>1, <1>2, IdleAbandons DEF Waiting
<1> QED BY <1>1, <1>2, <1>3, ControllerLooks

\* The device reads VALID under this very transaction: it was confirmed, the
\* image was sent, and nothing that was sent is still under way.
LEMMA PollEffect ==
    ASSUME MacInv, NEW p \in Tool, ControllerFrame(p), C!Poll(p)
    PROVE  ControllerEffect(p)
<1>0. program[p] = "controller"
  BY DEF ControllerFrame
<1>1. /\ job[p] \in Job /\ DeviceTypeOK /\ DeviceSound /\ WireSound /\ TokensSound /\ SentSound
  BY <1>0, ControllerIsReady
<1>2. /\ pc[p] = "poll" /\ UNCHANGED <<device, network>>
      /\ program' = program /\ crashes' = crashes /\ file' = file /\ sent' = sent /\ lock' = lock
  BY DEF C!Poll, C!device, device, C!network, network
<1>3. Abandon(p)
  BY <1>1, <1>2, IdleAbandons DEF Waiting
<1>4. CASE C!Ours(p) /\ dev.state = "VALID" /\ C!Goto(p, "succeed") /\ UNCHANGED job
  <2>1. /\ pc' = [pc EXCEPT ![p] = "succeed"] /\ job' = job /\ pc'[p] = "succeed"
        /\ dev.build = job[p].release /\ dev.transaction = job[p].token
    BY <1>1, <1>4 DEF C!Goto, C!Ours, C!Mine, DeviceTypeOK
  <2>2. /\ file = InProgress(job[p].release, job[p].token) /\ job[p].token # None
        /\ job[p].release \in Release /\ job[p].token \in Token \cup {None}
    BY <1>0, <1>1, <1>2, RunnerHoldsLock, JobFields DEF LockAt
  <2>3. /\ file # None /\ file.status = "IN_PROGRESS" /\ file.release = job[p].release
        /\ file.token = job[p].token
    BY <2>2, InProgressIsRecord
  <2>4. dev.transaction # 0
    <3>1. job[p].token \in Issued /\ opened \in Nat
      BY <1>1, <2>2 DEF TokensSound, DeviceTypeOK, Token
    <3> QED BY <2>1, <3>1 DEF Issued
  <2>5. [release |-> job[p].release, token |-> job[p].token] \in confirmed
    BY <1>1, <1>4, <2>1, <2>4 DEF DeviceSound
  <2>6. sent[job[p].release] = 1
    BY <1>1, <2>1, <2>2, <2>3 DEF SentSound, SentCounts, InUse
  <2>7. Behind(job[p].release)
    <3>1. VersionOf[dev.build] \in Nat
      BY <2>1, <2>2, VersionIsNat
    <3> QED BY <1>4, <2>1, <3>1 DEF Behind, Floor
  <2>8. \A q \in wire : q.by = "controller" => q.kind = "confirm"
    <3> SUFFICES ASSUME NEW q \in wire, q.by = "controller" PROVE q.kind = "confirm"
      OBVIOUS
    <3>1. q.kind \in {"prepare", "upload", "confirm"}
      BY <1>1 DEF WireSound
    <3>2. q.kind # "prepare"
      BY <1>1, <2>2, <2>3 DEF SentSound, ControllerWire
    <3>3. q.kind = "upload" => q.token = dev.transaction
      BY <1>1, <2>1, <2>3 DEF SentSound, ControllerWire
    <3>4. q.kind # "upload"
      BY <1>1, <3>3 DEF TokensSound
    <3> QED BY <3>1, <3>2, <3>4
  <2>9. /\ confirmed' = confirmed /\ wire' = wire /\ dev' = dev
    BY <1>2 DEF device, network
  <2>10. SentAt(p)'
    BY <1>2, <2>1, <2>5, <2>6, <2>7, <2>8, <2>9 DEF SentAt, Behind, Floor
  <2> QED BY <1>1, <1>2, <1>3, <2>1, <2>10, ControllerLooks
<1>5. CASE job' = [job EXCEPT ![p].csrf = boots] /\ C!Goto(p, "confirm")
  <2> DEFINE j == [job[p] EXCEPT !.csrf = boots]
  <2>1. /\ j \in Job /\ j.token = job[p].token /\ j.release = job[p].release
    BY <1>1 DEF Job, DeviceTypeOK
  <2>2. job' = [job EXCEPT ![p] = j] /\ pc' = [pc EXCEPT ![p] = "confirm"]
    BY <1>1, <1>5 DEF C!Goto, DeviceTypeOK
  <2> HIDE DEF j
  <2> QED BY <1>1, <1>2, <1>3, <2>1, <2>2, ControllerLooks
<1>6. CASE C!Goto(p, "fail") /\ UNCHANGED job
  <2>1. pc' = [pc EXCEPT ![p] = "fail"] /\ job' = job
    BY <1>6 DEF C!Goto
  <2> QED BY <1>1, <1>2, <1>3, <2>1, ControllerLooks
<1> QED BY <1>4, <1>5, <1>6 DEF C!Poll

\* A step that only writes the state file.
LEMMA ControllerWrites ==
    ASSUME MacInv, NEW p \in Tool, ControllerFrame(p), pc[p] \notin {"idle"} \cup Waiting,
           UNCHANGED <<device, network>>, program' = program, crashes' = crashes, sent' = sent,
           file' \in C!Record,
           NEW s \in Step \ Waiting, pc' = [pc EXCEPT ![p] = s],
           NEW j \in Job, job' = [job EXCEPT ![p] = j] \/ (job' = job /\ j = job[p]),
           lock' \in {None, p},
           \/ s = "idle" /\ lock' = None
           \/ s # "idle" /\ lock' = p /\ LockAt(p)',
           UnsentMoves(p),
           \/ file'.token = None
           \/ file'.token = Unsent(p) /\ s = "upload"
           \/ file'.token \in Issued /\ \A q \in Tool : Unsent(q) # file'.token,
           ControllerWire', SentCounts', SuccessRecorded', SentAt(p)',
           ControllerShot, QuarantineKept
    PROVE  ControllerEffect(p)
<1>1. program[p] = "controller" /\ fence' = fence
  BY DEF ControllerFrame
<1>2. /\ DeviceTypeOK /\ WireSound /\ TokensSound /\ LockSound /\ SentSound
      /\ C!ControllerTypeOK /\ crashes \in 0 .. MaxCrashes
  BY <1>1, ControllerIsReady
<1>3. lock = p
  BY <1>1, RunnerHoldsLock
<1>4. Moves(p) /\ pc'[p] = s /\ job'[p] = j
  <2>1. crashes' \in 0 .. MaxCrashes
    BY <1>2
  <2> QED BY <1>2, <2>1, MovesBy DEF device
<1>5. Silent(p)
  BY <1>2, <1>4, IdleAbandons DEF Silent
<1>6. ToolStep(p)
  BY <1>4, <1>5 DEF ToolStep
<1>7. TokenMoves(p)
  BY <1>1, <1>3, <1>4, BridgeReleases DEF TokenMoves
<1>8. C!ControllerTypeOK'
  BY <1>2 DEF C!ControllerTypeOK, C!Record, C!Token
<1>9. LockSound' /\ \A q \in Tool \ {p} : program[q] = "controller" => pc'[q] = "idle"
  BY <1>1, <1>2, <1>3, <1>4, LockStep
<1>10. \A q \in Tool : program[q] = "controller" => SentAt(q)'
  BY <1>9 DEF SentAt
<1>11. program' = program
  OBVIOUS
<1>12. SentSound'
  <2> HIDE DEF ControllerWire, SentCounts, SentAt, SuccessRecorded
  <2> QED BY <1>10, <1>11 DEF SentSound
<1> QED BY <1>6, <1>7, <1>8, <1>9, <1>12 DEF ControllerEffect

LEMMA NotQuarantined ==
    ASSUME MacInv, NEW p \in Tool, program[p] = "controller", pc[p] \notin {"idle", "read"}
    PROVE  QuarantineKept
<1>1. LockAt(p)
  BY RunnerHoldsLock
<1>2. job[p].release \in Release /\ job[p].token \in Token \cup {None}
  BY ControllerIsReady, JobFields
<1>3. ~C!Quarantined
  BY <1>1, <1>2, InProgressIsRecord DEF LockAt, C!Quarantined
<1> QED BY <1>3 DEF QuarantineKept

\* The intent is recorded before anything is sent: nothing that an earlier
\* controller sent is on the wire any more.
LEMMA IntendEffect ==
    ASSUME MacInv, NEW p \in Tool, ControllerFrame(p), C!Intend(p)
    PROVE  ControllerEffect(p)
<1>0. program[p] = "controller"
  BY DEF ControllerFrame
<1>1. /\ job[p] \in Job /\ DeviceTypeOK /\ DeviceSound /\ WireSound /\ TokensSound /\ SentSound
      /\ SentAt(p)
  BY <1>0, ControllerIsReady
<1>2. /\ pc[p] = "intend" /\ UNCHANGED <<device, network>>
      /\ program' = program /\ crashes' = crashes /\ sent' = sent /\ lock' = lock
      /\ job' = job /\ pc' = [pc EXCEPT ![p] = "prepare"] /\ pc'[p] = "prepare"
      /\ file' = InProgress(job[p].release, None)
  BY <1>1 DEF C!Intend, C!RecordIntent, C!InProgress, InProgress, C!device, device, C!network, network,
     C!Goto, DeviceTypeOK
<1>3. lock = p /\ LockAt(p) /\ p # None
  BY <1>0, <1>2, RunnerHoldsLock, BridgeReleases
<1>4. /\ job[p].release \in Release /\ job[p].release # None /\ job[p].token = None
  BY <1>1, <1>2, JobFields, BridgeReleases DEF TokensSound
<1>5. /\ file' \in C!Record /\ file' # None /\ file'.status = "IN_PROGRESS"
      /\ file'.release = job[p].release /\ file'.token = None
  BY <1>2, <1>4, InProgressIsRecord
<1>6. file = None \/ file.status = "SUCCESS"
  BY <1>2, <1>3 DEF LockAt
<1>7. Controlled = None /\ Controlled' = job[p].release
  BY <1>5, <1>6 DEF Controlled
<1>8. /\ confirmed' = confirmed /\ wire' = wire /\ dev' = dev
  BY <1>2 DEF device, network
<1>9. UnsentMoves(p) /\ LockAt(p)' /\ SentAt(p)'
  BY <1>1, <1>2, <1>4 DEF UnsentMoves, Unsent, LockAt, InProgress, SentAt
<1>10. ControllerWire'
  BY <1>1, <1>6, <1>8 DEF SentSound, ControllerWire
<1>11. SentCounts'
  <2>1. \A r \in Release : sent[r] \in {0, 1} /\ (sent[r] = 1 => Behind(r))
    BY <1>1, <1>7, BridgeReleases DEF SentSound, SentCounts
  <2>2. \A r \in Release : Behind(r)' <=> Behind(r)
    BY <1>8 DEF Behind, Floor
  <2> HIDE DEF Behind
  <2> QED BY <1>2, <1>5, <2>1, <2>2 DEF SentCounts
<1>12. SuccessRecorded'
  BY <1>5 DEF SuccessRecorded
<1>13. ControllerShot
  <2>1. ControllerDeployment!Intend(job[p].release)
    BY <1>2, <1>7 DEF ControllerDeployment!Intend
  <2> QED BY <1>4, <2>1 DEF ControllerShot, ControllerDeployment!Next
<1>14. QuarantineKept
  BY <1>0, <1>2, NotQuarantined
<1>15. "prepare" \in Step \ Waiting
  BY DEF Step, Waiting
<1>16. pc[p] \notin {"idle"} \cup Waiting
  BY <1>2 DEF Waiting
<1> QED BY <1>1, <1>2, <1>3, <1>5, <1>9, <1>10, <1>11, <1>12, <1>13, <1>14, <1>15, <1>16,
           ControllerWrites

LEMMA SaveTokenEffect ==
    ASSUME MacInv, NEW p \in Tool, ControllerFrame(p), C!SaveToken(p)
    PROVE  ControllerEffect(p)
<1>0. program[p] = "controller"
  BY DEF ControllerFrame
<1>1. /\ job[p] \in Job /\ DeviceTypeOK /\ DeviceSound /\ WireSound /\ TokensSound /\ SentSound
      /\ SentAt(p)
  BY <1>0, ControllerIsReady
<1>2. /\ pc[p] = "save" /\ UNCHANGED <<device, network>>
      /\ program' = program /\ crashes' = crashes /\ sent' = sent /\ lock' = lock /\ job' = job
  BY DEF C!SaveToken, C!device, device, C!network, network
<1>3. lock = p /\ LockAt(p) /\ p # None
  BY <1>0, <1>2, RunnerHoldsLock, BridgeReleases
<1>4. /\ job[p].release \in Release /\ job[p].token # None /\ job[p].token \in Token \cup {None}
      /\ job[p].token = Unsent(p)
  BY <1>1, <1>2, JobFields DEF TokensSound, Unsent
<1>5. /\ Unsent(p) \in Issued /\ ~InUse(Unsent(p))
      /\ \A q \in Tool \ {p} : Unsent(q) # Unsent(p)
  BY <1>1, <1>4 DEF TokensSound
<1>6. /\ file = InProgress(job[p].release, None)
      /\ file # None /\ file.status = "IN_PROGRESS" /\ file.release = job[p].release
      /\ file.token = None
  BY <1>2, <1>3, <1>4, InProgressIsRecord DEF LockAt
<1>7. /\ confirmed' = confirmed /\ wire' = wire /\ dev' = dev
  BY <1>2 DEF device, network
<1>8. CASE file' = C!InProgress(p, job[p].token) /\ C!Goto(p, "upload")
  <2>1. /\ pc' = [pc EXCEPT ![p] = "upload"] /\ pc'[p] = "upload"
        /\ file' = InProgress(job[p].release, job[p].token)
    BY <1>1, <1>8 DEF C!InProgress, InProgress, C!Goto, DeviceTypeOK
  <2>2. /\ file' \in C!Record /\ file' # None /\ file'.status = "IN_PROGRESS"
        /\ file'.release = job[p].release /\ file'.token = job[p].token
    BY <1>4, <2>1, InProgressIsRecord
  <2>3. Controlled' = Controlled
    BY <1>6, <2>2 DEF Controlled
  <2>4. UnsentMoves(p)
    BY <1>2, <1>4, <1>5, <2>1 DEF UnsentMoves, Unsent
  <2>5. LockAt(p)' /\ SentAt(p)'
    BY <1>1, <1>2, <1>4, <2>1 DEF LockAt, InProgress, SentAt
  \* The answered prepare has left the wire, and no upload was sent yet.
  <2>6. \A q \in wire : q.by = "controller" => q.kind = "confirm"
    <3> SUFFICES ASSUME NEW q \in wire, q.by = "controller" PROVE q.kind = "confirm"
      OBVIOUS
    <3>1. q.kind \in {"prepare", "upload", "confirm"} /\ (q.kind = "upload" => q.token \in Issued)
      BY <1>1 DEF WireSound
    <3>2. q.kind # "prepare"
      BY <1>1, <1>2, <1>3, <1>6 DEF SentSound, ControllerWire
    <3>3. None \notin Issued
      BY <1>1, BridgeReleases DEF Issued, DeviceTypeOK, Token
    <3>4. q.kind # "upload"
      BY <1>1, <1>6, <3>1, <3>3 DEF SentSound, ControllerWire
    <3> QED BY <3>1, <3>2, <3>4
  <2>7. ControllerWire'
    BY <1>7, <2>6 DEF ControllerWire
  <2>8. SentCounts'
    <3>1. \A r \in Release : sent[r] \in {0, 1} /\ (sent[r] = 1 /\ Controlled # r => Behind(r))
      BY <1>1 DEF SentSound, SentCounts
    <3>2. \A r \in Release : Behind(r)' <=> Behind(r)
      BY <1>7 DEF Behind, Floor
    <3>3. ~InUse(file.token)'
      BY <1>4, <1>5, <1>7, <2>2 DEF InUse
    <3> HIDE DEF Behind, InUse, Controlled
    <3> QED BY <1>2, <2>2, <2>3, <3>1, <3>2, <3>3 DEF SentCounts
  <2>9. SuccessRecorded'
    BY <2>2 DEF SuccessRecorded
  <2>10. ControllerShot
    BY <1>2, <2>3 DEF ControllerShot
  <2>11. QuarantineKept
    BY <1>0, <1>2, NotQuarantined
  <2>12. "upload" \in Step \ Waiting
    BY DEF Step, Waiting
  <2>13. pc[p] \notin {"idle"} \cup Waiting
    BY <1>2 DEF Waiting
  <2> QED BY <1>1, <1>2, <1>3, <1>4, <2>1, <2>2, <2>4, <2>5, <2>7, <2>8, <2>9, <2>10, <2>11, <2>12, <2>13,
             ControllerWrites
<1>9. CASE C!Goto(p, "fail") /\ UNCHANGED file
  <2>1. Moves(p) /\ pc'[p] = "fail" /\ job'[p] = job[p]
    <3>1. /\ crashes' \in 0 .. MaxCrashes
          /\ job' = job /\ pc' = [pc EXCEPT ![p] = "fail"] /\ "fail" \in Step
      BY <1>0, <1>2, <1>9, ControllerIsReady DEF C!Goto, Step
    <3> HIDE DEF Step
    <3> QED BY <1>1, <1>2, <3>1, MovesBy
  <2>2. Silent(p)
    BY <1>1, <1>2, <2>1, IdleAbandons DEF Silent, Waiting
  <2>3. UnsentMoves(p)
    BY <1>2, <1>4, <1>5, <2>1 DEF UnsentMoves, Unsent
  <2>4. LockAt(p)' /\ SentAt(p)'
    BY <1>6, <1>9, <2>1 DEF LockAt, SentAt
  <2>5. fence' = fence
    BY DEF ControllerFrame
  <2> QED BY <1>0, <1>2, <1>3, <1>9, <2>1, <2>2, <2>3, <2>4, <2>5, ControllerQuiet
<1> QED BY <1>8, <1>9 DEF C!SaveToken

\* A controller that ends well forgets the deployment; one that does not
\* keeps the others out.
LEMMA FinishEffect ==
    ASSUME MacInv, NEW p \in Tool, ControllerFrame(p), C!Finish(p)
    PROVE  ControllerEffect(p)
<1>0. program[p] = "controller"
  BY DEF ControllerFrame
<1>1. /\ job[p] \in Job /\ DeviceTypeOK /\ DeviceSound /\ WireSound /\ TokensSound /\ SentSound
      /\ SentAt(p)
  BY <1>0, ControllerIsReady
<1>2. /\ pc[p] \in {"succeed", "fail"} /\ UNCHANGED <<device, network>>
      /\ program' = program /\ crashes' = crashes /\ sent' = sent /\ C!Leave(p)
      /\ file' = [status |-> C!Outcome(p), release |-> job[p].release, token |-> job[p].token]
  BY DEF C!Finish, C!device, device, C!network, network
<1>3. lock = p /\ LockAt(p) /\ p # None
  BY <1>0, <1>2, RunnerHoldsLock, BridgeReleases
<1>4. /\ pc' = [pc EXCEPT ![p] = "idle"] /\ job' = [job EXCEPT ![p] = NoJob] /\ lock' = None
      /\ pc'[p] = "idle" /\ job'[p] = NoJob
  BY <1>1, <1>2, <1>3, NoJobIsJob DEF C!Leave, DeviceTypeOK
<1>5. /\ job[p].release \in Release /\ job[p].token \in Token \cup {None}
  BY <1>1, JobFields
<1>6. /\ file' \in C!Record /\ file' # None /\ file'.release = job[p].release /\ file'.token = job[p].token
      /\ file'.status = IF pc[p] = "succeed" THEN "SUCCESS" ELSE "FAILED"
  <2>1. file' \in C!Record
    BY <1>2, <1>5 DEF C!Record, C!Outcome, C!Token, Token
  <2> QED BY <1>2, <2>1, NoRecordIsNone DEF C!Outcome
<1>7. /\ file # None /\ file.status = "IN_PROGRESS" /\ file.release = job[p].release
      /\ pc[p] = "succeed" => file.token = job[p].token
  BY <1>2, <1>3, <1>5, InProgressIsRecord DEF LockAt
<1>8. /\ confirmed' = confirmed /\ wire' = wire /\ dev' = dev
  BY <1>2 DEF device, network
<1>9. UnsentMoves(p) /\ SentAt(p)'
  BY <1>4, NoJobIsJob DEF UnsentMoves, Unsent, SentAt
<1>10. job[p].token # None => job[p].token \in Issued /\ \A q \in Tool : Unsent(q) # job[p].token
  <2> SUFFICES ASSUME job[p].token # None
               PROVE  job[p].token \in Issued /\ \A q \in Tool : Unsent(q) # job[p].token
    OBVIOUS
  <2>1. job[p].token \in Issued
    BY <1>1 DEF TokensSound
  <2>2. CASE pc[p] = "fail"
    BY <1>1, <2>1, <2>2 DEF TokensSound
  <2>3. CASE pc[p] = "succeed"
    <3> SUFFICES ASSUME NEW q \in Tool, Unsent(q) = job[p].token PROVE FALSE
      BY <2>1
    <3>1. lock = q /\ pc[q] = "upload"
      BY <1>1, <1>7, <2>3 DEF TokensSound
    <3> QED BY <1>3, <2>3, <3>1
  <2> QED BY <1>2, <2>2, <2>3
<1>11. ControllerWire'
  BY <1>1, <1>2, <1>6, <1>7, <1>8 DEF SentSound, ControllerWire, SentAt
<1>12. Controlled = job[p].release /\ Controlled' = IF pc[p] = "succeed" THEN None ELSE job[p].release
  BY <1>6, <1>7 DEF Controlled
<1>13. SentCounts'
  <2>1. \A r \in Release : sent[r] \in {0, 1} /\ (sent[r] = 1 /\ Controlled # r => Behind(r))
    BY <1>1 DEF SentSound, SentCounts
  <2>2. \A r \in Release : Behind(r)' <=> Behind(r)
    BY <1>8 DEF Behind, Floor
  <2>3. pc[p] = "succeed" => Behind(job[p].release)
    BY <1>1 DEF SentAt
  <2>4. \A r \in Release : sent[r] = 1 /\ Controlled' # r => Behind(r)
    BY <1>12, <2>1, <2>3
  <2> HIDE DEF Behind, InUse, Controlled
  <2> QED BY <1>2, <1>6, <2>1, <2>2, <2>4 DEF SentCounts
<1>14. SuccessRecorded'
  BY <1>1, <1>6, <1>8 DEF SuccessRecorded, SentAt
<1>15. ControllerShot
  <2>1. CASE pc[p] = "succeed"
    <3>1. sent[job[p].release] = 1 /\ job[p].release # None
      BY <1>1, <1>5, <2>1, BridgeReleases DEF SentAt
    <3>2. ControllerDeployment!Resolve
      BY <1>2, <1>12, <2>1, <3>1 DEF ControllerDeployment!Resolve
    <3> QED BY <3>2 DEF ControllerShot, ControllerDeployment!Next
  <2>2. CASE pc[p] # "succeed"
    BY <1>2, <1>12, <2>2 DEF ControllerShot
  <2> QED BY <2>1, <2>2
<1>16. QuarantineKept
  BY <1>0, <1>2, NotQuarantined
<1>17. "idle" \in Step \ Waiting
  BY DEF Step, Waiting
<1>18. pc[p] \notin {"idle"} \cup Waiting
  BY <1>2 DEF Waiting
<1> QED BY <1>1, <1>2, <1>4, <1>6, <1>9, <1>10, <1>11, <1>13, <1>14, <1>15, <1>16, <1>17, <1>18,
           NoJobIsJob, ControllerWrites

\* A step that sends one request, in the state that the record allows it.
LEMMA ControllerSends ==
    ASSUME MacInv, NEW p \in Tool, ControllerFrame(p),
           NEW kind \in {"prepare", "upload", "confirm"}, NEW token \in Token \cup {None},
           Send(p, kind, token), UNCHANGED device, program' = program, crashes' = crashes,
           job' = job, lock' = lock, file' = file, pc' = [pc EXCEPT ![p] = Awaits(kind)],
           \/ pc[p] = "prepare" /\ kind = "prepare" /\ token = None /\ sent' = sent
           \/ /\ pc[p] = "upload" /\ kind = "upload" /\ token = job[p].token
              /\ sent' = [sent EXCEPT ![job[p].release] = @ + 1]
           \/ pc[p] = "confirm" /\ kind = "confirm" /\ token = job[p].token /\ sent' = sent
    PROVE  ControllerEffect(p)
<1>0. program[p] = "controller" /\ fence' = fence
  BY DEF ControllerFrame
<1>1. /\ job[p] \in Job /\ DeviceTypeOK /\ DeviceSound /\ WireSound /\ TokensSound /\ SentSound
      /\ SentAt(p) /\ C!ControllerTypeOK /\ LockSound /\ crashes \in 0 .. MaxCrashes
  BY <1>0, ControllerIsReady
<1>2. lock = p /\ LockAt(p) /\ p # None
  BY <1>0, RunnerHoldsLock, BridgeReleases
<1>3. /\ job[p].release \in Release /\ job[p].token \in Token \cup {None} /\ kind \in Kind
      /\ Awaits(kind) \in Step /\ job[p].release # None
  BY <1>1, JobFields, BridgeReleases DEF Awaits, Kind, Step
<1>4. /\ pc[p] = "prepare" => file = InProgress(job[p].release, None)
      /\ pc[p] # "prepare" => file = InProgress(job[p].release, job[p].token) /\ job[p].token # None
  BY <1>2 DEF LockAt
<1>5. /\ file # None /\ file.status = "IN_PROGRESS" /\ file.release = job[p].release
      /\ pc[p] = "prepare" => file.token = None
      /\ pc[p] # "prepare" => file.token = job[p].token
  BY <1>3, <1>4, InProgressIsRecord
<1>6. Moves(p) /\ pc'[p] = Awaits(kind) /\ job'[p] = job[p]
  <2>1. crashes' \in 0 .. MaxCrashes
    BY <1>1
  <2> QED BY <1>1, <1>3, <2>1, MovesBy
<1>7. Sends(p, kind, token)
  BY <1>0, <1>3, <1>4, <1>6 DEF Sends, Waiting
<1>8. ToolStep(p)
  BY <1>3, <1>6, <1>7 DEF ToolStep
<1>9. /\ program' = program /\ confirmed' = confirmed /\ dev' = dev
      /\ \A q \in Tool \ {p} : program[q] = "controller" => pc'[q] = "idle"
  BY <1>0, <1>1, <1>6, MovesIs, RunnerHoldsLock
<1>10. reply'[p] = None
  BY <1>1, <1>8, StepKeepsDeviceType
<1>11. UnsentMoves(p)
  <2>1. Unsent(p)' = None
    BY <1>6, <1>10 DEF Unsent, Awaits
  <2>2. pc[p] = "prepare" => job[p].token = None
    BY <1>1 DEF TokensSound
  <2> QED BY <1>1, <1>6, <2>1, <2>2 DEF UnsentMoves, TokensSound, Awaits
<1>12. TokenMoves(p)
  BY <1>0, <1>11 DEF TokenMoves
<1>13. LockAt(p)'
  BY <1>4, <1>5, <1>6 DEF LockAt, InProgress, Awaits
<1>14. LockSound'
  BY <1>0, <1>1, <1>2, <1>6, <1>13, LockStep DEF Awaits
<1>15. PICK n \in Request :
         /\ wire' = wire \cup {n} /\ n.kind = kind /\ n.release = job[p].release /\ n.token = token
         /\ n.by = program[p] /\ n.from = p
  BY <1>1, <1>3, SendIs
<1>16. \A q \in wire : q.by = "controller" => q.kind # "prepare"
  BY <1>1, <1>2, <1>5 DEF SentSound, ControllerWire
<1>17. ControllerWire'
  <2> SUFFICES ASSUME NEW q \in wire', q.by = "controller", q.kind \in {"prepare", "upload"}
               PROVE  /\ file.release = q.release
                      /\ q.kind = "prepare" =>
                           /\ file.token = None /\ pc'[p] = "preparing" /\ q.from = p /\ reply'[p] = None
                      /\ q.kind = "upload" => q.token = file.token
    BY <1>2, <1>5 DEF ControllerWire
  <2>1. CASE q = n
    BY <1>5, <1>6, <1>10, <1>15, <2>1 DEF Awaits
  <2>2. CASE q \in wire
    BY <1>1, <1>5, <1>16, <2>2 DEF SentSound, ControllerWire
  <2> QED BY <1>15, <2>1, <2>2
<1>18. Controlled = job[p].release /\ Controlled' = job[p].release
  BY <1>5 DEF Controlled
<1>19. /\ sent \in [Release -> Nat] /\ sent' \in [Release -> Nat]
       /\ kind = "upload" => sent[job[p].release] = 0 /\ sent' = [sent EXCEPT ![job[p].release] = 1]
       /\ kind # "upload" => sent' = sent
  <2>1. sent \in [Release -> Nat]
    BY <1>1 DEF C!ControllerTypeOK
  <2>2. pc[p] = "upload" => sent[job[p].release] = 0
    BY <1>1 DEF SentAt
  <2> QED BY <1>3, <2>1, <2>2
<1>20. SentCounts'
  <2>1. \A r \in Release : sent[r] \in {0, 1} /\ (sent[r] = 1 /\ Controlled # r => Behind(r))
    BY <1>1 DEF SentSound, SentCounts
  <2>2. \A r \in Release : Behind(r)' <=> Behind(r)
    BY <1>9 DEF Behind, Floor
  <2>3. \A r \in Release : sent'[r] \in {0, 1} /\ (r # job[p].release => sent'[r] = sent[r])
    BY <1>19, <2>1
  <2>4. file # None /\ file.token # None /\ InUse(file.token)' => sent'[file.release] = 1
    <3>1. CASE kind = "upload"
      BY <1>3, <1>5, <1>19, <3>1
    <3>2. CASE kind # "upload"
      <4>1. InUse(file.token)' => InUse(file.token)
        BY <1>9, <1>15, <3>2 DEF InUse
      <4> QED BY <1>1, <1>5, <1>19, <3>2, <4>1 DEF SentSound, SentCounts
    <3> QED BY <3>1, <3>2
  <2>5. \A r \in Release : sent'[r] = 1 /\ Controlled' # r => Behind(r)'
    BY <1>18, <2>1, <2>2, <2>3
  <2> HIDE DEF Behind, InUse, Controlled
  <2> QED BY <2>3, <2>4, <2>5 DEF SentCounts
<1>21. \A q \in Tool : program[q] = "controller" => SentAt(q)'
  <2> SUFFICES ASSUME NEW q \in Tool, program[q] = "controller" PROVE SentAt(q)'
    OBVIOUS
  <2>1. CASE q # p
    BY <1>9, <2>1 DEF SentAt
  <2>2. CASE q = p
    <3>1. pc[p] = "prepare" => sent[job[p].release] = 0
      BY <1>1 DEF SentAt
    <3> QED BY <1>6, <1>19, <2>2, <3>1 DEF SentAt, Awaits
  <2> QED BY <2>1, <2>2
<1>22. SuccessRecorded'
  BY <1>5 DEF SuccessRecorded
<1>23. SentSound'
  <2> HIDE DEF ControllerWire, SentCounts, SentAt, SuccessRecorded
  <2> QED BY <1>9, <1>17, <1>20, <1>21, <1>22 DEF SentSound
<1>24. ControllerShot
  <2>1. CASE kind = "upload"
    <3>1. ControllerDeployment!Upload
      BY <1>3, <1>18, <1>19, <2>1 DEF ControllerDeployment!Upload
    <3> QED BY <3>1 DEF ControllerShot, ControllerDeployment!Next
  <2>2. CASE kind # "upload"
    BY <1>18, <1>19, <2>2 DEF ControllerShot
  <2> QED BY <2>1, <2>2
<1>25. QuarantineKept
  BY <1>0, NotQuarantined
<1>26. C!ControllerTypeOK'
  BY <1>1, <1>19 DEF C!ControllerTypeOK, C!Record, C!Token
<1> QED BY <1>8, <1>12, <1>14, <1>23, <1>24, <1>25, <1>26 DEF ControllerEffect

LEMMA SendEffect ==
    ASSUME MacInv, NEW p \in Tool, ControllerFrame(p), C!SendPrepare(p) \/ C!SendUpload(p) \/ C!SendConfirm(p)
    PROVE  ControllerEffect(p)
<1>0. job[p].token \in Token \cup {None} /\ None \in Token \cup {None}
  BY ControllerIsReady, JobFields DEF ControllerFrame
<1>1. \A step, kind, token, next : C!Call(p, step, kind, token, next) =>
        /\ pc[p] = step /\ Send(p, kind, token) /\ pc' = [pc EXCEPT ![p] = next]
        /\ UNCHANGED device /\ program' = program /\ crashes' = crashes /\ job' = job
        /\ lock' = lock /\ file' = file
  BY SameNetwork DEF C!Call, C!Goto, C!device, device
<1>2. CASE C!SendPrepare(p)
  <2>1. C!Call(p, "prepare", "prepare", None, "preparing") /\ sent' = sent
    BY <1>2 DEF C!SendPrepare
  <2>2. Awaits("prepare") = "preparing"
    BY DEF Awaits
  <2> QED BY <1>0, <1>1, <2>1, <2>2, ControllerSends
<1>3. CASE C!SendUpload(p)
  <2>1. C!Call(p, "upload", "upload", job[p].token, "uploading")
        /\ sent' = [sent EXCEPT ![job[p].release] = @ + 1]
    BY <1>3 DEF C!SendUpload
  <2>2. Awaits("upload") = "uploading"
    BY DEF Awaits
  <2> QED BY <1>0, <1>1, <2>1, <2>2, ControllerSends
<1>4. CASE C!SendConfirm(p)
  <2>1. C!Call(p, "confirm", "confirm", job[p].token, "confirming") /\ sent' = sent
    BY <1>4 DEF C!SendConfirm
  <2>2. Awaits("confirm") = "confirming"
    BY DEF Awaits
  <2> QED BY <1>0, <1>1, <2>1, <2>2, ControllerSends
<1> QED BY <1>2, <1>3, <1>4

LEMMA ControllerStepEffect ==
    ASSUME MacInv, NEW p \in Tool, Controls(p), archives' = archives
    PROVE  ControllerEffect(p) /\ fence' = fence /\ delivered' = delivered
<1>1. ControllerFrame(p) /\ C!ControllerStep(p)
  BY DEF Controls, ControllerFrame
<1> SUFFICES ControllerEffect(p)
  BY <1>1 DEF ControllerFrame
<1>2. CASE C!Advance(p)
  <2>1. CASE C!SendPrepare(p) \/ C!SendUpload(p) \/ C!SendConfirm(p)
    BY <1>1, <2>1, SendEffect
  <2>2. CASE C!UploadEnds(p) \/ C!ConfirmEnds(p)
    BY <1>1, <2>2, CallEndsEffect
  <2> QED BY <1>1, <1>2, <2>1, <2>2, ReadStateEffect, PreflightEffect, IntendEffect, PreparedEffect,
             SaveTokenEffect, PollEffect, TimeIsUpEffect, FinishEffect DEF C!Advance
<1>3. CASE C!Crash(p)
  BY <1>1, <1>3, CrashEffect
<1>4. CASE \E r \in Release \ {Factory} : C!Invoke(p, r)
  BY <1>1, <1>4, InvokeEffect
<1> QED BY <1>1, <1>2, <1>3, <1>4 DEF C!ControllerStep

-----------------------------------------------------------------------------
(* The steps of the remote tool.                                           *)

\* What each step of a remote tool has to keep; the fence tells the whole
\* story only to tools that are not robbed of it.
RemoteShot == RemoteDeployment!Next \/ UNCHANGED <<Fenced, delivered>>
RemoteEffect(p) ==
    /\ ToolStep(p) /\ TokenMoves(p)
    /\ R!RemoteTypeOK' /\ RemoteSound'
    /\ CarefulInv => FenceSound' /\ DeliveredSound' /\ RemoteShot
RemoteFrame(p) == program[p] = "remote" /\ UNCHANGED <<lock, file, sent>>

LEMMA RemoteIsReady ==
    ASSUME MacInv, NEW p \in Tool, program[p] = "remote"
    PROVE  /\ DeviceTypeOK /\ R!RemoteTypeOK /\ DeviceSound /\ WireSound /\ TokensSound
           /\ RemoteSound /\ RemoteAt(p) /\ job[p] \in Job /\ pc[p] \in Step
           /\ crashes \in 0 .. MaxCrashes /\ p # None
           /\ job[p].release \in Release /\ job[p].token \in Token \cup {None}
<1>1. job[p] \in Job
  BY DEF MacInv, MacToolsTypeOK, DeviceTypeOK
<1> QED BY <1>1, JobFields, BridgeReleases DEF MacInv, MacToolsTypeOK, RemoteSound, DeviceTypeOK

LEMMA FenceIsWhole ==
    /\ R!Torn # None
    /\ \A f \in R!Fence : f # None /\ f # R!Torn
BY NoRecordIsNone DEF R!Fence, R!Torn, R!Phase

\* A fence for this release and token.
LEMMA RecordIsFence ==
    ASSUME NEW r \in Release, NEW t \in Token \cup {None},
           NEW phase \in {"RESERVED", "UPLOAD_MAY_HAVE_STARTED", "VALID"},
           NEW f, f = [release |-> r, token |-> t, phase |-> phase]
    PROVE  /\ f \in R!Fence /\ f \notin {None, R!Torn} /\ f.release = r /\ f.token = t /\ f.phase = phase
<1>1. f \in R!Fence
  BY DEF R!Fence, R!Phase, R!Token, Token
<1> QED BY <1>1, FenceIsWhole

\* The other processes own and look at what they did.
LEMMA OthersStay ==
    ASSUME DeviceTypeOK, NEW p \in Tool, ToolStep(p), NEW q \in Tool, q # p
    PROVE  /\ pc'[q] = pc[q] /\ job'[q] = job[q] /\ reply'[q] = reply[q] /\ program'[q] = program[q]
           /\ (Owns(q)' <=> Owns(q)) /\ (Looks(q)' <=> Looks(q))
<1>1. pc'[q] = pc[q] /\ job'[q] = job[q] /\ reply'[q] = reply[q] /\ program' = program
  BY MovesIs, StepKeepsDeviceType DEF ToolStep
<1> QED BY <1>1 DEF Owns, Looks

\* A step that leaves the fence alone and sends nothing.
LEMMA RemoteQuiet ==
    ASSUME MacInv, NEW p \in Tool, RemoteFrame(p), Moves(p), Silent(p), fence' = fence,
           delivered' = delivered, archives' = archives,
           UnsentMoves(p), RemoteAt(p)',
           CarefulInv =>
             /\ FenceAt(p)' /\ DeliveredAt(p)' /\ (Owns(p)' => Owns(p))
             /\ Owns(p)' => \A q \in wire : q.by = "remote" => q.kind # "filePrepare"
    PROVE  RemoteEffect(p)
<1>0. program[p] = "remote" /\ lock' = lock /\ file' = file
  BY DEF RemoteFrame
<1>1. DeviceTypeOK /\ R!RemoteTypeOK /\ DeviceSound /\ WireSound /\ TokensSound /\ RemoteSound
  BY <1>0, RemoteIsReady
<1>2. ToolStep(p)
  BY DEF ToolStep
<1>3. TokenMoves(p)
  BY <1>0 DEF TokenMoves
<1>4. R!RemoteTypeOK'
  BY <1>1 DEF R!RemoteTypeOK, R!Fence, R!Torn, R!Token
<1>5. program' = program /\ confirmed' = confirmed /\ dev' = dev
  BY <1>1, MovesIs
<1>6. ASSUME NEW q \in Tool, q # p
      PROVE  /\ pc'[q] = pc[q] /\ job'[q] = job[q] /\ reply'[q] = reply[q]
             /\ (Owns(q)' <=> Owns(q)) /\ (Looks(q)' <=> Looks(q))
  BY <1>1, <1>2, <1>6, OthersStay
<1>7. RemoteSound'
  <2>1. ASSUME NEW q \in Tool, program[q] = "remote" PROVE RemoteAt(q)'
    <3>1. CASE q = p
      BY <3>1
    <3>2. CASE q # p
      BY <1>1, <1>5, <1>6, <2>1, <3>2 DEF RemoteSound, RemoteAt, Newer
    <3> QED BY <3>1, <3>2
  <2>2. ValidRecorded'
    BY <1>1, <1>5 DEF RemoteSound, ValidRecorded, R!Torn
  <2> HIDE DEF RemoteAt, ValidRecorded
  <2> QED BY <1>5, <2>1, <2>2 DEF RemoteSound
<1>8. ASSUME CarefulInv
      PROVE  FenceSound' /\ DeliveredSound' /\ RemoteShot
  <2>0. FenceSound /\ DeliveredSound
    BY <1>8 DEF CarefulInv
  <2>1. /\ FenceAt(p)' /\ DeliveredAt(p)' /\ (Owns(p)' => Owns(p))
        /\ Owns(p)' => \A q \in wire : q.by = "remote" => q.kind # "filePrepare"
    BY <1>8
  <2>2. \A q \in wire' : \E o \in wire : q.kind = o.kind /\ q.by = o.by /\ q.release = o.release
                               /\ q.token = o.token /\ q.from = IF o.from = p THEN None ELSE o.from
    BY <1>1, AbandonIs DEF Silent
  <2>3. R!Torn' = R!Torn
    BY DEF R!Torn
  <2>4. FenceSound'
    <3>1. ASSUME NEW q \in Tool PROVE FenceAt(q)' /\ (Owns(q)' => Owns(q))
      <4>1. CASE q = p
        BY <2>1, <4>1
      <4>2. CASE q # p
        BY <1>6, <2>0, <2>3, <4>2 DEF FenceSound, FenceAt
      <4> QED BY <4>1, <4>2
    <3> HIDE DEF FenceAt, Owns
    <3> QED BY <2>0, <2>3, <3>1 DEF FenceSound
  <2>5. RemoteWire'
    <3> SUFFICES ASSUME NEW q \in wire', q.by = "remote"
                 PROVE  /\ fence \notin {None, R!Torn} /\ fence.release = q.release /\ fence.phase # "VALID"
                        /\ q.kind = "filePrepare" =>
                             /\ fence.token = None
                             /\ \A r \in Tool : Owns(r)' =>
                                  pc'[r] = "preparing" /\ q.from = r /\ reply'[r] = None
                        /\ q.kind = "upload" => q.token = fence.token
      BY <2>3 DEF RemoteWire
    <3>1. PICK o \in wire : q.kind = o.kind /\ q.by = o.by /\ q.release = o.release
                               /\ q.token = o.token /\ q.from = IF o.from = p THEN None ELSE o.from
      BY <2>2
    <3>2. /\ fence \notin {None, R!Torn} /\ fence.release = q.release /\ fence.phase # "VALID"
          /\ q.kind = "filePrepare" =>
               /\ fence.token = None
               /\ \A r \in Tool : Owns(r) => pc[r] = "preparing" /\ o.from = r /\ reply[r] = None
          /\ q.kind = "upload" => q.token = fence.token
      BY <2>0, <3>1 DEF DeliveredSound, RemoteWire
    <3>3. ASSUME q.kind = "filePrepare", NEW r \in Tool, Owns(r)'
          PROVE  pc'[r] = "preparing" /\ q.from = r /\ reply'[r] = None
      <4>1. r # p
        BY <2>1, <3>1, <3>3
      <4> QED BY <1>6, <3>1, <3>2, <3>3, <4>1
    <3> QED BY <3>2, <3>3
  <2>6. \A r \in Release : Behind(r)' <=> Behind(r)
    BY <1>1, <1>2, StepKeepsDeviceSound
  <2>7. Fenced' = Fenced
    BY <2>3 DEF Fenced
  <2>8. DeliveredCounts'
    <3>1. InUse(fence.token)' => InUse(fence.token)
      BY <1>5, <2>2 DEF InUse
    <3> HIDE DEF InUse, Behind, Fenced
    <3> QED BY <2>0, <2>3, <2>6, <2>7, <3>1 DEF DeliveredCounts, DeliveredSound
  <2>9. ASSUME NEW q \in Tool, program[q] = "remote" PROVE DeliveredAt(q)'
    <3>1. CASE q = p
      BY <2>1, <3>1
    <3>2. CASE q # p
      <4>1. Behind(job[q].release)' <=> Behind(job[q].release)
        BY <1>5, <1>6, <3>2 DEF Behind, Floor
      <4>2. DeliveredAt(q)
        BY <2>0, <2>9 DEF DeliveredSound
      <4> HIDE DEF Behind
      <4> QED BY <1>6, <2>2, <3>2, <4>1, <4>2 DEF DeliveredAt
    <3> QED BY <3>1, <3>2
  <2>10. DeliveredSound'
    <3> HIDE DEF RemoteWire, DeliveredCounts, DeliveredAt
    <3> QED BY <1>5, <2>5, <2>8, <2>9 DEF DeliveredSound
  <2> QED BY <2>4, <2>7, <2>10 DEF RemoteShot
<1> QED BY <1>2, <1>3, <1>4, <1>7, <1>8 DEF RemoteEffect

LEMMA RemoteLeaves ==
    ASSUME MacInv, NEW p \in Tool, RemoteFrame(p), Moves(p), Abandon(p), fence' = fence,
           delivered' = delivered, archives' = archives,
           pc'[p] = "idle", job'[p].token = None
    PROVE  RemoteEffect(p)
<1>1. Silent(p)
  BY DEF Silent, Waiting
<1>2. UnsentMoves(p)
  BY DEF UnsentMoves, Unsent
<1>3. RemoteAt(p)' /\ FenceAt(p)' /\ DeliveredAt(p)' /\ ~Owns(p)'
  BY DEF RemoteAt, FenceAt, DeliveredAt, Owns, Looks
<1> QED BY <1>1, <1>2, <1>3, RemoteQuiet

\* Stop leaves the process with nothing to do.
LEMMA StopIs ==
    ASSUME DeviceTypeOK, NEW p \in Tool, UNCHANGED device, program' = program,
           crashes' \in 0 .. MaxCrashes, R!Stop(p)
    PROVE  Moves(p) /\ pc'[p] = "idle" /\ job'[p] = NoJob /\ job'[p].token = None
<1>1. pc' = [pc EXCEPT ![p] = "idle"] /\ job' = [job EXCEPT ![p] = NoJob]
  BY NoJobIsJob DEF R!Stop, R!Goto
<1>2. "idle" \in Step
  BY DEF Step
<1> QED BY <1>1, <1>2, NoJobIsJob, MovesBy

LEMMA DeployEffect ==
    ASSUME MacInv, NEW p \in Tool, RemoteFrame(p), NEW base \in Release, NEW r \in Release,
           R!Deploy(p, base, r)
    PROVE  RemoteEffect(p)
<1>0. program[p] = "remote"
  BY DEF RemoteFrame
<1>1. DeviceTypeOK /\ WireSound /\ crashes \in 0 .. MaxCrashes
  BY <1>0, RemoteIsReady
<1> DEFINE j == [NoJob EXCEPT !.base = base, !.release = r]
<1>2. j \in Job /\ j.token = None /\ j.base = base /\ j.release = r
  BY NoJobIsJob DEF Job, NoJob
<1>3. /\ pc[p] = "idle" /\ VersionOf[r] > VersionOf[base] /\ job' = [job EXCEPT ![p] = j]
      /\ pc' = [pc EXCEPT ![p] = "check"] /\ UNCHANGED <<device, network>>
      /\ program' = program /\ crashes' = crashes /\ fence' = fence /\ delivered' = delivered
      /\ archives' = archives
  BY NoJobIsJob DEF R!Deploy, R!Goto, R!device, R!network, device, network
<1> HIDE DEF j
<1>4. Moves(p) /\ pc'[p] = "check" /\ job'[p] = j
  BY <1>1, <1>2, <1>3, MovesBy DEF Step
<1>5. Silent(p)
  BY <1>1, <1>3, <1>4, IdleAbandons DEF Silent, Waiting
<1>6. UnsentMoves(p)
  BY <1>2, <1>3, <1>4 DEF UnsentMoves, Unsent
<1>7. RemoteAt(p)'
  BY <1>2, <1>3, <1>4 DEF RemoteAt, Newer
<1>8. FenceAt(p)' /\ DeliveredAt(p)' /\ ~Owns(p)'
  BY <1>4 DEF FenceAt, DeliveredAt, Owns, Looks
<1> QED BY <1>3, <1>4, <1>5, <1>6, <1>7, <1>8, RemoteQuiet

LEMMA CheckEffect ==
    ASSUME MacInv, NEW p \in Tool, RemoteFrame(p), R!CheckFirst(p) \/ R!CheckAgain(p)
    PROVE  RemoteEffect(p)
<1>0. program[p] = "remote"
  BY DEF RemoteFrame
<1>1. /\ DeviceTypeOK /\ WireSound /\ crashes \in 0 .. MaxCrashes /\ TokensSound /\ RemoteAt(p)
      /\ job[p] \in Job /\ job[p].release \in Release
  BY <1>0, RemoteIsReady
<1>2. /\ pc[p] \in {"check", "recheck"} /\ UNCHANGED <<device, network>>
      /\ program' = program /\ crashes' = crashes /\ fence' = fence /\ delivered' = delivered
      /\ archives' = archives
  BY DEF R!CheckFirst, R!CheckAgain, R!Check, R!device, R!network, device, network
<1>3. Abandon(p)
  BY <1>1, <1>2, IdleAbandons DEF Waiting
<1>4. job[p].token = None /\ Newer(job[p].release, job[p].base)
  BY <1>1, <1>2 DEF TokensSound, RemoteAt
<1>5. CASE R!Stop(p)
  <2>1. Moves(p) /\ pc'[p] = "idle" /\ job'[p].token = None
    BY <1>1, <1>2, <1>5, StopIs DEF device
  <2> QED BY <1>2, <1>3, <2>1, RemoteLeaves
<1>6. CASE pc[p] = "check" /\ pc' = [pc EXCEPT ![p] = "reserve"] /\ job' = job
  <2>1. Moves(p) /\ pc'[p] = "reserve" /\ job'[p] = job[p]
    BY <1>1, <1>2, <1>6, MovesBy DEF Step
  <2>2. Silent(p)
    BY <1>3, <2>1 DEF Silent, Waiting
  <2>3. UnsentMoves(p) /\ RemoteAt(p)'
    BY <1>4, <1>6, <2>1 DEF UnsentMoves, Unsent, RemoteAt, Newer
  <2>4. FenceAt(p)' /\ DeliveredAt(p)' /\ ~Owns(p)'
    BY <2>1 DEF FenceAt, DeliveredAt, Owns, Looks
  <2> QED BY <1>2, <2>1, <2>2, <2>3, <2>4, RemoteQuiet
<1>7. CASE /\ pc[p] = "recheck" /\ R!Ready(job[p].base)
           /\ pc' = [pc EXCEPT ![p] = "prepare"]
           /\ job' = [job EXCEPT ![p].csrf = boots, ![p].base = Factory]
  <2> DEFINE j == [job[p] EXCEPT !.csrf = boots, !.base = Factory]
  <2>1. j \in Job /\ j.token = None /\ j.release = job[p].release
    BY <1>1, <1>4, BridgeReleases DEF Job, DeviceTypeOK
  <2>2. job' = [job EXCEPT ![p] = j]
    BY <1>1, <1>7 DEF DeviceTypeOK
  <2> HIDE DEF j
  <2>3. Moves(p) /\ pc'[p] = "prepare" /\ job'[p] = j
    BY <1>1, <1>2, <1>7, <2>1, <2>2, MovesBy DEF Step
  <2>4. Silent(p)
    BY <1>3, <2>3 DEF Silent, Waiting
  <2>5. UnsentMoves(p) /\ RemoteAt(p)'
    BY <1>7, <2>1, <2>3 DEF UnsentMoves, Unsent, RemoteAt
  <2>6. ASSUME CarefulInv
        PROVE  FenceAt(p)' /\ DeliveredAt(p)' /\ Owns(p)
               /\ \A q \in wire : q.by = "remote" => q.kind # "filePrepare"
    <3>1. Owns(p) /\ FenceSound /\ DeliveredSound
      BY <1>0, <1>7, <2>6 DEF Owns, CarefulInv
    <3>2. FenceAt(p)'
      BY <1>2, <1>7, <2>1, <2>3, <3>1 DEF FenceSound, FenceAt, Looks
    \* The image that is to be replaced still runs: the new one was never sent.
    <3>3. delivered[job[p].release] = 0
      <4>1. dev.build = job[p].base /\ dev.state = "VALID" /\ job[p].base \in Release
        BY <1>1, <1>7, JobFields DEF R!Ready
      <4>2. VersionOf[job[p].base] \in Nat /\ VersionOf[job[p].release] \in Nat
        BY <1>1, <4>1, VersionIsNat
      <4>3. ~Behind(job[p].release)
        BY <1>4, <4>1, <4>2 DEF Behind, Floor, Newer
      <4> QED BY <1>0, <1>1, <1>7, <3>1, <4>3 DEF DeliveredSound, DeliveredAt, DeliveredCounts
    <3>4. DeliveredAt(p)'
      BY <1>2, <2>1, <2>3, <3>3 DEF DeliveredAt
    <3>5. \A q \in wire : q.by = "remote" => q.kind # "filePrepare"
      BY <1>7, <3>1 DEF DeliveredSound, RemoteWire
    <3> QED BY <3>1, <3>2, <3>4, <3>5
  <2> QED BY <1>2, <2>3, <2>4, <2>5, <2>6, RemoteQuiet
<1> QED BY <1>5, <1>6, <1>7 DEF R!CheckFirst, R!CheckAgain, R!Check, R!Goto

LEMMA RemotePreparedEffect ==
    ASSUME MacInv, NEW p \in Tool, RemoteFrame(p), R!Prepared(p)
    PROVE  RemoteEffect(p)
<1>0. program[p] = "remote"
  BY DEF RemoteFrame
<1>1. /\ DeviceTypeOK /\ WireSound /\ crashes \in 0 .. MaxCrashes /\ TokensSound /\ RemoteAt(p)
      /\ job[p] \in Job /\ job[p].release \in Release
  BY <1>0, RemoteIsReady
<1>2. /\ pc[p] = "preparing" /\ UNCHANGED device /\ Abandon(p)
      /\ program' = program /\ crashes' = crashes /\ fence' = fence /\ delivered' = delivered
      /\ archives' = archives
  BY SameNetwork DEF R!Prepared, R!device, device
<1>3. CASE R!Stop(p)
  <2>1. Moves(p) /\ pc'[p] = "idle" /\ job'[p].token = None
    BY <1>1, <1>2, <1>3, StopIs
  <2> QED BY <1>2, <2>1, RemoteLeaves
<1>4. CASE reply[p] # None /\ job' = [job EXCEPT ![p].token = reply[p]] /\ R!Goto(p, "save")
  <2> DEFINE j == [job[p] EXCEPT !.token = reply[p]]
  <2>1. j \in Job /\ j.token = reply[p] /\ j.release = job[p].release
    BY <1>1 DEF Job, DeviceTypeOK
  <2>2. job' = [job EXCEPT ![p] = j] /\ pc' = [pc EXCEPT ![p] = "save"]
    BY <1>1, <1>4 DEF R!Goto, DeviceTypeOK
  <2> HIDE DEF j
  <2>3. Moves(p) /\ pc'[p] = "save" /\ job'[p] = j
    BY <1>1, <1>2, <2>1, <2>2, MovesBy DEF Step
  <2>4. Silent(p)
    BY <1>2, <2>3 DEF Silent, Waiting
  <2>5. Unsent(p) = reply[p] /\ Unsent(p)' = reply[p]
    BY <1>2, <2>1, <2>3 DEF Unsent
  <2>6. UnsentMoves(p)
    BY <1>1, <1>2, <1>4, <2>1, <2>3, <2>5, UnsentIsIssued DEF UnsentMoves
  <2>7. RemoteAt(p)'
    BY <2>3 DEF RemoteAt
  <2>8. ASSUME CarefulInv
        PROVE  FenceAt(p)' /\ DeliveredAt(p)' /\ Owns(p)
               /\ \A q \in wire : q.by = "remote" => q.kind # "filePrepare"
    <3>1. Owns(p) /\ FenceSound /\ DeliveredSound
      BY <1>0, <1>2, <2>8 DEF Owns, CarefulInv
    <3>2. FenceAt(p)'
      BY <1>2, <2>1, <2>3, <3>1 DEF FenceSound, FenceAt, Looks
    <3>3. DeliveredAt(p)'
      BY <1>0, <1>2, <2>1, <2>3, <3>1 DEF DeliveredSound, DeliveredAt
    \* an answered prepare has left the wire
    <3>4. \A q \in wire : q.by = "remote" => q.kind # "filePrepare"
      BY <1>4, <3>1 DEF DeliveredSound, RemoteWire
    <3> QED BY <3>1, <3>2, <3>3, <3>4
  <2> QED BY <1>2, <2>3, <2>4, <2>6, <2>7, <2>8, RemoteQuiet
<1> QED BY <1>3, <1>4 DEF R!Prepared, R!Answered

LEMMA RemoteUploadEndsEffect ==
    ASSUME MacInv, NEW p \in Tool, RemoteFrame(p), R!UploadEnds(p)
    PROVE  RemoteEffect(p)
<1>0. program[p] = "remote"
  BY DEF RemoteFrame
<1>1. /\ DeviceTypeOK /\ WireSound /\ crashes \in 0 .. MaxCrashes /\ TokensSound /\ RemoteAt(p)
      /\ job[p] \in Job /\ job[p].release \in Release
  BY <1>0, RemoteIsReady
<1>2. /\ pc[p] = "uploading" /\ UNCHANGED device /\ Abandon(p) /\ pc' = [pc EXCEPT ![p] = "poll"]
      /\ job' = job
      /\ program' = program /\ crashes' = crashes /\ fence' = fence /\ delivered' = delivered
      /\ archives' = archives
  BY SameNetwork DEF R!UploadEnds, R!device, device, R!Goto
<1>3. Moves(p) /\ pc'[p] = "poll" /\ job'[p] = job[p]
  BY <1>1, <1>2, MovesBy DEF Step
<1>4. Silent(p)
  BY <1>2, <1>3 DEF Silent, Waiting
<1>5. UnsentMoves(p) /\ RemoteAt(p)'
  BY <1>1, <1>2, <1>3 DEF UnsentMoves, Unsent, RemoteAt, TokensSound
<1>6. ASSUME CarefulInv PROVE FenceAt(p)' /\ DeliveredAt(p)' /\ ~Owns(p)'
  <2>1. Owns(p) /\ FenceSound
    BY <1>0, <1>2, <1>6 DEF Owns, CarefulInv
  <2>2. FenceAt(p)'
    BY <1>2, <1>3, <2>1 DEF FenceSound, FenceAt, Owns, R!Torn
  <2> QED BY <1>3, <2>2 DEF DeliveredAt, Owns
<1> QED BY <1>2, <1>3, <1>4, <1>5, <1>6, RemoteQuiet

LEMMA ReconcileEffect ==
    ASSUME MacInv, NEW p \in Tool, RemoteFrame(p), R!Reconcile(p)
    PROVE  RemoteEffect(p)
<1>0. program[p] = "remote"
  BY DEF RemoteFrame
<1>1. /\ DeviceTypeOK /\ WireSound /\ crashes \in 0 .. MaxCrashes /\ TokensSound
      /\ R!RemoteTypeOK
  BY <1>0, RemoteIsReady
<1> DEFINE j == [NoJob EXCEPT !.release = fence.release, !.token = fence.token]
<1>2. /\ fence \notin {None, R!Torn} /\ fence.token # None /\ fence \in R!Fence
      /\ fence.release \in Release /\ fence.token \in Token \cup {None}
  BY <1>1, FenceFields DEF R!Reconcile, R!Recorded, R!RemoteTypeOK
<1>3. j \in Job /\ j.token = fence.token /\ j.release = fence.release
  BY <1>2, NoJobIsJob DEF Job, NoJob
<1>4. /\ pc[p] = "idle" /\ job' = [job EXCEPT ![p] = j]
      /\ pc' = [pc EXCEPT ![p] = "poll"] /\ UNCHANGED <<device, network>>
      /\ program' = program /\ crashes' = crashes /\ fence' = fence /\ delivered' = delivered
      /\ archives' = archives
  BY NoJobIsJob DEF R!Reconcile, R!Goto, R!device, R!network, device, network
<1> HIDE DEF j
<1>5. Moves(p) /\ pc'[p] = "poll" /\ job'[p] = j
  BY <1>1, <1>3, <1>4, MovesBy DEF Step
<1>6. Silent(p)
  BY <1>1, <1>4, <1>5, IdleAbandons DEF Silent, Waiting
<1>7. UnsentMoves(p)
  BY <1>1, <1>2, <1>3, <1>4, <1>5 DEF UnsentMoves, Unsent, TokensSound
<1>8. RemoteAt(p)'
  BY <1>2, <1>3, <1>5 DEF RemoteAt
<1>9. FenceAt(p)' /\ DeliveredAt(p)' /\ ~Owns(p)'
  BY <1>2, <1>3, <1>4, <1>5 DEF FenceAt, DeliveredAt, Owns, R!Torn
<1> QED BY <1>4, <1>5, <1>6, <1>7, <1>8, <1>9, RemoteQuiet

LEMMA RemotePollEffect ==
    ASSUME MacInv, NEW p \in Tool, RemoteFrame(p), R!Poll(p) \/ R!TimeIsUp(p)
    PROVE  RemoteEffect(p)
<1>0. program[p] = "remote"
  BY DEF RemoteFrame
<1>1. /\ DeviceTypeOK /\ DeviceSound /\ WireSound /\ crashes \in 0 .. MaxCrashes /\ TokensSound
      /\ RemoteAt(p) /\ job[p] \in Job /\ job[p].release \in Release
  BY <1>0, RemoteIsReady
<1>2. /\ pc[p] = "poll" /\ UNCHANGED <<device, network>>
      /\ program' = program /\ crashes' = crashes /\ fence' = fence /\ delivered' = delivered
      /\ archives' = archives
  BY DEF R!Poll, R!TimeIsUp, R!device, R!network, device, network
<1>3. Abandon(p)
  BY <1>1, <1>2, IdleAbandons DEF Waiting
<1>4. CASE R!Stop(p)
  <2>1. Moves(p) /\ pc'[p] = "idle" /\ job'[p].token = None
    BY <1>1, <1>2, <1>4, StopIs DEF device
  <2> QED BY <1>2, <1>3, <2>1, RemoteLeaves
<1>5. CASE /\ R!Settled(p) /\ R!SameTransaction(p) /\ R!Ready(job[p].release)
           /\ R!Goto(p, "valid") /\ UNCHANGED job
  <2>1. /\ pc' = [pc EXCEPT ![p] = "valid"] /\ job' = job
        /\ dev.build = job[p].release /\ dev.transaction = job[p].token /\ dev.state = "VALID"
    BY <1>5 DEF R!Goto, R!Settled, R!SameTransaction, R!Ready
  <2>2. Moves(p) /\ pc'[p] = "valid" /\ job'[p] = job[p]
    BY <1>1, <1>2, <2>1, MovesBy DEF Step
  <2>3. Silent(p)
    BY <1>3, <2>2 DEF Silent, Waiting
  <2>4. job[p].token # None /\ job[p].token \in Issued /\ job[p].token # 0
    <3>1. job[p].token # None /\ job[p].token \in Issued /\ opened \in Nat
      BY <1>1, <1>2 DEF TokensSound, RemoteAt, DeviceTypeOK, Token
    <3> QED BY <3>1 DEF Issued
  <2>5. InUse(job[p].token)
    BY <2>1 DEF InUse
  <2>6. UnsentMoves(p)
    <3>1. \A q \in Tool : Unsent(q) # job[p].token
      BY <1>1, <2>4, <2>5 DEF TokensSound
    <3> QED BY <1>2, <2>2, <2>4, <3>1 DEF UnsentMoves, Unsent
  <2>7. [release |-> job[p].release, token |-> job[p].token] \in confirmed
    BY <1>1, <2>1, <2>4 DEF DeviceSound
  <2>8. dev' = dev /\ confirmed' = confirmed /\ wire' = wire
    BY <1>2 DEF device, network
  <2>9. RemoteAt(p)'
    BY <2>2, <2>4, <2>7, <2>8 DEF RemoteAt
  <2>10. ASSUME CarefulInv PROVE FenceAt(p)' /\ DeliveredAt(p)' /\ ~Owns(p)'
    <3>1. FenceSound /\ DeliveredSound /\ Looks(p)
      BY <1>0, <1>2, <2>10 DEF Looks, CarefulInv
    <3>2. fence \notin {None, R!Torn} /\ fence.release = job[p].release /\ fence.token = job[p].token
      BY <3>1 DEF FenceSound, FenceAt
    <3>3. FenceAt(p)' /\ ~Owns(p)'
      BY <1>2, <2>2, <3>2 DEF FenceAt, Owns, R!Torn
    <3>4. delivered[job[p].release] = 1
      BY <2>4, <2>5, <3>1, <3>2 DEF DeliveredSound, DeliveredCounts
    <3>5. Behind(job[p].release)
      <4>1. VersionOf[dev.build] \in Nat
        BY <1>1, <2>1, VersionIsNat
      <4> QED BY <2>1, <4>1 DEF Behind, Floor
    <3>6. \A q \in wire : q.by # "remote"
      <4> SUFFICES ASSUME NEW q \in wire, q.by = "remote" PROVE FALSE
        OBVIOUS
      <4>1. q.kind \in {"filePrepare", "upload"}
        BY <1>1 DEF WireSound
      <4>2. q.kind # "filePrepare"
        BY <2>4, <3>1, <3>2 DEF DeliveredSound, RemoteWire
      <4>3. q.kind = "upload" => q.token = dev.transaction
        BY <2>1, <3>1, <3>2 DEF DeliveredSound, RemoteWire
      <4>4. q.kind # "upload"
        BY <1>1, <4>3 DEF TokensSound
      <4> QED BY <4>1, <4>2, <4>4
    <3>7. DeliveredAt(p)'
      BY <1>2, <2>2, <2>8, <3>4, <3>5, <3>6 DEF DeliveredAt, Behind, Floor
    <3> QED BY <3>3, <3>7
  <2> QED BY <1>2, <2>1, <2>2, <2>3, <2>6, <2>9, <2>10, RemoteQuiet
<1> QED BY <1>4, <1>5 DEF R!Poll, R!TimeIsUp

LEMMA RemoteCrashEffect ==
    ASSUME MacInv, NEW p \in Tool, RemoteFrame(p), R!Crash(p)
    PROVE  RemoteEffect(p)
<1>0. program[p] = "remote"
  BY DEF RemoteFrame
<1>1. DeviceTypeOK /\ crashes \in 0 .. MaxCrashes
  BY <1>0, RemoteIsReady
<1>2. /\ UNCHANGED device /\ Abandon(p) /\ R!Stop(p)
      /\ program' = program /\ crashes' = crashes + 1 /\ crashes < MaxCrashes
      /\ fence' = fence /\ delivered' = delivered /\ archives' = archives
  BY SameNetwork DEF R!Crash, R!device, device
<1>3. crashes' \in 0 .. MaxCrashes
  BY <1>1, <1>2, BridgeReleases
<1>4. Moves(p) /\ pc'[p] = "idle" /\ job'[p].token = None
  BY <1>1, <1>2, <1>3, StopIs
<1> QED BY <1>2, <1>4, RemoteLeaves

\* A step that only writes the fence, at a time when nothing that a remote
\* tool sent is on the wire.
LEMMA RemoteWrites ==
    ASSUME MacInv, NEW p \in Tool, RemoteFrame(p), Moves(p), pc[p] \notin Waiting, pc'[p] \notin Waiting,
           UNCHANGED network, delivered' = delivered, archives' = archives,
           UnsentMoves(p), RemoteAt(p)',
           fence' \in R!Fence \cup {R!Torn},
           fence' # R!Torn =>
              \/ fence'.token = None
              \/ fence'.token = Unsent(p) /\ pc'[p] = "upload"
              \/ fence'.token \in Issued /\ \A q \in Tool : Unsent(q) # fence'.token,
           ValidRecorded',
           CarefulInv =>
             /\ \A q \in Tool : FenceAt(q)'
             /\ \A q \in Tool \ {p} : Owns(p)' => ~Owns(q)
             /\ fence' # R!Torn => (fence'.token = None <=> fence'.phase = "RESERVED")
             /\ \A q \in wire : q.by # "remote"
             /\ DeliveredCounts' /\ DeliveredAt(p)' /\ RemoteShot
    PROVE  RemoteEffect(p)
<1>0. program[p] = "remote" /\ lock' = lock /\ file' = file
  BY DEF RemoteFrame
<1>1. DeviceTypeOK /\ R!RemoteTypeOK /\ DeviceSound /\ WireSound /\ TokensSound /\ RemoteSound
  BY <1>0, RemoteIsReady
<1>2. Silent(p)
  BY <1>1, IdleAbandons DEF Silent
<1>3. ToolStep(p)
  BY <1>2 DEF ToolStep
<1>4. TokenMoves(p)
  BY <1>0 DEF TokenMoves
<1>5. R!RemoteTypeOK'
  BY <1>1 DEF R!RemoteTypeOK, R!Fence, R!Torn, R!Token
<1>6. program' = program /\ confirmed' = confirmed /\ dev' = dev
  BY <1>1, MovesIs
<1>7. ASSUME NEW q \in Tool, q # p
      PROVE  /\ pc'[q] = pc[q] /\ job'[q] = job[q]
             /\ (Owns(q)' <=> Owns(q))
  BY <1>1, <1>3, <1>7, OthersStay
<1>8. RemoteSound'
  <2>1. ASSUME NEW q \in Tool, program[q] = "remote" PROVE RemoteAt(q)'
    <3>1. CASE q = p
      BY <3>1
    <3>2. CASE q # p
      BY <1>1, <1>6, <1>7, <2>1, <3>2 DEF RemoteSound, RemoteAt, Newer
    <3> QED BY <3>1, <3>2
  <2> HIDE DEF RemoteAt, ValidRecorded
  <2> QED BY <1>6, <2>1 DEF RemoteSound
<1>9. ASSUME CarefulInv
      PROVE  FenceSound' /\ DeliveredSound' /\ RemoteShot
  <2>0. FenceSound /\ DeliveredSound
    BY <1>9 DEF CarefulInv
  <2>1. R!Torn' = R!Torn
    BY DEF R!Torn
  <2>2. ASSUME NEW q \in Tool, NEW r \in Tool, Owns(q)', Owns(r)' PROVE q = r
    <3>1. CASE q # p /\ r # p
      <4>1. Owns(q) /\ Owns(r)
        BY <1>7, <2>2, <3>1
      <4> QED BY <2>0, <4>1 DEF FenceSound
    <3>2. CASE q = p /\ r # p
      BY <1>7, <1>9, <2>2, <3>2
    <3>3. CASE q # p /\ r = p
      BY <1>7, <1>9, <2>2, <3>3
    <3> QED BY <3>1, <3>2, <3>3
  <2>3. FenceSound'
    <3>1. \A q \in Tool : FenceAt(q)'
      BY <1>9
    <3>2. fence' # R!Torn => (fence'.token = None <=> fence'.phase = "RESERVED")
      BY <1>9
    <3> HIDE DEF FenceAt, Owns
    <3> QED BY <2>1, <2>2, <3>1, <3>2 DEF FenceSound
  <2>4. \A q \in wire' : q.by # "remote"
    BY <1>9 DEF network
  <2>5. RemoteWire'
    BY <2>4 DEF RemoteWire
  <2>6. ASSUME NEW q \in Tool, program[q] = "remote" PROVE DeliveredAt(q)'
    <3>1. CASE q = p
      BY <1>9, <3>1
    <3>2. CASE q # p
      <4>1. Behind(job[q].release)' <=> Behind(job[q].release)
        BY <1>6, <1>7, <3>2 DEF Behind, Floor
      <4>2. DeliveredAt(q)
        BY <2>0, <2>6 DEF DeliveredSound
      <4> HIDE DEF Behind
      <4> QED BY <1>7, <2>4, <3>2, <4>1, <4>2 DEF DeliveredAt
    <3> QED BY <3>1, <3>2
  <2>7. DeliveredSound'
    <3>1. DeliveredCounts'
      BY <1>9
    <3> HIDE DEF RemoteWire, DeliveredCounts, DeliveredAt
    <3> QED BY <1>6, <2>5, <2>6, <3>1 DEF DeliveredSound
  <2> QED BY <1>9, <2>3, <2>7
<1> QED BY <1>3, <1>4, <1>5, <1>8, <1>9 DEF RemoteEffect

\* How often images were sent, when the fence changes and nothing is sent.
LEMMA CountsKept ==
    ASSUME MacInv, DeliveredCounts, UNCHANGED <<device, network>>, delivered' = delivered,
           fence' \in R!Fence \cup {R!Torn},
           \A r \in Release : delivered[r] = 1 /\ Fenced = r /\ Fenced' # r => Behind(r),
           fence' # R!Torn /\ fence'.token # None =>
              (InUse(fence'.token) => delivered[fence'.release] = 1)
    PROVE  DeliveredCounts'
<1>1. dev' = dev /\ wire' = wire
  BY DEF device, network
<1>2. \A r \in Release : Behind(r)' <=> Behind(r)
  BY <1>1 DEF Behind, Floor
<1>3. \A r \in Release : delivered[r] \in {0, 1} /\ (delivered[r] = 1 /\ Fenced' # r => Behind(r))
  BY DEF DeliveredCounts
<1>4. InUse(fence.token)' <=> InUse(fence'.token)
  BY <1>1 DEF InUse
<1>5. R!Torn' = R!Torn
  BY DEF R!Torn
<1> HIDE DEF Behind, InUse, Fenced
<1> QED BY <1>2, <1>3, <1>4, <1>5 DEF DeliveredCounts

LEMMA CreateEffect ==
    ASSUME MacInv, NEW p \in Tool, RemoteFrame(p), R!Create(p)
    PROVE  RemoteEffect(p)
<1>0. program[p] = "remote"
  BY DEF RemoteFrame
<1>1. /\ DeviceTypeOK /\ WireSound /\ crashes \in 0 .. MaxCrashes /\ TokensSound
      /\ RemoteAt(p) /\ job[p] \in Job /\ job[p].release \in Release
  BY <1>0, RemoteIsReady
<1>2. /\ pc[p] = "reserve" /\ UNCHANGED <<device, network>>
      /\ program' = program /\ crashes' = crashes /\ delivered' = delivered /\ archives' = archives
  BY DEF R!Create, R!device, R!network, device, network
<1>3. CASE fence' = fence /\ R!Stop(p)
  <2>1. Moves(p) /\ pc'[p] = "idle" /\ job'[p].token = None
    BY <1>1, <1>2, <1>3, StopIs DEF device
  <2>2. Abandon(p)
    BY <1>1, <1>2, IdleAbandons DEF Waiting
  <2> QED BY <1>2, <1>3, <2>1, <2>2, RemoteLeaves
<1>4. CASE fence = None /\ fence' = R!Torn /\ R!Goto(p, "fill") /\ UNCHANGED job
  <2>1. Moves(p) /\ pc'[p] = "fill" /\ job'[p] = job[p]
    <3>1. pc' = [pc EXCEPT ![p] = "fill"] /\ crashes' \in 0 .. MaxCrashes
      BY <1>1, <1>2, <1>4 DEF R!Goto
    <3> QED BY <1>1, <1>2, <1>4, <3>1, MovesBy DEF Step
  <2>2. job[p].token = None
    BY <1>1, <1>2 DEF TokensSound
  <2>3. UnsentMoves(p) /\ RemoteAt(p)'
    BY <1>1, <1>2, <2>1, <2>2 DEF UnsentMoves, Unsent, RemoteAt, Newer
  <2>4. R!Torn' = R!Torn /\ R!Torn # None
    BY FenceIsWhole DEF R!Torn
  <2>5. ValidRecorded'
    BY <1>4, <2>4 DEF ValidRecorded
  <2>6. Fenced = None /\ Fenced' = None
    BY <1>4, <2>4 DEF Fenced
  <2>7. ASSUME CarefulInv
        PROVE  /\ \A q \in Tool : FenceAt(q)'
               /\ \A q \in Tool \ {p} : ~Owns(q)
               /\ \A q \in wire : q.by # "remote"
               /\ DeliveredCounts' /\ DeliveredAt(p)' /\ RemoteShot
    <3>0. FenceSound /\ DeliveredSound
      BY <2>7 DEF CarefulInv
    \* without a fence there is nobody to rob of it
    <3>1. \A q \in Tool : ~Owns(q) /\ ~Looks(q)
      <4> SUFFICES ASSUME NEW q \in Tool PROVE ~Owns(q) /\ ~Looks(q)
        OBVIOUS
      <4>1. FenceAt(q)
        BY <3>0 DEF FenceSound
      <4>2. ~Looks(q)
        BY <1>4, <4>1 DEF FenceAt
      <4>3. Owns(q) => pc[q] \in {"fill", "recheck", "prepare", "preparing", "save", "upload", "uploading"}
        BY DEF Owns
      <4>4. ~Owns(q)
        <5> SUFFICES ASSUME Owns(q) PROVE FALSE
          OBVIOUS
        <5>1. CASE pc[q] \in {"fill", "uploading"}
          BY <1>4, <2>4, <4>1, <5>1 DEF FenceAt
        <5>2. job[q].release \in Release /\ job[q].token \in Token \cup {None}
          BY <1>1, JobFields DEF DeviceTypeOK
        <5>3. CASE pc[q] \in {"recheck", "prepare", "preparing", "save"}
          <6>1. fence = [release |-> job[q].release, token |-> None, phase |-> "RESERVED"]
            BY <4>1, <5>3 DEF FenceAt
          <6> QED BY <1>4, <5>2, <6>1, RecordIsFence
        <5>4. CASE pc[q] = "upload"
          <6>1. fence = [release |-> job[q].release, token |-> job[q].token,
                         phase |-> "UPLOAD_MAY_HAVE_STARTED"]
            BY <4>1, <5>4 DEF FenceAt
          <6> QED BY <1>4, <5>2, <6>1, RecordIsFence
        <5> QED BY <4>3, <5>1, <5>3, <5>4
      <4> QED BY <4>2, <4>4
    <3>2. ASSUME NEW q \in Tool PROVE FenceAt(q)'
      <4>1. CASE q = p
        BY <1>4, <2>1, <2>4, <4>1 DEF FenceAt, Looks
      <4>2. CASE q # p
        <5>1. program' = program /\ pc'[q] = pc[q]
          BY <1>1, <2>1, <4>2, MovesIs
        <5>2. ~Owns(q)' /\ ~Looks(q)'
          BY <3>1, <5>1 DEF Owns, Looks
        <5> QED BY <5>2 DEF FenceAt
      <4> QED BY <4>1, <4>2
    <3>3. \A q \in wire : q.by # "remote"
      BY <1>4, <3>0 DEF DeliveredSound, RemoteWire
    <3>4. DeliveredCounts'
      BY <1>2, <1>4, <2>6, <3>0, BridgeReleases, CountsKept DEF DeliveredSound
    <3>5. DeliveredAt(p)'
      BY <2>1 DEF DeliveredAt
    <3>6. RemoteShot
      BY <1>2, <2>6 DEF RemoteShot
    <3> QED BY <3>1, <3>2, <3>3, <3>4, <3>5, <3>6
  <2> QED BY <1>2, <1>4, <2>1, <2>3, <2>5, <2>7, RemoteWrites DEF Waiting
<1> QED BY <1>3, <1>4 DEF R!Create, R!NoFence

LEMMA FillEffect ==
    ASSUME MacInv, NEW p \in Tool, RemoteFrame(p), R!Fill(p)
    PROVE  RemoteEffect(p)
<1>0. program[p] = "remote"
  BY DEF RemoteFrame
<1>1. /\ DeviceTypeOK /\ WireSound /\ crashes \in 0 .. MaxCrashes /\ TokensSound
      /\ RemoteAt(p) /\ job[p] \in Job /\ job[p].release \in Release
  BY <1>0, RemoteIsReady
<1>2. /\ pc[p] = "fill" /\ UNCHANGED <<device, network>> /\ job' = job
      /\ pc' = [pc EXCEPT ![p] = "recheck"] /\ fence' = R!Noted(p, "RESERVED")
      /\ program' = program /\ crashes' = crashes /\ delivered' = delivered /\ archives' = archives
  BY DEF R!Fill, R!Reserved, R!Goto, R!device, R!network, device, network
<1>3. Moves(p) /\ pc'[p] = "recheck" /\ job'[p] = job[p]
  BY <1>1, <1>2, MovesBy DEF Step
<1>4. job[p].token = None /\ Newer(job[p].release, job[p].base)
  BY <1>1, <1>2 DEF TokensSound, RemoteAt
<1>5. fence' = [release |-> job[p].release, token |-> None, phase |-> "RESERVED"]
  BY <1>2, <1>4 DEF R!Noted
<1>6. /\ fence' \in R!Fence /\ fence' \notin {None, R!Torn} /\ fence'.release = job[p].release
      /\ fence'.token = None /\ fence'.phase = "RESERVED"
  BY <1>1, <1>5, RecordIsFence
<1>7. UnsentMoves(p) /\ RemoteAt(p)'
  BY <1>2, <1>3, <1>4 DEF UnsentMoves, Unsent, RemoteAt, Newer
<1>8. R!Torn' = R!Torn
  BY DEF R!Torn
<1>9. ValidRecorded'
  BY <1>6 DEF ValidRecorded
<1>10. ASSUME CarefulInv
       PROVE  /\ \A q \in Tool : FenceAt(q)'
              /\ Owns(p)
              /\ \A q \in Tool \ {p} : ~Owns(q)
              /\ \A q \in wire : q.by # "remote"
              /\ DeliveredCounts' /\ DeliveredAt(p)' /\ RemoteShot
  <2>1. FenceSound /\ DeliveredSound /\ Owns(p)
    BY <1>0, <1>2, <1>10 DEF CarefulInv, Owns
  <2>2. fence = R!Torn
    BY <1>2, <2>1 DEF FenceSound, FenceAt
  <2>3. \A q \in Tool : (q # p => ~Owns(q)) /\ ~Looks(q)
    BY <2>1, <2>2 DEF FenceSound, FenceAt
  <2>4. ASSUME NEW q \in Tool PROVE FenceAt(q)'
    <3>1. CASE q = p
      BY <1>3, <1>5, <3>1 DEF FenceAt, Looks
    <3>2. CASE q # p
      <4>1. program' = program /\ pc'[q] = pc[q]
        BY <1>1, <1>3, <3>2, MovesIs
      <4>2. ~Owns(q)' /\ ~Looks(q)'
        BY <2>3, <3>2, <4>1 DEF Owns, Looks
      <4> QED BY <4>2 DEF FenceAt
    <3> QED BY <3>1, <3>2
  <2>5. \A q \in wire : q.by # "remote"
    BY <2>1, <2>2 DEF DeliveredSound, RemoteWire
  <2>6. Fenced = None /\ Fenced' = job[p].release
    BY <1>6, <1>8, <2>2 DEF Fenced
  <2>7. DeliveredCounts'
    BY <1>1, <1>2, <1>6, <2>1, <2>6, BridgeReleases, CountsKept DEF DeliveredSound
  <2>8. DeliveredAt(p)'
    <3>1. delivered[job[p].release] = 1 => Behind(job[p].release)
      BY <1>1, <2>1, <2>6, BridgeReleases DEF DeliveredSound, DeliveredCounts
    <3>2. dev' = dev
      BY <1>2 DEF device
    <3> QED BY <1>2, <1>3, <3>1, <3>2 DEF DeliveredAt, Behind, Floor
  <2>9. RemoteShot
    <3>1. RemoteDeployment!Intend(job[p].release)
      BY <1>2, <2>6 DEF RemoteDeployment!Intend
    <3> QED BY <1>1, <3>1 DEF RemoteShot, RemoteDeployment!Next
  <2> QED BY <2>1, <2>3, <2>4, <2>5, <2>7, <2>8, <2>9
<1> QED BY <1>2, <1>3, <1>6, <1>7, <1>9, <1>10, RemoteWrites DEF Waiting

\* The upload is announced before it is sent, by the only owner of the fence.
LEMMA RemoteSaveTokenEffect ==
    ASSUME MacInv, NEW p \in Tool, RemoteFrame(p), R!SaveToken(p)
    PROVE  RemoteEffect(p)
<1>0. program[p] = "remote"
  BY DEF RemoteFrame
<1>1. /\ DeviceTypeOK /\ WireSound /\ crashes \in 0 .. MaxCrashes /\ TokensSound
      /\ RemoteAt(p) /\ job[p] \in Job /\ job[p].release \in Release
      /\ job[p].token \in Token \cup {None}
  BY <1>0, RemoteIsReady
<1>2. /\ pc[p] = "save" /\ UNCHANGED <<device, network>> /\ job' = job
      /\ pc' = [pc EXCEPT ![p] = "upload"] /\ fence' = R!Noted(p, "UPLOAD_MAY_HAVE_STARTED")
      /\ program' = program /\ crashes' = crashes /\ delivered' = delivered /\ archives' = archives
  BY DEF R!SaveToken, R!Goto, R!device, R!network, device, network
<1>3. Moves(p) /\ pc'[p] = "upload" /\ job'[p] = job[p]
  BY <1>1, <1>2, MovesBy DEF Step
<1>4. job[p].token # None /\ Unsent(p) = job[p].token
  BY <1>1, <1>2 DEF TokensSound, Unsent
<1>5. Unsent(p) \in Issued /\ ~InUse(Unsent(p))
  BY <1>1, <1>4 DEF TokensSound
<1>6. fence' = [release |-> job[p].release, token |-> job[p].token, phase |-> "UPLOAD_MAY_HAVE_STARTED"]
  BY <1>2 DEF R!Noted
<1>7. /\ fence' \in R!Fence /\ fence' \notin {None, R!Torn} /\ fence'.release = job[p].release
      /\ fence'.token = job[p].token /\ fence'.phase = "UPLOAD_MAY_HAVE_STARTED"
  BY <1>1, <1>6, RecordIsFence
<1>8. UnsentMoves(p) /\ RemoteAt(p)'
  BY <1>2, <1>3, <1>4, <1>5 DEF UnsentMoves, Unsent, RemoteAt
<1>9. R!Torn' = R!Torn
  BY DEF R!Torn
<1>10. ValidRecorded'
  BY <1>7 DEF ValidRecorded
<1>11. ASSUME CarefulInv
       PROVE  /\ \A q \in Tool : FenceAt(q)'
              /\ \A q \in Tool \ {p} : ~Owns(q)
              /\ \A q \in wire : q.by # "remote"
              /\ DeliveredCounts' /\ DeliveredAt(p)' /\ RemoteShot
  <2>1. FenceSound /\ DeliveredSound /\ Owns(p)
    BY <1>0, <1>2, <1>11 DEF CarefulInv, Owns
  <2>2. /\ fence = [release |-> job[p].release, token |-> None, phase |-> "RESERVED"]
        /\ fence \notin {None, R!Torn} /\ fence.release = job[p].release
        /\ fence.token = None /\ fence.phase = "RESERVED"
    <3>1. fence = [release |-> job[p].release, token |-> None, phase |-> "RESERVED"]
      BY <1>2, <2>1 DEF FenceSound, FenceAt
    <3> QED BY <1>1, <3>1, RecordIsFence
  <2>3. \A q \in Tool : (q # p => ~Owns(q)) /\ ~Looks(q)
    <3>1. \A q \in Tool : Looks(q) => job[q].token # None /\ fence.token = job[q].token
      <4> SUFFICES ASSUME NEW q \in Tool, Looks(q)
                   PROVE  job[q].token # None /\ fence.token = job[q].token
        OBVIOUS
      <4>1. RemoteAt(q) /\ pc[q] \in {"poll", "valid"}
        BY DEF Looks, MacInv, RemoteSound
      <4> QED BY <2>1, <4>1 DEF RemoteAt, FenceSound, FenceAt
    <3> QED BY <2>1, <2>2, <3>1 DEF FenceSound
  <2>4. ASSUME NEW q \in Tool PROVE FenceAt(q)'
    <3>1. CASE q = p
      BY <1>3, <1>6, <3>1 DEF FenceAt, Looks
    <3>2. CASE q # p
      <4>1. program' = program /\ pc'[q] = pc[q]
        BY <1>1, <1>3, <3>2, MovesIs
      <4>2. ~Owns(q)' /\ ~Looks(q)'
        BY <2>3, <3>2, <4>1 DEF Owns, Looks
      <4> QED BY <4>2 DEF FenceAt
    <3> QED BY <3>1, <3>2
  <2>5. \A q \in wire : q.by # "remote"
    <3> SUFFICES ASSUME NEW q \in wire, q.by = "remote" PROVE FALSE
      OBVIOUS
    <3>1. q.kind \in {"filePrepare", "upload"} /\ (q.kind = "upload" => q.token \in Issued)
      BY <1>1 DEF WireSound
    <3>2. q.kind # "filePrepare"
      BY <1>2, <2>1 DEF DeliveredSound, RemoteWire
    <3>3. None \notin Issued
      BY <1>1, BridgeReleases DEF Issued, DeviceTypeOK, Token
    <3>4. q.kind # "upload"
      BY <2>1, <2>2, <3>1, <3>3 DEF DeliveredSound, RemoteWire
    <3> QED BY <3>1, <3>2, <3>4
  <2>6. Fenced = job[p].release /\ Fenced' = job[p].release
    BY <1>7, <1>9, <2>2 DEF Fenced
  <2>7. DeliveredCounts'
    BY <1>1, <1>2, <1>4, <1>5, <1>7, <2>1, <2>6, CountsKept DEF DeliveredSound
  <2>8. DeliveredAt(p)'
    BY <1>0, <1>2, <1>3, <2>1 DEF DeliveredAt, DeliveredSound
  <2>9. RemoteShot
    BY <1>2, <2>6 DEF RemoteShot
  <2> QED BY <2>3, <2>4, <2>5, <2>7, <2>8, <2>9
<1> QED BY <1>2, <1>3, <1>4, <1>7, <1>8, <1>10, <1>11, RemoteWrites DEF Waiting

LEMMA MarkValidEffect ==
    ASSUME MacInv, NEW p \in Tool, RemoteFrame(p), R!MarkValid(p)
    PROVE  RemoteEffect(p)
<1>0. program[p] = "remote"
  BY DEF RemoteFrame
<1>1. /\ DeviceTypeOK /\ WireSound /\ crashes \in 0 .. MaxCrashes /\ TokensSound
      /\ RemoteAt(p) /\ job[p] \in Job /\ job[p].release \in Release
      /\ job[p].token \in Token \cup {None}
  BY <1>0, RemoteIsReady
<1>2. /\ pc[p] = "valid" /\ UNCHANGED <<device, network>> /\ R!Stop(p)
      /\ fence' = R!Noted(p, "VALID")
      /\ program' = program /\ crashes' = crashes /\ delivered' = delivered /\ archives' = archives
  BY DEF R!MarkValid, R!device, R!network, device, network
<1>3. Moves(p) /\ pc'[p] = "idle" /\ job'[p].token = None
  BY <1>1, <1>2, StopIs DEF device
<1>4. /\ job[p].token # None /\ job[p].token \in Issued /\ \A q \in Tool : Unsent(q) # job[p].token
      /\ [release |-> job[p].release, token |-> job[p].token] \in confirmed
  <2>1. job[p].token # None /\ [release |-> job[p].release, token |-> job[p].token] \in confirmed
    BY <1>1, <1>2 DEF RemoteAt
  <2> QED BY <1>1, <1>2, <2>1 DEF TokensSound
<1>5. fence' = [release |-> job[p].release, token |-> job[p].token, phase |-> "VALID"]
  BY <1>2 DEF R!Noted
<1>6. /\ fence' \in R!Fence /\ fence' \notin {None, R!Torn} /\ fence'.release = job[p].release
      /\ fence'.token = job[p].token /\ fence'.phase = "VALID"
  BY <1>1, <1>5, RecordIsFence
<1>7. UnsentMoves(p) /\ RemoteAt(p)'
  BY <1>2, <1>3 DEF UnsentMoves, Unsent, RemoteAt
<1>8. R!Torn' = R!Torn /\ dev' = dev /\ confirmed' = confirmed
  BY <1>2 DEF R!Torn, device
<1>9. ValidRecorded'
  BY <1>4, <1>6, <1>8 DEF ValidRecorded
<1>10. ASSUME CarefulInv
       PROVE  /\ \A q \in Tool : FenceAt(q)'
              /\ ~Owns(p)'
              /\ \A q \in wire : q.by # "remote"
              /\ DeliveredCounts' /\ DeliveredAt(p)' /\ RemoteShot
  <2>1. FenceSound /\ DeliveredSound /\ Looks(p) /\ DeliveredAt(p)
    BY <1>0, <1>2, <1>10 DEF CarefulInv, Looks, DeliveredSound
  <2>2. fence \notin {None, R!Torn} /\ fence.release = job[p].release /\ fence.token = job[p].token
    BY <2>1 DEF FenceSound, FenceAt
  <2>3. ~Owns(p)' /\ ~Looks(p)'
    BY <1>3 DEF Owns, Looks
  <2>4. ASSUME NEW q \in Tool PROVE FenceAt(q)'
    <3>1. CASE q = p
      BY <2>3, <3>1 DEF FenceAt
    <3>2. CASE q # p
      <4>1. program' = program /\ pc'[q] = pc[q] /\ job'[q] = job[q]
        BY <1>1, <1>3, <3>2, MovesIs
      <4>2. (Owns(q)' <=> Owns(q)) /\ (Looks(q)' <=> Looks(q))
        BY <4>1 DEF Owns, Looks
      <4>3. FenceAt(q)
        BY <2>1 DEF FenceSound
      <4>4. job[q].release \in Release
        BY <1>1, JobFields DEF DeviceTypeOK
      \* whoever else is still about to send would hold this very token
      <4>5. Owns(q) => pc[q] = "uploading"
        <5> SUFFICES ASSUME Owns(q) PROVE pc[q] = "uploading"
          OBVIOUS
        <5>1. pc[q] # "fill"
          BY <2>2, <4>3 DEF FenceAt
        <5>2. pc[q] \notin {"recheck", "prepare", "preparing", "save"}
          <6> SUFFICES ASSUME pc[q] \in {"recheck", "prepare", "preparing", "save"} PROVE FALSE
            OBVIOUS
          <6>1. fence = [release |-> job[q].release, token |-> None, phase |-> "RESERVED"]
            BY <4>3 DEF FenceAt
          <6>2. fence.token = None
            BY <6>1
          <6> QED BY <1>4, <2>2, <6>2
        <5>3. pc[q] # "upload"
          <6> SUFFICES ASSUME pc[q] = "upload" PROVE FALSE
            OBVIOUS
          <6>1. fence = [release |-> job[q].release, token |-> job[q].token,
                         phase |-> "UPLOAD_MAY_HAVE_STARTED"]
            BY <4>3 DEF FenceAt
          <6>2. job[q].token = job[p].token
            BY <2>2, <6>1
          <6>3. Unsent(q) = job[q].token
            BY DEF Unsent
          <6> QED BY <1>4, <6>2, <6>3
        <5> QED BY <5>1, <5>2, <5>3 DEF Owns
      <4>6. (Owns(q) /\ pc[q] = "uploading") \/ Looks(q) =>
              fence.release = job[q].release /\ fence.token = job[q].token
        BY <4>3 DEF FenceAt
      <4> QED BY <1>6, <1>8, <2>2, <4>1, <4>2, <4>5, <4>6 DEF FenceAt
    <3> QED BY <3>1, <3>2
  <2>5. \A q \in wire : q.by # "remote"
    BY <1>2, <2>1 DEF DeliveredAt
  <2>6. Fenced' = None
    BY <1>6 DEF Fenced
  <2>7. Fenced \in {None, job[p].release}
    BY <2>2 DEF Fenced
  <2>8. delivered[job[p].release] = 1 /\ Behind(job[p].release)
    BY <1>2, <2>1 DEF DeliveredAt
  <2>9. DeliveredCounts'
    BY <1>1, <1>2, <1>6, <2>1, <2>6, <2>7, <2>8, BridgeReleases, CountsKept DEF DeliveredSound
  <2>10. DeliveredAt(p)'
    BY <1>3 DEF DeliveredAt
  <2>11. RemoteShot
    <3>1. CASE Fenced = None
      BY <1>2, <2>6, <3>1 DEF RemoteShot
    <3>2. CASE Fenced = job[p].release
      <4>1. Fenced # None
        BY <1>1, <3>2, BridgeReleases
      <4>2. RemoteDeployment!Resolve
        BY <1>2, <2>6, <2>8, <3>2, <4>1 DEF RemoteDeployment!Resolve
      <4> QED BY <4>2 DEF RemoteShot, RemoteDeployment!Next
    <3> QED BY <2>7, <3>1, <3>2
  <2> QED BY <2>3, <2>4, <2>5, <2>9, <2>10, <2>11
<1> QED BY <1>2, <1>3, <1>4, <1>6, <1>7, <1>9, <1>10, RemoteWrites DEF Waiting

\* A step that sends one request, in the state that the fence allows it.
LEMMA RemoteSends ==
    ASSUME MacInv, NEW p \in Tool, RemoteFrame(p),
           NEW kind \in {"filePrepare", "upload"}, NEW token \in Token \cup {None},
           Send(p, kind, token), UNCHANGED device, program' = program, crashes' = crashes,
           job' = job, fence' = fence, archives' = archives, pc' = [pc EXCEPT ![p] = Awaits(kind)],
           \/ pc[p] = "prepare" /\ kind = "filePrepare" /\ token = None /\ delivered' = delivered
           \/ /\ pc[p] = "upload" /\ kind = "upload" /\ token = job[p].token
              /\ delivered' = [delivered EXCEPT ![job[p].release] = @ + 1]
    PROVE  RemoteEffect(p)
<1>0. program[p] = "remote" /\ lock' = lock /\ file' = file
  BY DEF RemoteFrame
<1>1. /\ job[p] \in Job /\ DeviceTypeOK /\ DeviceSound /\ WireSound /\ TokensSound /\ RemoteSound
      /\ RemoteAt(p) /\ R!RemoteTypeOK /\ crashes \in 0 .. MaxCrashes /\ p # None
      /\ job[p].release \in Release /\ job[p].token \in Token \cup {None}
  BY <1>0, RemoteIsReady
<1>2. kind \in Kind /\ Awaits(kind) \in Step /\ job[p].release # None
  BY <1>1, BridgeReleases DEF Awaits, Kind, Step
<1>3. Moves(p) /\ pc'[p] = Awaits(kind) /\ job'[p] = job[p]
  <2>1. crashes' \in 0 .. MaxCrashes
    BY <1>1
  <2> QED BY <1>1, <1>2, <2>1, MovesBy
<1>4. Sends(p, kind, token)
  BY <1>0, <1>2, <1>3 DEF Sends, Waiting
<1>5. ToolStep(p)
  BY <1>2, <1>3, <1>4 DEF ToolStep
<1>6. /\ program' = program /\ confirmed' = confirmed /\ dev' = dev
  BY <1>1, <1>3, MovesIs
<1>7. reply'[p] = None
  BY <1>1, <1>5, StepKeepsDeviceType
<1>8. UnsentMoves(p)
  <2>1. Unsent(p)' = None
    BY <1>3, <1>7 DEF Unsent, Awaits
  <2>2. pc[p] = "prepare" => job[p].token = None
    BY <1>1 DEF TokensSound
  <2> QED BY <1>1, <1>3, <2>1, <2>2 DEF UnsentMoves, TokensSound, Awaits
<1>9. TokenMoves(p)
  BY <1>0, <1>8 DEF TokenMoves
<1>10. ASSUME NEW q \in Tool, q # p
       PROVE  /\ pc'[q] = pc[q] /\ job'[q] = job[q] /\ reply'[q] = reply[q]
              /\ (Owns(q)' <=> Owns(q)) /\ (Looks(q)' <=> Looks(q))
  BY <1>1, <1>5, <1>10, OthersStay
<1>11. R!Torn' = R!Torn
  BY DEF R!Torn
<1>12. RemoteSound'
  <2>1. ASSUME NEW q \in Tool, program[q] = "remote" PROVE RemoteAt(q)'
    <3>1. CASE q = p
      <4>1. pc[p] = "upload" => job[p].token # None
        BY <1>1 DEF TokensSound
      <4> QED BY <1>3, <3>1, <4>1 DEF RemoteAt, Awaits
    <3>2. CASE q # p
      BY <1>1, <1>6, <1>10, <2>1, <3>2 DEF RemoteSound, RemoteAt, Newer
    <3> QED BY <3>1, <3>2
  <2>2. ValidRecorded'
    BY <1>1, <1>6, <1>11 DEF RemoteSound, ValidRecorded
  <2> HIDE DEF RemoteAt, ValidRecorded
  <2> QED BY <1>6, <2>1, <2>2 DEF RemoteSound
<1>13. delivered \in [Release -> Nat] /\ delivered' \in [Release -> Nat]
  BY <1>1 DEF R!RemoteTypeOK
<1>14. R!RemoteTypeOK'
  BY <1>1, <1>13 DEF R!RemoteTypeOK, R!Fence, R!Torn, R!Token
<1>15. ASSUME CarefulInv
       PROVE  FenceSound' /\ DeliveredSound' /\ RemoteShot
  <2>1. FenceSound /\ DeliveredSound /\ Owns(p) /\ DeliveredAt(p)
    BY <1>0, <1>15 DEF CarefulInv, Owns, DeliveredSound
  <2>2. /\ fence \notin {None, R!Torn} /\ fence.release = job[p].release /\ fence.phase # "VALID"
        /\ pc[p] = "prepare" => fence.token = None
        /\ pc[p] = "upload" => fence.token = job[p].token
    <3>1. FenceAt(p)
      BY <2>1 DEF FenceSound
    <3>2. CASE pc[p] = "prepare"
      <4>1. fence = [release |-> job[p].release, token |-> None, phase |-> "RESERVED"]
        BY <2>1, <3>1, <3>2 DEF FenceAt
      <4> QED BY <1>1, <3>2, <4>1, RecordIsFence
    <3>3. CASE pc[p] = "upload"
      <4>1. fence = [release |-> job[p].release, token |-> job[p].token,
                     phase |-> "UPLOAD_MAY_HAVE_STARTED"]
        BY <2>1, <3>1, <3>3 DEF FenceAt
      <4> QED BY <1>1, <3>3, <4>1, RecordIsFence
    <3> QED BY <3>2, <3>3
  <2>3. \A q \in Tool : q # p => ~Owns(q)
    BY <2>1 DEF FenceSound
  <2>4. FenceSound'
    <3>1. ASSUME NEW q \in Tool PROVE FenceAt(q)' /\ (Owns(q)' => Owns(q))
      <4>1. CASE q = p
        <5>1. FenceAt(p)
          BY <2>1 DEF FenceSound
        <5> QED BY <1>3, <1>11, <2>1, <2>2, <4>1, <5>1 DEF FenceAt, Looks, Awaits
      <4>2. CASE q # p
        BY <1>10, <1>11, <2>1, <4>2 DEF FenceSound, FenceAt
      <4> QED BY <4>1, <4>2
    <3> HIDE DEF FenceAt, Owns
    <3> QED BY <1>11, <2>1, <3>1 DEF FenceSound
  <2>5. PICK n \in Request :
          /\ wire' = wire \cup {n} /\ n.kind = kind /\ n.release = job[p].release /\ n.token = token
          /\ n.by = program[p] /\ n.from = p
    BY <1>1, <1>2, SendIs
  <2>6. \A q \in wire : q.by = "remote" => q.kind # "filePrepare"
    BY <2>1 DEF DeliveredSound, RemoteWire
  <2>7. RemoteWire'
    <3> SUFFICES ASSUME NEW q \in wire', q.by = "remote"
                 PROVE  /\ fence.release = q.release
                        /\ q.kind = "filePrepare" =>
                             /\ fence.token = None
                             /\ \A r \in Tool : Owns(r)' =>
                                  pc'[r] = "preparing" /\ q.from = r /\ reply'[r] = None
                        /\ q.kind = "upload" => q.token = fence.token
      BY <1>11, <2>2 DEF RemoteWire
    <3>1. CASE q = n
      <4>1. \A r \in Tool : Owns(r)' => r = p
        BY <1>10, <2>3
      <4>2. kind = "filePrepare" => pc'[p] = "preparing"
        BY <1>3 DEF Awaits
      <4> QED BY <1>7, <2>2, <2>5, <3>1, <4>1, <4>2
    <3>2. CASE q \in wire
      BY <2>1, <2>6, <3>2 DEF DeliveredSound, RemoteWire
    <3> QED BY <2>5, <3>1, <3>2
  <2>8. Fenced = job[p].release /\ Fenced' = job[p].release
    BY <1>11, <2>2 DEF Fenced
  <2>9. /\ kind = "upload" => /\ delivered[job[p].release] = 0
                              /\ delivered' = [delivered EXCEPT ![job[p].release] = 1]
        /\ kind # "upload" => delivered' = delivered
    <3>1. pc[p] = "upload" => delivered[job[p].release] = 0
      BY <2>1 DEF DeliveredAt
    <3> QED BY <1>1, <1>13, <3>1
  <2>10. \A r \in Release : Behind(r)' <=> Behind(r)
    BY <1>6 DEF Behind, Floor
  <2>11. DeliveredCounts'
    <3>1. \A r \in Release : delivered[r] \in {0, 1} /\ (delivered[r] = 1 /\ Fenced # r => Behind(r))
      BY <2>1 DEF DeliveredSound, DeliveredCounts
    <3>2. \A r \in Release : delivered'[r] \in {0, 1} /\ (r # job[p].release => delivered'[r] = delivered[r])
      BY <1>13, <2>9, <3>1
    <3>3. fence.token # None /\ InUse(fence.token)' => delivered'[fence.release] = 1
      <4>1. CASE kind = "upload"
        BY <1>1, <1>13, <2>2, <2>9, <4>1
      <4>2. CASE kind # "upload"
        <5>1. InUse(fence.token)' => InUse(fence.token)
          BY <1>6, <2>5, <4>2 DEF InUse
        <5> QED BY <2>1, <2>2, <2>9, <4>2, <5>1 DEF DeliveredSound, DeliveredCounts
      <4> QED BY <4>1, <4>2
    <3>4. \A r \in Release : delivered'[r] = 1 /\ Fenced' # r => Behind(r)'
      BY <2>8, <2>10, <3>1, <3>2
    <3> HIDE DEF Behind, InUse, Fenced
    <3> QED BY <1>11, <3>2, <3>3, <3>4 DEF DeliveredCounts
  <2>12. ASSUME NEW q \in Tool, program[q] = "remote" PROVE DeliveredAt(q)'
    <3>1. CASE q = p
      <4>1. pc[p] = "prepare" => delivered[job[p].release] = 0
        BY <2>1 DEF DeliveredAt
      <4> QED BY <1>3, <2>9, <3>1, <4>1 DEF DeliveredAt, Awaits
    <3>2. CASE q # p
      <4>1. ~Owns(q)
        BY <2>3, <3>2
      <4>2. pc'[q] = pc[q] /\ job'[q] = job[q]
        BY <1>10, <3>2
      \* nobody looks at a deployment whose image is not sent yet
      <4>3. pc[q] # "valid"
        <5> SUFFICES ASSUME pc[q] = "valid" PROVE FALSE
          OBVIOUS
        <5>1. /\ fence.token = job[q].token
          BY <2>1, <2>12 DEF FenceSound, FenceAt, Looks
        <5>2. job[q].token # None /\ Unsent(p) # job[q].token
          BY <1>1, <2>12 DEF RemoteSound, RemoteAt, TokensSound
        <5>3. pc[p] = "upload" => Unsent(p) = job[p].token
          BY DEF Unsent
        <5> QED BY <2>2, <5>1, <5>2, <5>3
      <4> QED BY <2>12, <4>1, <4>2, <4>3 DEF DeliveredAt, Owns
    <3> QED BY <3>1, <3>2
  <2>13. DeliveredSound'
    <3> HIDE DEF RemoteWire, DeliveredCounts, DeliveredAt
    <3> QED BY <1>6, <2>7, <2>11, <2>12 DEF DeliveredSound
  <2>14. RemoteShot
    <3>1. CASE kind = "upload"
      <4>1. RemoteDeployment!Upload
        BY <1>2, <2>8, <2>9, <3>1 DEF RemoteDeployment!Upload
      <4> QED BY <4>1 DEF RemoteShot, RemoteDeployment!Next
    <3>2. CASE kind # "upload"
      BY <2>8, <2>9, <3>2 DEF RemoteShot
    <3> QED BY <3>1, <3>2
  <2> QED BY <2>4, <2>13, <2>14
<1> QED BY <1>5, <1>9, <1>12, <1>14, <1>15 DEF RemoteEffect

LEMMA RemoteSendEffect ==
    ASSUME MacInv, NEW p \in Tool, RemoteFrame(p), R!SendPrepare(p) \/ R!SendUpload(p)
    PROVE  RemoteEffect(p)
<1>0. job[p].token \in Token \cup {None} /\ None \in Token \cup {None}
  BY RemoteIsReady DEF RemoteFrame
<1>1. Awaits("filePrepare") = "preparing" /\ Awaits("upload") = "uploading"
  BY DEF Awaits
<1>2. CASE R!SendPrepare(p)
  <2>1. /\ pc[p] = "prepare" /\ Send(p, "filePrepare", None) /\ pc' = [pc EXCEPT ![p] = "preparing"]
        /\ UNCHANGED device /\ program' = program /\ crashes' = crashes /\ job' = job
        /\ fence' = fence /\ archives' = archives /\ delivered' = delivered
    BY <1>2, SameNetwork DEF R!SendPrepare, R!Goto, R!device, device
  <2> QED BY <1>0, <1>1, <2>1, RemoteSends
<1>3. CASE R!SendUpload(p)
  <2>1. /\ pc[p] = "upload" /\ Send(p, "upload", job[p].token) /\ pc' = [pc EXCEPT ![p] = "uploading"]
        /\ UNCHANGED device /\ program' = program /\ crashes' = crashes /\ job' = job
        /\ fence' = fence /\ archives' = archives
        /\ delivered' = [delivered EXCEPT ![job[p].release] = @ + 1]
    BY <1>3, SameNetwork DEF R!SendUpload, R!Goto, R!device, device
  <2> QED BY <1>0, <1>1, <2>1, RemoteSends
<1> QED BY <1>2, <1>3

LEMMA RemoteStepEffect ==
    ASSUME MacInv, NEW p \in Tool, Remotes(p)
    PROVE  RemoteEffect(p) /\ lock' = lock /\ file' = file /\ sent' = sent
<1>1. RemoteFrame(p) /\ R!RemoteStep(p)
  BY DEF Remotes, RemoteFrame
<1> SUFFICES RemoteEffect(p)
  BY <1>1 DEF RemoteFrame
<1>2. CASE R!CheckFirst(p) \/ R!CheckAgain(p)
  BY <1>1, <1>2, CheckEffect
<1>3. CASE R!SendPrepare(p) \/ R!SendUpload(p)
  BY <1>1, <1>3, RemoteSendEffect
<1>4. CASE R!Poll(p) \/ R!TimeIsUp(p)
  BY <1>1, <1>4, RemotePollEffect
<1>5. CASE \E base, r \in Release : R!Deploy(p, base, r)
  BY <1>1, <1>5, DeployEffect
<1>6. CASE R!Create(p)
  BY <1>1, <1>6, CreateEffect
<1>7. CASE R!Fill(p)
  BY <1>1, <1>7, FillEffect
<1>8. CASE R!Prepared(p)
  BY <1>1, <1>8, RemotePreparedEffect
<1>9. CASE R!SaveToken(p)
  BY <1>1, <1>9, RemoteSaveTokenEffect
<1>10. CASE R!UploadEnds(p)
  BY <1>1, <1>10, RemoteUploadEndsEffect
<1>11. CASE R!MarkValid(p)
  BY <1>1, <1>11, MarkValidEffect
<1>12. CASE R!Crash(p)
  BY <1>1, <1>12, RemoteCrashEffect
<1>13. CASE R!Reconcile(p)
  BY <1>1, <1>13, ReconcileEffect
<1> QED BY <1>1, <1>2, <1>3, <1>4, <1>5, <1>6, <1>7, <1>8, <1>9, <1>10, <1>11, <1>12, <1>13 DEF R!RemoteStep

-----------------------------------------------------------------------------
(* The invariant holds.                                                    *)

LEMMA StartIsSound ==
    ASSUME MacToolsInit
    PROVE  MacInv /\ CarefulInv
<1>1. /\ boots = 0 /\ opened = 0 /\ confirmed = {} /\ wire = {} /\ reply = [p \in Tool |-> None]
      /\ program \in [Tool -> Program] /\ crashes = 0
      /\ pc = [p \in Tool |-> "idle"] /\ job = [p \in Tool |-> NoJob]
      /\ lock = None /\ file = None /\ sent = [r \in Release |-> 0]
      /\ fence = None /\ delivered = [r \in Release |-> 0] /\ archives = 0
  BY DEF MacToolsInit, DeviceInit, C!ControllerInit, R!RemoteInit
<1>2. FirstOffer \in Offer /\ FirstOffer.token = 0 /\ FirstOffer.release = Factory /\ FirstOffer # None
  <2>1. FirstOffer \in Offer
    BY BridgeReleases DEF FirstOffer, Offer, Token
  <2> QED BY <2>1, BridgeReleases DEF FirstOffer
<1>3. PICK journal \in {None, FirstOffer} :
        dev = [build |-> Factory, prior |-> Factory, staged |-> FALSE, journal |-> journal,
               state |-> IF journal = None THEN "USB_BASELINE" ELSE "VALID",
               transaction |-> IF journal = None THEN None ELSE 0,
               attempt |-> IF journal = None THEN 0 ELSE VersionOf[Factory],
               phase |-> "IDLE", offer |-> None]
  BY DEF MacToolsInit, DeviceInit
<1>4. /\ dev.build = Factory /\ dev.prior = Factory /\ dev.staged = FALSE /\ dev.journal = journal
      /\ dev.state = IF journal = None THEN "USB_BASELINE" ELSE "VALID"
      /\ dev.transaction = IF journal = None THEN None ELSE 0
      /\ dev.phase = "IDLE" /\ dev.offer = None
  BY <1>3
<1>5. 0 \in Token /\ 0 # None
  BY BridgeReleases DEF Token
<1>6. dev \in DevType
  <2>1. VersionOf[Factory] \in Nat /\ Factory \in Release
    BY BridgeReleases
  <2>2. journal \in Offer \cup {None}
    BY <1>2
  <2>3. (IF journal = None THEN "USB_BASELINE" ELSE "VALID") \in BootState
    BY DEF BootState
  <2>4. (IF journal = None THEN None ELSE 0) \in Token \cup {None}
    BY <1>5
  <2>5. (IF journal = None THEN 0 ELSE VersionOf[Factory]) \in Nat
    BY <2>1
  <2> QED BY <1>3, <2>1, <2>2, <2>3, <2>4, <2>5 DEF DevType
<1>7. DeviceTypeOK
  BY <1>1, <1>5, <1>6, NoJobIsJob, BridgeReleases DEF DeviceTypeOK, Step
<1>8. C!ControllerTypeOK /\ R!RemoteTypeOK
  BY <1>1, OperatorConstants DEF C!ControllerTypeOK, R!RemoteTypeOK
<1>9. DeviceSound
  BY <1>1, <1>2, <1>4, <1>5 DEF DeviceSound
<1>10. WireSound /\ LockSound
  BY <1>1 DEF WireSound, LockSound
<1>11. TokensSound
  BY <1>1, NoJobIsJob DEF TokensSound, Unsent
<1>12. SentSound
  <2>1. \A p \in Tool : SentAt(p)
    BY <1>1 DEF SentAt
  <2> QED BY <1>1, <2>1 DEF SentSound, ControllerWire, SentCounts, SuccessRecorded
<1>13. RemoteSound
  <2>1. \A p \in Tool : RemoteAt(p)
    BY <1>1 DEF RemoteAt
  <2> QED BY <1>1, <2>1 DEF RemoteSound, ValidRecorded
<1>14. FenceSound
  <2>1. \A p \in Tool : FenceAt(p) /\ ~Owns(p)
    BY <1>1 DEF FenceAt, Owns, Looks
  <2> QED BY <1>1, <2>1 DEF FenceSound
<1>15. DeliveredSound
  <2>1. \A p \in Tool : DeliveredAt(p)
    BY <1>1 DEF DeliveredAt
  <2> QED BY <1>1, <2>1 DEF DeliveredSound, RemoteWire, DeliveredCounts
<1> HIDE DEF DeviceTypeOK, DeviceSound, WireSound, TokensSound, LockSound, SentSound, RemoteSound,
             FenceSound, DeliveredSound
<1> QED BY <1>7, <1>8, <1>9, <1>10, <1>11, <1>12, <1>13, <1>14, <1>15
        DEF MacInv, CarefulInv, MacToolsTypeOK

LEMMA InvUnfolds ==
    ASSUME MacInv
    PROVE  /\ DeviceTypeOK /\ C!ControllerTypeOK /\ R!RemoteTypeOK /\ DeviceSound /\ WireSound
           /\ TokensSound /\ LockSound /\ SentSound /\ RemoteSound /\ UploadsSpent
           /\ \A q \in wire : q.kind = "upload" => q.token \in Issued
           /\ \A q, r \in wire : q.kind = "upload" /\ r.kind = "upload" /\ q.token = r.token => q = r
<1>1. /\ DeviceTypeOK /\ C!ControllerTypeOK /\ R!RemoteTypeOK /\ DeviceSound /\ WireSound
      /\ TokensSound /\ LockSound /\ SentSound /\ RemoteSound
  BY DEF MacInv, MacToolsTypeOK
<1>2. UploadsSpent
  BY <1>1 DEF TokensSound, UploadsSpent
<1>3. \A q \in wire : q.kind = "upload" => q.token \in Issued
  BY <1>1 DEF WireSound
<1>4. \A q, r \in wire : q.kind = "upload" /\ r.kind = "upload" /\ q.token = r.token => q = r
  BY <1>1 DEF TokensSound
<1> QED BY <1>1, <1>2, <1>3, <1>4

\* What one step does, whoever takes it.
StepKeeps ==
    /\ MacInv' /\ ControllerShot /\ QuarantineKept
    /\ CarefulOperator /\ CarefulInv => CarefulInv' /\ RemoteShot

\* A step that changes nothing the tools keep is a stuttering step of both
\* deployments.
LEMMA NobodyShoots ==
    ASSUME file' = file, sent' = sent, fence' = fence, delivered' = delivered, wire' \subseteq wire
    PROVE  ControllerShot /\ QuarantineKept /\ RemoteShot
<1>1. Controlled' = Controlled
  BY DEF Controlled
<1>2. R!Torn' = R!Torn
  BY DEF R!Torn
<1>3. Fenced' = Fenced
  BY <1>2 DEF Fenced
<1> QED BY <1>1, <1>3 DEF ControllerShot, QuarantineKept, RemoteShot

LEMMA DeviceStepKeeps ==
    ASSUME MacInv, DeviceNext /\ UNCHANGED <<processes, lock, file, sent, fence, delivered, archives>>
    PROVE  StepKeeps
<1>1. UNCHANGED processes /\ UNCHANGED <<lock, file, sent, fence, delivered, archives>>
  OBVIOUS
<1>2. DeviceEffect
  BY <1>1, InvUnfolds, DeviceNextEffect
<1>3. DeviceStep
  BY <1>1, <1>2 DEF DeviceStep, processes
<1>4. DeviceTypeOK' /\ DeviceSound' /\ wire' \subseteq wire
  BY <1>2 DEF DeviceEffect
<1>5. WireSound' /\ TokensSound' /\ LockSound' /\ SentSound' /\ RemoteSound'
  BY <1>3, InvUnfolds, DeviceKeepsWireSound, DeviceKeepsTokensSound, DeviceKeepsLockSound,
     DeviceKeepsSentSound, DeviceKeepsRemoteSound
<1>6. C!ControllerTypeOK'
  BY <1>1, InvUnfolds DEF C!ControllerTypeOK, C!Record, C!Token
<1>7. R!RemoteTypeOK'
  BY <1>1, InvUnfolds DEF R!RemoteTypeOK, R!Fence, R!Token, R!Torn
<1>8. MacInv'
  BY <1>4, <1>5, <1>6, <1>7 DEF MacInv, MacToolsTypeOK
<1>9. CarefulInv => CarefulInv'
  BY <1>3, InvUnfolds, DeviceKeepsFenceSound, DeviceKeepsDeliveredSound DEF CarefulInv
<1>10. ControllerShot /\ QuarantineKept /\ RemoteShot
  BY <1>1, <1>4, NobodyShoots
<1> QED BY <1>8, <1>9, <1>10 DEF StepKeeps

LEMMA ControllerStepKeeps ==
    ASSUME MacInv, NEW p \in Tool, Controls(p)
    PROVE  StepKeeps
<1>1. program[p] = "controller" /\ archives' = archives
  BY DEF Controls
<1>2. ControllerEffect(p) /\ fence' = fence /\ delivered' = delivered
  BY <1>1, ControllerStepEffect
<1>3. /\ ToolStep(p) /\ TokenMoves(p) /\ C!ControllerTypeOK' /\ LockSound' /\ SentSound'
      /\ ControllerShot /\ QuarantineKept
  BY <1>2 DEF ControllerEffect
<1>4. DeviceTypeOK' /\ DeviceSound' /\ WireSound' /\ TokensSound' /\ RemoteSound'
  BY <1>1, <1>2, <1>3, InvUnfolds, StepKeepsDeviceType, StepKeepsDeviceSound, StepKeepsWireSound,
     StepKeepsTokensSound, ControllerKeepsRemoteSound
<1>5. R!RemoteTypeOK'
  BY <1>1, <1>2, InvUnfolds DEF R!RemoteTypeOK, R!Fence, R!Token, R!Torn
<1>6. MacInv'
  BY <1>3, <1>4, <1>5 DEF MacInv, MacToolsTypeOK
<1>7. CarefulInv => CarefulInv'
  BY <1>1, <1>2, <1>3, InvUnfolds, ControllerKeepsFenceSound, ControllerKeepsDeliveredSound DEF CarefulInv
<1>8. RemoteShot
  <2>1. Fenced' = Fenced
    BY <1>2 DEF Fenced, R!Torn
  <2> QED BY <1>2, <2>1 DEF RemoteShot
<1> QED BY <1>3, <1>6, <1>7, <1>8 DEF StepKeeps

LEMMA RemoteStepKeeps ==
    ASSUME MacInv, NEW p \in Tool, Remotes(p)
    PROVE  StepKeeps
<1>1. program[p] = "remote"
  BY DEF Remotes
<1>2. RemoteEffect(p) /\ lock' = lock /\ file' = file /\ sent' = sent
  BY RemoteStepEffect
<1>3. /\ ToolStep(p) /\ TokenMoves(p) /\ R!RemoteTypeOK' /\ RemoteSound'
      /\ CarefulInv => FenceSound' /\ DeliveredSound' /\ RemoteShot
  BY <1>2 DEF RemoteEffect
<1>4. DeviceTypeOK' /\ DeviceSound' /\ WireSound' /\ TokensSound' /\ LockSound' /\ SentSound'
  BY <1>1, <1>2, <1>3, InvUnfolds, StepKeepsDeviceType, StepKeepsDeviceSound, StepKeepsWireSound,
     StepKeepsTokensSound, RemoteKeepsLockSound, RemoteKeepsSentSound
<1>5. C!ControllerTypeOK'
  BY <1>2, InvUnfolds DEF C!ControllerTypeOK, C!Record, C!Token
<1>6. MacInv'
  BY <1>3, <1>4, <1>5 DEF MacInv, MacToolsTypeOK
<1>7. CarefulInv => CarefulInv' /\ RemoteShot
  BY <1>3 DEF CarefulInv
<1>8. ControllerShot
  <2>1. Controlled' = Controlled
    BY <1>2 DEF Controlled
  <2> QED BY <1>2, <2>1 DEF ControllerShot
\* what it sends is its own, and what it gives up on is nobody's
<1>9. QuarantineKept
  <2>1. ASSUME NEW q \in wire', q \notin wire PROVE q.from = None \/ q.by = "remote"
    BY <1>1, <1>3, <2>1, InvUnfolds, RequestsOfOthers
  <2> QED BY <1>2, <2>1 DEF QuarantineKept
<1> QED BY <1>6, <1>7, <1>8, <1>9 DEF StepKeeps

\* What nobody runs for any more can be archived: an upload of it that may
\* still arrive would have kept the fence from reading VALID.
LEMMA ArchiveKeeps ==
    ASSUME MacInv, R!Archive /\ UNCHANGED <<lock, file, sent>>
    PROVE  StepKeeps
<1>1. /\ archives < MaxArchives /\ archives' = archives + 1
      /\ fence \notin {None, R!Torn} /\ fence.phase = "VALID" /\ fence' = None
      /\ CarefulOperator => \A p \in Tool : program[p] = "remote" => pc[p] = "idle"
      /\ dev' = dev /\ boots' = boots /\ opened' = opened /\ confirmed' = confirmed
      /\ wire' = wire /\ reply' = reply
      /\ program' = program /\ pc' = pc /\ job' = job /\ crashes' = crashes
      /\ delivered' = delivered /\ lock' = lock /\ file' = file /\ sent' = sent
  BY DEF R!Archive, R!device, R!network, R!processes
<1>2. DeviceTypeOK' /\ C!ControllerTypeOK' /\ DeviceSound' /\ WireSound' /\ LockSound' /\ SentSound'
  <2>1. DeviceTypeOK' /\ DeviceSound' /\ WireSound'
    BY <1>1, InvUnfolds DEF DeviceTypeOK, DeviceSound, WireSound, Issued, Newer
  <2>2. C!ControllerTypeOK' /\ LockSound'
    BY <1>1, InvUnfolds DEF C!ControllerTypeOK, C!Record, C!Token, LockSound, LockAt, InProgress
  <2>3. ControllerWire' /\ SentCounts' /\ SuccessRecorded'
    BY <1>1, InvUnfolds DEF SentSound, ControllerWire, SentCounts, SuccessRecorded, Controlled, Behind,
                            Floor, InUse
  <2>4. \A p \in Tool : program[p] = "controller" => SentAt(p)'
    BY <1>1, InvUnfolds DEF SentSound, SentAt, Behind, Floor
  <2> HIDE DEF ControllerWire, SentCounts, SuccessRecorded, SentAt
  <2>5. SentSound'
    BY <1>1, <2>3, <2>4 DEF SentSound
  <2> QED BY <2>1, <2>2, <2>5
<1>3. R!RemoteTypeOK'
  <2>1. archives \in Nat /\ archives' \in 0 .. MaxArchives
    BY <1>1, InvUnfolds, OperatorConstants DEF R!RemoteTypeOK
  <2> QED BY <1>1, <2>1, InvUnfolds DEF R!RemoteTypeOK
<1>4. R!Torn' = R!Torn
  BY DEF R!Torn
<1>5. TokensSound'
  <2>1. TokensSound
    BY InvUnfolds
  <2>2. \A p \in Tool : Unsent(p)' = Unsent(p)
    BY <1>1 DEF Unsent
  <2>3. \A t : InUse(t)' <=> InUse(t)
    BY <1>1 DEF InUse
  <2>4. Issued' = Issued
    BY <1>1 DEF Issued
  <2>5. ASSUME NEW p \in Tool
        PROVE  /\ pc[p] \in {"read", "preflight", "intend", "check", "reserve", "fill", "recheck",
                             "prepare", "preparing"} => job[p].token = None
               /\ job[p].token # None => job[p].token \in Issued
               /\ pc[p] \in {"save", "upload"} => job[p].token # None
               /\ pc[p] \in {"fail", "valid"} /\ job[p].token # None =>
                    \A q \in Tool : Unsent(q) # job[p].token
               /\ Unsent(p) # None =>
                    /\ Unsent(p) \in Issued /\ ~InUse(Unsent(p))
                    /\ \A q \in Tool \ {p} : Unsent(q) # Unsent(p)
                    /\ file # None /\ file.token = Unsent(p) => lock = p /\ pc[p] = "upload"
    BY <2>1 DEF TokensSound
  <2>6. ASSUME NEW p \in Tool, Unsent(p) # None PROVE ~InUse(Unsent(p))'
    <3>1. InUse(Unsent(p))' <=> InUse(Unsent(p))
      BY <1>1, <2>2 DEF InUse
    <3> QED BY <2>5, <2>6, <3>1
  <2>7. /\ file # None /\ file.token # None => file.token \in Issued
        /\ \A q, r \in wire : q.kind = "upload" /\ r.kind = "upload" /\ q.token = r.token => q = r
        /\ \A q \in wire : q.kind = "upload" =>
             /\ dev.journal # None => dev.journal.token # q.token
             /\ dev.transaction # q.token
    BY <2>1 DEF TokensSound
  <2> HIDE DEF Unsent, InUse, Issued
  <2> QED BY <1>1, <1>4, <2>2, <2>4, <2>5, <2>6, <2>7 DEF TokensSound
<1>6. RemoteSound'
  <2>1. \A p \in Tool : program[p] = "remote" => RemoteAt(p)'
    BY <1>1, InvUnfolds DEF RemoteSound, RemoteAt, Newer
  <2>2. ValidRecorded'
    BY <1>1 DEF ValidRecorded
  <2> HIDE DEF RemoteAt, ValidRecorded
  <2> QED BY <1>1, <2>1, <2>2 DEF RemoteSound
<1>7. MacInv'
  BY <1>2, <1>3, <1>5, <1>6 DEF MacInv, MacToolsTypeOK
<1>8. ASSUME CarefulOperator, CarefulInv
      PROVE  CarefulInv' /\ RemoteShot
  <2>1. \A p \in Tool : program[p] = "remote" => pc[p] = "idle"
    BY <1>1, <1>8
  <2>2. FenceSound'
    <3>1. \A p \in Tool : ~Owns(p)' /\ ~Looks(p)'
      BY <1>1, <2>1 DEF Owns, Looks
    <3>2. \A p \in Tool : FenceAt(p)'
      BY <3>1 DEF FenceAt
    <3> HIDE DEF FenceAt, Owns
    <3> QED BY <1>1, <3>1, <3>2 DEF FenceSound
  <2>3. \A q \in wire : q.by # "remote"
    BY <1>1, <1>8 DEF CarefulInv, DeliveredSound, RemoteWire
  <2>4. Fenced = None /\ Fenced' = None
    BY <1>1 DEF Fenced
  <2>5. DeliveredCounts'
    <3>1. \A r \in Release : delivered[r] \in {0, 1} /\ (delivered[r] = 1 /\ Fenced # r => Behind(r))
      BY <1>8 DEF CarefulInv, DeliveredSound, DeliveredCounts
    <3>2. \A r \in Release : Behind(r)' <=> Behind(r)
      BY <1>1 DEF Behind, Floor
    <3> HIDE DEF Behind, Fenced, InUse
    <3> QED BY <1>1, <2>4, <3>1, <3>2 DEF DeliveredCounts
  <2>6. RemoteWire'
    BY <1>1, <2>3 DEF RemoteWire
  <2>7. \A p \in Tool : program[p] = "remote" => DeliveredAt(p)'
    BY <1>1, <2>1 DEF DeliveredAt
  <2> HIDE DEF RemoteWire, DeliveredCounts, DeliveredAt, FenceSound
  <2>8. DeliveredSound'
    BY <1>1, <2>5, <2>6, <2>7 DEF DeliveredSound
  <2> QED BY <1>1, <2>2, <2>4, <2>8 DEF CarefulInv, RemoteShot
<1>9. ControllerShot /\ QuarantineKept
  <2>1. Controlled' = Controlled
    BY <1>1 DEF Controlled
  <2> QED BY <1>1, <2>1 DEF ControllerShot, QuarantineKept
<1> QED BY <1>7, <1>8, <1>9 DEF StepKeeps

LEMMA StutterKeeps ==
    ASSUME MacInv, UNCHANGED vars
    PROVE  StepKeeps
<1>1. /\ dev' = dev /\ boots' = boots /\ opened' = opened /\ confirmed' = confirmed
      /\ wire' = wire /\ reply' = reply
      /\ program' = program /\ pc' = pc /\ job' = job /\ crashes' = crashes
      /\ lock' = lock /\ file' = file /\ sent' = sent
      /\ fence' = fence /\ delivered' = delivered /\ archives' = archives
  BY DEF vars, device, network, processes
<1>2. DeviceEffect
  <2>1. UNCHANGED <<device, processes>> /\ wire' \subseteq wire
        /\ reply' \in [Tool -> Token \cup {None}] /\ \A p \in Tool : reply'[p] \in {None, reply[p]}
    BY <1>1, InvUnfolds DEF device, processes, DeviceTypeOK
  <2> QED BY <2>1, InvUnfolds, QuietEffect
<1>3. DeviceStep
  BY <1>1, <1>2 DEF DeviceStep
<1>4. DeviceTypeOK' /\ DeviceSound' /\ wire' \subseteq wire
  BY <1>2 DEF DeviceEffect
<1>5. WireSound' /\ TokensSound' /\ LockSound' /\ SentSound' /\ RemoteSound'
  BY <1>3, InvUnfolds, DeviceKeepsWireSound, DeviceKeepsTokensSound, DeviceKeepsLockSound,
     DeviceKeepsSentSound, DeviceKeepsRemoteSound
<1>6. C!ControllerTypeOK' /\ R!RemoteTypeOK'
  BY <1>1, InvUnfolds
     DEF C!ControllerTypeOK, C!Record, C!Token, R!RemoteTypeOK, R!Fence, R!Token, R!Torn
<1>7. MacInv'
  BY <1>4, <1>5, <1>6 DEF MacInv, MacToolsTypeOK
<1>8. CarefulInv => CarefulInv'
  BY <1>3, InvUnfolds, DeviceKeepsFenceSound, DeviceKeepsDeliveredSound DEF CarefulInv
<1>9. ControllerShot /\ QuarantineKept /\ RemoteShot
  BY <1>1, <1>4, NobodyShoots
<1> QED BY <1>7, <1>8, <1>9 DEF StepKeeps

LEMMA NextKeeps ==
    ASSUME MacInv, [MacToolsNext]_vars
    PROVE  StepKeeps
<1>1. CASE DeviceNext /\ UNCHANGED <<processes, lock, file, sent, fence, delivered, archives>>
  BY <1>1, DeviceStepKeeps
<1>2. CASE \E p \in Tool : Controls(p)
  BY <1>2, ControllerStepKeeps
<1>3. CASE \E p \in Tool : Remotes(p)
  BY <1>3, RemoteStepKeeps
<1>4. CASE R!Archive /\ UNCHANGED <<lock, file, sent>>
  BY <1>4, ArchiveKeeps
<1>5. CASE UNCHANGED vars
  BY <1>5, StutterKeeps
<1> QED BY <1>1, <1>2, <1>3, <1>4, <1>5 DEF MacToolsNext

\* The invariant that the theorems follow from: what the device, the network,
\* the state file and the processes know of each transaction agrees.
THEOREM MacAgree == MacToolsSpec => []MacInv
<1>1. MacToolsInit => MacInv
  BY StartIsSound
<1>2. MacInv /\ [MacToolsNext]_vars => MacInv'
  BY NextKeeps DEF StepKeeps
<1> QED BY <1>1, <1>2, PTL DEF MacToolsSpec

\* If the operator archives a fence only while no remote tool runs, the fence
\* says what the remote tools did, too.
THEOREM FencesAgree == CarefulOperator /\ MacToolsSpec => [](MacInv /\ CarefulInv)
<1> SUFFICES ASSUME CarefulOperator PROVE MacToolsSpec => [](MacInv /\ CarefulInv)
  OBVIOUS
<1>1. MacToolsInit => MacInv /\ CarefulInv
  BY StartIsSound
<1>2. (MacInv /\ CarefulInv) /\ [MacToolsNext]_vars => (MacInv /\ CarefulInv)'
  BY NextKeeps DEF StepKeeps
<1> QED BY <1>1, <1>2, PTL DEF MacToolsSpec

-----------------------------------------------------------------------------
(* The properties.                                                         *)

\* Every variable of the device, the network and both programs keeps its type.
THEOREM MacTypes == MacToolsSpec => []MacToolsTypeOK
<1>1. MacInv => MacToolsTypeOK
  BY DEF MacInv
<1> QED BY <1>1, MacAgree, PTL

\* While a prepare or an upload of a controller may still arrive, the state
\* file names its release and is not done with it.
THEOREM IntentPrecedes == MacToolsSpec => []IntentCoversMutation
<1>1. MacInv => IntentCoversMutation
  BY DEF MacInv, SentSound, ControllerWire, IntentCoversMutation
<1> QED BY <1>1, MacAgree, PTL

\* Neither program records a success that the device did not confirm under
\* the very transaction that this deployment opened.
THEOREM SuccessIsReal == MacToolsSpec => []SuccessWasConfirmed
<1>1. MacInv => SuccessWasConfirmed
  BY DEF MacInv, SentSound, SuccessRecorded, RemoteSound, ValidRecorded, SuccessWasConfirmed
<1> QED BY <1>1, MacAgree, PTL

\* A record of failure stays as it is, and no controller sends anything more.
THEOREM QuarantineHolds == MacToolsSpec => QuarantineIsFinal
<1>1. MacInv /\ [MacToolsNext]_vars =>
        [C!Quarantined => /\ file' = file
                          /\ \A q \in wire' \ wire : q.from = None \/ q.by = "remote"]_vars
  BY NextKeeps DEF StepKeeps, QuarantineKept
<1> QED BY <1>1, MacAgree, PTL DEF MacToolsSpec, QuarantineIsFinal

\* The controllers implement one-shot deployment: every step of the tools and
\* of the device is a step of OneShot on the state file's release, or none.
THEOREM ControllersAreOneShot == MacToolsSpec => ControllerIsOneShot
<1>1. MacToolsInit => ControllerDeployment!Init
  BY DEF MacToolsInit, C!ControllerInit, ControllerDeployment!Init, Controlled
<1>2. MacInv /\ [MacToolsNext]_vars => [ControllerDeployment!Next]_<<Controlled, sent>>
  BY NextKeeps DEF StepKeeps, ControllerShot
<1> QED BY <1>1, <1>2, MacAgree, PTL DEF MacToolsSpec, ControllerIsOneShot, ControllerDeployment!Spec

\* With an operator who archives a fence only while no remote tool runs: while
\* a request of a remote tool may still arrive, the fence stands, names its
\* release and does not read VALID.
THEOREM FencePrecedes == CarefulOperator /\ MacToolsSpec => []FenceCoversMutation
<1>1. MacInv /\ CarefulInv => FenceCoversMutation
  BY DEF CarefulInv, DeliveredSound, RemoteWire, FenceCoversMutation
<1> QED BY <1>1, FencesAgree, PTL

\* With that operator the remote tools implement one-shot deployment, too.
THEOREM RemotesAreOneShot == CarefulOperator /\ MacToolsSpec => RemoteIsOneShot
<1> SUFFICES ASSUME CarefulOperator PROVE MacToolsSpec => RemoteIsOneShot
  OBVIOUS
<1>1. MacToolsInit => RemoteDeployment!Init
  BY DEF MacToolsInit, R!RemoteInit, RemoteDeployment!Init, Fenced
<1>2. (MacInv /\ CarefulInv) /\ [MacToolsNext]_vars => [RemoteDeployment!Next]_<<Fenced, delivered>>
  BY NextKeeps DEF StepKeeps, RemoteShot
<1>3. MacToolsSpec => [](MacInv /\ CarefulInv)
  BY FencesAgree
<1> QED BY <1>1, <1>2, <1>3, PTL DEF MacToolsSpec, RemoteIsOneShot, RemoteDeployment!Spec
=============================================================================
