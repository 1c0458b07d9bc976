---------------------------- MODULE EvidencePacket ----------------------------
(***************************************************************************)
(* scripts/validate_evidence_packet.py: a packet of physical evidence, the *)
(* private files it names, and whether it may close its gate.  A person    *)
(* writes the packet; the validator reads it once, from the head to the    *)
(* content, and hashes each file as it comes to the artifact.              *)
(***************************************************************************)
EXTENDS Integers, Sequences

CONSTANTS
    Fields,         \* IDENTITY_CLAIM_FIELDS
    Unseen,         \* what stands for no observation: null, "unverified", ...
    GateFacts,      \* field -> the observations that satisfy the gate
    RequiredRoles,  \* packet type -> what its artifacts must show between them
    Pairs,          \* CONTINUITY_MATRIX
    Scopes,         \* that an approval may have
    PrivatePaths,   \* below .arduino/evidence/hardware/private
    Gone, SymLink,
    Packets,        \* what may be handed in
    Disks           \* path -> [digest, capture], Gone or SymLink

PacketType == {"identity-photo", "continuity", "approval", "passive-capture"}

ASSUME EvidenceAssumption ==
    /\ DOMAIN RequiredRoles = PacketType
    /\ DOMAIN GateFacts \subseteq Fields
    /\ \A f \in DOMAIN GateFacts : GateFacts[f] \cap Unseen = {}
    /\ \A p \in Packets :
         /\ p.type \in PacketType
         /\ Len(p.artifacts) \in Nat /\ DOMAIN p.artifacts = 1..Len(p.artifacts)

VARIABLES
    packet, disk,
    asked,          \* the options: template allowed, artifacts, gateReady
    checking,       \* the check that comes next; "idle", "pass" or "fail"
    hashed,         \* how many artifacts passed
    gateReady       \* the result of the type's own validation

packetInputs == <<packet, disk, asked>>
packetVars == <<packet, disk, asked, checking, hashed, gateReady>>

PacketInit ==
    /\ packet = [type |-> "none"] /\ disk = <<>>
    /\ asked = [template |-> FALSE, artifacts |-> FALSE, gateReady |-> FALSE]
    /\ checking = "idle" /\ hashed = 0 /\ gateReady = FALSE

-----------------------------------------------------------------------------
\* The repository's own templates are the only ones that are allowed, and they
\* are validated without the other options.
LoadPacket ==
    /\ checking = "idle"
    /\ packet' \in Packets /\ disk' \in Disks
    /\ asked' \in [template : {FALSE}, artifacts : BOOLEAN, gateReady : BOOLEAN]
                    \cup [template : {TRUE}, artifacts : {FALSE}, gateReady : {FALSE}]
    /\ checking' = "head"
    /\ UNCHANGED <<hashed, gateReady>>

\* A check passes on to the next one or fails.
GoOn(from, ok, to) ==
    /\ checking = from
    /\ checking' = IF ok THEN to ELSE "fail"
    /\ UNCHANGED packetInputs

IsTemplate == packet.status = "template"

\* Contract and schema, the design, the proof stage, the operator, the target.
HeadAccepted ==
    /\ packet.deviations = {}
    /\ IF IsTemplate
       THEN asked.template /\ packet.type = "identity-photo" /\ packet.dated = FALSE
       ELSE packet.status = "captured" /\ packet.dated
CheckHead ==
    /\ GoOn("head", HeadAccepted, "artifacts") /\ UNCHANGED <<hashed, gateReady>>

Artifact(i) == packet.artifacts[i]
Distinct(entries, f) == \A i, j \in DOMAIN entries : entries[i][f] = entries[j][f] => i = j
\* Without require_artifacts only the form of the entry is checked.
Intact(a) ==
    disk[a.path] \notin {Gone, SymLink} /\ disk[a.path].digest = a.digest
ArtifactAccepted(a) ==
    IF IsTemplate THEN a.path = Gone
    ELSE a.path \in PrivatePaths /\ (asked.artifacts => Intact(a))
CheckArtifact ==
    /\ checking = "artifacts" /\ hashed < Len(packet.artifacts)
    /\ LET a == Artifact(hashed + 1) IN
         GoOn("artifacts",
                 /\ \A i \in 1..hashed : Artifact(i).id # a.id
                 /\ a.roles # {} /\ ArtifactAccepted(a),
                 "artifacts")
    /\ hashed' = hashed + 1 /\ UNCHANGED gateReady

ArtifactIds == {Artifact(i).id : i \in DOMAIN packet.artifacts}
\* Of a template as well, which names the roles of photographs to come.
RolesCovered ==
    RequiredRoles[packet.type] \subseteq UNION {Artifact(i).roles : i \in DOMAIN packet.artifacts}
CheckRoles ==
    /\ checking = "artifacts" /\ hashed = Len(packet.artifacts)
    /\ GoOn("artifacts", RolesCovered, packet.type)
    /\ UNCHANGED <<hashed, gateReady>>

-----------------------------------------------------------------------------
\* Power and wiring: null in a template, else what the type requires.
ConditionsMet == packet.conditions = IF IsTemplate THEN "null" ELSE "required"

Cited(refs) == refs # {} /\ refs \subseteq ArtifactIds
Claim(i) == packet.claims[i]
ClaimsAccepted ==
    /\ Distinct(packet.claims, "id")
    /\ Distinct(packet.claims, "field")
    /\ \A i \in DOMAIN packet.claims :
         /\ Claim(i).field \in Fields
         /\ Claim(i).class = "OBS"
         /\ Cited(Claim(i).refs)
ClaimedFields == {Claim(i).field : i \in DOMAIN packet.claims}
Claimed(f, value) == \E i \in DOMAIN packet.claims : Claim(i).field = f /\ Claim(i).value = value

IsObserved(f) == packet.content[f] \notin Unseen
ObservedMatches(f) ==                   \* mutant: the claim may say anything else
    IF IsObserved(f) THEN f \in ClaimedFields /\ f \notin packet.unverified
    ELSE f \in packet.unverified /\ f \notin ClaimedFields
\* A field is either observed, claimed and not unverified, or the opposite.
FieldSettled(f) ==
    IF IsObserved(f) THEN Claimed(f, packet.content[f]) /\ f \notin packet.unverified
    ELSE f \in packet.unverified /\ f \notin ClaimedFields
BlankTemplate ==
    packet.unverified = Fields /\ \A f \in Fields : ~IsObserved(f)
CheckIdentity ==
    /\ GoOn("identity-photo",
               /\ ConditionsMet
               /\ packet.unverified \subseteq Fields
               /\ IF IsTemplate THEN BlankTemplate
                  ELSE ClaimsAccepted /\ \A f \in Fields : FieldSettled(f),
               "gate")
    /\ gateReady' = (~IsTemplate /\ \A f \in DOMAIN GateFacts : packet.content[f] \in GateFacts[f])
    /\ UNCHANGED hashed

\* Raw measurements of the whole matrix, which must not say what they mean.
Measurement(i) == packet.content.measurements[i]
CheckContinuity ==
    LET all == DOMAIN packet.content.measurements IN
      /\ GoOn("continuity",
                 /\ ConditionsMet /\ packet.claims = <<>>
                 /\ Distinct(packet.content.measurements, "pair")
                 /\ {Measurement(i).pair : i \in all} = Pairs
                 /\ \A i \in all :
                      /\ Measurement(i).result \in {"continuity", "open", "ambiguous"}
                      /\ Cited(Measurement(i).refs)
                 /\ ~packet.content.confirmed /\ packet.content.review = "pending"
                 /\ "selectedUartPinMap" \in packet.unverified,
                 "gate")
      /\ gateReady' = (\A i \in all : Measurement(i).result # "ambiguous")
      /\ UNCHANGED hashed

CheckApproval ==
    LET said == packet.content IN
      /\ GoOn("approval",
                 /\ packet.claims = <<>>
                 /\ said.scopes # {} /\ said.scopes \subseteq Scopes
                 /\ said.signer = packet.operator
                 /\ said.decision = "approved" => said.evidence # {},
                 "gate")
      /\ gateReady' = (said.decision = "approved")
      /\ UNCHANGED hashed

\* The capture is one artifact of the packet; it is opened again to be read
\* (CaptureStream), and must be complete if the gate is asked for.
Bound(path) ==
    {i \in DOMAIN packet.artifacts :
        Artifact(i).path = path /\ "paired-capture-ndjson" \in Artifact(i).roles}
CaptureAccepted(path) ==
    /\ disk[path] # Gone
    /\ disk[path].capture \in IF asked.gateReady THEN {"ready"} ELSE {"ready", "incomplete"}
CheckPassive ==
    LET path == packet.content.capture IN
      /\ GoOn("passive-capture",
                 /\ packet.claims = <<>> /\ packet.conditions = "required"
                 /\ path \in PrivatePaths
                 /\ \E i \in Bound(path) : Bound(path) = {i}
                 /\ asked.artifacts => CaptureAccepted(path),
                 "gate")
      /\ gateReady' = (/\ asked.artifacts
                       /\ disk[path] \notin {Gone, SymLink} /\ disk[path].capture = "ready")
      /\ UNCHANGED hashed

CheckGate ==
    /\ GoOn("gate", asked.gateReady => gateReady, "pass")
    /\ UNCHANGED <<hashed, gateReady>>

PacketNext ==
    \/ LoadPacket \/ CheckHead \/ CheckArtifact \/ CheckRoles
    \/ CheckIdentity \/ CheckContinuity \/ CheckApproval \/ CheckPassive
    \/ CheckGate

PacketSpec == PacketInit /\ [][PacketNext]_packetVars

-----------------------------------------------------------------------------
\* The artifacts behind a claim or a measurement are in the packet and, if they
\* were asked for, are unchanged private files.
Private(i) == Artifact(i).path \in PrivatePaths /\ (asked.artifacts => Intact(Artifact(i)))
Evidenced(refs) == \E i \in DOMAIN packet.artifacts : Artifact(i).id \in refs /\ Private(i)

\* A packet that closes its gate closes it with evidence: each role that its
\* type requires is that of such an artifact, each fact of the identity gate is
\* what exactly one claim says and artifacts show, every pair was measured, an
\* approval is its signer's own and rests on packets, and a capture that is
\* ready is a file whose digest the packet names (validate_packet with
\* require_gate_ready and the validations it calls).
GateClosesOnEvidence ==
    checking = "pass" /\ asked.gateReady =>
      /\ \A role \in RequiredRoles[packet.type] :
           \E i \in DOMAIN packet.artifacts : role \in Artifact(i).roles /\ Private(i)
      /\ CASE packet.type = "identity-photo" ->
               \A f \in DOMAIN GateFacts :
                 /\ f \notin packet.unverified
                 /\ \E i \in DOMAIN packet.claims :
                      /\ \A j \in DOMAIN packet.claims : Claim(j).field = f => i = j
                      /\ Claim(i).field = f /\ Claim(i).value \in GateFacts[f]
                      /\ Evidenced(Claim(i).refs)
          [] packet.type = "continuity" ->
               \A pair \in Pairs : \E i \in DOMAIN packet.content.measurements :
                 /\ Measurement(i).pair = pair /\ Measurement(i).result \in {"continuity", "open"}
                 /\ Evidenced(Measurement(i).refs)
          [] packet.type = "approval" ->
               packet.content.evidence # {} /\ packet.content.signer = packet.operator
          [] packet.type = "passive-capture" ->
               \E i \in DOMAIN packet.artifacts :
                 Artifact(i).path = packet.content.capture /\ Intact(Artifact(i))
=============================================================================
