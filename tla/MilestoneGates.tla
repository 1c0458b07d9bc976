---------------------------- MODULE MilestoneGates ----------------------------
(***************************************************************************)
(* scripts/validate_milestone_gates.py: the criteria derived from the      *)
(* design, the overlay that records their status and evidence, and what    *)
(* follows for the milestones, one after the other, and for the release.   *)
(* The overlay is read as the validation comes to it.                      *)
(***************************************************************************)
EXTENDS Integers, Sequences

CONSTANTS
    Milestones,     \* how many there are
    Tasks,          \* the criteria of a milestone or group that are no stop condition
    Groups,         \* the criterion groups, in their order
    ReleaseGroups,  \* those a release depends on
    Register,       \* evidence id -> "observed", "missing" or "other"
    Existing,       \* the artifacts that are in the repository
    Overlays,       \* what the overlay may resolve a criterion to
    ProofStages,    \* ALLOWED_PROOF_STAGES
    Physical        \* PHYSICAL_PROOF_STAGES

\* A milestone has one stop condition beside its tasks, deliverables and exits.
Criteria == Tasks \cup {"stop"}
WorkStatus == {"satisfied", "blocked", "registered", "not-started", "not-evaluated", "open"}
StopStatus == {"clear", "triggered", "not-evaluated"}
MilestoneStatus == {"blocked", "not-started", "in-progress", "satisfied"}
Resolution == [status : WorkStatus \cup StopStatus, stage : STRING,
               evidence : SUBSET STRING, artifacts : SUBSET STRING, blocker : BOOLEAN]

ASSUME GatesAssumption ==
    /\ Milestones \in Nat \ {0}
    /\ "stop" \notin Tasks
    /\ Groups \in Seq(STRING)
    /\ Overlays \subseteq Resolution

VARIABLES
    atGate,         \* the check that comes next, "pass" or "fail"
    resolved,       \* criteria of the milestone or group at hand -> Resolution
    milestones,     \* the reports of the milestones that passed
    groups,         \* those of the groups
    priorSatisfied,
    current, releaseReady

gateVars == <<atGate, resolved, milestones, groups, priorSatisfied, current, releaseReady>>

Nothing == [x \in {} |-> 0]
GatesInit ==
    /\ atGate = "state"
    /\ resolved = Nothing /\ milestones = <<>> /\ groups = <<>>
    /\ priorSatisfied = TRUE /\ current = 0 /\ releaseReady = FALSE

Proceed(ok, to) == atGate' = IF ok THEN to ELSE "fail"

\* The hashes of the design and of its amendment; the catalog as it is derived
\* from the design, against the counts and the hash in the overlay; the
\* requirements and the evidence register.
CheckState(ok) ==
    /\ atGate = "state"
    /\ Proceed(ok, "milestones")
    /\ UNCHANGED <<resolved, milestones, groups, priorSatisfied, current, releaseReady>>

\* The milestone or group whose criteria come next.
Pending ==
    IF atGate = "milestones" THEN Len(milestones) < Milestones
    ELSE atGate = "groups" /\ Len(groups) < Len(Groups)
\* Before its first criterion: its status and defaults, although every criterion
\* may override them, its overrides and the requirements that it maps to.
RefuseEntry ==
    /\ Pending /\ DOMAIN resolved = {}
    /\ atGate' = "fail"
    /\ UNCHANGED <<resolved, milestones, groups, priorSatisfied, current, releaseReady>>

\* validate_resolved_criterion
Documented(r) ==
    /\ r.stage \in ProofStages
    /\ r.evidence \subseteq DOMAIN Register /\ r.artifacts \subseteq Existing
    /\ r.status = "satisfied" => r.evidence \cup r.artifacts # {}
    /\ r.status \in {"blocked", "triggered"} => r.blocker
Observed(r) == \E id \in r.evidence : Register[id] = "observed"
SupportedByPaper(r) ==                  \* mutant: an artifact is enough for any stage
    Documented(r)
Supported(r) ==
    Documented(r) /\ (r.status = "satisfied" /\ r.stage \in Physical => Observed(r))

\* resolve_group: the defaults under the overrides, for one criterion
Resolve(c, r) ==
    /\ Pending /\ c \notin DOMAIN resolved
    /\ atGate = "groups" => c # "stop"
    /\ Proceed(r.status \in (IF c = "stop" THEN StopStatus ELSE WorkStatus) /\ Supported(r), atGate)
    /\ resolved' = [d \in DOMAIN resolved \cup {c} |-> IF d = c THEN r ELSE resolved[d]]
    /\ UNCHANGED <<milestones, groups, priorSatisfied, current, releaseReady>>

\* What blockedBy may refer to beside the milestone's own criteria.
Elsewhere == {"another milestone", "unknown"}
Blocking == {c \in Criteria : resolved[c].status \in {"blocked", "triggered"}}
AllTasks(status) == \A c \in Tasks : resolved[c].status = status
Follows(status, blockedBy) ==
    /\ "unknown" \notin blockedBy
    /\ CASE status = "satisfied" ->
               priorSatisfied /\ AllTasks("satisfied") /\ resolved["stop"].status = "clear"
         [] status = "blocked" -> Blocking # {} /\ blockedBy # {} /\ blockedBy \subseteq Blocking
         [] status = "not-started" ->
               AllTasks("not-started") /\ resolved["stop"].status = "not-evaluated"
         [] status = "in-progress" -> priorSatisfied

\* A milestone whose criteria are resolved.
StillSatisfied(status) == priorSatisfied /\ status = "satisfied"
JudgeMilestone(status, blockedBy) ==
    /\ atGate = "milestones" /\ DOMAIN resolved = Criteria
    /\ Proceed(Follows(status, blockedBy), "milestones")
    /\ milestones' = Append(milestones, [status |-> status, items |-> resolved])
    /\ priorSatisfied' = StillSatisfied(status)
    /\ resolved' = Nothing
    /\ UNCHANGED <<groups, current, releaseReady>>

\* currentMilestone is the first one that is not satisfied; 0 if all are.
FirstOpen(m) ==
    \/ m = 0 /\ \A i \in DOMAIN milestones : milestones[i].status = "satisfied"
    \/ /\ m \in DOMAIN milestones /\ milestones[m].status # "satisfied"
       /\ \A i \in 1..(m - 1) : milestones[i].status = "satisfied"
CheckCurrent(m) ==
    /\ atGate = "milestones" /\ Len(milestones) = Milestones
    /\ Proceed(FirstOpen(m), "groups")
    /\ current' = m
    /\ UNCHANGED <<resolved, milestones, groups, priorSatisfied, releaseReady>>

ReportGroup ==
    /\ atGate = "groups" /\ Len(groups) < Len(Groups) /\ DOMAIN resolved = Tasks
    /\ groups' = Append(groups, resolved)
    /\ resolved' = Nothing
    /\ UNCHANGED <<atGate, milestones, priorSatisfied, current, releaseReady>>

ReportRelease ==
    /\ atGate = "groups" /\ Len(groups) = Len(Groups)
    /\ releaseReady' =
         /\ \A i \in DOMAIN milestones : milestones[i].status = "satisfied"
         /\ \A g \in DOMAIN Groups, c \in Tasks :
              Groups[g] \in ReleaseGroups => groups[g][c].status = "satisfied"
    /\ atGate' = "pass"
    /\ UNCHANGED <<resolved, milestones, groups, priorSatisfied, current>>

GatesNext ==
    \/ \E ok \in BOOLEAN : CheckState(ok)
    \/ RefuseEntry
    \/ \E c \in Criteria, r \in Overlays : Resolve(c, r)
    \/ \E status \in MilestoneStatus, blockedBy \in SUBSET (Criteria \cup Elsewhere) :
         JudgeMilestone(status, blockedBy)
    \/ \E m \in 0..Milestones : CheckCurrent(m)
    \/ ReportGroup \/ ReportRelease

GatesSpec == GatesInit /\ [][GatesNext]_gateVars

-----------------------------------------------------------------------------
\* There is something behind a satisfied criterion, and a physical one was seen.
Observable(r) ==
    r.status = "satisfied" =>
        /\ r.evidence \cap DOMAIN Register # {} \/ r.artifacts \cap Existing # {}
        /\ r.stage \in Physical =>
             \E id \in r.evidence : id \in DOMAIN Register /\ Register[id] = "observed"
ReachedTo(m) == milestones[m].status = "satisfied"

\* A report that passes never runs ahead of what was shown
\* (validate_repository_milestones, docs/cleanroom/README.md): what is satisfied
\* is a prefix of the milestones, work is in progress at most at the current
\* one, no milestone that is satisfied has an open task or a stop condition that
\* is not clear, a satisfied criterion rests on something that exists and a
\* physical one on an observation, in the groups as well, and a release needs
\* all of it.
ReportsStayBehindProof ==
    atGate = "pass" =>
        /\ \A m, n \in DOMAIN milestones : m < n /\ ReachedTo(n) => ReachedTo(m)
        /\ \A m \in DOMAIN milestones :
             /\ milestones[m].status = "in-progress" => m = current
             /\ ReachedTo(m) => \A c \in Criteria :
                    milestones[m].items[c].status = IF c = "stop" THEN "clear" ELSE "satisfied"
             /\ \A c \in Criteria : Observable(milestones[m].items[c])
        /\ \A g \in DOMAIN groups, c \in Tasks : Observable(groups[g][c])
        /\ releaseReady =>
             /\ current = 0
             /\ \A g \in DOMAIN Groups, c \in Tasks :
                  Groups[g] \in ReleaseGroups => groups[g][c].status = "satisfied"
=============================================================================
