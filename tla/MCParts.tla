------------------------------- MODULE MCParts -------------------------------
(***************************************************************************)
(* Parts of the system that share no state, model-checked one at a time:   *)
(* the first step chooses the subject, and only its module moves after.    *)
(***************************************************************************)
EXTENDS FlashLayout, ProjectLoop, MilestoneGates, CaptureStream, EvidencePacket,
        UsbSession, Packaging, PullWorker

VARIABLE subject

partVars == <<flashVars, loopVars, gateVars, captureVars, packetVars, usbVars, packagingVars, pullVars, subject>>

PartsInit ==
    /\ subject = "none"
    /\ FlashInit /\ LoopInit /\ GatesInit /\ CaptureInit /\ PacketInit /\ UsbInit /\ PackagingInit /\ PullInit

About(what) == subject \in {"none", what} /\ subject' = what

PartsNext ==
    \/ /\ About("flash") /\ FlashNext
       /\ UNCHANGED <<loopVars, gateVars, captureVars, packetVars, usbVars, packagingVars, pullVars>>
    \/ /\ About("loop") /\ LoopNext
       /\ UNCHANGED <<flashVars, gateVars, captureVars, packetVars, usbVars, packagingVars, pullVars>>
    \/ /\ About("gates") /\ GatesNext
       /\ UNCHANGED <<flashVars, loopVars, captureVars, packetVars, usbVars, packagingVars, pullVars>>
    \/ /\ About("capture") /\ CaptureNext
       /\ UNCHANGED <<flashVars, loopVars, gateVars, packetVars, usbVars, packagingVars, pullVars>>
    \/ /\ About("packet") /\ PacketNext
       /\ UNCHANGED <<flashVars, loopVars, gateVars, captureVars, usbVars, packagingVars, pullVars>>
    \/ /\ About("usb") /\ UsbNext
       /\ UNCHANGED <<flashVars, loopVars, gateVars, captureVars, packetVars, packagingVars, pullVars>>
    \/ /\ About("packaging") /\ PackagingNext
       /\ UNCHANGED <<flashVars, loopVars, gateVars, captureVars, packetVars, usbVars, pullVars>>
    \/ /\ About("pull") /\ PullNext
       /\ UNCHANGED <<flashVars, loopVars, gateVars, captureVars, packetVars, usbVars, packagingVars>>

PartsSpec == PartsInit /\ [][PartsNext]_partVars

-----------------------------------------------------------------------------
\* An application partition table in miniature.
MCRow(n, k, o, s) == [name |-> n, kind |-> k, offset |-> o, size |-> s]
MCTable == <<MCRow("nvs", "data", 2, 2), MCRow("app0", "ota_0", 4, 4),
             MCRow("app1", "ota_1", 8, 4), MCRow("diag", "data", 14, 2)>>
MCPlanOf(rows) ==
    [parts |-> [n \in {rows[i].name : i \in DOMAIN rows} |->
                 LET r == rows[CHOOSE i \in DOMAIN rows : rows[i].name = n] IN
                   [kind |-> r.kind, offset |-> r.offset, size |-> r.size]],
     limit |-> 3, spare |-> 1]
MCContract == MCPlanOf(MCTable)
MCMoved(rows, offsets, sizes) ==
    {[MCTable EXCEPT ![i].offset = o, ![i].size = n] : i \in rows, o \in offsets, n \in sizes}
MCTables ==
    MCMoved(1..4, {1, 2, 4, 6, 8, 12, 16}, {0, 2, 4})
        \cup {<<>>, Tail(MCTable), Append(MCTable, MCTable[1]), Reverse(MCTable),
              [MCTable EXCEPT ![4].kind = "filesystem"], [MCTable EXCEPT ![3].kind = "data"], [MCTable EXCEPT ![3].kind = "factory"]}
MCPlans ==
    {MCPlanOf(t) : t \in MCMoved({3}, {2, 6, 8, 12, 16}, {2, 4}) \cup {Tail(MCTable), Reverse(MCTable), [MCTable EXCEPT ![3].kind = "factory"],
                          [MCTable EXCEPT ![4].kind = "filesystem"]}}
        \cup {[MCContract EXCEPT !.limit = 5]}
MCSetups == {[deviations |-> {}, override |-> o] :
               o \in {Missing, [only |-> TRUE, digest |-> "pin"], [only |-> TRUE, digest |-> "other"]}}
            \cup {[deviations |-> {"platform"}, override |-> Missing]}
MCHeap == [free |-> 2, block |-> 1]
MCSamples == {[free |-> 2, block |-> 1], [free |-> 2, block |-> 0]}

\* Two rows are sealed.
MCSealed == <<[text |-> "a", time |-> 0, link |-> NoLink, full |-> FALSE],
              [text |-> "b", time |-> 0, link |-> NoLink, full |-> FALSE]>>

\* An overlay row: what a criterion may be resolved to.
MCRegister == [id \in {"photo", "plan", "due"} |->
                 CASE id = "photo" -> "observed" [] id = "due" -> "missing" [] OTHER -> "other"]
MCResolved(status, proof, evidence, artifacts, blocker) ==
    [status |-> status, stage |-> proof, evidence |-> evidence, artifacts |-> artifacts, blocker |-> blocker]
MCOverlays ==
    {MCResolved("satisfied", "hardware", {"photo", "plan"}, {}, FALSE),
     MCResolved("satisfied", "hardware", {"due"}, {"script"}, FALSE),
     MCResolved("satisfied", "host", {}, {"script"}, FALSE),
     MCResolved("satisfied", "host", {}, {"script", "removed"}, FALSE),
     MCResolved("satisfied", "host", {"lost"}, {}, FALSE),
     MCResolved("satisfied", "desk", {"photo"}, {}, FALSE),
     MCResolved("blocked", "host", {}, {}, TRUE),
     MCResolved("blocked", "host", {}, {}, FALSE),
     MCResolved("not-started", "hardware", {}, {}, FALSE),
     MCResolved("open", "host", {}, {}, FALSE),
     MCResolved("not-evaluated", "host", {}, {}, FALSE),
     MCResolved("clear", "host", {}, {}, FALSE),
     MCResolved("triggered", "hardware", {}, {}, TRUE)}
MCGroups == <<"field-tests", "release-definition">>

MCEnding(duration, wall, reported) == [duration |-> duration, wall |-> wall, reported |-> reported]
MCEndings == {MCEnding(2, 2, 0), MCEnding(1, 1, 0), MCEnding(2, 3, 0), MCEnding(2, 2, 1)}

\* One packet of each type, with each of the ways in which it may be wrong.
MCArtifact(id, roles, path, digest) == [id |-> id, roles |-> roles, path |-> path, digest |-> digest]
MCShots == {<<MCArtifact("a", {"front"}, "p", 1), MCArtifact("b", {"back"}, "q", 2)>>,
            <<MCArtifact("a", {"front"}, "p", 1), MCArtifact("a", {"back"}, "q", 2)>>}
MCPacket(type, content, claims, unverified, artifacts) ==
    [type |-> type, status |-> "captured", dated |-> TRUE, deviations |-> {}, operator |-> "o",
     conditions |-> "required", artifacts |-> artifacts, claims |-> claims,
     content |-> content, unverified |-> unverified]
MCClaim(id, f, value, refs) == [id |-> id, field |-> f, class |-> "OBS", value |-> value, refs |-> refs]
MCClaims ==
    LET one == {MCClaim("c", f, v, refs) : f \in {"sku", "labels"}, v \in {"good", "other"}, refs \in {{"a"}, {"z"}}}
    IN {<<>>} \cup {<<c>> : c \in one} \cup {<<c, [d EXCEPT !.id = i]>> : c \in {e \in one : e.field = "sku"}, d \in one, i \in {"c", "d"}}
MCIdentity ==
    {MCPacket("identity-photo", content, claims, unverified, artifacts) :
       content \in {[sku |-> v, labels |-> w] : v \in {"good", "other", "null"}, w \in {"good", "null"}},
       claims \in MCClaims, unverified \in {{}, {"labels"}}, artifacts \in MCShots}
MCBlank ==
    [MCPacket("identity-photo", [f \in {"sku", "labels"} |-> "null"], <<>>, {"sku", "labels"},
              <<MCArtifact("a", {"front", "back"}, Gone, 0)>>)
       EXCEPT !.status = "template", !.dated = FALSE, !.conditions = "null"]
MCMeasured(pair, result, refs) == [pair |-> pair, result |-> result, refs |-> refs]
MCContinuity ==
    {MCPacket("continuity", [measurements |-> m, confirmed |-> c, review |-> "pending"], <<>>, {u},
              <<MCArtifact("a", roles, "p", d)>>) :
       m \in {<<MCMeasured("rx", r, {"a"}), MCMeasured(n, "open", {s})>> :
                 r \in {"continuity", "ambiguous", "closed"}, n \in {"rx", "tx"}, s \in {"a", "z"}},
       c \in BOOLEAN, u \in {"selectedUartPinMap", "sku"}, d \in {1, 2}, roles \in {{"meter", "probe"}, {"probe"}}}
MCApproval ==
    {MCPacket("approval", [scopes |-> s, signer |-> g, decision |-> d, evidence |-> e], <<>>, {}, <<>>) :
       s \in SUBSET {"scope", "beyond"}, g \in {"o", "x"}, d \in {"approved", "rejected"}, e \in {{}, {"packet"}}}
MCPassive ==
    {MCPacket("passive-capture", [capture |-> path], <<>>, {}, <<MCArtifact("a", roles, "p", 1), MCArtifact("b", more, p, d)>>) :
       path \in {"p", "q", "public"}, roles \in {{"log"}, {"paired-capture-ndjson"}},
       more \in {{"log"}, {"paired-capture-ndjson"}}, p \in {"p", "q"}, d \in {1, 2}}
MCWrong == {[MCPacket("approval", [scopes |-> {"scope"}, signer |-> "o", decision |-> "approved", evidence |-> {"packet"}], <<>>, {}, <<>>)
               EXCEPT !.status = s, !.dated = t, !.deviations = d] :
              s \in {"captured", "template", "other"}, t \in BOOLEAN, d \in {{}, {"design"}}}
\* A public photograph, and one that shows only the front.
MCBare ==
    {MCPacket("identity-photo", [sku |-> "good", labels |-> "good"],
              <<MCClaim("c", "sku", "good", {"a"}), MCClaim("d", "labels", "good", {"a"})>>, {},
              <<MCArtifact("a", roles, path, 1)>>) : roles \in {{"front"}, {"front", "back"}}, path \in {"p", "public"}}
MCPackets == MCIdentity \cup {MCBlank} \cup MCContinuity \cup MCApproval \cup MCPassive \cup MCWrong \cup MCBare
MCFile(digest, capture) == [digest |-> digest, capture |-> capture]
MCDisks == {[x \in {"p", "q", "public"} |-> IF x = "p" THEN f ELSE MCFile(2, "none")] :
              f \in {MCFile(1, "ready"), MCFile(1, "incomplete"), MCFile(2, "ready"), Gone, SymLink}}
MCRoles == [type \in {"identity-photo", "continuity", "approval", "passive-capture"} |->
              CASE type = "identity-photo" -> {"front", "back"} [] type = "continuity" -> {"meter", "probe"}
                [] type = "passive-capture" -> {"paired-capture-ndjson"} [] OTHER -> {}]
MCFacts == [f \in {"sku", "labels"} |-> {"good"}]

\* Three builds of the firmware on one board, a stranger beside it.
MCWritten == <<"partitions", "app">>
MCRelease(v) == [partitions |-> "p1", app |-> v]
MCSegments == [first |-> MCRelease("0.1.0"), upgrade |-> MCRelease("0.1.2"), signed |-> MCRelease("0.2.0")]
MCBaseline == [first |-> <<>>, upgrade |-> MCRelease("0.1.0"), signed |-> MCRelease("0.1.2")]
MCFirstFlash == [b \in {"c008", "other"} |-> [partitions |-> "p0", app |-> "smoke", nvs |-> "old"]]
MCUpgraded == <<"BUILD", "INSTALL_KEY_REUSED", "BOOT_RESET_NOT_ARMED", "STA_CONNECT_ATTEMPT">>
MCPrintouts == {<<"key1", "AP_SSID", "AP_URL">>, <<"key1", "key2", "AP_SSID", "AP_URL">>, MCUpgraded, 
                MCUpgraded \o <<"SIGNED_OTA_BASELINE", "OTA_KEY_CONFIGURED", "USB_BASELINE", "STA_IP", "MDNS_URL">>}

MCIdentities == {[version |-> 1, build |-> "b1", updater |-> TRUE], [version |-> 2, build |-> "b2", updater |-> FALSE]}
=============================================================================
