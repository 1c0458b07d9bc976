----------------------------- MODULE Onboarding -----------------------------
(***************************************************************************)
(* The main loop of the firmware (main.cpp) around ConfigStore and         *)
(* NetworkState: a setting is saved over HTTP through the setup AP, goes   *)
(* on trial after a reboot, and is adopted or withdrawn.  A turn of loop() *)
(* is a tick of the network state, at least one unit of time after the     *)
(* last, followed by one serviceHttp; storage operations stay steps of     *)
(* their own, between which power may be cut.  The automatic-update policy *)
(* is not changed here.                                                    *)
(***************************************************************************)
EXTENDS ConfigStore, NetworkState

CONSTANTS
    RequestMs,      \* kRequestMs: how long sending a response may take
    MaxDelay        \* the longest turn of the loop

ASSUME TurnAssumption == RequestMs \in Nat /\ MaxDelay \in Nat \ {0}

VARIABLES
    net,            \* the NetworkState object
    now,            \* millis() at the start of this turn
    turn,           \* what loop() does next: "tick", "ap" or "http"
    bodyAllowed,    \* a PUT /api/v1/config passed headerGate
    replying,       \* responseBody # nullptr
    replyAt,        \* responseAt
    pendingReboot,
    upFor           \* since when a trial's samples have all been up; -1: not

http == <<bodyAllowed, replying, replyAt, pendingReboot>>
onboardingVars == <<vars, net, now, turn, http, upFor>>

OnboardingInit ==
    /\ Init
    /\ net = Stopped /\ now = 0 /\ turn = "tick"
    /\ bodyAllowed = FALSE /\ replying = FALSE /\ replyAt = 0
    /\ pendingReboot = FALSE /\ upFor = -1

-----------------------------------------------------------------------------
(* Power and boot.                                                         *)

Restart ==
    /\ PowerCut
    /\ net' = Stopped /\ turn' = "tick"
    /\ bodyAllowed' = FALSE /\ replying' = FALSE /\ replyAt' = 0
    /\ pendingReboot' = FALSE /\ upFor' = -1
    /\ now' = 0

\* The application starts when the boot button allows it.
Start(asked) ==
    /\ PowerOn(asked)
    /\ UNCHANGED <<net, now, turn, http, upFor>>

\* fault() stops the network state and closes the client.
Faulted ==
    /\ net' = [net EXCEPT !.mode = "Fault"]
    /\ bodyAllowed' = FALSE /\ replying' = FALSE
    /\ UNCHANGED turn

\* begin() and the first half of its action: an empty store opens the AP.
Began(configState) ==
    /\ net' = Begin(net, configState, now')
    /\ turn' = IF configState = "Empty" THEN "ap" ELSE "tick"

BootStep ==
    /\ UNCHANGED <<now, replyAt, pendingReboot, upFor>>
    /\ \/ \E pending \in BOOLEAN : GateReset(pending)
       \/ ResumeReset
       \/ \E read \in BOOLEAN : Load(read)
       \/ ReuseKey
       \/ HandOffKey
       \/ \E ok \in BOOLEAN :
             MarkReset(ok) \/ EraseNext(ok) \/ \E key \in InstallKey : CreateKey(key, ok)
    /\ \/ at' = "idle" /\ Began(state) /\ UNCHANGED <<bodyAllowed, replying>>
       \/ at' = "fault" /\ Faulted
       \/ at' \notin {"idle", "fault"} /\ UNCHANGED <<net, turn, bodyAllowed, replying>>

\* applyAction(StartAp): the client is closed; AP or server may fail to start.
StartAp ==
    /\ at = "idle" /\ turn = "ap"
    /\ bodyAllowed' = FALSE /\ replying' = FALSE
    /\ \/ turn' = "http" /\ UNCHANGED <<vars, net>>
       \/ NetworkFault /\ Faulted
    /\ UNCHANGED <<now, replyAt, pendingReboot, upFor>>

-----------------------------------------------------------------------------
(* loop(): network.tick and applyAction, unless a reboot is pending.       *)

\* The link can be up only where the firmware is a station.
Tick(dt, up) ==
    /\ at = "idle" /\ turn = "tick"
    /\ now' = (now + dt) % ClockSize
    /\ up => net.mode \in {"Trial", "Station"}
    /\ upFor' = CASE ~up \/ net.mode # "Trial" -> -1
                  [] up /\ upFor = -1          -> 0
                  [] OTHER -> IF upFor + dt > StableMs THEN StableMs ELSE upFor + dt

NoAction(dt, up) ==
    /\ Tick(dt, up)
    /\ LET sampled == Sampled(net, now', up)
       IN  IF pendingReboot THEN net' = net
           ELSE /\ net' = sampled
                /\ ~MustReboot(net, now') /\ ~MayPromote(sampled, now')
                /\ ~MustDiscard(sampled, now') /\ ~MustConnect(sampled, now')
    /\ turn' = "http"
    /\ UNCHANGED <<vars, http>>

Connect(dt, jitter) ==
    /\ Tick(dt, FALSE)
    /\ ~pendingReboot
    /\ MustConnect(Sampled(net, now', FALSE), now')
    /\ net' = Retried(Sampled(net, now', FALSE), now', jitter)
    /\ turn' = "http"
    /\ UNCHANGED <<vars, http>>

Promote(dt, ok) ==
    /\ Tick(dt, TRUE)
    /\ ~pendingReboot
    /\ MayPromote(Sampled(net, now', TRUE), now')
    /\ PromoteWrite(ok)
    /\ IF ok THEN /\ net' = Sampled(net, now', TRUE)
                  /\ UNCHANGED <<turn, bodyAllowed, replying>>
       ELSE Faulted
    /\ UNCHANGED <<replyAt, pendingReboot>>

Promoted ==
    /\ PromoteErase
    /\ net' = [net EXCEPT !.mode = "Station"]
    /\ turn' = "http"
    /\ UNCHANGED <<now, http, upFor>>

Withdraw(dt, up, ok) ==
    /\ Tick(dt, up)
    /\ ~pendingReboot
    /\ MustDiscard(Sampled(net, now', up), now')
    /\ DiscardTrial(ok)
    /\ IF ok THEN Began("Empty") /\ UNCHANGED <<bodyAllowed, replying>> ELSE Faulted
    /\ UNCHANGED <<replyAt, pendingReboot>>

Reboot(dt) ==
    /\ at = "idle" /\ turn = "tick"
    /\ ~pendingReboot
    /\ MustReboot(net, (now + dt) % ClockSize)
    /\ Restart

-----------------------------------------------------------------------------
(* loop(): serviceHttp.                                                    *)

Served == turn' = "tick" /\ UNCHANGED <<now, upFor>>
AtHttp == at = "idle" /\ turn = "http"

\* The first thing a turn looks at, in every mode.
ForgetReboot ==                             \* mutant: saved() is not called
    /\ AtHttp /\ Served
    /\ pendingReboot /\ ~replying
    /\ pendingReboot' = FALSE
    /\ UNCHANGED <<vars, net, bodyAllowed, replying, replyAt>>
BeginReboot ==
    /\ AtHttp /\ Served
    /\ pendingReboot /\ ~replying
    /\ net' = Saved(net, now)
    /\ pendingReboot' = FALSE
    /\ UNCHANGED <<vars, bodyAllowed, replying, replyAt>>

Serving == AtHttp /\ net.mode # "Rebooting" /\ (replying \/ ~pendingReboot)

\* No client, or one that sends nothing: also all there is to do on the way
\* to a reboot.
Quiet ==
    /\ AtHttp /\ Served
    /\ ~replying /\ ~pendingReboot
    /\ UNCHANGED <<vars, net, http>>

\* A response is sent in pieces until it is complete, its client is gone or
\* its time is over; closeClient forgets the request too.
Send(done) ==
    /\ Serving /\ Served
    /\ replying
    /\ Elapsed(now, replyAt, RequestMs) => done
    /\ replying' = ~done
    /\ bodyAllowed' = (bodyAllowed /\ ~done)
    /\ UNCHANGED <<vars, net, replyAt, pendingReboot>>

\* headerGate for PUT /api/v1/config.
AcceptPut ==
    /\ Serving /\ Served
    /\ ~replying /\ ~bodyAllowed
    /\ net.mode = "Provisioning" /\ state = "Empty"
    /\ bodyAllowed' = TRUE
    /\ UNCHANGED <<vars, net, replying, replyAt, pendingReboot>>

\* Any other request, and a body that saveConfig refuses: malformed, quoting
\* another revision, or the counter is exhausted.
Answer ==
    /\ Serving /\ Served
    /\ ~replying
    /\ replying' = TRUE /\ replyAt' = now
    /\ UNCHANGED <<vars, net, bodyAllowed, pendingReboot>>

DropClient ==
    /\ Serving /\ Served
    /\ ~replying /\ bodyAllowed
    /\ bodyAllowed' = FALSE
    /\ UNCHANGED <<vars, net, replying, replyAt, pendingReboot>>

\* saveConfig up to the record, and from the reference to the response.
SaveRecord(cred, ok) ==
    /\ Serving
    /\ ~replying /\ bodyAllowed
    /\ StageRecord(cred, ok)
    /\ IF ok THEN UNCHANGED <<net, turn, bodyAllowed, replying>> ELSE Faulted
    /\ UNCHANGED <<now, replyAt, pendingReboot, upFor>>

SaveReference(ok) ==
    /\ StageReference(ok)
    /\ IF ok THEN /\ replying' = TRUE /\ replyAt' = now /\ pendingReboot' = TRUE
                  /\ Served /\ UNCHANGED <<net, bodyAllowed>>
       ELSE Faulted /\ UNCHANGED <<now, replyAt, pendingReboot, upFor>>

\* The uploader's update was installed; only a station accepts one. The reboot
\* waits until the answer is sent.
UpdateInstalled ==
    /\ Serving /\ Served
    /\ net.mode = "Station" /\ ~replying /\ ~pendingReboot
    /\ pendingReboot' = TRUE
    /\ replying' = TRUE /\ replyAt' = now
    /\ UNCHANGED <<vars, net, bodyAllowed>>

\* The pull is ready to reboot, which is seen before the network is ticked and
\* answers nobody: a response in progress is sent to its end first.
PullInstalled ==
    /\ at = "idle" /\ turn = "tick"
    /\ net.mode = "Station" /\ ~pendingReboot
    /\ pendingReboot' = TRUE
    /\ UNCHANGED <<vars, net, now, turn, bodyAllowed, replying, replyAt, upFor>>

Delay == 1 .. MaxDelay

Loop ==
    \/ BootStep
    \/ StartAp
    \/ \E dt \in Delay :
          \/ \E up \in BOOLEAN : NoAction(dt, up)
          \/ \E jitter \in 0 .. JitterMs : Connect(dt, jitter)
          \/ \E ok \in BOOLEAN : Promote(dt, ok)
          \/ \E up, ok \in BOOLEAN : Withdraw(dt, up, ok)
          \/ Reboot(dt)
    \/ Promoted
    \/ BeginReboot
    \/ Quiet
    \/ \E done \in BOOLEAN : Send(done)
    \/ AcceptPut
    \/ Answer
    \/ DropClient
    \/ \E cred \in Cred, ok \in BOOLEAN : SaveRecord(cred, ok)
    \/ \E ok \in BOOLEAN : SaveReference(ok)
    \/ UpdateInstalled
    \/ PullInstalled

OnboardingNext ==
    \/ Loop
    \/ Restart
    \/ \E asked \in BOOLEAN : Start(asked)

\* A powered device keeps looping; nobody has to switch it on.
OnboardingSpec ==
    OnboardingInit /\ [][OnboardingNext]_onboardingVars /\ WF_onboardingVars(Loop)

-----------------------------------------------------------------------------
(* Properties.                                                             *)

OnboardingTypeOK ==
    /\ net \in NetType /\ now \in Clock /\ turn \in {"tick", "ap", "http"}
    /\ bodyAllowed \in BOOLEAN /\ replying \in BOOLEAN /\ pendingReboot \in BOOLEAN
    /\ replyAt \in Clock /\ upFor \in -1 .. StableMs

\* The mode of the network, the state of the store and what is durable never
\* disagree while the loop runs: the setup AP is open only over a store without
\* a setting, or with one that was just acknowledged and awaits its reboot; a
\* trial runs only on a durable trial, so that promote() and discardTrial() are
\* never called on anything else; and a station holds an adopted setting.
NetworkFollowsStore ==
    at = "idle" =>
        CASE net.mode = "Provisioning" ->
                IF pendingReboot THEN DurableSetting.phase = "Trial" /\ state = "Trial"
                ELSE DurableSetting.phase = "None" /\ state = "Empty"
          [] net.mode = "Trial"     -> DurableSetting.phase = "Trial" /\ state = "Trial"
          [] net.mode = "Station"   -> DurableSetting.phase = "Active" /\ state = "Active"
          [] net.mode = "Rebooting" -> DurableSetting.phase # "None" /\ state # "Empty"
          [] OTHER                  -> FALSE

\* A setting is adopted only after every sample of the link has found it up for
\* StableMs, whatever it did earlier in the trial.
AdoptedOnlyIfStable ==
    [][ nvs["active"] = Missing /\ nvs'["active"] # Missing => upFor' = StableMs ]_onboardingVars

\* A saved setting is decided upon: a device that stays powered and does not
\* fault sends its answer, reboots, tries the setting and adopts or withdraws
\* it, however the link flaps and the client dawdles.
TrialIsDecided ==
    <>[](at \notin {"off", "fault"}) =>
        [](DurableSetting.phase = "Trial" => <>(DurableSetting.phase # "Trial"))

\* A station that stays offline never stops trying to connect: neither the
\* backoff nor the wrap-around of millis() silences it.
OfflineStationRetries ==
    <>[](at = "idle" /\ net.mode = "Station" /\ ~net.connected /\ ~pendingReboot) =>
        []<><< net'.attempt # net.attempt >>_net

\* "trial, the ATOM has 60 seconds to establish that connection; failure
\* withdraws": a trial that is withdrawn did not get its connection in time.
WithdrawnOnlyUnconnected ==
    [][ state = "Trial" /\ state' = "Empty" =>
        ~(upFor' >= 0 /\ Since(now', net.since) - upFor' < TrialMs) ]_onboardingVars
=============================================================================
