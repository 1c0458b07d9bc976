-------------------------- MODULE OnboardingProofs --------------------------
(***************************************************************************)
(* Proofs about Onboarding, for any deadlines, any clock that is longer    *)
(* than they are and any storage: what the store is (ConfigStoreProofs) is *)
(* carried over to the main loop, which calls it in the right mode only.   *)
(***************************************************************************)
EXTENDS Onboarding, ConfigStoreProofs

\* The mode of the network is the one of the setting that is in use.
ModeFollowsState ==
    at = "idle" =>
        \/ net.mode = "Provisioning" /\ state = IF pendingReboot THEN "Trial" ELSE "Empty"
        \/ net.mode = "Trial" /\ state = "Trial" /\ ~pendingReboot
        \/ net.mode = "Station" /\ state = "Active"
        \/ net.mode = "Rebooting" /\ state \in {"Trial", "Active"} /\ ~pendingReboot

\* A setting is saved through the setup AP only.
StagingInProvisioning == at = "stageRef" => net.mode = "Provisioning"

\* Before the loop runs no reboot is pending and no trial is timed.
BootPoints == {"off", "gate", "mark", "resume", "erase", "load", "enroll", "handoff"}
FreshBoot == at \in BootPoints => ~pendingReboot /\ upFor = -1

\* During a trial the network state measures what the samples were: the wrapped
\* difference of two clock readings is the time the link has been up.
TimedTrial ==
    at = "idle" /\ net.mode = "Trial" =>
        /\ net.connected <=> upFor >= 0
        /\ net.connected /\ upFor < StableMs => Since(now, net.stable) = upFor

OInv ==
    /\ OnboardingTypeOK
    /\ ModeFollowsState
    /\ StagingInProvisioning
    /\ FreshBoot
    /\ TimedTrial

-----------------------------------------------------------------------------
(* The clock.                                                              *)

\* The constants of the deadlines, one by one.
LEMMA ClockFacts ==
    /\ ClockSize \in Nat \ {0} /\ StableMs \in Nat \ {0} /\ RetryMs \in Nat \ {0}
    /\ RetryCap \in Nat \ {0} /\ JitterMs \in Nat
    /\ StableMs < ClockSize /\ RetryMs <= RetryCap
    /\ 0 \in Clock /\ RetryMs \in RetryMs .. RetryCap
  <1>1. /\ ClockSize \in Nat \ {0} /\ StableMs \in Nat \ {0} /\ RetryMs \in Nat \ {0}
        /\ RetryCap \in Nat \ {0} /\ JitterMs \in Nat /\ TrialMs \in Nat \ {0}
        /\ StableMs < TrialMs /\ TrialMs < ClockSize /\ RetryMs <= RetryCap
    BY ClockAssumption
  <1> QED BY <1>1 DEF Clock

\* A wrapped clock reading is a clock reading.
LEMMA ClockWraps == \A x \in Int : x % ClockSize \in Clock
  BY ClockFacts DEF Clock

\* The time between two equal readings is none.
LEMMA SinceItself == \A t \in Clock : Since(t, t) = 0
  <1>1. 0 % ClockSize = 0
    BY ClockFacts
  <1> QED BY <1>1, ClockFacts DEF Since, Clock

\* Moving the clock on, around its end or not, adds to the time since a reading
\* of it as long as the sum fits.
LEMMA SinceAdds ==
    ASSUME NEW n \in Clock, NEW t \in Clock, NEW dt \in Nat, Since(n, t) + dt < ClockSize
    PROVE  Since((n + dt) % ClockSize, t) = Since(n, t) + dt
  <1>1. ClockSize \in Nat \ {0} /\ n \in Int /\ t \in Int
    BY ClockFacts DEF Clock
  <1>2. n - t = IF n >= t THEN Since(n, t) ELSE Since(n, t) - ClockSize
    <2>1. CASE n >= t
      <3>1. n - t \in 0 .. ClockSize - 1
        BY <1>1, <2>1 DEF Clock
      <3>2. (n - t) % ClockSize = n - t
        BY <1>1, <3>1
      <3> QED BY <2>1, <3>2 DEF Since
    <2>2. CASE ~(n >= t)
      <3>1. n - t \in (0 - ClockSize) .. -1
        BY <1>1, <2>2 DEF Clock
      <3>2. (n - t) % ClockSize = n - t + ClockSize
        BY <1>1, <3>1
      <3> QED BY <1>1, <2>2, <3>2 DEF Since
    <2> QED BY <2>1, <2>2
  <1>3. Since(n, t) \in 0 .. ClockSize - 1
    BY <1>1, ClockWraps DEF Since, Clock
  <1> DEFINE e == n + dt
             r == e % ClockSize
  <1>4. dt < ClockSize /\ e \in 0 .. 2 * ClockSize - 2
    BY <1>1, <1>3 DEF Clock
  <1>5. r = IF e < ClockSize THEN e ELSE e - ClockSize
    <2>1. CASE e < ClockSize
      <3>1. e \in 0 .. ClockSize - 1
        BY <1>1, <1>4, <2>1
      <3> HIDE DEF e
      <3> QED BY <1>1, <2>1, <3>1
    <2>2. CASE ~(e < ClockSize)
      <3>1. e \in ClockSize .. 2 * ClockSize - 1
        BY <1>1, <1>4, <2>2
      <3> HIDE DEF e
      <3>2. e % ClockSize = e - ClockSize
        BY <1>1, <3>1
      <3> QED BY <2>2, <3>2
    <2> QED BY <2>1, <2>2
  <1> HIDE DEF r
  <1> DEFINE w == Since(n, t) + dt
  <1>6. r - t = w \/ r - t = w - ClockSize
    BY <1>1, <1>2, <1>3, <1>4, <1>5 DEF Clock
  <1>7. w \in 0 .. ClockSize - 1
    BY <1>1, <1>3
  <1> HIDE DEF w
  <1>8. (r - t) % ClockSize = w
    <2>1. CASE r - t = w
      <3>1. w % ClockSize = w
        BY <1>1, <1>7
      <3> QED BY <2>1, <3>1
    <2>2. CASE r - t = w - ClockSize
      <3>1. w - ClockSize \in (0 - ClockSize) .. -1
        BY <1>1, <1>7
      <3>2. (w - ClockSize) % ClockSize = w
        BY <1>1, <1>7, <3>1
      <3> QED BY <2>2, <3>2
    <2> QED BY <1>6, <2>1, <2>2
  <1> QED BY <1>8 DEF Since, r, w

-----------------------------------------------------------------------------
(* The network state.                                                      *)

\* A network state that was never begun.
LEMMA StoppedType == Stopped \in NetType
  BY ClockFacts DEF Stopped, NetType, Mode

\* The methods of the network state keep its type.
LEMMA NetOperations ==
    ASSUME NEW n \in NetType, NEW t \in Clock
    PROVE  /\ \A m \in Mode : [n EXCEPT !.mode = m] \in NetType
           /\ \A s \in {"Empty", "Trial", "Active"} : Begin(n, s, t) \in NetType
           /\ Saved(n, t) \in NetType
           /\ \A up \in BOOLEAN : Sampled(n, t, up) \in NetType
           /\ \A jitter \in 0 .. JitterMs : Retried(n, t, jitter) \in NetType
  <1>1. \A m \in Mode : [n EXCEPT !.mode = m] \in NetType
    BY DEF NetType
  <1>2. \A s \in {"Empty", "Trial", "Active"} : Begin(n, s, t) \in NetType
    <2> TAKE s \in {"Empty", "Trial", "Active"}
    <2>1. ModeFor(s) \in Mode
      BY DEF ModeFor, Mode
    <2> QED BY <2>1, ClockFacts DEF Begin, NetType
  <1>3. Saved(n, t) \in NetType
    BY DEF Saved, NetType, Mode
  <1>4. \A up \in BOOLEAN : Sampled(n, t, up) \in NetType
    BY ClockFacts DEF Sampled, NetType
  <1>5. \A jitter \in 0 .. JitterMs : Retried(n, t, jitter) \in NetType
    <2> TAKE jitter \in 0 .. JitterMs
    <2>1. n.retry \in RetryMs .. RetryCap
      BY DEF NetType
    <2>2. NextRetry(n.retry, jitter) \in RetryMs .. RetryCap
      BY <2>1, ClockFacts DEF NextRetry
    <2> QED BY <2>2 DEF Retried, NetType
  <1> QED BY <1>1, <1>2, <1>3, <1>4, <1>5

\* A freshly begun network state is in the mode of the setting, unconnected.
LEMMA BegunMode ==
    ASSUME NEW n \in NetType, NEW t, NEW s \in {"Empty", "Trial", "Active"}
    PROVE  /\ Begin(n, s, t).mode = CASE s = "Empty" -> "Provisioning"
                                      [] s = "Trial" -> "Trial"
                                      [] s = "Active" -> "Station"
           /\ Begin(n, s, t).connected = FALSE
  <1>1. Begin(n, s, t).mode = ModeFor(s)
    BY DEF Begin, NetType
  <1>2. Begin(n, s, t).connected = FALSE
    BY Zenon DEF Begin, NetType
  <1> QED BY <1>1, <1>2 DEF ModeFor

\* What a sample of the link leaves and changes.
LEMMA SampledFields ==
    ASSUME NEW n \in NetType, NEW t, NEW up \in BOOLEAN
    PROVE  /\ Sampled(n, t, up).mode = n.mode
           /\ n.mode \in {"Trial", "Station"} =>
                 /\ Sampled(n, t, up).connected = up
                 /\ Sampled(n, t, up).stable = IF up /\ ~n.connected THEN t ELSE n.stable
  <1>1. Sampled(n, t, up).mode = n.mode
    BY DEF Sampled, NetType
  <1>2. ASSUME n.mode \in {"Trial", "Station"}
        PROVE  Sampled(n, t, up).connected = up
    BY <1>2, Zenon DEF Sampled, NetType
  <1>3. ASSUME n.mode \in {"Trial", "Station"}
        PROVE  Sampled(n, t, up).stable = IF up /\ ~n.connected THEN t ELSE n.stable
    BY <1>3 DEF Sampled, NetType
  <1> QED BY <1>1, <1>2, <1>3

-----------------------------------------------------------------------------
(* The steps.                                                              *)

\* Every step of the firmware is a step of its store: the main loop only calls
\* what the store allows, and never on a setting that is not on trial.
LEMMA StoreSteps == [OnboardingNext]_onboardingVars => [Next]_vars
  <1> SUFFICES ASSUME [OnboardingNext]_onboardingVars PROVE [Next]_vars
    OBVIOUS
  <1>1. CASE UNCHANGED onboardingVars
    BY <1>1 DEF onboardingVars
  <1>2. CASE Restart
    BY <1>2 DEF Restart, Next
  <1>3. CASE \E asked \in BOOLEAN : Start(asked)
    BY <1>3 DEF Start, Next
  <1>4. CASE BootStep
    BY <1>4 DEF BootStep, Next
  <1>5. CASE StartAp
    BY <1>5 DEF StartAp, Next
  <1>6. CASE \E dt \in Delay, ok \in BOOLEAN : Promote(dt, ok)
    BY <1>6 DEF Promote, Next
  <1>7. CASE \E dt \in Delay : \E up, ok \in BOOLEAN : Withdraw(dt, up, ok)
    BY <1>7 DEF Withdraw, Next
  <1>8. CASE \E dt \in Delay : Reboot(dt)
    BY <1>8 DEF Reboot, Restart, Next
  <1>9. CASE Promoted
    BY <1>9 DEF Promoted, Next
  <1>10. CASE \E cred \in Cred, ok \in BOOLEAN : SaveRecord(cred, ok)
    BY <1>10 DEF SaveRecord, Next
  <1>11. CASE \E ok \in BOOLEAN : SaveReference(ok)
    BY <1>11 DEF SaveReference, Next
  <1>12. CASE \/ \E dt \in Delay, up \in BOOLEAN : NoAction(dt, up)
              \/ \E dt \in Delay, jitter \in 0 .. JitterMs : Connect(dt, jitter)
              \/ BeginReboot \/ Quiet \/ \E done \in BOOLEAN : Send(done)
              \/ AcceptPut \/ Answer \/ DropClient \/ UpdateInstalled \/ PullInstalled
    BY <1>12 DEF NoAction, Connect, BeginReboot, Quiet, Send, AcceptPut, Answer, DropClient,
                 UpdateInstalled, PullInstalled
  <1> QED BY <1>1, <1>2, <1>3, <1>4, <1>5, <1>6, <1>7, <1>8, <1>9, <1>10, <1>11, <1>12
          DEF OnboardingNext, Loop

\* A device that was never switched on.
LEMMA OnboardingStarts == OnboardingInit => OInv
  <1> SUFFICES ASSUME OnboardingInit PROVE OInv
    OBVIOUS
  <1>1. net \in NetType
    BY StoppedType DEF OnboardingInit
  <1>2. bodyAllowed \in BOOLEAN /\ replying \in BOOLEAN /\ pendingReboot \in BOOLEAN
    BY Zenon DEF OnboardingInit
  <1>3. now \in Clock /\ turn = "tick" /\ replyAt \in Clock /\ upFor \in -1 .. StableMs
    BY ClockFacts DEF OnboardingInit
  <1>4. OnboardingTypeOK
    BY <1>1, <1>2, <1>3 DEF OnboardingTypeOK
  <1>5. at = "off" /\ ~pendingReboot /\ upFor = -1
    BY DEF OnboardingInit, Init
  <1> QED BY <1>4, <1>5 DEF OInv, ModeFollowsState, StagingInProvisioning, FreshBoot, TimedTrial

\* Power is cut.
LEMMA RestartKeeps == Restart => OInv'
  <1> SUFFICES ASSUME Restart PROVE OInv'
    OBVIOUS
  <1>1. net' \in NetType
    BY StoppedType DEF Restart
  <1>2. bodyAllowed' \in BOOLEAN /\ replying' \in BOOLEAN /\ pendingReboot' \in BOOLEAN
    BY Zenon DEF Restart
  <1>3. now' \in Clock /\ turn' = "tick" /\ replyAt' \in Clock /\ upFor' \in -1 .. StableMs
    BY ClockFacts DEF Restart
  <1>4. OnboardingTypeOK'
    BY <1>1, <1>2, <1>3 DEF OnboardingTypeOK
  <1>5. at' = "off" /\ ~pendingReboot' /\ upFor' = -1
    BY DEF Restart, PowerCut
  <1> QED BY <1>4, <1>5 DEF OInv, ModeFollowsState, StagingInProvisioning, FreshBoot, TimedTrial

\* A fault leaves nothing that the loop would act upon.
LEMMA FaultKeeps ==
    ASSUME OInv, Faulted, at' = "fault", now' \in Clock, replyAt' = replyAt,
           pendingReboot' = pendingReboot, upFor' \in -1 .. StableMs
    PROVE  OInv'
  <1>1. net' \in NetType
    BY DEF OInv, OnboardingTypeOK, Faulted, NetType, Mode
  <1>2. bodyAllowed' \in BOOLEAN /\ replying' \in BOOLEAN /\ turn' = turn
    BY DEF Faulted
  <1>3. OnboardingTypeOK'
    BY <1>1, <1>2 DEF OInv, OnboardingTypeOK
  <1> QED BY <1>3 DEF OInv, ModeFollowsState, StagingInProvisioning, FreshBoot, TimedTrial,
                      BootPoints

\* The application starts.
LEMMA StartKeeps == OInv /\ (\E asked \in BOOLEAN : Start(asked)) => OInv'
  <1> SUFFICES ASSUME OInv, NEW asked \in BOOLEAN, Start(asked) PROVE OInv'
    OBVIOUS
  <1>1. at = "off" /\ at' = "gate"
    BY DEF Start, PowerOn
  <1>2. /\ net' = net /\ now' = now /\ turn' = turn /\ upFor' = upFor
        /\ bodyAllowed' = bodyAllowed /\ replying' = replying /\ replyAt' = replyAt
        /\ pendingReboot' = pendingReboot
    BY DEF Start, http
  <1>3. OnboardingTypeOK'
    BY <1>2 DEF OInv, OnboardingTypeOK
  <1>4. FreshBoot'
    BY <1>1, <1>2 DEF OInv, FreshBoot, BootPoints
  <1> QED BY <1>1, <1>3, <1>4 DEF OInv, ModeFollowsState, StagingInProvisioning, TimedTrial

\* Where the steps of a boot begin and end.
LEMMA BootStepPoints ==
    ASSUME BootStep
    PROVE  /\ at \in BootPoints /\ at' \in BootPoints \cup {"idle", "fault"}
           /\ at' = "idle" => state' = state
  <1>1. CASE \E pending \in BOOLEAN : GateReset(pending)
    BY <1>1 DEF GateReset, Fail, BootPoints, store
  <1>2. CASE ResumeReset
    BY <1>2 DEF ResumeReset, Fail, BootPoints, store
  <1>3. CASE \E read \in BOOLEAN : Load(read)
    BY <1>3 DEF Load, Fail, BootPoints
  <1>4. CASE ReuseKey
    BY <1>4 DEF ReuseKey, Fail, BootPoints, store
  <1>5. CASE HandOffKey
    BY <1>5 DEF HandOffKey, BootPoints, store
  <1>6. CASE \E ok \in BOOLEAN : MarkReset(ok)
    BY <1>6 DEF MarkReset, BootPoints
  <1>7. CASE \E ok \in BOOLEAN : EraseNext(ok)
    BY <1>7 DEF EraseNext, Fail, BootPoints
  <1>8. CASE \E ok \in BOOLEAN : \E key \in InstallKey : CreateKey(key, ok)
    BY <1>8 DEF CreateKey, BootPoints, store
  <1> QED BY <1>1, <1>2, <1>3, <1>4, <1>5, <1>6, <1>7, <1>8 DEF BootStep

\* In service the store is not corrupt.
LEMMA SoundAtIdle == IInv => (at = "idle" => state \in {"Empty", "Trial", "Active"})
  BY DEF IInv, TypeOK, ServiceState, InService

\* A boot hands the network the state of the store it has just loaded.
LEMMA BootKeeps == OInv /\ IInv' /\ BootStep => OInv'
  <1> SUFFICES ASSUME OInv, IInv', BootStep PROVE OInv'
    OBVIOUS
  <1>1. /\ at \in BootPoints /\ at' \in BootPoints \cup {"idle", "fault"}
        /\ at' = "idle" => state' = state
    BY BootStepPoints
  <1>2. ~pendingReboot /\ upFor = -1
    BY <1>1 DEF OInv, FreshBoot
  <1>3. now' = now /\ replyAt' = replyAt /\ pendingReboot' = pendingReboot /\ upFor' = upFor
    BY DEF BootStep
  <1>4. CASE at' = "fault"
    <2>1. Faulted
      BY <1>4 DEF BootStep
    <2> QED BY <1>3, <1>4, <2>1, FaultKeeps DEF OInv, OnboardingTypeOK
  <1>5. CASE at' \in BootPoints
    <2>1. /\ net' = net /\ turn' = turn /\ bodyAllowed' = bodyAllowed /\ replying' = replying
          /\ at' \notin {"idle", "fault", "stageRef"}
      BY <1>5 DEF BootStep, BootPoints
    <2>2. OnboardingTypeOK'
      BY <1>3, <2>1 DEF OInv, OnboardingTypeOK
    <2> QED BY <1>2, <1>3, <2>1, <2>2
            DEF OInv, ModeFollowsState, StagingInProvisioning, FreshBoot, TimedTrial
  <1>6. CASE at' = "idle"
    <2>1. Began(state) /\ bodyAllowed' = bodyAllowed /\ replying' = replying
      BY <1>6 DEF BootStep
    <2>2. state \in {"Empty", "Trial", "Active"}
      <3>1. at' = "idle" => state' \in {"Empty", "Trial", "Active"}
        BY DEF IInv, TypeOK, ServiceState, InService
      <3> QED BY <1>1, <1>6, <3>1
    <2>3. net' = Begin(net, state, now') /\ turn' \in {"ap", "tick"}
      BY <2>1 DEF Began
    <2>4. net \in NetType /\ now' \in Clock
      BY <1>3 DEF OInv, OnboardingTypeOK
    <2>5. net' \in NetType
      BY <2>2, <2>3, <2>4, NetOperations
    <2>6. /\ net'.mode = (CASE state = "Empty" -> "Provisioning"
                            [] state = "Trial" -> "Trial"
                            [] state = "Active" -> "Station")
          /\ net'.connected = FALSE
      BY <2>2, <2>3, <2>4, BegunMode
    <2>7. OnboardingTypeOK'
      BY <1>3, <2>1, <2>3, <2>5 DEF OInv, OnboardingTypeOK
    <2>8. ModeFollowsState'
      <3>1. state' = state /\ ~pendingReboot'
        BY <1>1, <1>2, <1>3, <1>6
      <3> QED BY <2>2, <2>6, <3>1 DEF ModeFollowsState
    <2>9. TimedTrial'
      <3>1. upFor' = -1
        BY <1>2, <1>3
      <3>2. ~(upFor' >= 0)
        BY <3>1
      <3> QED BY <2>6, <3>2 DEF TimedTrial
    <2>10. StagingInProvisioning' /\ FreshBoot'
      BY <1>6 DEF StagingInProvisioning, FreshBoot, BootPoints
    <2> QED BY <2>7, <2>8, <2>9, <2>10 DEF OInv
  <1> QED BY <1>1, <1>4, <1>5, <1>6

\* What a turn that leaves the store, the clock and the network alone keeps.
LEMMA IdleKeeps ==
    ASSUME OInv, at' = at, state' = state, net' = net, now' = now, upFor' = upFor,
           turn' \in {"tick", "ap", "http"}, bodyAllowed' \in BOOLEAN, replying' \in BOOLEAN,
           replyAt' \in Clock, pendingReboot' = pendingReboot
    PROVE  OInv'
  <1>1. OnboardingTypeOK'
    BY DEF OInv, OnboardingTypeOK
  <1>2. ModeFollowsState' /\ StagingInProvisioning' /\ FreshBoot'
    BY DEF OInv, ModeFollowsState, StagingInProvisioning, FreshBoot
  <1>3. TimedTrial'
    BY DEF OInv, TimedTrial, Since
  <1> QED BY <1>1, <1>2, <1>3 DEF OInv

\* The access point starts, or cannot be.
LEMMA StartApKeeps == OInv /\ StartAp => OInv'
  <1> SUFFICES ASSUME OInv, StartAp PROVE OInv'
    OBVIOUS
  <1>1. now' = now /\ replyAt' = replyAt /\ pendingReboot' = pendingReboot /\ upFor' = upFor
    BY DEF StartAp
  <1>2. CASE turn' = "http" /\ UNCHANGED <<vars, net>>
    <2>1. at' = at /\ state' = state /\ net' = net
      BY <1>2 DEF vars, store
    <2>2. bodyAllowed' = FALSE /\ replying' = FALSE
      BY DEF StartAp
    <2>3. bodyAllowed' \in BOOLEAN /\ replying' \in BOOLEAN
      BY <2>2, Zenon
    <2>4. replyAt' \in Clock
      BY <1>1 DEF OInv, OnboardingTypeOK
    <2> QED BY <1>1, <1>2, <2>1, <2>3, <2>4, IdleKeeps
  <1>3. CASE NetworkFault /\ Faulted
    <2>1. at' = "fault"
      BY <1>3 DEF NetworkFault, Fail
    <2> QED BY <1>1, <1>3, <2>1, FaultKeeps DEF OInv, OnboardingTypeOK
  <1> QED BY <1>2, <1>3 DEF StartAp

\* Requests that end without a change to the store or the network.
LEMMA RequestKeeps ==
    ASSUME OInv,
           Quiet \/ (\E done \in BOOLEAN : Send(done)) \/ AcceptPut \/ Answer \/ DropClient
    PROVE  OInv'
  <1>1. /\ UNCHANGED vars /\ net' = net /\ now' = now /\ upFor' = upFor /\ turn' = "tick"
        /\ pendingReboot' = pendingReboot
    BY DEF Quiet, Send, AcceptPut, Answer, DropClient, Served, http
  <1>2. at' = at /\ state' = state
    BY <1>1 DEF vars, store
  <1>3. replyAt' \in {replyAt, now}
    BY DEF Quiet, Send, AcceptPut, Answer, DropClient, http
  <1>4. bodyAllowed' \in BOOLEAN
    <2>1. bodyAllowed \in BOOLEAN
      BY DEF OInv, OnboardingTypeOK
    <2> QED BY <2>1, Zenon DEF Quiet, Send, AcceptPut, Answer, DropClient, http
  <1>5. replying' \in BOOLEAN
    <2>1. replying \in BOOLEAN
      BY DEF OInv, OnboardingTypeOK
    <2> QED BY <2>1, Zenon DEF Quiet, Send, AcceptPut, Answer, DropClient, http
  <1>6. replyAt' \in Clock
    BY <1>3 DEF OInv, OnboardingTypeOK
  <1> QED BY <1>1, <1>2, <1>4, <1>5, <1>6, IdleKeeps

\* The reboot begins over a setting that awaits its trial, or an adopted one.
LEMMA BeginRebootKeeps == OInv /\ BeginReboot => OInv'
  <1> SUFFICES ASSUME OInv, BeginReboot PROVE OInv'
    OBVIOUS
  <1>1. /\ at' = at /\ state' = state /\ at = "idle" /\ now' = now /\ upFor' = upFor
        /\ turn' = "tick" /\ net' = Saved(net, now) /\ bodyAllowed' = bodyAllowed
        /\ replying' = replying /\ replyAt' = replyAt /\ pendingReboot
    BY DEF BeginReboot, AtHttp, Served, vars, store
  <1>2. pendingReboot' = FALSE
    BY DEF BeginReboot
  <1>3. net' \in NetType /\ net'.mode = "Rebooting"
    <2>1. net \in NetType /\ now \in Clock
      BY DEF OInv, OnboardingTypeOK
    <2>2. net' \in NetType
      BY <1>1, <2>1, NetOperations
    <2> QED BY <1>1, <2>1, <2>2 DEF Saved, NetType
  <1>4. OnboardingTypeOK'
    BY <1>1, <1>2, <1>3 DEF OInv, OnboardingTypeOK
  <1>5. state \in {"Trial", "Active"}
    BY <1>1 DEF OInv, ModeFollowsState
  <1>6. ModeFollowsState'
    BY <1>1, <1>2, <1>3, <1>5 DEF ModeFollowsState
  <1> QED BY <1>1, <1>3, <1>4, <1>6
          DEF OInv, StagingInProvisioning, FreshBoot, TimedTrial, BootPoints

\* An installed update asks for a reboot of a station.
LEMMA UpdateKeeps == OInv /\ UpdateInstalled => OInv'
  <1> SUFFICES ASSUME OInv, UpdateInstalled PROVE OInv'
    OBVIOUS
  <1>1. /\ at' = at /\ state' = state /\ at = "idle" /\ now' = now /\ upFor' = upFor
        /\ turn' = "tick" /\ net' = net /\ bodyAllowed' = bodyAllowed
        /\ replyAt' = now /\ net.mode = "Station"
    BY DEF UpdateInstalled, Serving, AtHttp, Served, vars, store
  <1>2. pendingReboot' \in BOOLEAN /\ replying' \in BOOLEAN
    BY Zenon DEF UpdateInstalled
  <1>3. OnboardingTypeOK'
    BY <1>1, <1>2 DEF OInv, OnboardingTypeOK
  <1>4. ModeFollowsState'
    BY <1>1 DEF OInv, ModeFollowsState
  <1> QED BY <1>1, <1>3, <1>4
          DEF OInv, StagingInProvisioning, FreshBoot, TimedTrial, BootPoints

\* Nor does it matter that the pull asks for it without an answer of its own.
LEMMA PullKeeps == OInv /\ PullInstalled => OInv'
  <1> SUFFICES ASSUME OInv, PullInstalled PROVE OInv'
    OBVIOUS
  <1>1. /\ at' = at /\ state' = state /\ at = "idle" /\ now' = now /\ upFor' = upFor
        /\ turn' = turn /\ net' = net /\ bodyAllowed' = bodyAllowed
        /\ replying' = replying /\ replyAt' = replyAt /\ net.mode = "Station"
    BY DEF PullInstalled, vars, store
  <1>2. pendingReboot' \in BOOLEAN
    BY DEF PullInstalled
  <1>3. bodyAllowed' \in BOOLEAN /\ replying' \in BOOLEAN
    BY <1>1, Zenon DEF OInv, OnboardingTypeOK
  <1>4. OnboardingTypeOK'
    BY <1>1, <1>2, <1>3 DEF OInv, OnboardingTypeOK
  <1>5. ModeFollowsState'
    BY <1>1 DEF OInv, ModeFollowsState
  <1> QED BY <1>1, <1>4, <1>5
          DEF OInv, StagingInProvisioning, FreshBoot, TimedTrial, BootPoints

\* Between two storage operations of stage, or after the first one failed.
LEMMA SaveRecordKeeps ==
    ASSUME OInv, NEW cred \in Cred, NEW ok \in BOOLEAN, SaveRecord(cred, ok)
    PROVE  OInv'
  <1>1. /\ at = "idle" /\ state = "Empty" /\ now' = now /\ upFor' = upFor
        /\ replyAt' = replyAt /\ pendingReboot' = pendingReboot
    BY DEF SaveRecord, Serving, AtHttp, StageRecord, MayStage
  <1>2. net.mode = "Provisioning"
    BY <1>1 DEF OInv, ModeFollowsState
  <1>3. CASE ok
    <2>1. /\ at' = "stageRef" /\ net' = net /\ turn' = turn /\ bodyAllowed' = bodyAllowed
          /\ replying' = replying
      BY <1>3 DEF SaveRecord, StageRecord
    <2>2. OnboardingTypeOK'
      BY <1>1, <2>1 DEF OInv, OnboardingTypeOK
    <2> QED BY <1>2, <2>1, <2>2
            DEF OInv, ModeFollowsState, StagingInProvisioning, FreshBoot, TimedTrial, BootPoints
  <1>4. CASE ~ok
    <2>1. at' = "fault" /\ Faulted
      BY <1>4 DEF SaveRecord, StageRecord, Fail
    <2> QED BY <1>1, <2>1, FaultKeeps DEF OInv, OnboardingTypeOK
  <1> QED BY <1>3, <1>4

\* A setting that was saved waits for the reboot of a setup AP.
LEMMA SaveReferenceKeeps ==
    ASSUME OInv, NEW ok \in BOOLEAN, SaveReference(ok)
    PROVE  OInv'
  <1>1. at = "stageRef" /\ net.mode = "Provisioning"
    BY DEF SaveReference, StageReference, OInv, StagingInProvisioning
  <1>2. CASE ok
    <2>1. /\ at' = "idle" /\ state' = "Trial" /\ net' = net /\ turn' = "tick" /\ now' = now
          /\ upFor' = upFor /\ bodyAllowed' = bodyAllowed /\ replyAt' = now
      BY <1>2 DEF SaveReference, StageReference, Served, Fail
    <2>2. pendingReboot' = TRUE /\ replying' = TRUE
      BY <1>2 DEF SaveReference
    <2>3. pendingReboot' \in BOOLEAN /\ replying' \in BOOLEAN
      BY <2>2, Zenon
    <2>4. OnboardingTypeOK'
      BY <2>1, <2>3 DEF OInv, OnboardingTypeOK
    <2>5. ModeFollowsState'
      BY <1>1, <2>1, <2>2 DEF ModeFollowsState
    <2> QED BY <1>1, <2>1, <2>4, <2>5
            DEF OInv, StagingInProvisioning, FreshBoot, TimedTrial, BootPoints
  <1>3. CASE ~ok
    <2>1. /\ at' = "fault" /\ Faulted /\ now' = now /\ replyAt' = replyAt
          /\ pendingReboot' = pendingReboot /\ upFor' = upFor
      BY <1>3 DEF SaveReference, StageReference, Fail
    <2> QED BY <2>1, FaultKeeps DEF OInv, OnboardingTypeOK
  <1> QED BY <1>2, <1>3

-----------------------------------------------------------------------------
(* The ticks.                                                              *)

\* What every tick does with the clock.
LEMMA TickFacts ==
    ASSUME OInv, NEW dt \in Delay, NEW up \in BOOLEAN, Tick(dt, up)
    PROVE  /\ at = "idle" /\ dt \in Nat \ {0}
           /\ now' = (now + dt) % ClockSize /\ now' \in Clock
           /\ upFor' \in -1 .. StableMs
           /\ up => net.mode \in {"Trial", "Station"}
           /\ net \in NetType /\ now \in Clock /\ upFor \in -1 .. StableMs
  <1>1. dt \in Nat \ {0}
    BY TurnAssumption DEF Delay
  <1>2. net \in NetType /\ now \in Clock /\ upFor \in -1 .. StableMs
    BY DEF OInv, OnboardingTypeOK
  <1>3. now' = (now + dt) % ClockSize /\ at = "idle" /\ (up => net.mode \in {"Trial", "Station"})
    BY DEF Tick
  <1>4. now' \in Clock
    <2>1. now + dt \in Int
      BY <1>1, <1>2, ClockFacts DEF Clock
    <2> QED BY <1>3, <2>1, ClockWraps
  <1>5. upFor' \in {-1, 0, StableMs} \/ (upFor' = upFor + dt /\ ~(upFor + dt > StableMs) /\ upFor # -1)
    BY DEF Tick
  <1>6. upFor' \in -1 .. StableMs
    BY <1>1, <1>2, <1>5, ClockFacts
  <1> QED BY <1>1, <1>2, <1>3, <1>4, <1>6

\* The sample of a tick in a trial keeps the measure of the time the link has
\* been up.
LEMMA SampleTimesTrial ==
    ASSUME OInv, NEW dt \in Delay, NEW up \in BOOLEAN, Tick(dt, up), net.mode = "Trial"
    PROVE  /\ up <=> upFor' >= 0
           /\ up /\ upFor' < StableMs => Since(now', Sampled(net, now', up).stable) = upFor'
  <1>1. /\ at = "idle" /\ dt \in Nat \ {0}
        /\ now' = (now + dt) % ClockSize /\ now' \in Clock
        /\ net \in NetType /\ now \in Clock /\ upFor \in -1 .. StableMs
    BY TickFacts
  <1>2. /\ net.connected <=> upFor >= 0
        /\ net.connected /\ upFor < StableMs => Since(now, net.stable) = upFor
    BY <1>1 DEF OInv, TimedTrial
  <1> DEFINE sampled == Sampled(net, now', up)
  <1>3. sampled.stable = IF up /\ ~net.connected THEN now' ELSE net.stable
    BY <1>1, SampledFields
  <1> HIDE DEF sampled
  <1>4. CASE ~up
    <2>1. upFor' = -1
      BY <1>4 DEF Tick
    <2> QED BY <1>4, <2>1
  <1>5. CASE up /\ upFor = -1
    <2>1. upFor' = 0
      BY <1>5 DEF Tick
    <2>2. ~net.connected
      BY <1>2, <1>5
    <2>3. sampled.stable = now'
      BY <1>3, <1>5, <2>2
    <2>4. Since(now', sampled.stable) = 0
      BY <1>1, <2>3, SinceItself
    <2>5. up /\ upFor' >= 0 /\ Since(now', sampled.stable) = upFor'
      BY <1>5, <2>1, <2>4
    <2> QED BY <2>5 DEF sampled
  <1>6. CASE up /\ upFor # -1
    <2>1. upFor' = IF upFor + dt > StableMs THEN StableMs ELSE upFor + dt
      BY <1>6 DEF Tick
    <2>2. upFor >= 0 /\ upFor \in Nat /\ net.connected
      <3>1. upFor >= 0 /\ upFor \in Nat
        BY <1>1, <1>6, ClockFacts
      <3> QED BY <1>2, <3>1
    <2>3. upFor' >= 0
      BY <1>1, <2>1, <2>2, ClockFacts
    <2>4. ASSUME upFor' < StableMs
          PROVE  Since(now', sampled.stable) = upFor'
      <3>1. upFor' = upFor + dt /\ upFor < StableMs /\ upFor + dt < ClockSize
        BY <1>1, <2>1, <2>2, <2>4, ClockFacts
      <3>2. Since(now, net.stable) = upFor
        BY <1>2, <2>2, <3>1
      <3>3. sampled.stable = net.stable /\ net.stable \in Clock
        <4>1. net.stable \in Clock
          BY <1>1 DEF NetType
        <4> QED BY <1>3, <2>2, <4>1
      <3>4. Since((now + dt) % ClockSize, net.stable) = upFor + dt
        BY <1>1, <3>1, <3>2, <3>3, SinceAdds
      <3> QED BY <1>1, <3>1, <3>3, <3>4
    <2> QED BY <1>6, <2>3, <2>4 DEF sampled
  <1> QED BY <1>4, <1>5, <1>6

\* A tick without an action only samples the link.
LEMMA NoActionKeeps ==
    ASSUME OInv, NEW dt \in Delay, NEW up \in BOOLEAN, NoAction(dt, up)
    PROVE  OInv'
  <1>1. /\ Tick(dt, up) /\ turn' = "http" /\ at' = at /\ state' = state
        /\ bodyAllowed' = bodyAllowed /\ replying' = replying /\ replyAt' = replyAt
        /\ pendingReboot' = pendingReboot
    BY DEF NoAction, vars, store, http
  <1>2. /\ at = "idle" /\ now' \in Clock /\ upFor' \in -1 .. StableMs /\ net \in NetType
    BY <1>1, TickFacts
  <1> DEFINE sampled == Sampled(net, now', up)
  <1>3. net' = IF pendingReboot THEN net ELSE sampled
    BY DEF NoAction
  <1>4. sampled \in NetType /\ sampled.mode = net.mode
    BY <1>2, NetOperations, SampledFields
  <1>5. net.mode = "Trial" => sampled.connected = up
    BY <1>2, SampledFields
  <1>6. net.mode = "Trial" => /\ up <=> upFor' >= 0
                              /\ up /\ upFor' < StableMs => Since(now', sampled.stable) = upFor'
    BY <1>1, SampleTimesTrial
  <1> HIDE DEF sampled
  <1>7. net' \in NetType /\ net'.mode = net.mode
    BY <1>2, <1>3, <1>4
  <1>8. OnboardingTypeOK'
    BY <1>1, <1>2, <1>7 DEF OInv, OnboardingTypeOK
  <1>9. ModeFollowsState'
    BY <1>1, <1>7 DEF OInv, ModeFollowsState
  <1>10. TimedTrial'
    <2> SUFFICES ASSUME net'.mode = "Trial"
                 PROVE  /\ net'.connected <=> upFor' >= 0
                        /\ net'.connected /\ upFor' < StableMs => Since(now', net'.stable) = upFor'
      BY Zenon DEF TimedTrial, Since
    <2>1. net.mode = "Trial"
      BY <1>7
    <2>2. ~pendingReboot
      BY <1>2, <2>1 DEF OInv, ModeFollowsState
    <2>3. net' = sampled
      BY <1>3, <2>2
    <2> QED BY <1>5, <1>6, <2>1, <2>3
  <1> QED BY <1>1, <1>2, <1>8, <1>9, <1>10
          DEF OInv, StagingInProvisioning, FreshBoot, BootPoints

\* A reconnect changes the backoff only.
LEMMA ConnectKeeps ==
    ASSUME OInv, NEW dt \in Delay, NEW jitter \in 0 .. JitterMs, Connect(dt, jitter)
    PROVE  OInv'
  <1>1. /\ Tick(dt, FALSE) /\ turn' = "http" /\ at' = at /\ state' = state
        /\ bodyAllowed' = bodyAllowed /\ replying' = replying /\ replyAt' = replyAt
        /\ pendingReboot' = pendingReboot
    BY DEF Connect, vars, store, http
  <1>2. /\ at = "idle" /\ now' \in Clock /\ upFor' \in -1 .. StableMs /\ net \in NetType
    BY <1>1, TickFacts
  <1> DEFINE sampled == Sampled(net, now', FALSE)
  <1>3. net' = Retried(sampled, now', jitter) /\ MustConnect(sampled, now')
    BY DEF Connect
  <1>4. sampled \in NetType /\ sampled.mode = net.mode
    BY <1>2, NetOperations, SampledFields
  <1>5. sampled.mode \in {"Trial", "Station"} /\ ~sampled.connected
    BY <1>3 DEF MustConnect
  <1> HIDE DEF sampled
  <1>6. net' \in NetType
    BY <1>2, <1>3, <1>4, NetOperations
  <1>7. net'.mode = sampled.mode
    BY <1>3, <1>4 DEF Retried, NetType
  <1>8. ~net'.connected
    <2>1. net'.connected = sampled.connected
      BY <1>3, <1>4, Zenon DEF Retried, NetType
    <2> QED BY <1>5, <2>1
  <1>9. OnboardingTypeOK'
    BY <1>1, <1>2, <1>6 DEF OInv, OnboardingTypeOK
  <1>10. ModeFollowsState'
    BY <1>1, <1>4, <1>7 DEF OInv, ModeFollowsState
  <1>11. TimedTrial'
    <2>1. upFor' = -1
      BY <1>1 DEF Tick
    <2> QED BY <1>8, <2>1 DEF TimedTrial
  <1> QED BY <1>1, <1>2, <1>9, <1>10, <1>11
          DEF OInv, StagingInProvisioning, FreshBoot, BootPoints

\* The reference of an adopted setting is written, or the firmware stops.
LEMMA PromoteKeeps ==
    ASSUME OInv, NEW dt \in Delay, NEW ok \in BOOLEAN, Promote(dt, ok)
    PROVE  OInv'
  <1>1. Tick(dt, TRUE) /\ replyAt' = replyAt /\ pendingReboot' = pendingReboot
    BY DEF Promote
  <1>2. now' \in Clock /\ upFor' \in -1 .. StableMs /\ net \in NetType
    BY <1>1, TickFacts
  <1>3. CASE ok
    <2>1. /\ at' = "promoteErase" /\ net' = Sampled(net, now', TRUE) /\ turn' = turn
          /\ bodyAllowed' = bodyAllowed /\ replying' = replying
      BY <1>3 DEF Promote, PromoteWrite, Fail
    <2>2. net' \in NetType
      BY <1>2, <2>1, NetOperations
    <2>3. OnboardingTypeOK'
      BY <1>1, <1>2, <2>1, <2>2 DEF OInv, OnboardingTypeOK
    <2> QED BY <2>1, <2>3
            DEF OInv, ModeFollowsState, StagingInProvisioning, FreshBoot, TimedTrial, BootPoints
  <1>4. CASE ~ok
    <2>1. at' = "fault" /\ Faulted
      BY <1>4 DEF Promote, PromoteWrite, Fail
    <2> QED BY <1>1, <1>2, <2>1, FaultKeeps
  <1> QED BY <1>3, <1>4

\* A device with an adopted setting is a station.
LEMMA PromotedKeeps == OInv /\ Promoted => OInv'
  <1> SUFFICES ASSUME OInv, Promoted PROVE OInv'
    OBVIOUS
  <1>1. /\ at' = "idle" /\ state' = "Active" /\ net' = [net EXCEPT !.mode = "Station"]
        /\ turn' = "http" /\ now' = now /\ upFor' = upFor /\ bodyAllowed' = bodyAllowed
        /\ replying' = replying /\ replyAt' = replyAt /\ pendingReboot' = pendingReboot
    BY DEF Promoted, PromoteErase, http
  <1>2. net \in NetType
    BY DEF OInv, OnboardingTypeOK
  <1>3. net' \in NetType /\ net'.mode = "Station"
    BY <1>1, <1>2 DEF NetType, Mode
  <1>4. OnboardingTypeOK'
    BY <1>1, <1>3 DEF OInv, OnboardingTypeOK
  <1> QED BY <1>1, <1>3, <1>4
          DEF OInv, ModeFollowsState, StagingInProvisioning, FreshBoot, TimedTrial, BootPoints

\* A withdrawn trial opens the setup AP again.
LEMMA WithdrawKeeps ==
    ASSUME OInv, NEW dt \in Delay, NEW up \in BOOLEAN, NEW ok \in BOOLEAN, Withdraw(dt, up, ok)
    PROVE  OInv'
  <1>1. Tick(dt, up) /\ replyAt' = replyAt /\ pendingReboot' = pendingReboot /\ ~pendingReboot
    BY DEF Withdraw
  <1>2. now' \in Clock /\ upFor' \in -1 .. StableMs /\ net \in NetType /\ at = "idle"
    BY <1>1, TickFacts
  <1>3. CASE ok
    <2>1. /\ at' = at /\ state' = "Empty" /\ Began("Empty")
          /\ bodyAllowed' = bodyAllowed /\ replying' = replying
      BY <1>3 DEF Withdraw, DiscardTrial, Fail
    <2>2. net' = Begin(net, "Empty", now') /\ turn' \in {"ap", "tick"}
      BY <2>1 DEF Began
    <2>3. net' \in NetType /\ net'.mode = "Provisioning"
      BY <1>2, <2>2, NetOperations, BegunMode
    <2>4. OnboardingTypeOK'
      BY <1>1, <1>2, <2>1, <2>2, <2>3 DEF OInv, OnboardingTypeOK
    <2> QED BY <1>1, <1>2, <2>1, <2>3, <2>4
            DEF OInv, ModeFollowsState, StagingInProvisioning, FreshBoot, TimedTrial, BootPoints
  <1>4. CASE ~ok
    <2>1. at' = "fault" /\ Faulted
      BY <1>4 DEF Withdraw, DiscardTrial, Fail
    <2> QED BY <1>1, <1>2, <2>1, FaultKeeps
  <1> QED BY <1>3, <1>4

-----------------------------------------------------------------------------
(* The theorems.                                                           *)

\* Every step of the device keeps the invariant.
LEMMA OnboardingStep == OInv /\ IInv' /\ [OnboardingNext]_onboardingVars => OInv'
  <1> SUFFICES ASSUME OInv, IInv', [OnboardingNext]_onboardingVars PROVE OInv'
    OBVIOUS
  <1>1. CASE UNCHANGED onboardingVars
    <2>1. /\ at' = at /\ state' = state /\ net' = net /\ now' = now /\ upFor' = upFor
          /\ turn' = turn /\ bodyAllowed' = bodyAllowed /\ replying' = replying
          /\ replyAt' = replyAt /\ pendingReboot' = pendingReboot
      BY <1>1 DEF onboardingVars, vars, store, http
    <2>2. bodyAllowed' \in BOOLEAN /\ replying' \in BOOLEAN
      BY <2>1, Zenon DEF OInv, OnboardingTypeOK
    <2>3. turn' \in {"tick", "ap", "http"} /\ replyAt' \in Clock
      BY <2>1 DEF OInv, OnboardingTypeOK
    <2> QED BY <2>1, <2>2, <2>3, IdleKeeps
  <1>2. CASE Restart
    BY <1>2, RestartKeeps
  <1>3. CASE \E asked \in BOOLEAN : Start(asked)
    BY <1>3, StartKeeps
  <1>4. CASE BootStep
    BY <1>4, BootKeeps
  <1>5. CASE StartAp
    BY <1>5, StartApKeeps
  <1>6. CASE \E dt \in Delay, up \in BOOLEAN : NoAction(dt, up)
    BY <1>6, NoActionKeeps
  <1>7. CASE \E dt \in Delay, jitter \in 0 .. JitterMs : Connect(dt, jitter)
    BY <1>7, ConnectKeeps
  <1>8. CASE \E dt \in Delay, ok \in BOOLEAN : Promote(dt, ok)
    BY <1>8, PromoteKeeps
  <1>9. CASE \E dt \in Delay : \E up, ok \in BOOLEAN : Withdraw(dt, up, ok)
    BY <1>9, WithdrawKeeps
  <1>10. CASE \E dt \in Delay : Reboot(dt)
    BY <1>10, RestartKeeps DEF Reboot
  <1>11. CASE Promoted
    BY <1>11, PromotedKeeps
  <1>12. CASE BeginReboot
    BY <1>12, BeginRebootKeeps
  <1>13. CASE Quiet \/ (\E done \in BOOLEAN : Send(done)) \/ AcceptPut \/ Answer \/ DropClient
    BY <1>13, RequestKeeps
  <1>14. CASE \E cred \in Cred, ok \in BOOLEAN : SaveRecord(cred, ok)
    BY <1>14, SaveRecordKeeps
  <1>15. CASE \E ok \in BOOLEAN : SaveReference(ok)
    BY <1>15, SaveReferenceKeeps
  <1>16. CASE UpdateInstalled \/ PullInstalled
    BY <1>16, UpdateKeeps, PullKeeps
  <1> QED BY <1>1, <1>2, <1>3, <1>4, <1>5, <1>6, <1>7, <1>8, <1>9, <1>10, <1>11, <1>12, <1>13,
             <1>14, <1>15, <1>16
          DEF OnboardingNext, Loop

\* The store is sound and the network follows it, in every reachable state.
LEMMA OnboardingHolds == OnboardingSpec => [](IInv /\ OInv)
  <1>1. OnboardingInit => Init
    BY DEF OnboardingInit
  <1>2. IInv /\ OInv /\ [OnboardingNext]_onboardingVars => IInv' /\ OInv'
    BY StoreSteps, InvariantStep, OnboardingStep
  <1> QED BY <1>1, <1>2, OnboardingStarts, InvariantInit, PTL DEF OnboardingSpec

\* The state of the main loop is well-typed, whatever is requested, measured
\* and cut short: the backoff stays between its first delay and its cap, and no
\* deadline leaves the range of the clock.
THEOREM OnboardingTypes == OnboardingSpec => []OnboardingTypeOK
  <1>1. OInv => OnboardingTypeOK
    BY DEF OInv
  <1> QED BY <1>1, OnboardingHolds, PTL

\* A setting that is on trial or adopted is durable as such.
LEMMA SettingOfState ==
    ASSUME IInv, at = "idle"
    PROVE  /\ state = "Empty" => DurableSetting.phase = "None"
           /\ state = "Trial" => DurableSetting.phase = "Trial"
           /\ state = "Active" => DurableSetting.phase = "Active"
  <1>1. nvs["reset"] = Missing
    BY DEF IInv, RamMatchesDurable, InService
  <1>2. ASSUME state = "Empty" PROVE DurableSetting.phase = "None"
    BY <1>1, <1>2, EmptyInService DEF DurableSetting
  <1>3. ASSUME state = "Trial" PROVE DurableSetting.phase = "Trial"
    <2>1. nvs["active"] = Missing /\ nvs["trial"] = selected /\ selected \in Reference
      BY <1>3, TrialAtIdle
    <2> QED BY <1>1, <2>1, Distinct DEF DurableSetting
  <1>4. ASSUME state = "Active" PROVE DurableSetting.phase = "Active"
    <2>1. LoadedState = "Active"
      BY <1>4 DEF IInv, RamMatchesDurable, InService
    <2>2. nvs["active"] # Missing
      BY <2>1 DEF LoadedState
    <2> QED BY <1>1, <2>2 DEF DurableSetting
  <1> QED BY <1>2, <1>3, <1>4

\* The mode of the network, the state of the store and what is durable never
\* disagree while the loop runs: the setup AP never opens over a durable
\* setting except the one that was just acknowledged, and promote() and
\* discardTrial() are called on a durable trial only.
THEOREM NetworkAgrees == OnboardingSpec => []NetworkFollowsStore
  <1>1. IInv /\ OInv => NetworkFollowsStore
    <2> SUFFICES ASSUME IInv, OInv, at = "idle" PROVE NetworkFollowsStore
      BY DEF NetworkFollowsStore
    <2>1. /\ state = "Empty" => DurableSetting.phase = "None"
          /\ state = "Trial" => DurableSetting.phase = "Trial"
          /\ state = "Active" => DurableSetting.phase = "Active"
      BY SettingOfState
    <2>2. CASE net.mode = "Provisioning" /\ state = IF pendingReboot THEN "Trial" ELSE "Empty"
      BY <2>1, <2>2 DEF NetworkFollowsStore
    <2>3. CASE net.mode = "Trial" /\ state = "Trial"
      BY <2>1, <2>3 DEF NetworkFollowsStore
    <2>4. CASE net.mode = "Station" /\ state = "Active"
      BY <2>1, <2>4 DEF NetworkFollowsStore
    <2>5. CASE net.mode = "Rebooting" /\ state \in {"Trial", "Active"}
      BY <2>1, <2>5 DEF NetworkFollowsStore
    <2> QED BY <2>2, <2>3, <2>4, <2>5 DEF OInv, ModeFollowsState
  <1> QED BY <1>1, OnboardingHolds, PTL

\* Only the adoption of a setting gives the store an active reference.
LEMMA OnlyPromoteAdopts ==
    ASSUME IInv, [OnboardingNext]_onboardingVars,
           nvs["active"] = Missing, nvs'["active"] # Missing
    PROVE  \E dt \in Delay, ok \in BOOLEAN : Promote(dt, ok)
  <1>0. NvsOK(nvs)
    BY DEF IInv, TypeOK, NvsOK
  <1>1. "active" \in Key /\ "trial" \in Key /\ "reset" \in Key /\ "enroll" \in Key
    BY Keys
  <1>2. ASSUME NEW k \in Key, NEW v, NEW ok \in BOOLEAN, CheckedWrite(k, v, ok),
               k # "active" \/ v = Missing
        PROVE  FALSE
    BY <1>0, <1>1, <1>2, WriteEffect
  <1>3. ~BootStep
    <2> SUFFICES ASSUME BootStep PROVE FALSE
      OBVIOUS
    <2>1. ASSUME NEW ok \in BOOLEAN, MarkReset(ok) PROVE FALSE
      BY <1>1, <1>2, <2>1 DEF MarkReset
    <2>2. ASSUME NEW ok \in BOOLEAN, EraseNext(ok) PROVE FALSE
      <3>1. eraseIdx \in 1 .. 6
        BY <2>2 DEF EraseNext, IInv, ErasingInOrder
      <3>2. ResetKeys[eraseIdx] \in Key
        BY <3>1, Keys DEF ResetKeys
      <3> QED BY <1>2, <2>2, <3>2 DEF EraseNext, CheckedErase
    <2>3. ASSUME NEW ok \in BOOLEAN, NEW key \in InstallKey, CreateKey(key, ok) PROVE FALSE
      BY <1>1, <1>2, <2>3 DEF CreateKey
    <2>4. CASE \/ \E pending \in BOOLEAN : GateReset(pending)
               \/ ResumeReset \/ ReuseKey \/ HandOffKey \/ \E read \in BOOLEAN : Load(read)
      BY <2>4 DEF GateReset, ResumeReset, ReuseKey, HandOffKey, Load
    <2> QED BY <2>1, <2>2, <2>3, <2>4 DEF BootStep
  <1>4. ASSUME NEW cred \in Cred, NEW ok \in BOOLEAN, SaveRecord(cred, ok) PROVE FALSE
    <2>1. CheckedWrite(SlotKey(nextSlot), Staged(cred).rec, ok)
      BY <1>4 DEF SaveRecord, StageRecord
    <2>2. SlotKey(nextSlot) \in Key /\ SlotKey(nextSlot) # "active"
      BY Keys DEF SlotKey
    <2> QED BY <1>2, <2>1, <2>2
  <1>5. ASSUME NEW ok \in BOOLEAN, SaveReference(ok) PROVE FALSE
    BY <1>1, <1>2, <1>5 DEF SaveReference, StageReference
  <1>6. ASSUME Promoted PROVE FALSE
    <2>1. CheckedWrite("trial", Missing, FALSE)
      BY <1>6 DEF Promoted, PromoteErase, UncheckedErase, CheckedWrite
    <2> QED BY <1>1, <1>2, <2>1
  <1>7. ASSUME NEW dt \in Delay, NEW up \in BOOLEAN, NEW ok \in BOOLEAN, Withdraw(dt, up, ok)
        PROVE  FALSE
    BY <1>1, <1>2, <1>7 DEF Withdraw, DiscardTrial, CheckedErase
  <1>8. ASSUME UNCHANGED vars \/ PowerCut \/ NetworkFault \/ \E asked \in BOOLEAN : PowerOn(asked)
        PROVE  FALSE
    BY <1>8 DEF vars, PowerCut, NetworkFault, PowerOn
  <1>9. ASSUME \/ UNCHANGED onboardingVars \/ Restart \/ \E asked \in BOOLEAN : Start(asked)
               \/ StartAp \/ \E dt \in Delay : Reboot(dt)
               \/ \E dt \in Delay, up \in BOOLEAN : NoAction(dt, up)
               \/ \E dt \in Delay, jitter \in 0 .. JitterMs : Connect(dt, jitter)
               \/ BeginReboot \/ Quiet \/ \E done \in BOOLEAN : Send(done)
               \/ AcceptPut \/ Answer \/ DropClient \/ UpdateInstalled \/ PullInstalled
        PROVE  FALSE
    BY <1>8, <1>9 DEF onboardingVars, Restart, Start, StartAp, Reboot, NoAction, Connect, BeginReboot,
                      Quiet, Send, AcceptPut, Answer, DropClient, UpdateInstalled, PullInstalled
  <1> QED BY <1>3, <1>4, <1>5, <1>6, <1>7, <1>9 DEF OnboardingNext, Loop

\* A setting is adopted only after every sample of the link has found it up for
\* StableMs: neither the wrap-around of millis() nor an earlier connection of
\* the same trial shortens the wait.
THEOREM AdoptionIsEarned == OnboardingSpec => AdoptedOnlyIfStable
  <1>1. ASSUME IInv, OInv, [OnboardingNext]_onboardingVars
        PROVE  [nvs["active"] = Missing /\ nvs'["active"] # Missing
                  => upFor' = StableMs]_onboardingVars
    <2> SUFFICES ASSUME nvs["active"] = Missing, nvs'["active"] # Missing
                 PROVE  upFor' = StableMs
      OBVIOUS
    <2>1. PICK dt \in Delay, ok \in BOOLEAN : Promote(dt, ok)
      BY <1>1, OnlyPromoteAdopts
    <2>2. Tick(dt, TRUE) /\ MayPromote(Sampled(net, now', TRUE), now')
      BY <2>1 DEF Promote
    <2>3. net \in NetType /\ upFor' \in -1 .. StableMs
      BY <1>1, <2>2, TickFacts
    <2>4. net.mode = "Trial"
      BY <2>2, <2>3, SampledFields DEF MayPromote
    <2>5. Since(now', Sampled(net, now', TRUE).stable) >= StableMs
      BY <2>2 DEF MayPromote, Elapsed
    <2>6. upFor' < StableMs => Since(now', Sampled(net, now', TRUE).stable) = upFor'
      BY <1>1, <2>2, <2>4, SampleTimesTrial
    <2>7. ASSUME upFor' < StableMs PROVE FALSE
      <3>1. Since(now', Sampled(net, now', TRUE).stable) = upFor'
        BY <2>6, <2>7
      <3>2. upFor' >= StableMs
        BY <2>5, <3>1
      <3> QED BY <2>3, <2>7, <3>2, ClockFacts
    <2> QED BY <2>3, <2>7, ClockFacts
  <1>2. IInv /\ OInv /\ [OnboardingNext]_onboardingVars
          => [nvs["active"] = Missing /\ nvs'["active"] # Missing
                => upFor' = StableMs]_onboardingVars
    BY <1>1
  <1> QED BY <1>2, OnboardingHolds, PTL DEF OnboardingSpec, AdoptedOnlyIfStable
=============================================================================
