---------------------------- MODULE NetworkState ----------------------------
(***************************************************************************)
(* NetworkState (core.cpp): the Wi-Fi mode of the device, its trial and    *)
(* reboot deadlines and the reconnect backoff, over the 32-bit millisecond *)
(* counter that wraps around.  A network state is a record with the fields *)
(* of the class; the operators are its methods.                            *)
(***************************************************************************)
EXTENDS Integers

CONSTANTS
    ClockSize,      \* 2^32 in the code
    TrialMs,        \* kTrialMs, 60 000
    StableMs,       \* kStableMs, 5 000
    RebootMs,       \* kRebootMs, 1 000
    RetryMs,        \* the first reconnect delay, 5 000
    RetryCap,       \* the longest one, 60 000
    JitterMs        \* the largest random addition, 1 000

ASSUME ClockAssumption ==
    /\ {ClockSize, TrialMs, StableMs, RebootMs, RetryMs, RetryCap} \subseteq Nat \ {0}
    /\ JitterMs \in Nat
    /\ StableMs < TrialMs /\ RetryMs <= RetryCap
    /\ TrialMs < ClockSize /\ RetryCap < ClockSize

Clock == 0 .. ClockSize - 1
Mode == {"Stopped", "Provisioning", "Trial", "Station", "Rebooting", "Fault"}
NetType == [mode : Mode, since : Clock, attempt : Clock, stable : Clock,
            retry : RetryMs .. RetryCap, connected : BOOLEAN]

Since(now, t) == (now - t) % ClockSize
PlainElapsed(now, t, duration) == now >= t + duration     \* mutant: no wrap-around
Elapsed(now, t, duration) == Since(now, t) >= duration

Stopped == [mode |-> "Stopped", since |-> 0, attempt |-> 0, stable |-> 0,
            retry |-> RetryMs, connected |-> FALSE]

ModeForStored(configState) ==               \* mutant: a trial is taken for adopted
    IF configState = "Empty" THEN "Provisioning" ELSE "Station"
ModeFor(configState) ==
    CASE configState = "Corrupt" -> "Fault"
      [] configState = "Empty"   -> "Provisioning"
      [] configState = "Trial"   -> "Trial"
      [] configState = "Active"  -> "Station"

Begin(net, configState, now) ==
    [net EXCEPT !.mode = ModeFor(configState), !.since = now, !.attempt = now,
                !.retry = RetryMs, !.connected = FALSE]

Saved(net, now) == [net EXCEPT !.mode = "Rebooting", !.since = now]

\* tick() up to its decisions: what the sample of the link changes.
Sampled(net, now, up) ==
    IF net.mode \notin {"Trial", "Station"} THEN net
    ELSE [net EXCEPT !.stable = IF up /\ ~net.connected THEN now ELSE @,
                     !.attempt = IF ~up /\ net.connected THEN now ELSE @,
                     !.retry = IF ~up /\ net.connected THEN RetryMs ELSE @,
                     !.connected = up]

\* The decisions of tick(), in the order in which it tries them.
MustReboot(net, now) == net.mode = "Rebooting" /\ Elapsed(now, net.since, RebootMs)
PromoteSinceBegin(net, now) ==              \* mutant: stable since the trial began
    net.mode = "Trial" /\ net.connected /\ Elapsed(now, net.since, StableMs)
MayPromote(net, now) ==
    net.mode = "Trial" /\ net.connected /\ Elapsed(now, net.stable, StableMs)
MustDiscard(net, now) ==
    /\ net.mode = "Trial" /\ Elapsed(now, net.since, TrialMs)
    /\ ~MayPromote(net, now)
MustConnect(net, now) ==
    /\ net.mode \in {"Trial", "Station"}
    /\ ~net.connected /\ Elapsed(now, net.attempt, net.retry)
    /\ ~MustDiscard(net, now)

\* The delay doubles, and is the cap from half of the cap on.
NextRetryUncapped(retry, jitter) ==         \* mutant: jitter is added after the cap
    (IF 2 * retry >= RetryCap THEN RetryCap ELSE 2 * retry) + jitter
NextRetry(retry, jitter) ==
    LET base == IF 2 * retry >= RetryCap THEN RetryCap ELSE 2 * retry
    IN  IF base + jitter > RetryCap THEN RetryCap ELSE base + jitter

Retried(net, now, jitter) ==
    [net EXCEPT !.attempt = now, !.retry = NextRetry(net.retry, jitter)]
=============================================================================
