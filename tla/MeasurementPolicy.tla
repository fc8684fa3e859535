-------------------------- MODULE MeasurementPolicy --------------------------
(***************************************************************************)
(* MeasurementService::Policy (measurement_policy.{h,cpp}): the object     *)
(* that counts failed reads, chooses the delay before the next poll, and   *)
(* decides when a new reading is worth announcing.                         *)
(*                                                                         *)
(* A frame (Sen66::Measurement) maps every channel to its raw reading or   *)
(* to Unavailable; the `valid` bit mask is the set of channels that carry  *)
(* a reading.  Times are k_uptime_get() values.                            *)
(***************************************************************************)
EXTENDS Integers, Sequences

CONSTANTS
    Channels,           \* the Sen66::Field bits
    Values,             \* raw fixed-point readings of an available channel
    Unavailable,        \* the reading behind a cleared validity bit
    ChangeThreshold,    \* PolicyConfig::thresholds, per channel
    PollInterval,       \* PolicyConfig::pollIntervalMs
    NotifyInterval,     \* PolicyConfig::notifyIntervalMs
    FailureThreshold,   \* PolicyConfig::failureThreshold
    BackoffSteps,       \* PolicyConfig::backoffStepsMs
    CounterModulus,     \* 2^32: consecutiveFailures_ is a uint32_t and wraps
    Horizon             \* bound on the uptime

LastStep == Len(BackoffSteps) - 1

\* The default configuration satisfies all of these (3 failures, delays of 2,
\* 5, 10 and 30 s, heartbeat after 7 s, a 32-bit counter).
ASSUME ChannelsAssumption ==
    /\ Values \subseteq Int
    /\ Unavailable \notin Int
    /\ ChangeThreshold \in [Channels -> Nat]
\* A threshold of 0 would count an unchanged reading as a change.
ASSUME ThresholdAssumption == \A c \in Channels : ChangeThreshold[c] > 0
ASSUME TimingAssumption ==
    /\ PollInterval \in Nat
    /\ NotifyInterval \in Nat \ {0}
    /\ Horizon \in Nat
ASSUME BackoffAssumption ==
    /\ FailureThreshold \in Nat \ {0}
    /\ BackoffSteps \in Seq(Nat) /\ Len(BackoffSteps) > 0
    /\ CounterModulus \in Nat
    /\ CounterModulus > FailureThreshold + Len(BackoffSteps)

Times == 0 .. Horizon

Frames == [Channels -> Values \cup {Unavailable}]

\* Measurement{} has no validity bit set.
NoReading == [c \in Channels |-> Unavailable]

Valid(m) == {c \in Channels : m[c] # Unavailable}

VARIABLES
    latest,                 \* latest_
    everValid,              \* everValid_
    lastUpdateMs,           \* lastUpdateMs_
    lastNotified,           \* lastNotified_
    lastNotifyMs,           \* lastNotifyMs_
    shouldNotify,           \* shouldNotify_
    changedMask,            \* changedMask_, as a set of channels
    consecutiveFailures,    \* consecutiveFailures_
    inBackoff,              \* inBackoff_
    backoffStepIndex        \* backoffStepIndex_

readingVars == <<latest, everValid, lastUpdateMs>>
notifyVars == <<lastNotified, lastNotifyMs>>
pendingVars == <<shouldNotify, changedMask>>
faultVars == <<consecutiveFailures, inBackoff, backoffStepIndex>>
policyVars == <<readingVars, notifyVars, pendingVars, faultVars>>

PolicyTypeOK ==
    /\ latest \in Frames /\ lastNotified \in Frames
    /\ everValid \in BOOLEAN /\ shouldNotify \in BOOLEAN /\ inBackoff \in BOOLEAN
    /\ lastUpdateMs \in Times /\ lastNotifyMs \in Times
    /\ changedMask \subseteq Channels
    /\ consecutiveFailures \in 0 .. CounterModulus - 1
    /\ backoffStepIndex \in 0 .. LastStep

PolicyInit ==
    /\ latest = NoReading /\ everValid = FALSE /\ lastUpdateMs = 0
    /\ lastNotified = NoReading /\ lastNotifyMs = 0
    /\ shouldNotify = FALSE /\ changedMask = {}
    /\ consecutiveFailures = 0 /\ inBackoff = FALSE /\ backoffStepIndex = 0

-----------------------------------------------------------------------------
(* What counts as a change.                                                *)

AbsDelta(a, b) == IF a > b THEN a - b ELSE b - a

\* Channels valid in both frames that moved by at least their threshold.
DeltaMask(prev, fresh) ==
    {c \in Valid(prev) \cap Valid(fresh) :
        AbsDelta(prev[c], fresh[c]) >= ChangeThreshold[c]}

\* prev.valid ^ fresh.valid
FlipMask(prev, fresh) ==
    (Valid(prev) \ Valid(fresh)) \cup (Valid(fresh) \ Valid(prev))

ChangeMask(prev, fresh) == FlipMask(prev, fresh) \cup DeltaMask(prev, fresh)

\* Faulty variant: a heartbeat is due even if no channel was ever valid.
NotifyDueUnconditionally(fresh, t) ==
    ChangeMask(lastNotified, fresh) # {} \/ t - lastNotifyMs >= NotifyInterval

\* Faulty variant: the heartbeat waits for more than the interval.
NotifyDueLate(fresh, t) ==
    /\ Valid(fresh) # {} \/ Valid(lastNotified) # {}
    /\ ChangeMask(lastNotified, fresh) # {} \/ t - lastNotifyMs > NotifyInterval

\* A frame read at t is announced when it differs from the last announced
\* frame, or when the last announcement is NotifyInterval old; never while
\* neither frame has a valid channel.
NotifyDue(fresh, t) ==
    /\ Valid(fresh) # {} \/ Valid(lastNotified) # {}
    /\ \/ ChangeMask(lastNotified, fresh) # {}
       \/ t - lastNotifyMs >= NotifyInterval

\* Faulty variant: compares with the previous frame, not the announced one.
EvaluateNotifyAgainstPrevious(fresh, t) ==
    /\ shouldNotify' = (ChangeMask(latest, fresh) # {}
                           \/ (Valid(fresh) # {} /\ t - lastNotifyMs >= NotifyInterval))
    /\ changedMask' = ChangeMask(latest, fresh)

EvaluateNotify(fresh, t) ==
    /\ shouldNotify' = NotifyDue(fresh, t)
    /\ changedMask' = IF NotifyDue(fresh, t)
                         THEN ChangeMask(lastNotified, fresh) ELSE {}

-----------------------------------------------------------------------------
(* The operations of the class.                                            *)

\* Faulty variants: the index runs past the last delay; entering backoff
\* already climbs a step.
StepUncapped(sustained) ==
    IF sustained /\ inBackoff THEN backoffStepIndex + 1 ELSE backoffStepIndex
StepOnEntry(sustained) ==
    IF sustained /\ backoffStepIndex < LastStep
       THEN backoffStepIndex + 1 ELSE backoffStepIndex

\* Entering backoff starts at the first delay; later failures climb to the last.
StepAfterFailure(sustained) ==
    CASE sustained /\ ~inBackoff -> 0
      [] sustained /\ inBackoff /\ backoffStepIndex < LastStep -> backoffStepIndex + 1
      [] OTHER -> backoffStepIndex

\* OnReadResult with err != 0.
OnReadFailure ==
    LET failures == (consecutiveFailures + 1) % CounterModulus
        sustained == failures >= FailureThreshold
    IN  /\ shouldNotify' = FALSE /\ changedMask' = {}
        /\ consecutiveFailures' = failures
        /\ inBackoff' = (inBackoff \/ sustained)
        /\ backoffStepIndex' = StepAfterFailure(sustained)
        /\ UNCHANGED <<readingVars, notifyVars>>

\* Faulty variant: recovery forgets the step index.
FullRecoveryKeepingStep ==
    consecutiveFailures' = 0 /\ inBackoff' = FALSE /\ UNCHANGED backoffStepIndex

FullRecovery ==
    consecutiveFailures' = 0 /\ inBackoff' = FALSE /\ backoffStepIndex' = 0

\* Faulty variant: a frame of sentinels does not count as recovery.
OnReadSuccessIfValid(measurement, t) ==
    /\ IF Valid(measurement) # {} THEN FullRecovery ELSE UNCHANGED faultVars
    /\ latest' = measurement
    /\ lastUpdateMs' = t
    /\ everValid' = (everValid \/ Valid(measurement) # {})
    /\ EvaluateNotify(measurement, t)
    /\ UNCHANGED notifyVars

\* OnReadResult with err == 0: a transport-level success recovers fully, even
\* when no channel is valid.
OnReadSuccess(measurement, t) ==
    /\ FullRecovery
    /\ latest' = measurement
    /\ lastUpdateMs' = t
    /\ everValid' = (everValid \/ Valid(measurement) # {})
    /\ EvaluateNotify(measurement, t)
    /\ UNCHANGED notifyVars

MarkNotified(t) ==
    /\ lastNotified' = latest
    /\ lastNotifyMs' = t
    /\ shouldNotify' = FALSE /\ changedMask' = {}
    /\ UNCHANGED <<readingVars, faultVars>>

\* Faulty variant: the sensor is restarted on the first backoff step only.
NeedsRestartOnce == inBackoff /\ backoffStepIndex = 0

NeedsRestart == inBackoff

NextDelayMs ==
    IF inBackoff THEN BackoffSteps[backoffStepIndex + 1] ELSE PollInterval

-----------------------------------------------------------------------------
(* The object under any caller whose clock does not run backwards.         *)

PolicyNext ==
    \/ OnReadFailure
    \/ \E t \in Times :
          /\ t >= lastUpdateMs /\ t >= lastNotifyMs
          /\ \/ \E measurement \in Frames : OnReadSuccess(measurement, t)
             \/ MarkNotified(t)

PolicySpec == PolicyInit /\ [][PolicyNext]_policyVars

-----------------------------------------------------------------------------
(* Properties.                                                             *)

\* The counter, the flag and the step index of OnReadResult's failure branch
\* never disagree: outside backoff fewer than FailureThreshold failures are
\* counted, and inside it every step below the last was reached by exactly
\* one failure each, whatever the 32-bit counter does afterwards.
BackoffLadder ==
    /\ ~inBackoff => consecutiveFailures < FailureThreshold /\ backoffStepIndex = 0
    /\ inBackoff /\ backoffStepIndex < LastStep
          => consecutiveFailures = FailureThreshold + backoffStepIndex

\* ShouldNotify() is never raised before a valid frame was seen, so the
\* GetLatest() that PollWorkHandler calls before MarkNotified() cannot refuse
\* and leave the announcement hanging.
NotifyNeverRefused == shouldNotify => everValid

\* The three failure variables together implement the one-level fault ladder:
\* no failure skips or repeats a rung, the top rung holds, one success resets.
Ladder == INSTANCE FaultLadder
    WITH Rungs <- Len(BackoffSteps),
         level <- IF inBackoff THEN FailureThreshold + backoffStepIndex
                               ELSE consecutiveFailures

ImplementsFaultLadder == Ladder!Spec
=============================================================================
