------------------------- MODULE MeasurementService --------------------------
(***************************************************************************)
(* The measurement service (measurement_service.cpp): the delayable work   *)
(* item that polls the sensor on its own work queue, the policy object it  *)
(* feeds, the snapshot it publishes and the callback it invokes, composed  *)
(* with the sensor, the uptime clock and the shell command that starts the *)
(* sensor behind its back.                                                 *)
(*                                                                         *)
(* PollWorkHandler is cut where another thread or the sensor can act in    *)
(* between: at each driver call, before the snapshot is published, before  *)
(* the callback and before the work item is rescheduled.                   *)
(***************************************************************************)
EXTENDS MeasurementPolicy, Sen66Sensor

VARIABLES
    now,            \* k_uptime_get(), stops at Horizon
    pollPc,         \* where sPollWork is
    dueMs,          \* when the scheduled sPollWork expires
    pollOk,         \* err == 0 in PollWorkHandler
    frame,          \* its local `measurement`
    handlerMs,      \* its local `now`
    snapshot,       \* sSnapshot
    callback,       \* sUpdateCallback # nullptr
    delivered       \* the frame the callback was last called with

handlerVars == <<pollOk, frame, handlerMs>>
callbackVars == <<callback, delivered>>
serviceVars == <<now, pollPc, dueMs, handlerVars, snapshot, callbackVars>>
vars == <<policyVars, sensorVars, serviceVars>>

PollPcs == {"unscheduled", "waiting", "restart", "read", "publish",
            "notify", "reschedule"}

Snapshots == [measurement : Frames, ageMs : Times, everValid : BOOLEAN]

TypeOK ==
    /\ PolicyTypeOK /\ SensorTypeOK
    /\ now \in Times /\ dueMs \in Times /\ handlerMs \in Times
    /\ pollPc \in PollPcs /\ pollOk \in BOOLEAN
    /\ frame \in Frames /\ delivered \in Frames
    /\ snapshot \in Snapshots /\ callback \in BOOLEAN

ServiceStart ==
    /\ PolicyInit /\ SensorInit
    /\ now = 0 /\ dueMs = 0 /\ handlerMs = 0
    /\ pollPc = "unscheduled" /\ pollOk = TRUE /\ frame = NoReading
    /\ snapshot = [measurement |-> NoReading, ageMs |-> 0, everValid |-> FALSE]
    /\ callback = FALSE /\ delivered = NoReading

Deadline(delay) == IF now + delay < Horizon THEN now + delay ELSE Horizon

-----------------------------------------------------------------------------
(* The main thread.                                                        *)

\* MeasurementService::Init: a failed first start counts as a failed attempt;
\* the first poll is due at once either way.
ServiceInit ==
    /\ pollPc = "unscheduled"
    /\ \/ StartAccepted /\ UNCHANGED policyVars
       \/ StartRefused /\ OnReadFailure
    /\ pollPc' = "waiting" /\ dueMs' = now
    /\ UNCHANGED <<now, handlerVars, snapshot, callbackVars>>

RegisterUpdateCallback ==
    /\ ~callback
    /\ callback' = TRUE
    /\ UNCHANGED <<policyVars, sensorVars, now, pollPc, dueMs, handlerVars,
                   snapshot, delivered>>

-----------------------------------------------------------------------------
(* PollWorkHandler, on the service's work queue.                           *)

PollBegin ==
    /\ pollPc = "waiting" /\ now >= dueMs
    /\ pollPc' = IF NeedsRestart THEN "restart" ELSE "read"
    /\ pollOk' = TRUE /\ frame' = NoReading
    /\ UNCHANGED <<policyVars, sensorVars, now, dueMs, handlerMs, snapshot,
                   callbackVars>>

\* Faulty variant: an accepted restart already ends the backoff.
PollRestartEndsBackoff ==
    /\ pollPc = "restart"
    /\ \/ /\ StartAccepted /\ pollPc' = "read" /\ pollOk' = TRUE
          /\ inBackoff' = FALSE
       \/ /\ StartRefused /\ pollPc' = "publish" /\ pollOk' = FALSE
          /\ UNCHANGED inBackoff
    /\ UNCHANGED <<readingVars, notifyVars, pendingVars, consecutiveFailures,
                   backoffStepIndex, now, dueMs, frame, handlerMs, snapshot,
                   callbackVars>>

\* A failed restart skips the read.
PollRestart ==
    /\ pollPc = "restart"
    /\ \/ StartAccepted /\ pollPc' = "read" /\ pollOk' = TRUE
       \/ StartRefused /\ pollPc' = "publish" /\ pollOk' = FALSE
    /\ UNCHANGED <<policyVars, now, dueMs, frame, handlerMs, snapshot,
                   callbackVars>>

PollRead ==
    /\ pollPc = "read"
    /\ \/ ReadMeasured /\ pollOk' = TRUE /\ frame' \in Frames
       \/ ReadSentinels /\ pollOk' = TRUE /\ frame' = NoReading
       \/ ReadRefused /\ pollOk' = FALSE /\ UNCHANGED frame
    /\ pollPc' = "publish"
    /\ UNCHANGED <<policyVars, now, dueMs, handlerMs, snapshot, callbackVars>>

\* Faulty variants: the age with its terms swapped; no publication after a
\* failed poll.
PublishSnapshotSwapped(t) ==
    snapshot' = [measurement |-> IF everValid' THEN latest' ELSE NoReading,
                 ageMs       |-> IF everValid' THEN lastUpdateMs' - t ELSE 0,
                 everValid   |-> everValid']
PublishSnapshotOnSuccess(t) ==
    IF pollOk
       THEN snapshot' = [measurement |-> IF everValid' THEN latest' ELSE NoReading,
                         ageMs       |-> 0,
                         everValid   |-> everValid']
       ELSE UNCHANGED snapshot

\* Policy::GetLatest leaves its outputs at their zero values when it refuses;
\* primed because PublishSnapshot runs after OnReadResult.
PublishSnapshot(t) ==
    snapshot' = [measurement |-> IF everValid' THEN latest' ELSE NoReading,
                 ageMs       |-> IF everValid' THEN t - lastUpdateMs' ELSE 0,
                 everValid   |-> everValid']

\* The uptime is read once; the policy and the snapshot see the same instant.
PollPublish ==
    /\ pollPc = "publish"
    /\ handlerMs' = now
    /\ \/ pollOk /\ OnReadSuccess(frame, now)
       \/ ~pollOk /\ OnReadFailure
    /\ PublishSnapshot(now)
    /\ pollPc' = "notify"
    /\ UNCHANGED <<sensorVars, now, dueMs, pollOk, frame, callbackVars>>

\* Faulty variant: heartbeats are recorded but not delivered.
PollNotifyChangesOnly ==
    /\ pollPc = "notify"
    /\ IF shouldNotify /\ everValid
          THEN /\ MarkNotified(handlerMs)
               /\ delivered' = IF callback /\ changedMask # {} THEN latest
                                                              ELSE delivered
          ELSE UNCHANGED <<policyVars, delivered>>
    /\ pollPc' = "reschedule"
    /\ UNCHANGED <<sensorVars, now, dueMs, handlerVars, snapshot, callback>>

PollNotify ==
    /\ pollPc = "notify"
    /\ IF shouldNotify /\ everValid
          THEN /\ MarkNotified(handlerMs)
               /\ delivered' = IF callback THEN latest ELSE delivered
          ELSE UNCHANGED <<policyVars, delivered>>
    /\ pollPc' = "reschedule"
    /\ UNCHANGED <<sensorVars, now, dueMs, handlerVars, snapshot, callback>>

\* Faulty variant: a poll that failed returns without rescheduling.
PollRescheduleIfRead ==
    /\ pollPc = "reschedule"
    /\ pollPc' = IF pollOk THEN "waiting" ELSE "stopped"
    /\ dueMs' = Deadline(NextDelayMs)
    /\ UNCHANGED <<policyVars, sensorVars, now, handlerVars, snapshot,
                   callbackVars>>

PollReschedule ==
    /\ pollPc = "reschedule"
    /\ pollPc' = "waiting" /\ dueMs' = Deadline(NextDelayMs)
    /\ UNCHANGED <<policyVars, sensorVars, now, handlerVars, snapshot,
                   callbackVars>>

PollStep ==
    PollBegin \/ PollRestart \/ PollRead \/ PollPublish \/ PollNotify
        \/ PollReschedule

-----------------------------------------------------------------------------
(* The rest of the system.                                                 *)

\* `sen66 read` on the shell thread: its start is sent whatever the service
\* does; its reads do not change the sensor.
ShellStartsSensor ==
    /\ StartAccepted \/ StartRefused
    /\ UNCHANGED <<policyVars, serviceVars>>

Tick ==
    /\ now < Horizon
    /\ now' = now + 1
    /\ UNCHANGED <<policyVars, sensorVars, pollPc, dueMs, handlerVars,
                   snapshot, callbackVars>>

SensorStep == SensorEnvironment /\ UNCHANGED <<policyVars, serviceVars>>

Next ==
    \/ ServiceInit \/ RegisterUpdateCallback \/ PollStep
    \/ ShellStartsSensor \/ Tick \/ SensorStep

Spec == ServiceStart /\ [][Next]_vars

\* The work-queue thread is the only one at the lowest preemptible priority,
\* the other threads block when idle, every driver call returns within its
\* execution time, and time passes.  Nothing is assumed of the sensor, of the
\* shell or of the callback's registration.
Fairness ==
    /\ WF_vars(ServiceInit) /\ WF_vars(Tick)
    /\ WF_vars(PollBegin) /\ WF_vars(PollRestart) /\ WF_vars(PollRead)
    /\ WF_vars(PollPublish) /\ WF_vars(PollNotify) /\ WF_vars(PollReschedule)

FairSpec == Spec /\ Fairness

-----------------------------------------------------------------------------
(* Safety.                                                                 *)

\* Between polls: the handler has returned and the work item is pending.
AtRest == pollPc = "waiting"

\* A reader of the snapshot sees the policy's state as of the handler's last
\* clock reading: before the callback runs, between polls, and after failed
\* polls, when only the age moves.
SnapshotConsistent ==
    snapshot = [measurement |-> IF everValid THEN latest ELSE NoReading,
                ageMs       |-> IF everValid THEN handlerMs - lastUpdateMs ELSE 0,
                everValid   |-> everValid]

\* When the service rests, what it announced last is within the thresholds of
\* what it read last, on every channel, and the same channels are valid: no
\* slow drift and no lost flip, however many polls failed in between.
QuietImpliesClose == AtRest => ChangeMask(lastNotified, latest) = {}

\* When the service rests with a valid reading, its last announcement was
\* less than a heartbeat old when that reading arrived.
HeartbeatFresh ==
    AtRest /\ Valid(latest) # {} => lastUpdateMs - lastNotifyMs < NotifyInterval

\* Once the callback has received a frame, it is never behind the policy's
\* record of what was announced: MarkNotified() and the call go together.
DeliveryKeepsUp ==
    AtRest /\ delivered # NoReading => delivered = lastNotified

\* The handler and Init drive the policy object only through its operations,
\* with a clock that does not run backwards: everything that holds of the
\* object alone holds of it here.
ImplementsPolicy == PolicySpec

-----------------------------------------------------------------------------
(* Liveness.                                                               *)

\* The work item always comes back: no path through the handler forgets to
\* reschedule it.
PollsForever == []<>(pollPc = "waiting") /\ []<>(pollPc = "publish")

\* From some time on the sensor is plugged in, its link is clean and it does not
\* lose power any more.
SensorStaysUp ==
    /\ <>[](~glitching /\ sensorMode # "off")
    /\ <>[][sensorMode' # "idle"]_sensorMode

\* measurement_service.h:22-23, "recovers automatically once the sensor
\* answers again".
Recovery == SensorStaysUp => <>[]~inBackoff

\* So it does with every part that acknowledges a start while it measures,
\* also with one that only ever answers with sentinels.
RecoveryIfStartAcked == ~part.startNacked => Recovery

\* With a sensor that stays up, the service leaves backoff for good unless
\* the sensor is found measuring already, its start refused for that reason.
BlockedOnlyByRunningSensor ==
    SensorStaysUp =>
        <>[]~inBackoff \/ <>[](inBackoff /\ sensorMode = "measuring")

\* A part that lost power is started again without anybody's help: with a
\* sensor that stays up, some restart is accepted and nothing stops the part
\* again.  Only for parts that refuse reads while idle: the handler has no
\* other sign that the part is not measuring.
RestartedAfterPowerLoss ==
    ~part.idleAnswers => (SensorStaysUp => <>[](sensorMode = "measuring"))

-----------------------------------------------------------------------------
(* Statements of the documentation that the code does not keep.            *)

\* docs/air-quality-policy.md, "Aggregation rule": a channel's validity bit is
\* clear while the sensor is disconnected or the service is in mid-backoff.
BackoffClearsValidity ==
    AtRest /\ inBackoff => Valid(snapshot.measurement) = {}

\* measurement_service.cpp:68-70, "GetLatest()'s age must reflect real elapsed
\* time so a caller can tell a snapshot is going stale during backoff": while
\* a backoff delay runs, the age is at most one poll interval behind.
AgeReflectsElapsedTime ==
    AtRest /\ inBackoff /\ everValid /\ now <= dueMs
        => now - lastUpdateMs - snapshot.ageMs <= PollInterval

\* docs/measurement-service.md, "Notify policy": the callback fires when the
\* last notification is the heartbeat interval old, whatever was read.
HeartbeatAlways ==
    AtRest /\ everValid => lastUpdateMs - lastNotifyMs < NotifyInterval
=============================================================================
