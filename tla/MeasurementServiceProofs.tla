----------------------- MODULE MeasurementServiceProofs ----------------------
(***************************************************************************)
(* Theorems about MeasurementService for every configuration, horizon and  *)
(* sensor.                                                                 *)
(***************************************************************************)
EXTENDS MeasurementService, MeasurementPolicyProofs

\* The handler's clock reading is the latest time the policy has heard of.
ClockInv ==
    lastUpdateMs <= handlerMs /\ lastNotifyMs <= handlerMs /\ handlerMs <= now

\* The reading and the announcement agree.
Settled ==
    /\ ChangeMask(lastNotified, latest) = {}
    /\ Valid(latest) # {} => lastUpdateMs - lastNotifyMs < NotifyInterval

\* They may disagree only while an announcement is pending.
AnnounceInv == (pollPc = "notify" /\ shouldNotify) \/ Settled

\* A callback that was called stays registered.
DeliveryInv == delivered # NoReading => delivered = lastNotified /\ callback

RestInv == ClockInv /\ SnapshotConsistent /\ AnnounceInv /\ DeliveryInv

ServiceInv == TypeOK /\ PolicyInv /\ RestInv

-----------------------------------------------------------------------------
(* Lemmas.                                                                 *)

\* A frame does not differ from itself.
LEMMA SameFrameNoChange == \A m \in Frames : ChangeMask(m, m) = {}
<1> SUFFICES ASSUME NEW m \in Frames PROVE ChangeMask(m, m) = {}
  OBVIOUS
<1>1. FlipMask(m, m) = {}
  BY DEF FlipMask
<1>2. ASSUME NEW c \in Valid(m) PROVE ~(AbsDelta(m[c], m[c]) >= ChangeThreshold[c])
  <2>1. m[c] \in Int /\ c \in Channels
    BY ChannelsAssumption DEF Valid, Frames
  <2>2. AbsDelta(m[c], m[c]) = 0
    BY <2>1 DEF AbsDelta
  <2>3. ChangeThreshold[c] \in Nat /\ ChangeThreshold[c] > 0
    BY <2>1, ChannelsAssumption, ThresholdAssumption
  <2> QED BY <2>2, <2>3
<1>3. DeltaMask(m, m) = {}
  BY <1>2 DEF DeltaMask
<1> QED BY <1>1, <1>3 DEF ChangeMask

\* Two frames without a valid channel do not differ.
LEMMA EmptyFramesNoChange ==
    ASSUME NEW a, NEW b, Valid(a) = {}, Valid(b) = {}
    PROVE  ChangeMask(a, b) = {}
BY DEF ChangeMask, FlipMask, DeltaMask

\* A successful read that raises no announcement leaves nothing to announce.
LEMMA NotDueSettled ==
    ASSUME TypeOK, NEW t \in Times, NEW m \in Frames, ~NotifyDue(m, t)
    PROVE  /\ ChangeMask(lastNotified, m) = {}
           /\ Valid(m) # {} => t - lastNotifyMs < NotifyInterval
<1>1. CASE Valid(m) = {} /\ Valid(lastNotified) = {}
  BY <1>1, EmptyFramesNoChange
<1>2. CASE Valid(m) # {} \/ Valid(lastNotified) # {}
  <2>1. ChangeMask(lastNotified, m) = {} /\ ~(t - lastNotifyMs >= NotifyInterval)
    BY <1>2 DEF NotifyDue
  <2>2. t \in Int /\ lastNotifyMs \in Int /\ NotifyInterval \in Int
    BY TimingAssumption DEF TypeOK, PolicyTypeOK, Times
  <2> QED BY <2>1, <2>2
<1> QED BY <1>1, <1>2

\* A step that leaves readings, announcements and snapshot alone, and keeps an
\* announcement pending if it was, disturbs nothing.
LEMMA QuietStep ==
    ASSUME TypeOK, RestInv,
           UNCHANGED <<readingVars, notifyVars, handlerMs, snapshot, delivered>>,
           callback => callback', now' \in Times, now <= now',
           pollPc = "notify" /\ shouldNotify => pollPc' = "notify" /\ shouldNotify'
    PROVE  RestInv'
<1>1. ClockInv'
  BY DEF TypeOK, PolicyTypeOK, Times, RestInv, ClockInv, readingVars, notifyVars
<1>2. SnapshotConsistent'
  BY DEF RestInv, SnapshotConsistent, readingVars
<1>3. AnnounceInv'
  BY DEF RestInv, AnnounceInv, Settled, ChangeMask, FlipMask, DeltaMask, Valid,
         readingVars, notifyVars
<1>4. DeliveryInv'
  BY DEF RestInv, DeliveryInv, notifyVars
<1> QED BY <1>1, <1>2, <1>3, <1>4 DEF RestInv

-----------------------------------------------------------------------------
(* The service as a caller of the policy object.                           *)

LEMMA ServiceStartInv == ServiceStart => ServiceInv
<1> SUFFICES ASSUME ServiceStart PROVE ServiceInv
  OBVIOUS
<1>1. PolicyInv /\ NoReading \in Frames /\ Valid(NoReading) = {}
  BY PolicyInitInv, NoReadingIsEmptyFrame DEF ServiceStart
<1>2. 0 \in Times
  BY TimingAssumption DEF Times
<1>3. TypeOK
  BY <1>1, <1>2 DEF ServiceStart, TypeOK, PolicyInv, SensorInit, SensorTypeOK,
                    SensorModes, PollPcs, Snapshots
<1>4. RestInv
  <2>1. ChangeMask(lastNotified, latest) = {} /\ Valid(latest) = {}
    BY <1>1, EmptyFramesNoChange DEF ServiceStart, PolicyInit
  <2>2. ClockInv
    BY DEF ServiceStart, PolicyInit, ClockInv
  <2>3. SnapshotConsistent
    BY DEF ServiceStart, PolicyInit, SnapshotConsistent
  <2>4. AnnounceInv /\ DeliveryInv
    BY <2>1 DEF ServiceStart, AnnounceInv, Settled, DeliveryInv
  <2> QED BY <2>2, <2>3, <2>4 DEF RestInv
<1> QED BY <1>1, <1>3, <1>4 DEF ServiceInv

\* Every step of the service is a step of the policy object or leaves it alone.
LEMMA StepUsesPolicy == ServiceInv /\ [Next]_vars => [PolicyNext]_policyVars
<1> SUFFICES ASSUME ServiceInv, [Next]_vars
             PROVE  [PolicyNext]_policyVars
  OBVIOUS
<1>1. CASE ServiceInit
  BY <1>1 DEF ServiceInit, PolicyNext
<1>2. CASE PollPublish
  <2>1. CASE pollOk /\ OnReadSuccess(frame, now)
    <3>1. now \in Times /\ frame \in Frames /\ now >= lastUpdateMs /\ now >= lastNotifyMs
      BY DEF ServiceInv, TypeOK, PolicyTypeOK, RestInv, ClockInv, Times
    <3> QED BY <2>1, <3>1 DEF PolicyNext
  <2>2. CASE OnReadFailure
    BY <2>2 DEF PolicyNext
  <2> QED BY <1>2, <2>1, <2>2 DEF PollPublish
<1>3. CASE PollNotify
  <2>1. CASE MarkNotified(handlerMs)
    <3>1. /\ handlerMs \in Times
          /\ handlerMs >= lastUpdateMs /\ handlerMs >= lastNotifyMs
      BY DEF ServiceInv, TypeOK, PolicyTypeOK, RestInv, ClockInv, Times
    <3> QED BY <2>1, <3>1 DEF PolicyNext
  <2> QED BY <1>3, <2>1 DEF PollNotify
<1>4. CASE RegisterUpdateCallback \/ PollBegin \/ PollRestart \/ PollRead
              \/ PollReschedule
  BY <1>4 DEF RegisterUpdateCallback, PollBegin, PollRestart, PollRead,
              PollReschedule
<1>5. CASE ShellStartsSensor \/ Tick \/ SensorStep \/ UNCHANGED vars
  BY <1>5 DEF ShellStartsSensor, Tick, SensorStep, vars
<1> QED BY <1>1, <1>2, <1>3, <1>4, <1>5 DEF Next, PollStep

-----------------------------------------------------------------------------
(* Types.                                                                  *)

LEMMA SensorTypes ==
    ASSUME SensorTypeOK,
           SensorEnvironment \/ StartAccepted \/ StartRefused \/ ReadMeasured
              \/ ReadSentinels \/ ReadRefused \/ UNCHANGED sensorVars
    PROVE  SensorTypeOK'
BY DEF SensorTypeOK, SensorModes, SensorEnvironment, Unplugged, PoweredUp,
       NoiseChanges, StartAccepted, StartRefused, ReadMeasured, ReadSentinels,
       ReadRefused, sensorVars

\* Deadlines never lie beyond the horizon, and never in the past.
LEMMA DeadlineInTimes ==
    ASSUME TypeOK PROVE Deadline(NextDelayMs) \in Times
<1>1. NextDelayMs \in Nat
  <2>1. backoffStepIndex + 1 \in 1 .. Len(BackoffSteps)
    BY LadderConstants DEF TypeOK, PolicyTypeOK
  <2>2. BackoffSteps[backoffStepIndex + 1] \in Nat
    BY <2>1, BackoffAssumption
  <2> QED BY <2>2, TimingAssumption DEF NextDelayMs
<1> QED BY <1>1, TimingAssumption DEF TypeOK, Times, Deadline

LEMMA TypeStep == ServiceInv /\ [Next]_vars => TypeOK'
<1> SUFFICES ASSUME ServiceInv, [Next]_vars
             PROVE  TypeOK'
  OBVIOUS
<1> USE DEF ServiceInv
<1>0. PolicyTypeOK'
  BY StepUsesPolicy, PolicyNextInv DEF PolicyInv
<1>1. SensorTypeOK'
  BY SensorTypes
     DEF TypeOK, Next, PollStep, ServiceInit, RegisterUpdateCallback, PollBegin,
         PollRestart, PollRead, PollPublish, PollNotify, PollReschedule,
         ShellStartsSensor, Tick, SensorStep, vars
<1>2. now' \in Times
  BY TimingAssumption
     DEF TypeOK, Next, PollStep, ServiceInit, RegisterUpdateCallback, PollBegin,
         PollRestart, PollRead, PollPublish, PollNotify, PollReschedule,
         ShellStartsSensor, Tick, SensorStep, vars, serviceVars, Times
<1>3. dueMs' \in Times
  BY DeadlineInTimes
     DEF TypeOK, Next, PollStep, ServiceInit, RegisterUpdateCallback, PollBegin,
         PollRestart, PollRead, PollPublish, PollNotify, PollReschedule,
         ShellStartsSensor, Tick, SensorStep, vars, serviceVars
<1>4. pollPc' \in PollPcs /\ pollOk' \in BOOLEAN
  BY DEF TypeOK, Next, PollStep, ServiceInit, RegisterUpdateCallback, PollBegin,
         PollRestart, PollRead, PollPublish, PollNotify, PollReschedule,
         ShellStartsSensor, Tick, SensorStep, vars, serviceVars, handlerVars,
         PollPcs
<1>5. frame' \in Frames /\ handlerMs' \in Times
  BY NoReadingIsEmptyFrame
     DEF TypeOK, Next, PollStep, ServiceInit, RegisterUpdateCallback, PollBegin,
         PollRestart, PollRead, PollPublish, PollNotify, PollReschedule,
         ShellStartsSensor, Tick, SensorStep, vars, serviceVars, handlerVars
<1>6. callback' \in BOOLEAN /\ delivered' \in Frames
  BY DEF TypeOK, PolicyTypeOK, Next, PollStep, ServiceInit,
         RegisterUpdateCallback, PollBegin, PollRestart, PollRead, PollPublish,
         PollNotify, PollReschedule, ShellStartsSensor, Tick, SensorStep, vars,
         serviceVars, callbackVars
<1>7. snapshot' \in Snapshots
  <2>1. CASE PollPublish
    <3>1. lastUpdateMs' \in Times /\ lastUpdateMs' <= now
      BY <2>1 DEF PollPublish, OnReadSuccess, OnReadFailure, readingVars, TypeOK,
                  PolicyTypeOK, RestInv, ClockInv, Times
    <3>2. now - lastUpdateMs' \in Times /\ 0 \in Times
      <4> DEFINE u == lastUpdateMs'
      <4>1. now \in Times /\ u \in Times /\ u <= now
        BY <3>1 DEF TypeOK
      <4> HIDE DEF u
      <4>2. now - u \in Times /\ 0 \in Times
        BY <4>1, TimingAssumption DEF Times
      <4> QED BY <4>2 DEF u
    <3>3. latest' \in Frames /\ everValid' \in BOOLEAN
      BY <1>0 DEF PolicyTypeOK
    <3> QED
      BY <2>1, <3>2, <3>3, NoReadingIsEmptyFrame
         DEF PollPublish, PublishSnapshot, Snapshots
  <2>2. CASE ~PollPublish
    BY <2>2
       DEF TypeOK, Next, PollStep, ServiceInit, RegisterUpdateCallback, PollBegin,
           PollRestart, PollRead, PollNotify, PollReschedule, ShellStartsSensor,
           Tick, SensorStep, vars, serviceVars
  <2> QED BY <2>1, <2>2
<1> QED BY <1>0, <1>1, <1>2, <1>3, <1>4, <1>5, <1>6, <1>7 DEF TypeOK

-----------------------------------------------------------------------------
(* Readings, announcements and the snapshot.                               *)

\* After OnReadResult either an announcement is pending or nothing is to be
\* announced.
LEMMA PublishRest == ServiceInv /\ PollPublish => RestInv'
<1> SUFFICES ASSUME ServiceInv, PollPublish
             PROVE  RestInv'
  OBVIOUS
<1> USE DEF ServiceInv
<1>1. handlerMs' = now /\ now' = now /\ pollPc' = "notify"
      /\ UNCHANGED <<delivered, callback, lastNotified, lastNotifyMs>>
  BY DEF PollPublish, OnReadSuccess, OnReadFailure, notifyVars, callbackVars
<1>2. ClockInv'
  BY <1>1 DEF PollPublish, OnReadSuccess, OnReadFailure, readingVars, TypeOK,
              PolicyTypeOK, RestInv, ClockInv, Times
<1>3. SnapshotConsistent'
  BY <1>1 DEF PollPublish, PublishSnapshot, SnapshotConsistent
<1>4. AnnounceInv'
  <2>1. CASE OnReadSuccess(frame, now)
    <3>1. CASE NotifyDue(frame, now)
      BY <1>1, <2>1, <3>1 DEF OnReadSuccess, EvaluateNotify, AnnounceInv
    <3>2. CASE ~NotifyDue(frame, now)
      <4>1. /\ ChangeMask(lastNotified, frame) = {}
            /\ Valid(frame) # {} => now - lastNotifyMs < NotifyInterval
        BY <3>2, NotDueSettled DEF TypeOK
      <4>2. latest' = frame /\ lastUpdateMs' = now
        BY <2>1 DEF OnReadSuccess
      <4> QED
        BY <1>1, <4>1, <4>2
           DEF AnnounceInv, Settled, ChangeMask, FlipMask, DeltaMask, Valid
    <3> QED BY <3>1, <3>2
  <2>2. CASE OnReadFailure
    <3>1. Settled
      BY DEF RestInv, AnnounceInv, PollPublish
    <3> QED
      BY <1>1, <2>2, <3>1
         DEF OnReadFailure, AnnounceInv, Settled, ChangeMask, FlipMask,
             DeltaMask, Valid, readingVars
  <2> QED BY <2>1, <2>2 DEF PollPublish
<1>5. DeliveryInv'
  BY <1>1 DEF RestInv, DeliveryInv
<1> QED BY <1>2, <1>3, <1>4, <1>5 DEF RestInv

\* Announcing makes the announced frame the latest one.
LEMMA NotifyRest == ServiceInv /\ PollNotify => RestInv'
<1> SUFFICES ASSUME ServiceInv, PollNotify
             PROVE  RestInv'
  OBVIOUS
<1> USE DEF ServiceInv
<1>1. UNCHANGED <<now, handlerMs, snapshot, callback>> /\ pollPc = "notify"
  BY DEF PollNotify, handlerVars
<1>2. CASE shouldNotify
  <2>1. everValid
    BY <1>2 DEF PolicyInv, NotifyNeverRefused
  <2>2. /\ lastNotified' = latest /\ lastNotifyMs' = handlerMs
        /\ UNCHANGED <<latest, everValid, lastUpdateMs>>
        /\ delivered' = IF callback THEN latest ELSE delivered
    BY <1>2, <2>1 DEF PollNotify, MarkNotified, readingVars
  <2>3. ClockInv'
    BY <1>1, <2>2 DEF TypeOK, PolicyTypeOK, RestInv, ClockInv, Times
  <2>4. SnapshotConsistent'
    BY <1>1, <2>2 DEF RestInv, SnapshotConsistent
  <2>5. Settled'
    <3>1. ChangeMask(latest, latest) = {}
      BY SameFrameNoChange DEF TypeOK, PolicyTypeOK
    <3>2. lastUpdateMs - handlerMs < NotifyInterval
      BY TimingAssumption DEF TypeOK, PolicyTypeOK, RestInv, ClockInv, Times
    <3> QED
      BY <2>2, <3>1, <3>2
         DEF Settled, ChangeMask, FlipMask, DeltaMask, Valid
  <2>6. DeliveryInv'
    BY <1>1, <2>2 DEF RestInv, DeliveryInv
  <2> QED BY <2>3, <2>4, <2>5, <2>6 DEF RestInv, AnnounceInv
<1>3. CASE ~shouldNotify
  <2>1. UNCHANGED <<policyVars, delivered>>
    BY <1>3 DEF PollNotify
  <2> QED
    BY <1>1, <1>3, <2>1, QuietStep DEF TypeOK, policyVars, Times
<1> QED BY <1>2, <1>3

LEMMA RestStep == ServiceInv /\ [Next]_vars => RestInv'
<1> SUFFICES ASSUME ServiceInv, [Next]_vars
             PROVE  RestInv'
  OBVIOUS
<1> USE DEF ServiceInv
<1>1. CASE PollPublish
  BY <1>1, PublishRest
<1>2. CASE PollNotify
  BY <1>2, NotifyRest
<1>3. CASE ServiceInit
  <2>1. UNCHANGED <<readingVars, notifyVars>>
    BY <1>3 DEF ServiceInit, OnReadFailure, policyVars
  <2> QED
    BY <1>3, <2>1, QuietStep
       DEF ServiceInit, handlerVars, callbackVars, TypeOK, Times
<1>4. CASE RegisterUpdateCallback
  BY <1>4, QuietStep
     DEF RegisterUpdateCallback, policyVars, pendingVars, handlerVars, TypeOK, Times
<1>5. CASE PollBegin \/ PollRestart \/ PollRead \/ PollReschedule
  BY <1>5, QuietStep
     DEF PollBegin, PollRestart, PollRead, PollReschedule, policyVars,
         handlerVars, callbackVars, TypeOK, Times
<1>6. CASE Tick
  BY <1>6, QuietStep, TimingAssumption
     DEF Tick, policyVars, pendingVars, handlerVars, callbackVars, TypeOK, Times
<1>7. CASE ShellStartsSensor \/ SensorStep \/ UNCHANGED vars
  BY <1>7, QuietStep
     DEF ShellStartsSensor, SensorStep, vars, serviceVars, policyVars,
         pendingVars, handlerVars, callbackVars, TypeOK, Times
<1> QED BY <1>1, <1>2, <1>3, <1>4, <1>5, <1>6, <1>7 DEF Next, PollStep

LEMMA ServiceNextInv == ServiceInv /\ [Next]_vars => ServiceInv'
BY TypeStep, StepUsesPolicy, PolicyNextInv, RestStep DEF ServiceInv

\* The service keeps its invariant, whatever sensor, shell and clock do.
THEOREM ServiceInvariant == Spec => []ServiceInv
BY ServiceStartInv, ServiceNextInv, PTL DEF Spec

-----------------------------------------------------------------------------
(* What it gives.                                                          *)

\* Every variable of the service keeps its type; in particular the published
\* age is never negative.
THEOREM ServiceTypeCorrect == Spec => []TypeOK
BY ServiceInvariant, PTL DEF ServiceInv

\* Readers of the snapshot never see anything but the policy's state as of the
\* handler's last clock reading.
THEOREM ServiceSnapshotConsistent == Spec => []SnapshotConsistent
BY ServiceInvariant, PTL DEF ServiceInv, RestInv

\* At rest, the announced frame is within the thresholds of the one read last.
THEOREM ServiceQuietImpliesClose == Spec => []QuietImpliesClose
<1>1. ServiceInv => QuietImpliesClose
  BY DEF ServiceInv, RestInv, AnnounceInv, Settled, QuietImpliesClose, AtRest
<1> QED BY ServiceInvariant, <1>1, PTL

\* At rest, a valid reading is younger than a heartbeat after the announcement.
THEOREM ServiceHeartbeatFresh == Spec => []HeartbeatFresh
<1>1. ServiceInv => HeartbeatFresh
  BY DEF ServiceInv, RestInv, AnnounceInv, Settled, HeartbeatFresh, AtRest
<1> QED BY ServiceInvariant, <1>1, PTL

\* The callback is never behind the record of what was announced.
THEOREM ServiceDeliveryKeepsUp == Spec => []DeliveryKeepsUp
<1>1. ServiceInv => DeliveryKeepsUp
  BY DEF ServiceInv, RestInv, DeliveryInv, DeliveryKeepsUp
<1> QED BY ServiceInvariant, <1>1, PTL

\* The service drives the policy object only through its operations, so the
\* theorems of MeasurementPolicyProofs hold of the object inside the service.
THEOREM ServiceImplementsPolicy == Spec => ImplementsPolicy
<1>1. ServiceStart => PolicyInit
  BY DEF ServiceStart
<1> QED
  BY ServiceInvariant, <1>1, StepUsesPolicy, PTL
     DEF Spec, ImplementsPolicy, PolicySpec
=============================================================================
