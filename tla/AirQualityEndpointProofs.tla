----------------------- MODULE AirQualityEndpointProofs ----------------------
(***************************************************************************)
(* Theorems about AirQualityEndpoint: the endpoint does not disturb the    *)
(* service, and the attributes never lag behind the announcements for      *)
(* good, wherever the CHIP thread runs.                                    *)
(***************************************************************************)
EXTENDS AirQualityEndpoint, MeasurementServiceProofs

\* An announcement has been decided and not made yet.
Pending == pollPc = "notify" /\ shouldNotify

\* The attributes show a frame that needs no announcement.
ViewCurrent ==
    \E m \in Frames : ChangeMask(lastNotified, m) = {} /\ attributes = Published(m)

\* Work is queued only for a registered callback; what is queued or about to
\* be applied was valid once, and before that the attributes are untouched.
BootInv ==
    /\ mainPc \in {"boot", "clusterInit"} => ~callback
    /\ ~callback => queued = 0 /\ chipPc = "idle"
    /\ queued > 0 \/ chipPc = "apply" \/ mainPc = "apply" => everValid
    /\ ~everValid => attributes = Published(NoReading)
    /\ mainPc = "apply" /\ chipPc = "apply" => overlapped

\* With no announcement decided, queued or dropped and no overlap, whatever is
\* about to be applied, or else the attributes, needs no announcement.
ViewInv ==
    callback /\ ~dropped /\ ~overlapped /\ queued = 0 /\ ~Pending =>
        /\ mainPc = "apply" => ChangeMask(lastNotified, mainCopy) = {}
        /\ mainPc = "running" /\ chipPc = "apply" => ChangeMask(lastNotified, chipCopy) = {}
        /\ mainPc = "running" /\ chipPc = "idle" => ViewCurrent

-----------------------------------------------------------------------------
(* The service inside the endpoint.                                        *)

LEMMA EndpointStepIsService == [EndpointNext]_allVars => [Next]_vars
BY DEF EndpointNext, StartService, BusNotReady, ClusterInitFails,
       ClusterInitRegisters, ClusterInitCopies, ClusterInitApplies, Announce,
       ChipCopies, ChipApplies, ServiceElsewhere, Next, PollStep, allVars

\* The endpoint composed with the service is the service, with everything
\* proved of it: the callback and the boot order add no behaviour to it.
THEOREM EndpointImplementsService == EndpointSpec => ImplementsService
<1>1. EndpointInit => ServiceStart
  BY DEF EndpointInit
<1> QED
  BY <1>1, EndpointStepIsService, PTL DEF EndpointSpec, ImplementsService, Spec

LEMMA EndpointServiceInv == EndpointSpec => []ServiceInv
BY EndpointImplementsService, ServiceInvariant, PTL DEF ImplementsService

-----------------------------------------------------------------------------
(* Types.                                                                  *)

\* What a frame shows is a view.
LEMMA PublishedIsView == \A m \in Frames : Published(m) \in Views
<1> SUFFICES ASSUME NEW m \in Frames PROVE Published(m) \in Views
  OBVIOUS
<1> DEFINE shown(c) == IF c \in Valid(m) THEN ToMatter(c, m[c]) ELSE Unavailable
<1>1. \A c \in PublishedChannels : shown(c) \in MatterValues
  BY DEF PublishedChannels, MatterValues, Valid, Frames
<1>2. [c \in PublishedChannels |-> shown(c)] \in [PublishedChannels -> MatterValues]
  BY <1>1
<1>3. Published(m).measured = [c \in PublishedChannels |-> shown(c)]
  BY DEF Published
<1>4. Published(m).airQuality \in {Published(k).airQuality : k \in Frames}
  OBVIOUS
<1>5. Published(m) = [measured |-> Published(m).measured, airQuality |-> Published(m).airQuality]
  BY DEF Published
<1> HIDE DEF shown
<1> QED BY <1>2, <1>3, <1>4, <1>5 DEF Views

LEMMA EndpointInitType == EndpointInit => EndpointTypeOK
<1> SUFFICES ASSUME EndpointInit PROVE EndpointTypeOK
  OBVIOUS
<1>1. NoReading \in Frames
  BY NoReadingIsEmptyFrame
<1>2. 0 \in 0 .. QueueLimit
  BY EndpointAssumption
<1>3. attributes \in Views
  BY <1>1, PublishedIsView DEF EndpointInit
<1> QED
  BY <1>1, <1>2, <1>3 DEF EndpointInit, EndpointTypeOK, MainPcs

\* ApplyLatestMeasurement leaves a view, overlapping or not.
LEMMA AppliesView ==
    ASSUME NEW m \in Frames, NEW overlap,
           attributes' \in IF overlap THEN Interleaved(attributes, Published(m))
                                      ELSE {Published(m)}
    PROVE  attributes' \in Views
BY PublishedIsView DEF Interleaved

LEMMA EndpointTypeStep ==
    ServiceInv /\ EndpointTypeOK /\ [EndpointNext]_allVars => EndpointTypeOK'
<1> SUFFICES ASSUME ServiceInv, EndpointTypeOK, [EndpointNext]_allVars
             PROVE  EndpointTypeOK'
  OBVIOUS
<1>1. snapshot.measurement \in Frames /\ NoReading \in Frames
  BY NoReadingIsEmptyFrame DEF ServiceInv, TypeOK, Snapshots
<1>2. CASE StartService \/ BusNotReady \/ ClusterInitFails \/ ClusterInitRegisters
  BY <1>2 DEF StartService, BusNotReady, ClusterInitFails, ClusterInitRegisters,
              EndpointTypeOK, MainPcs, queueVars, chipVars, viewVars
<1>3. CASE ClusterInitCopies
  <2>1. overlapped' \in BOOLEAN /\ dropped' \in BOOLEAN
    BY <1>3 DEF ClusterInitCopies
  <2>2. mainPc' \in MainPcs /\ mainCopy' \in Frames
    BY <1>1, <1>3 DEF ClusterInitCopies, MainPcs
  <2>3. UNCHANGED <<queued, chipPc, chipCopy, attributes>>
    BY <1>3 DEF ClusterInitCopies, chipVars
  <2> QED
    BY <2>1, <2>2, <2>3 DEF EndpointTypeOK
<1>4. CASE ClusterInitApplies
  <2>1. attributes' \in Views
    BY <1>4, AppliesView DEF ClusterInitApplies, EndpointTypeOK
  <2> QED
    BY <1>1, <1>4, <2>1 DEF ClusterInitApplies, EndpointTypeOK, MainPcs, queueVars, chipVars
<1>5. CASE Announce
  <2>1. dropped' \in BOOLEAN /\ UNCHANGED <<mainVars, chipVars, viewVars>>
    BY <1>5 DEF Announce, EndpointTypeOK, queueVars
  <2>2. queued' = queued \/ (queued < QueueLimit /\ queued' = queued + 1)
    BY <1>5 DEF Announce, queueVars
  <2>3. queued \in 0 .. QueueLimit
    BY DEF EndpointTypeOK
  <2>4. CASE queued' = queued
    BY <2>1, <2>3, <2>4 DEF EndpointTypeOK, mainVars, chipVars, viewVars
  <2>5. CASE queued < QueueLimit /\ queued' = queued + 1
    <3>1. queued + 1 \in 0 .. QueueLimit
      BY <2>3, <2>5, EndpointAssumption
    <3> QED
      BY <2>1, <2>5, <3>1 DEF EndpointTypeOK, mainVars, chipVars, viewVars
  <2> QED
    BY <2>2, <2>4, <2>5
<1>6. CASE ChipCopies
  <2>1. overlapped' \in BOOLEAN /\ dropped' \in BOOLEAN
    BY <1>6 DEF ChipCopies
  <2>2. queued' \in 0 .. QueueLimit
    BY <1>6, EndpointAssumption DEF ChipCopies, EndpointTypeOK
  <2>3. chipPc' \in {"idle", "apply"} /\ chipCopy' \in Frames
    BY <1>1, <1>6 DEF ChipCopies
  <2>4. UNCHANGED <<mainPc, mainCopy, attributes>>
    BY <1>6 DEF ChipCopies, mainVars
  <2> QED
    BY <2>1, <2>2, <2>3, <2>4 DEF EndpointTypeOK
<1>7. CASE ChipApplies
  <2>1. attributes' \in Views
    BY <1>7, AppliesView DEF ChipApplies, EndpointTypeOK
  <2> QED
    BY <1>1, <1>7, <2>1 DEF ChipApplies, EndpointTypeOK, mainVars, queueVars
<1>8. CASE ServiceElsewhere \/ UNCHANGED allVars
  BY <1>8 DEF ServiceElsewhere, allVars, endpointVars, EndpointTypeOK
<1> QED
  BY <1>2, <1>3, <1>4, <1>5, <1>6, <1>7, <1>8 DEF EndpointNext

\* Every variable of the endpoint keeps its type, for every queue size.
THEOREM EndpointTypeCorrect == EndpointSpec => []EndpointTypeOK
BY EndpointServiceInv, EndpointInitType, EndpointTypeStep, PTL DEF EndpointSpec

-----------------------------------------------------------------------------
(* Boot order.                                                             *)

\* What the service's own steps do not touch.
LEMMA ElsewhereKeeps ==
    ASSUME ServiceInv, ServiceElsewhere \/ UNCHANGED allVars
    PROVE  /\ UNCHANGED <<callback, lastNotified>> /\ UNCHANGED endpointVars
           /\ everValid => everValid'
           /\ Pending => Pending'
<1>1. UNCHANGED endpointVars
  BY DEF ServiceElsewhere, allVars
<1>2. UNCHANGED <<callback, lastNotified>>
  BY DEF ServiceElsewhere, PollBegin, PollRestart, PollRead, PollPublish,
         PollReschedule, ShellStartsSensor, Tick, SensorStep, OnReadSuccess,
         OnReadFailure, allVars, vars, policyVars, notifyVars, serviceVars,
         callbackVars
<1>3. everValid => everValid'
  BY DEF ServiceElsewhere, PollBegin, PollRestart, PollRead, PollPublish,
         PollReschedule, ShellStartsSensor, Tick, SensorStep, OnReadSuccess,
         OnReadFailure, allVars, vars, policyVars, readingVars
<1>4. Pending => Pending'
  BY DEF ServiceElsewhere, PollBegin, PollRestart, PollRead, PollPublish,
         PollReschedule, ShellStartsSensor, Tick, SensorStep, allVars, vars,
         policyVars, pendingVars, serviceVars, Pending
<1> QED BY <1>1, <1>2, <1>3, <1>4

\* Announcing changes the queue only through the callback, and a decided
\* announcement to a registered callback is queued or dropped.
LEMMA AnnounceEffect ==
    ASSUME ServiceInv, EndpointTypeOK, Announce
    PROVE  /\ UNCHANGED <<callback, everValid>>
           /\ UNCHANGED <<mainVars, chipVars, viewVars>>
           /\ Pending /\ callback => queued' # 0 \/ dropped'
           /\ ~(Pending /\ callback) => UNCHANGED queueVars
           /\ ~Pending => UNCHANGED lastNotified
           /\ ~everValid => UNCHANGED queued
<1>1. shouldNotify => everValid
  BY DEF ServiceInv, PolicyInv, NotifyNeverRefused
<1>2. pollPc = "notify" /\ UNCHANGED callback
      /\ UNCHANGED <<mainVars, chipVars, viewVars>>
  BY DEF Announce, PollNotify
<1>3. everValid' = everValid /\ (~Pending => UNCHANGED lastNotified)
  BY <1>1, <1>2 DEF Announce, PollNotify, MarkNotified, Pending, policyVars,
                    readingVars, notifyVars
<1>4. Pending /\ callback => queued' # 0 \/ dropped'
  <2> SUFFICES ASSUME Pending, callback, ~dropped'
               PROVE  queued' # 0
    OBVIOUS
  <2>1. queued' = queued + 1 /\ queued \in Nat
    BY <1>1, EndpointAssumption
       DEF Announce, CallbackInvoked, Pending, EndpointTypeOK
  <2> QED BY <2>1
<1>5. ~(Pending /\ callback) => UNCHANGED queueVars
  BY <1>2 DEF Announce, CallbackInvoked, Pending
<1>6. ~everValid => UNCHANGED queued
  BY DEF Announce, CallbackInvoked, queueVars
<1> QED BY <1>2, <1>3, <1>4, <1>5, <1>6

-----------------------------------------------------------------------------
(* The inductive invariant of the endpoint.                                *)

EndpointInv == ServiceInv /\ EndpointTypeOK /\ BootInv /\ ViewInv

LEMMA EndpointInitInv == EndpointInit => EndpointInv
<1> SUFFICES ASSUME EndpointInit PROVE EndpointInv
  OBVIOUS
<1>1. ServiceInv /\ EndpointTypeOK
  BY ServiceStartInv, EndpointInitType DEF EndpointInit
<1>2. ~callback
  BY DEF EndpointInit, ServiceStart
<1>3. BootInv /\ ViewInv
  BY <1>2 DEF EndpointInit, BootInv, ViewInv
<1> QED BY <1>1, <1>3 DEF EndpointInv

\* The first valid reading is never forgotten.
LEMMA EverValidStep ==
    ServiceInv /\ [EndpointNext]_allVars => (everValid => everValid')
<1> SUFFICES ASSUME ServiceInv, [EndpointNext]_allVars
             PROVE  everValid => everValid'
  OBVIOUS
<1>1. [PolicyNext]_policyVars
  BY EndpointStepIsService, StepUsesPolicy
<1> QED
  BY <1>1 DEF PolicyNext, OnReadSuccess, OnReadFailure, MarkNotified, policyVars,
              readingVars

LEMMA BootStep ==
    ASSUME EndpointInv, [EndpointNext]_allVars
    PROVE  BootInv'
<1> USE DEF EndpointInv
<1>0. everValid => everValid'
  BY EverValidStep
<1>1. CASE StartService
  <2>1. UNCHANGED <<callback, everValid, queued, chipPc, attributes>> /\ mainPc = "boot"
        /\ mainPc' = "clusterInit"
    BY <1>1 DEF StartService, ServiceInit, OnReadFailure, StartAccepted, StartRefused,
                policyVars, readingVars, callbackVars, queueVars, chipVars, viewVars
  <2> QED BY <1>0, <2>1 DEF BootInv
<1>2. CASE BusNotReady \/ ClusterInitFails
  BY <1>0, <1>2 DEF BusNotReady, ClusterInitFails, BootInv, vars, serviceVars,
              policyVars, readingVars, callbackVars, queueVars, chipVars, viewVars
<1>3. CASE ClusterInitRegisters
  BY <1>0, <1>3 DEF ClusterInitRegisters, RegisterUpdateCallback, BootInv, policyVars,
              readingVars, queueVars, chipVars, viewVars
<1>4. CASE ClusterInitCopies
  <2>1. snapshot.everValid = everValid
    BY DEF ServiceInv, RestInv, SnapshotConsistent
  <2> QED
    BY <1>0, <1>4, <2>1 DEF ClusterInitCopies, BootInv, vars, serviceVars,
              policyVars, readingVars, callbackVars, chipVars
<1>5. CASE ClusterInitApplies
  <2>1. everValid
    BY <1>5 DEF ClusterInitApplies, BootInv
  <2> QED
    BY <1>0, <1>5, <2>1 DEF ClusterInitApplies, BootInv, vars, serviceVars,
              policyVars, readingVars, callbackVars, queueVars, chipVars
<1>6. CASE Announce
  <2>1. /\ UNCHANGED <<callback, everValid, mainPc, chipPc, attributes, overlapped>>
        /\ ~callback => UNCHANGED queued
        /\ ~everValid => UNCHANGED queued
    BY <1>6, AnnounceEffect DEF mainVars, chipVars, queueVars, viewVars
  <2> QED BY <1>0, <2>1 DEF BootInv
<1>7. CASE ChipCopies
  <2>1. callback /\ everValid /\ mainPc \notin {"boot", "clusterInit"}
    BY <1>7 DEF ChipCopies, BootInv
  <2>2. UNCHANGED <<callback, mainPc>> /\ overlapped' = (mainPc = "apply")
    BY <1>7 DEF ChipCopies, vars, serviceVars, callbackVars, mainVars
  <2> QED BY <1>0, <2>1, <2>2 DEF BootInv
<1>8. CASE ChipApplies
  <2>1. callback /\ everValid /\ mainPc \notin {"boot", "clusterInit"}
    BY <1>8 DEF ChipApplies, BootInv
  <2>2. UNCHANGED <<callback, mainPc>> /\ chipPc' = "idle"
    BY <1>8 DEF ChipApplies, vars, serviceVars, callbackVars, mainVars
  <2> QED BY <1>0, <2>1, <2>2 DEF BootInv
<1>9. CASE ServiceElsewhere \/ UNCHANGED allVars
  <2>1. UNCHANGED callback /\ UNCHANGED endpointVars
    BY <1>9, ElsewhereKeeps
  <2> QED BY <1>0, <2>1 DEF BootInv, endpointVars
<1> QED
  BY <1>1, <1>2, <1>3, <1>4, <1>5, <1>6, <1>7, <1>8, <1>9 DEF EndpointNext

-----------------------------------------------------------------------------
(* The attributes.                                                         *)

LEMMA EndpointPcs == EndpointTypeOK => chipPc = "idle" \/ chipPc = "apply"
BY DEF EndpointTypeOK

\* A copy of the snapshot taken while no announcement is pending needs no
\* announcement; a refused copy means that nothing was ever announced.
LEMMA CopyIsCurrent ==
    ASSUME ServiceInv, ~Pending
    PROVE  /\ snapshot.everValid = everValid
           /\ everValid => ChangeMask(lastNotified, snapshot.measurement) = {}
           /\ ~everValid => ChangeMask(lastNotified, NoReading) = {}
<1>1. ChangeMask(lastNotified, latest) = {}
  BY DEF ServiceInv, RestInv, AnnounceInv, Settled, Pending
<1>2. /\ snapshot.everValid = everValid
      /\ everValid => snapshot.measurement = latest
  BY DEF ServiceInv, RestInv, SnapshotConsistent
<1>3. ~everValid => ChangeMask(lastNotified, NoReading) = {}
  BY NoReadingIsEmptyFrame, EmptyFramesNoChange
     DEF ServiceInv, PolicyInv, ValidImpliesEverValid
<1> QED BY <1>1, <1>2, <1>3

\* ViewCurrent is about the announced frame and the attributes only.
LEMMA ViewKept ==
    ASSUME ViewInv, callback' => callback,
           UNCHANGED <<lastNotified, queueVars, mainVars, chipVars, viewVars>>,
           Pending => Pending'
    PROVE  ViewInv'
BY DEF ViewInv, ViewCurrent, ChangeMask, FlipMask, DeltaMask, Valid, queueVars,
       mainVars, chipVars, viewVars

LEMMA ViewStep ==
    ASSUME EndpointInv, [EndpointNext]_allVars
    PROVE  ViewInv'
<1> USE DEF EndpointInv
<1>1. CASE StartService \/ BusNotReady \/ ClusterInitFails
  <2>1. ~callback'
    BY <1>1 DEF StartService, BusNotReady, ClusterInitFails, ServiceInit, BootInv,
                vars, serviceVars, callbackVars
  <2> QED BY <2>1 DEF ViewInv
<1>2. CASE ClusterInitRegisters
  BY <1>2 DEF ClusterInitRegisters, ViewInv
<1>3. CASE ClusterInitCopies
  <2> SUFFICES ASSUME ~Pending'
               PROVE  ViewInv'
    BY DEF ViewInv
  <2>1. /\ UNCHANGED <<lastNotified, everValid, attributes, chipPc>>
        /\ ~Pending
        /\ mainPc = "registered" /\ mainCopy' = snapshot.measurement
        /\ mainPc' = IF snapshot.everValid THEN "apply" ELSE "running"
    BY <1>3 DEF ClusterInitCopies, Pending, vars, serviceVars, policyVars,
                readingVars, notifyVars, pendingVars, chipVars
  <2>2. CASE everValid
    <3>1. mainPc' = "apply" /\ ChangeMask(lastNotified', mainCopy') = {}
      BY <2>1, <2>2, CopyIsCurrent
    <3> QED
      BY <3>1 DEF ViewInv, ChangeMask, FlipMask, DeltaMask, Valid
  <2>3. CASE ~everValid
    <3>1. chipPc = "idle" /\ attributes = Published(NoReading)
      BY <2>3, EndpointPcs DEF BootInv
    <3>2. mainPc' = "running" /\ chipPc' = "idle"
          /\ ChangeMask(lastNotified', NoReading) = {}
          /\ attributes' = Published(NoReading) /\ NoReading \in Frames
      BY <2>1, <2>3, <3>1, CopyIsCurrent, NoReadingIsEmptyFrame
    <3>3. ViewCurrent'
      BY <3>2 DEF ViewCurrent, ChangeMask, FlipMask, DeltaMask, Valid
    <3> QED BY <3>2, <3>3 DEF ViewInv
  <2> QED BY <2>2, <2>3
<1>4. CASE ClusterInitApplies
  <2> SUFFICES ASSUME ~overlapped'
               PROVE  ViewInv'
    BY DEF ViewInv
  <2>1. /\ UNCHANGED <<lastNotified, callback, queued, dropped, chipPc>>
        /\ Pending <=> Pending'
        /\ mainPc = "apply" /\ mainPc' = "running"
        /\ ~overlapped /\ attributes' = Published(mainCopy)
        /\ mainCopy \in Frames
    BY <1>4 DEF ClusterInitApplies, Pending, vars, serviceVars, policyVars,
                notifyVars, pendingVars, callbackVars, queueVars, chipVars,
                EndpointTypeOK
  <2>2. chipPc = "idle"
    BY <2>1, EndpointPcs DEF BootInv
  <2>3. callback /\ ~dropped /\ queued = 0 /\ ~Pending => ViewCurrent'
    BY <2>1 DEF ViewInv, ViewCurrent, ChangeMask, FlipMask, DeltaMask, Valid
  <2> QED BY <2>1, <2>2, <2>3 DEF ViewInv
<1>5. CASE Announce
  <2>1. CASE Pending
    <3>1. (callback' <=> callback) /\ (callback => queued' # 0 \/ dropped')
      BY <1>5, <2>1, AnnounceEffect
    <3> QED BY <3>1 DEF ViewInv
  <2>2. CASE ~Pending
    <3>1. /\ UNCHANGED <<lastNotified, queueVars, mainVars, chipVars, viewVars>>
          /\ callback' = callback
      BY <1>5, <2>2, AnnounceEffect
    <3> QED BY <2>2, <3>1, ViewKept
  <2> QED BY <2>1, <2>2
<1>6. CASE ChipCopies
  <2> SUFFICES ASSUME ~Pending', ~overlapped'
               PROVE  ViewInv'
    BY DEF ViewInv
  <2>1. /\ UNCHANGED <<lastNotified, everValid, mainPc>> /\ ~Pending
        /\ mainPc # "apply"
        /\ chipCopy' = snapshot.measurement
        /\ chipPc' = IF snapshot.everValid THEN "apply" ELSE "idle"
    BY <1>6 DEF ChipCopies, Pending, vars, serviceVars, policyVars, readingVars,
                notifyVars, pendingVars, mainVars
  <2>2. everValid
    BY <1>6 DEF ChipCopies, BootInv
  <2>3. chipPc' = "apply" /\ ChangeMask(lastNotified', chipCopy') = {}
    BY <2>1, <2>2, CopyIsCurrent
  <2> QED
    BY <2>1, <2>3 DEF ViewInv, ChangeMask, FlipMask, DeltaMask, Valid
<1>7. CASE ChipApplies
  <2> SUFFICES ASSUME ~overlapped', mainPc' # "registered"
               PROVE  ViewInv'
    BY DEF ViewInv
  <2>1. /\ UNCHANGED <<lastNotified, callback, queued, dropped, mainPc>>
        /\ Pending <=> Pending'
        /\ chipPc = "apply" /\ chipPc' = "idle"
        /\ ~overlapped /\ attributes' = Published(chipCopy) /\ chipCopy \in Frames
    BY <1>7 DEF ChipApplies, Pending, vars, serviceVars, policyVars, notifyVars,
                pendingVars, callbackVars, queueVars, mainVars, EndpointTypeOK
  <2>2. mainPc # "apply"
    BY <2>1 DEF BootInv
  <2>3. callback /\ ~dropped /\ queued = 0 /\ ~Pending =>
           (mainPc = "running" => ViewCurrent')
    BY <2>1 DEF ViewInv, ViewCurrent, ChangeMask, FlipMask, DeltaMask, Valid
  <2> QED BY <2>1, <2>2, <2>3 DEF ViewInv
<1>8. CASE ServiceElsewhere \/ UNCHANGED allVars
  BY <1>8, ElsewhereKeeps, ViewKept
     DEF endpointVars, queueVars, mainVars, chipVars, viewVars
<1> QED
  BY <1>1, <1>2, <1>3, <1>4, <1>5, <1>6, <1>7, <1>8 DEF EndpointNext

\* No announcement is lost on its way to the attributes, for any queue size and
\* wherever the CHIP thread runs beside ClusterInit, unless the queue had no
\* room for it or the two threads' own applies overlapped.
THEOREM EndpointAttributesCurrent == EndpointSpec => []AttributesCurrent
<1>1. EndpointInv /\ [EndpointNext]_allVars => EndpointInv'
  BY EndpointStepIsService, ServiceNextInv, EndpointTypeStep, BootStep, ViewStep
     DEF EndpointInv
<1>2. EndpointInv => AttributesCurrent
  BY DEF EndpointInv, ViewInv, ViewCurrent, AttributesCurrent, Quiescent, AtRest,
         Pending
<1> QED
  BY <1>1, <1>2, EndpointInitInv, PTL DEF EndpointSpec
=============================================================================
