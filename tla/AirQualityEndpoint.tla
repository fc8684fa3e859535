------------------------- MODULE AirQualityEndpoint --------------------------
(***************************************************************************)
(* The Matter endpoint (air_quality_matter_adapter.cpp) on top of the      *)
(* measurement service: the main thread starts the service and later runs  *)
(* ClusterInit, the service's callback queues ApplyLatestMeasurement on    *)
(* the CHIP event queue, and the CHIP thread applies the snapshot it finds *)
(* when it gets there.                                                     *)
(*                                                                         *)
(* The callback's arguments are ignored, so a queued work item carries     *)
(* nothing; the queue is the number of items in it.                        *)
(***************************************************************************)
EXTENDS MeasurementService, AirQualityPolicy

CONSTANT QueueLimit  \* event-queue slots the endpoint's work may take

ASSUME EndpointAssumption == QueueLimit \in Nat

VARIABLES
    mainPc,         \* where the main thread is in AppTask::Init
    mainCopy,       \* the frame ClusterInit's ApplyLatestMeasurement copied
    queued,         \* ApplyLatestMeasurement items in the CHIP event queue
    chipPc,         \* the CHIP thread: "idle" or in ApplyLatestMeasurement
    chipCopy,       \* the frame it copied
    attributes,     \* what Matter clients read
    dropped,        \* history: the last announcement found no room in the
                    \* queue, and the snapshot was not copied since
    overlapped      \* history: the last ApplyLatestMeasurement on one thread
                    \* began before that on the other thread ended

endpointVars == <<mainPc, mainCopy, queued, dropped, overlapped, chipPc,
                  chipCopy, attributes>>
mainVars == <<mainPc, mainCopy>>
queueVars == <<queued, dropped>>
chipVars == <<chipPc, chipCopy>>
viewVars == <<attributes, overlapped>>
allVars == <<vars, endpointVars>>

MainPcs == {"boot", "clusterInit", "registered", "apply", "running"}

\* PM4.0 and the VOC and NOx indexes have no attribute.
PublishedChannels ==
    Channels \cap {"temperature", "humidity", "co2", "pm1p0", "pm2p5", "pm10"}

\* The value of a MeasuredValue attribute; PM in tenths of ug/m3.  65535 is
\* the null of an unsigned 16-bit attribute.
ToMatter(c, raw) ==
    CASE c = "temperature" -> TemperatureRawToMatterCentiDegC(raw)
      [] c = "humidity" ->
            LET value == HumidityRawToMatterCentiPercent(raw)
            IN  IF value = 65535 THEN Unavailable ELSE value
      [] OTHER -> raw

\* Every attribute ApplyLatestMeasurement writes, for a frame.
Published(m) ==
    [measured   |-> [c \in PublishedChannels |->
                        IF c \in Valid(m) THEN ToMatter(c, m[c]) ELSE Unavailable],
     airQuality |-> EvaluateAirQuality([c \in Valid(m) \cap AirQualityChannels |-> m[c]])]

MatterValues ==
    {Unavailable} \cup {ToMatter(c, v) : c \in PublishedChannels, v \in Values}

\* What the attributes can show together.
Views == [measured   : [PublishedChannels -> MatterValues],
          airQuality : {Published(m).airQuality : m \in Frames}]

\* ApplyLatestMeasurement writes attribute by attribute: of two that overlap,
\* each attribute keeps either one's value.
Interleaved(view, other) ==
    {v \in Views :
        /\ \A c \in PublishedChannels :
               v.measured[c] \in {view.measured[c], other.measured[c]}
        /\ v.airQuality \in {view.airQuality, other.airQuality}}

EndpointTypeOK ==
    /\ mainPc \in MainPcs /\ mainCopy \in Frames
    /\ queued \in 0 .. QueueLimit
    /\ dropped \in BOOLEAN /\ overlapped \in BOOLEAN
    /\ chipPc \in {"idle", "apply"} /\ chipCopy \in Frames
    /\ attributes \in Views

\* The data model starts with null measurements and an unknown air quality.
EndpointInit ==
    /\ ServiceStart
    /\ mainPc = "boot" /\ mainCopy = NoReading
    /\ queued = 0 /\ dropped = FALSE /\ overlapped = FALSE
    /\ chipPc = "idle" /\ chipCopy = NoReading
    /\ attributes = Published(NoReading)

-----------------------------------------------------------------------------
(* The main thread: AppTask::Init, then ClusterInit inside StartServer.    *)

StartService ==
    /\ mainPc = "boot"
    /\ ServiceInit
    /\ mainPc' = "clusterInit"
    /\ UNCHANGED <<mainCopy, queueVars, chipVars, viewVars>>

\* Sen66::Init finds no bus: the service is not started, Matter is.
BusNotReady ==
    /\ mainPc = "boot"
    /\ mainPc' = "clusterInit"
    /\ UNCHANGED <<vars, mainCopy, queueVars, chipVars, viewVars>>

\* A cluster's Init failed: ClusterInit returns before it registers.
ClusterInitFails ==
    /\ mainPc = "clusterInit"
    /\ mainPc' = "running"
    /\ UNCHANGED <<vars, mainCopy, queueVars, chipVars, viewVars>>

ClusterInitRegisters ==
    /\ mainPc = "clusterInit"
    /\ RegisterUpdateCallback
    /\ mainPc' = "registered"
    /\ UNCHANGED <<mainCopy, queueVars, chipVars, viewVars>>

\* Faulty variant: ClusterInit waits for the first announcement.
ClusterInitSkipsApply ==
    /\ mainPc = "registered"
    /\ mainPc' = "running"
    /\ UNCHANGED <<vars, mainCopy, queueVars, chipVars, viewVars>>

\* ApplyLatestMeasurement(0), called directly: GetLatest copies the snapshot
\* or refuses.  The CHIP thread may be applying a work item meanwhile.
ClusterInitCopies ==
    /\ mainPc = "registered"
    /\ mainCopy' = snapshot.measurement
    /\ mainPc' = IF snapshot.everValid THEN "apply" ELSE "running"
    /\ dropped' = FALSE /\ overlapped' = (chipPc = "apply")
    /\ UNCHANGED <<vars, queued, chipVars, attributes>>

\* The first of two overlapping threads to end its writes has the other's
\* still to come.
ClusterInitApplies ==
    /\ mainPc = "apply"
    /\ attributes' \in IF overlapped /\ chipPc = "idle"
                          THEN Interleaved(attributes, Published(mainCopy))
                          ELSE {Published(mainCopy)}
    /\ mainPc' = "running" /\ mainCopy' = NoReading
    /\ UNCHANGED <<vars, queueVars, chipVars, overlapped>>

-----------------------------------------------------------------------------
(* The service's callback, and the CHIP thread.                            *)

CallbackInvoked == shouldNotify /\ everValid /\ callback

\* Faulty variant: work is posted without looking for a free slot.
AnnounceUnbounded ==
    /\ PollNotify
    /\ IF CallbackInvoked
          THEN queued' = queued + 1 /\ dropped' = FALSE
          ELSE UNCHANGED queueVars
    /\ UNCHANGED <<mainVars, chipVars, viewVars>>

\* OnMeasurementUpdated ignores ScheduleWork's result; other Matter work may
\* take the queue's slots.
Announce ==
    /\ PollNotify
    /\ IF CallbackInvoked
          THEN \/ queued < QueueLimit /\ queued' = queued + 1 /\ dropped' = FALSE
               \/ UNCHANGED queued /\ dropped' = TRUE
          ELSE UNCHANGED queueVars
    /\ UNCHANGED <<mainVars, chipVars, viewVars>>

\* Whether it dispatches while StartServer runs ClusterInit is not settled by
\* the repository, so it may.
ChipCopies ==
    /\ chipPc = "idle" /\ queued > 0
    /\ queued' = queued - 1
    /\ dropped' = FALSE /\ overlapped' = (mainPc = "apply")
    /\ chipCopy' = snapshot.measurement
    /\ chipPc' = IF snapshot.everValid THEN "apply" ELSE "idle"
    /\ UNCHANGED <<vars, mainVars, attributes>>

ChipApplies ==
    /\ chipPc = "apply"
    /\ attributes' \in IF overlapped /\ mainPc # "apply"
                          THEN Interleaved(attributes, Published(chipCopy))
                          ELSE {Published(chipCopy)}
    /\ chipPc' = "idle" /\ chipCopy' = NoReading
    /\ UNCHANGED <<vars, mainVars, queueVars, overlapped>>

-----------------------------------------------------------------------------

ServiceElsewhere ==
    /\ \/ PollBegin \/ PollRestart \/ PollRead \/ PollPublish \/ PollReschedule
       \/ ShellStartsSensor \/ Tick \/ SensorStep
    /\ UNCHANGED endpointVars

EndpointNext ==
    \/ StartService \/ BusNotReady
    \/ ClusterInitFails \/ ClusterInitRegisters
    \/ ClusterInitCopies \/ ClusterInitApplies
    \/ Announce \/ ChipCopies \/ ChipApplies
    \/ ServiceElsewhere

EndpointSpec == EndpointInit /\ [][EndpointNext]_allVars

-----------------------------------------------------------------------------
(* Properties.                                                             *)

\* Nothing is on its way to the attributes.
Quiescent ==
    /\ mainPc = "running" /\ callback
    /\ AtRest /\ queued = 0 /\ chipPc = "idle"

\* When nothing is on its way, the attributes show a frame with the validity
\* bits of the last announced one and no reading a threshold away from it: no
\* announcement is lost between the service's start, the callback's
\* registration, the coalescing queue and the re-read of the snapshot, and no
\* older snapshot overwrites a newer one.  Two things excuse an older view, and
\* both only until the next work item is taken: ScheduleWork found no room for
\* the last announcement, or ClusterInit's own apply and the CHIP thread's were
\* under way at the same time.
AttributesCurrent ==
    Quiescent /\ ~dropped /\ ~overlapped =>
        \E m \in Frames : ChangeMask(lastNotified, m) = {} /\ attributes = Published(m)

\* The endpoint composed with the service is still the service: the endpoint
\* changes none of its state except by registering.
ImplementsService == Spec

\* air_quality_matter_adapter.cpp:74-75, ApplyLatestMeasurement "Runs on the
\* CHIP thread (only ever invoked via ScheduleWork)".
AppliedByWorkItemOnly == [][chipPc = "apply"]_attributes
=============================================================================
