------------------------------ MODULE AppStartup -------------------------------
(***************************************************************************)
(* Application startup: AppTask::Init on the main thread, Server::Init and *)
(* then the event loop on the CHIP thread, the service's poll thread, and  *)
(* ClusterInit (air_quality_matter_adapter.cpp), which the SDK calls from  *)
(* StartServer on the main thread.                                         *)
(*                                                                         *)
(* PrepareServer may already let the CHIP thread run Server::Init.  A step *)
(* that fails stops the main thread, not the others.                       *)
(***************************************************************************)
EXTENDS Naturals, Sequences, FiniteSets

CONSTANT MaxPending     \* ApplyLatestMeasurement items in the event queue

ASSUME StartupAssumption == MaxPending \in Nat \ {0}

\* The instances ClusterInit initialises, in its order; the Air Quality and
\* Concentration Measurement ones assert that the endpoint has their cluster.
ClusterInits ==
    <<"identify", "temperatureIdentify", "airQuality", "co2", "pm1", "pm2p5", "pm10">>
Asserting == {"airQuality", "co2", "pm1", "pm2p5", "pm10"}

\* What ApplyLatestMeasurement writes: Temperature and Humidity live in the
\* attribute store, which Server::Init lays out.
Applied == {"attributeStore"} \cup Asserting

VARIABLES
    main,           \* where the main thread is
    returned,       \* the step whose failure ended it, or "nothing"
    chip,           \* the CHIP thread: "idle", "starting" or "serving"
    service,        \* TRUE once the measurement service polls
    everValid,      \* TRUE once it has published a frame
    callback,       \* TRUE once ClusterInit has registered its callback
    pending,        \* items in the event queue
    initialised,    \* the instances ready to be written
    applied,        \* those written so far
    asserted        \* TRUE once a VerifyOrDie has failed

vars == <<main, returned, chip, service, everValid, callback, pending, initialised,
          applied, asserted>>
pollVars == <<everValid, pending>>
clusterVars == <<callback, initialised, applied, asserted>>

AppSteps == {"prepare", "board", "sensor", "service", "handler", "start"}
Mains == AppSteps \cup {"waiting", "clusters", "apply", "dispatching", "ended"}

TypeOK ==
    /\ main \in Mains /\ returned \in {"nothing", "clusters"} \cup AppSteps
    /\ chip \in {"idle", "starting", "serving"}
    /\ service \in BOOLEAN /\ everValid \in BOOLEAN /\ callback \in BOOLEAN
    /\ pending \in 0 .. MaxPending /\ asserted \in BOOLEAN
    /\ initialised \subseteq {ClusterInits[i] : i \in DOMAIN ClusterInits} \cup {"attributeStore"}
    /\ applied \subseteq Applied

Init ==
    /\ main = "prepare" /\ returned = "nothing" /\ chip = "idle"
    /\ service = FALSE /\ everValid = FALSE /\ callback = FALSE
    /\ pending = 0 /\ initialised = {} /\ applied = {} /\ asserted = FALSE

Proceed(from, to) ==
    /\ main = from /\ main' = to
    /\ UNCHANGED returned

\* The main thread returns an error from a step, and ends.
Fail(step) ==
    /\ main' = "ended" /\ returned' = step

-----------------------------------------------------------------------------
(* AppTask::Init.                                                          *)

Prepare ==
    /\ \/ Proceed("prepare", "board") /\ chip' = "starting"
       \/ main = "prepare" /\ Fail("prepare") /\ UNCHANGED chip
    /\ UNCHANGED <<service, pollVars, clusterVars>>

InitBoard ==
    /\ \/ Proceed("board", "sensor")
       \/ main = "board" /\ Fail("board")
    /\ UNCHANGED <<chip, service, pollVars, clusterVars>>

\* Faulty variant: a missing sensor ends startup.
InitSensorOrFail ==
    /\ \/ Proceed("sensor", "service")
       \/ main = "sensor" /\ Fail("sensor")
    /\ UNCHANGED <<chip, service, pollVars, clusterVars>>

\* Sen66::Init finds the bus ready or not; either way startup goes on.
InitSensor ==
    /\ \/ Proceed("sensor", "service")
       \/ Proceed("sensor", "handler")
    /\ UNCHANGED <<chip, service, pollVars, clusterVars>>

InitService ==
    /\ Proceed("service", "handler")
    /\ service' = TRUE
    /\ UNCHANGED <<chip, pollVars, clusterVars>>

RegisterEventHandler ==
    /\ \/ Proceed("handler", "start")
       \/ main = "handler" /\ Fail("handler")
    /\ UNCHANGED <<chip, service, pollVars, clusterVars>>

StartServer ==
    /\ \/ Proceed("start", "waiting")
       \/ main = "start" /\ Fail("start")
    /\ UNCHANGED <<chip, service, pollVars, clusterVars>>

\* Faulty variant: the cluster inits run without waiting for Server::Init.
NoWaitForReadiness ==
    /\ Proceed("waiting", "clusters")
    /\ UNCHANGED <<chip, service, pollVars, clusterVars>>

WaitForReadiness ==
    /\ chip = "serving"
    /\ Proceed("waiting", "clusters")
    /\ UNCHANGED <<chip, service, pollVars, clusterVars>>

-----------------------------------------------------------------------------
(* ClusterInit.                                                            *)

Remaining == {i \in DOMAIN ClusterInits : ClusterInits[i] \notin initialised}
NextCluster == ClusterInits[CHOOSE i \in Remaining : \A j \in Remaining : i <= j]

\* The tables are there once Server::Init is through.
ContainsServer == "attributeStore" \in initialised

InitCluster ==
    /\ main = "clusters" /\ Remaining # {}
    /\ asserted' = (asserted \/ (NextCluster \in Asserting /\ ~ContainsServer))
    /\ initialised' = initialised \cup {NextCluster}
    /\ UNCHANGED <<main, returned, chip, service, pollVars, callback, applied>>

\* The instance's Init returns an error: ClusterInit returns false, and
\* whether the main thread then ends or goes on is the SDK's.
InitClusterFails ==
    /\ main = "clusters" /\ Remaining # {}
    /\ Fail("clusters") \/ (main' = "dispatching" /\ UNCHANGED returned)
    /\ UNCHANGED <<chip, service, pollVars, clusterVars>>

\* Faulty variant: the callback is registered before the clusters are ready.
RegisterUpdateCallbackFirst ==
    /\ main = "clusters" /\ ~callback
    /\ callback' = TRUE
    /\ main' = IF Remaining = {} THEN "apply" ELSE "clusters"
    /\ UNCHANGED <<returned, chip, service, pollVars, initialised, applied, asserted>>

RegisterUpdateCallback ==
    /\ main = "clusters" /\ Remaining = {}
    /\ callback' = TRUE
    /\ main' = "apply"
    /\ UNCHANGED <<returned, chip, service, pollVars, initialised, applied, asserted>>

ApplyLatestMeasurement == applied' = IF everValid THEN Applied ELSE applied

ApplyFirst ==
    /\ Proceed("apply", "dispatching")
    /\ ApplyLatestMeasurement
    /\ UNCHANGED <<chip, service, pollVars, callback, initialised, asserted>>

-----------------------------------------------------------------------------
(* The CHIP thread and the poll thread.                                    *)

ServerInit ==
    /\ chip = "starting"
    /\ chip' = "serving"
    /\ initialised' = initialised \cup {"attributeStore"}
    /\ UNCHANGED <<main, returned, service, pollVars, callback, applied, asserted>>

DispatchWork ==
    /\ chip = "serving" /\ pending > 0
    /\ pending' = pending - 1
    /\ ApplyLatestMeasurement
    /\ UNCHANGED <<main, returned, chip, service, everValid, callback, initialised, asserted>>

\* A poll publishes a frame and announces it, to a callback if there is one.
Poll ==
    /\ service
    /\ everValid' = TRUE
    /\ pending' \in IF callback /\ pending < MaxPending THEN {pending, pending + 1} ELSE {pending}
    /\ UNCHANGED <<main, returned, chip, service, clusterVars>>

MainStep ==
    \/ Prepare \/ InitBoard \/ InitSensor \/ InitService \/ RegisterEventHandler
    \/ StartServer \/ WaitForReadiness
    \/ InitCluster \/ InitClusterFails \/ RegisterUpdateCallback \/ ApplyFirst

Next == MainStep \/ ServerInit \/ DispatchWork \/ Poll

Spec == Init /\ [][Next]_vars

\* The main and the CHIP thread are scheduled; the sensor need not answer.
FairSpec == Spec /\ WF_vars(MainStep) /\ WF_vars(ServerInit)

-----------------------------------------------------------------------------
(* Properties.                                                             *)

\* The comment above ClusterInit: no Init() of a cluster finds the endpoint
\* tables empty, whatever the CHIP thread has reached when the main thread
\* gets to StartServer.
NoAssertFires == ~asserted

\* No measurement is written before the store is laid out and every cluster
\* instance initialised, from either thread and also after ClusterInit gave
\* up half-way.
OnlyReadyIsWritten == applied \subseteq initialised

\* app_task.cpp:38-39, "A missing sensor bus must not block Matter": unless
\* one of Matter's or the board's own steps failed, the main thread gets to
\* its task loop and the CHIP thread serves.
SensorNeverBlocksMatter ==
    <>(\/ chip = "serving" /\ main = "dispatching"
       \/ returned \in {"prepare", "board", "handler", "start", "clusters"})
=============================================================================
