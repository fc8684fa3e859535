--------------------------------- MODULE Node ----------------------------------
(***************************************************************************)
(* The node from power-up to its clients: AppStartup, whose Server::Init   *)
(* loads the attribute store and starts the clusters one by one, then the  *)
(* readings that reach the store and the requests that reach the clusters. *)
(***************************************************************************)
EXTENDS AppStartup, AttributeStore, InteractionModel

nodeVars == <<vars, storeVars, requestVars>>

NodeInit == Init /\ StoreInit /\ RequestInit

\* Server::Init, step by step on the CHIP thread while the other threads go on.
LoadsStore ==
    /\ chip = "starting"
    /\ LoadDefault
    /\ UNCHANGED <<vars, requestVars>>

StartsCluster ==
    /\ chip = "starting" /\ loading = {}
    /\ StartCluster
    /\ UNCHANGED <<vars, storeVars>>

LaidOut == loading = {} /\ starting > Len(Clusters)

ServerReady ==
    /\ LaidOut
    /\ ServerInit
    /\ UNCHANGED <<storeVars, requestVars>>

\* The other threads, and the CHIP thread's work items.
ThreadStep ==
    /\ MainStep \/ DispatchWork \/ Poll
    /\ UNCHANGED <<storeVars, requestVars>>

\* Bound: the values change once the first measurement was applied.
AttributesChange ==
    /\ applied = Applied
    /\ ApplyReading \/ OtaReports
    /\ UNCHANGED <<vars, requestVars>>

\* Bound: the clients ask a node whose sensor bus is not ready, in which no
\* other thread has anything left to do.
ClientStep ==
    /\ main = "dispatching" /\ callback /\ ~service
    /\ RequestNext
    /\ UNCHANGED <<vars, storeVars>>

NodeNext ==
    \/ LoadsStore \/ StartsCluster \/ ServerReady \/ ThreadStep
    \/ AttributesChange \/ ClientStep

\* The main and the CHIP thread are scheduled; the sensor need not answer, and
\* nobody has to ask.
NodeSpec ==
    /\ NodeInit /\ [][NodeNext]_nodeVars
    /\ WF_nodeVars(MainStep /\ UNCHANGED <<storeVars, requestVars>>)
    /\ WF_nodeVars(LoadsStore \/ StartsCluster \/ ServerReady)
=============================================================================
