--------------------------- MODULE InteractionModel ----------------------------
(***************************************************************************)
(* A client's request on its way through the node: the SDK looks the path  *)
(* up in the data model's tables, compares the client's privilege with the *)
(* generated access tables, and hands a command to the cluster that runs   *)
(* in code, or else to the generated IMClusterCommandHandler.cpp.          *)
(*                                                                         *)
(* The access tables are parallel arrays: entry i of a "cluster", an "id"  *)
(* and a "privilege" array are one rule.  Requests are served one at a     *)
(* time, on the CHIP thread.                                               *)
(***************************************************************************)
EXTENDS DataModel

CONSTANTS ClusterIds, Ids      \* the clusters and ids a client may ask for

Privileges == 1 .. 4
View == 1
Operate == 2
Manage == 3
Administer == 4

Repeat(x, n) == [i \in 1 .. n |-> x]

ReadClusters ==
    Repeat(AccessControl, 2) \o Repeat(NetworkCommissioning, 5)
    \o Repeat(OperationalCredentials, 1)
ReadIds == <<0, 1, 0, 1, 5, 6, 7, 0>>
ReadPrivileges == Repeat(Administer, 8)

WriteClusters ==
    Repeat(AccessControl, 2) \o Repeat(BasicInformation, 2)
    \o <<OtaRequestor, GeneralCommissioning, NetworkCommissioning, GroupKeyManagement>>
WriteIds == <<0, 1, 5, 6, 0, 0, 4, 0>>
WritePrivileges ==
    Repeat(Administer, 2) \o <<Manage>> \o Repeat(Administer, 4) \o <<Manage>>

InvokeClusters ==
    Repeat(Identify, 2) \o Repeat(OtaRequestor, 1) \o Repeat(GeneralCommissioning, 3)
    \o Repeat(NetworkCommissioning, 6) \o Repeat(GeneralDiagnostics, 1)
    \o Repeat(AdministratorCommissioning, 3) \o Repeat(OperationalCredentials, 10)
    \o Repeat(GroupKeyManagement, 4)

\* Faulty variant: TriggerEffect is missing from one of the three arrays.
InvokeIdsShifted ==
    <<0>> \o <<0>> \o <<0, 2, 4>> \o <<0, 2, 3, 4, 6, 8>> \o <<0>> \o <<0, 1, 2>>
    \o <<0, 2, 4, 6, 7, 9, 10, 11, 12, 13>> \o <<0, 1, 3, 4>>

InvokeIds ==
    <<0, 64>> \o <<0>> \o <<0, 2, 4>> \o <<0, 2, 3, 4, 6, 8>> \o <<0>> \o <<0, 1, 2>>
    \o <<0, 2, 4, 6, 7, 9, 10, 11, 12, 13>> \o <<0, 1, 3, 4>>
InvokePrivileges ==
    Repeat(Manage, 2) \o Repeat(Administer, 10) \o <<Manage>> \o Repeat(Administer, 17)

EventClusters == Repeat(AccessControl, 3)
EventIds == <<0, 1, 2>>
EventPrivileges == Repeat(Administer, 3)

\* What the SDK asks for where the tables have no rule.
DefaultPrivilege ==
    [read |-> View, write |-> Operate, invoke |-> Operate, event |-> View]

Rules ==
    [read   |-> <<ReadClusters, ReadIds, ReadPrivileges>>,
     write  |-> <<WriteClusters, WriteIds, WritePrivileges>>,
     invoke |-> <<InvokeClusters, InvokeIds, InvokePrivileges>>,
     event  |-> <<EventClusters, EventIds, EventPrivileges>>]

RequiredPrivilege(r) ==
    LET clusters == Rules[r.kind][1]
        ids == Rules[r.kind][2]
        matching == {i \in DOMAIN clusters \cap DOMAIN ids :
                        clusters[i] = r.cluster /\ ids[i] = r.id}
    IN  IF matching = {} THEN DefaultPrivilege[r.kind]
        ELSE Rules[r.kind][3][CHOOSE i \in matching : TRUE]

-----------------------------------------------------------------------------

VARIABLES
    starting,       \* position of the next cluster Server::Init initialises
    running,        \* the clusters that run in code
    stage,          \* where the request is
    request,
    replies         \* the statuses sent for it

requestVars == <<starting, running, stage, request, replies>>
serverVars == <<starting, running>>

Kinds == DOMAIN DefaultPrivilege
Requests ==
    [kind : Kinds, ep : Endpoints \cup {Len(EndpointTypes)}, cluster : ClusterIds,
     id : Ids, privilege : Privileges]
NoRequest == [kind |-> "none"]

\* Faulty variant: MatterClusterServerInitCallback forgets a case.
RunsInCodeButGroupKeys ==
    {Identify, Descriptor, AccessControl, BasicInformation, GeneralCommissioning,
     GeneralDiagnostics, AdministratorCommissioning, OperationalCredentials}

\* The cases of MatterClusterServerInitCallback.
RunsInCode ==
    {Identify, Descriptor, AccessControl, BasicInformation, GeneralCommissioning,
     GeneralDiagnostics, AdministratorCommissioning, OperationalCredentials,
     GroupKeyManagement}

\* MATTER_DM_*_SERVER_ENDPOINT_COUNT: the instances a cluster has room for.
ServerEndpointCount(id) ==
    CASE id = Descriptor -> 3
      [] id \in {Identify, TemperatureMeasurement} -> 2
      [] id \in {AccessControl, BasicInformation, OtaRequestor, GeneralCommissioning,
                 NetworkCommissioning, GeneralDiagnostics, AdministratorCommissioning,
                 OperationalCredentials, GroupKeyManagement, AirQuality,
                 RelativeHumidityMeasurement, CarbonDioxide, Pm25, Pm1, Pm10} -> 1
      [] OTHER -> 0

\* The *_ENABLE_*_CMD flags: the commands a cluster carries out.
EnabledCommands(id) ==
    CASE id = AdministratorCommissioning -> 0 .. 2
      [] id = GeneralCommissioning -> {0, 2, 4}
      [] id = GeneralDiagnostics -> {0, 1}
      [] id = GroupKeyManagement -> {0, 1, 3, 4}
      [] id = Identify -> {0, 64}
      [] id = NetworkCommissioning -> {0, 2, 3, 4, 6, 8}
      [] id = OtaRequestor -> {0}
      [] id = OperationalCredentials -> {0, 2, 4, 6, 7} \cup 9 .. 13
      [] OTHER -> {}

RequestInit ==
    /\ starting = 1 /\ running = {}
    /\ stage = "idle" /\ request = NoRequest /\ replies = <<>>

\* Server::Init calls MatterClusterServerInitCallback for each server cluster;
\* a cluster out of instances is refused.
StartCluster ==
    /\ starting <= Len(Clusters)
    /\ LET cluster == Clusters[starting]
           same == {k \in running : Clusters[k].id = cluster.id}
       IN  running' = IF /\ cluster.server /\ cluster.id \in RunsInCode
                         /\ Cardinality(same) < ServerEndpointCount(cluster.id)
                      THEN running \cup {starting} ELSE running
    /\ starting' = starting + 1
    /\ UNCHANGED <<stage, request, replies>>

Receive ==
    /\ starting > Len(Clusters) /\ stage = "idle"
    /\ request' \in Requests
    /\ stage' = "received"
    /\ UNCHANGED <<serverVars, replies>>

Reply(status) ==
    /\ replies' = Append(replies, status)
    /\ stage' = "done"

Server(r) == CHOOSE k \in ServersNamed(r.ep, r.cluster) : TRUE

\* What the tables say of a path.
PathStatus(r) ==
    IF r.ep \notin Endpoints THEN "UnsupportedEndpoint"
    ELSE IF ServersNamed(r.ep, r.cluster) = {} THEN "UnsupportedCluster"
    ELSE LET attributes == {Attributes[a] : a \in AttributesNamed(Server(r), r.id)}
         IN  CASE r.kind = "invoke" /\ r.id \notin CommandList(Clusters[Server(r)].accepted)
                    -> "UnsupportedCommand"
               [] r.kind \in {"read", "write"} /\ attributes = {} -> "UnsupportedAttribute"
               [] r.kind = "write" /\ \A a \in attributes : "writable" \notin a.flags
                    -> "UnsupportedWrite"
               [] OTHER -> "Success"

CheckPath ==
    /\ stage = "received"
    /\ IF PathStatus(request) = "Success"
          THEN stage' = "checked" /\ UNCHANGED replies
          ELSE Reply(PathStatus(request))
    /\ UNCHANGED <<serverVars, request>>

CheckAccess ==
    /\ stage = "checked"
    /\ IF request.privilege >= RequiredPrivilege(request)
          THEN stage' = "allowed" /\ UNCHANGED replies
          ELSE Reply("UnsupportedAccess")
    /\ UNCHANGED <<serverVars, request>>

\* Reading and writing are the clusters' own; the store's side of it is
\* module AttributeStore.
Access ==
    /\ stage = "allowed" /\ request.kind # "invoke"
    /\ Reply("Success")
    /\ UNCHANGED <<serverVars, request>>

\* A cluster in code, or the SDK's network commissioning instance.
ServedInCode == request.kind = "invoke" /\ Server(request) \in running
ServedByInstance == request.kind = "invoke" /\ request.cluster = NetworkCommissioning

Invoke ==
    /\ stage = "allowed"
    /\ ServedInCode \/ ServedByInstance
    /\ Reply(IF request.id \in EnabledCommands(request.cluster)
             THEN "Success" ELSE "UnsupportedCommand")
    /\ UNCHANGED <<serverVars, request>>

AnnounceOTAProvider == 0

\* OtaSoftwareUpdateRequestor::DispatchServerCommand: whether the payload
\* decodes, and whether the SDK's callback takes the command.
DispatchServerCommand(command, decodes, wasHandled) ==
    IF command # AnnounceOTAProvider THEN "UnsupportedCommand"
    ELSE IF ~decodes \/ ~wasHandled THEN "InvalidCommand" ELSE "Success"

\* Faulty variant: the status is added on success too.
StatusAddedAlways(errorStatus) == <<errorStatus>>

\* AddStatus, unless Success: the callback that took the command has replied.
StatusAdded(errorStatus) == IF errorStatus # "Success" THEN <<errorStatus>> ELSE <<>>

\* DispatchSingleClusterCommand.  The callback replies to what it takes.
Dispatch ==
    /\ stage = "allowed" /\ request.kind = "invoke"
    /\ ~ServedInCode /\ ~ServedByInstance
    /\ \E decodes, wasHandled \in BOOLEAN :
          LET isOta == request.cluster = OtaRequestor
              errorStatus == IF isOta THEN DispatchServerCommand(request.id, decodes, wasHandled)
                             ELSE "UnsupportedCluster"
              taken == isOta /\ request.id = AnnounceOTAProvider /\ decodes /\ wasHandled
          IN  replies' = (IF taken THEN <<"Success">> ELSE <<>>) \o StatusAdded(errorStatus)
    /\ stage' = "done"
    /\ UNCHANGED <<serverVars, request>>

Finish ==
    /\ stage = "done"
    /\ stage' = "idle" /\ request' = NoRequest /\ replies' = <<>>
    /\ UNCHANGED serverVars

RequestNext ==
    Receive \/ CheckPath \/ CheckAccess \/ Access \/ Invoke \/ Dispatch \/ Finish

-----------------------------------------------------------------------------
(* Properties.                                                             *)

\* Every request is answered, once: whichever of the cluster, its callback and
\* the dispatcher owes the status, the others add none.
RepliedOnce ==
    /\ stage \in {"idle", "received", "checked", "allowed"} => replies = <<>>
    /\ stage = "done" => Len(replies) = 1

\* A command the tables list as accepted, from a client with the privilege, is
\* never refused as unsupported: some cluster started by Server::Init, or the
\* generated dispatcher, carries out every command the node advertises.
AcceptedIsServed ==
    stage = "done" /\ request.kind = "invoke"
    /\ PathStatus(request) = "Success"
    /\ request.privilege >= RequiredPrivilege(request) =>
        \A i \in DOMAIN replies : replies[i] \in {"Success", "InvalidCommand"}

\* Commands that change the node's fabrics, networks, keys or firmware, as
\* access.h's comments give their privileges.
ConfiguresNode ==
    {OtaRequestor, GeneralCommissioning, NetworkCommissioning,
     AdministratorCommissioning, OperationalCredentials, GroupKeyManagement}

\* No client below Administer gets a command that configures the node carried
\* out, reads the access control list, the networks or the certificates, or
\* reads the access control events; none below Manage writes anything but the
\* identify time.
Protected ==
    stage = "done" /\ replies # <<>> /\ replies[1] = "Success" =>
        /\ request.kind = "invoke" /\ request.cluster \in ConfiguresNode =>
               request.privilege = Administer
        /\ request.kind = "read" /\ request.cluster = AccessControl /\ request.id \in {0, 1} =>
               request.privilege = Administer
        /\ request.kind = "read" /\ request.cluster = NetworkCommissioning /\ request.id = 1 =>
               request.privilege = Administer
        /\ request.kind = "read" /\ request.cluster = OperationalCredentials /\ request.id = 0 =>
               request.privilege = Administer
        /\ request.kind = "event" /\ request.cluster = AccessControl /\ request.id \in 0 .. 2 =>
               request.privilege = Administer
        /\ request.kind = "write" /\ request.cluster # Identify =>
               request.privilege >= Manage
=============================================================================
