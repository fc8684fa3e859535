------------------------------ MODULE DataModel -------------------------------
(***************************************************************************)
(* The node's data model as ZAP generates it (default_zap/zap-generated):  *)
(* the flat tables of attributes, commands, clusters and endpoints, which  *)
(* refer to each other by index, by count and by size.                     *)
(*                                                                         *)
(* An attribute row keeps its id, its number of bytes in the attribute     *)
(* store (0: EXTERNAL_STORAGE), its WRITABLE and NULLABLE bits, and        *)
(* whether its default is null.  Indexes into the tables count from 0.     *)
(***************************************************************************)
EXTENDS Integers, Sequences, FiniteSets, Functions

Rows(ids, bytes, flags) ==
    [i \in DOMAIN ids |-> [id |-> ids[i], bytes |-> bytes, flags |-> flags]]

External(ids) == Rows(ids, 0, {})
ExternalWritable(ids) == Rows(ids, 0, {"writable"})
ExternalNullable(ids) == Rows(ids, 0, {"nullable"})
Stored(ids, bytes) == Rows(ids, bytes, {})
StoredNull(ids, bytes) == Rows(ids, bytes, {"nullable", "startsNull"})

FeatureMap == \hFFFC
ClusterRevision == \hFFFD
Globals == External(<<FeatureMap, ClusterRevision>>)

\* The rows of a cluster.
DescriptorRows == External(<<0, 1, 2, 3>>) \o Globals
AccessControlRows == ExternalWritable(<<0, 1>>) \o External(<<2, 3, 4>>) \o Globals
BasicInformationRows ==
    External(<<0, 1, 2, 3, 4>>) \o ExternalWritable(<<5, 6>>)
    \o External(<<7, 8, 9, 10, 11, 15, 18, 19, 21, 22, 24>>) \o Globals
OtaRequestorRows ==
    ExternalWritable(<<0>>) \o Stored(<<1, 2>>, 1) \o Rows(<<3>>, 1, {"nullable"})
    \o Stored(<<FeatureMap>>, 4) \o Stored(<<ClusterRevision>>, 2)
GeneralCommissioningRows == ExternalWritable(<<0>>) \o External(<<1, 2, 3, 4>>) \o Globals
NetworkCommissioningRows ==
    External(<<0, 1, 2, 3>>) \o ExternalWritable(<<4>>)
    \o ExternalNullable(<<5, 6, 7>>) \o External(<<8, 9, 10>>) \o Globals
GeneralDiagnosticsRows == External(<<0, 1, 2, 3, 4, 8>>) \o Globals
AdministratorCommissioningRows ==
    External(<<0>>) \o ExternalNullable(<<1, 2>>)
    \o Stored(<<FeatureMap>>, 4) \o External(<<ClusterRevision>>)
OperationalCredentialsRows == External(<<0, 1, 2, 3, 4, 5>>) \o Globals
GroupKeyManagementRows == ExternalWritable(<<0>>) \o External(<<1, 2, 3>>) \o Globals
IdentifyRows == ExternalWritable(<<0>>) \o External(<<1>>) \o Globals
AirQualityClusterRows == External(<<0, FeatureMap>>) \o Stored(<<ClusterRevision>>, 2)
MeasurementRows ==
    StoredNull(<<0, 1, 2>>, 2) \o Stored(<<FeatureMap>>, 4)
    \o Stored(<<ClusterRevision>>, 2)
ConcentrationRows ==
    ExternalNullable(<<0, 1, 2>>) \o External(<<8, 9, FeatureMap>>)
    \o Stored(<<ClusterRevision>>, 2)
TemperatureClusterRows ==
    StoredNull(<<0, 1, 2>>, 2) \o External(<<FeatureMap>>)
    \o Stored(<<ClusterRevision>>, 2)

\* The rows of an endpoint, cluster by cluster: endpoint 0, endpoint 1, the air
\* quality sensor, and endpoint 2, the temperature sensor.
RootRows ==
    DescriptorRows \o AccessControlRows \o BasicInformationRows \o OtaRequestorRows
    \o GeneralCommissioningRows \o NetworkCommissioningRows \o GeneralDiagnosticsRows
    \o AdministratorCommissioningRows \o OperationalCredentialsRows
    \o GroupKeyManagementRows

AirQualityRows ==
    IdentifyRows \o DescriptorRows \o AirQualityClusterRows
    \o MeasurementRows \o MeasurementRows
    \o ConcentrationRows \o ConcentrationRows \o ConcentrationRows \o ConcentrationRows

TemperatureRows == IdentifyRows \o DescriptorRows \o TemperatureClusterRows

Attributes == RootRows \o AirQualityRows \o TemperatureRows

-----------------------------------------------------------------------------
(* Commands: lists laid end to end, each closed by kInvalidCommandId.      *)

EndOfList == -1
List(ids) == ids \o <<EndOfList>>

Commands ==
    List(<<0>>)                                         \* OTA requestor
    \o List(<<0, 2, 4>>) \o List(<<1, 3, 5>>)           \* commissioning
    \o List(<<0, 2, 3, 4, 6, 8>>) \o List(<<1, 5, 7>>)  \* network
    \o List(<<0, 1>>) \o List(<<2>>)                    \* diagnostics
    \o List(<<0, 1, 2>>)                                \* administrator
    \o List(<<0, 2, 4, 6, 7, 9, 10, 11, 12, 13>>)       \* credentials
       \o List(<<1, 3, 5, 8, 14>>)
    \o List(<<0, 1, 3, 4>>) \o List(<<2, 5>>)           \* group keys
    \o List(<<0>>)                                      \* endpoint 1 identify
    \o List(<<0, 64>>)                                  \* endpoint 2 identify

-----------------------------------------------------------------------------
(* Clusters: their attributes, from an index, and their command lists.     *)

NoCommands == -1

Cluster(id, first, count, bytes, accepted, generated) ==
    [id |-> id, first |-> first, count |-> count, bytes |-> bytes, server |-> TRUE,
     accepted |-> accepted, generated |-> generated]
Passive(id, first, count, bytes) == Cluster(id, first, count, bytes, NoCommands, NoCommands)
Client(id, first) == [Passive(id, first, 0, 0) EXCEPT !.server = FALSE]

Identify == \h3
Descriptor == \h1D
AccessControl == \h1F
BasicInformation == \h28
OtaProvider == \h29
OtaRequestor == \h2A
GeneralCommissioning == \h30
NetworkCommissioning == \h31
GeneralDiagnostics == \h33
AdministratorCommissioning == \h3C
OperationalCredentials == \h3E
GroupKeyManagement == \h3F
AirQuality == \h5B
TemperatureMeasurement == \h402
RelativeHumidityMeasurement == \h405
CarbonDioxide == \h40D
Pm25 == \h42A
Pm1 == \h42C
Pm10 == \h42D

RootClusters == <<
    Passive(Descriptor, 0, 6, 0),
    Passive(AccessControl, 6, 7, 0),
    Passive(BasicInformation, 13, 20, 0),
    Client(OtaProvider, 33),
    Cluster(OtaRequestor, 33, 6, 9, 0, NoCommands),
    Cluster(GeneralCommissioning, 39, 7, 0, 2, 6),
    Cluster(NetworkCommissioning, 46, 13, 0, 10, 17),
    Cluster(GeneralDiagnostics, 59, 8, 0, 21, 24),
    Cluster(AdministratorCommissioning, 67, 5, 4, 26, NoCommands),
    Cluster(OperationalCredentials, 72, 8, 0, 30, 41),
    Cluster(GroupKeyManagement, 80, 6, 0, 47, 52) >>

AirQualityClusters == <<
    Cluster(Identify, 86, 4, 0, 55, NoCommands),
    Passive(Descriptor, 90, 6, 0),
    Passive(AirQuality, 96, 3, 2),
    Passive(TemperatureMeasurement, 99, 5, 12),
    Passive(RelativeHumidityMeasurement, 104, 5, 12),
    Passive(CarbonDioxide, 109, 7, 2),
    Passive(Pm25, 116, 7, 2),
    Passive(Pm1, 123, 7, 2),
    Passive(Pm10, 130, 7, 2) >>

TemperatureClusters == <<
    Cluster(Identify, 137, 4, 0, 57, NoCommands),
    Passive(Descriptor, 141, 6, 0),
    Passive(TemperatureMeasurement, 147, 5, 8) >>

Clusters == RootClusters \o AirQualityClusters \o TemperatureClusters

-----------------------------------------------------------------------------
(* Endpoints: their clusters, from an index, and their bytes.              *)

\* Faulty variant: endpoint 1 keeps the size it had before the humidity
\* cluster was added.
EndpointTypesStale == <<
    [first |-> 0, count |-> 11, bytes |-> 13],
    [first |-> 11, count |-> 9, bytes |-> 22],
    [first |-> 20, count |-> 3, bytes |-> 8] >>

EndpointTypes == <<
    [first |-> 0, count |-> 11, bytes |-> 13],
    [first |-> 11, count |-> 9, bytes |-> 34],
    [first |-> 20, count |-> 3, bytes |-> 8] >>

Endpoints == 0 .. Len(EndpointTypes) - 1
AttributeMaxSize == 55      \* ATTRIBUTE_MAX_SIZE, bytes of the store

\* The positions, counted from 1, of the rows a table's entry refers to.
Indexed(row) == row.first + 1 .. row.first + row.count

ClustersOn(ep) == Indexed(EndpointTypes[ep + 1])

ServersOn(ep) == {k \in ClustersOn(ep) : Clusters[k].server}

\* The server clusters with an id on an endpoint, and a cluster's attributes
\* with an id: at most one each when the tables are right.
ServersNamed(ep, id) ==
    IF ep \in Endpoints THEN {k \in ServersOn(ep) : Clusters[k].id = id} ELSE {}
AttributesNamed(k, id) == {a \in Indexed(Clusters[k]) : Attributes[a].id = id}

\* The list at an index of Commands, up to its end.
CommandList(index) ==
    IF index = NoCommands THEN {}
    ELSE {Commands[i] : i \in {j \in index + 1 .. Len(Commands) :
                                 \A h \in index + 1 .. j : Commands[h] # EndOfList}}
=============================================================================
