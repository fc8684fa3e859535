------------------------------ MODULE NodeProofs -------------------------------
(***************************************************************************)
(* Startup, for every order of the three threads and every failing step:   *)
(* no cluster asserts, and nothing is written before it is initialised.    *)
(* Every request of a client is answered once, every command the tables    *)
(* list is carried out, and access.h keeps what it names, for any set of   *)
(* paths.  Each attribute in RAM keeps what was last written to it.        *)
(***************************************************************************)
EXTENDS Node, FiniteSetTheorems, TLAPS

\* ClusterInit runs only once the CHIP thread serves, and a callback is
\* registered only with every instance initialised: from there an item in
\* the event queue finds everything ready.
Ordered ==
    /\ chip = "serving" => "attributeStore" \in initialised
    /\ main \in {"clusters", "apply"} => chip = "serving"
    /\ callback => Applied \subseteq initialised
    /\ main = "apply" => callback
    /\ pending > 0 => callback

StartupInv == TypeOK /\ Ordered /\ NoAssertFires /\ OnlyReadyIsWritten

LEMMA AllInitialised ==
    ASSUME Remaining = {} PROVE Asserting \subseteq initialised
<1>1. \A i \in 1 .. 7 : ClusterInits[i] \in initialised
  BY DEF Remaining, ClusterInits
<1>2. QED
  BY <1>1 DEF ClusterInits, Asserting

LEMMA NextClusterKnown ==
    ASSUME Remaining # {} PROVE NextCluster \in {ClusterInits[i] : i \in DOMAIN ClusterInits}
<1>1. Remaining \subseteq 1 .. 7
  BY DEF Remaining, ClusterInits
<1>2. \E i \in Remaining : \A j \in Remaining : i <= j
  <2>1. PICK i \in Remaining : TRUE
    OBVIOUS
  <2> DEFINE below(n) == {j \in Remaining : j <= n}
  <2>2. \/ 1 \in Remaining
        \/ 1 \notin Remaining /\ 2 \in Remaining
        \/ 1 \notin Remaining /\ 2 \notin Remaining /\ 3 \in Remaining
        \/ Remaining \cap 1 .. 3 = {} /\ 4 \in Remaining
        \/ Remaining \cap 1 .. 4 = {} /\ 5 \in Remaining
        \/ Remaining \cap 1 .. 5 = {} /\ 6 \in Remaining
        \/ Remaining \cap 1 .. 6 = {} /\ 7 \in Remaining
    BY <1>1, <2>1
  <2>3. QED
    BY <1>1, <2>2
<1> DEFINE first == CHOOSE i \in Remaining : \A j \in Remaining : i <= j
<1>3. first \in Remaining
  BY <1>2
<1>4. QED
  BY <1>3 DEF NextCluster, Remaining

\* The threads start ordered.
LEMMA StartupInit == Init => StartupInv
<1> SUFFICES ASSUME Init PROVE StartupInv
  OBVIOUS
<1>1. TypeOK
  <2>1. pending \in 0 .. MaxPending
    BY StartupAssumption DEF StartupAssumption, Init
  <2>2. service \in BOOLEAN /\ everValid \in BOOLEAN /\ callback \in BOOLEAN /\ asserted \in BOOLEAN
    BY Zenon DEF Init
  <2>3. main \in Mains /\ returned \in {"nothing", "clusters"} \cup AppSteps
    BY DEF Init, Mains, AppSteps
  <2>4. chip \in {"idle", "starting", "serving"} /\ initialised = {} /\ applied = {}
    BY DEF Init
  <2>5. QED
    BY <2>1, <2>2, <2>3, <2>4 DEF TypeOK
<1>2. Ordered
  BY DEF Init, Ordered
<1>3. NoAssertFires /\ OnlyReadyIsWritten
  BY DEF Init, NoAssertFires, OnlyReadyIsWritten
<1>4. QED
  BY <1>1, <1>2, <1>3 DEF StartupInv

LEMMA StartupStep == StartupInv /\ [Next]_vars => StartupInv'
<1> SUFFICES ASSUME StartupInv, [Next]_vars PROVE StartupInv'
  OBVIOUS
<1> USE StartupAssumption DEF StartupAssumption, StartupInv, TypeOK, Ordered, NoAssertFires,
        OnlyReadyIsWritten, Mains, AppSteps
<1> DEFINE known == {ClusterInits[i] : i \in DOMAIN ClusterInits} \cup {"attributeStore"}
<1>1. CASE Prepare
  BY <1>1 DEF Prepare, Proceed, Fail, pollVars, clusterVars
<1>2. CASE InitBoard
  BY <1>2 DEF InitBoard, Proceed, Fail, pollVars, clusterVars
<1>3. CASE InitSensor
  BY <1>3 DEF InitSensor, Proceed, pollVars, clusterVars
<1>4. CASE InitService
  BY <1>4 DEF InitService, Proceed, pollVars, clusterVars
<1>5. CASE RegisterEventHandler
  BY <1>5 DEF RegisterEventHandler, Proceed, Fail, pollVars, clusterVars
<1>6. CASE StartServer
  BY <1>6 DEF StartServer, Proceed, Fail, pollVars, clusterVars
<1>7. CASE WaitForReadiness
  BY <1>7 DEF WaitForReadiness, Proceed, pollVars, clusterVars
<1>8. CASE InitCluster
  <2>1. NextCluster \in known
    BY <1>8, NextClusterKnown DEF InitCluster
  <2>2. ~asserted'
    BY <1>8 DEF InitCluster, ContainsServer
  <2>3. initialised \subseteq initialised' /\ initialised' \subseteq known
    BY <1>8, <2>1 DEF InitCluster
  <2>4. TypeOK'
    BY <1>8, <2>2, <2>3 DEF InitCluster, pollVars
  <2>5. Ordered' /\ OnlyReadyIsWritten'
    BY <1>8, <2>3 DEF InitCluster, pollVars
  <2>6. QED
    BY <2>2, <2>4, <2>5
<1>9. CASE InitClusterFails
  BY <1>9 DEF InitClusterFails, Fail, pollVars, clusterVars
<1>10. CASE RegisterUpdateCallback
  <2>1. Applied \subseteq initialised
    BY <1>10, AllInitialised DEF RegisterUpdateCallback, Applied
  <2>2. QED
    BY <1>10, <2>1 DEF RegisterUpdateCallback, pollVars
<1>11. CASE ApplyFirst
  BY <1>11 DEF ApplyFirst, ApplyLatestMeasurement, Proceed, pollVars
<1>12. CASE ServerInit
  BY <1>12 DEF ServerInit, pollVars
<1>13. CASE DispatchWork
  BY <1>13 DEF DispatchWork, ApplyLatestMeasurement
<1>14. CASE Poll
  BY <1>14 DEF Poll, clusterVars
<1>15. CASE UNCHANGED vars
  BY <1>15 DEF vars
<1>16. QED
  BY <1>1, <1>2, <1>3, <1>4, <1>5, <1>6, <1>7, <1>8, <1>9, <1>10, <1>11, <1>12, <1>13,
     <1>14, <1>15
  DEF Next, MainStep

LEMMA StartupInvariant == Spec => []StartupInv
BY StartupInit, StartupStep, PTL DEF Spec

\* The comment above ClusterInit, for every interleaving: emberAfContainsServer
\* is never asked before Server::Init has filled the endpoint table.
THEOREM StartupNeverAsserts == Spec => []NoAssertFires
BY StartupInvariant, PTL DEF StartupInv

\* No thread applies a measurement to a cluster that ClusterInit has not
\* initialised, also after ClusterInit returned false.
THEOREM StartupWritesReadyOnly == Spec => []OnlyReadyIsWritten
BY StartupInvariant, PTL DEF StartupInv

-----------------------------------------------------------------------------
(* The whole node.                                                         *)

\* The node's data model adds nothing to the order of startup: everything
\* proved of startup holds while Server::Init lays the tables out, while
\* readings are written and while clients ask.
THEOREM NodeImplementsStartup == NodeSpec => Spec
<1>1. NodeInit => Init
  BY DEF NodeInit
<1>2. [NodeNext]_nodeVars => [Next]_vars
  BY DEF NodeNext, nodeVars, LoadsStore, StartsCluster, ServerReady, ThreadStep,
         AttributesChange, ClientStep, Next
<1> QED BY <1>1, <1>2, PTL DEF NodeSpec, Spec

-----------------------------------------------------------------------------
(* The clients' requests.                                                  *)

LEMMA OneReply ==
    ASSUME NEW status
    PROVE  /\ Append(<<>>, status) = <<status>>
           /\ <<>> \o <<status>> = <<status>> /\ <<status>> \o <<>> = <<status>>
           /\ Len(<<status>>) = 1
OBVIOUS

LEMMA ReplyOnce ==
    ASSUME RepliedOnce, stage \in {"received", "checked", "allowed"},
           NEW status, Reply(status)
    PROVE  RepliedOnce'
<1>1. replies = <<>>
  BY DEF RepliedOnce
<1>2. replies' = <<status>>
  BY <1>1, OneReply DEF Reply
<1>3. stage' = "done" /\ Len(replies') = 1
  BY <1>2, OneReply DEF Reply
<1> QED BY <1>3 DEF RepliedOnce

-----------------------------------------------------------------------------
(* What the generated tables say, row by row.                              *)

\* A sequence of n elements of S, a part it has from a place on, and two joined.
Laid(s, S, n) == s \in Seq(S) /\ Len(s) = n
At(s, m, part) ==
    /\ m \in Nat /\ Len(part) \in Nat /\ m + Len(part) <= Len(s)
    /\ \A i \in 1 .. Len(part) : s[m + i] = part[i]
Joins(u, s, t) == u = s \o t

\* A part of a part is a part.
LEMMA Within ==
    ASSUME NEW t, NEW j, NEW s, At(t, j, s), NEW m, NEW part, At(s, m, part)
    PROVE  At(t, j + m, part)
<1>1. /\ j \in Nat /\ m \in Nat /\ Len(part) \in Nat
      /\ m + Len(part) <= Len(s) /\ j + Len(s) <= Len(t) /\ Len(s) \in Nat
  BY DEF At
<1>2. ASSUME NEW i \in 1 .. Len(part) PROVE t[j + m + i] = part[i]
  <2>1. m + i \in 1 .. Len(s) /\ s[m + i] = part[i]
    BY <1>1 DEF At
  <2>2. t[j + (m + i)] = s[m + i]
    BY <2>1 DEF At
  <2> QED BY <1>1, <2>1, <2>2
<1>3. j + m \in Nat /\ j + m + Len(part) <= Len(t)
  BY <1>1
<1> QED BY <1>1, <1>2, <1>3 DEF At

\* What is joined keeps its parts: the first's at their places, the second after it.
LEMMA Joined ==
    ASSUME NEW S, NEW s, NEW t, NEW u, NEW n \in Nat, NEW m \in Nat,
           Laid(s, S, n), Laid(t, S, m), Joins(u, s, t)
    PROVE  /\ Laid(u, S, n + m)
           /\ At(u, 0, s) /\ At(u, n, t)
           /\ \A k, part : At(s, k, part) => At(u, k, part)
<1>1. s \in Seq(S) /\ t \in Seq(S) /\ Len(s) = n /\ Len(t) = m
  BY DEF Laid
<1>2. s \o t \in Seq(S) /\ Len(s \o t) = n + m
  BY <1>1
<1>3. \A i \in 1 .. n : (s \o t)[0 + i] = s[i]
  BY <1>1
<1>4. \A i \in 1 .. m : (s \o t)[n + i] = t[i]
  BY <1>1
<1>5. Laid(u, S, n + m) /\ At(u, 0, s) /\ At(u, n, t)
  BY <1>1, <1>2, <1>3, <1>4 DEF Laid, At, Joins
<1>6. ASSUME NEW k, NEW part, At(s, k, part) PROVE At(u, k, part)
  <2>1. At(u, 0 + k, part)
    BY <1>5, <1>6, Within
  <2>2. k \in Nat
    BY <1>6 DEF At
  <2> QED BY <2>1, <2>2
<1> QED BY <1>5, <1>6

\* The fields of a cluster's entry.  Only the OTA provider is a client.
Entry(k, id, first, count, bytes, accepted) ==
    /\ Clusters[k].id = id /\ Clusters[k].first = first /\ Clusters[k].count = count
    /\ Clusters[k].bytes = bytes /\ Clusters[k].accepted = accepted
    /\ Clusters[k].server <=> id # OtaProvider

LEMMA EntriesLaidOut ==
    /\ Len(Clusters) = 23
    /\ At(Clusters, 0, RootClusters)
    /\ At(Clusters, 11, AirQualityClusters)
    /\ At(Clusters, 20, TemperatureClusters)
<1> DEFINE two == RootClusters \o AirQualityClusters
           S == Range(RootClusters) \cup Range(AirQualityClusters) \cup Range(TemperatureClusters)
<1>1. /\ Laid(RootClusters, S, 11) /\ Laid(AirQualityClusters, S, 9)
      /\ Laid(TemperatureClusters, S, 3)
  BY DEF RootClusters, AirQualityClusters, TemperatureClusters, Range, Laid
<1>2. Joins(two, RootClusters, AirQualityClusters) /\ Joins(Clusters, two, TemperatureClusters)
  BY DEF Clusters, Joins
<1> HIDE DEF two, S
<1>3. Laid(two, S, 20) /\ At(two, 0, RootClusters) /\ At(two, 11, AirQualityClusters)
  BY <1>1, <1>2, Joined
<1>4. /\ Laid(Clusters, S, 23) /\ At(Clusters, 20, TemperatureClusters)
      /\ At(Clusters, 0, RootClusters) /\ At(Clusters, 11, AirQualityClusters)
  BY <1>1, <1>2, <1>3, Joined
<1> QED BY <1>4 DEF Laid

\* The ids of the clusters, in order: no two are the same.
LEMMA ClusterIdsDiffer ==
    /\ Identify \in Int /\ Descriptor \in Int /\ AccessControl \in Int
    /\ BasicInformation \in Int /\ OtaProvider \in Int /\ OtaRequestor \in Int
    /\ GeneralCommissioning \in Int /\ NetworkCommissioning \in Int /\ GeneralDiagnostics \in Int
    /\ AdministratorCommissioning \in Int /\ OperationalCredentials \in Int /\ GroupKeyManagement \in Int
    /\ AirQuality \in Int /\ TemperatureMeasurement \in Int /\ RelativeHumidityMeasurement \in Int
    /\ CarbonDioxide \in Int /\ Pm25 \in Int /\ Pm1 \in Int
    /\ Pm10 \in Int
    /\ Identify < Descriptor
    /\ Descriptor < AccessControl
    /\ AccessControl < BasicInformation
    /\ BasicInformation < OtaProvider
    /\ OtaProvider < OtaRequestor
    /\ OtaRequestor < GeneralCommissioning
    /\ GeneralCommissioning < NetworkCommissioning
    /\ NetworkCommissioning < GeneralDiagnostics
    /\ GeneralDiagnostics < AdministratorCommissioning
    /\ AdministratorCommissioning < OperationalCredentials
    /\ OperationalCredentials < GroupKeyManagement
    /\ GroupKeyManagement < AirQuality
    /\ AirQuality < TemperatureMeasurement
    /\ TemperatureMeasurement < RelativeHumidityMeasurement
    /\ RelativeHumidityMeasurement < CarbonDioxide
    /\ CarbonDioxide < Pm25
    /\ Pm25 < Pm1
    /\ Pm1 < Pm10
BY SMT DEF Identify, Descriptor, AccessControl, BasicInformation, OtaProvider, OtaRequestor,
       GeneralCommissioning, NetworkCommissioning, GeneralDiagnostics,
       AdministratorCommissioning, OperationalCredentials, GroupKeyManagement, AirQuality,
       TemperatureMeasurement, RelativeHumidityMeasurement, CarbonDioxide, Pm25, Pm1, Pm10

LEMMA EntryFields ==
    ASSUME NEW k, NEW id, NEW first, NEW count, NEW bytes, NEW accepted, NEW generated,
           Clusters[k] = Cluster(id, first, count, bytes, accepted, generated),
           id # OtaProvider
    PROVE  Entry(k, id, first, count, bytes, accepted)
BY DEF Entry, Cluster

\* What the generated table says of every cluster.
LEMMA ClusterTable ==
    /\ Len(Clusters) = 23
    /\ Entry(1, Descriptor, 0, 6, 0, NoCommands)
    /\ Entry(2, AccessControl, 6, 7, 0, NoCommands)
    /\ Entry(3, BasicInformation, 13, 20, 0, NoCommands)
    /\ Entry(4, OtaProvider, 33, 0, 0, NoCommands)
    /\ Entry(5, OtaRequestor, 33, 6, 9, 0)
    /\ Entry(6, GeneralCommissioning, 39, 7, 0, 2)
    /\ Entry(7, NetworkCommissioning, 46, 13, 0, 10)
    /\ Entry(8, GeneralDiagnostics, 59, 8, 0, 21)
    /\ Entry(9, AdministratorCommissioning, 67, 5, 4, 26)
    /\ Entry(10, OperationalCredentials, 72, 8, 0, 30)
    /\ Entry(11, GroupKeyManagement, 80, 6, 0, 47)
    /\ Entry(12, Identify, 86, 4, 0, 55)
    /\ Entry(13, Descriptor, 90, 6, 0, NoCommands)
    /\ Entry(14, AirQuality, 96, 3, 2, NoCommands)
    /\ Entry(15, TemperatureMeasurement, 99, 5, 12, NoCommands)
    /\ Entry(16, RelativeHumidityMeasurement, 104, 5, 12, NoCommands)
    /\ Entry(17, CarbonDioxide, 109, 7, 2, NoCommands)
    /\ Entry(18, Pm25, 116, 7, 2, NoCommands)
    /\ Entry(19, Pm1, 123, 7, 2, NoCommands)
    /\ Entry(20, Pm10, 130, 7, 2, NoCommands)
    /\ Entry(21, Identify, 137, 4, 0, 57)
    /\ Entry(22, Descriptor, 141, 6, 0, NoCommands)
    /\ Entry(23, TemperatureMeasurement, 147, 5, 8, NoCommands)
<1>1. /\ Clusters[1] = RootClusters[1] /\ Clusters[2] = RootClusters[2]
      /\ Clusters[3] = RootClusters[3] /\ Clusters[4] = RootClusters[4]
      /\ Clusters[5] = RootClusters[5] /\ Clusters[6] = RootClusters[6]
      /\ Clusters[7] = RootClusters[7] /\ Clusters[8] = RootClusters[8]
      /\ Clusters[9] = RootClusters[9] /\ Clusters[10] = RootClusters[10]
      /\ Clusters[11] = RootClusters[11]
  <2>1. Len(RootClusters) = 11
    BY DEF RootClusters
  <2> QED BY <2>1, EntriesLaidOut DEF At
<1>2. /\ Clusters[12] = AirQualityClusters[1] /\ Clusters[13] = AirQualityClusters[2]
      /\ Clusters[14] = AirQualityClusters[3] /\ Clusters[15] = AirQualityClusters[4]
      /\ Clusters[16] = AirQualityClusters[5] /\ Clusters[17] = AirQualityClusters[6]
      /\ Clusters[18] = AirQualityClusters[7] /\ Clusters[19] = AirQualityClusters[8]
      /\ Clusters[20] = AirQualityClusters[9]
  <2>1. Len(AirQualityClusters) = 9
    BY DEF AirQualityClusters
  <2> QED BY <2>1, EntriesLaidOut DEF At
<1>3. /\ Clusters[21] = TemperatureClusters[1] /\ Clusters[22] = TemperatureClusters[2]
      /\ Clusters[23] = TemperatureClusters[3]
  <2>1. Len(TemperatureClusters) = 3
    BY DEF TemperatureClusters
  <2> QED BY <2>1, EntriesLaidOut DEF At
<1>4. /\ Clusters[1] = Cluster(Descriptor, 0, 6, 0, NoCommands, NoCommands)
      /\ Clusters[2] = Cluster(AccessControl, 6, 7, 0, NoCommands, NoCommands)
      /\ Clusters[3] = Cluster(BasicInformation, 13, 20, 0, NoCommands, NoCommands)
      /\ Clusters[5] = Cluster(OtaRequestor, 33, 6, 9, 0, NoCommands)
      /\ Clusters[6] = Cluster(GeneralCommissioning, 39, 7, 0, 2, 6)
      /\ Clusters[7] = Cluster(NetworkCommissioning, 46, 13, 0, 10, 17)
      /\ Clusters[8] = Cluster(GeneralDiagnostics, 59, 8, 0, 21, 24)
      /\ Clusters[9] = Cluster(AdministratorCommissioning, 67, 5, 4, 26, NoCommands)
      /\ Clusters[10] = Cluster(OperationalCredentials, 72, 8, 0, 30, 41)
      /\ Clusters[11] = Cluster(GroupKeyManagement, 80, 6, 0, 47, 52)
  BY <1>1 DEF RootClusters, Passive
<1>5. /\ Clusters[12] = Cluster(Identify, 86, 4, 0, 55, NoCommands)
      /\ Clusters[13] = Cluster(Descriptor, 90, 6, 0, NoCommands, NoCommands)
      /\ Clusters[14] = Cluster(AirQuality, 96, 3, 2, NoCommands, NoCommands)
      /\ Clusters[15] = Cluster(TemperatureMeasurement, 99, 5, 12, NoCommands, NoCommands)
      /\ Clusters[16] = Cluster(RelativeHumidityMeasurement, 104, 5, 12, NoCommands, NoCommands)
      /\ Clusters[17] = Cluster(CarbonDioxide, 109, 7, 2, NoCommands, NoCommands)
      /\ Clusters[18] = Cluster(Pm25, 116, 7, 2, NoCommands, NoCommands)
      /\ Clusters[19] = Cluster(Pm1, 123, 7, 2, NoCommands, NoCommands)
      /\ Clusters[20] = Cluster(Pm10, 130, 7, 2, NoCommands, NoCommands)
  BY <1>2 DEF AirQualityClusters, Passive
<1>6. /\ Clusters[21] = Cluster(Identify, 137, 4, 0, 57, NoCommands)
      /\ Clusters[22] = Cluster(Descriptor, 141, 6, 0, NoCommands, NoCommands)
      /\ Clusters[23] = Cluster(TemperatureMeasurement, 147, 5, 8, NoCommands, NoCommands)
  BY <1>3 DEF TemperatureClusters, Passive
<1>7. Entry(4, OtaProvider, 33, 0, 0, NoCommands)
  BY <1>1 DEF RootClusters, Entry, Client, Passive, Cluster
<1>8. \A id \in {Descriptor, AccessControl, BasicInformation, OtaRequestor, GeneralCommissioning,
              NetworkCommissioning, GeneralDiagnostics, AdministratorCommissioning,
              OperationalCredentials, GroupKeyManagement, Identify, AirQuality,
              TemperatureMeasurement, RelativeHumidityMeasurement, CarbonDioxide, Pm25,
              Pm1, Pm10} :
         id # OtaProvider
  BY ClusterIdsDiffer
<1> QED BY <1>4, <1>5, <1>6, <1>7, <1>8, EntryFields, EntriesLaidOut

\* The rows of the attribute table: with their sizes and flags.
Flags == {{}, {"writable"}, {"nullable"}, {"nullable", "startsNull"}}
Row == [id : Nat, bytes : 0 .. 4, flags : Flags]

LEMMA ClusterRows ==
    /\ Laid(DescriptorRows, Row, 6) /\ Laid(AccessControlRows, Row, 7)
    /\ Laid(BasicInformationRows, Row, 20) /\ Laid(OtaRequestorRows, Row, 6)
    /\ Laid(GeneralCommissioningRows, Row, 7) /\ Laid(NetworkCommissioningRows, Row, 13)
    /\ Laid(GeneralDiagnosticsRows, Row, 8) /\ Laid(AdministratorCommissioningRows, Row, 5)
    /\ Laid(OperationalCredentialsRows, Row, 8) /\ Laid(GroupKeyManagementRows, Row, 6)
    /\ Laid(IdentifyRows, Row, 4) /\ Laid(AirQualityClusterRows, Row, 3)
    /\ Laid(MeasurementRows, Row, 5) /\ Laid(ConcentrationRows, Row, 7)
    /\ Laid(TemperatureClusterRows, Row, 5)
<1> USE DEF Laid, Row, Flags, Rows, External, ExternalWritable, ExternalNullable, Stored,
        StoredNull, Globals, FeatureMap, ClusterRevision
<1>1. Laid(DescriptorRows, Row, 6) /\ Laid(AccessControlRows, Row, 7)
  BY DEF DescriptorRows, AccessControlRows
<1>2. Laid(BasicInformationRows, Row, 20) /\ Laid(OtaRequestorRows, Row, 6)
  BY DEF BasicInformationRows, OtaRequestorRows
<1>3. Laid(GeneralCommissioningRows, Row, 7) /\ Laid(NetworkCommissioningRows, Row, 13)
  BY DEF GeneralCommissioningRows, NetworkCommissioningRows
<1>4. Laid(GeneralDiagnosticsRows, Row, 8) /\ Laid(AdministratorCommissioningRows, Row, 5)
  BY DEF GeneralDiagnosticsRows, AdministratorCommissioningRows
<1>5. Laid(OperationalCredentialsRows, Row, 8) /\ Laid(GroupKeyManagementRows, Row, 6)
  BY DEF OperationalCredentialsRows, GroupKeyManagementRows
<1>6. Laid(IdentifyRows, Row, 4) /\ Laid(AirQualityClusterRows, Row, 3)
  BY DEF IdentifyRows, AirQualityClusterRows
<1>7. Laid(MeasurementRows, Row, 5) /\ Laid(ConcentrationRows, Row, 7)
  BY DEF MeasurementRows, ConcentrationRows
<1>8. Laid(TemperatureClusterRows, Row, 5)
  BY DEF TemperatureClusterRows
<1> QED BY <1>1, <1>2, <1>3, <1>4, <1>5, <1>6, <1>7, <1>8

\* Where an endpoint's rows have those of its clusters.
LEMMA RootRowsLaidOut ==
    /\ Laid(RootRows, Row, 86)
    /\ At(RootRows, 0, DescriptorRows)
    /\ At(RootRows, 6, AccessControlRows)
    /\ At(RootRows, 13, BasicInformationRows)
    /\ At(RootRows, 33, OtaRequestorRows)
    /\ At(RootRows, 39, GeneralCommissioningRows)
    /\ At(RootRows, 46, NetworkCommissioningRows)
    /\ At(RootRows, 59, GeneralDiagnosticsRows)
    /\ At(RootRows, 67, AdministratorCommissioningRows)
    /\ At(RootRows, 72, OperationalCredentialsRows)
    /\ At(RootRows, 80, GroupKeyManagementRows)
<1> DEFINE s2 == DescriptorRows \o AccessControlRows
           s3 == s2 \o BasicInformationRows
           s4 == s3 \o OtaRequestorRows
           s5 == s4 \o GeneralCommissioningRows
           s6 == s5 \o NetworkCommissioningRows
           s7 == s6 \o GeneralDiagnosticsRows
           s8 == s7 \o AdministratorCommissioningRows
           s9 == s8 \o OperationalCredentialsRows
<1>1. /\ Joins(s2, DescriptorRows, AccessControlRows)
      /\ Joins(s3, s2, BasicInformationRows)
      /\ Joins(s4, s3, OtaRequestorRows)
      /\ Joins(s5, s4, GeneralCommissioningRows)
      /\ Joins(s6, s5, NetworkCommissioningRows)
      /\ Joins(s7, s6, GeneralDiagnosticsRows)
      /\ Joins(s8, s7, AdministratorCommissioningRows)
      /\ Joins(s9, s8, OperationalCredentialsRows)
      /\ Joins(RootRows, s9, GroupKeyManagementRows)
  BY DEF Joins, RootRows
<1> HIDE DEF s2, s3, s4, s5, s6, s7, s8, s9
<1>2. /\ Laid(s2, Row, 13) /\ At(s2, 6, AccessControlRows)
      /\ At(s2, 0, DescriptorRows)
  BY <1>1, ClusterRows, Joined
<1>3. /\ Laid(s3, Row, 33) /\ At(s3, 13, BasicInformationRows)
      /\ \A k, part : At(s2, k, part) => At(s3, k, part)
  BY <1>1, <1>2, ClusterRows, Joined
<1>4. /\ Laid(s4, Row, 39) /\ At(s4, 33, OtaRequestorRows)
      /\ \A k, part : At(s3, k, part) => At(s4, k, part)
  BY <1>1, <1>3, ClusterRows, Joined
<1>5. /\ Laid(s5, Row, 46) /\ At(s5, 39, GeneralCommissioningRows)
      /\ \A k, part : At(s4, k, part) => At(s5, k, part)
  BY <1>1, <1>4, ClusterRows, Joined
<1>6. /\ Laid(s6, Row, 59) /\ At(s6, 46, NetworkCommissioningRows)
      /\ \A k, part : At(s5, k, part) => At(s6, k, part)
  BY <1>1, <1>5, ClusterRows, Joined
<1>7. /\ Laid(s7, Row, 67) /\ At(s7, 59, GeneralDiagnosticsRows)
      /\ \A k, part : At(s6, k, part) => At(s7, k, part)
  BY <1>1, <1>6, ClusterRows, Joined
<1>8. /\ Laid(s8, Row, 72) /\ At(s8, 67, AdministratorCommissioningRows)
      /\ \A k, part : At(s7, k, part) => At(s8, k, part)
  BY <1>1, <1>7, ClusterRows, Joined
<1>9. /\ Laid(s9, Row, 80) /\ At(s9, 72, OperationalCredentialsRows)
      /\ \A k, part : At(s8, k, part) => At(s9, k, part)
  BY <1>1, <1>8, ClusterRows, Joined
<1>10. /\ Laid(RootRows, Row, 86) /\ At(RootRows, 80, GroupKeyManagementRows)
      /\ \A k, part : At(s9, k, part) => At(RootRows, k, part)
  BY <1>1, <1>9, ClusterRows, Joined
<1> QED
  BY <1>2, <1>3, <1>4, <1>5, <1>6, <1>7, <1>8, <1>9, <1>10

LEMMA AirQualityRowsLaidOut ==
    /\ Laid(AirQualityRows, Row, 51)
    /\ At(AirQualityRows, 0, IdentifyRows)
    /\ At(AirQualityRows, 4, DescriptorRows)
    /\ At(AirQualityRows, 10, AirQualityClusterRows)
    /\ At(AirQualityRows, 13, MeasurementRows)
    /\ At(AirQualityRows, 18, MeasurementRows)
    /\ At(AirQualityRows, 23, ConcentrationRows)
    /\ At(AirQualityRows, 30, ConcentrationRows)
    /\ At(AirQualityRows, 37, ConcentrationRows)
    /\ At(AirQualityRows, 44, ConcentrationRows)
<1> DEFINE s2 == IdentifyRows \o DescriptorRows
           s3 == s2 \o AirQualityClusterRows
           s4 == s3 \o MeasurementRows
           s5 == s4 \o MeasurementRows
           s6 == s5 \o ConcentrationRows
           s7 == s6 \o ConcentrationRows
           s8 == s7 \o ConcentrationRows
<1>1. /\ Joins(s2, IdentifyRows, DescriptorRows)
      /\ Joins(s3, s2, AirQualityClusterRows)
      /\ Joins(s4, s3, MeasurementRows)
      /\ Joins(s5, s4, MeasurementRows)
      /\ Joins(s6, s5, ConcentrationRows)
      /\ Joins(s7, s6, ConcentrationRows)
      /\ Joins(s8, s7, ConcentrationRows)
      /\ Joins(AirQualityRows, s8, ConcentrationRows)
  BY DEF Joins, AirQualityRows
<1> HIDE DEF s2, s3, s4, s5, s6, s7, s8
<1>2. /\ Laid(s2, Row, 10) /\ At(s2, 4, DescriptorRows)
      /\ At(s2, 0, IdentifyRows)
  BY <1>1, ClusterRows, Joined
<1>3. /\ Laid(s3, Row, 13) /\ At(s3, 10, AirQualityClusterRows)
      /\ \A k, part : At(s2, k, part) => At(s3, k, part)
  BY <1>1, <1>2, ClusterRows, Joined
<1>4. /\ Laid(s4, Row, 18) /\ At(s4, 13, MeasurementRows)
      /\ \A k, part : At(s3, k, part) => At(s4, k, part)
  BY <1>1, <1>3, ClusterRows, Joined
<1>5. /\ Laid(s5, Row, 23) /\ At(s5, 18, MeasurementRows)
      /\ \A k, part : At(s4, k, part) => At(s5, k, part)
  BY <1>1, <1>4, ClusterRows, Joined
<1>6. /\ Laid(s6, Row, 30) /\ At(s6, 23, ConcentrationRows)
      /\ \A k, part : At(s5, k, part) => At(s6, k, part)
  BY <1>1, <1>5, ClusterRows, Joined
<1>7. /\ Laid(s7, Row, 37) /\ At(s7, 30, ConcentrationRows)
      /\ \A k, part : At(s6, k, part) => At(s7, k, part)
  BY <1>1, <1>6, ClusterRows, Joined
<1>8. /\ Laid(s8, Row, 44) /\ At(s8, 37, ConcentrationRows)
      /\ \A k, part : At(s7, k, part) => At(s8, k, part)
  BY <1>1, <1>7, ClusterRows, Joined
<1>9. /\ Laid(AirQualityRows, Row, 51) /\ At(AirQualityRows, 44, ConcentrationRows)
      /\ \A k, part : At(s8, k, part) => At(AirQualityRows, k, part)
  BY <1>1, <1>8, ClusterRows, Joined
<1> QED
  BY <1>2, <1>3, <1>4, <1>5, <1>6, <1>7, <1>8, <1>9

LEMMA TemperatureRowsLaidOut ==
    /\ Laid(TemperatureRows, Row, 15)
    /\ At(TemperatureRows, 0, IdentifyRows)
    /\ At(TemperatureRows, 4, DescriptorRows)
    /\ At(TemperatureRows, 10, TemperatureClusterRows)
<1> DEFINE s2 == IdentifyRows \o DescriptorRows
<1>1. /\ Joins(s2, IdentifyRows, DescriptorRows)
      /\ Joins(TemperatureRows, s2, TemperatureClusterRows)
  BY DEF Joins, TemperatureRows
<1> HIDE DEF s2
<1>2. /\ Laid(s2, Row, 10) /\ At(s2, 4, DescriptorRows)
      /\ At(s2, 0, IdentifyRows)
  BY <1>1, ClusterRows, Joined
<1>3. /\ Laid(TemperatureRows, Row, 15) /\ At(TemperatureRows, 10, TemperatureClusterRows)
      /\ \A k, part : At(s2, k, part) => At(TemperatureRows, k, part)
  BY <1>1, <1>2, ClusterRows, Joined
<1> QED
  BY <1>2, <1>3

\* Where the table has the rows of each cluster.
LEMMA RowsLaidOut ==
    /\ Laid(Attributes, Row, 152)
    /\ At(Attributes, 0, DescriptorRows)
    /\ At(Attributes, 6, AccessControlRows)
    /\ At(Attributes, 13, BasicInformationRows)
    /\ At(Attributes, 33, OtaRequestorRows)
    /\ At(Attributes, 39, GeneralCommissioningRows)
    /\ At(Attributes, 46, NetworkCommissioningRows)
    /\ At(Attributes, 59, GeneralDiagnosticsRows)
    /\ At(Attributes, 67, AdministratorCommissioningRows)
    /\ At(Attributes, 72, OperationalCredentialsRows)
    /\ At(Attributes, 80, GroupKeyManagementRows)
    /\ At(Attributes, 86, IdentifyRows)
    /\ At(Attributes, 90, DescriptorRows)
    /\ At(Attributes, 96, AirQualityClusterRows)
    /\ At(Attributes, 99, MeasurementRows)
    /\ At(Attributes, 104, MeasurementRows)
    /\ At(Attributes, 109, ConcentrationRows)
    /\ At(Attributes, 116, ConcentrationRows)
    /\ At(Attributes, 123, ConcentrationRows)
    /\ At(Attributes, 130, ConcentrationRows)
    /\ At(Attributes, 137, IdentifyRows)
    /\ At(Attributes, 141, DescriptorRows)
    /\ At(Attributes, 147, TemperatureClusterRows)
<1> DEFINE two == RootRows \o AirQualityRows
<1>1. Joins(two, RootRows, AirQualityRows) /\ Joins(Attributes, two, TemperatureRows)
  BY DEF Joins, Attributes
<1> HIDE DEF two
<1>2. /\ Laid(two, Row, 137) /\ At(two, 86, AirQualityRows)
      /\ \A k, part : At(RootRows, k, part) => At(two, k, part)
  BY <1>1, RootRowsLaidOut, AirQualityRowsLaidOut, Joined
<1>3. /\ Laid(Attributes, Row, 152) /\ At(Attributes, 137, TemperatureRows)
      /\ \A k, part : At(two, k, part) => At(Attributes, k, part)
  BY <1>1, <1>2, TemperatureRowsLaidOut, Joined
<1>4. /\ \A k, part : At(RootRows, k, part) => At(Attributes, k, part)
      /\ \A k, part : At(AirQualityRows, k, part) => At(Attributes, 86 + k, part)
      /\ \A k, part : At(TemperatureRows, k, part) => At(Attributes, 137 + k, part)
  BY <1>2, <1>3, Within
<1>5. /\ At(Attributes, 0, DescriptorRows)
      /\ At(Attributes, 6, AccessControlRows)
      /\ At(Attributes, 13, BasicInformationRows)
      /\ At(Attributes, 33, OtaRequestorRows)
      /\ At(Attributes, 39, GeneralCommissioningRows)
      /\ At(Attributes, 46, NetworkCommissioningRows)
      /\ At(Attributes, 59, GeneralDiagnosticsRows)
      /\ At(Attributes, 67, AdministratorCommissioningRows)
      /\ At(Attributes, 72, OperationalCredentialsRows)
      /\ At(Attributes, 80, GroupKeyManagementRows)
  BY <1>4, RootRowsLaidOut
<1>6. /\ At(Attributes, 86, IdentifyRows)
      /\ At(Attributes, 90, DescriptorRows)
      /\ At(Attributes, 96, AirQualityClusterRows)
      /\ At(Attributes, 99, MeasurementRows)
      /\ At(Attributes, 104, MeasurementRows)
      /\ At(Attributes, 109, ConcentrationRows)
      /\ At(Attributes, 116, ConcentrationRows)
      /\ At(Attributes, 123, ConcentrationRows)
      /\ At(Attributes, 130, ConcentrationRows)
  BY <1>4, AirQualityRowsLaidOut
<1>7. /\ At(Attributes, 137, IdentifyRows)
      /\ At(Attributes, 141, DescriptorRows)
      /\ At(Attributes, 147, TemperatureClusterRows)
  BY <1>4, TemperatureRowsLaidOut
<1> QED BY <1>3, <1>5, <1>6, <1>7

\* The generated command lists, where they end and what they hold.
LEMMA CommandLists ==
    /\ Commands[1] = 0 /\ Commands[2] = EndOfList
    /\ Commands[3] = 0 /\ Commands[4] = 2 /\ Commands[5] = 4 /\ Commands[6] = EndOfList
    /\ Commands[11] = 0 /\ Commands[12] = 2 /\ Commands[13] = 3 /\ Commands[14] = 4
    /\ Commands[15] = 6 /\ Commands[16] = 8 /\ Commands[17] = EndOfList
    /\ Commands[22] = 0 /\ Commands[23] = 1 /\ Commands[24] = EndOfList
    /\ Commands[27] = 0 /\ Commands[28] = 1 /\ Commands[29] = 2 /\ Commands[30] = EndOfList
    /\ Commands[31] = 0 /\ Commands[32] = 2 /\ Commands[33] = 4 /\ Commands[34] = 6
    /\ Commands[35] = 7 /\ Commands[36] = 9 /\ Commands[37] = 10 /\ Commands[38] = 11
    /\ Commands[39] = 12 /\ Commands[40] = 13 /\ Commands[41] = EndOfList
    /\ Commands[48] = 0 /\ Commands[49] = 1 /\ Commands[50] = 3 /\ Commands[51] = 4
    /\ Commands[52] = EndOfList
    /\ Commands[56] = 0 /\ Commands[57] = EndOfList
    /\ Commands[58] = 0 /\ Commands[59] = 64 /\ Commands[60] = EndOfList
    /\ Len(Commands) = 60
BY SMT DEF Commands, List, EndOfList

\* A list holds only what is before its end.
LEMMA BeforeTheEnd ==
    ASSUME NEW index \in Nat, NEW end \in Nat, index < end, end <= 60,
           Commands[end] = EndOfList, NEW id \in CommandList(index)
    PROVE  \E i \in index + 1 .. end - 1 : id = Commands[i]
<1>1. Len(Commands) = 60
  BY CommandLists
<1>2. PICK j \in index + 1 .. 60 :
        id = Commands[j] /\ \A h \in index + 1 .. j : Commands[h] # EndOfList
  BY <1>1 DEF CommandList, NoCommands
<1>3. j < end
  BY <1>2
<1> QED BY <1>2, <1>3

LEMMA AcceptedLists ==
    /\ CommandList(0) \subseteq {0}
    /\ CommandList(2) \subseteq {0, 2, 4}
    /\ CommandList(10) \subseteq {0, 2, 3, 4, 6, 8}
    /\ CommandList(21) \subseteq {0, 1}
    /\ CommandList(26) \subseteq {0, 1, 2}
    /\ CommandList(30) \subseteq {0, 2, 4, 6, 7, 9, 10, 11, 12, 13}
    /\ CommandList(47) \subseteq {0, 1, 3, 4}
    /\ CommandList(55) \subseteq {0}
    /\ CommandList(57) \subseteq {0, 64}
<1> DEFINE Holds(index, end, ids) ==
             \A i \in index + 1 .. end - 1 : Commands[i] \in ids
<1>1. ASSUME NEW index \in Nat, NEW end \in Nat, index < end, end <= 60,
             Commands[end] = EndOfList, NEW ids, Holds(index, end, ids)
      PROVE  CommandList(index) \subseteq ids
  BY <1>1, BeforeTheEnd
<1>2. /\ Holds(0, 2, {0})
      /\ Holds(2, 6, {0, 2, 4})
      /\ Holds(10, 17, {0, 2, 3, 4, 6, 8})
      /\ Holds(21, 24, {0, 1})
      /\ Holds(26, 30, {0, 1, 2})
      /\ Holds(30, 41, {0, 2, 4, 6, 7, 9, 10, 11, 12, 13})
      /\ Holds(47, 52, {0, 1, 3, 4})
      /\ Holds(55, 57, {0})
      /\ Holds(57, 60, {0, 64})
  BY CommandLists
<1> HIDE DEF Holds
<1> QED BY <1>1, <1>2, CommandLists

\* The clusters that accept commands, and where their lists start.
LEMMA AcceptingClusters ==
    /\ Len(Clusters) = 23
    /\ \A k \in 1 .. 23 : Clusters[k].accepted # NoCommands =>
          /\ Clusters[k].server
          /\ \/ Clusters[k].id = OtaRequestor /\ Clusters[k].accepted = 0
             \/ Clusters[k].id = GeneralCommissioning /\ Clusters[k].accepted = 2
             \/ Clusters[k].id = NetworkCommissioning /\ Clusters[k].accepted = 10
             \/ Clusters[k].id = GeneralDiagnostics /\ Clusters[k].accepted = 21
             \/ Clusters[k].id = AdministratorCommissioning /\ Clusters[k].accepted = 26
             \/ Clusters[k].id = OperationalCredentials /\ Clusters[k].accepted = 30
             \/ Clusters[k].id = GroupKeyManagement /\ Clusters[k].accepted = 47
             \/ Clusters[k].id = Identify /\ Clusters[k].accepted \in {55, 57}
BY ClusterTable, ClusterIdsDiffer DEF Entry

\* Every command a cluster accepts is one its implementation carries out.
LEMMA AcceptedIsEnabled ==
    ASSUME NEW k \in 1 .. 23, NEW id \in CommandList(Clusters[k].accepted)
    PROVE  /\ Clusters[k].server
           /\ Clusters[k].id \in RunsInCode \cup {OtaRequestor, NetworkCommissioning}
           /\ id \in EnabledCommands(Clusters[k].id)
           /\ Clusters[k].id = OtaRequestor => id = 0
<1>1. Clusters[k].accepted # NoCommands
  BY DEF CommandList
<1>2. /\ EnabledCommands(OtaRequestor) = {0}
      /\ EnabledCommands(GeneralCommissioning) = {0, 2, 4}
      /\ EnabledCommands(NetworkCommissioning) = {0, 2, 3, 4, 6, 8}
      /\ EnabledCommands(GeneralDiagnostics) = {0, 1}
      /\ EnabledCommands(AdministratorCommissioning) = {0, 1, 2}
      /\ EnabledCommands(OperationalCredentials) = {0, 2, 4, 6, 7, 9, 10, 11, 12, 13}
      /\ EnabledCommands(GroupKeyManagement) = {0, 1, 3, 4}
      /\ EnabledCommands(Identify) = {0, 64}
  BY DEF EnabledCommands, OtaRequestor, GeneralCommissioning, NetworkCommissioning,
         GeneralDiagnostics, AdministratorCommissioning, OperationalCredentials,
         GroupKeyManagement, Identify
<1>3. /\ Clusters[k].server
      /\ id \in EnabledCommands(Clusters[k].id)
      /\ \/ Clusters[k].id \in RunsInCode
         \/ Clusters[k].id \in {OtaRequestor, NetworkCommissioning}
  BY <1>1, <1>2, AcceptingClusters, AcceptedLists DEF RunsInCode
<1>4. Clusters[k].id = OtaRequestor => id = 0
  BY <1>2, <1>3
<1> QED BY <1>3, <1>4

-----------------------------------------------------------------------------
(* Who may do what: the rule of a request, and the path it asks for.       *)

\* Where a rule of the generated tables matches a request, one of those that match
\* gives the privilege the request takes.
LEMMA RuleDecides ==
    ASSUME NEW r, NEW clusters, NEW ids, NEW privileges,
           Rules[r.kind] = <<clusters, ids, privileges>>,
           NEW i \in DOMAIN clusters \cap DOMAIN ids,
           clusters[i] = r.cluster, ids[i] = r.id
    PROVE  \E j \in DOMAIN clusters \cap DOMAIN ids :
              /\ clusters[j] = r.cluster /\ ids[j] = r.id
              /\ RequiredPrivilege(r) = privileges[j]
<1> DEFINE matching == {j \in DOMAIN clusters \cap DOMAIN ids :
                          clusters[j] = r.cluster /\ ids[j] = r.id}
           rule == CHOOSE j \in matching : TRUE
<1>1. i \in matching
  OBVIOUS
<1>2. rule \in matching
  BY <1>1
<1>3. Rules[r.kind][1] = clusters /\ Rules[r.kind][2] = ids /\ Rules[r.kind][3] = privileges
  OBVIOUS
<1>4. RequiredPrivilege(r) = privileges[rule]
  BY <1>1, <1>3 DEF RequiredPrivilege
<1> QED BY <1>2, <1>4

LEMMA RulesOfKinds ==
    /\ Rules["read"] = <<ReadClusters, ReadIds, ReadPrivileges>>
    /\ Rules["write"] = <<WriteClusters, WriteIds, WritePrivileges>>
    /\ Rules["invoke"] = <<InvokeClusters, InvokeIds, InvokePrivileges>>
    /\ Rules["event"] = <<EventClusters, EventIds, EventPrivileges>>
BY DEF Rules

LEMMA RuleCounts ==
    /\ DOMAIN ReadClusters = 1 .. 8 /\ DOMAIN ReadIds = 1 .. 8
    /\ DOMAIN WriteClusters = 1 .. 8 /\ DOMAIN WriteIds = 1 .. 8
    /\ DOMAIN InvokeClusters = 1 .. 30 /\ DOMAIN InvokeIds = 1 .. 30
    /\ DOMAIN EventClusters = 1 .. 3 /\ DOMAIN EventIds = 1 .. 3
BY DEF ReadClusters, ReadIds, WriteClusters, WriteIds, InvokeClusters, InvokeIds,
       EventClusters, EventIds, Repeat

\* The rules for reading and for events all ask for Administer, those for writing
\* for Manage at least, and those for commands for Administer unless they
\* belong to a cluster that does not configure the node.
LEMMA RulePrivileges ==
    /\ \A i \in 1 .. 8 : ReadPrivileges[i] = Administer
    /\ \A i \in 1 .. 3 : EventPrivileges[i] = Administer
    /\ \A i \in 1 .. 8 : WritePrivileges[i] \in {Manage, Administer}
    /\ \A i \in 1 .. 30 : InvokeClusters[i] \in ConfiguresNode =>
                             InvokePrivileges[i] = Administer
<1>1. /\ \A i \in 1 .. 8 : ReadPrivileges[i] = Administer
      /\ \A i \in 1 .. 3 : EventPrivileges[i] = Administer
      /\ \A i \in 1 .. 8 : WritePrivileges[i] \in {Manage, Administer}
  BY DEF ReadPrivileges, EventPrivileges, WritePrivileges, Repeat
<1>2. \A i \in 1 .. 30 : i \notin {1, 2, 13} => InvokePrivileges[i] = Administer
  BY DEF InvokePrivileges, Repeat
<1>3. /\ InvokeClusters[1] = Identify /\ InvokeClusters[2] = Identify
      /\ InvokeClusters[13] = GeneralDiagnostics
  BY DEF InvokeClusters, Repeat
<1>4. Identify \notin ConfiguresNode /\ GeneralDiagnostics \notin ConfiguresNode
  BY DEF ConfiguresNode, Identify, OtaRequestor, GeneralCommissioning, NetworkCommissioning,
         GeneralDiagnostics, AdministratorCommissioning, OperationalCredentials,
         GroupKeyManagement
<1> QED BY <1>1, <1>2, <1>3, <1>4

\* Every command of a cluster that configures the node has a rule.
LEMMA CommandsRuled ==
    ASSUME NEW cluster \in ConfiguresNode, NEW id \in EnabledCommands(cluster)
    PROVE  \E i \in 1 .. 30 : InvokeClusters[i] = cluster /\ InvokeIds[i] = id
<1>1. /\ EnabledCommands(OtaRequestor) = {0}
      /\ EnabledCommands(GeneralCommissioning) = {0, 2, 4}
      /\ EnabledCommands(NetworkCommissioning) = {0, 2, 3, 4, 6, 8}
      /\ EnabledCommands(AdministratorCommissioning) = {0, 1, 2}
      /\ EnabledCommands(OperationalCredentials) = {0, 2, 4, 6, 7, 9, 10, 11, 12, 13}
      /\ EnabledCommands(GroupKeyManagement) = {0, 1, 3, 4}
  BY DEF EnabledCommands, OtaRequestor, GeneralCommissioning, NetworkCommissioning,
         GeneralDiagnostics, AdministratorCommissioning, OperationalCredentials,
         GroupKeyManagement, Identify
<1>2. /\ InvokeClusters[3] = OtaRequestor
      /\ \A i \in 4 .. 6 : InvokeClusters[i] = GeneralCommissioning
      /\ \A i \in 7 .. 12 : InvokeClusters[i] = NetworkCommissioning
      /\ \A i \in 14 .. 16 : InvokeClusters[i] = AdministratorCommissioning
      /\ \A i \in 17 .. 26 : InvokeClusters[i] = OperationalCredentials
      /\ \A i \in 27 .. 30 : InvokeClusters[i] = GroupKeyManagement
  BY DEF InvokeClusters, Repeat
<1>3. /\ InvokeIds[3] = 0
      /\ InvokeIds[4] = 0 /\ InvokeIds[5] = 2 /\ InvokeIds[6] = 4
      /\ InvokeIds[7] = 0 /\ InvokeIds[8] = 2 /\ InvokeIds[9] = 3
      /\ InvokeIds[10] = 4 /\ InvokeIds[11] = 6 /\ InvokeIds[12] = 8
      /\ InvokeIds[14] = 0 /\ InvokeIds[15] = 1 /\ InvokeIds[16] = 2
      /\ InvokeIds[17] = 0 /\ InvokeIds[18] = 2 /\ InvokeIds[19] = 4 /\ InvokeIds[20] = 6
      /\ InvokeIds[21] = 7 /\ InvokeIds[22] = 9 /\ InvokeIds[23] = 10
      /\ InvokeIds[24] = 11 /\ InvokeIds[25] = 12 /\ InvokeIds[26] = 13
      /\ InvokeIds[27] = 0 /\ InvokeIds[28] = 1 /\ InvokeIds[29] = 3 /\ InvokeIds[30] = 4
  BY DEF InvokeIds
<1>4. CASE cluster = OtaRequestor
  BY <1>1, <1>2, <1>3, <1>4
<1>5. CASE cluster = GeneralCommissioning
  BY <1>1, <1>2, <1>3, <1>5
<1>6. CASE cluster = NetworkCommissioning
  BY <1>1, <1>2, <1>3, <1>6
<1>7. CASE cluster = AdministratorCommissioning
  BY <1>1, <1>2, <1>3, <1>7
<1>8. CASE cluster = OperationalCredentials
  BY <1>1, <1>2, <1>3, <1>8
<1>9. CASE cluster = GroupKeyManagement
  BY <1>1, <1>2, <1>3, <1>9
<1> QED BY <1>4, <1>5, <1>6, <1>7, <1>8, <1>9 DEF ConfiguresNode

\* A path the tables have leads to the server cluster it names, and to a command
\* the cluster accepts or an attribute it lets clients write.
LEMMA PathFound ==
    ASSUME NEW r, PathStatus(r) = "Success"
    PROVE  /\ Server(r) \in 1 .. 23
           /\ Clusters[Server(r)].server /\ Clusters[Server(r)].id = r.cluster
           /\ r.kind = "invoke" => r.id \in CommandList(Clusters[Server(r)].accepted)
           /\ r.kind = "write" =>
                \E a \in Indexed(Clusters[Server(r)]) :
                    Attributes[a].id = r.id /\ "writable" \in Attributes[a].flags
<1>1. r.ep \in Endpoints /\ ServersNamed(r.ep, r.cluster) # {}
  BY DEF PathStatus
<1>2. Server(r) \in ServersNamed(r.ep, r.cluster)
  BY <1>1 DEF Server
<1>3. /\ Server(r) \in ClustersOn(r.ep)
      /\ Clusters[Server(r)].server /\ Clusters[Server(r)].id = r.cluster
  BY <1>1, <1>2 DEF ServersNamed, ServersOn
<1>4. ClustersOn(r.ep) \subseteq 1 .. 23
  BY <1>1 DEF ClustersOn, Indexed, Endpoints, EndpointTypes
<1>5. ASSUME r.kind = "invoke"
      PROVE  r.id \in CommandList(Clusters[Server(r)].accepted)
  BY <1>1, <1>5 DEF PathStatus
<1>6. ASSUME r.kind = "write"
      PROVE  \E a \in Indexed(Clusters[Server(r)]) :
                Attributes[a].id = r.id /\ "writable" \in Attributes[a].flags
  <2> DEFINE named == AttributesNamed(Server(r), r.id)
  <2>1. \E b \in {Attributes[a] : a \in named} : "writable" \in b.flags
    BY <1>1, <1>6 DEF PathStatus
  <2>2. PICK a \in named : "writable" \in Attributes[a].flags
    BY <2>1
  <2> QED BY <2>2 DEF AttributesNamed
<1> QED BY <1>3, <1>4, <1>5, <1>6

\* Cluster k has some rows of the table where its index and its count say.
Has(k, rows) == Clusters[k].count = Len(rows) /\ At(Attributes, Clusters[k].first, rows)

LEMMA ClustersHaveRows ==
    /\ Has(1, DescriptorRows) /\ Has(2, AccessControlRows) /\ Has(3, BasicInformationRows)
    /\ Has(5, OtaRequestorRows) /\ Has(6, GeneralCommissioningRows)
    /\ Has(7, NetworkCommissioningRows) /\ Has(8, GeneralDiagnosticsRows)
    /\ Has(9, AdministratorCommissioningRows) /\ Has(10, OperationalCredentialsRows)
    /\ Has(11, GroupKeyManagementRows) /\ Has(12, IdentifyRows) /\ Has(13, DescriptorRows)
    /\ Has(14, AirQualityClusterRows) /\ Has(15, MeasurementRows) /\ Has(16, MeasurementRows)
    /\ Has(17, ConcentrationRows) /\ Has(18, ConcentrationRows) /\ Has(19, ConcentrationRows)
    /\ Has(20, ConcentrationRows) /\ Has(21, IdentifyRows) /\ Has(22, DescriptorRows)
    /\ Has(23, TemperatureClusterRows)
BY ClusterTable, ClusterRows, RowsLaidOut DEF Entry, Laid, Has

LEMMA RowOfCluster ==
    ASSUME NEW k, NEW rows, Has(k, rows), NEW a \in Indexed(Clusters[k])
    PROVE  /\ a - Clusters[k].first \in 1 .. Len(rows)
           /\ Attributes[a] = rows[a - Clusters[k].first]
<1>1. Clusters[k].first \in Nat /\ Clusters[k].count = Len(rows) /\ Len(rows) \in Nat
  BY DEF Has, At
<1>2. a - Clusters[k].first \in 1 .. Len(rows)
  BY <1>1 DEF Indexed
<1>3. a = Clusters[k].first + (a - Clusters[k].first)
  BY <1>1 DEF Indexed
<1> QED BY <1>2, <1>3 DEF Has, At

\* The ids of the rows a client may write.
Writes(rows, ids) ==
    \A i \in 1 .. Len(rows) : "writable" \in rows[i].flags => rows[i].id \in ids

LEMMA WritableRows ==
    /\ Writes(DescriptorRows, {}) /\ Writes(AccessControlRows, {0, 1})
    /\ Writes(BasicInformationRows, {5, 6}) /\ Writes(OtaRequestorRows, {0})
    /\ Writes(GeneralCommissioningRows, {0}) /\ Writes(NetworkCommissioningRows, {4})
    /\ Writes(GeneralDiagnosticsRows, {}) /\ Writes(AdministratorCommissioningRows, {})
    /\ Writes(OperationalCredentialsRows, {}) /\ Writes(GroupKeyManagementRows, {0})
    /\ Writes(AirQualityClusterRows, {}) /\ Writes(MeasurementRows, {})
    /\ Writes(ConcentrationRows, {}) /\ Writes(TemperatureClusterRows, {})
<1> USE DEF Writes, Rows, External, ExternalWritable, ExternalNullable, Stored, StoredNull,
        Globals
<1>1. Writes(DescriptorRows, {}) /\ Writes(AccessControlRows, {0, 1})
  BY DEF DescriptorRows, AccessControlRows
<1>2. Writes(BasicInformationRows, {5, 6}) /\ Writes(OtaRequestorRows, {0})
  BY DEF BasicInformationRows, OtaRequestorRows
<1>3. Writes(GeneralCommissioningRows, {0}) /\ Writes(NetworkCommissioningRows, {4})
  BY DEF GeneralCommissioningRows, NetworkCommissioningRows
<1>4. Writes(GeneralDiagnosticsRows, {}) /\ Writes(AdministratorCommissioningRows, {})
  BY DEF GeneralDiagnosticsRows, AdministratorCommissioningRows
<1>5. Writes(OperationalCredentialsRows, {}) /\ Writes(GroupKeyManagementRows, {0})
  BY DEF OperationalCredentialsRows, GroupKeyManagementRows
<1>6. /\ Writes(AirQualityClusterRows, {}) /\ Writes(MeasurementRows, {})
      /\ Writes(ConcentrationRows, {}) /\ Writes(TemperatureClusterRows, {})
  BY DEF AirQualityClusterRows, MeasurementRows, ConcentrationRows, TemperatureClusterRows
<1> QED BY <1>1, <1>2, <1>3, <1>4, <1>5, <1>6

LEMMA WrittenIds ==
    ASSUME NEW k, NEW rows, Has(k, rows), NEW ids, Writes(rows, ids),
           NEW a \in Indexed(Clusters[k]), "writable" \in Attributes[a].flags
    PROVE  Attributes[a].id \in ids
BY RowOfCluster DEF Writes

LEMMA WriteRules ==
    /\ WriteClusters[1] = AccessControl /\ WriteIds[1] = 0
    /\ WriteClusters[2] = AccessControl /\ WriteIds[2] = 1
    /\ WriteClusters[3] = BasicInformation /\ WriteIds[3] = 5
    /\ WriteClusters[4] = BasicInformation /\ WriteIds[4] = 6
    /\ WriteClusters[5] = OtaRequestor /\ WriteIds[5] = 0
    /\ WriteClusters[6] = GeneralCommissioning /\ WriteIds[6] = 0
    /\ WriteClusters[7] = NetworkCommissioning /\ WriteIds[7] = 4
    /\ WriteClusters[8] = GroupKeyManagement /\ WriteIds[8] = 0
BY DEF WriteClusters, WriteIds, Repeat

\* What can be written, outside the identify clusters, has a rule.
LEMMA WritesRuled ==
    ASSUME NEW k \in 1 .. 23, Clusters[k].id # Identify,
           NEW a \in Indexed(Clusters[k]), "writable" \in Attributes[a].flags
    PROVE  \E i \in 1 .. 8 :
              WriteClusters[i] = Clusters[k].id /\ WriteIds[i] = Attributes[a].id
<1> DEFINE id == Attributes[a].id
<1>1. k \notin {4, 12, 21}
  BY ClusterTable DEF Entry, Indexed
<1>2. k \notin {1, 8, 9, 10} \cup 13 .. 20 \cup {22, 23}
  BY WritableRows, ClustersHaveRows, WrittenIds
<1>3. CASE k = 2
  <2>1. id \in {0, 1} /\ Clusters[k].id = AccessControl
    BY <1>3, WritableRows, ClustersHaveRows, WrittenIds, ClusterTable DEF Entry
  <2> QED BY <2>1, WriteRules
<1>4. CASE k = 3
  <2>1. id \in {5, 6} /\ Clusters[k].id = BasicInformation
    BY <1>4, WritableRows, ClustersHaveRows, WrittenIds, ClusterTable DEF Entry
  <2> QED BY <2>1, WriteRules
<1>5. CASE k \in {5, 6, 11}
  <2>1. id = 0 /\ Clusters[k].id \in {OtaRequestor, GeneralCommissioning, GroupKeyManagement}
    BY <1>5, WritableRows, ClustersHaveRows, WrittenIds, ClusterTable DEF Entry
  <2> QED BY <2>1, WriteRules
<1>6. CASE k = 7
  <2>1. id = 4 /\ Clusters[k].id = NetworkCommissioning
    BY <1>6, WritableRows, ClustersHaveRows, WrittenIds, ClusterTable DEF Entry
  <2> QED BY <2>1, WriteRules
<1> QED BY <1>1, <1>2, <1>3, <1>4, <1>5, <1>6

LEMMA ReadRules ==
    /\ \E i \in 1 .. 8 : ReadClusters[i] = AccessControl /\ ReadIds[i] = 0
    /\ \E i \in 1 .. 8 : ReadClusters[i] = AccessControl /\ ReadIds[i] = 1
    /\ \E i \in 1 .. 8 : ReadClusters[i] = NetworkCommissioning /\ ReadIds[i] = 1
    /\ \E i \in 1 .. 8 : ReadClusters[i] = OperationalCredentials /\ ReadIds[i] = 0
    /\ \A id \in 0 .. 2 : \E i \in 1 .. 3 :
          EventClusters[i] = AccessControl /\ EventIds[i] = id
<1>1. /\ ReadClusters[1] = AccessControl /\ ReadClusters[2] = AccessControl
      /\ ReadClusters[4] = NetworkCommissioning /\ ReadClusters[8] = OperationalCredentials
      /\ ReadIds[1] = 0 /\ ReadIds[2] = 1 /\ ReadIds[4] = 1 /\ ReadIds[8] = 0
  BY DEF ReadClusters, ReadIds, Repeat
<1>2. /\ \A i \in 1 .. 3 : EventClusters[i] = AccessControl
      /\ EventIds[1] = 0 /\ EventIds[2] = 1 /\ EventIds[3] = 2
  BY DEF EventClusters, EventIds, Repeat
<1>3. \A id \in 0 .. 2 : \E i \in 1 .. 3 :
         EventClusters[i] = AccessControl /\ EventIds[i] = id
  BY <1>2
<1> QED BY <1>1, <1>3

-----------------------------------------------------------------------------
(* What access.h protects, of one request.                                 *)

Permitted(r) ==
    PathStatus(r) = "Success" /\ r.privilege >= RequiredPrivilege(r)

CommandGuarded(r) ==
    r.kind = "invoke" /\ r.cluster \in ConfiguresNode => r.privilege = Administer

ReadGuarded(r) ==
    /\ r.kind = "read" /\ r.cluster = AccessControl /\ r.id \in {0, 1} =>
           r.privilege = Administer
    /\ r.kind = "read" /\ r.cluster = NetworkCommissioning /\ r.id = 1 =>
           r.privilege = Administer
    /\ r.kind = "read" /\ r.cluster = OperationalCredentials /\ r.id = 0 =>
           r.privilege = Administer

EventGuarded(r) ==
    r.kind = "event" /\ r.cluster = AccessControl /\ r.id \in 0 .. 2 =>
        r.privilege = Administer

WriteGuarded(r) ==
    r.kind = "write" /\ r.cluster # Identify => r.privilege >= Manage

Guarded(r) == CommandGuarded(r) /\ ReadGuarded(r) /\ EventGuarded(r) /\ WriteGuarded(r)

LEMMA HighestPrivilege ==
    ASSUME NEW r \in Requests, r.privilege >= Administer
    PROVE  r.privilege = Administer
<1>1. r.privilege \in 1 .. 4
  BY DEF Requests, Privileges
<1> QED BY <1>1 DEF Administer

\* A command that configures the node is one its cluster accepts, so a rule of the
\* invoke arrays names it.
LEMMA CommandsAreGuarded ==
    ASSUME NEW r \in Requests, Permitted(r)
    PROVE  CommandGuarded(r)
<1> SUFFICES ASSUME r.kind = "invoke", r.cluster \in ConfiguresNode
             PROVE  r.privilege = Administer
  BY DEF CommandGuarded
<1>1. /\ Server(r) \in 1 .. 23 /\ Clusters[Server(r)].id = r.cluster
      /\ r.id \in CommandList(Clusters[Server(r)].accepted)
  BY PathFound DEF Permitted
<1>2. r.id \in EnabledCommands(r.cluster)
  BY <1>1, AcceptedIsEnabled
<1>3. PICK i \in 1 .. 30 : InvokeClusters[i] = r.cluster /\ InvokeIds[i] = r.id
  BY <1>2, CommandsRuled
<1>4. PICK j \in 1 .. 30 : /\ InvokeClusters[j] = r.cluster
                           /\ RequiredPrivilege(r) = InvokePrivileges[j]
  <2>1. /\ Rules[r.kind] = <<InvokeClusters, InvokeIds, InvokePrivileges>>
        /\ DOMAIN InvokeClusters \cap DOMAIN InvokeIds = 1 .. 30
    BY RulesOfKinds, RuleCounts
  <2>2. i \in DOMAIN InvokeClusters \cap DOMAIN InvokeIds
    BY <2>1
  <2>3. \E j \in DOMAIN InvokeClusters \cap DOMAIN InvokeIds :
           /\ InvokeClusters[j] = r.cluster
           /\ RequiredPrivilege(r) = InvokePrivileges[j]
    BY <1>3, <2>1, <2>2, RuleDecides
  <2> QED BY ONLY <2>1, <2>3
<1>5. RequiredPrivilege(r) = Administer
  BY <1>4, RulePrivileges
<1> QED BY <1>5, HighestPrivilege DEF Permitted

LEMMA ReadsAreGuarded ==
    ASSUME NEW r \in Requests, Permitted(r)
    PROVE  ReadGuarded(r)
<1>1. ASSUME r.kind = "read",
             \E i \in 1 .. 8 : ReadClusters[i] = r.cluster /\ ReadIds[i] = r.id
      PROVE  r.privilege = Administer
  <2>1. PICK i \in 1 .. 8 : ReadClusters[i] = r.cluster /\ ReadIds[i] = r.id
    BY <1>1
  <2>2. PICK j \in 1 .. 8 : RequiredPrivilege(r) = ReadPrivileges[j]
    BY <1>1, <2>1, RuleDecides, RulesOfKinds, RuleCounts
  <2>3. RequiredPrivilege(r) = Administer
    BY <2>2, RulePrivileges
  <2> QED BY <2>3, HighestPrivilege DEF Permitted
<1> QED BY <1>1, ReadRules DEF ReadGuarded

LEMMA EventsAreGuarded ==
    ASSUME NEW r \in Requests, Permitted(r)
    PROVE  EventGuarded(r)
<1> SUFFICES ASSUME r.kind = "event", r.cluster = AccessControl, r.id \in 0 .. 2
             PROVE  r.privilege = Administer
  BY DEF EventGuarded
<1>1. PICK i \in 1 .. 3 : EventClusters[i] = r.cluster /\ EventIds[i] = r.id
  BY ReadRules
<1>2. PICK j \in 1 .. 3 : RequiredPrivilege(r) = EventPrivileges[j]
  BY <1>1, RuleDecides, RulesOfKinds, RuleCounts
<1>3. RequiredPrivilege(r) = Administer
  BY <1>2, RulePrivileges
<1> QED BY <1>3, HighestPrivilege DEF Permitted

\* An attribute a client may write is one of eight, besides the identify time, and a
\* rule of the write arrays names each.
LEMMA WritesAreGuarded ==
    ASSUME NEW r \in Requests, Permitted(r)
    PROVE  WriteGuarded(r)
<1> SUFFICES ASSUME r.kind = "write", r.cluster # Identify
             PROVE  r.privilege >= Manage
  BY DEF WriteGuarded
<1>1. Server(r) \in 1 .. 23 /\ Clusters[Server(r)].id = r.cluster
  BY PathFound DEF Permitted
<1>2. PICK a \in Indexed(Clusters[Server(r)]) :
        Attributes[a].id = r.id /\ "writable" \in Attributes[a].flags
  BY PathFound DEF Permitted
<1>3. PICK i \in 1 .. 8 : WriteClusters[i] = r.cluster /\ WriteIds[i] = r.id
  BY <1>1, <1>2, WritesRuled
<1>4. PICK j \in 1 .. 8 : RequiredPrivilege(r) = WritePrivileges[j]
  BY SMTT(40), <1>3, RuleDecides, RulesOfKinds, RuleCounts
<1>5. RequiredPrivilege(r) \in {Manage, Administer} /\ r.privilege \in 1 .. 4
  BY <1>4, RulePrivileges DEF Requests, Privileges
<1> QED BY <1>5 DEF Permitted, Manage, Administer

LEMMA PermittedIsGuarded ==
    ASSUME NEW r \in Requests, Permitted(r)
    PROVE  Guarded(r)
BY CommandsAreGuarded, ReadsAreGuarded, EventsAreGuarded, WritesAreGuarded DEF Guarded
-----------------------------------------------------------------------------
(* From Server::Init to the reply.                                  *)

LEMMA ClusterNames ==
    /\ Clusters[1].id = Descriptor /\ Clusters[2].id = AccessControl
    /\ Clusters[3].id = BasicInformation /\ Clusters[4].id = OtaProvider
    /\ Clusters[5].id = OtaRequestor /\ Clusters[6].id = GeneralCommissioning
    /\ Clusters[7].id = NetworkCommissioning /\ Clusters[8].id = GeneralDiagnostics
    /\ Clusters[9].id = AdministratorCommissioning /\ Clusters[10].id = OperationalCredentials
    /\ Clusters[11].id = GroupKeyManagement /\ Clusters[12].id = Identify
    /\ Clusters[13].id = Descriptor /\ Clusters[14].id = AirQuality
    /\ Clusters[15].id = TemperatureMeasurement /\ Clusters[16].id = RelativeHumidityMeasurement
    /\ Clusters[17].id = CarbonDioxide /\ Clusters[18].id = Pm25
    /\ Clusters[19].id = Pm1 /\ Clusters[20].id = Pm10
    /\ Clusters[21].id = Identify /\ Clusters[22].id = Descriptor
    /\ Clusters[23].id = TemperatureMeasurement
BY ClusterTable DEF Entry

\* The instances each cluster in code has room for.
LEMMA Room ==
    /\ ServerEndpointCount(Descriptor) = 3
    /\ ServerEndpointCount(Identify) = 2
    /\ \A id \in RunsInCode \ {Descriptor, Identify} : ServerEndpointCount(id) = 1
BY SMTT(30) DEF ServerEndpointCount, RunsInCode, Identify, Descriptor, AccessControl, BasicInformation, OtaRequestor,
       GeneralCommissioning, NetworkCommissioning, GeneralDiagnostics,
       AdministratorCommissioning, OperationalCredentials, GroupKeyManagement, AirQuality,
       TemperatureMeasurement, RelativeHumidityMeasurement, CarbonDioxide, Pm25, Pm1, Pm10

\* Each cluster in code finds room for its instance: the clusters before it with its
\* id are fewer than its ServerEndpointCount.
LEMMA RoomForEach ==
    ASSUME NEW k \in 1 .. 23, Clusters[k].id \in RunsInCode,
           NEW same, same \subseteq {j \in 1 .. k - 1 : Clusters[j].id = Clusters[k].id}
    PROVE  Cardinality(same) < ServerEndpointCount(Clusters[k].id)
<1>1. IsFiniteSet({1, 13}) /\ Cardinality({1, 13}) = 2
  <2>1. {1, 13} = {1} \cup {13} /\ 13 \notin {1}
    OBVIOUS
  <2>2. Cardinality({1}) = 1 /\ IsFiniteSet({1})
    BY FS_Singleton
  <2>3. Cardinality({1} \cup {13}) = 1 + 1 /\ IsFiniteSet({1} \cup {13})
    BY <2>1, <2>2, FS_AddElement
  <2> QED BY <2>1, <2>3
<1>2. CASE Clusters[k].id = Descriptor
  <2>1. same \subseteq {1, 13}
    BY <1>2, ClusterNames DEF OtaProvider, Identify, Descriptor, AccessControl, BasicInformation, OtaRequestor,
         GeneralCommissioning, NetworkCommissioning, GeneralDiagnostics,
         AdministratorCommissioning, OperationalCredentials, GroupKeyManagement, AirQuality,
         TemperatureMeasurement, RelativeHumidityMeasurement, CarbonDioxide, Pm25, Pm1, Pm10
  <2>2. Cardinality(same) <= 2 /\ Cardinality(same) \in Nat
    BY <1>1, <2>1, FS_Subset, FS_CardinalityType
  <2> QED BY <1>2, <2>2, Room
<1>3. CASE Clusters[k].id = Identify
  <2>1. same \subseteq {12}
    BY <1>3, ClusterNames DEF OtaProvider, Identify, Descriptor, AccessControl, BasicInformation, OtaRequestor,
         GeneralCommissioning, NetworkCommissioning, GeneralDiagnostics,
         AdministratorCommissioning, OperationalCredentials, GroupKeyManagement, AirQuality,
         TemperatureMeasurement, RelativeHumidityMeasurement, CarbonDioxide, Pm25, Pm1, Pm10
  <2>2. IsFiniteSet({12}) /\ Cardinality({12}) = 1
    BY FS_Singleton
  <2>3. Cardinality(same) <= 1 /\ Cardinality(same) \in Nat
    BY <2>1, <2>2, FS_Subset, FS_CardinalityType
  <2> QED BY <1>3, <2>3, Room
<1>4. CASE Clusters[k].id \notin {Descriptor, Identify}
  <2>1. \A j \in 1 .. k - 1 : Clusters[j].id # Clusters[k].id
    BY <1>4, ClusterNames DEF RunsInCode, OtaProvider, Identify, Descriptor, AccessControl, BasicInformation, OtaRequestor,
         GeneralCommissioning, NetworkCommissioning, GeneralDiagnostics,
         AdministratorCommissioning, OperationalCredentials, GroupKeyManagement, AirQuality,
         TemperatureMeasurement, RelativeHumidityMeasurement, CarbonDioxide, Pm25, Pm1, Pm10
  <2>2. same = {}
    BY <2>1
  <2>3. Cardinality(same) = 0
    BY <2>2, FS_EmptySet
  <2> QED BY <1>4, <2>3, Room
<1> QED BY <1>2, <1>3, <1>4

\* Of the clusters Server::Init has come past, those with a case in
\* MatterClusterServerInitCallback run; a request is asked of all of them, and its
\* stage tells what has been checked.
Started ==
    /\ starting \in 1 .. Len(Clusters) + 1
    /\ running = {k \in 1 .. starting - 1 : Clusters[k].server /\ Clusters[k].id \in RunsInCode}

Asked ==
    /\ stage \in {"idle", "received", "checked", "allowed", "done"}
    /\ stage # "idle" => starting > Len(Clusters) /\ request \in Requests
    /\ stage \in {"checked", "allowed"} => PathStatus(request) = "Success"
    /\ stage = "allowed" => request.privilege >= RequiredPrivilege(request)
    /\ stage = "done" /\ replies[1] = "Success" => Permitted(request)

RequestInv == Started /\ Asked /\ RepliedOnce /\ AcceptedIsServed

LEMMA RequestStarts == RequestInit => RequestInv
<1> SUFFICES ASSUME RequestInit PROVE RequestInv
  OBVIOUS
<1>1. Started
  BY AcceptingClusters DEF RequestInit, Started
<1>2. Asked /\ RepliedOnce /\ AcceptedIsServed
  BY DEF RequestInit, Asked, RepliedOnce, AcceptedIsServed
<1> QED BY <1>1, <1>2 DEF RequestInv

LEMMA StartClusterStarts ==
    ASSUME RequestInv, StartCluster
    PROVE  RequestInv'
<1>1. starting \in 1 .. 23 /\ starting' = starting + 1
  BY AcceptingClusters DEF RequestInv, Started, StartCluster
<1>2. stage = "idle" /\ UNCHANGED <<stage, request, replies>>
  BY <1>1, AcceptingClusters DEF RequestInv, Asked, StartCluster
<1> DEFINE same == {k \in running : Clusters[k].id = Clusters[starting].id}
           before == {j \in 1 .. starting - 1 : Clusters[j].id = Clusters[starting].id}
           starts == Clusters[starting].server /\ Clusters[starting].id \in RunsInCode
<1>3. starts => Cardinality(same) < ServerEndpointCount(Clusters[starting].id)
  <2> SUFFICES ASSUME starts
               PROVE  Cardinality(same) < ServerEndpointCount(Clusters[starting].id)
    OBVIOUS
  <2>1. same \subseteq before
    BY DEF RequestInv, Started
  <2> HIDE DEF same
  <2> QED BY <1>1, <2>1, RoomForEach
<1>4. running' = IF starts THEN running \cup {starting} ELSE running
  BY <1>3 DEF StartCluster
<1>5. Started'
  BY <1>1, <1>4, AcceptingClusters DEF RequestInv, Started
<1>6. Asked' /\ RepliedOnce' /\ AcceptedIsServed'
  BY <1>2 DEF RequestInv, Asked, RepliedOnce, AcceptedIsServed
<1> QED BY <1>5, <1>6 DEF RequestInv

\* A request that goes to the cluster in code or to the network commissioning
\* instance is one they carry out; the dispatcher gets the OTA requestor's alone.
LEMMA AnswerFits ==
    ASSUME RequestInv, stage = "allowed", request.kind = "invoke"
    PROVE  /\ request.id \in EnabledCommands(request.cluster)
           /\ ~ServedInCode /\ ~ServedByInstance =>
                 request.cluster = OtaRequestor /\ request.id = AnnounceOTAProvider
<1> DEFINE k == Server(request)
<1>1. PathStatus(request) = "Success" /\ starting > Len(Clusters)
  BY DEF RequestInv, Asked
<1>2. /\ k \in 1 .. 23 /\ Clusters[k].server /\ Clusters[k].id = request.cluster
      /\ request.id \in CommandList(Clusters[k].accepted)
  BY <1>1, PathFound
<1>3. /\ request.id \in EnabledCommands(request.cluster)
      /\ request.cluster \in RunsInCode \cup {OtaRequestor, NetworkCommissioning}
      /\ request.cluster = OtaRequestor => request.id = 0
  BY <1>2, AcceptedIsEnabled
<1>4. running = {j \in 1 .. 23 : Clusters[j].server /\ Clusters[j].id \in RunsInCode}
  BY <1>1, AcceptingClusters DEF RequestInv, Started
<1>5. ASSUME ~ServedInCode, ~ServedByInstance
      PROVE  request.cluster = OtaRequestor
  <2>1. request.cluster \notin RunsInCode
    BY <1>2, <1>4, <1>5 DEF ServedInCode
  <2>2. request.cluster # NetworkCommissioning
    BY <1>5 DEF ServedByInstance
  <2> QED BY <1>3, <2>1, <2>2
<1> QED BY <1>3, <1>5 DEF AnnounceOTAProvider

\* What a reply leaves behind, with the status it gives.
LEMMA ReplyInv ==
    ASSUME RequestInv, stage \in {"received", "checked", "allowed"}, NEW status,
           Reply(status), UNCHANGED <<serverVars, request>>,
           status = "Success" => Permitted(request),
           request.kind = "invoke" /\ Permitted(request) =>
               status \in {"Success", "InvalidCommand"}
    PROVE  RequestInv'
<1>1. replies' = <<status>> /\ stage' = "done"
  BY OneReply DEF RequestInv, RepliedOnce, Reply
<1>2. DOMAIN replies' = {1} /\ replies'[1] = status
  BY <1>1
<1>3. Permitted(request)' <=> Permitted(request)
  BY DEF Permitted, PathStatus, RequiredPrivilege, Server
<1>4. RepliedOnce'
  BY ReplyOnce DEF RequestInv
<1>5. Started'
  BY DEF RequestInv, Started, serverVars
<1>6. Asked'
  BY <1>1, <1>2, <1>3 DEF RequestInv, Asked, serverVars
<1>7. AcceptedIsServed'
  BY <1>1, <1>2, <1>3 DEF AcceptedIsServed, Permitted
<1> QED BY <1>4, <1>5, <1>6, <1>7 DEF RequestInv

LEMMA DispatchInv ==
    ASSUME RequestInv, Dispatch
    PROVE  RequestInv'
<1>1. /\ stage = "allowed" /\ request.kind = "invoke" /\ replies = <<>>
      /\ ~ServedInCode /\ ~ServedByInstance /\ Permitted(request)
  BY DEF Dispatch, RequestInv, RepliedOnce, Asked, Permitted
<1>2. request.cluster = OtaRequestor /\ request.id = AnnounceOTAProvider
  BY <1>1, AnswerFits
<1>3. PICK status \in {"Success", "InvalidCommand"} : replies' = <<status>>
  <2>1. PICK decodes \in BOOLEAN, wasHandled \in BOOLEAN :
          LET errorStatus == DispatchServerCommand(request.id, decodes, wasHandled)
              taken == decodes /\ wasHandled
          IN  replies' = (IF taken THEN <<"Success">> ELSE <<>>) \o StatusAdded(errorStatus)
    BY <1>2 DEF Dispatch
  <2>2. CASE decodes /\ wasHandled
    <3>1. replies' = <<"Success">> \o <<>>
      BY <1>2, <2>1, <2>2 DEF DispatchServerCommand, StatusAdded
    <3> QED BY <3>1, OneReply
  <2>3. CASE ~(decodes /\ wasHandled)
    <3>1. replies' = <<>> \o <<"InvalidCommand">>
      BY <1>2, <2>1, <2>3 DEF DispatchServerCommand, StatusAdded
    <3> QED BY <3>1, OneReply
  <2> QED BY <2>2, <2>3
<1>4. Reply(status)
  BY <1>1, <1>3, OneReply DEF Reply, Dispatch
<1>5. UNCHANGED <<serverVars, request>>
  BY DEF Dispatch
<1> QED BY <1>1, <1>3, <1>4, <1>5, ReplyInv

LEMMA RequestStep ==
    ASSUME RequestInv, RequestNext
    PROVE  RequestInv'
<1>1. CASE Receive
  <2>1. Started'
    BY <1>1 DEF Receive, RequestInv, Started, serverVars
  <2>2. Asked'
    BY <1>1 DEF Receive, RequestInv, Asked, serverVars
  <2>3. RepliedOnce' /\ AcceptedIsServed'
    BY <1>1 DEF Receive, RequestInv, RepliedOnce, AcceptedIsServed
  <2> QED BY <2>1, <2>2, <2>3 DEF RequestInv
<1>2. CASE CheckPath
  <2>1. CASE PathStatus(request) = "Success"
    <3>1. stage' = "checked" /\ UNCHANGED <<serverVars, request, replies>>
      BY <1>2, <2>1 DEF CheckPath
    <3>2. stage = "received" /\ PathStatus(request)' = PathStatus(request)
      BY <1>2, <3>1 DEF CheckPath, PathStatus, Server
    <3>3. Started'
      BY <3>1 DEF RequestInv, Started, serverVars
    <3>4. Asked'
      BY <2>1, <3>1, <3>2 DEF RequestInv, Asked, serverVars
    <3>5. RepliedOnce' /\ AcceptedIsServed'
      BY <3>1, <3>2 DEF RequestInv, RepliedOnce, AcceptedIsServed
    <3> QED BY <3>3, <3>4, <3>5 DEF RequestInv
  <2>2. CASE PathStatus(request) # "Success"
    BY <1>2, <2>2, ReplyInv DEF CheckPath, Permitted
  <2> QED BY <2>1, <2>2
<1>3. CASE CheckAccess
  <2>1. CASE request.privilege >= RequiredPrivilege(request)
    <3>1. stage' = "allowed" /\ UNCHANGED <<serverVars, request, replies>>
      BY <1>3, <2>1 DEF CheckAccess
    <3>2. stage = "checked"
      BY <1>3 DEF CheckAccess
    <3>3. /\ PathStatus(request)' = PathStatus(request)
          /\ RequiredPrivilege(request)' = RequiredPrivilege(request)
      BY <3>1 DEF PathStatus, Server, RequiredPrivilege
    <3>4. Started'
      BY <3>1 DEF RequestInv, Started, serverVars
    <3>5. Asked'
      BY <2>1, <3>1, <3>2, <3>3 DEF RequestInv, Asked, serverVars
    <3>6. RepliedOnce' /\ AcceptedIsServed'
      BY <3>1, <3>2 DEF RequestInv, RepliedOnce, AcceptedIsServed
    <3> QED BY <3>4, <3>5, <3>6 DEF RequestInv
  <2>2. CASE ~(request.privilege >= RequiredPrivilege(request))
    BY <1>3, <2>2, ReplyInv DEF CheckAccess, Permitted
  <2> QED BY <2>1, <2>2
<1>4. CASE Access
  <2>1. Permitted(request) /\ stage = "allowed" /\ request.kind # "invoke"
    BY <1>4 DEF Access, RequestInv, Asked, Permitted
  <2> QED BY <1>4, <2>1, ReplyInv DEF Access
<1>5. CASE Invoke
  <2>1. Permitted(request) /\ stage = "allowed" /\ request.kind = "invoke"
    BY <1>5 DEF Invoke, ServedInCode, ServedByInstance, RequestInv, Asked, Permitted
  <2>2. Reply("Success")
    BY <1>5, <2>1, AnswerFits DEF Invoke
  <2> QED BY <1>5, <2>1, <2>2, ReplyInv DEF Invoke
<1>6. CASE Dispatch
  BY <1>6, DispatchInv
<1>7. CASE Finish
  <2>1. Started'
    BY <1>7 DEF Finish, RequestInv, Started, serverVars
  <2>2. Asked'
    BY <1>7 DEF Finish, RequestInv, Asked, serverVars
  <2>3. RepliedOnce' /\ AcceptedIsServed'
    BY <1>7 DEF Finish, RequestInv, RepliedOnce, AcceptedIsServed
  <2> QED BY <2>1, <2>2, <2>3 DEF RequestInv
<1> QED BY <1>1, <1>2, <1>3, <1>4, <1>5, <1>6, <1>7 DEF RequestNext

\* The request's place in the node, for every set of paths and ids clients ask for.
LEMMA RequestInvariant == NodeSpec => []RequestInv
<1>1. NodeInit => RequestInv
  BY RequestStarts DEF NodeInit
<1>2. RequestInv /\ [NodeNext]_nodeVars => RequestInv'
  <2> SUFFICES ASSUME RequestInv, [NodeNext]_nodeVars PROVE RequestInv'
    OBVIOUS
  <2>1. CASE UNCHANGED requestVars
    <3>1. Started' /\ Asked' /\ RepliedOnce' /\ AcceptedIsServed'
      BY <2>1 DEF requestVars, RequestInv, Started, Asked, RepliedOnce, AcceptedIsServed,
           Permitted, PathStatus, Server, RequiredPrivilege
    <3> QED BY <3>1 DEF RequestInv
  <2>2. CASE StartCluster
    BY <2>2, StartClusterStarts
  <2>3. CASE RequestNext
    BY <2>3, RequestStep
  <2>4. StartCluster \/ RequestNext \/ UNCHANGED requestVars
    BY DEF NodeNext, nodeVars, LoadsStore, StartsCluster, ServerReady, ThreadStep,
         AttributesChange, ClientStep
  <2> QED BY <2>1, <2>2, <2>3, <2>4
<1> QED BY <1>1, <1>2, PTL DEF NodeSpec

\* Every request is answered once, whatever paths and ids clients ask for: the
\* cluster, its callback and DispatchSingleClusterCommand never both reply.
THEOREM NodeRepliesOnce == NodeSpec => []RepliedOnce
BY RequestInvariant, PTL DEF RequestInv

\* Every command the generated tables advertise is carried out by a cluster that
\* Server::Init has started, by the network commissioning instance or by
\* DispatchSingleClusterCommand, whatever ids clients ask for.
THEOREM NodeServesWhatItAccepts == NodeSpec => []AcceptedIsServed
BY RequestInvariant, PTL DEF RequestInv

\* The parallel arrays of access.h, with the attributes and the commands the tables
\* hold, keep every client below Administer from configuring the node.
THEOREM NodeIsProtected == NodeSpec => []Protected
<1>1. RequestInv => Protected
  <2> SUFFICES ASSUME RequestInv, stage = "done", replies[1] = "Success"
               PROVE  Protected
    BY DEF Protected
  <2>1. Guarded(request)
    BY PermittedIsGuarded DEF RequestInv, Asked
  <2> QED BY <2>1 DEF Protected, Guarded, CommandGuarded, ReadGuarded, EventGuarded, WriteGuarded
<1> QED BY <1>1, RequestInvariant, PTL

-----------------------------------------------------------------------------
(* The bytes of the store.                                                 *)

\* How many bytes some rows of a table with sizes have.
Total(t, rows) == Cardinality(BytesOfRows(t, rows))

\* Finitely many rows, none longer than some size.
Sized(t, rows) ==
    /\ IsFiniteSet(rows)
    /\ \E max \in Nat : \A r \in rows : t[r].bytes \in 0 .. max

\* Sizes of parts: a part of sized rows is sized, has finitely many bytes and no more
\* of them than the whole.
LEMMA SizedPart ==
    ASSUME NEW t, NEW rows, Sized(t, rows), NEW part, part \subseteq rows
    PROVE  Sized(t, part)
<1>1. IsFiniteSet(part)
  BY FS_Subset DEF Sized
<1> QED BY <1>1 DEF Sized

LEMMA BytesFinite ==
    ASSUME NEW t, NEW rows, Sized(t, rows)
    PROVE  IsFiniteSet(BytesOfRows(t, rows)) /\ Total(t, rows) \in Nat
<1>1. PICK max \in Nat : \A r \in rows : t[r].bytes \in 0 .. max
  BY DEF Sized
<1>2. IsFiniteSet(1 .. max) /\ IsFiniteSet(rows)
  BY FS_Interval DEF Sized
<1>3. IsFiniteSet(rows \X (1 .. max))
  BY <1>2, FS_Product
<1>4. BytesOfRows(t, rows) \subseteq rows \X (1 .. max)
  BY <1>1 DEF BytesOfRows
<1>5. IsFiniteSet(BytesOfRows(t, rows))
  BY <1>3, <1>4, FS_Subset
<1> QED BY <1>5, FS_CardinalityType DEF Total

LEMMA TotalOfPart ==
    ASSUME NEW t, NEW rows, Sized(t, rows), NEW part, part \subseteq rows
    PROVE  Total(t, part) <= Total(t, rows)
<1>1. BytesOfRows(t, part) \subseteq BytesOfRows(t, rows)
  BY DEF BytesOfRows
<1> QED BY <1>1, BytesFinite, FS_Subset DEF Total

\* Rows of external storage have no bytes, a row has its own, and one more row adds
\* its own.
LEMMA TotalOfNone ==
    ASSUME NEW t, NEW rows, \A r \in rows : t[r].bytes = 0
    PROVE  Total(t, rows) = 0
<1>1. BytesOfRows(t, rows) = {}
  BY DEF BytesOfRows
<1> QED BY <1>1, FS_EmptySet DEF Total

LEMMA TotalOfOne ==
    ASSUME NEW t, NEW r, t[r].bytes \in Nat
    PROVE  Sized(t, {r}) /\ Total(t, {r}) = t[r].bytes
<1> DEFINE b == t[r].bytes
<1>1. BytesOfRows(t, {r}) = {r} \X (1 .. b)
  BY DEF BytesOfRows
<1>2. Sized(t, {r})
  <2>1. IsFiniteSet({r})
    BY FS_Singleton
  <2>2. b \in Nat /\ \A q \in {r} : t[q].bytes \in 0 .. b
    OBVIOUS
  <2> QED BY <2>1, <2>2 DEF Sized
<1> HIDE DEF b
<1>3. b \in Nat
  BY DEF b
<1>4. IsFiniteSet(1 .. b) /\ Cardinality(1 .. b) = b
  BY <1>3, FS_Interval
<1>5. IsFiniteSet({r}) /\ Cardinality({r}) = 1
  BY FS_Singleton
<1>6. Cardinality({r} \X (1 .. b)) = Cardinality({r}) * Cardinality(1 .. b)
  BY <1>4, <1>5, FS_Product
<1>7. Cardinality({r} \X (1 .. b)) = b
  BY <1>3, <1>4, <1>5, <1>6
<1>8. Total(t, {r}) = b
  BY <1>1, <1>7 DEF Total
<1> QED BY <1>2, <1>8 DEF b

LEMMA TotalOfOneMore ==
    ASSUME NEW t, NEW rows, NEW r, Sized(t, rows), t[r].bytes \in Nat, r \notin rows
    PROVE  Total(t, rows \cup {r}) = Total(t, rows) + t[r].bytes
<1> DEFINE A == BytesOfRows(t, rows)
           B == BytesOfRows(t, {r})
<1>1. BytesOfRows(t, rows \cup {r}) = A \cup B
  BY DEF BytesOfRows
<1>2. A \cap B = {}
  BY DEF BytesOfRows
<1>3. /\ IsFiniteSet(A) /\ Cardinality(A) \in Nat
      /\ IsFiniteSet(B) /\ Cardinality(B) = t[r].bytes
  BY BytesFinite, TotalOfOne DEF Total
<1>4. Total(t, rows) = Cardinality(A) /\ Total(t, rows \cup {r}) = Cardinality(A \cup B)
  BY <1>1 DEF Total
<1> HIDE DEF A, B
<1>5. Cardinality(A \cup B) = Cardinality(A) + Cardinality(B) - Cardinality(A \cap B)
  BY <1>3, FS_Union
<1>6. Cardinality(A \cap B) = 0
  BY <1>2, FS_EmptySet
<1> QED BY <1>3, <1>4, <1>5, <1>6

\* What comes before a row, and the row, come before every later row and fit into
\* the total.
LEMMA RoomBefore ==
    ASSUME NEW t, NEW rows, Sized(t, rows), rows \subseteq Int, NEW r \in rows
    PROVE  /\ SizesBefore(t, rows, r) \in Nat /\ t[r].bytes \in Nat
           /\ SizesBefore(t, rows, r) + t[r].bytes <= Total(t, rows)
           /\ \A i \in rows : r < i =>
                SizesBefore(t, rows, r) + t[r].bytes <= SizesBefore(t, rows, i)
<1> DEFINE before(i) == {q \in rows : q < i}
<1>1. /\ before(r) \subseteq rows /\ r \notin before(r)
      /\ before(r) \cup {r} \subseteq rows
  OBVIOUS
<1>2. ASSUME NEW i \in rows, r < i PROVE before(r) \cup {r} \subseteq before(i)
  <2>1. ASSUME NEW q \in rows, q < r PROVE q < i
    <3>1. q \in Int /\ r \in Int /\ i \in Int
      OBVIOUS
    <3> QED BY <1>2, <2>1, <3>1
  <2> QED BY <1>2, <2>1
<1>3. \A i : before(i) \subseteq rows
  OBVIOUS
<1>4. \A i : SizesBefore(t, rows, i) = Total(t, before(i))
  BY DEF SizesBefore, Total
<1> HIDE DEF before
<1>5. Sized(t, before(r)) /\ Total(t, before(r)) \in Nat
  BY <1>1, SizedPart, BytesFinite
<1>6. t[r].bytes \in Nat
  BY DEF Sized
<1>7. Total(t, before(r) \cup {r}) = Total(t, before(r)) + t[r].bytes
  BY <1>1, <1>5, <1>6, TotalOfOneMore
<1>8. Total(t, before(r) \cup {r}) <= Total(t, rows)
  BY <1>1, TotalOfPart
<1>9. ASSUME NEW i \in rows, r < i
      PROVE  Total(t, before(r) \cup {r}) <= Total(t, before(i))
  <2>1. Sized(t, before(i)) /\ before(r) \cup {r} \subseteq before(i)
    BY <1>2, <1>3, <1>9, SizedPart
  <2> QED BY <2>1, TotalOfPart
<1> QED BY <1>4, <1>5, <1>6, <1>7, <1>8, <1>9

\* The bytes of n rows from a place on.
Upto(t, m, n) == Total(t, m + 1 .. m + n)

\* Each row adds its bytes to those of the rows before it.
LEMMA UptoNext ==
    ASSUME NEW t, NEW m \in Nat, NEW n \in Nat, Sized(t, m + 1 .. m + n), NEW i \in 1 .. n
    PROVE  Upto(t, m, i) = Upto(t, m, i - 1) + t[m + i].bytes
<1> DEFINE rows == m + 1 .. m + (i - 1)
           more == rows \cup {m + i}
           next == m + 1 .. m + i
<1>1. next = more /\ m + i \notin rows
  OBVIOUS
<1>2. rows \subseteq m + 1 .. m + n /\ m + i \in m + 1 .. m + n
  OBVIOUS
<1>3. Sized(t, rows) /\ t[m + i].bytes \in Nat
  <2>1. Sized(t, rows)
    <3> HIDE DEF rows
    <3> QED BY <1>2, SizedPart
  <2>2. t[m + i].bytes \in Nat
    BY <1>2 DEF Sized
  <2> QED BY <2>1, <2>2
<1>4. Upto(t, m, i - 1) = Total(t, rows) /\ Upto(t, m, i) = Total(t, next)
  BY DEF Upto
<1>5. Total(t, more) = Total(t, rows) + t[m + i].bytes
  <2> HIDE DEF rows
  <2> QED BY <1>1, <1>3, TotalOfOneMore
<1> HIDE DEF rows, more, next
<1> QED BY <1>1, <1>4, <1>5

LEMMA UptoNone ==
    ASSUME NEW t, NEW m \in Nat
    PROVE  Upto(t, m, 0) = 0
<1>1. \A r \in m + 1 .. m + 0 : t[r].bytes = 0
  OBVIOUS
<1> QED BY <1>1, TotalOfNone DEF Upto

\* The bytes of a cluster's attributes, row by row.
LEMMA UptoRow ==
    ASSUME NEW k, NEW rows, Has(k, rows), NEW n, Laid(rows, Row, n)
    PROVE  /\ Upto(Attributes, Clusters[k].first, 0) = 0
           /\ \A i \in 1 .. n : Upto(Attributes, Clusters[k].first, i) =
                 Upto(Attributes, Clusters[k].first, i - 1) + rows[i].bytes
           /\ Total(Attributes, Indexed(Clusters[k])) = Upto(Attributes, Clusters[k].first, n)
<1> DEFINE m == Clusters[k].first
<1>1. /\ n \in Nat /\ Len(rows) = n /\ m \in Nat /\ Clusters[k].count = n
      /\ \A i \in 1 .. n : Attributes[m + i] = rows[i]
      /\ \A i \in 1 .. n : rows[i] \in Row
  BY DEF Has, At, Laid
<1>2. \A i \in 1 .. n : rows[i].bytes \in 0 .. 4
  BY <1>1 DEF Row
<1> HIDE DEF m
<1>3. ASSUME NEW r \in m + 1 .. m + n PROVE Attributes[r].bytes \in 0 .. 4
  <2>1. r - m \in 1 .. n /\ m + (r - m) = r
    BY <1>1
  <2> QED BY <1>1, <1>2, <2>1
<1>4. ASSUME NEW i \in 1 .. n
      PROVE  Upto(Attributes, m, i) = Upto(Attributes, m, i - 1) + rows[i].bytes
  <2>1. IsFiniteSet(m + 1 .. m + n)
    BY <1>1, FS_Interval
  <2>2. 4 \in Nat
    OBVIOUS
  <2>3. Sized(Attributes, m + 1 .. m + n)
    BY <1>3, <2>1, <2>2 DEF Sized
  <2>4. Upto(Attributes, m, i) = Upto(Attributes, m, i - 1) + Attributes[m + i].bytes
    BY <1>1, <2>3, UptoNext
  <2> QED BY <1>1, <2>4
<1>5. Total(Attributes, Indexed(Clusters[k])) = Upto(Attributes, m, n)
  BY <1>1 DEF Upto, Indexed, m
<1> QED BY <1>1, <1>4, <1>5, UptoNone DEF m

\* The sizes of the rows of the clusters with attributes in the store.
LEMMA StoredSizes ==
    /\ OtaRequestorRows[1].bytes = 0 /\ OtaRequestorRows[2].bytes = 1
    /\ OtaRequestorRows[3].bytes = 1 /\ OtaRequestorRows[4].bytes = 1
    /\ OtaRequestorRows[5].bytes = 4 /\ OtaRequestorRows[6].bytes = 2
    /\ AdministratorCommissioningRows[1].bytes = 0
    /\ AdministratorCommissioningRows[2].bytes = 0
    /\ AdministratorCommissioningRows[3].bytes = 0
    /\ AdministratorCommissioningRows[4].bytes = 4
    /\ AdministratorCommissioningRows[5].bytes = 0
    /\ AirQualityClusterRows[1].bytes = 0 /\ AirQualityClusterRows[2].bytes = 0
    /\ AirQualityClusterRows[3].bytes = 2
    /\ MeasurementRows[1].bytes = 2 /\ MeasurementRows[2].bytes = 2
    /\ MeasurementRows[3].bytes = 2 /\ MeasurementRows[4].bytes = 4
    /\ MeasurementRows[5].bytes = 2
    /\ ConcentrationRows[1].bytes = 0 /\ ConcentrationRows[2].bytes = 0
    /\ ConcentrationRows[3].bytes = 0 /\ ConcentrationRows[4].bytes = 0
    /\ ConcentrationRows[5].bytes = 0 /\ ConcentrationRows[6].bytes = 0
    /\ ConcentrationRows[7].bytes = 2
    /\ TemperatureClusterRows[1].bytes = 2 /\ TemperatureClusterRows[2].bytes = 2
    /\ TemperatureClusterRows[3].bytes = 2 /\ TemperatureClusterRows[4].bytes = 0
    /\ TemperatureClusterRows[5].bytes = 2
<1> USE DEF Rows, External, ExternalWritable, ExternalNullable, Stored, StoredNull, Globals
<1>1. /\ OtaRequestorRows[1].bytes = 0 /\ OtaRequestorRows[2].bytes = 1
      /\ OtaRequestorRows[3].bytes = 1 /\ OtaRequestorRows[4].bytes = 1
      /\ OtaRequestorRows[5].bytes = 4 /\ OtaRequestorRows[6].bytes = 2
  BY DEF OtaRequestorRows
<1>2. /\ AdministratorCommissioningRows[1].bytes = 0
      /\ AdministratorCommissioningRows[2].bytes = 0
      /\ AdministratorCommissioningRows[3].bytes = 0
      /\ AdministratorCommissioningRows[4].bytes = 4
      /\ AdministratorCommissioningRows[5].bytes = 0
  BY DEF AdministratorCommissioningRows
<1>3. /\ AirQualityClusterRows[1].bytes = 0 /\ AirQualityClusterRows[2].bytes = 0
      /\ AirQualityClusterRows[3].bytes = 2
  BY DEF AirQualityClusterRows
<1>4. /\ MeasurementRows[1].bytes = 2 /\ MeasurementRows[2].bytes = 2
      /\ MeasurementRows[3].bytes = 2 /\ MeasurementRows[4].bytes = 4
      /\ MeasurementRows[5].bytes = 2
  BY DEF MeasurementRows
<1>5. /\ ConcentrationRows[1].bytes = 0 /\ ConcentrationRows[2].bytes = 0
      /\ ConcentrationRows[3].bytes = 0 /\ ConcentrationRows[4].bytes = 0
      /\ ConcentrationRows[5].bytes = 0 /\ ConcentrationRows[6].bytes = 0
      /\ ConcentrationRows[7].bytes = 2
  BY DEF ConcentrationRows
<1>6. /\ TemperatureClusterRows[1].bytes = 2 /\ TemperatureClusterRows[2].bytes = 2
      /\ TemperatureClusterRows[3].bytes = 2 /\ TemperatureClusterRows[4].bytes = 0
      /\ TemperatureClusterRows[5].bytes = 2
  BY DEF TemperatureClusterRows
<1> QED BY <1>1, <1>2, <1>3, <1>4, <1>5, <1>6

\* A cluster's bytes are the sum of its rows', for the numbers of rows that occur.
LEMMA RowsAddUp ==
    ASSUME NEW k, NEW rows, Has(k, rows), NEW n, Laid(rows, Row, n)
    PROVE  /\ n = 3 => Total(Attributes, Indexed(Clusters[k])) =
                rows[1].bytes + rows[2].bytes + rows[3].bytes
           /\ n = 5 => Total(Attributes, Indexed(Clusters[k])) =
                rows[1].bytes + rows[2].bytes + rows[3].bytes + rows[4].bytes + rows[5].bytes
           /\ n = 6 => Total(Attributes, Indexed(Clusters[k])) =
                rows[1].bytes + rows[2].bytes + rows[3].bytes + rows[4].bytes + rows[5].bytes
                + rows[6].bytes
           /\ n = 7 => Total(Attributes, Indexed(Clusters[k])) =
                rows[1].bytes + rows[2].bytes + rows[3].bytes + rows[4].bytes + rows[5].bytes
                + rows[6].bytes + rows[7].bytes
<1> DEFINE U(i) == Upto(Attributes, Clusters[k].first, i)
           b(i) == rows[i].bytes
<1>1. /\ U(0) = 0
      /\ \A i \in 1 .. n : U(i) = U(i - 1) + b(i)
      /\ Total(Attributes, Indexed(Clusters[k])) = U(n)
  BY UptoRow
<1>2. \A i \in 1 .. n : b(i) \in Nat
  <2>1. \A i \in 1 .. n : rows[i] \in Row
    BY DEF Laid
  <2> QED BY <2>1 DEF Row
<1> HIDE DEF U, b
<1>3. ASSUME n = 3
      PROVE  Total(Attributes, Indexed(Clusters[k])) = b(1) + b(2) + b(3)
  <2>1. U(1) = b(1) /\ U(2) = b(1) + b(2) /\ U(3) = b(1) + b(2) + b(3)
    BY <1>1, <1>2, <1>3
  <2> QED BY <1>1, <1>3, <2>1
<1>4. ASSUME n = 5
      PROVE  Total(Attributes, Indexed(Clusters[k])) = b(1) + b(2) + b(3) + b(4) + b(5)
  <2>1. U(1) = b(1) /\ U(2) = b(1) + b(2) /\ U(3) = b(1) + b(2) + b(3)
    BY <1>1, <1>2, <1>4
  <2>2. U(4) = b(1) + b(2) + b(3) + b(4) /\ U(5) = b(1) + b(2) + b(3) + b(4) + b(5)
    BY <1>1, <1>2, <1>4, <2>1
  <2> QED BY <1>1, <1>4, <2>2
<1>5. ASSUME n = 6
      PROVE  Total(Attributes, Indexed(Clusters[k])) = b(1) + b(2) + b(3) + b(4) + b(5) + b(6)
  <2>1. U(1) = b(1) /\ U(2) = b(1) + b(2) /\ U(3) = b(1) + b(2) + b(3)
    BY <1>1, <1>2, <1>5
  <2>2. U(4) = b(1) + b(2) + b(3) + b(4) /\ U(5) = b(1) + b(2) + b(3) + b(4) + b(5)
    BY <1>1, <1>2, <1>5, <2>1
  <2>3. U(6) = b(1) + b(2) + b(3) + b(4) + b(5) + b(6)
    BY <1>1, <1>2, <1>5, <2>2
  <2> QED BY <1>1, <1>5, <2>3
<1>6. ASSUME n = 7
      PROVE  Total(Attributes, Indexed(Clusters[k])) = b(1) + b(2) + b(3) + b(4) + b(5) + b(6) + b(7)
  <2>1. U(1) = b(1) /\ U(2) = b(1) + b(2) /\ U(3) = b(1) + b(2) + b(3)
    BY <1>1, <1>2, <1>6
  <2>2. U(4) = b(1) + b(2) + b(3) + b(4) /\ U(5) = b(1) + b(2) + b(3) + b(4) + b(5)
    BY <1>1, <1>2, <1>6, <2>1
  <2>3. /\ U(6) = b(1) + b(2) + b(3) + b(4) + b(5) + b(6)
        /\ U(7) = b(1) + b(2) + b(3) + b(4) + b(5) + b(6) + b(7)
    BY <1>1, <1>2, <1>6, <2>2
  <2> QED BY <1>1, <1>6, <2>3
<1> QED BY <1>3, <1>4, <1>5, <1>6 DEF b

NothingStored(rows) == \A i \in 1 .. Len(rows) : rows[i].bytes = 0

\* The clusters that keep nothing in the store.
LEMMA ExternalRows ==
    /\ NothingStored(DescriptorRows) /\ NothingStored(AccessControlRows)
    /\ NothingStored(BasicInformationRows) /\ NothingStored(GeneralCommissioningRows)
    /\ NothingStored(NetworkCommissioningRows) /\ NothingStored(GeneralDiagnosticsRows)
    /\ NothingStored(OperationalCredentialsRows) /\ NothingStored(GroupKeyManagementRows)
    /\ NothingStored(IdentifyRows)
<1> USE DEF NothingStored, Rows, External, ExternalWritable, ExternalNullable, Globals
<1>1. NothingStored(DescriptorRows) /\ NothingStored(AccessControlRows)
  BY DEF DescriptorRows, AccessControlRows
<1>2. NothingStored(BasicInformationRows) /\ NothingStored(GeneralCommissioningRows)
  BY DEF BasicInformationRows, GeneralCommissioningRows
<1>3. NothingStored(NetworkCommissioningRows) /\ NothingStored(GeneralDiagnosticsRows)
  BY DEF NetworkCommissioningRows, GeneralDiagnosticsRows
<1>4. NothingStored(OperationalCredentialsRows) /\ NothingStored(GroupKeyManagementRows)
  BY DEF OperationalCredentialsRows, GroupKeyManagementRows
<1>5. NothingStored(IdentifyRows)
  BY DEF IdentifyRows
<1> QED BY <1>1, <1>2, <1>3, <1>4, <1>5

LEMMA TotalOfZeros ==
    ASSUME NEW k, NEW rows, Has(k, rows), NothingStored(rows)
    PROVE  Total(Attributes, Indexed(Clusters[k])) = 0
<1>1. \A a \in Indexed(Clusters[k]) : Attributes[a].bytes = 0
  BY RowOfCluster DEF NothingStored
<1> QED BY <1>1, TotalOfNone

\* A cluster's size in its entry is the number of bytes of its rows.
AddsUp(k) == Total(Attributes, Indexed(Clusters[k])) = Clusters[k].bytes

LEMMA ClusterSizes == \A k \in 1 .. 23 : AddsUp(k)
<1>1. \A k \in 1 .. 3 \cup 6 .. 8 \cup 10 .. 13 \cup 21 .. 22 : AddsUp(k)
  <2>1. \A k \in 1 .. 3 \cup 6 .. 8 \cup 10 .. 13 \cup 21 .. 22 :
           Total(Attributes, Indexed(Clusters[k])) = 0
    BY ExternalRows, ClustersHaveRows, TotalOfZeros
  <2> QED BY <2>1, ClusterTable DEF Entry, AddsUp
<1>2. AddsUp(4)
  <2>1. Indexed(Clusters[4]) = {}
    BY ClusterTable DEF Entry, Indexed
  <2>2. \A a \in Indexed(Clusters[4]) : Attributes[a].bytes = 0
    BY <2>1
  <2> QED BY <2>2, TotalOfNone, ClusterTable DEF Entry, AddsUp
<1>3. AddsUp(5)
  <2>1. Has(5, OtaRequestorRows) /\ Laid(OtaRequestorRows, Row, 6)
    BY ClustersHaveRows, ClusterRows
  <2>2. Total(Attributes, Indexed(Clusters[5])) = 9
    BY <2>1, StoredSizes, RowsAddUp
  <2> QED BY <2>2, ClusterTable DEF Entry, AddsUp
<1>4. AddsUp(9)
  <2>1. Has(9, AdministratorCommissioningRows) /\ Laid(AdministratorCommissioningRows, Row, 5)
    BY ClustersHaveRows, ClusterRows
  <2>2. Total(Attributes, Indexed(Clusters[9])) = 4
    BY <2>1, StoredSizes, RowsAddUp
  <2> QED BY <2>2, ClusterTable DEF Entry, AddsUp
<1>5. AddsUp(14)
  <2>1. Has(14, AirQualityClusterRows) /\ Laid(AirQualityClusterRows, Row, 3)
    BY ClustersHaveRows, ClusterRows
  <2>2. Total(Attributes, Indexed(Clusters[14])) = 2
    BY <2>1, StoredSizes, RowsAddUp
  <2> QED BY <2>2, ClusterTable DEF Entry, AddsUp
<1>6. ASSUME NEW k \in 15 .. 16 PROVE AddsUp(k)
  <2>1. Has(k, MeasurementRows) /\ Laid(MeasurementRows, Row, 5)
    BY ClustersHaveRows, ClusterRows
  <2>2. Total(Attributes, Indexed(Clusters[k])) = 12
    BY <2>1, StoredSizes, RowsAddUp
  <2> QED BY <2>2, ClusterTable DEF Entry, AddsUp
<1>7. ASSUME NEW k \in 17 .. 20 PROVE AddsUp(k)
  <2>1. Has(k, ConcentrationRows) /\ Laid(ConcentrationRows, Row, 7)
    BY ClustersHaveRows, ClusterRows
  <2>2. Total(Attributes, Indexed(Clusters[k])) = 2
    BY <2>1, StoredSizes, RowsAddUp
  <2> QED BY <2>2, ClusterTable DEF Entry, AddsUp
<1>8. AddsUp(23)
  <2>1. Has(23, TemperatureClusterRows) /\ Laid(TemperatureClusterRows, Row, 5)
    BY ClustersHaveRows, ClusterRows
  <2>2. Total(Attributes, Indexed(Clusters[23])) = 8
    BY <2>1, StoredSizes, RowsAddUp
  <2> QED BY <2>2, ClusterTable DEF Entry, AddsUp
<1> HIDE DEF AddsUp
<1> QED BY <1>1, <1>2, <1>3, <1>4, <1>5, <1>6, <1>7, <1>8

\* An endpoint's size is the number of bytes of its clusters, and the store has room
\* for the endpoints.
LEMMA EndpointSizes ==
    /\ Total(Clusters, 1 .. 11) = 13
    /\ Total(Clusters, 12 .. 20) = 34
    /\ Total(Clusters, 21 .. 23) = 8
<1>1. \A k \in 1 .. 23 : Clusters[k].bytes \in 0 .. 12
  BY ClusterTable DEF Entry
<1>2. ASSUME NEW m \in Nat, NEW n \in Nat, m + n <= 23
      PROVE  Sized(Clusters, m + 1 .. m + n)
  <2>1. IsFiniteSet(m + 1 .. m + n) /\ 12 \in Nat
    BY FS_Interval
  <2>2. \A k \in m + 1 .. m + n : Clusters[k].bytes \in 0 .. 12
    BY <1>1, <1>2
  <2> QED BY <2>1, <2>2 DEF Sized
<1> DEFINE U(m, i) == Upto(Clusters, m, i)
<1>3. \A m \in Nat : U(m, 0) = 0
  BY UptoNone
<1>4. /\ \A i \in 1 .. 11 : U(0, i) = U(0, i - 1) + Clusters[0 + i].bytes
      /\ \A i \in 1 .. 9 : U(11, i) = U(11, i - 1) + Clusters[11 + i].bytes
      /\ \A i \in 1 .. 3 : U(20, i) = U(20, i - 1) + Clusters[20 + i].bytes
  <2>1. ASSUME NEW m \in Nat, NEW n \in Nat, m + n <= 23, NEW i \in 1 .. n
        PROVE  U(m, i) = U(m, i - 1) + Clusters[m + i].bytes
    BY <1>2, <2>1, UptoNext
  <2> HIDE DEF U
  <2> QED BY <2>1
<1>5. /\ U(0, 11) = Total(Clusters, 1 .. 11)
      /\ U(11, 9) = Total(Clusters, 12 .. 20)
      /\ U(20, 3) = Total(Clusters, 21 .. 23)
  BY DEF Upto
<1> HIDE DEF U
<1>6. U(0, 4) = 0 /\ U(0, 8) = 9 /\ U(0, 11) = 13
  <2>1. U(0, 4) = 0
    BY <1>3, <1>4, ClusterTable DEF Entry
  <2>2. U(0, 8) = 9
    BY <1>4, <2>1, ClusterTable DEF Entry
  <2>3. U(0, 11) = 13
    BY <1>4, <2>2, ClusterTable DEF Entry
  <2> QED BY <2>1, <2>2, <2>3
<1>7. U(11, 9) = 34
  <2>1. U(11, 5) = 26
    BY <1>3, <1>4, ClusterTable DEF Entry
  <2> QED BY <1>4, <2>1, ClusterTable DEF Entry
<1>8. U(20, 3) = 8
  BY <1>3, <1>4, ClusterTable DEF Entry
<1> QED BY <1>5, <1>6, <1>7, <1>8

\* What the generated table says of every endpoint.
LEMMA EndpointTable ==
    /\ Endpoints = 0 .. 2 /\ DOMAIN EndpointTypes = 1 .. 3
    /\ ClustersOn(0) = 1 .. 11 /\ ClustersOn(1) = 12 .. 20 /\ ClustersOn(2) = 21 .. 23
    /\ EndpointTypes[1].bytes = 13 /\ EndpointTypes[2].bytes = 34
    /\ EndpointTypes[3].bytes = 8
<1> USE DEF EndpointTypes
<1>1. Endpoints = 0 .. 2 /\ DOMAIN EndpointTypes = 1 .. 3
  BY DEF Endpoints
<1>2. ClustersOn(0) = 1 .. 11 /\ ClustersOn(1) = 12 .. 20 /\ ClustersOn(2) = 21 .. 23
  BY DEF ClustersOn, Indexed
<1>3. /\ EndpointTypes[1].bytes = 13 /\ EndpointTypes[2].bytes = 34
      /\ EndpointTypes[3].bytes = 8
  OBVIOUS
<1> QED BY <1>1, <1>2, <1>3

\* What an entry refers to is finite.
LEMMA IndexedFinite ==
    ASSUME NEW row, row.first \in Nat, row.count \in Nat
    PROVE  IsFiniteSet(Indexed(row)) /\ Indexed(row) \subseteq Nat
<1> DEFINE a == row.first + 1
           b == row.first + row.count
<1>1. a \in Int /\ b \in Int /\ Indexed(row) = a .. b
  BY DEF Indexed
<1>2. Indexed(row) \subseteq Nat
  BY DEF Indexed
<1> HIDE DEF a, b
<1> QED BY <1>1, <1>2, FS_Interval

\* The sizes of the endpoints add up to ATTRIBUTE_MAX_SIZE.
LEMMA StoreSize ==
    /\ Sized(EndpointTypes, DOMAIN EndpointTypes)
    /\ Total(EndpointTypes, DOMAIN EndpointTypes) = AttributeMaxSize
<1> DEFINE U(i) == Upto(EndpointTypes, 0, i)
<1>1. IsFiniteSet(DOMAIN EndpointTypes)
  <2>1. 1 \in Int /\ 3 \in Int
    OBVIOUS
  <2>2. IsFiniteSet(1 .. 3)
    BY <2>1, FS_Interval, Zenon
  <2> QED BY <2>2, EndpointTable
<1>2. Sized(EndpointTypes, DOMAIN EndpointTypes)
  <2>1. 34 \in Nat /\ \A i \in DOMAIN EndpointTypes : EndpointTypes[i].bytes \in 0 .. 34
    BY EndpointTable
  <2> QED BY <1>1, <2>1 DEF Sized
<1>3. \A i \in 1 .. 3 : U(i) = U(i - 1) + EndpointTypes[0 + i].bytes
  <2>1. 0 + 1 .. 0 + 3 = DOMAIN EndpointTypes
    BY EndpointTable
  <2>2. Sized(EndpointTypes, 0 + 1 .. 0 + 3)
    BY <1>2, <2>1, Zenon
  <2> QED BY <2>2, UptoNext, 0 \in Nat, 3 \in Nat
<1>4. U(0) = 0
  BY UptoNone
<1>5. U(3) = Total(EndpointTypes, DOMAIN EndpointTypes)
  BY EndpointTable DEF Upto
<1> HIDE DEF U
<1>6. U(3) = 55
  BY <1>3, <1>4, EndpointTable
<1> QED BY <1>2, <1>5, <1>6 DEF AttributeMaxSize

\* What the sizes of clusters and attributes are bounded by, and what they add up to.
LEMMA ClusterBounds ==
    ASSUME NEW ep \in 0 .. 2
    PROVE  /\ Sized(Clusters, ClustersOn(ep)) /\ ClustersOn(ep) \subseteq 1 .. 23
           /\ Total(Clusters, ClustersOn(ep)) = EndpointTypes[ep + 1].bytes
<1>1. IsFiniteSet(ClustersOn(ep)) /\ ClustersOn(ep) \subseteq 1 .. 23
  <2>1. EndpointTypes[ep + 1].first \in Nat /\ EndpointTypes[ep + 1].count \in Nat
    BY DEF EndpointTypes
  <2>2. ClustersOn(ep) \subseteq 1 .. 23
    BY EndpointTable
  <2> QED BY <2>1, <2>2, IndexedFinite DEF ClustersOn
<1>2. 12 \in Nat /\ \A k \in 1 .. 23 : Clusters[k].bytes \in 0 .. 12
  BY ClusterTable DEF Entry
<1>3. Sized(Clusters, ClustersOn(ep))
  BY <1>1, <1>2 DEF Sized
<1>4. Total(Clusters, ClustersOn(ep)) = EndpointTypes[ep + 1].bytes
  <2>1. CASE ep = 0
    BY <2>1, EndpointTable, EndpointSizes
  <2>2. CASE ep = 1
    BY <2>2, EndpointTable, EndpointSizes
  <2>3. CASE ep = 2
    BY <2>3, EndpointTable, EndpointSizes
  <2> QED BY <2>1, <2>2, <2>3
<1> QED BY <1>1, <1>3, <1>4

LEMMA IndexedNat ==
    ASSUME NEW k \in 1 .. 23
    PROVE  /\ Clusters[k].first \in Nat /\ Clusters[k].count \in Nat
           /\ Clusters[k].first + Clusters[k].count <= 152
           /\ IsFiniteSet(Indexed(Clusters[k])) /\ Indexed(Clusters[k]) \subseteq Nat
<1>1. /\ Clusters[k].first \in Nat /\ Clusters[k].count \in Nat
      /\ Clusters[k].first + Clusters[k].count <= 152
  BY ClusterTable DEF Entry
<1> QED BY <1>1, IndexedFinite

LEMMA AttributeBounds ==
    ASSUME NEW k \in 1 .. 23
    PROVE  /\ Sized(Attributes, Indexed(Clusters[k]))
           /\ Indexed(Clusters[k]) \subseteq 1 .. Len(Attributes)
           /\ \A a \in Indexed(Clusters[k]) : Attributes[a] \in Row
           /\ Total(Attributes, Indexed(Clusters[k])) = Clusters[k].bytes
<1>1. /\ Clusters[k].first \in Nat /\ Clusters[k].count \in Nat
      /\ Clusters[k].first + Clusters[k].count <= 152
  BY IndexedNat
<1>2. IsFiniteSet(Indexed(Clusters[k]))
  BY IndexedNat
<1>3. Indexed(Clusters[k]) \subseteq 1 .. Len(Attributes)
  <2>1. Len(Attributes) = 152
    BY RowsLaidOut DEF Laid
  <2> QED BY <1>1, <2>1 DEF Indexed
<1>4. ASSUME NEW a \in Indexed(Clusters[k])
      PROVE  Attributes[a] \in Row
  <2>1. a \in 1 .. Len(Attributes)
    BY <1>3
  <2>2. Attributes \in Seq(Row)
    BY RowsLaidOut DEF Laid
  <2> QED BY <2>1, <2>2
<1>5. \A a \in Indexed(Clusters[k]) : Attributes[a].bytes \in 0 .. 4
  BY <1>4 DEF Row
<1>6. Sized(Attributes, Indexed(Clusters[k]))
  <2>1. 4 \in Nat
    OBVIOUS
  <2> QED BY <1>2, <1>5, <2>1 DEF Sized
<1> QED BY <1>3, <1>4, <1>6, ClusterSizes DEF AddsUp

\* What a stored place refers to.
LEMMA PlaceFields ==
    ASSUME NEW p \in StoredPlaces
    PROVE  /\ p[1] \in 0 .. 2 /\ p[2] \in ClustersOn(p[1]) /\ p[2] \in 1 .. 23
           /\ Clusters[p[2]].server /\ p[3] \in Indexed(Clusters[p[2]])
           /\ Attributes[p[3]].bytes > 0 /\ p[3] \in Nat
           /\ p = <<p[1], p[2], p[3]>>
<1>1. /\ p[1] \in 0 .. 2 /\ p[2] \in ClustersOn(p[1]) /\ p[2] \in 1 .. 23
      /\ Clusters[p[2]].server /\ p[3] \in Indexed(Clusters[p[2]])
      /\ Attributes[p[3]].bytes > 0
      /\ p = <<p[1], p[2], p[3]>>
  BY EndpointTable, ClusterTable DEF StoredPlaces, Places, ServersOn
<1>2. p[3] \in Nat
  BY <1>1, IndexedNat
<1> QED BY <1>1, <1>2

\* On each level what comes before an entry, and the entry, fit into the store, into
\* the endpoint and into the cluster, and come before every later entry.
LEMMA EndpointRoom ==
    ASSUME NEW ep \in 0 .. 2
    PROVE  /\ SizesBefore(EndpointTypes, DOMAIN EndpointTypes, ep + 1) \in Nat
           /\ SizesBefore(EndpointTypes, DOMAIN EndpointTypes, ep + 1)
                + EndpointTypes[ep + 1].bytes <= AttributeMaxSize
           /\ \A e \in 0 .. 2 : ep < e =>
                SizesBefore(EndpointTypes, DOMAIN EndpointTypes, ep + 1)
                + EndpointTypes[ep + 1].bytes
                <= SizesBefore(EndpointTypes, DOMAIN EndpointTypes, e + 1)
<1>1. \A e \in 0 .. 2 : e + 1 \in DOMAIN EndpointTypes
  BY EndpointTable
<1>2. DOMAIN EndpointTypes \subseteq Int
  BY EndpointTable
<1> QED BY <1>1, <1>2, StoreSize, RoomBefore

LEMMA ClusterRoom ==
    ASSUME NEW ep \in 0 .. 2, NEW k \in ClustersOn(ep)
    PROVE  /\ SizesBefore(Clusters, ClustersOn(ep), k) \in Nat /\ Clusters[k].bytes \in Nat
           /\ SizesBefore(Clusters, ClustersOn(ep), k) + Clusters[k].bytes
                <= EndpointTypes[ep + 1].bytes
           /\ \A l \in ClustersOn(ep) : k < l =>
                SizesBefore(Clusters, ClustersOn(ep), k) + Clusters[k].bytes
                <= SizesBefore(Clusters, ClustersOn(ep), l)
<1>1. ClustersOn(ep) \subseteq Int
  BY ClusterBounds
<1> QED BY <1>1, ClusterBounds, RoomBefore

LEMMA AttributeRoom ==
    ASSUME NEW k \in 1 .. 23, NEW a \in Indexed(Clusters[k])
    PROVE  /\ SizesBefore(Attributes, Indexed(Clusters[k]), a) \in Nat
           /\ Attributes[a].bytes \in Nat
           /\ SizesBefore(Attributes, Indexed(Clusters[k]), a) + Attributes[a].bytes
                <= Clusters[k].bytes
           /\ \A b \in Indexed(Clusters[k]) : a < b =>
                SizesBefore(Attributes, Indexed(Clusters[k]), a) + Attributes[a].bytes
                <= SizesBefore(Attributes, Indexed(Clusters[k]), b)
<1>1. Indexed(Clusters[k]) \subseteq Int
  BY IndexedNat
<1> QED BY <1>1, AttributeBounds, RoomBefore

\* A stored attribute lies within the store.
LEMMA InStore ==
    ASSUME NEW p \in StoredPlaces
    PROVE  /\ Offset(p) \in Nat /\ Attributes[p[3]].bytes \in Nat \ {0}
           /\ Offset(p) + Attributes[p[3]].bytes <= AttributeMaxSize
<1> DEFINE e == SizesBefore(EndpointTypes, DOMAIN EndpointTypes, p[1] + 1)
           c == SizesBefore(Clusters, ClustersOn(p[1]), p[2])
           a == SizesBefore(Attributes, Indexed(Clusters[p[2]]), p[3])
<1>1. e \in Nat /\ e + EndpointTypes[p[1] + 1].bytes <= AttributeMaxSize
  BY PlaceFields, EndpointRoom
<1>2. /\ c \in Nat /\ Clusters[p[2]].bytes \in Nat
      /\ c + Clusters[p[2]].bytes <= EndpointTypes[p[1] + 1].bytes
  BY PlaceFields, ClusterRoom
<1>3. /\ a \in Nat /\ Attributes[p[3]].bytes \in Nat
      /\ a + Attributes[p[3]].bytes <= Clusters[p[2]].bytes
  BY PlaceFields, AttributeRoom
<1>4. EndpointTypes[p[1] + 1].bytes \in Nat /\ AttributeMaxSize \in Nat
  BY PlaceFields, EndpointTable DEF AttributeMaxSize
<1>5. Offset(p) = e + c + a /\ Attributes[p[3]].bytes > 0
  BY PlaceFields DEF Offset
<1> HIDE DEF e, c, a
<1> QED BY <1>1, <1>2, <1>3, <1>4, <1>5

\* One that the tables have before another ends before the other starts.
LEMMA Before ==
    ASSUME NEW p \in StoredPlaces, NEW q \in StoredPlaces,
           \/ p[1] < q[1]
           \/ p[1] = q[1] /\ p[2] < q[2]
           \/ p[1] = q[1] /\ p[2] = q[2] /\ p[3] < q[3]
    PROVE  Offset(p) + Attributes[p[3]].bytes <= Offset(q)
<1> DEFINE e(o) == SizesBefore(EndpointTypes, DOMAIN EndpointTypes, o[1] + 1)
           c(o) == SizesBefore(Clusters, ClustersOn(o[1]), o[2])
           a(o) == SizesBefore(Attributes, Indexed(Clusters[o[2]]), o[3])
           bytes(o) == Attributes[o[3]].bytes
<1>1. /\ Offset(p) = e(p) + c(p) + a(p) /\ Offset(q) = e(q) + c(q) + a(q)
      /\ e(p) \in Nat /\ c(p) \in Nat /\ a(p) \in Nat /\ bytes(p) \in Nat
      /\ e(q) \in Nat /\ c(q) \in Nat /\ a(q) \in Nat
  BY PlaceFields, EndpointRoom, ClusterRoom, AttributeRoom DEF Offset
<1>2. /\ c(p) + Clusters[p[2]].bytes <= EndpointTypes[p[1] + 1].bytes
      /\ a(p) + bytes(p) <= Clusters[p[2]].bytes
      /\ Clusters[p[2]].bytes \in Nat
  BY PlaceFields, ClusterRoom, AttributeRoom
<1>3. EndpointTypes[p[1] + 1].bytes \in Nat
  BY PlaceFields, EndpointTable
<1>4. ASSUME p[1] < q[1]
      PROVE  e(p) + EndpointTypes[p[1] + 1].bytes <= e(q)
  BY <1>4, PlaceFields, EndpointRoom
<1>5. ASSUME p[1] = q[1], p[2] < q[2]
      PROVE  e(p) = e(q) /\ c(p) + Clusters[p[2]].bytes <= c(q)
  BY <1>5, PlaceFields, ClusterRoom
<1>6. ASSUME p[1] = q[1], p[2] = q[2], p[3] < q[3]
      PROVE  e(p) = e(q) /\ c(p) = c(q) /\ a(p) + bytes(p) <= a(q)
  BY <1>6, PlaceFields, AttributeRoom
<1>7. bytes(p) = Attributes[p[3]].bytes
  OBVIOUS
<1> HIDE DEF e, c, a, bytes
<1> QED BY <1>1, <1>2, <1>3, <1>4, <1>5, <1>6, <1>7

\* No two stored attributes share a byte.
LEMMA Apart ==
    ASSUME NEW p \in StoredPlaces, NEW q \in StoredPlaces, p # q
    PROVE  \/ Offset(p) + Attributes[p[3]].bytes <= Offset(q)
           \/ Offset(q) + Attributes[q[3]].bytes <= Offset(p)
<1>1. p[1] # q[1] \/ p[2] # q[2] \/ p[3] # q[3]
  <2> SUFFICES ASSUME p[1] = q[1], p[2] = q[2], p[3] = q[3] PROVE p = q
    OBVIOUS
  <2>1. p = <<p[1], p[2], p[3]>> /\ q = <<q[1], q[2], q[3]>>
    BY PlaceFields
  <2> QED BY <2>1
<1>2. /\ p[1] \in Int /\ p[2] \in Int /\ p[3] \in Int
      /\ q[1] \in Int /\ q[2] \in Int /\ q[3] \in Int
  BY PlaceFields
<1> QED BY <1>1, <1>2, Before

-----------------------------------------------------------------------------
(* The names of the stored attributes.                                     *)

\* No endpoint has two clusters with the same id.
LEMMA ServerIdsDiffer ==
    ASSUME NEW ep \in 0 .. 2, NEW k \in ClustersOn(ep), NEW l \in ClustersOn(ep),
           Clusters[k].id = Clusters[l].id
    PROVE  k = l
<1>1. CASE ep = 0
  <2>1. /\ Clusters[1].id = Descriptor /\ Clusters[2].id = AccessControl
        /\ Clusters[3].id = BasicInformation /\ Clusters[4].id = OtaProvider
        /\ Clusters[5].id = OtaRequestor /\ Clusters[6].id = GeneralCommissioning
        /\ Clusters[7].id = NetworkCommissioning /\ Clusters[8].id = GeneralDiagnostics
        /\ Clusters[9].id = AdministratorCommissioning
        /\ Clusters[10].id = OperationalCredentials /\ Clusters[11].id = GroupKeyManagement
    BY ClusterTable DEF Entry
  <2>2. k \in 1 .. 11 /\ l \in 1 .. 11
    BY <1>1, EndpointTable
  <2> QED BY <2>1, <2>2, ClusterIdsDiffer
<1>2. CASE ep = 1
  <2>1. /\ Clusters[12].id = Identify /\ Clusters[13].id = Descriptor
        /\ Clusters[14].id = AirQuality /\ Clusters[15].id = TemperatureMeasurement
        /\ Clusters[16].id = RelativeHumidityMeasurement /\ Clusters[17].id = CarbonDioxide
        /\ Clusters[18].id = Pm25 /\ Clusters[19].id = Pm1 /\ Clusters[20].id = Pm10
    BY ClusterTable DEF Entry
  <2>2. k \in 12 .. 20 /\ l \in 12 .. 20
    BY <1>2, EndpointTable
  <2> QED BY <2>1, <2>2, ClusterIdsDiffer
<1>3. CASE ep = 2
  BY <1>3, EndpointTable, ClusterTable, ClusterIdsDiffer DEF Entry
<1> QED BY <1>1, <1>2, <1>3

\* No two attributes of a cluster have the same id.
Distinct(rows) == \A i, j \in 1 .. Len(rows) : rows[i].id = rows[j].id => i = j

LEMMA DistinctRows ==
    /\ Distinct(OtaRequestorRows) /\ Distinct(AdministratorCommissioningRows)
    /\ Distinct(AirQualityClusterRows) /\ Distinct(MeasurementRows)
    /\ Distinct(ConcentrationRows) /\ Distinct(TemperatureClusterRows)
<1> USE DEF Distinct, Rows, External, ExternalWritable, ExternalNullable, Stored, StoredNull,
        Globals, FeatureMap, ClusterRevision
<1>1. Distinct(OtaRequestorRows)
  BY DEF OtaRequestorRows
<1>2. Distinct(AdministratorCommissioningRows)
  BY DEF AdministratorCommissioningRows
<1>3. Distinct(AirQualityClusterRows)
  BY DEF AirQualityClusterRows
<1>4. Distinct(MeasurementRows)
  BY DEF MeasurementRows
<1>5. Distinct(ConcentrationRows)
  BY DEF ConcentrationRows
<1>6. Distinct(TemperatureClusterRows)
  BY DEF TemperatureClusterRows
<1> QED BY <1>1, <1>2, <1>3, <1>4, <1>5, <1>6

\* A cluster with a stored attribute has each id once.
LEMMA StoredRows ==
    ASSUME NEW p \in StoredPlaces
    PROVE  \E rows : Has(p[2], rows) /\ Distinct(rows)
<1>1. /\ p[2] \in 1 .. 23 /\ p[3] \in Indexed(Clusters[p[2]]) /\ Attributes[p[3]].bytes > 0
  BY PlaceFields
<1>2. ASSUME NEW rows, Has(p[2], rows) PROVE ~NothingStored(rows)
  BY <1>1, <1>2, RowOfCluster DEF NothingStored
<1>3. p[2] # 4
  BY <1>1, ClusterTable DEF Entry, Indexed
<1>4. p[2] \in {5, 9} \cup 14 .. 20 \cup {23}
  BY <1>1, <1>2, <1>3, ClustersHaveRows, ExternalRows
<1> QED BY <1>4, ClustersHaveRows, DistinctRows

\* The SDK finds a stored attribute by its name.
LEMMA NamedOnce ==
    ASSUME NEW p \in StoredPlaces
    PROVE  PlaceOf(NameOf(p)) = p
<1> DEFINE k == p[2]
           a == p[3]
           n == NameOf(p)
           found == CHOOSE c \in ServersNamed(n.ep, n.cluster) : TRUE
<1>1. /\ p[1] \in 0 .. 2 /\ k \in ClustersOn(p[1]) /\ Clusters[k].server
      /\ a \in Indexed(Clusters[k]) /\ p = <<p[1], k, a>>
  BY PlaceFields
<1>2. n.ep = p[1] /\ n.cluster = Clusters[k].id /\ n.id = Attributes[a].id
  BY DEF NameOf, Name
<1>3. ServersNamed(n.ep, n.cluster) = {k}
  BY <1>1, <1>2, ServerIdsDiffer, EndpointTable DEF ServersNamed, ServersOn
<1>4. found = k
  BY <1>3
<1>5. AttributesNamed(k, n.id) = {a}
  <2>1. PICK rows : Has(k, rows) /\ Distinct(rows)
    BY StoredRows
  <2>2. ASSUME NEW b \in Indexed(Clusters[k]), Attributes[b].id = Attributes[a].id PROVE b = a
    <3>1. /\ a - Clusters[k].first \in 1 .. Len(rows)
          /\ b - Clusters[k].first \in 1 .. Len(rows)
          /\ Attributes[a] = rows[a - Clusters[k].first]
          /\ Attributes[b] = rows[b - Clusters[k].first]
      BY <1>1, <2>1, RowOfCluster
    <3>2. a - Clusters[k].first = b - Clusters[k].first
      BY <2>1, <2>2, <3>1 DEF Distinct
    <3>3. a \in Nat /\ b \in Nat /\ Clusters[k].first \in Nat
      BY <1>1, PlaceFields, IndexedNat
    <3> QED BY <3>2, <3>3
  <2> QED BY <1>1, <1>2, <2>2 DEF AttributesNamed
<1>6. (CHOOSE b \in AttributesNamed(k, n.id) : TRUE) = a
  BY <1>5
<1>7. PlaceOf(n) = <<n.ep, found, CHOOSE b \in AttributesNamed(found, n.id) : TRUE>>
  BY DEF PlaceOf
<1> HIDE DEF n, found, k, a
<1> QED BY <1>1, <1>2, <1>4, <1>6, <1>7 DEF n

-----------------------------------------------------------------------------
(* The store, write by write.                                              *)

\* Intervals of x and y numbers, where they end.
LEMMA Intervals ==
    ASSUME NEW a \in Nat, NEW x \in Nat \ {0}
    PROVE  /\ a .. a + x - 1 # {}
           /\ \A size \in Nat : a + x <= size => a .. a + x - 1 \subseteq 0 .. size - 1
           /\ \A b \in Nat, y \in Nat : a + x <= b =>
                \A i \in a .. a + x - 1 : i \notin b .. b + y - 1
<1>1. a \in a .. a + x - 1
  OBVIOUS
<1> QED BY <1>1

\* A stored attribute's name leads to its bytes, which are in the store.
LEMMA BytesFound ==
    ASSUME NEW p \in StoredPlaces
    PROVE  /\ NameOf(p) \in DOMAIN BytesOf
           /\ BytesOf[NameOf(p)] = Offset(p) .. Offset(p) + Attributes[p[3]].bytes - 1
           /\ BytesOf[NameOf(p)] # {}
           /\ BytesOf[NameOf(p)] \subseteq 0 .. AttributeMaxSize - 1
<1> DEFINE n == NameOf(p)
           names == {NameOf(q) : q \in StoredPlaces}
           bytes(q) == Offset(q) .. Offset(q) + Attributes[q[3]].bytes - 1
<1>1. n \in names
  OBVIOUS
<1>2. BytesOf = [m \in names |-> bytes(PlaceOf(m))]
  BY DEF BytesOf
<1>3. PlaceOf(n) = p
  BY NamedOnce
<1>4. bytes(p) # {} /\ bytes(p) \subseteq 0 .. AttributeMaxSize - 1
  <2>1. AttributeMaxSize \in Nat
    BY DEF AttributeMaxSize
  <2> QED BY <2>1, InStore, Intervals
<1> HIDE DEF n, names, bytes
<1>5. n \in DOMAIN BytesOf /\ BytesOf[n] = bytes(p)
  BY <1>1, <1>2, <1>3
<1> QED BY <1>4, <1>5 DEF n, bytes

LEMMA FromPlace ==
    ASSUME NEW n \in DOMAIN BytesOf
    PROVE  \E p \in StoredPlaces : n = NameOf(p)
<1> DEFINE names == {NameOf(p) : p \in StoredPlaces}
           bytes(q) == Offset(q) .. Offset(q) + Attributes[q[3]].bytes - 1
<1>1. BytesOf = [m \in names |-> bytes(PlaceOf(m))]
  BY DEF BytesOf
<1> HIDE DEF bytes, names
<1>2. DOMAIN BytesOf = names
  BY <1>1
<1> QED BY <1>2 DEF names

\* Attributes with different names share no byte.
LEMMA NamesApart ==
    ASSUME NEW m \in DOMAIN BytesOf, NEW n \in DOMAIN BytesOf, m # n
    PROVE  BytesOf[m] \cap BytesOf[n] = {}
<1>1. PICK p \in StoredPlaces : m = NameOf(p)
  BY FromPlace
<1>2. PICK q \in StoredPlaces : n = NameOf(q)
  BY FromPlace
<1>3. /\ BytesOf[m] = Offset(p) .. Offset(p) + Attributes[p[3]].bytes - 1
      /\ BytesOf[n] = Offset(q) .. Offset(q) + Attributes[q[3]].bytes - 1
  BY <1>1, <1>2, BytesFound
<1>4. /\ Offset(p) \in Nat /\ Attributes[p[3]].bytes \in Nat \ {0}
      /\ Offset(q) \in Nat /\ Attributes[q[3]].bytes \in Nat \ {0}
  BY InStore
<1>5. \/ Offset(p) + Attributes[p[3]].bytes <= Offset(q)
      \/ Offset(q) + Attributes[q[3]].bytes <= Offset(p)
  BY <1>1, <1>2, Apart
<1>6. ASSUME NEW b \in BytesOf[m], b \in BytesOf[n] PROVE FALSE
  BY <1>3, <1>4, <1>5, <1>6, Intervals
<1> QED BY <1>6

\* What was written last to an attribute is in each of its bytes, and null was
\* written only where null can be.
MayBeNull(n) == "nullable" \in Attributes[PlaceOf(n)[3]].flags

StoreInv ==
    /\ DOMAIN store = 0 .. AttributeMaxSize - 1
    /\ loading \subseteq StoredPlaces
    /\ \A n \in DOMAIN written :
          /\ n \in DOMAIN BytesOf
          /\ \A b \in BytesOf[n] : store[b] = [of |-> n, value |-> written[n]]
          /\ written[n] = Null => MayBeNull(n)

\* The tables do not change.
LEMMA TablesStay ==
    /\ BytesOf' = BytesOf /\ StoredPlaces' = StoredPlaces
    /\ \A n : MayBeNull(n)' <=> MayBeNull(n)
BY DEF MayBeNull, BytesOf, StoredPlaces, Places, Offset, PlaceOf, NameOf, Name

\* A write to a stored attribute, of null only where it may be, keeps them all.
LEMMA WriteKeeps ==
    ASSUME StoreInv, NEW n \in DOMAIN BytesOf, NEW value, value = Null => MayBeNull(n),
           Write(n, value), loading' \subseteq loading
    PROVE  StoreInv'
<1>1. store' = [b \in DOMAIN store |->
                  IF b \in BytesOf[n] THEN [of |-> n, value |-> value] ELSE store[b]]
  BY DEF Write
<1>2. written' = [m \in DOMAIN written \cup {n} |-> IF m = n THEN value ELSE written[m]]
  BY DEF Write
<1>3. BytesOf[n] \subseteq DOMAIN store
  BY FromPlace, BytesFound DEF StoreInv
<1>4. DOMAIN store' = DOMAIN store
  BY <1>1
<1>5. ASSUME NEW m \in DOMAIN written'
      PROVE  /\ m \in DOMAIN BytesOf
             /\ \A b \in BytesOf[m] : store'[b] = [of |-> m, value |-> written'[m]]
             /\ written'[m] = Null => MayBeNull(m)
  <2>1. CASE m = n
    <3>1. written'[m] = value
      BY <1>2, <2>1
    <3>2. \A b \in BytesOf[n] : store'[b] = [of |-> n, value |-> value]
      BY <1>1, <1>3
    <3> QED BY <2>1, <3>1, <3>2
  <2>2. CASE m # n
    <3>1. m \in DOMAIN written /\ written'[m] = written[m]
      BY <1>2, <1>5, <2>2
    <3>2. /\ m \in DOMAIN BytesOf
          /\ \A b \in BytesOf[m] : store[b] = [of |-> m, value |-> written[m]]
          /\ written[m] = Null => MayBeNull(m)
      BY <3>1 DEF StoreInv
    <3>3. BytesOf[m] \subseteq DOMAIN store /\ BytesOf[m] \cap BytesOf[n] = {}
      BY <2>2, <3>2, FromPlace, BytesFound, NamesApart DEF StoreInv
    <3>4. \A b \in BytesOf[m] : store'[b] = store[b]
      BY <1>1, <3>3
    <3> QED BY <3>1, <3>2, <3>4
  <2> QED BY <2>1, <2>2
<1>6. loading' \subseteq StoredPlaces
  BY DEF StoreInv
<1> QED BY <1>4, <1>5, <1>6, TablesStay DEF StoreInv

LEMMA StoreStarts == StoreInit => StoreInv
<1> SUFFICES ASSUME StoreInit PROVE StoreInv
  OBVIOUS
<1>1. DOMAIN store = 0 .. AttributeMaxSize - 1 /\ loading = StoredPlaces /\ DOMAIN written = {}
  BY DEF StoreInit
<1> QED BY <1>1 DEF StoreInv

\* A row starts as null only where it may be null.
LEMMA NullDefaults ==
    ASSUME NEW p \in StoredPlaces, DefaultOf(p) = Null
    PROVE  MayBeNull(NameOf(p))
<1>1. Default # Null
  BY StoreAssumption DEF StoreAssumption
<1>2. "startsNull" \in Attributes[p[3]].flags
  BY <1>1 DEF DefaultOf
<1>3. Attributes[p[3]] \in Row
  BY PlaceFields, AttributeBounds
<1>4. Attributes[p[3]].flags \in Flags
  BY <1>3 DEF Row
<1>5. "nullable" \in Attributes[p[3]].flags
  BY <1>2, <1>4 DEF Flags
<1> QED BY <1>5, NamedOnce DEF MayBeNull

LEMMA LoadKeeps ==
    ASSUME StoreInv, LoadDefault
    PROVE  StoreInv'
<1>1. PICK p \in loading : Write(NameOf(p), DefaultOf(p)) /\ loading' = loading \ {p}
  BY DEF LoadDefault
<1>2. p \in StoredPlaces /\ loading' \subseteq loading
  BY <1>1 DEF StoreInv
<1>3. NameOf(p) \in DOMAIN BytesOf
  BY <1>2, BytesFound
<1>4. DefaultOf(p) = Null => MayBeNull(NameOf(p))
  BY <1>2, NullDefaults
<1> QED BY <1>1, <1>2, <1>3, <1>4, WriteKeeps

\* A row with bytes, of a server cluster, is a stored place.
LEMMA PlaceKnown ==
    ASSUME NEW ep \in 0 .. 2, NEW k \in ClustersOn(ep), Clusters[k].server,
           NEW rows, Has(k, rows), NEW i \in 1 .. Len(rows), rows[i].bytes > 0,
           Len(rows) \in Nat
    PROVE  \E p \in StoredPlaces :
               NameOf(p) = Name(ep, Clusters[k].id, rows[i].id) /\ Attributes[p[3]] = rows[i]
<1> DEFINE a == Clusters[k].first + i
           p == <<ep, k, a>>
<1>1. k \in 1 .. 23
  BY ClusterBounds
<1>2. Clusters[k].count = Len(rows) /\ Clusters[k].first \in Nat /\ Attributes[a] = rows[i]
  BY DEF Has, At
<1>3. a \in Indexed(Clusters[k])
  BY <1>2 DEF Indexed
<1>4. a \in 1 .. Len(Attributes)
  BY <1>1, <1>3, AttributeBounds
<1>5. p[1] = ep /\ p[2] = k /\ p[3] = a
  OBVIOUS
<1>6. ep \in Endpoints /\ k \in 1 .. Len(Clusters)
  BY <1>1, EndpointTable, EntriesLaidOut
<1> HIDE DEF a
<1>7. p \in Places
  BY <1>3, <1>4, <1>6 DEF Places, ServersOn
<1>8. p \in StoredPlaces
  BY <1>2, <1>7 DEF StoredPlaces
<1>9. NameOf(p) = Name(ep, Clusters[k].id, rows[i].id)
  BY <1>2 DEF NameOf
<1>10. Attributes[p[3]] = rows[i]
  BY <1>2, <1>5
<1> HIDE DEF p
<1> QED BY <1>8, <1>9, <1>10

\* The rows written at run time.
LEMMA WrittenRows ==
    /\ OtaRequestorRows[2].id = 1 /\ OtaRequestorRows[3].id = 2 /\ OtaRequestorRows[4].id = 3
    /\ MeasurementRows[1].id = 0 /\ "nullable" \in MeasurementRows[1].flags
    /\ TemperatureClusterRows[1].id = 0 /\ "nullable" \in TemperatureClusterRows[1].flags
<1> USE DEF Rows, External, ExternalWritable, Stored, StoredNull
<1>1. OtaRequestorRows[2].id = 1 /\ OtaRequestorRows[3].id = 2 /\ OtaRequestorRows[4].id = 3
  BY DEF OtaRequestorRows
<1>2. MeasurementRows[1].id = 0 /\ "nullable" \in MeasurementRows[1].flags
  BY DEF MeasurementRows
<1>3. TemperatureClusterRows[1].id = 0 /\ "nullable" \in TemperatureClusterRows[1].flags
  BY DEF TemperatureClusterRows
<1> QED BY <1>1, <1>2, <1>3

\* What is written at run time is in the store: the OTA requestor's attributes on
\* endpoint 0, and the measured values of endpoints 1 and 2, which may be null.
LEMMA OtaIsStored ==
    ASSUME NEW id \in 1 .. 3
    PROVE  Name(0, OtaRequestor, id) \in DOMAIN BytesOf
<1> DEFINE i == id + 1
<1>1. /\ i \in 1 .. Len(OtaRequestorRows) /\ Len(OtaRequestorRows) \in Nat
      /\ OtaRequestorRows[i].bytes > 0 /\ OtaRequestorRows[i].id = id
  <2>1. Len(OtaRequestorRows) = 6
    BY ClusterRows DEF Laid
  <2>2. CASE id = 1
    BY <2>1, <2>2, StoredSizes, WrittenRows
  <2>3. CASE id = 2
    BY <2>1, <2>3, StoredSizes, WrittenRows
  <2>4. CASE id = 3
    BY <2>1, <2>4, StoredSizes, WrittenRows
  <2> QED BY <2>2, <2>3, <2>4
<1>2. 5 \in ClustersOn(0) /\ Clusters[5].id = OtaRequestor /\ Clusters[5].server
  BY EndpointTable, ClusterTable, ClusterIdsDiffer DEF Entry
<1>3. Has(5, OtaRequestorRows)
  BY ClustersHaveRows
<1> HIDE DEF i
<1>4. PICK p \in StoredPlaces : NameOf(p) = Name(0, OtaRequestor, id)
  <2>1. PICK p \in StoredPlaces :
          NameOf(p) = Name(0, Clusters[5].id, OtaRequestorRows[i].id)
    BY <1>1, <1>2, <1>3, PlaceKnown
  <2> QED BY <1>1, <1>2, <2>1
<1> QED BY <1>4, BytesFound

LEMMA MeasuredIsStored ==
    ASSUME NEW n \in Temperatures \cup Humidities
    PROVE  n \in DOMAIN BytesOf /\ MayBeNull(n)
<1>1. \E p \in StoredPlaces : NameOf(p) = n /\ "nullable" \in Attributes[p[3]].flags
  <2>1. \/ n = Name(1, TemperatureMeasurement, 0) \/ n = Name(2, TemperatureMeasurement, 0)
        \/ n = Name(1, RelativeHumidityMeasurement, 0)
    BY DEF Temperatures, Humidities, kEndpointId, kTemperatureEndpointId
  <2>2. /\ 15 \in ClustersOn(1) /\ 16 \in ClustersOn(1) /\ 23 \in ClustersOn(2)
        /\ Clusters[15].id = TemperatureMeasurement /\ Clusters[15].server
        /\ Clusters[16].id = RelativeHumidityMeasurement /\ Clusters[16].server
        /\ Clusters[23].id = TemperatureMeasurement /\ Clusters[23].server
    BY EndpointTable, ClusterTable, ClusterIdsDiffer DEF Entry
  <2>3. /\ Len(MeasurementRows) = 5 /\ MeasurementRows[1].bytes > 0
        /\ Len(TemperatureClusterRows) = 5 /\ TemperatureClusterRows[1].bytes > 0
    BY ClusterRows, StoredSizes DEF Laid
  <2>4. Has(15, MeasurementRows) /\ Has(16, MeasurementRows) /\ Has(23, TemperatureClusterRows)
    BY ClustersHaveRows
  <2>5. CASE n = Name(1, TemperatureMeasurement, 0)
    <3>1. PICK p \in StoredPlaces : /\ NameOf(p) = Name(1, Clusters[15].id, MeasurementRows[1].id)
                                    /\ Attributes[p[3]] = MeasurementRows[1]
      BY <2>2, <2>3, <2>4, PlaceKnown
    <3> QED BY <2>2, <2>5, <3>1, WrittenRows
  <2>6. CASE n = Name(1, RelativeHumidityMeasurement, 0)
    <3>1. PICK p \in StoredPlaces : /\ NameOf(p) = Name(1, Clusters[16].id, MeasurementRows[1].id)
                                    /\ Attributes[p[3]] = MeasurementRows[1]
      BY <2>2, <2>3, <2>4, PlaceKnown
    <3> QED BY <2>2, <2>6, <3>1, WrittenRows
  <2>7. CASE n = Name(2, TemperatureMeasurement, 0)
    <3>1. PICK p \in StoredPlaces :
            /\ NameOf(p) = Name(2, Clusters[23].id, TemperatureClusterRows[1].id)
            /\ Attributes[p[3]] = TemperatureClusterRows[1]
      BY <2>2, <2>3, <2>4, PlaceKnown
    <3> QED BY <2>2, <2>7, <3>1, WrittenRows
  <2> QED BY <2>1, <2>5, <2>6, <2>7
<1>2. PICK p \in StoredPlaces : NameOf(p) = n /\ "nullable" \in Attributes[p[3]].flags
  BY <1>1
<1> QED BY <1>2, BytesFound, NamedOnce DEF MayBeNull

LEMMA SetKeeps ==
    ASSUME StoreInv, ApplyReading \/ OtaReports
    PROVE  StoreInv'
<1>1. CASE ApplyReading
  <2>1. PICK n \in Temperatures \cup Humidities, value \in Readings \cup {Null} : Set(n, value)
    BY <1>1 DEF ApplyReading
  <2> QED BY <2>1, MeasuredIsStored, WriteKeeps DEF Set
<1>2. CASE OtaReports
  <2>1. PICK id \in 1 .. 3, value \in Readings : Set(Name(0, OtaRequestor, id), value)
    BY <1>2 DEF OtaReports
  <2>2. value # Null
    BY StoreAssumption DEF StoreAssumption
  <2> QED BY <2>1, <2>2, OtaIsStored, WriteKeeps DEF Set
<1> QED BY <1>1, <1>2

\* For every reading, every order of the writes, and every moment of startup.
LEMMA StoreInvariant == NodeSpec => []StoreInv
<1>1. NodeInit => StoreInv
  BY StoreStarts DEF NodeInit
<1>2. StoreInv /\ [NodeNext]_nodeVars => StoreInv'
  <2> SUFFICES ASSUME StoreInv, [NodeNext]_nodeVars PROVE StoreInv'
    OBVIOUS
  <2>1. CASE UNCHANGED storeVars
    BY <2>1, TablesStay DEF storeVars, StoreInv
  <2>2. CASE LoadDefault
    BY <2>2, LoadKeeps
  <2>3. CASE ApplyReading \/ OtaReports
    BY <2>3, SetKeeps
  <2>4. LoadDefault \/ ApplyReading \/ OtaReports \/ UNCHANGED storeVars
    BY DEF NodeNext, nodeVars, LoadsStore, StartsCluster, ServerReady, ThreadStep,
         AttributesChange, ClientStep
  <2> QED BY <2>1, <2>2, <2>3, <2>4
<1> QED BY <1>1, <1>2, PTL DEF NodeSpec

\* The sizes in the three generated tables agree, so that no write disturbs another
\* attribute, for any values written in any order: each attribute keeps, and
\* each client reads, what was last written to it.
THEOREM NodeHoldsItsValues == NodeSpec => []EachHoldsItsValue
<1>1. StoreInv => EachHoldsItsValue
  <2> SUFFICES ASSUME StoreInv, NEW n \in DOMAIN written
               PROVE  /\ n \in DOMAIN BytesOf /\ BytesOf[n] \subseteq DOMAIN store
                      /\ \A b \in BytesOf[n] : store[b] = [of |-> n, value |-> written[n]]
                      /\ Read(n) = written[n]
    BY DEF EachHoldsItsValue
  <2>1. /\ n \in DOMAIN BytesOf
        /\ \A b \in BytesOf[n] : store[b] = [of |-> n, value |-> written[n]]
        /\ written[n] = Null => MayBeNull(n)
    BY DEF StoreInv
  <2>2. BytesOf[n] \subseteq DOMAIN store /\ BytesOf[n] # {}
    BY <2>1, FromPlace, BytesFound DEF StoreInv
  <2> DEFINE first == CHOOSE b \in BytesOf[n] : TRUE
  <2>3. first \in BytesOf[n]
    BY <2>2
  <2>4. store[first].value = written[n]
    BY <2>1, <2>3
  <2>5. Read(n) = IF store[first].value = Null /\ "nullable" \notin Attributes[PlaceOf(n)[3]].flags
                  THEN Default ELSE store[first].value
    BY DEF Read
  <2>6. Read(n) = written[n]
    BY <2>1, <2>4, <2>5 DEF MayBeNull
  <2> QED BY <2>1, <2>2, <2>6
<1> QED BY <1>1, StoreInvariant, PTL
=============================================================================
