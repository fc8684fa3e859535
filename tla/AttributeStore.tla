---------------------------- MODULE AttributeStore -----------------------------
(***************************************************************************)
(* The attributes the node keeps in RAM: one array of ATTRIBUTE_MAX_SIZE   *)
(* bytes in which the SDK finds an attribute by adding up the sizes that   *)
(* the generated tables give for the endpoints, clusters and attributes    *)
(* before it.  The sizes are three separate tables; nothing in the program *)
(* checks that they agree, and a disagreement makes the adapter's reading  *)
(* land in another cluster's attribute.                                    *)
(*                                                                         *)
(* A byte holds the value of the attribute it was last written for, and    *)
(* that attribute's name.                                                  *)
(***************************************************************************)
EXTENDS DataModel

CONSTANTS
    Null,           \* the null of a nullable attribute
    Default,        \* any other default value
    Readings        \* the values written at run time

\* Null is written with SetNull, never as a value.
ASSUME StoreAssumption == Null \notin Readings \cup {Default}

VARIABLES
    store,          \* the bytes
    loading,        \* the places whose default is not yet in the store
    written         \* by attribute, the value last written to it

storeVars == <<store, loading, written>>

\* The rows of the server clusters, each with its endpoint and its cluster, and
\* the name a row has there.
Places ==
    {p \in Endpoints \X (1 .. Len(Clusters)) \X (1 .. Len(Attributes)) :
        p[2] \in ServersOn(p[1]) /\ p[3] \in Indexed(Clusters[p[2]])}

Name(ep, cluster, id) == [ep |-> ep, cluster |-> cluster, id |-> id]
NameOf(p) == Name(p[1], Clusters[p[2]].id, Attributes[p[3]].id)

\* Where the SDK finds a name: the cluster first, then the attribute.
PlaceOf(n) ==
    LET k == CHOOSE c \in ServersNamed(n.ep, n.cluster) : TRUE
    IN  <<n.ep, k, CHOOSE a \in AttributesNamed(k, n.id) : TRUE>>

\* The places with bytes in the store.
StoredPlaces == {p \in Places : Attributes[p[3]].bytes > 0}

\* The bytes, one by one, of some rows of a table with sizes, and how many of
\* them come before row i.
BytesOfRows(table, rows) == UNION {{r} \X (1 .. table[r].bytes) : r \in rows}
SizesBefore(table, rows, i) == Cardinality(BytesOfRows(table, {r \in rows : r < i}))

\* The offset of a stored attribute: after the endpoints before its own, the
\* clusters before its own and the attributes before it.
Offset(p) ==
    SizesBefore(EndpointTypes, DOMAIN EndpointTypes, p[1] + 1)
    + SizesBefore(Clusters, ClustersOn(p[1]), p[2])
    + SizesBefore(Attributes, Indexed(Clusters[p[2]]), p[3])

BytesOf ==
    [n \in {NameOf(p) : p \in StoredPlaces} |->
        LET p == PlaceOf(n)
        IN  Offset(p) .. Offset(p) + Attributes[p[3]].bytes - 1]

\* A byte nothing was written to: no cluster has id 0.
NothingYet == [of |-> Name(0, 0, 0), value |-> Default]

Write(n, value) ==
    /\ store' = IF n \in DOMAIN BytesOf
                THEN [b \in DOMAIN store |->
                        IF b \in BytesOf[n] THEN [of |-> n, value |-> value] ELSE store[b]]
                ELSE store
    /\ written' = [m \in DOMAIN written \cup {n} |-> IF m = n THEN value ELSE written[m]]

DefaultOf(p) == IF "startsNull" \in Attributes[p[3]].flags THEN Null ELSE Default

StoreInit ==
    /\ store = [b \in 0 .. AttributeMaxSize - 1 |-> NothingYet]
    /\ loading = StoredPlaces
    /\ written = [n \in {} |-> Default]

\* Server::Init loads the defaults, attribute by attribute, in the tables' order.
LoadDefault ==
    \E p \in loading :
        /\ \A q \in loading : p[3] <= q[3]
        /\ Write(NameOf(p), DefaultOf(p))
        /\ loading' = loading \ {p}

Set(n, value) ==
    /\ loading = {}
    /\ Write(n, value)
    /\ UNCHANGED loading

\* The attributes ApplyLatestMeasurement writes; the concentrations and the
\* air quality keep theirs in the cluster instances.
kEndpointId == 1
kTemperatureEndpointId == 2
Temperatures == {Name(ep, TemperatureMeasurement, 0) : ep \in {kEndpointId, kTemperatureEndpointId}}
Humidities == {Name(kEndpointId, RelativeHumidityMeasurement, 0)}

ApplyReading ==
    \E n \in Temperatures \cup Humidities, value \in Readings \cup {Null} : Set(n, value)

\* The OTA requestor of the SDK: UpdatePossible, UpdateState and its progress.
OtaReports ==
    \E id \in 1 .. 3, value \in Readings : Set(Name(0, OtaRequestor, id), value)

-----------------------------------------------------------------------------
(* Properties.                                                             *)

\* A client that reads an attribute gets null only from a nullable one.
Read(n) ==
    LET byte == store[CHOOSE b \in BytesOf[n] : TRUE]
    IN  IF byte.value = Null /\ "nullable" \notin Attributes[PlaceOf(n)[3]].flags
        THEN Default ELSE byte.value

\* Every write of the adapter finds its attribute, in RAM and nullable; every
\* byte of every attribute holds what was last written to that attribute, the
\* attributes stay inside the array, and a null reads as null: no write on
\* one endpoint or cluster disturbs another, whatever their order.
EachHoldsItsValue ==
    \A n \in DOMAIN written :
        /\ n \in DOMAIN BytesOf /\ BytesOf[n] \subseteq DOMAIN store
        /\ \A b \in BytesOf[n] : store[b] = [of |-> n, value |-> written[n]]
        /\ Read(n) = written[n]
=============================================================================
