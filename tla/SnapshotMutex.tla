---------------------------- MODULE SnapshotMutex ----------------------------
(***************************************************************************)
(* sSnapshot and sSnapshotMutex (measurement_service.cpp): the work queue  *)
(* stores the snapshot field by field in PublishSnapshot(), and the shell  *)
(* and the Matter adapter copy it out in GetLatest(), each under the       *)
(* mutex.  The compiler may order the copies of the fields as it likes.    *)
(***************************************************************************)
CONSTANTS
    writer,     \* the work-queue thread
    Readers,    \* threads that call GetLatest()
    NoThread,   \* the owner of the free mutex
    Fields,     \* members of struct Snapshot
    Values,     \* what a member can hold
    empty       \* what every member holds at first

ASSUME SnapshotAssumption ==
    /\ writer \notin Readers /\ NoThread \notin Readers \cup {writer}
    /\ empty \in Values

VARIABLES
    owner,      \* the thread between k_mutex_lock and k_mutex_unlock
    copied,     \* the members it has copied
    shared,     \* sSnapshot
    incoming,   \* the locals of PublishSnapshot
    out         \* each reader's copy

snapshotVars == <<owner, copied, shared, incoming, out>>

Snapshots == [Fields -> Values]
Empty == [f \in Fields |-> empty]

SnapshotTypeOK ==
    /\ owner \in Readers \cup {writer, NoThread}
    /\ copied \subseteq Fields
    /\ shared \in Snapshots /\ incoming \in Snapshots
    /\ out \in [Readers -> Snapshots]

SnapshotInit ==
    /\ owner = NoThread /\ copied = {}
    /\ shared = Empty /\ incoming = Empty
    /\ out = [r \in Readers |-> Empty]

-----------------------------------------------------------------------------
Free == owner = NoThread

\* k_mutex_unlock; faulty variant: one member is stored after it.
UnlockEarly ==
    /\ \E f \in Fields : Fields \ {f} \subseteq copied
    /\ owner' = NoThread /\ copied' = {}
Unlock ==
    /\ copied = Fields
    /\ owner' = NoThread /\ copied' = {}

\* PublishSnapshot: Policy::GetLatest() fills the locals, then the mutex.
BeginPublish ==
    /\ Free
    /\ incoming' \in Snapshots
    /\ owner' = writer
    /\ UNCHANGED <<copied, shared, out>>

StoreField(f) ==
    /\ owner = writer /\ f \notin copied
    /\ shared' = [shared EXCEPT ![f] = incoming[f]]
    /\ copied' = copied \cup {f}
    /\ UNCHANGED <<owner, incoming, out>>

EndPublish == owner = writer /\ Unlock /\ UNCHANGED <<shared, incoming, out>>

\* GetLatest; faulty variant: without the mutex.
BeginGetUnlocked(r) ==
    /\ owner # r
    /\ owner' = r /\ copied' = {}
    /\ UNCHANGED <<shared, incoming, out>>
BeginGet(r) ==
    /\ Free
    /\ owner' = r
    /\ UNCHANGED <<copied, shared, incoming, out>>

CopyField(r, f) ==
    /\ owner = r /\ f \notin copied
    /\ out' = [out EXCEPT ![r][f] = shared[f]]
    /\ copied' = copied \cup {f}
    /\ UNCHANGED <<owner, shared, incoming>>

EndGet(r) == owner = r /\ Unlock /\ UNCHANGED <<shared, incoming, out>>

SnapshotNext ==
    \/ BeginPublish \/ EndPublish
    \/ \E f \in Fields : StoreField(f)
    \/ \E r \in Readers :
          BeginGet(r) \/ EndGet(r) \/ \E f \in Fields : CopyField(r, f)

SnapshotSpec == SnapshotInit /\ [][SnapshotNext]_snapshotVars

-----------------------------------------------------------------------------
(* Refinement.  A publication takes effect when the work queue takes the   *)
(* mutex, and so does a copy.                                              *)

currentBar == IF owner = writer THEN incoming ELSE shared
seenBar == [r \in Readers |-> IF owner = r THEN shared ELSE out[r]]

OneCopy == INSTANCE AtomicSnapshot
              WITH current <- currentBar, seen <- seenBar

\* No reader ever sees members of two publications, and what it sees never
\* goes back: the snapshot is atomic (measurement_service.cpp:33-34).
NeverTorn == OneCopy!AtomicSpec
=============================================================================
