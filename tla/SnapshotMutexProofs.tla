------------------------- MODULE SnapshotMutexProofs -------------------------
(***************************************************************************)
(* For any readers, members and values: the snapshot under its mutex is    *)
(* atomic.                                                                 *)
(***************************************************************************)
EXTENDS SnapshotMutex, TLAPS

\* What a copy in progress has achieved so far.  Both halves are needed: the
\* writer's to know what is published when it lets go, a reader's to know that
\* what it copied first has not changed since.
CopyInProgress ==
    /\ owner = NoThread => copied = {}
    /\ owner = writer => \A f \in copied : shared[f] = incoming[f]
    /\ \A r \in Readers :
          owner = r => \A f \in copied : out[r][f] = shared[f]

IInv == SnapshotTypeOK /\ CopyInProgress

USE SnapshotAssumption DEF SnapshotAssumption

LEMMA InitIInv == SnapshotInit => IInv
  BY DEF SnapshotInit, IInv, SnapshotTypeOK, CopyInProgress, Snapshots, Empty

\* The mutex is free when it is taken, so nothing is copied yet; a member
\* stored or copied agrees with its source as long as the mutex is held.
LEMMA NextIInv == IInv /\ [SnapshotNext]_snapshotVars => IInv'
<1> SUFFICES ASSUME IInv, [SnapshotNext]_snapshotVars PROVE IInv'
  OBVIOUS
<1> USE DEF IInv, SnapshotTypeOK, CopyInProgress
<1>1. CASE UNCHANGED snapshotVars
  BY <1>1 DEF snapshotVars
<1>2. CASE BeginPublish
  BY <1>2 DEF BeginPublish, Free
<1>3. CASE EndPublish
  BY <1>3 DEF EndPublish, Unlock
<1>4. ASSUME NEW f \in Fields, StoreField(f) PROVE IInv'
  <2>1. SnapshotTypeOK'
    BY <1>4 DEF StoreField, Snapshots
  <2>2. CopyInProgress'
    BY <1>4 DEF StoreField, Snapshots
  <2> QED BY <2>1, <2>2
<1>5. ASSUME NEW r \in Readers, BeginGet(r) PROVE IInv'
  BY <1>5 DEF BeginGet, Free
<1>6. ASSUME NEW r \in Readers, EndGet(r) PROVE IInv'
  BY <1>6 DEF EndGet, Unlock
<1>7. ASSUME NEW r \in Readers, NEW f \in Fields, CopyField(r, f) PROVE IInv'
  <2>1. out[r] \in Snapshots /\ out'[r] = [out[r] EXCEPT ![f] = shared[f]]
    BY <1>7 DEF CopyField
  <2>2. out' \in [Readers -> Snapshots]
    <3>1. out'[r] \in Snapshots
      BY <2>1 DEF Snapshots
    <3> QED BY <3>1, <1>7 DEF CopyField
  <2>3. SnapshotTypeOK'
    BY <1>7, <2>2 DEF CopyField
  <2>4. \A g \in copied' : out'[r][g] = shared'[g]
    BY <1>7, <2>1 DEF CopyField, Snapshots
  <2>5. CopyInProgress'
    BY <1>7, <2>4 DEF CopyField
  <2> QED BY <2>3, <2>5
<1> QED BY <1>1, <1>2, <1>3, <1>4, <1>5, <1>6, <1>7 DEF SnapshotNext

THEOREM SnapshotInvariant == SnapshotSpec => []IInv
  BY InitIInv, NextIInv, PTL DEF SnapshotSpec

\* A complete copy equals its source.
LEMMA CompleteCopies ==
    ASSUME IInv, copied = Fields
    PROVE  /\ owner = writer => shared = incoming
           /\ \A r \in Readers : owner = r => out[r] = shared
  BY DEF IInv, SnapshotTypeOK, CopyInProgress, Snapshots

\* Publications and copies take effect when the mutex is taken; no other step
\* shows.
LEMMA StepRefines ==
    IInv /\ [SnapshotNext]_snapshotVars => [OneCopy!AtomicNext]_(OneCopy!atomicVars)
<1> SUFFICES ASSUME IInv, [SnapshotNext]_snapshotVars,
                    ~UNCHANGED <<currentBar, seenBar>>
             PROVE  OneCopy!AtomicNext
  BY DEF OneCopy!atomicVars
<1> USE DEF currentBar, seenBar
<1>1. CASE UNCHANGED snapshotVars
  BY <1>1 DEF snapshotVars
<1>2. CASE BeginPublish
  <2>1. OneCopy!Publish
    BY <1>2 DEF BeginPublish, Free, OneCopy!Publish
  <2> QED BY <2>1 DEF OneCopy!AtomicNext
<1>3. CASE EndPublish
  BY <1>3, CompleteCopies DEF EndPublish, Unlock
<1>4. ASSUME NEW f \in Fields, StoreField(f) PROVE FALSE
  BY <1>4 DEF StoreField
<1>5. ASSUME NEW r \in Readers, BeginGet(r) PROVE OneCopy!AtomicNext
  <2>1. OneCopy!Get(r)
    BY <1>5 DEF BeginGet, Free, OneCopy!Get
  <2> QED BY <2>1 DEF OneCopy!AtomicNext
<1>6. ASSUME NEW r \in Readers, EndGet(r) PROVE FALSE
  BY <1>6, CompleteCopies DEF EndGet, Unlock
<1>7. ASSUME NEW r \in Readers, NEW f \in Fields, CopyField(r, f) PROVE FALSE
  BY <1>7 DEF CopyField, IInv, SnapshotTypeOK
<1> QED BY <1>1, <1>2, <1>3, <1>4, <1>5, <1>6, <1>7 DEF SnapshotNext

\* GetLatest() (measurement_service.cpp:112-117) hands out whole publications
\* of PublishSnapshot() (37-47), the newest one each time.
THEOREM SnapshotNeverTorn == SnapshotSpec => NeverTorn
<1>1. SnapshotInit => OneCopy!AtomicInit
  BY DEF SnapshotInit, OneCopy!AtomicInit, currentBar, seenBar
<1> QED BY <1>1, StepRefines, SnapshotInvariant, PTL
       DEF SnapshotSpec, NeverTorn, OneCopy!AtomicSpec
=============================================================================
