--------------------------- MODULE AtomicSnapshot ----------------------------
(***************************************************************************)
(* What the snapshot of the measurement service promises: the service      *)
(* replaces it as a whole, and a reader is given one whole snapshot.       *)
(***************************************************************************)
CONSTANTS
    Readers,    \* threads that call GetLatest()
    Snapshots,  \* the values of sSnapshot
    Empty       \* its value before the first publication

VARIABLES
    current,    \* the snapshot
    seen        \* what each reader was given last

atomicVars == <<current, seen>>

AtomicInit == current = Empty /\ seen = [r \in Readers |-> Empty]

Publish == current' \in Snapshots /\ UNCHANGED seen

Get(r) == seen' = [seen EXCEPT ![r] = current] /\ UNCHANGED current

AtomicNext == Publish \/ \E r \in Readers : Get(r)

AtomicSpec == AtomicInit /\ [][AtomicNext]_atomicVars
=============================================================================
