------------------------------- MODULE MCThreads -------------------------------
(***************************************************************************)
(* The threads that share the sensor and the snapshot: the main thread     *)
(* starts the sensor, the poll thread uses it and publishes, the shell     *)
(* uses it (`sen66 read`, `sen66 serial`) or copies the snapshot (`sen66   *)
(* latest`), and so does the CHIP thread.  The bus and the snapshot share  *)
(* no state: bound, each is used only while the other is as it was at      *)
(* first.                                                                  *)
(***************************************************************************)
EXTENDS Sen66Shell, SnapshotMutex

CONSTANT chip

threadVars == <<allVars, snapshotVars>>

ThreadsInit == ShellInit /\ SnapshotInit

BusStep(A) == SnapshotInit /\ A /\ UNCHANGED snapshotVars
SnapshotStep == ShellInit /\ SnapshotNext /\ UNCHANGED allVars

ThreadsNext == BusStep(ShellNext) \/ SnapshotStep

ThreadsSpec ==
    /\ ThreadsInit /\ [][ThreadsNext]_threadVars
    /\ \A c \in Callers : WF_threadVars(BusStep(DriverStep(c)))
    /\ WF_threadVars(BusStep(CarryOn))
=============================================================================
