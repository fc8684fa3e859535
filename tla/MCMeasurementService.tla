------------------------ MODULE MCMeasurementService -------------------------
(***************************************************************************)
(* Small instances of MeasurementService.  A threshold of 2 on readings    *)
(* 0..2 lets a channel drift in steps below the threshold.                 *)
(***************************************************************************)
EXTENDS MeasurementService

CONSTANTS co2

MCChangeThreshold == [c \in Channels |-> 2]

MCBackoffSteps == <<2, 3>>

\* The part of the shell's comment, one that NACKs reads while it is idle.
NackingPart == {[startNacked |-> TRUE, idleAnswers |-> FALSE]}
=============================================================================
