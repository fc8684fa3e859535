------------------------- MODULE MCMeasurementPolicy -------------------------
(***************************************************************************)
(* A small instance of MeasurementPolicy: two channels with different      *)
(* thresholds, three readings, three backoff delays.                       *)
(***************************************************************************)
EXTENDS MeasurementPolicy

CONSTANTS co2, pm

\* co2 is announced when it moves by 2, pm when it moves by 1.
MCChangeThreshold == [c \in {co2, pm} |-> IF c = co2 THEN 2 ELSE 1]

MCBackoffSteps == <<2, 3, 4>>
=============================================================================
