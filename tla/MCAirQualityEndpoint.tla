------------------------ MODULE MCAirQualityEndpoint -------------------------
(***************************************************************************)
(* A small instance of AirQualityEndpoint: CO2 readings 40 ppm apart with  *)
(* the default threshold of 50 ppm, around the bound of Good.              *)
(***************************************************************************)
EXTENDS AirQualityEndpoint

MCChangeThreshold == [c \in Channels |-> 50]

MCBackoffSteps == <<2>>

NackingPart == {[startNacked |-> TRUE, idleAnswers |-> FALSE]}
=============================================================================
