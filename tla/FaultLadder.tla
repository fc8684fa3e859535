----------------------------- MODULE FaultLadder -----------------------------
(***************************************************************************)
(* What the measurement service promises about a faulty sensor, without    *)
(* saying how it counts: one level that climbs by one on every failed      *)
(* attempt until it reaches the top, and falls to zero on the first        *)
(* success.  Levels below FailureThreshold are ordinary polling; from      *)
(* FailureThreshold on, the service is in backoff and level -              *)
(* FailureThreshold is the rung whose delay it waits                       *)
(* (docs/measurement-service.md, "Retry, backoff, and recovery").          *)
(***************************************************************************)
EXTENDS Integers

CONSTANTS
    FailureThreshold,   \* failures in a row that start the backoff
    Rungs               \* number of backoff delays

VARIABLE level

Top == FailureThreshold + Rungs - 1

Init == level = 0

Fail == level' = IF level < Top THEN level + 1 ELSE Top

Recover == level' = 0

Next == Fail \/ Recover

Spec == Init /\ [][Next]_level
=============================================================================
