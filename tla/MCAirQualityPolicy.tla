------------------------- MODULE MCAirQualityPolicy --------------------------
(***************************************************************************)
(* Readings that change one channel at a time, around every breakpoint.    *)
(***************************************************************************)
EXTENDS AirQualityPolicy

CONSTANTS
    Invalid,        \* the reading of a channel whose validity bit is clear
    LevelReadings   \* the readings each channel takes

ASSUME LevelAssumption ==
    LevelReadings \in [AirQualityChannels -> SUBSET Words]

VARIABLE readings   \* the three channels of a frame

\* Around every bound, and both ends of the word.
Around(c) ==
    LET bounds == {Breakpoints[c][i] : i \in 1 .. 5}
    IN  bounds \cup {b + 1 : b \in bounds} \cup {0, 65534}

AroundBounds == [c \in AirQualityChannels |-> Around(c)]

InputsOf(r) == [c \in {a \in AirQualityChannels : r[a] # Invalid} |-> r[c]]

LevelInit == readings = [c \in AirQualityChannels |-> Invalid]

LevelNext == \E c \in AirQualityChannels : \E r \in LevelReadings[c] \cup {Invalid} :
           readings' = [readings EXCEPT ![c] = r]

LevelSpec == LevelInit /\ [][LevelNext]_readings

LevelOf(c) == ClassifyChannel(readings[c], Breakpoints[c])
ValidChannels == DOMAIN InputsOf(readings)

\* docs/air-quality-policy.md's tables: the category of a reading is one more
\* than the number of bounds it exceeds.
CountsExceededBounds ==
    \A c \in ValidChannels :
        LevelOf(c) =
           Good + (IF readings[c] > Breakpoints[c][1] THEN 1 ELSE 0)
                + (IF readings[c] > Breakpoints[c][2] THEN 1 ELSE 0)
                + (IF readings[c] > Breakpoints[c][3] THEN 1 ELSE 0)
                + (IF readings[c] > Breakpoints[c][4] THEN 1 ELSE 0)
                + (IF readings[c] > Breakpoints[c][5] THEN 1 ELSE 0)

\* docs/air-quality-policy.md, "Aggregation rule", as EvaluateAirQuality
\* computes it: the overall level is the worst of the valid channels', each of
\* which may drop out, and Unknown only without any.
WorstValidDecides ==
    LET level == EvaluateAirQuality(InputsOf(readings))
    IN  IF ValidChannels = {} THEN level = Unknown
        ELSE /\ \A c \in ValidChannels : LevelOf(c) <= level
             /\ \E c \in ValidChannels : LevelOf(c) = level
=============================================================================
