--------------------------- MODULE MCSen66Printing ---------------------------
(***************************************************************************)
(* Every reading of a 16-bit channel, one after the other, on the shell's  *)
(* line and in the Matter attribute.                                       *)
(***************************************************************************)
EXTENDS Sen66Printing

VARIABLE reading

ReadingInit == reading = -32768
ReadingNext == reading < 65535 /\ reading' = reading + 1

Units == [pm1p0 |-> 10, humidity |-> 100, temperature |-> 200,
          voc_index |-> 10, co2 |-> 1]

TypeOf(c) == IF c \in {"pm1p0", "co2"} THEN Words ELSE SignedWords

\* What a line shows is the reading in the unit of its channel, to the last
\* digit printed: half a hundredth of a degree is cut off towards zero, and the
\* printed decimals are digits of one number.
PrintedTruly ==
    \A c \in DOMAIN Units : reading \in TypeOf(c) =>
        LET n == PrintMeasurement([value |-> [a \in {c} |-> reading],
                                   valid |-> {c}])[c]
        IN  /\ n.frac \in 0 .. n.pow - 1
            /\ Shown(n) * Units[c] = reading * n.pow
                  - (IF c = "temperature" THEN Rem(reading, 2) * 100 ELSE 0)

\* What the shell prints, in the unit of the attribute.
ShellShows(c) == Shown(PrintChannel(c, reading))

\* The shell and a Matter client see the same temperature and the same
\* humidity, to the hundredth, although each converts the reading by itself.
\* Only a humidity below zero, which the shell prints as it is and the unsigned
\* attribute cannot hold, differs: air_quality_policy.cpp's cast takes it above
\* 100 % or to the attribute's null (65535), never to another humidity.
AttributesAgree ==
    reading \in SignedWords =>
        /\ TemperatureRawToMatterCentiDegC(reading) = ShellShows("temperature")
        /\ reading >= 0 => HumidityRawToMatterCentiPercent(reading) = ShellShows("humidity")
        /\ reading < 0 => HumidityRawToMatterCentiPercent(reading) > 10000
=============================================================================
