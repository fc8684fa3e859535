------------------------------ MODULE MCReadings -------------------------------
(***************************************************************************)
(* The computations a reading goes through, from the wire to the shell's   *)
(* line and the Matter attributes.  They share no state: bound, the inputs *)
(* of one move only while those of the others are at their first value.    *)
(***************************************************************************)
EXTENDS MCSen66Protocol, MCSen66Printing, MCAirQualityPolicy

Init == LinkInit /\ ReadingInit /\ LevelInit

LinkStep ==
    /\ ReadingInit /\ LevelInit
    /\ LinkNext
    /\ UNCHANGED <<reading, readings>>

ReadingStep ==
    /\ LinkInit /\ LevelInit
    /\ ReadingNext
    /\ UNCHANGED <<linkVars, readings>>

LevelStep ==
    /\ LinkInit /\ ReadingInit
    /\ LevelNext
    /\ UNCHANGED <<linkVars, reading>>

Next == LinkStep \/ ReadingStep \/ LevelStep

Spec == Init /\ [][Next]_<<linkVars, reading, readings>>
=============================================================================
