----------------------------- MODULE Sen66Sensor -----------------------------
(***************************************************************************)
(* The SEN66 and its I2C link, as the firmware meets them: the part is not *)
(* in the repository.  The driver's entry points hold the bus mutex for    *)
(* the whole command/response exchange (sen66_driver.cpp), so one exchange *)
(* is one step here.                                                       *)
(***************************************************************************)
CONSTANT Parts      \* the parts that may be on the board

\* startNacked: the part NACKs "start measurement" while it is measuring, as
\* sen66_shell.cpp:125-126 states; otherwise it acknowledges it.
\* idleAnswers: an idle part answers a read with the sentinel frame; otherwise
\* it NACKs the read.
PartKinds == [startNacked : BOOLEAN, idleAnswers : BOOLEAN]

ASSUME SensorAssumption == Parts \subseteq PartKinds

VARIABLES
    part,           \* the part on the board, for good
    sensorMode,     \* "off" (unplugged), "idle" (powered, not started), "measuring"
    glitching       \* TRUE while exchanges may be corrupted or NACKed

sensorVars == <<part, sensorMode, glitching>>

SensorModes == {"off", "idle", "measuring"}

SensorTypeOK ==
    part \in Parts /\ sensorMode \in SensorModes /\ glitching \in BOOLEAN

SensorInit == part \in Parts /\ sensorMode = "idle" /\ glitching = FALSE

-----------------------------------------------------------------------------
(* What happens to the part by itself.                                     *)

Unplugged ==
    /\ sensorMode # "off"
    /\ sensorMode' = "off" /\ UNCHANGED <<part, glitching>>

\* Plugged back in, or browned out while measuring: the part wakes up idle.
PoweredUp ==
    /\ sensorMode # "idle"
    /\ sensorMode' = "idle" /\ UNCHANGED <<part, glitching>>

NoiseChanges == glitching' = ~glitching /\ UNCHANGED <<part, sensorMode>>

SensorEnvironment == Unplugged \/ PoweredUp \/ NoiseChanges

-----------------------------------------------------------------------------
(* The outcomes of an exchange.                                            *)

\* Sen66::StartMeasurement() returns 0.
StartAccepted ==
    /\ sensorMode = "idle"
          \/ (sensorMode = "measuring" /\ ~part.startNacked)
    /\ sensorMode' = "measuring" /\ UNCHANGED <<part, glitching>>

\* It returns an error; a glitch may spoil the acknowledge of a command the
\* part nevertheless executes.
StartRefused ==
    /\ \/ sensorMode = "off"
       \/ sensorMode = "measuring" /\ part.startNacked
       \/ glitching
    /\ \/ UNCHANGED sensorMode
       \/ glitching /\ sensorMode = "idle" /\ sensorMode' = "measuring"
    /\ UNCHANGED <<part, glitching>>

\* Sen66::ReadMeasurement() returns 0 with a frame the part measured ...
ReadMeasured == sensorMode = "measuring" /\ UNCHANGED sensorVars

\* ... or with the sentinel in every channel ...
ReadSentinels ==
    sensorMode = "idle" /\ part.idleAnswers /\ UNCHANGED sensorVars

\* ... or returns an error: NACK, bus error or CRC mismatch.
ReadRefused ==
    /\ \/ sensorMode = "off"
       \/ sensorMode = "idle" /\ ~part.idleAnswers
       \/ glitching
    /\ UNCHANGED sensorVars
=============================================================================
