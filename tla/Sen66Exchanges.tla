--------------------------- MODULE Sen66Exchanges ---------------------------
(***************************************************************************)
(* What the driver (sen66_driver.cpp) promises to the threads that call    *)
(* it: however the calls overlap, each one meets the sensor in a single    *)
(* instant between its invocation and its return, and is given the answer  *)
(* to its own command.  Sen66Driver implements this with one mutex around  *)
(* the write, the delay and the read of an exchange.                       *)
(*                                                                         *)
(* The sensor itself is not in the repository; it takes a sample from time *)
(* to time, raises its data-ready flag for it and lowers the flag when the *)
(* measured values are read.                                               *)
(***************************************************************************)
EXTENDS Naturals

CONSTANTS
    Callers,    \* the threads that call the driver
    MaxSample   \* bound: samples are numbered 1..MaxSample; 0 is no sample

ASSUME ExchangesAssumption == MaxSample \in Nat

VARIABLES
    mode,       \* the sensor: "off", "idle" or "measuring"
    sample,     \* the number of its last sample
    fresh,      \* its data-ready flag
    op,         \* the entry point each caller is in, or "none"
    answer      \* what that call returns; NoAnswer until it is known

sensorVars == <<mode, sample, fresh>>
exchangesVars == <<sensorVars, op, answer>>

WriteOnly == {"start", "stop"}
Ops == WriteOnly \cup {"serial", "ready", "read"}

Ans(kind, val) == [kind |-> kind, val |-> val]
NoAnswer == Ans("none", 0)
Answers == [kind : Ops \cup {"none", "failed"}, val : Nat]

\* IsDataReady() has no error code: it reports every failure as "not ready".
FailureOf(o) == IF o = "ready" THEN Ans("ready", 0) ELSE Ans("failed", 0)

ExchangesTypeOK ==
    /\ mode \in {"off", "idle", "measuring"}
    /\ sample \in Nat /\ fresh \in BOOLEAN
    /\ op \in [Callers -> Ops \cup {"none"}]
    /\ answer \in [Callers -> Answers]

ExchangesInit ==
    /\ mode = "idle" /\ sample = 0 /\ fresh = FALSE
    /\ op = [c \in Callers |-> "none"]
    /\ answer = [c \in Callers |-> NoAnswer]

-----------------------------------------------------------------------------
(* The sensor.                                                             *)

\* Unplugged, or powered (again): the part forgets what it measured.
PowerChanges ==
    /\ mode' = IF mode = "off" THEN "idle" ELSE "off"
    /\ sample' = 0 /\ fresh' = FALSE

NewSample ==
    /\ mode = "measuring" /\ sample < MaxSample
    /\ sample' = sample + 1 /\ fresh' = TRUE
    /\ UNCHANGED mode

\* What the part answers to the command o; an idle part has no sample.
SensorAnswer(o) ==
    CASE o = "ready" -> Ans("ready", IF fresh THEN 1 ELSE 0)
      [] o = "read"  -> Ans("read", sample)
      [] OTHER       -> Ans(o, 0)

\* What executing the command o does to the part.
Execute(o) ==
    /\ mode' = CASE o = "start" -> "measuring"
                 [] o = "stop"  -> "idle"
                 [] OTHER       -> mode
    /\ fresh' = (fresh /\ o # "read")
    /\ UNCHANGED sample

-----------------------------------------------------------------------------
(* A call.                                                                 *)

Called(c, o) ==
    /\ op[c] = "none"
    /\ op' = [op EXCEPT ![c] = o]
    /\ answer' = [answer EXCEPT ![c] = NoAnswer]

Answered(c) ==
    /\ mode # "off"
    /\ Execute(op[c])
    /\ answer' = [answer EXCEPT ![c] = SensorAnswer(op[c])]

\* NACKed or spoiled on the wire, before or after the part executed it.
Refused(c) ==
    /\ UNCHANGED sensorVars \/ (mode # "off" /\ Execute(op[c]))
    /\ answer' = [answer EXCEPT ![c] = FailureOf(op[c])]

Exchange(c) ==
    /\ op[c] # "none" /\ answer[c] = NoAnswer
    /\ Answered(c) \/ Refused(c)
    /\ UNCHANGED op

Returned(c) ==
    /\ op[c] # "none" /\ answer[c] # NoAnswer
    /\ op' = [op EXCEPT ![c] = "none"]
    /\ UNCHANGED answer

ExchangesNext ==
    \/ (PowerChanges \/ NewSample) /\ UNCHANGED <<op, answer>>
    \/ \E c \in Callers :
          \/ \E o \in Ops : Called(c, o) /\ UNCHANGED sensorVars
          \/ Exchange(c)
          \/ Returned(c) /\ UNCHANGED sensorVars

ExchangesSpec == ExchangesInit /\ [][ExchangesNext]_exchangesVars
=============================================================================
