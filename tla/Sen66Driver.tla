----------------------------- MODULE Sen66Driver -----------------------------
(***************************************************************************)
(* The SEN66 driver (sen66_driver.cpp): five entry points, each of which   *)
(* takes the bus mutex, writes a command, sleeps while the part executes   *)
(* it, reads the response if the command has one, and releases the mutex   *)
(* on every path out.                                                      *)
(*                                                                         *)
(* The part remembers the last command written to it and answers a read    *)
(* with the response to that command, whoever wrote it.                    *)
(***************************************************************************)
EXTENDS Sen66Exchanges

CONSTANT
    NoCaller    \* nobody: the owner of a free mutex

ASSUME DriverAssumption == NoCaller \notin Callers

VARIABLES
    busOwner,   \* the thread that holds kBusMutex, or NoCaller
    pc,         \* where each caller is in its entry point
    pending     \* the command whose response the part will send, or "none"

driverVars == <<busOwner, pc, pending>>
vars == <<exchangesVars, driverVars>>

Pcs == {"outside", "lock", "send", "receive", "leave"}

TypeOK ==
    /\ ExchangesTypeOK
    /\ busOwner \in Callers \cup {NoCaller}
    /\ pc \in [Callers -> Pcs]
    /\ pending \in Ops \cup {"none"}

Init ==
    /\ ExchangesInit
    /\ busOwner = NoCaller /\ pending = "none"
    /\ pc = [c \in Callers |-> "outside"]

-----------------------------------------------------------------------------
(* kBusMutex and BusLock.  Zephyr's k_mutex_unlock() hands a contended     *)
(* mutex to one of the waiting threads.                                    *)

\* Faulty variant: IsDataReady() without its BusLock.
EnterUnlockedIsDataReady(c, o) ==
    IF busOwner = NoCaller /\ o # "ready"
       THEN busOwner' = c /\ pc' = [pc EXCEPT ![c] = "send"]
       ELSE /\ UNCHANGED busOwner
            /\ pc' = [pc EXCEPT ![c] = IF o = "ready" THEN "send" ELSE "lock"]

Enter(c, o) ==
    IF busOwner = NoCaller
       THEN busOwner' = c /\ pc' = [pc EXCEPT ![c] = "send"]
       ELSE UNCHANGED busOwner /\ pc' = [pc EXCEPT ![c] = "lock"]

Waiting == {w \in Callers : pc[w] = "lock"}

\* Faulty variant: a path that returns an error leaves the mutex locked.
LeaveOnSuccess(c) ==
    IF answer[c].kind = "failed"
       THEN UNCHANGED busOwner /\ pc' = [pc EXCEPT ![c] = "outside"]
       ELSE IF Waiting = {}
       THEN busOwner' = NoCaller /\ pc' = [pc EXCEPT ![c] = "outside"]
       ELSE \E w \in Waiting :
               /\ busOwner' = w
               /\ pc' = [pc EXCEPT ![c] = "outside", ![w] = "send"]

Leave(c) ==
    IF Waiting = {}
       THEN busOwner' = NoCaller /\ pc' = [pc EXCEPT ![c] = "outside"]
       ELSE \E w \in Waiting :
               /\ busOwner' = w
               /\ pc' = [pc EXCEPT ![c] = "outside", ![w] = "send"]

-----------------------------------------------------------------------------
(* The entry points.                                                       *)

Invoke(c, o) ==
    /\ Called(c, o) /\ Enter(c, o)
    /\ UNCHANGED <<sensorVars, pending>>

\* Faulty variant: the lock does not span the delay before a response.
SendUnlocksForDelay(c) ==
    /\ pc[c] = "send" /\ mode # "off"
    /\ pending' = op[c]
    /\ IF op[c] \in WriteOnly
          THEN /\ Answered(c) /\ pc' = [pc EXCEPT ![c] = "leave"]
               /\ UNCHANGED busOwner
          ELSE /\ \E w \in Waiting \cup {NoCaller} :
                     /\ busOwner' = w
                     /\ pc' = [b \in Callers |-> CASE b = c -> "receive"
                                                  [] b = w -> "send" [] OTHER -> pc[b]]
               /\ UNCHANGED <<sensorVars, answer>>
    /\ UNCHANGED op

\* SendCommand() succeeds.  A write-only command is complete; its execution
\* time passes before the call returns.
Send(c) ==
    /\ pc[c] = "send" /\ mode # "off"
    /\ pending' = op[c]
    /\ IF op[c] \in WriteOnly
          THEN Answered(c) /\ pc' = [pc EXCEPT ![c] = "leave"]
          ELSE /\ pc' = [pc EXCEPT ![c] = "receive"]
               /\ UNCHANGED <<sensorVars, answer>>
    /\ UNCHANGED <<op, busOwner>>

\* i2c_write_dt() fails: nobody answers, or the acknowledge of a command the
\* part nevertheless took is lost.
SendFails(c) ==
    /\ pc[c] = "send"
    /\ \/ UNCHANGED <<sensorVars, pending>>
       \/ /\ mode # "off" /\ pending' = op[c]
          /\ IF op[c] \in WriteOnly THEN Execute(op[c]) ELSE UNCHANGED sensorVars
    /\ answer' = [answer EXCEPT ![c] = FailureOf(op[c])]
    /\ pc' = [pc EXCEPT ![c] = "leave"]
    /\ UNCHANGED <<op, busOwner>>

\* ReadBytes() and the parser accept what the part sends: the response to the
\* pending command.
Receive(c) ==
    /\ pc[c] = "receive" /\ mode # "off" /\ pending # "none"
    /\ Execute(pending)
    /\ answer' = [answer EXCEPT ![c] = SensorAnswer(pending)]
    /\ pending' = "none"
    /\ pc' = [pc EXCEPT ![c] = "leave"]
    /\ UNCHANGED <<op, busOwner>>

\* The read is NACKed, or its bytes fail the CRC after the part sent them.
ReceiveFails(c) ==
    /\ pc[c] = "receive"
    /\ UNCHANGED sensorVars \/ (mode # "off" /\ pending # "none" /\ Execute(pending))
    /\ pending' = "none"
    /\ answer' = [answer EXCEPT ![c] = FailureOf(op[c])]
    /\ pc' = [pc EXCEPT ![c] = "leave"]
    /\ UNCHANGED <<op, busOwner>>

\* The return, with the destructor of BusLock.
Return(c) ==
    /\ pc[c] = "leave"
    /\ Returned(c) /\ Leave(c)
    /\ UNCHANGED <<sensorVars, pending>>

CallStep(c) ==
    Send(c) \/ SendFails(c) \/ Receive(c) \/ ReceiveFails(c) \/ Return(c)

\* A power cycle makes the part forget the pending command.
SensorStep ==
    /\ \/ PowerChanges /\ pending' = "none"
       \/ NewSample /\ UNCHANGED pending
    /\ UNCHANGED <<op, answer, busOwner, pc>>

Next ==
    \/ SensorStep
    \/ \E c \in Callers : CallStep(c) \/ \E o \in Ops : Invoke(c, o)

Spec == Init /\ [][Next]_vars

\* A thread inside the driver sleeps only in k_msleep() and in the mutex, and
\* the I2C transfers return.  Nothing is assumed of the sensor, nor that
\* anybody calls.
Fairness == \A c \in Callers : WF_vars(CallStep(c))

FairSpec == Spec /\ Fairness

-----------------------------------------------------------------------------
(* Properties.                                                             *)

InExchange(c) == pc[c] \in {"send", "receive", "leave"}

\* Exactly the owner of the mutex is between its BusLock and its return, and
\* nobody waits for a mutex that is free.
MutexExact ==
    /\ \A c \in Callers : InExchange(c) <=> busOwner = c
    /\ busOwner = NoCaller => Waiting = {}

\* sen66_driver.cpp:24-31: no other caller's command lands on the sensor in
\* the middle of an exchange.  What a caller is about to read is the response
\* to its own command, unless the part lost power meanwhile.
OwnResponse ==
    \A c \in Callers : pc[c] = "receive" => pending \in {op[c], "none"}

\* The exchanges of concurrent callers are atomic: docs/sen66-driver.md,
\* "I2C transport".
Atomic == ExchangesSpec

\* Every call returns, with a stalled or missing sensor too and with another
\* thread calling all the time: the mutex is released on every path, and its
\* unlock leaves it to the only thread that can be waiting.
CallsReturn == \A c \in Callers : op[c] # "none" ~> op[c] = "none"
=============================================================================
