-------------------------- MODULE Sen66DriverProofs --------------------------
(***************************************************************************)
(* For any set of callers: one exchange at a time is on the bus, every     *)
(* response read is the response to the reader's own command, and the      *)
(* driver implements the atomic exchanges of Sen66Exchanges.  For the      *)
(* firmware's three threads: what `sen66 read` reports is true, however    *)
(* the polls and the sensor interfere.                                     *)
(***************************************************************************)
EXTENDS Sen66Shell, TLAPS

\* What a caller's place in its entry point says of its call.
CallState(c) ==
    /\ op[c] = "none" <=> pc[c] = "outside"
    /\ pc[c] \in {"lock", "send", "receive"} => answer[c] = NoAnswer
    /\ pc[c] = "leave" => answer[c] # NoAnswer
    /\ pc[c] = "receive" => op[c] \notin WriteOnly

\* OwnResponse is not inductive alone: it needs the mutex, and the mutex is
\* released only by the caller that owns it.
IInv ==
    /\ TypeOK
    /\ MutexExact
    /\ OwnResponse
    /\ \A c \in Callers : CallState(c)

USE DriverAssumption, ExchangesAssumption
    DEF DriverAssumption, ExchangesAssumption

-----------------------------------------------------------------------------
(* The sensor's answers.                                                   *)

\* Every answer the part or the driver gives is an answer, and none of them is
\* the "no answer yet" of a running call.
LEMMA AnswerType ==
    ASSUME TypeOK, NEW o \in Ops
    PROVE  /\ SensorAnswer(o) \in Answers /\ SensorAnswer(o) # NoAnswer
           /\ FailureOf(o) \in Answers /\ FailureOf(o) # NoAnswer
  BY DEF TypeOK, ExchangesTypeOK, SensorAnswer, FailureOf, Answers, NoAnswer,
         Ans, Ops, WriteOnly

\* Executing a command keeps the part's state well typed.
LEMMA ExecuteType ==
    ASSUME TypeOK, NEW o \in Ops, Execute(o)
    PROVE  mode' \in {"off", "idle", "measuring"} /\ sample' \in Nat
               /\ fresh' \in BOOLEAN
  BY DEF TypeOK, ExchangesTypeOK, Execute

\* A step of the part alone keeps it well typed.
LEMMA SensorType ==
    ASSUME TypeOK, PowerChanges \/ NewSample
    PROVE  mode' \in {"off", "idle", "measuring"} /\ sample' \in Nat
               /\ fresh' \in BOOLEAN
<1>1. mode \in {"off", "idle", "measuring"} /\ sample \in Nat
  BY DEF TypeOK, ExchangesTypeOK
<1>2. mode' \in {"off", "idle", "measuring"} /\ fresh' \in BOOLEAN
  BY <1>1 DEF PowerChanges, NewSample
<1>3. sample' = 0 \/ sample' = sample + 1
  BY DEF PowerChanges, NewSample
<1> QED BY <1>1, <1>2, <1>3

-----------------------------------------------------------------------------
(* The inductive invariant.                                                *)

LEMMA InitIInv == Init => IInv
<1> SUFFICES ASSUME Init PROVE IInv
  OBVIOUS
<1> USE DEF Init, ExchangesInit
<1>1. NoAnswer \in Answers
  BY DEF NoAnswer, Ans, Answers
<1>2. ExchangesTypeOK
  BY <1>1 DEF ExchangesTypeOK
<1>3. TypeOK
  BY <1>2 DEF TypeOK, Pcs
<1>4. MutexExact /\ OwnResponse
  BY DEF MutexExact, OwnResponse, InExchange, Waiting
<1>5. \A c \in Callers : CallState(c)
  BY DEF CallState
<1> QED BY <1>3, <1>4, <1>5 DEF IInv

\* The part's own steps touch no caller; a power cycle clears the command.
LEMMA SensorStepIInv ==
    ASSUME IInv, SensorStep
    PROVE  IInv'
<1>1. TypeOK'
  <2>1. mode' \in {"off", "idle", "measuring"} /\ sample' \in Nat
            /\ fresh' \in BOOLEAN
    BY SensorType DEF IInv, SensorStep
  <2> QED BY <2>1 DEF IInv, SensorStep, TypeOK, ExchangesTypeOK
<1>2. MutexExact' /\ (\A c \in Callers : CallState(c))'
  BY DEF IInv, SensorStep, MutexExact, CallState, InExchange, Waiting
<1>3. OwnResponse'
  BY DEF IInv, SensorStep, OwnResponse
<1> QED BY <1>1, <1>2, <1>3 DEF IInv

\* Invocation: the mutex is taken when it is free, else the caller waits.
LEMMA InvokeIInv ==
    ASSUME IInv, NEW c \in Callers, NEW o \in Ops, Invoke(c, o)
    PROVE  IInv'
<1> USE DEF IInv, Invoke, Called, Enter
<1>1. o # "none" /\ NoAnswer \in Answers
  BY DEF Ops, WriteOnly, NoAnswer, Ans, Answers
<1>2. pc[c] = "outside"
  BY DEF CallState
<1>3. TypeOK'
  BY <1>1 DEF TypeOK, ExchangesTypeOK, sensorVars, Pcs
<1>4. MutexExact'
  BY <1>2 DEF MutexExact, InExchange, Waiting, TypeOK, ExchangesTypeOK
<1>5. OwnResponse'
  BY <1>2 DEF OwnResponse, TypeOK, ExchangesTypeOK
<1>6. (\A d \in Callers : CallState(d))'
  BY <1>1, <1>2 DEF CallState, TypeOK, ExchangesTypeOK
<1> QED BY <1>3, <1>4, <1>5, <1>6

\* Only the owner of the mutex writes a command, so no other caller is about
\* to read.
LEMMA SendIInv ==
    ASSUME IInv, NEW c \in Callers, Send(c) \/ SendFails(c)
    PROVE  IInv'
<1> USE DEF IInv
<1>1. /\ pc[c] = "send" /\ op[c] \in Ops /\ busOwner = c
      /\ \A d \in Callers \ {c} : pc[d] # "receive"
  BY DEF Send, SendFails, MutexExact, InExchange, CallState, TypeOK,
         ExchangesTypeOK
<1>2. /\ SensorAnswer(op[c]) \in Answers /\ SensorAnswer(op[c]) # NoAnswer
      /\ FailureOf(op[c]) \in Answers /\ FailureOf(op[c]) # NoAnswer
  BY <1>1, AnswerType
<1>3. mode' \in {"off", "idle", "measuring"} /\ sample' \in Nat
          /\ fresh' \in BOOLEAN
  <2>1. Execute(op[c]) \/ UNCHANGED sensorVars
    BY DEF Send, SendFails, Answered
  <2> QED BY <2>1, <1>1, ExecuteType DEF sensorVars, TypeOK, ExchangesTypeOK
<1>4. /\ UNCHANGED <<op, busOwner>>
      /\ pending' \in {pending, op[c]}
      /\ \/ pc' = [pc EXCEPT ![c] = "leave"]
            /\ \E a \in Answers \ {NoAnswer} : answer' = [answer EXCEPT ![c] = a]
         \/ /\ pc' = [pc EXCEPT ![c] = "receive"] /\ UNCHANGED answer
            /\ pending' = op[c] /\ op[c] \notin WriteOnly
  BY <1>2 DEF Send, SendFails, Answered
<1>5. TypeOK'
  BY <1>1, <1>3, <1>4 DEF TypeOK, ExchangesTypeOK, Pcs
<1>6. MutexExact'
  BY <1>1, <1>4 DEF MutexExact, InExchange, Waiting, TypeOK
<1>7. OwnResponse'
  BY <1>1, <1>4 DEF OwnResponse, TypeOK
<1>8. (\A d \in Callers : CallState(d))'
  BY <1>1, <1>4 DEF CallState, TypeOK, ExchangesTypeOK
<1> QED BY <1>5, <1>6, <1>7, <1>8

\* A response or a failed read ends the exchange.
LEMMA ReceiveIInv ==
    ASSUME IInv, NEW c \in Callers, Receive(c) \/ ReceiveFails(c)
    PROVE  IInv'
<1> USE DEF IInv
<1>1. pc[c] = "receive" /\ op[c] \in Ops /\ pending \in Ops \cup {"none"}
  BY DEF Receive, ReceiveFails, CallState, TypeOK, ExchangesTypeOK
<1>2. mode' \in {"off", "idle", "measuring"} /\ sample' \in Nat
          /\ fresh' \in BOOLEAN
  <2>1. (pending \in Ops /\ Execute(pending)) \/ UNCHANGED sensorVars
    BY <1>1 DEF Receive, ReceiveFails
  <2> QED BY <2>1, ExecuteType DEF sensorVars, TypeOK, ExchangesTypeOK
<1>3. /\ UNCHANGED <<op, busOwner>> /\ pending' = "none"
      /\ pc' = [pc EXCEPT ![c] = "leave"]
      /\ \E a \in Answers \ {NoAnswer} : answer' = [answer EXCEPT ![c] = a]
  <2>1. /\ FailureOf(op[c]) \in Answers \ {NoAnswer}
        /\ pending # "none" => SensorAnswer(pending) \in Answers \ {NoAnswer}
    BY <1>1, AnswerType
  <2> QED BY <2>1 DEF Receive, ReceiveFails
<1>4. TypeOK'
  BY <1>2, <1>3 DEF TypeOK, ExchangesTypeOK, Pcs
<1>5. MutexExact'
  BY <1>1, <1>3 DEF MutexExact, InExchange, Waiting, TypeOK
<1>6. OwnResponse'
  BY <1>3 DEF OwnResponse
<1>7. (\A d \in Callers : CallState(d))'
  BY <1>1, <1>3 DEF CallState, TypeOK, ExchangesTypeOK
<1> QED BY <1>4, <1>5, <1>6, <1>7

\* The return frees the mutex or hands it to a thread that waits for it.
LEMMA ReturnIInv ==
    ASSUME IInv, NEW c \in Callers, Return(c)
    PROVE  IInv'
<1> USE DEF IInv
<1>1. /\ pc[c] = "leave" /\ busOwner = c
      /\ \A d \in Callers \ {c} : ~InExchange(d)
  BY DEF Return, MutexExact, InExchange
<1>2. /\ UNCHANGED <<sensorVars, pending, answer>>
      /\ op' = [op EXCEPT ![c] = "none"]
  BY DEF Return, Returned
<1>3. CASE Waiting = {}
  <2>1. busOwner' = NoCaller /\ pc' = [pc EXCEPT ![c] = "outside"]
    BY <1>3 DEF Return, Leave
  <2>2. TypeOK'
    BY <1>2, <2>1 DEF TypeOK, ExchangesTypeOK, sensorVars, Pcs
  <2>3. MutexExact'
    BY <1>1, <1>3, <2>1 DEF MutexExact, InExchange, Waiting, TypeOK
  <2>4. OwnResponse' /\ (\A d \in Callers : CallState(d))'
    BY <1>2, <2>1 DEF OwnResponse, CallState, TypeOK, ExchangesTypeOK
  <2> QED BY <2>2, <2>3, <2>4
<1>4. CASE Waiting # {}
  <2>1. PICK w \in Waiting :
            busOwner' = w /\ pc' = [pc EXCEPT ![c] = "outside", ![w] = "send"]
    BY <1>4 DEF Return, Leave
  <2>2. w \in Callers /\ pc[w] = "lock" /\ w # c
    BY <2>1, <1>1 DEF Waiting
  <2>3. TypeOK'
    BY <1>2, <2>1, <2>2 DEF TypeOK, ExchangesTypeOK, sensorVars, Pcs
  <2>4. MutexExact'
    BY <1>1, <2>1, <2>2 DEF MutexExact, InExchange, TypeOK
  <2>5. OwnResponse'
    BY <1>2, <2>1, <2>2 DEF OwnResponse, TypeOK, ExchangesTypeOK
  <2>6. (\A d \in Callers : CallState(d))'
    BY <1>2, <2>1, <2>2 DEF CallState, TypeOK, ExchangesTypeOK
  <2> QED BY <2>3, <2>4, <2>5, <2>6
<1> QED BY <1>3, <1>4

LEMMA NextIInv == IInv /\ [Next]_vars => IInv'
<1> SUFFICES ASSUME IInv, [Next]_vars PROVE IInv'
  OBVIOUS
<1>1. CASE UNCHANGED vars
  BY <1>1 DEF vars, exchangesVars, sensorVars, driverVars, IInv, TypeOK,
      ExchangesTypeOK, MutexExact, OwnResponse, CallState, InExchange, Waiting
<1>2. CASE SensorStep
  BY <1>2, SensorStepIInv
<1>3. ASSUME NEW c \in Callers, NEW o \in Ops, Invoke(c, o) PROVE IInv'
  BY <1>3, InvokeIInv
<1>4. ASSUME NEW c \in Callers, CallStep(c) PROVE IInv'
  BY <1>4, SendIInv, ReceiveIInv, ReturnIInv DEF CallStep
<1> QED BY <1>1, <1>2, <1>3, <1>4 DEF Next

\* The mutex, the calls and the sensor's pending command stay consistent, for
\* any number of threads.
THEOREM DriverInvariant == Spec => []IInv
  BY InitIInv, NextIInv, PTL DEF Spec

\* Type correctness of the driver model.
THEOREM DriverTypeCorrect == Spec => []TypeOK
<1>1. IInv => TypeOK BY DEF IInv
<1> QED BY <1>1, DriverInvariant, PTL

\* BusLock (sen66_driver.cpp:34-40) admits one caller at a time, whatever path
\* the others left by.
THEOREM DriverMutualExclusion == Spec => []MutexExact
<1>1. IInv => MutexExact BY DEF IInv
<1> QED BY <1>1, DriverInvariant, PTL

\* No caller ever parses the response to another caller's command.
THEOREM DriverOwnResponse == Spec => []OwnResponse
<1>1. IInv => OwnResponse BY DEF IInv
<1> QED BY <1>1, DriverInvariant, PTL

-----------------------------------------------------------------------------
(* The driver implements atomic exchanges.                                 *)

\* A write-only command meets the part at its write, the others at their read,
\* a failed one where it fails; every other step is invisible.
LEMMA StepRefines == IInv /\ [Next]_vars => [ExchangesNext]_exchangesVars
<1> SUFFICES ASSUME IInv, [Next]_vars PROVE [ExchangesNext]_exchangesVars
  OBVIOUS
<1>1. CASE UNCHANGED vars
  BY <1>1 DEF vars
<1>2. CASE SensorStep
  BY <1>2 DEF SensorStep, ExchangesNext
<1>3. ASSUME NEW c \in Callers, NEW o \in Ops, Invoke(c, o)
      PROVE  ExchangesNext
  BY <1>3 DEF Invoke, ExchangesNext
<1>4. ASSUME NEW c \in Callers, CallStep(c)
      PROVE  ExchangesNext \/ UNCHANGED exchangesVars
  <2>1. /\ pc[c] # "outside" => op[c] # "none"
        /\ pc[c] \in {"send", "receive"} => answer[c] = NoAnswer
        /\ pc[c] = "receive" => pending \in {op[c], "none"}
    BY DEF IInv, CallState, OwnResponse
  <2>2. CASE Send(c)
    <3>1. Exchange(c) \/ UNCHANGED exchangesVars
      BY <2>1, <2>2 DEF Send, Exchange, exchangesVars
    <3> QED BY <3>1 DEF ExchangesNext
  <2>3. CASE SendFails(c)
    <3>1. Refused(c)
      BY <2>3 DEF SendFails, Refused
    <3> QED BY <2>1, <2>3, <3>1 DEF SendFails, Exchange, ExchangesNext
  <2>4. CASE Receive(c)
    <3>1. Answered(c)
      BY <2>1, <2>4 DEF Receive, Answered
    <3> QED BY <2>1, <2>4, <3>1 DEF Receive, Exchange, ExchangesNext
  <2>5. CASE ReceiveFails(c)
    <3>1. Refused(c)
      BY <2>1, <2>5 DEF ReceiveFails, Refused
    <3> QED BY <2>1, <2>5, <3>1 DEF ReceiveFails, Exchange, ExchangesNext
  <2>6. CASE Return(c)
    BY <2>6 DEF Return, ExchangesNext
  <2> QED BY <1>4, <2>2, <2>3, <2>4, <2>5, <2>6 DEF CallStep
<1> QED BY <1>1, <1>2, <1>3, <1>4 DEF Next

\* Concurrent callers cannot tell the driver from one that performs every
\* exchange in one instant: what MeasurementService assumes of it.
THEOREM DriverImplementsExchanges == Spec => Atomic
<1>1. Init => ExchangesInit
  BY DEF Init
<1> QED BY <1>1, StepRefines, DriverInvariant, PTL
       DEF Spec, Atomic, ExchangesSpec

-----------------------------------------------------------------------------
(* The shell, the poll thread and the main thread.                         *)

LEMMA ShellOps ==
    /\ {"start", "ready", "read", "serial"} \subseteq Ops
    /\ main \in Callers /\ poll \in Callers /\ shell \in Callers
BY ShellAssumption DEF Ops, WriteOnly, ShellAssumption

LEMMA ShellStepIsNext ==
    ASSUME [ShellNext]_allVars
    PROVE  [Next]_vars
<1>1. CASE ShellStep
  <2>1. (\E o \in Ops : Invoke(shell, o)) \/ UNCHANGED vars
    BY <1>1, ShellOps
    DEF ShellStep, CmdSerial, CmdSerialEnds, CmdRead, CmdReadPolls, CmdReadGivesUp,
        CmdReadFetches, CmdReadEnds
  <2> QED BY <2>1, ShellOps DEF Next
<1>2. CASE FirstStart
  BY <1>2, ShellOps DEF FirstStart, Next
<1>3. CASE PollCalls
  BY <1>3, ShellOps DEF PollCalls, Next
<1>4. CASE SensorActs
  BY <1>4 DEF SensorActs, Next
<1>5. ASSUME NEW c \in Callers, DriverStep(c) PROVE Next
  BY <1>5 DEF DriverStep, CallStep, Next
<1>6. CASE UNCHANGED allVars
  BY <1>6 DEF allVars
<1> QED BY <1>1, <1>2, <1>3, <1>4, <1>5, <1>6 DEF ShellNext

\* The firmware's three threads use the driver as any set of callers may:
\* everything proved of the driver holds beside the shell and the polls.
THEOREM ShellImplementsDriver == ShellSpec => Spec
<1>1. ShellInit => Init
  BY DEF ShellInit
<1>2. [ShellNext]_allVars => [Next]_vars
  BY ShellStepIsNext
<1> QED BY <1>1, <1>2, PTL DEF ShellSpec, Spec

-----------------------------------------------------------------------------
(* What CmdRead reports.                                                   *)

ShellTypeOK ==
    /\ command \in {"prompt", "serial", "start", "ready", "read"}
    /\ tries \in 0 .. ReadyPolls
    /\ verdict \in {"none", "printed", "error", "again"}
    /\ lowered \in {"up", "no sample", "taken", "power"}
    /\ excuse \in [0 .. ReadyPolls -> Excuses \cup {"none", "up"}]

\* The call the shell is in is its command's, and once it is over its answer
\* is one that call can give.
CommandCalls ==
    /\ op[shell] \in {command, "none"}
    /\ command = "prompt" => op[shell] = "none"
    /\ command # "prompt" /\ CallOver => answer[shell] # NoAnswer
    /\ answer[shell].kind = "none" => answer[shell] = NoAnswer
    /\ command = "ready" =>
          answer[shell] \in {NoAnswer, Ans("ready", 0), Ans("ready", 1)}

\* The reason kept for the data-ready flag is that of the flag.
FlagKnown == fresh <=> lowered = "up"

\* Every poll CmdRead made has its excuse, but for the last while it is under
\* way or when it saw the flag; so has a fetch that failed.
PollsExcused ==
    /\ command = "start" => tries = 0
    /\ command = "ready" =>
          /\ tries # 0
          /\ \A i \in 1 .. tries :
                \/ excuse[i] \in Excuses
                \/ i = tries /\ answer[shell] \in {NoAnswer, Ans("ready", 1)}
    /\ command = "read" /\ answer[shell].kind = "failed" => excuse[Fetch] = "failed"

\* Since CmdRead saw the flag, the part's sample is among those held since.
SampleHeld ==
    /\ held # {} => sample \in held
    /\ command = "ready" /\ Ready => held # {}
    /\ command = "read" =>
          /\ held # {}
          /\ answer[shell].kind \notin {"none", "failed"} => answer[shell].val \in held

ShellInv ==
    ShellTypeOK /\ CommandCalls /\ FlagKnown /\ PollsExcused /\ SampleHeld

-----------------------------------------------------------------------------
(* What one step means to the shell.                                       *)

LEMMA ShellThreads ==
    /\ main \in Callers /\ poll \in Callers /\ shell \in Callers
    /\ main # shell /\ poll # shell /\ ReadyPolls \in Nat
BY ShellAssumption DEF ShellAssumption

\* Answers are told apart by their kind and value.
LEMMA AnswersDiffer ==
    /\ Ans("ready", 0) # Ans("ready", 1) /\ NoAnswer # Ans("ready", 1)
    /\ NoAnswer # Ans("ready", 0) /\ NoAnswer.kind = "none"
    /\ Ans("ready", 0).kind = "ready" /\ Ans("ready", 1).kind = "ready"
BY DEF NoAnswer, Ans

\* The shell's own call begins.
LEMMA OwnInvoke ==
    ASSUME IInv, NEW o \in Ops, Invoke(shell, o)
    PROVE  /\ op'[shell] = o /\ answer'[shell] = NoAnswer
           /\ pc'[shell] \in {"lock", "send"}
           /\ UNCHANGED <<mode, sample, fresh>>
BY ShellThreads DEF IInv, TypeOK, ExchangesTypeOK, Invoke, Called, Enter, sensorVars

\* Another thread's call begins: nothing the shell looks at changes.
LEMMA OtherInvoke ==
    ASSUME IInv, NEW c \in Callers, c # shell, NEW o \in Ops, Invoke(c, o)
    PROVE  UNCHANGED <<op[shell], answer[shell], pc[shell], mode, sample, fresh>>
BY ShellThreads DEF IInv, TypeOK, ExchangesTypeOK, Invoke, Called, Enter, sensorVars

\* A driver call takes no sample and raises no flag.
LEMMA CallTakesNoSample ==
    ASSUME NEW c \in Callers, CallStep(c)
    PROVE  sample' = sample /\ (fresh' => fresh)
<1>1. (\E o \in Ops \cup {op[c], pending} : Execute(o)) \/ UNCHANGED sensorVars
  BY DEF CallStep, Send, SendFails, Receive, ReceiveFails, Return, Answered
<1>2. ASSUME NEW o, Execute(o) PROVE sample' = sample /\ (fresh' => fresh)
  BY <1>2, Zenon DEF Execute
<1>3. UNCHANGED sensorVars => sample' = sample /\ (fresh' => fresh)
  BY DEF sensorVars
<1> QED BY <1>1, <1>2, <1>3

\* Another thread's step leaves the shell where it is, or hands it the mutex.
LEMMA OtherCallStep ==
    ASSUME IInv, NEW c \in Callers, c # shell, CallStep(c)
    PROVE  /\ UNCHANGED <<op[shell], answer[shell]>>
           /\ pc'[shell] = pc[shell] \/ (pc[shell] = "lock" /\ pc'[shell] = "send")
<1> USE ShellThreads DEF IInv, TypeOK, ExchangesTypeOK
<1>1. CASE Send(c) \/ SendFails(c)
  BY <1>1 DEF Send, SendFails, Answered
<1>2. CASE Receive(c) \/ ReceiveFails(c)
  BY <1>2 DEF Receive, ReceiveFails
<1>3. CASE Return(c)
  <2>1. UNCHANGED <<op[shell], answer[shell]>>
    BY <1>3 DEF Return, Returned
  <2>2. pc'[shell] = pc[shell] \/ (pc[shell] = "lock" /\ pc'[shell] = "send")
    BY <1>3 DEF Return, Leave, Waiting
  <2> QED BY <2>1, <2>2
<1> QED BY <1>1, <1>2, <1>3 DEF CallStep

\* The shell's own steps inside the driver: on the way to an answer ...
LEMMA OwnStepAnswers ==
    ASSUME IInv, Send(shell) \/ Return(shell)
    PROVE  \/ /\ op'[shell] = op[shell] /\ op[shell] \in WriteOnly
              /\ answer'[shell] = Ans(op[shell], 0)
           \/ op'[shell] = op[shell] /\ op[shell] # "none" /\ UNCHANGED answer[shell]
           \/ op'[shell] = "none" /\ answer[shell] # NoAnswer /\ UNCHANGED answer[shell]
<1> USE ShellThreads DEF IInv, TypeOK, ExchangesTypeOK
<1>1. CASE Send(shell)
  <2>1. op[shell] \in WriteOnly => SensorAnswer(op[shell]) = Ans(op[shell], 0)
    BY DEF WriteOnly, SensorAnswer
  <2>2. op[shell] # "none"
    BY <1>1 DEF Send, CallState
  <2> QED BY <1>1, <2>1, <2>2 DEF Send, Answered
<1>2. CASE Return(shell)
  BY <1>2 DEF Return, Returned
<1> QED BY <1>1, <1>2

\* ... and when an exchange fails.
LEMMA OwnStepFails ==
    ASSUME IInv, SendFails(shell) \/ ReceiveFails(shell)
    PROVE  op'[shell] = op[shell] /\ answer'[shell] = FailureOf(op[shell])
BY ShellThreads DEF IInv, TypeOK, ExchangesTypeOK, SendFails, ReceiveFails

-----------------------------------------------------------------------------
(* The shell's invariant.                                                  *)

LEMMA ShellInitInv == ShellInit => ShellInv
<1> SUFFICES ASSUME ShellInit PROVE ShellInv
  OBVIOUS
<1>0. 0 \in 0 .. ReadyPolls
  BY ShellThreads
<1> USE ShellThreads DEF ShellInit, Init, ExchangesInit
<1>1. op[shell] = "none" /\ answer[shell] = NoAnswer
  OBVIOUS
<1>2. ShellTypeOK
  <2>1. NoExcuse \in [0 .. ReadyPolls -> Excuses \cup {"none", "up"}]
    BY DEF NoExcuse
  <2> QED BY <1>0, <2>1 DEF ShellTypeOK
<1>3. CommandCalls
  BY <1>1 DEF CommandCalls
<1> QED BY <1>2, <1>3 DEF ShellInv, FlagKnown, PollsExcused, SampleHeld

\* A step that leaves the shell's own call and its history alone.
LEMMA ShellKept ==
    ASSUME ShellInv,
           UNCHANGED <<command, tries, verdict, historyVars, op[shell],
                       answer[shell], fresh, sample>>
    PROVE  ShellInv'
BY DEF ShellInv, ShellTypeOK, CommandCalls, FlagKnown, PollsExcused, SampleHeld,
       CallOver, Ready, historyVars

\* The commands of the shell thread.
LEMMA ShellStepInv ==
    ASSUME IInv, ShellInv, ShellStep
    PROVE  ShellInv'
<1> USE ShellThreads DEF ShellInv
<1>1. CASE CmdSerial
  <2>1. /\ op'[shell] = "serial" /\ answer'[shell] = NoAnswer
        /\ command' = "serial"
        /\ UNCHANGED <<fresh, sample, tries, verdict, lowered, excuse, held>>
    BY <1>1, OwnInvoke, ShellOps DEF CmdSerial, historyVars
  <2> QED BY <2>1, AnswersDiffer DEF ShellTypeOK, CommandCalls, FlagKnown,
                      PollsExcused, SampleHeld, CallOver, Ready
<1>2. CASE CmdSerialEnds \/ CmdReadGivesUp \/ CmdReadEnds
  <2>1. /\ command' = "prompt" /\ CallOver
        /\ UNCHANGED <<vars, tries, lowered, excuse, held>>
        /\ verdict' \in {verdict, "again", "error", "printed"}
    BY <1>2 DEF CmdSerialEnds, CmdReadGivesUp, CmdReadEnds, historyVars
  <2>2. UNCHANGED <<op, answer, fresh, sample>>
    BY <2>1 DEF vars, exchangesVars, sensorVars
  <2> QED BY <2>1, <2>2 DEF ShellTypeOK, CommandCalls, FlagKnown, PollsExcused,
                      SampleHeld, CallOver, Ready
<1>3. CASE CmdRead
  <2>1. /\ op'[shell] = "start" /\ answer'[shell] = NoAnswer /\ command' = "start"
        /\ tries' = 0 /\ verdict' = "none"
        /\ lowered' = IF fresh THEN "up" ELSE "no sample"
        /\ excuse' = NoExcuse /\ held' = {}
        /\ UNCHANGED <<fresh, sample>>
    BY <1>3, OwnInvoke, ShellOps DEF CmdRead
  <2>2. ShellTypeOK'
    <3>1. 0 \in 0 .. ReadyPolls
      OBVIOUS
    <3>2. NoExcuse \in [0 .. ReadyPolls -> Excuses \cup {"none", "up"}]
      BY DEF NoExcuse
    <3>3. lowered' \in {"up", "no sample", "taken", "power"}
      BY <2>1
    <3> QED BY <2>1, <3>1, <3>2, <3>3 DEF ShellTypeOK
  <2>3. FlagKnown'
    BY <2>1 DEF FlagKnown
  <2> QED BY <2>1, <2>2, <2>3, AnswersDiffer
          DEF CommandCalls, PollsExcused, SampleHeld, CallOver, Ready
<1>4. CASE CmdReadPolls
  <2>1. /\ op'[shell] = "ready" /\ answer'[shell] = NoAnswer
        /\ UNCHANGED <<fresh, sample, verdict, lowered, excuse, held>>
        /\ command \in {"start", "ready"} /\ command' = "ready" /\ CallOver
        /\ command = "ready" => ~Ready
        /\ tries < ReadyPolls /\ tries' = tries + 1
    BY <1>4, OwnInvoke, ShellOps DEF CmdReadPolls, historyVars
  <2>2. tries \in Nat /\ tries' \in 0 .. ReadyPolls
    <3>1. tries \in 0 .. ReadyPolls
      BY DEF ShellTypeOK
    <3> QED BY <2>1, <3>1
  <2>3. \A i \in 1 .. tries : excuse[i] \in Excuses
    <3>1. CASE command = "start"
      <4>1. tries = 0
        BY <3>1 DEF PollsExcused
      <4> QED BY <4>1
    <3>2. CASE command = "ready"
      <4>1. answer[shell] \notin {NoAnswer, Ans("ready", 1)}
        BY <2>1, <3>2 DEF CommandCalls, Ready
      <4> QED BY <3>2, <4>1 DEF PollsExcused
    <3> QED BY <2>1, <3>1, <3>2
  <2>4. tries' # 0 /\ (\A i \in 1 .. tries' : i \in 1 .. tries \/ i = tries')
    BY <2>1, <2>2
  <2>5. PollsExcused'
    BY <2>1, <2>3, <2>4 DEF PollsExcused
  <2>6. ShellTypeOK' /\ FlagKnown'
    BY <2>1, <2>2 DEF ShellTypeOK, FlagKnown
  <2>7. SampleHeld' /\ CommandCalls'
    BY <2>1, AnswersDiffer DEF SampleHeld, CommandCalls, Ready, CallOver
  <2> QED BY <2>5, <2>6, <2>7
<1>5. CASE CmdReadFetches
  <2>1. /\ op'[shell] = "read" /\ answer'[shell] = NoAnswer
        /\ UNCHANGED <<fresh, sample, tries, verdict, lowered, excuse, held>>
        /\ command = "ready" /\ Ready /\ command' = "read"
    BY <1>5, OwnInvoke, ShellOps DEF CmdReadFetches, historyVars
  <2> QED BY <2>1, AnswersDiffer DEF ShellTypeOK, CommandCalls, FlagKnown,
                      PollsExcused, SampleHeld, CallOver, Ready
<1> QED BY <1>1, <1>2, <1>3, <1>4, <1>5 DEF ShellStep

\* The calls of the other threads do not reach the shell.
LEMMA OtherCallsInv ==
    ASSUME IInv, ShellInv, FirstStart \/ PollCalls
    PROVE  ShellInv'
<1>1. /\ UNCHANGED <<op[shell], answer[shell], fresh, sample>>
      /\ UNCHANGED <<command, tries, verdict, historyVars>>
  BY OtherInvoke, ShellThreads, ShellOps DEF FirstStart, PollCalls, shellVars
<1> QED BY <1>1, ShellKept

\* A sample raises the flag, a power change lowers it, and either is held.
LEMMA SensorActsInv ==
    ASSUME IInv, ShellInv, SensorActs
    PROVE  ShellInv'
<1>1. UNCHANGED <<op, answer, command, tries, verdict, excuse>>
  BY DEF SensorActs, SensorStep
<1>2. FlagKnown' /\ lowered' \in {"up", "no sample", "taken", "power"}
  <2>1. CASE PowerChanges
    BY <2>1 DEF PowerChanges, SensorActs, FlagKnown
  <2>2. CASE NewSample
    BY <2>2 DEF NewSample, SensorActs, FlagKnown
  <2> QED BY <2>1, <2>2 DEF SensorActs, SensorStep
<1>3. SampleHeld'
  <2>1. held' = IF held = {} THEN {} ELSE held \cup {sample'}
    BY DEF SensorActs
  <2> QED BY <1>1, <2>1 DEF ShellInv, SampleHeld, Ready
<1> QED BY <1>1, <1>2, <1>3 DEF ShellInv, ShellTypeOK, CommandCalls, PollsExcused, CallOver

\* Whoever lowers the flag, the reason is kept.
LEMMA FlagStep ==
    ASSUME ShellInv, NEW c \in Callers, DriverStep(c), CallStep(c)
    PROVE  FlagKnown' /\ lowered' \in {"up", "no sample", "taken", "power"}
<1>1. fresh' => fresh
  BY CallTakesNoSample
<1>2. lowered' = IF fresh /\ ~fresh' THEN IF c = shell THEN "no sample" ELSE "taken"
                                     ELSE lowered
  BY DEF DriverStep
<1> QED BY <1>1, <1>2 DEF ShellInv, FlagKnown, ShellTypeOK

\* A step inside another thread's call may take the sample.
LEMMA OtherDriverStepInv ==
    ASSUME IInv, ShellInv, NEW c \in Callers, c # shell, DriverStep(c)
    PROVE  ShellInv'
<1>1. CallStep(c) /\ UNCHANGED <<command, tries, verdict, excuse, held>>
  BY DEF DriverStep, CallStep, PollAnswered, CallFailed
<1>2. UNCHANGED <<op[shell], answer[shell], sample>>
  BY <1>1, CallTakesNoSample, OtherCallStep
<1>3. FlagKnown' /\ lowered' \in {"up", "no sample", "taken", "power"}
  BY <1>1, FlagStep
<1> QED BY <1>1, <1>2, <1>3 DEF ShellInv, ShellTypeOK, CommandCalls, PollsExcused,
                    SampleHeld, CallOver, Ready

\* A step inside the shell's own call: it fails and says so, or it answers
\* with what the flag and the part's sample are.
LEMMA OwnDriverStepInv ==
    ASSUME IInv, ShellInv, DriverStep(shell)
    PROVE  ShellInv'
<1> USE ShellThreads, AnswersDiffer
<1>1. /\ CallStep(shell) /\ UNCHANGED <<command, tries, verdict>> /\ UNCHANGED sample
  <2>1. CallStep(shell) /\ UNCHANGED <<command, tries, verdict>>
    BY DEF DriverStep, CallStep
  <2> QED BY <2>1, CallTakesNoSample
<1>2. FlagKnown' /\ lowered' \in {"up", "no sample", "taken", "power"}
  BY <1>1, FlagStep
<1>3. op[shell] \in Ops /\ op[shell] = command /\ command # "prompt"
  <2>1. pc[shell] # "outside"
    BY <1>1 DEF CallStep, Send, SendFails, Receive, ReceiveFails, Return
  <2>2. op[shell] # "none"
    BY <2>1 DEF IInv, CallState
  <2> QED BY <2>2 DEF IInv, TypeOK, ExchangesTypeOK, ShellInv, CommandCalls
<1>4. excuse \in [0 .. ReadyPolls -> Excuses \cup {"none", "up"}]
      /\ tries \in 0 .. ReadyPolls /\ Fetch \in 0 .. ReadyPolls
  <2>1. Fetch \in 0 .. ReadyPolls
    BY DEF Fetch
  <2> QED BY <2>1 DEF ShellInv, ShellTypeOK
<1> DEFINE Kept == UNCHANGED <<excuse, held>>
           Goal == /\ CommandCalls' /\ PollsExcused' /\ SampleHeld'
                   /\ excuse' \in [0 .. ReadyPolls -> Excuses \cup {"none", "up"}]
<1> USE DEF ShellInv, CommandCalls, SampleHeld, PollsExcused, CallOver, Ready
<1>5. ASSUME op'[shell] = op[shell], op[shell] \in WriteOnly,
             answer'[shell] = Ans(op[shell], 0), Kept
      PROVE  Goal
  BY <1>1, <1>3, <1>4, <1>5 DEF WriteOnly, NoAnswer, Ans
<1>6. ASSUME op'[shell] \in {op[shell], "none"}, UNCHANGED answer[shell], Kept,
             op'[shell] = "none" => answer[shell] # NoAnswer
      PROVE  Goal
  BY <1>1, <1>3, <1>4, <1>6
<1>7. ASSUME op'[shell] = op[shell], answer'[shell] = SensorAnswer(op[shell]),
             PollAnswered(shell)
      PROVE  Goal
  <2>1. CASE op[shell] = "ready"
    <3>1. /\ excuse' = [excuse EXCEPT ![tries] = lowered]
          /\ held' = IF fresh THEN {sample} ELSE held
      BY <1>3, <1>7, <2>1 DEF PollAnswered
    <3>2. answer'[shell] = Ans("ready", IF fresh THEN 1 ELSE 0)
      BY <1>7, <2>1 DEF SensorAnswer
    <3>3. fresh \/ lowered \in Excuses
      BY DEF FlagKnown, ShellTypeOK, Excuses
    <3>4. excuse' \in [0 .. ReadyPolls -> Excuses \cup {"none", "up"}]
      BY <1>4, <3>1 DEF ShellTypeOK, Excuses
    <3>5. \A i \in 0 .. ReadyPolls : excuse'[i] = IF i = tries THEN lowered ELSE excuse[i]
      BY <1>4, <3>1
    <3>6. PollsExcused'
      <4>1. command' = "ready" /\ tries' = tries /\ tries # 0
        BY <1>1, <1>3, <2>1
      <4>2. ASSUME NEW i \in 1 .. tries
            PROVE  excuse'[i] \in Excuses \/ (i = tries /\ answer'[shell] = Ans("ready", 1))
        <5>1. i \in 0 .. ReadyPolls
          BY <1>4
        <5>2. i # tries => excuse[i] \in Excuses
          BY <1>3, <2>1
        <5> QED BY <3>2, <3>3, <3>5, <5>1, <5>2
      <4> QED BY <4>1, <4>2
    <3>7. CommandCalls'
      BY <1>1, <1>3, <1>7, <2>1, <3>2
    <3>8. SampleHeld'
      BY <1>1, <1>3, <2>1, <3>1, <3>2
    <3> QED BY <3>4, <3>6, <3>7, <3>8
  <2>2. CASE op[shell] # "ready"
    <3>1. Kept
      BY <1>3, <1>7, <2>2 DEF PollAnswered
    <3>2. /\ op[shell] = "read" => answer'[shell] = Ans("read", sample)
          /\ op[shell] # "read" => answer'[shell] = Ans(op[shell], 0)
      BY <1>7, <2>2 DEF SensorAnswer
    <3>3. answer'[shell] # NoAnswer /\ answer'[shell].kind = op[shell]
          /\ op[shell] \notin {"none", "failed"}
      BY <1>3, <3>2 DEF NoAnswer, Ans, Ops, WriteOnly
    <3>4. op[shell] = "read" => answer'[shell].val = sample
      BY <3>2 DEF Ans
    <3> QED BY <1>1, <1>3, <1>4, <1>7, <2>2, <3>1, <3>3, <3>4
  <2> QED BY <2>1, <2>2
<1>8. ASSUME op'[shell] = op[shell], answer'[shell] = FailureOf(op[shell]),
             CallFailed(shell), UNCHANGED held
      PROVE  Goal
  <2>1. CASE op[shell] = "ready"
    <3>1. excuse' = [excuse EXCEPT ![tries] = "failed"]
      BY <1>3, <1>8, <2>1 DEF CallFailed
    <3>2. answer'[shell] = Ans("ready", 0)
      BY <1>8, <2>1 DEF FailureOf
    <3>3. excuse' \in [0 .. ReadyPolls -> Excuses \cup {"none", "up"}]
      BY <1>4, <3>1 DEF Excuses
    <3>4. \A i \in 0 .. ReadyPolls : excuse'[i] = IF i = tries THEN "failed" ELSE excuse[i]
      BY <1>4, <3>1
    <3>5. PollsExcused'
      <4>1. command' = "ready" /\ tries' = tries /\ tries # 0
        BY <1>1, <1>3, <2>1
      <4>2. ASSUME NEW i \in 1 .. tries PROVE excuse'[i] \in Excuses
        <5>1. i \in 0 .. ReadyPolls
          BY <1>4
        <5>2. i # tries => excuse[i] \in Excuses
          BY <1>3, <2>1
        <5> QED BY <3>4, <5>1, <5>2 DEF Excuses
      <4> QED BY <4>1, <4>2
    <3>6. CommandCalls' /\ SampleHeld'
      BY <1>1, <1>3, <1>8, <2>1, <3>2
    <3> QED BY <3>3, <3>5, <3>6
  <2>2. CASE op[shell] = "read"
    <3>1. excuse' = [excuse EXCEPT ![Fetch] = "failed"]
      BY <1>3, <1>8, <2>2 DEF CallFailed
    <3>2. answer'[shell] = Ans("failed", 0)
      BY <1>8, <2>2 DEF FailureOf
    <3>3. excuse' \in [0 .. ReadyPolls -> Excuses \cup {"none", "up"}]
          /\ excuse'[Fetch] = "failed"
      BY <1>4, <3>1 DEF Excuses
    <3>4. answer'[shell] # NoAnswer /\ answer'[shell].kind = "failed"
      BY <3>2 DEF NoAnswer, Ans
    <3> QED BY <1>1, <1>3, <1>8, <2>2, <3>3, <3>4
  <2>3. CASE op[shell] \notin {"ready", "read"}
    <3>1. Kept
      BY <1>3, <1>8, <2>3 DEF CallFailed
    <3>2. answer'[shell] # NoAnswer /\ answer'[shell].kind # "none"
      BY <1>8, <2>3 DEF FailureOf, NoAnswer, Ans
    <3> QED BY <1>1, <1>3, <1>4, <1>8, <2>3, <3>1, <3>2
  <2> QED BY <2>1, <2>2, <2>3
<1>9. Goal
  <2>1. CASE Receive(shell) /\ PollAnswered(shell)
    <3>1. /\ pending = op[shell] /\ answer[shell] = NoAnswer
          /\ op[shell] \notin WriteOnly
      BY <2>1 DEF Receive, IInv, OwnResponse, CallState
    <3>2. op'[shell] = op[shell] /\ answer'[shell] = SensorAnswer(op[shell])
      BY <2>1, <3>1 DEF Receive, IInv, TypeOK, ExchangesTypeOK
    <3> QED BY <2>1, <3>2, <1>7
  <2>2. CASE (Send(shell) \/ Return(shell)) /\ Kept
    BY <2>2, OwnStepAnswers, <1>5, <1>6
  <2>3. CASE /\ SendFails(shell) \/ ReceiveFails(shell)
             /\ CallFailed(shell) /\ UNCHANGED held
    BY <2>3, OwnStepFails, <1>8
  <2> QED BY <2>1, <2>2, <2>3 DEF DriverStep
<1> QED BY <1>1, <1>2, <1>9 DEF ShellTypeOK

LEMMA ShellNextInv == IInv /\ ShellInv /\ [ShellNext]_allVars => ShellInv'
<1> SUFFICES ASSUME IInv, ShellInv, [ShellNext]_allVars PROVE ShellInv'
  OBVIOUS
<1>1. CASE UNCHANGED allVars
  BY <1>1, ShellKept DEF allVars, shellVars, vars, exchangesVars, sensorVars
<1>2. ASSUME NEW c \in Callers, DriverStep(c) PROVE ShellInv'
  <2>1. CASE c = shell
    BY <1>2, <2>1, OwnDriverStepInv
  <2>2. CASE c # shell
    BY <1>2, <2>2, OtherDriverStepInv
  <2> QED BY <2>1, <2>2
<1> QED BY <1>1, <1>2, ShellStepInv, OtherCallsInv, SensorActsInv DEF ShellNext

LEMMA ShellInvariant == ShellSpec => [](IInv /\ ShellInv)
<1>1. ShellSpec => []IInv
  BY ShellImplementsDriver, DriverInvariant, PTL
<1>2. IInv /\ ShellInv /\ [ShellNext]_allVars => ShellInv'
  BY ShellNextInv
<1> QED BY <1>1, <1>2, ShellInitInv, PTL DEF ShellSpec

\* `sen66 read` says that no data is ready only after ReadyPolls polls each of
\* which failed or met a lowered flag, and reports a failure only of its own
\* fetch, for any number of polls and whatever the other threads and the part do.
THEOREM ShellGivesUpForAReason == ShellSpec => GivesUpForAReason
<1> DEFINE Reason ==
             /\ verdict' = "again" /\ verdict # "again" =>
                    \A i \in 1 .. ReadyPolls : excuse[i] \in Excuses
             /\ verdict' = "error" /\ verdict # "error" => excuse[Fetch] = "failed"
<1>1. IInv /\ ShellInv /\ [ShellNext]_allVars => Reason
  <2> SUFFICES ASSUME ShellInv, [ShellNext]_allVars, verdict' # verdict PROVE Reason
    OBVIOUS
  <2>1. CmdRead \/ CmdReadGivesUp \/ CmdReadEnds
    BY DEF ShellNext, ShellStep, CmdSerial, CmdSerialEnds, CmdReadPolls, CmdReadFetches,
           FirstStart, PollCalls, SensorActs, DriverStep, allVars, shellVars
  <2>2. CASE CmdRead
    BY <2>2 DEF CmdRead
  <2>3. CASE CmdReadGivesUp
    <3>1. /\ command = "ready" /\ CallOver /\ ~Ready /\ tries = ReadyPolls
          /\ verdict' = "again"
      BY <2>3 DEF CmdReadGivesUp
    <3>2. answer[shell] \notin {NoAnswer, Ans("ready", 1)}
      BY <3>1 DEF ShellInv, CommandCalls, Ready
    <3> QED BY <3>1, <3>2 DEF ShellInv, PollsExcused
  <2>4. CASE CmdReadEnds
    BY <2>4 DEF CmdReadEnds, ShellInv, PollsExcused
  <2> QED BY <2>1, <2>2, <2>3, <2>4
<1> HIDE DEF Reason
<1>2. ShellSpec => [][Reason]_allVars
  BY <1>1, ShellInvariant, PTL DEF ShellSpec
<1> QED BY <1>2 DEF Reason, GivesUpForAReason

\* A frame `sen66 read` prints holds the sample its flag announced or one that
\* the part held since, for any number of samples and polls.
THEOREM ShellPrintsASample == ShellSpec => PrintedIsASample
<1> DEFINE Honest == CmdReadEnds /\ verdict' = "printed" => answer[shell].val \in held
<1>1. IInv /\ ShellInv => Honest
  <2> SUFFICES ASSUME ShellInv, CmdReadEnds, verdict' = "printed"
               PROVE  answer[shell].val \in held
    OBVIOUS
  <2>1. command = "read" /\ CallOver /\ answer[shell].kind # "failed"
    BY DEF CmdReadEnds
  <2>2. answer[shell].kind # "none"
    BY <2>1 DEF ShellInv, CommandCalls
  <2> QED BY <2>1, <2>2 DEF ShellInv, SampleHeld
<1> HIDE DEF Honest
<1>2. ShellSpec => [][Honest]_allVars
  BY <1>1, ShellInvariant, PTL
<1> QED BY <1>2 DEF Honest, PrintedIsASample
=============================================================================
