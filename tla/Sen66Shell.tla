----------------------------- MODULE Sen66Shell ------------------------------
(***************************************************************************)
(* The `sen66` shell commands that use the bus (sen66_shell.cpp), beside   *)
(* the service's poll thread, which reads the sensor without asking its    *)
(* data-ready flag, and the main thread, which starts the sensor once.     *)
(***************************************************************************)
EXTENDS Sen66Driver

CONSTANTS
    main, poll, shell,  \* the threads
    ReadyPolls          \* kDataReadyPollCount

ASSUME ShellAssumption ==
    /\ Callers = {main, poll, shell} /\ shell \notin {main, poll}
    /\ ReadyPolls \in Nat

VARIABLES
    command,    \* what the shell runs: "prompt", "serial", or the call
                \* CmdRead is in: "start", "ready", "read"
    tries,      \* the loop counter i of CmdRead
    verdict,    \* how the last CmdRead ended: "none" (not yet), "printed",
                \* "error", or "again" (no data ready)
    booted,     \* TRUE once the main thread made its one call
    lowered,    \* history: why the data-ready flag is down, or "up"
    excuse,     \* history: what each data-ready poll of CmdRead met, and its
                \* fetch of the frame
    held        \* history: the samples the part held since CmdRead saw the
                \* flag; empty before

historyVars == <<lowered, excuse, held>>
shellVars == <<command, tries, verdict, booted, historyVars>>
allVars == <<vars, shellVars>>

\* What can keep CmdRead from data: its own exchange failed, or the flag is down
\* because the part has not taken a sample since the command began, because
\* another thread read the sample, or because the part lost power.
Excuses == {"failed", "no sample", "taken", "power"}

Fetch == 0      \* the fetch in `excuse`; the polls are 1..ReadyPolls
NoExcuse == [i \in 0 .. ReadyPolls |-> "none"]

ShellInit ==
    /\ Init
    /\ command = "prompt" /\ tries = 0 /\ verdict = "none"
    /\ booted = FALSE
    /\ lowered = "no sample" /\ excuse = NoExcuse /\ held = {}

-----------------------------------------------------------------------------
(* The shell thread.                                                       *)

\* The call the command made has returned.
CallOver == op[shell] = "none"
Ready == answer[shell] = Ans("ready", 1)

CmdSerial ==
    /\ command = "prompt"
    /\ Invoke(shell, "serial")
    /\ command' = "serial"
    /\ UNCHANGED <<tries, verdict, booted, historyVars>>

CmdSerialEnds ==
    /\ command = "serial" /\ CallOver
    /\ command' = "prompt"
    /\ UNCHANGED <<vars, tries, verdict, booted, historyVars>>

CmdRead ==
    /\ command = "prompt"
    /\ Invoke(shell, "start")
    /\ command' = "start" /\ tries' = 0 /\ verdict' = "none"
    /\ lowered' = IF fresh THEN "up" ELSE "no sample"
    /\ excuse' = NoExcuse /\ held' = {}
    /\ UNCHANGED booted

\* Faulty variant: the polls are not counted.
CmdReadPollsUncounted ==
    /\ command \in {"start", "ready"} /\ CallOver
    /\ command = "ready" => ~Ready
    /\ Invoke(shell, "ready")
    /\ command' = "ready"
    /\ UNCHANGED <<tries, verdict, booted, historyVars>>

\* The result of the start is ignored.
CmdReadPolls ==
    /\ command \in {"start", "ready"} /\ CallOver
    /\ command = "ready" => ~Ready
    /\ tries < ReadyPolls
    /\ Invoke(shell, "ready")
    /\ command' = "ready" /\ tries' = tries + 1
    /\ UNCHANGED <<verdict, booted, historyVars>>

\* Faulty variant: gives up one poll early.
CmdReadGivesUpEarly ==
    /\ command = "ready" /\ CallOver /\ ~Ready /\ tries >= ReadyPolls - 1
    /\ command' = "prompt" /\ verdict' = "again"
    /\ UNCHANGED <<vars, tries, booted, historyVars>>

CmdReadGivesUp ==
    /\ command = "ready" /\ CallOver /\ ~Ready /\ tries = ReadyPolls
    /\ command' = "prompt" /\ verdict' = "again"
    /\ UNCHANGED <<vars, tries, booted, historyVars>>

\* Faulty variant: the loop runs out and the frame is read all the same.
CmdReadFetchesAnyway ==
    /\ command = "ready" /\ CallOver /\ (Ready \/ tries = ReadyPolls)
    /\ Invoke(shell, "read")
    /\ command' = "read"
    /\ UNCHANGED <<tries, verdict, booted, historyVars>>

CmdReadFetches ==
    /\ command = "ready" /\ CallOver /\ Ready
    /\ Invoke(shell, "read")
    /\ command' = "read"
    /\ UNCHANGED <<tries, verdict, booted, historyVars>>

CmdReadEnds ==
    /\ command = "read" /\ CallOver
    /\ command' = "prompt"
    /\ verdict' = IF answer[shell].kind = "failed" THEN "error" ELSE "printed"
    /\ UNCHANGED <<vars, tries, booted, historyVars>>

ShellStep ==
    CmdSerial \/ CmdSerialEnds \/ CmdRead \/ CmdReadPolls \/ CmdReadGivesUp
        \/ CmdReadFetches \/ CmdReadEnds

-----------------------------------------------------------------------------
(* The other threads and the sensor.                                       *)

\* MeasurementService::Init on the main thread.
FirstStart ==
    /\ ~booted /\ booted' = TRUE
    /\ Invoke(main, "start")
    /\ UNCHANGED <<command, tries, verdict, historyVars>>

\* PollWorkHandler: a restart or a read.  Init schedules the first poll after
\* its own call has returned.
PollCalls ==
    /\ booted /\ op[main] = "none"
    /\ \E o \in {"start", "read"} : Invoke(poll, o)
    /\ UNCHANGED shellVars

\* What the answer to a data-ready poll of CmdRead shows it.
PollAnswered(c) ==
    IF c = shell /\ command = "ready"
       THEN /\ excuse' = [excuse EXCEPT ![tries] = lowered]
            /\ held' = IF fresh THEN {sample} ELSE held
       ELSE UNCHANGED <<excuse, held>>

CallFailed(c) ==
    IF c = shell /\ command \in {"ready", "read"}
       THEN excuse' = [excuse EXCEPT ![IF command = "read" THEN Fetch ELSE tries] = "failed"]
       ELSE UNCHANGED excuse

\* A step inside a driver call, noting what becomes of CmdRead's wait.
DriverStep(c) ==
    /\ \/ /\ Send(c) \/ Return(c)
          /\ UNCHANGED <<excuse, held>>
       \/ Receive(c) /\ PollAnswered(c)
       \/ /\ SendFails(c) \/ ReceiveFails(c)
          /\ CallFailed(c) /\ UNCHANGED held
    /\ lowered' = IF fresh /\ ~fresh'
                     THEN IF c = shell THEN "no sample" ELSE "taken"
                     ELSE lowered
    /\ UNCHANGED <<command, tries, verdict, booted>>

SensorActs ==
    /\ SensorStep
    /\ lowered' = IF mode # mode' THEN "power" ELSE "up"
    /\ held' = IF held = {} THEN {} ELSE held \cup {sample'}
    /\ UNCHANGED <<command, tries, verdict, booted, excuse>>

ShellNext ==
    \/ ShellStep \/ FirstStart \/ PollCalls \/ SensorActs
    \/ \E c \in Callers : DriverStep(c)

ShellSpec == ShellInit /\ [][ShellNext]_allVars

\* What the shell thread does next once a call of its command has returned.
CarryOn ==
    CmdSerialEnds \/ CmdReadPolls \/ CmdReadGivesUp \/ CmdReadFetches \/ CmdReadEnds

\* A command the user started is carried on: the shell thread is ready
\* whenever no call of it runs.  Nobody has to start one.
ShellFairSpec ==
    /\ ShellSpec
    /\ \A c \in Callers : WF_allVars(DriverStep(c))
    /\ WF_allVars(CarryOn)

-----------------------------------------------------------------------------
(* Properties.                                                             *)

\* sen66_shell.cpp:129-148: a frame is printed only after the flag announced a
\* sample, and what it holds is that sample or what the part came to hold since:
\* a newer one, or none at all (0) when it lost power in between, but never an
\* older one.
PrintedIsASample ==
    [][CmdReadEnds /\ verdict' = "printed" => answer[shell].val \in held]_allVars

\* CmdRead says that no data is ready only after ReadyPolls polls each of which
\* failed or met a flag that was down, for a reason known; and it reports a
\* failed read only if its own fetch failed.
GivesUpForAReason ==
    [][ /\ verdict' = "again" /\ verdict # "again" =>
               \A i \in 1 .. ReadyPolls : excuse[i] \in Excuses
        /\ verdict' = "error" /\ verdict # "error" => excuse[Fetch] = "failed" ]_allVars

\* Every command comes back to the prompt, whatever the sensor does and
\* however often the service polls: the loop is bounded and so is each call.
CommandsEnd == command # "prompt" ~> command = "prompt"
=============================================================================
