----------------------- MODULE MeasurementPolicyProofs -----------------------
(***************************************************************************)
(* Theorems about MeasurementPolicy for every configuration: any channels, *)
(* readings and thresholds, any failure threshold and list of delays, any  *)
(* counter width that can count past the ladder.                           *)
(***************************************************************************)
EXTENDS MeasurementPolicy, TLAPS

\* A frame with a valid channel, current or announced, was read at some time:
\* what makes NotifyNeverRefused inductive.
ValidImpliesEverValid ==
    Valid(latest) # {} \/ Valid(lastNotified) # {} => everValid

PolicyInv ==
    PolicyTypeOK /\ BackoffLadder /\ ValidImpliesEverValid /\ NotifyNeverRefused

-----------------------------------------------------------------------------
(* Lemmas about the operators.                                             *)

\* The steps of the backoff table are numbered from 0 to LastStep.
LEMMA LadderConstants ==
    /\ FailureThreshold \in Nat \ {0} /\ LastStep \in Nat
    /\ Len(BackoffSteps) = LastStep + 1
    /\ CounterModulus \in Nat /\ CounterModulus > FailureThreshold + LastStep + 1
<1>1. Len(BackoffSteps) \in Nat
  BY BackoffAssumption
<1> QED BY <1>1, BackoffAssumption DEF LastStep

\* Measurement{} is a frame without a valid channel.
LEMMA NoReadingIsEmptyFrame == NoReading \in Frames /\ Valid(NoReading) = {}
BY DEF NoReading, Frames, Valid

\* Counting a failure stays within the counter's width, and below its last
\* value it is plain addition.
LEMMA CountFailure ==
    ASSUME NEW n \in 0 .. CounterModulus - 1
    PROVE  /\ (n + 1) % CounterModulus \in 0 .. CounterModulus - 1
           /\ n < CounterModulus - 1 => (n + 1) % CounterModulus = n + 1
BY BackoffAssumption

-----------------------------------------------------------------------------
(* The inductive invariant.                                                *)

LEMMA PolicyInitInv == PolicyInit => PolicyInv
<1> SUFFICES ASSUME PolicyInit PROVE PolicyInv
  OBVIOUS
<1>1. 0 \in Times /\ 0 \in 0 .. CounterModulus - 1 /\ 0 \in 0 .. LastStep
  BY LadderConstants, TimingAssumption DEF Times
<1>2. PolicyTypeOK
  BY <1>1, NoReadingIsEmptyFrame DEF PolicyInit, PolicyTypeOK
<1>3. BackoffLadder
  BY LadderConstants DEF PolicyInit, BackoffLadder
<1>4. ValidImpliesEverValid /\ NotifyNeverRefused
  BY NoReadingIsEmptyFrame DEF PolicyInit, ValidImpliesEverValid, NotifyNeverRefused
<1> QED BY <1>2, <1>3, <1>4 DEF PolicyInv

\* What a failure does, case by case.  Below the last rung the counter is far
\* from wrapping, so it counts; at the last rung only the rung matters.
LEMMA FailureEffect ==
    ASSUME PolicyInv, OnReadFailure
    PROVE  /\ consecutiveFailures' \in 0 .. CounterModulus - 1
           /\ inBackoff' \in BOOLEAN
           /\ ~inBackoff =>
                 /\ consecutiveFailures' = consecutiveFailures + 1
                 /\ inBackoff' <=> consecutiveFailures' >= FailureThreshold
                 /\ backoffStepIndex' = 0 /\ backoffStepIndex = 0
           /\ inBackoff /\ backoffStepIndex < LastStep =>
                 /\ inBackoff'
                 /\ consecutiveFailures' = consecutiveFailures + 1
                 /\ backoffStepIndex' = backoffStepIndex + 1
           /\ inBackoff /\ ~(backoffStepIndex < LastStep) =>
                 inBackoff' /\ backoffStepIndex' = backoffStepIndex
<1> DEFINE failures == (consecutiveFailures + 1) % CounterModulus
<1>1. /\ failures \in 0 .. CounterModulus - 1
      /\ consecutiveFailures < CounterModulus - 1 => failures = consecutiveFailures + 1
  BY CountFailure DEF PolicyInv, PolicyTypeOK
<1>2. /\ consecutiveFailures' = failures
      /\ inBackoff' = (inBackoff \/ failures >= FailureThreshold)
      /\ backoffStepIndex' = StepAfterFailure(failures >= FailureThreshold)
  BY DEF OnReadFailure
<1> HIDE DEF failures
<1> USE DEF StepAfterFailure
<1>3. inBackoff' \in BOOLEAN /\ (inBackoff' <=> inBackoff \/ failures >= FailureThreshold)
  BY <1>2
<1>4. CASE ~inBackoff
  <2>1. consecutiveFailures < CounterModulus - 1 /\ backoffStepIndex = 0
    BY <1>4, LadderConstants DEF PolicyInv, PolicyTypeOK, BackoffLadder
  <2> QED BY <1>1, <1>2, <1>3, <1>4, <2>1
<1>5. CASE inBackoff /\ backoffStepIndex < LastStep
  <2>1. /\ consecutiveFailures < CounterModulus - 1
        /\ consecutiveFailures + 1 >= FailureThreshold
    BY <1>5, LadderConstants DEF PolicyInv, PolicyTypeOK, BackoffLadder
  <2> QED BY <1>1, <1>2, <1>3, <1>5, <2>1
<1>6. CASE inBackoff /\ ~(backoffStepIndex < LastStep)
  BY <1>1, <1>2, <1>3, <1>6
<1> QED BY <1>4, <1>5, <1>6

\* A failure climbs the ladder by one rung or holds the last.
LEMMA FailureInv == PolicyInv /\ OnReadFailure => PolicyInv'
<1> SUFFICES ASSUME PolicyInv, OnReadFailure
             PROVE  PolicyInv'
  OBVIOUS
<1>1. PolicyTypeOK'
  <2>1. backoffStepIndex' \in 0 .. LastStep
    BY FailureEffect, LadderConstants DEF PolicyInv, PolicyTypeOK
  <2> QED
    BY FailureEffect, <2>1
       DEF PolicyInv, PolicyTypeOK, OnReadFailure, readingVars, notifyVars
<1>2. BackoffLadder'
  <2>1. CASE ~inBackoff
    BY <2>1, FailureEffect, LadderConstants DEF PolicyInv, PolicyTypeOK, BackoffLadder
  <2>2. CASE inBackoff
    BY <2>2, FailureEffect, LadderConstants DEF PolicyInv, PolicyTypeOK, BackoffLadder
  <2> QED BY <2>1, <2>2
<1>3. ValidImpliesEverValid' /\ NotifyNeverRefused'
  BY DEF OnReadFailure, PolicyInv, ValidImpliesEverValid, NotifyNeverRefused,
         Valid, readingVars, notifyVars
<1> QED BY <1>1, <1>2, <1>3 DEF PolicyInv

\* A success ends the backoff and records the frame it announces.
LEMMA SuccessInv ==
    ASSUME NEW t \in Times, NEW measurement \in Frames,
           PolicyInv, OnReadSuccess(measurement, t)
    PROVE  PolicyInv'
<1>1. PolicyTypeOK'
  <2>1. shouldNotify' \in BOOLEAN /\ everValid' \in BOOLEAN
    BY DEF OnReadSuccess, EvaluateNotify, NotifyDue
  <2>2. changedMask' \subseteq Channels
    BY DEF OnReadSuccess, EvaluateNotify, ChangeMask, FlipMask, DeltaMask, Valid
  <2>3. consecutiveFailures' = 0 /\ inBackoff' = FALSE /\ backoffStepIndex' = 0
    BY DEF OnReadSuccess, FullRecovery
  <2>4. 0 \in 0 .. CounterModulus - 1 /\ 0 \in 0 .. LastStep
    BY LadderConstants
  <2> QED
    BY <2>1, <2>2, <2>3, <2>4
       DEF PolicyInv, PolicyTypeOK, OnReadSuccess, notifyVars
<1>2. BackoffLadder'
  BY LadderConstants DEF BackoffLadder, OnReadSuccess, FullRecovery
<1>3. ValidImpliesEverValid' /\ NotifyNeverRefused'
  BY DEF PolicyInv, ValidImpliesEverValid, NotifyNeverRefused, OnReadSuccess,
         EvaluateNotify, NotifyDue, Valid, notifyVars, PolicyTypeOK
<1> QED BY <1>1, <1>2, <1>3 DEF PolicyInv

\* Marking an announcement copies the latest frame.
LEMMA MarkInv ==
    ASSUME NEW t \in Times, PolicyInv, MarkNotified(t)
    PROVE  PolicyInv'
BY DEF PolicyInv, PolicyTypeOK, BackoffLadder, ValidImpliesEverValid,
       NotifyNeverRefused, MarkNotified, Valid, readingVars, faultVars

LEMMA PolicyNextInv == PolicyInv /\ [PolicyNext]_policyVars => PolicyInv'
<1> SUFFICES ASSUME PolicyInv, [PolicyNext]_policyVars
             PROVE  PolicyInv'
  OBVIOUS
<1>1. CASE OnReadFailure
  BY <1>1, FailureInv
<1>2. ASSUME NEW t \in Times, NEW measurement \in Frames,
             OnReadSuccess(measurement, t)
      PROVE  PolicyInv'
  BY <1>2, SuccessInv
<1>3. ASSUME NEW t \in Times, MarkNotified(t)
      PROVE  PolicyInv'
  BY <1>3, MarkInv
<1>4. CASE UNCHANGED policyVars
  BY <1>4 DEF PolicyInv, PolicyTypeOK, BackoffLadder, ValidImpliesEverValid,
              NotifyNeverRefused, Valid, policyVars, readingVars, notifyVars,
              pendingVars, faultVars
<1> QED BY <1>1, <1>2, <1>3, <1>4 DEF PolicyNext

\* The policy object keeps its invariant under every caller.
THEOREM PolicyInvariant == PolicySpec => []PolicyInv
BY PolicyInitInv, PolicyNextInv, PTL DEF PolicySpec

-----------------------------------------------------------------------------
(* What it gives.                                                          *)

\* Every variable of the policy object keeps its type; in particular the index
\* into backoffStepsMs never leaves the array.
THEOREM PolicyTypeCorrect == PolicySpec => []PolicyTypeOK
BY PolicyInvariant, PTL DEF PolicyInv

\* The failure counter, the backoff flag and the step index agree for every
\* threshold and every list of delays, across the counter's wrap-around.
THEOREM PolicyBackoffLadder == PolicySpec => []BackoffLadder
BY PolicyInvariant, PTL DEF PolicyInv

\* An announcement is never raised while GetLatest() would refuse.
THEOREM PolicyNotifyNeverRefused == PolicySpec => []NotifyNeverRefused
BY PolicyInvariant, PTL DEF PolicyInv

-----------------------------------------------------------------------------
(* The refinement.                                                         *)

LEMMA LadderInit == PolicyInit => Ladder!Init
BY DEF PolicyInit, Ladder!Init

\* With the invariant, a failed attempt is exactly one Fail of the ladder.
LEMMA FailureClimbs == PolicyInv /\ OnReadFailure => Ladder!Fail
<1> SUFFICES ASSUME PolicyInv, OnReadFailure
             PROVE  Ladder!Fail
  OBVIOUS
<1> DEFINE level == IF inBackoff THEN FailureThreshold + backoffStepIndex
                                 ELSE consecutiveFailures
           top == FailureThreshold + LastStep
<1>1. top = FailureThreshold + Len(BackoffSteps) - 1
  BY LadderConstants
<1>2. level' = IF level < top THEN level + 1 ELSE top
  <2>1. CASE ~inBackoff
    BY <2>1, FailureEffect, LadderConstants DEF PolicyInv, PolicyTypeOK, BackoffLadder
  <2>2. CASE inBackoff /\ backoffStepIndex < LastStep
    BY <2>2, FailureEffect, LadderConstants DEF PolicyInv, PolicyTypeOK
  <2>3. CASE inBackoff /\ ~(backoffStepIndex < LastStep)
    BY <2>3, FailureEffect, LadderConstants DEF PolicyInv, PolicyTypeOK
  <2> QED BY <2>1, <2>2, <2>3
<1> QED BY <1>1, <1>2 DEF Ladder!Fail, Ladder!Top

LEMMA LadderNext ==
    PolicyInv /\ [PolicyNext]_policyVars
        => [Ladder!Next]_(IF inBackoff THEN FailureThreshold + backoffStepIndex
                                       ELSE consecutiveFailures)
<1> SUFFICES ASSUME PolicyInv, [PolicyNext]_policyVars
             PROVE  [Ladder!Next]_(IF inBackoff
                                      THEN FailureThreshold + backoffStepIndex
                                      ELSE consecutiveFailures)
  OBVIOUS
<1>1. CASE OnReadFailure
  BY <1>1, FailureClimbs DEF Ladder!Next
<1>2. ASSUME NEW t \in Times, NEW measurement \in Frames,
             OnReadSuccess(measurement, t)
      PROVE  Ladder!Recover
  BY <1>2 DEF OnReadSuccess, FullRecovery, Ladder!Recover
<1>3. ASSUME NEW t \in Times, MarkNotified(t)
      PROVE  UNCHANGED faultVars
  BY <1>3 DEF MarkNotified
<1>4. CASE UNCHANGED policyVars
  BY <1>4 DEF policyVars, faultVars
<1> QED BY <1>1, <1>2, <1>3, <1>4 DEF PolicyNext, faultVars, Ladder!Next

\* Retry and backoff are the one-level ladder of FaultLadder.
THEOREM PolicyRefinesLadder == PolicySpec => ImplementsFaultLadder
BY PolicyInvariant, LadderInit, LadderNext, PTL
   DEF PolicySpec, ImplementsFaultLadder, Ladder!Spec
=============================================================================
