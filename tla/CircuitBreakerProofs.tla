------------------------ MODULE CircuitBreakerProofs ------------------------
(***************************************************************************)
(* Proofs of the safety properties of CircuitBreaker, for every number of  *)
(* callers and every configuration of the breaker and the retries.         *)
(***************************************************************************)
EXTENDS CircuitBreaker, FiniteSetTheorems, TLAPS

(***************************************************************************)
(* The inductive invariant.  TypeOK alone is not inductive: attempt stays  *)
(* in its range only because a task in the loop has an attempt left.       *)
(***************************************************************************)

\* A task still before the loop has used no attempt of this call.
WaitingFresh ==
    \A c \in Callers : pc[c] \in {"checking", "upgrading"} => attempt[c] = 0

\* The consecutive failures are among all the failures counted.
FailuresCounted == failures <= failureCount

\* A task between the two locks of allow_request has seen an open circuit.
\* This is what justifies its rejection when the circuit has been closed since.
UpgradersSawOpen ==
    \A c \in Callers : pc[c] = "upgrading" => failureCount >= FailureThreshold

IInv ==
    /\ TypeOK
    /\ RetryBudget
    /\ WaitingFresh
    /\ OpenAfterThreshold
    /\ FailuresCounted
    /\ UpgradersSawOpen
    /\ RejectionsNeedFailures

LEMMA InitIInv == Init => IInv
<1> SUFFICES ASSUME Init PROVE IInv
    OBVIOUS
<1> USE ThresholdAssumption, TimeoutAssumption, RetriesAssumption, CallsAssumption,
        GoneAssumption DEF Init
<1>1. TypeOK
  <2>1. pc \in [Callers -> Ended \cup Active] BY DEF Ended, Active
  <2>2. attempt \in [Callers -> 0..(MaxRetries + 1)] /\ calls \in 0..MaxCalls
        OBVIOUS
  <2>3. probe \in SUBSET Callers /\ probeLost \in BOOLEAN /\ isOpen \in BOOLEAN OBVIOUS
  <2>4. gone \in 0..MaxGone /\ lost \in Nat /\ issued \in Nat OBVIOUS
  <2>5. sinceFailure \in {Never} /\ sinceOpened \in 0..RecoveryTimeout OBVIOUS
  <2>6. failures \in Nat /\ blockedCount \in Nat /\ successCount \in Nat
        /\ failureCount \in Nat
        OBVIOUS
  <2> HIDE DEF Init
  <2> QED BY <2>1, <2>2, <2>3, <2>4, <2>5, <2>6 DEF TypeOK
<1>2. RetryBudget /\ WaitingFresh BY DEF RetryBudget, WaitingFresh, InFlight
<1>3. OpenAfterThreshold BY DEF OpenAfterThreshold
<1>4. FailuresCounted /\ UpgradersSawOpen /\ RejectionsNeedFailures
      BY DEF FailuresCounted, UpgradersSawOpen, RejectionsNeedFailures
<1> QED BY <1>1, <1>2, <1>3, <1>4 DEF IInv

LEMMA CallIInv == ASSUME IInv, NEW c \in Callers, Call(c) PROVE IInv'
<1> USE ThresholdAssumption, TimeoutAssumption, RetriesAssumption, CallsAssumption,
        GoneAssumption
<1> USE DEF IInv, Call, Goto, breaker, counters, history
<1>1. TypeOK'             BY DEF TypeOK, Ended, Active
<1>2. RetryBudget'        BY DEF TypeOK, RetryBudget, InFlight
<1>3. WaitingFresh'       BY DEF TypeOK, WaitingFresh
<1>4. OpenAfterThreshold' BY DEF OpenAfterThreshold
<1>5. FailuresCounted'    BY DEF FailuresCounted
<1>6. UpgradersSawOpen'   BY DEF TypeOK, UpgradersSawOpen
<1>7. RejectionsNeedFailures' BY DEF RejectionsNeedFailures
<1> QED BY <1>1, <1>2, <1>3, <1>4, <1>5, <1>6, <1>7

LEMMA AllowReadIInv == ASSUME IInv, NEW c \in Callers, AllowRead(c) PROVE IInv'
<1> USE ThresholdAssumption, TimeoutAssumption, RetriesAssumption, CallsAssumption,
        GoneAssumption
<1> USE DEF IInv, AllowRead, Admit, Issue, Reject, Goto, breaker, counters, losses, verdict
<1>1. TypeOK'
  <2>1. pc' \in [Callers -> Ended \cup Active] BY DEF TypeOK, Ended, Active
  <2>2. (blockedCount \in Nat /\ issued \in Nat)' BY DEF TypeOK
  <2> QED BY <2>1, <2>2 DEF TypeOK
<1>2. RetryBudget'        BY DEF TypeOK, RetryBudget, WaitingFresh, InFlight
<1>3. WaitingFresh'       BY DEF TypeOK, WaitingFresh
<1>4. OpenAfterThreshold' BY DEF OpenAfterThreshold
<1>5. FailuresCounted'    BY DEF FailuresCounted
<1>6. UpgradersSawOpen'
      BY DEF TypeOK, UpgradersSawOpen, OpenAfterThreshold, FailuresCounted
<1>7. RejectionsNeedFailures'
      BY DEF TypeOK, RejectionsNeedFailures, OpenAfterThreshold, FailuresCounted
<1> QED BY <1>1, <1>2, <1>3, <1>4, <1>5, <1>6, <1>7

LEMMA AllowUpgradeIInv == ASSUME IInv, NEW c \in Callers, AllowUpgrade(c) PROVE IInv'
<1> USE ThresholdAssumption, TimeoutAssumption, RetriesAssumption, CallsAssumption,
        GoneAssumption
<1> USE DEF IInv, AllowUpgrade, Admit, Issue, Reject, Goto, counters, losses, verdict
<1>1. TypeOK'
  <2>1. pc' \in [Callers -> Ended \cup Active] BY DEF TypeOK, Ended, Active
  <2>2. (blockedCount \in Nat /\ issued \in Nat)' BY DEF TypeOK
  <2>3. (probe \in SUBSET Callers /\ probeLost \in BOOLEAN)' BY DEF TypeOK
  <2>4. sinceOpened' \in 0..RecoveryTimeout OBVIOUS
  <2> QED BY <2>1, <2>2, <2>3, <2>4 DEF TypeOK
<1>2. RetryBudget'        BY DEF TypeOK, RetryBudget, WaitingFresh, InFlight
<1>3. WaitingFresh'       BY DEF TypeOK, WaitingFresh
<1>4. OpenAfterThreshold' BY DEF OpenAfterThreshold
<1>5. FailuresCounted'    BY DEF FailuresCounted
<1>6. UpgradersSawOpen'   BY DEF TypeOK, UpgradersSawOpen
<1>7. RejectionsNeedFailures'
      BY DEF TypeOK, RejectionsNeedFailures, UpgradersSawOpen
<1> QED BY <1>1, <1>2, <1>3, <1>4, <1>5, <1>6, <1>7

LEMMA RecordSuccessIInv == ASSUME IInv, NEW c \in Callers, RecordSuccess(c) PROVE IInv'
<1> USE ThresholdAssumption, TimeoutAssumption, RetriesAssumption, CallsAssumption,
        GoneAssumption
<1> USE DEF IInv, RecordSuccess, Goto, Decided, losses
<1>1. TypeOK'
  <2>1. pc' \in [Callers -> Ended \cup Active] BY DEF TypeOK, Ended, Active
  <2>2. (failures \in Nat /\ successCount \in Nat)' BY DEF TypeOK
  <2>3. probe' \in SUBSET Callers /\ sinceOpened' \in 0..RecoveryTimeout OBVIOUS
  <2> QED BY <2>1, <2>2, <2>3 DEF TypeOK
<1>2. RetryBudget'        BY DEF TypeOK, RetryBudget, InFlight
<1>3. WaitingFresh'       BY DEF TypeOK, WaitingFresh
<1>4. OpenAfterThreshold' BY DEF OpenAfterThreshold
<1>5. FailuresCounted'    BY DEF TypeOK, FailuresCounted
<1>6. UpgradersSawOpen'   BY DEF TypeOK, UpgradersSawOpen
<1>7. RejectionsNeedFailures' BY DEF RejectionsNeedFailures
<1> QED BY <1>1, <1>2, <1>3, <1>4, <1>5, <1>6, <1>7

LEMMA RecordFailureIInv == ASSUME IInv, NEW c \in Callers, RecordFailure(c) PROVE IInv'
<1> USE ThresholdAssumption, TimeoutAssumption, RetriesAssumption, CallsAssumption,
        GoneAssumption
<1> USE DEF IInv, RecordFailure, Fail, Opens, AfterFailure, Goto, Decided, losses
<1>0. attempt[c] \in 0..MaxRetries BY DEF TypeOK, RetryBudget, InFlight
<1>1. TypeOK'
  <2>1. pc' \in [Callers -> Ended \cup Active] BY DEF TypeOK, Ended, Active
  <2>2. attempt' \in [Callers -> 0..(MaxRetries + 1)] BY <1>0 DEF TypeOK
  <2>3. (failures \in Nat /\ failureCount \in Nat /\ isOpen \in BOOLEAN)' BY DEF TypeOK
  <2>4. probe' \in SUBSET Callers /\ sinceFailure' \in 0..RecoveryTimeout OBVIOUS
  <2> QED BY <2>1, <2>2, <2>3, <2>4 DEF TypeOK
<1>2. RetryBudget'        BY <1>0 DEF TypeOK, RetryBudget, InFlight
<1>3. WaitingFresh'       BY DEF TypeOK, WaitingFresh
<1>4. OpenAfterThreshold' BY DEF TypeOK, OpenAfterThreshold, Never
<1>5. FailuresCounted'    BY DEF TypeOK, FailuresCounted
<1>6. UpgradersSawOpen'   BY DEF TypeOK, UpgradersSawOpen
<1>7. RejectionsNeedFailures' BY DEF TypeOK, RejectionsNeedFailures
<1> QED BY <1>1, <1>2, <1>3, <1>4, <1>5, <1>6, <1>7

LEMMA WakeIInv == ASSUME IInv, NEW c \in Callers, Wake(c) PROVE IInv'
<1> USE ThresholdAssumption, TimeoutAssumption, RetriesAssumption, CallsAssumption,
        GoneAssumption
<1> USE DEF IInv, Wake, Issue, Goto, breaker, counters, losses, verdict
<1>1. TypeOK'             BY DEF TypeOK, Ended, Active
<1>2. RetryBudget'        BY DEF TypeOK, RetryBudget, InFlight
<1>3. WaitingFresh'       BY DEF TypeOK, WaitingFresh
<1>4. OpenAfterThreshold' BY DEF OpenAfterThreshold
<1>5. FailuresCounted'    BY DEF FailuresCounted
<1>6. UpgradersSawOpen'   BY DEF TypeOK, UpgradersSawOpen
<1>7. RejectionsNeedFailures' BY DEF RejectionsNeedFailures
<1> QED BY <1>1, <1>2, <1>3, <1>4, <1>5, <1>6, <1>7

LEMMA GoneIInv ==
    ASSUME IInv, NEW c \in Callers, Dropped(c) \/ Panics(c)
    PROVE  IInv'
<1> USE GoneAssumption DEF IInv, Dropped, Panics, Gone, Goto, breaker, counters
<1>1. TypeOK'
  <2>1. pc' \in [Callers -> Ended \cup Active] BY DEF TypeOK, Ended, Active
  <2>2. (lost \in Nat /\ gone \in 0..MaxGone)' BY DEF TypeOK
  <2>3. (probe \in SUBSET Callers /\ probeLost \in BOOLEAN)' BY DEF TypeOK
  <2> QED BY <2>1, <2>2, <2>3 DEF TypeOK
<1>2. RetryBudget'        BY DEF TypeOK, RetryBudget, InFlight
<1>3. WaitingFresh'       BY DEF TypeOK, WaitingFresh
<1>4. OpenAfterThreshold' BY DEF OpenAfterThreshold
<1>5. FailuresCounted'    BY DEF FailuresCounted
<1>6. UpgradersSawOpen'   BY DEF TypeOK, UpgradersSawOpen
<1>7. RejectionsNeedFailures' BY DEF RejectionsNeedFailures
<1> QED BY <1>1, <1>2, <1>3, <1>4, <1>5, <1>6, <1>7

LEMMA TickIInv == ASSUME IInv, Tick PROVE IInv'
<1> USE TimeoutAssumption DEF IInv, Tick, counters, losses, verdict
<1>1. TypeOK'             BY DEF TypeOK, Never
<1>2. OpenAfterThreshold' BY DEF TypeOK, OpenAfterThreshold, Never
<1>3. RetryBudget' /\ WaitingFresh' BY DEF RetryBudget, WaitingFresh, InFlight
<1>4. FailuresCounted' /\ UpgradersSawOpen' /\ RejectionsNeedFailures'
      BY DEF FailuresCounted, UpgradersSawOpen, RejectionsNeedFailures
<1> QED BY <1>1, <1>2, <1>3, <1>4

LEMMA NextIInv == IInv /\ [Next]_vars => IInv'
<1> SUFFICES ASSUME IInv, [Next]_vars PROVE IInv'
    OBVIOUS
<1>1. CASE Tick BY <1>1, TickIInv
<1>2. ASSUME NEW c \in Callers, Call(c) \/ Step(c) \/ Dropped(c) \/ Panics(c) PROVE IInv'
      BY <1>2, CallIInv, AllowReadIInv, AllowUpgradeIInv, RecordSuccessIInv,
         RecordFailureIInv, WakeIInv, GoneIInv DEF Step
<1>3. CASE UNCHANGED vars
      BY <1>3 DEF vars, IInv, TypeOK, RetryBudget, WaitingFresh, InFlight,
         OpenAfterThreshold, FailuresCounted, UpgradersSawOpen, RejectionsNeedFailures
<1> QED BY <1>1, <1>2, <1>3 DEF Next

THEOREM Invariance == Spec => []IInv
BY InitIInv, NextIInv, PTL DEF Spec

\* Every variable keeps its type; in particular no call exceeds its attempts.
THEOREM TypeCorrect == Spec => []TypeOK
<1>1. IInv => TypeOK BY DEF IInv
<1> QED BY <1>1, Invariance, PTL

\* An open circuit has the failures that opened it and the time of the last.
THEOREM OpenIsEarned == Spec => []OpenAfterThreshold
<1>1. IInv => OpenAfterThreshold BY DEF IInv
<1> QED BY <1>1, Invariance, PTL

\* No request is rejected before FailureThreshold operations have failed, not
\* even by a task that lost the race to close the circuit.
THEOREM RejectionIsEarned == Spec => []RejectionsNeedFailures
<1>1. IInv => RejectionsNeedFailures BY DEF IInv
<1> QED BY <1>1, Invariance, PTL

\* A call that fails has used exactly its retries.
THEOREM RetriesAreExact == Spec => []RetryBudget
<1>1. IInv => RetryBudget BY DEF IInv
<1> QED BY <1>1, Invariance, PTL

(***************************************************************************)
(* The half-open state.  HalfOpenHasProbe is inductive by itself, given    *)
(* the types: it is entered by a task that starts an operation, and every  *)
(* recorded result leaves it, so the operation of that task ends while the *)
(* circuit is still half-open only by being lost.                          *)
(***************************************************************************)

LEMMA NextHalfOpenHasProbe ==
    TypeOK /\ HalfOpenHasProbe /\ [Next]_vars => HalfOpenHasProbe'
<1> SUFFICES ASSUME TypeOK, HalfOpenHasProbe, [Next]_vars, HalfOpen'
             PROVE  probeLost' \/ (probe' # {} /\ probe' \subseteq Running')
    BY DEF HalfOpenHasProbe
<1> DEFINE Awaited == probeLost \/ (probe # {} /\ probe \subseteq Running)
<1> USE ThresholdAssumption DEF HalfOpen, HalfOpenHasProbe, TypeOK
<1>1. ASSUME HalfOpen, UNCHANGED verdict, NEW c \in Callers,
             pc[c] # "running" \/ c \notin probe, NEW there, Goto(c, there)
      PROVE  Awaited'
      BY <1>1 DEF Goto, verdict, Running
<1>2. CASE Tick BY <1>2 DEF Tick, verdict, Running
<1>3. ASSUME NEW c \in Callers, Call(c) PROVE Awaited'
      BY <1>1, <1>3 DEF Call, breaker, history, verdict, Ended
<1>4. ASSUME NEW c \in Callers, AllowRead(c) PROVE Awaited'
      BY <1>1, <1>4 DEF AllowRead, Admit, Issue, Reject, breaker
<1>5. ASSUME NEW c \in Callers, AllowUpgrade(c) PROVE Awaited'
  <2>1. CASE ~isOpen
        BY <1>1, <1>5, <2>1 DEF AllowUpgrade, Reject
  <2>2. CASE isOpen
    <3>1. probe' = {c} /\ Goto(c, "running")
          BY <1>5, <2>2 DEF AllowUpgrade, Admit, Issue
    <3> QED BY <3>1 DEF Goto, Running
  <2> QED BY <2>1, <2>2
<1>6. ASSUME NEW c \in Callers, RecordSuccess(c) PROVE FALSE
      BY <1>6 DEF RecordSuccess
<1>7. ASSUME NEW c \in Callers, RecordFailure(c) PROVE FALSE
      BY <1>7 DEF RecordFailure, Fail, Opens
<1>8. ASSUME NEW c \in Callers, Wake(c) PROVE Awaited'
      BY <1>1, <1>8 DEF Wake, Issue, breaker
<1>9. ASSUME NEW c \in Callers, Dropped(c) \/ Panics(c) PROVE Awaited'
  <2>1. PICK there : Gone(c, there) BY <1>9 DEF Dropped, Panics
  <2>2. HalfOpen BY <2>1 DEF Gone, breaker
  <2>3. CASE c \in probe BY <2>1, <2>3 DEF Gone
  <2>4. CASE c \notin probe
    <3>1. probe' = probe /\ (probeLost => probeLost') BY <2>1, <2>4 DEF Gone
    <3>2. \A d \in probe : d # c /\ (d \in Running => d \in Running')
          BY <2>1, <2>4 DEF Gone, Goto, Running
    <3> QED BY <2>2, <3>1, <3>2
  <2> QED BY <2>3, <2>4
<1>10. CASE UNCHANGED vars BY <1>10 DEF vars, Running
<1> QED BY <1>2, <1>3, <1>4, <1>5, <1>6, <1>7, <1>8, <1>9, <1>10 DEF Next, Step

\* A half-open circuit waits for the task that half-opened it, as long as that
\* task is neither dropped nor panics.
THEOREM HalfOpenIsDecided == Spec => []HalfOpenHasProbe
<1>1. Init => HalfOpenHasProbe
      BY ThresholdAssumption DEF Init, HalfOpenHasProbe, HalfOpen
<1> QED BY <1>1, NextHalfOpenHasProbe, TypeCorrect, PTL DEF Spec

(***************************************************************************)
(* Conservation of operations, by the cardinality of Running.              *)
(***************************************************************************)

LEMMA RunningGrows ==
    ASSUME TypeOK, NEW c \in Callers, pc[c] # "running", Goto(c, "running")
    PROVE  Cardinality(Running)' = Cardinality(Running) + 1
<1>1. IsFiniteSet(Running)
      BY CallersAssumption, FS_Subset DEF Running
<1>2. Running' = Running \cup {c} /\ c \notin Running
      BY DEF Running, Goto, TypeOK
<1> QED BY <1>1, <1>2, FS_AddElement

LEMMA RunningShrinks ==
    ASSUME TypeOK, NEW c \in Callers, pc[c] = "running",
           NEW there, there # "running", Goto(c, there)
    PROVE  Cardinality(Running) = Cardinality(Running)' + 1
<1>1. IsFiniteSet(Running')
      BY CallersAssumption, FS_Subset DEF Running
<1>2. Running = Running' \cup {c} /\ c \notin Running'
      BY DEF Running, Goto, TypeOK
<1> QED BY <1>1, <1>2, FS_AddElement

LEMMA RunningStays ==
    ASSUME TypeOK, NEW c \in Callers, pc[c] # "running",
           NEW there, there # "running", Goto(c, there)
    PROVE  Running' = Running
BY DEF Running, Goto, TypeOK

LEMMA NextEveryOperationRecorded ==
    TypeOK /\ EveryOperationRecorded /\ [Next]_vars => EveryOperationRecorded'
<1> SUFFICES ASSUME TypeOK, EveryOperationRecorded, [Next]_vars
             PROVE  EveryOperationRecorded'
    OBVIOUS
<1> USE DEF EveryOperationRecorded
<1>0. Cardinality(Running) \in Nat /\ Cardinality(Running)' \in Nat
  <2>1. IsFiniteSet(Running) /\ IsFiniteSet(Running')
        BY CallersAssumption, FS_Subset DEF Running
  <2> QED BY <2>1, FS_CardinalityType
<1>1. ASSUME NEW c \in Callers, pc[c] # "running", Issue(c),
             UNCHANGED <<successCount, failureCount, lost>>
      PROVE  EveryOperationRecorded'
      BY <1>0, <1>1, RunningGrows DEF Issue, TypeOK
<1>2. ASSUME NEW c \in Callers, pc[c] # "running", NEW there, there # "running",
             Goto(c, there), UNCHANGED <<successCount, failureCount, issued, lost>>
      PROVE  EveryOperationRecorded'
      BY <1>2, RunningStays
<1>3. CASE Tick BY <1>3 DEF Tick, counters, losses, Running
<1>4. ASSUME NEW c \in Callers, Call(c) PROVE EveryOperationRecorded'
      BY <1>2, <1>4 DEF Call, Ended, counters, history
<1>5. ASSUME NEW c \in Callers, AllowRead(c) PROVE EveryOperationRecorded'
      BY <1>1, <1>2, <1>5 DEF AllowRead, Admit, Reject, counters, losses
<1>6. ASSUME NEW c \in Callers, AllowUpgrade(c) PROVE EveryOperationRecorded'
      BY <1>1, <1>2, <1>6 DEF AllowUpgrade, Admit, Reject, counters, losses
<1>7. ASSUME NEW c \in Callers, RecordSuccess(c) PROVE EveryOperationRecorded'
      BY <1>0, <1>7, RunningShrinks DEF RecordSuccess, TypeOK, losses
<1>8. ASSUME NEW c \in Callers, RecordFailure(c) PROVE EveryOperationRecorded'
  <2>1. AfterFailure(c) # "running" BY DEF AfterFailure
  <2> QED BY <1>0, <1>8, <2>1, RunningShrinks DEF RecordFailure, Fail, TypeOK, losses
<1>9. ASSUME NEW c \in Callers, Wake(c) PROVE EveryOperationRecorded'
      BY <1>1, <1>9 DEF Wake, counters, losses
<1>10. ASSUME NEW c \in Callers, Dropped(c) \/ Panics(c) PROVE EveryOperationRecorded'
  <2>1. PICK there \in {"dropped", "panicked"} : Gone(c, there)
        BY <1>10 DEF Dropped, Panics
  <2>2. UNCHANGED <<successCount, failureCount, issued>> /\ Goto(c, there)
        BY <2>1 DEF Gone, counters
  <2>3. CASE pc[c] = "running"
    <3>1. lost' = lost + 1 BY <2>1, <2>3 DEF Gone
    <3>2. Cardinality(Running) = Cardinality(Running)' + 1
          BY <2>2, <2>3, RunningShrinks
    <3> QED BY <1>0, <2>2, <3>1, <3>2 DEF TypeOK
  <2>4. CASE pc[c] # "running"
    <3>1. lost' = lost BY <2>1, <2>4 DEF Gone
    <3> QED BY <1>2, <2>2, <2>4, <3>1
  <2> QED BY <2>3, <2>4
<1>11. CASE UNCHANGED vars BY <1>11 DEF vars, Running
<1> QED BY <1>3, <1>4, <1>5, <1>6, <1>7, <1>8, <1>9, <1>10, <1>11 DEF Next, Step

\* Every operation issued through execute_with_retry is running, has been
\* recorded once or was lost with its task, whatever the interleaving.
THEOREM OperationsAreConserved == Spec => []EveryOperationRecorded
<1>1. Init => EveryOperationRecorded
  <2>1. Init => Running = {} BY DEF Init, Running
  <2> QED BY <2>1, FS_EmptySet DEF Init, EveryOperationRecorded
<1> QED BY <1>1, NextEveryOperationRecorded, TypeCorrect, PTL DEF Spec

(***************************************************************************)
(* The open state.                                                         *)
(***************************************************************************)

\* While the circuit stays open no task enters the retry loop.
THEOREM OpenIsClosedToNewcomers == Spec => OpenAdmitsNobody
<1>1. ASSUME TypeOK, [Next]_vars, isOpen, isOpen' PROVE InFlight' \subseteq InFlight
  <2> USE <1>1 DEF InFlight
  <2>1. ASSUME NEW c \in Callers, NEW there, Goto(c, there),
               there \notin {"running", "sleeping"} \/ c \in InFlight
        PROVE  InFlight' \subseteq InFlight
        BY <2>1 DEF Goto, TypeOK
  <2>2. CASE Tick \/ UNCHANGED vars BY <2>2 DEF Tick, vars
  <2>3. ASSUME NEW c \in Callers, Call(c) PROVE InFlight' \subseteq InFlight
        BY <2>1, <2>3 DEF Call
  <2>4. ASSUME NEW c \in Callers, AllowRead(c) PROVE InFlight' \subseteq InFlight
        BY <2>1, <2>4 DEF AllowRead, Reject
  <2>5. ASSUME NEW c \in Callers, AllowUpgrade(c) \/ RecordSuccess(c) PROVE FALSE
        BY <2>5 DEF AllowUpgrade, RecordSuccess
  <2>6. ASSUME NEW c \in Callers, RecordFailure(c) PROVE InFlight' \subseteq InFlight
        BY <2>1, <2>6 DEF RecordFailure, Fail
  <2>7. ASSUME NEW c \in Callers, Wake(c) PROVE InFlight' \subseteq InFlight
        BY <2>1, <2>7 DEF Wake, Issue
  <2>8. ASSUME NEW c \in Callers, Dropped(c) \/ Panics(c) PROVE InFlight' \subseteq InFlight
        BY <2>1, <2>8 DEF Dropped, Panics, Gone
  <2> QED BY <2>2, <2>3, <2>4, <2>5, <2>6, <2>7, <2>8 DEF Next, Step
<1>2. TypeOK /\ [Next]_vars => [isOpen /\ isOpen' => InFlight' \subseteq InFlight]_vars
      BY <1>1
<1> QED BY <1>2, TypeCorrect, PTL DEF Spec, OpenAdmitsNobody

=============================================================================
