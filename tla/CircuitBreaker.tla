--------------------------- MODULE CircuitBreaker ---------------------------
(***************************************************************************)
(* The circuit breaker of src/resilience.rs and the tasks that run an      *)
(* operation through execute_with_retry.                                   *)
(*                                                                         *)
(* The breaker's CircuitState sits behind a tokio RwLock and no critical   *)
(* section awaits anything, so every critical section is one step.         *)
(* allow_request has two of them: it decides under the read lock, drops    *)
(* it, and closes the circuit under the write lock.  Other tasks run       *)
(* between the two.                                                        *)
(*                                                                         *)
(* Time is the whole number of ticks since the last recorded failure,      *)
(* saturating at RecoveryTimeout, the only value it is compared with.      *)
(***************************************************************************)
EXTENDS Integers, FiniteSets

CONSTANTS
    Callers,            \* slots for tasks running execute_with_retry
    FailureThreshold,   \* CircuitBreakerConfig::failure_threshold
    RecoveryTimeout,    \* CircuitBreakerConfig::recovery_timeout, in ticks
    MaxRetries,         \* RetryConfig::max_retries
    MaxCalls,           \* bound: calls started in all slots
    MaxGone             \* bound: tasks dropped or panicking at an await

ASSUME CallersAssumption   == IsFiniteSet(Callers)
ASSUME ThresholdAssumption == FailureThreshold \in Nat \ {0}
ASSUME TimeoutAssumption   == RecoveryTimeout \in Nat
ASSUME RetriesAssumption   == MaxRetries \in Nat
ASSUME CallsAssumption     == MaxCalls \in Nat
ASSUME GoneAssumption      == MaxGone \in Nat

VARIABLES
    failures,       \* CircuitState::failures
    sinceFailure,   \* age of CircuitState::last_failure_time, or Never
    isOpen,         \* CircuitState::is_open
    blockedCount, successCount, failureCount,   \* the public counters
    pc,             \* where each slot's task is
    attempt,        \* the task's local variable of the same name
    calls,          \* calls started so far
    issued,         \* history: operation() calls made by all tasks
    gone,           \* history: tasks dropped or panicking at an await
    lost,           \* history: the operations that ended with them unrecorded
    probe,          \* history: who half-opened the circuit, until a result is recorded
    probeLost,      \* history: that task ended before any result was recorded
    sinceOpened     \* history: ticks since the circuit opened, 0 while it is closed

breaker  == <<failures, sinceFailure, isOpen>>
counters == <<blockedCount, successCount, failureCount>>
vars == <<failures, sinceFailure, isOpen, blockedCount, successCount,
          failureCount, pc, attempt, calls, issued, gone, lost, probe, probeLost, sinceOpened>>
losses  == <<gone, lost>>
verdict == <<probe, probeLost>>
history == <<issued, gone, lost, probe, probeLost, sinceOpened>>

Never == -1         \* last_failure_time = None

Ended  == {"idle", "ok", "err", "panicked", "dropped"}
Active == {"checking", "upgrading", "running", "sleeping"}

RecoveryElapsed == sinceFailure # Never /\ sinceFailure >= RecoveryTimeout

Running  == {c \in Callers : pc[c] = "running"}
InFlight == {c \in Callers : pc[c] \in {"running", "sleeping"}}

TypeOK ==
    /\ failures \in Nat
    /\ sinceFailure \in {Never} \cup 0..RecoveryTimeout
    /\ isOpen \in BOOLEAN
    /\ blockedCount \in Nat
    /\ successCount \in Nat
    /\ failureCount \in Nat
    /\ pc \in [Callers -> Ended \cup Active]
    /\ attempt \in [Callers -> 0..(MaxRetries + 1)]
    /\ calls \in 0..MaxCalls
    /\ issued \in Nat
    /\ gone \in 0..MaxGone
    /\ lost \in Nat
    /\ probe \in SUBSET Callers
    /\ probeLost \in BOOLEAN
    /\ sinceOpened \in 0..RecoveryTimeout

Init ==
    /\ failures = 0
    /\ sinceFailure = Never
    /\ isOpen = FALSE
    /\ blockedCount = 0
    /\ successCount = 0
    /\ failureCount = 0
    /\ pc = [c \in Callers |-> "idle"]
    /\ attempt = [c \in Callers |-> 0]
    /\ calls = 0
    /\ issued = 0
    /\ gone = 0
    /\ lost = 0
    /\ probe = {}
    /\ probeLost = FALSE
    /\ sinceOpened = 0

Goto(c, there) == pc' = [pc EXCEPT ![c] = there]

\* The task calls operation() and awaits its result.
Issue(c) == Goto(c, "running") /\ issued' = issued + 1

\* A result is recorded: from here on no half-open circuit waits for its probe.
Decided == probe' = {} /\ probeLost' = FALSE

(***************************************************************************)
(* execute_with_retry                                                      *)
(***************************************************************************)

\* A task enters execute_with_retry and awaits allow_request.
Call(c) ==
    /\ pc[c] \in Ended
    /\ calls < MaxCalls
    /\ Goto(c, "checking")
    /\ attempt' = [attempt EXCEPT ![c] = 0]
    /\ calls' = calls + 1
    /\ UNCHANGED <<breaker, counters, history>>

\* allow_request returned false: the counter moves and the caller panics.
Reject(c) ==
    /\ blockedCount' = blockedCount + 1
    /\ Goto(c, "panicked")
    /\ UNCHANGED <<successCount, failureCount, attempt, calls, issued>>

\* allow_request returned true: the retry loop makes its first attempt.
Admit(c) == Issue(c) /\ UNCHANGED <<counters, attempt, calls>>

\* allow_request under the read lock.
AllowRead(c) ==
    /\ pc[c] = "checking"
    /\ UNCHANGED <<breaker, losses, verdict, sinceOpened>>
    /\ \/ ~isOpen /\ Admit(c)
       \/ /\ isOpen /\ RecoveryElapsed
          /\ Goto(c, "upgrading")
          /\ UNCHANGED <<counters, attempt, calls, issued>>
       \/ isOpen /\ ~RecoveryElapsed /\ Reject(c)

\* Mutated: falls through to the rejection after closing the circuit.
AllowUpgradeFallsThrough(c) ==
    /\ pc[c] = "upgrading"
    /\ isOpen' = FALSE
    /\ sinceOpened' = 0
    /\ UNCHANGED <<failures, sinceFailure, losses, verdict>>
    /\ Reject(c)

\* Mutated: admits the probe without leaving the open state.
AllowUpgradeStaysOpen(c) ==
    pc[c] = "upgrading" /\ UNCHANGED <<breaker, losses, verdict, sinceOpened>> /\ Admit(c)

\* allow_request under the write lock: is_open is read again, the clock is not.
AllowUpgrade(c) ==
    /\ pc[c] = "upgrading"
    /\ isOpen' = FALSE
    /\ sinceOpened' = 0
    /\ UNCHANGED <<failures, sinceFailure, losses>>
    /\ \/ isOpen /\ Admit(c) /\ probe' = {c} /\ probeLost' = FALSE
       \/ ~isOpen /\ Reject(c) /\ UNCHANGED verdict

\* Mutated: resets the count and forgets the circuit.
RecordSuccessStaysOpen(c) ==
    /\ pc[c] = "running"
    /\ failures' = 0
    /\ successCount' = successCount + 1
    /\ Goto(c, "ok")
    /\ Decided
    /\ UNCHANGED <<isOpen, sinceFailure, blockedCount, failureCount, attempt, calls, issued,
                   losses, sinceOpened>>

\* operation() returned Ok: record_success, then the call returns.
RecordSuccess(c) ==
    /\ pc[c] = "running"
    /\ failures' = 0
    /\ isOpen' = FALSE
    /\ sinceOpened' = 0
    /\ successCount' = successCount + 1
    /\ Goto(c, "ok")
    /\ Decided
    /\ UNCHANGED <<sinceFailure, blockedCount, failureCount, attempt, calls, issued, losses>>

\* operation() returned Err: record_failure.  The circuit opens if `opens`,
\* a closed or an open circuit stays as it is otherwise.
Fail(c, opens, there) ==
    /\ pc[c] = "running"
    /\ failures' = failures + 1
    /\ sinceFailure' = 0
    /\ isOpen' = (isOpen \/ opens)
    /\ failureCount' = failureCount + 1
    /\ attempt' = [attempt EXCEPT ![c] = @ + 1]
    /\ Goto(c, there)
    /\ Decided
    /\ UNCHANGED <<blockedCount, successCount, calls, issued, losses, sinceOpened>>

Opens == failures + 1 >= FailureThreshold

\* After a failure the loop gives up or backs off.
AfterFailure(c) == IF attempt[c] + 1 > MaxRetries THEN "err" ELSE "sleeping"

\* Mutated: opens one failure early.
FailOpensEarly(c) == Fail(c, failures + 2 >= FailureThreshold, AfterFailure(c))

\* Mutated: one retry too many.
FailRetriesOnceMore(c) ==
    Fail(c, Opens, IF attempt[c] > MaxRetries THEN "err" ELSE "sleeping")

\* Mutated: never gives up.
FailRetriesForever(c) == Fail(c, Opens, "sleeping")

\* Mutated: returns the last error before recording it.
FailGivesUpUnrecorded(c) ==
    IF attempt[c] < MaxRetries
    THEN Fail(c, Opens, "sleeping")
    ELSE /\ pc[c] = "running"
         /\ Goto(c, "err")
         /\ attempt' = [attempt EXCEPT ![c] = @ + 1]
         /\ UNCHANGED <<breaker, counters, calls, history>>

\* Mutated: opens the circuit without the time of the failure.
FailForgetsTime(c) ==
    /\ pc[c] = "running"
    /\ failures' = failures + 1
    /\ isOpen' = (isOpen \/ Opens)
    /\ failureCount' = failureCount + 1
    /\ attempt' = [attempt EXCEPT ![c] = @ + 1]
    /\ Goto(c, AfterFailure(c))
    /\ Decided
    /\ UNCHANGED <<sinceFailure, blockedCount, successCount, calls, issued, losses, sinceOpened>>

RecordFailure(c) == Fail(c, Opens, AfterFailure(c))

\* Mutated: waits for the circuit to close before it tries again.
WakeWhenClosed(c) ==
    /\ pc[c] = "sleeping" /\ ~isOpen
    /\ Issue(c)
    /\ UNCHANGED <<breaker, counters, attempt, calls, losses, verdict, sinceOpened>>

\* The backoff elapsed: the loop tries again without asking the breaker.
Wake(c) ==
    /\ pc[c] = "sleeping"
    /\ Issue(c)
    /\ UNCHANGED <<breaker, counters, attempt, calls, losses, verdict, sinceOpened>>

(***************************************************************************)
(* A task may also end at any await: the client of its handler leaves and  *)
(* the future is dropped, or operation() itself panics.  The breaker hears *)
(* of neither.  A task dropped after its operation has ended, while        *)
(* record_success or record_failure waits for the lock, has recorded       *)
(* nothing either: it is one dropped while the operation runs.             *)
(***************************************************************************)

\* The task is gone, and with it the operation it had running.
Gone(c, there) ==
    /\ gone < MaxGone
    /\ gone' = gone + 1
    /\ Goto(c, there)
    /\ lost' = IF pc[c] = "running" THEN lost + 1 ELSE lost
    /\ probe' = probe \ {c}
    /\ probeLost' = (probeLost \/ c \in probe)
    /\ UNCHANGED <<breaker, counters, attempt, calls, issued, sinceOpened>>

Dropped(c) == pc[c] \in Active /\ Gone(c, "dropped")

Panics(c) == pc[c] = "running" /\ Gone(c, "panicked")

\* Time passes.
Tick ==
    /\ sinceFailure # Never
    /\ sinceFailure < RecoveryTimeout
    /\ sinceFailure' = sinceFailure + 1
    /\ sinceOpened' = IF isOpen /\ sinceOpened < RecoveryTimeout
                      THEN sinceOpened + 1 ELSE sinceOpened
    /\ UNCHANGED <<failures, isOpen, counters, pc, attempt, calls, issued, losses, verdict>>

\* What CircuitBreaker::health reports.
Health ==
    IF isOpen THEN IF RecoveryElapsed THEN "Degraded" ELSE "Unhealthy"
              ELSE IF failures > 0 THEN "Degraded" ELSE "Healthy"

Step(c) == \/ AllowRead(c) \/ AllowUpgrade(c)
           \/ RecordSuccess(c) \/ RecordFailure(c) \/ Wake(c)

Next == Tick \/ \E c \in Callers : Call(c) \/ Step(c) \/ Dropped(c) \/ Panics(c)

Spec == Init /\ [][Next]_vars

\* A task that is not dropped keeps being polled, its operation ends, its sleep
\* ends, and the clock runs.  Nothing obliges a new call to arrive, a client to
\* leave or an operation to panic.
Fairness == WF_vars(Tick) /\ \A c \in Callers : WF_vars(Step(c))

FairSpec == Spec /\ Fairness

-----------------------------------------------------------------------------
(***************************************************************************)
(* What the breaker guarantees                                             *)
(***************************************************************************)

\* Closed, but the failures that opened the circuit are not forgotten: the
\* code's half-open state, which CircuitState does not record as such.
HalfOpen == ~isOpen /\ failures >= FailureThreshold

\* An open circuit has counted FailureThreshold failures and knows when the
\* last one was.  allow_request never leaves an open circuit whose
\* last_failure_time is None, so an open circuit always has a way to recover.
OpenAfterThreshold ==
    isOpen => failures >= FailureThreshold /\ sinceFailure # Never

\* A half-open circuit is waiting for the operation of the very task that
\* half-opened it, unless that task itself was dropped or panicked: neither
\* the loss of another task, nor a retry, nor the rejection of the race's loser
\* leaves the circuit half-open with nobody to decide it.
HalfOpenHasProbe == HalfOpen => probeLost \/ (probe # {} /\ probe \subseteq Running)

\* No result is lost or counted twice: each operation() call made through
\* execute_with_retry is running, was recorded as one success or one failure,
\* or was lost with the task that awaited it.
EveryOperationRecorded ==
    issued = successCount + failureCount + lost + Cardinality(Running)

\* No request is rejected before FailureThreshold operations really failed,
\* whatever the order in which the tasks' results are recorded.
RejectionsNeedFailures ==
    blockedCount > 0 => failureCount >= FailureThreshold

\* A call that ends in an error made exactly MaxRetries + 1 attempts, and a
\* call still in its retry loop has an attempt left.
RetryBudget ==
    \A c \in Callers :
        /\ pc[c] = "err" => attempt[c] = MaxRetries + 1
        /\ c \in InFlight => attempt[c] <= MaxRetries

\* A circuit that stays open lets no further task into the retry loop: the
\* calls that reach the coordinator are those of tasks admitted before.
OpenAdmitsNobody == [][isOpen /\ isOpen' => InFlight' \subseteq InFlight]_vars

\* A task that enters execute_with_retry leaves it, by a result, by an error
\* after its retries, by a panic or because it is dropped.
CallTerminates == \A c \in Callers : pc[c] = "checking" ~> pc[c] \in Ended

\* An open circuit always comes to the point where it admits a caller again:
\* the retries of tasks admitted earlier, which refresh last_failure_time
\* while the circuit is open, cannot postpone the recovery for ever.
LockoutIsTemporary == Health = "Unhealthy" ~> Health # "Unhealthy"

-----------------------------------------------------------------------------
(***************************************************************************)
(* What comments of resilience.rs say and the code does not do              *)
(***************************************************************************)

\* resilience.rs:103, "Transition to half-open state - allow one request":
\* once the circuit is half-open nobody else is admitted before the verdict.
HalfOpenAdmitsOne == [][HalfOpen => InFlight' \subseteq InFlight]_vars

\* resilience.rs:52, "Time to wait before attempting to recover (half-open)":
\* short of a success, a circuit that opens stays open for RecoveryTimeout.  The
\* late of two callers that found the timeout elapsed does not look again under
\* the write lock: it closes at once what the probe of the other has reopened.
RecoveryTimeRespected ==
    [][isOpen /\ ~isOpen' /\ successCount' = successCount
       => sinceOpened >= RecoveryTimeout]_vars
=============================================================================
