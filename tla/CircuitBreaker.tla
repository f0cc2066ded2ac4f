--------------------------- MODULE CircuitBreaker ---------------------------
(***************************************************************************)
(* TubeCircuitBreaker of webrtc_circuit_breaker.rs: the breaker that wraps *)
(* every ICE restart of a tube.                                            *)
(*                                                                         *)
(* The state sits behind one mutex, which execute() takes twice: once to   *)
(* admit the request and once, after the awaited operation, to record its  *)
(* result.  Whatever happens in between (other requests, a reset, the      *)
(* circuit reopening) is seen by the second half, so the two are separate  *)
(* actions.  The metrics are write-only counters and are left out.         *)
(***************************************************************************)
EXTENDS Integers, FiniteSets

CONSTANTS
  Requests,            \* callers of execute(); each may call it repeatedly
  ErrorTypes,          \* error types the breaker counts separately
  Unknown,             \* the type execute() files every failure under
  ReportedTypes,       \* types reported through record_failure_with_type()
  FailureThreshold,    \* config.failure_threshold
  TypeThreshold,       \* config.error_specific_thresholds, as a function
  SuccessThreshold,    \* config.success_threshold
  MaxHalfOpenRequests, \* config.max_half_open_requests
  Timeout              \* config.timeout, in ticks

ASSUME ConfigAssumption ==
  /\ IsFiniteSet(Requests)
  /\ Unknown \in ErrorTypes /\ ReportedTypes \subseteq ErrorTypes
  /\ FailureThreshold \in Nat \ {0}
  /\ TypeThreshold \in [ErrorTypes -> Nat \ {0}]
  /\ SuccessThreshold \in Nat \ {0}
  /\ MaxHalfOpenRequests \in Nat
  /\ Timeout \in Nat

\* Of a configuration whose half-open period can end: the probes the breaker
\* lets through are at least as many as the successes it asks for.
ASSUME EnoughProbes == SuccessThreshold <= MaxHalfOpenRequests + 1

VARIABLES
  state,               \* the CircuitState variant
  failure_count,       \* Closed: consecutive failures
  error_type_failures, \* Closed: the same, by error type
  trigger_error_type,  \* Open, HalfOpen: what opened the circuit
  open_age,            \* Open: ticks since opened_at
  test_count,          \* HalfOpen: requests counted against the limit
  success_count,       \* HalfOpen: successes recorded
  pc,                  \* per request: idle, running, or refused
  tests                \* history: running requests this half-open period let in

vars == <<state, failure_count, error_type_failures, trigger_error_type,
          open_age, test_count, success_count, pc, tests>>

closedVars == <<failure_count, error_type_failures>>
openVars == <<trigger_error_type, open_age>>
halfOpenVars == <<test_count, success_count>>

NoFailures == [t \in ErrorTypes |-> 0]

\* The counters, the callers and the running probes of the breaker keep their types.
TypeOK ==
  /\ state \in {"Closed", "Open", "HalfOpen"}
  /\ failure_count \in Nat
  /\ error_type_failures \in [ErrorTypes -> Nat]
  /\ trigger_error_type \in ErrorTypes
  /\ open_age \in Nat
  /\ test_count \in Nat
  /\ success_count \in Nat
  /\ pc \in [Requests -> {"idle", "running", "refused"}]
  /\ tests \in SUBSET Requests

Init ==
  /\ state = "Closed"
  /\ failure_count = 0
  /\ error_type_failures = NoFailures
  /\ trigger_error_type = Unknown
  /\ open_age = 0
  /\ test_count = 0
  /\ success_count = 0
  /\ pc = [r \in Requests |-> "idle"]
  /\ tests = {}

-----------------------------------------------------------------------------
\* Variant changes of CircuitState.  Fields of the variants not entered keep
\* their values: nothing reads them.

EnterClosed ==
  /\ state' = "Closed"
  /\ failure_count' = 0
  /\ error_type_failures' = NoFailures
  /\ tests' = {}
  /\ UNCHANGED <<openVars, halfOpenVars>>

EnterOpen(errorType) ==
  /\ state' = "Open"
  /\ trigger_error_type' = errorType
  /\ open_age' = 0
  /\ tests' = {}

\* The request that finds the timeout over becomes a probe itself, and starts
\* the period with test_count 0.
EnterHalfOpen(r) ==
  /\ state' = "HalfOpen"
  /\ test_count' = 0
  /\ success_count' = 0
  /\ tests' = {r}
  /\ UNCHANGED <<closedVars, openVars>>

-----------------------------------------------------------------------------
\* First half of execute(): the admission decision under the lock.

Start(r) == pc[r] = "idle" /\ pc' = [pc EXCEPT ![r] = "running"]

ExecuteClosed(r) ==
  /\ state = "Closed"
  /\ Start(r)
  /\ UNCHANGED <<state, closedVars, openVars, halfOpenVars, tests>>

ExecuteAfterTimeout(r) ==
  /\ state = "Open" /\ open_age >= Timeout
  /\ Start(r)
  /\ EnterHalfOpen(r)

\* Mutant: the probe is not counted.
ExecuteHalfOpen_uncounted(r) ==
  /\ state = "HalfOpen" /\ test_count < MaxHalfOpenRequests
  /\ Start(r)
  /\ tests' = tests \cup {r}
  /\ UNCHANGED <<state, closedVars, openVars, halfOpenVars>>

ExecuteHalfOpen(r) ==
  /\ state = "HalfOpen" /\ test_count < MaxHalfOpenRequests
  /\ Start(r)
  /\ test_count' = test_count + 1
  /\ tests' = tests \cup {r}
  /\ UNCHANGED <<state, closedVars, openVars, success_count>>

Blocked ==
  \/ state = "Open" /\ open_age < Timeout
  \/ state = "HalfOpen" /\ test_count >= MaxHalfOpenRequests

ExecuteRefused(r) ==
  /\ Blocked
  /\ pc[r] = "idle"
  /\ pc' = [pc EXCEPT ![r] = "refused"]
  /\ UNCHANGED <<state, closedVars, openVars, halfOpenVars, tests>>

\* The refused caller takes the lock again, only to word its error.
ReturnRefusal(r) ==
  /\ pc[r] = "refused"
  /\ pc' = [pc EXCEPT ![r] = "idle"]
  /\ UNCHANGED <<state, closedVars, openVars, halfOpenVars, tests>>

-----------------------------------------------------------------------------
\* Second half of execute(): recording the result under the lock.

Return(r) == pc[r] = "running" /\ pc' = [pc EXCEPT ![r] = "idle"]

\* Mutant: a success does not count towards closing the circuit.
record_success_uncounted(r) ==
  \/ /\ state = "Closed"
     /\ failure_count' = 0
     /\ error_type_failures' = NoFailures
     /\ UNCHANGED <<state, openVars, halfOpenVars, tests>>
  \/ /\ state = "HalfOpen"
     /\ tests' = tests \ {r}
     /\ UNCHANGED <<state, closedVars, openVars, halfOpenVars>>
  \/ /\ state = "Open"
     /\ UNCHANGED <<state, closedVars, openVars, halfOpenVars, tests>>

record_success(r) ==
  \/ /\ state = "Closed"
     /\ failure_count' = 0
     /\ error_type_failures' = NoFailures
     /\ UNCHANGED <<state, openVars, halfOpenVars, tests>>
  \/ /\ state = "HalfOpen" /\ success_count + 1 >= SuccessThreshold
     /\ EnterClosed
  \/ /\ state = "HalfOpen" /\ success_count + 1 < SuccessThreshold
     /\ success_count' = success_count + 1
     /\ tests' = tests \ {r}
     /\ UNCHANGED <<state, closedVars, openVars, test_count>>
  \/ /\ state = "Open"  \* the circuit reopened while the operation ran
     /\ UNCHANGED <<state, closedVars, openVars, halfOpenVars, tests>>

get_threshold_for_error_type(t) == TypeThreshold[t]

\* Mutant: the circuit opens one failure late.
record_failure_one_late(t) ==
  \/ /\ state = "Closed"
     /\ failure_count' = failure_count + 1
     /\ error_type_failures' = [error_type_failures EXCEPT ![t] = @ + 1]
     /\ IF \/ error_type_failures[t] >= get_threshold_for_error_type(t)
           \/ failure_count >= FailureThreshold
        THEN EnterOpen(t)
        ELSE UNCHANGED <<state, openVars, tests>>
     /\ UNCHANGED halfOpenVars
  \/ /\ state # "Closed"
     /\ UNCHANGED <<state, closedVars, openVars, halfOpenVars, tests>>

\* Closed: count the failure, and open on the type's or the total threshold.
\* HalfOpen: reopen for the error that opened the circuit before.
record_failure_with_type(t) ==
  \/ /\ state = "Closed"
     /\ failure_count' = failure_count + 1
     /\ error_type_failures' = [error_type_failures EXCEPT ![t] = @ + 1]
     /\ IF \/ error_type_failures[t] + 1 >= get_threshold_for_error_type(t)
           \/ failure_count + 1 >= FailureThreshold
        THEN EnterOpen(t)
        ELSE UNCHANGED <<state, openVars, tests>>
     /\ UNCHANGED halfOpenVars
  \/ /\ state = "HalfOpen"
     /\ EnterOpen(trigger_error_type)
     /\ UNCHANGED <<closedVars, halfOpenVars>>
  \/ /\ state = "Open"
     /\ UNCHANGED <<state, closedVars, openVars, halfOpenVars, tests>>

Succeed(r) == Return(r) /\ record_success(r)

\* An error and a timeout are both recorded as Unknown (record_failure).
Fail(r) == Return(r) /\ record_failure_with_type(Unknown)

-----------------------------------------------------------------------------
\* The rest of the interface, and time.

ReportFailure(t) == record_failure_with_type(t) /\ UNCHANGED pc

force_reset == EnterClosed /\ UNCHANGED pc

Tick ==
  /\ state = "Open" /\ open_age < Timeout
  /\ open_age' = open_age + 1
  /\ UNCHANGED <<state, closedVars, trigger_error_type, halfOpenVars, pc, tests>>

Execute(r) ==
  \/ ExecuteClosed(r)
  \/ ExecuteAfterTimeout(r)
  \/ ExecuteHalfOpen(r)
  \/ ExecuteRefused(r)

Next ==
  \/ \E r \in Requests : Execute(r) \/ ReturnRefusal(r) \/ Succeed(r) \/ Fail(r)
  \/ \E t \in ReportedTypes : ReportFailure(t)
  \/ force_reset
  \/ Tick

Spec == Init /\ [][Next]_vars

\* max_request_timeout bounds every operation and no task stops between the
\* two locks; clocks advance; callers keep trying.
Fairness ==
  /\ \A r \in Requests : WF_vars(Succeed(r) \/ Fail(r) \/ ReturnRefusal(r))
  /\ \A r \in Requests : WF_vars(Execute(r))
  /\ WF_vars(Tick)

FairSpec == Spec /\ Fairness

-----------------------------------------------------------------------------
\* Properties.

\* A closed circuit has not reached any threshold: the failure that reaches
\* one opens the circuit in the same critical section, however the failures
\* of concurrent requests, typed reports and resets interleave.
ClosedBelowThresholds ==
  state = "Closed" =>
    /\ failure_count < FailureThreshold
    /\ \A t \in ErrorTypes : /\ error_type_failures[t] < TypeThreshold[t]
                             /\ error_type_failures[t] <= failure_count

\* A half-open circuit that refuses requests still has a probe of its own in
\* flight, so something will decide whether it closes or reopens: the limit
\* on probes never strands the breaker half-open.
NoStuckHalfOpen ==
  state = "HalfOpen" /\ test_count >= MaxHalfOpenRequests => tests # {}

\* Every probe let in is running, has succeeded, or has ended the period:
\* the accounting NoStuckHalfOpen follows from.
ProbesAccounted ==
  state = "HalfOpen" =>
    /\ success_count < SuccessThreshold
    /\ test_count <= MaxHalfOpenRequests
    /\ success_count + Cardinality(tests) >= test_count + 1
    /\ \A r \in tests : pc[r] = "running"

\* Once operations stop failing the breaker closes and stays closed, from
\* whatever state the failures left it in.
ClosesAfterFailuresStop ==
  <>[][\A r \in Requests : ~Fail(r)]_vars
    /\ <>[][\A t \in ReportedTypes : ~ReportFailure(t)]_vars
  => <>[](state = "Closed")

\* The limit on probes of a half-open period, max_half_open_requests, is
\* exceeded by one at most: execute() does not count the request that starts
\* the period, and probes left over from an earlier period are none of its.
ProbeLimit == Cardinality(tests) <= MaxHalfOpenRequests + 1
=============================================================================
