------------------------ MODULE CircuitBreakerProofs ------------------------
(***************************************************************************)
(* Proofs about CircuitBreaker, for any number of callers and any          *)
(* configuration that satisfies its assumptions.                           *)
(***************************************************************************)
EXTENDS CircuitBreaker, FiniteSetTheorems, TLAPS

\* Every step of the breaker keeps its variables in their types.
THEOREM TypeCorrect == Spec => []TypeOK
<1> USE ConfigAssumption
<1>1. Init => TypeOK
  BY DEF Init, TypeOK, NoFailures
<1>2. TypeOK /\ [Next]_vars => TypeOK'
  <2> SUFFICES ASSUME TypeOK, [Next]_vars PROVE TypeOK'
    OBVIOUS
  <2> USE DEF TypeOK, NoFailures, EnterClosed, EnterOpen, EnterHalfOpen,
              closedVars, openVars, halfOpenVars
  <2>1. ASSUME NEW r \in Requests, Execute(r) PROVE TypeOK'
    BY <2>1 DEF Execute, ExecuteClosed, ExecuteAfterTimeout, ExecuteHalfOpen,
                ExecuteRefused, Start
  <2>2. ASSUME NEW r \in Requests, ReturnRefusal(r) PROVE TypeOK'
    BY <2>2 DEF ReturnRefusal
  <2>3. ASSUME NEW r \in Requests, Succeed(r) PROVE TypeOK'
    BY <2>3 DEF Succeed, Return, record_success
  <2>4. ASSUME NEW r \in Requests, Fail(r) PROVE TypeOK'
    BY <2>4 DEF Fail, Return, record_failure_with_type
  <2>5. ASSUME NEW t \in ReportedTypes, ReportFailure(t) PROVE TypeOK'
    BY <2>5 DEF ReportFailure, record_failure_with_type
  <2>6. CASE force_reset
    BY <2>6 DEF force_reset
  <2>7. CASE Tick
    BY <2>7 DEF Tick
  <2>8. CASE UNCHANGED vars
    BY <2>8 DEF vars
  <2>9. QED
    BY <2>1, <2>2, <2>3, <2>4, <2>5, <2>6, <2>7, <2>8 DEF Next
<1>3. QED
  BY <1>1, <1>2, PTL DEF Spec

\* No interleaving of failures, typed reports and resets leaves the circuit
\* closed with a threshold reached (record_failure_with_type opens it under
\* the same lock).
THEOREM ClosedBelow == Spec => []ClosedBelowThresholds
<1> USE ConfigAssumption
<1>1. Init => ClosedBelowThresholds
  BY DEF Init, ClosedBelowThresholds, NoFailures
<1>2. TypeOK /\ ClosedBelowThresholds /\ [Next]_vars => ClosedBelowThresholds'
  <2> SUFFICES ASSUME TypeOK, ClosedBelowThresholds, [Next]_vars
               PROVE  ClosedBelowThresholds'
    OBVIOUS
  <2> USE DEF TypeOK, ClosedBelowThresholds, NoFailures, EnterClosed,
              EnterOpen, EnterHalfOpen, closedVars, openVars, halfOpenVars
  <2>f. ASSUME NEW t \in ErrorTypes, record_failure_with_type(t)
        PROVE  ClosedBelowThresholds'
    <3>1. CASE state = "Closed"
      BY <2>f, <3>1 DEF record_failure_with_type, get_threshold_for_error_type
    <3>2. CASE state # "Closed"
      BY <2>f, <3>2 DEF record_failure_with_type
    <3>3. QED
      BY <3>1, <3>2
  <2>1. ASSUME NEW r \in Requests, Execute(r) PROVE ClosedBelowThresholds'
    BY <2>1 DEF Execute, ExecuteClosed, ExecuteAfterTimeout, ExecuteHalfOpen,
                ExecuteRefused, Start
  <2>2. ASSUME NEW r \in Requests, ReturnRefusal(r)
        PROVE  ClosedBelowThresholds'
    BY <2>2 DEF ReturnRefusal
  <2>3. ASSUME NEW r \in Requests, Succeed(r) PROVE ClosedBelowThresholds'
    BY <2>3 DEF Succeed, Return, record_success
  <2>4. ASSUME NEW r \in Requests, Fail(r) PROVE ClosedBelowThresholds'
    BY <2>4, <2>f DEF Fail
  <2>5. ASSUME NEW t \in ReportedTypes, ReportFailure(t)
        PROVE  ClosedBelowThresholds'
    BY <2>5, <2>f DEF ReportFailure
  <2>6. CASE force_reset
    BY <2>6 DEF force_reset
  <2>7. CASE Tick
    BY <2>7 DEF Tick
  <2>8. CASE UNCHANGED vars
    BY <2>8 DEF vars
  <2>9. QED
    BY <2>1, <2>2, <2>3, <2>4, <2>5, <2>6, <2>7, <2>8 DEF Next
<1>3. QED
  BY <1>1, <1>2, TypeCorrect, PTL DEF Spec

\* What adding a probe to, and removing one from, the set of running probes
\* does to their number.
LEMMA ProbeCount ==
  ASSUME NEW S \in SUBSET Requests, NEW r \in Requests
  PROVE  /\ Cardinality(S) \in Nat
         /\ Cardinality({r}) = 1
         /\ r \notin S => Cardinality(S \cup {r}) = Cardinality(S) + 1
         /\ Cardinality(S \ {r}) \in Nat
         /\ Cardinality(S \ {r}) >= Cardinality(S) - 1
<1>1. IsFiniteSet(S)
  BY ConfigAssumption, FS_Subset
<1>2. Cardinality(S) \in Nat
  BY <1>1, FS_CardinalityType
<1>3. Cardinality({r}) = 1
  BY FS_Singleton
<1>4. r \notin S => Cardinality(S \cup {r}) = Cardinality(S) + 1
  BY <1>1, FS_AddElement
<1>5. Cardinality(S \ {r}) = IF r \in S THEN Cardinality(S) - 1 ELSE Cardinality(S)
  BY <1>1, FS_RemoveElement
<1>6. IsFiniteSet(S \ {r})
  BY <1>1, FS_Subset
<1>7. Cardinality(S \ {r}) \in Nat
  BY <1>6, FS_CardinalityType
<1>8. QED
  BY <1>2, <1>3, <1>4, <1>5, <1>7

\* Every probe the half-open period let in is running or has succeeded.
THEOREM ProbeAccounting == Spec => []ProbesAccounted
<1> USE ConfigAssumption
<1>1. Init => ProbesAccounted
  BY DEF Init, ProbesAccounted
<1>2. TypeOK /\ ProbesAccounted /\ [Next]_vars => ProbesAccounted'
  <2> SUFFICES ASSUME TypeOK, ProbesAccounted, [Next]_vars
               PROVE  ProbesAccounted'
    OBVIOUS
  <2> USE DEF TypeOK, ProbesAccounted, EnterClosed, EnterOpen, EnterHalfOpen,
              closedVars, openVars, halfOpenVars
  <2>1. ASSUME NEW r \in Requests, ExecuteClosed(r) PROVE ProbesAccounted'
    BY <2>1 DEF ExecuteClosed
  <2>2. ASSUME NEW r \in Requests, ExecuteAfterTimeout(r)
        PROVE  ProbesAccounted'
    <3>1. Cardinality({r}) = 1
      BY FS_Singleton
    <3>2. /\ test_count' = 0 /\ success_count' = 0 /\ tests' = {r}
          /\ pc' = [pc EXCEPT ![r] = "running"]
      BY <2>2 DEF ExecuteAfterTimeout, Start
    <3>3. success_count' + Cardinality(tests') >= test_count' + 1
      BY <3>1, <3>2
    <3>4. \A q \in tests' : pc'[q] = "running"
      BY <3>2
    <3>5. QED
      BY <3>2, <3>3, <3>4
  <2>3. ASSUME NEW r \in Requests, ExecuteHalfOpen(r) PROVE ProbesAccounted'
    <3>1. r \notin tests
      BY <2>3 DEF ExecuteHalfOpen, Start
    <3>2. Cardinality(tests \cup {r}) = Cardinality(tests) + 1
      BY <3>1, ProbeCount
    <3>3. Cardinality(tests) \in Nat
      BY ProbeCount, <2>3
    <3>4. QED
      BY <2>3, <3>2, <3>3 DEF ExecuteHalfOpen, Start
  <2>4. ASSUME NEW r \in Requests, ExecuteRefused(r) PROVE ProbesAccounted'
    BY <2>4 DEF ExecuteRefused
  <2>5. ASSUME NEW r \in Requests, ReturnRefusal(r) PROVE ProbesAccounted'
    BY <2>5 DEF ReturnRefusal
  <2>6. ASSUME NEW r \in Requests, Succeed(r) PROVE ProbesAccounted'
    <3>1. CASE state = "HalfOpen" /\ success_count + 1 < SuccessThreshold
      <4>1. /\ Cardinality(tests) \in Nat
            /\ Cardinality(tests \ {r}) \in Nat
            /\ Cardinality(tests \ {r}) >= Cardinality(tests) - 1
        BY ProbeCount
      <4>2. /\ state' = "HalfOpen" /\ success_count' = success_count + 1
            /\ tests' = tests \ {r} /\ test_count' = test_count
            /\ pc' = [pc EXCEPT ![r] = "idle"]
        BY <2>6, <3>1 DEF Succeed, Return, record_success
      <4>3. QED
        BY <3>1, <4>1, <4>2
    <3>2. CASE ~(state = "HalfOpen" /\ success_count + 1 < SuccessThreshold)
      BY <2>6, <3>2 DEF Succeed, Return, record_success
    <3>3. QED
      BY <3>1, <3>2
  <2>7. ASSUME NEW r \in Requests, Fail(r) PROVE ProbesAccounted'
    BY <2>7 DEF Fail, record_failure_with_type
  <2>8. ASSUME NEW t \in ReportedTypes, ReportFailure(t)
        PROVE  ProbesAccounted'
    BY <2>8 DEF ReportFailure, record_failure_with_type
  <2>9. CASE force_reset
    BY <2>9 DEF force_reset
  <2>10. CASE Tick
    BY <2>10 DEF Tick
  <2>11. CASE UNCHANGED vars
    BY <2>11 DEF vars
  <2>12. QED
    BY <2>1, <2>2, <2>3, <2>4, <2>5, <2>6, <2>7, <2>8, <2>9, <2>10, <2>11
       DEF Next, Execute
<1>3. QED
  BY <1>1, <1>2, TypeCorrect, PTL DEF Spec

\* The limit on probes never strands the breaker: a half-open circuit that
\* refuses requests has a probe in flight that will close or reopen it.  This
\* is where EnoughProbes is needed.
THEOREM HalfOpenProgress == Spec => []NoStuckHalfOpen
<1> USE ConfigAssumption, EnoughProbes
<1>1. TypeOK /\ ProbesAccounted => NoStuckHalfOpen
  <2> SUFFICES ASSUME TypeOK, ProbesAccounted, state = "HalfOpen",
                      test_count >= MaxHalfOpenRequests, tests = {}
               PROVE  FALSE
    BY DEF NoStuckHalfOpen
  <2>1. Cardinality(tests) = 0
    BY FS_EmptySet
  <2>2. QED
    BY <2>1 DEF TypeOK, ProbesAccounted
<1>2. QED
  BY <1>1, TypeCorrect, ProbeAccounting, PTL

\* Probes are counted only while the circuit is half-open, and all of them but
\* the one that starts the period.
ProbesCounted ==
  /\ state # "HalfOpen" => tests = {}
  /\ state = "HalfOpen" => /\ test_count <= MaxHalfOpenRequests
                           /\ Cardinality(tests) <= test_count + 1

\* A probe that ends is one running probe less, at most.
LEMMA ProbeLeaves ==
  ASSUME NEW S \in SUBSET Requests, NEW r \in Requests
  PROVE  Cardinality(S \ {r}) <= Cardinality(S)
<1>1. IsFiniteSet(S)
  BY ConfigAssumption, FS_Subset
<1>2. Cardinality(S) \in Nat
  BY <1>1, FS_CardinalityType
<1>3. Cardinality(S \ {r}) = IF r \in S THEN Cardinality(S) - 1 ELSE Cardinality(S)
  BY <1>1, FS_RemoveElement
<1>4. QED
  BY <1>2, <1>3

\* However often the circuit opens, half-opens and closes while operations of
\* earlier periods are still running, no period has more than
\* max_half_open_requests probes and the one that started it in flight.
THEOREM ProbesLimited == Spec => []ProbeLimit
<1> USE ConfigAssumption
<1>1. Init => ProbesCounted
  BY DEF Init, ProbesCounted
<1>2. TypeOK /\ ProbesCounted /\ [Next]_vars => ProbesCounted'
  <2> SUFFICES ASSUME TypeOK, ProbesCounted, [Next]_vars
               PROVE  ProbesCounted'
    OBVIOUS
  <2> USE DEF TypeOK, ProbesCounted, EnterClosed, EnterOpen, EnterHalfOpen,
              closedVars, openVars, halfOpenVars
  <2>1. ASSUME NEW r \in Requests, ExecuteClosed(r) PROVE ProbesCounted'
    BY <2>1 DEF ExecuteClosed
  <2>2. ASSUME NEW r \in Requests, ExecuteAfterTimeout(r)
        PROVE  ProbesCounted'
    <3>1. Cardinality({r}) = 1
      BY FS_Singleton
    <3>2. state' = "HalfOpen" /\ test_count' = 0 /\ tests' = {r}
      BY <2>2 DEF ExecuteAfterTimeout
    <3>3. Cardinality(tests') <= test_count' + 1
      BY <3>1, <3>2
    <3>4. QED
      BY SMTT(30), <3>2, <3>3
  <2>3. ASSUME NEW r \in Requests, ExecuteHalfOpen(r) PROVE ProbesCounted'
    <3>1. Cardinality(tests) \in Nat
      BY ProbeCount, <2>3
    <3>2. Cardinality(tests \cup {r}) <= Cardinality(tests) + 1
      <4>1. CASE r \in tests
        <5>1. tests \cup {r} = tests
          BY <4>1
        <5>2. Cardinality(tests \cup {r}) = Cardinality(tests)
          BY ONLY <5>1
        <5>3. QED
          BY ONLY <5>2, <3>1
      <4>2. CASE r \notin tests
        <5>1. Cardinality(tests \cup {r}) = Cardinality(tests) + 1
          BY <4>2, ProbeCount
        <5>2. QED
          BY ONLY <5>1, <3>1
      <4>3. QED
        BY <4>1, <4>2
    <3>3. /\ state = "HalfOpen" /\ state' = "HalfOpen"
          /\ test_count < MaxHalfOpenRequests /\ test_count' = test_count + 1
          /\ tests' = tests \cup {r}
      BY <2>3 DEF ExecuteHalfOpen
    <3>4. Cardinality(tests \cup {r}) \in Nat
      BY ZenonT(30), ProbeCount, <2>3
    <3>5. Cardinality(tests') <= test_count' + 1
      BY SMTT(30), <3>1, <3>2, <3>3, <3>4
    <3>6. QED
      BY <3>3, <3>5
  <2>4. ASSUME NEW r \in Requests, ExecuteRefused(r) PROVE ProbesCounted'
    BY <2>4 DEF ExecuteRefused
  <2>5. ASSUME NEW r \in Requests, ReturnRefusal(r) PROVE ProbesCounted'
    BY <2>5 DEF ReturnRefusal
  <2>6. ASSUME NEW r \in Requests, Succeed(r) PROVE ProbesCounted'
    <3>1. CASE state = "HalfOpen" /\ success_count + 1 < SuccessThreshold
      <4>1. /\ Cardinality(tests) \in Nat
            /\ Cardinality(tests \ {r}) \in Nat
            /\ Cardinality(tests \ {r}) <= Cardinality(tests)
        BY ProbeCount, ProbeLeaves
      <4>2. /\ state' = "HalfOpen" /\ tests' = tests \ {r}
            /\ test_count' = test_count
        BY <2>6, <3>1 DEF Succeed, record_success
      <4>3. Cardinality(tests') <= test_count' + 1
        BY <3>1, <4>1, <4>2
      <4>4. QED
        BY <3>1, <4>2, <4>3
    <3>2. CASE ~(state = "HalfOpen" /\ success_count + 1 < SuccessThreshold)
      BY <2>6, <3>2 DEF Succeed, record_success
    <3>3. QED
      BY <3>1, <3>2
  <2>7. ASSUME NEW r \in Requests, Fail(r) PROVE ProbesCounted'
    BY <2>7 DEF Fail, record_failure_with_type
  <2>8. ASSUME NEW t \in ReportedTypes, ReportFailure(t)
        PROVE  ProbesCounted'
    BY <2>8 DEF ReportFailure, record_failure_with_type
  <2>9. CASE force_reset
    BY <2>9 DEF force_reset
  <2>10. CASE Tick
    BY <2>10 DEF Tick
  <2>11. CASE UNCHANGED vars
    BY <2>11 DEF vars
  <2>12. QED
    BY <2>1, <2>2, <2>3, <2>4, <2>5, <2>6, <2>7, <2>8, <2>9, <2>10, <2>11
       DEF Next, Execute
<1>3. TypeOK /\ ProbesCounted => ProbeLimit
  <2> SUFFICES ASSUME TypeOK, ProbesCounted PROVE ProbeLimit
    OBVIOUS
  <2>1. CASE state # "HalfOpen"
    <3>1. Cardinality(tests) = 0
      BY <2>1, FS_EmptySet DEF ProbesCounted
    <3>2. QED
      BY <3>1 DEF ProbeLimit
  <2>2. CASE state = "HalfOpen"
    <3>1. Cardinality(tests) \in Nat
      BY FS_Subset, FS_CardinalityType DEF TypeOK
    <3>2. QED
      BY <2>2, <3>1 DEF TypeOK, ProbesCounted, ProbeLimit
  <2>3. QED
    BY <2>1, <2>2
<1>4. QED
  BY <1>1, <1>2, <1>3, TypeCorrect, PTL DEF Spec
=============================================================================
