------------------------ MODULE CircuitBreakerProofs ------------------------
(***************************************************************************)
(* Proofs about the circuit breaker, for any number of concurrent requests,*)
(* any threshold and any timeout.                                          *)
(***************************************************************************)
EXTENDS CircuitBreaker, TLAPS

(* TypeOK in parts, so that no leaf mixes the breaker's Boolean with its   *)
(* numbers more than it must.                                              *)
CountTyped == failures \in Nat /\ since \in 0..ResetTimeout /\ streak \in 0..Threshold
OpenTyped  == open \in BOOLEAN /\ hungUp \in BOOLEAN
OpenMeans  == open <=> failures >= Threshold
CallsTyped ==
  /\ at \in [Requests -> {"idle", "admitted", "calling"}]
  /\ up \in BOOLEAN
  /\ hit \subseteq Requests

LEMMA Parts == TypeOK <=> CountTyped /\ OpenTyped /\ OpenMeans /\ CallsTyped
  BY DEF TypeOK, CountTyped, OpenTyped, OpenMeans, CallsTyped

LEMMA InitTyped == Init => TypeOK
<1> SUFFICES ASSUME Init PROVE TypeOK
  OBVIOUS
<1>1. CountTyped
  BY ThresholdAssumption, ResetAssumption DEF Init, CountTyped
<1>2. OpenTyped
  BY DEF Init, OpenTyped
<1>3. OpenMeans
  BY ThresholdAssumption DEF Init, OpenMeans
<1>4. CallsTyped
  BY DEF Init, CallsTyped
<1>5. QED BY <1>1, <1>2, <1>3, <1>4, Parts

LEMMA CountStep == TypeOK /\ [Next]_vars => CountTyped'
  BY ThresholdAssumption, ResetAssumption
     DEF TypeOK, CountTyped, Next, vars, breaker, history, Allow, Admits, Reject, Rejects, RateLimited,
         Call, Answered, Success, Failed, Cancelled, Failure, Tick, GoesDown, ComesUp

LEMMA OpenStep == OpenTyped /\ [Next]_vars => OpenTyped'
  BY DEF OpenTyped, Next, vars, breaker, history, Allow, Admits, Reject, Rejects, RateLimited,
         Call, Answered, Success, Failed, Cancelled, Failure, Tick, GoesDown, ComesUp

LEMMA OpenMeansStep == CountTyped /\ OpenMeans /\ [Next]_vars => OpenMeans'
<1> SUFFICES ASSUME CountTyped, OpenMeans, [Next]_vars PROVE OpenMeans'
  OBVIOUS
<1> USE ThresholdAssumption DEF CountTyped, OpenMeans, breaker
<1>1. ASSUME NEW r \in Requests, Allow(r) \/ Reject(r) PROVE OpenMeans'
  BY <1>1 DEF Allow, Admits, Reject, Rejects
<1>2. ASSUME NEW r \in Requests, RateLimited(r) \/ Call(r) PROVE OpenMeans'
  BY <1>2 DEF RateLimited, Call
<1>3. ASSUME NEW r \in Requests, Answered(r) PROVE OpenMeans'
  BY <1>3 DEF Answered, Success
<1>4. ASSUME NEW r \in Requests, Failed(r) \/ Cancelled(r) PROVE OpenMeans'
  <2>1. failures' = failures + 1 /\ open' = (open \/ failures + 1 >= Threshold)
    BY <1>4 DEF Failed, Cancelled, Failure
  <2>2. open' <=> (open \/ failures + 1 >= Threshold)
    BY <2>1, Zenon
  <2>3. QED BY <2>1, <2>2
<1>5. CASE Tick \/ UNCHANGED vars
  BY <1>5 DEF Tick, vars
<1>6. CASE GoesDown \/ ComesUp
  BY <1>6 DEF GoesDown, ComesUp
<1>7. QED BY <1>1, <1>2, <1>3, <1>4, <1>5, <1>6 DEF Next

LEMMA CallsStep == TypeOK /\ [Next]_vars => CallsTyped'
<1> SUFFICES ASSUME TypeOK, [Next]_vars PROVE CallsTyped'
  OBVIOUS
<1> USE DEF TypeOK, CallsTyped, Goes, history
<1>1. ASSUME NEW r \in Requests, Allow(r) \/ Reject(r) \/ RateLimited(r) \/ Call(r)
      PROVE  CallsTyped'
  BY <1>1 DEF Allow, Reject, RateLimited, Call
<1>2. ASSUME NEW r \in Requests, Answered(r) \/ Failed(r) \/ Cancelled(r)
      PROVE  CallsTyped'
  BY <1>2 DEF Answered, Failed, Cancelled
<1>3. CASE Tick \/ GoesDown \/ ComesUp \/ UNCHANGED vars
  BY <1>3 DEF Tick, GoesDown, ComesUp, vars
<1>4. QED BY <1>1, <1>2, <1>3 DEF Next

(* Type correctness holds whatever the clients do.                         *)
LEMMA NextTyped == TypeOK /\ [Next]_vars => TypeOK'
<1>1. TypeOK' <=> CountTyped' /\ OpenTyped' /\ OpenMeans' /\ CallsTyped'
  BY Parts, PTL
<1>2. QED BY <1>1, Parts, CountStep, OpenStep, OpenMeansStep, CallsStep

(* The breaker's type invariant (circuit.go:10), for every constant.       *)
THEOREM BreakerTyped == Spec => []TypeOK
  BY InitTyped, NextTyped, PTL DEF Spec

(* OpensOnStreak is not inductive: what the breaker counts must be covered *)
(* by the streak before the count reaches Threshold, too.                  *)
CountIsStreak ==
  ~hungUp => IF failures < Threshold THEN failures <= streak ELSE streak = Threshold

LEMMA CountPreserved ==
  ASSUME TypeOK, CountIsStreak, [Next]_vars
  PROVE  CountIsStreak'
<1> USE ThresholdAssumption DEF TypeOK, CountIsStreak, breaker, history
<1>1. ASSUME NEW r \in Requests, Allow(r) PROVE CountIsStreak'
  BY <1>1 DEF Allow, Admits
<1>2. ASSUME NEW r \in Requests, Reject(r) \/ RateLimited(r) \/ Call(r)
      PROVE  CountIsStreak'
  BY <1>2 DEF Reject, Rejects, RateLimited, Call
<1>3. ASSUME NEW r \in Requests, Answered(r) PROVE CountIsStreak'
  BY <1>3 DEF Answered, Success
<1>4. ASSUME NEW r \in Requests, Failed(r) PROVE CountIsStreak'
  BY <1>4 DEF Failed, Failure
<1>5. ASSUME NEW r \in Requests, Cancelled(r) PROVE CountIsStreak'
  BY <1>5 DEF Cancelled
<1>6. CASE Tick \/ GoesDown \/ ComesUp \/ UNCHANGED vars
  BY <1>6 DEF Tick, GoesDown, ComesUp, vars
<1>7. QED BY <1>1, <1>2, <1>3, <1>4, <1>5, <1>6 DEF Next

(* The comment at circuit.go:8: however the outcomes of concurrent calls   *)
(* are ordered, an open breaker means that the service failed the last     *)
(* Threshold calls it was asked, or that a client hung up meanwhile.       *)
THEOREM OpenMeansStreak == Spec => []OpensOnStreak
<1>1. Init => TypeOK /\ CountIsStreak
  BY InitTyped, ThresholdAssumption DEF Init, CountIsStreak
<1>2. TypeOK /\ CountIsStreak /\ [Next]_vars => (TypeOK /\ CountIsStreak)'
  BY NextTyped, CountPreserved
<1>3. TypeOK /\ CountIsStreak => OpensOnStreak
  BY ThresholdAssumption DEF TypeOK, CountIsStreak, OpensOnStreak
<1>4. QED BY <1>1, <1>2, <1>3, PTL DEF Spec
=============================================================================
