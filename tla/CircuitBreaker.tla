--------------------------- MODULE CircuitBreaker ---------------------------
(***************************************************************************)
(* The circuit breaker of one gateway replica (gateway/internal/circuit.go)*)
(* and the handler that drives it, Server.chat: ask the breaker, ask the   *)
(* rate limiter, call the RAG service, report the outcome.  The breaker's  *)
(* mutex makes Allow, Success and Failure atomic; requests interleave      *)
(* between them, so an outcome may be reported long after the breaker      *)
(* opened, or closed again.                                                *)
(*                                                                         *)
(* The service is the environment: it works or it does not (up).           *)
(***************************************************************************)
EXTENDS Naturals, FiniteSets

CONSTANTS
  Requests,      \* the chat requests the replica handles at a time
  Threshold,     \* cfg.CircuitFailures
  ResetTimeout   \* cfg.CircuitReset, in ticks

ASSUME ThresholdAssumption == Threshold \in Nat \ {0}
ASSUME ResetAssumption == ResetTimeout \in Nat \ {0}

VARIABLES
  failures,  \* the breaker's count
  open,      \* is openedAt set?
  since,     \* the time since openedAt, as far as ResetTimeout
  at,        \* where each request is in the handler
  up,        \* does the RAG service work?
  hit,       \* the calls that were under way when it did not
  streak,    \* history: calls the service failed in a row, up to Threshold
  hungUp     \* history: has a client hung up since the count was last reset?

breaker == <<failures, open, since>>
history == <<streak, hungUp>>
vars == <<breaker, at, up, hit, history>>

Init ==
  /\ failures = 0
  /\ open = FALSE
  /\ since = 0
  /\ at = [r \in Requests |-> "idle"]
  /\ up = TRUE
  /\ hit = {}
  /\ streak = 0
  /\ hungUp = FALSE

-----------------------------------------------------------------------------
(* The breaker                                                             *)

(* Once the timeout is over, the first caller closes the breaker: there is *)
(* no half-open state, and the callers after it are let through as well.   *)
Admits ==
  \/ ~open /\ UNCHANGED breaker
  \/ /\ open
     /\ since = ResetTimeout
     /\ open' = FALSE
     /\ failures' = 0
     /\ since' = 0

(* Mutant: a rejected caller counts as another failure.                    *)
RejectsAndCounts ==
  /\ open
  /\ since < ResetTimeout
  /\ since' = 0
  /\ UNCHANGED <<failures, open>>

Rejects ==
  /\ open
  /\ since < ResetTimeout
  /\ UNCHANGED breaker

(* Mutant: failures are counted, but not in a row.                         *)
SuccessKeepsCount ==
  /\ open' = FALSE
  /\ since' = 0
  /\ UNCHANGED failures

Success ==
  /\ failures' = 0
  /\ open' = FALSE
  /\ since' = 0

(* A failure reported while the breaker is open starts the timeout anew.   *)
Failure ==
  /\ failures' = failures + 1
  /\ open' = (open \/ failures + 1 >= Threshold)
  /\ since' = IF failures + 1 >= Threshold THEN 0 ELSE since

-----------------------------------------------------------------------------
(* Server.chat                                                             *)

Goes(r, from, to) ==
  /\ at[r] = from
  /\ at' = [at EXCEPT ![r] = to]

Allow(r) ==
  /\ Admits
  /\ Goes(r, "idle", "admitted")
  /\ hungUp' = (hungUp /\ ~open)
  /\ UNCHANGED <<up, hit, streak>>

(* 503 CIRCUIT_OPEN; the client tries again.                               *)
Reject(r) == Rejects /\ at[r] = "idle" /\ UNCHANGED <<at, up, hit, history>>

(* 429: the breaker has let the request pass and never hears of it again.  *)
RateLimited(r) == Goes(r, "admitted", "idle") /\ UNCHANGED <<breaker, up, hit, history>>

Call(r) ==
  /\ Goes(r, "admitted", "calling")
  /\ hit' = IF up THEN hit ELSE hit \cup {r}
  /\ UNCHANGED <<breaker, up, history>>

Answered(r) ==
  /\ up
  /\ Goes(r, "calling", "idle")
  /\ Success
  /\ hit' = hit \ {r}
  /\ streak' = 0
  /\ hungUp' = FALSE
  /\ UNCHANGED up

(* The service refuses, breaks off, or does not answer in time.            *)
Failed(r) ==
  /\ r \in hit
  /\ Goes(r, "calling", "idle")
  /\ Failure
  /\ hit' = hit \ {r}
  /\ streak' = IF streak < Threshold THEN streak + 1 ELSE streak
  /\ UNCHANGED <<up, hungUp>>

(* The client hangs up: its request context, and with it the call, is      *)
(* cancelled, and chat reports this error like any other.                  *)
Cancelled(r) ==
  /\ Goes(r, "calling", "idle")
  /\ Failure
  /\ hit' = hit \ {r}
  /\ hungUp' = TRUE
  /\ UNCHANGED <<up, streak>>

-----------------------------------------------------------------------------
(* Time and the service                                                    *)

Tick ==
  /\ open
  /\ since < ResetTimeout
  /\ since' = since + 1
  /\ UNCHANGED <<failures, open, at, up, hit, history>>

GoesDown ==
  /\ up
  /\ up' = FALSE
  /\ hit' = {r \in Requests : at[r] = "calling"}
  /\ UNCHANGED <<breaker, at, history>>

ComesUp ==
  /\ ~up
  /\ up' = TRUE
  /\ UNCHANGED <<breaker, at, hit, history>>

Next ==
  \/ \E r \in Requests :
       \/ Allow(r) \/ Reject(r) \/ RateLimited(r) \/ Call(r)
       \/ Answered(r) \/ Failed(r) \/ Cancelled(r)
  \/ Tick \/ GoesDown \/ ComesUp

Spec == Init /\ [][Next]_vars

(* Time passes, clients keep asking, and every call ends: RequestTimeout   *)
(* sees to that.  Nothing forces the service to fail or to recover, nor the*)
(* limiter to refuse.                                                      *)
Fairness ==
  /\ WF_vars(Tick)
  /\ \A r \in Requests :
       WF_vars(Allow(r)) /\ WF_vars(RateLimited(r) \/ Call(r))
         /\ WF_vars(Answered(r) \/ Failed(r))

FairSpec == Spec /\ Fairness

-----------------------------------------------------------------------------
(* Type correctness: a closed breaker has counted less than Threshold.     *)
TypeOK ==
  /\ failures \in Nat
  /\ open \in BOOLEAN
  /\ since \in 0..ResetTimeout
  /\ at \in [Requests -> {"idle", "admitted", "calling"}]
  /\ up \in BOOLEAN
  /\ hit \subseteq Requests
  /\ streak \in 0..Threshold
  /\ hungUp \in BOOLEAN
  /\ open <=> failures >= Threshold

(* The comment of circuit.go: the breaker rejects calls "after consecutive *)
(* downstream failures".  However late the outcomes of concurrent calls    *)
(* come in, it is open only when the service failed the last Threshold     *)
(* calls that were reported - unless a client hung up: chat counts that as *)
(* a failure of the service.                                               *)
OpensOnStreak == (open /\ ~hungUp) => streak = Threshold

(* "... and probes again after resetTimeout": once the service is up for   *)
(* good and clients have the patience to wait, late failures of calls begun*)
(* during the outage may open the breaker again, but it ends up closed.    *)
Recovers ==
  (<>[]up /\ <>[][\A r \in Requests : ~Cancelled(r)]_vars) => <>[](~open)

(* An open breaker lets somebody through in the end even while the service *)
(* stays down and clients hang up: late failures put the next probe off    *)
(* only so often.                                                          *)
ProbesAgain == open ~> (~open \/ since = ResetTimeout)
=============================================================================
