---------------------------- MODULE SlidingWindow ----------------------------
(***************************************************************************)
(* The sliding-window rate limiter of gateway/internal/server.go: the Lua  *)
(* script that several gateway replicas run on one Redis key, the sorted   *)
(* set of one client's admitted requests.  Redis runs the script atomically*)
(* but the time it works with is the clock of the replica that calls it.   *)
(*                                                                         *)
(* There is no clock in the model, only ages: admitted requests carry the  *)
(* time that has passed since, and a member of the sorted set how far its  *)
(* score lies behind the fastest clock there could be, which is Skew ahead.*)
(* A replica whose clock is ahead by s adds its members Skew - s behind.   *)
(***************************************************************************)
EXTENDS Naturals, FiniteSetsExt, Tallies

CONSTANTS
  Gateways,   \* the replicas
  Skew,       \* how many ticks two replicas' clocks may be apart
  Window,     \* the window, in ticks
  Limit       \* cfg.RateLimit

Span == Window + Skew
Ages == 0..Span

VARIABLES
  ahead,     \* [Gateways -> how far its clock is ahead]; it stays that far
  zset,      \* [Ages -> how many members have a score so far behind]
  ttl,       \* the ticks until the key expires; 0 when there is none
  admitted,  \* history: [Ages -> how many requests the script admitted then]
  refused    \* history: did the last script refuse its request?

vars == <<ahead, zset, ttl, admitted, refused>>

Nobody == [a \in Ages |-> 0]

Init ==
  /\ ahead \in [Gateways -> 0..Skew]
  /\ zset = Nobody
  /\ ttl = 0
  /\ admitted = Nobody
  /\ refused = FALSE

Size(set) == Total(set, Span + 1)

(* Mutant: a member leaves the window a tick early.                        *)
OutdatedEarly(h, a) == a + 1 + ahead[h] >= Span

(* Is a score that lies a behind outside the window by h's clock, which is *)
(* Skew - ahead[h] behind itself?  ZREMRANGEBYSCORE's bounds are inclusive.*)
Outdated(h, a) == a + ahead[h] >= Span

Trimmed(h) == [a \in Ages |-> IF Outdated(h, a) THEN 0 ELSE zset[a]]

(* Mutant: a refused request is added, too.                                *)
RefuseAndAdd(h) ==
  /\ Size(Trimmed(h)) >= Limit
  /\ zset' = [Trimmed(h) EXCEPT ![Skew - ahead[h]] = @ + 1]
  /\ ttl' = Window
  /\ refused' = TRUE
  /\ UNCHANGED <<ahead, admitted>>

Refuse(h) ==
  /\ Size(Trimmed(h)) >= Limit
  /\ zset' = Trimmed(h)
  /\ refused' = TRUE
  /\ UNCHANGED <<ahead, ttl, admitted>>

(* The script adds the request and renews the key's expiry.  Its reply may *)
(* be lost, and the gateway then answers 429: admitted counts the script's *)
(* decisions.                                                              *)
Admit(h) ==
  /\ Size(Trimmed(h)) < Limit
  /\ zset' = [Trimmed(h) EXCEPT ![Skew - ahead[h]] = @ + 1]
  /\ ttl' = Window
  /\ admitted' = [admitted EXCEPT ![0] = @ + 1]
  /\ refused' = FALSE
  /\ UNCHANGED ahead

(* A tick passes; Redis drops a key whose expiry is reached.               *)
Tick ==
  /\ ttl' = IF ttl = 0 THEN 0 ELSE ttl - 1
  /\ zset' = IF ttl <= 1 THEN Nobody ELSE Older(zset)
  /\ admitted' = Older(admitted)
  /\ refused' = FALSE
  /\ UNCHANGED ahead

allowRate(h) == Admit(h) \/ Refuse(h)

Next == Tick \/ \E h \in Gateways : allowRate(h)

Spec == Init /\ [][Next]_vars

-----------------------------------------------------------------------------
Within(n) == Total(admitted, n)

(* How far apart the clocks really are.                                    *)
Spread == Max({ahead[g] : g \in Gateways}) - Min({ahead[g] : g \in Gateways})
=============================================================================
