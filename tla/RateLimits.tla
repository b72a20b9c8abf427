------------------------------ MODULE RateLimits ------------------------------
(***************************************************************************)
(* A client's requests are counted at the door they come in by: the gRPC   *)
(* gateway's sliding window or the Python API's fixed window.  The two keep*)
(* separate keys in Redis, so a behaviour is one client at one door.       *)
(***************************************************************************)
EXTENDS Naturals

CONSTANTS
  Window,     \* the window of either, in ticks
  Limit,      \* the requests it admits
  Gateways,   \* the gateway's replicas
  Skew,       \* how many ticks their clocks may be apart
  Requests,   \* the chat requests of one client that can be in the API
  Never       \* the ttl of a counter that does not expire

ASSUME WindowAssumption == Window \in Nat \ {0} /\ Limit \in Nat \ {0}
ASSUME SkewAssumption == Skew \in Nat /\ Skew < Window
ASSUME NeverAssumption == Never \notin 0..Window
ASSUME GatewaysAssumption == Gateways # {}

VARIABLES
  door,                                    \* "gateway" or "api"
  ahead, zset, expiry, passed, refused,    \* of SlidingWindow
  count, ttl, first, admitted, orphaned    \* of FixedWindow

Sliding == INSTANCE SlidingWindow WITH ttl <- expiry, admitted <- passed
Fixed   == INSTANCE FixedWindow

sliding == <<ahead, zset, expiry, passed, refused>>
fixed   == <<count, ttl, first, admitted, orphaned>>
vars == <<door, sliding, fixed>>

Init ==
  /\ door \in {"gateway", "api"}
  /\ Sliding!Init
  /\ Fixed!Init
  /\ door = "api" => \A g \in Gateways : ahead[g] = 0

AtGateway == door = "gateway" /\ Sliding!Next /\ UNCHANGED <<door, fixed>>
AtApi     == door = "api" /\ Fixed!Next /\ UNCHANGED <<door, sliding>>

Next == AtGateway \/ AtApi

(* Time passes, and a request that has incremented the counter goes on.    *)
Fairness ==
  /\ WF_vars(AtApi /\ Fixed!Tick)
  /\ \A r \in Requests : WF_vars(AtApi /\ (Fixed!Expire(r) \/ Fixed!ExpireFails(r)))

FairSpec == Init /\ [][Next]_vars /\ Fairness

-----------------------------------------------------------------------------
(* At most Limit requests of a client are admitted in any window, however  *)
(* its requests are spread over the replicas - and when the replicas'      *)
(* clocks disagree, in any window that is shorter by as much.              *)
LimitKept == Sliding!Within(Window - Sliding!Spread) <= Limit

(* Nobody is refused without cause: when the script refuses, it admitted   *)
(* Limit requests within the last Window, give or take the difference of   *)
(* the clocks.  In particular refused requests do not keep a client out.   *)
RefusedForCause == refused => Sliding!Within(Window + Sliding!Spread) >= Limit

(* cache_service.py:4, "at most N requests of an address per minute", is   *)
(* more than a fixed window can do: a minute may reach into two of them.   *)
(* Twice the limit is what it guarantees of any minute, however requests   *)
(* interleave with the two commands and whatever fails between them.       *)
TwiceTheLimitKept == Fixed!Admitted <= 2 * Limit

(* An address that used up its limit may ask again in the end, unless the  *)
(* key was orphaned.                                                       *)
LimitLifts == count > Limit ~> (count = 0 \/ orphaned)
=============================================================================
