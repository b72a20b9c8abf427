----------------------------- MODULE FixedWindow -----------------------------
(***************************************************************************)
(* The rate limiter of the Python API (check_rate_limit in                 *)
(* backend/services/cache_service.py): a counter per client address that   *)
(* Redis increments, and that the request which created it sets to expire. *)
(* The two commands are separate round trips, so requests interleave with  *)
(* them, and either can fail on its own.                                   *)
(***************************************************************************)
EXTENDS Naturals, Tallies

CONSTANTS
  Requests,      \* the chat requests of one client that can be under way
  Window,        \* 60 seconds, in ticks
  Limit,         \* settings.rate_limit_per_minute
  Never          \* the ttl of a key that does not expire

Ages   == 0 .. Window - 1

VARIABLES
  count,     \* the counter, 0 when there is no key
  ttl,       \* the ticks until it expires, Never, or 0 when there is no key
  first,     \* the requests whose INCR returned 1 and that have yet to EXPIRE
  admitted,  \* history: [Ages -> how many requests the count admitted then]
  orphaned   \* history: did the request that created the key fail to EXPIRE it?

vars == <<count, ttl, first, admitted, orphaned>>

Init ==
  /\ count = 0
  /\ ttl = 0
  /\ first = {}
  /\ admitted = [a \in Ages |-> 0]
  /\ orphaned = FALSE

(* Mutant: off by one.                                                     *)
AllowsOneMore(n) == n <= Limit + 1

Allows(n) == n <= Limit

(* INCR creates a missing key, without an expiry.                          *)
Increment ==
  /\ count' = IF count > Limit THEN count ELSE count + 1
  /\ ttl' = IF count = 0 THEN Never ELSE ttl

Admit == admitted' = [admitted EXCEPT ![0] = @ + 1]

(* INCR is answered with 1: EXPIRE comes next.                             *)
IncrFirst(r) ==
  /\ r \notin first
  /\ count = 0
  /\ Increment
  /\ first' = first \cup {r}
  /\ UNCHANGED <<admitted, orphaned>>

IncrAgain(r) ==
  /\ r \notin first
  /\ count > 0
  /\ Increment
  /\ IF Allows(count') THEN Admit ELSE UNCHANGED admitted
  /\ UNCHANGED <<first, orphaned>>

(* The request is let through; whether the counter was incremented is      *)
(* anybody's guess.                                                        *)
IncrFails(r) ==
  /\ r \notin first
  /\ Increment
  /\ orphaned' = (orphaned \/ count = 0)
  /\ UNCHANGED <<first, admitted>>

(* Mutant: the key is never set to expire.                                 *)
ExpireSkipped(r) ==
  /\ r \in first
  /\ first' = first \ {r}
  /\ Admit
  /\ UNCHANGED <<count, ttl, orphaned>>

Expire(r) ==
  /\ r \in first
  /\ first' = first \ {r}
  /\ ttl' = Window
  /\ Admit
  /\ UNCHANGED <<count, orphaned>>

(* Redis fails, or the API dies between the two commands.                  *)
ExpireFails(r) ==
  /\ r \in first
  /\ first' = first \ {r}
  /\ orphaned' = TRUE
  /\ Admit
  /\ UNCHANGED <<count, ttl>>

Tick ==
  /\ ttl' = CASE ttl = Never -> Never
              [] ttl = 0     -> 0
              [] OTHER       -> ttl - 1
  /\ count' = IF ttl = 1 THEN 0 ELSE count
  /\ admitted' = Older(admitted)
  /\ UNCHANGED <<first, orphaned>>

check_rate_limit(r) ==
  IncrFirst(r) \/ IncrAgain(r) \/ IncrFails(r) \/ Expire(r) \/ ExpireFails(r)

Next == Tick \/ \E r \in Requests : check_rate_limit(r)

Spec == Init /\ [][Next]_vars

-----------------------------------------------------------------------------
Admitted == Total(admitted, Window)
=============================================================================
