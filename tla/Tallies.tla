------------------------------- MODULE Tallies -------------------------------
(***************************************************************************)
(* How many requests of a client fell how long ago: both rate limiters are *)
(* modelled without a clock, by tallies [0..oldest -> Nat] of ages.        *)
(***************************************************************************)
EXTENDS Naturals

(* Those with an age below n.  (A recursive function of numbers rather than*)
(* a fold over a set: this one can be reasoned about by steps.)            *)
Total(tally, n) ==
  LET sum[k \in 0..n] == IF k = 0 THEN 0 ELSE sum[k - 1] + tally[k - 1]
  IN sum[n]

(* A tick later; who was oldest is forgotten.                              *)
Older(tally) == [a \in DOMAIN tally |-> IF a = 0 THEN 0 ELSE tally[a - 1]]
=============================================================================
