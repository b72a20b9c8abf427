----------------------------- MODULE AtLeastOnce -----------------------------
(***************************************************************************)
(* What the documentation promises of a consumer of the document topic     *)
(* (docs/architecture.md, docs/pitfall.md): the committed offset never     *)
(* covers a record that has not been dealt with.  Records are dealt with   *)
(* one at a time and for good; a commit covers dealt-with records only.    *)
(* It may go back, when a consumer that lost the partition commits late.   *)
(***************************************************************************)
EXTENDS Naturals

CONSTANTS Last,     \* the number of records in the partition
          AtOnce    \* those that need no processing

VARIABLES handled, committed

Init == handled = AtOnce /\ committed = 0

Handle(m) ==
  /\ m \notin handled
  /\ handled' = handled \cup {m}
  /\ UNCHANGED committed

Commit(m) ==
  /\ 1..m \subseteq handled
  /\ committed' = m
  /\ UNCHANGED handled

Next == \E m \in 1..Last : Handle(m) \/ Commit(m)

Spec == Init /\ [][Next]_<<handled, committed>>
=============================================================================
