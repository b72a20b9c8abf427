------------------------------ MODULE MCCragGraph ------------------------------
(* Three passages, the first in two chunks; the last looks most like the   *)
(* opening of a document, and begins like the second.                      *)
EXTENDS CragGraph

Index == 1..4
PassageOf == <<"a", "a", "b", "c">>
Openings == [p \in {"a", "b", "c"} |-> IF p = "c" THEN 60000 ELSE 10000]
Beginnings == [p \in {"a", "b", "c"} |-> IF p = "a" THEN "long" ELSE "title"]
=============================================================================
