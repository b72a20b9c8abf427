-------------------------------- MODULE MCChat --------------------------------
(* A full deployment, where one user has memories, and one without database.*)
EXTENDS Chat

CONSTANTS p1, ann

Deployments ==
  { [db |-> TRUE, redis |-> TRUE, memories |-> {ann}],
    [db |-> FALSE, redis |-> TRUE, memories |-> {}] }
=============================================================================
