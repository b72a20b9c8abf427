-------------------------- MODULE MCDocumentPipeline --------------------------
(* Two uploads of a document.                                              *)
EXTENDS DocumentPipeline, TLC

CONSTANTS f1, f2

(* With a database and the CDC table, with a database alone, with neither. *)
Settings == {<<TRUE, TRUE>>, <<TRUE, FALSE>>, <<FALSE, FALSE>>}

(* With a database, without the CDC table: an INSERT has the record's id   *)
(* for its key, a DELETE the name.                                         *)
DatabaseAlone == {<<TRUE, FALSE>>}

(* One retry where Canal publishes the events.                             *)
Retries == [cdcEnabled \in BOOLEAN |-> IF cdcEnabled THEN 1 ELSE 0]

OneName == f1 :> "a" @@ f2 :> "a"

Symmetry == Permutations(Files)
=============================================================================
