---------------------------- MODULE MCSyncService ----------------------------
(* The partitions TLC checks the Sync Service on.                          *)
EXTENDS SyncService, TLC

CONSTANTS c1, c2, t1, t2

MCDocuments == {"a", "b"}

(* The producer's event of a source, under the document id d.             *)
EventOf(d, s, op) ==
  [json |-> TRUE, isDdl |-> FALSE, type |-> Missing, data |-> << >>,
   compact |-> [document_id |-> d, operation |-> op, source |-> s, file_path |-> s]]

Event(d, op) == EventOf(d, d, op)

Batch(ds) ==
  [json |-> TRUE, isDdl |-> FALSE, type |-> "INSERT", compact |-> NoCompact,
   data |-> [i \in DOMAIN ds |->
              [id |-> ds[i], document_id |-> Missing, source |-> ds[i], file_path |-> ds[i]]]]

DDL      == [Batch(<< >>) EXCEPT !.isDdl = TRUE]
Invalid  == Event("a", "TRUNCATE")

(* A batch of two documents, then a change of the first one's source under *)
(* the id of the second: the API announces an upload by its record's id and*)
(* a deletion by the source, so one source may come under several ids.     *)
BatchThenOther  == <<Batch(<<"a", "b">>), EventOf("b", "a", " Delete ")>>
(* A document is created and deleted.                                      *)
OneDocument     == <<Event("a", "INSERT"), Event("a", " Delete ")>>
(* A batch, a record that is not about documents and one that is invalid.  *)
WithOthers      == <<Batch(<<"a", "b">>), DDL, Invalid>>

Symmetry == Permutations(Consumers) \cup Permutations(Tokens)
=============================================================================
