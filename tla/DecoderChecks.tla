---------------------------- MODULE DecoderChecks ----------------------------
(***************************************************************************)
(* The decoder on every record over two texts and at most two Canal rows,  *)
(* against what the consumer relies on: references written from the        *)
(* contract of the topic rather than from the decoder's control flow.      *)
(***************************************************************************)
EXTENDS DocumentChanges

Text == {Missing, "a"}

(* Rows whose document_id column is missing fall back on the key "k".      *)
SomeRows ==
  [id : {Missing, "k"}, document_id : Text, source : Text, file_path : Text]

SomeData == {<< >>} \cup { <<r>> : r \in SomeRows } \cup { <<r, s>> : r, s \in SomeRows }

CompactValues ==
  [json : BOOLEAN, compact : Changes(Text), isDdl : {FALSE}, type : {Missing}, data : {<< >>}]

EnvelopeValues ==
  [json : {TRUE}, compact : {NoCompact}, isDdl : BOOLEAN,
   type : {"INSERT", " Delete ", "TRUNCATE"}, data : SomeData]

SomeValues == CompactValues \cup EnvelopeValues

(* The records that are decoded to something nobody can act upon, ...      *)
Unactionable ==
  {value \in SomeValues :
     LET result == decodeDocumentChanges(value) IN
       \/ (result.verdict = "changes") # (result.changes # << >>)
       \/ \E i \in DOMAIN result.changes :
            LET c == result.changes[i] IN
              \/ Missing \in {c.document_id, c.source}
              \/ c.operation \notin Operations
              \/ c.file_path = Missing /\ c.operation # "DELETE"}

(* ... the envelopes that lose a row, ...                                  *)
Truncated ==
  {value \in EnvelopeValues :
     LET result == decodeDocumentChanges(value) IN
       /\ result.verdict = "changes"
       /\ \/ Len(result.changes) # Len(value.data)
          \/ \E i \in DOMAIN value.data :
               \/ result.changes[i].source # value.data[i].source
               \/ result.changes[i].document_id \notin
                    {value.data[i].document_id, value.data[i].id} \ {Missing}}

(* ... and the document records that are ignored.                          *)
Dropped ==
  {value \in SomeValues :
     /\ decodeDocumentChanges(value).verdict = "ignored"
     /\ ~value.json \/ IsCompact(value) \/ (~value.isDdl /\ Len(value.data) > 0)}

(* Every change that reaches syncDocument names a document, a source and a *)
(* known operation, and names a file unless it deletes: what IndexDocument *)
(* relies on without checking.  An accepted record has at least one.       *)
ASSUME ChangesAreActionable == Unactionable = {}

(* A batched Canal envelope is taken whole and in order or not at all.     *)
ASSUME WholeEnvelope == Truncated = {}

(* Only DDL and empty envelopes are ignored (and so committed unprocessed).*)
ASSUME OnlyControlIgnored == Dropped = {}
=============================================================================
