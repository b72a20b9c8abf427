--------------------------- MODULE DocumentChanges ---------------------------
(***************************************************************************)
(* What one Kafka record of the document topic asks for: the decoding of   *)
(* sync-service/internal/document.go.  A record is either the compact      *)
(* event of the application's producer or a Canal flat-JSON envelope that  *)
(* may batch several rows.  Decoding yields a list of document changes, an *)
(* error, or the verdict that the record is not about documents at all.    *)
(*                                                                         *)
(* JSON text is abstracted to the fields the decoder looks at.  The empty  *)
(* string is "" (Missing), exactly the zero value Go leaves in a field     *)
(* that the JSON object does not have.                                     *)
(***************************************************************************)
EXTENDS Naturals, Sequences

Missing == ""

(* strings.ToUpper(strings.TrimSpace(op)), tabulated on the spellings used. *)
Canonical ==
  [op \in {Missing, " ", "INSERT", "update", " Delete ", "DELETE", "TRUNCATE"} |->
     CASE op = " "        -> Missing
       [] op = "update"   -> "UPDATE"
       [] op = " Delete " -> "DELETE"
       [] OTHER           -> op]

RawOperations == DOMAIN Canonical
Operations    == {"INSERT", "UPDATE", "DELETE"}

(* A DocumentChange after validation (timestamps are carried but unused).  *)
ValidChange(change) ==
  /\ change.document_id # Missing
  /\ change.source # Missing
  /\ change.operation \in Operations
  /\ change.operation = "DELETE" \/ change.file_path # Missing

(* validateDocumentChange normalises the operation in place, then judges.  *)
Normalised(change) == [change EXCEPT !.operation = Canonical[@]]

(* A Canal row: its document_id column, else its primary key.              *)
RowChange(envelope, fields) ==
  [document_id |-> IF fields.document_id # Missing THEN fields.document_id ELSE fields.id,
   operation   |-> envelope.type,
   source      |-> fields.source,
   file_path   |-> fields.file_path]

Accepted(changes) == [verdict |-> "changes", changes |-> changes]
Rejected          == [verdict |-> "error",   changes |-> << >>]
MessageIgnored    == [verdict |-> "ignored", changes |-> << >>]

(* Mutant: a record with an invalid row is ignored instead.                *)
ValidatedOrIgnored(changes) ==
  LET normal == [i \in DOMAIN changes |-> Normalised(changes[i])]
  IN  IF \A i \in DOMAIN normal : ValidChange(normal[i])
        THEN Accepted(normal)
        ELSE MessageIgnored

(* One invalid row rejects the whole record.                               *)
Validated(changes) ==
  LET normal == [i \in DOMAIN changes |-> Normalised(changes[i])]
  IN  IF \A i \in DOMAIN normal : ValidChange(normal[i])
        THEN Accepted(normal)
        ELSE Rejected

(* The compact event of a record that is an envelope: all its fields zero. *)
NoCompact ==
  [document_id |-> Missing, operation |-> Missing, source |-> Missing, file_path |-> Missing]

IsCompact(value) ==
  value.compact.document_id # Missing \/ value.compact.operation # Missing

(* Mutant: only the first row of a batch is taken.                         *)
FirstRowOnly(value) == <<RowChange(value, value.data[1])>>

CanalRows(value) == [i \in DOMAIN value.data |-> RowChange(value, value.data[i])]

decodeDocumentChanges(value) ==
  IF ~value.json           THEN Rejected
  ELSE IF IsCompact(value) THEN Validated(<<value.compact>>)
  ELSE IF value.isDdl \/ value.data = << >> THEN MessageIgnored
  ELSE Validated(CanalRows(value))

(***************************************************************************)
(* The shapes of the records.                                              *)
(***************************************************************************)
Changes(Text) ==
  [document_id : Text, operation : RawOperations, source : Text, file_path : Text]
Rows(Text) ==
  [id : Text, document_id : Text, source : Text, file_path : Text]
Values(Text, Data) ==
  [json : BOOLEAN, compact : Changes(Text), isDdl : BOOLEAN,
   type : RawOperations, data : Data]
=============================================================================
