---------------------------- MODULE StoredFiles ----------------------------
(***************************************************************************)
(* Files: bytes in the object storage, a row for them in stored_files, and *)
(* what refers to the row: a document of an application, the receipt of    *)
(* the tax office, an attachment of a payment, a document of an address,   *)
(* an extract of the land register.  The bytes are put before the row is   *)
(* inserted, outside the transaction; their key is made of the content's   *)
(* hash and the name, so that the same file uploaded twice has one key.    *)
(***************************************************************************)
EXTENDS Naturals, FiniteSets

CONSTANTS Keys,      \* storage keys: content hash and name
          Files,     \* rows of stored_files (bound)
          Uploaders, \* uploads being served at once
          NoFile

ASSUME FilesAssumption == NoFile \notin Files \cup Keys

VARIABLES bytes,     \* keys the storage has an object for
          file,      \* stored_files: the key of each committed row
          use,       \* what a row is for; "left" when its document was deleted
          current,   \* rows of egrn_extracts with is_current
          upload,    \* uploads between two of their steps
          stage      \* applications.status, as far as uploads look at it
fileVars == <<bytes, file, use, current, upload, stage>>

Uses == {"document", "receipt", "payment", "address", "extract"}
NoUpload == [at |-> "none", use |-> "none", key |-> NoFile, old |-> {}]
UploadType == [at : {"none", "read", "put", "looked"}, use : Uses \cup {"none"},
               key : Keys \cup {NoFile}, old : SUBSET Files]

InitFiles ==
  /\ bytes = {} /\ file = [f \in Files |-> NoFile] /\ use = [f \in Files |-> "none"]
  /\ current = {} /\ upload = [u \in Uploaders |-> NoUpload] /\ stage = "preparing"

Stored == {f \in Files : file[f] # NoFile}
Unused(f) == file[f] = NoFile
Goes(u, rec) == upload' = [upload EXCEPT ![u] = rec]

-----------------------------------------------------------------------------
(* The checks of each handler: who may upload what, and when.              *)
OwnerMayUpload == stage \in {"preparing", "revision"}
ClientMayAddReceipt == stage \in {"ready", "completed"}
MayUpload(what) ==
  /\ what = "document" => OwnerMayUpload
  /\ what = "receipt" => ClientMayAddReceipt
UploadReads(u, what, k) ==
  /\ upload[u] = NoUpload /\ MayUpload(what)
  /\ Goes(u, [NoUpload EXCEPT !.at = "read", !.use = what, !.key = k])
  /\ UNCHANGED <<bytes, file, use, current, stage>>

\* create_stored_file_record: put_bytes in a worker thread.
PutBytes(u) ==
  /\ upload[u].at = "read"
  /\ bytes' = bytes \cup {upload[u].key}
  /\ Goes(u, [upload[u] EXCEPT !.at = "put"])
  /\ UNCHANGED <<file, use, current, stage>>

\* The row and what refers to it, in one transaction.
KeepsRow(u, f) ==
  /\ Unused(f)
  /\ file' = [file EXCEPT ![f] = upload[u].key]
  /\ use' = [use EXCEPT ![f] = upload[u].use]
  /\ Goes(u, NoUpload)
UploadCommits(u, f) ==
  /\ upload[u].at = "put" /\ upload[u].use # "extract"
  /\ KeepsRow(u, f)
  /\ stage' = IF upload[u].use = "document" THEN "review" ELSE stage
  /\ UNCHANGED <<bytes, current>>

\* upload_extract: the extracts that are current are read, then replaced; a unique
\* index allows one current extract of an address.
LooksForCurrent(u) ==
  /\ upload[u].at = "put" /\ upload[u].use = "extract"
  /\ Goes(u, [upload[u] EXCEPT !.at = "looked", !.old = current])
  /\ UNCHANGED <<bytes, file, use, current, stage>>
IndexAllowsAny(u) == TRUE                                     \* mutant
IndexAllows(u) == current \subseteq upload[u].old
ExtractCommits(u, f) ==
  /\ upload[u].at = "looked" /\ IndexAllows(u)
  /\ KeepsRow(u, f)
  /\ current' = (current \ upload[u].old) \cup {f}
  /\ UNCHANGED <<bytes, stage>>

\* Anything after the checks may fail or the process die: rolled back, the bytes stay.
UploadFails(u) ==
  /\ upload[u].at # "none" /\ Goes(u, NoUpload)
  /\ UNCHANGED <<bytes, file, use, current, stage>>

\* delete_address_document takes the document away and leaves its file.
DeleteDocument(f) ==
  /\ use[f] = "address"
  /\ use' = [use EXCEPT ![f] = "left"]
  /\ UNCHANGED <<bytes, file, current, upload, stage>>

\* The rest of the workflow (ApplicationWorkflow).
StageMoves ==
  /\ \/ stage = "review" /\ stage' \in {"revision", "ready"}
     \/ stage = "ready" /\ stage' = "completed"
  /\ UNCHANGED <<bytes, file, use, current, upload>>

NextFiles ==
  \/ \E u \in Uploaders, what \in Uses, k \in Keys : UploadReads(u, what, k)
  \/ \E u \in Uploaders : PutBytes(u) \/ LooksForCurrent(u) \/ UploadFails(u)
  \/ \E u \in Uploaders, f \in Files : UploadCommits(u, f) \/ ExtractCommits(u, f)
  \/ \E f \in Files : DeleteDocument(f)
  \/ StageMoves

SpecFiles == InitFiles /\ [][NextFiles]_fileVars

-----------------------------------------------------------------------------
(* Type invariant. *)
FilesTypeOK ==
  /\ bytes \subseteq Keys /\ file \in [Files -> Keys \cup {NoFile}]
  /\ use \in [Files -> Uses \cup {"none", "left"}] /\ current \subseteq Files
  /\ upload \in [Uploaders -> UploadType]
  /\ stage \in {"preparing", "review", "revision", "ready", "completed"}

(* A committed row has its bytes, whatever uploads failed, were repeated   *)
(* or shared their key with a document deleted since                       *)
(* (create_stored_file_record, delete_address_document).                   *)
RowsHaveBytes == \A f \in Stored : file[f] \in bytes

(* An address with an extract has exactly one current extract, however     *)
(* many are uploaded at once (upload_extract).                             *)
OneCurrentExtract ==
  Cardinality(current) = IF \E f \in Stored : use[f] = "extract" THEN 1 ELSE 0
=============================================================================
