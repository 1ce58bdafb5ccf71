----------------------------- MODULE AddressPage -----------------------------
(***************************************************************************)
(* One address in the catalogue: its publication, its photos and its       *)
(* extra services.  A handler loads a row, checks it and commits its       *)
(* change in a second step; it takes no lock, writes only the columns it   *)
(* set to another value than it loaded, and fails if the row is gone.      *)
(***************************************************************************)
EXTENDS Naturals, FiniteSets

CONSTANTS Photos,    \* address_photos (bound)
          Kinds,     \* kinds of services
          Staff,     \* requests being served at once
          MaxPhotos, \* MAX_PHOTOS_PER_ADDRESS
          NoPhoto

ASSUME PageAssumption ==
  NoPhoto \notin Photos \cup Kinds /\ MaxPhotos \in Nat \ {0} /\ IsFiniteSet(Staff)

VARIABLES publication, \* addresses.publication_status
          photo,       \* address_photos
          service,     \* address_services of the address
          job          \* requests between two of their steps
pageVars == <<publication, photo, service, job>>

PhotoRow == [status : {"none", "pending", "approved", "rejected"}, main : BOOLEAN]
NoRow == [status |-> "none", main |-> FALSE]
NoJob == [op |-> "none", on |-> NoPhoto, seen |-> NoRow]
PublicationOps == {"submit", "archive", "publish", "refuse"}
PhotoOps == {"approve", "reject", "set_main", "delete"}

InitPage ==
  /\ publication = "draft"
  /\ photo = [p \in Photos |-> NoRow] /\ service = [k \in Kinds |-> "none"]
  /\ job = [s \in Staff |-> NoJob]

Takes(s, op, on, seen) ==
  /\ job[s] = NoJob
  /\ job' = [job EXCEPT ![s] = [op |-> op, on |-> on, seen |-> seen]]
  /\ UNCHANGED <<publication, photo, service>>
JobEnds(s) == job' = [job EXCEPT ![s] = NoJob]
\* A job that has loaded a row deleted since can only fail.
RowDeleted(s, on) == job' = [z \in Staff |->
  IF z = s THEN NoJob
  ELSE IF job[z].on = on /\ job[z].seen # NoRow THEN [job[z] EXCEPT !.op = "stale"] ELSE job[z]]
JobFails(s) == job[s] # NoJob /\ JobEnds(s) /\ UNCHANGED <<publication, photo, service>>

-----------------------------------------------------------------------------
(* Publication *)
MayChange(op) ==
  CASE op = "submit" -> publication \in {"draft", "rejected"}
    [] op = "archive" -> publication # "archived"
    [] OTHER -> publication = "moderation"
Becomes(op) == CASE op = "submit" -> "moderation" [] op = "archive" -> "archived"
                 [] op = "publish" -> "published" [] op = "refuse" -> "rejected"
PublicationReads(s, op) == MayChange(op) /\ Takes(s, op, NoPhoto, NoRow)
PublicationWrites(s) ==
  /\ job[s].op \in PublicationOps
  /\ publication' = Becomes(job[s].op)
  /\ JobEnds(s) /\ UNCHANGED <<photo, service>>

-----------------------------------------------------------------------------
(* Photos *)
PhotoRows == {p \in Photos : photo[p].status # "none"}
AtPhotoLimit == Cardinality(PhotoRows) <= MaxPhotos           \* mutant
\* The limit is checked before the picture is processed and stored.
BelowPhotoLimit == Cardinality(PhotoRows) < MaxPhotos
PhotoCounted(s) == BelowPhotoLimit /\ Takes(s, "upload", NoPhoto, NoRow)
PhotoInserted(s, p) ==
  /\ job[s].op = "upload" /\ photo[p] = NoRow
  /\ photo' = [photo EXCEPT ![p] = [status |-> "pending", main |-> FALSE]]
  /\ JobEnds(s) /\ UNCHANGED <<publication, service>>

PhotoReads(s, op, p) ==
  /\ p \in PhotoRows /\ (op = "set_main" => photo[p].status = "approved")
  /\ Takes(s, op, p, photo[p])
Changed(row, seen, new) ==
  [status |-> IF new.status = seen.status THEN row.status ELSE new.status,
   main |-> IF new.main = seen.main THEN row.main ELSE new.main]
Meant(op, seen) == CASE op = "approve" -> [seen EXCEPT !.status = "approved"]
                     [] op = "reject" -> [status |-> "rejected", main |-> FALSE]
                     [] op = "set_main" -> [seen EXCEPT !.main = TRUE]
\* set_main takes the mark from the other photos first.
Unmarked(op, p) == [q \in Photos |->
  IF op = "set_main" /\ q # p THEN [photo[q] EXCEPT !.main = FALSE] ELSE photo[q]]
MainApproved(rows) == {p \in Photos : rows[p].status = "approved" /\ rows[p].main}
PhotoWrites(s) ==
  LET p == job[s].on  op == job[s].op
      rows == [Unmarked(op, p) EXCEPT ![p] = Changed(@, job[s].seen, Meant(op, job[s].seen))]
  IN /\ op \in PhotoOps \ {"delete"} /\ p \in PhotoRows
     /\ Cardinality(MainApproved(rows)) <= 1  \* the partial unique index
     /\ photo' = rows
     /\ JobEnds(s) /\ UNCHANGED <<publication, service>>
PhotoDeleted(s) ==
  /\ job[s].op = "delete" /\ job[s].on \in PhotoRows
  /\ photo' = [photo EXCEPT ![job[s].on] = NoRow]
  /\ RowDeleted(s, job[s].on) /\ UNCHANGED <<publication, service>>

-----------------------------------------------------------------------------
(* Extra services: insert or update, by the administrator or the owner;    *)
(* address and kind are unique.                                            *)
ServiceReads(s, op, k) ==
  Takes(s, op, k, [NoRow EXCEPT !.main = (service[k] # "none")])
Upserted(s, as) ==
  /\ job[s].op = "upsert" /\ job[s].seen.main = (service[job[s].on] # "none")
  /\ service' = [service EXCEPT ![job[s].on] = as]
  /\ JobEnds(s) /\ UNCHANGED <<publication, photo>>
ServiceDeleted(s) ==
  /\ job[s].op = "drop" /\ job[s].seen.main /\ service[job[s].on] # "none"
  /\ service' = [service EXCEPT ![job[s].on] = "none"]
  /\ RowDeleted(s, job[s].on) /\ UNCHANGED <<publication, photo>>

NextPage ==
  \/ \E s \in Staff : \/ JobFails(s) \/ PublicationWrites(s) \/ PhotoCounted(s)
                      \/ PhotoWrites(s) \/ PhotoDeleted(s) \/ ServiceDeleted(s)
  \/ \E s \in Staff, op \in PublicationOps : PublicationReads(s, op)
  \/ \E s \in Staff, p \in Photos : PhotoInserted(s, p)
  \/ \E s \in Staff, op \in PhotoOps, p \in Photos : PhotoReads(s, op, p)
  \/ \E s \in Staff, op \in {"upsert", "drop"}, k \in Kinds : ServiceReads(s, op, k)
  \/ \E s \in Staff, as \in {"active", "hidden"} : Upserted(s, as)

SpecPage == InitPage /\ [][NextPage]_pageVars

-----------------------------------------------------------------------------
(* Type invariant. *)
PageTypeOK ==
  /\ publication \in {"draft", "moderation", "published", "rejected", "archived"}
  /\ photo \in [Photos -> PhotoRow]
  /\ service \in [Kinds -> {"none", "active", "hidden"}]
  /\ job \in [Staff -> [op : PublicationOps \cup PhotoOps \cup {"none", "upload", "upsert", "drop", "stale"},
                        on : Photos \cup Kinds \cup {NoPhoto}, seen : PhotoRow]]

(* The photos are counted before the picture is processed, so the limit of *)
(* an address can be passed, but only by the uploads that were counted at  *)
(* the same time (upload_address_photo).                                   *)
PhotosAreBounded ==
  LET counted == {s \in Staff : job[s].op = "upload"} IN
  Cardinality(PhotoRows) + Cardinality(counted) < MaxPhotos + Cardinality(Staff)
=============================================================================
