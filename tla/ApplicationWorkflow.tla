------------------------ MODULE ApplicationWorkflow ------------------------
(***************************************************************************)
(* The status of one application, from the wait for its payment on         *)
(* (src/app/services/application_workflow.py, application_documents.py).   *)
(* A request reads the application without a lock, checks its move against *)
(* that reading and writes the new status later, so that two requests may  *)
(* both pass the check and the later writer wins.                          *)
(***************************************************************************)
CONSTANT Requests   \* requests at work at once, each in its own session

VARIABLES status,   \* application.status, as committed
          request,  \* request[r]: what r has read and is about to write
          approved  \* history: an admin has approved the documents

workflowVars == <<status, request, approved>>

Statuses ==
  {"awaiting_payment", "paid", "admin_review", "needs_client_fix",
   "assigned_to_owner", "accepted_by_owner", "rejected_by_owner",
   "documents_preparing", "documents_review", "documents_revision",
   "ready_for_client", "completed", "cancelled", "dispute"}

(***************************************************************************)
(* _TRANSITIONS: who, from which status, by which action, to which status. *)
(***************************************************************************)
Transitions ==
  {<<"admin", "paid", "start_admin_review", "admin_review">>,
   <<"admin", "admin_review", "assign_owner", "assigned_to_owner">>,
   <<"admin", "admin_review", "request_client_fix", "needs_client_fix">>,
   <<"admin", "admin_review", "cancel", "cancelled">>,
   <<"admin", "rejected_by_owner", "assign_owner", "assigned_to_owner">>,
   <<"admin", "rejected_by_owner", "cancel", "cancelled">>,
   <<"admin", "documents_review", "approve_documents", "ready_for_client">>,
   <<"admin", "documents_review", "request_document_revision", "documents_revision">>,
   <<"admin", "dispute", "resolve_dispute", "ready_for_client">>,
   <<"admin", "dispute", "cancel", "cancelled">>,
   <<"admin", "dispute", "complete", "completed">>,
   <<"owner", "assigned_to_owner", "accept", "accepted_by_owner">>,
   <<"owner", "assigned_to_owner", "reject", "rejected_by_owner">>,
   <<"owner", "accepted_by_owner", "start_documents", "documents_preparing">>,
   <<"client", "needs_client_fix", "submit_corrections", "admin_review">>,
   <<"client", "ready_for_client", "confirm_received", "completed">>,
   <<"client", "ready_for_client", "open_dispute", "dispute">>}

(* upload_application_document sends whatever the owner has to review.     *)
Uploads == {<<"owner", from, "upload", "documents_review">> :
              from \in {"documents_preparing", "documents_revision"}}

Moves == Transitions \union Uploads
From(m) == m[2]
To(m) == m[4]

Idle == [at |-> "idle"]
Moving == [at : {"move"}, move : Moves]

(* The client sees the documents, or has seen them.                        *)
Shown == {"ready_for_client", "completed", "dispute"}

InitWorkflow == /\ status = "awaiting_payment"
                /\ request = [r \in Requests |-> Idle]
                /\ approved = FALSE

Steps(r, b) == request' = [request EXCEPT ![r] = b]
Is(r, step) == request[r].at = step

(* db.get, access and transition checked; nothing is locked.               *)
Reads(r, m) == /\ Is(r, "idle") /\ status = From(m)
               /\ Steps(r, [at |-> "move", move |-> m])
               /\ UNCHANGED <<status, approved>>

(* The flush and the commit: UPDATE ... WHERE id, with no look at the row. *)
Writes(r) == /\ Is(r, "move")
             /\ status' = To(request[r].move)
             /\ approved' = (approved \/ request[r].move[3] = "approve_documents")
             /\ Steps(r, Idle)

(* An exception before the commit.                                         *)
Fails(r) == /\ ~Is(r, "idle")
            /\ Steps(r, Idle)
            /\ UNCHANGED <<status, approved>>
=============================================================================
