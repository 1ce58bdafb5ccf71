--------------------------- MODULE AddressReviews ---------------------------
(***************************************************************************)
(* Clients' reviews of one address: written after a completed order,       *)
(* moderated, edited, deleted, answered by the owner.  As in AddressPage   *)
(* a handler loads the review, then commits; a column it sets to the value *)
(* it loaded is not written.  Texts are left out, and so is the letter to  *)
(* the author about a decision, sent after the commit.                     *)
(***************************************************************************)
CONSTANTS Clients,     \* authors with a completed order: one review each
          Moderators,  \* administrators
          Desks,       \* requests being served at once
          NoBody

ASSUME ReviewsAssumption == NoBody \notin Clients \cup Moderators

VARIABLES review,  \* address_reviews, by author
          desk     \* requests between two of their steps
reviewVars == <<review, desk>>

ReviewRow == [status : {"none", "pending", "published", "rejected"},
              by : Moderators \cup {NoBody}, reply : BOOLEAN]
NoReview == [status |-> "none", by |-> NoBody, reply |-> FALSE]
FreeDesk == [op |-> "none", of |-> NoBody, by |-> NoBody, seen |-> NoReview]

InitReviews == review = [c \in Clients |-> NoReview] /\ desk = [d \in Desks |-> FreeDesk]

Loads(d, op, c, m) ==
  /\ desk[d] = FreeDesk
  /\ desk' = [desk EXCEPT ![d] = [op |-> op, of |-> c, by |-> m, seen |-> review[c]]]
  /\ UNCHANGED review
Closes(d) == desk' = [desk EXCEPT ![d] = FreeDesk]
\* What was loaded before the review was deleted can only fail.
Outdates(d, c) == desk' = [e \in Desks |->
  IF e = d THEN FreeDesk
  ELSE IF desk[e].of = c /\ desk[e].op # "create" THEN [desk[e] EXCEPT !.op = "stale"] ELSE desk[e]]
DeskFails(d) == desk[d] # FreeDesk /\ Closes(d) /\ UNCHANGED review

-----------------------------------------------------------------------------
CreateReads(d, c) == review[c].status = "none" /\ Loads(d, "create", c, NoBody)
\* Address and author are unique: the second of two inserts fails.
CreateWrites(d) ==
  /\ desk[d].op = "create" /\ review[desk[d].of].status = "none"
  /\ review' = [review EXCEPT ![desk[d].of] = [NoReview EXCEPT !.status = "pending"]]
  /\ Closes(d)

Exists(c) == review[c].status # "none"
EditReads(d, c) == Exists(c) /\ Loads(d, "edit", c, NoBody)
ModerateReads(d, c, m) == review[c].status = "pending" /\ Loads(d, "moderate", c, m)
ReplyReads(d, c) ==
  review[c].status = "published" /\ ~review[c].reply /\ Loads(d, "reply", c, NoBody)
DeleteReads(d, c) == Exists(c) /\ Loads(d, "delete", c, NoBody)

\* Back to moderation, with the decision on the old text taken away.
Reopened(seen, row) ==
  [row EXCEPT !.status = IF seen.status = "pending" THEN @ ELSE "pending",
              !.by = IF seen.by = NoBody THEN @ ELSE NoBody]
EditWrites(d) == LET c == desk[d].of IN
  /\ desk[d].op = "edit" /\ Exists(c)
  /\ review' = [review EXCEPT ![c] = Reopened(desk[d].seen, @)]
  /\ Closes(d)

ModerateWrites(d, verdict) == LET c == desk[d].of IN
  /\ desk[d].op = "moderate" /\ Exists(c)
  /\ review' = [review EXCEPT ![c].status = verdict, ![c].by = desk[d].by]
  /\ Closes(d)
ReplyWrites(d) ==
  /\ desk[d].op = "reply" /\ Exists(desk[d].of)
  /\ review' = [review EXCEPT ![desk[d].of].reply = TRUE] /\ Closes(d)
DeleteWrites(d) ==
  /\ desk[d].op = "delete" /\ Exists(desk[d].of)
  /\ review' = [review EXCEPT ![desk[d].of] = NoReview] /\ Outdates(d, desk[d].of)

NextReviews ==
  \/ \E d \in Desks, c \in Clients : \/ CreateReads(d, c) \/ EditReads(d, c)
                                     \/ ReplyReads(d, c) \/ DeleteReads(d, c)
  \/ \E d \in Desks, c \in Clients, m \in Moderators : ModerateReads(d, c, m)
  \/ \E d \in Desks, verdict \in {"published", "rejected"} : ModerateWrites(d, verdict)
  \/ \E d \in Desks : \/ CreateWrites(d) \/ EditWrites(d) \/ ReplyWrites(d)
                      \/ DeleteWrites(d) \/ DeskFails(d)

SpecReviews == InitReviews /\ [][NextReviews]_reviewVars

-----------------------------------------------------------------------------
(* Type invariant. *)
ReviewsTypeOK ==
  /\ review \in [Clients -> ReviewRow]
  /\ desk \in [Desks -> [op : {"none", "create", "edit", "moderate", "reply", "delete", "stale"},
                         of : Clients \cup {NoBody}, by : Moderators \cup {NoBody}, seen : ReviewRow]]

(* A review shows a moderator exactly when it is decided, though edits and *)
(* decisions overwrite one another column by column (update_my_review,     *)
(* moderate_review).                                                       *)
DecisionHasModerator ==
  \A c \in Clients : review[c].by # NoBody <=> review[c].status \in {"published", "rejected"}
=============================================================================
