----------------------------- MODULE Onboarding -----------------------------
(***************************************************************************)
(* How accounts come to be: the first administrator, an invitation, a      *)
(* public application, an owner's connection request; and how an e-mail is *)
(* confirmed.  No handler locks what it read, only users.email is unique   *)
(* in the database, and letters leave before the transaction commits.      *)
(***************************************************************************)
EXTENDS Naturals, FiniteSets

CONSTANTS ConnRequests, \* provider_connection_requests (bound)
          Invitations,  \* invitations (bound)
          Accounts,     \* users (bound)
          Mailboxes,    \* e-mail addresses
          Tokens,       \* confirmation tokens (bound)
          Visitors,     \* requests being served at once
          Nothing

ASSUME OnboardingAssumption == Nothing \notin ConnRequests \cup Invitations \cup Mailboxes

VARIABLES conn,   \* connection requests
          inv,    \* invitations
          acct,   \* committed users
          mailed, \* confirmation letters sent: token and mailbox
          visit   \* requests between two of their steps
onboardingVars == <<conn, inv, acct, mailed, visit>>

ConnRow == [status : {"none", "new", "reviewing", "invited", "rejected"},
            email : Mailboxes \cup {Nothing}, inv : Invitations \cup {Nothing}]
InvRow == [email : Mailboxes \cup {Nothing}, state : {"none", "open", "late", "accepted"},
           from : ConnRequests \cup {Nothing}]
AcctRow == [email : Mailboxes \cup {Nothing}, by : Invitations \cup {Nothing},
            verified : BOOLEAN, token : Tokens \cup {Nothing},
            sent : {"never", "just", "recently", "late"}]
Visit == [op : {"none", "bootstrap", "accept", "apply", "applying", "issue", "issuing",
                "confirm", "review", "approve"},
          on : ConnRequests \cup Invitations \cup Mailboxes \cup Accounts \cup {Nothing},
          arg : Tokens \cup {"reviewing", "rejected", Nothing}]
NoVisit == [op |-> "none", on |-> Nothing, arg |-> Nothing]

InitOnboarding ==
  /\ conn = [q \in ConnRequests |-> [status |-> "none", email |-> Nothing, inv |-> Nothing]]
  /\ inv = [i \in Invitations |-> [email |-> Nothing, state |-> "none", from |-> Nothing]]
  /\ acct = [a \in Accounts |-> [email |-> Nothing, by |-> Nothing, verified |-> FALSE,
                                 token |-> Nothing, sent |-> "never"]]
  /\ mailed = {}
  /\ visit = [v \in Visitors |-> NoVisit]

Enter(v, op, on, arg) ==
  visit[v] = NoVisit /\ visit' = [visit EXCEPT ![v] = [op |-> op, on |-> on, arg |-> arg]]
Leave(v) == visit' = [visit EXCEPT ![v] = NoVisit]
Registered == {a \in Accounts : acct[a].email # Nothing}
EmailTaken(e) == \E a \in Registered : acct[a].email = e
\* A public application has inserted the e-mail and not committed: others wait.
EmailHeld(e) == \E v \in Visitors : visit[v].op = "applying" /\ visit[v].on = e
MayPersistUnchecked(a, e) == acct[a].email = Nothing /\ ~EmailHeld(e)  \* mutant
\* try_persist_user: the unique index decides, at the end.
MayPersist(a, e) == acct[a].email = Nothing /\ ~EmailTaken(e) /\ ~EmailHeld(e)
Refused(v, e) == EmailTaken(e) /\ Leave(v) /\ UNCHANGED <<conn, inv, acct, mailed>>
NewAccount(e, i) == [email |-> e, by |-> i, verified |-> FALSE, token |-> Nothing, sent |-> "never"]

-----------------------------------------------------------------------------
(* The first administrator *)
BootstrapReads(v, e) ==
  /\ Registered = {} /\ Enter(v, "bootstrap", e, Nothing) /\ UNCHANGED <<conn, inv, acct, mailed>>
BootstrapEnds(v, a) ==
  /\ visit[v].op = "bootstrap"
  /\ \/ /\ MayPersist(a, visit[v].on)
        /\ acct' = [acct EXCEPT ![a] = NewAccount(visit[v].on, Nothing)]
        /\ Leave(v) /\ UNCHANGED <<conn, inv, mailed>>
     \/ Refused(v, visit[v].on)

(* Invitations *)
CreateInvitation(i, e) ==
  /\ Registered # {} /\ inv[i].state = "none"
  /\ inv' = [inv EXCEPT ![i] = [email |-> e, state |-> "open", from |-> Nothing]]
  /\ UNCHANGED <<conn, acct, mailed, visit>>
InvitationExpires(i) ==
  /\ inv[i].state = "open" /\ inv' = [inv EXCEPT ![i].state = "late"]
  /\ UNCHANGED <<conn, acct, mailed, visit>>
AcceptReads(v, i) ==
  /\ inv[i].state = "open" /\ ~EmailTaken(inv[i].email)
  /\ Enter(v, "accept", i, Nothing) /\ UNCHANGED <<conn, inv, acct, mailed>>
AcceptEnds(v, a) ==
  /\ visit[v].op = "accept"
  /\ LET i == visit[v].on IN
     \/ /\ MayPersist(a, inv[i].email)
        /\ acct' = [acct EXCEPT ![a] = NewAccount(inv[i].email, i)]
        /\ inv' = [inv EXCEPT ![i].state = "accepted"]
        /\ Leave(v) /\ UNCHANGED <<conn, mailed>>
     \/ Refused(v, inv[i].email)

(* Connection requests *)
CreateProviderRequest(q, e) ==
  /\ conn[q].status = "none"
  /\ conn' = [conn EXCEPT ![q] = [status |-> "new", email |-> e, inv |-> Nothing]]
  /\ UNCHANGED <<inv, acct, mailed, visit>>
TransitionAllowed(q, target) ==
  conn[q].status \in {"new", "reviewing"} /\ conn[q].status # target
ReviewReads(v, q, target) ==
  /\ TransitionAllowed(q, target)
  /\ Enter(v, "review", q, target) /\ UNCHANGED <<conn, inv, acct, mailed>>
ReviewedWholeRow(row, target) == [row EXCEPT !.status = target, !.inv = Nothing]  \* mutant
\* Only the columns the handler changed are written.
ReviewedRow(row, target) == [row EXCEPT !.status = target]
ReviewEnds(v) ==
  /\ visit[v].op = "review"
  /\ conn' = [conn EXCEPT ![visit[v].on] = ReviewedRow(@, visit[v].arg)]
  /\ Leave(v) /\ UNCHANGED <<inv, acct, mailed>>
ApproveReads(v, q) ==
  /\ TransitionAllowed(q, "invited") /\ ~EmailTaken(conn[q].email)
  /\ Enter(v, "approve", q, Nothing) /\ UNCHANGED <<conn, inv, acct, mailed>>
\* The owner's row, the invitation and the status in one transaction.
ApproveEnds(v, i) ==
  /\ visit[v].op = "approve" /\ inv[i].state = "none"
  /\ LET q == visit[v].on IN
     /\ inv' = [inv EXCEPT ![i] = [email |-> conn[q].email, state |-> "open", from |-> q]]
     /\ conn' = [conn EXCEPT ![q].status = "invited", ![q].inv = i]
  /\ Leave(v) /\ UNCHANGED <<acct, mailed>>
\* The code of the owner is taken already.
ApproveFails(v) ==
  visit[v].op = "approve" /\ Leave(v) /\ UNCHANGED <<conn, inv, acct, mailed>>

(* A public application: account, letter and application in one transaction *)
FreshToken(t) ==
  /\ \A m \in mailed : m[1] # t
ApplyReads(v, e) ==
  /\ ~EmailTaken(e) /\ Enter(v, "apply", e, Nothing) /\ UNCHANGED <<conn, inv, acct, mailed>>
ApplyMails(v, t) ==
  /\ visit[v].op = "apply" /\ ~EmailHeld(visit[v].on)
  /\ \/ Refused(v, visit[v].on)
     \/ /\ ~EmailTaken(visit[v].on) /\ FreshToken(t)
        /\ mailed' = mailed \cup {<<t, visit[v].on>>}
        /\ visit' = [visit EXCEPT ![v].op = "applying", ![v].arg = t]
        /\ UNCHANGED <<conn, inv, acct>>
ApplyCommits(v, a) ==
  /\ visit[v].op = "applying" /\ acct[a].email = Nothing
  /\ acct' = [acct EXCEPT ![a] = [NewAccount(visit[v].on, Nothing) EXCEPT
                                  !.token = visit[v].arg, !.sent = "just"]]
  /\ Leave(v) /\ UNCHANGED <<conn, inv, mailed>>
\* The company register does not answer, or a constraint is broken.
ApplyFails(v) ==
  visit[v].op = "applying" /\ Leave(v) /\ UNCHANGED <<conn, inv, acct, mailed>>

(* Confirming the e-mail *)
RowHeld(a) == \E v \in Visitors : visit[v].op = "issuing" /\ visit[v].on = a
MayIssue(a) == a \in Registered /\ ~acct[a].verified /\ acct[a].sent # "just"
IssueReads(v, a) ==
  MayIssue(a) /\ Enter(v, "issue", a, Nothing) /\ UNCHANGED <<conn, inv, acct, mailed>>
IssueMails(v, t) ==
  /\ visit[v].op = "issue" /\ ~RowHeld(visit[v].on) /\ FreshToken(t)
  /\ mailed' = mailed \cup {<<t, acct[visit[v].on].email>>}
  /\ visit' = [visit EXCEPT ![v].op = "issuing", ![v].arg = t]
  /\ UNCHANGED <<conn, inv, acct>>
IssueCommits(v) ==
  /\ visit[v].op = "issuing"
  /\ acct' = [acct EXCEPT ![visit[v].on].token = visit[v].arg, ![visit[v].on].sent = "just"]
  /\ Leave(v) /\ UNCHANGED <<conn, inv, mailed>>
\* The link of a letter is opened; an expired one is refused.
ConfirmReads(v, t, a) ==
  /\ a \in Registered /\ acct[a].token = t
  /\ acct[a].verified \/ acct[a].sent # "late"
  /\ Enter(v, "confirm", a, t) /\ UNCHANGED <<conn, inv, acct, mailed>>
ConfirmEnds(v) ==
  /\ visit[v].op = "confirm" /\ ~RowHeld(visit[v].on)
  /\ acct' = [acct EXCEPT ![visit[v].on].token = Nothing, ![visit[v].on].verified = TRUE]
  /\ Leave(v) /\ UNCHANGED <<conn, inv, mailed>>
LetterAges(a) ==
  /\ acct[a].sent \in {"just", "recently"}
  /\ acct' = [acct EXCEPT ![a].sent = IF @ = "just" THEN "recently" ELSE "late"]
  /\ UNCHANGED <<conn, inv, mailed, visit>>

NextOnboarding ==
  \/ \E v \in Visitors, e \in Mailboxes : BootstrapReads(v, e) \/ ApplyReads(v, e)
  \/ \E v \in Visitors, a \in Accounts : \/ BootstrapEnds(v, a) \/ AcceptEnds(v, a)
                                         \/ ApplyCommits(v, a) \/ IssueReads(v, a)
  \/ \E i \in Invitations, e \in Mailboxes : CreateInvitation(i, e)
  \/ \E i \in Invitations : InvitationExpires(i)
  \/ \E v \in Visitors, i \in Invitations : AcceptReads(v, i) \/ ApproveEnds(v, i)
  \/ \E q \in ConnRequests, e \in Mailboxes : CreateProviderRequest(q, e)
  \/ \E v \in Visitors, q \in ConnRequests, t \in {"reviewing", "rejected"} : ReviewReads(v, q, t)
  \/ \E v \in Visitors, q \in ConnRequests : ApproveReads(v, q)
  \/ \E v \in Visitors, t \in Tokens : ApplyMails(v, t) \/ IssueMails(v, t)
  \/ \E v \in Visitors, t \in Tokens, a \in Accounts : ConfirmReads(v, t, a)
  \/ \E v \in Visitors : \/ ReviewEnds(v) \/ ApproveFails(v) \/ ApplyFails(v)
                         \/ IssueCommits(v) \/ ConfirmEnds(v)
  \/ \E a \in Accounts : LetterAges(a)

SpecOnboarding == InitOnboarding /\ [][NextOnboarding]_onboardingVars

-----------------------------------------------------------------------------
(* Type invariant. *)
OnboardingTypeOK ==
  /\ conn \in [ConnRequests -> ConnRow] /\ inv \in [Invitations -> InvRow]
  /\ acct \in [Accounts -> AcctRow] /\ mailed \subseteq Tokens \X Mailboxes
  /\ visit \in [Visitors -> Visit]

(* An invitation that is used made exactly one account, however many       *)
(* people open it at once and whatever else registers that e-mail at the   *)
(* same moment; no account exists without its invitation being used        *)
(* (accept_invitation, try_persist_user).                                  *)
InvitationMakesOneAccount ==
  /\ \A i \in Invitations : LET made == {a \in Registered : acct[a].by = i} IN
        Cardinality(made) = IF inv[i].state = "accepted" THEN 1 ELSE 0
  /\ \A a, b \in Registered : acct[a].email = acct[b].email => a = b

(* An owner's account leads back to the request it was onboarded by: the   *)
(* request keeps an invitation of its own, whatever reviews and approvals  *)
(* were committed over one another (approve_provider_request,              *)
(* update_provider_request_status).                                        *)
OwnersLeadBackToRequest ==
  /\ \A i \in Invitations : LET q == inv[i].from IN
        q # Nothing => conn[q].inv # Nothing /\ inv[conn[q].inv].from = q
  /\ \A q \in ConnRequests : conn[q].status = "invited" => conn[q].inv # Nothing
=============================================================================
