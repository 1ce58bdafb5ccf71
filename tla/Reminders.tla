----------------------------- MODULE Reminders -----------------------------
(***************************************************************************)
(* The deadline of the stage an application is in, written together with   *)
(* its status, and the mailers cron starts: stage deadlines, the end of a  *)
(* contract, the end of an address document, the day the registration is   *)
(* due.  A mailer looks for the reminders already sent, adds the others    *)
(* and commits; a run that dies leaves nothing, and a run is repeated.  The *)
(* database admits two kinds of personal notices, and the reminder about a *)
(* document is of neither: a run that found one fails when it commits.     *)
(***************************************************************************)
EXTENDS ApplicationWorkflow, Integers, FiniteSets

CONSTANTS Days,         \* calendar (bound)
          MaxRuns,      \* bound: runs of a mailer that have something to commit
          ContractEnds, DocumentEnds, \* their dates
          ContractMilestones, DocumentMilestones, \* days before the end
          Landlords     \* users of the owner's organisation

ASSUME RemindersAssumption ==
  /\ IsFiniteSet(Days) /\ Days = 1..Cardinality(Days) /\ MaxRuns \in Nat
  /\ ContractEnds \in Days /\ DocumentEnds \in Days

VARIABLES today,
          due,        \* applications.sla_due_at: its day, or NoDay
          draft,      \* per request: the deadline it loaded and the one it computed
          expected,   \* applications.registration_expected_on
          confirmed,  \* the registration is confirmed
          working,    \* landlords whose account is active
          mailer,     \* the run under way
          told        \* committed reminders, with the run that sent each
reminderVars == <<workflowVars, today, due, draft, expected, confirmed, working, mailer, told>>
calendarVars == <<today, expected, confirmed, working, mailer, told>>

NoDay == 0
\* Day 1 is a Wednesday.
Workday(d) == (d + 1) % 7 < 5
AddBusinessDays(d, n) ==
  CHOOSE e \in (d + 1)..(d + n + 2) :
    Workday(e) /\ Cardinality({x \in (d + 1)..e : Workday(x)}) = n
SlaRules == [assigned_to_owner |-> <<"owner", 3>>, documents_preparing |-> <<"owner", 2>>,
             documents_revision |-> <<"owner", 1>>, documents_review |-> <<"admin", 1>>,
             admin_review |-> <<"admin", 1>>]
SlaDue(st, d) == IF st \in DOMAIN SlaRules THEN AddBusinessDays(d, SlaRules[st][2]) ELSE NoDay
NoDraft == [seen |-> NoDay, new |-> NoDay]
NoRun == [kind |-> "none", adds |-> {}]

InitReminders ==
  /\ InitWorkflow /\ today = 1 /\ due = NoDay /\ draft = [r \in Requests |-> NoDraft]
  /\ expected = NoDay /\ confirmed = FALSE /\ working = Landlords
  /\ mailer = NoRun /\ told = {}

-----------------------------------------------------------------------------
(* Every move of the application computes the deadline of its new stage.   *)
(* A column that is set to the value it was loaded with is not written.    *)
MoveReads(r, m) ==
  /\ Reads(r, m)
  /\ draft' = [draft EXCEPT ![r] = [seen |-> due, new |-> SlaDue(To(m), today)]]
  /\ UNCHANGED <<due, calendarVars>>
MoveWrites(r) ==
  /\ Writes(r)
  /\ due' = IF draft[r].new = draft[r].seen THEN due ELSE draft[r].new
  /\ draft' = [draft EXCEPT ![r] = NoDraft]
  /\ UNCHANGED calendarVars
MoveFails(r) ==
  /\ Fails(r) /\ draft' = [draft EXCEPT ![r] = NoDraft]
  /\ UNCHANGED <<due, calendarVars>>
\* Payment code writes the status alone.
OrderIsPaid ==
  /\ status = "awaiting_payment" /\ status' = "paid"
  /\ UNCHANGED <<request, approved, due, draft, calendarVars>>

\* The client uploads the tax office's receipt, again after a refusal.
ReceiptUploaded(d) ==
  /\ status \in {"ready_for_client", "completed"} /\ ~confirmed
  /\ expected' = d
  /\ UNCHANGED <<workflowVars, due, draft, today, confirmed, working, mailer, told>>
RegistrationConfirmed ==
  /\ status \in {"ready_for_client", "completed"} /\ ~confirmed /\ confirmed' = TRUE
  /\ UNCHANGED <<workflowVars, due, draft, today, expected, working, mailer, told>>
SwitchLandlord(u) ==
  /\ working' = IF u \in working THEN working \ {u} ELSE working \cup {u}
  /\ UNCHANGED <<workflowVars, due, draft, today, expected, confirmed, mailer, told>>
NextDay ==
  /\ today + 1 \in Days /\ today' = today + 1
  /\ UNCHANGED <<workflowVars, due, draft, expected, confirmed, working, mailer, told>>

-----------------------------------------------------------------------------
(* The mailers.  What was told is looked up by the date and the milestone  *)
(* of a stage, by the milestone of a contract and of a document, by the    *)
(* date of a registration.                                                 *)
Notice(kind, day, left, to) == [kind |-> kind, day |-> day, left |-> left, to |-> to]
AlreadySentAhead(kind, day, left) ==                          \* mutant
  left > 0 /\ \E t \in told : t.notice.kind = kind /\ t.notice.day = day /\ t.notice.left = left
AlreadySent(kind, day, left) ==
  \E t \in told : t.notice.kind = kind /\ t.notice.day = day /\ t.notice.left = left

StageMilestones == {1, 0, -1, -3, -7}
StageNotices == LET left == due - today IN
  IF /\ due # NoDay /\ status \in DOMAIN SlaRules /\ left \in StageMilestones
     /\ ~AlreadySent("stage", due, left)
  THEN {Notice("stage", due, left, to) : to \in
          IF SlaRules[status][1] = "admin" THEN {"admin"}
          ELSE {"owner"} \cup IF left < 0 THEN {"admin"} ELSE {}}
  ELSE {}
ContractNotices == LET left == ContractEnds - today IN
  IF left \in ContractMilestones /\ ~AlreadySent("contract", ContractEnds, left)
  THEN {Notice("contract", ContractEnds, left, to) : to \in {"client", "owner"}} ELSE {}
DocumentNotices == LET left == DocumentEnds - today IN
  IF left \in DocumentMilestones /\ ~AlreadySent("document", DocumentEnds, left)
  THEN {Notice("document", DocumentEnds, left, to) : to \in working} ELSE {}
RegistrationNotices ==
  IF /\ expected # NoDay /\ expected <= today /\ ~confirmed
     /\ status \in {"ready_for_client", "completed"}
     /\ ~AlreadySent("registration", expected, 0)
  THEN {Notice("registration", expected, 0, "admin")} ELSE {}

RunFinds(kind, found) ==
  /\ mailer = NoRun /\ found # {}
  /\ mailer' = [kind |-> kind, adds |-> found]
  /\ UNCHANGED <<workflowVars, due, draft, today, expected, confirmed, working, told>>
RunNumber == Cardinality({t.run : t \in told}) + 1
\* The CHECK constraints of user_notifications: kind and link_type.
CheckAllows(n) == n.kind # "document"
RunCommits ==
  /\ mailer # NoRun /\ RunNumber <= MaxRuns /\ \A n \in mailer.adds : CheckAllows(n)
  /\ told' = told \cup {[run |-> RunNumber, notice |-> n] : n \in mailer.adds}
  /\ mailer' = NoRun
  /\ UNCHANGED <<workflowVars, due, draft, today, expected, confirmed, working>>
RunRefused ==
  /\ \E n \in mailer.adds : ~CheckAllows(n)
  /\ mailer' = NoRun
  /\ UNCHANGED <<workflowVars, due, draft, today, expected, confirmed, working, told>>
RunEnds == RunCommits \/ RunRefused
RunDies ==
  /\ mailer # NoRun /\ mailer' = NoRun
  /\ UNCHANGED <<workflowVars, due, draft, today, expected, confirmed, working, told>>

NextReminders ==
  \/ \E r \in Requests, m \in Moves : MoveReads(r, m)
  \/ \E r \in Requests : MoveWrites(r) \/ MoveFails(r)
  \/ OrderIsPaid \/ RegistrationConfirmed \/ NextDay
  \/ \E d \in Days : ReceiptUploaded(d)
  \/ \E u \in Landlords : SwitchLandlord(u)
  \/ RunFinds("stage", StageNotices) \/ RunFinds("contract", ContractNotices)
  \/ RunFinds("document", DocumentNotices) \/ RunFinds("registration", RegistrationNotices)
  \/ RunEnds \/ RunDies

SpecReminders == InitReminders /\ [][NextReminders]_reminderVars

-----------------------------------------------------------------------------
(* Type invariant. *)
RemindersTypeOK ==
  /\ today \in Days /\ due \in Nat /\ expected \in Days \cup {NoDay}
  /\ draft \in [Requests -> [seen : Nat, new : Nat]]
  /\ confirmed \in BOOLEAN /\ working \subseteq Landlords
  /\ mailer.kind \in {"none", "stage", "contract", "document", "registration"}
  /\ \A t \in told : t.run \in 1..MaxRuns

(* One date, one milestone, one addressee: one reminder, however often     *)
(* cron repeats a mailer, on the same day or after a run that died, and    *)
(* whatever stages were moved in between (_already_sent,                   *)
(* _existing_reminder_milestones, _reminded).                              *)
OneReminderPerMilestone == \A s, t \in told : s.notice = t.notice => s.run = t.run

(* What the documentation says and the code does not do: a run that comes  *)
(* to its end has told those concerned what it found                       *)
(* (document_expiry_reminders.py: the owners are notified).                *)
FoundIsTold ==
  [][RunEnds => \A n \in mailer.adds : \E t \in told' : t.notice = n]_reminderVars
=============================================================================
