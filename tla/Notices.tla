------------------------------ MODULE Notices ------------------------------
(***************************************************************************)
(* The inbox: events of an application, one row for everybody of its       *)
(* audience, and personal notices, with a link that is kept only for those *)
(* it opens for.  The rule who sees what is written down four times, in    *)
(* the query, in the check of its rows, for the link and on the page it    *)
(* leads to.  With it the errands staff give an owner's organisation, read *)
(* and then written without a lock.                                        *)
(***************************************************************************)
CONSTANTS People,  \* accounts
          Orgs,    \* owners' organisations
          Errands, \* rows of owner_tasks (bound)
          Hands,   \* requests being served at once
          Nobody   \* no account, no organisation

ASSUME NoticesAssumption == Nobody \notin People \cup Orgs

VARIABLES account, \* users: role, provider_id, is_active
          filed,   \* one application: created_by, provider_id
          talk,    \* one chat: its client, the organisation of its address
          event,   \* application_events by audience: is_read
          notice,  \* user_notifications by addressee: the kept link, read_at
          errand,  \* owner_tasks
          hand     \* requests between reading an errand and writing it
noticeVars == <<account, filed, talk, event, notice, errand, hand>>

Roles == {"client", "owner", "staff"}
Audiences == {"client", "owner", "admin"}
Account == [role : Roles \cup {"none"}, org : Orgs \cup {Nobody}, active : BOOLEAN]
NoAccount == [role |-> "none", org |-> Nobody, active |-> FALSE]
Between == [by : People \cup {Nobody}, org : Orgs \cup {Nobody}]
NoOrder == [by |-> Nobody, org |-> Nobody]
Errand == [org : Orgs \cup {Nobody}, status : {"none", "open", "done", "cancelled"}]
FreeHand == [op |-> "none", of |-> Nobody]

InitNotices ==
  /\ account = [u \in People |-> NoAccount] /\ filed = NoOrder /\ talk = NoOrder
  /\ event = [a \in Audiences |-> "none"]
  /\ notice = [u \in People |-> [link |-> "none", read |-> FALSE]]
  /\ errand = [e \in Errands |-> [org |-> Nobody, status |-> "none"]]
  /\ hand = [h \in Hands |-> FreeHand]

-----------------------------------------------------------------------------
(* Accounts, the application and the chat are made elsewhere (Onboarding,  *)
(* AddressChats).  An owner who came by an invitation has no organisation. *)
AccountOpens(u, r, o) ==
  /\ account[u].role = "none" /\ (r = "owner" \/ o = Nobody)
  /\ account' = [account EXCEPT ![u] = [role |-> r, org |-> o, active |-> TRUE]]
  /\ UNCHANGED <<filed, talk, event, notice, errand, hand>>
SwitchAccount(u) ==
  /\ account[u].role # "none" /\ account' = [account EXCEPT ![u].active = ~@]
  /\ UNCHANGED <<filed, talk, event, notice, errand, hand>>
MayBe(u, r) == u # Nobody => account[u].role = r
\* A client's application, or one entered by staff for nobody's account.
OrderMade(u, o) ==
  /\ filed = NoOrder /\ MayBe(u, "client") /\ filed' = [by |-> u, org |-> o]
  /\ UNCHANGED <<account, talk, event, notice, errand, hand>>
TalkOpened(u, o) ==
  /\ talk = NoOrder /\ u # Nobody /\ MayBe(u, "client") /\ talk' = [by |-> u, org |-> o]
  /\ UNCHANGED <<account, filed, event, notice, errand, hand>>

-----------------------------------------------------------------------------
(* Who may open what *)
IsStaff(u) == account[u].role = "staff"
IsOwnerOf(u, o) == account[u].role = "owner" /\ account[u].org # Nobody /\ account[u].org = o
IsParticipant(u) == u = talk.by \/ IsOwnerOf(u, talk.org) \/ IsStaff(u)
MayOpenOrder(u) ==
  IsStaff(u) \/ IsOwnerOf(u, filed.org) \/ (account[u].role = "client" /\ u = filed.by)
\* Staff take part in the chat, and their link to it is dropped all the same.
MayFollow(u, link) ==
  /\ account[u].active
  /\ link = "chat" => u = talk.by \/ IsOwnerOf(u, talk.org)
  /\ link = "application" => MayOpenOrder(u)

AudienceOf(u) == CASE IsStaff(u) -> "admin"
                   [] account[u].role = "client" -> "client"
                   [] OTHER -> "owner"
\* _base_notification_statement; no row is joined before there is an application.
SelectsUnattached(u, a) ==                                    \* mutant
  /\ event[a] # "none" /\ a = AudienceOf(u)
  /\ account[u].role = "client" => filed.by = u
  /\ account[u].role = "owner" => account[u].org = Nobody \/ account[u].org = filed.org
Selects(u, a) ==
  /\ event[a] # "none" /\ a = AudienceOf(u)
  /\ account[u].role = "client" => filed.by = u
  /\ account[u].role = "owner" => IsOwnerOf(u, filed.org)
VisibleTo(u, a) ==
  /\ a = AudienceOf(u)
  /\ \/ IsStaff(u)
     \/ account[u].role = "client" /\ filed.by = u
     \/ IsOwnerOf(u, filed.org)
Listed(u) == {a \in Audiences : Selects(u, a) /\ VisibleTo(u, a)}
CountedUnread(u) == {a \in Audiences : Selects(u, a) /\ event[a] = "unread"}

-----------------------------------------------------------------------------
(* Events and notices.  A mark on an event is everybody's.                 *)
EventWritten(a) ==
  /\ filed # NoOrder /\ event[a] = "none" /\ event' = [event EXCEPT ![a] = "unread"]
  /\ UNCHANGED <<account, filed, talk, notice, errand, hand>>
\* write_user_notification of a new message to the participants it is told.
NoticeWritten(u) ==
  /\ talk # NoOrder /\ IsParticipant(u)
  /\ notice' = [notice EXCEPT ![u] =
       [link |-> IF MayFollow(u, "chat") THEN "chat" ELSE "dropped", read |-> FALSE]]
  /\ UNCHANGED <<account, filed, talk, event, errand, hand>>
MarkEventRead(u, a) ==
  /\ account[u].active /\ a \in Listed(u)
  /\ event' = [event EXCEPT ![a] = "read"]
  /\ UNCHANGED <<account, filed, talk, notice, errand, hand>>
MarkNoticeRead(u) ==
  /\ account[u].active /\ notice[u].link # "none" /\ notice' = [notice EXCEPT ![u].read = TRUE]
  /\ UNCHANGED <<account, filed, talk, event, errand, hand>>

-----------------------------------------------------------------------------
(* Errands.  The database refuses the notice about an errand, and with it  *)
(* the errand itself: only an organisation without an owner at work can be *)
(* given one.                                                              *)
ErrandGiven(e, o) ==
  /\ errand[e].status = "none"
  /\ ~ \E u \in People : IsOwnerOf(u, o) /\ account[u].active
  /\ errand' = [errand EXCEPT ![e] = [org |-> o, status |-> "open"]]
  /\ UNCHANGED <<account, filed, talk, event, notice, hand>>
ErrandReads(h, e, op) ==
  /\ hand[h] = FreeHand /\ errand[e].status = "open"
  /\ hand' = [hand EXCEPT ![h] = [op |-> op, of |-> e]]
  /\ UNCHANGED <<account, filed, talk, event, notice, errand>>
CompleteReads(h, e, u) ==
  IsOwnerOf(u, errand[e].org) /\ account[u].active /\ ErrandReads(h, e, "done")
CancelReads(h, e, u) == IsStaff(u) /\ account[u].active /\ ErrandReads(h, e, "cancelled")
ErrandWrites(h) ==
  /\ hand[h] # FreeHand
  /\ errand' = [errand EXCEPT ![hand[h].of].status = hand[h].op]
  /\ hand' = [hand EXCEPT ![h] = FreeHand]
  /\ UNCHANGED <<account, filed, talk, event, notice>>

NextNotices ==
  \/ \E u \in People, r \in Roles, o \in Orgs \cup {Nobody} : AccountOpens(u, r, o)
  \/ \E u \in People \cup {Nobody}, o \in Orgs : OrderMade(u, o) \/ TalkOpened(u, o)
  \/ \E u \in People : SwitchAccount(u) \/ NoticeWritten(u) \/ MarkNoticeRead(u)
  \/ \E a \in Audiences : EventWritten(a)
  \/ \E u \in People, a \in Audiences : MarkEventRead(u, a)
  \/ \E e \in Errands, o \in Orgs : ErrandGiven(e, o)
  \/ \E h \in Hands, e \in Errands, u \in People : CompleteReads(h, e, u) \/ CancelReads(h, e, u)
  \/ \E h \in Hands : ErrandWrites(h)

SpecNotices == InitNotices /\ [][NextNotices]_noticeVars

-----------------------------------------------------------------------------
(* Type invariant. *)
NoticesTypeOK ==
  /\ account \in [People -> Account] /\ filed \in Between /\ talk \in Between
  /\ event \in [Audiences -> {"none", "unread", "read"}]
  /\ notice \in [People -> [link : {"none", "dropped", "chat"}, read : BOOLEAN]]
  /\ errand \in [Errands -> Errand]
  /\ hand \in [Hands -> [op : {"none", "done", "cancelled"}, of : Errands \cup {Nobody}]]

(* Whatever the inbox shows a user leads to a page that lets him in, the   *)
(* badge counts what the list shows, and a link kept when the notice was   *)
(* written still opens, though the four rules are four pieces of code      *)
(* (list_user_notifications, count_unread_notifications,                   *)
(* _user_can_access_link, ensure_application_access, is_participant).      *)
Registered == {u \in People : account[u].role # "none"}
ShownCanBeOpened == \A u \in Registered :
  /\ Listed(u) # {} => MayOpenOrder(u)
  /\ CountedUnread(u) = {a \in Listed(u) : event[a] = "unread"}
  /\ notice[u].link = "chat" => IsParticipant(u)
=============================================================================
