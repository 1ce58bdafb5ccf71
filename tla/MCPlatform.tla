----------------------------- MODULE MCPlatform -----------------------------
(***************************************************************************)
(* The parts of the platform around an order on small instances.  They     *)
(* share no state: the first choice decides which of them moves, and the   *)
(* instances are explored side by side, with the same model values for     *)
(* their requests so that these are alike in all of them.                  *)
(***************************************************************************)
EXTENDS Sessions, AddressChats, ChatHub, Reminders, StoredFiles, AddressPage,
        AddressReviews, OutsidePayments, Notices, TLC

VARIABLE part

Parts == {"sessions", "chats", "hub", "reminders", "files", "page", "reviews", "outside",
          "notices"}

Init == /\ part \in Parts
        /\ InitSessions /\ InitChats /\ InitHub /\ InitReminders
        /\ InitFiles /\ InitPage /\ InitReviews /\ InitOutside /\ InitNotices

Next ==
  \/ part = "sessions" /\ NextSessions
     /\ UNCHANGED <<chatVars, hubVars, reminderVars, fileVars, pageVars, reviewVars, outsideVars, noticeVars, part>>
  \/ part = "chats" /\ NextChats
     /\ UNCHANGED <<sessionVars, hubVars, reminderVars, fileVars, pageVars, reviewVars, outsideVars, noticeVars, part>>
  \/ part = "hub" /\ NextHub
     /\ UNCHANGED <<sessionVars, chatVars, reminderVars, fileVars, pageVars, reviewVars, outsideVars, noticeVars, part>>
  \/ part = "reminders" /\ NextReminders
     /\ UNCHANGED <<sessionVars, chatVars, hubVars, fileVars, pageVars, reviewVars, outsideVars, noticeVars, part>>
  \/ part = "files" /\ NextFiles
     /\ UNCHANGED <<sessionVars, chatVars, hubVars, reminderVars, pageVars, reviewVars, outsideVars, noticeVars, part>>
  \/ part = "page" /\ NextPage
     /\ UNCHANGED <<sessionVars, chatVars, hubVars, reminderVars, fileVars, reviewVars, outsideVars, noticeVars, part>>
  \/ part = "reviews" /\ NextReviews
     /\ UNCHANGED <<sessionVars, chatVars, hubVars, reminderVars, fileVars, pageVars, outsideVars, noticeVars, part>>
  \/ part = "outside" /\ NextOutside
     /\ UNCHANGED <<sessionVars, chatVars, hubVars, reminderVars, fileVars, pageVars, reviewVars, noticeVars, part>>
  \/ part = "notices" /\ NextNotices
     /\ UNCHANGED <<sessionVars, chatVars, hubVars, reminderVars, fileVars, pageVars, reviewVars,
                    outsideVars, part>>

vars == <<part, sessionVars, chatVars, hubVars, reminderVars, fileVars, pageVars,
          reviewVars, outsideVars, noticeVars>>
Spec == Init /\ [][Next]_vars

ThreeDays == 1..3
OneDayBefore == {1}
OnTheDay == {0}

\* Requests are alike, and so are the rows of one table.
Symmetry == Permutations(Reqs) \union Permutations(Sids) \union Permutations(Users)

(* The type invariants of the parts. *)
PlatformTypeOK ==
  /\ SessionsTypeOK /\ ChatsTypeOK /\ RemindersTypeOK /\ FilesTypeOK
  /\ PageTypeOK /\ ReviewsTypeOK /\ OutsideTypeOK /\ NoticesTypeOK
=============================================================================
