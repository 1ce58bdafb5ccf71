---------------------------- MODULE AddressChats ----------------------------
(***************************************************************************)
(* One thread of correspondence: how it is opened, how messages are        *)
(* committed, and what a reader has not read.  Marks of reading are read   *)
(* and written without a lock.  The session does not flush by itself: a    *)
(* handler writes at its commit, while created_at is the start of its      *)
(* transaction.  What happens after the commit is ChatHub.                 *)
(***************************************************************************)
EXTENDS Naturals, FiniteSets

CONSTANTS Readers,    \* participants of the thread: client, owners, staff
          Client,     \* the one of them who may open it from the catalogue
          Messages,   \* messages (bound)
          Posters,    \* requests being served at once
          MaxTime,    \* bound of the clock
          NoOne       \* no user, no message

ASSUME AddressChatsAssumption ==
  Client \in Readers /\ NoOne \notin Readers /\ NoOne \notin Messages /\ MaxTime \in Nat

VARIABLES offered,  \* the address is published and available
          thread,   \* address_chats has the row of the pair
          msg,      \* address_chat_messages: author, created_at, committed
          mark,     \* chat_reads.last_read_at; 0 when there is no row
          post,     \* requests between two of their steps
          clock,    \* the last time stamp given; no two are equal
          seen      \* history: when a reader's mark was committed, the messages that
                    \* were committed, and those whose transaction was open
chatVars == <<offered, thread, msg, mark, post, clock, seen>>

AtEase == [op |-> "none", user |-> NoOne, msg |-> NoOne, saw |-> 0, when |-> 0]

InitChats ==
  /\ offered = TRUE /\ thread = FALSE
  /\ msg = [m \in Messages |-> [author |-> NoOne, at |-> 0, kept |-> FALSE]]
  /\ mark = [u \in Readers |-> 0]
  /\ post = [p \in Posters |-> AtEase]
  /\ clock = 0
  /\ seen = [u \in Readers |-> [kept |-> {}, open |-> {}]]

Serve(p, rec) == post[p] = AtEase /\ post' = [post EXCEPT ![p] = rec]
Served(p) == post' = [post EXCEPT ![p] = AtEase]
Kept == {m \in Messages : msg[m].kept}
InProgress == {post[p].msg : p \in {q \in Posters : post[q].op \in {"post", "posting"}}}
Stamp == clock < MaxTime /\ clock' = clock + 1

-----------------------------------------------------------------------------
(* The thread.  From the catalogue only the client opens a new one and only *)
(* while the address is offered; from an application any participant does.  *)
(* The second of two who insert the pair breaks the unique constraint.      *)
OpenReads(p, u) ==
  /\ ~thread
  /\ Serve(p, [AtEase EXCEPT !.op = "open", !.user = u])
  /\ UNCHANGED <<offered, thread, msg, mark, clock, seen>>
OpenFromCatalogue(p) == offered /\ OpenReads(p, Client)
OpenFromApplication(p, u) == OpenReads(p, u)
OpenEnds(p) ==
  /\ post[p].op = "open"
  /\ thread' = TRUE
  /\ Served(p) /\ UNCHANGED <<offered, msg, mark, clock, seen>>
OfferChanges ==
  /\ ~thread /\ offered' = ~offered
  /\ UNCHANGED <<thread, msg, mark, post, clock, seen>>

-----------------------------------------------------------------------------
(* Reading: mark_read and unread_counts *)
\* A row that another request made meanwhile is a broken constraint.
MarkBreaks(p) == post[p].saw = 0 /\ mark[post[p].user] # 0
Marked(p) == LET u == post[p].user IN
  IF post[p].saw = 0 \/ post[p].when > post[p].saw
  THEN [mark EXCEPT ![u] = post[p].when] ELSE mark
Covered(p) == [seen EXCEPT ![post[p].user] =
                [kept |-> Kept \cup {post[p].msg}, open |-> InProgress]]

MarkReads(p, u) ==
  /\ thread /\ Stamp
  /\ Serve(p, [AtEase EXCEPT !.op = "mark", !.user = u, !.saw = mark[u], !.when = clock'])
  /\ UNCHANGED <<offered, thread, msg, mark, seen>>
MarkEnds(p) ==
  /\ post[p].op = "mark"
  /\ \/ MarkBreaks(p) /\ UNCHANGED <<mark, seen>>
     \/ ~MarkBreaks(p) /\ mark' = Marked(p) /\ seen' = Covered(p)
  /\ Served(p) /\ UNCHANGED <<offered, thread, msg, clock>>

UnreadIfEverRead(u) == {m \in Kept : mark[u] > 0 /\ msg[m].author # u /\ msg[m].at > mark[u]}  \* mutant
Unread(u) == {m \in Kept : msg[m].author # u /\ msg[m].at > mark[u]}

-----------------------------------------------------------------------------
(* Posting, with or without files *)
PostStarts(p, u, m) ==
  /\ thread /\ msg[m].author = NoOne /\ Stamp
  /\ Serve(p, [AtEase EXCEPT !.op = "post", !.user = u, !.msg = m])
  /\ msg' = [msg EXCEPT ![m].author = u, ![m].at = clock']
  /\ UNCHANGED <<offered, thread, mark, seen>>
\* A file is refused or the storage fails.
PostRefused(p) ==
  /\ post[p].op = "post"
  /\ Served(p) /\ UNCHANGED <<offered, thread, msg, mark, clock, seen>>
PostReadsMark(p) ==
  /\ post[p].op = "post" /\ Stamp
  /\ post' = [post EXCEPT ![p].op = "posting", ![p].saw = mark[post[p].user], ![p].when = clock']
  /\ UNCHANGED <<offered, thread, msg, mark, seen>>
\* Message and mark in one transaction: a broken mark takes the message along.
PostCommits(p) ==
  /\ post[p].op = "posting"
  /\ \/ MarkBreaks(p) /\ UNCHANGED <<msg, mark, seen>>
     \/ /\ ~MarkBreaks(p)
        /\ msg' = [msg EXCEPT ![post[p].msg].kept = TRUE]
        /\ mark' = Marked(p) /\ seen' = Covered(p)
  /\ Served(p) /\ UNCHANGED <<offered, thread, clock>>

NextChats ==
  \/ \E p \in Posters, u \in Readers : OpenFromApplication(p, u) \/ MarkReads(p, u)
  \/ \E p \in Posters : \/ OpenFromCatalogue(p) \/ OpenEnds(p) \/ MarkEnds(p)
                        \/ PostRefused(p) \/ PostReadsMark(p) \/ PostCommits(p)
  \/ \E p \in Posters, u \in Readers, m \in Messages : PostStarts(p, u, m)
  \/ OfferChanges

SpecChats == InitChats /\ [][NextChats]_chatVars

-----------------------------------------------------------------------------
(* Type invariant. *)
ChatsTypeOK ==
  /\ offered \in BOOLEAN /\ thread \in BOOLEAN /\ clock \in 0..MaxTime
  /\ msg \in [Messages -> [author : Readers \cup {NoOne}, at : 0..MaxTime, kept : BOOLEAN]]
  /\ mark \in [Readers -> 0..MaxTime]
  /\ post \in [Posters -> [op : {"none", "open", "mark", "post", "posting"},
                           user : Readers \cup {NoOne}, msg : Messages \cup {NoOne},
                           saw : 0..MaxTime, when : 0..MaxTime]]
  /\ seen \in [Readers -> [kept : SUBSET (Messages \cup {NoOne}), open : SUBSET Messages]]

(* What the count of unread messages can lose: a message of another that a *)
(* reader's last committed mark did not cover is counted, unless its       *)
(* transaction was open at that moment (unread_counts, mark_read).         *)
OnlyOpenMessagesAreLost ==
  \A u \in Readers : \A m \in Kept \ (seen[u].kept \cup seen[u].open) :
     msg[m].author = u \/ m \in Unread(u)
=============================================================================
