--------------------------- MODULE PlatformProofs ---------------------------
(***************************************************************************)
(* The parts around an order, for any accounts, sessions, threads, files   *)
(* and requests at once.  They share no state, so each is proved alone,    *)
(* from an inductive invariant of its own; the last section puts them side *)
(* by side again, as MCPlatform explores them.                             *)
(***************************************************************************)
EXTENDS FiniteSetTheorems, MCPlatform, TLAPS

Refreshing(r) == req[r].op \in {"refresh", "refreshed"}

(* A refresh under way holds a row nobody closes, and holds it alone:      *)
(* without this two of them could open a session from one token.           *)
HeldIsOpen == \A r \in Reqs : Refreshing(r) =>
  /\ req[r].sid \in Sids /\ ~sess[req[r].sid].revoked
  /\ sess[req[r].sid].user # None /\ req[r].user = sess[req[r].sid].user
OneHolder == \A r, q \in Reqs : Refreshing(r) /\ Refreshing(q) /\ req[r].sid = req[q].sid => r = q
(* What a handler that switches an account off is not going to close has   *)
(* been closed before.                                                     *)
DisableKnows == \A r \in Reqs : req[r].op = "disable" =>
  \A s \in req[r].all : s \in req[r].list \/ sess[s].revoked
SessionsInv == /\ SessionsTypeOK /\ HeldIsOpen /\ OneHolder /\ DisableKnows
               /\ OneHeirPerRefresh /\ DisableCutsForGood

-----------------------------------------------------------------------------
(* Rows *)
LEMMA RevokedRowsTyped ==
  ASSUME sess \in [Sids -> SessionRow], NEW S \in SUBSET Sids
  PROVE  /\ WithRevoked(S) \in [Sids -> SessionRow]
         /\ \A s \in Sids : /\ WithRevoked(S)[s].user = sess[s].user
                            /\ WithRevoked(S)[s].heirOf = sess[s].heirOf
                            /\ WithRevoked(S)[s].revoked = (s \in S \/ sess[s].revoked)
<1>1. ASSUME NEW s \in Sids
      PROVE  /\ [sess[s] EXCEPT !.revoked = TRUE] \in SessionRow
             /\ [sess[s] EXCEPT !.revoked = TRUE].user = sess[s].user
             /\ [sess[s] EXCEPT !.revoked = TRUE].heirOf = sess[s].heirOf
             /\ [sess[s] EXCEPT !.revoked = TRUE].revoked = TRUE
  BY DEF SessionRow
<1>2. ASSUME NEW s \in Sids
      PROVE  sess[s].revoked \in BOOLEAN
  BY DEF SessionRow
<1> QED BY <1>1, <1>2 DEF WithRevoked

LEMMA NewRowTyped ==
  ASSUME NEW u \in Users \cup {None}, NEW f \in Sids \cup {None}
  PROVE  NewSession(u, f) \in SessionRow
  BY DEF NewSession, SessionRow

-----------------------------------------------------------------------------
(* Requests that begin: nothing but the request changes. *)
LEMMA BeginTyped ==
  ASSUME SessionsInv, NEW r \in Reqs, NEW rec \in SessionRequest, rec.list \subseteq rec.all,
         Begins(r, rec), UNCHANGED <<active, sess, cut>>,
         rec.op \in {"refresh", "refreshed"} =>
           /\ rec.sid \in Sids /\ ~sess[rec.sid].revoked /\ ~Locked(rec.sid)
           /\ sess[rec.sid].user # None /\ rec.user = sess[rec.sid].user,
         rec.op = "disable" => \A s \in rec.all : s \in rec.list \/ sess[s].revoked
  PROVE  SessionsInv'
<1>1. req \in [Reqs -> SessionRequest] /\ req' = [req EXCEPT ![r] = rec]
  BY DEF SessionsInv, SessionsTypeOK, Begins
<1>2. \A q \in Reqs : req'[q] = IF q = r THEN rec ELSE req[q]
  BY <1>1
<1>3. SessionsTypeOK'
  BY <1>1, <1>2 DEF SessionsInv, SessionsTypeOK
<1>4. HeldIsOpen'
  BY <1>2 DEF SessionsInv, HeldIsOpen, Refreshing
<1>5. OneHolder'
  BY <1>2 DEF SessionsInv, OneHolder, Refreshing, Locked
<1>6. DisableKnows'
  BY <1>2 DEF SessionsInv, DisableKnows
<1>7. OneHeirPerRefresh' /\ DisableCutsForGood'
  BY DEF SessionsInv, OneHeirPerRefresh, DisableCutsForGood
<1> QED BY <1>3, <1>4, <1>5, <1>6, <1>7 DEF SessionsInv

LEMMA ConsumeKeeps ==
  ASSUME SessionsInv, NEW r \in Reqs, NEW s \in Sids, RefreshConsumes(r, s)
  PROVE  SessionsInv'
<1>typed. sess[s] \in SessionRow
  BY DEF SessionsInv, SessionsTypeOK
<1> DEFINE rec == [NoRequest EXCEPT !.op = "refresh", !.user = sess[s].user, !.sid = s]
<1>1. rec \in SessionRequest /\ rec.op = "refresh" /\ rec.list = {} /\ rec.all = {}
      /\ rec.sid = s /\ rec.user = sess[s].user
  BY <1>typed DEF SessionRequest, NoRequest, Ops, SessionRow
<1>2. Begins(r, rec) /\ UNCHANGED <<active, sess, cut>> /\ Consumable(s) /\ ~Locked(s)
  BY DEF RefreshConsumes
<1> HIDE DEF rec
<1> QED BY <1>1, <1>2, BeginTyped DEF Consumable

LEMMA LogoutAllBegins ==
  ASSUME SessionsInv, NEW r \in Reqs, NEW s \in Sids, LogoutAllReads(r, s)
  PROVE  SessionsInv'
<1>typed. sess[s] \in SessionRow
  BY DEF SessionsInv, SessionsTypeOK
<1> DEFINE all == SessionsOf(sess[s].user) \ {s}
           rec == [NoRequest EXCEPT !.op = "logout_all", !.user = sess[s].user, !.sid = s,
                                    !.list = OthersToClose(s), !.all = all]
<1>1. all \subseteq Sids /\ OthersToClose(s) \subseteq all
  BY DEF OthersToClose, SessionsOf
<1> HIDE DEF all
<1>2. rec \in SessionRequest /\ rec.op = "logout_all" /\ rec.list \subseteq rec.all
  BY <1>typed, <1>1 DEF SessionRequest, NoRequest, Ops, SessionRow
<1>3. Begins(r, rec) /\ UNCHANGED <<active, sess, cut>>
  BY DEF LogoutAllReads, all
<1> HIDE DEF rec
<1> QED BY <1>2, <1>3, BeginTyped

LEMMA DisableBegins ==
  ASSUME SessionsInv, NEW r \in Reqs, NEW s \in Sids, NEW u \in Users, DisableReads(r, s, u)
  PROVE  SessionsInv'
<1> DEFINE rec == [NoRequest EXCEPT !.op = "disable", !.user = u, !.list = ToRevoke(u), !.all = SessionsOf(u)]
<1>1. SessionsOf(u) \subseteq Sids /\ ToRevoke(u) \subseteq SessionsOf(u)
      /\ \A t \in SessionsOf(u) : t \in ToRevoke(u) \/ sess[t].revoked
  BY DEF ToRevoke, SessionsOf
<1>2. rec \in SessionRequest /\ rec.op = "disable" /\ rec.list = ToRevoke(u) /\ rec.all = SessionsOf(u)
  BY <1>1 DEF SessionRequest, NoRequest, Ops
<1>3. Begins(r, rec) /\ UNCHANGED <<active, sess, cut>>
  BY DEF DisableReads
<1> HIDE DEF rec
<1> QED BY <1>1, <1>2, <1>3, BeginTyped

-----------------------------------------------------------------------------
(* Steps that close, open or age sessions.  They keep the invariant if     *)
(* rows only change the way a row may.                                     *)
RowMoves(s) == /\ sess[s].revoked => sess'[s].revoked
               /\ sess[s].user # None => sess'[s].user = sess[s].user /\ sess'[s].heirOf = sess[s].heirOf

(* The requests left keep what they knew, if no held row was closed. *)
LEMMA RequestsKept ==
  ASSUME SessionsInv, \A s \in Sids : RowMoves(s),
         \A q \in Reqs : req'[q].op \in {"refresh", "refreshed", "disable"} =>
                        req'[q] = req[q] /\ (Refreshing(q) => ~sess'[req[q].sid].revoked)
  PROVE  HeldIsOpen' /\ OneHolder' /\ DisableKnows'
<1>1. HeldIsOpen'
  BY DEF SessionsInv, HeldIsOpen, Refreshing, RowMoves
<1>2. OneHolder'
  BY DEF SessionsInv, OneHolder, Refreshing
<1>3. DisableKnows'
  <2> SUFFICES ASSUME NEW q \in Reqs, req'[q].op = "disable", NEW s \in req'[q].all
               PROVE  s \in req'[q].list \/ sess'[s].revoked
    BY DEF DisableKnows
  <2>1. req'[q] = req[q]
    OBVIOUS
  <2>2. s \in Sids /\ (s \in req[q].list \/ sess[s].revoked)
    BY <2>1 DEF SessionsInv, SessionsTypeOK, SessionRequest, DisableKnows
  <2> QED BY <2>1, <2>2 DEF RowMoves
<1> QED BY <1>1, <1>2, <1>3

(* Heirs and cut-offs survive steps that open no session. *)
LEMMA HistoryKept ==
  ASSUME SessionsInv, \A s \in Sids : RowMoves(s) /\ sess'[s].heirOf = sess[s].heirOf,
         \A s \in Sids : <<"disable", s>> \in cut' => <<"disable", s>> \in cut \/ sess'[s].revoked
  PROVE  OneHeirPerRefresh' /\ DisableCutsForGood'
<1>1. OneHeirPerRefresh'
  BY DEF SessionsInv, OneHeirPerRefresh, RowMoves
<1>2. DisableCutsForGood'
  BY DEF SessionsInv, DisableCutsForGood, RowMoves
<1> QED BY <1>1, <1>2

(* A request that answers leaves its place to another. *)
LEMMA AnswersTyped ==
  ASSUME SessionsInv, NEW r \in Reqs, Answers(r)
  PROVE  /\ req' \in [Reqs -> SessionRequest]
         /\ \A q \in Reqs : req'[q].list \subseteq req'[q].all
         /\ req'[r].op = "idle"
         /\ \A q \in Reqs \ {r} : req'[q] = req[q]
<1>1. NoRequest \in SessionRequest /\ NoRequest.op = "idle" /\ NoRequest.list \subseteq NoRequest.all
  BY DEF NoRequest, SessionRequest, Ops
<1> QED BY <1>1 DEF SessionsInv, SessionsTypeOK, Answers

LEMMA NothingDone ==
  ASSUME SessionsInv, NEW r \in Reqs, LoginFails(r) \/ RefreshRolledBack(r)
  PROVE  SessionsInv'
<1>1. Answers(r) /\ UNCHANGED <<active, sess, cut>>
  BY DEF LoginFails, RefreshRolledBack
<1>2. /\ req' \in [Reqs -> SessionRequest]
      /\ \A q \in Reqs : req'[q].list \subseteq req'[q].all
      /\ req'[r].op = "idle" /\ \A q \in Reqs \ {r} : req'[q] = req[q]
  BY <1>1, AnswersTyped
<1>3. SessionsTypeOK'
  BY <1>1, <1>2 DEF SessionsInv, SessionsTypeOK
<1>4. \A s \in Sids : RowMoves(s) /\ sess'[s].heirOf = sess[s].heirOf
  BY <1>1 DEF RowMoves
<1>5. HeldIsOpen' /\ OneHolder' /\ DisableKnows'
  <2>1. \A q \in Reqs : Refreshing(q) => ~sess'[req[q].sid].revoked
    BY <1>1 DEF SessionsInv, HeldIsOpen
  <2> QED BY <1>2, <1>4, <2>1, RequestsKept
<1>6. OneHeirPerRefresh' /\ DisableCutsForGood'
  BY <1>1, <1>4, HistoryKept
<1> QED BY <1>3, <1>5, <1>6 DEF SessionsInv

LEMMA OwnerRead ==
  ASSUME SessionsInv, NEW r \in Reqs, RefreshReadsUser(r)
  PROVE  SessionsInv'
<1> DEFINE saw == active[req[r].user]
           rec == [req[r] EXCEPT !.op = "refreshed", !.saw = saw]
<1>1. req[r] \in SessionRequest /\ req[r].user \in Users /\ saw \in BOOLEAN /\ Refreshing(r)
  <2>1. Refreshing(r)
    BY DEF RefreshReadsUser, Refreshing
  <2>2. req[r].user \in Users
    BY <2>1 DEF SessionsInv, SessionsTypeOK, SessionRow, HeldIsOpen
  <2> QED BY <2>1, <2>2 DEF SessionsInv, SessionsTypeOK
<1>2. /\ rec \in SessionRequest /\ rec.op = "refreshed" /\ rec.list = req[r].list
      /\ rec.all = req[r].all /\ rec.sid = req[r].sid /\ rec.user = req[r].user
  <2> HIDE DEF saw
  <2> QED BY <1>1 DEF SessionRequest, Ops
<1>3. req' = [req EXCEPT ![r] = rec] /\ UNCHANGED <<active, sess, cut>>
  BY DEF RefreshReadsUser
<1> HIDE DEF rec
<1>4. \A q \in Reqs : req'[q] = IF q = r THEN rec ELSE req[q]
  BY <1>3 DEF SessionsInv, SessionsTypeOK
<1>5. SessionsTypeOK'
  BY <1>2, <1>3, <1>4 DEF SessionsInv, SessionsTypeOK
<1>6. HeldIsOpen'
  BY <1>1, <1>2, <1>3, <1>4 DEF SessionsInv, HeldIsOpen, Refreshing
<1>7. OneHolder'
  BY <1>1, <1>2, <1>4 DEF SessionsInv, OneHolder, Refreshing
<1>8. DisableKnows'
  BY <1>2, <1>3, <1>4 DEF SessionsInv, DisableKnows
<1>9. OneHeirPerRefresh' /\ DisableCutsForGood'
  BY <1>3 DEF SessionsInv, OneHeirPerRefresh, DisableCutsForGood
<1> QED BY <1>5, <1>6, <1>7, <1>8, <1>9 DEF SessionsInv

-----------------------------------------------------------------------------
(* Sign-in and refresh open a session in an empty row.                     *)
LEMMA LoginKeeps ==
  ASSUME SessionsInv, NEW r \in Reqs, NEW s \in Sids, LoginOpens(r, s)
  PROVE  SessionsInv'
<1> DEFINE new == NewSession(req[r].user, None)
<1>1. new \in SessionRow /\ new.heirOf = None /\ ~new.revoked
  BY NewRowTyped DEF SessionsInv, SessionsTypeOK, SessionRequest, NewSession
<1>2. sess' = [sess EXCEPT ![s] = new] /\ Answers(r) /\ UNCHANGED <<active, cut>>
  BY DEF LoginOpens
<1>3. sess[s].user = None /\ sess[s].heirOf = None /\ ~sess[s].revoked
  BY DEF LoginOpens, NoSession
<1> HIDE DEF new
<1>4. \A t \in Sids : sess'[t] = IF t = s THEN new ELSE sess[t]
  BY <1>2 DEF SessionsInv, SessionsTypeOK
<1>5. /\ req' \in [Reqs -> SessionRequest]
      /\ \A q \in Reqs : req'[q].list \subseteq req'[q].all
      /\ req'[r].op = "idle" /\ \A q \in Reqs \ {r} : req'[q] = req[q]
  BY <1>2, AnswersTyped
<1>6. SessionsTypeOK'
  BY <1>1, <1>2, <1>5 DEF SessionsInv, SessionsTypeOK
<1>7. \A t \in Sids : RowMoves(t) /\ sess'[t].heirOf = sess[t].heirOf
  BY <1>1, <1>3, <1>4 DEF RowMoves
<1>8. HeldIsOpen' /\ OneHolder' /\ DisableKnows'
  <2>1. \A q \in Reqs : Refreshing(q) => ~sess'[req[q].sid].revoked
    BY <1>1, <1>4 DEF SessionsInv, HeldIsOpen
  <2> QED BY <1>5, <1>7, <2>1, RequestsKept
<1>9. OneHeirPerRefresh' /\ DisableCutsForGood'
  BY <1>2, <1>7, HistoryKept
<1> QED BY <1>6, <1>8, <1>9 DEF SessionsInv

LEMMA RefreshKeeps ==
  ASSUME SessionsInv, NEW r \in Reqs, NEW s \in Sids, RefreshOpens(r, s)
  PROVE  SessionsInv'
<1> DEFINE from == req[r].sid
           new == NewSession(req[r].user, from)
<1>1. from \in Sids /\ sess[from].user # None /\ ~sess[from].revoked /\ Refreshing(r)
  BY DEF SessionsInv, HeldIsOpen, Refreshing, RefreshOpens
<1>2. new \in SessionRow /\ new.heirOf = from /\ ~new.revoked
  BY <1>1, NewRowTyped DEF SessionsInv, SessionsTypeOK, SessionRequest, NewSession
<1>3. sess' = [WithRevoked({from}) EXCEPT ![s] = new] /\ Answers(r) /\ UNCHANGED <<active, cut>>
  BY DEF RefreshOpens
<1>4. sess[s].user = None /\ sess[s].heirOf = None /\ ~sess[s].revoked
  BY DEF RefreshOpens, NoSession
<1> HIDE DEF new, from
<1>5. /\ WithRevoked({from}) \in [Sids -> SessionRow]
      /\ \A t \in Sids : /\ WithRevoked({from})[t].user = sess[t].user
                         /\ WithRevoked({from})[t].heirOf = sess[t].heirOf
                         /\ WithRevoked({from})[t].revoked = (t \in {from} \/ sess[t].revoked)
  BY <1>1, RevokedRowsTyped DEF SessionsInv, SessionsTypeOK
<1>6. sess' \in [Sids -> SessionRow] /\ sess'[s] = new
      /\ \A t \in Sids \ {s} : sess'[t] = WithRevoked({from})[t]
  BY <1>2, <1>3, <1>5
<1>7. /\ req' \in [Reqs -> SessionRequest]
      /\ \A q \in Reqs : req'[q].list \subseteq req'[q].all
      /\ req'[r].op = "idle" /\ \A q \in Reqs \ {r} : req'[q] = req[q]
  BY <1>3, AnswersTyped
<1>8. SessionsTypeOK'
  BY <1>3, <1>6, <1>7 DEF SessionsInv, SessionsTypeOK
<1>9. \A t \in Sids : RowMoves(t)
  BY <1>4, <1>5, <1>6 DEF RowMoves
<1>10. HeldIsOpen' /\ OneHolder' /\ DisableKnows'
  <2>1. \A q \in Reqs \ {r} : Refreshing(q) => ~sess'[req[q].sid].revoked
    <3> SUFFICES ASSUME NEW q \in Reqs \ {r}, Refreshing(q)
                 PROVE  ~sess'[req[q].sid].revoked
      OBVIOUS
    <3>1. req[q].sid \in Sids /\ ~sess[req[q].sid].revoked /\ sess[req[q].sid].user # None
      BY DEF SessionsInv, HeldIsOpen
    <3>2. req[q].sid # from
      BY <1>1 DEF SessionsInv, OneHolder, from
    <3> QED BY <1>4, <1>5, <1>6, <3>1, <3>2
  <2>2. \A q \in Reqs : req'[q].op \in {"refresh", "refreshed", "disable"} =>
                         req'[q] = req[q] /\ (Refreshing(q) => ~sess'[req[q].sid].revoked)
    <3> SUFFICES ASSUME NEW q \in Reqs, q # r
                 PROVE  req'[q] = req[q] /\ (Refreshing(q) => ~sess'[req[q].sid].revoked)
      BY <1>7
    <3> QED BY <1>7, <2>1
  <2>3. \A t \in Sids : RowMoves(t)
    BY <1>9
  <2> QED BY <2>2, <2>3, RequestsKept
<1>11. OneHeirPerRefresh'
  <2> SUFFICES ASSUME NEW p \in Sids, NEW t \in Sids, sess'[t].heirOf = p
               PROVE  sess'[p].revoked /\ \A w \in Sids : sess'[w].heirOf = p => w = t
    BY DEF OneHeirPerRefresh
  <2>old. \A w \in Sids \ {s} : sess'[w].heirOf = sess[w].heirOf
    BY <1>5, <1>6
  <2>1. CASE t = s
    <3>1. p = from
      BY <2>1, <1>2, <1>6
    <3>2. sess'[from].revoked
      BY <1>1, <1>4, <1>5, <1>6
    <3>3. \A w \in Sids : sess[w].heirOf # from
      BY <1>1 DEF SessionsInv, OneHeirPerRefresh
    <3> QED BY <2>1, <2>old, <3>1, <3>2, <3>3
  <2>2. CASE t # s
    <3>1. sess[t].heirOf = p
      BY <2>2, <2>old
    <3>2. sess[p].revoked /\ \A w \in Sids : sess[w].heirOf = p => w = t
      BY <3>1 DEF SessionsInv, OneHeirPerRefresh
    <3>3. sess'[s].heirOf # p
      BY <1>1, <1>2, <1>6, <3>2
    <3> QED BY <2>old, <3>2, <3>3, <1>9 DEF RowMoves
  <2> QED BY <2>1, <2>2
<1>12. DisableCutsForGood'
  BY <1>3, <1>9 DEF SessionsInv, DisableCutsForGood, RowMoves
<1> QED BY <1>8, <1>10, <1>11, <1>12 DEF SessionsInv

-----------------------------------------------------------------------------
(* Signing out, switching off, time.                                       *)
LEMMA CutOffKeeps ==
  ASSUME SessionsInv, NEW r \in Reqs, LogoutAllEnds(r) \/ DisableEnds(r)
  PROVE  SessionsInv'
<1> DEFINE list == req[r].list
           all == req[r].all
<1>1. req[r] \in SessionRequest /\ list \subseteq all /\ all \subseteq Sids
      /\ req[r].op \in {"logout_all", "disable"} /\ ~Refreshing(r)
  BY DEF SessionsInv, SessionsTypeOK, SessionRequest, LogoutAllEnds, DisableEnds, Refreshing
<1>2. /\ \A s \in list : ~Locked(s)
      /\ sess' = WithRevoked(list) /\ cut' = cut \cup ({req[r].op} \X all) /\ Answers(r)
  BY DEF LogoutAllEnds, DisableEnds, CutOff
<1>3. active' \in [Users -> BOOLEAN]
  BY DEF SessionsInv, SessionsTypeOK, LogoutAllEnds, DisableEnds
<1>4. req[r].op = "disable" => \A s \in all : s \in list \/ sess[s].revoked
  BY DEF SessionsInv, DisableKnows
<1> HIDE DEF list, all
<1>5. /\ WithRevoked(list) \in [Sids -> SessionRow]
      /\ \A t \in Sids : /\ WithRevoked(list)[t].user = sess[t].user
                         /\ WithRevoked(list)[t].heirOf = sess[t].heirOf
                         /\ WithRevoked(list)[t].revoked = (t \in list \/ sess[t].revoked)
  BY <1>1, RevokedRowsTyped DEF SessionsInv, SessionsTypeOK
<1>6. /\ req' \in [Reqs -> SessionRequest]
      /\ \A q \in Reqs : req'[q].list \subseteq req'[q].all
      /\ req'[r].op = "idle" /\ \A q \in Reqs \ {r} : req'[q] = req[q]
  BY <1>2, AnswersTyped
<1>7. SessionsTypeOK'
  <2>1. cut' \subseteq {"logout_all", "disable"} \X Sids
    BY <1>1, <1>2 DEF SessionsInv, SessionsTypeOK
  <2> QED BY <2>1, <1>2, <1>3, <1>5, <1>6 DEF SessionsTypeOK
<1>8. \A t \in Sids : RowMoves(t) /\ sess'[t].heirOf = sess[t].heirOf
  BY <1>2, <1>5 DEF RowMoves
<1>9. HeldIsOpen' /\ OneHolder' /\ DisableKnows'
  <2>1. \A q \in Reqs \ {r} : Refreshing(q) => ~sess'[req[q].sid].revoked
    <3> SUFFICES ASSUME NEW q \in Reqs \ {r}, Refreshing(q)
                 PROVE  ~sess'[req[q].sid].revoked
      OBVIOUS
    <3>1. req[q].sid \in Sids /\ ~sess[req[q].sid].revoked
      BY DEF SessionsInv, HeldIsOpen
    <3>2. req[q].sid \notin list
      BY <1>2 DEF Locked, Refreshing
    <3> QED BY <1>2, <1>5, <3>1, <3>2
  <2>2. \A q \in Reqs : req'[q].op \in {"refresh", "refreshed", "disable"} =>
                         req'[q] = req[q] /\ (Refreshing(q) => ~sess'[req[q].sid].revoked)
    <3> SUFFICES ASSUME NEW q \in Reqs, q # r
                 PROVE  req'[q] = req[q] /\ (Refreshing(q) => ~sess'[req[q].sid].revoked)
      BY <1>6
    <3> QED BY <1>6, <2>1
  <2>3. \A t \in Sids : RowMoves(t)
    BY <1>8
  <2> QED BY <2>2, <2>3, RequestsKept
<1>10. \A s \in Sids : <<"disable", s>> \in cut' => <<"disable", s>> \in cut \/ sess'[s].revoked
  BY <1>2, <1>4, <1>5
<1>11. OneHeirPerRefresh' /\ DisableCutsForGood'
  BY <1>8, <1>10, HistoryKept
<1> QED BY <1>7, <1>9, <1>11 DEF SessionsInv

LEMMA RestKeeps ==
  ASSUME SessionsInv, UNCHANGED <<req, cut>>, active' \in [Users -> BOOLEAN],
         sess' \in [Sids -> SessionRow],
         \A t \in Sids : RowMoves(t) /\ sess'[t].heirOf = sess[t].heirOf,
         \A t \in Sids : Locked(t) => sess'[t].revoked = sess[t].revoked
  PROVE  SessionsInv'
<1>1. SessionsTypeOK'
  BY DEF SessionsInv, SessionsTypeOK
<1>2. HeldIsOpen' /\ OneHolder' /\ DisableKnows'
  <2>1. \A q \in Reqs : Refreshing(q) => ~sess'[req[q].sid].revoked
    BY DEF SessionsInv, HeldIsOpen, Locked, Refreshing
  <2> QED BY <2>1, RequestsKept
<1>3. OneHeirPerRefresh' /\ DisableCutsForGood'
  BY HistoryKept
<1> QED BY <1>1, <1>2, <1>3 DEF SessionsInv

LEMMA OneRowKeeps ==
  ASSUME SessionsInv, NEW s \in Sids, Logout(s) \/ AccessExpires(s) \/ RefreshExpires(s)
  PROVE  SessionsInv'
<1>typed. active \in [Users -> BOOLEAN] /\ sess \in [Sids -> SessionRow] /\ sess[s] \in SessionRow
  BY DEF SessionsInv, SessionsTypeOK
<1>1. CASE Logout(s)
  <2>1. /\ WithRevoked({s}) \in [Sids -> SessionRow]
        /\ \A t \in Sids : /\ WithRevoked({s})[t].user = sess[t].user
                           /\ WithRevoked({s})[t].heirOf = sess[t].heirOf
                           /\ WithRevoked({s})[t].revoked = (t \in {s} \/ sess[t].revoked)
    BY <1>typed, RevokedRowsTyped
  <2>2. \A t \in Sids : sess[t].revoked \in BOOLEAN
    BY <1>typed DEF SessionRow
  <2> QED BY <1>1, <1>typed, <2>1, <2>2, RestKeeps DEF Logout, RowMoves
<1>2. CASE AccessExpires(s) \/ RefreshExpires(s)
  <2> DEFINE row == IF AccessExpires(s) THEN [sess[s] EXCEPT !.access = FALSE]
                                        ELSE [sess[s] EXCEPT !.refresh = FALSE]
  <2>1. /\ row \in SessionRow /\ row.user = sess[s].user /\ row.heirOf = sess[s].heirOf
        /\ row.revoked = sess[s].revoked
    BY <1>typed DEF SessionRow
  <2>2. sess' = [sess EXCEPT ![s] = row] /\ UNCHANGED <<active, req, cut>>
    BY <1>2 DEF AccessExpires, RefreshExpires
  <2> HIDE DEF row
  <2>3. sess' \in [Sids -> SessionRow] /\ \A t \in Sids : sess'[t] = IF t = s THEN row ELSE sess[t]
    BY <2>1, <2>2, <1>typed
  <2> QED BY <1>typed, <2>1, <2>2, <2>3, RestKeeps DEF RowMoves
<1> QED BY <1>1, <1>2

-----------------------------------------------------------------------------
LEMMA SessionsPreserved ==
  ASSUME SessionsInv, [NextSessions]_sessionVars
  PROVE  SessionsInv'
<1>1. ASSUME NEW r \in Reqs, NEW u \in Users, LoginReads(r, u)
      PROVE  SessionsInv'
  <2> DEFINE rec == [NoRequest EXCEPT !.op = "login", !.user = u, !.saw = active[u]]
  <2>1. active[u] \in BOOLEAN
    BY DEF SessionsInv, SessionsTypeOK
  <2>2. rec \in SessionRequest /\ rec.op = "login" /\ rec.list = {} /\ rec.all = {}
    BY <2>1 DEF SessionRequest, NoRequest, Ops
  <2>3. Begins(r, rec) /\ UNCHANGED <<active, sess, cut>>
    BY <1>1 DEF LoginReads
  <2> HIDE DEF rec
  <2> QED BY <2>2, <2>3, BeginTyped
<1>2. ASSUME NEW r \in Reqs, NEW s \in Sids, RefreshConsumes(r, s)
      PROVE  SessionsInv'
  BY <1>2, ConsumeKeeps
<1>3. ASSUME NEW r \in Reqs, NEW s \in Sids, LogoutAllReads(r, s)
      PROVE  SessionsInv'
  BY <1>3, LogoutAllBegins
<1>4. ASSUME NEW r \in Reqs, NEW s \in Sids, NEW u \in Users, DisableReads(r, s, u)
      PROVE  SessionsInv'
  BY <1>4, DisableBegins
<1>5. ASSUME NEW r \in Reqs, LoginFails(r) \/ RefreshRolledBack(r)
      PROVE  SessionsInv'
  BY <1>5, NothingDone
<1>6. ASSUME NEW r \in Reqs, RefreshReadsUser(r)
      PROVE  SessionsInv'
  BY <1>6, OwnerRead
<1>7. ASSUME NEW r \in Reqs, NEW s \in Sids, LoginOpens(r, s)
      PROVE  SessionsInv'
  BY <1>7, LoginKeeps
<1>8. ASSUME NEW r \in Reqs, NEW s \in Sids, RefreshOpens(r, s)
      PROVE  SessionsInv'
  BY <1>8, RefreshKeeps
<1>9. ASSUME NEW r \in Reqs, LogoutAllEnds(r) \/ DisableEnds(r)
      PROVE  SessionsInv'
  BY <1>9, CutOffKeeps
<1>10. ASSUME NEW s \in Sids, Logout(s) \/ AccessExpires(s) \/ RefreshExpires(s)
      PROVE  SessionsInv'
  BY <1>10, OneRowKeeps
<1>11. ASSUME NEW s \in Sids, NEW u \in Users, Enable(s, u)
      PROVE  SessionsInv'
  <2>1. active' \in [Users -> BOOLEAN] /\ UNCHANGED <<sess, req, cut>>
    BY <1>11 DEF Enable, SessionsInv, SessionsTypeOK
  <2>2. sess' \in [Sids -> SessionRow]
        /\ \A t \in Sids : /\ RowMoves(t)
                           /\ sess'[t].heirOf = sess[t].heirOf
                           /\ Locked(t) => sess'[t].revoked = sess[t].revoked
    BY <2>1 DEF RowMoves, SessionsInv, SessionsTypeOK
  <2> QED BY <2>1, <2>2, RestKeeps
<1>12. CASE UNCHANGED sessionVars
  BY <1>12 DEF sessionVars, SessionsInv, SessionsTypeOK, HeldIsOpen, OneHolder, DisableKnows,
     Refreshing, OneHeirPerRefresh, DisableCutsForGood
<1> QED BY <1>1, <1>2, <1>3, <1>4, <1>5, <1>6, <1>7, <1>8, <1>9, <1>10, <1>11, <1>12 DEF NextSessions

LEMMA SessionsBegin == InitSessions => SessionsInv
<1> SUFFICES ASSUME InitSessions PROVE SessionsInv
  OBVIOUS
<1>1. NoRequest \in SessionRequest /\ NoRequest.op = "idle" /\ NoRequest.list = {} /\ NoRequest.all = {}
  BY DEF NoRequest, SessionRequest, Ops
<1>2. NoSession \in SessionRow /\ NoSession.heirOf = None
  BY DEF NoSession, SessionRow
<1>3. SessionsTypeOK
  BY <1>1, <1>2 DEF InitSessions, SessionsTypeOK
<1>4. HeldIsOpen /\ OneHolder /\ DisableKnows
  BY <1>1 DEF InitSessions, HeldIsOpen, OneHolder, DisableKnows, Refreshing
<1>5. OneHeirPerRefresh /\ DisableCutsForGood
  BY <1>2, SessionsAssumption DEF InitSessions, OneHeirPerRefresh, DisableCutsForGood
<1> QED BY <1>3, <1>4, <1>5 DEF SessionsInv

(* A refresh token opens one session, and the session it came from is      *)
(* closed, however refreshes and sign-outs meet (atomic_consume_refresh).  *)
THEOREM OneHeir == SpecSessions => []OneHeirPerRefresh
<1>1. SessionsInv /\ [NextSessions]_sessionVars => SessionsInv'
  BY SessionsPreserved
<1>2. SessionsInv => OneHeirPerRefresh
  BY DEF SessionsInv
<1> QED BY SessionsBegin, <1>1, <1>2, PTL DEF SpecSessions

(* No session an account had when it was switched off comes back, however  *)
(* often it is switched on again (set_user_active).                        *)
THEOREM CutForGood == SpecSessions => []DisableCutsForGood
<1>1. SessionsInv /\ [NextSessions]_sessionVars => SessionsInv'
  BY SessionsPreserved
<1>2. SessionsInv => DisableCutsForGood
  BY DEF SessionsInv
<1> QED BY SessionsBegin, <1>1, <1>2, PTL DEF SpecSessions

-----------------------------------------------------------------------------
(* A kept link leads to a participant's chat: without it a notice written  *)
(* before the chat, or to an account that changed its organisation, could  *)
(* not be told from one whose addressee was let in.                        *)
LinksHold == \A u \in People : notice[u].link = "chat" => talk # NoOrder /\ IsParticipant(u)
NoticesInv == NoticesTypeOK /\ LinksHold

-----------------------------------------------------------------------------
(* Type correctness, one lemma for each kind of row. *)
LEMMA InitTyped == InitNotices => NoticesTypeOK
  BY NoticesAssumption DEF InitNotices, NoticesTypeOK, Account, NoAccount, Between, NoOrder,
     Errand, FreeHand, Audiences, Roles

(* Accounts, the application and the chat keep their types. *)
LEMMA PeopleTyped ==
  ASSUME NoticesTypeOK, NEW u \in People, NEW r \in Roles, NEW o \in Orgs \cup {Nobody},
         AccountOpens(u, r, o) \/ SwitchAccount(u)
  PROVE  NoticesTypeOK'
<1>1. account' \in [People -> Account]
  <2>1. CASE AccountOpens(u, r, o)
    <3>1. [role |-> r, org |-> o, active |-> TRUE] \in Account
      BY DEF Account
    <3> QED BY <2>1, <3>1 DEF AccountOpens, NoticesTypeOK
  <2>2. CASE SwitchAccount(u)
    <3>1. account \in [People -> Account]
      BY DEF NoticesTypeOK
    <3>2. [account[u] EXCEPT !.active = ~account[u].active] \in Account
      BY <3>1 DEF Account
    <3>3. account' = [account EXCEPT ![u] = [account[u] EXCEPT !.active = ~account[u].active]]
      BY <2>2 DEF SwitchAccount
    <3> QED BY <3>1, <3>2, <3>3
  <2> QED BY <2>1, <2>2
<1>2. UNCHANGED <<filed, talk, event, notice, errand, hand>>
  BY DEF AccountOpens, SwitchAccount
<1> QED BY <1>1, <1>2 DEF NoticesTypeOK

LEMMA OrdersTyped ==
  ASSUME NoticesTypeOK, NEW u \in People \cup {Nobody}, NEW o \in Orgs,
         OrderMade(u, o) \/ TalkOpened(u, o)
  PROVE  NoticesTypeOK'
<1>1. [by |-> u, org |-> o] \in Between
  BY DEF Between
<1>2. CASE OrderMade(u, o)
  BY <1>1, <1>2 DEF OrderMade, NoticesTypeOK
<1>3. CASE TalkOpened(u, o)
  BY <1>1, <1>3 DEF TalkOpened, NoticesTypeOK
<1> QED BY <1>2, <1>3

(* Events and notices keep their types. *)
LEMMA InboxTyped ==
  ASSUME NoticesTypeOK, NEW u \in People, NEW a \in Audiences,
         EventWritten(a) \/ NoticeWritten(u) \/ MarkEventRead(u, a) \/ MarkNoticeRead(u)
  PROVE  NoticesTypeOK'
<1> USE DEF NoticesTypeOK
<1>1. CASE EventWritten(a)
  BY <1>1 DEF EventWritten
<1>2. CASE NoticeWritten(u)
  <2> DEFINE shown == IF MayFollow(u, "chat") THEN "chat" ELSE "dropped"
  <2>1. shown \in {"dropped", "chat"}
    OBVIOUS
  <2>2. notice' = [notice EXCEPT ![u] = [link |-> shown, read |-> FALSE]]
    BY <1>2 DEF NoticeWritten
  <2>3. UNCHANGED <<account, filed, talk, event, errand, hand>>
    BY <1>2 DEF NoticeWritten
  <2> HIDE DEF shown
  <2> QED BY <2>1, <2>2, <2>3
<1>3. CASE MarkEventRead(u, a)
  BY <1>3 DEF MarkEventRead
<1>4. CASE MarkNoticeRead(u)
  BY <1>4 DEF MarkNoticeRead
<1> QED BY <1>1, <1>2, <1>3, <1>4

(* What a request writes into an errand is a status of errands. *)
LEMMA ErrandsTyped ==
  ASSUME NoticesTypeOK, NEW h \in Hands, ErrandWrites(h)
  PROVE  NoticesTypeOK'
<1>1. hand' \in [Hands -> [op : {"none", "done", "cancelled"}, of : Errands \cup {Nobody}]]
  BY DEF ErrandWrites, FreeHand, NoticesTypeOK
<1>2. hand[h].op \in {"none", "done", "cancelled"}
  BY DEF NoticesTypeOK
<1>3. errand' \in [Errands -> Errand]
  BY <1>2 DEF ErrandWrites, Errand, NoticesTypeOK
<1> QED BY <1>1, <1>3 DEF ErrandWrites, NoticesTypeOK

LEMMA TypePreserved ==
  ASSUME NoticesTypeOK, [NextNotices]_noticeVars
  PROVE  NoticesTypeOK'
<1>1. ASSUME NEW u \in People, NEW r \in Roles, NEW o \in Orgs \cup {Nobody}, AccountOpens(u, r, o)
      PROVE  NoticesTypeOK'
  BY <1>1, PeopleTyped
<1>2. ASSUME NEW u \in People \cup {Nobody}, NEW o \in Orgs, OrderMade(u, o) \/ TalkOpened(u, o)
      PROVE  NoticesTypeOK'
  BY <1>2, OrdersTyped
<1>3. ASSUME NEW u \in People, SwitchAccount(u)
      PROVE  NoticesTypeOK'
  BY <1>3, PeopleTyped DEF Roles
<1>4. ASSUME NEW u \in People, NoticeWritten(u) \/ MarkNoticeRead(u)
      PROVE  NoticesTypeOK'
  BY <1>4, InboxTyped DEF Audiences
<1>5. ASSUME NEW a \in Audiences, EventWritten(a)
      PROVE  NoticesTypeOK'
  BY <1>5 DEF EventWritten, NoticesTypeOK
<1>6. ASSUME NEW u \in People, NEW a \in Audiences, MarkEventRead(u, a)
      PROVE  NoticesTypeOK'
  BY <1>6, InboxTyped
<1>7. ASSUME NEW e \in Errands, NEW o \in Orgs, ErrandGiven(e, o)
      PROVE  NoticesTypeOK'
  BY <1>7 DEF ErrandGiven, NoticesTypeOK, Errand
<1>8. ASSUME NEW h \in Hands, NEW e \in Errands, NEW u \in People,
             CompleteReads(h, e, u) \/ CancelReads(h, e, u)
      PROVE  NoticesTypeOK'
  BY <1>8 DEF CompleteReads, CancelReads, ErrandReads, NoticesTypeOK
<1>9. ASSUME NEW h \in Hands, ErrandWrites(h)
      PROVE  NoticesTypeOK'
  BY <1>9, ErrandsTyped
<1>10. CASE UNCHANGED noticeVars
  BY <1>10 DEF noticeVars, NoticesTypeOK
<1> QED BY <1>1, <1>2, <1>3, <1>4, <1>5, <1>6, <1>7, <1>8, <1>9, <1>10 DEF NextNotices

-----------------------------------------------------------------------------
(* A link kept once stays good: the chat and an account's role and         *)
(* organisation are never changed.                                         *)
LEMMA LinksPreserved ==
  ASSUME NoticesInv, [NextNotices]_noticeVars
  PROVE  LinksHold'
<1> SUFFICES ASSUME NEW u \in People, notice'[u].link = "chat"
             PROVE  talk' # NoOrder /\ IsParticipant(u)'
  BY DEF LinksHold
<1> USE DEF NoticesInv
<1>typed. /\ account \in [People -> Account]
          /\ notice \in [People -> [link : {"none", "dropped", "chat"}, read : BOOLEAN]]
  BY DEF NoticesTypeOK
<1>kept. notice[u].link = "chat" => talk # NoOrder /\ IsParticipant(u)
  BY DEF LinksHold
<1>same. ASSUME notice'[u].link = notice[u].link, talk' = talk,
                account'[u].role = account[u].role, account'[u].org = account[u].org
         PROVE  talk' # NoOrder /\ IsParticipant(u)'
  BY <1>same, <1>kept DEF IsParticipant, IsOwnerOf, IsStaff
<1>1. ASSUME NEW v \in People, NEW r \in Roles, NEW o \in Orgs \cup {Nobody}, AccountOpens(v, r, o)
      PROVE  talk' # NoOrder /\ IsParticipant(u)'
  <2>1. UNCHANGED <<talk, notice>>
    BY <1>1 DEF AccountOpens
  <2>2. CASE v = u
    <3>1. account[u].role = "none"
      BY <1>1, <2>2 DEF AccountOpens
    <3>2. u = talk.by /\ talk # NoOrder
      BY <2>1, <3>1, <1>kept DEF IsParticipant, IsOwnerOf, IsStaff
    <3> QED BY <2>1, <3>2 DEF IsParticipant
  <2>3. CASE v # u
    <3>1. account'[u] = account[u]
      BY <1>1, <2>3, <1>typed DEF AccountOpens
    <3> QED BY <2>1, <3>1, <1>same
  <2> QED BY <2>2, <2>3
<1>2. ASSUME NEW v \in People \cup {Nobody}, NEW o \in Orgs, OrderMade(v, o)
      PROVE  talk' # NoOrder /\ IsParticipant(u)'
  BY <1>2, <1>same DEF OrderMade
<1>3. ASSUME NEW v \in People \cup {Nobody}, NEW o \in Orgs, TalkOpened(v, o)
      PROVE  talk' # NoOrder /\ IsParticipant(u)'
  BY <1>3, <1>kept DEF TalkOpened
<1>4. ASSUME NEW v \in People, SwitchAccount(v)
      PROVE  talk' # NoOrder /\ IsParticipant(u)'
  <2>1. account'[u].role = account[u].role /\ account'[u].org = account[u].org
    BY <1>4, <1>typed DEF SwitchAccount, Account
  <2> QED BY <1>4, <2>1, <1>same DEF SwitchAccount
<1>5. ASSUME NEW v \in People, NoticeWritten(v)
      PROVE  talk' # NoOrder /\ IsParticipant(u)'
  <2>1. CASE v = u
    <3>1. MayFollow(u, "chat")
      BY <1>5, <2>1, <1>typed DEF NoticeWritten
    <3>2. IsParticipant(u) /\ talk # NoOrder
      BY <1>5, <2>1 DEF NoticeWritten
    <3> QED BY <1>5, <3>2 DEF NoticeWritten, IsParticipant, IsOwnerOf, IsStaff
  <2>2. CASE v # u
    <3>1. notice'[u] = notice[u]
      BY <1>5, <2>2, <1>typed DEF NoticeWritten
    <3> QED BY <1>5, <3>1, <1>same DEF NoticeWritten
  <2> QED BY <2>1, <2>2
<1>6. ASSUME NEW v \in People, MarkNoticeRead(v)
      PROVE  talk' # NoOrder /\ IsParticipant(u)'
  <2>1. notice'[u].link = notice[u].link
    BY <1>6, <1>typed DEF MarkNoticeRead
  <2> QED BY <1>6, <2>1, <1>same DEF MarkNoticeRead
<1>7. ASSUME UNCHANGED <<account, talk, notice>>
      PROVE  talk' # NoOrder /\ IsParticipant(u)'
  BY <1>7, <1>same
<1> QED BY <1>1, <1>2, <1>3, <1>4, <1>5, <1>6, <1>7 DEF NextNotices, noticeVars, EventWritten,
           MarkEventRead, ErrandGiven, CompleteReads, CancelReads, ErrandReads, ErrandWrites

-----------------------------------------------------------------------------
(* The four rules agree on any state that is well typed.                   *)
LEMMA RulesAgree ==
  ASSUME NoticesInv
  PROVE  ShownCanBeOpened
<1> SUFFICES ASSUME NEW u \in Registered
             PROVE  /\ Listed(u) # {} => MayOpenOrder(u)
                    /\ CountedUnread(u) = {a \in Listed(u) : event[a] = "unread"}
                    /\ notice[u].link = "chat" => IsParticipant(u)
  BY DEF ShownCanBeOpened
<1>1. u \in People /\ account[u].role \in Roles
  BY DEF Registered, NoticesInv, NoticesTypeOK, Account
<1>2. ASSUME NEW a \in Audiences, Selects(u, a)
      PROVE  VisibleTo(u, a)
  BY <1>1, <1>2 DEF Selects, VisibleTo, IsStaff, Roles
<1>3. ASSUME NEW a \in Audiences, VisibleTo(u, a)
      PROVE  MayOpenOrder(u)
  BY <1>3 DEF VisibleTo, MayOpenOrder
<1>4. Listed(u) # {} => MayOpenOrder(u)
  BY <1>3 DEF Listed
<1>5. CountedUnread(u) = {a \in Listed(u) : event[a] = "unread"}
  <2>1. ASSUME NEW a \in Audiences, event[a] = "unread"
        PROVE  Selects(u, a) <=> Selects(u, a) /\ VisibleTo(u, a)
    BY <1>2
  <2> QED BY <2>1 DEF CountedUnread, Listed
<1>6. notice[u].link = "chat" => IsParticipant(u)
  BY <1>1 DEF NoticesInv, LinksHold
<1> QED BY <1>4, <1>5, <1>6

(* Type correctness of the inbox (application_events, user_notifications,  *)
(* owner_tasks and the requests about them).                               *)
THEOREM NoticesTyped == SpecNotices => []NoticesTypeOK
<1>1. InitNotices => NoticesTypeOK
  BY InitTyped
<1>2. NoticesTypeOK /\ [NextNotices]_noticeVars => NoticesTypeOK'
  BY TypePreserved
<1> QED BY <1>1, <1>2, PTL DEF SpecNotices

(* Whatever the inbox shows leads to a page that lets its reader in, and   *)
(* the badge counts what the list shows (notification_events).             *)
THEOREM ShownCanBeOpenedHolds == SpecNotices => []ShownCanBeOpened
<1>1. InitNotices => NoticesInv
  BY InitTyped DEF InitNotices, NoticesInv, LinksHold
<1>2. NoticesInv /\ [NextNotices]_noticeVars => NoticesInv'
  BY TypePreserved, LinksPreserved DEF NoticesInv
<1>3. NoticesInv => ShownCanBeOpened
  BY RulesAgree
<1> QED BY <1>1, <1>2, <1>3, PTL DEF SpecNotices

-----------------------------------------------------------------------------
(* The hub: who is told of a message between its commit and the last push. *)

(* A message in the hands of a request, by how far it has come.            *)
NotesInHand ==
  \A w \in Workers : LET m == work[w].note IN
    /\ work[w].op # "none" => m \in Notes /\ ~heardOf[m].done
    /\ work[w].op \in {"kept", "sent", "pushing"} => note[m].kept
(* One request at most has a message.                                      *)
OneWorkerPerNote ==
  \A w, v \in Workers : work[w].op # "none" /\ work[v].op # "none" /\ work[w].note = work[v].note => w = v
(* A message nobody has posted is in nobody's hands.                       *)
PostedHaveAuthors ==
  /\ \A w \in Workers : work[w].op # "none" => note[work[w].note].author # Absent
  /\ \A m \in Notes : heardOf[m].done => note[m].author # Absent
Reached(m) == heardOf[m].heard \cup heardOf[m].noticed \cup heardOf[m].late \cup heardOf[m].dead
(* After the broadcast the request remembers whom it reached.              *)
RoomIsReached ==
  \A w \in Workers : work[w].op = "sent" =>
     work[w].to \subseteq heardOf[work[w].note].heard \cup heardOf[work[w].note].dead
AllAreReached(m) == Members \ {note[m].author} \subseteq Reached(m)
PushedAreReached == \A w \in Workers : work[w].op = "pushing" => AllAreReached(work[w].note)
NoteType == [author : Members \cup {Absent}, kept : BOOLEAN]
WorkType == [op : {"none", "posting", "kept", "sent", "pushing"}, note : Notes \cup {Absent},
             to : SUBSET Members]
HeardType == [heard : SUBSET Members, noticed : SUBSET Members, pushed : SUBSET Members,
              late : SUBSET Members, dead : SUBSET Members, done : BOOLEAN]
HubTyped ==
  /\ note \in [Notes -> NoteType] /\ socket \in [Members -> {"off", "on", "dead"}]
  /\ work \in [Workers -> WorkType] /\ heardOf \in [Notes -> HeardType]
HubInv == /\ HubTyped /\ NotesInHand /\ OneWorkerPerNote /\ PostedHaveAuthors /\ RoomIsReached
          /\ PushedAreReached /\ NobodyIsLeftOut /\ HeardIsStored

LEMMA HubBegins == InitHub => HubInv
<1> SUFFICES ASSUME InitHub PROVE HubInv
  OBVIOUS
<1>1. /\ \A w \in Workers : work[w].op = "none"
      /\ \A m \in Notes : heardOf[m].heard \cup heardOf[m].noticed \cup heardOf[m].pushed = {} /\ ~heardOf[m].done
  BY DEF InitHub, Waiting, Untold
<1>2. Waiting \in WorkType /\ Untold \in HeardType
  BY DEF Waiting, Untold, WorkType, HeardType
<1>3. HubTyped
  BY <1>2 DEF InitHub, HubTyped, NoteType
<1> QED BY <1>1, <1>3 DEF HubInv, NotesInHand, OneWorkerPerNote, PostedHaveAuthors, RoomIsReached,
           PushedAreReached, NobodyIsLeftOut, HeardIsStored

(* One request moves on with its message; all others keep theirs.          *)
InOrder(w, m) ==
  /\ m \in Notes /\ work[w].note = m /\ ~heardOf[m].done /\ note[m].author # Absent
  /\ work[w].op \in {"kept", "sent", "pushing"} => note[m].kept
  /\ work[w].op = "sent" => work[w].to \subseteq heardOf[m].heard \cup heardOf[m].dead
  /\ work[w].op = "pushing" => AllAreReached(m)
Accounted(m) ==
  /\ heardOf[m].done => AllAreReached(m)
  /\ heardOf[m].heard \cup heardOf[m].noticed \cup heardOf[m].pushed # {} => note[m].kept

LEMMA InHandInOrder ==
  ASSUME HubInv, NEW w \in Workers, work[w].op # "none"
  PROVE  LET m == work[w].note IN
         /\ InOrder(w, m) /\ Accounted(m)
         /\ \A v \in Workers \ {w} : work[v].op # "none" => work[v].note # m
  BY DEF HubInv, NotesInHand, OneWorkerPerNote, PostedHaveAuthors, RoomIsReached, PushedAreReached,
     InOrder, Accounted, NobodyIsLeftOut, HeardIsStored, AllAreReached, Reached

LEMMA OneHandMoves ==
  ASSUME HubInv, HubTyped', NEW w \in Workers, NEW m \in Notes,
         \A v \in Workers \ {w} : work'[v] = work[v] /\ (work[v].op # "none" => work[v].note # m),
         \A n \in Notes \ {m} : note'[n] = note[n] /\ heardOf'[n] = heardOf[n],
         work'[w].op = "none" \/ InOrder(w, m)', Accounted(m)',
         heardOf'[m].done => note'[m].author # Absent
  PROVE  HubInv'
<1>1. \A v \in Workers \ {w} : work[v].op # "none" =>
         /\ InOrder(v, work[v].note) /\ work[v].note \in Notes \ {m}
  BY InHandInOrder DEF InOrder
<1>2. \A v \in Workers : work'[v].op # "none" => InOrder(v, work[v].note)' /\ work'[v].note = IF v = w THEN m ELSE work[v].note
  BY <1>1 DEF InOrder, AllAreReached, Reached
<1>3. \A n \in Notes : Accounted(n)'
  <2>1. \A n \in Notes : Accounted(n)
    BY DEF HubInv, NobodyIsLeftOut, HeardIsStored, Accounted, AllAreReached, Reached
  <2> QED BY <2>1 DEF Accounted, AllAreReached, Reached
<1>4. NobodyIsLeftOut' /\ HeardIsStored'
  BY <1>3 DEF NobodyIsLeftOut, HeardIsStored, Accounted, AllAreReached, Reached
<1>5. NotesInHand' /\ PostedHaveAuthors' /\ RoomIsReached' /\ PushedAreReached'
  <2>1. \A v \in Workers : work'[v].op # "none" => InOrder(v, work[v].note)'
    BY <1>2
  <2>2. NotesInHand' /\ RoomIsReached'
    BY <2>1 DEF NotesInHand, RoomIsReached, InOrder
  <2>3. PushedAreReached'
    BY <2>1 DEF PushedAreReached, InOrder
  <2>4. \A n \in Notes : heardOf'[n].done => note'[n].author # Absent
    BY DEF HubInv, PostedHaveAuthors
  <2> QED BY <2>1, <2>2, <2>3, <2>4 DEF PostedHaveAuthors, InOrder
<1>6. OneWorkerPerNote'
  BY <1>2 DEF OneWorkerPerNote, HubInv
<1> QED BY <1>4, <1>5, <1>6 DEF HubInv

(* Two fields of what is known of a message are written at once. *)
LEMMA TwoFieldsTyped ==
  ASSUME NEW f \in [Notes -> HeardType], NEW n, NEW A \in SUBSET Members, NEW B \in SUBSET Members
  PROVE  /\ [f EXCEPT ![n].heard = A, ![n].dead = B] \in [Notes -> HeardType]
         /\ [f EXCEPT ![n].noticed = A, ![n].late = B] \in [Notes -> HeardType]
<1>1. ASSUME NEW g \in [Notes -> HeardType]
      PROVE  /\ [g EXCEPT ![n].heard = A] \in [Notes -> HeardType]
             /\ [g EXCEPT ![n].dead = B] \in [Notes -> HeardType]
             /\ [g EXCEPT ![n].noticed = A] \in [Notes -> HeardType]
             /\ [g EXCEPT ![n].late = B] \in [Notes -> HeardType]
  <2>1. CASE n \in Notes
    <3>1. g[n] \in HeardType
      BY <2>1
    <3>2. /\ [g[n] EXCEPT !.heard = A] \in HeardType /\ [g[n] EXCEPT !.dead = B] \in HeardType
          /\ [g[n] EXCEPT !.noticed = A] \in HeardType /\ [g[n] EXCEPT !.late = B] \in HeardType
      BY <3>1 DEF HeardType
    <3> QED BY <3>2
  <2>2. CASE n \notin Notes
    BY <2>2
  <2> QED BY <2>1, <2>2
<1>2. PICK g : g = [f EXCEPT ![n].heard = A]
  OBVIOUS
<1>3. PICK h : h = [f EXCEPT ![n].noticed = A]
  OBVIOUS
<1>4. g \in [Notes -> HeardType] /\ h \in [Notes -> HeardType]
  BY <1>1, <1>2, <1>3
<1>5. /\ [g EXCEPT ![n].dead = B] \in [Notes -> HeardType]
      /\ [h EXCEPT ![n].late = B] \in [Notes -> HeardType]
  BY <1>1, <1>4
<1> QED BY <1>2, <1>3, <1>5

(* The types, action by action.                                            *)
LEMMA HubTypeKept == HubInv /\ [NextHub]_hubVars => HubTyped'
<1> SUFFICES ASSUME HubInv, HubTyped, [NextHub]_hubVars PROVE HubTyped'
  BY DEF HubInv
<1> DEFINE Works(w, r) == r \in WorkType /\ work' = [work EXCEPT ![w] = r]
           Told(m, r) == r \in HeardType /\ heardOf' = [heardOf EXCEPT ![m] = r]
<1>1. \A w \in Workers : /\ work[w] \in WorkType /\ work[w].note \in Notes \cup {Absent}
                         /\ work[w].op # "none" => work[w].note \in Notes
  BY DEF HubTyped, WorkType, HubInv, NotesInHand
<1>2. Waiting \in WorkType
  BY DEF Waiting, WorkType
<1>3. ASSUME NEW w \in Workers, NEW r, Works(w, r) PROVE work' \in [Workers -> WorkType]
  BY <1>3 DEF HubTyped
<1>4. ASSUME NEW m \in Notes, NEW r, Told(m, r) PROVE heardOf' \in [Notes -> HeardType]
  BY <1>4 DEF HubTyped
<1>5. ASSUME NEW w \in Workers, NEW u \in Members, NEW m \in Notes, PostNote(w, u, m) PROVE HubTyped'
  <2>1. Works(w, [Waiting EXCEPT !.op = "posting", !.note = m])
    <3>1. [Waiting EXCEPT !.op = "posting", !.note = m] \in WorkType
      BY DEF Waiting, WorkType
    <3> QED BY <1>5, <3>1 DEF PostNote
  <2>2. note' \in [Notes -> NoteType]
    BY <1>5 DEF PostNote, HubTyped, NoteType
  <2> QED BY <1>3, <1>5, <2>1, <2>2 DEF PostNote, HubTyped
<1>6. ASSUME NEW w \in Workers, NoteKept(w) PROVE HubTyped'
  <2>1. Works(w, [work[w] EXCEPT !.op = "kept"])
    BY <1>1, <1>6 DEF NoteKept, WorkType
  <2>2. note' \in [Notes -> NoteType]
    BY <1>6 DEF NoteKept, HubTyped, NoteType
  <2> QED BY <1>3, <1>6, <2>1, <2>2 DEF NoteKept, HubTyped
<1>7. ASSUME NEW w \in Workers, NoteLost(w) \/ NoticesBreak(w) PROVE HubTyped'
  <2> QED BY <1>2, <1>7 DEF NoteLost, NoticesBreak, HubTyped
<1>8. ASSUME NEW w \in Workers, Broadcast(w) PROVE HubTyped'
  <2>1. InRoom \in SUBSET Members /\ Alive \in SUBSET Members
    BY DEF InRoom, Alive
  <2>2. Works(w, [work[w] EXCEPT !.op = "sent", !.to = InRoom])
    BY <1>1, <1>8, <2>1 DEF Broadcast, WorkType
  <2>3. heardOf' = [heardOf EXCEPT ![work[w].note].heard = Alive, ![work[w].note].dead = InRoom \ Alive]
    BY <1>8 DEF Broadcast
  <2>4. heardOf' \in [Notes -> HeardType]
    BY <2>1, <2>3, TwoFieldsTyped DEF HubTyped
  <2> QED BY <1>3, <1>8, <2>2, <2>4 DEF Broadcast, HubTyped
<1>9. ASSUME NEW w \in Workers, NotifyOffline(w) PROVE HubTyped'
  <2> DEFINE to == NoticesFor(note[work[w].note].author, InRoom)
  <2>1. InRoom \in SUBSET Members /\ to \in SUBSET Members
    BY DEF InRoom, NoticesFor
  <2>2. /\ heardOf' = [heardOf EXCEPT ![work[w].note].noticed = to, ![work[w].note].late = InRoom \ work[w].to]
        /\ work' = [work EXCEPT ![w] = [work[w] EXCEPT !.op = "pushing", !.to = to]]
        /\ UNCHANGED <<note, socket>>
    BY <1>9 DEF NotifyOffline
  <2> HIDE DEF to
  <2>3. Works(w, [work[w] EXCEPT !.op = "pushing", !.to = to])
    BY <1>1, <2>1, <2>2 DEF WorkType
  <2>4. InRoom \ work[w].to \in SUBSET Members
    BY <2>1
  <2>5. heardOf' \in [Notes -> HeardType]
    BY <2>1, <2>2, <2>4, TwoFieldsTyped DEF HubTyped
  <2> QED BY <1>3, <2>2, <2>3, <2>5 DEF HubTyped
<1>10. ASSUME NEW w \in Workers, NEW u \in Members, NEW gone \in SUBSET Devices, PushTo(w, u, gone)
       PROVE  HubTyped'
  <2>1. Works(w, [work[w] EXCEPT !.to = @ \ {u}])
    BY <1>1, <1>10 DEF PushTo, WorkType
  <2>2. PICK S \in SUBSET Members : heardOf' = [heardOf EXCEPT ![work[w].note].pushed = @ \cup S]
    BY <1>10 DEF PushTo
  <2>3. Told(work[w].note, [heardOf[work[w].note] EXCEPT !.pushed = @ \cup S])
    <3>1. heardOf[work[w].note] \in HeardType
      BY <1>1, <1>10 DEF PushTo, HubTyped
    <3>2. [heardOf[work[w].note] EXCEPT !.pushed = @ \cup S] \in HeardType
      BY <3>1 DEF HeardType
    <3> QED BY <2>2, <3>2
  <2>4. heardOf' \in [Notes -> HeardType]
    BY <1>1, <1>4, <1>10, <2>3 DEF PushTo
  <2> QED BY <1>3, <1>10, <2>1, <2>4 DEF PushTo, HubTyped
<1>11. ASSUME NEW w \in Workers, PublishEnds(w) PROVE HubTyped'
  <2>1. Told(work[w].note, [heardOf[work[w].note] EXCEPT !.done = TRUE])
    BY <1>1, <1>11 DEF PublishEnds, HubTyped, HeardType
  <2>2. heardOf' \in [Notes -> HeardType]
    BY <1>1, <1>4, <1>11, <2>1 DEF PublishEnds
  <2> QED BY <1>2, <1>11, <2>2 DEF PublishEnds, HubTyped
<1>12. ASSUME NEW u \in Members, Join(u) \/ SocketDies(u) \/ LeaveRoom(u) PROVE HubTyped'
  BY <1>12 DEF HubTyped, Join, SocketDies, LeaveRoom
<1>13. ASSUME NEW d \in Devices, NEW u \in Members, PushSubscribe(d, u) PROVE HubTyped'
  BY <1>13 DEF HubTyped, PushSubscribe
<1>14. ASSUME NEW d \in Devices, PushUnsubscribe(d) PROVE HubTyped'
  BY <1>14 DEF HubTyped, PushUnsubscribe
<1>15. CASE Restart
  BY <1>2, <1>15 DEF HubTyped, Restart
<1>16. CASE UNCHANGED hubVars
  BY <1>16 DEF HubTyped, hubVars
<1> QED BY <1>5, <1>6, <1>7, <1>8, <1>9, <1>10, <1>11, <1>12, <1>13, <1>14, <1>15, <1>16 DEF NextHub

LEMMA HubPreserved == HubInv /\ [NextHub]_hubVars => HubInv'
<1> SUFFICES ASSUME HubInv, [NextHub]_hubVars PROVE HubInv'
  OBVIOUS
<1>1. HubTyped /\ HubTyped'
  BY HubTypeKept DEF HubInv
<1>2. ASSUME NEW w \in Workers, NEW u \in Members, NEW m \in Notes, PostNote(w, u, m) PROVE HubInv'
  <2>1. /\ work' = [work EXCEPT ![w] = [Waiting EXCEPT !.op = "posting", !.note = m]]
        /\ note' = [note EXCEPT ![m].author = u] /\ heardOf' = heardOf /\ note[m].author = Absent
    BY <1>2 DEF PostNote
  <2>2. \A v \in Workers : work[v].op # "none" => work[v].note # m
    BY <2>1 DEF HubInv, PostedHaveAuthors
  <2>3. ~heardOf[m].done /\ Accounted(m)
    BY <2>1 DEF HubInv, PostedHaveAuthors, HeardIsStored, Accounted
  <2>4. work'[w].op = "posting" /\ work'[w].note = m /\ note'[m].author = u /\ note'[m].kept = note[m].kept
    BY <1>1, <2>1 DEF HubTyped, NoteType, Waiting
  <2>5. InOrder(w, m)' /\ Accounted(m)'
    BY <2>1, <2>3, <2>4, ChatHubAssumption DEF InOrder, Accounted
  <2>6. \A v \in Workers \ {w} : work'[v] = work[v] /\ (work[v].op # "none" => work[v].note # m)
    BY <1>1, <2>1, <2>2 DEF HubTyped
  <2>7. \A n \in Notes \ {m} : note'[n] = note[n] /\ heardOf'[n] = heardOf[n]
    BY <1>1, <2>1 DEF HubTyped
  <2> QED BY <1>1, <2>1, <2>3, <2>5, <2>6, <2>7, OneHandMoves
<1>3. ASSUME NEW w \in Workers,
             \/ NoteKept(w) \/ NoteLost(w) \/ Broadcast(w) \/ NotifyOffline(w)
             \/ NoticesBreak(w) \/ PublishEnds(w)
             \/ \E u \in Members, gone \in SUBSET Devices : PushTo(w, u, gone)
      PROVE  HubInv'
  <2>1. work[w].op # "none" /\ work[w].op \in {"posting", "kept", "sent", "pushing"}
    BY <1>3 DEF NoteKept, NoteLost, Broadcast, NotifyOffline, NoticesBreak,
         PublishEnds, PushTo
  <2>3. PICK m \in Notes : m = work[w].note
    BY <2>1 DEF HubInv, NotesInHand
  <2>2. InOrder(w, m) /\ Accounted(m) /\ \A v \in Workers \ {w} : work[v].op # "none" => work[v].note # m
    BY <2>1, <2>3, InHandInOrder
  <2>4. \A v \in Workers \ {w} : work'[v] = work[v]
    BY <1>1, <1>3 DEF NoteKept, NoteLost, Broadcast, NotifyOffline, NoticesBreak,
         PublishEnds, PushTo, HubTyped
  <2>5. \A n \in Notes \ {m} : note'[n] = note[n] /\ heardOf'[n] = heardOf[n]
    BY <1>1, <1>3, <2>3 DEF NoteKept, NoteLost, Broadcast, NotifyOffline, NoticesBreak,
         PublishEnds, PushTo, HubTyped
  <2>6. (work'[w].op = "none" \/ InOrder(w, m)') /\ Accounted(m)' /\ note'[m].author = note[m].author
    <3>1. CASE NoteKept(w)
      BY <1>1, <2>2, <2>3, <3>1 DEF NoteKept, HubTyped, NoteType, WorkType, InOrder, Accounted, AllAreReached, Reached
    <3>2. CASE NoteLost(w) \/ NoticesBreak(w)
      BY <1>1, <2>2, <2>3, <3>2 DEF NoteLost, NoticesBreak, HubTyped, Waiting, Accounted, AllAreReached, Reached
    <3>3. CASE Broadcast(w)
      BY <1>1, <2>2, <2>3, <3>3 DEF Broadcast, HubTyped, HeardType, WorkType, InOrder, Accounted, AllAreReached, Reached
    <3>4. CASE NotifyOffline(w)
      BY <1>1, <2>2, <2>3, <3>4 DEF NotifyOffline, NoticesFor, HubTyped, HeardType, WorkType, InOrder, Accounted, AllAreReached, Reached
    <3>5. CASE PublishEnds(w)
      BY <1>1, <2>2, <2>3, <3>5 DEF PublishEnds, HubTyped, HeardType, Waiting, InOrder, Accounted, AllAreReached, Reached
    <3>6. CASE \E u \in Members, gone \in SUBSET Devices : PushTo(w, u, gone)
      BY <1>1, <2>2, <2>3, <3>6 DEF PushTo, HubTyped, HeardType, WorkType, InOrder, Accounted, AllAreReached, Reached
    <3> QED BY <1>3, <3>1, <3>2, <3>3, <3>4, <3>5, <3>6
  <2>7. note[m].author # Absent
    BY <2>2 DEF InOrder
  <2> QED BY <1>1, <2>2, <2>3, <2>4, <2>5, <2>6, <2>7, OneHandMoves
<1>4. CASE \/ \E u \in Members : Join(u) \/ SocketDies(u) \/ LeaveRoom(u)
           \/ \E d \in Devices, u \in Members : PushSubscribe(d, u)
           \/ \E d \in Devices : PushUnsubscribe(d)
           \/ UNCHANGED hubVars
  <2>1. UNCHANGED <<note, work, heardOf>>
    BY <1>4 DEF Join, SocketDies, LeaveRoom, PushSubscribe, PushUnsubscribe, hubVars
  <2> QED BY <1>1, <2>1 DEF HubInv, NotesInHand, OneWorkerPerNote, PostedHaveAuthors, RoomIsReached,
             PushedAreReached, NobodyIsLeftOut, HeardIsStored, AllAreReached, Reached
<1>5. CASE Restart
  <2>1. UNCHANGED <<note, heardOf>> /\ \A w \in Workers : work'[w].op = "none"
    BY <1>5 DEF Restart, Waiting
  <2> QED BY <1>1, <2>1 DEF HubInv, NotesInHand, OneWorkerPerNote, PostedHaveAuthors, RoomIsReached,
             PushedAreReached, NobodyIsLeftOut, HeardIsStored, AllAreReached, Reached
<1> QED BY <1>2, <1>3, <1>4, <1>5 DEF NextHub

(* Every other participant of a thread is sent a committed message, or     *)
(* gets a notice, but for one whose socket died unseen and one who came    *)
(* between the two (_notify_offline).                                      *)
THEOREM NobodyIsLeftOutHolds == SpecHub => []NobodyIsLeftOut
<1>1. HubInv => NobodyIsLeftOut
  BY DEF HubInv
<1> QED BY HubBegins, HubPreserved, <1>1, PTL DEF SpecHub
-----------------------------------------------------------------------------
(* Chats: what a mark can cover.                                           *)
Posting(p) == post[p].op \in {"post", "posting"}
(* Stamps are of the past, and a posted message has its author.            *)
StampsArePast ==
  /\ \A u \in Readers : mark[u] <= clock
  /\ \A p \in Posters : post[p].when <= clock
PostedHaveReaders ==
  /\ \A m \in Messages : msg[m].author = NoOne => ~msg[m].kept
  /\ \A p \in Posters : Posting(p) => post[p].msg \in Messages /\ msg[post[p].msg].author # NoOne
MarkersAreReaders ==
  \A p \in Posters : post[p].op \in {"mark", "post", "posting"} => post[p].user \in Readers
(* A message under way was under way when a reader's last mark was         *)
(* committed, or is younger than the mark.                                 *)
OpenOrYounger ==
  \A p \in Posters, u \in Readers : Posting(p) =>
    post[p].msg \in seen[u].open \/ msg[post[p].msg].at > mark[u]
ChatsInv == /\ ChatsTypeOK /\ StampsArePast /\ PostedHaveReaders /\ MarkersAreReaders
            /\ OpenOrYounger /\ OnlyOpenMessagesAreLost

Serving == [op : {"none", "open", "mark", "post", "posting"},
            user : Readers \cup {NoOne}, msg : Messages \cup {NoOne},
            saw : 0..MaxTime, when : 0..MaxTime]
Row == [author : Readers \cup {NoOne}, at : 0..MaxTime, kept : BOOLEAN]

LEMMA AtEaseTyped ==
  /\ AtEase \in Serving /\ 0 \in 0..MaxTime
  /\ AtEase.op = "none" /\ AtEase.user = NoOne /\ AtEase.msg = NoOne /\ AtEase.saw = 0 /\ AtEase.when = 0
BY AddressChatsAssumption DEF AtEase, Serving

LEMMA ChatsBegin == InitChats => ChatsInv
<1> SUFFICES ASSUME InitChats PROVE ChatsInv
  OBVIOUS
<1>1. ChatsTypeOK
  <2>1. AtEase \in Serving /\ 0 \in 0..MaxTime
    BY AtEaseTyped
  <2>2. post \in [Posters -> Serving] /\ mark \in [Readers -> 0..MaxTime]
    BY <2>1 DEF InitChats
  <2>3. msg \in [Messages -> Row]
    BY <2>1 DEF InitChats, Row
  <2>4. seen \in [Readers -> [kept : SUBSET (Messages \cup {NoOne}), open : SUBSET Messages]]
    BY DEF InitChats
  <2> QED BY <2>1, <2>2, <2>3, <2>4 DEF InitChats, ChatsTypeOK, Serving, Row
<1>2. Kept = {} /\ \A p \in Posters : post[p].op = "none" /\ post[p].when = 0
  BY DEF InitChats, Kept, AtEase
<1>3. StampsArePast
  BY <1>2 DEF InitChats, StampsArePast
<1> QED BY <1>1, <1>2, <1>3 DEF InitChats, ChatsInv, PostedHaveReaders, MarkersAreReaders, OpenOrYounger,
           OnlyOpenMessagesAreLost, Posting

LEMMA PostTyped == ChatsTypeOK => post \in [Posters -> Serving]
BY DEF ChatsTypeOK, Serving

LEMMA ServeTyped ==
  ASSUME ChatsTypeOK, NEW p \in Posters, NEW rec \in Serving, post' = [post EXCEPT ![p] = rec]
  PROVE  post' \in [Posters -> Serving]
BY DEF ChatsTypeOK, Serving

LEMMA ServedTyped ==
  ASSUME ChatsTypeOK, NEW p \in Posters, Served(p)
  PROVE  post' \in [Posters -> Serving]
<1>1. AtEase \in Serving
  BY AddressChatsAssumption DEF AtEase, Serving
<1> QED BY <1>1 DEF ChatsTypeOK, Serving, Served

LEMMA MarkedTyped ==
  ASSUME ChatsTypeOK, NEW p \in Posters, post[p].user \in Readers, mark' = Marked(p)
  PROVE  mark' \in [Readers -> 0..MaxTime]
BY DEF ChatsTypeOK, Marked

LEMMA InProgressTyped ==
  ASSUME ChatsInv
  PROVE  InProgress \subseteq Messages /\ \A p \in Posters : Posting(p) => post[p].msg \in InProgress
BY DEF ChatsInv, PostedHaveReaders, InProgress, Posting

LEMMA CoveredTyped ==
  ASSUME ChatsInv, NEW p \in Posters, post[p].user \in Readers, seen' = Covered(p)
  PROVE  seen' \in [Readers -> [kept : SUBSET (Messages \cup {NoOne}), open : SUBSET Messages]]
<1>1. [kept |-> Kept \cup {post[p].msg}, open |-> InProgress]
        \in [kept : SUBSET (Messages \cup {NoOne}), open : SUBSET Messages]
  BY InProgressTyped DEF ChatsInv, ChatsTypeOK, Kept
<1> QED BY <1>1 DEF ChatsInv, ChatsTypeOK, Covered

(* A request that begins or ends and moves neither messages nor marks.     *)
LEMMA PostOnlyKeeps ==
  ASSUME ChatsInv, ChatsTypeOK', UNCHANGED <<msg, mark, seen>>, clock' >= clock,
         \A p \in Posters :
           \/ post'[p] = post[p]
           \/ (post'[p].op \in {"none", "open"} /\ post'[p].when <= clock')
           \/ (post'[p].op = "mark" /\ post'[p].user \in Readers /\ post'[p].when <= clock')
           \/ (post[p].op = "post" /\ post'[p].op = "posting" /\ post'[p].msg = post[p].msg
               /\ post'[p].user = post[p].user /\ post'[p].when <= clock')
  PROVE  ChatsInv'
<1>1. \A p \in Posters : Posting(p)' => Posting(p) /\ post'[p].msg = post[p].msg
  BY DEF Posting
<1>2. clock \in Nat /\ clock' \in Nat /\ (\A u \in Readers : mark[u] \in Nat) /\ \A p \in Posters : post[p].when \in Nat
  BY AddressChatsAssumption DEF ChatsInv, ChatsTypeOK
<1>3. StampsArePast'
  <2>1. \A p \in Posters : post'[p].when <= clock'
    BY <1>2 DEF ChatsInv, StampsArePast
  <2>2. \A u \in Readers : mark'[u] <= clock'
    BY <1>2 DEF ChatsInv, StampsArePast
  <2> QED BY <2>1, <2>2 DEF StampsArePast
<1>4. PostedHaveReaders' /\ OpenOrYounger'
  BY <1>1 DEF ChatsInv, PostedHaveReaders, OpenOrYounger
<1>5. MarkersAreReaders'
  BY DEF ChatsInv, MarkersAreReaders
<1>6. OnlyOpenMessagesAreLost'
  BY DEF ChatsInv, OnlyOpenMessagesAreLost, Kept, Unread
<1> QED BY <1>3, <1>4, <1>5, <1>6 DEF ChatsInv

(* A mark that is committed covers what is kept and what is under way.     *)
LEMMA MarkKeeps ==
  ASSUME ChatsInv, NEW p \in Posters, post[p].op \in {"mark", "posting"},
         mark' = Marked(p), seen' = Covered(p), Served(p), UNCHANGED clock,
         ChatsTypeOK',
         UNCHANGED msg \/ (Posting(p) /\ msg' = [msg EXCEPT ![post[p].msg].kept = TRUE])
  PROVE  ChatsInv'
<1> DEFINE u == post[p].user
<1>1. u \in Readers
  BY DEF ChatsInv, MarkersAreReaders
<1>2. /\ \A w \in Readers \ {u} : mark'[w] = mark[w] /\ seen'[w] = seen[w]
      /\ mark'[u] \in {mark[u], post[p].when}
      /\ seen'[u].kept = Kept \cup {post[p].msg} /\ seen'[u].open = InProgress
  BY <1>1 DEF ChatsInv, ChatsTypeOK, Marked, Covered
<1>3. \A q \in Posters : post'[q] = post[q] \/ (post'[q].op = "none" /\ post'[q].when = 0)
  BY PostTyped, AtEaseTyped DEF ChatsInv, Served
<1>4. \A m \in Messages :
        /\ msg'[m].author = msg[m].author /\ msg'[m].at = msg[m].at
        /\ (msg'[m].kept => msg[m].kept \/ (Posting(p) /\ m = post[p].msg))
  <2>1. ASSUME UNCHANGED msg, NEW m \in Messages PROVE msg'[m] = msg[m]
    BY <2>1
  <2>2. CASE Posting(p) /\ msg' = [msg EXCEPT ![post[p].msg].kept = TRUE]
    <3>1. ASSUME NEW m \in Messages, m # post[p].msg PROVE msg'[m] = msg[m]
      BY <2>2, <3>1 DEF ChatsInv, ChatsTypeOK
    <3>2. post[p].msg \in Messages /\ msg[post[p].msg] \in Row
      BY <2>2 DEF ChatsInv, PostedHaveReaders, ChatsTypeOK, Row
    <3>3. msg'[post[p].msg] = [msg[post[p].msg] EXCEPT !.kept = TRUE]
      BY <2>2, <3>2 DEF ChatsInv, ChatsTypeOK
    <3>4. msg'[post[p].msg].author = msg[post[p].msg].author /\ msg'[post[p].msg].at = msg[post[p].msg].at
      BY <3>2, <3>3 DEF Row
    <3> QED BY <2>2, <3>1, <3>4
  <2> QED BY <2>1, <2>2
<1>5. clock \in Nat /\ clock >= 0
  BY AddressChatsAssumption DEF ChatsInv, ChatsTypeOK
<1>6. StampsArePast'
  BY <1>1, <1>2, <1>3, <1>5 DEF ChatsInv, StampsArePast
<1>7. \A q \in Posters : Posting(q)' => Posting(q) /\ post'[q] = post[q]
  BY <1>3 DEF Posting
<1>8. PostedHaveReaders' /\ MarkersAreReaders'
  <2>1. PostedHaveReaders'
    BY <1>4, <1>7 DEF ChatsInv, PostedHaveReaders
  <2> QED BY <1>3, <2>1 DEF ChatsInv, MarkersAreReaders
<1>9. OpenOrYounger'
  <2> SUFFICES ASSUME NEW q \in Posters, NEW w \in Readers, Posting(q)'
               PROVE  (post[q].msg \in seen[w].open \/ msg[post[q].msg].at > mark[w])'
    BY DEF OpenOrYounger
  <2>1. Posting(q) /\ post'[q] = post[q] /\ post[q].msg \in Messages
    BY <1>7 DEF ChatsInv, PostedHaveReaders
  <2>2. CASE w = u
    BY <1>2, <2>1, <2>2, InProgressTyped
  <2>3. CASE w # u
    BY <1>2, <1>4, <2>1, <2>3 DEF ChatsInv, OpenOrYounger
  <2> QED BY <2>2, <2>3
<1>10. OnlyOpenMessagesAreLost'
  <2> SUFFICES ASSUME NEW w \in Readers, NEW m \in Messages, msg'[m].kept,
                      m \notin seen'[w].kept \cup seen'[w].open, msg'[m].author # w
               PROVE  msg'[m].at > mark'[w]
    BY DEF OnlyOpenMessagesAreLost, Unread, Kept
  <2>1. msg[m].kept \/ (Posting(p) /\ m = post[p].msg)
    BY <1>4
  <2>2. CASE w = u
    BY <1>2, <2>1, <2>2 DEF Kept
  <2>3. CASE w # u /\ msg[m].kept
    BY <1>2, <1>4, <2>3 DEF ChatsInv, OnlyOpenMessagesAreLost, Unread, Kept
  <2>4. CASE w # u /\ Posting(p) /\ m = post[p].msg
    BY <1>2, <1>4, <2>4 DEF ChatsInv, OpenOrYounger
  <2> QED BY <2>1, <2>2, <2>3, <2>4
<1> QED BY <1>6, <1>8, <1>9, <1>10 DEF ChatsInv

(* A new message is younger than every mark. *)
LEMMA PostStartKeeps ==
  ASSUME ChatsInv, NEW p \in Posters, NEW u \in Readers, NEW m \in Messages, PostStarts(p, u, m),
         ChatsTypeOK'
  PROVE  ChatsInv'
<1>1. /\ msg'[m].author = u /\ msg'[m].at = clock + 1 /\ msg'[m].kept = msg[m].kept
      /\ \A n \in Messages \ {m} : msg'[n] = msg[n]
  BY DEF ChatsInv, ChatsTypeOK, PostStarts, Stamp
<1>2. /\ post'[p].op = "post" /\ post'[p].user = u /\ post'[p].msg = m /\ post'[p].when = 0
      /\ \A q \in Posters \ {p} : post'[q] = post[q]
  BY DEF ChatsInv, ChatsTypeOK, PostStarts, Serve, AtEase
<1>3. clock \in Nat /\ clock' = clock + 1 /\ UNCHANGED <<mark, seen>> /\ \A w \in Readers : mark[w] \in Nat
  BY AddressChatsAssumption DEF ChatsInv, ChatsTypeOK, PostStarts, Stamp
<1>4. ~msg[m].kept /\ \A q \in Posters : Posting(q) => post[q].msg \in Messages \ {m}
  BY DEF ChatsInv, PostedHaveReaders, PostStarts
<1>5. \A q \in Posters : post[q].when \in Nat
  BY AddressChatsAssumption DEF ChatsInv, ChatsTypeOK
<1>6. StampsArePast'
  <2>1. \A q \in Posters : post'[q].when <= clock'
    BY <1>2, <1>3, <1>5 DEF ChatsInv, StampsArePast
  <2>2. \A w \in Readers : mark'[w] <= clock'
    BY <1>3 DEF ChatsInv, StampsArePast
  <2> QED BY <2>1, <2>2 DEF StampsArePast
<1>7. u # NoOne
  BY AddressChatsAssumption
<1>8. PostedHaveReaders'
  <2>1. \A n \in Messages : msg'[n].author = NoOne => ~msg'[n].kept
    BY <1>1, <1>7 DEF ChatsInv, PostedHaveReaders
  <2>2. ASSUME NEW q \in Posters, Posting(q)'
        PROVE  post'[q].msg \in Messages /\ msg'[post'[q].msg].author # NoOne
    <3>1. CASE q = p
      BY <1>1, <1>2, <1>7, <3>1
    <3>2. CASE q # p
      BY <1>1, <1>2, <1>4, <2>2, <3>2 DEF ChatsInv, PostedHaveReaders, Posting
    <3> QED BY <3>1, <3>2
  <2> QED BY <2>1, <2>2 DEF PostedHaveReaders
<1>9. MarkersAreReaders'
  BY <1>2 DEF ChatsInv, MarkersAreReaders
<1>10. OpenOrYounger'
  <2> SUFFICES ASSUME NEW q \in Posters, NEW w \in Readers, Posting(q)'
               PROVE  (post[q].msg \in seen[w].open \/ msg[post[q].msg].at > mark[w])'
    BY DEF OpenOrYounger
  <2>1. CASE q = p
    <3>1. mark[w] <= clock
      BY DEF ChatsInv, StampsArePast
    <3> QED BY <1>1, <1>2, <1>3, <2>1, <3>1
  <2>2. CASE q # p
    <3>1. Posting(q) /\ post'[q] = post[q]
      BY <1>2, <2>2 DEF Posting
    <3>2. msg'[post[q].msg] = msg[post[q].msg]
      BY <1>1, <1>4, <3>1
    <3> QED BY <1>3, <3>1, <3>2 DEF ChatsInv, OpenOrYounger
  <2> QED BY <2>1, <2>2
<1>11. OnlyOpenMessagesAreLost'
  BY <1>1, <1>3, <1>4 DEF ChatsInv, OnlyOpenMessagesAreLost, Unread, Kept
<1> QED BY <1>6, <1>8, <1>9, <1>10, <1>11 DEF ChatsInv

LEMMA OpenTyped ==
  ASSUME ChatsInv, NEW p \in Posters, NEW u \in Readers, OpenReads(p, u)
  PROVE  ChatsTypeOK' /\ ChatsInv'
<1>1. [AtEase EXCEPT !.op = "open", !.user = u] \in Serving
  BY AtEaseTyped DEF Serving
<1>2. ChatsTypeOK'
  BY <1>1, ServeTyped DEF OpenReads, Serve, ChatsInv, ChatsTypeOK, Serving
<1>3. \A q \in Posters : post'[q] = post[q] \/ (post'[q].op = "open" /\ post'[q].when = 0)
  <2>1. PICK rec : rec = [AtEase EXCEPT !.op = "open", !.user = u]
    OBVIOUS
  <2>2. rec.op = "open" /\ rec.when = 0 /\ post' = [post EXCEPT ![p] = rec]
    BY <2>1, AtEaseTyped DEF OpenReads, Serve, Serving
  <2> QED BY <2>2, PostTyped DEF ChatsInv
<1>4. clock' = clock /\ clock \in Nat /\ UNCHANGED <<msg, mark, seen>>
  BY AddressChatsAssumption DEF OpenReads, ChatsInv, ChatsTypeOK
<1>5. ChatsInv'
  BY <1>2, <1>3, <1>4, PostOnlyKeeps
<1> QED BY <1>2, <1>5

LEMMA ServedKeeps ==
  ASSUME ChatsInv, NEW p \in Posters, Served(p), UNCHANGED <<offered, msg, mark, seen, clock>>,
         thread' \in BOOLEAN
  PROVE  ChatsInv'
<1>1. ChatsTypeOK'
  BY ServedTyped DEF ChatsInv, ChatsTypeOK, Serving, Row
<1>2. \A q \in Posters : post'[q] = post[q] \/ (post'[q].op = "none" /\ post'[q].when = 0)
  BY PostTyped, AtEaseTyped DEF Served, ChatsInv
<1>3. clock' = clock /\ clock \in Nat
  BY AddressChatsAssumption DEF ChatsInv, ChatsTypeOK
<1> QED BY <1>1, <1>2, <1>3, PostOnlyKeeps

LEMMA ChatsPreserved == ChatsInv /\ [NextChats]_chatVars => ChatsInv'
<1> SUFFICES ASSUME ChatsInv, [NextChats]_chatVars PROVE ChatsInv'
  OBVIOUS
<1>0. clock \in Nat /\ MaxTime \in Nat /\ \A q \in Posters : post[q].when \in Nat /\ post[q].when <= clock
  BY AddressChatsAssumption DEF ChatsInv, ChatsTypeOK, StampsArePast
<1>1. ASSUME NEW p \in Posters, NEW u \in Readers, OpenFromApplication(p, u) PROVE ChatsInv'
  BY <1>1, OpenTyped DEF OpenFromApplication
<1>2. ASSUME NEW p \in Posters, OpenFromCatalogue(p) PROVE ChatsInv'
  BY <1>2, OpenTyped, AddressChatsAssumption DEF OpenFromCatalogue
<1>3. ASSUME NEW p \in Posters, NEW u \in Readers, MarkReads(p, u) PROVE ChatsInv'
  <2> DEFINE rec == [AtEase EXCEPT !.op = "mark", !.user = u, !.saw = mark[u], !.when = clock']
  <2>1. clock' = clock + 1 /\ clock' \in 0..MaxTime /\ UNCHANGED <<msg, mark, seen>>
    BY <1>0, <1>3 DEF MarkReads, Stamp, ChatsInv, ChatsTypeOK
  <2>2. rec \in Serving
    BY <2>1, AddressChatsAssumption DEF AtEase, Serving, ChatsInv, ChatsTypeOK
  <2>3. post' = [post EXCEPT ![p] = rec]
    BY <1>3 DEF MarkReads, Serve
  <2>4. rec.op = "mark" /\ rec.user = u /\ rec.when = clock'
    BY DEF AtEase
  <2> HIDE DEF rec
  <2>5. ChatsTypeOK'
    BY <1>3, <2>1, <2>2, <2>3, ServeTyped DEF MarkReads, ChatsInv, ChatsTypeOK, Serving
  <2>6. \A q \in Posters : post'[q] = post[q] \/ (post'[q].op = "mark" /\ post'[q].user = u /\ post'[q].when = clock')
    BY <2>3, <2>4, PostTyped DEF ChatsInv
  <2>7. clock' >= clock /\ clock' <= clock'
    BY <1>0, <2>1
  <2> QED BY <2>1, <2>5, <2>6, <2>7, PostOnlyKeeps
<1>4. ASSUME NEW p \in Posters, OpenEnds(p) \/ PostRefused(p) PROVE ChatsInv'
  BY <1>4, ServedKeeps DEF OpenEnds, PostRefused, ChatsInv, ChatsTypeOK
<1>5. ASSUME NEW p \in Posters, MarkEnds(p) \/ PostCommits(p) PROVE ChatsInv'
  <2>1. CASE MarkBreaks(p)
    BY <1>5, <2>1, ServedKeeps DEF MarkEnds, PostCommits, ChatsInv, ChatsTypeOK
  <2>2. CASE ~MarkBreaks(p)
    <3>1. post[p].op \in {"mark", "posting"} /\ post[p].user \in Readers
      BY <1>5 DEF MarkEnds, PostCommits, ChatsInv, MarkersAreReaders
    <3>2. mark' = Marked(p) /\ seen' = Covered(p) /\ Served(p) /\ UNCHANGED <<clock, offered, thread>>
      BY <1>5, <2>2 DEF MarkEnds, PostCommits
    <3>3. \/ UNCHANGED msg
          \/ /\ Posting(p)
             /\ msg' = [msg EXCEPT ![post[p].msg].kept = TRUE]
      BY <1>5, <2>2 DEF MarkEnds, PostCommits, Posting
    <3>4. msg' \in [Messages -> Row]
      <4>1. CASE UNCHANGED msg
        BY <4>1 DEF ChatsInv, ChatsTypeOK, Row
      <4>2. CASE Posting(p) /\ msg' = [msg EXCEPT ![post[p].msg].kept = TRUE]
        <5>1. post[p].msg \in Messages
          BY <4>2 DEF ChatsInv, PostedHaveReaders
        <5>2. [msg[post[p].msg] EXCEPT !.kept = TRUE] \in Row
          <6>1. msg[post[p].msg] \in Row
            BY <5>1 DEF ChatsInv, ChatsTypeOK, Row
          <6> QED BY <6>1 DEF Row
        <5> QED BY <4>2, <5>1, <5>2 DEF ChatsInv, ChatsTypeOK, Row
      <4> QED BY <3>3, <4>1, <4>2
    <3>5. ChatsTypeOK'
      BY <3>1, <3>2, <3>4, MarkedTyped, CoveredTyped, ServedTyped DEF ChatsInv, ChatsTypeOK, Serving, Row
    <3>6. UNCHANGED clock
      BY <3>2
    <3> QED BY <3>1, <3>2, <3>3, <3>5, <3>6, MarkKeeps
  <2> QED BY <2>1, <2>2
<1>6. ASSUME NEW p \in Posters, PostReadsMark(p) PROVE ChatsInv'
  <2>1. clock' = clock + 1 /\ clock' \in 0..MaxTime /\ UNCHANGED <<msg, mark, seen>> /\ post[p].op = "post"
    BY <1>0, <1>6 DEF PostReadsMark, Stamp, ChatsInv, ChatsTypeOK
  <2>2. PICK rec : rec = [post[p] EXCEPT !.op = "posting", !.saw = mark[post[p].user], !.when = clock']
    OBVIOUS
  <2>3. post[p].user \in Readers /\ post[p] \in Serving
    BY <2>1 DEF ChatsInv, MarkersAreReaders, ChatsTypeOK, Serving
  <2>4. mark[post[p].user] \in 0..MaxTime
    BY <2>3 DEF ChatsInv, ChatsTypeOK
  <2>5. rec \in Serving /\ rec.op = "posting" /\ rec.user = post[p].user /\ rec.msg = post[p].msg /\ rec.when = clock'
    BY <2>1, <2>2, <2>3, <2>4 DEF Serving
  <2>6. post' = [post EXCEPT ![p] = rec]
    BY <1>6, <2>2 DEF PostReadsMark, ChatsInv, ChatsTypeOK
  <2>7. ChatsTypeOK'
    BY <1>6, <2>1, <2>5, <2>6, ServeTyped DEF PostReadsMark, ChatsInv, ChatsTypeOK, Serving
  <2>8. \A q \in Posters :
           \/ post'[q] = post[q]
           \/ /\ post[q].op = "post" /\ post'[q].op = "posting" /\ post'[q].msg = post[q].msg
              /\ post'[q].user = post[q].user /\ post'[q].when <= clock'
    BY <1>0, <2>1, <2>5, <2>6, PostTyped DEF ChatsInv
  <2>9. clock' >= clock
    BY <1>0, <2>1
  <2> QED BY <2>1, <2>7, <2>8, <2>9, PostOnlyKeeps
<1>7. ASSUME NEW p \in Posters, NEW u \in Readers, NEW m \in Messages, PostStarts(p, u, m) PROVE ChatsInv'
  <2>1. clock' = clock + 1 /\ clock' \in 0..MaxTime
    BY <1>0, <1>7 DEF PostStarts, Stamp, ChatsInv, ChatsTypeOK
  <2>2. [AtEase EXCEPT !.op = "post", !.user = u, !.msg = m] \in Serving
    BY AtEaseTyped DEF Serving
  <2>3. [msg[m] EXCEPT !.author = u, !.at = clock'] \in Row
    <3>1. msg[m] \in Row
      BY DEF ChatsInv, ChatsTypeOK, Row
    <3> QED BY <2>1, <3>1 DEF Row
  <2>4. msg' \in [Messages -> Row]
    BY <1>7, <2>3 DEF PostStarts, ChatsInv, ChatsTypeOK, Row
  <2>5. post' \in [Posters -> Serving]
    BY <1>7, <2>2, ServeTyped DEF PostStarts, Serve, ChatsInv
  <2>6. ChatsTypeOK'
    BY <1>7, <2>1, <2>4, <2>5 DEF PostStarts, ChatsInv, ChatsTypeOK, Serving, Row
  <2> QED BY <1>7, <2>6, PostStartKeeps
<1>8. ASSUME UNCHANGED <<thread, msg, mark, post, clock, seen>>, offered' \in BOOLEAN PROVE ChatsInv'
  <2>1. ChatsTypeOK'
    BY <1>8 DEF ChatsInv, ChatsTypeOK
  <2>2. clock' >= clock
    BY <1>0, <1>8
  <2>3. UNCHANGED <<msg, mark, seen>> /\ \A p \in Posters : post'[p] = post[p]
    BY <1>8
  <2> QED BY <2>1, <2>2, <2>3, PostOnlyKeeps
<1>9. CASE OfferChanges \/ UNCHANGED chatVars
  BY <1>8, <1>9 DEF OfferChanges, chatVars, ChatsInv, ChatsTypeOK
<1> QED BY <1>1, <1>2, <1>3, <1>4, <1>5, <1>6, <1>7, <1>9 DEF NextChats

(* For any readers, messages and requests: a message of another person     *)
(* that a reader's last mark did not cover is counted as unread, unless it *)
(* was being posted while the mark was committed (unread_counts,           *)
(* mark_read, which take no lock).                                         *)
THEOREM OnlyOpenAreLost == SpecChats => []OnlyOpenMessagesAreLost
<1>1. ChatsInv => OnlyOpenMessagesAreLost
  BY DEF ChatsInv
<1> QED BY <1>1, ChatsBegin, ChatsPreserved, PTL DEF SpecChats
-----------------------------------------------------------------------------
(* Reminders: what a run is about to send has not been sent; there is one  *)
(* run at a time.                                                          *)
AddsAreNew == \A n \in mailer.adds, t \in told : t.notice # n
RemindersInv == AddsAreNew /\ OneReminderPerMilestone

LEMMA FoundIsNew ==
  \A n \in StageNotices \cup ContractNotices \cup DocumentNotices \cup RegistrationNotices, t \in told :
    t.notice # n
<1>1. ASSUME NEW kind, NEW day, NEW left, ~AlreadySent(kind, day, left), NEW to, NEW t \in told
      PROVE  t.notice # Notice(kind, day, left, to)
  BY <1>1 DEF AlreadySent, Notice
<1> QED BY <1>1 DEF StageNotices, ContractNotices, DocumentNotices, RegistrationNotices

LEMMA RemindersPreserved == RemindersInv /\ [NextReminders]_reminderVars => RemindersInv'
<1> SUFFICES ASSUME RemindersInv, [NextReminders]_reminderVars PROVE RemindersInv'
  OBVIOUS
<1>1. ASSUME UNCHANGED <<mailer, told>> PROVE RemindersInv'
  BY <1>1 DEF RemindersInv, AddsAreNew, OneReminderPerMilestone
<1>2. ASSUME NEW r \in Requests, NEW m \in Moves, MoveReads(r, m) PROVE RemindersInv'
  BY <1>1, <1>2 DEF MoveReads, calendarVars
<1>3. ASSUME NEW r \in Requests, MoveWrites(r) \/ MoveFails(r) PROVE RemindersInv'
  BY <1>1, <1>3 DEF MoveWrites, MoveFails, calendarVars
<1>4. CASE \/ OrderIsPaid \/ RegistrationConfirmed \/ NextDay
           \/ \E d \in Days : ReceiptUploaded(d)
           \/ \E u \in Landlords : SwitchLandlord(u)
  BY <1>1, <1>4 DEF OrderIsPaid, RegistrationConfirmed, NextDay, ReceiptUploaded, SwitchLandlord, calendarVars
<1>5. ASSUME NEW kind, NEW found, RunFinds(kind, found), \A n \in found, t \in told : t.notice # n
      PROVE  RemindersInv'
  BY <1>5 DEF RunFinds, RemindersInv, AddsAreNew, OneReminderPerMilestone
<1>6. CASE RunFinds("stage", StageNotices) \/ RunFinds("contract", ContractNotices)
  BY <1>5, <1>6, FoundIsNew
<1>7. CASE RunFinds("document", DocumentNotices) \/ RunFinds("registration", RegistrationNotices)
  BY <1>5, <1>7, FoundIsNew
<1>8. CASE RunCommits
  <2>1. told' = told \cup {[run |-> RunNumber, notice |-> n] : n \in mailer.adds} /\ mailer'.adds = {}
    BY <1>8 DEF RunCommits, NoRun
  <2>2. \A t \in told' \ told : t.run = RunNumber /\ t.notice \in mailer.adds
    BY <2>1
  <2>3. OneReminderPerMilestone'
    BY <2>2 DEF OneReminderPerMilestone, RemindersInv, AddsAreNew
  <2> QED BY <2>1, <2>3 DEF RemindersInv, AddsAreNew
<1>9. CASE RunRefused \/ RunDies
  BY <1>9 DEF RunRefused, RunDies, NoRun, RemindersInv, AddsAreNew, OneReminderPerMilestone
<1>10. CASE UNCHANGED reminderVars
  BY <1>1, <1>10 DEF reminderVars
<1> QED BY <1>2, <1>3, <1>4, <1>6, <1>7, <1>8, <1>9, <1>10 DEF NextReminders, RunEnds

(* One date, one milestone, one addressee: one reminder, for any calendar, *)
(* milestones, requests and number of runs (_already_sent,                 *)
(* _existing_reminder_milestones, _reminded).                              *)
THEOREM RemindedOnce == SpecReminders => []OneReminderPerMilestone
<1>1. InitReminders => RemindersInv
  BY DEF InitReminders, RemindersInv, AddsAreNew, OneReminderPerMilestone
<1>2. RemindersInv => OneReminderPerMilestone
  BY DEF RemindersInv
<1> QED BY <1>1, <1>2, RemindersPreserved, PTL DEF SpecReminders

-----------------------------------------------------------------------------
(* Days and deadlines *)
(* Days at work among those after d, up to e. *)
WorkdaysTo(d, e) == {x \in (d + 1)..e : Workday(x)}

LEMMA OneDayMore ==
  ASSUME NEW d \in Nat, NEW e \in Nat, d <= e, IsFiniteSet(WorkdaysTo(d, e))
  PROVE  /\ IsFiniteSet(WorkdaysTo(d, e + 1))
         /\ Cardinality(WorkdaysTo(d, e + 1)) = Cardinality(WorkdaysTo(d, e)) + IF Workday(e + 1) THEN 1 ELSE 0
<1>1. (d + 1)..(e + 1) = ((d + 1)..e) \cup {e + 1}
  OBVIOUS
<1>2. CASE Workday(e + 1)
  <2>1. WorkdaysTo(d, e + 1) = WorkdaysTo(d, e) \cup {e + 1} /\ e + 1 \notin WorkdaysTo(d, e)
    BY <1>1, <1>2 DEF WorkdaysTo
  <2> QED BY <1>2, <2>1, FS_AddElement
<1>3. CASE ~Workday(e + 1)
  <2>1. WorkdaysTo(d, e + 1) = WorkdaysTo(d, e)
    BY <1>1, <1>3 DEF WorkdaysTo
  <2> QED BY <1>3, <2>1, FS_CardinalityType
<1> QED BY <1>2, <1>3

(* Such a day is never far: nobody rests three days in a row.              *)
LEMMA DeadlineExists ==
  ASSUME NEW d \in Nat, NEW n \in 1..3
  PROVE  \E e \in (d + 1)..(d + n + 2) : Workday(e) /\ Cardinality(WorkdaysTo(d, e)) = n
<1> DEFINE W(i) == IF Workday(d + i) THEN 1 ELSE 0
           C(i) == Cardinality(WorkdaysTo(d, d + i))
           Fin(i) == IsFiniteSet(WorkdaysTo(d, d + i))
<1>1. Fin(0) /\ C(0) = 0
  <2>1. WorkdaysTo(d, d + 0) = {}
    BY DEF WorkdaysTo
  <2> QED BY <2>1, FS_EmptySet
<1>2. \A i \in 0..4 : Fin(i) => Fin(i + 1) /\ C(i + 1) = C(i) + W(i + 1)
  <2> TAKE i \in 0..4
  <2>1. d + i \in Nat /\ d <= d + i /\ (d + i) + 1 = d + (i + 1)
    OBVIOUS
  <2> QED BY <2>1, OneDayMore
<1>3. /\ Workday(d + 1) <=> (d + 2) % 7 < 5
      /\ Workday(d + 2) <=> (d + 3) % 7 < 5
      /\ Workday(d + 3) <=> (d + 4) % 7 < 5
      /\ Workday(d + 4) <=> (d + 5) % 7 < 5
      /\ Workday(d + 5) <=> (d + 6) % 7 < 5
  BY DEF Workday
(* Five days in a row hold three days at work, three days one.             *)
<1>4. LET r == d % 7 IN
      /\ r \in 0..6
      /\ Workday(d + 1) <=> r \notin {3, 4}
      /\ Workday(d + 2) <=> r \notin {2, 3}
      /\ Workday(d + 3) <=> r \notin {1, 2}
      /\ Workday(d + 4) <=> r \notin {0, 1}
      /\ Workday(d + 5) <=> r \notin {6, 0}
  BY <1>3
<1>5. \A i \in 1..5 : W(i) = IF Workday(d + i) THEN 1 ELSE 0
  OBVIOUS
<1> HIDE DEF C, W, Fin
<1>6. Fin(1) /\ C(1) = W(1)
  BY <1>1, <1>2, <1>5
<1>7. Fin(2) /\ C(2) = W(1) + W(2)
  BY <1>6, <1>2, 1 + 1 = 2
<1>8. Fin(3) /\ C(3) = W(1) + W(2) + W(3)
  BY <1>7, <1>2, 2 + 1 = 3
<1>9. Fin(4) /\ C(4) = W(1) + W(2) + W(3) + W(4)
  BY <1>8, <1>2, 3 + 1 = 4
<1>10. C(5) = W(1) + W(2) + W(3) + W(4) + W(5)
  BY <1>9, <1>2, 4 + 1 = 5
<1>11. \E i \in 1..(n + 2) : Workday(d + i) /\ C(i) = n
  BY <1>4, <1>5, <1>6, <1>7, <1>8, <1>9, <1>10
<1>12. PICK i \in 1..(n + 2) : Workday(d + i) /\ C(i) = n
  BY <1>11
<1>13. Cardinality(WorkdaysTo(d, d + i)) = n /\ d + i \in (d + 1)..(d + n + 2)
  BY <1>12 DEF C
<1> QED BY <1>12, <1>13

(* The deadline of a stage is a day at work, that many days at work after  *)
(* the move (add_business_days).                                           *)
LEMMA DeadlineIsWorkday ==
  ASSUME NEW d \in Nat, NEW n \in 1..3
  PROVE  LET e == AddBusinessDays(d, n) IN
         e \in (d + 1)..(d + n + 2) /\ Workday(e) /\ Cardinality(WorkdaysTo(d, e)) = n
<1>1. AddBusinessDays(d, n) = CHOOSE e \in (d + 1)..(d + n + 2) :
         Workday(e) /\ Cardinality(WorkdaysTo(d, e)) = n
  BY DEF AddBusinessDays, WorkdaysTo
<1> QED BY <1>1, DeadlineExists

LEMMA SlaDueIsADay ==
  ASSUME NEW st, NEW d \in Nat
  PROVE  SlaDue(st, d) \in Nat
<1>1. CASE st \in DOMAIN SlaRules
  <2>1. SlaRules[st][2] \in 1..3
    BY <1>1 DEF SlaRules
  <2>2. AddBusinessDays(d, SlaRules[st][2]) \in (d + 1)..(d + SlaRules[st][2] + 2)
    BY <2>1, DeadlineIsWorkday
  <2> QED BY <1>1, <2>1, <2>2 DEF SlaDue
<1>2. CASE st \notin DOMAIN SlaRules
  BY <1>2 DEF SlaDue, NoDay
<1> QED BY <1>1, <1>2

(* Runs are numbered from one: without the types of those that told, the   *)
(* numbers could not be counted.                                           *)
LEMMA NextRunCounts ==
  ASSUME RemindersTypeOK
  PROVE  RunNumber \in Nat \ {0}
<1>1. {t.run : t \in told} \subseteq 1..MaxRuns
  BY DEF RemindersTypeOK
<1>2. 1 \in Int /\ MaxRuns \in Int
  BY RemindersAssumption
<1>3. IsFiniteSet(1..MaxRuns)
  BY <1>2, FS_Interval
<1>4. Cardinality({t.run : t \in told}) \in Nat
  BY <1>1, <1>3, FS_Subset, FS_CardinalityType
<1> QED BY <1>4 DEF RunNumber

LEMMA RemindersTypeKept == RemindersTypeOK /\ [NextReminders]_reminderVars => RemindersTypeOK'
<1> SUFFICES ASSUME RemindersTypeOK, [NextReminders]_reminderVars PROVE RemindersTypeOK'
  OBVIOUS
<1> USE DEF RemindersTypeOK
<1>0. PICK n \in Nat : Days = 1..n
  BY RemindersAssumption, FS_CardinalityType
<1>1. NoDraft \in [seen : Nat, new : Nat] /\ NoRun.kind = "none" /\ NoDay = 0
  BY DEF NoDraft, NoRun, NoDay
<1>2. ASSUME NEW r \in Requests, NEW m \in Moves, MoveReads(r, m) PROVE RemindersTypeOK'
  <2>1. SlaDue(To(m), today) \in Nat
    BY <1>0, SlaDueIsADay
  <2>2. draft' = [draft EXCEPT ![r] = [seen |-> due, new |-> SlaDue(To(m), today)]]
        /\ UNCHANGED <<due, today, expected, confirmed, working, mailer, told>>
    BY <1>2 DEF MoveReads, calendarVars
  <2> QED BY <2>1, <2>2
<1>3. ASSUME NEW r \in Requests, MoveWrites(r) \/ MoveFails(r) PROVE RemindersTypeOK'
  <2>1. draft' = [draft EXCEPT ![r] = NoDraft] /\ (due' = due \/ due' = draft[r].new)
        /\ UNCHANGED <<today, expected, confirmed, working, mailer, told>>
    BY <1>3 DEF MoveWrites, MoveFails, calendarVars
  <2> QED BY <1>1, <2>1
<1>4. CASE OrderIsPaid \/ RegistrationConfirmed \/ NextDay
  BY <1>4 DEF OrderIsPaid, RegistrationConfirmed, NextDay, calendarVars
<1>5. ASSUME NEW d \in Days, ReceiptUploaded(d) PROVE RemindersTypeOK'
  BY <1>5 DEF ReceiptUploaded
<1>6. ASSUME NEW u \in Landlords, SwitchLandlord(u) PROVE RemindersTypeOK'
  BY <1>6 DEF SwitchLandlord
<1>7. ASSUME NEW kind \in {"stage", "contract", "document", "registration"}, NEW found, RunFinds(kind, found)
      PROVE  RemindersTypeOK'
  BY <1>7 DEF RunFinds
<1>8. CASE RunCommits
  <2>1. RunNumber \in 1..MaxRuns /\ mailer' = NoRun
        /\ told' = told \cup {[run |-> RunNumber, notice |-> n1] : n1 \in mailer.adds}
        /\ UNCHANGED <<due, draft, today, expected, confirmed, working>>
    BY <1>8, NextRunCounts, RemindersAssumption DEF RunCommits
  <2>2. \A t \in told' : t.run \in 1..MaxRuns
    BY <2>1
  <2> QED BY <1>1, <2>1, <2>2
<1>9. CASE RunRefused \/ RunDies
  BY <1>1, <1>9 DEF RunRefused, RunDies
<1>10. CASE UNCHANGED reminderVars
  BY <1>10 DEF reminderVars
<1> QED BY <1>2, <1>3, <1>4, <1>5, <1>6, <1>7, <1>8, <1>9, <1>10 DEF NextReminders, RunEnds

LEMMA RemindersTyped == SpecReminders => []RemindersTypeOK
<1>1. InitReminders => RemindersTypeOK
  <2> SUFFICES ASSUME InitReminders PROVE RemindersTypeOK
    OBVIOUS
  <2>1. 1 \in Days /\ NoDraft \in [seen : Nat, new : Nat]
    BY RemindersAssumption, FS_CardinalityType DEF NoDraft, NoDay
  <2> QED BY <2>1 DEF InitReminders, RemindersTypeOK, NoRun, NoDay
<1> QED BY <1>1, RemindersTypeKept, PTL DEF SpecReminders

-----------------------------------------------------------------------------
(* Stored files *)

(* The bytes are put before a row can name them, and nothing takes them.   *)
PutIsThere == \A u \in Uploaders : upload[u].at \in {"put", "looked"} => upload[u].key \in bytes
KeysAreKnown == \A u \in Uploaders : upload[u].at # "none" => upload[u].key \in Keys
(* What an upload is for once it looks for the current extract. *)
LooksForExtract == \A u \in Uploaders : upload[u].at = "looked" => upload[u].use = "extract"
(* Either there has been no extract or the newest is the current one.      *)
NewestIsCurrent ==
  \/ current = {} /\ \A f \in Stored : use[f] # "extract"
  \/ \E f \in Stored : current = {f} /\ use[f] = "extract"
FilesInv == /\ FilesTypeOK /\ KeysAreKnown /\ PutIsThere /\ LooksForExtract
            /\ NewestIsCurrent /\ RowsHaveBytes

LEMMA FilesBegin == InitFiles => FilesInv
<1> SUFFICES ASSUME InitFiles PROVE FilesInv
  OBVIOUS
<1>1. NoUpload \in UploadType /\ NoUpload.at = "none"
  BY DEF NoUpload, UploadType
<1>2. Stored = {}
  BY DEF InitFiles, Stored
<1>3. FilesTypeOK
  BY <1>1 DEF InitFiles, FilesTypeOK
<1>4. KeysAreKnown /\ PutIsThere /\ LooksForExtract
  BY <1>1 DEF InitFiles, KeysAreKnown, PutIsThere, LooksForExtract
<1>5. NewestIsCurrent /\ RowsHaveBytes
  BY <1>2 DEF InitFiles, NewestIsCurrent, RowsHaveBytes
<1> QED BY <1>3, <1>4, <1>5 DEF FilesInv

(* An upload that goes on or fails changes no row. *)
LEMMA UploadGoes ==
  ASSUME FilesInv, NEW u \in Uploaders, NEW rec \in UploadType, Goes(u, rec),
         UNCHANGED <<file, use, current, stage>>, bytes \subseteq bytes', bytes' \subseteq Keys,
         rec.at # "none" => rec.key \in Keys,
         rec.at \in {"put", "looked"} => rec.key \in bytes',
         rec.at = "looked" => rec.use = "extract"
  PROVE  FilesInv'
<1>1. upload \in [Uploaders -> UploadType] /\ upload' = [upload EXCEPT ![u] = rec]
  BY DEF FilesInv, FilesTypeOK, Goes
<1>2. \A v \in Uploaders : upload'[v] = IF v = u THEN rec ELSE upload[v]
  BY <1>1
<1>3. FilesTypeOK'
  BY <1>1 DEF FilesInv, FilesTypeOK
<1>4. KeysAreKnown' /\ PutIsThere' /\ LooksForExtract'
  BY <1>2 DEF FilesInv, KeysAreKnown, PutIsThere, LooksForExtract
<1>5. Stored' = Stored
  BY DEF Stored
<1>6. NewestIsCurrent' /\ RowsHaveBytes'
  BY <1>5 DEF FilesInv, NewestIsCurrent, RowsHaveBytes
<1> QED BY <1>3, <1>4, <1>6 DEF FilesInv

LEMMA UploadStepKeeps ==
  ASSUME FilesInv, NEW u \in Uploaders,
         PutBytes(u) \/ LooksForCurrent(u) \/ UploadFails(u)
  PROVE  FilesInv'
<1>typed. upload[u] \in UploadType /\ bytes \subseteq Keys /\ current \subseteq Files
  BY DEF FilesInv, FilesTypeOK
<1>1. CASE PutBytes(u)
  <2> DEFINE rec == [upload[u] EXCEPT !.at = "put"]
  <2>1. rec \in UploadType /\ rec.at = "put" /\ rec.key = upload[u].key
    BY <1>typed DEF UploadType
  <2>2. Goes(u, rec) /\ UNCHANGED <<file, use, current, stage>> /\ bytes' = bytes \cup {upload[u].key}
    BY <1>1 DEF PutBytes
  <2>3. upload[u].key \in Keys
    BY <1>1 DEF FilesInv, KeysAreKnown, PutBytes
  <2> HIDE DEF rec
  <2> QED BY <1>typed, <2>1, <2>2, <2>3, UploadGoes
<1>2. CASE LooksForCurrent(u)
  <2> DEFINE rec == [upload[u] EXCEPT !.at = "looked", !.old = current]
  <2>1. rec \in UploadType /\ rec.at = "looked" /\ rec.key = upload[u].key /\ rec.use = upload[u].use
    BY <1>typed DEF UploadType
  <2>2. Goes(u, rec) /\ UNCHANGED <<bytes, file, use, current, stage>> /\ upload[u].at = "put"
        /\ upload[u].use = "extract"
    BY <1>2 DEF LooksForCurrent
  <2>3. upload[u].key \in bytes \cap Keys
    BY <2>2 DEF FilesInv, KeysAreKnown, PutIsThere
  <2> HIDE DEF rec
  <2> QED BY <1>typed, <2>1, <2>2, <2>3, UploadGoes
<1>3. CASE UploadFails(u)
  <2>1. NoUpload \in UploadType /\ NoUpload.at = "none"
    BY DEF NoUpload, UploadType
  <2> QED BY <1>typed, <1>3, <2>1, UploadGoes DEF UploadFails
<1> QED BY <1>1, <1>2, <1>3

LEMMA ReadingKeeps ==
  ASSUME FilesInv, NEW u \in Uploaders, NEW what \in Uses, NEW k \in Keys, UploadReads(u, what, k)
  PROVE  FilesInv'
<1> DEFINE rec == [NoUpload EXCEPT !.at = "read", !.use = what, !.key = k]
<1>1. rec \in UploadType /\ rec.at = "read" /\ rec.key = k
  BY DEF NoUpload, UploadType
<1>2. Goes(u, rec) /\ UNCHANGED <<bytes, file, use, current, stage>>
  BY DEF UploadReads
<1>3. bytes \subseteq Keys
  BY DEF FilesInv, FilesTypeOK
<1> HIDE DEF rec
<1> QED BY <1>1, <1>2, <1>3, UploadGoes

(* A committed upload makes one row of its bytes. *)
LEMMA CommitKeeps ==
  ASSUME FilesInv, NEW u \in Uploaders, NEW f \in Files, UploadCommits(u, f) \/ ExtractCommits(u, f)
  PROVE  FilesInv'
<1>1. /\ upload[u].at \in {"put", "looked"} /\ Unused(f) /\ bytes' = bytes
      /\ file' = [file EXCEPT ![f] = upload[u].key] /\ use' = [use EXCEPT ![f] = upload[u].use]
      /\ upload' = [upload EXCEPT ![u] = NoUpload]
  BY DEF UploadCommits, ExtractCommits, KeepsRow, Goes
<1>2. upload[u].key \in bytes \cap Keys /\ upload[u].key # NoFile
  BY <1>1, FilesAssumption DEF FilesInv, KeysAreKnown, PutIsThere
<1>3. NoUpload \in UploadType /\ NoUpload.at = "none"
  BY DEF NoUpload, UploadType
<1>4. /\ file \in [Files -> Keys \cup {NoFile}] /\ use \in [Files -> Uses \cup {"none", "left"}]
      /\ upload \in [Uploaders -> UploadType] /\ upload[u].use \in Uses \cup {"none"}
  BY DEF FilesInv, FilesTypeOK, UploadType
<1>5. Stored' = Stored \cup {f} /\ f \notin Stored
  BY <1>1, <1>2, <1>4 DEF Stored, Unused
<1>6. /\ use'[f] = upload[u].use /\ file'[f] = upload[u].key
      /\ \A g \in Stored : use'[g] = use[g] /\ file'[g] = file[g]
  BY <1>1, <1>4, <1>5 DEF Stored
<1>7. FilesTypeOK'
  <2>1. current' \subseteq Files
    BY DEF UploadCommits, ExtractCommits, FilesInv, FilesTypeOK
  <2>2. stage' \in {"preparing", "review", "revision", "ready", "completed"}
    BY DEF UploadCommits, ExtractCommits, FilesInv, FilesTypeOK
  <2> QED BY <1>1, <1>2, <1>3, <1>4, <2>1, <2>2 DEF FilesInv, FilesTypeOK
<1>8. KeysAreKnown' /\ PutIsThere' /\ LooksForExtract'
  <2>1. \A v \in Uploaders : upload'[v] = IF v = u THEN NoUpload ELSE upload[v]
    BY <1>1, <1>4
  <2> QED BY <1>1, <1>3, <2>1 DEF FilesInv, KeysAreKnown, PutIsThere, LooksForExtract
<1>9. RowsHaveBytes'
  BY <1>1, <1>2, <1>5, <1>6 DEF FilesInv, RowsHaveBytes
<1>10. NewestIsCurrent'
  <2>1. CASE UploadCommits(u, f)
    <3>1. upload[u].use # "extract" /\ current' = current
      BY <2>1 DEF UploadCommits
    <3> QED BY <1>5, <1>6, <3>1 DEF FilesInv, NewestIsCurrent
  <2>2. CASE ExtractCommits(u, f)
    <3>1. current' = {f}
      BY <2>2 DEF ExtractCommits, IndexAllows
    <3>2. upload[u].use = "extract"
      BY <2>2 DEF ExtractCommits, FilesInv, LooksForExtract
    <3> QED BY <1>5, <1>6, <3>1, <3>2 DEF NewestIsCurrent
  <2> QED BY <2>1, <2>2
<1> QED BY <1>7, <1>8, <1>9, <1>10 DEF FilesInv

LEMMA RestOfFilesKeeps ==
  ASSUME FilesInv, (\E f \in Files : DeleteDocument(f)) \/ StageMoves \/ UNCHANGED fileVars
  PROVE  FilesInv'
<1>1. UNCHANGED <<bytes, file, current, upload>> /\ Stored' = Stored
  BY DEF DeleteDocument, StageMoves, fileVars, Stored
<1>2. \A g \in Files : (use'[g] = "extract") <=> (use[g] = "extract")
  BY DEF DeleteDocument, StageMoves, fileVars, FilesInv, FilesTypeOK
<1>3. FilesTypeOK'
  BY DEF DeleteDocument, StageMoves, fileVars, FilesInv, FilesTypeOK
<1>4. KeysAreKnown' /\ PutIsThere' /\ LooksForExtract' /\ RowsHaveBytes'
  BY <1>1 DEF FilesInv, KeysAreKnown, PutIsThere, LooksForExtract, RowsHaveBytes
<1>5. NewestIsCurrent'
  BY <1>1, <1>2 DEF FilesInv, NewestIsCurrent, Stored
<1> QED BY <1>3, <1>4, <1>5 DEF FilesInv

LEMMA FilesPreserved ==
  ASSUME FilesInv, [NextFiles]_fileVars
  PROVE  FilesInv'
<1>1. ASSUME NEW u \in Uploaders, NEW what \in Uses, NEW k \in Keys, UploadReads(u, what, k)
      PROVE  FilesInv'
  BY <1>1, ReadingKeeps
<1>2. ASSUME NEW u \in Uploaders, PutBytes(u) \/ LooksForCurrent(u) \/ UploadFails(u)
      PROVE  FilesInv'
  BY <1>2, UploadStepKeeps
<1>3. ASSUME NEW u \in Uploaders, NEW f \in Files, UploadCommits(u, f) \/ ExtractCommits(u, f)
      PROVE  FilesInv'
  BY <1>3, CommitKeeps
<1> QED BY <1>1, <1>2, <1>3, RestOfFilesKeeps DEF NextFiles

(* A committed row has its bytes (create_stored_file_record). *)
THEOREM BytesStay == SpecFiles => []RowsHaveBytes
<1>1. FilesInv /\ [NextFiles]_fileVars => FilesInv'
  BY FilesPreserved
<1>2. FilesInv => RowsHaveBytes
  BY DEF FilesInv
<1> QED BY FilesBegin, <1>1, <1>2, PTL DEF SpecFiles

(* An address with an extract has exactly one current extract, however     *)
(* many are uploaded at once (upload_extract).                             *)
THEOREM OneIsCurrent == SpecFiles => []OneCurrentExtract
<1>1. FilesInv /\ [NextFiles]_fileVars => FilesInv'
  BY FilesPreserved
<1>2. FilesInv => OneCurrentExtract
  <2> SUFFICES ASSUME FilesInv PROVE OneCurrentExtract
    OBVIOUS
  <2>1. CASE current = {} /\ \A f \in Stored : use[f] # "extract"
    BY <2>1, FS_EmptySet DEF OneCurrentExtract
  <2>2. ASSUME NEW f \in Stored, current = {f}, use[f] = "extract"
        PROVE  OneCurrentExtract
    BY <2>2, FS_Singleton DEF OneCurrentExtract
  <2> QED BY <2>1, <2>2 DEF FilesInv, NewestIsCurrent
<1> QED BY FilesBegin, <1>1, <1>2, PTL DEF SpecFiles

-----------------------------------------------------------------------------
(* Photos of an address: an upload that was counted turns into a row.      *)
Uploading == {s \in Staff : job[s].op = "upload"}
JobOps == PublicationOps \cup PhotoOps \cup {"none", "upload", "upsert", "drop", "stale"}
JobRow == [op : JobOps, on : Photos \cup Kinds \cup {NoPhoto}, seen : PhotoRow]
PhotosInv ==
  /\ job \in [Staff -> JobRow] /\ photo \in [Photos -> PhotoRow]
  /\ IsFiniteSet(PhotoRows)
  /\ Cardinality(PhotoRows) + Cardinality(Uploading) < MaxPhotos + Cardinality(Staff)

LEMMA StaffIsFinite ==
  /\ Cardinality(Staff) \in Nat /\ IsFiniteSet(Uploading)
  /\ Cardinality(Uploading) \in Nat /\ Cardinality(Uploading) <= Cardinality(Staff)
  BY PageAssumption, FS_Subset, FS_CardinalityType DEF Uploading

(* No row more, no upload more.                                            *)
LEMMA NothingAdded ==
  ASSUME PhotosInv, job' \in [Staff -> JobRow],
         photo' \in [Photos -> PhotoRow],
         PhotoRows' \subseteq PhotoRows, Uploading' \subseteq Uploading
  PROVE  PhotosInv'
<1>1. IsFiniteSet(PhotoRows') /\ Cardinality(PhotoRows') <= Cardinality(PhotoRows)
      /\ Cardinality(PhotoRows') \in Nat /\ Cardinality(PhotoRows) \in Nat
  BY FS_Subset, FS_CardinalityType DEF PhotosInv
<1>2. Cardinality(Uploading') <= Cardinality(Uploading) /\ Cardinality(Uploading') \in Nat
      /\ Cardinality(Uploading) \in Nat /\ Cardinality(Staff) \in Nat
  BY FS_Subset, FS_CardinalityType, StaffIsFinite
<1> QED BY <1>1, <1>2, PageAssumption DEF PhotosInv

LEMMA PhotosBegin == InitPage => PhotosInv
<1> SUFFICES ASSUME InitPage PROVE PhotosInv
  OBVIOUS
<1>1. PhotoRows = {} /\ Uploading = {}
  BY DEF InitPage, PhotoRows, Uploading, NoRow, NoJob
<1>2. NoRow \in PhotoRow /\ NoJob \in JobRow
  BY DEF NoRow, NoJob, PhotoRow, JobRow, JobOps
<1>3. job \in [Staff -> JobRow] /\ photo \in [Photos -> PhotoRow]
  BY <1>2 DEF InitPage
<1>4. IsFiniteSet(PhotoRows) /\ Cardinality(PhotoRows) = 0 /\ Cardinality(Uploading) = 0
  BY <1>1, FS_EmptySet
<1> QED BY <1>3, <1>4, StaffIsFinite, PageAssumption DEF PhotosInv

LEMMA PhotosPreserved == PhotosInv /\ [NextPage]_pageVars => PhotosInv'
<1> SUFFICES ASSUME PhotosInv, [NextPage]_pageVars PROVE PhotosInv'
  OBVIOUS
<1>0. NoRow \in PhotoRow /\ NoJob \in JobRow /\ NoJob.op = "none"
  BY DEF NoRow, NoJob, PhotoRow, JobRow, JobOps
<1>a. ASSUME NEW s \in Staff, JobEnds(s) \/ RowDeleted(s, job[s].on)
      PROVE  /\ job' \in [Staff -> JobRow]
             /\ Uploading' \subseteq Uploading /\ Uploading' \subseteq Staff \ {s}
  <2>1. job' = [z \in Staff |-> job'[z]] /\ job'[s] = NoJob
        /\ \A z \in Staff \ {s} : job'[z] = job[z] \/ job'[z] = [job[z] EXCEPT !.op = "stale"]
    BY <1>a DEF JobEnds, RowDeleted, PhotosInv
  <2>2. \A z \in Staff \ {s} : /\ job'[z].op = "upload" => job[z].op = "upload"
                               /\ job'[z] \in JobRow
    BY <2>1 DEF PhotosInv, JobRow, JobOps
  <2> QED BY <1>0, <2>1, <2>2 DEF Uploading, PhotosInv
<1>1. ASSUME NEW s \in Staff,
             \/ JobFails(s) \/ PublicationWrites(s) \/ ServiceDeleted(s)
             \/ \E as \in {"active", "hidden"} : Upserted(s, as)
      PROVE  PhotosInv'
  <2>1. photo' = photo /\ (JobEnds(s) \/ RowDeleted(s, job[s].on))
    BY <1>1 DEF JobFails, PublicationWrites, ServiceDeleted, Upserted
  <2>2. PhotoRows' = PhotoRows
    BY <2>1 DEF PhotoRows
  <2> QED BY <1>a, <2>1, <2>2, NothingAdded DEF PhotosInv
<1>b. ASSUME NEW s \in Staff, NEW op \in JobOps, NEW on \in Photos \cup Kinds \cup {NoPhoto}, NEW row \in PhotoRow, Takes(s, op, on, row)
      PROVE  /\ photo' = photo /\ PhotoRows' = PhotoRows /\ job' \in [Staff -> JobRow]
             /\ op # "upload" => Uploading' \subseteq Uploading
  <2>1. photo' = photo /\ job' = [job EXCEPT ![s] = [op |-> op, on |-> on, seen |-> row]]
    BY <1>b DEF Takes
  <2>2. PhotoRows' = PhotoRows
    BY <2>1 DEF PhotoRows
  <2> QED BY <2>1, <2>2 DEF PhotosInv, Uploading, JobRow
<1>2. ASSUME NEW s \in Staff, PhotoCounted(s) PROVE PhotosInv'
  <2>1. Cardinality(PhotoRows) < MaxPhotos /\ Takes(s, "upload", NoPhoto, NoRow)
    BY <1>2 DEF PhotoCounted, BelowPhotoLimit
  <2>2. /\ photo' = photo /\ PhotoRows' = PhotoRows /\ job' \in [Staff -> JobRow]
    BY <1>0, <1>b, <2>1 DEF JobOps
  <2>3. Cardinality(Uploading') <= Cardinality(Staff) /\ Cardinality(Uploading') \in Nat /\ Cardinality(Staff) \in Nat
    BY PageAssumption, FS_Subset, FS_CardinalityType DEF Uploading
  <2>4. Cardinality(PhotoRows) \in Nat
    BY FS_CardinalityType DEF PhotosInv
  <2> QED BY <2>1, <2>2, <2>3, <2>4, PageAssumption DEF PhotosInv
<1>3. ASSUME NEW s \in Staff, NEW p \in Photos, PhotoInserted(s, p) PROVE PhotosInv'
  <2>1. photo' \in [Photos -> PhotoRow] /\ PhotoRows' = PhotoRows \cup {p} /\ p \notin PhotoRows
    BY <1>3 DEF PhotoInserted, PhotoRows, NoRow, PhotosInv, PhotoRow
  <2>2. job' = [job EXCEPT ![s] = NoJob] /\ job[s].op = "upload"
    BY <1>3 DEF PhotoInserted, JobEnds
  <2>3. Uploading' = Uploading \ {s} /\ s \in Uploading
    BY <1>0, <2>2 DEF Uploading, PhotosInv
  <2>4. job' \in [Staff -> JobRow]
    BY <1>0, <2>2 DEF PhotosInv
  <2>5. IsFiniteSet(PhotoRows') /\ Cardinality(PhotoRows') = Cardinality(PhotoRows) + 1
    BY <2>1, FS_AddElement DEF PhotosInv
  <2>6. Cardinality(Uploading') = Cardinality(Uploading) - 1
    BY <2>3, FS_RemoveElement, StaffIsFinite
  <2>7. Cardinality(PhotoRows) \in Nat
    BY FS_CardinalityType DEF PhotosInv
  <2> QED BY <2>1, <2>4, <2>5, <2>6, <2>7, StaffIsFinite, PageAssumption DEF PhotosInv
<1>4. ASSUME NEW s \in Staff, PhotoWrites(s) PROVE PhotosInv'
  <2> DEFINE p == job[s].on
             new == Changed(Unmarked(job[s].op, p)[p], job[s].seen, Meant(job[s].op, job[s].seen))
  <2>1. /\ job[s].op \in {"approve", "reject", "set_main"} /\ p \in PhotoRows /\ JobEnds(s)
        /\ photo' = [Unmarked(job[s].op, p) EXCEPT ![p] = new]
    BY <1>4 DEF PhotoWrites, PhotoOps
  <2>2. \A q \in Photos : /\ Unmarked(job[s].op, p)[q] \in PhotoRow
                          /\ Unmarked(job[s].op, p)[q].status = photo[q].status
    BY DEF Unmarked, PhotosInv, PhotoRow
  <2>3. Meant(job[s].op, job[s].seen) \in PhotoRow
    <3>1. job[s].seen \in PhotoRow
      BY DEF PhotosInv, JobRow
    <3> QED BY <2>1, <3>1 DEF Meant, PhotoRow
  <2>4. p \in Photos /\ new \in PhotoRow
    BY <2>1, <2>2, <2>3 DEF Changed, PhotoRow, PhotoRows
  <2>5. DOMAIN Unmarked(job[s].op, p) = Photos
    BY DEF Unmarked
  <2> HIDE DEF new, p
  <2>6. photo' \in [Photos -> PhotoRow]
    BY <2>1, <2>2, <2>4, <2>5
  <2>7. \A q \in Photos \ {p} : photo'[q].status = photo[q].status
    BY <2>1, <2>2, <2>5
  <2>8. PhotoRows' \subseteq PhotoRows
    BY <2>1, <2>7 DEF PhotoRows
  <2> QED BY <1>a, <2>1, <2>6, <2>8, NothingAdded
<1>5. ASSUME NEW s \in Staff, PhotoDeleted(s) PROVE PhotosInv'
  <2>1. photo' = [photo EXCEPT ![job[s].on] = NoRow] /\ RowDeleted(s, job[s].on)
    BY <1>5 DEF PhotoDeleted
  <2>2. PhotoRows' \subseteq PhotoRows /\ photo' \in [Photos -> PhotoRow]
    BY <1>0, <2>1 DEF PhotoRows, NoRow, PhotosInv
  <2> QED BY <1>a, <2>1, <2>2, NothingAdded
<1>6. ASSUME NEW s \in Staff, NEW op \in JobOps, NEW on \in Photos \cup Kinds \cup {NoPhoto}, NEW row \in PhotoRow, op # "upload", Takes(s, op, on, row)
      PROVE  PhotosInv'
  BY <1>6, <1>b, NothingAdded DEF PhotosInv
<1>7. CASE UNCHANGED pageVars
  BY <1>7 DEF pageVars, PhotosInv, PhotoRows, Uploading
<1>8. ASSUME NEW s \in Staff, NEW op \in PublicationOps, PublicationReads(s, op) PROVE PhotosInv'
  BY <1>0, <1>6, <1>8 DEF PublicationReads, PublicationOps, JobOps
<1>9. ASSUME NEW s \in Staff, NEW op \in PhotoOps, NEW p \in Photos, PhotoReads(s, op, p) PROVE PhotosInv'
  <2>1. op \in JobOps \ {"upload"} /\ photo[p] \in PhotoRow
    BY DEF PhotoOps, JobOps, PhotosInv
  <2> QED BY <1>6, <1>9, <2>1 DEF PhotoReads
<1>10. ASSUME NEW s \in Staff, NEW op \in {"upsert", "drop"}, NEW k \in Kinds, ServiceReads(s, op, k)
       PROVE  PhotosInv'
  <2>1. [NoRow EXCEPT !.main = (service[k] # "none")] \in PhotoRow
    BY DEF NoRow, PhotoRow
  <2> QED BY <1>6, <1>10, <2>1 DEF ServiceReads, JobOps
<1> QED BY <1>1, <1>2, <1>3, <1>4, <1>5, <1>7, <1>8, <1>9, <1>10 DEF NextPage

(* The photos of an address pass their limit by the uploads counted at the *)
(* same time at most, for any limit and any number of uploads              *)
(* (upload_address_photo).                                                 *)
THEOREM PhotosStayBounded == SpecPage => []PhotosAreBounded
<1>1. PhotosInv => PhotosAreBounded
  BY DEF PhotosInv, PhotosAreBounded, Uploading
<1> QED BY PhotosBegin, PhotosPreserved, <1>1, PTL DEF SpecPage

LEMMA PageTypeKept == PhotosInv /\ PageTypeOK /\ [NextPage]_pageVars => PageTypeOK'
<1> SUFFICES ASSUME PhotosInv, PageTypeOK, [NextPage]_pageVars PROVE PageTypeOK'
  OBVIOUS
<1>1. photo' \in [Photos -> PhotoRow] /\ job' \in [Staff -> JobRow]
  BY PhotosPreserved DEF PhotosInv
<1>2. publication' \in {"draft", "moderation", "published", "rejected", "archived"}
  <2>1. CASE publication' = publication
    BY <2>1 DEF PageTypeOK
  <2>2. ASSUME NEW s \in Staff, PublicationWrites(s)
        PROVE  publication' \in {"draft", "moderation", "published", "rejected", "archived"}
    BY <2>2 DEF PublicationWrites, PublicationOps, Becomes
  <2> QED BY <2>1, <2>2 DEF NextPage, pageVars, JobFails, PhotoCounted, PhotoWrites, PhotoDeleted,
               ServiceDeleted, PublicationReads, PhotoInserted, PhotoReads, ServiceReads, Upserted, Takes
<1>3. service' \in [Kinds -> {"none", "active", "hidden"}]
  <2>1. CASE service' = service
    BY <2>1 DEF PageTypeOK
  <2>2. ASSUME NEW s \in Staff, ServiceDeleted(s) \/ \E as \in {"active", "hidden"} : Upserted(s, as)
        PROVE  service' \in [Kinds -> {"none", "active", "hidden"}]
    BY <2>2 DEF ServiceDeleted, Upserted, PageTypeOK
  <2> QED BY <2>1, <2>2 DEF NextPage, pageVars, JobFails, PhotoCounted, PhotoWrites, PhotoDeleted,
               PublicationReads, PublicationWrites, PhotoInserted, PhotoReads, ServiceReads, Takes
<1> QED BY <1>1, <1>2, <1>3 DEF PageTypeOK, JobRow, JobOps

LEMMA PageTyped == SpecPage => []PageTypeOK
<1>1. InitPage => PageTypeOK
  BY PhotosBegin DEF InitPage, PageTypeOK, PhotosInv, JobRow, JobOps
<1> QED BY <1>1, PhotosBegin, PhotosPreserved, PageTypeKept, PTL DEF SpecPage

-----------------------------------------------------------------------------
(* Reviews: an edit loads a review and commits later, and what it writes   *)
(* depends on what it loaded; a verdict carries its moderator with it.     *)
Decided == {"published", "rejected"}
LoadedRight ==
  \A d \in Desks : /\ desk[d].op = "edit" => (desk[d].seen.status = "pending" <=> desk[d].seen.by = NoBody)
                   /\ desk[d].op = "moderate" => desk[d].by \in Moderators
ReviewsInv == ReviewsTypeOK /\ DecisionHasModerator /\ LoadedRight

LEMMA ReviewsBegin == InitReviews => ReviewsInv
  BY DEF InitReviews, ReviewsInv, ReviewsTypeOK, DecisionHasModerator, LoadedRight, NoReview, FreeDesk,
     ReviewRow

(* A handler that loads a review. *)
LEMMA LoadKeeps ==
  ASSUME ReviewsInv, NEW d \in Desks, NEW c \in Clients, NEW m \in Moderators \cup {NoBody},
         NEW op \in {"create", "edit", "moderate", "reply", "delete"}, Loads(d, op, c, m),
         op = "edit" => Exists(c), op = "moderate" => m # NoBody
  PROVE  ReviewsInv'
<1>1. review' = review /\ desk' = [desk EXCEPT ![d] = [op |-> op, of |-> c, by |-> m, seen |-> review[c]]]
  BY DEF Loads
<1>2. ReviewsTypeOK'
  BY <1>1 DEF ReviewsInv, ReviewsTypeOK
<1>3. DecisionHasModerator'
  BY <1>1 DEF ReviewsInv, DecisionHasModerator
<1>4. op = "edit" => (review[c].status = "pending" <=> review[c].by = NoBody)
  BY DEF ReviewsInv, ReviewsTypeOK, ReviewRow, Exists, DecisionHasModerator
<1>5. LoadedRight'
  BY <1>1, <1>4 DEF ReviewsInv, ReviewsTypeOK, LoadedRight
<1> QED BY <1>2, <1>3, <1>5 DEF ReviewsInv

(* A handler that ends, and leaves the others as they are or out of date. *)
LEMMA EndKeepsDesks ==
  ASSUME ReviewsInv, NEW d \in Desks, NEW c \in Clients \cup {NoBody}, Closes(d) \/ Outdates(d, c)
  PROVE  LoadedRight' /\ (review' \in [Clients -> ReviewRow] => ReviewsTypeOK')
<1>1. \A e \in Desks : desk'[e] \in {FreeDesk, desk[e], [desk[e] EXCEPT !.op = "stale"]}
  BY DEF Closes, Outdates, ReviewsInv, ReviewsTypeOK
<1>2. \A e \in Desks : /\ desk'[e].op \in {"none", "stale", desk[e].op}
                       /\ desk'[e].op \notin {"none", "stale"} => desk'[e] = desk[e]
  BY <1>1 DEF FreeDesk, ReviewsInv, ReviewsTypeOK
<1>3. LoadedRight'
  BY <1>2 DEF LoadedRight, ReviewsInv
<1>4. review' \in [Clients -> ReviewRow] => ReviewsTypeOK'
  <2>1. desk' = [e \in Desks |-> desk'[e]]
    BY DEF Closes, Outdates, ReviewsInv, ReviewsTypeOK
  <2> DEFINE DeskType == [op : {"none", "create", "edit", "moderate", "reply", "delete", "stale"},
                          of : Clients \cup {NoBody}, by : Moderators \cup {NoBody}, seen : ReviewRow]
  <2>2. FreeDesk \in DeskType /\ desk \in [Desks -> DeskType]
    BY DEF FreeDesk, NoReview, ReviewRow, ReviewsInv, ReviewsTypeOK
  <2>3. \A e \in Desks : [desk[e] EXCEPT !.op = "stale"] \in DeskType
    BY <2>2 
  <2>4. \A e \in Desks : desk'[e] \in DeskType
    <3> HIDE DEF DeskType
    <3> QED BY <1>1, <2>2, <2>3
  <2>5. desk' \in [Desks -> DeskType]
    <3> HIDE DEF DeskType
    <3> QED BY <2>1, <2>4
  <2> QED BY <2>5 DEF ReviewsTypeOK
<1> QED BY <1>3, <1>4

(* Each write leaves status and moderator in agreement. *)
LEMMA WriteKeeps ==
  ASSUME ReviewsInv, NEW d \in Desks, NEW verdict \in Decided,
         \/ CreateWrites(d) \/ EditWrites(d) \/ ReplyWrites(d) \/ DeleteWrites(d) \/ DeskFails(d)
         \/ ModerateWrites(d, verdict)
  PROVE  ReviewsInv'
<1>1. \A c \in Clients : /\ review[c] \in ReviewRow
                         /\ review[c].by # NoBody <=> review[c].status \in Decided
  BY DEF ReviewsInv, ReviewsTypeOK, DecisionHasModerator, Decided
<1>2. review \in [Clients -> ReviewRow] /\ desk[d].of \in Clients \cup {NoBody}
      /\ desk[d].by \in Moderators \cup {NoBody}
  BY DEF ReviewsInv, ReviewsTypeOK
<1>3. review' \in [Clients -> ReviewRow] /\ DecisionHasModerator'
  <2>1. CASE CreateWrites(d)
    BY <1>1, <1>2, <2>1 DEF CreateWrites, NoReview, ReviewRow, DecisionHasModerator, Decided
  <2>2. CASE EditWrites(d)
    <3>1. desk[d].seen.status = "pending" <=> desk[d].seen.by = NoBody
      BY <2>2 DEF EditWrites, ReviewsInv, LoadedRight
    <3> QED BY <1>1, <1>2, <2>2, <3>1 DEF EditWrites, Reopened, Exists, ReviewRow, DecisionHasModerator, Decided
  <2>3. CASE ReplyWrites(d)
    BY <1>1, <1>2, <2>3 DEF ReplyWrites, ReviewRow, DecisionHasModerator, Decided
  <2>4. CASE DeleteWrites(d)
    BY <1>1, <1>2, <2>4 DEF DeleteWrites, NoReview, ReviewRow, DecisionHasModerator, Decided
  <2>5. CASE DeskFails(d)
    BY <1>1, <1>2, <2>5 DEF DeskFails, DecisionHasModerator, Decided
  <2>6. CASE ModerateWrites(d, verdict)
    <3>1. desk[d].by \in Moderators /\ desk[d].by # NoBody
      BY <2>6, ReviewsAssumption DEF ModerateWrites, ReviewsInv, LoadedRight
    <3> QED BY <1>1, <1>2, <2>6, <3>1 DEF ModerateWrites, ReviewRow, DecisionHasModerator, Decided
  <2> QED BY <2>1, <2>2, <2>3, <2>4, <2>5, <2>6
<1>4. \E c \in Clients \cup {NoBody} : Closes(d) \/ Outdates(d, c)
  BY <1>2 DEF CreateWrites, EditWrites, ReplyWrites, DeleteWrites, DeskFails, ModerateWrites
<1> QED BY <1>3, <1>4, EndKeepsDesks DEF ReviewsInv

LEMMA ReviewsPreserved == ReviewsInv /\ [NextReviews]_reviewVars => ReviewsInv'
<1> SUFFICES ASSUME ReviewsInv, [NextReviews]_reviewVars PROVE ReviewsInv'
  OBVIOUS
<1>1. ASSUME NEW d \in Desks, NEW c \in Clients,
             CreateReads(d, c) \/ EditReads(d, c) \/ ReplyReads(d, c) \/ DeleteReads(d, c)
      PROVE  ReviewsInv'
  BY <1>1, LoadKeeps DEF CreateReads, EditReads, ReplyReads, DeleteReads
<1>2. ASSUME NEW d \in Desks, NEW c \in Clients, NEW m \in Moderators, ModerateReads(d, c, m)
      PROVE  ReviewsInv'
  BY <1>2, LoadKeeps, ReviewsAssumption DEF ModerateReads
<1>3. ASSUME NEW d \in Desks, NEW verdict \in Decided, ModerateWrites(d, verdict)
      PROVE  ReviewsInv'
  BY <1>3, WriteKeeps
<1>4. ASSUME NEW d \in Desks, CreateWrites(d) \/ EditWrites(d) \/ ReplyWrites(d) \/ DeleteWrites(d) \/ DeskFails(d)
      PROVE  ReviewsInv'
  <2>1. "published" \in Decided
    BY DEF Decided
  <2> QED BY <1>4, <2>1, WriteKeeps
<1>5. CASE UNCHANGED reviewVars
  BY <1>5 DEF reviewVars, ReviewsInv, ReviewsTypeOK, DecisionHasModerator, LoadedRight
<1> QED BY <1>1, <1>2, <1>3, <1>4, <1>5 DEF NextReviews, Decided

(* A review shows a moderator exactly when it is decided, whatever edits,  *)
(* decisions and deletions are committed over one another (moderate_review, *)
(* update_my_review).                                                      *)
THEOREM DecisionKeepsModerator == SpecReviews => []DecisionHasModerator
<1>1. ReviewsInv => DecisionHasModerator
  BY DEF ReviewsInv
<1> QED BY ReviewsBegin, ReviewsPreserved, <1>1, PTL DEF SpecReviews

-----------------------------------------------------------------------------
(* Callbacks of CDEK Pay: whoever serves one holds its key in              *)
(* incoming_webhooks until it commits or rolls back.                       *)
HasInHand(k) == <<clerk[k].op, clerk[k].on>>
InOneHand ==
  \A k \in Clerks : HasInHand(k) \in Callbacks =>
    HasInHand(k) \notin stored /\ \A j \in Clerks : HasInHand(j) = HasInHand(k) => j = k
CallbacksInv ==
  /\ DOMAIN clerk = Clerks /\ acted \in [Callbacks -> Nat] /\ stored \subseteq Callbacks
  /\ InOneHand /\ CallbackActsOnce

LEMMA CallbacksBegin == InitOutside => CallbacksInv
<1> SUFFICES ASSUME InitOutside PROVE CallbacksInv
  OBVIOUS
<1>1. \A k \in Clerks : HasInHand(k) \notin Callbacks
  BY DEF InitOutside, HasInHand, OffDuty, Callbacks
<1> QED BY <1>1 DEF InitOutside, CallbacksInv, InOneHand, CallbackActsOnce

(* A request that has nothing to do with callbacks, or gives one up.       *)
LEMMA NoCallbackKeeps ==
  ASSUME CallbacksInv, UNCHANGED <<stored, acted>>, DOMAIN clerk' = Clerks,
         \A k \in Clerks : clerk'[k] = clerk[k] \/ HasInHand(k)' \notin Callbacks
  PROVE  CallbacksInv'
<1>1. \A k \in Clerks : HasInHand(k)' \in Callbacks => HasInHand(k)' = HasInHand(k)
  BY DEF HasInHand
<1>2. InOneHand'
  BY <1>1 DEF CallbacksInv, InOneHand
<1> QED BY <1>2 DEF CallbacksInv, CallbackActsOnce

LEMMA CallbacksPreserved == CallbacksInv /\ [NextOutside]_outsideVars => CallbacksInv'
<1> SUFFICES ASSUME CallbacksInv, [NextOutside]_outsideVars PROVE CallbacksInv'
  OBVIOUS
<1>1. ASSUME NEW b \in Bills, InvoiceCreated(b) \/ ClientPays(b) \/ CdekRefunds(b) PROVE CallbacksInv'
  BY <1>1, NoCallbackKeeps DEF InvoiceCreated, ClientPays, CdekRefunds, CallbacksInv
<1>2. ASSUME NEW k \in Clerks, NEW b, NEW op,
             \/ InitiateStarts(k)
             \/ b \in Bills /\ op \in {"cancel", "refund", "mark_paid", "reject", "confirm"} /\ HandReads(k, op, b)
      PROVE  CallbacksInv'
  <2>1. /\ UNCHANGED <<stored, acted>>
        /\ \E c, d, x : d \notin {"paid", "refunded"} /\ clerk' = [clerk EXCEPT ![k] = [op |-> d, on |-> c, seen |-> x]]
    BY <1>2 DEF InitiateStarts, HandReads, Sits
  <2> QED BY <2>1, NoCallbackKeeps DEF CallbacksInv, HasInHand, Callbacks
<1>3. ASSUME NEW k \in Clerks,
             \/ CancelWrites(k) \/ RefundWrites(k) \/ InvoiceDecided(k) \/ ClerkFails(k)
             \/ \E b \in Bills : LinkMade(k, b) \/ LinkRefused(k, b)
      PROVE  CallbacksInv'
  <2>1. UNCHANGED <<stored, acted>> /\ clerk' = [clerk EXCEPT ![k] = OffDuty]
    BY <1>3 DEF CancelWrites, RefundWrites, InvoiceDecided, ClerkFails, LinkMade, LinkRefused, Rises
  <2> QED BY <2>1, NoCallbackKeeps DEF CallbacksInv, HasInHand, Callbacks, OffDuty
<1>4. ASSUME NEW k \in Clerks, NEW c \in Callbacks, CallbackArrives(k, c) PROVE CallbacksInv'
  <2>1. /\ UNCHANGED <<stored, acted>> /\ c \notin stored /\ \A j \in Clerks : HasInHand(j) # c
        /\ \E x : clerk' = [clerk EXCEPT ![k] = [op |-> c[1], on |-> c[2], seen |-> x]]
    BY <1>4 DEF CallbackArrives, MayStore, Sits, HasInHand
  <2>2. DOMAIN clerk' = Clerks /\ HasInHand(k)' = c /\ \A j \in Clerks \ {k} : HasInHand(j)' = HasInHand(j)
    BY <2>1 DEF CallbacksInv, HasInHand, Callbacks
  <2>3. InOneHand'
    BY <2>1, <2>2 DEF CallbacksInv, InOneHand
  <2> QED BY <2>1, <2>2, <2>3 DEF CallbacksInv, CallbackActsOnce
<1>5. ASSUME NEW k \in Clerks, CallbackCommits(k) PROVE CallbacksInv'
  <2>1. PICK c \in Callbacks :
          /\ c = HasInHand(k) /\ stored' = stored \cup {c} /\ acted' = [acted EXCEPT ![c] = @ + 1]
          /\ clerk' = [clerk EXCEPT ![k] = OffDuty]
    BY <1>5 DEF CallbackCommits, HasInHand, Rises
  <2>2. c \notin stored /\ acted[c] = 0
    BY <2>1 DEF CallbacksInv, InOneHand, CallbackActsOnce
  <2>3. CallbackActsOnce' /\ acted' \in [Callbacks -> Nat] /\ stored' \subseteq Callbacks
    BY <2>1, <2>2 DEF CallbacksInv, CallbackActsOnce
  <2>4. \A j \in Clerks : HasInHand(j)' \in Callbacks => j # k /\ HasInHand(j)' = HasInHand(j)
    BY <2>1 DEF CallbacksInv, HasInHand, Callbacks, OffDuty
  <2>5. InOneHand'
    BY <2>1, <2>4 DEF CallbacksInv, InOneHand
  <2> QED BY <2>1, <2>3, <2>5 DEF CallbacksInv
<1>6. CASE UNCHANGED outsideVars
  BY <1>6, NoCallbackKeeps DEF outsideVars, CallbacksInv
<1> QED BY <1>1, <1>2, <1>3, <1>4, <1>5, <1>6 DEF NextOutside

(* A callback has its effect at most once, and a stored one has had it,    *)
(* however often CDEK repeats it and however many handlers have it at one  *)
(* time (_store_idempotent).                                               *)
THEOREM CallbacksActOnce == SpecOutside => []CallbackActsOnce
<1>1. CallbacksInv => CallbackActsOnce
  BY DEF CallbacksInv
<1> QED BY CallbacksBegin, CallbacksPreserved, <1>1, PTL DEF SpecOutside

LEMMA OutsideTypeKept == CallbacksInv /\ OutsideTypeOK /\ [NextOutside]_outsideVars => OutsideTypeOK'
<1> SUFFICES ASSUME CallbacksInv, OutsideTypeOK, [NextOutside]_outsideVars PROVE OutsideTypeOK'
  OBVIOUS
<1> DEFINE ClerkRow == [op : ClerkOps \cup {"none"}, on : Bills \cup {NoBill}, seen : BillRow]
           Links == {"none", "open", "paid", "blocked", "refunding", "refunded"}
<1>0. /\ bill \in [Bills -> BillRow] /\ order \in {"awaiting_payment", "paid"} /\ link \in [Bills -> Links]
      /\ sent \subseteq Callbacks /\ clerk \in [Clerks -> ClerkRow]
  BY DEF OutsideTypeOK
<1>1. acted' \in [Callbacks -> Nat] /\ stored' \subseteq Callbacks
  BY CallbacksPreserved DEF CallbacksInv
<1>2. SUFFICES /\ bill' \in [Bills -> BillRow] /\ order' \in {"awaiting_payment", "paid"}
               /\ link' \in [Bills -> Links] /\ sent' \subseteq Callbacks /\ clerk' \in [Clerks -> ClerkRow]
  BY <1>1 DEF OutsideTypeOK
<1>3. NoRowYet \in BillRow /\ OffDuty \in ClerkRow
  BY DEF NoRowYet, OffDuty, BillRow
<1>4. ASSUME NEW k \in Clerks, Rises(k) PROVE clerk' \in [Clerks -> ClerkRow]
  BY <1>0, <1>3, <1>4 DEF Rises
<1>5. ASSUME NEW k \in Clerks, NEW op \in ClerkOps, NEW b \in Bills \cup {NoBill}, Sits(k, op, b)
      PROVE  clerk' \in [Clerks -> ClerkRow]
  <2>1. (IF b = NoBill THEN NoRowYet ELSE bill[b]) \in BillRow
    BY <1>0, <1>3
  <2> QED BY <1>0, <1>5, <2>1 DEF Sits
<1>6. ASSUME NEW b \in Bills, NEW st \in {"none", "awaiting_user", "succeeded", "failed", "cancelled",
                                       "refund_requested", "refunded"},
             NEW kn \in BOOLEAN, NEW by \in {"none", "cdek", "invoice"}
      PROVE  /\ [by |-> by, known |-> kn, status |-> st] \in BillRow
             /\ [bill[b] EXCEPT !.status = st, !.known = kn] \in BillRow
  <2>1. [by |-> by, known |-> kn, status |-> st] \in BillRow
    BY DEF BillRow
  <2>2. bill[b] \in BillRow
    BY <1>0
  <2>3. CASE kn = TRUE
    BY <2>1, <2>2, <2>3 DEF BillRow
  <2>4. CASE kn = FALSE
    BY <2>1, <2>2, <2>4 DEF BillRow
  <2> QED BY <2>3, <2>4
<1>7. ASSUME NEW b \in Bills, InvoiceCreated(b) \/ ClientPays(b) \/ CdekRefunds(b)
      PROVE  /\ bill' \in [Bills -> BillRow] /\ order' \in {"awaiting_payment", "paid"}
             /\ link' \in [Bills -> Links] /\ sent' \subseteq Callbacks /\ clerk' \in [Clerks -> ClerkRow]
  <2>1. CASE InvoiceCreated(b)
    <3>1. bill' = [bill EXCEPT ![b] = [by |-> "invoice", known |-> FALSE, status |-> "awaiting_user"]]
      BY <2>1 DEF InvoiceCreated
    <3>2. [by |-> "invoice", known |-> FALSE, status |-> "awaiting_user"] \in BillRow
      BY DEF BillRow
    <3>3. UNCHANGED <<order, link, sent, clerk>>
      BY <2>1 DEF InvoiceCreated
    <3> QED BY <1>0, <3>1, <3>2, <3>3
  <2>2. CASE ClientPays(b) \/ CdekRefunds(b)
    <3>1. /\ UNCHANGED <<bill, order, clerk>> /\ \E x \in Links : link' = [link EXCEPT ![b] = x]
          /\ \E x \in {"paid", "refunded"} : sent' = sent \cup {<<x, b>>}
      BY <2>2 DEF ClientPays, CdekRefunds
    <3> QED BY <1>0, <3>1 DEF Callbacks
  <2> QED BY <1>7, <2>1, <2>2
<1>8. ASSUME NEW k \in Clerks,
             \/ InitiateStarts(k) \/ \E c \in Callbacks : CallbackArrives(k, c)
             \/ \E b \in Bills, op \in {"cancel", "refund", "mark_paid", "reject", "confirm"} : HandReads(k, op, b)
      PROVE  UNCHANGED <<bill, order, link, sent>> /\ clerk' \in [Clerks -> ClerkRow]
  BY <1>5, <1>8 DEF InitiateStarts, CallbackArrives, HandReads, Callbacks, ClerkOps
<1>9. ASSUME NEW k \in Clerks, NEW b \in Bills, LinkMade(k, b) \/ LinkRefused(k, b)
      PROVE  /\ bill' \in [Bills -> BillRow] /\ link' \in [Bills -> Links]
             /\ UNCHANGED <<order, sent>> /\ clerk' \in [Clerks -> ClerkRow]
  BY <1>0, <1>4, <1>6, <1>9 DEF LinkMade, LinkRefused
<1>10. ASSUME NEW k \in Clerks, CallbackCommits(k)
       PROVE  /\ bill' \in [Bills -> BillRow] /\ order' \in {"awaiting_payment", "paid"}
              /\ UNCHANGED <<link, sent>> /\ clerk' \in [Clerks -> ClerkRow]
  <2>1. PICK b \in Bills, st \in {"succeeded", "refunded"}, kn \in BOOLEAN :
           bill' = [bill EXCEPT ![b] = [bill[b] EXCEPT !.status = st, !.known = kn]]
    <3> DEFINE c == <<clerk[k].op, clerk[k].on>>
               kn == bill[c[2]].known \/ c[1] = "paid"
    <3>1. /\ c[2] \in Bills
          /\ bill' = [bill EXCEPT ![c[2]].status = IF c[1] = "paid" THEN "succeeded" ELSE "refunded",
                                  ![c[2]].known = kn]
      BY <1>10 DEF CallbackCommits, Callbacks
    <3>2. kn \in BOOLEAN
      OBVIOUS
    <3> HIDE DEF kn
    <3> QED BY <3>1, <3>2
  <2>2. bill' = [bill EXCEPT ![b] = [bill[b] EXCEPT !.status = st, !.known = kn]]
    BY <2>1
  <2>3. bill' \in [Bills -> BillRow]
    BY <1>0, <1>6, <2>2
  <2> QED BY <1>0, <1>4, <1>10, <2>3 DEF CallbackCommits
<1>11. ASSUME NEW k \in Clerks, CancelWrites(k) \/ RefundWrites(k) \/ InvoiceDecided(k) \/ ClerkFails(k)
       PROVE  /\ bill' \in [Bills -> BillRow] /\ order' \in {"awaiting_payment", "paid"}
              /\ link' \in [Bills -> Links] /\ UNCHANGED sent /\ clerk' \in [Clerks -> ClerkRow]
  <2>1. /\ \/ bill' = bill
           \/ \E st \in {"cancelled", "refund_requested", "failed", "succeeded"} : SetBill(k, st)
        /\ order' \in {order, "paid"} /\ UNCHANGED sent /\ Rises(k)
        /\ link' \in [Bills -> Links]
    BY <1>0, <1>11 DEF CancelWrites, RefundWrites, InvoiceDecided, ClerkFails
  <2>2. bill' \in [Bills -> BillRow]
    BY <1>0, <2>1 DEF SetBill, BillRow
  <2> QED BY <1>0, <1>4, <2>1, <2>2
<1>12. CASE UNCHANGED outsideVars
  BY <1>0, <1>12 DEF outsideVars
<1> QED BY <1>0, <1>7, <1>8, <1>9, <1>10, <1>11, <1>12 DEF NextOutside

LEMMA OutsideTyped == SpecOutside => []OutsideTypeOK
<1>1. InitOutside => OutsideTypeOK
  BY DEF InitOutside, OutsideTypeOK, NoRowYet, OffDuty, BillRow, Callbacks
<1> QED BY <1>1, CallbacksBegin, CallbacksPreserved, OutsideTypeKept, PTL DEF SpecOutside

-----------------------------------------------------------------------------
(* The parts side by side.  A step of one leaves the others alone.         *)
LEMMA PartSteps ==
  [Next]_vars =>
    /\ [NextSessions]_sessionVars /\ [NextChats]_chatVars /\ [NextHub]_hubVars
    /\ [NextReminders]_reminderVars /\ [NextFiles]_fileVars /\ [NextPage]_pageVars
    /\ [NextReviews]_reviewVars /\ [NextOutside]_outsideVars /\ [NextNotices]_noticeVars
  BY Zenon DEF Next, vars

(* Whatever is proved of a part alone holds of it in the whole: every      *)
(* behaviour of the platform is one of each of its parts.                  *)
THEOREM PartsRunAlone ==
  Spec => /\ SpecSessions /\ SpecChats /\ SpecHub /\ SpecReminders /\ SpecFiles
          /\ SpecPage /\ SpecReviews /\ SpecOutside /\ SpecNotices
<1>1. Init => /\ InitSessions /\ InitChats /\ InitHub /\ InitReminders /\ InitFiles
              /\ InitPage /\ InitReviews /\ InitOutside /\ InitNotices
  BY DEF Init
<1> QED BY <1>1, PartSteps, PTL DEF Spec, SpecSessions, SpecChats, SpecHub, SpecReminders,
             SpecFiles, SpecPage, SpecReviews, SpecOutside, SpecNotices

(* The rows of every part keep their types, deadlines computed over        *)
(* weekends and numbers of runs among them.                                *)
THEOREM PlatformTypes == Spec => []PlatformTypeOK
<1>1. SpecSessions => []SessionsTypeOK
  <2>1. SessionsInv => SessionsTypeOK
    BY DEF SessionsInv
  <2> QED BY <2>1, SessionsBegin, SessionsPreserved, PTL DEF SpecSessions
<1>2. SpecChats => []ChatsTypeOK
  <2>1. ChatsInv => ChatsTypeOK
    BY DEF ChatsInv
  <2> QED BY <2>1, ChatsBegin, ChatsPreserved, PTL DEF SpecChats
<1>3. SpecFiles => []FilesTypeOK
  <2>1. FilesInv => FilesTypeOK
    BY DEF FilesInv
  <2> QED BY <2>1, FilesBegin, FilesPreserved, PTL DEF SpecFiles
<1>4. SpecReviews => []ReviewsTypeOK
  <2>1. ReviewsInv => ReviewsTypeOK
    BY DEF ReviewsInv
  <2> QED BY <2>1, ReviewsBegin, ReviewsPreserved, PTL DEF SpecReviews
<1> QED BY <1>1, <1>2, <1>3, <1>4, RemindersTyped, PageTyped, OutsideTyped, NoticesTyped,
             PartsRunAlone, PTL DEF PlatformTypeOK
=============================================================================
