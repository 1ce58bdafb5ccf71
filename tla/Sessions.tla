------------------------------ MODULE Sessions ------------------------------
(***************************************************************************)
(* Sign-in: accounts that are switched on and off, sessions with an access *)
(* and a refresh token.  A request is taken in the steps between which     *)
(* other requests can come: what it reads, then what it commits.  The web  *)
(* and the mobile router share every helper; the limit on failed sign-ins  *)
(* is RateLimits.                                                          *)
(***************************************************************************)
EXTENDS Naturals, FiniteSets

CONSTANTS Users,     \* accounts
          Admins,    \* those of them that are administrators
          Sids,      \* rows of user_sessions (bound: that many sign-ins)
          Reqs,      \* requests being served at once
          None       \* no account, no session

ASSUME SessionsAssumption ==
  /\ Admins \subseteq Users
  /\ None \notin Users /\ None \notin Sids

VARIABLES active,    \* users.is_active
          sess,      \* user_sessions
          req,       \* requests between two of their steps
          cut        \* history: sessions there were when a finished cut-off began,
                     \* with the handler that made it
sessionVars == <<active, sess, req, cut>>

SessionRow == [user : Users \cup {None}, revoked : BOOLEAN, access : BOOLEAN,
               refresh : BOOLEAN, heirOf : Sids \cup {None}]
NoSession == [user |-> None, revoked |-> FALSE, access |-> FALSE, refresh |-> FALSE,
          heirOf |-> None]
Ops == {"idle", "login", "refresh", "refreshed", "logout_all", "disable"}
SessionRequest == [op : Ops, user : Users \cup {None}, sid : Sids \cup {None}, saw : BOOLEAN, list : SUBSET Sids, all : SUBSET Sids]
NoRequest == [op |-> "idle", user |-> None, sid |-> None, saw |-> FALSE,
         list |-> {}, all |-> {}]

InitSessions ==
  /\ active = [u \in Users |-> TRUE]
  /\ sess = [s \in Sids |-> NoSession]
  /\ req = [r \in Reqs |-> NoRequest]
  /\ cut = {}

SessionsOf(u) == {s \in Sids : sess[s].user = u}
\* The row is held by a refresh that has consumed it and not committed.
Locked(s) == \E r \in Reqs : req[r].op \in {"refresh", "refreshed"} /\ req[r].sid = s
\* What the middleware and get_current_user let through.
Authenticated(s) ==
  /\ sess[s].user # None /\ ~sess[s].revoked /\ sess[s].access
  /\ active[sess[s].user]
Begins(r, rec) == req[r] = NoRequest /\ req' = [req EXCEPT ![r] = rec]
Answers(r) == req' = [req EXCEPT ![r] = NoRequest]
WithRevoked(S) == [s \in Sids |-> IF s \in S THEN [sess[s] EXCEPT !.revoked = TRUE] ELSE sess[s]]
NewSession(u, from) == [user |-> u, revoked |-> FALSE, access |-> TRUE, refresh |-> TRUE,
                        heirOf |-> from]

-----------------------------------------------------------------------------
(* Sign-in *)
LoginReads(r, u) ==
  /\ Begins(r, [NoRequest EXCEPT !.op = "login", !.user = u, !.saw = active[u]])
  /\ UNCHANGED <<active, sess, cut>>

\* The password is checked in a worker thread, right or wrong.
LoginFails(r) ==
  /\ req[r].op = "login"
  /\ Answers(r) /\ UNCHANGED <<active, sess, cut>>

LoginOpens(r, s) ==
  /\ req[r].op = "login" /\ req[r].saw
  /\ sess[s] = NoSession
  /\ sess' = [sess EXCEPT ![s] = NewSession(req[r].user, None)]
  /\ Answers(r) /\ UNCHANGED <<active, cut>>

-----------------------------------------------------------------------------
(* Refresh: UPDATE ... RETURNING consumes the token and holds the row; the *)
(* owner is read after that; everything is committed or rolled back at the *)
(* end.                                                                    *)
ConsumableIfSigned(s) == sess[s].user # None /\ sess[s].refresh  \* mutant
Consumable(s) == sess[s].user # None /\ ~sess[s].revoked /\ sess[s].refresh

RefreshConsumes(r, s) ==
  /\ Consumable(s) /\ ~Locked(s)
  /\ Begins(r, [NoRequest EXCEPT !.op = "refresh", !.user = sess[s].user, !.sid = s])
  /\ UNCHANGED <<active, sess, cut>>

RefreshReadsUser(r) ==
  /\ req[r].op = "refresh"
  /\ req' = [req EXCEPT ![r].op = "refreshed", ![r].saw = active[req[r].user]]
  /\ UNCHANGED <<active, sess, cut>>

RefreshOpens(r, s) ==
  /\ req[r].op = "refreshed" /\ req[r].saw
  /\ sess[s] = NoSession
  /\ sess' = [WithRevoked({req[r].sid}) EXCEPT ![s] = NewSession(req[r].user, req[r].sid)]
  /\ Answers(r) /\ UNCHANGED <<active, cut>>

RefreshRolledBack(r) ==
  /\ req[r].op = "refreshed" /\ ~req[r].saw
  /\ Answers(r) /\ UNCHANGED <<active, sess, cut>>

-----------------------------------------------------------------------------
(* Signing out and switching an account on and off *)
Logout(s) ==
  /\ Authenticated(s) /\ ~Locked(s)
  /\ sess' = WithRevoked({s})
  /\ UNCHANGED <<active, req, cut>>

\* Only sessions whose access token is alive are listed.
OthersToClose(s) ==
  {t \in SessionsOf(sess[s].user) \ {s} : ~sess[t].revoked /\ sess[t].access}
LogoutAllReads(r, s) ==
  /\ Authenticated(s)
  /\ Begins(r, [NoRequest EXCEPT !.op = "logout_all", !.user = sess[s].user, !.sid = s,
                           !.list = OthersToClose(s), !.all = SessionsOf(sess[s].user) \ {s}])
  /\ UNCHANGED <<active, sess, cut>>

\* The UPDATEs wait for a refresh that holds one of the rows.
CutOff(r) ==
  /\ \A s \in req[r].list : ~Locked(s)
  /\ sess' = WithRevoked(req[r].list)
  /\ cut' = cut \cup ({req[r].op} \X req[r].all)
  /\ Answers(r)
LogoutAllEnds(r) == req[r].op = "logout_all" /\ CutOff(r) /\ UNCHANGED active

ToRevokeIfAccess(u) == {t \in SessionsOf(u) : ~sess[t].revoked /\ sess[t].access}  \* mutant
ToRevoke(u) == {t \in SessionsOf(u) : ~sess[t].revoked}
DisableReads(r, s, u) ==
  /\ Authenticated(s) /\ sess[s].user \in Admins /\ u # sess[s].user
  /\ active[u]
  /\ Begins(r, [NoRequest EXCEPT !.op = "disable", !.user = u, !.list = ToRevoke(u), !.all = SessionsOf(u)])
  /\ UNCHANGED <<active, sess, cut>>
DisableEnds(r) ==
  /\ req[r].op = "disable"
  /\ active' = [active EXCEPT ![req[r].user] = FALSE]
  /\ CutOff(r)

Enable(s, u) ==
  /\ Authenticated(s) /\ sess[s].user \in Admins /\ ~active[u]
  /\ active' = [active EXCEPT ![u] = TRUE]
  /\ UNCHANGED <<sess, req, cut>>

-----------------------------------------------------------------------------
(* Time.  The access token ends long before the refresh token; nobody reads *)
(* the dates of a session that is closed.                                  *)
AccessExpires(s) ==
  /\ sess[s].access /\ ~sess[s].revoked
  /\ sess' = [sess EXCEPT ![s].access = FALSE] /\ UNCHANGED <<active, req, cut>>
RefreshExpires(s) ==
  /\ sess[s].refresh /\ ~sess[s].access /\ ~sess[s].revoked
  /\ sess' = [sess EXCEPT ![s].refresh = FALSE] /\ UNCHANGED <<active, req, cut>>

NextSessions ==
  \/ \E r \in Reqs, u \in Users : LoginReads(r, u)
  \/ \E r \in Reqs, s \in Sids : \/ LoginOpens(r, s) \/ RefreshConsumes(r, s)
                                 \/ RefreshOpens(r, s) \/ LogoutAllReads(r, s)
  \/ \E r \in Reqs : \/ LoginFails(r) \/ RefreshReadsUser(r) \/ RefreshRolledBack(r)
                     \/ LogoutAllEnds(r) \/ DisableEnds(r)
  \/ \E r \in Reqs, s \in Sids, u \in Users : DisableReads(r, s, u)
  \/ \E s \in Sids : Logout(s) \/ AccessExpires(s) \/ RefreshExpires(s)
  \/ \E s \in Sids, u \in Users : Enable(s, u)

SpecSessions == InitSessions /\ [][NextSessions]_sessionVars

-----------------------------------------------------------------------------
(* Type invariant. *)
SessionsTypeOK ==
  /\ active \in [Users -> BOOLEAN]
  /\ sess \in [Sids -> SessionRow]
  /\ req \in [Reqs -> SessionRequest]
  /\ \A r \in Reqs : req[r].list \subseteq req[r].all
  /\ cut \subseteq {"logout_all", "disable"} \X Sids

(* A refresh token opens one session: two refreshes with the same token,   *)
(* or a refresh after a sign-out, never both get through                   *)
(* (atomic_consume_refresh), and the session it came from is closed.       *)
OneHeirPerRefresh ==
  \A s, t \in Sids : sess[t].heirOf = s =>
     sess[s].revoked /\ \A w \in Sids : sess[w].heirOf = s => w = t

(* Switching an account off closes every session it had when the handler   *)
(* began, those with an expired access token too, and for good: none of    *)
(* them comes back to life when the account is switched on again           *)
(* (set_user_active).                                                      *)
DisableCutsForGood == \A s \in Sids : <<"disable", s>> \in cut => sess[s].revoked

(* The docstring of /logout-all: it signs out every session of the user    *)
(* but the current one.                                                    *)
LogoutAllCutsTheRest == \A s \in Sids : <<"logout_all", s>> \in cut => sess[s].revoked
=============================================================================
