-------------------------- MODULE OnboardingProofs --------------------------
(***************************************************************************)
(* Limits on attempts, the making of accounts and the check of a client's  *)
(* registration with DaData, for any mailboxes, keys and requests at once. *)
(***************************************************************************)
EXTENDS Onboarding, RateLimits, RegistrationCheck, FiniteSetTheorems, TLAPS

InFlight(sc, k) == {h \in Handlers : handling[h].scope = sc /\ k \in RuleKeys(sc, handling[h].email)}
LimitsTyped ==
  /\ counted \in [LimitScopes -> [LimitKeys -> Nat]]
  /\ handling \in [Handlers -> [scope : LimitScopes \cup {Nobody}, email : Emails \cup {Nobody}]]
(* What is counted and what may still be recorded stay within the limit    *)
(* and one request of each handler, less the one the limit does not admit. *)
RoomForFlying ==
  \A sc \in LimitScopes, k \in LimitKeys :
     counted[sc][k] + Cardinality(InFlight(sc, k)) + 1 <= MaxCount(k) + Cardinality(Handlers)
LimitsInv == LimitsTyped /\ RoomForFlying

LEMMA FlightsAreFinite ==
  \A sc \in LimitScopes, k \in LimitKeys :
    /\ IsFiniteSet(InFlight(sc, k)) /\ Cardinality(InFlight(sc, k)) \in Nat
    /\ Cardinality(InFlight(sc, k)) <= Cardinality(Handlers)
  BY FS_Subset, FS_CardinalityType, RateLimitsAssumption DEF InFlight

LEMMA MaxCountType == \A k \in LimitKeys : MaxCount(k) \in Nat \ {0}
  BY RateLimitsAssumption DEF MaxCount

LEMMA LimitsBegin == InitLimits => LimitsInv
<1> SUFFICES ASSUME InitLimits PROVE LimitsInv
  OBVIOUS
<1>1. LimitsTyped
  BY DEF InitLimits, LimitsTyped, AtRest
<1>2. \A sc \in LimitScopes, k \in LimitKeys : counted[sc][k] = 0 /\ Cardinality(InFlight(sc, k)) = 0
  <2>1. \A sc \in LimitScopes, k \in LimitKeys : InFlight(sc, k) = {}
    BY RateLimitsAssumption DEF InitLimits, AtRest, InFlight, LimitScopes
  <2> QED BY <2>1, FS_EmptySet DEF InitLimits
<1>3. Cardinality(Handlers) \in Nat
  BY FS_CardinalityType, RateLimitsAssumption
<1>4. RoomForFlying
  BY <1>2, <1>3, MaxCountType DEF RoomForFlying
<1> QED BY <1>1, <1>4 DEF LimitsInv

LEMMA AdmitKeeps ==
  ASSUME LimitsInv, NEW h \in Handlers, NEW sc \in LimitScopes, NEW e \in Emails, Admit(h, sc, e)
  PROVE  LimitsInv'
<1>1. LimitsTyped'
  BY DEF Admit, LimitsInv, LimitsTyped
<1>2. \A g \in Handlers \ {h} : handling'[g] = handling[g]
  BY DEF Admit, LimitsInv, LimitsTyped
<1>3. handling'[h] = [scope |-> sc, email |-> e] /\ handling[h].scope = Nobody
  BY DEF Admit, LimitsInv, LimitsTyped, AtRest
<1>4. ASSUME NEW s \in LimitScopes, NEW k \in LimitKeys
      PROVE  counted'[s][k] + Cardinality(InFlight(s, k)') + 1 <= MaxCount(k) + Cardinality(Handlers)
  <2>1. /\ Cardinality(InFlight(s, k)') \in Nat /\ Cardinality(InFlight(s, k)') <= Cardinality(Handlers)
        /\ Cardinality(Handlers) \in Nat
    BY FS_Subset, FS_CardinalityType, RateLimitsAssumption DEF InFlight
  <2>2. counted' = counted /\ counted[s][k] \in Nat /\ MaxCount(k) \in Nat
    BY MaxCountType DEF Admit, LimitsInv, LimitsTyped
  <2>3. CASE s = sc /\ k \in RuleKeys(sc, e)
    <3>1. counted[s][k] < MaxCount(k)
      BY <2>3 DEF Admit, WithinRateLimit
    <3> QED BY <2>1, <2>2, <3>1
  <2>4. CASE ~(s = sc /\ k \in RuleKeys(sc, e))
    <3>1. InFlight(s, k)' = InFlight(s, k)
      BY <1>2, <1>3, <2>4, RateLimitsAssumption DEF InFlight, LimitScopes
    <3> QED BY <2>2, <3>1 DEF LimitsInv, RoomForFlying
  <2> QED BY <2>3, <2>4
<1> QED BY <1>1, <1>4 DEF LimitsInv, RoomForFlying

(* A request that ends, recorded or lost.                                  *)
LEMMA LandingKeeps ==
  ASSUME LimitsInv, NEW h \in Handlers, handling[h].scope # Nobody,
         handling' = [handling EXCEPT ![h] = AtRest], LimitsTyped',
         \A s \in LimitScopes, k \in LimitKeys :
           counted'[s][k] = counted[s][k] \/ (h \in InFlight(s, k) /\ counted'[s][k] = counted[s][k] + 1)
  PROVE  LimitsInv'
<1>1. ASSUME NEW s \in LimitScopes, NEW k \in LimitKeys
      PROVE  counted'[s][k] + Cardinality(InFlight(s, k)') + 1 <= MaxCount(k) + Cardinality(Handlers)
  <2>1. InFlight(s, k)' = InFlight(s, k) \ {h}
    BY RateLimitsAssumption DEF InFlight, LimitsInv, LimitsTyped, AtRest, LimitScopes
  <2>2. counted[s][k] \in Nat /\ MaxCount(k) \in Nat /\ Cardinality(Handlers) \in Nat
    BY MaxCountType, FS_CardinalityType, RateLimitsAssumption DEF LimitsInv, LimitsTyped
  <2>3. counted[s][k] + Cardinality(InFlight(s, k)) + 1 <= MaxCount(k) + Cardinality(Handlers)
    BY DEF LimitsInv, RoomForFlying
  <2>4. Cardinality(InFlight(s, k)) \in Nat /\ IsFiniteSet(InFlight(s, k))
    BY FlightsAreFinite
  <2>5. CASE h \in InFlight(s, k)
    <3>1. Cardinality(InFlight(s, k) \ {h}) = Cardinality(InFlight(s, k)) - 1
      BY <2>4, <2>5, FS_RemoveElement
    <3> QED BY <2>1, <2>2, <2>3, <2>4, <3>1
  <2>6. CASE h \notin InFlight(s, k)
    <3>1. InFlight(s, k) \ {h} = InFlight(s, k)
      BY <2>6
    <3> QED BY <2>1, <2>2, <2>3, <2>4, <2>6, <3>1
  <2> QED BY <2>5, <2>6
<1> QED BY <1>1 DEF LimitsInv, RoomForFlying

LEMMA LimitsPreserved == LimitsInv /\ [NextLimits]_limitVars => LimitsInv'
<1> SUFFICES ASSUME LimitsInv, [NextLimits]_limitVars PROVE LimitsInv'
  OBVIOUS
<1>1. ASSUME NEW h \in Handlers, NEW ok \in BOOLEAN, RecordAttempt(h, ok) PROVE LimitsInv'
  <2> DEFINE sc == handling[h].scope
             Grows(k) == k \in RuleKeys(sc, handling[h].email) /\ IsCounted(sc, ok)
  <2>1. /\ sc \in LimitScopes /\ sc # Nobody /\ handling' = [handling EXCEPT ![h] = AtRest]
        /\ counted' = [counted EXCEPT ![sc] = [k \in LimitKeys |-> IF Grows(k) THEN counted[sc][k] + 1 ELSE counted[sc][k]]]
    BY <1>1 DEF RecordAttempt, LimitsInv, LimitsTyped
  <2>2. \A k : Grows(k) => k \in RuleKeys(sc, handling[h].email)
    OBVIOUS
  <2> HIDE DEF Grows
  <2>3. LimitsTyped'
    BY <2>1 DEF LimitsInv, LimitsTyped, AtRest
  <2>4. \A s \in LimitScopes, k \in LimitKeys :
           counted'[s][k] = counted[s][k] \/ (h \in InFlight(s, k) /\ counted'[s][k] = counted[s][k] + 1)
    BY <2>1, <2>2 DEF LimitsInv, LimitsTyped, InFlight
  <2> QED BY <2>1, <2>3, <2>4, LandingKeeps
<1>2. ASSUME NEW h \in Handlers, LoseAttempt(h) PROVE LimitsInv'
  <2>1. LimitsTyped' /\ handling[h].scope # Nobody
    BY <1>2, RateLimitsAssumption DEF LoseAttempt, LimitsInv, LimitsTyped, AtRest
  <2> QED BY <1>2, <2>1, LandingKeeps DEF LoseAttempt
<1>3. ASSUME NEW sc \in LimitScopes, NEW k \in LimitKeys, WindowPasses(sc, k) PROVE LimitsInv'
  <2>1. LimitsTyped'
    BY <1>3 DEF WindowPasses, LimitsInv, LimitsTyped
  <2>2. \A s \in LimitScopes, j \in LimitKeys : counted'[s][j] <= counted[s][j] /\ InFlight(s, j)' = InFlight(s, j)
    BY <1>3 DEF WindowPasses, LimitsInv, LimitsTyped, InFlight
  <2>3. \A s \in LimitScopes, j \in LimitKeys : Cardinality(InFlight(s, j)) \in Nat /\ MaxCount(j) \in Nat
    BY FlightsAreFinite, MaxCountType
  <2>4. Cardinality(Handlers) \in Nat
    BY FS_CardinalityType, RateLimitsAssumption
  <2> QED BY <2>1, <2>2, <2>3, <2>4 DEF LimitsInv, LimitsTyped, RoomForFlying
<1>4. CASE UNCHANGED limitVars
  BY <1>4 DEF limitVars, LimitsInv, LimitsTyped, RoomForFlying, InFlight
<1> QED BY <1>1, <1>2, <1>3, <1>4, AdmitKeeps DEF NextLimits

(* A limit can be exceeded by the requests being served at that moment and *)
(* no further, for any limits and any number of handlers                   *)
(* (assert_within_rate_limit, record_attempt).                             *)
THEOREM OvershootStaysBounded == SpecLimits => []OvershootIsBounded
<1>1. LimitsInv => OvershootIsBounded
  <2> SUFFICES ASSUME LimitsInv, NEW sc \in LimitScopes, NEW k \in LimitKeys
               PROVE  counted[sc][k] + 1 <= MaxCount(k) + Cardinality(Handlers)
    BY DEF OvershootIsBounded
  <2>1. counted[sc][k] \in Nat /\ MaxCount(k) \in Nat /\ Cardinality(Handlers) \in Nat
    BY MaxCountType, FS_CardinalityType, RateLimitsAssumption DEF LimitsInv, LimitsTyped
  <2> QED BY <2>1, FlightsAreFinite DEF LimitsInv, RoomForFlying
<1> QED BY LimitsBegin, LimitsPreserved, <1>1, PTL DEF SpecLimits

-----------------------------------------------------------------------------
(* How accounts come to be.  Nothing is locked between what a request      *)
(* reads and what it commits: what holds the whole together is that e-mail *)
(* and invitation name each other, so the unique e-mail decides.           *)

(* What a request carries between its steps is still there.                *)
FitsVisit(x) ==
  /\ x.op = "accept" => x.on \in Invitations /\ inv[x.on].state # "none"
  /\ x.op \in {"review", "approve"} => x.on \in ConnRequests /\ conn[x.on].status # "none"
  /\ x.op = "review" => x.arg \in {"reviewing", "rejected"}
  /\ x.op \in {"bootstrap", "apply", "applying"} => x.on \in Mailboxes
  /\ x.op \in {"issue", "issuing", "confirm"} => x.on \in Registered
  /\ x.op \in {"applying", "issuing"} => x.arg \in Tokens
  /\ x.op = "applying" => ~EmailTaken(x.on)
VisitsFit == \A v \in Visitors : FitsVisit(visit[v])
OneApplies == \A v, w \in Visitors :
  visit[v].op = "applying" /\ visit[w].op = "applying" /\ visit[v].on = visit[w].on => v = w
OnePerEmail == \A a, b \in Registered : acct[a].email = acct[b].email => a = b

(* Rows that exist have an e-mail; an account and its invitation share it. *)
RowsKnown == /\ \A q \in ConnRequests : conn[q].status # "none" => conn[q].email \in Mailboxes
             /\ \A i \in Invitations : inv[i].state # "none" => inv[i].email \in Mailboxes
             /\ \A i \in Invitations : inv[i].state = "none" => inv[i].from = Nothing
MadeByUsed == \A a \in Accounts : acct[a].by # Nothing =>
  inv[acct[a].by].state = "accepted" /\ acct[a].email = inv[acct[a].by].email
UsedMade == \A i \in Invitations : inv[i].state = "accepted" => \E a \in Accounts : acct[a].by = i

(* A request and its latest invitation name each other.                    *)
LatestNamesRequest == \A q \in ConnRequests :
  /\ conn[q].inv # Nothing => inv[conn[q].inv].from = q /\ inv[conn[q].inv].state # "none"
  /\ conn[q].status = "invited" => conn[q].inv # Nothing
RequestNamesOne == \A i \in Invitations : inv[i].from # Nothing =>
  conn[inv[i].from].inv # Nothing /\ conn[inv[i].from].status # "none"

AccountsInv == VisitsFit /\ OneApplies /\ OnePerEmail /\ MadeByUsed /\ UsedMade
OwnersInv == RowsKnown /\ LatestNamesRequest /\ RequestNamesOne
OnboardingInv == OnboardingTypeOK /\ AccountsInv /\ OwnersInv

-----------------------------------------------------------------------------
(* Visits *)
LEMMA NothingKnown ==
  /\ Nothing \notin ConnRequests /\ Nothing \notin Invitations /\ Nothing \notin Mailboxes
  BY OnboardingAssumption

(* Rows never go away, so what a request carries stays there; only the     *)
(* e-mail of an application under way could be taken meanwhile.            *)
LEMMA StaysFit ==
  ASSUME NEW x \in Visit, FitsVisit(x),
         \A q \in ConnRequests : conn[q].status # "none" => conn'[q].status # "none",
         \A i \in Invitations : inv[i].state # "none" => inv'[i].state # "none",
         Registered \subseteq Registered',
         x.op = "applying" => ~EmailTaken(x.on)'
  PROVE  FitsVisit(x)'
  BY DEF FitsVisit

LEMMA NoVisitFits == NoVisit \in Visit /\ FitsVisit(NoVisit)' /\ FitsVisit(NoVisit)
                     /\ NoVisit.op = "none"
  BY DEF NoVisit, Visit, FitsVisit

LEMMA VisitMoves ==
  ASSUME OnboardingInv, NEW v \in Visitors, NEW x \in Visit,
         visit' = [visit EXCEPT ![v] = x], FitsVisit(x),
         x.op = "applying" => \A w \in Visitors :
           ~(visit[w].op = "applying" /\ visit[w].on = x.on),
         UNCHANGED <<conn, inv, acct>>, mailed' \subseteq Tokens \X Mailboxes
  PROVE  OnboardingInv'
<1>1. visit' \in [Visitors -> Visit] /\ visit'[v] = x
      /\ \A w \in Visitors : w # v => visit'[w] = visit[w]
  BY DEF OnboardingInv, OnboardingTypeOK
<1>2. OnboardingTypeOK'
  BY <1>1 DEF OnboardingInv, OnboardingTypeOK
<1>3. ASSUME NEW y, FitsVisit(y)
      PROVE  FitsVisit(y)'
  BY <1>3 DEF FitsVisit, EmailTaken, Registered
<1>4. VisitsFit'
  BY <1>1, <1>3 DEF OnboardingInv, AccountsInv, VisitsFit
<1>5. OneApplies'
  BY <1>1 DEF OnboardingInv, AccountsInv, OneApplies
<1>6. OnePerEmail' /\ MadeByUsed' /\ UsedMade' /\ OwnersInv'
  BY DEF OnboardingInv, AccountsInv, OwnersInv, OnePerEmail, MadeByUsed, UsedMade, Registered,
         RowsKnown, LatestNamesRequest, RequestNamesOne
<1> QED BY <1>2, <1>4, <1>5, <1>6 DEF OnboardingInv, AccountsInv

LEMMA Leaves ==
  ASSUME OnboardingInv, NEW v \in Visitors, Leave(v), UNCHANGED <<conn, inv, acct, mailed>>
  PROVE  OnboardingInv'
<1>1. mailed' \subseteq Tokens \X Mailboxes
  BY DEF OnboardingInv, OnboardingTypeOK
<1>2. visit' = [visit EXCEPT ![v] = NoVisit]
  BY DEF Leave
<1> QED BY ONLY <1>1, <1>2, NoVisitFits, VisitMoves, OnboardingInv, v \in Visitors,
                UNCHANGED <<conn, inv, acct, mailed>>

(* A request that has only read.                                           *)
LEMMA Enters ==
  ASSUME OnboardingInv, NEW v \in Visitors, NEW op, NEW on, NEW arg, Enter(v, op, on, arg),
         [op |-> op, on |-> on, arg |-> arg] \in Visit, op # "applying",
         FitsVisit([op |-> op, on |-> on, arg |-> arg]),
         UNCHANGED <<conn, inv, acct, mailed>>
  PROVE  OnboardingInv'
<1>1. PICK x \in Visit : x = [op |-> op, on |-> on, arg |-> arg]
  OBVIOUS
<1>2. visit' = [visit EXCEPT ![v] = x] /\ x.op # "applying" /\ FitsVisit(x)
  BY <1>1 DEF Enter
<1>3. mailed' \subseteq Tokens \X Mailboxes
  BY DEF OnboardingInv, OnboardingTypeOK
<1> QED BY ONLY <1>2, <1>3, VisitMoves, OnboardingInv, v \in Visitors, x \in Visit,
                UNCHANGED <<conn, inv, acct, mailed>>

-----------------------------------------------------------------------------
(* An account is made: by the bootstrap, an application or an invitation. *)
LEMMA AccountMade ==
  ASSUME OnboardingInv, NEW v \in Visitors, NEW a \in Accounts, NEW row \in AcctRow,
         row.email \in Mailboxes, acct[a].email = Nothing, ~EmailTaken(row.email),
         \A w \in Visitors : w # v => ~(visit[w].op = "applying" /\ visit[w].on = row.email),
         acct' = [acct EXCEPT ![a] = row], Leave(v), UNCHANGED <<conn, mailed>>,
         inv' \in [Invitations -> InvRow],
         \A i \in Invitations : /\ inv'[i].email = inv[i].email /\ inv'[i].from = inv[i].from
                                /\ inv[i].state # "none" <=> inv'[i].state # "none"
                                /\ (inv'[i].state = "accepted"
                                      <=> inv[i].state = "accepted" \/ row.by = i),
         row.by # Nothing => inv[row.by].email = row.email
  PROVE  OnboardingInv'
<1>1. visit' \in [Visitors -> Visit] /\ visit'[v] = NoVisit
      /\ \A w \in Visitors : w # v => visit'[w] = visit[w]
  BY NoVisitFits DEF OnboardingInv, OnboardingTypeOK, Leave
<1>2. /\ acct' \in [Accounts -> AcctRow] /\ acct'[a] = row
      /\ \A b \in Accounts : b # a => acct'[b] = acct[b]
  BY DEF OnboardingInv, OnboardingTypeOK
<1>3. OnboardingTypeOK'
  BY <1>1, <1>2 DEF OnboardingInv, OnboardingTypeOK
<1>4. Registered' = Registered \cup {a} /\ a \notin Registered
  BY <1>2, NothingKnown DEF Registered
<1>5. ASSUME NEW w \in Visitors, w # v, NEW x \in Visit, x = visit[w]
      PROVE  FitsVisit(x)'
  <2>1. FitsVisit(x) /\ (x.op = "applying" => x.on # row.email)
    BY <1>5 DEF OnboardingInv, AccountsInv, VisitsFit
  <2>2. x.op = "applying" => ~EmailTaken(x.on)'
    BY <2>1, <1>2, <1>4 DEF FitsVisit, EmailTaken, Registered
  <2> QED BY <2>1, <2>2, <1>4, StaysFit
<1>6. VisitsFit'
  <2>1. \A w \in Visitors : visit[w] \in Visit
    BY DEF OnboardingInv, OnboardingTypeOK
  <2>2. ASSUME NEW w \in Visitors, NEW x, x = visit'[w]
        PROVE  FitsVisit(x)'
    BY <1>1, <1>5, <2>1, <2>2, NoVisitFits
  <2> QED BY <2>2 DEF VisitsFit
<1>7. OneApplies'
  BY <1>1, NoVisitFits DEF OnboardingInv, AccountsInv, OneApplies
<1>8. OnePerEmail'
  BY <1>2, <1>4 DEF OnboardingInv, AccountsInv, OnePerEmail, EmailTaken, Registered
<1>9. acct[a].by = Nothing
  <2>1. ASSUME acct[a].by # Nothing
        PROVE  FALSE
    <3>1. acct[a].by \in Invitations
      BY <2>1 DEF OnboardingInv, OnboardingTypeOK, AcctRow
    <3> QED BY <2>1, <3>1, NothingKnown
            DEF OnboardingInv, AccountsInv, OwnersInv, MadeByUsed, RowsKnown
  <2> QED BY <2>1
<1>10. \A b \in Accounts : acct'[b].by \in Invitations \cup {Nothing}
  BY <1>2 DEF AcctRow
<1>11. MadeByUsed'
  BY <1>2, <1>10 DEF OnboardingInv, AccountsInv, MadeByUsed
<1>12. UsedMade'
  BY <1>2, <1>9, NothingKnown DEF OnboardingInv, AccountsInv, UsedMade
<1>13. \A q \in ConnRequests : conn[q].inv \in Invitations \cup {Nothing}
  BY DEF OnboardingInv, OnboardingTypeOK, ConnRow
<1>14. OwnersInv'
  BY <1>13 DEF OnboardingInv, OwnersInv, RowsKnown, LatestNamesRequest, RequestNamesOne
<1> QED BY <1>3, <1>6, <1>7, <1>8, <1>11, <1>12, <1>14 DEF OnboardingInv, AccountsInv

LEMMA NewAccountTyped ==
  ASSUME NEW e \in Mailboxes, NEW i \in Invitations \cup {Nothing}
  PROVE  /\ NewAccount(e, i) \in AcctRow /\ NewAccount(e, i).email = e
         /\ NewAccount(e, i).by = i
  BY DEF NewAccount, AcctRow

(* What an account is made over stays as it was: no invitation is used.    *)
LEMMA AccountAlone ==
  ASSUME OnboardingInv, NEW v \in Visitors, NEW a \in Accounts, NEW row \in AcctRow,
         row.email \in Mailboxes, row.by = Nothing, acct[a].email = Nothing,
         ~EmailTaken(row.email),
         \A w \in Visitors : w # v => ~(visit[w].op = "applying" /\ visit[w].on = row.email),
         acct' = [acct EXCEPT ![a] = row], Leave(v), UNCHANGED <<conn, inv, mailed>>
  PROVE  OnboardingInv'
<1>1. inv' \in [Invitations -> InvRow]
  BY DEF OnboardingInv, OnboardingTypeOK
<1>2. \A i \in Invitations :
        /\ inv'[i].email = inv[i].email /\ inv'[i].from = inv[i].from
        /\ inv[i].state # "none" <=> inv'[i].state # "none"
        /\ (inv'[i].state = "accepted" <=> inv[i].state = "accepted" \/ row.by = i)
  BY NothingKnown
<1>3. UNCHANGED <<conn, mailed>>
  OBVIOUS
<1> QED BY <1>1, <1>2, <1>3, AccountMade

LEMMA BootstrapEndsKeeps ==
  ASSUME OnboardingInv, NEW v \in Visitors, NEW a \in Accounts, BootstrapEnds(v, a)
  PROVE  OnboardingInv'
<1>1. PICK e : e = visit[v].on
  OBVIOUS
<1>2. e \in Mailboxes
  BY <1>1 DEF BootstrapEnds, OnboardingInv, AccountsInv, VisitsFit, FitsVisit
<1>3. CASE Refused(v, visit[v].on)
  BY <1>3, Leaves DEF Refused
<1>4. CASE /\ MayPersist(a, e) /\ acct' = [acct EXCEPT ![a] = NewAccount(e, Nothing)]
           /\ Leave(v) /\ UNCHANGED <<conn, inv, mailed>>
  <2>1. PICK row \in AcctRow : row = NewAccount(e, Nothing)
    BY <1>2, NewAccountTyped
  <2>2. row.email = e /\ row.by = Nothing
    BY <1>2, <2>1, NewAccountTyped
  <2>3. acct[a].email = Nothing /\ ~EmailTaken(row.email)
        /\ \A w \in Visitors : ~(visit[w].op = "applying" /\ visit[w].on = row.email)
    BY <1>4, <2>2 DEF MayPersist, EmailHeld
  <2>4. acct' = [acct EXCEPT ![a] = row]
    BY <1>4, <2>1
  <2> QED BY <1>2, <1>4, <2>2, <2>3, <2>4, AccountAlone
<1> QED BY <1>1, <1>3, <1>4 DEF BootstrapEnds

LEMMA ApplyCommitsKeeps ==
  ASSUME OnboardingInv, NEW v \in Visitors, NEW a \in Accounts, ApplyCommits(v, a)
  PROVE  OnboardingInv'
<1>1. PICK e, t : e = visit[v].on /\ t = visit[v].arg
  OBVIOUS
<1>2. e \in Mailboxes /\ t \in Tokens /\ ~EmailTaken(e)
  BY <1>1 DEF ApplyCommits, OnboardingInv, AccountsInv, VisitsFit, FitsVisit
<1>3. PICK row : row = [NewAccount(e, Nothing) EXCEPT !.token = t, !.sent = "just"]
  OBVIOUS
<1>4. row \in AcctRow /\ row.email = e /\ row.by = Nothing
  BY <1>2, <1>3 DEF NewAccount, AcctRow
<1>5. \A w \in Visitors : w # v => ~(visit[w].op = "applying" /\ visit[w].on = row.email)
  BY <1>1, <1>4 DEF ApplyCommits, OnboardingInv, AccountsInv, OneApplies
<1>6. acct' = [acct EXCEPT ![a] = row]
  BY <1>1, <1>3 DEF ApplyCommits
<1>7. acct[a].email = Nothing /\ Leave(v) /\ UNCHANGED <<conn, inv, mailed>>
  BY DEF ApplyCommits
<1> QED BY <1>2, <1>4, <1>5, <1>6, <1>7, AccountAlone

LEMMA AcceptEndsKeeps ==
  ASSUME OnboardingInv, NEW v \in Visitors, NEW a \in Accounts, AcceptEnds(v, a)
  PROVE  OnboardingInv'
<1>1. PICK i, e : i = visit[v].on /\ e = inv[i].email
  OBVIOUS
<1>2. i \in Invitations /\ inv[i].state # "none" /\ e \in Mailboxes
  BY <1>1 DEF AcceptEnds, OnboardingInv, AccountsInv, OwnersInv, VisitsFit, FitsVisit, RowsKnown
<1>3. CASE Refused(v, inv[visit[v].on].email)
  BY <1>3, Leaves DEF Refused
<1>4. CASE /\ MayPersist(a, e) /\ acct' = [acct EXCEPT ![a] = NewAccount(e, i)]
           /\ inv' = [inv EXCEPT ![i].state = "accepted"]
           /\ Leave(v) /\ UNCHANGED <<conn, mailed>>
  <2>1. PICK row \in AcctRow : row = NewAccount(e, i)
    BY <1>2, NewAccountTyped
  <2>2. row.email = e /\ row.by = i
    BY <1>2, <2>1, NewAccountTyped
  <2>3. acct[a].email = Nothing /\ ~EmailTaken(row.email)
        /\ \A w \in Visitors : ~(visit[w].op = "applying" /\ visit[w].on = row.email)
    BY <1>4, <2>2 DEF MayPersist, EmailHeld
  <2>4. acct' = [acct EXCEPT ![a] = row]
    BY <1>4, <2>1
  <2>5. inv[i] \in InvRow
    BY <1>2 DEF OnboardingInv, OnboardingTypeOK
  <2>6. PICK used : used = [inv[i] EXCEPT !.state = "accepted"]
    OBVIOUS
  <2>7. used \in InvRow /\ used.email = e /\ used.from = inv[i].from
        /\ used.state = "accepted"
    BY <1>1, <2>5, <2>6 DEF InvRow
  <2>8. inv' = [inv EXCEPT ![i] = used] /\ inv \in [Invitations -> InvRow]
    BY <1>4, <2>6 DEF OnboardingInv, OnboardingTypeOK
  <2>9. /\ inv' \in [Invitations -> InvRow] /\ inv'[i] = used
        /\ \A j \in Invitations : j # i => inv'[j] = inv[j]
    BY <1>2, <2>7, <2>8
  <2>10. \A j \in Invitations :
           /\ inv'[j].email = inv[j].email /\ inv'[j].from = inv[j].from
           /\ inv[j].state # "none" <=> inv'[j].state # "none"
           /\ (inv'[j].state = "accepted" <=> inv[j].state = "accepted" \/ row.by = j)
    BY <1>1, <1>2, <2>2, <2>7, <2>9
  <2>11. /\ row.email \in Mailboxes /\ inv[row.by].email = row.email
         /\ Leave(v) /\ UNCHANGED <<conn, mailed>>
    BY <1>1, <1>2, <1>4, <2>2
  <2> QED BY <2>3, <2>4, <2>9, <2>10, <2>11, AccountMade
<1> QED BY <1>1, <1>3, <1>4 DEF AcceptEnds

-----------------------------------------------------------------------------
(* Accounts that stay the same people *)
LEMMA LeftOrSame ==
  ASSUME OnboardingInv, visit' = visit \/ \E v \in Visitors : Leave(v)
  PROVE  /\ visit' \in [Visitors -> Visit]
         /\ \A w \in Visitors : visit'[w] = visit[w] \/ visit'[w] = NoVisit
  BY NoVisitFits DEF OnboardingInv, OnboardingTypeOK, Leave

LEMMA SameAccounts ==
  ASSUME OnboardingInv, NEW a \in Accounts, NEW row \in AcctRow,
         row.email = acct[a].email, row.by = acct[a].by,
         acct' = [acct EXCEPT ![a] = row],
         visit' = visit \/ \E v \in Visitors : Leave(v), UNCHANGED <<conn, inv, mailed>>
  PROVE  OnboardingInv'
<1>1. /\ visit' \in [Visitors -> Visit]
      /\ \A w \in Visitors : visit'[w] = visit[w] \/ visit'[w] = NoVisit
  BY LeftOrSame
<1>2. /\ acct' \in [Accounts -> AcctRow]
      /\ \A b \in Accounts : acct'[b].email = acct[b].email /\ acct'[b].by = acct[b].by
  BY DEF OnboardingInv, OnboardingTypeOK
<1>3. OnboardingTypeOK'
  BY <1>1, <1>2 DEF OnboardingInv, OnboardingTypeOK
<1>4. Registered' = Registered
  BY <1>2 DEF Registered
<1>5. ASSUME NEW x \in Visit, FitsVisit(x)
      PROVE  FitsVisit(x)'
  <2>1. x.op = "applying" => ~EmailTaken(x.on)'
    BY <1>2, <1>4, <1>5 DEF FitsVisit, EmailTaken, Registered
  <2> QED BY <2>1, <1>4, <1>5, StaysFit
<1>6. VisitsFit'
  <2>1. ASSUME NEW w \in Visitors, NEW x, x = visit'[w]
        PROVE  FitsVisit(x)'
    BY <1>1, <1>5, <2>1, NoVisitFits
       DEF OnboardingInv, AccountsInv, VisitsFit, OnboardingTypeOK
  <2> QED BY <2>1 DEF VisitsFit
<1>7. OneApplies'
  BY <1>1, NoVisitFits DEF OnboardingInv, AccountsInv, OneApplies
<1>8. OnePerEmail' /\ MadeByUsed' /\ UsedMade'
  BY <1>2, <1>4 DEF OnboardingInv, AccountsInv, OnePerEmail, MadeByUsed, UsedMade, Registered
<1>9. OwnersInv'
  BY DEF OnboardingInv, OwnersInv, RowsKnown, LatestNamesRequest, RequestNamesOne
<1> QED BY <1>3, <1>6, <1>7, <1>8, <1>9 DEF OnboardingInv, AccountsInv

LEMMA LetterAgesKeeps ==
  ASSUME OnboardingInv, NEW a \in Accounts, LetterAges(a)
  PROVE  OnboardingInv'
<1>1. acct[a] \in AcctRow
  BY DEF OnboardingInv, OnboardingTypeOK
<1>2. PICK s : s = IF acct[a].sent = "just" THEN "recently" ELSE "late"
  OBVIOUS
<1>3. PICK row : row = [acct[a] EXCEPT !.sent = s]
  OBVIOUS
<1>4. row \in AcctRow /\ row.email = acct[a].email /\ row.by = acct[a].by
  BY <1>1, <1>2, <1>3 DEF AcctRow
<1>5. acct' = [acct EXCEPT ![a] = row]
  BY <1>2, <1>3 DEF LetterAges, OnboardingInv, OnboardingTypeOK
<1>6. UNCHANGED <<conn, inv, mailed>> /\ visit' = visit
  BY DEF LetterAges
<1> QED BY <1>4, <1>5, <1>6, SameAccounts

LEMMA IssueCommitsKeeps ==
  ASSUME OnboardingInv, NEW v \in Visitors, IssueCommits(v)
  PROVE  OnboardingInv'
<1>1. PICK a, t : a = visit[v].on /\ t = visit[v].arg
  OBVIOUS
<1>2. a \in Accounts /\ t \in Tokens
  BY <1>1 DEF IssueCommits, OnboardingInv, AccountsInv, VisitsFit, FitsVisit, Registered
<1>3. acct[a] \in AcctRow
  BY <1>2 DEF OnboardingInv, OnboardingTypeOK
<1>4. PICK row : row = [acct[a] EXCEPT !.token = t, !.sent = "just"]
  OBVIOUS
<1>5. row \in AcctRow /\ row.email = acct[a].email /\ row.by = acct[a].by
  BY <1>2, <1>3, <1>4 DEF AcctRow
<1>6. acct' = [acct EXCEPT ![a] = row]
  BY <1>1, <1>2, <1>4 DEF IssueCommits, OnboardingInv, OnboardingTypeOK
<1>7. Leave(v) /\ UNCHANGED <<conn, inv, mailed>>
  BY DEF IssueCommits
<1> QED BY <1>2, <1>5, <1>6, <1>7, SameAccounts

LEMMA ConfirmEndsKeeps ==
  ASSUME OnboardingInv, NEW v \in Visitors, ConfirmEnds(v)
  PROVE  OnboardingInv'
<1>1. PICK a : a = visit[v].on
  OBVIOUS
<1>2. a \in Accounts
  BY <1>1 DEF ConfirmEnds, OnboardingInv, AccountsInv, VisitsFit, FitsVisit, Registered
<1>3. acct[a] \in AcctRow
  BY <1>2 DEF OnboardingInv, OnboardingTypeOK
<1>4. PICK row : row = [acct[a] EXCEPT !.token = Nothing, !.verified = TRUE]
  OBVIOUS
<1>5. row \in AcctRow /\ row.email = acct[a].email /\ row.by = acct[a].by
  BY <1>3, <1>4 DEF AcctRow
<1>6. acct' = [acct EXCEPT ![a] = row]
  BY <1>1, <1>2, <1>4 DEF ConfirmEnds, OnboardingInv, OnboardingTypeOK
<1>7. Leave(v) /\ UNCHANGED <<conn, inv, mailed>>
  BY DEF ConfirmEnds
<1> QED BY <1>2, <1>5, <1>6, <1>7, SameAccounts

-----------------------------------------------------------------------------
(* Requests and invitations: the accounts stand still. *)
LEMMA RowsMove ==
  ASSUME OnboardingInv, OwnersInv', visit' = visit \/ \E v \in Visitors : Leave(v),
         conn' \in [ConnRequests -> ConnRow], inv' \in [Invitations -> InvRow],
         UNCHANGED <<acct, mailed>>,
         \A q \in ConnRequests : conn[q].status # "none" => conn'[q].status # "none",
         \A i \in Invitations :
           /\ inv[i].state # "none" => inv'[i].state # "none" /\ inv'[i].email = inv[i].email
           /\ inv[i].state = "accepted" <=> inv'[i].state = "accepted"
  PROVE  OnboardingInv'
<1>1. /\ visit' \in [Visitors -> Visit]
      /\ \A w \in Visitors : visit'[w] = visit[w] \/ visit'[w] = NoVisit
  BY LeftOrSame
<1>2. OnboardingTypeOK'
  BY <1>1 DEF OnboardingInv, OnboardingTypeOK
<1>3. ASSUME NEW x \in Visit, FitsVisit(x)
      PROVE  FitsVisit(x)'
  <2>1. Registered' = Registered
    BY DEF Registered
  <2>2. x.op = "applying" => ~EmailTaken(x.on)'
    BY <2>1, <1>3 DEF FitsVisit, EmailTaken, Registered
  <2> QED BY <2>1, <2>2, <1>3, StaysFit
<1>4. VisitsFit'
  <2>1. ASSUME NEW w \in Visitors, NEW x, x = visit'[w]
        PROVE  FitsVisit(x)'
    BY <1>1, <1>3, <2>1, NoVisitFits
       DEF OnboardingInv, AccountsInv, VisitsFit, OnboardingTypeOK
  <2> QED BY <2>1 DEF VisitsFit
<1>5. OneApplies'
  BY <1>1, NoVisitFits DEF OnboardingInv, AccountsInv, OneApplies
<1>6. \A b \in Accounts : acct[b].by \in Invitations \cup {Nothing}
  BY DEF OnboardingInv, OnboardingTypeOK, AcctRow
<1>7. OnePerEmail' /\ MadeByUsed' /\ UsedMade'
  BY <1>6 DEF OnboardingInv, AccountsInv, OnePerEmail, MadeByUsed, UsedMade, Registered
<1> QED BY <1>2, <1>4, <1>5, <1>7 DEF OnboardingInv, AccountsInv

(* The rows as they are: what the invariant says of one of each.           *)
LEMMA RowsTyped ==
  ASSUME OnboardingInv
  PROVE  /\ conn \in [ConnRequests -> ConnRow] /\ inv \in [Invitations -> InvRow]
         /\ \A q \in ConnRequests : conn[q].inv \in Invitations \cup {Nothing}
         /\ \A i \in Invitations : inv[i].from \in ConnRequests \cup {Nothing}
  BY DEF OnboardingInv, OnboardingTypeOK, ConnRow, InvRow

LEMMA CreateInvitationKeeps ==
  ASSUME OnboardingInv, NEW i \in Invitations, NEW e \in Mailboxes, CreateInvitation(i, e)
  PROVE  OnboardingInv'
<1>1. PICK row : row = [email |-> e, state |-> "open", from |-> Nothing]
  OBVIOUS
<1>2. row \in InvRow /\ row.email = e /\ row.state = "open" /\ row.from = Nothing
  BY <1>1 DEF InvRow
<1>3. inv' = [inv EXCEPT ![i] = row] /\ inv[i].state = "none"
      /\ UNCHANGED <<conn, acct, mailed, visit>>
  BY <1>1 DEF CreateInvitation
<1>4. /\ inv' \in [Invitations -> InvRow] /\ inv'[i] = row
      /\ \A j \in Invitations : j # i => inv'[j] = inv[j]
  BY <1>2, <1>3, RowsTyped
<1>5. OwnersInv'
  <2>1. RowsKnown'
    BY <1>2, <1>3, <1>4 DEF OnboardingInv, OwnersInv, RowsKnown
  <2>2. LatestNamesRequest'
    BY <1>3, <1>4, RowsTyped DEF OnboardingInv, OwnersInv, LatestNamesRequest
  <2>3. RequestNamesOne'
    BY <1>2, <1>3, <1>4 DEF OnboardingInv, OwnersInv, RequestNamesOne
  <2> QED BY <2>1, <2>2, <2>3 DEF OwnersInv
<1>6. conn' \in [ConnRequests -> ConnRow]
  BY <1>3, RowsTyped
<1> QED BY <1>2, <1>3, <1>4, <1>5, <1>6, RowsMove

LEMMA InvitationExpiresKeeps ==
  ASSUME OnboardingInv, NEW i \in Invitations, InvitationExpires(i)
  PROVE  OnboardingInv'
<1>1. PICK row : row = [inv[i] EXCEPT !.state = "late"]
  OBVIOUS
<1>2. row \in InvRow /\ row.email = inv[i].email /\ row.state = "late"
      /\ row.from = inv[i].from
  BY <1>1, RowsTyped DEF InvRow
<1>3. inv' = [inv EXCEPT ![i] = row] /\ inv[i].state = "open"
      /\ UNCHANGED <<conn, acct, mailed, visit>>
  BY <1>1, RowsTyped DEF InvitationExpires
<1>4. /\ inv' \in [Invitations -> InvRow] /\ inv'[i] = row
      /\ \A j \in Invitations : j # i => inv'[j] = inv[j]
  BY <1>2, <1>3, RowsTyped
<1>5. OwnersInv'
  <2>1. RowsKnown'
    BY <1>2, <1>3, <1>4 DEF OnboardingInv, OwnersInv, RowsKnown
  <2>2. LatestNamesRequest'
    BY <1>2, <1>3, <1>4, RowsTyped DEF OnboardingInv, OwnersInv, LatestNamesRequest
  <2>3. RequestNamesOne'
    BY <1>2, <1>3, <1>4 DEF OnboardingInv, OwnersInv, RequestNamesOne
  <2> QED BY <2>1, <2>2, <2>3 DEF OwnersInv
<1>6. conn' \in [ConnRequests -> ConnRow]
  BY <1>3, RowsTyped
<1> QED BY <1>2, <1>3, <1>4, <1>5, <1>6, RowsMove

LEMMA CreateProviderRequestKeeps ==
  ASSUME OnboardingInv, NEW q \in ConnRequests, NEW e \in Mailboxes,
         CreateProviderRequest(q, e)
  PROVE  OnboardingInv'
<1>1. PICK row : row = [status |-> "new", email |-> e, inv |-> Nothing]
  OBVIOUS
<1>2. row \in ConnRow /\ row.status = "new" /\ row.email = e /\ row.inv = Nothing
  BY <1>1 DEF ConnRow
<1>3. conn' = [conn EXCEPT ![q] = row] /\ conn[q].status = "none"
      /\ UNCHANGED <<inv, acct, mailed, visit>>
  BY <1>1 DEF CreateProviderRequest
<1>4. /\ conn' \in [ConnRequests -> ConnRow] /\ conn'[q] = row
      /\ \A p \in ConnRequests : p # q => conn'[p] = conn[p]
  BY <1>2, <1>3, RowsTyped
<1>5. OwnersInv'
  <2>1. RowsKnown'
    BY <1>2, <1>3, <1>4 DEF OnboardingInv, OwnersInv, RowsKnown
  <2>2. LatestNamesRequest'
    BY <1>2, <1>3, <1>4 DEF OnboardingInv, OwnersInv, LatestNamesRequest
  <2>3. RequestNamesOne'
    BY <1>3, <1>4, RowsTyped DEF OnboardingInv, OwnersInv, RequestNamesOne
  <2> QED BY <2>1, <2>2, <2>3 DEF OwnersInv
<1>6. inv' \in [Invitations -> InvRow]
  BY <1>3, RowsTyped
<1> QED BY <1>2, <1>3, <1>4, <1>5, <1>6, RowsMove

LEMMA ReviewEndsKeeps ==
  ASSUME OnboardingInv, NEW v \in Visitors, ReviewEnds(v)
  PROVE  OnboardingInv'
<1>1. PICK q, t : q = visit[v].on /\ t = visit[v].arg
  OBVIOUS
<1>2. q \in ConnRequests /\ conn[q].status # "none" /\ t \in {"reviewing", "rejected"}
  BY <1>1 DEF ReviewEnds, OnboardingInv, AccountsInv, VisitsFit, FitsVisit
<1>3. PICK row : row = [conn[q] EXCEPT !.status = t]
  OBVIOUS
<1>4. row \in ConnRow /\ row.status = t /\ row.email = conn[q].email /\ row.inv = conn[q].inv
  BY <1>2, <1>3, RowsTyped DEF ConnRow
<1>5. conn' = [conn EXCEPT ![q] = row] /\ Leave(v) /\ UNCHANGED <<inv, acct, mailed>>
  BY <1>1, <1>2, <1>3, RowsTyped DEF ReviewEnds, ReviewedRow
<1>6. /\ conn' \in [ConnRequests -> ConnRow] /\ conn'[q] = row
      /\ \A p \in ConnRequests : p # q => conn'[p] = conn[p]
  BY <1>2, <1>4, <1>5, RowsTyped
<1>7. OwnersInv'
  <2>1. RowsKnown'
    BY <1>2, <1>4, <1>5, <1>6 DEF OnboardingInv, OwnersInv, RowsKnown
  <2>2. LatestNamesRequest'
    BY <1>2, <1>4, <1>5, <1>6 DEF OnboardingInv, OwnersInv, LatestNamesRequest
  <2>3. RequestNamesOne'
    BY <1>2, <1>4, <1>5, <1>6, RowsTyped DEF OnboardingInv, OwnersInv, RequestNamesOne
  <2> QED BY <2>1, <2>2, <2>3 DEF OwnersInv
<1>8. inv' \in [Invitations -> InvRow]
  BY <1>5, RowsTyped
<1>9. \A p \in ConnRequests : conn[p].status # "none" => conn'[p].status # "none"
  BY <1>2, <1>4, <1>6
<1>10. \A i \in Invitations : inv'[i] = inv[i]
  BY <1>5
<1> QED BY <1>5, <1>6, <1>7, <1>8, <1>9, <1>10, RowsMove

LEMMA ApproveEndsKeeps ==
  ASSUME OnboardingInv, NEW v \in Visitors, NEW i \in Invitations, ApproveEnds(v, i)
  PROVE  OnboardingInv'
<1>1. PICK q, e : q = visit[v].on /\ e = conn[q].email
  OBVIOUS
<1>2. q \in ConnRequests /\ conn[q].status # "none" /\ e \in Mailboxes
  BY <1>1 DEF ApproveEnds, OnboardingInv, AccountsInv, OwnersInv, RowsKnown, VisitsFit, FitsVisit
<1>3. PICK row, call : /\ row = [conn[q] EXCEPT !.status = "invited", !.inv = i]
                       /\ call = [email |-> e, state |-> "open", from |-> q]
  OBVIOUS
<1>4. /\ row \in ConnRow /\ row.status = "invited" /\ row.inv = i /\ row.email = e
      /\ call \in InvRow /\ call.email = e /\ call.state = "open" /\ call.from = q
  BY <1>1, <1>2, <1>3, RowsTyped DEF ConnRow, InvRow
<1>5. /\ conn' = [conn EXCEPT ![q] = row] /\ inv' = [inv EXCEPT ![i] = call]
      /\ inv[i].state = "none" /\ Leave(v) /\ UNCHANGED <<acct, mailed>>
  BY <1>1, <1>2, <1>3, RowsTyped DEF ApproveEnds
<1>6. /\ conn' \in [ConnRequests -> ConnRow] /\ conn'[q] = row
      /\ \A p \in ConnRequests : p # q => conn'[p] = conn[p]
      /\ inv' \in [Invitations -> InvRow] /\ inv'[i] = call
      /\ \A j \in Invitations : j # i => inv'[j] = inv[j]
  BY <1>2, <1>4, <1>5, RowsTyped
<1>7. OwnersInv'
  <2>1. RowsKnown'
    BY <1>2, <1>4, <1>6 DEF OnboardingInv, OwnersInv, RowsKnown
  <2>2. LatestNamesRequest'
    BY <1>4, <1>5, <1>6, RowsTyped, NothingKnown DEF OnboardingInv, OwnersInv, LatestNamesRequest
  <2>3. RequestNamesOne'
    BY <1>4, <1>6, RowsTyped, NothingKnown DEF OnboardingInv, OwnersInv, RequestNamesOne
  <2> QED BY <2>1, <2>2, <2>3 DEF OwnersInv
<1>8. \A p \in ConnRequests : conn[p].status # "none" => conn'[p].status # "none"
  BY <1>4, <1>6
<1>9. \A j \in Invitations :
        /\ inv[j].state # "none" => inv'[j].state # "none" /\ inv'[j].email = inv[j].email
        /\ inv[j].state = "accepted" <=> inv'[j].state = "accepted"
  BY <1>4, <1>5, <1>6
<1> QED BY <1>5, <1>6, <1>7, <1>8, <1>9, RowsMove

-----------------------------------------------------------------------------
(* Letters leave before their transaction commits. *)
LEMMA ApplyMailsKeeps ==
  ASSUME OnboardingInv, NEW v \in Visitors, NEW t \in Tokens, ApplyMails(v, t)
  PROVE  OnboardingInv'
<1>1. CASE Refused(v, visit[v].on)
  BY <1>1, Leaves DEF Refused
<1>2. CASE /\ ~EmailTaken(visit[v].on) /\ FreshToken(t)
           /\ mailed' = mailed \cup {<<t, visit[v].on>>}
           /\ visit' = [visit EXCEPT ![v].op = "applying", ![v].arg = t]
           /\ UNCHANGED <<conn, inv, acct>>
  <2>1. visit[v].on \in Mailboxes /\ visit \in [Visitors -> Visit] /\ visit[v] \in Visit
        /\ mailed \subseteq Tokens \X Mailboxes
    BY DEF ApplyMails, OnboardingInv, AccountsInv, VisitsFit, FitsVisit, OnboardingTypeOK
  <2>2. PICK x : x = [visit[v] EXCEPT !.op = "applying", !.arg = t]
    OBVIOUS
  <2>3. x \in Visit /\ x.op = "applying" /\ x.on = visit[v].on /\ x.arg = t
    BY <2>1, <2>2 DEF Visit
  <2>4. visit' = [visit EXCEPT ![v] = x]
    BY <1>2, <2>1, <2>2
  <2>5. FitsVisit(x)
    BY <1>2, <2>1, <2>3 DEF FitsVisit
  <2>6. \A w \in Visitors : ~(visit[w].op = "applying" /\ visit[w].on = x.on)
    BY <2>3 DEF ApplyMails, EmailHeld
  <2>7. mailed' \subseteq Tokens \X Mailboxes
    BY <1>2, <2>1
  <2> QED BY <1>2, <2>3, <2>4, <2>5, <2>6, <2>7, VisitMoves
<1> QED BY <1>1, <1>2 DEF ApplyMails

LEMMA IssueMailsKeeps ==
  ASSUME OnboardingInv, NEW v \in Visitors, NEW t \in Tokens, IssueMails(v, t)
  PROVE  OnboardingInv'
<1>1. /\ visit[v].on \in Registered /\ visit \in [Visitors -> Visit] /\ visit[v] \in Visit
      /\ mailed \subseteq Tokens \X Mailboxes /\ acct \in [Accounts -> AcctRow]
  BY DEF IssueMails, OnboardingInv, AccountsInv, VisitsFit, FitsVisit, OnboardingTypeOK
<1>2. PICK x : x = [visit[v] EXCEPT !.op = "issuing", !.arg = t]
  OBVIOUS
<1>3. x \in Visit /\ x.op = "issuing" /\ x.on = visit[v].on /\ x.arg = t
  BY <1>1, <1>2 DEF Visit
<1>4. visit' = [visit EXCEPT ![v] = x] /\ UNCHANGED <<conn, inv, acct>>
  BY <1>1, <1>2 DEF IssueMails
<1>5. FitsVisit(x)
  BY <1>1, <1>3 DEF FitsVisit
<1>6. acct[visit[v].on].email \in Mailboxes
  BY <1>1 DEF Registered, AcctRow
<1>7. mailed' \subseteq Tokens \X Mailboxes
  BY <1>1, <1>6 DEF IssueMails
<1> QED BY <1>3, <1>4, <1>5, <1>7, VisitMoves

-----------------------------------------------------------------------------
(* Requests that begin *)
LEMMA ReadsKeep ==
  ASSUME OnboardingInv, NEW v \in Visitors,
         \/ \E e \in Mailboxes : BootstrapReads(v, e) \/ ApplyReads(v, e)
         \/ \E a \in Accounts : IssueReads(v, a)
         \/ \E i \in Invitations : AcceptReads(v, i)
         \/ \E q \in ConnRequests, t \in {"reviewing", "rejected"} : ReviewReads(v, q, t)
         \/ \E q \in ConnRequests : ApproveReads(v, q)
         \/ \E t \in Tokens, a \in Accounts : ConfirmReads(v, t, a)
  PROVE  OnboardingInv'
<1>1. ASSUME NEW e \in Mailboxes, BootstrapReads(v, e) \/ ApplyReads(v, e)
      PROVE  OnboardingInv'
  <2>1. ASSUME NEW op \in {"bootstrap", "apply"}
        PROVE  /\ [op |-> op, on |-> e, arg |-> Nothing] \in Visit
               /\ FitsVisit([op |-> op, on |-> e, arg |-> Nothing])
    BY DEF Visit, FitsVisit
  <2>2. PICK op \in {"bootstrap", "apply"} : Enter(v, op, e, Nothing)
    BY <1>1 DEF BootstrapReads, ApplyReads
  <2>3. UNCHANGED <<conn, inv, acct, mailed>>
    BY <1>1 DEF BootstrapReads, ApplyReads
  <2> QED BY <2>1, <2>2, <2>3, Enters
<1>2. ASSUME NEW a \in Accounts, IssueReads(v, a)
      PROVE  OnboardingInv'
  <2>1. /\ [op |-> "issue", on |-> a, arg |-> Nothing] \in Visit
        /\ FitsVisit([op |-> "issue", on |-> a, arg |-> Nothing])
    BY <1>2 DEF Visit, FitsVisit, IssueReads, MayIssue
  <2> QED BY <1>2, <2>1, Enters DEF IssueReads
<1>3. ASSUME NEW i \in Invitations, AcceptReads(v, i)
      PROVE  OnboardingInv'
  <2>1. /\ [op |-> "accept", on |-> i, arg |-> Nothing] \in Visit
        /\ FitsVisit([op |-> "accept", on |-> i, arg |-> Nothing])
    BY <1>3 DEF Visit, FitsVisit, AcceptReads
  <2> QED BY <1>3, <2>1, Enters DEF AcceptReads
<1>4. ASSUME NEW q \in ConnRequests, NEW t \in {"reviewing", "rejected"}, ReviewReads(v, q, t)
      PROVE  OnboardingInv'
  <2>1. /\ [op |-> "review", on |-> q, arg |-> t] \in Visit
        /\ FitsVisit([op |-> "review", on |-> q, arg |-> t])
    BY <1>4 DEF Visit, FitsVisit, ReviewReads, TransitionAllowed
  <2> QED BY <1>4, <2>1, Enters DEF ReviewReads
<1>5. ASSUME NEW q \in ConnRequests, ApproveReads(v, q)
      PROVE  OnboardingInv'
  <2>1. /\ [op |-> "approve", on |-> q, arg |-> Nothing] \in Visit
        /\ FitsVisit([op |-> "approve", on |-> q, arg |-> Nothing])
    BY <1>5 DEF Visit, FitsVisit, ApproveReads, TransitionAllowed
  <2> QED BY <1>5, <2>1, Enters DEF ApproveReads
<1>6. ASSUME NEW t \in Tokens, NEW a \in Accounts, ConfirmReads(v, t, a)
      PROVE  OnboardingInv'
  <2>1. /\ [op |-> "confirm", on |-> a, arg |-> t] \in Visit
        /\ FitsVisit([op |-> "confirm", on |-> a, arg |-> t])
    BY <1>6 DEF Visit, FitsVisit, ConfirmReads
  <2> QED BY <1>6, <2>1, Enters DEF ConfirmReads
<1> QED BY <1>1, <1>2, <1>3, <1>4, <1>5, <1>6

LEMMA OnboardingStutter ==
  ASSUME OnboardingInv, UNCHANGED onboardingVars
  PROVE  OnboardingInv'
<1>1. OwnersInv'
  BY DEF onboardingVars, OnboardingInv, OwnersInv, RowsKnown, LatestNamesRequest, RequestNamesOne
<1>2. UNCHANGED <<conn, inv, acct, mailed, visit>>
  BY DEF onboardingVars
<1>3. conn' \in [ConnRequests -> ConnRow] /\ inv' \in [Invitations -> InvRow]
  BY <1>2, RowsTyped
<1>4. (\A q \in ConnRequests : conn'[q] = conn[q]) /\ (\A i \in Invitations : inv'[i] = inv[i])
  BY <1>2
<1> QED BY <1>1, <1>2, <1>3, <1>4, RowsMove

LEMMA OnboardingStarts == InitOnboarding => OnboardingInv
<1> SUFFICES ASSUME InitOnboarding PROVE OnboardingInv
  OBVIOUS
<1>1. OnboardingTypeOK
  BY NoVisitFits DEF InitOnboarding, OnboardingTypeOK, ConnRow, InvRow, AcctRow
<1>2. VisitsFit
  BY NoVisitFits DEF InitOnboarding, VisitsFit
<1>3. OneApplies
  BY NoVisitFits DEF InitOnboarding, OneApplies
<1>4. Registered = {}
  BY DEF InitOnboarding, Registered
<1>5. OnePerEmail /\ MadeByUsed /\ UsedMade
  BY <1>4 DEF InitOnboarding, OnePerEmail, MadeByUsed, UsedMade
<1>6. OwnersInv
  BY DEF InitOnboarding, OwnersInv, RowsKnown, LatestNamesRequest, RequestNamesOne
<1> QED BY <1>1, <1>2, <1>3, <1>5, <1>6 DEF OnboardingInv, AccountsInv

LEMMA OnboardingStep == OnboardingInv /\ [NextOnboarding]_onboardingVars => OnboardingInv'
<1> SUFFICES ASSUME OnboardingInv, [NextOnboarding]_onboardingVars PROVE OnboardingInv'
  OBVIOUS
<1>1. CASE UNCHANGED onboardingVars
  BY <1>1, OnboardingStutter
<1>2. ASSUME NEW v \in Visitors, NEW a \in Accounts,
             BootstrapEnds(v, a) \/ AcceptEnds(v, a) \/ ApplyCommits(v, a)
      PROVE  OnboardingInv'
  BY <1>2, BootstrapEndsKeeps, AcceptEndsKeeps, ApplyCommitsKeeps
<1>3. ASSUME NEW i \in Invitations,
             (\E e \in Mailboxes : CreateInvitation(i, e)) \/ InvitationExpires(i)
               \/ (\E v \in Visitors : ApproveEnds(v, i))
      PROVE  OnboardingInv'
  BY <1>3, CreateInvitationKeeps, InvitationExpiresKeeps, ApproveEndsKeeps
<1>4. ASSUME NEW q \in ConnRequests, NEW e \in Mailboxes, CreateProviderRequest(q, e)
      PROVE  OnboardingInv'
  BY <1>4, CreateProviderRequestKeeps
<1>5. ASSUME NEW v \in Visitors, NEW t \in Tokens, ApplyMails(v, t) \/ IssueMails(v, t)
      PROVE  OnboardingInv'
  BY <1>5, ApplyMailsKeeps, IssueMailsKeeps
<1>6. ASSUME NEW v \in Visitors, ApproveFails(v) \/ ApplyFails(v)
      PROVE  OnboardingInv'
  BY <1>6, Leaves DEF ApproveFails, ApplyFails
<1>7. ASSUME NEW v \in Visitors, ReviewEnds(v) \/ IssueCommits(v) \/ ConfirmEnds(v)
      PROVE  OnboardingInv'
  BY <1>7, ReviewEndsKeeps, IssueCommitsKeeps, ConfirmEndsKeeps
<1>8. ASSUME NEW a \in Accounts, LetterAges(a)
      PROVE  OnboardingInv'
  BY <1>8, LetterAgesKeeps
<1> QED BY <1>1, <1>2, <1>3, <1>4, <1>5, <1>6, <1>7, <1>8, ReadsKeep DEF NextOnboarding

LEMMA OnboardingAlways == SpecOnboarding => []OnboardingInv
<1> QED BY OnboardingStarts, OnboardingStep, PTL DEF SpecOnboarding

(* Of one invitation there is one account at most, for accounts share no   *)
(* e-mail; and exactly one once it is used.                                *)
LEMMA MadeOnce == OnboardingInv => InvitationMakesOneAccount
<1> SUFFICES ASSUME OnboardingInv PROVE InvitationMakesOneAccount
  OBVIOUS
<1>1. ASSUME NEW a \in Accounts, acct[a].by # Nothing
      PROVE  a \in Registered
  <2>1. acct[a].by \in Invitations
    BY <1>1 DEF OnboardingInv, OnboardingTypeOK, AcctRow
  <2>2. acct[a].email \in Mailboxes
    BY <1>1, <2>1 DEF OnboardingInv, AccountsInv, OwnersInv, MadeByUsed, RowsKnown
  <2> QED BY <2>2, NothingKnown DEF Registered
<1>2. ASSUME NEW i \in Invitations
      PROVE  Cardinality({a \in Registered : acct[a].by = i})
               = IF inv[i].state = "accepted" THEN 1 ELSE 0
  <2>1. CASE inv[i].state = "accepted"
    <3>1. PICK a \in Accounts : acct[a].by = i
      BY <2>1 DEF OnboardingInv, AccountsInv, UsedMade
    <3>2. a \in Registered
      BY <1>1, <3>1, NothingKnown
    <3>3. \A b \in Registered : acct[b].by = i => b = a
      BY <3>1, <3>2, NothingKnown DEF OnboardingInv, AccountsInv, MadeByUsed, OnePerEmail, Registered
    <3>4. {b \in Registered : acct[b].by = i} = {a}
      BY <3>1, <3>2, <3>3
    <3> QED BY <2>1, <3>4, FS_Singleton
  <2>2. CASE inv[i].state # "accepted"
    <3>1. {b \in Registered : acct[b].by = i} = {}
      BY <2>2, NothingKnown DEF OnboardingInv, AccountsInv, MadeByUsed, Registered
    <3> QED BY <2>2, <3>1, FS_EmptySet
  <2> QED BY <2>1, <2>2
<1> QED BY <1>2 DEF InvitationMakesOneAccount, OnboardingInv, AccountsInv, OnePerEmail

LEMMA OwnersLead == OnboardingInv => OwnersLeadBackToRequest
<1> SUFFICES ASSUME OnboardingInv PROVE OwnersLeadBackToRequest
  OBVIOUS
<1>1. ASSUME NEW i \in Invitations, inv[i].from # Nothing
      PROVE  conn[inv[i].from].inv # Nothing /\ inv[conn[inv[i].from].inv].from = inv[i].from
  <2>1. inv[i].from \in ConnRequests
    BY <1>1, RowsTyped
  <2> QED BY <1>1, <2>1 DEF OnboardingInv, OwnersInv, LatestNamesRequest, RequestNamesOne
<1> QED BY <1>1 DEF OwnersLeadBackToRequest, OnboardingInv, OwnersInv, LatestNamesRequest

(* For any number of requests served at once: an invitation that is used   *)
(* made exactly one account and an unused one made none, and no two        *)
(* accounts share an e-mail, though nothing is locked between what         *)
(* accept_invitation reads and what it commits.                            *)
THEOREM OneAccountPerInvitation == SpecOnboarding => []InvitationMakesOneAccount
<1> QED BY OnboardingAlways, MadeOnce, PTL

(* Every invitation sent for a connection request leads back to it, and    *)
(* the request keeps an invitation of its own whatever reviews and         *)
(* approvals are committed over one another.                               *)
THEOREM OwnersNeverLost == SpecOnboarding => []OwnersLeadBackToRequest
<1> QED BY OnboardingAlways, OwnersLead, PTL

-----------------------------------------------------------------------------
(* The comparison with the register *)

AskedTyped == asked \in [initial : BOOLEAN, inn : Inns \cup {Unknown},
                         planned : Names \cup {Unknown}, issued : BOOLEAN]
(* A company that fits was remembered at once; so an answer that fits is   *)
(* about a company that fitted, though the register may have changed since.*)
NowFitted == \A i \in Inns : Fits(i) => i \in fitted
AnswersFitted == \A x \in Admins :
  checks[x] # Unknown /\ ~Mismatched(checks[x]) => checks[x].inn \in fitted
RegistrationInv ==
  /\ AskedTyped /\ checks = [x \in Admins |-> checks[x]]
  /\ NowFitted /\ AnswersFitted /\ MatchedOrAccepted

LEMMA RegistrationBegins == InitRegistration => RegistrationInv
<1> SUFFICES ASSUME InitRegistration PROVE RegistrationInv
  OBVIOUS
<1>1. AskedTyped
  BY DEF InitRegistration, AskedTyped
<1>2. NowFitted
  BY DEF InitRegistration, NowFitted, Fits, CheckOf
<1>3. AnswersFitted /\ MatchedOrAccepted /\ checks = [x \in Admins |-> checks[x]]
  BY DEF InitRegistration, AnswersFitted, MatchedOrAccepted
<1> QED BY <1>1, <1>2, <1>3 DEF RegistrationInv

(* Whatever else happens, what fitted is remembered and the application    *)
(* keeps its type and its company.                                         *)
LEMMA AskedStays ==
  ASSUME RegistrationInv, NextRegistration
  PROVE  /\ AskedTyped' /\ asked'.initial = asked.initial /\ asked'.inn = asked.inn
         /\ fitted \subseteq fitted' /\ NowFitted'
<1>1. fitted' = fitted \cup {i \in Inns : Fits(i)'}
  BY DEF NextRegistration, Remembers
<1>2. UNCHANGED asked \/ asked' = [asked EXCEPT !.issued = ~asked.issued]
  BY DEF NextRegistration, Asks, Confirm, ConfirmRefused, ReceiptRead, ReceiptStored,
     RegisterChanges, StatusMoves
<1>3. AskedTyped' /\ asked'.initial = asked.initial /\ asked'.inn = asked.inn
  BY <1>2 DEF RegistrationInv, AskedTyped
<1> QED BY <1>1, <1>3 DEF NowFitted

(* Checks that are gone or stand still. *)
LEMMA ChecksStand ==
  ASSUME RegistrationInv, NextRegistration,
         checks' = checks \/ \E x \in Admins : checks' = [checks EXCEPT ![x] = Unknown]
  PROVE  AnswersFitted' /\ checks' = [x \in Admins |-> checks'[x]]
<1>1. \A x \in Admins : checks'[x] = Unknown \/ checks'[x] = checks[x]
  BY DEF RegistrationInv
<1>2. checks' = [x \in Admins |-> checks'[x]]
  BY DEF RegistrationInv
<1>3. AnswersFitted'
  BY <1>1, AskedStays DEF RegistrationInv, AnswersFitted, Mismatched
<1> QED BY <1>2, <1>3

LEMMA AskingKeeps ==
  ASSUME RegistrationInv, NextRegistration, NEW x \in Admins, NEW i \in Inns, Asks(x, i)
  PROVE  RegistrationInv'
<1>1. checks' = [checks EXCEPT ![x] = CheckOf(i)] /\ UNCHANGED <<register, asked, receipt, outcome>>
  BY DEF Asks
<1>2. CheckOf(i).inn = i
  BY DEF CheckOf
<1>3. ~Mismatched(CheckOf(i)) => i \in fitted
  BY DEF Mismatched, Fits, RegistrationInv, NowFitted
<1>4. checks' = [z \in Admins |-> checks'[z]]
      /\ \A z \in Admins : checks'[z] = IF z = x THEN CheckOf(i) ELSE checks[z]
  BY <1>1 DEF RegistrationInv
<1>5. AnswersFitted'
  <2> SUFFICES ASSUME NEW z \in Admins, checks'[z] # Unknown, ~Mismatched(checks[z])'
               PROVE  checks'[z].inn \in fitted'
    BY DEF AnswersFitted
  <2>1. ~Mismatched(checks'[z])
    BY AskedStays DEF Mismatched
  <2>2. CASE z = x
    BY <1>2, <1>3, <1>4, <2>1, <2>2, AskedStays
  <2>3. CASE z # x
    BY <1>4, <2>1, <2>3, AskedStays DEF RegistrationInv, AnswersFitted
  <2> QED BY <2>2, <2>3
<1>6. MatchedOrAccepted'
  BY <1>1, AskedStays DEF RegistrationInv, MatchedOrAccepted
<1> QED BY <1>4, <1>5, <1>6, AskedStays DEF RegistrationInv

LEMMA ConfirmKeeps ==
  ASSUME RegistrationInv, NextRegistration, NEW x \in Admins, NEW byHand \in BOOLEAN, Confirm(x, byHand)
  PROVE  RegistrationInv'
<1> DEFINE c == checks[x]
<1>1. /\ c # Unknown /\ asked.inn \in {Unknown, c.inn} /\ (Mismatched(c) => byHand)
      /\ outcome' = [inn |-> c.inn, byHand |-> byHand /\ Mismatched(c)]
      /\ checks' = [checks EXCEPT ![x] = Unknown]
  BY DEF Confirm
<1>2. outcome'.inn = c.inn /\ (outcome'.byHand <=> byHand /\ Mismatched(c))
  BY <1>1
<1>3. ~Mismatched(c) => c.inn \in fitted
  BY <1>1 DEF RegistrationInv, AnswersFitted
<1>4. MatchedOrAccepted'
  <2>1. asked'.inn \in {Unknown, outcome'.inn}
    BY <1>1, <1>2, AskedStays
  <2>2. outcome'.byHand \/ outcome'.inn \in fitted'
    BY <1>1, <1>2, <1>3, AskedStays
  <2> QED BY <2>1, <2>2 DEF MatchedOrAccepted
<1> QED BY <1>1, <1>4, AskedStays, ChecksStand DEF RegistrationInv

LEMMA RegistrationPreserved ==
  ASSUME RegistrationInv, [NextRegistration]_registrationVars
  PROVE  RegistrationInv'
<1>1. CASE UNCHANGED registrationVars
  BY <1>1 DEF registrationVars, RegistrationInv, AskedTyped, NowFitted, Fits, CheckOf, Expected,
     AnswersFitted, Mismatched, MatchedOrAccepted
<1>2. CASE NextRegistration
  <2>1. ASSUME NEW x \in Admins, NEW i \in Inns, Asks(x, i)
        PROVE  RegistrationInv'
    BY <1>2, <2>1, AskingKeeps
  <2>2. ASSUME NEW x \in Admins, NEW byHand \in BOOLEAN, Confirm(x, byHand)
        PROVE  RegistrationInv'
    BY <1>2, <2>2, ConfirmKeeps
  <2>3. ASSUME UNCHANGED outcome,
               checks' = checks \/ \E x \in Admins : checks' = [checks EXCEPT ![x] = Unknown]
        PROVE  RegistrationInv'
    <3>1. MatchedOrAccepted'
      BY <1>2, <2>3, AskedStays DEF RegistrationInv, MatchedOrAccepted
    <3> QED BY <1>2, <2>3, <3>1, AskedStays, ChecksStand DEF RegistrationInv
  <2>4. ASSUME NEW x \in Admins, ConfirmRefused(x)
        PROVE  RegistrationInv'
    BY <2>3, <2>4 DEF ConfirmRefused
  <2> QED BY <1>2, <2>1, <2>2, <2>3, <2>4 DEF NextRegistration, ReceiptRead, ReceiptStored,
             RegisterChanges, StatusMoves
<1> QED BY <1>1, <1>2

(* The company recorded for an application once fitted it, or an admin     *)
(* compared the two by hand (confirm_registration).                        *)
THEOREM RecordedFitted == SpecRegistration => []MatchedOrAccepted
<1>1. RegistrationInv /\ [NextRegistration]_registrationVars => RegistrationInv'
  BY RegistrationPreserved
<1>2. RegistrationInv => MatchedOrAccepted
  BY DEF RegistrationInv
<1> QED BY RegistrationBegins, <1>1, <1>2, PTL DEF SpecRegistration
=============================================================================
