----------------------------- MODULE RateLimits -----------------------------
(***************************************************************************)
(* The limits on attempts: sign-in by e-mail and by address (failures      *)
(* only), accepting an invitation, a connection request and a public       *)
(* application by address (every recorded attempt).  A handler counts what *)
(* is committed, works, and records its attempt in its own transaction at  *)
(* the end; no lock is taken in between.                                   *)
(***************************************************************************)
EXTENDS Naturals, FiniteSets

CONSTANTS LoginScopes,   \* "login", "mobile_login"
          OpenScopes,    \* "invitation_accept", "provider_request", "public_application"
          Emails, Address, \* what attempts are counted by
          Handlers,      \* requests being served at once
          EmailMax, AddressMax, \* RateLimitRule.max_count
          Nobody

ASSUME RateLimitsAssumption ==
  /\ Nobody \notin Emails \cup LoginScopes \cup OpenScopes /\ Address \notin Emails
  /\ LoginScopes \cap OpenScopes = {}
  /\ EmailMax \in Nat \ {0} /\ AddressMax \in Nat \ {0}
  /\ IsFiniteSet(Handlers)

VARIABLES counted,   \* attempts inside the window that the rules of the scope count
          handling   \* requests between the check and the record
limitVars == <<counted, handling>>

LimitScopes == LoginScopes \cup OpenScopes
LimitKeys == Emails \cup {Address}
MaxCount(k) == IF k = Address THEN AddressMax ELSE EmailMax
AtRest == [scope |-> Nobody, email |-> Nobody]
\* The keys a scope has rules for; a login counts its failures alone.
RuleKeys(sc, e) == IF sc \in LoginScopes THEN {e, Address} ELSE {Address}
IsCounted(sc, succeeded) == sc \in LoginScopes => ~succeeded

InitLimits ==
  /\ counted = [sc \in LimitScopes |-> [k \in LimitKeys |-> 0]]
  /\ handling = [h \in Handlers |-> AtRest]

WithinAddressLimit(sc, e) == counted[sc][Address] < MaxCount(Address)  \* mutant
WithinRateLimit(sc, e) == \A k \in RuleKeys(sc, e) : counted[sc][k] < MaxCount(k)

Admit(h, sc, e) ==
  /\ handling[h] = AtRest
  /\ WithinRateLimit(sc, e)
  /\ handling' = [handling EXCEPT ![h] = [scope |-> sc, email |-> e]]
  /\ UNCHANGED counted

RecordAttempt(h, succeeded) ==
  LET sc == handling[h].scope IN
  /\ sc # Nobody
  /\ counted' = [counted EXCEPT ![sc] =
       [k \in LimitKeys |-> IF k \in RuleKeys(sc, handling[h].email) /\ IsCounted(sc, succeeded)
                            THEN @[k] + 1 ELSE @[k]]]
  /\ handling' = [handling EXCEPT ![h] = AtRest]

\* The handler fails after the check and leaves no record: a second account for
\* the e-mail, a broken constraint; the record is rolled back with the rest.
LoseAttempt(h) ==
  /\ handling[h].scope \in OpenScopes
  /\ handling' = [handling EXCEPT ![h] = AtRest]
  /\ UNCHANGED counted

\* Attempts leave the window; the clean-up script deletes only older ones.
WindowPasses(sc, k) ==
  /\ counted[sc][k] > 0
  /\ counted' = [counted EXCEPT ![sc][k] = @ - 1]
  /\ UNCHANGED handling

NextLimits ==
  \/ \E h \in Handlers, sc \in LimitScopes, e \in Emails : Admit(h, sc, e)
  \/ \E h \in Handlers, ok \in BOOLEAN : RecordAttempt(h, ok)
  \/ \E h \in Handlers : LoseAttempt(h)
  \/ \E sc \in LimitScopes, k \in LimitKeys : WindowPasses(sc, k)

SpecLimits == InitLimits /\ [][NextLimits]_limitVars

-----------------------------------------------------------------------------
(* The count is read before the work and the attempt recorded after it, so *)
(* a limit can be exceeded, but only by the requests being served at that  *)
(* moment (assert_within_rate_limit, record_attempt).                      *)
OvershootIsBounded ==
  \A sc \in LimitScopes, k \in LimitKeys :
     counted[sc][k] + 1 <= MaxCount(k) + Cardinality(Handlers)
=============================================================================
