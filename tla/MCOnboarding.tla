---------------------------- MODULE MCOnboarding ----------------------------
(***************************************************************************)
(* Onboarding, the limits on its attempts and the comparison of a          *)
(* registration with EGRUL on small instances.  They share no state: the   *)
(* first choice decides which of them moves, and the instances are         *)
(* explored side by side.                                                  *)
(***************************************************************************)
EXTENDS Onboarding, RateLimits, RegistrationCheck, MCCatalogue, TLC

VARIABLE part

\* One street and house; what EGRUL has is the same or a building more.
HouseFive == {<<"word", "lenina">>, <<"noise", "street">>, <<"house", "5">>}
BuildingOne == {<<"word", "lenina">>, <<"house", "5">>, <<"building", "1">>}
Addresses == {HouseFive, BuildingOne}
RoomThree == {"3"}
ASSUME AddressesAgree == MatchesAreSound

Init ==
  /\ InitOnboarding /\ InitLimits /\ InitRegistration
  /\ part \in {"onboarding", "limits", "registration"}
  /\ part # "registration" =>   \* any one application while it stands still
       asked.initial /\ asked.planned = Unknown
Next ==
  \/ part = "onboarding" /\ NextOnboarding /\ UNCHANGED <<limitVars, registrationVars, part>>
  \/ part = "limits" /\ NextLimits /\ UNCHANGED <<onboardingVars, registrationVars, part>>
  \/ part = "registration" /\ NextRegistration /\ UNCHANGED <<onboardingVars, limitVars, part>>
Spec == Init /\ [][Next]_<<onboardingVars, limitVars, registrationVars, part>>

\* Requests, invitations, accounts and mailboxes are alike; companies
\* and names share their values, for no state concerns two parts.
Symmetry == Permutations(Visitors) \union Permutations(Invitations)
              \union Permutations(Accounts) \union Permutations(Mailboxes)
=============================================================================
