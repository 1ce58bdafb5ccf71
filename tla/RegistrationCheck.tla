------------------------- MODULE RegistrationCheck -------------------------
(***************************************************************************)
(* The comparison with the state register (EGRUL, through DaData) that     *)
(* stands before the confirmation of a registration.  The register is      *)
(* asked before anything is locked; it changes, and the client uploads     *)
(* another receipt of the tax office, between the answer and the commit.   *)
(* What a confirmation does to the payout is in OwnerPayouts.              *)
(***************************************************************************)
EXTENDS Naturals, FiniteSets

CONSTANTS Inns,       \* companies that the register may list
          Names,      \* names of companies, without form and quotes
          Written,    \* addresses as written: sets of <<label, text>>
          Ours,       \* the address of the application
          Room,       \* its room_number: a set of texts, empty if unknown
          Admins,     \* confirmations being served at once
          Unknown

BuildingKinds == {"house", "korpus", "building"}
NumberKinds == BuildingKinds \cup {"premises"}
Labels == NumberKinds \cup {"word", "noise", "bare"}

ASSUME AddressAssumption == Ours \in Written /\ \A a \in Written : \A t \in a : t[1] \in Labels

VARIABLES register, \* what the register says of a company
          asked,    \* the application: its type, known company, status
          receipt,  \* name in the receipt last uploaded
          sending,  \* a receipt between its checks and its commit
          checks,   \* answers that admins act on
          outcome,  \* registration_inn and whether it was compared by hand
          fitted    \* history: companies that once fitted the application
registrationVars == <<register, asked, receipt, sending, checks, outcome, fitted>>

Company == [name : Names, address : Written \cup {Unknown}]
NoOutcome == [inn |-> Unknown, byHand |-> FALSE]

-----------------------------------------------------------------------------
(* Texts(a, label): what an address has under a label; _parse_address      *)
(* drops the noise and takes the room for the premises if none is written. *)
Texts(a, label) == {t[2] : t \in {u \in a : u[1] = label}}
Parse(a, room) ==
  LET premises == Texts(a, "premises")
  IN [words |-> Texts(a, "word"), loose |-> Texts(a, "bare"),
      numbers |-> [k \in NumberKinds |-> IF k = "premises" /\ premises = {} THEN room
                                         ELSE Texts(a, k)]]
AllNumbers(p) == p.loose \cup UNION {p.numbers[k] : k \in NumberKinds}

SameBuilding(p, q) ==
  p.words \subseteq q.words /\ \A k \in BuildingKinds : p.numbers[k] = q.numbers[k]
SamePremises(p, q) ==
  LET ours == p.numbers["premises"] theirs == q.numbers["premises"]
  IN {} \in {ours, theirs} \/ ours = theirs

AddressesMatch(a, egrul, room) ==
  IF egrul = Unknown \/ AllNumbers(Parse(a, room)) = {} THEN "unknown"
  ELSE LET p == Parse(a, room) q == Parse(egrul, {})
       IN IF SameBuilding(p, q) /\ SamePremises(p, q) /\ p.loose \subseteq AllNumbers(q)
          THEN "yes" ELSE "no"
NamesMatch(expected, egrul) ==
  IF Unknown \in {expected, egrul} THEN "unknown" ELSE IF expected = egrul THEN "yes" ELSE "no"

\* Each address the register may give, compared with that of the application.
Comparison == [a \in Written \cup {Unknown} |-> AddressesMatch(Ours, a, Room)]

-----------------------------------------------------------------------------
InitRegistration ==
  /\ register = [i \in Inns |-> Unknown]
  /\ asked \in  \* a new company under a planned name, or a client changing its address
       [initial : {TRUE}, inn : {Unknown}, planned : Names \cup {Unknown}, issued : {FALSE}]
       \cup [initial : {FALSE}, inn : Inns, planned : {Unknown}, issued : {FALSE}]
  /\ receipt = Unknown /\ sending = Unknown
  /\ checks = [x \in Admins |-> Unknown]
  /\ outcome = NoOutcome /\ fitted = {}

Expected == IF receipt # Unknown THEN receipt ELSE asked.planned

(* What check_registration finds about a company now.                      *)
CheckOf(i) ==
  LET c == register[i]
  IN [inn |-> i, found |-> c # Unknown,
      address |-> IF c = Unknown THEN "unknown" ELSE Comparison[c.address],
      name |-> IF c = Unknown \/ ~asked.initial THEN "unknown" ELSE NamesMatch(Expected, c.name)]

\* Mutant: what could not be compared passes.
MismatchedIfRefuted(c) == c.address = "no" \/ (asked.initial /\ c.name = "no")
Mismatched(c) == c.address # "yes" \/ (asked.initial /\ c.name # "yes")
\* What "the register lists the company of the application" means.
Fits(i) == CheckOf(i).address = "yes" /\ (asked.initial => CheckOf(i).name = "yes")

(* _run_check: the company of the application, or the one the admin names. *)
Asks(x, i) ==
  /\ checks[x] = Unknown
  /\ checks' = [checks EXCEPT ![x] = CheckOf(i)]
  /\ UNCHANGED <<register, asked, receipt, sending, outcome>>

(* confirm_registration; a second one concerns only the payout.            *)
Confirm(x, byHand) ==
  LET c == checks[x]
  IN /\ c # Unknown /\ asked.issued /\ c.found
     /\ asked.inn \in {Unknown, c.inn}
     /\ Mismatched(c) => byHand
     /\ outcome = NoOutcome
     /\ outcome' = [inn |-> c.inn, byHand |-> byHand /\ Mismatched(c)]
     /\ checks' = [checks EXCEPT ![x] = Unknown]
     /\ UNCHANGED <<register, asked, receipt, sending>>
ConfirmRefused(x) ==
  /\ checks[x] # Unknown /\ checks' = [checks EXCEPT ![x] = Unknown]
  /\ UNCHANGED <<register, asked, receipt, sending, outcome>>

(* upload_ifns_receipt: nothing is locked; a receipt without a name is     *)
(* taken too, one of another company is not if the company is known (its   *)
(* INN and OGRN stand for it, the name is not compared).                   *)
ReceiptRead(n) ==
  /\ asked.issued /\ outcome = NoOutcome /\ sending = Unknown
  /\ sending' = [name |-> n]
  /\ UNCHANGED <<register, asked, receipt, checks, outcome>>
ReceiptStored ==
  /\ sending # Unknown
  /\ receipt' = sending.name /\ sending' = Unknown
  /\ UNCHANGED <<register, asked, checks, outcome>>

(* The tax office, and the workflow of the application: documents are      *)
(* issued, withdrawn by a dispute and issued again.                        *)
RegisterChanges(i, c) ==
  /\ register[i] # c /\ register' = [register EXCEPT ![i] = c]
  /\ UNCHANGED <<asked, receipt, sending, checks, outcome>>
StatusMoves ==
  /\ asked' = [asked EXCEPT !.issued = ~@]
  /\ UNCHANGED <<register, receipt, sending, checks, outcome>>

Remembers == fitted' = fitted \cup {i \in Inns : Fits(i)'}

NextRegistration ==
  /\ \/ \E x \in Admins :
          \/ \E i \in Inns : Asks(x, i)
          \/ \E byHand \in BOOLEAN : Confirm(x, byHand)
          \/ ConfirmRefused(x)
     \/ \E n \in Names \cup {Unknown} : ReceiptRead(n)
     \/ ReceiptStored
     \/ \E i \in Inns, c \in Company : RegisterChanges(i, c)
     \/ StatusMoves
  /\ Remembers

SpecRegistration == InitRegistration /\ [][NextRegistration]_registrationVars

-----------------------------------------------------------------------------
(* The company recorded for an application is the one that changes its     *)
(* address, if it is known; the register once listed it under the address  *)
(* and, for a new company, the name of the application, unless an admin    *)
(* compared them by hand, which is recorded.  Neither a register that      *)
(* says too little nor one that changes under the admin's hand lets        *)
(* another company through.                                                *)
MatchedOrAccepted ==
  outcome # NoOutcome => /\ asked.inn \in {Unknown, outcome.inn}
                         /\ outcome.byHand \/ outcome.inn \in fitted

(* Two addresses match only if they name one building, and an address      *)
(* matches itself if it names a number (addresses_match).                  *)
MatchesAreSound ==
  \A a, b \in Written, room \in SUBSET Room :
    /\ AddressesMatch(a, b, room) = "yes"
         => \A k \in BuildingKinds : Texts(a, k) = Texts(b, k)
    /\ AddressesMatch(a, a, room) # "no"
=============================================================================
