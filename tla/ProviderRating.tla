--------------------------- MODULE ProviderRating ---------------------------
(***************************************************************************)
(* The internal rating of an owner's organisation: how soon it answers in  *)
(* the chats, how complete the cards of its addresses are, how often its   *)
(* documents come back.  Pure functions of what the other parts recorded.  *)
(* Everybody in a chat but its client counts as the owner's side, the      *)
(* platform's staff too.  Scores are percents, rounded down; an answer's   *)
(* time is the median of the waits, in hours.                              *)
(***************************************************************************)
EXTENDS Integers, Sequences, FiniteSets
LOCAL INSTANCE SequencesExt
LOCAL INSTANCE FiniteSetsExt

GoodResponse == 4    \* hours
BadResponse == 48
CardFields == {"description", "amenities", "price", "fns"}
ReturnStatuses == {"documents_revision"}
NoScore == -1        \* None: the metric is not computed
Percents == 0..100

\* One pass over a chat in the order of its messages, each [side, at].
Step(acc, msg) ==
  IF msg.side = "client"
  THEN IF acc.pending = {} THEN [acc EXCEPT !.pending = {msg.at}] ELSE acc
  ELSE [pending |-> {}, waits |-> acc.waits \cup (acc.pending \X {msg.at})]
FirstResponses(chat) == FoldLeft(Step, [pending |-> {}, waits |-> {}], chat).waits

MetricClamp(p) == CHOOSE q \in Percents :
  IF p < 0 THEN q = 0 ELSE IF p > 100 THEN q = 100 ELSE q = p
\* Straight from the full score at 4 hours to none at two days.
ResponseScore(hours) ==
  IF hours <= GoodResponse THEN 100
  ELSE IF hours >= BadResponse THEN 0
  ELSE MetricClamp(100 - (100 * (hours - GoodResponse)) \div (BadResponse - GoodResponse))
CardScore(filled) == (100 * Cardinality(filled)) \div Cardinality(CardFields)
DocumentsScore(uploaded, returned) ==
  IF uploaded = 0 THEN NoScore ELSE MetricClamp(100 - (100 * returned) \div uploaded)
Returned(events) ==
  Len(SelectSeq(events, LAMBDA e : e.kind = "correction_requested" /\ e.status \in ReturnStatuses))

\* The mean of the metrics there is data for.
Rating(response, cards, documents) ==
  LET known == {m \in {<<"r", response>>, <<"c", cards>>, <<"d", documents>>} : m[2] # NoScore}
  IN IF known = {} THEN NoScore ELSE MapThenSumSet(LAMBDA m : m[2], known) \div Cardinality(known)

-----------------------------------------------------------------------------
(* What an answer is, said without a pass: a client's message that opens a *)
(* wait is one nobody has answered an earlier wait behind, and it is ended *)
(* by the first message of the other side.                                 *)
Opens(chat, i) ==
  /\ chat[i].side = "client"
  /\ i = 1 \/ chat[i - 1].side # "client"
ResponsesByDefinition(chat) ==
  {<<chat[w[1]].at, chat[w[2]].at>> : w \in {p \in (1..Len(chat)) \X (1..Len(chat)) :
     /\ p[1] < p[2] /\ Opens(chat, p[1]) /\ chat[p[2]].side # "client"
     /\ \A k \in (p[1] + 1)..(p[2] - 1) : chat[k].side = "client"}}

(* The pass over a chat finds each answer once, however often the client   *)
(* repeats himself (_first_response_hours), for every order of messages of *)
(* three sides.                                                            *)
WaitsAreFirstAnswers(len) ==
  \A sides \in [1..len -> {"client", "owner", "staff"}] :
    LET chat == [i \in 1..len |-> [side |-> sides[i], at |-> i]]
    IN FirstResponses(chat) = ResponsesByDefinition(chat)

(* A rating is a percentage, never better for a slower answer or one more  *)
(* returned set of documents, and left out only when nothing is known      *)
(* (build_rating).                                                         *)
RatingIsFair(waits, cards, uploads) ==
  \A h \in waits \cup {NoScore}, c \in cards \cup {NoScore}, up \in uploads, ret \in uploads :
    LET response(x) == IF x = NoScore THEN NoScore ELSE ResponseScore(x)
        total(x, r) == Rating(response(x), c, DocumentsScore(up, r))
    IN /\ total(h, ret) = NoScore <=> h = NoScore /\ c = NoScore /\ up = 0
       /\ total(h, ret) \in Percents \cup {NoScore}
       /\ total(h, ret + 1) <= total(h, ret)
       /\ h # NoScore => total(h + 1, ret) <= total(h, ret)
=============================================================================
