----------------------------- MODULE Catalogue -----------------------------
(***************************************************************************)
(* What the public catalogue and the price screens compute from the rows   *)
(* of the database.  Nothing here changes state: the queries are operators *)
(* over sets of rows.  A column that may be null is a set of at most one   *)
(* value, and so is an optional parameter.  Prices are kept in kopeks; the *)
(* text index is the set of addresses it finds; wording is left out.       *)
(***************************************************************************)
EXTENDS Integers, FiniteSetsExt, SequencesExt

-----------------------------------------------------------------------------
(* Prices *)
TermOf(term) == IF term = {} THEN 11 ELSE CHOOSE t \in term : TRUE
BasePrice(a, t) == IF t = 6 THEN a.price_6m ELSE a.price_11m

\* The sum of the marketplace's own copy of the formula.
MarketplaceAmount(a, term, asked) ==
  BasePrice(a, TermOf(term)) + (IF asked THEN SumSet(a.correspondence) * TermOf(term) ELSE 0)

\* The lines shown to the client, and the total that is also invoiced.
PriceLines(a, term, asked) == LET t == TermOf(term) IN
  <<[kind |-> "rent", amount |-> BasePrice(a, t)]>>
    \o (IF asked /\ a.correspondence # {}
        THEN <<[kind |-> "correspondence", amount |-> SumSet(a.correspondence) * t]>> ELSE <<>>)
PriceTotal(a, term, asked) == FoldSeq(LAMBDA line, sum : line.amount + sum, 0, PriceLines(a, term, asked))
\* A payment of less than a rouble is refused.
InvoicedAmount(a, term, asked) ==
  LET kopeks == PriceTotal(a, term, asked) IN IF kopeks < 100 THEN {} ELSE {kopeks}

-----------------------------------------------------------------------------
(* The shelf and the search *)
OnShelf(a, active) ==
  a.provider \in active /\ a.is_available /\ a.publication_status = "published"
Shelf(rows, active) == {a \in rows : OnShelf(a, active)}

Passes(a, f) ==
  /\ \A hits \in f.q \cup f.city : a.id \in hits
  /\ f.fns_number \subseteq a.fns_number
  /\ f.office \subseteq a.office
  /\ f.region \subseteq {o.region : o \in a.office}
  /\ f.geo_city \subseteq {o.city : o \in a.office}
  /\ f.correspondence => a.correspondence # {}
  /\ \A p \in f.price_lt : a.price_11m < p
  /\ \A p \in f.price_gte : a.price_11m >= p
Found(rows, active, f) == {a \in Shelf(rows, active) : Passes(a, f)}

MayPrecede(a, b, sort, f) ==
  CASE sort = "relevance" /\ f.q # {} -> TRUE       \* the rank of the text index
    [] sort = "price_asc" -> a.price_11m <= b.price_11m
    [] sort = "price_desc" -> a.price_11m >= b.price_11m
    [] sort = "newest" -> a.created_at >= b.created_at
    [] OTHER -> a.full_address <= b.full_address
\* ORDER BY leaves rows of equal keys in any order, anew in each query.
Orders(found, sort, f) ==
  {s \in SetToSeqs(found) : \A i, j \in DOMAIN s : i < j => MayPrecede(s[i], s[j], sort, f)}
PageOf(s, page, size) ==
  SubSeq(s, (page - 1) * size + 1, IF page * size < Len(s) THEN page * size ELSE Len(s))
Answers(rows, active, f, sort, page, size) == LET found == Found(rows, active, f) IN
  {[items |-> PageOf(s, page, size), total |-> Cardinality(found)] : s \in Orders(found, sort, f)}

\* The listing that came before the search, and one card by its link.
Listings(rows, active, f) == Orders(Found(rows, active, f), "default", f)
Detail(rows, active, id) == {a \in Shelf(rows, active) : a.id = id}
\* What stands in the way of an application for an address.
Refusal(rows, active, id) ==
  IF \A a \in rows : a.id # id THEN "no address"
  ELSE LET a == CHOOSE b \in rows : b.id = id IN
    IF a.provider \notin active THEN "no provider"
    ELSE IF OnShelf(a, active) THEN "none" ELSE "unavailable"

-----------------------------------------------------------------------------
(* The trees that offer the filters *)
FnsOptions(rows, active) == LET shelf == {a \in Shelf(rows, active) : a.fns_number # {}} IN
  {[fns_number |-> a.fns_number, fns_city |-> a.fns_city,
    count |-> Quantify(shelf, LAMBDA b : b.fns_number = a.fns_number /\ b.fns_city = a.fns_city)]
     : a \in shelf}

OfficeCounts(rows, active) == LET shelf == Shelf(rows, active) IN
  [o \in UNION {a.office : a \in shelf} |-> Quantify(shelf, LAMBDA a : o \in a.office)]
GeoTree(rows, active) == LET counts == OfficeCounts(rows, active)
                             Total(offices) == MapThenSumSet(LAMBDA o : counts[o], offices) IN
  [r \in {o.region : o \in DOMAIN counts} |-> LET ofR == {o \in DOMAIN counts : o.region = r} IN
    [count |-> Total(ofR),
     cities |-> [c \in {o.city : o \in ofR} |-> LET ofC == {o \in ofR : o.city = c} IN
       [count |-> Total(ofC), offices |-> [o \in ofC |-> counts[o]]]]]]

-----------------------------------------------------------------------------
(* A card, its photos and reviews *)
\* main photo first, then as the owner ordered them
Galleries(photos) == LET shown == {p \in photos : p.status = "approved"} IN
  {s \in SetToSeqs(shown) : \A i, j \in DOMAIN s : i < j =>
     \/ s[i].is_main /\ ~s[j].is_main
     \/ s[i].is_main = s[j].is_main /\ s[i].sort_order <= s[j].sort_order}
MainPhoto(gallery) == LET main == SelectSeq(gallery, LAMBDA p : p.is_main) IN
  IF main # <<>> THEN {main[1]} ELSE IF gallery # <<>> THEN {gallery[1]} ELSE {}
ActiveServices(services) == {s \in services : s.is_active}
PublishedReviews(reviews) == {r \in reviews : r.status = "published"}
Rating(reviews) == LET shown == PublishedReviews(reviews) IN
  [sum |-> MapThenSumSet(LAMBDA r : r.rating, shown), count |-> Cardinality(shown)]
Card(a, term, gallery, services, reviews) ==
  [id |-> a.id, selected_price |-> BasePrice(a, term), photos |-> gallery,
   main_photo |-> MainPhoto(gallery), services |-> ActiveServices(services), rating |-> Rating(reviews)]

\* Who asks for the bytes of a photo: the middleware's user or a session's.
Viewer(known, token, sessions, now) == LET signedIn == {u \in known : u.is_active} IN
  IF signedIn # {} THEN signedIn
  ELSE {s.user : s \in {z \in sessions : z.token \in token /\ ~z.revoked
                                          /\ z.expires_at > now /\ z.user.is_active}}
PhotoAnswer(p, provider, viewer) ==
  IF p.status = "approved" THEN [code |-> 200, cache |-> "public"]
  ELSE IF viewer = {} THEN [code |-> 401, cache |-> "none"]
  ELSE IF \E u \in viewer : u.role = "admin" \/ (u.role = "owner" /\ u.provider = provider)
  THEN [code |-> 200, cache |-> "no-store"] ELSE [code |-> 403, cache |-> "none"]

-----------------------------------------------------------------------------
(* An owner's figures for each address somebody applied for *)
OwnerStats(applications, payments, provider) ==
  LET own == {x \in applications : x.provider = provider}
      At(address) == {x.id : x \in {y \in own : y.address = address}}
      Paid(address) == {p \in payments : p.status = "succeeded" /\ p.application \in At(address)} IN
  [address \in {x.address : x \in own} |->
    [applications_total |-> Cardinality(At(address)), deals_paid |-> Cardinality(Paid(address)),
     revenue_kopeks |-> MapThenSumSet(LAMBDA p : p.amount_kopeks - p.refunded_kopeks, Paid(address)),
     last_paid_at |-> LET times == UNION {p.paid_at : p \in Paid(address)}
                      IN IF times = {} THEN {} ELSE {Max(times)}]]

-----------------------------------------------------------------------------
(* What the screens owe one another.  "NoFilter" finds the whole shelf.    *)
NoFilter == [q |-> {}, city |-> {}, fns_number |-> {}, office |-> {}, region |-> {},
             geo_city |-> {}, correspondence |-> FALSE, price_lt |-> {}, price_gte |-> {}]

\* The two formulas for an order's price agree for every address, term
\* and wish, and what is invoiced is what the client was shown.
PricesAgree(rows) == \A a \in rows, term \in {{}, {6}, {11}}, asked \in BOOLEAN :
  LET total == PriceTotal(a, term, asked) IN
  /\ total = MarketplaceAmount(a, term, asked)
  /\ InvoicedAmount(a, term, asked) \subseteq {total}

\* A number beside a filter is the number of addresses behind it: of each
\* region, city and office, and of each tax inspectorate in each city.
CountsAgree(rows, active) ==
  LET tree == GeoTree(rows, active)
      Behind(f) == Cardinality(Found(rows, active, f)) IN
  /\ \A r \in DOMAIN tree :
       /\ tree[r].count = Behind([NoFilter EXCEPT !.region = {r}])
       /\ \A c \in DOMAIN tree[r].cities : LET city == tree[r].cities[c] IN
            /\ city.count = Behind([NoFilter EXCEPT !.region = {r}, !.geo_city = {c}])
            /\ \A o \in DOMAIN city.offices : city.offices[o] = Behind([NoFilter EXCEPT !.office = {o}])
  /\ \A n \in UNION {a.fns_number : a \in rows} :
       Behind([NoFilter EXCEPT !.fns_number = {n}])
         = MapThenSumSet(LAMBDA o : o.count, {o \in FnsOptions(rows, active) : o.fns_number = {n}})

\* A card opens by its link, and takes an application, exactly if it is listed.
ListedOpens(rows, active) == \A a \in rows, s \in Listings(rows, active, NoFilter) :
  LET listed == a \in Range(s) IN
  /\ listed <=> Detail(rows, active, a.id) # {}
  /\ listed <=> Refusal(rows, active, a.id) = "none"

\* Every address found is on one of the pages and on no other, whatever
\* order the database chose for each of them.
EachFoundOnce(rows, active, sort, size) ==
  LET found == Found(rows, active, NoFilter)
      last == Cardinality(found) \div size + 1
      shown == [p \in 1..last |-> {Range(x.items) : x \in Answers(rows, active, NoFilter, sort, p, size)}] IN
  \A a \in found : \E p \in 1..last : (\A s \in shown[p] : a \in s)
                    /\ \A z \in (1..last) \ {p} : \A s \in shown[z] : a \notin s

\* The pages show each address found once if no two have equal keys.
PagesPartition(rows, active, sort, size) ==
  (\A a, b \in Shelf(rows, active) : a # b =>
     ~(MayPrecede(a, b, sort, NoFilter) /\ MayPrecede(b, a, sort, NoFilter)))
    => EachFoundOnce(rows, active, sort, size)

\* The picture of a card is an approved one, the owner's choice if approved.
PictureIsApproved(photos) == \A s \in Galleries(photos) :
  /\ MainPhoto(s) \subseteq photos /\ \A p \in MainPhoto(s) : p.status = "approved"
  /\ (\E p \in photos : p.status = "approved") => MainPhoto(s) # {}
  /\ (\E p \in photos : p.is_main /\ p.status = "approved") => \A m \in MainPhoto(s) : m.is_main

\* A photo not approved reaches only its owner and administrators, and no cache.
PhotosStayPrivate(photos, users, provider) == \A p \in photos, u \in users :
  LET answer == PhotoAnswer(p, provider, Viewer({}, {u.token}, {u}, 0)) IN
  p.status # "approved" =>
    /\ answer.cache # "public"
    /\ answer.code = 200 => ~u.revoked /\ u.user.is_active
                            /\ (u.user.role = "admin" \/ u.user.provider = provider)

\* An owner's revenue is the money of the owner's orders, each counted once.
RevenueAgrees(applications, payments, provider) ==
  LET stats == OwnerStats(applications, payments, provider)
      mine == {p \in payments : p.status = "succeeded" /\ \E x \in applications :
                 x.id = p.application /\ x.provider = provider} IN
  MapThenSumSet(LAMBDA a : stats[a].revenue_kopeks, DOMAIN stats)
    = MapThenSumSet(LAMBDA p : p.amount_kopeks - p.refunded_kopeks, mine)
=============================================================================
