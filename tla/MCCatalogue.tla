---------------------------- MODULE MCCatalogue ----------------------------
(***************************************************************************)
(* The catalogue, the check digits and the owners' rating on sample rows,  *)
(* which TLC evaluates when the module is loaded: they have equal and zero *)
(* prices, an office shared by addresses, two cities of one name, rows     *)
(* taken off the shelf in each of the ways, and an address of no office.   *)
(***************************************************************************)
EXTENDS Naturals, Sequences, FiniteSets

Shop == INSTANCE Catalogue
Digits == INSTANCE Requisites
Ratings == INSTANCE ProviderRating

OfficeIn(i, r, c) == [id |-> i, region |-> r, city |-> c]
AddressRow(i, p, available, status, price, correspondence, fns, office) ==
  [id |-> i, provider |-> p, is_available |-> available, publication_status |-> status,
   price_6m |-> price \div 2, price_11m |-> price, correspondence |-> correspondence,
   fns_number |-> fns, fns_city |-> {}, office |-> office, full_address |-> i, created_at |-> i]
AddressRows ==
  {AddressRow(1, "p1", TRUE, "published", 300, {5}, {4}, {OfficeIn(1, "r1", "c1")}),
   AddressRow(2, "p1", TRUE, "published", 200, {}, {4}, {OfficeIn(2, "r1", "c1")}),
   AddressRow(3, "p1", TRUE, "published", 150, {0}, {5}, {OfficeIn(3, "r1", "c2")}),
   AddressRow(4, "p1", FALSE, "published", 150, {}, {5}, {OfficeIn(3, "r1", "c2")}),
   AddressRow(5, "p2", TRUE, "published", 90, {}, {4}, {OfficeIn(4, "r2", "c1")}),
   AddressRow(6, "p1", TRUE, "draft", 90, {}, {}, {}),
   AddressRow(7, "p1", TRUE, "published", 150, {}, {}, {})}
Gallery == [id : {1}, status : {"pending", "approved", "rejected"}, is_main : BOOLEAN, sort_order : {0, 1}]
             \cup [id : {2}, status : {"approved"}, is_main : BOOLEAN, sort_order : {0}]
SessionRows == [token : {"t"}, revoked : BOOLEAN, expires_at : {0, 1},
                user : [role : {"admin", "owner", "client"}, is_active : BOOLEAN, provider : {"p1", "p2"}]]
OrderRows == {[id |-> 1, provider |-> "p1", address |-> 1], [id |-> 2, provider |-> "p1", address |-> 1],
              [id |-> 3, provider |-> "p1", address |-> 2], [id |-> 4, provider |-> "p2", address |-> 5]}
MoneyRows == [id : {1, 2}, application : {1, 4}, status : {"succeeded", "failed"},
              amount_kopeks : {5}, refunded_kopeks : {0, 2}, paid_at : {{}, {3}}]
\* Zeros, but for two digits and the last.
Requisite(n, last) ==
  {[i \in 1..n |-> CASE i = j -> d [] i = k -> e [] i = n -> last [] OTHER -> 0]
     : j \in {1, 4, 9}, k \in {2, 3, n - 1}, d \in 0..9, e \in {0, 3, 7}}

ASSUME PricesAgree == Shop!PricesAgree(AddressRows)
ASSUME CountsAgree ==
  \A rows \in SUBSET AddressRows, active \in SUBSET {"p1", "p2"} : Shop!CountsAgree(rows, active)
ASSUME ListedOpens == \A rows \in SUBSET AddressRows : Shop!ListedOpens(rows, {"p1"})
ASSUME PagesPartition ==
  \A rows \in SUBSET AddressRows, sort \in {"relevance", "price_asc", "price_desc", "newest"}, size \in 1..3 :
    Shop!PagesPartition(rows, {"p1", "p2"}, sort, size)
\* Addresses of one price may be missing from every page.
ASSUME TiesMaySkip == ~Shop!EachFoundOnce(AddressRows, {"p1"}, "price_asc", 1)
ASSUME PictureIsApproved ==
  \A photos \in SUBSET Gallery : Cardinality(photos) <= 3 => Shop!PictureIsApproved(photos)
ASSUME PhotosStayPrivate == Shop!PhotosStayPrivate(Gallery, SessionRows, "p1")
ASSUME RevenueAgrees ==
  \A orders \in SUBSET OrderRows, p, q \in MoneyRows : Shop!RevenueAgrees(orders, {p, q}, "p1")
ASSUME TyposAreNoticed == \A n \in {10, 12}, last \in 0..9 :
  \A s \in Requisite(n, last) : Digits!TyposAreNoticed(s)
ASSUME SwapsAreNoticed == \A last \in 0..9 : \A s \in Requisite(13, last) : Digits!SwapsAreNoticed(s)
ASSUME WaitsAgree == \A len \in 0..6 : Ratings!WaitsAreFirstAnswers(len)
ASSUME RatingsAgree ==
  Ratings!RatingIsFair({0, 4, 5, 26, 47, 48, 60},
                       {Ratings!CardScore(f) : f \in SUBSET Ratings!CardFields}, 0..4)
ASSUME RemainderAgrees == \A n \in {12, 14} : \A s \in Requisite(n, 3) : Digits!RemainderAgrees(s)
=============================================================================
