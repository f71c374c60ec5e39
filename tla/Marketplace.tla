----------------------------- MODULE Marketplace -----------------------------
(***************************************************************************)
(* The data marketplace of frychain-depin: data.rs (DataListing and        *)
(* DataMarketplace).  Every operation runs to its end under &mut self, so  *)
(* one call is one action; a call that is refused changes nothing and has  *)
(* no action.  What can go wrong is the order of legal calls.              *)
(***************************************************************************)
EXTENDS Naturals, Sequences, FiniteSets, Functions

CONSTANTS
  Listing,      \* the ids create_listing can give out
  Buyer,
  Offer,        \* what listings offer: units (0 for unlimited), min, price
  Amount,       \* the units a buyer may ask for
  U64,          \* 2^64: units and total_sales
  U128,         \* 2^128: amounts of tokens
  NoListing,
  MaxPurchases  \* bound on the purchases of one buyer

Status == {"active", "paused", "completed", "cancelled"}

\* What is kept of a DataListing
Entry == [units : 0..(U64 - 1), min : 0..(U64 - 1), price : 0..(U128 - 1),
          status : Status, sales : 0..(U64 - 1), revenue : 0..(U128 - 1)]

ASSUME MarketAssumption ==
  /\ U64 \in Nat \ {0} /\ U128 \in Nat \ {0}
  /\ Amount \subseteq 0..(U64 - 1)
  /\ Offer \subseteq [units : 0..(U64 - 1), min : 0..(U64 - 1), price : 0..(U128 - 1)]
  /\ NoListing \notin Entry /\ IsFiniteSet(Buyer)
  /\ MaxPurchases \in Nat

VARIABLES
  listings,   \* listings, by id
  purchases,  \* purchases_by_buyer
  offered,    \* history: the units a listing was created with
  reopened    \* history: the closed listings that were paused later

vars == <<listings, purchases, offered, reopened>>

Bill == [listing : Listing, units : 0..(U64 - 1), paid : 0..(U128 - 1)]

TypeOK ==
  /\ listings \in [Listing -> Entry \cup {NoListing}]
  /\ purchases \in [Buyer -> Seq(Bill)]
  /\ offered \in [Listing -> 0..(U64 - 1)]
  /\ reopened \subseteq Listing

Listed(l) == listings[l] # NoListing

Init ==
  /\ listings = [l \in Listing |-> NoListing]
  /\ purchases = [b \in Buyer |-> <<>>]
  /\ offered = [l \in Listing |-> 0]
  /\ reopened = {}

\* create_listing: a fresh id; the listing starts active, with nothing sold
CreateListing(l, o) ==
  /\ ~Listed(l)
  /\ listings' = [listings EXCEPT ![l] =
       [units |-> o.units, min |-> o.min, price |-> o.price,
        status |-> "active", sales |-> 0, revenue |-> 0]]
  /\ offered' = [offered EXCEPT ![l] = o.units]
  /\ UNCHANGED <<purchases, reopened>>

\* calculate_cost
Cost(e, n) == (e.price * n) % U128

\* Mutant of RecordSale: one unit leaves the stock, however many are sold
RecordSaleOfOne(e, n) ==
  LET left == IF e.units > 0 THEN e.units - 1 ELSE 0
  IN  [e EXCEPT !.sales = (@ + n) % U64,
                !.revenue = (@ + Cost(e, n)) % U128,
                !.units = left,
                !.status = IF e.units > 0 /\ left = 0 THEN "completed" ELSE @]

\* record_sale: an unlimited listing keeps its 0 units, a limited one closes at 0
RecordSale(e, n) ==
  LET left == IF n < e.units THEN e.units - n ELSE 0
  IN  [e EXCEPT !.sales = (@ + n) % U64,
                !.revenue = (@ + Cost(e, n)) % U128,
                !.units = left,
                !.status = IF e.units > 0 /\ left = 0 THEN "completed" ELSE @]

\* Mutant of Purchase: the buyer is billed for the units left, not those asked for
PurchaseBillingLeft(l, b, n) ==
  /\ Listed(l) /\ listings[l].status = "active"
  /\ n >= listings[l].min
  /\ listings[l].units > 0 => n <= listings[l].units
  /\ Len(purchases[b]) < MaxPurchases
  /\ listings' = [listings EXCEPT ![l] = RecordSale(@, n)]
  /\ purchases' = [purchases EXCEPT ![b] =
       Append(@, [listing |-> l, units |-> n, paid |-> Cost(listings[l], listings'[l].units)])]
  /\ UNCHANGED <<offered, reopened>>

\* Mutant of Purchase: the stock is not looked at
PurchaseUnchecked(l, b, n) ==
  /\ Listed(l) /\ listings[l].status = "active"
  /\ n >= listings[l].min
  /\ Len(purchases[b]) < MaxPurchases
  /\ listings' = [listings EXCEPT ![l] = RecordSale(@, n)]
  /\ purchases' = [purchases EXCEPT ![b] =
       Append(@, [listing |-> l, units |-> n, paid |-> Cost(listings[l], n)])]
  /\ UNCHANGED <<offered, reopened>>

Purchase(l, b, n) ==
  /\ Listed(l) /\ listings[l].status = "active"
  /\ n >= listings[l].min
  /\ listings[l].units > 0 => n <= listings[l].units
  /\ Len(purchases[b]) < MaxPurchases
  /\ listings' = [listings EXCEPT ![l] = RecordSale(@, n)]
  /\ purchases' = [purchases EXCEPT ![b] =
       Append(@, [listing |-> l, units |-> n, paid |-> Cost(listings[l], n)])]
  /\ UNCHANGED <<offered, reopened>>

\* pause: whatever the status was
Pause(l) ==
  /\ Listed(l)
  /\ listings' = [listings EXCEPT ![l].status = "paused"]
  /\ reopened' = IF listings[l].status \in {"completed", "cancelled"}
                 THEN reopened \cup {l} ELSE reopened
  /\ UNCHANGED <<purchases, offered>>

Resume(l) ==
  /\ Listed(l) /\ listings[l].status = "paused"
  /\ listings' = [listings EXCEPT ![l].status = "active"]
  /\ UNCHANGED <<purchases, offered, reopened>>

Cancel(l) ==
  /\ Listed(l)
  /\ listings' = [listings EXCEPT ![l].status = "cancelled"]
  /\ UNCHANGED <<purchases, offered, reopened>>

Next ==
  \E l \in Listing :
    \/ \E o \in Offer : CreateListing(l, o)
    \/ \E b \in Buyer, n \in Amount : Purchase(l, b, n)
    \/ Pause(l) \/ Resume(l) \/ Cancel(l)

Spec == Init /\ [][Next]_vars

-----------------------------------------------------------------------------

\* While a limited listing has units left, what was sold and what is left make
\* up what was offered, through any pauses and resumptions (record_sale).
StockConserved ==
  \A l \in Listing :
    Listed(l) /\ listings[l].units > 0
      => listings[l].sales + listings[l].units = offered[l]

\* A limited listing that was never reopened after it closed is not oversold,
\* and is open for sale only while it has units left.
NeverOversold ==
  \A l \in Listing :
    Listed(l) /\ offered[l] > 0 /\ l \notin reopened =>
      /\ listings[l].sales <= offered[l]
      /\ listings[l].status = "active" => listings[l].units > 0

\* What buyer b was billed for listing l, units or tokens, and all buyers were
BilledTo(b, l, what) ==
  SumFunction([i \in DOMAIN purchases[b] |->
    IF purchases[b][i].listing = l THEN purchases[b][i][what] ELSE 0])
Billed(l, what) == SumFunction([b \in Buyer |-> BilledTo(b, l, what)])

\* The sales and the revenue of a listing are those of the purchase records
\* that name it, of all buyers together (modulo the width of the counters).
SalesAreBilled ==
  \A l \in Listing : Listed(l) =>
    /\ listings[l].sales = Billed(l, "units") % U64
    /\ listings[l].revenue = Billed(l, "paid") % U128

\* data.rs:13, "Listing is active and available", and :63, "Available units (0
\* for unlimited)": a listing that was offered with a number of units and is
\* active has units left, 0 units being the mark of an unlimited one.
ActiveIsAvailable ==
  \A l \in Listing :
    Listed(l) /\ offered[l] > 0 /\ listings[l].status = "active" => listings[l].units > 0

=============================================================================
