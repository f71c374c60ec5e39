-------------------------- MODULE MarketplaceProofs --------------------------
(***************************************************************************)
(* For any listings, buyers and offers: units are neither made nor lost,   *)
(* a listing that was never reopened is never oversold, and the sales of   *)
(* every listing are those of the purchase records.                        *)
(***************************************************************************)
EXTENDS Marketplace, Sums, TLAPS

\* What a listing with a limited offer keeps until it is reopened: the units
\* add up, and it is closed as soon as none is left.
Limited(l) ==
  /\ listings[l].sales + listings[l].units = offered[l]
  /\ listings[l].status \in {"active", "paused"} => listings[l].units > 0

LimitedInv ==
  \A l \in Listing : Listed(l) /\ offered[l] > 0 /\ l \notin reopened => Limited(l)

IInv == TypeOK /\ StockConserved /\ LimitedInv

-----------------------------------------------------------------------------

\* The remainder by a positive number is below it, and a small number is its own
LEMMA Remainder ==
  ASSUME NEW w \in Nat \ {0}, NEW n \in Nat
  PROVE  n % w \in 0..(w - 1) /\ (n < w => n % w = n)
  OBVIOUS

\* record_sale gives an entry back, and the sum of stock and sales stands still
\* while the stock lasts.
LEMMA SaleEffect ==
  ASSUME NEW e \in Entry, NEW n \in 0..(U64 - 1)
  PROVE  LET f == RecordSale(e, n) IN
         /\ f \in Entry
         /\ Cost(e, n) \in 0..(U128 - 1)
         /\ f.units = IF n < e.units THEN e.units - n ELSE 0
         /\ f.status = IF e.units > 0 /\ n >= e.units THEN "completed" ELSE e.status
         /\ e.sales + n < U64 => f.sales = e.sales + n
<1> USE MarketAssumption
<1> DEFINE f == RecordSale(e, n)
           c == Cost(e, n)
<1>1. e.units \in 0..(U64 - 1) /\ e.sales \in 0..(U64 - 1)
      /\ e.price \in 0..(U128 - 1) /\ e.revenue \in 0..(U128 - 1) /\ e.status \in Status
  BY DEF Entry
<1>2. e.price * n \in Nat
  BY <1>1
<1>3. c \in 0..(U128 - 1)
  BY <1>2, Remainder DEF Cost
<1>4. (e.sales + n) % U64 \in 0..(U64 - 1) /\ (e.sales + n < U64 => (e.sales + n) % U64 = e.sales + n)
  <2>1. e.sales + n \in Nat
    BY <1>1
  <2> QED
    BY <2>1, Remainder
<1>5. (e.revenue + c) % U128 \in 0..(U128 - 1)
  <2>1. e.revenue + c \in Nat
    BY <1>1, <1>3
  <2> QED
    BY <2>1, Remainder
<1> DEFINE left == IF n < e.units THEN e.units - n ELSE 0
<1>6. left \in 0..(U64 - 1) /\ (left = 0 <=> n >= e.units)
  BY <1>1
<1>7. f = [e EXCEPT !.sales = (@ + n) % U64, !.revenue = (@ + c) % U128, !.units = left,
                    !.status = IF e.units > 0 /\ left = 0 THEN "completed" ELSE @]
  BY DEF RecordSale
<1>8. f.units = left /\ f.sales = (e.sales + n) % U64
      /\ f.status = IF e.units > 0 /\ left = 0 THEN "completed" ELSE e.status
  BY <1>7 DEF Entry
<1>9. f \in Entry
  BY <1>1, <1>4, <1>5, <1>6, <1>7 DEF Entry, Status
<1> QED
  BY <1>3, <1>4, <1>6, <1>8, <1>9

-----------------------------------------------------------------------------

\* A marketplace starts empty, and satisfies the invariant.
THEOREM InitEstablishesIInv == Init => IInv
BY MarketAssumption DEF Init, IInv, TypeOK, StockConserved, LimitedInv, Listed

\* A new listing has all its units and no sales.
LEMMA CreateKeepsIInv ==
  ASSUME IInv, NEW l \in Listing, NEW o \in Offer, CreateListing(l, o)
  PROVE  IInv'
<1> USE MarketAssumption
<1>1. o.units \in 0..(U64 - 1) /\ o.min \in 0..(U64 - 1) /\ o.price \in 0..(U128 - 1)
  OBVIOUS
<1> DEFINE e == [units |-> o.units, min |-> o.min, price |-> o.price,
                 status |-> "active", sales |-> 0, revenue |-> 0]
<1>2. e \in Entry
  BY <1>1 DEF Entry, Status
<1>3. /\ listings' = [listings EXCEPT ![l] = e]
      /\ offered' = [offered EXCEPT ![l] = o.units]
      /\ UNCHANGED <<purchases, reopened>>
  BY DEF CreateListing
<1>4. TypeOK'
  BY <1>1, <1>2, <1>3 DEF IInv, TypeOK
<1>5. listings'[l] = e /\ offered'[l] = o.units
      /\ \A k \in Listing \ {l} : listings'[k] = listings[k] /\ offered'[k] = offered[k]
  BY <1>3 DEF IInv, TypeOK
<1>6. e.units = o.units /\ e.sales = 0
  OBVIOUS
<1>7. StockConserved'
  <2> SUFFICES ASSUME NEW k \in Listing, listings'[k] # NoListing, listings'[k].units > 0
               PROVE  listings'[k].sales + listings'[k].units = offered'[k]
    BY DEF StockConserved, Listed
  <2>1. CASE k = l
    BY <2>1, <1>1, <1>5, <1>6
  <2>2. CASE k # l
    BY <2>2, <1>5 DEF IInv, StockConserved, Listed
  <2> QED
    BY <2>1, <2>2
<1>8. LimitedInv'
  <2> SUFFICES ASSUME NEW k \in Listing, listings'[k] # NoListing, offered'[k] > 0,
                      k \notin reopened'
               PROVE  Limited(k)'
    BY DEF LimitedInv, Listed
  <2>1. CASE k = l
    BY <2>1, <1>1, <1>5, <1>6 DEF Limited
  <2>2. CASE k # l
    BY <2>2, <1>3, <1>5 DEF IInv, LimitedInv, Limited, Listed
  <2> QED
    BY <2>1, <2>2
<1> QED
  BY <1>4, <1>7, <1>8 DEF IInv

\* A sale moves units from the stock to the sales, and closes an empty listing.
LEMMA PurchaseKeepsIInv ==
  ASSUME IInv, NEW l \in Listing, NEW b \in Buyer, NEW n \in Amount, Purchase(l, b, n)
  PROVE  IInv'
<1> USE MarketAssumption
<1> DEFINE e == listings[l]
           f == RecordSale(e, n)
<1>1. /\ e \in Entry /\ e.status = "active"
      /\ e.units > 0 => n <= e.units
      /\ listings' = [listings EXCEPT ![l] = f]
      /\ purchases' = [purchases EXCEPT ![b] =
           Append(@, [listing |-> l, units |-> n, paid |-> Cost(e, n)])]
      /\ UNCHANGED <<offered, reopened>>
  BY DEF Purchase, Listed, IInv, TypeOK
<1>2. n \in 0..(U64 - 1)
  OBVIOUS
<1>3. /\ f \in Entry /\ Cost(e, n) \in 0..(U128 - 1)
      /\ f.units = IF n < e.units THEN e.units - n ELSE 0
      /\ f.status = IF e.units > 0 /\ n >= e.units THEN "completed" ELSE e.status
      /\ e.sales + n < U64 => f.sales = e.sales + n
  BY <1>1, <1>2, SaleEffect
<1>4. TypeOK'
  <2>1. [listing |-> l, units |-> n, paid |-> Cost(e, n)] \in Bill
    BY <1>2, <1>3 DEF Bill
  <2>2. purchases' \in [Buyer -> Seq(Bill)]
    BY <2>1, <1>1 DEF IInv, TypeOK
  <2> QED
    BY <2>2, <1>1, <1>3 DEF IInv, TypeOK
<1>5. listings'[l] = f /\ \A k \in Listing \ {l} : listings'[k] = listings[k]
  BY <1>1 DEF IInv, TypeOK
<1>6. e.units \in 0..(U64 - 1) /\ e.sales \in 0..(U64 - 1) /\ offered[l] \in 0..(U64 - 1)
  BY <1>1 DEF Entry, IInv, TypeOK
<1>7. e.units > 0 => e.sales + e.units = offered[l]
  BY <1>1 DEF IInv, StockConserved, Listed
<1>8. e.units > 0 => f.sales = e.sales + n /\ f.units = e.units - n
  <2> SUFFICES ASSUME e.units > 0 PROVE f.sales = e.sales + n /\ f.units = e.units - n
    OBVIOUS
  <2>1. /\ n <= e.units /\ f.units = IF n < e.units THEN e.units - n ELSE 0
        /\ e.sales + n < U64 => f.sales = e.sales + n
    BY <1>1, <1>3
  <2> HIDE DEF e, f
  <2>2. e.sales + n < U64
    BY <1>2, <1>6, <1>7, <2>1
  <2>3. f.units = e.units - n
    BY <1>2, <1>6, <2>1
  <2> QED
    BY <2>1, <2>2, <2>3
<1>9. e.units = 0 => f.units = 0
  BY <1>2, <1>3, <1>6
<1>10. StockConserved'
  <2> SUFFICES ASSUME NEW k \in Listing, listings'[k] # NoListing, listings'[k].units > 0
               PROVE  listings'[k].sales + listings'[k].units = offered'[k]
    BY DEF StockConserved, Listed
  <2>1. CASE k = l
    BY <2>1, <1>1, <1>2, <1>5, <1>6, <1>7, <1>8, <1>9
  <2>2. CASE k # l
    BY <2>2, <1>1, <1>5 DEF IInv, StockConserved, Listed
  <2> QED
    BY <2>1, <2>2
<1>11. LimitedInv'
  <2> SUFFICES ASSUME NEW k \in Listing, listings'[k] # NoListing, offered'[k] > 0,
                      k \notin reopened'
               PROVE  Limited(k)'
    BY DEF LimitedInv, Listed
  <2>1. CASE k = l
    <3>1. Limited(l)
      BY <2>1, <1>1 DEF IInv, LimitedInv, Listed
    <3>2. e.units > 0
      BY <3>1, <1>1 DEF Limited
    <3>3. f.sales + f.units = offered'[l]
      BY <3>2, <1>1, <1>2, <1>6, <1>7, <1>8
    <3>4. f.status \in {"active", "paused"} => f.units > 0
      BY <3>2, <1>2, <1>3, <1>6, <1>8
    <3> QED
      BY <2>1, <3>3, <3>4, <1>5 DEF Limited
  <2>2. CASE k # l
    BY <2>2, <1>1, <1>5 DEF IInv, LimitedInv, Limited, Listed
  <2> QED
    BY <2>1, <2>2
<1> QED
  BY <1>4, <1>10, <1>11 DEF IInv

\* A change of status alone keeps the invariant if a listing that opens has
\* units left or is marked as reopened.
LEMMA StatusKeepsIInv ==
  ASSUME IInv, NEW l \in Listing, NEW s \in Status,
         Listed(l),
         listings' = [listings EXCEPT ![l].status = s],
         UNCHANGED <<purchases, offered>>,
         reopened \subseteq reopened', reopened' \subseteq Listing,
         \/ s = "cancelled"
         \/ l \in reopened'
         \/ listings[l].status \in {"active", "paused"}
  PROVE  IInv'
<1> USE MarketAssumption
<1> DEFINE e == listings[l]
           f == [e EXCEPT !.status = s]
<1>1. e \in Entry
  BY DEF IInv, TypeOK, Listed
<1>2. f \in Entry /\ f.units = e.units /\ f.sales = e.sales /\ f.status = s
  BY <1>1 DEF Entry
<1>3. listings' = [listings EXCEPT ![l] = f]
  BY DEF IInv, TypeOK
<1>4. listings'[l] = f /\ \A k \in Listing \ {l} : listings'[k] = listings[k]
  BY <1>3 DEF IInv, TypeOK
<1>5. TypeOK'
  BY <1>2, <1>3 DEF IInv, TypeOK
<1>6. StockConserved'
  <2> SUFFICES ASSUME NEW k \in Listing, listings'[k] # NoListing, listings'[k].units > 0
               PROVE  listings'[k].sales + listings'[k].units = offered'[k]
    BY DEF StockConserved, Listed
  <2>1. CASE k = l
    BY <2>1, <1>2, <1>4 DEF IInv, StockConserved, Listed
  <2>2. CASE k # l
    BY <2>2, <1>4 DEF IInv, StockConserved, Listed
  <2> QED
    BY <2>1, <2>2
<1>7. LimitedInv'
  <2> SUFFICES ASSUME NEW k \in Listing, listings'[k] # NoListing, offered'[k] > 0,
                      k \notin reopened'
               PROVE  Limited(k)'
    BY DEF LimitedInv, Listed
  <2>1. CASE k = l
    <3>1. Limited(l)
      BY <2>1 DEF IInv, LimitedInv, Listed
    <3> QED
      BY <2>1, <3>1, <1>2, <1>4 DEF Limited
  <2>2. CASE k # l
    BY <2>2, <1>4 DEF IInv, LimitedInv, Limited, Listed
  <2> QED
    BY <2>1, <2>2
<1> QED
  BY <1>5, <1>6, <1>7 DEF IInv

\* Every operation keeps the invariant.
LEMMA NextKeepsIInv == IInv /\ [Next]_vars => IInv'
<1> SUFFICES ASSUME IInv, [Next]_vars PROVE IInv'
  OBVIOUS
<1>1. CASE UNCHANGED vars
  BY <1>1 DEF vars, IInv, TypeOK, StockConserved, LimitedInv, Limited, Listed
<1>2. ASSUME NEW l \in Listing, NEW o \in Offer, CreateListing(l, o) PROVE IInv'
  BY <1>2, CreateKeepsIInv
<1>3. ASSUME NEW l \in Listing, NEW b \in Buyer, NEW n \in Amount, Purchase(l, b, n) PROVE IInv'
  BY <1>3, PurchaseKeepsIInv
<1>4. ASSUME NEW l \in Listing, Pause(l) PROVE IInv'
  <2>1. listings[l] \in Entry
    BY <1>4 DEF Pause, Listed, IInv, TypeOK
  <2>2. listings[l].status \in Status
    BY <2>1 DEF Entry
  <2>3. l \in reopened' \/ listings[l].status \in {"active", "paused"}
    BY <1>4, <2>2 DEF Pause, Status
  <2>4. reopened \subseteq reopened' /\ reopened' \subseteq Listing
    BY <1>4 DEF Pause, IInv, TypeOK
  <2>5. "paused" \in Status
    BY DEF Status
  <2> QED
    BY <1>4, <2>3, <2>4, <2>5, StatusKeepsIInv DEF Pause
<1>5. ASSUME NEW l \in Listing, Resume(l) PROVE IInv'
  <2>1. "active" \in Status /\ reopened' \subseteq Listing
    BY <1>5 DEF Status, Resume, IInv, TypeOK
  <2> QED
    BY <1>5, <2>1, StatusKeepsIInv DEF Resume
<1>6. ASSUME NEW l \in Listing, Cancel(l) PROVE IInv'
  <2>1. "cancelled" \in Status /\ reopened' \subseteq Listing
    BY <1>6 DEF Status, Cancel, IInv, TypeOK
  <2> QED
    BY <1>6, <2>1, StatusKeepsIInv DEF Cancel
<1> QED
  BY <1>1, <1>2, <1>3, <1>4, <1>5, <1>6 DEF Next

\* The invariant holds for any listings, buyers and offers.
THEOREM IInvHolds == Spec => []IInv
<1>1. Init => IInv
  BY InitEstablishesIInv
<1>2. IInv /\ [Next]_vars => IInv'
  BY NextKeepsIInv
<1> QED
  BY <1>1, <1>2, PTL DEF Spec

\* Listings and purchase records keep their types, counters their widths.
THEOREM TypeCorrect == Spec => []TypeOK
<1>1. IInv => TypeOK
  BY DEF IInv
<1> QED
  BY <1>1, IInvHolds, PTL

\* Units on offer are neither made nor lost while a stock lasts.
THEOREM StockCorrect == Spec => []StockConserved
<1>1. IInv => StockConserved
  BY DEF IInv
<1> QED
  BY <1>1, IInvHolds, PTL

\* Only a listing that was reopened after it closed can be oversold.
THEOREM NeverOversoldCorrect == Spec => []NeverOversold
<1>1. IInv => NeverOversold
  <2> SUFFICES ASSUME IInv, NEW l \in Listing, Listed(l), offered[l] > 0, l \notin reopened
               PROVE  /\ listings[l].sales <= offered[l]
                      /\ listings[l].status = "active" => listings[l].units > 0
    BY DEF NeverOversold
  <2>1. Limited(l)
    BY DEF IInv, LimitedInv
  <2>2. listings[l] \in Entry
    BY DEF IInv, TypeOK, Listed
  <2>3. listings[l].sales \in Nat /\ listings[l].units \in Nat
    BY <2>2, MarketAssumption DEF Entry
  <2> QED
    BY <2>1, <2>3 DEF Limited
<1> QED
  BY <1>1, IInvHolds, PTL

-----------------------------------------------------------------------------
(***************************************************************************)
(* Sales and purchase records.                                             *)
(***************************************************************************)

What == {"units", "paid"}

\* What the i-th bill of buyer b is about, as far as listing l goes
Charge(b, l, what, i) == IF purchases[b][i].listing = l THEN purchases[b][i][what] ELSE 0
Charges(b, l, what) == [i \in DOMAIN purchases[b] |-> Charge(b, l, what, i)]

\* Only listings that exist were billed, and their sales are those billed.
BilledInv ==
  /\ \A b \in Buyer : \A i \in DOMAIN purchases[b] : Listed(purchases[b][i].listing)
  /\ SalesAreBilled

\* A bill names a listing.
LEMMA BillsNameListings ==
  ASSUME TypeOK, NEW b \in Buyer, NEW i \in DOMAIN purchases[b]
  PROVE  purchases[b][i].listing \in Listing
<1>1. purchases[b] \in Seq(Bill)
  BY DEF TypeOK
<1>2. purchases[b][i] \in Bill
  BY <1>1
<1> QED
  BY <1>2 DEF Bill

\* Bills are for numbers of units and tokens.
LEMMA ChargesType ==
  ASSUME TypeOK, NEW b \in Buyer, NEW l \in Listing, NEW what \in What
  PROVE  /\ purchases[b] \in Seq(Bill) /\ DOMAIN purchases[b] = 1..Len(purchases[b])
         /\ Len(purchases[b]) \in Nat
         /\ Charges(b, l, what) \in [1..Len(purchases[b]) -> Nat]
         /\ BilledTo(b, l, what) = SumFunction(Charges(b, l, what))
         /\ BilledTo(b, l, what) \in Nat
<1>1. /\ purchases[b] \in Seq(Bill) /\ DOMAIN purchases[b] = 1..Len(purchases[b])
      /\ Len(purchases[b]) \in Nat
  BY DEF TypeOK
<1>2. ASSUME NEW i \in 1..Len(purchases[b]) PROVE Charge(b, l, what, i) \in Nat
  <2>1. purchases[b][i] \in Bill
    BY <1>1
  <2>2. purchases[b][i].units \in Nat /\ purchases[b][i].paid \in Nat
    BY <2>1, MarketAssumption DEF Bill
  <2> QED
    BY <2>2 DEF Charge, What
<1>3. Charges(b, l, what) \in [1..Len(purchases[b]) -> Nat]
  BY <1>1, <1>2 DEF Charges
<1>4. BilledTo(b, l, what) = SumFunction(Charges(b, l, what))
  BY DEF BilledTo, Charges, Charge
<1>5. IsFiniteSet(1..Len(purchases[b]))
  BY <1>1, FS_Interval
<1> QED
  BY <1>1, <1>3, <1>4, <1>5, SumFunctionType

\* What all buyers were billed is a number.
LEMMA BilledType ==
  ASSUME TypeOK, NEW l \in Listing, NEW what \in What
  PROVE  /\ [b \in Buyer |-> BilledTo(b, l, what)] \in [Buyer -> Nat]
         /\ Billed(l, what) \in Nat
<1>1. [b \in Buyer |-> BilledTo(b, l, what)] \in [Buyer -> Nat]
  BY ChargesType
<1> QED
  BY <1>1, MarketAssumption, SumFunctionType DEF Billed

\* One more bill adds to what its buyer was billed for its listing.
LEMMA BillAddsTo ==
  ASSUME TypeOK, TypeOK', NEW b \in Buyer, NEW l \in Listing, NEW what \in What, NEW bill \in Bill,
         purchases'[b] = Append(purchases[b], bill)
  PROVE  BilledTo(b, l, what)' = BilledTo(b, l, what) + (IF bill.listing = l THEN bill[what] ELSE 0)
<1> DEFINE n == Len(purchases[b])
           f == Charges(b, l, what)
           h == Charges(b, l, what)'
<1>1. n \in Nat /\ f \in [1..n -> Nat] /\ BilledTo(b, l, what) = SumFunction(f)
  BY ChargesType
<1>2. purchases[b] \in Seq(Bill) /\ purchases'[b] \in Seq(Bill)
  BY DEF TypeOK
<1>3. /\ Len(purchases'[b]) = n + 1 /\ purchases'[b][n + 1] = bill
      /\ DOMAIN purchases'[b] = 1..(n + 1) /\ DOMAIN purchases[b] = 1..n
      /\ \A i \in 1..n : purchases'[b][i] = purchases[b][i]
  BY <1>2
<1>4. h = [i \in 1..(n + 1) |-> Charge(b, l, what, i)']
  BY <1>3 DEF Charges
<1>5. /\ \A i \in 1..n : h[i] = f[i]
      /\ h[n + 1] = (IF bill.listing = l THEN bill[what] ELSE 0)
  <2>1. \A i \in 1..n : i \in 1..(n + 1)
    BY <1>1
  <2>2. n + 1 \in 1..(n + 1)
    BY <1>1
  <2> QED
    BY <1>3, <1>4, <2>1, <2>2 DEF Charges, Charge
<1>6. BilledTo(b, l, what)' = SumFunction(h)
  BY DEF BilledTo, Charges, Charge
<1>7. h \in [1..(n + 1) -> Nat]
  <2>1. \A i \in 1..(n + 1) : purchases'[b][i] \in Bill
    BY <1>2, <1>3
  <2>2. \A i \in 1..(n + 1) : purchases'[b][i].units \in Nat /\ purchases'[b][i].paid \in Nat
    BY <2>1, MarketAssumption DEF Bill
  <2>3. \A i \in 1..(n + 1) : Charge(b, l, what, i)' \in Nat
    BY <2>2 DEF Charge, What
  <2> QED
    BY <1>4, <2>3
<1> HIDE DEF n, f, h
<1>8. SumFunction(h) = SumFunction(f) + h[n + 1]
  BY <1>1, <1>5, <1>7, SumFunctionAppend
<1> QED
  BY <1>1, <1>5, <1>6, <1>8

\* And so to what all buyers were billed for it.
LEMMA BillAdds ==
  ASSUME TypeOK, TypeOK', NEW b \in Buyer, NEW l \in Listing, NEW what \in What, NEW bill \in Bill,
         purchases' = [purchases EXCEPT ![b] = Append(@, bill)]
  PROVE  Billed(l, what)' = Billed(l, what) + (IF bill.listing = l THEN bill[what] ELSE 0)
<1> DEFINE f == [c \in Buyer |-> BilledTo(c, l, what)]
           h == [c \in Buyer |-> BilledTo(c, l, what)']
           more == IF bill.listing = l THEN bill[what] ELSE 0
<1>1. /\ purchases'[b] = Append(purchases[b], bill)
      /\ \A c \in Buyer : c # b => purchases'[c] = purchases[c]
  BY DEF TypeOK
<1>2. h[b] = f[b] + more
  BY <1>1, BillAddsTo
<1>3. \A c \in Buyer : c # b => f[c] = h[c]
  BY <1>1 DEF BilledTo
<1>4. f \in [Buyer -> Nat] /\ SumFunction(f) = Billed(l, what) /\ SumFunction(f) \in Nat
  BY BilledType DEF Billed
<1>5. more \in Nat
  BY MarketAssumption DEF Bill, What
<1>6. h \in [Buyer -> Nat] /\ f[b] \in Nat /\ h[b] \in Nat
  <2>1. \A c \in Buyer : h[c] \in Nat
    BY <1>2, <1>3, <1>4, <1>5
  <2> QED
    BY <2>1, <1>4
<1>7. SumFunction(h) = Billed(l, what)'
  BY DEF Billed
<1> HIDE DEF f, h
<1>8. SumFunction(h) + f[b] = SumFunction(f) + h[b]
  BY <1>3, <1>4, <1>6, MarketAssumption, SumFunctionChange
<1>9. SumFunction(h) \in Nat
  BY <1>6, MarketAssumption, SumFunctionType
<1>10. SumFunction(h) = SumFunction(f) + more
  <2> DEFINE H == SumFunction(h)
             F == SumFunction(f)
             x == f[b]
             y == h[b]
  <2>1. H \in Nat /\ F \in Nat /\ x \in Nat /\ more \in Nat /\ y = x + more /\ H + x = F + y
    BY <1>2, <1>4, <1>5, <1>6, <1>8, <1>9
  <2> HIDE DEF H, F, x, y, more
  <2>2. H = F + more
    BY <2>1
  <2> QED
    BY <2>2 DEF H, F
<1> QED
  BY <1>4, <1>7, <1>10 DEF more

\* A listing that does not exist was not billed.
LEMMA NotBilled ==
  ASSUME TypeOK, NEW l \in Listing, NEW what \in What,
         \A b \in Buyer : \A i \in DOMAIN purchases[b] : purchases[b][i].listing # l
  PROVE  Billed(l, what) = 0
<1>1. ASSUME NEW b \in Buyer PROVE BilledTo(b, l, what) = 0
  <2> DEFINE f == Charges(b, l, what)
             S == 1..Len(purchases[b])
  <2>1. f \in [S -> Nat] /\ BilledTo(b, l, what) = SumFunction(f) /\ IsFiniteSet(S)
    BY ChargesType, FS_Interval
  <2>2. \A i \in S : f[i] = 0
    BY ChargesType DEF Charges, Charge
  <2> HIDE DEF f, S
  <2> QED
    BY <2>1, <2>2, SumFunctionZero
<1> DEFINE g == [b \in Buyer |-> BilledTo(b, l, what)]
<1>2. g \in [Buyer -> Nat] /\ \A b \in Buyer : g[b] = 0
  BY <1>1
<1>3. Billed(l, what) = SumFunction(g)
  BY DEF Billed
<1> HIDE DEF g
<1> QED
  BY <1>2, <1>3, MarketAssumption, SumFunctionZero

\* A new listing was not billed before it was created.
LEMMA CreateKeepsBilledInv ==
  ASSUME TypeOK, BilledInv, NEW l \in Listing, NEW o \in Offer, CreateListing(l, o)
  PROVE  BilledInv'
<1> DEFINE e == [units |-> o.units, min |-> o.min, price |-> o.price,
                 status |-> "active", sales |-> 0, revenue |-> 0]
<1>1. e \in Entry /\ e # NoListing
  <2>1. e \in Entry
    BY MarketAssumption DEF Entry, Status
  <2> HIDE DEF e
  <2> QED
    BY <2>1, MarketAssumption
<1>2. /\ listings'[l] = e /\ \A k \in Listing : k # l => listings'[k] = listings[k]
      /\ UNCHANGED purchases /\ ~Listed(l)
  BY DEF CreateListing, TypeOK
<1>3. \A k \in Listing : Listed(k) => Listed(k)'
  BY <1>1, <1>2 DEF Listed
<1>4. \A b \in Buyer : \A i \in DOMAIN purchases[b] : purchases[b][i].listing \in Listing
  BY BillsNameListings
<1>5. ASSUME NEW b \in Buyer, NEW i \in DOMAIN purchases'[b] PROVE Listed(purchases[b][i].listing)'
  BY <1>2, <1>3, <1>4 DEF BilledInv
<1>6. \A k \in Listing, what \in What : Billed(k, what)' = Billed(k, what)
  BY <1>2 DEF Billed, BilledTo
<1>7. ASSUME NEW what \in What PROVE Billed(l, what) = 0
  <2>1. \A b \in Buyer : \A i \in DOMAIN purchases[b] : purchases[b][i].listing # l
    BY <1>2 DEF BilledInv
  <2> QED
    BY <2>1, NotBilled
<1>8. "units" \in What /\ "paid" \in What
  BY DEF What
<1>9. e.sales = 0 % U64 /\ e.revenue = 0 % U128
  BY MarketAssumption
<1>10. SalesAreBilled'
  <2> SUFFICES ASSUME NEW k \in Listing, Listed(k)'
               PROVE  /\ listings'[k].sales = Billed(k, "units")' % U64
                      /\ listings'[k].revenue = Billed(k, "paid")' % U128
    BY DEF SalesAreBilled
  <2>1. CASE k = l
    <3> HIDE DEF e
    <3>1. Billed(k, "units")' = 0 /\ Billed(k, "paid")' = 0
      BY <1>6, <1>7, <1>8, <2>1
    <3> QED
      BY <1>2, <1>9, <2>1, <3>1
  <2>2. CASE k # l
    BY <1>2, <1>6, <1>8, <2>2 DEF BilledInv, SalesAreBilled, Listed
  <2> QED
    BY <2>1, <2>2
<1> QED
  BY <1>2, <1>5, <1>10 DEF BilledInv, Listed

\* A purchase bills what it records as sold.
LEMMA PurchaseKeepsBilledInv ==
  ASSUME TypeOK, TypeOK', BilledInv, NEW l \in Listing, NEW b \in Buyer, NEW n \in Amount, Purchase(l, b, n)
  PROVE  BilledInv'
<1> DEFINE e == listings[l]
           f == RecordSale(e, n)
           bill == [listing |-> l, units |-> n, paid |-> Cost(e, n)]
<1>1. /\ e \in Entry /\ n \in 0..(U64 - 1) /\ n \in Nat
      /\ listings' = [listings EXCEPT ![l] = f]
      /\ purchases' = [purchases EXCEPT ![b] = Append(@, bill)]
  BY MarketAssumption DEF Purchase, Listed, TypeOK
<1>2. /\ f \in Entry /\ Cost(e, n) \in 0..(U128 - 1) /\ Cost(e, n) \in Nat
      /\ f.sales = (e.sales + n) % U64 /\ f.revenue = (e.revenue + Cost(e, n)) % U128
  <2>1. f \in Entry /\ Cost(e, n) \in 0..(U128 - 1)
    BY <1>1, SaleEffect
  <2>2. f.sales = (e.sales + n) % U64 /\ f.revenue = (e.revenue + Cost(e, n)) % U128
    BY <1>1 DEF RecordSale, Entry
  <2> QED
    BY <2>1, <2>2, MarketAssumption
<1>3. bill \in Bill /\ bill.listing = l /\ bill["units"] = n /\ bill["paid"] = Cost(e, n)
  BY <1>1, <1>2 DEF Bill
<1>4. listings'[l] = f /\ \A k \in Listing : k # l => listings'[k] = listings[k]
  BY <1>1 DEF TypeOK
<1>5. \A k \in Listing : Listed(k) => Listed(k)'
  BY <1>2, <1>4, MarketAssumption DEF Listed
<1> HIDE DEF f, bill
<1>6. ASSUME NEW c \in Buyer, NEW i \in DOMAIN purchases'[c] PROVE Listed(purchases[c][i].listing)'
  <2>1. purchases'[c][i].listing \in Listing /\ purchases[c] \in Seq(Bill)
    <3>1. purchases'[c] \in Seq(Bill) /\ purchases[c] \in Seq(Bill)
      BY DEF TypeOK
    <3>2. purchases'[c][i] \in Bill
      BY <1>6, <3>1
    <3> QED
      BY <3>1, <3>2 DEF Bill
  <2>2. CASE i \in DOMAIN purchases[c] /\ purchases'[c][i] = purchases[c][i]
    BY <1>5, <2>1, <2>2 DEF BilledInv
  <2>3. CASE purchases'[c][i] = bill
    BY <1>3, <1>2, <1>4, <2>3, MarketAssumption DEF Listed
  <2>4. CASE c # b
    BY <1>1, <2>2, <2>4 DEF TypeOK
  <2>5. CASE c = b
    <3>1. purchases'[b] = Append(purchases[b], bill)
      BY <1>1 DEF TypeOK
    <3>2. i = Len(purchases[b]) + 1 \/ i \in 1..Len(purchases[b])
      BY <2>1, <2>5, <3>1
    <3>3. i \in 1..Len(purchases[b]) => i \in DOMAIN purchases[c] /\ purchases'[c][i] = purchases[c][i]
      BY <2>1, <2>5, <3>1
    <3>4. i = Len(purchases[b]) + 1 => purchases'[c][i] = bill
      BY <2>1, <2>5, <3>1
    <3> QED
      BY <2>2, <2>3, <3>2, <3>3, <3>4
  <2> QED
    BY <2>4, <2>5
<1>7. SalesAreBilled'
  <2> SUFFICES ASSUME NEW k \in Listing, Listed(k)'
               PROVE  /\ listings'[k].sales = Billed(k, "units")' % U64
                      /\ listings'[k].revenue = Billed(k, "paid")' % U128
    BY DEF SalesAreBilled
  <2>1. "units" \in What /\ "paid" \in What
    BY DEF What
  <2>2. /\ Billed(k, "units")' = Billed(k, "units") + (IF bill.listing = k THEN bill["units"] ELSE 0)
        /\ Billed(k, "paid")' = Billed(k, "paid") + (IF bill.listing = k THEN bill["paid"] ELSE 0)
    BY <1>1, <1>3, <2>1, BillAdds, ZenonT(60)
  <2>3. Billed(k, "units") \in Nat /\ Billed(k, "paid") \in Nat
    BY <2>1, BilledType
  <2>4. CASE k = l
    <3>1. e.sales = Billed(l, "units") % U64 /\ e.revenue = Billed(l, "paid") % U128
      BY DEF BilledInv, SalesAreBilled, Purchase
    <3>2. Billed(l, "units")' = Billed(l, "units") + n /\ Billed(l, "paid")' = Billed(l, "paid") + Cost(e, n)
      BY <1>3, <2>2, <2>4
    <3>3. U64 \in Nat \ {0} /\ U128 \in Nat \ {0}
      BY MarketAssumption
    <3>4. f.sales = (Billed(l, "units") + n) % U64
      <4> DEFINE B == Billed(l, "units")
      <4>1. B \in Nat
        BY <2>3, <2>4
      <4> HIDE DEF B
      <4>2. ((B % U64) + n) % U64 = (B + n) % U64
        BY <1>1, <3>3, <4>1, RemainderOfSum
      <4> QED
        BY <1>2, <3>1, <4>2 DEF B
    <3>5. f.revenue = (Billed(l, "paid") + Cost(e, n)) % U128
      <4> DEFINE B == Billed(l, "paid")
      <4>1. B \in Nat
        BY <2>3, <2>4
      <4> HIDE DEF B
      <4>2. ((B % U128) + Cost(e, n)) % U128 = (B + Cost(e, n)) % U128
        BY <1>2, <3>3, <4>1, RemainderOfSum
      <4> QED
        BY <1>2, <3>1, <4>2 DEF B
    <3> QED
      BY <1>4, <2>4, <3>2, <3>4, <3>5
  <2>5. CASE k # l
    <3>1. Billed(k, "units")' = Billed(k, "units") /\ Billed(k, "paid")' = Billed(k, "paid")
      BY <1>3, <2>2, <2>3, <2>5
    <3> QED
      BY <1>4, <2>5, <3>1 DEF BilledInv, SalesAreBilled, Listed
  <2> QED
    BY <2>4, <2>5
<1> QED
  BY <1>6, <1>7 DEF BilledInv, Listed

\* A change of status sells nothing.
LEMMA StatusKeepsBilledInv ==
  ASSUME TypeOK, BilledInv, NEW l \in Listing, NEW s \in Status, Listed(l),
         listings' = [listings EXCEPT ![l].status = s], UNCHANGED purchases
  PROVE  BilledInv'
<1> DEFINE e == listings[l]
           f == [e EXCEPT !.status = s]
<1>1. e \in Entry
  BY DEF TypeOK, Listed
<1>2. f \in Entry /\ f.sales = e.sales /\ f.revenue = e.revenue
  BY <1>1 DEF Entry
<1>3. listings'[l] = f /\ \A k \in Listing : k # l => listings'[k] = listings[k]
  BY DEF TypeOK
<1>4. \A k \in Listing : Listed(k)' <=> Listed(k)
  BY <1>2, <1>3, MarketAssumption DEF Listed
<1>5. \A b \in Buyer : \A i \in DOMAIN purchases[b] : purchases[b][i].listing \in Listing
  BY BillsNameListings
<1>6. ASSUME NEW b \in Buyer, NEW i \in DOMAIN purchases'[b] PROVE Listed(purchases[b][i].listing)'
  BY <1>4, <1>5 DEF BilledInv
<1>7. \A k \in Listing, what \in What : Billed(k, what)' = Billed(k, what)
  BY DEF Billed, BilledTo
<1>8. SalesAreBilled'
  <2> SUFFICES ASSUME NEW k \in Listing, Listed(k)'
               PROVE  /\ listings'[k].sales = Billed(k, "units")' % U64
                      /\ listings'[k].revenue = Billed(k, "paid")' % U128
    BY DEF SalesAreBilled
  <2>1. listings'[k].sales = listings[k].sales /\ listings'[k].revenue = listings[k].revenue
    BY <1>2, <1>3
  <2>2. "units" \in What /\ "paid" \in What /\ Listed(k)
    BY <1>4 DEF What
  <2> QED
    BY <1>7, <2>1, <2>2 DEF BilledInv, SalesAreBilled
<1> QED
  BY <1>6, <1>8 DEF BilledInv, Listed

\* What is recorded as sold of a listing was billed to its buyers, and the other
\* way round, through any order of calls.
THEOREM SalesAreBilledCorrect == Spec => []SalesAreBilled
<1>1. Init => BilledInv
  <2> SUFFICES ASSUME Init PROVE BilledInv
    OBVIOUS
  <2>1. \A b \in Buyer : DOMAIN purchases[b] = {}
    BY DEF Init
  <2> QED
    BY <2>1 DEF Init, BilledInv, SalesAreBilled, Listed
<1>2. TypeOK /\ TypeOK' /\ BilledInv /\ [Next]_vars => BilledInv'
  <2> SUFFICES ASSUME TypeOK, TypeOK', BilledInv, [Next]_vars PROVE BilledInv'
    OBVIOUS
  <2>1. CASE UNCHANGED vars
    BY <2>1 DEF vars, BilledInv, SalesAreBilled, Billed, BilledTo, Listed
  <2>2. ASSUME NEW l \in Listing, NEW o \in Offer, CreateListing(l, o) PROVE BilledInv'
    BY <2>2, CreateKeepsBilledInv
  <2>3. ASSUME NEW l \in Listing, NEW b \in Buyer, NEW n \in Amount, Purchase(l, b, n) PROVE BilledInv'
    BY <2>3, PurchaseKeepsBilledInv
  <2>4. ASSUME NEW l \in Listing, Pause(l) \/ Resume(l) \/ Cancel(l) PROVE BilledInv'
    BY <2>4, StatusKeepsBilledInv DEF Pause, Resume, Cancel, Status
  <2> QED
    BY <2>1, <2>2, <2>3, <2>4 DEF Next
<1>3. BilledInv => SalesAreBilled
  BY DEF BilledInv
<1> QED
  BY <1>1, <1>2, <1>3, TypeCorrect, PTL DEF Spec

=============================================================================
