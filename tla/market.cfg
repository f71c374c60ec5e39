\* Two listings and two buyers: a limited and an unlimited offer, counters that wrap.
CONSTANTS
  Listing = {l1, l2}
  Buyer = {b1, b2}
  Offer <- MCOffer
  Amount = {0, 1, 2, 3}
  U64 = 8
  U128 = 8
  NoListing = NoListing
  MaxPurchases = 2
SPECIFICATION Spec
INVARIANTS
  StockConserved
  NeverOversold
  SalesAreBilled
