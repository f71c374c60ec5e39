\* One listing that is sold out, paused and resumed: violated.
CONSTANTS
  Listing = {l1}
  Buyer = {b1}
  Offer <- MCOffer
  Amount = {0, 1, 2, 3}
  U64 = 8
  U128 = 8
  NoListing = NoListing
  MaxPurchases = 2
SPECIFICATION Spec
INVARIANT
  ActiveIsAvailable
