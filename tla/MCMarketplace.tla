---------------------------- MODULE MCMarketplace ----------------------------
(***************************************************************************)
(* A small instance of Marketplace: a limited offer with a minimum, and an *)
(* unlimited one without; counters narrow enough to wrap around.           *)
(***************************************************************************)
EXTENDS Marketplace

MCOffer == {[units |-> 3, min |-> 1, price |-> 2], [units |-> 0, min |-> 0, price |-> 5]}

=============================================================================
