--------------------------- MODULE HeaviestChain ---------------------------
(***************************************************************************)
(* What a chain manager promises: a growing tree of valid blocks, each with *)
(* the work of its branch, and a tip that moves only to a heavier block.    *)
(* Blockchain implements it while imports do not overlap.                   *)
(***************************************************************************)
EXTENDS Naturals

CONSTANTS Block, Genesis, NoBlock, Parent, Height, Work, Sound, TDModulus

VARIABLES tree, weight, tip

hvars == <<tree, weight, tip>>

HInit ==
  /\ tree = {}
  /\ weight = [b \in Block |-> 0]
  /\ tip = NoBlock

\* The chain starts at genesis
Start ==
  /\ tree = {}
  /\ tree' = {Genesis}
  /\ weight' = [weight EXCEPT ![Genesis] = Work[Genesis]]
  /\ tip' = Genesis

\* A valid child of a block of the tree joins it, and is the tip if it weighs more
Grow(b) ==
  /\ b \notin tree
  /\ Parent[b] \in tree
  /\ Height[b] = Height[Parent[b]] + 1
  /\ b \in Sound
  /\ tree' = tree \cup {b}
  /\ weight' = [weight EXCEPT ![b] = (weight[Parent[b]] + Work[b]) % TDModulus]
  /\ tip' = IF weight'[b] > weight[tip] THEN b ELSE tip

HNext == Start \/ \E b \in Block : Grow(b)

HSpec == HInit /\ [][HNext]_hvars

=============================================================================
