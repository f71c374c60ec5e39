---------------------------- MODULE MCBlockchain ----------------------------
(***************************************************************************)
(* Small instances of Blockchain.                                          *)
(*                                                                         *)
(*        g(1) -- a1(1) -- a2(1) -- a3(1)      the long branch             *)
(*         \        \----- s2(2)               a sibling of a2             *)
(*          \--- b1(3) --- u2(1)               heavy; u2, x1 not mined     *)
(*                  \----- x1(5)               height 1 on a parent of 1   *)
(*                                                                         *)
(* The number of a name is the height, in brackets the difficulty.         *)
(***************************************************************************)
EXTENDS Blockchain

CONSTANTS g, a1, a2, a3, s2, b1, u2, x1

Attributes ==
  [ parent |-> [b \in Block |->
      CASE b = g  -> NoBlock
        [] b \in {a1, b1} -> g
        [] b \in {a2, s2} -> a1
        [] b = a3 -> a2
        [] OTHER -> b1],
    height |-> [b \in Block |->
      CASE b = g -> 0
        [] b \in {a1, b1, x1} -> 1
        [] b \in {a2, s2, u2} -> 2
        [] OTHER -> 3],
    work |-> [b \in Block |->
      CASE b = s2 -> 2
        [] b = b1 -> 3
        [] b = x1 -> 5
        [] OTHER -> 1] ]

MCParent == Attributes.parent
MCHeight == Attributes.height
MCWork   == Attributes.work
MCSound  == Block
MCDrifting == Block \cap {s2}
MCMined  == Block \ {u2, x1}

=============================================================================
