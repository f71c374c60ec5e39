----------------------------- MODULE MCServices -----------------------------
(***************************************************************************)
(* Small instances of the libraries that share no state with one another:  *)
(* the ledger, the peer table, the device registry and the Merkle trees.   *)
(* A behaviour uses one of them, chosen at the start.                      *)
(***************************************************************************)
EXTENDS Ledger, PeerManager, DeviceRegistry, Merkle, TLC

CONSTANTS p1, p2, p3

VARIABLE service   \* the library that is used

vars == <<ledgerVars, peerVars, registryVars, tree, service>>

\* An empty account, one that is nothing but a balance, one with code
MCPosted == {Empty,
             [balance |-> 2, nonce |-> 0, code |-> NoCode],
             [balance |-> 0, nonce |-> 1, code |-> CHOOSE c \in Code : TRUE]}
\* One peer has a shard to itself, two share theirs
MCShardOf == (p1 :> 1) @@ (p2 :> 2) @@ (p3 :> 2)

\* The threads, and the two peers that share a shard
Interchangeable == {t @@ q : t \in Permutations(Thread), q \in Permutations({p2, p3})}

Init ==
  /\ LedgerInit /\ PeerInit /\ RegistryInit /\ MerkleInit
  /\ service \in {"ledger", "peers", "registry", "merkle"}

UseLedger ==
  /\ service = "ledger" /\ LedgerNext
  /\ UNCHANGED <<peerVars, registryVars, tree, service>>

UsePeers ==
  /\ service = "peers" /\ PeerNext
  /\ UNCHANGED <<ledgerVars, registryVars, tree, service>>

UseRegistry ==
  /\ service = "registry" /\ RegistryNext
  /\ UNCHANGED <<ledgerVars, peerVars, tree, service>>

UseMerkle ==
  /\ service = "merkle" /\ BuildTree
  /\ UNCHANGED <<ledgerVars, peerVars, registryVars, service>>

Next == UseLedger \/ UsePeers \/ UseRegistry \/ UseMerkle

Spec == Init /\ [][Next]_vars

=============================================================================
