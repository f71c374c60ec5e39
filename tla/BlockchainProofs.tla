--------------------------- MODULE BlockchainProofs ---------------------------
(***************************************************************************)
(* For every set of blocks, every number of importers, and with crashes    *)
(* and database errors: the stored blocks form a tree with the right       *)
(* totals, the index and the head point into it, and an accepted block is  *)
(* kept.  And for one importer that nothing interrupts: the head is the    *)
(* heaviest block and only improves, latest_height is its height, no       *)
(* orphan is left behind, and Blockchain implements HeaviestChain.         *)
(***************************************************************************)
EXTENDS Blockchain, TLAPS

\* What an importer knows of the block it works on: once validated, its parent
\* is stored and newTd is the total it will record; once written, it is stored.
ThreadInv ==
  \A t \in Importers :
    /\ pc[t] # "idle" => cur[t] \in Block /\ req[t] \in Block
    /\ pc[t] = "write" =>
         /\ Parent[cur[t]] \in store
         /\ Extends(cur[t])
         /\ newTd[t] = TotalDifficulty(cur[t])
    /\ pc[t] \in {"compare", "latest", "publish", "drain"} => cur[t] \in store
    /\ pc[t] \in {"compare", "latest", "publish"} => newTd[t] = td[cur[t]]

\* The block the caller handed over is the one in hand, or already stored
RequestInv ==
  \A t \in Importers : pc[t] # "idle" => req[t] = cur[t] \/ req[t] \in store

\* Between the writes of init_genesis the genesis block is stored and indexed
PhaseInv ==
  phase \in {"genesisStored", "genesisLatest"} => Genesis \in store

KnownInv == known \subseteq store

IInv ==
  /\ TypeOK /\ TreeInv /\ WorkInv /\ IndexInv /\ HeadInv
  /\ ThreadInv /\ RequestInv /\ PhaseInv /\ KnownInv

-----------------------------------------------------------------------------

\* The total difficulty import_block computes from a parent is a number
LEMMA TotalIsNat ==
  ASSUME TypeOK, NEW b \in Block, Parent[b] \in Block
  PROVE  TotalDifficulty(b) \in Nat
<1>1. td[Parent[b]] \in Nat /\ Work[b] \in Nat
  BY BlockAssumption DEF TypeOK
<1>2. \A m \in Nat, n \in Nat \ {0} : m % n \in Nat
  OBVIOUS
<1> QED
  BY <1>1, <1>2, BlockAssumption DEF TotalDifficulty

\* A step that leaves the store, the head and known_blocks alone keeps what the
\* invariant says about them.
LEMMA StoreUntouched ==
  ASSUME IInv, UNCHANGED <<durable, head, known>>
  PROVE  TreeInv' /\ WorkInv' /\ IndexInv' /\ HeadInv' /\ KnownInv'
BY DEF IInv, durable, TreeInv, WorkInv, IndexInv, HeadInv, KnownInv, TotalDifficulty, NoHead

\* put_block of genesis, or of a validated child of a stored block, keeps the
\* tree, its totals and the index; a repeated put_block rewrites the same total.
LEMMA PutBlockKeepsTree ==
  ASSUME IInv, NEW b \in Block, NEW total,
         PutBlock(b, total), UNCHANGED <<latest, head, known>>,
         \/ b = Genesis /\ total = Work[Genesis]
         \/ Parent[b] \in store /\ Extends(b) /\ total = TotalDifficulty(b)
  PROVE  /\ TreeInv' /\ WorkInv' /\ IndexInv' /\ HeadInv' /\ KnownInv'
         /\ store \subseteq store' /\ b \in store' /\ td'[b] = total
         /\ \A c \in store : td'[c] = td[c]
         /\ store' \subseteq Block /\ td' \in [Block -> Nat] /\ index' \in [Heights -> Hashes]
<1> USE BlockAssumption
<1>1. TypeOK /\ TreeInv /\ WorkInv /\ IndexInv /\ HeadInv /\ KnownInv
  BY DEF IInv
<1>2. Extends(b) => b # Genesis
  BY DEF Extends
<1>3. b # Genesis => Parent[b] \in Block
  BY <1>1 DEF TypeOK
<1>4. total \in Nat
  <2>1. CASE b = Genesis /\ total = Work[Genesis]
    BY <2>1
  <2>2. CASE Parent[b] \in store /\ total = TotalDifficulty(b)
    <3>1. Parent[b] \in Block
      BY <2>2, <1>1 DEF TypeOK
    <3> QED
      BY <3>1, <2>2, <1>1, TotalIsNat
  <2> QED
    BY <2>1, <2>2
<1>5. store' = store \cup {b} /\ td' = [td EXCEPT ![b] = total]
      /\ index' = [index EXCEPT ![Height[b]] = b]
  BY DEF PutBlock
<1>6. td'[b] = total /\ \A c \in Block \ {b} : td'[c] = td[c]
  BY <1>1, <1>5 DEF TypeOK
<1>7. b \in store => total = td[b]
  BY <1>1, <1>2 DEF WorkInv, TotalDifficulty
<1>8. \A c \in store : td'[c] = td[c]
  BY <1>1, <1>6, <1>7 DEF TypeOK
<1>9. TreeInv'
  BY <1>1, <1>5 DEF TreeInv, Extends
<1>10. WorkInv'
  <2> SUFFICES ASSUME NEW c \in store'
               PROVE  td'[c] = IF c = Genesis THEN Work[Genesis]
                              ELSE (td'[Parent[c]] + Work[c]) % TDModulus
    BY DEF WorkInv
  <2>1. c = b \/ c \in store
    BY <1>5
  <2>2. CASE c = Genesis
    BY <2>1, <2>2, <1>1, <1>2, <1>6, <1>8 DEF WorkInv
  <2>3. CASE c # Genesis
    <3>1. Parent[c] \in store
      BY <2>1, <2>3, <1>1 DEF TreeInv
    <3>2. td'[Parent[c]] = td[Parent[c]]
      BY <3>1, <1>8
    <3> QED
      BY <2>1, <2>3, <3>2, <1>1, <1>6, <1>8 DEF WorkInv, TotalDifficulty
  <2> QED
    BY <2>2, <2>3
<1>11. IndexInv'
  <2>1. Height[b] \in Heights /\ index' \in [Heights -> Hashes]
    BY <1>1, <1>5 DEF Heights, Hashes, TypeOK
  <2>2. index'[Height[b]] = b /\ \A h \in Heights \ {Height[b]} : index'[h] = index[h]
    BY <1>1, <1>5, <2>1 DEF TypeOK
  <2>3. \A h \in Heights : index'[h] # NoBlock => index'[h] \in store' /\ Height[index'[h]] = h
    BY <1>1, <1>5, <2>2 DEF IndexInv
  <2>4. \A c \in store' : index'[Height[c]] # NoBlock
    <3> TAKE c \in store'
    <3>1. c \in Block /\ Height[c] \in Heights
      BY <1>1, <1>5 DEF TypeOK, Heights
    <3>2. CASE Height[c] = Height[b]
      BY <3>2, <2>2
    <3>3. CASE Height[c] # Height[b]
      BY <3>1, <3>3, <1>1, <1>5, <2>2 DEF IndexInv
    <3> QED
      BY <3>2, <3>3
  <2>5. index'[0] \in {NoBlock, Genesis}
    <3>1. 0 \in Heights
      BY DEF Heights
    <3>2. b = Genesis \/ Height[b] # 0
      BY DEF Extends
    <3> QED
      BY <3>1, <3>2, <2>2, <1>1 DEF IndexInv
  <2>6. latest' # NoHeight => index'[latest'] # NoBlock
    BY <1>1, <2>2 DEF IndexInv, TypeOK
  <2> QED
    BY <2>3, <2>4, <2>5, <2>6 DEF IndexInv
<1>12. HeadInv'
  BY <1>1, <1>5, <1>8 DEF HeadInv, NoHead
<1>13. KnownInv'
  BY <1>1, <1>5 DEF KnownInv
<1>14. td' \in [Block -> Nat]
  BY <1>1, <1>4, <1>5 DEF TypeOK
<1>15. index' \in [Heights -> Hashes] /\ store' \subseteq Block
  BY <1>1, <1>5 DEF TypeOK, Hashes, Heights
<1> QED
  BY <1>5, <1>6, <1>8, <1>9, <1>10, <1>11, <1>12, <1>13, <1>14, <1>15

-----------------------------------------------------------------------------
(***************************************************************************)
(* Every step keeps the invariant: the steps that leave the store alone,   *)
(* the two that put a block, the two that set the latest height, and those *)
(* that replace the head.                                                  *)
(***************************************************************************)

\* A node that has never run satisfies the invariant.
THEOREM InitEstablishesIInv == Init => IInv
<1> SUFFICES ASSUME Init PROVE IInv
  OBVIOUS
<1> USE BlockAssumption
<1>1. TypeOK
  BY DEF Init, TypeOK, NoHead, Hashes, Heights, Phases, Steps, Answers, Everywhere
<1>2. TreeInv /\ WorkInv /\ IndexInv /\ HeadInv /\ KnownInv /\ PhaseInv
  BY DEF Init, TreeInv, WorkInv, IndexInv, HeadInv, KnownInv, PhaseInv, Heights
<1>3. ThreadInv /\ RequestInv
  BY DEF Init, ThreadInv, RequestInv, Everywhere
<1> QED
  BY <1>1, <1>2, <1>3 DEF IInv

\* Blockchain::new, init and the three writes of init_genesis keep the invariant.
LEMMA StartUpKeepsIInv == IInv /\ StartUp => IInv'
<1> SUFFICES ASSUME IInv, StartUp PROVE IInv'
  OBVIOUS
<1> USE BlockAssumption
<1>0. TypeOK /\ ThreadInv /\ RequestInv /\ WorkInv /\ IndexInv /\ PhaseInv
  BY DEF IInv
<1>1. CASE InitSkipped \/ InitRefused
  <2>1. UNCHANGED <<durable, head, known>>
    BY <1>1 DEF InitSkipped, InitRefused, volatile
  <2>2. TypeOK' /\ ThreadInv' /\ RequestInv' /\ PhaseInv'
    BY <1>0, <1>1 DEF InitSkipped, InitRefused, durable, volatile, threads, TypeOK, Phases,
         ThreadInv, RequestInv, PhaseInv, TotalDifficulty
  <2> QED
    BY <2>1, <2>2, StoreUntouched DEF IInv
<1>2. CASE Open
  <2>1. LoadedHead = NoHead \/ \E b \in store : LoadedHead = Stored(b)
    BY DEF LoadedHead
  <2>2. HeadInv' /\ TypeOK'
    BY <2>1, <1>0, <1>2 DEF Open, durable, threads, TypeOK, Phases, HeadInv, Stored, NoHead, Hashes
  <2>3. ThreadInv' /\ RequestInv' /\ PhaseInv'
    BY <1>0, <1>2 DEF Open, durable, threads, ThreadInv, RequestInv, PhaseInv, TotalDifficulty
  <2>4. TreeInv' /\ WorkInv' /\ IndexInv' /\ KnownInv'
    BY <1>2 DEF Open, IInv, durable, TreeInv, WorkInv, IndexInv, KnownInv, TotalDifficulty
  <2> QED
    BY <2>2, <2>3, <2>4 DEF IInv
<1>3. CASE PutGenesis
  <2>1. PutBlock(Genesis, Work[Genesis]) /\ UNCHANGED <<latest, head, known, pending, threads>>
        /\ phase' = "genesisStored"
    BY <1>3 DEF PutGenesis, volatile
  <2>2. /\ TreeInv' /\ WorkInv' /\ IndexInv' /\ HeadInv' /\ KnownInv'
        /\ store \subseteq store' /\ Genesis \in store'
        /\ \A c \in store : td'[c] = td[c]
        /\ store' \subseteq Block /\ td' \in [Block -> Nat] /\ index' \in [Heights -> Hashes]
    BY <2>1, PutBlockKeepsTree
  <2>3. TypeOK'
    BY <2>1, <2>2, <1>0 DEF TypeOK, threads, Phases
  <2>4. ThreadInv' /\ RequestInv' /\ PhaseInv'
    BY <2>1, <2>2, <1>0 DEF threads, ThreadInv, RequestInv, PhaseInv, TotalDifficulty
  <2> QED
    BY <2>2, <2>3, <2>4 DEF IInv
<1>4. CASE SetGenesisHeight
  <2>1. /\ latest' = 0 /\ phase = "genesisStored" /\ phase' = "genesisLatest"
        /\ UNCHANGED <<store, td, index, head, known, pending, threads>>
    BY <1>4 DEF SetGenesisHeight, volatile
  <2>2. 0 \in Heights /\ index[0] # NoBlock
    BY <2>1, <1>0 DEF Heights, PhaseInv, IndexInv
  <2>3. TypeOK'
    BY <2>1, <2>2, <1>0 DEF TypeOK, threads, Phases
  <2>4. IndexInv'
    BY <2>1, <2>2, <1>0 DEF IndexInv
  <2>5. ThreadInv' /\ RequestInv' /\ PhaseInv'
    BY <2>1, <1>0 DEF threads, ThreadInv, RequestInv, PhaseInv, TotalDifficulty
  <2>6. TreeInv' /\ WorkInv' /\ HeadInv' /\ KnownInv'
    BY <2>1 DEF IInv, TreeInv, WorkInv, HeadInv, KnownInv, TotalDifficulty, NoHead
  <2> QED
    BY <2>3, <2>4, <2>5, <2>6 DEF IInv
<1>5. CASE PublishGenesis
  <2>1. /\ head' = [blk |-> Genesis, td |-> Work[Genesis]] /\ phase = "genesisLatest"
        /\ phase' = "running" /\ UNCHANGED <<durable, known, pending, threads>>
    BY <1>5 DEF PublishGenesis
  <2>2. TypeOK' /\ HeadInv'
    BY <2>1, <1>0 DEF TypeOK, Phases, Hashes, durable, threads, HeadInv, PhaseInv, WorkInv
  <2>3. ThreadInv' /\ RequestInv' /\ PhaseInv'
    BY <2>1, <1>0 DEF durable, threads, ThreadInv, RequestInv, PhaseInv, TotalDifficulty
  <2>4. TreeInv' /\ WorkInv' /\ IndexInv' /\ KnownInv'
    BY <2>1 DEF IInv, durable, TreeInv, WorkInv, IndexInv, KnownInv, TotalDifficulty
  <2> QED
    BY <2>2, <2>3, <2>4 DEF IInv
<1> QED
  BY <1>1, <1>2, <1>3, <1>4, <1>5 DEF StartUp

\* A crash keeps the invariant: what is durable is right at every moment.
LEMMA StopKeepsIInv == IInv /\ Stop => IInv'
<1> SUFFICES ASSUME IInv, Stop PROVE IInv'
  OBVIOUS
<1> USE BlockAssumption
<1>1. TypeOK'
  BY DEF IInv, Stop, TypeOK, durable, Everywhere, Hashes, Phases, Steps, Answers, NoHead
<1>2. ThreadInv' /\ RequestInv'
  BY DEF Stop, ThreadInv, RequestInv, Everywhere
<1>3. TreeInv' /\ WorkInv' /\ IndexInv' /\ HeadInv' /\ KnownInv' /\ PhaseInv'
  BY DEF IInv, Stop, durable, TreeInv, WorkInv, IndexInv, HeadInv, KnownInv, PhaseInv,
     TotalDifficulty
<1> QED
  BY <1>1, <1>2, <1>3 DEF IInv

\* A step of thread t that leaves the store, the head, known_blocks and the
\* phase alone keeps the invariant if t keeps its own part of it.
LEMMA OwnStepKeepsIInv ==
  ASSUME IInv, TypeOK', NEW t \in Importers,
         UNCHANGED <<durable, head, known, phase>>,
         \A u \in Importers \ {t} :
           /\ pc'[u] = pc[u] /\ req'[u] = req[u] /\ cur'[u] = cur[u] /\ newTd'[u] = newTd[u],
         /\ pc'[t] # "idle" => cur'[t] \in Block /\ req'[t] \in Block
         /\ pc'[t] = "write" =>
              /\ Parent[cur'[t]] \in store
              /\ Extends(cur'[t])
              /\ newTd'[t] = TotalDifficulty(cur'[t])
         /\ pc'[t] = "drain" => cur'[t] \in store
         /\ pc'[t] \notin {"compare", "latest", "publish"}
         /\ pc'[t] # "idle" => req'[t] = cur'[t] \/ req'[t] \in store
  PROVE  IInv'
<1>1. ThreadInv'
  <2> SUFFICES ASSUME NEW u \in Importers
               PROVE  /\ pc'[u] # "idle" => cur'[u] \in Block /\ req'[u] \in Block
                      /\ pc'[u] = "write" =>
                           /\ Parent[cur'[u]] \in store'
                           /\ Extends(cur'[u])
                           /\ newTd'[u] = TotalDifficulty(cur[u])'
                      /\ pc'[u] \in {"compare", "latest", "publish", "drain"} => cur'[u] \in store'
                      /\ pc'[u] \in {"compare", "latest", "publish"} => newTd'[u] = td'[cur'[u]]
    BY DEF ThreadInv, Extends
  <2>1. CASE u = t
    BY <2>1 DEF durable, TotalDifficulty
  <2>2. CASE u # t
    BY <2>2 DEF IInv, ThreadInv, durable, TotalDifficulty
  <2> QED
    BY <2>1, <2>2
<1>2. RequestInv'
  <2> SUFFICES ASSUME NEW u \in Importers, pc'[u] # "idle"
               PROVE  req'[u] = cur'[u] \/ req'[u] \in store'
    BY DEF RequestInv
  <2> QED
    BY DEF IInv, RequestInv, durable
<1>3. PhaseInv'
  BY DEF IInv, PhaseInv, durable
<1> QED
  BY <1>1, <1>2, <1>3, StoreUntouched DEF IInv

\* A caller may hand over any block, with any claim about its PoW hash.
LEMMA BeginKeepsIInv ==
  ASSUME IInv, NEW t \in Importers, NEW b \in Block, NEW c \in BOOLEAN, Begin(t, b, c)
  PROVE  IInv'
<1>1. TypeOK
  BY DEF IInv
<1>2. TypeOK'
  BY <1>1 DEF Begin, Goto, TypeOK, durable, volatile, Hashes, Steps, Answers
<1>3. /\ pc'[t] = "lookup" /\ req'[t] = b /\ cur'[t] = b
      /\ UNCHANGED <<durable, head, known, phase>>
  BY <1>1 DEF Begin, Goto, TypeOK, volatile
<1>4. \A u \in Importers \ {t} :
        pc'[u] = pc[u] /\ req'[u] = req[u] /\ cur'[u] = cur[u] /\ newTd'[u] = newTd[u]
  BY <1>1 DEF Begin, Goto, TypeOK
<1> QED
  BY <1>2, <1>3, <1>4, OwnStepKeepsIInv

\* What Return does to the importer's own variables
LEMMA ReturnEffect ==
  ASSUME TypeOK, NEW t \in Importers, NEW r \in Answers, Return(t, r)
  PROVE  /\ pc'[t] = "idle" /\ answer'[t] = r
         /\ \A u \in Importers \ {t} :
              /\ pc'[u] = pc[u] /\ req'[u] = req[u] /\ cur'[u] = cur[u]
              /\ newTd'[u] = newTd[u] /\ answer'[u] = answer[u]
         /\ pc' \in [Importers -> Steps] /\ req' \in [Importers -> Hashes]
         /\ cur' \in [Importers -> Hashes] /\ claim' \in [Importers -> BOOLEAN]
         /\ newTd' \in [Importers -> Nat] /\ answer' \in [Importers -> Answers]
BY DEF TypeOK, Return, Goto, Hashes, Steps

\* The ways a call ends
Ends(t) ==
  \/ AlreadyKnown(t) \/ Stash(t) \/ Reject(t) \/ NoOrphan(t) \/ DropOrphan(t)
  \/ DatabaseError(t)

\* A call that returns keeps the invariant: a rejection, an orphan stashed or
\* dropped, a known block, a database error.
LEMMA EndKeepsIInv ==
  ASSUME IInv, NEW t \in Importers, Ends(t)
  PROVE  IInv'
<1> USE BlockAssumption
<1>1. TypeOK /\ ThreadInv
  BY DEF IInv
<1>2. PICK r \in Answers : Return(t, r)
  BY DEF Ends, AlreadyKnown, Stash, Reject, NoOrphan, DropOrphan, DatabaseError, Answers
<1>3. UNCHANGED <<durable, head, known, phase>>
  BY DEF Ends, AlreadyKnown, Stash, Reject, NoOrphan, DropOrphan, DatabaseError, durable, volatile
<1>4. pending' \in [Hashes -> Hashes]
  BY <1>1 DEF Ends, AlreadyKnown, Stash, Reject, NoOrphan, DropOrphan, DatabaseError, volatile,
       TypeOK, Hashes
<1>5. TypeOK'
  BY <1>1, <1>2, <1>3, <1>4, ReturnEffect DEF TypeOK, durable
<1> QED
  BY <1>1, <1>2, <1>3, <1>5, ReturnEffect, OwnStepKeepsIInv

\* The steps that only move the thread on, or hand it an orphan
LEMMA MoveKeepsIInv ==
  ASSUME IInv, NEW t \in Importers,
         Unknown(t) \/ MissingParent(t) \/ Validate(t) \/ TakeOrphan(t)
  PROVE  IInv'
<1> USE BlockAssumption
<1>1. TypeOK /\ ThreadInv /\ RequestInv
  BY DEF IInv
<1>2. CASE Unknown(t) \/ MissingParent(t)
  <2>1. /\ UNCHANGED <<durable, volatile, phase, req, cur, claim, newTd, answer>>
        /\ pc[t] # "idle" /\ pc'[t] \in {"parent", "stash"}
        /\ pc' \in [Importers -> Steps] /\ \A u \in Importers \ {t} : pc'[u] = pc[u]
    BY <1>1, <1>2 DEF Unknown, MissingParent, At, Goto, TypeOK, Steps
  <2>2. TypeOK'
    BY <2>1, <1>1 DEF TypeOK, durable, volatile
  <2> QED
    BY <2>1, <2>2, <1>1, OwnStepKeepsIInv DEF volatile, ThreadInv, RequestInv
<1>3. CASE Validate(t)
  <2>1. /\ UNCHANGED <<durable, volatile, phase, req, cur, claim, answer>>
        /\ pc[t] = "parent" /\ Parent[cur[t]] \in store /\ Extends(cur[t])
        /\ newTd' = [newTd EXCEPT ![t] = TotalDifficulty(cur[t])]
        /\ pc' = [pc EXCEPT ![t] = "write"]
    BY <1>3 DEF Validate, At, Goto
  <2>2. cur[t] \in Block /\ req[t] \in Block /\ Parent[cur[t]] \in Block
    BY <2>1, <1>1 DEF ThreadInv, TypeOK
  <2>3. TotalDifficulty(cur[t]) \in Nat
    BY <2>2, <1>1, TotalIsNat
  <2>4. TypeOK'
    BY <2>1, <2>3, <1>1 DEF TypeOK, durable, volatile, Steps
  <2>5. /\ pc'[t] = "write" /\ newTd'[t] = TotalDifficulty(cur[t])
        /\ \A u \in Importers \ {t} : pc'[u] = pc[u] /\ newTd'[u] = newTd[u]
    BY <2>1, <1>1 DEF TypeOK
  <2>6. req[t] = cur[t] \/ req[t] \in store
    BY <2>1, <1>1 DEF RequestInv
  <2> QED
    BY <2>1, <2>2, <2>4, <2>5, <2>6, OwnStepKeepsIInv DEF volatile
<1>4. CASE TakeOrphan(t)
  <2>1. /\ UNCHANGED <<durable, head, known, phase, req, answer>>
        /\ pc[t] = "drain" /\ pending[cur[t]] \in Block
        /\ pending' = [pending EXCEPT ![cur[t]] = NoBlock]
        /\ cur' = [cur EXCEPT ![t] = pending[cur[t]]]
        /\ claim' = [claim EXCEPT ![t] = TRUE]
        /\ newTd' = [newTd EXCEPT ![t] = 0]
        /\ pc' = [pc EXCEPT ![t] = "lookup"]
    BY <1>4 DEF TakeOrphan, At, Goto
  <2>2. TypeOK'
    BY <2>1, <1>1 DEF TypeOK, durable, Hashes, Steps
  <2>3. /\ pc'[t] = "lookup" /\ cur'[t] \in Block
        /\ \A u \in Importers \ {t} :
             pc'[u] = pc[u] /\ cur'[u] = cur[u] /\ newTd'[u] = newTd[u]
    BY <2>1, <1>1 DEF TypeOK
  <2>4. req[t] \in Block /\ req[t] \in store
    BY <2>1, <1>1 DEF ThreadInv, RequestInv
  <2> QED
    BY <2>1, <2>2, <2>3, <2>4, OwnStepKeepsIInv
<1> QED
  BY <1>2, <1>3, <1>4

\* put_block of a validated block keeps the invariant, whatever the other
\* importers have stored since the validation.
LEMMA WriteKeepsIInv ==
  ASSUME IInv, NEW t \in Importers, Write(t)
  PROVE  IInv'
<1> USE BlockAssumption
<1>1. TypeOK /\ ThreadInv /\ RequestInv /\ PhaseInv
  BY DEF IInv
<1>2. /\ pc[t] = "write" /\ pc' = [pc EXCEPT ![t] = "compare"]
      /\ PutBlock(cur[t], newTd[t])
      /\ UNCHANGED <<latest, head, known, pending, phase, req, cur, claim, newTd, answer>>
  BY DEF Write, At, Goto, volatile
<1>3. /\ cur[t] \in Block /\ Parent[cur[t]] \in store /\ Extends(cur[t])
      /\ newTd[t] = TotalDifficulty(cur[t])
  BY <1>1, <1>2 DEF ThreadInv
<1>4. /\ TreeInv' /\ WorkInv' /\ IndexInv' /\ HeadInv' /\ KnownInv'
      /\ store \subseteq store' /\ cur[t] \in store' /\ td'[cur[t]] = newTd[t]
      /\ \A c \in store : td'[c] = td[c]
      /\ store' \subseteq Block /\ td' \in [Block -> Nat] /\ index' \in [Heights -> Hashes]
  BY <1>2, <1>3, PutBlockKeepsTree
<1>5. TypeOK'
  BY <1>1, <1>2, <1>4 DEF TypeOK, Steps
<1>6. pc'[t] = "compare" /\ \A u \in Importers \ {t} : pc'[u] = pc[u]
  BY <1>1, <1>2 DEF TypeOK
<1>7. ThreadInv'
  BY <1>1, <1>2, <1>4, <1>6 DEF ThreadInv, TotalDifficulty, Extends
<1>8. RequestInv' /\ PhaseInv'
  BY <1>1, <1>2, <1>4, <1>6 DEF RequestInv, PhaseInv
<1> QED
  BY <1>4, <1>5, <1>7, <1>8 DEF IInv

\* known_blocks, the latest height and the head, for a block that is stored
LEMMA SettleKeepsIInv ==
  ASSUME IInv, NEW t \in Importers,
         Heavier(t) \/ NotHeavier(t) \/ SetLatest(t) \/ PublishHead(t)
  PROVE  IInv'
<1> USE BlockAssumption
<1>1. TypeOK /\ ThreadInv /\ RequestInv /\ PhaseInv /\ IndexInv /\ KnownInv
  BY DEF IInv
<1>2. /\ pc[t] \in {"compare", "latest", "publish"}
      /\ \E s \in {"latest", "publish", "drain"} : pc' = [pc EXCEPT ![t] = s]
      /\ UNCHANGED <<store, td, index, pending, phase, req, cur, claim, newTd, answer>>
  BY DEF Heavier, NotHeavier, SetLatest, PublishHead, At, Goto, durable, volatile
<1>3. cur[t] \in Block /\ cur[t] \in store /\ newTd[t] = td[cur[t]] /\ newTd[t] \in Nat
  BY <1>1, <1>2 DEF ThreadInv, TypeOK
<1>4. /\ pc'[t] \in {"latest", "publish", "drain"} /\ pc' \in [Importers -> Steps]
      /\ \A u \in Importers \ {t} : pc'[u] = pc[u]
  BY <1>1, <1>2 DEF TypeOK, Steps
<1>5. ThreadInv'
  BY <1>1, <1>2, <1>3, <1>4 DEF ThreadInv, TotalDifficulty
<1>6. RequestInv' /\ PhaseInv'
  BY <1>1, <1>2, <1>4 DEF RequestInv, PhaseInv
<1>7. TreeInv' /\ WorkInv'
  BY <1>2 DEF IInv, TreeInv, WorkInv, TotalDifficulty
<1>8. CASE Heavier(t) \/ NotHeavier(t)
  <2>1. known' = known \cup {cur[t]} /\ UNCHANGED <<latest, head>>
    BY <1>8 DEF Heavier, NotHeavier, durable
  <2>2. TypeOK' /\ KnownInv'
    BY <2>1, <1>1, <1>2, <1>3, <1>4 DEF TypeOK, KnownInv
  <2>3. IndexInv' /\ HeadInv'
    BY <2>1, <1>2 DEF IInv, IndexInv, HeadInv, NoHead
  <2> QED
    BY <2>2, <2>3, <1>5, <1>6, <1>7 DEF IInv
<1>9. CASE SetLatest(t)
  <2>1. latest' = Height[cur[t]] /\ UNCHANGED <<head, known>>
    BY <1>9 DEF SetLatest, volatile
  <2>2. latest' \in Heights /\ index[latest'] # NoBlock
    BY <2>1, <1>1, <1>3 DEF Heights, IndexInv
  <2>3. TypeOK' /\ KnownInv'
    BY <2>1, <2>2, <1>1, <1>2, <1>4 DEF TypeOK, KnownInv
  <2>4. IndexInv' /\ HeadInv'
    BY <2>1, <2>2, <1>2 DEF IInv, IndexInv, HeadInv, NoHead
  <2> QED
    BY <2>3, <2>4, <1>5, <1>6, <1>7 DEF IInv
<1>10. CASE PublishHead(t)
  <2>1. head' = [blk |-> cur[t], td |-> newTd[t]] /\ UNCHANGED <<latest, known>>
    BY <1>10 DEF PublishHead, durable
  <2>2. TypeOK' /\ KnownInv'
    BY <2>1, <1>1, <1>2, <1>3, <1>4 DEF TypeOK, KnownInv, Hashes
  <2>3. IndexInv' /\ HeadInv'
    BY <2>1, <1>2, <1>3 DEF IInv, IndexInv, HeadInv
  <2> QED
    BY <2>2, <2>3, <1>5, <1>6, <1>7 DEF IInv
<1> QED
  BY <1>8, <1>9, <1>10

\* Every step of the node keeps the invariant.
LEMMA NextKeepsIInv == IInv /\ [Next]_vars => IInv'
<1>1. ASSUME IInv, NEW t \in Importers, Import(t)
      PROVE  IInv'
  BY <1>1, EndKeepsIInv, MoveKeepsIInv, WriteKeepsIInv, SettleKeepsIInv DEF Import, Ends
<1>2. ASSUME IInv, UNCHANGED vars
      PROVE  IInv'
  BY <1>2 DEF vars, durable, volatile, threads, IInv, TypeOK, TreeInv, WorkInv, IndexInv, HeadInv,
     ThreadInv, RequestInv, PhaseInv, KnownInv, TotalDifficulty, NoHead
<1> QED
  BY <1>1, <1>2, StartUpKeepsIInv, StopKeepsIInv, BeginKeepsIInv DEF Next

-----------------------------------------------------------------------------

\* The invariant holds for any blocks, importers, crashes and database errors.
THEOREM IInvHolds == Spec => []IInv
<1> QED
  BY InitEstablishesIInv, NextKeepsIInv, PTL DEF Spec

\* Every variable keeps its type.
THEOREM TypeCorrect == Spec => []TypeOK
<1>1. IInv => TypeOK
  BY DEF IInv
<1> QED
  BY <1>1, IInvHolds, PTL

\* The store is always a tree of validated blocks rooted at genesis.
THEOREM TreeCorrect == Spec => []TreeInv
<1>1. IInv => TreeInv
  BY DEF IInv
<1> QED
  BY <1>1, IInvHolds, PTL

\* Recorded total difficulties are the work of the branches.
THEOREM WorkCorrect == Spec => []WorkInv
<1>1. IInv => WorkInv
  BY DEF IInv
<1> QED
  BY <1>1, IInvHolds, PTL

\* The height index and latest_height never point at nothing.
THEOREM IndexCorrect == Spec => []IndexInv
<1>1. IInv => IndexInv
  BY DEF IInv
<1> QED
  BY <1>1, IInvHolds, PTL

\* The head in memory is stored, with its true total difficulty.
THEOREM HeadCorrect == Spec => []HeadInv
<1>1. IInv => HeadInv
  BY DEF IInv
<1> QED
  BY <1>1, IInvHolds, PTL

\* A block accepted with Ok is stored or pending when the call returns.
THEOREM AcceptedCorrect == Spec => AcceptedIsKept
<1> DEFINE Kept(t) ==
      pc[t] # "idle" /\ answer'[t] = "ok" /\ pc'[t] = "idle"
        => req[t] \in store' \/ pending'[Parent[req[t]]] = req[t]
<1>1. ASSUME IInv, Next, NEW t \in Importers
      PROVE  Kept(t)
  <2> USE BlockAssumption
  <2>1. TypeOK /\ ThreadInv /\ RequestInv /\ KnownInv
    BY <1>1 DEF IInv
  <2>2. SUFFICES ASSUME pc[t] # "idle", answer'[t] = "ok", pc'[t] = "idle"
                 PROVE  req[t] \in store' \/ pending'[Parent[req[t]]] = req[t]
    OBVIOUS
  <2>3. ~StartUp
    BY <2>2 DEF StartUp, Open, InitSkipped, InitRefused, PutGenesis, SetGenesisHeight,
         PublishGenesis, threads
  <2>4. ~Stop
    BY <2>2 DEF Stop, Everywhere
  <2>5. PICK u \in Importers : Import(u) \/ \E b \in Block, c \in BOOLEAN : Begin(u, b, c)
    BY <2>3, <2>4, <1>1 DEF Next
  <2>6. u = t /\ Import(t)
    BY <2>1, <2>2, <2>5 DEF TypeOK, Import, AlreadyKnown, Unknown, MissingParent, Stash, Reject,
         Validate, Write, Heavier, NotHeavier, SetLatest, PublishHead, NoOrphan, TakeOrphan,
         DropOrphan, DatabaseError, Begin, Return, Goto
  <2>7. AlreadyKnown(t) \/ Stash(t) \/ NoOrphan(t)
    BY <2>1, <2>2, <2>6 DEF TypeOK, Import, AlreadyKnown, Unknown, MissingParent, Stash, Reject,
         Validate, Write, Heavier, NotHeavier, SetLatest, PublishHead, NoOrphan, TakeOrphan,
         DropOrphan, DatabaseError, Return, Goto
  <2>8. req[t] = cur[t] \/ req[t] \in store
    BY <2>1, <2>2 DEF RequestInv
  <2>9. CASE AlreadyKnown(t)
    BY <2>9, <2>8, <2>1 DEF AlreadyKnown, HasBlock, KnownInv, durable
  <2>10. CASE Stash(t)
    <3>1. cur[t] \in Block
      BY <2>1, <2>2 DEF ThreadInv
    <3>2. pending' = [pending EXCEPT ![Parent[cur[t]]] = cur[t]] /\ store' = store
      BY <2>10 DEF Stash, durable
    <3> QED
      BY <3>1, <3>2, <2>8, <2>1 DEF TypeOK, Hashes
  <2>11. CASE NoOrphan(t)
    BY <2>11, <2>8, <2>1 DEF NoOrphan, At, ThreadInv, durable
  <2> QED
    BY <2>7, <2>9, <2>10, <2>11
<1>2. IInv /\ [Next]_vars => [\A t \in Importers : Kept(t)]_vars
  BY <1>1
<1> QED
  BY <1>2, IInvHolds, PTL DEF Spec, AcceptedIsKept

-----------------------------------------------------------------------------
(***************************************************************************)
(* Fork choice, by one importer that nothing interrupts.                   *)
(***************************************************************************)

\* The theorems below are about one importer that nothing interrupts.
Alone == (\E t : Importers = {t}) /\ ~CrashAllowed /\ ~FaultAllowed

\* Start-up happens once, on an empty store.
StartInv ==
  /\ phase \in {"down", "opened"} => store = {} /\ latest = NoHeight /\ index[0] = NoBlock
  /\ phase \in {"genesisStored", "genesisLatest"} => store = {Genesis}
  /\ phase = "genesisLatest" => latest = 0
  /\ phase # "running" => /\ head = NoHead
                          /\ \A t \in Importers : pc[t] = "idle"
                          /\ \A h \in Hashes : pending[h] = NoBlock
  /\ phase # "failed"

\* The head weighs at least as much as every block whose import is settled.
ForkInv ==
  phase = "running" =>
    /\ Genesis \in store /\ head.blk \in Settled
    /\ \A b \in Settled : td[b] <= head.td

\* What the importer knows: the block it works on is new until it is stored,
\* and heavier than the head once it was found so.
ImportInv ==
  \A t \in Importers :
    /\ pc[t] \in {"parent", "stash", "write"} => cur[t] \notin store
    /\ pc[t] = "stash" => Parent[cur[t]] \notin store
    /\ pc[t] \in {"compare", "latest", "publish"} => cur[t] # Genesis
    /\ pc[t] \in {"latest", "publish"} => newTd[t] > head.td
    /\ phase = "running" =>
         latest = IF pc[t] = "publish" THEN Height[cur[t]] ELSE Height[head.blk]

\* Nothing waits for a stored block, but for the one whose import goes on.
WaitInv ==
  \A b \in store :
    pending[b] # NoBlock =>
      \E t \in Importers : pc[t] \in {"compare", "latest", "publish", "drain"} /\ cur[t] = b
FInv == StartInv /\ ForkInv /\ ImportInv /\ WaitInv

\* The steps at which the block of an importer is stored and not settled
Settling == {"compare", "latest", "publish"}

-----------------------------------------------------------------------------

\* While the node runs, at most the block of its one importer is not settled.
LEMMA SettledIs ==
  ASSUME NEW t \in Importers, Importers = {t}
  PROVE  /\ phase = "running" =>
              Settled = IF pc[t] \in Settling THEN store \ {cur[t]} ELSE store
         /\ phase' = "running" =>
              Settled' = IF pc'[t] \in Settling THEN store' \ {cur'[t]} ELSE store'
BY DEF Settled, Unsettled, Settling

\* The node starts on an empty store.
LEMMA InitEstablishesFInv == Init => FInv
BY BlockAssumption DEF Init, FInv, StartInv, ForkInv, ImportInv, WaitInv, Everywhere, Heights

\* Start-up writes genesis and makes it the head; it has no other way to end.
LEMMA StartUpKeepsFInv ==
  ASSUME Alone, IInv, FInv, StartUp
  PROVE  FInv'
<1> USE BlockAssumption
<1>1. phase # "running" /\ head = NoHead /\ HeadHeight = 0 /\ Genesis \in Hashes
      /\ \A t \in Importers : pc[t] = "idle"
      /\ \A h \in Hashes : pending[h] = NoBlock
  BY DEF FInv, StartInv, StartUp, Open, InitSkipped, InitRefused, PutGenesis, SetGenesisHeight,
         PublishGenesis, HeadHeight, NoHead, Hashes
<1>2. ~InitSkipped /\ ~InitRefused
  BY <1>1 DEF InitSkipped, InitRefused, FInv, StartInv
<1>3. CASE Open
  <2>1. LoadedHead = NoHead
    BY <1>3 DEF LoadedHead, Open, FInv, StartInv, Heights
  <2> QED
    BY <1>1, <1>3, <2>1 DEF Open, durable, threads, FInv, StartInv, ForkInv, ImportInv, WaitInv
<1>4. CASE PutGenesis
  <2>1. store' = {Genesis} /\ phase' = "genesisStored" /\ UNCHANGED <<head, pending, pc>>
    BY <1>4 DEF PutGenesis, PutBlock, volatile, threads, FInv, StartInv
  <2> QED
    BY <1>1, <2>1 DEF FInv, StartInv, ForkInv, ImportInv, WaitInv
<1>5. CASE SetGenesisHeight
  BY <1>1, <1>5 DEF SetGenesisHeight, volatile, threads, FInv, StartInv, ForkInv, ImportInv, WaitInv
<1>6. CASE PublishGenesis
  <2>1. /\ store = {Genesis} /\ latest = 0 /\ td[Genesis] = Work[Genesis] /\ Work[Genesis] \in Nat
        /\ head' = [blk |-> Genesis, td |-> Work[Genesis]] /\ phase' = "running"
        /\ UNCHANGED <<store, td, latest, pending, pc>>
    BY <1>6 DEF PublishGenesis, durable, threads, FInv, StartInv, IInv, WorkInv
  <2>2. Settled' = {Genesis}
    BY <1>1, <2>1 DEF Settled, Unsettled
  <2> QED
    BY <1>1, <2>1, <2>2 DEF FInv, StartInv, ForkInv, ImportInv, WaitInv
<1> QED
  BY <1>2, <1>3, <1>4, <1>5, <1>6 DEF StartUp

\* A step of the importer that stores and settles nothing
LEMMA QuietKeepsFInv ==
  ASSUME FInv, NEW t \in Importers, Importers = {t}, phase = "running",
         UNCHANGED <<durable, head, phase>>,
         pc[t] \notin Settling, pc'[t] \notin Settling,
         pc'[t] \in {"parent", "stash", "write"} => cur'[t] \notin store,
         pc'[t] = "stash" => Parent[cur'[t]] \notin store,
         \A b \in store : pending'[b] # NoBlock => pc'[t] = "drain" /\ cur'[t] = b
  PROVE  FInv'
<1>1. Settled' = Settled
  BY SettledIs DEF durable
<1>2. StartInv' /\ ForkInv'
  BY <1>1 DEF FInv, StartInv, ForkInv, durable
<1>3. ImportInv' /\ WaitInv'
  BY DEF FInv, ImportInv, WaitInv, durable, Settling
<1> QED
  BY <1>2, <1>3 DEF FInv

\* A call that begins, goes on to its parent, returns, or takes an orphan
LEMMA CallKeepsFInv ==
  ASSUME Alone, IInv, FInv, NEW t \in Importers, Importers = {t},
         \/ \E b \in Block, c \in BOOLEAN : Begin(t, b, c)
         \/ Ends(t) \/ Unknown(t) \/ MissingParent(t) \/ Validate(t) \/ TakeOrphan(t)
  PROVE  FInv'
<1> USE BlockAssumption
<1>1. TypeOK /\ ThreadInv /\ KnownInv /\ ImportInv /\ WaitInv /\ ~FaultAllowed
  BY DEF IInv, FInv, Alone
<1>2. ~DatabaseError(t)
  BY <1>1 DEF DatabaseError
\* What waits for stored blocks before the step
<1>3. \A b \in store : pending[b] # NoBlock =>
        pc[t] \in {"compare", "latest", "publish", "drain"} /\ cur[t] = b
  BY <1>1 DEF WaitInv
<1>4. CASE \E b \in Block, c \in BOOLEAN : Begin(t, b, c)
  <2>1. /\ phase = "running" /\ pc[t] = "idle" /\ pc'[t] = "lookup"
        /\ UNCHANGED <<durable, head, phase, pending>>
    BY <1>1, <1>4 DEF Begin, At, Goto, TypeOK, volatile
  <2> QED
    BY <1>3, <2>1, QuietKeepsFInv DEF Settling
<1>5. CASE Unknown(t) \/ MissingParent(t) \/ Validate(t)
  <2>1. /\ phase = "running" /\ pc[t] \in {"lookup", "parent"} /\ pc'[t] \in {"parent", "stash", "write"}
        /\ pc'[t] = "stash" => Parent[cur[t]] \notin store
        /\ UNCHANGED <<durable, head, phase, pending, cur>>
    BY <1>1, <1>5 DEF Unknown, MissingParent, Validate, At, Goto, TypeOK, volatile
  <2>2. cur[t] \notin store
    BY <1>1, <1>5 DEF Unknown, MissingParent, Validate, At, HasBlock, ImportInv
  <2> QED
    BY <1>3, <2>1, <2>2, QuietKeepsFInv DEF Settling
<1>6. CASE AlreadyKnown(t) \/ Reject(t)
  <2>1. /\ phase = "running" /\ pc[t] \in {"lookup", "parent"} /\ pc'[t] = "idle"
        /\ UNCHANGED <<durable, head, phase, pending>>
    BY <1>1, <1>6 DEF AlreadyKnown, Reject, At, Goto, Return, TypeOK, volatile
  <2> QED
    BY <1>3, <2>1, QuietKeepsFInv DEF Settling
<1>7. CASE Stash(t)
  <2>1. /\ phase = "running" /\ pc[t] = "stash" /\ pc'[t] = "idle"
        /\ pending' = [pending EXCEPT ![Parent[cur[t]]] = cur[t]]
        /\ UNCHANGED <<durable, head, phase>>
    BY <1>1, <1>7 DEF Stash, At, Goto, Return, TypeOK
  <2>2. Parent[cur[t]] \notin store /\ store \subseteq Hashes
    BY <1>1, <2>1 DEF ImportInv, TypeOK, Hashes
  <2>3. \A b \in store : pending'[b] = NoBlock
    BY <1>1, <1>3, <2>1, <2>2 DEF TypeOK
  <2> QED
    BY <2>1, <2>3, QuietKeepsFInv DEF Settling
<1>8. CASE NoOrphan(t)
  <2>1. /\ phase = "running" /\ pc[t] = "drain" /\ pc'[t] = "idle" /\ pending[cur[t]] = NoBlock
        /\ UNCHANGED <<durable, head, phase, pending>>
    BY <1>1, <1>8 DEF NoOrphan, At, Goto, Return, TypeOK, volatile
  <2> QED
    BY <1>3, <2>1, QuietKeepsFInv DEF Settling
<1>9. CASE TakeOrphan(t) \/ DropOrphan(t)
  <2>1. /\ phase = "running" /\ pc[t] = "drain" /\ pc'[t] \in {"lookup", "idle"}
        /\ pending' = [pending EXCEPT ![cur[t]] = NoBlock]
        /\ UNCHANGED <<durable, head, phase>>
    BY <1>1, <1>9 DEF TakeOrphan, DropOrphan, At, Goto, Return, TypeOK
  <2>2. \A b \in store : pending'[b] = NoBlock
    BY <1>1, <1>3, <2>1 DEF TypeOK, Hashes
  <2> QED
    BY <2>1, <2>2, QuietKeepsFInv DEF Settling
<1> QED
  BY <1>2, <1>4, <1>5, <1>6, <1>7, <1>8, <1>9 DEF Ends

\* put_block of a new block, which is not settled yet
LEMMA WriteEffect ==
  ASSUME IInv, FInv, NEW t \in Importers, Importers = {t}, Write(t)
  PROVE  /\ phase = "running" /\ phase' = "running" /\ pc[t] = "write" /\ pc'[t] = "compare"
         /\ cur[t] \in Block /\ cur[t] \notin store /\ store' = store \cup {cur[t]}
         /\ \A b \in store : td'[b] = td[b]
         /\ Settled' = Settled /\ Settled = store
         /\ \A b \in Settled : td'[b] = td[b]
         /\ UNCHANGED <<latest, head, pending, cur, newTd>>
<1>1. TypeOK /\ ThreadInv /\ ImportInv
  BY DEF IInv, FInv
<1>2. /\ phase = "running" /\ phase' = "running" /\ pc[t] = "write" /\ pc'[t] = "compare"
      /\ cur[t] \in Block /\ cur[t] \notin store /\ store' = store \cup {cur[t]}
      /\ td' = [td EXCEPT ![cur[t]] = newTd[t]]
      /\ UNCHANGED <<latest, head, pending, cur, newTd>>
  BY <1>1 DEF Write, At, Goto, PutBlock, TypeOK, ThreadInv, ImportInv, volatile
<1>3. Settled' = Settled /\ Settled = store
  BY <1>2, SettledIs DEF Settling
<1>4. \A b \in store : td'[b] = td[b]
  BY <1>1, <1>2 DEF TypeOK
<1>5. \A b \in Settled : td'[b] = td[b]
  <2>1. Settled \subseteq store
    BY DEF Settled
  <2> QED
    BY <1>4, <2>1
<1> QED
  BY <1>2, <1>3, <1>4, <1>5

\* put_block: the new block is not settled yet, and no orphan but its own waits for it.
LEMMA WriteKeepsFInv ==
  ASSUME IInv, FInv, NEW t \in Importers, Importers = {t}, Write(t)
  PROVE  FInv'
<1>1. /\ phase = "running" /\ phase' = "running" /\ pc[t] = "write" /\ pc'[t] = "compare"
      /\ cur[t] \in Block /\ cur[t] \notin store /\ store' = store \cup {cur[t]}
      /\ \A b \in store : td'[b] = td[b]
      /\ Settled' = Settled /\ Settled = store
      /\ UNCHANGED <<latest, head, pending, cur, newTd>>
  BY WriteEffect
<1>2. StartInv' /\ ForkInv'
  BY <1>1 DEF FInv, StartInv, ForkInv
<1>3. ImportInv' /\ WaitInv'
  BY <1>1 DEF FInv, ForkInv, ImportInv, WaitInv
<1> QED
  BY <1>2, <1>3 DEF FInv

\* The fork choice: what is known before each of its steps
LEMMA ChoiceFacts ==
  ASSUME IInv, FInv, NEW t \in Importers, Importers = {t},
         Heavier(t) \/ NotHeavier(t) \/ SetLatest(t) \/ PublishHead(t)
  PROVE  /\ phase = "running" /\ phase' = "running" /\ pc[t] \in Settling
         /\ cur[t] \in store /\ cur[t] # Genesis /\ newTd[t] = td[cur[t]] /\ newTd[t] \in Nat
         /\ Settled = store \ {cur[t]} /\ head.td \in Nat /\ \A b \in store : td[b] \in Nat
         /\ UNCHANGED <<store, td, pending, cur, newTd>>
<1>1. TypeOK /\ ThreadInv /\ ImportInv
  BY DEF IInv, FInv
<1>2. /\ phase = "running" /\ phase' = "running" /\ pc[t] \in Settling
      /\ UNCHANGED <<store, td, pending, cur, newTd>>
  BY DEF Heavier, NotHeavier, SetLatest, PublishHead, At, durable, volatile, Settling
<1>3. /\ cur[t] \in store /\ cur[t] # Genesis /\ newTd[t] = td[cur[t]] /\ newTd[t] \in Nat
      /\ head.td \in Nat /\ \A b \in store : td[b] \in Nat
  BY <1>1, <1>2 DEF ThreadInv, ImportInv, TypeOK, Settling
<1>4. Settled = store \ {cur[t]}
  BY <1>2, SettledIs
<1> QED
  BY <1>2, <1>3, <1>4

\* The fork choice settles the block: the head is heavier, or is moved to it.
LEMMA ChoiceKeepsFInv ==
  ASSUME IInv, FInv, NEW t \in Importers, Importers = {t},
         Heavier(t) \/ NotHeavier(t) \/ SetLatest(t) \/ PublishHead(t)
  PROVE  FInv'
<1>1. /\ phase = "running" /\ phase' = "running" /\ pc[t] \in Settling
      /\ cur[t] \in store /\ cur[t] # Genesis /\ newTd[t] = td[cur[t]] /\ newTd[t] \in Nat
      /\ Settled = store \ {cur[t]} /\ head.td \in Nat /\ \A b \in store : td[b] \in Nat
      /\ UNCHANGED <<store, td, pending, cur, newTd>>
  BY ChoiceFacts
<1>2. StartInv'
  BY <1>1 DEF FInv, StartInv
<1>3. pc \in [Importers -> Steps] /\ TypeOK
  BY DEF IInv, TypeOK
<1>4. WaitInv'
  <2>1. pc'[t] \in {"compare", "latest", "publish", "drain"}
    BY <1>3 DEF Heavier, NotHeavier, SetLatest, PublishHead, Goto
  <2> QED
    BY <1>1, <2>1 DEF FInv, WaitInv
<1>5. CASE Heavier(t) \/ SetLatest(t)
  <2>1. /\ pc'[t] \in {"latest", "publish"} /\ UNCHANGED head
        /\ newTd[t] > head.td
        /\ latest' = IF pc'[t] = "publish" THEN Height[cur[t]] ELSE latest
        /\ pc[t] # "publish"
    BY <1>3, <1>5 DEF Heavier, SetLatest, At, Goto, IsHeavier, volatile, durable, FInv, ImportInv
  <2>2. Settled' = Settled
    BY <1>1, <2>1, SettledIs DEF Settling
  <2>3. ForkInv'
    BY <1>1, <2>1, <2>2 DEF FInv, ForkInv
  <2>4. ImportInv'
    BY <1>1, <2>1 DEF FInv, ImportInv
  <2> QED
    BY <1>2, <1>4, <2>3, <2>4 DEF FInv
<1>6. CASE NotHeavier(t)
  <2>1. /\ pc[t] = "compare" /\ pc'[t] = "drain" /\ ~(newTd[t] > head.td) /\ UNCHANGED <<head, latest>>
    BY <1>3, <1>6 DEF NotHeavier, At, Goto, IsHeavier, durable
  <2>2. Settled' = store
    BY <1>1, <2>1, SettledIs DEF Settling
  <2>3. ForkInv'
    BY <1>1, <2>1, <2>2 DEF FInv, ForkInv
  <2>4. ImportInv'
    BY <1>1, <2>1 DEF FInv, ImportInv
  <2> QED
    BY <1>2, <1>4, <2>3, <2>4 DEF FInv
<1>7. CASE PublishHead(t)
  <2>1. /\ pc[t] = "publish" /\ pc'[t] = "drain" /\ head' = [blk |-> cur[t], td |-> newTd[t]]
        /\ UNCHANGED latest
    BY <1>3, <1>7 DEF PublishHead, At, Goto, durable
  <2>2. Settled' = store
    BY <1>1, <2>1, SettledIs DEF Settling
  <2>3. newTd[t] > head.td /\ latest = Height[cur[t]]
    BY <1>1, <2>1 DEF FInv, ImportInv
  <2>4. ForkInv'
    <3>1. \A b \in store : td[b] <= newTd[t]
      BY <1>1, <2>3 DEF FInv, ForkInv
    <3> QED
      BY <1>1, <2>1, <2>2, <3>1 DEF FInv, ForkInv
  <2>5. ImportInv'
    BY <1>1, <2>1, <2>3 DEF FInv, ImportInv
  <2> QED
    BY <1>2, <1>4, <2>4, <2>5 DEF FInv
<1> QED
  BY <1>5, <1>6, <1>7

\* Every step of one importer that nothing interrupts keeps the invariant.
LEMMA NextKeepsFInv ==
  ASSUME Alone
  PROVE  IInv /\ FInv /\ [Next]_vars => FInv'
<1> SUFFICES ASSUME IInv, FInv, [Next]_vars PROVE FInv'
  OBVIOUS
<1>1. PICK t : Importers = {t}
  BY DEF Alone
<1>2. CASE UNCHANGED vars
  BY <1>2 DEF vars, durable, volatile, threads, FInv, StartInv, ForkInv, ImportInv, WaitInv,
     Settled, Unsettled
<1>3. ~Stop
  BY DEF Stop, Alone
<1>4. CASE StartUp
  BY <1>4, StartUpKeepsFInv
<1>5. CASE Import(t) \/ \E b \in Block, c \in BOOLEAN : Begin(t, b, c)
  BY <1>1, <1>5, CallKeepsFInv, WriteKeepsFInv, ChoiceKeepsFInv DEF Import, Ends
<1> QED
  BY <1>1, <1>2, <1>3, <1>4, <1>5 DEF Next

\* The invariant of both modules holds for one importer that nothing interrupts.
THEOREM FInvHolds == ASSUME Alone PROVE Spec => [](IInv /\ FInv)
<1> QED
  BY InitEstablishesIInv, NextKeepsIInv, InitEstablishesFInv, NextKeepsFInv, PTL DEF Spec

\* Between imports no stored block is heavier than the head (import_block, set_head).
THEOREM HeadHeaviestCorrect == ASSUME Alone PROVE Spec => []HeadHeaviest
<1>1. IInv /\ FInv => HeadHeaviest
  <2> SUFFICES ASSUME FInv, Quiet, NEW b \in store PROVE td[b] <= head.td
    BY DEF HeadHeaviest
  <2>1. b \in Settled
    BY DEF Quiet, Settled, Unsettled
  <2> QED
    BY <2>1 DEF Quiet, FInv, ForkInv
<1> QED
  BY <1>1, FInvHolds, PTL

\* Between imports nothing waits for a block that is stored (process_pending_blocks).
THEOREM OrphansServedCorrect == ASSUME Alone PROVE Spec => []OrphansServed
<1>1. IInv /\ FInv => OrphansServed
  BY DEF FInv, WaitInv, OrphansServed, Quiet
<1> QED
  BY <1>1, FInvHolds, PTL

\* Between imports the durable latest_height is the height of the head (set_head).
THEOREM LatestIsHeadCorrect == ASSUME Alone PROVE Spec => []LatestIsHead
<1>1. IInv /\ FInv => LatestIsHead
  BY DEF FInv, ImportInv, LatestIsHead, Quiet, Alone
<1> QED
  BY <1>1, FInvHolds, PTL

\* A head is only ever replaced by a strictly heavier one.
THEOREM HeadOnlyImprovesCorrect == ASSUME Alone PROVE Spec => HeadOnlyImproves
<1>1. IInv /\ FInv /\ [Next]_vars =>
        [phase = "running" /\ phase' = "running" /\ head' # head => head'.td > head.td]_vars
  <2> SUFFICES ASSUME FInv, Next, phase = "running", phase' = "running", head' # head
               PROVE  head'.td > head.td
    OBVIOUS
  <2>1. ~StartUp /\ ~Stop
    BY DEF StartUp, Open, InitSkipped, InitRefused, PutGenesis, SetGenesisHeight, PublishGenesis, Stop
  <2>2. PICK t \in Importers : PublishHead(t)
    BY <2>1 DEF Next, Import, Begin, AlreadyKnown, Unknown, MissingParent, Stash, Reject, Validate,
       Write, Heavier, NotHeavier, SetLatest, NoOrphan, TakeOrphan, DropOrphan, DatabaseError, volatile
  <2> QED
    BY <2>2 DEF PublishHead, At, FInv, ImportInv
<1> QED
  BY <1>1, FInvHolds, PTL DEF Spec, HeadOnlyImproves

-----------------------------------------------------------------------------
\* The refinement: what HeaviestChain's variables stand for, and its steps.

\* Nothing HeaviestChain shows has moved
LEMMA Stutters ==
  ASSUME Settled' = Settled, \A b \in Settled : td'[b] = td[b], head'.blk = head.blk
  PROVE  UNCHANGED Promise!hvars
BY DEF Promise!hvars

\* A block joins the tree when its import settles the fork choice.
LEMMA SettlingGrows ==
  ASSUME IInv, FInv, NEW t \in Importers, Importers = {t}, NotHeavier(t) \/ PublishHead(t)
  PROVE  Promise!HNext
<1> USE BlockAssumption
<1>1. /\ phase = "running" /\ phase' = "running" /\ pc[t] \in Settling
      /\ cur[t] \in store /\ cur[t] # Genesis /\ newTd[t] = td[cur[t]] /\ newTd[t] \in Nat
      /\ Settled = store \ {cur[t]} /\ head.td \in Nat /\ \A b \in store : td[b] \in Nat
      /\ UNCHANGED <<store, td, pending, cur, newTd>>
  BY ChoiceFacts
<1>2. TypeOK /\ TreeInv /\ WorkInv /\ HeadInv /\ ForkInv /\ ImportInv
  BY DEF IInv, FInv
<1>3. cur[t] \in Block /\ NoBlock \notin Block
  BY <1>1, <1>2 DEF TypeOK
<1>4. /\ pc'[t] = "drain"
      /\ head'.blk = IF newTd[t] > head.td THEN cur[t] ELSE head.blk
  BY <1>1, <1>2 DEF NotHeavier, PublishHead, At, Goto, IsHeavier, ImportInv, TypeOK
<1>5. Settled' = store
  BY <1>1, <1>4, SettledIs DEF Settling
<1>6. /\ Parent[cur[t]] \in store /\ Height[cur[t]] = Height[Parent[cur[t]]] + 1
      /\ cur[t] \in Sound /\ td[cur[t]] = (td[Parent[cur[t]]] + Work[cur[t]]) % TDModulus
  BY <1>1, <1>2 DEF TreeInv, WorkInv
<1>7. Parent[cur[t]] \in Settled
  <2>1. Parent[cur[t]] \in Block
    BY <1>2, <1>6 DEF TypeOK
  <2>2. Parent[cur[t]] # cur[t]
    BY <1>3, <1>6, <2>1
  <2> QED
    BY <1>1, <1>6, <2>2
<1>8. head.blk \in Settled /\ head.blk \in Block /\ head.td = td[head.blk]
  BY <1>1, <1>2, <1>3 DEF ForkInv, HeadInv, NoHead, TypeOK
<1> DEFINE W == [b \in Block |-> IF b \in Settled THEN td[b] ELSE 0]
<1>9. W' = [W EXCEPT ![cur[t]] = (W[Parent[cur[t]]] + Work[cur[t]]) % TDModulus]
  <2>1. W[Parent[cur[t]]] = td[Parent[cur[t]]]
    BY <1>2, <1>6, <1>7 DEF TypeOK
  <2>2. \A b \in Block : W'[b] = IF b = cur[t] THEN td[cur[t]] ELSE W[b]
    BY <1>1, <1>5
  <2> QED
    BY <1>6, <2>1, <2>2
<1>10. head'.blk = IF W'[cur[t]] > W[head.blk] THEN cur[t] ELSE head.blk
  BY <1>1, <1>3, <1>4, <1>5, <1>8
<1>11. Settled' = Settled \cup {cur[t]} /\ cur[t] \notin Settled
  BY <1>1, <1>5
<1> QED
  BY <1>3, <1>6, <1>7, <1>9, <1>10, <1>11 DEF Promise!HNext, Promise!Grow

\* Start-up shows an empty tree until it publishes genesis.
LEMMA StartUpRefines ==
  ASSUME IInv, FInv, StartUp
  PROVE  [Promise!HNext]_Promise!hvars
<1> USE BlockAssumption
<1>1. phase # "running" /\ head = NoHead /\ HeadHeight = 0 /\ Genesis \in Block
      /\ \A t \in Importers : pc[t] = "idle"
  BY DEF FInv, StartInv, StartUp, Open, InitSkipped, InitRefused, PutGenesis, SetGenesisHeight,
         PublishGenesis, HeadHeight, NoHead
<1>2. ~InitSkipped /\ ~InitRefused
  BY <1>1 DEF InitSkipped, InitRefused, FInv, StartInv
<1>3. Settled = {}
  BY <1>1 DEF Settled, Unsettled, FInv, StartInv, StartUp, Open, InitSkipped, InitRefused,
         PutGenesis, SetGenesisHeight, PublishGenesis
<1>4. CASE Open \/ PutGenesis \/ SetGenesisHeight
  <2>1. head' = NoHead /\ pc' = pc
    BY <1>1, <1>4 DEF Open, PutGenesis, SetGenesisHeight, LoadedHead, volatile, threads,
       FInv, StartInv, Heights
  <2>2. Settled' = {}
    BY <1>1, <1>4, <2>1 DEF Open, PutGenesis, SetGenesisHeight, PutBlock, Settled, Unsettled,
       durable, FInv, StartInv
  <2> QED
    BY <1>1, <1>3, <2>1, <2>2, Stutters
<1>5. CASE PublishGenesis
  <2>1. /\ store = {Genesis} /\ td[Genesis] = Work[Genesis] /\ pc' = pc
        /\ head'.blk = Genesis /\ phase' = "running" /\ UNCHANGED <<store, td>>
    BY <1>5 DEF PublishGenesis, durable, threads, FInv, StartInv, IInv, WorkInv
  <2>2. Settled' = {Genesis}
    BY <1>1, <2>1 DEF Settled, Unsettled
  <2> DEFINE W == [b \in Block |-> IF b \in Settled THEN td[b] ELSE 0]
  <2>3. W' = [W EXCEPT ![Genesis] = Work[Genesis]]
    BY <1>1, <1>3, <2>1, <2>2
  <2> QED
    BY <1>3, <2>1, <2>2, <2>3 DEF Promise!HNext, Promise!Start
<1> QED
  BY <1>2, <1>4, <1>5 DEF StartUp

\* Every step of one importer is a step of HeaviestChain, or shows nothing.
LEMMA StepRefines ==
  ASSUME Alone, IInv, FInv, [Next]_vars
  PROVE  [Promise!HNext]_Promise!hvars
<1>1. PICK t : Importers = {t}
  BY DEF Alone
<1>2. TypeOK /\ ~FaultAllowed
  BY DEF IInv, Alone
<1>3. CASE UNCHANGED vars
  <2>1. Settled' = Settled
    BY <1>3 DEF vars, durable, volatile, threads, Settled, Unsettled
  <2> QED
    BY <1>3, <2>1, Stutters DEF vars, durable, volatile
<1>4. CASE StartUp
  BY <1>4, StartUpRefines
<1>5. CASE NotHeavier(t) \/ PublishHead(t)
  BY <1>1, <1>5, SettlingGrows
<1>6. CASE Write(t)
  <2>1. /\ Settled' = Settled /\ head' = head
        /\ \A b \in Settled : td'[b] = td[b]
    BY <1>1, <1>6, WriteEffect
  <2> QED
    BY <2>1, Stutters
<1>7. CASE Heavier(t) \/ SetLatest(t)
  <2>1. /\ phase = "running" /\ phase' = "running" /\ pc[t] \in Settling /\ pc'[t] \in Settling
        /\ UNCHANGED <<store, td, head, cur>>
    BY <1>2, <1>7 DEF Heavier, SetLatest, At, Goto, TypeOK, Settling, durable, volatile
  <2> QED
    BY <1>1, <2>1, SettledIs, Stutters
<1>8. CASE \/ \E b \in Block, c \in BOOLEAN : Begin(t, b, c)
           \/ Ends(t) \/ Unknown(t) \/ MissingParent(t) \/ Validate(t) \/ TakeOrphan(t)
  <2>1. /\ phase = "running" /\ phase' = "running" /\ pc[t] \notin Settling /\ pc'[t] \notin Settling
        /\ UNCHANGED <<store, td, head>>
    BY <1>2, <1>8 DEF Begin, Ends, Unknown, MissingParent, Validate, TakeOrphan, AlreadyKnown, Stash,
       Reject, NoOrphan, DropOrphan, DatabaseError, At, Goto, Return, TypeOK, Settling, durable, volatile
  <2> QED
    BY <1>1, <2>1, SettledIs, Stutters
<1>9. ~Stop
  BY DEF Stop, Alone
<1> QED
  BY <1>1, <1>3, <1>4, <1>5, <1>6, <1>7, <1>8, <1>9 DEF Next, Import, Ends

\* One importer that nothing interrupts implements the heaviest-chain store,
\* whatever the tree of blocks (import_block, set_head, init_genesis).
THEOREM RefinementCorrect == ASSUME Alone PROVE Spec => ImplementsHeaviestChain
<1>1. Init => Promise!HInit
  BY DEF Init, Promise!HInit, Settled, NoHead
<1>2. Alone /\ IInv /\ FInv /\ [Next]_vars => [Promise!HNext]_Promise!hvars
  BY StepRefines
<1> QED
  BY <1>1, <1>2, FInvHolds, PTL DEF Spec, ImplementsHeaviestChain, Promise!HSpec

=============================================================================
