------------------------------ MODULE Blockchain ------------------------------
(***************************************************************************)
(* The chain manager of a FryChain node: consensus/chain.rs (Blockchain)   *)
(* over storage/chain.rs (ChainStore), with the start-up of node/node.rs.  *)
(*                                                                         *)
(* A Blockchain is shared by reference between threads and import_block    *)
(* holds no lock from one of its steps to the next, so every access to     *)
(* shared state is a step of its own here.  A put_block is one step: it is *)
(* one atomic RocksDB batch.  A block is named by its hash, and a hash     *)
(* names one block: its parent, height and difficulty are constants.       *)
(***************************************************************************)
EXTENDS Naturals, FiniteSets

CONSTANTS
  Block,        \* the blocks (by hash) anyone may hand to the node
  Genesis,      \* the block Block::genesis builds
  NoBlock,      \* the zero hash, and the absence of a block
  NoHeight,     \* the absence of the "latest_height" record
  Parent,       \* Parent[b]: parent_hash of the header of b
  Height,       \* Height[b]: height of the header of b
  Work,         \* Work[b]: difficulty of the header of b
  Sound,        \* the blocks whose body, timestamp order, gas and sizes pass
  Drifting,     \* the blocks dated ahead: the clock decides whether they pass
  Mined,        \* the blocks whose own PoW hash meets their own target
  Importers,    \* the threads that call import_block
  TDModulus,    \* 2^128 in the code: total difficulty is a u128
  CrashAllowed, \* whether the process may stop at any point
  FaultAllowed  \* whether a database operation may return an error

ASSUME BlockAssumption ==
  /\ Genesis \in Block /\ NoBlock \notin Block
  /\ Parent \in [Block -> Block \cup {NoBlock}] /\ Parent[Genesis] = NoBlock
  /\ Height \in [Block -> Nat] /\ Height[Genesis] = 0
  /\ NoHeight \notin Nat
  /\ Work \in [Block -> Nat] /\ Work[Genesis] < TDModulus
  /\ Sound \subseteq Block /\ Drifting \subseteq Block /\ Mined \subseteq Block
  /\ TDModulus \in Nat \ {0}
  /\ CrashAllowed \in BOOLEAN /\ FaultAllowed \in BOOLEAN

VARIABLES
  store,    \* durable: hashes with a header, a body and metadata
  td,       \* durable: total difficulty in the metadata, 0 where there is none
  index,    \* durable: HEIGHT_TO_HASH
  latest,   \* durable: the latest_height record
  head,     \* volatile: the head StoredBlock (its hash and total difficulty)
  known,    \* volatile: known_blocks
  pending,  \* volatile: pending_blocks, keyed by the hash of the parent
  phase,    \* how far the process has started
  pc,       \* where each importer is in import_block
  req,      \* the block its caller handed to it
  cur,      \* the block it works on: req, or an orphan it picked up since
  claim,    \* whether the PoW hash that came with cur meets cur's target
  newTd,    \* the total difficulty computed for cur
  answer    \* what the last call of the importer returned

durable  == <<store, td, index, latest>>
volatile == <<head, known, pending>>
threads  == <<pc, req, cur, claim, newTd, answer>>
vars     == <<durable, volatile, phase, threads>>

Heights == {Height[b] : b \in Block}
Hashes  == Block \cup {NoBlock}
NoHead  == [blk |-> NoBlock, td |-> 0]

Phases == {"down", "opened", "genesisStored", "genesisLatest", "running", "failed"}
Steps  == {"idle", "lookup", "parent", "stash", "write", "compare", "latest", "publish", "drain"}
Answers == {"none", "ok", "err"}

TypeOK ==
  /\ store \subseteq Block
  /\ td \in [Block -> Nat]
  /\ index \in [Heights -> Hashes]
  /\ latest \in Heights \cup {NoHeight}
  /\ head \in [blk : Hashes, td : Nat]
  /\ known \subseteq Block
  /\ pending \in [Hashes -> Hashes]
  /\ phase \in Phases
  /\ pc \in [Importers -> Steps]
  /\ req \in [Importers -> Hashes]
  /\ cur \in [Importers -> Hashes]
  /\ claim \in [Importers -> BOOLEAN]
  /\ newTd \in [Importers -> Nat]
  /\ answer \in [Importers -> Answers]

-----------------------------------------------------------------------------
(***************************************************************************)
(* Reads and writes of the chain store.                                    *)
(***************************************************************************)

\* has_block; a read of the store that fails counts as "not there"
HasBlock(b) == b \in known \cup store

\* Mutant of PutBlock: the height mapping is left out of the batch
PutBlockUnindexed(b, total) ==
  /\ store' = store \cup {b}
  /\ td' = [td EXCEPT ![b] = total]
  /\ UNCHANGED index

\* put_block: header, body, metadata and height index in one atomic batch.
\* StoredBlock::new marks every block canonical, so the index always moves.
PutBlock(b, total) ==
  /\ store' = store \cup {b}
  /\ td' = [td EXCEPT ![b] = total]
  /\ index' = [index EXCEPT ![Height[b]] = b]

\* The metadata record a block is loaded with
Stored(b) == [blk |-> b, td |-> td[b]]

HeadHeight == IF head.blk = NoBlock THEN 0 ELSE Height[head.blk]

\* Mutant of TotalDifficulty: the branch of the head instead of the parent's
TotalDifficultyOfHead(b) == (head.td + Work[b]) % TDModulus

TotalDifficulty(b) == (td[Parent[b]] + Work[b]) % TDModulus

\* Mutant of Extends: the height is not checked
ExtendsAnyHeight(b) == b \in Sound

\* validate_block against the stored parent, the clock apart
Extends(b) == Height[b] # 0 /\ Height[b] = Height[Parent[b]] + 1 /\ b \in Sound

-----------------------------------------------------------------------------
(***************************************************************************)
(* Starting and stopping.                                                  *)
(***************************************************************************)

Everywhere(x) == [t \in Importers |-> x]

Init ==
  /\ store = {}
  /\ td = [b \in Block |-> 0]
  /\ index = [h \in Heights |-> NoBlock]
  /\ latest = NoHeight
  /\ head = NoHead
  /\ known = {}
  /\ pending = [h \in Hashes |-> NoBlock]
  /\ phase = "down"
  /\ pc = Everywhere("idle")
  /\ req = Everywhere(NoBlock) /\ cur = Everywhere(NoBlock)
  /\ claim = Everywhere(FALSE) /\ newTd = Everywhere(0)
  /\ answer = Everywhere("none")

\* load_head: the latest height, then whatever block the index has there
LoadedHead ==
  IF latest \in Heights /\ index[latest] \in store
  THEN Stored(index[latest])
  ELSE NoHead

\* Blockchain::new
Open ==
  /\ phase = "down"
  /\ phase' = "opened"
  /\ head' = LoadedHead
  /\ UNCHANGED <<durable, known, pending, threads>>

\* FryChainNode::init finds a chain above genesis
InitSkipped ==
  /\ phase = "opened"
  /\ HeadHeight # 0
  /\ phase' = "running"
  /\ UNCHANGED <<durable, volatile, threads>>

\* init calls init_genesis, which finds a hash at height 0 and returns Err
InitRefused ==
  /\ phase = "opened"
  /\ HeadHeight = 0
  /\ index[0] # NoBlock
  /\ phase' = "failed"
  /\ UNCHANGED <<durable, volatile, threads>>

\* init_genesis stores the genesis block ...
PutGenesis ==
  /\ phase = "opened"
  /\ HeadHeight = 0
  /\ index[0] = NoBlock
  /\ PutBlock(Genesis, Work[Genesis])
  /\ phase' = "genesisStored"
  /\ UNCHANGED <<latest, volatile, threads>>

\* ... then the latest height ...
SetGenesisHeight ==
  /\ phase = "genesisStored"
  /\ latest' = 0
  /\ phase' = "genesisLatest"
  /\ UNCHANGED <<store, td, index, volatile, threads>>

\* ... then the head; known_blocks is left alone
PublishGenesis ==
  /\ phase = "genesisLatest"
  /\ head' = [blk |-> Genesis, td |-> Work[Genesis]]
  /\ phase' = "running"
  /\ UNCHANGED <<durable, known, pending, threads>>

\* The process ends: after a failed init, or (a crash, a kill, a panic) at any
\* point.  An I/O error in Blockchain::new or init_genesis also ends it.
Stop ==
  /\ phase # "down"
  /\ CrashAllowed
  /\ phase' = "down"
  /\ head' = NoHead
  /\ known' = {}
  /\ pending' = [h \in Hashes |-> NoBlock]
  /\ pc' = Everywhere("idle")
  /\ req' = Everywhere(NoBlock) /\ cur' = Everywhere(NoBlock)
  /\ claim' = Everywhere(FALSE) /\ newTd' = Everywhere(0)
  /\ answer' = Everywhere("none")
  /\ UNCHANGED durable

-----------------------------------------------------------------------------
(***************************************************************************)
(* import_block(cur, pow_hash), step by step, on thread t.                 *)
(***************************************************************************)

At(t, step) == phase = "running" /\ pc[t] = step

Goto(t, step) == pc' = [pc EXCEPT ![t] = step]

\* The call returns: what it worked on is forgotten, its result is kept
Return(t, result) ==
  /\ Goto(t, "idle")
  /\ req' = [req EXCEPT ![t] = NoBlock]
  /\ cur' = [cur EXCEPT ![t] = NoBlock]
  /\ claim' = [claim EXCEPT ![t] = FALSE]
  /\ newTd' = [newTd EXCEPT ![t] = 0]
  /\ answer' = [answer EXCEPT ![t] = result]

\* A caller hands over block b with a PoW hash that meets b's target (c) or not
Begin(t, b, c) ==
  /\ At(t, "idle")
  /\ Goto(t, "lookup")
  /\ req' = [req EXCEPT ![t] = b]
  /\ cur' = [cur EXCEPT ![t] = b]
  /\ claim' = [claim EXCEPT ![t] = c]
  /\ answer' = [answer EXCEPT ![t] = "none"]
  /\ UNCHANGED <<durable, volatile, phase, newTd>>

\* has_block: a known block is accepted without a look at its orphans
AlreadyKnown(t) ==
  /\ At(t, "lookup")
  /\ HasBlock(cur[t])
  /\ Return(t, "ok")
  /\ UNCHANGED <<durable, volatile, phase>>

Unknown(t) ==
  /\ At(t, "lookup")
  /\ \/ ~HasBlock(cur[t])
     \/ FaultAllowed /\ cur[t] \notin known
  /\ Goto(t, "parent")
  /\ UNCHANGED <<durable, volatile, phase, req, cur, claim, newTd, answer>>

\* get_block finds no parent
MissingParent(t) ==
  /\ At(t, "parent")
  /\ Parent[cur[t]] \notin store
  /\ Goto(t, "stash")
  /\ UNCHANGED <<durable, volatile, phase, req, cur, claim, newTd, answer>>

\* Mutant of Stash: the orphan is filed under its own hash
StashUnderOwnHash(t) ==
  /\ At(t, "stash")
  /\ pending' = [pending EXCEPT ![cur[t]] = cur[t]]
  /\ Return(t, "ok")
  /\ UNCHANGED <<durable, head, known, phase>>

\* pending_blocks.insert: one orphan per parent, the last one wins
Stash(t) ==
  /\ At(t, "stash")
  /\ pending' = [pending EXCEPT ![Parent[cur[t]]] = cur[t]]
  /\ Return(t, "ok")
  /\ UNCHANGED <<durable, head, known, phase>>

\* The parent is there, validate_block or verify_pow fails
Reject(t) ==
  /\ At(t, "parent")
  /\ Parent[cur[t]] \in store
  /\ \/ ~Extends(cur[t])
     \/ cur[t] \in Drifting
     \/ ~claim[t]
  /\ Return(t, "err")
  /\ UNCHANGED <<durable, volatile, phase>>

\* Both pass: the total difficulty is the parent's plus the block's own
Validate(t) ==
  /\ At(t, "parent")
  /\ Parent[cur[t]] \in store
  /\ Extends(cur[t])
  /\ claim[t]
  /\ newTd' = [newTd EXCEPT ![t] = TotalDifficulty(cur[t])]
  /\ Goto(t, "write")
  /\ UNCHANGED <<durable, volatile, phase, req, cur, claim, answer>>

Write(t) ==
  /\ At(t, "write")
  /\ PutBlock(cur[t], newTd[t])
  /\ Goto(t, "compare")
  /\ UNCHANGED <<latest, volatile, phase, req, cur, claim, newTd, answer>>

\* Mutant of IsHeavier: the longer branch wins
IsLonger(t) == Height[cur[t]] > HeadHeight

\* Fork choice: more total difficulty than the head has at this moment
IsHeavier(t) == newTd[t] > head.td

\* known_blocks.insert, then the head's total difficulty is read
Heavier(t) ==
  /\ At(t, "compare")
  /\ known' = known \cup {cur[t]}
  /\ IsHeavier(t)
  /\ Goto(t, "latest")
  /\ UNCHANGED <<durable, head, pending, phase, req, cur, claim, newTd, answer>>

\* Mutant of NotHeavier: orphans are looked at only under a new head
NotHeavierReturns(t) ==
  /\ At(t, "compare")
  /\ known' = known \cup {cur[t]}
  /\ ~IsHeavier(t)
  /\ Return(t, "ok")
  /\ UNCHANGED <<durable, head, pending, phase>>

NotHeavier(t) ==
  /\ At(t, "compare")
  /\ known' = known \cup {cur[t]}
  /\ ~IsHeavier(t)
  /\ Goto(t, "drain")
  /\ UNCHANGED <<durable, head, pending, phase, req, cur, claim, newTd, answer>>

\* Mutant of SetLatest: the number of blocks instead of the height
SetLatestCount(t) ==
  /\ At(t, "latest")
  /\ latest' = Height[cur[t]] + 1
  /\ Goto(t, "publish")
  /\ UNCHANGED <<store, td, index, volatile, phase, req, cur, claim, newTd, answer>>

\* Mutant of SetLatest: the height never goes down
SetLatestUpOnly(t) ==
  /\ At(t, "latest")
  /\ latest' = IF Height[cur[t]] > latest THEN Height[cur[t]] ELSE latest
  /\ Goto(t, "publish")
  /\ UNCHANGED <<store, td, index, volatile, phase, req, cur, claim, newTd, answer>>

\* set_head: the durable height first ...
SetLatest(t) ==
  /\ At(t, "latest")
  /\ latest' = Height[cur[t]]
  /\ Goto(t, "publish")
  /\ UNCHANGED <<store, td, index, volatile, phase, req, cur, claim, newTd, answer>>

\* Mutant of PublishHead: the difficulty is added to the head being replaced
PublishHeadAdding(t) ==
  /\ At(t, "publish")
  /\ head' = [blk |-> cur[t], td |-> head.td + Work[cur[t]]]
  /\ Goto(t, "drain")
  /\ UNCHANGED <<durable, known, pending, phase, req, cur, claim, newTd, answer>>

\* ... then the head in memory, whatever it has become meanwhile
PublishHead(t) ==
  /\ At(t, "publish")
  /\ head' = [blk |-> cur[t], td |-> newTd[t]]
  /\ Goto(t, "drain")
  /\ UNCHANGED <<durable, known, pending, phase, req, cur, claim, newTd, answer>>

\* process_pending_blocks: no orphan waits for this block
NoOrphan(t) ==
  /\ At(t, "drain")
  /\ pending[cur[t]] = NoBlock
  /\ Return(t, "ok")
  /\ UNCHANGED <<durable, volatile, phase>>

\* The orphan is taken out first; pow::verify_pow then decides whether it is
\* imported in turn.  If not, its error is what the whole call returns.
TakeOrphan(t) ==
  /\ At(t, "drain")
  /\ pending[cur[t]] \in Mined
  /\ pending' = [pending EXCEPT ![cur[t]] = NoBlock]
  /\ cur' = [cur EXCEPT ![t] = pending[cur[t]]]
  /\ claim' = [claim EXCEPT ![t] = TRUE]
  /\ newTd' = [newTd EXCEPT ![t] = 0]
  /\ Goto(t, "lookup")
  /\ UNCHANGED <<durable, head, known, phase, req, answer>>

\* Mutant of DropOrphan: the orphan is kept and tried again
RetryOrphan(t) ==
  /\ At(t, "drain")
  /\ pending[cur[t]] \in Block \ Mined
  /\ UNCHANGED vars

DropOrphan(t) ==
  /\ At(t, "drain")
  /\ pending[cur[t]] \in Block \ Mined
  /\ pending' = [pending EXCEPT ![cur[t]] = NoBlock]
  /\ Return(t, "err")
  /\ UNCHANGED <<durable, head, known, phase>>

\* A read or a write of the database fails, and `?' hands the error up
DatabaseError(t) ==
  /\ FaultAllowed
  /\ phase = "running"
  /\ pc[t] \in {"parent", "write", "latest"}
  /\ Return(t, "err")
  /\ UNCHANGED <<durable, volatile, phase>>

Import(t) ==
  \/ AlreadyKnown(t) \/ Unknown(t)
  \/ MissingParent(t) \/ Stash(t)
  \/ Reject(t) \/ Validate(t)
  \/ Write(t)
  \/ Heavier(t) \/ NotHeavier(t) \/ SetLatest(t) \/ PublishHead(t)
  \/ NoOrphan(t) \/ TakeOrphan(t) \/ DropOrphan(t)
  \/ DatabaseError(t)

StartUp ==
  \/ Open \/ InitSkipped \/ InitRefused
  \/ PutGenesis \/ SetGenesisHeight \/ PublishGenesis

Next ==
  \/ StartUp
  \/ Stop
  \/ \E t \in Importers :
       \/ Import(t)
       \/ \E b \in Block, c \in BOOLEAN : Begin(t, b, c)

Spec == Init /\ [][Next]_vars

\* The operating system runs the threads it has started: a step of start-up or
\* of an import that can be taken is taken.  Nobody is obliged to call import.
FairSpec ==
  /\ Spec
  /\ WF_vars(StartUp)
  /\ \A t \in Importers : WF_vars(Import(t))

-----------------------------------------------------------------------------
(***************************************************************************)
(* Safety for any number of importers, crashes and database errors.        *)
(***************************************************************************)

\* Every stored block but genesis has its parent in the store, one height
\* below, and passed validation: import_block never stores a detached block,
\* whatever other imports, orphans and restarts happen around it.
TreeInv ==
  \A b \in store \ {Genesis} :
    Parent[b] \in store /\ Height[b] = Height[Parent[b]] + 1 /\ b \in Sound

\* The total difficulty recorded for a block is its parent's recorded one plus
\* its own (modulo the u128), so it is the work of the whole branch: racing or
\* repeated imports of one block never record two different totals.
WorkInv ==
  \A b \in store :
    td[b] = IF b = Genesis THEN Work[Genesis]
            ELSE (td[Parent[b]] + Work[b]) % TDModulus

\* The height index names stored blocks of that height, covers the height of
\* every stored block, keeps genesis at 0, and latest_height points into it:
\* load_head and get_block_by_height never follow it to nothing.
IndexInv ==
  /\ \A h \in Heights : index[h] # NoBlock => index[h] \in store /\ Height[index[h]] = h
  /\ \A b \in store : index[Height[b]] # NoBlock
  /\ index[0] \in {NoBlock, Genesis}
  /\ latest # NoHeight => index[latest] # NoBlock

\* The head in memory is a stored block and carries the total difficulty the
\* store has for it: fork choice compares against a true figure even after
\* two importers raced to publish.
HeadInv ==
  head # NoHead => head.blk \in store /\ head.td = td[head.blk]

\* When import_block answers Ok, the block it was given is stored or waits in
\* pending_blocks for its parent, also when the call went on to import a chain
\* of orphans, or another importer stored the same block first.
AcceptedIsKept ==
  [][\A t \in Importers :
       pc[t] # "idle" /\ answer'[t] = "ok" /\ pc'[t] = "idle"
         => req[t] \in store' \/ pending'[Parent[req[t]]] = req[t]]_vars

-----------------------------------------------------------------------------
(***************************************************************************)
(* What holds when imports do not overlap.                                 *)
(***************************************************************************)

Quiet == phase = "running" /\ \A t \in Importers : pc[t] = "idle"

\* Between imports the head is a block of greatest total difficulty among all
\* stored ones, orphans included (import_block, set_head).
HeadHeaviest ==
  Quiet => \A b \in store : td[b] <= head.td

\* A head is only ever replaced by a strictly heavier block: of two equal
\* branches the first one imported stays (chain.rs:202).
HeadOnlyImproves ==
  [][phase = "running" /\ phase' = "running" /\ head' # head
       => head'.td > head.td]_vars

\* Between imports no orphan is left waiting for a block that is stored:
\* process_pending_blocks is reached on every path that stores a block.
OrphansServed ==
  Quiet => \A b \in store : pending[b] = NoBlock

\* Between imports the durable latest_height is the height of the head, also
\* after restarts and failed writes, so a restart resumes at that height.
LatestIsHead ==
  Quiet => latest = Height[head.blk]

\* A block joins the abstract tree when its import has settled the fork choice
Unsettled ==
  {cur[t] : t \in {u \in Importers : pc[u] \in {"compare", "latest", "publish"}}}
    \cup IF phase \in {"genesisStored", "genesisLatest"} THEN {Genesis} ELSE {}

Settled == store \ Unsettled

Promise == INSTANCE HeaviestChain WITH
  tree <- Settled,
  weight <- [b \in Block |-> IF b \in Settled THEN td[b] ELSE 0],
  tip <- head.blk

\* Step by step, one importer behaves as the abstract heaviest-chain store.
ImplementsHeaviestChain == Promise!HSpec

\* Every call of import_block returns, whatever chain of orphans it sets off.
ImportReturns ==
  \A t \in Importers : pc[t] # "idle" ~> pc[t] = "idle"

-----------------------------------------------------------------------------
(***************************************************************************)
(* What the repository's comments say and the code does not do.            *)
(***************************************************************************)

\* storage/chain.rs:126, "Get block by height (canonical chain only)": between
\* imports the block the index has at a height is an ancestor of the block it
\* has at the next height, up to the head.
IndexIsCanonical ==
  Quiet =>
    /\ index[Height[head.blk]] = head.blk
    /\ \A h \in Heights : h # 0 /\ h <= Height[head.blk]
         => Parent[index[h]] = index[h - 1]

\* consensus/chain.rs:29, "Pending blocks (orphans waiting for parent)": an
\* orphan leaves pending_blocks only once its parent is stored.
OrphansWaitForParent ==
  [][\A h \in Hashes :
       phase' = "running" /\ pending[h] # NoBlock /\ pending'[h] # pending[h]
         => h \in store]_vars

\* node/node.rs:53, "Initialize the node with genesis block if needed": a node
\* that finds its own store starts.
NodeStarts == phase # "failed"

=============================================================================
