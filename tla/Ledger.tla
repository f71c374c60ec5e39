------------------------------- MODULE Ledger -------------------------------
(***************************************************************************)
(* Account state: AccountState and StateChanges of frychain-core state.rs, *)
(* and the StateStore of frychain-storage state.rs.  The changes of the    *)
(* transactions of a block are collected one by one, merged, and applied   *)
(* both to the accounts in memory and, as one atomic batch, to the store.  *)
(*                                                                         *)
(* Hashes are injective: a code hash is the code.  An account keeps its    *)
(* balance, nonce and code hash; the staked amount and the metadata hash   *)
(* behave like the nonce.  Vectors of creations, whose last entry for an   *)
(* address wins, are functions; the order inside a HashMap never matters.  *)
(***************************************************************************)
EXTENDS Naturals

CONSTANTS
  Address,
  Slot,        \* the keys of a contract's storage
  Code, NoCode,
  Value, Zero, \* storage values, with the zero hash
  U128,        \* 2^128: balances
  Nonce,       \* the nonces callers set
  Posted,      \* the accounts callers pass to modify_account
  Amount,      \* the amounts of transfers
  None,        \* no account, no change
  MaxCalls     \* bound on the changes that transactions make

Account == [balance : 0..(U128 - 1), nonce : Nonce, code : Code \cup {NoCode}]

ASSUME LedgerAssumption ==
  /\ U128 \in Nat \ {0} /\ Nonce \subseteq Nat /\ 0 \in Nonce
  /\ NoCode \notin Code /\ Zero \in Value
  /\ Posted \subseteq Account /\ Amount \subseteq 0..(U128 - 1)
  /\ None \notin Account /\ None \notin Code \cup Value
  /\ MaxCalls \in Nat

VARIABLES
  memory,   \* AccountState
  stored,   \* the column families ACCOUNTS, CODE and STORAGE
  tx,       \* the StateChanges of the transaction that runs
  block,    \* those of the block so far, merged
  serial,   \* history: memory, had each transaction been applied at its end
  crossed,  \* history: addresses that transactions of the block delete and change
  deleted,  \* history: addresses that were ever deleted
  calls     \* the changes made, up to MaxCalls

ledgerVars == <<memory, stored, tx, block, serial, crossed, deleted, calls>>

Empty == [balance |-> 0, nonce |-> 0, code |-> NoCode]

\* The contents of either store; what get_storage does not find reads as zero
Accounts == [accounts : [Address -> Account \cup {None}],
             code     : [Address -> Code \cup {NoCode}],
             storage  : [Address -> [Slot -> Value]]]

StateChanges == [modified : [Address -> Account \cup {None}],
                 deleted  : SUBSET Address,
                 created  : [Address -> Code \cup {None}],
                 storage  : [Address -> [Slot -> Value \cup {None}]]]

LedgerTypeOK ==
  /\ memory \in Accounts /\ stored \in Accounts /\ serial \in Accounts
  /\ tx \in StateChanges /\ block \in StateChanges
  /\ crossed \subseteq Address /\ deleted \subseteq Address /\ calls \in 0..MaxCalls

NoChanges == [modified |-> [a \in Address |-> None],
              deleted  |-> {},
              created  |-> [a \in Address |-> None],
              storage  |-> [a \in Address |-> [k \in Slot |-> None]]]

NoAccounts == [accounts |-> [a \in Address |-> None],
               code     |-> [a \in Address |-> NoCode],
               storage  |-> [a \in Address |-> [k \in Slot |-> Zero]]]

\* get_account: an account that is not there is an empty one
AccountOf(s, a) == IF s.accounts[a] = None THEN Empty ELSE s.accounts[a]

\* set_account: an empty account is removed
Kept(acc) == IF acc = Empty THEN None ELSE acc

LedgerInit ==
  /\ memory = NoAccounts /\ stored = NoAccounts /\ serial = NoAccounts
  /\ tx = NoChanges /\ block = NoChanges
  /\ crossed = {} /\ deleted = {} /\ calls = 0

-----------------------------------------------------------------------------
\* StateChanges

\* The transaction that runs changes c
Change(c) ==
  /\ calls < MaxCalls
  /\ calls' = calls + 1
  /\ tx' = c
  /\ UNCHANGED <<memory, stored, block, serial, crossed, deleted>>

ModifyAccount(a, acc) == Change([tx EXCEPT !.modified[a] = acc])

DeleteAccount(a) == Change([tx EXCEPT !.deleted = @ \cup {a}, !.modified[a] = None])

CreateContract(a, code) == Change([tx EXCEPT !.created[a] = code])

SetStorage(a, k, v) == Change([tx EXCEPT !.storage[a][k] = v])

\* Mutant of Merge: of two changes of one account the earlier is kept
MergeKeepsFirst(c, other) ==
  [modified |-> [a \in Address |-> IF c.modified[a] # None THEN c.modified[a] ELSE other.modified[a]],
   deleted  |-> c.deleted \cup other.deleted,
   created  |-> [a \in Address |-> IF other.created[a] # None THEN other.created[a] ELSE c.created[a]],
   storage  |-> [a \in Address |-> [k \in Slot |->
                   IF other.storage[a][k] # None THEN other.storage[a][k] ELSE c.storage[a][k]]]]

\* merge: the later change wins, and nothing forgets a deletion
Merge(c, other) ==
  [modified |-> [a \in Address |-> IF other.modified[a] # None THEN other.modified[a] ELSE c.modified[a]],
   deleted  |-> c.deleted \cup other.deleted,
   created  |-> [a \in Address |-> IF other.created[a] # None THEN other.created[a] ELSE c.created[a]],
   storage  |-> [a \in Address |-> [k \in Slot |->
                   IF other.storage[a][k] # None THEN other.storage[a][k] ELSE c.storage[a][k]]]]

\* AccountState::apply_changes: modifications, deletions, creations (set_code
\* gives the account the hash of its code, and makes it one if need be), storage
ApplyInMemory(s, c) ==
  LET Base(a) == IF a \in c.deleted THEN None
                 ELSE IF c.modified[a] # None THEN Kept(c.modified[a]) ELSE s.accounts[a]
  IN  [accounts |-> [a \in Address |->
         IF c.created[a] = None THEN Base(a)
         ELSE [(IF Base(a) = None THEN Empty ELSE Base(a)) EXCEPT !.code = c.created[a]]],
       code |-> [a \in Address |->
         IF c.created[a] # None THEN c.created[a]
         ELSE IF a \in c.deleted THEN NoCode ELSE s.code[a]],
       storage |-> [a \in Address |-> [k \in Slot |->
         IF c.storage[a][k] # None THEN c.storage[a][k]
         ELSE IF a \in c.deleted THEN Zero ELSE s.storage[a][k]]]]

\* Mutant of ApplyToStore: the batch puts accounts after it deletes them
ApplyToStorePutsLast(s, c) ==
  [accounts |-> [a \in Address |->
     IF c.modified[a] # None THEN c.modified[a]
     ELSE IF a \in c.deleted THEN None ELSE s.accounts[a]],
   code |-> [a \in Address |-> IF c.created[a] # None THEN c.created[a] ELSE s.code[a]],
   storage |-> [a \in Address |-> [k \in Slot |->
     IF c.storage[a][k] # None THEN c.storage[a][k] ELSE s.storage[a][k]]]]

\* StateStore::apply_changes: a deletion is of the account alone, a creation of
\* the code alone, and an account is put as it is; a zero value is deleted
ApplyToStore(s, c) ==
  [accounts |-> [a \in Address |->
     IF a \in c.deleted THEN None
     ELSE IF c.modified[a] # None THEN c.modified[a] ELSE s.accounts[a]],
   code |-> [a \in Address |-> IF c.created[a] # None THEN c.created[a] ELSE s.code[a]],
   storage |-> [a \in Address |-> [k \in Slot |->
     IF c.storage[a][k] # None THEN c.storage[a][k] ELSE s.storage[a][k]]]]

\* Do the changes c of earlier transactions and those of the next one touch a
\* in an order that merging does not keep: modified after it was deleted, or
\* after its code was set; created or written to before it was deleted?
Crosses(c, next, a) ==
  \/ a \in c.deleted /\ next.modified[a] # None
  \/ c.created[a] # None /\ next.modified[a] # None /\ next.modified[a].code # c.created[a]
  \/ a \in next.deleted /\ (c.created[a] # None \/ \E k \in Slot : c.storage[a][k] # None)

\* The transaction ends and its changes join those of the block
EndTransaction ==
  /\ tx # NoChanges
  /\ block' = Merge(block, tx)
  /\ serial' = ApplyInMemory(serial, tx)
  /\ crossed' = crossed \cup {a \in Address : Crosses(block, tx, a)}
  /\ tx' = NoChanges
  /\ UNCHANGED <<memory, stored, deleted, calls>>

\* The block is applied to both stores
Commit ==
  /\ tx = NoChanges /\ block # NoChanges
  /\ memory' = ApplyInMemory(memory, block)
  /\ stored' = ApplyToStore(stored, block)
  /\ serial' = memory'
  /\ deleted' = deleted \cup block.deleted
  /\ block' = NoChanges /\ crossed' = {}
  /\ UNCHANGED <<tx, calls>>

\* AccountState::transfer, to another account or to the same
Transferred(s, from, to, n) ==
  IF from = to THEN s
  ELSE [s EXCEPT !.accounts[from] = Kept([AccountOf(s, from) EXCEPT !.balance = @ - n]),
                 !.accounts[to] = Kept([AccountOf(s, to) EXCEPT !.balance = @ + n])]

\* transfer, between blocks, by a caller that then puts both accounts (put_account)
Transfer(from, to, n) ==
  /\ tx = NoChanges /\ block = NoChanges
  /\ from # to =>
       AccountOf(memory, from).balance >= n /\ AccountOf(memory, to).balance + n < U128
  /\ memory' = Transferred(memory, from, to, n)
  /\ serial' = memory'
  /\ stored' = [stored EXCEPT !.accounts[from] = AccountOf(memory', from),
                              !.accounts[to] = AccountOf(memory', to)]
  /\ UNCHANGED <<tx, block, crossed, deleted, calls>>

LedgerNext ==
  \/ \E a \in Address :
       \/ \E acc \in Posted : ModifyAccount(a, acc)
       \/ DeleteAccount(a)
       \/ \E code \in Code : CreateContract(a, code)
       \/ \E k \in Slot, v \in Value : SetStorage(a, k, v)
  \/ EndTransaction
  \/ Commit
  \/ \E from, to \in Address, n \in Amount : Transfer(from, to, n)

LedgerSpec == LedgerInit /\ [][LedgerNext]_ledgerVars

-----------------------------------------------------------------------------

\* Applying the merged changes of a block gives what its transactions give one
\* after the other (merge, apply_changes), for every address the transactions
\* do not both delete and change in an order that merging loses.
MergedLikeSerial ==
  LET merged == ApplyInMemory(memory, block) IN
  \A a \in Address \ crossed :
    /\ merged.accounts[a] = serial.accounts[a]
    /\ merged.code[a] = serial.code[a]
    /\ merged.storage[a] = serial.storage[a]

\* After any blocks and transfers the store and the accounts in memory hold the
\* same balances and nonces.  Code and storage differ only where an account was
\* deleted, which leaves them in the store; code hashes differ only where
\* set_code wrote one in memory, which the store does not.
StoresAgree ==
  \A a \in Address :
    LET here == AccountOf(memory, a)
        there == AccountOf(stored, a)
    IN  /\ here.balance = there.balance /\ here.nonce = there.nonce
        /\ here.code # there.code => here.code = memory.code[a]
        /\ memory.code[a] # stored.code[a] => a \in deleted /\ memory.code[a] = NoCode
        /\ \A k \in Slot : memory.storage[a][k] # stored.storage[a][k] =>
             a \in deleted /\ memory.storage[a][k] = Zero

=============================================================================
