----------------------------- MODULE ServicesProofs -----------------------------
(***************************************************************************)
(* The four libraries that share no state with one another.  The ledger,   *)
(* for any addresses, accounts and changes: a block's merged changes give  *)
(* what its transactions give one by one, and the two stores of accounts   *)
(* differ only in what a deletion or set_code leaves behind.  The peer     *)
(* table, for any threads, peers, shards and limits: who is banned stays   *)
(* out but for one race, an expired ban stops the thread that finds it,    *)
(* the cleanup costs a live peer its place only in a race, and the table   *)
(* exceeds its limit by no more than the threads that can race to insert.  *)
(* The device registry, for any devices, owners and types: its maps and    *)
(* indexes never drift apart.  The Merkle trees, for any number of leaves: *)
(* proofs verify, and prove nothing else.                                  *)
(***************************************************************************)
EXTENDS Ledger, PeerManager, DeviceRegistry, Merkle, Sums, SequenceTheorems, TLAPS

-----------------------------------------------------------------------------
(***************************************************************************)
(* The ledger.                                                             *)
(***************************************************************************)

LedgerInv == LedgerTypeOK /\ MergedLikeSerial /\ StoresAgree

-----------------------------------------------------------------------------
\* Accounts and changes are closed under the operators of the model

\* An address that holds nothing reads as an account.
LEMMA EmptyIsAccount == Empty \in Account
BY LedgerAssumption DEF Empty, Account

\* An account with another code
LEMMA WithCode ==
  ASSUME NEW acc \in Account, NEW code \in Code
  PROVE  /\ [acc EXCEPT !.code = code] \in Account
         /\ [acc EXCEPT !.code = code] = [balance |-> acc.balance, nonce |-> acc.nonce, code |-> code]
BY DEF Account

\* Every address reads as an account.
LEMMA AccountOfType ==
  ASSUME NEW s \in Accounts, NEW a \in Address
  PROVE  AccountOf(s, a) \in Account
BY EmptyIsAccount DEF AccountOf, Accounts

\* What set_account keeps reads back as the account it was given.
LEMMA KeptReadsBack ==
  ASSUME NEW acc \in Account
  PROVE  /\ Kept(acc) \in Account \cup {None}
         /\ (IF Kept(acc) = None THEN Empty ELSE Kept(acc)) = acc
BY LedgerAssumption DEF Kept

\* Merged changes are changes.
LEMMA MergeType ==
  ASSUME NEW c \in StateChanges, NEW other \in StateChanges
  PROVE  Merge(c, other) \in StateChanges
BY DEF Merge, StateChanges

\* No changes are changes.
LEMMA NoChangesType == NoChanges \in StateChanges
BY DEF NoChanges, StateChanges

\* What the changes c make of the account a, but for a contract created there
Changed(s, c, a) == IF a \in c.deleted THEN None
                    ELSE IF c.modified[a] # None THEN Kept(c.modified[a]) ELSE s.accounts[a]

\* apply_changes, address by address: code and storage, and accounts
LEMMA AppliedToContract ==
  ASSUME NEW s, NEW c, NEW a \in Address
  PROVE  /\ ApplyInMemory(s, c).code[a] =
              IF c.created[a] # None THEN c.created[a]
              ELSE IF a \in c.deleted THEN NoCode ELSE s.code[a]
         /\ \A k \in Slot : ApplyInMemory(s, c).storage[a][k] =
              IF c.storage[a][k] # None THEN c.storage[a][k]
              ELSE IF a \in c.deleted THEN Zero ELSE s.storage[a][k]
BY DEF ApplyInMemory

\* apply_changes of AccountState, at one address.
LEMMA AppliedInMemory ==
  ASSUME NEW s \in Accounts, NEW c \in StateChanges, NEW a \in Address
  PROVE  LET was == IF Changed(s, c, a) = None THEN Empty ELSE Changed(s, c, a)
         IN  /\ Changed(s, c, a) \in Account \cup {None}
             /\ was \in Account
             /\ ApplyInMemory(s, c).accounts[a] =
                  IF c.created[a] = None THEN Changed(s, c, a)
                  ELSE [balance |-> was.balance, nonce |-> was.nonce, code |-> c.created[a]]
<1> DEFINE was == IF Changed(s, c, a) = None THEN Empty ELSE Changed(s, c, a)
<1>1. /\ s.accounts[a] \in Account \cup {None} /\ c.modified[a] \in Account \cup {None}
      /\ c.created[a] \in Code \cup {None}
  BY DEF Accounts, StateChanges
<1>2. Changed(s, c, a) \in Account \cup {None}
  BY <1>1, KeptReadsBack DEF Changed
<1>3. was \in Account
  BY <1>2, EmptyIsAccount
<1>4. ApplyInMemory(s, c).accounts[a] = IF c.created[a] = None THEN Changed(s, c, a)
                                        ELSE [was EXCEPT !.code = c.created[a]]
  BY DEF ApplyInMemory, Changed
<1> HIDE DEF was
<1>5. c.created[a] # None =>
        [was EXCEPT !.code = c.created[a]]
          = [balance |-> was.balance, nonce |-> was.nonce, code |-> c.created[a]]
  BY <1>1, <1>3, WithCode
<1>6. ApplyInMemory(s, c).accounts[a]
        = IF c.created[a] = None THEN Changed(s, c, a)
          ELSE [balance |-> was.balance, nonce |-> was.nonce, code |-> c.created[a]]
  BY <1>4, <1>5
<1> QED
  BY <1>2, <1>3, <1>6 DEF was

\* apply_changes of AccountState leaves accounts.
LEMMA ApplyInMemoryType ==
  ASSUME NEW s \in Accounts, NEW c \in StateChanges
  PROVE  ApplyInMemory(s, c) \in Accounts
<1> DEFINE r == ApplyInMemory(s, c)
<1>1. ASSUME NEW a \in Address
      PROVE  /\ r.accounts[a] \in Account \cup {None}
             /\ r.code[a] \in Code \cup {NoCode}
             /\ \A k \in Slot : r.storage[a][k] \in Value
  <2>1. /\ c.created[a] \in Code \cup {None} /\ s.code[a] \in Code \cup {NoCode}
        /\ \A k \in Slot : c.storage[a][k] \in Value \cup {None} /\ s.storage[a][k] \in Value
        /\ Zero \in Value
    BY LedgerAssumption DEF Accounts, StateChanges
  <2> DEFINE was == IF Changed(s, c, a) = None THEN Empty ELSE Changed(s, c, a)
  <2>2. /\ Changed(s, c, a) \in Account \cup {None}
        /\ was \in Account
        /\ r.accounts[a] = IF c.created[a] = None THEN Changed(s, c, a)
                           ELSE [balance |-> was.balance, nonce |-> was.nonce, code |-> c.created[a]]
    BY AppliedInMemory
  <2> HIDE DEF was
  <2>3. r.accounts[a] \in Account \cup {None}
    BY <2>1, <2>2 DEF Account
  <2>4. r.code[a] \in Code \cup {NoCode}
    BY <2>1, AppliedToContract
  <2>5. \A k \in Slot : r.storage[a][k] \in Value
    BY <2>1, AppliedToContract
  <2> QED
    BY <2>3, <2>4, <2>5
<1>2. /\ r = [accounts |-> r.accounts, code |-> r.code, storage |-> r.storage]
      /\ r.accounts = [a \in Address |-> r.accounts[a]]
      /\ r.code = [a \in Address |-> r.code[a]]
      /\ r.storage = [a \in Address |-> [k \in Slot |-> r.storage[a][k]]]
  BY DEF ApplyInMemory
<1> HIDE DEF r
<1>3. /\ r.accounts \in [Address -> Account \cup {None}]
      /\ r.code \in [Address -> Code \cup {NoCode}]
      /\ r.storage \in [Address -> [Slot -> Value]]
  BY <1>1, <1>2
<1>4. r \in Accounts
  BY <1>2, <1>3 DEF Accounts
<1> QED
  BY <1>4 DEF r

\* apply_changes of StateStore leaves accounts.
LEMMA ApplyToStoreType ==
  ASSUME NEW s \in Accounts, NEW c \in StateChanges
  PROVE  ApplyToStore(s, c) \in Accounts
BY DEF ApplyToStore, Accounts, StateChanges

-----------------------------------------------------------------------------
\* The three kinds of steps

\* MergedLikeSerial for one address, whatever the stores
Alike(r, s, a) == r.accounts[a] = s.accounts[a] /\ r.code[a] = s.code[a] /\ r.storage[a] = s.storage[a]

\* If the merged changes b gave the account what it had one by one, and the
\* next changes x do not cross them there, merging x in keeps it so.
LEMMA MergeStep ==
  ASSUME NEW m \in Accounts, NEW s \in Accounts, NEW b \in StateChanges, NEW x \in StateChanges,
         NEW a \in Address, Alike(ApplyInMemory(m, b), s, a), ~Crosses(b, x, a)
  PROVE  Alike(ApplyInMemory(m, Merge(b, x)), ApplyInMemory(s, x), a)
<1> DEFINE bx == Merge(b, x)
           l == ApplyInMemory(m, bx)
           r == ApplyInMemory(s, x)
<1>1. bx \in StateChanges
  BY MergeType
<1>2. /\ bx.deleted = b.deleted \cup x.deleted
      /\ bx.modified[a] = IF x.modified[a] # None THEN x.modified[a] ELSE b.modified[a]
      /\ bx.created[a] = IF x.created[a] # None THEN x.created[a] ELSE b.created[a]
      /\ \A k \in Slot : bx.storage[a][k] = IF x.storage[a][k] # None THEN x.storage[a][k] ELSE b.storage[a][k]
  BY DEF Merge
<1> HIDE DEF bx
<1>3. /\ l \in Accounts /\ r \in Accounts /\ ApplyInMemory(m, b) \in Accounts
  BY <1>1, ApplyInMemoryType
<1>4. l.code[a] = r.code[a]
  <2>1. l.code[a] = IF bx.created[a] # None THEN bx.created[a]
                    ELSE IF a \in bx.deleted THEN NoCode ELSE m.code[a]
    BY AppliedToContract
  <2>2. r.code[a] = IF x.created[a] # None THEN x.created[a]
                    ELSE IF a \in x.deleted THEN NoCode ELSE s.code[a]
    BY AppliedToContract
  <2>3. s.code[a] = IF b.created[a] # None THEN b.created[a]
                    ELSE IF a \in b.deleted THEN NoCode ELSE m.code[a]
    BY AppliedToContract DEF Alike
  <2> HIDE DEF l, r
  <2> QED
    BY <1>2, <2>1, <2>2, <2>3 DEF Crosses
<1>5. l.storage[a] = r.storage[a]
  <2> SUFFICES ASSUME NEW k \in Slot PROVE l.storage[a][k] = r.storage[a][k]
    <3>1. l.storage[a] \in [Slot -> Value] /\ r.storage[a] \in [Slot -> Value]
      BY <1>3 DEF Accounts
    <3> HIDE DEF l, r
    <3> QED
      BY <3>1
  <2>1. l.storage[a][k] = IF bx.storage[a][k] # None THEN bx.storage[a][k]
                          ELSE IF a \in bx.deleted THEN Zero ELSE m.storage[a][k]
    BY AppliedToContract
  <2>2. r.storage[a][k] = IF x.storage[a][k] # None THEN x.storage[a][k]
                          ELSE IF a \in x.deleted THEN Zero ELSE s.storage[a][k]
    BY AppliedToContract
  <2>3. s.storage[a][k] = IF b.storage[a][k] # None THEN b.storage[a][k]
                          ELSE IF a \in b.deleted THEN Zero ELSE m.storage[a][k]
    BY AppliedToContract DEF Alike
  <2> HIDE DEF l, r
  <2> QED
    BY <1>2, <2>1, <2>2, <2>3 DEF Crosses
<1>6. l.accounts[a] = r.accounts[a]
  <2> DEFINE L == Changed(m, bx, a)   \* before a creation, with both changes
             B == Changed(m, b, a)    \* with those of the block alone
             X == Changed(s, x, a)    \* with the next ones alone
             Was(acc) == IF acc = None THEN Empty ELSE acc
             With(acc, code) == IF code = None THEN acc
                                ELSE [balance |-> Was(acc).balance, nonce |-> Was(acc).nonce, code |-> code]
  <2>1. l.accounts[a] = With(L, bx.created[a]) /\ L \in Account \cup {None} /\ Was(L) \in Account
    BY <1>1, AppliedInMemory
  <2>2. r.accounts[a] = With(X, x.created[a]) /\ X \in Account \cup {None} /\ Was(X) \in Account
    BY AppliedInMemory
  <2>3. s.accounts[a] = With(B, b.created[a]) /\ B \in Account \cup {None} /\ Was(B) \in Account
    BY AppliedInMemory DEF Alike
  <2>4. /\ b.created[a] \in Code \cup {None} /\ x.created[a] \in Code \cup {None}
        /\ x.modified[a] \in Account \cup {None} /\ None \notin Account /\ NoCode \notin Code
    BY LedgerAssumption DEF StateChanges
  <2> HIDE DEF l, r
  <2>5. CASE a \in x.deleted
    <3>1. b.created[a] = None
      BY <2>5 DEF Crosses
    <3>2. L = None /\ X = None /\ bx.created[a] = x.created[a]
      BY <1>2, <2>5, <3>1 DEF Changed
    <3> QED
      BY <2>1, <2>2, <3>2
  <2>6. CASE a \notin x.deleted /\ x.modified[a] # None
    <3>1. a \notin b.deleted
      BY <2>6 DEF Crosses
    <3>2. L = Kept(x.modified[a]) /\ X = Kept(x.modified[a])
      BY <1>2, <2>6, <3>1 DEF Changed
    <3>3. CASE x.created[a] # None \/ b.created[a] = None
      BY <1>2, <2>1, <2>2, <3>2, <3>3
    <3>4. CASE x.created[a] = None /\ b.created[a] # None
      <4>1. x.modified[a].code = b.created[a]
        BY <2>6, <3>4 DEF Crosses
      <4>2. x.modified[a] # Empty
        BY <2>4, <3>4, <4>1 DEF Empty
      <4>3. L = x.modified[a] /\ X = x.modified[a] /\ x.modified[a] \in Account
        BY <2>4, <2>6, <3>2, <4>2 DEF Kept
      <4>4. With(L, b.created[a])
              = [balance |-> x.modified[a].balance, nonce |-> x.modified[a].nonce, code |-> b.created[a]]
        BY <2>4, <3>4, <4>3
      <4>5. With(L, b.created[a]) = x.modified[a]
        BY <4>1, <4>3, <4>4 DEF Account
      <4> QED
        BY <1>2, <2>1, <2>2, <3>4, <4>3, <4>5
    <3> QED
      BY <3>3, <3>4
  <2>7. CASE a \notin x.deleted /\ x.modified[a] = None
    <3>1. L = B /\ X = s.accounts[a]
      BY <1>2, <2>7 DEF Changed
    <3> HIDE DEF L, B, X
    <3>2. CASE x.created[a] = None
      BY <1>2, <2>1, <2>2, <2>3, <3>1, <3>2
    <3>3. CASE x.created[a] # None /\ b.created[a] = None
      BY <1>2, <2>1, <2>2, <2>3, <3>1, <3>3
    <3>4. CASE x.created[a] # None /\ b.created[a] # None
      <4>1. s.accounts[a] = [balance |-> Was(B).balance, nonce |-> Was(B).nonce, code |-> b.created[a]]
        BY <2>3, <3>4
      <4>2. s.accounts[a] # None
        BY <2>2, <2>3, <2>4, <3>4, <4>1 DEF Account
      <4>3. Was(X).balance = Was(B).balance /\ Was(X).nonce = Was(B).nonce
        BY <3>1, <4>1, <4>2
      <4> QED
        BY <1>2, <2>1, <2>2, <3>1, <3>4, <4>3
    <3> QED
      BY <3>2, <3>3, <3>4
  <2> QED
    BY <2>5, <2>6, <2>7
<1> HIDE DEF l, r
<1>7. Alike(l, r, a)
  BY <1>4, <1>5, <1>6 DEF Alike
<1> QED
  BY <1>7 DEF l, r, bx

\* StoresAgree for one address
AgreeAt(m, s, d, a) ==
  LET here == AccountOf(m, a)
      there == AccountOf(s, a)
  IN  /\ here.balance = there.balance /\ here.nonce = there.nonce
      /\ here.code # there.code => here.code = m.code[a]
      /\ m.code[a] # s.code[a] => a \in d /\ m.code[a] = NoCode
      /\ \A k \in Slot : m.storage[a][k] # s.storage[a][k] => a \in d /\ m.storage[a][k] = Zero

\* A block that both stores apply leaves them in agreement.
LEMMA CommitStep ==
  ASSUME NEW m \in Accounts, NEW s \in Accounts, NEW c \in StateChanges, NEW d, NEW a \in Address,
         AgreeAt(m, s, d, a)
  PROVE  AgreeAt(ApplyInMemory(m, c), ApplyToStore(s, c), d \cup c.deleted, a)
<1> DEFINE mm == ApplyInMemory(m, c)
           ss == ApplyToStore(s, c)
           dd == d \cup c.deleted
           After == Changed(m, c, a)
           was == IF After = None THEN Empty ELSE After
           there == AccountOf(ss, a)
<1>1. /\ mm.code[a] = IF c.created[a] # None THEN c.created[a]
                      ELSE IF a \in c.deleted THEN NoCode ELSE m.code[a]
      /\ \A k \in Slot : mm.storage[a][k] = IF c.storage[a][k] # None THEN c.storage[a][k]
                                            ELSE IF a \in c.deleted THEN Zero ELSE m.storage[a][k]
  BY AppliedToContract
<1>2. /\ After \in Account \cup {None} /\ was \in Account
      /\ mm.accounts[a] = IF c.created[a] = None THEN After
                          ELSE [balance |-> was.balance, nonce |-> was.nonce, code |-> c.created[a]]
  BY AppliedInMemory
<1>3. /\ ss.accounts[a] = IF a \in c.deleted THEN None
                          ELSE IF c.modified[a] # None THEN c.modified[a] ELSE s.accounts[a]
      /\ ss.code[a] = IF c.created[a] # None THEN c.created[a] ELSE s.code[a]
      /\ \A k \in Slot : ss.storage[a][k] = IF c.storage[a][k] # None THEN c.storage[a][k]
                                            ELSE s.storage[a][k]
  BY DEF ApplyToStore
<1>4. /\ m.accounts[a] \in Account \cup {None} /\ s.accounts[a] \in Account \cup {None}
      /\ c.modified[a] \in Account \cup {None} /\ c.created[a] \in Code \cup {None}
      /\ None \notin Account
  BY LedgerAssumption DEF Accounts, StateChanges
\* but for a contract created in memory, both have the same balance and nonce
<1>5. /\ was.balance = there.balance /\ was.nonce = there.nonce
      /\ was.code # there.code => a \notin c.deleted /\ was.code = m.code[a]
  <2> HIDE DEF mm, ss
  <2>1. CASE a \in c.deleted
    BY <1>3, <2>1 DEF Changed, AccountOf
  <2>2. CASE a \notin c.deleted /\ c.modified[a] # None
    <3>1. was = c.modified[a]
      BY <1>4, <2>2, KeptReadsBack DEF Changed
    <3>2. there = c.modified[a]
      BY <1>3, <2>2 DEF AccountOf
    <3> QED
      BY <3>1, <3>2
  <2>3. CASE a \notin c.deleted /\ c.modified[a] = None
    <3>1. was = AccountOf(m, a) /\ there = AccountOf(s, a)
      BY <1>3, <2>3 DEF Changed, AccountOf
    <3> QED
      BY <2>3, <3>1 DEF AgreeAt
  <2> QED
    BY <2>1, <2>2, <2>3
<1>6. LET here == AccountOf(mm, a)
      IN  here = IF c.created[a] = None THEN was
                 ELSE [balance |-> was.balance, nonce |-> was.nonce, code |-> c.created[a]]
  <2>1. c.created[a] # None =>
          [balance |-> was.balance, nonce |-> was.nonce, code |-> c.created[a]] \in Account
    <3> HIDE DEF was
    <3> QED
      BY <1>2, <1>4 DEF Account
  <2> HIDE DEF mm, After
  <2> QED
    BY <1>2, <1>4, <2>1 DEF AccountOf
<1> HIDE DEF mm, ss, dd, After, was, there
<1>7. /\ m.code[a] # s.code[a] => a \in d /\ m.code[a] = NoCode
      /\ \A k \in Slot : m.storage[a][k] # s.storage[a][k] => a \in d /\ m.storage[a][k] = Zero
  BY DEF AgreeAt
<1>8. mm.code[a] # ss.code[a] => a \in dd /\ mm.code[a] = NoCode
  BY <1>1, <1>3, <1>7 DEF dd
<1>9. \A k \in Slot : mm.storage[a][k] # ss.storage[a][k] => a \in dd /\ mm.storage[a][k] = Zero
  BY <1>1, <1>3, <1>7 DEF dd
<1>10. LET here == AccountOf(mm, a)
       IN  /\ here.balance = there.balance /\ here.nonce = there.nonce
           /\ here.code # there.code => here.code = mm.code[a]
  BY <1>1, <1>5, <1>6
<1>11. AgreeAt(mm, ss, dd, a)
  BY <1>8, <1>9, <1>10 DEF AgreeAt, there
<1> QED
  BY <1>11 DEF mm, ss, dd

\* A transfer changes two accounts, and neither code nor storage.
LEMMA TransferStep ==
  ASSUME NEW s \in Accounts, NEW from \in Address, NEW to \in Address, NEW n \in Amount,
         from # to => /\ AccountOf(s, from).balance >= n
                      /\ AccountOf(s, to).balance + n < U128
  PROVE  LET r == Transferred(s, from, to, n)
         IN  /\ r \in Accounts
             /\ \A a \in Address \ {from, to} : r.accounts[a] = s.accounts[a]
             /\ r.code = s.code /\ r.storage = s.storage
<1>1. CASE from = to
  BY <1>1 DEF Transferred
<1>2. CASE from # to
  <2> DEFINE debited == [AccountOf(s, from) EXCEPT !.balance = @ - n]
             credited == [AccountOf(s, to) EXCEPT !.balance = @ + n]
             after == [s.accounts EXCEPT ![from] = Kept(debited), ![to] = Kept(credited)]
  <2>1. debited \in Account /\ credited \in Account
    <3>1. AccountOf(s, from) \in Account /\ AccountOf(s, to) \in Account
      BY AccountOfType
    <3>2. n \in Nat /\ U128 \in Nat
      BY LedgerAssumption
    <3>3. AccountOf(s, from).balance - n \in 0..(U128 - 1)
      BY <1>2, <3>1, <3>2 DEF Account
    <3>4. AccountOf(s, to).balance + n \in 0..(U128 - 1)
      BY <1>2, <3>1, <3>2 DEF Account
    <3> QED
      BY <3>1, <3>3, <3>4 DEF Account
  <2>2. Kept(debited) \in Account \cup {None} /\ Kept(credited) \in Account \cup {None}
    BY <2>1, KeptReadsBack
  <2>3. Transferred(s, from, to, n) = [s EXCEPT !.accounts = after]
    BY <1>2 DEF Transferred, Accounts
  <2> HIDE DEF debited, credited
  <2>4. /\ after \in [Address -> Account \cup {None}]
        /\ \A a \in Address \ {from, to} : after[a] = s.accounts[a]
    BY <2>2 DEF Accounts
  <2> HIDE DEF after
  <2>5. /\ [s EXCEPT !.accounts = after] \in Accounts
        /\ [s EXCEPT !.accounts = after].accounts = after
        /\ [s EXCEPT !.accounts = after].code = s.code
        /\ [s EXCEPT !.accounts = after].storage = s.storage
    BY <2>4 DEF Accounts
  <2> QED
    BY <2>3, <2>4, <2>5
<1> QED
  BY <1>1, <1>2

-----------------------------------------------------------------------------
\* The invariant

\* No changes change nothing.
LEMMA NoChangesApplied ==
  ASSUME NEW s \in Accounts, NEW a \in Address
  PROVE  Alike(ApplyInMemory(s, NoChanges), s, a)
<1>1. ApplyInMemory(s, NoChanges) \in Accounts
  BY NoChangesType, ApplyInMemoryType
<1>2. /\ ApplyInMemory(s, NoChanges).accounts[a] = s.accounts[a]
      /\ ApplyInMemory(s, NoChanges).code[a] = s.code[a]
      /\ \A k \in Slot : ApplyInMemory(s, NoChanges).storage[a][k] = s.storage[a][k]
  BY DEF ApplyInMemory, NoChanges
<1>3. ApplyInMemory(s, NoChanges).storage[a] = s.storage[a]
  BY <1>1, <1>2 DEF Accounts
<1> QED
  BY <1>2, <1>3 DEF Alike

\* The two properties, address by address
LEMMA ByAddress ==
  /\ MergedLikeSerial <=> \A a \in Address \ crossed : Alike(ApplyInMemory(memory, block), serial, a)
  /\ StoresAgree <=> \A a \in Address : AgreeAt(memory, stored, deleted, a)
BY DEF MergedLikeSerial, StoresAgree, Alike, AgreeAt

\* Both stores start empty.
THEOREM LedgerInitInv == LedgerInit => LedgerInv
<1> SUFFICES ASSUME LedgerInit PROVE LedgerInv
  OBVIOUS
<1>1. NoAccounts \in Accounts
  BY LedgerAssumption DEF NoAccounts, Accounts
<1>2. LedgerTypeOK
  BY <1>1, NoChangesType, LedgerAssumption DEF LedgerInit, LedgerTypeOK
<1>3. MergedLikeSerial
  BY <1>1, NoChangesApplied, ByAddress DEF LedgerInit
<1>4. StoresAgree
  BY DEF LedgerInit, StoresAgree
<1> QED
  BY <1>2, <1>3, <1>4 DEF LedgerInv

\* A change of the transaction that runs touches neither store yet.
LEMMA ChangeKeepsInv ==
  ASSUME LedgerInv, NEW c \in StateChanges, Change(c)
  PROVE  LedgerInv'
<1>1. calls' \in 0..MaxCalls
  BY LedgerAssumption DEF Change, LedgerInv, LedgerTypeOK
<1>2. LedgerTypeOK'
  BY <1>1 DEF Change, LedgerInv, LedgerTypeOK
<1>3. MergedLikeSerial' /\ StoresAgree'
  BY DEF Change, LedgerInv, MergedLikeSerial, StoresAgree
<1> QED
  BY <1>2, <1>3 DEF LedgerInv

\* The end of a transaction merges its changes.
LEMMA EndTransactionKeepsInv ==
  ASSUME LedgerInv, EndTransaction
  PROVE  LedgerInv'
<1>1. /\ memory \in Accounts /\ serial \in Accounts /\ tx \in StateChanges /\ block \in StateChanges
      /\ block' = Merge(block, tx) /\ serial' = ApplyInMemory(serial, tx)
      /\ crossed' = crossed \cup {a \in Address : Crosses(block, tx, a)}
      /\ tx' = NoChanges /\ UNCHANGED <<memory, stored, deleted, calls>>
  BY DEF LedgerInv, LedgerTypeOK, EndTransaction
<1>2. LedgerTypeOK'
  BY <1>1, MergeType, ApplyInMemoryType, NoChangesType DEF LedgerInv, LedgerTypeOK
<1>3. MergedLikeSerial'
  <2>1. ASSUME NEW a \in Address \ crossed'
        PROVE  Alike(ApplyInMemory(memory, Merge(block, tx)), ApplyInMemory(serial, tx), a)
    <3>1. Alike(ApplyInMemory(memory, block), serial, a) /\ ~Crosses(block, tx, a)
      BY <1>1, ByAddress DEF LedgerInv
    <3> QED
      BY <1>1, <3>1, MergeStep
  <2> QED
    BY <1>1, <2>1 DEF MergedLikeSerial, Alike
<1>4. StoresAgree'
  BY <1>1 DEF LedgerInv, StoresAgree
<1> QED
  BY <1>2, <1>3, <1>4 DEF LedgerInv

\* The end of a block: both stores apply the same changes.
LEMMA CommitKeepsInv ==
  ASSUME LedgerInv, Commit
  PROVE  LedgerInv'
<1>1. /\ memory \in Accounts /\ stored \in Accounts /\ block \in StateChanges
      /\ memory' = ApplyInMemory(memory, block) /\ stored' = ApplyToStore(stored, block)
      /\ serial' = memory' /\ deleted' = deleted \cup block.deleted /\ block.deleted \subseteq Address
      /\ block' = NoChanges /\ crossed' = {} /\ UNCHANGED <<tx, calls>>
  BY DEF LedgerInv, LedgerTypeOK, Commit, StateChanges
<1>2. memory' \in Accounts /\ stored' \in Accounts
  BY <1>1, ApplyInMemoryType, ApplyToStoreType
<1>3. LedgerTypeOK'
  BY <1>1, <1>2, NoChangesType DEF LedgerInv, LedgerTypeOK
<1>4. MergedLikeSerial'
  BY <1>1, <1>2, NoChangesApplied DEF MergedLikeSerial, Alike
<1>5. StoresAgree'
  <2>1. \A a \in Address : AgreeAt(memory', stored', deleted', a)
    BY <1>1, CommitStep, ByAddress DEF LedgerInv
  <2> QED
    BY <2>1 DEF StoresAgree, AgreeAt
<1> QED
  BY <1>3, <1>4, <1>5 DEF LedgerInv

\* A transfer, made in memory and written through.
LEMMA TransferKeepsInv ==
  ASSUME LedgerInv, NEW from \in Address, NEW to \in Address, NEW n \in Amount, Transfer(from, to, n)
  PROVE  LedgerInv'
<1>1. /\ memory \in Accounts /\ stored \in Accounts /\ serial' = memory' /\ block = NoChanges
      /\ memory' = Transferred(memory, from, to, n)
      /\ UNCHANGED <<tx, block, crossed, deleted, calls>>
  BY DEF LedgerInv, LedgerTypeOK, Transfer
<1>2. /\ memory' \in Accounts
      /\ \A a \in Address \ {from, to} : memory'.accounts[a] = memory.accounts[a]
      /\ memory'.code = memory.code /\ memory'.storage = memory.storage
  BY <1>1, TransferStep DEF Transfer
<1>3. AccountOf(memory', from) \in Account /\ AccountOf(memory', to) \in Account
  BY <1>2, AccountOfType
<1>4. /\ stored' \in Accounts
      /\ \A a \in Address : stored'.accounts[a] = IF a \in {from, to} THEN AccountOf(memory', a)
                                                  ELSE stored.accounts[a]
      /\ stored'.code = stored.code /\ stored'.storage = stored.storage
  <2> DEFINE puts == [stored.accounts EXCEPT ![from] = AccountOf(memory', from),
                                             ![to] = AccountOf(memory', to)]
  <2>1. stored' = [stored EXCEPT !.accounts = puts]
    BY <1>1 DEF Transfer, Accounts
  <2>2. /\ puts \in [Address -> Account \cup {None}]
        /\ \A a \in Address : puts[a] = IF a \in {from, to} THEN AccountOf(memory', a)
                                        ELSE stored.accounts[a]
    BY <1>1, <1>3 DEF Accounts
  <2> HIDE DEF puts
  <2> QED
    BY <1>1, <2>1, <2>2 DEF Accounts
<1>5. LedgerTypeOK'
  BY <1>1, <1>2, <1>4 DEF LedgerInv, LedgerTypeOK
<1>6. MergedLikeSerial'
  BY <1>1, <1>2, NoChangesApplied DEF MergedLikeSerial, Alike
<1>7. StoresAgree'
  <2> SUFFICES ASSUME NEW a \in Address PROVE AgreeAt(memory', stored', deleted', a)
    BY DEF StoresAgree, AgreeAt
  <2>1. AgreeAt(memory, stored, deleted, a)
    BY ByAddress DEF LedgerInv
  <2>2. CASE a \in {from, to}
    <3>1. AccountOf(stored', a) = AccountOf(memory', a)
      BY <1>3, <1>4, <2>2, LedgerAssumption DEF AccountOf
    <3> QED
      BY <1>1, <1>2, <1>4, <2>1, <3>1 DEF AgreeAt
  <2>3. CASE a \notin {from, to}
    <3>1. AccountOf(stored', a) = AccountOf(stored, a) /\ AccountOf(memory', a) = AccountOf(memory, a)
      BY <1>2, <1>4, <2>3 DEF AccountOf
    <3> QED
      BY <1>1, <1>2, <1>4, <2>1, <3>1 DEF AgreeAt
  <2> QED
    BY <2>2, <2>3
<1> QED
  BY <1>5, <1>6, <1>7 DEF LedgerInv

\* The changes that callers can make are state changes.
LEMMA ChangesMade ==
  ASSUME tx \in StateChanges, NEW a \in Address
  PROVE  /\ \A acc \in Posted : [tx EXCEPT !.modified[a] = acc] \in StateChanges
         /\ [tx EXCEPT !.deleted = @ \cup {a}, !.modified[a] = None] \in StateChanges
         /\ \A code \in Code : [tx EXCEPT !.created[a] = code] \in StateChanges
         /\ \A k \in Slot, v \in Value : [tx EXCEPT !.storage[a][k] = v] \in StateChanges
BY LedgerAssumption DEF StateChanges

\* Every step of the ledger keeps the invariant.
THEOREM LedgerStepInv == LedgerInv /\ [LedgerNext]_ledgerVars => LedgerInv'
<1> SUFFICES ASSUME LedgerInv, [LedgerNext]_ledgerVars PROVE LedgerInv'
  OBVIOUS
<1>1. CASE UNCHANGED ledgerVars
  BY <1>1 DEF ledgerVars, LedgerInv, LedgerTypeOK, MergedLikeSerial, StoresAgree
<1>2. ASSUME NEW a \in Address,
             \/ \E acc \in Posted : ModifyAccount(a, acc)
             \/ DeleteAccount(a)
             \/ \E code \in Code : CreateContract(a, code)
             \/ \E k \in Slot, v \in Value : SetStorage(a, k, v)
      PROVE  LedgerInv'
  <2>1. PICK c \in StateChanges : Change(c)
    BY <1>2, ChangesMade DEF LedgerInv, LedgerTypeOK, ModifyAccount, DeleteAccount, CreateContract, SetStorage
  <2> QED
    BY <2>1, ChangeKeepsInv
<1>3. CASE EndTransaction
  BY <1>3, EndTransactionKeepsInv
<1>4. CASE Commit
  BY <1>4, CommitKeepsInv
<1>5. ASSUME NEW from \in Address, NEW to \in Address, NEW n \in Amount, Transfer(from, to, n)
      PROVE  LedgerInv'
  BY <1>5, TransferKeepsInv
<1> QED
  BY <1>1, <1>2, <1>3, <1>4, <1>5 DEF LedgerNext

\* The types of the state hold in every reachable state.
THEOREM LedgerTypeCorrect == LedgerSpec => []LedgerTypeOK
<1>1. LedgerInv => LedgerTypeOK
  BY DEF LedgerInv
<1> QED
  BY <1>1, LedgerInitInv, LedgerStepInv, PTL DEF LedgerSpec

\* Merging the changes of a block's transactions and applying them once gives
\* what applying them one by one gives, but for the addresses where they cross.
THEOREM MergedLikeSerialCorrect == LedgerSpec => []MergedLikeSerial
<1>1. LedgerInv => MergedLikeSerial
  BY DEF LedgerInv
<1> QED
  BY <1>1, LedgerInitInv, LedgerStepInv, PTL DEF LedgerSpec

\* The two stores hold the same balances and nonces for ever, and the same code
\* and storage but for what deletions and set_code leave behind.
THEOREM StoresAgreeCorrect == LedgerSpec => []StoresAgree
<1>1. LedgerInv => StoresAgree
  BY DEF LedgerInv
<1> QED
  BY <1>1, LedgerInitInv, LedgerStepInv, PTL DEF LedgerSpec

-----------------------------------------------------------------------------
(***************************************************************************)
(* The peer table.                                                         *)
(***************************************************************************)

\* A peer that is about to be inserted is not banned, but for a race.
InsertInv ==
  \A t \in Thread :
    thread[t].at = "insert" /\ Banned(thread[t].peer) => thread[t].peer \in raced

\* Nothing was seen in the future.
SeenInv ==
  /\ \A p \in Present : peers[p] <= now
  /\ \A t \in Thread : /\ thread[t].at \in {"count", "check", "unban", "insert"} => thread[t].seen <= now
                       /\ thread[t].at = "scan" => thread[t].began <= now

\* What a cleanup knows of the peers that were not seen while it runs: they were
\* last seen before it began, and those it collected too long before.
CleanupInv ==
  \A t \in Thread : \A p \in Present \ touched[t] :
    /\ thread[t].at = "scan" => peers[p] <= thread[t].began
    /\ thread[t].at \in {"scan", "sweep"} /\ p \in thread[t].stale => now > peers[p] + MaxIdle

PeerInv == PeerTypeOK /\ BannedStayOut /\ InsertInv /\ SeenInv /\ CleanupInv

-----------------------------------------------------------------------------

\* What the place of a thread says of the rest of its record
LEMMA CallFields ==
  ASSUME NEW c \in Call
  PROVE  /\ c.at \in {"count", "check", "unban", "insert"} => c.peer \in Peer /\ c.seen \in Time
         /\ c.at = "count" => c.shard \in Nat /\ c.n \in Nat
         /\ c.at = "ban" => c.peer \in Peer /\ c.until \in Nat
         /\ c.at = "unseat" => c.peer \in Peer
         /\ c.at \in {"scan", "sweep"} => c.stale \subseteq Peer
         /\ c.at = "scan" => c.began \in Time /\ c.shard \in Nat
BY DEF Call, Idle

\* A new table is empty, and satisfies the invariant.
THEOREM InitEstablishesPeerInv == PeerInit => PeerInv
<1> SUFFICES ASSUME PeerInit PROVE PeerInv
  OBVIOUS
<1>1. Present = {} /\ \A t \in Thread : thread[t].at = "idle"
  BY DEF PeerInit, Present, Idle
<1>2. PeerTypeOK
  BY PeerAssumption DEF PeerInit, PeerTypeOK, Call, Time
<1> QED
  BY <1>1, <1>2 DEF PeerInv, BannedStayOut, InsertInv, SeenInv, CleanupInv

-----------------------------------------------------------------------------

\* A thread moves on alone.
LEMMA GotoEffect ==
  ASSUME PeerTypeOK, NEW t \in Thread, NEW c \in Call, Goto(t, c)
  PROVE  /\ thread' \in [Thread -> Call] /\ thread'[t] = c
         /\ \A u \in Thread : u # t => thread'[u] = thread[u]
BY DEF PeerTypeOK, Goto

\* A step of one thread that leaves the clock, the maps and the histories alone
\* keeps the invariant if it puts the thread at a place that fits.
LEMMA QuietStep ==
  ASSUME PeerInv, NEW t \in Thread, NEW c \in Call, Goto(t, c),
         UNCHANGED <<now, peers, bans, touched, raced>>,
         thread[t].at # "unseat",
         c.at = "insert" /\ Banned(c.peer) => c.peer \in raced,
         c.at \in {"count", "check", "unban", "insert"} => c.seen <= now,
         c.at = "scan" => c.began <= now,
         \A p \in Present \ touched[t] :
           /\ c.at = "scan" => peers[p] <= c.began
           /\ c.at \in {"scan", "sweep"} /\ p \in c.stale => now > peers[p] + MaxIdle
  PROVE  PeerInv'
<1>1. /\ thread' \in [Thread -> Call] /\ thread'[t] = c
      /\ \A u \in Thread : u # t => thread'[u] = thread[u]
  BY GotoEffect DEF PeerInv
<1>2. Present' = Present /\ \A p \in Peer : Banned(p)' <=> Banned(p)
  BY DEF Present, Banned
<1>3. PeerTypeOK'
  BY <1>1 DEF PeerInv, PeerTypeOK
<1>4. BannedStayOut'
  BY <1>1, <1>2 DEF PeerInv, BannedStayOut, Present
<1>5. InsertInv'
  BY <1>1 DEF PeerInv, InsertInv, Banned
<1>6. SeenInv'
  BY <1>1, <1>2 DEF PeerInv, SeenInv
<1>7. CleanupInv'
  BY <1>1, <1>2 DEF PeerInv, CleanupInv
<1> QED
  BY <1>3, <1>4, <1>5, <1>6, <1>7 DEF PeerInv

-----------------------------------------------------------------------------
\* One lemma for each action

\* add_peer reads the clock, and has counted nothing yet.
LEMMA AddKeepsPeerInv ==
  ASSUME PeerInv, NEW t \in Thread, NEW p \in Peer, Add(t, p)
  PROVE  PeerInv'
<1> DEFINE c == [at |-> "count", peer |-> p, seen |-> now, shard |-> 1, n |-> 0]
<1>1. c \in Call /\ thread[t].at # "unseat"
  BY DEF Call, PeerInv, PeerTypeOK, Add, Idle
<1>2. now <= now
  BY DEF PeerInv, PeerTypeOK, Time
<1> QED
  BY <1>1, <1>2, QuietStep DEF Add

\* Counting the shards leaves the call where it was, or moves it to the check of the ban.
LEMMA CountKeepsPeerInv ==
  ASSUME PeerInv, NEW t \in Thread, Count(t)
  PROVE  PeerInv'
<1> DEFINE c == thread[t]
           n == c.n + Cardinality({p \in Present : ShardOf[p] = c.shard})
           on == [c EXCEPT !.shard = @ + 1, !.n = n]
           check == [at |-> "check", peer |-> c.peer, seen |-> c.seen]
<1>1. c \in [at : {"count"}, peer : Peer, seen : Time, shard : Nat, n : Nat] /\ c.seen <= now
  BY DEF Count, PeerInv, PeerTypeOK, SeenInv, Call, Idle
<1>2. n \in Nat
  <2>1. IsFiniteSet({p \in Present : ShardOf[p] = c.shard})
    BY PeerAssumption, FS_Subset DEF Present
  <2> QED
    BY <1>1, <2>1, FS_CardinalityType
<1> HIDE DEF n
<1>3. on \in Call /\ on.at = "count" /\ on.seen = c.seen
  <2>1. c.shard + 1 \in Nat
    BY <1>1
  <2> HIDE DEF c
  <2>2. /\ on \in [at : {"count"}, peer : Peer, seen : Time, shard : Nat, n : Nat]
        /\ on.seen = c.seen
    BY <1>1, <1>2, <2>1
  <2> QED
    BY <2>2 DEF Call
<1>4. check \in Call
  BY <1>1 DEF Call
<1>5. Idle \in Call /\ Idle.at = "idle"
  BY DEF Call, Idle
<1>6. /\ Goto(t, on) \/ Goto(t, check) \/ Goto(t, Idle)
      /\ UNCHANGED <<now, peers, bans, touched, raced>>
  BY DEF Count, n
<1>7. CASE Goto(t, on)
  BY <1>1, <1>3, <1>6, <1>7, QuietStep
<1>8. CASE Goto(t, check)
  BY <1>1, <1>4, <1>6, <1>8, QuietStep
<1>9. CASE Goto(t, Idle)
  BY <1>1, <1>5, <1>6, <1>9, QuietStep
<1> QED
  BY <1>6, <1>7, <1>8, <1>9

\* Only a thread that found no ban goes on to the insertion.
LEMMA CheckKeepsPeerInv ==
  ASSUME PeerInv, NEW t \in Thread, Check(t)
  PROVE  PeerInv'
<1> DEFINE c == thread[t]
<1>1. c \in [at : {"check", "unban", "insert"}, peer : Peer, seen : Time] /\ c.at = "check" /\ c.seen <= now
  BY DEF Check, PeerInv, PeerTypeOK, SeenInv, Call, Idle
<1>2. Idle \in Call /\ Idle.at = "idle"
  BY DEF Call, Idle
<1>3. /\ [c EXCEPT !.at = "insert"] \in Call /\ [c EXCEPT !.at = "unban"] \in Call
  BY <1>1 DEF Call
<1>4. CASE Goto(t, Idle)
  BY <1>1, <1>2, <1>4, QuietStep DEF Check
<1>5. CASE bans[c.peer] = Absent /\ Goto(t, [c EXCEPT !.at = "insert"])
  BY <1>1, <1>3, <1>5, QuietStep DEF Check, Banned
<1>6. CASE Goto(t, [c EXCEPT !.at = "unban"])
  BY <1>1, <1>3, <1>6, QuietStep DEF Check
<1> QED
  BY <1>4, <1>5, <1>6 DEF Check

\* ban_peer starts with the time at which the ban ends.
LEMMA BanKeepsPeerInv ==
  ASSUME PeerInv, NEW t \in Thread, NEW p \in Peer, NEW d \in Duration, Ban(t, p, d)
  PROVE  PeerInv'
<1> DEFINE c == [at |-> "ban", peer |-> p, until |-> now + d]
<1>1. c \in Call /\ thread[t].at # "unseat"
  BY PeerAssumption DEF Call, PeerInv, PeerTypeOK, Ban, Idle, Time
<1> QED
  BY <1>1, QuietStep DEF Ban

\* A cleanup reads the clock and has collected nobody.
LEMMA CleanUpKeepsPeerInv ==
  ASSUME PeerInv, NEW t \in Thread, CleanUp(t)
  PROVE  PeerInv'
<1> DEFINE c == [at |-> "scan", began |-> now, shard |-> 1, stale |-> {}]
<1>1. c \in Call /\ thread[t].at # "unseat"
  BY DEF Call, PeerInv, PeerTypeOK, CleanUp, Idle
<1>2. now <= now /\ \A p \in Present : peers[p] <= now
  BY DEF PeerInv, PeerTypeOK, SeenInv, Time
<1> QED
  BY <1>1, <1>2, QuietStep DEF CleanUp

\* Only for a peer seen since the cleanup began can the subtraction wrap around.
LEMMA ScanKeepsPeerInv ==
  ASSUME PeerInv, NEW t \in Thread, Scan(t)
  PROVE  PeerInv'
<1> DEFINE c == thread[t]
           stale == c.stale \cup {p \in Present : ShardOf[p] = c.shard /\ Stale(p, c.began)}
           on == [c EXCEPT !.shard = @ + 1, !.stale = stale]
           sweep == [at |-> "sweep", stale |-> stale]
<1>1. /\ c \in [at : {"scan"}, began : Time, shard : Nat, stale : SUBSET Peer]
      /\ c.began <= now /\ c.began \in Nat /\ now \in Nat
  BY PeerAssumption DEF Scan, PeerInv, PeerTypeOK, SeenInv, Call, Idle, Time
<1>2. stale \subseteq Peer
  BY <1>1 DEF Present
<1>3. \A p \in Present \ touched[t] : p \in stale => now > peers[p] + MaxIdle
  <2> SUFFICES ASSUME NEW p \in Present \ touched[t], p \in stale
               PROVE  now > peers[p] + MaxIdle
    OBVIOUS
  <2>1. peers[p] \in Nat /\ peers[p] <= c.began
    BY <1>1 DEF PeerInv, CleanupInv, PeerTypeOK, Present, Time
  <2>2. CASE p \in c.stale
    BY <1>1, <2>2 DEF PeerInv, CleanupInv
  <2>3. CASE Stale(p, c.began)
    BY <1>1, <2>1, <2>3, PeerAssumption DEF Stale, Minus
  <2> QED
    BY <2>2, <2>3
<1> HIDE DEF stale
<1>4. on \in Call /\ on.at = "scan" /\ on.began = c.began /\ on.stale = stale
  <2>1. c.shard + 1 \in Nat
    BY <1>1
  <2> HIDE DEF c
  <2>2. /\ on \in [at : {"scan"}, began : Time, shard : Nat, stale : SUBSET Peer]
        /\ on.began = c.began /\ on.stale = stale
    BY <1>1, <1>2, <2>1
  <2> QED
    BY <2>2 DEF Call
<1>5. sweep \in Call
  BY <1>2 DEF Call
<1>6. \A p \in Present \ touched[t] : peers[p] <= c.began
  BY <1>1 DEF PeerInv, CleanupInv
<1>7. (Goto(t, on) \/ Goto(t, sweep)) /\ UNCHANGED <<now, peers, bans, touched, raced>>
  BY DEF Scan, stale
<1>8. CASE Goto(t, on)
  BY <1>1, <1>3, <1>4, <1>6, <1>7, <1>8, QuietStep
<1>9. CASE Goto(t, sweep)
  BY <1>1, <1>3, <1>5, <1>7, <1>9, QuietStep
<1> QED
  BY <1>7, <1>8, <1>9

\* Time passes: bans only expire, and nothing is seen in the future.
LEMMA TickKeepsPeerInv ==
  ASSUME PeerInv, Tick
  PROVE  PeerInv'
<1>1. now \in Nat /\ now' = now + 1 /\ now' \in Time /\ UNCHANGED <<peers, bans, thread, touched, raced>>
  BY PeerAssumption DEF PeerInv, PeerTypeOK, Tick, Time
<1>2. Present' = Present /\ Present \subseteq Peer
  BY <1>1 DEF Present
<1>3. \A p \in Peer : Banned(p)' => Banned(p)
  BY <1>1, PeerAssumption DEF Banned, PeerInv, PeerTypeOK
<1>4. PeerTypeOK'
  BY <1>1 DEF PeerInv, PeerTypeOK
<1>5. BannedStayOut'
  BY <1>1, <1>2, <1>3 DEF PeerInv, BannedStayOut
<1>6. InsertInv'
  BY <1>1, <1>3, CallFields DEF PeerInv, InsertInv, PeerTypeOK
<1>7. /\ \A p \in Present : peers[p] \in Nat
      /\ \A t \in Thread : /\ thread[t].at \in {"count", "check", "unban", "insert"} => thread[t].seen \in Nat
                           /\ thread[t].at = "scan" => thread[t].began \in Nat
  BY CallFields DEF PeerInv, PeerTypeOK, Present, Time
<1>8. SeenInv'
  BY <1>1, <1>2, <1>7 DEF PeerInv, SeenInv
<1>9. CleanupInv'
  BY <1>1, <1>2, <1>7, PeerAssumption DEF PeerInv, CleanupInv
<1> QED
  BY <1>4, <1>5, <1>6, <1>8, <1>9 DEF PeerInv

\* A peer enters the table or is seen: every cleanup that runs is told.
LEMMA SeenEffect ==
  ASSUME PeerTypeOK, NEW p \in Peer, NEW seen \in Time,
         peers' = [peers EXCEPT ![p] = seen], Touched(p)
  PROVE  /\ peers' \in [Peer -> Time \cup {Absent}] /\ peers'[p] = seen
         /\ \A q \in Peer : q # p => peers'[q] = peers[q]
         /\ Present' = Present \cup {p}
         /\ touched' \in [Thread -> SUBSET Peer]
         /\ \A t \in Thread :
              /\ thread[t].at \in {"scan", "sweep"} => p \in touched'[t]
              /\ \A q \in Peer : q # p => (q \in touched'[t] <=> q \in touched[t])
<1>1. Absent \notin Time
  BY PeerAssumption DEF Time
<1> QED
  BY <1>1 DEF PeerTypeOK, Touched, Present

\* A peer is inserted with the time its call began.
LEMMA InsertKeepsPeerInv ==
  ASSUME PeerInv, NEW t \in Thread, Insert(t)
  PROVE  PeerInv'
<1> DEFINE p == thread[t].peer
           seen == thread[t].seen
<1>1. thread[t].at = "insert" /\ p \in Peer /\ seen \in Time /\ seen <= now
  BY CallFields DEF PeerInv, PeerTypeOK, SeenInv, Insert
<1>2. Idle \in Call /\ Idle.at = "idle"
  BY DEF Call, Idle
<1>3. /\ thread' \in [Thread -> Call] /\ thread'[t] = Idle
      /\ \A u \in Thread : u # t => thread'[u] = thread[u]
  BY <1>2, GotoEffect DEF PeerInv, Insert
<1>4. /\ peers' \in [Peer -> Time \cup {Absent}] /\ peers'[p] = seen
      /\ \A q \in Peer : q # p => peers'[q] = peers[q]
      /\ Present' = Present \cup {p}
      /\ touched' \in [Thread -> SUBSET Peer]
      /\ \A u \in Thread :
           /\ thread[u].at \in {"scan", "sweep"} => p \in touched'[u]
           /\ \A q \in Peer : q # p => (q \in touched'[u] <=> q \in touched[u])
  BY <1>1, SeenEffect DEF PeerInv, Insert
<1>5. UNCHANGED <<now, bans, raced>> /\ Present \subseteq Peer
  BY DEF Insert, Present
<1>6. PeerTypeOK'
  BY <1>3, <1>4, <1>5 DEF PeerInv, PeerTypeOK
<1>7. Banned(p) => p \in raced
  BY <1>1 DEF PeerInv, InsertInv
<1>8. BannedStayOut'
  BY <1>1, <1>2, <1>3, <1>4, <1>5, <1>7 DEF PeerInv, BannedStayOut, Banned
<1>9. InsertInv'
  BY <1>2, <1>3, <1>5 DEF PeerInv, InsertInv, Banned
<1>10. SeenInv'
  BY <1>1, <1>2, <1>3, <1>4, <1>5 DEF PeerInv, SeenInv
<1>11. CleanupInv'
  BY <1>2, <1>3, <1>4, <1>5 DEF PeerInv, CleanupInv
<1> QED
  BY <1>6, <1>8, <1>9, <1>10, <1>11 DEF PeerInv

\* A peer that is seen is no longer one a cleanup may take for stale.
LEMMA TouchKeepsPeerInv ==
  ASSUME PeerInv, NEW t \in Thread, NEW p \in Peer, Touch(t, p)
  PROVE  PeerInv'
<1>1. now \in Time /\ now <= now
  BY DEF PeerInv, PeerTypeOK, Time
<1>2. /\ peers' \in [Peer -> Time \cup {Absent}] /\ peers'[p] = now
      /\ \A q \in Peer : q # p => peers'[q] = peers[q]
      /\ Present' = Present \cup {p}
      /\ touched' \in [Thread -> SUBSET Peer]
      /\ \A u \in Thread :
           /\ thread[u].at \in {"scan", "sweep"} => p \in touched'[u]
           /\ \A q \in Peer : q # p => (q \in touched'[u] <=> q \in touched[u])
  BY <1>1, SeenEffect DEF PeerInv, Touch
<1>3. UNCHANGED <<now, bans, thread, raced>> /\ p \in Present /\ Present \subseteq Peer
  BY DEF Touch, Present
<1>4. PeerTypeOK'
  BY <1>2, <1>3 DEF PeerInv, PeerTypeOK
<1>5. BannedStayOut' /\ InsertInv'
  BY <1>2, <1>3 DEF PeerInv, BannedStayOut, InsertInv, Banned
<1>6. SeenInv'
  BY <1>1, <1>2, <1>3 DEF PeerInv, SeenInv
<1>7. CleanupInv'
  BY <1>2, <1>3 DEF PeerInv, CleanupInv
<1> QED
  BY <1>4, <1>5, <1>6, <1>7 DEF PeerInv

\* A peer leaves the table.
LEMMA AbsentEffect ==
  ASSUME PeerTypeOK, NEW p \in Peer, peers' = [peers EXCEPT ![p] = Absent]
  PROVE  /\ peers' \in [Peer -> Time \cup {Absent}]
         /\ \A q \in Peer : q # p => peers'[q] = peers[q]
         /\ Present' = Present \ {p} /\ Present \subseteq Peer
BY DEF PeerTypeOK, Present

\* A peer that is gone is neither banned in the table nor stale.
LEMMA RemoveKeepsPeerInv ==
  ASSUME PeerInv, NEW t \in Thread, NEW p \in Peer, Remove(t, p)
  PROVE  PeerInv'
<1>1. /\ peers' \in [Peer -> Time \cup {Absent}]
      /\ \A q \in Peer : q # p => peers'[q] = peers[q]
      /\ Present' = Present \ {p} /\ Present \subseteq Peer
      /\ UNCHANGED <<now, bans, thread, touched, raced>>
  BY AbsentEffect DEF PeerInv, Remove
<1>2. PeerTypeOK' /\ BannedStayOut' /\ InsertInv'
  BY <1>1 DEF PeerInv, PeerTypeOK, BannedStayOut, InsertInv, Banned
<1>3. SeenInv' /\ CleanupInv'
  BY <1>1 DEF PeerInv, SeenInv, CleanupInv
<1> QED
  BY <1>2, <1>3 DEF PeerInv

\* ban_peer ends with the removal of the peer.
LEMMA UnseatKeepsPeerInv ==
  ASSUME PeerInv, NEW t \in Thread, Unseat(t)
  PROVE  PeerInv'
<1> DEFINE p == thread[t].peer
<1>1. thread[t].at = "unseat" /\ p \in Peer
  BY CallFields DEF PeerInv, PeerTypeOK, Unseat
<1>2. Idle \in Call /\ Idle.at = "idle"
  BY DEF Call, Idle
<1>3. /\ thread' \in [Thread -> Call] /\ thread'[t] = Idle
      /\ \A u \in Thread : u # t => thread'[u] = thread[u]
  BY <1>2, GotoEffect DEF PeerInv, Unseat
<1>4. /\ peers' \in [Peer -> Time \cup {Absent}]
      /\ \A q \in Peer : q # p => peers'[q] = peers[q]
      /\ Present' = Present \ {p} /\ Present \subseteq Peer
      /\ UNCHANGED <<now, bans, touched, raced>>
  BY <1>1, AbsentEffect DEF PeerInv, Unseat
<1>5. PeerTypeOK'
  BY <1>3, <1>4 DEF PeerInv, PeerTypeOK
<1>6. BannedStayOut'
  BY <1>1, <1>3, <1>4 DEF PeerInv, BannedStayOut, Banned
<1>7. InsertInv'
  BY <1>2, <1>3, <1>4 DEF PeerInv, InsertInv, Banned
<1>8. SeenInv' /\ CleanupInv'
  BY <1>2, <1>3, <1>4 DEF PeerInv, SeenInv, CleanupInv
<1> QED
  BY <1>5, <1>6, <1>7, <1>8 DEF PeerInv

\* The cleanup removes one of the peers it collected.
LEMMA SweepKeepsPeerInv ==
  ASSUME PeerInv, NEW t \in Thread, NEW p \in Peer, Sweep(t, p)
  PROVE  PeerInv'
<1> DEFINE c == [thread[t] EXCEPT !.stale = @ \ {p}]
<1>1. thread[t] \in [at : {"sweep"}, stale : SUBSET Peer]
  BY DEF PeerInv, PeerTypeOK, Sweep, Call, Idle
<1>2. c \in Call /\ c.at = "sweep" /\ c.stale = thread[t].stale \ {p}
  BY <1>1 DEF Call
<1>3. /\ thread' \in [Thread -> Call] /\ thread'[t] = c
      /\ \A u \in Thread : u # t => thread'[u] = thread[u]
  BY <1>2, GotoEffect DEF PeerInv, Sweep
<1> HIDE DEF c
<1>4. /\ peers' \in [Peer -> Time \cup {Absent}]
      /\ \A q \in Peer : q # p => peers'[q] = peers[q]
      /\ Present' = Present \ {p} /\ Present \subseteq Peer
      /\ UNCHANGED <<now, bans, touched, raced>>
  BY AbsentEffect DEF PeerInv, Sweep
<1>5. PeerTypeOK'
  BY <1>3, <1>4 DEF PeerInv, PeerTypeOK
<1>6. BannedStayOut'
  BY <1>1, <1>2, <1>3, <1>4 DEF PeerInv, BannedStayOut, Banned
<1>7. InsertInv'
  BY <1>2, <1>3, <1>4 DEF PeerInv, InsertInv, Banned
<1>8. SeenInv'
  BY <1>2, <1>3, <1>4 DEF PeerInv, SeenInv
<1>9. CleanupInv'
  BY <1>1, <1>2, <1>3, <1>4 DEF PeerInv, CleanupInv
<1> QED
  BY <1>5, <1>6, <1>7, <1>8, <1>9 DEF PeerInv

\* A cleanup that is over forgets who was seen while it ran.
LEMMA SweptKeepsPeerInv ==
  ASSUME PeerInv, NEW t \in Thread, Swept(t)
  PROVE  PeerInv'
<1>1. Idle \in Call /\ Idle.at = "idle"
  BY DEF Call, Idle
<1>2. /\ thread' \in [Thread -> Call] /\ thread'[t] = Idle
      /\ \A u \in Thread : u # t => thread'[u] = thread[u]
  BY <1>1, GotoEffect DEF PeerInv, Swept
<1>3. /\ thread[t].at = "sweep"
      /\ touched' \in [Thread -> SUBSET Peer]
      /\ \A u \in Thread : u # t => touched'[u] = touched[u]
      /\ UNCHANGED <<now, peers, bans, raced>>
  BY DEF PeerInv, PeerTypeOK, Swept
<1>4. PeerTypeOK'
  BY <1>2, <1>3 DEF PeerInv, PeerTypeOK
<1>5. BannedStayOut' /\ InsertInv'
  BY <1>1, <1>2, <1>3 DEF PeerInv, BannedStayOut, InsertInv, Banned, Present
<1>6. SeenInv' /\ CleanupInv'
  BY <1>1, <1>2, <1>3 DEF PeerInv, SeenInv, CleanupInv, Present
<1> QED
  BY <1>4, <1>5, <1>6 DEF PeerInv

\* The ban of a peer that a thread is about to insert is noted as a race; the
\* others wait until ban_peer has removed the peer from the table.
LEMMA WriteBansKeepsPeerInv ==
  ASSUME PeerInv, NEW t \in Thread, WriteBans(t)
  PROVE  PeerInv'
<1> DEFINE p == thread[t].peer
           c == [at |-> "unseat", peer |-> p]
<1>1. thread[t].at = "ban"
  BY DEF WriteBans, Unlocked
<1>2. p \in Peer /\ thread[t].until \in Nat /\ c \in Call
  BY <1>1, CallFields DEF PeerInv, PeerTypeOK, Call
<1>3. /\ thread' \in [Thread -> Call] /\ thread'[t] = c
      /\ \A u \in Thread : u # t => thread'[u] = thread[u]
  BY <1>1, <1>2, GotoEffect DEF PeerInv, WriteBans
<1>4. /\ bans' \in [Peer -> Nat \cup {Absent}]
      /\ \A q \in Peer : q # p => bans'[q] = bans[q]
  BY <1>1, <1>2 DEF PeerInv, PeerTypeOK, WriteBans
<1>5. raced' = IF \E u \in Thread : thread[u].at = "insert" /\ thread[u].peer = p
               THEN raced \cup {p} ELSE raced \ {p}
  BY <1>1 DEF WriteBans
<1>6. UNCHANGED <<now, peers, touched>> /\ Present' = Present /\ Present \subseteq Peer
  BY DEF WriteBans, Present
<1>7. PeerTypeOK'
  BY <1>2, <1>3, <1>4, <1>5, <1>6 DEF PeerInv, PeerTypeOK
<1>8. BannedStayOut'
  BY <1>1, <1>3, <1>4, <1>5, <1>6 DEF PeerInv, BannedStayOut, Banned
<1>9. InsertInv'
  <2> SUFFICES ASSUME NEW u \in Thread, thread'[u].at = "insert", Banned(thread[u].peer)'
               PROVE  thread'[u].peer \in raced'
    BY DEF InsertInv
  <2>1. u # t /\ thread'[u] = thread[u]
    BY <1>3
  <2>2. thread[u].peer \in Peer
    BY <2>1, CallFields DEF PeerInv, PeerTypeOK
  <2>3. CASE thread[u].peer = p
    BY <1>5, <2>1, <2>3
  <2>4. CASE thread[u].peer # p
    <3>1. bans'[thread[u].peer] = bans[thread[u].peer] /\ now' = now /\ now \in Nat
      BY <1>4, <1>6, <2>2, <2>4 DEF PeerInv, PeerTypeOK, Time
    <3>2. Banned(thread[u].peer)
      BY <2>1, <3>1 DEF Banned
    <3>3. thread[u].peer \in raced
      BY <2>1, <3>2 DEF PeerInv, InsertInv
    <3> HIDE DEF p
    <3> QED
      BY <1>5, <2>1, <2>4, <3>3
  <2> QED
    BY <2>3, <2>4
<1>10. SeenInv' /\ CleanupInv'
  BY <1>1, <1>3, <1>6 DEF PeerInv, SeenInv, CleanupInv
<1> QED
  BY <1>7, <1>8, <1>9, <1>10 DEF PeerInv

-----------------------------------------------------------------------------

\* Every step of the peer table keeps the invariant.
THEOREM StepKeepsPeerInv == PeerInv /\ [PeerNext]_peerVars => PeerInv'
<1> SUFFICES ASSUME PeerInv, [PeerNext]_peerVars PROVE PeerInv'
  OBVIOUS
<1>1. CASE UNCHANGED peerVars
  BY <1>1 DEF peerVars, PeerInv, PeerTypeOK, BannedStayOut, InsertInv, SeenInv, CleanupInv,
              Present, Banned
<1>2. CASE Tick
  BY <1>2, TickKeepsPeerInv
<1>3. ASSUME NEW t \in Thread, NEW p \in Peer,
             Add(t, p) \/ Remove(t, p) \/ Touch(t, p) \/ Sweep(t, p)
      PROVE  PeerInv'
  BY <1>3, AddKeepsPeerInv, RemoveKeepsPeerInv, TouchKeepsPeerInv, SweepKeepsPeerInv
<1>4. ASSUME NEW t \in Thread, NEW p \in Peer, NEW d \in Duration, Ban(t, p, d)
      PROVE  PeerInv'
  BY <1>4, BanKeepsPeerInv
<1>5. ASSUME NEW t \in Thread, Count(t) \/ Check(t) \/ Insert(t) PROVE PeerInv'
  BY <1>5, CountKeepsPeerInv, CheckKeepsPeerInv, InsertKeepsPeerInv
<1>6. ASSUME NEW t \in Thread, WriteBans(t) \/ Unseat(t) PROVE PeerInv'
  BY <1>6, WriteBansKeepsPeerInv, UnseatKeepsPeerInv
<1>7. ASSUME NEW t \in Thread, CleanUp(t) \/ Scan(t) \/ Swept(t) PROVE PeerInv'
  BY <1>7, CleanUpKeepsPeerInv, ScanKeepsPeerInv, SweptKeepsPeerInv
<1> QED
  BY <1>1, <1>2, <1>3, <1>4, <1>5, <1>6, <1>7 DEF PeerNext

\* A banned peer is in the table only until ban_peer has removed it, unless an
\* add_peer that had found it not banned was about to insert it.
THEOREM BannedStayOutCorrect == PeerSpec => []BannedStayOut
<1>1. PeerInv => BannedStayOut
  BY DEF PeerInv
<1> QED
  BY <1>1, InitEstablishesPeerInv, StepKeepsPeerInv, PTL DEF PeerSpec

-----------------------------------------------------------------------------

\* A thread moves on by a step of its own.
LEMMA MovesAlone ==
  ASSUME PeerTypeOK, [PeerNext]_peerVars, NEW t \in Thread, thread'[t] # thread[t]
  PROVE  \/ \E p \in Peer : Add(t, p) \/ Sweep(t, p) \/ \E d \in Duration : Ban(t, p, d)
         \/ Count(t) \/ Check(t) \/ Insert(t) \/ WriteBans(t) \/ Unseat(t)
         \/ CleanUp(t) \/ Scan(t) \/ Swept(t)
<1> DEFINE Own == \/ \E p \in Peer : Add(t, p) \/ Sweep(t, p) \/ \E d \in Duration : Ban(t, p, d)
                  \/ Count(t) \/ Check(t) \/ Insert(t) \/ WriteBans(t) \/ Unseat(t)
                  \/ CleanUp(t) \/ Scan(t) \/ Swept(t)
<1>1. ASSUME NEW u \in Thread, NEW c, Goto(u, c) PROVE u = t
  BY <1>1 DEF Goto, PeerTypeOK
<1>2. ~UNCHANGED thread
  OBVIOUS
<1>3. ~Tick
  BY <1>2 DEF Tick
<1>4. ASSUME NEW u \in Thread, NEW p \in Peer,
             Add(u, p) \/ Remove(u, p) \/ Touch(u, p) \/ Sweep(u, p)
      PROVE  Own
  <2>1. Add(u, p) \/ Sweep(u, p)
    BY <1>2, <1>4 DEF Remove, Touch
  <2>2. u = t
    BY <1>1, <2>1 DEF Add, Sweep
  <2> QED
    BY <2>1, <2>2
<1>5. ASSUME NEW u \in Thread, NEW p \in Peer, NEW d \in Duration, Ban(u, p, d)
      PROVE  Own
  <2>1. u = t
    BY <1>1, <1>5 DEF Ban
  <2> QED
    BY <1>5, <2>1
<1>6. ASSUME NEW u \in Thread, Count(u) \/ Check(u) \/ Insert(u) PROVE Own
  <2>1. u = t
    BY <1>1, <1>6 DEF Count, Check, Insert
  <2> QED
    BY <1>6, <2>1
<1>7. ASSUME NEW u \in Thread, WriteBans(u) \/ Unseat(u) PROVE Own
  <2>1. u = t
    BY <1>1, <1>7 DEF WriteBans, Unseat
  <2> QED
    BY <1>7, <2>1
<1>8. ASSUME NEW u \in Thread, CleanUp(u) \/ Scan(u) \/ Swept(u) PROVE Own
  <2>1. u = t
    BY <1>1, <1>8 DEF CleanUp, Scan, Swept
  <2> QED
    BY <1>8, <2>1
<1> HIDE DEF Own
<1>9. PeerNext
  BY <1>2 DEF peerVars
<1>10. Own
  BY <1>3, <1>4, <1>5, <1>6, <1>7, <1>8, <1>9 DEF PeerNext
<1> QED
  BY <1>10 DEF Own

\* Nothing brings a thread on that is about to remove an expired ban: it waits
\* for a reader of the shard, which is itself.
LEMMA NoWayOn ==
  ASSUME PeerTypeOK, [PeerNext]_peerVars, NEW t \in Thread, thread[t].at = "unban"
  PROVE  thread'[t] = thread[t]
<1> SUFFICES ASSUME thread'[t] # thread[t] PROVE FALSE
  OBVIOUS
<1>1. /\ ~WriteBans(t) /\ ~Unseat(t) /\ ~CleanUp(t) /\ ~Scan(t) /\ ~Swept(t)
      /\ ~Count(t) /\ ~Check(t) /\ ~Insert(t)
  BY DEF WriteBans, Unlocked, Unseat, CleanUp, Scan, Swept, Count, Check, Insert, Idle
<1>2. \A p \in Peer : ~Add(t, p) /\ ~Sweep(t, p) /\ \A d \in Duration : ~Ban(t, p, d)
  BY DEF Add, Sweep, Ban, Idle
<1> QED
  BY <1>1, <1>2, MovesAlone

\* A thread whose is_banned finds an expired ban never goes on.
THEOREM ExpiredBanHangsCorrect == PeerSpec => ExpiredBanHangs
<1>1. PeerInv /\ [PeerNext]_peerVars
        => [\A t \in Thread : thread[t].at = "unban" => thread'[t] = thread[t]]_peerVars
  BY NoWayOn DEF PeerInv
<1> QED
  BY <1>1, InitEstablishesPeerInv, StepKeepsPeerInv, PTL DEF PeerSpec, ExpiredBanHangs

\* What a cleanup removes was collected for good reason, or seen meanwhile.
LEMMA LostForAReason ==
  ASSUME PeerInv, [PeerNext]_peerVars, NEW t \in Thread, NEW p \in Present,
         thread[t].at = "sweep", thread'[t] # thread[t], peers'[p] = Absent
  PROVE  p \in touched[t] \/ now > peers[p] + MaxIdle
<1>1. /\ ~WriteBans(t) /\ ~Unseat(t) /\ ~CleanUp(t) /\ ~Scan(t)
      /\ ~Count(t) /\ ~Check(t) /\ ~Insert(t)
  BY DEF WriteBans, Unseat, CleanUp, Scan, Count, Check, Insert, Idle
<1>2. \A q \in Peer : ~Add(t, q) /\ \A d \in Duration : ~Ban(t, q, d)
  BY DEF Add, Ban, Idle
<1>3. ~Swept(t)
  BY DEF Swept, Present
<1>4. PICK q \in Peer : Sweep(t, q)
  BY <1>1, <1>2, <1>3, MovesAlone DEF PeerInv
<1>5. q = p
  BY <1>4 DEF Sweep, PeerInv, PeerTypeOK, Present
<1> QED
  BY <1>4, <1>5 DEF Sweep, PeerInv, CleanupInv

\* The cleanup removes no peer seen within max_idle_secs, unless it was seen
\* while the cleanup ran: a race costs a live peer its place, nothing else.
THEOREM OnlyRacedPeersLostCorrect == PeerSpec => OnlyRacedPeersLost
<1>1. PeerInv /\ [PeerNext]_peerVars
        => [\A t \in Thread, p \in Present :
              thread[t].at = "sweep" /\ thread'[t] # thread[t] /\ peers'[p] = Absent
                => p \in touched[t] \/ now > peers[p] + MaxIdle]_peerVars
  BY LostForAReason
<1> QED
  BY <1>1, InitEstablishesPeerInv, StepKeepsPeerInv, PTL DEF PeerSpec, OnlyRacedPeersLost

-----------------------------------------------------------------------------
(***************************************************************************)
(* The limit of the table.                                                 *)
(***************************************************************************)

\* The peers that a count has still to come to, and what it would come to if
\* nothing changed from now on
Ahead(t) == {p \in Present : ShardOf[p] >= thread[t].shard}
Estimate(t) == thread[t].n + Cardinality(Ahead(t))

\* The threads that insert a peer whatever the others do, or would if v were the
\* limit and nothing changed
Low(v) ==
  {t \in Thread : \/ thread[t].at \in {"check", "unban", "insert"}
                  \/ thread[t].at = "count" /\ Estimate(t) < v}

\* The peers above the limit are charged to these threads.  That an estimate is
\* low may be due to a removal, which makes room: hence every v, not the limit
\* alone.
BoundInv ==
  \A v \in Nat : v >= MaxPeers =>
    Cardinality(Present) + Cardinality(Low(v)) <= v + Cardinality(Thread) - 1

\* The sets that are counted are finite.
LEMMA Counted ==
  ASSUME NEW v
  PROVE  /\ IsFiniteSet(Present) /\ Cardinality(Present) \in Nat
         /\ IsFiniteSet(Low(v)) /\ Cardinality(Low(v)) \in Nat
         /\ Cardinality(Low(v)) <= Cardinality(Thread)
         /\ Cardinality(Thread) \in Nat /\ Cardinality(Thread) >= 1
         /\ \A S \in SUBSET Present : IsFiniteSet(S) /\ Cardinality(S) \in Nat /\ Cardinality(S) <= Cardinality(Present)
<1>1. Present \subseteq Peer /\ Low(v) \subseteq Thread /\ IsFiniteSet(Peer) /\ IsFiniteSet(Thread)
  BY PeerAssumption DEF Present, Low
<1>2. IsFiniteSet(Present) /\ Cardinality(Present) \in Nat
  BY <1>1, FS_Subset, FS_CardinalityType
<1>3. /\ IsFiniteSet(Low(v)) /\ Cardinality(Low(v)) \in Nat
      /\ Cardinality(Low(v)) <= Cardinality(Thread) /\ Cardinality(Thread) \in Nat
  BY <1>1, FS_Subset, FS_CardinalityType
<1>4. Cardinality(Thread) # 0
  BY <1>1, FS_EmptySet, PeerAssumption
<1>5. \A S \in SUBSET Present : IsFiniteSet(S) /\ Cardinality(S) \in Nat /\ Cardinality(S) <= Cardinality(Present)
  BY <1>2, FS_Subset, FS_CardinalityType
<1> QED
  BY <1>2, <1>3, <1>4, <1>5

\* A set of threads that is not larger counts no more.
LEMMA LowShrinks ==
  ASSUME NEW v, NEW S, S \subseteq Low(v)
  PROVE  IsFiniteSet(S) /\ Cardinality(S) \in Nat /\ Cardinality(S) <= Cardinality(Low(v))
BY Counted, FS_Subset, FS_CardinalityType

\* The table stays as it is, and no thread comes to be low.
LEMMA SamePeersKeepBound ==
  ASSUME BoundInv, Present' = Present,
         \A v \in Nat : v >= MaxPeers => Low(v)' \subseteq Low(v)
  PROVE  BoundInv'
<1> SUFFICES ASSUME NEW v \in Nat, v >= MaxPeers
             PROVE  Cardinality(Present') + Cardinality(Low(v)') <= v + Cardinality(Thread) - 1
  BY DEF BoundInv
<1>1. Cardinality(Present) + Cardinality(Low(v)) <= v + Cardinality(Thread) - 1
  BY DEF BoundInv
<1>2. Cardinality(Low(v)') \in Nat /\ Cardinality(Low(v)') <= Cardinality(Low(v))
  BY LowShrinks
<1>3. Cardinality(Present) \in Nat /\ Cardinality(Low(v)) \in Nat /\ Cardinality(Thread) \in Nat
  BY Counted
<1> QED
  BY <1>1, <1>2, <1>3

\* A thread is where it was, or nowhere in add_peer.
Leaves(t) == thread'[t] = thread[t] \/ thread'[t].at \notin {"count", "check", "unban", "insert"}

\* Other calls do not touch the table.
LEMMA OthersKeepBound ==
  ASSUME BoundInv, Present' = Present, \A t \in Thread : Leaves(t)
  PROVE  BoundInv'
<1>1. ASSUME NEW v \in Nat PROVE Low(v)' \subseteq Low(v)
  BY DEF Low, Leaves, Estimate, Ahead
<1> QED
  BY <1>1, SamePeersKeepBound

\* A removal makes room for one, and brings no estimate down by more than one.
LEMMA RemovalKeepsBound ==
  ASSUME PeerTypeOK, PeerTypeOK', BoundInv, NEW p \in Peer, Present' = Present \ {p},
         \A t \in Thread : Leaves(t)
  PROVE  BoundInv'
<1>1. CASE p \notin Present
  <2>1. Present' = Present
    BY <1>1
  <2> QED
    BY <2>1, OthersKeepBound
<1>2. CASE p \in Present
  <2> SUFFICES ASSUME NEW v \in Nat, v >= MaxPeers
               PROVE  Cardinality(Present') + Cardinality(Low(v)') <= v + Cardinality(Thread) - 1
    BY DEF BoundInv
  <2>1. /\ IsFiniteSet(Present) /\ Cardinality(Present) \in Nat /\ Cardinality(Thread) \in Nat
        /\ Cardinality(Low(v + 1)) \in Nat
    BY Counted
  <2>2. Cardinality(Present') = Cardinality(Present) - 1
    BY <1>2, <2>1, FS_RemoveElement
  <2>3. Low(v)' \subseteq Low(v + 1)
    <3> SUFFICES ASSUME NEW t \in Thread, thread'[t] = thread[t], thread[t].at = "count", Estimate(t)' < v
                 PROVE  Estimate(t) < v + 1
      BY DEF Low, Leaves
    <3>1. Ahead(t)' = Ahead(t) \ {p} /\ Ahead(t) \in SUBSET Present
      BY DEF Ahead
    <3>2. IsFiniteSet(Ahead(t)) /\ Cardinality(Ahead(t)) \in Nat
      BY <3>1, Counted
    <3>3. Cardinality(Ahead(t)') >= Cardinality(Ahead(t)) - 1 /\ Cardinality(Ahead(t)') \in Nat
      <4>1. CASE p \in Ahead(t)
        <5>1. Cardinality(Ahead(t)') = Cardinality(Ahead(t)) - 1 /\ IsFiniteSet(Ahead(t)')
          BY <3>1, <3>2, <4>1, FS_RemoveElement
        <5> QED
          BY <3>2, <5>1, FS_CardinalityType
      <4>2. CASE p \notin Ahead(t)
        <5>1. Ahead(t)' = Ahead(t)
          BY <3>1, <4>2
        <5> QED
          BY <3>2, <5>1
      <4> QED
        BY <4>1, <4>2
    <3>4. thread[t].n \in Nat
      BY CallFields DEF PeerTypeOK
    <3> QED
      BY <3>2, <3>3, <3>4 DEF Estimate
  <2>4. Cardinality(Present) + Cardinality(Low(v + 1)) <= (v + 1) + Cardinality(Thread) - 1
    BY PeerAssumption DEF BoundInv
  <2>5. Cardinality(Low(v)') \in Nat /\ Cardinality(Low(v)') <= Cardinality(Low(v + 1))
    BY <2>3, LowShrinks
  <2> QED
    BY <2>1, <2>2, <2>4, <2>5
<1> QED
  BY <1>1, <1>2

\* A count starts with everything ahead of it.
LEMMA AddKeepsBound ==
  ASSUME PeerTypeOK, BoundInv, NEW t \in Thread, NEW p \in Peer, Add(t, p)
  PROVE  BoundInv'
<1> DEFINE c == [at |-> "count", peer |-> p, seen |-> now, shard |-> 1, n |-> 0]
<1> SUFFICES ASSUME NEW v \in Nat, v >= MaxPeers
             PROVE  Cardinality(Present') + Cardinality(Low(v)') <= v + Cardinality(Thread) - 1
  BY DEF BoundInv
<1>1. /\ Present' = Present /\ thread'[t] = c
      /\ \A u \in Thread : u # t => thread'[u] = thread[u]
  BY DEF PeerTypeOK, Add, Goto, Present
<1>2. /\ Cardinality(Present) \in Nat /\ Cardinality(Low(v)) \in Nat
      /\ Cardinality(Thread) \in Nat /\ Cardinality(Thread) >= 1
  BY Counted
<1>3. Cardinality(Present) + Cardinality(Low(v)) <= v + Cardinality(Thread) - 1
  BY DEF BoundInv
<1>4. CASE v <= Cardinality(Present)
  <2>1. t \notin Low(v)'
    <3>1. Ahead(t)' = Present
      BY <1>1, PeerAssumption DEF Ahead, Present
    <3>2. Estimate(t)' = Cardinality(Present)
      BY <1>1, <1>2, <3>1 DEF Estimate
    <3> QED
      BY <1>1, <1>2, <1>4, <3>2 DEF Low
  <2>2. \A u \in Thread : u # t => (u \in Low(v)' => u \in Low(v))
    BY <1>1 DEF Low, Estimate, Ahead
  <2>3. Low(v)' \subseteq Low(v)
    BY <2>1, <2>2 DEF Low
  <2>4. Cardinality(Low(v)') \in Nat /\ Cardinality(Low(v)') <= Cardinality(Low(v))
    BY <2>3, LowShrinks
  <2> QED
    BY <1>1, <1>2, <1>3, <2>4
<1>5. CASE Cardinality(Present) < v
  <2>1. Low(v)' \subseteq Thread
    BY DEF Low
  <2>2. Cardinality(Low(v)') \in Nat /\ Cardinality(Low(v)') <= Cardinality(Thread)
    BY <2>1, PeerAssumption, FS_Subset, FS_CardinalityType
  <2> QED
    BY <1>1, <1>2, <1>5, <2>2
<1> QED
  BY <1>2, <1>4, <1>5

\* Counting a shard leaves the estimate alone; a count that ends below the limit
\* was low.
LEMMA CountKeepsBound ==
  ASSUME PeerTypeOK, BoundInv, NEW t \in Thread, Count(t)
  PROVE  BoundInv'
<1> DEFINE c == thread[t]
           here == {p \in Present : ShardOf[p] = c.shard}
           n == c.n + Cardinality(here)
           on == [c EXCEPT !.shard = @ + 1, !.n = n]
           check == [at |-> "check", peer |-> c.peer, seen |-> c.seen]
<1>1. c \in [at : {"count"}, peer : Peer, seen : Time, shard : Nat, n : Nat]
  BY DEF Count, PeerTypeOK, Call, Idle
<1>2. /\ Present' = Present
      /\ \A u \in Thread : u # t => thread'[u] = thread[u]
  BY DEF PeerTypeOK, Count, Goto, Present
<1>3. \/ thread'[t] = on
      \/ thread'[t] = check /\ Shards(c.shard + 1) = {} /\ Room(n)
      \/ thread'[t] = Idle
  BY DEF PeerTypeOK, Count, Goto
<1>4. /\ here \in SUBSET Present /\ Ahead(t) \in SUBSET Present
      /\ \A p \in Present : ShardOf[p] \in Nat /\ ShardOf[p] \in Shard
  BY PeerAssumption DEF Ahead, Present, Shard
<1>5. /\ Cardinality(here) \in Nat /\ IsFiniteSet(here) /\ c.n \in Nat /\ n \in Nat /\ c.shard \in Nat
      /\ Cardinality(Ahead(t)) \in Nat /\ c.at = "count"
  BY <1>1, <1>4, Counted
<1>6. ASSUME thread'[t] = on PROVE Estimate(t)' = Estimate(t) /\ thread'[t].at = "count"
  <2> DEFINE rest == {p \in Present : ShardOf[p] >= c.shard + 1}
  <2>1. on.at = "count" /\ on.shard = c.shard + 1 /\ on.n = n
    BY <1>1
  <2>2. Ahead(t)' = rest
    BY <1>2, <1>6, <2>1 DEF Ahead
  <2>3. Ahead(t) = here \cup rest /\ here \cap rest = {} /\ rest \in SUBSET Present
    BY <1>4, <1>5 DEF Ahead
  <2>4. IsFiniteSet(rest) /\ Cardinality(rest) \in Nat
    BY <2>3, Counted
  <2> HIDE DEF here, rest
  <2>5. Cardinality(Ahead(t)) = Cardinality(here) + Cardinality(rest)
    <3>1. Cardinality(here \cup rest) = Cardinality(here) + Cardinality(rest) - Cardinality(here \cap rest)
      BY <1>5, <2>4, FS_Union
    <3>2. Cardinality(here \cap rest) = 0
      BY <2>3, FS_EmptySet
    <3> QED
      BY <1>5, <2>3, <2>4, <3>1, <3>2
  <2>6. Estimate(t) = c.n + Cardinality(Ahead(t)) /\ Estimate(t)' = n + Cardinality(rest)
    BY <1>6, <2>1, <2>2 DEF Estimate
  <2> HIDE DEF on, c
  <2> QED
    BY <1>5, <1>6, <2>1, <2>4, <2>5, <2>6 DEF n
<1>7. ASSUME Shards(c.shard + 1) = {}, Room(n) PROVE Estimate(t) < MaxPeers
  <2>1. Ahead(t) = here
    <3> SUFFICES ASSUME NEW p \in Present, ShardOf[p] >= c.shard PROVE ShardOf[p] = c.shard
      BY <1>4, <1>5 DEF Ahead
    <3>1. ~(ShardOf[p] >= c.shard + 1)
      BY <1>4, <1>7 DEF Shards
    <3> QED
      BY <1>4, <1>5, <3>1
  <2>2. Estimate(t) = n
    BY <2>1 DEF Estimate
  <2> QED
    BY <1>7, <2>2 DEF Room
<1> HIDE DEF n, here
<1>8. ASSUME NEW v \in Nat, v >= MaxPeers PROVE Low(v)' \subseteq Low(v)
  <2>1. \A u \in Thread : u # t => (u \in Low(v)' => u \in Low(v))
    BY <1>2 DEF Low, Estimate, Ahead
  <2>2. t \in Low(v)' => t \in Low(v)
    <3> SUFFICES ASSUME t \in Low(v)' PROVE Estimate(t) < v
      BY <1>5 DEF Low
    <3>1. CASE thread'[t] = on
      <4>1. Estimate(t)' = Estimate(t) /\ thread'[t].at = "count"
        BY <1>6, <3>1
      <4> QED
        BY <4>1 DEF Low
    <3>2. CASE thread'[t] = check /\ Shards(c.shard + 1) = {} /\ Room(n)
      <4>1. Estimate(t) < MaxPeers /\ Estimate(t) \in Nat
        BY <1>5, <1>7, <3>2 DEF Estimate
      <4> QED
        BY <1>8, <4>1, PeerAssumption
    <3>3. CASE thread'[t] = Idle
      BY <3>3 DEF Low, Idle
    <3> QED
      BY <1>3, <3>1, <3>2, <3>3
  <2> QED
    BY <2>1, <2>2 DEF Low
<1> QED
  BY <1>2, <1>8, SamePeersKeepBound

\* A thread that has passed the limit goes on to its insertion.
LEMMA PassedKeepsBound ==
  ASSUME PeerTypeOK, BoundInv, NEW t \in Thread, UNCHANGED peers,
         thread[t].at \in {"check", "unban"}, NEW c, Goto(t, c),
         c.at # "count"
  PROVE  BoundInv'
<1>1. /\ Present' = Present /\ thread'[t] = c
      /\ \A u \in Thread : u # t => thread'[u] = thread[u]
  BY DEF PeerTypeOK, Goto, Present
<1>2. ASSUME NEW v \in Nat PROVE Low(v)' \subseteq Low(v)
  BY <1>1 DEF Low, Estimate, Ahead
<1> QED
  BY <1>1, <1>2, SamePeersKeepBound

\* A peer that comes in is one that its thread was charged for.
LEMMA InsertKeepsBound ==
  ASSUME PeerTypeOK, PeerTypeOK', BoundInv, NEW t \in Thread, Insert(t)
  PROVE  BoundInv'
<1> DEFINE p == thread[t].peer
<1>1. thread[t].at = "insert" /\ p \in Peer /\ thread[t].seen \in Time
  BY CallFields DEF PeerTypeOK, Insert
<1>2. Present' = Present \cup {p}
  BY <1>1, PeerAssumption DEF PeerTypeOK, Insert, Present, Time
<1>3. thread'[t] = Idle /\ \A u \in Thread : u # t => thread'[u] = thread[u]
  BY DEF PeerTypeOK, Insert, Goto
<1> HIDE DEF p
<1> SUFFICES ASSUME NEW v \in Nat, v >= MaxPeers
             PROVE  Cardinality(Present') + Cardinality(Low(v)') <= v + Cardinality(Thread) - 1
  BY DEF BoundInv
<1>4. /\ IsFiniteSet(Present) /\ Cardinality(Present) \in Nat /\ Cardinality(Thread) \in Nat
      /\ IsFiniteSet(Low(v)) /\ Cardinality(Low(v)) \in Nat
  BY Counted
<1>5. Cardinality(Present') \in Nat /\ Cardinality(Present') <= Cardinality(Present) + 1 /\ IsFiniteSet(Present')
  <2>1. CASE p \in Present
    <3>1. Present' = Present
      BY <1>2, <2>1
    <3> QED
      BY <1>4, <3>1
  <2>2. CASE p \notin Present
    <3>1. IsFiniteSet(Present \cup {p}) /\ Cardinality(Present \cup {p}) = Cardinality(Present) + 1
      BY <1>4, <2>2, FS_AddElement
    <3> QED
      BY <1>2, <1>4, <3>1
  <2> QED
    BY <2>1, <2>2
<1>6. t \in Low(v) /\ t \notin Low(v)'
  BY <1>1, <1>3 DEF Low, Idle
<1>7. ASSUME NEW u \in Thread, u \in Low(v)' PROVE u \in Low(v) \ {t}
  <2>1. u # t /\ thread'[u] = thread[u]
    BY <1>3, <1>6, <1>7
  <2>2. CASE thread[u].at = "count"
    <3>1. Ahead(u) \subseteq Ahead(u)' /\ Ahead(u) \in SUBSET Present /\ Ahead(u)' \subseteq Present'
      BY <1>2, <2>1 DEF Ahead
    <3>2. IsFiniteSet(Ahead(u)') /\ Cardinality(Ahead(u)') \in Nat /\ Cardinality(Ahead(u)) \in Nat
      BY <1>5, <3>1, Counted, FS_Subset, FS_CardinalityType
    <3>3. Cardinality(Ahead(u)) <= Cardinality(Ahead(u)')
      BY <3>1, <3>2, FS_Subset
    <3>4. thread[u].n \in Nat
      BY <2>2, CallFields DEF PeerTypeOK
    <3>5. Estimate(u)' < v
      BY <1>7, <2>1, <2>2 DEF Low
    <3>6. Estimate(u) < v
      BY <2>1, <3>2, <3>3, <3>4, <3>5 DEF Estimate
    <3> QED
      BY <2>1, <2>2, <3>6 DEF Low
  <2>3. CASE thread[u].at # "count"
    BY <1>7, <2>1, <2>3 DEF Low
  <2> QED
    BY <2>2, <2>3
<1>8. Low(v)' \subseteq Low(v) \ {t}
  BY <1>7 DEF Low
<1>9. Cardinality(Low(v) \ {t}) = Cardinality(Low(v)) - 1 /\ IsFiniteSet(Low(v) \ {t})
  BY <1>4, <1>6, FS_RemoveElement
<1>10. Cardinality(Low(v)') \in Nat /\ Cardinality(Low(v)') <= Cardinality(Low(v)) - 1
  BY <1>8, <1>9, FS_Subset, FS_CardinalityType
<1>11. Cardinality(Present) + Cardinality(Low(v)) <= v + Cardinality(Thread) - 1
  BY DEF BoundInv
<1> QED
  BY <1>4, <1>5, <1>10, <1>11

\* Every step keeps the charge.
LEMMA StepKeepsBound ==
  ASSUME PeerTypeOK, PeerTypeOK', BoundInv, [PeerNext]_peerVars
  PROVE  BoundInv'
<1>1. CASE Tick \/ UNCHANGED peerVars
  <2>1. Present' = Present /\ \A t \in Thread : Leaves(t)
    BY <1>1 DEF Tick, peerVars, Present, Leaves
  <2> QED
    BY <2>1, OthersKeepBound
<1>2. ASSUME NEW t \in Thread, NEW p \in Peer, Add(t, p) PROVE BoundInv'
  BY <1>2, AddKeepsBound
<1>3. ASSUME NEW t \in Thread, NEW p \in Peer, Remove(t, p) \/ Sweep(t, p) PROVE BoundInv'
  <2>1. Present' = Present \ {p}
    BY <1>3, AbsentEffect DEF Remove, Sweep
  <2>2. \A u \in Thread : Leaves(u)
    <3>1. CASE Remove(t, p)
      BY <3>1 DEF Remove, Leaves
    <3>2. CASE Sweep(t, p)
      <4>1. thread[t] \in [at : {"sweep"}, stale : SUBSET Peer]
        BY <3>2 DEF PeerTypeOK, Sweep, Call, Idle
      <4>2. [thread[t] EXCEPT !.stale = @ \ {p}].at = "sweep"
        BY <4>1
      <4> QED
        BY <3>2, <4>2 DEF PeerTypeOK, Sweep, Goto, Leaves
    <3> QED
      BY <1>3, <3>1, <3>2
  <2> QED
    BY <2>1, <2>2, RemovalKeepsBound
<1>4. ASSUME NEW t \in Thread, NEW p \in Peer, Touch(t, p) PROVE BoundInv'
  <2>1. Present' = Present
    BY <1>4, PeerAssumption DEF Touch, PeerTypeOK, Present, Time
  <2>2. \A u \in Thread : Leaves(u)
    BY <1>4 DEF Touch, Leaves
  <2> QED
    BY <2>1, <2>2, OthersKeepBound
<1>5. ASSUME NEW t \in Thread, NEW p \in Peer, NEW d \in Duration, Ban(t, p, d) PROVE BoundInv'
  <2>1. Present' = Present /\ \A u \in Thread : Leaves(u)
    BY <1>5 DEF Ban, Goto, PeerTypeOK, Present, Leaves
  <2> QED
    BY <2>1, OthersKeepBound
<1>6. ASSUME NEW t \in Thread, Count(t) PROVE BoundInv'
  BY <1>6, CountKeepsBound
<1>7. ASSUME NEW t \in Thread, Check(t) PROVE BoundInv'
  <2>1. /\ thread[t] \in [at : {"check", "unban", "insert"}, peer : Peer, seen : Time]
        /\ thread[t].at = "check" /\ UNCHANGED peers
    BY <1>7 DEF Check, PeerTypeOK, Call, Idle
  <2>2. /\ [thread[t] EXCEPT !.at = "insert"].at # "count" /\ [thread[t] EXCEPT !.at = "unban"].at # "count"
        /\ Idle.at # "count"
    BY <2>1 DEF Idle
  <2> QED
    BY <1>7, <2>1, <2>2, PassedKeepsBound DEF Check
<1>8. ASSUME NEW t \in Thread, Insert(t) PROVE BoundInv'
  BY <1>8, InsertKeepsBound
<1>9. ASSUME NEW t \in Thread, WriteBans(t) PROVE BoundInv'
  <2>1. thread[t].at = "ban"
    BY <1>9 DEF WriteBans, Unlocked
  <2>2. Present' = Present /\ \A u \in Thread : Leaves(u)
    BY <1>9, <2>1 DEF WriteBans, Goto, PeerTypeOK, Present, Leaves
  <2> QED
    BY <2>2, OthersKeepBound
<1>10. ASSUME NEW t \in Thread, Unseat(t) PROVE BoundInv'
  <2> DEFINE p == thread[t].peer
  <2>1. p \in Peer
    BY <1>10, CallFields DEF Unseat, PeerTypeOK
  <2>2. Present' = Present \ {p}
    BY <1>10, <2>1, AbsentEffect DEF Unseat
  <2>3. \A u \in Thread : Leaves(u)
    BY <1>10 DEF Unseat, Goto, PeerTypeOK, Leaves, Idle
  <2> HIDE DEF p
  <2> QED
    BY <2>1, <2>2, <2>3, RemovalKeepsBound
<1>11. ASSUME NEW t \in Thread, CleanUp(t) \/ Swept(t) PROVE BoundInv'
  <2>1. Present' = Present /\ \A u \in Thread : Leaves(u)
    BY <1>11 DEF CleanUp, Swept, Goto, PeerTypeOK, Present, Leaves, Idle
  <2> QED
    BY <2>1, OthersKeepBound
<1>12. ASSUME NEW t \in Thread, Scan(t) PROVE BoundInv'
  <2>1. thread[t] \in [at : {"scan"}, began : Time, shard : Nat, stale : SUBSET Peer]
    BY <1>12 DEF Scan, PeerTypeOK, Call, Idle
  <2>2. thread'[t].at \in {"scan", "sweep"}
    <3> DEFINE c == thread[t]
               stale == c.stale \cup {p \in Present : ShardOf[p] = c.shard /\ Stale(p, c.began)}
               on == [c EXCEPT !.shard = @ + 1, !.stale = stale]
               sweep == [at |-> "sweep", stale |-> stale]
    <3>1. on.at = "scan" /\ sweep.at = "sweep"
      BY <2>1
    <3>2. thread'[t] = on \/ thread'[t] = sweep
      BY <1>12 DEF Scan, Goto, PeerTypeOK
    <3> HIDE DEF on, sweep
    <3> QED
      BY <3>1, <3>2
  <2>3. Present' = Present /\ \A u \in Thread : Leaves(u)
    BY <1>12, <2>2 DEF Scan, Goto, PeerTypeOK, Present, Leaves
  <2> QED
    BY <2>3, OthersKeepBound
<1> QED
  BY <1>1, <1>2, <1>3, <1>4, <1>5, <1>6, <1>7, <1>8, <1>9, <1>10, <1>11, <1>12 DEF PeerNext

\* The table exceeds its limit by less than one peer for each thread, for any
\* threads, peers and shards, and however removals and counts interleave.
THEOREM PeersBoundedCorrect == PeerSpec => []PeersBounded
<1>1. PeerInit => BoundInv
  <2> SUFFICES ASSUME PeerInit, NEW v \in Nat, v >= MaxPeers
               PROVE  Cardinality(Present) + Cardinality(Low(v)) <= v + Cardinality(Thread) - 1
    BY DEF BoundInv
  <2>1. Present = {} /\ Low(v) = {}
    BY DEF PeerInit, Present, Low, Idle
  <2>2. Cardinality({}) = 0
    BY FS_EmptySet
  <2>3. Cardinality(Thread) \in Nat /\ Cardinality(Thread) >= 1
    BY Counted
  <2> QED
    BY <2>1, <2>2, <2>3
<1>2. PeerInv /\ PeerInv' /\ BoundInv /\ [PeerNext]_peerVars => BoundInv'
  BY StepKeepsBound DEF PeerInv
<1>3. BoundInv => PeersBounded
  <2> SUFFICES ASSUME BoundInv PROVE Cardinality(Present) <= MaxPeers + Cardinality(Thread) - 1
    BY DEF PeersBounded
  <2>1. Cardinality(Present) + Cardinality(Low(MaxPeers)) <= MaxPeers + Cardinality(Thread) - 1
    BY PeerAssumption DEF BoundInv
  <2>2. /\ Cardinality(Present) \in Nat /\ Cardinality(Low(MaxPeers)) \in Nat
        /\ Cardinality(Thread) \in Nat /\ MaxPeers \in Nat
    BY Counted, PeerAssumption
  <2> QED
    BY <2>1, <2>2
<1> QED
  BY <1>1, <1>2, <1>3, InitEstablishesPeerInv, StepKeepsPeerInv, PTL DEF PeerSpec

-----------------------------------------------------------------------------
(***************************************************************************)
(* The device registry.                                                    *)
(***************************************************************************)

\* The maps that a registration fills and a deregistration clears determine
\* what the indexes hold, so the two together are inductive.
RegistryInv == RegistryTypeOK /\ RegistryConsistent

\* A registry starts empty, and consistent.
THEOREM RegistryInitInv == RegistryInit => RegistryInv
BY RegistryAssumption DEF RegistryInit, RegistryInv, RegistryTypeOK, RegistryConsistent, Owns

\* A new device is listed nowhere before it registers, and once afterwards.
LEMMA RegisterKeepsInv ==
  ASSUME RegistryInv, NEW owner \in Owner, NEW doc \in Document, NEW type \in Type,
         Register(owner, doc, type)
  PROVE  RegistryInv'
<1> DEFINE d == doc.id
           info == [owner |-> owner, type |-> type, docHash |-> doc, status |-> "pending"]
<1>1. d \in Device /\ info \in DeviceInfo /\ info # Missing /\ doc # Missing
  BY RegistryAssumption DEF Document, DeviceInfo, DeviceStatus
<1>2. /\ Validate(doc) /\ devices[d] = Missing
      /\ devices' = [devices EXCEPT ![d] = info]
      /\ documents' = [documents EXCEPT ![d] = doc]
      /\ byOwner' = [byOwner EXCEPT ![owner][d] = @ + 1]
      /\ byType' = [byType EXCEPT ![type][d] = @ + 1]
  BY DEF Register
<1>3. RegistryTypeOK'
  BY <1>1, <1>2 DEF RegistryInv, RegistryTypeOK
<1>4. RegistryConsistent'
  <2> SUFFICES ASSUME NEW e \in Device
               PROVE  /\ \A o \in Owner : byOwner'[o][e] = IF Owns(o, e)' THEN 1 ELSE 0
                      /\ \A ty \in Type :
                           byType'[ty][e] = IF devices'[e] # Missing /\ devices'[e].type = ty THEN 1 ELSE 0
                      /\ IF devices'[e] = Missing THEN documents'[e] = Missing
                         ELSE /\ documents'[e] = devices'[e].docHash
                              /\ documents'[e] # Missing /\ Validate(documents'[e])
    BY DEF RegistryConsistent, Validate
  <2>1. CASE e = d
    <3>1. devices'[d] = info /\ documents'[d] = doc
      BY <1>1, <1>2 DEF RegistryInv, RegistryTypeOK
    <3>2. \A o \in Owner : byOwner[o][d] = 0
      BY <1>1, <1>2 DEF RegistryInv, RegistryConsistent, Owns
    <3>3. \A ty \in Type : byType[ty][d] = 0
      BY <1>1, <1>2 DEF RegistryInv, RegistryConsistent
    <3>4. \A o \in Owner : byOwner'[o][d] = IF o = owner THEN 1 ELSE 0
      BY <1>1, <1>2, <3>2 DEF RegistryInv, RegistryTypeOK
    <3>5. \A ty \in Type : byType'[ty][d] = IF ty = type THEN 1 ELSE 0
      BY <1>1, <1>2, <3>3 DEF RegistryInv, RegistryTypeOK
    <3> QED
      BY <1>1, <1>2, <2>1, <3>1, <3>4, <3>5 DEF Owns
  <2>2. CASE e # d
    <3>1. devices'[e] = devices[e] /\ documents'[e] = documents[e]
      BY <1>2, <2>2 DEF RegistryInv, RegistryTypeOK
    <3>2. /\ \A o \in Owner : byOwner'[o][e] = byOwner[o][e]
          /\ \A ty \in Type : byType'[ty][e] = byType[ty][e]
      BY <1>1, <1>2, <2>2 DEF RegistryInv, RegistryTypeOK
    <3> QED
      BY <3>1, <3>2 DEF RegistryInv, RegistryConsistent, Owns
  <2> QED
    BY <2>1, <2>2
<1> QED
  BY <1>3, <1>4 DEF RegistryInv

\* A change of status leaves owner, type and document alone.
LEMMA SetStatusKeepsInv ==
  ASSUME RegistryInv, NEW d \in Device, devices[d] # Missing,
         NEW status \in DeviceStatus, SetStatus(d, status)
  PROVE  RegistryInv'
<1>1. devices[d] \in DeviceInfo
  BY DEF RegistryInv, RegistryTypeOK
<1> DEFINE info == [devices[d] EXCEPT !.status = status]
<1>2. /\ info \in DeviceInfo /\ info # Missing
      /\ info.owner = devices[d].owner /\ info.type = devices[d].type
      /\ info.docHash = devices[d].docHash
  BY <1>1, RegistryAssumption DEF DeviceInfo
<1>3. devices' = [devices EXCEPT ![d] = info] /\ UNCHANGED <<documents, byOwner, byType>>
  BY DEF SetStatus
<1>4. RegistryTypeOK'
  BY <1>2, <1>3 DEF RegistryInv, RegistryTypeOK
<1>5. \A e \in Device : /\ devices'[e] = Missing <=> devices[e] = Missing
                        /\ devices[e] # Missing =>
                             /\ devices'[e].owner = devices[e].owner
                             /\ devices'[e].type = devices[e].type
                             /\ devices'[e].docHash = devices[e].docHash
  BY <1>2, <1>3 DEF RegistryInv, RegistryTypeOK
<1>6. RegistryConsistent'
  BY <1>3, <1>5 DEF RegistryInv, RegistryConsistent, Owns, Validate
<1> QED
  BY <1>4, <1>6 DEF RegistryInv

\* A device leaves the only two lists it is on.
LEMMA DeregisterKeepsInv ==
  ASSUME RegistryInv, NEW d \in Device, NEW by \in Owner, Deregister(d, by)
  PROVE  RegistryInv'
<1> DEFINE type == devices[d].type
<1>1. devices[d] \in DeviceInfo /\ devices[d].owner = by /\ type \in Type
  BY DEF RegistryInv, RegistryTypeOK, Deregister, Owns, DeviceInfo
<1>2. /\ byOwner' = [byOwner EXCEPT ![by][d] = 0]
      /\ byType' = [byType EXCEPT ![type][d] = 0]
      /\ devices' = [devices EXCEPT ![d] = Missing]
      /\ documents' = [documents EXCEPT ![d] = Missing]
  BY DEF Deregister
<1>3. RegistryTypeOK'
  BY <1>1, <1>2 DEF RegistryInv, RegistryTypeOK
<1>4. \A o \in Owner : byOwner'[o][d] = 0
  BY <1>1, <1>2 DEF RegistryInv, RegistryTypeOK, RegistryConsistent, Owns
<1>5. \A ty \in Type : byType'[ty][d] = 0
  BY <1>1, <1>2 DEF RegistryInv, RegistryTypeOK, RegistryConsistent
<1>6. devices'[d] = Missing /\ documents'[d] = Missing
  BY <1>2 DEF RegistryInv, RegistryTypeOK
<1>7. \A e \in Device \ {d} :
        /\ devices'[e] = devices[e] /\ documents'[e] = documents[e]
        /\ \A o \in Owner : byOwner'[o][e] = byOwner[o][e]
        /\ \A ty \in Type : byType'[ty][e] = byType[ty][e]
  BY <1>1, <1>2 DEF RegistryInv, RegistryTypeOK
<1>8. RegistryConsistent'
  BY <1>4, <1>5, <1>6, <1>7 DEF RegistryInv, RegistryConsistent, Owns, Validate
<1> QED
  BY <1>3, <1>8 DEF RegistryInv

\* The document and its hash change together.
LEMMA UpdateKeepsInv ==
  ASSUME RegistryInv, NEW d \in Device, NEW doc \in Document, NEW by \in Owner,
         UpdateDidDocument(d, doc, by)
  PROVE  RegistryInv'
<1>1. devices[d] \in DeviceInfo /\ devices[d] # Missing /\ doc # Missing
  BY RegistryAssumption DEF RegistryInv, RegistryTypeOK, UpdateDidDocument, Owns
<1> DEFINE info == [devices[d] EXCEPT !.docHash = doc]
<1>2. /\ info \in DeviceInfo /\ info # Missing
      /\ info.owner = devices[d].owner /\ info.type = devices[d].type /\ info.docHash = doc
  BY <1>1, RegistryAssumption DEF DeviceInfo
<1>3. /\ Validate(doc)
      /\ devices' = [devices EXCEPT ![d] = info]
      /\ documents' = [documents EXCEPT ![d] = doc]
      /\ UNCHANGED <<byOwner, byType>>
  BY DEF UpdateDidDocument
<1>4. RegistryTypeOK'
  BY <1>2, <1>3 DEF RegistryInv, RegistryTypeOK
<1>5. devices'[d] = info /\ documents'[d] = doc
  BY <1>3 DEF RegistryInv, RegistryTypeOK
<1>6. \A e \in Device \ {d} : devices'[e] = devices[e] /\ documents'[e] = documents[e]
  BY <1>3 DEF RegistryInv, RegistryTypeOK
<1>7. RegistryConsistent'
  <2>1. ASSUME NEW e \in Device
        PROVE  \A o \in Owner : byOwner'[o][e] = IF Owns(o, e)' THEN 1 ELSE 0
    BY <1>1, <1>2, <1>3, <1>5, <1>6, <2>1 DEF RegistryInv, RegistryConsistent, Owns
  <2>2. ASSUME NEW e \in Device
        PROVE  \A ty \in Type :
                 byType'[ty][e] = IF devices'[e] # Missing /\ devices'[e].type = ty THEN 1 ELSE 0
    BY <1>1, <1>2, <1>3, <1>5, <1>6, <2>2 DEF RegistryInv, RegistryConsistent
  <2>3. ASSUME NEW e \in Device \ {d}
        PROVE  IF devices'[e] = Missing THEN documents'[e] = Missing
               ELSE /\ documents'[e] = devices'[e].docHash
                    /\ documents'[e] # Missing /\ Validate(documents'[e])
    BY <1>6, <2>3 DEF RegistryInv, RegistryConsistent
  <2>4. /\ documents'[d] = devices'[d].docHash /\ devices'[d] # Missing
        /\ documents'[d] # Missing /\ Validate(documents'[d])
    BY <1>1, <1>2, <1>3, <1>5
  <2> QED
    BY <2>1, <2>2, <2>3, <2>4 DEF RegistryConsistent, Validate
<1> QED
  BY <1>4, <1>7 DEF RegistryInv

\* Every call keeps the invariant.
THEOREM RegistryStepInv == RegistryInv /\ [RegistryNext]_registryVars => RegistryInv'
<1> SUFFICES ASSUME RegistryInv, [RegistryNext]_registryVars PROVE RegistryInv'
  OBVIOUS
<1>1. ASSUME NEW owner \in Owner, NEW doc \in Document, NEW type \in Type,
             Register(owner, doc, type)
      PROVE  RegistryInv'
  BY <1>1, RegisterKeepsInv
<1>2. ASSUME NEW d \in Device, NEW by \in Owner, ActivateDevice(d, by) \/ SuspendDevice(d, by)
      PROVE  RegistryInv'
  BY <1>2, SetStatusKeepsInv DEF ActivateDevice, SuspendDevice, Owns, DeviceStatus
<1>3. ASSUME NEW d \in Device, Deactivate(d) PROVE RegistryInv'
  BY <1>3, SetStatusKeepsInv DEF Deactivate, DeviceStatus
<1>4. ASSUME NEW d \in Device, NEW by \in Owner, Deregister(d, by) PROVE RegistryInv'
  BY <1>4, DeregisterKeepsInv
<1>5. ASSUME NEW d \in Device, NEW doc \in Document, NEW by \in Owner,
             UpdateDidDocument(d, doc, by)
      PROVE  RegistryInv'
  BY <1>5, UpdateKeepsInv
<1>6. CASE UNCHANGED registryVars
  BY <1>6 DEF RegistryInv, RegistryTypeOK, RegistryConsistent, Owns, Validate, registryVars
<1> QED
  BY <1>1, <1>2, <1>3, <1>4, <1>5, <1>6 DEF RegistryNext

\* The four maps of the registry always tell one story (register, deregister,
\* update_did_document), for any devices, owners, types and documents.
THEOREM RegistryCorrect == RegistrySpec => []RegistryConsistent
<1>1. RegistryInv => RegistryConsistent
  BY DEF RegistryInv
<1> QED
  BY <1>1, RegistryInitInv, RegistryStepInv, PTL DEF RegistrySpec

-----------------------------------------------------------------------------
(***************************************************************************)
(* The Merkle trees.                                                       *)
(***************************************************************************)

\* The leaves fit below the levels.
LEMMA DepthFits ==
  ASSUME NEW n \in Nat
  PROVE  Depth(n) \in Nat /\ n <= 2 ^ Depth(n)
<1> DEFINE S == {k \in 0..n : 2 ^ k >= n}
<1>1. n \in S /\ S \in SUBSET Nat
  BY PowerOfTwo, PowerAbove
<1>2. PICK k \in S : \A j \in S : k <= j
  <2> HIDE DEF S
  <2> QED
    BY <1>1, LeastElement
<1>3. \E i \in 0..n : 2 ^ i >= n /\ \A j \in 0..n : 2 ^ j >= n => i <= j
  BY <1>2
<1>4. Depth(n) \in 0..n /\ 2 ^ Depth(n) >= n
  BY <1>3, Zenon DEF Depth
<1> QED
  BY <1>4, PowerOfTwo

\* A sequence of m elements, whatever they are
Indexed(s, m) == s = [i \in 1..m |-> s[i]]

\* lv[k] is the k-th level above the leaves of t, which lies where LevelStart says.
Layers(t, lv) ==
  LET D == Depth(t.count)
  IN  /\ \A k \in 0..D : Indexed(lv[k], 2 ^ (D - k))
      /\ \A k \in 0..D : k # 0 => \A i \in 1..2 ^ (D - k) :
           lv[k][i] = HashPair(lv[k - 1][2 * i - 1], lv[k - 1][2 * i])
      /\ Len(t.nodes) = 2 * 2 ^ D - 1
      /\ \A k \in 0..D : \A i \in 1..2 ^ (D - k) :
           t.nodes[2 * 2 ^ D - 2 * 2 ^ (D - k) + i] = lv[k][i]

\* One sequence after the other
Joint(s, t) == s \o t

\* The first m levels, and the nodes of them, that from_hashes builds
BuiltUpTo(b, leaves, m) ==
  b = [k \in 0..m |->
         IF k = 0 THEN [level |-> Padded(leaves), nodes |-> Padded(leaves)]
         ELSE [level |-> NextLevel(b[k - 1].level),
               nodes |-> Joint(b[k - 1].nodes, NextLevel(b[k - 1].level))]]

\* The loop of from_hashes ends, with every level built from the one below.
LEMMA BuiltUnfolds ==
  ASSUME NEW leaves, Depth(Len(leaves)) \in Nat
  PROVE  BuiltUpTo(Built(leaves), leaves, Depth(Len(leaves)))
<1> DEFINE P == {m \in Nat : \E b : BuiltUpTo(b, leaves, m)}
<1>1. 0 \in P
  <2> DEFINE b == [k \in 0..0 |-> [level |-> Padded(leaves), nodes |-> Padded(leaves)]]
  <2>1. BuiltUpTo(b, leaves, 0)
    BY DEF BuiltUpTo
  <2> QED
    BY <2>1
<1>2. ASSUME NEW m \in Nat, m \in P PROVE m + 1 \in P
  <2>1. PICK a : BuiltUpTo(a, leaves, m)
    BY <1>2
  <2> DEFINE b == [k \in 0..(m + 1) |->
                     IF k = 0 THEN [level |-> Padded(leaves), nodes |-> Padded(leaves)]
                     ELSE [level |-> NextLevel(a[k - 1].level),
                           nodes |-> Joint(a[k - 1].nodes, NextLevel(a[k - 1].level))]]
  <2>2. ASSUME NEW k \in 0..m PROVE b[k] = a[k]
    <3>1. k \in 0..(m + 1)
      OBVIOUS
    <3> QED
      BY <2>1, <3>1 DEF BuiltUpTo
  <2>3. \A k \in 0..(m + 1) : k # 0 => b[k - 1] = a[k - 1]
    <3> HIDE DEF b
    <3> QED
      BY <2>2
  <2>4. b = [k \in 0..(m + 1) |->
               IF k = 0 THEN [level |-> Padded(leaves), nodes |-> Padded(leaves)]
               ELSE [level |-> NextLevel(b[k - 1].level),
                     nodes |-> Joint(b[k - 1].nodes, NextLevel(b[k - 1].level))]]
    BY <2>3
  <2> HIDE DEF b
  <2>5. BuiltUpTo(b, leaves, m + 1)
    BY <2>4 DEF BuiltUpTo
  <2> QED
    BY <2>5
<1> HIDE DEF P
<1>3. Depth(Len(leaves)) \in P
  BY <1>1, <1>2, Induction
<1> QED
  BY <1>3, Zenon DEF P, BuiltUpTo, Built, Joint

\* Sequences, one after the other, keep their elements at their distance.
LEMMA Joined ==
  ASSUME NEW m \in Nat, NEW n \in Nat, NEW s, NEW t,
         Indexed(s, m), Indexed(t, n)
  PROVE  /\ Indexed(Joint(s, t), m + n)
         /\ \A i \in 1..m : Joint(s, t)[i] = s[i]
         /\ \A i \in 1..n : Joint(s, t)[m + i] = t[i]
<1> DEFINE V == {s[i] : i \in 1..m} \cup {t[i] : i \in 1..n}
<1>1. (\A i \in 1..m : s[i] \in V) /\ (\A i \in 1..n : t[i] \in V)
  OBVIOUS
<1> HIDE DEF V
<1>2. s \in [1..m -> V] /\ t \in [1..n -> V]
  BY <1>1 DEF Indexed
<1>3. s \in Seq(V) /\ Len(s) = m /\ t \in Seq(V) /\ Len(t) = n
  BY <1>2
<1>4. /\ s \o t \in Seq(V) /\ Len(s \o t) = m + n
      /\ \A i \in 1..(m + n) : (s \o t)[i] = IF i <= m THEN s[i] ELSE t[i - m]
  BY <1>3, ConcatProperties
<1>5. s \o t \in [1..(m + n) -> V]
  BY <1>4, LenProperties
<1>6. Indexed(Joint(s, t), m + n)
  BY <1>5 DEF Indexed, Joint
<1>7. \A i \in 1..m : Joint(s, t)[i] = s[i]
  BY <1>4 DEF Joint
<1>8. ASSUME NEW i \in 1..n PROVE Joint(s, t)[m + i] = t[i]
  <2>1. m + i \in 1..(m + n) /\ ~(m + i <= m) /\ (m + i) - m = i
    OBVIOUS
  <2> QED
    BY <1>4, <2>1 DEF Joint
<1> QED
  BY <1>6, <1>7, <1>8

\* The next level has half as many hashes, each of a pair of this one.
LEMMA NextLevelIs ==
  ASSUME NEW m \in Nat, NEW v, Indexed(v, 2 * m)
  PROVE  /\ Indexed(NextLevel(v), m)
         /\ \A i \in 1..m : NextLevel(v)[i] = HashPair(v[2 * i - 1], v[2 * i])
<1>1. Len(v) = 2 * m
  BY DEF Indexed
<1>2. Len(v) \div 2 = m
  BY <1>1
<1> QED
  BY <1>2 DEF NextLevel, Indexed

\* The nodes of a tree are its levels, one after the other.
LEMMA TreeHasLayers ==
  ASSUME NEW n \in Nat, NEW leaves \in [1..n -> Leaf]
  PROVE  FromHashes(leaves).count = n /\ \E lv : Layers(FromHashes(leaves), lv)
<1> DEFINE D == Depth(n)
           S(k) == 2 ^ (D - k)
           P == 2 ^ D
           b == Built(leaves)
           Good(k) ==
             /\ Indexed(b[k].level, S(k))
             /\ Indexed(b[k].nodes, 2 * P - S(k))
             /\ \A j \in 0..k : S(j) \in Nat /\ S(j) >= S(k) /\ S(j) <= P
             /\ \A j \in 0..k : \A i \in 1..S(j) :
                  b[k].nodes[2 * P - 2 * S(j) + i] = b[j].level[i]
           G == {k \in Nat : k <= D => Good(k)}
<1>1. Len(leaves) = n /\ FromHashes(leaves).count = n /\ D \in Nat /\ P \in Nat
  <2>1. Len(leaves) = n
    OBVIOUS
  <2>2. D \in Nat
    BY DepthFits
  <2>3. P \in Nat
    BY <2>2, PowerOfTwo
  <2> QED
    BY <2>1, <2>2, <2>3 DEF FromHashes
<1>2. /\ b[0] = [level |-> Padded(leaves), nodes |-> Padded(leaves)]
      /\ \A j, k \in 0..D : k = j + 1 =>
           /\ b[k].level = NextLevel(b[j].level)
           /\ b[k].nodes = Joint(b[j].nodes, NextLevel(b[j].level))
  <2>1. BuiltUpTo(b, leaves, D)
    BY <1>1, BuiltUnfolds
  <2> HIDE DEF b, D
  <2>2. b[0] = [level |-> Padded(leaves), nodes |-> Padded(leaves)]
    BY <1>1, <2>1 DEF BuiltUpTo
  <2>3. ASSUME NEW j \in 0..D, NEW k \in 0..D, k = j + 1
        PROVE  /\ b[k].level = NextLevel(b[j].level)
               /\ b[k].nodes = Joint(b[j].nodes, NextLevel(b[j].level))
    <3>1. k # 0 /\ k - 1 = j
      BY <1>1, <2>3
    <3> QED
      BY <2>1, <3>1 DEF BuiltUpTo
  <2> QED
    BY <2>2, <2>3
<1> HIDE DEF b
<1>3. ASSUME NEW k \in 0..D, k # 0 PROVE S(k - 1) = 2 * S(k) /\ S(k) \in Nat
  <2>1. D - k \in Nat /\ D - (k - 1) = (D - k) + 1
    BY <1>1, <1>3
  <2> HIDE DEF D
  <2> QED
    BY <2>1, PowerOfTwo
<1>4. S(0) = P /\ S(D) = 1
  <2>1. D - 0 = D /\ D - D = 0 /\ 2 ^ 0 = 1
    BY <1>1
  <2> HIDE DEF D
  <2> QED
    BY <2>1
<1>5. 0 \in G
  <2>1. Indexed(Padded(leaves), P)
    BY <1>1 DEF Padded, PaddedSize, Indexed
  <2>2. 2 * P - S(0) = P /\ 2 * P - 2 * S(0) = 0
    BY <1>1, <1>4
  <2>3. b[0].level = Padded(leaves) /\ b[0].nodes = Padded(leaves)
    BY <1>2
  <2> HIDE DEF S, P, D
  <2>4. Good(0)
    BY <1>1, <1>4, <2>1, <2>2, <2>3
  <2> QED
    BY <2>4
<1>6. ASSUME NEW k \in Nat, k \in G, k + 1 <= D PROVE Good(k + 1)
  <2> DEFINE s == S(k + 1)
             v == b[k].level
             next == NextLevel(v)
             nodes == b[k].nodes
             L == 2 * P - 2 * s
  <2>1. S(k) = 2 * s /\ s \in Nat /\ k \in 0..D /\ k + 1 \in 0..D
    <3>1. k + 1 \in 0..D /\ k + 1 # 0 /\ (k + 1) - 1 = k /\ k \in 0..D
      BY <1>1, <1>6
    <3> HIDE DEF S, D
    <3> QED
      BY <1>3, <3>1
  <2>2. Good(k)
    <3> HIDE DEF Good, D
    <3> QED
      BY <1>6, <2>1
  <2>3. b[k + 1].level = next /\ b[k + 1].nodes = Joint(nodes, next)
    <3> HIDE DEF D, S, P, G, Good
    <3> QED
      BY <1>2, <2>1
  <2> HIDE DEF S, P, D
  <2>4. Indexed(v, 2 * s) /\ Indexed(nodes, L)
    BY <2>1, <2>2
  <2> HIDE DEF s, v, nodes, Good
  <2>5. Indexed(next, s)
    BY <2>1, <2>4, NextLevelIs
  <2>6. \A j \in 0..k : S(j) \in Nat /\ S(j) >= 2 * s /\ S(j) <= P
    BY <2>1, <2>2 DEF Good
  <2>7. L \in Nat /\ L + s = 2 * P - s
    <3>1. 0 \in 0..k
      BY <1>6
    <3> QED
      BY <1>1, <1>4, <2>1, <2>6, <3>1
  <2> HIDE DEF next, L
  <2>8. /\ Indexed(Joint(nodes, next), L + s)
        /\ \A i \in 1..L : Joint(nodes, next)[i] = nodes[i]
        /\ \A i \in 1..s : Joint(nodes, next)[L + i] = next[i]
    BY <2>1, <2>4, <2>5, <2>7, Joined
  <2>9. ASSUME NEW j \in 0..k, NEW i \in 1..S(j)
        PROVE  Joint(nodes, next)[2 * P - 2 * S(j) + i] = b[j].level[i]
    <3>1. nodes[2 * P - 2 * S(j) + i] = b[j].level[i]
      BY <2>2 DEF Good, nodes
    <3>2. S(j) >= 2 * s /\ S(j) \in Nat /\ S(j) <= P
      BY <2>6
    <3>3. 2 * P - 2 * S(j) + i \in 1..L
      BY <1>1, <2>1, <3>2 DEF L
    <3> QED
      BY <2>8, <3>1, <3>3
  <2>11. ASSUME NEW j \in 0..k, NEW i \in 1..S(j)
         PROVE  b[k + 1].nodes[2 * P - 2 * S(j) + i] = b[j].level[i]
    BY <2>3, <2>9
  <2>12. ASSUME NEW i \in 1..s
         PROVE  b[k + 1].nodes[2 * P - 2 * s + i] = b[k + 1].level[i]
    BY <2>3, <2>8 DEF L
  <2>13. \A j \in 0..(k + 1) : j \in 0..k \/ j = k + 1
    OBVIOUS
  <2>14. Indexed(b[k + 1].level, s) /\ Indexed(b[k + 1].nodes, 2 * P - s)
    BY <2>3, <2>5, <2>7, <2>8
  <2>15. \A j \in 0..(k + 1) : S(j) \in Nat /\ S(j) >= s /\ S(j) <= P
    <3>1. S(k + 1) = s
      BY DEF s
    <3>2. 2 * s <= P
      <4>1. 0 \in 0..k
        BY <1>6
      <4> QED
        BY <1>4, <2>6, <4>1
    <3> QED
      BY <1>1, <2>1, <2>6, <2>13, <3>1, <3>2
  <2>16. \A j \in 0..(k + 1) : \A i \in 1..S(j) :
           b[k + 1].nodes[2 * P - 2 * S(j) + i] = b[j].level[i]
    BY <2>11, <2>12, <2>13 DEF s
  <2> QED
    BY <2>14, <2>15, <2>16 DEF Good, s
<1>7. \A k \in 0..D : Good(k)
  <2> HIDE DEF Good, S, P, D
  <2>1. ASSUME NEW k \in Nat, k \in G PROVE k + 1 \in G
    BY <1>6, <2>1
  <2> HIDE DEF G
  <2>2. \A k \in Nat : k \in G
    BY <1>5, <2>1, Induction
  <2> QED
    BY <1>1, <2>2 DEF G
<1> DEFINE lv == [k \in 0..D |-> b[k].level]
           t == FromHashes(leaves)
<1>8. \A k \in 0..D : Indexed(lv[k], S(k))
  BY <1>7
<1>9. ASSUME NEW k \in 0..D, k # 0, NEW i \in 1..S(k)
      PROVE  lv[k][i] = HashPair(lv[k - 1][2 * i - 1], lv[k - 1][2 * i])
  <2>1. k - 1 \in 0..D /\ k - 1 \in Nat /\ (k - 1) + 1 = k /\ S(k - 1) = 2 * S(k) /\ S(k) \in Nat
    <3> HIDE DEF S, D
    <3> QED
      BY <1>1, <1>3, <1>9
  <2> HIDE DEF S, D, P, Good
  <2>2. b[k].level = NextLevel(b[k - 1].level) /\ Indexed(b[k - 1].level, 2 * S(k))
    <3>1. b[k].level = NextLevel(b[k - 1].level)
      BY <1>2, <2>1
    <3>2. Indexed(b[k - 1].level, S(k - 1))
      BY <1>7, <2>1 DEF Good
    <3> QED
      BY <2>1, <3>1, <3>2
  <2>3. b[k].level[i] = HashPair(b[k - 1].level[2 * i - 1], b[k - 1].level[2 * i])
    BY <2>1, <2>2, NextLevelIs
  <2> QED
    BY <2>1, <2>3
<1>10. t.nodes = b[D].nodes
  BY <1>1 DEF FromHashes, b
<1>11. Len(t.nodes) = 2 * P - 1
  <2> HIDE DEF S, P
  <2>1. Indexed(b[D].nodes, 2 * P - S(D))
    BY <1>1, <1>7
  <2>2. S(0) >= S(D)
    BY <1>1, <1>7
  <2> QED
    BY <1>1, <1>4, <1>10, <2>1, <2>2 DEF Indexed
<1>12. \A k \in 0..D : \A i \in 1..S(k) : t.nodes[2 * P - 2 * S(k) + i] = lv[k][i]
  <2> HIDE DEF S, P, t
  <2> HIDE DEF D, Good
  <2>1. Good(D)
    BY <1>1, <1>7
  <2> USE DEF Good
  <2> QED
    BY <1>1, <1>10, <2>1
<1>13. Layers(t, lv)
  <2> HIDE DEF lv, t
  <2>1. t.count = n
    BY <1>1 DEF t
  <2> QED
    BY <1>8, <1>9, <1>11, <1>12, <2>1 DEF Layers
<1> QED
  BY <1>1, <1>13

-----------------------------------------------------------------------------

\* The hashes of the first m levels that verify computes
HashedUpTo(hash, p, m) ==
  hash = [k \in 0..m |->
            IF k = 0 THEN p.leaf
            ELSE IF (p.index \div 2 ^ (k - 1)) % 2 = 0 THEN HashPair(hash[k - 1], p.hashes[k])
            ELSE HashPair(p.hashes[k], hash[k - 1])]

\* verify hashes level by level, from the leaf up.
LEMMA HashedUnfolds ==
  ASSUME NEW p, Len(p.hashes) \in Nat
  PROVE  /\ HashedUp(p)[0] = p.leaf
         /\ \A j, k \in 0..Len(p.hashes) : k = j + 1 =>
              HashedUp(p)[k] = IF (p.index \div 2 ^ j) % 2 = 0 THEN HashPair(HashedUp(p)[j], p.hashes[k])
                               ELSE HashPair(p.hashes[k], HashedUp(p)[j])
<1> DEFINE P == {m \in Nat : \E hash : HashedUpTo(hash, p, m)}
           Step(a, k) == IF (p.index \div 2 ^ (k - 1)) % 2 = 0 THEN HashPair(a[k - 1], p.hashes[k])
                         ELSE HashPair(p.hashes[k], a[k - 1])
<1>1. 0 \in P
  <2> DEFINE hash == [k \in 0..0 |-> p.leaf]
  <2>1. HashedUpTo(hash, p, 0)
    BY DEF HashedUpTo
  <2> QED
    BY <2>1
<1>2. ASSUME NEW m \in Nat, m \in P PROVE m + 1 \in P
  <2>1. PICK a : HashedUpTo(a, p, m)
    BY <1>2
  <2> DEFINE b == [k \in 0..(m + 1) |-> IF k = 0 THEN p.leaf ELSE Step(a, k)]
  <2>2. ASSUME NEW k \in 0..m PROVE b[k] = a[k]
    <3>1. k \in 0..(m + 1)
      OBVIOUS
    <3> QED
      BY <2>1, <3>1 DEF HashedUpTo
  <2>3. \A k \in 0..(m + 1) : k # 0 => b[k - 1] = a[k - 1]
    <3> HIDE DEF b
    <3> QED
      BY <2>2
  <2>4. b = [k \in 0..(m + 1) |-> IF k = 0 THEN p.leaf ELSE Step(b, k)]
    BY <2>3
  <2> HIDE DEF b
  <2>5. HashedUpTo(b, p, m + 1)
    BY <2>4 DEF HashedUpTo
  <2> QED
    BY <2>5
<1> HIDE DEF P
<1>3. Len(p.hashes) \in P
  BY <1>1, <1>2, Induction
<1>4. HashedUpTo(HashedUp(p), p, Len(p.hashes))
  BY <1>3 DEF P, HashedUpTo, HashedUp
<1>5. HashedUp(p)[0] = p.leaf
  BY <1>4 DEF HashedUpTo
<1>6. ASSUME NEW j \in 0..Len(p.hashes), NEW k \in 0..Len(p.hashes), k = j + 1
      PROVE  HashedUp(p)[k] = IF (p.index \div 2 ^ j) % 2 = 0 THEN HashPair(HashedUp(p)[j], p.hashes[k])
                              ELSE HashPair(p.hashes[k], HashedUp(p)[j])
  <2>1. k # 0 /\ k - 1 = j
    BY <1>6
  <2> QED
    BY <1>4, <2>1 DEF HashedUpTo
<1> QED
  BY <1>5, <1>6

\* The hash at x in a level, its sibling, and the pair of them one level up: what
\* halving the index of a leaf i comes to.
LEMMA PairAbove ==
  ASSUME NEW t, NEW lv, Layers(t, lv), t.count \in Nat,
         NEW i \in 0..(2 ^ Depth(t.count) - 1),
         NEW j \in 0..Depth(t.count), NEW k \in 0..Depth(t.count), k = j + 1
  PROVE  LET D == Depth(t.count)
             x == i \div 2 ^ j
             y == i \div 2 ^ k
         IN  /\ x \in 0..(2 ^ (D - j) - 1) /\ y \in Nat
             /\ x % 2 = 0 => x + 2 \in 1..2 ^ (D - j) /\ lv[k][y + 1] = HashPair(lv[j][x + 1], lv[j][x + 2])
             /\ x % 2 # 0 => x \in 1..2 ^ (D - j) /\ lv[k][y + 1] = HashPair(lv[j][x], lv[j][x + 1])
<1> DEFINE D == Depth(t.count)
           x == i \div 2 ^ j
           y == i \div 2 ^ k
           s == 2 ^ (D - k)
<1>1. D \in Nat
  BY DepthFits
<1> HIDE DEF D
<1>2. s \in Nat /\ 2 ^ (D - j) = 2 * s /\ 2 ^ k = 2 * 2 ^ j /\ 2 ^ j \in Nat \ {0}
  <2>1. D - k \in Nat /\ D - j = (D - k) + 1 /\ j \in Nat
    BY <1>1 DEF D
  <2> QED
    BY <2>1, PowerOfTwo, PowerAbove
<1>3. 2 ^ D = s * 2 ^ k /\ 2 ^ D = 2 ^ (D - j) * 2 ^ j /\ i \in 0..(2 ^ D - 1) /\ 2 ^ k \in Nat \ {0}
  <2>1. 2 ^ D = s * 2 ^ k /\ 2 ^ D = 2 ^ (D - j) * 2 ^ j
    BY <1>1, PowerSplit DEF D
  <2> QED
    BY <1>2, <2>1 DEF D
<1>4. x \in 0..(2 * s - 1) /\ y \in 0..(s - 1)
  <2> DEFINE p == 2 ^ j
             q == 2 ^ k
             u == 2 * s
  <2>1. i \in 0..(u * p - 1) /\ i \in 0..(s * q - 1) /\ u \in Nat
        /\ p \in Nat \ {0} /\ q \in Nat \ {0}
    BY <1>2, <1>3
  <2> HIDE DEF p, q, s, u
  <2>2. i \div p \in 0..(u - 1)
    BY <2>1, QuotientBelow
  <2>3. i \div q \in 0..(s - 1)
    BY <1>2, <2>1, QuotientBelow
  <2> QED
    BY <2>2, <2>3 DEF p, q, u
<1>5. y = x \div 2
  <2>1. i \in Nat
    BY <1>3
  <2>2. i \div (2 * 2 ^ j) = (i \div 2 ^ j) \div 2
    BY <1>2, <2>1, HalfOfQuotient
  <2> QED
    BY <1>2, <2>2
<1> HIDE DEF x, y, s
<1>6. x = 2 * y + (x % 2) /\ x % 2 \in 0..1
  BY <1>2, <1>4, <1>5
<1>7. k # 0 /\ k - 1 = j /\ y + 1 \in 1..s
  <2>1. k # 0 /\ k - 1 = j
    BY <1>1 DEF D
  <2> QED
    BY <1>2, <1>4, <2>1
<1>8. lv[k][y + 1] = HashPair(lv[j][2 * (y + 1) - 1], lv[j][2 * (y + 1)])
  <2>1. \A z \in 1..2 ^ (D - k) : lv[k][z] = HashPair(lv[k - 1][2 * z - 1], lv[k - 1][2 * z])
    BY <1>7 DEF Layers, D
  <2> QED
    BY <1>7, <2>1 DEF s
<1>9. x % 2 = 0 => 2 * (y + 1) - 1 = x + 1 /\ 2 * (y + 1) = x + 2 /\ x + 2 \in 1..2 * s
  BY <1>2, <1>4, <1>6
<1>10. x % 2 # 0 => 2 * (y + 1) - 1 = x /\ 2 * (y + 1) = x + 1 /\ x \in 1..2 * s
  BY <1>2, <1>4, <1>6
<1>11. /\ x \in 0..(2 ^ (D - j) - 1) /\ y \in Nat
       /\ x % 2 = 0 => x + 2 \in 1..2 ^ (D - j) /\ lv[k][y + 1] = HashPair(lv[j][x + 1], lv[j][x + 2])
       /\ x % 2 # 0 => x \in 1..2 ^ (D - j) /\ lv[k][y + 1] = HashPair(lv[j][x], lv[j][x + 1])
  BY <1>2, <1>4, <1>8, <1>9, <1>10
<1> QED
  BY <1>11 DEF D, x, y

\* The j-th level starts where the levels below it end.
LEMMA LevelStartIs ==
  ASSUME NEW n \in Nat, NEW j \in 0..Depth(n)
  PROVE  LevelStart(n, j) = 2 * 2 ^ Depth(n) - 2 * 2 ^ (Depth(n) - j)
<1> DEFINE D == Depth(n)
           s == 2 ^ (D - j)
           p == 2 ^ j
<1>1. D \in Nat
  BY DepthFits
<1> HIDE DEF D
<1>2. s \in Nat /\ p \in Nat \ {0} /\ 2 ^ D = s * p
  <2>1. D - j \in Nat /\ j \in Nat /\ j \in 0..D
    BY <1>1 DEF D
  <2> QED
    BY <1>1, <2>1, PowerOfTwo, PowerAbove, PowerSplit
<1> HIDE DEF s, p
<1>3. 2 ^ D * 2 = (2 * s) * p /\ 2 * s \in Nat
  BY <1>2
<1>4. (2 ^ D * 2) \div p = 2 * s
  BY <1>2, <1>3, ExactQuotient
<1>5. 2 ^ D \in Nat
  BY <1>1, PowerOfTwo
<1> QED
  BY <1>4, <1>5 DEF LevelStart, PaddedSize, D, s, p

\* The leaves, padded, come first.
LEMMA LeavesFirst ==
  ASSUME NEW t, NEW lv, Layers(t, lv), t.count \in Nat, NEW i \in 0..(2 ^ Depth(t.count) - 1)
  PROVE  t.nodes[i + 1] = lv[0][i + 1]
<1> DEFINE D == Depth(t.count)
           P == 2 ^ D
<1>1. D \in Nat /\ P \in Nat
  BY DepthFits, PowerOfTwo
<1>2. \A k \in 0..D : \A x \in 1..2 ^ (D - k) : t.nodes[2 * P - 2 * 2 ^ (D - k) + x] = lv[k][x]
  BY DEF Layers
<1>3. i \in 0..(P - 1)
  OBVIOUS
<1>4. D - 0 = D /\ 0 \in 0..D /\ 2 * P - 2 * P + (i + 1) = i + 1 /\ i + 1 \in 1..P
  <2> HIDE DEF P, D
  <2> QED
    BY <1>1, <1>3
<1> QED
  BY <1>2, <1>4

\* A proof of the leaf at i names, level by level, the sibling on the path to the root.
OnPath(p, i, lv, D) ==
  /\ p.index = i /\ p.leaf = lv[0][i + 1] /\ p.root = lv[D][1]
  /\ Len(p.hashes) = D
  /\ \A j, k \in 0..D : k = j + 1 =>
       p.hashes[k] = IF (i \div 2 ^ j) % 2 = 0 THEN lv[j][i \div 2 ^ j + 2]
                     ELSE lv[j][i \div 2 ^ j]

\* get_proof takes from each level the sibling of the hash on the path to the root.
LEMMA ProofIs ==
  ASSUME NEW t, NEW lv, Layers(t, lv), t.count \in Nat, NEW i \in 0..(t.count - 1)
  PROVE  OnPath(GetProof(t, i), i, lv, Depth(t.count))
<1> DEFINE D == Depth(t.count)
           P == 2 ^ D
           p == GetProof(t, i)
           Sibling(x) == IF x % 2 = 0 THEN x + 1 ELSE x - 1
           At(x) == IF x < Len(t.nodes) THEN t.nodes[x + 1] ELSE ZeroHash
           h == [k \in 1..D |-> At(LevelStart(t.count, k - 1) + Sibling(i \div 2 ^ (k - 1)))]
<1>1. D \in Nat /\ P \in Nat /\ t.count <= P /\ i \in 0..(P - 1) /\ i \in 0..(2 ^ Depth(t.count) - 1)
  <2>1. D \in Nat /\ t.count <= P
    BY DepthFits
  <2>2. P \in Nat
    BY <2>1, PowerOfTwo
  <2> HIDE DEF P
  <2>3. i \in 0..(P - 1)
    BY <2>1, <2>2
  <2> QED
    BY <2>1, <2>2, <2>3 DEF P
<1>2. p = [index |-> i, leaf |-> t.nodes[i + 1], hashes |-> h, root |-> t.nodes[Len(t.nodes)]]
  BY DEF GetProof, Root
<1>3. /\ Len(t.nodes) = 2 * P - 1
      /\ \A k \in 0..D : \A x \in 1..2 ^ (D - k) : t.nodes[2 * P - 2 * 2 ^ (D - k) + x] = lv[k][x]
  BY DEF Layers
<1>4. t.nodes[i + 1] = lv[0][i + 1]
  BY <1>1, LeavesFirst
<1>5. t.nodes[2 * P - 1] = lv[D][1]
  <2>1. D - D = 0 /\ D \in 0..D /\ 2 ^ 0 = 1 /\ 2 * P - 2 * 1 + 1 = 2 * P - 1 /\ 1 \in 1..1
    <3> HIDE DEF P, D
    <3> QED
      BY <1>1
  <2> HIDE DEF P, D
  <2>2. t.nodes[2 * P - 2 * 2 ^ (D - D) + 1] = lv[D][1]
    <3>1. 1 \in 1..2 ^ (D - D)
      BY <2>1, Zenon
    <3> QED
      BY <1>3, <2>1, <3>1, Zenon
  <2> QED
    BY <2>1, <2>2
<1>6. Len(h) = D
  <2> HIDE DEF D
  <2> QED
    BY <1>1
<1>7. ASSUME NEW j \in 0..D, NEW k \in 0..D, k = j + 1
      PROVE  h[k] = IF (i \div 2 ^ j) % 2 = 0 THEN lv[j][i \div 2 ^ j + 2] ELSE lv[j][i \div 2 ^ j]
  <2> DEFINE x == i \div 2 ^ j
             s == 2 ^ (D - j)
             start == LevelStart(t.count, j)
             z == IF x % 2 = 0 THEN x + 2 ELSE x
  <2>1. /\ x \in 0..(s - 1)
        /\ x % 2 = 0 => x + 2 \in 1..s
        /\ x % 2 # 0 => x \in 1..s
    BY <1>1, <1>7, PairAbove
  <2>2. start = 2 * P - 2 * s
    BY <1>1, <1>7, LevelStartIs
  <2>3. h[k] = At(start + Sibling(x))
    <3>1. k \in 1..D /\ k - 1 = j
      <4> HIDE DEF D
      <4> QED
        BY <1>1, <1>7
    <3> HIDE DEF D, At, Sibling
    <3> QED
      BY <3>1
  <2>4. D - j \in Nat
    <3> HIDE DEF D
    <3> QED
      BY <1>1, <1>7
  <2>5. s \in Nat
    BY <2>4, PowerOfTwo
  <2>6. s <= P
    <3>1. P = s * 2 ^ j /\ 2 ^ j \in Nat \ {0}
      <4> HIDE DEF D
      <4>1. j \in Nat /\ D \in Nat
        BY <1>1
      <4> QED
        BY <4>1, PowerSplit, PowerOfTwo, PowerAbove
    <3> HIDE DEF s, P, D
    <3>2. ASSUME NEW y \in Nat \ {0} PROVE s <= s * y
      BY <2>5
    <3> QED
      BY <3>1, <3>2
  <2>7. t.nodes[2 * P - 2 * s + z] = lv[j][z] /\ z \in 1..s
    <3>1. z \in 1..s
      <4> HIDE DEF x, s
      <4> QED
        BY <2>1
    <3> HIDE DEF z, P, D
    <3> QED
      BY <1>3, <3>1
  <2> HIDE DEF x, s, start, P
  <2>8. Sibling(x) + 1 = z /\ Sibling(x) \in Int
    BY <2>1, <2>5
  <2> HIDE DEF Sibling, z
  <2>9. start + Sibling(x) + 1 = 2 * P - 2 * s + z /\ start + Sibling(x) < 2 * P - 1
    BY <1>1, <2>2, <2>5, <2>6, <2>7, <2>8
  <2>10. At(start + Sibling(x)) = lv[j][z]
    BY <1>3, <2>7, <2>9
  <2> HIDE DEF At, h
  <2> QED
    BY <2>3, <2>10 DEF z, x
<1> HIDE DEF h, P
<1>8. p.index = i /\ p.leaf = lv[0][i + 1] /\ p.root = lv[D][1] /\ p.hashes = h
  BY <1>2, <1>3, <1>4, <1>5
<1> HIDE DEF p, D
<1>9. OnPath(p, i, lv, D)
  BY <1>6, <1>7, <1>8 DEF OnPath
<1> QED
  BY <1>9 DEF D, p

\* The proof of a leaf hashes up along its path, and where the siblings on that
\* path lead another hash to the root, it is the hash of the leaf they lead from.
LEMMA LayersProve ==
  ASSUME NEW t, NEW lv, Layers(t, lv), t.count \in Nat, NEW i \in 0..(t.count - 1)
  PROVE  LET p == GetProof(t, i)
         IN  /\ Verify(p)
             /\ \A j \in 0..(PaddedSize(t.count) - 1), h \in Leaf :
                  Verify([p EXCEPT !.index = j, !.leaf = h]) => t.nodes[j + 1] = h
<1> DEFINE D == Depth(t.count)
           P == 2 ^ D
           p == GetProof(t, i)
           up == HashedUp(p)
<1>1. D \in Nat /\ P \in Nat /\ i \in 0..(P - 1) /\ i \in 0..(2 ^ Depth(t.count) - 1)
  <2>1. D \in Nat /\ t.count <= P
    BY DepthFits
  <2>2. P \in Nat
    BY <2>1, PowerOfTwo
  <2> HIDE DEF P
  <2>3. i \in 0..(P - 1)
    BY <2>1, <2>2
  <2> QED
    BY <2>1, <2>2, <2>3 DEF P
<1>2. /\ p.index = i /\ p.leaf = lv[0][i + 1] /\ p.root = lv[D][1]
      /\ Len(p.hashes) = D
      /\ \A j, k \in 0..D : k = j + 1 =>
           p.hashes[k] = IF (i \div 2 ^ j) % 2 = 0 THEN lv[j][i \div 2 ^ j + 2]
                         ELSE lv[j][i \div 2 ^ j]
  <2>1. OnPath(p, i, lv, D)
    BY ProofIs
  <2> HIDE DEF P, up, p, D
  <2> QED
    BY <2>1 DEF OnPath
<1>3. \A a \in Nat : a \div 2 ^ 0 = a
  OBVIOUS
<1>4. \A a \in 0..(P - 1) : a \div 2 ^ D = 0
  <2>1. P = 1 * P /\ P \in Nat \ {0}
    BY <1>1, PowerAbove
  <2> HIDE DEF P
  <2>2. ASSUME NEW a \in 0..(P - 1) PROVE a \div P \in 0..(1 - 1)
    <3>1. a \in 0..(1 * P - 1)
      BY <2>1
    <3> QED
      BY <2>1, <3>1, QuotientBelow
  <2> QED
    BY <2>2 DEF P
\* The path of the leaf itself
<1>5. /\ up[0] = lv[0][i + 1]
      /\ \A j, k \in 0..D : k = j + 1 =>
           up[k] = IF (i \div 2 ^ j) % 2 = 0 THEN HashPair(up[j], p.hashes[k])
                   ELSE HashPair(p.hashes[k], up[j])
  <2> HIDE DEF D, p
  <2>1. /\ up[0] = p.leaf
        /\ \A j, k \in 0..Len(p.hashes) : k = j + 1 =>
             up[k] = IF (p.index \div 2 ^ j) % 2 = 0 THEN HashPair(up[j], p.hashes[k])
                     ELSE HashPair(p.hashes[k], up[j])
    BY <1>1, <1>2, HashedUnfolds
  <2> HIDE DEF up
  <2> QED
    BY <1>2, <2>1
<1> DEFINE G == {k \in Nat : k <= D => up[k] = lv[k][i \div 2 ^ k + 1]}
<1>6. 0 \in G
  <2>1. i \div 2 ^ 0 = i
    BY <1>1, <1>3
  <2> HIDE DEF up, D
  <2> QED
    BY <1>5, <2>1
<1>7. ASSUME NEW j \in Nat, j \in G PROVE j + 1 \in G
  <2> SUFFICES ASSUME NEW k \in 0..D, k = j + 1 PROVE up[k] = lv[k][i \div 2 ^ k + 1]
    <3> HIDE DEF up, D
    <3> QED
      BY <1>1
  <2>1. j \in 0..D /\ up[j] = lv[j][i \div 2 ^ j + 1]
    <3> HIDE DEF up, D
    <3> QED
      BY <1>1, <1>7
  <2> DEFINE x == i \div 2 ^ j
             y == i \div 2 ^ k
  <2>2. /\ x % 2 = 0 => lv[k][y + 1] = HashPair(lv[j][x + 1], lv[j][x + 2])
        /\ x % 2 # 0 => lv[k][y + 1] = HashPair(lv[j][x], lv[j][x + 1])
    BY <1>1, <2>1, PairAbove
  <2>3. p.hashes[k] = IF x % 2 = 0 THEN lv[j][x + 2] ELSE lv[j][x]
    BY <1>2, <2>1
  <2>4. up[k] = IF x % 2 = 0 THEN HashPair(up[j], p.hashes[k]) ELSE HashPair(p.hashes[k], up[j])
    BY <1>5, <2>1
  <2> HIDE DEF up, D, p, x, y
  <2>5. up[j] = lv[j][x + 1]
    BY <2>1 DEF x
  <2> QED
    BY <2>2, <2>3, <2>4, <2>5 DEF y
<1>8. \A k \in 0..D : up[k] = lv[k][i \div 2 ^ k + 1]
  <2> HIDE DEF up, D
  <2>1. \A k \in Nat : k \in G
    <3> HIDE DEF G
    <3> QED
      BY <1>6, <1>7, Induction
  <2> QED
    BY <1>1, <2>1
<1>9. Verify(p)
  <2> HIDE DEF p, D, P, up
  <2>1. up[D] = lv[D][1]
    BY <1>1, <1>4, <1>8
  <2> QED
    BY <1>2, <2>1 DEF Verify, up
\* The path of a leaf elsewhere
<1>10. ASSUME NEW a \in 0..(P - 1), NEW h \in Leaf, Verify([p EXCEPT !.index = a, !.leaf = h])
       PROVE  t.nodes[a + 1] = h
  <2> DEFINE q == [p EXCEPT !.index = a, !.leaf = h]
             other == HashedUp(q)
  <2>1. q.index = a /\ q.leaf = h /\ q.hashes = p.hashes /\ q.root = p.root
    <3>1. \E leaf, hashes, root : p = [index |-> i, leaf |-> leaf, hashes |-> hashes, root |-> root]
      BY DEF GetProof
    <3> HIDE DEF p
    <3>2. PICK leaf, hashes, root : p = [index |-> i, leaf |-> leaf, hashes |-> hashes, root |-> root]
      BY <3>1
    <3> QED
      BY <3>2
  <2> HIDE DEF q
  <2>2. /\ other[0] = h /\ other[D] = p.root
        /\ \A j, k \in 0..D : k = j + 1 =>
             other[k] = IF (a \div 2 ^ j) % 2 = 0 THEN HashPair(other[j], p.hashes[k])
                        ELSE HashPair(p.hashes[k], other[j])
    <3> HIDE DEF D, p
    <3>1. /\ other[0] = q.leaf
          /\ \A j, k \in 0..Len(q.hashes) : k = j + 1 =>
               other[k] = IF (q.index \div 2 ^ j) % 2 = 0 THEN HashPair(other[j], q.hashes[k])
                          ELSE HashPair(q.hashes[k], other[j])
      BY <1>1, <1>2, <2>1, HashedUnfolds
    <3>2. other[Len(q.hashes)] = q.root
      BY <1>10 DEF Verify, q
    <3> HIDE DEF other
    <3> QED
      BY <1>2, <2>1, <3>1, <3>2
  <2>3. \A l, m, r, z : HashPair(l, r) = HashPair(m, z) => l = m /\ r = z
    BY DEF HashPair
  <2> HIDE DEF other
  <2> DEFINE Meet(k) == other[k] = up[k] /\ lv[k][a \div 2 ^ k + 1] = lv[k][i \div 2 ^ k + 1]
             H == {m \in Nat : m <= D => Meet(D - m)}
  <2>4. 0 \in H
    <3> HIDE DEF up, D, P, p
    <3>1. D - 0 = D /\ D \in 0..D
      BY <1>1
    <3>2. up[D] = lv[D][i \div 2 ^ D + 1] /\ i \div 2 ^ D = 0 /\ a \div 2 ^ D = 0
      BY <1>1, <1>4, <1>8, <3>1
    <3>3. Meet(D)
      BY <1>2, <2>2, <3>2
    <3> QED
      BY <3>1, <3>3
  <2>5. ASSUME NEW j \in 0..D, NEW k \in 0..D, k = j + 1, Meet(k) PROVE Meet(j)
    <3> DEFINE x == i \div 2 ^ j
               y == i \div 2 ^ k
               u == a \div 2 ^ j
               v == a \div 2 ^ k
    <3>1. /\ x % 2 = 0 => lv[k][y + 1] = HashPair(lv[j][x + 1], lv[j][x + 2])
          /\ x % 2 # 0 => lv[k][y + 1] = HashPair(lv[j][x], lv[j][x + 1])
      <4>1. k = j + 1
        BY <2>5
      <4> QED
        BY <1>1, <4>1, PairAbove
    <3>2. /\ u % 2 = 0 => lv[k][v + 1] = HashPair(lv[j][u + 1], lv[j][u + 2])
          /\ u % 2 # 0 => lv[k][v + 1] = HashPair(lv[j][u], lv[j][u + 1])
      BY <1>1, <2>5, PairAbove
    <3>3. p.hashes[k] = IF x % 2 = 0 THEN lv[j][x + 2] ELSE lv[j][x]
      BY <1>2, <2>5
    <3>4. up[k] = IF x % 2 = 0 THEN HashPair(up[j], p.hashes[k]) ELSE HashPair(p.hashes[k], up[j])
      BY <1>5, <2>5
    <3>5. other[k] = IF u % 2 = 0 THEN HashPair(other[j], p.hashes[k]) ELSE HashPair(p.hashes[k], other[j])
      BY <2>2, <2>5
    <3>6. up[j] = lv[j][x + 1]
      BY <1>8
    <3>7. other[k] = up[k] /\ lv[k][v + 1] = lv[k][y + 1]
      BY <2>5
    <3> HIDE DEF up, D, P, p, x, y, u, v
    <3> DEFINE s == p.hashes[k]
    <3> HIDE DEF s
    <3>8. other[j] = up[j] /\ lv[j][u + 1] = lv[j][x + 1]
      <4>1. CASE x % 2 = 0 /\ u % 2 = 0
        BY <2>3, <3>1, <3>2, <3>4, <3>5, <3>7, <4>1
      <4>2. CASE x % 2 # 0 /\ u % 2 # 0
        BY <2>3, <3>1, <3>2, <3>4, <3>5, <3>7, <4>2
      <4>3. CASE x % 2 = 0 /\ u % 2 # 0
        BY <2>3, <3>1, <3>2, <3>3, <3>4, <3>5, <3>6, <3>7, <4>3
      <4>4. CASE x % 2 # 0 /\ u % 2 = 0
        BY <2>3, <3>1, <3>2, <3>3, <3>4, <3>5, <3>6, <3>7, <4>4
      <4> QED
        BY <4>1, <4>2, <4>3, <4>4
    <3> QED
      BY <3>8 DEF x, u
  <2>6. ASSUME NEW m \in Nat, m \in H PROVE m + 1 \in H
    <3> SUFFICES ASSUME m + 1 <= D PROVE Meet(D - (m + 1))
      <4> HIDE DEF Meet, D
      <4> QED
        OBVIOUS
    <3> HIDE DEF Meet, D
    <3>1. D - (m + 1) \in 0..D /\ D - m \in 0..D /\ D - m = (D - (m + 1)) + 1
      BY <1>1
    <3>2. Meet(D - m)
      BY <1>1, <2>6
    <3> QED
      BY <2>5, <3>1, <3>2
  <2>7. Meet(0)
    <3> HIDE DEF Meet, D
    <3>1. D \in H
      <4> HIDE DEF H
      <4> QED
        BY <1>1, <2>4, <2>6, Induction
    <3>2. D - D = 0
      BY <1>1
    <3> QED
      BY <1>1, <3>1, <3>2
  <2>8. t.nodes[a + 1] = lv[0][a + 1]
    BY LeavesFirst
  <2>9. a \div 2 ^ 0 = a /\ i \div 2 ^ 0 = i
    BY <1>1, <1>3
  <2> HIDE DEF up, D, P, p
  <2> QED
    BY <1>5, <2>2, <2>7, <2>8, <2>9
<1> QED
  BY <1>9, <1>10 DEF PaddedSize

-----------------------------------------------------------------------------

\* Of every tree of transactions, of any number of them: the proof of every leaf
\* verifies, and with its siblings no other hash does.
THEOREM ProofsHoldCorrect == MerkleSpec => []ProofsHold
<1> DEFINE Laid == tree.count \in Nat /\ \E lv : Layers(tree, lv)
<1>1. ASSUME NEW n \in Nat, NEW leaves \in [1..n -> Leaf]
      PROVE  FromHashes(leaves).count \in Nat /\ \E lv : Layers(FromHashes(leaves), lv)
  BY TreeHasLayers
<1>2. MerkleInit => Laid
  <2>1. <<>> \in [1..0 -> Leaf]
    OBVIOUS
  <2>2. FromHashes(<<>>).count \in Nat /\ \E lv : Layers(FromHashes(<<>>), lv)
    BY <1>1, <2>1
  <2> QED
    BY <2>2 DEF MerkleInit
<1>3. Laid /\ [BuildTree]_tree => Laid'
  <2>1. ASSUME BuildTree PROVE Laid'
    <3>1. PICK n \in 0..MaxLeaves : \E leaves \in [1..n -> Leaf] : tree' = FromHashes(leaves)
      BY <2>1 DEF BuildTree
    <3>2. PICK leaves \in [1..n -> Leaf] : tree' = FromHashes(leaves)
      BY <3>1
    <3>3. n \in Nat
      BY MerkleAssumption
    <3> QED
      BY <1>1, <3>2, <3>3
  <2> QED
    BY <2>1
<1>4. Laid => ProofsHold
  BY LayersProve DEF ProofsHold
<1> QED
  BY <1>2, <1>3, <1>4, PTL DEF MerkleSpec

=================================================================================
