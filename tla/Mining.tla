-------------------------------- MODULE Mining --------------------------------
(***************************************************************************)
(* The parallel miner: consensus/pow.rs (mine_block_parallel) driven by    *)
(* the mining loop of the frychain-miner binary.                           *)
(*                                                                         *)
(* The coordinator spawns one thread per core on its own residue class of  *)
(* nonces and joins them in order; Ctrl-C may come at any moment.  A round *)
(* is one block template.  Height, parent and difficulty decide which      *)
(* nonces win, and nothing else here: each round draws that set anew.  The *)
(* flags are relaxed atomics that only go from FALSE to TRUE in a round,   *)
(* so a late read of one is the same as a slower thread.                   *)
(***************************************************************************)
EXTENDS Integers, FiniteSets, FiniteSetsExt

CONSTANTS
  Threads,    \* num_threads; the threads are 0 .. Threads - 1
  U64,        \* 2^64: nonces and hash counts are u64 and wrap
  Targets,    \* the sets of nonces that may meet the target of a template
  NoNonce     \* None

ASSUME MiningAssumption ==
  /\ Threads \in Nat \ {0} /\ U64 \in Nat /\ Threads < U64
  /\ Targets \subseteq SUBSET (0..(U64 - 1))
  /\ NoNonce \notin 0..(U64 - 1)

VARIABLES
  stop,     \* stop_signal, set by Ctrl-C
  found,    \* the found flag of the round
  counter,  \* total_hashes of the round
  winning,  \* the nonces whose hash meets the target of the template
  pc,       \* where each mining thread is
  nonce,    \* the nonce each thread tries next
  local,    \* its local_hashes
  tried,    \* history: the nonces it has hashed in this round
  ret,      \* what it returns
  main,     \* where the coordinator is
  joined,   \* the handles it has joined
  result    \* the nonce the round returns

round  == <<winning, joined, result>>
worker == <<pc, nonce, local, tried, ret>>
vars   == <<stop, found, counter, worker, main, round>>

Thread == 0..(Threads - 1)
Nonce  == 0..(U64 - 1)

TypeOK ==
  /\ stop \in BOOLEAN /\ found \in BOOLEAN
  /\ counter \in Nonce
  /\ winning \in Targets
  /\ pc \in [Thread -> {"check", "hash", "announce", "report", "done"}]
  /\ nonce \in [Thread -> Nonce]
  /\ local \in [Thread -> Nonce]
  /\ tried \in [Thread -> SUBSET Nonce]
  /\ ret \in [Thread -> Nonce \cup {NoNonce}]
  /\ main \in {"loop", "join", "close", "done"}
  /\ joined \in 0..Threads
  /\ result \in Nonce \cup {NoNonce}

Each(x) == [t \in Thread |-> x]

Init ==
  /\ stop = FALSE /\ found = FALSE
  /\ counter = 0
  /\ winning \in Targets
  /\ pc = Each("done") /\ nonce = Each(0) /\ local = Each(0)
  /\ tried = Each({}) /\ ret = Each(NoNonce)
  /\ main = "loop" /\ joined = 0 /\ result = NoNonce

-----------------------------------------------------------------------------
(***************************************************************************)
(* A mining thread.                                                        *)
(***************************************************************************)

Goto(t, step) == pc' = [pc EXCEPT ![t] = step]

KeepOn(t) ==
  /\ pc[t] = "check"
  /\ ~found /\ ~stop
  /\ Goto(t, "hash")
  /\ UNCHANGED <<stop, found, counter, nonce, local, tried, ret, main, round>>

\* Mutant of GiveUp: only the end of the whole miner is looked at
GiveUpOnStop(t) ==
  /\ pc[t] = "check"
  /\ stop
  /\ Goto(t, "report")
  /\ UNCHANGED <<stop, found, counter, nonce, local, tried, ret, main, round>>

\* Mutant of GiveUp: only the other threads are looked at
GiveUpOnFound(t) ==
  /\ pc[t] = "check"
  /\ found
  /\ Goto(t, "report")
  /\ UNCHANGED <<stop, found, counter, nonce, local, tried, ret, main, round>>

\* Another thread has found a nonce, or the miner is being stopped
GiveUp(t) ==
  /\ pc[t] = "check"
  /\ found \/ stop
  /\ Goto(t, "report")
  /\ UNCHANGED <<stop, found, counter, nonce, local, tried, ret, main, round>>

\* Mutant of NextNonce: every thread steps by one
NextNonceByOne(n) == (n + 1) % U64

\* Mutant of NextNonce: the step is one too wide
NextNonceWide(n) == (n + Threads + 1) % U64

\* nonce.wrapping_add(step)
NextNonce(n) == (n + Threads) % U64

\* Mutant of Hash: the nonce is moved on before it is returned
HashThenMove(t) ==
  /\ pc[t] = "hash"
  /\ local' = [local EXCEPT ![t] = (@ + 1) % U64]
  /\ tried' = [tried EXCEPT ![t] = @ \cup {nonce[t]}]
  /\ IF nonce[t] \in winning
     THEN /\ Goto(t, "announce")
          /\ ret' = [ret EXCEPT ![t] = NextNonce(nonce[t])]
          /\ UNCHANGED nonce
     ELSE /\ Goto(t, "check")
          /\ nonce' = [nonce EXCEPT ![t] = NextNonce(@)]
          /\ UNCHANGED ret
  /\ UNCHANGED <<stop, found, counter, main, round>>

\* Mutant of Hash: a stopped thread does not look at its last hash
HashUnlessStopped(t) ==
  /\ pc[t] = "hash"
  /\ local' = [local EXCEPT ![t] = (@ + 1) % U64]
  /\ tried' = [tried EXCEPT ![t] = @ \cup {nonce[t]}]
  /\ IF nonce[t] \in winning /\ ~stop
     THEN /\ Goto(t, "announce")
          /\ ret' = [ret EXCEPT ![t] = nonce[t]]
          /\ UNCHANGED nonce
     ELSE /\ Goto(t, "check")
          /\ nonce' = [nonce EXCEPT ![t] = NextNonce(@)]
          /\ UNCHANGED ret
  /\ UNCHANGED <<stop, found, counter, main, round>>

\* One hash; the target decides whether the thread is done
Hash(t) ==
  /\ pc[t] = "hash"
  /\ local' = [local EXCEPT ![t] = (@ + 1) % U64]
  /\ tried' = [tried EXCEPT ![t] = @ \cup {nonce[t]}]
  /\ IF nonce[t] \in winning
     THEN /\ Goto(t, "announce")
          /\ ret' = [ret EXCEPT ![t] = nonce[t]]
          /\ UNCHANGED nonce
     ELSE /\ Goto(t, "check")
          /\ nonce' = [nonce EXCEPT ![t] = NextNonce(@)]
          /\ UNCHANGED ret
  /\ UNCHANGED <<stop, found, counter, main, round>>

Announce(t) ==
  /\ pc[t] = "announce"
  /\ found' = TRUE
  /\ Goto(t, "report")
  /\ UNCHANGED <<stop, counter, nonce, local, tried, ret, main, round>>

\* hashes_counter.fetch_add(local_hashes), and the thread ends
Report(t) ==
  /\ pc[t] = "report"
  /\ counter' = (counter + local[t]) % U64
  /\ Goto(t, "done")
  /\ UNCHANGED <<stop, found, nonce, local, tried, ret, main, round>>

Work(t) == KeepOn(t) \/ GiveUp(t) \/ Hash(t) \/ Announce(t) \/ Report(t)

-----------------------------------------------------------------------------
(***************************************************************************)
(* The coordinator.                                                        *)
(***************************************************************************)

\* A new template; the threads start at their own offsets
StartRound(w) ==
  /\ main = "loop"
  /\ ~stop
  /\ winning' = w
  /\ found' = FALSE /\ counter' = 0
  /\ pc' = Each("check") /\ local' = Each(0)
  /\ nonce' = [t \in Thread |-> t]
  /\ tried' = Each({}) /\ ret' = Each(NoNonce)
  /\ joined' = 0 /\ result' = NoNonce
  /\ main' = "join"
  /\ UNCHANGED stop

\* Mutant of JoinNext: the first thread to be joined decides
JoinOnce ==
  /\ main = "join"
  /\ joined < Threads
  /\ pc[joined] = "done"
  /\ result' = ret[joined]
  /\ main' = "close"
  /\ UNCHANGED <<stop, found, counter, worker, winning, joined>>

\* The handles are joined in order until one has a nonce
JoinNext ==
  /\ main = "join"
  /\ joined < Threads
  /\ pc[joined] = "done"
  /\ IF ret[joined] = NoNonce
     THEN joined' = joined + 1 /\ UNCHANGED <<main, result>>
     ELSE result' = ret[joined] /\ main' = "close" /\ UNCHANGED joined
  /\ UNCHANGED <<stop, found, counter, worker, winning>>

JoinedAll ==
  /\ main = "join"
  /\ joined = Threads
  /\ main' = "close"
  /\ UNCHANGED <<stop, found, counter, worker, round>>

\* Mutant of CloseRound: the threads not joined yet are not waited for
CloseRoundEarly ==
  /\ main = "close"
  /\ main' = "loop"
  /\ UNCHANGED <<stop, found, counter, worker, round>>

\* The scope ends when every thread has, joined or not; the count is read, and
\* the miner goes on: to the next height if there is a nonce, or to stop
CloseRound ==
  /\ main = "close"
  /\ \A t \in Thread : pc[t] = "done"
  /\ main' = "loop"
  /\ UNCHANGED <<stop, found, counter, worker, round>>

Quit ==
  /\ main = "loop"
  /\ stop
  /\ main' = "done"
  /\ UNCHANGED <<stop, found, counter, worker, round>>

Coordinate ==
  \/ \E w \in Targets : StartRound(w)
  \/ JoinNext \/ JoinedAll \/ CloseRound \/ Quit

CtrlC ==
  /\ ~stop
  /\ stop' = TRUE
  /\ UNCHANGED <<found, counter, worker, main, round>>

Next == Coordinate \/ CtrlC \/ \E t \in Thread : Work(t)

Spec == Init /\ [][Next]_vars

\* The operating system runs every thread; nobody is obliged to press Ctrl-C
FairSpec ==
  /\ Spec
  /\ WF_vars(Coordinate)
  /\ \A t \in Thread : WF_vars(Work(t))

-----------------------------------------------------------------------------

\* Thread t has not gone round the nonces
Unwrapped(t) == t + (Cardinality(tried[t]) - 1) * Threads < U64

\* No nonce is hashed by two threads before one of them has gone past 2^64,
\* whatever the number of threads: the residue classes do not overlap.
NoDuplicateWork ==
  \A t, u \in Thread :
    t # u /\ Unwrapped(t) /\ Unwrapped(u) => tried[t] \cap tried[u] = {}

\* Once every thread has hashed its share of the nonces, all of them have been
\* tried, also when the number of threads does not divide 2^64.
NothingSkipped ==
  (\A t \in Thread : Cardinality(tried[t]) * Threads >= U64)
    => UNION {tried[t] : t \in Thread} = Nonce

\* The nonce a round returns meets the target of its own template.
ResultMeetsTarget == result # NoNonce => result \in winning

\* A round returns None only if no thread hashed a winning nonce: neither a
\* Ctrl-C in the middle, nor the order of joining, loses a solution.
SolutionKept ==
  main = "close" /\ result = NoNonce => \A t \in Thread : tried[t] \cap winning = {}

\* The hash count the miner reads for a block includes every hash of every
\* thread (modulo 2^64), also of the threads it did not wait for with join.
HashesCounted ==
  [][main = "close" /\ main' = "loop"
       => counter = SumFunction(local) % U64]_vars

\* If some nonce meets the target the round ends: a thread that cannot find it
\* in its own residue class learns of it through the found flag.
RoundEnds == (main = "join" /\ winning # {}) ~> main # "join"

\* Ctrl-C ends the miner, whatever the threads are doing.
StopEnds == stop ~> main = "done"

=============================================================================
