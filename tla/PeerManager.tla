---------------------------- MODULE PeerManager ----------------------------
(***************************************************************************)
(* The peer table of frychain-network: peer.rs.  Threads share a           *)
(* PeerManager; each DashMap operation is atomic on one shard of the map,  *)
(* so a call is a sequence of such steps.  The reference that get returns  *)
(* keeps its shard locked for reading while it lives, and a write waits    *)
(* until nobody reads the shard.  Times are in seconds, unsigned 64-bit,   *)
(* and their difference wraps around (release profile).                    *)
(***************************************************************************)
EXTENDS Naturals, FiniteSets

CONSTANTS
  Thread, Peer,
  ShardOf,     \* the shard of a peer id, counted from 1, in either map
  MaxPeers,
  MaxIdle,     \* max_idle_secs
  Duration,    \* the lengths of bans
  U64,         \* 2^64
  MaxTime,     \* bound on the clock
  Absent       \* no entry in a map

Shard == {ShardOf[p] : p \in Peer}
Time == 0..MaxTime

ASSUME PeerAssumption ==
  /\ IsFiniteSet(Thread) /\ Thread # {} /\ IsFiniteSet(Peer)
  /\ ShardOf \in [Peer -> Nat \ {0}]
  /\ MaxPeers \in Nat /\ MaxIdle \in Nat /\ Duration \subseteq Nat
  /\ MaxTime \in Nat /\ U64 \in Nat /\ U64 > 2 * MaxTime /\ U64 > MaxTime + MaxIdle
  /\ Absent \notin Nat

VARIABLES
  now,       \* the clock
  peers,     \* last_seen of the peers in the table
  bans,      \* banned_peers: until when
  thread,    \* where each thread is in its call
  touched,   \* history: the peers seen while a thread cleans up
  raced      \* history: the peers that were about to be inserted when banned

peerVars == <<now, peers, bans, thread, touched, raced>>

Present == {p \in Peer : peers[p] # Absent}
Banned(p) == bans[p] # Absent /\ now < bans[p]

Idle == [at |-> "idle"]
Call ==
  {Idle}
    \* add_peer: counting the shards, looking at the ban, removing it, inserting
    \cup [at : {"count"}, peer : Peer, seen : Time, shard : Nat, n : Nat]
    \cup [at : {"check", "unban", "insert"}, peer : Peer, seen : Time]
    \* ban_peer: the ban, then the table
    \cup [at : {"ban"}, peer : Peer, until : Nat] \cup [at : {"unseat"}, peer : Peer]
    \* cleanup_stale_peers: collecting shard by shard, then removing
    \cup [at : {"scan"}, began : Time, shard : Nat, stale : SUBSET Peer]
    \cup [at : {"sweep"}, stale : SUBSET Peer]

PeerTypeOK ==
  /\ now \in Time
  /\ peers \in [Peer -> Time \cup {Absent}]
  /\ bans \in [Peer -> Nat \cup {Absent}]
  /\ thread \in [Thread -> Call]
  /\ touched \in [Thread -> SUBSET Peer]
  /\ raced \subseteq Peer

PeerInit ==
  /\ now = 0
  /\ peers = [p \in Peer |-> Absent]
  /\ bans = [p \in Peer |-> Absent]
  /\ thread = [t \in Thread |-> Idle]
  /\ touched = [t \in Thread |-> {}]
  /\ raced = {}

Goto(t, call) == thread' = [thread EXCEPT ![t] = call]
Touched(p) ==
  touched' = [t \in Thread |->
    IF thread[t].at \in {"scan", "sweep"} THEN touched[t] \cup {p} ELSE touched[t]]

Tick ==
  /\ now < MaxTime
  /\ now' = now + 1
  /\ UNCHANGED <<peers, bans, thread, touched, raced>>

-----------------------------------------------------------------------------
\* add_peer

\* A PeerInfo is made and passed to add_peer
Add(t, p) ==
  /\ thread[t] = Idle
  /\ Goto(t, [at |-> "count", peer |-> p, seen |-> now, shard |-> 1, n |-> 0])
  /\ UNCHANGED <<now, peers, bans, touched, raced>>

\* Mutant of Room: one peer too many
RoomForOneMore(n) == n <= MaxPeers

Room(n) == n < MaxPeers

\* The shards from s on that follow one another
Shards(s) == {i \in Shard : i >= s}

\* len adds up the shards one after the other; at the end the limit is checked
Count(t) ==
  LET c == thread[t] IN
  /\ c.at = "count"
  /\ LET n == c.n + Cardinality({p \in Present : ShardOf[p] = c.shard})
     IN  IF Shards(c.shard + 1) # {}
         THEN Goto(t, [c EXCEPT !.shard = @ + 1, !.n = n])
         ELSE IF Room(n) THEN Goto(t, [at |-> "check", peer |-> c.peer, seen |-> c.seen])
         ELSE Goto(t, Idle)
  /\ UNCHANGED <<now, peers, bans, touched, raced>>

\* Mutant of Check: every ban is taken for an expired one that is gone
CheckNothing(t) ==
  /\ thread[t].at = "check"
  /\ Goto(t, [thread[t] EXCEPT !.at = "insert"])
  /\ UNCHANGED <<now, peers, bans, touched, raced>>

\* is_banned: a ban that has expired is to be removed, with its shard still locked
Check(t) ==
  LET p == thread[t].peer IN
  /\ thread[t].at = "check"
  /\ \/ Banned(p) /\ Goto(t, Idle)
     \/ bans[p] = Absent /\ Goto(t, [thread[t] EXCEPT !.at = "insert"])
     \/ bans[p] # Absent /\ ~Banned(p) /\ Goto(t, [thread[t] EXCEPT !.at = "unban"])
  /\ UNCHANGED <<now, peers, bans, touched, raced>>

Insert(t) ==
  LET p == thread[t].peer IN
  /\ thread[t].at = "insert"
  /\ peers' = [peers EXCEPT ![p] = thread[t].seen]
  /\ Goto(t, Idle) /\ Touched(p)
  /\ UNCHANGED <<now, bans, raced>>

-----------------------------------------------------------------------------
\* ban_peer

Ban(t, p, d) ==
  /\ thread[t] = Idle
  /\ Goto(t, [at |-> "ban", peer |-> p, until |-> now + d])
  /\ UNCHANGED <<now, peers, bans, touched, raced>>

\* Mutant of Unlocked: a thread does not wait for its own reference
UnlockedByOthers(t, s) ==
  \A u \in Thread \ {t} : thread[u].at = "unban" => ShardOf[thread[u].peer] # s

\* Does no reference keep the shard s of banned_peers from thread t?
Unlocked(t, s) ==
  \A u \in Thread : thread[u].at = "unban" => ShardOf[thread[u].peer] # s

\* The writes to banned_peers: ban_peer inserts, is_banned removes what has expired
WriteBans(t) ==
  LET p == thread[t].peer IN
  /\ thread[t].at \in {"ban", "unban"} /\ Unlocked(t, ShardOf[p])
  /\ IF thread[t].at = "ban"
     THEN /\ bans' = [bans EXCEPT ![p] = thread[t].until]
          /\ Goto(t, [at |-> "unseat", peer |-> p])
          /\ raced' = IF \E u \in Thread : thread[u].at = "insert" /\ thread[u].peer = p
                      THEN raced \cup {p} ELSE raced \ {p}
     ELSE /\ bans' = [bans EXCEPT ![p] = Absent]
          /\ Goto(t, [thread[t] EXCEPT !.at = "insert"])
          /\ UNCHANGED raced
  /\ UNCHANGED <<now, peers, touched>>

\* ban_peer removes the peer from the table at last
Unseat(t) ==
  /\ thread[t].at = "unseat"
  /\ peers' = [peers EXCEPT ![thread[t].peer] = Absent]
  /\ Goto(t, Idle)
  /\ UNCHANGED <<now, bans, touched, raced>>

-----------------------------------------------------------------------------
\* remove_peer, and update_peer with touch or update_status

Remove(t, p) ==
  /\ thread[t] = Idle /\ p \in Present
  /\ peers' = [peers EXCEPT ![p] = Absent]
  /\ UNCHANGED <<now, bans, thread, touched, raced>>

Touch(t, p) ==
  /\ thread[t] = Idle /\ p \in Present
  /\ peers' = [peers EXCEPT ![p] = now]
  /\ Touched(p)
  /\ UNCHANGED <<now, bans, thread, raced>>

-----------------------------------------------------------------------------
\* cleanup_stale_peers

CleanUp(t) ==
  /\ thread[t] = Idle
  /\ Goto(t, [at |-> "scan", began |-> now, shard |-> 1, stale |-> {}])
  /\ UNCHANGED <<now, peers, bans, touched, raced>>

\* a - b in u64
Minus(a, b) == IF a >= b THEN a - b ELSE U64 - (b - a)

\* Mutant of Stale: a peer that was idle for as long as it may be is stale
StaleEarly(p, began) == Minus(began, peers[p]) >= MaxIdle

\* The filter; it wraps around for a peer seen after the cleanup began
Stale(p, began) == Minus(began, peers[p]) > MaxIdle

Scan(t) ==
  LET c == thread[t]
      stale == c.stale \cup {p \in Present : ShardOf[p] = c.shard /\ Stale(p, c.began)}
  IN
  /\ c.at = "scan"
  /\ IF Shards(c.shard + 1) # {}
     THEN Goto(t, [c EXCEPT !.shard = @ + 1, !.stale = stale])
     ELSE Goto(t, [at |-> "sweep", stale |-> stale])
  /\ UNCHANGED <<now, peers, bans, touched, raced>>

Sweep(t, p) ==
  /\ thread[t].at = "sweep" /\ p \in thread[t].stale
  /\ peers' = [peers EXCEPT ![p] = Absent]
  /\ Goto(t, [thread[t] EXCEPT !.stale = @ \ {p}])
  /\ UNCHANGED <<now, bans, touched, raced>>

Swept(t) ==
  /\ thread[t].at = "sweep" /\ thread[t].stale = {}
  /\ Goto(t, Idle)
  /\ touched' = [touched EXCEPT ![t] = {}]
  /\ UNCHANGED <<now, peers, bans, raced>>

PeerNext ==
  \/ Tick
  \/ \E t \in Thread :
       \/ \E p \in Peer :
            \/ Add(t, p) \/ Remove(t, p) \/ Touch(t, p) \/ Sweep(t, p)
            \/ \E d \in Duration : Ban(t, p, d)
       \/ Count(t) \/ Check(t) \/ Insert(t)
       \/ WriteBans(t) \/ Unseat(t)
       \/ CleanUp(t) \/ Scan(t) \/ Swept(t)

PeerSpec == PeerInit /\ [][PeerNext]_peerVars

-----------------------------------------------------------------------------

\* Every thread but one may have passed the check of the limit before the peers
\* that it did not count came in: the table holds that many too many at most
\* (add_peer), whatever is removed and added meanwhile.
PeersBounded == Cardinality(Present) <= MaxPeers + Cardinality(Thread) - 1

\* A banned peer is in the table only until ban_peer has removed it, unless a
\* call that had found it not banned was about to insert it at that moment.
BannedStayOut ==
  \A p \in Present :
    Banned(p) => \/ p \in raced
                 \/ \E t \in Thread : thread[t].at = "unseat" /\ thread[t].peer = p

\* peer.rs:171, "Ban expired, remove it": a thread that finds an expired ban
\* waits for the reference it holds itself, and never goes on.
ExpiredBanHangs ==
  [][\A t \in Thread : thread[t].at = "unban" => thread'[t] = thread[t]]_peerVars

\* A peer that cleanup_stale_peers removes had not been seen for longer than
\* max_idle_secs, or was seen while the cleanup ran: only such a race, be it
\* before or after the filter looked at the peer, costs a live peer its place.
OnlyRacedPeersLost ==
  [][\A t \in Thread, p \in Present :
       thread[t].at = "sweep" /\ thread'[t] # thread[t] /\ peers'[p] = Absent
         => p \in touched[t] \/ now > peers[p] + MaxIdle]_peerVars

=============================================================================
