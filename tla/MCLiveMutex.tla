---------------------------- MODULE MCLiveMutex ----------------------------
(* Two clients of one mutex, for TLC. *)
EXTENDS LiveMutex, TLC

CONSTANTS k1, s1, s2, s3, a, b, c1, c2

Ask(key, from) ==
  [key |-> key, from |-> from, max |-> 0, limit |-> 0, rw |-> "none",
   finite |-> TRUE, wait |-> TRUE, force |-> FALSE]

TwoOwners == a :> c1 @@ b :> c2
TwoDials  == c1 :> <<s1, s3>> @@ c2 :> <<s2>>
TwoAsk    == a :> Ask(k1, {s1, s3}) @@ b :> [Ask(k1, {s2}) EXCEPT !.finite = FALSE]
NoMany    == <<>>
ARetries  == a :> 2 @@ b :> 1

ClockAtZero == {0}

\* What no later step and no property looks at is left out: the frames just sent,
\* the tables of composites, the tokens the broker has granted, frames for a
\* socket nobody reads, and what is remembered of a call that is over.
Pending == {u \in Uuids : status[u] \in {"idle", "pending"}}
Using   == {u \in Uuids : status[u] \in {"held", "unlocking"}}

LiveView ==
  <<locks, holderDeadlines, timeouts, rejected, wsToKeys, wsToUUIDs, sockets, authority, stack,
    status, answers, locking, unlocking, lockTimers, unlockTimers, giveups, links, toBroker,
    {<<u, userToken[u]>> : u \in Using},
    {<<u, retries[u]>> : u \in Pending},
    {<<s, toClient[s]>> : s \in listening},
    {u \in revoked : status[u] \in {"idle", "pending", "held"}}>>

\* A handler of the broker is one turn of its event loop: what it sends while
\* it runs is read, and what arrives is taken, only afterwards.
TurnNext == IF Idle THEN ClientStep \/ BrokerReads \/ BrokerTimer \/ Links
                          \/ BrokerRestarts
                    ELSE BrokerRuns

TurnSpec == LiveInit /\ [][TurnNext]_liveMutexVars
=============================================================================
