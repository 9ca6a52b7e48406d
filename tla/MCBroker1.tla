----------------------------- MODULE MCBroker1 -----------------------------
(* Small instances of Broker1 for TLC: the calls of each scenario, and the *)
(* specifications that leave out the timer, the faults or the frames a     *)
(* question is not about.                                                  *)
EXTENDS Broker1Safety, TLC

CONSTANTS k1, k2, s1, s2, a, b, c, m1, m2

Plain(key, from) ==
  [key |-> key, from |-> from, max |-> 0, limit |-> 0, rw |-> "none",
   finite |-> TRUE, wait |-> TRUE, force |-> FALSE]
Many(keys, from) ==
  [keys |-> keys, from |-> from, finite |-> TRUE, wait |-> TRUE]

NoMany == <<>>

\* A mutex that a reader also asks for, with a limit of its own, the end of a
\* read elsewhere, that lets that lock object be collected, and a composite that
\* only tries.
TwoKeyReq == a :> Plain(k1, {s1})
          @@ b :> [Plain(k1, {s1}) EXCEPT !.rw = "begin-read", !.limit = 3]
          @@ c :> [Plain(k2, {s1}) EXCEPT !.rw = "end-read"]
TryMany   == m1 :> [Many(<<k1>>, s1) EXCEPT !.wait = FALSE]

\* One client of a mutex.
MutexReq == a :> Plain(k1, {s1})

\* Three clients of a semaphore with two slots: that of a may reconnect (s1,
\* then s2), b forces its way to the front, c only tries.
SemaphoreReq == a :> [Plain(k1, {s1, s2}) EXCEPT !.max = 2]
             @@ b :> [Plain(k1, {s1}) EXCEPT !.max = 2, !.force = TRUE]
             @@ c :> [Plain(k1, {s2}) EXCEPT !.max = 2, !.wait = FALSE]

\* One plain call against two overlapping composites.
CompositeReq == a :> Plain(k2, {s1})
TwoMany == m1 :> Many(<<k1, k2>>, s1)
        @@ m2 :> [Many(<<k1, k2>>, s2) EXCEPT !.finite = FALSE]

\* One composite.
OneMany == m1 :> Many(<<k1, k2>>, s1)

\* Two readers, as a client that names no limit sends them, and a composite.
ReaderReq == a :> [Plain(k1, {s1}) EXCEPT !.rw = "begin-read"]
          @@ b :> [Plain(k1, {s1}) EXCEPT !.rw = "begin-read"]
OneKeyMany == m1 :> Many(<<k1>>, s1)

ClockRollsBack == {0, 2}
ClockAtZero    == {0}

\* Clients that acknowledge every grant at once never see the timer.
CalmSpec == Init /\ [][CalmNext]_vars

\* State that only the re-election timer and a client ever read: two states of
\* CalmSpec that differ in nothing else have the same futures.
CalmView == <<locks, holderDeadlines, wsToUUIDs, compositeLocks, spent, sockets,
              authority, stack, lastToken>>

\* Connections last; clients may leave a grant unacknowledged.  What the
\* sockets are remembered to own and to have sent is then never read.
TimerSpec == Init /\ [][Frames \/ TickTtl \/ Reelections \/ Internal]_vars
TimerView == <<locks, holderDeadlines, timeouts, rejected, compositeLocks, spent,
               sockets, authority, stack, lastToken>>

\* Connections last and clients neither reject nor give up.
SteadyNext     == LockFrame \/ UnlockFrame \/ ManyFrame \/ TickTtl \/ Internal
FairSteadySpec == Init /\ [][SteadyNext]_vars /\ Fairness

\* Owners that leave: connections end, and grants are refused.
LossyNext == \/ SteadyNext \/ Connections
             \/ \E u \in Uuids, ws \in Sockets : LockReceivedRejected(u, ws)
FairLossySpec == Init /\ [][LossyNext]_vars /\ Fairness
=============================================================================
