-------------------------------- MODULE Legacy --------------------------------
(***************************************************************************)
(* The legacy broker (Broker of broker.ts), which main.ts still exports.   *)
(* It has the lock table and the queues of Broker1, no fencing tokens and  *)
(* no composites, and a setTimeout per grant instead of the sweeper.       *)
(*                                                                         *)
(* A handler is one step.  The timer of a grant is cleared through the     *)
(* holder entry that the grant made; a call that is granted again while it *)
(* holds (its client retried) gets a new entry, and the earlier timer runs *)
(* on.  Both find the holder by its uuid, so only their number matters.    *)
(*                                                                         *)
(* wsToKeys and wsToUUIDs decide nothing here: the clean-up of a socket    *)
(* takes the indices of an array for uuids and so removes no waiter.       *)
(***************************************************************************)
EXTENDS LockTurns

CONSTANT MaxTimers  \* Bound: the armed timers of each call

\* Readers/writers calls are left to WritePref and ReadPref; a call keeps to one
\* connection.
ASSUME LegacyAssumption ==
  /\ ManyIds = {} /\ MaxTimers \in [Uuids -> Nat \ {0}]
  /\ \A u \in Uuids : /\ Req[u].rw = "none" /\ Req[u].wait
                      /\ Cardinality(Req[u].from) = 1

VARIABLES
  locks,     \* locks: Map from key to lock object
  timers,    \* armed ttl timers of each call
  timeouts,  \* timeouts[key]: the grant its re-election timer closed over
  rejected,  \* rejected: uuids whose client refused a grant
  writable,  \* sockets with ws.writable
  lmxClosed  \* sockets with ws.lmxClosed

vars == <<locks, timers, timeouts, rejected, writable, lmxClosed>>

Hears(ws) == ws \in writable \ lmxClosed
CallsFrom(ws) == {u \in Uuids : ws \in Req[u].from}
HeldBy(L, k) == IF L[k] = None THEN {} ELSE HoldersOf(L[k])

-----------------------------------------------------------------------------
(* Grants.                                                                 *)

\* A turn clears the timer of each holder entry in cleared, and arms one for
\* each call it grants.
Timed(cleared, granted) ==
  timers' = [u \in Uuids |->
    (timers[u] - IF u \in cleared /\ Req[u].finite THEN 1 ELSE 0)
               + IF u \in granted /\ Req[u].finite THEN 1 ELSE 0]

\* Fault: a grant from the queue arms no timer.
EnsureNewLockHolder_Untimed(ks, L, cleared) ==
  /\ locks' = [k \in Keys |-> IF k \in ks THEN FreedAmong(L[k], {}, writable) ELSE L[k]]
  /\ timeouts' = timeouts
  /\ Timed(cleared, {})

\* ensureNewLockHolder on every key of ks, where the locks L have lost the holders in
\* cleared.  The last grant on a key arms its re-election timer.
EnsureNewLockHolder(ks, L, cleared) ==
  LET served(k) == IF k \in ks THEN Served(L[k], writable) ELSE {}
      last(k)   == CHOOSE i \in served(k) : \A j \in served(k) : j <= i
  IN  /\ locks' = [k \in Keys |-> IF k \in ks THEN FreedAmong(L[k], {}, writable) ELSE L[k]]
      /\ timeouts' = [k \in Keys |-> IF served(k) = {} THEN timeouts[k] ELSE L[k].notify[last(k)]]
      /\ Timed(cleared, UNION {{L[k].notify[i].id : i \in served(k)} : k \in Keys})

\* The locks when holders S of k have left, remembered for a late unlock.
Forgone(l, S, remembered) == [Deserted(l, S) EXCEPT !.released = @ \cup remembered]
Left(k, S, remembered)    == [locks EXCEPT ![k] = Forgone(@, S, remembered)]

-----------------------------------------------------------------------------
(* lock() and unlock().                                                    *)

\* cleanUpLocks, at every fourth lock(): any objects emptied long ago, or none.
CleanUpLocks(L) ==
  {[k \in Keys |-> IF k \in old THEN None ELSE L[k]] : old \in SUBSET {k \in Keys : Idling(L[k])}}

\* What every lock() starts with.
LockCall(u, ws, retry, granted) ==
  /\ Hears(ws)
  /\ timers[u] < MaxTimers[u]
  /\ locks' \in CleanUpLocks([locks EXCEPT ![Req[u].key] = LockedFrom(@, u, ws, retry)])
  /\ Timed({}, granted)
  /\ UNCHANGED <<timeouts, rejected, writable, lmxClosed>>

Full(u) == IsFull(WithLimits(locks[Req[u].key], u), u)

LockOnNewKey(u, ws)  == locks[Req[u].key] = None /\ LockCall(u, ws, FALSE, {u})
LockOnFreeKey(u, ws) == locks[Req[u].key] # None /\ ~Full(u) /\ LockCall(u, ws, FALSE, {u})

LockOnFullKey(u, ws, retry) ==
  locks[Req[u].key] # None /\ Full(u) /\ LockCall(u, ws, retry, {})

\* unlock with the _uuid of a holder: it is not remembered as released.
UnlockHolder(u, ws) ==
  LET k == Req[u].key
  IN  /\ Hears(ws) /\ u \in HeldBy(locks, k)
      /\ EnsureNewLockHolder({k}, Left(k, {u}, {}), {u})
      /\ UNCHANGED <<rejected, writable, lmxClosed>>

\* A hold that was taken away: the caller is told it is unlocked, once.
UnlockLate(u, ws) ==
  LET k == Req[u].key
  IN  /\ Hears(ws) /\ locks[k] # None
      /\ u \notin HeldBy(locks, k) /\ u \in locks[k].released
      /\ EnsureNewLockHolder({k}, [locks EXCEPT ![k].released = @ \ {u}], {})
      /\ UNCHANGED <<rejected, writable, lmxClosed>>

\* force: one holder of a semaphore, everybody on any other key, also if the
\* _uuid in the call holds nothing.
UnlockForced(k, id, ws) ==
  LET S == IF id # None /\ locks[k].max > 1 THEN {id} \cap HeldBy(locks, k)
                                            ELSE HeldBy(locks, k)
  IN  /\ Hears(ws) /\ locks[k] # None
      /\ EnsureNewLockHolder({k}, Left(k, S, S), S)
      /\ UNCHANGED <<rejected, writable, lmxClosed>>

-----------------------------------------------------------------------------
(* Other frames.                                                           *)

LockReceived(k, ws) ==
  /\ Hears(ws) /\ timeouts[k] # None
  /\ timeouts' = [timeouts EXCEPT ![k] = None]
  /\ UNCHANGED <<locks, timers, rejected, writable, lmxClosed>>

LockClientTimeout(u, ws) ==
  LET k == Req[u].key
  IN  /\ Hears(ws) /\ locks[k] # None /\ Queued(locks[k].notify, u)
      /\ locks' = [locks EXCEPT ![k].notify = Without(@, u)]
      /\ UNCHANGED <<timers, timeouts, rejected, writable, lmxClosed>>

LockReceivedRejected(u, ws) ==
  LET k == Req[u].key
  IN  /\ Hears(ws) /\ locks[k] # None
      /\ rejected' = rejected \cup {u}
      /\ EnsureNewLockHolder({k}, locks, {})
      /\ UNCHANGED <<writable, lmxClosed>>

-----------------------------------------------------------------------------
(* Timers.                                                                 *)

\* Whom the ttl of u ends: this holder of a semaphore, everybody on any other key.
Expelled(k, u) == IF locks[k].max > 1 THEN {u} ELSE HeldBy(locks, k)

\* A ttl timer of u fires.  Its own entry is no timer to clear any more, but
\* when it was the timer of an earlier grant, that of the entry runs on.
HolderTimesOut(u) ==
  LET k == Req[u].key
      S == Expelled(k, u)
  IN  /\ timers[u] > 0
      /\ IF u \in HeldBy(locks, k)
         THEN EnsureNewLockHolder({k}, Left(k, S, S \cup {u}), S)
         ELSE /\ locks' = IF locks[k] = None THEN locks ELSE Left(k, {}, {u})
              /\ timers' = [timers EXCEPT ![u] = @ - 1]
              /\ UNCHANGED timeouts
      /\ UNCHANGED <<rejected, writable, lmxClosed>>

\* The re-election timer: the hold is dropped, its call queued again unless it
\* was refused, and the first waiters leave the queue, told to ask again.
Reelection(k) ==
  LET u == timeouts[k].id
      q == locks[k].notify
      again == IF u \in rejected \/ Queued(q, u) THEN q ELSE Append(q, timeouts[k])
  IN  /\ timeouts[k] # None
      /\ timeouts' = [timeouts EXCEPT ![k] = None]
      /\ IF locks[k] = None THEN UNCHANGED <<locks, timers>>
         ELSE /\ locks' = [locks EXCEPT ![k].lockholders[u] = NoHold,
                                        ![k].notify = AfterFirst(Batch, again)]
              /\ Timed({u} \cap HeldBy(locks, k), {})
      /\ UNCHANGED <<rejected, writable, lmxClosed>>

-----------------------------------------------------------------------------
(* Connections.                                                            *)

BreakConnection(ws) ==
  /\ ws \in writable
  /\ writable' = writable \ {ws}
  /\ UNCHANGED <<locks, timers, timeouts, rejected, lmxClosed>>

\* The end of any connection unlocks every key by force, whoever holds it, and
\* remembers the holds of the others as released; the queues keep the waiters of
\* the closing socket.  After a version mismatch the socket is destroyed later.
CleanupConnection(ws) ==
  /\ ws \notin lmxClosed
  /\ lmxClosed' = lmxClosed \cup {ws}
  /\ writable' \in {writable, writable \ {ws}}
  /\ EnsureNewLockHolder({k \in Keys : locks[k] # None},
       [k \in Keys |-> IF locks[k] = None THEN None
                       ELSE Left(k, Holders, HeldBy(locks, k) \ CallsFrom(ws))[k]],
       UNION {HeldBy(locks, k) : k \in Keys})
  /\ UNCHANGED rejected

-----------------------------------------------------------------------------
Init ==
  /\ locks = [k \in Keys |-> None]
  /\ timers = [u \in Uuids |-> 0]
  /\ timeouts = [k \in Keys |-> None]
  /\ rejected = {}
  /\ writable = Sockets
  /\ lmxClosed = {}

Frames == \E ws \in Sockets :
  \/ \E u \in CallsFrom(ws) : \/ LockOnNewKey(u, ws) \/ LockOnFreeKey(u, ws)
                              \/ \E retry \in BOOLEAN : LockOnFullKey(u, ws, retry)
                              \/ UnlockHolder(u, ws) \/ UnlockLate(u, ws)
                              \/ LockClientTimeout(u, ws) \/ LockReceivedRejected(u, ws)
  \/ \E k \in Keys : \/ LockReceived(k, ws)
                     \/ \E id \in {None} \cup {u \in Uuids : Req[u].key = k} : UnlockForced(k, id, ws)

Connections == \E ws \in Sockets : BreakConnection(ws) \/ CleanupConnection(ws)

Next == \/ Frames
        \/ \E u \in Uuids : HolderTimesOut(u)
        \/ \E k \in Keys : Reelection(k)
        \/ Connections

Spec == Init /\ [][Next]_vars

-----------------------------------------------------------------------------
(* Every hold of finite ttl has an armed timer that will end it: retries,   *)
(* re-grants, forced unlocks and re-elections clear and arm timers on their *)
(* own accounts, and none of them clears the last one of a live hold.       *)
HoldsTimed ==
  \A u \in Uuids : u \in HeldBy(locks, Req[u].key) /\ Req[u].finite => timers[u] > 0

Stranded(L) ==
  \E k \in Keys : /\ L[k] # None /\ Count(L[k]) < Capacity(L[k])
                  /\ \E i \in 1..Len(L[k].notify) : L[k].notify[i].ws \in writable

(* When all calls for a key ask for the same max, only a re-election (its   *)
(* timer is gone after the turn) leaves a connected waiter beside a free    *)
(* slot; every other turn that frees one wakes somebody.                    *)
TurnsStrandNobody ==
  [][ ~Stranded(locks) /\ Stranded(locks')
      => \E k \in Keys : timeouts[k] # None /\ timeouts'[k] = None ]_vars
=============================================================================
