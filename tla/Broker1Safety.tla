---------------------------- MODULE Broker1Safety ----------------------------
(***************************************************************************)
(* What Broker1 must never do, and what it must eventually do.             *)
(***************************************************************************)
EXTENDS Broker1

(* Every variable keeps its type. *)
TypeOK ==
  /\ locks \in [Keys -> LockObj \cup {None}]
  /\ holderDeadlines \subseteq Keys \X Holders
  /\ timeouts \in [Keys -> [id : Uuids, ws : Sockets] \cup {None}]
  /\ rejected \subseteq Uuids
  /\ wsToKeys \in [Sockets -> SUBSET Keys]
  /\ wsToUUIDs \in [Sockets -> SUBSET Uuids]
  /\ compositeLocks \subseteq ManyIds
  /\ spent \subseteq ManyIds
  /\ writable \subseteq Sockets
  /\ lmxClosed \subseteq Sockets
  /\ watermark \in 0..MaxToken
  /\ disk \in 0..MaxToken
  /\ work \subseteq Task
  /\ drain \in Keys \cup {None}
  /\ granting \in GrantInHand \cup {None}
  /\ lastToken \in [Keys -> 0..MaxToken]
  /\ out \subseteq Frame

Present(k) == locks[k] # None
Held(k, h) == Present(k) /\ Holding(locks[k], h)
Token(k, h) == IF Present(k) THEN locks[k].lockholders[h].token ELSE 0

-----------------------------------------------------------------------------
(* Fencing.                                                                *)

(* A lock object's counter lies between the last token granted on its key  *)
(* and the broker-wide watermark, also after the object was collected and  *)
(* created again.                                                          *)
CounterInOrder ==
  \A k \in Keys :
    /\ lastToken[k] <= watermark
    /\ Present(k) => /\ lastToken[k] <= locks[k].nextFencingToken
                     /\ locks[k].nextFencingToken <= watermark

(* A durable broker never holds in memory an authority that a restart would *)
(* not find again.                                                         *)
DiskCovers == Durable => watermark <= Larger(Floor, disk)

(* No two holders of a key share a token, and none exceeds the last one    *)
(* granted on the key.                                                     *)
TokensDistinct ==
  \A k \in Keys : Present(k) =>
    \A g, h \in Holders :
      /\ Token(k, h) <= lastToken[k]
      /\ Holding(locks[k], h) /\ g # h => Token(k, g) # Token(k, h)

(* The lock objects a running handler has in hand are still in the table:   *)
(* nothing it calls collects them.                                         *)
LockInHand ==
  /\ drain # None => Present(drain)
  /\ granting # None =>
       /\ granting.id \in Uuids => Present(Req[granting.id].key)
       /\ granting.id \in ManyIds =>
            \A i \in 1..Len(ManyReq[granting.id].keys) :
              i < granting.pos => Present(ManyReq[granting.id].keys[i])
       /\ granting.queued <=> drain # None

(* A plain call waits only in the queue of the key it asks for.            *)
WaitersAtHome ==
  \A k \in Keys : Present(k) =>
    \A i \in 1..Len(locks[k].notify) :
      locks[k].notify[i].id \in Uuids => Req[locks[k].notify[i].id].key = k

FenceInv == CounterInOrder /\ DiskCovers /\ TokensDistinct /\ LockInHand /\ WaitersAtHome

(* A grant carries a token above every token granted before on its key:    *)
(* whatever the clock does, whether the lock object was collected in       *)
(* between and, on a durable broker, whether the process was restarted.    *)
GrantIsNewer ==
  \A k \in Keys, h \in Holders :
    Token(k, h)' \notin {0, Token(k, h)}
      => Token(k, h)' > lastToken[k] /\ lastToken[k]' = Token(k, h)'
FencingMonotone == [][GrantIsNewer]_vars

-----------------------------------------------------------------------------
(* Who may hold, and who waits.                                            *)

\* The largest max any call on k asks for.
Limits(k) == {1} \cup {Req[u].max : u \in {v \in Uuids : Req[v].key = k}}
MaxLimit(k) == CHOOSE n \in Limits(k) : \A m \in Limits(k) : m <= n

(* Between handlers no connected client waits for a key that has a free    *)
(* slot, unless the token space is about to run out.                       *)
NoStrandedWaiter ==
  Idle /\ HasHeadroom(MaxCompositeKeys) =>
    \A k \in Keys : Present(k) /\ (\E i \in 1..Len(locks[k].notify) :
                                      locks[k].notify[i].ws \in writable)
                    => Count(locks[k]) >= Capacity(locks[k])

(* The queue holds a call at most once, though retries, re-queued          *)
(* composites and forced calls all insert.                                 *)
QueuedOnce ==
  \A k \in Keys : Present(k) =>
    \A i, j \in 1..Len(locks[k].notify) :
      locks[k].notify[i].id = locks[k].notify[j].id => i = j

(* No hold and wait: an acquire-many call that sits in a queue sits in one *)
(* queue only and holds none of its keys.                                  *)
NoHoldAndWait ==
  \A m \in ManyIds, k \in Keys :
    Present(k) /\ Queued(locks[k].notify, m) =>
      \A j \in Keys : /\ ~Held(j, m)
                      /\ j # k /\ Present(j) => ~Queued(locks[j].notify, m)

(* Between handlers every member hold belongs to a registered composite,   *)
(* so release-many can end it.                                             *)
CompositeRegistered ==
  Idle => \A m \in ManyIds, k \in Keys : Held(k, m) => m \in compositeLocks

(* Between handlers the sweeper has a deadline for every hold of finite    *)
(* ttl, whatever unlocks, rollbacks, re-grants and sweeps came before.     *)
DeadlineCovers ==
  Idle => \A k \in Keys, h \in Holders :
            Held(k, h) /\ Finite(h) => <<k, h>> \in holderDeadlines

(* A hold ends only for a reason that names it: an unlock of that call, a  *)
(* force-unlock of the whole key, its expired deadline, its socket's end,  *)
(* the release or roll-back of its composite, its re-election timer, or    *)
(* the death of the broker.                                                *)
HoldEndsForAReason ==
  \A k \in Keys, h \in Holders :
    Held(k, h) /\ ~Held(k, h)' =>
      \/ \E f \in out' : f.kind = "unlocked" /\ f.id \in {h, None}
      \/ \E t \in work \ work' : t.key = k /\ h \in t.ids
      \/ granting # None /\ granting.id = h /\ granting.id \in ManyIds
      \/ timeouts[k] # None /\ timeouts[k].id = h
      \/ Restart
NoHoldStolen == [][HoldEndsForAReason]_vars

(* A waiter whose socket is alive leaves its queue only to be attempted,   *)
(* because its own client or a cleanup withdrew it, or with a frame that   *)
(* tells it to ask again.  That frame helps plain calls only: nobody asks  *)
(* again for an acquire-many call.                                         *)
WaiterLeavesForAReason ==
  \A k \in Keys, h \in Holders :
    /\ Present(k) /\ Queued(locks[k].notify, h)
    /\ ~(Present(k) /\ Queued(locks[k].notify, h))'
    => \/ granting' # None /\ granting'.id = h
       \/ \E i \in 1..Len(locks[k].notify) : /\ locks[k].notify[i].id = h
                                            /\ locks[k].notify[i].ws \notin writable
       \/ \E ws \in Sockets : h \in Uuids /\ LockClientTimeout(h, ws)
       \/ \E t \in work \ work' : t.op = "scrub" /\ h \in t.ids
       \/ \E f \in out' : f.kind = "reelection" /\ f.id = h /\ h \in Uuids
       \/ Restart

(* A waiter taken from the queue to be attempted is granted, or is in a    *)
(* queue again: only an exception that ends the whole drain drops it.      *)
AttemptSettles ==
  \A h \in Holders :
    granting # None /\ granting.id = h /\ granting.queued /\ granting' = None =>
      \/ \E k \in Keys : (Held(k, h) \/ (Present(k) /\ Queued(locks[k].notify, h)))'
      \/ drain' = None
NoWaiterLost == [][WaiterLeavesForAReason /\ AttemptSettles]_vars

(* Broker1 keeps the promise of FencedLock on every key without readers:   *)
(* crashes, collections of lock objects, composites, evictions and         *)
(* re-grants are all grants and ends of the abstract lock, so no history   *)
(* of the broker admits a holder too many or repeats a fence.              *)
Abstractly == INSTANCE FencedLock
  WITH fences    <- [k \in Keys |-> [h \in Holders |-> Token(k, h)]],
       lastFence <- lastToken,
       Limit     <- [k \in Keys |-> MaxLimit(k)]
ImplementsFencedLock == Abstractly!Spec

-----------------------------------------------------------------------------
(* Progress.                                                               *)

(* Every handler comes to its end: the drain loop, which re-queues         *)
(* composites on the lists it is draining, terminates.                     *)
HandlersReturn == []<>Idle

(* A hold of finite ttl ends.                                              *)
TtlProgress ==
  \A k \in Keys, h \in Holders, n \in 1..MaxToken :
    Finite(h) => (Held(k, h) /\ Token(k, h) = n ~> Token(k, h) # n)

Waits(k, h) == /\ Present(k)
               /\ \E i \in 1..Len(locks[k].notify) :
                    locks[k].notify[i].id = h /\ locks[k].notify[i].ws \in writable

(* When every hold is finite, a connected client does not wait for ever at *)
(* one key, unless the token space is about to run out.                    *)
WaiterMoves ==
  \A k \in Keys, h \in Holders :
    Waits(k, h) ~> ~Waits(k, h) \/ ~HasHeadroom(MaxCompositeKeys)
=============================================================================
