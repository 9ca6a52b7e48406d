----------------------------- MODULE LockObject -----------------------------
(***************************************************************************)
(* The broker's lock object (LockObj of broker-1.ts) and the requests that *)
(* act on it.  No state here: constants, types and operators.              *)
(*                                                                         *)
(* Operators whose comment begins with "Fault:" are deliberately wrong     *)
(* variants of the definition that follows them.  No specification uses    *)
(* them; each shows that a property notices the mistake it names.          *)
(*                                                                         *)
(* A plain `lock` call is identified by its client-minted uuid.  What the  *)
(* call asks for (key, limits, ttl, flags) never changes while it is       *)
(* retried, so it is a constant function Req of the uuid; the socket it    *)
(* arrives on may change, because a client that reconnects retries the     *)
(* same uuid on its new socket.  An `acquire-many` call is identified by   *)
(* the compositeLockUuid the broker mints for it, and is sent once.        *)
(***************************************************************************)
EXTENDS Integers, FiniteSets, Sequences

CONSTANTS
  Keys,             \* lock keys
  Sockets,          \* connections (LMXSocket)
  Uuids,            \* plain lock calls
  ManyIds,          \* acquire-many calls
  Req,              \* what each plain call asks for
  ManyReq,          \* what each acquire-many call asks for
  MaxToken,         \* MAX_FENCING_TOKEN
  MaxCompositeKeys, \* MAX_COMPOSITE_KEYS, the headroom a drain insists on
  DefaultMaxRead,   \* readers admitted when a read names no limit
  Batch,            \* waiters dequeued at a time by the re-election timer
  None              \* null / undefined

RWStatus == {"none", "begin-read", "begin-write", "end-read"}

\* max and limit are 0 when the request omits them; limit is maxRead for a
\* read and maxWrite for a write.  finite is FALSE for ttl Infinity.
LockRequest ==
  [key : Keys, from : SUBSET Sockets, max : Nat, limit : Nat, rw : RWStatus,
   finite : BOOLEAN, wait : BOOLEAN, force : BOOLEAN]

\* keys is what is left of the request's keys after de-duplication and sort.
ManyRequest ==
  [keys : Seq(Keys), from : Sockets, finite : BOOLEAN, wait : BOOLEAN]

ASSUME RequestAssumption ==
  /\ Req \in [Uuids -> LockRequest]
  /\ ManyReq \in [ManyIds -> ManyRequest]
  /\ \A m \in ManyIds : /\ Len(ManyReq[m].keys) \in 1..MaxCompositeKeys
                        /\ \A i, j \in 1..Len(ManyReq[m].keys) :
                             i # j => ManyReq[m].keys[i] # ManyReq[m].keys[j]

ASSUME NumberAssumption ==
  /\ MaxToken \in Nat
  /\ MaxCompositeKeys \in Nat
  /\ DefaultMaxRead \in Nat \ {0}
  /\ Batch \in Nat

ASSUME NameAssumption ==
  /\ Uuids \cap ManyIds = {}
  /\ None \notin Keys \cup Sockets \cup Uuids \cup ManyIds

-----------------------------------------------------------------------------
\* Members of a composite are holders under uuids minted per attempt; since a
\* composite holds a key at most once, its id stands for the member's.
Holders == Uuids \cup ManyIds

Waiter == [id : Holders, ws : Sockets]

\* An entry of the lockholders Map; token 0 means "no entry".
Hold   == [ws : Sockets \cup {None}, token : 0..MaxToken]
NoHold == [ws |-> None, token |-> 0]

\* maxRead and maxWrite are 0 while undefined.  released merges
\* lockholderTimeouts and lockholdersAllReleased, which are only ever read and
\* deleted together.  emptied says that timestampEmptied is set.
LockObj ==
  [max : Nat \ {0}, maxRead : Nat, maxWrite : Nat, readers : Nat,
   nextFencingToken : 0..MaxToken,
   lockholders : [Holders -> Hold], notify : Seq(Waiter),
   released : SUBSET Holders, emptied : BOOLEAN]

\* null is not a lock object.
ASSUME NullAssumption == None \notin LockObj

DefaultLockObject(seed) ==
  [max |-> 1, maxRead |-> 0, maxWrite |-> 0, readers |-> 0,
   nextFencingToken |-> seed,
   lockholders |-> [h \in Holders |-> NoHold], notify |-> <<>>,
   released |-> {}, emptied |-> FALSE]

Holding(l, h) == l.lockholders[h].token # 0
HoldersOf(l)  == {h \in Holders : Holding(l, h)}
Count(l)      == Cardinality(HoldersOf(l))

Larger(a, b) == IF a >= b THEN a ELSE b

\* The slots the drain loop believes the key has.
Capacity(l) ==
  IF l.maxRead # 0 \/ l.maxWrite # 0
  THEN Larger(Larger(l.maxRead, l.maxWrite), l.max)
  ELSE l.max

\* Does call id outlive every sweep (ttl Infinity) or not?
Finite(h) == IF h \in Uuids THEN Req[h].finite ELSE ManyReq[h].finite

-----------------------------------------------------------------------------
(* The limits a lock request writes into the object before it is judged.   *)

FirstGiven(a, b, default) == IF a # 0 THEN a ELSE IF b # 0 THEN b ELSE default

WithLimits(l, u) ==
  LET r == Req[u]
      asked(stored, default) ==
        FirstGiven(r.limit, r.max, IF stored # 0 THEN stored ELSE default)
  IN  [l EXCEPT
        !.max      = IF r.max # 0 THEN r.max ELSE @,
        !.maxRead  = IF r.rw = "begin-read" THEN asked(@, DefaultMaxRead) ELSE @,
        !.maxWrite = IF r.rw = "begin-write" THEN asked(@, 1) ELSE @]

\* Fault: the slot count is off by one.
IsFull_OffByOne(l, u) == Count(l) > l.max

\* effectiveCount >= effectiveMax, on an object whose limits are written.
IsFull(l, u) ==
  CASE Req[u].rw = "begin-read"  -> l.readers + 1 >= l.maxRead
    [] Req[u].rw = "begin-write" -> Count(l) >= l.maxWrite
    [] OTHER                     -> Count(l) >= l.max

\* Fault: an end-read nobody began is counted too.
CountReader_Unguarded(l, u) ==
  [l EXCEPT !.readers = IF Req[u].rw = "end-read" THEN @ - 1 ELSE @ + 1]

\* The reader count as lock() leaves it just before it grants.
CountReader(l, u) ==
  [l EXCEPT !.readers =
     CASE Req[u].rw = "begin-read"           -> @ + 1
       [] Req[u].rw = "end-read" /\ @ > 0    -> @ - 1
       [] OTHER                              -> @]

-----------------------------------------------------------------------------
(* The notify list: a linked queue with one entry per id.                  *)

Queued(q, id) == \E i \in 1..Len(q) : q[i].id = id

\* notify.remove(id)
Without(q, id) ==
  IF Queued(q, id)
  THEN LET i == CHOOSE i \in 1..Len(q) : q[i].id = id
       IN  [j \in 1..(Len(q) - 1) |-> IF j < i THEN q[j] ELSE q[j + 1]]
  ELSE q

\* notify.deq(n): everything but the first n entries.
AfterFirst(n, q) == SubSeq(q, n + 1, Len(q))

\* Fault: a retry of a call that is already in the queue is added again.
Enqueue_Again(q, u, ws, retry) == Append(q, [id |-> u, ws |-> ws])

\* Where lock() puts a call it cannot admit: force always moves it to the
\* front; otherwise an entry that is there stays, a retry goes to the front.
Enqueue(q, u, ws, retry) ==
  LET w == [id |-> u, ws |-> ws]
  IN  CASE Req[u].force                  -> <<w>> \o Without(q, u)
        [] ~Req[u].force /\ Queued(q, u) -> q
        [] OTHER                         -> IF retry THEN <<w>> \o q ELSE Append(q, w)

\* Fault: the last live waiter is dequeued, and those before it with it.
IsNextWaiter_Last(q, i, alive) ==
  /\ q[i].ws \in alive
  /\ \A j \in (i + 1)..Len(q) : q[j].ws \notin alive

\* The entry the drain loop dequeues: the first whose socket is in alive, and
\* when there is none the last one, which the inner loop leaves in its variable.
IsNextWaiter(q, i, alive) ==
  \/ /\ q[i].ws \in alive
     /\ \A j \in 1..(i - 1) : q[j].ws \notin alive
  \/ /\ i = Len(q)
     /\ \A j \in 1..Len(q) : q[j].ws \notin alive
=============================================================================
