------------------------------- MODULE Broker1 -------------------------------
(***************************************************************************)
(* The recommended broker: Broker1 of broker-1.ts behind the exported      *)
(* facade of broker-1-hardened.ts.                                         *)
(*                                                                         *)
(* The broker is one JavaScript event loop.  A frame, a socket event or a  *)
(* timer starts a handler, and the handler runs to its end before the next *)
(* one starts.  A handler's loops are unrolled here into one step per      *)
(* iteration, so the call stack is part of the state:                      *)
(*   work      rows the running handler (tickTtl, releaseMany,             *)
(*             cleanupConnection) has still to visit                       *)
(*   drain     the key whose waiters ensureNewLockHolder is granting       *)
(*   granting  the grant in progress: a plain call inside grantLock, or an *)
(*             acquire-many call at its pos-th key                         *)
(* Handlers start only when the stack is empty (Idle); granting runs       *)
(* before drain and drain before work.                                     *)
(*                                                                         *)
(* Time is not modelled: any deadline may have passed when the sweeper     *)
(* runs, the re-election timer may fire whenever it is armed, and an       *)
(* emptied lock object may be old enough to collect at any lock() call.    *)
(***************************************************************************)
EXTENDS LockObject

CONSTANTS
  Clock,      \* values Date.now() may return, in any order
  Floor,      \* LMX_FENCING_TOKEN_FLOOR
  Durable,    \* is LMX_FENCING_TOKEN_STATE_PATH set?
  DiskFaults  \* may persistWatermarkAtomically throw?

ASSUME AuthorityAssumption ==
  /\ MaxCompositeKeys # 0
  /\ Clock \subseteq Nat
  /\ Clock # {}
  /\ Floor \in 0..MaxToken
  /\ Durable \in BOOLEAN
  /\ DiskFaults \in BOOLEAN

\* A grant in progress.
GrantInHand == [id : Holders, ws : Sockets, pos : Nat \ {0}, queued : BOOLEAN]

\* null is not one.
ASSUME NoGrantAssumption == None \notin GrantInHand

VARIABLES
  locks,           \* locks: Map from key to lock object
  holderDeadlines, \* holderDeadlines, as pairs <<key, holder>>
  timeouts,        \* timeouts[key]: the grant its re-election timer closed over
  rejected,        \* rejected: uuids whose client refused a grant
  wsToKeys,        \* wsToKeys: keys a socket is remembered to own
  wsToUUIDs,       \* wsToUUIDs: uuids a socket is remembered to have sent
  compositeLocks,  \* compositeLocks: registered acquire-many grants
  spent,           \* acquire-many ids already minted (uuidV4 is never reused)
  writable,        \* sockets with ws.writable
  lmxClosed,       \* sockets with ws.lmxClosed
  watermark,       \* fencingWatermark
  disk,            \* the watermark in the state file (0: no file)
  work, drain, granting,
  lastToken,       \* history: the last token granted on each key
  out              \* the frames sent by the last step

tables    == <<holderDeadlines, timeouts, rejected, wsToKeys, wsToUUIDs,
               compositeLocks, spent>>
sockets   == <<writable, lmxClosed>>
authority == <<watermark, disk>>
stack     == <<work, drain, granting>>
vars      == <<locks, tables, sockets, authority, stack, lastToken, out>>

Idle == work = {} /\ drain = None /\ granting = None

-----------------------------------------------------------------------------
(* Frames.  send() drops the frame when the socket is not writable.        *)

FrameKind == {"acquired", "waiting", "refused", "unlocked", "not-unlocked",
              "released", "not-released", "reelection", "version-mismatch"}
Frame == [to : Sockets, kind : FrameKind, id : Holders \cup {None},
          token : 0..MaxToken]

Send(ws, kind, id, token) ==
  IF ws \in writable
  THEN {[to |-> ws, kind |-> kind, id |-> id, token |-> token]}
  ELSE {}
Reply(ws, kind, id) == out' = Send(ws, kind, id, 0)
Silent == out' = {}

-----------------------------------------------------------------------------
(* Work rows.  Rows of lower rank are visited first.                       *)

Rows(ops, keys, ids, conns) ==
  [op : ops, key : keys, ids : ids, ws : conns, rank : Nat]
Task == Rows({"evict"}, Keys, SUBSET Holders, {None})
        \cup Rows({"member"}, Keys, SUBSET ManyIds, {None})
        \cup Rows({"registry"}, {None}, SUBSET ManyIds, Sockets)
        \cup Rows({"visit"}, Keys, SUBSET Uuids, Sockets)
        \cup Rows({"scrub"}, Keys, SUBSET Uuids, {None})
        \cup Rows({"forced"}, Keys, SUBSET Holders, Sockets)
        \cup Rows({"destroy", "mismatch"}, {None}, {{}}, Sockets)

EvictRow(k, h)     == [op |-> "evict", key |-> k, ids |-> {h}, ws |-> None, rank |-> 0]
MemberRow(m, i)    == [op |-> "member", key |-> ManyReq[m].keys[i], ids |-> {m},
                       ws |-> None, rank |-> i]
RegistryRow(m, ws) == [op |-> "registry", key |-> None, ids |-> {m}, ws |-> ws,
                       rank |-> Len(ManyReq[m].keys) + 1]
ScrubRow(k, u)     == [op |-> "scrub", key |-> k, ids |-> {u}, ws |-> None, rank |-> 0]
ForcedRow(k, h, ws) == [op |-> "forced", key |-> k, ids |-> {h}, ws |-> ws, rank |-> 1]
VisitRow(k, ws)    == [op |-> "visit", key |-> k, ids |-> wsToUUIDs[ws], ws |-> ws, rank |-> 2]
LastRow(op, ws)    == [op |-> op, key |-> None, ids |-> {}, ws |-> ws, rank |-> 3]

Turn(t) == /\ drain = None /\ granting = None
           /\ t \in work
           /\ \A s \in work : t.rank <= s.rank

-----------------------------------------------------------------------------
(* The fencing authority.                                                  *)

HasHeadroom(n) == n <= MaxCompositeKeys /\ watermark + n <= MaxToken

\* Fault: the state file is not written.
Advance_InMemory(v) == watermark' = Larger(watermark, v) /\ UNCHANGED disk

\* The watermark reaches v: persisted first, when the broker is durable.
Advance(v) ==
  /\ watermark' = Larger(watermark, v)
  /\ disk' = IF Durable /\ v > watermark THEN v ELSE disk

\* Writing v throws: the token space is exhausted, or the file could not be
\* written (the rename may have happened before the failure).
AdvanceFails(v) ==
  \/ v > MaxToken /\ UNCHANGED authority
  \/ /\ v \in (watermark + 1)..MaxToken
     /\ Durable /\ DiskFaults
     /\ disk' \in {disk, v}
     /\ UNCHANGED watermark

\* Fault: the seed of Broker1 without its facade.
Seed_Clock(now) == Larger(now, Floor)

Seed(now) == Larger(now, Larger(Floor, watermark))

NextToken(k) == locks[k].nextFencingToken + 1

\* Fault: a grant from the queue gets no deadline.
ScheduleDeadline_Direct(k, h) ==
  IF Finite(h) /\ ~granting.queued THEN holderDeadlines \cup {<<k, h>>} ELSE holderDeadlines

ScheduleDeadline(k, h) ==
  IF Finite(h) THEN holderDeadlines \cup {<<k, h>>} ELSE holderDeadlines

\* A fresh holder entry for h on k, with its deadline row.
Install(k, h, ws) ==
  /\ NextToken(k) <= MaxToken
  /\ Advance(NextToken(k))
  /\ locks' = [locks EXCEPT ![k].nextFencingToken = NextToken(k),
                            ![k].lockholders[h] = [ws |-> ws, token |-> NextToken(k)],
                            ![k].emptied = @ /\ h \in Uuids]
  /\ holderDeadlines' = ScheduleDeadline(k, h)
  /\ wsToKeys' = [wsToKeys EXCEPT ![ws] = @ \cup {k}]
  /\ lastToken' = [lastToken EXCEPT ![k] = NextToken(k)]

-----------------------------------------------------------------------------
(* ensureNewLockHolder, entered by a handler that leaves the locks as L.   *)

\* Fault: waiters are woken only when the last holder leaves.
EnsureNewLockHolder_WhenEmpty(k, L) ==
  /\ locks' = L
  /\ drain' = IF HasHeadroom(MaxCompositeKeys) /\ Count(L[k]) < 1 THEN k ELSE None

EnsureNewLockHolder(k, L) ==
  IF ~HasHeadroom(MaxCompositeKeys)
  THEN locks' = L /\ drain' = None
  ELSE IF Count(L[k]) < 1 /\ L[k].notify = <<>>
       THEN locks' = [L EXCEPT ![k].emptied = TRUE] /\ drain' = None
       ELSE locks' = L /\ drain' = k

Released(k, S, remember) ==
  [locks EXCEPT ![k].lockholders = [h \in Holders |-> IF h \in S THEN NoHold ELSE @[h]],
                ![k].released = @ \cup remember]

Draining(k) == granting = None /\ drain = k /\ drain # None

\* Fault: one grant per release, whatever the number of slots.
DrainStops_Early(k) ==
  /\ Draining(k)
  /\ drain' = None
  /\ Silent
  /\ UNCHANGED <<locks, tables, sockets, authority, work, granting, lastToken>>

\* Fault: the loop does not leave when the slots are used up.
DrainStops_NotFull(k) == DrainStops_Early(k) /\ locks[k].notify = <<>>

\* No waiter is left, or no slot.
DrainStops(k) ==
  /\ Draining(k)
  /\ locks[k].notify = <<>> \/ Count(locks[k]) >= Capacity(locks[k])
  /\ drain' = None
  /\ Silent
  /\ UNCHANGED <<locks, tables, sockets, authority, work, granting, lastToken>>

DequeueWaiter(k) ==
  LET q == locks[k].notify
  IN  /\ Draining(k)
      /\ q # <<>> /\ Count(locks[k]) < Capacity(locks[k])
      /\ \E i \in 1..Len(q) :
           /\ IsNextWaiter(q, i, writable)
           /\ locks' = [locks EXCEPT ![k].notify = AfterFirst(i, q)]
           /\ granting' = [id |-> q[i].id, ws |-> q[i].ws, pos |-> 1, queued |-> TRUE]
      /\ Silent
      /\ UNCHANGED <<tables, sockets, authority, work, drain, lastToken>>

-----------------------------------------------------------------------------
(* grantLock, called by lock() and by the drain loop.                      *)

GrantingPlain == granting # None /\ granting.id \in Uuids

\* A grant from the queue arms the key's re-election timer.
GrantLock ==
  /\ GrantingPlain
  /\ LET u == granting.id   ws == granting.ws   k == Req[u].key
     IN  /\ Install(k, u, ws)
         /\ timeouts' = IF granting.queued
                        THEN [timeouts EXCEPT ![k] = [id |-> u, ws |-> ws]]
                        ELSE timeouts
         /\ out' = Send(ws, "acquired", u, NextToken(k))
  /\ granting' = None
  /\ UNCHANGED <<rejected, wsToUUIDs, compositeLocks, spent, sockets, work, drain>>

\* The mint throws.  lock() answers with an error; in the drain loop the
\* exception ends ensureNewLockHolder, and the dequeued waiter is gone.
GrantLockFails ==
  /\ GrantingPlain
  /\ LET ws == granting.ws   k == Req[granting.id].key
     IN  /\ AdvanceFails(NextToken(k))
         /\ wsToKeys' = [wsToKeys EXCEPT ![ws] = @ \cup {k}]
         /\ IF granting.queued THEN Silent ELSE Reply(ws, "refused", granting.id)
  /\ granting' = None
  /\ drain' = None
  /\ UNCHANGED <<locks, holderDeadlines, timeouts, rejected, wsToUUIDs,
                 compositeLocks, spent, sockets, work, lastToken>>

-----------------------------------------------------------------------------
(* acquireMany and tryGrantAcquireManyFromQueue walk the sorted keys.      *)

GrantingMany == granting # None /\ granting.id \in ManyIds
ManyKeys  == ManyReq[granting.id].keys
ManyKey   == ManyKeys[granting.pos]
MoreKeys  == granting.pos <= Len(ManyKeys)
WalkedSoFar == {ManyKeys[i] : i \in 1..(granting.pos - 1)}

ManyCreatesLock ==
  /\ GrantingMany /\ MoreKeys /\ locks[ManyKey] = None
  /\ \E now \in Clock :
       /\ Seed(now) <= MaxToken
       /\ Advance(Seed(now))
       /\ locks' = [locks EXCEPT ![ManyKey] = DefaultLockObject(Seed(now))]
  /\ Silent
  /\ UNCHANGED <<tables, sockets, stack, lastToken>>

ManyGrantsKey ==
  /\ GrantingMany /\ MoreKeys /\ locks[ManyKey] # None
  /\ Count(locks[ManyKey]) < locks[ManyKey].max
  /\ Install(ManyKey, granting.id, granting.ws)
  /\ granting' = [granting EXCEPT !.pos = @ + 1]
  /\ Silent
  /\ UNCHANGED <<timeouts, rejected, wsToUUIDs, compositeLocks, spent, sockets,
                 work, drain>>

\* Fault: the keys granted so far are kept.
RolledBack_Kept(m, ks) == locks

\* The lock objects once composite m has lost its holds on ks.
RolledBack(m, ks) ==
  [k \in Keys |-> IF k \in ks THEN [locks[k] EXCEPT !.lockholders[m] = NoHold]
                              ELSE locks[k]]

\* Fault: an attempt made from the queue does not queue again.
Rejoin_Once(q, w) == IF granting.queued THEN q ELSE Append(q, w)

Rejoin(q, w) == IF Queued(q, w.id) THEN q ELSE Append(q, w)

\* A key is taken: undo this attempt, then queue on that key (once), unless
\* the caller only wanted to try.
ManyIsContended ==
  /\ GrantingMany /\ MoreKeys /\ locks[ManyKey] # None
  /\ Count(locks[ManyKey]) >= locks[ManyKey].max
  /\ LET m == granting.id   contended == ManyKey
         tryOnly == ~granting.queued /\ ~ManyReq[m].wait
         w == [id |-> m, ws |-> granting.ws]
     IN  /\ locks' = IF tryOnly THEN RolledBack(m, WalkedSoFar)
                     ELSE [RolledBack(m, WalkedSoFar)
                             EXCEPT ![contended].notify = Rejoin(@, w)]
         /\ holderDeadlines' = holderDeadlines \ (WalkedSoFar \X {m})
         /\ IF granting.queued THEN Silent ELSE Reply(granting.ws, "waiting", m)
  /\ granting' = None
  /\ UNCHANGED <<timeouts, rejected, wsToKeys, wsToUUIDs, compositeLocks, spent,
                 sockets, authority, work, drain, lastToken>>

\* Fault: only the request that is granted at once is registered.
ManyRegisters_Direct ==
  /\ GrantingMany /\ ~MoreKeys
  /\ compositeLocks' = IF granting.queued THEN compositeLocks
                       ELSE compositeLocks \cup {granting.id}
  /\ Reply(granting.ws, "acquired", granting.id)
  /\ granting' = None
  /\ UNCHANGED <<locks, holderDeadlines, timeouts, rejected, wsToKeys, wsToUUIDs,
                 spent, sockets, authority, work, drain, lastToken>>

ManyRegisters ==
  /\ GrantingMany /\ ~MoreKeys
  /\ compositeLocks' = compositeLocks \cup {granting.id}
  /\ Reply(granting.ws, "acquired", granting.id)
  /\ granting' = None
  /\ UNCHANGED <<locks, holderDeadlines, timeouts, rejected, wsToKeys, wsToUUIDs,
                 spent, sockets, authority, work, drain, lastToken>>

\* Creating a lock object or minting a token throws midway: nothing undoes the
\* keys already granted.
ManyFails ==
  /\ GrantingMany /\ MoreKeys
  /\ IF locks[ManyKey] = None
     THEN \E now \in Clock : AdvanceFails(Seed(now)) /\ UNCHANGED locks
     ELSE /\ Count(locks[ManyKey]) < locks[ManyKey].max
          /\ AdvanceFails(NextToken(ManyKey))
          /\ locks' = [locks EXCEPT ![ManyKey].emptied = FALSE]
  /\ IF granting.queued THEN Silent ELSE Reply(granting.ws, "refused", granting.id)
  /\ granting' = None
  /\ drain' = None
  /\ UNCHANGED <<tables, sockets, work, lastToken>>

-----------------------------------------------------------------------------
(* lock().                                                                 *)

Hears(ws) == Idle /\ ws \in writable \ lmxClosed

\* The object the call finds, no longer emptied and with the call's limits.
Touched(u) ==
  LET k == Req[u].key
  IN  IF locks[k] = None THEN locks
      ELSE [locks EXCEPT ![k] = WithLimits([@ EXCEPT !.emptied = FALSE], u)]

\* cleanUpLocks runs at every fourth lock() and drops the objects that were
\* emptied long enough ago: any of them, or none.
Collectable(L) == {k \in Keys : /\ L[k] # None
                                /\ L[k].emptied
                                /\ Count(L[k]) < 1
                                /\ L[k].notify = <<>>}
CleanUpLocks(L) ==
  {[k \in Keys |-> IF k \in old THEN None ELSE L[k]] : old \in SUBSET Collectable(L)}

Remember(u, ws) == wsToUUIDs' = [wsToUUIDs EXCEPT ![ws] = @ \cup {u}]
Begin(id, ws)   == granting' = [id |-> id, ws |-> ws, pos |-> 1, queued |-> FALSE]

LockRefused(u, ws) ==
  /\ Hears(ws) /\ ws \in Req[u].from
  /\ ~HasHeadroom(1)
  /\ Reply(ws, "refused", u)
  /\ UNCHANGED <<locks, tables, sockets, authority, stack, lastToken>>

LockAccepted(u, ws) ==
  /\ Hears(ws) /\ ws \in Req[u].from
  /\ HasHeadroom(1)
  /\ Remember(u, ws)
  /\ UNCHANGED <<holderDeadlines, timeouts, rejected, compositeLocks, spent,
                 sockets, work, drain, lastToken>>

LockOnNewKey(u, ws) ==
  LET k == Req[u].key
  IN  /\ LockAccepted(u, ws)
      /\ locks[k] = None
      /\ \E now \in Clock, L \in CleanUpLocks(locks) :
           /\ Seed(now) <= MaxToken
           /\ Advance(Seed(now))
           /\ locks' = [L EXCEPT
                 ![k] = CountReader(WithLimits(DefaultLockObject(Seed(now)), u), u)]
      /\ wsToKeys' = [wsToKeys EXCEPT ![ws] = @ \cup {k}]
      /\ Begin(u, ws)
      /\ Silent

LockOnNewKeyFails(u, ws) ==
  LET k == Req[u].key
  IN  /\ LockAccepted(u, ws)
      /\ locks[k] = None
      /\ \E now \in Clock : AdvanceFails(Seed(now))
      /\ locks' \in CleanUpLocks(locks)
      /\ wsToKeys' = [wsToKeys EXCEPT ![ws] = @ \cup {k}]
      /\ Reply(ws, "refused", u)
      /\ UNCHANGED granting

LockOnFreeKey(u, ws) ==
  LET k == Req[u].key
  IN  /\ LockAccepted(u, ws)
      /\ locks[k] # None /\ ~IsFull(Touched(u)[k], u)
      /\ \E L \in CleanUpLocks(Touched(u)) :
           locks' = [L EXCEPT ![k] = CountReader(@, u)]
      /\ Begin(u, ws)
      /\ Silent
      /\ UNCHANGED <<wsToKeys, authority>>

\* No slot: the call is queued, or with wait = false only answered.
LockOnFullKey(u, ws, retry) ==
  LET k == Req[u].key
  IN  /\ LockAccepted(u, ws)
      /\ locks[k] # None /\ IsFull(Touched(u)[k], u)
      /\ \E L \in CleanUpLocks(Touched(u)) :
           locks' = IF Req[u].wait
                    THEN [L EXCEPT ![k].notify = Enqueue(@, u, ws, retry)]
                    ELSE L
      /\ Reply(ws, "waiting", u)
      /\ UNCHANGED <<wsToKeys, authority, granting>>

-----------------------------------------------------------------------------
(* acquireMany() and releaseMany().                                        *)

AcquireMany(m) ==
  LET ws == ManyReq[m].from
  IN  /\ Hears(ws)
      /\ m \notin spent
      /\ IF HasHeadroom(Len(ManyReq[m].keys))
         THEN /\ spent' = spent \cup {m} /\ Begin(m, ws) /\ Silent
         ELSE /\ Reply(ws, "refused", m) /\ UNCHANGED <<spent, granting>>
      /\ UNCHANGED <<locks, holderDeadlines, timeouts, rejected, wsToKeys, wsToUUIDs,
                     compositeLocks, sockets, authority, work, drain, lastToken>>

ReleaseMany(m, ws) ==
  /\ Hears(ws)
  /\ IF m \in compositeLocks
     THEN /\ work' = {MemberRow(m, i) : i \in 1..Len(ManyReq[m].keys)}
                        \cup {RegistryRow(m, ws)}
          /\ Silent
     ELSE Reply(ws, "not-released", m) /\ UNCHANGED work
  /\ UNCHANGED <<locks, tables, sockets, authority, drain, granting, lastToken>>

ReleaseMember(t) ==
  /\ Turn(t) /\ t.op = "member"
  /\ IF locks[t.key] = None
     THEN UNCHANGED <<locks, drain, holderDeadlines>>
     ELSE /\ holderDeadlines' = holderDeadlines \ ({t.key} \X t.ids)
          /\ EnsureNewLockHolder(t.key,
               Released(t.key, t.ids, t.ids \cap HoldersOf(locks[t.key])))
  /\ work' = work \ {t}
  /\ Silent
  /\ UNCHANGED <<timeouts, rejected, wsToKeys, wsToUUIDs, compositeLocks, spent,
                 sockets, authority, granting, lastToken>>

ForgetComposite(t) ==
  /\ Turn(t) /\ t.op = "registry"
  /\ compositeLocks' = compositeLocks \ t.ids
  /\ out' = UNION {Send(t.ws, "released", m, 0) : m \in t.ids}
  /\ work' = work \ {t}
  /\ UNCHANGED <<locks, holderDeadlines, timeouts, rejected, wsToKeys, wsToUUIDs,
                 spent, sockets, authority, drain, granting, lastToken>>

-----------------------------------------------------------------------------
(* unlock().  u is the _uuid field, None when the caller sends none.       *)

CallsOn(k) == {v \in Uuids : Req[v].key = k}

Forget(k, u, ws) ==
  /\ wsToKeys' = [wsToKeys EXCEPT ![ws] = @ \ {k}]
  /\ wsToUUIDs' = [wsToUUIDs EXCEPT ![ws] = @ \ {u}]

Unlocking(k, u, ws) ==
  /\ Hears(ws)
  /\ Forget(k, u, ws)
  /\ UNCHANGED <<timeouts, rejected, compositeLocks, spent, sockets, authority,
                 work, granting, lastToken>>

UnlockUnknownKey(k, u, ws) ==
  /\ Unlocking(k, u, ws)
  /\ locks[k] = None
  /\ Reply(ws, "unlocked", u)
  /\ UNCHANGED <<locks, holderDeadlines, drain>>

\* Fault: the holder is only remembered as released; its entry stays.
UnlockHolder_Remembers(k, u, ws) ==
  /\ Unlocking(k, u, ws)
  /\ locks[k] # None /\ u # None /\ Holding(locks[k], u)
  /\ holderDeadlines' = holderDeadlines \ {<<k, u>>}
  /\ Reply(ws, "unlocked", u)
  /\ EnsureNewLockHolder(k, Released(k, {}, {u}))

UnlockHolder(k, u, ws) ==
  /\ Unlocking(k, u, ws)
  /\ locks[k] # None /\ u # None /\ Holding(locks[k], u)
  /\ holderDeadlines' = holderDeadlines \ {<<k, u>>}
  /\ Reply(ws, "unlocked", u)
  /\ EnsureNewLockHolder(k, Released(k, {u}, {u}))

\* force without a _uuid evicts every holder of the key.
UnlockEveryone(k, ws) ==
  /\ Unlocking(k, None, ws)
  /\ locks[k] # None
  /\ holderDeadlines' = holderDeadlines \ ({k} \X Holders)
  /\ Reply(ws, "unlocked", None)
  /\ EnsureNewLockHolder(k, Released(k, Holders, HoldersOf(locks[k])))

\* A hold that was already taken away: the caller is told it is unlocked, once.
UnlockLate(k, u, ws) ==
  /\ Unlocking(k, u, ws)
  /\ locks[k] # None /\ u # None /\ ~Holding(locks[k], u)
  /\ u \in locks[k].released
  /\ holderDeadlines' = IF HasHeadroom(MaxCompositeKeys)
                        THEN holderDeadlines \ {<<k, u>>} ELSE holderDeadlines
  /\ Reply(ws, "unlocked", u)
  /\ EnsureNewLockHolder(k, [locks EXCEPT ![k].released = @ \ {u}])

\* Fault: force with a _uuid that holds nothing evicts every holder.
UnlockRejected_Wipes(k, u, ws, force) ==
  /\ Unlocking(k, u, ws)
  /\ locks[k] # None /\ u # None /\ force
  /\ Reply(ws, "not-unlocked", u)
  /\ locks' = Released(k, Holders, Holders)
  /\ UNCHANGED <<holderDeadlines, drain>>

UnlockRejected(k, u, ws, force) ==
  /\ Unlocking(k, u, ws)
  /\ locks[k] # None
  /\ IF u = None THEN ~force
     ELSE ~Holding(locks[k], u) /\ (force \/ u \notin locks[k].released)
  /\ Reply(ws, "not-unlocked", u)
  /\ UNCHANGED <<locks, holderDeadlines, drain>>

-----------------------------------------------------------------------------
(* The other client frames.                                                *)

\* Any client's acknowledgement disarms the timer of the key.
LockReceived(k, ws) ==
  /\ Hears(ws)
  /\ timeouts[k] # None
  /\ timeouts' = [timeouts EXCEPT ![k] = None]
  /\ Silent
  /\ UNCHANGED <<locks, holderDeadlines, rejected, wsToKeys, wsToUUIDs, compositeLocks,
                 spent, sockets, authority, stack, lastToken>>

\* lock-client-timeout and lock-client-error.
LockClientTimeout(u, ws) ==
  LET k == Req[u].key
  IN  /\ Hears(ws)
      /\ locks[k] # None
      /\ locks' = [locks EXCEPT ![k].notify = Without(@, u)]
      /\ Silent
      /\ UNCHANGED <<tables, sockets, authority, stack, lastToken>>

LockReceivedRejected(u, ws) ==
  /\ Hears(ws)
  /\ locks[Req[u].key] # None
  /\ rejected' = rejected \cup {u}
  /\ EnsureNewLockHolder(Req[u].key, locks)
  /\ Silent
  /\ UNCHANGED <<holderDeadlines, timeouts, wsToKeys, wsToUUIDs, compositeLocks, spent,
                 sockets, authority, work, granting, lastToken>>

-----------------------------------------------------------------------------
(* Timers.                                                                 *)

\* One sweep: it first notes every expired row, then visits them.
TickTtl ==
  /\ Idle
  /\ \E expired \in SUBSET holderDeadlines :
       /\ expired # {}
       /\ work' = {EvictRow(e[1], e[2]) : e \in expired}
  /\ Silent
  /\ UNCHANGED <<locks, tables, sockets, authority, drain, granting, lastToken>>

Evict(t) ==
  LET evicted == t.ids \cap HoldersOf(locks[t.key])
  IN  /\ Turn(t) /\ t.op = "evict"
      /\ holderDeadlines' = holderDeadlines \ ({t.key} \X t.ids)
      /\ IF locks[t.key] = None \/ evicted = {}
         THEN UNCHANGED <<locks, drain>>
         ELSE EnsureNewLockHolder(t.key, Released(t.key, evicted, evicted))
      /\ work' = work \ {t}
      /\ Silent
      /\ UNCHANGED <<timeouts, rejected, wsToKeys, wsToUUIDs, compositeLocks, spent,
                     sockets, authority, granting, lastToken>>

\* Nobody acknowledged the grant in time: the hold is dropped, and the first
\* waiters leave the queue and are told to ask again.
Reelection(k) ==
  /\ Idle
  /\ timeouts[k] # None
  /\ timeouts' = [timeouts EXCEPT ![k] = None]
  /\ wsToKeys' = [wsToKeys EXCEPT ![timeouts[k].ws] = @ \ {k}]
  /\ IF locks[k] = None
     THEN Silent /\ UNCHANGED locks
     ELSE LET u == timeouts[k].id
              q == locks[k].notify
              twice == Holding(locks[k], u) /\ u \notin rejected /\ ~Queued(q, u)
              n == IF twice THEN 2 * Batch ELSE Batch
          IN  /\ locks' = [locks EXCEPT ![k].lockholders[u] = NoHold,
                                        ![k].notify = AfterFirst(n, q)]
              /\ out' = UNION {Send(q[i].ws, "reelection", q[i].id, 0) :
                               i \in {j \in 1..Len(q) : j <= n}}
  /\ UNCHANGED <<holderDeadlines, rejected, wsToUUIDs, compositeLocks, spent,
                 sockets, authority, stack, lastToken>>

-----------------------------------------------------------------------------
(* Connections.                                                            *)

\* The transport dies; no event has reached the broker yet.
BreakConnection(ws) ==
  /\ Idle
  /\ ws \in writable
  /\ writable' = writable \ {ws}
  /\ Silent
  /\ UNCHANGED <<locks, tables, lmxClosed, authority, stack, lastToken>>

CleanupConnection(ws, last) ==
  /\ Idle
  /\ ws \notin lmxClosed
  /\ lmxClosed' = lmxClosed \cup {ws}
  /\ timeouts' = [k \in Keys |-> IF k \in wsToKeys[ws] THEN None ELSE timeouts[k]]
  /\ wsToKeys' = [wsToKeys EXCEPT ![ws] = {}]
  /\ wsToUUIDs' = [wsToUUIDs EXCEPT ![ws] = {}]
  /\ work' = {VisitRow(k, ws) : k \in Keys} \cup {LastRow(last, ws)}
  /\ Silent
  /\ UNCHANGED <<locks, holderDeadlines, rejected, compositeLocks, spent, writable,
                 authority, drain, granting, lastToken>>

\* 'end' (the socket is still writable while the handler runs) or 'error'
\* (it may not be: see BreakConnection).  The handler destroys it at the end.
SocketEnds(ws) == CleanupConnection(ws, "destroy")

\* The socket is destroyed two seconds later, by BreakConnection.
VersionMismatch(ws) == ws \in writable /\ CleanupConnection(ws, "mismatch")

CleaningUp(t, op) ==
  /\ Turn(t) /\ t.op = op
  /\ UNCHANGED <<timeouts, rejected, compositeLocks, spent, lmxClosed, authority,
                 granting, lastToken>>

\* One key of the walk over this.locks: scrub the queue, then force-unlock the
\* holds of the closing socket.
VisitKey(t) ==
  LET l == locks[t.key]
      mine == {h \in HoldersOf(l) : l.lockholders[h].ws = t.ws}
  IN  /\ CleaningUp(t, "visit")
      /\ locks[t.key] # None
      /\ holderDeadlines' = holderDeadlines \ ({t.key} \X mine)
      /\ work' = (work \ {t})
                   \cup {ScrubRow(t.key, u) : u \in {v \in t.ids : Queued(l.notify, v)}}
                   \cup {ForcedRow(t.key, h, t.ws) : h \in mine}
      /\ Silent
      /\ UNCHANGED <<locks, wsToKeys, wsToUUIDs, writable, drain>>

\* Keys added to the Map during the walk come last; what is then still
\* missing has no lock object.
VisitAbsentKey(t) ==
  /\ CleaningUp(t, "visit")
  /\ \A s \in work : s.op = "visit" => locks[s.key] = None
  /\ work' = work \ {t}
  /\ Silent
  /\ UNCHANGED <<locks, holderDeadlines, wsToKeys, wsToUUIDs, writable, drain>>

ScrubWaiter(t) ==
  /\ CleaningUp(t, "scrub")
  /\ locks' = [k \in Keys |-> IF k = t.key /\ locks[k] # None
                 THEN [locks[k] EXCEPT !.notify = Without(@, CHOOSE u \in t.ids : TRUE)]
                 ELSE locks[k]]
  /\ work' = work \ {t}
  /\ Silent
  /\ UNCHANGED <<holderDeadlines, wsToKeys, wsToUUIDs, writable, drain>>

ForcedUnlock(t) ==
  LET held == t.ids \cap HoldersOf(locks[t.key])
  IN  /\ CleaningUp(t, "forced")
      /\ wsToKeys' = [wsToKeys EXCEPT ![t.ws] = @ \ {t.key}]
      /\ wsToUUIDs' = [wsToUUIDs EXCEPT ![t.ws] = @ \ t.ids]
      /\ holderDeadlines' = holderDeadlines \ ({t.key} \X held)
      /\ IF locks[t.key] = None \/ held = {}
         THEN UNCHANGED <<locks, drain>>
         ELSE EnsureNewLockHolder(t.key, Released(t.key, held, held))
      /\ work' = work \ {t}
      /\ Silent
      /\ UNCHANGED writable

EndCleanup(t) ==
  /\ \/ /\ CleaningUp(t, "destroy")
        /\ writable' = writable \ {t.ws}
        /\ Silent
     \/ /\ CleaningUp(t, "mismatch")
        /\ Reply(t.ws, "version-mismatch", None)
        /\ UNCHANGED writable
  /\ work' = work \ {t}
  /\ UNCHANGED <<locks, holderDeadlines, wsToKeys, wsToUUIDs, drain>>

-----------------------------------------------------------------------------
(* The broker process.                                                     *)

Init ==
  /\ locks = [k \in Keys |-> None]
  /\ holderDeadlines = {}
  /\ timeouts = [k \in Keys |-> None]
  /\ rejected = {}
  /\ wsToKeys = [ws \in Sockets |-> {}]
  /\ wsToUUIDs = [ws \in Sockets |-> {}]
  /\ compositeLocks = {}
  /\ writable = Sockets
  /\ lmxClosed = {}
  /\ work = {} /\ drain = None /\ granting = None
  /\ out = {}
  /\ spent = {}
  /\ disk = 0
  /\ watermark = Floor
  /\ lastToken = [k \in Keys |-> 0]

\* The process dies, at any point, and is started again on the same state
\* file; the sockets are new connections.  Without the file nothing relates
\* the tokens of two incarnations, so the history starts afresh.
Restart ==
  /\ locks' = [k \in Keys |-> None]
  /\ holderDeadlines' = {}
  /\ timeouts' = [k \in Keys |-> None]
  /\ rejected' = {}
  /\ wsToKeys' = [ws \in Sockets |-> {}]
  /\ wsToUUIDs' = [ws \in Sockets |-> {}]
  /\ compositeLocks' = {}
  /\ writable' = Sockets
  /\ lmxClosed' = {}
  /\ work' = {} /\ drain' = None /\ granting' = None
  /\ out' = {}
  /\ watermark' = Larger(Floor, disk)
  /\ lastToken' = IF Durable THEN lastToken ELSE [k \in Keys |-> 0]
  /\ UNCHANGED <<spent, disk>>

-----------------------------------------------------------------------------
(* The specification.                                                      *)

LockFrame ==
  \E u \in Uuids, ws \in Sockets :
    \/ LockRefused(u, ws) \/ LockOnNewKey(u, ws) \/ LockOnNewKeyFails(u, ws)
    \/ LockOnFreeKey(u, ws) \/ \E retry \in BOOLEAN : LockOnFullKey(u, ws, retry)

UnlockFrame ==
  \E k \in Keys, ws \in Sockets :
    \/ UnlockEveryone(k, ws)
    \/ \E u \in CallsOn(k) \cup {None} :
         \/ UnlockUnknownKey(k, u, ws) \/ UnlockHolder(k, u, ws) \/ UnlockLate(k, u, ws)
         \/ \E force \in BOOLEAN : UnlockRejected(k, u, ws, force)

ManyFrame ==
  \E m \in ManyIds : AcquireMany(m) \/ \E ws \in Sockets : ReleaseMany(m, ws)

OtherFrame ==
  \E ws \in Sockets :
    \/ \E k \in Keys : LockReceived(k, ws)
    \/ \E u \in Uuids : LockClientTimeout(u, ws) \/ LockReceivedRejected(u, ws)

Connections ==
  \E ws \in Sockets : BreakConnection(ws) \/ SocketEnds(ws) \/ VersionMismatch(ws)

Reelections == \E k \in Keys : Reelection(k)

\* The rest of a handler that has started.
Granting == \/ GrantLock \/ GrantLockFails \/ ManyCreatesLock \/ ManyGrantsKey
            \/ ManyIsContended \/ ManyRegisters \/ ManyFails
Drain    == \E k \in Keys : DrainStops(k) \/ DequeueWaiter(k)
WorkStep == \E t \in work :
              \/ Evict(t) \/ ReleaseMember(t) \/ ForgetComposite(t)
              \/ VisitKey(t) \/ VisitAbsentKey(t) \/ ScrubWaiter(t)
              \/ ForcedUnlock(t) \/ EndCleanup(t)
Internal == Granting \/ Drain \/ WorkStep

Frames == LockFrame \/ UnlockFrame \/ ManyFrame \/ OtherFrame

\* Everything but the re-election timer and the broker's death.
CalmNext == Frames \/ TickTtl \/ Connections \/ Internal
Next     == CalmNext \/ Reelections \/ Restart

Spec == Init /\ [][Next]_vars

\* The event loop runs a handler that has started to its end, and the sweeper,
\* a setInterval, comes round to every deadline.  The sweep needs strong
\* fairness because it can only start when no other handler is running.
SweepOf(k, h) == TickTtl /\ EvictRow(k, h) \in work'
Fairness == /\ WF_vars(Internal)
            /\ \A k \in Keys, h \in Holders : SF_vars(SweepOf(k, h))
=============================================================================
