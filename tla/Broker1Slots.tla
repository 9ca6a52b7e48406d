---------------------------- MODULE Broker1Slots ----------------------------
(***************************************************************************)
(* How many may hold a key: Broker1 implements FencedLock, a mutex has one *)
(* holder, and no waiter is stranded.                                      *)
(*                                                                         *)
(* Both are about keys without readers.  What a lock object's limits can   *)
(* be is then a matter of what the calls ask for: A[k] is a set that holds *)
(* every number of slots that a call can give key k.                       *)
(***************************************************************************)
EXTENDS Broker1Holds, WellFoundedInduction

NoReaders == \A u \in Uuids : Req[u].rw \in {"none", "end-read"}

Asks(A) ==
  /\ NoReaders
  /\ \A u \in Uuids : (IF Req[u].max # 0 THEN Req[u].max ELSE 1) \in A[Req[u].key]
  /\ \A m \in ManyIds : \A i \in 1..Len(ManyReq[m].keys) : 1 \in A[ManyReq[m].keys[i]]

Fits(S, l)     == l.max \in S /\ l.maxRead = 0 /\ l.maxWrite = 0
LimitsOK(A, L) == \A k \in Keys : L[k] # None => Fits(A[k], L[k])

-----------------------------------------------------------------------------
(* The limits of the lock table.                                           *)

(* Replacing one lock object.                                              *)
LEMMA UpdateLimits ==
  ASSUME NEW A, NEW L, LocksOK(L), LimitsOK(A, L), NEW k \in Keys, NEW l, Fits(A[k], l)
  PROVE  LimitsOK(A, [L EXCEPT ![k] = l])
PROOF
  <1>1. \A j \in Keys : [L EXCEPT ![k] = l][j] = IF j = k THEN l ELSE L[j]
    BY DEF LocksOK
  <1>. QED  BY <1>1 DEF LimitsOK

(* A release does not touch them, nor does what follows it.                *)
LEMMA ReleasedLimits ==
  ASSUME NEW A, LocksOK(locks), LimitsOK(A, locks), NEW k \in Keys, locks[k] # None,
         NEW S, NEW R \in SUBSET Holders
  PROVE  LimitsOK(A, Released(k, S, R))
PROOF
  <1>. DEFINE l == [locks[k] EXCEPT
                      !.lockholders = [h \in Holders |-> IF h \in S THEN NoHold
                                                         ELSE locks[k].lockholders[h]],
                      !.released = locks[k].released \cup R]
  <1>1. locks[k] \in LockObj /\ locks \in [Keys -> LockObj \cup {None}]
    BY DEF LocksOK, HomeLock
  <1>2. Released(k, S, R) = [locks EXCEPT ![k] = l]
    BY <1>1 DEF Released, LockObj
  <1>3. Fits(A[k], l)
    BY <1>1 DEF LimitsOK, Fits, LockObj
  <1>. HIDE DEF l
  <1>4. LimitsOK(A, [locks EXCEPT ![k] = l])
    BY <1>3, UpdateLimits
  <1>. QED  BY <1>2, <1>4

LEMMA EnsureLimits ==
  ASSUME NEW A, NEW L, LocksOK(L), LimitsOK(A, L), NEW k \in Keys, L[k] # None,
         EnsureNewLockHolder(k, L)
  PROVE  LimitsOK(A, locks')
PROOF
  <1>1. CASE locks' = L
    BY <1>1
  <1>2. CASE locks' = [L EXCEPT ![k].emptied = TRUE]
    <2>. DEFINE l == [L[k] EXCEPT !.emptied = TRUE]
    <2>1. L[k] \in LockObj /\ Fits(A[k], L[k])
      BY DEF LocksOK, HomeLock, LimitsOK
    <2>2. locks' = [L EXCEPT ![k] = l]
      BY <1>2
    <2>3. Fits(A[k], l)
      BY <2>1 DEF Fits, LockObj
    <2>. HIDE DEF l
    <2>. QED  BY <2>2, <2>3, UpdateLimits
  <1>. QED  BY <1>1, <1>2 DEF EnsureNewLockHolder

LEMMA ReleaseLimits ==
  ASSUME NEW A, IInv, LimitsOK(A, locks), NEW k \in Keys, locks[k] # None,
         NEW S, NEW R \in SUBSET Holders, EnsureNewLockHolder(k, Released(k, S, R))
  PROVE  LimitsOK(A, locks')
PROOF
  <1>1. LocksOK(locks) /\ LocksOK(Released(k, S, R)) /\ Released(k, S, R)[k] # None
    BY IInvLocks, ReleasedOK
  <1>2. LimitsOK(A, Released(k, S, R))
    BY <1>1, ReleasedLimits
  <1>. QED  BY <1>1, <1>2, EnsureLimits

LEMMA CleanUpLimits ==
  ASSUME NEW A, NEW L, LimitsOK(A, L), NEW M \in CleanUpLocks(L)
  PROVE  LimitsOK(A, M)
PROOF
  BY DEF CleanUpLocks, LimitsOK

(* Another queue, and a count of readers, are not limits.                  *)
LEMMA NotifyLimits ==
  ASSUME NEW A, NEW L, LocksOK(L), LimitsOK(A, L), NEW k \in Keys, L[k] # None, NEW q
  PROVE  LimitsOK(A, [L EXCEPT ![k].notify = q])
PROOF
  <1>. DEFINE l == [L[k] EXCEPT !.notify = q]
  <1>1. L[k] \in LockObj /\ Fits(A[k], L[k])
    BY DEF LocksOK, HomeLock, LimitsOK
  <1>2. Fits(A[k], l)
    BY <1>1 DEF Fits, LockObj
  <1>3. [L EXCEPT ![k].notify = q] = [L EXCEPT ![k] = l]
    OBVIOUS
  <1>. HIDE DEF l
  <1>. QED  BY <1>2, <1>3, UpdateLimits

LEMMA ReaderLimits ==
  ASSUME NEW S, NEW l \in LockObj, Fits(S, l), NEW u \in Uuids
  PROVE  Fits(S, CountReader(l, u))
PROOF
  BY DEF Fits, CountReader, LockObj

(* A request that is no read writes its slots and nothing else.            *)
LEMMA WrittenLimits ==
  ASSUME NEW A, Asks(A), NEW u \in Uuids, NEW l \in LockObj,
         Fits(A[Req[u].key], l) \/ (l.max = 1 /\ l.maxRead = 0 /\ l.maxWrite = 0)
  PROVE  Fits(A[Req[u].key], WithLimits(l, u))
PROOF
  <1>1. Req[u].rw # "begin-read" /\ Req[u].rw # "begin-write"
    BY DEF Asks, NoReaders
  <1>2. /\ WithLimits(l, u).max = IF Req[u].max # 0 THEN Req[u].max ELSE l.max
        /\ WithLimits(l, u).maxRead = l.maxRead /\ WithLimits(l, u).maxWrite = l.maxWrite
    BY <1>1 DEF WithLimits, LockObj
  <1>. QED  BY <1>2 DEF Fits, Asks

LEMMA TouchedLimits ==
  ASSUME NEW A, Asks(A), LocksOK(locks), LimitsOK(A, locks), NEW u \in Uuids
  PROVE  LimitsOK(A, Touched(u))
PROOF
  <1>. DEFINE k == Req[u].key
  <1>1. k \in Keys
    BY RequestType
  <1>2. CASE locks[k] = None
    BY <1>2 DEF Touched
  <1>3. CASE locks[k] # None
    <2>. DEFINE e == [locks[k] EXCEPT !.emptied = FALSE]
                l == WithLimits(e, u)
    <2>1. locks[k] \in LockObj /\ locks \in [Keys -> LockObj \cup {None}]
      BY <1>1, <1>3 DEF LocksOK, HomeLock
    <2>2. e \in LockObj /\ Fits(A[k], e)
      BY <1>1, <1>3, <2>1 DEF LimitsOK, Fits, LockObj
    <2>3. Touched(u) = [locks EXCEPT ![k] = l]
      BY <1>3, <2>1 DEF Touched
    <2>. HIDE DEF e
    <2>4. Fits(A[k], l)
      BY <2>2, WrittenLimits
    <2>. HIDE DEF l
    <2>5. LimitsOK(A, [locks EXCEPT ![k] = l])
      BY <1>1, <2>4, UpdateLimits
    <2>. QED  BY <2>3, <2>5
  <1>. QED  BY <1>2, <1>3

LEMMA InstallLimits ==
  ASSUME NEW A, LocksOK(locks), LimitsOK(A, locks), NEW k \in Keys, locks[k] # None,
         NEW h, NEW ws, Install(k, h, ws)
  PROVE  LimitsOK(A, locks')
PROOF
  <1>. DEFINE l == [locks[k] EXCEPT
                      !.nextFencingToken = NextToken(k),
                      !.lockholders = [locks[k].lockholders EXCEPT
                                         ![h] = [ws |-> ws, token |-> NextToken(k)]],
                      !.emptied = locks[k].emptied /\ h \in Uuids]
  <1>1. locks[k] \in LockObj /\ locks \in [Keys -> LockObj \cup {None}]
    BY DEF LocksOK, HomeLock
  <1>2. locks' = [locks EXCEPT ![k] = l]
    BY <1>1 DEF Install, LockObj
  <1>3. Fits(A[k], l)
    BY <1>1 DEF LimitsOK, Fits, LockObj
  <1>. HIDE DEF l
  <1>4. LimitsOK(A, [locks EXCEPT ![k] = l])
    BY <1>3, UpdateLimits
  <1>. QED  BY <1>2, <1>4

-----------------------------------------------------------------------------
(* The limits of every step.                                               *)

LEMMA LockOnNewKeyLimits ==
  ASSUME NEW A, Asks(A), IInv, LimitsOK(A, locks), NEW u \in Uuids, NEW ws,
         LockOnNewKey(u, ws)
  PROVE  LimitsOK(A, locks')
PROOF
  <1>. DEFINE k == Req[u].key
  <1>1. PICK now \in Clock, L \in CleanUpLocks(locks) :
          /\ Seed(now) <= MaxToken
          /\ locks' = [L EXCEPT
                ![k] = CountReader(WithLimits(DefaultLockObject(Seed(now)), u), u)]
    BY DEF LockOnNewKey
  <1>2. k \in Keys /\ LocksOK(locks)
    BY RequestType, IInvLocks
  <1>3. Seed(now) \in 0..MaxToken
    BY <1>1, AuthorityAssumption, NumberAssumption DEF Seed, Larger, IInv, TypeOK
  <1>4. LocksOK(L) /\ LimitsOK(A, L)
    BY <1>2, SameKept, CleanUpOK, CleanUpLimits
  <1>. DEFINE d == DefaultLockObject(Seed(now))
              w == WithLimits(d, u)
              l == CountReader(w, u)
  <1>5. d \in HomeLock(k) /\ d.max = 1 /\ d.maxRead = 0 /\ d.maxWrite = 0
    BY <1>2, <1>3, DefaultLockObjectType DEF DefaultLockObject
  <1>. HIDE DEF d
  <1>6. w \in HomeLock(k) /\ Fits(A[k], w)
    BY <1>2, <1>5, WithLimitsType, WrittenLimits DEF HomeLock
  <1>. HIDE DEF w
  <1>7. Fits(A[k], l)
    BY <1>6, ReaderLimits DEF HomeLock
  <1>8. locks' = [L EXCEPT ![k] = l]
    BY <1>1 DEF d, w
  <1>. HIDE DEF l
  <1>. QED  BY <1>2, <1>4, <1>7, <1>8, UpdateLimits

(* The object that a call on an existing key has in hand.                  *)
LEMMA TouchedCollectedLimits ==
  ASSUME NEW A, Asks(A), IInv, LimitsOK(A, locks), NEW u \in Uuids,
         NEW L \in CleanUpLocks(Touched(u))
  PROVE  LimitsOK(A, L)
PROOF
  <1>1. LimitsOK(A, Touched(u))
    BY IInvLocks, TouchedLimits
  <1>. QED  BY <1>1, CleanUpLimits

LEMMA LockOnFreeKeyLimits ==
  ASSUME NEW A, Asks(A), IInv, LimitsOK(A, locks), NEW u \in Uuids, NEW ws,
         LockOnFreeKey(u, ws)
  PROVE  LimitsOK(A, locks')
PROOF
  <1>. DEFINE k == Req[u].key
  <1>1. PICK L \in CleanUpLocks(Touched(u)) :
          locks' = [L EXCEPT ![k] = CountReader(L[k], u)]
    BY DEF LockOnFreeKey
  <1>2. k \in Keys /\ LocksOK(L) /\ L[k] \in LockObj /\ L[k] # None /\ LimitsOK(A, L)
    BY RequestType, TouchedCollected, TouchedCollectedLimits, NullAssumption
    DEF LockOnFreeKey, HomeLock
  <1>. DEFINE l == CountReader(L[k], u)
  <1>3. Fits(A[k], l)
    BY <1>2, ReaderLimits DEF LimitsOK
  <1>. HIDE DEF l
  <1>4. LimitsOK(A, [L EXCEPT ![k] = l])
    BY <1>2, <1>3, UpdateLimits
  <1>. QED  BY <1>1, <1>4 DEF l

LEMMA LockOnFullKeyLimits ==
  ASSUME NEW A, Asks(A), IInv, LimitsOK(A, locks), NEW u \in Uuids, NEW ws, NEW retry,
         LockOnFullKey(u, ws, retry)
  PROVE  LimitsOK(A, locks')
PROOF
  <1>. DEFINE k == Req[u].key
  <1>1. PICK L \in CleanUpLocks(Touched(u)) :
          locks' = IF Req[u].wait
                   THEN [L EXCEPT ![k].notify = Enqueue(L[k].notify, u, ws, retry)]
                   ELSE L
    BY DEF LockOnFullKey
  <1>2. k \in Keys /\ LocksOK(L) /\ L[k] # None /\ LimitsOK(A, L)
    BY RequestType, TouchedCollected, TouchedCollectedLimits, NullAssumption
    DEF LockOnFullKey, HomeLock
  <1>. DEFINE q == Enqueue(L[k].notify, u, ws, retry)
  <1>3. LimitsOK(A, [L EXCEPT ![k].notify = q])
    BY <1>2, NotifyLimits
  <1>. QED  BY <1>1, <1>2, <1>3

LEMMA LockFrameLimits ==
  ASSUME NEW A, Asks(A), IInv, LimitsOK(A, locks), LockFrame
  PROVE  LimitsOK(A, locks')
PROOF
  <1>. PICK u \in Uuids, ws \in Sockets :
         \/ LockRefused(u, ws) \/ LockOnNewKey(u, ws) \/ LockOnNewKeyFails(u, ws)
         \/ LockOnFreeKey(u, ws) \/ \E retry \in BOOLEAN : LockOnFullKey(u, ws, retry)
    BY DEF LockFrame
  <1>1. CASE LockRefused(u, ws)
    BY <1>1 DEF LockRefused
  <1>2. CASE LockOnNewKeyFails(u, ws)
    BY <1>2, CleanUpLimits DEF LockOnNewKeyFails
  <1>. QED
    BY <1>1, <1>2, LockOnNewKeyLimits, LockOnFreeKeyLimits, LockOnFullKeyLimits

LEMMA UnlockFrameLimits ==
  ASSUME NEW A, IInv, LimitsOK(A, locks), UnlockFrame
  PROVE  LimitsOK(A, locks')
PROOF
  <1>. PICK k \in Keys, ws \in Sockets :
         \/ UnlockEveryone(k, ws)
         \/ \E u \in CallsOn(k) \cup {None} :
              \/ UnlockUnknownKey(k, u, ws) \/ UnlockHolder(k, u, ws) \/ UnlockLate(k, u, ws)
              \/ \E force \in BOOLEAN : UnlockRejected(k, u, ws, force)
    BY DEF UnlockFrame
  <1>1. CASE UnlockEveryone(k, ws)
    <2>1. locks[k] # None /\ EnsureNewLockHolder(k, Released(k, Holders, HoldersOf(locks[k])))
      BY <1>1 DEF UnlockEveryone
    <2>2. HoldersOf(locks[k]) \in SUBSET Holders
      BY DEF HoldersOf
    <2>. QED  BY <2>1, <2>2, ReleaseLimits
  <1>2. ASSUME NEW u \in CallsOn(k) \cup {None}, UnlockHolder(k, u, ws)
        PROVE  LimitsOK(A, locks')
    <2>1. locks[k] # None /\ EnsureNewLockHolder(k, Released(k, {u}, {u})) /\ u # None
      BY <1>2 DEF UnlockHolder
    <2>2. {u} \in SUBSET Holders
      BY <2>1 DEF CallsOn, Holders
    <2>. QED  BY <2>1, <2>2, ReleaseLimits
  <1>3. ASSUME NEW u, UnlockLate(k, u, ws)
        PROVE  LimitsOK(A, locks')
    <2>. DEFINE l == [locks[k] EXCEPT !.released = locks[k].released \ {u}]
    <2>1. LocksOK(locks) /\ locks[k] # None /\ locks[k] \in HomeLock(k)
      BY <1>3, IInvLocks DEF UnlockLate, LocksOK
    <2>2. l \in HomeLock(k) /\ Fits(A[k], l)
      BY <2>1 DEF HomeLock, LockObj, Fits, LimitsOK
    <2>3. EnsureNewLockHolder(k, [locks EXCEPT ![k] = l])
      BY <1>3 DEF UnlockLate
    <2>. HIDE DEF l
    <2>4. LocksOK([locks EXCEPT ![k] = l]) /\ [locks EXCEPT ![k] = l][k] # None
      BY <2>1, <2>2, UpdateOK
    <2>5. LimitsOK(A, [locks EXCEPT ![k] = l])
      BY <2>1, <2>2, UpdateLimits
    <2>. QED  BY <2>3, <2>4, <2>5, EnsureLimits
  <1>4. ASSUME NEW u, UnlockUnknownKey(k, u, ws) \/ \E force \in BOOLEAN :
                         UnlockRejected(k, u, ws, force)
        PROVE  LimitsOK(A, locks')
    BY <1>4 DEF UnlockUnknownKey, UnlockRejected
  <1>. QED  BY <1>1, <1>2, <1>3, <1>4

LEMMA OtherFrameLimits ==
  ASSUME NEW A, IInv, LimitsOK(A, locks), ManyFrame \/ OtherFrame \/ TickTtl \/ Connections
  PROVE  LimitsOK(A, locks')
PROOF
  <1>1. CASE ManyFrame \/ TickTtl \/ Connections
    BY <1>1 DEF ManyFrame, AcquireMany, ReleaseMany, TickTtl, Connections, BreakConnection,
                SocketEnds, VersionMismatch, CleanupConnection
  <1>2. CASE OtherFrame
    <2>1. PICK ws \in Sockets :
            \/ \E k \in Keys : LockReceived(k, ws)
            \/ \E u \in Uuids : LockClientTimeout(u, ws) \/ LockReceivedRejected(u, ws)
      BY <1>2 DEF OtherFrame
    <2>2. ASSUME NEW k \in Keys, LockReceived(k, ws)
          PROVE  LimitsOK(A, locks')
      BY <2>2 DEF LockReceived
    <2>3. ASSUME NEW u \in Uuids, LockReceivedRejected(u, ws)
          PROVE  LimitsOK(A, locks')
      <3>1. /\ Req[u].key \in Keys /\ locks[Req[u].key] # None
            /\ EnsureNewLockHolder(Req[u].key, locks) /\ LocksOK(locks)
        BY <2>3, RequestType, IInvLocks DEF LockReceivedRejected
      <3>. QED  BY <3>1, EnsureLimits
    <2>4. ASSUME NEW u \in Uuids, LockClientTimeout(u, ws)
          PROVE  LimitsOK(A, locks')
      <3>. DEFINE k == Req[u].key
                  q == Without(locks[k].notify, u)
      <3>1. k \in Keys /\ locks[k] # None /\ LocksOK(locks)
        BY <2>4, RequestType, IInvLocks DEF LockClientTimeout
      <3>2. locks' = [locks EXCEPT ![k].notify = q]
        BY <2>4 DEF LockClientTimeout
      <3>. HIDE DEF q
      <3>3. LimitsOK(A, [locks EXCEPT ![k].notify = q])
        BY <3>1, NotifyLimits
      <3>. QED  BY <3>2, <3>3
    <2>. QED  BY <2>1, <2>2, <2>3, <2>4
  <1>. QED  BY <1>1, <1>2

LEMMA RolledBackLimits ==
  ASSUME NEW A, LocksOK(locks), LimitsOK(A, locks), NEW m \in Holders, NEW ks,
         \A j \in ks : locks[j] # None
  PROVE  LimitsOK(A, RolledBack(m, ks))
PROOF
  <1>. SUFFICES ASSUME NEW j \in Keys, RolledBack(m, ks)[j] # None
                PROVE  Fits(A[j], RolledBack(m, ks)[j])
    BY DEF LimitsOK
  <1>1. CASE j \notin ks
    BY <1>1 DEF RolledBack, LimitsOK
  <1>2. CASE j \in ks
    <2>. DEFINE l == [locks[j] EXCEPT !.lockholders =
                        [locks[j].lockholders EXCEPT ![m] = NoHold]]
    <2>1. locks[j] \in LockObj /\ Fits(A[j], locks[j])
      BY <1>2 DEF LocksOK, HomeLock, LimitsOK
    <2>2. RolledBack(m, ks)[j] = l
      BY <1>2 DEF RolledBack
    <2>3. Fits(A[j], l)
      BY <2>1 DEF LockObj, Fits
    <2>. QED  BY <2>2, <2>3
  <1>. QED  BY <1>1, <1>2

LEMMA GrantingLimits ==
  ASSUME NEW A, Asks(A), IInv, LimitsOK(A, locks), Granting
  PROVE  LimitsOK(A, locks')
PROOF
  <1>. USE IInvLocks
  <1>1. CASE GrantLock
    <2>1. /\ Req[granting.id].key \in Keys /\ locks[Req[granting.id].key] # None
          /\ Install(Req[granting.id].key, granting.id, granting.ws)
      BY <1>1, GrantingType DEF GrantLock, GrantingPlain
    <2>. QED  BY <2>1, InstallLimits
  <1>2. CASE ManyGrantsKey
    <2>1. /\ ManyKey \in Keys /\ locks[ManyKey] # None
          /\ Install(ManyKey, granting.id, granting.ws)
      BY <1>2, GrantingType DEF ManyGrantsKey, GrantingMany
    <2>. QED  BY <2>1, InstallLimits
  <1>3. CASE ManyCreatesLock
    <2>1. PICK now \in Clock : locks' = [locks EXCEPT ![ManyKey] = DefaultLockObject(Seed(now))]
      BY <1>3 DEF ManyCreatesLock
    <2>2. ManyKey \in Keys /\ 1 \in A[ManyKey]
      BY <1>3, GrantingType DEF ManyCreatesLock, GrantingMany, MoreKeys, ManyKey, ManyKeys, Asks
    <2>. DEFINE l == DefaultLockObject(Seed(now))
    <2>3. Fits(A[ManyKey], l)
      BY <2>2 DEF DefaultLockObject, Fits
    <2>. HIDE DEF l
    <2>4. LimitsOK(A, [locks EXCEPT ![ManyKey] = l])
      BY <2>2, <2>3, UpdateLimits
    <2>. QED  BY <2>1, <2>4 DEF l
  <1>4. CASE ManyFails
    <2>1. CASE locks[ManyKey] = None
      BY <1>4, <2>1 DEF ManyFails
    <2>2. CASE locks[ManyKey] # None
      <3>. DEFINE l == [locks[ManyKey] EXCEPT !.emptied = FALSE]
      <3>1. locks' = [locks EXCEPT ![ManyKey] = l]
        BY <1>4, <2>2 DEF ManyFails
      <3>2. ManyKey \in Keys /\ locks[ManyKey] \in LockObj
        BY <1>4, <2>2, GrantingType DEF ManyFails, GrantingMany, LocksOK, HomeLock
      <3>3. Fits(A[ManyKey], l)
        BY <2>2, <3>2 DEF LimitsOK, Fits, LockObj
      <3>. HIDE DEF l
      <3>4. LimitsOK(A, [locks EXCEPT ![ManyKey] = l])
        BY <3>2, <3>3, UpdateLimits
      <3>. QED  BY <3>1, <3>4
    <2>. QED  BY <2>1, <2>2
  <1>5. CASE ManyIsContended
    <2>. DEFINE m == granting.id
                R == RolledBack(m, WalkedSoFar)
                q == Rejoin(R[ManyKey].notify, [id |-> m, ws |-> granting.ws])
    <2>1. /\ m \in Holders /\ m \notin Uuids
          /\ ManyKey \in Keys /\ locks[ManyKey] # None
          /\ \A j \in WalkedSoFar : j \in Keys /\ locks[j] # None
      BY <1>5, GrantingType, NameAssumption DEF ManyIsContended, GrantingMany, WalkedSoFar
    <2>2. LocksOK(R) /\ R[ManyKey] # None /\ LimitsOK(A, R)
      BY <2>1, RolledBackOK, RolledBackLimits
    <2>3. locks' = R \/ locks' = [R EXCEPT ![ManyKey].notify = q]
      BY <1>5 DEF ManyIsContended
    <2>. HIDE DEF R
    <2>. HIDE DEF q
    <2>4. LimitsOK(A, [R EXCEPT ![ManyKey].notify = q])
      BY <2>1, <2>2, NotifyLimits
    <2>. QED  BY <2>2, <2>3, <2>4
  <1>6. CASE GrantLockFails \/ ManyRegisters
    BY <1>6 DEF GrantLockFails, ManyRegisters
  <1>. QED  BY <1>1, <1>2, <1>3, <1>4, <1>5, <1>6 DEF Granting

LEMMA DrainLimits ==
  ASSUME NEW A, IInv, LimitsOK(A, locks), Drain
  PROVE  LimitsOK(A, locks')
PROOF
  <1>. PICK k \in Keys : DrainStops(k) \/ DequeueWaiter(k)
    BY DEF Drain
  <1>1. CASE DrainStops(k)
    BY <1>1 DEF DrainStops
  <1>2. CASE DequeueWaiter(k)
    <2>1. locks[k] # None /\ LocksOK(locks)
      BY <1>2, IInvLocks DEF DequeueWaiter, Draining, IInv, FenceInv, LockInHand, Present
    <2>2. PICK q : locks' = [locks EXCEPT ![k].notify = q]
      BY <1>2 DEF DequeueWaiter
    <2>3. LimitsOK(A, [locks EXCEPT ![k].notify = q])
      BY <2>1, NotifyLimits
    <2>. QED  BY <2>2, <2>3
  <1>. QED  BY <1>1, <1>2

LEMMA WorkLimits ==
  ASSUME NEW A, IInv, LimitsOK(A, locks), WorkStep
  PROVE  LimitsOK(A, locks')
PROOF
  <1>. PICK t \in work :
         \/ Evict(t) \/ ReleaseMember(t) \/ ForgetComposite(t) \/ VisitKey(t)
         \/ VisitAbsentKey(t) \/ ScrubWaiter(t) \/ ForcedUnlock(t) \/ EndCleanup(t)
    BY DEF WorkStep
  <1>1. CASE Evict(t)
    <2>. DEFINE S == t.ids \cap HoldersOf(locks[t.key])
    <2>1. t.key \in Keys /\ S \in SUBSET Holders
      BY <1>1, TaskType DEF Evict
    <2>2. \/ locks' = locks
          \/ locks[t.key] # None /\ EnsureNewLockHolder(t.key, Released(t.key, S, S))
      BY <1>1 DEF Evict
    <2>. QED  BY <2>1, <2>2, ReleaseLimits
  <1>2. CASE ReleaseMember(t)
    <2>. DEFINE R == t.ids \cap HoldersOf(locks[t.key])
    <2>1. t.key \in Keys /\ R \in SUBSET Holders
      BY <1>2, TaskType DEF ReleaseMember
    <2>2. \/ locks' = locks
          \/ locks[t.key] # None /\ EnsureNewLockHolder(t.key, Released(t.key, t.ids, R))
      BY <1>2 DEF ReleaseMember
    <2>. QED  BY <2>1, <2>2, ReleaseLimits
  <1>3. CASE ForcedUnlock(t)
    <2>. DEFINE S == t.ids \cap HoldersOf(locks[t.key])
    <2>1. t.key \in Keys /\ S \in SUBSET Holders
      BY <1>3, TaskType DEF ForcedUnlock, CleaningUp
    <2>2. \/ locks' = locks
          \/ locks[t.key] # None /\ EnsureNewLockHolder(t.key, Released(t.key, S, S))
      BY <1>3 DEF ForcedUnlock
    <2>. QED  BY <2>1, <2>2, ReleaseLimits
  <1>4. CASE ScrubWaiter(t)
    <2>. DEFINE q == Without(locks[t.key].notify, CHOOSE u \in t.ids : TRUE)
    <2>1. t.key \in Keys /\ LocksOK(locks)
      BY <1>4, TaskType, IInvLocks DEF ScrubWaiter, CleaningUp
    <2>2. \A j \in Keys : locks'[j] = IF j = t.key /\ locks[j] # None
                                      THEN [locks[j] EXCEPT !.notify =
                                              Without(@, CHOOSE u \in t.ids : TRUE)]
                                      ELSE locks[j]
      BY <1>4 DEF ScrubWaiter
    <2>3. \A j \in Keys : locks[j] # None => locks[j] \in LockObj
      BY <2>1 DEF LocksOK, HomeLock
    <2>. QED  BY <2>2, <2>3 DEF LimitsOK, Fits, LockObj
  <1>5. CASE ForgetComposite(t) \/ VisitKey(t) \/ VisitAbsentKey(t) \/ EndCleanup(t)
    BY <1>5 DEF ForgetComposite, VisitKey, VisitAbsentKey, EndCleanup
  <1>. QED  BY <1>1, <1>2, <1>3, <1>4, <1>5

LEMMA ReelectionLimits ==
  ASSUME NEW A, IInv, LimitsOK(A, locks), NEW k \in Keys, Reelection(k)
  PROVE  LimitsOK(A, locks')
PROOF
  <1>1. CASE locks[k] = None
    BY <1>1 DEF Reelection
  <1>2. CASE locks[k] # None
    <2>1. locks[k] \in LockObj /\ LocksOK(locks)
      BY <1>2, IInvLocks DEF LocksOK, HomeLock
    <2>2. PICK q : locks' = [locks EXCEPT ![k].lockholders[timeouts[k].id] = NoHold,
                                          ![k].notify = q]
      BY <1>2 DEF Reelection
    <2>. DEFINE l == [locks[k] EXCEPT !.lockholders =
                        [locks[k].lockholders EXCEPT ![timeouts[k].id] = NoHold],
                                      !.notify = q]
    <2>3. locks' = [locks EXCEPT ![k] = l]
      BY <2>2
    <2>4. Fits(A[k], l)
      BY <1>2, <2>1 DEF LimitsOK, Fits, LockObj
    <2>. HIDE DEF l
    <2>5. LimitsOK(A, [locks EXCEPT ![k] = l])
      BY <2>1, <2>4, UpdateLimits
    <2>. QED  BY <2>3, <2>5
  <1>. QED  BY <1>1, <1>2

(* The limits stay what the calls ask for.                                 *)
LEMMA LimitsStep ==
  ASSUME NEW A, Asks(A), IInv, LimitsOK(A, locks), Next
  PROVE  LimitsOK(A, locks')
PROOF
  <1>1. CASE Restart
    BY <1>1 DEF Restart, LimitsOK
  <1>2. CASE CalmNext
    BY <1>2, LockFrameLimits, UnlockFrameLimits, OtherFrameLimits, GrantingLimits,
       DrainLimits, WorkLimits
    DEF CalmNext, Frames, Internal
  <1>3. CASE Reelections
    BY <1>3, ReelectionLimits DEF Reelections
  <1>. QED  BY <1>1, <1>2, <1>3 DEF Next

-----------------------------------------------------------------------------
(* FencedLock.                                                             *)

\* The slot that a grant in progress was promised is still free.
SlotInv ==
  GrantingPlain => LET k == Req[granting.id].key
                   IN  Cardinality(Holds(locks, k)) < locks[k].max

\* The invariant, and what each conjunct of it rests on.
SlotsInv(A) == HInv /\ LimitsOK(A, locks) /\ SlotInv

(* A grant begins with a free slot.                                        *)
LEMMA SlotStep ==
  ASSUME NEW A, Asks(A), SlotsInv(A), Next
  PROVE  SlotInv'
PROOF
  <1>. SUFFICES ASSUME granting' # None, granting'.id \in Uuids
                PROVE  LET k == Req[granting'.id].key
                       IN  Cardinality(Holds(locks', k)) < locks'[k].max
    BY DEF SlotInv, GrantingPlain
  <1>. USE DEF SlotsInv, HInv
  <1>1. IInv' /\ LocksOK(locks)
    BY NextStep, IInvLocks DEF StepOK, IInv
  <1>2. granting = None
    BY GrantGoesOn, NameAssumption
  <1>3. ASSUME NEW u \in Uuids, NEW ws \in Sockets, LockOnNewKey(u, ws)
        PROVE  /\ granting'.id = u
               /\ Cardinality(Holds(locks', Req[u].key)) < locks'[Req[u].key].max
    <2>. DEFINE k == Req[u].key
    <2>1. k \in Keys /\ locks[k] = None /\ granting'.id = u
      BY <1>3, RequestType DEF LockOnNewKey, Begin
    <2>2. Holds(locks', k) = {}
      BY <1>3, <2>1, LockOnNewKeyEffect DEF HoldsKept, Holds
    <2>3. locks'[k] \in LockObj
      BY <1>1, <2>1 DEF IInv, FenceInv, LockInHand, Present, TypeOK
    <2>4. locks'[k].max \in Nat \ {0}
      BY <2>3 DEF LockObj
    <2>5. Cardinality(Holds(locks', k)) = 0
      BY <2>2, FS_EmptySet
    <2>. QED  BY <2>1, <2>4, <2>5
  <1>4. ASSUME NEW u \in Uuids, NEW ws \in Sockets, LockOnFreeKey(u, ws)
        PROVE  /\ granting'.id = u
               /\ Cardinality(Holds(locks', Req[u].key)) < locks'[Req[u].key].max
    <2>. DEFINE k == Req[u].key
    <2>1. /\ k \in Keys /\ locks[k] # None /\ granting'.id = u
          /\ ~IsFull(Touched(u)[k], u)
      BY <1>4, RequestType DEF LockOnFreeKey, Begin
    <2>2. Count(Touched(u)[k]) < Touched(u)[k].max
      <3>. DEFINE t == Touched(u)[k]
      <3>1. t \in LockObj /\ t # None
        BY <1>1, <2>1, TouchedOK, NullAssumption DEF LocksOK, HomeLock
      <3>2. IsFiniteSet(HoldersOf(t))
        BY <2>1, <3>1, TouchedFew DEF Holds
      <3>. HIDE DEF t
      <3>3. Count(t) \in Nat /\ t.max \in Nat
        BY <3>1, <3>2, FS_CardinalityType DEF Count, LockObj
      <3>4. IsFull(t, u) <=> Count(t) >= t.max
        BY DEF IsFull, Asks, NoReaders
      <3>. QED  BY <2>1, <3>3, <3>4 DEF t
    <2>3. PICK L \in CleanUpLocks(Touched(u)) :
            locks' = [L EXCEPT ![k] = CountReader(L[k], u)]
      BY <1>4 DEF LockOnFreeKey
    <2>4. LocksOK(Touched(u)) /\ k \notin Collectable(Touched(u)) /\ Touched(u)[k] # None
      BY <1>1, <2>1, TouchedOK
    <2>5. L[k] = Touched(u)[k]
      BY <2>1, <2>3, <2>4 DEF CleanUpLocks
    <2>6. L[k] \in LockObj /\ LocksOK(L)
      BY <2>1, <2>3, <2>4, <2>5, TouchedCollected DEF LocksOK, HomeLock
    <2>7. CountReader(L[k], u).max = L[k].max
      BY <2>6 DEF CountReader, LockObj
    <2>8. locks'[k].max = L[k].max
      BY <2>1, <2>3, <2>6, <2>7 DEF LocksOK
    <2>9. Holds(locks', k) = Holds(locks, k) /\ Holds(locks, k) = Holds(Touched(u), k)
      BY <1>1, <1>4, <2>1, LockOnFreeKeyEffect, TouchedView DEF HoldsKept, SameView
    <2>. QED  BY <2>1, <2>2, <2>4, <2>5, <2>8, <2>9 DEF Holds, Count
  <1>5. ASSUME NEW k \in Keys, DequeueWaiter(k)
        PROVE  /\ Req[granting'.id].key = k
               /\ Cardinality(Holds(locks', k)) < locks'[k].max
    <2>1. locks[k] # None /\ locks[k] \in LockObj /\ Fits(A[k], locks[k])
      BY <1>1, <1>5
      DEF DequeueWaiter, Draining, IInv, FenceInv, LockInHand, Present, LocksOK, HomeLock,
          LimitsOK
    <2>2. Count(locks[k]) < locks[k].max
      BY <1>5, <2>1 DEF DequeueWaiter, Capacity, Fits
    <2>3. PICK q : locks' = [locks EXCEPT ![k].notify = q]
      BY <1>5 DEF DequeueWaiter
    <2>4. locks'[k].max = locks[k].max
      BY <1>1, <2>1, <2>3 DEF LocksOK, LockObj
    <2>5. Holds(locks', k) = Holds(locks, k) /\ Holds(locks, k) = HoldersOf(locks[k])
      BY <1>5, <2>1, DequeueWaiterEffect DEF HoldsKept, Holds
    <2>6. Req[granting'.id].key = k
      <3>1. PICK i \in 1..Len(Line(locks, k)) : granting'.id = Line(locks, k)[i].id
        BY <1>5, DequeueWaiterEffect
      <3>2. Line(locks, k) \in HomeQueue(k)
        BY <1>5, DequeueWaiterEffect
      <3>. QED  BY <3>1, <3>2, HomeQueueElim
    <2>. QED  BY <2>2, <2>4, <2>5, <2>6 DEF Count
  <1>6. ASSUME NEW m \in ManyIds, AcquireMany(m)
        PROVE  granting'.id = m
    BY <1>6, <1>2 DEF AcquireMany, Begin
  <1>. QED  BY <1>2, <1>3, <1>4, <1>5, <1>6, GrantBegins, NameAssumption

(* No call asks for more slots than some number, as in any program whose   *)
(* numbers are finite.  Then a key has a largest limit.                    *)
Bounded == \A k \in Keys : \E n \in Nat : \A m \in Limits(k) : m <= n

LEMMA MaxLimitBounds ==
  ASSUME Bounded, NEW k \in Keys
  PROVE  MaxLimit(k) \in Nat /\ \A m \in Limits(k) : m <= MaxLimit(k)
PROOF
  <1>. DEFINE Less == {ss \in Nat \X Nat : ss[1] < ss[2]}
              Bounds == {n \in Nat : \A m \in Limits(k) : m <= n}
  <1>1. IsWellFoundedOn(Less, Nat)
    BY NatLessThanWellFounded DEF OpToRel
  <1>2. Limits(k) \subseteq Nat /\ 1 \in Limits(k)
    BY RequestAssumption DEF Limits, LockRequest
  <1>3. Bounds \subseteq Nat /\ Bounds # {}
    BY DEF Bounded
  <1>. HIDE DEF Less
  <1>4. PICK n \in Bounds : \A b \in Bounds : ~ (<<b, n>> \in Less)
    BY <1>1, <1>3, WFMin
  <1>5. n \in Limits(k)
    <2>. SUFFICES ASSUME n \notin Limits(k)  PROVE FALSE
      OBVIOUS
    <2>1. n - 1 \in Nat /\ \A m \in Limits(k) : m <= n - 1
      BY <1>2
    <2>2. n - 1 \in Bounds /\ n \in Nat
      BY <2>1
    <2>3. <<n - 1, n>> \in Less
      BY <2>1, <2>2 DEF Less
    <2>. QED  BY <1>4, <2>2, <2>3
  <1>6. \A m \in Limits(k) : m <= n
    OBVIOUS
  <1>. QED  BY <1>2, <1>5, <1>6 DEF MaxLimit

(* A step that grants nothing only ends grants.                            *)
LEMMA EndMaps ==
  ASSUME lastToken' = lastToken,
         \A k \in Keys, h \in Holders : Token(k, h)' \in {0, Token(k, h)}
  PROVE  Abstractly!End
PROOF
  <1>. DEFINE over == {p \in Keys \X Holders : Token(p[1], p[2])' = 0}
  <1>1. over \in SUBSET (Keys \X Holders)
    OBVIOUS
  <1>2. \A k \in Keys, h \in Holders :
          Token(k, h)' = IF <<k, h>> \in over THEN 0 ELSE Token(k, h)
    OBVIOUS
  <1>3. [k \in Keys |-> [h \in Holders |-> Token(k, h)']]
          = [k \in Keys |-> [h \in Holders |->
               IF <<k, h>> \in over THEN 0
               ELSE [j \in Keys |-> [g \in Holders |-> Token(j, g)]][k][h]]]
    BY <1>2
  <1>. HIDE DEF over
  <1>. QED  BY <1>1, <1>3 DEF Abstractly!End

(* A grant into a free slot is a grant of the abstract lock.               *)
LEMMA GrantMaps ==
  ASSUME IInv, FewHold, Bounded, NEW k \in Keys, NEW h \in Holders, NEW ws \in Sockets,
         locks[k] # None, Install(k, h, ws), LimitsOK([j \in Keys |-> Limits(j)], locks),
         Cardinality(Holds(locks, k)) < locks[k].max
  PROVE  Abstractly!Grant(k, h)
PROOF
  <1>1. /\ NextToken(k) \in 0..MaxToken
        /\ \A j \in Keys : lastToken'[j] = IF j = k THEN NextToken(k) ELSE lastToken[j]
        /\ \A j \in Keys, g \in Holders :
             Token(j, g)' = IF j = k /\ g = h THEN NextToken(k) ELSE Token(j, g)
        /\ lastToken[k] < NextToken(k)
    BY InstallTypes, InstallTokens
  <1>2. /\ lastToken \in [Keys -> Nat] /\ lastToken' \in [Keys -> 0..MaxToken]
        /\ MaxToken \in Nat /\ locks[k] \in LockObj
    BY InstallTypes, NumberAssumption DEF IInv, TypeOK
  <1>3. NextToken(k) \in (lastToken[k] + 1)..MaxToken
    BY <1>1, <1>2
  <1>4. lastToken' = [lastToken EXCEPT ![k] = NextToken(k)]
    BY DEF Install
  <1>5. [j \in Keys |-> [g \in Holders |-> Token(j, g)']]
          = [[j \in Keys |-> [g \in Holders |-> Token(j, g)]]
               EXCEPT ![k][h] = NextToken(k)]
    BY <1>1
  <1>. DEFINE H == {g \in Holders \ {h} :
                      [j \in Keys |-> [f \in Holders |-> Token(j, f)]][k][g] # 0}
  <1>6. H \in SUBSET Holds(locks, k)
    BY DEF Token, Present, Holds, HoldersOf, Holding
  <1>7. /\ Cardinality(H) <= Cardinality(Holds(locks, k))
        /\ Cardinality(H) \in Nat /\ Cardinality(Holds(locks, k)) \in Nat
    BY <1>6, FS_Subset, FS_CardinalityType DEF FewHold
  <1>8. locks[k].max <= MaxLimit(k) /\ MaxLimit(k) \in Nat /\ locks[k].max \in Nat
    BY <1>2, MaxLimitBounds DEF LimitsOK, Fits, LockObj
  <1>9. Cardinality(H) < [j \in Keys |-> MaxLimit(j)][k]
    BY <1>7, <1>8
  <1>10. Abstractly!Cardinality(H) = Cardinality(H)
    BY DEF Abstractly!Cardinality, Cardinality
  <1>. QED  BY <1>3, <1>4, <1>5, <1>9, <1>10 DEF Abstractly!Grant

(* Only a grant moves the last token of a key.                             *)
LEMMA SameLastToken ==
  ASSUME Next, Restart => Durable, ~GrantLock, ~ManyGrantsKey
  PROVE  lastToken' = lastToken
PROOF
  <1>1. CASE LockFrame
    BY <1>1 DEF LockFrame, LockRefused, LockOnNewKey, LockOnNewKeyFails, LockOnFreeKey,
                LockOnFullKey, LockAccepted
  <1>2. CASE ManyFrame \/ OtherFrame \/ TickTtl \/ Connections \/ Reelections
    BY <1>2 DEF ManyFrame, AcquireMany, ReleaseMany, OtherFrame, LockReceived,
                LockClientTimeout, LockReceivedRejected, TickTtl, Connections,
                BreakConnection, SocketEnds, VersionMismatch, CleanupConnection,
                Reelections, Reelection
  <1>3. CASE UnlockFrame
    <2>. PICK k \in Keys, ws \in Sockets :
           \/ UnlockEveryone(k, ws)
           \/ \E u \in CallsOn(k) \cup {None} :
                \/ UnlockUnknownKey(k, u, ws) \/ UnlockHolder(k, u, ws) \/ UnlockLate(k, u, ws)
                \/ \E force \in BOOLEAN : UnlockRejected(k, u, ws, force)
      BY <1>3 DEF UnlockFrame
    <2>. QED  BY DEF UnlockEveryone, UnlockUnknownKey, UnlockHolder, UnlockLate,
                     UnlockRejected, Unlocking
  <1>4. CASE Granting \/ Drain
    BY <1>4 DEF Granting, GrantLockFails, ManyCreatesLock, ManyIsContended, ManyRegisters,
                ManyFails, Drain, DrainStops, DequeueWaiter
  <1>5. CASE WorkStep
    <2>. PICK t \in work :
           \/ Evict(t) \/ ReleaseMember(t) \/ ForgetComposite(t) \/ VisitKey(t)
           \/ VisitAbsentKey(t) \/ ScrubWaiter(t) \/ ForcedUnlock(t) \/ EndCleanup(t)
      BY <1>5 DEF WorkStep
    <2>. QED  BY DEF Evict, ReleaseMember, ForgetComposite, VisitKey, VisitAbsentKey,
                     ScrubWaiter, ForcedUnlock, EndCleanup, CleaningUp
  <1>6. CASE Restart
    BY <1>6 DEF Restart
  <1>. QED  BY <1>1, <1>2, <1>3, <1>4, <1>5, <1>6 DEF Next, CalmNext, Frames, Internal

(* Every step of the broker but the death of one that is not durable.      *)
LEMMA StepMaps ==
  ASSUME NoReaders, Bounded, SlotsInv([j \in Keys |-> Limits(j)]), Next,
         Restart => Durable
  PROVE  Abstractly!Next
PROOF
  <1>. USE DEF SlotsInv, HInv
  <1>1. CASE GrantLock
    <2>. DEFINE k == Req[granting.id].key
    <2>1. /\ granting.id \in Uuids /\ granting.id \in Holders /\ granting.ws \in Sockets
          /\ k \in Keys /\ locks[k] # None /\ Install(k, granting.id, granting.ws)
          /\ GrantingPlain
      BY <1>1, GrantingType DEF GrantLock, GrantingPlain
    <2>2. Cardinality(Holds(locks, k)) < locks[k].max
      BY <2>1 DEF SlotInv
    <2>. HIDE DEF k
    <2>3. Abstractly!Grant(k, granting.id)
      BY <2>1, <2>2, GrantMaps
    <2>. QED  BY <2>1, <2>3 DEF Abstractly!Next
  <1>2. CASE ManyGrantsKey
    <2>1. /\ granting.id \in Holders /\ granting.ws \in Sockets
          /\ ManyKey \in Keys /\ locks[ManyKey] # None
          /\ Install(ManyKey, granting.id, granting.ws)
      BY <1>2, GrantingType DEF ManyGrantsKey, GrantingMany
    <2>2. Cardinality(Holds(locks, ManyKey)) < locks[ManyKey].max
      BY <1>2, <2>1 DEF ManyGrantsKey, Count, Holds
    <2>3. Abstractly!Grant(ManyKey, granting.id)
      BY <2>1, <2>2, GrantMaps
    <2>. QED  BY <2>1, <2>3 DEF Abstractly!Next
  <1>3. CASE ~GrantLock /\ ~ManyGrantsKey
    <2>1. lastToken' = lastToken
      BY <1>3, SameLastToken
    <2>2. GrantIsNewer
      BY NextStep DEF StepOK
    <2>3. ASSUME NEW k \in Keys, NEW h \in Holders
          PROVE  Token(k, h)' \in {0, Token(k, h)}
      <3>. SUFFICES ASSUME Token(k, h)' \notin {0, Token(k, h)}  PROVE FALSE
        OBVIOUS
      <3>1. lastToken'[k] > lastToken[k]
        BY <2>2 DEF GrantIsNewer
      <3>2. lastToken[k] \in Nat
        BY NumberAssumption DEF IInv, TypeOK
      <3>. QED  BY <2>1, <3>1, <3>2
    <2>. QED  BY <2>1, <2>3, EndMaps DEF Abstractly!Next
  <1>. QED  BY <1>1, <1>2, <1>3

\* What the calls may give a key.
AskedLimits == [k \in Keys |-> Limits(k)]

LEMMA AsksAskedLimits ==
  ASSUME NoReaders
  PROVE  Asks(AskedLimits)
PROOF
  <1>1. \A u \in Uuids : Req[u].key \in Keys /\ Req[u].max \in Limits(Req[u].key)
    BY RequestType DEF Limits
  <1>2. \A m \in ManyIds : \A i \in 1..Len(ManyReq[m].keys) : ManyReq[m].keys[i] \in Keys
    BY RequestType
  <1>3. \A k : 1 \in Limits(k)
    BY DEF Limits
  <1>. QED  BY <1>1, <1>2, <1>3 DEF Asks, AskedLimits

LEMMA InitSlotsInv ==
  ASSUME NEW A, Init
  PROVE  SlotsInv(A)
PROOF
  <1>1. HInv
    BY InitHInv
  <1>2. LimitsOK(A, locks) /\ SlotInv
    BY DEF Init, LimitsOK, SlotInv, GrantingPlain
  <1>. QED  BY <1>1, <1>2 DEF SlotsInv

LEMMA SlotsInvStep ==
  ASSUME NEW A, Asks(A), SlotsInv(A), [Next]_vars
  PROVE  SlotsInv(A)'
PROOF
  <1>1. CASE Next
    <2>1. HInv' /\ LimitsOK(A, locks')
      BY <1>1, HInvStep, LimitsStep DEF SlotsInv, HInv
    <2>2. SlotInv'
      BY <1>1, SlotStep
    <2>. QED  BY <2>1, <2>2 DEF SlotsInv
  <1>2. CASE UNCHANGED vars
    <2>1. HInv'
      BY <1>2, StutterHInv DEF SlotsInv
    <2>2. LimitsOK(A, locks') /\ SlotInv'
      BY <1>2 DEF vars, stack, SlotsInv, SlotInv, GrantingPlain
    <2>. QED  BY <2>1, <2>2 DEF SlotsInv
  <1>. QED  BY <1>1, <1>2

(* On keys without readers Broker1 implements FencedLock, for any number   *)
(* of keys, calls, composites, sockets, slots and tokens: no history of    *)
(* locks, queues, roll-backs, sweeps, collections of lock objects, disk    *)
(* faults and restarts admits one holder too many or repeats a fence.  The *)
(* one step that cannot be the abstract lock's is the restart of a broker  *)
(* without a state file, which forgets what it granted.                    *)
THEOREM BrokerImplementsFencedLock ==
  ASSUME NoReaders, Bounded
  PROVE  Spec /\ [][Restart => Durable]_vars => ImplementsFencedLock
PROOF
  <1>1. Init => SlotsInv(AskedLimits)
    BY InitSlotsInv
  <1>2. SlotsInv(AskedLimits) /\ [Next]_vars => SlotsInv(AskedLimits)'
    BY AsksAskedLimits, SlotsInvStep
  <1>3. Init => Abstractly!Init
    BY DEF Init, Abstractly!Init, Abstractly!Free, Token, Present
  <1>4. SlotsInv(AskedLimits) /\ [Next]_vars /\ [Restart => Durable]_vars
          => [Abstractly!Next]_(Abstractly!lockVars)
    <2>1. ASSUME SlotsInv(AskedLimits), Next, Restart => Durable
          PROVE  Abstractly!Next
      BY <2>1, StepMaps DEF AskedLimits
    <2>2. ASSUME UNCHANGED vars
          PROVE  UNCHANGED Abstractly!lockVars
      BY <2>2 DEF vars, Abstractly!lockVars, Token, Present
    <2>. QED  BY <2>1, <2>2
  <1>. QED  BY <1>1, <1>2, <1>3, <1>4, PTL DEF Spec, ImplementsFencedLock, Abstractly!Spec

-----------------------------------------------------------------------------
(* Mutexes: keys of one slot.                                              *)

Mutexes == \A u \in Uuids : Req[u].max \in {0, 1}
Ones == [k \in Keys |-> {1}]

LEMMA MutexesAskOne ==
  ASSUME NoReaders, Mutexes
  PROVE  Asks(Ones)
PROOF
  <1>1. \A u \in Uuids : (IF Req[u].max # 0 THEN Req[u].max ELSE 1) \in Ones[Req[u].key]
    BY RequestType DEF Mutexes, Ones
  <1>2. \A m \in ManyIds : \A i \in 1..Len(ManyReq[m].keys) : 1 \in Ones[ManyReq[m].keys[i]]
    BY RequestType DEF Ones
  <1>. QED  BY <1>1, <1>2 DEF Asks

(* A slot is free on a key that nobody holds.                              *)
LEMMA FreeKey ==
  ASSUME SlotsInv(Ones), NEW k \in Keys, locks[k] # None,
         Cardinality(Holds(locks, k)) < locks[k].max
  PROVE  Holds(locks, k) = {}
PROOF
  <1>1. locks[k].max = 1
    BY DEF SlotsInv, LimitsOK, Fits, Ones
  <1>2. IsFiniteSet(Holds(locks, k))
    BY DEF SlotsInv, HInv, FewHold
  <1>3. Cardinality(Holds(locks, k)) \in Nat
    BY <1>2, FS_CardinalityType
  <1>4. Cardinality(Holds(locks, k)) = 0
    BY <1>1, <1>3
  <1>. QED  BY <1>2, <1>4, FS_EmptySet

LEMMA GrantFindsNobody ==
  ASSUME SlotsInv(Ones), GrantLock
  PROVE  /\ granting.id \in Uuids /\ Req[granting.id].key \in Keys
         /\ Holds(locks, Req[granting.id].key) = {}
         /\ granting.id \in Holds(locks', Req[granting.id].key)
         /\ lastToken[Req[granting.id].key] < NextToken(Req[granting.id].key)
         /\ lastToken'[Req[granting.id].key] = NextToken(Req[granting.id].key)
PROOF
  <1>. DEFINE k == Req[granting.id].key
  <1>. IInv
    BY DEF SlotsInv, HInv
  <1>1. /\ granting.id \in Uuids /\ granting.id \in Holders /\ granting.ws \in Sockets
        /\ k \in Keys /\ locks[k] # None
        /\ Install(k, granting.id, granting.ws) /\ HoldsGain(k, granting.id)
    BY GrantLockEffect, GrantingType DEF GrantLock, GrantingPlain
  <1>2. Cardinality(Holds(locks, k)) < locks[k].max
    BY <1>1 DEF SlotsInv, SlotInv, GrantLock
  <1>3. Holds(locks, k) = {}
    BY <1>1, <1>2, FreeKey
  <1>4. lastToken[k] < NextToken(k) /\ lastToken'[k] = NextToken(k)
    BY <1>1, InstallTokens
  <1>5. granting.id \in Holds(locks', k)
    BY <1>1 DEF HoldsGain
  <1>. QED  BY <1>1, <1>3, <1>4, <1>5

\* Two holders of a key are one.
OneHolder == \A k \in Keys : \A g, h \in Holds(locks, k) : g = h

(* A hold is added to a free key only.                                     *)
LEMMA OneHolderStep ==
  ASSUME SlotsInv(Ones), OneHolder, Next
  PROVE  OneHolder'
PROOF
  <1>. IInv
    BY DEF SlotsInv, HInv
  <1>1. ASSUME \A k \in Keys : Holds(locks', k) \subseteq Holds(locks, k)
        PROVE  OneHolder'
    BY <1>1 DEF OneHolder
  <1>2. ASSUME NEW k \in Keys, NEW h, Holds(locks, k) = {}, HoldsGain(k, h)
        PROVE  OneHolder'
    BY <1>2 DEF OneHolder, HoldsGain
  <1>3. CASE GrantLock
    BY <1>2, <1>3, GrantFindsNobody, GrantLockEffect
  <1>4. CASE ManyGrantsKey
    <2>1. ManyKey \in Keys /\ locks[ManyKey] # None /\ HoldsGain(ManyKey, granting.id)
      BY <1>4, ManyGrantsKeyEffect DEF ManyGrantsKey
    <2>2. Cardinality(Holds(locks, ManyKey)) < locks[ManyKey].max
      BY <1>4, <2>1 DEF ManyGrantsKey, Holds, Count
    <2>. QED  BY <1>2, <2>1, <2>2, FreeKey
  <1>5. CASE ~GrantLock /\ ~ManyGrantsKey
    BY <1>1, <1>5, HoldsMove
  <1>. QED  BY <1>3, <1>4, <1>5

-----------------------------------------------------------------------------
(* NoStrandedWaiter.                                                       *)
(*                                                                         *)
(* In the middle of a handler a live waiter may face a free slot: the      *)
(* drain loop has its key in hand.  A composite that is rolled back frees  *)
(* slots and drains nothing, so nobody may wait for a key it has walked.   *)

\* S[k] is the number of slots that every call for key k asks for.
Same(S) == [k \in Keys |-> {S[k]}]
FixedSlots == \E S \in [Keys -> Nat] : Asks(Same(S))

Live(k)    == \E i \in 1..Len(Line(locks, k)) : Line(locks, k)[i].ws \in writable
Full(S, k) == Cardinality(Holds(locks, k)) >= S[k]
Walked(k)  == GrantingMany /\ k \in WalkedSoFar

Attended(S, k) == Live(k) => drain = k \/ (Full(S, k) /\ ~Walked(k))
StrandInv(S) == HasHeadroom(MaxCompositeKeys) => \A k \in Keys : Attended(S, k)

\* The invariant it is proved with, and what is known of S, clock and disk.
StrandedInv(S) == WInv /\ LimitsOK(Same(S), locks) /\ StrandInv(S)
Steady(S) == /\ S \in [Keys -> Nat] /\ Asks(Same(S))
             /\ ~DiskFaults /\ Clock \subseteq 0..MaxToken

(* A key is still served after a step that brings it no waiter and takes   *)
(* away no holder.                                                         *)
LEMMA ServedKept ==
  ASSUME NEW S, Steady(S), NEW k \in Keys, Attended(S, k), IsFiniteSet(Holds(locks', k)),
         Live(k)' => Live(k), Holds(locks, k) \subseteq Holds(locks', k),
         drain = k => drain' = k, Walked(k)' => Walked(k)
  PROVE  Attended(S, k)'
PROOF
  <1>1. /\ Cardinality(Holds(locks, k)) <= Cardinality(Holds(locks', k))
        /\ Cardinality(Holds(locks, k)) \in Nat /\ Cardinality(Holds(locks', k)) \in Nat
    BY FS_Subset, FS_CardinalityType
  <1>2. S[k] \in Nat
    BY DEF Steady
  <1>3. Full(S, k) => Full(S, k)'
    BY <1>1, <1>2 DEF Full
  <1>. QED  BY <1>3 DEF Attended

(* The watermark only grows, so headroom that is there was there before.   *)
LEMMA HeadroomBefore ==
  ASSUME watermark \in Nat, watermark' \in Nat, watermark <= watermark',
         HasHeadroom(MaxCompositeKeys)'
  PROVE  HasHeadroom(MaxCompositeKeys)
PROOF
  <1>1. ASSUME NEW b \in Nat, NEW a \in Nat, b <= a, a + MaxCompositeKeys <= MaxToken
        PROVE  b + MaxCompositeKeys <= MaxToken
    BY <1>1, NumberAssumption
  <1>2. watermark' + MaxCompositeKeys <= MaxToken
    BY Zenon DEF HasHeadroom
  <1>3. watermark + MaxCompositeKeys <= MaxToken
    BY <1>1, <1>2, Zenon
  <1>4. MaxCompositeKeys <= MaxCompositeKeys
    BY NumberAssumption
  <1>. QED  BY <1>3, <1>4, Zenon DEF HasHeadroom

(* Most steps serve every key as before.                                   *)
LEMMA QuietStep ==
  ASSUME NEW S, Steady(S), StrandedInv(S), IInv', FewHold', watermark <= watermark',
         drain' = drain,
         \A k \in Keys : /\ Live(k)' => Live(k)
                         /\ Holds(locks, k) \subseteq Holds(locks', k)
                         /\ Walked(k)' => Walked(k)
  PROVE  StrandInv(S)'
PROOF
  <1>1. watermark \in Nat /\ watermark' \in Nat
    BY NumberAssumption DEF StrandedInv, WInv, HInv, IInv, TypeOK
  <1>. SUFFICES ASSUME HasHeadroom(MaxCompositeKeys)', NEW k \in Keys
                PROVE  Attended(S, k)'
    BY DEF StrandInv
  <1>2. Attended(S, k)
    BY <1>1, HeadroomBefore DEF StrandedInv, StrandInv
  <1>. QED  BY <1>2, ServedKept DEF FewHold

\* What ensureNewLockHolder leaves on key k.
Ensured(k) ==
  /\ drain' \in {k, None}
  /\ ~HasHeadroom(MaxCompositeKeys)' \/ drain' = k \/ Line(locks', k) = <<>>

LEMMA EnsureServes ==
  ASSUME NEW L, LocksOK(L), NEW k \in Keys, L[k] # None, EnsureNewLockHolder(k, L),
         watermark' = watermark
  PROVE  Ensured(k)
PROOF
  <1>1. HasHeadroom(MaxCompositeKeys)' <=> HasHeadroom(MaxCompositeKeys)
    BY Zenon DEF HasHeadroom
  <1>2. SameView(L, locks')
    BY EnsureView
  <1>3. CASE ~HasHeadroom(MaxCompositeKeys)
    BY <1>1, <1>3 DEF EnsureNewLockHolder, Ensured
  <1>4. CASE HasHeadroom(MaxCompositeKeys) /\ L[k].notify = <<>> /\ drain' = None
    BY <1>2, <1>4 DEF Ensured, SameView, Line
  <1>. QED  BY <1>3, <1>4 DEF EnsureNewLockHolder, Ensured

(* A handler that ends some holds of one key and calls it.                 *)
LEMMA EnsuredStep ==
  ASSUME NEW S, Steady(S), StrandedInv(S), FewHold', NEW k \in Keys,
         drain = None, granting' = None, writable' = writable, watermark' = watermark,
         LinesKept, Ensured(k), \A j \in Keys : j # k => Holds(locks', j) = Holds(locks, j)
  PROVE  StrandInv(S)'
PROOF
  <1>1. HasHeadroom(MaxCompositeKeys)' <=> HasHeadroom(MaxCompositeKeys)
    BY Zenon DEF HasHeadroom
  <1>. SUFFICES ASSUME HasHeadroom(MaxCompositeKeys)', NEW j \in Keys
                PROVE  Attended(S, j)'
    BY DEF StrandInv
  <1>2. Attended(S, j) /\ drain # j /\ ~Walked(j)'
    BY <1>1, NameAssumption DEF StrandedInv, StrandInv, Walked, GrantingMany
  <1>3. Live(j)' => Live(j)
    BY DEF Live, LinesKept
  <1>4. CASE j = k
    BY <1>4 DEF Ensured, Attended, Live
  <1>5. CASE j # k
    BY <1>2, <1>3, <1>5, ServedKept DEF FewHold
  <1>. QED  BY <1>4, <1>5

LEMMA ReleaseStrand ==
  ASSUME NEW S, Steady(S), StrandedInv(S), FewHold', NEW k \in Keys, locks[k] # None,
         drain = None, granting' = None, writable' = writable, watermark' = watermark,
         NEW E, NEW R \in SUBSET Holders, EnsureNewLockHolder(k, Released(k, E, R))
  PROVE  StrandInv(S)'
PROOF
  <1>1. IInv /\ LocksOK(locks)
    BY IInvLocks DEF StrandedInv, WInv, HInv
  <1>2. LocksOK(Released(k, E, R)) /\ Released(k, E, R)[k] # None
    BY <1>1, ReleasedOK
  <1>3. HoldsLose(k, E) /\ LinesKept
    BY <1>1, ReleaseEffect
  <1>4. Ensured(k)
    BY <1>2, EnsureServes
  <1>. QED  BY <1>3, <1>4, EnsuredStep DEF HoldsLose

(* A row, or a queue, or a socket less: still quiet.                       *)
LEMMA QuietView ==
  ASSUME NEW S, Steady(S), StrandedInv(S), IInv', FewHold', HoldsKept, watermark' = watermark,
         drain' = drain, writable' \subseteq writable,
         granting' = None \/ granting'.pos = 1 \/ granting'.id \in Uuids \/ granting' = granting,
         \A k \in Keys : \A i \in 1..Len(Line(locks', k)) :
           \E j \in 1..Len(Line(locks, k)) : Line(locks', k)[i] = Line(locks, k)[j]
  PROVE  StrandInv(S)'
PROOF
  <1>1. watermark <= watermark'
    BY NumberAssumption DEF StrandedInv, WInv, HInv, IInv, TypeOK
  <1>2. ASSUME NEW k \in Keys
        PROVE  (Live(k)' => Live(k)) /\ (Walked(k)' => Walked(k))
    <2>1. Live(k)' => Live(k)
      BY DEF Live
    <2>2. CASE granting' = None \/ granting'.id \in Uuids
      BY <2>1, <2>2, NameAssumption DEF Walked, GrantingMany
    <2>3. CASE granting'.pos = 1
      <3>1. WalkedSoFar' = {}
        BY <2>3 DEF WalkedSoFar
      <3>. QED  BY <2>1, <3>1 DEF Walked
    <2>4. CASE granting' = granting
      <3>1. WalkedSoFar' = WalkedSoFar
        BY <2>4 DEF WalkedSoFar, ManyKeys
      <3>. QED  BY <2>1, <2>4, <3>1 DEF Walked, GrantingMany
    <2>. QED  BY <2>1, <2>2, <2>3, <2>4
  <1>. QED  BY <1>1, <1>2, QuietStep DEF HoldsKept

(* A call that is queued finds its key full.                               *)
LEMMA LockOnFullKeyStrand ==
  ASSUME NEW S, Steady(S), StrandedInv(S), FewHold', NEW u \in Uuids, NEW ws \in Sockets,
         NEW retry \in BOOLEAN, LockOnFullKey(u, ws, retry)
  PROVE  StrandInv(S)'
PROOF
  <1>. USE DEF StrandedInv, WInv, HInv
  <1>. DEFINE k == Req[u].key
              t == Touched(u)[k]
  <1>1. /\ k \in Keys /\ locks[k] # None /\ IsFull(t, u) /\ drain' = None /\ granting' = None
        /\ writable' = writable /\ watermark' = watermark
    BY RequestType
    DEF LockOnFullKey, LockAccepted, Hears, Idle, sockets, authority
  <1>2. /\ HoldsKept
        /\ LinesKept \/ LineIs(k, Enqueue(Line(locks, k), u, ws, retry))
    BY LockOnFullKeyEffect
  <1>3. /\ LocksOK(locks) /\ LocksOK(Touched(u)) /\ t # None
        /\ LimitsOK(Same(S), Touched(u)) /\ SameView(locks, Touched(u))
    BY <1>1, IInvLocks, TouchedOK, TouchedLimits, TouchedView DEF Steady
  <1>4. t.max = S[k]
    BY <1>1, <1>3 DEF LimitsOK, Fits, Same
  <1>5. Count(t) >= t.max
    BY <1>1 DEF IsFull, Steady, Asks, NoReaders
  <1>6. Count(t) = Cardinality(Holds(locks', k))
    BY <1>1, <1>2, <1>3 DEF SameView, HoldsKept, Holds, Count
  <1>7. Full(S, k)'
    BY <1>4, <1>5, <1>6 DEF Full
  <1>8. HasHeadroom(MaxCompositeKeys)' <=> HasHeadroom(MaxCompositeKeys)
    BY <1>1, Zenon DEF HasHeadroom
  <1>. SUFFICES ASSUME HasHeadroom(MaxCompositeKeys)', NEW j \in Keys
                PROVE  Attended(S, j)'
    BY DEF StrandInv
  <1>9. ~Walked(j)' /\ Attended(S, j) /\ drain # j
    BY <1>1, <1>8, NameAssumption
    DEF Walked, GrantingMany, StrandInv, LockOnFullKey, LockAccepted, Hears, Idle
  <1>10. CASE j = k
    BY <1>7, <1>9, <1>10 DEF Attended
  <1>11. CASE j # k
    <2>1. Line(locks', j) = Line(locks, j) /\ Holds(locks', j) = Holds(locks, j)
      BY <1>2, <1>11 DEF LinesKept, LineIs, HoldsKept
    <2>2. Live(j)' => Live(j)
      BY <1>1, <2>1 DEF Live
    <2>. QED  BY <1>9, <2>1, <2>2, ServedKept DEF FewHold
  <1>. QED  BY <1>10, <1>11

LEMMA LockFrameStrand ==
  ASSUME NEW S, Steady(S), StrandedInv(S), IInv', FewHold', LockFrame
  PROVE  StrandInv(S)'
PROOF
  <1>. USE DEF StrandedInv, WInv, HInv
  <1>. PICK u \in Uuids, ws \in Sockets :
         \/ LockRefused(u, ws) \/ LockOnNewKey(u, ws) \/ LockOnNewKeyFails(u, ws)
         \/ LockOnFreeKey(u, ws) \/ \E retry \in BOOLEAN : LockOnFullKey(u, ws, retry)
    BY DEF LockFrame
  <1>1. CASE LockRefused(u, ws)
    <2>1. /\ HoldsKept /\ LinesKept /\ watermark' = watermark /\ drain' = drain
          /\ writable' = writable /\ granting' = granting
      BY <1>1 DEF LockRefused, HoldsKept, LinesKept, authority, sockets, stack
    <2>. QED  BY <2>1, QuietView DEF LinesKept
  <1>2. CASE LockOnNewKeyFails(u, ws)
    <2>1. HoldsKept /\ LinesKept
      BY <1>2, LockOnNewKeyFailsEffect
    <2>2. PICK now \in Clock : AdvanceFails(Seed(now))
      BY <1>2 DEF LockOnNewKeyFails
    <2>3. /\ watermark' = watermark /\ drain' = drain
          /\ writable' = writable /\ granting' = granting
      BY <1>2, <2>2 DEF LockOnNewKeyFails, LockAccepted, AdvanceFails, authority, sockets
    <2>. QED  BY <2>1, <2>3, QuietView DEF LinesKept
  <1>3. CASE LockOnNewKey(u, ws)
    <2>1. HoldsKept /\ LinesKept
      BY <1>3, LockOnNewKeyEffect
    <2>2. PICK now \in Clock : Seed(now) <= MaxToken /\ Advance(Seed(now))
      BY <1>3 DEF LockOnNewKey
    <2>3. Seed(now) \in 0..MaxToken
      BY <2>2, AuthorityAssumption, NumberAssumption DEF Seed, Larger, IInv, TypeOK
    <2>4. watermark <= watermark'
      BY <2>2, <2>3, AdvanceOK
    <2>5. drain' = drain /\ writable' = writable /\ granting'.id = u
      BY <1>3 DEF LockOnNewKey, LockAccepted, sockets, Begin
    <2>6. ASSUME NEW k \in Keys
          PROVE  (Live(k)' => Live(k)) /\ ~Walked(k)'
      BY <2>1, <2>5, NameAssumption DEF Live, LinesKept, Walked, GrantingMany
    <2>. QED  BY <2>1, <2>4, <2>5, <2>6, QuietStep DEF HoldsKept
  <1>4. CASE LockOnFreeKey(u, ws)
    <2>1. HoldsKept /\ LinesKept
      BY <1>4, LockOnFreeKeyEffect
    <2>2. /\ watermark' = watermark /\ drain' = drain /\ writable' = writable
          /\ granting'.id \in Uuids
      BY <1>4 DEF LockOnFreeKey, LockAccepted, authority, sockets, Begin
    <2>. QED  BY <2>1, <2>2, QuietView DEF LinesKept
  <1>. QED  BY <1>1, <1>2, <1>3, <1>4, LockOnFullKeyStrand

LEMMA UnlockFrameStrand ==
  ASSUME NEW S, Steady(S), StrandedInv(S), IInv', FewHold', UnlockFrame
  PROVE  StrandInv(S)'
PROOF
  <1>. USE DEF StrandedInv, WInv, HInv
  <1>. PICK k \in Keys, ws \in Sockets :
         \/ UnlockEveryone(k, ws)
         \/ \E u \in CallsOn(k) \cup {None} :
              \/ UnlockUnknownKey(k, u, ws) \/ UnlockHolder(k, u, ws) \/ UnlockLate(k, u, ws)
              \/ \E force \in BOOLEAN : UnlockRejected(k, u, ws, force)
    BY DEF UnlockFrame
  <1>. DEFINE Frame0 == /\ drain = None /\ granting' = None /\ granting = None
                        /\ writable' = writable /\ watermark' = watermark
  <1>1. ASSUME NEW u, Unlocking(k, u, ws)  PROVE Frame0
    BY <1>1 DEF Unlocking, Hears, Idle, authority, sockets
  <1>2. CASE UnlockEveryone(k, ws)
    <2>1. /\ locks[k] # None /\ Unlocking(k, None, ws)
          /\ EnsureNewLockHolder(k, Released(k, Holders, HoldersOf(locks[k])))
      BY <1>2 DEF UnlockEveryone
    <2>2. HoldersOf(locks[k]) \in SUBSET Holders
      BY DEF HoldersOf
    <2>3. Frame0
      BY <1>1, <2>1
    <2>. QED  BY <2>1, <2>2, <2>3, ReleaseStrand
  <1>3. ASSUME NEW u \in CallsOn(k) \cup {None}, UnlockHolder(k, u, ws)
        PROVE  StrandInv(S)'
    <2>1. /\ locks[k] # None /\ EnsureNewLockHolder(k, Released(k, {u}, {u})) /\ u # None
          /\ Unlocking(k, u, ws)
      BY <1>3 DEF UnlockHolder
    <2>2. {u} \in SUBSET Holders
      BY <2>1 DEF CallsOn, Holders
    <2>3. Frame0
      BY <1>1, <2>1
    <2>. QED  BY <2>1, <2>2, <2>3, ReleaseStrand
  <1>4. ASSUME NEW u, UnlockLate(k, u, ws)
        PROVE  StrandInv(S)'
    <2>. DEFINE l == [locks[k] EXCEPT !.released = locks[k].released \ {u}]
    <2>1. LocksOK(locks) /\ locks[k] # None /\ locks[k] \in HomeLock(k)
      BY <1>4, IInvLocks DEF UnlockLate, LocksOK
    <2>2. l \in HomeLock(k)
      BY <2>1 DEF HomeLock, LockObj
    <2>3. EnsureNewLockHolder(k, [locks EXCEPT ![k] = l]) /\ Unlocking(k, u, ws)
      BY <1>4 DEF UnlockLate
    <2>. HIDE DEF l
    <2>4. LocksOK([locks EXCEPT ![k] = l]) /\ [locks EXCEPT ![k] = l][k] # None
      BY <2>1, <2>2, UpdateOK
    <2>5. Frame0
      BY <1>1, <2>3
    <2>6. Ensured(k)
      BY <2>3, <2>4, <2>5, EnsureServes
    <2>7. HoldsKept /\ LinesKept
      BY <1>4, UnlockLateEffect
    <2>. QED  BY <2>5, <2>6, <2>7, EnsuredStep DEF HoldsKept
  <1>5. ASSUME NEW u, UnlockUnknownKey(k, u, ws) \/ \E force \in BOOLEAN :
                         UnlockRejected(k, u, ws, force)
        PROVE  StrandInv(S)'
    <2>1. /\ Unlocking(k, u, ws) /\ HoldsKept /\ LinesKept /\ drain' = drain
      BY <1>5 DEF UnlockUnknownKey, UnlockRejected, HoldsKept, LinesKept
    <2>2. Frame0
      BY <1>1, <2>1
    <2>. QED  BY <2>1, <2>2, QuietView DEF LinesKept
  <1>. QED  BY <1>2, <1>3, <1>4, <1>5

(* What is left of a queue after remove().                                 *)
LEMMA WithoutQuiet ==
  ASSUME NEW S, Steady(S), StrandedInv(S), IInv', FewHold', HoldsKept,
         watermark' = watermark, drain' = drain, writable' \subseteq writable,
         granting' = granting, NEW k \in Keys, NEW id,
         LineIs(k, Without(Line(locks, k), id))
  PROVE  StrandInv(S)'
PROOF
  <1>1. Line(locks, k) \in Seq(Waiter) /\ Unrepeated(Line(locks, k))
    BY LineType DEF StrandedInv, WInv, HInv, LineInv
  <1>. DEFINE q == Without(Line(locks, k), id)
  <1>2. \A i \in 1..Len(q) : \E j \in 1..Len(Line(locks, k)) : q[i] = Line(locks, k)[j]
    BY <1>1, WithoutIds
  <1>. HIDE DEF q
  <1>3. \A n \in Keys : Line(locks', n) = IF n = k THEN q ELSE Line(locks, n)
    BY DEF LineIs, q
  <1>4. \A n \in Keys : \A i \in 1..Len(Line(locks', n)) :
          \E j \in 1..Len(Line(locks, n)) : Line(locks', n)[i] = Line(locks, n)[j]
    BY <1>2, <1>3
  <1>. QED  BY <1>4, QuietView

LEMMA OtherFrameStrand ==
  ASSUME NEW S, Steady(S), StrandedInv(S), IInv', FewHold', OtherFrame
  PROVE  StrandInv(S)'
PROOF
  <1>. USE DEF StrandedInv, WInv, HInv
  <1>. PICK ws \in Sockets :
         \/ \E k \in Keys : LockReceived(k, ws)
         \/ \E u \in Uuids : LockClientTimeout(u, ws) \/ LockReceivedRejected(u, ws)
    BY DEF OtherFrame
  <1>1. ASSUME NEW k \in Keys, LockReceived(k, ws)
        PROVE  StrandInv(S)'
    <2>1. /\ HoldsKept /\ LinesKept /\ watermark' = watermark /\ drain' = drain
          /\ writable' = writable /\ granting' = granting
      BY <1>1 DEF LockReceived, HoldsKept, LinesKept, authority, sockets, stack
    <2>. QED  BY <2>1, QuietView DEF LinesKept
  <1>2. ASSUME NEW u \in Uuids, LockClientTimeout(u, ws)
        PROVE  StrandInv(S)'
    <2>1. /\ watermark' = watermark /\ drain' = drain
          /\ writable' = writable /\ granting' = granting
      BY <1>2 DEF LockClientTimeout, authority, sockets, stack
    <2>2. HoldsKept /\ LineIs(Req[u].key, Without(Line(locks, Req[u].key), u))
      BY <1>2, LockClientTimeoutEffect
    <2>. QED  BY <2>1, <2>2, RequestType, WithoutQuiet
  <1>3. ASSUME NEW u \in Uuids, LockReceivedRejected(u, ws)
        PROVE  StrandInv(S)'
    <2>. DEFINE k == Req[u].key
    <2>1. /\ k \in Keys /\ locks[k] # None /\ EnsureNewLockHolder(k, locks)
          /\ LocksOK(locks) /\ drain = None /\ granting' = None
          /\ writable' = writable /\ watermark' = watermark
      BY <1>3, RequestType, IInvLocks
      DEF LockReceivedRejected, Hears, Idle, authority, sockets
    <2>2. Ensured(k)
      BY <2>1, EnsureServes
    <2>3. HoldsKept /\ LinesKept
      BY <1>3, LockReceivedRejectedEffect
    <2>. QED  BY <2>1, <2>2, <2>3, EnsuredStep DEF HoldsKept
  <1>. QED  BY <1>1, <1>2, <1>3

LEMMA StillStrand ==
  ASSUME NEW S, Steady(S), StrandedInv(S), IInv', FewHold',
         ManyFrame \/ TickTtl \/ Connections
  PROVE  StrandInv(S)'
PROOF
  <1>. DEFINE Still == /\ locks' = locks /\ watermark' = watermark /\ drain' = drain
                       /\ writable' \subseteq writable
                       /\ granting' = granting \/ granting'.pos = 1
  <1>1. Still
    <2>1. ASSUME NEW m \in ManyIds, AcquireMany(m)
          PROVE  Still
      BY <2>1 DEF AcquireMany, Begin, authority, sockets
    <2>2. ASSUME NEW m \in ManyIds, NEW ws \in Sockets, ReleaseMany(m, ws)
          PROVE  Still
      BY <2>2 DEF ReleaseMany, authority, sockets
    <2>3. CASE TickTtl
      BY <2>3 DEF TickTtl, authority, sockets
    <2>4. CASE Connections
      BY <2>4 DEF Connections, BreakConnection, SocketEnds, VersionMismatch,
                  CleanupConnection, authority, stack
    <2>. QED  BY <2>1, <2>2, <2>3, <2>4 DEF ManyFrame
  <1>2. HoldsKept /\ LinesKept
    BY <1>1 DEF HoldsKept, LinesKept
  <1>. QED  BY <1>1, <1>2, QuietView DEF LinesKept

LEMMA WorkStrand ==
  ASSUME NEW S, Steady(S), StrandedInv(S), IInv', FewHold', WorkStep
  PROVE  StrandInv(S)'
PROOF
  <1>. USE DEF StrandedInv, WInv, HInv
  <1>. PICK t \in work :
         \/ Evict(t) \/ ReleaseMember(t) \/ ForgetComposite(t) \/ VisitKey(t)
         \/ VisitAbsentKey(t) \/ ScrubWaiter(t) \/ ForcedUnlock(t) \/ EndCleanup(t)
    BY DEF WorkStep
  <1>. DEFINE Still == /\ granting' = granting /\ granting = None /\ drain = None
                       /\ watermark' = watermark
              Ends(E, R) == \/ locks' = locks /\ drain' = drain
                            \/ /\ locks[t.key] # None
                               /\ EnsureNewLockHolder(t.key, Released(t.key, E, R))
  <1>1. Still
    BY DEF Evict, ReleaseMember, ForgetComposite, VisitKey, VisitAbsentKey, ScrubWaiter,
           ForcedUnlock, EndCleanup, CleaningUp, Turn, authority
  <1>2. ASSUME t.key \in Keys, writable' = writable, NEW E, NEW R \in SUBSET Holders,
               Ends(E, R)
        PROVE  StrandInv(S)'
    <2>1. CASE locks' = locks /\ drain' = drain
      <3>1. HoldsKept /\ LinesKept
        BY <2>1 DEF HoldsKept, LinesKept
      <3>. QED  BY <1>1, <1>2, <2>1, <3>1, QuietView DEF LinesKept
    <2>. QED  BY <1>1, <1>2, <2>1, ReleaseStrand
  <1>3. CASE Evict(t)
    <2>. DEFINE E == t.ids \cap HoldersOf(locks[t.key])
    <2>1. t.key \in Keys /\ E \in SUBSET Holders
      BY <1>3, TaskType DEF Evict
    <2>2. writable' = writable /\ Ends(E, E)
      BY <1>3 DEF Evict, sockets
    <2>. HIDE DEF E, Ends
    <2>. QED  BY <1>2, <2>1, <2>2
  <1>4. CASE ReleaseMember(t)
    <2>. DEFINE R == t.ids \cap HoldersOf(locks[t.key])
    <2>1. t.key \in Keys /\ R \in SUBSET Holders
      BY <1>4, TaskType DEF ReleaseMember
    <2>2. writable' = writable /\ Ends(t.ids, R)
      BY <1>4 DEF ReleaseMember, sockets
    <2>. HIDE DEF R, Ends
    <2>. QED  BY <1>2, <2>1, <2>2
  <1>5. CASE ForcedUnlock(t)
    <2>. DEFINE E == t.ids \cap HoldersOf(locks[t.key])
    <2>1. t.key \in Keys /\ E \in SUBSET Holders
      BY <1>5, TaskType DEF ForcedUnlock, CleaningUp
    <2>2. writable' = writable /\ Ends(E, E)
      BY <1>5 DEF ForcedUnlock
    <2>. HIDE DEF E, Ends
    <2>. QED  BY <1>2, <2>1, <2>2
  <1>6. CASE ScrubWaiter(t)
    <2>1. /\ t.key \in Keys /\ HoldsKept
          /\ LineIs(t.key, Without(Line(locks, t.key), CHOOSE u \in t.ids : TRUE))
      BY <1>6, TaskType, ScrubWaiterEffect DEF ScrubWaiter, CleaningUp
    <2>2. writable' = writable /\ drain' = drain
      BY <1>6 DEF ScrubWaiter
    <2>. QED  BY <1>1, <2>1, <2>2, WithoutQuiet
  <1>7. CASE ForgetComposite(t) \/ VisitKey(t) \/ VisitAbsentKey(t) \/ EndCleanup(t)
    <2>1. locks' = locks /\ drain' = drain /\ writable' \subseteq writable
      BY <1>7 DEF ForgetComposite, VisitKey, VisitAbsentKey, EndCleanup, sockets
    <2>2. HoldsKept /\ LinesKept
      BY <2>1 DEF HoldsKept, LinesKept
    <2>. QED  BY <1>1, <2>1, <2>2, QuietView DEF LinesKept
  <1>. QED  BY <1>3, <1>4, <1>5, <1>6, <1>7

(* When the disk works a mint fails only because the tokens have run out,  *)
(* and then there is no headroom.                                          *)
LEMMA ExhaustedStrand ==
  ASSUME NEW S, Steady(S), IInv, NEW v \in Nat, v <= watermark + 1, AdvanceFails(v)
  PROVE  StrandInv(S)'
PROOF
  <1>1. v > MaxToken /\ watermark' = watermark
    BY DEF AdvanceFails, Steady, authority
  <1>2. ASSUME NEW w \in Nat, v <= w + 1, v > MaxToken
        PROVE  ~(w + MaxCompositeKeys <= MaxToken)
    BY <1>2, NumberAssumption, AuthorityAssumption
  <1>3. watermark \in Nat
    BY NumberAssumption DEF IInv, TypeOK
  <1>4. ~(watermark + MaxCompositeKeys <= MaxToken)
    BY <1>1, <1>2, <1>3, Zenon
  <1>5. ~HasHeadroom(MaxCompositeKeys)'
    BY <1>1, <1>4, Zenon DEF HasHeadroom
  <1>. QED  BY <1>5, Zenon DEF StrandInv

LEMMA GrantLockFailsStrand ==
  ASSUME NEW S, Steady(S), StrandedInv(S), GrantLockFails
  PROVE  StrandInv(S)'
PROOF
  <1>. USE DEF StrandedInv, WInv, HInv
  <1>. DEFINE k == Req[granting.id].key
  <1>1. AdvanceFails(NextToken(k)) /\ k \in Keys /\ locks[k] # None
    BY GrantingType DEF GrantLockFails, GrantingPlain
  <1>2. /\ locks[k].nextFencingToken \in Nat /\ watermark \in Nat
        /\ locks[k].nextFencingToken <= watermark
    BY <1>1, NumberAssumption DEF IInv, TypeOK, FenceInv, CounterInOrder, Present, LockObj
  <1>3. NextToken(k) \in Nat /\ NextToken(k) <= watermark + 1
    BY <1>2 DEF NextToken
  <1>. HIDE DEF k
  <1>. QED  BY <1>1, <1>3, ExhaustedStrand

LEMMA ManyFailsStrand ==
  ASSUME NEW S, Steady(S), StrandedInv(S), ManyFails
  PROVE  StrandInv(S)'
PROOF
  <1>. USE DEF StrandedInv, WInv, HInv
  <1>1. ManyKey \in Keys
    BY GrantingType DEF ManyFails, GrantingMany
  <1>2. CASE locks[ManyKey] = None
    <2>1. PICK now \in Clock : AdvanceFails(Seed(now))
      BY <1>2 DEF ManyFails
    <2>2. Seed(now) \in 0..MaxToken
      BY AuthorityAssumption, NumberAssumption
      DEF Seed, Larger, IInv, TypeOK, Steady
    <2>3. FALSE
      BY <2>1, <2>2, NumberAssumption DEF AdvanceFails, Steady
    <2>. QED  BY <2>3
  <1>3. CASE locks[ManyKey] # None
    <2>1. AdvanceFails(NextToken(ManyKey))
      BY <1>3 DEF ManyFails
    <2>2. /\ locks[ManyKey].nextFencingToken \in Nat /\ watermark \in Nat
          /\ locks[ManyKey].nextFencingToken <= watermark
      BY <1>1, <1>3, NumberAssumption
      DEF IInv, TypeOK, FenceInv, CounterInOrder, Present, LockObj
    <2>3. NextToken(ManyKey) \in Nat /\ NextToken(ManyKey) <= watermark + 1
      BY <2>2 DEF NextToken
    <2>. QED  BY <2>1, <2>3, ExhaustedStrand
  <1>. QED  BY <1>2, <1>3

(* What Install leaves of the watermark.                                   *)
LEMMA InstallMark ==
  ASSUME IInv, NEW k \in Keys, NEW h \in Holders, NEW ws \in Sockets, locks[k] # None,
         Install(k, h, ws)
  PROVE  watermark <= watermark'
PROOF
  BY InstallTypes, AdvanceOK DEF Install

(* A composite that has granted a key goes on to the next: the key it has  *)
(* granted had a slot, so nobody was left waiting for it but the drain's.  *)
LEMMA ManyGrantsKeyStrand ==
  ASSUME NEW S, Steady(S), StrandedInv(S), IInv', FewHold', ManyGrantsKey
  PROVE  StrandInv(S)'
PROOF
  <1>. USE DEF StrandedInv, WInv, HInv
  <1>1. /\ granting.id \in ManyIds /\ ManyKey \in Keys /\ granting.id \in Holders
        /\ granting.ws \in Sockets /\ locks[ManyKey] # None
        /\ Install(ManyKey, granting.id, granting.ws)
        /\ HoldsGain(ManyKey, granting.id) /\ LinesKept
    BY ManyGrantsKeyEffect, GrantingType DEF ManyGrantsKey, GrantingMany
  <1>2. /\ watermark <= watermark' /\ watermark \in Nat /\ watermark' \in Nat
        /\ drain' = drain /\ writable' = writable
    BY <1>1, InstallMark, NumberAssumption DEF ManyGrantsKey, IInv, TypeOK, sockets
  <1>3. WalkedSoFar' = WalkedSoFar \cup {ManyKey}
    <2>1. granting' = [granting EXCEPT !.pos = granting.pos + 1]
      BY DEF ManyGrantsKey
    <2>2. granting \in GrantInHand /\ granting.pos \in Nat \ {0}
      BY <1>1, GrantingType DEF ManyGrantsKey, GrantingMany
    <2>3. granting'.id = granting.id /\ granting'.pos = granting.pos + 1
      BY <2>1, <2>2 DEF GrantInHand
    <2>4. 1..(granting'.pos - 1) = 1..(granting.pos - 1) \cup {granting.pos}
      BY <2>2, <2>3
    <2>. QED  BY <2>3, <2>4 DEF WalkedSoFar, ManyKey, ManyKeys
  <1>. SUFFICES ASSUME HasHeadroom(MaxCompositeKeys)', NEW j \in Keys
                PROVE  Attended(S, j)'
    BY DEF StrandInv
  <1>4. Attended(S, j)
    BY <1>2, HeadroomBefore DEF StrandInv
  <1>5. Live(j)' => Live(j)
    BY <1>1, <1>2 DEF Live, LinesKept
  <1>6. CASE j = ManyKey
    <2>1. Count(locks[j]) < locks[j].max /\ locks[j].max = S[j]
      BY <1>1, <1>6 DEF ManyGrantsKey, LimitsOK, Fits, Same
    <2>2. Count(locks[j]) \in Nat /\ S[j] \in Nat /\ Count(locks[j]) = Cardinality(Holds(locks, j))
      BY <1>1, <1>6, FS_CardinalityType DEF FewHold, Holds, Count, Steady
    <2>3. ~Full(S, j)
      BY <2>1, <2>2 DEF Full
    <2>. QED  BY <1>2, <1>4, <1>5, <2>3 DEF Attended
  <1>7. CASE j # ManyKey
    <2>1. Holds(locks', j) = Holds(locks, j)
      BY <1>1, <1>7 DEF HoldsGain
    <2>2. Walked(j)' => Walked(j)
      BY <1>3, <1>7 DEF Walked, ManyGrantsKey
    <2>. QED  BY <1>2, <1>4, <1>5, <2>1, <2>2, ServedKept DEF FewHold
  <1>. QED  BY <1>6, <1>7

(* A composite that is rolled back frees slots that nobody waits for, and  *)
(* the key it queues on is full.                                           *)
LEMMA ManyIsContendedStrand ==
  ASSUME NEW S, Steady(S), StrandedInv(S), IInv', FewHold', ManyIsContended
  PROVE  StrandInv(S)'
PROOF
  <1>. USE DEF StrandedInv, WInv, HInv
  <1>1. /\ granting.id \in ManyIds /\ ManyKey \in Keys
        /\ \A j \in Keys : Holds(locks', j) = IF j \in WalkedSoFar
                                              THEN Holds(locks, j) \ {granting.id}
                                              ELSE Holds(locks, j)
        /\ \A j \in Keys : j # ManyKey => Line(locks', j) = Line(locks, j)
    BY ManyIsContendedEffect DEF LinesKept, LineIs
  <1>2. /\ drain' = drain /\ writable' = writable /\ watermark' = watermark
        /\ granting' = None /\ locks[ManyKey] # None
        /\ Count(locks[ManyKey]) >= locks[ManyKey].max
        /\ GrantingMany /\ MoreKeys
    BY DEF ManyIsContended, authority, sockets
  <1>3. ManyKey \notin WalkedSoFar
    <2>1. granting.pos \in 1..Len(ManyReq[granting.id].keys)
      BY <1>1, <1>2, GrantingType, RequestType DEF GrantingMany, MoreKeys, ManyKeys
    <2>2. \A i \in 1..(granting.pos - 1) :
            i \in 1..Len(ManyReq[granting.id].keys) /\ i # granting.pos
      BY <1>1, <2>1, RequestType
    <2>. QED  BY <1>1, <2>1, <2>2, RequestAssumption DEF WalkedSoFar, ManyKey, ManyKeys
  <1>4. HasHeadroom(MaxCompositeKeys)' <=> HasHeadroom(MaxCompositeKeys)
    BY <1>2, Zenon DEF HasHeadroom
  <1>. SUFFICES ASSUME HasHeadroom(MaxCompositeKeys)', NEW j \in Keys
                PROVE  Attended(S, j)'
    BY DEF StrandInv
  <1>5. Attended(S, j) /\ ~Walked(j)'
    BY <1>2, <1>4 DEF StrandInv, Walked, GrantingMany
  <1>6. CASE j = ManyKey
    <2>1. locks[j].max = S[j]
      BY <1>1, <1>2, <1>6 DEF LimitsOK, Fits, Same
    <2>2. Count(locks[j]) = Cardinality(Holds(locks', j))
      BY <1>1, <1>2, <1>3, <1>6 DEF Holds, Count
    <2>3. Full(S, j)'
      BY <1>2, <1>6, <2>1, <2>2 DEF Full
    <2>. QED  BY <1>5, <2>3 DEF Attended
  <1>7. CASE j # ManyKey
    <2>1. Live(j)' => Live(j)
      BY <1>1, <1>2, <1>7 DEF Live
    <2>2. CASE j \in WalkedSoFar
      BY <1>2, <1>5, <2>1, <2>2 DEF Attended, Walked
    <2>3. CASE j \notin WalkedSoFar
      <3>1. Holds(locks', j) = Holds(locks, j)
        BY <1>1, <2>3
      <3>. QED  BY <1>2, <1>5, <2>1, <3>1, ServedKept DEF FewHold
    <2>. QED  BY <2>2, <2>3
  <1>. QED  BY <1>6, <1>7

LEMMA GrantingStrand ==
  ASSUME NEW S, Steady(S), StrandedInv(S), IInv', FewHold', Granting
  PROVE  StrandInv(S)'
PROOF
  <1>. USE DEF StrandedInv, WInv, HInv
  <1>1. CASE GrantLock
    <2>. DEFINE k == Req[granting.id].key
    <2>1. /\ k \in Keys /\ locks[k] # None /\ granting.id \in Holders /\ granting.ws \in Sockets
          /\ Install(k, granting.id, granting.ws) /\ HoldsGain(k, granting.id) /\ LinesKept
      BY <1>1, GrantLockEffect, GrantingType DEF GrantLock, GrantingPlain
    <2>. HIDE DEF k
    <2>2. watermark <= watermark'
      BY <2>1, InstallMark
    <2>3. drain' = drain /\ writable' = writable /\ granting' = None
      BY <1>1 DEF GrantLock, sockets
    <2>4. ASSUME NEW j \in Keys
          PROVE  /\ Live(j)' => Live(j)
                 /\ Holds(locks, j) \subseteq Holds(locks', j) /\ ~Walked(j)'
      BY <2>1, <2>3 DEF Live, LinesKept, HoldsGain, Walked, GrantingMany
    <2>. QED  BY <2>2, <2>3, <2>4, QuietStep
  <1>2. CASE ManyCreatesLock
    <2>1. HoldsKept /\ LinesKept
      BY <1>2, ManyCreatesLockEffect
    <2>2. PICK now \in Clock : Seed(now) <= MaxToken /\ Advance(Seed(now))
      BY <1>2 DEF ManyCreatesLock
    <2>3. Seed(now) \in 0..MaxToken
      BY <2>2, AuthorityAssumption, NumberAssumption DEF Seed, Larger, IInv, TypeOK
    <2>4. watermark <= watermark'
      BY <2>2, <2>3, AdvanceOK
    <2>5. drain' = drain /\ writable' = writable /\ granting' = granting
      BY <1>2 DEF ManyCreatesLock, sockets, stack
    <2>6. WalkedSoFar' = WalkedSoFar
      BY <2>5 DEF WalkedSoFar, ManyKeys
    <2>7. ASSUME NEW j \in Keys
          PROVE  (Live(j)' => Live(j)) /\ (Walked(j)' => Walked(j))
      BY <2>1, <2>5, <2>6 DEF Live, LinesKept, Walked, GrantingMany
    <2>. QED  BY <2>1, <2>4, <2>5, <2>7, QuietStep DEF HoldsKept
  <1>3. CASE ManyRegisters
    <2>1. /\ HoldsKept /\ LinesKept /\ watermark' = watermark /\ drain' = drain
          /\ writable' = writable /\ granting' = None
      BY <1>3 DEF ManyRegisters, HoldsKept, LinesKept, authority, sockets
    <2>. QED  BY <2>1, QuietView DEF LinesKept
  <1>. QED
    BY <1>1, <1>2, <1>3, GrantLockFailsStrand, ManyGrantsKeyStrand, ManyIsContendedStrand,
       ManyFailsStrand
    DEF Granting

(* The loop ends when nobody waits or no slot is left.                     *)
LEMMA DrainStrand ==
  ASSUME NEW S, Steady(S), StrandedInv(S), IInv', FewHold', Drain
  PROVE  StrandInv(S)'
PROOF
  <1>. USE DEF StrandedInv, WInv, HInv
  <1>. PICK k \in Keys : DrainStops(k) \/ DequeueWaiter(k)
    BY DEF Drain
  <1>1. CASE DrainStops(k)
    <2>1. /\ locks' = locks /\ writable' = writable /\ watermark' = watermark
          /\ granting' = None /\ drain = k /\ drain # None
          /\ locks[k].notify = <<>> \/ Count(locks[k]) >= Capacity(locks[k])
      BY <1>1 DEF DrainStops, Draining, authority, sockets
    <2>2. locks[k] # None
      BY <2>1 DEF IInv, FenceInv, LockInHand, Present
    <2>3. Capacity(locks[k]) = S[k]
      BY <2>2 DEF LimitsOK, Fits, Same, Capacity
    <2>4. HasHeadroom(MaxCompositeKeys)' <=> HasHeadroom(MaxCompositeKeys)
      BY <2>1, Zenon DEF HasHeadroom
    <2>. SUFFICES ASSUME HasHeadroom(MaxCompositeKeys)', NEW j \in Keys
                  PROVE  Attended(S, j)'
      BY DEF StrandInv
    <2>5. Attended(S, j) /\ ~Walked(j)'
      BY <2>1, <2>4 DEF StrandInv, Walked, GrantingMany
    <2>6. CASE j = k
      BY <2>1, <2>2, <2>3, <2>5, <2>6 DEF Attended, Live, Full, Line, Holds, Count
    <2>7. CASE j # k
      <3>1. Live(j)' => Live(j)
        BY <2>1 DEF Live
      <3>. QED  BY <2>1, <2>5, <2>7, <3>1, ServedKept DEF FewHold
    <2>. QED  BY <2>6, <2>7
  <1>2. CASE DequeueWaiter(k)
    <2>1. PICK i \in 1..Len(Line(locks, k)) :
            /\ LineIs(k, AfterFirst(i, Line(locks, k)))
            /\ granting' = [id |-> Line(locks, k)[i].id, ws |-> Line(locks, k)[i].ws,
                            pos |-> 1, queued |-> TRUE]
      BY <1>2, DequeueWaiterEffect
    <2>2. Line(locks, k) \in Seq(Waiter) /\ Unrepeated(Line(locks, k)) /\ HoldsKept
      BY <1>2, LineType, DequeueWaiterEffect DEF LineInv
    <2>. DEFINE q == AfterFirst(i, Line(locks, k))
    <2>3. \A j \in 1..Len(q) : \E n \in 1..Len(Line(locks, k)) : q[j] = Line(locks, k)[n]
      BY <2>2, AfterFirstIds
    <2>. HIDE DEF q
    <2>4. \A n \in Keys : Line(locks', n) = IF n = k THEN q ELSE Line(locks, n)
      BY <2>1 DEF LineIs, q
    <2>5. \A n \in Keys : \A m \in 1..Len(Line(locks', n)) :
            \E j \in 1..Len(Line(locks, n)) : Line(locks', n)[m] = Line(locks, n)[j]
      BY <2>3, <2>4
    <2>6. /\ watermark' = watermark /\ drain' = drain /\ writable' = writable
          /\ granting'.pos = 1
      BY <1>2, <2>1 DEF DequeueWaiter, authority, sockets
    <2>. QED  BY <2>2, <2>5, <2>6, QuietView
  <1>. QED  BY <1>1, <1>2

LEMMA RestartStrand ==
  ASSUME NEW S, Restart
  PROVE  StrandInv(S)'
PROOF
  <1>1. \A k \in Keys : Line(locks', k) = <<>>
    BY RestartEffect
  <1>2. \A k \in Keys : ~Live(k)'
    BY <1>1 DEF Live
  <1>. QED  BY <1>2 DEF StrandInv, Attended

LEMMA StrandedStep ==
  ASSUME NEW S, Steady(S), StrandedInv(S), [Next]_vars, [~Reelections]_vars
  PROVE  StrandedInv(S)'
PROOF
  <1>1. ASSUME Next, ~Reelections
        PROVE  StrandedInv(S)'
    <2>1. WInv'
      BY <1>1, HInvStep, ScrubNamedStep, WaitingStep DEF StrandedInv, WInv
    <2>2. IInv' /\ FewHold'
      BY <2>1 DEF WInv, HInv
    <2>3. LimitsOK(Same(S), locks')
      BY <1>1, LimitsStep DEF StrandedInv, WInv, HInv, Steady
    <2>4. StrandInv(S)'
      BY <1>1, <2>2, LockFrameStrand, UnlockFrameStrand, OtherFrameStrand, StillStrand,
         GrantingStrand, DrainStrand, WorkStrand, RestartStrand
      DEF Next, CalmNext, Frames, Internal
    <2>. QED  BY <2>1, <2>3, <2>4 DEF StrandedInv, Same
  <1>2. ASSUME UNCHANGED vars
        PROVE  StrandedInv(S)'
    <2>1. WInv'
      BY <1>2, StutterWInv DEF StrandedInv
    <2>2. LimitsOK(Same(S), locks') /\ StrandInv(S)'
      BY <1>2
      DEF vars, stack, sockets, authority, StrandedInv, StrandInv, Attended, Live, Full,
          Walked, GrantingMany, WalkedSoFar, ManyKeys, HasHeadroom
    <2>. QED  BY <2>1, <2>2 DEF StrandedInv, Same
  <1>. QED  BY <1>1, <1>2

(* Between handlers no connected client waits at a key with a free slot    *)
(* (ensureNewLockHolder, lock, acquireMany, tryGrantAcquireManyFromQueue): *)
(* for any number of keys, calls, composites, sockets and slots, while the *)
(* calls for a key agree on its slots, the disk and the clock work and the *)
(* re-election timer, which frees a slot and drains nothing, does not fire. *)
THEOREM NobodyIsStranded ==
  ASSUME FixedSlots, ~DiskFaults, Clock \subseteq 0..MaxToken
  PROVE  Spec /\ [][~Reelections]_vars => []NoStrandedWaiter
PROOF
  <1>. PICK S \in [Keys -> Nat] : Steady(S)
    BY DEF FixedSlots, Steady
  <1>1. Init => StrandedInv(S)
    <2>. SUFFICES ASSUME Init  PROVE StrandedInv(S)
      OBVIOUS
    <2>1. WInv
      BY InitWInv
    <2>2. LimitsOK(Same(S), locks)
      BY DEF Init, LimitsOK
    <2>3. \A k \in Keys : Line(locks, k) = <<>>
      BY DEF Init, Line
    <2>4. StrandInv(S)
      BY <2>3 DEF StrandInv, Attended, Live
    <2>. QED  BY <2>1, <2>2, <2>4 DEF StrandedInv
  <1>2. StrandedInv(S) /\ [Next]_vars /\ [~Reelections]_vars => StrandedInv(S)'
    BY StrandedStep
  <1>3. StrandedInv(S) => NoStrandedWaiter
    <2>. SUFFICES ASSUME StrandedInv(S), Idle, HasHeadroom(MaxCompositeKeys), NEW k \in Keys,
                         Present(k), \E i \in 1..Len(locks[k].notify) :
                                       locks[k].notify[i].ws \in writable
                  PROVE  Count(locks[k]) >= Capacity(locks[k])
      BY DEF NoStrandedWaiter
    <2>1. Live(k) /\ locks[k] # None /\ drain # k
      BY NameAssumption DEF Present, Live, Line, Idle
    <2>2. Full(S, k)
      BY <2>1 DEF StrandedInv, StrandInv, Attended
    <2>3. Capacity(locks[k]) = S[k]
      BY <2>1 DEF StrandedInv, LimitsOK, Fits, Same, Capacity
    <2>. QED  BY <2>1, <2>2, <2>3 DEF Full, Holds, Count
  <1>. QED  BY <1>1, <1>2, <1>3, PTL DEF Spec
=============================================================================
