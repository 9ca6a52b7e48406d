---------------------------- MODULE LegacyProofs ----------------------------
(***************************************************************************)
(* The legacy broker: HoldsTimed.  Timers are counted, holds are found by  *)
(* the uuid on a key; so the account of a call is right only because a     *)
(* call holds and waits at its own key alone, however it got there: by a   *)
(* drain, or by the re-election timer, which puts back a grant it has kept *)
(* since before.                                                           *)
(***************************************************************************)
EXTENDS Legacy, LockObjectProofs

Tidy(L) == /\ L \in [Keys -> LockObj \cup {None}]
           /\ \A k \in Keys : /\ L[k] \in TidyLock(k) \cup {None}
                              /\ \A u \in HeldIn(L[k]) : u \in Uuids /\ Req[u].key = k

Accounted(L, T) ==
  /\ T \in [Uuids -> Nat]
  /\ \A k \in Keys : \A u \in HeldIn(L[k]) : Req[u].finite => T[u] > 0

TimeoutsAtHome ==
  /\ timeouts \in [Keys -> Waiter \cup {None}]
  /\ \A k \in Keys : timeouts[k] # None => timeouts[k].id \in Uuids /\ Req[timeouts[k].id].key = k

LegacyInv == Tidy(locks) /\ Accounted(locks, timers) /\ TimeoutsAtHome

LEMMA Callers ==
  /\ Holders = Uuids
  /\ \A u \in Uuids : /\ Req[u].key \in Keys /\ Req[u].rw = "none" /\ Req[u].finite \in BOOLEAN
                      /\ Req[u].from \subseteq Sockets
PROOF
  BY LegacyAssumption, RequestAssumption DEF Holders, LockRequest

-----------------------------------------------------------------------------
(* The table.                                                              *)

(* When nobody leaves, the lock object is the same.                        *)
LEMMA NobodyDeserts ==
  ASSUME NEW k \in Keys, NEW l \in TidyLock(k)
  PROVE  Deserted(l, {}) = l
PROOF
  <1>1. l \in LockObj
    BY TidyElim
  <1>. QED  BY <1>1 DEF Deserted, LockObj

LEMMA ReleasedReplaced ==
  ASSUME NEW k \in Keys, NEW l \in TidyLock(k), NEW R \in SUBSET Holders
  PROVE  /\ [l EXCEPT !.released = R] \in TidyLock(k)
         /\ HoldersOf([l EXCEPT !.released = R]) = HoldersOf(l)
PROOF
  <1>1. l \in LockObj
    BY TidyElim
  <1>. QED  BY <1>1 DEF TidyLock, HomeLock, LockObj, HoldersOf, Holding

LEMMA Departed ==
  ASSUME NEW k \in Keys, NEW l \in TidyLock(k), NEW S, NEW R \in SUBSET Holders
  PROVE  Forgone(l, S, R) \in TidyLock(k) /\ HoldersOf(Forgone(l, S, R)) = HoldersOf(l) \ S
PROOF
  <1>. DEFINE m == Deserted(l, S)
  <1>1. m \in TidyLock(k) /\ HoldersOf(m) = HoldersOf(l) \ S
    BY DesertedHolds
  <1>. HIDE DEF m
  <1>2. m \in LockObj
    BY <1>1, TidyElim
  <1>3. m.released \cup R \in SUBSET Holders
    BY <1>2 DEF LockObj
  <1>4. /\ [m EXCEPT !.released = m.released \cup R] \in TidyLock(k)
        /\ HoldersOf([m EXCEPT !.released = m.released \cup R]) = HoldersOf(m)
    BY <1>1, <1>3, ReleasedReplaced
  <1>. QED  BY <1>1, <1>4 DEF m, Forgone

(* One key of the table gets another lock object.                          *)
LEMMA KeyReplaced ==
  ASSUME Tidy(locks), NEW k \in Keys, NEW m \in TidyLock(k),
         \A u \in HoldersOf(m) : Req[u].key = k
  PROVE  /\ Tidy([locks EXCEPT ![k] = m])
         /\ HeldIn([locks EXCEPT ![k] = m][k]) = HoldersOf(m)
         /\ \A j \in Keys : j # k => [locks EXCEPT ![k] = m][j] = locks[j]
PROOF
  <1>. DEFINE L == [locks EXCEPT ![k] = m]
  <1>1. m \in LockObj /\ m # None
    BY TidyElim
  <1>2. /\ L \in [Keys -> LockObj \cup {None}]
        /\ \A j \in Keys : L[j] = IF j = k THEN m ELSE locks[j]
    BY <1>1 DEF Tidy
  <1>. HIDE DEF L
  <1>3. HeldIn(L[k]) = HoldersOf(m)
    BY <1>1, <1>2 DEF HeldIn
  <1>4. HoldersOf(m) \subseteq Uuids
    BY Callers DEF HoldersOf
  <1>5. ASSUME NEW j \in Keys
        PROVE  L[j] \in TidyLock(j) \cup {None} /\ \A u \in HeldIn(L[j]) : u \in Uuids /\ Req[u].key = j
    BY <1>2, <1>3, <1>4 DEF Tidy
  <1>6. Tidy(L)
    BY <1>2, <1>5 DEF Tidy
  <1>. QED  BY <1>2, <1>3, <1>6 DEF L

(* Holders leave one key.                                                  *)
LEMMA LeftTidy ==
  ASSUME Tidy(locks), NEW k \in Keys, locks[k] # None, NEW S, NEW R \in SUBSET Holders
  PROVE  /\ Tidy(Left(k, S, R)) /\ Left(k, S, R)[k] # None
         /\ HeldIn(Left(k, S, R)[k]) = HeldIn(locks[k]) \ S
         /\ \A j \in Keys : j # k => Left(k, S, R)[j] = locks[j]
PROOF
  <1>. DEFINE l == locks[k]
              m == Forgone(l, S, R)
  <1>1. l \in TidyLock(k) /\ HeldIn(l) = HoldersOf(l) /\ \A u \in HoldersOf(l) : Req[u].key = k
    BY DEF Tidy, HeldIn
  <1>2. Left(k, S, R) = [locks EXCEPT ![k] = m] /\ [locks EXCEPT ![k] = m][k] = m
    BY DEF Left, Tidy
  <1>. HIDE DEF l
  <1>3. m \in TidyLock(k) /\ HoldersOf(m) = HoldersOf(l) \ S
    BY <1>1, Departed
  <1>. HIDE DEF m
  <1>4. m # None /\ \A u \in HoldersOf(m) : Req[u].key = k
    BY <1>1, <1>3, TidyElim
  <1>5. /\ Tidy([locks EXCEPT ![k] = m])
        /\ HeldIn([locks EXCEPT ![k] = m][k]) = HoldersOf(m)
        /\ \A j \in Keys : j # k => [locks EXCEPT ![k] = m][j] = locks[j]
    BY <1>3, <1>4, KeyReplaced
  <1>. QED  BY <1>1, <1>2, <1>3, <1>4, <1>5 DEF l

-----------------------------------------------------------------------------
(* The drain.                                                              *)

(* Whoever it grants waited at that very key, so its grant is in the       *)
(* account of its call; those it clears have left.                         *)
LEMMA Drained ==
  ASSUME NEW L, Tidy(L), Accounted(L, timers), TimeoutsAtHome,
         NEW cleared \in SUBSET Uuids,
         \A k \in Keys : HeldIn(L[k]) \cap cleared = {},
         \A u \in cleared : Req[u].finite => timers[u] > 0,
         NEW ks \in SUBSET Keys, \A k \in ks : L[k] # None,
         EnsureNewLockHolder(ks, L, cleared)
  PROVE  LegacyInv'
PROOF
  <1>. DEFINE served(k) == IF k \in ks THEN Served(L[k], writable) ELSE {}
              got(k)    == {L[k].notify[i].id : i \in served(k)}
              granted   == UNION {got(k) : k \in Keys}
              last(k)   == CHOOSE i \in served(k) : \A j \in served(k) : j <= i
  <1>1. /\ locks' = [k \in Keys |-> IF k \in ks THEN FreedAmong(L[k], {}, writable) ELSE L[k]]
        /\ timeouts' = [k \in Keys |-> IF served(k) = {} THEN timeouts[k] ELSE L[k].notify[last(k)]]
        /\ Timed(cleared, granted)
    BY DEF EnsureNewLockHolder
  <1>2. ASSUME NEW k \in Keys
        PROVE  /\ locks'[k] \in TidyLock(k) \cup {None}
               /\ HeldIn(locks'[k]) = HeldIn(L[k]) \cup got(k)
               /\ \A u \in got(k) : u \in Uuids /\ Req[u].key = k
    <2>1. CASE k \notin ks
      BY <1>1, <2>1 DEF Tidy
    <2>2. CASE k \in ks
      <3>. DEFINE l == L[k]
                  m == FreedAmong(l, {}, writable)
      <3>1. l \in TidyLock(k) /\ locks'[k] = m
        BY <1>1, <2>2 DEF Tidy
      <3>2. got(k) = ServedIds(l, writable)
        BY <2>2 DEF ServedIds
      <3>. HIDE DEF l
      <3>3. Deserted(l, {}) = l
        BY <3>1, NobodyDeserts
      <3>4. /\ m \in TidyLock(k) /\ HoldersOf(m) = HoldersOf(l) \cup ServedIds(l, writable)
            /\ ServedIds(l, writable) \subseteq Ids(l.notify)
        BY <3>1, <3>3, FreedHolds
      <3>5. \A u \in Ids(l.notify) : u \in Uuids /\ Req[u].key = k
        BY <3>1, TidyElim, Callers DEF Ids
      <3>. HIDE DEF m, got
      <3>6. m # None /\ l # None
        BY <3>1, <3>4, TidyElim
      <3>. QED  BY <3>1, <3>2, <3>4, <3>5, <3>6 DEF HeldIn, l
    <2>. QED  BY <2>1, <2>2
  <1>3. ASSUME NEW k \in Keys
        PROVE  /\ timeouts'[k] \in Waiter \cup {None}
               /\ timeouts'[k] # None => timeouts'[k].id \in Uuids /\ Req[timeouts'[k].id].key = k
    <2>1. CASE served(k) = {}
      BY <1>1, <2>1 DEF TimeoutsAtHome
    <2>2. CASE served(k) # {}
      <3>1. k \in ks /\ L[k] \in TidyLock(k)
        BY <2>2 DEF Tidy
      <3>2. served(k) \subseteq 1..Len(L[k].notify) /\ Len(L[k].notify) \in Nat
        BY <3>1, ServedPositions, TidyElim
      <3>3. last(k) \in served(k)
        BY <2>2, <3>2, LastPosition
      <3>4. timeouts'[k] = L[k].notify[last(k)]
        BY <1>1, <2>2
      <3>5. L[k].notify[last(k)] \in Waiter
        <4>1. \A i \in 1..Len(L[k].notify) : L[k].notify[i] \in Waiter
          BY <3>1, TidyElim
        <4>2. last(k) \in 1..Len(L[k].notify)
          BY <3>2, <3>3
        <4>. HIDE DEF last
        <4>. QED  BY <4>1, <4>2
      <3>6. L[k].notify[last(k)].id \in got(k)
        BY <3>3
      <3>. QED  BY <1>2, <3>4, <3>5, <3>6
    <2>. QED  BY <2>1, <2>2
  <1>. HIDE DEF served, got, last
  <1>4. Tidy(locks')
    <2>1. \A k \in Keys : \A u \in HeldIn(locks'[k]) : u \in Uuids /\ Req[u].key = k
      BY <1>2 DEF Tidy
    <2>2. \A k \in Keys : locks'[k] \in LockObj \cup {None}
      BY <1>2, TidyElim
    <2>3. locks' = [k \in Keys |-> locks'[k]]
      BY <1>1
    <2>. QED  BY <1>2, <2>1, <2>2, <2>3 DEF Tidy
  <1>5. Accounted(locks', timers')
    <2>1. ASSUME NEW u \in Uuids
          PROVE  /\ timers'[u] = (timers[u] - IF u \in cleared /\ Req[u].finite THEN 1 ELSE 0)
                                   + IF u \in granted /\ Req[u].finite THEN 1 ELSE 0
                 /\ timers'[u] \in Nat
      BY <1>1 DEF Timed, Accounted
    <2>2. timers' \in [Uuids -> Nat]
      BY <1>1, <2>1 DEF Timed
    <2>3. ASSUME NEW k \in Keys, NEW u \in HeldIn(locks'[k]), Req[u].finite
          PROVE  timers'[u] > 0
      <3>1. u \in Uuids /\ timers[u] \in Nat
        BY <1>4 DEF Tidy, Accounted
      <3>2. CASE u \in got(k)
        <4>1. u \in granted
          BY <3>2
        <4>. QED  BY <2>1, <2>3, <3>1, <4>1
      <3>3. CASE u \in HeldIn(L[k])
        <4>1. u \notin cleared /\ timers[u] > 0
          BY <2>3, <3>3 DEF Accounted
        <4>. HIDE DEF granted
        <4>. QED  BY <2>1, <3>1, <4>1
      <3>. QED  BY <1>2, <2>3, <3>2, <3>3
    <2>. QED  BY <2>2, <2>3 DEF Accounted
  <1>6. TimeoutsAtHome'
    <2>1. timeouts' \in [Keys -> Waiter \cup {None}]
      BY <1>1, <1>3
    <2>. QED  BY <1>3, <2>1 DEF TimeoutsAtHome
  <1>. QED  BY <1>4, <1>5, <1>6 DEF LegacyInv
-----------------------------------------------------------------------------
(* Steps.                                                                  *)

(* Holders S of k leave, and waiters follow.                               *)
LEMMA TurnOver ==
  ASSUME LegacyInv, NEW k \in Keys, locks[k] # None, NEW R \in SUBSET Holders,
         NEW S, S \subseteq HeldBy(locks, k),
         EnsureNewLockHolder({k}, Left(k, S, R), S)
  PROVE  LegacyInv'
PROOF
  <1>. DEFINE L == Left(k, S, R)
  <1>1. /\ Tidy(L) /\ L[k] # None /\ HeldIn(L[k]) = HeldIn(locks[k]) \ S
        /\ \A j \in Keys : j # k => L[j] = locks[j]
    BY LeftTidy DEF LegacyInv
  <1>2. \A u \in S : u \in HeldIn(locks[k]) /\ u \in Uuids /\ Req[u].key = k
    BY DEF HeldBy, HeldIn, LegacyInv, Tidy
  <1>. HIDE DEF L
  <1>3. \A j \in Keys : HeldIn(L[j]) \subseteq HeldIn(locks[j])
    BY <1>1
  <1>4. Accounted(L, timers)
    BY <1>3 DEF LegacyInv, Accounted
  <1>5. \A j \in Keys : HeldIn(L[j]) \cap S = {}
    BY <1>1, <1>2 DEF Tidy
  <1>6. \A u \in S : Req[u].finite => timers[u] > 0
    BY <1>2 DEF LegacyInv, Accounted
  <1>7. S \in SUBSET Uuids /\ {k} \in SUBSET Keys /\ (\A j \in {k} : L[j] # None)
    BY <1>1, <1>2
  <1>8. EnsureNewLockHolder({k}, L, S)
    BY DEF L
  <1>. QED  BY <1>1, <1>4, <1>5, <1>6, <1>7, <1>8, Drained DEF LegacyInv

(* The queue moves up, and nobody leaves.                                  *)
LEMMA MovesUp ==
  ASSUME LegacyInv, NEW k \in Keys, NEW m \in TidyLock(k),
         locks[k] # None, HoldersOf(m) = HoldersOf(locks[k]),
         EnsureNewLockHolder({k}, [locks EXCEPT ![k] = m], {})
  PROVE  LegacyInv'
PROOF
  <1>. DEFINE L == [locks EXCEPT ![k] = m]
  <1>1. HoldersOf(m) = HeldIn(locks[k]) /\ \A u \in HoldersOf(m) : Req[u].key = k
    BY DEF HeldIn, LegacyInv, Tidy
  <1>2. Tidy(L) /\ HeldIn(L[k]) = HoldersOf(m) /\ \A j \in Keys : j # k => L[j] = locks[j]
    BY <1>1, KeyReplaced DEF LegacyInv
  <1>3. L[k] # None
    BY TidyElim DEF LegacyInv, Tidy
  <1>4. EnsureNewLockHolder({k}, L, {})
    OBVIOUS
  <1>. HIDE DEF L
  <1>5. Accounted(L, timers)
    BY <1>1, <1>2 DEF LegacyInv, Accounted
  <1>. QED  BY <1>2, <1>3, <1>4, <1>5, Drained DEF LegacyInv

(* What cleanUpLocks drops holds nobody.                                   *)
LEMMA CleanUpTidy ==
  ASSUME NEW M, Tidy(M), NEW L \in CleanUpLocks(M)
  PROVE  Tidy(L) /\ \A k \in Keys : HeldIn(L[k]) \subseteq HeldIn(M[k])
PROOF
  <1>1. PICK old \in SUBSET {k \in Keys : Idling(M[k])} :
               L = [k \in Keys |-> IF k \in old THEN None ELSE M[k]]
    BY DEF CleanUpLocks
  <1>2. \A k \in Keys : HeldIn(L[k]) \subseteq HeldIn(M[k])
    BY <1>1 DEF HeldIn
  <1>3. L \in [Keys -> LockObj \cup {None}] /\ \A k \in Keys : L[k] \in TidyLock(k) \cup {None}
    BY <1>1 DEF Tidy
  <1>. QED  BY <1>2, <1>3 DEF Tidy

LEMMA LockStep ==
  ASSUME LegacyInv, NEW u \in Uuids, NEW ws \in Sockets, NEW retry \in BOOLEAN, NEW granted,
         LockCall(u, ws, retry, granted),
         granted = IF locks[Req[u].key] # None /\ Full(u) THEN {} ELSE {u}
  PROVE  LegacyInv'
PROOF
  <1>. DEFINE k == Req[u].key
              l == locks[k]
              m == LockedFrom(l, u, ws, retry)
              M == [locks EXCEPT ![k] = m]
  <1>1. k \in Keys /\ Req[u].rw = "none" /\ l \in TidyLock(k) \cup {None}
    BY Callers DEF LegacyInv, Tidy
  <1>2. /\ m \in TidyLock(k)
        /\ IF l # None /\ IsFull(WithLimits(l, u), u) THEN HoldersOf(m) = HeldIn(l)
                                                     ELSE HoldersOf(m) = HeldIn(l) \cup {u}
    BY <1>1, LockedHolds
  <1>3. m \in TidyLock(k) /\ HoldersOf(m) = HeldIn(l) \cup granted
    BY <1>2 DEF Full
  <1>4. locks' \in CleanUpLocks(M) /\ Timed({}, granted) /\ UNCHANGED timeouts
    BY DEF LockCall
  <1>5. \A h \in HeldIn(l) : h \in Uuids /\ Req[h].key = k
    BY <1>1 DEF LegacyInv, Tidy
  <1>. HIDE DEF m
  <1>6. \A h \in HoldersOf(m) : Req[h].key = k
    BY <1>3, <1>5
  <1>7. Tidy(M) /\ HeldIn(M[k]) = HoldersOf(m) /\ \A j \in Keys : j # k => M[j] = locks[j]
    BY <1>1, <1>3, <1>6, KeyReplaced DEF LegacyInv
  <1>. HIDE DEF M
  <1>8. Tidy(locks') /\ \A j \in Keys : HeldIn(locks'[j]) \subseteq HeldIn(M[j])
    BY <1>4, <1>7, CleanUpTidy
  <1>9. ASSUME NEW h \in Uuids
        PROVE  /\ timers[h] \in Nat
               /\ timers'[h] = timers[h] + IF h \in granted /\ Req[h].finite THEN 1 ELSE 0
    BY <1>4 DEF Timed, LegacyInv, Accounted
  <1>10. timers' \in [Uuids -> Nat]
    BY <1>4, <1>9 DEF Timed
  <1>11. ASSUME NEW j \in Keys, NEW h \in HeldIn(locks'[j]), Req[h].finite
         PROVE  timers'[h] > 0
    <2>1. h \in Uuids /\ h \in HeldIn(M[j])
      BY <1>8 DEF Tidy
    <2>2. h \in HeldIn(locks[j]) \/ h \in granted
      BY <1>3, <1>7, <2>1
    <2>3. h \in HeldIn(locks[j]) => timers[h] > 0
      BY <1>11 DEF LegacyInv, Accounted
    <2>. HIDE DEF k
    <2>. QED  BY <1>9, <1>11, <2>1, <2>2, <2>3
  <1>. QED  BY <1>4, <1>8, <1>10, <1>11 DEF LegacyInv, Accounted, TimeoutsAtHome

(* One key gets a lock object with no new holder, and the timers only lose *)
(* those of a call that is no longer there.                                *)
LEMMA KeyStep ==
  ASSUME LegacyInv, NEW k \in Keys, NEW m \in TidyLock(k),
         HoldersOf(m) \subseteq HeldIn(locks[k]), locks' = [locks EXCEPT ![k] = m],
         TimeoutsAtHome', timers' \in [Uuids -> Nat],
         \A u \in Uuids : u \in HoldersOf(m) \/ Req[u].key # k => timers'[u] = timers[u]
  PROVE  LegacyInv'
PROOF
  <1>1. \A u \in HoldersOf(m) : u \in Uuids /\ Req[u].key = k
    BY DEF LegacyInv, Tidy
  <1>2. /\ Tidy(locks') /\ HeldIn(locks'[k]) = HoldersOf(m)
        /\ \A j \in Keys : j # k => locks'[j] = locks[j]
    BY <1>1, KeyReplaced DEF LegacyInv
  <1>3. ASSUME NEW j \in Keys, NEW u \in HeldIn(locks'[j]), Req[u].finite
        PROVE  timers'[u] > 0
    <2>1. u \in Uuids /\ Req[u].key = j /\ u \in HeldIn(locks[j])
      BY <1>2, <1>3 DEF Tidy
    <2>2. timers[u] > 0
      BY <1>3, <2>1 DEF LegacyInv, Accounted
    <2>3. timers'[u] = timers[u]
      BY <1>2, <1>3, <2>1
    <2>. QED  BY <2>2, <2>3
  <1>. QED  BY <1>2, <1>3 DEF LegacyInv, Accounted

(* A timer of u goes off or is cleared.                                    *)
LEMMA OneTimerLess ==
  ASSUME LegacyInv, NEW u \in Uuids, timers[u] > 0
  PROVE  /\ [timers EXCEPT ![u] = @ - 1] \in [Uuids -> Nat]
         /\ \A v \in Uuids : v # u => [timers EXCEPT ![u] = @ - 1][v] = timers[v]
PROOF
  <1>1. timers \in [Uuids -> Nat] /\ timers[u] \in Nat
    BY DEF LegacyInv, Accounted
  <1>2. timers[u] - 1 \in Nat
    BY <1>1
  <1>. QED  BY <1>1, <1>2

LEMMA HolderTimesOutStep ==
  ASSUME LegacyInv, NEW u \in Uuids, HolderTimesOut(u)
  PROVE  LegacyInv'
PROOF
  <1>. DEFINE k == Req[u].key
              S == Expelled(k, u)
  <1>1. k \in Keys
    BY Callers
  <1>2. CASE u \in HeldBy(locks, k)
    <2>1. EnsureNewLockHolder({k}, Left(k, S, S \cup {u}), S) /\ locks[k] # None
      BY <1>2 DEF HolderTimesOut, HeldBy
    <2>2. S \subseteq HeldBy(locks, k) /\ HeldBy(locks, k) \subseteq Holders /\ u \in Holders
      BY <1>2, Callers DEF Expelled, HeldBy, HoldersOf
    <2>3. S \cup {u} \in SUBSET Holders
      BY <2>2
    <2>. HIDE DEF k, S
    <2>. QED  BY <1>1, <2>1, <2>2, <2>3, TurnOver
  <1>3. CASE u \notin HeldBy(locks, k)
    <2>1. /\ timers' = [timers EXCEPT ![u] = @ - 1] /\ timers[u] > 0 /\ UNCHANGED timeouts
          /\ locks' = IF locks[k] = None THEN locks ELSE Left(k, {}, {u})
      BY <1>3 DEF HolderTimesOut
    <2>2. TimeoutsAtHome' /\ timers' \in [Uuids -> Nat] /\ \A v \in Uuids : v # u => timers'[v] = timers[v]
      BY <2>1, OneTimerLess DEF LegacyInv, TimeoutsAtHome
    <2>. HIDE DEF k
    <2>3. Tidy(locks') /\ \A j \in Keys : HeldIn(locks'[j]) = HeldIn(locks[j])
      <3>1. CASE locks[k] = None
        BY <2>1, <3>1 DEF LegacyInv
      <3>2. CASE locks[k] # None
        <4>1. {u} \in SUBSET Holders
          BY Callers
        <4>2. /\ Tidy(Left(k, {}, {u})) /\ HeldIn(Left(k, {}, {u})[k]) = HeldIn(locks[k]) \ {}
              /\ \A j \in Keys : j # k => Left(k, {}, {u})[j] = locks[j]
          BY <1>1, <3>2, <4>1, LeftTidy DEF LegacyInv
        <4>. QED  BY <2>1, <3>2, <4>2
      <3>. QED  BY <3>1, <3>2
    <2>4. u \notin HeldIn(locks[k])
      BY <1>3 DEF HeldBy, HeldIn
    <2>5. ASSUME NEW j \in Keys, NEW v \in HeldIn(locks'[j]), Req[v].finite
          PROVE  timers'[v] > 0
      <3>1. v \in HeldIn(locks[j]) /\ v \in Uuids /\ Req[v].key = j
        BY <2>3, <2>5 DEF Tidy
      <3>2. v # u
        BY <2>4, <3>1 DEF k
      <3>. QED  BY <2>2, <2>5, <3>1, <3>2 DEF LegacyInv, Accounted
    <2>. QED  BY <2>2, <2>3, <2>5 DEF LegacyInv, Accounted
  <1>. QED  BY <1>2, <1>3

(* The grant that goes back to the queue is one of this very key, and no   *)
(* entry of that call is there.                                            *)
LEMMA ReelectionStep ==
  ASSUME LegacyInv, NEW k \in Keys, Reelection(k)
  PROVE  LegacyInv'
PROOF
  <1>. DEFINE w == timeouts[k]
              u == w.id
              l == locks[k]
              again == IF u \in rejected \/ Queued(l.notify, u) THEN l.notify
                       ELSE Append(l.notify, w)
              rest == AfterFirst(Batch, again)
              d == Deserted(l, {u})
  <1>1. w \in Waiter /\ u \in Uuids /\ Req[u].key = k /\ timeouts' = [timeouts EXCEPT ![k] = None]
    BY DEF Reelection, LegacyInv, TimeoutsAtHome
  <1>2. TimeoutsAtHome'
    BY <1>1 DEF LegacyInv, TimeoutsAtHome
  <1>3. CASE l = None
    <2>1. UNCHANGED <<locks, timers>>
      BY <1>3 DEF Reelection
    <2>. QED  BY <1>2, <2>1 DEF LegacyInv
  <1>4. CASE l # None
    <2>1. /\ locks' = [locks EXCEPT ![k].lockholders[u] = NoHold, ![k].notify = rest]
          /\ Timed({u} \cap HeldBy(locks, k), {})
      BY <1>4 DEF Reelection
    <2>2. l \in TidyLock(k) /\ HeldIn(l) = HoldersOf(l) /\ HeldBy(locks, k) = HoldersOf(l)
      BY <1>4 DEF LegacyInv, Tidy, HeldIn, HeldBy
    <2>3. l.notify \in HomeQueue(k) /\ l.notify \in Seq(Waiter) /\ Unrepeated(l.notify)
      BY <2>2, TidyElim
    <2>4. again \in HomeQueue(k) /\ again \in Seq(Waiter) /\ Unrepeated(again)
      <3>1. CASE again = l.notify
        BY <2>3, <3>1
      <3>2. CASE ~Queued(l.notify, u) /\ again = Append(l.notify, w)
        <4>. DEFINE q == l.notify
        <4>1. q \in HomeQueue(k) /\ q \in Seq(Waiter) /\ Unrepeated(q) /\ ~Queued(q, w.id)
          BY <2>3, <3>2
        <4>. HIDE DEF q
        <4>2. Append(q, w) \in HomeQueue(k)
          BY <1>1, <4>1, AppendHome
        <4>3. Unrepeated(Append(q, w))
          BY <1>1, <4>1, AppendIds
        <4>4. Append(q, w) \in Seq(Waiter)
          BY <1>1, <4>1
        <4>. QED  BY <3>2, <4>2, <4>3, <4>4 DEF q
      <3>. QED  BY <3>1, <3>2
    <2>. HIDE DEF again
    <2>5. rest \in HomeQueue(k) /\ Unrepeated(rest)
      BY <2>4, NumberAssumption, AfterFirstHome, AfterFirstIds
    <2>6. d \in TidyLock(k) /\ HoldersOf(d) = HoldersOf(l) \ {u}
      BY <2>2, DesertedHolds
    <2>. HIDE DEF rest
    <2>7. locks' = [locks EXCEPT ![k] = [d EXCEPT !.notify = rest]]
      <3>1. l \in LockObj /\ Holders = Uuids
        BY <2>2, TidyElim, Callers
      <3>2. d = [l EXCEPT !.lockholders = [l.lockholders EXCEPT ![u] = NoHold]]
        BY <1>1, <3>1 DEF Deserted, LockObj
      <3>3. locks' = [locks EXCEPT ![k] = [l EXCEPT !.lockholders[u] = NoHold, !.notify = rest]]
        BY <2>1 DEF LegacyInv, Tidy
      <3>. HIDE DEF d, l
      <3>4. [l EXCEPT !.lockholders[u] = NoHold, !.notify = rest] = [d EXCEPT !.notify = rest]
        BY <3>1, <3>2 DEF LockObj
      <3>. QED  BY <3>3, <3>4
    <2>. HIDE DEF d
    <2>8. /\ [d EXCEPT !.notify = rest] \in TidyLock(k)
          /\ HoldersOf([d EXCEPT !.notify = rest]) = HoldersOf(l) \ {u}
      BY <2>5, <2>6, QueueReplaced
    <2>9. ASSUME NEW v \in Uuids
          PROVE  /\ timers'[v] \in Nat
                 /\ v \in HoldersOf(l) \ {u} \/ Req[v].key # k => timers'[v] = timers[v]
      <3>1. timers[v] \in Nat
        BY DEF LegacyInv, Accounted
      <3>2. timers'[v] = timers[v] - IF v = u /\ u \in HoldersOf(l) /\ Req[v].finite THEN 1 ELSE 0
        BY <2>1, <2>2, <3>1 DEF Timed
      <3>3. u \in HoldersOf(l) /\ Req[u].finite => timers[u] > 0
        BY <2>2 DEF LegacyInv, Accounted
      <3>. HIDE DEF u, l
      <3>. QED  BY <1>1, <3>1, <3>2, <3>3
    <2>10. timers' \in [Uuids -> Nat]
      BY <2>1, <2>9 DEF Timed
    <2>. QED  BY <1>2, <2>2, <2>7, <2>8, <2>9, <2>10, KeyStep
  <1>. QED  BY <1>3, <1>4

LEMMA UnlockStep ==
  ASSUME LegacyInv, NEW u \in Uuids, NEW ws \in Sockets, UnlockHolder(u, ws) \/ UnlockLate(u, ws)
  PROVE  LegacyInv'
PROOF
  <1>. DEFINE k == Req[u].key
              l == locks[k]
  <1>1. k \in Keys
    BY Callers
  <1>2. CASE UnlockHolder(u, ws)
    <2>1. EnsureNewLockHolder({k}, Left(k, {u}, {}), {u}) /\ u \in HeldBy(locks, k)
      BY <1>2 DEF UnlockHolder
    <2>2. locks[k] # None /\ {u} \subseteq HeldBy(locks, k)
      BY <2>1 DEF HeldBy
    <2>. HIDE DEF k, l
    <2>. QED  BY <1>1, <2>1, <2>2, TurnOver
  <1>3. CASE UnlockLate(u, ws)
    <2>. DEFINE R == l.released \ {u}
    <2>1. l # None /\ EnsureNewLockHolder({k}, [locks EXCEPT ![k].released = @ \ {u}], {})
      BY <1>3 DEF UnlockLate
    <2>2. l \in TidyLock(k)
      BY <1>1, <2>1 DEF LegacyInv, Tidy
    <2>3. R \in SUBSET Holders
      <3>1. l \in LockObj
        BY <1>1, <2>2, TidyElim
      <3>. HIDE DEF l
      <3>. QED  BY <3>1 DEF LockObj
    <2>4. [locks EXCEPT ![k].released = @ \ {u}] = [locks EXCEPT ![k] = [l EXCEPT !.released = R]]
      OBVIOUS
    <2>. HIDE DEF R, k
    <2>5. /\ [l EXCEPT !.released = R] \in TidyLock(k)
          /\ HoldersOf([l EXCEPT !.released = R]) = HoldersOf(l)
      BY <1>1, <2>2, <2>3, ReleasedReplaced
    <2>. QED  BY <1>1, <2>1, <2>4, <2>5, MovesUp
  <1>. QED  BY <1>2, <1>3

LEMMA LockClientTimeoutStep ==
  ASSUME LegacyInv, NEW u \in Uuids, NEW ws \in Sockets, LockClientTimeout(u, ws)
  PROVE  LegacyInv'
PROOF
  <1>. DEFINE k == Req[u].key
              l == locks[k]
              m == [l EXCEPT !.notify = Without(@, u)]
  <1>1. k \in Keys /\ l # None /\ UNCHANGED <<timers, timeouts>>
    BY Callers DEF LockClientTimeout
  <1>2. l \in TidyLock(k) /\ HeldIn(l) = HoldersOf(l)
    BY <1>1 DEF LegacyInv, Tidy, HeldIn
  <1>3. locks' = [locks EXCEPT ![k] = m]
    BY DEF LockClientTimeout
  <1>4. TimeoutsAtHome' /\ timers' \in [Uuids -> Nat] /\ \A v \in Uuids : timers'[v] = timers[v]
    BY <1>1 DEF LegacyInv, TimeoutsAtHome, Accounted
  <1>. HIDE DEF l, k
  <1>5. m \in TidyLock(k) /\ HoldersOf(m) = HoldersOf(l)
    BY <1>1, <1>2, WithoutTidy
  <1>. HIDE DEF m
  <1>6. HoldersOf(m) \subseteq HeldIn(locks[k])
    BY <1>2, <1>5 DEF l
  <1>. QED  BY <1>1, <1>3, <1>4, <1>5, <1>6, KeyStep

LEMMA LockReceivedRejectedStep ==
  ASSUME LegacyInv, NEW u \in Uuids, NEW ws \in Sockets, LockReceivedRejected(u, ws)
  PROVE  LegacyInv'
PROOF
  <1>. DEFINE k == Req[u].key
  <1>1. k \in Keys /\ locks[k] # None /\ EnsureNewLockHolder({k}, locks, {})
    BY Callers DEF LockReceivedRejected
  <1>. QED  BY <1>1, Drained DEF LegacyInv

LEMMA UnlockForcedStep ==
  ASSUME LegacyInv, NEW k \in Keys, NEW id \in {None} \cup Uuids, NEW ws \in Sockets,
         UnlockForced(k, id, ws)
  PROVE  LegacyInv'
PROOF
  <1>. DEFINE S == IF id # None /\ locks[k].max > 1 THEN {id} \cap HeldBy(locks, k)
                                                    ELSE HeldBy(locks, k)
  <1>1. locks[k] # None /\ EnsureNewLockHolder({k}, Left(k, S, S), S)
    BY DEF UnlockForced
  <1>2. S \subseteq HeldBy(locks, k) /\ HeldBy(locks, k) \subseteq Holders
    BY DEF HeldBy, HoldersOf
  <1>3. S \in SUBSET Holders
    BY <1>2
  <1>. HIDE DEF S
  <1>. QED  BY <1>1, <1>2, <1>3, TurnOver

(* Whoever held a key has left it, by force, before anybody is let in.     *)
LEMMA CleanupConnectionStep ==
  ASSUME LegacyInv, NEW ws \in Sockets, CleanupConnection(ws)
  PROVE  LegacyInv'
PROOF
  <1>. DEFINE ks == {k \in Keys : locks[k] # None}
              L == [k \in Keys |-> IF locks[k] = None THEN None
                                   ELSE Left(k, Holders, HeldBy(locks, k) \ CallsFrom(ws))[k]]
              cleared == UNION {HeldBy(locks, k) : k \in Keys}
  <1>1. EnsureNewLockHolder(ks, L, cleared)
    BY DEF CleanupConnection
  <1>2. ASSUME NEW k \in Keys
        PROVE  L[k] \in TidyLock(k) \cup {None} /\ HeldIn(L[k]) = {} /\ (k \in ks => L[k] # None)
    <2>1. CASE locks[k] = None
      BY <2>1 DEF HeldIn
    <2>2. CASE locks[k] # None
      <3>. DEFINE R == HeldBy(locks, k) \ CallsFrom(ws)
      <3>1. R \in SUBSET Holders /\ HeldIn(locks[k]) \subseteq Holders
        BY DEF HeldBy, HeldIn, HoldersOf
      <3>2. L[k] = Left(k, Holders, R)[k]
        BY <2>2
      <3>. HIDE DEF R, L
      <3>3. /\ Tidy(Left(k, Holders, R)) /\ Left(k, Holders, R)[k] # None
            /\ HeldIn(Left(k, Holders, R)[k]) = HeldIn(locks[k]) \ Holders
        BY <2>2, <3>1, LeftTidy DEF LegacyInv
      <3>. QED  BY <3>1, <3>2, <3>3 DEF Tidy
    <2>. QED  BY <2>1, <2>2
  <1>3. \A u \in cleared : u \in Uuids /\ (Req[u].finite => timers[u] > 0)
    BY DEF HeldBy, HeldIn, LegacyInv, Tidy, Accounted
  <1>4. L = [k \in Keys |-> L[k]]
    OBVIOUS
  <1>5. ks \in SUBSET Keys
    OBVIOUS
  <1>. HIDE DEF L, ks, cleared
  <1>6. \A k \in Keys : L[k] \in LockObj \cup {None}
    BY <1>2, TidyElim
  <1>7. Tidy(L) /\ Accounted(L, timers)
    BY <1>2, <1>4, <1>6 DEF Tidy, Accounted, LegacyInv
  <1>8. cleared \in SUBSET Uuids /\ (\A k \in Keys : HeldIn(L[k]) \cap cleared = {})
    BY <1>2, <1>3
  <1>9. \A k \in ks : L[k] # None
    BY <1>2, <1>5
  <1>. QED  BY <1>1, <1>3, <1>5, <1>7, <1>8, <1>9, Drained DEF LegacyInv

-----------------------------------------------------------------------------
LEMMA LegacyInit == Init => LegacyInv
PROOF
  <1>. SUFFICES ASSUME Init PROVE LegacyInv
    OBVIOUS
  <1>1. Tidy(locks)
    BY DEF Init, Tidy, HeldIn
  <1>2. Accounted(locks, timers)
    BY DEF Init, Accounted, HeldIn
  <1>. QED  BY <1>1, <1>2 DEF Init, TimeoutsAtHome, LegacyInv

LEMMA LegacyNext == LegacyInv /\ [Next]_vars => LegacyInv'
PROOF
  <1>. SUFFICES ASSUME LegacyInv, [Next]_vars PROVE LegacyInv'
    OBVIOUS
  <1>1. CASE UNCHANGED vars
    BY <1>1 DEF vars, LegacyInv, Accounted, TimeoutsAtHome
  <1>2. ASSUME NEW ws \in Sockets, NEW u \in CallsFrom(ws),
               \/ LockOnNewKey(u, ws) \/ LockOnFreeKey(u, ws)
               \/ \E retry \in BOOLEAN : LockOnFullKey(u, ws, retry)
        PROVE  LegacyInv'
    <2>1. u \in Uuids
      BY DEF CallsFrom
    <2>2. CASE LockOnNewKey(u, ws)
      <3>1. LockCall(u, ws, FALSE, {u}) /\ locks[Req[u].key] = None
        BY <2>2 DEF LockOnNewKey
      <3>. QED  BY <2>1, <3>1, LockStep
    <2>3. CASE LockOnFreeKey(u, ws)
      <3>1. LockCall(u, ws, FALSE, {u}) /\ ~Full(u)
        BY <2>3 DEF LockOnFreeKey
      <3>. QED  BY <2>1, <3>1, LockStep
    <2>4. ASSUME NEW retry \in BOOLEAN, LockOnFullKey(u, ws, retry)
          PROVE  LegacyInv'
      <3>1. LockCall(u, ws, retry, {}) /\ locks[Req[u].key] # None /\ Full(u)
        BY <2>4 DEF LockOnFullKey
      <3>. QED  BY <2>1, <3>1, LockStep
    <2>. QED  BY <1>2, <2>2, <2>3, <2>4
  <1>3. ASSUME NEW ws \in Sockets, NEW u \in CallsFrom(ws),
               \/ UnlockHolder(u, ws) \/ UnlockLate(u, ws)
               \/ LockClientTimeout(u, ws) \/ LockReceivedRejected(u, ws)
        PROVE  LegacyInv'
    <2>1. u \in Uuids
      BY DEF CallsFrom
    <2>. QED  BY <1>3, <2>1, UnlockStep, LockClientTimeoutStep, LockReceivedRejectedStep
  <1>4. ASSUME NEW ws \in Sockets, NEW k \in Keys, LockReceived(k, ws)
        PROVE  LegacyInv'
    BY <1>4 DEF LockReceived, LegacyInv, Accounted, TimeoutsAtHome
  <1>5. ASSUME NEW ws \in Sockets, NEW k \in Keys,
               NEW id \in {None} \cup {u \in Uuids : Req[u].key = k}, UnlockForced(k, id, ws)
        PROVE  LegacyInv'
    BY <1>5, UnlockForcedStep
  <1>6. ASSUME NEW ws \in Sockets, BreakConnection(ws) \/ CleanupConnection(ws)
        PROVE  LegacyInv'
    <2>1. CASE BreakConnection(ws)
      BY <2>1 DEF BreakConnection, LegacyInv, Accounted, TimeoutsAtHome
    <2>. QED  BY <1>6, <2>1, CleanupConnectionStep
  <1>. QED
    BY <1>1, <1>2, <1>3, <1>4, <1>5, <1>6, HolderTimesOutStep, ReelectionStep
    DEF Next, Frames, Connections

(* No hold of finite ttl outlives its timers, for any number of calls,     *)
(* sockets and keys, whatever limits the calls write, however often they   *)
(* are retried or granted again, and whichever connections break or end.   *)
THEOREM HoldsAreTimed == Spec => []HoldsTimed
PROOF
  <1>1. LegacyInv => HoldsTimed
    BY Callers DEF LegacyInv, Accounted, HoldsTimed, HeldBy, HeldIn
  <1>. QED  BY <1>1, LegacyInit, LegacyNext, PTL DEF Spec

-----------------------------------------------------------------------------
(* TurnsStrandNobody.                                                      *)
(*                                                                         *)
(* The drain loop serves its key: it stops when the slots are used up or   *)
(* nobody alive is left.  That the slots are used up is a matter of        *)
(* counting: the loop serves the first waiters that hold nothing yet, as   *)
(* many as there are free slots.                                           *)

(* A set of positions has a first one.                                     *)
LEMMA FirstPosition ==
  ASSUME NEW n \in Nat, NEW S \in SUBSET (1..n), S # {}
  PROVE  \E i \in S : \A j \in S : i <= j
PROOF
  <1>. DEFINE Less == {ss \in Nat \X Nat : ss[1] < ss[2]}
  <1>1. IsWellFoundedOn(Less, Nat)
    BY NatLessThanWellFounded DEF OpToRel
  <1>2. S \subseteq Nat
    OBVIOUS
  <1>. HIDE DEF Less
  <1>3. PICK i \in S : \A j \in S : ~ (<<j, i>> \in Less)
    BY <1>1, <1>2, WFMin
  <1>4. ASSUME NEW j \in S
        PROVE  i <= j
    <2>1. ~ (<<j, i>> \in Less) /\ j \in Nat /\ i \in Nat
      BY <1>2, <1>3
    <2>2. ~ (j < i)
      BY <2>1 DEF Less
    <2>. QED  BY <2>1, <2>2
  <1>. QED  BY <1>4

\* How many of the positions N come before j.
Before(N, j) == Cardinality({i \in N : i < j})

(* Those of N with fewer than free of N before them are free in number.    *)
LEMMA FirstFew ==
  ASSUME NEW n \in Nat, NEW N \in SUBSET (1..n), NEW free \in Nat, free <= Cardinality(N)
  PROVE  free <= Cardinality({j \in N : Before(N, j) < free})
PROOF
  <1>. DEFINE T == {j \in N : Before(N, j) < free}
  <1>1. IsFiniteSet(N)
    <2>1. IsFiniteSet(1..n)
      BY FS_Interval
    <2>. QED  BY <2>1, FS_Subset
  <1>2. CASE T = N
    BY <1>2
  <1>3. CASE T # N
    <2>1. N \ T \in SUBSET (1..n) /\ N \ T # {}
      BY <1>3
    <2>. DEFINE rest == N \ T
    <2>. HIDE DEF rest
    <2>2. PICK m \in rest : \A j \in rest : m <= j
      BY <2>1, FirstPosition DEF rest
    <2>3. m \in N /\ m \in 1..n /\ ~ (Before(N, m) < free)
      BY <2>2 DEF rest
    <2>. DEFINE E == {j \in N : j < m}
    <2>4. E \subseteq T
      <3>. SUFFICES ASSUME NEW j \in N, j < m, j \notin T  PROVE FALSE
        OBVIOUS
      <3>1. j \in rest
        BY DEF rest
      <3>2. m <= j /\ j \in Nat /\ m \in Nat
        BY <2>2, <2>3, <3>1
      <3>. QED  BY <3>2
    <2>5. IsFiniteSet(T) /\ IsFiniteSet(E)
      BY <1>1, FS_Subset
    <2>. HIDE DEF T
    <2>6. Cardinality(E) <= Cardinality(T) /\ Cardinality(E) \in Nat /\ Cardinality(T) \in Nat
      BY <2>4, <2>5, FS_Subset, FS_CardinalityType
    <2>7. free <= Cardinality(E)
      BY <2>3, <2>6 DEF Before
    <2>. QED  BY <2>6, <2>7 DEF T
  <1>. QED  BY <1>2, <1>3

\* The lock object of a key whose calls ask for n slots.
Fits(l, n) == /\ l.max = n /\ l.maxRead = 0 /\ l.maxWrite = 0
              /\ IsFiniteSet(HoldersOf(l))

\* A live waiter faces a free slot.
Slack(l, alive) == /\ l # None /\ Count(l) < Capacity(l)
                   /\ \E i \in 1..Len(l.notify) : l.notify[i].ws \in alive

SameLimits(m, l) == m.max = l.max /\ m.maxRead = l.maxRead /\ m.maxWrite = l.maxWrite

LEMMA WokenLimits ==
  ASSUME NEW k \in Keys, NEW l \in TidyLock(k), NEW alive
  PROVE  SameLimits(Woken(l, alive), l)
PROOF
  <1>1. l \in LockObj
    BY TidyElim
  <1>. QED  BY <1>1 DEF Woken, Installed, SameLimits, LockObj

(* The distinct calls at some positions are as many as the positions.      *)
LEMMA AsManyCalls ==
  ASSUME NEW k \in Keys, NEW l \in TidyLock(k), NEW T \in SUBSET (1..Len(l.notify))
  PROVE  /\ IsFiniteSet({l.notify[j].id : j \in T})
         /\ Cardinality({l.notify[j].id : j \in T}) = Cardinality(T)
PROOF
  <1>. DEFINE C == {l.notify[j].id : j \in T}
              f == [j \in T |-> l.notify[j].id]
  <1>1. Len(l.notify) \in Nat /\ Unrepeated(l.notify)
    BY TidyElim
  <1>2. IsFiniteSet(1..Len(l.notify))
    BY <1>1, FS_Interval
  <1>3. IsFiniteSet(T)
    BY <1>2, FS_Subset
  <1>4. \A i, j \in T : f[i] = f[j] => i = j
    BY <1>1 DEF Unrepeated
  <1>5. f \in [T -> C] /\ \A c \in C : \E j \in T : f[j] = c
    OBVIOUS
  <1>. HIDE DEF f, C
  <1>6. f \in Bijection(T, C)
    BY <1>4, <1>5 DEF Bijection, Injection, Surjection, IsInjective
  <1>7. ExistsBijection(T, C)
    BY <1>6 DEF ExistsBijection
  <1>. QED  BY <1>3, <1>7, FS_Bijection DEF C

(* The drain loop leaves no live waiter beside a free slot.                *)
LEMMA WokenServes ==
  ASSUME NEW k \in Keys, NEW l \in TidyLock(k), IsFiniteSet(HoldersOf(l)), NEW alive
  PROVE  ~Slack(Woken(l, alive), alive)
PROOF
  <1>. DEFINE q      == l.notify
              free   == Capacity(l) - Count(l)
              live   == {i \in 1..Len(q) : q[i].ws \in alive}
              N      == {j \in live : ~Holding(l, q[j].id)}
              T      == {j \in N : Before(N, j) < free}
              served == Served(l, alive)
              w      == Woken(l, alive)
  <1>. SUFFICES ASSUME w # None, \E i \in 1..Len(w.notify) : w.notify[i].ws \in alive
                PROVE  ~(Count(w) < Capacity(w))
    BY DEF Slack
  <1>1. l \in LockObj /\ q \in Seq(Waiter) /\ Len(q) \in Nat
    BY TidyElim
  <1>2. Count(l) \in Nat /\ Capacity(l) \in Nat
    BY <1>1, FS_CardinalityType DEF Count, Capacity, Larger, LockObj
  <1>3. N \in SUBSET (1..Len(q)) /\ IsFiniteSet(N) /\ Cardinality(N) \in Nat
    <2>0. IsFiniteSet(1..Len(q))
      BY <1>1, FS_Interval
    <2>1. N \in SUBSET (1..Len(q))
      OBVIOUS
    <2>. HIDE DEF N
    <2>2. IsFiniteSet(N)
      BY <2>0, <2>1, FS_Subset
    <2>. QED  BY <2>1, <2>2, FS_CardinalityType
  <1>4. served = IF q = <<>> \/ free <= 0 THEN {}
                 ELSE {i \in live : Before(N, i) < free}
                      \cup IF Cardinality(N) < free THEN {Len(q)} ELSE {}
    <2>1. \A i : {j \in live : j < i /\ ~Holding(l, q[j].id)} = {j \in N : j < i}
      OBVIOUS
    <2>. QED  BY <2>1 DEF Served, Before
  <1>5. SameLimits(w, l) /\ HoldersOf(w) = HoldersOf(l) \cup ServedIds(l, alive)
        /\ ServedIds(l, alive) \subseteq Ids(q) /\ IsFiniteSet(ServedIds(l, alive))
    BY WokenLimits, WokenHolds, ServedAreQueued
  <1>6. Capacity(w) = Capacity(l)
    BY <1>5 DEF SameLimits, Capacity
  <1>7. IsFiniteSet(HoldersOf(w)) /\ Count(w) \in Nat /\ Count(l) <= Count(w)
    <2>1. IsFiniteSet(HoldersOf(l) \cup ServedIds(l, alive))
      BY <1>5, FS_Union
    <2>2. IsFiniteSet(HoldersOf(w)) /\ HoldersOf(l) \subseteq HoldersOf(w)
      BY <1>5, <2>1
    <2>. HIDE DEF w
    <2>. QED  BY <2>2, FS_Subset, FS_CardinalityType DEF Count
  <1>8. CASE free <= 0
    BY <1>2, <1>6, <1>7, <1>8
  <1>9. CASE q = <<>>
    <2>1. served = {}
      BY <1>4, <1>9
    <2>2. w = l
      BY <2>1 DEF Woken
    <2>. QED  BY <1>9, <2>2
  <1>10. CASE q # <<>> /\ ~(free <= 0) /\ Cardinality(N) < free
    <2>1. Len(q) \in served /\ served \subseteq 1..Len(q)
      BY <1>4, <1>10, ServedPositions
    <2>. DEFINE last == CHOOSE i \in served : \A j \in served : j <= i
    <2>2. last \in served /\ \A j \in served : j <= last
      <3>1. \E i \in served : \A j \in served : j <= i
        BY <1>1, <2>1
      <3>. QED  BY <3>1
    <2>3. last = Len(q)
      BY <1>1, <2>1, <2>2
    <2>4. w.notify = AfterFirst(last, q)
      <3>1. w = [Installed(l, {l.notify[i].id : i \in served}) EXCEPT !.notify = AfterFirst(last, @)]
        BY <2>1 DEF Woken
      <3>2. Installed(l, {l.notify[i].id : i \in served}).notify = q
        BY <1>1 DEF Installed, LockObj
      <3>3. "notify" \in DOMAIN Installed(l, {l.notify[i].id : i \in served})
        BY <1>1 DEF Installed, LockObj
      <3>. HIDE DEF served, last, w, q
      <3>. QED  BY <3>1, <3>2, <3>3
    <2>. HIDE DEF w, last, q, served
    <2>5. Len(w.notify) = 0
      BY <1>1, <2>3, <2>4 DEF AfterFirst
    <2>. QED  BY <2>5
  <1>11. CASE q # <<>> /\ ~(free <= 0) /\ ~(Cardinality(N) < free)
    <2>1. free \in Nat /\ free <= Cardinality(N)
      BY <1>2, <1>3, <1>11
    <2>. HIDE DEF N, free
    <2>2. free <= Cardinality(T)
      BY <1>1, <1>3, <2>1, FirstFew
    <2>3. T \in SUBSET (1..Len(q)) /\ T \subseteq served
      BY <1>3, <1>4, <1>11 DEF N
    <2>. DEFINE C == {l.notify[j].id : j \in T}
    <2>4. C \subseteq ServedIds(l, alive) /\ C \cap HoldersOf(l) = {}
      <3>1. \A j \in T : ~Holding(l, q[j].id)
        BY DEF N
      <3>. QED  BY <2>3, <3>1 DEF ServedIds, HoldersOf
    <2>. HIDE DEF T
    <2>5. IsFiniteSet(C) /\ Cardinality(C) = Cardinality(T)
      BY <2>3, AsManyCalls
    <2>. HIDE DEF C
    <2>6. IsFiniteSet(HoldersOf(l) \cup C)
          /\ Cardinality(HoldersOf(l) \cup C) = Count(l) + Cardinality(C)
      <3>1. /\ IsFiniteSet(HoldersOf(l) \cup C)
            /\ Cardinality(HoldersOf(l) \cup C)
                 = Cardinality(HoldersOf(l)) + Cardinality(C) - Cardinality(HoldersOf(l) \cap C)
        BY <2>5, FS_Union
      <3>2. Cardinality(HoldersOf(l) \cap C) = 0
        <4>1. HoldersOf(l) \cap C = {}
          BY <2>4
        <4>. QED  BY <4>1, FS_EmptySet
      <3>. QED  BY <2>5, <3>1, <3>2, FS_CardinalityType DEF Count
    <2>7. HoldersOf(l) \cup C \in SUBSET HoldersOf(w)
      BY <1>5, <2>4
    <2>8. Cardinality(HoldersOf(l) \cup C) <= Count(w)
      BY <1>7, <2>7, FS_Subset DEF Count
    <2>9. Cardinality(C) \in Nat
      BY <2>5, FS_CardinalityType
    <2>. HIDE DEF w
    <2>. QED  BY <1>2, <1>6, <1>7, <2>1, <2>2, <2>5, <2>6, <2>8, <2>9 DEF free
  <1>. QED  BY <1>8, <1>9, <1>10, <1>11

LEMMA FreedServes ==
  ASSUME NEW k \in Keys, NEW l \in TidyLock(k), NEW n, Fits(l, n), NEW alive
  PROVE  Fits(FreedAmong(l, {}, alive), n) /\ ~Slack(FreedAmong(l, {}, alive), alive)
PROOF
  <1>. DEFINE m == FreedAmong(l, {}, alive)
              e == [l EXCEPT !.emptied = TRUE]
  <1>1. l \in LockObj /\ Deserted(l, {}) = l
    BY TidyElim, NobodyDeserts
  <1>2. m = Woken(l, alive) \/ (l.notify = <<>> /\ m = e)
    BY <1>1 DEF FreedAmong
  <1>. HIDE DEF m
  <1>3. CASE m = Woken(l, alive)
    <2>1. IsFiniteSet(HoldersOf(l) \cup ServedIds(l, alive))
      BY ServedAreQueued, FS_Union DEF Fits
    <2>2. HoldersOf(m) = HoldersOf(l) \cup ServedIds(l, alive) /\ SameLimits(m, l)
      BY <1>3, WokenHolds, WokenLimits
    <2>3. Fits(m, n)
      BY <2>1, <2>2 DEF Fits, SameLimits
    <2>. QED  BY <1>3, <2>3, WokenServes DEF Fits, m
  <1>4. CASE l.notify = <<>> /\ m = e
    <2>1. m.notify = <<>> /\ SameLimits(m, l) /\ m.lockholders = l.lockholders
      BY <1>1, <1>4 DEF LockObj, SameLimits
    <2>2. HoldersOf(m) = HoldersOf(l)
      BY <2>1 DEF HoldersOf, Holding
    <2>. QED  BY <2>1, <2>2 DEF Fits, SameLimits, Slack, m
  <1>. QED  BY <1>2, <1>3, <1>4

LEMMA FitsKept ==
  ASSUME NEW l, NEW m, NEW n, Fits(l, n), SameLimits(m, l), HoldersOf(m) \subseteq HoldersOf(l)
  PROVE  Fits(m, n)
PROOF
  <1>1. IsFiniteSet(HoldersOf(m))
    BY FS_Subset DEF Fits
  <1>. QED  BY <1>1 DEF Fits, SameLimits

(* A key with as many holders as before, and nobody new in its queue.      *)
LEMMA SlackKept ==
  ASSUME NEW l, NEW m, NEW n \in Nat, Fits(l, n), Fits(m, n), l # None,
         HoldersOf(l) \subseteq HoldersOf(m), NEW alive, Slack(m, alive),
         \A j \in 1..Len(m.notify) : \E i \in 1..Len(l.notify) : l.notify[i] = m.notify[j]
  PROVE  Slack(l, alive)
PROOF
  <1>1. Capacity(l) = n /\ Capacity(m) = n
    BY DEF Fits, Capacity
  <1>2. Count(l) <= Count(m) /\ Count(l) \in Nat /\ Count(m) \in Nat
    BY FS_Subset, FS_CardinalityType DEF Count, Fits
  <1>3. Count(l) < Capacity(l)
    BY <1>1, <1>2 DEF Slack
  <1>. QED  BY <1>3 DEF Slack

SlotsKept(S, L) == \A k \in Keys : L[k] # None => Fits(L[k], S[k])

\* All the calls for a key ask for the same number of slots.
Asking(S) == /\ S \in [Keys -> Nat]
             /\ \A u \in Uuids : (IF Req[u].max # 0 THEN Req[u].max ELSE 1) = S[Req[u].key]
FixedSlots == \E S \in [Keys -> Nat] : Asking(S)

\* A step that keeps the slots and strands nobody.
Tends(S) == SlotsKept(S, locks') /\ (Stranded(locks') => Stranded(locks))

LEMMA StrandedIsSlack == \A L : Stranded(L) <=> \E k \in Keys : Slack(L[k], writable)
PROOF
  BY DEF Stranded, Slack

(* A turn that drains the keys it has changed.                             *)
LEMMA DrainTends ==
  ASSUME NEW S, NEW L, Tidy(L), SlotsKept(S, L), NEW cleared, NEW ks \in SUBSET Keys,
         \A k \in ks : L[k] # None, \A k \in Keys \ ks : L[k] = locks[k],
         EnsureNewLockHolder(ks, L, cleared)
  PROVE  Tends(S)
PROOF
  <1>1. \A k \in Keys : locks'[k] = IF k \in ks THEN FreedAmong(L[k], {}, writable) ELSE L[k]
    BY DEF EnsureNewLockHolder
  <1>2. ASSUME NEW k \in ks
        PROVE  Fits(locks'[k], S[k]) /\ ~Slack(locks'[k], writable)
    <2>. DEFINE l == L[k]
    <2>1. l \in TidyLock(k) /\ Fits(l, S[k])
      BY DEF Tidy, SlotsKept
    <2>2. locks'[k] = FreedAmong(l, {}, writable)
      BY <1>1
    <2>. HIDE DEF l
    <2>. QED  BY <2>1, <2>2, FreedServes
  <1>3. SlotsKept(S, locks')
    BY <1>1, <1>2 DEF SlotsKept
  <1>4. \A k \in Keys : Slack(locks'[k], writable) => Slack(locks[k], writable)
    BY <1>1, <1>2
  <1>. QED  BY <1>3, <1>4, StrandedIsSlack DEF Tends

(* One key gets another lock object, which strands nobody.                 *)
LEMMA KeyTends ==
  ASSUME NEW S, SlotsKept(S, locks), NEW k \in Keys, NEW m, Fits(m, S[k]),
         locks \in [Keys -> LockObj \cup {None}], locks' = [locks EXCEPT ![k] = m],
         Slack(m, writable) => Slack(locks[k], writable)
  PROVE  Tends(S)
PROOF
  <1>1. \A j \in Keys : locks'[j] = IF j = k THEN m ELSE locks[j]
    OBVIOUS
  <1>. QED  BY <1>1, StrandedIsSlack DEF SlotsKept, Tends

LEMMA LeftSlots ==
  ASSUME NEW S, Tidy(locks), SlotsKept(S, locks), NEW k \in Keys, locks[k] # None,
         NEW X, NEW R \in SUBSET Holders
  PROVE  /\ Fits(Left(k, X, R)[k], S[k]) /\ Left(k, X, R)[k].notify = locks[k].notify
         /\ SlotsKept(S, Left(k, X, R))
PROOF
  <1>. DEFINE l == locks[k]
              d == Deserted(l, X)
              m == Forgone(l, X, R)
  <1>1. l \in TidyLock(k) /\ Fits(l, S[k])
    BY DEF Tidy, SlotsKept
  <1>2. \A j \in Keys : Left(k, X, R)[j] = IF j = k THEN m ELSE locks[j]
    BY DEF Left, Tidy
  <1>. HIDE DEF l
  <1>3. SameLimits(m, l) /\ m.notify = l.notify
    <2>1. l \in LockObj
      BY <1>1, TidyElim
    <2>. QED  BY <2>1 DEF Forgone, Deserted, LockObj, SameLimits
  <1>4. HoldersOf(m) \subseteq HoldersOf(l)
    BY <1>1, Departed
  <1>. HIDE DEF m
  <1>5. Fits(m, S[k])
    BY <1>1, <1>3, <1>4, FitsKept
  <1>. QED  BY <1>2, <1>3, <1>5 DEF SlotsKept, l

LEMMA TurnOverTends ==
  ASSUME NEW S, LegacyInv, SlotsKept(S, locks), NEW k \in Keys, locks[k] # None,
         NEW X, NEW R \in SUBSET Holders, EnsureNewLockHolder({k}, Left(k, X, R), X)
  PROVE  Tends(S)
PROOF
  <1>. DEFINE L == Left(k, X, R)
  <1>1. Tidy(L) /\ L[k] # None /\ \A j \in Keys : j # k => L[j] = locks[j]
    BY LeftTidy DEF LegacyInv
  <1>2. SlotsKept(S, L)
    BY LeftSlots DEF LegacyInv
  <1>3. EnsureNewLockHolder({k}, L, X)
    OBVIOUS
  <1>. HIDE DEF L
  <1>. QED  BY <1>1, <1>2, <1>3, DrainTends

(* A call is let in where a slot is free, or queued where none is; the     *)
(* limits it writes are those that are there.                              *)
LEMMA LockedServes ==
  ASSUME NEW S, Asking(S), NEW u \in Uuids, NEW ws \in Sockets, NEW retry \in BOOLEAN,
         NEW l \in TidyLock(Req[u].key) \cup {None}, l # None => Fits(l, S[Req[u].key]), NEW alive
  PROVE  /\ Fits(LockedFrom(l, u, ws, retry), S[Req[u].key])
         /\ Slack(LockedFrom(l, u, ws, retry), alive) => Slack(l, alive)
PROOF
  <1>. DEFINE k == Req[u].key
              n == S[k]
              o == Object(l)
              e == [o EXCEPT !.emptied = FALSE]
              asked == WithLimits(e, u)
              m == LockedFrom(l, u, ws, retry)
              full == l # None /\ IsFull(asked, u)
  <1>1. /\ k \in Keys /\ n \in Nat /\ Req[u].rw = "none"
        /\ (IF Req[u].max # 0 THEN Req[u].max ELSE 1) = n
    BY Callers DEF Asking
  <1>2. o \in LockObj /\ HoldersOf(o) = HeldIn(l)
    BY <1>1, ObjectHolds, TidyElim
  <1>3. Fits(o, n) \/ (l = None /\ o.max = 1 /\ o.maxRead = 0 /\ o.maxWrite = 0 /\ HoldersOf(o) = {})
    BY <1>2 DEF Object, DefaultLockObject, HeldIn
  <1>4. IsFiniteSet(HoldersOf(o)) /\ o.maxRead = 0 /\ o.maxWrite = 0 /\ (o.max = n \/ o.max = 1)
        /\ (l # None => o.max = n)
    BY <1>3, FS_EmptySet DEF Fits, Object
  <1>5. l = None => o.notify = <<>> /\ o.max = 1
    BY DEF Object, DefaultLockObject
  <1>. HIDE DEF o
  <1>6. /\ e \in LockObj /\ e.max = o.max /\ e.maxRead = 0 /\ e.maxWrite = 0
        /\ e.lockholders = o.lockholders /\ e.notify = o.notify
    BY <1>2, <1>4 DEF LockObj
  <1>. HIDE DEF e
  <1>7. /\ asked.max = n /\ asked.maxRead = 0 /\ asked.maxWrite = 0
        /\ asked.lockholders = o.lockholders /\ asked.notify = o.notify /\ asked \in LockObj
    <2>1. asked.max = IF Req[u].max # 0 THEN Req[u].max ELSE o.max
      BY <1>6 DEF WithLimits, LockObj
    <2>2. asked.max = n
      BY <1>1, <1>4, <1>5, <2>1
    <2>3. Req[u].max \in Nat
      BY RequestAssumption DEF LockRequest
    <2>4. /\ asked.maxRead = 0 /\ asked.maxWrite = 0
          /\ asked.lockholders = o.lockholders /\ asked.notify = o.notify /\ asked \in LockObj
      BY <1>1, <1>6, <2>3 DEF WithLimits, LockObj
    <2>. QED  BY <2>2, <2>4
  <1>8. m = IF full THEN [asked EXCEPT !.notify = Enqueue(@, u, ws, retry)]
                    ELSE Installed(CountReader(asked, u), {u})
    BY DEF LockedFrom, o, e
  <1>. HIDE DEF asked
  <1>9. CASE full
    <2>1. m = [asked EXCEPT !.notify = Enqueue(@, u, ws, retry)]
      BY <1>8, <1>9
    <2>. HIDE DEF m
    <2>2. /\ m.max = n /\ m.maxRead = 0 /\ m.maxWrite = 0 /\ m.lockholders = asked.lockholders
      BY <1>7, <2>1 DEF LockObj
    <2>3. HoldersOf(m) = HoldersOf(asked) /\ HoldersOf(m) = HoldersOf(o)
      BY <1>7, <2>2 DEF HoldersOf, Holding
    <2>4. Count(asked) >= n
      BY <1>1, <1>7, <1>9 DEF IsFull
    <2>5. Fits(m, n) /\ Count(m) = Count(asked) /\ Capacity(m) = n
      BY <1>4, <2>2, <2>3 DEF Fits, Count, Capacity
    <2>6. Count(asked) \in Nat
      BY <1>4, <2>3, FS_CardinalityType DEF Count
    <2>7. ~(Count(m) < Capacity(m))
      BY <1>1, <2>4, <2>5, <2>6
    <2>. QED  BY <2>5, <2>7 DEF Slack, m
  <1>10. CASE ~full
    <2>1. CountReader(asked, u) = asked
      BY <1>1, <1>7 DEF CountReader, LockObj
    <2>2. m = Installed(asked, {u})
      BY <1>8, <1>10, <2>1
    <2>. HIDE DEF m, full
    <2>3. m.max = n /\ m.maxRead = 0 /\ m.maxWrite = 0 /\ m.notify = o.notify
      BY <1>7, <2>2 DEF Installed, LockObj
    <2>4. HoldersOf(m) = HoldersOf(o) \cup {u}
      <3>1. m.lockholders = [h \in Holders |-> IF h \in {u} THEN [ws |-> None, token |-> 1]
                                               ELSE o.lockholders[h]]
        BY <1>7, <2>2 DEF Installed, LockObj
      <3>2. u \in Holders
        BY Callers
      <3>. QED  BY <3>1, <3>2 DEF HoldersOf, Holding
    <2>5. Fits(m, n)
      BY <1>4, <2>3, <2>4, FS_AddElement DEF Fits
    <2>6. ASSUME Slack(m, alive)
          PROVE  Slack(l, alive)
      <3>1. l # None
        BY <1>5, <2>3, <2>6 DEF Slack
      <3>2. o = l
        BY <3>1 DEF o, Object
      <3>3. Fits(l, n)
        BY <3>1
      <3>4. \A j \in 1..Len(m.notify) : \E i \in 1..Len(l.notify) : l.notify[i] = m.notify[j]
        BY <2>3, <3>2
      <3>. HIDE DEF n
      <3>. QED  BY <1>1, <2>4, <2>5, <2>6, <3>1, <3>2, <3>3, <3>4, SlackKept
    <2>. QED  BY <2>5, <2>6 DEF m
  <1>. QED  BY <1>9, <1>10

LEMMA LockTends ==
  ASSUME NEW S, Asking(S), LegacyInv, SlotsKept(S, locks),
         NEW u \in Uuids, NEW ws \in Sockets, NEW retry \in BOOLEAN, NEW granted,
         LockCall(u, ws, retry, granted)
  PROVE  Tends(S)
PROOF
  <1>. DEFINE k == Req[u].key
              l == locks[k]
              m == LockedFrom(l, u, ws, retry)
              M == [locks EXCEPT ![k] = m]
  <1>1. k \in Keys /\ l \in TidyLock(k) \cup {None} /\ (l # None => Fits(l, S[k]))
    BY Callers DEF LegacyInv, Tidy, SlotsKept
  <1>2. locks' \in CleanUpLocks(M)
    BY DEF LockCall
  <1>3. locks \in [Keys -> LockObj \cup {None}]
    BY DEF LegacyInv, Tidy
  <1>. HIDE DEF l
  <1>4. Fits(m, S[k]) /\ (Slack(m, writable) => Slack(l, writable))
    BY <1>1, LockedServes
  <1>. HIDE DEF m
  <1>5. PICK old \in SUBSET {j \in Keys : Idling(M[j])} :
               locks' = [j \in Keys |-> IF j \in old THEN None ELSE M[j]]
    BY <1>2 DEF CleanUpLocks
  <1>6. \A j \in Keys : locks'[j] # None => locks'[j] = IF j = k THEN m ELSE locks[j]
    BY <1>3, <1>5
  <1>7. SlotsKept(S, locks')
    BY <1>4, <1>6 DEF SlotsKept
  <1>8. ASSUME NEW j \in Keys, Slack(locks'[j], writable)
        PROVE  Slack(locks[j], writable)
    <2>1. locks'[j] # None
      BY <1>8 DEF Slack
    <2>. QED  BY <1>4, <1>6, <1>8, <2>1 DEF l
  <1>. QED  BY <1>7, <1>8, StrandedIsSlack DEF Tends

LEMMA UnlockTends ==
  ASSUME NEW S, Asking(S), LegacyInv, SlotsKept(S, locks),
         NEW u \in Uuids, NEW ws \in Sockets, UnlockHolder(u, ws) \/ UnlockLate(u, ws)
  PROVE  Tends(S)
PROOF
  <1>. DEFINE k == Req[u].key
              l == locks[k]
  <1>1. k \in Keys
    BY Callers
  <1>2. CASE UnlockHolder(u, ws)
    <2>1. EnsureNewLockHolder({k}, Left(k, {u}, {}), {u}) /\ locks[k] # None
      BY <1>2 DEF UnlockHolder, HeldBy
    <2>. HIDE DEF k, l
    <2>. QED  BY <1>1, <2>1, TurnOverTends
  <1>3. CASE UnlockLate(u, ws)
    <2>. DEFINE R == l.released \ {u}
                m == [l EXCEPT !.released = R]
                L == [locks EXCEPT ![k] = m]
    <2>1. l # None /\ EnsureNewLockHolder({k}, [locks EXCEPT ![k].released = @ \ {u}], {})
      BY <1>3 DEF UnlockLate
    <2>2. l \in TidyLock(k) /\ Fits(l, S[k]) /\ locks \in [Keys -> LockObj \cup {None}]
          /\ \A h \in HoldersOf(l) : Req[h].key = k
      BY <1>1, <2>1 DEF LegacyInv, Tidy, SlotsKept, HeldIn
    <2>3. [locks EXCEPT ![k].released = @ \ {u}] = L
      OBVIOUS
    <2>. HIDE DEF l, k
    <2>4. l \in LockObj
      BY <1>1, <2>2, TidyElim
    <2>5. R \in SUBSET Holders
      BY <2>4 DEF LockObj
    <2>6. SameLimits(m, l)
      BY <2>4 DEF SameLimits, LockObj
    <2>. HIDE DEF R
    <2>7. m \in TidyLock(k) /\ HoldersOf(m) = HoldersOf(l)
      BY <1>1, <2>2, <2>5, ReleasedReplaced
    <2>. HIDE DEF m
    <2>8. Fits(m, S[k]) /\ m # None
      BY <1>1, <2>2, <2>6, <2>7, FitsKept, TidyElim
    <2>9. Tidy(L)
      BY <1>1, <2>2, <2>7, KeyReplaced DEF LegacyInv
    <2>10. \A j \in Keys : L[j] = IF j = k THEN m ELSE locks[j]
      BY <2>2
    <2>. HIDE DEF L
    <2>11. SlotsKept(S, L)
      BY <2>8, <2>10 DEF SlotsKept
    <2>12. EnsureNewLockHolder({k}, L, {})
      BY <2>1, <2>3
    <2>. QED  BY <1>1, <2>8, <2>9, <2>10, <2>11, <2>12, DrainTends
  <1>. QED  BY <1>2, <1>3

LEMMA LockClientTimeoutTends ==
  ASSUME NEW S, Asking(S), LegacyInv, SlotsKept(S, locks),
         NEW u \in Uuids, NEW ws \in Sockets, LockClientTimeout(u, ws)
  PROVE  Tends(S)
PROOF
  <1>. DEFINE k == Req[u].key
              l == locks[k]
              q == l.notify
              m == [l EXCEPT !.notify = Without(@, u)]
  <1>1. k \in Keys /\ l # None /\ Queued(q, u) /\ locks' = [locks EXCEPT ![k] = m]
    BY Callers DEF LockClientTimeout
  <1>2. l \in TidyLock(k) /\ Fits(l, S[k]) /\ S[k] \in Nat /\ locks \in [Keys -> LockObj \cup {None}]
    BY <1>1 DEF LegacyInv, Tidy, SlotsKept, Asking
  <1>. HIDE DEF l, k
  <1>3. m.notify = Without(q, u) /\ SameLimits(m, l)
    <2>1. l \in LockObj
      BY <1>1, <1>2, TidyElim
    <2>. QED  BY <2>1 DEF LockObj, SameLimits
  <1>4. HoldersOf(m) = HoldersOf(l)
    BY <1>1, <1>2, WithoutTidy
  <1>. HIDE DEF m
  <1>5. Fits(m, S[k])
    BY <1>2, <1>3, <1>4, FitsKept
  <1>6. \A j \in 1..Len(m.notify) : \E i \in 1..Len(q) : q[i] = m.notify[j]
    <2>1. q \in Seq(Waiter) /\ Len(q) \in Nat
      BY <1>1, <1>2, TidyElim
    <2>. DEFINE p == CHOOSE i \in 1..Len(q) : q[i].id = u
                r == [j \in 1..(Len(q) - 1) |-> IF j < p THEN q[j] ELSE q[j + 1]]
    <2>2. p \in 1..Len(q) /\ m.notify = r
      BY <1>1, <1>3 DEF Without, Queued
    <2>. HIDE DEF p
    <2>3. DOMAIN r = 1..(Len(q) - 1) /\ Len(q) - 1 \in Nat
      BY <2>1, <2>2
    <2>4. Len(r) = Len(q) - 1
      BY <2>3
    <2>5. \A j \in 1..(Len(q) - 1) : r[j] = q[j] \/ r[j] = q[j + 1]
      OBVIOUS
    <2>. HIDE DEF r
    <2>. QED  BY <2>1, <2>2, <2>4, <2>5
  <1>7. Slack(m, writable) => Slack(l, writable)
    BY <1>1, <1>2, <1>4, <1>5, <1>6, SlackKept
  <1>. QED  BY <1>1, <1>2, <1>5, <1>7, KeyTends DEF l

LEMMA HolderTimesOutTends ==
  ASSUME NEW S, Asking(S), LegacyInv, SlotsKept(S, locks), NEW u \in Uuids, HolderTimesOut(u)
  PROVE  Tends(S)
PROOF
  <1>. DEFINE k == Req[u].key
              l == locks[k]
              X == Expelled(k, u)
  <1>1. k \in Keys /\ {u} \in SUBSET Holders
    BY Callers
  <1>2. CASE u \in HeldBy(locks, k)
    <2>1. EnsureNewLockHolder({k}, Left(k, X, X \cup {u}), X) /\ locks[k] # None
      BY <1>2 DEF HolderTimesOut, HeldBy
    <2>2. X \cup {u} \in SUBSET Holders
      BY <1>1 DEF Expelled, HeldBy, HoldersOf
    <2>. HIDE DEF k, l, X
    <2>. QED  BY <1>1, <2>1, <2>2, TurnOverTends
  <1>3. CASE u \notin HeldBy(locks, k)
    <2>1. locks' = IF l = None THEN locks ELSE Left(k, {}, {u})
      BY <1>3 DEF HolderTimesOut
    <2>2. CASE l = None
      BY <2>1, <2>2 DEF Tends
    <2>3. CASE l # None
      <3>. DEFINE L == Left(k, {}, {u})
      <3>1. locks' = L
        BY <2>1, <2>3
      <3>. HIDE DEF k, l
      <3>2. /\ Fits(L[k], S[k]) /\ L[k].notify = l.notify /\ SlotsKept(S, L)
            /\ HeldIn(L[k]) = HeldIn(l) \ {} /\ L[k] # None
            /\ \A j \in Keys : j # k => L[j] = locks[j]
        BY <1>1, <2>3, LeftSlots, LeftTidy DEF LegacyInv, l
      <3>3. Fits(l, S[k]) /\ S[k] \in Nat
        BY <1>1, <2>3 DEF SlotsKept, Asking, l
      <3>. HIDE DEF L
      <3>4. HoldersOf(l) \subseteq HoldersOf(L[k])
        BY <2>3, <3>2 DEF HeldIn
      <3>5. Slack(L[k], writable) => Slack(l, writable)
        BY <2>3, <3>2, <3>3, <3>4, SlackKept
      <3>. QED  BY <3>1, <3>2, <3>5, StrandedIsSlack DEF Tends, l
    <2>. QED  BY <2>2, <2>3
  <1>. QED  BY <1>2, <1>3

LEMMA CleanupConnectionTends ==
  ASSUME NEW S, LegacyInv, SlotsKept(S, locks), NEW ws \in Sockets, CleanupConnection(ws)
  PROVE  Tends(S)
PROOF
  <1>. DEFINE ks == {k \in Keys : locks[k] # None}
              L == [k \in Keys |-> IF locks[k] = None THEN None
                                   ELSE Left(k, Holders, HeldBy(locks, k) \ CallsFrom(ws))[k]]
              cleared == UNION {HeldBy(locks, k) : k \in Keys}
  <1>1. EnsureNewLockHolder(ks, L, cleared)
    BY DEF CleanupConnection
  <1>2. ASSUME NEW k \in ks
        PROVE  /\ L[k] # None /\ L[k] \in TidyLock(k) /\ Fits(L[k], S[k])
               /\ \A u \in HeldIn(L[k]) : u \in Uuids /\ Req[u].key = k
    <2>. DEFINE R == HeldBy(locks, k) \ CallsFrom(ws)
    <2>1. R \in SUBSET Holders /\ k \in Keys /\ locks[k] # None
      BY DEF HeldBy, HoldersOf
    <2>2. L[k] = Left(k, Holders, R)[k]
      OBVIOUS
    <2>. HIDE DEF R, L
    <2>3. Tidy(Left(k, Holders, R)) /\ Left(k, Holders, R)[k] # None
      BY <2>1, LeftTidy DEF LegacyInv
    <2>4. Fits(Left(k, Holders, R)[k], S[k])
      BY <2>1, LeftSlots DEF LegacyInv
    <2>. QED  BY <2>1, <2>2, <2>3, <2>4 DEF Tidy
  <1>3. /\ \A k \in Keys \ ks : L[k] = None /\ L[k] = locks[k]
        /\ L = [k \in Keys |-> L[k]] /\ ks \in SUBSET Keys
    OBVIOUS
  <1>. HIDE DEF L, ks, cleared
  <1>4. \A k \in Keys : L[k] \in LockObj \cup {None}
    BY <1>2, <1>3, TidyElim
  <1>5. Tidy(L) /\ SlotsKept(S, L)
    BY <1>2, <1>3, <1>4 DEF Tidy, SlotsKept, HeldIn
  <1>. QED  BY <1>1, <1>2, <1>3, <1>5, DrainTends

\* The re-election timer of some key is spent.
Reelected == \E k \in Keys : timeouts[k] # None /\ timeouts'[k] = None

LEMMA ReelectionSlots ==
  ASSUME NEW S, LegacyInv, SlotsKept(S, locks), NEW k \in Keys, Reelection(k)
  PROVE  SlotsKept(S, locks') /\ Reelected
PROOF
  <1>. DEFINE u == timeouts[k].id
              l == locks[k]
  <1>1. Reelected
    BY DEF Reelection, LegacyInv, TimeoutsAtHome, Reelected
  <1>2. CASE l = None
    BY <1>1, <1>2 DEF Reelection
  <1>3. CASE l # None
    <2>1. PICK q : locks' = [locks EXCEPT ![k].lockholders[u] = NoHold, ![k].notify = q]
      BY <1>3 DEF Reelection
    <2>. DEFINE m == [l EXCEPT !.lockholders[u] = NoHold, !.notify = q]
    <2>2. locks' = [locks EXCEPT ![k] = m] /\ locks \in [Keys -> LockObj \cup {None}]
      BY <2>1 DEF LegacyInv, Tidy
    <2>3. l \in TidyLock(k) /\ Fits(l, S[k])
      BY <1>3 DEF LegacyInv, Tidy, SlotsKept
    <2>. HIDE DEF l, u
    <2>4. l \in LockObj
      BY <2>3, TidyElim
    <2>5. SameLimits(m, l) /\ m.lockholders = [l.lockholders EXCEPT ![u] = NoHold]
      BY <2>4 DEF SameLimits, LockObj
    <2>. HIDE DEF m
    <2>6. HoldersOf(m) \subseteq HoldersOf(l)
      <3>1. \A h \in Holders : m.lockholders[h] = IF h = u THEN NoHold ELSE l.lockholders[h]
        BY <2>4, <2>5 DEF LockObj
      <3>. QED  BY <3>1 DEF HoldersOf, Holding, NoHold
    <2>7. Fits(m, S[k])
      BY <2>3, <2>5, <2>6, FitsKept
    <2>8. \A j \in Keys : locks'[j] = IF j = k THEN m ELSE locks[j]
      BY <2>2
    <2>. QED  BY <1>1, <2>7, <2>8 DEF SlotsKept
  <1>. QED  BY <1>2, <1>3

LEMMA SlotsStep ==
  ASSUME NEW S, Asking(S), LegacyInv, SlotsKept(S, locks), [Next]_vars
  PROVE  SlotsKept(S, locks') /\ (Stranded(locks') => Stranded(locks) \/ Reelected)
PROOF
  <1>. SUFFICES Tends(S) \/ (SlotsKept(S, locks') /\ Reelected)
    BY DEF Tends
  <1>1. ASSUME locks' = locks
        PROVE  Tends(S)
    BY <1>1 DEF Tends
  <1>2. ASSUME NEW ws \in Sockets, NEW u \in Uuids,
               \/ LockOnNewKey(u, ws) \/ LockOnFreeKey(u, ws)
               \/ \E retry \in BOOLEAN : LockOnFullKey(u, ws, retry)
        PROVE  Tends(S)
    <2>1. PICK retry \in BOOLEAN, granted \in SUBSET Uuids : LockCall(u, ws, retry, granted)
      BY <1>2 DEF LockOnNewKey, LockOnFreeKey, LockOnFullKey
    <2>. QED  BY <2>1, LockTends
  <1>3. ASSUME NEW ws \in Sockets, NEW u \in Uuids, LockReceivedRejected(u, ws)
        PROVE  Tends(S)
    <2>. DEFINE k == Req[u].key
    <2>1. k \in Keys /\ locks[k] # None /\ EnsureNewLockHolder({k}, locks, {})
      BY <1>3, Callers DEF LockReceivedRejected
    <2>. QED  BY <2>1, DrainTends DEF LegacyInv
  <1>4. ASSUME NEW ws \in Sockets, NEW k \in Keys, NEW id, UnlockForced(k, id, ws)
        PROVE  Tends(S)
    <2>. DEFINE X == IF id # None /\ locks[k].max > 1 THEN {id} \cap HeldBy(locks, k)
                                                      ELSE HeldBy(locks, k)
    <2>1. locks[k] # None /\ EnsureNewLockHolder({k}, Left(k, X, X), X)
      BY <1>4 DEF UnlockForced
    <2>2. X \in SUBSET Holders
      BY DEF HeldBy, HoldersOf
    <2>. HIDE DEF X
    <2>. QED  BY <2>1, <2>2, TurnOverTends
  <1>5. ASSUME UNCHANGED vars \/ (\E ws \in Sockets : BreakConnection(ws) \/ \E k \in Keys : LockReceived(k, ws))
        PROVE  Tends(S)
    <2>1. locks' = locks
      BY <1>5 DEF vars, BreakConnection, LockReceived
    <2>. QED  BY <1>1, <2>1
  <1>6. CASE Frames
    BY <1>2, <1>3, <1>4, <1>5, <1>6, UnlockTends, LockClientTimeoutTends DEF Frames, CallsFrom
  <1>. QED
    BY <1>5, <1>6, HolderTimesOutTends, ReelectionSlots, CleanupConnectionTends
    DEF Next, Connections

(* When all the calls for a key ask for the same number of slots, no turn  *)
(* but that of a re-election timer leaves a live waiter beside a free slot *)
(* that was not there: for any number of calls, sockets and keys, retried  *)
(* calls that are granted while they hold, and queues with dead waiters.   *)
THEOREM TurnsServe ==
  ASSUME FixedSlots
  PROVE  Spec => TurnsStrandNobody
PROOF
  <1>. PICK S \in [Keys -> Nat] : Asking(S)
    BY DEF FixedSlots
  <1>. DEFINE Inv == LegacyInv /\ SlotsKept(S, locks)
  <1>1. Init => Inv
    BY LegacyInit DEF Init, SlotsKept
  <1>2. Inv /\ [Next]_vars => Inv'
    BY LegacyNext, SlotsStep
  <1>3. Inv /\ [Next]_vars
          => [ ~Stranded(locks) /\ Stranded(locks')
                 => \E k \in Keys : timeouts[k] # None /\ timeouts'[k] = None ]_vars
    BY SlotsStep DEF Reelected
  <1>. HIDE DEF Inv
  <1>. QED  BY <1>1, <1>2, <1>3, PTL DEF Spec, TurnsStrandNobody
=============================================================================
