---------------------------- MODULE Broker1Holds ----------------------------
(***************************************************************************)
(* Who holds a key and who waits for it: DeadlineCovers and NoHoldStolen,  *)
(* QueuedOnce, NoHoldAndWait and NoWaiterLost, CompositeRegistered.        *)
(*                                                                         *)
(* The first part says what every step does to the holders and to the      *)
(* queue of each key.  The properties of Broker1 are proved from these     *)
(* effects, so that no other proof has to look inside a lock object.       *)
(*                                                                         *)
(* DeadlineCovers is about the broker between handlers.  It is not         *)
(* inductive: cleanupConnection removes the deadlines of the holds it is   *)
(* about to force-unlock before it releases them, so that in the middle of *)
(* the handler a row of the work list stands for the deadline.             *)
(*                                                                         *)
(* NoHoldAndWait follows from where a composite can be at all: it has not  *)
(* been called, or it is being attempted and holds exactly the keys walked *)
(* so far, or it waits in one queue and holds nothing.                     *)
(*                                                                         *)
(* CompositeRegistered is about the broker between handlers, too: while a  *)
(* composite is released, the rows of its members stand for what it still  *)
(* holds, and they are visited before the row that forgets it.             *)
(***************************************************************************)
EXTENDS Broker1Fencing, FiniteSetTheorems

\* The holders of key k, and its queue, in lock table L.
Holds(L, k) == IF L[k] = None THEN {} ELSE HoldersOf(L[k])
Line(L, k)  == IF L[k] = None THEN <<>> ELSE L[k].notify

\* The count of a key's holders, which the code reads off a Map, is a number.
FewHold == \A k \in Keys : IsFiniteSet(Holds(locks, k))

\* The effects: on the holders ...
HoldsKept      == \A j \in Keys : Holds(locks', j) = Holds(locks, j)
HoldsLose(k, S) ==
  \A j \in Keys : Holds(locks', j) = IF j = k THEN Holds(locks, j) \ S ELSE Holds(locks, j)
HoldsGain(k, h) ==
  \A j \in Keys : Holds(locks', j) = IF j = k THEN Holds(locks, j) \cup {h} ELSE Holds(locks, j)

\* ... and on the queues.
LinesKept == \A j \in Keys : Line(locks', j) = Line(locks, j)
LineIs(k, q) == \A j \in Keys : Line(locks', j) = IF j = k THEN q ELSE Line(locks, j)

SameView(L, M) == \A j \in Keys : Holds(M, j) = Holds(L, j) /\ Line(M, j) = Line(L, j)

-----------------------------------------------------------------------------
(* The lock table.                                                         *)

(* Whoever holds, and whoever waits, in terms of the sets and queues.      *)
LEMMA HeldHolds ==
  ASSUME NEW k, NEW h \in Holders
  PROVE  /\ Held(k, h) <=> h \in Holds(locks, k)
         /\ Held(k, h)' <=> h \in Holds(locks', k)
PROOF
  BY DEF Held, Present, Holds, HoldersOf

(* Replacing one lock object changes the view of its key only.             *)
LEMMA UpdateView ==
  ASSUME NEW L, LocksOK(L), NEW k \in Keys, NEW l \in HomeLock(k)
  PROVE  \A j \in Keys :
           /\ Holds([L EXCEPT ![k] = l], j) = IF j = k THEN HoldersOf(l) ELSE Holds(L, j)
           /\ Line([L EXCEPT ![k] = l], j) = IF j = k THEN l.notify ELSE Line(L, j)
PROOF
  <1>1. /\ [L EXCEPT ![k] = l][k] = l
        /\ l # None
    BY UpdateOK
  <1>2. \A j \in Keys : j # k => [L EXCEPT ![k] = l][j] = L[j]
    BY DEF LocksOK
  <1>. QED  BY <1>1, <1>2 DEF Holds, Line

(* So a change of anything else in a lock object does not show.            *)
LEMMA UpdateUnseen ==
  ASSUME NEW L, LocksOK(L), NEW k \in Keys, L[k] # None, NEW l \in HomeLock(k),
         l.lockholders = L[k].lockholders, l.notify = L[k].notify
  PROVE  SameView(L, [L EXCEPT ![k] = l])
PROOF
  <1>1. HoldersOf(l) = Holds(L, k) /\ l.notify = Line(L, k)
    BY DEF HoldersOf, Holding, Holds, Line
  <1>. QED  BY <1>1, UpdateView DEF SameView

(* A release takes away the holds it names.                                *)
LEMMA ReleasedView ==
  ASSUME LocksOK(locks), NEW k \in Keys, locks[k] # None, NEW S, NEW R \in SUBSET Holders
  PROVE  \A j \in Keys :
           /\ Holds(Released(k, S, R), j) = IF j = k THEN Holds(locks, j) \ S
                                                     ELSE Holds(locks, j)
           /\ Line(Released(k, S, R), j) = Line(locks, j)
PROOF
  <1>. DEFINE l == [locks[k] EXCEPT
                      !.lockholders = [h \in Holders |-> IF h \in S THEN NoHold
                                                         ELSE locks[k].lockholders[h]],
                      !.released = locks[k].released \cup R]
  <1>1. locks[k] \in HomeLock(k) /\ locks \in [Keys -> LockObj \cup {None}]
    BY DEF LocksOK
  <1>2. Released(k, S, R) = [locks EXCEPT ![k] = l]
    BY <1>1 DEF Released, HomeLock, LockObj
  <1>3. locks[k].lockholders \in [Holders -> Hold] /\ NoHold \in Hold
    BY <1>1, NumberAssumption DEF HomeLock, LockObj, NoHold, Hold
  <1>4. l \in HomeLock(k)
    BY <1>1, <1>3 DEF HomeLock, LockObj
  <1>5. /\ l.notify = locks[k].notify
        /\ \A h \in Holders : l.lockholders[h] = IF h \in S THEN NoHold
                                                 ELSE locks[k].lockholders[h]
    BY <1>1 DEF HomeLock, LockObj
  <1>. HIDE DEF l
  <1>6. HoldersOf(l) = Holds(locks, k) \ S /\ l.notify = Line(locks, k)
    BY <1>5 DEF HoldersOf, Holding, Holds, Line, NoHold
  <1>7. \A j \in Keys :
          /\ Holds([locks EXCEPT ![k] = l], j) = IF j = k THEN HoldersOf(l) ELSE Holds(locks, j)
          /\ Line([locks EXCEPT ![k] = l], j) = IF j = k THEN l.notify ELSE Line(locks, j)
    BY <1>4, UpdateView
  <1>. QED  BY <1>2, <1>6, <1>7

(* ensureNewLockHolder itself moves nobody.                                *)
LEMMA EnsureView ==
  ASSUME NEW L, LocksOK(L), NEW k \in Keys, L[k] # None, EnsureNewLockHolder(k, L)
  PROVE  SameView(L, locks')
PROOF
  <1>1. CASE locks' = L
    BY <1>1 DEF SameView
  <1>2. CASE locks' = [L EXCEPT ![k].emptied = TRUE]
    <2>. DEFINE l == [L[k] EXCEPT !.emptied = TRUE]
    <2>1. L[k] \in HomeLock(k) /\ L \in [Keys -> LockObj \cup {None}]
      BY DEF LocksOK
    <2>2. locks' = [L EXCEPT ![k] = l]
      BY <1>2
    <2>3. l \in HomeLock(k) /\ l.lockholders = L[k].lockholders /\ l.notify = L[k].notify
      BY <2>1 DEF HomeLock, LockObj
    <2>. HIDE DEF l
    <2>. QED  BY <2>2, <2>3, UpdateUnseen
  <1>. QED  BY <1>1, <1>2 DEF EnsureNewLockHolder

(* What is collected is held by nobody and awaited by nobody.              *)
LEMMA CleanUpView ==
  ASSUME NEW L, \A k \in Keys : IsFiniteSet(Holds(L, k)), NEW M \in CleanUpLocks(L)
  PROVE  SameView(L, M)
PROOF
  <1>1. PICK old \in SUBSET Collectable(L) :
          M = [k \in Keys |-> IF k \in old THEN None ELSE L[k]]
    BY DEF CleanUpLocks
  <1>2. ASSUME NEW k \in Keys, k \in old
        PROVE  Holds(L, k) = {} /\ Line(L, k) = <<>>
    <2>1. L[k] # None /\ Count(L[k]) < 1 /\ L[k].notify = <<>>
      BY <1>2 DEF Collectable
    <2>2. Holds(L, k) = HoldersOf(L[k]) /\ IsFiniteSet(HoldersOf(L[k]))
      BY <2>1 DEF Holds
    <2>3. Cardinality(HoldersOf(L[k])) = 0
      BY <2>1, <2>2, FS_CardinalityType DEF Count
    <2>. QED  BY <2>1, <2>2, <2>3, FS_EmptySet DEF Line
  <1>. QED  BY <1>1, <1>2 DEF SameView, Holds, Line

(* Nor does judging a request move anybody.                                *)
LEMMA TouchedView ==
  ASSUME LocksOK(locks), NEW u \in Uuids
  PROVE  SameView(locks, Touched(u))
PROOF
  <1>. DEFINE k == Req[u].key
  <1>1. k \in Keys
    BY RequestType
  <1>2. CASE locks[k] = None
    BY <1>2 DEF Touched, SameView
  <1>3. CASE locks[k] # None
    <2>. DEFINE e == [locks[k] EXCEPT !.emptied = FALSE]
                l == WithLimits(e, u)
    <2>1. locks[k] \in HomeLock(k) /\ locks \in [Keys -> LockObj \cup {None}]
      BY <1>1, <1>3 DEF LocksOK
    <2>2. /\ e \in HomeLock(k)
          /\ e.lockholders = locks[k].lockholders
          /\ e.notify = locks[k].notify
      BY <2>1 DEF HomeLock, LockObj
    <2>3. Touched(u) = [locks EXCEPT ![k] = l]
      BY <1>3, <2>1 DEF Touched
    <2>. HIDE DEF e
    <2>4. l \in HomeLock(k) /\ l.lockholders = locks[k].lockholders
      BY <1>1, <2>2, WithLimitsType
    <2>5. l.notify = locks[k].notify
      BY <2>2 DEF WithLimits, HomeLock, LockObj
    <2>. HIDE DEF l
    <2>6. SameView(locks, [locks EXCEPT ![k] = l])
      BY <1>1, <1>3, <2>4, <2>5, UpdateUnseen
    <2>. QED  BY <2>3, <2>6
  <1>. QED  BY <1>2, <1>3

(* Limits and reader counts are not about the queue.                       *)
LEMMA LimitsKeepLine ==
  ASSUME NEW l \in LockObj, NEW u \in Uuids
  PROVE  WithLimits(l, u).notify = l.notify /\ CountReader(l, u).notify = l.notify
PROOF
  BY DEF WithLimits, CountReader, LockObj

(* A grant adds one holder.                                                *)
LEMMA InstallView ==
  ASSUME IInv, NEW k \in Keys, NEW h \in Holders, NEW ws \in Sockets, locks[k] # None,
         Install(k, h, ws)
  PROVE  HoldsGain(k, h) /\ LinesKept
PROOF
  <1>1. LocksOK(locks) /\ NextToken(k) \in 0..MaxToken
    BY IInvLocks, InstallTypes
  <1>2. locks[k] \in HomeLock(k) /\ locks \in [Keys -> LockObj \cup {None}]
    BY <1>1 DEF LocksOK
  <1>. DEFINE l == [locks[k] EXCEPT
                      !.nextFencingToken = NextToken(k),
                      !.lockholders = [locks[k].lockholders EXCEPT
                                         ![h] = [ws |-> ws, token |-> NextToken(k)]],
                      !.emptied = locks[k].emptied /\ h \in Uuids]
  <1>3. locks' = [locks EXCEPT ![k] = l]
    BY <1>2 DEF Install, HomeLock, LockObj
  <1>4. [ws |-> ws, token |-> NextToken(k)] \in Hold
    BY <1>1 DEF Hold
  <1>5. /\ l \in HomeLock(k) /\ l.notify = locks[k].notify
        /\ \A g \in Holders : l.lockholders[g] =
             IF g = h THEN [ws |-> ws, token |-> NextToken(k)] ELSE locks[k].lockholders[g]
    BY <1>1, <1>2, <1>4 DEF HomeLock, LockObj
  <1>. HIDE DEF l
  <1>6. NextToken(k) # 0
    BY <1>2, NumberAssumption DEF NextToken, HomeLock, LockObj
  <1>7. HoldersOf(l) = Holds(locks, k) \cup {h} /\ l.notify = Line(locks, k)
    BY <1>5, <1>6 DEF HoldersOf, Holding, Holds, Line
  <1>8. \A j \in Keys :
          /\ Holds([locks EXCEPT ![k] = l], j) = IF j = k THEN HoldersOf(l) ELSE Holds(locks, j)
          /\ Line([locks EXCEPT ![k] = l], j) = IF j = k THEN l.notify ELSE Line(locks, j)
    BY <1>1, <1>5, UpdateView
  <1>. QED  BY <1>3, <1>7, <1>8 DEF HoldsGain, LinesKept

(* Undoing an attempt takes away what it got.                              *)
LEMMA RolledBackView ==
  ASSUME LocksOK(locks), NEW m \in Holders, NEW ks, \A j \in ks : locks[j] # None
  PROVE  \A j \in Keys :
           /\ Holds(RolledBack(m, ks), j) = IF j \in ks THEN Holds(locks, j) \ {m}
                                                        ELSE Holds(locks, j)
           /\ Line(RolledBack(m, ks), j) = Line(locks, j)
PROOF
  <1>. TAKE j \in Keys
  <1>1. CASE j \notin ks
    BY <1>1 DEF RolledBack, Holds, Line
  <1>2. CASE j \in ks
    <2>. DEFINE l == [locks[j] EXCEPT !.lockholders =
                        [locks[j].lockholders EXCEPT ![m] = NoHold]]
    <2>1. locks[j] # None /\ locks[j] \in HomeLock(j)
      BY <1>2 DEF LocksOK
    <2>2. RolledBack(m, ks)[j] = l
      BY <1>2 DEF RolledBack
    <2>3. /\ l.notify = locks[j].notify
          /\ \A g \in Holders : l.lockholders[g] =
               IF g = m THEN NoHold ELSE locks[j].lockholders[g]
      BY <2>1 DEF HomeLock, LockObj
    <2>4. NoHold \in Hold
      BY NumberAssumption DEF NoHold, Hold
    <2>5. l \in HomeLock(j)
      BY <2>1, <2>4 DEF HomeLock, LockObj
    <2>6. l # None
      BY <2>5, NullAssumption DEF HomeLock
    <2>. HIDE DEF l
    <2>. QED  BY <1>2, <2>1, <2>2, <2>3, <2>6 DEF Holds, Line, HoldersOf, Holding, NoHold
  <1>. QED  BY <1>1, <1>2

(* Another queue for one key.                                              *)
LEMMA NotifyView ==
  ASSUME NEW L, LocksOK(L), NEW k \in Keys, L[k] # None, NEW q \in HomeQueue(k)
  PROVE  LET M == [L EXCEPT ![k].notify = q]
         IN  \A j \in Keys : /\ Holds(M, j) = Holds(L, j)
                             /\ Line(M, j) = IF j = k THEN q ELSE Line(L, j)
PROOF
  <1>. DEFINE l == [L[k] EXCEPT !.notify = q]
  <1>1. L[k] \in HomeLock(k)
    BY DEF LocksOK
  <1>2. l \in HomeLock(k) /\ l.lockholders = L[k].lockholders /\ l.notify = q
    BY <1>1, HomeNotify DEF HomeLock, LockObj
  <1>3. [L EXCEPT ![k].notify = q] = [L EXCEPT ![k] = l]
    OBVIOUS
  <1>. HIDE DEF l
  <1>4. HoldersOf(l) = Holds(L, k)
    BY <1>2 DEF HoldersOf, Holding, Holds
  <1>5. \A j \in Keys :
          /\ Holds([L EXCEPT ![k] = l], j) = IF j = k THEN HoldersOf(l) ELSE Holds(L, j)
          /\ Line([L EXCEPT ![k] = l], j) = IF j = k THEN l.notify ELSE Line(L, j)
    BY <1>2, UpdateView
  <1>. QED  BY <1>2, <1>3, <1>4, <1>5

-----------------------------------------------------------------------------
(* lock().                                                                 *)

LEMMA TouchedFew ==
  ASSUME IInv, FewHold, NEW u \in Uuids
  PROVE  \A k \in Keys : IsFiniteSet(Holds(Touched(u), k))
PROOF
  <1>1. SameView(locks, Touched(u))
    BY IInvLocks, TouchedView
  <1>. QED  BY <1>1 DEF SameView, FewHold

LEMMA LockOnNewKeyEffect ==
  ASSUME IInv, FewHold, NEW u \in Uuids, NEW ws \in Sockets, LockOnNewKey(u, ws)
  PROVE  HoldsKept /\ LinesKept
PROOF
  <1>. DEFINE k == Req[u].key
  <1>1. PICK now \in Clock, L \in CleanUpLocks(locks) :
          /\ Seed(now) <= MaxToken
          /\ locks' = [L EXCEPT
                ![k] = CountReader(WithLimits(DefaultLockObject(Seed(now)), u), u)]
    BY DEF LockOnNewKey
  <1>2. k \in Keys /\ locks[k] = None /\ LocksOK(locks)
    BY RequestType, IInvLocks DEF LockOnNewKey
  <1>3. Seed(now) \in 0..MaxToken
    BY <1>1, AuthorityAssumption, NumberAssumption DEF Seed, Larger, IInv, TypeOK
  <1>4. LocksOK(L) /\ SameView(locks, L)
    BY <1>2, SameKept, CleanUpOK, CleanUpView DEF FewHold
  <1>. DEFINE d == DefaultLockObject(Seed(now))
              w == WithLimits(d, u)
              l == CountReader(w, u)
  <1>5. d \in HomeLock(k) /\ d.lockholders = [h \in Holders |-> NoHold] /\ d.notify = <<>>
    BY <1>2, <1>3, DefaultLockObjectType DEF DefaultLockObject
  <1>. HIDE DEF d
  <1>6. w \in HomeLock(k) /\ w.lockholders = d.lockholders /\ w.notify = d.notify
    BY <1>2, <1>5, WithLimitsType, LimitsKeepLine DEF HomeLock
  <1>. HIDE DEF w
  <1>7. l \in HomeLock(k) /\ l.lockholders = w.lockholders /\ l.notify = w.notify
    BY <1>2, <1>6, CountReaderType, LimitsKeepLine DEF HomeLock
  <1>8. locks' = [L EXCEPT ![k] = l]
    BY <1>1 DEF d, w
  <1>. HIDE DEF l
  <1>9. HoldersOf(l) = {} /\ l.notify = <<>>
    BY <1>5, <1>6, <1>7 DEF HoldersOf, Holding, NoHold
  <1>10. \A j \in Keys :
           /\ Holds([L EXCEPT ![k] = l], j) = IF j = k THEN HoldersOf(l) ELSE Holds(L, j)
           /\ Line([L EXCEPT ![k] = l], j) = IF j = k THEN l.notify ELSE Line(L, j)
    BY <1>2, <1>4, <1>7, UpdateView
  <1>11. Holds(locks, k) = {} /\ Line(locks, k) = <<>>
    BY <1>2 DEF Holds, Line
  <1>. QED  BY <1>4, <1>8, <1>9, <1>10, <1>11 DEF HoldsKept, LinesKept, SameView

LEMMA LockOnNewKeyFailsEffect ==
  ASSUME FewHold, NEW u \in Uuids, NEW ws \in Sockets, LockOnNewKeyFails(u, ws)
  PROVE  HoldsKept /\ LinesKept
PROOF
  <1>1. SameView(locks, locks')
    BY CleanUpView DEF LockOnNewKeyFails, FewHold
  <1>. QED  BY <1>1 DEF SameView, HoldsKept, LinesKept

(* The table after a collection, seen from the one before the call.        *)
LEMMA TouchedCollectedView ==
  ASSUME IInv, FewHold, NEW u \in Uuids, NEW L \in CleanUpLocks(Touched(u))
  PROVE  SameView(locks, L)
PROOF
  <1>1. SameView(locks, Touched(u)) /\ SameView(Touched(u), L)
    BY IInvLocks, TouchedView, TouchedFew, CleanUpView
  <1>. QED  BY <1>1 DEF SameView

LEMMA LockOnFreeKeyEffect ==
  ASSUME IInv, FewHold, NEW u \in Uuids, NEW ws \in Sockets, LockOnFreeKey(u, ws)
  PROVE  HoldsKept /\ LinesKept
PROOF
  <1>. DEFINE k == Req[u].key
  <1>1. PICK L \in CleanUpLocks(Touched(u)) :
          locks' = [L EXCEPT ![k] = CountReader(L[k], u)]
    BY DEF LockOnFreeKey
  <1>2. k \in Keys /\ LocksOK(L) /\ L[k] \in HomeLock(k) /\ L[k] # None
    BY RequestType, TouchedCollected, NullAssumption DEF LockOnFreeKey, HomeLock
  <1>. DEFINE l == CountReader(L[k], u)
  <1>3. l \in HomeLock(k) /\ l.lockholders = L[k].lockholders /\ l.notify = L[k].notify
    BY <1>2, CountReaderType, LimitsKeepLine DEF HomeLock
  <1>. HIDE DEF l
  <1>4. SameView(L, [L EXCEPT ![k] = l]) /\ SameView(locks, L)
    BY <1>2, <1>3, UpdateUnseen, TouchedCollectedView
  <1>5. locks' = [L EXCEPT ![k] = l]
    BY <1>1 DEF l
  <1>. QED  BY <1>4, <1>5 DEF SameView, HoldsKept, LinesKept

LEMMA LockOnFullKeyEffect ==
  ASSUME IInv, FewHold, NEW u \in Uuids, NEW ws \in Sockets, NEW retry \in BOOLEAN,
         LockOnFullKey(u, ws, retry)
  PROVE  /\ HoldsKept
         /\ LinesKept \/ LineIs(Req[u].key, Enqueue(Line(locks, Req[u].key), u, ws, retry))
PROOF
  <1>. DEFINE k == Req[u].key
  <1>1. PICK L \in CleanUpLocks(Touched(u)) :
          locks' = IF Req[u].wait
                   THEN [L EXCEPT ![k].notify = Enqueue(L[k].notify, u, ws, retry)]
                   ELSE L
    BY DEF LockOnFullKey
  <1>2. /\ k \in Keys /\ LocksOK(L) /\ L[k] \in HomeLock(k) /\ L[k] # None
        /\ SameView(locks, L)
    BY RequestType, TouchedCollected, TouchedCollectedView, NullAssumption
    DEF LockOnFullKey, HomeLock
  <1>3. Line(locks, k) = L[k].notify
    BY <1>2 DEF SameView, Line
  <1>. DEFINE q == Enqueue(L[k].notify, u, ws, retry)
  <1>4. q \in HomeQueue(k)
    BY <1>2, EnqueueHome DEF HomeLock
  <1>5. CASE ~Req[u].wait
    BY <1>1, <1>2, <1>5 DEF SameView, HoldsKept, LinesKept
  <1>6. CASE Req[u].wait
    <2>. DEFINE M == [L EXCEPT ![k].notify = q]
    <2>1. locks' = M
      BY <1>1, <1>6
    <2>. HIDE DEF q
    <2>2. \A j \in Keys : /\ Holds(M, j) = Holds(L, j)
                          /\ Line(M, j) = IF j = k THEN q ELSE Line(L, j)
      BY <1>2, <1>4, NotifyView
    <2>. HIDE DEF M
    <2>3. HoldsKept /\ LineIs(k, q)
      BY <1>2, <2>1, <2>2 DEF SameView, HoldsKept, LineIs
    <2>. QED  BY <1>3, <2>3 DEF q
  <1>. QED  BY <1>5, <1>6

-----------------------------------------------------------------------------
(* unlock() and the other handlers that end in ensureNewLockHolder.        *)

LEMMA ReleaseEffect ==
  ASSUME IInv, NEW k \in Keys, locks[k] # None, NEW S, NEW R \in SUBSET Holders,
         EnsureNewLockHolder(k, Released(k, S, R))
  PROVE  HoldsLose(k, S) /\ LinesKept
PROOF
  <1>1. LocksOK(locks) /\ LocksOK(Released(k, S, R)) /\ Released(k, S, R)[k] # None
    BY IInvLocks, ReleasedOK
  <1>2. SameView(Released(k, S, R), locks')
    BY <1>1, EnsureView
  <1>3. \A j \in Keys :
          /\ Holds(Released(k, S, R), j) = IF j = k THEN Holds(locks, j) \ S
                                                    ELSE Holds(locks, j)
          /\ Line(Released(k, S, R), j) = Line(locks, j)
    BY <1>1, ReleasedView
  <1>. QED  BY <1>2, <1>3 DEF SameView, HoldsLose, LinesKept

LEMMA UnlockLateEffect ==
  ASSUME IInv, NEW k \in Keys, NEW u, NEW ws, UnlockLate(k, u, ws)
  PROVE  HoldsKept /\ LinesKept
PROOF
  <1>. DEFINE l == [locks[k] EXCEPT !.released = locks[k].released \ {u}]
  <1>1. LocksOK(locks) /\ locks[k] # None /\ locks[k] \in HomeLock(k)
    BY IInvLocks DEF UnlockLate, LocksOK
  <1>2. l \in HomeLock(k) /\ l.lockholders = locks[k].lockholders /\ l.notify = locks[k].notify
    BY <1>1 DEF HomeLock, LockObj
  <1>3. EnsureNewLockHolder(k, [locks EXCEPT ![k] = l])
    BY DEF UnlockLate
  <1>. HIDE DEF l
  <1>4. /\ LocksOK([locks EXCEPT ![k] = l]) /\ [locks EXCEPT ![k] = l][k] # None
        /\ SameView(locks, [locks EXCEPT ![k] = l])
    BY <1>1, <1>2, UpdateOK, UpdateUnseen
  <1>5. SameView([locks EXCEPT ![k] = l], locks')
    BY <1>3, <1>4, EnsureView
  <1>. QED  BY <1>4, <1>5 DEF SameView, HoldsKept, LinesKept

LEMMA LockReceivedRejectedEffect ==
  ASSUME IInv, NEW u \in Uuids, NEW ws, LockReceivedRejected(u, ws)
  PROVE  HoldsKept /\ LinesKept
PROOF
  <1>1. /\ Req[u].key \in Keys /\ locks[Req[u].key] # None /\ LocksOK(locks)
        /\ EnsureNewLockHolder(Req[u].key, locks)
    BY RequestType, IInvLocks DEF LockReceivedRejected
  <1>2. SameView(locks, locks')
    BY <1>1, EnsureView
  <1>. QED  BY <1>2 DEF SameView, HoldsKept, LinesKept

(* The rows of a sweep, of releaseMany and of a cleanup release their ids. *)
LEMMA EvictEffect ==
  ASSUME IInv, NEW t \in work, Evict(t)
  PROVE  HoldsLose(t.key, t.ids) /\ LinesKept
PROOF
  <1>. DEFINE S == t.ids \cap HoldersOf(locks[t.key])
  <1>1. t.key \in Keys /\ S \in SUBSET Holders
    BY TaskType DEF Evict
  <1>2. CASE locks[t.key] # None /\ EnsureNewLockHolder(t.key, Released(t.key, S, S))
    <2>1. HoldsLose(t.key, S) /\ LinesKept
      BY <1>1, <1>2, ReleaseEffect
    <2>2. Holds(locks, t.key) \ S = Holds(locks, t.key) \ t.ids
      BY <1>2 DEF Holds
    <2>. QED  BY <2>1, <2>2 DEF HoldsLose
  <1>3. CASE locks' = locks /\ (locks[t.key] = None \/ S = {})
    <2>1. Holds(locks, t.key) \ t.ids = Holds(locks, t.key)
      BY <1>3 DEF Holds
    <2>. QED  BY <1>3, <2>1 DEF HoldsLose, LinesKept
  <1>. QED  BY <1>2, <1>3 DEF Evict

LEMMA ReleaseMemberEffect ==
  ASSUME IInv, NEW t \in work, ReleaseMember(t)
  PROVE  HoldsLose(t.key, t.ids) /\ LinesKept
PROOF
  <1>. DEFINE R == t.ids \cap HoldersOf(locks[t.key])
  <1>1. t.key \in Keys /\ R \in SUBSET Holders
    BY TaskType DEF ReleaseMember
  <1>2. CASE locks[t.key] # None
    BY <1>1, <1>2, ReleaseEffect DEF ReleaseMember
  <1>3. CASE locks[t.key] = None
    BY <1>3 DEF ReleaseMember, HoldsLose, LinesKept, Holds
  <1>. QED  BY <1>2, <1>3

LEMMA ForcedUnlockEffect ==
  ASSUME IInv, NEW t \in work, ForcedUnlock(t)
  PROVE  HoldsLose(t.key, t.ids) /\ LinesKept
PROOF
  <1>. DEFINE S == t.ids \cap HoldersOf(locks[t.key])
  <1>1. t.key \in Keys /\ S \in SUBSET Holders
    BY TaskType DEF ForcedUnlock, CleaningUp
  <1>2. CASE locks[t.key] # None /\ EnsureNewLockHolder(t.key, Released(t.key, S, S))
    <2>1. HoldsLose(t.key, S) /\ LinesKept
      BY <1>1, <1>2, ReleaseEffect
    <2>2. Holds(locks, t.key) \ S = Holds(locks, t.key) \ t.ids
      BY <1>2 DEF Holds
    <2>. QED  BY <2>1, <2>2 DEF HoldsLose
  <1>3. CASE locks' = locks /\ (locks[t.key] = None \/ S = {})
    <2>1. Holds(locks, t.key) \ t.ids = Holds(locks, t.key)
      BY <1>3 DEF Holds
    <2>. QED  BY <1>3, <2>1 DEF HoldsLose, LinesKept
  <1>. QED  BY <1>2, <1>3 DEF ForcedUnlock

-----------------------------------------------------------------------------
(* Withdrawals from the queue.                                             *)

LEMMA LockClientTimeoutEffect ==
  ASSUME IInv, NEW u \in Uuids, NEW ws, LockClientTimeout(u, ws)
  PROVE  HoldsKept /\ LineIs(Req[u].key, Without(Line(locks, Req[u].key), u))
PROOF
  <1>. DEFINE k == Req[u].key
              q == Without(locks[k].notify, u)
              M == [locks EXCEPT ![k].notify = q]
  <1>1. k \in Keys /\ locks[k] # None /\ LocksOK(locks) /\ locks[k] \in HomeLock(k)
    BY RequestType, IInvLocks DEF LockClientTimeout, LocksOK
  <1>2. q \in HomeQueue(k)
    BY <1>1, WithoutHome DEF HomeLock
  <1>3. locks' = M
    BY DEF LockClientTimeout
  <1>4. q = Without(Line(locks, k), u)
    BY <1>1 DEF Line
  <1>. HIDE DEF q
  <1>5. \A j \in Keys : /\ Holds(M, j) = Holds(locks, j)
                        /\ Line(M, j) = IF j = k THEN q ELSE Line(locks, j)
    BY <1>1, <1>2, NotifyView
  <1>. QED  BY <1>3, <1>4, <1>5 DEF HoldsKept, LineIs

LEMMA ScrubWaiterEffect ==
  ASSUME IInv, NEW t \in work, ScrubWaiter(t)
  PROVE  /\ HoldsKept
         /\ LineIs(t.key, Without(Line(locks, t.key), CHOOSE u \in t.ids : TRUE))
PROOF
  <1>. DEFINE k == t.key
              u == CHOOSE v \in t.ids : TRUE
              l == [locks[k] EXCEPT !.notify = Without(locks[k].notify, u)]
  <1>1. k \in Keys /\ LocksOK(locks)
    BY TaskType, IInvLocks DEF ScrubWaiter, CleaningUp
  <1>2. CASE locks[k] = None
    <2>1. locks' = locks
      BY <1>1, <1>2 DEF ScrubWaiter, LocksOK
    <2>2. Without(Line(locks, k), u) = Line(locks, k)
      BY <1>2 DEF Line, Without, Queued
    <2>. QED  BY <2>1, <2>2 DEF HoldsKept, LineIs
  <1>3. CASE locks[k] # None
    <2>1. locks[k] \in HomeLock(k) /\ Line(locks, k) = locks[k].notify
      BY <1>1, <1>3 DEF LocksOK, Line
    <2>2. Without(locks[k].notify, u) \in HomeQueue(k)
      BY <1>1, <2>1, WithoutHome DEF HomeLock
    <2>3. l \in HomeLock(k) /\ l.lockholders = locks[k].lockholders
      BY <1>1, <2>1, <2>2, HomeNotify
    <2>4. l.notify = Without(Line(locks, k), u)
      BY <2>1 DEF HomeLock, LockObj
    <2>5. \A j \in Keys : locks'[j] = IF j = k THEN l ELSE locks[j]
      BY <1>3 DEF ScrubWaiter
    <2>6. l # None
      BY <2>3, NullAssumption DEF HomeLock
    <2>. HIDE DEF l, u
    <2>7. HoldersOf(l) = Holds(locks, k)
      BY <1>3, <2>3 DEF Holds, HoldersOf, Holding
    <2>8. HoldsKept /\ LineIs(k, Without(Line(locks, k), u))
      BY <2>4, <2>5, <2>6, <2>7 DEF HoldsKept, LineIs, Holds, Line
    <2>. QED  BY <2>8 DEF u
  <1>. QED  BY <1>2, <1>3

-----------------------------------------------------------------------------
(* Grants.                                                                 *)

LEMMA GrantLockEffect ==
  ASSUME IInv, GrantLock
  PROVE  /\ granting.id \in Uuids /\ Req[granting.id].key \in Keys
         /\ Install(Req[granting.id].key, granting.id, granting.ws)
         /\ HoldsGain(Req[granting.id].key, granting.id) /\ LinesKept
PROOF
  <1>1. /\ granting.id \in Uuids /\ granting.id \in Holders /\ granting.ws \in Sockets
        /\ Req[granting.id].key \in Keys /\ locks[Req[granting.id].key] # None
        /\ Install(Req[granting.id].key, granting.id, granting.ws)
    BY GrantingType DEF GrantLock, GrantingPlain
  <1>. QED  BY <1>1, InstallView

LEMMA ManyGrantsKeyEffect ==
  ASSUME IInv, ManyGrantsKey
  PROVE  /\ granting.id \in ManyIds /\ ManyKey \in Keys
         /\ Install(ManyKey, granting.id, granting.ws)
         /\ HoldsGain(ManyKey, granting.id) /\ LinesKept
PROOF
  <1>1. /\ granting.id \in ManyIds /\ granting.id \in Holders /\ granting.ws \in Sockets
        /\ ManyKey \in Keys /\ locks[ManyKey] # None
        /\ Install(ManyKey, granting.id, granting.ws)
    BY GrantingType DEF ManyGrantsKey, GrantingMany
  <1>. QED  BY <1>1, InstallView

LEMMA ManyCreatesLockEffect ==
  ASSUME IInv, ManyCreatesLock
  PROVE  HoldsKept /\ LinesKept
PROOF
  <1>1. PICK now \in Clock :
          /\ Seed(now) <= MaxToken
          /\ locks' = [locks EXCEPT ![ManyKey] = DefaultLockObject(Seed(now))]
    BY DEF ManyCreatesLock
  <1>2. ManyKey \in Keys /\ LocksOK(locks) /\ locks[ManyKey] = None
    BY GrantingType, IInvLocks DEF ManyCreatesLock, GrantingMany
  <1>3. Seed(now) \in 0..MaxToken
    BY <1>1, AuthorityAssumption, NumberAssumption DEF Seed, Larger, IInv, TypeOK
  <1>. DEFINE l == DefaultLockObject(Seed(now))
  <1>4. l \in HomeLock(ManyKey)
    BY <1>2, <1>3, DefaultLockObjectType
  <1>5. HoldersOf(l) = {} /\ l.notify = <<>>
    BY DEF DefaultLockObject, HoldersOf, Holding, NoHold
  <1>. HIDE DEF l
  <1>6. \A j \in Keys :
          /\ Holds([locks EXCEPT ![ManyKey] = l], j) =
               IF j = ManyKey THEN HoldersOf(l) ELSE Holds(locks, j)
          /\ Line([locks EXCEPT ![ManyKey] = l], j) =
               IF j = ManyKey THEN l.notify ELSE Line(locks, j)
    BY <1>2, <1>4, UpdateView
  <1>7. locks' = [locks EXCEPT ![ManyKey] = l]
    BY <1>1 DEF l
  <1>8. Holds(locks, ManyKey) = {} /\ Line(locks, ManyKey) = <<>>
    BY <1>2 DEF Holds, Line
  <1>. QED  BY <1>5, <1>6, <1>7, <1>8 DEF HoldsKept, LinesKept

LEMMA ManyFailsEffect ==
  ASSUME IInv, ManyFails
  PROVE  HoldsKept /\ LinesKept
PROOF
  <1>1. ManyKey \in Keys /\ LocksOK(locks)
    BY GrantingType, IInvLocks DEF ManyFails, GrantingMany
  <1>2. CASE locks[ManyKey] = None
    BY <1>2 DEF ManyFails, HoldsKept, LinesKept
  <1>3. CASE locks[ManyKey] # None
    <2>. DEFINE l == [locks[ManyKey] EXCEPT !.emptied = FALSE]
    <2>1. locks' = [locks EXCEPT ![ManyKey] = l]
      BY <1>3 DEF ManyFails
    <2>2. locks[ManyKey] \in HomeLock(ManyKey)
      BY <1>1, <1>3 DEF LocksOK
    <2>3. /\ l \in HomeLock(ManyKey) /\ l.lockholders = locks[ManyKey].lockholders
          /\ l.notify = locks[ManyKey].notify
      BY <2>2 DEF HomeLock, LockObj
    <2>. HIDE DEF l
    <2>4. SameView(locks, [locks EXCEPT ![ManyKey] = l])
      BY <1>1, <1>3, <2>3, UpdateUnseen
    <2>. QED  BY <2>1, <2>4 DEF SameView, HoldsKept, LinesKept
  <1>. QED  BY <1>2, <1>3

(* A contended attempt loses every key it got, and its caller waits on the *)
(* contended key unless it only wanted to try.                             *)
LEMMA ManyIsContendedEffect ==
  ASSUME IInv, ManyIsContended
  PROVE  /\ granting.id \in ManyIds /\ ManyKey \in Keys
         /\ \A j \in Keys : Holds(locks', j) = IF j \in WalkedSoFar
                                               THEN Holds(locks, j) \ {granting.id}
                                               ELSE Holds(locks, j)
         /\ \/ LinesKept /\ ~granting.queued
            \/ LineIs(ManyKey, Rejoin(Line(locks, ManyKey),
                                      [id |-> granting.id, ws |-> granting.ws]))
PROOF
  <1>. DEFINE m == granting.id
              w == [id |-> m, ws |-> granting.ws]
              R == RolledBack(m, WalkedSoFar)
  <1>1. /\ m \in ManyIds /\ m \in Holders /\ m \notin Uuids /\ granting.ws \in Sockets
        /\ ManyKey \in Keys /\ locks[ManyKey] # None /\ LocksOK(locks)
        /\ \A j \in WalkedSoFar : j \in Keys /\ locks[j] # None
    BY GrantingType, IInvLocks, NameAssumption DEF ManyIsContended, GrantingMany, WalkedSoFar
  <1>2. /\ LocksOK(R)
        /\ \A k \in Keys : R[k] # None <=> locks[k] # None
    BY <1>1, RolledBackOK
  <1>3. \A j \in Keys :
          /\ Holds(R, j) = IF j \in WalkedSoFar THEN Holds(locks, j) \ {m} ELSE Holds(locks, j)
          /\ Line(R, j) = Line(locks, j)
    BY <1>1, RolledBackView
  <1>4. \/ locks' = R /\ ~granting.queued
        \/ locks' = [R EXCEPT ![ManyKey].notify = Rejoin(R[ManyKey].notify, w)]
    BY DEF ManyIsContended
  <1>. HIDE DEF R
  <1>5. CASE locks' = R /\ ~granting.queued
    BY <1>1, <1>3, <1>5 DEF LinesKept
  <1>6. CASE locks' = [R EXCEPT ![ManyKey].notify = Rejoin(R[ManyKey].notify, w)]
    <2>. DEFINE q == Rejoin(R[ManyKey].notify, w)
                M == [R EXCEPT ![ManyKey].notify = q]
    <2>1. R[ManyKey] # None /\ R[ManyKey] \in HomeLock(ManyKey)
      BY <1>1, <1>2 DEF LocksOK
    <2>2. q \in HomeQueue(ManyKey)
      <3>1. w \in Waiter /\ w.id \notin Uuids
        BY <1>1 DEF Waiter
      <3>. QED  BY <1>1, <2>1, <3>1, AppendHome DEF Rejoin, HomeLock
    <2>3. q = Rejoin(Line(locks, ManyKey), w)
      BY <1>1, <1>3, <2>1 DEF Line
    <2>4. locks' = M
      BY <1>6
    <2>. HIDE DEF q
    <2>5. \A j \in Keys : /\ Holds(M, j) = Holds(R, j)
                          /\ Line(M, j) = IF j = ManyKey THEN q ELSE Line(R, j)
      BY <1>1, <1>2, <2>1, <2>2, NotifyView
    <2>. QED  BY <1>1, <1>3, <2>3, <2>4, <2>5 DEF LineIs
  <1>. QED  BY <1>4, <1>5, <1>6

-----------------------------------------------------------------------------
(* The drain loop and the re-election timer.                               *)

LEMMA DequeueWaiterEffect ==
  ASSUME IInv, NEW k \in Keys, DequeueWaiter(k)
  PROVE  /\ HoldsKept /\ Line(locks, k) \in HomeQueue(k)
         /\ \E i \in 1..Len(Line(locks, k)) :
              /\ IsNextWaiter(Line(locks, k), i, writable)
              /\ LineIs(k, AfterFirst(i, Line(locks, k)))
              /\ granting' = [id |-> Line(locks, k)[i].id, ws |-> Line(locks, k)[i].ws,
                              pos |-> 1, queued |-> TRUE]
PROOF
  <1>1. /\ locks[k] # None /\ LocksOK(locks) /\ locks[k] \in HomeLock(k)
    BY IInvLocks DEF DequeueWaiter, Draining, IInv, FenceInv, LockInHand, Present, LocksOK
  <1>. DEFINE q == Line(locks, k)
  <1>2. q = locks[k].notify
    BY <1>1 DEF Line
  <1>3. PICK i \in 1..Len(q) :
          /\ IsNextWaiter(q, i, writable)
          /\ locks' = [locks EXCEPT ![k].notify = AfterFirst(i, q)]
          /\ granting' = [id |-> q[i].id, ws |-> q[i].ws, pos |-> 1, queued |-> TRUE]
    BY <1>2 DEF DequeueWaiter
  <1>4. q \in HomeQueue(k) /\ i \in Nat
    BY <1>1, <1>2, HomeQueueElim DEF HomeLock
  <1>. DEFINE r == AfterFirst(i, q)
              M == [locks EXCEPT ![k].notify = r]
  <1>5. r \in HomeQueue(k)
    BY <1>4, AfterFirstHome
  <1>6. locks' = M
    BY <1>3
  <1>. HIDE DEF r
  <1>7. \A j \in Keys : /\ Holds(M, j) = Holds(locks, j)
                        /\ Line(M, j) = IF j = k THEN r ELSE Line(locks, j)
    BY <1>1, <1>5, NotifyView
  <1>8. HoldsKept /\ LineIs(k, r)
    BY <1>6, <1>7 DEF HoldsKept, LineIs
  <1>. QED  BY <1>3, <1>4, <1>8 DEF r

LEMMA ReelectionEffect ==
  ASSUME IInv, NEW k \in Keys, Reelection(k)
  PROVE  /\ timeouts[k] # None
         /\ \/ HoldsKept /\ LinesKept
            \/ /\ HoldsLose(k, {timeouts[k].id})
               /\ \E n \in Nat :
                    /\ LineIs(k, AfterFirst(n, Line(locks, k)))
                    /\ out' = UNION {Send(Line(locks, k)[i].ws, "reelection",
                                          Line(locks, k)[i].id, 0) :
                                     i \in {j \in 1..Len(Line(locks, k)) : j <= n}}
PROOF
  <1>1. LocksOK(locks) /\ timeouts[k] # None /\ timeouts[k].id \in Uuids
    BY IInvLocks DEF Reelection, IInv, TypeOK
  <1>2. CASE locks[k] = None
    BY <1>1, <1>2 DEF Reelection, HoldsKept, LinesKept
  <1>3. CASE locks[k] # None
    <2>. DEFINE u == timeouts[k].id
                q == locks[k].notify
                twice == Holding(locks[k], u) /\ u \notin rejected /\ ~Queued(q, u)
                n == IF twice THEN 2 * Batch ELSE Batch
    <2>1. /\ n \in Nat
          /\ locks' = [locks EXCEPT ![k].lockholders[u] = NoHold,
                                    ![k].notify = AfterFirst(n, q)]
          /\ out' = UNION {Send(q[i].ws, "reelection", q[i].id, 0) :
                           i \in {j \in 1..Len(q) : j <= n}}
      BY <1>3, NumberAssumption DEF Reelection
    <2>. HIDE DEF n
    <2>2. locks[k] \in HomeLock(k) /\ q \in HomeQueue(k) /\ q = Line(locks, k)
      BY <1>1, <1>3 DEF LocksOK, HomeLock, Line
    <2>3. AfterFirst(n, q) \in HomeQueue(k)
      BY <2>1, <2>2, AfterFirstHome
    <2>. DEFINE e == [locks[k] EXCEPT !.lockholders =
                        [locks[k].lockholders EXCEPT ![u] = NoHold]]
                l == [e EXCEPT !.notify = AfterFirst(n, q)]
    <2>4. /\ e \in HomeLock(k)
          /\ \A g \in Holders : e.lockholders[g] = IF g = u THEN NoHold
                                                   ELSE locks[k].lockholders[g]
      <3>1. NoHold \in Hold /\ u \in Holders
        BY <1>1, NumberAssumption DEF NoHold, Hold, Holders
      <3>. QED  BY <2>2, <3>1 DEF HomeLock, LockObj
    <2>5. locks' = [locks EXCEPT ![k] = l]
      BY <2>1
    <2>. HIDE DEF e
    <2>6. /\ l \in HomeLock(k) /\ l.lockholders = e.lockholders
          /\ l.notify = AfterFirst(n, q)
      BY <2>3, <2>4, HomeNotify DEF HomeLock, LockObj
    <2>. HIDE DEF l
    <2>7. HoldersOf(l) = Holds(locks, k) \ {u}
      BY <1>3, <2>4, <2>6 DEF HoldersOf, Holds, Holding, NoHold
    <2>8. \A j \in Keys :
            /\ Holds([locks EXCEPT ![k] = l], j) = IF j = k THEN HoldersOf(l) ELSE Holds(locks, j)
            /\ Line([locks EXCEPT ![k] = l], j) = IF j = k THEN l.notify ELSE Line(locks, j)
      BY <1>1, <2>6, UpdateView
    <2>9. HoldsLose(k, {u}) /\ LineIs(k, AfterFirst(n, Line(locks, k)))
      BY <2>2, <2>5, <2>6, <2>7, <2>8 DEF HoldsLose, LineIs
    <2>. QED  BY <1>1, <2>1, <2>2, <2>9
  <1>. QED  BY <1>2, <1>3

LEMMA RestartEffect ==
  ASSUME Restart
  PROVE  \A j \in Keys : Holds(locks', j) = {} /\ Line(locks', j) = <<>>
PROOF
  BY DEF Restart, Holds, Line

-----------------------------------------------------------------------------
(* Deadlines.                                                              *)

\* The row of a cleanup that is about to release h on k.
Forced(k, h) == \E t \in work : t.op = "forced" /\ t.key = k /\ h \in t.ids

DeadlineInv ==
  \A k \in Keys : \A h \in Holds(locks, k) :
    Finite(h) => <<k, h>> \in holderDeadlines \/ Forced(k, h)

HInv == IInv /\ FewHold /\ DeadlineInv

-----------------------------------------------------------------------------
(* FewHold.                                                                *)

(* Holders that leave, or one that comes, keep a finite set finite.        *)
LEMMA FewShrink ==
  ASSUME FewHold, \A j \in Keys : Holds(locks', j) \subseteq Holds(locks, j)
  PROVE  FewHold'
PROOF
  <1>. SUFFICES ASSUME NEW j \in Keys  PROVE IsFiniteSet(Holds(locks', j))
    BY DEF FewHold
  <1>1. IsFiniteSet(Holds(locks, j)) /\ Holds(locks', j) \in SUBSET Holds(locks, j)
    BY DEF FewHold
  <1>. QED  BY <1>1, FS_Subset

LEMMA FewGain ==
  ASSUME FewHold, NEW k, NEW h, HoldsGain(k, h)
  PROVE  FewHold'
PROOF
  <1>. SUFFICES ASSUME NEW j \in Keys  PROVE IsFiniteSet(Holds(locks', j))
    BY DEF FewHold
  <1>1. IsFiniteSet(Holds(locks, j)) /\ IsFiniteSet(Holds(locks, j) \cup {h})
    BY FS_AddElement DEF FewHold
  <1>. QED  BY <1>1 DEF HoldsGain

-----------------------------------------------------------------------------
(* DeadlineInv, step by step.                                              *)

(* A step that adds no holder, and takes a deadline or a forced row away   *)
(* only with the hold, or the deadline for a forced row.                   *)
LEMMA TimedShrink ==
  ASSUME DeadlineInv, FewHold,
         \A j \in Keys : \A h \in Holds(locks', j) :
           /\ h \in Holds(locks, j)
           /\ <<j, h>> \in holderDeadlines => <<j, h>> \in holderDeadlines' \/ Forced(j, h)'
           /\ Forced(j, h) => Forced(j, h)'
  PROVE  FewHold' /\ DeadlineInv'
PROOF
  <1>1. FewHold'
    BY FewShrink
  <1>2. DeadlineInv'
    <2>. SUFFICES ASSUME NEW j \in Keys, NEW h \in Holds(locks', j), Finite(h)
                  PROVE  <<j, h>> \in holderDeadlines' \/ Forced(j, h)'
      BY DEF DeadlineInv
    <2>. QED  BY DEF DeadlineInv
  <1>. QED  BY <1>1, <1>2

(* Most steps leave the holders and their deadlines alone.                 *)
LEMMA TimedSame ==
  ASSUME DeadlineInv, FewHold, HoldsKept, holderDeadlines' = holderDeadlines,
         work' = work \/ work = {}
  PROVE  FewHold' /\ DeadlineInv'
PROOF
  <1>1. \A j, h : Forced(j, h) => Forced(j, h)'
    BY DEF Forced
  <1>. QED  BY <1>1, TimedShrink DEF HoldsKept

(* A row that is not a forced one may be done with, too.                   *)
LEMMA TimedRow ==
  ASSUME DeadlineInv, FewHold, HoldsKept, holderDeadlines' = holderDeadlines,
         NEW t, t.op # "forced", work' = work \ {t}
  PROVE  FewHold' /\ DeadlineInv'
PROOF
  <1>1. \A j, h : Forced(j, h) => Forced(j, h)'
    BY DEF Forced
  <1>. QED  BY <1>1, TimedShrink DEF HoldsKept

(* A grant comes with its deadline.                                        *)
LEMMA TimedGrant ==
  ASSUME HInv, NEW k \in Keys, NEW h, NEW ws, Install(k, h, ws), HoldsGain(k, h),
         work' = work
  PROVE  FewHold' /\ DeadlineInv'
PROOF
  <1>1. FewHold'
    BY FewGain DEF HInv
  <1>2. \A j, g : Forced(j, g) => Forced(j, g)'
    BY DEF Forced
  <1>3. DeadlineInv'
    <2>. SUFFICES ASSUME NEW j \in Keys, NEW g \in Holds(locks', j), Finite(g)
                  PROVE  <<j, g>> \in holderDeadlines' \/ Forced(j, g)'
      BY DEF DeadlineInv
    <2>1. holderDeadlines' = ScheduleDeadline(k, h)
      BY DEF Install
    <2>2. CASE j = k /\ g = h
      BY <2>1, <2>2 DEF ScheduleDeadline
    <2>3. CASE g \in Holds(locks, j)
      BY <1>2, <2>1, <2>3 DEF ScheduleDeadline, HInv, DeadlineInv
    <2>. QED  BY <2>2, <2>3 DEF HoldsGain
  <1>. QED  BY <1>1, <1>3

LEMMA TimedLockFrame ==
  ASSUME HInv, LockFrame
  PROVE  FewHold' /\ DeadlineInv'
PROOF
  <1>. PICK u \in Uuids, ws \in Sockets :
         \/ LockRefused(u, ws) \/ LockOnNewKey(u, ws) \/ LockOnNewKeyFails(u, ws)
         \/ LockOnFreeKey(u, ws) \/ \E retry \in BOOLEAN : LockOnFullKey(u, ws, retry)
    BY DEF LockFrame
  <1>1. HoldsKept
    <2>1. CASE LockRefused(u, ws)
      BY <2>1 DEF LockRefused, HoldsKept
    <2>. QED
      BY <2>1, LockOnNewKeyEffect, LockOnNewKeyFailsEffect, LockOnFreeKeyEffect,
         LockOnFullKeyEffect
      DEF HInv
  <1>2. holderDeadlines' = holderDeadlines /\ work' = work
    BY DEF LockRefused, LockOnNewKey, LockOnNewKeyFails, LockOnFreeKey, LockOnFullKey,
           LockAccepted, tables, stack
  <1>. QED  BY <1>1, <1>2, TimedSame DEF HInv

LEMMA TimedUnlockFrame ==
  ASSUME HInv, UnlockFrame
  PROVE  FewHold' /\ DeadlineInv'
PROOF
  <1>. PICK k \in Keys, ws \in Sockets :
         \/ UnlockEveryone(k, ws)
         \/ \E u \in CallsOn(k) \cup {None} :
              \/ UnlockUnknownKey(k, u, ws) \/ UnlockHolder(k, u, ws) \/ UnlockLate(k, u, ws)
              \/ \E force \in BOOLEAN : UnlockRejected(k, u, ws, force)
    BY DEF UnlockFrame
  <1>1. work = {} /\ \A j, h : Forced(j, h) => Forced(j, h)'
    BY DEF UnlockEveryone, UnlockUnknownKey, UnlockHolder, UnlockLate, UnlockRejected,
           Unlocking, Hears, Idle, Forced
  <1>2. CASE UnlockEveryone(k, ws)
    <2>1. HoldsLose(k, Holders)
      BY <1>2, ReleaseEffect DEF UnlockEveryone, HInv, HoldersOf
    <2>2. holderDeadlines' = holderDeadlines \ ({k} \X Holders)
      BY <1>2 DEF UnlockEveryone
    <2>3. Holds(locks, k) \subseteq Holders
      BY DEF Holds, HoldersOf
    <2>. QED  BY <1>1, <2>1, <2>2, <2>3, TimedShrink DEF HoldsLose, HInv
  <1>3. ASSUME NEW u \in CallsOn(k) \cup {None}, UnlockHolder(k, u, ws)
        PROVE  FewHold' /\ DeadlineInv'
    <2>1. {u} \in SUBSET Holders
      BY <1>3 DEF UnlockHolder, CallsOn, Holders
    <2>2. HoldsLose(k, {u})
      BY <1>3, <2>1, ReleaseEffect DEF UnlockHolder, HInv
    <2>3. holderDeadlines' = holderDeadlines \ {<<k, u>>}
      BY <1>3 DEF UnlockHolder
    <2>. QED  BY <1>1, <2>2, <2>3, TimedShrink DEF HoldsLose, HInv
  <1>4. ASSUME NEW u \in CallsOn(k) \cup {None}, UnlockLate(k, u, ws)
        PROVE  FewHold' /\ DeadlineInv'
    <2>1. HoldsKept
      BY <1>4, UnlockLateEffect DEF HInv
    <2>2. u \notin Holds(locks, k)
      BY <1>4 DEF UnlockLate, Holds, HoldersOf
    <2>3. holderDeadlines' \in {holderDeadlines, holderDeadlines \ {<<k, u>>}}
      BY <1>4 DEF UnlockLate
    <2>. QED  BY <1>1, <2>1, <2>2, <2>3, TimedShrink DEF HoldsKept, HInv
  <1>5. ASSUME NEW u, UnlockUnknownKey(k, u, ws)
        PROVE  FewHold' /\ DeadlineInv'
    BY <1>1, <1>5, TimedSame DEF UnlockUnknownKey, HoldsKept, HInv
  <1>6. ASSUME NEW u, NEW force, UnlockRejected(k, u, ws, force)
        PROVE  FewHold' /\ DeadlineInv'
    BY <1>1, <1>6, TimedSame DEF UnlockRejected, HoldsKept, HInv
  <1>. QED  BY <1>2, <1>3, <1>4, <1>5, <1>6

LEMMA TimedOtherFrames ==
  ASSUME HInv, ManyFrame \/ OtherFrame \/ TickTtl \/ Connections
  PROVE  FewHold' /\ DeadlineInv'
PROOF
  <1>1. CASE ManyFrame
    <2>1. HoldsKept /\ holderDeadlines' = holderDeadlines /\ work = {}
      BY <1>1 DEF ManyFrame, AcquireMany, ReleaseMany, HoldsKept, tables, Hears, Idle
    <2>. QED  BY <2>1, TimedSame DEF HInv
  <1>2. CASE OtherFrame
    <2>1. holderDeadlines' = holderDeadlines /\ work = {}
      BY <1>2 DEF OtherFrame, LockReceived, LockClientTimeout, LockReceivedRejected, tables,
                  Hears, Idle
    <2>2. HoldsKept
      <3>1. ASSUME NEW k, NEW ws, LockReceived(k, ws)
            PROVE  HoldsKept
        BY <3>1 DEF LockReceived, HoldsKept
      <3>. QED
        BY <1>2, <3>1, LockClientTimeoutEffect, LockReceivedRejectedEffect
        DEF OtherFrame, HInv
    <2>. QED  BY <2>1, <2>2, TimedSame DEF HInv
  <1>3. CASE TickTtl
    BY <1>3, TimedSame DEF TickTtl, Idle, HoldsKept, tables, HInv
  <1>4. CASE Connections
    <2>1. HoldsKept /\ holderDeadlines' = holderDeadlines /\ work = {}
      BY <1>4 DEF Connections, BreakConnection, SocketEnds, VersionMismatch, CleanupConnection,
                  HoldsKept, tables, Idle
    <2>. QED  BY <2>1, TimedSame DEF HInv
  <1>. QED  BY <1>1, <1>2, <1>3, <1>4

LEMMA TimedGranting ==
  ASSUME HInv, Granting
  PROVE  FewHold' /\ DeadlineInv'
PROOF
  <1>1. CASE GrantLock
    BY <1>1, GrantLockEffect, TimedGrant DEF HInv, GrantLock
  <1>2. CASE ManyGrantsKey
    BY <1>2, ManyGrantsKeyEffect, TimedGrant DEF HInv, ManyGrantsKey
  <1>3. CASE GrantLockFails
    BY <1>3, TimedSame DEF HInv, GrantLockFails, HoldsKept
  <1>4. CASE ManyCreatesLock
    BY <1>4, TimedSame, ManyCreatesLockEffect DEF HInv, ManyCreatesLock, tables, stack
  <1>5. CASE ManyIsContended
    <2>1. /\ \A j \in Keys : Holds(locks', j) = IF j \in WalkedSoFar
                                                THEN Holds(locks, j) \ {granting.id}
                                                ELSE Holds(locks, j)
          /\ holderDeadlines' = holderDeadlines \ (WalkedSoFar \X {granting.id})
          /\ work' = work
      BY <1>5, ManyIsContendedEffect DEF HInv, ManyIsContended
    <2>2. \A j, h : Forced(j, h) => Forced(j, h)'
      BY <2>1 DEF Forced
    <2>. QED  BY <2>1, <2>2, TimedShrink DEF HInv
  <1>6. CASE ManyRegisters
    BY <1>6, TimedSame DEF HInv, ManyRegisters, HoldsKept
  <1>7. CASE ManyFails
    BY <1>7, TimedSame, ManyFailsEffect DEF HInv, ManyFails, tables
  <1>. QED  BY <1>1, <1>2, <1>3, <1>4, <1>5, <1>6, <1>7 DEF Granting

LEMMA TimedDrain ==
  ASSUME HInv, Drain \/ Reelections
  PROVE  FewHold' /\ DeadlineInv'
PROOF
  <1>1. ASSUME NEW k \in Keys, DrainStops(k)
        PROVE  FewHold' /\ DeadlineInv'
    BY <1>1, TimedSame DEF HInv, DrainStops, HoldsKept, tables
  <1>2. ASSUME NEW k \in Keys, DequeueWaiter(k)
        PROVE  FewHold' /\ DeadlineInv'
    BY <1>2, TimedSame, DequeueWaiterEffect DEF HInv, DequeueWaiter, tables
  <1>3. ASSUME NEW k \in Keys, Reelection(k)
        PROVE  FewHold' /\ DeadlineInv'
    <2>1. HoldsKept \/ HoldsLose(k, {timeouts[k].id})
      BY <1>3, ReelectionEffect DEF HInv
    <2>2. holderDeadlines' = holderDeadlines /\ \A j, h : Forced(j, h) => Forced(j, h)'
      BY <1>3 DEF Reelection, stack, Forced
    <2>. QED  BY <2>1, <2>2, TimedShrink DEF HInv, HoldsKept, HoldsLose
  <1>. QED  BY <1>1, <1>2, <1>3 DEF Drain, Reelections

(* A forced row takes its holds away, an evict row or a member row the     *)
(* deadline together with the hold.                                        *)
LEMMA TimedRelease ==
  ASSUME HInv, NEW t \in work, HoldsLose(t.key, t.ids), work' = work \ {t},
         \A h : h \notin t.ids => \A k : <<k, h>> \in holderDeadlines
                                           => <<k, h>> \in holderDeadlines',
         \A k, h : k # t.key /\ <<k, h>> \in holderDeadlines => <<k, h>> \in holderDeadlines'
  PROVE  FewHold' /\ DeadlineInv'
PROOF
  <1>. SUFFICES ASSUME NEW j \in Keys, NEW h \in Holds(locks', j)
                PROVE  /\ h \in Holds(locks, j)
                       /\ <<j, h>> \in holderDeadlines => <<j, h>> \in holderDeadlines'
                       /\ Forced(j, h) => Forced(j, h)'
    BY TimedShrink DEF HInv
  <1>1. h \in Holds(locks, j) /\ (j = t.key => h \notin t.ids)
    BY DEF HoldsLose
  <1>2. Forced(j, h) => Forced(j, h)'
    BY <1>1 DEF Forced
  <1>. QED  BY <1>1, <1>2

LEMMA TimedWork ==
  ASSUME HInv, WorkStep
  PROVE  FewHold' /\ DeadlineInv'
PROOF
  <1>. PICK t \in work :
         \/ Evict(t) \/ ReleaseMember(t) \/ ForgetComposite(t) \/ VisitKey(t)
         \/ VisitAbsentKey(t) \/ ScrubWaiter(t) \/ ForcedUnlock(t) \/ EndCleanup(t)
    BY DEF WorkStep
  <1>1. CASE Evict(t)
    BY <1>1, EvictEffect, TimedRelease DEF HInv, Evict
  <1>2. CASE ReleaseMember(t)
    BY <1>2, ReleaseMemberEffect, TimedRelease DEF HInv, ReleaseMember
  <1>3. CASE ForcedUnlock(t)
    BY <1>3, ForcedUnlockEffect, TimedRelease DEF HInv, ForcedUnlock
  <1>4. CASE ForgetComposite(t) \/ VisitAbsentKey(t) \/ EndCleanup(t)
    BY <1>4, TimedRow DEF HInv, ForgetComposite, VisitAbsentKey, EndCleanup, CleaningUp,
                          HoldsKept
  <1>5. CASE ScrubWaiter(t)
    BY <1>5, ScrubWaiterEffect, TimedRow DEF HInv, ScrubWaiter, CleaningUp
  <1>6. CASE VisitKey(t)
    <2>. DEFINE mine == {h \in HoldersOf(locks[t.key]) : locks[t.key].lockholders[h].ws = t.ws}
    <2>1. /\ holderDeadlines' = holderDeadlines \ ({t.key} \X mine)
          /\ work \ {t} \subseteq work'
          /\ \A h \in mine : ForcedRow(t.key, h, t.ws) \in work'
          /\ HoldsKept /\ t.op = "visit"
      BY <1>6 DEF VisitKey, CleaningUp, HoldsKept
    <2>. HIDE DEF mine
    <2>2. \A h \in mine : Forced(t.key, h)'
      <3>. TAKE h \in mine
      <3>1. /\ ForcedRow(t.key, h, t.ws).op = "forced"
            /\ ForcedRow(t.key, h, t.ws).key = t.key
            /\ h \in ForcedRow(t.key, h, t.ws).ids
        BY DEF ForcedRow
      <3>. QED  BY <2>1, <3>1 DEF Forced
    <2>3. \A j, h : Forced(j, h) => Forced(j, h)'
      BY <2>1 DEF Forced
    <2>4. \A j, h : <<j, h>> \in holderDeadlines => <<j, h>> \in holderDeadlines' \/ Forced(j, h)'
      BY <2>1, <2>2
    <2>. QED  BY <2>1, <2>3, <2>4, TimedShrink DEF HInv, HoldsKept
  <1>. QED  BY <1>1, <1>2, <1>3, <1>4, <1>5, <1>6

LEMMA HInvStep ==
  ASSUME HInv, Next
  PROVE  HInv'
PROOF
  <1>1. IInv'
    BY Inductive DEF HInv
  <1>2. CASE Restart
    <2>1. FewHold' /\ DeadlineInv'
      BY <1>2, RestartEffect, FS_EmptySet DEF FewHold, DeadlineInv
    <2>. QED  BY <1>1, <2>1 DEF HInv
  <1>3. CASE CalmNext \/ Reelections
    <2>1. FewHold' /\ DeadlineInv'
      BY <1>3, TimedLockFrame, TimedUnlockFrame, TimedOtherFrames, TimedGranting, TimedDrain,
         TimedWork
      DEF CalmNext, Frames, Internal
    <2>. QED  BY <1>1, <2>1 DEF HInv
  <1>. QED  BY <1>2, <1>3 DEF Next

LEMMA StutterHInv ==
  ASSUME HInv, UNCHANGED vars
  PROVE  HInv'
PROOF
  <1>1. IInv'
    BY StutterIInv DEF HInv
  <1>2. locks' = locks /\ holderDeadlines' = holderDeadlines /\ work' = work
    BY DEF vars, tables, stack
  <1>3. FewHold' /\ DeadlineInv'
    BY <1>2 DEF HInv, FewHold, DeadlineInv, Forced
  <1>. QED  BY <1>1, <1>3 DEF HInv

LEMMA InitHInv == Init => HInv
PROOF
  <1>. SUFFICES ASSUME Init  PROVE HInv
    OBVIOUS
  <1>1. \A k \in Keys : Holds(locks, k) = {}
    BY DEF Init, Holds
  <1>. QED  BY <1>1, InitIInv, FS_EmptySet DEF HInv, FewHold, DeadlineInv

(* The broker never loses a hold's deadline before the hold: in the middle *)
(* of a handler too, a hold of finite ttl has a deadline, or is about to   *)
(* be released by the cleanup of its connection.                           *)
THEOREM HoldInvariance == Spec => []HInv
PROOF
  <1>1. HInv /\ [Next]_vars => HInv'
    BY HInvStep, StutterHInv
  <1>. QED  BY <1>1, InitHInv, PTL DEF Spec

(* Between handlers every hold of finite ttl has a deadline in the sweeper. *)
THEOREM DeadlinesCover == Spec => []DeadlineCovers
PROOF
  <1>1. HInv => DeadlineCovers
    <2>. SUFFICES ASSUME HInv, Idle, NEW k \in Keys, NEW h \in Holders, Held(k, h), Finite(h)
                  PROVE  <<k, h>> \in holderDeadlines
      BY DEF DeadlineCovers
    <2>1. h \in Holds(locks, k)
      BY HeldHolds
    <2>2. ~Forced(k, h)
      BY DEF Idle, Forced
    <2>. QED  BY <2>1, <2>2 DEF HInv, DeadlineInv
  <1>. QED  BY <1>1, HoldInvariance, PTL

-----------------------------------------------------------------------------
(* How holds end.                                                          *)

(* A step that takes no hold away needs no reason.                         *)
LEMMA NoneEnds ==
  ASSUME \A j \in Keys : Holds(locks, j) \subseteq Holds(locks', j)
  PROVE  HoldEndsForAReason
PROOF
  <1>1. \A k \in Keys, h \in Holders : Held(k, h) => Held(k, h)'
    BY HeldHolds
  <1>. QED  BY <1>1 DEF HoldEndsForAReason

(* A step that takes holds of one key away owes a reason for those only.   *)
LEMMA SomeEnd ==
  ASSUME NEW k \in Keys, NEW S, HoldsLose(k, S),
         \A h \in S \cap Holders :
           \/ \E f \in out' : f.kind = "unlocked" /\ f.id \in {h, None}
           \/ \E t \in work \ work' : t.key = k /\ h \in t.ids
           \/ timeouts[k] # None /\ timeouts[k].id = h
  PROVE  HoldEndsForAReason
PROOF
  <1>. SUFFICES ASSUME NEW j \in Keys, NEW h \in Holders, Held(j, h), ~Held(j, h)'
                PROVE  \/ \E f \in out' : f.kind = "unlocked" /\ f.id \in {h, None}
                       \/ \E t \in work \ work' : t.key = j /\ h \in t.ids
                       \/ timeouts[j] # None /\ timeouts[j].id = h
    BY DEF HoldEndsForAReason
  <1>1. h \in Holds(locks, j) /\ h \notin Holds(locks', j)
    BY HeldHolds
  <1>2. j = k /\ h \in S
    BY <1>1 DEF HoldsLose
  <1>. QED  BY <1>2

(* An unlock answers on a socket that is writable: it has just been heard. *)
LEMMA HeardAnswer ==
  ASSUME NEW ws, Hears(ws), NEW u, Reply(ws, "unlocked", u)
  PROVE  \E f \in out' : f.kind = "unlocked" /\ f.id = u
PROOF
  BY DEF Hears, Reply, Send

LEMMA UnlockReasons ==
  ASSUME HInv, UnlockFrame
  PROVE  HoldEndsForAReason
PROOF
  <1>. PICK k \in Keys, ws \in Sockets :
         \/ UnlockEveryone(k, ws)
         \/ \E u \in CallsOn(k) \cup {None} :
              \/ UnlockUnknownKey(k, u, ws) \/ UnlockHolder(k, u, ws) \/ UnlockLate(k, u, ws)
              \/ \E force \in BOOLEAN : UnlockRejected(k, u, ws, force)
    BY DEF UnlockFrame
  <1>1. CASE UnlockEveryone(k, ws)
    <2>1. HoldsLose(k, Holders)
      BY <1>1, ReleaseEffect DEF UnlockEveryone, HInv, HoldersOf
    <2>2. \E f \in out' : f.kind = "unlocked" /\ f.id = None
      BY <1>1, HeardAnswer DEF UnlockEveryone, Unlocking
    <2>. QED  BY <2>1, <2>2, SomeEnd
  <1>2. ASSUME NEW u \in CallsOn(k) \cup {None}, UnlockHolder(k, u, ws)
        PROVE  HoldEndsForAReason
    <2>1. {u} \in SUBSET Holders
      BY <1>2 DEF UnlockHolder, CallsOn, Holders
    <2>2. HoldsLose(k, {u})
      BY <1>2, <2>1, ReleaseEffect DEF UnlockHolder, HInv
    <2>3. \E f \in out' : f.kind = "unlocked" /\ f.id = u
      BY <1>2, HeardAnswer DEF UnlockHolder, Unlocking
    <2>. QED  BY <2>2, <2>3, SomeEnd
  <1>3. ASSUME NEW u \in CallsOn(k) \cup {None}, UnlockLate(k, u, ws)
        PROVE  HoldEndsForAReason
    BY <1>3, UnlockLateEffect, NoneEnds DEF HInv, HoldsKept
  <1>4. ASSUME NEW u, UnlockUnknownKey(k, u, ws) \/ \E force : UnlockRejected(k, u, ws, force)
        PROVE  HoldEndsForAReason
    BY <1>4, NoneEnds DEF UnlockUnknownKey, UnlockRejected
  <1>. QED  BY <1>1, <1>2, <1>3, <1>4

LEMMA WorkReasons ==
  ASSUME HInv, WorkStep
  PROVE  HoldEndsForAReason
PROOF
  <1>. PICK t \in work :
         \/ Evict(t) \/ ReleaseMember(t) \/ ForgetComposite(t) \/ VisitKey(t)
         \/ VisitAbsentKey(t) \/ ScrubWaiter(t) \/ ForcedUnlock(t) \/ EndCleanup(t)
    BY DEF WorkStep
  <1>1. CASE Evict(t) \/ ReleaseMember(t) \/ ForcedUnlock(t)
    <2>1. HoldsLose(t.key, t.ids) /\ t.key \in Keys
      BY <1>1, EvictEffect, ReleaseMemberEffect, ForcedUnlockEffect, TaskType
      DEF HInv, Evict, ReleaseMember, ForcedUnlock, CleaningUp
    <2>2. t \in work \ work'
      BY <1>1 DEF Evict, ReleaseMember, ForcedUnlock
    <2>. QED  BY <2>1, <2>2, SomeEnd
  <1>2. CASE ForgetComposite(t) \/ VisitKey(t) \/ VisitAbsentKey(t) \/ EndCleanup(t)
    BY <1>2, NoneEnds DEF ForgetComposite, VisitKey, VisitAbsentKey, EndCleanup
  <1>3. CASE ScrubWaiter(t)
    BY <1>3, ScrubWaiterEffect, NoneEnds DEF HInv, HoldsKept
  <1>. QED  BY <1>1, <1>2, <1>3

LEMMA GrantReasons ==
  ASSUME HInv, Granting
  PROVE  HoldEndsForAReason
PROOF
  <1>1. CASE GrantLock
    BY <1>1, GrantLockEffect, NoneEnds DEF HInv, HoldsGain
  <1>2. CASE ManyGrantsKey
    BY <1>2, ManyGrantsKeyEffect, NoneEnds DEF HInv, HoldsGain
  <1>3. CASE GrantLockFails \/ ManyRegisters
    BY <1>3, NoneEnds DEF GrantLockFails, ManyRegisters
  <1>4. CASE ManyCreatesLock \/ ManyFails
    BY <1>4, ManyCreatesLockEffect, ManyFailsEffect, NoneEnds DEF HInv, HoldsKept
  <1>5. CASE ManyIsContended
    <2>. SUFFICES ASSUME NEW j \in Keys, NEW h \in Holders, Held(j, h), ~Held(j, h)'
                  PROVE  granting # None /\ granting.id = h /\ granting.id \in ManyIds
      BY DEF HoldEndsForAReason
    <2>1. h \in Holds(locks, j) /\ h \notin Holds(locks', j)
      BY HeldHolds
    <2>2. /\ granting.id \in ManyIds
          /\ \A i \in Keys : Holds(locks', i) \in {Holds(locks, i),
                                                   Holds(locks, i) \ {granting.id}}
      BY <1>5, ManyIsContendedEffect DEF HInv
    <2>. QED  BY <1>5, <2>1, <2>2 DEF ManyIsContended, GrantingMany
  <1>. QED  BY <1>1, <1>2, <1>3, <1>4, <1>5 DEF Granting

LEMMA OtherReasons ==
  ASSUME HInv, LockFrame \/ ManyFrame \/ OtherFrame \/ TickTtl \/ Connections \/ Drain
  PROVE  HoldEndsForAReason
PROOF
  <1>1. CASE LockFrame
    <2>1. ASSUME NEW u, NEW ws, LockRefused(u, ws)
          PROVE  HoldsKept
      BY <2>1 DEF LockRefused, HoldsKept
    <2>2. HoldsKept
      BY <1>1, <2>1, LockOnNewKeyEffect, LockOnNewKeyFailsEffect, LockOnFreeKeyEffect,
         LockOnFullKeyEffect
      DEF LockFrame, HInv
    <2>. QED  BY <2>2, NoneEnds DEF HoldsKept
  <1>2. CASE ManyFrame \/ TickTtl \/ Connections
    BY <1>2, NoneEnds DEF ManyFrame, AcquireMany, ReleaseMany, TickTtl, Connections,
                          BreakConnection, SocketEnds, VersionMismatch, CleanupConnection
  <1>3. CASE OtherFrame
    <2>1. ASSUME NEW k, NEW ws, LockReceived(k, ws)
          PROVE  HoldsKept
      BY <2>1 DEF LockReceived, HoldsKept
    <2>2. HoldsKept
      BY <1>3, <2>1, LockClientTimeoutEffect, LockReceivedRejectedEffect DEF OtherFrame, HInv
    <2>. QED  BY <2>2, NoneEnds DEF HoldsKept
  <1>4. CASE Drain
    <2>1. ASSUME NEW k, DrainStops(k)
          PROVE  HoldsKept
      BY <2>1 DEF DrainStops, HoldsKept
    <2>2. HoldsKept
      BY <1>4, <2>1, DequeueWaiterEffect DEF Drain, HInv
    <2>. QED  BY <2>2, NoneEnds DEF HoldsKept
  <1>. QED  BY <1>1, <1>2, <1>3, <1>4

LEMMA ReelectionReasons ==
  ASSUME HInv, NEW k \in Keys, Reelection(k)
  PROVE  HoldEndsForAReason
PROOF
  <1>1. timeouts[k] # None /\ (HoldsKept \/ HoldsLose(k, {timeouts[k].id}))
    BY ReelectionEffect DEF HInv
  <1>2. CASE HoldsKept
    BY <1>2, NoneEnds DEF HoldsKept
  <1>3. CASE HoldsLose(k, {timeouts[k].id})
    BY <1>1, <1>3, SomeEnd
  <1>. QED  BY <1>1, <1>2, <1>3

(* No hold is ever taken away from a client without a reason that names    *)
(* its call, its key or its connection, whatever the number of clients,    *)
(* slots and keys.                                                         *)
THEOREM HoldsAreNotStolen == Spec => NoHoldStolen
PROOF
  <1>1. HInv /\ Next => HoldEndsForAReason
    <2>1. ASSUME HInv, CalmNext \/ Reelections
          PROVE  HoldEndsForAReason
      BY <2>1, OtherReasons, UnlockReasons, GrantReasons, WorkReasons, ReelectionReasons
      DEF CalmNext, Frames, Internal, Reelections
    <2>2. Restart => HoldEndsForAReason
      BY DEF HoldEndsForAReason
    <2>. QED  BY <2>1, <2>2 DEF Next
  <1>. QED  BY <1>1, HoldInvariance, PTL DEF Spec, NoHoldStolen
-----------------------------------------------------------------------------
(* Waiters: where a call may stand, and how waiting ends.                  *)

LineInv == \A k \in Keys : Unrepeated(Line(locks, k))

Attempting(m) == granting # None /\ granting.id = m

CompositeAt(m) ==
  /\ m \notin spent =>
       /\ ~Attempting(m)
       /\ \A k \in Keys : m \notin Holds(locks, k) /\ ~Queued(Line(locks, k), m)
  /\ \A k \in Keys : Queued(Line(locks, k), m) =>
       /\ ~Attempting(m)
       /\ \A j \in Keys : /\ m \notin Holds(locks, j)
                          /\ j # k => ~Queued(Line(locks, j), m)
  /\ Attempting(m) => \A k \in Keys : m \in Holds(locks, k) <=> k \in WalkedSoFar
CompositeInv == \A m \in ManyIds : CompositeAt(m)

\* A row that scrubs a queue names the call it withdraws.
ScrubNamed == \A t \in work : t.op = "scrub" => t.ids # {}

WInv == HInv /\ LineInv /\ CompositeInv /\ ScrubNamed

-----------------------------------------------------------------------------
(* Queues.                                                                 *)

(* Whoever waits, in terms of the queues.                                  *)
LEMMA WaitsLine ==
  ASSUME NEW k, NEW h
  PROVE  /\ Present(k) /\ Queued(locks[k].notify, h) <=> Queued(Line(locks, k), h)
         /\ (Present(k) /\ Queued(locks[k].notify, h))' <=> Queued(Line(locks', k), h)
         /\ Queued(Line(locks, k), h) => Present(k) /\ Line(locks, k) = locks[k].notify
PROOF
  <1>1. ~Queued(<<>>, h)
    BY DEF Queued
  <1>2. Present(k) /\ Queued(locks[k].notify, h) <=> Queued(Line(locks, k), h)
    BY <1>1 DEF Present, Line
  <1>3. (Present(k) /\ Queued(locks[k].notify, h))'
          <=> locks'[k] # None /\ Queued(locks'[k].notify, h)
    BY DEF Present, Queued
  <1>4. locks'[k] # None /\ Queued(locks'[k].notify, h) <=> Queued(Line(locks', k), h)
    BY <1>1 DEF Line
  <1>5. Queued(Line(locks, k), h) => Present(k) /\ Line(locks, k) = locks[k].notify
    BY <1>1 DEF Present, Line
  <1>. QED  BY <1>2, <1>3, <1>4, <1>5

(* The queue of a key, empty when there is no lock object.                 *)
LEMMA LineType ==
  ASSUME IInv, NEW k \in Keys
  PROVE  Line(locks, k) \in HomeQueue(k) /\ Line(locks, k) \in Seq(Waiter)
PROOF
  <1>1. CASE locks[k] = None
    <2>1. <<>> \in Seq(Waiter) /\ Len(<<>>) = 0
      OBVIOUS
    <2>2. <<>> \in HomeQueue(k)
      BY <2>1 DEF HomeQueue
    <2>. QED  BY <1>1, <2>1, <2>2 DEF Line
  <1>2. CASE locks[k] # None
    <2>1. locks[k] \in HomeLock(k)
      BY <1>2, IInvLocks DEF LocksOK
    <2>. QED  BY <1>2, <2>1, HomeQueueElim DEF Line, HomeLock
  <1>. QED  BY <1>1, <1>2

(* Nobody leaves unless somebody may be shown to have a reason.            *)
LEMMA Leaving ==
  ASSUME \A k \in Keys, h \in Holders :
           Queued(Line(locks, k), h) /\ ~Queued(Line(locks', k), h) =>
             \/ granting' # None /\ granting'.id = h
             \/ \E i \in 1..Len(Line(locks, k)) : /\ Line(locks, k)[i].id = h
                                                  /\ Line(locks, k)[i].ws \notin writable
             \/ \E ws \in Sockets : h \in Uuids /\ LockClientTimeout(h, ws)
             \/ \E t \in work \ work' : t.op = "scrub" /\ h \in t.ids
             \/ \E f \in out' : f.kind = "reelection" /\ f.id = h /\ h \in Uuids
             \/ Restart
  PROVE  WaiterLeavesForAReason
PROOF
  <1>. SUFFICES ASSUME NEW k \in Keys, NEW h \in Holders,
                       Present(k) /\ Queued(locks[k].notify, h),
                       ~(Present(k) /\ Queued(locks[k].notify, h))'
                PROVE  \/ granting' # None /\ granting'.id = h
                       \/ \E i \in 1..Len(locks[k].notify) :
                            /\ locks[k].notify[i].id = h
                            /\ locks[k].notify[i].ws \notin writable
                       \/ \E ws \in Sockets : h \in Uuids /\ LockClientTimeout(h, ws)
                       \/ \E t \in work \ work' : t.op = "scrub" /\ h \in t.ids
                       \/ \E f \in out' : f.kind = "reelection" /\ f.id = h /\ h \in Uuids
                       \/ Restart
    BY DEF WaiterLeavesForAReason
  <1>1. /\ Queued(Line(locks, k), h) /\ ~Queued(Line(locks', k), h)
        /\ Line(locks, k) = locks[k].notify
    BY WaitsLine
  <1>. QED  BY <1>1

LEMMA NobodyLeaves ==
  ASSUME \A k \in Keys, h \in Holders :
           Queued(Line(locks, k), h) => Queued(Line(locks', k), h)
  PROVE  WaiterLeavesForAReason
PROOF
  BY Leaving

(* A composite that waits on, or has lost, what it waited on or held       *)
(* before is where it may be, unless an attempt begins.                    *)
LEMMA CompositeShrinks ==
  ASSUME CompositeInv, spent \subseteq spent',
         \A m \in ManyIds : ~Attempting(m)',
         \A k \in Keys, m \in ManyIds :
           /\ m \in Holds(locks', k) => m \in Holds(locks, k)
           /\ Queued(Line(locks', k), m) => Queued(Line(locks, k), m)
  PROVE  CompositeInv'
PROOF
  <1>. SUFFICES ASSUME NEW m \in ManyIds  PROVE CompositeAt(m)'
    BY DEF CompositeInv
  <1>1. CompositeAt(m) /\ ~Attempting(m)'
    BY DEF CompositeInv
  <1>2. m \notin spent' => \A k \in Keys : m \notin Holds(locks', k)
                                           /\ ~Queued(Line(locks', k), m)
    BY <1>1 DEF CompositeAt
  <1>3. \A k \in Keys : Queued(Line(locks', k), m) =>
          \A j \in Keys : /\ m \notin Holds(locks', j)
                          /\ j # k => ~Queued(Line(locks', j), m)
    BY <1>1 DEF CompositeAt
  <1>. QED  BY <1>1, <1>2, <1>3 DEF CompositeAt

LEMMA NoAttempt ==
  ASSUME granting' = None \/ granting'.id \in Uuids
  PROVE  \A m \in ManyIds : ~Attempting(m)'
PROOF
  BY NameAssumption DEF Attempting

\* What a step has to leave behind.
WaitingKept == LineInv' /\ CompositeInv' /\ WaiterLeavesForAReason

(* A step that moves no waiter.                                            *)
LEMMA QueuesKept ==
  ASSUME WInv, LinesKept, spent' = spent, granting' = None \/ granting'.id \in Uuids,
         \A k \in Keys, m \in ManyIds : m \in Holds(locks', k) => m \in Holds(locks, k)
  PROVE  WaitingKept
PROOF
  <1>1. LineInv'
    BY DEF WInv, LineInv, LinesKept
  <1>2. CompositeInv'
    BY NoAttempt, CompositeShrinks DEF WInv, LinesKept
  <1>3. WaiterLeavesForAReason
    BY NobodyLeaves DEF LinesKept
  <1>. QED  BY <1>1, <1>2, <1>3 DEF WaitingKept

(* A step that changes the queue of one key, and queues no composite.      *)
LEMMA QueueChanges ==
  ASSUME WInv, NEW k \in Keys, NEW q, LineIs(k, q), Unrepeated(q),
         \A m \in ManyIds : Queued(q, m) => Queued(Line(locks, k), m),
         spent' = spent, granting' = None \/ granting'.id \in Uuids,
         \A j \in Keys : Holds(locks', j) \subseteq Holds(locks, j)
  PROVE  LineInv' /\ CompositeInv'
PROOF
  <1>1. LineInv'
    BY DEF WInv, LineInv, LineIs
  <1>2. \A j \in Keys, m \in ManyIds : Queued(Line(locks', j), m) => Queued(Line(locks, j), m)
    BY DEF LineIs
  <1>3. CompositeInv'
    BY <1>2, NoAttempt, CompositeShrinks DEF WInv
  <1>. QED  BY <1>1, <1>3

-----------------------------------------------------------------------------
(* Client frames, the sweeper and connections.                             *)

LEMMA LockFrameWaiting ==
  ASSUME WInv, LockFrame
  PROVE  WaitingKept
PROOF
  <1>. PICK u \in Uuids, ws \in Sockets :
         \/ LockRefused(u, ws) \/ LockOnNewKey(u, ws) \/ LockOnNewKeyFails(u, ws)
         \/ LockOnFreeKey(u, ws) \/ \E retry \in BOOLEAN : LockOnFullKey(u, ws, retry)
    BY DEF LockFrame
  <1>1. spent' = spent /\ (granting' = None \/ granting'.id \in Uuids)
    BY DEF LockRefused, LockOnNewKey, LockOnNewKeyFails, LockOnFreeKey, LockOnFullKey,
           LockAccepted, Hears, Idle, tables, stack, Begin
  <1>2. CASE LockRefused(u, ws)
    <2>1. HoldsKept /\ LinesKept
      BY <1>2 DEF LockRefused, HoldsKept, LinesKept
    <2>. QED  BY <1>1, <2>1, QueuesKept DEF HoldsKept
  <1>3. CASE LockOnNewKey(u, ws) \/ LockOnNewKeyFails(u, ws) \/ LockOnFreeKey(u, ws)
    <2>1. HoldsKept /\ LinesKept
      BY <1>3, LockOnNewKeyEffect, LockOnNewKeyFailsEffect, LockOnFreeKeyEffect
      DEF WInv, HInv
    <2>. QED  BY <1>1, <2>1, QueuesKept DEF HoldsKept
  <1>4. ASSUME NEW retry \in BOOLEAN, LockOnFullKey(u, ws, retry)
        PROVE  WaitingKept
    <2>. DEFINE k == Req[u].key
                q == Enqueue(Line(locks, k), u, ws, retry)
    <2>1. HoldsKept /\ (LinesKept \/ LineIs(k, q))
      BY <1>4, LockOnFullKeyEffect DEF WInv, HInv
    <2>2. k \in Keys /\ Line(locks, k) \in HomeQueue(k) /\ Unrepeated(Line(locks, k))
      BY RequestType, LineType DEF WInv, HInv, LineInv
    <2>3. Unrepeated(q) /\ \A h : Queued(q, h) <=> Queued(Line(locks, k), h) \/ h = u
      BY <2>2, EnqueueIds
    <2>. HIDE DEF q
    <2>4. CASE LinesKept
      BY <1>1, <2>1, <2>4, QueuesKept DEF HoldsKept
    <2>5. CASE LineIs(k, q)
      <3>1. \A m \in ManyIds : Queued(q, m) => Queued(Line(locks, k), m)
        BY <2>3, NameAssumption
      <3>2. LineInv' /\ CompositeInv'
        BY <1>1, <2>1, <2>2, <2>3, <2>5, <3>1, QueueChanges DEF HoldsKept
      <3>3. WaiterLeavesForAReason
        BY <2>3, <2>5, NobodyLeaves DEF LineIs
      <3>. QED  BY <3>2, <3>3 DEF WaitingKept
    <2>. QED  BY <2>1, <2>4, <2>5
  <1>. QED  BY <1>2, <1>3, <1>4

LEMMA UnlockFrameWaiting ==
  ASSUME WInv, UnlockFrame
  PROVE  WaitingKept
PROOF
  <1>. PICK k \in Keys, ws \in Sockets :
         \/ UnlockEveryone(k, ws)
         \/ \E u \in CallsOn(k) \cup {None} :
              \/ UnlockUnknownKey(k, u, ws) \/ UnlockHolder(k, u, ws) \/ UnlockLate(k, u, ws)
              \/ \E force \in BOOLEAN : UnlockRejected(k, u, ws, force)
    BY DEF UnlockFrame
  <1>1. spent' = spent /\ granting' = None
    BY DEF UnlockEveryone, UnlockUnknownKey, UnlockHolder, UnlockLate, UnlockRejected,
           Unlocking, Hears, Idle
  <1>2. LinesKept /\ \A j \in Keys : Holds(locks', j) \subseteq Holds(locks, j)
    <2>1. CASE UnlockEveryone(k, ws)
      <3>1. HoldsLose(k, Holders) /\ LinesKept
        BY <2>1, ReleaseEffect DEF UnlockEveryone, WInv, HInv, HoldersOf
      <3>. QED  BY <3>1 DEF HoldsLose
    <2>2. ASSUME NEW u \in CallsOn(k) \cup {None}, UnlockHolder(k, u, ws)
          PROVE  LinesKept /\ \A j \in Keys : Holds(locks', j) \subseteq Holds(locks, j)
      <3>1. {u} \in SUBSET Holders
        BY <2>2 DEF UnlockHolder, CallsOn, Holders
      <3>2. HoldsLose(k, {u}) /\ LinesKept
        BY <2>2, <3>1, ReleaseEffect DEF UnlockHolder, WInv, HInv
      <3>. QED  BY <3>2 DEF HoldsLose
    <2>3. ASSUME NEW u, UnlockLate(k, u, ws)
          PROVE  LinesKept /\ HoldsKept
      BY <2>3, UnlockLateEffect DEF WInv, HInv
    <2>4. ASSUME NEW u, UnlockUnknownKey(k, u, ws)
          PROVE  LinesKept /\ HoldsKept
      BY <2>4 DEF UnlockUnknownKey, LinesKept, HoldsKept
    <2>5. ASSUME NEW u, NEW force, UnlockRejected(k, u, ws, force)
          PROVE  LinesKept /\ HoldsKept
      BY <2>5 DEF UnlockRejected, LinesKept, HoldsKept
    <2>. QED  BY <2>1, <2>2, <2>3, <2>4, <2>5 DEF HoldsKept
  <1>. QED  BY <1>1, <1>2, QueuesKept

LEMMA OtherFrameWaiting ==
  ASSUME WInv, OtherFrame
  PROVE  WaitingKept
PROOF
  <1>1. spent' = spent /\ granting' = None
    BY DEF OtherFrame, LockReceived, LockClientTimeout, LockReceivedRejected, Hears, Idle,
           tables, stack
  <1>2. ASSUME NEW k, NEW ws, LockReceived(k, ws)
        PROVE  WaitingKept
    <2>1. LinesKept /\ HoldsKept
      BY <1>2 DEF LockReceived, LinesKept, HoldsKept
    <2>. QED  BY <1>1, <2>1, QueuesKept DEF HoldsKept
  <1>3. ASSUME NEW u \in Uuids, NEW ws, LockReceivedRejected(u, ws)
        PROVE  WaitingKept
    <2>1. LinesKept /\ HoldsKept
      BY <1>3, LockReceivedRejectedEffect DEF WInv, HInv
    <2>. QED  BY <1>1, <2>1, QueuesKept DEF HoldsKept
  <1>4. ASSUME NEW u \in Uuids, NEW ws \in Sockets, LockClientTimeout(u, ws)
        PROVE  WaitingKept
    <2>. DEFINE k == Req[u].key
                q == Without(Line(locks, k), u)
    <2>1. HoldsKept /\ LineIs(k, q)
      BY <1>4, LockClientTimeoutEffect DEF WInv, HInv
    <2>2. k \in Keys /\ Line(locks, k) \in Seq(Waiter) /\ Unrepeated(Line(locks, k))
      BY RequestType, LineType DEF WInv, HInv, LineInv
    <2>3. Unrepeated(q) /\ \A h : Queued(q, h) <=> Queued(Line(locks, k), h) /\ h # u
      BY <2>2, WithoutIds
    <2>. HIDE DEF q
    <2>4. LineInv' /\ CompositeInv'
      BY <1>1, <2>1, <2>2, <2>3, QueueChanges DEF HoldsKept
    <2>5. \A j \in Keys, h \in Holders :
            Queued(Line(locks, j), h) /\ ~Queued(Line(locks', j), h) => h = u
      BY <2>1, <2>3 DEF LineIs
    <2>6. WaiterLeavesForAReason
      BY <1>4, <2>5, Leaving
    <2>. QED  BY <2>4, <2>6 DEF WaitingKept
  <1>. QED  BY <1>2, <1>3, <1>4 DEF OtherFrame

LEMMA StillWaiting ==
  ASSUME WInv, TickTtl \/ Connections
  PROVE  WaitingKept
PROOF
  <1>1. LinesKept /\ HoldsKept /\ spent' = spent /\ granting' = None
    BY DEF TickTtl, Connections, BreakConnection, SocketEnds, VersionMismatch,
           CleanupConnection, Idle, tables, stack, LinesKept, HoldsKept
  <1>. QED  BY <1>1, QueuesKept DEF HoldsKept

-----------------------------------------------------------------------------
(* Composites: the attempt begins, goes on, and ends.                      *)

(* A composite whose attempt begins holds nothing and waits for nothing.   *)
LEMMA AttemptBegins ==
  ASSUME CompositeInv, NEW m \in ManyIds, m \in spent', spent \subseteq spent',
         granting'.id = m, granting'.pos = 1,
         \A k \in Keys : m \notin Holds(locks', k) /\ ~Queued(Line(locks', k), m),
         \A k \in Keys, n \in ManyIds :
           /\ n \in Holds(locks', k) => n \in Holds(locks, k)
           /\ Queued(Line(locks', k), n) => Queued(Line(locks, k), n)
  PROVE  CompositeInv'
PROOF
  <1>. SUFFICES ASSUME NEW n \in ManyIds  PROVE CompositeAt(n)'
    BY DEF CompositeInv
  <1>1. CASE n = m
    <2>1. WalkedSoFar' = {}
      BY DEF WalkedSoFar
    <2>. QED  BY <1>1, <2>1 DEF CompositeAt
  <1>2. CASE n # m
    <2>1. CompositeAt(n) /\ ~Attempting(n)'
      BY <1>2 DEF CompositeInv, Attempting
    <2>2. n \notin spent' => \A k \in Keys : n \notin Holds(locks', k)
                                             /\ ~Queued(Line(locks', k), n)
      BY <2>1 DEF CompositeAt
    <2>3. \A k \in Keys : Queued(Line(locks', k), n) =>
            \A j \in Keys : /\ n \notin Holds(locks', j)
                            /\ j # k => ~Queued(Line(locks', j), n)
      BY <2>1 DEF CompositeAt
    <2>. QED  BY <2>1, <2>2, <2>3 DEF CompositeAt
  <1>. QED  BY <1>1, <1>2

LEMMA ManyFrameWaiting ==
  ASSUME WInv, ManyFrame
  PROVE  WaitingKept
PROOF
  <1>1. LinesKept /\ HoldsKept
    BY DEF ManyFrame, AcquireMany, ReleaseMany, LinesKept, HoldsKept
  <1>2. CASE granting' = None /\ spent' = spent
    BY <1>1, <1>2, QueuesKept DEF HoldsKept
  <1>3. ASSUME NEW m \in ManyIds, m \notin spent, spent' = spent \cup {m},
               Begin(m, ManyReq[m].from)
        PROVE  WaitingKept
    <2>1. granting'.id = m /\ granting'.pos = 1
      BY <1>3 DEF Begin
    <2>2. \A k \in Keys : m \notin Holds(locks', k) /\ ~Queued(Line(locks', k), m)
      BY <1>1, <1>3 DEF WInv, CompositeInv, CompositeAt, LinesKept, HoldsKept
    <2>3. CompositeInv'
      BY <1>1, <1>3, <2>1, <2>2, AttemptBegins DEF WInv, LinesKept, HoldsKept
    <2>4. LineInv' /\ WaiterLeavesForAReason
      BY <1>1, NobodyLeaves DEF WInv, LineInv, LinesKept
    <2>. QED  BY <2>3, <2>4 DEF WaitingKept
  <1>4. \/ granting' = None /\ spent' = spent
        \/ \E m \in ManyIds : /\ m \notin spent /\ spent' = spent \cup {m}
                              /\ Begin(m, ManyReq[m].from)
    BY DEF ManyFrame, AcquireMany, ReleaseMany, Hears, Idle, tables
  <1>. QED  BY <1>2, <1>3, <1>4

LEMMA ManyGrantsKeyWaiting ==
  ASSUME WInv, ManyGrantsKey
  PROVE  WaitingKept
PROOF
  <1>. DEFINE m == granting.id
  <1>1. m \in ManyIds /\ ManyKey \in Keys /\ HoldsGain(ManyKey, m) /\ LinesKept
    BY ManyGrantsKeyEffect DEF WInv, HInv
  <1>2. granting # None /\ granting \in GrantInHand
        /\ granting' = [granting EXCEPT !.pos = granting.pos + 1] /\ spent' = spent
    BY GrantingType DEF WInv, HInv, ManyGrantsKey, GrantingMany
  <1>3. granting'.id = m /\ granting'.pos = granting.pos + 1 /\ granting.pos \in Nat \ {0}
    BY <1>2 DEF GrantInHand
  <1>4. WalkedSoFar' = WalkedSoFar \cup {ManyKey}
    <2>1. \A i : i \in 1..(granting'.pos - 1) <=> i \in 1..(granting.pos - 1) \/ i = granting.pos
      BY <1>3
    <2>. QED  BY <1>3, <2>1 DEF WalkedSoFar, ManyKey, ManyKeys
  <1>5. ASSUME NEW n \in ManyIds  PROVE CompositeAt(n)'
    <2>1. CompositeAt(n) /\ CompositeAt(m)
      BY <1>1 DEF WInv, CompositeInv
    <2>2. CASE n = m
      <3>1. Attempting(m)
        BY <1>2 DEF Attempting
      <3>2. m \in spent' /\ \A k \in Keys : ~Queued(Line(locks', k), m)
        BY <1>1, <1>2, <2>1, <3>1 DEF CompositeAt, LinesKept
      <3>3. \A k \in Keys : m \in Holds(locks', k) <=> k \in WalkedSoFar'
        BY <1>1, <1>4, <2>1, <3>1 DEF CompositeAt, HoldsGain
      <3>. QED  BY <2>2, <3>2, <3>3 DEF CompositeAt
    <2>3. CASE n # m
      <3>1. ~Attempting(n)' /\ \A k \in Keys : /\ n \in Holds(locks', k) <=> n \in Holds(locks, k)
                                              /\ Line(locks', k) = Line(locks, k)
        BY <1>1, <1>3, <2>3 DEF Attempting, HoldsGain, LinesKept
      <3>. QED  BY <1>2, <2>1, <3>1 DEF CompositeAt
    <2>. QED  BY <2>2, <2>3
  <1>6. LineInv' /\ WaiterLeavesForAReason
    BY <1>1, NobodyLeaves DEF WInv, LineInv, LinesKept
  <1>. QED  BY <1>5, <1>6 DEF WaitingKept, CompositeInv

(* Queueing again adds one waiter, or nobody.                              *)
LEMMA RejoinIds ==
  ASSUME NEW q \in Seq(Waiter), Unrepeated(q), NEW w \in Waiter
  PROVE  /\ Unrepeated(Rejoin(q, w))
         /\ \A h : Queued(Rejoin(q, w), h) <=> Queued(q, h) \/ h = w.id
PROOF
  <1>1. CASE Queued(q, w.id)
    BY <1>1 DEF Rejoin
  <1>2. CASE ~Queued(q, w.id)
    BY <1>2, AppendIds DEF Rejoin
  <1>. QED  BY <1>1, <1>2

LEMMA ManyIsContendedWaiting ==
  ASSUME WInv, ManyIsContended
  PROVE  WaitingKept
PROOF
  <1>. DEFINE m == granting.id
              q == Rejoin(Line(locks, ManyKey), [id |-> m, ws |-> granting.ws])
  <1>1. /\ m \in ManyIds /\ ManyKey \in Keys
        /\ \A j \in Keys : Holds(locks', j) = IF j \in WalkedSoFar THEN Holds(locks, j) \ {m}
                                                                   ELSE Holds(locks, j)
        /\ LinesKept \/ LineIs(ManyKey, q)
    BY ManyIsContendedEffect DEF WInv, HInv
  <1>2. granting # None /\ granting' = None /\ spent' = spent
    BY DEF ManyIsContended, GrantingMany
  <1>3. [id |-> m, ws |-> granting.ws] \in Waiter
    BY <1>2, GrantingType DEF WInv, HInv, Waiter
  <1>4. Unrepeated(q) /\ \A h : Queued(q, h) <=> Queued(Line(locks, ManyKey), h) \/ h = m
    <2>1. Line(locks, ManyKey) \in Seq(Waiter) /\ Unrepeated(Line(locks, ManyKey))
      BY <1>1, LineType DEF WInv, HInv, LineInv
    <2>. QED  BY <1>3, <2>1, RejoinIds
  <1>. HIDE DEF q
  <1>5. /\ LineInv'
        /\ \A k \in Keys : \A h : Queued(Line(locks', k), h) <=>
                                     \/ Queued(Line(locks, k), h)
                                     \/ LineIs(ManyKey, q) /\ k = ManyKey /\ h = m
    <2>1. CASE LineIs(ManyKey, q)
      BY <1>4, <2>1 DEF LineIs, LineInv, WInv
    <2>2. CASE LinesKept /\ ~LineIs(ManyKey, q)
      BY <2>2 DEF LinesKept, LineInv, WInv
    <2>. QED  BY <1>1, <2>1, <2>2
  <1>6. ASSUME NEW n \in ManyIds  PROVE CompositeAt(n)'
    <2>1. CompositeAt(n) /\ ~Attempting(n)'
      BY <1>2 DEF WInv, CompositeInv, Attempting
    <2>2. CASE n = m
      <3>1. Attempting(m)
        BY <1>2 DEF Attempting
      <3>2. m \in spent' /\ \A k \in Keys : /\ m \notin Holds(locks', k)
                                            /\ ~Queued(Line(locks, k), m)
        BY <1>1, <1>2, <2>1, <2>2, <3>1 DEF CompositeAt
      <3>3. \A k \in Keys : Queued(Line(locks', k), m) => k = ManyKey
        BY <1>5, <3>2
      <3>. QED  BY <2>1, <2>2, <3>2, <3>3 DEF CompositeAt
    <2>3. CASE n # m
      <3>1. \A k \in Keys : /\ n \in Holds(locks', k) <=> n \in Holds(locks, k)
                            /\ Queued(Line(locks', k), n) <=> Queued(Line(locks, k), n)
        BY <1>1, <1>5, <2>3
      <3>. QED  BY <1>2, <2>1, <3>1 DEF CompositeAt
    <2>. QED  BY <2>2, <2>3
  <1>7. WaiterLeavesForAReason
    BY <1>5, NobodyLeaves
  <1>. QED  BY <1>5, <1>6, <1>7 DEF WaitingKept, CompositeInv

LEMMA GrantingWaiting ==
  ASSUME WInv, Granting
  PROVE  WaitingKept
PROOF
  <1>1. CASE GrantLock
    <2>1. LinesKept /\ granting.id \in Uuids /\ HoldsGain(Req[granting.id].key, granting.id)
      BY <1>1, GrantLockEffect DEF WInv, HInv
    <2>2. \A k \in Keys, m \in ManyIds : m \in Holds(locks', k) => m \in Holds(locks, k)
      BY <2>1, NameAssumption DEF HoldsGain
    <2>. QED  BY <1>1, <2>1, <2>2, QueuesKept DEF GrantLock
  <1>2. CASE GrantLockFails \/ ManyRegisters
    <2>1. LinesKept /\ HoldsKept /\ granting' = None /\ spent' = spent
      BY <1>2 DEF GrantLockFails, ManyRegisters, LinesKept, HoldsKept
    <2>. QED  BY <2>1, QueuesKept DEF HoldsKept
  <1>3. CASE ManyFails
    <2>1. LinesKept /\ HoldsKept /\ granting' = None /\ spent' = spent
      BY <1>3, ManyFailsEffect DEF ManyFails, WInv, HInv, tables
    <2>. QED  BY <2>1, QueuesKept DEF HoldsKept
  <1>4. CASE ManyCreatesLock
    <2>1. LinesKept /\ HoldsKept /\ granting' = granting /\ spent' = spent
      BY <1>4, ManyCreatesLockEffect DEF ManyCreatesLock, WInv, HInv, tables, stack
    <2>2. \A m : Attempting(m)' <=> Attempting(m)
      BY <2>1 DEF Attempting
    <2>3. WalkedSoFar' = WalkedSoFar
      BY <2>1 DEF WalkedSoFar, ManyKeys
    <2>4. \A m \in ManyIds : CompositeAt(m)'
      BY <2>1, <2>2, <2>3 DEF WInv, CompositeInv, CompositeAt, LinesKept, HoldsKept
    <2>5. LineInv' /\ WaiterLeavesForAReason
      BY <2>1, NobodyLeaves DEF WInv, LineInv, LinesKept
    <2>. QED  BY <2>4, <2>5 DEF WaitingKept, CompositeInv
  <1>. QED  BY <1>1, <1>2, <1>3, <1>4, ManyGrantsKeyWaiting, ManyIsContendedWaiting DEF Granting

-----------------------------------------------------------------------------
(* The drain loop: the waiters it skips are dead, the one it takes is      *)
(* attempted.                                                              *)

LEMMA DequeueWaiterWaiting ==
  ASSUME WInv, NEW k \in Keys, DequeueWaiter(k)
  PROVE  WaitingKept
PROOF
  <1>. DEFINE q == Line(locks, k)
  <1>1. HoldsKept /\ q \in Seq(Waiter) /\ Unrepeated(q)
    BY DequeueWaiterEffect, LineType DEF WInv, HInv, LineInv
  <1>2. PICK i \in 1..Len(q) :
          /\ IsNextWaiter(q, i, writable)
          /\ LineIs(k, AfterFirst(i, q))
          /\ granting' = [id |-> q[i].id, ws |-> q[i].ws, pos |-> 1, queued |-> TRUE]
    BY DequeueWaiterEffect DEF WInv, HInv
  <1>. HIDE DEF q
  <1>3. i \in Nat \ {0} /\ Len(q) \in Nat /\ q[i].id \in Holders /\ q[i].ws \in Sockets
    <2>1. Len(q) \in Nat /\ i \in 1..Len(q)
      BY <1>1
    <2>2. q[i] \in Waiter
      BY <1>1, <2>1
    <2>. QED  BY <2>1, <2>2 DEF Waiter
  <1>4. granting'.id = q[i].id /\ granting'.pos = 1 /\ granting' # None
    <2>1. granting' \in GrantInHand
      BY <1>2, <1>3 DEF GrantInHand
    <2>. QED  BY <1>2, <2>1, NoGrantAssumption
  <1>. DEFINE r == AfterFirst(i, q)
  <1>5. Unrepeated(r) /\ \A h : Queued(r, h) <=> \E j \in 1..Len(q) : q[j].id = h /\ i < j
    BY <1>1, <1>3, AfterFirstIds
  <1>. HIDE DEF r
  <1>6. LineIs(k, r) /\ \A h : Queued(r, h) => Queued(q, h) /\ h # q[i].id
    <2>1. \A j \in 1..Len(q) : q[j].id = q[i].id => ~(i < j)
      BY <1>1, <1>2, <1>3 DEF Unrepeated
    <2>. QED  BY <1>2, <1>5, <2>1 DEF r, Queued
  <1>7. spent' = spent
    BY DEF DequeueWaiter, tables
  <1>8. LineInv' /\ CompositeInv'
    <2>1. CASE q[i].id \in Uuids
      <3>1. \A m \in ManyIds : Queued(r, m) => Queued(Line(locks, k), m)
        BY <1>6 DEF q
      <3>. QED  BY <1>1, <1>4, <1>5, <1>6, <1>7, <2>1, <3>1, QueueChanges DEF HoldsKept
    <2>2. CASE q[i].id \in ManyIds
      <3>. DEFINE m == q[i].id
      <3>1. CompositeAt(m) /\ Queued(q, m)
        BY <1>2, <2>2 DEF WInv, CompositeInv, Queued
      <3>2. m \in spent /\ \A j \in Keys : /\ m \notin Holds(locks, j)
                                           /\ j # k => ~Queued(Line(locks, j), m)
        BY <3>1 DEF CompositeAt, q
      <3>3. \A j \in Keys : m \notin Holds(locks', j) /\ ~Queued(Line(locks', j), m)
        BY <1>1, <1>6, <3>2 DEF HoldsKept, LineIs
      <3>4. \A j \in Keys, n \in ManyIds :
              /\ n \in Holds(locks', j) => n \in Holds(locks, j)
              /\ Queued(Line(locks', j), n) => Queued(Line(locks, j), n)
        BY <1>1, <1>6 DEF HoldsKept, LineIs, q
      <3>. HIDE DEF m
      <3>5. m \in ManyIds /\ granting'.id = m
        BY <1>4, <2>2 DEF m
      <3>6. CompositeInv'
        BY <1>4, <1>7, <3>2, <3>3, <3>4, <3>5, AttemptBegins DEF WInv
      <3>7. LineInv'
        BY <1>5, <1>6 DEF WInv, LineInv, LineIs
      <3>. QED  BY <3>6, <3>7
    <2>. QED  BY <1>3, <2>1, <2>2 DEF Holders
  <1>9. WaiterLeavesForAReason
    <2>1. ASSUME NEW h \in Holders, Queued(q, h), ~Queued(r, h), h # granting'.id
          PROVE  \E j \in 1..Len(q) : q[j].id = h /\ q[j].ws \notin writable
      <3>1. PICK j \in 1..Len(q) : q[j].id = h
        BY <2>1 DEF Queued
      <3>2. j \in 1..(i - 1)
        BY <1>3, <1>4, <1>5, <2>1, <3>1
      <3>3. q[j].ws \notin writable
        BY <1>2, <3>2 DEF IsNextWaiter
      <3>. QED  BY <3>1, <3>3
    <2>2. ASSUME NEW j \in Keys, NEW h \in Holders,
                 Queued(Line(locks, j), h), ~Queued(Line(locks', j), h)
          PROVE  j = k /\ Queued(q, h) /\ ~Queued(r, h)
      BY <1>6, <2>2 DEF LineIs, q
    <2>. QED  BY <1>4, <2>1, <2>2, Leaving DEF q
  <1>. QED  BY <1>8, <1>9 DEF WaitingKept

LEMMA DrainWaiting ==
  ASSUME WInv, Drain
  PROVE  WaitingKept
PROOF
  <1>1. ASSUME NEW k, DrainStops(k)
        PROVE  WaitingKept
    <2>1. LinesKept /\ HoldsKept /\ granting' = None /\ spent' = spent
      BY <1>1 DEF DrainStops, Draining, LinesKept, HoldsKept, tables
    <2>. QED  BY <2>1, QueuesKept DEF HoldsKept
  <1>. QED  BY <1>1, DequeueWaiterWaiting DEF Drain

-----------------------------------------------------------------------------
(* Rows of a running handler, the re-election timer and the restart.       *)

LEMMA ScrubWaiterWaiting ==
  ASSUME WInv, NEW t \in work, ScrubWaiter(t)
  PROVE  WaitingKept
PROOF
  <1>. DEFINE u == CHOOSE v \in t.ids : TRUE
              q == Without(Line(locks, t.key), u)
  <1>1. HoldsKept /\ LineIs(t.key, q)
    BY ScrubWaiterEffect DEF WInv, HInv
  <1>2. /\ t.key \in Keys /\ t.op = "scrub" /\ work' = work \ {t} /\ t.ids # {}
        /\ granting' = None /\ spent' = spent
    BY TaskType DEF ScrubWaiter, CleaningUp, Turn, WInv, HInv, ScrubNamed
  <1>3. u \in t.ids
    BY <1>2
  <1>4. Unrepeated(q) /\ \A h : Queued(q, h) <=> Queued(Line(locks, t.key), h) /\ h # u
    BY <1>2, LineType, WithoutIds DEF WInv, HInv, LineInv
  <1>. HIDE DEF u, q
  <1>5. LineInv' /\ CompositeInv'
    BY <1>1, <1>2, <1>4, QueueChanges DEF HoldsKept
  <1>6. \A j \in Keys, h \in Holders :
          Queued(Line(locks, j), h) /\ ~Queued(Line(locks', j), h) => h = u
    BY <1>1, <1>4 DEF LineIs
  <1>7. WaiterLeavesForAReason
    BY <1>2, <1>3, <1>6, Leaving
  <1>. QED  BY <1>5, <1>7 DEF WaitingKept

LEMMA WorkWaiting ==
  ASSUME WInv, WorkStep
  PROVE  WaitingKept
PROOF
  <1>. PICK t \in work :
         \/ Evict(t) \/ ReleaseMember(t) \/ ForgetComposite(t) \/ VisitKey(t)
         \/ VisitAbsentKey(t) \/ ScrubWaiter(t) \/ ForcedUnlock(t) \/ EndCleanup(t)
    BY DEF WorkStep
  <1>1. CASE Evict(t) \/ ReleaseMember(t) \/ ForcedUnlock(t)
    <2>1. HoldsLose(t.key, t.ids) /\ LinesKept
      BY <1>1, EvictEffect, ReleaseMemberEffect, ForcedUnlockEffect DEF WInv, HInv
    <2>2. granting' = None /\ spent' = spent
      BY <1>1 DEF Evict, ReleaseMember, ForcedUnlock, CleaningUp, Turn
    <2>. QED  BY <2>1, <2>2, QueuesKept DEF HoldsLose
  <1>2. CASE ForgetComposite(t) \/ VisitKey(t) \/ VisitAbsentKey(t) \/ EndCleanup(t)
    <2>1. LinesKept /\ HoldsKept /\ granting' = None /\ spent' = spent
      BY <1>2 DEF ForgetComposite, VisitKey, VisitAbsentKey, EndCleanup, CleaningUp, Turn,
                  LinesKept, HoldsKept
    <2>. QED  BY <2>1, QueuesKept DEF HoldsKept
  <1>. QED  BY <1>1, <1>2, ScrubWaiterWaiting

(* The timer lets waiters go, whoever they are ...                         *)
LEMMA ReelectionWaiting ==
  ASSUME WInv, NEW k \in Keys, Reelection(k)
  PROVE  LineInv' /\ CompositeInv'
PROOF
  <1>1. granting' = None /\ spent' = spent
    BY DEF Reelection, Idle, stack
  <1>2. CASE HoldsKept /\ LinesKept
    BY <1>1, <1>2, QueuesKept DEF HoldsKept, WaitingKept
  <1>3. ASSUME HoldsLose(k, {timeouts[k].id}), NEW n \in Nat,
               LineIs(k, AfterFirst(n, Line(locks, k)))
        PROVE  LineInv' /\ CompositeInv'
    <2>. DEFINE r == AfterFirst(n, Line(locks, k))
    <2>1. Line(locks, k) \in Seq(Waiter) /\ Unrepeated(Line(locks, k))
      BY LineType DEF WInv, HInv, LineInv
    <2>2. Unrepeated(r) /\ \A h : Queued(r, h) => Queued(Line(locks, k), h)
      BY <2>1, AfterFirstIds DEF Queued
    <2>. HIDE DEF r
    <2>3. LineIs(k, r)
      BY <1>3 DEF r
    <2>. QED  BY <1>1, <1>3, <2>2, <2>3, QueueChanges DEF HoldsLose
  <1>. QED  BY <1>2, <1>3, ReelectionEffect DEF WInv, HInv

(* ... but tells every connected client of a plain call to ask again.      *)
LEMMA TimerTellsPlainCalls ==
  ASSUME WInv, NEW k \in Keys, Reelection(k),
         \A m \in ManyIds : ~Queued(Line(locks, k), m)
  PROVE  WaiterLeavesForAReason
PROOF
  <1>1. CASE LinesKept
    BY <1>1, NobodyLeaves DEF LinesKept
  <1>. DEFINE q == Line(locks, k)
  <1>2. ASSUME NEW n \in Nat, LineIs(k, AfterFirst(n, q)),
               out' = UNION {Send(q[i].ws, "reelection", q[i].id, 0) :
                             i \in {j \in 1..Len(q) : j <= n}}
        PROVE  WaiterLeavesForAReason
    <2>1. q \in Seq(Waiter) /\ Unrepeated(q) /\ Len(q) \in Nat
      BY LineType DEF WInv, HInv, LineInv
    <2>. DEFINE r == AfterFirst(n, q)
    <2>2. \A h : Queued(r, h) <=> \E j \in 1..Len(q) : q[j].id = h /\ n < j
      BY <2>1, AfterFirstIds
    <2>. HIDE DEF r
    <2>3. LineIs(k, r)
      BY <1>2 DEF r
    <2>4. ASSUME NEW h \in Holders, Queued(q, h), ~Queued(r, h)
          PROVE  \/ \E i \in 1..Len(q) : q[i].id = h /\ q[i].ws \notin writable
                 \/ \E f \in out' : f.kind = "reelection" /\ f.id = h /\ h \in Uuids
      <3>1. PICK j \in 1..Len(q) : q[j].id = h
        BY <2>4 DEF Queued
      <3>2. j <= n
        BY <2>1, <2>2, <2>4, <3>1
      <3>3. h \in Uuids
        BY <2>4 DEF Holders
      <3>. DEFINE f == [to |-> q[j].ws, kind |-> "reelection", id |-> q[j].id, token |-> 0]
      <3>4. CASE q[j].ws \in writable
        <4>1. f \in Send(q[j].ws, "reelection", q[j].id, 0)
          BY <3>4 DEF Send
        <4>2. f \in out'
          BY <1>2, <3>2, <4>1
        <4>3. f.kind = "reelection" /\ f.id = h
          BY <3>1
        <4>. QED  BY <3>3, <4>2, <4>3
      <3>. QED  BY <3>1, <3>4
    <2>5. ASSUME NEW j \in Keys, NEW h \in Holders,
                 Queued(Line(locks, j), h), ~Queued(Line(locks', j), h)
          PROVE  j = k /\ Queued(q, h) /\ ~Queued(r, h)
      BY <2>3, <2>5 DEF LineIs
    <2>. QED  BY <2>4, <2>5, Leaving
  <1>. QED  BY <1>1, <1>2, ReelectionEffect DEF WInv, HInv

LEMMA RestartWaiting ==
  ASSUME WInv, Restart
  PROVE  WaitingKept
PROOF
  <1>1. /\ \A k \in Keys : Holds(locks', k) = {} /\ Line(locks', k) = <<>>
        /\ granting' = None /\ spent' = spent
    BY RestartEffect DEF Restart
  <1>2. Unrepeated(<<>>) /\ \A h : ~Queued(<<>>, h)
    BY DEF Unrepeated, Queued
  <1>3. LineInv'
    BY <1>1, <1>2 DEF LineInv
  <1>4. CompositeInv'
    BY <1>1, <1>2, NoAttempt, CompositeShrinks DEF WInv
  <1>5. WaiterLeavesForAReason
    BY Leaving
  <1>. QED  BY <1>3, <1>4, <1>5 DEF WaitingKept

-----------------------------------------------------------------------------
(* The invariant.                                                          *)

\* A row of the running handler is visited.
Visits(t) == \/ Evict(t) \/ ReleaseMember(t) \/ ForgetComposite(t) \/ VisitKey(t)
             \/ VisitAbsentKey(t) \/ ScrubWaiter(t) \/ ForcedUnlock(t) \/ EndCleanup(t)

(* The rows: a handler that has any visits them one by one.                *)
LEMMA RowsMove ==
  ASSUME Next
  PROVE  \/ work' = work
         \/ work = {} /\ (TickTtl \/ ManyFrame \/ Connections)
         \/ \E t \in work : Visits(t) /\ (VisitKey(t) \/ work' = work \ {t})
         \/ Restart /\ work' = {}
PROOF
  <1>1. CASE LockFrame
    <2>1. PICK u \in Uuids, ws \in Sockets :
            \/ LockRefused(u, ws) \/ LockOnNewKey(u, ws) \/ LockOnNewKeyFails(u, ws)
            \/ LockOnFreeKey(u, ws) \/ \E retry \in BOOLEAN : LockOnFullKey(u, ws, retry)
      BY <1>1 DEF LockFrame
    <2>. QED  BY <2>1 DEF LockRefused, LockOnNewKey, LockOnNewKeyFails, LockOnFreeKey,
                          LockOnFullKey, LockAccepted, stack
  <1>2. CASE UnlockFrame
    <2>1. PICK k \in Keys, ws \in Sockets :
            \/ UnlockEveryone(k, ws)
            \/ \E u \in CallsOn(k) \cup {None} :
                 \/ UnlockUnknownKey(k, u, ws) \/ UnlockHolder(k, u, ws) \/ UnlockLate(k, u, ws)
                 \/ \E force \in BOOLEAN : UnlockRejected(k, u, ws, force)
      BY <1>2 DEF UnlockFrame
    <2>. QED  BY <2>1 DEF UnlockEveryone, UnlockUnknownKey, UnlockHolder, UnlockLate,
                          UnlockRejected, Unlocking
  <1>3. CASE OtherFrame \/ Granting \/ Drain \/ Reelections
    BY <1>3 DEF OtherFrame, LockReceived, LockClientTimeout, LockReceivedRejected, Granting,
                GrantLock, GrantLockFails, ManyCreatesLock, ManyGrantsKey, ManyIsContended,
                ManyRegisters, ManyFails, Drain, DrainStops, DequeueWaiter, Reelections,
                Reelection, stack
  <1>4. CASE TickTtl \/ ManyFrame \/ Connections
    <2>1. Idle
      BY <1>4 DEF TickTtl, ManyFrame, AcquireMany, ReleaseMany, Hears, Connections,
                  BreakConnection, SocketEnds, VersionMismatch, CleanupConnection
    <2>. QED  BY <1>4, <2>1 DEF Idle
  <1>5. CASE WorkStep
    <2>1. PICK t \in work : Visits(t)
      BY <1>5 DEF WorkStep, Visits
    <2>2. VisitKey(t) \/ work' = work \ {t}
      BY <2>1 DEF Visits, Evict, ReleaseMember, ForgetComposite, VisitAbsentKey, ScrubWaiter,
                  ForcedUnlock, EndCleanup
    <2>. QED  BY <2>1, <2>2
  <1>6. CASE Restart
    BY <1>6 DEF Restart
  <1>. QED  BY <1>1, <1>2, <1>3, <1>4, <1>5, <1>6 DEF Next, CalmNext, Frames, Internal

\* A row that a step adds.
AddsRow(t) ==
  \/ TickTtl /\ \E e \in holderDeadlines : t = EvictRow(e[1], e[2])
  \/ \E m \in ManyIds, ws \in Sockets :
       /\ ReleaseMany(m, ws) /\ m \in compositeLocks
       /\ t = RegistryRow(m, ws) \/ \E i \in 1..Len(ManyReq[m].keys) : t = MemberRow(m, i)
  \/ \E ws \in Sockets, last \in {"destroy", "mismatch"} :
       CleanupConnection(ws, last) /\ (t = LastRow(last, ws) \/ \E k \in Keys : t = VisitRow(k, ws))
  \/ \E s \in work :
       /\ VisitKey(s)
       /\ \/ \E u \in s.ids : Queued(locks[s.key].notify, u) /\ t = ScrubRow(s.key, u)
          \/ \E h \in HoldersOf(locks[s.key]) : /\ locks[s.key].lockholders[h].ws = s.ws
                                                /\ t = ForcedRow(s.key, h, s.ws)

LEMMA RowsComeAndGo ==
  ASSUME Next
  PROVE  /\ \A t \in work' : t \in work \/ AddsRow(t)
         /\ \A t \in work : t \in work' \/ Visits(t) \/ Restart
PROOF
  <1>1. CASE work' = work \/ (Restart /\ work' = {})
    BY <1>1
  <1>2. ASSUME NEW s \in work, Visits(s), VisitKey(s) \/ work' = work \ {s}
        PROVE  /\ \A t \in work' : t \in work \/ AddsRow(t)
               /\ \A t \in work : t \in work' \/ Visits(t)
    BY <1>2 DEF VisitKey, AddsRow
  <1>3. CASE work = {} /\ TickTtl
    BY <1>3 DEF TickTtl, AddsRow
  <1>4. CASE work = {} /\ ManyFrame
    <2>1. work' = work \/ \E m \in ManyIds, ws \in Sockets :
                            ReleaseMany(m, ws) /\ m \in compositeLocks
      BY <1>4 DEF ManyFrame, AcquireMany, ReleaseMany
    <2>2. ASSUME NEW m \in ManyIds, NEW ws \in Sockets, ReleaseMany(m, ws), m \in compositeLocks
          PROVE  \A t \in work' : AddsRow(t)
      <3>1. work' = {MemberRow(m, i) : i \in 1..Len(ManyReq[m].keys)} \cup {RegistryRow(m, ws)}
        BY <2>2 DEF ReleaseMany
      <3>. QED  BY <2>2, <3>1 DEF AddsRow
    <2>. QED  BY <1>4, <2>1, <2>2
  <1>5. CASE work = {} /\ Connections
    <2>1. \/ work' = work
          \/ \E ws \in Sockets, last \in {"destroy", "mismatch"} : CleanupConnection(ws, last)
      BY <1>5 DEF Connections, BreakConnection, SocketEnds, VersionMismatch, stack
    <2>2. ASSUME NEW ws \in Sockets, NEW last \in {"destroy", "mismatch"},
                 CleanupConnection(ws, last)
          PROVE  \A t \in work' : AddsRow(t)
      <3>1. work' = {VisitRow(k, ws) : k \in Keys} \cup {LastRow(last, ws)}
        BY <2>2 DEF CleanupConnection
      <3>. QED  BY <2>2, <3>1 DEF AddsRow
    <2>. QED  BY <1>5, <2>1, <2>2
  <1>. QED  BY <1>1, <1>2, <1>3, <1>4, <1>5, RowsMove

(* Only cleanupConnection scrubs, and it names the call.                   *)
LEMMA ScrubNamedStep ==
  ASSUME ScrubNamed, [Next]_vars
  PROVE  ScrubNamed'
PROOF
  <1>1. CASE UNCHANGED vars
    BY <1>1 DEF ScrubNamed, vars, stack
  <1>2. ASSUME NEW t, AddsRow(t), t.op = "scrub"
        PROVE  t.ids # {}
    <2>1. \A k, h, m, i, ws, last :
            /\ t # EvictRow(k, h) /\ t # RegistryRow(m, ws) /\ t # MemberRow(m, i)
            /\ t # VisitRow(k, ws) /\ t # ForcedRow(k, h, ws)
            /\ last # "scrub" => t # LastRow(last, ws)
      BY <1>2 DEF EvictRow, RegistryRow, MemberRow, VisitRow, LastRow, ForcedRow
    <2>2. \A k, u : t = ScrubRow(k, u) => t.ids = {u}
      BY DEF ScrubRow
    <2>. QED  BY <1>2, <2>1, <2>2 DEF AddsRow
  <1>. QED  BY <1>1, <1>2, RowsComeAndGo DEF ScrubNamed

\* The re-election timer of a key leaves composites in peace.
TimerSpares ==
  \A k \in Keys : Reelection(k) => \A m \in ManyIds : ~Queued(Line(locks, k), m)

LEMMA WaitingStep ==
  ASSUME WInv, Next
  PROVE  /\ LineInv' /\ CompositeInv'
         /\ TimerSpares => WaiterLeavesForAReason
PROOF
  <1>1. CASE CalmNext \/ Restart
    BY <1>1, LockFrameWaiting, UnlockFrameWaiting, ManyFrameWaiting, OtherFrameWaiting,
       StillWaiting, GrantingWaiting, DrainWaiting, WorkWaiting, RestartWaiting
    DEF CalmNext, Frames, Internal, WaitingKept
  <1>2. ASSUME NEW k \in Keys, Reelection(k)
        PROVE  /\ LineInv' /\ CompositeInv'
               /\ TimerSpares => WaiterLeavesForAReason
    BY <1>2, ReelectionWaiting, TimerTellsPlainCalls DEF TimerSpares
  <1>. QED  BY <1>1, <1>2 DEF Next, Reelections

LEMMA InitWInv == Init => WInv
PROOF
  <1>. SUFFICES ASSUME Init  PROVE WInv
    OBVIOUS
  <1>1. Unrepeated(<<>>) /\ \A h : ~Queued(<<>>, h)
    BY DEF Unrepeated, Queued
  <1>2. \A k \in Keys : Holds(locks, k) = {} /\ Line(locks, k) = <<>>
    BY DEF Init, Holds, Line
  <1>3. granting = None /\ work = {} /\ spent = {}
    BY DEF Init
  <1>4. LineInv /\ ScrubNamed
    BY <1>1, <1>2, <1>3 DEF LineInv, ScrubNamed
  <1>5. CompositeInv
    BY <1>1, <1>2, <1>3 DEF CompositeInv, CompositeAt, Attempting
  <1>. QED  BY <1>4, <1>5, InitHInv DEF WInv

LEMMA StutterWInv ==
  ASSUME WInv, UNCHANGED vars
  PROVE  WInv'
PROOF
  <1>1. HInv' /\ ScrubNamed'
    BY StutterHInv, ScrubNamedStep DEF WInv
  <1>2. locks' = locks /\ granting' = granting /\ spent' = spent
    BY DEF vars, tables, stack
  <1>3. LineInv'
    BY <1>2 DEF WInv, LineInv
  <1>4. /\ WalkedSoFar' = WalkedSoFar
        /\ \A m : Attempting(m)' <=> Attempting(m)
    BY <1>2 DEF WalkedSoFar, ManyKeys, Attempting
  <1>5. CompositeInv'
    BY <1>2, <1>4 DEF WInv, CompositeInv, CompositeAt
  <1>. QED  BY <1>1, <1>3, <1>5 DEF WInv

(* Where composites, waiters and the rows of a cleanup are, at every step  *)
(* of every handler.                                                       *)
THEOREM WaitInvariance == Spec => []WInv
PROOF
  <1>1. WInv /\ [Next]_vars => WInv'
    <2>1. WInv /\ Next => WInv'
      BY HInvStep, ScrubNamedStep, WaitingStep DEF WInv
    <2>. QED  BY <2>1, StutterWInv
  <1>. QED  BY <1>1, InitWInv, PTL DEF Spec

(* No call stands twice in a queue, though force-queueing, retries and     *)
(* re-queued composites all insert (LockOnFullKey, ManyIsContended).       *)
THEOREM CallsQueueOnce == Spec => []QueuedOnce
PROOF
  <1>1. WInv => QueuedOnce
    BY DEF WInv, LineInv, QueuedOnce, Unrepeated, Line, Present
  <1>. QED  BY <1>1, WaitInvariance, PTL

(* An acquire-many call that waits holds no key and waits at one key only, *)
(* so composites whose keys overlap do not block each other for ever       *)
(* (ManyIsContended rolls back before it queues).                          *)
THEOREM CompositesNeverHoldAndWait == Spec => []NoHoldAndWait
PROOF
  <1>1. WInv => NoHoldAndWait
    <2>. SUFFICES ASSUME WInv, NEW m \in ManyIds, NEW k \in Keys,
                         Present(k) /\ Queued(locks[k].notify, m), NEW j \in Keys
                  PROVE  ~Held(j, m) /\ (j # k /\ Present(j) => ~Queued(locks[j].notify, m))
      BY DEF NoHoldAndWait
    <2>1. CompositeAt(m) /\ m \in Holders /\ Queued(Line(locks, k), m)
      BY WaitsLine, RequestType DEF WInv, CompositeInv
    <2>2. m \notin Holds(locks, j) /\ (j # k => ~Queued(Line(locks, j), m))
      BY <2>1 DEF CompositeAt
    <2>. QED  BY <2>1, <2>2, HeldHolds, WaitsLine
  <1>. QED  BY <1>1, WaitInvariance, PTL

-----------------------------------------------------------------------------
(* Attempts.                                                               *)

(* While a grant is in progress nothing else runs.                         *)
LEMMA OnlyGranting ==
  ASSUME Next, granting # None
  PROVE  Granting \/ Restart
PROOF
  <1>1. ~Idle /\ \A ws : ~Hears(ws)
    BY DEF Idle, Hears
  <1>2. ~LockFrame
    <2>. SUFFICES ASSUME LockFrame  PROVE FALSE
      OBVIOUS
    <2>1. PICK u \in Uuids, ws \in Sockets :
            \/ LockRefused(u, ws) \/ LockOnNewKey(u, ws) \/ LockOnNewKeyFails(u, ws)
            \/ LockOnFreeKey(u, ws) \/ \E retry \in BOOLEAN : LockOnFullKey(u, ws, retry)
      BY DEF LockFrame
    <2>2. Hears(ws)
      BY <2>1 DEF LockRefused, LockOnNewKey, LockOnNewKeyFails, LockOnFreeKey, LockOnFullKey,
                  LockAccepted
    <2>. QED  BY <1>1, <2>2
  <1>3. ~UnlockFrame
    <2>. SUFFICES ASSUME UnlockFrame  PROVE FALSE
      OBVIOUS
    <2>1. PICK k \in Keys, ws \in Sockets :
            \/ UnlockEveryone(k, ws)
            \/ \E u \in CallsOn(k) \cup {None} :
                 \/ UnlockUnknownKey(k, u, ws) \/ UnlockHolder(k, u, ws) \/ UnlockLate(k, u, ws)
                 \/ \E force \in BOOLEAN : UnlockRejected(k, u, ws, force)
      BY DEF UnlockFrame
    <2>2. Hears(ws)
      BY <2>1 DEF UnlockEveryone, UnlockUnknownKey, UnlockHolder, UnlockLate, UnlockRejected,
                  Unlocking
    <2>. QED  BY <1>1, <2>2
  <1>4. ~ManyFrame /\ ~OtherFrame
    BY <1>1 DEF ManyFrame, AcquireMany, ReleaseMany, OtherFrame, LockReceived,
                LockClientTimeout, LockReceivedRejected
  <1>5. ~TickTtl /\ ~Connections /\ ~Reelections
    BY <1>1 DEF TickTtl, Connections, BreakConnection, SocketEnds, VersionMismatch,
                CleanupConnection, Reelections, Reelection
  <1>6. ~Drain /\ ~WorkStep
    BY DEF Drain, DrainStops, DequeueWaiter, Draining, WorkStep, Evict, ReleaseMember,
           ForgetComposite, VisitKey, VisitAbsentKey, ScrubWaiter, ForcedUnlock, EndCleanup,
           CleaningUp, Turn
  <1>. QED  BY <1>2, <1>3, <1>4, <1>5, <1>6 DEF Next, CalmNext, Frames, Internal

(* A waiter taken from the queue ends as a holder or in a queue again,     *)
(* unless the drain itself is over.                                        *)
LEMMA AttemptEnds ==
  ASSUME WInv, Next
  PROVE  AttemptSettles
PROOF
  <1>. SUFFICES ASSUME NEW h \in Holders, granting # None, granting.id = h, granting.queued,
                       granting' = None, drain' # None
                PROVE  \E k \in Keys : h \in Holds(locks', k) \/ Queued(Line(locks', k), h)
    BY HeldHolds, WaitsLine DEF AttemptSettles
  <1>1. CASE GrantLock
    BY <1>1, GrantLockEffect DEF WInv, HInv, HoldsGain
  <1>2. CASE ManyIsContended
    <2>. DEFINE w == [id |-> h, ws |-> granting.ws]
    <2>1. /\ ManyKey \in Keys
          /\ LineIs(ManyKey, Rejoin(Line(locks, ManyKey), w))
      BY <1>2, ManyIsContendedEffect DEF WInv, HInv
    <2>2. w \in Waiter /\ w.id = h
      BY GrantingType DEF WInv, HInv, Waiter
    <2>. HIDE DEF w
    <2>3. Queued(Rejoin(Line(locks, ManyKey), w), h)
      BY <2>1, <2>2, LineType, RejoinIds DEF WInv, HInv, LineInv
    <2>. QED  BY <2>1, <2>3 DEF LineIs
  <1>3. CASE ManyRegisters
    <2>1. h \in ManyIds /\ ~MoreKeys /\ locks' = locks
      BY <1>3 DEF ManyRegisters, GrantingMany
    <2>2. ManyKeys = ManyReq[h].keys /\ granting.pos \in Nat
      BY GrantingType DEF ManyKeys, WInv, HInv
    <2>3. Len(ManyKeys) >= 1 /\ Len(ManyKeys) \in Nat /\ ManyKeys[1] \in Keys
      BY <2>1, <2>2, RequestType, RequestAssumption
    <2>4. ManyKeys[1] \in WalkedSoFar
      BY <2>1, <2>2, <2>3 DEF MoreKeys, WalkedSoFar
    <2>5. ManyKeys[1] \in Keys => (h \in Holds(locks, ManyKeys[1]) <=> ManyKeys[1] \in WalkedSoFar)
      BY <2>1 DEF WInv, CompositeInv, CompositeAt, Attempting
    <2>. QED  BY <2>1, <2>3, <2>4, <2>5
  <1>4. GrantLock \/ ManyIsContended \/ ManyRegisters
    <2>1. CASE Granting
      <3>1. ~GrantLockFails /\ ~ManyFails
        BY DEF GrantLockFails, ManyFails
      <3>2. ~ManyCreatesLock
        BY DEF ManyCreatesLock, stack
      <3>3. ~ManyGrantsKey
        <4>. SUFFICES ASSUME ManyGrantsKey  PROVE FALSE
          OBVIOUS
        <4>1. granting' \in GrantInHand
          BY GrantingType DEF WInv, HInv, ManyGrantsKey, GrantInHand
        <4>. QED  BY <4>1, NoGrantAssumption
      <3>. QED  BY <2>1, <3>1, <3>2, <3>3 DEF Granting
    <2>2. ~Restart
      BY DEF Restart
    <2>. QED  BY <2>1, <2>2, OnlyGranting
  <1>. QED  BY <1>1, <1>2, <1>3, <1>4

(* No waiter is lost: it leaves its queue only to be attempted, withdrawn, *)
(* or told to ask again, and an attempt ends in a hold or in a queue.  The *)
(* hypothesis is the one exception: the re-election timer (Reelection)     *)
(* also sends away a composite, which nobody asks for again.               *)
THEOREM WaitersAreNotLost == Spec /\ [][TimerSpares]_vars => NoWaiterLost
PROOF
  <1>1. WInv /\ [Next]_vars /\ [TimerSpares]_vars
          => [WaiterLeavesForAReason /\ AttemptSettles]_vars
    <2>1. WInv /\ Next /\ TimerSpares => WaiterLeavesForAReason /\ AttemptSettles
      BY WaitingStep, AttemptEnds
    <2>. QED  BY <2>1
  <1>. QED  BY <1>1, WaitInvariance, PTL DEF Spec, NoWaiterLost

-----------------------------------------------------------------------------
(* Where a step may take a call.                                           *)

(* What starts a grant.                                                    *)
LEMMA GrantBegins ==
  ASSUME Next, granting = None, granting' # None
  PROVE  \/ \E u \in Uuids, ws \in Sockets : LockOnNewKey(u, ws) \/ LockOnFreeKey(u, ws)
         \/ \E m \in ManyIds : AcquireMany(m)
         \/ \E k \in Keys : DequeueWaiter(k)
PROOF
  <1>1. CASE LockFrame
    BY <1>1 DEF LockFrame, LockRefused, LockOnNewKeyFails, LockOnFullKey, stack
  <1>2. CASE ManyFrame
    BY <1>2 DEF ManyFrame, ReleaseMany
  <1>3. CASE Drain
    BY <1>3 DEF Drain, DrainStops
  <1>4. CASE UnlockFrame
    <2>. PICK k \in Keys, ws \in Sockets :
           \/ UnlockEveryone(k, ws)
           \/ \E u \in CallsOn(k) \cup {None} :
                \/ UnlockUnknownKey(k, u, ws) \/ UnlockHolder(k, u, ws) \/ UnlockLate(k, u, ws)
                \/ \E force \in BOOLEAN : UnlockRejected(k, u, ws, force)
      BY <1>4 DEF UnlockFrame
    <2>. QED  BY DEF UnlockEveryone, UnlockUnknownKey, UnlockHolder, UnlockLate,
                     UnlockRejected, Unlocking
  <1>5. CASE OtherFrame \/ TickTtl \/ Connections \/ Reelections \/ Restart
    BY <1>5 DEF OtherFrame, LockReceived, LockClientTimeout, LockReceivedRejected, TickTtl,
                Connections, BreakConnection, SocketEnds, VersionMismatch, CleanupConnection,
                Reelections, Reelection, Restart, stack
  <1>6. CASE Granting
    BY <1>6 DEF Granting, GrantLock, GrantLockFails, ManyCreatesLock, ManyGrantsKey,
                ManyIsContended, ManyRegisters, ManyFails, GrantingPlain, GrantingMany
  <1>7. CASE WorkStep
    <2>. PICK t \in work :
           \/ Evict(t) \/ ReleaseMember(t) \/ ForgetComposite(t) \/ VisitKey(t)
           \/ VisitAbsentKey(t) \/ ScrubWaiter(t) \/ ForcedUnlock(t) \/ EndCleanup(t)
      BY <1>7 DEF WorkStep
    <2>. QED  BY DEF Evict, ReleaseMember, ForgetComposite, VisitKey, VisitAbsentKey,
                     ScrubWaiter, ForcedUnlock, EndCleanup, CleaningUp
  <1>. QED  BY <1>1, <1>2, <1>3, <1>4, <1>5, <1>6, <1>7 DEF Next, CalmNext, Frames, Internal

(* A grant in progress ends, or goes on as the same composite's.           *)
LEMMA GrantGoesOn ==
  ASSUME IInv, Next, granting # None, granting' # None
  PROVE  granting.id \in ManyIds /\ granting'.id = granting.id /\ granting'.ws = granting.ws
PROOF
  <1>1. Granting
    BY OnlyGranting DEF Restart
  <1>2. ManyCreatesLock \/ ManyGrantsKey
    BY <1>1 DEF Granting, GrantLock, GrantLockFails, ManyIsContended, ManyRegisters, ManyFails
  <1>3. granting \in GrantInHand
    BY GrantingType
  <1>. QED  BY <1>2, <1>3 DEF ManyCreatesLock, ManyGrantsKey, GrantingMany, stack, GrantInHand

(* A call comes to hold a key only by the attempt in progress.             *)
LEMMA HoldsMove ==
  ASSUME IInv, Next, NEW k \in Keys, NEW h, h \in Holds(locks', k), h \notin Holds(locks, k)
  PROVE  /\ Attempting(h) /\ h \in Holders
         /\ \/ GrantLock /\ h \in Uuids /\ k = Req[h].key
            \/ ManyGrantsKey /\ h \in ManyIds /\ k = ManyKey
PROOF
  <1>1. h \in Holders /\ locks'[k] # None /\ locks'[k].lockholders[h].token # 0
    BY DEF Holds, HoldersOf, Holding
  <1>2. EntriesTraced
    BY NextStep DEF StepOK
  <1>3. locks'[k].lockholders[h] # NoHold
    BY <1>1 DEF NoHold
  <1>4. Attempting(h)
    BY <1>1, <1>2, <1>3 DEF EntriesTraced, Attempting, Holds, HoldersOf, Holding
  <1>5. Granting
    BY <1>1, <1>4, OnlyGranting DEF Attempting, Restart
  <1>6. ~GrantLockFails /\ ~ManyRegisters
    BY <1>1 DEF GrantLockFails, ManyRegisters, Holds
  <1>7. ~ManyCreatesLock /\ ~ManyFails
    BY ManyCreatesLockEffect, ManyFailsEffect DEF HoldsKept
  <1>8. ~ManyIsContended
    BY ManyIsContendedEffect
  <1>9. CASE GrantLock
    BY <1>1, <1>4, <1>9, GrantLockEffect DEF HoldsGain, Attempting
  <1>10. CASE ManyGrantsKey
    BY <1>1, <1>4, <1>10, ManyGrantsKeyEffect DEF HoldsGain, Attempting
  <1>. QED  BY <1>5, <1>6, <1>7, <1>8, <1>9, <1>10 DEF Granting

(* What may move a waiter.                                                 *)
LEMMA LinesMayMove ==
  ASSUME WInv, Next
  PROVE  \/ LinesKept
         \/ \E u \in Uuids, ws \in Sockets, retry \in BOOLEAN :
              /\ LockOnFullKey(u, ws, retry)
              /\ LineIs(Req[u].key, Enqueue(Line(locks, Req[u].key), u, ws, retry))
         \/ \E u \in Uuids, ws \in Sockets : LockClientTimeout(u, ws)
         \/ ManyIsContended
         \/ \E k \in Keys : DequeueWaiter(k) \/ Reelection(k)
         \/ \E t \in work : ScrubWaiter(t)
         \/ Restart
PROOF
  <1>. HInv /\ IInv /\ FewHold
    BY DEF WInv, HInv
  <1>1. CASE LockFrame
    <2>1. PICK u \in Uuids, ws \in Sockets :
            \/ LockRefused(u, ws) \/ LockOnNewKey(u, ws) \/ LockOnNewKeyFails(u, ws)
            \/ LockOnFreeKey(u, ws) \/ \E retry \in BOOLEAN : LockOnFullKey(u, ws, retry)
      BY <1>1 DEF LockFrame
    <2>2. CASE LockRefused(u, ws)
      BY <2>2 DEF LockRefused, LinesKept
    <2>. QED  BY <2>1, <2>2, LockOnNewKeyEffect, LockOnNewKeyFailsEffect, LockOnFreeKeyEffect,
                 LockOnFullKeyEffect
  <1>2. CASE UnlockFrame
    <2>1. PICK k \in Keys, ws \in Sockets :
            \/ UnlockEveryone(k, ws)
            \/ \E u \in CallsOn(k) \cup {None} :
                 \/ UnlockUnknownKey(k, u, ws) \/ UnlockHolder(k, u, ws) \/ UnlockLate(k, u, ws)
                 \/ \E force \in BOOLEAN : UnlockRejected(k, u, ws, force)
      BY <1>2 DEF UnlockFrame
    <2>2. UnlockEveryone(k, ws) => LinesKept
      BY ReleaseEffect DEF UnlockEveryone, HoldersOf
    <2>3. ASSUME NEW u \in CallsOn(k) \cup {None}, UnlockHolder(k, u, ws)
          PROVE  LinesKept
      <3>1. {u} \in SUBSET Holders
        BY <2>3 DEF UnlockHolder, CallsOn, Holders
      <3>. QED  BY <2>3, <3>1, ReleaseEffect DEF UnlockHolder
    <2>4. ASSUME NEW u, UnlockLate(k, u, ws)
          PROVE  LinesKept
      BY <2>4, UnlockLateEffect
    <2>5. ASSUME NEW u, UnlockUnknownKey(k, u, ws) \/ \E force \in BOOLEAN :
                                                       UnlockRejected(k, u, ws, force)
          PROVE  LinesKept
      BY <2>5 DEF UnlockUnknownKey, UnlockRejected, LinesKept
    <2>. QED  BY <2>1, <2>2, <2>3, <2>4, <2>5
  <1>3. CASE OtherFrame
    BY <1>3, LockReceivedRejectedEffect DEF OtherFrame, LockReceived, LinesKept
  <1>4. CASE ManyFrame \/ TickTtl \/ Connections
    BY <1>4 DEF ManyFrame, AcquireMany, ReleaseMany, TickTtl, Connections, BreakConnection,
                SocketEnds, VersionMismatch, CleanupConnection, LinesKept
  <1>5. CASE Granting
    BY <1>5, GrantLockEffect, ManyCreatesLockEffect, ManyGrantsKeyEffect, ManyFailsEffect
    DEF Granting, GrantLockFails, ManyRegisters, LinesKept
  <1>6. CASE Drain
    BY <1>6 DEF Drain, DrainStops, LinesKept
  <1>7. CASE WorkStep
    <2>1. PICK t \in work :
            \/ Evict(t) \/ ReleaseMember(t) \/ ForgetComposite(t) \/ VisitKey(t)
            \/ VisitAbsentKey(t) \/ ScrubWaiter(t) \/ ForcedUnlock(t) \/ EndCleanup(t)
      BY <1>7 DEF WorkStep
    <2>2. CASE Evict(t) \/ ReleaseMember(t) \/ ForcedUnlock(t)
      BY <2>2, EvictEffect, ReleaseMemberEffect, ForcedUnlockEffect
    <2>3. CASE ForgetComposite(t) \/ VisitKey(t) \/ VisitAbsentKey(t) \/ EndCleanup(t)
      BY <2>3 DEF ForgetComposite, VisitKey, VisitAbsentKey, EndCleanup, LinesKept
    <2>. QED  BY <2>1, <2>2, <2>3
  <1>. QED  BY <1>1, <1>2, <1>3, <1>4, <1>5, <1>6, <1>7
            DEF Next, CalmNext, Frames, Internal, Reelections

\* w is an entry of the queue of key k in lock table L.
Entry(L, k, w) == \E i \in 1..Len(Line(L, k)) : Line(L, k)[i] = w

\* A step in which w joins the queue of key k.
Joins(k, w) ==
  \/ \E u \in Uuids, ws \in Sockets, retry \in BOOLEAN :
       LockOnFullKey(u, ws, retry) /\ k = Req[u].key /\ w = [id |-> u, ws |-> ws]
  \/ ManyIsContended /\ k = ManyKey /\ w = [id |-> granting.id, ws |-> granting.ws]

LEMMA AppendEntries ==
  ASSUME NEW q \in Seq(Waiter), NEW w \in Waiter, NEW v,
         \/ \E i \in 1..Len(Append(q, w)) : Append(q, w)[i] = v
         \/ \E i \in 1..Len(<<w>> \o q) : (<<w>> \o q)[i] = v
  PROVE  v = w \/ \E i \in 1..Len(q) : q[i] = v
PROOF
  <1>1. \A i \in 1..Len(Append(q, w)) : Append(q, w)[i] = w \/ (i \in 1..Len(q) /\ Append(q, w)[i] = q[i])
    OBVIOUS
  <1>2. \A i \in 1..Len(<<w>> \o q) : \/ (<<w>> \o q)[i] = w
                                      \/ i - 1 \in 1..Len(q) /\ (<<w>> \o q)[i] = q[i - 1]
    OBVIOUS
  <1>. QED  BY <1>1, <1>2

LEMMA EnqueueEntries ==
  ASSUME NEW u \in Uuids, NEW ws \in Sockets, NEW retry \in BOOLEAN,
         NEW q \in HomeQueue(Req[u].key), Unrepeated(q),
         NEW i \in 1..Len(Enqueue(q, u, ws, retry))
  PROVE  \/ Enqueue(q, u, ws, retry)[i] = [id |-> u, ws |-> ws]
         \/ \E j \in 1..Len(q) : q[j] = Enqueue(q, u, ws, retry)[i]
PROOF
  <1>. DEFINE w == [id |-> u, ws |-> ws]
              r == Without(q, u)
              e == Enqueue(q, u, ws, retry)
  <1>1. w \in Waiter
    BY DEF Waiter, Holders
  <1>2. q \in Seq(Waiter) /\ r \in Seq(Waiter)
    BY RequestType, WithoutHome, HomeQueueElim
  <1>3. \A j \in 1..Len(r) : \E n \in 1..Len(q) : r[j] = q[n]
    BY <1>2, WithoutIds
  <1>4. e \in {q, <<w>> \o r, <<w>> \o q, Append(q, w)}
    BY DEF Enqueue
  <1>. HIDE DEF w, r, e
  <1>5. \A p \in Seq(Waiter) : e \in {<<w>> \o p, Append(p, w)}
                                 => e[i] = w \/ \E j \in 1..Len(p) : p[j] = e[i]
    BY <1>1, AppendEntries DEF e
  <1>6. e[i] = w \/ \E j \in 1..Len(q) : q[j] = e[i]
    BY <1>2, <1>3, <1>4, <1>5 DEF e
  <1>. QED  BY <1>6 DEF e, w

(* Whoever waits has waited before, or joins the queue in this step.       *)
LEMMA EntriesMove ==
  ASSUME WInv, Next, NEW k \in Keys, NEW w, Entry(locks', k, w)
  PROVE  Entry(locks, k, w) \/ Joins(k, w)
PROOF
  <1>. HInv /\ IInv /\ FewHold
    BY DEF WInv, HInv
  <1>1. \A j \in Keys : /\ Line(locks, j) \in HomeQueue(j) /\ Line(locks, j) \in Seq(Waiter)
                        /\ Unrepeated(Line(locks, j))
    BY LineType DEF WInv, LineInv
  <1>2. CASE LinesKept
    BY <1>2 DEF LinesKept, Entry
  <1>3. ASSUME NEW u \in Uuids, NEW ws \in Sockets, NEW retry \in BOOLEAN,
               LockOnFullKey(u, ws, retry),
               LineIs(Req[u].key, Enqueue(Line(locks, Req[u].key), u, ws, retry))
        PROVE  Entry(locks, k, w) \/ Joins(k, w)
    <2>1. CASE k # Req[u].key
      BY <1>3, <2>1 DEF LineIs, Entry
    <2>2. CASE k = Req[u].key
      <3>. DEFINE e == Enqueue(Line(locks, k), u, ws, retry)
      <3>1. \E i \in 1..Len(e) : e[i] = w
        BY <1>3, <2>2 DEF LineIs, Entry
      <3>2. w = [id |-> u, ws |-> ws] \/ Entry(locks, k, w)
        <4>. DEFINE q == Line(locks, k)
        <4>1. PICK i \in 1..Len(e) : e[i] = w
          BY <3>1
        <4>2. q \in HomeQueue(Req[u].key) /\ Unrepeated(q)
          BY <1>1, <2>2
        <4>. HIDE DEF q
        <4>3. e[i] = [id |-> u, ws |-> ws] \/ \E j \in 1..Len(q) : q[j] = e[i]
          BY <4>2, EnqueueEntries DEF q
        <4>. QED  BY <4>1, <4>3 DEF Entry, q
      <3>. QED  BY <1>3, <2>2, <3>2 DEF Joins
    <2>. QED  BY <2>1, <2>2
  <1>4. ASSUME NEW j \in Keys, NEW q, LineIs(j, q),
               \A i \in 1..Len(q) : \E n \in 1..Len(Line(locks, j)) : q[i] = Line(locks, j)[n]
        PROVE  Entry(locks, k, w)
    BY <1>4 DEF LineIs, Entry
  <1>5. ASSUME NEW u \in Uuids, NEW ws \in Sockets, LockClientTimeout(u, ws)
        PROVE  Entry(locks, k, w)
    <2>1. Req[u].key \in Keys /\ LineIs(Req[u].key, Without(Line(locks, Req[u].key), u))
      BY <1>5, RequestType, LockClientTimeoutEffect
    <2>. QED  BY <1>1, <1>4, <2>1, WithoutIds
  <1>6. CASE ManyIsContended
    <2>. DEFINE n == [id |-> granting.id, ws |-> granting.ws]
                q == Line(locks, ManyKey)
    <2>1. ManyKey \in Keys /\ (LinesKept \/ LineIs(ManyKey, Rejoin(q, n)))
      BY <1>6, ManyIsContendedEffect
    <2>2. n \in Waiter
      BY <1>6, GrantingType DEF ManyIsContended, GrantingMany, Waiter
    <2>3. CASE k = ManyKey /\ Line(locks', k) = Rejoin(q, n)
      <3>1. Rejoin(q, n) \in {q, Append(q, n)}
        BY DEF Rejoin
      <3>2. CASE Line(locks', k) = Append(q, n)
        <4>. HIDE DEF n
        <4>1. w = n \/ \E i \in 1..Len(q) : q[i] = w
          BY <1>1, <2>1, <2>2, <3>2, AppendEntries DEF Entry
        <4>. QED  BY <1>6, <2>3, <4>1 DEF Entry, Joins, n
      <3>. QED  BY <2>3, <3>1, <3>2 DEF Entry
    <2>4. CASE Line(locks', k) = Line(locks, k)
      BY <2>4 DEF Entry
    <2>. QED  BY <2>1, <2>3, <2>4 DEF LineIs, LinesKept
  <1>7. ASSUME NEW j \in Keys, DequeueWaiter(j)
        PROVE  Entry(locks, k, w)
    <2>1. PICK i \in 1..Len(Line(locks, j)) : LineIs(j, AfterFirst(i, Line(locks, j)))
      BY <1>7, DequeueWaiterEffect
    <2>2. i \in Nat
      BY <1>1
    <2>. QED  BY <1>1, <1>4, <2>1, <2>2, AfterFirstIds
  <1>8. ASSUME NEW j \in Keys, Reelection(j)
        PROVE  Entry(locks, k, w)
    <2>1. LinesKept \/ \E n \in Nat : LineIs(j, AfterFirst(n, Line(locks, j)))
      BY <1>8, ReelectionEffect
    <2>. QED  BY <1>1, <1>2, <1>4, <2>1, AfterFirstIds DEF LinesKept, Entry
  <1>9. ASSUME NEW t \in work, ScrubWaiter(t)
        PROVE  Entry(locks, k, w)
    <2>1. t.key \in Keys /\ LineIs(t.key, Without(Line(locks, t.key), CHOOSE u \in t.ids : TRUE))
      BY <1>9, TaskType, ScrubWaiterEffect DEF ScrubWaiter, CleaningUp
    <2>. QED  BY <1>1, <1>4, <2>1, WithoutIds
  <1>10. ~Restart
    BY RestartEffect DEF Entry
  <1>. QED  BY <1>2, <1>3, <1>5, <1>6, <1>7, <1>8, <1>9, <1>10, LinesMayMove

LEMMA QueuedEntry ==
  ASSUME NEW L, NEW k, NEW h
  PROVE  Queued(Line(L, k), h) <=> \E w : Entry(L, k, w) /\ w.id = h
PROOF
  BY DEF Queued, Entry

(* The same for the calls themselves.                                      *)
LEMMA WaitersMove ==
  ASSUME WInv, Next, NEW k \in Keys, NEW h, Queued(Line(locks', k), h), ~Queued(Line(locks, k), h)
  PROVE  \/ /\ h \in Uuids /\ k = Req[h].key
            /\ \E ws \in Sockets, retry \in BOOLEAN : LockOnFullKey(h, ws, retry)
         \/ ManyIsContended /\ k = ManyKey /\ Attempting(h) /\ h \in ManyIds
PROOF
  <1>1. PICK w : Entry(locks', k, w) /\ w.id = h
    BY QueuedEntry
  <1>2. Joins(k, w)
    BY <1>1, EntriesMove, QueuedEntry
  <1>. QED  BY <1>1, <1>2 DEF Joins, Attempting, ManyIsContended, GrantingMany

(* A call is attempted that was attempted before, that is sent in this     *)
(* step, or that is taken from a queue and not queued any more.            *)
LEMMA AttemptsMove ==
  ASSUME WInv, Next, granting' # None
  PROVE  LET h == granting'.id   s == granting'.ws
         IN  \/ granting # None /\ h = granting.id /\ s = granting.ws /\ h \in ManyIds
             \/ h \in Uuids /\ (LockOnNewKey(h, s) \/ LockOnFreeKey(h, s)) /\ s \in Sockets
             \/ h \in ManyIds \ spent /\ AcquireMany(h) /\ s = ManyReq[h].from
             \/ \E k \in Keys : /\ DequeueWaiter(k) /\ Entry(locks, k, [id |-> h, ws |-> s])
                                /\ Queued(Line(locks, k), h) /\ ~Queued(Line(locks', k), h)
PROOF
  <1>. HInv /\ IInv
    BY DEF WInv, HInv
  <1>1. CASE granting # None
    BY <1>1, GrantGoesOn
  <1>2. ASSUME NEW u \in Uuids, NEW ws \in Sockets, LockOnNewKey(u, ws) \/ LockOnFreeKey(u, ws)
        PROVE  granting'.id = u /\ granting'.ws = ws
    BY <1>2 DEF LockOnNewKey, LockOnFreeKey, Begin
  <1>3. ASSUME NEW m \in ManyIds, AcquireMany(m), granting = None
        PROVE  granting'.id = m /\ granting'.ws = ManyReq[m].from /\ m \notin spent
    BY <1>3 DEF AcquireMany, Begin
  <1>4. ASSUME NEW k \in Keys, DequeueWaiter(k)
        PROVE  LET h == granting'.id   s == granting'.ws
               IN  /\ Entry(locks, k, [id |-> h, ws |-> s])
                   /\ Queued(Line(locks, k), h) /\ ~Queued(Line(locks', k), h)
    <2>. DEFINE q == Line(locks, k)
    <2>1. PICK i \in 1..Len(q) :
            /\ LineIs(k, AfterFirst(i, q))
            /\ granting' = [id |-> q[i].id, ws |-> q[i].ws, pos |-> 1, queued |-> TRUE]
      BY <1>4, DequeueWaiterEffect
    <2>2. q \in Seq(Waiter) /\ Unrepeated(q)
      BY LineType DEF WInv, LineInv
    <2>. HIDE DEF q
    <2>3. i \in Nat /\ q[i] \in Waiter /\ Len(q) \in Nat
      BY <2>2
    <2>4. q[i] = [id |-> granting'.id, ws |-> granting'.ws]
      BY <2>1, <2>3 DEF Waiter
    <2>5. ~Queued(AfterFirst(i, q), q[i].id)
      BY <2>2, <2>3, AfterFirstIds DEF Unrepeated
    <2>6. Queued(q, q[i].id)
      BY DEF Queued
    <2>. QED  BY <2>1, <2>4, <2>5, <2>6 DEF Entry, LineIs, q
  <1>. QED  BY <1>1, <1>2, <1>3, <1>4, GrantBegins

-----------------------------------------------------------------------------
(* The registry of composites.                                             *)

(* Only a finished attempt registers a composite, only the last row of     *)
(* releaseMany and the broker's death forget one.                          *)
LEMMA RegistryMoves ==
  ASSUME Next
  PROVE  /\ spent \subseteq spent'
         /\ \A m \in compositeLocks' : m \in compositeLocks \/ (ManyRegisters /\ m = granting.id)
         /\ \A m \in compositeLocks : \/ m \in compositeLocks' \/ Restart
                                      \/ \E t \in work : ForgetComposite(t) /\ m \in t.ids
PROOF
  <1>1. CASE spent \subseteq spent' /\ compositeLocks' = compositeLocks
    BY <1>1
  <1>2. CASE LockFrame
    <2>1. PICK u \in Uuids, ws \in Sockets :
            \/ LockRefused(u, ws) \/ LockOnNewKey(u, ws) \/ LockOnNewKeyFails(u, ws)
            \/ LockOnFreeKey(u, ws) \/ \E retry \in BOOLEAN : LockOnFullKey(u, ws, retry)
      BY <1>2 DEF LockFrame
    <2>. QED  BY <1>1, <2>1 DEF LockRefused, LockOnNewKey, LockOnNewKeyFails, LockOnFreeKey,
                               LockOnFullKey, LockAccepted, tables
  <1>3. CASE UnlockFrame
    <2>1. PICK k \in Keys, ws \in Sockets :
            \/ UnlockEveryone(k, ws)
            \/ \E u \in CallsOn(k) \cup {None} :
                 \/ UnlockUnknownKey(k, u, ws) \/ UnlockHolder(k, u, ws) \/ UnlockLate(k, u, ws)
                 \/ \E force \in BOOLEAN : UnlockRejected(k, u, ws, force)
      BY <1>3 DEF UnlockFrame
    <2>. QED  BY <1>1, <2>1 DEF UnlockEveryone, UnlockUnknownKey, UnlockHolder, UnlockLate,
                               UnlockRejected, Unlocking
  <1>4. CASE OtherFrame \/ ManyFrame \/ TickTtl \/ Connections \/ Reelections
    BY <1>1, <1>4
    DEF OtherFrame, LockReceived, LockClientTimeout, LockReceivedRejected, ManyFrame, AcquireMany,
        ReleaseMany, TickTtl, Connections, BreakConnection, SocketEnds, VersionMismatch,
        CleanupConnection, Reelections, Reelection, tables
  <1>5. CASE Granting \/ Drain
    BY <1>5
    DEF Granting, GrantLock, GrantLockFails, ManyCreatesLock, ManyGrantsKey, ManyIsContended,
        ManyRegisters, ManyFails, Drain, DrainStops, DequeueWaiter, tables
  <1>6. CASE WorkStep
    <2>1. PICK t \in work : Visits(t)
      BY <1>6 DEF WorkStep, Visits
    <2>. QED  BY <2>1 DEF Visits, Evict, ReleaseMember, ForgetComposite, VisitKey, VisitAbsentKey,
                          ScrubWaiter, ForcedUnlock, EndCleanup, CleaningUp
  <1>7. CASE Restart
    BY <1>7 DEF Restart
  <1>. QED  BY <1>2, <1>3, <1>4, <1>5, <1>6, <1>7 DEF Next, CalmNext, Frames, Internal

\* Composite m has been sent, and is neither being attempted nor waiting.
Settled(m) == m \in spent /\ ~Attempting(m) /\ \A k \in Keys : ~Queued(Line(locks, k), m)

\* A row of releaseMany that has still to release m's hold on k, before row t.
Member(m, k, t) == \E s \in work : s.op = "member" /\ s.key = k /\ m \in s.ids /\ s.rank < t.rank

HoldsRegistered ==
  \A m \in ManyIds, k \in Keys : m \in Holds(locks, k) =>
    /\ Attempting(m) \/ m \in compositeLocks
    /\ \E i \in 1..Len(ManyReq[m].keys) : ManyReq[m].keys[i] = k

ForgottenLast ==
  \A t \in work : t.op = "registry" =>
    \A m \in t.ids : /\ Settled(m)
                     /\ \A k \in Keys : m \in Holds(locks, k) => Member(m, k, t)

RegistryInv == HoldsRegistered /\ (\A m \in compositeLocks : Settled(m)) /\ ForgottenLast

(* A composite is attempted once, or again when it waits.                  *)
LEMMA SettledStays ==
  ASSUME WInv, Next, NEW m \in ManyIds, Settled(m)
  PROVE  Settled(m)'
PROOF
  <1>1. m \in spent'
    BY RegistryMoves DEF Settled
  <1>2. ~Attempting(m)'
    <2>. SUFFICES ASSUME granting' # None, granting'.id = m  PROVE FALSE
      BY DEF Attempting
    <2>. QED  BY AttemptsMove, NameAssumption DEF Settled, Attempting
  <1>3. \A k \in Keys : ~Queued(Line(locks', k), m)
    BY WaitersMove, NameAssumption DEF Settled
  <1>. QED  BY <1>1, <1>2, <1>3 DEF Settled

(* How the attempt of a composite ends.                                    *)
LEMMA ManyEnds ==
  ASSUME WInv, Next, NEW m \in ManyIds, Attempting(m), ~Attempting(m)'
  PROVE  ManyIsContended \/ ManyRegisters \/ ManyFails \/ Restart
PROOF
  <1>1. Granting \/ Restart
    BY OnlyGranting DEF Attempting
  <1>2. ~GrantLock /\ ~GrantLockFails
    BY NameAssumption DEF GrantLock, GrantLockFails, GrantingPlain, Attempting
  <1>3. ~ManyCreatesLock
    BY DEF ManyCreatesLock, stack, Attempting
  <1>4. ~ManyGrantsKey
    <2>. SUFFICES ASSUME ManyGrantsKey  PROVE FALSE
      OBVIOUS
    <2>1. granting \in GrantInHand
      BY GrantingType DEF WInv, HInv, Attempting
    <2>2. granting' \in GrantInHand /\ granting'.id = m
      BY <2>1 DEF ManyGrantsKey, GrantInHand, Attempting
    <2>. QED  BY <2>2, NoGrantAssumption DEF Attempting
  <1>. QED  BY <1>1, <1>2, <1>3, <1>4 DEF Granting

\* What a grant that fails leaves behind depends on how far it came.
FailsEarly == ManyFails => granting.pos = 1

LEMMA HoldsRegisteredStep ==
  ASSUME WInv, RegistryInv, Next, FailsEarly
  PROVE  HoldsRegistered'
PROOF
  <1>. HInv /\ IInv
    BY DEF WInv, HInv
  <1>. SUFFICES ASSUME NEW m \in ManyIds, NEW k \in Keys, m \in Holds(locks', k)
                PROVE  /\ Attempting(m)' \/ m \in compositeLocks'
                       /\ \E i \in 1..Len(ManyReq[m].keys) : ManyReq[m].keys[i] = k
    BY DEF HoldsRegistered
  <1>1. ~Restart
    BY RestartEffect
  <1>2. \E i \in 1..Len(ManyReq[m].keys) : ManyReq[m].keys[i] = k
    <2>1. CASE m \in Holds(locks, k)
      BY <2>1 DEF RegistryInv, HoldsRegistered
    <2>2. CASE m \notin Holds(locks, k)
      <3>1. ManyGrantsKey /\ Attempting(m) /\ k = ManyKey
        BY <2>2, HoldsMove, NameAssumption
      <3>2. granting.pos \in Nat \ {0} /\ Len(ManyReq[m].keys) \in Nat
        BY <3>1, GrantingType, RequestType DEF Attempting, GrantInHand
      <3>. QED  BY <3>1, <3>2 DEF ManyGrantsKey, MoreKeys, ManyKey, ManyKeys, Attempting
    <2>. QED  BY <2>1, <2>2
  <1>3. CASE Attempting(m) /\ ~Attempting(m)'
    <2>1. CompositeAt(m)
      BY DEF WInv, CompositeInv
    <2>2. ManyIsContended \/ ManyRegisters \/ ManyFails
      BY <1>1, <1>3, ManyEnds
    <2>3. m \in Holds(locks, k) <=> k \in WalkedSoFar
      BY <1>3, <2>1 DEF CompositeAt
    <2>4. ~ManyIsContended
      BY <1>3, <2>3, ManyIsContendedEffect DEF Attempting
    <2>5. ~ManyFails
      <3>. SUFFICES ASSUME ManyFails  PROVE FALSE
        OBVIOUS
      <3>1. granting.pos = 1
        BY DEF FailsEarly
      <3>2. WalkedSoFar = {}
        BY <3>1 DEF WalkedSoFar
      <3>. QED  BY <2>3, <3>2, ManyFailsEffect DEF HoldsKept
    <2>6. m \in compositeLocks'
      BY <1>3, <2>2, <2>4, <2>5 DEF ManyRegisters, Attempting
    <2>. QED  BY <1>2, <2>6
  <1>4. CASE ~Attempting(m) /\ ~Attempting(m)'
    <2>1. m \in Holds(locks, k)
      BY <1>4, HoldsMove
    <2>2. m \in compositeLocks
      BY <1>4, <2>1 DEF RegistryInv, HoldsRegistered
    <2>3. ASSUME NEW t \in work, ForgetComposite(t), m \in t.ids
          PROVE  FALSE
      <3>1. t.op = "registry" /\ \A s \in work : t.rank <= s.rank
        BY <2>3 DEF ForgetComposite, Turn
      <3>2. PICK s \in work : s.rank < t.rank
        BY <2>1, <2>3, <3>1 DEF RegistryInv, ForgottenLast, Member
      <3>3. s.rank \in Nat /\ t.rank \in Nat
        BY DEF IInv, TypeOK, Task, Rows
      <3>. QED  BY <3>1, <3>2, <3>3
    <2>4. m \in compositeLocks'
      BY <1>1, <2>2, <2>3, RegistryMoves
    <2>. QED  BY <1>2, <2>4
  <1>. QED  BY <1>2, <1>3, <1>4

LEMMA ForgottenLastStep ==
  ASSUME WInv, RegistryInv, Next
  PROVE  ForgottenLast'
PROOF
  <1>. HInv /\ IInv
    BY DEF WInv, HInv
  <1>. SUFFICES ASSUME NEW t \in work', t.op = "registry", NEW m \in t.ids
                PROVE  /\ Settled(m)'
                       /\ \A k \in Keys : m \in Holds(locks', k) => Member(m, k, t)'
    BY DEF ForgottenLast
  <1>1. CASE t \in work
    <2>1. Settled(m) /\ \A k \in Keys : m \in Holds(locks, k) => Member(m, k, t)
      BY <1>1 DEF RegistryInv, ForgottenLast
    <2>2. m \in ManyIds
      BY <1>1 DEF IInv, TypeOK, Task, Rows
    <2>3. ASSUME NEW k \in Keys, m \in Holds(locks', k)
          PROVE  Member(m, k, t)'
      <3>1. m \in Holds(locks, k)
        BY <2>1, <2>3, HoldsMove DEF Settled
      <3>2. PICK s \in work : s.op = "member" /\ s.key = k /\ m \in s.ids /\ s.rank < t.rank
        BY <2>1, <3>1 DEF Member
      <3>3. ~Restart
        BY <2>3, RestartEffect
      <3>4. ~ReleaseMember(s)
        BY <2>3, <3>2, ReleaseMemberEffect DEF HoldsLose
      <3>5. Visits(s) => ReleaseMember(s)
        BY <3>2 DEF Visits, Evict, ForgetComposite, VisitKey, VisitAbsentKey, ScrubWaiter,
                    ForcedUnlock, EndCleanup, CleaningUp
      <3>6. s \in work'
        BY <3>3, <3>4, <3>5, RowsComeAndGo
      <3>. QED  BY <3>2, <3>6 DEF Member
    <2>. QED  BY <2>1, <2>2, <2>3, SettledStays
  <1>2. CASE AddsRow(t)
    <2>1. PICK n \in ManyIds, ws \in Sockets :
            /\ ReleaseMany(n, ws) /\ n \in compositeLocks
            /\ t = RegistryRow(n, ws)
      BY <1>2
      DEF AddsRow, EvictRow, RegistryRow, MemberRow, VisitRow, LastRow, ScrubRow, ForcedRow
    <2>2. /\ m = n /\ t.rank = Len(ManyReq[m].keys) + 1
          /\ work' = {MemberRow(m, i) : i \in 1..Len(ManyReq[m].keys)} \cup {t}
          /\ locks' = locks
      BY <2>1 DEF ReleaseMany, RegistryRow
    <2>3. Settled(m)'
      BY <2>1, <2>2, SettledStays DEF RegistryInv
    <2>4. ASSUME NEW k \in Keys, m \in Holds(locks', k)
          PROVE  Member(m, k, t)'
      <3>1. PICK i \in 1..Len(ManyReq[m].keys) : ManyReq[m].keys[i] = k
        BY <2>1, <2>2, <2>4 DEF RegistryInv, HoldsRegistered
      <3>2. i < Len(ManyReq[m].keys) + 1
        BY <2>1, <2>2, <3>1, RequestType
      <3>. DEFINE s == MemberRow(m, i)
      <3>3. s.op = "member" /\ s.key = k /\ m \in s.ids /\ s.rank = i
        BY <3>1 DEF MemberRow
      <3>4. s \in work'
        BY <2>2
      <3>. HIDE DEF s
      <3>. QED  BY <2>2, <3>2, <3>3, <3>4 DEF Member
    <2>. QED  BY <2>3, <2>4
  <1>. QED  BY <1>1, <1>2, RowsComeAndGo

LEMMA RegistryStep ==
  ASSUME WInv, RegistryInv, Next, FailsEarly
  PROVE  RegistryInv'
PROOF
  <1>1. ASSUME NEW m \in compositeLocks'
        PROVE  Settled(m)'
    <2>1. m \in ManyIds
      <3>1. TypeOK'
        BY Inductive DEF WInv, HInv, IInv
      <3>. QED  BY <3>1 DEF TypeOK
    <2>2. CASE m \in compositeLocks
      BY <2>1, <2>2, SettledStays DEF RegistryInv
    <2>3. CASE ManyRegisters /\ m = granting.id
      <3>1. Attempting(m) /\ CompositeAt(m) /\ locks' = locks /\ granting' = None
            /\ spent' = spent
        BY <2>1, <2>3 DEF ManyRegisters, GrantingMany, Attempting, WInv, CompositeInv
      <3>. QED  BY <3>1 DEF CompositeAt, Settled, Attempting
    <2>. QED  BY <2>2, <2>3, RegistryMoves
  <1>. QED  BY <1>1, HoldsRegisteredStep, ForgottenLastStep DEF RegistryInv

LEMMA StutterRegistry ==
  ASSUME RegistryInv, UNCHANGED vars
  PROVE  RegistryInv'
PROOF
  <1>1. /\ locks' = locks /\ compositeLocks' = compositeLocks /\ spent' = spent
        /\ work' = work /\ granting' = granting
    BY DEF vars, tables, stack
  <1>. QED  BY <1>1 DEF RegistryInv, HoldsRegistered, ForgottenLast, Settled, Attempting, Member

LEMMA InitRegistry == Init => RegistryInv
PROOF
  <1>. SUFFICES ASSUME Init  PROVE RegistryInv
    OBVIOUS
  <1>1. \A k \in Keys : Holds(locks, k) = {}
    BY DEF Init, Holds
  <1>. QED  BY <1>1 DEF Init, RegistryInv, HoldsRegistered, ForgottenLast

(* Between handlers every hold of a composite is one that release-many can *)
(* end, although attempts fail half-way, are undone and start again, and   *)
(* several composites are granted by one drain (acquireMany,               *)
(* tryGrantAcquireManyFromQueue, releaseMany).  The hypothesis is the one  *)
(* exception: an attempt that throws after its first key keeps what it has *)
(* got, and is not registered.                                             *)
THEOREM CompositesAreRegistered == Spec /\ [][FailsEarly]_vars => []CompositeRegistered
PROOF
  <1>1. WInv /\ RegistryInv /\ [Next]_vars /\ [FailsEarly]_vars => RegistryInv'
    BY RegistryStep, StutterRegistry
  <1>2. RegistryInv => CompositeRegistered
    <2>. SUFFICES ASSUME RegistryInv, Idle, NEW m \in ManyIds, NEW k \in Keys, Held(k, m)
                  PROVE  m \in compositeLocks
      BY DEF CompositeRegistered
    <2>1. m \in Holds(locks, k) /\ ~Attempting(m)
      BY HeldHolds, RequestType DEF Idle, Attempting
    <2>. QED  BY <2>1 DEF RegistryInv, HoldsRegistered
  <1>. QED  BY <1>1, <1>2, InitRegistry, WaitInvariance, PTL DEF Spec

(* What can throw in the middle of an attempt: a disk that fails, a clock  *)
(* beyond the largest token, or the end of the token space.                *)
LEMMA HeadroomCarries ==
  ASSUME IInv, ~DiskFaults, Clock \subseteq 0..MaxToken, HasHeadroom(MaxCompositeKeys)
  PROVE  ~ManyFails
PROOF
  <1>. SUFFICES ASSUME ManyFails  PROVE FALSE
    OBVIOUS
  <1>1. ManyKey \in Keys /\ watermark \in 0..MaxToken /\ MaxToken \in Nat
        /\ MaxCompositeKeys \in Nat \ {0} /\ Floor \in 0..MaxToken
    BY GrantingType, NumberAssumption, AuthorityAssumption
    DEF ManyFails, GrantingMany, IInv, TypeOK
  <1>2. ASSUME NEW now \in Clock, AdvanceFails(Seed(now))
        PROVE  FALSE
    <2>1. now \in 0..MaxToken /\ Seed(now) > MaxToken
      BY <1>2 DEF AdvanceFails
    <2>. QED  BY <1>1, <2>1 DEF Seed, Larger
  <1>3. ASSUME locks[ManyKey] # None, AdvanceFails(NextToken(ManyKey))
        PROVE  FALSE
    <2>1. NextToken(ManyKey) > MaxToken
      BY <1>3 DEF AdvanceFails
    <2>2. locks[ManyKey].nextFencingToken <= watermark
      BY <1>1, <1>3 DEF IInv, FenceInv, CounterInOrder, Present
    <2>3. locks[ManyKey].nextFencingToken \in 0..MaxToken
      BY <1>1, <1>3 DEF IInv, TypeOK, LockObj
    <2>4. watermark + MaxCompositeKeys <= MaxToken
      BY DEF HasHeadroom
    <2>. QED  BY <1>1, <2>1, <2>2, <2>3, <2>4 DEF NextToken
  <1>. QED  BY <1>2, <1>3 DEF ManyFails

(* So the exception never happens to a broker with a disk that works and   *)
(* with tokens left: its composites are registered.                        *)
THEOREM HealthyBrokerRegisters ==
  ASSUME ~DiskFaults, Clock \subseteq 0..MaxToken
  PROVE  Spec /\ []HasHeadroom(MaxCompositeKeys) => []CompositeRegistered
PROOF
  <1>1. IInv /\ HasHeadroom(MaxCompositeKeys) /\ [Next]_vars => [FailsEarly]_vars
    BY HeadroomCarries DEF FailsEarly
  <1>. QED  BY <1>1, Invariance, CompositesAreRegistered, PTL DEF Spec

-----------------------------------------------------------------------------
(* What the broker sends.                                                  *)

LEMMA SendIsSmall ==
  ASSUME NEW ws, NEW kind, NEW id, NEW token
  PROVE  /\ IsFiniteSet(Send(ws, kind, id, token))
         /\ \A f \in Send(ws, kind, id, token) :
              f.to = ws /\ f.kind = kind /\ f.id = id /\ f.token = token
PROOF
  <1>1. \A x : IsFiniteSet({x})
    BY FS_Singleton
  <1>2. IsFiniteSet({})
    BY FS_EmptySet
  <1>. DEFINE f == [to |-> ws, kind |-> kind, id |-> id, token |-> token]
  <1>3. f.to = ws /\ f.kind = kind /\ f.id = id /\ f.token = token
    OBVIOUS
  <1>4. Send(ws, kind, id, token) \in {{f}, {}}
    BY DEF Send
  <1>. HIDE DEF f
  <1>. QED  BY <1>1, <1>2, <1>3, <1>4

\* All frames of the step are few, none is an answer to a lock or an unlock.
OutQuiet == IsFiniteSet(out') /\ \A f \in out' : f.kind \notin {"acquired", "unlocked"}

LEMMA SilentQuiet ==
  ASSUME Silent
  PROVE  OutQuiet
PROOF
  BY FS_EmptySet DEF Silent, OutQuiet

LEMMA ReplyQuiet ==
  ASSUME NEW ws, NEW kind, NEW id, Reply(ws, kind, id), kind \notin {"acquired", "unlocked"}
  PROVE  OutQuiet
PROOF
  BY SendIsSmall DEF Reply, OutQuiet

\* The timer's frames are few, too.
AsksAgain == IsFiniteSet(out') /\ \A f \in out' : f.kind = "reelection"

LEMMA ReelectionOut ==
  ASSUME IInv, NEW k \in Keys, Reelection(k)
  PROVE  AsksAgain
PROOF
  <1>1. CASE out' = {}
    BY <1>1, FS_EmptySet DEF AsksAgain
  <1>2. ASSUME NEW n \in Nat, NEW q, Len(q) \in Nat,
               out' = UNION {Send(q[i].ws, "reelection", q[i].id, 0) :
                             i \in {j \in 1..Len(q) : j <= n}}
        PROVE  AsksAgain
    <2>. DEFINE I == {j \in 1..Len(q) : j <= n}
                Op(i) == Send(q[i].ws, "reelection", q[i].id, 0)
                F == {Op(i) : i \in I}
                g == [i \in I |-> Op(i)]
    <2>1. IsFiniteSet(1..Len(q)) /\ I \in SUBSET (1..Len(q))
      BY <1>2, FS_Interval
    <2>2. IsFiniteSet(I)
      BY <2>1, FS_Subset
    <2>3. \A i : IsFiniteSet(Op(i)) /\ \A f \in Op(i) : f.kind = "reelection"
      BY SendIsSmall
    <2>. HIDE DEF I, Op
    <2>4. IsFiniteSet(F)
      <3>1. g \in Surjection(I, F)
        BY DEF Surjection
      <3>. QED  BY <2>2, <3>1, FS_Surjection
    <2>5. IsFiniteSet(UNION F)
      BY <2>3, <2>4, FS_UNION
    <2>6. out' = UNION F
      BY <1>2 DEF I, Op
    <2>. QED  BY <2>3, <2>5, <2>6 DEF AsksAgain
  <1>3. CASE locks[k] # None
    <2>. DEFINE q == locks[k].notify
                u == timeouts[k].id
                twice == Holding(locks[k], u) /\ u \notin rejected /\ ~Queued(q, u)
                n == IF twice THEN 2 * Batch ELSE Batch
    <2>1. /\ n \in Nat
          /\ out' = UNION {Send(q[i].ws, "reelection", q[i].id, 0) :
                           i \in {j \in 1..Len(q) : j <= n}}
      BY <1>3, NumberAssumption DEF Reelection
    <2>2. Len(q) \in Nat
      BY <1>3 DEF IInv, TypeOK, LockObj
    <2>. HIDE DEF n, q
    <2>. QED  BY <1>2, <2>1, <2>2
  <1>. QED  BY <1>1, <1>3 DEF Reelection, Silent

LEMMA ReelectionQuiet ==
  ASSUME IInv, NEW k \in Keys, Reelection(k)
  PROVE  OutQuiet
PROOF
  BY ReelectionOut DEF AsksAgain, OutQuiet

LEMMA LockFrameOut ==
  ASSUME LockFrame
  PROVE  OutQuiet
PROOF
  <1>1. PICK u \in Uuids, ws \in Sockets :
          \/ LockRefused(u, ws) \/ LockOnNewKey(u, ws) \/ LockOnNewKeyFails(u, ws)
          \/ LockOnFreeKey(u, ws) \/ \E retry \in BOOLEAN : LockOnFullKey(u, ws, retry)
    BY DEF LockFrame
  <1>2. Silent \/ Reply(ws, "refused", u) \/ Reply(ws, "waiting", u)
    BY <1>1 DEF LockRefused, LockOnNewKey, LockOnNewKeyFails, LockOnFreeKey, LockOnFullKey
  <1>. QED  BY <1>2, SilentQuiet, ReplyQuiet

=============================================================================
