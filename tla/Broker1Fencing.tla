---------------------------- MODULE Broker1Fencing ----------------------------
(***************************************************************************)
(* TypeOK and FenceInv are invariants of Broker1, and fencing is monotone. *)
(*                                                                         *)
(* Every step but a grant and a restart leaves the lock table Kept: each   *)
(* lock object is gone, new, or has its old counter and no holder it did   *)
(* not have.  A grant is Install.  The three cases are proved once         *)
(* (KeptStep, InstallStep, RestartStep); what is left for an action is to  *)
(* show which case it is.                                                  *)
(***************************************************************************)
EXTENDS Broker1Safety, LockObjectProofs

IInv == TypeOK /\ FenceInv

\* A lock table whose queues are all at home.
LocksOK(L) ==
  /\ L \in [Keys -> LockObj \cup {None}]
  /\ \A k \in Keys : L[k] # None => L[k] \in HomeLock(k)

\* Lock object l grants nothing that the table does not grant on k.
KeptAt(k, l) ==
  /\ locks[k] # None
  /\ l.nextFencingToken = locks[k].nextFencingToken
  /\ \A h \in Holders : l.lockholders[h] \in {NoHold, locks[k].lockholders[h]}

\* A lock object as it is created between the old and the new watermark.
NewAt(l, mark) ==
  /\ watermark <= l.nextFencingToken /\ l.nextFencingToken <= mark
  /\ l.lockholders = [h \in Holders |-> NoHold]

Kept(L, mark) ==
  \A k \in Keys : L[k] # None => KeptAt(k, L[k]) \/ NewAt(L[k], mark)

-----------------------------------------------------------------------------
(* The lock table.                                                         *)

(* The invariant's two halves put the queues at home.                      *)
LEMMA IInvLocks ==
  ASSUME IInv
  PROVE  LocksOK(locks)
PROOF
  <1>1. locks \in [Keys -> LockObj \cup {None}]
    BY DEF IInv, TypeOK
  <1>2. ASSUME NEW k \in Keys, locks[k] # None
        PROVE  locks[k] \in HomeLock(k)
    <2>1. locks[k] \in LockObj /\ locks[k].notify \in Seq(Waiter)
      BY <1>1, <1>2 DEF LockObj
    <2>2. \A i \in 1..Len(locks[k].notify) :
            locks[k].notify[i].id \in Uuids => Req[locks[k].notify[i].id].key = k
      BY <1>2 DEF IInv, FenceInv, WaitersAtHome, Present
    <2>3. locks[k].notify \in HomeQueue(k)
      BY <2>1, <2>2, HomeQueueIntro
    <2>. QED  BY <2>1, <2>3 DEF HomeLock
  <1>. QED  BY <1>1, <1>2 DEF LocksOK

(* And conversely.                                                         *)
LEMMA LocksOKHome ==
  ASSUME LocksOK(locks')
  PROVE  WaitersAtHome'
PROOF
  <1>. SUFFICES ASSUME NEW k \in Keys, locks'[k] # None,
                       NEW i \in 1..Len(locks'[k].notify)
                PROVE  locks'[k].notify[i].id \in Uuids
                         => Req[locks'[k].notify[i].id].key = k
    BY DEF WaitersAtHome, Present
  <1>1. locks'[k].notify \in HomeQueue(k)
    BY DEF LocksOK, HomeLock
  <1>. QED  BY <1>1, HomeQueueElim

(* Replacing one lock object.                                              *)
LEMMA UpdateOK ==
  ASSUME NEW L, LocksOK(L), NEW k \in Keys, NEW l \in HomeLock(k)
  PROVE  /\ LocksOK([L EXCEPT ![k] = l])
         /\ [L EXCEPT ![k] = l][k] = l
         /\ l # None
PROOF
  BY NullAssumption DEF LocksOK, HomeLock

(* The table as it is.                                                     *)
LEMMA SameKept ==
  ASSUME NEW mark
  PROVE  Kept(locks, mark)
PROOF
  BY DEF Kept, KeptAt

(* What a release does to the table.                                       *)
LEMMA ReleasedOK ==
  ASSUME LocksOK(locks), NEW k \in Keys, locks[k] # None,
         NEW S, NEW R \in SUBSET Holders, NEW mark
  PROVE  /\ LocksOK(Released(k, S, R))
         /\ Released(k, S, R)[k] # None
         /\ Kept(Released(k, S, R), mark)
PROOF
  <1>. DEFINE l == [locks[k] EXCEPT
                      !.lockholders = [h \in Holders |-> IF h \in S THEN NoHold
                                                         ELSE locks[k].lockholders[h]],
                      !.released = locks[k].released \cup R]
  <1>1. locks[k] \in HomeLock(k) /\ locks \in [Keys -> LockObj \cup {None}]
    BY DEF LocksOK
  <1>2. Released(k, S, R) = [locks EXCEPT ![k] = l]
    BY <1>1 DEF Released, HomeLock, LockObj
  <1>3. locks[k].lockholders \in [Holders -> Hold] /\ NoHold \in Hold
    BY <1>1, NumberAssumption DEF HomeLock, LockObj, NoHold, Hold
  <1>4. l \in HomeLock(k)
    BY <1>1, <1>3 DEF HomeLock, LockObj
  <1>5. KeptAt(k, l)
    BY <1>1, <1>3 DEF KeptAt, HomeLock, LockObj
  <1>. HIDE DEF l
  <1>6. Kept([locks EXCEPT ![k] = l], mark)
    BY <1>1, <1>5 DEF Kept, KeptAt
  <1>7. /\ LocksOK([locks EXCEPT ![k] = l])
        /\ [locks EXCEPT ![k] = l][k] = l
        /\ l # None
    BY <1>4, UpdateOK
  <1>. QED  BY <1>2, <1>6, <1>7

(* Replacing one lock object by one that grants nothing new.               *)
LEMMA UpdateKept ==
  ASSUME LocksOK(locks), NEW k \in Keys, NEW l \in HomeLock(k), NEW mark,
         KeptAt(k, l) \/ NewAt(l, mark)
  PROVE  /\ LocksOK([locks EXCEPT ![k] = l])
         /\ Kept([locks EXCEPT ![k] = l], mark)
         /\ [locks EXCEPT ![k] = l][k] # None
         /\ \A j \in Keys : locks[j] # None => [locks EXCEPT ![k] = l][j] # None
PROOF
  <1>1. /\ LocksOK([locks EXCEPT ![k] = l])
        /\ [locks EXCEPT ![k] = l][k] = l
        /\ l # None
    BY UpdateOK
  <1>2. \A j \in Keys : j # k => [locks EXCEPT ![k] = l][j] = locks[j]
    BY DEF LocksOK
  <1>3. \A j \in Keys : locks[j] # None => KeptAt(j, locks[j])
    BY DEF KeptAt
  <1>. QED  BY <1>1, <1>2, <1>3 DEF Kept

(* ensureNewLockHolder changes at most one flag before it drains.          *)
LEMMA EnsureOK ==
  ASSUME NEW L, LocksOK(L), NEW mark, Kept(L, mark), NEW k \in Keys, L[k] # None,
         EnsureNewLockHolder(k, L)
  PROVE  /\ LocksOK(locks') /\ Kept(locks', mark)
         /\ drain' \in {None, k} /\ locks'[k] # None
PROOF
  <1>1. CASE locks' = L
    BY <1>1 DEF EnsureNewLockHolder
  <1>2. CASE locks' = [L EXCEPT ![k].emptied = TRUE] /\ drain' = None
    <2>. DEFINE l == [L[k] EXCEPT !.emptied = TRUE]
    <2>1. L[k] \in HomeLock(k) /\ L \in [Keys -> LockObj \cup {None}]
      BY DEF LocksOK
    <2>2. locks' = [L EXCEPT ![k] = l]
      BY <1>2
    <2>3. l \in HomeLock(k)
      BY <2>1 DEF HomeLock, LockObj
    <2>4. l.nextFencingToken = L[k].nextFencingToken /\ l.lockholders = L[k].lockholders
      BY <2>1 DEF HomeLock, LockObj
    <2>. HIDE DEF l
    <2>5. /\ LocksOK([L EXCEPT ![k] = l])
          /\ [L EXCEPT ![k] = l][k] = l
          /\ l # None
      BY <2>3, UpdateOK
    <2>6. \A j \in Keys : j # k => [L EXCEPT ![k] = l][j] = L[j]
      BY <2>1
    <2>7. KeptAt(k, l) \/ NewAt(l, mark)
      BY <2>4 DEF Kept, KeptAt, NewAt
    <2>8. Kept(locks', mark)
      BY <2>2, <2>5, <2>6, <2>7 DEF Kept
    <2>. QED  BY <1>2, <2>2, <2>5, <2>8
  <1>. QED  BY <1>1, <1>2 DEF EnsureNewLockHolder

(* Collecting emptied lock objects only takes some away.                   *)
LEMMA CleanUpOK ==
  ASSUME NEW L, LocksOK(L), NEW mark, Kept(L, mark), NEW M \in CleanUpLocks(L)
  PROVE  /\ LocksOK(M) /\ Kept(M, mark)
         /\ \A k \in Keys : k \notin Collectable(L) => M[k] = L[k]
PROOF
  <1>1. PICK old \in SUBSET Collectable(L) :
          M = [k \in Keys |-> IF k \in old THEN None ELSE L[k]]
    BY DEF CleanUpLocks
  <1>2. \A k \in Keys : M[k] = IF k \in old THEN None ELSE L[k]
    BY <1>1
  <1>3. LocksOK(M)
    BY <1>1, <1>2 DEF LocksOK
  <1>4. Kept(M, mark)
    BY <1>2 DEF Kept
  <1>. QED  BY <1>2, <1>3, <1>4

(* Nor does writing the limits of a request grant anything.                *)
LEMMA TouchedOK ==
  ASSUME LocksOK(locks), NEW u \in Uuids, NEW mark
  PROVE  /\ LocksOK(Touched(u)) /\ Kept(Touched(u), mark)
         /\ Req[u].key \notin Collectable(Touched(u))
         /\ locks[Req[u].key] # None => Touched(u)[Req[u].key] # None
PROOF
  <1>. DEFINE k == Req[u].key
  <1>1. k \in Keys
    BY RequestAssumption DEF LockRequest
  <1>2. CASE locks[k] = None
    BY <1>2, SameKept DEF Touched, Collectable
  <1>3. CASE locks[k] # None
    <2>. DEFINE e == [locks[k] EXCEPT !.emptied = FALSE]
                l == WithLimits(e, u)
    <2>1. locks[k] \in HomeLock(k) /\ locks \in [Keys -> LockObj \cup {None}]
      BY <1>1, <1>3 DEF LocksOK
    <2>2. /\ e \in HomeLock(k)
          /\ e.nextFencingToken = locks[k].nextFencingToken
          /\ e.lockholders = locks[k].lockholders
          /\ e.emptied = FALSE
      BY <2>1 DEF HomeLock, LockObj
    <2>3. Touched(u) = [locks EXCEPT ![k] = l]
      BY <1>3, <2>1 DEF Touched
    <2>. HIDE DEF e
    <2>4. /\ l \in HomeLock(k)
          /\ l.nextFencingToken = locks[k].nextFencingToken
          /\ l.lockholders = locks[k].lockholders
      BY <1>1, <2>2, WithLimitsType
    <2>5. l.emptied = FALSE
      BY <2>2 DEF WithLimits, HomeLock, LockObj
    <2>. HIDE DEF l
    <2>6. KeptAt(k, l)
      BY <1>3, <2>4 DEF KeptAt
    <2>7. /\ LocksOK([locks EXCEPT ![k] = l])
          /\ Kept([locks EXCEPT ![k] = l], mark)
          /\ [locks EXCEPT ![k] = l][k] # None
      BY <1>1, <2>4, <2>6, UpdateKept
    <2>8. [locks EXCEPT ![k] = l][k] = l
      BY <1>1, <2>1
    <2>9. k \notin Collectable([locks EXCEPT ![k] = l])
      BY <2>5, <2>8 DEF Collectable
    <2>. QED  BY <2>3, <2>7, <2>9
  <1>. QED  BY <1>2, <1>3

-----------------------------------------------------------------------------
(* The three kinds of step.                                                *)

(* Advancing the watermark.                                                *)
LEMMA AdvanceOK ==
  ASSUME IInv, NEW v \in 0..MaxToken, Advance(v)
  PROVE  /\ watermark' \in 0..MaxToken /\ disk' \in 0..MaxToken
         /\ watermark <= watermark' /\ v <= watermark'
         /\ DiskCovers'
PROOF
  <1>1. /\ watermark \in 0..MaxToken /\ disk \in 0..MaxToken /\ Floor \in 0..MaxToken
        /\ Durable => watermark <= Larger(Floor, disk)
    BY AuthorityAssumption DEF IInv, TypeOK, FenceInv, DiskCovers
  <1>. QED  BY <1>1, NumberAssumption DEF Advance, Larger, DiskCovers

(* Failing to advance it.                                                  *)
LEMMA AdvanceFailsOK ==
  ASSUME IInv, NEW v \in Nat, AdvanceFails(v)
  PROVE  /\ watermark' = watermark /\ disk' \in 0..MaxToken
         /\ DiskCovers'
PROOF
  <1>1. /\ watermark \in 0..MaxToken /\ disk \in 0..MaxToken /\ Floor \in 0..MaxToken
        /\ Durable => watermark <= Larger(Floor, disk)
    BY AuthorityAssumption DEF IInv, TypeOK, FenceInv, DiskCovers
  <1>. QED  BY <1>1, NumberAssumption DEF AdvanceFails, Larger, DiskCovers, authority

(* Leaving it alone.                                                       *)
LEMMA SameAuthority ==
  ASSUME IInv, UNCHANGED authority
  PROVE  /\ watermark' \in 0..MaxToken /\ disk' \in 0..MaxToken
         /\ watermark <= watermark'
         /\ DiskCovers'
PROOF
  BY NumberAssumption DEF authority, IInv, TypeOK, FenceInv, DiskCovers

(* A step that keeps the table.                                            *)
LEMMA KeptStep ==
  ASSUME IInv, LocksOK(locks'), Kept(locks', watermark'),
         watermark' \in 0..MaxToken, watermark <= watermark',
         lastToken' = lastToken, DiskCovers', LockInHand'
  PROVE  FenceInv' /\ GrantIsNewer
PROOF
  <1>1. /\ watermark \in Nat /\ watermark' \in Nat
        /\ lastToken \in [Keys -> 0..MaxToken]
        /\ LocksOK(locks)
    BY IInvLocks, NumberAssumption DEF IInv, TypeOK
  <1>2. \A k \in Keys : /\ locks[k] # None => locks[k] \in LockObj
                        /\ locks'[k] # None => locks'[k] \in LockObj
    BY <1>1 DEF LocksOK, HomeLock
  <1>3. ASSUME NEW k \in Keys
        PROVE  /\ lastToken'[k] <= watermark'
               /\ Present(k)' => /\ lastToken'[k] <= locks'[k].nextFencingToken
                                 /\ locks'[k].nextFencingToken <= watermark'
    <2>1. /\ lastToken[k] \in Nat /\ lastToken[k] <= watermark
          /\ locks[k] # None => /\ lastToken[k] <= locks[k].nextFencingToken
                                /\ locks[k].nextFencingToken <= watermark
                                /\ locks[k].nextFencingToken \in Nat
      BY <1>1, <1>2, NumberAssumption DEF IInv, FenceInv, CounterInOrder, Present, LockObj
    <2>2. locks'[k] # None => locks'[k].nextFencingToken \in Nat
      BY <1>2, NumberAssumption DEF LockObj
    <2>3. locks'[k] # None => KeptAt(k, locks'[k]) \/ NewAt(locks'[k], watermark')
      BY DEF Kept
    <2>. QED  BY <1>1, <2>1, <2>2, <2>3 DEF Present, KeptAt, NewAt
  <1>4. ASSUME NEW k \in Keys, NEW h \in Holders
        PROVE  Token(k, h)' \in {0, Token(k, h)}
    BY <1>4 DEF Token, Present, Kept, KeptAt, NewAt, NoHold
  <1>5. \A k \in Keys, h \in Holders : Present(k) => Token(k, h) <= lastToken[k]
    BY DEF IInv, FenceInv, TokensDistinct
  <1>6. \A k \in Keys, h \in Holders : Token(k, h) = 0 \/ Present(k)
    BY DEF Token
  <1>7. CounterInOrder'
    BY <1>3 DEF CounterInOrder
  <1>8. TokensDistinct'
    <2>. SUFFICES ASSUME NEW k \in Keys, Present(k)', NEW g \in Holders, NEW h \in Holders
                  PROVE  /\ Token(k, h)' <= lastToken'[k]
                         /\ Holding(locks'[k], h) /\ g # h => Token(k, g)' # Token(k, h)'
      BY DEF TokensDistinct
    <2>1. lastToken[k] \in Nat
      BY <1>1, NumberAssumption
    <2>2. Token(k, h)' <= lastToken'[k]
      BY <1>4, <1>5, <1>6, <2>1
    <2>3. ASSUME Holding(locks'[k], h), g # h
          PROVE  Token(k, g)' # Token(k, h)'
      <3>1. Token(k, h)' # 0
        BY <2>3 DEF Token, Present, Holding
      <3>2. Token(k, h) # 0 /\ Present(k) /\ Token(k, h)' = Token(k, h)
        BY <1>4, <1>6, <3>1
      <3>3. Holding(locks[k], h)
        BY <3>2 DEF Token, Holding
      <3>4. Token(k, g) # Token(k, h)
        BY <2>3, <3>2, <3>3 DEF IInv, FenceInv, TokensDistinct
      <3>. QED  BY <1>4, <3>1, <3>2, <3>4
    <2>. QED  BY <2>2, <2>3
  <1>9. GrantIsNewer
    BY <1>4 DEF GrantIsNewer
  <1>10. WaitersAtHome'
    BY LocksOKHome
  <1>. QED  BY <1>7, <1>8, <1>9, <1>10 DEF FenceInv

(* A grant: the table, and the types of all that Install writes.           *)
LEMMA InstallTypes ==
  ASSUME IInv, NEW k \in Keys, NEW h \in Holders, NEW ws \in Sockets,
         locks[k] # None, Install(k, h, ws)
  PROVE  /\ LocksOK(locks')
         /\ \A j \in Keys : locks'[j] # None <=> locks[j] # None
         /\ watermark' \in 0..MaxToken /\ disk' \in 0..MaxToken /\ DiskCovers'
         /\ holderDeadlines' \subseteq Keys \X Holders
         /\ wsToKeys' \in [Sockets -> SUBSET Keys]
         /\ lastToken' \in [Keys -> 0..MaxToken]
         /\ NextToken(k) \in 0..MaxToken
PROOF
  <1>1. LocksOK(locks)
    BY IInvLocks
  <1>2. /\ locks[k] \in HomeLock(k) /\ locks[k].nextFencingToken \in Nat
        /\ locks \in [Keys -> LockObj \cup {None}]
    BY <1>1, NumberAssumption DEF LocksOK, HomeLock, LockObj
  <1>3. NextToken(k) \in 0..MaxToken
    BY <1>2, NumberAssumption DEF Install, NextToken
  <1>4. watermark' \in 0..MaxToken /\ disk' \in 0..MaxToken /\ DiskCovers'
    BY <1>3, AdvanceOK DEF Install
  <1>. DEFINE l == [locks[k] EXCEPT
                      !.nextFencingToken = NextToken(k),
                      !.lockholders = [locks[k].lockholders EXCEPT
                                         ![h] = [ws |-> ws, token |-> NextToken(k)]],
                      !.emptied = locks[k].emptied /\ h \in Uuids]
  <1>5. locks' = [locks EXCEPT ![k] = l]
    BY <1>2 DEF Install, HomeLock, LockObj
  <1>6. [ws |-> ws, token |-> NextToken(k)] \in Hold
    BY <1>3 DEF Hold
  <1>7. l \in HomeLock(k)
    BY <1>2, <1>3, <1>6 DEF HomeLock, LockObj
  <1>. HIDE DEF l
  <1>8. /\ LocksOK([locks EXCEPT ![k] = l])
        /\ [locks EXCEPT ![k] = l][k] = l
        /\ l # None
    BY <1>1, <1>7, UpdateOK
  <1>9. \A j \in Keys : j # k => locks'[j] = locks[j]
    BY <1>2, <1>5
  <1>10. holderDeadlines' \subseteq Keys \X Holders
    BY DEF Install, ScheduleDeadline, IInv, TypeOK
  <1>11. wsToKeys' \in [Sockets -> SUBSET Keys] /\ lastToken' \in [Keys -> 0..MaxToken]
    BY <1>3 DEF Install, IInv, TypeOK
  <1>. QED  BY <1>3, <1>4, <1>5, <1>8, <1>9, <1>10, <1>11

(* A grant: what becomes of every counter and every token.                 *)
LEMMA InstallTokens ==
  ASSUME IInv, NEW k \in Keys, NEW h \in Holders, NEW ws \in Sockets,
         locks[k] # None, Install(k, h, ws)
  PROVE  /\ locks'[k].nextFencingToken = NextToken(k)
         /\ \A j \in Keys : j # k => locks'[j] = locks[j]
         /\ \A j \in Keys : lastToken'[j] = IF j = k THEN NextToken(k) ELSE lastToken[j]
         /\ \A j \in Keys, g \in Holders :
              Token(j, g)' = IF j = k /\ g = h THEN NextToken(k) ELSE Token(j, g)
         /\ lastToken[k] < NextToken(k)
PROOF
  <1>. DEFINE n == NextToken(k)
  <1>1. /\ LocksOK(locks) /\ n \in 0..MaxToken
        /\ \A j \in Keys : locks'[j] # None <=> locks[j] # None
    BY IInvLocks, InstallTypes
  <1>2. locks \in [Keys -> LockObj \cup {None}] /\ locks[k] \in LockObj
    BY <1>1 DEF LocksOK, HomeLock
  <1>3. /\ locks'[k].nextFencingToken = n
        /\ \A g \in Holders : locks'[k].lockholders[g] =
             IF g = h THEN [ws |-> ws, token |-> n] ELSE locks[k].lockholders[g]
        /\ \A j \in Keys : j # k => locks'[j] = locks[j]
    BY <1>2 DEF Install, LockObj
  <1>4. lastToken \in [Keys -> Nat]
    BY NumberAssumption DEF IInv, TypeOK
  <1>5. \A j \in Keys : lastToken'[j] = IF j = k THEN n ELSE lastToken[j]
    BY <1>4 DEF Install
  <1>6. \A j \in Keys, g \in Holders :
          Token(j, g)' = IF j = k /\ g = h THEN n ELSE Token(j, g)
    BY <1>1, <1>3 DEF Token, Present
  <1>7. locks[k].nextFencingToken \in Nat /\ lastToken[k] <= locks[k].nextFencingToken
    BY <1>2, NumberAssumption DEF LockObj, IInv, FenceInv, CounterInOrder, Present
  <1>8. lastToken[k] < n
    BY <1>4, <1>7 DEF NextToken
  <1>. QED  BY <1>3, <1>5, <1>6, <1>8

(* A grant: the token it hands out is new.                                 *)
LEMMA InstallStep ==
  ASSUME IInv, NEW k \in Keys, NEW h \in Holders, NEW ws \in Sockets,
         locks[k] # None, Install(k, h, ws), LockInHand'
  PROVE  FenceInv' /\ GrantIsNewer
PROOF
  <1>. DEFINE n == NextToken(k)
  <1>1. /\ LocksOK(locks) /\ LocksOK(locks') /\ n \in 0..MaxToken /\ DiskCovers'
        /\ \A j \in Keys : locks'[j] # None <=> locks[j] # None
    BY IInvLocks, InstallTypes
  <1>2. /\ watermark \in Nat /\ n \in Nat
        /\ lastToken \in [Keys -> Nat]
    BY <1>1, NumberAssumption DEF IInv, TypeOK
  <1>3. watermark' = Larger(watermark, n)
    BY DEF Install, Advance
  <1>4. /\ locks'[k].nextFencingToken = n /\ lastToken[k] < n
        /\ \A j \in Keys : j # k => locks'[j] = locks[j]
        /\ \A j \in Keys : lastToken'[j] = IF j = k THEN n ELSE lastToken[j]
        /\ \A j \in Keys, g \in Holders :
             Token(j, g)' = IF j = k /\ g = h THEN n ELSE Token(j, g)
    BY InstallTokens
  <1>5. \A j \in Keys :
          /\ lastToken[j] <= watermark
          /\ locks[j] # None => /\ lastToken[j] <= locks[j].nextFencingToken
                                /\ locks[j].nextFencingToken <= watermark
                                /\ locks[j].nextFencingToken \in Nat
    BY <1>1, NumberAssumption
    DEF IInv, FenceInv, CounterInOrder, Present, LocksOK, HomeLock, LockObj
  <1>. HIDE DEF n
  <1>6. CounterInOrder'
    <2>. SUFFICES ASSUME NEW j \in Keys
                  PROVE  /\ lastToken'[j] <= watermark'
                         /\ Present(j)' => /\ lastToken'[j] <= locks'[j].nextFencingToken
                                           /\ locks'[j].nextFencingToken <= watermark'
      BY DEF CounterInOrder
    <2>1. CASE j = k
      BY <2>1, <1>2, <1>3, <1>4 DEF Larger
    <2>2. CASE j # k
      BY <2>2, <1>1, <1>2, <1>3, <1>4, <1>5 DEF Larger, Present
    <2>. QED  BY <2>1, <2>2
  <1>7. TokensDistinct'
    <2>. SUFFICES ASSUME NEW j \in Keys, Present(j)', NEW f \in Holders, NEW g \in Holders
                  PROVE  /\ Token(j, g)' <= lastToken'[j]
                         /\ Holding(locks'[j], g) /\ f # g => Token(j, f)' # Token(j, g)'
      BY DEF TokensDistinct
    <2>1. /\ Present(j)
          /\ Token(j, g) <= lastToken[j] /\ Token(j, f) <= lastToken[j]
          /\ Holding(locks[j], g) /\ f # g => Token(j, f) # Token(j, g)
          /\ Holding(locks[j], f) /\ f # g => Token(j, g) # Token(j, f)
      BY <1>1 DEF Present, IInv, FenceInv, TokensDistinct
    <2>2. /\ Token(j, g) \in Nat /\ Token(j, f) \in Nat
      <3>1. locks[j] \in LockObj
        BY <1>1, <2>1 DEF Present, LocksOK, HomeLock
      <3>2. locks[j].lockholders[g] \in Hold /\ locks[j].lockholders[f] \in Hold
        BY <3>1 DEF LockObj
      <3>3. /\ locks[j].lockholders[g].token \in 0..MaxToken
            /\ locks[j].lockholders[f].token \in 0..MaxToken
        BY <3>2 DEF Hold
      <3>. QED  BY <2>1, <3>3, NumberAssumption DEF Token
    <2>3. Holding(locks'[j], g) <=> Token(j, g)' # 0
      BY DEF Holding, Token, Present
    <2>4. Holding(locks[j], g) <=> Token(j, g) # 0
      BY <2>1 DEF Holding, Token, Present
    <2>5. CASE j # k
      BY <2>5, <1>4, <2>1, <2>3, <2>4
    <2>6. CASE j = k
      BY <2>6, <1>2, <1>4, <2>1, <2>2, <2>3, <2>4
    <2>. QED  BY <2>5, <2>6
  <1>8. GrantIsNewer
    BY <1>2, <1>4 DEF GrantIsNewer
  <1>9. WaitersAtHome'
    BY <1>1, LocksOKHome
  <1>. QED  BY <1>1, <1>6, <1>7, <1>8, <1>9 DEF FenceInv

(* The death of the broker: no lock, and a watermark the old one reached.  *)
LEMMA RestartStep ==
  ASSUME IInv, Restart
  PROVE  TypeOK' /\ FenceInv' /\ GrantIsNewer
PROOF
  <1>1. /\ watermark \in 0..MaxToken /\ disk \in 0..MaxToken /\ Floor \in 0..MaxToken
        /\ MaxToken \in Nat
    BY AuthorityAssumption, NumberAssumption DEF IInv, TypeOK
  <1>2. /\ Durable => watermark <= watermark'
        /\ watermark' \in 0..MaxToken
    BY <1>1 DEF Restart, Larger, IInv, FenceInv, DiskCovers
  <1>3. lastToken' \in [Keys -> 0..MaxToken]
    BY <1>1 DEF Restart, IInv, TypeOK
  <1>4. TypeOK'
    BY <1>1, <1>2, <1>3 DEF Restart, TypeOK, IInv
  <1>5. \A k \in Keys : locks'[k] = None
    BY DEF Restart
  <1>6. CounterInOrder'
    <2>. SUFFICES ASSUME NEW k \in Keys  PROVE lastToken'[k] <= watermark'
      BY <1>5 DEF CounterInOrder, Present
    <2>1. lastToken[k] <= watermark /\ lastToken[k] \in Nat
      BY <1>1 DEF IInv, FenceInv, CounterInOrder, TypeOK
    <2>. QED  BY <1>1, <1>2, <2>1 DEF Restart
  <1>7. DiskCovers' /\ TokensDistinct' /\ LockInHand' /\ WaitersAtHome'
    BY <1>1, <1>5 DEF Restart, DiskCovers, TokensDistinct, LockInHand, WaitersAtHome, Present,
                      Larger
  <1>8. GrantIsNewer
    BY <1>5 DEF GrantIsNewer, Token, Present
  <1>. QED  BY <1>4, <1>6, <1>7, <1>8 DEF FenceInv

-----------------------------------------------------------------------------
(* The actions.                                                            *)

\* The part of TypeOK that the lemmas about the lock table leave to the action.
RestOK ==
  /\ holderDeadlines \subseteq Keys \X Holders
  /\ timeouts \in [Keys -> [id : Uuids, ws : Sockets] \cup {None}]
  /\ rejected \subseteq Uuids
  /\ wsToKeys \in [Sockets -> SUBSET Keys]
  /\ wsToUUIDs \in [Sockets -> SUBSET Uuids]
  /\ compositeLocks \subseteq ManyIds
  /\ spent \subseteq ManyIds
  /\ writable \subseteq Sockets
  /\ lmxClosed \subseteq Sockets
  /\ work \subseteq Task
  /\ drain \in Keys \cup {None}
  /\ granting \in GrantInHand \cup {None}
  /\ out \subseteq Frame

\* An entry of a lockholders Map is an old one, or the grant in progress put it
\* there, for the connection it is made for.
EntriesTraced ==
  \A k \in Keys, h \in Holders : locks'[k] # None =>
    LET e == locks'[k].lockholders[h]
    IN  \/ e = NoHold
        \/ locks[k] # None /\ e = locks[k].lockholders[h]
        \/ granting # None /\ granting.id = h /\ e.ws = granting.ws

StepOK == TypeOK' /\ FenceInv' /\ GrantIsNewer /\ EntriesTraced

-----------------------------------------------------------------------------
(* What the steps have in common.                                          *)

LEMMA KeptTraced ==
  ASSUME NEW mark, Kept(locks', mark)
  PROVE  EntriesTraced
PROOF
  <1>. SUFFICES ASSUME NEW k \in Keys, NEW h \in Holders, locks'[k] # None
                PROVE  \/ locks'[k].lockholders[h] = NoHold
                       \/ locks[k] # None /\ locks'[k].lockholders[h] = locks[k].lockholders[h]
    BY DEF EntriesTraced
  <1>1. KeptAt(k, locks'[k]) \/ NewAt(locks'[k], mark)
    BY DEF Kept
  <1>. QED  BY <1>1 DEF KeptAt, NewAt

LEMMA InstallTraced ==
  ASSUME IInv, granting # None, NEW k \in Keys, granting.id \in Holders, locks[k] # None,
         Install(k, granting.id, granting.ws)
  PROVE  EntriesTraced
PROOF
  <1>. DEFINE h == granting.id
              e == [ws |-> granting.ws, token |-> NextToken(k)]
  <1>1. locks \in [Keys -> LockObj \cup {None}] /\ locks[k] \in LockObj
    BY DEF IInv, TypeOK
  <1>2. /\ \A j \in Keys : j # k => locks'[j] = locks[j]
        /\ locks'[k].lockholders = [locks[k].lockholders EXCEPT ![h] = e]
    BY <1>1 DEF Install, LockObj
  <1>3. \A g \in Holders : locks'[k].lockholders[g] = IF g = h THEN e
                                                            ELSE locks[k].lockholders[g]
    BY <1>1, <1>2 DEF LockObj
  <1>4. e.ws = granting.ws
    OBVIOUS
  <1>. QED  BY <1>2, <1>3, <1>4 DEF EntriesTraced

(* A step that grants nothing and leaves the authority alone.              *)
LEMMA CalmStep ==
  ASSUME IInv, LocksOK(locks'), Kept(locks', watermark'), UNCHANGED authority,
         lastToken' = lastToken, RestOK', LockInHand'
  PROVE  StepOK
PROOF
  <1>1. /\ watermark' \in 0..MaxToken /\ disk' \in 0..MaxToken
        /\ watermark <= watermark'
        /\ DiskCovers'
    BY SameAuthority
  <1>2. FenceInv' /\ GrantIsNewer
    BY <1>1, KeptStep
  <1>3. locks' \in [Keys -> LockObj \cup {None}]
    BY DEF LocksOK
  <1>4. TypeOK'
    BY <1>1, <1>3 DEF TypeOK, RestOK, IInv
  <1>. QED  BY <1>2, <1>4, KeptTraced DEF StepOK

(* A step that grants nothing and advances the authority.                  *)
LEMMA AdvanceStep ==
  ASSUME IInv, NEW v \in 0..MaxToken, Advance(v), LocksOK(locks'),
         Kept(locks', watermark'), lastToken' = lastToken, RestOK', LockInHand'
  PROVE  StepOK
PROOF
  <1>1. /\ watermark' \in 0..MaxToken /\ disk' \in 0..MaxToken
        /\ watermark <= watermark'
        /\ DiskCovers'
    BY AdvanceOK
  <1>2. FenceInv' /\ GrantIsNewer
    BY <1>1, KeptStep
  <1>3. TypeOK'
    BY <1>1 DEF TypeOK, RestOK, IInv, LocksOK
  <1>. QED  BY <1>2, <1>3, KeptTraced DEF StepOK

(* A step that fails to advance it.                                        *)
LEMMA AdvanceFailsStep ==
  ASSUME IInv, NEW v \in Nat, AdvanceFails(v), LocksOK(locks'),
         Kept(locks', watermark'), lastToken' = lastToken, RestOK', LockInHand'
  PROVE  StepOK
PROOF
  <1>1. /\ watermark' \in 0..MaxToken /\ disk' \in 0..MaxToken
        /\ watermark <= watermark'
        /\ DiskCovers'
    BY AdvanceFailsOK, NumberAssumption DEF IInv, TypeOK
  <1>2. FenceInv' /\ GrantIsNewer
    BY <1>1, KeptStep
  <1>3. TypeOK'
    BY <1>1 DEF TypeOK, RestOK, IInv, LocksOK
  <1>. QED  BY <1>2, <1>3, KeptTraced DEF StepOK

(* A step that does not touch the lock table.                              *)
LEMMA SameLocks ==
  ASSUME IInv, locks' = locks
  PROVE  LocksOK(locks') /\ Kept(locks', watermark')
PROOF
  <1>1. LocksOK(locks)
    BY IInvLocks
  <1>. QED  BY <1>1, SameKept

(* Between handlers nothing is in hand.                                    *)
LEMMA NothingInHand ==
  ASSUME drain' = None, granting' = None
  PROVE  LockInHand'
PROOF
  BY DEF LockInHand

(* A row of the work list, a handler's lock in hand: both are unaffected   *)
(* when neither the stack nor the table moves.                             *)
LEMMA SameInHand ==
  ASSUME IInv, locks' = locks, drain' = drain, granting' = granting
  PROVE  LockInHand'
PROOF
  BY DEF IInv, FenceInv, LockInHand, Present

(* Frames have their type.                                                 *)
LEMMA SendType ==
  ASSUME NEW ws \in Sockets, NEW kind \in FrameKind, NEW id \in Holders \cup {None},
         NEW token \in 0..MaxToken
  PROVE  Send(ws, kind, id, token) \subseteq Frame
PROOF
  BY DEF Send, Frame

LEMMA ReplyType ==
  ASSUME NEW ws \in Sockets, NEW kind \in FrameKind, NEW id \in Holders \cup {None},
         Reply(ws, kind, id)
  PROVE  out' \subseteq Frame
PROOF
  <1>1. 0 \in 0..MaxToken
    BY NumberAssumption
  <1>. QED  BY <1>1, SendType DEF Reply

LEMMA SilentType ==
  ASSUME Silent
  PROVE  out' \subseteq Frame
PROOF
  BY DEF Silent

(* What the constants say of a request.                                    *)
LEMMA RequestType ==
  /\ \A u \in Uuids : Req[u].key \in Keys /\ u \in Holders
  /\ \A m \in ManyIds : /\ m \in Holders /\ ManyReq[m].from \in Sockets
                        /\ Len(ManyReq[m].keys) \in Nat
                        /\ \A i \in 1..Len(ManyReq[m].keys) : ManyReq[m].keys[i] \in Keys
PROOF
  <1>1. \A u \in Uuids : Req[u].key \in Keys /\ u \in Holders
    BY RequestAssumption DEF LockRequest, Holders
  <1>2. ASSUME NEW m \in ManyIds
        PROVE  /\ m \in Holders /\ ManyReq[m].from \in Sockets
               /\ Len(ManyReq[m].keys) \in Nat
               /\ \A i \in 1..Len(ManyReq[m].keys) : ManyReq[m].keys[i] \in Keys
    <2>1. ManyReq[m] \in ManyRequest
      BY RequestAssumption
    <2>2. ManyReq[m].keys \in Seq(Keys) /\ ManyReq[m].from \in Sockets
      BY <2>1 DEF ManyRequest
    <2>. QED  BY <2>2 DEF Holders
  <1>. QED  BY <1>1, <1>2

-----------------------------------------------------------------------------
(* lock().                                                                 *)

LEMMA LockRefusedStep ==
  ASSUME IInv, NEW u \in Uuids, NEW ws \in Sockets, LockRefused(u, ws)
  PROVE  StepOK
PROOF
  <1>1. out' \subseteq Frame
    BY RequestType, ReplyType DEF LockRefused, FrameKind
  <1>2. RestOK'
    BY <1>1 DEF LockRefused, RestOK, IInv, TypeOK, tables, sockets, stack
  <1>3. LockInHand'
    BY SameInHand DEF LockRefused, stack
  <1>. QED  BY <1>2, <1>3, SameLocks, CalmStep DEF LockRefused, authority

(* The grant a call starts.                                                *)
LEMMA BeginType ==
  ASSUME NEW h \in Holders, NEW ws \in Sockets, Begin(h, ws)
  PROVE  granting' \in GrantInHand
PROOF
  BY DEF Begin, GrantInHand

(* What every accepted call leaves well typed.                             *)
LEMMA LockAcceptedRest ==
  ASSUME IInv, NEW u \in Uuids, NEW ws \in Sockets, LockAccepted(u, ws),
         wsToKeys' \in {wsToKeys, [wsToKeys EXCEPT ![ws] = @ \cup {Req[u].key}]},
         out' \subseteq Frame, Begin(u, ws) \/ granting' = granting
  PROVE  RestOK'
PROOF
  <1>1. wsToKeys' \in [Sockets -> SUBSET Keys]
    BY RequestType DEF IInv, TypeOK
  <1>2. wsToUUIDs' \in [Sockets -> SUBSET Uuids]
    BY DEF LockAccepted, Remember, IInv, TypeOK
  <1>3. granting' \in GrantInHand \cup {None}
    BY RequestType, BeginType DEF IInv, TypeOK
  <1>. QED  BY <1>1, <1>2, <1>3 DEF LockAccepted, RestOK, IInv, TypeOK, sockets

(* The call that starts a grant finds its lock object in the table.        *)
LEMMA BeginInHand ==
  ASSUME NEW u \in Uuids, NEW ws \in Sockets, Idle, drain' = drain,
         Begin(u, ws) => locks'[Req[u].key] # None,
         Begin(u, ws) \/ granting' = granting
  PROVE  LockInHand'
PROOF
  <1>1. u \notin ManyIds
    BY NameAssumption
  <1>. QED  BY <1>1 DEF Idle, LockInHand, Present, Begin

LEMMA LockOnNewKeyStep ==
  ASSUME IInv, NEW u \in Uuids, NEW ws \in Sockets, LockOnNewKey(u, ws)
  PROVE  StepOK
PROOF
  <1>. DEFINE k == Req[u].key
  <1>1. PICK now \in Clock, L \in CleanUpLocks(locks) :
          /\ Seed(now) <= MaxToken
          /\ Advance(Seed(now))
          /\ locks' = [L EXCEPT
                ![k] = CountReader(WithLimits(DefaultLockObject(Seed(now)), u), u)]
    BY DEF LockOnNewKey
  <1>2. k \in Keys /\ locks[k] = None /\ LocksOK(locks)
    BY RequestType, IInvLocks DEF LockOnNewKey
  <1>3. Seed(now) \in 0..MaxToken /\ watermark <= Seed(now)
    BY <1>1, AuthorityAssumption, NumberAssumption DEF Seed, Larger, IInv, TypeOK
  <1>4. /\ watermark' \in 0..MaxToken /\ disk' \in 0..MaxToken /\ DiskCovers'
        /\ watermark <= watermark' /\ Seed(now) <= watermark'
    BY <1>1, <1>3, AdvanceOK
  <1>5. LocksOK(L) /\ Kept(L, watermark')
    BY <1>2, SameKept, CleanUpOK
  <1>. DEFINE d == DefaultLockObject(Seed(now))
              l == CountReader(WithLimits(d, u), u)
  <1>6. d \in HomeLock(k)
    BY <1>2, <1>3, DefaultLockObjectType
  <1>7. d.nextFencingToken = Seed(now) /\ d.lockholders = [h \in Holders |-> NoHold]
    BY DEF DefaultLockObject
  <1>. HIDE DEF d
  <1>8. /\ l \in HomeLock(k)
        /\ l.nextFencingToken = d.nextFencingToken
        /\ l.lockholders = d.lockholders
    BY <1>2, <1>6, WithLimitsType, CountReaderType
  <1>. HIDE DEF l
  <1>9. NewAt(l, watermark')
    BY <1>3, <1>4, <1>7, <1>8 DEF NewAt
  <1>10. locks' = [L EXCEPT ![k] = l]
    BY <1>1 DEF d, l
  <1>11. /\ LocksOK([L EXCEPT ![k] = l])
         /\ [L EXCEPT ![k] = l][k] = l
         /\ l # None
    BY <1>2, <1>5, <1>8, UpdateOK
  <1>12. Kept(locks', watermark')
    <2>1. \A j \in Keys : j # k => locks'[j] = L[j]
      BY <1>5, <1>10 DEF LocksOK
    <2>. QED  BY <1>5, <1>9, <1>10, <1>11, <2>1 DEF Kept
  <1>13. RestOK'
    BY LockAcceptedRest, SilentType DEF LockOnNewKey
  <1>14. LockInHand'
    BY <1>10, <1>11, BeginInHand DEF LockOnNewKey, LockAccepted, Hears
  <1>. QED
    BY <1>1, <1>3, <1>10, <1>11, <1>12, <1>13, <1>14, AdvanceStep
    DEF LockOnNewKey, LockAccepted

LEMMA LockOnNewKeyFailsStep ==
  ASSUME IInv, NEW u \in Uuids, NEW ws \in Sockets, LockOnNewKeyFails(u, ws)
  PROVE  StepOK
PROOF
  <1>1. PICK now \in Clock : AdvanceFails(Seed(now))
    BY DEF LockOnNewKeyFails
  <1>2. Seed(now) \in Nat
    BY AuthorityAssumption, NumberAssumption DEF Seed, Larger, IInv, TypeOK
  <1>3. LocksOK(locks') /\ Kept(locks', watermark')
    BY IInvLocks, SameKept, CleanUpOK DEF LockOnNewKeyFails
  <1>4. out' \subseteq Frame
    BY RequestType, ReplyType DEF LockOnNewKeyFails, FrameKind
  <1>5. RestOK'
    BY <1>4, LockAcceptedRest DEF LockOnNewKeyFails
  <1>6. LockInHand'
    BY NothingInHand DEF LockOnNewKeyFails, LockAccepted, Hears, Idle
  <1>. QED
    BY <1>1, <1>2, <1>3, <1>5, <1>6, AdvanceFailsStep DEF LockOnNewKeyFails, LockAccepted

(* The object of the call's key survives the collection.                   *)
LEMMA TouchedCollected ==
  ASSUME IInv, NEW u \in Uuids, locks[Req[u].key] # None,
         NEW L \in CleanUpLocks(Touched(u))
  PROVE  /\ LocksOK(L) /\ Kept(L, watermark')
         /\ L[Req[u].key] \in HomeLock(Req[u].key)
PROOF
  <1>1. LocksOK(locks) /\ Req[u].key \in Keys
    BY IInvLocks, RequestType
  <1>2. /\ LocksOK(Touched(u)) /\ Kept(Touched(u), watermark')
        /\ Req[u].key \notin Collectable(Touched(u))
        /\ Touched(u)[Req[u].key] # None
    BY <1>1, TouchedOK
  <1>3. LocksOK(L) /\ Kept(L, watermark') /\ L[Req[u].key] # None
    BY <1>1, <1>2, CleanUpOK
  <1>. QED  BY <1>1, <1>3 DEF LocksOK

(* A lock object with another queue of its own.                            *)
LEMMA HomeNotify ==
  ASSUME NEW k \in Keys, NEW l \in HomeLock(k), NEW q \in HomeQueue(k)
  PROVE  /\ [l EXCEPT !.notify = q] \in HomeLock(k)
         /\ [l EXCEPT !.notify = q].nextFencingToken = l.nextFencingToken
         /\ [l EXCEPT !.notify = q].lockholders = l.lockholders
PROOF
  BY HomeQueueElim DEF HomeLock, LockObj

(* A table that already is Kept, with one of its objects replaced.         *)
LEMMA UpdateAgain ==
  ASSUME NEW L, NEW mark, LocksOK(L), Kept(L, mark), NEW k \in Keys, L[k] # None,
         NEW l \in HomeLock(k), l.nextFencingToken = L[k].nextFencingToken,
         l.lockholders = L[k].lockholders
  PROVE  /\ LocksOK([L EXCEPT ![k] = l]) /\ Kept([L EXCEPT ![k] = l], mark)
         /\ [L EXCEPT ![k] = l][k] # None
PROOF
  <1>1. /\ LocksOK([L EXCEPT ![k] = l])
        /\ [L EXCEPT ![k] = l][k] = l
        /\ l # None
    BY UpdateOK
  <1>2. \A j \in Keys : j # k => [L EXCEPT ![k] = l][j] = L[j]
    BY DEF LocksOK
  <1>3. KeptAt(k, l) \/ NewAt(l, mark)
    BY DEF Kept, KeptAt, NewAt
  <1>. QED  BY <1>1, <1>2, <1>3 DEF Kept

LEMMA LockOnFreeKeyStep ==
  ASSUME IInv, NEW u \in Uuids, NEW ws \in Sockets, LockOnFreeKey(u, ws)
  PROVE  StepOK
PROOF
  <1>. DEFINE k == Req[u].key
  <1>1. PICK L \in CleanUpLocks(Touched(u)) :
          locks' = [L EXCEPT ![k] = CountReader(L[k], u)]
    BY DEF LockOnFreeKey
  <1>2. /\ k \in Keys /\ LocksOK(L) /\ Kept(L, watermark')
        /\ L[k] \in HomeLock(k) /\ L[k] # None
    BY RequestType, TouchedCollected, NullAssumption DEF LockOnFreeKey, HomeLock
  <1>. DEFINE l == CountReader(L[k], u)
  <1>3. /\ l \in HomeLock(k)
        /\ l.nextFencingToken = L[k].nextFencingToken
        /\ l.lockholders = L[k].lockholders
    BY <1>2, CountReaderType
  <1>. HIDE DEF l
  <1>4. /\ LocksOK([L EXCEPT ![k] = l]) /\ Kept([L EXCEPT ![k] = l], watermark')
        /\ [L EXCEPT ![k] = l][k] # None
    BY <1>2, <1>3, UpdateAgain
  <1>5. locks' = [L EXCEPT ![k] = l]
    BY <1>1 DEF l
  <1>6. RestOK'
    BY LockAcceptedRest, SilentType DEF LockOnFreeKey
  <1>7. LockInHand'
    BY <1>4, <1>5, BeginInHand DEF LockOnFreeKey, LockAccepted, Hears
  <1>. QED  BY <1>4, <1>5, <1>6, <1>7, CalmStep DEF LockOnFreeKey, LockAccepted, authority

LEMMA LockOnFullKeyStep ==
  ASSUME IInv, NEW u \in Uuids, NEW ws \in Sockets, NEW retry \in BOOLEAN,
         LockOnFullKey(u, ws, retry)
  PROVE  StepOK
PROOF
  <1>. DEFINE k == Req[u].key
  <1>1. PICK L \in CleanUpLocks(Touched(u)) :
          locks' = IF Req[u].wait
                   THEN [L EXCEPT ![k].notify = Enqueue(L[k].notify, u, ws, retry)]
                   ELSE L
    BY DEF LockOnFullKey
  <1>2. /\ k \in Keys /\ LocksOK(L) /\ Kept(L, watermark')
        /\ L[k] \in HomeLock(k) /\ L[k] # None
    BY RequestType, TouchedCollected, NullAssumption DEF LockOnFullKey, HomeLock
  <1>. DEFINE l == [L[k] EXCEPT !.notify = Enqueue(L[k].notify, u, ws, retry)]
  <1>3. Enqueue(L[k].notify, u, ws, retry) \in HomeQueue(k)
    BY <1>2, EnqueueHome DEF HomeLock
  <1>4. /\ l \in HomeLock(k)
        /\ l.nextFencingToken = L[k].nextFencingToken
        /\ l.lockholders = L[k].lockholders
    BY <1>2, <1>3, HomeNotify
  <1>5. [L EXCEPT ![k].notify = Enqueue(L[k].notify, u, ws, retry)] = [L EXCEPT ![k] = l]
    OBVIOUS
  <1>. HIDE DEF l
  <1>6. /\ LocksOK([L EXCEPT ![k] = l]) /\ Kept([L EXCEPT ![k] = l], watermark')
    BY <1>2, <1>4, UpdateAgain
  <1>7. LocksOK(locks') /\ Kept(locks', watermark')
    BY <1>1, <1>2, <1>5, <1>6
  <1>8. out' \subseteq Frame
    BY RequestType, ReplyType DEF LockOnFullKey, FrameKind
  <1>9. RestOK'
    BY <1>8, LockAcceptedRest DEF LockOnFullKey
  <1>10. LockInHand'
    BY NothingInHand DEF LockOnFullKey, LockAccepted, Hears, Idle
  <1>. QED  BY <1>7, <1>9, <1>10, CalmStep DEF LockOnFullKey, LockAccepted, authority

-----------------------------------------------------------------------------
(* unlock().                                                               *)

(* A handler that releases holders of k enters ensureNewLockHolder.        *)
LEMMA EnsureStep ==
  ASSUME IInv, NEW k \in Keys, NEW L, LocksOK(L), Kept(L, watermark'), L[k] # None,
         EnsureNewLockHolder(k, L), granting' = None, UNCHANGED authority,
         lastToken' = lastToken, drain' \in Keys \cup {None} => RestOK'
  PROVE  StepOK
PROOF
  <1>1. /\ LocksOK(locks') /\ Kept(locks', watermark')
        /\ drain' \in {None, k} /\ locks'[k] # None
    BY EnsureOK
  <1>2. LockInHand'
    BY <1>1 DEF LockInHand, Present
  <1>. QED  BY <1>1, <1>2, CalmStep

(* The same, for the release of the holders in S.                          *)
LEMMA ReleaseStep ==
  ASSUME IInv, NEW k \in Keys, locks[k] # None, NEW S, NEW R \in SUBSET Holders,
         EnsureNewLockHolder(k, Released(k, S, R)), granting' = None,
         UNCHANGED authority, lastToken' = lastToken,
         drain' \in Keys \cup {None} => RestOK'
  PROVE  StepOK
PROOF
  <1>1. /\ LocksOK(Released(k, S, R)) /\ Released(k, S, R)[k] # None
        /\ Kept(Released(k, S, R), watermark')
    BY IInvLocks, ReleasedOK
  <1>. QED  BY <1>1, EnsureStep

(* What every unlock leaves well typed.                                    *)
LEMMA UnlockRest ==
  ASSUME IInv, NEW k \in Keys, NEW u \in Uuids \cup {None}, NEW ws \in Sockets,
         Unlocking(k, u, ws), NEW kind \in FrameKind, Reply(ws, kind, u),
         holderDeadlines' \subseteq holderDeadlines, drain' \in Keys \cup {None}
  PROVE  RestOK'
PROOF
  <1>1. out' \subseteq Frame
    BY ReplyType DEF Holders
  <1>2. /\ wsToKeys' \in [Sockets -> SUBSET Keys]
        /\ wsToUUIDs' \in [Sockets -> SUBSET Uuids]
    BY DEF Unlocking, Forget, IInv, TypeOK
  <1>. QED  BY <1>1, <1>2 DEF Unlocking, RestOK, IInv, TypeOK, sockets

LEMMA UnlockUnknownKeyStep ==
  ASSUME IInv, NEW k \in Keys, NEW u \in Uuids \cup {None}, NEW ws \in Sockets,
         UnlockUnknownKey(k, u, ws)
  PROVE  StepOK
PROOF
  <1>1. Idle /\ drain' = drain /\ granting' = granting /\ lastToken' = lastToken
    BY DEF UnlockUnknownKey, Unlocking, Hears
  <1>2. RestOK'
    BY <1>1, UnlockRest DEF UnlockUnknownKey, FrameKind, Idle
  <1>3. LockInHand'
    BY <1>1, NothingInHand DEF Idle
  <1>. QED  BY <1>1, <1>2, <1>3, SameLocks, CalmStep DEF UnlockUnknownKey, Unlocking, authority

LEMMA UnlockHolderStep ==
  ASSUME IInv, NEW k \in Keys, NEW u \in Uuids \cup {None}, NEW ws \in Sockets,
         UnlockHolder(k, u, ws)
  PROVE  StepOK
PROOF
  <1>1. /\ Unlocking(k, u, ws) /\ Reply(ws, "unlocked", u)
        /\ granting' = None /\ lastToken' = lastToken /\ UNCHANGED authority
        /\ locks[k] # None /\ {u} \in SUBSET Holders
        /\ EnsureNewLockHolder(k, Released(k, {u}, {u}))
    BY DEF UnlockHolder, Unlocking, Hears, Idle, authority, Holders
  <1>2. drain' \in Keys \cup {None} => RestOK'
    BY <1>1, UnlockRest DEF UnlockHolder, FrameKind
  <1>. QED  BY <1>1, <1>2, ReleaseStep

LEMMA UnlockEveryoneStep ==
  ASSUME IInv, NEW k \in Keys, NEW ws \in Sockets, UnlockEveryone(k, ws)
  PROVE  StepOK
PROOF
  <1>1. /\ Unlocking(k, None, ws) /\ Reply(ws, "unlocked", None)
        /\ granting' = None /\ lastToken' = lastToken /\ UNCHANGED authority
        /\ locks[k] # None /\ HoldersOf(locks[k]) \in SUBSET Holders
        /\ EnsureNewLockHolder(k, Released(k, Holders, HoldersOf(locks[k])))
    BY DEF UnlockEveryone, Unlocking, Hears, Idle, authority, HoldersOf
  <1>2. drain' \in Keys \cup {None} => RestOK'
    BY <1>1, UnlockRest DEF UnlockEveryone, FrameKind
  <1>. QED  BY <1>1, <1>2, ReleaseStep

(* Forgetting that u's hold was taken away.                                *)
LEMMA UnlockLateStep ==
  ASSUME IInv, NEW k \in Keys, NEW u \in Uuids \cup {None}, NEW ws \in Sockets,
         UnlockLate(k, u, ws)
  PROVE  StepOK
PROOF
  <1>. DEFINE l == [locks[k] EXCEPT !.released = locks[k].released \ {u}]
  <1>1. /\ Unlocking(k, u, ws) /\ Reply(ws, "unlocked", u)
        /\ granting' = None /\ lastToken' = lastToken /\ UNCHANGED authority
        /\ locks[k] # None
        /\ EnsureNewLockHolder(k, [locks EXCEPT ![k] = l])
    BY DEF UnlockLate, Unlocking, Hears, Idle, authority
  <1>2. LocksOK(locks) /\ locks[k] \in HomeLock(k)
    BY <1>1, IInvLocks DEF LocksOK
  <1>3. l \in HomeLock(k) /\ KeptAt(k, l)
    BY <1>1, <1>2 DEF HomeLock, LockObj, KeptAt
  <1>. HIDE DEF l
  <1>4. /\ LocksOK([locks EXCEPT ![k] = l])
        /\ Kept([locks EXCEPT ![k] = l], watermark')
        /\ [locks EXCEPT ![k] = l][k] # None
    BY <1>2, <1>3, UpdateKept
  <1>5. drain' \in Keys \cup {None} => RestOK'
    BY <1>1, UnlockRest DEF UnlockLate, FrameKind
  <1>. QED  BY <1>1, <1>4, <1>5, EnsureStep

LEMMA UnlockRejectedStep ==
  ASSUME IInv, NEW k \in Keys, NEW u \in Uuids \cup {None}, NEW ws \in Sockets,
         NEW force \in BOOLEAN, UnlockRejected(k, u, ws, force)
  PROVE  StepOK
PROOF
  <1>1. Idle /\ drain' = drain /\ granting' = granting /\ lastToken' = lastToken
    BY DEF UnlockRejected, Unlocking, Hears
  <1>2. RestOK'
    BY <1>1, UnlockRest DEF UnlockRejected, FrameKind, Idle
  <1>3. LockInHand'
    BY <1>1, NothingInHand DEF Idle
  <1>. QED  BY <1>1, <1>2, <1>3, SameLocks, CalmStep DEF UnlockRejected, Unlocking, authority

-----------------------------------------------------------------------------
(* The other frames, the sweep and the end of a connection.                *)

(* Steps that touch neither the lock table nor the running handler.        *)
LEMMA TableStep ==
  ASSUME IInv, locks' = locks, drain' = drain, granting' = granting,
         UNCHANGED authority, lastToken' = lastToken, RestOK'
  PROVE  StepOK
PROOF
  BY SameInHand, SameLocks, CalmStep

(* The rows a handler starts with are tasks.                               *)
LEMMA RowTypes ==
  ASSUME IInv, NEW ws \in Sockets
  PROVE  /\ \A k \in Keys, h \in Holders : EvictRow(k, h) \in Task
         /\ \A m \in ManyIds : /\ RegistryRow(m, ws) \in Task
                               /\ \A i \in 1..Len(ManyReq[m].keys) : MemberRow(m, i) \in Task
         /\ \A k \in Keys : VisitRow(k, ws) \in Task
         /\ LastRow("destroy", ws) \in Task /\ LastRow("mismatch", ws) \in Task
PROOF
  <1>1. \A k \in Keys, h \in Holders : EvictRow(k, h) \in Task
    BY DEF EvictRow, Task, Rows
  <1>2. ASSUME NEW m \in ManyIds
        PROVE  RegistryRow(m, ws) \in Task
    BY RequestType DEF RegistryRow, Task, Rows
  <1>3. ASSUME NEW m \in ManyIds, NEW i \in 1..Len(ManyReq[m].keys)
        PROVE  MemberRow(m, i) \in Task
    <2>1. ManyReq[m].keys[i] \in Keys /\ i \in Nat
      BY RequestType
    <2>. QED  BY <2>1 DEF MemberRow, Task, Rows
  <1>4. \A k \in Keys : VisitRow(k, ws) \in Task
    <2>1. wsToUUIDs[ws] \in SUBSET Uuids
      BY DEF IInv, TypeOK
    <2>. QED  BY <2>1 DEF VisitRow, Task, Rows
  <1>5. LastRow("destroy", ws) \in Task /\ LastRow("mismatch", ws) \in Task
    BY DEF LastRow, Task, Rows
  <1>. QED  BY <1>1, <1>2, <1>3, <1>4, <1>5

LEMMA AcquireManyStep ==
  ASSUME IInv, NEW m \in ManyIds, AcquireMany(m)
  PROVE  StepOK
PROOF
  <1>1. /\ m \in Holders /\ m \notin Uuids /\ ManyReq[m].from \in Sockets
        /\ Len(ManyReq[m].keys) \in Nat
    BY RequestType, NameAssumption
  <1>2. out' \subseteq Frame
    BY <1>1, ReplyType, SilentType DEF AcquireMany, FrameKind
  <1>3. granting' \in GrantInHand \cup {None}
    BY <1>1, BeginType DEF AcquireMany, IInv, TypeOK
  <1>4. RestOK'
    BY <1>2, <1>3 DEF AcquireMany, RestOK, IInv, TypeOK, sockets
  <1>5. LockInHand'
    BY <1>1 DEF AcquireMany, Hears, Idle, Begin, LockInHand
  <1>. QED  BY <1>4, <1>5, SameLocks, CalmStep DEF AcquireMany, authority

LEMMA ReleaseManyStep ==
  ASSUME IInv, NEW m \in ManyIds, NEW ws \in Sockets, ReleaseMany(m, ws)
  PROVE  StepOK
PROOF
  <1>1. out' \subseteq Frame
    BY RequestType, ReplyType, SilentType DEF ReleaseMany, FrameKind
  <1>2. work' \subseteq Task
    BY RowTypes DEF ReleaseMany, IInv, TypeOK
  <1>3. RestOK'
    BY <1>1, <1>2 DEF ReleaseMany, RestOK, IInv, TypeOK, tables, sockets
  <1>. QED  BY <1>3, TableStep DEF ReleaseMany, authority

LEMMA LockReceivedStep ==
  ASSUME IInv, NEW k \in Keys, NEW ws \in Sockets, LockReceived(k, ws)
  PROVE  StepOK
PROOF
  <1>1. RestOK'
    BY SilentType DEF LockReceived, RestOK, IInv, TypeOK, sockets, stack
  <1>. QED  BY <1>1, TableStep DEF LockReceived, authority, stack

LEMMA LockClientTimeoutStep ==
  ASSUME IInv, NEW u \in Uuids, NEW ws \in Sockets, LockClientTimeout(u, ws)
  PROVE  StepOK
PROOF
  <1>. DEFINE k == Req[u].key
              l == [locks[k] EXCEPT !.notify = Without(locks[k].notify, u)]
  <1>1. k \in Keys /\ locks[k] # None /\ LocksOK(locks) /\ locks[k] \in HomeLock(k)
    BY RequestType, IInvLocks DEF LockClientTimeout, LocksOK
  <1>2. Without(locks[k].notify, u) \in HomeQueue(k)
    BY <1>1, WithoutHome DEF HomeLock
  <1>3. l \in HomeLock(k) /\ KeptAt(k, l)
    BY <1>1, <1>2, HomeNotify DEF KeptAt
  <1>4. locks' = [locks EXCEPT ![k] = l]
    BY DEF LockClientTimeout
  <1>. HIDE DEF l
  <1>5. LocksOK(locks') /\ Kept(locks', watermark')
    BY <1>1, <1>3, <1>4, UpdateKept
  <1>6. RestOK'
    BY SilentType DEF LockClientTimeout, RestOK, IInv, TypeOK, tables, sockets, stack
  <1>7. LockInHand'
    BY NothingInHand DEF LockClientTimeout, Hears, Idle, stack
  <1>. QED  BY <1>5, <1>6, <1>7, CalmStep DEF LockClientTimeout, authority

LEMMA LockReceivedRejectedStep ==
  ASSUME IInv, NEW u \in Uuids, NEW ws \in Sockets, LockReceivedRejected(u, ws)
  PROVE  StepOK
PROOF
  <1>1. /\ Req[u].key \in Keys /\ locks[Req[u].key] # None
        /\ EnsureNewLockHolder(Req[u].key, locks)
        /\ granting' = None /\ UNCHANGED authority /\ lastToken' = lastToken
    BY RequestType DEF LockReceivedRejected, Hears, Idle, authority
  <1>2. LocksOK(locks) /\ Kept(locks, watermark')
    BY IInvLocks, SameKept
  <1>3. drain' \in Keys \cup {None} => RestOK'
    BY SilentType DEF LockReceivedRejected, RestOK, IInv, TypeOK, sockets
  <1>. QED  BY <1>1, <1>2, <1>3, EnsureStep

LEMMA TickTtlStep ==
  ASSUME IInv, TickTtl
  PROVE  StepOK
PROOF
  <1>1. work' \subseteq Task
    BY DEF TickTtl, EvictRow, Task, Rows, IInv, TypeOK
  <1>2. RestOK'
    BY <1>1, SilentType DEF TickTtl, RestOK, IInv, TypeOK, tables, sockets
  <1>. QED  BY <1>2, TableStep DEF TickTtl, authority

LEMMA BreakConnectionStep ==
  ASSUME IInv, NEW ws \in Sockets, BreakConnection(ws)
  PROVE  StepOK
PROOF
  <1>1. RestOK'
    BY SilentType DEF BreakConnection, RestOK, IInv, TypeOK, tables, stack
  <1>. QED  BY <1>1, TableStep DEF BreakConnection, authority, stack

LEMMA CleanupConnectionStep ==
  ASSUME IInv, NEW ws \in Sockets, NEW last \in {"destroy", "mismatch"},
         CleanupConnection(ws, last)
  PROVE  StepOK
PROOF
  <1>1. work' \subseteq Task
    BY RowTypes DEF CleanupConnection
  <1>2. /\ timeouts' \in [Keys -> [id : Uuids, ws : Sockets] \cup {None}]
        /\ wsToKeys' \in [Sockets -> SUBSET Keys]
        /\ wsToUUIDs' \in [Sockets -> SUBSET Uuids]
    BY DEF CleanupConnection, IInv, TypeOK
  <1>3. RestOK'
    BY <1>1, <1>2, SilentType DEF CleanupConnection, RestOK, IInv, TypeOK
  <1>. QED  BY <1>3, TableStep DEF CleanupConnection, authority

-----------------------------------------------------------------------------
(* Grants.                                                                 *)

(* The grant in progress is one the invariant describes.                   *)
LEMMA GrantingType ==
  ASSUME IInv, granting # None
  PROVE  /\ granting \in GrantInHand
         /\ granting.id \in Holders /\ granting.ws \in Sockets
         /\ granting.pos \in Nat /\ granting.pos >= 1
         /\ granting.id \in Uuids => Req[granting.id].key \in Keys
                                     /\ locks[Req[granting.id].key] # None
         /\ GrantingMany /\ MoreKeys => ManyKey \in Keys
         /\ GrantingMany /\ MoreKeys =>
              \A i \in 1..(granting.pos - 1) : /\ ManyKeys[i] \in Keys
                                               /\ locks[ManyKeys[i]] # None
PROOF
  <1>1. granting \in GrantInHand
    BY DEF IInv, TypeOK
  <1>2. /\ granting.id \in Holders /\ granting.ws \in Sockets
        /\ granting.pos \in Nat /\ granting.pos >= 1
    BY <1>1 DEF GrantInHand
  <1>3. granting.id \in Uuids => Req[granting.id].key \in Keys
                                 /\ locks[Req[granting.id].key] # None
    BY RequestType DEF IInv, FenceInv, LockInHand, Present
  <1>4. ASSUME GrantingMany, MoreKeys
        PROVE  /\ ManyKey \in Keys
               /\ \A i \in 1..(granting.pos - 1) : /\ ManyKeys[i] \in Keys
                                                   /\ locks[ManyKeys[i]] # None
    BY <1>2, <1>4, RequestType
    DEF GrantingMany, MoreKeys, ManyKey, ManyKeys, IInv, FenceInv, LockInHand, Present
  <1>. QED  BY <1>1, <1>2, <1>3, <1>4

LEMMA GrantLockStep ==
  ASSUME IInv, GrantLock
  PROVE  StepOK
PROOF
  <1>. DEFINE u == granting.id
              k == Req[u].key
  <1>1. /\ u \in Uuids /\ u \in Holders /\ granting.ws \in Sockets
        /\ k \in Keys /\ locks[k] # None /\ Install(k, u, granting.ws)
    BY GrantingType DEF GrantLock, GrantingPlain
  <1>2. /\ LocksOK(locks')
        /\ \A j \in Keys : locks'[j] # None <=> locks[j] # None
        /\ watermark' \in 0..MaxToken /\ disk' \in 0..MaxToken
        /\ holderDeadlines' \subseteq Keys \X Holders
        /\ wsToKeys' \in [Sockets -> SUBSET Keys]
        /\ lastToken' \in [Keys -> 0..MaxToken]
        /\ NextToken(k) \in 0..MaxToken
    BY <1>1, InstallTypes
  <1>3. out' \subseteq Frame
    BY <1>1, <1>2, SendType DEF GrantLock, FrameKind
  <1>4. timeouts' \in [Keys -> [id : Uuids, ws : Sockets] \cup {None}]
    BY <1>1 DEF GrantLock, IInv, TypeOK
  <1>5. drain' = drain /\ granting' = None /\ drain \in Keys \cup {None}
    BY DEF GrantLock, IInv, TypeOK
  <1>6. LockInHand'
    BY <1>2, <1>5 DEF LockInHand, Present, IInv, FenceInv
  <1>7. FenceInv' /\ GrantIsNewer
    BY <1>1, <1>6, InstallStep
  <1>8. TypeOK'
    BY <1>2, <1>3, <1>4, <1>5 DEF GrantLock, TypeOK, IInv, LocksOK, sockets
  <1>9. EntriesTraced
    BY <1>1, InstallTraced DEF GrantLock, GrantingPlain
  <1>. QED  BY <1>7, <1>8, <1>9 DEF StepOK

LEMMA GrantLockFailsStep ==
  ASSUME IInv, GrantLockFails
  PROVE  StepOK
PROOF
  <1>. DEFINE k == Req[granting.id].key
  <1>1. /\ granting.id \in Uuids /\ granting.ws \in Sockets /\ k \in Keys
        /\ granting.id \in Holders /\ locks[k] # None /\ LocksOK(locks)
    BY GrantingType, IInvLocks DEF GrantLockFails, GrantingPlain
  <1>2. AdvanceFails(NextToken(k)) /\ NextToken(k) \in Nat
    BY <1>1, NumberAssumption DEF GrantLockFails, NextToken, LocksOK, HomeLock, LockObj
  <1>3. out' \subseteq Frame
    BY <1>1, ReplyType, SilentType DEF GrantLockFails, FrameKind
  <1>4. wsToKeys' \in [Sockets -> SUBSET Keys]
    BY <1>1 DEF GrantLockFails, IInv, TypeOK
  <1>5. RestOK'
    BY <1>3, <1>4 DEF GrantLockFails, RestOK, IInv, TypeOK, sockets
  <1>6. LockInHand'
    BY NothingInHand DEF GrantLockFails
  <1>. QED  BY <1>2, <1>5, <1>6, SameLocks, AdvanceFailsStep DEF GrantLockFails

LEMMA ManyCreatesLockStep ==
  ASSUME IInv, ManyCreatesLock
  PROVE  StepOK
PROOF
  <1>1. PICK now \in Clock :
          /\ Seed(now) <= MaxToken
          /\ Advance(Seed(now))
          /\ locks' = [locks EXCEPT ![ManyKey] = DefaultLockObject(Seed(now))]
    BY DEF ManyCreatesLock
  <1>2. ManyKey \in Keys /\ LocksOK(locks) /\ locks[ManyKey] = None
    BY GrantingType, IInvLocks DEF ManyCreatesLock, GrantingMany
  <1>3. Seed(now) \in 0..MaxToken /\ watermark <= Seed(now)
    BY <1>1, AuthorityAssumption, NumberAssumption DEF Seed, Larger, IInv, TypeOK
  <1>4. Seed(now) <= watermark'
    BY <1>1, <1>3, AdvanceOK
  <1>. DEFINE l == DefaultLockObject(Seed(now))
  <1>5. l \in HomeLock(ManyKey)
    BY <1>2, <1>3, DefaultLockObjectType
  <1>6. NewAt(l, watermark')
    BY <1>3, <1>4 DEF NewAt, DefaultLockObject
  <1>. HIDE DEF l
  <1>7. /\ LocksOK([locks EXCEPT ![ManyKey] = l])
        /\ Kept([locks EXCEPT ![ManyKey] = l], watermark')
        /\ \A j \in Keys : locks[j] # None => [locks EXCEPT ![ManyKey] = l][j] # None
    BY <1>2, <1>5, <1>6, UpdateKept
  <1>8. locks' = [locks EXCEPT ![ManyKey] = l]
    BY <1>1 DEF l
  <1>9. RestOK'
    BY SilentType DEF ManyCreatesLock, RestOK, IInv, TypeOK, tables, sockets, stack
  <1>10. LockInHand'
    <2>1. \A j \in Keys : locks[j] # None => locks'[j] # None
      BY <1>7, <1>8
    <2>2. drain \in Keys \cup {None}
      BY DEF IInv, TypeOK
    <2>. QED
      BY <2>1, <2>2, RequestType
      DEF ManyCreatesLock, stack, LockInHand, Present, IInv, FenceInv
  <1>. QED  BY <1>1, <1>3, <1>7, <1>8, <1>9, <1>10, AdvanceStep DEF ManyCreatesLock

LEMMA ManyGrantsKeyStep ==
  ASSUME IInv, ManyGrantsKey
  PROVE  StepOK
PROOF
  <1>. DEFINE m == granting.id
  <1>1. /\ m \in ManyIds /\ m \in Holders /\ granting.ws \in Sockets
        /\ ManyKey \in Keys /\ locks[ManyKey] # None
        /\ Install(ManyKey, m, granting.ws)
    BY GrantingType DEF ManyGrantsKey, GrantingMany
  <1>2. /\ LocksOK(locks')
        /\ \A j \in Keys : locks'[j] # None <=> locks[j] # None
        /\ watermark' \in 0..MaxToken /\ disk' \in 0..MaxToken
        /\ holderDeadlines' \subseteq Keys \X Holders
        /\ wsToKeys' \in [Sockets -> SUBSET Keys]
        /\ lastToken' \in [Keys -> 0..MaxToken]
    BY <1>1, InstallTypes
  <1>3. /\ granting' = [granting EXCEPT !.pos = granting.pos + 1]
        /\ granting \in GrantInHand
        /\ granting # None
    BY GrantingType DEF ManyGrantsKey, GrantingMany
  <1>4. /\ granting' \in GrantInHand
        /\ granting'.id = m /\ granting'.pos = granting.pos + 1
        /\ granting'.queued = granting.queued
    BY <1>3 DEF GrantInHand
  <1>5. drain' = drain /\ drain \in Keys \cup {None}
    BY DEF ManyGrantsKey, IInv, TypeOK
  <1>6. LockInHand'
    <2>1. drain # None => Present(drain)'
      BY <1>2, <1>5 DEF Present, LockInHand, IInv, FenceInv
    <2>2. ASSUME NEW i \in 1..Len(ManyReq[m].keys), i < granting'.pos
          PROVE  Present(ManyReq[m].keys[i])'
      <3>1. ManyReq[m].keys[i] \in Keys
        BY <1>1, RequestType
      <3>2. granting.pos \in Nat /\ i \in Nat
        BY <1>3 DEF GrantInHand
      <3>3. CASE i = granting.pos
        BY <1>1, <1>2, <1>4, <3>1, <3>3 DEF Present, ManyKey, ManyKeys
      <3>4. CASE i < granting.pos
        BY <1>1, <1>2, <1>3, <3>1, <3>4 DEF Present, LockInHand, IInv, FenceInv
      <3>. QED  BY <1>4, <2>2, <3>2, <3>3, <3>4
    <2>3. m \notin Uuids
      BY <1>1, NameAssumption
    <2>4. granting.queued <=> drain # None
      BY <1>3 DEF LockInHand, IInv, FenceInv
    <2>. QED  BY <1>4, <1>5, <2>1, <2>2, <2>3, <2>4 DEF LockInHand
  <1>7. FenceInv' /\ GrantIsNewer
    BY <1>1, <1>6, InstallStep
  <1>8. TypeOK'
    BY <1>2, <1>4, <1>5, SilentType DEF ManyGrantsKey, TypeOK, IInv, LocksOK, sockets
  <1>9. EntriesTraced
    BY <1>1, <1>3, InstallTraced
  <1>. QED  BY <1>7, <1>8, <1>9 DEF StepOK

(* Undoing an attempt only takes holds away.                               *)
LEMMA RolledBackOK ==
  ASSUME LocksOK(locks), NEW m \in Holders, NEW ks, NEW mark,
         \A j \in ks : locks[j] # None
  PROVE  /\ LocksOK(RolledBack(m, ks)) /\ Kept(RolledBack(m, ks), mark)
         /\ \A k \in Keys : RolledBack(m, ks)[k] # None <=> locks[k] # None
PROOF
  <1>. DEFINE R == RolledBack(m, ks)
              l(k) == [locks[k] EXCEPT !.lockholders =
                         [locks[k].lockholders EXCEPT ![m] = NoHold]]
  <1>1. \A k \in Keys : R[k] = IF k \in ks THEN l(k) ELSE locks[k]
    BY DEF RolledBack
  <1>2. ASSUME NEW k \in Keys, k \in ks
        PROVE  l(k) \in HomeLock(k) /\ KeptAt(k, l(k)) /\ l(k) # None
    <2>1. locks[k] # None /\ locks[k] \in HomeLock(k)
      BY <1>2 DEF LocksOK
    <2>2. NoHold \in Hold
      BY NumberAssumption DEF NoHold, Hold
    <2>3. l(k) \in HomeLock(k)
      BY <2>1, <2>2 DEF HomeLock, LockObj
    <2>4. KeptAt(k, l(k))
      BY <2>1 DEF KeptAt, HomeLock, LockObj
    <2>. QED  BY <2>3, <2>4, NullAssumption DEF HomeLock
  <1>3. \A k \in Keys : locks[k] # None => KeptAt(k, locks[k])
    BY DEF KeptAt
  <1>4. R = [k \in Keys |-> R[k]]
    BY DEF RolledBack
  <1>. HIDE DEF R, l
  <1>5. \A k \in Keys : R[k] # None <=> locks[k] # None
    BY <1>1, <1>2
  <1>6. LocksOK(R)
    BY <1>1, <1>2, <1>4 DEF LocksOK, HomeLock
  <1>7. Kept(R, mark)
    BY <1>1, <1>2, <1>3 DEF Kept
  <1>. QED  BY <1>5, <1>6, <1>7 DEF R

LEMMA ManyIsContendedStep ==
  ASSUME IInv, ManyIsContended
  PROVE  StepOK
PROOF
  <1>. DEFINE m == granting.id
              w == [id |-> m, ws |-> granting.ws]
              R == RolledBack(m, WalkedSoFar)
  <1>1. /\ m \in ManyIds /\ m \in Holders /\ m \notin Uuids /\ granting.ws \in Sockets
        /\ ManyKey \in Keys /\ locks[ManyKey] # None /\ LocksOK(locks)
        /\ \A j \in WalkedSoFar : j \in Keys /\ locks[j] # None
    BY GrantingType, IInvLocks, NameAssumption DEF ManyIsContended, GrantingMany, WalkedSoFar
  <1>2. /\ LocksOK(R) /\ Kept(R, watermark')
        /\ \A k \in Keys : R[k] # None <=> locks[k] # None
    BY <1>1, RolledBackOK
  <1>3. locks' \in {R, [R EXCEPT ![ManyKey].notify = Rejoin(R[ManyKey].notify, w)]}
    BY DEF ManyIsContended
  <1>. HIDE DEF R
  <1>. DEFINE q == Rejoin(R[ManyKey].notify, w)
              l == [R[ManyKey] EXCEPT !.notify = q]
  <1>4. R[ManyKey] \in HomeLock(ManyKey) /\ R[ManyKey].notify \in HomeQueue(ManyKey)
    BY <1>1, <1>2 DEF LocksOK, HomeLock
  <1>5. q \in HomeQueue(ManyKey)
    <2>1. w \in Waiter /\ w.id \notin Uuids
      BY <1>1 DEF Waiter
    <2>. QED  BY <1>1, <1>4, <2>1, AppendHome DEF Rejoin
  <1>6. /\ l \in HomeLock(ManyKey)
        /\ l.nextFencingToken = R[ManyKey].nextFencingToken
        /\ l.lockholders = R[ManyKey].lockholders
    BY <1>1, <1>4, <1>5, HomeNotify
  <1>7. [R EXCEPT ![ManyKey].notify = q] = [R EXCEPT ![ManyKey] = l]
    OBVIOUS
  <1>. HIDE DEF l
  <1>8. /\ LocksOK([R EXCEPT ![ManyKey] = l]) /\ Kept([R EXCEPT ![ManyKey] = l], watermark')
        /\ [R EXCEPT ![ManyKey] = l][ManyKey] # None
    BY <1>1, <1>2, <1>6, UpdateAgain
  <1>9. \A j \in Keys : j # ManyKey => [R EXCEPT ![ManyKey] = l][j] = R[j]
    BY <1>2 DEF LocksOK
  <1>10. /\ LocksOK(locks') /\ Kept(locks', watermark')
         /\ \A k \in Keys : locks[k] # None => locks'[k] # None
    BY <1>2, <1>3, <1>7, <1>8, <1>9
  <1>11. out' \subseteq Frame
    BY <1>1, ReplyType, SilentType DEF ManyIsContended, FrameKind
  <1>12. RestOK'
    BY <1>11 DEF ManyIsContended, RestOK, IInv, TypeOK, sockets
  <1>13. LockInHand'
    BY <1>10 DEF ManyIsContended, LockInHand, Present, IInv, FenceInv, TypeOK
  <1>. QED  BY <1>10, <1>12, <1>13, CalmStep DEF ManyIsContended, authority

LEMMA ManyRegistersStep ==
  ASSUME IInv, ManyRegisters
  PROVE  StepOK
PROOF
  <1>1. granting.id \in ManyIds /\ granting.id \in Holders /\ granting.ws \in Sockets
    BY GrantingType DEF ManyRegisters, GrantingMany
  <1>2. out' \subseteq Frame
    BY <1>1, ReplyType DEF ManyRegisters, FrameKind
  <1>3. RestOK'
    BY <1>1, <1>2 DEF ManyRegisters, RestOK, IInv, TypeOK, sockets
  <1>4. LockInHand'
    BY DEF ManyRegisters, LockInHand, Present, IInv, FenceInv
  <1>. QED  BY <1>3, <1>4, SameLocks, CalmStep DEF ManyRegisters, authority

LEMMA ManyFailsStep ==
  ASSUME IInv, ManyFails
  PROVE  StepOK
PROOF
  <1>1. /\ granting.id \in ManyIds /\ granting.id \in Holders /\ granting.ws \in Sockets
        /\ ManyKey \in Keys /\ LocksOK(locks)
    BY GrantingType, IInvLocks DEF ManyFails, GrantingMany
  <1>2. out' \subseteq Frame
    BY <1>1, ReplyType, SilentType DEF ManyFails, FrameKind
  <1>3. RestOK'
    BY <1>2 DEF ManyFails, RestOK, IInv, TypeOK, tables, sockets
  <1>4. LockInHand' /\ lastToken' = lastToken
    BY NothingInHand DEF ManyFails
  <1>5. CASE locks[ManyKey] = None
    <2>1. PICK now \in Clock : AdvanceFails(Seed(now)) /\ locks' = locks
      BY <1>5 DEF ManyFails
    <2>2. Seed(now) \in Nat
      BY AuthorityAssumption, NumberAssumption DEF Seed, Larger, IInv, TypeOK
    <2>. QED  BY <1>3, <1>4, <2>1, <2>2, SameLocks, AdvanceFailsStep
  <1>6. CASE locks[ManyKey] # None
    <2>. DEFINE l == [locks[ManyKey] EXCEPT !.emptied = FALSE]
    <2>1. AdvanceFails(NextToken(ManyKey)) /\ locks' = [locks EXCEPT ![ManyKey] = l]
      BY <1>6 DEF ManyFails
    <2>2. locks[ManyKey] \in HomeLock(ManyKey)
      BY <1>1, <1>6 DEF LocksOK
    <2>3. NextToken(ManyKey) \in Nat
      BY <2>2, NumberAssumption DEF NextToken, HomeLock, LockObj
    <2>4. l \in HomeLock(ManyKey) /\ KeptAt(ManyKey, l)
      BY <1>6, <2>2 DEF HomeLock, LockObj, KeptAt
    <2>. HIDE DEF l
    <2>5. LocksOK(locks') /\ Kept(locks', watermark')
      BY <1>1, <2>1, <2>4, UpdateKept
    <2>. QED  BY <1>3, <1>4, <2>1, <2>3, <2>5, AdvanceFailsStep
  <1>. QED  BY <1>5, <1>6

-----------------------------------------------------------------------------
(* The drain loop.                                                         *)

LEMMA DrainStopsStep ==
  ASSUME IInv, NEW k \in Keys, DrainStops(k)
  PROVE  StepOK
PROOF
  <1>1. RestOK'
    BY SilentType DEF DrainStops, RestOK, IInv, TypeOK, tables, sockets
  <1>2. LockInHand'
    BY NothingInHand DEF DrainStops, Draining
  <1>. QED  BY <1>1, <1>2, SameLocks, CalmStep DEF DrainStops, authority

LEMMA DequeueWaiterStep ==
  ASSUME IInv, NEW k \in Keys, DequeueWaiter(k)
  PROVE  StepOK
PROOF
  <1>. DEFINE q == locks[k].notify
  <1>1. PICK i \in 1..Len(q) :
          /\ locks' = [locks EXCEPT ![k].notify = AfterFirst(i, q)]
          /\ granting' = [id |-> q[i].id, ws |-> q[i].ws, pos |-> 1, queued |-> TRUE]
    BY DEF DequeueWaiter
  <1>2. /\ locks[k] # None /\ LocksOK(locks) /\ locks[k] \in HomeLock(k)
        /\ drain = k /\ k # None /\ drain' = drain
    BY IInvLocks DEF DequeueWaiter, Draining, IInv, FenceInv, LockInHand, Present, LocksOK
  <1>3. /\ q \in HomeQueue(k) /\ i \in Nat
        /\ q[i].id \in Holders /\ q[i].ws \in Sockets
        /\ q[i].id \in Uuids => Req[q[i].id].key = k
    BY <1>2, HomeQueueElim DEF HomeLock, Waiter
  <1>. DEFINE l == [locks[k] EXCEPT !.notify = AfterFirst(i, q)]
  <1>4. AfterFirst(i, q) \in HomeQueue(k)
    BY <1>3, AfterFirstHome
  <1>5. l \in HomeLock(k) /\ KeptAt(k, l)
    BY <1>2, <1>4, HomeNotify DEF KeptAt
  <1>6. locks' = [locks EXCEPT ![k] = l]
    BY <1>1
  <1>. HIDE DEF l
  <1>7. LocksOK(locks') /\ Kept(locks', watermark') /\ locks'[k] # None
    BY <1>2, <1>5, <1>6, UpdateKept
  <1>8. RestOK'
    BY <1>1, <1>3, SilentType
    DEF GrantInHand, DequeueWaiter, RestOK, IInv, TypeOK, tables, sockets
  <1>9. LockInHand'
    BY <1>1, <1>2, <1>3, <1>7 DEF LockInHand, Present
  <1>. QED  BY <1>7, <1>8, <1>9, CalmStep DEF DequeueWaiter, authority

-----------------------------------------------------------------------------
(* The rows of a running handler.                                          *)

(* What the type of the work list says of one row.                         *)
LEMMA TaskType ==
  ASSUME IInv, NEW t \in work
  PROVE  /\ t \in Task
         /\ t.op \in {"evict", "member", "visit", "scrub", "forced"} => t.key \in Keys
         /\ t.op \in {"registry", "visit", "forced", "destroy", "mismatch"} => t.ws \in Sockets
         /\ t.op = "visit" => t.ids \in SUBSET Uuids
         /\ t.op = "registry" => t.ids \in SUBSET ManyIds
         /\ t.op \in {"evict", "member", "forced"} => t.ids \in SUBSET Holders
PROOF
  <1>1. t \in Task
    BY DEF IInv, TypeOK
  <1>. QED  BY <1>1 DEF Task, Rows, Holders

(* A row of the handler is visited with nothing else in hand.              *)
LEMMA TurnIdle ==
  ASSUME NEW t, Turn(t)
  PROVE  drain = None /\ granting = None
PROOF
  BY DEF Turn

LEMMA EvictStep ==
  ASSUME IInv, NEW t \in work, Evict(t)
  PROVE  StepOK
PROOF
  <1>. DEFINE S == t.ids \cap HoldersOf(locks[t.key])
  <1>1. /\ t.key \in Keys /\ S \in SUBSET Holders /\ granting' = None
        /\ lastToken' = lastToken /\ UNCHANGED authority /\ drain = None
    BY TaskType, TurnIdle DEF Evict, authority
  <1>2. drain' \in Keys \cup {None} => RestOK'
    BY SilentType DEF Evict, RestOK, IInv, TypeOK, sockets
  <1>3. CASE UNCHANGED <<locks, drain>>
    BY <1>1, <1>2, <1>3, TableStep, TurnIdle DEF Evict
  <1>4. CASE locks[t.key] # None /\ EnsureNewLockHolder(t.key, Released(t.key, S, S))
    BY <1>1, <1>2, <1>4, ReleaseStep
  <1>. QED  BY <1>3, <1>4 DEF Evict

LEMMA ReleaseMemberStep ==
  ASSUME IInv, NEW t \in work, ReleaseMember(t)
  PROVE  StepOK
PROOF
  <1>. DEFINE S == t.ids
              R == t.ids \cap HoldersOf(locks[t.key])
  <1>1. /\ t.key \in Keys /\ R \in SUBSET Holders /\ granting' = None
        /\ lastToken' = lastToken /\ UNCHANGED authority /\ drain = None
    BY TaskType, TurnIdle DEF ReleaseMember, authority
  <1>2. drain' \in Keys \cup {None} => RestOK'
    BY SilentType DEF ReleaseMember, RestOK, IInv, TypeOK, sockets
  <1>3. CASE UNCHANGED <<locks, drain, holderDeadlines>>
    BY <1>1, <1>2, <1>3, TableStep, TurnIdle DEF ReleaseMember
  <1>4. CASE locks[t.key] # None /\ EnsureNewLockHolder(t.key, Released(t.key, S, R))
    BY <1>1, <1>2, <1>4, ReleaseStep
  <1>. QED  BY <1>3, <1>4 DEF ReleaseMember

LEMMA ForgetCompositeStep ==
  ASSUME IInv, NEW t \in work, ForgetComposite(t)
  PROVE  StepOK
PROOF
  <1>1. \A m \in t.ids : Send(t.ws, "released", m, 0) \subseteq Frame
    <2>1. t.ws \in Sockets /\ t.ids \subseteq Holders /\ 0 \in 0..MaxToken
      BY TaskType, NumberAssumption DEF ForgetComposite, Holders
    <2>. QED  BY <2>1, SendType DEF FrameKind
  <1>2. RestOK'
    BY <1>1 DEF ForgetComposite, RestOK, IInv, TypeOK, sockets
  <1>. QED  BY <1>2, TableStep, TurnIdle DEF ForgetComposite, authority

LEMMA VisitKeyStep ==
  ASSUME IInv, NEW t \in work, VisitKey(t)
  PROVE  StepOK
PROOF
  <1>1. t.key \in Keys /\ t.ids \in SUBSET Uuids /\ t.ws \in Sockets
    BY TaskType DEF VisitKey, CleaningUp
  <1>2. \A u \in t.ids : ScrubRow(t.key, u) \in Task
    BY <1>1 DEF ScrubRow, Task, Rows
  <1>3. \A h \in Holders : ForcedRow(t.key, h, t.ws) \in Task
    BY <1>1 DEF ForcedRow, Task, Rows
  <1>4. work' \subseteq Task
    BY <1>2, <1>3 DEF VisitKey, HoldersOf, IInv, TypeOK
  <1>5. RestOK'
    BY <1>4, SilentType DEF VisitKey, CleaningUp, RestOK, IInv, TypeOK
  <1>. QED  BY <1>5, TableStep DEF VisitKey, CleaningUp, authority

LEMMA VisitAbsentKeyStep ==
  ASSUME IInv, NEW t \in work, VisitAbsentKey(t)
  PROVE  StepOK
PROOF
  <1>1. RestOK'
    BY SilentType DEF VisitAbsentKey, CleaningUp, RestOK, IInv, TypeOK
  <1>. QED  BY <1>1, TableStep DEF VisitAbsentKey, CleaningUp, authority

LEMMA ScrubWaiterStep ==
  ASSUME IInv, NEW t \in work, ScrubWaiter(t)
  PROVE  StepOK
PROOF
  <1>. DEFINE k == t.key
              u == CHOOSE v \in t.ids : TRUE
              l == [locks[k] EXCEPT !.notify = Without(locks[k].notify, u)]
  <1>1. k \in Keys /\ LocksOK(locks)
    BY TaskType, IInvLocks DEF ScrubWaiter, CleaningUp
  <1>2. RestOK'
    BY SilentType DEF ScrubWaiter, CleaningUp, RestOK, IInv, TypeOK
  <1>3. LockInHand'
    BY NothingInHand DEF ScrubWaiter, CleaningUp, Turn
  <1>4. LocksOK(locks') /\ Kept(locks', watermark')
    <2>1. CASE locks[k] = None
      <3>1. locks' = locks
        BY <1>1, <2>1 DEF ScrubWaiter, LocksOK
      <3>. QED  BY <3>1, SameLocks
    <2>2. CASE locks[k] # None
      <3>1. locks[k] \in HomeLock(k)
        BY <1>1, <2>2 DEF LocksOK
      <3>2. Without(locks[k].notify, u) \in HomeQueue(k)
        BY <1>1, <3>1, WithoutHome DEF HomeLock
      <3>3. l \in HomeLock(k) /\ KeptAt(k, l)
        BY <1>1, <2>2, <3>1, <3>2, HomeNotify DEF KeptAt
      <3>4. locks' = [locks EXCEPT ![k] = l]
        <4>1. locks' = [j \in Keys |-> IF j = k THEN l ELSE locks[j]]
          BY <2>2 DEF ScrubWaiter
        <4>. HIDE DEF l
        <4>. QED  BY <1>1, <4>1 DEF LocksOK
      <3>. HIDE DEF l
      <3>. QED  BY <1>1, <3>3, <3>4, UpdateKept
    <2>. QED  BY <2>1, <2>2
  <1>. QED  BY <1>2, <1>3, <1>4, CalmStep DEF ScrubWaiter, CleaningUp, authority

LEMMA ForcedUnlockStep ==
  ASSUME IInv, NEW t \in work, ForcedUnlock(t)
  PROVE  StepOK
PROOF
  <1>. DEFINE S == t.ids \cap HoldersOf(locks[t.key])
  <1>1. /\ t.key \in Keys /\ S \in SUBSET Holders /\ granting' = None
        /\ lastToken' = lastToken /\ UNCHANGED authority /\ drain = None
    BY TaskType, TurnIdle DEF ForcedUnlock, CleaningUp, authority
  <1>2. /\ wsToKeys' \in [Sockets -> SUBSET Keys]
        /\ wsToUUIDs' \in [Sockets -> SUBSET Uuids]
    BY DEF ForcedUnlock, IInv, TypeOK
  <1>3. drain' \in Keys \cup {None} => RestOK'
    BY <1>2, SilentType DEF ForcedUnlock, CleaningUp, RestOK, IInv, TypeOK
  <1>4. CASE UNCHANGED <<locks, drain>>
    BY <1>1, <1>3, <1>4, TableStep DEF ForcedUnlock, CleaningUp
  <1>5. CASE locks[t.key] # None /\ EnsureNewLockHolder(t.key, Released(t.key, S, S))
    BY <1>1, <1>3, <1>5, ReleaseStep
  <1>. QED  BY <1>4, <1>5 DEF ForcedUnlock

LEMMA EndCleanupStep ==
  ASSUME IInv, NEW t \in work, EndCleanup(t)
  PROVE  StepOK
PROOF
  <1>1. t.ws \in Sockets
    BY TaskType DEF EndCleanup, CleaningUp
  <1>2. out' \subseteq Frame
    BY <1>1, ReplyType, SilentType DEF EndCleanup, FrameKind
  <1>3. RestOK'
    BY <1>2 DEF EndCleanup, CleaningUp, RestOK, IInv, TypeOK
  <1>. QED  BY <1>3, TableStep DEF EndCleanup, CleaningUp, authority

-----------------------------------------------------------------------------
(* The re-election timer.                                                  *)

LEMMA ReelectionStep ==
  ASSUME IInv, NEW k \in Keys, Reelection(k)
  PROVE  StepOK
PROOF
  <1>1. /\ LocksOK(locks) /\ UNCHANGED authority /\ lastToken' = lastToken
        /\ timeouts[k].id \in Uuids /\ timeouts[k].ws \in Sockets
    BY IInvLocks DEF Reelection, authority, IInv, TypeOK
  <1>2. LockInHand'
    BY NothingInHand DEF Reelection, Idle, stack
  <1>3. /\ timeouts' \in [Keys -> [id : Uuids, ws : Sockets] \cup {None}]
        /\ wsToKeys' \in [Sockets -> SUBSET Keys]
    BY <1>1 DEF Reelection, IInv, TypeOK
  <1>4. out' \subseteq Frame => RestOK'
    BY <1>3 DEF Reelection, RestOK, IInv, TypeOK, sockets, stack
  <1>5. CASE locks[k] = None
    BY <1>1, <1>2, <1>4, <1>5, SilentType, SameLocks, CalmStep DEF Reelection
  <1>6. CASE locks[k] # None
    <2>. DEFINE u == timeouts[k].id
                q == locks[k].notify
                twice == Holding(locks[k], u) /\ u \notin rejected /\ ~Queued(q, u)
                n == IF twice THEN 2 * Batch ELSE Batch
    <2>1. /\ n \in Nat
          /\ locks' = [locks EXCEPT ![k].lockholders[u] = NoHold,
                                    ![k].notify = AfterFirst(n, q)]
          /\ out' = UNION {Send(q[i].ws, "reelection", q[i].id, 0) :
                           i \in {j \in 1..Len(q) : j <= n}}
      BY <1>6, NumberAssumption DEF Reelection
    <2>. HIDE DEF n
    <2>2. locks[k] \in HomeLock(k) /\ q \in HomeQueue(k)
      BY <1>1, <1>6 DEF LocksOK, HomeLock
    <2>3. AfterFirst(n, q) \in HomeQueue(k)
      BY <2>1, <2>2, AfterFirstHome
    <2>. DEFINE e == [locks[k] EXCEPT !.lockholders =
                        [locks[k].lockholders EXCEPT ![u] = NoHold]]
                l == [e EXCEPT !.notify = AfterFirst(n, q)]
    <2>4. e \in HomeLock(k) /\ KeptAt(k, e)
      <3>1. NoHold \in Hold /\ u \in Holders
        BY <1>1, NumberAssumption DEF NoHold, Hold, Holders
      <3>2. locks[k].lockholders \in [Holders -> Hold]
        BY <2>2 DEF HomeLock, LockObj
      <3>3. e \in HomeLock(k)
        BY <2>2, <3>1, <3>2 DEF HomeLock, LockObj
      <3>4. KeptAt(k, e)
        BY <1>6, <2>2, <3>1, <3>2 DEF HomeLock, LockObj, KeptAt
      <3>. QED  BY <3>3, <3>4
    <2>5. locks' = [locks EXCEPT ![k] = l]
      BY <2>1
    <2>. HIDE DEF e
    <2>6. l \in HomeLock(k) /\ KeptAt(k, l)
      BY <2>3, <2>4, HomeNotify DEF KeptAt
    <2>. HIDE DEF l
    <2>7. LocksOK(locks') /\ Kept(locks', watermark')
      BY <1>1, <2>5, <2>6, UpdateKept
    <2>8. \A i \in 1..Len(q) : Send(q[i].ws, "reelection", q[i].id, 0) \subseteq Frame
      <3>1. \A i \in 1..Len(q) : q[i].ws \in Sockets /\ q[i].id \in Holders
        BY <2>2, HomeQueueElim DEF Waiter
      <3>2. 0 \in 0..MaxToken
        BY NumberAssumption
      <3>. QED  BY <3>1, <3>2, SendType DEF FrameKind
    <2>9. out' \subseteq Frame
      BY <2>1, <2>8
    <2>. QED  BY <1>1, <1>2, <1>4, <2>7, <2>9, CalmStep
  <1>. QED  BY <1>5, <1>6

-----------------------------------------------------------------------------
(* The theorems.                                                           *)

LEMMA InitIInv == Init => IInv
PROOF
  <1>. SUFFICES ASSUME Init  PROVE IInv
    OBVIOUS
  <1>1. /\ Floor \in 0..MaxToken /\ MaxToken \in Nat
    BY AuthorityAssumption, NumberAssumption
  <1>2. TypeOK
    BY <1>1 DEF Init, TypeOK
  <1>3. \A k \in Keys : ~Present(k)
    BY DEF Init, Present
  <1>4. CounterInOrder /\ TokensDistinct /\ WaitersAtHome
    BY <1>1, <1>3 DEF Init, CounterInOrder, TokensDistinct, WaitersAtHome
  <1>5. DiskCovers /\ LockInHand
    BY <1>1 DEF Init, DiskCovers, Larger, LockInHand
  <1>. QED  BY <1>2, <1>4, <1>5 DEF IInv, FenceInv

(* A step of the broker preserves IInv, and grants only newer tokens.      *)
LEMMA NextStep ==
  ASSUME IInv, Next
  PROVE  StepOK
PROOF
  <1>1. CASE LockFrame
    BY <1>1, LockRefusedStep, LockOnNewKeyStep, LockOnNewKeyFailsStep, LockOnFreeKeyStep,
       LockOnFullKeyStep
    DEF LockFrame
  <1>2. CASE UnlockFrame
    BY <1>2, UnlockEveryoneStep, UnlockUnknownKeyStep, UnlockHolderStep, UnlockLateStep,
       UnlockRejectedStep
    DEF UnlockFrame, CallsOn
  <1>3. CASE ManyFrame
    BY <1>3, AcquireManyStep, ReleaseManyStep DEF ManyFrame
  <1>4. CASE OtherFrame
    BY <1>4, LockReceivedStep, LockClientTimeoutStep, LockReceivedRejectedStep DEF OtherFrame
  <1>5. CASE TickTtl
    BY <1>5, TickTtlStep
  <1>6. CASE Connections
    BY <1>6, BreakConnectionStep, CleanupConnectionStep
    DEF Connections, SocketEnds, VersionMismatch
  <1>7. CASE Granting
    BY <1>7, GrantLockStep, GrantLockFailsStep, ManyCreatesLockStep, ManyGrantsKeyStep,
       ManyIsContendedStep, ManyRegistersStep, ManyFailsStep
    DEF Granting
  <1>8. CASE Drain
    BY <1>8, DrainStopsStep, DequeueWaiterStep DEF Drain
  <1>9. CASE WorkStep
    BY <1>9, EvictStep, ReleaseMemberStep, ForgetCompositeStep, VisitKeyStep,
       VisitAbsentKeyStep, ScrubWaiterStep, ForcedUnlockStep, EndCleanupStep
    DEF WorkStep
  <1>10. CASE Reelections
    BY <1>10, ReelectionStep DEF Reelections
  <1>11. CASE Restart
    <2>1. EntriesTraced
      BY <1>11 DEF Restart, EntriesTraced
    <2>. QED  BY <1>11, <2>1, RestartStep DEF StepOK
  <1>. QED
    BY <1>1, <1>2, <1>3, <1>4, <1>5, <1>6, <1>7, <1>8, <1>9, <1>10, <1>11
    DEF Next, CalmNext, Frames, Internal

LEMMA StutterIInv ==
  ASSUME IInv, UNCHANGED vars
  PROVE  IInv'
PROOF
  <1>1. TypeOK'
    BY DEF vars, tables, sockets, authority, stack, TypeOK, IInv
  <1>2. CounterInOrder' /\ DiskCovers' /\ TokensDistinct' /\ LockInHand' /\ WaitersAtHome'
    BY DEF vars, tables, sockets, authority, stack, IInv, FenceInv, CounterInOrder, DiskCovers,
           TokensDistinct, LockInHand, WaitersAtHome, Present, Token
  <1>. QED  BY <1>1, <1>2 DEF IInv, FenceInv

LEMMA Inductive == IInv /\ [Next]_vars => IInv'
PROOF
  BY NextStep, StutterIInv DEF StepOK, IInv

(* The inductive invariant holds for every number of keys, calls, sockets  *)
(* and tokens, whatever the clock and the disk do.                         *)
THEOREM Invariance == Spec => []IInv
PROOF
  <1>. QED  BY InitIInv, Inductive, PTL DEF Spec

(* Every variable keeps its type.                                          *)
THEOREM TypeCorrect == Spec => []TypeOK
PROOF
  <1>1. IInv => TypeOK
    BY DEF IInv
  <1>. QED  BY <1>1, Invariance, PTL

(* Counters, watermark and file stay in order, and no two holders of a key *)
(* share a token.                                                          *)
THEOREM FenceInvariant == Spec => []FenceInv
PROOF
  <1>1. IInv => FenceInv
    BY DEF IInv
  <1>. QED  BY <1>1, Invariance, PTL

(* A grant carries a token above every token granted before on its key,    *)
(* across garbage collection, clock changes, disk faults and restarts.     *)
THEOREM FencingIsMonotone == Spec => FencingMonotone
PROOF
  <1>1. IInv /\ [Next]_vars => [GrantIsNewer]_vars
    BY NextStep DEF StepOK
  <1>. QED  BY <1>1, Invariance, PTL DEF Spec, FencingMonotone
=============================================================================
