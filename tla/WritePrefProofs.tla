--------------------------- MODULE WritePrefProofs ---------------------------
(***************************************************************************)
(* Readers and writers: CountCovers and FlagOwned.                         *)
(*                                                                         *)
(* The reader count lives in the lock object, which is dropped when nobody *)
(* holds it or waits for it.  So the count covers the readers inside only  *)
(* because each of them holds the base lock meanwhile; and it must be      *)
(* known of everybody else what they wait for, because a grant or a        *)
(* broadcast moves them on.                                                *)
(***************************************************************************)
EXTENDS WritePref, LockObjectProofs

\* Who has been granted the base lock and has not returned it.
Based(p) == \/ pc[p] \in {"counting", "reading", "uncounting", "registering", "writing",
                          "unlocking"}
            \/ pc[p] = "listed" /\ p \in Writers

Inside == {p \in Readers : pc[p] \in {"reading", "uncounting"}}

StagesOK ==
  /\ pc \in [Uuids -> Stage]
  /\ \A p \in Uuids :
       /\ pc[p] \in {"checking", "counting", "reading", "uncounting"} => p \in Readers
       /\ pc[p] \in {"registering", "writing", "clearing"} => p \in Writers

TableOK == lock \in TidyLock(Key) \cup {None} /\ IsFiniteSet(HeldIn(lock))

\* The places where a process waits say so in its pc.
BasesHeld     == \A p \in Uuids : Based(p) => p \in HeldIn(lock)
QueueWaits    == \A h \in IdsIn(lock) : h \in Uuids /\ pc[h] = "queued"
ListenersWait == /\ listeners \subseteq Listener /\ IsFiniteSet(listeners)
                 /\ \A x \in listeners : pc[x.id] \in {"listed", "dead"}

Counted == IsFiniteSet(Inside) /\ (lock # None => lock.readers >= Cardinality(Inside))

RWInv == StagesOK /\ TableOK /\ BasesHeld /\ QueueWaits /\ ListenersWait /\ Counted

-----------------------------------------------------------------------------
(* Steps of one process.                                                   *)

(* p moves to s, and the table keeps its holders and its queue.            *)
LEMMA OneGoes ==
  ASSUME RWInv, NEW p \in Uuids, pc[p] \notin {"queued", "listed", "dead"},
         NEW s \in Stage, s \notin {"queued", "dead"}, Goes(p, s), StagesOK',
         TableOK', HeldIn(lock') = HeldIn(lock), IdsIn(lock') = IdsIn(lock),
         Based(p)' => p \in HeldIn(lock),
         \/ listeners' = listeners
         \/ s = "listed" /\ listeners' = listeners \cup {[id |-> p, bound |-> TRUE]},
         Counted'
  PROVE  RWInv'
PROOF
  <1>1. \A q \in Uuids : pc'[q] = IF q = p THEN s ELSE pc[q]
    BY DEF RWInv, StagesOK, Goes
  <1>2. BasesHeld'
    BY <1>1 DEF RWInv, BasesHeld, Based
  <1>3. QueueWaits'
    BY <1>1 DEF RWInv, QueueWaits
  <1>4. ListenersWait'
    <2>1. IsFiniteSet(listeners')
      <3>1. IsFiniteSet(listeners)
        BY DEF RWInv, ListenersWait
      <3>2. \A x : IsFiniteSet(listeners \cup {x})
        BY <3>1, FS_AddElement
      <3>. QED  BY <3>1, <3>2
    <2>2. listeners' \subseteq Listener
      <3>1. [id |-> p, bound |-> TRUE] \in Listener
        BY DEF Listener
      <3>. QED  BY <3>1 DEF RWInv, ListenersWait
    <2>3. \A x \in listeners' : x.id \in Uuids /\ pc'[x.id] \in {"listed", "dead"}
      BY <1>1 DEF RWInv, ListenersWait, Listener
    <2>. QED  BY <2>1, <2>2, <2>3 DEF ListenersWait
  <1>. QED  BY <1>2, <1>3, <1>4 DEF RWInv

(* Whoever is inside holds the base lock, so the lock object is there.     *)
LEMMA InsideHolds ==
  ASSUME RWInv
  PROVE  /\ Cardinality(Inside) \in Nat /\ Inside \subseteq Uuids
         /\ Inside # {} => lock # None
         /\ Object(lock).readers \in Nat
         /\ Object(lock).readers >= Cardinality(Inside)
PROOF
  <1>1. IsFiniteSet(Inside) /\ Cardinality(Inside) \in Nat /\ Inside \subseteq Uuids
    BY FS_CardinalityType DEF RWInv, Counted, Inside, Readers
  <1>2. ASSUME Inside # {}
        PROVE  lock # None
    <2>1. PICK p \in Uuids : Based(p)
      BY <1>2 DEF Inside, Readers, Based
    <2>. QED  BY <2>1 DEF RWInv, BasesHeld, HeldIn
  <1>3. Object(lock).readers \in Nat
    <2>1. Object(lock) \in LockObj
      BY ObjectHolds, TidyElim, WritePrefAssumption DEF RWInv, TableOK
    <2>. QED  BY <2>1 DEF LockObj
  <1>4. Object(lock).readers >= Cardinality(Inside)
    <2>1. CASE lock # None
      BY <2>1 DEF RWInv, Counted, Object
    <2>2. CASE lock = None
      <3>1. Cardinality(Inside) = 0
        BY <1>2, <2>2, FS_EmptySet
      <3>. QED  BY <1>3, <3>1
    <2>. QED  BY <2>1, <2>2
  <1>. QED  BY <1>1, <1>2, <1>3, <1>4

(* The count is as good as before when nobody comes in.                    *)
LEMMA StillCounted ==
  ASSUME RWInv, Inside' \subseteq Inside,
         lock' # None => lock'.readers \in Nat /\ lock'.readers >= Object(lock).readers
  PROVE  Counted'
PROOF
  <1>1. IsFiniteSet(Inside') /\ Cardinality(Inside') <= Cardinality(Inside)
    BY FS_Subset DEF RWInv, Counted
  <1>2. Cardinality(Inside') \in Nat
    BY <1>1, FS_CardinalityType
  <1>. QED  BY <1>1, <1>2, InsideHolds DEF Counted

LEMMA UserSteps ==
  ASSUME RWInv, NEW p \in Uuids, Acquire(p) \/ Release(p)
  PROVE  RWInv'
PROOF
  <1>1. PICK s \in {"checking", "locking", "uncounting", "unlocking"} :
          /\ Goes(p, s) /\ lock' = lock /\ listeners' = listeners
          /\ \/ pc[p] = "idle" /\ s = "checking" /\ p \in Readers
             \/ pc[p] = "idle" /\ s = "locking"
             \/ pc[p] = "reading" /\ s = "uncounting"
             \/ pc[p] = "writing" /\ s = "unlocking"
    BY DEF Acquire, Release, AcquireReadLock, AcquireWriteLock, Asks, ReleaseReadLock,
           ReleaseWriteLock, Leaves
  <1>2. s \in Stage /\ \A q \in Uuids : pc'[q] = IF q = p THEN s ELSE pc[q]
    BY <1>1 DEF RWInv, StagesOK, Goes, Stage
  <1>3. StagesOK'
    <2>1. pc' \in [Uuids -> Stage]
      BY <1>1, <1>2 DEF RWInv, StagesOK, Goes
    <2>. QED  BY <1>1, <1>2, <2>1 DEF RWInv, StagesOK
  <1>4. TableOK' /\ HeldIn(lock') = HeldIn(lock) /\ IdsIn(lock') = IdsIn(lock)
    BY <1>1 DEF RWInv, TableOK
  <1>5. Based(p)' => p \in HeldIn(lock)
    BY <1>1, <1>2 DEF RWInv, BasesHeld, Based
  <1>6. Counted'
    <2>1. Inside' \subseteq Inside
      BY <1>1, <1>2 DEF Inside, Readers
    <2>2. lock' # None => lock'.readers \in Nat /\ lock'.readers >= Object(lock).readers
      BY <1>1, InsideHolds DEF Object
    <2>. QED  BY <2>1, <2>2, StillCounted
  <1>7. pc[p] \notin {"queued", "listed", "dead"}
    BY <1>1
  <1>. QED  BY <1>1, <1>2, <1>3, <1>4, <1>5, <1>6, <1>7, OneGoes

-----------------------------------------------------------------------------
(* The readers/writers handlers.                                           *)

(* A handler leaves the lock object, made where it was missing, with n     *)
(* readers.                                                                *)
LEMMA CountWritten ==
  ASSUME RWInv, NEW n \in Nat, lock' = [Object(lock) EXCEPT !.readers = n]
  PROVE  /\ TableOK' /\ HeldIn(lock') = HeldIn(lock) /\ IdsIn(lock') = IdsIn(lock)
         /\ lock' # None /\ lock'.readers = n
PROOF
  <1>1. /\ Object(lock) \in TidyLock(Key) /\ HoldersOf(Object(lock)) = HeldIn(lock)
        /\ Ids(Object(lock).notify) = IdsIn(lock)
    BY ObjectHolds, WritePrefAssumption DEF RWInv, TableOK
  <1>2. /\ lock' \in TidyLock(Key) /\ HoldersOf(lock') = HoldersOf(Object(lock))
        /\ lock'.notify = Object(lock).notify /\ lock'.readers = n
    BY <1>1, ReadersReplaced, WritePrefAssumption
  <1>3. lock' # None
    BY <1>2, TidyElim, WritePrefAssumption
  <1>. QED  BY <1>1, <1>2, <1>3 DEF RWInv, TableOK, HeldIn, IdsIn

LEMMA ObjectWritten ==
  ASSUME RWInv, lock' = Object(lock)
  PROVE  /\ TableOK' /\ HeldIn(lock') = HeldIn(lock) /\ IdsIn(lock') = IdsIn(lock)
         /\ lock' # None /\ lock'.readers = Object(lock).readers
PROOF
  <1>1. Object(lock) \in TidyLock(Key)
    BY ObjectHolds, WritePrefAssumption DEF RWInv, TableOK
  <1>2. [Object(lock) EXCEPT !.readers = Object(lock).readers] = Object(lock)
    BY <1>1, TidyElim, WritePrefAssumption DEF LockObj
  <1>. QED  BY <1>2, CountWritten, InsideHolds

LEMMA ChecksKeep ==
  ASSUME RWInv, NEW p \in Uuids,
         RegisterWriteFlagCheck(p) \/ RegisterWriteFlagAndReadersCheck(p)
  PROVE  RWInv'
PROOF
  <1>1. /\ lock' = Object(lock)
        /\ pc[p] \in {"checking", "registering"}
        /\ \/ Listens(p)
           \/ /\ Goes(p, IF pc[p] = "checking" THEN "locking" ELSE "writing")
              /\ listeners' = listeners
    BY DEF RegisterWriteFlagCheck, RegisterWriteFlagAndReadersCheck
  <1>2. PICK s \in {"listed", "locking", "writing"} :
          /\ Goes(p, s)
          /\ s = "writing" => pc[p] = "registering"
          /\ \/ listeners' = listeners
             \/ s = "listed" /\ listeners' = listeners \cup {[id |-> p, bound |-> TRUE]}
    BY <1>1 DEF Listens
  <1>3. s \in Stage /\ \A q \in Uuids : pc'[q] = IF q = p THEN s ELSE pc[q]
    BY <1>2 DEF RWInv, StagesOK, Goes, Stage
  <1>4. StagesOK'
    <2>1. pc' \in [Uuids -> Stage]
      BY <1>2, <1>3 DEF RWInv, StagesOK, Goes
    <2>. QED  BY <1>2, <1>3, <2>1 DEF RWInv, StagesOK
  <1>5. /\ TableOK' /\ HeldIn(lock') = HeldIn(lock) /\ IdsIn(lock') = IdsIn(lock)
        /\ lock'.readers = Object(lock).readers
    BY <1>1, ObjectWritten
  <1>6. Based(p)' => p \in HeldIn(lock)
    BY <1>1, <1>2, <1>3 DEF RWInv, StagesOK, BasesHeld, Based, Readers
  <1>7. Counted'
    <2>1. Inside' \subseteq Inside
      BY <1>2, <1>3 DEF Inside, Readers
    <2>. QED  BY <1>5, <2>1, StillCounted, InsideHolds
  <1>. QED  BY <1>1, <1>2, <1>3, <1>4, <1>5, <1>6, <1>7, OneGoes

LEMMA IncrementKeeps ==
  ASSUME RWInv, NEW p \in Uuids, IncrementReaders(p)
  PROVE  RWInv'
PROOF
  <1>. DEFINE n == Object(lock).readers + 1
  <1>1. pc[p] = "counting" /\ p \in Readers /\ Goes(p, "reading") /\ listeners' = listeners
        /\ lock' = [Object(lock) EXCEPT !.readers = n]
    BY DEF IncrementReaders, RWInv, StagesOK
  <1>2. \A q \in Uuids : pc'[q] = IF q = p THEN "reading" ELSE pc[q]
    BY <1>1 DEF RWInv, StagesOK, Goes
  <1>3. StagesOK' /\ "reading" \in Stage
    <2>1. pc' \in [Uuids -> Stage]
      BY <1>1 DEF RWInv, StagesOK, Goes, Stage
    <2>. QED  BY <1>1, <1>2, <2>1 DEF RWInv, StagesOK, Stage
  <1>4. n \in Nat
    BY InsideHolds
  <1>. HIDE DEF n
  <1>5. /\ TableOK' /\ HeldIn(lock') = HeldIn(lock) /\ IdsIn(lock') = IdsIn(lock)
        /\ lock'.readers = n
    BY <1>1, <1>4, CountWritten
  <1>6. Based(p)' => p \in HeldIn(lock)
    BY <1>1 DEF RWInv, BasesHeld, Based
  <1>7. Counted'
    <2>1. Inside' = Inside \cup {p} /\ p \notin Inside
      BY <1>1, <1>2 DEF Inside, Readers
    <2>2. IsFiniteSet(Inside') /\ Cardinality(Inside') = Cardinality(Inside) + 1
      BY <2>1, FS_AddElement DEF RWInv, Counted
    <2>3. Cardinality(Inside) + 1 <= n
      BY InsideHolds DEF n
    <2>4. Cardinality(Inside') <= n /\ Cardinality(Inside') \in Nat
      BY <2>2, <2>3, InsideHolds
    <2>. QED  BY <1>4, <1>5, <2>2, <2>4 DEF Counted
  <1>. QED  BY <1>1, <1>3, <1>5, <1>6, <1>7, OneGoes

Bound  == {x.id : x \in {y \in listeners : y.bound}}
Called == {x.id : x \in listeners}

(* A broadcast lets everybody go who has been told to wait, and counts the *)
(* readers among them.                                                     *)
LEMMA BroadcastKeeps ==
  ASSUME RWInv, NEW p \in Uuids, NEW n \in Nat, NEW flag, NEW s,
         Broadcast(p, [Object(lock) EXCEPT !.readers = n], flag, s),
         \/ pc[p] = "uncounting" /\ s = "unlocking"
         \/ pc[p] = "clearing" /\ s = "idle",
         n >= Cardinality(Inside \ {p})
  PROVE  RWInv'
PROOF
  <1>. DEFINE c == Cardinality(Bound \cap Readers)
  <1>1. /\ \A x \in listeners : x.id \in Uuids /\ pc[x.id] \in {"listed", "dead"}
        /\ IsFiniteSet(listeners)
    BY DEF RWInv, ListenersWait, Listener
  <1>2. c \in Nat
    <2>. DEFINE B == {y \in listeners : y.bound}
                f == [y \in B |-> y.id]
    <2>1. IsFiniteSet(B)
      BY <1>1, FS_Subset
    <2>2. f \in Surjection(B, Bound)
      BY DEF Surjection, Bound
    <2>. HIDE DEF B, f
    <2>3. IsFiniteSet(Bound)
      BY <2>1, <2>2, FS_Surjection
    <2>4. IsFiniteSet(Bound \cap Readers)
      BY <2>3, FS_Subset
    <2>. QED  BY <2>4, FS_CardinalityType
  <1>. HIDE DEF c
  <1>3. /\ lock' = [Object(lock) EXCEPT !.readers = n + c]
        /\ listeners' = {}
        /\ pc' = [q \in Uuids |-> IF q = p THEN s
                                  ELSE IF q \in Called /\ pc[q] # "dead" THEN AfterListed(q)
                                  ELSE pc[q]]
    <2>1. Object(lock) \in LockObj
      BY ObjectHolds, TidyElim, WritePrefAssumption DEF RWInv, TableOK
    <2>2. \A m : [[Object(lock) EXCEPT !.readers = n] EXCEPT !.readers = @ + m]
                   = [Object(lock) EXCEPT !.readers = n + m]
      BY <2>1 DEF LockObj
    <2>. QED  BY <2>2 DEF Broadcast, Bound, Called, c
  <1>4. \A q \in Called : q \in Uuids /\ pc[q] \in {"listed", "dead"}
    BY <1>1 DEF Called
  <1>5. n + c \in Nat /\ n + c >= n
    BY <1>2
  <1>6. /\ TableOK' /\ HeldIn(lock') = HeldIn(lock) /\ IdsIn(lock') = IdsIn(lock)
        /\ lock' # None /\ lock'.readers = n + c
    BY <1>3, <1>5, CountWritten
  <1>7. \A q \in Uuids : \/ q = p /\ pc'[q] = s
                         \/ q # p /\ pc'[q] = pc[q]
                         \/ q # p /\ pc[q] = "listed" /\ pc'[q] = AfterListed(q)
    BY <1>3, <1>4
  <1>8. StagesOK'
    <2>1. \A q \in Uuids : pc'[q] \in Stage
      BY <1>7 DEF RWInv, StagesOK, Stage, AfterListed
    <2>2. pc' \in [Uuids -> Stage]
      BY <1>3, <2>1
    <2>. QED  BY <1>7, <2>2 DEF RWInv, StagesOK, AfterListed
  <1>9. BasesHeld'
    <2>. SUFFICES ASSUME NEW q \in Uuids, Based(q)'  PROVE q \in HeldIn(lock)
      BY <1>6 DEF BasesHeld
    <2>1. Based(q)
      BY <1>7 DEF Based, AfterListed
    <2>. QED  BY <2>1 DEF RWInv, BasesHeld
  <1>10. QueueWaits'
    BY <1>6, <1>7 DEF RWInv, QueueWaits
  <1>11. ListenersWait'
    BY <1>3, FS_EmptySet DEF ListenersWait
  <1>12. Counted'
    <2>1. Inside' = Inside \ {p}
      BY <1>7 DEF Inside, AfterListed, Readers
    <2>2. IsFiniteSet(Inside') /\ Cardinality(Inside') \in Nat
      BY <2>1, FS_RemoveElement, FS_CardinalityType DEF RWInv, Counted
    <2>3. n >= Cardinality(Inside')
      BY <2>1
    <2>4. n + c >= Cardinality(Inside')
      BY <1>5, <2>2, <2>3
    <2>. QED  BY <1>6, <2>2, <2>4 DEF Counted
  <1>. QED  BY <1>6, <1>8, <1>9, <1>10, <1>11, <1>12 DEF RWInv

LEMMA DecrementKeeps ==
  ASSUME RWInv, NEW p \in Uuids, DecrementReaders(p)
  PROVE  RWInv'
PROOF
  <1>. DEFINE n == Larger(0, Object(lock).readers - 1)
  <1>1. pc[p] = "uncounting" /\ p \in Inside
    BY DEF DecrementReaders, RWInv, StagesOK, Inside
  <1>2. n \in Nat /\ n >= Cardinality(Inside \ {p}) /\ Cardinality(Inside \ {p}) \in Nat
    <2>1. /\ Cardinality(Inside \ {p}) = Cardinality(Inside) - 1
          /\ Cardinality(Inside \ {p}) \in Nat
      BY <1>1, FS_RemoveElement, FS_CardinalityType DEF RWInv, Counted
    <2>. QED  BY <2>1, InsideHolds DEF Larger
  <1>. HIDE DEF n
  <1>3. CASE Broadcast(p, [Object(lock) EXCEPT !.readers = n], writerFlag, "unlocking")
    BY <1>1, <1>2, <1>3, BroadcastKeeps
  <1>4. CASE /\ lock' = [Object(lock) EXCEPT !.readers = n]
             /\ Goes(p, "unlocking") /\ listeners' = listeners
    <2>1. \A q \in Uuids : pc'[q] = IF q = p THEN "unlocking" ELSE pc[q]
      BY <1>4 DEF RWInv, StagesOK, Goes
    <2>2. StagesOK' /\ "unlocking" \in Stage
      <3>1. pc' \in [Uuids -> Stage]
        BY <1>4 DEF RWInv, StagesOK, Goes, Stage
      <3>. QED  BY <2>1, <3>1 DEF RWInv, StagesOK, Stage
    <2>3. /\ TableOK' /\ HeldIn(lock') = HeldIn(lock) /\ IdsIn(lock') = IdsIn(lock)
          /\ lock'.readers = n
      BY <1>2, <1>4, CountWritten
    <2>4. Based(p)' => p \in HeldIn(lock)
      BY <1>1 DEF RWInv, BasesHeld, Based
    <2>5. Counted'
      <3>1. Inside' = Inside \ {p}
        BY <2>1 DEF Inside, Readers
      <3>2. IsFiniteSet(Inside')
        BY <3>1, FS_RemoveElement DEF RWInv, Counted
      <3>. QED  BY <1>2, <2>3, <3>1, <3>2 DEF Counted
    <2>. QED  BY <1>1, <1>4, <2>2, <2>3, <2>4, <2>5, OneGoes
  <1>. QED  BY <1>3, <1>4 DEF DecrementReaders, n

LEMMA ClearKeeps ==
  ASSUME RWInv, NEW p \in Uuids, SetWriteFlagToFalseAndBroadcast(p)
  PROVE  RWInv'
PROOF
  <1>. DEFINE n == Object(lock).readers
  <1>1. pc[p] = "clearing" /\ Broadcast(p, Object(lock), FALSE, "idle")
    BY DEF SetWriteFlagToFalseAndBroadcast
  <1>2. [Object(lock) EXCEPT !.readers = n] = Object(lock)
    BY ObjectHolds, TidyElim, WritePrefAssumption DEF RWInv, TableOK, LockObj
  <1>3. n \in Nat /\ n >= Cardinality(Inside \ {p})
    <2>1. Inside \ {p} = Inside
      BY <1>1 DEF Inside
    <2>. QED  BY <2>1, InsideHolds
  <1>. HIDE DEF n
  <1>4. Broadcast(p, [Object(lock) EXCEPT !.readers = n], FALSE, "idle")
    BY <1>1, <1>2
  <1>. QED  BY <1>1, <1>3, <1>4, BroadcastKeeps

-----------------------------------------------------------------------------
(* Turns of the lock table, and what takes processes away.                 *)

\* The lock object becomes l: those who hold it now and did not before came
\* from the queue, but for p, and are queued no more.
Serves(p, l) ==
  /\ l \in TidyLock(Key) /\ IsFiniteSet(HoldersOf(l))
  /\ l.readers >= Object(lock).readers
  /\ HoldersOf(l) \subseteq HeldIn(lock) \cup IdsIn(lock) \cup {p}
  /\ HeldIn(lock) \ {p} \subseteq HoldersOf(l)
  /\ Ids(l.notify) \subseteq IdsIn(lock) \cup {p}
  /\ Ids(l.notify) \cap HoldersOf(l) \subseteq HeldIn(lock)

LEMMA GrantedHolds ==
  ASSUME NEW l, NEW m
  PROVE  Granted(l, m) = HoldersOf(m) \ HeldIn(l)
PROOF
  BY DEF Granted, HoldersOf, HeldIn

LEMMA TurnKeeps ==
  ASSUME RWInv, NEW p \in Uuids, NEW l, NEW s \in Stage, Serves(p, l), lock' = l,
         pc' = [q \in Uuids |-> IF q \in Granted(lock, lock') /\ q # p THEN AfterGrant(q)
                                ELSE IF q = p THEN s ELSE pc[q]],
         listeners' = listeners,
         s = "dead" \/ pc[p] \notin {"queued", "listed", "dead"},
         s \in {"queued", "clearing", "idle", "dead", "counting", "registering"},
         s = "clearing" => p \in Writers,
         s = "counting" => p \in Readers /\ p \in HoldersOf(l),
         s = "registering" => p \in Writers /\ p \in HoldersOf(l),
         p \in Ids(l.notify) => s = "queued"
  PROVE  RWInv'
PROOF
  <1>1. l # None /\ HeldIn(lock') = HoldersOf(l) /\ IdsIn(lock') = Ids(l.notify)
    BY TidyElim, WritePrefAssumption DEF Serves, HeldIn, IdsIn
  <1>2. \A q \in Uuids :
          \/ q = p /\ pc'[q] = s
          \/ q # p /\ pc'[q] = pc[q] /\ q \notin HoldersOf(l) \ HeldIn(lock)
          \/ /\ q # p /\ q \in HoldersOf(l) /\ q \in IdsIn(lock) /\ q \notin HeldIn(lock)
             /\ pc[q] = "queued" /\ pc'[q] = AfterGrant(q)
    <2>. SUFFICES ASSUME NEW q \in Uuids, q # p, q \in HoldersOf(l) \ HeldIn(lock)
                  PROVE  q \in IdsIn(lock) /\ pc[q] = "queued" /\ pc'[q] = AfterGrant(q)
      BY GrantedHolds
    <2>. QED  BY GrantedHolds DEF Serves, RWInv, QueueWaits
  <1>3. TableOK'
    BY <1>1 DEF TableOK, Serves
  <1>4. StagesOK'
    <2>1. \A q \in Uuids : pc'[q] \in Stage
      BY <1>2 DEF RWInv, StagesOK, Stage, AfterGrant
    <2>2. pc' \in [Uuids -> Stage]
      BY <2>1
    <2>. QED  BY <1>2, <2>2 DEF RWInv, StagesOK, AfterGrant, Readers
  <1>5. BasesHeld'
    <2>. SUFFICES ASSUME NEW q \in Uuids, Based(q)'  PROVE q \in HoldersOf(l)
      BY <1>1 DEF BasesHeld
    <2>1. CASE q # p /\ pc'[q] = pc[q]
      <3>1. q \in HeldIn(lock)
        BY <2>1 DEF RWInv, BasesHeld, Based
      <3>. QED  BY <2>1, <3>1 DEF Serves
    <2>2. CASE q = p /\ pc'[q] = s
      BY <2>2 DEF Based
    <2>. QED  BY <1>2, <2>1, <2>2
  <1>6. QueueWaits'
    <2>. SUFFICES ASSUME NEW h \in Ids(l.notify)  PROVE h \in Uuids /\ pc'[h] = "queued"
      BY <1>1 DEF QueueWaits
    <2>1. CASE h = p
      BY <1>2, <2>1
    <2>2. CASE h # p
      <3>1. h \in IdsIn(lock) /\ h \in Uuids /\ pc[h] = "queued"
        BY <2>2 DEF Serves, RWInv, QueueWaits
      <3>2. ~(h \in HoldersOf(l) /\ h \notin HeldIn(lock))
        BY DEF Serves
      <3>. QED  BY <1>2, <2>2, <3>1, <3>2
    <2>. QED  BY <2>1, <2>2
  <1>7. ListenersWait'
    <2>1. \A x \in listeners : x.id \in Uuids /\ pc[x.id] \in {"listed", "dead"}
      BY DEF RWInv, ListenersWait, Listener
    <2>2. \A x \in listeners : pc'[x.id] \in {"listed", "dead"}
      BY <1>2, <2>1
    <2>. QED  BY <2>2 DEF RWInv, ListenersWait
  <1>8. Counted'
    <2>1. Inside' \subseteq Inside
      BY <1>2 DEF Inside, AfterGrant, Readers
    <2>2. l.readers \in Nat
      BY TidyElim, WritePrefAssumption DEF Serves, LockObj
    <2>. QED  BY <2>1, <2>2, StillCounted DEF Serves
  <1>. QED  BY <1>3, <1>4, <1>5, <1>6, <1>7, <1>8 DEF RWInv

(* Whoever is granted in a turn has been queued, but for p.                *)
LEMMA GrantedWere ==
  ASSUME RWInv, NEW p \in Uuids, NEW l, Serves(p, l), NEW q \in Granted(lock, l), q # p
  PROVE  pc[q] = "queued"
PROOF
  BY GrantedHolds DEF Serves, RWInv, QueueWaits

\* Where lock() leaves p.
LockedTo(p) == IF p \in Granted(lock, Locked(lock, p)) THEN AfterGrant(p) ELSE "queued"

LEMMA LockServes ==
  ASSUME RWInv, NEW p \in Uuids, Lock(p)
  PROVE  /\ Serves(p, Locked(lock, p))
         /\ p \in Ids(Locked(lock, p).notify) => p \notin Granted(lock, Locked(lock, p))
         /\ lock' = Locked(lock, p) /\ listeners' = listeners /\ writerFlag' = writerFlag
         /\ pc' = [q \in Uuids |-> IF q \in Granted(lock, lock') /\ q # p THEN AfterGrant(q)
                                   ELSE IF q = p THEN LockedTo(p) ELSE pc[q]]
PROOF
  <1>. DEFINE ws == CHOOSE s \in Req[p].from : TRUE
              l == Locked(lock, p)
  <1>1. ws \in Sockets
    BY RequestAssumption, WritePrefAssumption DEF LockRequest
  <1>2. pc[p] = "locking" /\ Turns(p, l, "queued")
    BY DEF Lock
  <1>3. p \notin IdsIn(lock) /\ p \in Holders
    BY <1>2 DEF RWInv, QueueWaits, Holders
  <1>4. /\ l \in TidyLock(Key) /\ l.readers = Object(lock).readers
        /\ \/ HoldersOf(l) = HeldIn(lock) /\ Ids(l.notify) = IdsIn(lock) \cup {p}
           \/ HoldersOf(l) = HeldIn(lock) \cup {p} /\ Ids(l.notify) = IdsIn(lock)
    <2>. HIDE DEF ws
    <2>1. /\ FALSE \in BOOLEAN /\ Req[p].key = Key /\ Req[p].rw = "none"
          /\ lock \in TidyLock(Req[p].key) \cup {None}
      BY WritePrefAssumption DEF RWInv, TableOK
    <2>2. l = LockedFrom(lock, p, ws, FALSE)
      BY DEF Locked, ws
    <2>. HIDE DEF l
    <2>. QED  BY <1>1, <2>1, <2>2, LockedHolds
  <1>. HIDE DEF l
  <1>5. IsFiniteSet(HoldersOf(l))
    <2>1. IsFiniteSet(HeldIn(lock)) /\ IsFiniteSet(HeldIn(lock) \cup {p})
      BY FS_AddElement DEF RWInv, TableOK
    <2>. QED  BY <1>4, <2>1
  <1>6. Serves(p, l)
    <2>1. \A h \in Ids(l.notify) : h \in HoldersOf(l) => h \in HeldIn(lock)
      BY <1>3, <1>4
    <2>2. l.readers >= Object(lock).readers
      BY <1>4, InsideHolds
    <2>. QED  BY <1>4, <1>5, <2>1, <2>2 DEF Serves
  <1>7. p \in Ids(l.notify) => p \notin Granted(lock, l)
    BY <1>3, <1>4, GrantedHolds
  <1>8. /\ lock' = l /\ listeners' = listeners /\ writerFlag' = writerFlag
        /\ pc' = [q \in Uuids |-> IF q \in Granted(lock, lock') /\ q # p THEN AfterGrant(q)
                                  ELSE IF q = p THEN LockedTo(p) ELSE pc[q]]
    <2>1. \A q \in Granted(lock, l) : q # p => pc[q] # "dead"
      BY <1>6, GrantedWere
    <2>. QED  BY <1>2, <2>1 DEF Turns, LockedTo, l
  <1>. QED  BY <1>6, <1>7, <1>8 DEF l

LEMMA LockKeeps ==
  ASSUME RWInv, NEW p \in Uuids, Lock(p)
  PROVE  RWInv'
PROOF
  <1>. DEFINE l == Locked(lock, p)
              s == LockedTo(p)
  <1>1. /\ Serves(p, l) /\ lock' = l /\ listeners' = listeners
        /\ p \in Ids(l.notify) => p \notin Granted(lock, l)
        /\ pc' = [q \in Uuids |-> IF q \in Granted(lock, lock') /\ q # p THEN AfterGrant(q)
                                  ELSE IF q = p THEN s ELSE pc[q]]
    BY LockServes
  <1>2. /\ s \in {"queued", "counting", "registering"} /\ s \in Stage
        /\ s = "counting" => p \in Readers /\ p \in HoldersOf(l)
        /\ s = "registering" => p \in Writers /\ p \in HoldersOf(l)
        /\ p \in Ids(l.notify) => s = "queued"
    <2>1. p \in Granted(lock, l) => p \in HoldersOf(l)
      BY GrantedHolds
    <2>. QED  BY <1>1, <2>1 DEF LockedTo, AfterGrant, Readers, Stage
  <1>. HIDE DEF l, s
  <1>3. pc[p] = "locking"
    BY DEF Lock
  <1>. QED  BY <1>1, <1>2, <1>3, TurnKeeps

(* The holder p leaves.                                                    *)
LEMMA FreedServes ==
  ASSUME RWInv, NEW p \in Uuids, NEW m \in TidyLock(Key), lock # None,
         HoldersOf(m) = HoldersOf(lock), Ids(m.notify) = Ids(lock.notify) \ {p},
         m.readers = lock.readers
  PROVE  /\ Serves(p, Freed(m, {p}))
         /\ p \notin HoldersOf(Freed(m, {p})) /\ p \notin Ids(Freed(m, {p}).notify)
PROOF
  <1>. DEFINE l == Freed(m, {p})
              won == ServedIds(Deserted(m, {p}), Sockets)
  <1>1. /\ l \in TidyLock(Key) /\ HoldersOf(l) = (HoldersOf(m) \ {p}) \cup won
        /\ won \subseteq Ids(m.notify) /\ IsFiniteSet(won)
        /\ Ids(l.notify) \subseteq Ids(m.notify) \ won /\ l.readers = m.readers
    BY FreedHolds, WritePrefAssumption DEF Freed
  <1>2. HeldIn(lock) = HoldersOf(lock) /\ IdsIn(lock) = Ids(lock.notify)
        /\ Object(lock) = lock
    BY DEF HeldIn, IdsIn, Object
  <1>. HIDE DEF l, won
  <1>3. IsFiniteSet(HoldersOf(l))
    <2>1. IsFiniteSet(HoldersOf(m) \ {p})
      BY <1>2, FS_RemoveElement DEF RWInv, TableOK
    <2>2. IsFiniteSet((HoldersOf(m) \ {p}) \cup won)
      BY <1>1, <2>1, FS_Union
    <2>. QED  BY <1>1, <2>2
  <1>4. l.readers >= Object(lock).readers
    BY <1>1, <1>2, InsideHolds
  <1>5. Serves(p, l)
    BY <1>1, <1>2, <1>3, <1>4 DEF Serves
  <1>. QED  BY <1>1, <1>5 DEF l

LEMMA UnlockServes ==
  ASSUME RWInv, NEW p \in Uuids, Unlock(p)
  PROVE  \E l :
           /\ Serves(p, l) /\ p \notin HoldersOf(l) /\ p \notin Ids(l.notify)
           /\ lock' = l /\ listeners' = listeners /\ writerFlag' = writerFlag
           /\ pc' = [q \in Uuids |-> IF q \in Granted(lock, lock') /\ q # p THEN AfterGrant(q)
                                     ELSE IF q = p
                                     THEN (IF p \in Writers THEN "clearing" ELSE "idle")
                                     ELSE pc[q]]
PROOF
  <1>. DEFINE l == Freed(lock, {p})
              s == IF p \in Writers THEN "clearing" ELSE "idle"
  <1>1. pc[p] = "unlocking" /\ Turns(p, l, s)
    BY DEF Unlock
  <1>2. p \notin IdsIn(lock) /\ p \in HeldIn(lock)
    BY <1>1 DEF RWInv, QueueWaits, BasesHeld, Based
  <1>3. lock # None /\ lock \in TidyLock(Key)
    BY <1>2 DEF HeldIn, RWInv, TableOK
  <1>4. Ids(lock.notify) = Ids(lock.notify) \ {p}
    BY <1>2, <1>3 DEF IdsIn
  <1>5. Serves(p, l) /\ p \notin HoldersOf(l) /\ p \notin Ids(l.notify)
    BY <1>3, <1>4, FreedServes
  <1>. HIDE DEF l
  <1>6. \A q \in Granted(lock, l) : q # p /\ pc[q] # "dead"
    BY <1>5, GrantedHolds, GrantedWere
  <1>. HIDE DEF s
  <1>7. /\ lock' = l /\ listeners' = listeners /\ writerFlag' = writerFlag
        /\ pc' = [q \in Uuids |-> IF q \in Granted(lock, lock') /\ q # p THEN AfterGrant(q)
                                  ELSE IF q = p THEN s ELSE pc[q]]
    BY <1>1, <1>6 DEF Turns
  <1>. QED  BY <1>5, <1>7 DEF s

LEMMA UnlockKeeps ==
  ASSUME RWInv, NEW p \in Uuids, Unlock(p)
  PROVE  RWInv'
PROOF
  <1>. DEFINE s == IF p \in Writers THEN "clearing" ELSE "idle"
  <1>1. PICK l :
          /\ Serves(p, l) /\ p \notin HoldersOf(l) /\ p \notin Ids(l.notify)
          /\ lock' = l /\ listeners' = listeners
          /\ pc' = [q \in Uuids |-> IF q \in Granted(lock, lock') /\ q # p THEN AfterGrant(q)
                                    ELSE IF q = p THEN s ELSE pc[q]]
    BY UnlockServes
  <1>2. s \in {"clearing", "idle"} /\ s \in Stage /\ (s = "clearing" => p \in Writers)
    BY DEF Stage
  <1>. HIDE DEF s
  <1>3. pc[p] = "unlocking"
    BY DEF Unlock
  <1>. QED  BY <1>1, <1>2, <1>3, TurnKeeps

(* A connection ends where no lock object is.                              *)
LEMMA DiesUnseen ==
  ASSUME RWInv, NEW p \in Uuids, lock = None, lock' = None, Goes(p, "dead"),
         listeners' = listeners
  PROVE  RWInv'
PROOF
  <1>1. \A q \in Uuids : pc'[q] = IF q = p THEN "dead" ELSE pc[q]
    BY DEF RWInv, StagesOK, Goes
  <1>2. StagesOK'
    <2>1. pc' \in [Uuids -> Stage]
      BY DEF RWInv, StagesOK, Goes, Stage
    <2>. QED  BY <1>1, <2>1 DEF RWInv, StagesOK
  <1>3. TableOK' /\ QueueWaits'
    BY FS_EmptySet DEF TableOK, QueueWaits, HeldIn, IdsIn
  <1>4. BasesHeld'
    BY <1>1 DEF RWInv, BasesHeld, Based, HeldIn
  <1>5. ListenersWait'
    <2>1. \A x \in listeners : x.id \in Uuids /\ pc[x.id] \in {"listed", "dead"}
      BY DEF RWInv, ListenersWait, Listener
    <2>2. \A x \in listeners : pc'[x.id] \in {"listed", "dead"}
      BY <1>1, <2>1
    <2>. QED  BY <2>2 DEF RWInv, ListenersWait
  <1>6. Counted'
    <2>1. Inside' \subseteq Inside
      BY <1>1 DEF Inside, Readers
    <2>. QED  BY <2>1, StillCounted
  <1>. QED  BY <1>2, <1>3, <1>4, <1>5, <1>6 DEF RWInv

LEMMA ConnectionEndsKeeps ==
  ASSUME RWInv, NEW p \in Uuids, ConnectionEnds(p)
  PROVE  RWInv'
PROOF
  <1>1. CASE lock = None
    BY <1>1, DiesUnseen DEF ConnectionEnds
  <1>2. CASE lock # None
    <2>. DEFINE m == [lock EXCEPT !.notify = Without(@, p)]
    <2>1. lock \in TidyLock(Key) /\ Key \in Keys
      BY <1>2, WritePrefAssumption DEF RWInv, TableOK
    <2>2. /\ m \in TidyLock(Key) /\ HoldersOf(m) = HoldersOf(lock)
          /\ Ids(m.notify) = Ids(lock.notify) \ {p} /\ m.readers = lock.readers
      BY <2>1, WithoutTidy
    <2>3. HeldIn(lock) = HoldersOf(lock) /\ IdsIn(lock) = Ids(lock.notify) /\ Object(lock) = lock
      BY <1>2 DEF HeldIn, IdsIn, Object
    <2>4. "dead" \in Stage /\ listeners' = listeners
      BY <1>2 DEF Stage, ConnectionEnds
    <2>5. CASE Holding(m, p)
      <3>. DEFINE l == Freed(m, {p})
      <3>1. Serves(p, l) /\ p \notin HoldersOf(l) /\ p \notin Ids(l.notify)
        BY <1>2, <2>2, FreedServes
      <3>2. /\ lock' = l
            /\ pc' = [q \in Uuids |-> IF q = p THEN "dead"
                                      ELSE IF q \in Granted(lock, lock') THEN AfterGrant(q)
                                      ELSE pc[q]]
        BY <1>2, <2>5 DEF ConnectionEnds
      <3>. HIDE DEF l
      <3>3. pc' = [q \in Uuids |-> IF q \in Granted(lock, lock') /\ q # p THEN AfterGrant(q)
                                   ELSE IF q = p THEN "dead" ELSE pc[q]]
        BY <3>2
      <3>. QED  BY <2>4, <3>1, <3>2, <3>3, TurnKeeps
    <2>6. CASE ~Holding(m, p)
      <3>1. lock' = m /\ Goes(p, "dead")
        BY <1>2, <2>6 DEF ConnectionEnds
      <3>. HIDE DEF m
      <3>2. p \notin Ids(m.notify) /\ Serves(p, m)
        BY <2>2, <2>3, InsideHolds DEF Serves, RWInv, TableOK
      <3>3. Granted(lock, lock') = {}
        BY <2>2, <2>3, <3>1, GrantedHolds
      <3>4. pc' = [q \in Uuids |-> IF q \in Granted(lock, lock') /\ q # p THEN AfterGrant(q)
                                   ELSE IF q = p THEN "dead" ELSE pc[q]]
        BY <3>1, <3>3 DEF Goes, RWInv, StagesOK
      <3>. QED  BY <2>4, <3>1, <3>2, <3>4, TurnKeeps
    <2>. QED  BY <2>5, <2>6
  <1>. QED  BY <1>1, <1>2

(* The lock object is dropped when no reader is inside.                    *)
LEMMA CollectKeeps ==
  ASSUME RWInv, Collect
  PROVE  RWInv'
PROOF
  <1>1. lock # None /\ Count(lock) < 1 /\ lock' = None /\ pc' = pc
        /\ listeners' = {[x EXCEPT !.bound = FALSE] : x \in listeners}
    BY DEF Collect, Idling
  <1>2. HeldIn(lock) = {}
    <2>1. HeldIn(lock) = HoldersOf(lock) /\ IsFiniteSet(HeldIn(lock))
      BY <1>1 DEF HeldIn, RWInv, TableOK
    <2>2. Cardinality(HoldersOf(lock)) \in Nat /\ Cardinality(HoldersOf(lock)) < 1
      BY <1>1, <2>1, FS_CardinalityType DEF Count
    <2>3. Cardinality(HoldersOf(lock)) = 0
      BY <2>2
    <2>. QED  BY <2>1, <2>3, FS_EmptySet
  <1>3. StagesOK' /\ TableOK' /\ QueueWaits'
    BY <1>1, FS_EmptySet DEF RWInv, StagesOK, TableOK, QueueWaits, HeldIn, IdsIn
  <1>4. BasesHeld'
    BY <1>1, <1>2 DEF RWInv, BasesHeld, Based
  <1>5. ListenersWait'
    <2>. DEFINE f == [x \in listeners |-> [x EXCEPT !.bound = FALSE]]
    <2>1. \A x \in listeners : /\ [x EXCEPT !.bound = FALSE] \in Listener
                               /\ [x EXCEPT !.bound = FALSE].id = x.id
      BY DEF RWInv, ListenersWait, Listener
    <2>2. f \in Surjection(listeners, listeners')
      BY <1>1 DEF Surjection
    <2>. HIDE DEF f
    <2>3. IsFiniteSet(listeners')
      BY <2>2, FS_Surjection DEF RWInv, ListenersWait
    <2>. QED  BY <1>1, <2>1, <2>3 DEF RWInv, ListenersWait
  <1>6. Counted'
    BY <1>1 DEF RWInv, Counted, Inside
  <1>. QED  BY <1>3, <1>4, <1>5, <1>6 DEF RWInv

-----------------------------------------------------------------------------
LEMMA RWInvStep ==
  ASSUME RWInv, [Next]_vars
  PROVE  RWInv'
PROOF
  <1>1. CASE UNCHANGED vars
    BY <1>1
    DEF vars, RWInv, StagesOK, TableOK, BasesHeld, Based, QueueWaits, ListenersWait, Counted, Inside
  <1>2. CASE Collect
    BY <1>2, CollectKeeps
  <1>3. ASSUME NEW p \in Uuids, Acquire(p) \/ Release(p) \/ BrokerStep(p) \/ ConnectionEnds(p)
        PROVE  RWInv'
    BY <1>3, UserSteps, LockKeeps, UnlockKeeps, ChecksKeep, IncrementKeeps, DecrementKeeps,
       ClearKeeps, ConnectionEndsKeeps
    DEF BrokerStep
  <1>. QED  BY <1>1, <1>2, <1>3 DEF Next

LEMMA InitRWInv == Init => RWInv
PROOF
  <1>. SUFFICES ASSUME Init  PROVE RWInv
    OBVIOUS
  <1>1. StagesOK /\ TableOK /\ BasesHeld /\ QueueWaits
    BY FS_EmptySet
    DEF Init, StagesOK, Stage, TableOK, BasesHeld, Based, QueueWaits, HeldIn, IdsIn
  <1>2. Inside = {}
    BY DEF Init, Inside, Readers
  <1>3. ListenersWait /\ Counted
    BY <1>2, FS_EmptySet DEF Init, ListenersWait, Counted
  <1>. QED  BY <1>1, <1>3 DEF RWInv

(* The broker's reader count covers the readers inside, for any number of  *)
(* readers and writers: no order of counts, broadcasts, clamped            *)
(* decrements, collections of the lock object and ends of connections      *)
(* makes a writer believe that a reader inside has left.                   *)
THEOREM ReadersAreCounted == Spec => []CountCovers
PROOF
  <1>1. RWInv => CountCovers
    <2>. SUFFICES ASSUME RWInv, Inside # {}
                  PROVE  lock # None /\ lock.readers >= Cardinality(Inside)
      BY DEF CountCovers, Inside
    <2>. QED  BY InsideHolds DEF RWInv, Counted
  <1>. QED  BY <1>1, InitRWInv, RWInvStep, PTL DEF Spec

-----------------------------------------------------------------------------
(* The writer flag.                                                        *)

Owns(p) == p \in Writers /\ pc[p] \in {"writing", "unlocking", "clearing"}

\* Only processes whose connection may end are dead.
DeadAreMortal == \A p \in Uuids : pc[p] = "dead" => p \in Mortal

FlagInv == RWInv /\ DeadAreMortal /\ FlagOwned

LEMMA MortalStep ==
  ASSUME RWInv, DeadAreMortal, [Next]_vars
  PROVE  DeadAreMortal'
PROOF
  <1>. SUFFICES ASSUME NEW q \in Uuids, pc'[q] = "dead"  PROVE q \in Mortal
    BY DEF DeadAreMortal
  <1>. pc \in [Uuids -> Stage]
    BY DEF RWInv, StagesOK
  <1>1. CASE pc'[q] = pc[q]
    BY <1>1 DEF DeadAreMortal
  <1>2. CASE pc'[q] # pc[q]
    <2>1. ~UNCHANGED vars /\ ~Collect
      BY <1>2 DEF vars, Collect
    <2>2. PICK p \in Uuids : Acquire(p) \/ Release(p) \/ BrokerStep(p) \/ ConnectionEnds(p)
      BY <2>1 DEF Next
    <2>3. CASE ConnectionEnds(p)
      BY <1>2, <2>3 DEF ConnectionEnds, Goes, AfterGrant
    <2>4. CASE Acquire(p) \/ Release(p)
      BY <1>2, <2>4 DEF Acquire, Release, AcquireReadLock, AcquireWriteLock, Asks,
                        ReleaseReadLock, ReleaseWriteLock, Leaves, Goes
    <2>5. CASE BrokerStep(p)
      BY <1>2, <2>5 DEF BrokerStep, Lock, Unlock, Turns, RegisterWriteFlagCheck,
           RegisterWriteFlagAndReadersCheck, IncrementReaders, DecrementReaders,
           SetWriteFlagToFalseAndBroadcast, Broadcast, Listens, Goes, AfterGrant, AfterListed
    <2>. QED  BY <2>2, <2>3, <2>4, <2>5
  <1>. QED  BY <1>1, <1>2

(* A process that waits for nothing keeps its stage unless it moves.       *)
LEMMA OwnerStays ==
  ASSUME RWInv, NEW p \in Uuids, NEW o \in Uuids, Owns(o), o # p,
         Acquire(p) \/ Release(p) \/ BrokerStep(p) \/ ConnectionEnds(p)
  PROVE  pc'[o] = pc[o]
PROOF
  <1>. pc \in [Uuids -> Stage]
    BY DEF RWInv, StagesOK
  <1>1. ASSUME NEW s, Goes(p, s)
        PROVE  pc'[o] = pc[o]
    BY <1>1 DEF Goes
  <1>2. pc[o] \notin {"queued", "listed", "dead"}
    BY DEF Owns
  <1>3. CASE Acquire(p) \/ Release(p)
    BY <1>1, <1>3 DEF Acquire, Release, AcquireReadLock, AcquireWriteLock, Asks,
                      ReleaseReadLock, ReleaseWriteLock, Leaves
  <1>4. CASE Lock(p)
    BY <1>2, <1>4, LockServes, GrantedWere
  <1>5. CASE Unlock(p)
    BY <1>2, <1>5, UnlockServes, GrantedWere
  <1>6. CASE \/ RegisterWriteFlagCheck(p) \/ RegisterWriteFlagAndReadersCheck(p)
             \/ IncrementReaders(p)
    BY <1>1, <1>6 DEF RegisterWriteFlagCheck, RegisterWriteFlagAndReadersCheck, Listens,
                      IncrementReaders
  <1>7. ASSUME NEW l, NEW flag, NEW s, Broadcast(p, l, flag, s)
        PROVE  pc'[o] = pc[o]
    BY <1>2, <1>7 DEF Broadcast, RWInv, ListenersWait, Listener
  <1>8. CASE DecrementReaders(p) \/ SetWriteFlagToFalseAndBroadcast(p)
    BY <1>1, <1>7, <1>8 DEF DecrementReaders, SetWriteFlagToFalseAndBroadcast
  <1>9. CASE ConnectionEnds(p)
    <2>1. CASE Goes(p, "dead")
      BY <1>1, <2>1
    <2>2. CASE ~Goes(p, "dead")
      <3>. DEFINE m == [lock EXCEPT !.notify = Without(@, p)]
      <3>1. /\ lock # None /\ lock' = Freed(m, {p})
            /\ pc' = [q \in Uuids |-> IF q = p THEN "dead"
                                      ELSE IF q \in Granted(lock, lock') THEN AfterGrant(q)
                                      ELSE pc[q]]
        BY <1>9, <2>2 DEF ConnectionEnds
      <3>2. /\ m \in TidyLock(Key) /\ HoldersOf(m) = HoldersOf(lock)
            /\ Ids(m.notify) = Ids(lock.notify) \ {p} /\ m.readers = lock.readers
        BY <3>1, WithoutTidy, WritePrefAssumption DEF RWInv, TableOK
      <3>. HIDE DEF m
      <3>3. Serves(p, lock')
        BY <3>1, <3>2, FreedServes
      <3>. QED  BY <1>2, <3>1, <3>3, GrantedWere
    <2>. QED  BY <2>1, <2>2
  <1>. QED  BY <1>3, <1>4, <1>5, <1>6, <1>8, <1>9 DEF BrokerStep

(* A broadcast that raises the flag raises it for a writer that it lets in.*)
LEMMA BroadcastOwned ==
  ASSUME FlagInv, Mortal \cap Writers = {}, NEW p \in Uuids,
         pc[p] \in {"uncounting", "clearing"},
         NEW l, NEW flag, NEW s, Broadcast(p, l, flag, s), writerFlag'
  PROVE  flag \/ \E w \in Writers : pc'[w] = "writing"
PROOF
  <1>. SUFFICES ASSUME ~flag  PROVE \E w \in Writers : pc'[w] = "writing"
    OBVIOUS
  <1>1. PICK x \in listeners : x.id \in Writers
    BY DEF Broadcast
  <1>2. x.id \in Uuids /\ pc[x.id] = "listed" /\ x.id # p
    BY <1>1 DEF FlagInv, RWInv, ListenersWait, Listener, DeadAreMortal
  <1>3. pc'[x.id] = "writing"
    BY <1>1, <1>2 DEF Broadcast, AfterListed
  <1>. QED  BY <1>1, <1>3

LEMMA FlagStep ==
  ASSUME FlagInv, Mortal \cap Writers = {}, [Next]_vars
  PROVE  FlagOwned'
PROOF
  <1>. SUFFICES ASSUME writerFlag'
                PROVE  \E p \in Writers : pc'[p] \in {"writing", "unlocking", "clearing"}
    BY DEF FlagOwned
  <1>. RWInv /\ DeadAreMortal /\ FlagOwned /\ Writers \subseteq Uuids
    BY WritePrefAssumption DEF FlagInv
  <1>1. CASE UNCHANGED vars
    BY <1>1 DEF vars, FlagOwned
  <1>2. CASE Collect
    BY <1>2 DEF Collect
  <1>3. ASSUME NEW p \in Uuids, Acquire(p) \/ Release(p) \/ BrokerStep(p) \/ ConnectionEnds(p)
        PROVE  \E o \in Writers : pc'[o] \in {"writing", "unlocking", "clearing"}
    <2>1. ASSUME NEW o \in Uuids, Owns(o), o # p
          PROVE  \E w \in Writers : pc'[w] \in {"writing", "unlocking", "clearing"}
      BY <1>3, <2>1, OwnerStays DEF Owns
    <2>2. writerFlag => \E o \in Uuids : Owns(o)
      BY DEF FlagOwned, Owns
    <2>3. CASE pc[p] \in {"uncounting", "clearing"} /\ ~ConnectionEnds(p)
      <3>1. DecrementReaders(p) \/ SetWriteFlagToFalseAndBroadcast(p)
        BY <1>3, <2>3 DEF Acquire, Release, AcquireReadLock, AcquireWriteLock, Asks,
           ReleaseReadLock, ReleaseWriteLock, Leaves, BrokerStep, Lock, Unlock,
           RegisterWriteFlagCheck, RegisterWriteFlagAndReadersCheck, IncrementReaders
      <3>2. CASE SetWriteFlagToFalseAndBroadcast(p)
        BY <2>3, <3>2, BroadcastOwned DEF SetWriteFlagToFalseAndBroadcast
      <3>3. CASE DecrementReaders(p)
        <4>1. pc[p] = "uncounting" /\ ~Owns(p)
          BY <3>3 DEF DecrementReaders, Owns
        <4>2. CASE ~writerFlag
          <5>1. PICK l, s : Broadcast(p, l, writerFlag, s)
            BY <3>3, <4>2 DEF DecrementReaders
          <5>2. writerFlag \/ \E w \in Writers : pc'[w] = "writing"
            BY <2>3, <5>1, BroadcastOwned
          <5>. QED  BY <4>2, <5>2
        <4>3. CASE writerFlag
          BY <2>1, <2>2, <4>1, <4>3
        <4>. QED  BY <4>2, <4>3
      <3>. QED  BY <3>1, <3>2, <3>3
    <2>4. CASE ConnectionEnds(p)
      <3>1. writerFlag /\ ~Owns(p)
        BY <2>4 DEF ConnectionEnds, Owns
      <3>. QED  BY <2>1, <2>2, <3>1
    <2>5. CASE Acquire(p) \/ Release(p)
      <3>1. writerFlag
        BY <2>5 DEF Acquire, Release, AcquireReadLock, AcquireWriteLock, Asks,
                    ReleaseReadLock, ReleaseWriteLock, Leaves
      <3>2. Owns(p) => pc'[p] = "unlocking"
        BY <2>5 DEF Acquire, Release, AcquireReadLock, AcquireWriteLock, Asks,
                    ReleaseReadLock, ReleaseWriteLock, Leaves, Goes, Owns, RWInv, StagesOK
      <3>. QED  BY <2>1, <2>2, <3>1, <3>2 DEF Owns
    <2>6. CASE Lock(p)
      <3>1. writerFlag /\ ~Owns(p)
        BY <2>6, LockServes DEF Lock, Owns
      <3>. QED  BY <2>1, <2>2, <3>1
    <2>7. CASE Unlock(p)
      <3>1. writerFlag /\ (Owns(p) => pc'[p] = "clearing")
        BY <2>7, UnlockServes DEF Owns
      <3>. QED  BY <2>1, <2>2, <3>1 DEF Owns
    <2>8. CASE RegisterWriteFlagCheck(p) \/ IncrementReaders(p)
      <3>1. writerFlag /\ ~Owns(p)
        BY <2>8 DEF RegisterWriteFlagCheck, IncrementReaders, Listens, Owns
      <3>. QED  BY <2>1, <2>2, <3>1
    <2>9. CASE RegisterWriteFlagAndReadersCheck(p)
      <3>1. pc[p] = "registering" /\ ~Owns(p) /\ p \in Writers
        BY <2>9 DEF RegisterWriteFlagAndReadersCheck, Owns, RWInv, StagesOK
      <3>2. writerFlag \/ pc'[p] = "writing"
        BY <2>9 DEF RegisterWriteFlagAndReadersCheck, Listens, Goes, RWInv, StagesOK
      <3>. QED  BY <2>1, <2>2, <3>1, <3>2
    <2>. QED
      BY <1>3, <2>3, <2>4, <2>5, <2>6, <2>7, <2>8, <2>9
      DEF BrokerStep, DecrementReaders, SetWriteFlagToFalseAndBroadcast
  <1>. QED  BY <1>1, <1>2, <1>3 DEF Next

(* The writer flag is up only for a writer that will take it down: when no *)
(* writer's connection ends inside, for any number of readers and writers, *)
(* readers that die anywhere, and listeners answered long after they were  *)
(* registered or on a lock object that has been dropped.                   *)
THEOREM FlagsAreOwned ==
  ASSUME Mortal \cap Writers = {}
  PROVE  Spec => []FlagOwned
PROOF
  <1>1. Init => FlagInv
    BY InitRWInv DEF Init, FlagInv, DeadAreMortal, FlagOwned
  <1>2. FlagInv /\ [Next]_vars => FlagInv'
    BY RWInvStep, MortalStep, FlagStep DEF FlagInv
  <1>3. FlagInv => FlagOwned
    BY DEF FlagInv
  <1>. QED  BY <1>1, <1>2, <1>3, PTL DEF Spec
=============================================================================
