-------------------------- MODULE LockObjectProofs --------------------------
(***************************************************************************)
(* What the operators of LockObject return: every change lock() makes to a *)
(* lock object yields a lock object, and its queue operations only move    *)
(* the entries that are there.  And what a turn of LockTurns does to the   *)
(* holders and the queue.                                                  *)
(***************************************************************************)
EXTENDS LockTurns, FiniteSetTheorems, WellFoundedInduction, TLAPS

\* The queues a key may have: plain calls wait only at the key they ask for.
HomeQueue(k) ==
  {q \in Seq(Waiter) :
     \A i \in 1..Len(q) : q[i].id \in Uuids => Req[q[i].id].key = k}

\* The lock objects a key may have.
HomeLock(k) == {l \in LockObj : l.notify \in HomeQueue(k)}

-----------------------------------------------------------------------------
(* How to show, and how to use, that a sequence is a queue of key k.       *)
LEMMA HomeQueueIntro ==
  ASSUME NEW k, NEW q \in Seq(Waiter),
         \A i \in 1..Len(q) : q[i].id \in Uuids => Req[q[i].id].key = k
  PROVE  q \in HomeQueue(k)
PROOF
  BY DEF HomeQueue

LEMMA HomeQueueElim ==
  ASSUME NEW k, NEW q \in HomeQueue(k)
  PROVE  /\ q \in Seq(Waiter) /\ Len(q) \in Nat
         /\ \A i \in 1..Len(q) : /\ q[i] \in Waiter
                                 /\ q[i].id \in Uuids => Req[q[i].id].key = k
PROOF
  <1>1. q \in Seq(Waiter)
    BY DEF HomeQueue
  <1>2. \A i \in 1..Len(q) : q[i].id \in Uuids => Req[q[i].id].key = k
    BY DEF HomeQueue
  <1>. QED  BY <1>1, <1>2

(* A fresh lock object has its type, holds nobody and queues nobody.       *)
LEMMA DefaultLockObjectType ==
  ASSUME NEW seed \in 0..MaxToken, NEW k \in Keys
  PROVE  DefaultLockObject(seed) \in HomeLock(k)
PROOF
  <1>1. DefaultLockObject(seed) \in LockObj
    BY NumberAssumption, NameAssumption DEF DefaultLockObject, LockObj, Hold, NoHold
  <1>2. DefaultLockObject(seed).notify = <<>>
    BY DEF DefaultLockObject
  <1>3. <<>> \in HomeQueue(k)
    <2>1. <<>> \in Seq(Waiter) /\ \A i \in 1..Len(<<>>) : FALSE
      OBVIOUS
    <2>. DEFINE q == <<>>
    <2>2. q \in Seq(Waiter) /\ \A i \in 1..Len(q) : FALSE
      BY <2>1
    <2>. HIDE DEF q
    <2>3. q \in HomeQueue(k)
      BY <2>2, HomeQueueIntro
    <2>. QED  BY <2>3 DEF q
  <1>. QED  BY <1>1, <1>2, <1>3 DEF HomeLock

(* Writing a request's limits keeps the type and everything else.          *)
LEMMA WithLimitsType ==
  ASSUME NEW k \in Keys, NEW l \in HomeLock(k), NEW u \in Uuids
  PROVE  /\ WithLimits(l, u) \in HomeLock(k)
         /\ WithLimits(l, u).nextFencingToken = l.nextFencingToken
         /\ WithLimits(l, u).lockholders = l.lockholders
PROOF
  <1>1. Req[u] \in LockRequest
    BY RequestAssumption
  <1>2. \A x, y, z \in Nat : FirstGiven(x, y, z) \in Nat
    BY DEF FirstGiven
  <1>3. /\ Req[u].limit \in Nat /\ Req[u].max \in Nat
        /\ DefaultMaxRead \in Nat /\ l.maxRead \in Nat /\ l.maxWrite \in Nat
    BY <1>1, NumberAssumption DEF LockRequest, HomeLock, LockObj
  <1>. DEFINE
    asked(stored, default) ==
      FirstGiven(Req[u].limit, Req[u].max, IF stored # 0 THEN stored ELSE default)
    mx == IF Req[u].max # 0 THEN Req[u].max ELSE l.max
    mr == IF Req[u].rw = "begin-read" THEN asked(l.maxRead, DefaultMaxRead) ELSE l.maxRead
    mw == IF Req[u].rw = "begin-write" THEN asked(l.maxWrite, 1) ELSE l.maxWrite
  <1>4. mr \in Nat /\ mw \in Nat
    BY <1>2, <1>3
  <1>5. mx \in Nat \ {0}
    BY <1>3 DEF HomeLock, LockObj
  <1>6. WithLimits(l, u) = [l EXCEPT !.max = mx, !.maxRead = mr, !.maxWrite = mw]
    BY DEF WithLimits
  <1>. HIDE DEF mx, mr, mw
  <1>. QED  BY <1>4, <1>5, <1>6 DEF HomeLock, LockObj

(* Counting a reader keeps the type and everything else.                   *)
LEMMA CountReaderType ==
  ASSUME NEW k \in Keys, NEW l \in HomeLock(k), NEW u \in Uuids
  PROVE  /\ CountReader(l, u) \in HomeLock(k)
         /\ CountReader(l, u).nextFencingToken = l.nextFencingToken
         /\ CountReader(l, u).lockholders = l.lockholders
PROOF
  <1>. DEFINE r == CASE Req[u].rw = "begin-read"                  -> l.readers + 1
                     [] Req[u].rw = "end-read" /\ l.readers > 0   -> l.readers - 1
                     [] OTHER                                     -> l.readers
  <1>1. l.readers \in Nat
    BY DEF HomeLock, LockObj
  <1>2. r \in Nat
    BY <1>1
  <1>3. CountReader(l, u) = [l EXCEPT !.readers = r]
    BY DEF CountReader
  <1>. HIDE DEF r
  <1>. QED  BY <1>2, <1>3 DEF HomeLock, LockObj

-----------------------------------------------------------------------------
(* Removing one entry leaves a queue of the same key.                      *)
LEMMA WithoutHome ==
  ASSUME NEW k \in Keys, NEW q \in HomeQueue(k), NEW id
  PROVE  Without(q, id) \in HomeQueue(k)
PROOF
  <1>1. CASE ~Queued(q, id)
    BY <1>1 DEF Without
  <1>2. CASE Queued(q, id)
    <2>. DEFINE p == CHOOSE i \in 1..Len(q) : q[i].id = id
                r == [j \in 1..(Len(q) - 1) |-> IF j < p THEN q[j] ELSE q[j + 1]]
    <2>1. Without(q, id) = r
      BY <1>2 DEF Without
    <2>2. p \in 1..Len(q) /\ Len(q) \in Nat /\ q \in Seq(Waiter)
      BY <1>2 DEF Queued, HomeQueue
    <2>. HIDE DEF p
    <2>3. \A j \in 1..(Len(q) - 1) : \E i \in 1..Len(q) : r[j] = q[i]
      <3>. TAKE j \in 1..(Len(q) - 1)
      <3>1. CASE j < p   BY <3>1, <2>2
      <3>2. CASE ~(j < p)
        <4>. WITNESS j + 1 \in 1..Len(q)
        <4>. QED  BY <3>2, <2>2
      <3>. QED  BY <3>1, <3>2
    <2>4. Len(q) - 1 \in Nat
      BY <2>2
    <2>5. \A i \in 1..Len(q) : q[i] \in Waiter
      BY <2>2
    <2>6. r \in Seq(Waiter) /\ Len(r) = Len(q) - 1
      BY <2>3, <2>4, <2>5
    <2>. HIDE DEF r
    <2>. QED  BY <2>1, <2>3, <2>6 DEF HomeQueue
  <1>. QED  BY <1>1, <1>2

(* So does dequeuing the first n.                                          *)
LEMMA AfterFirstHome ==
  ASSUME NEW k \in Keys, NEW q \in HomeQueue(k), NEW n \in Nat
  PROVE  AfterFirst(n, q) \in HomeQueue(k)
PROOF
  <1>. DEFINE r == AfterFirst(n, q)
  <1>1. /\ q \in Seq(Waiter) /\ Len(q) \in Nat
        /\ \A i \in 1..Len(q) : q[i].id \in Uuids => Req[q[i].id].key = k
    BY HomeQueueElim
  <1>2. /\ r \in Seq(Waiter)
        /\ \A j \in 1..Len(r) : j + n \in 1..Len(q) /\ r[j] = q[j + n]
    BY <1>1 DEF AfterFirst
  <1>. HIDE DEF r
  <1>3. \A j \in 1..Len(r) : r[j].id \in Uuids => Req[r[j].id].key = k
    BY <1>1, <1>2
  <1>4. r \in HomeQueue(k)
    BY <1>2, <1>3, HomeQueueIntro
  <1>. QED  BY <1>4 DEF r

(* A waiter that belongs there may be put at either end.                   *)
LEMMA AppendHome ==
  ASSUME NEW k \in Keys, NEW q \in HomeQueue(k), NEW w \in Waiter,
         w.id \in Uuids => Req[w.id].key = k
  PROVE  Append(q, w) \in HomeQueue(k) /\ <<w>> \o q \in HomeQueue(k)
PROOF
  <1>. DEFINE r == Append(q, w)
              s == <<w>> \o q
  <1>1. /\ q \in Seq(Waiter) /\ Len(q) \in Nat
        /\ \A i \in 1..Len(q) : q[i].id \in Uuids => Req[q[i].id].key = k
    BY HomeQueueElim
  <1>2. /\ r \in Seq(Waiter) /\ Len(r) = Len(q) + 1
        /\ \A j \in 1..Len(r) : r[j] = IF j = Len(r) THEN w ELSE q[j]
    BY <1>1
  <1>3. /\ s \in Seq(Waiter) /\ Len(s) = Len(q) + 1
        /\ \A j \in 1..Len(s) : s[j] = IF j = 1 THEN w ELSE q[j - 1]
    BY <1>1
  <1>. HIDE DEF r, s
  <1>4. \A j \in 1..Len(r) : r[j].id \in Uuids => Req[r[j].id].key = k
    BY <1>1, <1>2
  <1>5. \A j \in 1..Len(s) : s[j].id \in Uuids => Req[s[j].id].key = k
    <2>. TAKE j \in 1..Len(s)
    <2>1. CASE j = 1   BY <2>1, <1>3
    <2>2. CASE j # 1
      <3>1. j - 1 \in 1..Len(q) /\ s[j] = q[j - 1]
        BY <2>2, <1>1, <1>3
      <3>. QED  BY <3>1, <1>1
    <2>. QED  BY <2>1, <2>2
  <1>6. r \in HomeQueue(k) /\ s \in HomeQueue(k)
    BY <1>2, <1>3, <1>4, <1>5, HomeQueueIntro
  <1>. QED  BY <1>6 DEF r, s

(* Wherever lock() puts a call it cannot admit, the queue stays one of its *)
(* key.                                                                    *)
LEMMA EnqueueHome ==
  ASSUME NEW u \in Uuids, NEW ws \in Sockets, NEW retry \in BOOLEAN,
         NEW q \in HomeQueue(Req[u].key)
  PROVE  Enqueue(q, u, ws, retry) \in HomeQueue(Req[u].key)
PROOF
  <1>. DEFINE w == [id |-> u, ws |-> ws]
  <1>1. w \in Waiter /\ (w.id \in Uuids => Req[w.id].key = Req[u].key)
    BY DEF Waiter, Holders
  <1>2. Req[u].key \in Keys
    BY RequestAssumption DEF LockRequest
  <1>3. Without(q, u) \in HomeQueue(Req[u].key)
    BY <1>2, WithoutHome
  <1>4. \A p \in HomeQueue(Req[u].key) :
          Append(p, w) \in HomeQueue(Req[u].key) /\ <<w>> \o p \in HomeQueue(Req[u].key)
    BY <1>1, <1>2, AppendHome
  <1>. HIDE DEF w
  <1>5. Enqueue(q, u, ws, retry) \in {<<w>> \o Without(q, u), q, <<w>> \o q, Append(q, w)}
    BY DEF Enqueue, w
  <1>. QED  BY <1>3, <1>4, <1>5

-----------------------------------------------------------------------------
(* Who is in a queue, and how often.                                       *)

\* No id stands twice in q.
Unrepeated(q) == \A i, j \in 1..Len(q) : q[i].id = q[j].id => i = j

(* remove() takes one id out of such a queue, and nothing else.            *)
LEMMA WithoutIds ==
  ASSUME NEW q \in Seq(Waiter), Unrepeated(q), NEW id
  PROVE  /\ Unrepeated(Without(q, id))
         /\ \A h : Queued(Without(q, id), h) <=> Queued(q, h) /\ h # id
         /\ \A j \in 1..Len(Without(q, id)) : \E i \in 1..Len(q) : Without(q, id)[j] = q[i]
PROOF
  <1>1. CASE ~Queued(q, id)
    BY <1>1 DEF Without
  <1>2. CASE Queued(q, id)
    <2>. DEFINE p == CHOOSE i \in 1..Len(q) : q[i].id = id
                r == [j \in 1..(Len(q) - 1) |-> IF j < p THEN q[j] ELSE q[j + 1]]
    <2>1. Without(q, id) = r
      BY <1>2 DEF Without
    <2>2. p \in 1..Len(q) /\ q[p].id = id /\ Len(q) \in Nat
      BY <1>2 DEF Queued
    <2>. HIDE DEF p
    <2>3. Len(r) = Len(q) - 1
      <3>1. \A j \in 1..(Len(q) - 1) : r[j] \in Waiter
        BY <2>2
      <3>2. r \in Seq(Waiter)
        BY <2>2, <3>1
      <3>. QED  BY <2>2, <3>2
    <2>4. \A j \in 1..Len(r) : r[j] = IF j < p THEN q[j] ELSE q[j + 1]
      BY <2>3
    <2>. HIDE DEF r
    <2>5. Unrepeated(r)
      BY <2>2, <2>3, <2>4 DEF Unrepeated
    <2>6. ASSUME NEW h, Queued(r, h)
          PROVE  Queued(q, h) /\ h # id
      BY <2>2, <2>3, <2>4, <2>6 DEF Queued, Unrepeated
    <2>7. ASSUME NEW h, Queued(q, h), h # id
          PROVE  Queued(r, h)
      <3>1. PICK i \in 1..Len(q) : q[i].id = h
        BY <2>7 DEF Queued
      <3>2. CASE i < p
        BY <2>2, <2>3, <2>4, <3>1, <3>2 DEF Queued
      <3>3. CASE i > p
        <4>1. i - 1 \in 1..Len(r) /\ r[i - 1] = q[i]
          BY <2>2, <2>3, <2>4, <3>1, <3>3
        <4>. QED  BY <3>1, <4>1 DEF Queued
      <3>. QED  BY <2>2, <2>7, <3>1, <3>2, <3>3
    <2>8. ASSUME NEW j \in 1..Len(r)
          PROVE  \E i \in 1..Len(q) : r[j] = q[i]
      <3>1. j \in 1..Len(q) /\ j + 1 \in 1..Len(q)
        BY <2>2, <2>3
      <3>. QED  BY <2>4, <3>1
    <2>. QED  BY <2>1, <2>5, <2>6, <2>7, <2>8
  <1>. QED  BY <1>1, <1>2

(* deq(n) takes the ids of the first n entries out, and nothing else.      *)
LEMMA AfterFirstIds ==
  ASSUME NEW q \in Seq(Waiter), Unrepeated(q), NEW n \in Nat
  PROVE  /\ Unrepeated(AfterFirst(n, q))
         /\ \A h : Queued(AfterFirst(n, q), h) <=>
                     \E j \in 1..Len(q) : q[j].id = h /\ n < j
         /\ \A j \in 1..Len(AfterFirst(n, q)) : \E i \in 1..Len(q) : AfterFirst(n, q)[j] = q[i]
PROOF
  <1>. DEFINE r == AfterFirst(n, q)
  <1>1. /\ Len(q) \in Nat /\ Len(r) \in Nat
        /\ \A j \in 1..Len(r) : j + n \in 1..Len(q) /\ r[j] = q[j + n]
        /\ \A j \in 1..Len(q) : n < j => j - n \in 1..Len(r) /\ r[j - n] = q[j]
    BY DEF AfterFirst
  <1>. HIDE DEF r
  <1>2. Unrepeated(r)
    <2>. SUFFICES ASSUME NEW i \in 1..Len(r), NEW j \in 1..Len(r), r[i].id = r[j].id
                  PROVE  i = j
      BY DEF Unrepeated
    <2>1. /\ i + n \in 1..Len(q) /\ r[i] = q[i + n]
          /\ j + n \in 1..Len(q) /\ r[j] = q[j + n]
      BY <1>1
    <2>2. i + n = j + n
      BY <2>1 DEF Unrepeated
    <2>. QED  BY <1>1, <2>2
  <1>3. ASSUME NEW h, Queued(r, h)
        PROVE  \E j \in 1..Len(q) : q[j].id = h /\ n < j
    <2>1. PICK j \in 1..Len(r) : r[j].id = h
      BY <1>3 DEF Queued
    <2>2. j + n \in 1..Len(q) /\ q[j + n].id = h /\ n < j + n
      BY <1>1, <2>1
    <2>. QED  BY <2>2
  <1>4. ASSUME NEW h, NEW j \in 1..Len(q), q[j].id = h, n < j
        PROVE  Queued(r, h)
    BY <1>1, <1>4 DEF Queued
  <1>5. \A j \in 1..Len(r) : \E i \in 1..Len(q) : r[j] = q[i]
    BY <1>1
  <1>. QED  BY <1>2, <1>3, <1>4, <1>5 DEF r

(* A newcomer at either end leaves the queue free of repetitions.          *)
LEMMA AppendIds ==
  ASSUME NEW q \in Seq(Waiter), Unrepeated(q), NEW w \in Waiter, ~Queued(q, w.id)
  PROVE  /\ Unrepeated(Append(q, w)) /\ Unrepeated(<<w>> \o q)
         /\ \A h : /\ Queued(Append(q, w), h) <=> Queued(q, h) \/ h = w.id
                   /\ Queued(<<w>> \o q, h) <=> Queued(q, h) \/ h = w.id
PROOF
  <1>. DEFINE r == Append(q, w)
              s == <<w>> \o q
  <1>1. Len(q) \in Nat
    OBVIOUS
  <1>2. /\ Len(r) = Len(q) + 1
        /\ \A j \in 1..Len(r) : r[j] = IF j = Len(r) THEN w ELSE q[j]
    OBVIOUS
  <1>3. /\ Len(s) = Len(q) + 1
        /\ \A j \in 1..Len(s) : s[j] = IF j = 1 THEN w ELSE q[j - 1]
    OBVIOUS
  <1>. HIDE DEF r, s
  <1>4. Unrepeated(r)
    BY <1>1, <1>2 DEF Unrepeated, Queued
  <1>5. Unrepeated(s)
    <2>. SUFFICES ASSUME NEW i \in 1..Len(s), NEW j \in 1..Len(s), s[i].id = s[j].id, i < j
                  PROVE  FALSE
      BY <1>1, <1>3 DEF Unrepeated
    <2>1. s[j] = q[j - 1] /\ j - 1 \in 1..Len(q)
      BY <1>1, <1>3
    <2>2. CASE i = 1
      BY <1>3, <2>1, <2>2 DEF Queued
    <2>3. CASE i # 1
      <3>1. s[i] = q[i - 1] /\ i - 1 \in 1..Len(q)
        BY <1>1, <1>3, <2>3
      <3>2. i - 1 = j - 1
        BY <2>1, <3>1 DEF Unrepeated
      <3>. QED  BY <1>1, <1>3, <3>2
    <2>. QED  BY <2>2, <2>3
  <1>6. \A h : Queued(r, h) <=> Queued(q, h) \/ h = w.id
    BY <1>1, <1>2 DEF Queued
  <1>7. ASSUME NEW h
        PROVE  Queued(s, h) <=> Queued(q, h) \/ h = w.id
    <2>1. CASE Queued(s, h)
      <3>1. PICK j \in 1..Len(s) : s[j].id = h
        BY <2>1 DEF Queued
      <3>2. j = 1 \/ (j - 1 \in 1..Len(q) /\ s[j] = q[j - 1])
        BY <1>1, <1>3
      <3>. QED  BY <1>3, <2>1, <3>1, <3>2 DEF Queued
    <2>2. CASE Queued(q, h)
      <3>1. PICK j \in 1..Len(q) : q[j].id = h
        BY <2>2 DEF Queued
      <3>2. j + 1 \in 1..Len(s) /\ s[j + 1] = q[j]
        BY <1>1, <1>3
      <3>. QED  BY <2>2, <3>1, <3>2 DEF Queued
    <2>3. CASE h = w.id
      BY <1>1, <1>3, <2>3 DEF Queued
    <2>. QED  BY <2>1, <2>2, <2>3
  <1>8. /\ Unrepeated(r) /\ Unrepeated(s)
        /\ \A h : /\ Queued(r, h) <=> Queued(q, h) \/ h = w.id
                  /\ Queued(s, h) <=> Queued(q, h) \/ h = w.id
    BY <1>4, <1>5, <1>6, <1>7
  <1>. QED  BY <1>8 DEF r, s

(* Whatever lock() does with a call it cannot admit, the call is in the    *)
(* queue once and nobody else moves in or out.                             *)
LEMMA EnqueueIds ==
  ASSUME NEW u \in Uuids, NEW ws \in Sockets, NEW retry \in BOOLEAN,
         NEW q \in HomeQueue(Req[u].key), Unrepeated(q)
  PROVE  /\ Unrepeated(Enqueue(q, u, ws, retry))
         /\ \A h : Queued(Enqueue(q, u, ws, retry), h) <=> Queued(q, h) \/ h = u
PROOF
  <1>. DEFINE w == [id |-> u, ws |-> ws]
              r == Without(q, u)
  <1>1. w \in Waiter /\ w.id = u
    BY DEF Waiter, Holders
  <1>2. Req[u].key \in Keys /\ Req[u].force \in BOOLEAN
    BY RequestAssumption DEF LockRequest
  <1>3. q \in Seq(Waiter) /\ r \in Seq(Waiter)
    BY <1>2, WithoutHome, HomeQueueElim
  <1>4. Unrepeated(r) /\ \A h : Queued(r, h) <=> Queued(q, h) /\ h # u
    BY <1>3, WithoutIds
  <1>5. ASSUME NEW p \in Seq(Waiter), Unrepeated(p), ~Queued(p, u)
        PROVE  \A t \in {<<w>> \o p, Append(p, w)} :
                 Unrepeated(t) /\ \A h : Queued(t, h) <=> Queued(p, h) \/ h = u
    <2>1. ~Queued(p, w.id)
      BY <1>5
    <2>. HIDE DEF w
    <2>2. /\ Unrepeated(Append(p, w)) /\ Unrepeated(<<w>> \o p)
          /\ \A h : /\ Queued(Append(p, w), h) <=> Queued(p, h) \/ h = w.id
                    /\ Queued(<<w>> \o p, h) <=> Queued(p, h) \/ h = w.id
      BY <1>1, <1>5, <2>1, AppendIds
    <2>. QED  BY <1>1, <2>2
  <1>6. CASE Req[u].force
    <2>1. Enqueue(q, u, ws, retry) = <<w>> \o r
      BY <1>2, <1>6 DEF Enqueue
    <2>. HIDE DEF w, r
    <2>2. Unrepeated(<<w>> \o r) /\ \A h : Queued(<<w>> \o r, h) <=> Queued(r, h) \/ h = u
      BY <1>3, <1>4, <1>5
    <2>. QED  BY <1>4, <2>1, <2>2
  <1>7. CASE ~Req[u].force /\ Queued(q, u)
    BY <1>2, <1>7 DEF Enqueue
  <1>8. CASE ~Req[u].force /\ ~Queued(q, u)
    <2>1. Enqueue(q, u, ws, retry) \in {<<w>> \o q, Append(q, w)}
      BY <1>2, <1>8 DEF Enqueue
    <2>. HIDE DEF w
    <2>. QED  BY <1>3, <1>5, <1>8, <2>1
  <1>. QED  BY <1>6, <1>7, <1>8

-----------------------------------------------------------------------------
(* Whole turns.                                                            *)

\* The lock objects that turns leave: a call is queued once, at its own key.
TidyLock(k) == {l \in HomeLock(k) : Unrepeated(l.notify)}

Ids(q)    == {h \in Holders : Queued(q, h)}
HeldIn(l) == IF l = None THEN {} ELSE HoldersOf(l)
IdsIn(l)  == IF l = None THEN {} ELSE Ids(l.notify)

LEMMA TidyElim ==
  ASSUME NEW k \in Keys, NEW l \in TidyLock(k)
  PROVE  /\ l \in LockObj /\ l \in HomeLock(k) /\ l # None /\ l.notify \in HomeQueue(k)
         /\ l.notify \in Seq(Waiter) /\ Len(l.notify) \in Nat /\ Unrepeated(l.notify)
         /\ \A i \in 1..Len(l.notify) : /\ l.notify[i].id \in Ids(l.notify)
                                        /\ l.notify[i] \in Waiter
         /\ \A h \in Ids(l.notify) \cap Uuids : Req[h].key = k
PROOF
  <1>1. l \in LockObj /\ l.notify \in HomeQueue(k) /\ Unrepeated(l.notify)
    BY DEF TidyLock, HomeLock
  <1>. DEFINE q == l.notify
  <1>. HIDE DEF q
  <1>2. /\ q \in Seq(Waiter) /\ Len(q) \in Nat
        /\ \A i \in 1..Len(q) : q[i] \in Waiter /\ (q[i].id \in Uuids => Req[q[i].id].key = k)
    BY <1>1, HomeQueueElim DEF q
  <1>3. \A i \in 1..Len(q) : q[i].id \in Ids(q)
    BY <1>2 DEF Ids, Queued, Waiter
  <1>4. \A h \in Ids(q) \cap Uuids : Req[h].key = k
    BY <1>2 DEF Ids, Queued
  <1>. QED  BY <1>1, <1>2, <1>3, <1>4, NullAssumption DEF q, TidyLock

(* A set of positions has a last one.                                      *)
LEMMA LastPosition ==
  ASSUME NEW n \in Nat, NEW S \in SUBSET (1..n), S # {}
  PROVE  \E i \in S : \A j \in S : j <= i
PROOF
  <1>. DEFINE Less == {ss \in Nat \X Nat : ss[1] < ss[2]}
              Rest == {n - i : i \in S}
  <1>1. IsWellFoundedOn(Less, Nat)
    BY NatLessThanWellFounded DEF OpToRel
  <1>2. Rest \subseteq Nat /\ Rest # {}
    <2>1. \A i \in S : n - i \in Nat
      OBVIOUS
    <2>2. PICK i \in S : TRUE
      OBVIOUS
    <2>3. n - i \in Rest
      BY <2>2
    <2>. QED  BY <2>1, <2>3
  <1>. HIDE DEF Less
  <1>3. PICK m \in Rest : \A b \in Rest : ~ (<<b, m>> \in Less)
    BY <1>1, <1>2, WFMin
  <1>4. PICK i \in S : m = n - i
    BY <1>3
  <1>5. ASSUME NEW j \in S
        PROVE  j <= i
    <2>1. ~ (<<n - j, m>> \in Less) /\ n - j \in Nat /\ m \in Nat
      BY <1>2, <1>3
    <2>2. ~ (n - j < m)
      BY <2>1 DEF Less
    <2>. QED  BY <1>4, <2>1, <2>2
  <1>. QED  BY <1>5

LEMMA ServedPositions ==
  ASSUME NEW k \in Keys, NEW l \in TidyLock(k), NEW alive
  PROVE  Served(l, alive) \subseteq 1..Len(l.notify)
PROOF
  <1>1. Len(l.notify) \in Nat /\ l.notify \in Seq(Waiter)
    BY TidyElim
  <1>2. l.notify # <<>> => Len(l.notify) \in 1..Len(l.notify)
    BY <1>1
  <1>. QED  BY <1>2 DEF Served

(* Another queue is no other hold.                                         *)
LEMMA QueueReplaced ==
  ASSUME NEW k \in Keys, NEW l \in TidyLock(k), NEW q \in HomeQueue(k), Unrepeated(q)
  PROVE  /\ [l EXCEPT !.notify = q] \in TidyLock(k)
         /\ HoldersOf([l EXCEPT !.notify = q]) = HoldersOf(l)
         /\ [l EXCEPT !.notify = q].notify = q /\ [l EXCEPT !.notify = q].readers = l.readers
PROOF
  <1>1. l \in LockObj /\ q \in Seq(Waiter)
    BY TidyElim, HomeQueueElim
  <1>. DEFINE m == [l EXCEPT !.notify = q]
  <1>2. /\ m \in LockObj /\ m.notify = q /\ m.readers = l.readers
        /\ m.lockholders = l.lockholders
    BY <1>1 DEF LockObj
  <1>. HIDE DEF m
  <1>3. m \in TidyLock(k) /\ HoldersOf(m) = HoldersOf(l)
    BY <1>2 DEF TidyLock, HomeLock, HoldersOf, Holding
  <1>. QED  BY <1>2, <1>3 DEF m

(* Grants give holds to the calls in S, and change nothing else.           *)
LEMMA InstalledHolds ==
  ASSUME NEW k \in Keys, NEW l \in TidyLock(k), NEW S \in SUBSET Holders
  PROVE  /\ Installed(l, S) \in TidyLock(k)
         /\ HoldersOf(Installed(l, S)) = HoldersOf(l) \cup S
         /\ Installed(l, S).notify = l.notify /\ Installed(l, S).readers = l.readers
PROOF
  <1>1. l \in LockObj /\ l \in HomeLock(k) /\ Unrepeated(l.notify)
    BY TidyElim
  <1>2. [ws |-> None, token |-> 1] \in Hold
    BY NumberAssumption, TurnsAssumption DEF Hold
  <1>. DEFINE f == [h \in Holders |-> IF h \in S THEN [ws |-> None, token |-> 1]
                                                 ELSE l.lockholders[h]]
  <1>3. f \in [Holders -> Hold]
    BY <1>1, <1>2 DEF LockObj
  <1>4. Installed(l, S) = [l EXCEPT !.lockholders = f]
    BY DEF Installed
  <1>5. \A h \in Holders : f[h].token # 0 <=> h \in S \/ l.lockholders[h].token # 0
    OBVIOUS
  <1>. HIDE DEF f
  <1>. QED  BY <1>1, <1>3, <1>4, <1>5 DEF TidyLock, HomeLock, LockObj, HoldersOf, Holding

LEMMA DesertedHolds ==
  ASSUME NEW k \in Keys, NEW l \in TidyLock(k), NEW S
  PROVE  /\ Deserted(l, S) \in TidyLock(k)
         /\ HoldersOf(Deserted(l, S)) = HoldersOf(l) \ S
         /\ Deserted(l, S).notify = l.notify /\ Deserted(l, S).readers = l.readers
         /\ Deserted(l, S).max = l.max
PROOF
  <1>1. l \in LockObj /\ l \in HomeLock(k) /\ Unrepeated(l.notify)
    BY TidyElim
  <1>2. NoHold \in Hold
    BY NumberAssumption DEF Hold, NoHold
  <1>. DEFINE f == [h \in Holders |-> IF h \in S THEN NoHold ELSE l.lockholders[h]]
  <1>3. f \in [Holders -> Hold]
    BY <1>1, <1>2 DEF LockObj
  <1>4. Deserted(l, S) = [l EXCEPT !.lockholders = f]
    BY DEF Deserted
  <1>5. \A h \in Holders : f[h].token # 0 <=> h \notin S /\ l.lockholders[h].token # 0
    BY DEF NoHold
  <1>. HIDE DEF f
  <1>. QED  BY <1>1, <1>3, <1>4, <1>5 DEF TidyLock, HomeLock, LockObj, HoldersOf, Holding

\* Whom the drain loop grants.
ServedIds(l, alive) == {l.notify[i].id : i \in Served(l, alive)}

(* They are few, and queued.                                               *)
LEMMA ServedAreQueued ==
  ASSUME NEW k \in Keys, NEW l \in TidyLock(k), NEW alive
  PROVE  ServedIds(l, alive) \subseteq Ids(l.notify) /\ IsFiniteSet(ServedIds(l, alive))
PROOF
  <1>. DEFINE served == Served(l, alive)
              g == [i \in served |-> l.notify[i].id]
  <1>1. served \subseteq 1..Len(l.notify) /\ Len(l.notify) \in Nat
    BY ServedPositions, TidyElim
  <1>2. ServedIds(l, alive) \subseteq Ids(l.notify)
    BY <1>1, TidyElim DEF ServedIds
  <1>3. IsFiniteSet(served)
    <2>1. IsFiniteSet(1..Len(l.notify))
      BY <1>1, FS_Interval
    <2>. QED  BY <1>1, <2>1, FS_Subset
  <1>. HIDE DEF served
  <1>4. g \in Surjection(served, ServedIds(l, alive))
    BY DEF Surjection, ServedIds, served
  <1>. QED  BY <1>2, <1>3, <1>4, FS_Surjection

(* The drain loop grants waiters, and takes nobody in.                     *)
LEMMA WokenHolds ==
  ASSUME NEW k \in Keys, NEW l \in TidyLock(k), NEW alive
  PROVE  /\ Woken(l, alive) \in TidyLock(k)
         /\ HoldersOf(Woken(l, alive)) = HoldersOf(l) \cup ServedIds(l, alive)
         /\ Ids(Woken(l, alive).notify) \subseteq Ids(l.notify) \ ServedIds(l, alive)
         /\ Woken(l, alive).readers = l.readers
PROOF
  <1>. DEFINE served == Served(l, alive)
              ids    == ServedIds(l, alive)
              last   == CHOOSE i \in served : \A j \in served : j <= i
  <1>1. served \subseteq 1..Len(l.notify)
    BY ServedPositions
  <1>2. ids \subseteq Ids(l.notify) /\ ids \subseteq Holders
    BY ServedAreQueued DEF Ids
  <1>3. CASE served = {}
    BY <1>2, <1>3 DEF Woken, ServedIds
  <1>4. CASE served # {}
    <2>1. last \in 1..Len(l.notify) /\ \A j \in served : j <= last
      <3>1. \E i \in served : \A j \in served : j <= i
        BY <1>1, <1>4, LastPosition, TidyElim
      <3>. QED  BY <1>1, <3>1
    <2>0. ASSUME NEW j \in 1..Len(l.notify), last < j
          PROVE  l.notify[j].id \notin ids
      <3>. SUFFICES ASSUME NEW i \in served, l.notify[i].id = l.notify[j].id  PROVE FALSE
        BY DEF ServedIds
      <3>1. i = j
        BY <1>1, TidyElim DEF Unrepeated
      <3>2. i <= last /\ i \in Nat /\ last \in Nat /\ Len(l.notify) \in Nat
        BY <1>1, <2>1, TidyElim
      <3>. QED  BY <2>0, <3>1, <3>2
    <2>. DEFINE m == Installed(l, ids)
                q == AfterFirst(last, l.notify)
    <2>2. Woken(l, alive) = [m EXCEPT !.notify = AfterFirst(last, @)]
      BY <1>4 DEF Woken, ServedIds
    <2>. HIDE DEF last, ids, served
    <2>3. /\ m \in TidyLock(k) /\ HoldersOf(m) = HoldersOf(l) \cup ids
          /\ m.notify = l.notify /\ m.readers = l.readers
      BY <1>2, InstalledHolds
    <2>4. q \in HomeQueue(k) /\ Unrepeated(q) /\ Ids(q) \subseteq Ids(l.notify) \ ids
      <3>1. /\ last \in Nat /\ l.notify \in HomeQueue(k) /\ l.notify \in Seq(Waiter)
            /\ Unrepeated(l.notify) /\ Len(l.notify) \in Nat
        BY <2>1, TidyElim
      <3>2. q \in HomeQueue(k) /\ Unrepeated(q)
        BY <3>1, AfterFirstHome, AfterFirstIds
      <3>3. \A h : Queued(q, h) => Queued(l.notify, h) /\ h \notin ids
        <4>1. \A h : Queued(q, h) <=> \E j \in 1..Len(l.notify) : l.notify[j].id = h /\ last < j
          BY <3>1, AfterFirstIds
        <4>. QED  BY <2>0, <4>1 DEF Queued
      <3>. QED  BY <3>2, <3>3 DEF Ids
    <2>5. Woken(l, alive) = [m EXCEPT !.notify = q]
      BY <2>2, <2>3
    <2>. HIDE DEF m, q
    <2>6. /\ Woken(l, alive) \in TidyLock(k) /\ HoldersOf(Woken(l, alive)) = HoldersOf(m)
          /\ Woken(l, alive).notify = q /\ Woken(l, alive).readers = m.readers
      BY <2>3, <2>4, <2>5, QueueReplaced
    <2>. QED  BY <1>2, <2>3, <2>4, <2>6 DEF ids
  <1>. QED  BY <1>3, <1>4

(* unlock() and the end of a ttl.                                          *)
LEMMA FreedHolds ==
  ASSUME NEW k \in Keys, NEW l \in TidyLock(k), NEW S, NEW alive
  PROVE  /\ FreedAmong(l, S, alive) \in TidyLock(k)
         /\ HoldersOf(FreedAmong(l, S, alive))
              = (HoldersOf(l) \ S) \cup ServedIds(Deserted(l, S), alive)
         /\ ServedIds(Deserted(l, S), alive) \subseteq Ids(l.notify)
         /\ IsFiniteSet(ServedIds(Deserted(l, S), alive))
         /\ Ids(FreedAmong(l, S, alive).notify)
              \subseteq Ids(l.notify) \ ServedIds(Deserted(l, S), alive)
         /\ FreedAmong(l, S, alive).readers = l.readers
PROOF
  <1>. DEFINE left == Deserted(l, S)
  <1>1. /\ left \in TidyLock(k) /\ HoldersOf(left) = HoldersOf(l) \ S
        /\ left.notify = l.notify /\ left.readers = l.readers
    BY DesertedHolds
  <1>0. ServedIds(left, alive) \subseteq Ids(l.notify) /\ IsFiniteSet(ServedIds(left, alive))
    BY <1>1, ServedAreQueued
  <1>2. \/ FreedAmong(l, S, alive) = Woken(left, alive)
        \/ left.notify = <<>> /\ FreedAmong(l, S, alive) = [left EXCEPT !.emptied = TRUE]
    BY DEF FreedAmong
  <1>. HIDE DEF left
  <1>3. CASE FreedAmong(l, S, alive) = Woken(left, alive)
    BY <1>0, <1>1, <1>3, WokenHolds DEF left
  <1>4. CASE left.notify = <<>> /\ FreedAmong(l, S, alive) = [left EXCEPT !.emptied = TRUE]
    <2>1. ServedIds(left, alive) = {}
      BY <1>4 DEF ServedIds, Served
    <2>2. left \in LockObj
      BY <1>1, TidyElim
    <2>3. [left EXCEPT !.emptied = TRUE] \in TidyLock(k)
      BY <1>1, <2>2 DEF TidyLock, HomeLock, LockObj
    <2>4. HoldersOf([left EXCEPT !.emptied = TRUE]) = HoldersOf(left)
      BY <2>2 DEF LockObj, HoldersOf, Holding
    <2>. QED  BY <1>0, <1>1, <1>4, <2>1, <2>2, <2>3, <2>4 DEF left, LockObj
  <1>. QED  BY <1>2, <1>3, <1>4

(* A lock object is there, or is made.                                     *)
LEMMA ObjectHolds ==
  ASSUME NEW k \in Keys, NEW l \in TidyLock(k) \cup {None}
  PROVE  /\ Object(l) \in TidyLock(k)
         /\ HoldersOf(Object(l)) = HeldIn(l) /\ Ids(Object(l).notify) = IdsIn(l)
PROOF
  <1>1. CASE l = None
    <2>. DEFINE d == DefaultLockObject(0)
    <2>1. d \in HomeLock(k) /\ d.notify = <<>> /\ HoldersOf(d) = {}
      BY DefaultLockObjectType, NumberAssumption
      DEF DefaultLockObject, HoldersOf, Holding, NoHold
    <2>2. Unrepeated(<<>>) /\ Ids(<<>>) = {}
      BY DEF Unrepeated, Ids, Queued
    <2>. QED  BY <1>1, <2>1, <2>2 DEF Object, TidyLock, HeldIn, IdsIn
  <1>2. CASE l # None
    BY <1>2 DEF Object, HeldIn, IdsIn
  <1>. QED  BY <1>1, <1>2

(* Its count of readers is its own affair.                                 *)
LEMMA ReadersReplaced ==
  ASSUME NEW k \in Keys, NEW l \in TidyLock(k), NEW n \in Nat
  PROVE  /\ [l EXCEPT !.readers = n] \in TidyLock(k)
         /\ HoldersOf([l EXCEPT !.readers = n]) = HoldersOf(l)
         /\ [l EXCEPT !.readers = n].notify = l.notify
         /\ [l EXCEPT !.readers = n].readers = n
PROOF
  <1>1. l \in LockObj
    BY TidyElim
  <1>. QED  BY <1>1 DEF TidyLock, HomeLock, LockObj, HoldersOf, Holding

(* lock(): the caller holds, or is queued.                                 *)
LEMMA LockedHolds ==
  ASSUME NEW u \in Uuids, NEW ws \in Sockets, NEW retry \in BOOLEAN,
         NEW l \in TidyLock(Req[u].key) \cup {None}, Req[u].rw = "none"
  PROVE  /\ LockedFrom(l, u, ws, retry) \in TidyLock(Req[u].key)
         /\ LockedFrom(l, u, ws, retry).readers = Object(l).readers
         /\ IF l # None /\ IsFull(WithLimits(l, u), u)
            THEN /\ HoldersOf(LockedFrom(l, u, ws, retry)) = HeldIn(l)
                 /\ Ids(LockedFrom(l, u, ws, retry).notify) = IdsIn(l) \cup {u}
            ELSE /\ HoldersOf(LockedFrom(l, u, ws, retry)) = HeldIn(l) \cup {u}
                 /\ Ids(LockedFrom(l, u, ws, retry).notify) = IdsIn(l)
PROOF
  <1>. DEFINE k == Req[u].key
              o == Object(l)
              e == [o EXCEPT !.emptied = FALSE]
              asked == WithLimits(e, u)
              got == LockedFrom(l, u, ws, retry)
  <1>1. k \in Keys /\ u \in Holders
    BY RequestAssumption DEF LockRequest, Holders
  <1>2. o \in TidyLock(k) /\ HoldersOf(o) = HeldIn(l) /\ Ids(o.notify) = IdsIn(l)
    BY <1>1, ObjectHolds
  <1>3. o \in LockObj /\ o \in HomeLock(k)
    BY <1>1, <1>2, TidyElim
  <1>. HIDE DEF o
  <1>4. /\ e \in HomeLock(k) /\ e.lockholders = o.lockholders /\ e.notify = o.notify
        /\ e.readers = o.readers /\ e.max = o.max
    BY <1>3 DEF HomeLock, LockObj
  <1>5. /\ asked.notify = o.notify /\ asked.readers = o.readers
        /\ asked.lockholders = o.lockholders
        /\ asked.max = IF Req[u].max # 0 THEN Req[u].max ELSE o.max
    <2>1. e \in LockObj
      BY <1>4 DEF HomeLock
    <2>. HIDE DEF e
    <2>. QED  BY <1>4, <2>1 DEF WithLimits, LockObj
  <1>. HIDE DEF e
  <1>6. asked \in TidyLock(k) /\ HoldersOf(asked) = HeldIn(l) /\ Ids(asked.notify) = IdsIn(l)
    <2>1. asked \in HomeLock(k)
      BY <1>1, <1>4, WithLimitsType
    <2>. QED  BY <1>2, <1>5, <2>1 DEF TidyLock, HoldersOf, Holding
  <1>7. ASSUME l # None
        PROVE  IsFull(asked, u) <=> IsFull(WithLimits(l, u), u)
    <2>1. o = l
      BY <1>7 DEF o, Object
    <2>2. /\ WithLimits(l, u).lockholders = l.lockholders
          /\ WithLimits(l, u).max = IF Req[u].max # 0 THEN Req[u].max ELSE l.max
      BY <1>3, <2>1 DEF WithLimits, LockObj
    <2>. QED  BY <1>5, <2>1, <2>2 DEF IsFull, Count, HoldersOf, Holding
  <1>8. CASE l # None /\ IsFull(WithLimits(l, u), u)
    <2>. DEFINE q == Enqueue(o.notify, u, ws, retry)
    <2>1. got = [asked EXCEPT !.notify = q]
      BY <1>5, <1>7, <1>8 DEF LockedFrom, o, e
    <2>2. o.notify \in HomeQueue(k) /\ Unrepeated(o.notify)
      BY <1>1, <1>2, TidyElim
    <2>3. q \in HomeQueue(k) /\ Unrepeated(q) /\ \A h : Queued(q, h) <=> Queued(o.notify, h) \/ h = u
      BY <2>2, EnqueueHome, EnqueueIds
    <2>4. Ids(q) = IdsIn(l) \cup {u}
      BY <1>1, <1>2, <2>3 DEF Ids
    <2>. HIDE DEF q, asked
    <2>. HIDE DEF k
    <2>6. /\ [asked EXCEPT !.notify = q] \in TidyLock(k)
          /\ [asked EXCEPT !.notify = q].readers = asked.readers
          /\ [asked EXCEPT !.notify = q].notify = q
          /\ HoldersOf([asked EXCEPT !.notify = q]) = HoldersOf(asked)
      BY <1>1, <1>6, <2>3, QueueReplaced
    <2>. HIDE DEF got
    <2>. QED  BY <1>5, <1>6, <1>8, <2>1, <2>4, <2>6 DEF got, o, k
  <1>9. CASE ~(l # None /\ IsFull(WithLimits(l, u), u))
    <2>1. got = Installed(CountReader(asked, u), {u})
      BY <1>7, <1>9 DEF LockedFrom, o, e
    <2>2. CountReader(asked, u) = asked
      <3>1. asked \in LockObj
        BY <1>1, <1>6, TidyElim
      <3>. HIDE DEF asked
      <3>. QED  BY <3>1 DEF CountReader, LockObj
    <2>. HIDE DEF asked
    <2>3. /\ Installed(asked, {u}) \in TidyLock(k)
          /\ HoldersOf(Installed(asked, {u})) = HoldersOf(asked) \cup {u}
          /\ Installed(asked, {u}).notify = asked.notify
          /\ Installed(asked, {u}).readers = asked.readers
      BY <1>1, <1>6, InstalledHolds
    <2>. QED  BY <1>5, <1>6, <1>9, <2>1, <2>2, <2>3 DEF o
  <1>. QED  BY <1>8, <1>9

(* A connection ends, or a client gives up waiting.                        *)
LEMMA WithoutTidy ==
  ASSUME NEW k \in Keys, NEW l \in TidyLock(k), NEW h
  PROVE  /\ [l EXCEPT !.notify = Without(@, h)] \in TidyLock(k)
         /\ HoldersOf([l EXCEPT !.notify = Without(@, h)]) = HoldersOf(l)
         /\ Ids([l EXCEPT !.notify = Without(@, h)].notify) = Ids(l.notify) \ {h}
         /\ [l EXCEPT !.notify = Without(@, h)].readers = l.readers
PROOF
  <1>. DEFINE q == Without(l.notify, h)
  <1>1. /\ l \in LockObj /\ l \in HomeLock(k) /\ l.notify \in HomeQueue(k)
        /\ l.notify \in Seq(Waiter) /\ Unrepeated(l.notify)
    BY TidyElim
  <1>2. q \in HomeQueue(k)
    BY <1>1, WithoutHome
  <1>3. Unrepeated(q) /\ \A i : Queued(q, i) <=> Queued(l.notify, i) /\ i # h
    BY <1>1, WithoutIds
  <1>4. [l EXCEPT !.notify = Without(@, h)] = [l EXCEPT !.notify = q]
    OBVIOUS
  <1>. HIDE DEF q
  <1>5. Ids(q) = Ids(l.notify) \ {h}
    BY <1>3 DEF Ids
  <1>6. /\ [l EXCEPT !.notify = q] \in TidyLock(k)
        /\ HoldersOf([l EXCEPT !.notify = q]) = HoldersOf(l)
        /\ [l EXCEPT !.notify = q].notify = q /\ [l EXCEPT !.notify = q].readers = l.readers
    BY <1>2, <1>3, QueueReplaced
  <1>. QED  BY <1>4, <1>5, <1>6
=============================================================================
