------------------------------ MODULE WritePref ------------------------------
(***************************************************************************)
(* The write-preferring readers/writers protocol: RWLockWritePrefClient    *)
(* of rw-write-preferred-client.ts over the lock table and the             *)
(* readers/writers handlers of broker-1.ts.  One key; each process is one  *)
(* caller with a connection of its own, and its uuid names its lock call.  *)
(*                                                                         *)
(* A process sends one frame at a time and waits for the answer.  pc says  *)
(* which frame is on its way to the broker, which answer the process is    *)
(* waiting for, or that it is inside.  The broker takes the frame in one   *)
(* turn, and the process is moved on in the same step: answers overtake    *)
(* nothing, because a process does nothing else while it waits.            *)
(*                                                                         *)
(* Not here: retries and deadlines of the lock call (Client and Broker1),  *)
(* and the fallback paths of a release that is given no release function.  *)
(***************************************************************************)
EXTENDS LockTurns

CONSTANTS
  Key,      \* the key
  Writers,  \* the processes that write; the others read
  Mortal,   \* processes whose connection may end
  Rounds    \* bound: how often each process asks for the lock

ASSUME WritePrefAssumption ==
  /\ Key \in Keys
  /\ Writers \subseteq Uuids
  /\ Mortal \subseteq Uuids
  /\ Rounds \in [Uuids -> Nat]
  /\ \A p \in Uuids : Req[p].key = Key /\ Req[p].rw = "none" /\ Req[p].from # {}

VARIABLES
  lock,       \* locks.get(Key)
  writerFlag, \* its writerFlag
  listeners,  \* registeredListeners[Key]
  pc, rounds

vars == <<lock, writerFlag, listeners, pc, rounds>>

Readers == Uuids \ Writers

\* bound: the listener's closure still has the lock object of the table, not
\* one that was collected since.
Listener == [id : Uuids, bound : BOOLEAN]

Stage == {"idle", "checking", "listed", "locking", "queued", "counting", "reading",
          "uncounting", "registering", "writing", "unlocking", "clearing", "dead"}

Goes(p, s) == pc' = [pc EXCEPT ![p] = s]

\* What a process sends when its base lock is granted, and when a broadcast
\* answers it.
AfterGrant(p)  == IF p \in Writers THEN "registering" ELSE "counting"
AfterListed(p) == IF p \in Writers THEN "writing" ELSE "locking"

-----------------------------------------------------------------------------
(* Calls of the users.                                                     *)

Asks(p, s) ==
  /\ pc[p] = "idle" /\ rounds[p] < Rounds[p]
  /\ rounds' = [rounds EXCEPT ![p] = @ + 1]
  /\ Goes(p, s)
  /\ UNCHANGED <<lock, writerFlag, listeners>>

AcquireReadLock(p)  == p \in Readers /\ Asks(p, "checking")
AcquireWriteLock(p) == p \in Writers /\ Asks(p, "locking")

Leaves(p, from, s) ==
  /\ pc[p] = from
  /\ Goes(p, s)
  /\ UNCHANGED <<lock, writerFlag, listeners, rounds>>

ReleaseReadLock(p)  == Leaves(p, "reading", "uncounting")
ReleaseWriteLock(p) == Leaves(p, "writing", "unlocking")

-----------------------------------------------------------------------------
(* lock and unlock frames.                                                 *)

\* The lock object becomes l; p goes to s unless this very turn grants it.
Turns(p, l, s) ==
  /\ lock' = l
  /\ pc' = [q \in Uuids |-> IF q \in Granted(lock, lock') /\ pc[q] # "dead" THEN AfterGrant(q)
                            ELSE IF q = p THEN s ELSE pc[q]]
  /\ UNCHANGED <<writerFlag, listeners, rounds>>

Lock(p) == pc[p] = "locking" /\ Turns(p, Locked(lock, p), "queued")

Unlock(p) ==
  /\ pc[p] = "unlocking"
  /\ Turns(p, Freed(lock, {p}), IF p \in Writers THEN "clearing" ELSE "idle")

-----------------------------------------------------------------------------
(* The readers/writers handlers.                                           *)

\* Fault: one listener per broadcast is called.
Broadcast_One(p, l, flag, s) ==
  LET woken == IF listeners = {} THEN {} ELSE {CHOOSE x \in listeners : TRUE}
  IN  /\ lock' = [l EXCEPT !.readers = @ + Cardinality({x \in woken : x.id \in Readers})]
      /\ writerFlag' = (flag \/ \E x \in woken : x.id \in Writers)
      /\ listeners' = listeners \ woken
      /\ pc' = [q \in Uuids |-> IF q = p THEN s
                                ELSE IF \E x \in woken : x.id = q THEN AfterListed(q) ELSE pc[q]]

\* broadcast(), entered with lock object l and writer flag `flag`: every
\* listener is called and answered, readers and writers alike.
Broadcast(p, l, flag, s) ==
  LET called == {x.id : x \in listeners}
      bound  == {x.id : x \in {y \in listeners : y.bound}}
  IN  /\ lock' = [l EXCEPT !.readers = @ + Cardinality(bound \cap Readers)]
      /\ writerFlag' = (flag \/ bound \cap Writers # {})
      /\ listeners' = {}
      /\ pc' = [q \in Uuids |-> IF q = p THEN s
                                ELSE IF q \in called /\ pc[q] # "dead" THEN AfterListed(q)
                                ELSE pc[q]]

Listens(p) ==
  /\ listeners' = listeners \cup {[id |-> p, bound |-> TRUE]}
  /\ Goes(p, "listed")
  /\ UNCHANGED writerFlag

RegisterWriteFlagCheck(p) ==
  /\ pc[p] = "checking"
  /\ lock' = Object(lock)
  /\ IF writerFlag THEN Listens(p)
     ELSE Goes(p, "locking") /\ UNCHANGED <<writerFlag, listeners>>
  /\ UNCHANGED rounds

\* A single reader does not keep a writer out of its section.
RegisterWriteFlagAndReadersCheck(p) ==
  /\ pc[p] = "registering"
  /\ lock' = Object(lock)
  /\ IF writerFlag \/ Object(lock).readers > 1 THEN Listens(p)
     ELSE writerFlag' = TRUE /\ Goes(p, "writing") /\ UNCHANGED listeners
  /\ UNCHANGED rounds

IncrementReaders(p) ==
  /\ pc[p] = "counting"
  /\ lock' = [Object(lock) EXCEPT !.readers = @ + 1]
  /\ Goes(p, "reading")
  /\ UNCHANGED <<writerFlag, listeners, rounds>>

\* Fault: the last reader does not broadcast, and the count starts afresh.
DecrementReaders_Resets(p) ==
  /\ pc[p] = "uncounting"
  /\ lock' = [Object(lock) EXCEPT !.readers = 0]
  /\ Goes(p, "unlocking")
  /\ UNCHANGED <<writerFlag, listeners, rounds>>

DecrementReaders(p) ==
  /\ pc[p] = "uncounting"
  /\ LET left == Larger(0, Object(lock).readers - 1)
         l == [Object(lock) EXCEPT !.readers = left]
     IN  IF left < 1 THEN Broadcast(p, l, writerFlag, "unlocking")
         ELSE lock' = l /\ Goes(p, "unlocking") /\ UNCHANGED <<writerFlag, listeners>>
  /\ UNCHANGED rounds

\* Fault: the flag is left as it is.
SetWriteFlagToFalseAndBroadcast_Keeps(p) ==
  /\ pc[p] = "clearing"
  /\ Broadcast(p, Object(lock), writerFlag, "idle")
  /\ UNCHANGED rounds

SetWriteFlagToFalseAndBroadcast(p) ==
  /\ pc[p] = "clearing"
  /\ Broadcast(p, Object(lock), FALSE, "idle")
  /\ UNCHANGED rounds

-----------------------------------------------------------------------------
(* The lock object is collected, and connections end.                      *)

\* A lock() call on another key finds the object emptied long enough ago.
Collect ==
  /\ Idling(lock)
  /\ lock' = None
  /\ writerFlag' = FALSE
  /\ listeners' = {[x EXCEPT !.bound = FALSE] : x \in listeners}
  /\ UNCHANGED <<pc, rounds>>

\* The connection of p ends: its place in the queue and its hold go, but not
\* its listener, nor what it has counted or flagged.
ConnectionEnds(p) ==
  /\ p \in Mortal /\ pc[p] \notin {"idle", "dead"}
  /\ LET l == [lock EXCEPT !.notify = Without(@, p)]
     IN  IF lock = None THEN Goes(p, "dead") /\ UNCHANGED <<lock, writerFlag, listeners, rounds>>
         ELSE IF Holding(l, p)
         THEN /\ lock' = Freed(l, {p})
              /\ pc' = [q \in Uuids |-> IF q = p THEN "dead"
                                        ELSE IF q \in Granted(lock, lock') THEN AfterGrant(q)
                                        ELSE pc[q]]
              /\ UNCHANGED <<writerFlag, listeners, rounds>>
         ELSE lock' = l /\ Goes(p, "dead") /\ UNCHANGED <<writerFlag, listeners, rounds>>

-----------------------------------------------------------------------------
Init ==
  /\ lock = None
  /\ writerFlag = FALSE
  /\ listeners = {}
  /\ pc = [p \in Uuids |-> "idle"]
  /\ rounds = [p \in Uuids |-> 0]

BrokerStep(p) ==
  \/ Lock(p) \/ Unlock(p)
  \/ RegisterWriteFlagCheck(p) \/ RegisterWriteFlagAndReadersCheck(p)
  \/ IncrementReaders(p) \/ DecrementReaders(p) \/ SetWriteFlagToFalseAndBroadcast(p)

Release(p) == ReleaseReadLock(p) \/ ReleaseWriteLock(p)
Acquire(p) == AcquireReadLock(p) \/ AcquireWriteLock(p)

Next == Collect \/ \E p \in Uuids : Acquire(p) \/ Release(p) \/ BrokerStep(p) \/ ConnectionEnds(p)

Spec == Init /\ [][Next]_vars

\* The broker takes every frame that arrives, and users leave their sections.
FairSpec == Spec /\ \A p \in Uuids : WF_vars(BrokerStep(p) \/ Release(p))

-----------------------------------------------------------------------------
(* Properties.                                                             *)

(* The broker's reader count never falls below the readers that are inside  *)
(* or about to leave, through collected lock objects, listeners bound to   *)
(* such an object, clamped decrements and dead readers: it is what a       *)
(* writer's admission relies on.                                           *)
CountCovers ==
  LET inside == {p \in Readers : pc[p] \in {"reading", "uncounting"}}
  IN  inside # {} => lock # None /\ lock.readers >= Cardinality(inside)

(* The writer flag is up only on behalf of a writer that is inside or has  *)
(* yet to take it down, though listeners raise it long after they were     *)
(* registered: a flag nobody owns would keep every later reader out.       *)
FlagOwned == writerFlag => \E p \in Writers : pc[p] \in {"writing", "unlocking", "clearing"}

(* A reader told to wait for the writer is let in, whoever raises the flag *)
(* again, whatever is collected and whichever reader dies meanwhile.       *)
ListedReadersProceed == \A p \in Readers : pc[p] = "listed" ~> pc[p] # "listed"

(* What the decision trees promise: a writer is inside alone.              *)
WriterAlone ==
  \A w \in Writers : pc[w] = "writing" =>
    \A p \in Uuids \ {w} : pc[p] \notin {"reading", "writing"}
=============================================================================
