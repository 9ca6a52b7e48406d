------------------------------ MODULE LockTurns ------------------------------
(***************************************************************************)
(* Whole turns of a broker's event loop on one lock object: a lock frame   *)
(* and an unlock, each with the grants it leads to.  Modules that study a  *)
(* protocol on top of the lock table use these; Broker1 has the same       *)
(* handlers in single steps, with the tables left out here.  Tokens and    *)
(* the sockets of holders are not told apart: a hold carries token 1.      *)
(***************************************************************************)
EXTENDS LockObject

\* There is a token to carry.
ASSUME TurnsAssumption == MaxToken # 0

Object(l) == IF l = None THEN DefaultLockObject(0) ELSE l

Installed(l, S) ==
  [l EXCEPT !.lockholders = [h \in Holders |-> IF h \in S THEN [ws |-> None, token |-> 1]
                                                          ELSE @[h]]]

\* lock(): the call is granted with its reader counted, or queued.
LockedFrom(l, u, ws, retry) ==
  LET asked == WithLimits([Object(l) EXCEPT !.emptied = FALSE], u)
  IN  IF l # None /\ IsFull(asked, u)
      THEN [asked EXCEPT !.notify = Enqueue(@, u, ws, retry)]
      ELSE Installed(CountReader(asked, u), {u})

\* The positions of the queue that the drain loop grants, for the sockets that
\* are writable: each live waiter until the slots are used up (a waiter that
\* holds already, because its client retried, uses none).  When the loop runs
\* out of live waiters it grants the last entry, whether its socket lives or not.
Served(l, alive) ==
  LET q     == l.notify
      free  == Capacity(l) - Count(l)
      live  == {i \in 1..Len(q) : q[i].ws \in alive}
      before(i) == Cardinality({j \in live : j < i /\ ~Holding(l, q[j].id)})
      all   == Cardinality({j \in live : ~Holding(l, q[j].id)}) < free
  IN  IF q = <<>> \/ free <= 0 THEN {}
      ELSE {i \in live : before(i) < free} \cup IF all THEN {Len(q)} ELSE {}

\* The drain loop: what it serves holds, and what it passed over is dropped.  No
\* reader is counted.
Woken(l, alive) ==
  LET served == Served(l, alive)
      last   == CHOOSE i \in served : \A j \in served : j <= i
  IN  IF served = {} THEN l
      ELSE [Installed(l, {l.notify[i].id : i \in served}) EXCEPT !.notify = AfterFirst(last, @)]

Deserted(l, S) == [l EXCEPT !.lockholders = [h \in Holders |-> IF h \in S THEN NoHold ELSE @[h]]]

\* Fault: waiters follow the last holder only, as on a mutex.
FreedAmong_Last(l, S, alive) ==
  LET left == Deserted(l, S)
  IN  IF Count(left) > 0 THEN left
      ELSE IF left.notify = <<>> THEN [left EXCEPT !.emptied = TRUE] ELSE Woken(left, alive)

\* unlock() and the end of a ttl: the holders in S leave, and waiters follow.
FreedAmong(l, S, alive) ==
  LET left == Deserted(l, S)
  IN  IF Count(left) < 1 /\ left.notify = <<>> THEN [left EXCEPT !.emptied = TRUE]
                                               ELSE Woken(left, alive)

\* The same where every waiter is connected and no call is retried.
Locked(l, u) == LockedFrom(l, u, CHOOSE s \in Req[u].from : TRUE, FALSE)
Freed(l, S)  == FreedAmong(l, S, Sockets)

\* The calls that a turn which leaves l as m has granted.
Granted(l, m) == {h \in Holders : Holding(m, h) /\ ~(l # None /\ Holding(l, h))}

\* What cleanUpLocks may drop: readers and the writer flag are not looked at.
Idling(l) == l # None /\ l.emptied /\ Count(l) < 1 /\ l.notify = <<>>
=============================================================================
