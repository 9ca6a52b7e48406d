------------------------------ MODULE FencedLock ------------------------------
(***************************************************************************)
(* What a user of the lock service relies on, with nothing of how it is    *)
(* done: the lock that formal/model.mjs explores, for every key, with as   *)
(* many slots as the key has, and without its clock and its queue.         *)
(*                                                                         *)
(* A grant finds a free slot and carries a fence above every fence granted *)
(* on the key before.  A grant ends for reasons that are not told here (a  *)
(* release, a ttl, a crash), several at once if need be; it never changes  *)
(* its fence and never comes back.                                         *)
(***************************************************************************)
EXTENDS Naturals, FiniteSets

CONSTANTS Keys, Holders, MaxToken,
          Limit  \* slots of each key

VARIABLES
  fences,    \* the fence of each live grant, 0 where there is none
  lastFence  \* the last fence granted on each key

lockVars == <<fences, lastFence>>

Free == [h \in Holders |-> 0]

Init == /\ fences = [k \in Keys |-> Free]
        /\ lastFence = [k \in Keys |-> 0]

\* Also to a caller that holds already, because it asked twice.
Grant(k, h) ==
  /\ Cardinality({g \in Holders \ {h} : fences[k][g] # 0}) < Limit[k]
  /\ \E fence \in (lastFence[k] + 1)..MaxToken :
       /\ fences' = [fences EXCEPT ![k][h] = fence]
       /\ lastFence' = [lastFence EXCEPT ![k] = fence]

End ==
  /\ \E over \in SUBSET (Keys \X Holders) :
       fences' = [k \in Keys |-> [h \in Holders |-> IF <<k, h>> \in over THEN 0
                                                    ELSE fences[k][h]]]
  /\ UNCHANGED lastFence

Next == End \/ \E k \in Keys, h \in Holders : Grant(k, h)

Spec == Init /\ [][Next]_lockVars
=============================================================================
