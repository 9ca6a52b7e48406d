------------------------------- MODULE ReadPref -------------------------------
(***************************************************************************)
(* The read-preferring readers/writers protocol: RWLockClient of           *)
(* rw-client.ts over the lock table of broker-1.ts.  Readers count         *)
(* themselves on ReadKey; the first of them is to lock WriteKey, the last  *)
(* to unlock it.  Writers lock WriteKey.                                   *)
(*                                                                         *)
(* As in WritePref a process has one frame under way at a time, the broker *)
(* takes it in one turn, and the answer moves the process on at once.  A   *)
(* reader makes three lock calls: its own uuid begins the read, WriteCall  *)
(* locks the write key, EndCall ends the read.  The release function       *)
(* passes endRead nothing but the write key, so endRead always takes the   *)
(* path its source calls the fallback.                                     *)
(***************************************************************************)
EXTENDS LockTurns

CONSTANTS
  ReadKey, WriteKey,  \* two of the Keys
  Readers, Writers,   \* calls, of one process each
  EndCall,   \* for each reader, the lock call by which it ends
  WriteCall  \* for each reader, the lock call that locks the write key

VARIABLES
  locks,
  pc,
  last    \* readers whose end-read was answered with readersCount 1

vars == <<locks, pc, last>>

\* The process that makes call u.
Caller(u) == IF u \in Readers \cup Writers THEN u
             ELSE CHOOSE p \in Readers : u \in {EndCall[p], WriteCall[p]}

\* What the answer to a granted call makes its caller send next; n is its
\* readersCount.
AfterGrant(u, n) ==
  CASE u \in Writers -> "writing"
    [] u \in Readers -> IF n = 1 THEN "locking-write" ELSE "unlocking-read"
    [] u = WriteCall[Caller(u)] -> "unlocking-read"
    [] OTHER -> "ending"

-----------------------------------------------------------------------------
\* The object of key k becomes l; p goes to s unless this turn grants its call.
Turns(p, k, l, s) ==
  /\ locks' = [locks EXCEPT ![k] = l]
  /\ LET granted == Granted(locks[k], locks'[k])
         callOf(q) == CHOOSE u \in granted : Caller(u) = q
         ended == {Caller(u) : u \in {v \in granted : \E q \in Readers : v = EndCall[q]}}
     IN  /\ pc' = [q \in DOMAIN pc |->
                     IF \E u \in granted : Caller(u) = q
                     THEN AfterGrant(callOf(q), locks'[k].readers)
                     ELSE IF q = p THEN s ELSE pc[q]]
         /\ last' = IF locks'[k].readers = 1 THEN last \cup ended ELSE last \ ended

Sends(p, from, s) == pc[p] = from /\ pc' = [pc EXCEPT ![p] = s] /\ UNCHANGED <<locks, last>>

BeginRead(p) == p \in Readers /\ Sends(p, "idle", "beginning")
EndRead(p)   == Sends(p, "reading", "locking-end")
BeginWrite(p) == p \in Writers /\ Sends(p, "idle", "locking-write")
EndWrite(p)   == Sends(p, "writing", "releasing-write")

\* The broker's turns on the frames of p.
LockRead(p) ==
  pc[p] = "beginning" /\ Turns(p, ReadKey, Locked(locks[ReadKey], p), "waiting")

LockWrite(p) ==
  /\ pc[p] = "locking-write"
  /\ Turns(p, WriteKey,
           Locked(locks[WriteKey], IF p \in Writers THEN p ELSE WriteCall[p]), "waiting")

UnlockRead(p) ==
  pc[p] = "unlocking-read" /\ Turns(p, ReadKey, Freed(locks[ReadKey], {p}), "reading")

LockEnd(p) ==
  pc[p] = "locking-end" /\ Turns(p, ReadKey, Locked(locks[ReadKey], EndCall[p]), "waiting")

UnlockEnd(p) ==
  /\ pc[p] = "ending"
  /\ Turns(p, ReadKey, Freed(locks[ReadKey], {EndCall[p]}),
           IF p \in last THEN "releasing-write" ELSE "idle")

\* A forced unlock that names no call: whoever holds the write key loses it.
ReleaseWrite(p) ==
  /\ pc[p] = "releasing-write"
  /\ Turns(p, WriteKey, IF locks[WriteKey] = None THEN None ELSE Freed(locks[WriteKey], Holders),
           "idle")

-----------------------------------------------------------------------------
Init ==
  /\ locks = [k \in Keys |-> None]
  /\ pc = [p \in Readers \cup Writers |-> "idle"]
  /\ last = {}

Next ==
  \E p \in Readers \cup Writers :
    \/ BeginRead(p) \/ EndRead(p) \/ BeginWrite(p) \/ EndWrite(p)
    \/ LockRead(p) \/ LockWrite(p) \/ UnlockRead(p) \/ LockEnd(p) \/ UnlockEnd(p)
    \/ ReleaseWrite(p)

Spec == Init /\ [][Next]_vars

(* What the decision trees promise: "writers are exclusive and wait for    *)
(* all readers to finish".                                                 *)
WritersWaitForReaders ==
  \A w \in Writers, r \in Readers : ~(pc[w] = "writing" /\ pc[r] = "reading")
=============================================================================
