----------------------------- MODULE LiveMutex -----------------------------
(***************************************************************************)
(* The whole service: clients and the broker, joined by connections.       *)
(*                                                                         *)
(* A step of a client leaves the broker alone, and a step of the broker    *)
(* leaves the clients alone, except for the frames they exchange: the      *)
(* broker's handlers take their frame from the head of toBroker, and what  *)
(* they send (out) is appended to toClient.  The connection events of the  *)
(* broker are tied to those of its clients.                                *)
(***************************************************************************)
EXTENDS Broker1Safety, Client

Arrange == INSTANCE SequencesExt

VARIABLE
  revoked  \* history: calls that lost a hold which nobody unlocked

liveMutexVars == <<vars, clientVars, revoked>>

\* Requests of the service's clients: no composites, no readers or writers,
\* from the sockets of the client the call belongs to.
ASSUME ServiceAssumption ==
  \A u \in Uuids : /\ Req[u].from = {Dial[Owner[u]][i] : i \in 1..Len(Dial[Owner[u]])}
                   /\ Req[u].wait /\ ~Req[u].force /\ Req[u].rw = "none"

-----------------------------------------------------------------------------
(* What the broker sends.                                                  *)

FramesTo(s) == Arrange!SetToSeq({f \in out' : f.to = s})

Delivered(s) == IF s \in listening THEN toClient[s] \o FramesTo(s) ELSE <<>>

ClientsRest == UNCHANGED <<calls, tablesOfClient, links>>
BrokerRests == Silent /\ UNCHANGED <<locks, tables, sockets, authority, stack, lastToken>>

\* Holds that end in this step without an unlock.
Ended == {u \in Uuids : /\ Held(Req[u].key, u) /\ ~Held(Req[u].key, u)'
                        /\ \A f \in out' : f.kind # "unlocked" \/ f.id # u}

\* A step of the broker that reads no frame.
BrokerSends ==
  /\ toClient' = [s \in Sockets |-> Delivered(s)]
  /\ UNCHANGED toBroker
  /\ ClientsRest
  /\ revoked' = revoked \cup Ended

\* A handler that reads the next frame of socket s.
Taken(s) ==
  /\ toBroker' = [toBroker EXCEPT ![s] = Tail(@)]
  /\ toClient' = [r \in Sockets |-> Delivered(r)]
  /\ ClientsRest
  /\ revoked' = revoked \cup Ended

-----------------------------------------------------------------------------
(* Frames.                                                                 *)

TakesLock(s, f) ==
  /\ f.kind = "lock"
  /\ \/ LockRefused(f.id, s) \/ LockOnNewKey(f.id, s) \/ LockOnNewKeyFails(f.id, s)
     \/ LockOnFreeKey(f.id, s) \/ LockOnFullKey(f.id, s, f.retry)

TakesUnlock(s, f) ==
  LET k == Req[f.id].key
  IN  /\ f.kind = "unlock"
      /\ \/ UnlockUnknownKey(k, f.id, s) \/ UnlockHolder(k, f.id, s)
         \/ UnlockLate(k, f.id, s) \/ UnlockRejected(k, f.id, s, FALSE)

TakesReceived(s, f) ==
  /\ f.kind = "received"
  /\ IF timeouts[Req[f.id].key] = None THEN BrokerRests ELSE LockReceived(Req[f.id].key, s)

TakesRejected(s, f) ==
  /\ f.kind = "rejected"
  /\ IF locks[Req[f.id].key] = None THEN BrokerRests ELSE LockReceivedRejected(f.id, s)

TakesGiveUp(s, f) ==
  /\ f.kind = "give-up"
  /\ IF locks[Req[f.id].key] = None THEN BrokerRests ELSE LockClientTimeout(f.id, s)

\* The frame of an outdated client makes the broker clean up its connection.
TakesVersion(s, f) == f.kind = "version" /\ VersionMismatch(s)

TakesFrame(s) ==
  /\ Hears(s) /\ toBroker[s] # <<>>
  /\ LET f == Head(toBroker[s])
     IN  /\ \/ TakesLock(s, f) \/ TakesUnlock(s, f) \/ TakesReceived(s, f)
            \/ TakesRejected(s, f) \/ TakesGiveUp(s, f) \/ TakesVersion(s, f)
         /\ Taken(s)

-----------------------------------------------------------------------------
(* Connections.                                                            *)

\* The connection is lost, or the broker destroys it: two seconds after a
\* version mismatch, or when the client confirms it.
LinkBreaks(s) == BreakConnection(s) /\ Lost({s}) /\ UNCHANGED revoked

\* The broker is told of the end of a connection once it has read all of it.
ConnectionEnds(s) ==
  /\ s \notin live
  /\ \E c \in Clients : \E i \in 1..dialled[c] : Dial[c][i] = s
  /\ s \in writable => toBroker[s] = <<>>
  /\ SocketEnds(s)
  /\ BrokerSends

\* What a closed connection still brings is ignored.
TakesAfterClose(s) ==
  /\ Idle /\ s \in lmxClosed /\ toBroker[s] # <<>>
  /\ IF Head(toBroker[s]).kind = "confirmed" /\ s \in writable
     THEN LinkBreaks(s)
     ELSE /\ toBroker' = [toBroker EXCEPT ![s] = Tail(@)]
          /\ BrokerRests /\ ClientsRest /\ UNCHANGED <<toClient, revoked>>

\* The broker is closed, or its process dies, and another is started: every
\* connection is lost.
BrokerRestarts ==
  /\ Restart /\ Lost(Sockets)
  /\ revoked' = revoked \cup Ended

-----------------------------------------------------------------------------
LiveInit == Init /\ ClientInit /\ revoked = {}

ClientStep == ClientNext /\ BrokerRests /\ UNCHANGED revoked

BrokerTimer == (TickTtl \/ Reelections) /\ BrokerSends
BrokerRuns  == Internal /\ BrokerSends
Links       == \E s \in Sockets :
                 LinkBreaks(s) \/ ConnectionEnds(s) \/ TakesAfterClose(s)
BrokerReads == \E s \in Sockets : TakesFrame(s)

LiveNext == \/ ClientStep \/ BrokerReads \/ BrokerRuns \/ BrokerTimer
            \/ Links \/ BrokerRestarts

LiveSpec == LiveInit /\ [][LiveNext]_liveMutexVars

-----------------------------------------------------------------------------
(* No call is answered twice, and one that waits for an answer has both a  *)
(* callback on the books and a timer that will end the wait: across        *)
(* retries, re-elections, lost connections and late grants.                *)
AnsweredOnce ==
  \A u \in Uuids :
    /\ answers[u] = (IF status[u] \in {"idle", "pending"} THEN 0 ELSE 1)
    /\ status[u] = "pending" <=> u \in locking
    /\ u \in locking <=> u \in lockTimers

(* Two users are in the critical section of a mutex at a time only if the  *)
(* earlier one, by token, has lost its hold to its ttl, to the re-election *)
(* timer, to the end of its connection or to the broker's death.  Retries  *)
(* and grants that come late never let a second user in.                   *)
ExclusiveUsers ==
  \A u, v \in Uuids :
    /\ Req[u].key = Req[v].key
    /\ status[u] = "held" /\ status[v] = "held"
    /\ userToken[u] < userToken[v]
    => u \in revoked

(* When unlock() reports success, the hold the user was handed is gone from *)
(* the broker, also if the same call was granted again in the meantime.    *)
UnlockIsTrue ==
  [][\A u \in Uuids : status[u] = "unlocking" /\ status[u]' = "unlocked"
                       => Token(Req[u].key, u) # userToken[u]]_liveMutexVars
=============================================================================
