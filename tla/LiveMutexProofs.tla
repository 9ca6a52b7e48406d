--------------------------- MODULE LiveMutexProofs ---------------------------
(***************************************************************************)
(* The service: AnsweredOnce, UnlockIsTrue and ExclusiveUsers.             *)
(*                                                                         *)
(* AnsweredOnce is a matter of the clients alone.  The other two are about *)
(* frames in transit: LiveInv says what an acquired or unlocked frame that *)
(* still comes to a client is worth, and what the client has sent; from    *)
(* the broker it needs only that tokens go up and that an unlock frame     *)
(* takes the hold away.  MutexInv adds the order of the grants.            *)
(***************************************************************************)
EXTENDS LiveMutex, Broker1Slots

-----------------------------------------------------------------------------
(* The calls of the clients.                                               *)

\* The user of call u has been answered.
Answered(u) == status[u] \in {"held", "unlocking", "unlocked", "failed"}

\* A call that ended with an error is not in the tables any more, whatever
\* late frames it is still forgiven.
CallsInv ==
  /\ status \in [Uuids -> Status]
  /\ answers \in [Uuids -> Nat]
  /\ locking \subseteq Uuids /\ unlocking \subseteq Uuids
  /\ AnsweredOnce
  /\ \A u \in Uuids : u \in unlocking <=> status[u] = "unlocking"
  /\ unlockTimers = unlocking
  /\ giveups \subseteq {u \in Uuids : Answered(u)}

(* A step that moves calls on but touches none of their records.           *)
LEMMA CallsRest ==
  ASSUME CallsInv, UNCHANGED <<calls, tablesOfClient>>
  PROVE  CallsInv'
PROOF
  BY DEF CallsInv, AnsweredOnce, Answered, calls, tablesOfClient

(* One call is settled with an error.                                      *)
LEMMA FailLockCalls ==
  ASSUME CallsInv, NEW u \in Uuids, status[u] \in {"idle", "pending"}, FailLock(u),
         giveups' \subseteq giveups \cup {u}
  PROVE  CallsInv'
PROOF
  BY DEF CallsInv, AnsweredOnce, Answered, FailLock, CleanUp, Told, Called, Status

(* Or all calls of a client are.                                           *)
LEMMA FailAllCalls ==
  ASSUME CallsInv, NEW c, FailAll(c),
         giveups' \subseteq giveups \cup ((locking \cup unlocking) \cap CallsOf(c))
  PROVE  CallsInv'
PROOF
  <1>. DEFINE ls == locking \cap CallsOf(c)
              us == unlocking \cap CallsOf(c)
  <1>1. \A u \in Uuids : /\ u \in ls <=> status[u] = "pending" /\ u \in CallsOf(c)
                         /\ u \in us <=> status[u] = "unlocking" /\ u \in CallsOf(c)
    BY DEF CallsInv, AnsweredOnce
  <1>2. /\ status' = [u \in Uuids |-> IF u \in ls \cup us THEN "failed" ELSE status[u]]
        /\ answers' = [u \in Uuids |-> IF u \in ls THEN answers[u] + 1 ELSE answers[u]]
        /\ locking' = locking \ ls /\ unlocking' = unlocking \ us
        /\ lockTimers' = lockTimers \ CallsOf(c) /\ unlockTimers' = unlockTimers \ CallsOf(c)
    BY DEF FailAll, Told, Called
  <1>3. /\ status' \in [Uuids -> Status] /\ answers' \in [Uuids -> Nat]
        /\ locking' \subseteq Uuids /\ unlocking' \subseteq Uuids
    BY <1>2 DEF CallsInv, Status
  <1>4. AnsweredOnce'
    BY <1>1, <1>2 DEF CallsInv, AnsweredOnce, Status
  <1>5. /\ \A u \in Uuids : u \in unlocking' <=> status'[u] = "unlocking"
        /\ unlockTimers' = unlocking'
    BY <1>1, <1>2 DEF CallsInv
  <1>6. giveups' \subseteq {u \in Uuids : Answered(u)'}
    BY <1>1, <1>2 DEF CallsInv, Answered
  <1>. QED  BY <1>3, <1>4, <1>5, <1>6 DEF CallsInv

LEMMA UserCalls ==
  ASSUME CallsInv, UserStep
  PROVE  CallsInv'
PROOF
  <1>1. ASSUME NEW u \in Uuids, Lock(u)
        PROVE  CallsInv'
    <2>1. CASE Refuses(u, 0)
      BY <1>1, <2>1, FailLockCalls DEF Lock
    <2>2. CASE ~Refuses(u, 0)
      BY <1>1, <2>2 DEF Lock, Attempt, Told, CallsInv, AnsweredOnce, Answered, Status
    <2>. QED  BY <2>1, <2>2
  <1>2. ASSUME NEW u \in Uuids, Unlock(u)
        PROVE  CallsInv'
    BY <1>2 DEF Unlock, Told, CallsInv, AnsweredOnce, Answered, Status
  <1>3. ASSUME NEW c \in Clients, Ensure(c) \/ SimulateVersionMismatch(c)
        PROVE  CallsInv'
    BY <1>3, CallsRest DEF Ensure, SimulateVersionMismatch
  <1>4. ASSUME NEW c \in Clients, EndCurrentConnection(c) \/ Close(c)
        PROVE  CallsInv'
    BY <1>4, FailAllCalls DEF EndCurrentConnection, Close
  <1>. QED  BY <1>1, <1>2, <1>3, <1>4 DEF UserStep

LEMMA TimerCalls ==
  ASSUME CallsInv, ClientTimer
  PROVE  CallsInv'
PROOF
  <1>. PICK u \in Uuids : LockTimesOut(u) \/ UnlockTimesOut(u)
    BY DEF ClientTimer
  <1>1. CASE LockTimesOut(u)
    <2>1. status[u] = "pending"
      BY <1>1 DEF LockTimesOut, CallsInv, AnsweredOnce
    <2>2. CASE FailLock(u)
      BY <1>1, <2>1, <2>2, FailLockCalls DEF LockTimesOut
    <2>3. CASE ~FailLock(u)
      BY <1>1, <2>1, <2>3
      DEF LockTimesOut, Attempt, CallsInv, AnsweredOnce, Answered, Status
    <2>. QED  BY <2>2, <2>3
  <1>2. CASE UnlockTimesOut(u)
    BY <1>2 DEF UnlockTimesOut, EndUnlock, Told, CallsInv, AnsweredOnce, Answered, Status
  <1>. QED  BY <1>1, <1>2

LEMMA DataCalls ==
  ASSUME CallsInv, NEW c \in Clients, NEW f, Receives(c, f)
  PROVE  CallsInv'
PROOF
  <1>1. CASE FrameGivenUp(c, f)
    <2>1. f.id \in Uuids /\ Answered(f.id)
      BY <1>1 DEF FrameGivenUp, CallsInv
    <2>2. f.id \notin locking /\ f.id \notin lockTimers
      BY <2>1 DEF CallsInv, AnsweredOnce, Answered
    <2>. QED
      BY <1>1, <2>2
      DEF FrameGivenUp, CleanUp, CallsInv, AnsweredOnce, Answered, calls
  <1>2. CASE FrameUnexpected(c, f)
    BY <1>2, CallsRest DEF FrameUnexpected
  <1>3. CASE Acquired(c, f)
    BY <1>3
    DEF Acquired, HandedOut, CleanUp, Told, Called, CallsInv, AnsweredOnce, Answered, Status
  <1>4. CASE Waiting(c, f) \/ RequestRefused(c, f) \/ AskAgain(c, f)
    <2>1. f.id \in Uuids /\ status[f.id] = "pending"
      BY <1>4 DEF Waiting, RequestRefused, AskAgain, CallsInv, AnsweredOnce
    <2>2. CASE FailLock(f.id)
      BY <1>4, <2>1, <2>2, FailLockCalls DEF Waiting, RequestRefused, AskAgain
    <2>3. CASE ~FailLock(f.id)
      BY <1>4, <2>1, <2>3
      DEF Waiting, RequestRefused, AskAgain, Attempt, CallsInv, AnsweredOnce, Answered, Status
    <2>. QED  BY <2>2, <2>3
  <1>5. CASE Unlocked(c, f)
    BY <1>5 DEF Unlocked, EndUnlock, Told, CallsInv, AnsweredOnce, Answered, Status
  <1>6. CASE VersionRefused(c, f)
    BY <1>6, FailAllCalls DEF VersionRefused
  <1>. QED  BY <1>1, <1>2, <1>3, <1>4, <1>5, <1>6 DEF Receives

LEMMA ClientCalls ==
  ASSUME CallsInv, ClientNext
  PROVE  CallsInv'
PROOF
  <1>1. CASE OnData
    BY <1>1, DataCalls DEF OnData
  <1>2. ASSUME NEW c \in Clients, Recover(c)
        PROVE  CallsInv'
    BY <1>2, FailAllCalls DEF Recover
  <1>. QED  BY <1>1, <1>2, UserCalls, TimerCalls DEF ClientNext

(* Nothing but a client's own step touches its calls.                      *)
LEMMA OthersRest ==
  ASSUME LiveNext, ~ClientStep
  PROVE  UNCHANGED <<calls, tablesOfClient, dialled>>
PROOF
  <1>1. CASE BrokerReads \/ BrokerRuns \/ BrokerTimer
    BY <1>1 DEF BrokerReads, TakesFrame, Taken, BrokerRuns, BrokerTimer, BrokerSends, ClientsRest,
                links
  <1>2. CASE Links \/ BrokerRestarts
    BY <1>2 DEF Links, LinkBreaks, ConnectionEnds, TakesAfterClose, BrokerRestarts, BrokerSends,
                ClientsRest, Lost, links
  <1>. QED  BY <1>1, <1>2 DEF LiveNext

(* Every call of a user is answered exactly once, whatever retries, late   *)
(* frames, re-elections, lost connections and restarts of the broker come  *)
(* in between, for any number of clients and calls.                        *)
THEOREM CallsAreAnsweredOnce == LiveSpec => []AnsweredOnce
PROOF
  <1>1. LiveInit => CallsInv
    BY DEF LiveInit, ClientInit, CallsInv, AnsweredOnce, Status
  <1>2. CallsInv /\ [LiveNext]_liveMutexVars => CallsInv'
    <2>1. ASSUME CallsInv, ClientStep
          PROVE  CallsInv'
      BY <2>1, ClientCalls DEF ClientStep
    <2>2. ASSUME CallsInv, LiveNext, ~ClientStep
          PROVE  CallsInv'
      BY <2>2, OthersRest, CallsRest
    <2>3. ASSUME CallsInv, UNCHANGED liveMutexVars
          PROVE  CallsInv'
      BY <2>3, CallsRest DEF liveMutexVars, clientVars
    <2>. QED  BY <2>1, <2>2, <2>3
  <1>3. CallsInv => AnsweredOnce
    BY DEF CallsInv
  <1>. QED  BY <1>1, <1>2, <1>3, PTL DEF LiveSpec

-----------------------------------------------------------------------------
(* Steps of the broker within the service.                                 *)

\* The broker's handler of an unlock frame of call u.
UnlockOf(u, s) ==
  LET k == Req[u].key
  IN  \/ UnlockUnknownKey(k, u, s) \/ UnlockHolder(k, u, s)
      \/ UnlockLate(k, u, s) \/ UnlockRejected(k, u, s, FALSE)

\* What the broker may do in a step, when U are the calls whose unlock frame it
\* may read.
Moves(U) ==
  \/ LockFrame \/ OtherFrame \/ TickTtl \/ Reelections \/ Connections \/ Internal \/ Restart
  \/ \E u \in U, s \in Sockets : UnlockOf(u, s)

LEMMA MovesAreSteps ==
  ASSUME NEW U \in SUBSET Uuids, Moves(U)
  PROVE  Next
PROOF
  <1>1. ASSUME NEW u \in Uuids, NEW s \in Sockets, UnlockOf(u, s)
        PROVE  UnlockFrame
    <2>1. Req[u].key \in Keys /\ u \in CallsOn(Req[u].key)
      BY RequestType DEF CallsOn
    <2>2. \E v \in CallsOn(Req[u].key) \cup {None} :
            \/ UnlockUnknownKey(Req[u].key, v, s) \/ UnlockHolder(Req[u].key, v, s)
            \/ UnlockLate(Req[u].key, v, s)
            \/ \E force \in BOOLEAN : UnlockRejected(Req[u].key, v, s, force)
      BY <1>1, <2>1 DEF UnlockOf
    <2>. QED  BY <2>1, <2>2 DEF UnlockFrame
  <1>. QED  BY <1>1 DEF Moves, Next, CalmNext, Frames

\* No composite exists, so no row of release-many does.
NoRegistry == \A t \in work : t.op # "registry"
ServiceInv == WInv /\ spent = {} /\ NoRegistry

LEMMA OnlyPlainGrants ==
  ASSUME ServiceInv
  PROVE  /\ granting # None => GrantingPlain
         /\ \A m \in ManyIds, k \in Keys : m \notin Holds(locks, k)
PROOF
  <1>1. \A m \in ManyIds : /\ ~Attempting(m)
                           /\ \A k \in Keys : m \notin Holds(locks, k)
    BY DEF ServiceInv, WInv, CompositeInv, CompositeAt
  <1>2. granting # None => granting.id \in Holders
    BY GrantingType DEF ServiceInv, WInv, HInv
  <1>. QED  BY <1>1, <1>2 DEF GrantingPlain, Attempting, Holders

LEMMA RestsIInv ==
  ASSUME IInv, BrokerRests
  PROVE  IInv'
PROOF
  <1>1. TypeOK'
    BY DEF BrokerRests, Silent, tables, sockets, authority, stack, TypeOK, IInv
  <1>2. CounterInOrder' /\ DiskCovers' /\ TokensDistinct' /\ LockInHand' /\ WaitersAtHome'
    BY DEF BrokerRests, tables, sockets, authority, stack, IInv, FenceInv, CounterInOrder,
           DiskCovers, TokensDistinct, LockInHand, WaitersAtHome, Present, Token
  <1>. QED  BY <1>1, <1>2 DEF IInv, FenceInv

LEMMA RestsServiceInv ==
  ASSUME ServiceInv, BrokerRests
  PROVE  ServiceInv'
PROOF
  <1>1. /\ locks' = locks /\ holderDeadlines' = holderDeadlines /\ work' = work
        /\ granting' = granting /\ spent' = spent
    BY DEF BrokerRests, tables, stack
  <1>2. IInv' /\ FewHold' /\ DeadlineInv'
    BY <1>1, RestsIInv DEF ServiceInv, WInv, HInv, FewHold, DeadlineInv, Forced
  <1>3. LineInv' /\ ScrubNamed' /\ NoRegistry'
    BY <1>1 DEF ServiceInv, WInv, LineInv, ScrubNamed, NoRegistry
  <1>4. /\ WalkedSoFar' = WalkedSoFar
        /\ \A m : Attempting(m)' <=> Attempting(m)
    BY <1>1 DEF WalkedSoFar, ManyKeys, Attempting
  <1>5. CompositeInv'
    BY <1>1, <1>4 DEF ServiceInv, WInv, CompositeInv, CompositeAt
  <1>. QED  BY <1>1, <1>2, <1>3, <1>5 DEF ServiceInv, WInv, HInv

LEMMA NoCompositeComes ==
  ASSUME ServiceInv, NEW U \in SUBSET Uuids, Moves(U)
  PROVE  spent' = spent /\ NoRegistry'
PROOF
  <1>. DEFINE Goal == spent' = spent /\ NoRegistry'
  <1>1. NoRegistry
    BY DEF ServiceInv
  <1>2. ASSUME spent' = spent, work' = work
        PROVE  Goal
    BY <1>1, <1>2 DEF NoRegistry
  <1>3. CASE LockFrame
    <2>1. PICK u \in Uuids, ws \in Sockets :
            \/ LockRefused(u, ws) \/ LockOnNewKey(u, ws) \/ LockOnNewKeyFails(u, ws)
            \/ LockOnFreeKey(u, ws) \/ \E retry \in BOOLEAN : LockOnFullKey(u, ws, retry)
      BY <1>3 DEF LockFrame
    <2>2. work' = work /\ spent' = spent
      BY <2>1 DEF LockRefused, LockOnNewKey, LockOnNewKeyFails, LockOnFreeKey, LockOnFullKey,
                  LockAccepted, stack, tables
    <2>. QED  BY <1>2, <2>2
  <1>4. CASE OtherFrame \/ Reelections
    <2>1. work' = work /\ spent' = spent
      BY <1>4 DEF OtherFrame, LockReceived, LockClientTimeout, LockReceivedRejected,
                  Reelections, Reelection, stack, tables
    <2>. QED  BY <1>2, <2>1
  <1>5. ASSUME NEW u \in U, NEW s \in Sockets, UnlockOf(u, s)
        PROVE  Goal
    <2>1. work' = work /\ spent' = spent
      BY <1>5 DEF UnlockOf, UnlockUnknownKey, UnlockHolder, UnlockLate, UnlockRejected, Unlocking
    <2>. QED  BY <1>2, <2>1
  <1>6. CASE TickTtl
    BY <1>6 DEF TickTtl, EvictRow, tables, NoRegistry
  <1>7. CASE Connections
    <2>1. CASE \E ws \in Sockets : BreakConnection(ws)
      <3>1. work' = work /\ spent' = spent
        BY <2>1 DEF BreakConnection, stack, tables
      <3>. QED  BY <1>2, <3>1
    <2>2. ASSUME NEW ws \in Sockets, NEW last \in {"destroy", "mismatch"},
                 CleanupConnection(ws, last)
          PROVE  Goal
      BY <2>2 DEF CleanupConnection, VisitRow, LastRow, NoRegistry
    <2>. QED  BY <1>7, <2>1, <2>2 DEF Connections, SocketEnds, VersionMismatch
  <1>8. CASE Granting \/ Drain
    <2>1. work' = work /\ spent' = spent
      BY <1>8 DEF Granting, GrantLock, GrantLockFails, ManyCreatesLock, ManyGrantsKey,
                  ManyIsContended, ManyRegisters, ManyFails, Drain, DrainStops, DequeueWaiter,
                  tables, stack
    <2>. QED  BY <1>2, <2>1
  <1>9. CASE WorkStep
    <2>1. PICK t \in work : \/ VisitKey(t)
                            \/ work' = work \ {t} /\ spent' = spent
      BY <1>9 DEF WorkStep, Evict, ReleaseMember, ForgetComposite, VisitAbsentKey, ScrubWaiter,
                  ForcedUnlock, EndCleanup, CleaningUp
    <2>2. CASE VisitKey(t)
      <3>1. spent' = spent
        BY <2>2 DEF VisitKey, CleaningUp
      <3>2. \A r \in work' : \/ r \in work
                             \/ \E u : r = ScrubRow(t.key, u)
                             \/ \E h : r = ForcedRow(t.key, h, t.ws)
        BY <2>2 DEF VisitKey
      <3>3. \A r : (\E u : r = ScrubRow(t.key, u)) \/ (\E h : r = ForcedRow(t.key, h, t.ws))
                     => r.op # "registry"
        BY DEF ScrubRow, ForcedRow
      <3>. QED  BY <1>1, <3>1, <3>2, <3>3 DEF NoRegistry
    <2>. QED  BY <1>1, <2>1, <2>2 DEF NoRegistry
  <1>10. CASE Restart
    BY <1>10 DEF Restart, NoRegistry
  <1>. QED
    BY <1>3, <1>4, <1>5, <1>6, <1>7, <1>8, <1>9, <1>10 DEF Moves, Internal

LEMMA ServiceInvStep ==
  ASSUME ServiceInv, NEW U \in SUBSET Uuids, Moves(U)
  PROVE  ServiceInv'
PROOF
  <1>1. WInv /\ Next
    BY MovesAreSteps DEF ServiceInv
  <1>2. HInv' /\ ScrubNamed' /\ LineInv' /\ CompositeInv'
    BY <1>1, HInvStep, ScrubNamedStep, WaitingStep DEF WInv
  <1>3. spent' = spent /\ NoRegistry'
    BY NoCompositeComes
  <1>. QED  BY <1>2, <1>3 DEF ServiceInv, WInv

-----------------------------------------------------------------------------
(* What the broker sends.                                                  *)

LEMMA UnlockOut ==
  ASSUME IInv, NEW u \in Uuids, NEW s \in Sockets, UnlockOf(u, s)
  PROVE  /\ IsFiniteSet(out')
         /\ \A f \in out' : /\ f.kind # "acquired"
                            /\ f.kind = "unlocked" =>
                                 f.id = u /\ u \notin Holds(locks', Req[u].key)
PROOF
  <1>. DEFINE k == Req[u].key
  <1>1. k \in Keys /\ u \in Holders
    BY RequestType
  <1>2. CASE UnlockRejected(k, u, s, FALSE)
    <2>1. OutQuiet
      BY <1>2, ReplyQuiet DEF UnlockRejected
    <2>. QED  BY <2>1 DEF OutQuiet
  <1>3. CASE UnlockUnknownKey(k, u, s) \/ UnlockHolder(k, u, s) \/ UnlockLate(k, u, s)
    <2>1. Reply(s, "unlocked", u)
      BY <1>3 DEF UnlockUnknownKey, UnlockHolder, UnlockLate
    <2>2. IsFiniteSet(out') /\ \A f \in out' : f.kind = "unlocked" /\ f.id = u
      BY <2>1, SendIsSmall DEF Reply
    <2>3. CASE UnlockUnknownKey(k, u, s)
      BY <2>2, <2>3 DEF UnlockUnknownKey, Holds
    <2>4. CASE UnlockHolder(k, u, s)
      <3>1. HoldsLose(k, {u})
        BY <1>1, <2>4, ReleaseEffect DEF UnlockHolder
      <3>. QED  BY <1>1, <2>2, <3>1 DEF HoldsLose
    <2>5. CASE UnlockLate(k, u, s)
      <3>1. HoldsKept
        BY <1>1, <2>5, UnlockLateEffect
      <3>2. u \notin Holds(locks, k)
        BY <2>5 DEF UnlockLate, Holds, HoldersOf
      <3>. QED  BY <1>1, <2>2, <3>1, <3>2 DEF HoldsKept
    <2>. QED  BY <1>3, <2>3, <2>4, <2>5
  <1>. QED  BY <1>2, <1>3 DEF UnlockOf

\* Nothing but a grant and an unlock is an answer.
LEMMA RestOut ==
  ASSUME ServiceInv,
         LockFrame \/ OtherFrame \/ TickTtl \/ Reelections \/ Connections \/ Internal \/ Restart,
         ~GrantLock
  PROVE  OutQuiet
PROOF
  <1>. IInv
    BY DEF ServiceInv, WInv, HInv
  <1>1. CASE OtherFrame \/ TickTtl \/ Connections \/ Restart
    BY <1>1, SilentQuiet
    DEF OtherFrame, LockReceived, LockClientTimeout, LockReceivedRejected, TickTtl, Connections,
        BreakConnection, SocketEnds, VersionMismatch, CleanupConnection, Restart, Silent
  <1>2. CASE Granting
    <2>1. GrantingPlain
      BY <1>2, OnlyPlainGrants
      DEF Granting, GrantLock, GrantLockFails, ManyCreatesLock, ManyGrantsKey, ManyIsContended,
          ManyRegisters, ManyFails, GrantingPlain, GrantingMany
    <2>2. GrantLockFails
      BY <1>2, <2>1, NameAssumption
      DEF Granting, ManyCreatesLock, ManyGrantsKey, ManyIsContended, ManyRegisters, ManyFails,
          GrantingPlain, GrantingMany
    <2>. QED  BY <2>2, SilentQuiet, ReplyQuiet DEF GrantLockFails
  <1>3. CASE Drain
    BY <1>3, SilentQuiet DEF Drain, DrainStops, DequeueWaiter
  <1>4. CASE WorkStep
    <2>1. PICK t \in work : \/ Evict(t) \/ ReleaseMember(t) \/ ForgetComposite(t)
                            \/ VisitKey(t) \/ VisitAbsentKey(t) \/ ScrubWaiter(t)
                            \/ ForcedUnlock(t) \/ EndCleanup(t)
      BY <1>4 DEF WorkStep
    <2>2. ~ForgetComposite(t)
      BY DEF ForgetComposite, ServiceInv, NoRegistry
    <2>3. Silent \/ Reply(t.ws, "version-mismatch", None)
      BY <2>1, <2>2 DEF Evict, ReleaseMember, VisitKey, VisitAbsentKey, ScrubWaiter, ForcedUnlock,
                        EndCleanup
    <2>. QED  BY <2>3, SilentQuiet, ReplyQuiet
  <1>. QED  BY <1>1, <1>2, <1>3, <1>4, LockFrameOut, ReelectionQuiet DEF Internal, Reelections

LEMMA MoveOut ==
  ASSUME ServiceInv, NEW U \in SUBSET Uuids, Moves(U)
  PROVE  /\ IsFiniteSet(out')
         /\ \A f \in out' :
              /\ f.kind = "acquired" => /\ GrantLock /\ f.id = granting.id
                                        /\ f.token = NextToken(Req[granting.id].key)
              /\ f.kind = "unlocked" => f.id \in U /\ f.id \notin Holds(locks', Req[f.id].key)
PROOF
  <1>. IInv
    BY DEF ServiceInv, WInv, HInv
  <1>1. CASE \E u \in U, s \in Sockets : UnlockOf(u, s)
    BY <1>1, UnlockOut
  <1>2. CASE GrantLock
    <2>. DEFINE t == NextToken(Req[granting.id].key)
    <2>1. out' = Send(granting.ws, "acquired", granting.id, t)
      BY <1>2 DEF GrantLock
    <2>. HIDE DEF t
    <2>2. IsFiniteSet(out') /\ \A f \in out' : /\ f.kind = "acquired" /\ f.id = granting.id
                                               /\ f.token = t
      BY <2>1, SendIsSmall
    <2>. QED  BY <1>2, <2>2 DEF t
  <1>3. CASE (LockFrame \/ OtherFrame \/ TickTtl \/ Reelections \/ Connections \/ Internal
              \/ Restart) /\ ~GrantLock
    BY <1>3, RestOut DEF OutQuiet
  <1>. QED  BY <1>1, <1>2, <1>3 DEF Moves

-----------------------------------------------------------------------------
(* Frames in transit.                                                      *)

Coming(f) == \E s \in Sockets : \E i \in 1..Len(toClient[s]) : toClient[s][i] = f
Going(f)  == \E s \in Sockets : \E i \in 1..Len(toBroker[s]) : toBroker[s][i] = f

LinesTyped == /\ toClient \in [Sockets -> Seq(Frame)]
              /\ toBroker \in [Sockets -> Seq(ClientFrame)]

LEMMA SetToSeqType ==
  ASSUME NEW S, IsFiniteSet(S)
  PROVE  Arrange!SetToSeq(S) \in [1..Cardinality(S) -> S] /\ Cardinality(S) \in Nat
PROOF
  <1>1. Cardinality(S) \in Nat /\ ExistsBijection(1..Cardinality(S), S)
    BY FS_CardinalityType
  <1>2. PICK g : g \in Bijection(1..Cardinality(S), S)
    BY <1>1 DEF ExistsBijection
  <1>3. g \in [1..Cardinality(S) -> S] /\ \A a, b \in 1..Cardinality(S) : g[a] = g[b] => a = b
    BY <1>2 DEF Bijection, Injection, IsInjective
  <1>4. Arrange!IsInjective(g)
    BY <1>3 DEF Arrange!IsInjective
  <1>5. Arrange!SetToSeq(S)
          = CHOOSE f \in [1..Cardinality(S) -> S] : Arrange!IsInjective(f)
    BY DEF Arrange!SetToSeq, Arrange!Cardinality, Cardinality
  <1>. QED  BY <1>1, <1>3, <1>4, <1>5

LEMMA FramesToType ==
  ASSUME IsFiniteSet(out'), out' \subseteq Frame, NEW s \in Sockets
  PROVE  /\ FramesTo(s) \in Seq(Frame)
         /\ \A i \in 1..Len(FramesTo(s)) : FramesTo(s)[i] \in out'
PROOF
  <1>. DEFINE S == {f \in out' : f.to = s}
  <1>1. IsFiniteSet(S) /\ S \subseteq Frame /\ S \subseteq out'
    BY FS_Subset
  <1>2. FramesTo(s) = Arrange!SetToSeq(S)
    BY DEF FramesTo
  <1>. HIDE DEF S
  <1>3. FramesTo(s) \in [1..Cardinality(S) -> S] /\ Cardinality(S) \in Nat
    BY <1>1, <1>2, SetToSeqType
  <1>4. FramesTo(s) \in Seq(S) /\ Len(FramesTo(s)) = Cardinality(S)
    BY <1>3
  <1>. QED  BY <1>1, <1>3, <1>4

LEMMA SendsArrive ==
  ASSUME LinesTyped, IsFiniteSet(out'), out' \subseteq Frame,
         toClient' = [s \in Sockets |-> Delivered(s)]
  PROVE  /\ toClient' \in [Sockets -> Seq(Frame)]
         /\ \A f : Coming(f)' => Coming(f) \/ f \in out'
PROOF
  <1>1. ASSUME NEW s \in Sockets
        PROVE  /\ Delivered(s) \in Seq(Frame)
               /\ \A i \in 1..Len(Delivered(s)) : \/ \E j \in 1..Len(toClient[s]) :
                                                       Delivered(s)[i] = toClient[s][j]
                                                  \/ Delivered(s)[i] \in out'
    <2>1. CASE s \notin listening
      BY <2>1 DEF Delivered
    <2>2. CASE s \in listening
      <3>. DEFINE q == toClient[s]
                  r == FramesTo(s)
      <3>1. q \in Seq(Frame) /\ r \in Seq(Frame) /\ \A i \in 1..Len(r) : r[i] \in out'
        BY FramesToType DEF LinesTyped
      <3>2. Delivered(s) = q \o r
        BY <2>2 DEF Delivered
      <3>. HIDE DEF q, r
      <3>3. /\ q \o r \in Seq(Frame)
            /\ \A i \in 1..Len(q \o r) : \/ i \in 1..Len(q) /\ (q \o r)[i] = q[i]
                                         \/ i - Len(q) \in 1..Len(r)
                                            /\ (q \o r)[i] = r[i - Len(q)]
        BY <3>1
      <3>. QED  BY <3>1, <3>2, <3>3 DEF q
    <2>. QED  BY <2>1, <2>2
  <1>2. toClient' \in [Sockets -> Seq(Frame)]
    BY <1>1
  <1>3. ASSUME NEW f, Coming(f)'
        PROVE  Coming(f) \/ f \in out'
    <2>1. PICK s \in Sockets : \E i \in 1..Len(toClient'[s]) : toClient'[s][i] = f
      BY <1>3 DEF Coming
    <2>2. toClient'[s] = Delivered(s)
      OBVIOUS
    <2>. QED  BY <1>1, <2>1, <2>2 DEF Coming
  <1>. QED  BY <1>2, <1>3

\* The frame at the head of a line is taken.
LEMMA TailTaken ==
  ASSUME LinesTyped, NEW s \in Sockets, toBroker[s] # <<>>,
         toBroker' = [toBroker EXCEPT ![s] = Tail(@)]
  PROVE  /\ toBroker' \in [Sockets -> Seq(ClientFrame)]
         /\ Going(Head(toBroker[s])) /\ Head(toBroker[s]) \in ClientFrame
         /\ \A f : Going(f)' => Going(f)
PROOF
  <1>. DEFINE q == toBroker[s]
  <1>1. q \in Seq(ClientFrame) /\ q # <<>>
    BY DEF LinesTyped
  <1>2. /\ Tail(q) \in Seq(ClientFrame) /\ Head(q) = q[1] /\ 1 \in 1..Len(q)
        /\ Head(q) \in ClientFrame
        /\ \A i \in 1..Len(Tail(q)) : i + 1 \in 1..Len(q) /\ Tail(q)[i] = q[i + 1]
    BY <1>1
  <1>3. \A r \in Sockets : toBroker'[r] = IF r = s THEN Tail(q) ELSE toBroker[r]
    BY DEF LinesTyped
  <1>. QED  BY <1>2, <1>3 DEF LinesTyped, Going

\* The user of call u has asked to unlock it, or has been told of an error.
Over(u) == status[u] \in {"unlocking", "unlocked", "failed"}

GoingOK ==
  \A f : Going(f) => /\ f.kind \in {"version", "confirmed"} \/ f.id \in Uuids
                     /\ f.kind = "unlock" => Over(f.id)

\* The broker reads the unlock frames of calls that are over only.
BrokerMoves == \E U \in SUBSET {u \in Uuids : Over(u)} : Moves(U)

LEMMA FrameMoves ==
  ASSUME LinesTyped, GoingOK, NEW s \in Sockets, TakesFrame(s)
  PROVE  BrokerRests \/ BrokerMoves
PROOF
  <1>. DEFINE f == Head(toBroker[s])
  <1>1. toBroker[s] # <<>> /\ toBroker[s] \in Seq(ClientFrame)
    BY DEF TakesFrame, LinesTyped
  <1>2. f \in ClientFrame /\ f = toBroker[s][1] /\ 1 \in 1..Len(toBroker[s])
    BY <1>1
  <1>3. Going(f) /\ f.retry \in BOOLEAN
    BY <1>2 DEF Going, ClientFrame
  <1>4. f.kind \in {"version", "confirmed"} \/ (f.id \in Uuids /\ Req[f.id].key \in Keys)
    BY <1>3, RequestType DEF GoingOK
  <1>5. \/ TakesLock(s, f) \/ TakesUnlock(s, f) \/ TakesReceived(s, f)
        \/ TakesRejected(s, f) \/ TakesGiveUp(s, f) \/ TakesVersion(s, f)
    BY DEF TakesFrame
  <1>. HIDE DEF f
  <1>6. Moves({}) => BrokerMoves
    BY DEF BrokerMoves
  <1>7. CASE TakesLock(s, f)
    <2>1. f.id \in Uuids
      BY <1>4, <1>7 DEF TakesLock
    <2>2. LockFrame
      BY <1>3, <1>7, <2>1 DEF TakesLock, LockFrame
    <2>. QED  BY <1>6, <2>2 DEF Moves
  <1>8. CASE TakesUnlock(s, f)
    <2>1. f.id \in {u \in Uuids : Over(u)}
      BY <1>3, <1>4, <1>8 DEF TakesUnlock, GoingOK
    <2>2. UnlockOf(f.id, s)
      BY <1>8 DEF TakesUnlock, UnlockOf
    <2>3. Moves({f.id})
      BY <2>2 DEF Moves
    <2>. QED  BY <2>1, <2>3 DEF BrokerMoves
  <1>9. CASE TakesReceived(s, f) \/ TakesRejected(s, f) \/ TakesGiveUp(s, f)
    <2>1. f.id \in Uuids /\ Req[f.id].key \in Keys
      BY <1>4, <1>9 DEF TakesReceived, TakesRejected, TakesGiveUp
    <2>2. BrokerRests \/ OtherFrame
      BY <1>9, <2>1 DEF TakesReceived, TakesRejected, TakesGiveUp, OtherFrame
    <2>. QED  BY <1>6, <2>2 DEF Moves
  <1>10. CASE TakesVersion(s, f)
    <2>1. Connections
      BY <1>10 DEF TakesVersion, Connections
    <2>. QED  BY <1>6, <2>1 DEF Moves
  <1>. QED  BY <1>5, <1>7, <1>8, <1>9, <1>10

LEMMA StepMoves ==
  ASSUME LinesTyped, GoingOK, LiveNext, ~ClientStep
  PROVE  BrokerRests \/ BrokerMoves
PROOF
  <1>1. Moves({}) => BrokerMoves
    BY DEF BrokerMoves
  <1>2. CASE BrokerReads
    BY <1>2, FrameMoves DEF BrokerReads
  <1>3. CASE BrokerRuns \/ BrokerTimer \/ BrokerRestarts
    BY <1>1, <1>3 DEF BrokerRuns, BrokerTimer, BrokerRestarts, Moves
  <1>4. CASE Links
    <2>1. BrokerRests \/ Connections
      BY <1>4 DEF Links, LinkBreaks, ConnectionEnds, TakesAfterClose, Connections
    <2>. QED  BY <1>1, <2>1 DEF Moves
  <1>. QED  BY <1>2, <1>3, <1>4 DEF LiveNext

\* What the broker sends is few frames; those that answer a lock or an unlock
\* say what has just been done.
OutSays ==
  \A f \in out' :
    /\ f.kind = "acquired" => /\ GrantLock /\ f.id = granting.id
                              /\ f.token = NextToken(Req[granting.id].key)
    /\ f.kind = "unlocked" => /\ f.id \in Uuids /\ Over(f.id)
                              /\ f.id \notin Holds(locks', Req[f.id].key)

LEMMA StepOut ==
  ASSUME ServiceInv, LinesTyped, GoingOK, LiveNext, ~ClientStep
  PROVE  ServiceInv' /\ IsFiniteSet(out') /\ out' \subseteq Frame /\ OutSays
PROOF
  <1>1. CASE BrokerRests
    <2>1. out' = {}
      BY <1>1 DEF BrokerRests, Silent
    <2>. QED  BY <1>1, <2>1, RestsServiceInv, FS_EmptySet DEF OutSays
  <1>2. ASSUME NEW U \in SUBSET {u \in Uuids : Over(u)}, Moves(U)
        PROVE  ServiceInv' /\ IsFiniteSet(out') /\ out' \subseteq Frame /\ OutSays
    <2>1. U \in SUBSET Uuids
      OBVIOUS
    <2>2. ServiceInv'
      BY <1>2, <2>1, ServiceInvStep
    <2>3. out' \subseteq Frame
      BY <2>2 DEF ServiceInv, WInv, HInv, IInv, TypeOK
    <2>. QED  BY <1>2, <2>1, <2>2, <2>3, MoveOut DEF OutSays
  <1>. QED  BY <1>1, <1>2, StepMoves DEF BrokerMoves

LEMMA NobodyEnds ==
  ASSUME locks' = locks
  PROVE  Ended = {}
PROOF
  BY DEF Ended, Held, Present, Holding

LEMMA StepRevokes ==
  ASSUME LiveNext, ~ClientStep
  PROVE  revoked' = revoked \cup Ended
PROOF
  <1>1. CASE BrokerReads \/ BrokerRuns \/ BrokerTimer \/ BrokerRestarts
    BY <1>1 DEF BrokerReads, TakesFrame, Taken, BrokerRuns, BrokerTimer, BrokerSends,
                BrokerRestarts
  <1>2. CASE Links
    <2>1. \/ revoked' = revoked \cup Ended
          \/ revoked' = revoked /\ locks' = locks
      BY <1>2 DEF Links, LinkBreaks, ConnectionEnds, TakesAfterClose, BrokerSends, BreakConnection,
                  BrokerRests
    <2>. QED  BY <2>1, NobodyEnds
  <1>. QED  BY <1>1, <1>2 DEF LiveNext

\* No frame of a client is made up on the way, and what comes to the clients
\* has been sent by the broker.
LinesMove == /\ LinesTyped'
             /\ \A f : /\ Going(f)' => Going(f)
                       /\ Coming(f)' => Coming(f) \/ f \in out'

LEMMA SendsMove ==
  ASSUME LinesTyped, IsFiniteSet(out'), out' \subseteq Frame,
         toClient' = [r \in Sockets |-> Delivered(r)],
         toBroker' \in [Sockets -> Seq(ClientFrame)], \A f : Going(f)' => Going(f)
  PROVE  LinesMove
PROOF
  BY SendsArrive DEF LinesMove, LinesTyped

LEMMA TakenMoves ==
  ASSUME LinesTyped, NEW s \in Sockets, toBroker[s] # <<>>,
         toBroker' = [toBroker EXCEPT ![s] = Tail(@)], UNCHANGED toClient
  PROVE  LinesMove
PROOF
  BY TailTaken DEF LinesMove, LinesTyped, Coming

LEMMA LostMoves ==
  ASSUME LinesTyped, NEW ss, Lost(ss)
  PROVE  LinesMove
PROOF
  <1>1. <<>> \in Seq(Frame) /\ <<>> \in Seq(ClientFrame) /\ Len(<<>>) = 0
    OBVIOUS
  <1>2. /\ toBroker' = [s \in Sockets |-> IF s \in ss THEN <<>> ELSE toBroker[s]]
        /\ toClient' = [s \in Sockets |-> IF s \in ss THEN <<>> ELSE toClient[s]]
    BY DEF Lost
  <1>3. LinesTyped'
    BY <1>1, <1>2 DEF LinesTyped
  <1>4. \A f : (Going(f)' => Going(f)) /\ (Coming(f)' => Coming(f))
    BY <1>1, <1>2 DEF Going, Coming
  <1>. QED  BY <1>3, <1>4 DEF LinesMove

LEMMA StepLines ==
  ASSUME ServiceInv, LinesTyped, GoingOK, LiveNext, ~ClientStep
  PROVE  LinesMove
PROOF
  <1>1. IsFiniteSet(out') /\ out' \subseteq Frame
    BY StepOut
  <1>2. ASSUME BrokerSends
        PROVE  LinesMove
    <2>1. /\ toBroker' = toBroker /\ toClient' = [r \in Sockets |-> Delivered(r)]
      BY <1>2 DEF BrokerSends
    <2>2. toBroker' \in [Sockets -> Seq(ClientFrame)] /\ \A f : Going(f)' => Going(f)
      BY <2>1 DEF LinesTyped, Going
    <2>. QED  BY <1>1, <2>1, <2>2, SendsMove
  <1>3. ASSUME NEW s \in Sockets, TakesFrame(s)
        PROVE  LinesMove
    <2>1. /\ toBroker[s] # <<>> /\ toBroker' = [toBroker EXCEPT ![s] = Tail(@)]
          /\ toClient' = [r \in Sockets |-> Delivered(r)]
      BY <1>3 DEF TakesFrame, Taken
    <2>2. toBroker' \in [Sockets -> Seq(ClientFrame)] /\ \A f : Going(f)' => Going(f)
      BY <2>1, TailTaken
    <2>. QED  BY <1>1, <2>1, <2>2, SendsMove
  <1>4. ASSUME NEW s \in Sockets, LinkBreaks(s) \/ ConnectionEnds(s) \/ TakesAfterClose(s)
        PROVE  LinesMove
    <2>1. CASE Lost({s})
      BY <2>1, LostMoves
    <2>2. CASE BrokerSends
      BY <1>2, <2>2
    <2>3. CASE toBroker[s] # <<>> /\ toBroker' = [toBroker EXCEPT ![s] = Tail(@)]
               /\ UNCHANGED toClient
      BY <2>3, TakenMoves
    <2>. QED  BY <1>4, <2>1, <2>2, <2>3 DEF LinkBreaks, ConnectionEnds, TakesAfterClose
  <1>5. CASE BrokerRestarts
    BY <1>5, LostMoves DEF BrokerRestarts
  <1>. QED
    BY <1>2, <1>3, <1>4, <1>5
    DEF LiveNext, BrokerReads, BrokerRuns, BrokerTimer, Links

-----------------------------------------------------------------------------
(* Steps of a client.                                                      *)

DialInv == /\ dialled \in [Clients -> Nat]
           /\ \A c \in Clients : dialled[c] <= Len(Dial[c])

LEMMA CurrentSocket ==
  ASSUME DialInv, NEW c \in Clients, Connected(c)
  PROVE  Socket(c) \in Sockets
PROOF
  <1>1. Dial[c] \in Seq(Sockets) /\ dialled[c] \in 1..Len(Dial[c])
    BY ClientAssumption DEF DialInv, Connected
  <1>. QED  BY <1>1 DEF Socket

\* The client writes frame f, or nothing; what it replaces is lost.
Writes(f) == /\ DialInv'
             /\ toBroker' \in [Sockets -> Seq(ClientFrame)]
             /\ \A g : Going(g)' => Going(g) \/ g = f

LEMMA ConnectWrites ==
  ASSUME LinesTyped, DialInv, NEW c \in Clients, NEW f \in ClientFrame,
         NEW frames \in {<<>>, <<f>>}, Connect(c, frames)
  PROVE  Writes(f)
PROOF
  <1>. DEFINE next == Dial[c][dialled[c] + 1]
  <1>1. /\ dialled[c] < Len(Dial[c]) /\ Dial[c] \in Seq(Sockets) /\ dialled[c] \in Nat
        /\ dialled' = [dialled EXCEPT ![c] = @ + 1]
        /\ toBroker' = [toBroker EXCEPT ![next] = frames]
    BY ClientAssumption DEF Connect, DialInv
  <1>2. dialled[c] + 1 \in 1..Len(Dial[c]) /\ Len(Dial[c]) \in Nat
    BY <1>1
  <1>3. next \in Sockets
    BY <1>1, <1>2
  <1>4. DialInv'
    BY <1>1, <1>2 DEF DialInv
  <1>. HIDE DEF next
  <1>5. /\ frames \in Seq(ClientFrame)
        /\ \A i \in 1..Len(frames) : frames[i] = f
    <2>1. /\ <<>> \in Seq(ClientFrame) /\ Len(<<>>) = 0
          /\ <<f>> \in Seq(ClientFrame) /\ Len(<<f>>) = 1 /\ <<f>>[1] = f
      OBVIOUS
    <2>2. CASE frames = <<>>
      BY <2>1, <2>2
    <2>3. CASE frames = <<f>>
      <3>1. \A i \in 1..1 : i = 1
        OBVIOUS
      <3>. QED  BY <2>1, <2>3, <3>1
    <2>. QED  BY <2>2, <2>3
  <1>6. \A r \in Sockets : toBroker'[r] = IF r = next THEN frames ELSE toBroker[r]
    BY <1>1, <1>3 DEF LinesTyped
  <1>7. toBroker' \in [Sockets -> Seq(ClientFrame)]
    BY <1>1, <1>3, <1>5 DEF LinesTyped
  <1>8. \A g : Going(g)' => Going(g) \/ g = f
    BY <1>5, <1>6 DEF Going
  <1>. QED  BY <1>4, <1>7, <1>8 DEF Writes

LEMMA WriteWrites ==
  ASSUME LinesTyped, DialInv, NEW c \in Clients, NEW f \in ClientFrame, Write(c, f)
  PROVE  Writes(f)
PROOF
  <1>1. CASE ~Alive(c)
    BY <1>1, ConnectWrites DEF Write
  <1>2. CASE Alive(c)
    <2>. DEFINE s == Socket(c)
                q == toBroker[s]
    <2>1. s \in Sockets /\ q \in Seq(ClientFrame)
      BY <1>2, CurrentSocket DEF Alive, LinesTyped
    <2>2. toBroker' = [toBroker EXCEPT ![s] = Append(q, f)] /\ dialled' = dialled
      BY <1>2 DEF Write
    <2>3. /\ Append(q, f) \in Seq(ClientFrame)
          /\ \A i \in 1..Len(Append(q, f)) : \/ i \in 1..Len(q) /\ Append(q, f)[i] = q[i]
                                             \/ Append(q, f)[i] = f
      BY <2>1
    <2>4. \A r \in Sockets : toBroker'[r] = IF r = s THEN Append(q, f) ELSE toBroker[r]
      BY <2>1, <2>2 DEF LinesTyped
    <2>5. toBroker' \in [Sockets -> Seq(ClientFrame)]
      BY <2>1, <2>2, <2>3 DEF LinesTyped
    <2>6. ASSUME NEW g, Going(g)'
          PROVE  Going(g) \/ g = f
      <3>1. PICK r \in Sockets : \E i \in 1..Len(toBroker'[r]) : toBroker'[r][i] = g
        BY <2>6 DEF Going
      <3>2. CASE r = s
        <4>1. PICK i \in 1..Len(Append(q, f)) : Append(q, f)[i] = g
          BY <2>4, <3>1, <3>2
        <4>2. (i \in 1..Len(q) /\ q[i] = g) \/ g = f
          BY <2>3, <4>1
        <4>. QED  BY <2>1, <4>2 DEF Going
      <3>3. CASE r # s
        BY <2>4, <3>1, <3>3 DEF Going
      <3>. QED  BY <3>2, <3>3
    <2>. QED  BY <2>2, <2>5, <2>6 DEF Writes, DialInv
  <1>. QED  BY <1>1, <1>2

LEMMA ReadsComing ==
  ASSUME LinesTyped, DialInv, NEW c \in Clients, NEW f, Reads(c, f)
  PROVE  /\ Coming(f) /\ f \in Frame
         /\ toClient' \in [Sockets -> Seq(Frame)]
         /\ \A g : Coming(g)' => Coming(g)
PROOF
  <1>. DEFINE s == Socket(c)
              q == toClient[s]
  <1>1. s \in Sockets /\ q \in Seq(Frame) /\ q # <<>> /\ f = Head(q)
    BY CurrentSocket DEF Reads, LinesTyped
  <1>2. toClient' = [toClient EXCEPT ![s] = Tail(q)]
    BY DEF Reads
  <1>3. /\ Tail(q) \in Seq(Frame) /\ Head(q) = q[1] /\ 1 \in 1..Len(q) /\ Head(q) \in Frame
        /\ \A i \in 1..Len(Tail(q)) : i + 1 \in 1..Len(q) /\ Tail(q)[i] = q[i + 1]
    BY <1>1
  <1>4. \A r \in Sockets : toClient'[r] = IF r = s THEN Tail(q) ELSE toClient[r]
    BY <1>1, <1>2 DEF LinesTyped
  <1>5. toClient' \in [Sockets -> Seq(Frame)]
    BY <1>1, <1>2, <1>3 DEF LinesTyped
  <1>6. ASSUME NEW g, Coming(g)'
        PROVE  Coming(g)
    <2>1. PICK r \in Sockets : \E i \in 1..Len(toClient'[r]) : toClient'[r][i] = g
      BY <1>6 DEF Coming
    <2>2. CASE r = s
      <3>1. PICK i \in 1..Len(Tail(q)) : Tail(q)[i] = g
        BY <1>4, <2>1, <2>2
      <3>. QED  BY <1>1, <1>3, <3>1 DEF Coming
    <2>3. CASE r # s
      BY <1>4, <2>1, <2>3 DEF Coming
    <2>. QED  BY <2>2, <2>3
  <1>. QED  BY <1>1, <1>3, <1>5, <1>6 DEF Coming

\* A frame a client may write in this step.
Sound(f) == /\ f \in ClientFrame
            /\ f.kind \in {"version", "confirmed"} \/ f.id \in Uuids
            /\ f.kind = "unlock" => Over(f.id)'

\* The step writes one such frame at most,
Writing == \/ UNCHANGED <<dialled, toBroker>>
           \/ \E c \in Clients : Connect(c, <<>>) \/ \E f \in ClientFrame : Sound(f) /\ Write(c, f)

\* and reads one at most.
Reading == \/ UNCHANGED toClient
           \/ \E c \in Clients : \E f : Reads(c, f)
           \/ \E s : toClient' = [toClient EXCEPT ![s] = <<>>]

LEMMA ClientLines ==
  ASSUME LinesTyped, DialInv, Writing, Reading
  PROVE  /\ LinesTyped' /\ DialInv'
         /\ \A g : /\ Going(g)' => Going(g) \/ Sound(g)
                   /\ Coming(g)' => Coming(g)
PROOF
  <1>1. /\ DialInv' /\ toBroker' \in [Sockets -> Seq(ClientFrame)]
        /\ \A g : Going(g)' => Going(g) \/ Sound(g)
    <2>1. CASE UNCHANGED <<dialled, toBroker>>
      BY <2>1 DEF DialInv, LinesTyped, Going
    <2>2. ASSUME NEW c \in Clients, Connect(c, <<>>)
          PROVE  <1>1!:
      <3>. DEFINE f == ToBroker("version", None)
      <3>1. f \in ClientFrame /\ f.kind = "version"
        BY DEF ToBroker, ClientFrame
      <3>2. Sound(f)
        BY <3>1 DEF Sound
      <3>. QED  BY <2>2, <3>1, <3>2, ConnectWrites DEF Writes
    <2>3. ASSUME NEW c \in Clients, NEW f \in ClientFrame, Sound(f), Write(c, f)
          PROVE  <1>1!:
      BY <2>3, WriteWrites DEF Writes
    <2>. QED  BY <2>1, <2>2, <2>3 DEF Writing
  <1>2. /\ toClient' \in [Sockets -> Seq(Frame)]
        /\ \A g : Coming(g)' => Coming(g)
    <2>1. CASE UNCHANGED toClient
      BY <2>1 DEF LinesTyped, Coming
    <2>2. ASSUME NEW c \in Clients, NEW f, Reads(c, f)
          PROVE  <1>2!:
      BY <2>2, ReadsComing
    <2>3. ASSUME NEW s, toClient' = [toClient EXCEPT ![s] = <<>>]
          PROVE  <1>2!:
      <3>1. <<>> \in Seq(Frame) /\ Len(<<>>) = 0
        OBVIOUS
      <3>2. \A r \in Sockets : toClient'[r] \in {<<>>, toClient[r]}
        BY <2>3 DEF LinesTyped
      <3>3. toClient' \in [Sockets -> Seq(Frame)]
        BY <2>3, <3>1 DEF LinesTyped
      <3>4. \A r \in Sockets : \A i \in 1..Len(toClient'[r]) : toClient'[r] = toClient[r]
        BY <3>1, <3>2
      <3>. QED  BY <3>3, <3>4 DEF Coming
    <2>. QED  BY <2>1, <2>2, <2>3 DEF Reading
  <1>. QED  BY <1>1, <1>2 DEF LinesTyped

LEMMA NoteWritten ==
  ASSUME NEW c \in Clients, NEW kind, NEW id \in Uuids \cup {None}, Write(c, ToBroker(kind, id)),
         \/ kind \in {"version", "confirmed"}
         \/ kind \in {"received", "rejected", "give-up"} /\ id \in Uuids
         \/ kind = "unlock" /\ id \in Uuids /\ Over(id)'
  PROVE  Writing
PROOF
  <1>. DEFINE f == ToBroker(kind, id)
  <1>1. f \in ClientFrame /\ f.kind = kind /\ f.id = id
    BY DEF ToBroker, ClientFrame
  <1>. HIDE DEF f
  <1>2. Sound(f)
    BY <1>1 DEF Sound
  <1>. QED  BY <1>1, <1>2 DEF f, Writing

LEMMA AttemptWritten ==
  ASSUME NEW u \in Uuids, NEW n, Attempt(u, n)
  PROVE  Writing
PROOF
  <1>. DEFINE f == [kind |-> "lock", id |-> u, retry |-> n > 0]
  <1>1. f \in ClientFrame /\ f.kind = "lock" /\ f.id = u
    BY DEF ClientFrame
  <1>2. Write(Owner[u], f) /\ Owner[u] \in Clients
    BY ClientAssumption DEF Attempt
  <1>. HIDE DEF f
  <1>3. Sound(f)
    BY <1>1 DEF Sound
  <1>. QED  BY <1>1, <1>2, <1>3 DEF Writing

LEMMA QuietWrites ==
  ASSUME Quiet
  PROVE  Writing
PROOF
  BY DEF Quiet, Writing

LEMMA UserWrites ==
  ASSUME CallsInv, UserStep
  PROVE  Writing /\ Reading
PROOF
  <1>1. ASSUME NEW u \in Uuids, Lock(u)
        PROVE  Writing /\ Reading
    BY <1>1, QuietWrites, AttemptWritten DEF Lock, Reading
  <1>2. ASSUME NEW u \in Uuids, Unlock(u)
        PROVE  Writing /\ Reading
    <2>1. Over(u)'
      BY <1>2 DEF Unlock, Told, Over
    <2>2. Write(Owner[u], ToBroker("unlock", u)) /\ UNCHANGED toClient
      BY <1>2 DEF Unlock
    <2>. QED  BY <2>1, <2>2, NoteWritten, ClientAssumption DEF Reading
  <1>3. ASSUME NEW c \in Clients, Ensure(c)
        PROVE  Writing /\ Reading
    BY <1>3 DEF Ensure, Writing, Reading
  <1>4. ASSUME NEW c \in Clients, SimulateVersionMismatch(c)
        PROVE  Writing /\ Reading
    <2>1. Write(c, ToBroker("version", None)) /\ UNCHANGED toClient
      BY <1>4 DEF SimulateVersionMismatch
    <2>. QED  BY <2>1, NoteWritten DEF Reading
  <1>5. ASSUME NEW c \in Clients, EndCurrentConnection(c) \/ Close(c)
        PROVE  Writing /\ Reading
    BY <1>5 DEF EndCurrentConnection, Close, Writing, Reading, transit
  <1>. QED  BY <1>1, <1>2, <1>3, <1>4, <1>5 DEF UserStep

LEMMA TimerWrites ==
  ASSUME CallsInv, ClientTimer
  PROVE  Writing /\ Reading
PROOF
  <1>. PICK u \in Uuids : LockTimesOut(u) \/ UnlockTimesOut(u)
    BY DEF ClientTimer
  <1>1. CASE LockTimesOut(u)
    <2>1. Write(Owner[u], ToBroker("give-up", u)) \/ Attempt(u, retries[u] + 1)
      BY <1>1 DEF LockTimesOut
    <2>2. UNCHANGED toClient
      BY <1>1 DEF LockTimesOut
    <2>. QED  BY <2>1, <2>2, NoteWritten, AttemptWritten, ClientAssumption DEF Reading
  <1>2. CASE UnlockTimesOut(u)
    BY <1>2, QuietWrites DEF UnlockTimesOut, Reading
  <1>. QED  BY <1>1, <1>2

\* Grants come for the calls of users.
GrantsNamed == \A f : Coming(f) /\ f.kind = "acquired" => f.id \in Uuids

LEMMA DataWrites ==
  ASSUME CallsInv, LinesTyped, DialInv, GrantsNamed, NEW c \in Clients, NEW f, Receives(c, f)
  PROVE  Writing /\ Reading
PROOF
  <1>1. Reads(c, f)
    BY DEF Receives, FrameGivenUp, FrameUnexpected, Acquired, Waiting, RequestRefused, AskAgain,
           Unlocked, VersionRefused, Expected
  <1>2. Reading
    BY <1>1 DEF Reading
  <1>3. Coming(f)
    BY <1>1, ReadsComing
  <1>4. CASE Quiet
    BY <1>2, <1>4, QuietWrites
  <1>5. CASE FrameUnexpected(c, f) /\ ~Quiet
    <2>1. f.id \in Uuids /\ Write(c, ToBroker("rejected", f.id))
      BY <1>3, <1>5 DEF FrameUnexpected, GrantsNamed
    <2>. QED  BY <1>2, <2>1, NoteWritten
  <1>6. CASE Acquired(c, f)
    <2>1. f.id \in Uuids /\ Write(c, ToBroker("received", f.id))
      BY <1>6 DEF Acquired, CallsInv
    <2>. QED  BY <1>2, <2>1, NoteWritten
  <1>7. CASE AskAgain(c, f) /\ ~Quiet
    <2>1. f.id \in Uuids /\ Attempt(f.id, retries[f.id])
      BY <1>7 DEF AskAgain, CallsInv
    <2>. QED  BY <1>2, <2>1, AttemptWritten
  <1>8. CASE VersionRefused(c, f)
    <2>1. Write(c, ToBroker("confirmed", None))
      BY <1>8 DEF VersionRefused
    <2>. QED  BY <1>2, <2>1, NoteWritten
  <1>9. CASE FrameGivenUp(c, f) \/ Waiting(c, f) \/ RequestRefused(c, f) \/ Unlocked(c, f)
    BY <1>4, <1>9 DEF FrameGivenUp, Waiting, RequestRefused, Unlocked
  <1>. QED  BY <1>4, <1>5, <1>6, <1>7, <1>8, <1>9 DEF Receives

LEMMA ClientWrites ==
  ASSUME CallsInv, LinesTyped, DialInv, GrantsNamed, ClientNext
  PROVE  Writing /\ Reading
PROOF
  <1>1. CASE OnData
    BY <1>1, DataWrites DEF OnData
  <1>2. ASSUME NEW c \in Clients, Recover(c)
        PROVE  Writing /\ Reading
    BY <1>2 DEF Recover, Writing, Reading
  <1>. QED  BY <1>1, <1>2, UserWrites, TimerWrites DEF ClientNext

\* A frame of that kind for call u is in transit, with token t.
Answer(kind, u, t) == \E f : Coming(f) /\ f.kind = kind /\ f.id = u /\ f.token = t

\* How call u moves on in a step of a client.
Stays(u)    == status'[u] = status[u]
Fails(u)    == status[u] \in {"idle", "pending", "unlocking"} /\ status'[u] = "failed"
Starts(u)   == status[u] = "idle" /\ status'[u] = "pending"
Enters(u)   == /\ status[u] = "pending" /\ status'[u] = "held"
               /\ userToken'[u] \in 1..MaxToken
               /\ Answer("acquired", u, userToken'[u])
Leaves(u)   == status[u] = "held" /\ status'[u] = "unlocking"
Finishes(u) == /\ status[u] = "unlocking" /\ status'[u] = "unlocked"
               /\ \E t : Answer("unlocked", u, t)

Advances(u) ==
  \/ userToken'[u] = userToken[u]
     /\ (Stays(u) \/ Fails(u) \/ Starts(u) \/ Leaves(u) \/ Finishes(u))
  \/ Fails(u)
  \/ Enters(u)

TokenType == userToken \in [Uuids -> 0..MaxToken]
CallsAdvance == TokenType' /\ \A u \in Uuids : Advances(u)

LEMMA NothingAdvances ==
  ASSUME TokenType, UNCHANGED calls
  PROVE  CallsAdvance
PROOF
  BY DEF CallsAdvance, TokenType, Advances, Stays, calls

LEMMA OneAdvances ==
  ASSUME CallsInv, TokenType, NEW u \in Uuids, NEW s, Told({u}, s), userToken' = userToken,
         Fails(u) \/ Starts(u) \/ Leaves(u) \/ Finishes(u)
  PROVE  CallsAdvance
PROOF
  BY DEF CallsAdvance, TokenType, Advances, Stays, Told

LEMMA FailLockAdvances ==
  ASSUME CallsInv, TokenType, NEW u \in Uuids, status[u] \in {"idle", "pending"}, FailLock(u)
  PROVE  CallsAdvance
PROOF
  <1>1. Told({u}, "failed") /\ userToken' = userToken /\ status'[u] = "failed"
    BY DEF FailLock, Told
  <1>. QED  BY <1>1, OneAdvances DEF Fails

LEMMA FailAllAdvances ==
  ASSUME CallsInv, TokenType, NEW c, FailAll(c)
  PROVE  CallsAdvance
PROOF
  <1>. DEFINE ls == locking \cap CallsOf(c)
              us == unlocking \cap CallsOf(c)
  <1>1. \A u \in Uuids : /\ u \in ls => status[u] = "pending"
                         /\ u \in us => status[u] = "unlocking"
    BY DEF CallsInv, AnsweredOnce
  <1>2. /\ status' = [u \in Uuids |-> IF u \in ls \cup us THEN "failed" ELSE status[u]]
        /\ userToken' = userToken
    BY DEF FailAll, Told
  <1>. HIDE DEF ls, us
  <1>. QED  BY <1>1, <1>2 DEF CallsAdvance, TokenType, Advances, Stays, Fails

LEMMA UserAdvances ==
  ASSUME CallsInv, TokenType, UserStep
  PROVE  CallsAdvance
PROOF
  <1>1. ASSUME NEW u \in Uuids, Lock(u)
        PROVE  CallsAdvance
    <2>1. CASE FailLock(u)
      BY <1>1, <2>1, FailLockAdvances DEF Lock
    <2>2. CASE Told({u}, "pending") /\ userToken' = userToken
      <3>1. Starts(u)
        BY <1>1, <2>2 DEF Lock, Told, Starts
      <3>. QED  BY <2>2, <3>1, OneAdvances
    <2>. QED  BY <1>1, <2>1, <2>2 DEF Lock
  <1>2. ASSUME NEW u \in Uuids, Unlock(u)
        PROVE  CallsAdvance
    <2>1. Told({u}, "unlocking") /\ userToken' = userToken /\ Leaves(u)
      BY <1>2 DEF Unlock, Told, Leaves
    <2>. QED  BY <2>1, OneAdvances
  <1>3. ASSUME NEW c \in Clients, Ensure(c) \/ SimulateVersionMismatch(c)
        PROVE  CallsAdvance
    BY <1>3, NothingAdvances DEF Ensure, SimulateVersionMismatch
  <1>4. ASSUME NEW c \in Clients, EndCurrentConnection(c) \/ Close(c)
        PROVE  CallsAdvance
    BY <1>4, FailAllAdvances DEF EndCurrentConnection, Close
  <1>. QED  BY <1>1, <1>2, <1>3, <1>4 DEF UserStep

LEMMA TimerAdvances ==
  ASSUME CallsInv, TokenType, ClientTimer
  PROVE  CallsAdvance
PROOF
  <1>. PICK u \in Uuids : LockTimesOut(u) \/ UnlockTimesOut(u)
    BY DEF ClientTimer
  <1>1. CASE LockTimesOut(u)
    <2>1. status[u] = "pending"
      BY <1>1 DEF LockTimesOut, CallsInv, AnsweredOnce
    <2>2. FailLock(u) \/ UNCHANGED calls
      BY <1>1 DEF LockTimesOut, calls
    <2>. QED  BY <2>1, <2>2, FailLockAdvances, NothingAdvances
  <1>2. CASE UnlockTimesOut(u)
    <2>1. status[u] = "unlocking" /\ Told({u}, "failed") /\ userToken' = userToken
      BY <1>2 DEF UnlockTimesOut, EndUnlock, CallsInv
    <2>2. Fails(u)
      BY <2>1 DEF Told, Fails
    <2>. QED  BY <2>1, <2>2, OneAdvances
  <1>. QED  BY <1>1, <1>2

LEMMA AcquiredAdvances ==
  ASSUME CallsInv, TokenType, LinesTyped, DialInv, NEW c \in Clients, NEW f, Acquired(c, f)
  PROVE  CallsAdvance
PROOF
  <1>. DEFINE u == f.id
  <1>1. u \in Uuids /\ status[u] = "pending" /\ f.kind = "acquired" /\ Reads(c, f)
    BY DEF Acquired, Expected, CallsInv, AnsweredOnce
  <1>2. Coming(f) /\ f \in Frame
    BY <1>1, ReadsComing
  <1>3. f.token \in 0..MaxToken
    BY <1>2 DEF Frame
  <1>4. /\ status' = [v \in Uuids |-> IF v = u THEN HandedOut(f) ELSE status[v]]
        /\ userToken' = [userToken EXCEPT ![u] = f.token]
    BY DEF Acquired, Told
  <1>5. TokenType'
    BY <1>1, <1>3, <1>4 DEF TokenType
  <1>6. userToken'[u] = f.token /\ status'[u] = HandedOut(f)
    BY <1>1, <1>4 DEF TokenType
  <1>7. Advances(u)
    <2>1. CASE f.token \in 1..MaxToken
      <3>1. status'[u] = "held"
        BY <1>6, <2>1 DEF HandedOut, FencingToken
      <3>. QED  BY <1>1, <1>2, <1>6, <2>1, <3>1 DEF Advances, Enters, Answer
    <2>2. CASE f.token \notin 1..MaxToken
      <3>1. status'[u] = "failed"
        BY <1>6, <2>2 DEF HandedOut, FencingToken
      <3>. QED  BY <1>1, <3>1 DEF Advances, Fails
    <2>. QED  BY <2>1, <2>2
  <1>8. \A v \in Uuids : v # u => Advances(v)
    BY <1>4 DEF Advances, Stays, TokenType
  <1>. QED  BY <1>5, <1>7, <1>8 DEF CallsAdvance

LEMMA DataAdvances ==
  ASSUME CallsInv, TokenType, LinesTyped, DialInv, NEW c \in Clients, NEW f, Receives(c, f)
  PROVE  CallsAdvance
PROOF
  <1>1. CASE FrameGivenUp(c, f) \/ FrameUnexpected(c, f)
    BY <1>1, NothingAdvances DEF FrameGivenUp, FrameUnexpected
  <1>2. CASE Waiting(c, f) \/ RequestRefused(c, f) \/ AskAgain(c, f)
    <2>1. f.id \in Uuids /\ status[f.id] = "pending"
      BY <1>2 DEF Waiting, RequestRefused, AskAgain, CallsInv, AnsweredOnce
    <2>2. FailLock(f.id) \/ UNCHANGED calls
      BY <1>2 DEF Waiting, RequestRefused, AskAgain, calls
    <2>. QED  BY <2>1, <2>2, FailLockAdvances, NothingAdvances
  <1>3. CASE Unlocked(c, f)
    <2>1. /\ f.id \in Uuids /\ status[f.id] = "unlocking" /\ userToken' = userToken
          /\ Told({f.id}, IF f.kind = "unlocked" THEN "unlocked" ELSE "failed") /\ Reads(c, f)
      BY <1>3 DEF Unlocked, Expected, EndUnlock, CallsInv
    <2>2. Coming(f)
      BY <2>1, ReadsComing
    <2>3. CASE f.kind = "unlocked"
      <3>1. Finishes(f.id)
        BY <2>1, <2>2, <2>3 DEF Told, Finishes, Answer
      <3>. QED  BY <2>1, <3>1, OneAdvances
    <2>4. CASE f.kind # "unlocked"
      <3>1. Fails(f.id)
        BY <2>1, <2>4 DEF Told, Fails
      <3>. QED  BY <2>1, <3>1, OneAdvances
    <2>. QED  BY <2>3, <2>4
  <1>4. CASE VersionRefused(c, f)
    BY <1>4, FailAllAdvances DEF VersionRefused
  <1>. QED  BY <1>1, <1>2, <1>3, <1>4, AcquiredAdvances DEF Receives

LEMMA ClientAdvances ==
  ASSUME CallsInv, TokenType, LinesTyped, DialInv, ClientNext
  PROVE  CallsAdvance
PROOF
  <1>1. CASE OnData
    BY <1>1, DataAdvances DEF OnData
  <1>2. ASSUME NEW c \in Clients, Recover(c)
        PROVE  CallsAdvance
    BY <1>2, FailAllAdvances DEF Recover
  <1>. QED  BY <1>1, <1>2, UserAdvances, TimerAdvances DEF ClientNext

-----------------------------------------------------------------------------
(* Grants and unlocks that are on their way.                               *)

LEMMA ComingType ==
  ASSUME LinesTyped, NEW f, Coming(f)
  PROVE  f \in Frame
PROOF
  <1>1. PICK s \in Sockets : \E i \in 1..Len(toClient[s]) : toClient[s][i] = f
    BY DEF Coming
  <1>2. toClient[s] \in Seq(Frame)
    BY DEF LinesTyped
  <1>. QED  BY <1>1, <1>2

\* A grant carries a token the broker has granted, and an unlock is confirmed to
\* a user who has asked for it, after its hold has gone.
ComingOK ==
  \A f : Coming(f) =>
    /\ f.kind = "acquired" => f.id \in Uuids /\ f.token <= lastToken[Req[f.id].key]
    /\ f.kind = "unlocked" =>
         /\ f.id \in Uuids /\ Over(f.id)
         /\ status[f.id] = "unlocking" => Token(Req[f.id].key, f.id) # userToken[f.id]

HeldTokens ==
  \A u \in Uuids : status[u] \in {"held", "unlocking"} =>
    userToken[u] \in 1..MaxToken /\ userToken[u] <= lastToken[Req[u].key]

LiveInv == /\ ServiceInv /\ CallsInv /\ TokenType
           /\ LinesTyped /\ DialInv
           /\ GoingOK /\ ComingOK /\ HeldTokens

LEMMA NextKeeps ==
  ASSUME ServiceInv, Next, Restart => Durable, ~GrantLock
  PROVE  lastToken' = lastToken
PROOF
  <1>1. ~ManyGrantsKey
    BY OnlyPlainGrants, NameAssumption DEF ManyGrantsKey, GrantingMany, GrantingPlain
  <1>. QED  BY <1>1, SameLastToken

\* Tokens go up, and a hold gets a new one only above them all.
Upward ==
  \A k \in Keys :
    /\ lastToken[k] \in Nat /\ lastToken'[k] \in Nat
    /\ lastToken[k] <= lastToken'[k]
    /\ \A h \in Holders : Token(k, h)' \in {0, Token(k, h)} \/ lastToken[k] < Token(k, h)'

LEMMA BrokerUpward ==
  ASSUME LiveInv, LiveNext, ~ClientStep, Restart => Durable
  PROVE  Upward
PROOF
  <1>. IInv /\ ServiceInv
    BY DEF LiveInv, ServiceInv, WInv, HInv
  <1>1. lastToken \in [Keys -> Nat]
    BY NumberAssumption DEF IInv, TypeOK
  <1>2. CASE BrokerRests
    BY <1>1, <1>2 DEF BrokerRests, Upward, Token, Present
  <1>3. CASE Next
    <2>1. IInv' /\ GrantIsNewer
      BY <1>3, NextStep DEF StepOK, IInv
    <2>2. lastToken' \in [Keys -> Nat]
      BY <2>1, NumberAssumption DEF IInv, TypeOK
    <2>3. \A k \in Keys, h \in Holders : Token(k, h)' \in {0, Token(k, h)}
                                         \/ lastToken[k] < Token(k, h)'
      <3>. SUFFICES ASSUME NEW k \in Keys, NEW h \in Holders,
                           Token(k, h)' \notin {0, Token(k, h)}
                    PROVE  lastToken[k] < Token(k, h)'
        OBVIOUS
      <3>1. Token(k, h)' > lastToken[k] /\ lastToken'[k] = Token(k, h)'
        BY <2>1 DEF GrantIsNewer
      <3>2. lastToken[k] \in Nat /\ lastToken'[k] \in Nat
        BY <1>1, <2>2
      <3>. QED  BY <3>1, <3>2
    <2>4. \A k \in Keys : lastToken[k] <= lastToken'[k]
      <3>1. CASE GrantLock
        <4>. DEFINE j == Req[granting.id].key
        <4>1. /\ j \in Keys /\ granting.id \in Holders /\ granting.ws \in Sockets
              /\ locks[j] # None /\ Install(j, granting.id, granting.ws)
          BY <3>1, GrantLockEffect, GrantingType DEF GrantLock, GrantingPlain
        <4>2. /\ \A k \in Keys : lastToken'[k] = IF k = j THEN NextToken(j) ELSE lastToken[k]
              /\ lastToken[j] < NextToken(j)
          BY <4>1, InstallTokens
        <4>. HIDE DEF j
        <4>3. lastToken[j] <= lastToken'[j]
          BY <1>1, <2>2, <4>1, <4>2
        <4>. QED  BY <1>1, <4>2, <4>3
      <3>2. CASE ~GrantLock
        BY <1>1, <1>3, <3>2, NextKeeps
      <3>. QED  BY <3>1, <3>2
    <2>. QED  BY <1>1, <2>2, <2>3, <2>4 DEF Upward
  <1>4. BrokerRests \/ Next
    <2>1. BrokerRests \/ BrokerMoves
      BY StepMoves DEF LiveInv
    <2>. QED  BY <2>1, MovesAreSteps DEF BrokerMoves
  <1>. QED  BY <1>2, <1>3, <1>4

LEMMA BrokerComing ==
  ASSUME LiveInv, LiveNext, ~ClientStep, Restart => Durable
  PROVE  ComingOK'
PROOF
  <1>. IInv /\ ServiceInv /\ ServiceInv'
    BY StepOut DEF LiveInv, ServiceInv, WInv, HInv
  <1>1. status' = status /\ userToken' = userToken
    BY OthersRest DEF calls
  <1>2. Upward
    BY BrokerUpward
  <1>3. OutSays /\ LinesMove
    BY StepOut, StepLines DEF LiveInv
  <1>. SUFFICES ASSUME NEW f, Coming(f)'
                PROVE  /\ f.kind = "acquired" =>
                            f.id \in Uuids /\ f.token <= lastToken'[Req[f.id].key]
                       /\ f.kind = "unlocked" =>
                            /\ f.id \in Uuids /\ Over(f.id)
                            /\ status[f.id] = "unlocking"
                                 => Token(Req[f.id].key, f.id)' # userToken[f.id]
    BY <1>1 DEF ComingOK, Over
  <1>4. CASE Coming(f)
    <2>1. CASE f.kind = "acquired"
      <3>1. f.id \in Uuids /\ f.token <= lastToken[Req[f.id].key] /\ Req[f.id].key \in Keys
        BY <1>4, <2>1, RequestType DEF LiveInv, ComingOK
      <3>2. f.token \in Nat
        BY <1>4, ComingType, NumberAssumption DEF LiveInv, Frame
      <3>. QED  BY <1>2, <2>1, <3>1, <3>2 DEF Upward
    <2>2. CASE f.kind = "unlocked"
      <3>1. /\ f.id \in Uuids /\ Over(f.id) /\ Req[f.id].key \in Keys /\ f.id \in Holders
            /\ status[f.id] = "unlocking" => Token(Req[f.id].key, f.id) # userToken[f.id]
        BY <1>4, <2>2, RequestType DEF LiveInv, ComingOK
      <3>2. status[f.id] = "unlocking" => userToken[f.id] \in 1..MaxToken
                                          /\ userToken[f.id] <= lastToken[Req[f.id].key]
        BY <3>1 DEF LiveInv, HeldTokens
      <3>3. /\ lastToken[Req[f.id].key] \in Nat
            /\ \/ Token(Req[f.id].key, f.id)' \in {0, Token(Req[f.id].key, f.id)}
               \/ lastToken[Req[f.id].key] < Token(Req[f.id].key, f.id)'
        BY <1>2, <3>1 DEF Upward
      <3>4. Token(Req[f.id].key, f.id)' \in Nat
        BY <3>1, NumberAssumption DEF ServiceInv, WInv, HInv, IInv, TypeOK, Token, Present, LockObj, Hold
      <3>. QED  BY <2>2, <3>1, <3>2, <3>3, <3>4
    <2>. QED  BY <2>1, <2>2
  <1>5. CASE f \in out'
    <2>1. CASE f.kind = "acquired"
      <3>1. GrantLock /\ f.id = granting.id /\ f.token = NextToken(Req[granting.id].key)
        BY <1>3, <1>5, <2>1 DEF OutSays
      <3>. DEFINE j == Req[granting.id].key
      <3>2. /\ j \in Keys /\ granting.id \in Uuids /\ granting.id \in Holders
            /\ granting.ws \in Sockets
            /\ locks[j] # None /\ Install(j, granting.id, granting.ws)
        BY <3>1, GrantLockEffect, GrantingType DEF GrantLock, GrantingPlain
      <3>3. lastToken'[j] = NextToken(j)
        BY <3>2, InstallTokens
      <3>4. lastToken'[j] \in Nat
        BY <1>2, <3>2 DEF Upward
      <3>. QED  BY <2>1, <3>1, <3>2, <3>3, <3>4
    <2>2. CASE f.kind = "unlocked"
      <3>1. f.id \in Uuids /\ Over(f.id) /\ f.id \notin Holds(locks', Req[f.id].key)
        BY <1>3, <1>5, <2>2 DEF OutSays
      <3>2. Token(Req[f.id].key, f.id)' = 0
        BY <3>1, RequestType DEF Holds, HoldersOf, Holding, Token, Present
      <3>3. status[f.id] = "unlocking" => userToken[f.id] \in 1..MaxToken
        BY <3>1 DEF LiveInv, HeldTokens
      <3>. QED  BY <2>2, <3>1, <3>2, <3>3
    <2>. QED  BY <2>1, <2>2
  <1>. QED  BY <1>3, <1>4, <1>5 DEF LinesMove

LEMMA BrokerLive ==
  ASSUME LiveInv, LiveNext, ~ClientStep, Restart => Durable
  PROVE  LiveInv'
PROOF
  <1>1. ServiceInv' /\ LinesMove /\ Upward /\ ComingOK'
    BY StepOut, StepLines, BrokerUpward, BrokerComing DEF LiveInv
  <1>2. UNCHANGED <<calls, tablesOfClient, dialled>>
    BY OthersRest
  <1>3. CallsInv'
    BY <1>2, CallsRest DEF LiveInv
  <1>4. TokenType' /\ DialInv' /\ LinesTyped'
    BY <1>1, <1>2 DEF LiveInv, TokenType, DialInv, LinesMove, calls
  <1>5. GoingOK'
    BY <1>1, <1>2 DEF LiveInv, GoingOK, LinesMove, Over, calls
  <1>6. HeldTokens'
    <2>. SUFFICES ASSUME NEW u \in Uuids, status[u] \in {"held", "unlocking"}
                  PROVE  userToken[u] \in 1..MaxToken /\ userToken[u] <= lastToken'[Req[u].key]
      BY <1>2 DEF HeldTokens, calls
    <2>1. /\ userToken[u] \in 1..MaxToken /\ userToken[u] <= lastToken[Req[u].key]
          /\ Req[u].key \in Keys
      BY RequestType DEF LiveInv, HeldTokens
    <2>. QED  BY <1>1, <2>1 DEF Upward
  <1>. QED  BY <1>1, <1>3, <1>4, <1>5, <1>6 DEF LiveInv

LEMMA ClientStands ==
  ASSUME LiveInv, ClientStep
  PROVE  /\ CallsAdvance /\ CallsInv' /\ LinesTyped' /\ DialInv'
         /\ \A g : /\ Going(g)' => Going(g) \/ Sound(g)
                   /\ Coming(g)' => Coming(g)
PROOF
  <1>1. CallsAdvance /\ CallsInv'
    BY ClientAdvances, ClientCalls DEF LiveInv, ClientStep
  <1>2. GrantsNamed
    BY DEF LiveInv, ComingOK, GrantsNamed
  <1>3. Writing /\ Reading
    BY <1>2, ClientWrites DEF LiveInv, ClientStep
  <1>. QED  BY <1>1, <1>3, ClientLines DEF LiveInv

LEMMA ClientLive ==
  ASSUME LiveInv, ClientStep
  PROVE  LiveInv'
PROOF
  <1>1. /\ CallsAdvance /\ CallsInv' /\ LinesTyped' /\ DialInv'
        /\ \A g : /\ Going(g)' => Going(g) \/ Sound(g)
                  /\ Coming(g)' => Coming(g)
    BY ClientStands
  <1>2. ServiceInv' /\ lastToken' = lastToken /\ locks' = locks
    BY RestsServiceInv DEF LiveInv, ClientStep, BrokerRests
  <1>3. \A u \in Uuids : Over(u) => Over(u)'
    BY <1>1 DEF CallsAdvance, Advances, Stays, Fails, Starts, Enters, Leaves, Finishes, Over
  <1>4. GoingOK'
    <2>. SUFFICES ASSUME NEW f, Going(f)'
                  PROVE  /\ f.kind \in {"version", "confirmed"} \/ f.id \in Uuids
                         /\ f.kind = "unlock" => Over(f.id)'
      BY DEF GoingOK
    <2>1. CASE Going(f)
      <3>1. /\ f.kind \in {"version", "confirmed"} \/ f.id \in Uuids
            /\ f.kind = "unlock" => Over(f.id)
        BY <2>1 DEF LiveInv, GoingOK
      <3>2. f.kind = "unlock" => f.id \in Uuids
        BY <3>1
      <3>. QED  BY <1>3, <3>1, <3>2
    <2>2. CASE Sound(f)
      BY <2>2 DEF Sound
    <2>. QED  BY <1>1, <2>1, <2>2
  <1>5. ComingOK'
    <2>. SUFFICES ASSUME NEW f, Coming(f)'
                  PROVE  /\ f.kind = "acquired" =>
                              f.id \in Uuids /\ f.token <= lastToken[Req[f.id].key]
                         /\ f.kind = "unlocked" =>
                              /\ f.id \in Uuids /\ Over(f.id)'
                              /\ status'[f.id] = "unlocking"
                                   => Token(Req[f.id].key, f.id) # userToken'[f.id]
      BY <1>2 DEF ComingOK, Token, Present
    <2>1. Coming(f)
      BY <1>1
    <2>2. CASE f.kind = "acquired"
      BY <2>1, <2>2 DEF LiveInv, ComingOK
    <2>3. CASE f.kind = "unlocked"
      <3>1. /\ f.id \in Uuids /\ Over(f.id)
            /\ status[f.id] = "unlocking" => Token(Req[f.id].key, f.id) # userToken[f.id]
        BY <2>1, <2>3 DEF LiveInv, ComingOK
      <3>2. status'[f.id] = "unlocking"
              => status[f.id] = "unlocking" /\ userToken'[f.id] = userToken[f.id]
        BY <1>1, <3>1
        DEF CallsAdvance, Advances, Stays, Fails, Starts, Enters, Leaves, Finishes, Over
      <3>. QED  BY <1>3, <2>3, <3>1, <3>2
    <2>. QED  BY <2>2, <2>3
  <1>6. HeldTokens'
    <2>. SUFFICES ASSUME NEW u \in Uuids, status'[u] \in {"held", "unlocking"}
                  PROVE  userToken'[u] \in 1..MaxToken /\ userToken'[u] <= lastToken[Req[u].key]
      BY <1>2 DEF HeldTokens
    <2>1. \/ Enters(u)
          \/ status[u] \in {"held", "unlocking"} /\ userToken'[u] = userToken[u]
      BY <1>1 DEF CallsAdvance, Advances, Stays, Fails, Starts, Leaves, Finishes
    <2>2. CASE Enters(u)
      BY <2>2 DEF Enters, Answer, LiveInv, ComingOK
    <2>3. CASE status[u] \in {"held", "unlocking"} /\ userToken'[u] = userToken[u]
      BY <2>3 DEF LiveInv, HeldTokens
    <2>. QED  BY <2>1, <2>2, <2>3
  <1>. QED  BY <1>1, <1>2, <1>4, <1>5, <1>6 DEF LiveInv, CallsAdvance

LEMMA StutterLive ==
  ASSUME LiveInv, UNCHANGED liveMutexVars
  PROVE  LiveInv'
PROOF
  <1>1. UNCHANGED vars /\ UNCHANGED <<calls, tablesOfClient, dialled, toBroker, toClient>>
    BY DEF liveMutexVars, clientVars, links, transit
  <1>2. locks' = locks /\ spent' = spent /\ work' = work /\ lastToken' = lastToken
    BY <1>1 DEF vars, tables, stack
  <1>3. ServiceInv'
    BY <1>1, <1>2, StutterWInv DEF LiveInv, ServiceInv, NoRegistry
  <1>4. CallsInv'
    BY <1>1, CallsRest DEF LiveInv
  <1>5. TokenType' /\ LinesTyped' /\ DialInv' /\ GoingOK'
    BY <1>1 DEF LiveInv, TokenType, LinesTyped, DialInv, GoingOK, Going, Over, calls
  <1>6. ComingOK' /\ HeldTokens'
    BY <1>1, <1>2 DEF LiveInv, ComingOK, HeldTokens, Coming, Over, Token, Present, calls
  <1>. QED  BY <1>3, <1>4, <1>5, <1>6 DEF LiveInv

LEMMA InitLive == LiveInit => LiveInv
PROOF
  <1>. SUFFICES ASSUME LiveInit  PROVE LiveInv
    OBVIOUS
  <1>1. ServiceInv
    BY InitWInv DEF LiveInit, Init, ServiceInv, NoRegistry
  <1>2. CallsInv
    BY DEF LiveInit, ClientInit, CallsInv, AnsweredOnce, Status
  <1>3. TokenType /\ HeldTokens
    BY NumberAssumption DEF LiveInit, ClientInit, TokenType, HeldTokens
  <1>4. <<>> \in Seq(Frame) /\ <<>> \in Seq(ClientFrame) /\ Len(<<>>) = 0
    OBVIOUS
  <1>5. /\ LinesTyped /\ \A f : ~Coming(f) /\ ~Going(f)
    BY <1>4 DEF LiveInit, ClientInit, LinesTyped, Coming, Going
  <1>6. DialInv
    <2>1. \A c \in Clients : Len(Dial[c]) \in Nat
      BY ClientAssumption
    <2>. QED  BY <2>1 DEF LiveInit, ClientInit, DialInv
  <1>. QED  BY <1>1, <1>2, <1>3, <1>5, <1>6 DEF LiveInv, GoingOK, ComingOK

LEMMA LiveStep ==
  ASSUME LiveInv, [LiveNext]_liveMutexVars, [Restart => Durable]_liveMutexVars
  PROVE  LiveInv'
PROOF
  <1>1. CASE ClientStep
    BY <1>1, ClientLive
  <1>2. CASE UNCHANGED liveMutexVars
    BY <1>2, StutterLive
  <1>3. CASE LiveNext /\ ~ClientStep /\ (Restart => Durable)
    BY <1>3, BrokerLive
  <1>. QED  BY <1>1, <1>2, <1>3

(* When unlock() reports success, the hold the user was handed is gone,    *)
(* though retries may have had the same call granted again meanwhile: for  *)
(* any number of clients, calls, connections and keys, and whichever way   *)
(* the steps of the broker and of the clients interleave.  The hypothesis: *)
(* a broker that is restarted has a state file.                            *)
THEOREM UnlocksAreTrue ==
  LiveSpec /\ [][Restart => Durable]_liveMutexVars => UnlockIsTrue
PROOF
  <1>. DEFINE Truly == \A u \in Uuids : status[u] = "unlocking" /\ status[u]' = "unlocked"
                                          => Token(Req[u].key, u) # userToken[u]
  <1>1. LiveInv /\ [LiveNext]_liveMutexVars => [Truly]_liveMutexVars
    <2>. SUFFICES ASSUME LiveInv, LiveNext, NEW u \in Uuids,
                         status[u] = "unlocking", status'[u] = "unlocked"
                  PROVE  Token(Req[u].key, u) # userToken[u]
      OBVIOUS
    <2>1. ClientStep
      BY OthersRest DEF calls
    <2>2. Finishes(u)
      BY <2>1, ClientStands
      DEF CallsAdvance, Advances, Stays, Fails, Starts, Enters, Leaves, Finishes
    <2>. QED  BY <2>2 DEF Finishes, Answer, LiveInv, ComingOK
  <1>. QED  BY <1>1, InitLive, LiveStep, PTL DEF LiveSpec, UnlockIsTrue

-----------------------------------------------------------------------------
(* Mutexes.                                                                *)

\* Every call asks for one slot.
\* A user has been handed token t, or will be when it reads on.
Claims(u, t) ==
  \/ status[u] = "held" /\ userToken[u] = t
  \/ status[u] \in {"idle", "pending"} /\ Answer("acquired", u, t)

\* A claim that still counts is a hold of the broker's.
ClaimsInv ==
  \A u \in Uuids : \A t : Claims(u, t) =>
    /\ t \in Nat /\ t <= lastToken[Req[u].key]
    /\ u \in revoked \/ Held(Req[u].key, u)

OrderInv ==
  \A u, v \in Uuids : \A t, n :
    Req[u].key = Req[v].key /\ Claims(u, t) /\ Claims(v, n) /\ t < n => u \in revoked

MutexInv == LiveInv /\ SlotsInv(Ones) /\ ClaimsInv /\ OrderInv

\* A mutex is granted when nobody holds it.
\* A claim is old, or is the grant of this step.
Gains(u, t) == GrantLock /\ u = granting.id /\ t = NextToken(Req[u].key)

LEMMA ClaimBefore ==
  ASSUME LiveInv, LiveNext, ~ClientStep, NEW u \in Uuids, NEW t, Claims(u, t)'
  PROVE  Claims(u, t) \/ Gains(u, t)
PROOF
  <1>1. status' = status /\ userToken' = userToken
    BY OthersRest DEF calls
  <1>2. CASE status[u] = "held"
    BY <1>1, <1>2 DEF Claims
  <1>3. CASE status[u] \in {"idle", "pending"} /\ Answer("acquired", u, t)'
    <2>1. PICK f : Coming(f)' /\ f.kind = "acquired" /\ f.id = u /\ f.token = t
      BY <1>3 DEF Answer
    <2>2. OutSays /\ (Coming(f) \/ f \in out')
      BY <2>1, StepOut, StepLines DEF LiveInv, LinesMove
    <2>3. CASE Coming(f)
      BY <1>3, <2>1, <2>3 DEF Claims, Answer
    <2>4. CASE f \in out'
      BY <2>1, <2>2, <2>4 DEF OutSays, Gains
    <2>. QED  BY <2>2, <2>3, <2>4
  <1>. QED  BY <1>1, <1>2, <1>3 DEF Claims

\* A hold whose claim counts ends only in revocation.
LEMMA EndRevokes ==
  ASSUME LiveInv, LiveNext, ~ClientStep, NEW u \in Uuids, NEW t, Claims(u, t),
         u \in revoked \/ Held(Req[u].key, u)
  PROVE  u \in revoked' \/ Held(Req[u].key, u)'
PROOF
  <1>1. revoked' = revoked \cup Ended /\ OutSays
    BY StepRevokes, StepOut DEF LiveInv
  <1>2. ~Over(u)
    BY DEF Claims, Over
  <1>3. \A f \in out' : f.kind # "unlocked" \/ f.id # u
    BY <1>1, <1>2 DEF OutSays
  <1>. QED  BY <1>1, <1>3 DEF Ended

LEMMA BrokerClaims ==
  ASSUME MutexInv, LiveNext, ~ClientStep, Restart => Durable
  PROVE  ClaimsInv' /\ OrderInv'
PROOF
  <1>. LiveInv /\ SlotsInv(Ones) /\ ClaimsInv /\ OrderInv
    BY DEF MutexInv
  <1>1. Upward
    BY BrokerUpward
  <1>2. ASSUME NEW u \in Uuids, NEW t, Gains(u, t)
        PROVE  /\ Req[u].key \in Keys /\ Holds(locks, Req[u].key) = {}
               /\ Held(Req[u].key, u)' /\ lastToken[Req[u].key] < t
               /\ lastToken'[Req[u].key] = t
    <2>1. /\ Req[u].key \in Keys /\ Holds(locks, Req[u].key) = {}
          /\ u \in Holds(locks', Req[u].key)
          /\ lastToken[Req[u].key] < t /\ lastToken'[Req[u].key] = t
      BY <1>2, GrantFindsNobody DEF Gains
    <2>2. Held(Req[u].key, u)'
      BY <2>1, HeldHolds, RequestType
    <2>. QED  BY <2>1, <2>2
  <1>3. ClaimsInv'
    <2>. SUFFICES ASSUME NEW u \in Uuids, NEW t, Claims(u, t)'
                  PROVE  /\ t \in Nat /\ t <= lastToken'[Req[u].key]
                         /\ u \in revoked' \/ Held(Req[u].key, u)'
      BY DEF ClaimsInv
    <2>1. Req[u].key \in Keys
      BY RequestType
    <2>2. lastToken[Req[u].key] \in Nat /\ lastToken'[Req[u].key] \in Nat
          /\ lastToken[Req[u].key] <= lastToken'[Req[u].key]
      BY <1>1, <2>1 DEF Upward
    <2>3. CASE Claims(u, t)
      <3>1. /\ t \in Nat /\ t <= lastToken[Req[u].key]
            /\ u \in revoked \/ Held(Req[u].key, u)
        BY <2>3 DEF ClaimsInv
      <3>2. u \in revoked' \/ Held(Req[u].key, u)'
        BY <2>3, <3>1, EndRevokes
      <3>. QED  BY <2>2, <3>1, <3>2
    <2>4. CASE Gains(u, t)
      BY <1>2, <2>2, <2>4
    <2>. QED  BY <2>3, <2>4, ClaimBefore
  <1>4. OrderInv'
    <2>. SUFFICES ASSUME NEW u \in Uuids, NEW v \in Uuids, NEW t, NEW n,
                         Req[u].key = Req[v].key, Claims(u, t)', Claims(v, n)', t < n
                  PROVE  u \in revoked'
      BY DEF OrderInv
    <2>1. revoked \subseteq revoked'
      BY StepRevokes
    <2>2. CASE Claims(u, t) /\ Claims(v, n)
      BY <2>1, <2>2 DEF OrderInv
    <2>3. CASE Claims(u, t) /\ Gains(v, n)
      <3>1. Holds(locks, Req[u].key) = {} /\ u \in Holders
        BY <1>2, <2>3, RequestType
      <3>2. ~Held(Req[u].key, u)
        BY <3>1, HeldHolds
      <3>. QED  BY <2>1, <2>3, <3>2 DEF ClaimsInv
    <2>4. CASE Gains(u, t) /\ Claims(v, n)
      <3>1. n \in Nat /\ n <= lastToken[Req[u].key]
        BY <2>4 DEF ClaimsInv
      <3>2. lastToken[Req[u].key] < t /\ lastToken'[Req[u].key] = t /\ Req[u].key \in Keys
        BY <1>2, <2>4
      <3>3. lastToken[Req[u].key] \in Nat /\ t \in Nat
        BY <1>1, <3>2 DEF Upward
      <3>. QED  BY <3>1, <3>2, <3>3
    <2>5. CASE Gains(u, t) /\ Gains(v, n)
      <3>1. t = n /\ t \in Nat
        BY <1>1, <1>2, <2>5 DEF Upward
      <3>. QED  BY <3>1
    <2>. QED  BY <2>2, <2>3, <2>4, <2>5, ClaimBefore
  <1>. QED  BY <1>3, <1>4

LEMMA ClientClaims ==
  ASSUME MutexInv, ClientStep
  PROVE  ClaimsInv' /\ OrderInv'
PROOF
  <1>1. locks' = locks /\ lastToken' = lastToken /\ revoked' = revoked
    BY DEF ClientStep, BrokerRests
  <1>2. CallsAdvance /\ \A f : Coming(f)' => Coming(f)
    BY ClientStands DEF MutexInv
  <1>3. ASSUME NEW u \in Uuids, NEW t, Claims(u, t)'
        PROVE  Claims(u, t)
    <2>1. Advances(u)
      BY <1>2 DEF CallsAdvance
    <2>2. CASE status'[u] = "held" /\ userToken'[u] = t
      BY <2>1, <2>2
      DEF Advances, Stays, Fails, Starts, Enters, Leaves, Finishes, Claims
    <2>3. CASE status'[u] \in {"idle", "pending"} /\ Answer("acquired", u, t)'
      <3>1. Answer("acquired", u, t)
        BY <1>2, <2>3 DEF Answer
      <3>2. status[u] \in {"idle", "pending"}
        BY <2>1, <2>3 DEF Advances, Stays, Fails, Starts, Enters, Leaves, Finishes
      <3>. QED  BY <3>1, <3>2 DEF Claims
    <2>. QED  BY <1>3, <2>2, <2>3 DEF Claims
  <1>4. ClaimsInv'
    BY <1>1, <1>3 DEF MutexInv, ClaimsInv, Held, Present, Holding
  <1>5. OrderInv'
    BY <1>1, <1>3 DEF MutexInv, OrderInv
  <1>. QED  BY <1>4, <1>5

LEMMA SlotsKept ==
  ASSUME Mutexes, MutexInv, LiveNext, HInv'
  PROVE  SlotsInv(Ones)'
PROOF
  <1>1. ASSUME BrokerRests
        PROVE  SlotsInv(Ones)'
    <2>1. locks' = locks /\ granting' = granting
      BY <1>1 DEF BrokerRests, stack
    <2>. QED  BY <2>1 DEF MutexInv, SlotsInv, SlotInv, GrantingPlain
  <1>2. ASSUME Next
        PROVE  SlotsInv(Ones)'
    <2>1. NoReaders
      BY ServiceAssumption DEF NoReaders
    <2>. QED  BY <1>2, <2>1, MutexesAskOne, SlotsInvStep DEF MutexInv
  <1>3. BrokerRests \/ Next
    <2>1. ClientStep \/ BrokerRests \/ BrokerMoves
      BY StepMoves DEF MutexInv, LiveInv
    <2>. QED  BY <2>1, MovesAreSteps DEF BrokerMoves, ClientStep
  <1>. QED  BY <1>1, <1>2, <1>3

LEMMA StutterMutex ==
  ASSUME MutexInv, UNCHANGED liveMutexVars
  PROVE  MutexInv'
PROOF
  <1>1. LiveInv' /\ SlotsInv(Ones)'
    <2>1. LiveInv' /\ locks' = locks /\ granting' = granting
      BY StutterLive DEF MutexInv, liveMutexVars, vars, stack
    <2>2. HInv'
      BY <2>1 DEF LiveInv, ServiceInv, WInv
    <2>. QED  BY <2>1, <2>2 DEF MutexInv, SlotsInv, SlotInv, GrantingPlain
  <1>2. /\ locks' = locks /\ lastToken' = lastToken /\ revoked' = revoked
        /\ status' = status /\ userToken' = userToken /\ toClient' = toClient
    BY DEF liveMutexVars, vars, clientVars, calls, links, transit
  <1>3. \A u, t : Claims(u, t)' <=> Claims(u, t)
    BY <1>2 DEF Claims, Answer, Coming
  <1>4. ClaimsInv' /\ OrderInv'
    BY <1>2, <1>3 DEF MutexInv, ClaimsInv, OrderInv, Held, Present, Holding
  <1>. QED  BY <1>1, <1>4 DEF MutexInv

LEMMA MutexStep ==
  ASSUME Mutexes, MutexInv, [LiveNext]_liveMutexVars, [Restart => Durable]_liveMutexVars
  PROVE  MutexInv'
PROOF
  <1>1. CASE UNCHANGED liveMutexVars
    BY <1>1, StutterMutex
  <1>2. CASE LiveNext /\ ~UNCHANGED liveMutexVars
    <2>1. LiveInv'
      BY LiveStep DEF MutexInv
    <2>2. SlotsInv(Ones)'
      BY <1>2, <2>1, SlotsKept DEF LiveInv, ServiceInv, WInv
    <2>3. ClaimsInv' /\ OrderInv'
      BY <1>2, ClientClaims, BrokerClaims
    <2>. QED  BY <2>1, <2>2, <2>3 DEF MutexInv
  <1>. QED  BY <1>1, <1>2

LEMMA InitMutex == LiveInit => MutexInv
PROOF
  <1>. SUFFICES ASSUME LiveInit  PROVE MutexInv
    OBVIOUS
  <1>1. LiveInv /\ SlotsInv(Ones)
    BY InitLive, InitSlotsInv DEF LiveInit
  <1>2. <<>> \in Seq(Frame) /\ Len(<<>>) = 0
    OBVIOUS
  <1>3. \A u \in Uuids : \A t : ~Claims(u, t)
    BY <1>2 DEF LiveInit, ClientInit, Claims, Answer, Coming
  <1>. QED  BY <1>1, <1>3 DEF MutexInv, ClaimsInv, OrderInv

(* Where every call asks for one slot, two users are inside together only  *)
(* if the earlier one, by token, has lost its hold to its ttl, to the      *)
(* re-election timer or to the end of its connection: for any number of    *)
(* clients, calls, connections and keys, however retries, lost frames,     *)
(* late grants and restarts interleave.  The hypothesis: a broker that is  *)
(* restarted has a state file, or its tokens could go back.                *)
THEOREM UsersExclude ==
  ASSUME Mutexes
  PROVE  LiveSpec /\ [][Restart => Durable]_liveMutexVars => []ExclusiveUsers
PROOF
  <1>1. MutexInv => ExclusiveUsers
    <2>. SUFFICES ASSUME MutexInv, NEW u \in Uuids, NEW v \in Uuids, Req[u].key = Req[v].key,
                         status[u] = "held", status[v] = "held", userToken[u] < userToken[v]
                  PROVE  u \in revoked
      BY DEF ExclusiveUsers
    <2>1. Claims(u, userToken[u]) /\ Claims(v, userToken[v])
      BY DEF Claims
    <2>. QED  BY <2>1 DEF MutexInv, OrderInv
  <1>2. MutexInv /\ [LiveNext]_liveMutexVars /\ [Restart => Durable]_liveMutexVars => MutexInv'
    BY MutexStep
  <1>. QED  BY <1>1, <1>2, InitMutex, PTL DEF LiveSpec
=============================================================================
