----------------------------- MODULE BridgeProofs -----------------------------
(***************************************************************************)
(* The HTTP server and its bridge: ExclusiveCallers and StopReleases.      *)
(*                                                                         *)
(* A caller counts as told of its grant from the moment the acquired frame *)
(* is queued for the virtual socket.  CallersInv says where a call can be  *)
(* by then: nobody attempts it or keeps it in a queue any more, and unless *)
(* its hold was revoked, it holds its keys until it asks to give them up.  *)
(*                                                                         *)
(* StopReleases is about the clean-up of the virtual socket, which visits  *)
(* one key after the other, and drains queues, which grants to composites  *)
(* that wait on keys it has visited.  CleanInv says what the clean-up      *)
(* finds, and for each key which rows still stand for its plain waiters    *)
(* and for the holds that HTTP callers know of.                            *)
(***************************************************************************)
EXTENDS Bridge, Broker1Slots

-----------------------------------------------------------------------------
(* Steps of the broker within the bridge.                                  *)

BrokerSteps == Handle \/ Shutdown \/ Peer \/ BrokerTimer \/ BrokerRuns

(* A handler starts between handlers, and the rest of one runs in between. *)
LEMMA BusyInside ==
  ASSUME Internal
  PROVE  ~Idle
PROOF
  BY DEF Internal, Granting, GrantLock, GrantLockFails, ManyCreatesLock, ManyGrantsKey,
         ManyIsContended, ManyRegisters, ManyFails, GrantingPlain, GrantingMany, Drain, DrainStops,
         DequeueWaiter, Draining, WorkStep, Evict, ReleaseMember, ForgetComposite, VisitKey,
         VisitAbsentKey, ScrubWaiter, ForcedUnlock, EndCleanup, CleaningUp, Turn, Idle

LEMMA HandlersStartIdle ==
  ASSUME BrokerSteps, ~BrokerRuns
  PROVE  Idle
PROOF
  BY DEF BrokerSteps, Handle, HandleLock, HandleUnlock, HandleForce, HandleAcquireMany,
         HandleReleaseMany, LockRefused, LockOnNewKey, LockOnNewKeyFails, LockOnFreeKey,
         LockOnFullKey, LockAccepted, UnlockUnknownKey, UnlockHolder, UnlockLate, UnlockRejected,
         UnlockEveryone, Unlocking, AcquireMany, ReleaseMany, Hears, Shutdown, SocketEnds,
         CleanupConnection, Peer, LockReceived, BrokerTimer, TickTtl, Reelections, Reelection

LEMMA StepsOfBroker ==
  ASSUME BrokerSteps
  PROVE  Next /\ Sends
PROOF
  <1>1. Virtual \in Sockets
    BY BridgeAssumption
  <1>2. ASSUME NEW u \in Uuids, HandleLock(u)
        PROVE  LockFrame /\ Sends
    BY <1>1, <1>2 DEF HandleLock, LockFrame
  <1>3. ASSUME NEW u \in Uuids, HandleUnlock(u)
        PROVE  UnlockFrame /\ Sends
    <2>1. Req[u].key \in Keys /\ u \in CallsOn(Req[u].key) \cup {None}
      BY RequestType DEF CallsOn
    <2>. QED  BY <1>1, <1>3, <2>1 DEF HandleUnlock, UnlockFrame
  <1>4. ASSUME NEW k \in Keys, HandleForce(k)
        PROVE  UnlockFrame /\ Sends
    <2>1. None \in CallsOn(k) \cup {None} /\ FALSE \in BOOLEAN
      OBVIOUS
    <2>. QED  BY <1>1, <1>4, <2>1 DEF HandleForce, UnlockFrame
  <1>5. ASSUME NEW m \in ManyIds, HandleAcquireMany(m) \/ HandleReleaseMany(m)
        PROVE  ManyFrame /\ Sends
    BY <1>1, <1>5 DEF HandleAcquireMany, HandleReleaseMany, ManyFrame
  <1>6. CASE Handle
    BY <1>2, <1>3, <1>4, <1>5, <1>6 DEF Handle, Next, CalmNext, Frames
  <1>7. CASE Shutdown
    BY <1>1, <1>7 DEF Shutdown, Next, CalmNext, Connections
  <1>8. CASE Peer
    <2>1. PICK s \in Sockets, k \in Keys : LockReceived(k, s) \/ UnlockEveryone(k, s)
      BY <1>8 DEF Peer
    <2>2. OtherFrame \/ UnlockFrame
      BY <2>1 DEF OtherFrame, UnlockFrame
    <2>. QED  BY <1>8, <2>2 DEF Peer, Next, CalmNext, Frames
  <1>9. CASE BrokerTimer \/ BrokerRuns
    BY <1>9 DEF BrokerTimer, BrokerRuns, Next, CalmNext
  <1>. QED  BY <1>6, <1>7, <1>8, <1>9 DEF BrokerSteps

(* In the other steps the broker does nothing.                             *)
Rests == BrokerRests /\ UNCHANGED revoked

LEMMA StepsOfBridge ==
  ASSUME BridgeNext
  PROVE  BrokerSteps \/ Rests
PROOF
  BY DEF BridgeNext, BrokerSteps, OnBrokerFrame, Stop, Incoming, Arrives, RequestTimesOut, Rests

LEMMA BrokerAtRest ==
  ASSUME BrokerRests
  PROVE  /\ UNCHANGED <<locks, tables, sockets, authority, stack, lastToken>>
         /\ locks' = locks /\ work' = work /\ drain' = drain /\ granting' = granting
         /\ wsToUUIDs' = wsToUUIDs /\ spent' = spent /\ holderDeadlines' = holderDeadlines
PROOF
  BY DEF BrokerRests, tables, stack

LEMMA RestsIInv ==
  ASSUME IInv, BrokerRests
  PROVE  IInv'
PROOF
  <1>1. TypeOK'
    BY DEF BrokerRests, Silent, tables, sockets, authority, stack, TypeOK, IInv
  <1>2. CounterInOrder' /\ DiskCovers' /\ TokensDistinct' /\ LockInHand' /\ WaitersAtHome'
    BY DEF BrokerRests, tables, sockets, authority, stack, IInv, FenceInv, CounterInOrder,
           DiskCovers, TokensDistinct, LockInHand, WaitersAtHome, Present, Token
  <1>. QED  BY <1>1, <1>2 DEF IInv, FenceInv

LEMMA RestsWInv ==
  ASSUME WInv, BrokerRests
  PROVE  WInv'
PROOF
  <1>1. /\ locks' = locks /\ holderDeadlines' = holderDeadlines /\ work' = work
        /\ granting' = granting /\ spent' = spent
    BY BrokerAtRest
  <1>2. IInv' /\ FewHold' /\ DeadlineInv'
    BY <1>1, RestsIInv DEF WInv, HInv, FewHold, DeadlineInv, Forced
  <1>3. LineInv' /\ ScrubNamed'
    BY <1>1 DEF WInv, LineInv, ScrubNamed
  <1>4. /\ WalkedSoFar' = WalkedSoFar
        /\ \A m : Attempting(m)' <=> Attempting(m)
    BY <1>1 DEF WalkedSoFar, ManyKeys, Attempting
  <1>5. CompositeInv'
    BY <1>1, <1>4 DEF WInv, CompositeInv, CompositeAt
  <1>. QED  BY <1>2, <1>3, <1>5 DEF WInv, HInv

LEMMA WInvStep ==
  ASSUME WInv, BridgeNext
  PROVE  WInv'
PROOF
  <1>1. CASE BrokerSteps
    <2>1. Next
      BY <1>1, StepsOfBroker
    <2>. QED  BY <2>1, HInvStep, ScrubNamedStep, WaitingStep DEF WInv
  <1>2. CASE Rests
    BY <1>2, RestsWInv DEF Rests
  <1>. QED  BY <1>1, <1>2, StepsOfBridge
-----------------------------------------------------------------------------
(* Callers and their requests.                                             *)

\* The request that makes call h, and the one that gives up what it got.
Ask(h) == Request(IF h \in Uuids THEN "lock" ELSE "acquire", h)
End(h) == Request(IF h \in Uuids THEN "unlock" ELSE "release", h)

LEMMA NamesOfRequests ==
  ASSUME NEW h \in Holders
  PROVE  /\ Ask(h) \in Requests /\ End(h) \in Requests
         /\ Ask(h).id = h /\ Ask(h).op \in {"lock", "acquire"}
         /\ End(h).id = h /\ End(h).op \in {"unlock", "release"}
         /\ h \in Uuids => Ask(h) = Request("lock", h) /\ End(h) = Request("unlock", h)
         /\ h \in ManyIds => Ask(h) = Request("acquire", h) /\ End(h) = Request("release", h)
PROOF
  BY NameAssumption DEF Holders, Ask, End, Request, Requests

LEMMA RequestsOfNames ==
  ASSUME NEW r \in Requests, r.op \in {"unlock", "release"}
  PROVE  r.id \in Holders /\ r = End(r.id)
PROOF
  BY NameAssumption DEF Holders, End, Request, Requests

CallersTyped == caller \in [Requests -> CallerState] /\ ticks \in Seq(Frame)

\* The handler of request r runs.
Handles(r) == /\ BrokerSteps /\ Dispatched(r)
              /\ r \in Requests

LEMMA HandlerRuns ==
  ASSUME BrokerSteps, ~Handle
  PROVE  caller' = caller
PROOF
  BY DEF BrokerSteps, Shutdown, Peer, BrokerTimer, BrokerRuns

LEMMA HandlerOf ==
  ASSUME Handle
  PROVE  \E r \in Requests : Handles(r)
PROOF
  <1>1. /\ \A u \in Uuids : Request("lock", u) \in Requests /\ Request("unlock", u) \in Requests
        /\ \A m \in ManyIds : Request("acquire", m) \in Requests
                              /\ Request("release", m) \in Requests
        /\ Request("force", None) \in Requests
    BY DEF Requests, Request
  <1>. QED
    BY <1>1 DEF Handle, HandleLock, HandleUnlock, HandleForce, HandleAcquireMany,
                HandleReleaseMany, Handles, BrokerSteps

(* What a caller knows changes with its own request only.                  *)
CallerMoves(r) ==
  \/ caller'[r] = caller[r]
  \/ /\ caller[r] = "absent" /\ caller'[r] = "sending"
     /\ r.op \in {"unlock", "release"} => Uses(r.id)
     /\ server = "listening" /\ Rests /\ ticks' = ticks
  \/ caller[r] = "sending" /\ caller'[r] = "waiting" /\ Handles(r)
  \/ Open(r) /\ caller'[r] = "gone" /\ Rests /\ ticks' = ticks
  \/ /\ caller[r] = "waiting" /\ OnBrokerFrame /\ r = RequestOf(Head(ticks))
     /\ caller'[r] \in {Body(Head(ticks)), "gone"}

LEMMA CallersMove ==
  ASSUME CallersTyped, BridgeNext
  PROVE  caller' \in [Requests -> CallerState] /\ \A r \in Requests : CallerMoves(r)
PROOF
  <1>. DEFINE Goal == caller' \in [Requests -> CallerState]
                      /\ \A r \in Requests : CallerMoves(r)
  <1>1. ASSUME caller' = caller
        PROVE  Goal
    BY <1>1 DEF CallersTyped, CallerMoves
  <1>2. ASSUME NEW r, NEW heard \in CallerState, caller' = [caller EXCEPT ![r] = heard]
        PROVE  /\ caller' \in [Requests -> CallerState]
               /\ \A q \in Requests : caller'[q] = IF q = r THEN heard ELSE caller[q]
    BY <1>2 DEF CallersTyped
  <1>3. \A x : x \in {"absent", "sending", "waiting", "gone", "yes", "no"} => x \in CallerState
    BY DEF CallerState, Answer
  <1>4. CASE Handle
    <2>1. PICK r \in Requests : Handles(r)
      BY <1>4, HandlerOf
    <2>2. caller[r] = "sending" /\ caller' = [caller EXCEPT ![r] = "waiting"]
      BY <2>1 DEF Handles, Dispatched
    <2>3. caller' \in [Requests -> CallerState]
          /\ \A q \in Requests : caller'[q] = IF q = r THEN "waiting" ELSE caller[q]
      BY <1>2, <1>3, <2>2
    <2>. QED  BY <2>1, <2>2, <2>3 DEF CallerMoves
  <1>5. CASE BrokerSteps /\ ~Handle
    BY <1>1, <1>5, HandlerRuns
  <1>6. ASSUME NEW r \in Requests, Arrives(r)
        PROVE  Goal
    <2>1. caller[r] = "absent" /\ caller' = [caller EXCEPT ![r] = "sending"] /\ Rests
          /\ (r.op \in {"unlock", "release"} => Uses(r.id)) /\ server = "listening"
          /\ ticks' = ticks
      BY <1>6 DEF Arrives, Rests
    <2>2. caller' \in [Requests -> CallerState]
          /\ \A q \in Requests : caller'[q] = IF q = r THEN "sending" ELSE caller[q]
      BY <1>2, <1>3, <2>1
    <2>. QED  BY <2>1, <2>2 DEF CallerMoves
  <1>7. ASSUME NEW r \in Requests, RequestTimesOut(r)
        PROVE  Goal
    <2>1. Open(r) /\ caller' = [caller EXCEPT ![r] = "gone"] /\ Rests /\ ticks' = ticks
      BY <1>7 DEF RequestTimesOut, Rests
    <2>2. caller' \in [Requests -> CallerState]
          /\ \A q \in Requests : caller'[q] = IF q = r THEN "gone" ELSE caller[q]
      BY <1>2, <1>3, <2>1
    <2>. QED  BY <2>1, <2>2 DEF CallerMoves
  <1>8. CASE OnBrokerFrame
    <2>. DEFINE r == RequestOf(Head(ticks))
    <2>1. caller' = caller
          \/ \E heard \in {Body(Head(ticks)), "gone"} :
               caller[r] = "waiting" /\ caller' = [caller EXCEPT ![r] = heard]
      BY <1>8 DEF OnBrokerFrame, Responds
    <2>2. ASSUME NEW heard \in {Body(Head(ticks)), "gone"}, caller[r] = "waiting",
                 caller' = [caller EXCEPT ![r] = heard]
          PROVE  Goal
      <3>1. heard \in CallerState
        BY <1>3, <2>2 DEF Body
      <3>. HIDE DEF r
      <3>2. caller' \in [Requests -> CallerState]
            /\ \A q \in Requests : caller'[q] = IF q = r THEN heard ELSE caller[q]
        BY <1>2, <2>2, <3>1
      <3>. QED  BY <1>8, <2>2, <3>2 DEF CallerMoves, r
    <2>. QED  BY <1>1, <2>1, <2>2
  <1>9. CASE Stop
    BY <1>1, <1>9 DEF Stop
  <1>. QED
    BY <1>4, <1>5, <1>6, <1>7, <1>8, <1>9 DEF BridgeNext, BrokerSteps, Incoming

-----------------------------------------------------------------------------
(* The frames and the rows of a step.                                      *)

\* The rows of release-many name one composite, whose release was asked for.
ReleaseRows ==
  \A t \in work : t.op \in {"member", "registry"} =>
    \E m \in ManyIds : t.ids = {m} /\ caller[End(m)] # "absent"

\* What the broker sends is few frames; an acquired frame says what has just
\* been done, and the others answer the request that is handled.
OutSays ==
  /\ IsFiniteSet(out')
  /\ \A f \in out' :
       /\ f.kind = "acquired" => /\ granting # None /\ f.id = granting.id
                                 /\ GrantLock \/ ManyRegisters
       /\ f.kind = "unlocked" /\ f.id # None =>
            f.id \in Uuids /\ Handles(Request("unlock", f.id))
       /\ f.kind = "waiting" /\ Idle =>
            f.id \in Uuids /\ Handles(Request("lock", f.id)) /\ f.to = Virtual

LEMMA SilentSays ==
  ASSUME Silent
  PROVE  OutSays
PROOF
  BY FS_EmptySet DEF Silent, OutSays

LEMMA ReplySays ==
  ASSUME NEW ws, NEW kind, NEW id, Reply(ws, kind, id), kind # "acquired",
         kind = "unlocked" /\ id # None => id \in Uuids /\ Handles(Request("unlock", id)),
         kind = "waiting" /\ Idle =>
           id \in Uuids /\ Handles(Request("lock", id)) /\ ws = Virtual
  PROVE  OutSays
PROOF
  BY SendIsSmall DEF Reply, OutSays

LEMMA HandlerSays ==
  ASSUME Handle
  PROVE  OutSays
PROOF
  <1>. BrokerSteps
    BY DEF BrokerSteps
  <1>1. ASSUME NEW u \in Uuids, HandleLock(u)
        PROVE  OutSays
    <2>1. Handles(Request("lock", u))
      BY <1>1 DEF HandleLock, Handles, Request, Requests
    <2>2. Silent \/ Reply(Virtual, "refused", u) \/ Reply(Virtual, "waiting", u)
      BY <1>1 DEF HandleLock, LockRefused, LockOnNewKey, LockOnNewKeyFails, LockOnFreeKey,
                  LockOnFullKey
    <2>. QED  BY <2>1, <2>2, SilentSays, ReplySays
  <1>2. ASSUME NEW u \in Uuids, HandleUnlock(u)
        PROVE  OutSays
    <2>1. Handles(Request("unlock", u))
      BY <1>2 DEF HandleUnlock, Handles, Request, Requests
    <2>2. Reply(Virtual, "unlocked", u) \/ Reply(Virtual, "not-unlocked", u)
      BY <1>2 DEF HandleUnlock, UnlockUnknownKey, UnlockHolder, UnlockLate, UnlockRejected
    <2>. QED  BY <2>1, <2>2, ReplySays
  <1>3. ASSUME NEW k \in Keys, HandleForce(k)
        PROVE  OutSays
    <2>1. Reply(Virtual, "unlocked", None) \/ Reply(Virtual, "not-unlocked", None)
      BY <1>3 DEF HandleForce, UnlockUnknownKey, UnlockEveryone, UnlockRejected
    <2>. QED  BY <2>1, ReplySays
  <1>4. ASSUME NEW m \in ManyIds, HandleAcquireMany(m) \/ HandleReleaseMany(m)
        PROVE  OutSays
    <2>1. \/ Silent \/ Reply(ManyReq[m].from, "refused", m)
          \/ Reply(Virtual, "not-released", m)
      BY <1>4 DEF HandleAcquireMany, HandleReleaseMany, AcquireMany, ReleaseMany
    <2>. QED  BY <2>1, SilentSays, ReplySays
  <1>. QED  BY <1>1, <1>2, <1>3, <1>4 DEF Handle

LEMMA GrantingSays ==
  ASSUME Granting
  PROVE  OutSays
PROOF
  <1>1. ~Idle
    BY BusyInside DEF Internal
  <1>2. ASSUME NEW ws, NEW id, NEW token, out' = Send(ws, "acquired", id, token),
               granting # None, id = granting.id, GrantLock \/ ManyRegisters
        PROVE  OutSays
    BY <1>2, SendIsSmall DEF OutSays
  <1>3. CASE GrantLock
    <2>. DEFINE token == NextToken(Req[granting.id].key)
    <2>1. out' = Send(granting.ws, "acquired", granting.id, token) /\ granting # None
      BY <1>3 DEF GrantLock, GrantingPlain
    <2>. HIDE DEF token
    <2>. QED  BY <1>2, <1>3, <2>1
  <1>4. CASE ManyRegisters
    BY <1>2, <1>4 DEF ManyRegisters, GrantingMany, Reply
  <1>5. CASE GrantLockFails \/ ManyCreatesLock \/ ManyGrantsKey \/ ManyIsContended \/ ManyFails
    <2>1. \/ Silent \/ Reply(granting.ws, "refused", granting.id)
          \/ Reply(granting.ws, "waiting", granting.id)
      BY <1>5 DEF GrantLockFails, ManyCreatesLock, ManyGrantsKey, ManyIsContended, ManyFails
    <2>. QED  BY <1>1, <2>1, SilentSays, ReplySays
  <1>. QED  BY <1>3, <1>4, <1>5 DEF Granting

LEMMA RowSays ==
  ASSUME ReleaseRows, WorkStep
  PROVE  OutSays
PROOF
  <1>1. PICK t \in work : Visits(t)
    BY DEF WorkStep, Visits
  <1>2. CASE ForgetComposite(t)
    <2>1. PICK m \in ManyIds : t.ids = {m}
      BY <1>2 DEF ReleaseRows, ForgetComposite
    <2>. DEFINE F == Send(t.ws, "released", m, 0)
    <2>2. out' = UNION {Send(t.ws, "released", n, 0) : n \in {m}}
      BY <1>2, <2>1 DEF ForgetComposite
    <2>3. out' = F
      BY <2>2
    <2>. HIDE DEF F
    <2>4. IsFiniteSet(F) /\ \A f \in F : f.kind = "released"
      BY SendIsSmall DEF F
    <2>. QED  BY <2>3, <2>4 DEF OutSays
  <1>3. CASE ~ForgetComposite(t)
    <2>1. Silent \/ Reply(t.ws, "version-mismatch", None)
      BY <1>1, <1>3 DEF Visits, Evict, ReleaseMember, VisitKey, VisitAbsentKey, ScrubWaiter,
                        ForcedUnlock, EndCleanup
    <2>. QED  BY <2>1, SilentSays, ReplySays
  <1>. QED  BY <1>2, <1>3

LEMMA StepSays ==
  ASSUME IInv, ReleaseRows, BrokerSteps
  PROVE  OutSays
PROOF
  <1>1. CASE Shutdown
    BY <1>1, SilentSays DEF Shutdown, SocketEnds, CleanupConnection
  <1>2. CASE Peer
    <2>1. PICK s \in Sockets, k \in Keys : LockReceived(k, s) \/ UnlockEveryone(k, s)
      BY <1>2 DEF Peer
    <2>2. Silent \/ Reply(s, "unlocked", None)
      BY <2>1 DEF LockReceived, UnlockEveryone
    <2>. QED  BY <2>2, SilentSays, ReplySays
  <1>3. CASE BrokerTimer
    <2>1. CASE TickTtl
      BY <2>1, SilentSays DEF TickTtl
    <2>2. CASE Reelections
      <3>1. AsksAgain
        BY <2>2, ReelectionOut DEF Reelections
      <3>. QED  BY <3>1 DEF AsksAgain, OutSays
    <2>. QED  BY <1>3, <2>1, <2>2 DEF BrokerTimer
  <1>4. CASE BrokerRuns
    <2>1. CASE Drain
      BY <2>1, SilentSays DEF Drain, DrainStops, DequeueWaiter
    <2>. QED  BY <1>4, <2>1, GrantingSays, RowSays DEF BrokerRuns, Internal
  <1>. QED  BY <1>1, <1>2, <1>3, <1>4, HandlerSays DEF BrokerSteps

\* A row that is new.
NewRow(t) ==
  \/ TickTtl /\ t.op = "evict"
  \/ \E m \in ManyIds :
       /\ Handles(Request("release", m))
       /\ t = RegistryRow(m, Virtual) \/ \E i \in 1..Len(ManyReq[m].keys) : t = MemberRow(m, i)
  \/ Shutdown /\ (t = LastRow("destroy", Virtual) \/ \E k \in Keys : t = VisitRow(k, Virtual))
  \/ \E s \in work :
       /\ VisitKey(s)
       /\ \/ \E u \in s.ids : Queued(locks[s.key].notify, u) /\ t = ScrubRow(s.key, u)
          \/ \E h \in HoldersOf(locks[s.key]) : t = ForcedRow(s.key, h, s.ws)

LEMMA RowsAppear ==
  ASSUME BrokerSteps, NEW t \in work', t \notin work
  PROVE  NewRow(t)
PROOF
  <1>1. CASE Handle
    <2>1. PICK m \in ManyIds : HandleReleaseMany(m)
      BY <1>1 DEF Handle, HandleLock, HandleUnlock, HandleForce, HandleAcquireMany, LockRefused,
                  LockOnNewKey, LockOnNewKeyFails, LockOnFreeKey, LockOnFullKey, LockAccepted,
                  UnlockUnknownKey, UnlockHolder, UnlockLate, UnlockRejected, UnlockEveryone,
                  Unlocking, AcquireMany, stack
    <2>2. \/ t = RegistryRow(m, Virtual)
          \/ \E i \in 1..Len(ManyReq[m].keys) : t = MemberRow(m, i)
      BY <2>1 DEF HandleReleaseMany, ReleaseMany
    <2>3. Handles(Request("release", m))
      BY <1>1, <2>1 DEF HandleReleaseMany, Handles, Request, Requests
    <2>. QED  BY <2>2, <2>3 DEF NewRow
  <1>2. CASE Shutdown
    BY <1>2 DEF Shutdown, SocketEnds, CleanupConnection, NewRow
  <1>3. CASE Peer
    BY <1>3 DEF Peer, LockReceived, UnlockEveryone, Unlocking, stack
  <1>4. CASE BrokerTimer
    <2>1. CASE TickTtl
      <3>1. PICK e \in holderDeadlines : t = EvictRow(e[1], e[2])
        BY <2>1 DEF TickTtl
      <3>2. t.op = "evict"
        BY <3>1 DEF EvictRow
      <3>. QED  BY <2>1, <3>2 DEF NewRow
    <2>2. CASE Reelections
      BY <2>2 DEF Reelections, Reelection, stack
    <2>. QED  BY <1>4, <2>1, <2>2 DEF BrokerTimer
  <1>5. CASE BrokerRuns
    <2>1. ~Idle /\ Next
      BY <1>5, BusyInside, StepsOfBroker DEF BrokerRuns, BrokerSteps
    <2>2. AddsRow(t)
      BY <2>1, RowsComeAndGo
    <2>3. \E s \in work :
            /\ VisitKey(s)
            /\ \/ \E u \in s.ids : Queued(locks[s.key].notify, u) /\ t = ScrubRow(s.key, u)
               \/ \E h \in HoldersOf(locks[s.key]) : t = ForcedRow(s.key, h, s.ws)
      BY <2>1, <2>2 DEF AddsRow, TickTtl, ReleaseMany, Hears, CleanupConnection
    <2>. QED  BY <2>3 DEF NewRow
  <1>. QED  BY <1>1, <1>2, <1>3, <1>4, <1>5 DEF BrokerSteps

(* A row is visited before it goes.                                        *)
LEMMA RowsGo ==
  ASSUME BrokerSteps, NEW t \in work, t \notin work'
  PROVE  Visits(t)
PROOF
  <1>1. BrokerRuns
    BY HandlersStartIdle DEF Idle
  <1>2. ~Granting /\ ~Drain
    BY DEF Granting, GrantLock, GrantLockFails, ManyCreatesLock, ManyGrantsKey, ManyIsContended,
           ManyRegisters, ManyFails, Drain, DrainStops, DequeueWaiter, stack
  <1>3. PICK s \in work : Visits(s)
    BY <1>1, <1>2 DEF BrokerRuns, Internal, WorkStep, Visits
  <1>4. work \ {s} \subseteq work'
    BY <1>3 DEF Visits, Evict, ReleaseMember, ForgetComposite, VisitKey, VisitAbsentKey,
                ScrubWaiter, ForcedUnlock, EndCleanup
  <1>. QED  BY <1>3, <1>4

-----------------------------------------------------------------------------
(* Where a call comes from.                                                *)

\* A call is attempted as before, or because its request is handled, or because
\* its turn has come in a queue.
LEMMA AttemptsOfBridge ==
  ASSUME WInv, BrokerSteps, granting' # None
  PROVE  LET h == granting'.id   s == granting'.ws
         IN  \/ granting # None /\ h = granting.id /\ s = granting.ws /\ h \in ManyIds
             \/ s = Virtual /\ h \in Holders /\ Handles(Ask(h)) /\ Silent
             \/ \E k \in Keys : /\ DequeueWaiter(k) /\ Entry(locks, k, [id |-> h, ws |-> s])
                                /\ Queued(Line(locks, k), h) /\ ~Queued(Line(locks', k), h)
PROOF
  <1>. DEFINE h == granting'.id
              s == granting'.ws
  <1>1. ASSUME NEW u \in Uuids, HandleLock(u)
        PROVE  s = Virtual /\ h \in Holders /\ Handles(Ask(h)) /\ Silent
    <2>1. granting = None
      BY <1>1 DEF HandleLock, LockRefused, LockOnNewKey, LockOnNewKeyFails, LockOnFreeKey,
                  LockOnFullKey, LockAccepted, Hears, Idle
    <2>2. Begin(u, Virtual) /\ Silent
      <3>1. granting' # granting
        BY <2>1
      <3>. QED  BY <1>1, <3>1 DEF HandleLock, LockRefused, LockOnNewKey, LockOnNewKeyFails,
                                  LockOnFreeKey, LockOnFullKey, stack
    <2>3. s = Virtual /\ h = u
      BY <2>2 DEF Begin
    <2>4. u \in Holders /\ Ask(u) \in Requests /\ Ask(u) = Request("lock", u)
      BY NamesOfRequests DEF Holders
    <2>. QED  BY <1>1, <2>2, <2>3, <2>4 DEF HandleLock, Handles
  <1>2. ASSUME NEW m \in ManyIds, HandleAcquireMany(m)
        PROVE  s = Virtual /\ h \in Holders /\ Handles(Ask(h)) /\ Silent
    <2>1. s = Virtual /\ h = m /\ Silent
      BY <1>2, BridgeAssumption DEF HandleAcquireMany, AcquireMany, Hears, Idle, Begin
    <2>2. m \in Holders /\ Ask(m) \in Requests /\ Ask(m) = Request("acquire", m)
      BY NamesOfRequests DEF Holders
    <2>. QED  BY <1>2, <2>1, <2>2 DEF HandleAcquireMany, Handles
  <1>3. ASSUME BrokerSteps, granting' = granting, Idle
        PROVE  FALSE
    BY <1>3 DEF Idle
  <1>4. CASE Handle
    <2>1. ASSUME NEW u \in Uuids, HandleUnlock(u)
          PROVE  FALSE
      BY <1>3, <2>1 DEF HandleUnlock, UnlockUnknownKey, UnlockHolder, UnlockLate, UnlockRejected,
                        Unlocking, Hears
    <2>2. ASSUME NEW k \in Keys, HandleForce(k)
          PROVE  FALSE
      BY <1>3, <2>2 DEF HandleForce, UnlockUnknownKey, UnlockEveryone, UnlockRejected, Unlocking,
                        Hears
    <2>3. ASSUME NEW m \in ManyIds, HandleReleaseMany(m)
          PROVE  FALSE
      BY <1>3, <2>3 DEF HandleReleaseMany, ReleaseMany, Hears
    <2>. QED  BY <1>1, <1>2, <1>4, <2>1, <2>2, <2>3 DEF Handle
  <1>5. CASE Shutdown \/ Peer \/ BrokerTimer
    BY <1>3, <1>5 DEF Shutdown, SocketEnds, CleanupConnection, Peer, LockReceived, UnlockEveryone,
                      Unlocking, Hears, BrokerTimer, TickTtl, Reelections, Reelection, stack
  <1>6. CASE BrokerRuns
    <2>1. ~Idle /\ Next
      BY <1>6, BusyInside, StepsOfBroker DEF BrokerRuns
    <2>. QED  BY <2>1, AttemptsMove
              DEF LockOnNewKey, LockOnFreeKey, LockAccepted, AcquireMany, Hears
  <1>. QED  BY <1>4, <1>5, <1>6 DEF BrokerSteps

\* A waiter is old, or its request is handled, or it is a composite whose
\* attempt has failed.
LEMMA WaitersOfBridge ==
  ASSUME WInv, ReleaseRows, BrokerSteps, NEW k \in Keys, NEW w, Entry(locks', k, w)
  PROVE  \/ Entry(locks, k, w)
         \/ /\ w.ws = Virtual /\ w.id \in Uuids /\ k = Req[w.id].key /\ Handles(Ask(w.id))
            /\ wsToUUIDs' = [wsToUUIDs EXCEPT ![Virtual] = @ \cup {w.id}]
            /\ granting' = None /\ \A f \in out' : f.kind # "acquired"
         \/ /\ ManyIsContended /\ k = ManyKey
            /\ w.id = granting.id /\ w.ws = granting.ws /\ w.id \in ManyIds
PROOF
  <1>1. Next /\ OutSays
    BY StepsOfBroker, StepSays DEF WInv, HInv
  <1>2. Entry(locks, k, w) \/ Joins(k, w)
    BY <1>1, EntriesMove
  <1>3. ASSUME NEW u \in Uuids, NEW ws \in Sockets, NEW retry \in BOOLEAN,
               LockOnFullKey(u, ws, retry), k = Req[u].key, w = [id |-> u, ws |-> ws]
        PROVE  /\ w.ws = Virtual /\ w.id \in Uuids /\ k = Req[w.id].key /\ Handles(Ask(w.id))
               /\ wsToUUIDs' = [wsToUUIDs EXCEPT ![Virtual] = @ \cup {w.id}]
               /\ granting' = None /\ \A f \in out' : f.kind # "acquired"
    <2>1. Idle /\ ws \in writable /\ out' = Send(ws, "waiting", u, 0)
          /\ wsToUUIDs' = [wsToUUIDs EXCEPT ![ws] = @ \cup {u}] /\ granting' = None
      BY <1>3 DEF LockOnFullKey, LockAccepted, Hears, Idle, Reply, Remember
    <2>. DEFINE f == [to |-> ws, kind |-> "waiting", id |-> u, token |-> 0]
    <2>2. out' = {f} /\ f.kind = "waiting" /\ f.id = u /\ f.to = ws
      BY <2>1 DEF Send
    <2>. HIDE DEF f
    <2>3. Handles(Request("lock", u)) /\ ws = Virtual
      BY <1>1, <2>1, <2>2 DEF OutSays
    <2>4. Ask(u) = Request("lock", u)
      BY NamesOfRequests DEF Holders
    <2>. QED  BY <1>3, <2>1, <2>2, <2>3, <2>4
  <1>4. CASE ManyIsContended /\ k = ManyKey /\ w = [id |-> granting.id, ws |-> granting.ws]
    BY <1>4 DEF ManyIsContended, GrantingMany
  <1>. QED  BY <1>2, <1>3, <1>4 DEF Joins

-----------------------------------------------------------------------------
(* What the callers are told.                                              *)

\* The frame that tells of the grant of h is on its way.
GrantSent(h) == \E i \in 1..Len(ticks) : ticks[i].kind = "acquired" /\ ticks[i].id = h

Asked(h)   == caller[Ask(h)] \notin {"absent", "sending"}
Told(h)    == caller[Ask(h)] = "yes" \/ GrantSent(h)
Nowhere(h) == ~Attempting(h) /\ \A k \in Keys : ~Queued(Line(locks, k), h)

LEMMA SetToSeqType ==
  ASSUME NEW S, IsFiniteSet(S)
  PROVE  Arrange!SetToSeq(S) \in [1..Cardinality(S) -> S] /\ Cardinality(S) \in Nat
PROOF
  <1>1. Cardinality(S) \in Nat /\ ExistsBijection(1..Cardinality(S), S)
    BY FS_CardinalityType
  <1>2. PICK g : g \in Bijection(1..Cardinality(S), S)
    BY <1>1 DEF ExistsBijection
  <1>3. g \in [1..Cardinality(S) -> S] /\ \A a, b \in 1..Cardinality(S) : g[a] = g[b] => a = b
    BY <1>2 DEF Bijection, Injection, IsInjective
  <1>4. Arrange!IsInjective(g)
    BY <1>3 DEF Arrange!IsInjective
  <1>5. Arrange!SetToSeq(S)
          = CHOOSE f \in [1..Cardinality(S) -> S] : Arrange!IsInjective(f)
    BY DEF Arrange!SetToSeq, Arrange!Cardinality, Cardinality
  <1>. QED  BY <1>1, <1>3, <1>4, <1>5

(* What is queued for the virtual socket was sent to it.                   *)
LEMMA TicksGrow ==
  ASSUME CallersTyped, Sends, IsFiniteSet(out'), out' \subseteq Frame
  PROVE  /\ ticks' \in Seq(Frame)
         /\ \A h : GrantSent(h)' => GrantSent(h) \/ \E f \in out' : f.kind = "acquired" /\ f.id = h
PROOF
  <1>. DEFINE S == {f \in out' : f.to = Virtual}
              r == Arrange!SetToSeq(S)
  <1>1. IsFiniteSet(S) /\ S \subseteq Frame /\ S \subseteq out'
    BY FS_Subset
  <1>2. ticks' = ticks \o r
    BY DEF Sends
  <1>. HIDE DEF S
  <1>3. r \in [1..Cardinality(S) -> S] /\ Cardinality(S) \in Nat
    BY <1>1, SetToSeqType
  <1>. HIDE DEF r
  <1>4. r \in Seq(S) /\ Len(r) = Cardinality(S)
    BY <1>3
  <1>5. r \in Seq(Frame) /\ \A i \in 1..Len(r) : r[i] \in out'
    BY <1>1, <1>4
  <1>6. ticks \in Seq(Frame)
    BY DEF CallersTyped
  <1>7. /\ ticks \o r \in Seq(Frame)
        /\ \A i \in 1..Len(ticks \o r) :
             \/ i \in 1..Len(ticks) /\ (ticks \o r)[i] = ticks[i]
             \/ i - Len(ticks) \in 1..Len(r) /\ (ticks \o r)[i] = r[i - Len(ticks)]
    BY <1>5, <1>6
  <1>. QED  BY <1>2, <1>5, <1>7 DEF GrantSent

LEMMA TicksMove ==
  ASSUME WInv, WInv', ReleaseRows, CallersTyped, BridgeNext
  PROVE  /\ ticks' \in Seq(Frame)
         /\ \A h : GrantSent(h)' => \/ GrantSent(h)
                                    \/ BrokerSteps /\ \E f \in out' : f.kind = "acquired" /\ f.id = h
PROOF
  <1>1. CASE BrokerSteps
    <2>1. Sends /\ IsFiniteSet(out') /\ out' \subseteq Frame
      BY <1>1, StepsOfBroker, StepSays DEF WInv, HInv, IInv, TypeOK, OutSays
    <2>. QED  BY <1>1, <2>1, TicksGrow
  <1>2. CASE ticks' = ticks
    BY <1>2 DEF CallersTyped, GrantSent
  <1>3. CASE OnBrokerFrame
    <2>1. ticks \in Seq(Frame) /\ ticks # <<>> /\ ticks' = Tail(ticks)
      BY <1>3 DEF OnBrokerFrame, CallersTyped
    <2>2. /\ Tail(ticks) \in Seq(Frame)
          /\ \A i \in 1..Len(Tail(ticks)) : i + 1 \in 1..Len(ticks) /\ Tail(ticks)[i] = ticks[i + 1]
      BY <2>1
    <2>. QED  BY <2>1, <2>2 DEF GrantSent
  <1>. QED
    BY <1>1, <1>2, <1>3 DEF BridgeNext, BrokerSteps, Stop, Incoming, Arrives, RequestTimesOut

\* The attempt of h succeeds.
Succeeds(h) == Attempting(h) /\ (GrantLock \/ ManyRegisters)

(* A caller is told of a grant that has just been made.                    *)
LEMMA ToldMoves ==
  ASSUME WInv, WInv', ReleaseRows, CallersTyped, BridgeNext, NEW h \in Holders, Told(h)'
  PROVE  Told(h) \/ (Succeeds(h) /\ BrokerSteps)
PROOF
  <1>1. Ask(h) \in Requests /\ Ask(h).op \in {"lock", "acquire"} /\ Ask(h).id = h
    BY NamesOfRequests
  <1>2. CASE caller'[Ask(h)] = "yes"
    <2>1. \/ caller'[Ask(h)] = caller[Ask(h)]
          \/ OnBrokerFrame /\ Ask(h) = RequestOf(Head(ticks)) /\ Body(Head(ticks)) = "yes"
      BY <1>1, <1>2, CallersMove DEF CallerMoves
    <2>2. CASE OnBrokerFrame /\ Ask(h) = RequestOf(Head(ticks)) /\ Body(Head(ticks)) = "yes"
      <3>. DEFINE f == Head(ticks)
      <3>1. ticks \in Seq(Frame) /\ ticks # <<>>
        BY <2>2 DEF OnBrokerFrame, CallersTyped
      <3>2. f = ticks[1] /\ 1 \in 1..Len(ticks)
        BY <3>1
      <3>. HIDE DEF f
      <3>3. f.kind \in {"acquired", "unlocked", "released"}
        BY <2>2 DEF Body, f
      <3>4. f.kind = "acquired" /\ f.id = h
        BY <1>1, <2>2, <3>3 DEF RequestOf, Request, f
      <3>. QED  BY <3>2, <3>4 DEF Told, GrantSent
    <2>. QED  BY <1>2, <2>1, <2>2 DEF Told
  <1>3. CASE GrantSent(h)'
    <2>1. GrantSent(h) \/ (BrokerSteps /\ \E f \in out' : f.kind = "acquired" /\ f.id = h)
      BY <1>3, TicksMove
    <2>2. BrokerSteps => OutSays
      BY StepSays DEF WInv, HInv
    <2>. QED  BY <2>1, <2>2 DEF OutSays, Told, Succeeds, Attempting
  <1>. QED  BY <1>2, <1>3 DEF Told

(* A call appears in the broker when its request is handled.               *)
LEMMA CallsAppear ==
  ASSUME WInv, ReleaseRows, BridgeNext, NEW h \in Holders, Nowhere(h), ~Nowhere(h)'
  PROVE  Handles(Ask(h)) /\ \A f \in out' : f.kind # "acquired"
PROOF
  <1>1. BrokerSteps
    BY StepsOfBridge, BrokerAtRest DEF Rests, Nowhere, Attempting
  <1>2. CASE Attempting(h)'
    BY <1>1, <1>2, AttemptsOfBridge DEF Attempting, Nowhere, Silent
  <1>3. ASSUME NEW k \in Keys, Queued(Line(locks', k), h)
        PROVE  Handles(Ask(h)) /\ \A f \in out' : f.kind # "acquired"
    <2>1. PICK w : Entry(locks', k, w) /\ w.id = h
      BY <1>3, QueuedEntry
    <2>2. ~Entry(locks, k, w)
      BY <2>1, QueuedEntry DEF Nowhere
    <2>3. ~(w.id = granting.id /\ ManyIsContended)
      BY <2>1 DEF Nowhere, Attempting, ManyIsContended, GrantingMany
    <2>. QED  BY <1>1, <2>1, <2>2, <2>3, WaitersOfBridge
  <1>. QED  BY <1>2, <1>3 DEF Nowhere

-----------------------------------------------------------------------------
(* ExclusiveCallers.                                                       *)

\* A caller that was told of its grant, and has not asked to give it up.
Claims(h) == caller[End(h)] = "absent" /\ Told(h)

\* What is known of call h: nothing before its request is handled; once it is
\* told, the broker is done with it; and it holds its keys or lost them.
CallerAt(h) ==
  /\ ~Asked(h) => ~Told(h) /\ Nowhere(h)
  /\ Told(h) => Nowhere(h)
  /\ Attempting(h) => \A k \in Keys : ~Queued(Line(locks, k), h)
  /\ caller[End(h)] # "absent" => caller[Ask(h)] = "yes"
  /\ Claims(h) => h \in revoked \/ \A k \in KeysOf(h) : h \in Holds(locks, k)

CallersInv == CallersTyped /\ ReleaseRows /\ \A h \in Holders : CallerAt(h)

LEMMA Handled ==
  ASSUME CallersTyped, NEW r, Handles(r)
  PROVE  caller[r] = "sending" /\ caller'[r] = "waiting"
PROOF
  BY DEF CallersTyped, Handles, Dispatched

(* Requests do not go back.                                                *)
LEMMA CallerGoesOn ==
  ASSUME CallersTyped, BridgeNext, NEW h \in Holders
  PROVE  /\ Asked(h) => Asked(h)'
         /\ caller'[End(h)] = "absent" => caller[End(h)] = "absent"
         /\ caller[Ask(h)] = "yes" => caller'[Ask(h)] = "yes"
         /\ caller'[End(h)] # "absent" =>
              \/ caller[End(h)] # "absent"
              \/ caller[Ask(h)] = "yes"
PROOF
  <1>1. Ask(h) \in Requests /\ End(h) \in Requests /\ CallerMoves(Ask(h)) /\ CallerMoves(End(h))
    BY NamesOfRequests, CallersMove
  <1>2. "absent" \notin {Body(Head(ticks)), "gone"}
    BY DEF Body
  <1>3. Asked(h) => Asked(h)'
    <2>1. "sending" \notin {Body(Head(ticks)), "gone"}
      BY DEF Body
    <2>2. Asked(h)' <=> caller'[Ask(h)] \notin {"absent", "sending"}
      BY DEF Asked, Ask
    <2>. QED  BY <1>1, <1>2, <2>1, <2>2 DEF CallerMoves, Asked
  <1>4. caller'[End(h)] = "absent" => caller[End(h)] = "absent"
    BY <1>1, <1>2 DEF CallerMoves
  <1>5. caller[Ask(h)] = "yes" => caller'[Ask(h)] = "yes"
    BY <1>1 DEF CallerMoves, Open
  <1>6. Uses(End(h).id) /\ End(h).op \in {"unlock", "release"} => caller[Ask(h)] = "yes"
    BY NamesOfRequests DEF Uses, Ask
  <1>7. End(h).op \in {"unlock", "release"}
    BY NamesOfRequests
  <1>. QED  BY <1>1, <1>3, <1>4, <1>5, <1>6, <1>7 DEF CallerMoves, Open

LEMMA ReleaseRowsStep ==
  ASSUME CallersTyped, ReleaseRows, BridgeNext
  PROVE  ReleaseRows'
PROOF
  <1>. SUFFICES ASSUME NEW t \in work', t.op \in {"member", "registry"}
                PROVE  \E m \in ManyIds : t.ids = {m} /\ caller'[End(m)] # "absent"
    BY DEF ReleaseRows, End
  <1>1. \A m \in ManyIds : m \in Holders
    BY DEF Holders
  <1>2. CASE t \in work
    BY <1>1, <1>2, CallerGoesOn DEF ReleaseRows
  <1>3. CASE t \notin work
    <2>1. BrokerSteps
      BY <1>3, StepsOfBridge, BrokerAtRest DEF Rests
    <2>2. NewRow(t)
      BY <1>3, <2>1, RowsAppear
    <2>3. PICK m \in ManyIds :
            /\ Handles(Request("release", m))
            /\ t = RegistryRow(m, Virtual) \/ \E i \in 1..Len(ManyReq[m].keys) : t = MemberRow(m, i)
      BY <2>2 DEF NewRow, LastRow, VisitRow, ScrubRow, ForcedRow
    <2>4. t.ids = {m}
      BY <2>3 DEF RegistryRow, MemberRow
    <2>5. End(m) = Request("release", m)
      BY <1>1, NamesOfRequests
    <2>6. caller'[End(m)] = "waiting"
      BY <2>3, <2>5, Handled
    <2>. QED  BY <2>4, <2>6
  <1>. QED  BY <1>2, <1>3

\* A grant that succeeds is over, and all its keys are held.
LEMMA SuccessHolds ==
  ASSUME WInv, NEW h \in Holders, Succeeds(h)
  PROVE  /\ granting' = None /\ LinesKept
         /\ \A k \in KeysOf(h) : h \in Holds(locks', k)
PROOF
  <1>. HInv /\ IInv
    BY DEF WInv, HInv
  <1>1. CASE GrantLock
    <2>1. granting' = None /\ h \in Uuids
      BY <1>1 DEF GrantLock, GrantingPlain, Succeeds, Attempting
    <2>2. Req[h].key \in Keys /\ HoldsGain(Req[h].key, h) /\ LinesKept
      BY <1>1, GrantLockEffect DEF Succeeds, Attempting
    <2>. QED  BY <2>1, <2>2 DEF KeysOf, HoldsGain
  <1>2. CASE ManyRegisters
    <2>1. h \in ManyIds /\ h \notin Uuids /\ granting' = None /\ locks' = locks /\ ~MoreKeys
      BY <1>2, NameAssumption DEF ManyRegisters, GrantingMany, Succeeds, Attempting
    <2>2. ManyKeys = ManyReq[h].keys /\ granting.pos \in Nat
      BY <1>2, GrantingType DEF ManyKeys, Succeeds, Attempting
    <2>3. Len(ManyKeys) \in Nat /\ \A i \in 1..Len(ManyKeys) : ManyKeys[i] \in Keys
      BY <2>1, <2>2, RequestType
    <2>4. \A i \in 1..Len(ManyKeys) : i \in 1..(granting.pos - 1)
      BY <2>1, <2>2, <2>3 DEF MoreKeys
    <2>5. CompositeAt(h) /\ Attempting(h)
      BY <2>1 DEF WInv, CompositeInv, Succeeds
    <2>6. \A k \in KeysOf(h) : k \in Keys /\ k \in WalkedSoFar
      BY <2>1, <2>2, <2>3, <2>4 DEF KeysOf, WalkedSoFar
    <2>. QED  BY <2>1, <2>5, <2>6 DEF CompositeAt, LinesKept
  <1>. QED  BY <1>1, <1>2 DEF Succeeds

LEMMA AttemptsApart ==
  ASSUME WInv, WInv', CallersInv, BridgeNext, NEW h \in Holders, Attempting(h)', NEW k \in Keys
  PROVE  ~Queued(Line(locks', k), h)
PROOF
  <1>. SUFFICES ASSUME Queued(Line(locks', k), h)  PROVE FALSE
    OBVIOUS
  <1>. HInv /\ IInv /\ CallerAt(h)
    BY DEF WInv, HInv, CallersInv
  <1>1. h \in Uuids
    <2>. SUFFICES ASSUME h \in ManyIds  PROVE FALSE
      BY DEF Holders
    <2>. QED  BY DEF WInv, CompositeInv, CompositeAt
  <1>2. BrokerSteps
    BY StepsOfBridge, BrokerAtRest DEF Rests, CallerAt, Attempting
  <1>3. granting' # None /\ granting'.id = h /\ h \notin ManyIds
    BY <1>1, NameAssumption DEF Attempting
  <1>4. PICK w : Entry(locks', k, w) /\ w.id = h
    BY QueuedEntry
  <1>5. Entry(locks, k, w)
    BY <1>2, <1>3, <1>4, WaitersOfBridge DEF CallersInv
  <1>6. Queued(Line(locks, k), h)
    BY <1>4, <1>5, QueuedEntry
  <1>7. ~Handles(Ask(h))
    BY <1>6, Handled DEF CallersInv, CallerAt, Asked, Nowhere
  <1>8. PICK j \in Keys : Queued(Line(locks, j), h) /\ ~Queued(Line(locks', j), h)
    BY <1>2, <1>3, <1>7, AttemptsOfBridge
  <1>9. \A i \in Keys : Queued(Line(locks, i), h) => i = Req[h].key
    BY <1>1, WaitsLine DEF IInv, FenceInv, WaitersAtHome, Queued
  <1>. QED  BY <1>6, <1>8, <1>9

\* What was revoked stays so, and a hold that goes is revoked, unless its own
\* caller asked for that.
LEMMA RevokedGrows ==
  ASSUME BridgeNext
  PROVE  revoked \subseteq revoked' /\ (BrokerSteps => Ended \subseteq revoked')
PROOF
  BY StepsOfBridge, StepsOfBroker DEF Rests, Sends

LEMMA ClaimsKept ==
  ASSUME WInv, WInv', CallersInv, BridgeNext,
         NEW h \in Holders, Claims(h), caller'[End(h)] = "absent",
         h \notin revoked'
  PROVE  \A k \in KeysOf(h) : h \in Holds(locks', k)
PROOF
  <1>. SUFFICES ASSUME NEW k \in KeysOf(h), h \notin Holds(locks', k)  PROVE FALSE
    OBVIOUS
  <1>. HInv /\ IInv /\ CallerAt(h)
    BY DEF WInv, HInv, CallersInv
  <1>1. k \in Keys
    BY RequestType DEF KeysOf, Holders
  <1>2. h \in Holds(locks, k)
    BY RevokedGrows DEF CallerAt
  <1>3. BrokerSteps
    BY <1>2, StepsOfBridge, BrokerAtRest DEF Rests
  <1>4. caller[End(h)] = "absent" /\ ~Attempting(h)
    BY DEF Claims, CallerAt, Nowhere
  <1>5. \A f \in out' : f.kind # "unlocked" \/ f.id # h
    <2>. SUFFICES ASSUME NEW f \in out', f.kind = "unlocked", f.id = h  PROVE FALSE
      OBVIOUS
    <2>1. h # None
      BY NameAssumption DEF Holders
    <2>2. h \in Uuids /\ Handles(Request("unlock", h))
      BY <1>3, <2>1, StepSays DEF CallersInv, OutSays
    <2>3. End(h) = Request("unlock", h)
      BY <2>2, NamesOfRequests
    <2>. QED  BY <1>4, <2>2, <2>3, Handled DEF CallersInv
  <1>6. \A t \in work \ work' : t.op # "member" \/ h \notin t.ids
    BY <1>4 DEF CallersInv, ReleaseRows
  <1>7. granting = None \/ granting.id # h
    BY <1>4 DEF Attempting
  <1>8. Held(k, h) /\ ~Held(k, h)'
    BY <1>2, HeldHolds
  <1>9. h \in Ended
    BY <1>1, <1>5, <1>6, <1>7, <1>8 DEF Ended
  <1>. QED  BY <1>3, <1>9, RevokedGrows

LEMMA CallerAtStep ==
  ASSUME WInv, WInv', CallersInv, BridgeNext, NEW h \in Holders
  PROVE  CallerAt(h)'
PROOF
  <1>. HInv /\ IInv /\ CallerAt(h) /\ CallersTyped /\ ReleaseRows
    BY DEF WInv, HInv, CallersInv
  <1>1. Told(h)' => Told(h) \/ (Succeeds(h) /\ BrokerSteps)
    BY ToldMoves
  <1>2. ~Nowhere(h)' => ~Nowhere(h) \/ (Handles(Ask(h)))
    BY CallsAppear
  <1>3. Handles(Ask(h)) => ~Asked(h) /\ Asked(h)'
    <2>1. Asked(h)' <=> caller'[Ask(h)] \notin {"absent", "sending"}
      BY DEF Asked, Ask
    <2>. QED  BY <2>1, Handled DEF Asked
  <1>4. (~Asked(h) => ~Told(h) /\ Nowhere(h))'
    BY <1>1, <1>2, <1>3, CallerGoesOn DEF CallerAt, Succeeds, Nowhere
  <1>5. (Told(h) => Nowhere(h))'
    <2>1. CASE Told(h)
      BY <1>2, <1>3, <2>1 DEF CallerAt
    <2>2. CASE Succeeds(h)
      <3>1. granting' = None /\ LinesKept /\ Attempting(h)
        BY <2>2, SuccessHolds DEF Succeeds
      <3>. QED  BY <3>1 DEF CallerAt, Nowhere, Attempting, LinesKept
    <2>. QED  BY <1>1, <2>1, <2>2
  <1>6. (Attempting(h) => \A k \in Keys : ~Queued(Line(locks, k), h))'
    BY AttemptsApart
  <1>7. (caller[End(h)] # "absent" => caller[Ask(h)] = "yes")'
    BY CallerGoesOn DEF CallerAt, End, Ask
  <1>8. (Claims(h) => h \in revoked \/ \A k \in KeysOf(h) : h \in Holds(locks, k))'
    <2>. SUFFICES ASSUME caller'[End(h)] = "absent", Told(h)', h \notin revoked'
                  PROVE  \A k \in KeysOf(h) : h \in Holds(locks', k)
      BY DEF Claims, End, KeysOf
    <2>1. CASE Told(h)
      BY <2>1, CallerGoesOn, ClaimsKept DEF Claims
    <2>2. CASE Succeeds(h)
      BY <2>2, SuccessHolds
    <2>. QED  BY <1>1, <2>1, <2>2
  <1>. QED  BY <1>4, <1>5, <1>6, <1>7, <1>8 DEF CallerAt

LEMMA CallersInvStep ==
  ASSUME WInv, WInv', CallersInv, BridgeNext
  PROVE  CallersInv'
PROOF
  <1>1. CallersTyped'
    BY CallersMove, TicksMove DEF CallersInv, CallersTyped
  <1>. QED  BY <1>1, ReleaseRowsStep, CallerAtStep DEF CallersInv

(* The invariant of the bridge; with mutexes, nobody shares a key.         *)
BInv == WInv /\ CallersInv
MutexInv == BInv /\ SlotsInv(Ones) /\ OneHolder

LEMMA InitBInv ==
  ASSUME BridgeInit
  PROVE  BInv
PROOF
  <1>1. Init /\ WInv
    BY InitWInv DEF BridgeInit
  <1>2. CallersTyped
    BY DEF BridgeInit, CallersTyped, CallerState
  <1>3. ReleaseRows
    BY DEF BridgeInit, Init, ReleaseRows
  <1>4. ASSUME NEW h \in Holders
        PROVE  CallerAt(h)
    <2>1. Ask(h) \in Requests /\ End(h) \in Requests
      BY NamesOfRequests
    <2>2. caller[Ask(h)] = "absent" /\ caller[End(h)] = "absent"
      BY <2>1 DEF BridgeInit
    <2>3. ~Attempting(h) /\ \A k \in Keys : Line(locks, k) = <<>>
      BY <1>1 DEF Init, Attempting, Line
    <2>4. ~Queued(<<>>, h) /\ ~GrantSent(h)
      BY DEF BridgeInit, Queued, GrantSent
    <2>. QED  BY <2>2, <2>3, <2>4 DEF CallerAt, Asked, Told, Nowhere, Claims
  <1>. QED  BY <1>1, <1>2, <1>3, <1>4 DEF BInv, CallersInv

LEMMA BInvStep ==
  ASSUME BInv, [BridgeNext]_bridgeVars
  PROVE  BInv'
PROOF
  <1>1. CASE BridgeNext
    BY <1>1, WInvStep, CallersInvStep DEF BInv
  <1>2. CASE UNCHANGED bridgeVars
    <2>1. WInv'
      BY <1>2, StutterWInv DEF BInv, bridgeVars
    <2>2. locks' = locks /\ work' = work /\ granting' = granting /\ caller' = caller
          /\ ticks' = ticks /\ revoked' = revoked
      BY <1>2 DEF bridgeVars, vars, stack
    <2>3. CallersTyped' /\ ReleaseRows'
      BY <2>2 DEF BInv, CallersInv, CallersTyped, ReleaseRows, End
    <2>4. ASSUME NEW h \in Holders
          PROVE  CallerAt(h)'
      <3>1. CallerAt(h)
        BY DEF BInv, CallersInv
      <3>. QED  BY <2>2, <3>1 DEF CallerAt, Asked, Told, GrantSent, Nowhere, Attempting, Claims,
                                 Ask, End, KeysOf
    <2>. QED  BY <2>1, <2>3, <2>4 DEF BInv, CallersInv
  <1>. QED  BY <1>1, <1>2

LEMMA MutexStep ==
  ASSUME Mutexes, MutexInv, [BridgeNext]_bridgeVars
  PROVE  MutexInv'
PROOF
  <1>. SlotsInv(Ones) /\ OneHolder /\ HInv
    BY DEF MutexInv, SlotsInv
  <1>1. Asks(Ones)
    BY MutexesAskOne, BridgeAssumption DEF NoReaders
  <1>2. BInv'
    BY BInvStep DEF MutexInv
  <1>3. CASE BrokerSteps
    <2>1. Next
      BY <1>3, StepsOfBroker
    <2>. QED  BY <1>1, <1>2, <2>1, SlotsInvStep, OneHolderStep DEF MutexInv
  <1>4. CASE Rests \/ UNCHANGED bridgeVars
    <2>1. locks' = locks /\ granting' = granting
      BY <1>4, BrokerAtRest DEF Rests, bridgeVars, vars, stack
    <2>2. LimitsOK(Ones, locks') /\ SlotInv' /\ OneHolder'
      BY <2>1 DEF SlotsInv, SlotInv, GrantingPlain, OneHolder
    <2>3. HInv'
      BY <1>2 DEF BInv, WInv
    <2>. QED  BY <1>2, <2>2, <2>3 DEF MutexInv, SlotsInv
  <1>. QED  BY <1>3, <1>4, StepsOfBridge

(* The callers of one virtual socket never share a mutex: when two of them *)
(* were told of grants that name a common key, and neither has asked to    *)
(* give it up, one has lost its hold in between.  Whatever the handlers of *)
(* the other callers, the other sockets, the timers and the disk do, also  *)
(* while the answers wait in process.nextTick.  The keys are mutexes: a    *)
(* call that asks for more slots is meant to share them.                   *)
THEOREM CallersAreExclusive ==
  ASSUME Mutexes
  PROVE  BridgeSpec => []ExclusiveCallers
PROOF
  <1>1. BridgeInit => MutexInv
    <2>. SUFFICES ASSUME BridgeInit  PROVE MutexInv
      OBVIOUS
    <2>1. Init
      BY DEF BridgeInit
    <2>2. OneHolder
      BY <2>1 DEF Init, OneHolder, Holds
    <2>. QED  BY <2>1, <2>2, InitBInv, InitSlotsInv DEF MutexInv
  <1>2. MutexInv /\ [BridgeNext]_bridgeVars => MutexInv'
    BY MutexStep
  <1>3. MutexInv => ExclusiveCallers
    <2>. SUFFICES ASSUME MutexInv, NEW g \in Holders, NEW h \in Holders, Uses(g), Uses(h),
                         NEW k \in KeysOf(g), k \in KeysOf(h), g \notin revoked, h \notin revoked
                  PROVE  g = h
      BY DEF ExclusiveCallers
    <2>1. ASSUME NEW x \in Holders, Uses(x), k \in KeysOf(x), x \notin revoked
          PROVE  x \in Holds(locks, k)
      <3>1. Claims(x)
        BY <2>1 DEF Uses, Claims, Told, Ask, End
      <3>. QED  BY <2>1, <3>1 DEF MutexInv, BInv, CallersInv, CallerAt
    <2>2. k \in Keys
      BY RequestType DEF KeysOf, Holders
    <2>. QED  BY <2>1, <2>2 DEF MutexInv, OneHolder
  <1>. QED  BY <1>1, <1>2, <1>3, PTL DEF BridgeSpec

-----------------------------------------------------------------------------
(* StopReleases: before the stop.                                          *)

\* Only HTTP callers hold and wait: their socket is the virtual one.
AllVirtual ==
  /\ granting # None => granting.ws = Virtual
  /\ \A k \in Keys : /\ \A w : Entry(locks, k, w) => w.ws = Virtual
                     /\ \A h \in Holds(locks, k) : locks[k].lockholders[h].ws = Virtual

\* The clean-up finds every plain call that waits among the uuids of the socket.
Remembered ==
  server # "stopped" =>
    /\ \A k \in Keys, u \in Uuids : Queued(Line(locks, k), u) => u \in wsToUUIDs[Virtual]
    /\ \A t \in work : t.op \in {"evict", "member", "registry"}

\* No request is open any more.
Quiet == server = "stopped" => \A r \in Requests : ~Open(r)

LEMMA AllVirtualStep ==
  ASSUME WInv, ReleaseRows, AllVirtual, BridgeNext
  PROVE  AllVirtual'
PROOF
  <1>. HInv /\ IInv
    BY DEF WInv, HInv
  <1>1. CASE BrokerSteps
    <2>1. granting' # None => granting'.ws = Virtual
      <3>. SUFFICES ASSUME granting' # None  PROVE granting'.ws = Virtual
        OBVIOUS
      <3>1. \A k \in Keys : Entry(locks, k, [id |-> granting'.id, ws |-> granting'.ws])
              => granting'.ws = Virtual
        BY DEF AllVirtual
      <3>. QED  BY <1>1, <3>1, AttemptsOfBridge DEF AllVirtual
    <2>2. ASSUME NEW k \in Keys, NEW w, Entry(locks', k, w)
          PROVE  w.ws = Virtual
      BY <1>1, <2>2, WaitersOfBridge DEF AllVirtual, ManyIsContended, GrantingMany
    <2>3. ASSUME NEW k \in Keys, NEW h \in Holds(locks', k)
          PROVE  locks'[k].lockholders[h].ws = Virtual
      <3>1. EntriesTraced
        BY <1>1, StepsOfBroker, NextStep DEF StepOK
      <3>2. h \in Holders /\ locks'[k] # None /\ locks'[k].lockholders[h].token # 0
        BY DEF Holds, HoldersOf, Holding
      <3>3. locks'[k].lockholders[h] # NoHold
        BY <3>2 DEF NoHold
      <3>4. CASE locks[k] # None /\ locks'[k].lockholders[h] = locks[k].lockholders[h]
        <4>1. h \in Holds(locks, k)
          BY <3>2, <3>4 DEF Holds, HoldersOf, Holding
        <4>. QED  BY <3>4, <4>1 DEF AllVirtual
      <3>. QED  BY <3>1, <3>2, <3>3, <3>4 DEF EntriesTraced, AllVirtual
    <2>. QED  BY <2>1, <2>2, <2>3 DEF AllVirtual, Entry, Holds, Line
  <1>2. CASE Rests
    <2>1. locks' = locks /\ granting' = granting
      BY <1>2, BrokerAtRest DEF Rests
    <2>. QED  BY <2>1 DEF AllVirtual, Entry
  <1>. QED  BY <1>1, <1>2, StepsOfBridge

(* Only stop() ends the server, and nothing starts it again.               *)
LEMMA ServerMoves ==
  ASSUME BridgeNext
  PROVE  /\ server = "stopped" => server' = "stopped" /\ ~Shutdown
         /\ server # "stopped" /\ server' = "stopped" => Shutdown
         /\ Shutdown => server # "stopped"
PROOF
  <1>1. CASE Handle
    BY <1>1 DEF Handle, HandleLock, HandleUnlock, HandleForce, HandleAcquireMany,
                HandleReleaseMany, Dispatched, Shutdown
  <1>2. CASE ~Handle
    BY <1>2 DEF BridgeNext, OnBrokerFrame, Stop, Shutdown, Peer, BrokerTimer, BrokerRuns,
                Incoming, Arrives, RequestTimesOut
  <1>. QED  BY <1>1, <1>2

LEMMA QuietServer ==
  ASSUME CallersTyped, Quiet, BridgeNext
  PROVE  Quiet'
PROOF
  <1>. SUFFICES ASSUME server' = "stopped", NEW r \in Requests  PROVE ~Open(r)'
    BY DEF Quiet
  <1>1. CASE Shutdown
    BY <1>1 DEF Shutdown, Open
  <1>2. CASE server = "stopped"
    <2>1. caller[r] \notin {"sending", "waiting"} /\ CallerMoves(r)
      BY <1>2, CallersMove DEF Quiet, Open
    <2>2. caller'[r] = caller[r]
      BY <1>2, <2>1 DEF CallerMoves, Open
    <2>. QED  BY <2>1, <2>2 DEF Open
  <1>. QED  BY <1>1, <1>2, ServerMoves

\* A call is forgotten when it is unlocked, or the clean-up has begun.
LEMMA MemoryMoves ==
  ASSUME IInv, BrokerSteps, NEW u \in Uuids, u \in wsToUUIDs[Virtual], u \notin wsToUUIDs'[Virtual]
  PROVE  \/ Shutdown \/ Handles(Request("unlock", u))
         \/ \E t \in work : ForcedUnlock(t)
PROOF
  <1>. Virtual \in Sockets /\ wsToUUIDs \in [Sockets -> SUBSET Uuids] /\ u # None
    BY BridgeAssumption, NameAssumption DEF IInv, TypeOK, Holders
  <1>1. ASSUME NEW ws \in Sockets, NEW v, wsToUUIDs' = [wsToUUIDs EXCEPT ![ws] = @ \ {v}]
        PROVE  v = u /\ ws = Virtual
    BY <1>1
  <1>2. ASSUME NEW v, wsToUUIDs' = [wsToUUIDs EXCEPT ![Virtual] = @ \cup {v}]
        PROVE  FALSE
    BY <1>2
  <1>3. ASSUME NEW v \in Uuids, HandleLock(v)
        PROVE  FALSE
    BY <1>2, <1>3 DEF HandleLock, LockRefused, LockOnNewKey, LockOnNewKeyFails, LockOnFreeKey,
                      LockOnFullKey, LockAccepted, Remember, tables
  <1>4. ASSUME NEW v \in Uuids, HandleUnlock(v)
        PROVE  Handles(Request("unlock", u))
    <2>1. wsToUUIDs' = [wsToUUIDs EXCEPT ![Virtual] = @ \ {v}]
      BY <1>4 DEF HandleUnlock, UnlockUnknownKey, UnlockHolder, UnlockLate, UnlockRejected,
                  Unlocking, Forget
    <2>2. v = u
      BY <1>1, <2>1
    <2>. QED  BY <1>4, <2>2 DEF HandleUnlock, Handles, Request, Requests, BrokerSteps, Handle
  <1>5. ASSUME NEW k \in Keys, HandleForce(k)
        PROVE  FALSE
    <2>1. wsToUUIDs' = [wsToUUIDs EXCEPT ![Virtual] = @ \ {None}]
      BY <1>5 DEF HandleForce, UnlockUnknownKey, UnlockEveryone, UnlockRejected, Unlocking, Forget
    <2>. QED  BY <1>1, <2>1
  <1>6. CASE Handle
    BY <1>3, <1>4, <1>5, <1>6
    DEF Handle, HandleAcquireMany, HandleReleaseMany, AcquireMany, ReleaseMany, tables
  <1>7. CASE Peer
    <2>1. PICK s \in Sockets, k \in Keys : LockReceived(k, s) \/ UnlockEveryone(k, s)
      BY <1>7 DEF Peer
    <2>2. wsToUUIDs' = wsToUUIDs \/ wsToUUIDs' = [wsToUUIDs EXCEPT ![s] = @ \ {None}]
      BY <2>1 DEF LockReceived, UnlockEveryone, Unlocking, Forget
    <2>. QED  BY <1>1, <2>2
  <1>8. CASE BrokerTimer
    BY <1>8 DEF BrokerTimer, TickTtl, Reelections, Reelection, tables
  <1>9. CASE BrokerRuns
    <2>1. ~Granting /\ ~Drain
      BY DEF Granting, GrantLock, GrantLockFails, ManyCreatesLock, ManyGrantsKey, ManyIsContended,
             ManyRegisters, ManyFails, Drain, DrainStops, DequeueWaiter, tables
    <2>2. PICK t \in work : Visits(t)
      BY <1>9, <2>1 DEF BrokerRuns, Internal, WorkStep, Visits
    <2>. QED  BY <2>2 DEF Visits, Evict, ReleaseMember, ForgetComposite, VisitKey, VisitAbsentKey,
                          ScrubWaiter, EndCleanup
  <1>. QED  BY <1>6, <1>7, <1>8, <1>9 DEF BrokerSteps

LEMMA RememberedStep ==
  ASSUME WInv, CallersInv, Remembered, BridgeNext
  PROVE  Remembered'
PROOF
  <1>. SUFFICES ASSUME server' # "stopped"
                PROVE  /\ \A k \in Keys, u \in Uuids : Queued(Line(locks', k), u) => u \in wsToUUIDs'[Virtual]
                       /\ \A t \in work' : t.op \in {"evict", "member", "registry"}
    BY DEF Remembered, Line, Queued
  <1>. HInv /\ IInv
    BY DEF WInv, HInv
  <1>1. server # "stopped" /\ ~Shutdown
    BY ServerMoves DEF Shutdown
  <1>2. CASE Rests
    BY <1>1, <1>2, BrokerAtRest DEF Rests, Remembered
  <1>3. CASE BrokerSteps
    <2>1. ASSUME NEW t \in work'
          PROVE  t.op \in {"evict", "member", "registry"}
      <3>1. t \in work \/ NewRow(t)
        BY <1>3, RowsAppear
      <3>2. \A s : VisitKey(s) => s.op = "visit"
        BY DEF VisitKey, CleaningUp
      <3>. QED  BY <1>1, <3>1, <3>2 DEF Remembered, NewRow, RegistryRow, MemberRow
    <2>2. ASSUME NEW k \in Keys, NEW u \in Uuids, Queued(Line(locks', k), u)
          PROVE  u \in wsToUUIDs'[Virtual]
      <3>1. PICK w : Entry(locks', k, w) /\ w.id = u
        BY <2>2, QueuedEntry
      <3>2. CASE wsToUUIDs' = [wsToUUIDs EXCEPT ![Virtual] = @ \cup {u}]
        BY <3>2, BridgeAssumption DEF IInv, TypeOK
      <3>3. CASE Entry(locks, k, w)
        <4>1. Queued(Line(locks, k), u) /\ u \in Holders
          BY <3>1, <3>3, QueuedEntry DEF Holders
        <4>2. u \in wsToUUIDs[Virtual]
          BY <1>1, <4>1 DEF Remembered
        <4>3. ~Handles(Request("unlock", u))
          <5>. SUFFICES ASSUME Handles(Request("unlock", u))  PROVE FALSE
            OBVIOUS
          <5>1. caller[End(u)] = "sending"
            BY <4>1, NamesOfRequests, Handled DEF CallersInv
          <5>2. Told(u) /\ CallerAt(u)
            BY <4>1, <5>1 DEF CallersInv, CallerAt, Told
          <5>. QED  BY <4>1, <5>2 DEF CallerAt, Nowhere
        <4>4. \A t \in work : ~ForcedUnlock(t)
          BY <1>1 DEF Remembered, ForcedUnlock, CleaningUp
        <4>. QED  BY <1>1, <1>3, <4>2, <4>3, <4>4, MemoryMoves
      <3>. QED  BY <1>3, <3>1, <3>2, <3>3, WaitersOfBridge, NameAssumption DEF CallersInv
    <2>. QED  BY <2>1, <2>2
  <1>. QED  BY <1>2, <1>3, StepsOfBridge

-----------------------------------------------------------------------------
(* StopReleases: the rows of the clean-up.                                 *)

CleanOps == {"visit", "scrub", "forced", "destroy"}

\* The rows run in the order scrub, forced unlock, next key; a key is visited once.
RowsOrdered ==
  \A t \in work :
    /\ t.op = "scrub" => t.rank = 0
    /\ t.op = "forced" => t.rank = 1 /\ \A s \in work : s.op = "visit" => s.key # t.key
    /\ t.op = "visit" => /\ t.rank = 2 /\ t.ws = Virtual
                         /\ \A s \in work : s.op = "visit" /\ s.key = t.key => s = t

\* Once the server has stopped, the clean-up runs, or afterwards sweeps.
RowsOfOne ==
  server = "stopped" =>
    (\A t \in work : t.op \in CleanOps) \/ (\A t \in work : t.op = "evict")

\* A plain call waits for k.
PlainWaits(k) == \E u \in Uuids : Queued(Line(locks, k), u)

\* What is granted by then is a composite, and the drain finds nobody else.
LateGrants ==
  server = "stopped" =>
    /\ granting # None => granting.id \in ManyIds
    /\ drain # None => ~PlainWaits(drain)

Owned(h) == h \in Uuids \/ caller[Request("acquire", h)] = "yes"

\* Key k is still to be visited, and its waiters are known; or there is a row
\* for each waiter and each hold.
Swept(k) ==
  \/ \E t \in work : /\ t.op = "visit" /\ t.key = k
                     /\ \A u \in Uuids : Queued(Line(locks, k), u) => u \in t.ids
  \/ /\ \A u \in Uuids : Queued(Line(locks, k), u) =>
          \E t \in work : t.op = "scrub" /\ t.key = k /\ t.ids = {u}
     /\ \A h \in Holds(locks, k) : Owned(h) =>
          \E t \in work : t.op = "forced" /\ t.key = k /\ h \in t.ids
AllSwept == server = "stopped" => \A k \in Keys : Swept(k)

CleanInv == AllVirtual /\ Remembered /\ Quiet /\ RowsOrdered /\ RowsOfOne /\ LateGrants /\ AllSwept
StopInv == BInv /\ CleanInv

LEMMA NoHandler ==
  ASSUME Quiet, server = "stopped", NEW r
  PROVE  ~Handles(r)
PROOF
  BY DEF Quiet, Handles, Dispatched, Open

LEMMA RowsOrderedStep ==
  ASSUME RowsOrdered, BridgeNext
  PROVE  RowsOrdered'
PROOF
  <1>1. CASE Rests
    BY <1>1, BrokerAtRest DEF Rests, RowsOrdered
  <1>2. CASE BrokerSteps
    <2>. SUFFICES ASSUME NEW t \in work'
                  PROVE  /\ t.op = "scrub" => t.rank = 0
                         /\ t.op = "forced" => t.rank = 1 /\ \A s \in work' : s.op = "visit" => s.key # t.key
                         /\ t.op = "visit" => /\ t.rank = 2 /\ t.ws = Virtual
                                              /\ \A s \in work' : s.op = "visit" /\ s.key = t.key => s = t
      BY DEF RowsOrdered
    <2>1. \A s \in work' : s \in work \/ NewRow(s)
      BY <1>2, RowsAppear
    <2>2. CASE Shutdown
      <3>1. work' = {VisitRow(k, Virtual) : k \in Keys} \cup {LastRow("destroy", Virtual)}
        BY <2>2 DEF Shutdown, SocketEnds, CleanupConnection
      <3>2. \A s \in work' : s.op = "destroy" \/ \E k \in Keys : s = VisitRow(k, Virtual) /\ s.key = k
        BY <3>1 DEF VisitRow, LastRow
      <3>. QED  BY <3>2 DEF VisitRow
    <2>3. CASE ~Shutdown
      <3>1. \A s \in work' : s.op = "visit" => s \in work
        BY <2>1, <2>3 DEF NewRow, RegistryRow, MemberRow, ScrubRow, ForcedRow
      <3>2. CASE t \in work
        BY <3>1, <3>2 DEF RowsOrdered
      <3>3. CASE t \notin work
        <4>1. NewRow(t) /\ t.op # "visit"
          BY <2>1, <3>1, <3>3
        <4>2. t.op = "scrub" => t.rank = 0
          BY <2>3, <4>1 DEF NewRow, RegistryRow, MemberRow, ScrubRow, ForcedRow
        <4>3. ASSUME t.op = "forced"
              PROVE  t.rank = 1 /\ \A s \in work' : s.op = "visit" => s.key # t.key
          <5>1. PICK s \in work : VisitKey(s) /\ \E h : t = ForcedRow(s.key, h, s.ws)
            BY <2>3, <4>1, <4>3 DEF NewRow, RegistryRow, MemberRow, ScrubRow
          <5>2. t.rank = 1 /\ t.key = s.key /\ s.op = "visit"
            BY <5>1 DEF ForcedRow, VisitKey, CleaningUp
          <5>3. s \notin work'
            BY <5>1, <5>2 DEF VisitKey, ScrubRow, ForcedRow
          <5>. QED  BY <3>1, <5>2, <5>3 DEF RowsOrdered
        <4>. QED  BY <4>1, <4>2, <4>3
      <3>. QED  BY <3>2, <3>3
    <2>. QED  BY <2>2, <2>3
  <1>. QED  BY <1>1, <1>2, StepsOfBridge

LEMMA RowsOfOneStep ==
  ASSUME Quiet, RowsOfOne, BridgeNext
  PROVE  RowsOfOne'
PROOF
  <1>. SUFFICES ASSUME server' = "stopped"
                PROVE  (\A t \in work' : t.op \in CleanOps) \/ (\A t \in work' : t.op = "evict")
    BY DEF RowsOfOne
  <1>1. CASE Rests /\ ~Shutdown
    BY <1>1, BrokerAtRest, ServerMoves DEF Rests, RowsOfOne
  <1>2. CASE Shutdown
    <2>1. work' = {VisitRow(k, Virtual) : k \in Keys} \cup {LastRow("destroy", Virtual)}
      BY <1>2 DEF Shutdown, SocketEnds, CleanupConnection
    <2>2. \A t \in work' : t.op \in CleanOps
      BY <2>1 DEF VisitRow, LastRow, CleanOps
    <2>. QED  BY <2>2
  <1>3. CASE BrokerSteps /\ ~Shutdown
    <2>1. server = "stopped"
      BY <1>3, ServerMoves
    <2>2. CASE TickTtl
      BY <2>2 DEF TickTtl, EvictRow
    <2>3. CASE ~TickTtl
      <3>1. ASSUME NEW t \in work', t \notin work
            PROVE  t.op \in CleanOps /\ \E s \in work : s.op = "visit"
        <4>1. NewRow(t)
          BY <1>3, <3>1, RowsAppear
        <4>2. PICK s \in work :
                /\ VisitKey(s)
                /\ \/ \E u \in s.ids : t = ScrubRow(s.key, u)
                   \/ \E h : t = ForcedRow(s.key, h, s.ws)
          BY <1>3, <2>1, <2>3, <4>1, NoHandler DEF NewRow
        <4>3. t.op \in CleanOps
          BY <4>2 DEF ScrubRow, ForcedRow, CleanOps
        <4>4. s.op = "visit"
          BY <4>2 DEF VisitKey, CleaningUp
        <4>. QED  BY <4>3, <4>4
      <3>. QED  BY <2>1, <3>1 DEF RowsOfOne
    <2>. QED  BY <2>2, <2>3
  <1>. QED  BY <1>1, <1>2, <1>3, StepsOfBridge

-----------------------------------------------------------------------------
(* StopReleases: after the stop.                                           *)

\* No caller says anything any more.
LEMMA CallersRest ==
  ASSUME CallersTyped, Quiet, server = "stopped", BridgeNext, NEW h \in Holders
  PROVE  caller'[Ask(h)] = caller[Ask(h)]
PROOF
  <1>1. Ask(h) \in Requests /\ CallerMoves(Ask(h))
    BY NamesOfRequests, CallersMove
  <1>. QED  BY <1>1 DEF CallerMoves, Quiet, Open

\* Plain calls only leave the queues.
LEMMA PlainWaitersGo ==
  ASSUME WInv, ReleaseRows, Quiet, server = "stopped", BridgeNext,
         NEW k \in Keys, NEW u \in Uuids, Queued(Line(locks', k), u)
  PROVE  Queued(Line(locks, k), u)
PROOF
  <1>1. CASE Rests
    BY <1>1, BrokerAtRest DEF Rests
  <1>2. CASE BrokerSteps
    <2>1. PICK w : Entry(locks', k, w) /\ w.id = u
      BY QueuedEntry
    <2>2. Entry(locks, k, w)
      BY <1>2, <2>1, WaitersOfBridge, NoHandler, NameAssumption
    <2>. QED  BY <2>1, <2>2, QueuedEntry
  <1>. QED  BY <1>1, <1>2, StepsOfBridge

\* The holds that a caller knows of only end.
LEMMA OwnedHoldsGo ==
  ASSUME WInv, CallersInv, Quiet, LateGrants, server = "stopped", BridgeNext,
         NEW k \in Keys, NEW h \in Holds(locks', k), Owned(h)'
  PROVE  Owned(h) /\ h \in Holds(locks, k)
PROOF
  <1>. HInv /\ IInv
    BY DEF WInv, HInv
  <1>1. h \in Holders
    BY DEF Holds, HoldersOf
  <1>2. Owned(h)
    <2>1. h \notin Uuids => Ask(h) = Request("acquire", h)
      BY DEF Ask
    <2>2. h \in Uuids \/ caller'[Request("acquire", h)] = "yes"
      BY DEF Owned, Request
    <2>. QED  BY <1>1, <2>1, <2>2, CallersRest DEF CallersInv, Owned
  <1>3. h \in Holds(locks, k)
    <2>. SUFFICES ASSUME h \notin Holds(locks, k)  PROVE FALSE
      OBVIOUS
    <2>1. BrokerSteps /\ Next
      BY StepsOfBridge, BrokerAtRest, StepsOfBroker DEF Rests
    <2>2. Attempting(h) /\ ((GrantLock /\ h \in Uuids) \/ h \in ManyIds)
      BY <2>1, HoldsMove
    <2>3. h \in ManyIds /\ h \notin Uuids
      BY <2>2, NameAssumption DEF LateGrants, Attempting
    <2>4. caller[Ask(h)] = "yes"
      BY <1>2, <2>3 DEF Owned, Ask
    <2>. QED  BY <1>1, <2>2, <2>4 DEF CallersInv, CallerAt, Told, Nowhere
  <1>. QED  BY <1>2, <1>3

\* The drain begins where somebody has been made to leave.
LEMMA DrainBegins ==
  ASSUME BrokerSteps, drain' # None, drain' # drain
  PROVE  \/ Handle
         \/ \E s \in Sockets : UnlockEveryone(drain', s)
         \/ \E t \in work : /\ Evict(t) \/ ReleaseMember(t) \/ ForcedUnlock(t)
                            /\ t.key = drain'
PROOF
  <1>1. CASE Shutdown \/ BrokerTimer
    BY <1>1 DEF Shutdown, SocketEnds, CleanupConnection, BrokerTimer, TickTtl, Reelections,
                Reelection, stack
  <1>2. CASE Peer
    <2>1. PICK s \in Sockets, k \in Keys : LockReceived(k, s) \/ UnlockEveryone(k, s)
      BY <1>2 DEF Peer
    <2>2. UnlockEveryone(k, s) /\ drain' = k
      BY <2>1 DEF LockReceived, UnlockEveryone, EnsureNewLockHolder, stack
    <2>. QED  BY <2>2
  <1>3. CASE BrokerRuns
    <2>1. ~Granting /\ ~Drain
      BY DEF Granting, GrantLock, GrantLockFails, ManyCreatesLock, ManyGrantsKey, ManyIsContended,
             ManyRegisters, ManyFails, Drain, DrainStops, DequeueWaiter, stack
    <2>2. PICK t \in work : Visits(t)
      BY <1>3, <2>1 DEF BrokerRuns, Internal, WorkStep, Visits
    <2>3. Evict(t) \/ ReleaseMember(t) \/ ForcedUnlock(t) => drain' = t.key
      BY DEF Evict, ReleaseMember, ForcedUnlock, EnsureNewLockHolder
    <2>4. ~ForgetComposite(t) /\ ~VisitKey(t) /\ ~VisitAbsentKey(t) /\ ~ScrubWaiter(t)
          /\ ~EndCleanup(t)
      BY DEF ForgetComposite, VisitKey, VisitAbsentKey, ScrubWaiter, EndCleanup
    <2>. QED  BY <2>2, <2>3, <2>4 DEF Visits
  <1>. QED  BY <1>1, <1>2, <1>3 DEF BrokerSteps

LEMMA LateGrantsStep ==
  ASSUME StopInv, BridgeNext
  PROVE  LateGrants'
PROOF
  <1>. /\ WInv /\ HInv /\ IInv /\ CallersInv /\ ReleaseRows
       /\ Quiet /\ RowsOrdered /\ RowsOfOne /\ LateGrants /\ AllSwept
    BY DEF StopInv, BInv, CleanInv, WInv, HInv, CallersInv
  <1>. SUFFICES ASSUME server' = "stopped"
                PROVE  /\ granting' # None => granting'.id \in ManyIds
                       /\ drain' # None => \A u \in Uuids : ~Queued(Line(locks', drain'), u)
    BY DEF LateGrants, PlainWaits, Line, Queued
  <1>1. CASE Shutdown
    BY <1>1 DEF Shutdown, SocketEnds, CleanupConnection, Idle
  <1>2. CASE server = "stopped" /\ Rests
    BY <1>2, BrokerAtRest DEF Rests, LateGrants, PlainWaits
  <1>3. CASE server = "stopped" /\ BrokerSteps
    <2>1. \A r : ~Handles(r)
      BY <1>3, NoHandler
    <2>2. ASSUME granting' # None
          PROVE  granting'.id \in ManyIds
      <3>1. CASE \E k \in Keys : DequeueWaiter(k) /\ Queued(Line(locks, k), granting'.id)
                                 /\ Entry(locks, k, [id |-> granting'.id, ws |-> granting'.ws])
        <4>1. PICK k \in Keys : DequeueWaiter(k) /\ Queued(Line(locks, k), granting'.id)
                                /\ Entry(locks, k, [id |-> granting'.id, ws |-> granting'.ws])
          BY <3>1
        <4>2. drain = k /\ drain # None
          BY <4>1 DEF DequeueWaiter, Draining
        <4>3. granting'.id \notin Uuids
          BY <1>3, <4>1, <4>2 DEF LateGrants, PlainWaits
        <4>4. granting'.id \in Holders
          <5>. DEFINE w == [id |-> granting'.id, ws |-> granting'.ws]
          <5>1. Line(locks, k) \in Seq(Waiter) /\ \E i \in 1..Len(Line(locks, k)) : Line(locks, k)[i] = w
            BY <4>1, LineType DEF Entry
          <5>2. w.id = granting'.id
            OBVIOUS
          <5>. HIDE DEF w
          <5>3. w \in Waiter
            BY <5>1
          <5>. QED  BY <5>2, <5>3 DEF Waiter
        <4>. QED  BY <4>3, <4>4 DEF Holders
      <3>. QED  BY <1>3, <2>1, <2>2, <3>1, AttemptsOfBridge
    <2>3. ASSUME drain' # None
          PROVE  \A u \in Uuids : ~Queued(Line(locks', drain'), u)
      <3>1. drain' \in Keys
        BY <1>3, <2>3, StepsOfBroker, NextStep DEF StepOK, TypeOK
      <3>. SUFFICES \A u \in Uuids : ~Queued(Line(locks, drain'), u)
        BY <1>3, <3>1, PlainWaitersGo
      <3>2. CASE drain' = drain
        BY <1>3, <2>3, <3>2 DEF LateGrants, PlainWaits
      <3>3. CASE drain' # drain
        <4>1. ~Handle
          BY <2>1, HandlerOf
        <4>2. CASE \E s \in Sockets : UnlockEveryone(drain', s)
          <5>1. work = {}
            BY <4>2 DEF UnlockEveryone, Unlocking, Hears, Idle
          <5>. QED  BY <1>3, <3>1, <5>1 DEF AllSwept, Swept
        <4>3. ASSUME NEW t \in work, Evict(t)
              PROVE  \A s \in work : s.op = "evict"
          BY <1>3, <4>3 DEF Evict, RowsOfOne, CleanOps
        <4>4. \A t \in work : ~ReleaseMember(t)
          BY <1>3 DEF ReleaseMember, RowsOfOne, CleanOps
        <4>5. ASSUME NEW t \in work, ForcedUnlock(t), t.key = drain'
              PROVE  \A s \in work : s.op # "scrub" /\ (s.op = "visit" => s.key # drain')
          <5>1. t.op = "forced" /\ \A s \in work : t.rank <= s.rank
            BY <4>5 DEF ForcedUnlock, CleaningUp, Turn
          <5>2. t.rank = 1
            BY <5>1 DEF RowsOrdered
          <5>. QED  BY <4>5, <5>1, <5>2 DEF RowsOrdered
        <4>6. \/ \A s \in work : s.op = "evict"
              \/ \A s \in work : s.op # "scrub" /\ (s.op = "visit" => s.key # drain')
              \/ \E s \in Sockets : UnlockEveryone(drain', s)
          BY <1>3, <2>3, <3>3, <4>1, <4>3, <4>4, <4>5, DrainBegins
        <4>. QED  BY <1>3, <3>1, <4>2, <4>6 DEF AllSwept, Swept
      <3>. QED  BY <3>2, <3>3
    <2>. QED  BY <2>2, <2>3
  <1>. QED  BY <1>1, <1>2, <1>3, ServerMoves, StepsOfBridge

\* The visit of a key writes a row for each of its waiters and holds.
LEMMA VisitSweeps ==
  ASSUME IInv, AllVirtual, RowsOrdered, NEW t \in work, t.op = "visit",
         \A u \in Uuids : Queued(Line(locks, t.key), u) => u \in t.ids,
         VisitKey(t) \/ VisitAbsentKey(t)
  PROVE  /\ locks' = locks
         /\ \A u \in Uuids : Queued(Line(locks, t.key), u) =>
              \E s \in work' : s.op = "scrub" /\ s.key = t.key /\ s.ids = {u}
         /\ \A h \in Holds(locks, t.key) :
              \E s \in work' : s.op = "forced" /\ s.key = t.key /\ h \in s.ids
PROOF
  <1>. DEFINE k == t.key
  <1>1. k \in Keys
    BY TaskType
  <1>2. CASE VisitAbsentKey(t)
    <2>1. locks[k] = None /\ locks' = locks
      BY <1>2 DEF VisitAbsentKey
    <2>. QED  BY <2>1 DEF Line, Holds, Queued
  <1>3. CASE VisitKey(t)
    <2>1. locks[k] # None /\ locks' = locks
      BY <1>3 DEF VisitKey
    <2>2. Line(locks, k) = locks[k].notify /\ Holds(locks, k) = HoldersOf(locks[k])
      BY <2>1 DEF Line, Holds
    <2>3. ASSUME NEW u \in Uuids, Queued(Line(locks, k), u)
          PROVE  ScrubRow(k, u) \in work'
      BY <1>3, <2>2, <2>3 DEF VisitKey
    <2>4. ASSUME NEW h \in Holds(locks, k)
          PROVE  ForcedRow(k, h, t.ws) \in work'
      <3>1. locks[k].lockholders[h].ws = t.ws
        BY <1>1 DEF AllVirtual, RowsOrdered
      <3>. QED  BY <1>3, <2>2, <3>1 DEF VisitKey
    <2>5. /\ \A u : LET s == ScrubRow(k, u) IN s.op = "scrub" /\ s.key = k /\ s.ids = {u}
          /\ \A h : LET s == ForcedRow(k, h, t.ws) IN s.op = "forced" /\ s.key = k /\ h \in s.ids
      BY DEF ScrubRow, ForcedRow
    <2>. QED  BY <2>1, <2>3, <2>4, <2>5
  <1>. QED  BY <1>2, <1>3

LEMMA SweptKept ==
  ASSUME StopInv, server = "stopped", BrokerSteps, BridgeNext, NEW k \in Keys
  PROVE  Swept(k)'
PROOF
  <1>. /\ WInv /\ HInv /\ IInv /\ CallersInv /\ ReleaseRows /\ Swept(k)
       /\ AllVirtual /\ Quiet /\ RowsOrdered /\ RowsOfOne /\ LateGrants
    BY DEF StopInv, BInv, CleanInv, WInv, HInv, CallersInv, AllSwept
  <1>1. \A u \in Uuids : Queued(Line(locks', k), u) => Queued(Line(locks, k), u)
    BY PlainWaitersGo
  <1>2. \A h \in Holds(locks', k) : Owned(h)' => Owned(h) /\ h \in Holds(locks, k)
    BY OwnedHoldsGo
  <1>3. \/ \E t \in work' : /\ t.op = "visit" /\ t.key = k
                            /\ \A u \in Uuids : Queued(Line(locks', k), u) => u \in t.ids
        \/ /\ \A u \in Uuids : Queued(Line(locks', k), u) =>
                \E t \in work' : t.op = "scrub" /\ t.key = k /\ t.ids = {u}
           /\ \A h \in Holds(locks', k) : Owned(h)' =>
                \E t \in work' : t.op = "forced" /\ t.key = k /\ h \in t.ids
    <2>1. CASE \E t \in work : /\ t.op = "visit" /\ t.key = k
                               /\ \A u \in Uuids : Queued(Line(locks, k), u) => u \in t.ids
      <3>1. PICK t \in work : /\ t.op = "visit" /\ t.key = k
                              /\ \A u \in Uuids : Queued(Line(locks, k), u) => u \in t.ids
        BY <2>1
      <3>2. CASE t \in work'
        BY <1>1, <3>1, <3>2
      <3>3. CASE t \notin work'
        <4>1. Visits(t)
          BY <3>3, RowsGo
        <4>2. VisitKey(t) \/ VisitAbsentKey(t)
          BY <3>1, <4>1 DEF Visits, Evict, ReleaseMember, ForgetComposite, ScrubWaiter,
                            ForcedUnlock, EndCleanup, CleaningUp
        <4>. QED  BY <3>1, <4>2, VisitSweeps
      <3>. QED  BY <3>2, <3>3
    <2>2. CASE /\ \A u \in Uuids : Queued(Line(locks, k), u) =>
                    \E t \in work : t.op = "scrub" /\ t.key = k /\ t.ids = {u}
               /\ \A h \in Holds(locks, k) : Owned(h) =>
                    \E t \in work : t.op = "forced" /\ t.key = k /\ h \in t.ids
      <3>1. ASSUME NEW u \in Uuids, Queued(Line(locks', k), u)
            PROVE  \E t \in work' : t.op = "scrub" /\ t.key = k /\ t.ids = {u}
        <4>1. PICK t \in work : t.op = "scrub" /\ t.key = k /\ t.ids = {u}
          BY <1>1, <2>2, <3>1
        <4>2. t \in work'
          <5>. SUFFICES ASSUME t \notin work'  PROVE FALSE
            OBVIOUS
          <5>1. Visits(t)
            BY RowsGo
          <5>2. ScrubWaiter(t)
            BY <4>1, <5>1 DEF Visits, Evict, ReleaseMember, ForgetComposite, VisitKey,
                              VisitAbsentKey, ForcedUnlock, EndCleanup, CleaningUp
          <5>3. (CHOOSE v \in t.ids : TRUE) = u
            BY <4>1
          <5>4. Line(locks', k) = Without(Line(locks, k), u)
            BY <4>1, <5>2, <5>3, ScrubWaiterEffect DEF LineIs
          <5>5. Line(locks, k) \in Seq(Waiter) /\ Unrepeated(Line(locks, k))
            BY LineType DEF WInv, LineInv
          <5>. QED  BY <3>1, <5>4, <5>5, WithoutIds
        <4>. QED  BY <4>1, <4>2
      <3>2. ASSUME NEW h \in Holds(locks', k), Owned(h)'
            PROVE  \E t \in work' : t.op = "forced" /\ t.key = k /\ h \in t.ids
        <4>1. PICK t \in work : t.op = "forced" /\ t.key = k /\ h \in t.ids
          BY <1>2, <2>2, <3>2
        <4>2. t \in work'
          <5>. SUFFICES ASSUME t \notin work'  PROVE FALSE
            OBVIOUS
          <5>1. Visits(t)
            BY RowsGo
          <5>2. ForcedUnlock(t)
            BY <4>1, <5>1 DEF Visits, Evict, ReleaseMember, ForgetComposite, VisitKey,
                              VisitAbsentKey, ScrubWaiter, EndCleanup, CleaningUp
          <5>. QED  BY <3>2, <4>1, <5>2, ForcedUnlockEffect DEF HoldsLose
        <4>. QED  BY <4>1, <4>2
      <3>. QED  BY <3>1, <3>2
    <2>. QED  BY <2>1, <2>2 DEF Swept
  <1>. QED  BY <1>3 DEF Swept, Line, Holds, Queued, Owned

LEMMA AllSweptStep ==
  ASSUME StopInv, BridgeNext
  PROVE  AllSwept'
PROOF
  <1>. SUFFICES ASSUME server' = "stopped", NEW k \in Keys  PROVE Swept(k)'
    BY DEF AllSwept
  <1>. WInv /\ CallersInv /\ Quiet /\ Remembered /\ AllSwept
    BY DEF StopInv, BInv, CleanInv
  <1>1. CASE Shutdown
    <2>1. /\ VisitRow(k, Virtual) \in work' /\ locks' = locks
          /\ server # "stopped"
      BY <1>1 DEF Shutdown, SocketEnds, CleanupConnection
    <2>. DEFINE t == VisitRow(k, Virtual)
    <2>2. t.op = "visit" /\ t.key = k /\ t.ids = wsToUUIDs[Virtual]
      BY DEF VisitRow
    <2>. HIDE DEF t
    <2>3. \A u \in Uuids : Queued(Line(locks', k), u) => u \in t.ids
      BY <2>1, <2>2 DEF Remembered
    <2>4. t \in work'
      BY <2>1 DEF t
    <2>5. \E s \in work' : /\ s.op = "visit" /\ s.key = k
                           /\ \A u \in Uuids : Queued(Line(locks', k), u) => u \in s.ids
      BY <2>2, <2>3, <2>4
    <2>. QED  BY <2>5 DEF Swept, Line, Queued
  <1>2. CASE server = "stopped" /\ BrokerSteps
    BY <1>2, SweptKept
  <1>3. CASE server = "stopped" /\ Rests
    <2>1. locks' = locks /\ work' = work
      BY <1>3, BrokerAtRest DEF Rests
    <2>2. \A h \in Holds(locks', k) : Owned(h)' => Owned(h)
      BY <1>3, OwnedHoldsGo DEF StopInv, CleanInv
    <2>3. Swept(k)
      BY <1>3 DEF AllSwept
    <2>4. \/ \E t \in work' : /\ t.op = "visit" /\ t.key = k
                              /\ \A u \in Uuids : Queued(Line(locks', k), u) => u \in t.ids
          \/ /\ \A u \in Uuids : Queued(Line(locks', k), u) =>
                  \E t \in work' : t.op = "scrub" /\ t.key = k /\ t.ids = {u}
             /\ \A h \in Holds(locks', k) : Owned(h)' =>
                  \E t \in work' : t.op = "forced" /\ t.key = k /\ h \in t.ids
      BY <2>1, <2>2, <2>3 DEF Swept
    <2>. QED  BY <2>4 DEF Swept, Line, Holds, Queued, Owned
  <1>. QED  BY <1>1, <1>2, <1>3, ServerMoves, StepsOfBridge

LEMMA StopInvStep ==
  ASSUME StopInv, [BridgeNext]_bridgeVars
  PROVE  StopInv'
PROOF
  <1>1. CASE BridgeNext
    <2>. WInv /\ CallersInv /\ CallersTyped /\ ReleaseRows
      BY DEF StopInv, BInv, CallersInv
    <2>1. BInv'
      BY <1>1, BInvStep DEF StopInv
    <2>2. AllVirtual' /\ Remembered' /\ Quiet' /\ RowsOrdered' /\ RowsOfOne'
      BY <1>1, AllVirtualStep, RememberedStep, QuietServer, RowsOrderedStep, RowsOfOneStep
      DEF StopInv, CleanInv
    <2>. QED  BY <1>1, <2>1, <2>2, LateGrantsStep, AllSweptStep DEF StopInv, CleanInv
  <1>2. CASE UNCHANGED bridgeVars
    <2>1. BInv'
      BY <1>2, BInvStep DEF StopInv
    <2>2. locks' = locks /\ work' = work /\ granting' = granting /\ drain' = drain
          /\ wsToUUIDs' = wsToUUIDs /\ caller' = caller /\ server' = server
      BY <1>2 DEF bridgeVars, vars, tables, stack
    <2>3. AllVirtual' /\ Remembered'
      BY <2>2 DEF StopInv, CleanInv, AllVirtual, Remembered, Entry
    <2>4. Quiet' /\ RowsOrdered' /\ RowsOfOne'
      BY <2>2 DEF StopInv, CleanInv, Quiet, Open, RowsOrdered, RowsOfOne
    <2>5. LateGrants'
      BY <2>2 DEF StopInv, CleanInv, LateGrants, PlainWaits
    <2>6. AllSwept'
      BY <2>2 DEF StopInv, CleanInv, AllSwept, Swept, Owned
    <2>. QED  BY <2>1, <2>3, <2>4, <2>5, <2>6 DEF StopInv, CleanInv
  <1>. QED  BY <1>1, <1>2

LEMMA InitStopInv ==
  ASSUME BridgeInit
  PROVE  StopInv
PROOF
  <1>1. Init /\ server = "listening"
    BY DEF BridgeInit
  <1>2. \A k \in Keys : Line(locks, k) = <<>> /\ Holds(locks, k) = {}
    BY <1>1 DEF Init, Line, Holds
  <1>3. granting = None /\ work = {}
    BY <1>1 DEF Init
  <1>4. AllVirtual
    BY <1>2, <1>3 DEF AllVirtual, Entry
  <1>5. Remembered
    BY <1>2, <1>3 DEF Remembered, Queued
  <1>6. Quiet /\ RowsOrdered /\ RowsOfOne /\ LateGrants /\ AllSwept
    BY <1>1, <1>3 DEF Quiet, RowsOrdered, RowsOfOne, LateGrants, AllSwept
  <1>. QED  BY <1>4, <1>5, <1>6, InitBInv DEF StopInv, CleanInv

(* shutdown() keeps its promise: from the end of the clean-up of the       *)
(* virtual socket on, no HTTP caller that was told of a grant, or that made *)
(* a plain call, holds a key, and no plain call is in a queue.  It is so   *)
(* although the clean-up visits one key after the other, drains the queues *)
(* as it goes, and is followed by the sweeps and unlocks of others.        *)
THEOREM ShutdownReleases == BridgeSpec => []StopReleases
PROOF
  <1>1. BridgeInit => StopInv
    BY InitStopInv
  <1>2. StopInv /\ [BridgeNext]_bridgeVars => StopInv'
    BY StopInvStep
  <1>3. StopInv => StopReleases
    <2>. SUFFICES ASSUME StopInv, Idle, server = "stopped", NEW k \in Keys, Present(k)
                  PROVE  /\ \A h \in Holders :
                              Held(k, h) => h \in ManyIds /\ caller[Request("acquire", h)] # "yes"
                         /\ \A i \in 1..Len(locks[k].notify) : locks[k].notify[i].id \in ManyIds
      BY DEF StopReleases
    <2>. HInv /\ IInv
      BY DEF StopInv, BInv, WInv, HInv
    <2>1. /\ \A u \in Uuids : ~Queued(Line(locks, k), u)
          /\ \A h \in Holds(locks, k) : ~Owned(h)
      BY DEF StopInv, CleanInv, AllSwept, Swept, Idle
    <2>2. Line(locks, k) = locks[k].notify /\ Line(locks, k) \in Seq(Waiter)
      BY LineType DEF Present, Line
    <2>3. ASSUME NEW i \in 1..Len(locks[k].notify)
          PROVE  locks[k].notify[i].id \in ManyIds
      <3>1. locks[k].notify[i] \in Waiter /\ Queued(Line(locks, k), locks[k].notify[i].id)
        BY <2>2 DEF Queued
      <3>. QED  BY <2>1, <3>1 DEF Waiter, Holders
    <2>4. ASSUME NEW h \in Holders, Held(k, h)
          PROVE  h \in ManyIds /\ caller[Request("acquire", h)] # "yes"
      BY <2>1, <2>4, HeldHolds DEF Owned, Holders
    <2>. QED  BY <2>3, <2>4
  <1>. QED  BY <1>1, <1>2, <1>3, PTL DEF BridgeSpec
=============================================================================
