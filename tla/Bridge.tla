-------------------------------- MODULE Bridge --------------------------------
(***************************************************************************)
(* The HTTP server (LMXHttpServer of http-server.ts) and the in-process    *)
(* bridge it calls the broker through (InProcessBridge and VirtualSocket   *)
(* of in-process-bridge.ts), with the broker itself.                       *)
(*                                                                         *)
(* Every HTTP caller shares one virtual socket.  A request runs the        *)
(* broker's handler at once; what the handler sends to the virtual socket  *)
(* comes back through process.nextTick, and the first frame of a request   *)
(* settles it.  Frames queued with nextTick are delivered before any timer *)
(* of the process fires.  Every handler sends its caller a frame before it *)
(* returns, so the bridge's own request timer never fires: a request is in *)
(* flight there only while its caller is "waiting".                        *)
(*                                                                         *)
(* A request is named by what it asks for and the call it is about, so     *)
(* that each caller asks once; the uuid the bridge mints for it is unique  *)
(* in the same way.  TCP clients are reduced to the frames that matter to  *)
(* the callers: an acknowledgement, which disarms the timer of a key, and  *)
(* a forced unlock.                                                        *)
(***************************************************************************)
EXTENDS Broker1Safety

Arrange == INSTANCE SequencesExt

CONSTANT Virtual  \* the bridge's virtual socket

\* HTTP callers pass no wait, force or readers/writers fields.
ASSUME BridgeAssumption ==
  /\ Virtual \in Sockets
  /\ \A u \in Uuids : /\ Req[u].from = {Virtual} /\ Req[u].rw = "none"
                      /\ Req[u].finite /\ Req[u].wait /\ ~Req[u].force
  /\ \A m \in ManyIds : ManyReq[m].from = Virtual /\ ManyReq[m].wait /\ ManyReq[m].finite

VARIABLES
  caller,    \* the state of each HTTP request, or what its caller knows
  ticks,     \* frames the virtual socket has queued with nextTick
  server,    \* is the HTTP server listening, closing or stopped?
  revoked    \* history: calls that lost a hold they did not give up

bridgeVars == <<vars, caller, ticks, server, revoked>>

Requests == [op : {"lock", "unlock"}, id : Uuids] \cup [op : {"acquire", "release"}, id : ManyIds]
            \cup [op : {"force"}, id : {None}]
Request(op, id) == [op |-> op, id |-> id]

Answer == {"yes", "no"}
CallerState == {"absent", "sending", "waiting", "gone"} \cup Answer

\* Requests that keep the HTTP server from closing.
Open(r) == caller[r] \in {"sending", "waiting"}

BrokerRests == Silent /\ UNCHANGED <<locks, tables, sockets, authority, stack, lastToken>>

\* Holds that end in this step without an unlock or a release of their call.
Ended == {h \in Holders : /\ \E k \in Keys : Held(k, h) /\ ~Held(k, h)'
                          /\ \A f \in out' : f.kind # "unlocked" \/ f.id # h
                          /\ \A t \in work \ work' : t.op # "member" \/ h \notin t.ids
                          /\ granting = None \/ granting.id # h}

\* A step of the broker: what it sends to the virtual socket is queued.
Sends ==
  /\ ticks' = ticks \o Arrange!SetToSeq({f \in out' : f.to = Virtual})
  /\ revoked' = revoked \cup Ended

-----------------------------------------------------------------------------
(* HTTP requests.                                                          *)

\* A user of the lock or composite id, as long as nobody asked to end it.
Uses(id) == /\ caller[Request(IF id \in Uuids THEN "lock" ELSE "acquire", id)] = "yes"
            /\ caller[Request(IF id \in Uuids THEN "unlock" ELSE "release", id)] = "absent"

\* The headers of a request arrive, and its body is awaited.  A lock is only
\* given back by who was told of its grant.
Arrives(r) ==
  /\ Idle /\ ticks = <<>>
  /\ server = "listening" /\ caller[r] = "absent"
  /\ r.op \in {"unlock", "release"} => Uses(r.id)
  /\ caller' = [caller EXCEPT ![r] = "sending"]
  /\ BrokerRests
  /\ UNCHANGED <<ticks, server, revoked>>

\* dispatch(), once the body is complete, which may be after stop().
Dispatched(r) ==
  /\ ticks = <<>> /\ caller[r] = "sending"
  /\ caller' = [caller EXCEPT ![r] = "waiting"]
  /\ UNCHANGED server

HandleLock(u) ==
  /\ Dispatched(Request("lock", u))
  /\ \/ LockRefused(u, Virtual) \/ LockOnNewKey(u, Virtual) \/ LockOnNewKeyFails(u, Virtual)
     \/ LockOnFreeKey(u, Virtual) \/ LockOnFullKey(u, Virtual, FALSE)
  /\ Sends

\* The lockUuid in the body is that of the grant the caller was told of.
HandleUnlock(u) ==
  LET k == Req[u].key
  IN  /\ Dispatched(Request("unlock", u))
      /\ \/ UnlockUnknownKey(k, u, Virtual) \/ UnlockHolder(k, u, Virtual)
         \/ UnlockLate(k, u, Virtual)
         \/ \E force \in BOOLEAN : UnlockRejected(k, u, Virtual, force)
      /\ Sends

\* An unlock without a lockUuid, with or without force.
HandleForce(k) ==
  /\ Dispatched(Request("force", None))
  /\ \/ UnlockUnknownKey(k, None, Virtual) \/ UnlockEveryone(k, Virtual)
     \/ UnlockRejected(k, None, Virtual, FALSE)
  /\ Sends

HandleAcquireMany(m) ==
  /\ Dispatched(Request("acquire", m)) /\ AcquireMany(m) /\ Sends

HandleReleaseMany(m) ==
  /\ Dispatched(Request("release", m)) /\ ReleaseMany(m, Virtual) /\ Sends

-----------------------------------------------------------------------------
(* Answers.                                                                *)

\* The request a frame belongs to.
RequestOf(f) ==
  Request(CASE f.kind \in {"unlocked", "not-unlocked"}  -> IF f.id = None THEN "force" ELSE "unlock"
            [] f.kind \in {"released", "not-released"}  -> "release"
            [] OTHER -> IF f.id \in Uuids THEN "lock" ELSE "acquire",
          f.id)

\* Fault: whatever settles a lock request is taken for a grant.
Body_Hopeful(f) == "yes"

\* acquired, released: true or false in the response's body.
Body(f) == IF f.kind \in {"acquired", "unlocked", "released"} THEN "yes" ELSE "no"

\* The response reaches its caller, unless that has hung up meanwhile.
Responds(r, answer) ==
  \E heard \in {answer, "gone"} : caller' = [caller EXCEPT ![r] = heard]

Destroyed == Virtual \notin writable

\* onBrokerFrame(), at the tick of the frame: nothing if the socket is
\* destroyed by then, or the request is settled.
OnBrokerFrame ==
  /\ Idle /\ ticks # <<>>
  /\ LET f == Head(ticks)   r == RequestOf(f)
     IN  /\ ticks' = Tail(ticks)
         /\ IF ~Destroyed /\ caller[r] = "waiting" THEN Responds(r, Body(f))
                                                  ELSE UNCHANGED caller
  /\ BrokerRests
  /\ UNCHANGED <<server, revoked>>

\* Fault: the timer is set when the request is dispatched.
RequestTimesOut_Waiting(r) ==
  /\ Idle /\ ticks = <<>>
  /\ caller[r] = "waiting"
  /\ caller' = [caller EXCEPT ![r] = "gone"]
  /\ BrokerRests
  /\ UNCHANGED <<ticks, server, revoked>>

\* A request that is open too long is answered 408 and destroyed; a caller may
\* also hang up before its body is complete.
RequestTimesOut(r) ==
  /\ Idle /\ ticks = <<>>
  /\ Open(r)
  /\ caller' = [caller EXCEPT ![r] = "gone"]
  /\ BrokerRests
  /\ UNCHANGED <<ticks, server, revoked>>

-----------------------------------------------------------------------------
(* Stopping.                                                               *)

\* stop(): the listener is closed, and the open requests are waited for.
Stop ==
  /\ Idle /\ server = "listening"
  /\ server' = "closing"
  /\ BrokerRests
  /\ UNCHANGED <<caller, ticks, revoked>>

\* Fault: the virtual socket is destroyed, and the broker not told.
Shutdown_Abruptly ==
  /\ Idle /\ server = "closing" /\ \A r \in Requests : ~Open(r)
  /\ server' = "stopped"
  /\ writable' = writable \ {Virtual} /\ lmxClosed' = lmxClosed \cup {Virtual}
  /\ Silent
  /\ UNCHANGED <<locks, tables, authority, stack, lastToken, caller, ticks, revoked>>

\* shutdown(), when the listener has closed: no request is open then.
Shutdown ==
  /\ server = "closing" /\ \A r \in Requests : ~Open(r)
  /\ server' = "stopped"
  /\ SocketEnds(Virtual)
  /\ Sends
  /\ UNCHANGED caller

-----------------------------------------------------------------------------
(* Everybody else.                                                         *)

Peer ==
  /\ \E s \in Sockets \ {Virtual}, k \in Keys : LockReceived(k, s) \/ UnlockEveryone(k, s)
  /\ Sends
  /\ UNCHANGED <<caller, server>>

BrokerTimer ==
  /\ ticks = <<>>
  /\ TickTtl \/ Reelections
  /\ Sends
  /\ UNCHANGED <<caller, server>>

BrokerRuns == Internal /\ Sends /\ UNCHANGED <<caller, server>>

BridgeInit ==
  /\ Init
  /\ caller = [r \in Requests |-> "absent"]
  /\ ticks = <<>>
  /\ server = "listening"
  /\ revoked = {}

Handle == \/ \E u \in Uuids : HandleLock(u) \/ HandleUnlock(u)
          \/ \E k \in Keys : HandleForce(k)
          \/ \E m \in ManyIds : HandleAcquireMany(m) \/ HandleReleaseMany(m)

Incoming(r) == Arrives(r) \/ RequestTimesOut(r)

BridgeNext == \/ Handle \/ OnBrokerFrame \/ Stop \/ Shutdown
              \/ Peer \/ BrokerTimer \/ BrokerRuns
              \/ \E r \in Requests : Incoming(r)

\* Handlers run to their end and ticks are delivered; the sweep and the timers
\* of requests come round, and a stop that may go on does, although each has
\* to find the event loop free.
BridgeFairness ==
  /\ WF_bridgeVars(BrokerRuns) /\ WF_bridgeVars(OnBrokerFrame)
  /\ SF_bridgeVars(\E r \in Requests : RequestTimesOut(r))
  /\ SF_bridgeVars(BrokerTimer /\ TickTtl)
  /\ SF_bridgeVars(Shutdown)

BridgeSpec == BridgeInit /\ [][BridgeNext]_bridgeVars /\ BridgeFairness

-----------------------------------------------------------------------------
KeysOf(h) == IF h \in Uuids THEN {Req[h].key}
             ELSE {ManyReq[h].keys[i] : i \in 1..Len(ManyReq[h].keys)}

(* The callers of one virtual socket are kept apart: two of them are told   *)
(* that they own a mutex only if one of them has lost its hold in between,  *)
(* to its ttl, the re-election timer or somebody's force.                   *)
ExclusiveCallers ==
  \A g, h \in Holders : Uses(g) /\ Uses(h) /\ g # h /\ KeysOf(g) \cap KeysOf(h) # {}
                          => {g, h} \cap revoked # {}

(* What in-process-bridge.ts promises of shutdown(): no hold of an HTTP     *)
(* caller survives it, and no call of theirs is left in a queue.  (A        *)
(* composite that was waiting may still be granted by the clean-up itself,  *)
(* or be left in a queue: closing a socket does not withdraw those.)        *)
StopReleases ==
  Idle /\ server = "stopped" =>
    \A k \in Keys : Present(k) =>
      /\ \A h \in Holders :
           Held(k, h) => h \in ManyIds /\ caller[Request("acquire", h)] # "yes"
      /\ \A i \in 1..Len(locks[k].notify) : locks[k].notify[i].id \in ManyIds

(* A stop comes to its end, although it waits for the callers: for those    *)
(* that wait in a queue of the broker, and those that never complete their  *)
(* request.                                                                 *)
StopReturns == server = "closing" ~> server = "stopped"

\* A hold whose caller was told that the lock was not acquired, or never heard.
Abandoned == \E k \in Keys, h \in Holders :
               Held(k, h) /\ caller[Request(IF h \in Uuids THEN "lock" ELSE "acquire", h)] # "waiting"
                          /\ ~Uses(h)

=============================================================================
