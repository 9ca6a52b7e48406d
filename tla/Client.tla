------------------------------- MODULE Client -------------------------------
(***************************************************************************)
(* The client library (Client of client.ts): its pending calls, timers,    *)
(* retries and connections.  A client is one JavaScript event loop too, so *)
(* a call of the user, a frame, a timer and a socket event are one step    *)
(* each.                                                                   *)
(*                                                                         *)
(* A lock() call of a user is its uuid, and belongs to one client          *)
(* (Owner).  A call that was granted may be unlocked once, with the bound  *)
(* function the grant hands out; the request it sends, which has a uuid of *)
(* its own in the code, is identified by that of the lock call.            *)
(*                                                                         *)
(* A client dials its sockets in the order of Dial.  Bytes written to a    *)
(* socket arrive in order or, when the connection is lost, not at all.     *)
(*                                                                         *)
(* The code's table `timeouts` is no variable: each entry is deleted by    *)
(* cleanUp in the callback that made it, so no later step finds one.       *)
(***************************************************************************)
EXTENDS LockObject

CONSTANTS
  Clients,
  Owner,       \* the client of each plain lock call
  Dial,        \* the sockets a client gets, in the order it connects
  MaxRetries,  \* __maxRetries of each call
  TryOnly      \* calls with { wait: false }

ASSUME ClientAssumption ==
  /\ Owner \in [Uuids -> Clients]
  /\ Dial \in [Clients -> Seq(Sockets)]
  /\ MaxRetries \in [Uuids -> Nat]
  /\ TryOnly \subseteq Uuids

VARIABLES
  status,         \* what the user of each call knows
  answers,        \* history: how often the user's callback was called
  userToken,      \* the token of the grant the user was handed
  locking,        \* resolutions of lock requests
  unlocking,      \* resolutions of unlock requests
  lockTimers,     \* timers of lock requests
  unlockTimers,   \* timers of unlock requests
  giveups,        \* giveups
  retries,        \* __retryCount of each call
  dialled,        \* how many sockets each client has connected
  live,           \* sockets the client can write to
  listening,      \* sockets whose frames the client reads
  isOpen,         \* clients with isOpen
  noRecover,      \* clients with noRecover
  cannotContinue, \* clients with cannotContinue
  toBroker,       \* frames in transit on each socket
  toClient

calls      == <<status, answers, userToken>>
tablesOfClient == <<locking, unlocking, lockTimers, unlockTimers, giveups, retries>>
links      == <<dialled, live, listening, isOpen, noRecover, cannotContinue>>
transit    == <<toBroker, toClient>>
clientVars == <<calls, tablesOfClient, links, transit>>

Status == {"idle", "pending", "held", "unlocking", "unlocked", "failed"}

\* retry: retryCount > 0.
ClientFrame == [kind : {"version", "lock", "received", "rejected", "give-up", "unlock",
                        "confirmed"},
                id : Uuids \cup {None}, retry : BOOLEAN]
ToBroker(kind, id) == [kind |-> kind, id |-> id, retry |-> FALSE]

CallsOf(c) == {u \in Uuids : Owner[u] = c}
Connected(c) == dialled[c] > 0
Socket(c) == Dial[c][dialled[c]]
Alive(c) == Connected(c) /\ Socket(c) \in live

-----------------------------------------------------------------------------
(* Writing.                                                                *)

\* ensure(): a new socket.  The version frame it starts with changes nothing
\* at a broker of the same version.
Connect(c, frames) ==
  LET next == Dial[c][dialled[c] + 1]
  IN  /\ dialled[c] < Len(Dial[c])
      /\ dialled' = [dialled EXCEPT ![c] = @ + 1]
      /\ live' = live \cup {next}
      /\ listening' = {s \in listening : ~(Connected(c) /\ s = Socket(c))} \cup {next}
      /\ isOpen' = isOpen \cup {c}
      /\ toBroker' = [toBroker EXCEPT ![next] = frames]

\* write(): to a dead socket it connects first.  No error reaches the requests
\* that were in flight there: the dead socket's listeners are gone.
Write(c, frame) ==
  IF Alive(c)
  THEN /\ toBroker' = [toBroker EXCEPT ![Socket(c)] = Append(@, frame)]
       /\ UNCHANGED <<dialled, live, listening, isOpen>>
  ELSE Connect(c, <<frame>>)

Quiet == UNCHANGED <<dialled, live, listening, isOpen, toBroker>>

-----------------------------------------------------------------------------
(* Settling a call.                                                        *)

Called(us) == answers' = [u \in Uuids |-> IF u \in us THEN answers[u] + 1 ELSE answers[u]]

Told(us, s) == status' = [u \in Uuids |-> IF u \in us THEN s ELSE status[u]]

\* Fault: the timer is left armed.
CleanUp_KeepsTimer(us) ==
  /\ locking' = locking \ us
  /\ UNCHANGED lockTimers

\* cleanUp(uuid), of lock requests.
CleanUp(us) ==
  /\ locking' = locking \ us
  /\ lockTimers' = lockTimers \ us

\* fireLockCallbackWithError
FailLock(u) ==
  /\ CleanUp({u}) /\ Told({u}, "failed") /\ Called({u})
  /\ UNCHANGED <<userToken, unlocking, unlockTimers>>

\* Every pending callback of c is told of an error.
FailAll(c) ==
  LET ls == locking \cap CallsOf(c)
      us == unlocking \cap CallsOf(c)
  IN  /\ locking' = locking \ ls
      /\ unlocking' = unlocking \ us
      /\ lockTimers' = lockTimers \ CallsOf(c)
      /\ unlockTimers' = unlockTimers \ CallsOf(c)
      /\ Told(ls \cup us, "failed")
      /\ Called(ls)
      /\ UNCHANGED <<userToken, retries>>

-----------------------------------------------------------------------------
(* Calls of the user.                                                      *)

\* The guards at the head of lockInternal, for the attempt numbered n.
Refuses(u, n) ==
  \/ Owner[u] \notin isOpen
  \/ Owner[u] \in cannotContinue
  \/ n >= MaxRetries[u]

\* lockInternal past its guards: a new timer, a new resolution, a request.
Attempt(u, n) ==
  /\ locking' = locking \cup {u}
  /\ lockTimers' = lockTimers \cup {u}
  /\ Write(Owner[u], [kind |-> "lock", id |-> u, retry |-> n > 0])

\* ensure() by the user, before anything else or after a connection ended.
Ensure(c) ==
  /\ ~Alive(c)
  /\ Connect(c, <<>>)
  /\ UNCHANGED <<calls, tablesOfClient, noRecover, cannotContinue, toClient>>

\* The frame of an outdated client.  Bound: sent once, and only while there is
\* another socket to dial.
SimulateVersionMismatch(c) ==
  /\ Alive(c) /\ c \notin cannotContinue /\ dialled[c] < Len(Dial[c])
  /\ ToBroker("version", None) \notin {toBroker[Socket(c)][i] : i \in 1..Len(toBroker[Socket(c)])}
  /\ Write(c, ToBroker("version", None))
  /\ UNCHANGED <<calls, tablesOfClient, noRecover, cannotContinue, toClient>>

Lock(u) ==
  /\ status[u] = "idle"
  /\ IF Refuses(u, 0)
     THEN FailLock(u) /\ Quiet
     ELSE /\ Told({u}, "pending") /\ Attempt(u, 0)
          /\ UNCHANGED <<answers, userToken, unlocking, unlockTimers>>
  /\ UNCHANGED <<giveups, retries, noRecover, cannotContinue, toClient>>

Unlock(u) ==
  /\ status[u] = "held"
  /\ Told({u}, "unlocking")
  /\ unlocking' = unlocking \cup {u}
  /\ unlockTimers' = unlockTimers \cup {u}
  /\ Write(Owner[u], ToBroker("unlock", u))
  /\ UNCHANGED <<answers, userToken, locking, lockTimers, giveups, retries,
                 noRecover, cannotContinue, toClient>>

-----------------------------------------------------------------------------
(* Timers.                                                                 *)

\* The lock request timer: try again under the same uuid, or give up and
\* withdraw the request.
LockTimesOut(u) ==
  /\ u \in lockTimers
  /\ retries' = [retries EXCEPT ![u] = @ + 1]
  /\ IF Owner[u] \notin isOpen \/ retries[u] + 1 >= MaxRetries[u]
     THEN /\ Write(Owner[u], ToBroker("give-up", u))
          /\ FailLock(u)
     ELSE /\ Attempt(u, retries[u] + 1)
          /\ UNCHANGED <<status, answers, userToken, unlocking, unlockTimers>>
  /\ UNCHANGED <<giveups, noRecover, cannotContinue, toClient>>

EndUnlock(u, s) ==
  /\ unlocking' = unlocking \ {u}
  /\ unlockTimers' = unlockTimers \ {u}
  /\ Told({u}, s)
  /\ UNCHANGED <<answers, userToken, locking, lockTimers, retries>>

UnlockTimesOut(u) ==
  /\ u \in unlockTimers
  /\ EndUnlock(u, "failed")
  /\ Quiet
  /\ UNCHANGED <<giveups, noRecover, cannotContinue, toClient>>

-----------------------------------------------------------------------------
(* onData.                                                                 *)

\* Frame f is next on the client's current socket.  Frames of a socket that
\* was replaced are not read any more.
Reads(c, f) ==
  /\ Connected(c) /\ toClient[Socket(c)] # <<>>
  /\ f = Head(toClient[Socket(c)])
  /\ toClient' = [toClient EXCEPT ![Socket(c)] = Tail(@)]

\* The user already has been told that the request failed.
FrameGivenUp(c, f) ==
  /\ Reads(c, f) /\ f.id \in giveups
  /\ giveups' = giveups \ {f.id}
  /\ CleanUp({f.id})
  /\ Quiet
  /\ UNCHANGED <<calls, unlocking, unlockTimers, retries, noRecover, cannotContinue>>

ForLock(f)   == f.kind \in {"acquired", "waiting", "refused", "reelection"}
ForUnlock(f) == f.kind \in {"unlocked", "not-unlocked"}

\* No resolution: a grant is returned to the broker, anything else dropped.
FrameUnexpected(c, f) ==
  /\ Reads(c, f) /\ f.id \notin giveups
  /\ \/ ForLock(f) /\ f.id \notin locking
     \/ ForUnlock(f) /\ f.id \notin unlocking
  /\ IF f.kind = "acquired" THEN Write(c, ToBroker("rejected", f.id)) ELSE Quiet
  /\ UNCHANGED <<calls, tablesOfClient, noRecover, cannotContinue>>

Expected(c, f) == /\ Reads(c, f) /\ f.id \notin giveups
                  /\ UNCHANGED <<noRecover, cannotContinue>>

\* The hardened client hands out no grant without an exact fencing token: the
\* user is told of an error, and the hold is left to its ttl.
FencingToken(t) == t \in 1..MaxToken
HandedOut(f) == IF FencingToken(f.token) THEN "held" ELSE "failed"

Acquired(c, f) ==
  /\ Expected(c, f) /\ f.kind = "acquired" /\ f.id \in locking
  /\ CleanUp({f.id}) /\ Told({f.id}, HandedOut(f)) /\ Called({f.id})
  /\ userToken' = [userToken EXCEPT ![f.id] = f.token]
  /\ Write(c, ToBroker("received", f.id))
  /\ UNCHANGED <<unlocking, unlockTimers, giveups, retries>>

Waiting(c, f) ==
  /\ Expected(c, f) /\ f.kind = "waiting" /\ f.id \in locking
  /\ IF f.id \in TryOnly
     THEN /\ giveups' = giveups \cup {f.id}
          /\ FailLock(f.id)
     ELSE UNCHANGED <<giveups, locking, lockTimers, unlocking, unlockTimers,
                      status, answers, userToken>>
  /\ Quiet
  /\ UNCHANGED <<retries>>

RequestRefused(c, f) ==
  /\ Expected(c, f) /\ f.kind = "refused" /\ f.id \in locking
  /\ FailLock(f.id) /\ Quiet
  /\ UNCHANGED <<giveups, retries>>

\* Told to ask again: the same attempt, with a new timer.
AskAgain(c, f) ==
  /\ Expected(c, f) /\ f.kind = "reelection" /\ f.id \in locking
  /\ IF Refuses(f.id, retries[f.id])
     THEN FailLock(f.id) /\ Quiet
     ELSE /\ Attempt(f.id, retries[f.id])
          /\ UNCHANGED <<status, answers, userToken, unlocking, unlockTimers>>
  /\ UNCHANGED <<giveups, retries>>

Unlocked(c, f) ==
  /\ Expected(c, f) /\ ForUnlock(f) /\ f.id \in unlocking
  /\ EndUnlock(f.id, IF f.kind = "unlocked" THEN "unlocked" ELSE "failed")
  /\ Quiet
  /\ UNCHANGED giveups

VersionRefused(c, f) ==
  /\ Reads(c, f) /\ f.kind = "version-mismatch"
  /\ cannotContinue' = cannotContinue \cup {c}
  /\ FailAll(c)
  /\ Write(c, ToBroker("confirmed", None))
  /\ UNCHANGED <<giveups, noRecover>>

-----------------------------------------------------------------------------
(* Connections.                                                            *)

\* 'close', 'end' or 'error' of the current socket: the calls in flight are
\* told, and the client connects anew.
Recover(c) ==
  /\ Connected(c) /\ ~Alive(c) /\ c \notin noRecover
  /\ giveups' = giveups \cup ((locking \cup unlocking) \cap CallsOf(c))
  /\ FailAll(c)
  /\ Connect(c, <<>>)
  /\ UNCHANGED <<noRecover, cannotContinue, toClient>>

\* ws.end(): what the client wrote still reaches the broker, and it still reads.
\* Bound: it has another socket to dial.
EndCurrentConnection(c) ==
  /\ Alive(c) /\ dialled[c] < Len(Dial[c])
  /\ FailAll(c)
  /\ isOpen' = isOpen \ {c}
  /\ live' = live \ {Socket(c)}
  /\ UNCHANGED <<giveups, dialled, listening, noRecover, cannotContinue, transit>>

\* close(): the listeners go and the socket is destroyed.  The tables are
\* emptied, but isOpen stays: a later lock() connects again.  Bound as above.
Close(c) ==
  /\ Alive(c) /\ dialled[c] < Len(Dial[c])
  /\ FailAll(c)
  /\ giveups' = giveups \ CallsOf(c)
  /\ noRecover' = noRecover \cup {c}
  /\ live' = live \ {Socket(c)}
  /\ listening' = listening \ {Socket(c)}
  /\ toClient' = [toClient EXCEPT ![Socket(c)] = <<>>]
  /\ UNCHANGED <<dialled, isOpen, cannotContinue, toBroker>>

\* The network loses the connection and what is in transit on it.  Bound: only
\* while the client has another socket to dial.
Lost(ss) ==
  /\ \A c \in Clients : Alive(c) /\ Socket(c) \in ss => dialled[c] < Len(Dial[c])
  /\ live' = live \ ss
  /\ listening' = listening \ ss
  /\ toBroker' = [s \in Sockets |-> IF s \in ss THEN <<>> ELSE toBroker[s]]
  /\ toClient' = [s \in Sockets |-> IF s \in ss THEN <<>> ELSE toClient[s]]
  /\ UNCHANGED <<calls, tablesOfClient, dialled, isOpen, noRecover, cannotContinue>>

-----------------------------------------------------------------------------
ClientInit ==
  /\ status = [u \in Uuids |-> "idle"]
  /\ answers = [u \in Uuids |-> 0]
  /\ userToken = [u \in Uuids |-> 0]
  /\ locking = {} /\ unlocking = {}
  /\ lockTimers = {} /\ unlockTimers = {}
  /\ giveups = {}
  /\ retries = [u \in Uuids |-> 0]
  /\ dialled = [c \in Clients |-> 0]
  /\ live = {} /\ listening = {}
  /\ isOpen = {} /\ noRecover = {} /\ cannotContinue = {}
  /\ toBroker = [s \in Sockets |-> <<>>]
  /\ toClient = [s \in Sockets |-> <<>>]

UserStep    == \/ \E u \in Uuids : Lock(u) \/ Unlock(u)
               \/ \E c \in Clients : \/ Ensure(c) \/ EndCurrentConnection(c) \/ Close(c)
                                        \/ SimulateVersionMismatch(c)
ClientTimer == \E u \in Uuids : LockTimesOut(u) \/ UnlockTimesOut(u)

Receives(c, f) ==
  \/ FrameGivenUp(c, f) \/ FrameUnexpected(c, f)
  \/ Acquired(c, f) \/ Waiting(c, f) \/ RequestRefused(c, f) \/ AskAgain(c, f)
  \/ Unlocked(c, f) \/ VersionRefused(c, f)

OnData == \E c \in Clients :
            /\ Connected(c) /\ toClient[Socket(c)] # <<>>
            /\ Receives(c, Head(toClient[Socket(c)]))

ClientNext == UserStep \/ ClientTimer \/ OnData \/ \E c \in Clients : Recover(c)
=============================================================================
