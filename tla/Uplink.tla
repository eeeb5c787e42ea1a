------------------------------- MODULE Uplink -------------------------------
(***************************************************************************)
(* app/socketServer.js over the queue of ItemStore: the connection to the  *)
(* Watchlog server, the suspension of the account, the routing of a fresh  *)
(* payload, and the flush loop that drains the queue in acknowledged       *)
(* batches.                                                                *)
(*                                                                         *)
(* The collectors, the network, the server and socket.io-client are the    *)
(* environment.  A run says with Disturbances which kinds of trouble they  *)
(* make.                                                                   *)
(***************************************************************************)
EXTENDS ItemStore

CONSTANTS
  BatchSize,     \* BATCH_SIZE
  FlushId,       \* bound: names for batches that are sent and not settled
  MaxOneShots,   \* bound: payloads waiting in 'connect' listeners
  Disturbances   \* a subset of DisturbanceKinds

DisturbanceKinds ==
  {"initFails",  \* systeminformation or the write to .env throws
   "refused",    \* the server rejects the handshake (connect_error)
   "drop",       \* the transport closes
   "kick",       \* the server closes the socket (io server disconnect)
   "suspend",    \* the server reports the account as suspended
   "crash",      \* the agent process dies and is started again
   "diskError"}  \* queue.json cannot be written or read

ASSUME UplinkAssumption ==
  /\ BatchSize \in Nat \ {0}
  /\ MaxOneShots \in Nat
  /\ Disturbances \subseteq DisturbanceKinds

VARIABLES
  sock,            \* "starting", "idle", "connecting" or "connected"
  isSuspended,
  suspendedTimer,  \* suspendedReconnectTimer is set
  flushTimer,      \* flushTimer is set
  flights,         \* the agent:queued_batch emits that may still call back
  oneShots,        \* number of once('connect') listeners holding a payload
  stored           \* the ids the server has stored

linkVars == <<sock, isSuspended, suspendedTimer, flushTimer, flights, oneShots>>
vars == <<storeVars, linkVars, stored>>

(* A batch that was emitted.  While waiting is TRUE its promise is pending     *)
(* and its 30 s timeout armed.  channel follows the packet: on its way to the  *)
(* server, its acknowledgement (for the ids in reply) on its way back, or      *)
(* neither because the connection it used is gone.                            *)
Flight ==
  [name : FlushId, batch : SUBSET (1 .. MaxSubmitted), waiting : BOOLEAN,
   channel : {"request", "reply", "lost"}, reply : SUBSET (1 .. MaxSubmitted)]

\* A flight with no timeout pending and no packet under way is over.
Live(fs) == {f \in fs : f.waiting \/ f.channel # "lost"}

Connected == sock = "connected"

\* emit on a socket whose connection closes: nothing will come back.
CutOff(fs) == Live({[f EXCEPT !.channel = "lost"] : f \in fs})

-----------------------------------------------------------------------------
(* Connection *)

\* initSocket reads the system information and calls connect().
InitSocket ==
  /\ sock = "starting"
  /\ \/ sock' = "connecting"
     \/ "initFails" \in Disturbances /\ sock' = "idle"
  /\ UNCHANGED <<storeVars, isSuspended, suspendedTimer, flushTimer, flights, oneShots, stored>>

\* The 'connect' handler, then the one-shot listeners registered after it:
\* the first clears isSuspended, so all of them emit.
OnConnect ==
  /\ sock = "connecting"
  /\ sock' = "connected"
  /\ isSuspended' = FALSE
  /\ suspendedTimer' = FALSE
  /\ flushTimer' = (flushTimer \/ queue # {})
  /\ oneShots' = 0
  /\ UNCHANGED <<storeVars, flights, stored>>

\* 'connect_error' after the server's middleware said no: the handler only
\* logs, and socket.io-client does not try again.
OnConnectRefused ==
  /\ "refused" \in Disturbances
  /\ sock = "connecting"
  /\ sock' = "idle"
  /\ UNCHANGED <<storeVars, isSuspended, suspendedTimer, flushTimer, flights, oneShots, stored>>

\* Mutation: no cancelFlush() in the handler.
DisconnectKeepsTimer(next) ==
  /\ Connected
  /\ sock' = next
  /\ flights' = CutOff(flights)
  /\ UNCHANGED <<storeVars, flushTimer, oneShots, stored>>

\* The 'disconnect' handler; next is what socket.io-client does by itself.
Disconnect(next) ==
  /\ Connected
  /\ sock' = next
  /\ flushTimer' = FALSE
  /\ flights' = CutOff(flights)
  /\ UNCHANGED <<storeVars, oneShots, stored>>

OnDisconnect ==
  /\ \/ "drop" \in Disturbances /\ Disconnect("connecting")
     \/ "kick" \in Disturbances /\ Disconnect("idle")
  /\ UNCHANGED <<isSuspended, suspendedTimer>>

\* disconnect() runs the 'disconnect' handler before the timer is set.
OnAccountSuspended ==
  /\ "suspend" \in Disturbances
  /\ isSuspended' = TRUE
  /\ Disconnect("idle")
  /\ suspendedTimer' = TRUE

OnAccountActive ==
  /\ Connected
  /\ isSuspended' = FALSE
  /\ UNCHANGED <<storeVars, sock, suspendedTimer, flushTimer, flights, oneShots, stored>>

\* Mutation: the retry clears its timer and does not connect.
SuspendedRetryIdle ==
  /\ suspendedTimer
  /\ suspendedTimer' = FALSE
  /\ UNCHANGED <<storeVars, sock, isSuspended, flushTimer, flights, oneShots, stored>>

\* The 15 minutes are over; connect() does nothing on an open socket.
SuspendedRetry ==
  /\ suspendedTimer
  /\ suspendedTimer' = FALSE
  /\ sock' = IF Connected THEN sock ELSE "connecting"
  /\ UNCHANGED <<storeVars, isSuspended, flushTimer, flights, oneShots, stored>>

-----------------------------------------------------------------------------
(* A fresh payload: emitWhenConnected.  While the account is suspended it    *)
(* returns at once and the payload is dropped.                               *)

\* On the wire without an acknowledgement: it arrives or it does not.
EmitDirect ==
  /\ ~isSuspended
  /\ Connected
  /\ Bypass
  /\ \/ stored' = stored \cup {lastId'}
     \/ UNCHANGED stored
  /\ UNCHANGED linkVars

EmitQueued ==
  /\ ~isSuspended
  /\ ~Connected
  /\ \E p \in Priority, s \in Size : Enqueue(p, s)
  /\ UNCHANGED <<linkVars, stored>>

\* An event that is not BUFFERABLE waits in a closure, in memory only.
EmitOneShot ==
  /\ ~isSuspended
  /\ ~Connected
  /\ oneShots < MaxOneShots
  /\ oneShots' = oneShots + 1
  /\ UNCHANGED <<storeVars, sock, isSuspended, suspendedTimer, flushTimer, flights, stored>>

-----------------------------------------------------------------------------
(* The flush loop *)

\* scheduleFlush() with its own guard; rest is the queue it is asked about.
ScheduledAfter(rest) == flushTimer \/ (rest # {} /\ Connected /\ ~isSuspended)

\* The timer fires and flushOnce runs up to its await.
FlushFires ==
  /\ flushTimer
  /\ flushTimer' = FALSE
  /\ IF queue = {} \/ isSuspended \/ ~Connected
     THEN UNCHANGED flights
     ELSE \E name \in FlushId \ {f.name : f \in flights} :
            flights' = flights \cup
              {[name |-> name, batch |-> Ids(PeekBatch(queue, BatchSize)),
                waiting |-> TRUE, channel |-> "request", reply |-> {}]}
  /\ UNCHANGED <<storeVars, sock, isSuspended, suspendedTimer, oneShots, stored>>

\* The server stores some of the batch and names what it stored.
ServerHandles(f, accepted) ==
  /\ f \in flights
  /\ f.channel = "request"
  /\ accepted \subseteq f.batch
  /\ stored' = stored \cup accepted
  /\ flights' = (flights \ {f}) \cup {[f EXCEPT !.channel = "reply", !.reply = accepted]}
  /\ UNCHANGED <<storeVars, sock, isSuspended, suspendedTimer, flushTimer, oneShots>>

\* Mutation: the callback removes what was sent, not what was acknowledged.
AckRemovesBatch(f) ==
  /\ f \in flights
  /\ f.channel = "reply"
  /\ Acknowledge(f.batch)
  /\ flights' = flights \ {f}
  /\ flushTimer' = IF f.waiting THEN ScheduledAfter(queue') ELSE flushTimer
  /\ UNCHANGED <<sock, isSuspended, suspendedTimer, oneShots, stored>>

\* Mutation: the callback itself continues the loop, also after the timeout.
AckAlwaysContinues(f) ==
  /\ f \in flights
  /\ f.channel = "reply"
  /\ Acknowledge(f.reply)
  /\ flights' = flights \ {f}
  /\ flushTimer' = ScheduledAfter(queue')
  /\ UNCHANGED <<sock, isSuspended, suspendedTimer, oneShots, stored>>

\* Mutation: an answer that acknowledges nothing does not resolve the promise
\* whose timeout it has cleared.
AckEmptyUnresolved(f) ==
  /\ f \in flights
  /\ f.channel = "reply"
  /\ Acknowledge(f.reply)
  /\ flights' = flights \ {f}
  /\ flushTimer' = IF f.waiting /\ f.reply # {} THEN ScheduledAfter(queue') ELSE flushTimer
  /\ UNCHANGED <<sock, isSuspended, suspendedTimer, oneShots, stored>>

\* The acknowledgement callback, in time or after the timeout; in time it
\* resolves the promise and the loop goes on.
AckArrives(f) ==
  /\ f \in flights
  /\ f.channel = "reply"
  /\ Acknowledge(f.reply)
  /\ flights' = flights \ {f}
  /\ flushTimer' = IF f.waiting THEN ScheduledAfter(queue') ELSE flushTimer
  /\ UNCHANGED <<sock, isSuspended, suspendedTimer, oneShots, stored>>

\* Mutation: the timeout marks the batch as failed and does not resolve.
TimeoutUnresolved(f) ==
  /\ f \in flights
  /\ f.waiting
  /\ flights' = Live((flights \ {f}) \cup {[f EXCEPT !.waiting = FALSE]})
  /\ UNCHANGED <<storeVars, sock, isSuspended, suspendedTimer, flushTimer, oneShots, stored>>

\* The 30 s are over: markFailed changes nothing the loop reads, the promise
\* resolves and the loop goes on.
FlushTimeout(f) ==
  /\ f \in flights
  /\ f.waiting
  /\ flights' = Live((flights \ {f}) \cup {[f EXCEPT !.waiting = FALSE]})
  /\ flushTimer' = ScheduledAfter(queue)
  /\ UNCHANGED <<storeVars, sock, isSuspended, suspendedTimer, oneShots, stored>>

-----------------------------------------------------------------------------
(* The queue's own timer, and the process *)

PersistFires ==
  /\ PersistNow \/ ("diskError" \in Disturbances /\ PersistFails)
  /\ UNCHANGED <<linkVars, stored>>

\* Everything in memory is gone; the module loads its file and starts over.
CrashRestart ==
  /\ "crash" \in Disturbances
  /\ \/ \E expired \in 0 .. lastId : Restart(expired)
     \/ "diskError" \in Disturbances /\ RestartUnreadable
  /\ sock' = "starting"
  /\ isSuspended' = FALSE
  /\ suspendedTimer' = FALSE
  /\ flushTimer' = FALSE
  /\ flights' = {}
  /\ oneShots' = 0
  /\ UNCHANGED stored

Init ==
  /\ StoreInit
  /\ sock = "starting"
  /\ isSuspended = FALSE
  /\ suspendedTimer = FALSE
  /\ flushTimer = FALSE
  /\ flights = {}
  /\ oneShots = 0
  /\ stored = {}

Next ==
  \/ InitSocket
  \/ OnConnect
  \/ OnConnectRefused
  \/ OnDisconnect
  \/ OnAccountSuspended
  \/ OnAccountActive
  \/ SuspendedRetry
  \/ EmitDirect
  \/ EmitQueued
  \/ EmitOneShot
  \/ FlushFires
  \/ \E f \in flights : \E accepted \in SUBSET f.batch : ServerHandles(f, accepted)
  \/ \E f \in flights : AckArrives(f)
  \/ \E f \in flights : FlushTimeout(f)
  \/ PersistFires
  \/ CrashRestart

Spec == Init /\ [][Next]_vars

-----------------------------------------------------------------------------
(* Safety *)

\* Timers, batches and counters of the socket layer have the values that the code gives them.
TypeOK ==
  /\ StoreTypeOK
  /\ sock \in {"starting", "idle", "connecting", "connected"}
  /\ isSuspended \in BOOLEAN
  /\ suspendedTimer \in BOOLEAN
  /\ flushTimer \in BOOLEAN
  /\ flights \subseteq Flight
  /\ oneShots \in 0 .. MaxOneShots
  /\ stored \subseteq 1 .. MaxSubmitted

\* No lost wake-up: on an open connection a queue with items always has a
\* flush coming, either the timer or a batch whose promise is still pending,
\* whatever the order of acknowledgements, timeouts and reconnects.  (Items are
\* queued only while offline, so nothing else would ever start the loop again.)
FlushArmed ==
  Connected /\ queue # {} => flushTimer \/ \E f \in flights : f.waiting

\* Offline means quiet: the flush timer never outlives the connection, a
\* suspended account is never connected, and the retry after a suspension is
\* pending only while the agent is suspended and nothing else is connecting.
QuietWhenOffline ==
  /\ flushTimer => Connected
  /\ isSuspended => ~Connected
  /\ suspendedTimer => isSuspended /\ sock = "idle"

\* An acknowledgement names only what the server has stored, even when it
\* comes after the timeout and the batch has been sent again.
RepliesAreStored == \A f \in flights : f.reply \subseteq stored

\* The items that leave in this step are on the server, unless it evicts for a
\* younger payload or the process dies.
RemovesOnlyStored ==
  \A i \in queue : i \notin queue' => \/ i.id \in stored
                                      \/ EmitQueued
                                      \/ CrashRestart

\* At least once: apart from evictions and crashes, an item leaves the queue
\* only after the server has stored it, however acknowledgements, timeouts and
\* reconnects interleave.
RemovedOnlyWhenStored == [][RemovesOnlyStored]_vars

\* Flush loops: the pending timer and the pending promises.
Awaited(fs) == {f \in fs : f.waiting}

Loops == Cardinality(Awaited(flights)) + (IF flushTimer THEN 1 ELSE 0)

GrowsAtConnect == Loops' > Loops => ~Connected /\ Connected'

\* A new flush loop starts only with a new connection; timeouts, late answers
\* and answers to several batches at once never multiply the loops of one.
LoopsStartAtConnect == [][GrowsAtConnect]_vars

-----------------------------------------------------------------------------
(* Liveness *)

(* Timers fire and packets on an open connection arrive.  The network lets a   *)
(* connecting socket through now and then, and the server, given batches again *)
(* and again, stores some of them completely.                                  *)
Fairness ==
  /\ WF_vars(InitSocket)
  /\ SF_vars(OnConnect)
  /\ WF_vars(SuspendedRetry)
  /\ WF_vars(FlushFires)
  /\ WF_vars(\E f \in flights : FlushTimeout(f))
  /\ \A name \in FlushId :
       /\ WF_vars(\E f \in flights : f.name = name /\ AckArrives(f))
       /\ WF_vars(\E f \in flights : f.name = name
                    /\ \E accepted \in SUBSET f.batch : ServerHandles(f, accepted))
       /\ SF_vars(\E f \in flights : f.name = name /\ ServerHandles(f, f.batch))

LiveSpec == Spec /\ Fairness

\* Once the connection stays up, the backlog reaches the server: the loop does
\* not stop at a timeout, a partial answer or an answer that comes too late.
QueueDrains == <>[]Connected => <>[](queue = {})

\* The log line of the 'disconnect' handler: "will reconnect automatically";
\* and after a suspension the agent comes back by its own timer.
Reconnects == []<>Connected
=============================================================================
