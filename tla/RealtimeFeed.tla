----------------------------- MODULE RealtimeFeed -----------------------------
(***************************************************************************)
(* The live feed: websocket/manager.py and redis_pubsub.py in each API     *)
(* worker, the handler of routers/ws.py, and the WebSocketStore of one     *)
(* browser tab (frontend/lib/websocket.tsx), which lives as long as the    *)
(* page and is mounted and unmounted with the dashboard.                   *)
(*                                                                         *)
(* A broadcast is published to Redis, whose subscription of every worker   *)
(* keeps the order, or, when that fails or without Redis, is sent to the   *)
(* sockets of the worker alone.  Pings and the lengths of the backoffs are *)
(* left out.                                                               *)
(***************************************************************************)
EXTENDS Integers, Sequences, SequencesExt, FiniteSets

CONSTANTS
  Workers,     \* API processes, each with its own ws_manager
  Messages,    \* numbered in the order in which they are sent
  Sockets,     \* sockets of the tab, in the order it opens them
  MaxAttempts, \* maxReconnectAttempts
  Loads,       \* what happens at most (bounds the model)
  None         \* no socket, no worker

ASSUME BoundsAssumption ==
  /\ Messages \subseteq Nat /\ Sockets \subseteq Nat /\ MaxAttempts \in Nat
  /\ Loads \subseteq [backend : {"redis", "memory"}, messages : SUBSET Messages,
                      sockets : SUBSET Sockets, mounts : Nat, faults : Nat]
  /\ None \notin Nat /\ None \notin Workers /\ Workers \cap Messages = {}

VARIABLES
  backend,    \* "redis" or "memory": WS_PUBSUB_BACKEND
  route,      \* how each message went out
  at,         \* the worker that waits for Redis to answer
  log,        \* what Redis has published, in order
  subscribed, \* workers whose listener is subscribed
  channel,    \* what each listener has still to read
  active,     \* ws_manager.active of all workers; a socket has one worker
  casts,      \* calls of _broadcast_local that run
  worker,     \* the worker each socket is connected to
  server,     \* websocket_endpoint of each socket
  client,     \* readyState of each socket in the browser
  got,        \* messages each socket has received
  mounted,    \* the dashboard is on the page
  connected,  \* what the banner shows
  fetching,   \* tokenFetchInFlight
  ws,         \* the socket of the store
  timer,      \* reconnectTimer: "off", "armed", or "stale": cleared, not reset
  attempts,   \* reconnectAttempts
  unused,     \* sockets not yet opened
  mounts,     \* times the dashboard may still be entered
  faults      \* lost answers, slow clients, breaks and restarts to come

hubVars == <<backend, route, at, log, subscribed, channel, casts>>
socketVars == <<active, worker, server, client, got>>
storeVars == <<mounted, connected, fetching, ws, timer, attempts, unused, mounts>>
vars == <<hubVars, socketVars, storeVars, faults>>

Cast == [by : Workers \cup Messages, on : Workers, msg : Messages,
         left : SUBSET Sockets, dead : SUBSET Sockets]

TypeOK ==
  /\ backend \in {"redis", "memory"}
  /\ route \in [Messages -> {"none", "new", "taken", "channel", "local", "both"}]
  /\ at \in [Messages -> Workers \cup {None}]
  /\ log \in Seq(Messages) /\ IsInjective(log)
  /\ subscribed \subseteq Workers
  /\ \A w \in Workers : ToSet(channel[w]) \subseteq ToSet(log)
  /\ active \subseteq Sockets
  /\ casts \subseteq Cast
  /\ worker \in [Sockets -> Workers \cup {None}]
  /\ server \in [Sockets -> {"none", "handshake", "receiving", "gone"}]
  /\ client \in [Sockets -> {"none", "connecting", "open", "closing", "closed"}]
  /\ \A s \in Sockets : got[s] \in Seq(Messages)
  /\ mounted \in BOOLEAN /\ connected \in BOOLEAN /\ fetching \in BOOLEAN
  /\ ws \in Sockets \cup {None}
  /\ timer \in {"off", "armed", "stale"}
  /\ attempts \in 0..MaxAttempts /\ unused \subseteq Sockets
  /\ mounts \in Nat /\ faults \in Nat

Init ==
  /\ \E l \in Loads :
       /\ backend = l.backend
       /\ route = [m \in Messages |-> IF m \in l.messages THEN "new" ELSE "none"]
       /\ unused = l.sockets /\ mounts = l.mounts /\ faults = l.faults
  /\ at = [m \in Messages |-> None]
  /\ log = <<>>
  /\ subscribed = {} /\ channel = [w \in Workers |-> <<>>]
  /\ active = {} /\ casts = {}
  /\ worker = [s \in Sockets |-> None]
  /\ server = [s \in Sockets |-> "none"] /\ client = [s \in Sockets |-> "none"]
  /\ got = [s \in Sockets |-> <<>>]
  /\ mounted = FALSE /\ connected = FALSE /\ fetching = FALSE /\ ws = None
  /\ timer = "off" /\ attempts = 0

Fault == faults > 0 /\ faults' = faults - 1

-----------------------------------------------------------------------------
(* The hub: broadcast, the listener, the sends.                            *)

(* _broadcast_local of m on w by a request or by the listener: it sends to *)
(* a copy of active, all at once.                                          *)
NewCast(by, w, m) ==
  [by |-> by, on |-> w, msg |-> m, left |-> {s \in active : worker[s] = w}, dead |-> {}]

IsNext(m) == route[m] = "new" /\ \A n \in Messages : n < m => route[n] # "new"

(* Redis hands the message to every listener that is subscribed.           *)
Publish(m, w) ==
  /\ IsNext(m) /\ backend = "redis"
  /\ route' = [route EXCEPT ![m] = "taken"]
  /\ at' = [at EXCEPT ![m] = w]
  /\ log' = Append(log, m)
  /\ channel' = [v \in Workers |-> IF v \in subscribed THEN Append(channel[v], m) ELSE channel[v]]
  /\ UNCHANGED <<backend, subscribed, casts, socketVars, storeVars, faults>>

Answered(m) ==
  /\ route[m] = "taken"
  /\ route' = [route EXCEPT ![m] = "channel"] /\ at' = [at EXCEPT ![m] = None]
  /\ UNCHANGED <<backend, log, subscribed, channel, casts, socketVars, storeVars, faults>>

(* No Redis, or it cannot be reached: the sockets of this worker only.     *)
BroadcastLocally(m, w) ==
  /\ IsNext(m)
  /\ IF backend = "memory" THEN UNCHANGED faults ELSE Fault
  /\ route' = [route EXCEPT ![m] = "local"]
  /\ casts' = casts \cup {NewCast(m, w, m)}
  /\ UNCHANGED <<backend, at, log, subscribed, channel, socketVars, storeVars>>

(* The answer of Redis is lost after it took the message: sent again.      *)
PublishFails(m) ==
  /\ route[m] = "taken" /\ Fault
  /\ route' = [route EXCEPT ![m] = "both"] /\ at' = [at EXCEPT ![m] = None]
  /\ casts' = casts \cup {NewCast(m, at[m], m)}
  /\ UNCHANGED <<backend, log, subscribed, channel, socketVars, storeVars>>

Subscribe(w) ==
  /\ backend = "redis" /\ w \notin subscribed
  /\ subscribed' = subscribed \cup {w}
  /\ UNCHANGED <<backend, route, at, log, channel, casts, socketVars, storeVars, faults>>

(* Mutant: the broadcast is a task of its own, not awaited.                *)
ListenWithoutWaiting(w) ==
  /\ channel[w] # <<>>
  /\ casts' = casts \cup {NewCast(w, w, Head(channel[w]))}
  /\ channel' = [channel EXCEPT ![w] = Tail(@)]
  /\ UNCHANGED <<backend, route, at, log, subscribed, socketVars, storeVars, faults>>

(* The listener reads on when the broadcast of the last message is over.   *)
Listen(w) ==
  /\ channel[w] # <<>> /\ \A c \in casts : c.by # w
  /\ casts' = casts \cup {NewCast(w, w, Head(channel[w]))}
  /\ channel' = [channel EXCEPT ![w] = Tail(@)]
  /\ UNCHANGED <<backend, route, at, log, subscribed, socketVars, storeVars, faults>>

(* The connection to Redis breaks, what was not read with it.              *)
ListenerFails(w) ==
  /\ w \in subscribed /\ (\A c \in casts : c.by # w) /\ Fault
  /\ subscribed' = subscribed \ {w}
  /\ channel' = [channel EXCEPT ![w] = <<>>]
  /\ UNCHANGED <<backend, route, at, log, casts, socketVars, storeVars>>

Replace(c, d) == casts' = (casts \ {c}) \cup {d}

Tried(c, s, failed) ==
  [c EXCEPT !.left = @ \ {s}, !.dead = IF failed THEN @ \cup {s} ELSE @]

Receive(s, m) == got' = [got EXCEPT ![s] = Append(@, m)]

(* An open socket gets it; into a broken one that nobody has noticed it is *)
(* written in vain.                                                        *)
Send(c, s) ==
  /\ s \in c.left /\ server[s] = "receiving"
  /\ Replace(c, Tried(c, s, FALSE))
  /\ IF client[s] = "open" THEN Receive(s, c.msg) ELSE UNCHANGED got
  /\ UNCHANGED <<backend, route, at, log, subscribed, channel, active, worker, server, client,
                 storeVars, faults>>

(* After 5 seconds the send is given up; the bytes may get there later.    *)
SendTimesOut(c, s) ==
  /\ s \in c.left /\ server[s] = "receiving" /\ Fault
  /\ Replace(c, Tried(c, s, TRUE))
  /\ \/ UNCHANGED got
     \/ client[s] = "open" /\ Receive(s, c.msg)
  /\ UNCHANGED <<backend, route, at, log, subscribed, channel, active, worker, server, client,
                 storeVars>>

(* Mutant: the first failed send ends the broadcast.                       *)
SendFailsEndsCast(c, s) ==
  /\ s \in c.left /\ server[s] = "gone"
  /\ casts' = casts \ {c}
  /\ active' = active \ {s}
  /\ UNCHANGED <<backend, route, at, log, subscribed, channel, worker, server, client, got,
                 storeVars, faults>>

SendFails(c, s) ==
  /\ s \in c.left /\ server[s] = "gone"
  /\ Replace(c, Tried(c, s, TRUE))
  /\ UNCHANGED <<backend, route, at, log, subscribed, channel, socketVars, storeVars, faults>>

(* Sockets that failed are taken out of active, and not closed.            *)
EndCast(c) ==
  /\ c.left = {}
  /\ casts' = casts \ {c}
  /\ active' = active \ c.dead
  /\ UNCHANGED <<backend, route, at, log, subscribed, channel, worker, server, client, got,
                 storeVars, faults>>

-----------------------------------------------------------------------------
(* websocket_endpoint.                                                     *)

SetServer(s, state) == server' = [server EXCEPT ![s] = state]

Accept(s) ==
  /\ server[s] = "handshake"
  /\ SetServer(s, "receiving")
  /\ active' = active \cup {s}
  /\ UNCHANGED <<hubVars, worker, client, got, storeVars, faults>>

(* The ticket has expired, or nothing came within 10 seconds.              *)
Refuse(s) ==
  /\ server[s] = "handshake" /\ Fault
  /\ SetServer(s, "gone")
  /\ UNCHANGED <<hubVars, active, worker, client, got, storeVars>>

(* receive_text raises: the client has closed, or the connection broke and *)
(* the client does not know yet.                                           *)
Disconnect(s) ==
  /\ server[s] \in {"handshake", "receiving"}
  /\ IF client[s] = "open" THEN Fault ELSE UNCHANGED faults
  /\ SetServer(s, "gone")
  /\ active' = active \ {s}
  /\ UNCHANGED <<hubVars, worker, client, got, storeVars>>

(* stop() closes the sockets and cancels the listener; the process ends    *)
(* and is started again.                                                   *)
Restart(w) ==
  LET mine == {s \in Sockets : worker[s] = w /\ server[s] \in {"handshake", "receiving"}}
  IN  /\ Fault
      /\ server' = [s \in Sockets |-> IF s \in mine THEN "gone" ELSE server[s]]
      /\ active' = active \ mine
      /\ casts' = {c \in casts : c.on # w}
      /\ subscribed' = subscribed \ {w}
      /\ channel' = [channel EXCEPT ![w] = <<>>]
      /\ route' = [m \in Messages |-> IF at[m] = w THEN "channel" ELSE route[m]]
      /\ at' = [m \in Messages |-> IF at[m] = w THEN None ELSE at[m]]
      /\ UNCHANGED <<backend, log, worker, client, got, storeVars>>

-----------------------------------------------------------------------------
(* WebSocketStore.                                                         *)

SetClient(s, state) == client' = [client EXCEPT ![s] = state]

ScheduleReconnect ==
  IF timer # "off" \/ attempts >= MaxAttempts
  THEN UNCHANGED <<timer, attempts>>
  ELSE timer' = "armed" /\ attempts' = attempts + 1

Connected == ws # None /\ client[ws] \in {"connecting", "open"}

(* connect(), up to the request for a ticket.                              *)
Connect == fetching' = (fetching \/ ~Connected)

Mount ==
  /\ ~mounted /\ mounts > 0
  /\ mounted' = TRUE /\ mounts' = mounts - 1
  /\ Connect
  /\ UNCHANGED <<hubVars, socketVars, connected, ws, timer, attempts, unused, faults>>

(* The effect's cleanup: disconnect().  A ticket that is on its way still  *)
(* opens a socket, and a timer that is cleared still looks armed.          *)
Unmount ==
  /\ mounted
  /\ mounted' = FALSE /\ connected' = FALSE
  /\ timer' = IF timer = "armed" THEN "stale" ELSE timer
  /\ IF Connected THEN SetClient(ws, "closing") ELSE UNCHANGED client
  /\ ws' = None /\ attempts' = 0
  /\ UNCHANGED <<hubVars, active, worker, server, got, fetching, unused, mounts, faults>>

TimerFires ==
  /\ timer = "armed"
  /\ timer' = "off"
  /\ Connect
  /\ UNCHANGED <<hubVars, socketVars, mounted, connected, ws, attempts, unused, mounts, faults>>

(* The ticket is there, and a new socket with it.                          *)
Fetched(s, w) ==
  /\ fetching /\ s \in unused /\ \A r \in unused : s <= r
  /\ unused' = unused \ {s}
  /\ fetching' = FALSE
  /\ ws' = s
  /\ SetClient(s, "connecting")
  /\ worker' = [worker EXCEPT ![s] = w]
  /\ UNCHANGED <<hubVars, active, server, got, mounted, connected, timer, attempts, mounts, faults>>

(* Mutant: the promise has no catch that schedules the next attempt.       *)
FetchFailsForGood ==
  /\ fetching
  /\ fetching' = FALSE
  /\ UNCHANGED <<hubVars, socketVars, mounted, connected, ws, timer, attempts, unused, mounts, faults>>

FetchFails ==
  /\ fetching
  /\ fetching' = FALSE
  /\ ScheduleReconnect
  /\ UNCHANGED <<hubVars, socketVars, mounted, connected, ws, unused, mounts, faults>>

(* onopen: the ticket is sent.                                             *)
Opened(s) ==
  /\ client[s] = "connecting"
  /\ SetClient(s, "open") /\ SetServer(s, "handshake")
  /\ connected' = TRUE /\ attempts' = 0
  /\ UNCHANGED <<hubVars, active, worker, got, mounted, fetching, ws, timer, unused, mounts, faults>>

(* onclose of any socket, the store's own or one it has left.              *)
Closed(s) ==
  /\ \/ client[s] \in {"connecting", "open"} /\ Fault
     \/ client[s] = "closing" /\ UNCHANGED faults
     \/ client[s] = "open" /\ server[s] = "gone" /\ UNCHANGED faults
  /\ SetClient(s, "closed")
  /\ connected' = FALSE
  /\ ScheduleReconnect
  /\ UNCHANGED <<hubVars, active, worker, server, got, mounted, fetching, ws, unused, mounts>>

-----------------------------------------------------------------------------
Casting ==
  \E c \in casts, s \in Sockets :
    \/ Send(c, s) \/ SendTimesOut(c, s) \/ SendFails(c, s)
    \/ EndCast(c)

Listening == \E w \in Workers : Subscribe(w) \/ Listen(w)

Serving == \E s \in Sockets : Accept(s) \/ Refuse(s) \/ Disconnect(s)

Store ==
  \/ TimerFires \/ FetchFails
  \/ \E s \in Sockets : Opened(s) \/ Closed(s) \/ \E w \in Workers : Fetched(s, w)

Next ==
  \/ \E m \in Messages :
       \/ Answered(m) \/ PublishFails(m)
       \/ \E w \in Workers : Publish(m, w) \/ BroadcastLocally(m, w)
  \/ \E w \in Workers : ListenerFails(w) \/ Restart(w)
  \/ Casting \/ Listening \/ Serving \/ Store
  \/ Mount \/ Unmount

Spec == Init /\ [][Next]_vars

(* The event loop of a worker runs what is ready; every send has a timeout *)
(* of 5 seconds.  Nothing is asked of the clients.                         *)
FairSpec == Spec /\ WF_vars(Casting) /\ WF_vars(\E w \in Workers : Listen(w))

-----------------------------------------------------------------------------
(* Properties.                                                             *)

Position(m) == CHOOSE i \in DOMAIN log : log[i] = m

(* What a client gets by way of Redis alone comes in the order of Redis    *)
(* and never twice, over all the listeners' reconnections.  Only a message *)
(* that a worker has sent to its own sockets as well may break in.         *)
FeedInOrder ==
  /\ TypeOK
  /\ \A s \in Sockets : \A i, j \in DOMAIN got[s] :
       i < j /\ {route[got[s][i]], route[got[s][j]]} \subseteq {"taken", "channel"} =>
         Position(got[s][i]) < Position(got[s][j])

Due(m, s) ==
  /\ s \in active
  /\ \/ m \in ToSet(channel[worker[s]])
     \/ \E c \in casts : c.msg = m /\ s \in c.left

(* A message that the worker of a socket has reaches it, whatever other    *)
(* sockets of the worker fail or hang, unless this one is dropped or       *)
(* closed or the listener loses Redis before it has read the message.      *)
ReachesListeners ==
  \A m \in Messages, s \in Sockets :
     Due(m, s) ~> (\/ m \in ToSet(got[s])
                   \/ s \notin active \/ client[s] # "open"
                   \/ backend = "redis" /\ worker[s] \notin subscribed)

(* The banner says "connected" of an open socket only, and a tab that is   *)
(* not connected always has something under way - a ticket, a timer or a   *)
(* socket whose end it will be told of - until it has tried MaxAttempts    *)
(* times.  The exception is a timer that disconnect() has cleared without  *)
(* resetting it: then no reconnection is scheduled any more.               *)
NeverSilentlyOff ==
  /\ connected => ws # None /\ client[ws] = "open"
  /\ mounted /\ timer # "stale" /\ attempts < MaxAttempts =>
       fetching \/ timer = "armed" \/ (ws # None /\ client[ws] # "closed")

=============================================================================
