-------------------------- MODULE RealtimeFeedProofs --------------------------
(* What RealtimeFeed promises for any number of sockets, messages, workers *)
(* and faults: of the tab (IInv), and of the order of the feed (Feed); and *)
(* what becomes of its messages on the screens, in DashboardCache.         *)
EXTENDS RealtimeFeed, DashboardCache, SceneFacts, SequenceTheorems, WellFoundedInduction, TLAPS

ClientStates == {"none", "connecting", "open", "closing", "closed"}

StoreTypes ==
  /\ ws \in Sockets \cup {None}
  /\ client \in [Sockets -> ClientStates]
  /\ timer \in {"off", "armed", "stale"}
  /\ attempts \in Nat

(* The store has not left a socket that is connecting or open, so onopen   *)
(* is always that of its own.                                              *)
OwnSocket == \A s \in Sockets : client[s] \in {"connecting", "open"} => ws = s

(* A ticket is fetched only while there is no such socket.                 *)
FetchingAlone == fetching => ~Connected

IInv == StoreTypes /\ OwnSocket /\ FetchingAlone /\ NeverSilentlyOff

(* What the server does leaves the tab alone.                              *)
LEMMA ServerStep ==
  ASSUME IInv, UNCHANGED <<client, storeVars>>
  PROVE  IInv'
BY DEF IInv, StoreTypes, OwnSocket, FetchingAlone, NeverSilentlyOff, Connected, storeVars

LEMMA NoneIsNoSocket == \A s \in Sockets : s # None
BY BoundsAssumption

LEMMA MountStep == ASSUME IInv, Mount PROVE IInv'
<1> USE DEF Mount, socketVars
<1>1. StoreTypes' /\ OwnSocket' /\ FetchingAlone'
  BY DEF IInv, StoreTypes, OwnSocket, FetchingAlone, Connected, Connect
<1>2. NeverSilentlyOff'
  BY DEF IInv, StoreTypes, NeverSilentlyOff, Connected, Connect
<1> QED
  BY <1>1, <1>2 DEF IInv

(* The socket of the store is closing when the store leaves it.            *)
LEMMA UnmountStep == ASSUME IInv, Unmount PROVE IInv'
<1>1. StoreTypes'
  BY DEF IInv, StoreTypes, ClientStates, Unmount, SetClient
<1>2. \A s \in Sockets : client'[s] \notin {"connecting", "open"}
  BY NoneIsNoSocket DEF IInv, StoreTypes, OwnSocket, Unmount, Connected, SetClient
<1>3. OwnSocket' /\ FetchingAlone' /\ NeverSilentlyOff'
  BY <1>2 DEF OwnSocket, FetchingAlone, NeverSilentlyOff, Connected, Unmount
<1> QED
  BY <1>1, <1>3 DEF IInv

LEMMA TimerStep == ASSUME IInv, TimerFires PROVE IInv'
<1> USE DEF TimerFires, socketVars
<1>1. StoreTypes' /\ OwnSocket' /\ FetchingAlone'
  BY DEF IInv, StoreTypes, OwnSocket, FetchingAlone, Connected, Connect
<1>2. NeverSilentlyOff'
  BY DEF IInv, StoreTypes, NeverSilentlyOff, Connected, Connect
<1> QED
  BY <1>1, <1>2 DEF IInv

(* There is no socket to be replaced by the new one but an ended one.      *)
LEMMA FetchedStep ==
  ASSUME IInv, NEW s \in Sockets, NEW w \in Workers, Fetched(s, w)
  PROVE  IInv'
<1>1. StoreTypes'
  BY DEF IInv, StoreTypes, ClientStates, Fetched, SetClient
<1>2. \A r \in Sockets : client[r] \notin {"connecting", "open"}
  BY NoneIsNoSocket DEF IInv, StoreTypes, OwnSocket, FetchingAlone, Connected, Fetched
<1>3. OwnSocket'
  BY <1>2 DEF IInv, StoreTypes, OwnSocket, Fetched, SetClient
<1>4. ~connected
  BY <1>2 DEF IInv, StoreTypes, NeverSilentlyOff
<1>5. client'[ws'] = "connecting" /\ ws' # None
  BY NoneIsNoSocket DEF IInv, StoreTypes, Fetched, SetClient
<1>6. FetchingAlone' /\ NeverSilentlyOff'
  BY <1>4, <1>5 DEF FetchingAlone, NeverSilentlyOff, Fetched
<1> QED
  BY <1>1, <1>3, <1>6 DEF IInv

(* If it can be scheduled a reconnection is, or was.                       *)
LEMMA Scheduled ==
  ASSUME StoreTypes, ScheduleReconnect, MaxAttempts \in Nat
  PROVE  /\ timer' \in {"off", "armed", "stale"} /\ attempts' \in Nat
         /\ timer' # "stale" /\ attempts' < MaxAttempts => timer' = "armed"
BY DEF StoreTypes, ScheduleReconnect

LEMMA FetchFailsStep == ASSUME IInv, FetchFails PROVE IInv'
<1>1. StoreTypes' /\ (timer' # "stale" /\ attempts' < MaxAttempts => timer' = "armed")
  BY Scheduled, BoundsAssumption DEF IInv, StoreTypes, FetchFails, socketVars
<1>2. OwnSocket' /\ FetchingAlone'
  BY DEF IInv, OwnSocket, FetchingAlone, FetchFails, socketVars
<1>3. NeverSilentlyOff'
  BY <1>1 DEF IInv, NeverSilentlyOff, FetchFails, socketVars
<1> QED
  BY <1>1, <1>2, <1>3 DEF IInv

LEMMA OpenedStep == ASSUME IInv, NEW s \in Sockets, Opened(s) PROVE IInv'
<1>1. ws = s /\ client' = [client EXCEPT ![s] = "open"] /\ ws' = ws /\ fetching' = fetching
  BY DEF IInv, OwnSocket, Opened, SetClient
<1>2. StoreTypes'
  BY <1>1 DEF IInv, StoreTypes, ClientStates, Opened
<1>3. OwnSocket'
  BY <1>1 DEF IInv, StoreTypes, OwnSocket
<1>4. ~fetching
  BY <1>1, NoneIsNoSocket DEF IInv, FetchingAlone, Connected, Opened
<1>5. ws' # None /\ client'[ws'] = "open"
  BY <1>1, NoneIsNoSocket DEF IInv, StoreTypes
<1>6. FetchingAlone' /\ NeverSilentlyOff'
  BY <1>1, <1>4, <1>5 DEF FetchingAlone, NeverSilentlyOff
<1> QED
  BY <1>2, <1>3, <1>6 DEF IInv

LEMMA ClosedStep == ASSUME IInv, NEW s \in Sockets, Closed(s) PROVE IInv'
<1>1. client' = [client EXCEPT ![s] = "closed"] /\ ws' = ws /\ fetching' = fetching
  BY DEF Closed, SetClient
<1>2. /\ timer' \in {"off", "armed", "stale"} /\ attempts' \in Nat
      /\ timer' # "stale" /\ attempts' < MaxAttempts => timer' = "armed"
  BY Scheduled, BoundsAssumption DEF IInv, Closed
<1>3. StoreTypes'
  BY <1>1, <1>2 DEF IInv, StoreTypes, ClientStates
<1>4. OwnSocket' /\ FetchingAlone'
  BY <1>1 DEF IInv, StoreTypes, OwnSocket, FetchingAlone, Connected
<1>5. NeverSilentlyOff'
  BY <1>2 DEF NeverSilentlyOff, Closed
<1> QED
  BY <1>3, <1>4, <1>5 DEF IInv

LEMMA StepIInv == IInv /\ [Next]_vars => IInv'
<1> SUFFICES ASSUME IInv, [Next]_vars PROVE IInv'
  OBVIOUS
<1>1. ASSUME NEW m \in Messages,
             \/ Answered(m) \/ PublishFails(m)
             \/ \E w \in Workers : Publish(m, w) \/ BroadcastLocally(m, w)
      PROVE  IInv'
  BY <1>1, ServerStep DEF Answered, PublishFails, Publish, BroadcastLocally, socketVars
<1>2. ASSUME NEW w \in Workers, ListenerFails(w) \/ Restart(w) \/ Subscribe(w) \/ Listen(w)
      PROVE  IInv'
  BY <1>2, ServerStep DEF ListenerFails, Restart, Subscribe, Listen, socketVars
<1>3. CASE Casting
  BY <1>3, ServerStep DEF Casting, Send, SendTimesOut, SendFails, EndCast, socketVars
<1>4. CASE Serving
  BY <1>4, ServerStep DEF Serving, Accept, Refuse, Disconnect
<1>5. CASE Store
  BY <1>5, TimerStep, FetchFailsStep, OpenedStep, ClosedStep, FetchedStep DEF Store
<1>6. CASE UNCHANGED vars
  BY <1>6, ServerStep DEF vars, socketVars
<1> QED
  BY <1>1, <1>2, <1>3, <1>4, <1>5, <1>6, MountStep, UnmountStep DEF Next, Listening

LEMMA InitIInv == Init => IInv
<1> SUFFICES ASSUME Init PROVE IInv
  OBVIOUS
<1>1. StoreTypes
  BY DEF Init, StoreTypes, ClientStates
<1> QED
  BY <1>1 DEF Init, IInv, OwnSocket, FetchingAlone, NeverSilentlyOff, Connected

(* A tab that shows the dashboard and is not connected has a ticket, a     *)
(* timer or a socket under way until its attempts are used up, unless      *)
(* disconnect() left it a cleared timer; and it never takes a dead socket  *)
(* for a connected one.                                                    *)
THEOREM TabKeepsTrying == Spec => []NeverSilentlyOff
<1>1. IInv => NeverSilentlyOff
  BY DEF IInv
<1> QED
  BY <1>1, InitIInv, StepIInv, PTL DEF Spec

-----------------------------------------------------------------------------
(* Sequences.                                                              *)

LEMMA AppendIs ==
  ASSUME NEW S, NEW q \in Seq(S), NEW e \in S
  PROVE  /\ Append(q, e) \in Seq(S) /\ ToSet(Append(q, e)) = ToSet(q) \cup {e}
         /\ DOMAIN q = 1..Len(q) /\ Len(q) \in Nat /\ DOMAIN Append(q, e) = 1..(Len(q) + 1)
         /\ \A i \in 1..Len(q) : Append(q, e)[i] = q[i]
         /\ Append(q, e)[Len(q) + 1] = e
<1>1. DEFINE u == Append(q, e)
<1>2. /\ u \in Seq(S) /\ Len(u) = Len(q) + 1 /\ u[Len(q) + 1] = e
      /\ \A i \in 1..Len(q) : u[i] = q[i]
  BY AppendProperties
<1> HIDE DEF u
<1>3. DOMAIN q = 1..Len(q) /\ Len(q) \in Nat /\ DOMAIN u = 1..Len(u)
  BY <1>2, LenProperties
<1>4. ToSet(u) = ToSet(q) \cup {e}
  <2>1. \A i \in DOMAIN u : i \in DOMAIN q \/ i = Len(q) + 1
    BY <1>2, <1>3
  <2>2. DOMAIN q \subseteq DOMAIN u /\ Len(q) + 1 \in DOMAIN u
    BY <1>2, <1>3
  <2>3. QED
    BY <1>2, <1>3, <2>1, <2>2 DEF ToSet
<1>5. QED
  BY <1>2, <1>3, <1>4 DEF u

LEMMA TailIs ==
  ASSUME NEW S, NEW q \in Seq(S), q # <<>>
  PROVE  /\ Tail(q) \in Seq(S) /\ ToSet(Tail(q)) \subseteq ToSet(q) /\ Head(q) \in ToSet(q) /\ Head(q) \in S
         /\ 1 \in DOMAIN q /\ Head(q) = q[1]
         /\ \A i \in DOMAIN Tail(q) : i \in Nat /\ i > 0 /\ i + 1 \in DOMAIN q /\ Tail(q)[i] = q[i + 1]
<1>1. /\ Head(q) \in S /\ Tail(q) \in Seq(S) /\ Len(Tail(q)) = Len(q) - 1
      /\ \A i \in 1..Len(Tail(q)) : Tail(q)[i] = q[i + 1]
  BY HeadTailProperties
<1>2. DOMAIN q = 1..Len(q) /\ DOMAIN Tail(q) = 1..Len(Tail(q))
  BY <1>1, LenProperties
<1>3. Len(q) \in Nat \ {0} /\ Head(q) = q[1]
  BY EmptySeq
<1>4. \A i \in DOMAIN Tail(q) : i \in Nat /\ i > 0 /\ i + 1 \in DOMAIN q /\ Tail(q)[i] = q[i + 1]
  BY <1>1, <1>2, <1>3
<1>5. 1 \in DOMAIN q
  BY <1>2, <1>3
<1>6. QED
  BY <1>1, <1>3, <1>4, <1>5 DEF ToSet

LEMMA NothingIs == <<>> \in Seq(Messages) /\ ToSet(<<>>) = {} /\ DOMAIN <<>> = {}
<1>1. <<>> \in Seq(Messages) /\ Len(<<>>) = 0
  BY EmptySeq
<1>2. DOMAIN <<>> = 1..Len(<<>>)
  BY <1>1, LenProperties
<1>3. QED
  BY <1>1, <1>2 DEF ToSet

-----------------------------------------------------------------------------
(* Types.                                                                  *)

HubTypes ==
  /\ backend \in {"redis", "memory"}
  /\ route \in [Messages -> {"none", "new", "taken", "channel", "local", "both"}]
  /\ at \in [Messages -> Workers \cup {None}]
  /\ log \in Seq(Messages) /\ IsInjective(log)
  /\ subscribed \subseteq Workers
  /\ channel \in [Workers -> Seq(Messages)]
  /\ casts \subseteq Cast

SocketTypes ==
  /\ active \subseteq Sockets
  /\ worker \in [Sockets -> Workers \cup {None}]
  /\ server \in [Sockets -> {"none", "handshake", "receiving", "gone"}]
  /\ client \in [Sockets -> ClientStates]
  /\ got \in [Sockets -> Seq(Messages)]

TabTypes ==
  /\ mounted \in BOOLEAN /\ connected \in BOOLEAN /\ fetching \in BOOLEAN
  /\ ws \in Sockets \cup {None}
  /\ timer \in {"off", "armed", "stale"}
  /\ attempts \in 0..MaxAttempts /\ unused \subseteq Sockets
  /\ mounts \in Nat /\ faults \in Nat

Types == HubTypes /\ SocketTypes /\ TabTypes

(* Where a message is: a worker waits for Redis to answer, Redis has it.   *)
Routed ==
  \A m \in Messages :
    /\ at[m] # None <=> route[m] = "taken"
    /\ m \in ToSet(log) <=> route[m] \in {"taken", "channel", "both"}

(* What is sent has been broadcast; what one worker sends to its own       *)
(* sockets did not go out by way of Redis alone.                           *)
Pure(m) == route[m] \in {"taken", "channel"}

Broadcast ==
  /\ \A w \in Workers : ToSet(channel[w]) \subseteq ToSet(log)
  /\ \A s \in Sockets : \A m \in ToSet(got[s]) : route[m] \notin {"none", "new"}
  /\ \A c \in casts : route[c.msg] \notin {"none", "new"} /\ (c.by \notin Workers => ~Pure(c.msg))

Unopened ==
  /\ \A s \in Sockets : client[s] = "none" => server[s] = "none"
  /\ \A s \in unused : client[s] = "none" /\ s \notin active /\ got[s] = <<>> /\ \A c \in casts : s \notin c.left

(* A listener broadcasts one message at a time, to sockets of its worker.  *)
OneAtATime ==
  /\ \A c, d \in casts : c.by = d.by /\ c.by \in Workers => c = d
  /\ \A c \in casts : c.by \in Workers => c.by = c.on /\ c.msg \in ToSet(log)
  /\ \A c \in casts : \A s \in c.left : worker[s] = c.on

(* The order of Redis: in what a listener has still to read, in what it    *)
(* broadcasts before it reads on, and in what its sockets have got before. *)
ReadInOrder ==
  \A w \in Workers : \A i, j \in DOMAIN channel[w] : i < j => Position(channel[w][i]) < Position(channel[w][j])

CastFirst ==
  \A c \in casts : c.by \in Workers => \A n \in ToSet(channel[c.by]) : Position(c.msg) < Position(n)

GotBefore ==
  \A s \in Sockets : \A m \in ToSet(got[s]) : Pure(m) =>
    /\ worker[s] \in Workers => \A n \in ToSet(channel[worker[s]]) : Position(m) < Position(n)
    /\ \A c \in casts : c.by \in Workers /\ s \in c.left => Position(m) < Position(c.msg)

GotInOrder ==
  \A s \in Sockets : \A i, j \in DOMAIN got[s] :
    i < j /\ Pure(got[s][i]) /\ Pure(got[s][j]) => Position(got[s][i]) < Position(got[s][j])

Ordered == ReadInOrder /\ CastFirst /\ GotBefore /\ GotInOrder

Feed == Types /\ Routed /\ Broadcast /\ Unopened /\ OneAtATime /\ Ordered

LEMMA FeedIsInOrder == Feed => FeedInOrder
<1>1. SUFFICES ASSUME Feed PROVE FeedInOrder
  OBVIOUS
<1>2. \A s \in Sockets : got[s] \in Seq(Messages)
  BY <1>1 DEF Feed, Types, SocketTypes
<1>3. TypeOK
  BY <1>1, <1>2 DEF Feed, Types, HubTypes, SocketTypes, TabTypes, Broadcast, TypeOK, ClientStates
<1>4. \A s \in Sockets : \A i, j \in DOMAIN got[s] :
       i < j /\ {route[got[s][i]], route[got[s][j]]} \subseteq {"taken", "channel"} =>
         Position(got[s][i]) < Position(got[s][j])
  BY <1>1 DEF Feed, Ordered, GotInOrder, Pure
<1>5. QED
  BY <1>3, <1>4 DEF FeedInOrder

(* A message of the log has one place there.                               *)
LEMMA PositionIs ==
  ASSUME HubTypes, NEW m \in ToSet(log)
  PROVE  Position(m) \in DOMAIN log /\ log[Position(m)] = m /\ \A i \in DOMAIN log : log[i] = m => i = Position(m)
<1>1. \E i \in DOMAIN log : log[i] = m
  BY DEF ToSet
<1>2. Position(m) \in DOMAIN log /\ log[Position(m)] = m
  BY <1>1 DEF Position
<1>3. QED
  BY <1>2 DEF HubTypes, IsInjective

LEMMA PositionSame ==
  ASSUME log' = log
  PROVE  \A m : Position(m)' = Position(m)
BY DEF Position

(* A message that is published comes last, and moves none.                 *)
LEMMA PublishedLast ==
  ASSUME HubTypes, NEW m \in Messages, m \notin ToSet(log), log' = Append(log, m)
  PROVE  /\ log' \in Seq(Messages) /\ IsInjective(log') /\ ToSet(log') = ToSet(log) \cup {m}
         /\ \A n \in ToSet(log) : Position(n)' = Position(n) /\ Position(n) < Position(m)'
<1>1. /\ log' \in Seq(Messages) /\ ToSet(log') = ToSet(log) \cup {m}
      /\ DOMAIN log = 1..Len(log) /\ Len(log) \in Nat /\ DOMAIN log' = 1..(Len(log) + 1)
      /\ \A i \in 1..Len(log) : log'[i] = log[i]
      /\ log'[Len(log) + 1] = m
  BY AppendIs DEF HubTypes
<1>2. \A i \in DOMAIN log' : i \in DOMAIN log \/ i = Len(log) + 1
  BY <1>1
<1>3. \A i \in DOMAIN log : log[i] # m
  BY DEF ToSet
<1>4. IsInjective(log')
  BY <1>1, <1>2, <1>3 DEF HubTypes, IsInjective
<1>5. ASSUME NEW n \in ToSet(log')
      PROVE  Position(n)' \in DOMAIN log' /\ log'[Position(n)'] = n /\ \A i \in DOMAIN log' : log'[i] = n => i = Position(n)'
  <2>1. \E i \in DOMAIN log' : log'[i] = n
    BY <1>5 DEF ToSet
  <2>2. Position(n)' \in DOMAIN log' /\ log'[Position(n)'] = n
    BY <2>1 DEF Position
  <2>3. QED
    BY <1>4, <2>2 DEF IsInjective
<1>6. Position(m)' = Len(log) + 1
  <2>1. Len(log) + 1 \in DOMAIN log' /\ m \in ToSet(log')
    BY <1>1
  <2>2. QED
    BY <1>1, <1>5, <2>1
<1>7. ASSUME NEW n \in ToSet(log)
      PROVE  Position(n)' = Position(n) /\ Position(n) < Position(m)'
  <2>1. Position(n) \in DOMAIN log /\ log[Position(n)] = n
    BY PositionIs
  <2>2. Position(n) \in DOMAIN log' /\ log'[Position(n)] = n /\ n \in ToSet(log')
    BY <1>1, <2>1
  <2>3. Position(n)' = Position(n)
    BY <1>5, <2>2
  <2>4. QED
    BY <1>1, <1>6, <2>1, <2>3
<1>8. QED
  BY <1>1, <1>4, <1>7

LEMMA NewCastIs ==
  ASSUME Types, NEW by \in Workers \cup Messages, NEW w \in Workers, NEW m \in Messages
  PROVE  /\ NewCast(by, w, m) \in Cast
         /\ NewCast(by, w, m).by = by /\ NewCast(by, w, m).on = w /\ NewCast(by, w, m).msg = m
         /\ \A s \in NewCast(by, w, m).left : s \in active /\ worker[s] = w
<1>1. {s \in active : worker[s] = w} \subseteq Sockets
  BY DEF Types, SocketTypes
<1>2. QED
  BY <1>1 DEF NewCast, Cast

LEMMA TriedIs ==
  ASSUME NEW c \in Cast, NEW s \in Sockets, NEW failed \in BOOLEAN
  PROVE  /\ Tried(c, s, failed) \in Cast
         /\ Tried(c, s, failed).by = c.by /\ Tried(c, s, failed).on = c.on /\ Tried(c, s, failed).msg = c.msg
         /\ Tried(c, s, failed).left = c.left \ {s}
BY DEF Tried, Cast

LEMMA CastIs ==
  ASSUME Types, NEW c \in casts
  PROVE  /\ c \in Cast /\ c.by \in Workers \cup Messages /\ c.on \in Workers /\ c.msg \in Messages
         /\ c.left \subseteq Sockets
BY DEF Types, HubTypes, Cast

LEMMA ReceiveIs ==
  ASSUME Types, NEW s \in Sockets, NEW m \in Messages, Receive(s, m)
  PROVE  /\ got' \in [Sockets -> Seq(Messages)] /\ got'[s] = Append(got[s], m)
         /\ \A r \in Sockets \ {s} : got'[r] = got[r]
<1>1. got \in [Sockets -> Seq(Messages)]
  BY DEF Types, SocketTypes
<1>2. Append(got[s], m) \in Seq(Messages)
  BY <1>1, AppendIs
<1>3. QED
  BY <1>1, <1>2 DEF Receive

LEMMA FaultIs == ASSUME Types, Fault \/ UNCHANGED faults PROVE faults' \in Nat
BY DEF Types, TabTypes, Fault

(* The hub.                                                                *)
LEMMA PublishTypes ==
  ASSUME Types, Routed, NEW m \in Messages, NEW w \in Workers, Publish(m, w)
  PROVE  /\ Types' /\ route[m] = "new" /\ m \notin ToSet(log)
         /\ UNCHANGED <<backend, subscribed, casts, socketVars, storeVars, faults>>
         /\ \A n \in Messages : /\ route'[n] = IF n = m THEN "taken" ELSE route[n]
                                /\ at'[n] = IF n = m THEN w ELSE at[n]
         /\ log' = Append(log, m)
         /\ \A v \in Workers : channel'[v] = channel[v] \/ channel'[v] = Append(channel[v], m)
<1>1. /\ route[m] = "new" /\ route' = [route EXCEPT ![m] = "taken"] /\ at' = [at EXCEPT ![m] = w]
      /\ log' = Append(log, m)
      /\ channel' = [v \in Workers |-> IF v \in subscribed THEN Append(channel[v], m) ELSE channel[v]]
      /\ UNCHANGED <<backend, subscribed, casts, socketVars, storeVars, faults>>
  BY DEF Publish, IsNext
<1>2. m \notin ToSet(log)
  BY <1>1 DEF Routed
<1>3. log' \in Seq(Messages) /\ IsInjective(log')
  BY <1>1, <1>2, PublishedLast DEF Types
<1>4. channel' \in [Workers -> Seq(Messages)]
  BY <1>1, AppendIs DEF Types, HubTypes
<1>5. HubTypes'
  BY <1>1, <1>3, <1>4 DEF Types, HubTypes
<1>6. (SocketTypes /\ TabTypes)'
  BY <1>1 DEF Types, SocketTypes, TabTypes, socketVars, storeVars
<1>7. \A n \in Messages : /\ route'[n] = IF n = m THEN "taken" ELSE route[n]
                          /\ at'[n] = IF n = m THEN w ELSE at[n]
  BY <1>1 DEF Types, HubTypes
<1>8. QED
  BY <1>1, <1>2, <1>5, <1>6, <1>7 DEF Types

LEMMA ListenTypes ==
  ASSUME Types, NEW w \in Workers, Listen(w)
  PROVE  /\ Types' /\ UNCHANGED <<route, at, log, active, worker, server, client, got, unused>>
         /\ (\A c \in casts : c.by # w)
         /\ \E c \in Cast : /\ casts' = casts \cup {c}
                            /\ c.by = w /\ c.on = w /\ c.msg = Head(channel[w])
                            /\ \A s \in c.left : s \in active /\ worker[s] = w
         /\ channel[w] # <<>> /\ channel'[w] = Tail(channel[w])
         /\ \A v \in Workers \ {w} : channel'[v] = channel[v]
<1>1. /\ channel[w] # <<>> /\ (\A c \in casts : c.by # w)
      /\ casts' = casts \cup {NewCast(w, w, Head(channel[w]))}
      /\ channel' = [channel EXCEPT ![w] = Tail(@)]
      /\ UNCHANGED <<backend, route, at, log, subscribed, socketVars, storeVars, faults>>
  BY DEF Listen
<1>2. channel \in [Workers -> Seq(Messages)]
  BY DEF Types, HubTypes
<1>3. Head(channel[w]) \in Messages /\ Tail(channel[w]) \in Seq(Messages)
  BY <1>1, <1>2, TailIs
<1>4. /\ channel' \in [Workers -> Seq(Messages)] /\ channel'[w] = Tail(channel[w])
      /\ \A v \in Workers \ {w} : channel'[v] = channel[v]
  BY <1>1, <1>2, <1>3
<1>5. /\ NewCast(w, w, Head(channel[w])) \in Cast
      /\ NewCast(w, w, Head(channel[w])).by = w /\ NewCast(w, w, Head(channel[w])).on = w
      /\ NewCast(w, w, Head(channel[w])).msg = Head(channel[w])
      /\ \A s \in NewCast(w, w, Head(channel[w])).left : s \in active /\ worker[s] = w
  BY <1>3, NewCastIs
<1>6. HubTypes'
  BY <1>1, <1>4, <1>5 DEF Types, HubTypes
<1>7. (SocketTypes /\ TabTypes)'
  BY <1>1 DEF Types, SocketTypes, TabTypes, socketVars, storeVars
<1>8. UNCHANGED <<route, at, log, active, worker, server, client, got, unused>>
  BY <1>1 DEF socketVars, storeVars
<1>9. QED
  BY <1>1, <1>4, <1>5, <1>6, <1>7, <1>8 DEF Types

(* A cast goes on, or what is left of it.                                  *)
SameCast(d, c) == d.by = c.by /\ d.on = c.on /\ d.msg = c.msg /\ d.left \subseteq c.left

(* What a listener has broadcast or read may be lost; what a worker sends  *)
(* to its own sockets is broadcast by no listener.                         *)
HubLoses ==
  /\ UNCHANGED <<log, worker, client, unused>>
  /\ \A m \in Messages :
       /\ \/ route'[m] = route[m] /\ at'[m] = at[m]
          \/ route[m] = "taken" /\ route'[m] \in {"channel", "both"} /\ at'[m] = None
          \/ route[m] = "new" /\ route'[m] = "local" /\ at'[m] = at[m]
  /\ \A v \in Workers : channel'[v] \in {channel[v], <<>>}
  /\ \A d \in casts' : \/ \E c \in casts : SameCast(d, c)
                       \/ /\ d.by \notin Workers /\ route'[d.msg] \in {"local", "both"}
                          /\ \A s \in d.left : s \in active /\ worker[s] = d.on
  /\ \A c, d \in casts' : c.by = d.by /\ c.by \in Workers => c = d

LEMMA SameCasts ==
  ASSUME Types, OneAtATime, casts' \subseteq casts
  PROVE  /\ \A d \in casts' : \E c \in casts : SameCast(d, c)
         /\ \A c, d \in casts' : c.by = d.by /\ c.by \in Workers => c = d
BY DEF SameCast, OneAtATime

LEMMA AnsweredTypes ==
  ASSUME Types, OneAtATime, NEW m \in Messages, Answered(m)
  PROVE  Types' /\ HubLoses /\ UNCHANGED <<got, active, server>>
<1>1. /\ route[m] = "taken" /\ route' = [route EXCEPT ![m] = "channel"] /\ at' = [at EXCEPT ![m] = None]
      /\ UNCHANGED <<backend, log, subscribed, channel, casts, socketVars, storeVars, faults>>
  BY DEF Answered
<1>2. HubTypes'
  BY <1>1 DEF Types, HubTypes
<1>3. (SocketTypes /\ TabTypes)'
  BY <1>1 DEF Types, SocketTypes, TabTypes, socketVars, storeVars
<1>4. \A n \in Messages :
       \/ route'[n] = route[n] /\ at'[n] = at[n]
       \/ route[n] = "taken" /\ route'[n] = "channel" /\ at'[n] = None
  BY <1>1 DEF Types, HubTypes
<1>5. UNCHANGED <<log, worker, client, unused, got, active, server, channel, casts>>
  BY <1>1 DEF socketVars, storeVars
<1>6. HubLoses
  BY <1>4, <1>5, SameCasts DEF HubLoses
<1>7. QED
  BY <1>2, <1>3, <1>5, <1>6 DEF Types

LEMMA OwnCastLoses ==
  ASSUME Types, OneAtATime, NEW m \in Messages, NEW w \in Workers,
         casts' = casts \cup {NewCast(m, w, m)}, route'[m] \in {"local", "both"}
  PROVE  /\ casts' \subseteq Cast
         /\ \A d \in casts' : \/ \E c \in casts : SameCast(d, c)
                              \/ /\ d.by \notin Workers /\ route'[d.msg] \in {"local", "both"}
                                 /\ \A s \in d.left : s \in active /\ worker[s] = d.on
         /\ \A c, d \in casts' : c.by = d.by /\ c.by \in Workers => c = d
<1>1. DEFINE e == NewCast(m, w, m)
<1>2. /\ e \in Cast /\ e.by = m /\ e.on = w /\ e.msg = m /\ \A s \in e.left : s \in active /\ worker[s] = w
  BY NewCastIs
<1>3. casts' = casts \cup {e}
  OBVIOUS
<1> HIDE DEF e
<1>4. m \notin Workers
  BY BoundsAssumption
<1>5. \A d \in casts : SameCast(d, d)
  BY DEF SameCast
<1>6. casts' \subseteq Cast
  BY <1>2, <1>3 DEF Types, HubTypes
<1>7. \A d \in casts' : \/ \E c \in casts : SameCast(d, c)
                        \/ /\ d.by \notin Workers /\ route'[d.msg] \in {"local", "both"}
                           /\ \A s \in d.left : s \in active /\ worker[s] = d.on
  BY <1>2, <1>3, <1>4, <1>5
<1>8. \A c, d \in casts' : c.by = d.by /\ c.by \in Workers => c = d
  BY <1>2, <1>3, <1>4 DEF OneAtATime
<1>9. QED
  BY <1>6, <1>7, <1>8

LEMMA PublishFailsTypes ==
  ASSUME Types, Routed, OneAtATime, NEW m \in Messages, PublishFails(m)
  PROVE  Types' /\ HubLoses /\ UNCHANGED <<got, active, server>>
<1>1. /\ route[m] = "taken" /\ route' = [route EXCEPT ![m] = "both"] /\ at' = [at EXCEPT ![m] = None]
      /\ casts' = casts \cup {NewCast(m, at[m], m)} /\ Fault
      /\ UNCHANGED <<backend, log, subscribed, channel, socketVars, storeVars>>
  BY DEF PublishFails
<1>2. at[m] \in Workers
  BY <1>1 DEF Types, HubTypes, Routed
<1>3. route'[m] = "both"
  BY <1>1 DEF Types, HubTypes
<1>4. /\ casts' \subseteq Cast
      /\ \A d \in casts' : \/ \E c \in casts : SameCast(d, c)
                           \/ /\ d.by \notin Workers /\ route'[d.msg] \in {"local", "both"}
                              /\ \A s \in d.left : s \in active /\ worker[s] = d.on
      /\ \A c, d \in casts' : c.by = d.by /\ c.by \in Workers => c = d
  BY <1>1, <1>2, <1>3, OwnCastLoses
<1>5. HubTypes'
  BY <1>1, <1>4 DEF Types, HubTypes
<1>6. (SocketTypes /\ TabTypes)'
  <2>1. faults' \in Nat
    BY <1>1, FaultIs
  <2>2. QED
    BY <1>1, <2>1 DEF Types, SocketTypes, TabTypes, socketVars, storeVars
<1>7. \A n \in Messages :
       \/ route'[n] = route[n] /\ at'[n] = at[n]
       \/ route[n] = "taken" /\ route'[n] = "both" /\ at'[n] = None
  BY <1>1 DEF Types, HubTypes
<1>8. UNCHANGED <<log, worker, client, unused, got, active, server, channel>>
  BY <1>1 DEF socketVars, storeVars
<1>9. HubLoses
  BY <1>4, <1>7, <1>8 DEF HubLoses
<1>10. QED
  BY <1>5, <1>6, <1>8, <1>9 DEF Types

LEMMA LocalTypes ==
  ASSUME Types, OneAtATime, NEW m \in Messages, NEW w \in Workers, BroadcastLocally(m, w)
  PROVE  Types' /\ HubLoses /\ UNCHANGED <<got, active, server>>
<1>1. /\ route[m] = "new" /\ route' = [route EXCEPT ![m] = "local"] /\ (Fault \/ UNCHANGED faults)
      /\ casts' = casts \cup {NewCast(m, w, m)}
      /\ UNCHANGED <<backend, at, log, subscribed, channel, socketVars, storeVars>>
  BY DEF BroadcastLocally, IsNext
<1>2. route'[m] = "local"
  BY <1>1 DEF Types, HubTypes
<1>3. /\ casts' \subseteq Cast
      /\ \A d \in casts' : \/ \E c \in casts : SameCast(d, c)
                           \/ /\ d.by \notin Workers /\ route'[d.msg] \in {"local", "both"}
                              /\ \A s \in d.left : s \in active /\ worker[s] = d.on
      /\ \A c, d \in casts' : c.by = d.by /\ c.by \in Workers => c = d
  BY <1>1, <1>2, OwnCastLoses
<1>4. HubTypes'
  BY <1>1, <1>3 DEF Types, HubTypes
<1>5. (SocketTypes /\ TabTypes)'
  <2>1. faults' \in Nat
    BY <1>1, FaultIs
  <2>2. QED
    BY <1>1, <2>1 DEF Types, SocketTypes, TabTypes, socketVars, storeVars
<1>6. \A n \in Messages :
       \/ route'[n] = route[n] /\ at'[n] = at[n]
       \/ route[n] = "new" /\ route'[n] = "local" /\ at'[n] = at[n]
  BY <1>1 DEF Types, HubTypes
<1>7. UNCHANGED <<log, worker, client, unused, got, active, server, channel>>
  BY <1>1 DEF socketVars, storeVars
<1>8. HubLoses
  BY <1>3, <1>6, <1>7 DEF HubLoses
<1>9. QED
  BY <1>4, <1>5, <1>7, <1>8 DEF Types

LEMMA SubscribeTypes ==
  ASSUME Types, OneAtATime, NEW w \in Workers, Subscribe(w) \/ ListenerFails(w)
  PROVE  Types' /\ HubLoses /\ UNCHANGED <<got, active, server>>
<1>1. /\ subscribed' \subseteq Workers /\ (Fault \/ UNCHANGED faults)
      /\ channel' = channel \/ channel' = [channel EXCEPT ![w] = <<>>]
      /\ UNCHANGED <<backend, route, at, log, casts, socketVars, storeVars>>
  BY DEF Subscribe, ListenerFails, Types, HubTypes
<1>2. channel' \in [Workers -> Seq(Messages)] /\ \A v \in Workers : channel'[v] \in {channel[v], <<>>}
  BY <1>1, NothingIs DEF Types, HubTypes
<1>3. HubTypes'
  BY <1>1, <1>2 DEF Types, HubTypes
<1>4. (SocketTypes /\ TabTypes)'
  <2>1. faults' \in Nat
    BY <1>1, FaultIs
  <2>2. QED
    BY <1>1, <2>1 DEF Types, SocketTypes, TabTypes, socketVars, storeVars
<1>5. UNCHANGED <<route, at, log, worker, client, unused, got, active, server, casts>>
  BY <1>1 DEF socketVars, storeVars
<1>6. HubLoses
  BY <1>2, <1>5, SameCasts DEF HubLoses
<1>7. QED
  BY <1>3, <1>4, <1>5, <1>6 DEF Types

LEMMA RestartTypes ==
  ASSUME Types, Routed, OneAtATime, NEW w \in Workers, Restart(w)
  PROVE  /\ Types' /\ HubLoses /\ UNCHANGED got /\ active' \subseteq active
         /\ \A s \in Sockets : server'[s] = server[s] \/ (server[s] # "none" /\ server'[s] # "none")
<1>1. DEFINE mine == {s \in Sockets : worker[s] = w /\ server[s] \in {"handshake", "receiving"}}
<1>2. /\ server' = [s \in Sockets |-> IF s \in mine THEN "gone" ELSE server[s]]
      /\ active' = active \ mine /\ casts' = {c \in casts : c.on # w}
      /\ subscribed' = subscribed \ {w} /\ channel' = [channel EXCEPT ![w] = <<>>]
      /\ route' = [m \in Messages |-> IF at[m] = w THEN "channel" ELSE route[m]]
      /\ at' = [m \in Messages |-> IF at[m] = w THEN None ELSE at[m]]
      /\ Fault /\ UNCHANGED <<backend, log, worker, client, got, storeVars>>
  BY DEF Restart
<1>3. \A s \in mine : server[s] # "none"
  OBVIOUS
<1> HIDE DEF mine
<1>4. channel' \in [Workers -> Seq(Messages)] /\ \A v \in Workers : channel'[v] \in {channel[v], <<>>}
  BY <1>2, NothingIs DEF Types, HubTypes
<1>5. route' \in [Messages -> {"none", "new", "taken", "channel", "local", "both"}] /\ at' \in [Messages -> Workers \cup {None}]
  BY <1>2 DEF Types, HubTypes
<1>6. HubTypes'
  BY <1>2, <1>4, <1>5 DEF Types, HubTypes
<1>7. SocketTypes'
  BY <1>2 DEF Types, SocketTypes
<1>8. TabTypes'
  <2>1. faults' \in Nat
    BY <1>2, FaultIs
  <2>2. QED
    BY <1>2, <2>1 DEF Types, TabTypes, storeVars
<1>9. \A n \in Messages :
       \/ route'[n] = route[n] /\ at'[n] = at[n]
       \/ route[n] = "taken" /\ route'[n] = "channel" /\ at'[n] = None
  BY <1>2, BoundsAssumption DEF Routed
<1>10. UNCHANGED <<log, worker, client, unused, got>> /\ casts' \subseteq casts
  BY <1>2 DEF storeVars
<1>11. HubLoses
  BY <1>4, <1>9, <1>10, SameCasts DEF HubLoses
<1>12. QED
  BY <1>2, <1>3, <1>6, <1>7, <1>8, <1>11 DEF Types

(* A send of a cast succeeds, hangs or fails.                              *)
LEMMA TriedTypes ==
  ASSUME Types, OneAtATime, NEW c \in casts, NEW s \in Sockets, NEW failed \in BOOLEAN,
         Replace(c, Tried(c, s, failed)), UNCHANGED got \/ Receive(s, c.msg), Fault \/ UNCHANGED faults,
         UNCHANGED <<backend, route, at, log, subscribed, channel, active, worker, server, client, storeVars>>
  PROVE  /\ Types' /\ HubLoses
         /\ \A d \in casts' : d.by = c.by /\ c.by \in Workers => s \notin d.left
<1>1. DEFINE e == Tried(c, s, failed)
<1>2. /\ c \in Cast /\ c.msg \in Messages
      /\ e \in Cast /\ e.by = c.by /\ e.on = c.on /\ e.msg = c.msg /\ e.left = c.left \ {s}
  BY CastIs, TriedIs
<1>3. casts' = (casts \ {c}) \cup {e}
  BY DEF Replace
<1> HIDE DEF e
<1>4. \A d \in casts : SameCast(d, d)
  BY DEF SameCast
<1>5. SameCast(e, c)
  BY <1>2 DEF SameCast
<1>6. \A d \in casts' : \E b \in casts : SameCast(d, b)
  BY <1>3, <1>4, <1>5
<1>7. \A b, d \in casts' : b.by = d.by /\ b.by \in Workers => b = d
  BY <1>2, <1>3 DEF OneAtATime
<1>8. \A d \in casts' : d.by = c.by /\ c.by \in Workers => s \notin d.left
  BY <1>2, <1>3 DEF OneAtATime
<1>9. HubTypes'
  BY <1>2, <1>3 DEF Types, HubTypes
<1>10. got' \in [Sockets -> Seq(Messages)]
  BY <1>2, ReceiveIs DEF Types, SocketTypes
<1>11. SocketTypes'
  BY <1>10 DEF Types, SocketTypes
<1>12. faults' \in Nat
  BY FaultIs
<1>13. TabTypes'
  BY <1>12 DEF Types, TabTypes, storeVars
<1>14. HubLoses
  BY <1>6, <1>7 DEF HubLoses, storeVars
<1>15. QED
  BY <1>8, <1>9, <1>11, <1>13, <1>14 DEF Types

LEMMA EndCastTypes ==
  ASSUME Types, OneAtATime, NEW c \in casts, EndCast(c)
  PROVE  Types' /\ HubLoses /\ UNCHANGED <<got, server>> /\ active' \subseteq active
<1>1. /\ casts' = casts \ {c} /\ active' = active \ c.dead
      /\ UNCHANGED <<backend, route, at, log, subscribed, channel, worker, server, client, got, storeVars, faults>>
  BY DEF EndCast
<1>2. HubTypes' /\ casts' \subseteq casts
  BY <1>1 DEF Types, HubTypes
<1>3. SocketTypes' /\ TabTypes'
  BY <1>1 DEF Types, SocketTypes, TabTypes, storeVars
<1>4. HubLoses
  BY <1>1, <1>2, SameCasts DEF HubLoses, storeVars
<1>5. QED
  BY <1>1, <1>2, <1>3, <1>4 DEF Types

(* The endpoint and the store leave the hub alone, and move only sockets   *)
(* that are open already.                                                  *)
TabKeeps ==
  /\ UNCHANGED <<hubVars, worker, got, unused>>
  /\ \A s \in active' : s \in active \/ client[s] # "none"
  /\ \A s \in Sockets : /\ client'[s] = client[s] \/ (client[s] # "none" /\ client'[s] # "none")
                        /\ server'[s] = server[s] \/ client[s] # "none"

LEMMA HubTypesSame == ASSUME Types, UNCHANGED hubVars PROVE HubTypes'
BY DEF Types, HubTypes, hubVars

LEMMA ServingTypes ==
  ASSUME Types, Unopened, NEW s \in Sockets, Accept(s) \/ Refuse(s) \/ Disconnect(s)
  PROVE  Types' /\ TabKeeps
<1>1. /\ server[s] \in {"handshake", "receiving"}
      /\ server' = [server EXCEPT ![s] = "receiving"] \/ server' = [server EXCEPT ![s] = "gone"]
      /\ active' \subseteq active \cup {s}
      /\ Fault \/ UNCHANGED faults
      /\ UNCHANGED <<hubVars, worker, client, got, storeVars>>
  BY DEF Accept, Refuse, Disconnect, SetServer
<1>2. client[s] # "none"
  BY <1>1 DEF Unopened
<1>3. faults' \in Nat
  BY <1>1, FaultIs
<1>4. HubTypes' /\ TabTypes'
  BY <1>1, <1>3, HubTypesSame DEF Types, TabTypes, storeVars
<1>5. SocketTypes'
  BY <1>1 DEF Types, SocketTypes
<1>6. TabKeeps
  BY <1>1, <1>2 DEF TabKeeps, storeVars, Types, SocketTypes
<1>7. QED
  BY <1>4, <1>5, <1>6 DEF Types

LEMMA NextAttempt ==
  ASSUME Types, ScheduleReconnect
  PROVE  timer' \in {"off", "armed", "stale"} /\ attempts' \in 0..MaxAttempts
BY BoundsAssumption DEF Types, TabTypes, ScheduleReconnect

LEMMA NoAttempt == 0 \in 0..MaxAttempts
BY BoundsAssumption

(* The store, but for a new socket.                                        *)
LEMMA QuietTypes ==
  ASSUME Types, Mount \/ TimerFires \/ FetchFails
  PROVE  Types' /\ TabKeeps
<1>1. /\ UNCHANGED <<hubVars, socketVars, connected, ws, unused, faults>>
      /\ timer' \in {"off", "armed", "stale"} /\ attempts' \in 0..MaxAttempts
      /\ mounted' \in BOOLEAN /\ fetching' \in BOOLEAN /\ mounts' \in Nat
  <2>1. CASE Mount
    BY <2>1 DEF Mount, Connect, Types, TabTypes
  <2>2. CASE TimerFires
    BY <2>2 DEF TimerFires, Connect, Types, TabTypes
  <2>3. CASE FetchFails
    BY <2>3, NextAttempt DEF FetchFails, Types, TabTypes
  <2>4. QED
    BY <2>1, <2>2, <2>3
<1>2. HubTypes' /\ SocketTypes' /\ TabTypes'
  BY <1>1, HubTypesSame DEF Types, SocketTypes, TabTypes, socketVars
<1>3. TabKeeps
  BY <1>1 DEF TabKeeps, socketVars
<1>4. QED
  BY <1>2, <1>3 DEF Types

LEMMA UnmountTypes == ASSUME Types, Unmount PROVE Types' /\ TabKeeps
<1>1. /\ mounted' = FALSE /\ connected' = FALSE /\ ws' = None /\ attempts' = 0
      /\ timer' = IF timer = "armed" THEN "stale" ELSE timer
      /\ IF Connected THEN client' = [client EXCEPT ![ws] = "closing"] ELSE UNCHANGED client
      /\ UNCHANGED <<hubVars, active, worker, server, got, fetching, unused, mounts, faults>>
  BY DEF Unmount, SetClient
<1>2. TabTypes' /\ HubTypes'
  BY <1>1, NoAttempt, HubTypesSame DEF Types, TabTypes
<1>3. client' \in [Sockets -> ClientStates]
  BY <1>1 DEF Types, SocketTypes, ClientStates
<1>4. SocketTypes'
  BY <1>1, <1>3 DEF Types, SocketTypes
<1>5. \A s \in Sockets : client'[s] = client[s] \/ (client[s] # "none" /\ client'[s] # "none")
  BY <1>1 DEF Types, SocketTypes, Connected
<1>6. TabKeeps
  BY <1>1, <1>5 DEF TabKeeps
<1>7. QED
  BY <1>2, <1>4, <1>6 DEF Types

LEMMA OpenedTypes == ASSUME Types, NEW s \in Sockets, Opened(s) PROVE Types' /\ TabKeeps
<1>1. /\ client[s] = "connecting" /\ client' = [client EXCEPT ![s] = "open"]
      /\ server' = [server EXCEPT ![s] = "handshake"] /\ connected' = TRUE /\ attempts' = 0
      /\ UNCHANGED <<hubVars, active, worker, got, mounted, fetching, ws, timer, unused, mounts, faults>>
  BY DEF Opened, SetClient, SetServer
<1>2. TabTypes' /\ HubTypes'
  BY <1>1, NoAttempt, HubTypesSame DEF Types, TabTypes
<1>3. SocketTypes'
  BY <1>1 DEF Types, SocketTypes, ClientStates
<1>4. TabKeeps
  BY <1>1 DEF TabKeeps, Types, SocketTypes
<1>5. QED
  BY <1>2, <1>3, <1>4 DEF Types

LEMMA ClosedTypes == ASSUME Types, NEW s \in Sockets, Closed(s) PROVE Types' /\ TabKeeps
<1>1. /\ client[s] # "none" /\ client' = [client EXCEPT ![s] = "closed"] /\ connected' = FALSE
      /\ Fault \/ UNCHANGED faults
      /\ timer' \in {"off", "armed", "stale"} /\ attempts' \in 0..MaxAttempts
      /\ UNCHANGED <<hubVars, active, worker, server, got, mounted, fetching, ws, unused, mounts>>
  BY NextAttempt DEF Closed, SetClient
<1>2. faults' \in Nat
  BY <1>1, FaultIs
<1>3. TabTypes' /\ HubTypes'
  BY <1>1, <1>2, HubTypesSame DEF Types, TabTypes
<1>4. SocketTypes'
  BY <1>1 DEF Types, SocketTypes, ClientStates
<1>5. TabKeeps
  BY <1>1 DEF TabKeeps, Types, SocketTypes
<1>6. QED
  BY <1>3, <1>4, <1>5 DEF Types

LEMMA FetchedTypes ==
  ASSUME Types, NEW s \in Sockets, NEW w \in Workers, Fetched(s, w)
  PROVE  /\ Types' /\ UNCHANGED <<hubVars, active, server, got>>
         /\ s \in unused /\ unused' = unused \ {s}
         /\ \A r \in Sockets \ {s} : worker'[r] = worker[r] /\ client'[r] = client[r]
         /\ client'[s] = "connecting"
<1>1. /\ s \in unused /\ unused' = unused \ {s} /\ fetching' = FALSE /\ ws' = s
      /\ client' = [client EXCEPT ![s] = "connecting"] /\ worker' = [worker EXCEPT ![s] = w]
      /\ UNCHANGED <<hubVars, active, server, got, mounted, connected, timer, attempts, mounts, faults>>
  BY DEF Fetched, SetClient
<1>2. TabTypes' /\ HubTypes'
  BY <1>1, HubTypesSame DEF Types, TabTypes
<1>3. SocketTypes'
  BY <1>1 DEF Types, SocketTypes, ClientStates
<1>4. QED
  BY <1>1, <1>2, <1>3 DEF Types, SocketTypes

-----------------------------------------------------------------------------
(* The order is kept.                                                      *)

LEMMA RoutedKept == ASSUME Types, Types', Routed, HubLoses PROVE Routed'
<1>1. ASSUME NEW m \in Messages
      PROVE  (at[m] # None <=> route[m] = "taken") /\ (m \in ToSet(log) <=> route[m] \in {"taken", "channel", "both"})
  BY DEF Routed
<1>2. ToSet(log') = ToSet(log)
  BY DEF HubLoses
<1>3. ASSUME NEW m \in Messages
      PROVE  (at'[m] # None <=> route'[m] = "taken") /\ (m \in ToSet(log) <=> route'[m] \in {"taken", "channel", "both"})
  <2>1. \/ route'[m] = route[m] /\ at'[m] = at[m]
        \/ route[m] = "taken" /\ route'[m] \in {"channel", "both"} /\ at'[m] = None
        \/ route[m] = "new" /\ route'[m] = "local" /\ at'[m] = at[m]
    BY DEF HubLoses
  <2>2. QED
    BY <1>1, <2>1
<1>4. QED
  BY <1>2, <1>3 DEF Routed

(* A message that has gone out has gone out; one that went out by way of   *)
(* Redis alone did before.                                                 *)
LEMMA RouteKept ==
  ASSUME HubLoses, NEW m \in Messages
  PROVE  /\ route[m] \notin {"none", "new"} => route'[m] \notin {"none", "new"}
         /\ Pure(m)' => Pure(m)
BY DEF HubLoses, Pure

LEMMA ReadIs ==
  ASSUME HubLoses, Types, NEW w \in Workers
  PROVE  /\ ToSet(channel'[w]) \subseteq ToSet(channel[w])
         /\ \A i \in DOMAIN channel'[w] : i \in DOMAIN channel[w] /\ channel'[w][i] = channel[w][i]
BY NothingIs DEF HubLoses

(* What a listener broadcasts it broadcast before.                         *)
LEMMA ListenerCastIs ==
  ASSUME HubLoses, NEW d \in casts', d.by \in Workers
  PROVE  \E c \in casts : SameCast(d, c)
BY DEF HubLoses

LEMMA GotTypes ==
  ASSUME Types, NEW s \in Sockets
  PROVE  ToSet(got[s]) \subseteq Messages /\ \A i \in DOMAIN got[s] : got[s][i] \in ToSet(got[s])
<1>1. got[s] \in Seq(Messages)
  BY DEF Types, SocketTypes
<1>2. DOMAIN got[s] = 1..Len(got[s]) /\ \A i \in 1..Len(got[s]) : got[s][i] \in Messages
  BY <1>1, ElementOfSeq, LenProperties
<1>3. QED
  BY <1>2 DEF ToSet

LEMMA CastsKept ==
  ASSUME Types, Types', Broadcast, OneAtATime, HubLoses
  PROVE  /\ \A w \in Workers : ToSet(channel'[w]) \subseteq ToSet(log')
         /\ \A c \in casts' : route'[c.msg] \notin {"none", "new"} /\ (c.by \notin Workers => ~Pure(c.msg)')
         /\ OneAtATime'
<1>1. \A w \in Workers : ToSet(channel'[w]) \subseteq ToSet(log')
  BY ReadIs DEF Broadcast, HubLoses
<1>2. ASSUME NEW d \in casts'
      PROVE  route'[d.msg] \notin {"none", "new"} /\ (d.by \notin Workers => ~Pure(d.msg)')
  <2>1. CASE \E c \in casts : SameCast(d, c)
    <3>1. PICK c \in casts : SameCast(d, c)
      BY <2>1
    <3>2. c.msg \in Messages /\ d.msg = c.msg /\ d.by = c.by
      BY <3>1, CastIs DEF SameCast
    <3>3. QED
      BY <3>1, <3>2, RouteKept DEF Broadcast
  <2>2. CASE route'[d.msg] \in {"local", "both"}
    BY <2>2 DEF Pure
  <2>3. QED
    BY <2>1, <2>2 DEF HubLoses
<1>3. \A c, d \in casts' : c.by = d.by /\ c.by \in Workers => c = d
  BY DEF HubLoses
<1>4. ASSUME NEW d \in casts', d.by \in Workers PROVE d.by = d.on /\ d.msg \in ToSet(log')
  <2>1. PICK c \in casts : SameCast(d, c)
    BY <1>4, ListenerCastIs
  <2>2. QED
    BY <1>4, <2>1 DEF SameCast, OneAtATime, HubLoses
<1>5. ASSUME NEW d \in casts', NEW s \in d.left PROVE worker'[s] = d.on
  <2>1. CASE \E c \in casts : SameCast(d, c)
    <3>1. PICK c \in casts : SameCast(d, c)
      BY <2>1
    <3>2. s \in c.left /\ d.on = c.on
      BY <3>1 DEF SameCast
    <3>3. QED
      BY <3>1, <3>2 DEF OneAtATime, HubLoses
  <2>2. CASE \A r \in d.left : r \in active /\ worker[r] = d.on
    BY <2>2 DEF HubLoses
  <2>3. QED
    BY <2>1, <2>2 DEF HubLoses
<1>6. OneAtATime'
  BY <1>3, <1>4, <1>5 DEF OneAtATime
<1>7. QED
  BY <1>1, <1>2, <1>6

LEMMA ReadingKept ==
  ASSUME Types, Types', Ordered, HubLoses
  PROVE  ReadInOrder' /\ CastFirst'
<1>1. \A m : Position(m)' = Position(m)
  BY PositionSame DEF HubLoses
<1>2. ASSUME NEW w \in Workers, NEW i \in DOMAIN channel'[w], NEW j \in DOMAIN channel'[w], i < j
      PROVE  (Position(channel[w][i]) < Position(channel[w][j]))'
  <2>1. /\ i \in DOMAIN channel[w] /\ channel'[w][i] = channel[w][i]
        /\ j \in DOMAIN channel[w] /\ channel'[w][j] = channel[w][j]
    BY ReadIs
  <2>2. Position(channel[w][i]) < Position(channel[w][j])
    BY <1>2, <2>1 DEF Ordered, ReadInOrder
  <2>3. QED
    BY <1>1, <2>1, <2>2
<1>3. ASSUME NEW d \in casts', d.by \in Workers, NEW n \in ToSet(channel'[d.by])
      PROVE  Position(d.msg)' < Position(n)'
  <2>1. PICK c \in casts : SameCast(d, c)
    BY <1>3, ListenerCastIs
  <2>2. n \in ToSet(channel[c.by]) /\ d.msg = c.msg /\ c.by \in Workers
    BY <1>3, <2>1, ReadIs DEF SameCast
  <2>3. Position(c.msg) < Position(n)
    BY <2>2 DEF Ordered, CastFirst
  <2>4. QED
    BY <1>1, <2>2, <2>3
<1>4. ReadInOrder'
  BY <1>2 DEF ReadInOrder
<1>5. CastFirst'
  BY <1>3 DEF CastFirst
<1>6. QED
  BY <1>4, <1>5

(* What is before all that is to come stays so.                            *)
LEMMA BeforeKept ==
  ASSUME Types, HubLoses, NEW s \in Sockets, NEW m \in Messages,
         worker[s] \in Workers => \A n \in ToSet(channel[worker[s]]) : Position(m) < Position(n),
         \A c \in casts : c.by \in Workers /\ s \in c.left => Position(m) < Position(c.msg)
  PROVE  /\ worker'[s] \in Workers => \A n \in ToSet(channel'[worker'[s]]) : Position(m)' < Position(n)'
         /\ \A c \in casts' : c.by \in Workers /\ s \in c.left => Position(m)' < Position(c.msg)'
<1>1. \A n : Position(n)' = Position(n)
  BY PositionSame DEF HubLoses
<1>2. worker' = worker
  BY DEF HubLoses
<1>3. ASSUME worker[s] \in Workers, NEW n \in ToSet(channel'[worker[s]])
      PROVE  Position(m)' < Position(n)'
  <2>1. n \in ToSet(channel[worker[s]])
    BY <1>3, ReadIs
  <2>2. QED
    BY <1>1, <1>3, <2>1
<1>4. ASSUME NEW d \in casts', d.by \in Workers, s \in d.left
      PROVE  Position(m)' < Position(d.msg)'
  <2>1. PICK c \in casts : SameCast(d, c)
    BY <1>4, ListenerCastIs
  <2>2. c.by \in Workers /\ s \in c.left /\ d.msg = c.msg
    BY <1>4, <2>1 DEF SameCast
  <2>3. QED
    BY <1>1, <2>1, <2>2
<1>5. QED
  BY <1>2, <1>3, <1>4

LEMMA UnopenedKept ==
  ASSUME Types, Unopened, HubLoses, active' \subseteq active,
         \A s \in Sockets : server'[s] = server[s] \/ server[s] # "none",
         \A s \in Sockets : got'[s] = got[s] \/ \E c \in casts : s \in c.left
  PROVE  Unopened'
<1>1. client' = client /\ unused' = unused
  BY DEF HubLoses
<1>2. \A s \in Sockets : client[s] = "none" => server'[s] = "none"
  BY DEF Unopened
<1>3. \A s \in unused : s \in Sockets /\ client[s] = "none" /\ s \notin active /\ s \notin active' /\ got'[s] = <<>>
  BY DEF Unopened, Types, TabTypes
<1>4. ASSUME NEW s \in unused, NEW d \in casts' PROVE s \notin d.left
  <2>1. CASE \E c \in casts : SameCast(d, c)
    <3>1. PICK c \in casts : SameCast(d, c)
      BY <2>1
    <3>2. QED
      BY <3>1 DEF SameCast, Unopened
  <2>2. CASE \A r \in d.left : r \in active
    BY <1>3, <2>2
  <2>3. QED
    BY <2>1, <2>2 DEF HubLoses
<1>5. QED
  BY <1>1, <1>2, <1>3, <1>4 DEF Unopened

(* Nothing is received.                                                    *)
LEMMA LosesStep ==
  ASSUME Feed, Types', HubLoses, UNCHANGED got, active' \subseteq active,
         \A s \in Sockets : server'[s] = server[s] \/ server[s] # "none"
  PROVE  Feed'
<1> USE DEF Feed
<1>1. Routed' /\ Unopened' /\ OneAtATime' /\ ReadInOrder' /\ CastFirst'
  BY RoutedKept, UnopenedKept, CastsKept, ReadingKept
<1>2. ASSUME NEW s \in Sockets, NEW m \in ToSet(got[s])
      PROVE  /\ m \in Messages
             /\ route'[m] \notin {"none", "new"}
             /\ Pure(m)' => /\ Pure(m)
                            /\ worker'[s] \in Workers => \A n \in ToSet(channel'[worker'[s]]) : Position(m)' < Position(n)'
                            /\ \A c \in casts' : c.by \in Workers /\ s \in c.left => Position(m)' < Position(c.msg)'
  <2>1. m \in Messages /\ route[m] \notin {"none", "new"}
    BY GotTypes DEF Broadcast
  <2>2. route'[m] \notin {"none", "new"} /\ (Pure(m)' => Pure(m))
    BY <2>1, RouteKept
  <2>3. Pure(m) => /\ worker[s] \in Workers => \A n \in ToSet(channel[worker[s]]) : Position(m) < Position(n)
                   /\ \A c \in casts : c.by \in Workers /\ s \in c.left => Position(m) < Position(c.msg)
    BY DEF Ordered, GotBefore
  <2>4. QED
    BY <2>1, <2>2, <2>3, BeforeKept
<1>3. Broadcast'
  BY <1>2, CastsKept DEF Broadcast
<1>4. GotBefore'
  BY <1>2 DEF GotBefore
<1>5. ASSUME NEW s \in Sockets, NEW i \in DOMAIN got[s], NEW j \in DOMAIN got[s],
             i < j, Pure(got[s][i])', Pure(got[s][j])'
      PROVE  Position(got[s][i])' < Position(got[s][j])'
  <2>1. got[s][i] \in ToSet(got[s]) /\ got[s][j] \in ToSet(got[s])
    BY GotTypes
  <2>2. Pure(got[s][i]) /\ Pure(got[s][j])
    BY <1>2, <1>5, <2>1
  <2>3. \A m : Position(m)' = Position(m)
    BY PositionSame DEF HubLoses
  <2>4. QED
    BY <1>5, <2>2, <2>3 DEF Ordered, GotInOrder
<1>6. GotInOrder'
  BY <1>5 DEF GotInOrder
<1>7. QED
  BY <1>1, <1>3, <1>4, <1>6 DEF Ordered

(* A socket gets a message of a cast that has not tried it before.         *)
LEMMA ReceiveStep ==
  ASSUME Feed, Types', HubLoses, UNCHANGED <<route, channel, active, server>>,
         NEW c \in casts, NEW s \in c.left, s \in Sockets, Receive(s, c.msg),
         \A d \in casts' : d.by = c.by /\ c.by \in Workers => s \notin d.left
  PROVE  Feed'
<1> USE DEF Feed
<1>1. c.msg \in Messages
  BY CastIs
<1>2. /\ got[s] \in Seq(Messages) /\ got'[s] = Append(got[s], c.msg)
      /\ \A r \in Sockets \ {s} : got'[r] = got[r]
  BY <1>1, ReceiveIs DEF Types, SocketTypes
<1>3. /\ ToSet(got'[s]) = ToSet(got[s]) \cup {c.msg} /\ Len(got[s]) \in Nat
      /\ DOMAIN got[s] = 1..Len(got[s]) /\ DOMAIN got'[s] = 1..(Len(got[s]) + 1)
      /\ \A i \in 1..Len(got[s]) : got'[s][i] = got[s][i]
      /\ got'[s][Len(got[s]) + 1] = c.msg
  BY <1>1, <1>2, AppendIs
<1>4. Routed' /\ OneAtATime' /\ ReadInOrder' /\ CastFirst'
  BY RoutedKept, CastsKept, ReadingKept
<1>5. Unopened'
  BY <1>2, UnopenedKept
<1>6. \A m : Position(m)' = Position(m) /\ (Pure(m)' <=> Pure(m))
  BY PositionSame DEF HubLoses, Pure
<1>7. worker' = worker /\ route' = route
  BY DEF HubLoses
<1>8. Broadcast'
  <2>1. \A r \in Sockets : \A m \in ToSet(got'[r]) : m \in ToSet(got[r]) \/ m = c.msg
    BY <1>2, <1>3
  <2>2. \A r \in Sockets : \A m \in ToSet(got'[r]) : route'[m] \notin {"none", "new"}
    BY <1>7, <2>1 DEF Broadcast
  <2>3. QED
    BY <2>2, CastsKept DEF Broadcast
<1>9. ASSUME Pure(c.msg)
      PROVE  /\ c.by \in Workers /\ c.by = worker[s]
             /\ \A n \in ToSet(channel[worker[s]]) : Position(c.msg) < Position(n)
             /\ \A d \in casts' : d.by \in Workers => s \notin d.left
  <2>1. c.by \in Workers
    BY <1>9 DEF Broadcast
  <2>2. c.by = c.on /\ worker[s] = c.on
    BY <2>1 DEF OneAtATime
  <2>3. \A n \in ToSet(channel[c.by]) : Position(c.msg) < Position(n)
    BY <2>1 DEF Ordered, CastFirst
  <2>4. ASSUME NEW d \in casts', d.by \in Workers, s \in d.left PROVE FALSE
    <3>1. d.by = d.on /\ worker'[s] = d.on
      BY <1>4, <2>4 DEF OneAtATime
    <3>2. d.by = c.by
      BY <1>7, <2>2, <3>1
    <3>3. QED
      BY <2>1, <2>4, <3>2
  <2>5. QED
    BY <2>1, <2>2, <2>3, <2>4
<1>10. ASSUME NEW r \in Sockets, NEW m \in ToSet(got'[r]), Pure(m)
       PROVE  /\ worker'[r] \in Workers => \A n \in ToSet(channel'[worker'[r]]) : Position(m)' < Position(n)'
              /\ \A d \in casts' : d.by \in Workers /\ r \in d.left => Position(m)' < Position(d.msg)'
  <2>1. CASE m \in ToSet(got[r])
    <3>1. m \in Messages
      BY <2>1, GotTypes
    <3>2. /\ worker[r] \in Workers => \A n \in ToSet(channel[worker[r]]) : Position(m) < Position(n)
          /\ \A d \in casts : d.by \in Workers /\ r \in d.left => Position(m) < Position(d.msg)
      BY <1>10, <2>1 DEF Ordered, GotBefore
    <3>3. QED
      BY <3>1, <3>2, BeforeKept
  <2>2. CASE r = s /\ m = c.msg
    BY <1>6, <1>7, <1>9, <1>10, <2>2
  <2>3. QED
    BY <1>2, <1>3, <2>1, <2>2
<1>11. GotBefore'
  BY <1>6, <1>10 DEF GotBefore
<1>12. ASSUME NEW r \in Sockets, NEW i \in DOMAIN got'[r], NEW j \in DOMAIN got'[r], i < j,
              Pure(got'[r][i]), Pure(got'[r][j])
       PROVE  Position(got'[r][i]) < Position(got'[r][j])
  <2>1. CASE i \in DOMAIN got[r] /\ j \in DOMAIN got[r] /\ got'[r][i] = got[r][i] /\ got'[r][j] = got[r][j]
    BY <1>12, <2>1 DEF Ordered, GotInOrder
  <2>2. CASE r = s /\ i \in DOMAIN got[s] /\ got'[s][i] = got[s][i] /\ got'[s][j] = c.msg
    <3>1. got[s][i] \in ToSet(got[s])
      BY <2>2, GotTypes
    <3>2. Pure(got[s][i]) /\ Pure(c.msg)
      BY <1>12, <2>2
    <3>3. c.by \in Workers
      BY <1>9, <3>2
    <3>4. Position(got[s][i]) < Position(c.msg)
      BY <3>1, <3>2, <3>3 DEF Ordered, GotBefore
    <3>5. QED
      BY <2>2, <3>4
  <2>3. CASE r # s
    BY <1>2, <2>1, <2>3
  <2>4. CASE r = s /\ j \in DOMAIN got[s]
    <3>1. i \in DOMAIN got[s]
      BY <1>3, <1>12, <2>4
    <3>2. got'[s][i] = got[s][i] /\ got'[s][j] = got[s][j]
      BY <1>3, <2>4, <3>1
    <3>3. QED
      BY <2>1, <2>4, <3>1, <3>2
  <2>5. CASE r = s /\ j = Len(got[s]) + 1
    <3>1. i \in DOMAIN got[s] /\ got'[s][i] = got[s][i]
      BY <1>3, <1>12, <2>5
    <3>2. got'[s][j] = c.msg
      BY <1>3, <2>5
    <3>3. QED
      BY <2>2, <2>5, <3>1, <3>2
  <2>6. QED
    BY <1>3, <2>3, <2>4, <2>5
<1>13. GotInOrder'
  BY <1>6, <1>12 DEF GotInOrder
<1>14. QED
  BY <1>4, <1>5, <1>8, <1>11, <1>13 DEF Ordered

LEMMA TabStep == ASSUME Feed, Types', TabKeeps PROVE Feed'
<1> USE DEF Feed
<1>1. \A m : Position(m)' = Position(m) /\ (Pure(m)' <=> Pure(m))
  BY PositionSame DEF TabKeeps, hubVars, Pure
<1>2. UNCHANGED <<route, at, log, channel, casts, worker, got, unused>>
  BY DEF TabKeeps, hubVars
<1>3. Routed' /\ OneAtATime' /\ Broadcast'
  BY <1>1, <1>2 DEF Routed, OneAtATime, Broadcast, Pure
<1>4. Unopened'
  <2>1. \A s \in Sockets : client'[s] = "none" => server'[s] = "none"
    BY DEF TabKeeps, Unopened
  <2>2. \A s \in unused : s \in Sockets /\ client'[s] = "none" /\ s \notin active'
    BY DEF TabKeeps, Unopened, Types, TabTypes
  <2>3. QED
    BY <1>2, <2>1, <2>2 DEF Unopened
<1>5. ReadInOrder' /\ CastFirst'
  BY <1>1, <1>2 DEF Ordered, ReadInOrder, CastFirst
<1>6. GotBefore'
  BY <1>1, <1>2 DEF Ordered, GotBefore
<1>7. GotInOrder'
  BY <1>1, <1>2 DEF Ordered, GotInOrder
<1>8. QED
  BY <1>3, <1>4, <1>5, <1>6, <1>7 DEF Ordered

(* A new socket has got nothing, and no cast tries it.                     *)
LEMMA NewSocketStep == ASSUME Feed, NEW s \in Sockets, NEW w \in Workers, Fetched(s, w) PROVE Feed'
<1> USE DEF Feed
<1>1. /\ Types' /\ UNCHANGED <<route, at, log, channel, casts, active, server, got>>
      /\ s \in unused /\ unused' = unused \ {s}
      /\ \A r \in Sockets \ {s} : worker'[r] = worker[r] /\ client'[r] = client[r]
      /\ client'[s] = "connecting"
  BY FetchedTypes DEF hubVars
<1>2. got[s] = <<>> /\ \A c \in casts : s \notin c.left
  BY <1>1 DEF Unopened
<1>3. \A m : Position(m)' = Position(m) /\ (Pure(m)' <=> Pure(m))
  BY <1>1, PositionSame DEF Pure
<1>4. Routed' /\ Broadcast'
  BY <1>1, <1>3 DEF Routed, Broadcast
<1>5. OneAtATime'
  <2>1. \A c \in casts : \A r \in c.left : worker'[r] = c.on
    BY <1>1, <1>2, CastIs DEF OneAtATime
  <2>2. QED
    BY <1>1, <2>1 DEF OneAtATime
<1>6. Unopened'
  <2>1. \A r \in Sockets : client'[r] = "none" => server'[r] = "none"
    BY <1>1 DEF Unopened
  <2>2. \A r \in unused' : r \in unused /\ client'[r] = client[r]
    BY <1>1 DEF Types, TabTypes
  <2>3. QED
    BY <1>1, <2>1, <2>2 DEF Unopened
<1>7. ReadInOrder' /\ CastFirst' /\ GotInOrder'
  BY <1>1, <1>3 DEF Ordered, ReadInOrder, CastFirst, GotInOrder
<1>8. ASSUME NEW r \in Sockets, NEW m \in ToSet(got[r]), Pure(m)
      PROVE  /\ worker'[r] \in Workers => \A n \in ToSet(channel'[worker'[r]]) : Position(m)' < Position(n)'
             /\ \A d \in casts' : d.by \in Workers /\ r \in d.left => Position(m)' < Position(d.msg)'
  <2>1. r # s
    BY <1>2, NothingIs
  <2>2. /\ worker[r] \in Workers => \A n \in ToSet(channel[worker[r]]) : Position(m) < Position(n)
        /\ \A d \in casts : d.by \in Workers /\ r \in d.left => Position(m) < Position(d.msg)
    BY <1>8 DEF Ordered, GotBefore
  <2>3. QED
    BY <1>1, <1>3, <2>1, <2>2
<1>9. GotBefore'
  BY <1>1, <1>3, <1>8 DEF GotBefore
<1>10. Ordered'
  BY <1>7, <1>9 DEF Ordered
<1>11. QED
  BY <1>1, <1>4, <1>5, <1>6, <1>10

(* What is published comes after all that was.                             *)
LEMMA PublishStep == ASSUME Feed, NEW m \in Messages, NEW w \in Workers, Publish(m, w) PROVE Feed'
<1> USE DEF Feed
<1>1. /\ Types' /\ route[m] = "new" /\ m \notin ToSet(log)
      /\ \A n \in Messages : /\ route'[n] = IF n = m THEN "taken" ELSE route[n]
                             /\ at'[n] = IF n = m THEN w ELSE at[n]
      /\ log' = Append(log, m)
      /\ \A v \in Workers : channel'[v] = channel[v] \/ channel'[v] = Append(channel[v], m)
      /\ UNCHANGED <<casts, active, worker, server, client, got, unused>>
  BY PublishTypes DEF socketVars, storeVars
<1>2. /\ ToSet(log') = ToSet(log) \cup {m}
      /\ \A n \in ToSet(log) : Position(n)' = Position(n) /\ Position(n) < Position(m)'
  BY <1>1, PublishedLast DEF Types
<1>3. \A n \in Messages : n # m => (Pure(n)' <=> Pure(n)) /\ route'[n] = route[n]
  BY <1>1 DEF Pure
<1>4. \A n \in Messages : Pure(n) => n \in ToSet(log)
  BY DEF Routed, Pure
<1>5. Routed'
  <2>1. ASSUME NEW n \in Messages
        PROVE  (at'[n] # None <=> route'[n] = "taken") /\ (n \in ToSet(log') <=> route'[n] \in {"taken", "channel", "both"})
    <3>1. CASE n = m
      BY <1>1, <1>2, <3>1, BoundsAssumption
    <3>2. CASE n # m
      BY <1>1, <1>2, <3>2 DEF Routed
    <3>3. QED
      BY <3>1, <3>2
  <2>2. QED
    BY <2>1 DEF Routed
<1>6. ASSUME NEW v \in Workers
      PROVE  /\ ToSet(channel'[v]) \subseteq ToSet(channel[v]) \cup {m} /\ ToSet(channel[v]) \subseteq ToSet(log)
             /\ \A i \in DOMAIN channel'[v] : \/ i \in DOMAIN channel[v] /\ channel'[v][i] = channel[v][i]
                                              \/ channel'[v][i] = m /\ \A j \in DOMAIN channel'[v] : j <= i
             /\ \A i \in DOMAIN channel[v] : channel[v][i] \in ToSet(log)
  <2>1. channel[v] \in Seq(Messages) /\ ToSet(channel[v]) \subseteq ToSet(log)
    BY DEF Types, HubTypes, Broadcast
  <2>2. \A i \in DOMAIN channel[v] : channel[v][i] \in ToSet(log)
    BY <2>1 DEF ToSet
  <2>3. CASE channel'[v] = channel[v]
    BY <2>1, <2>2, <2>3
  <2>4. CASE channel'[v] = Append(channel[v], m)
    <3>1. /\ ToSet(channel'[v]) = ToSet(channel[v]) \cup {m}
          /\ DOMAIN channel[v] = 1..Len(channel[v]) /\ Len(channel[v]) \in Nat
          /\ DOMAIN channel'[v] = 1..(Len(channel[v]) + 1)
          /\ \A i \in 1..Len(channel[v]) : channel'[v][i] = channel[v][i]
          /\ channel'[v][Len(channel[v]) + 1] = m
      BY <2>1, <2>4, AppendIs
    <3>2. QED
      BY <2>1, <2>2, <3>1
  <2>5. QED
    BY <1>1, <2>3, <2>4
<1>7. ASSUME NEW s \in Sockets, NEW n \in ToSet(got[s])
      PROVE  /\ n \in Messages /\ n # m /\ route'[n] \notin {"none", "new"}
             /\ Pure(n)' => Pure(n) /\ n \in ToSet(log)
  <2>1. n \in Messages /\ route[n] \notin {"none", "new"}
    BY GotTypes DEF Broadcast
  <2>2. QED
    BY <1>1, <1>3, <1>4, <2>1
<1>8. ASSUME NEW c \in casts
      PROVE  /\ route'[c.msg] \notin {"none", "new"} /\ (c.by \notin Workers => ~Pure(c.msg)')
             /\ c.by \in Workers => c.msg \in ToSet(log)
  <2>1. c.msg \in Messages /\ route[c.msg] \notin {"none", "new"} /\ (c.by \notin Workers => ~Pure(c.msg))
    BY CastIs DEF Broadcast
  <2>2. c.msg # m
    BY <1>1, <2>1
  <2>3. QED
    BY <1>3, <2>1, <2>2 DEF OneAtATime
<1>9. Broadcast'
  <2>1. \A v \in Workers : ToSet(channel'[v]) \subseteq ToSet(log')
    BY <1>2, <1>6
  <2>2. QED
    BY <1>1, <1>7, <1>8, <2>1 DEF Broadcast
<1>10. Unopened' /\ OneAtATime'
  BY <1>1, <1>2 DEF Unopened, OneAtATime
<1>11. ASSUME NEW v \in Workers, NEW i \in DOMAIN channel'[v], NEW j \in DOMAIN channel'[v], i < j
       PROVE  (Position(channel[v][i]) < Position(channel[v][j]))'
  <2>1. i \in DOMAIN channel[v] /\ channel'[v][i] = channel[v][i] /\ channel[v][i] \in ToSet(log)
    <3>1. \/ i \in DOMAIN channel[v] /\ channel'[v][i] = channel[v][i]
          \/ \A k \in DOMAIN channel'[v] : k <= i
      BY <1>6
    <3>2. i \in Int /\ j \in Int
      <4>1. channel'[v] \in Seq(Messages)
        BY <1>1 DEF Types, HubTypes
      <4>2. DOMAIN channel'[v] = 1..Len(channel'[v]) /\ Len(channel'[v]) \in Nat
        BY <4>1, LenProperties
      <4>3. QED
        BY <4>2
    <3>3. ~(j <= i)
      BY <1>11, <3>2
    <3>4. QED
      BY <1>6, <3>1, <3>3
  <2>2. CASE channel'[v][j] = m
    BY <1>2, <2>1, <2>2
  <2>3. CASE j \in DOMAIN channel[v] /\ channel'[v][j] = channel[v][j]
    <3>1. channel[v][j] \in ToSet(log)
      BY <1>6, <2>3
    <3>2. Position(channel[v][i]) < Position(channel[v][j])
      BY <1>11, <2>1, <2>3 DEF Ordered, ReadInOrder
    <3>3. QED
      BY <1>2, <2>1, <2>3, <3>1, <3>2
  <2>4. QED
    BY <1>6, <2>2, <2>3
<1>12. ReadInOrder'
  BY <1>11 DEF ReadInOrder
<1>13. ASSUME NEW c \in casts, c.by \in Workers, NEW n \in ToSet(channel'[c.by])
       PROVE  Position(c.msg)' < Position(n)'
  <2>1. c.msg \in ToSet(log)
    BY <1>8, <1>13
  <2>2. CASE n = m
    BY <1>2, <2>1, <2>2
  <2>3. CASE n \in ToSet(channel[c.by])
    <3>1. Position(c.msg) < Position(n) /\ n \in ToSet(log)
      BY <1>6, <1>13, <2>3 DEF Ordered, CastFirst
    <3>2. QED
      BY <1>2, <2>1, <3>1
  <2>4. QED
    BY <1>6, <1>13, <2>2, <2>3
<1>14. CastFirst'
  BY <1>1, <1>13 DEF CastFirst
<1>15. ASSUME NEW s \in Sockets, NEW k \in ToSet(got[s]), Pure(k)'
       PROVE  /\ worker[s] \in Workers => \A n \in ToSet(channel'[worker[s]]) : Position(k)' < Position(n)'
              /\ \A c \in casts : c.by \in Workers /\ s \in c.left => Position(k)' < Position(c.msg)'
  <2>1. k \in ToSet(log) /\ Pure(k)
    BY <1>7, <1>15
  <2>2. /\ worker[s] \in Workers => \A n \in ToSet(channel[worker[s]]) : Position(k) < Position(n)
        /\ \A c \in casts : c.by \in Workers /\ s \in c.left => Position(k) < Position(c.msg)
    BY <2>1 DEF Ordered, GotBefore
  <2>3. ASSUME worker[s] \in Workers, NEW n \in ToSet(channel'[worker[s]])
        PROVE  Position(k)' < Position(n)'
    <3>1. CASE n = m
      BY <1>2, <2>1, <3>1
    <3>2. CASE n \in ToSet(channel[worker[s]])
      BY <1>2, <1>6, <2>1, <2>2, <2>3, <3>2
    <3>3. QED
      BY <1>6, <2>3, <3>1, <3>2
  <2>4. \A c \in casts : c.by \in Workers /\ s \in c.left => Position(k)' < Position(c.msg)'
    BY <1>2, <1>8, <2>1, <2>2
  <2>5. QED
    BY <2>3, <2>4
<1>16. GotBefore'
  BY <1>1, <1>15 DEF GotBefore
<1>17. ASSUME NEW s \in Sockets, NEW i \in DOMAIN got[s], NEW j \in DOMAIN got[s], i < j,
              Pure(got[s][i])', Pure(got[s][j])'
       PROVE  Position(got[s][i])' < Position(got[s][j])'
  <2>1. got[s][i] \in ToSet(got[s]) /\ got[s][j] \in ToSet(got[s]) /\ got'[s] = got[s]
    BY <1>1, GotTypes
  <2>2. Pure(got[s][i]) /\ Pure(got[s][j]) /\ got[s][i] \in ToSet(log) /\ got[s][j] \in ToSet(log)
    BY <1>7, <1>17, <2>1
  <2>3. Position(got[s][i]) < Position(got[s][j])
    BY <1>17, <2>2 DEF Ordered, GotInOrder
  <2>4. QED
    BY <1>2, <2>1, <2>2, <2>3
<1>18. GotInOrder'
  BY <1>1, <1>17 DEF GotInOrder
<1>19. Ordered'
  BY <1>12, <1>14, <1>16, <1>18 DEF Ordered
<1>20. QED
  BY <1>1, <1>5, <1>9, <1>10, <1>19

(* The listener goes on with the next message, before all the others.      *)
LEMMA ListenStep == ASSUME Feed, NEW w \in Workers, Listen(w) PROVE Feed'
<1> USE DEF Feed
<1>1. /\ Types' /\ UNCHANGED <<route, at, log, active, worker, server, client, got, unused>>
      /\ (\A c \in casts : c.by # w)
      /\ \E c \in Cast : /\ casts' = casts \cup {c}
                         /\ c.by = w /\ c.on = w /\ c.msg = Head(channel[w])
                         /\ \A s \in c.left : s \in active /\ worker[s] = w
      /\ channel[w] # <<>> /\ channel'[w] = Tail(channel[w])
      /\ \A v \in Workers \ {w} : channel'[v] = channel[v]
  BY ListenTypes
<1>2. PICK e \in Cast : /\ casts' = casts \cup {e}
                        /\ e.by = w /\ e.on = w /\ e.msg = Head(channel[w])
                        /\ \A s \in e.left : s \in active /\ worker[s] = w
  BY <1>1
<1>3. /\ ToSet(channel'[w]) \subseteq ToSet(channel[w]) /\ e.msg \in ToSet(channel[w])
      /\ 1 \in DOMAIN channel[w] /\ e.msg = channel[w][1]
      /\ \A i \in DOMAIN channel'[w] : i \in Nat /\ i > 0 /\ i + 1 \in DOMAIN channel[w] /\ channel'[w][i] = channel[w][i + 1]
  <2>1. channel[w] \in Seq(Messages)
    BY DEF Types, HubTypes
  <2>2. QED
    BY <1>1, <1>2, <2>1, TailIs
<1>4. \A m : Position(m)' = Position(m) /\ (Pure(m)' <=> Pure(m))
  BY <1>1, PositionSame DEF Pure
<1>5. \A v \in Workers : ToSet(channel'[v]) \subseteq ToSet(channel[v])
  BY <1>1, <1>3
<1>6. e.msg \in ToSet(log) /\ e.msg \in Messages /\ route[e.msg] \notin {"none", "new"}
  <2>1. e.msg \in ToSet(log)
    BY <1>3 DEF Broadcast
  <2>2. e.msg \in Messages
    BY DEF Cast
  <2>3. QED
    BY <2>1, <2>2 DEF Routed
<1>7. Routed'
  BY <1>1 DEF Routed
<1>8. Broadcast'
  <2>1. \A v \in Workers : ToSet(channel'[v]) \subseteq ToSet(log')
    BY <1>1, <1>5 DEF Broadcast
  <2>2. \A c \in casts' : route'[c.msg] \notin {"none", "new"} /\ (c.by \notin Workers => ~Pure(c.msg)')
    BY <1>1, <1>2, <1>4, <1>6 DEF Broadcast
  <2>3. QED
    BY <1>1, <2>1, <2>2 DEF Broadcast
<1>9. Unopened'
  BY <1>1, <1>2 DEF Unopened
<1>10. OneAtATime'
  BY <1>1, <1>2, <1>6 DEF OneAtATime
<1>11. ReadInOrder'
  <2>1. ASSUME NEW v \in Workers, NEW i \in DOMAIN channel'[v], NEW j \in DOMAIN channel'[v], i < j
        PROVE  (Position(channel[v][i]) < Position(channel[v][j]))'
    <3>1. CASE v = w
      <4>1. Position(channel[w][i + 1]) < Position(channel[w][j + 1])
        BY <1>3, <2>1, <3>1 DEF Ordered, ReadInOrder
      <4>2. QED
        BY <1>3, <1>4, <3>1, <4>1
    <3>2. CASE v # w
      BY <1>1, <1>4, <2>1, <3>2 DEF Ordered, ReadInOrder
    <3>3. QED
      BY <3>1, <3>2
  <2>2. QED
    BY <2>1 DEF ReadInOrder
<1>12. CastFirst'
  <2>1. ASSUME NEW n \in ToSet(channel'[w]) PROVE Position(e.msg) < Position(n)
    <3>1. PICK i \in DOMAIN channel'[w] : channel'[w][i] = n
      BY DEF ToSet
    <3>2. i \in Nat /\ i > 0 /\ i + 1 \in DOMAIN channel[w] /\ n = channel[w][i + 1]
      BY <1>3, <3>1
    <3>3. Position(channel[w][1]) < Position(channel[w][i + 1])
      BY <1>3, <3>2 DEF Ordered, ReadInOrder
    <3>4. QED
      BY <1>3, <3>2, <3>3
  <2>2. \A c \in casts' : c = e \/ c \in casts
    BY <1>2
  <2>3. \A c \in casts : c.by \in Workers => \A n \in ToSet(channel'[c.by]) : Position(c.msg) < Position(n)
    BY <1>5 DEF Ordered, CastFirst
  <2>4. \A c \in casts' : c.by \in Workers => \A n \in ToSet(channel'[c.by]) : Position(c.msg) < Position(n)
    BY <1>2, <2>1, <2>2, <2>3
  <2>5. QED
    BY <1>4, <2>4 DEF CastFirst
<1>13. GotBefore'
  <2>1. ASSUME NEW s \in Sockets, NEW m \in ToSet(got[s]), Pure(m)
        PROVE  /\ worker[s] \in Workers => \A n \in ToSet(channel'[worker[s]]) : Position(m) < Position(n)
               /\ \A c \in casts' : c.by \in Workers /\ s \in c.left => Position(m) < Position(c.msg)
    <3>1. /\ worker[s] \in Workers => \A n \in ToSet(channel[worker[s]]) : Position(m) < Position(n)
          /\ \A c \in casts : c.by \in Workers /\ s \in c.left => Position(m) < Position(c.msg)
      BY <2>1 DEF Ordered, GotBefore
    <3>2. s \in e.left => Position(m) < Position(e.msg)
      BY <1>2, <1>3, <3>1
    <3>3. QED
      BY <1>2, <1>5, <3>1, <3>2
  <2>2. QED
    BY <1>1, <1>4, <2>1 DEF GotBefore
<1>14. GotInOrder'
  BY <1>1, <1>4 DEF Ordered, GotInOrder
<1>15. Ordered'
  BY <1>11, <1>12, <1>13, <1>14 DEF Ordered
<1>16. QED
  BY <1>1, <1>7, <1>8, <1>9, <1>10, <1>15

LEMMA UnchangedStep == ASSUME Feed, UNCHANGED vars PROVE Feed'
<1>1. Types'
  BY DEF Feed, Types, HubTypes, SocketTypes, TabTypes, vars, hubVars, socketVars, storeVars
<1>2. TabKeeps
  BY DEF TabKeeps, vars, socketVars, storeVars
<1>3. QED
  BY <1>1, <1>2, TabStep

LEMMA CastingStep == ASSUME Feed, Casting PROVE Feed'
<1>1. Types /\ OneAtATime
  BY DEF Feed
<1>2. PICK c \in casts, s \in Sockets : Send(c, s) \/ SendTimesOut(c, s) \/ SendFails(c, s) \/ EndCast(c)
  BY DEF Casting
<1>3. CASE Send(c, s) \/ SendTimesOut(c, s) \/ SendFails(c, s)
  <2>1. /\ s \in c.left
        /\ \E failed \in BOOLEAN : Replace(c, Tried(c, s, failed))
        /\ UNCHANGED got \/ Receive(s, c.msg)
        /\ Fault \/ UNCHANGED faults
        /\ UNCHANGED <<backend, route, at, log, subscribed, channel, active, worker, server, client, storeVars>>
    <3>1. CASE Send(c, s)
      BY <3>1 DEF Send
    <3>2. CASE SendTimesOut(c, s)
      BY <3>2 DEF SendTimesOut
    <3>3. CASE SendFails(c, s)
      BY <3>3 DEF SendFails, socketVars
    <3>4. QED
      BY <1>3, <3>1, <3>2, <3>3
  <2>2. PICK failed \in BOOLEAN : Replace(c, Tried(c, s, failed))
    BY <2>1
  <2>3. /\ Types' /\ HubLoses
        /\ \A d \in casts' : d.by = c.by /\ c.by \in Workers => s \notin d.left
    BY <1>1, <2>1, <2>2, TriedTypes
  <2>4. CASE UNCHANGED got
    BY <2>1, <2>3, <2>4, LosesStep
  <2>5. CASE Receive(s, c.msg)
    BY <2>1, <2>3, <2>5, ReceiveStep
  <2>6. QED
    BY <2>1, <2>4, <2>5
<1>4. CASE EndCast(c)
  <2>1. Types' /\ HubLoses /\ UNCHANGED <<got, server>> /\ active' \subseteq active
    BY <1>1, <1>4, EndCastTypes
  <2>2. QED
    BY <2>1, LosesStep
<1>5. QED
  BY <1>2, <1>3, <1>4

LEMMA StepFeed == Feed /\ [Next]_vars => Feed'
<1> SUFFICES ASSUME Feed, [Next]_vars PROVE Feed'
  OBVIOUS
<1>1. Types /\ Routed /\ Unopened /\ OneAtATime
  BY DEF Feed
<1>2. ASSUME NEW m \in Messages, Answered(m) \/ PublishFails(m) PROVE Feed'
  <2>1. Types' /\ HubLoses /\ UNCHANGED <<got, active, server>>
    BY <1>1, <1>2, AnsweredTypes, PublishFailsTypes
  <2>2. QED
    BY <2>1, LosesStep
<1>3. ASSUME NEW m \in Messages, NEW w \in Workers, BroadcastLocally(m, w) PROVE Feed'
  <2>1. Types' /\ HubLoses /\ UNCHANGED <<got, active, server>>
    BY <1>1, <1>3, LocalTypes
  <2>2. QED
    BY <2>1, LosesStep
<1>4. ASSUME NEW w \in Workers, Subscribe(w) \/ ListenerFails(w) PROVE Feed'
  <2>1. Types' /\ HubLoses /\ UNCHANGED <<got, active, server>>
    BY <1>1, <1>4, SubscribeTypes
  <2>2. QED
    BY <2>1, LosesStep
<1>5. ASSUME NEW w \in Workers, Restart(w) PROVE Feed'
  <2>1. /\ Types' /\ HubLoses /\ UNCHANGED got /\ active' \subseteq active
        /\ \A s \in Sockets : server'[s] = server[s] \/ (server[s] # "none" /\ server'[s] # "none")
    BY <1>1, <1>5, RestartTypes
  <2>2. QED
    BY <2>1, LosesStep
<1>6. CASE Serving
  <2>1. Types' /\ TabKeeps
    BY <1>1, <1>6, ServingTypes DEF Serving
  <2>2. QED
    BY <2>1, TabStep
<1>7. CASE Mount \/ Unmount \/ TimerFires \/ FetchFails
  <2>1. Types' /\ TabKeeps
    BY <1>1, <1>7, QuietTypes, UnmountTypes
  <2>2. QED
    BY <2>1, TabStep
<1>8. ASSUME NEW s \in Sockets, Opened(s) \/ Closed(s) PROVE Feed'
  <2>1. Types' /\ TabKeeps
    BY <1>1, <1>8, OpenedTypes, ClosedTypes
  <2>2. QED
    BY <2>1, TabStep
<1>9. CASE Store
  BY <1>7, <1>8, <1>9, NewSocketStep DEF Store
<1>10. QED
  BY <1>2, <1>3, <1>4, <1>5, <1>6, <1>7, <1>9, PublishStep, ListenStep, CastingStep, UnchangedStep
  DEF Next, Listening

LEMMA InitFeed == Init => Feed
<1> SUFFICES ASSUME Init PROVE Feed
  OBVIOUS
<1>1. PICK l \in Loads :
        /\ backend = l.backend
        /\ route = [m \in Messages |-> IF m \in l.messages THEN "new" ELSE "none"]
        /\ unused = l.sockets /\ mounts = l.mounts /\ faults = l.faults
  BY DEF Init
<1>2. backend \in {"redis", "memory"} /\ unused \subseteq Sockets /\ mounts \in Nat /\ faults \in Nat
  BY <1>1, BoundsAssumption
<1>3. /\ at = [m \in Messages |-> None] /\ log = <<>> /\ subscribed = {} /\ channel = [w \in Workers |-> <<>>]
      /\ active = {} /\ casts = {} /\ worker = [s \in Sockets |-> None]
      /\ server = [s \in Sockets |-> "none"] /\ client = [s \in Sockets |-> "none"]
      /\ got = [s \in Sockets |-> <<>>]
      /\ mounted = FALSE /\ connected = FALSE /\ fetching = FALSE /\ ws = None /\ timer = "off" /\ attempts = 0
  BY DEF Init
<1>4. log \in Seq(Messages) /\ ToSet(log) = {} /\ DOMAIN log = {}
  BY <1>3, NothingIs
<1>5. HubTypes
  BY <1>1, <1>2, <1>3, <1>4, NothingIs DEF HubTypes, IsInjective
<1>6. SocketTypes
  BY <1>3, NothingIs DEF SocketTypes, ClientStates
<1>7. TabTypes
  BY <1>2, <1>3, NoAttempt DEF TabTypes
<1>8. \A w \in Workers : ToSet(channel[w]) = {} /\ DOMAIN channel[w] = {}
  BY <1>3, NothingIs
<1>9. \A s \in Sockets : ToSet(got[s]) = {} /\ DOMAIN got[s] = {}
  BY <1>3, NothingIs
<1>10. Routed
  BY <1>1, <1>3, <1>4 DEF Routed
<1>11. Broadcast /\ Unopened /\ OneAtATime
  BY <1>2, <1>3, <1>8, <1>9 DEF Broadcast, Unopened, OneAtATime
<1>12. ReadInOrder /\ CastFirst /\ GotBefore /\ GotInOrder
  BY <1>3, <1>8, <1>9 DEF ReadInOrder, CastFirst, GotBefore, GotInOrder
<1>13. QED
  BY <1>5, <1>6, <1>7, <1>10, <1>11, <1>12 DEF Feed, Types, Ordered

(* What a tab gets by way of Redis alone comes in the order in which Redis *)
(* published it, and nothing twice, for any number of workers, messages,   *)
(* sockets, reconnections and restarts: a listener reads on only when its  *)
(* last broadcast is over, and a socket stays with its worker              *)
(* (FeedInOrder).                                                          *)
THEOREM FeedKeepsOrder == Spec => []FeedInOrder
<1> QED
  BY InitFeed, StepFeed, FeedIsInOrder, PTL DEF Spec

-----------------------------------------------------------------------------
(* DashboardCache: what is cached, shown and said of any number of changes *)
(* of the user, filters and disturbances (CacheInv).  What it needs of the *)
(* tables of the pages is ScenesAssumption.                                *)

(* A request is paused only without a network, and only one that asks has  *)
(* an answer.                                                              *)
Asked ==
  \A f \in Filters :
    (fetch[f].st = "paused" => ~online) /\ (fetch[f].got # Unknown => fetch[f].st = "asking")

(* What is shown has no data only while they are fetched, after a failure, *)
(* or while a change of the user that has cancelled the load is under way. *)
Explained ==
  cache[filter].rows = Unknown =>
    Busy(filter) \/ cache[filter].failed \/ (scene.course.cancels /\ \E i \in Changes : Underway(i))

(* Only the user's changes of this query are made, and only those that     *)
(* patch the lists keep a snapshot.                                        *)
Touched == \A i \in Changes : change[i] # "no" => scene.course.touches
Snapshots == ~scene.course.cancels => \A i \in Changes : before[i] = NoSnapshot

(* What is reported as done has been made.                                 *)
Taken == \A i \in Changes : change[i] = "taken" => i \in applied
Reported == scene.course.doneIsDone => \A i \in Changes : said[i] = "done" => i \in applied

(* No patch is in the lists.                                               *)
Calm == ~scene.course.cancels \/ \A i \in Changes : ~Underway(i)

(* A row of which the page has been told that it has changed.              *)
Announced(r) ==
  IF r = Theirs THEN news = "heard" /\ window # "due"
  ELSE Settled(r) /\ scene.course.staysCurrent

(* The row is right in every answer, cached or on its way, that is not     *)
(* known to be old.                                                        *)
Right(r) ==
  \A f \in Filters \ overtaken : r \in Matching[f] =>
    /\ ~Busy(f) /\ cache[f].rows # Unknown /\ ~cache[f].stale /\ ~cache[f].failed
         => (r \in cache[f].rows <=> r \in served)
    /\ fetch[f].got # Unknown => (r \in fetch[f].got <=> r \in served)

Current == Calm => \A r \in Rows : Announced(r) => Right(r)

(* An old answer that is shown is being read again.                        *)
Reread == Calm /\ cache[filter].stale => Busy(filter) \/ cache[filter].failed

CacheInv ==
  /\ CacheTypes /\ Asked /\ Explained /\ Touched /\ Snapshots /\ Taken /\ Reported /\ Current /\ Reread

Entry == [rows : Answer, failed : BOOLEAN, stale : BOOLEAN]
Request == [st : {"idle", "asking", "paused"}, tries : 0..1, got : Answer]

(* The tables are as SceneFacts says.                                      *)
LEMMA SceneFits ==
  ASSUME CacheTypes PROVE CourseFits(scene.course) /\ \A look \in scene.looks : look.emptyIsKnown => LookFits(look)
BY ScenesAssumption DEF CacheTypes

LEMMA NoAnswer == Unknown \in Answer /\ \A S \in SUBSET Rows : S # Unknown
<1>1. \A S \in SUBSET Rows : Unknown # S
  BY CacheAssumption
<1>2. Unknown \in Answer
  BY DEF Answer
<1> QED
  BY <1>1, <1>2

LEMMA AskingFits ==
  ASSUME CacheTypes
  PROVE  /\ Asking \in Request /\ Asking.got = Unknown /\ Asking.st # "idle"
         /\ Asking.st = "paused" => ~online
<1>1. scene.course.retries \in 0..1
  BY SceneFits DEF CourseFits
<1> QED
  BY <1>1, NoAnswer DEF Asking, Request

LEMMA IdleFits == Idle \in Request /\ Idle.got = Unknown /\ Idle.st = "idle"
BY NoAnswer DEF Idle, Request

(* What an invalidation leaves: right answers only, and the shown query    *)
(* being read.                                                             *)
LEMMA InvalidateFits ==
  ASSUME CacheTypes, Asked, NEW c \in [Filters -> Entry], Invalidate(c), UNCHANGED <<scene, online, filter>>
  PROVE  /\ cache' \in [Filters -> Entry] /\ fetch' \in [Filters -> Request] /\ overtaken' \subseteq Filters
         /\ Busy(filter)'
         /\ Asked'
         /\ \A f \in Filters : Busy(f) => Busy(f)'
         /\ \A r \in Rows : Right(r)'
<1>t. filter \in Filters /\ fetch \in [Filters -> Request] /\ overtaken \subseteq Filters
  BY DEF CacheTypes, Request
<1> DEFINE anew == {f \in {filter} : ~Busy(f) \/ c[f].rows # Unknown}
<1>c. /\ cache' = [f \in Filters |-> [c[f] EXCEPT !.stale = c[f].rows # Unknown]]
      /\ fetch' = [f \in Filters |-> IF f \in anew THEN Asking ELSE fetch[f]]
      /\ overtaken' = (overtaken \ anew) \cup {f \in Filters \ anew : Busy(f)}
  BY DEF Invalidate
<1>a. anew \subseteq {filter} /\ (~Busy(filter) => filter \in anew)
  OBVIOUS
<1> HIDE DEF anew
<1>d. \A f \in Filters : /\ cache'[f] \in Entry /\ cache'[f].rows = c[f].rows
                         /\ cache'[f].stale = (c[f].rows # Unknown)
  BY <1>c DEF Entry
<1>e. \A f \in Filters : IF f \in anew THEN fetch'[f] = Asking ELSE fetch'[f] = fetch[f]
  BY <1>c
<1>1. cache' \in [Filters -> Entry] /\ fetch' \in [Filters -> Request] /\ overtaken' \subseteq Filters
  <2>1. cache' \in [Filters -> Entry]
    BY <1>c, <1>d
  <2>2. fetch' \in [Filters -> Request]
    BY <1>c, <1>e, <1>t, AskingFits
  <2>3. overtaken' \subseteq Filters
    BY <1>c, <1>t
  <2> QED
    BY <2>1, <2>2, <2>3
<1>2. \A f \in Filters : Busy(f)' <=> (f \in anew \/ Busy(f))
  BY <1>e, AskingFits DEF Busy
<1>3. Asked'
  BY <1>e, AskingFits DEF Asked
<1>4. ASSUME NEW r \in Rows, NEW f \in Filters \ overtaken' PROVE fetch'[f].got = Unknown /\ (Busy(f)' \/ cache'[f].rows = Unknown \/ cache'[f].stale)
  <2>1. CASE f \in anew
    BY <2>1, <1>2, <1>e, AskingFits
  <2>2. CASE f \notin anew
    <3>1. ~Busy(f)
      BY <2>2, <1>c, <1>4
    <3> QED
      BY <2>2, <3>1, <1>e, <1>d DEF Asked, Busy
  <2> QED
    BY <2>1, <2>2
<1>5. \A r \in Rows : Right(r)'
  BY <1>4 DEF Right
<1> QED
  BY <1>1, <1>2, <1>3, <1>5, <1>t, <1>a

(* Changes that stay as they are, or go on with the network.               *)
SameChanges ==
  /\ UNCHANGED <<scene, before, said, applied>>
  /\ change' \in [Changes -> {"no", "paused", "sent", "taken", "refused", "over"}]
  /\ \A i \in Changes : change'[i] = change[i] \/ (change[i] = "paused" /\ change'[i] = "sent")

LEMMA SameIfUnchanged == ASSUME CacheInv, UNCHANGED <<scene, changeVars>> PROVE SameChanges
BY DEF CacheInv, CacheTypes, changeVars, SameChanges

LEMMA ChangesKept ==
  ASSUME CacheInv, SameChanges
  PROVE  /\ Touched' /\ Snapshots' /\ Taken' /\ Reported' /\ (Calm' <=> Calm)
         /\ \A i \in Changes : Underway(i)' <=> Underway(i)
         /\ \A i \in Changes : Settled(i)' <=> Settled(i)
<1>1. \A i \in Changes : Underway(i)' <=> Underway(i)
  BY DEF SameChanges, Underway
<1>2. \A i \in Changes : Settled(i)' <=> Settled(i)
  BY DEF SameChanges, Settled
<1>3. Touched' /\ Snapshots' /\ Taken' /\ Reported'
  BY DEF CacheInv, SameChanges, Touched, Snapshots, Taken, Reported, NoSnapshot
<1>4. Calm' <=> Calm
  BY <1>1 DEF SameChanges, Calm
<1> QED
  BY <1>1, <1>2, <1>3, <1>4

LEMMA NewsKept ==
  ASSUME CacheInv, SameChanges, UNCHANGED feedVars, NEW r \in Rows
  PROVE  Announced(r)' <=> Announced(r)
BY ChangesKept DEF feedVars, Announced, SameChanges, Rows

(* An answer on its way or in the cache stays as right as it was.          *)
LEMMA RightKept ==
  ASSUME NEW r \in Rows, Right(r), UNCHANGED served,
         \A g \in Filters : g \notin overtaken' =>
           /\ \/ Busy(g)' \/ cache'[g].failed
              \/ g \notin overtaken /\ cache'[g] = cache[g] /\ ~Busy(g)
              \/ g \notin overtaken /\ fetch[g].got # Unknown /\ cache'[g].rows = fetch[g].got
           /\ \/ fetch'[g].got = Unknown
              \/ g \notin overtaken /\ fetch'[g].got = fetch[g].got
              \/ fetch'[g].got = served \cap Matching[g]
  PROVE  Right(r)'
<1> SUFFICES ASSUME NEW g \in Filters \ overtaken', r \in Matching[g]
             PROVE  /\ ~Busy(g)' /\ cache'[g].rows # Unknown /\ ~cache'[g].stale /\ ~cache'[g].failed
                         => (r \in cache'[g].rows <=> r \in served')
                    /\ fetch'[g].got # Unknown => (r \in fetch'[g].got <=> r \in served')
  BY DEF Right
<1>1. g \notin overtaken =>
        /\ ~Busy(g) /\ cache[g].rows # Unknown /\ ~cache[g].stale /\ ~cache[g].failed
             => (r \in cache[g].rows <=> r \in served)
        /\ fetch[g].got # Unknown => (r \in fetch[g].got <=> r \in served)
  BY DEF Right
<1>2. ~Busy(g)' /\ cache'[g].rows # Unknown /\ ~cache'[g].stale /\ ~cache'[g].failed
        => (r \in cache'[g].rows <=> r \in served')
  BY <1>1
<1>3. fetch'[g].got # Unknown => (r \in fetch'[g].got <=> r \in served')
  BY <1>1
<1> QED
  BY <1>2, <1>3

(* A step of the requests: what is to be shown of it.                      *)
LEMMA RequestStep ==
  ASSUME CacheInv, SameChanges, UNCHANGED <<served, feedVars>>,
         cache' \in [Filters -> Entry], fetch' \in [Filters -> Request], overtaken' \subseteq Filters,
         filter' \in Filters, online' \in BOOLEAN, left' \in 0..Disturbances,
         Asked', Explained', Reread',
         \A g \in Filters : g \notin overtaken' =>
           /\ \/ Busy(g)' \/ cache'[g].failed
              \/ g \notin overtaken /\ cache'[g] = cache[g] /\ ~Busy(g)
              \/ g \notin overtaken /\ fetch[g].got # Unknown /\ cache'[g].rows = fetch[g].got
           /\ \/ fetch'[g].got = Unknown
              \/ g \notin overtaken /\ fetch'[g].got = fetch[g].got
              \/ fetch'[g].got = served \cap Matching[g]
  PROVE  CacheInv'
<1>1. CacheTypes'
  BY DEF CacheInv, CacheTypes, Request, Entry, SameChanges, feedVars, Answer
<1>2. \A r \in Rows : Right(r) => Right(r)'
  BY RightKept
<1>3. Current'
  BY <1>2, ChangesKept, NewsKept DEF Current, CacheInv
<1> QED
  BY <1>1, <1>3, ChangesKept DEF CacheInv

LEMMA CacheShapes ==
  ASSUME CacheInv
  PROVE  /\ fetch \in [Filters -> Request] /\ cache \in [Filters -> Entry] /\ CacheTypes /\ filter \in Filters
         /\ served \subseteq Rows /\ overtaken \subseteq Filters /\ online \in BOOLEAN
         /\ left \in 0..Disturbances /\ Disturbances \in Nat
BY CacheAssumption DEF CacheInv, CacheTypes, Request, Entry

LEMMA DisturbFits == ASSUME CacheInv, Disturb PROVE left' \in 0..Disturbances
BY CacheShapes DEF Disturb

LEMMA ReadStep == ASSUME CacheInv, NEW f \in Filters, Read(f) PROVE CacheInv'
<1>u. UNCHANGED <<scene, served, online, filter, cache, overtaken, changeVars, feedVars, left>>
  BY DEF Read
<1>a. fetch' = [fetch EXCEPT ![f].got = served \cap Matching[f]] /\ fetch[f].st = "asking"
  BY DEF Read
<1>b. \A g \in Filters : fetch'[g].st = fetch[g].st /\ (g # f => fetch'[g] = fetch[g])
  BY <1>a, CacheShapes DEF Request
<1>c. fetch'[f] \in Request /\ fetch'[f].got = served \cap Matching[f]
  BY <1>a, CacheShapes DEF Request, Answer
<1>d. fetch' \in [Filters -> Request]
  BY <1>a, <1>b, <1>c, CacheShapes
<1>2. Asked'
  BY <1>a, <1>b, <1>c, <1>u DEF CacheInv, Asked
<1>3. \A g \in Filters : Busy(g)' <=> Busy(g)
  BY <1>b DEF Busy
<1>4. Explained' /\ Reread'
  BY <1>3, <1>u, SameIfUnchanged, CacheShapes, ChangesKept DEF CacheInv, Explained, Reread
<1>5. \A g \in Filters : g # f => fetch'[g] = fetch[g]
  BY <1>b
<1>6. \A g \in Filters : Busy(g)' \/ ~Busy(g)
  BY <1>3
<1> QED
  BY <1>c, <1>d, <1>2, <1>4, <1>5, <1>6, <1>u, SameIfUnchanged, CacheShapes, RequestStep

LEMMA ArriveStep == ASSUME CacheInv, NEW f \in Filters, Arrive(f) PROVE CacheInv'
<1>u. UNCHANGED <<scene, served, online, filter, overtaken, changeVars, feedVars, left>>
  BY DEF Arrive
<1>a. /\ fetch[f].got # Unknown
      /\ cache' = [cache EXCEPT ![f] = [rows |-> fetch[f].got, failed |-> FALSE, stale |-> FALSE]]
      /\ fetch' = [fetch EXCEPT ![f] = Idle]
  BY DEF Arrive
<1>b. \A g \in Filters : g # f => fetch'[g] = fetch[g] /\ cache'[g] = cache[g]
  BY <1>a, CacheShapes
<1>c. /\ fetch'[f] = Idle /\ cache'[f] \in Entry /\ cache'[f].rows = fetch[f].got
      /\ ~cache'[f].failed /\ ~cache'[f].stale
  BY <1>a, CacheShapes DEF Request, Entry
<1>d. fetch' \in [Filters -> Request] /\ cache' \in [Filters -> Entry]
  BY <1>a, <1>b, <1>c, CacheShapes, IdleFits
<1>2. Asked'
  BY <1>b, <1>c, <1>u, IdleFits DEF CacheInv, Asked
<1>3. \A g \in Filters : g # f => (Busy(g)' <=> Busy(g))
  BY <1>b DEF Busy
<1>4. Explained'
  BY <1>a, <1>b, <1>c, <1>3, <1>u, SameIfUnchanged, CacheShapes, ChangesKept DEF CacheInv, Explained
<1>5. Reread'
  BY <1>b, <1>c, <1>3, <1>u, SameIfUnchanged, CacheShapes, ChangesKept DEF CacheInv, Reread
<1>6. \A g \in Filters : Busy(g)' \/ ~Busy(g) \/ g = f
  BY <1>3
<1> QED
  BY <1>a, <1>b, <1>c, <1>d, <1>2, <1>4, <1>5, <1>6, <1>u, SameIfUnchanged, CacheShapes, IdleFits, RequestStep

LEMMA FailStep == ASSUME CacheInv, NEW f \in Filters, Fail(f) PROVE CacheInv'
<1>u. UNCHANGED <<scene, served, online, filter, overtaken, changeVars, feedVars>>
  BY DEF Fail
<1>l. left' \in 0..Disturbances /\ fetch[f].st = "asking"
  BY DisturbFits DEF Fail
<1>1. CASE fetch[f].tries > 0
  <2> DEFINE again == [Asking EXCEPT !.tries = fetch[f].tries - 1]
  <2>a. fetch' = [fetch EXCEPT ![f] = again] /\ cache' = cache
    BY <1>1 DEF Fail
  <2>1. again.st = Asking.st /\ again.got = Unknown /\ again.tries = fetch[f].tries - 1 /\ again \in Request
    <3>1. fetch[f].tries - 1 \in 0..1
      BY <1>1, CacheShapes DEF Request
    <3> QED
      BY <3>1, CacheShapes, AskingFits DEF Request, Asking
  <2> HIDE DEF again
  <2>b. fetch'[f] = again /\ \A g \in Filters : g # f => fetch'[g] = fetch[g]
    BY <2>a, CacheShapes
  <2>d. fetch' \in [Filters -> Request]
    BY <2>a, <2>1, CacheShapes
  <2>2. Asked'
    BY <2>b, <2>1, <1>u, CacheShapes, AskingFits DEF CacheInv, Asked
  <2>3. \A g \in Filters : Busy(g)' <=> Busy(g)
    BY <2>b, <2>1, <1>l, CacheShapes, AskingFits DEF Busy
  <2>4. Explained' /\ Reread'
    BY <2>3, <2>a, <1>u, SameIfUnchanged, CacheShapes, ChangesKept DEF CacheInv, Explained, Reread
  <2>5. \A g \in Filters : Busy(g)' \/ ~Busy(g)
    BY <2>3
  <2> QED
    BY <2>a, <2>b, <2>d, <2>1, <2>2, <2>4, <2>5, <1>u, <1>l, SameIfUnchanged, CacheShapes, RequestStep
<1>2. CASE ~(fetch[f].tries > 0)
  <2>a. fetch' = [fetch EXCEPT ![f] = Idle] /\ cache' = [cache EXCEPT ![f].failed = TRUE]
    BY <1>2 DEF Fail
  <2>b. \A g \in Filters : g # f => fetch'[g] = fetch[g] /\ cache'[g] = cache[g]
    BY <2>a, CacheShapes
  <2>c. fetch'[f] = Idle /\ cache'[f] \in Entry /\ cache'[f].failed
    BY <2>a, CacheShapes DEF Entry
  <2>d. fetch' \in [Filters -> Request] /\ cache' \in [Filters -> Entry]
    BY <2>a, <2>b, <2>c, CacheShapes, IdleFits
  <2>2. Asked'
    BY <2>b, <2>c, <1>u, IdleFits DEF CacheInv, Asked
  <2>3. \A g \in Filters : g # f => (Busy(g)' <=> Busy(g))
    BY <2>b DEF Busy
  <2>4. Explained' /\ Reread'
    BY <2>b, <2>c, <2>3, <1>u, SameIfUnchanged, CacheShapes, ChangesKept DEF CacheInv, Explained, Reread
  <2>5. \A g \in Filters : Busy(g)' \/ ~Busy(g) \/ g = f
    BY <2>3
  <2> QED
    BY <2>b, <2>c, <2>d, <2>2, <2>4, <2>5, <1>u, <1>l, SameIfUnchanged, CacheShapes, IdleFits, RequestStep
<1> QED
  BY <1>1, <1>2

LEMMA AskAgainStep == ASSUME CacheInv, AskAgain PROVE CacheInv'
<1>u. UNCHANGED <<scene, served, online, filter, cache, changeVars, feedVars>>
  BY DEF AskAgain
<1>l. left' \in 0..Disturbances
  BY DisturbFits DEF AskAgain
<1>a. fetch' = [fetch EXCEPT ![filter] = Asking] /\ overtaken' = overtaken \ {filter}
  BY DEF AskAgain, Begin
<1>b. fetch'[filter] = Asking /\ \A g \in Filters : g # filter => fetch'[g] = fetch[g]
  BY <1>a, CacheShapes
<1>d. fetch' \in [Filters -> Request] /\ overtaken' \subseteq Filters
  BY <1>a, CacheShapes, AskingFits
<1>2. Asked'
  BY <1>b, <1>u, CacheShapes, AskingFits DEF CacheInv, Asked
<1>3. Busy(filter)' /\ \A g \in Filters : g # filter => (Busy(g)' <=> Busy(g))
  BY <1>b, <1>u, CacheShapes, AskingFits DEF Busy
<1>4. Explained' /\ Reread'
  BY <1>3, <1>u DEF Explained, Reread
<1>5. \A g \in Filters : Busy(g)' \/ (g # filter /\ ~Busy(g))
  BY <1>3, <1>u
<1> QED
  BY <1>a, <1>b, <1>d, <1>2, <1>3, <1>4, <1>5, <1>u, <1>l, SameIfUnchanged, CacheShapes, AskingFits, RequestStep

LEMMA SwitchStep == ASSUME CacheInv, NEW f \in Filters, Switch(f) PROVE CacheInv'
<1>u. UNCHANGED <<scene, served, online, cache, changeVars, feedVars>> /\ filter' = f /\ f # filter
  BY DEF Switch
<1>l. left' \in 0..Disturbances
  BY DisturbFits DEF Switch
<1>a. PICK again \in BOOLEAN :
        /\ cache[f].rows = Unknown \/ cache[f].stale => again
        /\ fetch' = [fetch EXCEPT ![filter].tries = 0, ![f] = IF again /\ ~Busy(f) THEN Asking ELSE @]
        /\ overtaken' = IF again /\ ~Busy(f) THEN overtaken \ {f} ELSE overtaken
  BY DEF Switch
<1>b. /\ \A g \in Filters : g # f => fetch'[g].st = fetch[g].st /\ fetch'[g].got = fetch[g].got
      /\ \A g \in Filters : g # f => fetch'[g] \in Request
      /\ again /\ ~Busy(f) => fetch'[f] = Asking
      /\ ~(again /\ ~Busy(f)) => fetch'[f] = fetch[f]
  BY <1>a, <1>u, CacheShapes DEF Request
<1>c. fetch'[f] \in Request
  BY <1>b, CacheShapes, AskingFits
<1>d. fetch' \in [Filters -> Request] /\ overtaken' \subseteq Filters
  <2>1. \A g \in Filters : fetch'[g] \in Request
    BY <1>b, <1>c
  <2> QED
    BY <2>1, <1>a, CacheShapes
<1>2. Asked'
  BY <1>b, <1>u, CacheShapes, AskingFits DEF CacheInv, Asked
<1>3. /\ \A g \in Filters : g # f => (Busy(g)' <=> Busy(g))
      /\ Busy(f)' <=> (Busy(f) \/ again)
  <2>1. \A g \in Filters : g # f => (Busy(g)' <=> Busy(g))
    BY <1>b DEF Busy
  <2>2. again /\ ~Busy(f) => Busy(f)'
    BY <1>b, CacheShapes, AskingFits DEF Busy
  <2>3. ~(again /\ ~Busy(f)) => (Busy(f)' <=> Busy(f))
    BY <1>b DEF Busy
  <2> QED
    BY <2>1, <2>2, <2>3
<1>4. Explained' /\ Reread'
  BY <1>3, <1>u, <1>a DEF Explained, Reread
<1>5. \A g \in Filters : g \notin overtaken' =>
        /\ Busy(g)' \/ (g \notin overtaken /\ ~Busy(g))
        /\ fetch'[g].got = Unknown \/ (g \notin overtaken /\ fetch'[g].got = fetch[g].got)
  <2> SUFFICES ASSUME NEW g \in Filters, g \notin overtaken'
               PROVE  /\ Busy(g)' \/ (g \notin overtaken /\ ~Busy(g))
                      /\ fetch'[g].got = Unknown \/ (g \notin overtaken /\ fetch'[g].got = fetch[g].got)
    OBVIOUS
  <2>1. CASE g = f /\ again /\ ~Busy(f)
    BY <2>1, <1>b, <1>3, CacheShapes, AskingFits
  <2>2. CASE ~(g = f /\ again /\ ~Busy(f))
    <3>1. g \notin overtaken /\ fetch'[g].got = fetch[g].got
      BY <2>2, <1>a, <1>b
    <3>2. Busy(g)' \/ ~Busy(g)
      BY <1>3
    <3> QED
      BY <3>1, <3>2
  <2> QED
    BY <2>1, <2>2
<1> QED
  BY <1>d, <1>2, <1>4, <1>5, <1>u, <1>l, SameIfUnchanged, CacheShapes, RequestStep

LEMMA GoOnlineStep == ASSUME CacheInv, GoOnline PROVE CacheInv'
<1>u. UNCHANGED <<scene, served, filter, cache, before, said, applied, feedVars, left>> /\ online' = TRUE
  BY DEF GoOnline
<1>s. SameChanges
  <2>1. change' = [i \in Changes |-> IF change[i] = "paused" THEN "sent" ELSE change[i]]
    BY DEF GoOnline
  <2>2. change \in [Changes -> {"no", "paused", "sent", "taken", "refused", "over"}]
    BY DEF CacheInv, CacheTypes
  <2> QED
    BY <2>1, <2>2, <1>u DEF SameChanges
<1>a. PICK again \in BOOLEAN :
        /\ cache[filter].stale => again
        /\ fetch' = [f \in Filters |->
             IF fetch[f].st = "paused" THEN [fetch[f] EXCEPT !.st = "asking"]
             ELSE IF f = filter /\ again /\ ~Busy(f) THEN [Asking EXCEPT !.st = "asking"] ELSE fetch[f]]
        /\ overtaken' = IF again /\ ~Busy(filter) THEN overtaken \ {filter} ELSE overtaken
  BY DEF GoOnline
<1> DEFINE on == [Asking EXCEPT !.st = "asking"]
<1>o. on \in Request /\ on.got = Unknown /\ on.st = "asking"
  BY CacheShapes, AskingFits DEF Request, Asking
<1> HIDE DEF on
<1>p. \A f \in Filters : fetch[f].st = "paused" =>
        fetch'[f] \in Request /\ fetch'[f].st = "asking" /\ fetch'[f].got = fetch[f].got
  BY <1>a, CacheShapes DEF Request
<1>q. again /\ ~Busy(filter) => fetch'[filter] = on
  BY <1>a, CacheShapes DEF on, Busy
<1>r. \A f \in Filters : fetch[f].st # "paused" /\ ~(f = filter /\ again /\ ~Busy(f)) => fetch'[f] = fetch[f]
  BY <1>a
<1>d. fetch' \in [Filters -> Request] /\ overtaken' \subseteq Filters
  <2>1. \A f \in Filters : fetch'[f] \in Request
    BY <1>o, <1>p, <1>q, <1>r, CacheShapes
  <2> QED
    BY <2>1, <1>a, CacheShapes
<1>2. Asked'
  BY <1>o, <1>p, <1>q, <1>r, <1>u DEF CacheInv, Asked
<1>3. /\ \A f \in Filters : f # filter => (Busy(f)' <=> Busy(f))
      /\ Busy(filter)' <=> (Busy(filter) \/ again)
  <2>1. \A f \in Filters : f # filter => (Busy(f)' <=> Busy(f))
    BY <1>p, <1>r DEF Busy
  <2>2. again /\ ~Busy(filter) => Busy(filter)'
    BY <1>q, <1>o, <1>u DEF Busy
  <2>3. ~(again /\ ~Busy(filter)) => (Busy(filter)' <=> Busy(filter))
    BY <1>p, <1>r, <1>u, CacheShapes DEF Busy
  <2> QED
    BY <2>1, <2>2, <2>3, <1>u
<1>4. Explained' /\ Reread'
  BY <1>3, <1>u, <1>a, <1>s, CacheShapes, ChangesKept DEF CacheInv, Explained, Reread
<1>5. \A g \in Filters : g \notin overtaken' =>
        /\ Busy(g)' \/ (g \notin overtaken /\ ~Busy(g))
        /\ fetch'[g].got = Unknown \/ (g \notin overtaken /\ fetch'[g].got = fetch[g].got)
  <2> SUFFICES ASSUME NEW g \in Filters, g \notin overtaken'
               PROVE  /\ Busy(g)' \/ (g \notin overtaken /\ ~Busy(g))
                      /\ fetch'[g].got = Unknown \/ (g \notin overtaken /\ fetch'[g].got = fetch[g].got)
    OBVIOUS
  <2>1. CASE g = filter /\ again /\ ~Busy(filter)
    BY <2>1, <1>o, <1>q, <1>3, <1>u
  <2>2. CASE ~(g = filter /\ again /\ ~Busy(filter))
    <3>1. g \notin overtaken
      BY <2>2, <1>a
    <3>2. fetch'[g].got = fetch[g].got
      BY <2>2, <1>p, <1>r
    <3>3. Busy(g)' \/ ~Busy(g)
      BY <1>3, <1>u, CacheShapes
    <3> QED
      BY <3>1, <3>2, <3>3
  <2> QED
    BY <2>1, <2>2
<1> QED
  BY <1>d, <1>2, <1>4, <1>5, <1>u, <1>s, CacheShapes, RequestStep

LEMMA GoOfflineStep == ASSUME CacheInv, GoOffline PROVE CacheInv'
<1>u. UNCHANGED <<scene, served, queryVars, changeVars, feedVars>> /\ online' = FALSE
  BY DEF GoOffline
<1>l. left' \in 0..Disturbances
  BY DisturbFits DEF GoOffline
<1>2. Asked'
  BY <1>u DEF CacheInv, Asked, queryVars
<1>3. \A g \in Filters : Busy(g)' <=> Busy(g)
  BY <1>u DEF Busy, queryVars
<1>4. Explained' /\ Reread'
  BY <1>3, <1>u, SameIfUnchanged, CacheShapes, ChangesKept DEF CacheInv, Explained, Reread, queryVars
<1> QED
  BY <1>2, <1>3, <1>4, <1>u, <1>l, SameIfUnchanged, CacheShapes, RequestStep DEF queryVars

(* Steps of the user's changes: what is to be shown of one that leaves the *)
(* requests alone.                                                         *)
LEMMA QuietStep ==
  ASSUME CacheInv, UNCHANGED <<scene, online, queryVars, before>>
  PROVE  Asked' /\ Snapshots' /\ (\A g \in Filters : Busy(g)' <=> Busy(g))
         /\ ((Calm' => Calm) => Reread')
<1>1. \A g \in Filters : Busy(g)' <=> Busy(g)
  BY DEF queryVars, Busy
<1>2. Asked' /\ Snapshots'
  BY DEF CacheInv, queryVars, Asked, Snapshots, NoSnapshot
<1>3. (Calm' => Calm) => Reread'
  BY <1>1, CacheShapes DEF CacheInv, Reread, queryVars
<1> QED
  BY <1>1, <1>2, <1>3

(* A change of one row leaves the others right.                            *)
LEMMA OtherRowsRight ==
  ASSUME NEW i \in Rows, served' \in {served, Toggle(served, i)}, UNCHANGED queryVars,
         NEW r \in Rows, r # i, Right(r)
  PROVE  Right(r)'
<1>1. r \in served' <=> r \in served
  BY DEF Toggle
<1> QED
  BY <1>1 DEF Right, queryVars, Busy

LEMMA TakeStep == ASSUME CacheInv, NEW i \in Changes, Take(i) \/ RefuseChange(i) PROVE CacheInv'
<1>u. UNCHANGED <<scene, online, queryVars, before, said, feedVars>>
  BY DEF Take, RefuseChange
<1>l. left' \in 0..Disturbances
  BY DisturbFits, CacheShapes DEF Take, RefuseChange
<1>a. /\ change[i] = "sent" /\ served' \in {served, Toggle(served, i)} /\ applied \subseteq applied'
      /\ applied' \in {applied, applied \cup {i}}
  BY DEF Take, RefuseChange
<1>b. \/ change' = [change EXCEPT ![i] = "taken"] /\ i \in applied'
      \/ change' = [change EXCEPT ![i] = "refused"]
  BY DEF Take, RefuseChange
<1>c. change \in [Changes -> {"no", "paused", "sent", "taken", "refused", "over"}]
  BY DEF CacheInv, CacheTypes
<1>d. /\ change' \in [Changes -> {"no", "paused", "sent", "taken", "refused", "over"}]
      /\ change'[i] \in {"taken", "refused"} /\ (change'[i] = "taken" => i \in applied')
      /\ \A j \in Changes : j # i => change'[j] = change[j]
  BY <1>b, <1>c
<1>e. served' \subseteq Rows /\ applied' \subseteq Changes
  <2>1. applied \subseteq Changes
    BY DEF CacheInv, CacheTypes
  <2>2. Toggle(served, i) \subseteq Rows
    BY CacheShapes DEF Toggle, Rows
  <2> QED
    BY <1>a, <2>1, <2>2, CacheShapes
<1>1. CacheTypes'
  BY <1>u, <1>l, <1>d, <1>e DEF CacheInv, CacheTypes, queryVars, feedVars, Answer
<1>2. \A j \in Changes : Underway(j)' <=> Underway(j)
  BY <1>a, <1>d DEF Underway
<1>3. Calm' <=> Calm
  BY <1>2, <1>u DEF Calm
<1>4. Explained'
  BY <1>2, <1>u, QuietStep, CacheShapes DEF CacheInv, Explained, queryVars
<1>5. Touched' /\ Taken' /\ Reported'
  BY <1>a, <1>d, <1>u DEF CacheInv, Touched, Taken, Reported
<1>6. ASSUME NEW r \in Rows, Announced(r)' PROVE r # i /\ Announced(r)
  <2>1. i # Theirs
    BY CacheAssumption
  <2>2. ~Settled(i)'
    BY <1>d DEF Settled
  <2>3. r # i
    BY <1>6, <2>1, <2>2 DEF Announced
  <2>4. r \in Changes => (Settled(r)' <=> Settled(r))
    BY <2>3, <1>d, <1>u DEF Settled
  <2> QED
    BY <1>6, <2>3, <2>4, <1>u DEF Announced, feedVars, Rows
<1>7. Current'
  <2>1. i \in Rows
    BY DEF Rows
  <2> QED
    BY <2>1, <1>3, <1>6, <1>a, <1>u, OtherRowsRight DEF CacheInv, Current
<1>8. Reread'
  BY <1>3, <1>u, QuietStep DEF CacheInv
<1> QED
  BY <1>1, <1>4, <1>5, <1>7, <1>8, <1>u, QuietStep DEF CacheInv

LEMMA OthersChangeStep == ASSUME CacheInv, OthersChange PROVE CacheInv'
<1>u. UNCHANGED <<scene, online, queryVars, changeVars, window>> /\ served' = Toggle(served, Theirs) /\ news' = "unsent"
  BY DEF OthersChange
<1>l. left' \in 0..Disturbances
  BY DisturbFits DEF OthersChange
<1>e. served' \subseteq Rows
  BY <1>u, CacheShapes DEF Toggle, Rows
<1>1. CacheTypes'
  BY <1>u, <1>l, <1>e DEF CacheInv, CacheTypes, queryVars, changeVars, Answer
<1>2. /\ Touched' /\ Snapshots' /\ Taken' /\ Reported' /\ (Calm' <=> Calm)
      /\ \A j \in Changes : (Underway(j)' <=> Underway(j)) /\ (Settled(j)' <=> Settled(j))
  BY <1>u, SameIfUnchanged, ChangesKept
<1>3. Explained'
  BY <1>2, <1>u, QuietStep, CacheShapes DEF CacheInv, Explained, queryVars, changeVars
<1>4. ASSUME NEW r \in Rows, Announced(r)' PROVE r # Theirs /\ Announced(r)
  <2>1. r # Theirs
    BY <1>4, <1>u DEF Announced
  <2> QED
    BY <2>1, <1>4, <1>2, <1>u DEF Announced, Rows
<1>5. Current'
  <2>1. Theirs \in Rows
    BY DEF Rows
  <2> QED
    BY <2>1, <1>2, <1>4, <1>u, OtherRowsRight DEF CacheInv, Current
<1> QED
  BY <1>1, <1>2, <1>3, <1>5, <1>u, QuietStep DEF CacheInv, changeVars

(* The throttle of the live feed, when nothing is invalidated.             *)
LEMMA ThrottleStep ==
  ASSUME CacheInv, UNCHANGED <<scene, served, online, queryVars, changeVars>>,
         window' \in {"open", "closed", "armed", "due"}, news' \in {"none", "unsent", "heard"},
         left' \in 0..Disturbances,
         news' = "heard" /\ window' # "due" => news = "heard" /\ window # "due"
  PROVE  CacheInv'
<1>1. CacheTypes'
  BY DEF CacheInv, CacheTypes, queryVars, changeVars, Answer
<1>2. /\ Touched' /\ Snapshots' /\ Taken' /\ Reported' /\ (Calm' <=> Calm)
      /\ \A j \in Changes : (Underway(j)' <=> Underway(j)) /\ (Settled(j)' <=> Settled(j))
  BY SameIfUnchanged, ChangesKept
<1>3. Explained'
  BY <1>2, QuietStep, CacheShapes DEF CacheInv, Explained, queryVars, changeVars
<1>4. \A r \in Rows : Announced(r)' => Announced(r)
  BY <1>2 DEF Announced, Rows
<1>5. \A r \in Rows : Right(r)' <=> Right(r)
  BY DEF Right, queryVars, Busy
<1>6. Current'
  BY <1>2, <1>4, <1>5 DEF CacheInv, Current
<1> QED
  BY <1>1, <1>2, <1>3, <1>6, QuietStep DEF CacheInv, changeVars

(* The throttle, when everything is invalidated.                           *)
LEMMA PushStep ==
  ASSUME CacheInv, Invalidate(cache), UNCHANGED <<scene, served, online, filter, changeVars>>,
         window' \in {"open", "closed", "armed", "due"}, news' \in {"none", "unsent", "heard"},
         left' \in 0..Disturbances
  PROVE  CacheInv'
<1>1. /\ cache' \in [Filters -> Entry] /\ fetch' \in [Filters -> Request] /\ overtaken' \subseteq Filters
      /\ Busy(filter)' /\ Asked' /\ \A r \in Rows : Right(r)'
  BY CacheShapes, InvalidateFits DEF CacheInv
<1>2. CacheTypes'
  BY <1>1 DEF CacheInv, CacheTypes, Request, Entry, changeVars, Answer
<1>3. Explained' /\ Reread' /\ Current'
  BY <1>1 DEF Explained, Reread, Current
<1> QED
  BY <1>1, <1>2, <1>3, SameIfUnchanged, ChangesKept DEF CacheInv

LEMMA FeedStep ==
  ASSUME CacheInv, HearNews \/ HearOther \/ Flush \/ TwoSecondsPass PROVE CacheInv'
<1>w. window \in {"open", "closed", "armed", "due"} /\ news \in {"none", "unsent", "heard"}
  BY DEF CacheInv, CacheTypes
<1>1. CASE HearNews
  <2>1. PICK place \in scene.course.heard : Schedule(place)
    BY <1>1 DEF HearNews
  <2>2. UNCHANGED <<scene, served, online, filter, changeVars, left>> /\ news' = "heard"
    BY <1>1 DEF HearNews
  <2>3. CASE place = "first" /\ window = "open"
    <3>1. Invalidate(cache) /\ window' \in {"closed", "armed"}
      BY <2>1, <2>3 DEF Schedule
    <3> QED
      BY <3>1, <2>2, CacheShapes, PushStep
  <2>4. CASE ~(place = "first" /\ window = "open")
    <3>1. window' = "due" /\ UNCHANGED <<cache, fetch, overtaken>>
      BY <2>1, <2>4 DEF Schedule
    <3> QED
      BY <3>1, <2>2, CacheShapes, ThrottleStep DEF queryVars
  <2> QED
    BY <2>3, <2>4
<1>2. CASE HearOther
  <2>1. /\ window \in {"open", "closed"} /\ window' \in {"closed", "armed"}
        /\ UNCHANGED <<scene, served, online, queryVars, changeVars, news>>
    BY <1>2 DEF HearOther
  <2>2. left' \in 0..Disturbances
    BY <1>2, DisturbFits DEF HearOther
  <2> QED
    BY <2>1, <2>2, <1>w, ThrottleStep
<1>3. CASE Flush
  <2>1. /\ window \in {"armed", "due"} /\ window' = "closed"
        /\ UNCHANGED <<scene, served, online, filter, changeVars, news, left>>
    BY <1>3 DEF Flush
  <2>2. CASE window = "due"
    <3>1. Invalidate(cache)
      BY <2>2, <1>3 DEF Flush
    <3> QED
      BY <3>1, <2>1, <1>w, CacheShapes, PushStep
  <2>3. CASE window # "due"
    <3>1. UNCHANGED <<cache, fetch, overtaken>>
      BY <2>3, <1>3 DEF Flush
    <3> QED
      BY <2>3, <3>1, <2>1, <1>w, CacheShapes, ThrottleStep DEF queryVars
  <2> QED
    BY <2>2, <2>3
<1>4. CASE TwoSecondsPass
  BY <1>4, <1>w, CacheShapes, ThrottleStep DEF TwoSecondsPass
<1> QED
  BY <1>1, <1>2, <1>3, <1>4

LEMMA MutateStep == ASSUME CacheInv, NEW i \in Changes, Mutate(i) PROVE CacheInv'
<1>u. UNCHANGED <<scene, served, online, filter, said, applied, feedVars>>
  BY DEF Mutate
<1>l. left' \in 0..Disturbances
  BY DisturbFits DEF Mutate
<1>a. /\ change[i] = "no" /\ scene.course.touches
      /\ change' = [change EXCEPT ![i] = IF online THEN "sent" ELSE "paused"]
  BY DEF Mutate
<1>c. change \in [Changes -> {"no", "paused", "sent", "taken", "refused", "over"}]
  BY DEF CacheInv, CacheTypes
<1>d. /\ change' \in [Changes -> {"no", "paused", "sent", "taken", "refused", "over"}]
      /\ change'[i] \in {"sent", "paused"}
      /\ \A j \in Changes : j # i => change'[j] = change[j]
  BY <1>a, <1>c
<1>1. Underway(i)' /\ \A j \in Changes : Underway(j) => Underway(j)'
  BY <1>a, <1>d DEF Underway
<1>2. \A j \in Changes : Settled(j)' => Settled(j)
  BY <1>d, <1>u DEF Settled
<1>3. Touched' /\ Taken' /\ Reported'
  BY <1>a, <1>d, <1>u DEF CacheInv, Touched, Taken, Reported
<1>4. CASE ~scene.course.cancels
  <2>1. UNCHANGED <<cache, fetch, overtaken, before>>
    BY <1>4 DEF Mutate
  <2>2. CacheTypes'
    BY <2>1, <1>u, <1>l, <1>d DEF CacheInv, CacheTypes, feedVars, Answer
  <2>3. Calm
    BY <1>4 DEF Calm
  <2>4. Explained' /\ Asked' /\ Snapshots' /\ Reread'
    BY <1>4, <2>1, <2>3, <1>u, QuietStep, CacheShapes DEF CacheInv, Explained, queryVars
  <2>5. \A r \in Rows : Announced(r)' => Announced(r)
    BY <1>2, <1>u DEF Announced, feedVars, Rows
  <2>6. \A r \in Rows : Right(r)' <=> Right(r)
    BY <2>1, <1>u DEF Right, Busy
  <2>7. Current'
    BY <2>3, <2>5, <2>6 DEF CacheInv, Current
  <2> QED
    BY <2>2, <2>4, <2>7, <1>3 DEF CacheInv
<1>5. CASE scene.course.cancels
  <2>1. /\ fetch' = [f \in Filters |-> Idle] /\ overtaken' = overtaken
        /\ before' = [before EXCEPT ![i] = [f \in Filters |-> IF Writes THEN cache[f].rows ELSE Unknown]]
        /\ cache' = [f \in Filters |->
             IF cache[f].rows = Unknown \/ ~Writes THEN cache[f]
             ELSE [rows |-> IF scene.course.patches /\ i \in Matching[f] THEN Toggle(cache[f].rows, i) ELSE cache[f].rows,
                   failed |-> FALSE, stale |-> FALSE]]
    BY <1>5 DEF Mutate, Optimise
  <2>2. fetch' \in [Filters -> Request]
    BY <2>1, IdleFits
  <2>3. \A f \in Filters : cache[f].rows # Unknown => Toggle(cache[f].rows, i) \in Answer
    <3>1. \A f \in Filters : cache[f].rows # Unknown => cache[f].rows \subseteq Rows
      BY CacheShapes DEF Entry, Answer
    <3> QED
      BY <3>1 DEF Toggle, Rows, Answer
  <2>4. cache' \in [Filters -> Entry]
    <3>1. \A f \in Filters : cache'[f] \in Entry
      BY <2>1, <2>3, CacheShapes DEF Entry
    <3> QED
      BY <3>1, <2>1
  <2>5. before' \in [Changes -> [Filters -> Answer]]
    <3>1. before \in [Changes -> [Filters -> Answer]]
      BY DEF CacheInv, CacheTypes
    <3>2. [f \in Filters |-> IF Writes THEN cache[f].rows ELSE Unknown] \in [Filters -> Answer]
      BY CacheShapes DEF Entry, Answer
    <3> QED
      BY <3>1, <3>2, <2>1
  <2>6. CacheTypes'
    BY <2>1, <2>2, <2>4, <2>5, <1>u, <1>l, <1>d, CacheShapes DEF CacheInv, CacheTypes, Request, Entry, feedVars, Answer
  <2>7. Asked'
    BY <2>1, IdleFits DEF Asked
  <2>8. ~Calm'
    BY <1>1, <1>5, <1>u DEF Calm
  <2>9. Explained'
    BY <1>1, <1>5, <1>u DEF Explained
  <2>10. Snapshots'
    BY <1>5, <1>u DEF Snapshots
  <2>11. Reread' /\ Current'
    BY <2>8 DEF Reread, Current
  <2> QED
    BY <2>6, <2>7, <2>9, <2>10, <2>11, <1>3 DEF CacheInv
<1> QED
  BY <1>4, <1>5

(* A change comes to its end, and what was said and kept of it.            *)
LEMMA EndStep ==
  ASSUME CacheInv, NEW i \in Changes, change[i] # "no",
         UNCHANGED <<scene, served, online, filter, applied, feedVars>>,
         change' = [change EXCEPT ![i] = "over"], before' = [before EXCEPT ![i] = NoSnapshot],
         NEW word \in {"done", "failed"}, said' = [said EXCEPT ![i] = word],
         word = "done" /\ scene.course.doneIsDone => i \in applied,
         left' \in 0..Disturbances,
         \/ \E c \in [Filters -> Entry] : Invalidate(c)
         \/ /\ UNCHANGED <<cache, fetch, overtaken>> /\ ~scene.course.cancels
            /\ scene.course.staysCurrent /\ scene.course.touches => word # "done" /\ ~scene.course.settles
  PROVE  CacheInv'
<1>t. /\ change \in [Changes -> {"no", "paused", "sent", "taken", "refused", "over"}]
      /\ said \in [Changes -> {"nothing", "done", "failed"}] /\ before \in [Changes -> [Filters -> Answer]]
  BY DEF CacheInv, CacheTypes
<1>d. /\ change' \in [Changes -> {"no", "paused", "sent", "taken", "refused", "over"}]
      /\ said' \in [Changes -> {"nothing", "done", "failed"}] /\ change'[i] = "over" /\ said'[i] = word
      /\ \A j \in Changes : j # i => change'[j] = change[j] /\ said'[j] = said[j]
  BY <1>t
<1>b. /\ before' \in [Changes -> [Filters -> Answer]] /\ before'[i] = NoSnapshot
      /\ \A j \in Changes : j # i => before'[j] = before[j]
  <2>1. NoSnapshot \in [Filters -> Answer]
    BY NoAnswer DEF NoSnapshot
  <2> QED
    BY <2>1, <1>t
<1>1. Touched' /\ Taken' /\ Reported'
  BY <1>d DEF CacheInv, Touched, Taken, Reported
<1>2. Snapshots'
  <2>1. NoSnapshot' = NoSnapshot
    BY DEF NoSnapshot
  <2> QED
    BY <2>1, <1>b DEF CacheInv, Snapshots
<1>3. CASE \E c \in [Filters -> Entry] : Invalidate(c)
  <2>1. /\ cache' \in [Filters -> Entry] /\ fetch' \in [Filters -> Request] /\ overtaken' \subseteq Filters
        /\ Busy(filter)' /\ Asked' /\ \A r \in Rows : Right(r)'
    BY <1>3, CacheShapes, InvalidateFits DEF CacheInv
  <2>2. CacheTypes'
    BY <2>1, <1>d, <1>b DEF CacheInv, CacheTypes, Request, Entry, feedVars, Answer
  <2>3. Explained' /\ Reread' /\ Current'
    BY <2>1 DEF Explained, Reread, Current
  <2> QED
    BY <2>1, <2>2, <2>3, <1>1, <1>2 DEF CacheInv
<1>4. CASE /\ UNCHANGED <<cache, fetch, overtaken>> /\ ~scene.course.cancels
           /\ scene.course.staysCurrent /\ scene.course.touches => word # "done" /\ ~scene.course.settles
  <2>1. CacheTypes'
    BY <1>4, <1>d, <1>b DEF CacheInv, CacheTypes, feedVars, Answer
  <2>2. Calm
    BY <1>4 DEF Calm
  <2>3. \A g \in Filters : Busy(g)' <=> Busy(g)
    BY <1>4 DEF Busy
  <2>4. Asked'
    BY <1>4 DEF CacheInv, Asked
  <2>5. Explained' /\ Reread'
    BY <1>4, <2>2, <2>3, CacheShapes DEF CacheInv, Explained, Reread
  <2>6. scene.course.touches
    BY DEF CacheInv, Touched
  <2>7. \A j \in Changes : Settled(j)' /\ scene.course.staysCurrent => Settled(j)
    BY <1>4, <1>d, <2>6 DEF Settled
  <2>8. \A r \in Rows : Announced(r)' => Announced(r)
    BY <2>7 DEF Announced, feedVars, Rows
  <2>9. \A r \in Rows : Right(r)' <=> Right(r)
    BY <1>4 DEF Right, Busy
  <2>10. Current'
    BY <2>2, <2>8, <2>9 DEF CacheInv, Current
  <2> QED
    BY <2>1, <2>4, <2>5, <2>10, <1>1, <1>2 DEF CacheInv
<1> QED
  BY <1>3, <1>4

LEMMA SucceedStep == ASSUME CacheInv, NEW i \in Changes, Succeed(i) PROVE CacheInv'
<1>1. /\ change[i] = "taken"
      /\ change' = [change EXCEPT ![i] = "over"] /\ said' = [said EXCEPT ![i] = "done"]
      /\ before' = [before EXCEPT ![i] = NoSnapshot]
      /\ UNCHANGED <<scene, served, online, filter, applied, feedVars, left>>
  BY DEF Succeed
<1>2. i \in applied
  BY <1>1 DEF CacheInv, Taken
<1>3. CASE scene.course.refetches
  <2>1. Invalidate(cache)
    BY <1>3 DEF Succeed
  <2> QED
    BY <2>1, <1>1, <1>2, CacheShapes, EndStep
<1>4. CASE ~scene.course.refetches
  <2>1. UNCHANGED <<cache, fetch, overtaken>>
    BY <1>4 DEF Succeed
  <2>2. ~scene.course.cancels /\ ~(scene.course.staysCurrent /\ scene.course.touches)
    BY <1>4, CacheShapes, SceneFits DEF CourseFits
  <2> QED
    BY <2>1, <2>2, <1>1, <1>2, CacheShapes, EndStep
<1> QED
  BY <1>3, <1>4

LEMMA RolledBackFits ==
  ASSUME CacheInv, NEW i \in Changes
  PROVE  /\ RolledBack(i) \in [Filters -> Entry]
         /\ ~scene.course.cancels => RolledBack(i) = cache
<1>1. before[i] \in [Filters -> Answer]
  BY DEF CacheInv, CacheTypes
<1>2. RolledBack(i) \in [Filters -> Entry]
  <2>1. \A f \in Filters : RolledBack(i)[f] \in Entry
    BY <1>1, CacheShapes DEF RolledBack, Entry
  <2> QED
    BY <2>1 DEF RolledBack
<1>3. ASSUME ~scene.course.cancels PROVE RolledBack(i) = cache
  <2>1. \A f \in Filters : before[i][f] = Unknown
    BY <1>3 DEF CacheInv, Snapshots, NoSnapshot
  <2>2. \A f \in Filters : RolledBack(i)[f] = cache[f]
    BY <2>1 DEF RolledBack
  <2> QED
    BY <2>2, <1>2, CacheShapes
<1> QED
  BY <1>2, <1>3

LEMMA MiscarryStep == ASSUME CacheInv, NEW i \in Changes, Miscarry(i) PROVE CacheInv'
<1> DEFINE word == IF scene.course.saysDone THEN "done" ELSE "failed"
<1>1. /\ change[i] # "no"
      /\ change' = [change EXCEPT ![i] = "over"] /\ said' = [said EXCEPT ![i] = word]
      /\ before' = [before EXCEPT ![i] = NoSnapshot]
      /\ UNCHANGED <<scene, served, online, filter, applied, feedVars>>
  BY DEF Miscarry
<1>l. left' \in 0..Disturbances
  BY CacheShapes, DisturbFits DEF Miscarry
<1>2. word = "done" => scene.course.saysDone
  OBVIOUS
<1>3. word \in {"done", "failed"}
  OBVIOUS
<1> HIDE DEF word
<1>f. CourseFits(scene.course)
  BY CacheShapes, SceneFits
<1>4. word = "done" /\ scene.course.doneIsDone => i \in applied
  BY <1>2, <1>f DEF CourseFits
<1>5. CASE scene.course.settles /\ scene.course.refetches
  <2>1. Invalidate(RolledBack(i))
    BY <1>5 DEF Miscarry
  <2>2. \E c \in [Filters -> Entry] : Invalidate(c)
    BY <2>1, RolledBackFits
  <2> QED
    BY <2>2, <1>1, <1>3, <1>4, <1>l, EndStep
<1>6. CASE ~(scene.course.settles /\ scene.course.refetches)
  <2>1. cache' = RolledBack(i) /\ UNCHANGED <<fetch, overtaken>>
    BY <1>6 DEF Miscarry
  <2>2. /\ ~scene.course.cancels
        /\ scene.course.staysCurrent /\ scene.course.touches => word # "done" /\ ~scene.course.settles
    BY <1>6, <1>2, <1>f DEF CourseFits
  <2>3. cache' = cache
    BY <2>1, <2>2, RolledBackFits
  <2> QED
    BY <2>1, <2>2, <2>3, <1>1, <1>3, <1>4, <1>l, EndStep
<1> QED
  BY <1>5, <1>6

LEMMA CacheInitInv == ASSUME CacheInit PROVE CacheInv
<1>1. filter \in Filters
  <2>1. PICK f \in Filters : \A g \in Filters : f <= g
    BY CacheAssumption
  <2> QED
    BY <2>1 DEF CacheInit
<1>2. /\ scene \in Scenes /\ served \in {{}, Rows} /\ online = TRUE
      /\ cache = [f \in Filters |-> [rows |-> Unknown, failed |-> FALSE, stale |-> FALSE]]
      /\ fetch = [f \in Filters |-> IF f = filter THEN Asking ELSE Idle]
      /\ overtaken = {} /\ change = [i \in Changes |-> "no"] /\ before = [i \in Changes |-> NoSnapshot]
      /\ said = [i \in Changes |-> "nothing"] /\ applied = {}
      /\ window = "open" /\ news = "none" /\ left = Disturbances
  BY DEF CacheInit
<1>3. Asking \in Request /\ Asking.got = Unknown /\ Asking.st = "asking"
  <2>1. scene.course.retries \in 0..1
    BY <1>2, ScenesAssumption DEF CourseFits
  <2> QED
    BY <2>1, <1>2, NoAnswer DEF Asking, Request
<1>4. fetch \in [Filters -> Request]
  BY <1>2, <1>3, IdleFits
<1>5. cache \in [Filters -> Entry]
  BY <1>2, NoAnswer DEF Entry
<1>6. before \in [Changes -> [Filters -> Answer]]
  BY <1>2, NoAnswer DEF NoSnapshot
<1>7. CacheTypes
  <2>1. left \in 0..Disturbances
    BY <1>2, CacheAssumption
  <2>2. served \in SUBSET Rows /\ online \in BOOLEAN /\ overtaken \subseteq Filters /\ applied \subseteq Changes
    BY <1>2
  <2> QED
    BY <2>1, <2>2, <1>1, <1>2, <1>4, <1>5, <1>6 DEF CacheTypes, Entry, Request
<1>8. Asked
  BY <1>2, <1>3, IdleFits DEF Asked
<1>9. Busy(filter)
  BY <1>1, <1>2, <1>3 DEF Busy
<1>10. Touched /\ Snapshots /\ Taken /\ Reported
  BY <1>2 DEF Touched, Snapshots, Taken, Reported
<1>11. \A r \in Rows : Right(r)
  BY <1>2, <1>3, IdleFits DEF Right
<1> QED
  BY <1>7, <1>8, <1>9, <1>10, <1>11 DEF CacheInv, Explained, Reread, Current

LEMMA CacheNextInv == ASSUME CacheInv, [CacheNext]_cacheVars PROVE CacheInv'
<1>1. CASE \E f \in Filters : Read(f) \/ Arrive(f) \/ Fail(f) \/ Switch(f)
  BY <1>1, ReadStep, ArriveStep, FailStep, SwitchStep
<1>2. CASE AskAgain \/ GoOffline \/ GoOnline
  BY <1>2, AskAgainStep, GoOfflineStep, GoOnlineStep
<1>3. CASE \E i \in Changes : Mutate(i) \/ Take(i) \/ RefuseChange(i) \/ Succeed(i) \/ Miscarry(i)
  BY <1>3, MutateStep, TakeStep, SucceedStep, MiscarryStep
<1>4. CASE OthersChange \/ HearNews \/ HearOther \/ Flush \/ TwoSecondsPass
  BY <1>4, OthersChangeStep, FeedStep
<1>5. CASE UNCHANGED cacheVars
  <2>1. window \in {"open", "closed", "armed", "due"} /\ news \in {"none", "unsent", "heard"}
    BY DEF CacheInv, CacheTypes
  <2>2. UNCHANGED <<scene, served, online, queryVars, changeVars, feedVars, left>>
    BY <1>5 DEF cacheVars
  <2> QED
    BY <2>1, <2>2, CacheShapes, ThrottleStep DEF feedVars
<1> QED
  BY <1>1, <1>2, <1>3, <1>4, <1>5 DEF CacheNext

LEMMA CacheKept == CacheSpec => []CacheInv
BY CacheInitInv, CacheNextInv, PTL DEF CacheSpec

LEMMA LeastElement ==
  ASSUME NEW S \in SUBSET Nat, S # {}
  PROVE  Min(S) \in S /\ \A y \in S : Min(S) <= y
<1>1. IsWellFoundedOn(OpToRel(<, Nat), Nat)
  BY NatLessThanWellFounded
<1>2. PICK x \in S : \A y \in S : <<y, x>> \notin OpToRel(<, Nat)
  BY <1>1, WFMin
<1>3. \A y \in S : x <= y
  <2> SUFFICES ASSUME NEW y \in S PROVE x <= y
    OBVIOUS
  <2>1. x \in Nat /\ y \in Nat
    OBVIOUS
  <2>2. ~(y < x)
    BY <1>2, <2>1 DEF OpToRel
  <2> QED
    BY <2>1, <2>2
<1> QED
  BY <1>3 DEF Min

LEMMA HoldsOf ==
  /\ Holds("loading") <=> Pending /\ Data = Unknown /\ fetch[filter].st = "asking"
  /\ Holds("error") <=> IsError
  /\ Holds("failed") <=> IsError /\ Data = Unknown
  /\ Holds("unknown") <=> Data = Unknown
  /\ Holds("empty") <=> Data \in {Unknown, {}}
  /\ Holds("always")
BY DEF Holds

LEMMA NoDataExplained ==
  ASSUME CacheInv, Data = Unknown
  PROVE  Pending \/ IsError \/ (scene.course.cancels /\ \E i \in Changes : Underway(i))
<1>1. cache[filter].rows = Unknown
  BY DEF Data
<1> QED
  BY <1>1 DEF CacheInv, Explained, Pending, IsError

LEMMA Honest == CacheInv => ScreensAreHonest
<1> SUFFICES ASSUME CacheInv, NEW look \in scene.looks, look.emptyIsKnown,
                    Screen(look.tests) \in {"none", "crash"}
             PROVE  \/ Screen(look.tests) = "none" /\ Data = {}
                    \/ Data = Unknown /\ ~online
                    \/ Data = Unknown /\ scene.course.cancels /\ \E i \in Changes : Underway(i)
  BY DEF ScreensAreHonest
<1> DEFINE T == look.tests
           hits == {k \in DOMAIN T : Holds(T[k][1])}
<1>1. LookFits(look)
  BY CacheShapes, SceneFits
<1>2. T \in Seq(STRING \X STRING) /\ DOMAIN T = 1..Len(T) /\ Len(T) \in Nat
  BY <1>1 DEF LookFits
<1>3. hits # {} /\ Screen(T) = T[Min(hits)][2]
  BY DEF Screen
<1> DEFINE k == Min(hits)
<1>4. k \in DOMAIN T /\ Holds(T[k][1]) /\ k \in Nat /\ \A j \in hits : k <= j
  <2>1. hits \in SUBSET Nat
    BY <1>2
  <2>2. Min(hits) \in hits /\ \A j \in hits : Min(hits) <= j
    BY <1>3, <2>1, LeastElement
  <2> QED
    BY <2>1, <2>2
<1>5. Screen(T) = T[k][2]
  BY <1>3
<1> HIDE DEF k
<1>6. \A j \in 1..(k - 1) : ~Holds(T[j][1])
  <2> SUFFICES ASSUME NEW j \in 1..(k - 1) PROVE ~Holds(T[j][1])
    OBVIOUS
  <2>1. j \in DOMAIN T /\ ~(k <= j)
    BY <1>2, <1>4
  <2> QED
    BY <2>1, <1>4
<1>7. /\ T[k] \in {<<"unknown", "none">>, <<"unknown", "crash">>, <<"empty", "none">>}
      /\ \E j \in 1..(k - 1) : T[j][1] \in {"loading", "unknown", "empty", "always"}
      /\ \E j \in 1..(k - 1) : T[j][1] \in {"error", "failed", "unknown", "empty", "always"}
  BY <1>1, <1>4, <1>5 DEF LookFits
<1> HIDE DEF T, hits
<1>8. Data = Unknown \/ (Screen(look.tests) = "none" /\ Data = {})
  BY <1>4, <1>5, <1>7, HoldsOf DEF T
<1>9. ASSUME Data = Unknown PROVE ~IsError /\ (Pending => fetch[filter].st # "asking")
  BY <1>6, <1>7, <1>9, HoldsOf
<1>10. ASSUME Data = Unknown, Pending
       PROVE  ~online \/ (scene.course.cancels /\ \E i \in Changes : Underway(i))
  <2>1. cache[filter].rows = Unknown /\ (Busy(filter) \/ ~cache[filter].failed)
    BY <1>10 DEF Data, Pending
  <2>2. CASE Busy(filter)
    <3>1. fetch[filter].st = "paused"
      <4>1. fetch[filter].st \in {"idle", "asking", "paused"}
        BY CacheShapes DEF Request
      <4> QED
        BY <4>1, <2>2, <1>9, <1>10 DEF Busy
    <3> QED
      BY <3>1, CacheShapes DEF CacheInv, Asked
  <2>3. CASE ~Busy(filter)
    BY <2>1, <2>3 DEF CacheInv, Explained
  <2> QED
    BY <2>2, <2>3
<1> QED
  BY <1>8, <1>9, <1>10, NoDataExplained

(* What a screen shows is right once everything has been answered.         *)
LEMMA ShownIsRight ==
  ASSUME CacheInv, \A i \in Changes : ~Underway(i), ~Busy(filter), ~cache[filter].failed,
         filter \notin overtaken, cache[filter].rows # Unknown,
         NEW r \in Rows, Announced(r), r \in Matching[filter]
  PROVE  r \in cache[filter].rows <=> r \in served
<1>1. Calm
  BY DEF Calm
<1>2. ~cache[filter].stale
  BY <1>1 DEF CacheInv, Reread
<1>3. Right(r)
  BY <1>1 DEF CacheInv, Current
<1> QED
  BY <1>2, <1>3, CacheShapes DEF Right

(* No component says "none" of what it has not read, but for those named   *)
(* in FalselyEmpty.                                                        *)
THEOREM NoFalseEmptiness == CacheSpec => []ScreensAreHonest
BY CacheKept, Honest, PTL

(* What the user was told has been done is on the screen in the end, and a *)
(* rolled back patch is not.                                               *)
THEOREM OwnChangesEndUpShown == CacheSpec => []OwnChangesShown
<1>1. CacheInv => OwnChangesShown
  <2> SUFFICES ASSUME CacheInv, \A i \in Changes : ~Underway(i), ~Busy(filter), ~cache[filter].failed,
                      filter \notin overtaken, cache[filter].rows # Unknown, scene.course.staysCurrent,
                      NEW i \in Changes \cap Matching[filter], Settled(i)
               PROVE  i \in cache[filter].rows <=> i \in served
    BY DEF OwnChangesShown
  <2>1. i \in Rows /\ i # Theirs
    BY CacheAssumption DEF Rows
  <2>2. Announced(i)
    BY <2>1 DEF Announced
  <2> QED
    BY <2>1, <2>2, ShownIsRight
<1> QED
  BY <1>1, CacheKept, PTL

(* So is a change of others that the live feed has announced: the throttle *)
(* loses none.                                                             *)
THEOREM AnnouncedChangesEndUpShown == CacheSpec => []AnnouncedChangesShown
<1>1. CacheInv => AnnouncedChangesShown
  <2> SUFFICES ASSUME CacheInv, \A i \in Changes : ~Underway(i), ~Busy(filter), ~cache[filter].failed,
                      filter \notin overtaken, cache[filter].rows # Unknown,
                      news = "heard", window # "due", Theirs \in Matching[filter]
               PROVE  Theirs \in cache[filter].rows <=> Theirs \in served
    BY DEF AnnouncedChangesShown
  <2>1. Theirs \in Rows /\ Announced(Theirs)
    BY DEF Rows, Announced
  <2> QED
    BY <2>1, ShownIsRight
<1> QED
  BY <1>1, CacheKept, PTL

(* A change is reported as done only when the server has made it, but for  *)
(* the mutations of DoneAnyway.                                            *)
THEOREM NothingReportedInVain == CacheSpec => []DoneIsDone
<1>1. CacheInv => DoneIsDone
  BY DEF CacheInv, Reported, DoneIsDone
<1> QED
  BY <1>1, CacheKept, PTL
=============================================================================
