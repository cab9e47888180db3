------------------------------ MODULE JobQueue ------------------------------
(***************************************************************************)
(* The background job queue (jobs/queue.py) over Redis lists               *)
(* (jobs/redis_broker.py) or the in-process priority queue, with its       *)
(* workers, retries, dead-letter list and shutdown.                        *)
(*                                                                         *)
(* A worker awaits in _dequeue, in the handler, in the backoff sleep and   *)
(* in each broker command, so these are separate steps and the shutdown's  *)
(* task.cancel(), a crash or a broker outage may fall between any two.     *)
(* BRPOP takes the job off its list before the worker sees it: "popped".   *)
(* Priorities are 1 (high), 2 (normal), 3 (low).                           *)
(***************************************************************************)
EXTENDS Integers, FiniteSets, SequencesExt

CONSTANTS
  Jobs,        \* one per call of enqueue
  Priority,    \* the priority each is enqueued with
  Unknown,     \* jobs no handler is registered for
  Workers,     \* worker tasks of the process
  Backends,    \* JOB_QUEUE_BACKEND: "redis", "memory" or either
  MaxQueue,    \* 10000: the length at which enqueue_job drops
  MaxRetries,  \* Job.max_retries
  MaxDead,     \* MAX_DEAD_LETTER_SIZE
  MaxStops,    \* shutdowns and crashes of the process (bounds the model)
  MaxOutages   \* outages of Redis (bounds the model)

Levels == 1..3

ASSUME JobAssumption == Priority \in [Jobs -> Levels] /\ Unknown \subseteq Jobs
ASSUME WorkerAssumption == IsFiniteSet(Workers)
ASSUME BackendAssumption == Backends \subseteq {"redis", "memory"}
ASSUME LimitAssumption ==
  {MaxQueue, MaxRetries, MaxDead, MaxStops, MaxOutages} \subseteq Nat

VARIABLES
  backend,    \* the queue this deployment was configured with
  queue,      \* level -> jobs waiting, oldest first
  dead,       \* the dead-letter list, oldest first
  submitted,  \* per job: how far its enqueue call got
  pc,         \* per worker: where its loop is
  job,        \* per worker: the job it holds
  inFlight,   \* JobQueue._in_flight
  isRunning,  \* JobQueue.is_running
  brokerUp,   \* Redis answers
  stops, outages,  \* faults so far
  finished,   \* history: jobs whose handler returned
  lost,       \* history: per job, what made it disappear
  runs        \* history: how often the handler of each job was started

workerVars == <<pc, job, inFlight>>
history    == <<finished, lost, runs>>
state == <<queue, dead, submitted, workerVars, isRunning, brokerUp, stops, outages, history>>
vars  == <<backend, state>>

Entry  == [id : Jobs, retry : Nat]
NoJob  == [id |-> "none", retry |-> 0]

Holding == {"popped", "running", "backoff", "requeue", "push", "bury", "buryUnknown"}
Counted == {"running", "backoff", "requeue", "push", "bury"}
Causes  == {"no", "queue full", "dead-letter trimmed", "no dead-letter", "broker", "cancelled", "crash"}

TypeOK ==
  /\ backend \in Backends
  /\ queue \in [Levels -> Seq(Entry)]
  /\ dead \in Seq(Entry) /\ Len(dead) <= MaxDead
  /\ submitted \in [Jobs -> {"new", "checked", "accepted", "refused"}]
  /\ pc \in [Workers -> Holding \cup {"idle", "polling", "dead", "stopped"}]
  /\ job \in [Workers -> Entry \cup {NoJob}]
  /\ inFlight \in Nat
  /\ {isRunning, brokerUp} \subseteq BOOLEAN
  /\ stops \in 0..MaxStops /\ outages \in 0..MaxOutages
  /\ finished \subseteq Jobs /\ lost \in [Jobs -> Causes] /\ runs \in [Jobs -> Nat]

Init ==
  /\ backend \in Backends
  /\ queue = [p \in Levels |-> <<>>] /\ dead = <<>>
  /\ submitted = [j \in Jobs |-> "new"]
  /\ pc = [w \in Workers |-> "idle"] /\ job = [w \in Workers |-> NoJob]
  /\ inFlight = 0 /\ isRunning = TRUE /\ brokerUp = TRUE
  /\ stops = 0 /\ outages = 0
  /\ finished = {} /\ lost = [j \in Jobs |-> "no"] /\ runs = [j \in Jobs |-> 0]

IdsOf(entries) == {entries[i].id : i \in DOMAIN entries}

Lose(ids, cause) == lost' = [j \in Jobs |-> IF j \in ids THEN cause ELSE lost[j]]

Available == backend = "memory" \/ brokerUp

PushJob(e) == queue' = [queue EXCEPT ![Priority[e.id]] = Append(@, e)]

Full(p) == backend = "redis" /\ Len(queue[p]) >= MaxQueue

-----------------------------------------------------------------------------
(* enqueue, by whatever handler, hook or service calls it.  The Redis      *)
(* broker reads the length first and pushes in a second command; a full    *)
(* list drops the job, and the caller gets a job id all the same.          *)

Enqueue(j) ==
  /\ submitted[j] = "new"
  /\ \/ /\ ~Available
        /\ submitted' = [submitted EXCEPT ![j] = "refused"]
        /\ UNCHANGED lost
     \/ /\ Available /\ Full(Priority[j])
        /\ submitted' = [submitted EXCEPT ![j] = "accepted"]
        /\ Lose({j}, "queue full")
     \/ /\ Available /\ ~Full(Priority[j])
        /\ submitted' = [submitted EXCEPT ![j] = "checked"]
        /\ UNCHANGED lost
  /\ UNCHANGED <<queue, dead, workerVars, isRunning, brokerUp, stops, outages, finished, runs>>

Push(j) ==
  /\ submitted[j] = "checked"
  /\ \/ /\ Available
        /\ PushJob([id |-> j, retry |-> 0])
        /\ submitted' = [submitted EXCEPT ![j] = "accepted"]
     \/ /\ ~Available
        /\ submitted' = [submitted EXCEPT ![j] = "refused"]
        /\ UNCHANGED queue
  /\ UNCHANGED <<dead, workerVars, isRunning, brokerUp, stops, outages, history>>

-----------------------------------------------------------------------------
Goto(w, from, to) == pc[w] = from /\ pc' = [pc EXCEPT ![w] = to]

(* The worker lets go of its job; "finally" lowers the in-flight count.    *)
Release(w, to) ==
  /\ pc' = [pc EXCEPT ![w] = to]
  /\ job' = [job EXCEPT ![w] = NoJob]
  /\ inFlight' = IF pc[w] \in Counted THEN inFlight - 1 ELSE inFlight

Poll(w) ==
  /\ isRunning
  /\ Goto(w, "idle", "polling")
  /\ UNCHANGED <<queue, dead, submitted, job, inFlight, isRunning, brokerUp, stops, outages, history>>

(* Mutant: the job is read but not taken off its list.                     *)
PopPeeks(w) ==
  /\ Available
  /\ Goto(w, "polling", "popped")
  /\ \E p \in Levels :
       /\ queue[p] # <<>> /\ \A q \in 1..(p - 1) : queue[q] = <<>>
       /\ job' = [job EXCEPT ![w] = Head(queue[p])]
  /\ UNCHANGED <<queue, dead, submitted, inFlight, isRunning, brokerUp, stops, outages, history>>

(* BRPOP over the three lists, or the heap, which keeps no order among     *)
(* jobs of one priority.                                                   *)
Pop(w) ==
  /\ Available
  /\ Goto(w, "polling", "popped")
  /\ \E p \in Levels :
       /\ queue[p] # <<>> /\ \A q \in 1..(p - 1) : queue[q] = <<>>
       /\ \E i \in IF backend = "redis" THEN {1} ELSE DOMAIN queue[p] :
            /\ job' = [job EXCEPT ![w] = queue[p][i]]
            /\ queue' = [queue EXCEPT ![p] = RemoveAt(@, i)]
  /\ UNCHANGED <<dead, submitted, inFlight, isRunning, brokerUp, stops, outages, history>>

PollTimesOut(w) ==
  /\ Available /\ \A p \in Levels : queue[p] = <<>>
  /\ Goto(w, "polling", "idle")
  /\ UNCHANGED <<queue, dead, submitted, job, inFlight, isRunning, brokerUp, stops, outages, history>>

(* _dequeue is outside the try: a broken connection ends the worker task,  *)
(* and nothing starts another.                                             *)
PollFails(w) ==
  /\ ~Available
  /\ Goto(w, "polling", "dead")
  /\ UNCHANGED <<queue, dead, submitted, job, inFlight, isRunning, brokerUp, stops, outages, history>>

Receive(w) ==
  /\ \/ /\ job[w].id \notin Unknown
        /\ Goto(w, "popped", "running")
        /\ inFlight' = inFlight + 1
        /\ runs' = [runs EXCEPT ![job[w].id] = @ + 1]
     \/ /\ job[w].id \in Unknown
        /\ Goto(w, "popped", "buryUnknown")
        /\ UNCHANGED <<inFlight, runs>>
  /\ UNCHANGED <<queue, dead, submitted, job, isRunning, brokerUp, stops, outages, finished, lost>>

Complete(w) ==
  /\ pc[w] = "running"
  /\ finished' = finished \cup {job[w].id}
  /\ Release(w, "idle")
  /\ UNCHANGED <<queue, dead, submitted, isRunning, brokerUp, stops, outages, lost, runs>>

(* Mutant: the retry is not counted.                                       *)
RetryUncounted(w, next) ==
  /\ pc[w] = "running"
  /\ pc' = [pc EXCEPT ![w] = next]
  /\ UNCHANGED <<queue, dead, submitted, job, inFlight, isRunning, brokerUp, stops, outages, history>>

(* A timeout goes straight back to the queue, an exception after a sleep,  *)
(* both up to MaxRetries times.                                            *)
Retry(w, next) ==
  /\ pc[w] = "running" /\ job[w].retry + 1 <= MaxRetries
  /\ job' = [job EXCEPT ![w].retry = @ + 1]
  /\ pc' = [pc EXCEPT ![w] = next]
  /\ UNCHANGED <<queue, dead, submitted, inFlight, isRunning, brokerUp, stops, outages, history>>

HandlerTimesOut(w) == Retry(w, "requeue")
HandlerRaises(w)   == Retry(w, "backoff")

BackoffEnds(w) ==
  /\ Goto(w, "backoff", "requeue")
  /\ UNCHANGED <<queue, dead, submitted, job, inFlight, isRunning, brokerUp, stops, outages, history>>

GiveUp(w) ==
  /\ pc[w] = "running" /\ job[w].retry + 1 > MaxRetries
  /\ job' = [job EXCEPT ![w].retry = @ + 1]
  /\ pc' = [pc EXCEPT ![w] = "bury"]
  /\ UNCHANGED <<queue, dead, submitted, inFlight, isRunning, brokerUp, stops, outages, history>>

(* A broker command inside the except clause raises: the task ends, and    *)
(* the job is gone.                                                        *)
BrokerFails(w) ==
  /\ ~Available /\ pc[w] \in {"requeue", "push", "bury", "buryUnknown"}
  /\ Lose({job[w].id}, "broker")
  /\ Release(w, "dead")
  /\ UNCHANGED <<queue, dead, submitted, isRunning, brokerUp, stops, outages, finished, runs>>

RequeueCheck(w) ==
  /\ Available /\ pc[w] = "requeue"
  /\ \/ /\ Full(Priority[job[w].id])
        /\ Lose({job[w].id}, "queue full")
        /\ Release(w, "idle")
     \/ /\ ~Full(Priority[job[w].id])
        /\ Goto(w, "requeue", "push")
        /\ UNCHANGED <<job, inFlight, lost>>
  /\ UNCHANGED <<queue, dead, submitted, isRunning, brokerUp, stops, outages, finished, runs>>

RequeuePush(w) ==
  /\ Available /\ pc[w] = "push"
  /\ PushJob(job[w])
  /\ Release(w, "idle")
  /\ UNCHANGED <<dead, submitted, isRunning, brokerUp, stops, outages, history>>

(* Mutant: a job that exhausted its retries is dropped.                    *)
BuryDrops(w) ==
  /\ Available /\ pc[w] \in {"bury", "buryUnknown"}
  /\ Lose({job[w].id}, "no dead-letter")
  /\ Release(w, "idle")
  /\ UNCHANGED <<queue, dead, submitted, isRunning, brokerUp, stops, outages, finished, runs>>

(* enqueue_dead_letter pushes and trims; the memory queue has no such list *)
(* and drops the job.                                                      *)
Bury(w) ==
  /\ Available /\ pc[w] \in {"bury", "buryUnknown"}
  /\ IF backend = "redis"
     THEN LET all == Append(dead, job[w])
              cut == IF Len(all) > MaxDead THEN Len(all) - MaxDead ELSE 0
          IN  /\ dead' = SubSeq(all, cut + 1, Len(all))
              /\ Lose(IdsOf(SubSeq(all, 1, cut)), "dead-letter trimmed")
     ELSE /\ UNCHANGED dead
          /\ Lose({job[w].id}, "no dead-letter")
  /\ Release(w, "idle")
  /\ UNCHANGED <<queue, submitted, isRunning, brokerUp, stops, outages, finished, runs>>

-----------------------------------------------------------------------------
HeldBy(ws) == {job[w].id : w \in {v \in ws : pc[v] \in Holding}}

Stop ==
  /\ isRunning /\ stops < MaxStops
  /\ isRunning' = FALSE /\ stops' = stops + 1
  /\ UNCHANGED <<queue, dead, submitted, workerVars, brokerUp, outages, history>>

(* All tasks end at once, and with a process the memory queue it holds.    *)
EndTasks(cause) ==
  /\ pc' = [w \in Workers |-> "stopped"]
  /\ job' = [w \in Workers |-> NoJob]
  /\ inFlight' = 0
  /\ IF backend = "redis"
     THEN Lose(HeldBy(Workers), cause) /\ UNCHANGED queue
     ELSE /\ Lose(HeldBy(Workers) \cup UNION {IdsOf(queue[p]) : p \in Levels}, cause)
          /\ queue' = [p \in Levels |-> <<>>]

(* stop(): no handler is in flight, or the grace period is over.           *)
CancelTasks ==
  /\ ~isRunning /\ \E w \in Workers : pc[w] # "stopped"
  /\ EndTasks("cancelled")
  /\ UNCHANGED <<dead, submitted, isRunning, brokerUp, stops, outages, finished, runs>>

DrainedCancel == inFlight = 0 /\ CancelTasks

GraceExpires == inFlight > 0 /\ CancelTasks

Crash ==
  /\ stops < MaxStops /\ \E w \in Workers : pc[w] # "stopped"
  /\ EndTasks("crash")
  /\ isRunning' = FALSE /\ stops' = stops + 1
  /\ UNCHANGED <<dead, submitted, brokerUp, outages, finished, runs>>

(* Mutant: the queue is marked running but no task is created.             *)
StartWithoutTasks ==
  /\ ~isRunning /\ \A w \in Workers : pc[w] = "stopped"
  /\ isRunning' = TRUE
  /\ UNCHANGED <<queue, dead, submitted, workerVars, brokerUp, stops, outages, history>>

Start ==
  /\ ~isRunning /\ \A w \in Workers : pc[w] = "stopped"
  /\ isRunning' = TRUE
  /\ pc' = [w \in Workers |-> "idle"]
  /\ UNCHANGED <<queue, dead, submitted, job, inFlight, brokerUp, stops, outages, history>>

BrokerDown ==
  /\ backend = "redis" /\ brokerUp /\ outages < MaxOutages
  /\ brokerUp' = FALSE /\ outages' = outages + 1
  /\ UNCHANGED <<queue, dead, submitted, workerVars, isRunning, stops, history>>

BrokerBack ==
  /\ ~brokerUp
  /\ brokerUp' = TRUE
  /\ UNCHANGED <<queue, dead, submitted, workerVars, isRunning, stops, outages, history>>

Worker(w) ==
  \/ Poll(w) \/ Pop(w) \/ PollTimesOut(w) \/ PollFails(w) \/ Receive(w)
  \/ Complete(w) \/ HandlerTimesOut(w) \/ HandlerRaises(w) \/ BackoffEnds(w) \/ GiveUp(w)
  \/ BrokerFails(w) \/ RequeueCheck(w) \/ RequeuePush(w) \/ Bury(w)

Next ==
  /\ UNCHANGED backend
  /\ \/ \E j \in Jobs : Enqueue(j) \/ Push(j)
     \/ \E w \in Workers : Worker(w)
     \/ Stop \/ DrainedCancel \/ GraceExpires \/ Crash \/ Start
     \/ BrokerDown \/ BrokerBack

Spec == Init /\ [][Next]_vars

(* Every task that can run does, wait_for bounds each handler, a stopped   *)
(* process is started again and an outage ends.                            *)
Fairness ==
  /\ \A j \in Jobs : WF_state(Push(j))
  /\ \A w \in Workers : WF_state(Worker(w))
  /\ WF_state(DrainedCancel \/ GraceExpires) /\ WF_state(Start) /\ WF_state(BrokerBack)

FairSpec == Spec /\ Fairness

-----------------------------------------------------------------------------
(* An accepted job is in exactly one place: once in a list, in the hands   *)
(* of one worker, finished, in the dead-letter list, or lost.              *)
Copies(j) ==
  Cardinality(UNION {{p} \X {i \in DOMAIN queue[p] : queue[p][i].id = j} : p \in Levels})
  + Cardinality({w \in Workers : pc[w] \in Holding /\ job[w].id = j})
  + Cardinality({i \in DOMAIN dead : dead[i].id = j})
  + (IF j \in finished THEN 1 ELSE 0)
  + (IF lost[j] # "no" THEN 1 ELSE 0)

ExactlyOnePlace ==
  \A j \in Jobs : Copies(j) = IF submitted[j] = "accepted" THEN 1 ELSE 0

(* stop() trusts _in_flight: it is the number of workers with a job whose  *)
(* handler was started, whichever way each of them ends.                   *)
InFlightExact == inFlight = Cardinality({w \in Workers : pc[w] \in Counted})

(* Jobs and workers are counted right, over retries, outages and stops.    *)
Bookkeeping == TypeOK /\ ExactlyOnePlace /\ InFlightExact

(* Jobs are kept as the ledger says: each step of the queue, its workers   *)
(* and its processes runs, ends or drops jobs that are still owed, and the *)
(* rest of what they do concerns nobody who handed in a job.               *)
Ledger ==
  INSTANCE JobLedger WITH
    accepted <- {j \in Jobs : submitted[j] = "accepted"}, done <- finished, buried <- IdsOf(dead),
    gone <- {j \in Jobs : lost[j] # "no"}, MaxRuns <- MaxRetries + 1

KeepsLedger == Ledger!Spec

(* While the broker is up and the process is not stopped, nothing else     *)
(* than a full list makes a job disappear.                                 *)
LossNeedsFault ==
  (stops = 0 /\ outages = 0 /\ backend = "redis") =>
    \A j \in Jobs : lost[j] \in {"no", "queue full", "dead-letter trimmed"}

(* Every accepted job comes to an end, over retries, shutdowns, crashes    *)
(* and restarts - as long as Redis does not fail.                          *)
Settled(j) == j \in finished \/ j \in IdsOf(dead) \/ lost[j] # "no"

JobsSettle ==
  \A j \in Jobs : submitted[j] = "accepted" ~> (Settled(j) \/ outages > 0)

=============================================================================
