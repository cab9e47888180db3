---------------------------- MODULE EventDelivery ----------------------------
(***************************************************************************)
(* The path of a security event from a log line on a monitored host to a   *)
(* row of the backend's events table:                                      *)
(*                                                                         *)
(*   - the agent (agent/agent/main.py, sender.py, buffer.py), one thread   *)
(*     that flushes its SQLite buffer, tails the logs, posts what it read  *)
(*     and buffers what it could not post;                                 *)
(*   - the network, which loses requests and answers and outlasts the      *)
(*     agent's 15 s timeout;                                               *)
(*   - the backend (pipeline/ingestion.py, services/ingest_dedup.py,       *)
(*     database.get_db), which handles each request in one transaction:    *)
(*     a dedup mark per event, one commit, the post-commit hook, the       *)
(*     answer.                                                             *)
(*                                                                         *)
(* A log line is its number; Fingerprint says which lines have the same    *)
(* type and text, for the code takes those for one event.  Each event is   *)
(* marked in Redis, if it is configured and in reach (such a mark is there *)
(* at once and survives a rollback), or else in the ingest_dedup table     *)
(* (such a mark belongs to the transaction).                               *)
(*                                                                         *)
(* Left out: the marks' lifetime of a day, which a log read again after a  *)
(* restart may outlast, and read_journald, for hosts without log files.    *)
(***************************************************************************)
EXTENDS Integers, Sequences, FiniteSets

CONSTANTS
  NumLines,      \* log lines the host ever writes (bounds the model)
  Fingerprints,  \* sha256(host, type, raw_log or description)
  Fingerprint,   \* the fingerprint of each line
  Rejected,      \* lines validate_event_payload refuses
  Oversized,     \* lines whose JSON exceeds MAX_EVENT_SIZE_BYTES
  Stores,        \* deployments: "redis" (redis_url is set), "postgres"
  MaxEventsPerCycle,  \* collector/logs.py
  MaxSendBatch,       \* sender.MAX_SEND_BATCH_SIZE
  MaxDequeue,         \* buffer.MAX_DEQUEUE_ITEMS
  MaxBuffer,          \* buffer.MAX_BUFFER_ITEMS
  Backlog,       \* buffers an earlier process may have left
  Slots,         \* concurrent requests of this agent in the backend
  None,          \* no slot
  MaxFaults      \* faults the environment injects (bounds the model)

Lines == 1..NumLines

ASSUME LinesAssumption == NumLines \in Nat
ASSUME FingerprintAssumption == Fingerprint \in [Lines -> Fingerprints]
ASSUME RejectedAssumption == Rejected \cup Oversized \subseteq Lines
ASSUME StoreAssumption == Stores \subseteq {"redis", "postgres"}
(* One collection never needs a second POST: 30 events, 50 per request.    *)
ASSUME BatchAssumption ==
  /\ {MaxEventsPerCycle, MaxSendBatch, MaxDequeue, MaxBuffer} \subseteq Nat \ {0}
  /\ MaxEventsPerCycle <= MaxSendBatch
ASSUME BacklogAssumption ==
  \A rows \in Backlog : rows \in Seq(Lines) /\ Len(rows) <= MaxBuffer
ASSUME SlotAssumption ==
  /\ Slots \cap {None, "set"} = {} /\ None # "set" /\ None \notin Fingerprints
ASSUME FaultAssumption == MaxFaults \in Nat

VARIABLES
  (* the host and its agent *)
  written,    \* lines written to the log so far
  start,      \* how many of them are in files that were rotated away
  position,   \* LogTailer.positions: offset in the file, in memory only
  buffer,     \* the queue table, oldest row first
  pc,         \* where the main loop is
  batch,      \* the events being sent
  acked,      \* how many of them the backend has acknowledged
  awaiting,   \* the request whose answer the agent waits for
  stopping,   \* _shutdown_requested
  (* the backend *)
  dedup,      \* the deployment: a member of Stores
  redis,      \* Redis is "up", "down" or "back" after it was out of reach
  request,    \* per slot: its state, lines to do, rows added to the session
  mark,       \* key -> None, the slot that holds it uncommitted, "set"
  stored,     \* how often each row is committed to the events table
  notified,   \* rows whose host got a correlation_pipeline job
  (* the environment, and what history the properties need *)
  faults,     \* faults injected so far
  discarded,  \* lines a rule of the agent or of the validator dropped
  missed,     \* lines the tailer passed over or failed to keep
  swallowed   \* rows of transactions that failed without anybody noticing

agentVars   == <<written, start, position, buffer, pc, batch, acked, awaiting, stopping>>
backendVars == <<redis, request, mark, stored, notified, swallowed>>
lineVars    == <<discarded, missed>>
state       == <<agentVars, backendVars, faults, lineVars>>
vars        == <<dedup, state>>

(* A row of the events table: a line, and the store it was marked in.      *)
Rows == Lines \X {"redis", "postgres"}

Keys == Fingerprints \X {"redis", "postgres"}

Key(row) == <<Fingerprint[row[1]], row[2]>>

Free == [state |-> "free", todo |-> <<>>, added |-> {}]

LinesOf(seq) == {seq[i] : i \in DOMAIN seq}

TypeOK ==
  /\ dedup \in Stores
  /\ written \in 0..NumLines /\ start \in 0..written /\ position \in 0..NumLines
  /\ buffer \in Seq(Lines) /\ Len(buffer) <= MaxBuffer
  /\ pc \in {"loop", "flush", "collect", "post", "lastFlush", "down"}
  /\ batch \in Seq(Lines) /\ acked \in 0..Len(batch)
  /\ awaiting \in Slots \cup {None}
  /\ stopping \in BOOLEAN
  /\ request \in [Slots -> [state : {"free", "open", "committed", "done", "failed"},
                            todo : Seq(Lines), added : SUBSET Rows]]
  /\ redis \in {"up", "down", "back"}
  /\ mark \in [Keys -> Slots \cup {None, "set"}]
  /\ stored \in [Rows -> Nat]
  /\ notified \cup swallowed \subseteq Rows
  /\ faults \in 0..MaxFaults
  /\ discarded \cup missed \subseteq Lines

Init ==
  /\ dedup \in Stores /\ redis = "up"
  /\ buffer \in Backlog /\ start = 0 /\ position = 0
  /\ written \in 0..NumLines /\ LinesOf(buffer) = 1..written
  /\ pc = "loop" /\ batch = <<>> /\ acked = 0 /\ awaiting = None
  /\ stopping = FALSE
  /\ request = [r \in Slots |-> Free]
  /\ mark = [key \in Keys |-> None]
  /\ stored = [row \in Rows |-> 0]
  /\ notified = {} /\ swallowed = {}
  /\ faults = 0 /\ discarded = {} /\ missed = {}

Faults(n) == faults + n <= MaxFaults /\ faults' = faults + n

Fault == Faults(1)

NoFault == Faults(0)

Prefix(seq, n) == SubSeq(seq, 1, IF n < Len(seq) THEN n ELSE Len(seq))

Suffix(seq, n) == SubSeq(seq, n + 1, Len(seq))

-----------------------------------------------------------------------------
(* The agent: one iteration of its loop is flush_buffer, then the logs.    *)

(* A line before the offset of a file since rotated will not be read.      *)
AppendLine ==
  /\ written < NumLines
  /\ written' = written + 1
  /\ missed' = missed \cup {l \in {written'} : l <= start + position}
  /\ UNCHANGED <<start, position, buffer, pc, batch, acked, awaiting, stopping>>
  /\ UNCHANGED <<backendVars, faults, discarded>>

(* logrotate starts a new file; the tailer keeps its offset in the old one.*)
Rotate ==
  /\ start < written
  /\ Fault
  /\ start' = written
  /\ missed' = missed \cup {l \in 1..written : l > start + position}
  /\ UNCHANGED <<written, position, buffer, pc, batch, acked, awaiting, stopping>>
  /\ UNCHANGED <<backendVars, discarded>>

(* What is left of the process when it ends: the files, not the positions. *)
(* Lines of a file rotated away that it held in memory are gone.           *)
ProcessEnds ==
  /\ pc' = "down" /\ position' = 0
  /\ batch' = <<>> /\ acked' = 0 /\ awaiting' = None
  /\ stopping' = FALSE
  /\ missed' = missed \cup {l \in LinesOf(batch) \ LinesOf(buffer) : l <= start}

(* Mutant: the rows are deleted when they are read, not when acknowledged. *)
StartFlushDequeues ==
  /\ pc = "loop"
  /\ buffer' = Suffix(buffer, MaxDequeue)
  /\ \/ /\ buffer # <<>>
        /\ batch' = Prefix(buffer, MaxDequeue) /\ acked' = 0
        /\ pc' = IF stopping THEN "lastFlush" ELSE "flush"
        /\ UNCHANGED <<position, awaiting, stopping, missed>>
     \/ /\ buffer = <<>> /\ ~stopping
        /\ pc' = "collect"
        /\ UNCHANGED <<position, batch, acked, awaiting, stopping, missed>>
     \/ /\ buffer = <<>> /\ stopping
        /\ ProcessEnds
  /\ NoFault
  /\ UNCHANGED <<written, start, backendVars, discarded>>

DequeueAll(rows) == Prefix(rows, MaxDequeue)

(* The head of flush_buffer: rows older than a day go, then the oldest     *)
(* MaxDequeue are read but not deleted.  Once a shutdown was requested     *)
(* this is the flush of the finally block, and the process ends after it.  *)
StartFlush ==
  /\ pc = "loop"
  /\ \E stale \in 0..Len(buffer) :
       LET rest  == Suffix(buffer, stale)
           items == DequeueAll(rest)
       IN  /\ IF stale = 0 THEN NoFault ELSE Fault
           /\ buffer' = rest
           /\ discarded' = discarded \cup LinesOf(Prefix(buffer, stale))
           /\ \/ /\ items # <<>>
                 /\ batch' = items /\ acked' = 0
                 /\ pc' = IF stopping THEN "lastFlush" ELSE "flush"
                 /\ UNCHANGED <<position, awaiting, stopping, missed>>
              \/ /\ items = <<>> /\ ~stopping
                 /\ pc' = "collect"
                 /\ UNCHANGED <<position, batch, acked, awaiting, stopping, missed>>
              \/ /\ items = <<>> /\ stopping
                 /\ ProcessEnds
  /\ UNCHANGED <<written, start, backendVars>>

(* read_new_lines: from the offset in memory to the end of the file, which *)
(* may be before it.                                                       *)
NewLines == [i \in 1..(written - start - position) |-> start + position + i]

(* The log step: not due yet, nothing new, or a batch whose tail past      *)
(* MaxEventsPerCycle is dropped although the position moves past it.  What *)
(* was passed over is read after a restart.                                *)
Collect ==
  /\ pc = "collect"
  /\ \/ /\ pc' = "loop"
        /\ UNCHANGED <<position, batch, acked, lineVars>>
     \/ /\ NewLines # <<>>
        /\ position' = written - start
        /\ batch' = Prefix(NewLines, MaxEventsPerCycle) /\ acked' = 0
        /\ discarded' = discarded \cup LinesOf(Suffix(NewLines, MaxEventsPerCycle))
        /\ missed' = missed \ LinesOf(NewLines)
        /\ pc' = "post"
  /\ NoFault
  /\ UNCHANGED <<written, start, buffer, awaiting, stopping, backendVars>>

Sending == pc \in {"flush", "lastFlush", "post"}

Chunk == Prefix(Suffix(batch, acked), MaxSendBatch)

(* The positions below n whose event fits into a row, in their order.      *)
Fits(events, n) ==
  LET fitting == {i \in 1..n : events[i] \notin Oversized}
  IN  {f \in [1..Cardinality(fitting) -> fitting] :
         /\ fitting = {f[i] : i \in 1..Cardinality(fitting)}
         /\ \A i, j \in DOMAIN f : i < j => f[i] < f[j]}

(* enqueue_events, one row each, all of them or up to the first that       *)
(* SQLite fails to write.  An oversized event is dropped, what exceeds     *)
(* MaxBuffer too, and a database file past its size limit first loses its  *)
(* oldest rows.                                                            *)
EnqueueEvents(events, n) ==
  \E tried \in 0..Len(events) :
    \E fit \in Fits(events, tried) :
      LET rows == buffer \o [i \in DOMAIN fit |-> events[fit[i]]]
          seen == LinesOf(buffer) \cup LinesOf(Prefix(events, tried))
      IN  \E purged \in 0..Len(rows) :
            /\ Faults(IF tried < Len(events) THEN n + 1 ELSE n)
            /\ purged = Len(rows) => rows = <<>> \/ tried < Len(events)
            /\ buffer' = Prefix(Suffix(rows, purged), MaxBuffer)
            /\ discarded' = discarded \cup (seen \ LinesOf(buffer'))
            /\ missed' = missed \cup LinesOf(Suffix(events, tried))

(* _post failed, for n faults.  A flush leaves every row for the next one, *)
(* the chunks already acknowledged too; fresh events are buffered.         *)
SendFails(n) ==
  /\ awaiting' = None
  /\ \/ /\ pc = "flush"
        /\ pc' = "collect" /\ batch' = <<>> /\ acked' = 0
        /\ Faults(n)
        /\ UNCHANGED <<position, buffer, stopping, lineVars>>
     \/ /\ pc = "lastFlush"
        /\ ProcessEnds
        /\ Faults(n)
        /\ UNCHANGED <<buffer, discarded>>
     \/ /\ pc = "post"
        /\ pc' = "loop" /\ batch' = <<>> /\ acked' = 0
        /\ EnqueueEvents(batch, n)
        /\ UNCHANGED <<position, stopping>>

(* send_events posts the next chunk; the request may not get through.      *)
Post ==
  /\ Sending /\ awaiting = None /\ acked < Len(batch)
  /\ \E r \in Slots :
       /\ request[r] = Free
       /\ request' = [request EXCEPT ![r] = [state |-> "open", todo |-> Chunk, added |-> {}]]
       /\ awaiting' = r
  /\ NoFault
  /\ UNCHANGED <<written, start, position, buffer, pc, batch, acked, stopping>>
  /\ UNCHANGED <<redis, mark, stored, notified, swallowed, lineVars>>

LoseRequest ==
  /\ Sending /\ awaiting = None /\ acked < Len(batch)
  /\ SendFails(1)
  /\ UNCHANGED <<written, start, backendVars>>

(* The agent stops waiting, or the answer is lost: the backend goes on.    *)
TimeOut ==
  /\ awaiting # None
  /\ SendFails(1)
  /\ UNCHANGED <<written, start, backendVars>>

(* Every chunk is acknowledged: a flush deletes the rows it sent.          *)
FinishSend ==
  /\ Sending /\ awaiting = None /\ acked = Len(batch)
  /\ buffer' = IF pc = "post" THEN buffer ELSE Suffix(buffer, Len(batch))
  /\ \/ /\ pc = "lastFlush"
        /\ ProcessEnds
     \/ /\ pc # "lastFlush"
        /\ pc' = IF pc = "flush" THEN "collect" ELSE "loop"
        /\ batch' = <<>> /\ acked' = 0
        /\ UNCHANGED <<position, awaiting, stopping, missed>>
  /\ NoFault
  /\ UNCHANGED <<written, start, backendVars, discarded>>

RequestStop ==
  /\ pc # "down" /\ ~stopping
  /\ Fault
  /\ stopping' = TRUE
  /\ UNCHANGED <<written, start, position, buffer, pc, batch, acked, awaiting>>
  /\ UNCHANGED <<backendVars, lineVars>>

CrashAgent ==
  /\ pc # "down"
  /\ Fault /\ ProcessEnds
  /\ UNCHANGED <<written, start, buffer, backendVars, discarded>>

RestartAgent ==
  /\ pc = "down"
  /\ pc' = "loop"
  /\ NoFault
  /\ UNCHANGED <<written, start, position, buffer, batch, acked, awaiting, stopping>>
  /\ UNCHANGED <<backendVars, lineVars>>

-----------------------------------------------------------------------------
(* The backend: one transaction per request.                               *)

(* The store _get_redis leads to at this moment.                           *)
DedupStore == IF dedup = "redis" /\ redis # "down" THEN "redis" ELSE "postgres"

(* The row of a line marked now.                                           *)
RowOf(l) == <<l, DedupStore>>

(* Mutant: the mark is overwritten, so nothing is ever a duplicate.        *)
ProcessEventUnmarked(r) ==
  /\ request[r].state = "open" /\ request[r].todo # <<>>
  /\ LET row == RowOf(Head(request[r].todo))
     IN  /\ request' = [request EXCEPT ![r].todo = Tail(@), ![r].added = @ \cup {row}]
         /\ mark' = [mark EXCEPT ![Key(row)] = "set"]
  /\ NoFault
  /\ UNCHANGED <<agentVars, redis, stored, notified, swallowed, lineVars>>

(* is_duplicate: the mark was there, committed or this transaction's own.  *)
Duplicate(r, key) == mark[key] \in {r, "set"}

(* The next event of the batch: refused, new or a duplicate.  An insert    *)
(* into ingest_dedup waits for the transaction that holds the fingerprint; *)
(* a Redis mark is there for everyone at once.                             *)
ProcessEvent(r) ==
  /\ request[r].state = "open" /\ request[r].todo # <<>>
  /\ LET l   == Head(request[r].todo)
         key == Key(RowOf(l))
         Took(added) == request' = [request EXCEPT ![r].todo = Tail(@), ![r].added = @ \cup added]
     IN  \/ /\ l \in Rejected
            /\ Took({}) /\ discarded' = discarded \cup {l}
            /\ UNCHANGED mark
         \/ /\ l \notin Rejected /\ mark[key] = None
            /\ mark' = [mark EXCEPT ![key] = IF DedupStore = "redis" THEN "set" ELSE r]
            /\ Took({RowOf(l)})
            /\ UNCHANGED discarded
         \/ /\ l \notin Rejected /\ Duplicate(r, key)
            /\ Took({})
            /\ UNCHANGED <<mark, discarded>>
  /\ NoFault
  /\ UNCHANGED <<agentVars, redis, stored, notified, swallowed, missed>>

(* get_db commits once the handler has returned.                           *)
Commit(r) ==
  /\ request[r].state = "open" /\ request[r].todo = <<>>
  /\ request' = [request EXCEPT ![r].state = "committed"]
  /\ stored' = [row \in Rows |-> stored[row] + IF row \in request[r].added THEN 1 ELSE 0]
  /\ mark' = [key \in Keys |-> IF mark[key] = r THEN "set" ELSE mark[key]]
  /\ NoFault
  /\ UNCHANGED <<agentVars, redis, notified, swallowed, lineVars>>

(* The hook that ingest_event_batch left: it enqueues the correlation job, *)
(* and a broker that is down only logs.                                    *)
RunHook(r) ==
  /\ request[r].state = "committed"
  /\ request' = [request EXCEPT ![r].state = "done"]
  /\ \/ notified' = notified \cup request[r].added /\ NoFault
     \/ Fault /\ UNCHANGED notified
  /\ UNCHANGED <<agentVars, redis, mark, stored, swallowed, lineVars>>

Released(slots) == [key \in Keys |-> IF mark[key] \in slots THEN None ELSE mark[key]]

Blocks(s, r) ==
  /\ request[r].state = "open" /\ request[r].todo # <<>>
  /\ s # r /\ mark[Key(RowOf(Head(request[r].todo)))] = s

(* Mutant: the marks of a rolled back transaction stay.                    *)
RollbackKeepsMarks(r) ==
  /\ request[r].state = "open"
  /\ Fault
  /\ request' = [request EXCEPT ![r] = [Free EXCEPT !.state = "failed"]]
  /\ mark' = [key \in Keys |-> IF mark[key] = r THEN "set" ELSE mark[key]]
  /\ UNCHANGED <<agentVars, redis, stored, notified, swallowed, lineVars>>

(* Mutant: the failed handler leaves its transaction open.                 *)
RollbackLeavesLocks(r) ==
  /\ request[r].state = "open"
  /\ Fault
  /\ request' = [request EXCEPT ![r] = [Free EXCEPT !.state = "failed"]]
  /\ UNCHANGED <<agentVars, redis, mark, stored, notified, swallowed, lineVars>>

(* An exception that leaves the handler, a refusal (429) or the request    *)
(* deadline rolls the session back.  Postgres itself aborts one of two     *)
(* transactions that wait for each other, and a backend process that has a *)
(* Redis client raises while Redis is down; one that has none marks in     *)
(* Postgres.                                                               *)
Rollback(r) ==
  /\ request[r].state = "open"
  /\ \/ Fault
     \/ NoFault /\ \E s \in Slots : Blocks(s, r) /\ Blocks(r, s)
     \/ NoFault /\ dedup = "redis" /\ redis = "down" /\ request[r].todo # <<>>
  /\ request' = [request EXCEPT ![r] = [Free EXCEPT !.state = "failed"]]
  /\ mark' = Released({r})
  /\ UNCHANGED <<agentVars, redis, stored, notified, swallowed, lineVars>>

(* A database error after the events were flushed, while they are linked   *)
(* to offenses or in a stage of the synchronous pipeline: the handler      *)
(* catches it and goes on.  Postgres has aborted the transaction and turns *)
(* get_db's COMMIT into a rollback without an error, so the hook runs and  *)
(* the batch is answered 200.  (An error before the flush makes the flush  *)
(* fail, which is a Rollback.)                                             *)
SwallowError(r) ==
  /\ request[r].state = "open" /\ request[r].todo = <<>> /\ request[r].added # {}
  /\ Fault
  /\ request' = [request EXCEPT ![r].state = "committed"]
  /\ mark' = Released({r})
  /\ swallowed' = swallowed \cup request[r].added
  /\ UNCHANGED <<agentVars, redis, stored, notified, lineVars>>

(* Open transactions are rolled back, hooks and answers are lost.          *)
CrashBackend ==
  /\ Fault
  /\ request' = [r \in Slots |-> IF request[r].state = "free" THEN Free
                                 ELSE [Free EXCEPT !.state = "failed"]]
  /\ mark' = Released(Slots)
  /\ UNCHANGED <<agentVars, redis, stored, notified, swallowed, lineVars>>

RedisDown ==
  /\ dedup = "redis" /\ redis # "down"
  /\ Fault
  /\ redis' = "down"
  /\ UNCHANGED <<agentVars, request, mark, stored, notified, swallowed, lineVars>>

RedisBack ==
  /\ redis = "down"
  /\ redis' = "back"
  /\ NoFault
  /\ UNCHANGED <<agentVars, request, mark, stored, notified, swallowed, lineVars>>

(* The answer, to an agent that may have stopped waiting for it.           *)
Answer(r) ==
  /\ request[r].state \in {"done", "failed"}
  /\ request' = [request EXCEPT ![r] = Free]
  /\ \/ /\ awaiting # r
        /\ NoFault
        /\ UNCHANGED <<agentVars, lineVars>>
     \/ /\ awaiting = r /\ request[r].state = "done"
        /\ acked' = acked + Len(Chunk)
        /\ awaiting' = None
        /\ NoFault
        /\ UNCHANGED <<written, start, position, buffer, pc, batch, stopping, lineVars>>
     \/ /\ awaiting = r /\ request[r].state = "failed"
        /\ SendFails(0)
        /\ UNCHANGED <<written, start>>
  /\ UNCHANGED <<redis, mark, stored, notified, swallowed>>

Agent == StartFlush \/ Collect \/ Post \/ FinishSend \/ RestartAgent

Backend(r) == ProcessEvent(r) \/ Commit(r) \/ RunHook(r) \/ Rollback(r) \/ Answer(r)

Next ==
  /\ UNCHANGED dedup
  /\ \/ AppendLine \/ Rotate
     \/ Agent
     \/ \E r \in Slots : Backend(r) \/ SwallowError(r)
     \/ RedisDown \/ RedisBack
     \/ LoseRequest \/ TimeOut \/ RequestStop \/ CrashAgent \/ CrashBackend

Spec == Init /\ [][Next]_vars

(* The agent's loop and the backend's handlers run on; the collection is   *)
(* due again and again; Redis comes back.  Nothing is assumed of the log   *)
(* or of the other faults.                                                 *)
Fairness ==
  /\ WF_state(Agent)
  /\ \A r \in Slots : WF_state(Backend(r))
  /\ WF_state(RedisBack)

FairSpec == Spec /\ Fairness

-----------------------------------------------------------------------------
IsStored(l) == \E row \in Rows : Fingerprint[row[1]] = Fingerprint[l] /\ stored[row] > 0

(* However often a batch is sent again - a lost answer, a crash before the *)
(* rows are deleted, a log read again after a restart, two requests of one *)
(* agent side by side - each store of marks lets an event in once, and the *)
(* one that is not configured lets none in unless Redis was out of reach.  *)
(* Only such an outage stores an event a second time.                      *)
StoredOnce ==
  \A p, q \in Rows :
    Key(p) = Key(q) /\ stored[p] > 0 /\ stored[q] > 0 =>
      /\ p = q /\ stored[p] = 1
      /\ p[2] = dedup \/ redis # "up"

(* An event of l's kind was in a transaction whose failure was swallowed.  *)
Swallowed(l) == \E row \in swallowed : Fingerprint[row[1]] = Fingerprint[l]

(* Redis takes l for a duplicate, whether or not the event was stored.     *)
MarkedInRedis(l) == mark[<<Fingerprint[l], "redis">>] = "set"

(* docs/phase5.5-agent-hardening-report.md: "HTTP POST -> successful       *)
(* response -> delete from buffer", at least once.  What the backend has   *)
(* acknowledged is stored, was refused for good, or was in a transaction   *)
(* whose failure was swallowed.  Marks in Redis are not rolled back with   *)
(* the rows, and break this.                                               *)
AtLeastOnce ==
  \A i \in 1..acked : IsStored(batch[i]) \/ batch[i] \in Rejected \/ Swallowed(batch[i])

(* Who is told that events are stored is told the truth, whatever was      *)
(* lost, retried or rolled back before: the agent that may delete its      *)
(* rows, and the correlation job, which is enqueued by the hook and finds  *)
(* the events committed.  Two things make liars of them: a database error  *)
(* the handler swallows, and, for the agent, a mark in Redis.              *)
AckedAreStored ==
  /\ \A i \in 1..acked :
       \/ IsStored(batch[i]) \/ batch[i] \in Rejected
       \/ Swallowed(batch[i]) \/ MarkedInRedis(batch[i])
  /\ \A row \in notified : stored[row] > 0 \/ row \in swallowed

(* Every line of the log is still to be read, in the agent's hands, in its *)
(* buffer, stored, or was dropped by a rule that says so - or one of the   *)
(* named ways to lose a line took it: passed over at a rotation or not     *)
(* written to the buffer, in a swallowed transaction, marked in Redis.     *)
Accounted(l) ==
  \/ l > start + position
  \/ l \in LinesOf(batch) \cup LinesOf(buffer)
  \/ IsStored(l)
  \/ l \in discarded
  \/ l \in missed \/ Swallowed(l) \/ MarkedInRedis(l)

Bookkeeping == TypeOK /\ \A l \in 1..written : Accounted(l)

(* Once the log is quiet and the faults are over, everything the agent had *)
(* read or buffered is stored or was dropped by a rule, with the same      *)
(* exceptions: the agent retries, and a request that outlived its agent's  *)
(* patience frees its marks.                                               *)
BufferDrains ==
  <>[](\A l \in {k \in 1..written : k <= start + position} \cup LinesOf(buffer) :
         \/ IsStored(l) \/ l \in discarded
         \/ l \in missed \/ Swallowed(l) \/ MarkedInRedis(l))
=============================================================================
