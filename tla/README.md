# Securi Sphere: specifications, model checking, proofs

Securi Sphere is a SIEM: agents on Linux hosts send events to a FastAPI backend, which stores them
in PostgreSQL, detects, groups and escalates, runs background jobs over Redis, and shows analysts
the result in a Next.js dashboard that is kept current over WebSockets. The modules here model the
parts of it in which several actors share state or in which something may fail half way. Each
definition is a translation of source lines, listed in `PROJECT.json` under `map`.

## 1. Inventory

| Component | State it keeps | Operations | Interacts with | Hard behaviour |
|---|---|---|---|---|
| Agent (`agent/agent`) | log positions in memory, SQLite buffer | collect, post, buffer, flush, purge, stop | ingestion over HTTP | timeouts shorter than the backend's work, lost answers, crash between acknowledgement and deletion, buffer limits |
| Event ingestion (`pipeline/ingestion.py`, `services/ingest_dedup.py`) | dedup marks, events | one transaction per batch, post-commit hooks | agent, Postgres, Redis, job queue, live feed | marks in another store than the rows, two transactions of one agent, rollback, hooks lost with the process |
| Job queue (`jobs/`) | Redis lists or a heap, dead letters, `_in_flight` | enqueue, pop, run, retry, bury, stop, start | handlers of every other part | pop before act, cancellation at any await, broker outages, full lists |
| Detection, alerts, offenses (`services/detection.py`, `offense_engine.py`, `incident_promotion.py`, `routers/alerts.py`, `offenses.py`) | alerts, offenses, their links and counters, incidents | detect, create, group, link events, triage, status, promote | ingestion, jobs, analysts, live feed | read-then-write in READ COMMITTED, unique indexes, `FOR UPDATE`, deadlocks |
| Audit log (`services/audit.py`, `audit_chain.py`) | hash-chained rows, a sequence | `log_audit` in callers' transactions, integrity check | nearly every router | order of commits against order of numbers, lock order, windows of a check that runs beside writers |
| Sessions (`routers/auth.py`, `services/auth_session.py`) | refresh tokens, sessions, reset tokens | login, refresh, logout, reset, change | audit log | one token sent twice, limit counted without a lock, revocation beside rotation, lock order |
| Circuit breakers (`core/circuit_breaker.py`, `circuit_guard.py`) | count, time of opening, trial flag | allow, success, failure | outbound calls (OpenSearch, mail, LLM, ...) | late reports, cancellation of the probe |
| Live feed (`websocket/`, `routers/ws.py`, `frontend/lib/websocket.tsx`) | `active`, subscription, the tab's socket and timer | broadcast, listen, accept, connect, disconnect, reconnect | ingestion, detection, alerts; browsers | slow or dead sockets, listener reconnections, callbacks of sockets that were left |
| Enrolment and heartbeats (`routers/agent.py`, `services/agent_auth.py`) | enrolment tokens, keys, nonces, `last_seen` | register, heartbeat, rotate | agent, detection | check-then-mark without a lock |
| Correlation engine (`services/correlation_engine.py`) | correlation results, incidents | per host and across hosts | jobs, scheduler | check-then-insert of incidents |
| Behaviour analytics, threat scores, reports, search, feeds, simulation, assistant | derived rows, an index | queries and recomputation | scheduler, analysts | little: one writer each |
| Retention, partitions, backup | none of their own | delete, drop, dump | scheduler | one long transaction; triggers on the audit table |
| Scheduler (`scheduler.py`) | intervals | starts the periodic jobs | all of them | overlap with requests |
| Frontend: queries and pages (`frontend/lib/queryClient.ts`, `lib/hooks`, `components`, `app`) | query cache, snapshots of optimistic changes, the throttle of the live feed | read, change, invalidate, roll back, flush | API, live feed | answers older than a change, mutations that overlap, lists that failed to load, a browser without a network |
| Frontend: session (`frontend/lib/api.ts`, `lib/auth`, `middleware.ts`, guards) | cookies of the browser, a bearer token per tab | request, refresh and repeat, sign in, log out, guard | sessions of the backend | tabs that share cookies, refreshes that race, answers that arrive after a logout |
| Frontend: forms (35 of them) | inputs, the open record, saves under way | type, open, save, delete | API | a record opened while the save of another is under way, saves that wait for the network, refusals after the input was emptied |

What makes each of the modelled components correct:

* **Agent and ingestion**: an event is stored once, unless Redis was out of reach between two of its
  deliveries; what is acknowledged is stored, unless the handler swallowed a database error or a mark in Redis
  outlived a rollback; whatever else is not stored is still in the log, the agent's memory or its
  buffer, or was dropped by a rule that says so; the buffer drains.
* **Job queue**: an accepted job is in one place; it runs a bounded number of times; it finishes or
  is a dead letter; only a fault or a full list loses it.
* **Alerts and offenses**: one open alert per rule and host; every stored alert in one offense, and every
  announced one unless a database error was swallowed; counters that equal the rows they count; one incident per offense; nothing joins a closed offense.
* **Audit log**: the committed entries form one chain in the order in which they became visible, an
  intact chain is reported as broken only for an address that its column spells otherwise, an answer that claims completeness is complete.
* **Sessions**: a refresh token is exchanged once; live sessions have tokens; a password change ends
  the others, those rotated meanwhile included; logins respect the limit.
* **Circuit breaker**: tripped exactly at the threshold; one probe at a time; it does not stay open.
* **Live feed**: order of Redis, no repetition, one bad socket does not cost the others a message,
  the tab keeps trying.
* **Pages**: "none" is said only of an answer that was empty; a change that was reported as done has
  been made and is on the screen in the end, and so is a change of others that was announced; no
  screen waits for ever.
* **Session of the browser**: what a logout ended stays ended; the cookies are those of a session that lives
  as long as nobody ended it; the guards come to a decision.
* **Forms**: what was typed is in the input, on its way, on the server or given up by the user; it is
  saved with the record it was typed for, once; a deleted record has no open editor once its row is gone.

## 2. Modules

Each component has a module, an `MC` module with the small instance, and one or two configurations.
Theorems are in `...Proofs` modules; those of the breaker are the last section of `JobQueueProofs` and those of the dashboard's
cache the last of `RealtimeFeedProofs`. What modules
share are tables: the pages (`QueryClient` and five modules after it) and the forms (`EditorForms`). In all of them, definitions that begin with the comment
`Mutant:` are deliberate mistakes next to the definition they deform. They are not part of the
specification; each makes one property fail.

**`CircuitBreaker`**. `failures`, `openedFor` (the age of `_opened_at` in ticks, or `NotOpened`),
`halfOpenTrial` and the state of each call. `Admit` is `allow_request`, `Succeed` and `Fail` are the
two reports, `Cancel` is the `CancelledError` that `run_async` does not catch. `State` is the
property `state`, computed from the clock as in the code.

**`EventDelivery`** composes the agent's loop (`StartFlush`, `Collect`, `Post`, `FinishSend`,
`RequestStop`, `CrashAgent`, `RestartAgent`), the log (`AppendLine`, `Rotate`), the network (`LoseRequest`,
`TimeOut`) and the backend's transactions (`ProcessEvent` per event, `Commit`, `RunHook`, `Rollback`, `Answer`,
`CrashBackend`). A line is its number, and `Fingerprint` says which lines the code cannot tell
apart. Where a mark is set is decided for every event (`DedupStore`): in Redis if it is configured and in reach,
otherwise in `ingest_dedup`, and `RedisDown` and `RedisBack` come between any two of them. Marks in Redis are visible at
once and survive a rollback, marks in `ingest_dedup` belong to the transaction and make others wait.
A row of the events table remembers the store it was marked in. `SwallowError` is the database error that the handler
catches: Postgres has aborted the transaction, `COMMIT` is a rollback without an error, and the
hook and the answer follow as if it had worked. `Fits` leaves out what is too large for the buffer, and a row that
SQLite fails to write is in `missed`, with what a rotation hides from the tailer.

**`JobQueue`**: `Enqueue` / `Push` (length check and push are two commands), the worker's steps between
its awaits (`Poll`, `Pop`, `Receive`, `Complete`, `Retry`, `GiveUp`, `RequeueCheck`, `RequeuePush`,
`Bury`), `Stop` with its grace, `Crash`, `Start`, and outages of Redis. A popped job is in the
hands of the worker before `_in_flight` counts it.

**`JobLedger`** is what the queue promises whoever hands it a job, without lists, workers or processes: what is
accepted is owed until it is done, buried or gone, only what is owed is run, at most `MaxRuns` times, and nothing
comes back from where it ended. `JobQueue` implements it (`Ledger == INSTANCE JobLedger WITH ...`): the
start of a handler is a `Run`; polling, backoff, shutdown and restart are stutters or a `Drop`.

**`OffenseGrouping`**: each request or job is one READ COMMITTED transaction with a private `draft`.
`AlertHolders`, `OffenseHolders` and `KeyHolders` are what Postgres makes others wait for: rows, and
keys of the partial unique index on open alerts. `LookForOffense` is the statement that finds one, and
`JoinOffense` waits for its row and looks again, as `FOR UPDATE` re-evaluates its condition. `AbortDeadlock` ends one
transaction of a circle. Whether an error ends in a clean `Rollback` depends on who catches it: the stages of the
pipeline and the checks of the ingestion do (`SwallowError`), and then the hooks announce what was undone
(`swallowed`); a job has no hooks. One host is modelled, whose alerts are named by transaction and rule. Left
out: the timeline, the in-app rows, the notification jobs that are queued before the commit, and two more locks that
transactions wait for, the host's row and the lock of the audit log.

**`AuditChain`**: `Lock`, `NextVal`, `AddEntry` are the three statements of `log_audit`, `Commit` makes
the entry visible and frees the lock, and `Fetch`, `Verify`, `Respond` are the check. Requests may
also write a row others write, before or after logging, which is how the callers differ. A hash is
the number of the entry it is of; this is sound because the number is part of what is hashed. The one part of an entry that
is hashed in another form than it is kept in is the address: `Inet` is what the column makes of it (lower case,
leading zeros, mapped addresses), and a check hashes what the column gives back.

**`AppendOnlyLog`** is what the audit log promises, without requests or locks: a set of rows to which
one row at a time is added, numbered after the newest and carrying its hash. `AuditChain`
implements it (`ChainLog == INSTANCE AppendOnlyLog WITH log <- table`): a commit is an
`Append`, everything else a stutter.

**`AuthSessions`**: the same style of transactions, for one user: what each `held`, its `draft`, and
`todo`, the rows a statement or a loop has yet to touch. A token and its session carry the name of
the request that issued them. The statements that read before they write are steps of their own: the count and the choice
of the oldest session (`CountSessions`, `PickOldest`), the look-up and the deletion of the token at a
logout (`ReadToken`, `DeleteToken`). `RefuseExpired` is a refresh token whose time is over. `ReadTokens` is the snapshot of the statement that revokes; a row that
is rotated while it waits is not in it, and the sessions are read after it. Left out: the second
factor, lockout counters, single sign-on, registration, access-token expiry.

**`RealtimeFeed`** joins the hub of every API worker (`Publish`, `Answered`, `PublishFails`,
`BroadcastLocally`, `Subscribe`, `Listen`, `ListenerFails`, `Send`, `SendTimesOut`, `SendFails`,
`EndCast`, `Restart`), the socket handler (`Accept`, `Refuse`, `Disconnect`) and the
`WebSocketStore` of one tab (`Mount`, `Unmount`, `TimerFires`, `Fetched`, `FetchFails`, `Opened`,
`Closed`). `timer = "stale"` is the id that `disconnect()` clears without setting it to null. A
restart ends all sockets of the worker in one step. Pings are left out: the server ignores them.

**`QueryClient`**, **`TriagePages`**, **`HostPages`**, **`InsightPages`**, **`AdminPages`**, **`HomePages`** are a
table of the dashboard: one definition for every `useQuery` (its key, the kinds of rows it answers with,
its options), every component that shows one (the order in which it tests `isLoading`, `isError`, the
data, and what it then shows) and every `useMutation` (the rows it changes, the keys it invalidates
or patches). A `Page` is a set of components and mutations that are mounted together.
**`DashboardScenes`** combines them: for each pair of a component and a mutation what the cache and the screen can
tell apart (a scene), what the messages of the live feed invalidate, and the exceptions by name. **`SceneFacts`** states what
all scenes have in common, which the proofs rest on; TLC evaluates it in the run `feed`.
**`DashboardCache`** is the machine that all of them run on. A behaviour chooses a component and
a mutation of its page; components and mutations that the cache cannot tell apart share one
behaviour (`Course`), and what each of them shows is looked up in the same states (`scene.looks`), so that all
pairs of all pages are examined. `Read` and `Arrive` are the two ends of a request, between which the server may change;
`Optimise` (with `Writes`: a query whose key it matches is stored anew, patched or not), `RolledBack` and
`Invalidate` are `onMutate`, `onError` and `onSettled`; `Schedule` and `Flush` are the
throttle in `lib/websocket.tsx`. The rules of the query client itself are those of its library
and marked external in the map.

**`BrowserSession`**: tabs that share the cookie `jar`; each has the bearer token `memory` of its
`lib/api` and one request per slot (`guard`, `check`, `form` and queries). `Answer`, `Rotate`, `TakeGrant`, `Expel`,
`RefuseForNow` and the second `Answer` are the steps of the request wrapper between its awaits; the last but one is a
refresh answered 429 or 5xx, which clears the tokens of a session that lives. The shell of the dashboard is not behind the
guard: its requests and its logout run beside the guard's. What the guard has asked when the tab leaves by a link goes on
for nobody (`Abandon`). `Load` is a page load, which
drops memory and requests, while the server may already have acted on them. Tokens are numbers; an access
token is valid until `Expire`, a refresh token as long as it is in `live`. One user. Two bounds keep this small: a
tab is not back on the dashboard before an abandoned request has ended (`ToDash`), and a link that is followed before
the guard has decided counts as a disturbance (`Navigate`).

**`EditorForms`** describes the thirty-five forms by what differs: which record they are for, whether the
button or the inputs are disabled while a save is under way, whether the save waits for a network and then
carries what was typed since, what happens to the text on submission, on success and when another
record is opened. **`Editors`** is the user and the saves. A word is typed once, and `meant` remembers the record that was
open then; `dropped` is what the user gave up by closing, `wiped` what the code threw away. A deletion closes the
editor of what it deletes in one form and not in another: in two, the editor is part of a row and
goes when the list is read again (`ListReadAgain`); until then the row is in `listed`.

## 3. Runs

| Run | Configuration | States | Shows |
|---|---|---|---|
| `breaker` | 3 calls, threshold 2, window 2 | 346 | `Consistent` (types, trip exactly at the threshold, flag in the half-open state only), `TrialFlagOwned`, `Recovers` |
| `delivery` | 3 lines (one refused and too large for the buffer), a buffer of 3 left with 2 rows in the wrong order, 2 requests, 2 faults, with and without Redis | 749 443 | `Bookkeeping` (nothing vanishes without a rule that says so), `StoredOnce`, `AckedAreStored`, `BufferDrains` |
| `delivery_loss` | 4 lines, two of one text, Redis marks, 1 fault | violation | `AtLeastOnce`: one rollback turns the retry into an acknowledged duplicate of nothing |
| `jobs` | 3 jobs, 2 workers, lists of 1, 1 retry, 1 stop or crash, 1 outage, both backends | 176 869 | `Bookkeeping` (each job in one place, `_in_flight` exact), `LossNeedsFault`, `KeepsLedger` (refinement of `JobLedger`: budget of retries, no job runs after its end), `JobsSettle` |
| `audit` | 3 requests, 4 numbers, windows from 1 or 2 of 2 or all, 2 spellings of an address | 130 974 | `ChainSound`, `AppendsOnly` (refinement of `AppendOnlyLog`), `HonestChecks`, `CompleteMeansAll`, `RequestsEnd` |
| `offenses` | 3 transactions in 7 combinations, 2 rules, 2 ticks | 330 669 | `Grouped` (one open alert per rule and host, each stored or announced one in an offense), `CountsMatchLinks`, `PromotedOnce`, `ClosedTakesNoLinks`, `TransactionsEnd` |
| `sessions` | a login and any 3 of the 5 requests, limit 2 | 48 296 | `SessionsAgree` (a token exchanged once, live sessions have tokens), `ChangeEndsOthers`, `LoginsKeepLimit`, `RequestsEnd` |
| `feed` | 2 workers, 4 loads of up to 2 messages, 2 sockets, 2 mounts, 2 faults | 409 659 | `FeedInOrder`, `ReachesListeners`, `NeverSilentlyOff` |
| `cache` | every component with every mutation of its page; 2 own changes, 1 of others, 2 filters, 3 disturbances | 310 246 | `ScreensAreHonest`, `OwnChangesShown`, `AnnouncedChangesShown`, `DoneIsDone`, `ScreensSettle` |
| `browser` | 2 tabs, 1 sign-in or logout, 1 disturbance | 710 785 | `LogoutHolds`, `SessionKept` |
| `browser_settle` | 1 tab, 1 sign-in or logout, 3 disturbances | 699 181 | `TabsSettle` |
| `editors` | 35 forms, 2 words, 2 records, 2 saves | 237 826 | `TextSurvives`, `SavedWhereMeant`, `DeletedIsClosed`, `SentOnce` |

The type invariant of a module is a conjunct of one of its invariants. `delivery_loss` states what
a report in the repository says; `findings` in `PROJECT.json` quotes it.

**Bounds.** They are the smallest at which the interesting thing happens, and each has a name.
Three calls are one probe and two stale reports. Three lines and the two rows an earlier process has
left in the buffer (`Backlog`) make a flush and a collection whose failure fills the buffer; sending again is
what repeats an event, so no two lines need have one text; two request slots are a request that outlives
the agent's patience and its retry. Queues of length one are full at the second job. Three audit
transactions are a writer, one behind it and a check; three offense transactions are two that meet and
one that changes what they found. Messages are named in the order in which they are sent, which loses nothing. `OffenseGrouping` and `RealtimeFeed` take `Loads`, the
combinations that are examined, instead of all: the `MC` modules say which and why. Two ticks pass
the cooldown and the window once each. Two faults suffice for every pair of a loss and a failure
during its repair. In the dashboard two changes overlap and one of others comes between; three
disturbances are a change, a second one or a switch of the filter, and a failure. Two tabs and one
disturbance are two refreshes of one token, or a refresh that a logout overtakes; the second run
trades the second tab for two more disturbances (an expiry, a request of the shell beside the guard's, a failure),
because a tab that goes back and forth does so alone. Two words are what was sent and what was typed
meanwhile, two records the one that was open and the one opened instead. The tabs of a browser, and the words and records of
the forms, are interchangeable and reduced by symmetry where no liveness is checked.

**Fairness** is what the program's scheduling gives. A task or handler that can run does (weak fairness
of each worker, request or loop); every outbound call, handler and send has a timeout in the code;
Postgres serves waiting transactions and breaks deadlocks after `deadlock_timeout`; a supervisor
restarts a stopped process and an outage of Redis ends (`JobQueue`, `EventDelivery`). In the browser a request is answered or fails, an answer is taken, and a timer
fires; the network need not come back. Nothing is assumed of the
log, of faults, of analysts or of browsers. In `AuditChain` the steps are strongly fair, because a
waiting transaction is in Postgres' queue for the lock while others take and free it.

**Deadlock** is not checked where the system really may stop: all transactions of a load are
done, the breaker has no call, every worker died in an outage (nothing restarts a worker task),
the tab is not on the page and no message is left, the dashboard shows what there is, no request or save
is left and the user does nothing more. The `delivery` run does check it.

**Exceptions in the properties** are the code's, and each is needed: without it the run finds a
violation. `AckedAreStored`, `Bookkeeping` and `BufferDrains` except events of a transaction whose failure was
swallowed (`Swallowed`) and those that Redis has marked (`MarkedInRedis`; `delivery_loss` shows why), the last two also
lines that a rotation or a failed write to the buffer took (`missed`). `StoredOnce` lets an event have one row for each
store of marks, the second only after Redis was out of reach. `Grouped` excepts announced alerts of a
swallowed failure. `HonestChecks` excepts windows that do not start at the first entry and those with an
address that the column spells otherwise. `CompleteMeansAll` is about checks that read something: one that reads
nothing says complete without the second query.
`LoginsKeepLimit` is about loads without refreshes, since a refresh that overlaps a login is
counted once too often. `Recovers` excepts a cancelled probe. `LossNeedsFault` names full lists. `NeverSilentlyOff` excepts the stale
timer: after `disconnect()` with a timer pending, `scheduleReconnect` returns at once for the rest
of the page's life, so the connection that is opened next is the last one.
`ReachesListeners` excepts sockets that were dropped after a slow send: they stay open and are sent
nothing more. In the frontend the exceptions are sets of names: `FalselyEmpty`
(components that say "none" of what they have not read), `LeavesStale` (mutations that do not invalidate
what the page shows), `DoneAnyway` (mutations that report success after a failure), and in `Editors`
`WipesLater`, `LosesRefused`, `SwapsPaused`, `SavesElsewhere`, `SendsTwice`, `KeepsDeleted`. A component or
form that is not named has the property. `DeletedIsClosed` also excepts an editor in a row that the list still shows.

### Where the code and its documents disagree

`delivery_loss` is checked. The following were found with these modules, or while they were written,
and follow from the exceptions above or from the tables:

* A cancelled probe reports neither success nor failure (`core/circuit_guard.py:25`) and leaves the trial flag up for
  ever, while `docs/CIRCUIT_BREAKERS.md:3` says that a trial is allowed after the recovery window.
* A graceful stop cancels a worker between the pop and the count of `_in_flight` (`jobs/queue.py:220`) and the job is lost;
  `docs/GRACEFUL_SHUTDOWN.md:39` says that the queue is drained.
* A check with `from_seq=2` compares entry 2 with the genesis hash (`services/audit_chain.py:122`) and calls an intact chain
  broken; `docs/IMMUTABLE_AUDIT_STORE.md:26` offers the parameter.
* `routers/audit.py` hashes what Postgres gives back, `services/audit.py:51` what the client gave: an entry with the
  address `2001:DB8::1` or `::ffff:1.2.3.4` (the first of `X-Forwarded-For`) makes a check call an intact chain broken.
* `pipeline/ingestion.py:209` logs "offense linking failed — event remains stored": if a statement failed, Postgres has aborted
  the transaction, `get_db`'s `COMMIT` is a rollback, no event of the batch is stored, and the agent is answered 200 and
  deletes its rows.
* `services/ingest_dedup.py:1` describes marks in Redis with Postgres as a fallback; the store is chosen for each event,
  so one that was marked in Postgres while Redis was out of reach is stored again when it is sent again.
* Concurrent detections on one host each find no offense and make one (`services/offense_engine.py:67`);
  `backend/tests/test_concurrency_pg.py:132` expects one, of a loop of its own that does not call the engine.
* A tab whose refresh loses against another tab's is told "Session expired" (`frontend/lib/api.ts:195`) although the
  session lives, and clears the marker cookie for both.
* `lib/auth/session.ts:1` says the marker is set only after `/auth/me`; `refreshAccessToken` sets it too.
* The status mutations of offenses and incidents call the page's `onSuccess` in `onSettled` (`lib/hooks/useOffenses.ts:101`,
  `lib/hooks/useIncidents.ts:99`): the page says that a status was changed when it was refused.
* `app/(dashboard)/incidents/[id]/page.tsx:30` reads a parameter `incidentId` which its folder calls `id`.
* `BulkActionBar.tsx:31` asks to assign to "me"; the pages' `runBulk` ignores the field.
* `EventRelatedObjects` always ends in "No related security objects"; `AuditIntegrityPanel.tsx:68` says "verified" of an
  incomplete window; `SecurityKpis.tsx:62` labels the number of active alerts "Open Offenses".
* In `CorrelationRuleEditor` the handler of a deletion looks at `pendingDelete`, which the dialog has cleared: the
  editor of the deleted rule stays open. Its save, when it waited for the network, sends what is open then.
* `WebSocketStore` gives up after fifty attempts while the banner goes on saying "Reconnecting…".
* Two calls of `log_audit` in one transaction would follow the same entry; no handler makes two.

## 4. Proofs

`tlapm` checks all of the following for every value of the constants that the named assumptions
(`ThresholdAssumption`, `NoneAssumption`, `BatchAssumption`, ...) allow: any number of jobs, workers, requests,
transactions, lines, sockets, tabs and faults. Nothing is assumed that the code does not give: what the
assumptions say is that limits are numbers, that sets which are counted are finite (`WorkerAssumption`,
`BrowserAssumption`), and that names for "nobody" and "set" are nobody's names (`NoneAssumption`,
`SlotAssumption`). Every inductive invariant below was an `INVARIANT` of TLC on the small instance before it was proved.

* `EventDeliveryProofs`: `EventsStoredOnce`, `AcksAreTrue` and `NoLineForgotten`, with and without Redis, whenever it
  goes and comes back; the faults that break the plain statements are exceptions with a name (section 3), not
  assumptions. `Typed` adds the agent's route to the types: a request is awaited only while sending, and what a flush
  sends is the head of the buffer. `Marked`: what is stored, or added by an open request, has its fingerprint
  marked in the store the row names, no two requests add one row, and a row of the store that is not
  configured needs an outage (`RowsAreConfigured`). `StoredOnce` alone is not inductive, because whether a row may be
  inserted is decided by the mark, not by the row. `Trusted`: a mark in Postgres is earned by
  a stored row or belongs to an open request that adds one (`MarksAreEarned`), the request the agent waits for has
  handled or still has to do each line of its chunk (`AnswerIsTrue`), so what is acknowledged is handled
  (`AckedAreHandled`) and the log is read no further than what is held, stored or lost by a named fault (`ReadAreKept`).
  The step that matters is a swallowed error: the marks go, and what the answer then says of the
  lines is covered by `swallowed` and by nothing else.
* `JobQueueProofs`: `NoJobUnaccounted`, `ImplementsLedger`, `RetriesAreBounded` and `NothingVanishes`. `ExactlyOnePlace` counts places;
  `Placed` says it without counting, and is inductive: a list has a job at most once and under its own priority,
  no two workers hold the same one, and the jobs that wait, are held, buried, finished and lost are disjoint and together the
  accepted ones. `Budget` gives for each place what a job has used of its retries: `runs` equals `retry` while it waits,
  is one more while its handler runs and the whole budget when it is buried. With `Placed`, which says that what
a worker holds is accepted and nowhere else, it makes each step one of the ledger's: `Receive` is a `Run` because the
count of a job that waits is its `retry`, `Bury` needs the whole budget, and what a full list, an outage or the end of the
tasks loses was owed (`LedgerDrops`). `RetriesAreBounded` is the ledger's `WithinBudget` in the queue. `FaultsCounted` says that a process that is down or a broker that is
  unreachable has been counted.
  The last section proves `BreakerStaysConsistent` and `BreakerTrialIsOwned` of `CircuitBreaker`. The inductive invariant is
  `TypeOK /\ OpenIffThreshold /\ TrialOnlyHalfOpen`. That
  the flag is up in the half-open state only needs the first two: the state depends on the time
  since the trip, time passes only in a tripped breaker, and a trip needs a full count.
  `TrialFlagOwned` is inductive given the types.
* `OffenseGroupingProofs`: `EveryAlertGrouped`, `CountsAreRight`, `OneIncident` and the action property
  `ClosedStayClosed`. Four layers. `Typed`; `Keyed`: rows and keys of open alerts are changed by one transaction at
  a time (`Exclusive`), and a transaction that takes a key also has the row the key was on (`KeysOf`), which is why
  a second open alert cannot be committed. `Filed`: the alerts in a draft are linked once, save
  for the one that is being linked; the alerts that hooks announce are committed ones, or `swallowed`. `Settled`: the offense a transaction adds to is locked and not closed (`OpenOf`), its
  draft counts what is linked outside and inside the draft (`CountsOf`), since no one else can add to it meanwhile; this is where
  read-plus-one is justified.
* `AuditChainProofs`: `AuditTypes` for any number of entries per transaction, and the others when a
  transaction logs once (`EntriesPerTxn = 1`, as the handlers do; two would
  follow the same entry, since the head is read before the first is flushed). For `ChainIsLinear`, `ImplementsLog` and `NoForkedHistory` the inductive
  invariant adds to `ChainLinear` that only the holder of the lock is between taking a number and
  its commit (`OnlyHolder`), that it has the newest number, which is not the genesis hash (`Numbered`, `Drawn`), and that what it will
  write follows the newest committed entry (`PendingIsNext`). A commit therefore adds one entry past
  all others, which is `Append` of the abstract log: each step of the table is an `Append` or leaves it alone.
  `NoForkedHistory` is then the promise of the abstract log in the concrete one. `ChecksAreHonest` and
  `CompleteChecksReadAll` rest on `WindowsAreOldest`: what a check has read has no gap, and later commits come after it, so neither a link
  that is compared nor the claim of completeness is disturbed by writers beside it. `Recorded` says that the numbers
  name the entries and that each column spells the address that was hashed (`Inet`): where no address of
  the window is respelled, the recomputed hashes agree.
* `AuthSessionsProofs`: `SessionsAlwaysAgree`, `ChangesEndOthers` and `LoginsRespectLimit`. `Agreeing`: rows are
  locked by one transaction (`Exclusive`), a token that was exchanged is gone (`Followed`), and a refresh that is past its token
  still holds the row. `Sweeping` is about a password change: from the moment its snapshot of the
  tokens is locked nobody can exchange one of them, and the sessions, read after that, contain
  those that took the place of the old ones (`SweepsOf`; the successor of such a successor, of a client that refreshes twice while
  the change waits, can survive); once it is done, no refresh under way has one of the old tokens (`Ended`). `Counting` is
  about loads of logins and logouts: what a login has counted it still finds when it picks the oldest (`PicksOf`), sessions are finite in number and ordered by creation (`Ordered`), and a login
  that has counted holds the user's row and leaves room for one (`CountsOf`).
* `RealtimeFeedProofs`: `TabKeepsTrying` and `FeedKeepsOrder`. For the first, the inductive invariant adds that a socket which is connecting or open is the
  store's own (`OwnSocket`), so that `onopen` never speaks for another one, and that a ticket is fetched only
  while there is none (`FetchingAlone`), so that a new socket never replaces a live one. All steps
  of the servers are covered by one lemma: they leave the tab alone. For the second (`Feed`): the messages Redis has are
  those whose publication it took (`Routed`), a listener broadcasts one message at a time to sockets of its own worker (`OneAtATime`), and along
  the way from Redis' list through the worker's channel and the broadcast to the socket the order is kept (`Ordered`).
* `BrowserSessionProofs`: `LogoutIsFinal` and `SessionIsKept`. With the types `LogoutHolds` is inductive: a request that is refused after the logout asks to rotate cookie 0, which the server
  never issued; a refresh sent before it carries a token that is no longer live (`Calm`); and a page load finds no answer under way
  whose cookies it could keep. `SessionKept` is not: `Kept` adds that a granted token that was not taken yet is live or lost,
  is not the cookie and is nobody else's (`Sole`), and that tokens under way are not newer than the newest (`Known`). A new
  guard never overwrites a granted token, because the slot is idle by then; `Guarded` says that a logout is under way only in the slot of
  the form.

* `EditorsProofs`: `TextIsKept`, `TextStaysWithItsRecord`, `NoEditorOfTheDeleted` and `NothingSentTwice`, for any number of
  words, records and saves. What the forms have to do with it is one lemma, `TableFits`: each of the thirty-five
  satisfies `Fits`, in which an exception named by the table stands for the fault it excuses; it is proved for one group of forms after another. The
  inductive invariant begins with `Shape` (saves are used in order, a disabled button leaves one under way). `TextSurvives`
  needs `AllSafe`, which does not count on a save that can still be refused; for that, `Waiting` says that
  a save which will send what it finds in the inputs still finds there what it carries, and `Covered` that inputs which are emptied on success
  hold nothing else. `SavedWhereMeant` needs `Meant`: words in the inputs belong to what is open, words of a save to its
  target. `SentOnce` needs `Parted`: what could be sent again is not in the inputs.
* `RealtimeFeedProofs`, second part, about `DashboardCache`: `NoFalseEmptiness`, `OwnChangesEndUpShown`, `AnnouncedChangesEndUpShown`
  and `NothingReportedInVain`, for any number of changes, filters and disturbances, on every page. The inductive invariant is `CacheInv`. A screen without data is
  waiting, has failed, or a change has cancelled its load (`Explained`), so a component that tests both before it says
  "none" is honest. `Current` is the heart: while no patch is in the lists (`Calm`), every row whose change was
  reported or announced is right in each answer, cached or on its way, that is not marked as old; and `Reread` says that what is
  marked is read again. That the invalidation of a settled change or of a message reaches every
  such answer is the lemma `InvalidateFits`. The tables enter by `ScenesAssumption` only: mutations that change rows
  of the query invalidate it, patches are cancelled for and settled, and so on. It has no parameters: it is a statement about the tables as they are, whose
  pairs fall into 27 scenes; TLC evaluates it, and working the pairs out is too large for the prover.

Of the properties that runs check, all safety properties, action properties and refinements are proved, with one
exception that is meant: `AtLeastOnce` in `delivery_loss`, which does not hold. Only model-checked are the liveness
properties (`Recovers`, `BufferDrains`, `JobsSettle`, both `RequestsEnd`, `TransactionsEnd`, `ReachesListeners`, `ScreensSettle`,
`TabsSettle`), since the prover handles neither `ENABLED` nor fairness of this kind. Anything recursive would stay with TLC too; no module
declares a RECURSIVE operator.

## 5. Not modelled

`PROJECT.json` lists every component with the reason. In short: enrolment, nonces and the
correlation engine are next in the plan; queries, scores, reports, parsing and rule matching
are data or have one writer; backup, deployment and the clients of external services are I/O. Of the
frontend, layout, charts, formatting, the order and paging of lists, and two users who share
a browser are left out. In the modelled parts, what a rule matches,
what an event says, delays, log texts and HTTP status codes are abstracted. `EventDelivery` leaves out the lifetime of
a day that marks have, which a log that is read again from its beginning may outlast, and hosts whose log is read from journald.
`TransactionsEnd` is about the rows and keys of alerts and offenses: the locks of host rows and of the audit log, which
the same transactions take, are not in `WaitsFor`.

Behaviour that is hard to test and that no property covers, in those parts: `notify_offense` is
queued before the offense is committed (`services/offense_engine.py:116`); two registrations may use one enrolment
token (`routers/agent.py:85`); two signed requests pass the look-up of one nonce and the second fails on its key
(`services/agent_auth.py:83`); the failed login that is counted is rolled back by its own
401 (`routers/auth.py:230`); a socket whose send timed out is forgotten, not closed (`websocket/manager.py:89`); with
`AUDIT_IMMUTABLE` off, retention meets the trigger that forbids it (`services/retention.py:67`); two runs of the
correlation engine look for the same incident before either inserts it (`services/correlation_engine.py:155`).

## 6. Plan

Order so far: breaker (small, first proofs), delivery (the promise the product makes), jobs, audit,
offenses, sessions, live feed; then the frontend (pages and cache, session of the browser, forms) and the
audit log and the job queue as refinements. What is left, in this order:

1. Refinement: a store of events, with its named losses and repetitions, that `EventDelivery` implements.
2. `Enrolment`: registration with an enrolment token, key rotation, heartbeats and nonces as
   transactions of two agents, with the host's status as `update_host_statuses` reads it.
3. Composition of `OffenseGrouping` with `JobQueue` (`notify_offense`), and of `BrowserSession` with `AuthSessions`.
4. Lists with filters and pages; correlation; the second factor and the lockout counters in
   `AuthSessions`; several hosts in `OffenseGrouping`; a second tab in `RealtimeFeed`.

## 7. Running

    tlc -workers 2 -config JobQueue_live.cfg MCJobQueue
    tlapm AuditChainProofs.tla
