--------------------------- MODULE OffenseGrouping ---------------------------
(***************************************************************************)
(* Alerts and offenses of one host (services/detection.py create_alert,    *)
(* services/offense_engine.py, services/incident_promotion.py, the status  *)
(* handlers of routers/alerts.py and routers/offenses.py).  Each request   *)
(* or job is one READ COMMITTED transaction: what it writes is its draft,  *)
(* rows of which the others wait for, until it commits.                    *)
(*                                                                         *)
(* A rule stands for what makes an open alert unique: rule_id, or the      *)
(* title when there is no rule (then the cooldown is 0).  An alert is      *)
(* named by the transaction and the rule that made it, an offense by the   *)
(* transaction.  One tick of now is longer than any transaction.           *)
(***************************************************************************)
EXTENDS Integers, FiniteSets

CONSTANTS
  Txns,          \* requests and jobs, each one transaction
  Rules,         \* keys of the partial unique indexes on open alerts
  OfflineRule,   \* the rule of type agent_offline
  Risk,          \* RISK_FROM_SEVERITY of each rule, as RISK_RANK
  EventRisk,     \* the rank of the risk of an event
  Cooldown,      \* cooldown_minutes of each rule, in ticks; 0: none
  OffenseWindow, \* OFFENSE_WINDOW in ticks
  MaxNow,        \* ticks (bounds the model)
  Loads,         \* what the transactions do: functions from Txns to Kinds
  None           \* no incident, no time

(* request and job: run_detection_for_host in a request and in a job.      *)
Kinds == {"request", "job", "event", "triage", "status", "promote"}

ASSUME RulesAssumption == OfflineRule \in Rules /\ "event" \notin Rules
ASSUME RiskAssumption == Risk \in [Rules -> 1..4] /\ EventRisk \in 1..4
ASSUME TimeAssumption ==
  /\ Cooldown \in [Rules -> Nat] /\ OffenseWindow \in Nat /\ MaxNow \in Nat
  /\ None \notin Nat /\ None \notin Txns
ASSUME LoadsAssumption == Loads \subseteq [Txns -> Kinds]

VARIABLES
  alerts,    \* committed alerts: their status and resolved_at
  offenses,  \* committed offenses
  links,     \* committed offense_events: an offense with an alert or event
  incidents, \* committed incidents: of which offense, with which alerts
  draft,     \* what each transaction has written and not committed
  announced, \* alerts whose post-commit hooks have run
  swallowed, \* alerts undone by an error that the request did not notice
  now,       \* the clock
  kind,      \* what each transaction does
  pc,        \* where it is
  todo,      \* rules it has not evaluated
  rule,      \* the rule whose alert it makes
  seen,      \* offenses found by find_or_create_offense, with updated_at
  target     \* the row a handler has loaded, its status and the new one

vars == <<alerts, offenses, links, incidents, draft, announced, swallowed, now, kind,
          pc, todo, rule, seen, target>>

AlertIds == Txns \X Rules

EventIds == Txns \X {"event"}

AlertStatuses == {"open", "investigating", "resolved", "closed"}

OffenseStatuses == {"open", "investigating", "closed"}

Grouping == {"open", "investigating"}

Times == 0..MaxNow

Alert == [status : AlertStatuses, resolved : Times \cup {None}]

Offense == [status : OffenseStatuses, risk : 1..4, alerts : Nat, events : Nat,
            updated : Times, incident : Txns \cup {None}]

Incident == [by : Txns, of : Txns, alerts : SUBSET AlertIds]

Links == Txns \X (AlertIds \cup EventIds)

IsTable(f, ids, Row) == DOMAIN f \subseteq ids /\ \A i \in DOMAIN f : f[i] \in Row

NoRows == [i \in {} |-> None]

NoDraft == [alerts |-> NoRows, offenses |-> NoRows, links |-> {}, incidents |-> {}]

NoTarget == [id |-> None, old |-> "open", new |-> "open"]

Places == {"new", "rules", "insert", "look", "settle", "write", "hosts",
           "flushed", "hooks", "done"}

TypeOK ==
  /\ IsTable(alerts, AlertIds, Alert)
  /\ IsTable(offenses, Txns, Offense)
  /\ links \subseteq Links /\ incidents \subseteq Incident
  /\ \A t \in Txns :
       /\ IsTable(draft[t].alerts, AlertIds, Alert)
       /\ IsTable(draft[t].offenses, Txns, Offense)
       /\ draft[t].links \subseteq Links
       /\ draft[t].incidents \subseteq Incident
       /\ seen[t] \subseteq Txns \X Times
  /\ announced \subseteq AlertIds /\ swallowed \subseteq AlertIds
  /\ now \in Times
  /\ kind \in Loads
  /\ pc \in [Txns -> Places]
  /\ todo \in [Txns -> SUBSET Rules]
  /\ rule \in [Txns -> Rules]

Init ==
  /\ alerts = NoRows /\ offenses = NoRows /\ links = {} /\ incidents = {}
  /\ draft = [t \in Txns |-> NoDraft]
  /\ announced = {} /\ swallowed = {}
  /\ now = 0
  /\ kind \in Loads
  /\ pc = [t \in Txns |-> "new"]
  /\ todo = [t \in Txns |-> {}]
  /\ rule = [t \in Txns |-> OfflineRule]
  /\ seen = [t \in Txns |-> {}]
  /\ target = [t \in Txns |-> NoTarget]

Goto(t, place) == pc' = [pc EXCEPT ![t] = place]

tables == <<alerts, offenses, links, incidents>>

-----------------------------------------------------------------------------
(* Rows and locks.                                                         *)

(* The rows t sees: its own writes over the committed ones.                *)
Updated(new, old) ==
  [i \in DOMAIN new \cup DOMAIN old |-> IF i \in DOMAIN new THEN new[i] ELSE old[i]]

AlertsOf(t) == Updated(draft[t].alerts, alerts)

OffensesOf(t) == Updated(draft[t].offenses, offenses)

(* Transactions whose uncommitted change of a row others wait for.         *)
AlertHolders(t, a) == {u \in Txns \ {t} : a \in DOMAIN draft[u].alerts}

OffenseHolders(t, o) == {u \in Txns \ {t} : o \in DOMAIN draft[u].offenses}

OpenFor(rows, r) == {a \in DOMAIN rows : a[2] = r /\ rows[a].status = "open"}

(* A unique index waits for an uncommitted row with the same key, and for  *)
(* the end of a transaction that has taken the key off a row.              *)
KeyHolders(t, r) ==
  {u \in Txns \ {t} : \/ OpenFor(draft[u].alerts, r) # {}
                      \/ OpenFor(alerts, r) \cap DOMAIN draft[u].alerts # {}}

Put(rows, i, row) == [j \in DOMAIN rows \cup {i} |-> IF j = i THEN row ELSE rows[j]]

PutAlert(t, a, row) == draft' = [draft EXCEPT ![t].alerts = Put(@, a, row)]

-----------------------------------------------------------------------------
(* create_alert.                                                           *)

RecentlyClosed(t, r) ==
  /\ Cooldown[r] > 0
  /\ \E a \in DOMAIN AlertsOf(t) :
       /\ a[2] = r /\ AlertsOf(t)[a].status \in {"resolved", "closed"}
       /\ AlertsOf(t)[a].resolved # None
       /\ AlertsOf(t)[a].resolved >= now - Cooldown[r]

Detects(t) == kind[t] \in {"request", "job"}

StartDetection(t) ==
  /\ pc[t] = "new" /\ Detects(t)
  /\ todo' = [todo EXCEPT ![t] = Rules]
  /\ Goto(t, "rules")
  /\ UNCHANGED <<tables, draft, announced, swallowed, now, kind, rule, seen, target>>

(* A checker fires; the alert is not made in the cooldown.                 *)
EvaluateRule(t) ==
  /\ pc[t] = "rules"
  /\ \E r \in todo[t] :
       /\ todo' = [todo EXCEPT ![t] = @ \ {r}]
       /\ IF RecentlyClosed(t, r)
          THEN UNCHANGED <<pc, rule>>
          ELSE rule' = [rule EXCEPT ![t] = r] /\ Goto(t, "insert")
  /\ UNCHANGED <<tables, draft, announced, swallowed, now, kind, seen, target>>

(* The other rules do not fire.                                            *)
EndDetection(t) ==
  /\ pc[t] = "rules"
  /\ todo' = [todo EXCEPT ![t] = {}]
  /\ Goto(t, "flushed")
  /\ UNCHANGED <<tables, draft, announced, swallowed, now, kind, rule, seen, target>>

AfterAlert(t) == IF Detects(t) THEN "rules" ELSE "flushed"

NewAlert == [status |-> "open", resolved |-> None]

(* Mutant: nothing makes an open alert unique.                             *)
InsertAlertAlways(t) ==
  /\ pc[t] = "insert"
  /\ PutAlert(t, <<t, rule[t]>>, NewAlert)
  /\ Goto(t, "look")
  /\ UNCHANGED <<tables, announced, swallowed, now, kind, todo, rule, seen, target>>

(* INSERT ... ON CONFLICT DO NOTHING.                                      *)
InsertAlert(t) ==
  /\ pc[t] = "insert" /\ KeyHolders(t, rule[t]) = {}
  /\ IF OpenFor(AlertsOf(t), rule[t]) # {}
     THEN Goto(t, AfterAlert(t)) /\ UNCHANGED draft
     ELSE PutAlert(t, <<t, rule[t]>>, NewAlert) /\ Goto(t, "look")
  /\ UNCHANGED <<tables, announced, swallowed, now, kind, todo, rule, seen, target>>

-----------------------------------------------------------------------------
(* offense_engine.                                                         *)

(* link_event_to_offense, of an event that a request ingests.              *)
StartEvent(t) ==
  /\ pc[t] = "new" /\ kind[t] = "event"
  /\ Goto(t, "look")
  /\ UNCHANGED <<tables, draft, announced, swallowed, now, kind, todo, rule, seen, target>>

(* The statement of find_or_create_offense reads what is committed now ... *)
LookForOffense(t) ==
  /\ pc[t] = "look"
  /\ seen' = [seen EXCEPT ![t] =
       {<<o, OffensesOf(t)[o].updated>> : o \in {p \in DOMAIN OffensesOf(t) :
            /\ OffensesOf(t)[p].status \in Grouping
            /\ OffensesOf(t)[p].updated >= now - OffenseWindow}}]
  /\ Goto(t, "settle")
  /\ UNCHANGED <<tables, draft, announced, swallowed, now, kind, todo, rule, target>>

(* ... newest first.                                                       *)
IsNewest(s, rows) == s \in rows /\ \A r \in rows : r[2] <= s[2]

Newcomer(t) == IF kind[t] = "event" THEN <<t, "event">> ELSE <<t, rule[t]>>

NewRisk(t) == IF kind[t] = "event" THEN EventRisk ELSE Risk[rule[t]]

MaxRisk(a, b) == IF a >= b THEN a ELSE b

(* What link_alert_to_offense and link_event_to_offense add to an offense. *)
Linked(t, offense) ==
  LET isEvent == kind[t] = "event"
  IN  [offense EXCEPT !.risk = MaxRisk(@, NewRisk(t)),
                      !.alerts = IF isEvent THEN @ ELSE @ + 1,
                      !.events = IF isEvent THEN @ + 1 ELSE @,
                      !.updated = now]

NewOffense(t) ==
  [status |-> "open", risk |-> NewRisk(t), alerts |-> 0, events |-> 0,
   updated |-> now, incident |-> None]

Link(t, o, offense) ==
  draft' = [draft EXCEPT ![t].offenses = Put(@, o, Linked(t, offense)),
                         ![t].links = @ \cup {<<o, Newcomer(t)>>}]

(* Nothing was found: nextval, insert, and the link.                       *)
CreateOffense(t) ==
  /\ pc[t] = "settle" /\ seen[t] = {}
  /\ Link(t, t, NewOffense(t))
  /\ Goto(t, AfterAlert(t))
  /\ UNCHANGED <<tables, announced, swallowed, now, kind, todo, rule, seen, target>>

(* Mutant: nothing is locked.                                              *)
JoinWithoutLock(t) ==
  /\ pc[t] = "settle"
  /\ \E s \in seen[t] :
       /\ IsNewest(s, seen[t])
       /\ Link(t, s[1], OffensesOf(t)[s[1]])
  /\ Goto(t, AfterAlert(t))
  /\ seen' = [seen EXCEPT ![t] = {}]
  /\ UNCHANGED <<tables, announced, swallowed, now, kind, todo, rule, target>>

(* Mutant: what was found is not looked at again after the wait.           *)
JoinWithoutRecheck(t) ==
  /\ pc[t] = "settle"
  /\ \E s \in seen[t] :
       /\ IsNewest(s, seen[t]) /\ OffenseHolders(t, s[1]) = {}
       /\ Link(t, s[1], OffensesOf(t)[s[1]])
  /\ Goto(t, AfterAlert(t))
  /\ seen' = [seen EXCEPT ![t] = {}]
  /\ UNCHANGED <<tables, announced, swallowed, now, kind, todo, rule, target>>

(* FOR UPDATE: the newest is locked, after a wait if another has it, and   *)
(* left out if it no longer qualifies (its updated_at has only grown).     *)
JoinOffense(t) ==
  /\ pc[t] = "settle"
  /\ \E s \in seen[t] :
       /\ IsNewest(s, seen[t]) /\ OffenseHolders(t, s[1]) = {}
       /\ IF OffensesOf(t)[s[1]].status \in Grouping
          THEN /\ Link(t, s[1], OffensesOf(t)[s[1]])
               /\ Goto(t, AfterAlert(t))
               /\ seen' = [seen EXCEPT ![t] = {}]
          ELSE /\ seen' = [seen EXCEPT ![t] = @ \ {s}]
               /\ UNCHANGED <<draft, pc>>
  /\ UNCHANGED <<tables, announced, swallowed, now, kind, todo, rule, target>>

-----------------------------------------------------------------------------
(* The status of an alert (update_alert_status, and the bulk update and    *)
(* the feedback of one alert).                                             *)

LoadAlert(t) ==
  /\ pc[t] = "new" /\ kind[t] = "triage"
  /\ \E a \in DOMAIN alerts, s \in AlertStatuses :
       target' = [target EXCEPT ![t] = [id |-> a, old |-> alerts[a].status, new |-> s]]
  /\ Goto(t, "write")
  /\ UNCHANGED <<tables, draft, announced, swallowed, now, kind, todo, rule, seen>>

Closes(status) == status \in {"resolved", "closed"}

(* The session writes the columns that differ from what it has loaded.     *)
Retitled(t, row) ==
  LET was == target[t].old
      new == target[t].new
  IN  [status   |-> IF new # was THEN new ELSE row.status,
       resolved |-> IF Closes(new) THEN now ELSE row.resolved]

Reopens(t) == target[t].new = "open" /\ target[t].old # "open"

WriteAlert(t) ==
  /\ pc[t] = "write" /\ kind[t] = "triage"
  /\ LET a == target[t].id
     IN  /\ AlertHolders(t, a) = {}
         /\ Reopens(t) => /\ KeyHolders(t, a[2]) = {}
                          /\ OpenFor(alerts, a[2]) \subseteq {a}
         /\ IF target[t].new = target[t].old /\ ~Closes(target[t].new)
            THEN UNCHANGED draft
            ELSE PutAlert(t, a, Retitled(t, alerts[a]))
  /\ Goto(t, "hosts")
  /\ UNCHANGED <<tables, announced, swallowed, now, kind, todo, rule, seen, target>>

(* update_host_statuses: a host without a heartbeat raises Agent Offline   *)
(* unless an alert of the rule is open or was closed a short time ago.     *)
CheckHosts(t) ==
  /\ pc[t] = "hosts"
  /\ \/ Goto(t, "flushed") /\ UNCHANGED rule
     \/ /\ OpenFor(AlertsOf(t), OfflineRule) = {}
        /\ ~RecentlyClosed(t, OfflineRule)
        /\ rule' = [rule EXCEPT ![t] = OfflineRule]
        /\ Goto(t, "insert")
  /\ UNCHANGED <<tables, draft, announced, swallowed, now, kind, todo, seen, target>>

-----------------------------------------------------------------------------
(* The status of an offense, and its promotion.                            *)

LoadOffense(t) ==
  /\ pc[t] = "new" /\ kind[t] = "status"
  /\ \E o \in DOMAIN offenses, s \in OffenseStatuses :
       target' = [target EXCEPT ![t] = [id |-> o, old |-> offenses[o].status, new |-> s]]
  /\ Goto(t, "write")
  /\ UNCHANGED <<tables, draft, announced, swallowed, now, kind, todo, rule, seen>>

PutOffense(t, o, row) == draft' = [draft EXCEPT ![t].offenses = Put(@, o, row)]

(* update_offense_status has not locked what it loaded: it waits here.     *)
WriteOffense(t) ==
  /\ pc[t] = "write" /\ kind[t] = "status"
  /\ LET o == target[t].id
         new == target[t].new
     IN  /\ OffenseHolders(t, o) = {}
         /\ PutOffense(t, o, [offenses[o] EXCEPT
              !.status = IF new # target[t].old THEN new ELSE @, !.updated = now])
  /\ Goto(t, "flushed")
  /\ UNCHANGED <<tables, announced, swallowed, now, kind, todo, rule, seen, target>>

LinkedAlerts(o, set) == {a \in AlertIds : <<o, a>> \in set}

(* Mutant: the offense is not locked before its incident is looked at.     *)
PromoteWithoutLock(t) ==
  /\ pc[t] = "new" /\ kind[t] = "promote"
  /\ \E o \in DOMAIN offenses :
       IF offenses[o].incident # None
       THEN UNCHANGED draft
       ELSE draft' = [draft EXCEPT
              ![t].offenses = Put(@, o, [offenses[o] EXCEPT
                 !.incident = t, !.status = "investigating", !.updated = now]),
              ![t].incidents = {[by |-> t, of |-> o, alerts |-> LinkedAlerts(o, links)]}]
  /\ Goto(t, "flushed")
  /\ UNCHANGED <<tables, announced, swallowed, now, kind, todo, rule, seen, target>>

(* promote_offense_to_incident: FOR UPDATE, and nothing if it has one.     *)
Promote(t) ==
  /\ pc[t] = "new" /\ kind[t] = "promote"
  /\ \E o \in DOMAIN offenses :
       /\ OffenseHolders(t, o) = {}
       /\ IF offenses[o].incident # None
          THEN UNCHANGED draft
          ELSE draft' = [draft EXCEPT
                 ![t].offenses = Put(@, o, [offenses[o] EXCEPT
                    !.incident = t, !.status = "investigating", !.updated = now]),
                 ![t].incidents = {[by |-> t, of |-> o, alerts |-> LinkedAlerts(o, links)]}]
  /\ Goto(t, "flushed")
  /\ UNCHANGED <<tables, announced, swallowed, now, kind, todo, rule, seen, target>>

-----------------------------------------------------------------------------
(* The end of a transaction.                                               *)

(* Mutant: what the transaction has locked stays locked.                   *)
CommitKeepsLocks(t) ==
  /\ pc[t] = "flushed"
  /\ alerts' = AlertsOf(t) /\ offenses' = OffensesOf(t)
  /\ links' = links \cup draft[t].links
  /\ incidents' = incidents \cup draft[t].incidents
  /\ Goto(t, IF kind[t] = "job" THEN "done" ELSE "hooks")
  /\ UNCHANGED <<draft, announced, swallowed, now, kind, todo, rule, seen, target>>

(* Only get_db runs the hooks: the sessions of the jobs do not.            *)
Commit(t) ==
  /\ pc[t] = "flushed"
  /\ alerts' = AlertsOf(t) /\ offenses' = OffensesOf(t)
  /\ links' = links \cup draft[t].links
  /\ incidents' = incidents \cup draft[t].incidents
  /\ draft' = [draft EXCEPT ![t] = NoDraft]
  /\ Goto(t, IF kind[t] = "job" THEN "done" ELSE "hooks")
  /\ UNCHANGED <<announced, swallowed, now, kind, todo, rule, seen, target>>

(* _execute_alert_post_commit: the index, the job and the broadcast.       *)
RunHooks(t) ==
  /\ pc[t] = "hooks"
  /\ announced' = announced \cup {a \in DOMAIN alerts \cup swallowed : a[1] = t}
  /\ Goto(t, "done")
  /\ UNCHANGED <<tables, draft, swallowed, now, kind, todo, rule, seen, target>>

Undo(t) ==
  /\ draft' = [draft EXCEPT ![t] = NoDraft]
  /\ todo' = [todo EXCEPT ![t] = {}]
  /\ seen' = [seen EXCEPT ![t] = {}]
  /\ UNCHANGED <<tables, announced, now, kind, rule, target>>

(* An exception that reaches get_db, or any in a job: a job has no hooks.  *)
Rollback(t) ==
  /\ Undo(t)
  /\ Goto(t, "done")
  /\ UNCHANGED swallowed

AlertsIn(set) == {a \in AlertIds : \E o \in Txns : <<o, a>> \in set}

(* The stages of the pipeline and the checks of the ingestion catch what   *)
(* they raise, a statement that Postgres refused too.  Postgres has undone *)
(* the transaction then and answers COMMIT with a rollback, without an     *)
(* error: the hooks run, those of the alerts that were already linked.     *)
SwallowError(t) ==
  /\ kind[t] \in {"request", "event"}
  /\ pc[t] \in {"rules", "insert", "look", "settle", "flushed"}
  /\ Undo(t)
  /\ swallowed' = swallowed \cup AlertsIn(draft[t].links)
  /\ Goto(t, "hooks")

(* IntegrityError: an alert is set to open and its rule has another one.   *)
RejectReopening(t) ==
  /\ pc[t] = "write" /\ kind[t] = "triage" /\ Reopens(t)
  /\ KeyHolders(t, target[t].id[2]) = {}
  /\ ~(OpenFor(alerts, target[t].id[2]) \subseteq {target[t].id})
  /\ Rollback(t)

InTransaction(t) == pc[t] \notin {"new", "hooks", "done"}

(* An error, a lost connection, or the end of the process.                 *)
Fail(t) == InTransaction(t) /\ Rollback(t)

(* The process ends after the commit: the hooks are lost.                  *)
LoseHooks(t) ==
  /\ pc[t] = "hooks"
  /\ Goto(t, "done")
  /\ UNCHANGED <<tables, draft, announced, swallowed, now, kind, todo, rule, seen, target>>

(* Whom t waits for.                                                       *)
WaitsFor(t) ==
  CASE pc[t] = "insert" -> KeyHolders(t, rule[t])
    [] pc[t] = "settle" ->
         UNION {OffenseHolders(t, s[1]) : s \in {r \in seen[t] : IsNewest(r, seen[t])}}
    [] pc[t] = "write" /\ kind[t] = "triage" ->
         AlertHolders(t, target[t].id)
           \cup (IF Reopens(t) THEN KeyHolders(t, target[t].id[2]) ELSE {})
    [] pc[t] = "write" /\ kind[t] = "status" -> OffenseHolders(t, target[t].id)
    [] OTHER -> {}

(* deadlock_timeout: one of a circle of transactions is aborted.           *)
AbortDeadlock(t) ==
  /\ \E circle \in SUBSET Txns :
       /\ t \in circle
       /\ \A u \in circle : \E v \in circle : u \in WaitsFor(v)
       /\ \A u \in circle : \E v \in circle : v \in WaitsFor(u)
  /\ Rollback(t) \/ SwallowError(t)

Tick ==
  /\ now < MaxNow /\ \A t \in Txns : ~InTransaction(t)
  /\ now' = now + 1
  /\ UNCHANGED <<tables, draft, announced, swallowed, kind, pc, todo, rule, seen, target>>

Work(t) ==
  \/ StartDetection(t) \/ EvaluateRule(t) \/ EndDetection(t) \/ InsertAlert(t)
  \/ StartEvent(t) \/ LookForOffense(t) \/ CreateOffense(t) \/ JoinOffense(t)
  \/ LoadAlert(t) \/ WriteAlert(t) \/ CheckHosts(t)
  \/ LoadOffense(t) \/ WriteOffense(t) \/ Promote(t)
  \/ Commit(t) \/ RunHooks(t) \/ RejectReopening(t)

Next ==
  \/ Tick
  \/ \E t \in Txns : Work(t) \/ Fail(t) \/ SwallowError(t) \/ LoseHooks(t) \/ AbortDeadlock(t)

Spec == Init /\ [][Next]_vars

(* A transaction goes on and is never left in a circle of waiting ones.    *)
FairSpec ==
  /\ Spec
  /\ \A t \in Txns : WF_vars(InTransaction(t) /\ Work(t)) /\ WF_vars(AbortDeadlock(t))

-----------------------------------------------------------------------------
(* Properties.                                                             *)

(* However detections and analysts interleave, a rule has one open alert   *)
(* on the host: ON CONFLICT, the reopening and the waits of the index.     *)
OneOpenAlert ==
  \A r \in Rules : Cardinality(OpenFor(alerts, r)) <= 1

(* No alert that is stored is left out of the offenses, and none is in two *)
(* of them; nor is one that the post-commit hooks have announced to        *)
(* clients, index and notifiers, except after a swallowed database error:  *)
(* then the hooks announce alerts that are in no table.                    *)
AlertsGrouped ==
  \A a \in DOMAIN alerts \cup (announced \ swallowed) : \E o \in DOMAIN offenses :
     /\ <<o, a>> \in links
     /\ \A p \in Txns : <<p, a>> \in links => p = o

Grouped == TypeOK /\ OneOpenAlert /\ AlertsGrouped

(* alert_count and event_count, added to by transactions that each write   *)
(* the value they read plus one, are the numbers of rows linked.           *)
CountsMatchLinks ==
  \A o \in DOMAIN offenses :
     /\ offenses[o].alerts = Cardinality({a \in AlertIds : <<o, a>> \in links})
     /\ offenses[o].events = Cardinality({e \in EventIds : <<o, e>> \in links})

(* Two analysts who promote an offense at the same time get one incident,  *)
(* with alerts of that offense only.                                       *)
PromotedOnce ==
  \A i, j \in incidents :
     /\ i.of = j.of => i = j
     /\ offenses[i.of].incident = i.by
     /\ \A a \in i.alerts : <<i.of, a>> \in links

(* An offense that is closed gets no more alerts or events, although the   *)
(* transactions that add them looked for an open one before.               *)
ClosedTakesNoLinks ==
  [][\A o \in DOMAIN offenses : offenses[o].status = "closed" =>
       \A l \in links' \ links : l[1] # o]_vars

(* Every transaction that begins ends, although they wait for each other.  *)
TransactionsEnd == \A t \in Txns : InTransaction(t) ~> ~InTransaction(t)

=============================================================================
