--------------------------- MODULE DashboardScenes ---------------------------
(***************************************************************************)
(* Which component meets which mutation: what of each the query client and *)
(* the screen depend on, taken from the tables of the pages, and what the  *)
(* messages of the live feed invalidate.                                   *)
(***************************************************************************)
EXTENDS TriagePages, HostPages, InsightPages, AdminPages, HomePages, SequencesExt

Pages == TriagePageSet \cup HostPageSet \cup InsightPageSet \cup AdminPageSet \cup HomePageSet

(* The keys that a message of the live feed invalidates, in this order.    *)
InvalidationByType ==
  [new_event |-> <<<<"siem", "executive">>, <<"siem", "attack-timelines">>>>,
   new_alert |-> <<<<"alerts">>, <<"siem", "executive">>, <<"siem", "severity-distribution">>>>,
   alert_updated |-> <<<<"alerts">>, <<"siem", "executive">>, <<"siem", "severity-distribution">>>>,
   alert_resolved |-> <<<<"alerts">>, <<"siem", "executive">>, <<"siem", "severity-distribution">>>>,
   alert_feedback |-> <<<<"alerts">>>>,
   host_status |-> <<<<"hosts">>, <<"siem", "executive">>, <<"siem", "top-risky-hosts">>>>,
   host_enrolled |-> <<<<"hosts">>, <<"siem", "executive">>>>,
   new_offense |-> <<<<"offenses">>>>, offense_updated |-> <<<<"offenses">>>>,
   new_incident |-> <<<<"incidents">>>>, incident_updated |-> <<<<"incidents">>>>,
   incident_status_changed |-> <<<<"incidents">>>>,
   security_feed |-> <<<<"siem", "executive">>>>]

Covers(keys, key) == \E k \in keys : IsPrefix(k, key)

(* Whether a message names the key as its first or as a later one.         *)
Heard(key) ==
  {IF i = 1 THEN "first" ELSE "later" : i \in
     UNION {{j \in DOMAIN InvalidationByType[t] : IsPrefix(InvalidationByType[t][j], key)} : t \in DOMAIN InvalidationByType}}

Patches(act, q) ==
  \/ act.patches = "all" /\ IsPrefix(act.cancels, q.key)
  \/ act.patches = "lists" /\ IsPrefix(act.cancels, q.key) /\ q.keeps
  \/ act.patches = "exact" /\ act.cancels = q.key

(* Components that say "none" of what they have not read or could not     *)
(* read, and one that filters every row away.                              *)
FalselyEmpty ==
  {HostActivityList, HostAlertsList, HostOffensesList, HostEventCount, RelatedOffenseList, SavedSearchNone,
   TimelineList, TimelineDetail, UebaAnomalyList, AlertRuleList, RuleInsightList, CorrelationNone, ReferenceEntryList,
   PlaybookRunList, FeedOps, ViewsList, RiskyHosts, HostHealth, RawLog, RunnerHosts, BuilderHosts, BellList,
   EventRelated, IncidentDetailView} \cup OnboardingSteps

(* Mutations after which a component of the page keeps the old answer.     *)
LeavesStale == {View(HostCount, <<ShowsZero>>)} \X {HostCreate, HostDelete}

(* Mutations that report success after a failure.                          *)
DoneAnyway == {OffenseStatus, IncidentStatus}

(* What of a component and a mutation of its page the requests depend on;  *)
(* a mutation of other rows leaves the component alone.                    *)
Nothing == Act({}, {})

Course(v, a) ==
  [keeps |-> v.query.keeps, polled |-> v.query.polled, retries |-> v.query.retries, heard |-> Heard(v.query.key),
   touches |-> a.rows # {}, refetches |-> Covers(a.invalidates, v.query.key),
   cancels |-> a.cancels # <<>> /\ IsPrefix(a.cancels, v.query.key), patches |-> Patches(a, v.query),
   inList |-> a.patches = "exact", settles |-> a.settles, saysDone |-> a.saysDone, fansOut |-> a.fansOut,
   staysCurrent |-> <<v, a>> \notin LeavesStale, doneIsDone |-> a \notin DoneAnyway]

Meets(v, a) == IF a.rows \cap v.query.rows # {} THEN a ELSE Nothing

(* The frame is around every page.                                         *)
Pairs == UNION {{<<v, Meets(v, a)>> : v \in p.views \cup FramePage.views, a \in p.acts \cup {Nothing}} : p \in Pages}

(* What the component shows.                                               *)
Look(v) == [tests |-> v.tests, emptyIsKnown |-> v \notin FalselyEmpty]

(* A course, and the looks of the components that take it.                 *)
Scenes ==
  {[course |-> c, looks |-> {Look(x[1]) : x \in {y \in Pairs : Course(y[1], y[2]) = c}}] :
     c \in {Course(x[1], x[2]) : x \in Pairs}}
=============================================================================
