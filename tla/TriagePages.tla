----------------------------- MODULE TriagePages -----------------------------
(***************************************************************************)
(* What the pages for alerts, offenses, incidents and cases read, show and *)
(* change.  One definition per query, per view and per mutation.           *)
(***************************************************************************)
EXTENDS QueryClient

\* Alerts: queries
AlertList == KeepsPrevious(Query(<<"alerts", "list">>, {"alert"}))
AlertInvestigation == Query(<<"alerts", "investigation">>, {"alert", "event", "timeline"})
AlertAiSummary == Query(<<"alerts", "ai-summary">>, {"alert"})
PaneInvestigation == Query(<<"alerts", "investigation">>, {"alert", "event", "timeline"})
PaneAiSummary == Query(<<"alerts", "ai-summary">>, {"alert"})
RelatedOffenses == Query(<<"offenses", "related">>, {"offense"})
AlertRuleOf == Query(<<"alert-rules", "one">>, {"rule"})

\* Alerts: mutations

\* Mutant: what the page does on success is called when the mutation settles.
AlertStatusAnyway == SaysDoneAnyway(Optimistic(Act({"alert"}, {<<"alerts">>}), <<"alerts">>, "lists"))

AlertStatus == Optimistic(Act({"alert"}, {<<"alerts">>}), <<"alerts">>, "lists")

\* Mutant: the list is not read again.
AlertBulkForgets == Act({"alert"}, {})

AlertBulk == Act({"alert"}, {<<"alerts">>})
AlertFeedback == Act({"alert"}, {<<"alerts">>, <<"alerts", "investigation">>})
PaneFeedback == Act({"alert"}, {<<"alerts">>, <<"alerts", "investigation">>})

\* Alerts: the page of one alert

\* Mutant: the spinner for as long as there is no data, before the error is looked at.
AlertDetailSpins == View(AlertInvestigation, <<<<"unknown", "wait">>, Faults>>)

AlertDetailView == View(AlertInvestigation, <<Waits, Faults, FaultsWithout>>)
HostInfo == Inside(AlertDetailView, <<FindsNone>>)
AttackStory == Inside(AlertDetailView, <<FindsNone>>)
AlertEvents == Inside(AlertDetailView, <<FindsNone>>)
AlertMitre == Inside(AlertDetailView, <<FindsNone>>)
DetectionRule == View(AlertRuleOf, <<FaultsWithout>>)
\* The answer is filtered by comparing the alert's id with the host's and the offense's: nothing is left.
RelatedOffenseList == View(RelatedOffenses, <<Waits, AlwaysNone>>)
AiSummarySection == View(AlertAiSummary, <<Waits, HidesError, Hides>>)
AlertDetailPage == Page({AlertDetailView, HostInfo, AttackStory, AlertEvents, AlertMitre, DetectionRule,
                         RelatedOffenseList, AiSummarySection}, {AlertStatus, AlertFeedback})

\* Alerts: the list and its pane

\* Mutant: data ?? [] without the branches for the load and the error.
AlertTableUnread == View(AlertList, <<FindsNone>>)

AlertTable == View(AlertList, <<Waits, Faults, FindsNone>>)
InvestigationPane == View(PaneInvestigation, <<Waits, Faults, Hides>>)
PaneAiPanel == View(PaneAiSummary, <<Hides>>)
PaneEvents == Inside(InvestigationPane, <<FindsNone>>)
PaneTimelines == Inside(InvestigationPane, <<FindsNone>>)
AlertsPage == Page({AlertTable, InvestigationPane, PaneAiPanel, PaneEvents, PaneTimelines},
                   {AlertStatus, AlertBulk, PaneFeedback})

\* Offenses
OffenseList == KeepsPrevious(Query(<<"offenses", "list">>, {"offense"}))
OffenseDetail == Query(<<"offenses", "detail">>, {"offense", "alert"})
\* onSettled calls the caller's onSuccess, after a failure too.
OffenseStatus == SaysDoneAnyway(Optimistic(Act({"offense"}, {<<"offenses">>}), <<"offenses">>, "lists"))
OffensePromote == Act({"offense", "incident"}, {<<"offenses">>, <<"incidents">>})
OffenseTable == View(OffenseList, <<Waits, Faults, FindsNone>>)
OffenseInline == View(OffenseDetail, <<Waits, Faults, FaultsWithout>>)
OffenseDetailView == View(OffenseDetail, <<Waits, Faults, FaultsWithout>>)
OffenseEvents == Inside(OffenseInline, <<FindsNone>>)
OffenseAlerts == Inside(OffenseInline, <<FindsNone>>)
OffenseActions == {OffenseStatus, OffensePromote}
OffensesPage == Page({OffenseTable, OffenseInline, OffenseEvents, OffenseAlerts}, OffenseActions)
OffensePage == Page({OffenseDetailView, OffenseEvents, OffenseAlerts}, OffenseActions)

\* Incidents
IncidentList == KeepsPrevious(Query(<<"incidents", "list">>, {"incident"}))
IncidentDetail == Query(<<"incidents", "detail">>, {"incident", "note"})
IncidentCreate == Act({"incident"}, {<<"incidents">>})
IncidentStatus == SaysDoneAnyway(Optimistic(Act({"incident"}, {<<"incidents">>, <<"incidents", "detail">>}), <<"incidents">>, "all"))
\* One request per incident; the mutation fails only when all of them do.
IncidentBulk == FansOut(Settling(Act({"incident"}, {<<"incidents">>})))
IncidentAddNote == Act({"note"}, {<<"incidents", "detail">>})
IncidentTable == View(IncidentList, <<Waits, Faults, FindsNone>>)
IncidentPane == View(IncidentDetail, <<Waits, Faults, FaultsWithout>>)
IncidentAlerts == Inside(IncidentPane, <<FindsNone>>)
IncidentNotesList == Inside(IncidentPane, <<FindsNone>>)
IncidentsPage == Page({IncidentTable, IncidentPane, IncidentAlerts, IncidentNotesList}, {IncidentStatus, IncidentBulk, IncidentAddNote})
\* The folder is [id] and the page reads the parameter incidentId: there is never an id.
IncidentDetailView == View(IncidentDetail, <<AlwaysNone, Waits, Faults, FaultsWithout>>)
IncidentPage == Page({IncidentDetailView}, {IncidentStatus, IncidentAddNote})

\* The case workspace
Workspace == Query(<<"investigation", "workspace">>, {"alert", "offense", "incident", "note", "event", "timeline"})
WorkspaceAlertStatus == Act({"alert"}, {<<"investigation">>, <<"alerts">>, <<"alerts", "count", "investigating">>,
                                    <<"alerts", "count", "resolved">>})
WorkspaceOffenseStatus == Act({"offense"}, {<<"investigation">>, <<"offenses">>})
WorkspaceIncidentStatus == Act({"incident"}, {<<"investigation">>, <<"incidents">>})
WorkspaceAssign == Act({"incident"}, {<<"investigation">>, <<"incidents">>})
WorkspacePromote == Act({"offense", "incident"}, {<<"investigation">>, <<"incidents">>, <<"incidents", "count">>})
WorkspaceNote == Act({"note"}, {<<"investigation">>, <<"incidents">>})
CaseView == View(Workspace, <<Waits, Faults, Hides, FindsNone>>)
CaseAlert == Inside(CaseView, <<Hides>>)
CaseOffense == Inside(CaseView, <<Hides>>)
CaseIncident == Inside(CaseView, <<Hides>>)
CaseTimeline == Inside(CaseView, <<HidesNone>>)
CasePage == Page({CaseView, CaseAlert, CaseOffense, CaseIncident, CaseTimeline},
                 {WorkspaceAlertStatus, WorkspaceOffenseStatus, WorkspaceIncidentStatus, WorkspaceAssign,
                  WorkspacePromote, WorkspaceNote})
CasePicker == Query(<<"alerts", "workspace-picker">>, {"alert"})
CasePickerList == View(CasePicker, <<HidesNone>>)
CaseStartPage == Page({CasePickerList}, {})
IocLookup == AsksOnce(Query(<<"ioc">>, {}))
IocResult == View(IocLookup, <<Waits, Faults, Hides, FindsNone>>)
IocPage == Page({IocResult}, {})

\* Events
EventList == KeepsPrevious(Query(<<"events">>, {"event"}))
EventTable == View(EventList, <<Waits, Faults, FindsNone>>)
\* The drawer renders it without its lists.
EventRelated == View(EventList, <<AlwaysNone>>)
EventsPage == Page({EventTable, EventRelated}, {})
HostRisk == Query(<<"host-risk">>, {"host"})
HostRiskView == View(HostRisk, <<Waits, Faults, Hides, FindsNone>>)

TriagePageSet ==
  {AlertDetailPage, AlertsPage, OffensesPage, OffensePage, IncidentsPage, IncidentPage, CasePage, CaseStartPage,
   IocPage, EventsPage}
=============================================================================
