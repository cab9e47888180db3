---------------------------- MODULE InsightPages ----------------------------
(***************************************************************************)
(* What the pages for search, timelines, techniques, behaviour and charts  *)
(* read, show and change.                                                  *)
(***************************************************************************)
EXTENDS QueryClient

\* Search
SiemSearch == Query(<<"search", "siem">>, {"event", "alert"})
GlobalSearch == Query(<<"search", "global">>, {"host", "alert", "event"})
SiemResults == View(SiemSearch, <<Waits, Faults, Hides, FindsNone>>)
GlobalResults == View(GlobalSearch, <<Waits, Faults, Hides, FindsNone>>)
SavedSearches == Query(<<"saved-searches">>, {"search"})
SearchSave == Act({"search"}, {<<"saved-searches">>})
SearchUpdate == Act({"search"}, {<<"saved-searches">>})
SearchDelete == Act({"search", "layout"}, {<<"saved-searches">>, <<"dashboard-layout">>})
SearchPin == Act({"layout"}, {<<"dashboard-layout">>})
SavedSearchList == View(SavedSearches, <<Waits, Faults, Hides>>)
\* The sentence that there are none stands beside the error.
SavedSearchNone == View(SavedSearches, <<HidesLoading, FindsNone>>)
SearchPage == Page({SiemResults, GlobalResults, SavedSearchList, SavedSearchNone},
                   {SearchSave, SearchUpdate, SearchDelete, SearchPin})

\* Timelines
Timelines == KeepsPrevious(Query(<<"timelines">>, {"timeline"}))
TimelineEvents == Query(<<"timeline-events">>, {"timeline"})
TimelineList == View(Timelines, <<Waits, FindsNone>>)
TimelineNone == View(Timelines, <<Faults, HidesLoading, FindsNone>>)
TimelineDetail == View(TimelineEvents, <<Waits, FindsNone>>)
TimelinePage == Page({TimelineList, TimelineNone, TimelineDetail}, {})

\* Techniques
MitreMatrix == Query(<<"mitre", "matrix">>, {"event"})
MitreTechnique == Query(<<"mitre", "drilldown">>, {"event", "alert"})
MitreMatrixView == View(MitreMatrix, <<Waits, Faults, Hides, FindsNone>>)
MitreDrilldown == View(MitreTechnique, <<Waits, Hides, FindsNone>>)
MitrePage == Page({MitreMatrixView, MitreDrilldown}, {})

\* Behaviour
UebaSummary == Query(<<"ueba", "summary">>, {"anomaly"})
UebaAnomalies == KeepsPrevious(Query(<<"ueba", "anomalies">>, {"anomaly"}))
UebaScan == Act({"anomaly"}, {<<"ueba">>})
UebaUpdate == Act({"anomaly"}, {<<"ueba">>})
UebaAnomalyList == View(UebaAnomalies, <<Waits, FindsNone>>)
UebaPage == Page({UebaAnomalyList}, {UebaScan, UebaUpdate})
PanelAnomalies == Query(<<"ueba", "anomalies">>, {"anomaly"})
PanelScan == Act({"anomaly"}, {<<"ueba">>})
PanelUpdate == Act({"anomaly"}, {<<"ueba">>})
UebaAnomaliesPanel == View(PanelAnomalies, <<Faults, Waits, FindsNone>>)

\* Charts
ChartQuery == KeepsPrevious(Query(<<"siem">>, {"event", "alert", "host"}))
TrendChart == View(ChartQuery, <<Faults, Waits, <<"unknown", "wait">>>>)
SeverityChart == View(ChartQuery, <<Faults, Waits, <<"unknown", "wait">>>>)
TypeCharts == View(ChartQuery, <<Faults, Waits, Hides>>)
\* There is no branch for the load: the list is empty until it has answered.
RiskyHosts == View(ChartQuery, <<Faults, FindsNone>>)
HostHealth == View(ChartQuery, <<Faults, FindsNone>>)
AnalyticsSummary == Query(<<"analytics", "summary">>, {"event", "alert"})
AnalyticsSummaryPanel == View(AnalyticsSummary, <<Waits, Faults, ShowsZero>>)
AnalyticsRetention == Query(<<"analytics", "retention">>, {"event", "alert"})
AnalyticsRetentionPanel == View(AnalyticsRetention, <<Waits, Faults, Hides, FindsNone>>)
HostRiskTrends == View(ChartQuery, <<Waits, Faults, Hides>>)
ThreatScores == Query(<<"threat-scores">>, {"host"})
ThreatScoresPanel == View(ThreatScores, <<Waits, Faults, FindsNone>>)
AnalyticsPage == Page({UebaAnomaliesPanel, AnalyticsSummaryPanel, HostRiskTrends, ThreatScoresPanel, AnalyticsRetentionPanel,
                       TrendChart, SeverityChart, TypeCharts, RiskyHosts, HostHealth}, {PanelScan, PanelUpdate})
MetricSeries == Polled(Query(<<"metrics", "series">>, {"metric"}))
MetricChart == View(MetricSeries, <<Faults, Waits, FindsNone>>)
MetricsPage == Page({MetricChart}, {})
Topology == Query(<<"network-topology">>, {"host"})
TopologyView == View(Topology, <<Waits, Faults, FindsNone>>)
NetworkPage == Page({TopologyView}, {})

InsightPageSet ==
  {SearchPage, TimelinePage, MitrePage, UebaPage, AnalyticsPage, MetricsPage, NetworkPage}
=============================================================================
