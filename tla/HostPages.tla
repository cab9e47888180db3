------------------------------ MODULE HostPages ------------------------------
(***************************************************************************)
(* What the pages for hosts read, show and change.                         *)
(***************************************************************************)
EXTENDS QueryClient

\* Queries
HostList == KeepsPrevious(Query(<<"hosts", "list">>, {"host"}))
HostDetail == Query(<<"hosts", "detail">>, {"host"})
HostRiskQuery == Query(<<"hosts", "risk">>, {"host"})
HostAlerts == Query(<<"alerts", "host">>, {"alert"})
HostEvents == Query(<<"events", "host">>, {"event"})
HostOffenses == Query(<<"offenses", "host">>, {"offense"})
HostMetrics == Query(<<"metrics", "host">>, {"metric"})
HostFlowStatus == Query(<<"hosts", "flow-status">>, {"host"})
HostAgentStatus == Polled(Query(<<"hosts", "agent-status">>, {"host"}))

\* Mutations
HostCreate == Act({"host"}, {<<"hosts">>})
HostDelete == Act({"host"}, {<<"hosts">>})
EnrollmentToken == Act({"token"}, {})

\* The list of hosts and the page of one host
HostTable == View(HostList, <<Waits, Faults, FindsNone>>)
HostsPage == Page({HostTable}, {HostCreate, EnrollmentToken})
HostDetailView == View(HostDetail, <<Waits, Faults, FaultsWithout>>)
HostEventCount == View(HostEvents, <<ShowsZero>>)
HostRiskSection == View(HostRiskQuery, <<Waits, FaultsWithout>>)
HostActivityList == View(HostEvents, <<Waits, FindsNone>>)
HostAlertsList == View(HostAlerts, <<Waits, FindsNone>>)
HostOffensesList == View(HostOffenses, <<Waits, FindsNone>>)
AgentStatusView == View(HostAgentStatus, <<Waits, FaultsWithout>>)
HostMetricsView == View(HostMetrics, <<Waits, FaultsWithout>>)
FlowStatusView == View(HostFlowStatus, <<Hides>>)
HostPage == Page({HostDetailView, HostEventCount, HostRiskSection, HostActivityList, HostAlertsList,
                  HostOffensesList, AgentStatusView, HostMetricsView, FlowStatusView},
                 {HostDelete, EnrollmentToken})

HostPageSet == {HostsPage, HostPage}
=============================================================================
