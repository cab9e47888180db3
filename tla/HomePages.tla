------------------------------ MODULE HomePages ------------------------------
(***************************************************************************)
(* What the dashboard, the Attack Lab and the frame around every page      *)
(* read, show and change.                                                  *)
(***************************************************************************)
EXTENDS QueryClient

\* The dashboard
ActiveThreatsQuery == KeepsPrevious(Query(<<"alerts", "active">>, {"alert"}))
ActiveThreats == View(ActiveThreatsQuery, <<Waits, FaultsNoData, FindsNone>>)
RecentOffensesQuery == KeepsPrevious(Query(<<"offenses", "dashboard">>, {"offense"}))
RecentOffenses == View(RecentOffensesQuery, <<Waits, FaultsNoData, FindsNone>>)
SiemQuery == KeepsPrevious(Query(<<"siem", "executive">>, {"event", "alert", "host"}))
SeverityQuery == KeepsPrevious(Query(<<"siem", "severity-distribution">>, {"alert"}))
SeverityBreakdown == View(SeverityQuery, <<Waits, FaultsNoData, FindsNone>>)
RiskyHostsQuery == KeepsPrevious(Query(<<"siem", "top-risky-hosts">>, {"host"}))
HostRiskPanel == View(RiskyHostsQuery, <<Waits, FaultsNoData, FindsNone>>)
AttackTimelinesQuery == KeepsPrevious(Query(<<"siem", "attack-timelines">>, {"timeline"}))
AttackTimelines == View(AttackTimelinesQuery, <<Waits, FaultsNoData, FindsNone>>)
AlertTrendChart == View(SiemQuery, <<Waits, FaultsNoData, FindsNone>>)
\* data! without data throws into the ErrorBoundary.
SecurityKpis == View(SiemQuery, <<Waits, FaultsNoData, Breaks>>)
HomeHealth == Query(<<"system", "health", "components">>, {"component"})
SystemHealthPanel == View(HomeHealth, <<Waits, Faults, FaultsWithout>>)
DashboardPage == Page({ActiveThreats, RecentOffenses, SeverityBreakdown, HostRiskPanel, AttackTimelines, AlertTrendChart,
                      SecurityKpis, SystemHealthPanel}, {})

\* The Attack Lab
HostOptions == Query(<<"hosts", "options">>, {"host"})
Scenarios == AsksOnce(Query(<<"simulation", "scenarios">>, {"scenario"}))
SimulationRuns == Query(<<"simulation", "runs">>, {"run"})
Readiness == Polled(Query(<<"simulation", "readiness">>, {"component"}))
RawLogSeed == Query(<<"events", "raw-tail">>, {"event"})
EventTypes == Query(<<"simulation", "event-types">>, {"scenario"})
AfterRun == {<<"alerts">>, <<"events">>, <<"offenses">>, <<"siem">>, <<"timelines">>, <<"simulation", "runs">>}
RunScenario == Act({"event", "alert", "offense", "offense total", "timeline", "run"}, AfterRun)
RunCustom == Act({"event", "alert", "offense", "offense total", "timeline", "run"}, AfterRun)
PurgeRuns == Act({"event", "alert", "timeline", "run"}, AfterRun \cup {<<"simulation">>})
ReplayRun == Act({"event", "alert", "offense", "offense total", "timeline", "run"}, AfterRun)
ResetRun == Act({"event", "alert", "timeline", "run"}, AfterRun \cup {<<"simulation">>})
LabView == View(Scenarios, <<Waits, Faults, FindsNone>>)
RunHistory == View(SimulationRuns, <<Waits, Faults, FindsNone>>)
ReadinessPanel == View(Readiness, <<Waits, Faults, FaultsWithout>>)
RawLog == View(RawLogSeed, <<FindsNone>>)
RunnerHosts == View(HostOptions, <<Waits, FindsNone>>)
BuilderHosts == View(HostOptions, <<Waits, FindsNone>>)
AttackLabPage == Page({LabView, RunHistory, ReadinessPanel, RawLog, RunnerHosts, BuilderHosts},
                      {RunScenario, RunCustom, PurgeRuns, ReplayRun, ResetRun})

\* The frame around every page
BellHistory == KeepsPrevious(Query(<<"notifications", "history">>, {"notice"}))
BellMarkRead == Act({"notice"}, {<<"notifications">>})
\* No notifications until they have been read.
BellList == View(BellHistory, <<FindsNone>>)
FlagSettings == Query(<<"settings", "public">>, {"setting"})
FlaggedParts == View(FlagSettings, <<Hides>>)
DemoNotice == View(FlagSettings, <<Hides>>)
HostCount == Query(<<"overview">>, {"host"})
RunCount == AsksOnce(Query(<<"simulation", "runs", "count">>, {"run"}))
InvestigatingCount == Query(<<"alerts", "count", "investigating">>, {"alert"})
ResolvedCount == Query(<<"alerts", "count", "resolved">>, {"alert"})
OffenseCount == Query(<<"offenses", "count">>, {"offense total"})
IncidentCount == Query(<<"incidents", "count">>, {"incident"})
OnboardingChannels == Query(<<"notification-settings">>, {"channel"})
\* A count that is not known yet, or could not be read, counts as nothing done.
OnboardingSteps == {View(q, <<ShowsZero>>) : q \in {HostCount, RunCount, InvestigatingCount, ResolvedCount, OffenseCount,
                                         IncidentCount, OnboardingChannels}}
FramePage == Page({BellList, FlaggedParts, DemoNotice} \cup OnboardingSteps, {BellMarkRead})

HomePageSet == {DashboardPage, AttackLabPage, FramePage}
=============================================================================
