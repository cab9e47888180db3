----------------------------- MODULE AdminPages -----------------------------
(***************************************************************************)
(* What the pages for settings, rules, indicators, reports, maintenance,   *)
(* the audit log and the system itself read, show and change.              *)
(***************************************************************************)
EXTENDS QueryClient

\* Reports and the audit log
ReportSummary == Query(<<"reports", "summary">>, {"host", "alert"})
ReportSummaryView == View(ReportSummary, <<Faults, Waits, Hides, FindsNone>>)
ReportExport == Act({}, {})
ReportsPage == Page({ReportSummaryView}, {ReportExport})
AuditEntries == Query(<<"audit">>, {"entry"})
AuditTable == View(AuditEntries, <<Waits, Faults, FindsNone>>)
AuditIntegrity == Polled(Query(<<"audit-integrity">>, {"entry"}))
AuditIntegrityPanel == View(AuditIntegrity, <<Waits, Faults, FaultsWithout>>)
AuditPage == Page({AuditTable, AuditIntegrityPanel}, {})

\* Settings
PublicSettings == Query(<<"settings", "public">>, {"setting"})
SystemTab == View(PublicSettings, <<Faults, Waits, Hides>>)
TeamUsers == Query(<<"admin", "users">>, {"user"})
TeamInvites == Query(<<"admin", "user-invites">>, {"invite"})
TeamProvision == Act({"user"}, {<<"admin", "users">>})
TeamInvite == Act({"invite"}, {<<"admin", "user-invites">>})
TeamUpdate == Act({"user"}, {<<"admin", "users">>})
TeamRevoke == Act({"invite"}, {<<"admin", "user-invites">>})
TeamDelete == Act({"user"}, {<<"admin", "users">>})
TeamInviteList == View(TeamInvites, <<Hides, HidesNone>>)
TeamTable == View(TeamUsers, <<Faults, Waits, FindsNone>>)
Playbooks == Query(<<"playbooks">>, {"playbook"})
PlaybookRuns == Query(<<"playbook-runs">>, {"playbook run"})
PlaybookCreate == Act({"playbook"}, {<<"playbooks">>})
PlaybookToggle == Act({"playbook"}, {<<"playbooks">>})
PlaybookTest == Act({"playbook run"}, {<<"playbook-runs">>})
PlaybookDelete == Act({"playbook"}, {<<"playbooks">>})
PlaybookList == View(Playbooks, <<Faults, Waits, FindsNone>>)
\* The list of runs is empty until it has been read.
PlaybookRunList == View(PlaybookRuns, <<FindsNone>>)
NotificationRules == Query(<<"notification-rules">>, {"rule"})
NotificationRuleCreate == Act({"rule"}, {<<"notification-rules">>})
NotificationRuleToggle == Act({"rule"}, {<<"notification-rules">>})
NotificationRuleDelete == Act({"rule"}, {<<"notification-rules">>})
NotificationRuleList == View(NotificationRules, <<Waits, Faults, FindsNone>>)
DeliverySettings == Query(<<"notification-settings">>, {"channel"})
DeliverySave == Act({"channel"}, {<<"notification-settings">>})
DeliveryPanel == View(DeliverySettings, <<Waits, Faults, Hides>>)
SettingsPage == Page({SystemTab, TeamInviteList, TeamTable, PlaybookList, PlaybookRunList, NotificationRuleList, DeliveryPanel},
       {TeamProvision, TeamInvite, TeamUpdate, TeamRevoke, TeamDelete, PlaybookCreate, PlaybookToggle, PlaybookTest,
        PlaybookDelete, NotificationRuleCreate, NotificationRuleToggle, NotificationRuleDelete, DeliverySave})

\* The user's own account
Me == Query(<<"auth", "me">>, {"me", "mfa"})
MeSave == Act({"me"}, {<<"auth", "me">>})
ProfileView == View(Me, <<Waits, Faults, Hides>>)
MfaStatus == Query(<<"mfa-status">>, {"mfa"})
MfaEnable == Act({"mfa"}, {<<"mfa-status">>, <<"auth", "me">>})
MfaDisable == Act({"mfa"}, {<<"mfa-status">>, <<"auth", "me">>})
\* Without a status it offers to set the second factor up.
MfaPanelView == View(MfaStatus, <<Waits, Faults, FindsNone>>)
ProfilePage == Page({ProfileView, MfaPanelView}, {MeSave, MfaEnable, MfaDisable})

\* Rules
AlertRules == Query(<<"alert-rules">>, {"rule"})
AlertRuleToggle == Optimistic(Act({"rule"}, {<<"alert-rules">>}), <<"alert-rules">>, "exact")
AlertRuleCreate == Act({"rule"}, {<<"alert-rules">>})
\* A failed load has no branch: the list is empty.
AlertRuleList == View(AlertRules, <<Waits, FindsNone>>)
RuleInsights == Query(<<"alert-rules", "feedback-insights">>, {"rule", "feedback"})
RuleTuning == Act({"rule"}, {<<"alert-rules">>, <<"alert-rules", "feedback-insights">>})
RuleInsightList == View(RuleInsights, <<Waits, FindsNone>>)
CorrelationRules == Query(<<"correlation-rules">>, {"correlation"})
CorrelationSave == Act({"correlation"}, {<<"correlation-rules">>})
CorrelationToggle == Act({"correlation"}, {<<"correlation-rules">>})
CorrelationDelete == Act({"correlation"}, {<<"correlation-rules">>})
CorrelationList == View(CorrelationRules, <<Waits, Faults, Hides>>)
\* The sentence that there are none stands beside the error.
CorrelationNone == View(CorrelationRules, <<HidesLoading, FindsNone>>)
RulesPage == Page({AlertRuleList, RuleInsightList, CorrelationList, CorrelationNone},
       {AlertRuleToggle, AlertRuleCreate, RuleTuning, CorrelationSave, CorrelationToggle, CorrelationDelete})

\* Indicators
ReferenceSets == Query(<<"reference-sets">>, {"set", "entry"})
ReferenceEntries == Query(<<"reference-sets", "entries">>, {"entry"})
ReferenceSetCreate == Act({"set"}, {<<"reference-sets">>})
ReferenceSetUpdate == Act({"set"}, {<<"reference-sets">>})
ReferenceSetDelete == Act({"set"}, {<<"reference-sets">>})
FeedSync == Act({"set", "entry"}, {<<"reference-sets">>})
EntriesAdd == Act({"entry"}, {<<"reference-sets">>})
EntryDelete == Act({"entry"}, {<<"reference-sets">>})
ReferenceSetList == View(ReferenceSets, <<Faults, Waits, FindsNone>>)
\* The entries of the chosen set are none until they have been read.
ReferenceEntryList == View(ReferenceEntries, <<FindsNone>>)
FeedSyncAll == FansOut(Act({"set", "entry"}, {<<"reference-sets">>}))
FeedOps == View(ReferenceSets, <<Waits, FindsNone>>)
BuildingBlocks == Query(<<"building-blocks">>, {"block"})
BlockCreate == Act({"block"}, {<<"building-blocks">>})
BlockUpdate == Act({"block"}, {<<"building-blocks">>})
BlockDelete == Act({"block"}, {<<"building-blocks">>})
BlockList == View(BuildingBlocks, <<Faults, Waits, FindsNone>>)
IntelPage == Page({ReferenceSetList, ReferenceEntryList, FeedOps, BlockList},
       {ReferenceSetCreate, ReferenceSetUpdate, ReferenceSetDelete, FeedSync, EntriesAdd, EntryDelete, FeedSyncAll,
        BlockCreate, BlockUpdate, BlockDelete})

\* Maintenance
MaintenanceWindows == Query(<<"maintenance-windows">>, {"window"})
WindowCreate == Act({"window"}, {<<"maintenance-windows">>})
WindowDelete == Act({"window"}, {<<"maintenance-windows">>})
WindowList == View(MaintenanceWindows, <<Waits, Faults, FindsNone>>)
MaintenancePage == Page({WindowList}, {WindowCreate, WindowDelete})

\* The system
SystemHealth == Polled(Query(<<"system", "health">>, {"component"}))
SystemStats == Polled(Query(<<"system", "stats">>, {"host", "alert"}))
SystemPipeline == Polled(Query(<<"system", "pipeline">>, {"component"}))
StatsCards == View(SystemStats, <<Faults, Waits, ShowsZero>>)
PipelineMap == View(SystemPipeline, <<Faults, Waits, Hides>>)
ReadinessSection == View(SystemHealth, <<Faults, Waits, Hides>>)
Circuits == Polled(Query(<<"system", "circuits">>, {"component"}))
AnalyticsViews == Polled(Query(<<"system", "analytics-mvs">>, {"mv"}))
ViewsRefresh == Act({"mv"}, {<<"system", "analytics-mvs">>})
Backfill == Act({}, {})
CircuitList == View(Circuits, <<Waits, Faults, FindsNone>>)
\* A failed load shows as no views at all.
ViewsList == View(AnalyticsViews, <<ShowsZero>>)
ComponentHealth == Polled(Query(<<"system", "health", "components">>, {"component"}))
ComponentStatusPanel == View(ComponentHealth, <<Waits, Faults, FaultsWithout>>)
Backups == Query(<<"backups">>, {"backup"})
BackupRun == Act({"backup"}, {<<"backups">>})
BackupPanel == View(Backups, <<Waits, Faults, Hides, FindsNone>>)
SystemPage == Page({StatsCards, PipelineMap, ReadinessSection, CircuitList, ViewsList, ComponentStatusPanel, BackupPanel},
       {ViewsRefresh, Backfill, BackupRun})

\* Notifications
NotificationHistory == KeepsPrevious(Query(<<"notifications", "history">>, {"notice"}))
UnreadCount == Polled(Query(<<"notifications", "unread-count">>, {"notice"}))
MarkRead == Act({"notice"}, {<<"notifications">>})
MarkAllRead == Act({"notice"}, {<<"notifications">>})
NotificationList == View(NotificationHistory, <<Waits, Faults, FindsNone>>)
NotificationsPage == Page({NotificationList}, {MarkRead, MarkAllRead})

AdminPageSet ==
  {ReportsPage, AuditPage, SettingsPage, ProfilePage, RulesPage, IntelPage, MaintenancePage, SystemPage,
   NotificationsPage}
=============================================================================
