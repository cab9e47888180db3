----------------------------- MODULE EditorForms -----------------------------
(***************************************************************************)
(* The forms of the dashboard, one definition per form: what it edits, what *)
(* its inputs and its button do while a save is under way, what a save     *)
(* carries, and what becomes of the text when the save is sent, when it    *)
(* succeeds and when the user opens another record.                        *)
(***************************************************************************)
EXTENDS Integers

(* A form with an idle look of its own: its button is disabled while a     *)
(* save is under way, its inputs are not, and what is sent is what was     *)
(* there when the button was pressed.                                      *)
Form ==
  [own |-> TRUE,         \* it can be open without a record: to create one, or for the only one
   records |-> FALSE,    \* it can be open for one of several records
   folds |-> FALSE,      \* nothing is open until the user opens it
   closable |-> FALSE,   \* the user can cancel
   guards |-> TRUE,      \* no second save while one is under way
   locks |-> FALSE,      \* inputs are disabled while a save is under way
   pauses |-> TRUE,      \* useMutation: a save without a network waits for it
   sendsLatest |-> FALSE, \* a save that has waited sends the text of the latest render ...
   landsLatest |-> FALSE, \* ... to the record of the latest render
   onSubmit |-> "keeps", \* the text when the save is sent
   onDone |-> "clears",  \* the text when it succeeds
   onSwitch |-> "seeds", \* the text when another record is opened
   selected |-> FALSE,   \* the code opens a record too, and does not seed
   removal |-> "none",   \* a record can be deleted; when its editor is closed
   toggles |-> FALSE,    \* switching a record on or off ends like a save
   second |-> "none"]    \* a second request follows; its failure keeps or closes the form

Locked(f) == [f EXCEPT !.locks = TRUE]
Unguarded(f) == [f EXCEPT !.guards = FALSE]
Fetches(f) == [f EXCEPT !.pauses = FALSE]            \* no useMutation: fails at once without a network
Keeps(f) == [f EXCEPT !.onDone = "keeps"]
Closes(f) == [f EXCEPT !.onDone = "closes"]
Empties(f) == [f EXCEPT !.onSubmit = "clears"]       \* the inputs are emptied when the save is sent
Cancels(f) == [f EXCEPT !.closable = TRUE]
Folded(f) == [Cancels(f) EXCEPT !.folds = TRUE]
Latest(f) == [f EXCEPT !.sendsLatest = TRUE, !.landsLatest = TRUE]
LandsLatest(f) == [f EXCEPT !.landsLatest = TRUE]
PerRecord(f) == [f EXCEPT !.records = TRUE]
OneOfMany(f) == [f EXCEPT !.records = TRUE, !.own = FALSE]
Carries(f) == [f EXCEPT !.onSwitch = "keeps"]        \* the text stays when another record is opened
Selected(f) == [f EXCEPT !.selected = TRUE]
Toggles(f) == [f EXCEPT !.toggles = TRUE]
Leaves(f) == [f EXCEPT !.onSubmit = "closes"]        \* the form is closed when the save is sent
Removes(f, which) == [f EXCEPT !.removal = which]
Then(f, failure) == [f EXCEPT !.second = failure]


\* Alerts, incidents and cases
\* The set of checked rows; the shortcuts r and i look at no isPending.
AlertSelection == Cancels(Unguarded(Form))
IncidentSelection == Cancels(Unguarded(Form))
AlertNote == Form
CaseNote == Empties(Keeps(Carries(OneOfMany(Form))))
IncidentNote == Form

\* Mutant: the inputs are not disabled.
IncidentCreateOpen == Form

IncidentCreate == Locked(Form)
\* A question, with the alert or the offense that the panel is open for.
Assistant == Folded(LandsLatest(Locked(Empties(Keeps(Carries(PerRecord(Form)))))))

\* Hosts and simulation
AddHost == Folded(Then(Closes(Form), "closes"))
MaintenanceWindow == Latest(Form)
CustomChain == Keeps(Form)

\* Rules, intelligence and search
AlertRule == Locked(Latest(Form))
CorrelationRule == Cancels(Removes(Latest(Closes(PerRecord(Form))), "never"))
ReferenceSet == Latest(Form)

\* Mutant: the set that is deleted stays selected.
ReferenceDescriptionOfDeleted == Selected(Removes(Keeps(OneOfMany(Form)), "never"))

ReferenceDescription == Selected(Removes(Keeps(OneOfMany(Form)), "always"))
ReferenceEntries == Removes(Latest(Carries(OneOfMany(Form))), "always")
BuildingBlock == Latest(Form)

\* Mutant: the editor keeps the text when another block is opened.
BuildingBlockEditCarries == Cancels(Toggles(Removes(Closes(Carries(OneOfMany(Form))), "row")))

BuildingBlockEdit == Cancels(Toggles(Removes(Closes(OneOfMany(Form)), "row")))
NaturalSearch == Keeps(Form)
SearchSave == Form
SearchRename == Cancels(Unguarded(Removes(Leaves(Keeps(OneOfMany(Form))), "row")))

\* Settings and profile
TeamInvite == Latest(Form)
TeamProvision == Latest(Form)
Playbook == Latest(Form)
NotificationRule == Latest(Form)
\* A save is followed by the answer that reseeds the inputs.
Delivery == Latest(Form)
ProfileName == Keeps(Form)
Password == Latest(Form)
MfaEnable == Form
MfaDisable == Latest(Form)

\* Signing in: success leaves the page
Login == Fetches(Form)
MfaCode == Cancels(Fetches(Form))
Register == Then(Fetches(Form), "keeps")
AcceptInvite == Fetches(Form)
ForgotPassword == Fetches(Form)
ResetPassword == Fetches(Form)

(* The forms by their names.                                               *)
Looks ==
  [AlertSelection |-> AlertSelection, IncidentSelection |-> IncidentSelection,
   AlertNote |-> AlertNote, CaseNote |-> CaseNote, IncidentNote |-> IncidentNote,
   IncidentCreate |-> IncidentCreate, Assistant |-> Assistant, AddHost |-> AddHost,
   MaintenanceWindow |-> MaintenanceWindow, CustomChain |-> CustomChain, AlertRule |-> AlertRule,
   CorrelationRule |-> CorrelationRule, ReferenceSet |-> ReferenceSet,
   ReferenceDescription |-> ReferenceDescription, ReferenceEntries |-> ReferenceEntries,
   BuildingBlock |-> BuildingBlock, BuildingBlockEdit |-> BuildingBlockEdit,
   NaturalSearch |-> NaturalSearch, SearchSave |-> SearchSave, SearchRename |-> SearchRename,
   TeamInvite |-> TeamInvite, TeamProvision |-> TeamProvision, Playbook |-> Playbook,
   NotificationRule |-> NotificationRule, Delivery |-> Delivery, ProfileName |-> ProfileName,
   Password |-> Password, MfaEnable |-> MfaEnable, MfaDisable |-> MfaDisable, Login |-> Login,
   MfaCode |-> MfaCode, Register |-> Register, AcceptInvite |-> AcceptInvite,
   ForgotPassword |-> ForgotPassword, ResetPassword |-> ResetPassword]

Forms == DOMAIN Looks
=============================================================================
