--------------------------- MODULE EditorsProofs ---------------------------
(***************************************************************************)
(* The properties of Editors for any words, any records and any number of  *)
(* saves.  What they rest on is of two kinds: facts of the table of forms, *)
(* collected in Fits and read off form by form, and an inductive invariant *)
(* that is the same for every form.                                        *)
(***************************************************************************)
EXTENDS Editors, TLAPS

-----------------------------------------------------------------------------
(* The table of forms.                                                     *)

(* A form is the only one of its page: it stays open for its only row.     *)
Lone(l) == l.own /\ ~l.records /\ ~l.folds

(* What the proofs need to know of form f, which looks like l:             *)
(*   - unless it carries text over, it empties its inputs for every other  *)
(*     record, and a save that has waited takes both the text and the      *)
(*     record from the latest render, or neither;                          *)
(*   - only KeepsDeleted forms leave the editor of a deleted record open;  *)
(*   - only LosesRefused forms empty their inputs when a save is sent;     *)
(*   - where a waiting save sends the latest text, that text is the one it *)
(*     was sent with: nothing takes it out of the inputs meanwhile;        *)
(*   - where the code empties inputs with words that no save carries, the  *)
(*     form is in WipesLater, unless the inputs were disabled;             *)
(*   - what was sent, or was done by halves, does not stay in the inputs.  *)
Fits(f, l) ==
  /\ f \notin SavesElsewhere => l.onSwitch = "seeds" /\ ~l.selected /\ (l.sendsLatest <=> l.landsLatest)
  /\ l.removal = "never" => f \in KeepsDeleted
  /\ l.onSubmit # "keeps" => f \in LosesRefused
  /\ l.sendsLatest =>
       /\ f \notin LosesRefused
       /\ \/ f \in SwapsPaused
          \/ /\ l.guards /\ ~l.closable /\ ~l.toggles /\ l.second # "closes" /\ l.removal # "row"
             /\ l.onSwitch # "seeds" \/ (Lone(l) /\ l.removal = "none")
  /\ l.toggles \/ l.second = "closes" \/ (l.removal = "always" /\ l.onSwitch = "seeds") => f \in WipesLater
  /\ l.onDone # "keeps" => f \in WipesLater \/ (l.guards /\ l.locks)
  /\ f \notin SendsTwice =>
       /\ l.second # "none" => l.second = "closes"
       /\ ~l.guards => l.onSubmit # "keeps" /\ ~l.sendsLatest

Look ==
  [own : BOOLEAN, records : BOOLEAN, folds : BOOLEAN, closable : BOOLEAN, guards : BOOLEAN, locks : BOOLEAN,
   pauses : BOOLEAN, sendsLatest : BOOLEAN, landsLatest : BOOLEAN,
   onSubmit : {"keeps", "clears", "closes"}, onDone : {"clears", "keeps", "closes"}, onSwitch : {"seeds", "keeps"},
   selected : BOOLEAN, removal : {"none", "row", "always", "never"}, toggles : BOOLEAN, second : {"none", "keeps", "closes"}]

(* l and m differ in these fields only.                                    *)
Alters(l, m, fields) ==
  /\ m \in Look
  /\ "own" \in fields \/ m.own = l.own
  /\ "records" \in fields \/ m.records = l.records
  /\ "folds" \in fields \/ m.folds = l.folds
  /\ "closable" \in fields \/ m.closable = l.closable
  /\ "guards" \in fields \/ m.guards = l.guards
  /\ "locks" \in fields \/ m.locks = l.locks
  /\ "pauses" \in fields \/ m.pauses = l.pauses
  /\ "sendsLatest" \in fields \/ m.sendsLatest = l.sendsLatest
  /\ "landsLatest" \in fields \/ m.landsLatest = l.landsLatest
  /\ "onSubmit" \in fields \/ m.onSubmit = l.onSubmit
  /\ "onDone" \in fields \/ m.onDone = l.onDone
  /\ "onSwitch" \in fields \/ m.onSwitch = l.onSwitch
  /\ "selected" \in fields \/ m.selected = l.selected
  /\ "removal" \in fields \/ m.removal = l.removal
  /\ "toggles" \in fields \/ m.toggles = l.toggles
  /\ "second" \in fields \/ m.second = l.second

(* What each constructor of the table changes.                             *)
LEMMA IdleLook == Form \in Look
  BY DEF Form, Look

LEMMA LockedLook == \A l \in Look : Alters(l, Locked(l), {"locks"}) /\ Locked(l).locks = TRUE
  BY DEF Look, Alters, Locked

LEMMA UnguardedLook == \A l \in Look : Alters(l, Unguarded(l), {"guards"}) /\ Unguarded(l).guards = FALSE
  BY DEF Look, Alters, Unguarded

LEMMA FetchesLook == \A l \in Look : Alters(l, Fetches(l), {"pauses"}) /\ Fetches(l).pauses = FALSE
  BY DEF Look, Alters, Fetches

LEMMA KeepsLook == \A l \in Look : Alters(l, Keeps(l), {"onDone"}) /\ Keeps(l).onDone = "keeps"
  BY DEF Look, Alters, Keeps

LEMMA ClosesLook == \A l \in Look : Alters(l, Closes(l), {"onDone"}) /\ Closes(l).onDone = "closes"
  BY DEF Look, Alters, Closes

LEMMA EmptiesLook == \A l \in Look : Alters(l, Empties(l), {"onSubmit"}) /\ Empties(l).onSubmit = "clears"
  BY DEF Look, Alters, Empties

LEMMA CancelsLook == \A l \in Look : Alters(l, Cancels(l), {"closable"}) /\ Cancels(l).closable = TRUE
  BY DEF Look, Alters, Cancels

LEMMA FoldedLook == \A l \in Look : Alters(l, Folded(l), {"closable", "folds"}) /\ Folded(l).closable = TRUE /\ Folded(l).folds = TRUE
  BY DEF Look, Alters, Folded, Cancels

LEMMA LatestLook == \A l \in Look :
          Alters(l, Latest(l), {"sendsLatest", "landsLatest"}) /\ Latest(l).sendsLatest = TRUE /\ Latest(l).landsLatest = TRUE
  BY DEF Look, Alters, Latest

LEMMA LandsLatestLook == \A l \in Look : Alters(l, LandsLatest(l), {"landsLatest"}) /\ LandsLatest(l).landsLatest = TRUE
  BY DEF Look, Alters, LandsLatest

LEMMA PerRecordLook == \A l \in Look : Alters(l, PerRecord(l), {"records"}) /\ PerRecord(l).records = TRUE
  BY DEF Look, Alters, PerRecord

LEMMA OneOfManyLook == \A l \in Look :
          Alters(l, OneOfMany(l), {"records", "own"}) /\ OneOfMany(l).records = TRUE /\ OneOfMany(l).own = FALSE
  BY DEF Look, Alters, OneOfMany

LEMMA CarriesLook == \A l \in Look : Alters(l, Carries(l), {"onSwitch"}) /\ Carries(l).onSwitch = "keeps"
  BY DEF Look, Alters, Carries

LEMMA SelectedLook == \A l \in Look : Alters(l, Selected(l), {"selected"}) /\ Selected(l).selected = TRUE
  BY DEF Look, Alters, Selected

LEMMA TogglesLook == \A l \in Look : Alters(l, Toggles(l), {"toggles"}) /\ Toggles(l).toggles = TRUE
  BY DEF Look, Alters, Toggles

LEMMA LeavesLook == \A l \in Look : Alters(l, Leaves(l), {"onSubmit"}) /\ Leaves(l).onSubmit = "closes"
  BY DEF Look, Alters, Leaves

LEMMA RemovesLook == \A l \in Look, which \in {"row", "always", "never"} :
                       Alters(l, Removes(l, which), {"removal"}) /\ Removes(l, which).removal = which
  BY DEF Look, Alters, Removes

LEMMA ThenLook == \A l \in Look, failure \in {"keeps", "closes"} :
                       Alters(l, Then(l, failure), {"second"}) /\ Then(l, failure).second = failure
  BY DEF Look, Alters, Then

(* The facts of every form, one look at a time.                            *)
LEMMA TableFits == \A f \in Forms : Fits(f, Looks[f])
  <1>1. \A f \in {"AlertSelection", "IncidentSelection"} : Fits(f, Looks[f])
    <2>1. /\ Looks["AlertSelection"] = Cancels(Unguarded(Form))
          /\ Looks["IncidentSelection"] = Cancels(Unguarded(Form))
      BY DEF Looks, AlertSelection, IncidentSelection
    <2>2. \A f \in {"AlertSelection", "IncidentSelection"} : Fits(f, Cancels(Unguarded(Form)))
      BY IdleLook, UnguardedLook, CancelsLook
         DEF Form, Fits, Lone, Alters, SavesElsewhere, KeepsDeleted, LosesRefused, SwapsPaused, WipesLater, SendsTwice
    <2> QED BY <2>1, <2>2
  <1>2. \A f \in {"AlertNote", "IncidentNote", "SearchSave", "MfaEnable"} : Fits(f, Looks[f])
    <2>1. /\ Looks["AlertNote"] = Form
          /\ Looks["IncidentNote"] = Form
          /\ Looks["SearchSave"] = Form
          /\ Looks["MfaEnable"] = Form
      BY DEF Looks, AlertNote, IncidentNote, SearchSave, MfaEnable
    <2>2. \A f \in {"AlertNote", "IncidentNote", "SearchSave", "MfaEnable"} : Fits(f, Form)
      BY IdleLook
         DEF Form, Fits, Lone, Alters, SavesElsewhere, KeepsDeleted, LosesRefused, SwapsPaused, WipesLater, SendsTwice
    <2> QED BY <2>1, <2>2
  <1>3. \A f \in {"CaseNote"} : Fits(f, Looks[f])
    <2>1. Looks["CaseNote"] = Empties(Keeps(Carries(OneOfMany(Form))))
      BY DEF Looks, CaseNote
    <2>2. \A f \in {"CaseNote"} : Fits(f, Empties(Keeps(Carries(OneOfMany(Form)))))
      BY IdleLook, KeepsLook, EmptiesLook, OneOfManyLook, CarriesLook
         DEF Form, Fits, Lone, Alters, SavesElsewhere, KeepsDeleted, LosesRefused, SwapsPaused, WipesLater, SendsTwice
    <2> QED BY <2>1, <2>2
  <1>4. \A f \in {"IncidentCreate"} : Fits(f, Looks[f])
    <2>1. Looks["IncidentCreate"] = Locked(Form)
      BY DEF Looks, IncidentCreate
    <2>2. \A f \in {"IncidentCreate"} : Fits(f, Locked(Form))
      BY IdleLook, LockedLook
         DEF Form, Fits, Lone, Alters, SavesElsewhere, KeepsDeleted, LosesRefused, SwapsPaused, WipesLater, SendsTwice
    <2> QED BY <2>1, <2>2
  <1>5. \A f \in {"Assistant"} : Fits(f, Looks[f])
    <2>1. Looks["Assistant"] = Folded(LandsLatest(Locked(Empties(Keeps(Carries(PerRecord(Form)))))))
      BY DEF Looks, Assistant
    <2>2. \A f \in {"Assistant"} : Fits(f, Folded(LandsLatest(Locked(Empties(Keeps(Carries(PerRecord(Form))))))))
      BY IdleLook, LockedLook, KeepsLook, EmptiesLook, FoldedLook, LandsLatestLook, PerRecordLook, CarriesLook
         DEF Form, Fits, Lone, Alters, SavesElsewhere, KeepsDeleted, LosesRefused, SwapsPaused, WipesLater, SendsTwice
    <2> QED BY <2>1, <2>2
  <1>6. \A f \in {"AddHost"} : Fits(f, Looks[f])
    <2>1. Looks["AddHost"] = Folded(Then(Closes(Form), "closes"))
      BY DEF Looks, AddHost
    <2>2. \A f \in {"AddHost"} : Fits(f, Folded(Then(Closes(Form), "closes")))
      BY IdleLook, ClosesLook, FoldedLook, ThenLook
         DEF Form, Fits, Lone, Alters, SavesElsewhere, KeepsDeleted, LosesRefused, SwapsPaused, WipesLater, SendsTwice
    <2> QED BY <2>1, <2>2
  <1>7. \A f \in {"MaintenanceWindow", "ReferenceSet", "BuildingBlock", "TeamInvite", "TeamProvision", "Playbook",
            "NotificationRule", "Delivery", "Password", "MfaDisable"} :
          Fits(f, Looks[f])
    <2>1. /\ Looks["MaintenanceWindow"] = Latest(Form)
          /\ Looks["ReferenceSet"] = Latest(Form)
          /\ Looks["BuildingBlock"] = Latest(Form)
          /\ Looks["TeamInvite"] = Latest(Form)
          /\ Looks["TeamProvision"] = Latest(Form)
          /\ Looks["Playbook"] = Latest(Form)
          /\ Looks["NotificationRule"] = Latest(Form)
          /\ Looks["Delivery"] = Latest(Form)
          /\ Looks["Password"] = Latest(Form)
          /\ Looks["MfaDisable"] = Latest(Form)
      BY DEF Looks, MaintenanceWindow, ReferenceSet, BuildingBlock, TeamInvite, TeamProvision, Playbook, NotificationRule,
             Delivery, Password, MfaDisable
    <2>2. \A f \in {"MaintenanceWindow", "ReferenceSet", "BuildingBlock", "TeamInvite", "TeamProvision",
            "Playbook", "NotificationRule", "Delivery", "Password", "MfaDisable"} : Fits(f,
            Latest(Form))
      BY IdleLook, LatestLook
         DEF Form, Fits, Lone, Alters, SavesElsewhere, KeepsDeleted, LosesRefused, SwapsPaused, WipesLater, SendsTwice
    <2> QED BY <2>1, <2>2
  <1>8. \A f \in {"CustomChain", "NaturalSearch", "ProfileName"} : Fits(f, Looks[f])
    <2>1. /\ Looks["CustomChain"] = Keeps(Form)
          /\ Looks["NaturalSearch"] = Keeps(Form)
          /\ Looks["ProfileName"] = Keeps(Form)
      BY DEF Looks, CustomChain, NaturalSearch, ProfileName
    <2>2. \A f \in {"CustomChain", "NaturalSearch", "ProfileName"} : Fits(f, Keeps(Form))
      BY IdleLook, KeepsLook
         DEF Form, Fits, Lone, Alters, SavesElsewhere, KeepsDeleted, LosesRefused, SwapsPaused, WipesLater, SendsTwice
    <2> QED BY <2>1, <2>2
  <1>9. \A f \in {"AlertRule"} : Fits(f, Looks[f])
    <2>1. Looks["AlertRule"] = Locked(Latest(Form))
      BY DEF Looks, AlertRule
    <2>2. \A f \in {"AlertRule"} : Fits(f, Locked(Latest(Form)))
      BY IdleLook, LockedLook, LatestLook
         DEF Form, Fits, Lone, Alters, SavesElsewhere, KeepsDeleted, LosesRefused, SwapsPaused, WipesLater, SendsTwice
    <2> QED BY <2>1, <2>2
  <1>10. \A f \in {"CorrelationRule"} : Fits(f, Looks[f])
    <2>1. Looks["CorrelationRule"] = Cancels(Removes(Latest(Closes(PerRecord(Form))), "never"))
      BY DEF Looks, CorrelationRule
    <2>2. \A f \in {"CorrelationRule"} : Fits(f, Cancels(Removes(Latest(Closes(PerRecord(Form))), "never")))
      BY IdleLook, ClosesLook, CancelsLook, LatestLook, PerRecordLook, RemovesLook
         DEF Form, Fits, Lone, Alters, SavesElsewhere, KeepsDeleted, LosesRefused, SwapsPaused, WipesLater, SendsTwice
    <2> QED BY <2>1, <2>2
  <1>11. \A f \in {"ReferenceDescription"} : Fits(f, Looks[f])
    <2>1. Looks["ReferenceDescription"] = Selected(Removes(Keeps(OneOfMany(Form)), "always"))
      BY DEF Looks, ReferenceDescription
    <2>2. \A f \in {"ReferenceDescription"} : Fits(f, Selected(Removes(Keeps(OneOfMany(Form)), "always")))
      BY IdleLook, KeepsLook, OneOfManyLook, SelectedLook, RemovesLook
         DEF Form, Fits, Lone, Alters, SavesElsewhere, KeepsDeleted, LosesRefused, SwapsPaused, WipesLater, SendsTwice
    <2> QED BY <2>1, <2>2
  <1>12. \A f \in {"ReferenceEntries"} : Fits(f, Looks[f])
    <2>1. Looks["ReferenceEntries"] = Removes(Latest(Carries(OneOfMany(Form))), "always")
      BY DEF Looks, ReferenceEntries
    <2>2. \A f \in {"ReferenceEntries"} : Fits(f, Removes(Latest(Carries(OneOfMany(Form))), "always"))
      BY IdleLook, LatestLook, OneOfManyLook, CarriesLook, RemovesLook
         DEF Form, Fits, Lone, Alters, SavesElsewhere, KeepsDeleted, LosesRefused, SwapsPaused, WipesLater, SendsTwice
    <2> QED BY <2>1, <2>2
  <1>13. \A f \in {"BuildingBlockEdit"} : Fits(f, Looks[f])
    <2>1. Looks["BuildingBlockEdit"] = Cancels(Toggles(Removes(Closes(OneOfMany(Form)), "row")))
      BY DEF Looks, BuildingBlockEdit
    <2>2. \A f \in {"BuildingBlockEdit"} : Fits(f, Cancels(Toggles(Removes(Closes(OneOfMany(Form)), "row"))))
      BY IdleLook, ClosesLook, CancelsLook, OneOfManyLook, TogglesLook, RemovesLook
         DEF Form, Fits, Lone, Alters, SavesElsewhere, KeepsDeleted, LosesRefused, SwapsPaused, WipesLater, SendsTwice
    <2> QED BY <2>1, <2>2
  <1>14. \A f \in {"SearchRename"} : Fits(f, Looks[f])
    <2>1. Looks["SearchRename"] = Cancels(Unguarded(Removes(Leaves(Keeps(OneOfMany(Form))), "row")))
      BY DEF Looks, SearchRename
    <2>2. \A f \in {"SearchRename"} : Fits(f, Cancels(Unguarded(Removes(Leaves(Keeps(OneOfMany(Form))), "row"))))
      BY IdleLook, UnguardedLook, KeepsLook, CancelsLook, OneOfManyLook, LeavesLook, RemovesLook
         DEF Form, Fits, Lone, Alters, SavesElsewhere, KeepsDeleted, LosesRefused, SwapsPaused, WipesLater, SendsTwice
    <2> QED BY <2>1, <2>2
  <1>15. \A f \in {"Login", "AcceptInvite", "ForgotPassword", "ResetPassword"} : Fits(f, Looks[f])
    <2>1. /\ Looks["Login"] = Fetches(Form)
          /\ Looks["AcceptInvite"] = Fetches(Form)
          /\ Looks["ForgotPassword"] = Fetches(Form)
          /\ Looks["ResetPassword"] = Fetches(Form)
      BY DEF Looks, Login, AcceptInvite, ForgotPassword, ResetPassword
    <2>2. \A f \in {"Login", "AcceptInvite", "ForgotPassword", "ResetPassword"} : Fits(f, Fetches(Form))
      BY IdleLook, FetchesLook
         DEF Form, Fits, Lone, Alters, SavesElsewhere, KeepsDeleted, LosesRefused, SwapsPaused, WipesLater, SendsTwice
    <2> QED BY <2>1, <2>2
  <1>16. \A f \in {"MfaCode"} : Fits(f, Looks[f])
    <2>1. Looks["MfaCode"] = Cancels(Fetches(Form))
      BY DEF Looks, MfaCode
    <2>2. \A f \in {"MfaCode"} : Fits(f, Cancels(Fetches(Form)))
      BY IdleLook, FetchesLook, CancelsLook
         DEF Form, Fits, Lone, Alters, SavesElsewhere, KeepsDeleted, LosesRefused, SwapsPaused, WipesLater, SendsTwice
    <2> QED BY <2>1, <2>2
  <1>17. \A f \in {"Register"} : Fits(f, Looks[f])
    <2>1. Looks["Register"] = Then(Fetches(Form), "keeps")
      BY DEF Looks, Register
    <2>2. \A f \in {"Register"} : Fits(f, Then(Fetches(Form), "keeps"))
      BY IdleLook, FetchesLook, ThenLook
         DEF Form, Fits, Lone, Alters, SavesElsewhere, KeepsDeleted, LosesRefused, SwapsPaused, WipesLater, SendsTwice
    <2> QED BY <2>1, <2>2
  <1> QED BY <1>1, <1>2, <1>3, <1>4, <1>5, <1>6, <1>7, <1>8, <1>9, <1>10, <1>11, <1>12, <1>13, <1>14, <1>15, <1>16, <1>17
         DEF Forms, Looks

-----------------------------------------------------------------------------
(* The invariant.                                                          *)

(* The saves are used in the order of their numbers.                       *)
InOrder == \A s \in Used, e \in Saves : e < s => e \in Used

(* How far a save is, and what it says of itself.                          *)
SaveShape ==
  \A s \in Saves :
    /\ save[s].st = "no" => save[s] = NoSave
    /\ save[s].st \in {"paused", "sent"} => ~save[s].made
    /\ save[s].st \in {"half", "answered"} => save[s].made
    /\ save[s].st = "half" => look.second # "none"

(* With the button disabled, a save that is under way is the last one.     *)
Serial == look.guards => \A s \in Saves : UnderWay(s) => \A e \in Used : e <= s

(* Only words that have been typed are in the inputs or in a save.         *)
Typed ==
  /\ \A w \in draft : meant[w] # Nowhere
  /\ \A s \in Saves : \A w \in save[s].words : meant[w] # Nowhere

(* The only row of its page stays open.                                    *)
Single == Lone(look) => open = Own

(* A save that will send what it finds in the inputs finds what it carries.*)
Waiting ==
  look.sendsLatest /\ form \notin SwapsPaused =>
    \A s \in Saves : save[s].st = "paused" => save[s].words \subseteq draft

(* Inputs that success empties, and that are disabled until then.          *)
Covered ==
  look.onDone # "keeps" /\ form \notin WipesLater =>
    \A s \in Saves : UnderWay(s) => draft \subseteq save[s].words

(* No word depends on a save that can still be refused, except in forms    *)
(* that lose it then.                                                      *)
Safe(w) ==
  \/ w \in draft \/ w \in dropped
  \/ \E s \in Saves : w \in save[s].words /\ (save[s].made \/ form \in LosesRefused)
  \/ w \in wiped /\ form \in WipesLater
  \/ w \in swapped /\ form \in SwapsPaused
AllSafe == \A w \in Words : meant[w] # Nowhere => Safe(w)

(* What can be sent again is not in the inputs.                            *)
Parted ==
  form \notin SendsTwice =>
    \A s \in Saves :
      ~look.guards \/ (save[s].st = "refused" /\ save[s].made /\ ~save[s].lost) => save[s].words \cap draft = {}

(* A word was meant for what is open, and is sent to what it was meant for.*)
Meant ==
  form \notin SavesElsewhere =>
    /\ \A w \in draft : meant[w] = open
    /\ \A s \in Saves : \A w \in save[s].words : meant[w] = save[s].target

(* The part of the invariant that says nothing of the text.                *)
Shape == TypeOK /\ InOrder /\ SaveShape /\ Serial /\ Typed /\ Single

IInv == Shape /\ Waiting /\ Covered /\ AllSafe /\ Parted /\ Meant /\ DeletedIsClosed

-----------------------------------------------------------------------------
(* What a step changes.                                                    *)

SaveStep(s) == Resume(s) \/ Make(s) \/ SecondWorks(s) \/ Fail(s) \/ LoseAnswer(s) \/ Succeed(s)

(* The steps that leave every save as it is.                               *)
UserStep ==
  \/ \E w \in Words : Type(w)
  \/ \E t \in Targets : Open(t)
  \/ \E r \in Records : Select(r) \/ Delete(r)
  \/ Close \/ Toggle \/ Deleted \/ NotDeleted \/ ListReadAgain \/ GoOffline \/ GoOnline \/ UNCHANGED vars

Entry == [st : Steps, target : Targets \cup {Nowhere}, words : SUBSET Words, made : BOOLEAN, lost : BOOLEAN]

LEMMA NextCases == [Next]_vars => UserStep \/ Submit \/ \E s \in Saves : SaveStep(s)
  BY DEF Next, UserStep, SaveStep

(* Nothing changes the form of a behaviour.                                *)
LEMMA FormStays == ASSUME [Next]_vars PROVE form' = form
  <1>1. CASE UserStep
    BY <1>1 DEF UserStep, Type, Open, Select, Delete, Close, Toggle, Deleted, NotDeleted, ListReadAgain, GoOffline, GoOnline, vars
  <1>2. CASE Submit
    BY <1>2 DEF Submit
  <1>3. ASSUME NEW s \in Saves, SaveStep(s) PROVE form' = form
    BY <1>3 DEF SaveStep, Resume, Make, SecondWorks, Fail, LoseAnswer, Succeed
  <1> QED BY <1>1, <1>2, <1>3, NextCases

LEMMA UserStepChanges == ASSUME UserStep PROVE form' = form /\ save' = save
  BY DEF UserStep, Type, Open, Select, Delete, Close, Toggle, Deleted, NotDeleted, ListReadAgain, GoOffline, GoOnline, vars

(* Pressing the button starts the first save that has not been used.       *)
LEMMA SubmitChanges ==
  ASSUME TypeOK, Submit
  PROVE  \E s \in Saves :
           /\ save[s].st = "no" /\ \A e \in Saves \ Used : s <= e
           /\ save' \in [Saves -> Entry] /\ \A e \in Saves : e # s => save'[e] = save[e]
           /\ save'[s].st \in {"paused", "sent"} /\ save'[s].target = open /\ save'[s].words = draft
           /\ save'[s].made = FALSE /\ save'[s].lost = FALSE
  <1> DEFINE st == IF look.pauses /\ ~online THEN "paused" ELSE "sent"
             new == [NoSave EXCEPT !.st = st, !.target = open, !.words = draft]
  <1>1. PICK s \in Saves \ Used : (\A e \in Saves \ Used : s <= e) /\ save' = [save EXCEPT ![s] = new]
    BY DEF Submit
  <1>2. st \in {"paused", "sent"} /\ st \in Steps
    BY DEF Steps
  <1>3. NoSave \in Entry /\ NoSave.made = FALSE /\ NoSave.lost = FALSE
    BY DEF NoSave, Entry, Steps
  <1>4. draft \in SUBSET Words /\ open \in Targets \cup {Nowhere} /\ save \in [Saves -> Entry]
    BY DEF TypeOK, Entry
  <1> HIDE DEF st
  <1>5. /\ new \in Entry /\ new.st = st /\ new.target = open /\ new.words = draft
        /\ new.made = FALSE /\ new.lost = FALSE
    BY <1>2, <1>3, <1>4 DEF Entry
  <1>6. save[s].st = "no"
    BY <1>1 DEF Used
  <1> HIDE DEF new
  <1>7. save'[s] = new /\ save' \in [Saves -> Entry] /\ \A e \in Saves : e # s => save'[e] = save[e]
    BY <1>1, <1>4, <1>5
  <1> QED BY <1>1, <1>2, <1>5, <1>6, <1>7

(* A save that goes on was under way; the others stay as they are.         *)
LEMMA SaveStepChanges ==
  ASSUME TypeOK, NEW s \in Saves, SaveStep(s)
  PROVE  /\ form' = form /\ meant' = meant
         /\ UnderWay(s) /\ save'[s] \in Entry /\ save'[s].st # "no"
         /\ \A e \in Saves : e # s => save'[e] = save[e]
         /\ save' \in [Saves -> Entry]
  <1>0. save \in [Saves -> Entry] /\ save[s] \in Entry /\ draft \subseteq Words /\ open \in Targets \cup {Nowhere}
    BY DEF TypeOK, Entry
  <1>1. CASE Resume(s)
    <2> DEFINE to == CASE ~look.landsLatest -> save[s].target [] look.own /\ open = Nowhere -> Own [] OTHER -> open
    <2>1. to \in Targets \cup {Nowhere}
      BY <1>0 DEF Entry, Targets
    <2>2. (IF look.sendsLatest THEN draft ELSE save[s].words) \in SUBSET Words
      BY <1>0 DEF Entry
    <2> HIDE DEF to
    <2>3. /\ save' \in [Saves -> Entry] /\ save'[s].st = "sent"
          /\ \A e \in Saves : e # s => save'[e] = save[e]
      BY <1>1, <1>0, <2>1, <2>2 DEF Resume, to, Entry, Steps
    <2> QED BY <1>1, <2>3 DEF Resume, UnderWay
  <1>2. CASE Make(s)
    BY <1>0, <1>2 DEF Make, UnderWay, Entry, Steps, textVars
  <1>3. CASE SecondWorks(s)
    BY <1>0, <1>3 DEF SecondWorks, UnderWay, Entry, Steps, textVars
  <1>4. CASE Fail(s)
    BY <1>0, <1>4 DEF Fail, UnderWay, Entry, Steps
  <1>5. CASE LoseAnswer(s)
    BY <1>0, <1>5 DEF LoseAnswer, UnderWay, Entry, Steps, textVars
  <1>6. CASE Succeed(s)
    BY <1>0, <1>6 DEF Succeed, UnderWay, Entry, Steps
  <1> QED BY <1>1, <1>2, <1>3, <1>4, <1>5, <1>6 DEF SaveStep

-----------------------------------------------------------------------------
(* Types and the shape of the saves.                                       *)

LEMMA InitShape == Init => Shape
  <1> SUFFICES ASSUME Init PROVE Shape
    OBVIOUS
  <1>1. NoSave \in Entry
    BY DEF NoSave, Entry, Steps
  <1>2. open \in Targets \cup {Nowhere}
    BY DEF Init, Rest, Targets
  <1>3. save \in [Saves -> Entry] /\ \A s \in Saves : save[s] = NoSave /\ save[s].st = "no" /\ save[s].words = {}
    BY <1>1 DEF Init, NoSave
  <1>4. TypeOK
    BY <1>2, <1>3 DEF Init, TypeOK, Entry
  <1>5. Used = {} /\ \A s \in Saves : ~UnderWay(s)
    BY <1>3 DEF Used, UnderWay
  <1>6. InOrder /\ SaveShape /\ Serial
    BY <1>3, <1>5 DEF InOrder, SaveShape, Serial
  <1>7. Typed
    BY <1>3 DEF Typed, Init
  <1>8. Single
    BY DEF Init, Single, Rest, Lone
  <1> QED BY <1>4, <1>6, <1>7, <1>8 DEF Shape

LEMMA RestType == Rest \in Targets \cup {Nowhere} /\ (look' = look => Rest' = Rest)
  BY DEF Rest, Targets

LEMMA TypeStep == ASSUME TypeOK, [Next]_vars PROVE TypeOK'
  <1> DEFINE Texts == /\ open' \in Targets \cup {Nowhere} /\ online' \in BOOLEAN
                      /\ draft' \subseteq Words /\ meant' \in [Words -> Targets \cup {Nowhere}]
                      /\ dropped' \subseteq Words /\ wiped' \subseteq Words /\ swapped' \subseteq Words
                      /\ deleting' \in Records \cup {Nowhere} /\ gone' \subseteq Records /\ listed' \subseteq gone'
  <1> USE RestType
  <1>1. save' \in [Saves -> Entry]
    <2>1. CASE UserStep
      BY <2>1, UserStepChanges DEF TypeOK, Entry
    <2>2. CASE Submit
      BY <2>2, SubmitChanges DEF TypeOK, Entry
    <2>3. ASSUME NEW s \in Saves, SaveStep(s) PROVE save' \in [Saves -> Entry]
      BY <2>3, SaveStepChanges
    <2> QED BY <2>1, <2>2, <2>3, NextCases
  <1>2. Texts
    <2>1. ASSUME NEW w \in Words, Type(w) PROVE Texts
      BY <2>1 DEF Type, TypeOK, recordVars
    <2>2. ASSUME NEW t \in Targets, Open(t) PROVE Texts
      BY <2>2 DEF Open, TypeOK, recordVars
    <2>3. ASSUME NEW r \in Records, Select(r) PROVE Texts
      BY <2>3 DEF Select, TypeOK, recordVars, textVars, Targets
    <2>4. ASSUME NEW r \in Records, Delete(r) PROVE Texts
      BY <2>4 DEF Delete, TypeOK, textVars
    <2>5. CASE Close
      BY <2>5 DEF Close, TypeOK, recordVars
    <2>6. CASE Submit
      BY <2>6 DEF Submit, TypeOK, recordVars
    <2>7. CASE Toggle
      BY <2>7 DEF Toggle, TakeAway, TypeOK, recordVars
    <2>8. CASE Deleted
      BY <2>8 DEF Deleted, TakeAway, TypeOK
    <2>9. CASE NotDeleted \/ ListReadAgain
      BY <2>9 DEF NotDeleted, ListReadAgain, TypeOK, textVars
    <2>10. CASE GoOffline \/ GoOnline
      BY <2>10 DEF GoOffline, GoOnline, TypeOK, textVars, recordVars
    <2>11. ASSUME NEW s \in Saves, SaveStep(s) PROVE Texts
      <3>1. save[s].words \subseteq Words
        BY DEF TypeOK
      <3>2. CASE Resume(s)
        BY <3>1, <3>2 DEF Resume, TypeOK, recordVars
      <3>3. CASE Make(s) \/ SecondWorks(s) \/ LoseAnswer(s)
        BY <3>3 DEF Make, SecondWorks, LoseAnswer, TypeOK, recordVars, textVars
      <3>4. CASE Fail(s)
        BY <3>4 DEF Fail, TakeAway, TypeOK, recordVars
      <3>5. CASE Succeed(s)
        BY <3>5 DEF Succeed, TakeAway, TypeOK, recordVars
      <3> QED BY <2>11, <3>2, <3>3, <3>4, <3>5 DEF SaveStep
    <2>12. CASE UNCHANGED vars
      BY <2>12 DEF vars, TypeOK, textVars, recordVars
    <2> QED BY <2>1, <2>2, <2>3, <2>4, <2>5, <2>6, <2>7, <2>8, <2>9, <2>10, <2>11, <2>12 DEF Next, SaveStep
  <1> QED BY <1>1, <1>2, FormStays DEF TypeOK, Entry

LEMMA OrderStep == ASSUME TypeOK, InOrder, [Next]_vars PROVE InOrder'
  <1>1. CASE UserStep
    BY <1>1, UserStepChanges DEF InOrder, Used
  <1>2. CASE Submit
    <2>1. PICK s \in Saves : /\ save[s].st = "no" /\ \A e \in Saves \ Used : s <= e
                             /\ (\A e \in Saves : e # s => save'[e] = save[e]) /\ save'[s].st \in {"paused", "sent"}
      BY <1>2, SubmitChanges
    <2>2. Used' = Used \cup {s}
      BY <2>1 DEF Used, TypeOK
    <2>3. ASSUME NEW e \in Saves, e < s PROVE e \in Used
      BY <2>1, <2>3, EditorsAssumption DEF Saves
    <2> QED BY <2>2, <2>3 DEF InOrder
  <1>3. ASSUME NEW s \in Saves, SaveStep(s) PROVE InOrder'
    <2>1. Used' = Used
      BY <1>3, SaveStepChanges DEF Used, UnderWay
    <2> QED BY <2>1 DEF InOrder
  <1> QED BY <1>1, <1>2, <1>3, NextCases

LEMMA SaveShapeStep == ASSUME TypeOK, SaveShape, [Next]_vars PROVE SaveShape'
  <1>0. look' = look
    BY FormStays DEF look
  <1>1. CASE UserStep
    BY <1>0, <1>1, UserStepChanges DEF SaveShape
  <1>2. CASE Submit
    BY <1>0, <1>2, SubmitChanges DEF SaveShape, TypeOK
  <1>3. ASSUME NEW s \in Saves, SaveStep(s) PROVE SaveShape'
    <2>1. /\ save'[s].st \in {"paused", "sent"} => ~save'[s].made
          /\ save'[s].st \in {"half", "answered"} => save'[s].made
          /\ save'[s].st = "half" => look.second # "none"
      <3> USE DEF SaveShape, TypeOK
      <3>1. CASE Resume(s)
        BY <3>1 DEF Resume
      <3>2. CASE Make(s)
        BY <3>2 DEF Make
      <3>3. CASE SecondWorks(s)
        BY <3>3 DEF SecondWorks
      <3>4. CASE Fail(s)
        BY <3>4 DEF Fail
      <3>5. CASE LoseAnswer(s)
        BY <3>5 DEF LoseAnswer
      <3>6. CASE Succeed(s)
        BY <3>6 DEF Succeed
      <3> QED BY <1>3, <3>1, <3>2, <3>3, <3>4, <3>5, <3>6 DEF SaveStep
    <2> QED BY <1>0, <1>3, <2>1, SaveStepChanges DEF SaveShape, NoSave
  <1> QED BY <1>1, <1>2, <1>3, NextCases

(* While nothing is pending no save is under way, with the button guarded. *)
LEMMA IdleForm == ASSUME TypeOK, Serial, look.guards, ~IsPending, NEW s \in Saves PROVE ~UnderWay(s)
  <1> SUFFICES ASSUME UnderWay(s) PROVE FALSE
    OBVIOUS
  <1>1. s \in Used /\ \A e \in Used : e <= s
    BY DEF Serial, Used, UnderWay
  <1>2. Used \subseteq Int
    BY DEF Used, Saves
  <1>3. Max(Used) = s
    <2>1. \A e \in Used : s >= e
      BY <1>1, <1>2
    <2>2. Max(Used) \in Used /\ \A e \in Used : Max(Used) >= e
      BY <1>1, <2>1 DEF Max
    <2> DEFINE m == Max(Used)
    <2>3. m \in Int /\ s \in Int
      BY <1>1, <1>2, <2>2
    <2>4. m >= s /\ s >= m
      BY <1>1, <2>1, <2>2
    <2> HIDE DEF m
    <2>5. m = s
      BY <2>3, <2>4
    <2> QED BY <2>5 DEF m
  <1> QED BY <1>1, <1>3 DEF IsPending

LEMMA SerialStep == ASSUME TypeOK, InOrder, Serial, [Next]_vars PROVE Serial'
  <1>0. look' = look
    BY FormStays DEF look
  <1>1. CASE UserStep
    BY <1>0, <1>1, UserStepChanges DEF Serial, Used, UnderWay
  <1>2. CASE Submit
    <2>1. PICK s \in Saves : /\ save[s].st = "no" /\ \A e \in Saves \ Used : s <= e
                             /\ (\A e \in Saves : e # s => save'[e] = save[e]) /\ save'[s].st \in {"paused", "sent"}
      BY <1>2, SubmitChanges
    <2>2. Used' = Used \cup {s}
      BY <2>1 DEF Used, TypeOK
    <2>3. ASSUME NEW e \in Used, ~(e <= s) PROVE FALSE
      <3>1. s < e /\ e \in Saves
        BY <2>3 DEF Used, Saves
      <3> QED BY <2>1, <2>3, <3>1 DEF InOrder, Used
    <2>4. ASSUME look.guards, NEW e \in Saves, UnderWay(e)' PROVE e = s
      BY <1>2, <2>1, <2>4, IdleForm DEF Submit, UnderWay, TypeOK
    <2>5. s <= s
      BY DEF Saves
    <2> QED BY <1>0, <2>2, <2>3, <2>4, <2>5 DEF Serial
  <1>3. ASSUME NEW s \in Saves, SaveStep(s) PROVE Serial'
    <2>1. Used' = Used
      BY <1>3, SaveStepChanges DEF Used, UnderWay
    <2>2. \A e \in Saves : UnderWay(e)' => UnderWay(e)
      BY <1>3, SaveStepChanges DEF UnderWay
    <2> QED BY <1>0, <2>1, <2>2 DEF Serial
  <1> QED BY <1>1, <1>2, <1>3, NextCases

-----------------------------------------------------------------------------
(* What the words in the inputs and in the saves have in common.           *)

(* A step touches the words in three ways: the user types one, the inputs  *)
(* are emptied, or a save is filled from the inputs.                       *)
Typing == \E w \in Words : /\ meant[w] = Nowhere /\ open # Nowhere /\ open' = open
                           /\ draft' = draft \cup {w} /\ meant' = [meant EXCEPT ![w] = open]

LEMMA UserStepTexts == ASSUME UserStep PROVE Typing \/ (meant' = meant /\ (draft' = draft \/ draft' = {}))
  <1>1. ASSUME NEW w \in Words, Type(w) PROVE Typing
    BY <1>1 DEF Type, Typing
  <1>2. ASSUME ~\E w \in Words : Type(w) PROVE meant' = meant /\ (draft' = draft \/ draft' = {})
    BY <1>2 DEF UserStep, Open, Select, Delete, Close, Toggle, Deleted, NotDeleted, ListReadAgain, GoOffline, GoOnline,
                TakeAway, textVars, vars
  <1> QED BY <1>1, <1>2

LEMMA SubmitTexts == ASSUME Submit PROVE meant' = meant /\ (draft' = draft \/ draft' = {})
  BY DEF Submit

LEMMA SaveStepTexts ==
  ASSUME TypeOK, NEW s \in Saves, SaveStep(s)
  PROVE  /\ draft' = draft \/ draft' = {}
         /\ save'[s].words = save[s].words \/ (look.sendsLatest /\ draft' = draft /\ save'[s].words = draft)
  BY DEF SaveStep, Resume, Make, SecondWorks, Fail, LoseAnswer, Succeed, TakeAway, textVars, TypeOK

LEMMA TypedStep == ASSUME TypeOK, Typed, [Next]_vars PROVE Typed'
  <1>1. CASE UserStep
    <2>1. CASE Typing
      BY <1>1, <2>1, UserStepChanges DEF Typed, Typing, TypeOK
    <2>2. CASE meant' = meant /\ (draft' = draft \/ draft' = {})
      BY <1>1, <2>2, UserStepChanges DEF Typed
    <2> QED BY <1>1, <2>1, <2>2, UserStepTexts
  <1>2. CASE Submit
    BY <1>2, SubmitChanges, SubmitTexts DEF Typed, TypeOK
  <1>3. ASSUME NEW s \in Saves, SaveStep(s) PROVE Typed'
    BY <1>3, SaveStepChanges, SaveStepTexts DEF Typed
  <1> QED BY <1>1, <1>2, <1>3, NextCases

LEMMA SingleStep == ASSUME Single, [Next]_vars PROVE Single'
  <1> SUFFICES ASSUME Lone(look), open = Own PROVE open' = Own
    BY FormStays DEF Single, look
  <1>1. Rest = Own /\ Openable \ {open} = {}
    BY DEF Lone, Rest, Openable
  <1>2. CASE UserStep
    BY <1>1, <1>2 DEF UserStep, Type, Open, Select, Delete, Close, Toggle, Deleted, NotDeleted, ListReadAgain, GoOffline, GoOnline,
                      TakeAway, vars
  <1>3. CASE Submit
    BY <1>1, <1>3 DEF Submit
  <1>4. ASSUME NEW s \in Saves, SaveStep(s) PROVE open' = Own
    BY <1>1, <1>4 DEF SaveStep, Resume, Make, SecondWorks, Fail, LoseAnswer, Succeed, TakeAway
  <1> QED BY <1>2, <1>3, <1>4, NextCases

LEMMA ShapeStep == Shape /\ [Next]_vars => Shape'
  BY TypeStep, OrderStep, SaveShapeStep, SerialStep, TypedStep, SingleStep DEF Shape

(* A deletion closes the editor of what is deleted, unless the form is one *)
(* whose handler looks at the wrong record.                                *)
LEMMA DeletedStep == ASSUME TypeOK, DeletedIsClosed, [Next]_vars PROVE DeletedIsClosed'
  <1> SUFFICES ASSUME form \notin KeepsDeleted PROVE open' \notin gone' \ listed'
    BY FormStays DEF DeletedIsClosed
  <1>1. open \notin gone \ listed /\ gone \subseteq Records /\ deleting \in Records \cup {Nowhere}
    BY DEF DeletedIsClosed, TypeOK
  <1>2. Rest \notin Records
    BY EditorsAssumption DEF Rest, Targets
  <1>3. look.removal # "never"
    BY TableFits DEF Fits, TypeOK, look
  <1>4. ASSUME NEW t \in Openable PROVE t \notin gone \ listed
    BY <1>1, EditorsAssumption DEF Openable
  <1>5. CASE Deleted
    <2>1. CASE look.removal = "always"
      <3>1. open' = Rest /\ gone' = gone \cup {deleting} /\ deleting \in Records
        BY <1>1, <1>5, <2>1 DEF Deleted, TakeAway
      <3> QED BY <1>1, <1>2, <3>1
    <2>2. CASE look.removal = "row"
      <3>1. open' = open /\ gone' = gone \cup {deleting} /\ listed' = listed \cup {deleting}
        BY <1>5, <2>2 DEF Deleted
      <3> QED BY <1>1, <3>1
    <2>3. look.removal \in {"always", "row"}
      BY <1>3, <1>5 DEF Deleted
    <2> QED BY <2>1, <2>2, <2>3
  <1>6. CASE UserStep /\ ~Deleted
    <2>1. CASE ListReadAgain
      <3>1. gone' = gone /\ (open' = Rest \/ (open' = open /\ open \notin listed))
        BY <2>1 DEF ListReadAgain
      <3> QED BY <1>1, <1>2, <3>1
    <2>2. CASE ~ListReadAgain
      <3>1. gone' = gone /\ listed' = listed
        BY <1>6, <2>2 DEF UserStep, Type, Open, Select, Delete, Close, Toggle, NotDeleted, GoOffline, GoOnline, recordVars, vars
      <3>2. open' \in {open, Rest} \cup Openable
        BY <1>6, <2>2 DEF UserStep, Type, Open, Select, Delete, Close, Toggle, NotDeleted, GoOffline, GoOnline,
                          TakeAway, vars
      <3> QED BY <1>1, <1>2, <1>4, <3>1, <3>2
    <2> QED BY <2>1, <2>2
  <1>7. CASE Submit
    BY <1>1, <1>2, <1>7 DEF Submit, recordVars
  <1>8. ASSUME NEW s \in Saves, SaveStep(s) PROVE open' \notin gone' \ listed'
    BY <1>1, <1>2, <1>8 DEF SaveStep, Resume, Make, SecondWorks, Fail, LoseAnswer, Succeed, TakeAway, recordVars
  <1> QED BY <1>5, <1>6, <1>7, <1>8, NextCases

(* What is sent is what was typed for the record it is sent to.            *)
LEMMA MeantStep == ASSUME TypeOK, Typed, Meant, [Next]_vars PROVE Meant'
  <1> SUFFICES ASSUME form \notin SavesElsewhere
               PROVE  /\ \A w \in draft' : meant'[w] = open'
                      /\ \A s \in Saves : \A w \in save'[s].words : meant'[w] = save'[s].target
    BY FormStays DEF Meant
  <1>1. /\ \A w \in draft : meant[w] = open
        /\ \A s \in Saves : \A w \in save[s].words : meant[w] = save[s].target
    BY DEF Meant
  <1>2. look.onSwitch = "seeds" /\ ~look.selected /\ (look.sendsLatest <=> look.landsLatest)
    BY TableFits DEF Fits, TypeOK, look
  <1>3. ASSUME Typing, save' = save
        PROVE  /\ \A w \in draft' : meant'[w] = open'
               /\ \A s \in Saves : \A w \in save'[s].words : meant'[w] = save'[s].target
    BY <1>1, <1>3 DEF Typing, Typed, TypeOK
  <1>4. CASE UserStep
    <2>1. CASE Typing
      BY <1>3, <1>4, <2>1, UserStepChanges
    <2>2. ASSUME ~Typing PROVE meant' = meant /\ (draft' = {} \/ (draft' = draft /\ open' = open))
      <3>1. ~\E w \in Words : Type(w)
        BY <2>2 DEF Type, Typing
      <3> QED BY <1>2, <1>4, <3>1 DEF UserStep, Open, Select, Delete, Close, Toggle, Deleted, NotDeleted, ListReadAgain, GoOffline, GoOnline,
                                      TakeAway, textVars, vars
    <2> QED BY <1>1, <1>4, <2>1, <2>2, UserStepChanges
  <1>5. CASE Submit
    <2>1. meant' = meant /\ (draft' = {} \/ (draft' = draft /\ open' = open))
      BY <1>5 DEF Submit
    <2>2. PICK s \in Saves : /\ \A e \in Saves : e # s => save'[e] = save[e]
                             /\ save'[s].target = open /\ save'[s].words = draft
      BY <1>5, SubmitChanges
    <2> QED BY <1>1, <2>1, <2>2
  <1>6. ASSUME NEW s \in Saves, SaveStep(s)
        PROVE  /\ \A w \in draft' : meant'[w] = open'
               /\ \A e \in Saves : \A w \in save'[e].words : meant'[w] = save'[e].target
    <2>1. meant' = meant /\ \A e \in Saves : e # s => save'[e] = save[e]
      BY <1>6, SaveStepChanges
    <2>2. draft' = {} \/ (draft' = draft /\ open' = open)
      BY <1>6 DEF SaveStep, Resume, Make, SecondWorks, Fail, LoseAnswer, Succeed, TakeAway, textVars
    <2>3. \A w \in save'[s].words : meant[w] = save'[s].target
      <3>1. CASE Resume(s) /\ look.sendsLatest
        <4>1. save'[s].words = draft /\ (save'[s].target = open \/ open = Nowhere)
          BY <1>2, <3>1 DEF Resume, TypeOK
        <4> QED BY <1>1, <4>1 DEF Typed
      <3>2. CASE Resume(s) /\ ~look.sendsLatest
        <4>1. save'[s].words = save[s].words /\ save'[s].target = save[s].target
          BY <1>2, <3>2 DEF Resume, TypeOK
        <4> QED BY <1>1, <4>1
      <3>3. CASE ~Resume(s)
        <4>1. save'[s].words = save[s].words /\ save'[s].target = save[s].target
          <5> USE DEF TypeOK
          <5>1. CASE Make(s)
            BY <5>1 DEF Make
          <5>2. CASE SecondWorks(s)
            BY <5>2 DEF SecondWorks
          <5>3. CASE Fail(s)
            BY <5>3 DEF Fail
          <5>4. CASE LoseAnswer(s)
            BY <5>4 DEF LoseAnswer
          <5>5. CASE Succeed(s)
            BY <5>5 DEF Succeed
          <5> QED BY <1>6, <3>3, <5>1, <5>2, <5>3, <5>4, <5>5 DEF SaveStep
        <4> QED BY <1>1, <4>1
      <3> QED BY <3>1, <3>2, <3>3
    <2> QED BY <1>1, <2>1, <2>2, <2>3
  <1> QED BY <1>4, <1>5, <1>6, NextCases

-----------------------------------------------------------------------------
(* No text is lost.                                                        *)

LEMMA FormFits == TypeOK => Fits(form, look)
  BY TableFits DEF TypeOK, look

(* While a save waits that will send what it finds, nothing leaves the     *)
(* inputs: no other record can be opened, or its text stays.               *)
LEMMA WaitingStep == ASSUME Shape, Waiting, [Next]_vars PROVE Waiting'
  <1> SUFFICES ASSUME look.sendsLatest, form \notin SwapsPaused, NEW e \in Saves, save'[e].st = "paused"
               PROVE  save'[e].words \subseteq draft'
    BY FormStays DEF Waiting, look
  <1>0. TypeOK /\ Serial /\ Single
    BY DEF Shape
  <1>1. save[e].st = "paused" => save[e].words \subseteq draft
    BY DEF Waiting
  <1>2. /\ look.onSubmit = "keeps" /\ look.guards /\ ~look.closable /\ ~look.toggles /\ look.second # "closes" /\ look.removal # "row"
        /\ look.onSwitch # "seeds" \/ (Lone(look) /\ look.removal = "none")
    BY <1>0, FormFits DEF Fits
  <1>3. CASE UserStep
    <2>1. ASSUME NEW t \in Targets, Open(t) PROVE draft' = draft
      <3>1. CASE look.onSwitch # "seeds"
        BY <2>1, <3>1 DEF Open
      <3>2. CASE Lone(look)
        BY <1>0, <2>1, <3>2 DEF Open, Openable, Single, Lone
      <3> QED BY <1>2, <3>1, <3>2
    <2>2. ASSUME Deleted PROVE draft' = draft
      BY <1>2, <2>2 DEF Deleted
    <2>3. draft \subseteq draft'
      BY <1>2, <1>3, <2>1, <2>2 DEF UserStep, Type, Select, Delete, Close, Toggle, NotDeleted, ListReadAgain, GoOffline, GoOnline,
                                    textVars, vars
    <2> QED BY <1>1, <1>3, <2>3, UserStepChanges
  <1>4. CASE Submit
    <2>1. draft' = draft
      BY <1>2, <1>4 DEF Submit
    <2> QED BY <1>0, <1>1, <1>4, <2>1, SubmitChanges
  <1>5. ASSUME NEW s \in Saves, SaveStep(s) PROVE save'[e].words \subseteq draft'
    <2>1. save'[s].st # "paused"
      <3> USE <1>0 DEF TypeOK
      <3>1. Resume(s) => save'[s].st = "sent"
        BY DEF Resume
      <3>2. Make(s) \/ SecondWorks(s) => save'[s].st \in {"half", "answered"}
        BY DEF Make, SecondWorks
      <3>3. Fail(s) => save'[s].st = "refused"
        BY DEF Fail
      <3>4. LoseAnswer(s) => save'[s].st = "refused"
        BY DEF LoseAnswer
      <3>5. Succeed(s) => save'[s].st = "over"
        BY DEF Succeed
      <3> QED BY <1>5, <3>1, <3>2, <3>3, <3>4, <3>5 DEF SaveStep
    <2>2. e # s /\ save'[e] = save[e] /\ save[e].st = "paused"
      BY <1>0, <1>5, <2>1, SaveStepChanges
    <2>3. UnderWay(e) /\ UnderWay(s) /\ e \in Used /\ s \in Used
      BY <1>0, <1>5, <2>2, SaveStepChanges DEF UnderWay, Used
    <2>4. e <= s /\ s <= e
      BY <1>0, <1>2, <2>3 DEF Serial
    <2> QED BY <2>2, <2>4 DEF Saves
  <1> QED BY <1>3, <1>4, <1>5, NextCases

(* Where success empties inputs that are disabled until then, there is     *)
(* nothing in them that the save does not carry.                           *)
LEMMA CoveredStep == ASSUME Shape, Covered, [Next]_vars PROVE Covered'
  <1> SUFFICES ASSUME look.onDone # "keeps", form \notin WipesLater, NEW e \in Saves, UnderWay(e)'
               PROVE  draft' \subseteq save'[e].words
    BY FormStays DEF Covered, look
  <1>0. TypeOK /\ Serial
    BY DEF Shape
  <1>1. UnderWay(e) => draft \subseteq save[e].words
    BY DEF Covered
  <1>2. look.guards /\ look.locks
    BY <1>0, FormFits DEF Fits
  <1>3. CASE UserStep
    <2>1. UnderWay(e) /\ save'[e] = save[e]
      BY <1>3, UserStepChanges DEF UnderWay
    <2>2. IsPending
      BY <1>0, <1>2, <2>1, IdleForm
    <2>3. draft' \subseteq draft
      BY <1>2, <1>3, <2>2 DEF UserStep, Type, Open, Select, Delete, Close, Toggle, Deleted, NotDeleted, ListReadAgain, GoOffline, GoOnline,
                              TakeAway, textVars, vars
    <2> QED BY <1>1, <2>1, <2>3
  <1>4. CASE Submit
    <2>1. PICK s \in Saves : /\ \A a \in Saves : a # s => save'[a] = save[a]
                             /\ save'[s].words = draft
      BY <1>0, <1>4, SubmitChanges
    <2>2. e # s => UnderWay(e)
      BY <2>1 DEF UnderWay
    <2> QED BY <1>1, <1>4, <2>1, <2>2, SubmitTexts
  <1>5. ASSUME NEW s \in Saves, SaveStep(s) PROVE draft' \subseteq save'[e].words
    <2>1. UnderWay(e) /\ (e # s => save'[e] = save[e])
      BY <1>0, <1>5, SaveStepChanges DEF UnderWay
    <2> QED BY <1>0, <1>1, <1>5, <2>1, SaveStepTexts
  <1> QED BY <1>3, <1>4, <1>5, NextCases

LEMMA SafeUser == ASSUME TypeOK, AllSafe, UserStep PROVE AllSafe'
  <1> SUFFICES ASSUME NEW w \in Words, meant'[w] # Nowhere PROVE Safe(w)'
    BY DEF AllSafe
  <1>1. form' = form /\ save' = save
    BY UserStepChanges
  <1>2. CASE \E v \in Words : Type(v)
    <2>1. PICK v \in Words : Type(v)
      BY <1>2
    <2>2. CASE v = w
      BY <2>1, <2>2 DEF Type, Safe
    <2>3. CASE v # w
      <3>1. Safe(w)
        BY <2>1, <2>3 DEF Type, AllSafe, TypeOK
      <3> QED BY <1>1, <2>1, <3>1 DEF Type, Safe
    <2> QED BY <2>2, <2>3
  <1>3. CASE ~\E v \in Words : Type(v)
    <2>1. meant' = meant
      BY <1>3 DEF UserStep, Open, Select, Delete, Close, Toggle, Deleted, NotDeleted, ListReadAgain, GoOffline, GoOnline,
                  textVars, vars
    <2>2. Safe(w)
      BY <2>1 DEF AllSafe
    <2>3. look.toggles \/ (look.removal = "always" /\ look.onSwitch = "seeds") => form \in WipesLater
      BY FormFits DEF Fits
    <2>4. \/ draft \subseteq draft' /\ dropped \subseteq dropped' /\ wiped \subseteq wiped'
          \/ draft \cup dropped \subseteq dropped' /\ wiped \subseteq wiped'
          \/ draft \cup wiped \subseteq wiped' /\ dropped \subseteq dropped' /\ form \in WipesLater
      <3>1. CASE Toggle
        BY <2>3, <3>1 DEF Toggle, TakeAway
      <3>2. CASE Deleted
        BY <2>3, <3>2 DEF Deleted, TakeAway
      <3>3. CASE ~Toggle /\ ~Deleted
        BY <1>3, <3>3 DEF UserStep, Open, Select, Delete, Close, NotDeleted, ListReadAgain, GoOffline, GoOnline,
                          textVars, vars
      <3> QED BY <3>1, <3>2, <3>3
    <2>5. swapped' = swapped
      BY <1>3 DEF UserStep, Open, Select, Delete, Close, Toggle, Deleted, NotDeleted, ListReadAgain, GoOffline, GoOnline,
                  textVars, vars
    <2> QED BY <1>1, <2>2, <2>4, <2>5 DEF Safe
  <1> QED BY <1>2, <1>3

LEMMA SafeSubmit == ASSUME TypeOK, SaveShape, AllSafe, Submit PROVE AllSafe'
  <1> SUFFICES ASSUME NEW w \in Words, meant[w] # Nowhere PROVE Safe(w)'
    BY DEF AllSafe, Submit
  <1>1. PICK s \in Saves : /\ save[s].st = "no" /\ save'[s].words = draft
                           /\ \A e \in Saves : e # s => save'[e] = save[e]
    BY SubmitChanges
  <1>2. save[s].words = {}
    BY <1>1 DEF SaveShape, NoSave
  <1>3. /\ form' = form /\ dropped' = dropped /\ wiped' = wiped /\ swapped' = swapped
        /\ draft' = draft \/ form \in LosesRefused
    BY FormFits DEF Submit, Fits
  <1>4. Safe(w)
    BY DEF AllSafe
  <1> QED BY <1>1, <1>2, <1>3, <1>4 DEF Safe

LEMMA SafeSave == ASSUME TypeOK, SaveShape, Waiting, Covered, AllSafe, NEW s \in Saves, SaveStep(s) PROVE AllSafe'
  <1> SUFFICES ASSUME NEW w \in Words, meant[w] # Nowhere PROVE Safe(w)'
    BY SaveStepChanges DEF AllSafe
  <1>1. form' = form /\ \A e \in Saves : e # s => save'[e] = save[e]
    BY SaveStepChanges
  <1>2. Safe(w)
    BY DEF AllSafe
  <1>3. CASE Resume(s) /\ look.sendsLatest
    <2>1. form \notin LosesRefused /\ ~save[s].made
      BY <1>3, FormFits DEF Fits, Resume, SaveShape
    <2>2. w \in save[s].words => w \in draft \/ form \in SwapsPaused
      BY <1>3 DEF Waiting, Resume
    <2>3. /\ draft' = draft /\ wiped' = wiped
          /\ dropped' = dropped \ save[s].words /\ swapped' = swapped \cup (save[s].words \ draft)
      BY <1>3 DEF Resume
    <2> QED BY <1>1, <1>2, <2>1, <2>2, <2>3 DEF Safe
  <1>4. ASSUME save'[s].words = save[s].words, save[s].made => save'[s].made,
               draft' = draft, dropped' = dropped, wiped' = wiped, swapped' = swapped
        PROVE  Safe(w)'
    BY <1>1, <1>2, <1>4 DEF Safe
  <1>5. CASE Resume(s) /\ ~look.sendsLatest
    BY <1>4, <1>5 DEF Resume, TypeOK
  <1>6. CASE Make(s) \/ SecondWorks(s) \/ LoseAnswer(s)
    BY <1>4, <1>6 DEF Make, SecondWorks, LoseAnswer, TypeOK, textVars
  <1>7. CASE Fail(s)
    <2>1. /\ save'[s].words = save[s].words /\ save'[s].made = save[s].made
          /\ dropped' = dropped /\ swapped' = swapped
      BY <1>7 DEF Fail, TypeOK
    <2>2. CASE save[s].st = "half" /\ look.second = "closes"
      <3>1. save[s].made /\ form \in WipesLater
        BY <2>2, FormFits DEF SaveShape, Fits
      <3>2. draft' = {} /\ wiped' = wiped \cup (draft \ save[s].words)
        BY <1>7, <2>2 DEF Fail, TakeAway
      <3> QED BY <1>1, <1>2, <2>1, <3>1, <3>2 DEF Safe
    <2>3. CASE ~(save[s].st = "half" /\ look.second = "closes")
      BY <1>4, <1>7, <2>1, <2>3 DEF Fail
    <2> QED BY <2>2, <2>3
  <1>8. CASE Succeed(s)
    <2>1. /\ save'[s].words = save[s].words /\ save'[s].made = save[s].made
          /\ dropped' = dropped /\ swapped' = swapped
      BY <1>8 DEF Succeed, TypeOK
    <2>2. CASE look.onDone = "keeps"
      BY <1>4, <1>8, <2>1, <2>2 DEF Succeed
    <2>3. CASE look.onDone # "keeps"
      <3>1. save[s].made /\ UnderWay(s)
        BY <1>8 DEF SaveShape, Succeed, UnderWay
      <3>2. form \in WipesLater \/ draft \subseteq save[s].words
        BY <2>3, <3>1 DEF Covered
      <3>3. draft' = {} /\ wiped' = wiped \cup (draft \ save[s].words)
        BY <1>8, <2>3 DEF Succeed, TakeAway
      <3> QED BY <1>1, <1>2, <2>1, <3>1, <3>2, <3>3 DEF Safe
    <2> QED BY <2>2, <2>3
  <1> QED BY <1>3, <1>5, <1>6, <1>7, <1>8 DEF SaveStep

LEMMA SafeStep == ASSUME Shape, Waiting, Covered, AllSafe, [Next]_vars PROVE AllSafe'
  BY SafeUser, SafeSubmit, SafeSave, NextCases DEF Shape

-----------------------------------------------------------------------------
(* Nothing is sent twice.                                                  *)

(* What could be sent again has left the inputs, and is not typed again.   *)
LEMMA PartedStep == ASSUME Shape, Parted, [Next]_vars PROVE Parted'
  <1> DEFINE Done(e) == save[e].st = "refused" /\ save[e].made /\ ~save[e].lost
  <1> SUFFICES ASSUME form \notin SendsTwice, NEW e \in Saves, ~look.guards \/ Done(e)'
               PROVE  save'[e].words \cap draft' = {}
    BY FormStays DEF Parted, look
  <1>0. TypeOK /\ SaveShape /\ Typed
    BY DEF Shape
  <1>1. ~look.guards \/ Done(e) => save[e].words \cap draft = {}
    BY DEF Parted
  <1>2. /\ look.second # "none" => look.second = "closes"
        /\ ~look.guards => look.onSubmit # "keeps" /\ ~look.sendsLatest
    BY <1>0, FormFits DEF Fits
  <1>3. CASE UserStep
    <2>1. save[e].words \cap draft = {} /\ save'[e] = save[e]
      BY <1>1, <1>3, UserStepChanges
    <2>2. CASE Typing
      BY <1>0, <2>1, <2>2 DEF Typing, Typed
    <2>3. CASE draft' = draft \/ draft' = {}
      BY <2>1, <2>3
    <2> QED BY <1>3, <2>2, <2>3, UserStepTexts
  <1>4. CASE Submit
    <2>1. PICK s \in Saves : /\ \A a \in Saves : a # s => save'[a] = save[a]
                             /\ save'[s].st \in {"paused", "sent"}
      BY <1>0, <1>4, SubmitChanges
    <2>2. CASE look.guards
      <3>1. e # s /\ Done(e)
        BY <2>1, <2>2
      <3> QED BY <1>1, <1>4, <2>1, <3>1, SubmitTexts
    <2>3. CASE ~look.guards
      BY <1>2, <1>4, <2>3 DEF Submit
    <2> QED BY <2>2, <2>3
  <1>5. ASSUME NEW s \in Saves, SaveStep(s) PROVE save'[e].words \cap draft' = {}
    <2>1. draft' = draft \/ draft' = {}
      BY <1>0, <1>5, SaveStepTexts
    <2>2. CASE e # s
      <3>1. save'[e] = save[e]
        BY <1>0, <1>5, <2>2, SaveStepChanges
      <3> QED BY <1>1, <2>1, <3>1
    <2>3. CASE e = s /\ ~look.guards
      BY <1>0, <1>1, <1>2, <1>5, <2>1, <2>3, SaveStepTexts
    <2>4. CASE e = s /\ look.guards
      <3> USE <1>0 DEF TypeOK
      <3>1. Done(e)'
        BY <2>4
      <3>2. ~Resume(s) /\ ~Make(s) /\ ~SecondWorks(s)
        BY <2>4, <3>1 DEF Resume, Make, SecondWorks
      <3>3. ~LoseAnswer(s) /\ ~Succeed(s)
        BY <2>4, <3>1 DEF LoseAnswer, Succeed
      <3>4. Fail(s) /\ save[s].made
        BY <1>5, <2>4, <3>1, <3>2, <3>3 DEF SaveStep, Fail
      <3>5. save[s].st = "half" /\ look.second = "closes"
        BY <1>2, <3>4 DEF Fail, SaveShape
      <3>6. draft' = {}
        BY <3>4, <3>5 DEF Fail, TakeAway
      <3> QED BY <3>6
    <2> QED BY <2>2, <2>3, <2>4
  <1> QED BY <1>3, <1>4, <1>5, NextCases

LEMMA SendStep ==
  ASSUME Shape, Parted, [Next]_vars, form \notin SendsTwice, NEW s \in Saves, save[s].st = "no", save'[s].st # "no"
  PROVE  ~Again(s)
  <1>0. TypeOK /\ Serial
    BY DEF Shape
  <1>1. Submit
    <2>1. ~UserStep
      BY UserStepChanges
    <2>2. ASSUME NEW e \in Saves, SaveStep(e) PROVE FALSE
      BY <1>0, <2>2, SaveStepChanges DEF UnderWay
    <2> QED BY <2>1, <2>2, NextCases
  <1>2. save'[s].words = draft
    BY <1>0, <1>1, SubmitChanges
  <1>3. SUFFICES ASSUME NEW e \in Used, save[e].words \cap draft # {},
                        UnderWay(e) \/ (save[e].st = "refused" /\ save[e].made /\ ~save[e].lost)
                 PROVE  FALSE
    BY <1>2 DEF Again
  <1>4. e \in Saves
    BY DEF Used
  <1>5. look.guards /\ UnderWay(e)
    BY <1>3, <1>4 DEF Parted
  <1>6. ~IsPending
    BY <1>1, <1>5 DEF Submit
  <1> QED BY <1>0, <1>4, <1>5, <1>6, IdleForm

-----------------------------------------------------------------------------
LEMMA InitInvariant == Init => IInv
  <1> SUFFICES ASSUME Init PROVE IInv
    OBVIOUS
  <1>1. Shape
    BY InitShape
  <1>2. \A s \in Saves : save[s].st = "no" /\ save[s].words = {}
    BY DEF Init, NoSave
  <1>3. draft = {} /\ gone = {} /\ \A w \in Words : meant[w] = Nowhere
    BY DEF Init
  <1>4. Waiting /\ Covered
    BY <1>2 DEF Waiting, Covered, UnderWay
  <1>5. AllSafe
    BY <1>3 DEF AllSafe
  <1>6. Parted /\ Meant /\ DeletedIsClosed
    BY <1>2, <1>3 DEF Parted, Meant, DeletedIsClosed
  <1> QED BY <1>1, <1>4, <1>5, <1>6 DEF IInv

LEMMA Invariance == Spec => []IInv
  <1>1. IInv /\ [Next]_vars => IInv'
    <2> SUFFICES ASSUME IInv, [Next]_vars PROVE IInv'
      OBVIOUS
    <2>1. /\ Shape /\ TypeOK /\ Typed
          /\ Waiting /\ Covered /\ AllSafe /\ Parted /\ Meant /\ DeletedIsClosed
      BY DEF IInv, Shape
    <2>2. Shape' /\ Waiting' /\ Covered' /\ AllSafe'
      BY <2>1, ShapeStep, WaitingStep, CoveredStep, SafeStep
    <2>3. Parted' /\ Meant' /\ DeletedIsClosed'
      BY <2>1, PartedStep, MeantStep, DeletedStep
    <2> QED BY <2>2, <2>3 DEF IInv
  <1> QED BY <1>1, InitInvariant, PTL DEF Spec

(* Whatever the form and however often the network fails, a word that was  *)
(* typed and not given up is in the inputs, on its way, or on the server;  *)
(* the forms that can lose it are those that the table of Editors names.   *)
THEOREM TextIsKept == Spec => []TextSurvives
  <1>1. IInv => TextSurvives
    <2> SUFFICES ASSUME IInv PROVE TextSurvives
      OBVIOUS
    <2>1. TypeOK
      BY DEF IInv, Shape
    <2>2. ASSUME NEW w \in Words, Safe(w)
          PROVE  \/ w \in draft \/ w \in dropped \/ Carried(w)
                 \/ w \in wiped /\ form \in WipesLater
                 \/ w \in swapped /\ form \in SwapsPaused
                 \/ form \in LosesRefused /\ \E s \in Saves : w \in save[s].words
      BY <2>2 DEF Safe, Carried
    <2> QED BY <2>1, <2>2 DEF IInv, AllSafe, TextSurvives
  <1> QED BY <1>1, Invariance, PTL

(* A save that was made carries the text of the record it was made for,    *)
(* also when it waited while another record was opened.                    *)
THEOREM TextStaysWithItsRecord == Spec => []SavedWhereMeant
  <1>1. IInv => SavedWhereMeant
    BY DEF IInv, Meant, SavedWhereMeant
  <1> QED BY <1>1, Invariance, PTL

(* No editor is open for a record that has been deleted, whatever was      *)
(* opened between the confirmation and the answer.                         *)
THEOREM NoEditorOfTheDeleted == Spec => []DeletedIsClosed
  <1>1. IInv => DeletedIsClosed
    BY DEF IInv
  <1> QED BY <1>1, Invariance, PTL

(* No press of the button sends what is under way or has been done.        *)
THEOREM NothingSentTwice == Spec => SentOnce
  <1>1. IInv /\ [Next]_vars =>
          [\A s \in Saves : save[s].st = "no" /\ save'[s].st # "no" => form \in SendsTwice \/ ~Again(s)]_vars
    BY SendStep DEF IInv
  <1> QED BY <1>1, Invariance, PTL DEF Spec, SentOnce
=============================================================================
