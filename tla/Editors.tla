------------------------------ MODULE Editors ------------------------------
(***************************************************************************)
(* One form of the dashboard with the user who types in it and the saves   *)
(* it sends: what is in the inputs, for which record, what is under way,   *)
(* what the server has.  A behaviour begins by choosing the form.          *)
(*                                                                         *)
(* Text is a set of words, each typed once; a checked row of a list is a   *)
(* word too.  The rules of a mutation (paused without a network; when it   *)
(* is resumed, the function of the latest render is called) are those of   *)
(* @tanstack/react-query 5, which is not part of the repository.           *)
(***************************************************************************)
EXTENDS EditorForms, FiniteSets, FiniteSetsExt

CONSTANTS
  Words,    \* what the user types
  Records,  \* the records that can be edited
  Attempts, \* saves are numbered 1..Attempts (bounds the model)
  Own,      \* no record: the row to create, or the only one there is
  Nowhere   \* no editor, not yet written

Targets == Records \cup {Own}
Saves == 1..Attempts

ASSUME EditorsAssumption ==
  /\ Attempts \in Nat /\ IsFiniteSet(Words)
  /\ Own \notin Records /\ Nowhere \notin Targets

(* Forms that wipe what was typed while a save was under way: the inputs   *)
(* stay enabled, and success empties, reseeds or closes them.              *)
WipesLater ==
  {"AlertSelection", "IncidentSelection", "AlertNote", "IncidentNote", "AddHost", "MaintenanceWindow", "CorrelationRule", "ReferenceSet",
   "ReferenceDescription", "ReferenceEntries", "BuildingBlock", "BuildingBlockEdit", "SearchSave", "TeamInvite", "TeamProvision",
   "Playbook", "NotificationRule", "Delivery", "Password", "MfaEnable", "MfaDisable", "Login", "MfaCode", "Register", "AcceptInvite",
   "ForgotPassword", "ResetPassword"}

(* Forms that empty their inputs before they know that the save worked.    *)
LosesRefused == {"CaseNote", "SearchRename", "Assistant"}

(* A save that waits for the network is replaced by what is open later.    *)
SwapsPaused == {"CorrelationRule"}

(* Forms that carry the text of one record over to another.                *)
SavesElsewhere == {"CaseNote", "ReferenceDescription", "ReferenceEntries", "Assistant"}

(* Forms that send the same again: shortcuts that look at no isPending;    *)
(* an account that was created although signing in to it failed.           *)
SendsTwice == {"AlertSelection", "IncidentSelection", "Register"}

(* The editor of a deleted rule stays open: the handler looks at           *)
(* pendingDelete, which the dialog has cleared.                            *)
KeepsDeleted == {"CorrelationRule"}

-----------------------------------------------------------------------------
VARIABLES
  form,     \* the form of this behaviour
  open,     \* what it is open for
  draft,    \* the words in its inputs
  meant,    \* the record that was open when each word was typed
  dropped,  \* words that the user gave up
  wiped,    \* words that the code took out of the inputs
  swapped,  \* words that a waiting save no longer carries
  save,     \* each save: [st, target, words, made, lost]
  deleting, \* the record being deleted
  gone,     \* the records that have been deleted
  listed,   \* those of them whose row, with the editor in it, is still there
  online    \* the browser has a network

textVars == <<draft, meant, dropped, wiped, swapped>>
recordVars == <<deleting, gone, listed>>
vars == <<form, open, textVars, save, recordVars, online>>

Steps == {"no", "paused", "sent", "half", "answered", "refused", "over"}

TypeOK ==
  /\ form \in Forms /\ open \in Targets \cup {Nowhere} /\ online \in BOOLEAN
  /\ draft \subseteq Words /\ meant \in [Words -> Targets \cup {Nowhere}]
  /\ dropped \subseteq Words /\ wiped \subseteq Words /\ swapped \subseteq Words
  /\ save \in [Saves -> [st : Steps, target : Targets \cup {Nowhere}, words : SUBSET Words, made : BOOLEAN, lost : BOOLEAN]]
  /\ deleting \in Records \cup {Nowhere} /\ gone \subseteq Records /\ listed \subseteq gone

look == Looks[form]

(* What is open when nothing is being edited.                              *)
Rest == IF look.own /\ ~look.folds THEN Own ELSE Nowhere
Openable == (IF look.own THEN {Own} ELSE {}) \cup (IF look.records THEN Records \ (gone \ listed) ELSE {})

UnderWay(s) == save[s].st \in {"paused", "sent", "half", "answered"}
Used == {s \in Saves : save[s].st # "no"}
IsPending == Used # {} /\ UnderWay(Max(Used))

NoSave == [st |-> "no", target |-> Nowhere, words |-> {}, made |-> FALSE, lost |-> FALSE]

Init ==
  /\ form \in Forms
  /\ open = Rest /\ draft = {} /\ meant = [w \in Words |-> Nowhere]
  /\ dropped = {} /\ wiped = {} /\ swapped = {}
  /\ save = [s \in Saves |-> NoSave]
  /\ deleting = Nowhere /\ gone = {} /\ listed = {} /\ online = TRUE

-----------------------------------------------------------------------------
(* The user.                                                               *)

Type(w) ==
  /\ open # Nowhere /\ meant[w] = Nowhere
  /\ look.locks => ~IsPending
  /\ draft' = draft \cup {w} /\ meant' = [meant EXCEPT ![w] = open]
  /\ UNCHANGED <<form, open, dropped, wiped, swapped, save, recordVars, online>>

(* Another record, or the form for a new one.                              *)
Open(t) ==
  /\ t \in Openable \ {open}
  /\ open' = t
  /\ \/ look.onSwitch = "seeds" /\ draft' = {} /\ dropped' = dropped \cup draft
     \/ look.onSwitch = "keeps" /\ UNCHANGED <<draft, dropped>>
  /\ UNCHANGED <<form, meant, wiped, swapped, save, recordVars, online>>

(* The panel selects the row that another form of it has created.          *)
Select(r) ==
  /\ look.selected /\ r \in Openable \ {open}
  /\ open' = r
  /\ UNCHANGED <<form, textVars, save, recordVars, online>>

Close ==
  /\ look.closable /\ open # Nowhere
  /\ open' = Rest /\ draft' = {} /\ dropped' = dropped \cup draft
  /\ UNCHANGED <<form, meant, wiped, swapped, save, recordVars, online>>

(* Mutant: the button stays enabled while a save is under way.             *)
SubmitAgain ==
  /\ open # Nowhere /\ draft # {}
  /\ \E s \in Saves \ Used :
       /\ \A e \in Saves \ Used : s <= e
       /\ save' = [save EXCEPT ![s] = [NoSave EXCEPT
            !.st = IF look.pauses /\ ~online THEN "paused" ELSE "sent", !.target = open, !.words = draft]]
  /\ UNCHANGED <<form, open, textVars, recordVars, online>>

Submit ==
  /\ open # Nowhere /\ draft # {}
  /\ look.guards => ~IsPending
  /\ \E s \in Saves \ Used :
       /\ \A e \in Saves \ Used : s <= e
       /\ save' = [save EXCEPT ![s] = [NoSave EXCEPT
            !.st = IF look.pauses /\ ~online THEN "paused" ELSE "sent", !.target = open, !.words = draft]]
  /\ open' = IF look.onSubmit = "closes" THEN Rest ELSE open
  /\ draft' = IF look.onSubmit = "keeps" THEN draft ELSE {}
  /\ UNCHANGED <<form, meant, dropped, wiped, swapped, recordVars, online>>

-----------------------------------------------------------------------------
(* A save.                                                                 *)

(* mutationFn is called, with what the latest render has closed over.      *)
Resume(s) ==
  /\ save[s].st = "paused" /\ online
  /\ save' = [save EXCEPT ![s].st = "sent",
       ![s].words = IF look.sendsLatest THEN draft ELSE @,
       ![s].target = CASE ~look.landsLatest -> @ [] look.own /\ open = Nowhere -> Own [] OTHER -> open]
  /\ IF look.sendsLatest
     THEN swapped' = swapped \cup (save[s].words \ draft) /\ dropped' = dropped \ save[s].words
     ELSE UNCHANGED <<swapped, dropped>>
  /\ UNCHANGED <<form, open, draft, meant, wiped, recordVars, online>>

(* The server does it.                                                     *)
Make(s) ==
  /\ save[s].st = "sent" /\ online
  /\ save[s].target \in Targets \ gone
  /\ save' = [save EXCEPT ![s].made = TRUE, ![s].st = IF look.second = "none" THEN "answered" ELSE "half"]
  /\ UNCHANGED <<form, open, textVars, recordVars, online>>

SecondWorks(s) ==
  /\ save[s].st = "half" /\ online
  /\ save' = [save EXCEPT ![s].st = "answered"]
  /\ UNCHANGED <<form, open, textVars, recordVars, online>>

(* The code takes the text away and closes the editor.                     *)
TakeAway(saved, closes) ==
  /\ open' = IF closes THEN Rest ELSE open
  /\ draft' = {} /\ wiped' = wiped \cup (draft \ saved)

(* onError.                                                                *)
Fail(s) ==
  /\ \/ save[s].st = "sent"
     \/ save[s].st = "half"
  /\ save' = [save EXCEPT ![s].st = "refused"]
  /\ IF save[s].st = "half" /\ look.second = "closes"
     THEN TakeAway(save[s].words, TRUE)
     ELSE UNCHANGED <<open, draft, wiped>>
  /\ UNCHANGED <<form, meant, dropped, swapped, recordVars, online>>

(* The server has done it, and its answer does not arrive.                 *)
LoseAnswer(s) ==
  /\ save[s].st = "answered"
  /\ save' = [save EXCEPT ![s].st = "refused", ![s].lost = TRUE]
  /\ UNCHANGED <<form, open, textVars, recordVars, online>>

(* onSuccess.                                                              *)
Succeed(s) ==
  /\ save[s].st = "answered"
  /\ save' = [save EXCEPT ![s].st = "over"]
  /\ IF look.onDone = "keeps"
     THEN UNCHANGED <<open, draft, wiped>>
     ELSE TakeAway(save[s].words, look.onDone = "closes")
  /\ UNCHANGED <<form, meant, dropped, swapped, recordVars, online>>

(* The success of switching a record on or off runs the same onSuccess.    *)
Toggle ==
  /\ look.toggles /\ online /\ open # Nowhere
  /\ TakeAway({}, TRUE)
  /\ UNCHANGED <<form, meant, dropped, swapped, save, recordVars, online>>

-----------------------------------------------------------------------------
(* A record is deleted.                                                    *)

Delete(r) ==
  /\ look.removal # "none" /\ deleting = Nowhere /\ r \notin gone /\ online
  /\ deleting' = r
  /\ UNCHANGED <<form, open, textVars, save, gone, listed, online>>

Deleted ==
  /\ deleting # Nowhere
  /\ gone' = gone \cup {deleting} /\ deleting' = Nowhere
  /\ listed' = IF look.removal = "row" THEN listed \cup {deleting} ELSE listed
  /\ \/ /\ open = deleting /\ look.removal = "always"
        /\ open' = Rest
        /\ \/ look.onSwitch = "seeds" /\ draft' = {} /\ dropped' = dropped \cup draft
           \/ look.onSwitch = "keeps" /\ UNCHANGED <<draft, dropped>>
        /\ UNCHANGED wiped
     \/ /\ open # deleting /\ look.removal = "always"
        /\ IF look.onSwitch = "seeds" THEN TakeAway({}, TRUE) ELSE open' = Rest /\ UNCHANGED <<draft, wiped>>
        /\ UNCHANGED dropped
     \/ /\ look.removal \in {"row", "never"}
        /\ UNCHANGED <<open, draft, dropped, wiped>>
  /\ UNCHANGED <<form, meant, swapped, save, online>>

NotDeleted == deleting # Nowhere /\ deleting' = Nowhere /\ UNCHANGED <<form, open, textVars, save, gone, listed, online>>

(* The list is read again, and a deleted record's row leaves the page with *)
(* the editor in it (nothing in the success of the deletion closes it).    *)
ListReadAgain ==
  /\ look.removal = "row" /\ listed # {} /\ online
  /\ listed' = {}
  /\ IF open \in listed
     THEN open' = Rest /\ draft' = {} /\ dropped' = dropped \cup draft
     ELSE UNCHANGED <<open, draft, dropped>>
  /\ UNCHANGED <<form, meant, wiped, swapped, save, deleting, gone, online>>

-----------------------------------------------------------------------------
(* The network.                                                            *)

GoOffline == online /\ online' = FALSE /\ UNCHANGED <<form, open, textVars, save, recordVars>>
GoOnline == ~online /\ online' = TRUE /\ UNCHANGED <<form, open, textVars, save, recordVars>>

Next ==
  \/ \E w \in Words : Type(w)
  \/ \E t \in Targets : Open(t)
  \/ \E r \in Records : Select(r) \/ Delete(r)
  \/ Close \/ Submit \/ Toggle \/ Deleted \/ NotDeleted \/ ListReadAgain \/ GoOffline \/ GoOnline
  \/ \E s \in Saves : Resume(s) \/ Make(s) \/ SecondWorks(s) \/ Fail(s) \/ LoseAnswer(s) \/ Succeed(s)

Spec == Init /\ [][Next]_vars

-----------------------------------------------------------------------------
(* Properties.                                                             *)

Carried(w) == \E s \in Saves : w \in save[s].words /\ (UnderWay(s) \/ save[s].made)

(* What the user has typed and not given up is in the inputs, on its way,  *)
(* or on the server (the onSuccess, onError and submit handlers of every   *)
(* form, and the resumption of a save that waited for the network).        *)
TextSurvives ==
  /\ TypeOK
  /\ \A w \in Words : meant[w] # Nowhere =>
       \/ w \in draft \/ w \in dropped \/ Carried(w)
       \/ w \in wiped /\ form \in WipesLater
       \/ w \in swapped /\ form \in SwapsPaused
       \/ form \in LosesRefused /\ \E s \in Saves : w \in save[s].words

(* What was typed for a record is not saved with another (the text that an *)
(* editor keeps when it is opened for the next record, and the record that *)
(* a save goes to after waiting).                                          *)
SavedWhereMeant ==
  form \in SavesElsewhere \/ \A s \in Saves : save[s].made => \A w \in save[s].words : meant[w] = save[s].target

(* A deleted record has no open editor, whatever was open when its         *)
(* deletion was confirmed, except in a row that the list still shows (the  *)
(* onSuccess of each deletion).                                            *)
DeletedIsClosed == form \in KeepsDeleted \/ open \notin gone \ listed

(* Nothing is sent again while it is under way, or after it was done       *)
(* unless its answer was lost (the loading state of each button).          *)
Again(s) ==
  \E e \in Used : /\ save[e].words \cap save'[s].words # {}
                  /\ \/ UnderWay(e)
                     \/ save[e].st = "refused" /\ save[e].made /\ ~save[e].lost

SentOnce ==
  [][\A s \in Saves : save[s].st = "no" /\ save'[s].st # "no" => form \in SendsTwice \/ ~Again(s)]_vars
=============================================================================
