------------------------------ MODULE JobLedger ------------------------------
(***************************************************************************)
(* What the job queue promises whoever hands it a job, without lists,      *)
(* workers or processes: a job that was accepted is owed until it is done, *)
(* buried among the dead letters or gone; only what is owed is run, and no *)
(* more than MaxRuns times; nothing is done that was not run, nothing with *)
(* a handler is buried before it was run that often, and no job comes back *)
(* from where it ended.                                                    *)
(***************************************************************************)
EXTENDS Naturals

CONSTANTS
  Jobs,
  Unknown,  \* jobs without a handler
  MaxRuns   \* how often a handler may be started

VARIABLES
  accepted, \* jobs whose caller got a job id
  done,     \* their handler returned
  buried,   \* dead letters
  gone,     \* dropped, lost or trimmed
  runs      \* how often each was run

ledger == <<accepted, done, buried, gone, runs>>

Owed == accepted \ (done \cup buried \cup gone)

Init ==
  /\ accepted = {} /\ done = {} /\ buried = {} /\ gone = {}
  /\ runs = [j \in Jobs |-> 0]

(* A full list drops the job, and the caller gets an id all the same.      *)
Accept(j) ==
  /\ j \notin accepted /\ accepted' = accepted \cup {j}
  /\ gone' \in {gone, gone \cup {j}}
  /\ UNCHANGED <<done, buried, runs>>

Run(j) ==
  /\ j \in Owed \ Unknown /\ runs[j] < MaxRuns
  /\ runs' = [runs EXCEPT ![j] = @ + 1]
  /\ UNCHANGED <<accepted, done, buried, gone>>

Finish(j) ==
  /\ j \in Owed /\ runs[j] > 0
  /\ done' = done \cup {j}
  /\ UNCHANGED <<accepted, buried, gone, runs>>

(* The list of dead letters is trimmed from its old end.                   *)
Bury(j) ==
  /\ j \in Owed /\ (j \in Unknown \/ runs[j] = MaxRuns)
  /\ \E trimmed \in SUBSET (buried \cup {j}) :
       /\ buried' = (buried \cup {j}) \ trimmed
       /\ gone' = gone \cup trimmed
  /\ UNCHANGED <<accepted, done, runs>>

(* A full list, a broken broker, or the end of the tasks that held them.   *)
Drop ==
  /\ \E jobs \in SUBSET Owed : gone' = gone \cup jobs
  /\ UNCHANGED <<accepted, done, buried, runs>>

Next == Drop \/ \E j \in Jobs : Accept(j) \/ Run(j) \/ Finish(j) \/ Bury(j)

Spec == Init /\ [][Next]_ledger

-----------------------------------------------------------------------------
(* No handler is started more often than that, and the dead letters were   *)
(* started exactly as often, or have none.                                 *)
WithinBudget ==
  /\ \A j \in Jobs : runs[j] <= MaxRuns
  /\ \A j \in buried \ Unknown : runs[j] = MaxRuns
=============================================================================
