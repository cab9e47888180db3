----------------------------- MODULE SceneFacts -----------------------------
(***************************************************************************)
(* What the tables of the pages have in common, row for row: the facts     *)
(* about them that the promises of the cache rest on.                      *)
(***************************************************************************)
EXTENDS DashboardScenes

(* A mutation that patches the lists cancels them first and reads them     *)
(* again in the end; one that changes rows of the query reads it again     *)
(* (but for LeavesStale), and after a failure too if it reports success.   *)
CourseFits(c) ==
  /\ c.retries \in 0..1
  /\ c.cancels => c.settles /\ c.refetches
  /\ c.patches => c.cancels
  /\ c.touches /\ c.staysCurrent => c.refetches
  /\ c.touches /\ c.saysDone => c.settles
  /\ c.doneIsDone => ~c.saysDone

(* Before a component says "none" or breaks it has tested whether there    *)
(* are data yet and whether the load failed.                               *)
LookFits(look) ==
  /\ look.tests \in Seq(STRING \X STRING)
  /\ \A k \in DOMAIN look.tests : look.tests[k][2] \in {"none", "crash"} =>
       /\ look.tests[k] \in {<<"unknown", "none">>, <<"unknown", "crash">>, <<"empty", "none">>}
       /\ \E j \in 1..(k - 1) : look.tests[j][1] \in {"loading", "unknown", "empty", "always"}
       /\ \E j \in 1..(k - 1) : look.tests[j][1] \in {"error", "failed", "unknown", "empty", "always"}

ASSUME ScenesAssumption ==
  \A s \in Scenes : CourseFits(s.course) /\ \A look \in s.looks : look.emptyIsKnown => LookFits(look)
=============================================================================
