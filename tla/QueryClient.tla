---------------------------- MODULE QueryClient ----------------------------
(***************************************************************************)
(* The words in which the tables of the pages are written: what a useQuery *)
(* asks for, what a component shows for each state of it, and what a       *)
(* useMutation changes and invalidates.                                    *)
(***************************************************************************)
EXTENDS Integers, Sequences

(* A query: its key without parameters, and the kinds of rows its answer   *)
(* shows.  The defaults are those of createQueryClient: one retry.         *)
Query(key, rows) ==
  [key |-> key, rows |-> rows, keeps |-> FALSE, polled |-> FALSE, retries |-> 1]

KeepsPrevious(q) == [q EXCEPT !.keeps = TRUE]    \* placeholderData: keepPreviousData
AsksOnce(q) == [q EXCEPT !.retries = 0]          \* retry: false
Polled(q) == [q EXCEPT !.polled = TRUE]          \* refetchInterval

(* What a component tests, in the order of its branches, and what it then  *)
(* shows.  When no test holds it shows the data.                           *)
Waits == <<"loading", "wait">>
HidesLoading == <<"loading", "blank">>
Faults == <<"error", "fault">>
FaultsNoData == <<"failed", "fault">>
FaultsWithout == <<"unknown", "fault">>
Hides == <<"unknown", "blank">>
HidesError == <<"error", "blank">>
ShowsZero == <<"unknown", "none">>
Breaks == <<"unknown", "crash">>
FindsNone == <<"empty", "none">>    \* data ?? [] has no rows
HidesNone == <<"empty", "blank">>
AlwaysNone == <<"always", "none">>  \* the query is never enabled, or its rows filtered away

View(query, tests) == [query |-> query, tests |-> tests]
Inside(view, tests) == [view EXCEPT !.tests = @ \o tests]

(* A mutation: the kinds of rows it changes and the keys it invalidates.   *)
Act(rows, invalidates) ==
  [rows |-> rows, invalidates |-> invalidates, cancels |-> <<>>, patches |-> "none",
   settles |-> FALSE, saysDone |-> FALSE, fansOut |-> FALSE]

(* It invalidates after a failure too.                                     *)
Settling(act) == [act EXCEPT !.settles = TRUE]

(* onMutate cancels what is read under key and patches the cache; onError  *)
(* puts the snapshot back; onSettled invalidates.                          *)
Optimistic(act, key, patches) ==
  [Settling(act) EXCEPT !.cancels = key, !.patches = patches]

SaysDoneAnyway(act) == [act EXCEPT !.saysDone = TRUE]
FansOut(act) == [act EXCEPT !.fansOut = TRUE]    \* one request per row

Page(views, acts) == [views |-> views, acts |-> acts]
=============================================================================
