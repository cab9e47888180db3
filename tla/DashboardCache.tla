--------------------------- MODULE DashboardCache ---------------------------
(***************************************************************************)
(* One query of a page, the component that shows it and one mutation of    *)
(* the same page, in the query client of the dashboard: which answer the   *)
(* cache holds, which requests are under way, what the screen shows.  A    *)
(* behaviour begins by choosing the three from the tables of the pages.    *)
(*                                                                         *)
(* The answer is the set of the rows that match the filter; a change adds  *)
(* or removes one row.  Row k is the user's k-th change, Theirs is changed *)
(* by others.  The rules of the client itself (fetching, retrying,         *)
(* cancelling, pausing without a network) are those of @tanstack/react-    *)
(* query 5, which is not part of the repository.                           *)
(***************************************************************************)
EXTENDS DashboardScenes, FiniteSets, FiniteSetsExt

CONSTANTS
  Changes,      \* the user's changes, each to the row of the same name
  Theirs,       \* the row that others change
  Filters,      \* the filters of a list
  Matching,     \* the rows that match each filter
  Disturbances, \* faults, filters, changes, ... to come (bounds the model)
  Unknown       \* no data

Rows == Changes \cup {Theirs}

ASSUME CacheAssumption ==
  /\ Theirs \notin Changes /\ IsFiniteSet(Changes)
  /\ Matching \in [Filters -> SUBSET Rows]
  /\ \E f \in Filters : \A g \in Filters : f <= g
  /\ Disturbances \in Nat
  /\ \A S \in SUBSET Rows : Unknown # S

-----------------------------------------------------------------------------
VARIABLES
  scene,     \* the component and the mutation of this behaviour
  served,    \* the rows there are
  online,    \* the browser has a network
  filter,    \* the filter of the list
  cache,     \* the last answer for each filter
  fetch,     \* the request for each filter
  overtaken, \* filters whose request was invalidated and went on all the same
  change,    \* the mutation of each row
  before,    \* the snapshot of each optimistic mutation
  said,      \* what the user was told of each change
  applied,   \* changes that the server has made
  window,    \* the throttle of the live feed's invalidations
  news,      \* the message about Theirs
  left       \* disturbances to come

queryVars == <<filter, cache, fetch, overtaken>>
changeVars == <<change, before, said, applied>>
feedVars == <<window, news>>
cacheVars == <<scene, served, online, queryVars, changeVars, feedVars, left>>

Answer == (SUBSET Rows) \cup {Unknown}

CacheTypes ==
  /\ scene \in Scenes /\ served \in SUBSET Rows /\ online \in BOOLEAN /\ filter \in Filters
  /\ cache \in [Filters -> [rows : Answer, failed : BOOLEAN, stale : BOOLEAN]]
  /\ fetch \in [Filters -> [st : {"idle", "asking", "paused"}, tries : 0..1, got : Answer]]
  /\ overtaken \subseteq Filters
  /\ change \in [Changes -> {"no", "paused", "sent", "taken", "refused", "over"}]
  /\ before \in [Changes -> [Filters -> Answer]]
  /\ said \in [Changes -> {"nothing", "done", "failed"}] /\ applied \subseteq Changes
  /\ window \in {"open", "closed", "armed", "due"} /\ news \in {"none", "unsent", "heard"}
  /\ left \in 0..Disturbances

Idle == [st |-> "idle", tries |-> 0, got |-> Unknown]
Asking == [st |-> IF online THEN "asking" ELSE "paused", tries |-> scene.course.retries, got |-> Unknown]
NoSnapshot == [f \in Filters |-> Unknown]

CacheInit ==
  /\ scene \in Scenes /\ served \in {{}, Rows} /\ online = TRUE
  /\ filter = CHOOSE f \in Filters : \A g \in Filters : f <= g
  /\ cache = [f \in Filters |-> [rows |-> Unknown, failed |-> FALSE, stale |-> FALSE]]
  /\ fetch = [f \in Filters |-> IF f = filter THEN Asking ELSE Idle]
  /\ overtaken = {}
  /\ change = [i \in Changes |-> "no"] /\ before = [i \in Changes |-> NoSnapshot]
  /\ said = [i \in Changes |-> "nothing"] /\ applied = {}
  /\ window = "open" /\ news = "none"
  /\ left = Disturbances

Disturb == left > 0 /\ left' = left - 1

Toggle(S, r) == IF r \in S THEN S \ {r} ELSE S \cup {r}

-----------------------------------------------------------------------------
(* What the component sees of the query, and what it shows.                *)

Busy(f) == fetch[f].st # "idle"
Pending == cache[filter].rows = Unknown /\ (Busy(filter) \/ ~cache[filter].failed)
IsError == cache[filter].failed /\ ~Pending

(* keepPreviousData: the last data of the list, until there is an answer.  *)
Placeholder ==
  IF scene.course.keeps /\ Pending /\ \E f \in Filters : cache[f].rows # Unknown
    THEN cache[CHOOSE f \in Filters : cache[f].rows # Unknown].rows ELSE Unknown

Data == IF cache[filter].rows # Unknown THEN cache[filter].rows ELSE Placeholder

Holds(test) ==
  CASE test = "loading" -> Pending /\ Data = Unknown /\ fetch[filter].st = "asking"
    [] test = "error"   -> IsError
    [] test = "failed"  -> IsError /\ Data = Unknown
    [] test = "unknown" -> Data = Unknown
    [] test = "empty"   -> Data \in {Unknown, {}}
    [] test = "always"  -> TRUE

Screen(tests) ==
  LET hits == {k \in DOMAIN tests : Holds(tests[k][1])}
  IN  IF hits = {} THEN "data" ELSE tests[Min(hits)][2]

-----------------------------------------------------------------------------
(* Requests.                                                               *)

Read(f) ==
  /\ fetch[f].st = "asking" /\ fetch[f].got = Unknown
  /\ fetch' = [fetch EXCEPT ![f].got = served \cap Matching[f]]
  /\ UNCHANGED <<scene, served, online, filter, cache, overtaken, changeVars, feedVars, left>>

Arrive(f) ==
  /\ fetch[f].got # Unknown
  /\ cache' = [cache EXCEPT ![f] = [rows |-> fetch[f].got, failed |-> FALSE, stale |-> FALSE]]
  /\ fetch' = [fetch EXCEPT ![f] = Idle]
  /\ UNCHANGED <<scene, served, online, filter, overtaken, changeVars, feedVars, left>>

(* It fails, or its answer is lost: tried again, or given up.              *)
Fail(f) ==
  /\ fetch[f].st = "asking" /\ Disturb
  /\ IF fetch[f].tries > 0
       THEN fetch' = [fetch EXCEPT ![f] = [Asking EXCEPT !.tries = fetch[f].tries - 1]] /\ UNCHANGED cache
       ELSE fetch' = [fetch EXCEPT ![f] = Idle] /\ cache' = [cache EXCEPT ![f].failed = TRUE]
  /\ UNCHANGED <<scene, served, online, filter, overtaken, changeVars, feedVars>>

Begin(f) ==
  /\ fetch' = [fetch EXCEPT ![f] = Asking] /\ overtaken' = overtaken \ {f}

(* The interval of a polled query, or the button of a fault notice.        *)
AskAgain ==
  /\ Disturb
  /\ \/ scene.course.polled /\ online /\ ~Busy(filter)
     \/ \E look \in scene.looks : Screen(look.tests) = "fault" /\ ~Busy(filter)
  /\ Begin(filter)
  /\ UNCHANGED <<scene, served, online, filter, cache, changeVars, feedVars>>

(* Another filter: another key.  What is cached for it is read again when  *)
(* it was invalidated or is older than staleTime.  A request that nobody   *)
(* looks at any more goes on, without its retries.                         *)
Switch(f) ==
  /\ scene.course.keeps /\ f # filter /\ Disturb
  /\ filter' = f
  /\ \E again \in BOOLEAN :
       /\ cache[f].rows = Unknown \/ cache[f].stale => again
       /\ fetch' = [fetch EXCEPT ![filter].tries = 0, ![f] = IF again /\ ~Busy(f) THEN Asking ELSE @]
       /\ overtaken' = IF again /\ ~Busy(f) THEN overtaken \ {f} ELSE overtaken
  /\ UNCHANGED <<scene, served, online, cache, changeVars, feedVars>>

GoOffline ==
  /\ online /\ Disturb /\ online' = FALSE
  /\ UNCHANGED <<scene, served, queryVars, changeVars, feedVars>>

(* What was paused goes on; a stale answer is read again.                  *)
GoOnline ==
  /\ ~online /\ online' = TRUE
  /\ \E again \in BOOLEAN :
       /\ cache[filter].stale => again
       /\ fetch' = [f \in Filters |->
            IF fetch[f].st = "paused" THEN [fetch[f] EXCEPT !.st = "asking"]
            ELSE IF f = filter /\ again /\ ~Busy(f) THEN [Asking EXCEPT !.st = "asking"] ELSE fetch[f]]
       /\ overtaken' = IF again /\ ~Busy(filter) THEN overtaken \ {filter} ELSE overtaken
  /\ change' = [i \in Changes |-> IF change[i] = "paused" THEN "sent" ELSE change[i]]
  /\ UNCHANGED <<scene, served, filter, cache, before, said, applied, feedVars, left>>

(* invalidateQueries on the cache c: the shown query is read again, and a  *)
(* request of it is started anew.  One that loads the first answer is left *)
(* to run, and so is one of a filter that is not shown.                    *)
Invalidate(c) ==
  LET anew == {f \in {filter} : ~Busy(f) \/ c[f].rows # Unknown}
  IN  /\ cache' = [f \in Filters |-> [c[f] EXCEPT !.stale = c[f].rows # Unknown]]
      /\ fetch' = [f \in Filters |-> IF f \in anew THEN Asking ELSE fetch[f]]
      /\ overtaken' = (overtaken \ anew) \cup {f \in Filters \ anew : Busy(f)}

-----------------------------------------------------------------------------
(* Changes of the user.                                                    *)

(* Which data onMutate stores anew, changed or not: all under its key, or  *)
(* the list alone.                                                         *)
Writes == scene.course.inList => scene.course.patches

(* onMutate: cancelQueries, the snapshot, setQueriesData.                  *)
Optimise(i) ==
  /\ fetch' = [f \in Filters |-> Idle]
  /\ before' = [before EXCEPT ![i] = [f \in Filters |-> IF Writes THEN cache[f].rows ELSE Unknown]]
  /\ cache' = [f \in Filters |->
       IF cache[f].rows = Unknown \/ ~Writes THEN cache[f]
       ELSE [rows |-> IF scene.course.patches /\ i \in Matching[f] THEN Toggle(cache[f].rows, i) ELSE cache[f].rows,
             failed |-> FALSE, stale |-> FALSE]]
  /\ UNCHANGED overtaken

(* A switch of the list itself needs the list.                             *)
Mutate(i) ==
  /\ change[i] = "no" /\ scene.course.touches /\ Disturb
  /\ scene.course.inList => cache[filter].rows # Unknown
  /\ change' = [change EXCEPT ![i] = IF online THEN "sent" ELSE "paused"]
  /\ IF scene.course.cancels THEN Optimise(i) ELSE UNCHANGED <<cache, fetch, overtaken, before>>
  /\ UNCHANGED <<scene, served, online, filter, said, applied, feedVars>>

Take(i) ==
  /\ change[i] = "sent"
  /\ change' = [change EXCEPT ![i] = "taken"]
  /\ served' = Toggle(served, i) /\ applied' = applied \cup {i}
  /\ UNCHANGED <<scene, online, queryVars, before, said, feedVars, left>>

(* Of several requests of a fan-out some may have been granted.            *)
RefuseChange(i) ==
  /\ change[i] = "sent" /\ Disturb
  /\ change' = [change EXCEPT ![i] = "refused"]
  /\ \/ UNCHANGED <<served, applied>>
     \/ scene.course.fansOut /\ served' = Toggle(served, i) /\ applied' = applied \cup {i}
  /\ UNCHANGED <<scene, online, queryVars, before, said, feedVars>>

(* onError puts the snapshot back.                                         *)
RolledBack(i) ==
  [f \in Filters |-> IF before[i][f] # Unknown
     THEN [rows |-> before[i][f], failed |-> FALSE, stale |-> FALSE] ELSE cache[f]]

Succeed(i) ==
  /\ change[i] = "taken"
  /\ change' = [change EXCEPT ![i] = "over"] /\ said' = [said EXCEPT ![i] = "done"]
  /\ before' = [before EXCEPT ![i] = NoSnapshot]
  /\ IF scene.course.refetches THEN Invalidate(cache) ELSE UNCHANGED <<cache, fetch, overtaken>>
  /\ UNCHANGED <<scene, served, online, filter, applied, feedVars, left>>

(* Refused, or the answer is lost, whatever has become of the request.     *)
Miscarry(i) ==
  /\ \/ change[i] = "refused" /\ UNCHANGED left
     \/ change[i] \in {"sent", "taken"} /\ Disturb
  /\ change' = [change EXCEPT ![i] = "over"]
  /\ said' = [said EXCEPT ![i] = IF scene.course.saysDone THEN "done" ELSE "failed"]
  /\ before' = [before EXCEPT ![i] = NoSnapshot]
  /\ IF scene.course.settles /\ scene.course.refetches THEN Invalidate(RolledBack(i))
     ELSE cache' = RolledBack(i) /\ UNCHANGED <<fetch, overtaken>>
  /\ UNCHANGED <<scene, served, online, filter, applied, feedVars>>

-----------------------------------------------------------------------------
(* Changes of others, and the messages of the live feed about them.        *)

OthersChange ==
  /\ news # "unsent" /\ Disturb
  /\ served' = Toggle(served, Theirs) /\ news' = "unsent"
  /\ UNCHANGED <<scene, online, queryVars, changeVars, window>>

(* scheduleInvalidation: the first key at once, unless a flush was less    *)
(* than two seconds ago; the others with the timer of the two seconds.     *)
(* Mutant: while the timer runs nothing is added to what it will flush.    *)
ScheduleOnce(place) ==
  IF window = "armed" \/ (place = "first" /\ window = "open")
    THEN /\ window' \in IF window = "open" THEN {"closed", "armed"} ELSE {window}
         /\ IF window = "open" THEN Invalidate(cache) ELSE UNCHANGED <<cache, fetch, overtaken>>
    ELSE window' = "due" /\ UNCHANGED <<cache, fetch, overtaken>>

Schedule(place) ==
  IF place = "first" /\ window = "open"
    THEN window' \in {"closed", "armed"} /\ Invalidate(cache)
    ELSE window' = "due" /\ UNCHANGED <<cache, fetch, overtaken>>

HearNews ==
  /\ news = "unsent" /\ news' = "heard"
  /\ \E place \in scene.course.heard : Schedule(place)
  /\ UNCHANGED <<scene, served, online, filter, changeVars, left>>

(* A message about something else.                                         *)
HearOther ==
  /\ window \in {"open", "closed"} /\ Disturb
  /\ window' \in IF window = "open" THEN {"closed", "armed"} ELSE {"armed"}
  /\ UNCHANGED <<scene, served, online, queryVars, changeVars, news>>

Flush ==
  /\ window \in {"armed", "due"} /\ window' = "closed"
  /\ IF window = "due" THEN Invalidate(cache) ELSE UNCHANGED <<cache, fetch, overtaken>>
  /\ UNCHANGED <<scene, served, online, filter, changeVars, news, left>>

TwoSecondsPass ==
  /\ window = "closed" /\ window' = "open"
  /\ UNCHANGED <<scene, served, online, queryVars, changeVars, news, left>>

CacheNext ==
  \/ \E f \in Filters : Read(f) \/ Arrive(f) \/ Fail(f) \/ Switch(f)
  \/ AskAgain \/ GoOffline \/ GoOnline
  \/ \E i \in Changes : Mutate(i) \/ Take(i) \/ RefuseChange(i) \/ Succeed(i) \/ Miscarry(i)
  \/ OthersChange \/ HearNews \/ HearOther \/ Flush \/ TwoSecondsPass

CacheSpec == CacheInit /\ [][CacheNext]_cacheVars

(* The server answers what it has received, and timers run out.            *)
CacheFairSpec ==
  /\ CacheSpec
  /\ \A f \in Filters : WF_cacheVars(Read(f)) /\ WF_cacheVars(Arrive(f))
  /\ \A i \in Changes : WF_cacheVars(Take(i) \/ RefuseChange(i)) /\ WF_cacheVars(Succeed(i) \/ Miscarry(i))
  /\ WF_cacheVars(HearNews) /\ WF_cacheVars(Flush)

-----------------------------------------------------------------------------
(* Properties.                                                             *)

Underway(i) == change[i] \in {"paused", "sent", "taken", "refused"}

(* A screen says "none" only of an answer that was empty, and never throws *)
(* for want of data, unless the browser is offline (the banner says so) or *)
(* a change of the user has just cancelled the first load.  The components *)
(* of FalselyEmpty say it before they have read or after they failed to.   *)
ScreensAreHonest ==
  \A look \in scene.looks : look.emptyIsKnown /\ Screen(look.tests) \in {"none", "crash"} =>
    \/ Screen(look.tests) = "none" /\ Data = {}
    \/ Data = Unknown /\ ~online
    \/ Data = Unknown /\ scene.course.cancels /\ \E i \in Changes : Underway(i)

Settled(i) == change[i] = "over" /\ (said[i] = "done" \/ scene.course.settles)

(* When everything has been answered, the rows shown are those the server  *)
(* has, for every change that was reported as done, and for a change with  *)
(* an optimistic patch whatever became of it, unless the answer was lost   *)
(* or the invalidation met a request that it does not restart.             *)
OwnChangesShown ==
  (\A i \in Changes : ~Underway(i)) /\ ~Busy(filter) /\ ~cache[filter].failed
      /\ filter \notin overtaken /\ cache[filter].rows # Unknown /\ scene.course.staysCurrent
    => \A i \in Changes \cap Matching[filter] :
         Settled(i) => (i \in cache[filter].rows <=> i \in served)

(* The same of a change of others that the live feed has announced.        *)
AnnouncedChangesShown ==
  (\A i \in Changes : ~Underway(i)) /\ ~Busy(filter) /\ ~cache[filter].failed
      /\ filter \notin overtaken /\ cache[filter].rows # Unknown
      /\ news = "heard" /\ window # "due" /\ Theirs \in Matching[filter]
    => (Theirs \in cache[filter].rows <=> Theirs \in served)

(* A change that is reported as done has been made, but for the mutations  *)
(* of DoneAnyway.                                                          *)
DoneIsDone ==
  /\ CacheTypes
  /\ \A i \in Changes : said[i] = "done" /\ scene.course.doneIsDone => i \in applied

Waiting == \E look \in scene.looks : Screen(look.tests) = "wait"

(* No screen waits for ever and every change is reported as done or as     *)
(* failed, as long as there is a network.                                  *)
ScreensSettle ==
  /\ Waiting ~> (~Waiting \/ ~online)
  /\ \A i \in Changes : (change[i] = "sent") ~> (said[i] # "nothing")
=============================================================================
