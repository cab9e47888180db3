--------------------------- MODULE JobQueueProofs ---------------------------
(***************************************************************************)
(* No job is lost from sight, run too often or counted twice, for any      *)
(* number of jobs, workers, retries, stops and outages; and the breakers   *)
(* behind which handlers make their outbound calls (CircuitBreaker) stay   *)
(* consistent, for any set of calls and any settings.                      *)
(***************************************************************************)
EXTENDS JobQueue, CircuitBreaker, FiniteSetTheorems, SequenceTheorems, TLAPS

-----------------------------------------------------------------------------
(* Lists of entries.                                                       *)

(* No job is twice in the list.                                            *)
Distinct(s) == \A i, k \in DOMAIN s : s[i].id = s[k].id => i = k

Elements(s) == {s[i] : i \in DOMAIN s}

LEMMA AppendedList ==
  ASSUME NEW s \in Seq(Entry), NEW e \in Entry
  PROVE  /\ Append(s, e) \in Seq(Entry)
         /\ Elements(Append(s, e)) = Elements(s) \cup {e}
         /\ IdsOf(Append(s, e)) = IdsOf(s) \cup {e.id}
         /\ Distinct(s) /\ e.id \notin IdsOf(s) => Distinct(Append(s, e))
<1> DEFINE t == Append(s, e)
<1>1. /\ t \in Seq(Entry) /\ Len(t) = Len(s) + 1 /\ Len(s) \in Nat
      /\ DOMAIN s = 1..Len(s) /\ DOMAIN t = 1..Len(t)
      /\ \A i \in 1..Len(s) : t[i] = s[i]
      /\ t[Len(s) + 1] = e
  BY AppendProperties, LenProperties
<1> HIDE DEF t
<1>2. Elements(t) = Elements(s) \cup {e}
  BY <1>1 DEF Elements
<1>3. IdsOf(t) = IdsOf(s) \cup {e.id}
  BY <1>1 DEF IdsOf
<1>4. Distinct(s) /\ e.id \notin IdsOf(s) => Distinct(t)
  BY <1>1 DEF Distinct, IdsOf
<1>5. QED
  BY <1>1, <1>2, <1>3, <1>4 DEF t

LEMMA ShortenedList ==
  ASSUME NEW s \in Seq(Entry), NEW i \in DOMAIN s
  PROVE  /\ RemoveAt(s, i) \in Seq(Entry)
         /\ Elements(RemoveAt(s, i)) \subseteq Elements(s)
         /\ Distinct(s) => Distinct(RemoveAt(s, i)) /\ IdsOf(RemoveAt(s, i)) = IdsOf(s) \ {s[i].id}
<1> DEFINE a == SubSeq(s, 1, i - 1)
           b == SubSeq(s, i + 1, Len(s))
           t == RemoveAt(s, i)
           n == Len(s)
<1>1. n \in Nat /\ DOMAIN s = 1..n /\ i \in 1..n /\ \A k \in 1..n : s[k] \in Entry
  BY LenProperties
<1>2. a \in Seq(Entry) /\ Len(a) = i - 1 /\ \A k \in 1..(i - 1) : a[k] = s[k]
  <2>1. i - 1 \in Int /\ \A k \in 1..(i - 1) : s[k] \in Entry
    BY <1>1
  <2>2. QED
    BY <2>1, <1>1, SubSeqProperties
<1>3. b \in Seq(Entry) /\ Len(b) = n - i /\ \A k \in 1..(n - i) : b[k] = s[k + i]
  <2>1. i + 1 \in Int /\ n \in Int /\ \A k \in (i + 1)..n : s[k] \in Entry
    BY <1>1
  <2>2. /\ b \in Seq(Entry) /\ Len(b) = IF i + 1 <= n THEN n - (i + 1) + 1 ELSE 0
        /\ \A k \in 1..(n - (i + 1) + 1) : b[k] = s[i + 1 + k - 1]
    BY <2>1, SubSeqProperties
  <2>3. QED
    BY <2>2, <1>1
<1> HIDE DEF a, b
<1>4. t = a \o b
  BY DEF RemoveAt, a, b
<1> HIDE DEF t, n
<1>5. /\ t \in Seq(Entry) /\ Len(t) = n - 1 /\ DOMAIN t = 1..(n - 1)
      /\ \A k \in 1..(n - 1) : t[k] = IF k < i THEN s[k] ELSE s[k + 1]
  <2>1. /\ t \in Seq(Entry) /\ Len(t) = Len(a) + Len(b)
        /\ \A k \in 1..(Len(a) + Len(b)) : t[k] = IF k <= Len(a) THEN a[k] ELSE b[k - Len(a)]
    BY <1>2, <1>3, <1>4, ConcatProperties
  <2>2. Len(t) = n - 1 /\ DOMAIN t = 1..(n - 1)
    BY <2>1, <1>1, <1>2, <1>3, LenProperties
  <2>3. ASSUME NEW k \in 1..(n - 1)  PROVE t[k] = IF k < i THEN s[k] ELSE s[k + 1]
    <3>1. CASE k < i
      BY <3>1, <2>1, <1>1, <1>2, <1>3
    <3>2. CASE ~(k < i)
      <4>1. k - (i - 1) \in 1..(n - i) /\ (k - (i - 1)) + i = k + 1
        BY <3>2, <1>1
      <4>2. t[k] = b[k - (i - 1)]
        BY <3>2, <2>1, <1>1, <1>2, <1>3
      <4>3. QED
        BY <4>1, <4>2, <1>3, <3>2
    <3>3. QED
      BY <3>1, <3>2
  <2>4. QED
    BY <2>1, <2>2, <2>3
<1>6. Elements(t) \subseteq Elements(s)
  <2>1. ASSUME NEW k \in DOMAIN t  PROVE \E m \in DOMAIN s : t[k] = s[m]
    <3>1. k \in DOMAIN s /\ k + 1 \in DOMAIN s
      BY <1>1, <1>5
    <3>2. QED
      BY <3>1, <1>5
  <2>2. QED
    BY <2>1 DEF Elements
<1>7. ASSUME Distinct(s)  PROVE Distinct(t)
  <2>1. ASSUME NEW k \in DOMAIN t, NEW m \in DOMAIN t, t[k].id = t[m].id  PROVE k = m
    <3>1. k \in 1..n /\ m \in 1..n /\ k + 1 \in 1..n /\ m + 1 \in 1..n
      BY <1>1, <1>5
    <3>2. CASE k < i /\ m < i
      BY <3>1, <3>2, <2>1, <1>1, <1>5, <1>7 DEF Distinct
    <3>3. CASE k < i /\ ~(m < i)
      BY <3>1, <3>3, <2>1, <1>1, <1>5, <1>7 DEF Distinct
    <3>4. CASE ~(k < i) /\ m < i
      BY <3>1, <3>4, <2>1, <1>1, <1>5, <1>7 DEF Distinct
    <3>5. CASE ~(k < i) /\ ~(m < i)
      BY <3>1, <3>5, <2>1, <1>1, <1>5, <1>7 DEF Distinct
    <3>6. QED
      BY <3>2, <3>3, <3>4, <3>5
  <2>2. QED
    BY <2>1 DEF Distinct
<1>8. ASSUME Distinct(s)  PROVE IdsOf(t) = IdsOf(s) \ {s[i].id}
  <2>1. ASSUME NEW k \in DOMAIN t  PROVE t[k].id \in IdsOf(s) \ {s[i].id}
    <3>1. k \in 1..n /\ k + 1 \in 1..n
      BY <1>1, <1>5
    <3>2. CASE k < i
      BY <3>1, <3>2, <1>1, <1>5, <1>8 DEF IdsOf, Distinct
    <3>3. CASE ~(k < i)
      BY <3>1, <3>3, <1>1, <1>5, <1>8 DEF IdsOf, Distinct
    <3>4. QED
      BY <3>2, <3>3
  <2>2. ASSUME NEW k \in DOMAIN s, s[k].id # s[i].id  PROVE \E m \in DOMAIN t : t[m].id = s[k].id
    <3>1. k # i
      BY <2>2
    <3>2. CASE k < i
      BY <3>2, <1>1, <1>5
    <3>3. CASE k > i
      <4>1. k - 1 \in DOMAIN t /\ ~(k - 1 < i) /\ (k - 1) + 1 = k
        BY <3>3, <1>1, <1>5
      <4>2. QED
        BY <4>1, <1>5
    <3>4. QED
      BY <3>1, <3>2, <3>3, <1>1
  <2>3. QED
    BY <2>1, <2>2 DEF IdsOf
<1>9. QED
  BY <1>5, <1>6, <1>7, <1>8 DEF t

(* A list cut in two: the older entries go, the newer stay.                *)
LEMMA CutList ==
  ASSUME NEW s \in Seq(Entry), NEW c \in 0..Len(s)
  PROVE  LET old == SubSeq(s, 1, c)
             new == SubSeq(s, c + 1, Len(s))
         IN  /\ new \in Seq(Entry) /\ Len(new) = Len(s) - c
             /\ Elements(new) \subseteq Elements(s)
             /\ IdsOf(s) = IdsOf(old) \cup IdsOf(new)
             /\ Distinct(s) => Distinct(new) /\ IdsOf(old) \cap IdsOf(new) = {}
<1> DEFINE old == SubSeq(s, 1, c)
           new == SubSeq(s, c + 1, Len(s))
           n == Len(s)
<1>1. n \in Nat /\ DOMAIN s = 1..n /\ c \in Nat /\ c <= n /\ \A k \in 1..n : s[k] \in Entry
  BY LenProperties
<1>2. old \in Seq(Entry) /\ DOMAIN old = 1..c /\ \A k \in 1..c : old[k] = s[k]
  <2>1. c \in Int /\ 1 \in Int /\ \A k \in 1..c : s[k] \in Entry
    BY <1>1
  <2>2. /\ old \in Seq(Entry) /\ Len(old) = IF 1 <= c THEN c - 1 + 1 ELSE 0
        /\ \A k \in 1..(c - 1 + 1) : old[k] = s[1 + k - 1]
    BY <2>1, SubSeqProperties
  <2>3. QED
    BY <2>2, <1>1, LenProperties
<1>3. /\ new \in Seq(Entry) /\ Len(new) = n - c /\ DOMAIN new = 1..(n - c)
      /\ \A k \in 1..(n - c) : new[k] = s[k + c]
  <2>1. c + 1 \in Int /\ n \in Int /\ \A k \in (c + 1)..n : s[k] \in Entry
    BY <1>1
  <2>2. /\ new \in Seq(Entry) /\ Len(new) = IF c + 1 <= n THEN n - (c + 1) + 1 ELSE 0
        /\ \A k \in 1..(n - (c + 1) + 1) : new[k] = s[c + 1 + k - 1]
    BY <2>1, SubSeqProperties
  <2> HIDE DEF old, new, n
  <2>3. Len(new) = n - c
    BY <2>2, <1>1
  <2>4. DOMAIN new = 1..(n - c)
    BY <2>2, <2>3, LenProperties
  <2>5. ASSUME NEW k \in 1..(n - c)  PROVE new[k] = s[k + c]
    <3>1. k \in 1..(n - (c + 1) + 1) /\ c + 1 + k - 1 = k + c
      BY <1>1
    <3>2. QED
      BY <3>1, <2>2
  <2>6. QED
    BY <2>2, <2>3, <2>4, <2>5
<1> HIDE DEF old, new, n
<1>9. ASSUME NEW k \in 1..(n - c)  PROVE k + c \in 1..n /\ k + c \in DOMAIN s /\ new[k] = s[k + c]
  BY <1>1, <1>3
<1>4. ASSUME Distinct(s)  PROVE Distinct(new)
  <2>1. ASSUME NEW k \in 1..(n - c), NEW m \in 1..(n - c), new[k].id = new[m].id  PROVE k = m
    <3>1. k + c = m + c
      BY <2>1, <1>4, <1>9 DEF Distinct
    <3>2. QED
      BY <3>1, <1>1
  <2>2. QED
    BY <2>1, <1>3 DEF Distinct
<1>5. Elements(new) \subseteq Elements(s)
  BY <1>9, <1>3 DEF Elements
<1>6. ASSUME Distinct(s)  PROVE IdsOf(old) \cap IdsOf(new) = {}
  <2>1. ASSUME NEW k \in 1..c, NEW m \in 1..(n - c)  PROVE old[k].id # new[m].id
    <3>1. k \in DOMAIN s /\ k # m + c
      BY <1>1
    <3>2. QED
      BY <3>1, <1>6, <1>9, <1>2 DEF Distinct
  <2>2. QED
    BY <2>1, <1>2, <1>3 DEF IdsOf
<1>7. IdsOf(s) = IdsOf(old) \cup IdsOf(new)
  <2>1. ASSUME NEW k \in 1..n  PROVE s[k].id \in IdsOf(old) \cup IdsOf(new)
    <3>1. CASE k <= c
      BY <3>1, <1>1, <1>2 DEF IdsOf
    <3>2. CASE k > c
      <4>1. k - c \in 1..(n - c) /\ (k - c) + c = k
        BY <3>2, <1>1
      <4>2. QED
        BY <4>1, <1>3 DEF IdsOf
    <3>3. QED
      BY <3>1, <3>2, <1>1
  <2>2. \A k \in 1..c : k \in DOMAIN s
    BY <1>1
  <2>3. IdsOf(old) \subseteq IdsOf(s)
    BY <2>2, <1>2 DEF IdsOf
  <2>4. IdsOf(new) \subseteq IdsOf(s)
    BY <1>9, <1>3 DEF IdsOf
  <2>5. IdsOf(s) \subseteq IdsOf(old) \cup IdsOf(new)
    BY <2>1, <1>1 DEF IdsOf
  <2>6. QED
    BY <2>3, <2>4, <2>5
<1>8. QED
  BY <1>3, <1>4, <1>5, <1>6, <1>7 DEF old, new, n

-----------------------------------------------------------------------------
(* Types, and the count of jobs in flight.                                 *)

Places == Holding \cup {"idle", "polling", "dead", "stopped"}

(* A worker at a place where it has a job has one.                         *)
HoldersHold == \A w \in Workers : pc[w] \in Holding => job[w] \in Entry

CountedAt(f) == {w \in Workers : f[w] \in Counted}

LEMMA Bounds == {MaxQueue, MaxRetries, MaxDead, MaxStops, MaxOutages} \subseteq Nat
BY LimitAssumption

LEMMA CountChanges ==
  ASSUME NEW f \in [Workers -> Places], NEW w \in Workers, NEW to \in Places
  PROVE  LET n == Cardinality(CountedAt(f))
             m == Cardinality(CountedAt([f EXCEPT ![w] = to]))
         IN  /\ n \in Nat /\ m \in Nat
             /\ f[w] \in Counted => m = IF to \in Counted THEN n ELSE n - 1
             /\ f[w] \notin Counted => m = IF to \in Counted THEN n + 1 ELSE n
<1> DEFINE g == [f EXCEPT ![w] = to]
           n == Cardinality(CountedAt(f))
           m == Cardinality(CountedAt(g))
<1>1. IsFiniteSet(CountedAt(f))
  <2>1. CountedAt(f) \in SUBSET Workers
    BY DEF CountedAt
  <2>2. QED
    BY <2>1, WorkerAssumption, FS_Subset
<1>2. n \in Nat
  BY <1>1, FS_CardinalityType
<1>3. g[w] = to /\ \A v \in Workers \ {w} : g[v] = f[v]
  OBVIOUS
<1>4. w \in CountedAt(f) <=> f[w] \in Counted
  BY DEF CountedAt
<1>5. to \in Counted => CountedAt(g) = CountedAt(f) \cup {w}
  BY <1>3 DEF CountedAt
<1>6. to \notin Counted => CountedAt(g) = CountedAt(f) \ {w}
  BY <1>3 DEF CountedAt
<1> HIDE DEF g
<1>7. to \in Counted => m = IF w \in CountedAt(f) THEN n ELSE n + 1
  BY <1>1, <1>5, FS_AddElement
<1>8. to \notin Counted => m = IF w \in CountedAt(f) THEN n - 1 ELSE n
  BY <1>1, <1>6, FS_RemoveElement
<1>9. f[w] \in Counted => n # 0
  BY <1>1, <1>4, FS_EmptySet
<1> HIDE DEF n, m
<1>10. m \in Nat /\ (f[w] \in Counted => m = IF to \in Counted THEN n ELSE n - 1)
         /\ (f[w] \notin Counted => m = IF to \in Counted THEN n + 1 ELSE n)
  BY <1>2, <1>4, <1>7, <1>8, <1>9
<1>11. QED
  BY <1>2, <1>10 DEF n, m, g

(* The parts of TypeOK that no step of a worker's place touches.           *)
DataTypes ==
  /\ backend \in Backends /\ queue \in [Levels -> Seq(Entry)]
  /\ dead \in Seq(Entry) /\ Len(dead) <= MaxDead
  /\ submitted \in [Jobs -> {"new", "checked", "accepted", "refused"}]
  /\ isRunning \in BOOLEAN /\ brokerUp \in BOOLEAN
  /\ stops \in 0..MaxStops /\ outages \in 0..MaxOutages
  /\ finished \subseteq Jobs /\ lost \in [Jobs -> Causes] /\ runs \in [Jobs -> Nat]

WorkerTypes ==
  /\ pc \in [Workers -> Places] /\ job \in [Workers -> Entry \cup {NoJob}] /\ inFlight \in Nat
  /\ InFlightExact /\ HoldersHold

Sound == DataTypes /\ WorkerTypes

LEMMA SoundImpliesTypes == Sound => TypeOK /\ InFlightExact
BY DEF TypeOK, Sound, DataTypes, WorkerTypes, Places

LEMMA LostTypes ==
  ASSUME lost \in [Jobs -> Causes], NEW ids, NEW cause \in Causes, Lose(ids, cause)
  PROVE  lost' \in [Jobs -> Causes]
BY DEF Lose

LEMMA PushTypes ==
  ASSUME DataTypes, NEW e \in Entry, PushJob(e)
  PROVE  queue' \in [Levels -> Seq(Entry)]
<1>1. Priority[e.id] \in Levels /\ queue \in [Levels -> Seq(Entry)]
  BY JobAssumption DEF DataTypes, Entry
<1>2. Append(queue[Priority[e.id]], e) \in Seq(Entry)
  BY <1>1, AppendedList
<1>3. QED
  BY <1>1, <1>2 DEF PushJob

LEMMA ReleaseTypes ==
  ASSUME WorkerTypes, NEW w \in Workers, NEW to \in Places \ Holding, Release(w, to)
  PROVE  /\ pc' \in [Workers -> Places] /\ job' \in [Workers -> Entry \cup {NoJob}]
         /\ inFlight' \in Nat /\ InFlightExact' /\ HoldersHold'
<1>1. pc \in [Workers -> Places] /\ job \in [Workers -> Entry \cup {NoJob}] /\ inFlight \in Nat
  BY DEF WorkerTypes
<1>2. /\ pc' = [pc EXCEPT ![w] = to] /\ job' = [job EXCEPT ![w] = NoJob]
      /\ inFlight' = IF pc[w] \in Counted THEN inFlight - 1 ELSE inFlight
  BY DEF Release
<1>3. inFlight = Cardinality(CountedAt(pc))
  BY DEF WorkerTypes, InFlightExact, CountedAt
<1>4. to \in Places /\ to \notin Counted
  BY DEF Holding, Counted
<1>5. inFlight' = Cardinality(CountedAt(pc')) /\ inFlight' \in Nat
  <2> DEFINE n == Cardinality(CountedAt(pc))
             m == Cardinality(CountedAt([pc EXCEPT ![w] = to]))
  <2>1. /\ n \in Nat /\ m \in Nat
        /\ pc[w] \in Counted => m = IF to \in Counted THEN n ELSE n - 1
        /\ pc[w] \notin Counted => m = IF to \in Counted THEN n + 1 ELSE n
    BY <1>1, <1>4, CountChanges, Zenon
  <2>2. inFlight = n /\ m = Cardinality(CountedAt(pc'))
    BY <1>2, <1>3
  <2>3. /\ m \in Nat
        /\ pc[w] \in Counted => m = n - 1
        /\ pc[w] \notin Counted => m = n
    BY <1>4, <2>1, SMT
  <2> HIDE DEF n, m
  <2>4. inFlight' = m
    BY <1>2, <2>2, <2>3
  <2>5. QED
    BY <2>2, <2>3, <2>4
<1>6. InFlightExact'
  BY <1>5 DEF InFlightExact, CountedAt
<1>7. HoldersHold'
  BY <1>1, <1>2 DEF HoldersHold, WorkerTypes
<1>8. QED
  BY <1>1, <1>2, <1>4, <1>5, <1>6, <1>7

(* A worker goes on with its job, or without one.                          *)
LEMMA GoOnTypes ==
  ASSUME WorkerTypes, NEW w \in Workers, NEW to \in Places,
         pc' = [pc EXCEPT ![w] = to], inFlight' = inFlight,
         job' \in [Workers -> Entry \cup {NoJob}], \A v \in Workers \ {w} : job'[v] = job[v],
         pc[w] \in Counted <=> to \in Counted, to \in Holding => job'[w] \in Entry
  PROVE  /\ pc' \in [Workers -> Places] /\ inFlight' \in Nat /\ InFlightExact' /\ HoldersHold'
<1>1. pc \in [Workers -> Places] /\ inFlight \in Nat
  BY DEF WorkerTypes
<1>2. inFlight = Cardinality(CountedAt(pc))
  BY DEF WorkerTypes, InFlightExact, CountedAt
<1>3. inFlight' = Cardinality(CountedAt(pc'))
  BY <1>1, <1>2, CountChanges
<1>4. InFlightExact'
  BY <1>3 DEF InFlightExact, CountedAt
<1>5. HoldersHold'
  BY <1>1 DEF HoldersHold, WorkerTypes
<1>6. QED
  BY <1>1, <1>4, <1>5

LEMMA SameWorkers ==
  ASSUME WorkerTypes, UNCHANGED workerVars
  PROVE  WorkerTypes'
BY DEF WorkerTypes, InFlightExact, HoldersHold, workerVars

LEMMA InitSound == Init => Sound
<1> SUFFICES ASSUME Init  PROVE Sound
  OBVIOUS
<1>1. MaxDead \in Nat /\ MaxStops \in Nat /\ MaxOutages \in Nat
  BY Bounds
<1>2. DataTypes
  BY <1>1, EmptySeq DEF Init, DataTypes, Causes, Levels
<1>3. {w \in Workers : pc[w] \in Counted} = {}
  BY DEF Init, Counted
<1>4. InFlightExact
  BY <1>3, FS_EmptySet DEF InFlightExact, Init
<1>5. WorkerTypes
  BY <1>4 DEF Init, WorkerTypes, HoldersHold, Holding, Places
<1>6. QED
  BY <1>2, <1>5 DEF Sound

(* The steps of a worker that keep its job or have none.                   *)
GoesOn(w) ==
  \/ Poll(w) \/ Pop(w) \/ PollTimesOut(w) \/ PollFails(w)
  \/ HandlerTimesOut(w) \/ HandlerRaises(w) \/ BackoffEnds(w) \/ GiveUp(w)

LEMMA RetryCounted ==
  ASSUME WorkerTypes, NEW w \in Workers, pc[w] = "running", job' = [job EXCEPT ![w].retry = @ + 1]
  PROVE  /\ job' \in [Workers -> Entry \cup {NoJob}]
         /\ \A v \in Workers \ {w} : job'[v] = job[v]
         /\ job[w] \in Entry /\ job'[w] \in Entry
         /\ job'[w].id = job[w].id /\ job'[w].retry = job[w].retry + 1
<1>1. job \in [Workers -> Entry \cup {NoJob}] /\ job[w] \in Entry
  BY DEF WorkerTypes, HoldersHold, Holding
<1>2. PICK e \in Entry : e = [job[w] EXCEPT !.retry = job[w].retry + 1] /\ e.id = job[w].id /\ e.retry = job[w].retry + 1
  BY <1>1 DEF Entry
<1>3. job' = [job EXCEPT ![w] = e]
  BY <1>1, <1>2
<1>4. QED
  BY <1>1, <1>2, <1>3

LEMMA PopTakesOne ==
  ASSUME DataTypes, NEW w \in Workers, Pop(w)
  PROVE  \E p \in Levels : \E i \in DOMAIN queue[p] :
           /\ job' = [job EXCEPT ![w] = queue[p][i]]
           /\ queue' = [queue EXCEPT ![p] = RemoveAt(@, i)]
<1>1. PICK p \in Levels : /\ queue[p] # <<>>
                          /\ \E i \in IF backend = "redis" THEN {1} ELSE DOMAIN queue[p] :
                               /\ job' = [job EXCEPT ![w] = queue[p][i]]
                               /\ queue' = [queue EXCEPT ![p] = RemoveAt(@, i)]
  BY DEF Pop
<1>2. queue[p] \in Seq(Entry)
  BY DEF DataTypes
<1>3. 1 \in DOMAIN queue[p]
  <2>1. Len(queue[p]) \in Nat \ {0} /\ DOMAIN queue[p] = 1..Len(queue[p])
    BY <1>1, <1>2, EmptySeq, LenProperties
  <2>2. QED
    BY <2>1
<1>4. QED
  BY <1>1, <1>3

LEMMA GoesOnSound ==
  ASSUME Sound, NEW w \in Workers, GoesOn(w), UNCHANGED backend
  PROVE  Sound'
<1>1. DataTypes /\ WorkerTypes
  BY DEF Sound
<1>2. CASE Poll(w)
  <2>1. DataTypes'
    BY <1>1, <1>2 DEF Poll, DataTypes, history
  <2>2. WorkerTypes'
    BY <1>1, <1>2, GoOnTypes DEF Poll, Goto, WorkerTypes, Places, Holding, Counted
  <2>3. QED
    BY <2>1, <2>2 DEF Sound
<1>3. CASE Pop(w)
  <2>0. PICK p \in Levels : \E i \in DOMAIN queue[p] :
           /\ job' = [job EXCEPT ![w] = queue[p][i]]
           /\ queue' = [queue EXCEPT ![p] = RemoveAt(@, i)]
    BY <1>1, <1>3, PopTakesOne
  <2>1. PICK i \in DOMAIN queue[p] :
           /\ job' = [job EXCEPT ![w] = queue[p][i]]
           /\ queue' = [queue EXCEPT ![p] = RemoveAt(@, i)]
    BY <2>0
  <2>2. queue[p] \in Seq(Entry) /\ queue[p][i] \in Entry
    BY <1>1, <2>1, LenProperties DEF DataTypes
  <2>3. RemoveAt(queue[p], i) \in Seq(Entry)
    BY <2>2, ShortenedList
  <2>4. DataTypes'
    BY <1>1, <1>3, <2>1, <2>3 DEF Pop, DataTypes, history
  <2>5. WorkerTypes'
    BY <1>1, <1>3, <2>1, <2>2, GoOnTypes DEF Pop, Goto, WorkerTypes, Places, Holding, Counted
  <2>6. QED
    BY <2>4, <2>5 DEF Sound
<1>4. CASE PollTimesOut(w)
  <2>1. DataTypes'
    BY <1>1, <1>4 DEF PollTimesOut, DataTypes, history
  <2>2. WorkerTypes'
    BY <1>1, <1>4, GoOnTypes DEF PollTimesOut, Goto, WorkerTypes, Places, Holding, Counted
  <2>3. QED
    BY <2>1, <2>2 DEF Sound
<1>5. CASE PollFails(w)
  <2>1. DataTypes'
    BY <1>1, <1>5 DEF PollFails, DataTypes, history
  <2>2. WorkerTypes'
    BY <1>1, <1>5, GoOnTypes DEF PollFails, Goto, WorkerTypes, Places, Holding, Counted
  <2>3. QED
    BY <2>1, <2>2 DEF Sound
<1>6. ASSUME NEW next \in {"requeue", "backoff"}, Retry(w, next)  PROVE Sound'
  <2>1. DataTypes'
    BY <1>1, <1>6 DEF Retry, DataTypes, history
  <2>2. WorkerTypes'
    BY <1>1, <1>6, GoOnTypes, RetryCounted DEF Retry, WorkerTypes, Places, Holding, Counted
  <2>3. QED
    BY <2>1, <2>2 DEF Sound
<1>7. CASE BackoffEnds(w)
  <2>1. DataTypes'
    BY <1>1, <1>7 DEF BackoffEnds, DataTypes, history
  <2>2. WorkerTypes'
    BY <1>1, <1>7, GoOnTypes DEF BackoffEnds, Goto, WorkerTypes, Places, Holding, Counted, HoldersHold
  <2>3. QED
    BY <2>1, <2>2 DEF Sound
<1>8. CASE GiveUp(w)
  <2>1. DataTypes'
    BY <1>1, <1>8 DEF GiveUp, DataTypes, history
  <2>2. WorkerTypes'
    BY <1>1, <1>8, GoOnTypes, RetryCounted DEF GiveUp, WorkerTypes, Places, Holding, Counted
  <2>3. QED
    BY <2>1, <2>2 DEF Sound
<1>9. QED
  BY <1>2, <1>3, <1>4, <1>5, <1>6, <1>7, <1>8 DEF GoesOn, HandlerTimesOut, HandlerRaises

LEMMA BuryCuts ==
  ASSUME DataTypes, NEW w \in Workers, job[w] \in Entry, backend = "redis", Bury(w)
  PROVE  \E all \in Seq(Entry) : \E c \in 0..Len(all) :
           /\ all = Append(dead, job[w])
           /\ dead' = SubSeq(all, c + 1, Len(all)) /\ Lose(IdsOf(SubSeq(all, 1, c)), "dead-letter trimmed")
           /\ Len(all) - c <= MaxDead
<1> DEFINE all == Append(dead, job[w])
           c == IF Len(all) > MaxDead THEN Len(all) - MaxDead ELSE 0
<1>1. all \in Seq(Entry) /\ Len(all) \in Nat /\ MaxDead \in Nat
  BY AppendedList, Bounds, LenProperties DEF DataTypes
<1>2. dead' = SubSeq(all, c + 1, Len(all)) /\ Lose(IdsOf(SubSeq(all, 1, c)), "dead-letter trimmed")
  BY DEF Bury
<1> HIDE DEF all
<1>3. c \in 0..Len(all) /\ Len(all) - c <= MaxDead
  BY <1>1
<1>4. QED
  BY <1>1, <1>2, <1>3 DEF all

(* The steps of a worker that take up a job or let go of it.               *)
LetsGo(w) == Complete(w) \/ BrokerFails(w) \/ RequeueCheck(w) \/ RequeuePush(w) \/ Bury(w)

LEMMA ReceiveSound ==
  ASSUME Sound, NEW w \in Workers, Receive(w), UNCHANGED backend
  PROVE  Sound'
<1>1. DataTypes /\ WorkerTypes /\ pc[w] = "popped"
  BY DEF Sound, Receive, Goto
<1>2. job[w] \in Entry /\ job[w].id \in Jobs
  BY <1>1 DEF WorkerTypes, HoldersHold, Holding, Entry
<1>3. CASE job[w].id \notin Unknown
  <2>1. pc' = [pc EXCEPT ![w] = "running"] /\ inFlight' = inFlight + 1 /\ job' = job
    BY <1>3 DEF Receive, Goto
  <2>2. inFlight = Cardinality(CountedAt(pc))
    BY <1>1 DEF WorkerTypes, InFlightExact, CountedAt
  <2>3. inFlight' = Cardinality(CountedAt(pc')) /\ inFlight' \in Nat
    <3>1. pc \in [Workers -> Places] /\ pc[w] \notin Counted /\ "running" \in Counted /\ "running" \in Places
      BY <1>1 DEF WorkerTypes, Places, Holding, Counted
    <3>2. QED
      BY <2>1, <2>2, <3>1, CountChanges
  <2>4. InFlightExact'
    BY <2>3 DEF InFlightExact, CountedAt
  <2>5. WorkerTypes'
    BY <1>1, <1>2, <2>1, <2>3, <2>4 DEF WorkerTypes, HoldersHold, Places, Holding
  <2>6. runs' \in [Jobs -> Nat]
    <3>1. runs \in [Jobs -> Nat] /\ runs[job[w].id] + 1 \in Nat /\ runs' = [runs EXCEPT ![job[w].id] = @ + 1]
      BY <1>1, <1>2, <1>3 DEF Receive, DataTypes
    <3>2. QED
      BY <3>1
  <2>7. DataTypes'
    BY <1>1, <1>2, <1>3, <2>6 DEF Receive, DataTypes
  <2>8. QED
    BY <2>5, <2>7 DEF Sound
<1>4. CASE job[w].id \in Unknown
  <2>1. DataTypes'
    BY <1>1, <1>4 DEF Receive, DataTypes
  <2>2. WorkerTypes'
    BY <1>1, <1>2, <1>4, GoOnTypes DEF Receive, Goto, WorkerTypes, Places, Holding, Counted
  <2>3. QED
    BY <2>1, <2>2 DEF Sound
<1>5. QED
  BY <1>3, <1>4

LEMMA LetsGoSound ==
  ASSUME Sound, NEW w \in Workers, LetsGo(w), UNCHANGED backend
  PROVE  Sound'
<1>1. DataTypes /\ WorkerTypes
  BY DEF Sound
<1>2. pc[w] \in Holding => job[w] \in Entry /\ job[w].id \in Jobs
  BY <1>1 DEF WorkerTypes, HoldersHold, Entry
<1>3. ASSUME NEW to \in {"idle", "dead"}, Release(w, to)  PROVE WorkerTypes'
  <2>1. to \in Places \ Holding
    BY DEF Places, Holding
  <2>2. QED
    BY <1>1, <1>3, <2>1, ReleaseTypes DEF WorkerTypes
<1>4. CASE Complete(w)
  <2>1. DataTypes'
    BY <1>1, <1>2, <1>4 DEF Complete, DataTypes, Holding
  <2>2. QED
    BY <1>3, <1>4, <2>1 DEF Sound, Complete
<1>5. CASE BrokerFails(w)
  <2>1. lost' \in [Jobs -> Causes]
    BY <1>1, <1>5, LostTypes DEF BrokerFails, DataTypes, Causes
  <2>2. DataTypes'
    BY <1>1, <1>5, <2>1 DEF BrokerFails, DataTypes
  <2>3. QED
    BY <1>3, <1>5, <2>2 DEF Sound, BrokerFails
<1>6. CASE RequeueCheck(w)
  <2>1. lost' \in [Jobs -> Causes]
    BY <1>1, <1>6, LostTypes DEF RequeueCheck, DataTypes, Causes
  <2>2. DataTypes'
    BY <1>1, <1>6, <2>1 DEF RequeueCheck, DataTypes
  <2>3. CASE Release(w, "idle")
    BY <1>3, <2>2, <2>3 DEF Sound
  <2>4. CASE Goto(w, "requeue", "push") /\ UNCHANGED <<job, inFlight>>
    <3>1. WorkerTypes'
      BY <1>1, <1>2, <2>4, GoOnTypes DEF Goto, WorkerTypes, Places, Holding, Counted
    <3>2. QED
      BY <2>2, <3>1 DEF Sound
  <2>5. QED
    BY <1>6, <2>3, <2>4 DEF RequeueCheck
<1>7. CASE RequeuePush(w)
  <2>1. queue' \in [Levels -> Seq(Entry)]
    BY <1>1, <1>2, <1>7, PushTypes DEF RequeuePush, Holding
  <2>2. DataTypes'
    BY <1>1, <1>7, <2>1 DEF RequeuePush, DataTypes, history
  <2>3. QED
    BY <1>3, <1>7, <2>2 DEF Sound, RequeuePush
<1>8. CASE Bury(w)
  <2>1. job[w] \in Entry /\ Release(w, "idle")
    BY <1>2, <1>8 DEF Bury, Holding
  <2>2. dead' \in Seq(Entry) /\ Len(dead') <= MaxDead /\ lost' \in [Jobs -> Causes]
    <3>1. CASE backend = "redis"
      <4>1. PICK all \in Seq(Entry) : \E c \in 0..Len(all) :
              /\ dead' = SubSeq(all, c + 1, Len(all)) /\ Lose(IdsOf(SubSeq(all, 1, c)), "dead-letter trimmed")
              /\ Len(all) - c <= MaxDead
        BY <1>1, <1>8, <2>1, <3>1, BuryCuts
      <4>2. PICK c \in 0..Len(all) :
              /\ dead' = SubSeq(all, c + 1, Len(all)) /\ Lose(IdsOf(SubSeq(all, 1, c)), "dead-letter trimmed")
              /\ Len(all) - c <= MaxDead
        BY <4>1
      <4>3. dead' \in Seq(Entry) /\ Len(dead') = Len(all) - c
        BY <4>2, CutList
      <4>4. lost' \in [Jobs -> Causes]
        BY <1>1, <4>2, LostTypes DEF DataTypes, Causes
      <4>5. QED
        BY <4>2, <4>3, <4>4
    <3>2. CASE backend # "redis"
      <4>1. dead' = dead /\ Lose({job[w].id}, "no dead-letter")
        BY <1>8, <3>2 DEF Bury
      <4>2. QED
        BY <1>1, <4>1, LostTypes DEF DataTypes, Causes
    <3>3. QED
      BY <3>1, <3>2
  <2>3. DataTypes'
    BY <1>1, <1>8, <2>2 DEF Bury, DataTypes
  <2>4. QED
    BY <1>3, <2>1, <2>3 DEF Sound
<1>9. QED
  BY <1>4, <1>5, <1>6, <1>7, <1>8 DEF LetsGo

LEMMA EndTasksSound ==
  ASSUME DataTypes, NEW cause \in Causes, EndTasks(cause)
  PROVE  WorkerTypes' /\ queue' \in [Levels -> Seq(Entry)] /\ lost' \in [Jobs -> Causes]
<1>1. pc' = [w \in Workers |-> "stopped"] /\ job' = [w \in Workers |-> NoJob] /\ inFlight' = 0
  BY DEF EndTasks
<1>2. {w \in Workers : pc'[w] \in Counted} = {}
  BY <1>1 DEF Counted
<1>3. InFlightExact'
  BY <1>1, <1>2, FS_EmptySet DEF InFlightExact
<1>4. WorkerTypes'
  BY <1>1, <1>3 DEF WorkerTypes, HoldersHold, Places, Holding
<1>5. queue' \in [Levels -> Seq(Entry)]
  <2>1. <<>> \in Seq(Entry)
    BY EmptySeq
  <2>2. QED
    BY <2>1 DEF EndTasks, DataTypes
<1>6. lost' \in [Jobs -> Causes]
  BY LostTypes DEF EndTasks, DataTypes
<1>7. QED
  BY <1>4, <1>5, <1>6

LEMMA StepSound == Sound /\ [Next]_vars => Sound'
<1> SUFFICES ASSUME Sound, [Next]_vars  PROVE Sound'
  OBVIOUS
<1>1. DataTypes /\ WorkerTypes
  BY DEF Sound
<1>2. CASE UNCHANGED vars
  <2>1. DataTypes'
    BY <1>1, <1>2 DEF DataTypes, vars, state, history
  <2>2. QED
    BY <1>1, <1>2, <2>1, SameWorkers DEF Sound, vars, state
<1>3. ASSUME NEW j \in Jobs, Enqueue(j), UNCHANGED backend  PROVE Sound'
  <2>1. lost' \in [Jobs -> Causes]
    BY <1>1, <1>3, LostTypes DEF Enqueue, DataTypes, Causes
  <2>2. submitted' \in [Jobs -> {"new", "checked", "accepted", "refused"}]
    BY <1>1, <1>3 DEF Enqueue, DataTypes
  <2>3. DataTypes'
    BY <1>1, <1>3, <2>1, <2>2 DEF Enqueue, DataTypes
  <2>4. QED
    BY <1>1, <1>3, <2>3, SameWorkers DEF Sound, Enqueue
<1>4. ASSUME NEW j \in Jobs, Push(j), UNCHANGED backend  PROVE Sound'
  <2>1. [id |-> j, retry |-> 0] \in Entry
    BY DEF Entry
  <2>2. queue' \in [Levels -> Seq(Entry)]
    BY <1>1, <1>4, <2>1, PushTypes DEF Push, DataTypes
  <2>3. submitted' \in [Jobs -> {"new", "checked", "accepted", "refused"}]
    BY <1>1, <1>4 DEF Push, DataTypes
  <2>4. DataTypes'
    BY <1>1, <1>4, <2>2, <2>3 DEF Push, DataTypes, history
  <2>5. QED
    BY <1>1, <1>4, <2>4, SameWorkers DEF Sound, Push
<1>5. ASSUME NEW w \in Workers, Worker(w), UNCHANGED backend  PROVE Sound'
  BY <1>5, GoesOnSound, ReceiveSound, LetsGoSound DEF Worker, GoesOn, LetsGo
<1>6. CASE Stop /\ UNCHANGED backend
  <2>1. stops' \in 0..MaxStops
    BY <1>1, <1>6, Bounds DEF Stop, DataTypes
  <2>2. DataTypes'
    BY <1>1, <1>6, <2>1 DEF Stop, DataTypes, history
  <2>3. QED
    BY <1>1, <1>6, <2>2, SameWorkers DEF Sound, Stop
<1>7. CASE CancelTasks /\ UNCHANGED backend
  <2>1. WorkerTypes' /\ queue' \in [Levels -> Seq(Entry)] /\ lost' \in [Jobs -> Causes]
    BY <1>1, <1>7, EndTasksSound DEF CancelTasks, Causes
  <2>2. DataTypes'
    BY <1>1, <1>7, <2>1 DEF CancelTasks, DataTypes
  <2>3. QED
    BY <2>1, <2>2 DEF Sound
<1>8. CASE Crash /\ UNCHANGED backend
  <2>1. WorkerTypes' /\ queue' \in [Levels -> Seq(Entry)] /\ lost' \in [Jobs -> Causes]
    BY <1>1, <1>8, EndTasksSound DEF Crash, Causes
  <2>2. stops' \in 0..MaxStops
    BY <1>1, <1>8, Bounds DEF Crash, DataTypes
  <2>3. DataTypes'
    BY <1>1, <1>8, <2>1, <2>2 DEF Crash, DataTypes
  <2>4. QED
    BY <2>1, <2>3 DEF Sound
<1>9. CASE Start /\ UNCHANGED backend
  <2>1. /\ pc' = [w \in Workers |-> "idle"] /\ job' = job /\ inFlight' = inFlight
        /\ \A w \in Workers : pc[w] = "stopped"
    BY <1>9 DEF Start
  <2>2. {w \in Workers : pc[w] \in Counted} = {} /\ {w \in Workers : pc'[w] \in Counted} = {}
    BY <2>1 DEF Counted
  <2>3. InFlightExact'
    BY <1>1, <2>1, <2>2 DEF InFlightExact, WorkerTypes
  <2>4. WorkerTypes'
    BY <1>1, <2>1, <2>3 DEF WorkerTypes, HoldersHold, Places, Holding
  <2>5. DataTypes'
    BY <1>1, <1>9 DEF Start, DataTypes, history
  <2>6. QED
    BY <2>4, <2>5 DEF Sound
<1>10. CASE BrokerDown /\ UNCHANGED backend
  <2>1. outages' \in 0..MaxOutages
    BY <1>1, <1>10, Bounds DEF BrokerDown, DataTypes
  <2>2. DataTypes'
    BY <1>1, <1>10, <2>1 DEF BrokerDown, DataTypes, history
  <2>3. QED
    BY <1>1, <1>10, <2>2, SameWorkers DEF Sound, BrokerDown
<1>11. CASE BrokerBack /\ UNCHANGED backend
  <2>1. DataTypes'
    BY <1>1, <1>11 DEF BrokerBack, DataTypes, history
  <2>2. QED
    BY <1>1, <1>11, <2>1, SameWorkers DEF Sound, BrokerBack
<1>12. QED
  BY <1>2, <1>3, <1>4, <1>5, <1>6, <1>7, <1>8, <1>9, <1>10, <1>11 DEF Next, DrainedCancel, GraceExpires

-----------------------------------------------------------------------------
(* Where the jobs are.                                                     *)

Waiting  == UNION {IdsOf(queue[p]) : p \in Levels}
Held     == HeldBy(Workers)
Buried   == IdsOf(dead)
Gone     == {j \in Jobs : lost[j] # "no"}
Accepted == {j \in Jobs : submitted[j] = "accepted"}

(* Each list has the jobs of its priority, each once.                      *)
Sorted ==
  \A p \in Levels : Distinct(queue[p]) /\ \A j \in IdsOf(queue[p]) : Priority[j] = p

OneHolder ==
  \A v, w \in Workers : pc[v] \in Holding /\ pc[w] \in Holding /\ job[v].id = job[w].id => v = w

Apart ==
  /\ Waiting \cap (Held \cup Buried \cup finished \cup Gone) = {}
  /\ Held \cap (Buried \cup finished \cup Gone) = {}
  /\ Buried \cap (finished \cup Gone) = {}
  /\ finished \cap Gone = {}

Everywhere == Waiting \cup Held \cup Buried \cup finished \cup Gone

Placed ==
  /\ Sorted /\ Distinct(dead) /\ OneHolder
  /\ Apart /\ Accepted = Everywhere

LEMMA PushWaits ==
  ASSUME DataTypes, Sorted, NEW e \in Entry, e.id \notin Waiting, PushJob(e)
  PROVE  Sorted' /\ Waiting' = Waiting \cup {e.id}
<1> DEFINE r == Priority[e.id]
           new == Append(queue[r], e)
<1>1. r \in Levels /\ queue \in [Levels -> Seq(Entry)]
  BY JobAssumption DEF DataTypes, Entry
<1>2. queue' = [queue EXCEPT ![r] = new] /\ queue[r] \in Seq(Entry) /\ e.id \notin IdsOf(queue[r])
  BY <1>1 DEF PushJob, Waiting
<1>3. IdsOf(new) = IdsOf(queue[r]) \cup {e.id} /\ Distinct(new)
  BY <1>1, <1>2, AppendedList DEF Sorted
<1> HIDE DEF new
<1>4. \A p \in Levels : queue'[p] = IF p = r THEN new ELSE queue[p]
  BY <1>1, <1>2
<1>5. Sorted'
  <2>1. ASSUME NEW p \in Levels  PROVE Distinct(queue'[p]) /\ \A j \in IdsOf(queue'[p]) : Priority[j] = p
    <3>1. CASE p = r
      BY <1>3, <1>4, <3>1 DEF Sorted
    <3>2. CASE p # r
      BY <1>4, <3>2 DEF Sorted
    <3>3. QED
      BY <3>1, <3>2
  <2>2. QED
    BY <2>1 DEF Sorted
<1>6. \A p \in Levels : IdsOf(queue'[p]) = IF p = r THEN IdsOf(queue[r]) \cup {e.id} ELSE IdsOf(queue[p])
  BY <1>3, <1>4
<1> HIDE DEF r
<1>7. Waiting' = Waiting \cup {e.id}
  BY <1>1, <1>6 DEF Waiting
<1>8. QED
  BY <1>5, <1>7

LEMMA PopWaits ==
  ASSUME DataTypes, Sorted, NEW r \in Levels, NEW i \in DOMAIN queue[r],
         queue' = [queue EXCEPT ![r] = RemoveAt(@, i)]
  PROVE  /\ Sorted' /\ Waiting' = Waiting \ {queue[r][i].id} /\ queue[r][i].id \in Waiting
<1> DEFINE new == RemoveAt(queue[r], i)
           x == queue[r][i].id
<1>1. queue \in [Levels -> Seq(Entry)] /\ queue[r] \in Seq(Entry) /\ Distinct(queue[r])
  BY DEF DataTypes, Sorted
<1>2. IdsOf(new) = IdsOf(queue[r]) \ {x} /\ Distinct(new)
  BY <1>1, ShortenedList
<1>3. x \in IdsOf(queue[r]) /\ Priority[x] = r
  BY DEF IdsOf, Sorted
<1> HIDE DEF new, x
<1>4. \A p \in Levels : queue'[p] = IF p = r THEN new ELSE queue[p]
  BY <1>1 DEF new
<1>5. Sorted'
  <2>1. ASSUME NEW p \in Levels  PROVE Distinct(queue'[p]) /\ \A j \in IdsOf(queue'[p]) : Priority[j] = p
    <3>1. CASE p = r
      BY <1>2, <1>4, <3>1 DEF Sorted
    <3>2. CASE p # r
      BY <1>4, <3>2 DEF Sorted
    <3>3. QED
      BY <3>1, <3>2
  <2>2. QED
    BY <2>1 DEF Sorted
<1>6. \A p \in Levels : IdsOf(queue'[p]) = IdsOf(queue[p]) \ {x}
  <2>1. \A p \in Levels : p # r => x \notin IdsOf(queue[p])
    BY <1>3 DEF Sorted
  <2>2. QED
    BY <1>2, <1>4, <2>1
<1>7. Waiting' = Waiting \ {x} /\ x \in Waiting
  BY <1>3, <1>6 DEF Waiting
<1>8. QED
  BY <1>5, <1>7 DEF x

LEMMA SameQueue ==
  ASSUME Sorted, queue' = queue
  PROVE  Sorted' /\ Waiting' = Waiting
BY DEF Sorted, Waiting

LEMMA GoneGrows ==
  ASSUME DataTypes, NEW ids \in SUBSET Jobs, NEW cause \in Causes \ {"no"}, Lose(ids, cause)
  PROVE  Gone' = Gone \cup ids
BY DEF Gone, Lose

LEMMA SameHolders ==
  ASSUME OneHolder, UNCHANGED <<pc, job>>
  PROVE  OneHolder' /\ Held' = Held
BY DEF OneHolder, Held, HeldBy

(* One worker goes on: with its job, without one, taking one up or letting *)
(* go of it.                                                               *)
LEMMA HolderMoves ==
  ASSUME OneHolder, NEW w \in Workers, \A v \in Workers \ {w} : pc'[v] = pc[v] /\ job'[v] = job[v]
  PROVE  /\ pc[w] \notin Holding /\ pc'[w] \notin Holding => OneHolder' /\ Held' = Held
         /\ pc[w] \in Holding /\ pc'[w] \in Holding /\ job'[w].id = job[w].id => OneHolder' /\ Held' = Held
         /\ pc[w] \in Holding /\ pc'[w] \notin Holding => OneHolder' /\ Held' = Held \ {job[w].id}
         /\ pc[w] \notin Holding /\ pc'[w] \in Holding /\ job'[w].id \notin Held =>
              OneHolder' /\ Held' = Held \cup {job'[w].id}
<1>1. CASE pc[w] \notin Holding /\ pc'[w] \notin Holding
  BY <1>1 DEF OneHolder, Held, HeldBy
<1>2. CASE pc[w] \in Holding /\ pc'[w] \in Holding /\ job'[w].id = job[w].id
  <2>1. OneHolder'
    BY <1>2 DEF OneHolder
  <2>2. Held' = Held
    BY <1>2 DEF Held, HeldBy
  <2>3. QED
    BY <1>2, <2>1, <2>2
<1>3. CASE pc[w] \in Holding /\ pc'[w] \notin Holding
  <2>1. OneHolder'
    BY <1>3 DEF OneHolder
  <2>2. Held' = Held \ {job[w].id}
    BY <1>3 DEF OneHolder, Held, HeldBy
  <2>3. QED
    BY <1>3, <2>1, <2>2
<1>4. CASE pc[w] \notin Holding /\ pc'[w] \in Holding /\ job'[w].id \notin Held
  <2>1. OneHolder'
    BY <1>4 DEF OneHolder, Held, HeldBy
  <2>2. Held' = Held \cup {job'[w].id}
    BY <1>4 DEF Held, HeldBy
  <2>3. QED
    BY <1>4, <2>1, <2>2
<1>5. QED
  BY <1>1, <1>2, <1>3, <1>4

LEMMA InitPlaced == Init => Placed
<1> SUFFICES ASSUME Init  PROVE Placed
  OBVIOUS
<1>1. \A p \in Levels : queue[p] = <<>>
  BY DEF Init
<1>2. Sorted /\ Waiting = {}
  BY <1>1 DEF Sorted, Waiting, IdsOf, Distinct
<1>3. Held = {} /\ OneHolder
  BY DEF Init, Held, HeldBy, OneHolder, Holding
<1>4. Buried = {} /\ Distinct(dead)
  BY DEF Init, Buried, IdsOf, Distinct
<1>5. finished = {} /\ Gone = {} /\ Accepted = {}
  BY DEF Init, Gone, Accepted
<1>6. QED
  BY <1>2, <1>3, <1>4, <1>5 DEF Placed, Apart, Everywhere

(* What a worker holds is a job, and one that was accepted.                *)
LEMMA HolderHasJob ==
  ASSUME Sound, Placed, NEW w \in Workers, pc[w] \in Holding
  PROVE  job[w] \in Entry /\ job[w].id \in Jobs /\ job[w].id \in Held /\ job[w].id \notin Waiting \cup Buried
<1>1. job[w] \in Entry /\ job[w].id \in Jobs
  BY DEF Sound, WorkerTypes, HoldersHold, Entry
<1>2. job[w].id \in Held
  BY DEF Held, HeldBy
<1>3. QED
  BY <1>1, <1>2 DEF Placed, Apart

(* The queue, the dead-letter list and the rest are as they were.          *)
LEMMA SamePlaces ==
  ASSUME Placed, UNCHANGED <<queue, dead, submitted, finished, lost>>, OneHolder', Held' = Held
  PROVE  Placed'
<1>1. Sorted' /\ Waiting' = Waiting
  BY SameQueue DEF Placed
<1>2. Buried' = Buried /\ Distinct(dead)' /\ Gone' = Gone /\ Accepted' = Accepted
  BY DEF Placed, Buried, Gone, Accepted
<1>3. QED
  BY <1>1, <1>2 DEF Placed, Apart, Everywhere

LEMMA GoesOnPlaced ==
  ASSUME Sound, Placed, NEW w \in Workers, GoesOn(w) \/ Receive(w)
  PROVE  Placed'
<1>1. DataTypes /\ WorkerTypes /\ OneHolder /\ Sorted /\ pc \in [Workers -> Places] /\ job \in [Workers -> Entry \cup {NoJob}]
  BY DEF Sound, Placed, WorkerTypes
<1>2. CASE Poll(w) \/ PollTimesOut(w) \/ PollFails(w)
  <2>1. /\ pc[w] \notin Holding /\ pc'[w] \notin Holding
        /\ \A v \in Workers \ {w} : pc'[v] = pc[v] /\ job'[v] = job[v]
    BY <1>1, <1>2 DEF Poll, PollTimesOut, PollFails, Goto, Holding
  <2>2. UNCHANGED <<queue, dead, submitted, finished, lost>>
    BY <1>2 DEF Poll, PollTimesOut, PollFails, history
  <2>3. QED
    BY <1>1, <2>1, <2>2, HolderMoves, SamePlaces
<1>3. CASE BackoffEnds(w) \/ Receive(w)
  <2>1. /\ pc[w] \in Holding /\ pc'[w] \in Holding /\ job' = job
        /\ \A v \in Workers \ {w} : pc'[v] = pc[v]
    BY <1>1, <1>3 DEF BackoffEnds, Receive, Goto, Holding
  <2>2. UNCHANGED <<queue, dead, submitted, finished, lost>>
    BY <1>3 DEF BackoffEnds, Receive, history
  <2>3. QED
    BY <1>1, <2>1, <2>2, HolderMoves, SamePlaces
<1>4. CASE HandlerTimesOut(w) \/ HandlerRaises(w) \/ GiveUp(w)
  <2>1. pc[w] = "running" /\ job' = [job EXCEPT ![w].retry = @ + 1] /\ UNCHANGED <<queue, dead, submitted, finished, lost>>
    BY <1>4 DEF HandlerTimesOut, HandlerRaises, Retry, GiveUp, history
  <2>2. job'[w].id = job[w].id /\ \A v \in Workers \ {w} : job'[v] = job[v]
    BY <1>1, <2>1, RetryCounted
  <2>3. pc'[w] \in Holding /\ pc[w] \in Holding /\ \A v \in Workers \ {w} : pc'[v] = pc[v]
    BY <1>1, <1>4 DEF HandlerTimesOut, HandlerRaises, Retry, GiveUp, Holding
  <2>4. QED
    BY <1>1, <2>1, <2>2, <2>3, HolderMoves, SamePlaces
<1>5. CASE Pop(w)
  <2>1. PICK p \in Levels : \E i \in DOMAIN queue[p] :
           /\ job' = [job EXCEPT ![w] = queue[p][i]]
           /\ queue' = [queue EXCEPT ![p] = RemoveAt(@, i)]
    BY <1>1, <1>5, PopTakesOne
  <2>2. PICK i \in DOMAIN queue[p] :
           /\ job' = [job EXCEPT ![w] = queue[p][i]]
           /\ queue' = [queue EXCEPT ![p] = RemoveAt(@, i)]
    BY <2>1
  <2> DEFINE x == queue[p][i].id
  <2>3. Sorted' /\ Waiting' = Waiting \ {x} /\ x \in Waiting
    BY <1>1, <2>2, PopWaits
  <2>4. job'[w].id = x /\ \A v \in Workers \ {w} : job'[v] = job[v]
    BY <1>1, <2>2
  <2> HIDE DEF x
  <2>5. pc[w] \notin Holding /\ pc'[w] \in Holding /\ \A v \in Workers \ {w} : pc'[v] = pc[v]
    BY <1>1, <1>5 DEF Pop, Goto, Holding
  <2>6. x \notin Held
    BY <2>3 DEF Placed, Apart
  <2>7. OneHolder' /\ Held' = Held \cup {x}
    BY <1>1, <2>4, <2>5, <2>6, HolderMoves
  <2>8. Buried' = Buried /\ Distinct(dead)' /\ Gone' = Gone /\ Accepted' = Accepted /\ finished' = finished
    BY <1>5 DEF Pop, Placed, Buried, Gone, Accepted, history
  <2>9. QED
    BY <2>3, <2>6, <2>7, <2>8 DEF Placed, Apart, Everywhere
<1>6. QED
  BY <1>2, <1>3, <1>4, <1>5 DEF GoesOn

(* Over Redis a dead letter may push others off the list, or itself.       *)
LEMMA BuryMoves ==
  ASSUME Sound, Placed, NEW w \in Workers, Bury(w), backend = "redis"
  PROVE  \E cut \in SUBSET Jobs : /\ Buried' \cup cut = Buried \cup {job[w].id} /\ Buried' \cap cut = {}
                                  /\ Distinct(dead)' /\ Gone' = Gone \cup cut
<1> DEFINE x == job[w].id
<1>t. DataTypes
  BY DEF Sound
<1>h. job[w] \in Entry /\ x \in Jobs /\ x \notin Buried
  <2>1. pc[w] \in Holding
    BY DEF Bury, Holding
  <2>2. QED
    BY <2>1, HolderHasJob
<1> HIDE DEF x
<1>1. PICK all \in Seq(Entry) : \E c \in 0..Len(all) :
        /\ all = Append(dead, job[w])
        /\ dead' = SubSeq(all, c + 1, Len(all)) /\ Lose(IdsOf(SubSeq(all, 1, c)), "dead-letter trimmed")
        /\ Len(all) - c <= MaxDead
  BY <1>t, <1>h, BuryCuts
<1>2. PICK c \in 0..Len(all) :
        dead' = SubSeq(all, c + 1, Len(all)) /\ Lose(IdsOf(SubSeq(all, 1, c)), "dead-letter trimmed")
  BY <1>1
<1>3. IdsOf(all) = Buried \cup {x} /\ Distinct(all)
  <2>1. dead \in Seq(Entry) /\ Distinct(dead) /\ job[w].id \notin IdsOf(dead) /\ job[w] \in Entry
    BY <1>t, <1>h DEF Placed, Buried, x, DataTypes
  <2>2. IdsOf(all) = IdsOf(dead) \cup {job[w].id} /\ Distinct(all)
    <3>1. all = Append(dead, job[w])
      BY <1>1
    <3>2. IdsOf(Append(dead, job[w])) = IdsOf(dead) \cup {job[w].id} /\ Distinct(Append(dead, job[w]))
      BY <2>1, AppendedList
    <3>3. QED
      BY <3>1, <3>2
  <2>3. QED
    BY <2>2 DEF Buried, x
<1> DEFINE cut == IdsOf(SubSeq(all, 1, c))
<1>4. Buried' \cup cut = Buried \cup {x} /\ Buried' \cap cut = {} /\ Distinct(dead)'
  <2>1. /\ Distinct(dead') /\ IdsOf(all) = cut \cup IdsOf(dead')
        /\ cut \cap IdsOf(dead') = {}
    BY <1>2, <1>3, CutList
  <2>2. Buried' = IdsOf(dead') /\ (Distinct(dead)' <=> Distinct(dead'))
    BY DEF Buried, IdsOf, Distinct
  <2>3. QED
    BY <1>3, <2>1, <2>2
<1>5. cut \subseteq Jobs
  <2>1. Buried \subseteq Jobs
    <3>1. dead \in Seq(Entry) /\ DOMAIN dead = 1..Len(dead)
      BY <1>t, LenProperties DEF DataTypes
    <3>2. \A i \in DOMAIN dead : dead[i] \in Entry
      BY <3>1, ElementOfSeq
    <3>3. QED
      BY <3>2 DEF Buried, IdsOf, Entry
  <2>2. QED
    BY <1>h, <1>4, <2>1
<1>6. Gone' = Gone \cup cut
  BY <1>t, <1>2, <1>5, GoneGrows DEF Causes
<1> HIDE DEF cut
<1>7. QED
  BY <1>4, <1>5, <1>6 DEF x

LEMMA LetsGoPlaced ==
  ASSUME Sound, Placed, NEW w \in Workers, LetsGo(w)
  PROVE  Placed'
<1>1. DataTypes /\ WorkerTypes /\ OneHolder /\ Sorted /\ pc \in [Workers -> Places] /\ job \in [Workers -> Entry \cup {NoJob}]
  BY DEF Sound, Placed, WorkerTypes
<1>2. pc[w] \in Holding
  BY DEF LetsGo, Complete, BrokerFails, RequeueCheck, RequeuePush, Bury, Holding
<1> DEFINE x == job[w].id
<1>3. job[w] \in Entry /\ x \in Jobs /\ x \in Held /\ x \notin Waiting \cup Buried
  BY <1>2, HolderHasJob
<1>4. ASSUME NEW to \in {"idle", "dead"}, Release(w, to)
      PROVE  OneHolder' /\ Held' = Held \ {x}
  <2>1. pc'[w] \notin Holding /\ \A v \in Workers \ {w} : pc'[v] = pc[v] /\ job'[v] = job[v]
    BY <1>1, <1>4 DEF Release, Holding
  <2>2. QED
    BY <1>1, <1>2, <2>1, HolderMoves
<1> HIDE DEF x
<1>5. ASSUME NEW cause \in Causes \ {"no"}, Lose({x}, cause)
      PROVE  Gone' = Gone \cup {x}
  BY <1>1, <1>3, <1>5, GoneGrows
<1>6. CASE Complete(w)
  <2>1. Sorted' /\ Waiting' = Waiting
    BY <1>1, <1>6, SameQueue DEF Complete
  <2>2. Buried' = Buried /\ Distinct(dead)' /\ Gone' = Gone /\ Accepted' = Accepted
    BY <1>6 DEF Complete, Placed, Buried, Gone, Accepted
  <2>3. finished' = finished \cup {x} /\ OneHolder' /\ Held' = Held \ {x}
    BY <1>4, <1>6 DEF Complete, x
  <2>4. QED
    BY <1>3, <2>1, <2>2, <2>3 DEF Placed, Apart, Everywhere
<1>7. CASE BrokerFails(w)
  <2>1. Sorted' /\ Waiting' = Waiting
    BY <1>1, <1>7, SameQueue DEF BrokerFails
  <2>2. Buried' = Buried /\ Distinct(dead)' /\ finished' = finished /\ Accepted' = Accepted
    BY <1>7 DEF BrokerFails, Placed, Buried, Accepted
  <2>3. Gone' = Gone \cup {x} /\ OneHolder' /\ Held' = Held \ {x}
    BY <1>4, <1>5, <1>7 DEF BrokerFails, x, Causes
  <2>4. QED
    BY <1>3, <2>1, <2>2, <2>3 DEF Placed, Apart, Everywhere
<1>8. CASE RequeueCheck(w)
  <2>1. Sorted' /\ Waiting' = Waiting
    BY <1>1, <1>8, SameQueue DEF RequeueCheck
  <2>2. Buried' = Buried /\ Distinct(dead)' /\ finished' = finished /\ Accepted' = Accepted
    BY <1>8 DEF RequeueCheck, Placed, Buried, Accepted
  <2>3. CASE Lose({job[w].id}, "queue full") /\ Release(w, "idle")
    <3>1. Gone' = Gone \cup {x} /\ OneHolder' /\ Held' = Held \ {x}
      BY <1>4, <1>5, <2>3 DEF x, Causes
    <3>2. QED
      BY <1>3, <2>1, <2>2, <3>1 DEF Placed, Apart, Everywhere
  <2>4. CASE Goto(w, "requeue", "push") /\ UNCHANGED <<job, inFlight, lost>>
    <3>1. pc'[w] \in Holding /\ job' = job /\ \A v \in Workers \ {w} : pc'[v] = pc[v]
      BY <1>1, <2>4 DEF Goto, Holding
    <3>2. OneHolder' /\ Held' = Held
      BY <1>1, <1>2, <3>1, HolderMoves
    <3>3. QED
      BY <1>8, <2>4, <3>2, SamePlaces DEF RequeueCheck
  <2>5. QED
    BY <1>8, <2>3, <2>4 DEF RequeueCheck
<1>9. CASE RequeuePush(w)
  <2>1. Sorted' /\ Waiting' = Waiting \cup {x}
    BY <1>1, <1>3, <1>9, PushWaits DEF RequeuePush, x
  <2>2. Buried' = Buried /\ Distinct(dead)' /\ finished' = finished /\ Accepted' = Accepted /\ Gone' = Gone
    BY <1>9 DEF RequeuePush, Placed, Buried, Accepted, Gone, history
  <2>3. OneHolder' /\ Held' = Held \ {x}
    BY <1>4, <1>9 DEF RequeuePush
  <2>4. QED
    BY <1>3, <2>1, <2>2, <2>3 DEF Placed, Apart, Everywhere
<1>10. CASE Bury(w)
  <2>1. Sorted' /\ Waiting' = Waiting
    BY <1>1, <1>10, SameQueue DEF Bury
  <2>2. OneHolder' /\ Held' = Held \ {x}
    BY <1>4, <1>10 DEF Bury
  <2>3. finished' = finished /\ Accepted' = Accepted
    BY <1>10 DEF Bury, Accepted
  <2>4. CASE backend = "redis"
    <3>1. PICK cut \in SUBSET Jobs : /\ Buried' \cup cut = Buried \cup {x} /\ Buried' \cap cut = {}
                                     /\ Distinct(dead)' /\ Gone' = Gone \cup cut
      BY <1>10, <2>4, BuryMoves DEF x
    <3>2. QED
      BY <1>3, <2>1, <2>2, <2>3, <3>1 DEF Placed, Apart, Everywhere
  <2>5. CASE backend # "redis"
    <3>1. dead' = dead /\ Lose({x}, "no dead-letter")
      BY <1>10, <2>5 DEF Bury, x
    <3>2. Buried' = Buried /\ Distinct(dead)' /\ Gone' = Gone \cup {x}
      BY <1>5, <3>1 DEF Placed, Buried, Causes
    <3>3. QED
      BY <1>3, <2>1, <2>2, <2>3, <3>2 DEF Placed, Apart, Everywhere
  <2>6. QED
    BY <2>4, <2>5
<1>11. QED
  BY <1>6, <1>7, <1>8, <1>9, <1>10 DEF LetsGo

LEMMA EndTasksPlaced ==
  ASSUME Sound, Placed, NEW cause \in Causes \ {"no"}, EndTasks(cause), UNCHANGED <<dead, submitted, finished>>
  PROVE  Placed'
<1>1. DataTypes /\ Sorted
  BY DEF Sound, Placed
<1>2. Held' = {} /\ OneHolder'
  BY DEF EndTasks, Held, HeldBy, OneHolder, Holding
<1>3. Buried' = Buried /\ Distinct(dead)' /\ Accepted' = Accepted
  BY DEF Placed, Buried, Accepted
<1>4. Held \subseteq Jobs /\ Waiting \subseteq Jobs
  BY DEF Placed, Everywhere, Accepted
<1>5. CASE backend = "redis"
  <2>1. queue' = queue /\ Lose(Held, cause)
    BY <1>5 DEF EndTasks, Held
  <2>2. Gone' = Gone \cup Held
    BY <1>1, <1>4, <2>1, GoneGrows
  <2>3. Sorted' /\ Waiting' = Waiting
    BY <1>1, <2>1, SameQueue
  <2>4. QED
    BY <1>2, <1>3, <2>2, <2>3 DEF Placed, Apart, Everywhere
<1>6. CASE backend # "redis"
  <2>1. Lose(Held \cup Waiting, cause) /\ \A p \in Levels : queue'[p] = <<>>
    BY <1>6 DEF EndTasks, Held, Waiting
  <2>2. Gone' = Gone \cup Held \cup Waiting
    <3>1. Held \cup Waiting \in SUBSET Jobs
      BY <1>4
    <3>2. QED
      BY <1>1, <2>1, <3>1, GoneGrows
  <2>3. Sorted' /\ Waiting' = {}
    BY <2>1 DEF Sorted, Waiting, IdsOf, Distinct
  <2>4. QED
    BY <1>2, <1>3, <2>2, <2>3 DEF Placed, Apart, Everywhere
<1>7. QED
  BY <1>5, <1>6

LEMMA StepPlaced == Sound /\ Placed /\ [Next]_vars => Placed'
<1> SUFFICES ASSUME Sound, Placed, [Next]_vars  PROVE Placed'
  OBVIOUS
<1>1. DataTypes /\ WorkerTypes /\ OneHolder /\ Sorted
  BY DEF Sound, Placed
<1>2. ASSUME UNCHANGED <<queue, dead, submitted, finished, lost, pc, job>>  PROVE Placed'
  BY <1>1, <1>2, SameHolders, SamePlaces
<1>3. CASE UNCHANGED vars
  BY <1>2, <1>3 DEF vars, state, workerVars, history
<1>4. ASSUME NEW j \in Jobs, Enqueue(j)  PROVE Placed'
  <2>1. OneHolder' /\ Held' = Held /\ Sorted' /\ Waiting' = Waiting
    BY <1>1, <1>4, SameHolders, SameQueue DEF Enqueue, workerVars
  <2>2. Buried' = Buried /\ Distinct(dead)' /\ finished' = finished
    BY <1>4 DEF Enqueue, Placed, Buried
  <2>3. j \notin Everywhere
    BY <1>4 DEF Enqueue, Placed, Accepted
  <2>4. CASE submitted' = [submitted EXCEPT ![j] = "accepted"] /\ Lose({j}, "queue full")
    <3>1. Gone' = Gone \cup {j}
      BY <1>1, <2>4, GoneGrows DEF Causes
    <3>2. Accepted' = Accepted \cup {j}
      BY <1>1, <2>4 DEF Accepted, DataTypes
    <3>3. QED
      BY <2>1, <2>2, <2>3, <3>1, <3>2 DEF Placed, Apart, Everywhere
  <2>5. ASSUME NEW to \in {"refused", "checked"}, submitted' = [submitted EXCEPT ![j] = to], lost' = lost  PROVE Placed'
    <3>1. Gone' = Gone
      BY <2>5 DEF Gone
    <3>2. Accepted' = Accepted
      BY <1>1, <1>4, <2>5 DEF Enqueue, Accepted, DataTypes
    <3>3. QED
      BY <2>1, <2>2, <3>1, <3>2 DEF Placed, Apart, Everywhere
  <2>6. QED
    BY <1>4, <2>4, <2>5 DEF Enqueue
<1>5. ASSUME NEW j \in Jobs, Push(j)  PROVE Placed'
  <2>1. OneHolder' /\ Held' = Held
    BY <1>1, <1>5, SameHolders DEF Push, workerVars
  <2>2. Buried' = Buried /\ Distinct(dead)' /\ finished' = finished /\ Gone' = Gone
    BY <1>5 DEF Push, Placed, Buried, Gone, history
  <2>3. j \notin Everywhere
    BY <1>5 DEF Push, Placed, Accepted
  <2>4. CASE PushJob([id |-> j, retry |-> 0]) /\ submitted' = [submitted EXCEPT ![j] = "accepted"]
    <3>1. [id |-> j, retry |-> 0] \in Entry
      BY DEF Entry
    <3>2. Sorted' /\ Waiting' = Waiting \cup {j}
      <4>1. [id |-> j, retry |-> 0].id = j /\ j \notin Waiting
        BY <2>3 DEF Everywhere
      <4>2. QED
        BY <1>1, <2>4, <3>1, <4>1, PushWaits
    <3>3. Accepted' = Accepted \cup {j}
      BY <1>1, <2>4 DEF Accepted, DataTypes
    <3>4. QED
      BY <2>1, <2>2, <2>3, <3>2, <3>3 DEF Placed, Apart, Everywhere
  <2>5. CASE submitted' = [submitted EXCEPT ![j] = "refused"] /\ UNCHANGED queue
    <3>1. Sorted' /\ Waiting' = Waiting
      BY <1>1, <2>5, SameQueue
    <3>2. Accepted' = Accepted
      BY <1>1, <1>5, <2>5 DEF Push, Accepted, DataTypes
    <3>3. QED
      BY <2>1, <2>2, <3>1, <3>2 DEF Placed, Apart, Everywhere
  <2>6. QED
    BY <1>5, <2>4, <2>5 DEF Push
<1>6. ASSUME NEW w \in Workers, Worker(w)  PROVE Placed'
  BY <1>6, GoesOnPlaced, LetsGoPlaced DEF Worker, GoesOn, LetsGo
<1>7. CASE CancelTasks
  BY <1>7, EndTasksPlaced DEF CancelTasks, Causes
<1>8. CASE Crash
  BY <1>8, EndTasksPlaced DEF Crash, Causes
<1>9. CASE Start
  <2>1. Held' = {} /\ OneHolder' /\ Held = {}
    BY <1>9 DEF Start, Held, HeldBy, OneHolder, Holding
  <2>2. UNCHANGED <<queue, dead, submitted, finished, lost>>
    BY <1>9 DEF Start, history
  <2>3. QED
    BY <2>1, <2>2, SamePlaces
<1>10. CASE Stop \/ BrokerDown \/ BrokerBack
  BY <1>2, <1>10 DEF Stop, BrokerDown, BrokerBack, workerVars, history
<1>11. QED
  BY <1>3, <1>4, <1>5, <1>6, <1>7, <1>8, <1>9, <1>10 DEF Next, DrainedCancel, GraceExpires

(* Each of the five parts of Copies is one or none.                        *)
LEMMA AtMostOne ==
  ASSUME NEW S, \A x, y \in S : x = y
  PROVE  Cardinality(S) = IF S = {} THEN 0 ELSE 1
<1>1. CASE S = {}
  BY <1>1, FS_EmptySet
<1>2. CASE S # {}
  <2>1. PICK x \in S : S = {x}
    BY <1>2
  <2>2. QED
    BY <1>2, <2>1, FS_Singleton
<1>3. QED
  BY <1>1, <1>2

LEMMA PlacedIsExact == Sound /\ Placed => ExactlyOnePlace
<1> SUFFICES ASSUME Sound, Placed, NEW j \in Jobs
             PROVE  Copies(j) = IF submitted[j] = "accepted" THEN 1 ELSE 0
  BY DEF ExactlyOnePlace
<1> DEFINE Q == UNION {{p} \X {i \in DOMAIN queue[p] : queue[p][i].id = j} : p \in Levels}
           W == {w \in Workers : pc[w] \in Holding /\ job[w].id = j}
           D == {i \in DOMAIN dead : dead[i].id = j}
<1>1. Cardinality(Q) = IF j \in Waiting THEN 1 ELSE 0
  <2>1. \A x \in Q : \E p \in Levels : \E i \in DOMAIN queue[p] : x = <<p, i>> /\ queue[p][i].id = j
    OBVIOUS
  <2>2. \A x, y \in Q : x = y
    <3>1. SUFFICES ASSUME NEW x \in Q, NEW y \in Q  PROVE x = y
      OBVIOUS
    <3>2. PICK p \in Levels : \E i \in DOMAIN queue[p] : x = <<p, i>> /\ queue[p][i].id = j
      BY <2>1
    <3>3. PICK q \in Levels : \E i \in DOMAIN queue[q] : y = <<q, i>> /\ queue[q][i].id = j
      BY <2>1
    <3>4. p = q
      BY <3>2, <3>3 DEF Placed, Sorted, IdsOf
    <3>5. QED
      BY <3>2, <3>3, <3>4 DEF Placed, Sorted, Distinct
  <2>3. Q = {} <=> j \notin Waiting
    <3>1. ASSUME NEW x \in Q  PROVE j \in Waiting
      BY <2>1 DEF Waiting, IdsOf
    <3>2. ASSUME j \in Waiting  PROVE Q # {}
      <4>1. PICK p \in Levels : j \in IdsOf(queue[p])
        BY <3>2 DEF Waiting
      <4>2. PICK i \in DOMAIN queue[p] : queue[p][i].id = j
        BY <4>1 DEF IdsOf
      <4>3. <<p, i>> \in {p} \X {k \in DOMAIN queue[p] : queue[p][k].id = j}
        BY <4>2
      <4>4. QED
        BY <4>3
    <3>3. QED
      BY <3>1, <3>2
  <2> HIDE DEF Q
  <2>4. QED
    BY <2>2, <2>3, AtMostOne
<1>2. Cardinality(W) = IF j \in Held THEN 1 ELSE 0
  <2>1. \A x, y \in W : x = y
    BY DEF Placed, OneHolder
  <2>2. W = {} <=> j \notin Held
    BY DEF Held, HeldBy
  <2> HIDE DEF W
  <2>3. QED
    BY <2>1, <2>2, AtMostOne
<1>3. Cardinality(D) = IF j \in Buried THEN 1 ELSE 0
  <2>1. \A x, y \in D : x = y
    BY DEF Placed, Distinct
  <2>2. D = {} <=> j \notin Buried
    BY DEF Buried, IdsOf
  <2> HIDE DEF D
  <2>3. QED
    BY <2>1, <2>2, AtMostOne
<1>4. lost[j] # "no" <=> j \in Gone
  BY DEF Gone
<1>5. submitted[j] = "accepted" <=> j \in Everywhere
  BY DEF Placed, Accepted
<1>6. Copies(j) = Cardinality(Q) + Cardinality(W) + Cardinality(D)
                   + (IF j \in finished THEN 1 ELSE 0) + (IF lost[j] # "no" THEN 1 ELSE 0)
  BY DEF Copies
<1> HIDE DEF Q, W, D
<1>7. QED
  BY <1>1, <1>2, <1>3, <1>4, <1>5, <1>6 DEF Placed, Apart, Everywhere

(* An accepted job is in exactly one place, and in_flight is the number of *)
(* handlers under way, over retries, trims, outages, stops and crashes.    *)
THEOREM NoJobUnaccounted == Spec => []Bookkeeping
<1>1. Sound /\ Placed => Bookkeeping
  BY SoundImpliesTypes, PlacedIsExact DEF Bookkeeping
<1>2. Sound /\ Placed /\ [Next]_vars => (Sound /\ Placed)'
  BY StepSound, StepPlaced
<1>3. QED
  BY <1>1, <1>2, InitSound, InitPlaced, PTL DEF Spec

-----------------------------------------------------------------------------
(* How often handlers have run.                                            *)

(* What the job of a worker has used of its budget, by where the worker is. *)
Spent(w) ==
  LET e == job[w]
  IN  /\ pc[w] \in {"popped", "backoff", "requeue", "push"} => runs[e.id] = e.retry /\ e.retry <= MaxRetries
      /\ pc[w] = "running" => runs[e.id] = e.retry + 1 /\ e.retry <= MaxRetries
      /\ pc[w] = "bury" => runs[e.id] = MaxRetries + 1
      /\ pc[w] = "buryUnknown" => e.id \in Unknown

WaitersSpent ==
  \A p \in Levels : \A e \in Elements(queue[p]) : runs[e.id] = e.retry /\ e.retry <= MaxRetries

BuriedSpent == \A e \in Elements(dead) : e.id \notin Unknown => runs[e.id] = MaxRetries + 1

Unspent == \A j \in Jobs \ Accepted : runs[j] = 0

Limited == \A j \in Jobs : runs[j] <= MaxRetries + 1

Budget == WaitersSpent /\ (\A w \in Workers : Spent(w)) /\ BuriedSpent /\ Unspent /\ Limited

LEMMA InitBudget == Init => Budget
<1> SUFFICES ASSUME Init  PROVE Budget
  OBVIOUS
<1>1. WaitersSpent /\ BuriedSpent
  BY DEF Init, WaitersSpent, BuriedSpent, Elements
<1>2. \A w \in Workers : Spent(w)
  BY DEF Init, Spent
<1>3. Unspent /\ Limited
  BY Bounds DEF Init, Unspent, Limited
<1>4. QED
  BY <1>1, <1>2, <1>3 DEF Budget

(* A step that starts no handler, adds no entry and moves one worker.      *)
LEMMA BudgetFrame ==
  ASSUME Budget, NEW w, runs' = runs, Accepted \subseteq Accepted',
         \A p \in Levels : Elements(queue'[p]) \subseteq Elements(queue[p]),
         Elements(dead') \subseteq Elements(dead),
         \A v \in Workers \ {w} : pc'[v] = pc[v] /\ job'[v] = job[v],
         w \in Workers => Spent(w)'
  PROVE  Budget'
<1>1. WaitersSpent' /\ BuriedSpent'
  BY DEF Budget, WaitersSpent, BuriedSpent, Elements
<1>2. ASSUME NEW v \in Workers  PROVE Spent(v)'
  <2>1. CASE v = w
    BY <2>1
  <2>2. CASE v # w
    BY <2>2 DEF Budget, Spent
  <2>3. QED
    BY <2>1, <2>2
<1>3. Unspent' /\ Limited'
  BY DEF Budget, Unspent, Limited
<1>4. QED
  BY <1>1, <1>2, <1>3 DEF Budget

LEMMA ReceiveBudget ==
  ASSUME Sound, Placed, Budget, NEW w \in Workers, Receive(w)
  PROVE  Budget'
<1> DEFINE x == job[w].id
<1>1. DataTypes /\ pc \in [Workers -> Places] /\ pc[w] = "popped" /\ pc[w] \in Holding
  BY DEF Sound, WorkerTypes, Receive, Goto, Holding
<1>2. job[w] \in Entry /\ x \in Jobs /\ x \in Held /\ x \notin Waiting \cup Buried
  BY <1>1, HolderHasJob
<1>3. runs[x] = job[w].retry /\ job[w].retry <= MaxRetries /\ runs[x] \in Nat /\ MaxRetries \in Nat
  BY <1>1, <1>2, Bounds DEF Budget, Spent, DataTypes
<1>4. queue' = queue /\ dead' = dead /\ submitted' = submitted /\ job' = job
  BY DEF Receive
<1>5. CASE x \in Unknown
  <2>1. pc' = [pc EXCEPT ![w] = "buryUnknown"] /\ runs' = runs
    BY <1>5 DEF Receive, Goto
  <2>2. Spent(w)'
    BY <1>1, <1>4, <1>5, <2>1 DEF Spent
  <2>3. Accepted' = Accepted
    BY <1>4 DEF Accepted
  <2>4. \A v \in Workers \ {w} : pc'[v] = pc[v]
    BY <1>1, <2>1
  <2>5. QED
    BY <1>4, <2>1, <2>2, <2>3, <2>4, BudgetFrame
<1>6. CASE x \notin Unknown
  <2>1. pc' = [pc EXCEPT ![w] = "running"] /\ runs' = [runs EXCEPT ![x] = @ + 1]
    BY <1>6 DEF Receive, Goto
  <2>2. runs'[x] = runs[x] + 1 /\ \A j \in Jobs \ {x} : runs'[j] = runs[j]
    BY <1>1, <1>2, <2>1 DEF DataTypes
  <2>3. WaitersSpent'
    <3>1. ASSUME NEW p \in Levels, NEW e \in Elements(queue[p])  PROVE e.id \in Jobs \ {x}
      <4>1. e \in Entry
        BY <1>1, ElementOfSeq, LenProperties DEF Elements, DataTypes
      <4>2. e.id \in Waiting
        BY DEF Elements, Waiting, IdsOf
      <4>3. QED
        BY <1>2, <4>1, <4>2 DEF Entry
    <3>2. QED
      BY <1>4, <2>2, <3>1 DEF Budget, WaitersSpent
  <2>4. BuriedSpent'
    <3>1. ASSUME NEW e \in Elements(dead)  PROVE e.id \in Jobs \ {x}
      <4>1. e \in Entry
        BY <1>1, ElementOfSeq, LenProperties DEF Elements, DataTypes
      <4>2. e.id \in Buried
        BY DEF Elements, Buried, IdsOf
      <4>3. QED
        BY <1>2, <4>1, <4>2 DEF Entry
    <3>2. QED
      BY <1>4, <2>2, <3>1 DEF Budget, BuriedSpent
  <2>5. ASSUME NEW v \in Workers  PROVE Spent(v)'
    <3>1. CASE v = w
      BY <1>1, <1>3, <1>4, <2>1, <2>2, <3>1 DEF Spent
    <3>2. CASE v # w /\ pc[v] \in Holding
      <4>1. job[v].id \in Jobs \ {x}
        BY <1>1, <3>2, HolderHasJob DEF Placed, OneHolder
      <4>2. pc'[v] = pc[v]
        BY <1>1, <2>1, <3>2
      <4>3. QED
        BY <1>4, <2>2, <4>1, <4>2 DEF Budget, Spent
    <3>3. CASE v # w /\ pc[v] \notin Holding
      <4>1. pc'[v] = pc[v]
        BY <1>1, <2>1, <3>3
      <4>2. QED
        BY <3>3, <4>1 DEF Spent, Holding
    <3>4. QED
      BY <3>1, <3>2, <3>3
  <2>6. Limited'
    BY <1>3, <2>2 DEF Budget, Limited
  <2>7. x \in Accepted /\ Accepted' = Accepted
    BY <1>2, <1>4 DEF Placed, Everywhere, Accepted
  <2>8. Unspent'
    BY <2>2, <2>7 DEF Budget, Unspent
  <2>9. QED
    BY <2>3, <2>4, <2>5, <2>6, <2>8 DEF Budget
<1>7. QED
  BY <1>5, <1>6

LEMMA GoesOnBudget ==
  ASSUME Sound, Placed, Budget, NEW w \in Workers, GoesOn(w)
  PROVE  Budget'
<1>1. DataTypes /\ WorkerTypes /\ pc \in [Workers -> Places] /\ job \in [Workers -> Entry \cup {NoJob}]
  BY DEF Sound, WorkerTypes
<1>2. runs' = runs /\ dead' = dead /\ Accepted' = Accepted /\ \A v \in Workers \ {w} : pc'[v] = pc[v]
  BY <1>1 DEF GoesOn, Poll, Pop, PollTimesOut, PollFails, HandlerTimesOut, HandlerRaises, Retry, BackoffEnds, GiveUp,
              Goto, history, Accepted
<1>3. CASE Poll(w) \/ PollTimesOut(w) \/ PollFails(w)
  <2>1. job' = job /\ queue' = queue /\ pc'[w] \notin Holding
    BY <1>1, <1>3 DEF Poll, PollTimesOut, PollFails, Goto, Holding
  <2>2. Spent(w)'
    BY <2>1 DEF Spent, Holding
  <2>3. QED
    BY <1>2, <2>1, <2>2, BudgetFrame
<1>4. CASE Pop(w)
  <2>1. PICK p \in Levels : \E i \in DOMAIN queue[p] :
           /\ job' = [job EXCEPT ![w] = queue[p][i]]
           /\ queue' = [queue EXCEPT ![p] = RemoveAt(@, i)]
    BY <1>1, <1>4, PopTakesOne
  <2>2. PICK i \in DOMAIN queue[p] :
           /\ job' = [job EXCEPT ![w] = queue[p][i]]
           /\ queue' = [queue EXCEPT ![p] = RemoveAt(@, i)]
    BY <2>1
  <2>3. pc'[w] = "popped"
    BY <1>1, <1>4 DEF Pop, Goto
  <2>4. job'[w] = queue[p][i] /\ \A v \in Workers \ {w} : job'[v] = job[v]
    BY <1>1, <2>2
  <2>5. queue[p][i] \in Elements(queue[p])
    BY DEF Elements
  <2>6. Spent(w)'
    BY <1>2, <2>3, <2>4, <2>5 DEF Budget, WaitersSpent, Spent
  <2>7. Elements(RemoveAt(queue[p], i)) \subseteq Elements(queue[p])
    BY <1>1, ShortenedList DEF DataTypes
  <2>8. \A q \in Levels : Elements(queue'[q]) \subseteq Elements(queue[q])
    BY <1>1, <2>2, <2>7 DEF DataTypes
  <2>9. QED
    BY <1>2, <2>4, <2>6, <2>8, BudgetFrame
<1>5. CASE BackoffEnds(w)
  <2>1. job' = job /\ queue' = queue /\ pc[w] = "backoff" /\ pc'[w] = "requeue"
    BY <1>1, <1>5 DEF BackoffEnds, Goto
  <2>2. Spent(w)'
    BY <1>2, <2>1 DEF Budget, Spent
  <2>3. QED
    BY <1>2, <2>1, <2>2, BudgetFrame
<1>6. CASE HandlerTimesOut(w) \/ HandlerRaises(w) \/ GiveUp(w)
  <2>1. pc[w] = "running" /\ job' = [job EXCEPT ![w].retry = @ + 1] /\ queue' = queue
    BY <1>6 DEF HandlerTimesOut, HandlerRaises, Retry, GiveUp
  <2>2. /\ job[w] \in Entry /\ job'[w].id = job[w].id /\ job'[w].retry = job[w].retry + 1
        /\ \A v \in Workers \ {w} : job'[v] = job[v]
    BY <1>1, <2>1, RetryCounted
  <2>3. job[w].retry \in Nat /\ MaxRetries \in Nat /\ runs[job[w].id] = job[w].retry + 1 /\ job[w].retry <= MaxRetries
    BY <2>1, <2>2, Bounds DEF Budget, Spent, Entry
  <2>4. \/ pc'[w] \in {"requeue", "backoff"} /\ job[w].retry + 1 <= MaxRetries
        \/ pc'[w] = "bury" /\ job[w].retry + 1 > MaxRetries
    BY <1>1, <1>6 DEF HandlerTimesOut, HandlerRaises, Retry, GiveUp
  <2>5. Spent(w)'
    BY <1>2, <2>2, <2>3, <2>4 DEF Spent
  <2>6. QED
    BY <1>2, <2>1, <2>2, <2>5, BudgetFrame
<1>7. QED
  BY <1>3, <1>4, <1>5, <1>6 DEF GoesOn

LEMMA LetsGoBudget ==
  ASSUME Sound, Placed, Budget, NEW w \in Workers, LetsGo(w)
  PROVE  Budget'
<1>1. DataTypes /\ pc \in [Workers -> Places] /\ job \in [Workers -> Entry \cup {NoJob}] /\ pc[w] \in Holding
  BY DEF Sound, WorkerTypes, LetsGo, Complete, BrokerFails, RequeueCheck, RequeuePush, Bury, Holding
<1>2. job[w] \in Entry /\ job[w].id \in Jobs
  BY <1>1, HolderHasJob
<1>3. runs' = runs /\ Accepted' = Accepted
  BY DEF LetsGo, Complete, BrokerFails, RequeueCheck, RequeuePush, Bury, history, Accepted
<1>4. ASSUME NEW to \in {"idle", "dead"}, Release(w, to)
      PROVE  Spent(w)' /\ \A v \in Workers \ {w} : pc'[v] = pc[v] /\ job'[v] = job[v]
  BY <1>1, <1>4 DEF Release, Spent
<1>5. CASE Complete(w) \/ BrokerFails(w) \/ RequeueCheck(w)
  <2>1. queue' = queue /\ dead' = dead
    BY <1>5 DEF Complete, BrokerFails, RequeueCheck
  <2>2. CASE \E to \in {"idle", "dead"} : Release(w, to)
    BY <1>3, <1>4, <2>1, <2>2, BudgetFrame
  <2>3. CASE Goto(w, "requeue", "push") /\ job' = job
    <3>1. pc[w] = "requeue" /\ pc'[w] = "push" /\ \A v \in Workers \ {w} : pc'[v] = pc[v]
      BY <1>1, <2>3 DEF Goto
    <3>2. Spent(w)'
      BY <1>3, <2>3, <3>1 DEF Budget, Spent
    <3>3. QED
      BY <1>3, <2>1, <2>3, <3>1, <3>2, BudgetFrame
  <2>4. QED
    BY <1>5, <2>2, <2>3 DEF Complete, BrokerFails, RequeueCheck
<1>6. CASE RequeuePush(w)
  <2> DEFINE e == job[w]
             r == Priority[e.id]
  <2>1. r \in Levels /\ queue' = [queue EXCEPT ![r] = Append(@, e)] /\ dead' = dead
    BY <1>2, <1>6, JobAssumption DEF RequeuePush, PushJob
  <2>2. Elements(Append(queue[r], e)) = Elements(queue[r]) \cup {e}
    BY <1>1, <1>2, <2>1, AppendedList DEF DataTypes
  <2>3. runs[e.id] = e.retry /\ e.retry <= MaxRetries
    BY <1>6 DEF RequeuePush, Budget, Spent
  <2>4. \A p \in Levels : Elements(queue'[p]) \subseteq Elements(queue[p]) \cup {e}
    BY <1>1, <2>1, <2>2 DEF DataTypes
  <2> HIDE DEF e
  <2>5. WaitersSpent'
    BY <1>3, <2>3, <2>4 DEF Budget, WaitersSpent
  <2>6. Release(w, "idle")
    BY <1>6 DEF RequeuePush
  <2>7. ASSUME NEW v \in Workers  PROVE Spent(v)'
    BY <1>3, <1>4, <2>6 DEF Budget, Spent
  <2>8. BuriedSpent' /\ Unspent' /\ Limited'
    BY <1>3, <2>1 DEF Budget, BuriedSpent, Unspent, Limited
  <2>9. QED
    BY <2>5, <2>7, <2>8 DEF Budget
<1>7. CASE Bury(w)
  <2> DEFINE e == job[w]
  <2>1. queue' = queue /\ Release(w, "idle") /\ pc[w] \in {"bury", "buryUnknown"}
    BY <1>7 DEF Bury
  <2>2. e.id \notin Unknown => runs[e.id] = MaxRetries + 1
    BY <2>1 DEF Budget, Spent
  <2>3. Elements(dead') \subseteq Elements(dead) \cup {e}
    <3>1. CASE backend = "redis"
      <4>1. PICK all \in Seq(Entry) : \E c \in 0..Len(all) :
              all = Append(dead, job[w]) /\ dead' = SubSeq(all, c + 1, Len(all))
        BY <1>1, <1>2, <1>7, <3>1, BuryCuts
      <4>2. PICK c \in 0..Len(all) : dead' = SubSeq(all, c + 1, Len(all))
        BY <4>1
      <4>3. Elements(dead') \subseteq Elements(all)
        BY <4>2, CutList
      <4>4. Elements(Append(dead, job[w])) = Elements(dead) \cup {job[w]} /\ all = Append(dead, job[w])
        BY <1>1, <1>2, <4>1, AppendedList DEF DataTypes
      <4>5. QED
        BY <4>3, <4>4
    <3>2. CASE backend # "redis"
      BY <1>7, <3>2 DEF Bury
    <3>3. QED
      BY <3>1, <3>2
  <2> HIDE DEF e
  <2>4. BuriedSpent'
    BY <1>3, <2>2, <2>3 DEF Budget, BuriedSpent
  <2>5. ASSUME NEW v \in Workers  PROVE Spent(v)'
    BY <1>3, <1>4, <2>1 DEF Budget, Spent
  <2>6. WaitersSpent' /\ Unspent' /\ Limited'
    BY <1>3, <2>1 DEF Budget, WaitersSpent, Unspent, Limited
  <2>7. QED
    BY <2>4, <2>5, <2>6 DEF Budget
<1>8. QED
  BY <1>5, <1>6, <1>7 DEF LetsGo

LEMMA StepBudget == Sound /\ Placed /\ Budget /\ [Next]_vars => Budget'
<1> SUFFICES ASSUME Sound, Placed, Budget, [Next]_vars  PROVE Budget'
  OBVIOUS
<1>1. DataTypes
  BY DEF Sound
<1>2. ASSUME UNCHANGED <<queue, dead, runs, pc, job>>, Accepted \subseteq Accepted'  PROVE Budget'
  <2>1. WaitersSpent' /\ BuriedSpent' /\ Limited' /\ Unspent'
    BY <1>2 DEF Budget, WaitersSpent, BuriedSpent, Limited, Unspent
  <2>2. \A w \in Workers : Spent(w)'
    BY <1>2 DEF Budget, Spent
  <2>3. QED
    BY <2>1, <2>2 DEF Budget
<1>3. CASE UNCHANGED vars
  BY <1>2, <1>3 DEF vars, state, workerVars, history, Accepted
<1>4. ASSUME NEW j \in Jobs, Enqueue(j)  PROVE Budget'
  <2>1. Accepted \subseteq Accepted'
    BY <1>1, <1>4 DEF Enqueue, Accepted, DataTypes
  <2>2. QED
    BY <1>2, <1>4, <2>1 DEF Enqueue, workerVars
<1>5. ASSUME NEW j \in Jobs, Push(j)  PROVE Budget'
  <2>1. Accepted \subseteq Accepted' /\ j \in Jobs \ Accepted
    BY <1>1, <1>5 DEF Push, Accepted, DataTypes
  <2>2. CASE UNCHANGED queue
    BY <1>2, <1>5, <2>1, <2>2 DEF Push, workerVars, history
  <2>3. CASE PushJob([id |-> j, retry |-> 0])
    <3> DEFINE e == [id |-> j, retry |-> 0]
               r == Priority[j]
    <3>1. e \in Entry /\ e.id = j /\ e.retry = 0 /\ r \in Levels
      BY JobAssumption DEF Entry
    <3>2. queue' = [queue EXCEPT ![r] = Append(@, e)]
      BY <2>3 DEF PushJob
    <3> HIDE DEF e
    <3>3. Elements(Append(queue[r], e)) = Elements(queue[r]) \cup {e}
      BY <1>1, <3>1, AppendedList DEF DataTypes
    <3>4. \A p \in Levels : Elements(queue'[p]) \subseteq Elements(queue[p]) \cup {e}
      BY <1>1, <3>1, <3>2, <3>3 DEF DataTypes
    <3>5. runs[j] = 0 /\ 0 <= MaxRetries /\ runs' = runs
      BY <1>5, <2>1, Bounds DEF Push, Budget, Unspent, history
    <3>6. WaitersSpent'
      BY <3>1, <3>4, <3>5 DEF Budget, WaitersSpent
    <3>7. BuriedSpent' /\ Limited' /\ Unspent'
      BY <1>5, <2>1, <3>5 DEF Push, Budget, BuriedSpent, Limited, Unspent
    <3>8. \A w \in Workers : Spent(w)'
      BY <1>5, <3>5 DEF Push, Budget, Spent, workerVars
    <3>9. QED
      BY <3>6, <3>7, <3>8 DEF Budget
  <2>4. QED
    BY <1>5, <2>2, <2>3 DEF Push
<1>6. ASSUME NEW w \in Workers, Worker(w)  PROVE Budget'
  BY <1>6, GoesOnBudget, ReceiveBudget, LetsGoBudget DEF Worker, GoesOn, LetsGo
<1>7. ASSUME NEW cause, EndTasks(cause), UNCHANGED <<dead, submitted, runs>>  PROVE Budget'
  <2>1. \A w \in Workers : Spent(w)'
    BY <1>7 DEF EndTasks, Spent
  <2>2. WaitersSpent'
    BY <1>7 DEF EndTasks, Budget, WaitersSpent, Elements
  <2>3. BuriedSpent' /\ Limited' /\ Unspent'
    BY <1>7 DEF Budget, BuriedSpent, Limited, Unspent, Accepted
  <2>4. QED
    BY <2>1, <2>2, <2>3 DEF Budget
<1>8. CASE CancelTasks
  BY <1>7, <1>8 DEF CancelTasks
<1>9. CASE Crash
  BY <1>7, <1>9 DEF Crash
<1>10. CASE Start
  <2>1. \A w \in Workers : Spent(w)'
    BY <1>10 DEF Start, Spent
  <2>2. WaitersSpent' /\ BuriedSpent' /\ Limited' /\ Unspent'
    BY <1>10 DEF Start, Budget, WaitersSpent, BuriedSpent, Limited, Unspent, Accepted, history
  <2>3. QED
    BY <2>1, <2>2 DEF Budget
<1>11. CASE Stop \/ BrokerDown \/ BrokerBack
  BY <1>2, <1>11 DEF Stop, BrokerDown, BrokerBack, workerVars, history, Accepted
<1>12. QED
  BY <1>3, <1>4, <1>5, <1>6, <1>8, <1>9, <1>10, <1>11 DEF Next, DrainedCancel, GraceExpires

LEMMA AlwaysBudget == Spec => [](Sound /\ Placed /\ Budget)
<1>1. Sound /\ Placed /\ Budget /\ [Next]_vars => (Sound /\ Placed /\ Budget)'
  BY StepSound, StepPlaced, StepBudget
<1>2. QED
  BY <1>1, InitSound, InitPlaced, InitBudget, PTL DEF Spec

-----------------------------------------------------------------------------
(* The ledger.                                                             *)

(* Most steps leave it alone, or lose jobs that are owed: what they lose   *)
(* was accepted and is nowhere else.                                       *)
LEMMA LedgerDrops ==
  ASSUME Placed, Placed', UNCHANGED <<finished, runs>>,
         Accepted' = Accepted, Buried' = Buried, Gone \subseteq Gone'
  PROVE  Ledger!Drop
<1>1. Gone' \ Gone \subseteq Accepted \ (finished \cup Buried \cup Gone)
  BY DEF Placed, Apart, Everywhere
<1>2. Gone' = Gone \cup (Gone' \ Gone)
  OBVIOUS
<1>3. \E jobs \in SUBSET (Accepted \ (finished \cup Buried \cup Gone)) : Gone' = Gone \cup jobs
  BY <1>1, <1>2
<1>4. QED
  BY <1>3 DEF Ledger!Drop, Ledger!Owed, Accepted, Buried, Gone

LEMMA LostStaysLost ==
  ASSUME NEW ids, NEW cause \in Causes \ {"no"}, Lose(ids, cause)
  PROVE  Gone \subseteq Gone'
BY DEF Gone, Lose

LEMMA LedgerWorker ==
  ASSUME Sound, Placed, Budget, Placed', NEW w \in Workers, Worker(w)
  PROVE  Ledger!Next
<1> DEFINE x == job[w].id
<1>t. DataTypes
  BY DEF Sound
<1>h. pc[w] \in Holding =>
        /\ job[w] \in Entry /\ x \in Jobs
        /\ x \in Accepted \ (finished \cup Buried \cup Gone)
  <2>1. pc[w] \in Holding => job[w] \in Entry /\ x \in Jobs /\ x \in Held
    BY HolderHasJob
  <2>2. QED
    BY <2>1 DEF Placed, Apart, Everywhere
<1> HIDE DEF x
<1>1. CASE Complete(w)
  <2>1. pc[w] = "running" /\ finished' = finished \cup {x} /\ UNCHANGED <<dead, submitted, lost, runs>>
    BY <1>1 DEF Complete, x
  <2>2. runs[x] = job[w].retry + 1
    BY <2>1 DEF Budget, Spent, x
  <2>3. x \in Accepted \ (finished \cup Buried \cup Gone) /\ x \in Jobs /\ job[w].retry \in Nat
    BY <2>1, <1>h DEF Holding, Entry
  <2>4. runs[x] > 0
    BY <2>2, <2>3
  <2>5. Ledger!Finish(x)
    BY <2>1, <2>3, <2>4 DEF Ledger!Finish, Ledger!Owed, Accepted, Buried, Gone
  <2>6. x \in Jobs
    BY <2>3
  <2>7. \E j \in Jobs : Ledger!Finish(j)
    BY <2>5, <2>6
  <2>8. QED
    BY <2>7, Zenon DEF Ledger!Next
<1>2. CASE Receive(w)
  <2>1. pc[w] = "popped" /\ UNCHANGED <<dead, submitted, finished, lost>>
    BY <1>2 DEF Receive, Goto
  <2>2. Accepted' = Accepted /\ Buried' = Buried /\ Gone' = Gone
    BY <2>1 DEF Accepted, Buried, Gone
  <2>3. CASE runs' = runs
    BY <2>1, <2>2, <2>3, LedgerDrops DEF Ledger!Next
  <2>4. CASE x \notin Unknown /\ runs' = [runs EXCEPT ![x] = @ + 1]
    <3>1. x \in Accepted \ (finished \cup Buried \cup Gone) /\ x \in Jobs
      BY <2>1, <1>h DEF Holding
    <3>2. runs[x] = job[w].retry /\ job[w].retry <= MaxRetries /\ job[w].retry \in Nat
      BY <2>1, <1>h DEF Budget, Spent, x, Holding, Entry
    <3>3. runs[x] < MaxRetries + 1
      BY <3>2, Bounds
    <3>4. Ledger!Run(x)
      BY <2>1, <2>4, <3>1, <3>3 DEF Ledger!Run, Ledger!Owed, Accepted, Buried, Gone
    <3>5. x \in Jobs
      BY <3>1
    <3>6. \E j \in Jobs : Ledger!Run(j)
      BY <3>4, <3>5
    <3>7. QED
      BY <3>6, Zenon DEF Ledger!Next
  <2>5. QED
    BY <1>2, <2>3, <2>4 DEF Receive, x
<1>3. CASE Bury(w) /\ backend = "redis"
  <2>1. pc[w] \in {"bury", "buryUnknown"} /\ UNCHANGED <<submitted, finished, runs>>
    BY <1>3 DEF Bury
  <2>2. PICK cut \in SUBSET Jobs : /\ Buried' \cup cut = Buried \cup {x} /\ Buried' \cap cut = {}
                                   /\ Gone' = Gone \cup cut
    BY <1>3, BuryMoves DEF x
  <2>3. x \in Accepted \ (finished \cup Buried \cup Gone) /\ x \in Jobs
    BY <2>1, <1>h DEF Holding
  <2>4. x \in Unknown \/ runs[x] = MaxRetries + 1
    BY <2>1 DEF Budget, Spent, x
  <2>5. cut \in SUBSET (Buried \cup {x}) /\ Buried' = (Buried \cup {x}) \ cut
    BY <2>2
  <2>6. PICK j \in Jobs : j = x
    BY <2>3
  <2>7. Ledger!Bury(j)
    BY <2>1, <2>2, <2>3, <2>4, <2>5, <2>6 DEF Ledger!Bury, Ledger!Owed, Accepted, Buried, Gone
  <2>8. QED
    BY <2>7, Zenon DEF Ledger!Next
<1>4. ASSUME UNCHANGED <<dead, submitted, finished, runs>>,
             \/ lost' = lost
             \/ \E ids, cause : cause \in Causes \ {"no"} /\ Lose(ids, cause)
      PROVE  Ledger!Next
  <2>1. Accepted' = Accepted /\ Buried' = Buried /\ Gone \subseteq Gone'
    BY <1>4, LostStaysLost DEF Accepted, Buried, Gone
  <2>2. QED
    BY <1>4, <2>1, LedgerDrops DEF Ledger!Next
<1>5. CASE Bury(w) /\ backend # "redis"
  BY <1>4, <1>5 DEF Bury, Causes
<1>6. CASE BrokerFails(w)
  BY <1>4, <1>6 DEF BrokerFails, Causes
<1>7. CASE RequeueCheck(w)
  BY <1>4, <1>7 DEF RequeueCheck, Causes
<1>8. CASE RequeuePush(w) \/ Pop(w) \/ Poll(w) \/ PollTimesOut(w) \/ PollFails(w)
  BY <1>4, <1>8 DEF RequeuePush, Pop, Poll, PollTimesOut, PollFails, history
<1>9. CASE HandlerTimesOut(w) \/ HandlerRaises(w) \/ BackoffEnds(w) \/ GiveUp(w)
  BY <1>4, <1>9 DEF HandlerTimesOut, HandlerRaises, Retry, BackoffEnds, GiveUp, history
<1>10. QED
  BY <1>1, <1>2, <1>3, <1>5, <1>6, <1>7, <1>8, <1>9 DEF Worker

LEMMA LedgerEnqueue ==
  ASSUME Sound, Placed, Placed', NEW j \in Jobs, Enqueue(j) \/ Push(j)
  PROVE  Ledger!Next
<1>1. DataTypes /\ j \notin Accepted /\ UNCHANGED <<dead, finished, runs>>
  BY DEF Sound, Enqueue, Push, Accepted, history
<1>2. CASE submitted' = [submitted EXCEPT ![j] = "accepted"] /\ (lost' = lost \/ Lose({j}, "queue full"))
  <2>1. Accepted' = Accepted \cup {j}
    BY <1>1, <1>2 DEF Accepted, DataTypes
  <2>2. Gone' \in {Gone, Gone \cup {j}}
    BY <1>1, <1>2, GoneGrows DEF Gone, Causes
  <2>3. Ledger!Accept(j)
    BY <1>1, <2>1, <2>2 DEF Ledger!Accept, Accepted, Buried, Gone
  <2>4. QED
    BY <2>3 DEF Ledger!Next
<1>3. CASE lost' = lost /\ \E to \in {"refused", "checked"} : submitted' = [submitted EXCEPT ![j] = to]
  <2>1. Accepted' = Accepted /\ Buried' = Buried /\ Gone' = Gone
    BY <1>1, <1>3 DEF Accepted, Buried, Gone, DataTypes
  <2>2. QED
    BY <1>1, <2>1, LedgerDrops DEF Ledger!Next
<1>4. QED
  BY <1>2, <1>3 DEF Enqueue, Push, history

(* The queue keeps jobs as the ledger says: whatever workers, retries,     *)
(* outages, stops and crashes do, a job that has ended is not run again,   *)
(* and each start of a handler is one the ledger allows.                   *)
THEOREM ImplementsLedger == Spec => KeepsLedger
<1>1. Init => Ledger!Init
  BY DEF Init, Ledger!Init, IdsOf
<1>2. ASSUME Sound, Placed, Budget, [Next]_vars  PROVE [Ledger!Next]_(Ledger!ledger)
  <2>p. Placed'
    BY <1>2, StepPlaced
  <2>1. CASE \E j \in Jobs : Enqueue(j) \/ Push(j)
    BY <1>2, <2>p, <2>1, LedgerEnqueue
  <2>2. CASE \E w \in Workers : Worker(w)
    BY <1>2, <2>p, <2>2, LedgerWorker
  <2>3. CASE CancelTasks \/ Crash
    <3>1. UNCHANGED <<dead, submitted, finished, runs>> /\ Gone \subseteq Gone'
      BY <2>3, LostStaysLost DEF CancelTasks, Crash, EndTasks, Causes
    <3>2. Accepted' = Accepted /\ Buried' = Buried
      BY <3>1 DEF Accepted, Buried
    <3>3. QED
      BY <1>2, <2>p, <3>1, <3>2, LedgerDrops DEF Ledger!Next
  <2>4. CASE Stop \/ Start \/ BrokerDown \/ BrokerBack \/ UNCHANGED vars
    <3>1. UNCHANGED <<dead, submitted, finished, runs, lost>>
      BY <2>4 DEF Stop, Start, BrokerDown, BrokerBack, vars, state, history
    <3>2. QED
      BY <3>1 DEF Ledger!ledger
  <2>5. QED
    BY <1>2, <2>1, <2>2, <2>3, <2>4 DEF Next, DrainedCancel, GraceExpires
<1>3. QED
  BY <1>1, <1>2, AlwaysBudget, PTL DEF Spec, KeepsLedger, Ledger!Spec

(* A handler is started at most MaxRetries + 1 times for a job, and what   *)
(* is in the dead-letter list was started exactly as often or was unknown. *)
THEOREM RetriesAreBounded == Spec => []Ledger!WithinBudget
<1>1. Budget => Ledger!WithinBudget
  BY DEF Budget, Limited, BuriedSpent, Elements, IdsOf, Ledger!WithinBudget
<1>2. QED
  BY <1>1, AlwaysBudget, PTL

-----------------------------------------------------------------------------
(* What makes a job disappear.                                             *)

(* The process is down only after a stop, the broker only after an outage. *)
FaultsCounted == (~isRunning => stops > 0) /\ (~brokerUp => outages > 0)

LEMMA InitFaults == Init => FaultsCounted /\ LossNeedsFault
BY DEF Init, FaultsCounted, LossNeedsFault

LEMMA StepFaultsCounted == Sound /\ FaultsCounted /\ [Next]_vars => FaultsCounted'
<1> SUFFICES ASSUME Sound, FaultsCounted, [Next]_vars  PROVE FaultsCounted'
  OBVIOUS
<1>1. stops \in Nat /\ outages \in Nat
  BY Bounds DEF Sound, DataTypes
<1>2. CASE UNCHANGED <<isRunning, brokerUp, stops, outages>>
  BY <1>2 DEF FaultsCounted
<1>3. CASE Stop \/ Crash \/ Start \/ BrokerDown \/ BrokerBack
  BY <1>1, <1>3 DEF FaultsCounted, Stop, Crash, Start, BrokerDown, BrokerBack
<1>4. CASE CancelTasks
  BY <1>2, <1>4 DEF CancelTasks
<1>5. ASSUME NEW j \in Jobs, Enqueue(j) \/ Push(j)  PROVE FaultsCounted'
  BY <1>2, <1>5 DEF Enqueue, Push
<1>6. ASSUME NEW w \in Workers, Worker(w)  PROVE FaultsCounted'
  BY <1>2, <1>6 DEF Worker, Poll, Pop, PollTimesOut, PollFails, Receive, Complete, HandlerTimesOut, HandlerRaises, Retry,
                    BackoffEnds, GiveUp, BrokerFails, RequeueCheck, RequeuePush, Bury
<1>7. CASE UNCHANGED vars
  BY <1>2, <1>7 DEF vars, state
<1>8. QED
  BY <1>3, <1>4, <1>5, <1>6, <1>7 DEF Next, DrainedCancel, GraceExpires

LEMMA StepLoss == Sound /\ FaultsCounted /\ LossNeedsFault /\ [Next]_vars => LossNeedsFault'
<1> DEFINE Harmless == {"no", "queue full", "dead-letter trimmed"}
<1> SUFFICES ASSUME Sound, FaultsCounted, LossNeedsFault, [Next]_vars, stops' = 0, outages' = 0, backend' = "redis"
             PROVE  \A j \in Jobs : lost'[j] \in Harmless
  BY DEF LossNeedsFault
<1>1. DataTypes /\ stops \in Nat /\ outages \in Nat
  BY Bounds DEF Sound, DataTypes
<1>2. backend = "redis" /\ stops = 0 /\ outages = 0
  <2>1. backend' = backend
    BY DEF Next, vars
  <2>2. CASE UNCHANGED <<stops, outages>>
    BY <2>1, <2>2
  <2>3. CASE Stop \/ Crash \/ BrokerDown
    BY <1>1, <2>3 DEF Stop, Crash, BrokerDown
  <2>4. CASE CancelTasks \/ Start \/ BrokerBack
    BY <2>2, <2>4 DEF CancelTasks, Start, BrokerBack
  <2>5. ASSUME NEW j \in Jobs, Enqueue(j) \/ Push(j)  PROVE UNCHANGED <<stops, outages>>
    BY <2>5 DEF Enqueue, Push
  <2>6. ASSUME NEW w \in Workers, Worker(w)  PROVE UNCHANGED <<stops, outages>>
    BY <2>6 DEF Worker, Poll, Pop, PollTimesOut, PollFails, Receive, Complete, HandlerTimesOut, HandlerRaises, Retry,
                BackoffEnds, GiveUp, BrokerFails, RequeueCheck, RequeuePush, Bury
  <2>7. CASE UNCHANGED vars
    BY <2>2, <2>7 DEF vars, state
  <2>8. QED
    BY <2>1, <2>2, <2>3, <2>4, <2>5, <2>6, <2>7 DEF Next, DrainedCancel, GraceExpires
<1>3. isRunning /\ brokerUp /\ \A j \in Jobs : lost[j] \in Harmless
  <2>1. ~(stops > 0) /\ ~(outages > 0)
    BY <1>2
  <2>2. isRunning /\ brokerUp
    BY <2>1 DEF FaultsCounted
  <2>3. \A j \in Jobs : lost[j] \in Harmless
    BY <1>2 DEF LossNeedsFault
  <2>4. QED
    BY <2>2, <2>3
<1>4. Available
  BY <1>3 DEF Available
<1>5. ASSUME NEW ids, NEW cause \in Harmless, Lose(ids, cause)  PROVE \A j \in Jobs : lost'[j] \in Harmless
  BY <1>3, <1>5 DEF Lose
<1>6. CASE lost' = lost
  BY <1>3, <1>6
<1>7. ASSUME NEW j \in Jobs, Enqueue(j) \/ Push(j)  PROVE \A x \in Jobs : lost'[x] \in Harmless
  BY <1>5, <1>6, <1>7 DEF Enqueue, Push, history
<1>8. ASSUME NEW w \in Workers, GoesOn(w) \/ Receive(w) \/ Complete(w) \/ RequeuePush(w)
      PROVE  \A x \in Jobs : lost'[x] \in Harmless
  BY <1>6, <1>8 DEF GoesOn, Poll, Pop, PollTimesOut, PollFails, Receive, Complete, HandlerTimesOut, HandlerRaises, Retry,
                    BackoffEnds, GiveUp, RequeuePush, history
<1>9. ASSUME NEW w \in Workers, BrokerFails(w) \/ RequeueCheck(w) \/ Bury(w)
      PROVE  \A x \in Jobs : lost'[x] \in Harmless
  <2>1. ~BrokerFails(w)
    BY <1>4 DEF BrokerFails
  <2>2. CASE RequeueCheck(w)
    BY <1>5, <1>6, <2>2 DEF RequeueCheck
  <2>3. CASE Bury(w)
    BY <1>2, <1>5, <2>3 DEF Bury
  <2>4. QED
    BY <1>9, <2>1, <2>2, <2>3
<1>10. ~CancelTasks /\ ~Crash
  <2>1. ~CancelTasks
    BY <1>3 DEF CancelTasks
  <2>2. ~Crash
    BY <1>2 DEF Crash
  <2>3. QED
    BY <2>1, <2>2
<1>11. CASE Stop \/ Start \/ BrokerDown \/ BrokerBack \/ UNCHANGED vars
  BY <1>6, <1>11 DEF Stop, Start, BrokerDown, BrokerBack, vars, state, history
<1>12. QED
  BY <1>7, <1>8, <1>9, <1>10, <1>11 DEF Next, Worker, GoesOn, DrainedCancel, GraceExpires

(* Over Redis, without an outage or a stop, only a full list makes a job   *)
(* disappear.                                                              *)
THEOREM NothingVanishes == Spec => []LossNeedsFault
<1>1. Sound /\ FaultsCounted /\ LossNeedsFault /\ [Next]_vars => (Sound /\ FaultsCounted /\ LossNeedsFault)'
  BY StepSound, StepFaultsCounted, StepLoss
<1>2. QED
  BY <1>1, InitSound, InitFaults, PTL DEF Spec

-----------------------------------------------------------------------------
(* The breakers of the outbound calls.                                     *)

(* The trial flag is tied to the state of the breaker and the state to the *)
(* count: together with the types, which is what Consistent says, they are *)
(* inductive as they stand.                                                *)
LEMMA BreakerInitConsistent == BreakerInit => Consistent
  <1> SUFFICES ASSUME BreakerInit PROVE Consistent
    OBVIOUS
  <1>1. failures \in Nat /\ openedFor \in {NotOpened} \cup 0..RecoverySeconds
    BY DEF BreakerInit
  <1>2. halfOpenTrial \in BOOLEAN /\ abandoned \in BOOLEAN
    BY DEF BreakerInit
  <1>3. call \in [Calls -> CallStates]
    BY DEF BreakerInit, CallStates
  <1>4. OpenIffThreshold
    BY ThresholdAssumption DEF BreakerInit, OpenIffThreshold
  <1>5. TrialOnlyHalfOpen
    BY DEF BreakerInit, TrialOnlyHalfOpen
  <1> QED BY <1>1, <1>2, <1>3, <1>4, <1>5 DEF Consistent, BreakerTypes

(* An admitted call leaves the breaker as it is, but for the trial flag,   *)
(* which it raises in a half-open breaker only.                            *)
LEMMA BreakerAdmitConsistent == ASSUME Consistent, NEW c \in Calls, Admit(c) PROVE Consistent'
  <1>1. BreakerTypes'
    <2>1. halfOpenTrial' \in BOOLEAN
      BY DEF Consistent, BreakerTypes, Admit, AllowRequest
    <2>2. call' \in [Calls -> CallStates]
      BY DEF Consistent, BreakerTypes, Admit, AllowRequest, CallStates
    <2> QED BY <2>1, <2>2 DEF Consistent, BreakerTypes, Admit
  <1>2. OpenIffThreshold'
    BY DEF Consistent, OpenIffThreshold, Admit
  <1>3. TrialOnlyHalfOpen'
    BY DEF Consistent, TrialOnlyHalfOpen, Admit, AllowRequest, State
  <1> QED BY <1>1, <1>2, <1>3 DEF Consistent

(* Whatever it reports, a call that returns frees its coroutine.           *)
LEMMA BreakerReturnType == ASSUME BreakerTypes, NEW c \in Calls, Return(c)
                           PROVE  call' \in [Calls -> CallStates]
  BY DEF BreakerTypes, Return, CallStates

(* A success closes the breaker, clears the count and drops the flag.      *)
LEMMA BreakerSucceedConsistent == ASSUME Consistent, NEW c \in Calls, Succeed(c) PROVE Consistent'
  <1>1. failures' \in Nat /\ openedFor' \in {NotOpened} \cup 0..RecoverySeconds
    BY DEF Succeed, RecordSuccess
  <1>2. halfOpenTrial' \in BOOLEAN /\ abandoned' \in BOOLEAN
    BY DEF Consistent, BreakerTypes, Succeed, RecordSuccess
  <1>3. call' \in [Calls -> CallStates]
    BY BreakerReturnType DEF Consistent, Succeed
  <1>4. OpenIffThreshold'
    BY ThresholdAssumption DEF OpenIffThreshold, Succeed, RecordSuccess
  <1>5. TrialOnlyHalfOpen'
    BY DEF TrialOnlyHalfOpen, Succeed, RecordSuccess
  <1> QED BY <1>1, <1>2, <1>3, <1>4, <1>5 DEF Consistent, BreakerTypes

(* A failure drops the flag, and trips the breaker exactly when the count  *)
(* it leaves has reached the threshold.                                    *)
LEMMA BreakerFailConsistent == ASSUME Consistent, NEW c \in Calls, Fail(c) PROVE Consistent'
  <1>1. /\ failures' \in Nat
        /\ openedFor' \in {NotOpened} \cup 0..RecoverySeconds
        /\ OpenIffThreshold'
    <2>0. /\ failures \in Nat
          /\ openedFor \in {NotOpened} \cup 0..RecoverySeconds
          /\ OpenIffThreshold
      BY DEF Consistent, BreakerTypes
    <2>1. CASE /\ openedFor' = 0
               /\ failures' = FailureThreshold
      BY <2>0, <2>1, ThresholdAssumption, RecoveryAssumption
         DEF OpenIffThreshold, NotOpened
    <2>2. CASE /\ failures' = failures + 1
               /\ openedFor' = IF failures + 1 >= FailureThreshold THEN 0 ELSE openedFor
      BY <2>0, <2>2, ThresholdAssumption, RecoveryAssumption
         DEF OpenIffThreshold, NotOpened
    <2> QED BY <2>1, <2>2 DEF Fail, RecordFailure
  <1>2. halfOpenTrial' \in BOOLEAN /\ abandoned' \in BOOLEAN
    BY DEF Consistent, BreakerTypes, Fail, RecordFailure
  <1>3. call' \in [Calls -> CallStates]
    BY BreakerReturnType DEF Consistent, Fail
  <1>4. TrialOnlyHalfOpen'
    BY DEF TrialOnlyHalfOpen, Fail, RecordFailure
  <1> QED BY <1>1, <1>2, <1>3, <1>4 DEF Consistent, BreakerTypes

LEMMA BreakerCancelConsistent == ASSUME Consistent, NEW c \in Calls, Cancel(c) PROVE Consistent'
  <1>1. abandoned' \in BOOLEAN
    BY DEF Consistent, BreakerTypes, Cancel
  <1>2. call' \in [Calls -> CallStates]
    BY BreakerReturnType DEF Consistent, Cancel
  <1> QED
    BY <1>1, <1>2 DEF Consistent, BreakerTypes, OpenIffThreshold, TrialOnlyHalfOpen, Cancel, State

(* Time passes only in an open breaker, which carries no trial flag.       *)
LEMMA BreakerTickConsistent == ASSUME Consistent, Tick PROVE Consistent'
  <1>1. openedFor # RecoverySeconds /\ openedFor # NotOpened
    BY RecoveryAssumption DEF Tick, NotOpened
  <1>2. ~halfOpenTrial
    BY <1>1 DEF Consistent, TrialOnlyHalfOpen, State
  <1>3. openedFor' \in 0..RecoverySeconds /\ openedFor' # NotOpened
    BY RecoveryAssumption DEF Tick, NotOpened
  <1>4. OpenIffThreshold'
    BY <1>1, <1>3 DEF Consistent, OpenIffThreshold, Tick
  <1> QED
    BY <1>2, <1>3, <1>4 DEF Consistent, BreakerTypes, TrialOnlyHalfOpen, Tick

LEMMA BreakerStepConsistent == Consistent /\ [BreakerNext]_breakerVars => Consistent'
  <1> SUFFICES ASSUME Consistent, [BreakerNext]_breakerVars PROVE Consistent'
    OBVIOUS
  <1>1. CASE Tick
    BY <1>1, BreakerTickConsistent
  <1>2. ASSUME NEW c \in Calls, Admit(c) \/ Succeed(c) \/ Fail(c) \/ Cancel(c)
        PROVE  Consistent'
    BY <1>2, BreakerAdmitConsistent, BreakerSucceedConsistent, BreakerFailConsistent, BreakerCancelConsistent
  <1>3. CASE UNCHANGED breakerVars
    BY <1>3 DEF Consistent, BreakerTypes, OpenIffThreshold, TrialOnlyHalfOpen, State, breakerVars
  <1> QED BY <1>1, <1>2, <1>3 DEF BreakerNext

(* Every variable keeps its type, the breaker is tripped exactly while the *)
(* count has reached the threshold, whatever calls report late, and the    *)
(* trial flag never outlives the half-open phase it was raised in.         *)
THEOREM BreakerStaysConsistent == BreakerSpec => []Consistent
  <1>1. BreakerInit => Consistent
    BY BreakerInitConsistent DEF Consistent
  <1>2. Consistent /\ [BreakerNext]_breakerVars => Consistent'
    BY BreakerStepConsistent DEF Consistent
  <1> QED BY <1>1, <1>2, PTL DEF BreakerSpec

(* A raised flag belongs to a probe that is still out, or to one that was  *)
(* cancelled: admission raises both, every report drops the flag.          *)
THEOREM BreakerTrialIsOwned == BreakerSpec => []TrialFlagOwned
  <1>1. BreakerInit => TrialFlagOwned
    BY DEF BreakerInit, TrialFlagOwned
  <1>2. BreakerTypes /\ TrialFlagOwned /\ [BreakerNext]_breakerVars => TrialFlagOwned'
    <2> SUFFICES ASSUME BreakerTypes, TrialFlagOwned, [BreakerNext]_breakerVars PROVE TrialFlagOwned'
      OBVIOUS
    <2>1. CASE Tick
      BY <2>1 DEF Tick, TrialFlagOwned
    <2>2. ASSUME NEW c \in Calls, Admit(c) PROVE TrialFlagOwned'
      BY <2>2 DEF Admit, AllowRequest, TrialFlagOwned, BreakerTypes
    <2>3. ASSUME NEW c \in Calls, Succeed(c) \/ Fail(c) PROVE TrialFlagOwned'
      BY <2>3 DEF Succeed, Fail, RecordSuccess, RecordFailure, TrialFlagOwned
    <2>4. ASSUME NEW c \in Calls, Cancel(c) PROVE TrialFlagOwned'
      BY <2>4 DEF Cancel, Return, TrialFlagOwned, BreakerTypes
    <2>5. CASE UNCHANGED breakerVars
      BY <2>5 DEF breakerVars, TrialFlagOwned
    <2> QED BY <2>1, <2>2, <2>3, <2>4, <2>5 DEF BreakerNext
  <1>3. Consistent => BreakerTypes
    BY DEF Consistent
  <1> QED BY <1>1, <1>2, <1>3, BreakerStaysConsistent, PTL DEF BreakerSpec
=============================================================================
