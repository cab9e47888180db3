------------------------ MODULE OffenseGroupingProofs ------------------------
(***************************************************************************)
(* A rule has one open alert, every alert is in one offense, the counters  *)
(* are right, an offense is promoted once and a closed one gets no more,   *)
(* for any number of requests and jobs and whatever they do.               *)
(***************************************************************************)
EXTENDS OffenseGrouping, FiniteSetTheorems, TLAPS

-----------------------------------------------------------------------------
(* Tables.                                                                 *)

Tables(ids, Row) == UNION {[some -> Row] : some \in SUBSET ids}

LEMMA TableIs ==
  ASSUME NEW ids, NEW Row, NEW f \in Tables(ids, Row)
  PROVE  DOMAIN f \subseteq ids /\ \A i \in DOMAIN f : f[i] \in Row
BY DEF Tables

LEMMA PutIs ==
  ASSUME NEW f, NEW i, NEW row
  PROVE  /\ DOMAIN Put(f, i, row) = DOMAIN f \cup {i} /\ Put(f, i, row)[i] = row
         /\ \A j \in DOMAIN f \ {i} : Put(f, i, row)[j] = f[j]
BY DEF Put

LEMMA PutTable ==
  ASSUME NEW ids, NEW Row, NEW f \in Tables(ids, Row), NEW i \in ids, NEW row \in Row
  PROVE  Put(f, i, row) \in Tables(ids, Row)
<1>1. Put(f, i, row) \in [DOMAIN f \cup {i} -> Row]
  BY TableIs DEF Put
<1>2. DOMAIN f \cup {i} \in SUBSET ids
  BY TableIs
<1>3. QED
  BY <1>1, <1>2 DEF Tables

LEMMA UpdatedIs ==
  ASSUME NEW new, NEW was
  PROVE  /\ DOMAIN Updated(new, was) = DOMAIN new \cup DOMAIN was
         /\ \A i \in DOMAIN new : Updated(new, was)[i] = new[i]
         /\ \A i \in DOMAIN was \ DOMAIN new : Updated(new, was)[i] = was[i]
BY DEF Updated

LEMMA NoRowsIs == DOMAIN NoRows = {} /\ \A ids, Row : NoRows \in Tables(ids, Row)
<1>1. \A ids, Row : NoRows \in [{} -> Row] /\ {} \in SUBSET ids
  BY DEF NoRows
<1>2. QED
  BY <1>1 DEF Tables, NoRows

-----------------------------------------------------------------------------
(* Types.                                                                  *)

Written == [alerts : Tables(AlertIds, Alert), offenses : Tables(Txns, Offense),
            links : SUBSET Links, incidents : SUBSET Incident]

Statuses == AlertStatuses \cup OffenseStatuses

TableTypes ==
  /\ IsTable(alerts, AlertIds, Alert) /\ IsTable(offenses, Txns, Offense)
  /\ links \subseteq Links /\ incidents \subseteq Incident
  /\ announced \subseteq AlertIds /\ swallowed \subseteq AlertIds /\ now \in Times /\ kind \in Loads

TxnTypes ==
  /\ draft \in [Txns -> Written] /\ pc \in [Txns -> Places]
  /\ todo \in [Txns -> SUBSET Rules] /\ rule \in [Txns -> Rules]
  /\ seen \in [Txns -> SUBSET (Txns \X Times)]
  /\ target \in [Txns -> [id : AlertIds \cup Txns \cup {None}, old : Statuses, new : Statuses]]

(* What a transaction has loaded is a row.                                 *)
LoadedOf(t) ==
  /\ pc[t] = "write" => kind[t] \in {"triage", "status"}
  /\ pc[t] = "write" /\ kind[t] = "triage" =>
       target[t].id \in DOMAIN alerts /\ target[t].new \in AlertStatuses
  /\ pc[t] = "write" /\ kind[t] = "status" =>
       target[t].id \in DOMAIN offenses /\ target[t].new \in OffenseStatuses
  /\ pc[t] = "settle" => \A s \in seen[t] : s[1] \in DOMAIN OffensesOf(t)

Typed == TableTypes /\ TxnTypes /\ \A t \in Txns : LoadedOf(t)

LEMMA TypedIsTypeOK == Typed => TypeOK
<1>1. ASSUME Typed, NEW t \in Txns
      PROVE  /\ IsTable(draft[t].alerts, AlertIds, Alert) /\ IsTable(draft[t].offenses, Txns, Offense)
             /\ draft[t].links \subseteq Links /\ draft[t].incidents \subseteq Incident
  <2>1. draft[t] \in Written
    BY <1>1 DEF Typed, TxnTypes
  <2>2. QED
    BY <2>1, TableIs DEF Written, IsTable
<1>2. QED
  BY <1>1 DEF Typed, TableTypes, TxnTypes, TypeOK

LEMMA NoDraftIs == NoDraft \in Written
BY NoRowsIs DEF NoDraft, Written

LEMMA InitTyped == Init => Typed
<1>1. NoTarget \in [id : AlertIds \cup Txns \cup {None}, old : Statuses, new : Statuses]
  BY DEF NoTarget, Statuses, AlertStatuses
<1>2. 0 \in Times /\ OfflineRule \in Rules
  BY TimeAssumption, RulesAssumption DEF Times
<1>3. QED
  BY <1>1, <1>2, NoDraftIs, NoRowsIs
     DEF Init, Typed, TableTypes, TxnTypes, IsTable, Places, LoadedOf

(* The rows t sees.                                                        *)
LEMMA SeenRows ==
  ASSUME Typed, NEW t \in Txns
  PROVE  /\ DOMAIN draft[t].alerts \subseteq AlertIds /\ DOMAIN draft[t].offenses \subseteq Txns
         /\ \A a \in DOMAIN draft[t].alerts : draft[t].alerts[a] \in Alert
         /\ \A o \in DOMAIN draft[t].offenses : draft[t].offenses[o] \in Offense
         /\ DOMAIN OffensesOf(t) = DOMAIN draft[t].offenses \cup DOMAIN offenses
         /\ DOMAIN AlertsOf(t) = DOMAIN draft[t].alerts \cup DOMAIN alerts
         /\ \A o \in DOMAIN OffensesOf(t) :
              /\ OffensesOf(t)[o] \in Offense
              /\ o \in DOMAIN draft[t].offenses => OffensesOf(t)[o] = draft[t].offenses[o]
              /\ o \notin DOMAIN draft[t].offenses => OffensesOf(t)[o] = offenses[o]
         /\ \A a \in DOMAIN AlertsOf(t) :
              /\ AlertsOf(t)[a] \in Alert
              /\ a \in DOMAIN draft[t].alerts => AlertsOf(t)[a] = draft[t].alerts[a]
              /\ a \notin DOMAIN draft[t].alerts => AlertsOf(t)[a] = alerts[a]
<1>1. draft[t] \in Written /\ IsTable(alerts, AlertIds, Alert) /\ IsTable(offenses, Txns, Offense)
  BY DEF Typed, TxnTypes, TableTypes
<1>2. draft[t].alerts \in Tables(AlertIds, Alert) /\ draft[t].offenses \in Tables(Txns, Offense)
  BY <1>1 DEF Written
<1>3. /\ DOMAIN draft[t].alerts \subseteq AlertIds /\ DOMAIN draft[t].offenses \subseteq Txns
      /\ \A a \in DOMAIN draft[t].alerts : draft[t].alerts[a] \in Alert
      /\ \A o \in DOMAIN draft[t].offenses : draft[t].offenses[o] \in Offense
  BY <1>2, TableIs
<1>4. /\ DOMAIN OffensesOf(t) = DOMAIN draft[t].offenses \cup DOMAIN offenses
      /\ \A o \in DOMAIN draft[t].offenses : OffensesOf(t)[o] = draft[t].offenses[o]
      /\ \A o \in DOMAIN offenses \ DOMAIN draft[t].offenses : OffensesOf(t)[o] = offenses[o]
  BY UpdatedIs DEF OffensesOf
<1>5. /\ DOMAIN AlertsOf(t) = DOMAIN draft[t].alerts \cup DOMAIN alerts
      /\ \A a \in DOMAIN draft[t].alerts : AlertsOf(t)[a] = draft[t].alerts[a]
      /\ \A a \in DOMAIN alerts \ DOMAIN draft[t].alerts : AlertsOf(t)[a] = alerts[a]
  BY UpdatedIs DEF AlertsOf
<1>6. QED
  BY <1>1, <1>3, <1>4, <1>5 DEF IsTable

(* The statements that write no table.                                     *)
Statement(t) ==
  \/ StartDetection(t) \/ EvaluateRule(t) \/ EndDetection(t) \/ InsertAlert(t)
  \/ StartEvent(t) \/ LookForOffense(t) \/ CreateOffense(t) \/ JoinOffense(t)
  \/ LoadAlert(t) \/ WriteAlert(t) \/ CheckHosts(t)
  \/ LoadOffense(t) \/ WriteOffense(t) \/ Promote(t)

(* A transaction changes nothing of another one.                           *)
Apart(t) ==
  \A u \in Txns \ {t} :
    /\ draft'[u] = draft[u] /\ pc'[u] = pc[u] /\ todo'[u] = todo[u]
    /\ rule'[u] = rule[u] /\ seen'[u] = seen[u] /\ target'[u] = target[u]

LEMMA DraftChange ==
  ASSUME draft \in [Txns -> Written], NEW t \in Txns, NEW d \in Written,
         draft' = [draft EXCEPT ![t] = d]
  PROVE  draft' \in [Txns -> Written] /\ draft'[t] = d /\ \A u \in Txns \ {t} : draft'[u] = draft[u]
OBVIOUS

LEMMA AlertWritten ==
  ASSUME Typed, NEW t \in Txns, NEW a \in AlertIds, NEW row \in Alert, PutAlert(t, a, row)
  PROVE  /\ draft' \in [Txns -> Written] /\ \A u \in Txns \ {t} : draft'[u] = draft[u]
         /\ draft'[t].alerts = Put(draft[t].alerts, a, row)
         /\ draft'[t].offenses = draft[t].offenses /\ draft'[t].links = draft[t].links
         /\ draft'[t].incidents = draft[t].incidents
<1>1. draft \in [Txns -> Written] /\ draft[t] \in Written
  BY DEF Typed, TxnTypes
<1>2. Put(draft[t].alerts, a, row) \in Tables(AlertIds, Alert)
  BY <1>1, PutTable DEF Written
<1>3. [draft[t] EXCEPT !.alerts = Put(draft[t].alerts, a, row)] \in Written
  BY <1>1, <1>2 DEF Written
<1>4. draft' = [draft EXCEPT ![t] = [draft[t] EXCEPT !.alerts = Put(draft[t].alerts, a, row)]]
  BY <1>1 DEF PutAlert
<1>5. QED
  BY <1>1, <1>3, <1>4, DraftChange DEF Written

LEMMA OffenseWritten ==
  ASSUME Typed, NEW t \in Txns, NEW o \in Txns, NEW row \in Offense, PutOffense(t, o, row)
  PROVE  /\ draft' \in [Txns -> Written] /\ \A u \in Txns \ {t} : draft'[u] = draft[u]
         /\ draft'[t].offenses = Put(draft[t].offenses, o, row)
         /\ draft'[t].alerts = draft[t].alerts /\ draft'[t].links = draft[t].links
         /\ draft'[t].incidents = draft[t].incidents
<1>1. draft \in [Txns -> Written] /\ draft[t] \in Written
  BY DEF Typed, TxnTypes
<1>2. Put(draft[t].offenses, o, row) \in Tables(Txns, Offense)
  BY <1>1, PutTable DEF Written
<1>3. [draft[t] EXCEPT !.offenses = Put(draft[t].offenses, o, row)] \in Written
  BY <1>1, <1>2 DEF Written
<1>4. draft' = [draft EXCEPT ![t] = [draft[t] EXCEPT !.offenses = Put(draft[t].offenses, o, row)]]
  BY <1>1 DEF PutOffense
<1>5. QED
  BY <1>1, <1>3, <1>4, DraftChange DEF Written

LEMMA Ranks == EventRisk \in 1..4 /\ \A r \in Rules : Risk[r] \in 1..4
BY RiskAssumption

LEMMA LinkedIs ==
  ASSUME Typed, NEW t \in Txns, NEW offense \in Offense
  PROVE  /\ Linked(t, offense) \in Offense /\ Linked(t, offense).updated = now
         /\ Linked(t, offense).status = offense.status /\ Linked(t, offense).incident = offense.incident
         /\ Linked(t, offense).alerts = (IF kind[t] = "event" THEN offense.alerts ELSE offense.alerts + 1)
         /\ Linked(t, offense).events = (IF kind[t] = "event" THEN offense.events + 1 ELSE offense.events)
<1>1. NewRisk(t) \in 1..4 /\ now \in Times
  BY Ranks DEF NewRisk, Typed, TxnTypes, TableTypes
<1>2. MaxRisk(offense.risk, NewRisk(t)) \in 1..4
  BY <1>1 DEF MaxRisk, Offense
<1>3. DEFINE n == IF kind[t] = "event" THEN offense.alerts ELSE offense.alerts + 1
             m == IF kind[t] = "event" THEN offense.events + 1 ELSE offense.events
             r == MaxRisk(offense.risk, NewRisk(t))
<1>4. n \in Nat /\ m \in Nat
  BY DEF Offense
<1>5. Linked(t, offense) = [offense EXCEPT !.risk = r, !.alerts = n, !.events = m, !.updated = now]
  BY DEF Linked
<1> HIDE DEF n, m, r
<1>6. /\ Linked(t, offense) \in Offense /\ Linked(t, offense).updated = now
      /\ Linked(t, offense).status = offense.status /\ Linked(t, offense).incident = offense.incident
      /\ Linked(t, offense).alerts = n /\ Linked(t, offense).events = m
  BY <1>1, <1>2, <1>4, <1>5 DEF Offense, r
<1>7. QED
  BY <1>6 DEF n, m

LEMMA NewOffenseIs ==
  ASSUME Typed, NEW t \in Txns
  PROVE  /\ NewOffense(t) \in Offense /\ NewOffense(t).status = "open"
         /\ NewOffense(t).alerts = 0 /\ NewOffense(t).events = 0 /\ NewOffense(t).incident = None
<1>1. NewRisk(t) \in 1..4 /\ now \in Times
  BY Ranks DEF NewRisk, Typed, TxnTypes, TableTypes
<1>2. QED
  BY <1>1 DEF NewOffense, Offense, OffenseStatuses

LEMMA LinkWritten ==
  ASSUME Typed, NEW t \in Txns, NEW o \in Txns, NEW offense \in Offense, Link(t, o, offense)
  PROVE  /\ draft' \in [Txns -> Written] /\ \A u \in Txns \ {t} : draft'[u] = draft[u]
         /\ draft'[t].offenses = Put(draft[t].offenses, o, Linked(t, offense))
         /\ draft'[t].links = draft[t].links \cup {<<o, Newcomer(t)>>}
         /\ draft'[t].alerts = draft[t].alerts /\ draft'[t].incidents = draft[t].incidents
<1>1. draft \in [Txns -> Written] /\ draft[t] \in Written /\ rule[t] \in Rules
  BY DEF Typed, TxnTypes
<1>2. Put(draft[t].offenses, o, Linked(t, offense)) \in Tables(Txns, Offense)
  BY <1>1, PutTable, LinkedIs DEF Written
<1>3. draft[t].links \cup {<<o, Newcomer(t)>>} \in SUBSET Links
  BY <1>1 DEF Written, Links, Newcomer, AlertIds, EventIds
<1>4. DEFINE d == [draft[t] EXCEPT !.offenses = Put(draft[t].offenses, o, Linked(t, offense)),
                                   !.links = draft[t].links \cup {<<o, Newcomer(t)>>}]
<1>5. d \in Written
  BY <1>1, <1>2, <1>3 DEF Written
<1>6. draft' = [draft EXCEPT ![t] = d]
  BY <1>1 DEF Link
<1>7. /\ d.offenses = Put(draft[t].offenses, o, Linked(t, offense))
      /\ d.links = draft[t].links \cup {<<o, Newcomer(t)>>}
      /\ d.alerts = draft[t].alerts /\ d.incidents = draft[t].incidents
  BY <1>1 DEF Written
<1> HIDE DEF d
<1>8. QED
  BY <1>1, <1>5, <1>6, <1>7, DraftChange

(* What each statement that writes does.                                   *)
LEMMA Inserts ==
  ASSUME Typed, NEW t \in Txns, InsertAlert(t)
  PROVE  /\ draft' \in [Txns -> Written] /\ \A u \in Txns \ {t} : draft'[u] = draft[u]
         /\ pc[t] = "insert" /\ KeyHolders(t, rule[t]) = {}
         /\ \/ /\ OpenFor(AlertsOf(t), rule[t]) # {}
               /\ pc'[t] = AfterAlert(t) /\ draft' = draft
            \/ /\ OpenFor(AlertsOf(t), rule[t]) = {} /\ pc'[t] = "look"
               /\ draft'[t].alerts = Put(draft[t].alerts, <<t, rule[t]>>, NewAlert)
               /\ draft'[t].offenses = draft[t].offenses /\ draft'[t].links = draft[t].links
               /\ draft'[t].incidents = draft[t].incidents
<1>1. <<t, rule[t]>> \in AlertIds /\ NewAlert \in Alert /\ pc \in [Txns -> Places] /\ draft \in [Txns -> Written]
  BY DEF Typed, TxnTypes, AlertIds, NewAlert, Alert, AlertStatuses
<1>2. CASE OpenFor(AlertsOf(t), rule[t]) # {}
  BY <1>1, <1>2 DEF InsertAlert, Goto
<1>3. CASE OpenFor(AlertsOf(t), rule[t]) = {}
  <2>1. PutAlert(t, <<t, rule[t]>>, NewAlert)
    BY <1>3 DEF InsertAlert
  <2>2. QED
    BY <1>1, <1>3, <2>1, AlertWritten DEF InsertAlert, Goto
<1>4. QED
  BY <1>2, <1>3

LEMMA Creates ==
  ASSUME Typed, NEW t \in Txns, CreateOffense(t)
  PROVE  /\ draft' \in [Txns -> Written] /\ \A u \in Txns \ {t} : draft'[u] = draft[u]
         /\ pc[t] = "settle" /\ seen[t] = {} /\ pc'[t] = AfterAlert(t)
         /\ draft'[t].offenses = Put(draft[t].offenses, t, Linked(t, NewOffense(t)))
         /\ draft'[t].links = draft[t].links \cup {<<t, Newcomer(t)>>}
         /\ draft'[t].alerts = draft[t].alerts /\ draft'[t].incidents = draft[t].incidents
<1>1. Link(t, t, NewOffense(t)) /\ pc \in [Txns -> Places]
  BY DEF CreateOffense, Typed, TxnTypes
<1>2. QED
  BY <1>1, NewOffenseIs, LinkWritten DEF CreateOffense, Goto

(* Either what was found is locked and still good, or it is left out.      *)
LEMMA Joins ==
  ASSUME Typed, NEW t \in Txns, JoinOffense(t)
  PROVE  /\ draft' \in [Txns -> Written] /\ \A u \in Txns \ {t} : draft'[u] = draft[u]
         /\ pc[t] = "settle" /\ seen'[t] \subseteq seen[t]
         /\ \E s \in seen[t] :
              /\ s[1] \in DOMAIN OffensesOf(t) /\ OffenseHolders(t, s[1]) = {}
              /\ \/ /\ OffensesOf(t)[s[1]].status \in Grouping /\ pc'[t] = AfterAlert(t)
                    /\ draft'[t].offenses = Put(draft[t].offenses, s[1], Linked(t, OffensesOf(t)[s[1]]))
                    /\ draft'[t].links = draft[t].links \cup {<<s[1], Newcomer(t)>>}
                    /\ draft'[t].alerts = draft[t].alerts /\ draft'[t].incidents = draft[t].incidents
                 \/ /\ OffensesOf(t)[s[1]].status \notin Grouping
                    /\ seen'[t] = seen[t] \ {s} /\ pc' = pc /\ draft' = draft
<1>1. /\ pc \in [Txns -> Places] /\ draft \in [Txns -> Written] /\ LoadedOf(t)
      /\ seen \in [Txns -> SUBSET (Txns \X Times)]
  BY DEF Typed, TxnTypes
<1>2. PICK s \in seen[t] :
           /\ OffenseHolders(t, s[1]) = {}
           /\ IF OffensesOf(t)[s[1]].status \in Grouping
              THEN /\ Link(t, s[1], OffensesOf(t)[s[1]])
                   /\ Goto(t, AfterAlert(t)) /\ seen' = [seen EXCEPT ![t] = {}]
              ELSE /\ seen' = [seen EXCEPT ![t] = @ \ {s}] /\ UNCHANGED <<draft, pc>>
  BY DEF JoinOffense
<1>3. pc[t] = "settle"
  BY DEF JoinOffense
<1>4. s[1] \in DOMAIN OffensesOf(t)
  BY <1>1, <1>3 DEF LoadedOf
<1>5. s[1] \in Txns /\ OffensesOf(t)[s[1]] \in Offense
  BY <1>4, SeenRows DEF Typed, TableTypes, IsTable
<1>6. CASE OffensesOf(t)[s[1]].status \in Grouping
  <2>1. Link(t, s[1], OffensesOf(t)[s[1]]) /\ pc'[t] = AfterAlert(t) /\ seen'[t] = {}
    BY <1>1, <1>2, <1>6 DEF Goto
  <2>2. QED
    BY <1>2, <1>3, <1>4, <1>5, <1>6, <2>1, LinkWritten
<1>7. CASE OffensesOf(t)[s[1]].status \notin Grouping
  <2>1. seen'[t] = seen[t] \ {s} /\ draft' = draft /\ pc' = pc
    BY <1>1, <1>2, <1>7
  <2>2. QED
    BY <1>1, <1>2, <1>3, <1>4, <1>7, <2>1
<1>8. QED
  BY <1>6, <1>7

LEMMA Titles ==
  ASSUME Typed, NEW t \in Txns, WriteAlert(t)
  PROVE  /\ draft' \in [Txns -> Written] /\ \A u \in Txns \ {t} : draft'[u] = draft[u]
         /\ pc[t] = "write" /\ kind[t] = "triage" /\ pc'[t] = "hosts"
         /\ target[t].id \in DOMAIN alerts /\ AlertHolders(t, target[t].id) = {}
         /\ Reopens(t) => /\ KeyHolders(t, target[t].id[2]) = {}
                          /\ OpenFor(alerts, target[t].id[2]) \subseteq {target[t].id}
         /\ draft'[t].offenses = draft[t].offenses /\ draft'[t].links = draft[t].links
         /\ draft'[t].incidents = draft[t].incidents
         /\ \/ draft'[t].alerts = draft[t].alerts
            \/ /\ draft'[t].alerts = Put(draft[t].alerts, target[t].id, Retitled(t, alerts[target[t].id]))
               /\ target[t].new # target[t].old \/ Closes(target[t].new)
<1>1. /\ pc \in [Txns -> Places] /\ draft \in [Txns -> Written] /\ LoadedOf(t) /\ now \in Times
      /\ IsTable(alerts, AlertIds, Alert)
  BY DEF Typed, TxnTypes, TableTypes
<1>2. /\ pc[t] = "write" /\ kind[t] = "triage" /\ pc'[t] = "hosts"
      /\ AlertHolders(t, target[t].id) = {}
      /\ Reopens(t) => /\ KeyHolders(t, target[t].id[2]) = {}
                       /\ OpenFor(alerts, target[t].id[2]) \subseteq {target[t].id}
  BY <1>1 DEF WriteAlert, Goto
<1>3. target[t].id \in DOMAIN alerts /\ target[t].new \in AlertStatuses
  BY <1>1, <1>2 DEF LoadedOf
<1>4. target[t].id \in AlertIds /\ alerts[target[t].id] \in Alert
  BY <1>1, <1>3 DEF IsTable
<1>5. Retitled(t, alerts[target[t].id]) \in Alert
  BY <1>1, <1>3, <1>4 DEF Retitled, Alert
<1>6. CASE target[t].new = target[t].old /\ ~Closes(target[t].new)
  BY <1>1, <1>2, <1>3, <1>6 DEF WriteAlert
<1>7. CASE ~(target[t].new = target[t].old /\ ~Closes(target[t].new))
  <2>1. PutAlert(t, target[t].id, Retitled(t, alerts[target[t].id]))
    BY <1>7 DEF WriteAlert
  <2>2. QED
    BY <1>2, <1>3, <1>4, <1>5, <1>7, <2>1, AlertWritten
<1>8. QED
  BY <1>6, <1>7

LEMMA Restates ==
  ASSUME Typed, NEW t \in Txns, WriteOffense(t)
  PROVE  /\ draft' \in [Txns -> Written] /\ \A u \in Txns \ {t} : draft'[u] = draft[u]
         /\ pc[t] = "write" /\ kind[t] = "status" /\ pc'[t] = "flushed"
         /\ target[t].id \in DOMAIN offenses /\ OffenseHolders(t, target[t].id) = {}
         /\ draft'[t].alerts = draft[t].alerts /\ draft'[t].links = draft[t].links
         /\ draft'[t].incidents = draft[t].incidents
         /\ \E row \in Offense :
              /\ draft'[t].offenses = Put(draft[t].offenses, target[t].id, row)
              /\ row.alerts = offenses[target[t].id].alerts /\ row.events = offenses[target[t].id].events
              /\ row.incident = offenses[target[t].id].incident
<1>1. /\ pc \in [Txns -> Places] /\ draft \in [Txns -> Written] /\ LoadedOf(t) /\ now \in Times
      /\ IsTable(offenses, Txns, Offense)
  BY DEF Typed, TxnTypes, TableTypes
<1>2. /\ pc[t] = "write" /\ kind[t] = "status" /\ pc'[t] = "flushed"
      /\ OffenseHolders(t, target[t].id) = {}
  BY <1>1 DEF WriteOffense, Goto
<1>3. target[t].id \in DOMAIN offenses /\ target[t].new \in OffenseStatuses
  BY <1>1, <1>2 DEF LoadedOf
<1>4. target[t].id \in Txns /\ offenses[target[t].id] \in Offense
  BY <1>1, <1>3 DEF IsTable
<1>5. PICK row : /\ PutOffense(t, target[t].id, row)
                 /\ row = [offenses[target[t].id] EXCEPT
                      !.status = IF target[t].new # target[t].old THEN target[t].new ELSE @, !.updated = now]
  BY DEF WriteOffense
<1>6. /\ row \in Offense
      /\ row.alerts = offenses[target[t].id].alerts /\ row.events = offenses[target[t].id].events
      /\ row.incident = offenses[target[t].id].incident
  BY <1>1, <1>3, <1>4, <1>5 DEF Offense
<1>7. QED
  BY <1>2, <1>3, <1>4, <1>5, <1>6, OffenseWritten

LEMMA Promotes ==
  ASSUME Typed, NEW t \in Txns, Promote(t)
  PROVE  /\ draft' \in [Txns -> Written] /\ \A u \in Txns \ {t} : draft'[u] = draft[u]
         /\ pc[t] = "new" /\ kind[t] = "promote" /\ pc'[t] = "flushed"
         /\ draft'[t].alerts = draft[t].alerts /\ draft'[t].links = draft[t].links
         /\ \E o \in DOMAIN offenses :
              /\ OffenseHolders(t, o) = {}
              /\ \/ draft' = draft
                 \/ /\ offenses[o].incident = None
                    /\ draft'[t].incidents = {[by |-> t, of |-> o, alerts |-> LinkedAlerts(o, links)]}
                    /\ \E row \in Offense :
                         /\ draft'[t].offenses = Put(draft[t].offenses, o, row)
                         /\ row.alerts = offenses[o].alerts /\ row.events = offenses[o].events
                         /\ row.incident = t
<1>1. /\ pc \in [Txns -> Places] /\ draft \in [Txns -> Written] /\ draft[t] \in Written
      /\ now \in Times /\ IsTable(offenses, Txns, Offense)
  BY DEF Typed, TxnTypes, TableTypes
<1>2. pc[t] = "new" /\ kind[t] = "promote" /\ pc'[t] = "flushed"
  BY <1>1 DEF Promote, Goto
<1>3. PICK o \in DOMAIN offenses :
           /\ OffenseHolders(t, o) = {}
           /\ IF offenses[o].incident # None
              THEN UNCHANGED draft
              ELSE draft' = [draft EXCEPT
                     ![t].offenses = Put(@, o, [offenses[o] EXCEPT
                        !.incident = t, !.status = "investigating", !.updated = now]),
                     ![t].incidents = {[by |-> t, of |-> o, alerts |-> LinkedAlerts(o, links)]}]
  BY DEF Promote
<1>4. CASE offenses[o].incident # None
  BY <1>1, <1>2, <1>3, <1>4
<1>5. CASE offenses[o].incident = None
  <2>1. o \in Txns /\ offenses[o] \in Offense
    BY <1>1 DEF IsTable
  <2>2. DEFINE row == [offenses[o] EXCEPT !.incident = t, !.status = "investigating", !.updated = now]
               inc == {[by |-> t, of |-> o, alerts |-> LinkedAlerts(o, links)]}
               d == [draft[t] EXCEPT !.offenses = Put(draft[t].offenses, o, row), !.incidents = inc]
  <2>3. /\ row \in Offense /\ row.alerts = offenses[o].alerts /\ row.events = offenses[o].events
        /\ row.incident = t
    BY <1>1, <2>1 DEF Offense, OffenseStatuses
  <2>4. inc \in SUBSET Incident
    BY <2>1 DEF Incident, LinkedAlerts
  <2>5. draft' = [draft EXCEPT ![t] = d]
    BY <1>1, <1>3, <1>5
  <2> HIDE DEF row, inc
  <2>6. Put(draft[t].offenses, o, row) \in Tables(Txns, Offense)
    BY <1>1, <2>1, <2>3, PutTable DEF Written
  <2>7. /\ d \in Written /\ d.offenses = Put(draft[t].offenses, o, row) /\ d.incidents = inc
        /\ d.alerts = draft[t].alerts /\ d.links = draft[t].links
    BY <1>1, <2>4, <2>6 DEF Written
  <2> HIDE DEF d
  <2>8. draft' \in [Txns -> Written] /\ draft'[t] = d /\ \A u \in Txns \ {t} : draft'[u] = draft[u]
    BY <1>1, <2>5, <2>7, DraftChange
  <2>9. QED
    BY <1>2, <1>3, <1>5, <2>3, <2>7, <2>8 DEF inc
<1>6. QED
  BY <1>4, <1>5

LEMMA StatementApart ==
  ASSUME Typed, NEW t \in Txns, Statement(t)
  PROVE  UNCHANGED <<tables, announced, swallowed, now, kind>> /\ Apart(t) /\ TxnTypes'
<1>1. /\ draft \in [Txns -> Written] /\ pc \in [Txns -> Places]
      /\ todo \in [Txns -> SUBSET Rules] /\ rule \in [Txns -> Rules]
      /\ seen \in [Txns -> SUBSET (Txns \X Times)]
      /\ target \in [Txns -> [id : AlertIds \cup Txns \cup {None}, old : Statuses, new : Statuses]]
  BY DEF Typed, TxnTypes
<1>2. CASE StartDetection(t)
  BY <1>1, <1>2 DEF StartDetection, Goto, Apart, TxnTypes, Places, AfterAlert
<1>3. CASE EvaluateRule(t)
  BY <1>1, <1>3 DEF EvaluateRule, Goto, Apart, TxnTypes, Places, AfterAlert
<1>4. CASE EndDetection(t)
  BY <1>1, <1>4 DEF EndDetection, Goto, Apart, TxnTypes, Places, AfterAlert
<1>5. CASE InsertAlert(t)
  BY <1>1, <1>5, Inserts DEF InsertAlert, Goto, Apart, TxnTypes, Places, AfterAlert
<1>6. CASE StartEvent(t)
  BY <1>1, <1>6 DEF StartEvent, Goto, Apart, TxnTypes, Places, AfterAlert
<1>7. CASE LookForOffense(t)
  <2>1. ASSUME NEW o \in DOMAIN OffensesOf(t)
        PROVE  <<o, OffensesOf(t)[o].updated>> \in Txns \X Times
    <3>1. OffensesOf(t)[o] \in Offense /\ o \in Txns
      BY SeenRows DEF Typed, TableTypes, IsTable
    <3>2. QED
      BY <3>1 DEF Offense
  <2>2. seen' \in [Txns -> SUBSET (Txns \X Times)] /\ \A u \in Txns \ {t} : seen'[u] = seen[u]
    BY <1>1, <1>7, <2>1 DEF LookForOffense
  <2>3. QED
    BY <1>1, <1>7, <2>2 DEF LookForOffense, Goto, Apart, TxnTypes, Places
<1>8. CASE CreateOffense(t)
  BY <1>1, <1>8, Creates DEF CreateOffense, Goto, Apart, TxnTypes, Places, AfterAlert
<1>9. CASE JoinOffense(t)
  <2>1. draft' \in [Txns -> Written] /\ \A u \in Txns \ {t} : draft'[u] = draft[u]
    BY <1>9, Joins
  <2>2. PICK s \in seen[t] :
             \/ Goto(t, AfterAlert(t)) /\ seen' = [seen EXCEPT ![t] = {}]
             \/ seen' = [seen EXCEPT ![t] = @ \ {s}] /\ UNCHANGED pc
    BY <1>9 DEF JoinOffense
  <2>3. /\ pc' \in [Txns -> Places] /\ \A u \in Txns \ {t} : pc'[u] = pc[u]
        /\ seen' \in [Txns -> SUBSET (Txns \X Times)] /\ \A u \in Txns \ {t} : seen'[u] = seen[u]
    BY <1>1, <2>2 DEF Goto, Places, AfterAlert
  <2>4. UNCHANGED <<tables, announced, swallowed, now, kind, todo, rule, target>>
    BY <1>9 DEF JoinOffense
  <2>5. QED
    BY <1>1, <2>1, <2>3, <2>4 DEF Apart, TxnTypes
<1>10. CASE LoadAlert(t)
  <2>1. PICK a \in DOMAIN alerts, s \in AlertStatuses :
             target' = [target EXCEPT ![t] = [id |-> a, old |-> alerts[a].status, new |-> s]]
    BY <1>10 DEF LoadAlert
  <2>2. a \in AlertIds /\ alerts[a].status \in Statuses /\ s \in Statuses
    BY <2>1 DEF Typed, TableTypes, IsTable, Alert, Statuses
  <2>3. target' \in [Txns -> [id : AlertIds \cup Txns \cup {None}, old : Statuses, new : Statuses]]
    BY <1>1, <2>1, <2>2
  <2>4. QED
    BY <1>1, <1>10, <2>1, <2>3 DEF LoadAlert, Goto, Apart, TxnTypes, Places
<1>11. CASE WriteAlert(t)
  BY <1>1, <1>11, Titles DEF WriteAlert, Goto, Apart, TxnTypes, Places, AfterAlert
<1>12. CASE CheckHosts(t)
  BY <1>1, <1>12, RulesAssumption DEF CheckHosts, Goto, Apart, TxnTypes, Places
<1>13. CASE LoadOffense(t)
  <2>1. PICK o \in DOMAIN offenses, s \in OffenseStatuses :
             target' = [target EXCEPT ![t] = [id |-> o, old |-> offenses[o].status, new |-> s]]
    BY <1>13 DEF LoadOffense
  <2>2. o \in Txns /\ offenses[o].status \in Statuses /\ s \in Statuses
    BY <2>1 DEF Typed, TableTypes, IsTable, Offense, Statuses
  <2>3. target' \in [Txns -> [id : AlertIds \cup Txns \cup {None}, old : Statuses, new : Statuses]]
    BY <1>1, <2>1, <2>2
  <2>4. QED
    BY <1>1, <1>13, <2>1, <2>3 DEF LoadOffense, Goto, Apart, TxnTypes, Places
<1>14. CASE WriteOffense(t)
  <2>1. UNCHANGED <<tables, announced, swallowed, now, kind, todo, rule, seen, target>> /\ Goto(t, "flushed")
    BY <1>14 DEF WriteOffense
  <2>2. QED
    BY <1>1, <1>14, <2>1, Restates DEF Goto, Apart, TxnTypes, Places
<1>15. CASE Promote(t)
  <2>1. UNCHANGED <<tables, announced, swallowed, now, kind, todo, rule, seen, target>> /\ Goto(t, "flushed")
    BY <1>15 DEF Promote
  <2>2. QED
    BY <1>1, <1>15, <2>1, Promotes DEF Goto, Apart, TxnTypes, Places
<1>16. QED
  BY <1>2, <1>3, <1>4, <1>5, <1>6, <1>7, <1>8, <1>9, <1>10, <1>11, <1>12, <1>13, <1>14, <1>15 DEF Statement

LEMMA StatementLoaded ==
  ASSUME Typed, NEW t \in Txns, Statement(t)
  PROVE  LoadedOf(t)'
<1>1. /\ tables' = tables /\ kind' = kind /\ TxnTypes /\ LoadedOf(t)
  BY StatementApart DEF Typed
<1>2. CASE StartDetection(t)
  BY <1>1, <1>2 DEF StartDetection, Goto, TxnTypes, LoadedOf, AfterAlert, Detects, tables
<1>3. CASE EvaluateRule(t)
  BY <1>1, <1>3 DEF EvaluateRule, Goto, TxnTypes, LoadedOf, AfterAlert, Detects, tables
<1>4. CASE EndDetection(t)
  BY <1>1, <1>4 DEF EndDetection, Goto, TxnTypes, LoadedOf, AfterAlert, Detects, tables
<1>5. CASE InsertAlert(t)
  BY <1>1, <1>5, Inserts DEF InsertAlert, Goto, TxnTypes, LoadedOf, AfterAlert, Detects, tables
<1>6. CASE StartEvent(t)
  BY <1>1, <1>6 DEF StartEvent, Goto, TxnTypes, LoadedOf, AfterAlert, Detects, tables
<1>7. CASE LookForOffense(t)
  <2>1. /\ pc'[t] = "settle" /\ draft' = draft
        /\ \A s \in seen'[t] : s[1] \in DOMAIN OffensesOf(t)
    BY <1>1, <1>7 DEF LookForOffense, Goto, TxnTypes
  <2>2. OffensesOf(t)' = OffensesOf(t)
    BY <1>1, <2>1 DEF OffensesOf, tables
  <2>3. QED
    BY <2>1, <2>2 DEF LoadedOf
<1>8. CASE CreateOffense(t)
  BY <1>1, <1>8, Creates DEF CreateOffense, Goto, TxnTypes, LoadedOf, AfterAlert, Detects, tables
<1>9. CASE JoinOffense(t)
  <2>1. pc'[t] = AfterAlert(t) \/ (seen'[t] \subseteq seen[t] /\ draft' = draft /\ pc' = pc)
    BY <1>9, Joins
  <2>2. CASE pc'[t] = AfterAlert(t)
    BY <2>2 DEF LoadedOf, AfterAlert
  <2>3. CASE seen'[t] \subseteq seen[t] /\ draft' = draft /\ pc' = pc
    <3>1. OffensesOf(t)' = OffensesOf(t) /\ pc[t] = "settle"
      BY <1>1, <1>9, <2>3, Joins DEF OffensesOf, tables
    <3>2. QED
      BY <1>1, <2>3, <3>1 DEF LoadedOf
  <2>4. QED
    BY <2>1, <2>2, <2>3
<1>10. CASE LoadAlert(t)
  BY <1>1, <1>10 DEF LoadAlert, Goto, TxnTypes, LoadedOf, AfterAlert, Detects, tables
<1>11. CASE WriteAlert(t)
  BY <1>1, <1>11, Titles DEF WriteAlert, Goto, TxnTypes, LoadedOf, AfterAlert, Detects, tables
<1>12. CASE CheckHosts(t)
  BY <1>1, <1>12 DEF CheckHosts, Goto, TxnTypes, LoadedOf, AfterAlert, Detects, tables
<1>13. CASE LoadOffense(t)
  BY <1>1, <1>13 DEF LoadOffense, Goto, TxnTypes, LoadedOf, AfterAlert, Detects, tables
<1>14. CASE WriteOffense(t)
  BY <1>1, <1>14, Restates DEF WriteOffense, Goto, TxnTypes, LoadedOf, AfterAlert, Detects, tables
<1>15. CASE Promote(t)
  BY <1>1, <1>15, Promotes DEF Promote, Goto, TxnTypes, LoadedOf, AfterAlert, Detects, tables
<1>16. QED
  BY <1>2, <1>3, <1>4, <1>5, <1>6, <1>7, <1>8, <1>9, <1>10, <1>11, <1>12, <1>13, <1>14, <1>15 DEF Statement

(* A transaction is undone: its request fails, or swallows the error.      *)
Undone(t) == Rollback(t) \/ SwallowError(t)

LEMMA UndoneApart ==
  ASSUME Typed, NEW t \in Txns, Undone(t)
  PROVE  /\ UNCHANGED <<tables, announced, now, kind>> /\ Apart(t) /\ TxnTypes' /\ LoadedOf(t)'
         /\ pc'[t] \in {"hooks", "done"}
         /\ draft'[t] = NoDraft /\ todo'[t] = {} /\ seen'[t] = {}
         /\ swallowed \subseteq swallowed' /\ swallowed' \subseteq swallowed \cup AlertIds
<1>1. Undo(t) /\ (Goto(t, "done") \/ Goto(t, "hooks"))
  BY DEF Undone, Rollback, SwallowError
<1>2. swallowed' = swallowed \/ swallowed' = swallowed \cup AlertsIn(draft[t].links)
  BY DEF Undone, Rollback, SwallowError
<1>3. swallowed \subseteq swallowed' /\ swallowed' \subseteq swallowed \cup AlertIds
  BY <1>2 DEF AlertsIn
<1>4. QED
  BY <1>1, <1>3, NoDraftIs DEF Undo, Typed, TxnTypes, Apart, Goto, Places, LoadedOf

(* The post-commit hooks run, or are lost.                                 *)
EndHooks(t) == RunHooks(t) \/ LoseHooks(t)

LEMMA HooksApart ==
  ASSUME Typed, NEW t \in Txns, EndHooks(t)
  PROVE  /\ UNCHANGED <<tables, now, kind, draft, todo, rule, seen, target>> /\ Apart(t)
         /\ TxnTypes' /\ LoadedOf(t)' /\ pc[t] = "hooks" /\ pc'[t] = "done"
         /\ swallowed' = swallowed
         /\ announced' \subseteq announced \cup DOMAIN alerts \cup swallowed
BY DEF EndHooks, RunHooks, LoseHooks, Typed, TxnTypes, Apart, Goto, Places, LoadedOf

LEMMA CommitApart ==
  ASSUME Typed, NEW t \in Txns, Commit(t)
  PROVE  /\ UNCHANGED <<announced, swallowed, now, kind>> /\ Apart(t) /\ TxnTypes' /\ LoadedOf(t)'
         /\ pc[t] = "flushed" /\ pc'[t] \in {"hooks", "done"} /\ draft'[t] = NoDraft /\ todo' = todo
BY NoDraftIs DEF Commit, Typed, TxnTypes, Apart, Goto, Places, LoadedOf

LEMMA CommitTables ==
  ASSUME Typed, NEW t \in Txns, Commit(t)
  PROVE  /\ DOMAIN alerts' = DOMAIN draft[t].alerts \cup DOMAIN alerts
         /\ \A a \in DOMAIN draft[t].alerts : alerts'[a] = draft[t].alerts[a]
         /\ \A a \in DOMAIN alerts \ DOMAIN draft[t].alerts : alerts'[a] = alerts[a]
         /\ DOMAIN offenses' = DOMAIN draft[t].offenses \cup DOMAIN offenses
         /\ \A o \in DOMAIN draft[t].offenses : offenses'[o] = draft[t].offenses[o]
         /\ \A o \in DOMAIN offenses \ DOMAIN draft[t].offenses : offenses'[o] = offenses[o]
         /\ links' = links \cup draft[t].links /\ incidents' = incidents \cup draft[t].incidents
         /\ TableTypes'
<1>1. alerts' = AlertsOf(t) /\ offenses' = OffensesOf(t)
  BY DEF Commit
<1>2. links' = links \cup draft[t].links /\ incidents' = incidents \cup draft[t].incidents
  BY DEF Commit
<1>3. draft[t].links \subseteq Links /\ draft[t].incidents \subseteq Incident
  BY DEF Typed, TxnTypes, Written
<1>4. IsTable(alerts', AlertIds, Alert) /\ IsTable(offenses', Txns, Offense)
  BY <1>1, SeenRows DEF IsTable, Typed, TableTypes
<1>5. TableTypes'
  BY <1>2, <1>3, <1>4, CommitApart DEF TableTypes, Typed
<1>6. QED
  BY <1>1, <1>2, <1>5, SeenRows

LEMMA Steps ==
  ASSUME [Next]_vars
  PROVE  \/ UNCHANGED vars \/ Tick
         \/ \E t \in Txns : Statement(t) \/ Undone(t) \/ EndHooks(t) \/ Commit(t)
<1>1. ASSUME NEW t \in Txns, AbortDeadlock(t) \/ Fail(t) \/ SwallowError(t) \/ RejectReopening(t)
      PROVE  Undone(t)
  BY <1>1 DEF AbortDeadlock, Fail, RejectReopening, Undone
<1>2. QED
  BY <1>1 DEF Next, Work, Statement, EndHooks

(* What another transaction has loaded is still there.                     *)
LEMMA OthersLoaded ==
  ASSUME Typed, NEW t \in Txns, Apart(t), kind' = kind,
         DOMAIN alerts \subseteq DOMAIN alerts', DOMAIN offenses \subseteq DOMAIN offenses',
         NEW u \in Txns \ {t}
  PROVE  LoadedOf(u)'
<1>1. /\ pc'[u] = pc[u] /\ target'[u] = target[u] /\ seen'[u] = seen[u] /\ draft'[u] = draft[u]
      /\ LoadedOf(u)
  BY DEF Apart, Typed
<1>2. DOMAIN OffensesOf(u) \subseteq DOMAIN OffensesOf(u)'
  BY <1>1, UpdatedIs DEF OffensesOf, Updated
<1>3. QED
  BY <1>1, <1>2 DEF LoadedOf

LEMMA TypedStep ==
  ASSUME Typed, [Next]_vars
  PROVE  Typed'
<1>1. CASE UNCHANGED vars
  BY <1>1 DEF vars, Typed, TableTypes, TxnTypes, LoadedOf, OffensesOf
<1>2. CASE Tick
  <2>1. now' \in Times
    BY <1>2, TimeAssumption DEF Tick, Typed, TableTypes, Times
  <2>2. QED
    BY <1>2, <2>1 DEF Tick, tables, Typed, TableTypes, TxnTypes, LoadedOf, OffensesOf
<1>3. ASSUME NEW t \in Txns, Statement(t)
      PROVE  Typed'
  BY <1>3, StatementApart, StatementLoaded, OthersLoaded DEF Typed, TableTypes, tables
<1>4. ASSUME NEW t \in Txns, Undone(t)
      PROVE  Typed'
  BY <1>4, UndoneApart, OthersLoaded DEF Typed, TableTypes, tables
<1>5. ASSUME NEW t \in Txns, EndHooks(t)
      PROVE  Typed'
  BY <1>5, HooksApart, OthersLoaded DEF Typed, TableTypes, tables, IsTable
<1>6. ASSUME NEW t \in Txns, Commit(t)
      PROVE  Typed'
  BY <1>6, CommitApart, CommitTables, OthersLoaded DEF Typed
<1>7. QED
  BY <1>1, <1>2, <1>3, <1>4, <1>5, <1>6, Steps

-----------------------------------------------------------------------------
(* Where a transaction is, and what it has written by then.                *)

Ended == {"hooks", "done"}

Linking(t) == kind[t] \notin {"status", "promote"}

RouteOf(t) ==
  /\ pc[t] \in Ended \cup {"new", "write"} => draft[t] = NoDraft
  /\ pc[t] = "rules" => Detects(t)
  /\ pc[t] = "insert" => Detects(t) \/ kind[t] = "triage"
  /\ pc[t] \in {"look", "settle"} => Linking(t)
  /\ pc[t] = "hosts" =>
       /\ kind[t] = "triage" /\ draft[t].links = {} /\ DOMAIN draft[t].offenses = {}
       /\ DOMAIN draft[t].alerts \subseteq DOMAIN alerts

LEMMA NoDraftHas ==
  /\ DOMAIN NoDraft.alerts = {} /\ DOMAIN NoDraft.offenses = {}
  /\ NoDraft.links = {} /\ NoDraft.incidents = {}
BY NoRowsIs DEF NoDraft

LEMMA StatementRoute ==
  ASSUME Typed, NEW t \in Txns, Statement(t), RouteOf(t)
  PROVE  RouteOf(t)'
<1>1. /\ TxnTypes /\ alerts' = alerts /\ kind' = kind /\ kind[t] \in Kinds /\ LoadedOf(t)
  BY StatementApart, LoadsAssumption DEF Typed, TableTypes, tables
<1>2. CASE StartDetection(t)
  BY <1>1, <1>2, NoDraftHas DEF StartDetection, Goto, TxnTypes, RouteOf, LoadedOf, Ended, Linking, Kinds, AfterAlert, Detects
<1>3. CASE EvaluateRule(t)
  BY <1>1, <1>3, NoDraftHas DEF EvaluateRule, Goto, TxnTypes, RouteOf, LoadedOf, Ended, Linking, Kinds, AfterAlert, Detects
<1>4. CASE EndDetection(t)
  BY <1>1, <1>4, NoDraftHas DEF EndDetection, Goto, TxnTypes, RouteOf, LoadedOf, Ended, Linking, Kinds, AfterAlert, Detects
<1>5. CASE InsertAlert(t)
  BY <1>1, <1>5, Inserts, NoDraftHas DEF InsertAlert, Goto, TxnTypes, RouteOf, LoadedOf, Ended, Linking, Kinds, AfterAlert, Detects
<1>6. CASE StartEvent(t)
  BY <1>1, <1>6, NoDraftHas DEF StartEvent, Goto, TxnTypes, RouteOf, LoadedOf, Ended, Linking, Kinds, AfterAlert, Detects
<1>7. CASE LookForOffense(t)
  BY <1>1, <1>7, NoDraftHas DEF LookForOffense, Goto, TxnTypes, RouteOf, LoadedOf, Ended, Linking, Kinds, AfterAlert, Detects
<1>8. CASE CreateOffense(t)
  BY <1>1, <1>8, Creates, NoDraftHas DEF CreateOffense, Goto, TxnTypes, RouteOf, LoadedOf, Ended, Linking, Kinds, AfterAlert, Detects
<1>9. CASE JoinOffense(t)
  BY <1>1, <1>9, Joins, NoDraftHas DEF JoinOffense, Goto, TxnTypes, RouteOf, LoadedOf, Ended, Linking, Kinds, AfterAlert, Detects
<1>10. CASE LoadAlert(t)
  BY <1>1, <1>10, NoDraftHas DEF LoadAlert, Goto, TxnTypes, RouteOf, LoadedOf, Ended, Linking, Kinds, AfterAlert, Detects
<1>11. CASE WriteAlert(t)
  <2>1. /\ draft[t] = NoDraft /\ kind[t] = "triage" /\ pc'[t] = "hosts" /\ target[t].id \in DOMAIN alerts
    BY <1>1, <1>11, Titles DEF RouteOf
  <2>2. DOMAIN draft'[t].alerts \subseteq {target[t].id}
    BY <1>11, <2>1, Titles, NoDraftHas DEF Put
  <2>3. draft'[t].links = {} /\ DOMAIN draft'[t].offenses = {}
    BY <1>11, <2>1, Titles, NoDraftHas
  <2>4. QED
    BY <1>1, <2>1, <2>2, <2>3 DEF RouteOf, Ended
<1>12. CASE CheckHosts(t)
  BY <1>1, <1>12, NoDraftHas DEF CheckHosts, Goto, TxnTypes, RouteOf, LoadedOf, Ended, Linking, Kinds, AfterAlert, Detects
<1>13. CASE LoadOffense(t)
  BY <1>1, <1>13, NoDraftHas DEF LoadOffense, Goto, TxnTypes, RouteOf, LoadedOf, Ended, Linking, Kinds, AfterAlert, Detects
<1>14. CASE WriteOffense(t)
  BY <1>1, <1>14, Restates, NoDraftHas DEF WriteOffense, Goto, TxnTypes, RouteOf, LoadedOf, Ended, Linking, Kinds, AfterAlert, Detects
<1>15. CASE Promote(t)
  BY <1>1, <1>15, Promotes, NoDraftHas DEF Promote, Goto, TxnTypes, RouteOf, LoadedOf, Ended, Linking, Kinds, AfterAlert, Detects
<1>16. QED
  BY <1>2, <1>3, <1>4, <1>5, <1>6, <1>7, <1>8, <1>9, <1>10, <1>11, <1>12, <1>13, <1>14, <1>15 DEF Statement


-----------------------------------------------------------------------------
(* Locks, and the keys of open alerts.                                     *)

(* What is committed was made by transactions that have ended.             *)
OldRows ==
  /\ \A a \in DOMAIN alerts : pc[a[1]] \in Ended
  /\ \A o \in DOMAIN offenses : pc[o] \in Ended
  /\ announced \ swallowed \subseteq DOMAIN alerts

(* A row is changed by one transaction, and so is the key of a rule.       *)
Exclusive ==
  \A t, u \in Txns : t # u =>
    /\ DOMAIN draft[t].alerts \cap DOMAIN draft[u].alerts = {}
    /\ DOMAIN draft[t].offenses \cap DOMAIN draft[u].offenses = {}
    /\ \A r \in Rules : OpenFor(draft[t].alerts, r) = {} \/ OpenFor(draft[u].alerts, r) = {}

RowsOf(t) ==
  /\ \A a \in DOMAIN draft[t].alerts : a \in DOMAIN alerts \/ a[1] = t
  /\ \A o \in DOMAIN draft[t].offenses : o \in DOMAIN offenses \/ o = t

(* A transaction that takes a key has the row the key was on.              *)
KeysOf(t) ==
  /\ \A r \in Rules : \A a, b \in OpenFor(draft[t].alerts, r) : a = b
  /\ \A r \in Rules : OpenFor(draft[t].alerts, r) # {} =>
       OpenFor(alerts, r) \subseteq DOMAIN draft[t].alerts

OneKey == \A r \in Rules : \A a, b \in OpenFor(alerts, r) : a = b

Keyed ==
  /\ Typed /\ OldRows /\ Exclusive /\ OneKey
  /\ \A t \in Txns : RouteOf(t) /\ RowsOf(t) /\ KeysOf(t)

LEMMA InsertKeys ==
  ASSUME Keyed, NEW t \in Txns, InsertAlert(t)
  PROVE  /\ \A a \in DOMAIN draft'[t].alerts \ DOMAIN draft[t].alerts :
              a = <<t, rule[t]>> /\ \A u \in Txns \ {t} : a \notin DOMAIN draft[u].alerts
         /\ \A r \in Rules :
              \/ OpenFor(draft'[t].alerts, r) = OpenFor(draft[t].alerts, r)
              \/ /\ OpenFor(draft'[t].alerts, r) = {<<t, rule[t]>>}
                 /\ OpenFor(alerts, r) \subseteq DOMAIN draft'[t].alerts
                 /\ \A u \in Txns \ {t} : OpenFor(draft[u].alerts, r) = {}
         /\ DOMAIN draft[t].alerts \subseteq DOMAIN draft'[t].alerts
<1>1. DEFINE n == <<t, rule[t]>>
<1>2. Typed /\ rule[t] \in Rules
  BY DEF Keyed, Typed, TxnTypes
<1>3. CASE draft' = draft
  BY <1>3
<1>4. CASE /\ OpenFor(AlertsOf(t), rule[t]) = {}
           /\ draft'[t].alerts = Put(draft[t].alerts, n, NewAlert)
  <2>1. pc[t] = "insert" /\ KeyHolders(t, rule[t]) = {}
    BY <1>2, Inserts
  <2>2. \A u \in Txns \ {t} : n \notin DOMAIN draft[u].alerts
    BY <2>1 DEF Keyed, RowsOf, OldRows, Ended
  <2>3. /\ DOMAIN draft'[t].alerts = DOMAIN draft[t].alerts \cup {n}
        /\ draft'[t].alerts[n] = NewAlert
        /\ \A a \in DOMAIN draft[t].alerts \ {n} : draft'[t].alerts[a] = draft[t].alerts[a]
    BY <1>4 DEF Put
  <2>4. n[2] = rule[t] /\ NewAlert.status = "open"
    BY DEF NewAlert
  <2>5. OpenFor(draft[t].alerts, rule[t]) = {} /\ OpenFor(alerts, rule[t]) \subseteq DOMAIN draft[t].alerts
    <3>1. \A a \in DOMAIN AlertsOf(t) : ~(a[2] = rule[t] /\ AlertsOf(t)[a].status = "open")
      BY <1>4 DEF OpenFor
    <3>2. /\ DOMAIN AlertsOf(t) = DOMAIN draft[t].alerts \cup DOMAIN alerts
          /\ \A a \in DOMAIN AlertsOf(t) :
               AlertsOf(t)[a] = IF a \in DOMAIN draft[t].alerts THEN draft[t].alerts[a] ELSE alerts[a]
      BY <1>2, SeenRows
    <3>3. OpenFor(draft[t].alerts, rule[t]) = {}
      BY <3>1, <3>2 DEF OpenFor
    <3>4. OpenFor(alerts, rule[t]) \subseteq DOMAIN draft[t].alerts
      BY <3>1, <3>2 DEF OpenFor
    <3>5. QED
      BY <3>3, <3>4
  <2> HIDE DEF n
  <2>6. OpenFor(draft'[t].alerts, rule[t]) = {n}
    BY <2>3, <2>4, <2>5 DEF OpenFor
  <2>7. \A r \in Rules \ {rule[t]} : OpenFor(draft'[t].alerts, r) = OpenFor(draft[t].alerts, r)
    BY <2>3, <2>4 DEF OpenFor
  <2>8. \A u \in Txns \ {t} : OpenFor(draft[u].alerts, rule[t]) = {}
    BY <2>1 DEF KeyHolders
  <2>9. QED
    BY <2>2, <2>3, <2>5, <2>6, <2>7, <2>8 DEF n
<1>5. QED
  BY <1>2, <1>3, <1>4, Inserts

LEMMA TitleKeys ==
  ASSUME Keyed, NEW t \in Txns, WriteAlert(t)
  PROVE  /\ \A a \in DOMAIN draft'[t].alerts :
              a = target[t].id /\ a \in DOMAIN alerts /\ \A u \in Txns \ {t} : a \notin DOMAIN draft[u].alerts
         /\ \A r \in Rules :
              \/ OpenFor(draft'[t].alerts, r) = {}
              \/ /\ OpenFor(draft'[t].alerts, r) = {target[t].id}
                 /\ OpenFor(alerts, r) \subseteq DOMAIN draft'[t].alerts
                 /\ \A u \in Txns \ {t} : OpenFor(draft[u].alerts, r) = {}
<1>1. DEFINE a == target[t].id
<1>2. Typed /\ RouteOf(t) /\ pc[t] = "write"
  BY Titles DEF Keyed
<1>3. draft[t] = NoDraft /\ DOMAIN draft[t].alerts = {}
  BY <1>2, NoDraftHas DEF RouteOf
<1>4. CASE draft'[t].alerts = draft[t].alerts
  BY <1>3, <1>4 DEF OpenFor
<1>5. CASE /\ draft'[t].alerts = Put(draft[t].alerts, a, Retitled(t, alerts[a]))
           /\ target[t].new # target[t].old \/ Closes(target[t].new)
  <2>1. /\ a \in DOMAIN alerts /\ AlertHolders(t, a) = {}
        /\ Reopens(t) => KeyHolders(t, a[2]) = {} /\ OpenFor(alerts, a[2]) \subseteq {a}
    BY <1>2, Titles
  <2>2. /\ DOMAIN draft'[t].alerts = {a} /\ draft'[t].alerts[a] = Retitled(t, alerts[a])
    BY <1>3, <1>5 DEF Put
  <2>3. \A u \in Txns \ {t} : a \notin DOMAIN draft[u].alerts
    BY <2>1 DEF AlertHolders
  <2>4. a \in AlertIds /\ a[2] \in Rules
    BY <1>2, <2>1 DEF Typed, TableTypes, IsTable, AlertIds
  <2>5. Retitled(t, alerts[a]).status = "open" => Reopens(t) \/ a \in OpenFor(alerts, a[2])
    BY <1>5, <2>1 DEF Retitled, Reopens, Closes, OpenFor
  <2> HIDE DEF a
  <2>6. \A r \in Rules : r # a[2] \/ Retitled(t, alerts[a]).status # "open" => OpenFor(draft'[t].alerts, r) = {}
    BY <2>2 DEF OpenFor
  <2>7. ASSUME Retitled(t, alerts[a]).status = "open"
        PROVE  /\ OpenFor(draft'[t].alerts, a[2]) = {a} /\ OpenFor(alerts, a[2]) \subseteq {a}
               /\ \A u \in Txns \ {t} : OpenFor(draft[u].alerts, a[2]) = {}
    <3>1. OpenFor(draft'[t].alerts, a[2]) = {a}
      BY <2>2, <2>7 DEF OpenFor
    <3>2. CASE Reopens(t)
      BY <2>1, <3>1, <3>2 DEF KeyHolders
    <3>3. CASE a \in OpenFor(alerts, a[2])
      BY <2>3, <2>4, <3>1, <3>3 DEF Keyed, OneKey, KeysOf
    <3>4. QED
      BY <2>5, <2>7, <3>2, <3>3
  <2>8. QED
    BY <2>1, <2>2, <2>3, <2>6, <2>7 DEF a
<1>6. QED
  BY <1>2, <1>4, <1>5, Titles

(* A statement adds rows that nobody else has changed.                     *)
LEMMA StatementOffenses ==
  ASSUME Keyed, NEW t \in Txns, Statement(t)
  PROVE  \A o \in DOMAIN draft'[t].offenses \ DOMAIN draft[t].offenses :
           /\ o \in DOMAIN offenses \/ o = t
           /\ \A u \in Txns \ {t} : o \notin DOMAIN draft[u].offenses
<1>1. Typed
  BY DEF Keyed
<1>2. CASE StartDetection(t)
  BY <1>1, <1>2 DEF StartDetection
<1>3. CASE EvaluateRule(t)
  BY <1>1, <1>3 DEF EvaluateRule
<1>4. CASE EndDetection(t)
  BY <1>1, <1>4 DEF EndDetection
<1>5. CASE InsertAlert(t)
  BY <1>1, <1>5, Inserts DEF InsertAlert
<1>6. CASE StartEvent(t)
  BY <1>1, <1>6 DEF StartEvent
<1>7. CASE LookForOffense(t)
  BY <1>1, <1>7 DEF LookForOffense
<1>8. CASE CreateOffense(t)
  <2>1. pc[t] = "settle" /\ DOMAIN draft'[t].offenses = DOMAIN draft[t].offenses \cup {t}
    BY <1>1, <1>8, Creates DEF Put
  <2>2. QED
    BY <2>1 DEF Keyed, OldRows, RowsOf, Ended
<1>9. CASE JoinOffense(t)
  <2>1. PICK s \in seen[t] :
             /\ s[1] \in DOMAIN OffensesOf(t) /\ OffenseHolders(t, s[1]) = {}
             /\ \/ draft'[t].offenses = Put(draft[t].offenses, s[1], Linked(t, OffensesOf(t)[s[1]]))
                \/ draft' = draft
    BY <1>1, <1>9, Joins
  <2>2. DOMAIN draft'[t].offenses \subseteq DOMAIN draft[t].offenses \cup {s[1]}
    BY <2>1 DEF Put
  <2>3. s[1] \in DOMAIN draft[t].offenses \cup DOMAIN offenses
    BY <1>1, <2>1, SeenRows
  <2>4. QED
    BY <2>1, <2>2, <2>3 DEF OffenseHolders
<1>10. CASE LoadAlert(t)
  BY <1>1, <1>10 DEF LoadAlert
<1>11. CASE WriteAlert(t)
  BY <1>1, <1>11, Titles DEF WriteAlert
<1>12. CASE CheckHosts(t)
  BY <1>1, <1>12 DEF CheckHosts
<1>13. CASE LoadOffense(t)
  BY <1>1, <1>13 DEF LoadOffense
<1>14. CASE WriteOffense(t)
  <2>1. /\ DOMAIN draft'[t].offenses = DOMAIN draft[t].offenses \cup {target[t].id}
        /\ target[t].id \in DOMAIN offenses /\ OffenseHolders(t, target[t].id) = {}
    BY <1>1, <1>14, Restates DEF Put
  <2>2. QED
    BY <2>1 DEF OffenseHolders
<1>15. CASE Promote(t)
  <2>1. PICK o \in DOMAIN offenses :
             /\ OffenseHolders(t, o) = {}
             /\ \/ draft' = draft
                \/ \E row \in Offense : draft'[t].offenses = Put(draft[t].offenses, o, row)
    BY <1>1, <1>15, Promotes
  <2>2. CASE draft' = draft
    BY <2>2
  <2>3. ASSUME NEW row \in Offense, draft'[t].offenses = Put(draft[t].offenses, o, row)
        PROVE  DOMAIN draft'[t].offenses = DOMAIN draft[t].offenses \cup {o}
    BY <2>3 DEF Put
  <2>4. QED
    BY <2>1, <2>2, <2>3 DEF OffenseHolders
<1>16. QED
  BY <1>2, <1>3, <1>4, <1>5, <1>6, <1>7, <1>8, <1>9, <1>10, <1>11, <1>12, <1>13, <1>14, <1>15 DEF Statement

LEMMA StatementAlerts ==
  ASSUME Keyed, NEW t \in Txns, Statement(t)
  PROVE  /\ \A a \in DOMAIN draft'[t].alerts \ DOMAIN draft[t].alerts :
              /\ a \in DOMAIN alerts \/ a[1] = t
              /\ \A u \in Txns \ {t} : a \notin DOMAIN draft[u].alerts
         /\ \A r \in Rules :
              \/ /\ OpenFor(draft'[t].alerts, r) = OpenFor(draft[t].alerts, r)
                 /\ DOMAIN draft[t].alerts \subseteq DOMAIN draft'[t].alerts
              \/ OpenFor(draft'[t].alerts, r) = {}
              \/ /\ \A a, b \in OpenFor(draft'[t].alerts, r) : a = b
                 /\ OpenFor(alerts, r) \subseteq DOMAIN draft'[t].alerts
                 /\ \A u \in Txns \ {t} : OpenFor(draft[u].alerts, r) = {}
<1>1. Typed
  BY DEF Keyed
<1>2. CASE StartDetection(t)
  BY <1>1, <1>2 DEF StartDetection
<1>3. CASE EvaluateRule(t)
  BY <1>1, <1>3 DEF EvaluateRule
<1>4. CASE EndDetection(t)
  BY <1>1, <1>4 DEF EndDetection
<1>5. CASE InsertAlert(t)
  <2>1. \A a, b \in {<<t, rule[t]>>} : a = b
    OBVIOUS
  <2>2. \A a \in DOMAIN draft'[t].alerts \ DOMAIN draft[t].alerts :
          a[1] = t /\ \A u \in Txns \ {t} : a \notin DOMAIN draft[u].alerts
    BY <1>5, InsertKeys
  <2>3. QED
    BY <1>5, <2>1, <2>2, InsertKeys
<1>6. CASE StartEvent(t)
  BY <1>1, <1>6 DEF StartEvent
<1>7. CASE LookForOffense(t)
  BY <1>1, <1>7 DEF LookForOffense
<1>8. CASE CreateOffense(t)
  BY <1>1, <1>8, Creates
<1>9. CASE JoinOffense(t)
  BY <1>1, <1>9, Joins
<1>10. CASE LoadAlert(t)
  BY <1>1, <1>10 DEF LoadAlert
<1>11. CASE WriteAlert(t)
  BY <1>1, <1>11, TitleKeys
<1>12. CASE CheckHosts(t)
  BY <1>1, <1>12 DEF CheckHosts
<1>13. CASE LoadOffense(t)
  BY <1>1, <1>13 DEF LoadOffense
<1>14. CASE WriteOffense(t)
  BY <1>1, <1>14, Restates
<1>15. CASE Promote(t)
  BY <1>1, <1>15, Promotes
<1>16. QED
  BY <1>2, <1>3, <1>4, <1>5, <1>6, <1>7, <1>8, <1>9, <1>10, <1>11, <1>12, <1>13, <1>14, <1>15 DEF Statement

(* What a step announces is stored, or was swallowed.                      *)
Told == announced' \ swallowed' \subseteq (announced \ swallowed) \cup DOMAIN alerts

LEMMA QuietKeyed ==
  ASSUME Keyed, Typed', NEW t \in Txns, Apart(t), UNCHANGED <<tables, kind>>, Told, RouteOf(t)',
         \A o \in DOMAIN draft'[t].offenses \ DOMAIN draft[t].offenses :
           /\ o \in DOMAIN offenses \/ o = t
           /\ \A u \in Txns \ {t} : o \notin DOMAIN draft[u].offenses,
         \A a \in DOMAIN draft'[t].alerts \ DOMAIN draft[t].alerts :
           /\ a \in DOMAIN alerts \/ a[1] = t
           /\ \A u \in Txns \ {t} : a \notin DOMAIN draft[u].alerts,
         \A r \in Rules :
           \/ /\ OpenFor(draft'[t].alerts, r) = OpenFor(draft[t].alerts, r)
              /\ DOMAIN draft[t].alerts \subseteq DOMAIN draft'[t].alerts
           \/ OpenFor(draft'[t].alerts, r) = {}
           \/ /\ \A a, b \in OpenFor(draft'[t].alerts, r) : a = b
              /\ OpenFor(alerts, r) \subseteq DOMAIN draft'[t].alerts
              /\ \A u \in Txns \ {t} : OpenFor(draft[u].alerts, r) = {},
         pc[t] \in Ended => pc'[t] \in Ended
  PROVE  Keyed'
<1>1. \A u \in Txns \ {t} : draft'[u] = draft[u] /\ pc'[u] = pc[u]
  BY DEF Apart
<1>2. alerts' = alerts /\ offenses' = offenses /\ kind' = kind
  BY DEF tables
<1>3. OldRows'
  BY <1>1, <1>2 DEF Told, Keyed, OldRows, Typed, TableTypes, IsTable, AlertIds
<1>4. Exclusive'
  <2>1. ASSUME NEW u \in Txns \ {t}
        PROVE  /\ DOMAIN draft'[t].alerts \cap DOMAIN draft'[u].alerts = {}
               /\ DOMAIN draft'[t].offenses \cap DOMAIN draft'[u].offenses = {}
               /\ \A r \in Rules : OpenFor(draft'[t].alerts, r) = {} \/ OpenFor(draft'[u].alerts, r) = {}
    <3>1. /\ DOMAIN draft[t].alerts \cap DOMAIN draft[u].alerts = {}
          /\ DOMAIN draft[t].offenses \cap DOMAIN draft[u].offenses = {}
          /\ \A r \in Rules : OpenFor(draft[t].alerts, r) = {} \/ OpenFor(draft[u].alerts, r) = {}
      BY DEF Keyed, Exclusive
    <3>2. draft'[u] = draft[u]
      BY <1>1
    <3>3. /\ DOMAIN draft'[t].alerts \cap DOMAIN draft[u].alerts = {}
          /\ DOMAIN draft'[t].offenses \cap DOMAIN draft[u].offenses = {}
      BY <3>1
    <3>4. \A r \in Rules : OpenFor(draft'[t].alerts, r) = {} \/ OpenFor(draft[u].alerts, r) = {}
      BY <3>1
    <3>5. QED
      BY <3>2, <3>3, <3>4
  <2>2. SUFFICES ASSUME NEW u \in Txns, NEW v \in Txns, u # v
        PROVE  /\ DOMAIN draft'[u].alerts \cap DOMAIN draft'[v].alerts = {}
               /\ DOMAIN draft'[u].offenses \cap DOMAIN draft'[v].offenses = {}
               /\ \A r \in Rules : OpenFor(draft'[u].alerts, r) = {} \/ OpenFor(draft'[v].alerts, r) = {}
    BY DEF Exclusive
  <2>3. CASE u = t
    BY <2>1, <2>2, <2>3
  <2>4. CASE v = t
    BY <2>1, <2>2, <2>4
  <2>5. CASE u # t /\ v # t
    <3>1. draft'[u] = draft[u] /\ draft'[v] = draft[v]
      BY <1>1, <2>5
    <3>2. /\ DOMAIN draft[u].alerts \cap DOMAIN draft[v].alerts = {}
          /\ DOMAIN draft[u].offenses \cap DOMAIN draft[v].offenses = {}
          /\ \A r \in Rules : OpenFor(draft[u].alerts, r) = {} \/ OpenFor(draft[v].alerts, r) = {}
      BY <2>2, Zenon DEF Keyed, Exclusive
    <3>3. QED
      BY <3>1, <3>2
  <2>6. QED
    BY <2>3, <2>4, <2>5
<1>5. OneKey'
  BY <1>2 DEF Keyed, OneKey
<1>6. ASSUME NEW u \in Txns
      PROVE  RouteOf(u)' /\ RowsOf(u)' /\ KeysOf(u)'
  <2>1. CASE u # t
    <3>1. draft'[u] = draft[u] /\ pc'[u] = pc[u] /\ RouteOf(u) /\ RowsOf(u) /\ KeysOf(u)
      BY <1>1, <2>1 DEF Keyed
    <3>2. QED
      BY <1>2, <3>1 DEF RouteOf, Linking, Detects, RowsOf, KeysOf
  <2>2. CASE u = t
    <3>1. RowsOf(t) /\ KeysOf(t)
      BY DEF Keyed
    <3>2. RowsOf(t)'
      BY <1>2, <3>1 DEF RowsOf
    <3>3. KeysOf(t)'
      BY <1>2, <3>1 DEF KeysOf
    <3>4. QED
      BY <2>2, <3>2, <3>3
  <2>3. QED
    BY <2>1, <2>2
<1>7. QED
  BY <1>3, <1>4, <1>5, <1>6 DEF Keyed

LEMMA StatementNotEnded ==
  ASSUME Typed, NEW t \in Txns, Statement(t)
  PROVE  pc[t] \notin Ended
<1>1. pc[t] \in Places
  BY DEF Typed, TxnTypes
<1>2. QED
  BY DEF Ended, Statement, StartDetection, EvaluateRule, EndDetection, InsertAlert, StartEvent, LookForOffense, CreateOffense, JoinOffense, LoadAlert, WriteAlert, CheckHosts, LoadOffense, WriteOffense, Promote

LEMMA StatementKeyed ==
  ASSUME Keyed, Typed', NEW t \in Txns, Statement(t)
  PROVE  Keyed'
<1>1. Typed /\ RouteOf(t)
  BY DEF Keyed
<1>2. RouteOf(t)' /\ pc[t] \notin Ended /\ Apart(t) /\ UNCHANGED <<tables, kind>> /\ Told
  BY <1>1, StatementRoute, StatementApart, StatementNotEnded DEF Told
<1>3. QED
  BY <1>2, StatementOffenses, StatementAlerts, QuietKeyed

LEMMA NoOpen == \A r : OpenFor(NoDraft.alerts, r) = {}
BY NoDraftHas DEF OpenFor

LEMMA UndoneKeyed ==
  ASSUME Keyed, Typed', NEW t \in Txns, Undone(t)
  PROVE  Keyed'
<1>1. Typed
  BY DEF Keyed
<1>2. RouteOf(t)'
  BY <1>1, UndoneApart DEF RouteOf, Ended
<1>3. /\ draft'[t] = NoDraft /\ pc'[t] \in Ended /\ Apart(t) /\ UNCHANGED <<tables, kind>> /\ Told
  BY <1>1, UndoneApart DEF Ended, Told
<1>4. QED
  BY <1>2, <1>3, NoDraftHas, NoOpen, QuietKeyed

LEMMA HooksKeyed ==
  ASSUME Keyed, Typed', NEW t \in Txns, EndHooks(t)
  PROVE  Keyed'
<1>1. Typed
  BY DEF Keyed
<1>2. /\ UNCHANGED <<tables, kind, draft>> /\ \A u \in Txns \ {t} : pc'[u] = pc[u]
      /\ pc[t] \in Ended /\ pc'[t] \in Ended /\ Told
  BY <1>1, HooksApart DEF Apart, Ended, Told
<1>3. OldRows'
  BY <1>2 DEF Told, Keyed, OldRows, tables, Typed, TableTypes, IsTable, AlertIds
<1>4. Exclusive' /\ OneKey'
  BY <1>2 DEF Keyed, Exclusive, OneKey, tables
<1>5. ASSUME NEW u \in Txns
      PROVE  RouteOf(u)' /\ RowsOf(u)' /\ KeysOf(u)'
  <2>1. RowsOf(u)' /\ KeysOf(u)'
    BY <1>2 DEF Keyed, RowsOf, KeysOf, tables
  <2>2. RouteOf(u)'
    BY <1>2 DEF Keyed, RouteOf, Ended, Linking, Detects, tables
  <2>3. QED
    BY <2>1, <2>2
<1>6. QED
  BY <1>3, <1>4, <1>5 DEF Keyed

LEMMA CommitKeyed ==
  ASSUME Keyed, Typed', NEW t \in Txns, Commit(t)
  PROVE  Keyed'
<1>1. Typed
  BY DEF Keyed
<1>2. /\ \A u \in Txns \ {t} : draft'[u] = draft[u] /\ pc'[u] = pc[u]
      /\ draft'[t] = NoDraft /\ pc[t] = "flushed" /\ pc'[t] \in Ended
      /\ kind' = kind /\ announced' = announced /\ swallowed' = swallowed
  BY <1>1, CommitApart DEF Apart, Ended
<1>3. /\ DOMAIN alerts' = DOMAIN draft[t].alerts \cup DOMAIN alerts
      /\ \A a \in DOMAIN draft[t].alerts : alerts'[a] = draft[t].alerts[a]
      /\ \A a \in DOMAIN alerts \ DOMAIN draft[t].alerts : alerts'[a] = alerts[a]
      /\ DOMAIN offenses' = DOMAIN draft[t].offenses \cup DOMAIN offenses
  BY <1>1, CommitTables
<1>4. OldRows'
  <2>1. \A a \in DOMAIN alerts' : a[1] = t \/ pc[a[1]] \in Ended
    BY <1>3 DEF Keyed, OldRows, RowsOf
  <2>2. \A o \in DOMAIN offenses' : o = t \/ pc[o] \in Ended
    BY <1>3 DEF Keyed, OldRows, RowsOf
  <2>3. \A a \in DOMAIN alerts' : a[1] \in Txns
    BY DEF Typed, TableTypes, IsTable, AlertIds
  <2>4. \A o \in DOMAIN offenses' : o \in Txns
    BY DEF Typed, TableTypes, IsTable
  <2>5. announced' \ swallowed' \subseteq DOMAIN alerts'
    BY <1>2, <1>3 DEF Keyed, OldRows
  <2>6. QED
    BY <1>2, <2>1, <2>2, <2>3, <2>4, <2>5 DEF OldRows
<1>5. Exclusive'
  BY <1>2, NoDraftHas, NoOpen DEF Keyed, Exclusive
<1>6. ASSUME NEW r \in Rules
      PROVE  \/ OpenFor(alerts', r) = OpenFor(draft[t].alerts, r)
             \/ OpenFor(draft[t].alerts, r) = {} /\ OpenFor(alerts', r) \subseteq OpenFor(alerts, r)
  <2>1. OpenFor(alerts', r) \subseteq OpenFor(draft[t].alerts, r) \cup (OpenFor(alerts, r) \ DOMAIN draft[t].alerts)
    BY <1>3 DEF OpenFor
  <2>2. OpenFor(draft[t].alerts, r) \subseteq OpenFor(alerts', r)
    BY <1>3 DEF OpenFor
  <2>3. QED
    BY <2>1, <2>2 DEF Keyed, KeysOf
<1>7. OneKey'
  BY <1>6 DEF Keyed, OneKey, KeysOf
<1>8. ASSUME NEW u \in Txns \ {t}
      PROVE  RouteOf(u)' /\ RowsOf(u)' /\ KeysOf(u)'
  <2>1. draft'[u] = draft[u] /\ pc'[u] = pc[u] /\ RouteOf(u) /\ RowsOf(u) /\ KeysOf(u)
    BY <1>2 DEF Keyed
  <2>2. RouteOf(u)' /\ RowsOf(u)'
    BY <1>2, <1>3, <2>1 DEF RouteOf, Linking, Detects, RowsOf
  <2>3. ASSUME NEW r \in Rules, OpenFor(draft[u].alerts, r) # {}
        PROVE  OpenFor(alerts', r) \subseteq DOMAIN draft[u].alerts
    <3>1. OpenFor(draft[t].alerts, r) = {}
      BY <2>3 DEF Keyed, Exclusive
    <3>2. QED
      BY <1>6, <2>1, <2>3, <3>1 DEF KeysOf
  <2>4. KeysOf(u)'
    BY <2>1, <2>3 DEF KeysOf
  <2>5. QED
    BY <2>2, <2>4
<1>9. RouteOf(t)' /\ RowsOf(t)' /\ KeysOf(t)'
  BY <1>2, NoDraftHas, NoOpen DEF RouteOf, Ended, RowsOf, KeysOf
<1>10. QED
  BY <1>4, <1>5, <1>7, <1>8, <1>9 DEF Keyed

LEMMA KeyedStep ==
  ASSUME Keyed, [Next]_vars
  PROVE  Keyed'
<1>1. Typed'
  BY TypedStep DEF Keyed
<1>2. CASE UNCHANGED vars \/ Tick
  <2>1. UNCHANGED <<tables, announced, swallowed, kind, draft, pc>>
    BY <1>2 DEF vars, Tick, tables
  <2>2. OldRows' /\ Exclusive' /\ OneKey'
    BY <2>1 DEF tables, Keyed, OldRows, Exclusive, OneKey
  <2>3. ASSUME NEW u \in Txns
        PROVE  RouteOf(u)' /\ RowsOf(u)' /\ KeysOf(u)'
    <3>1. RouteOf(u) /\ RowsOf(u) /\ KeysOf(u)
      BY DEF Keyed
    <3>2. RouteOf(u)'
      BY <2>1, <3>1 DEF RouteOf, tables, Detects, Linking
    <3>3. RowsOf(u)' /\ KeysOf(u)'
      BY <2>1, <3>1 DEF RowsOf, KeysOf, tables
    <3>4. QED
      BY <3>2, <3>3
  <2>4. QED
    BY <1>1, <2>2, <2>3 DEF Keyed
<1>3. QED
  BY <1>1, <1>2, Steps, StatementKeyed, UndoneKeyed, HooksKeyed, CommitKeyed

LEMMA InitKeyed == Init => Keyed
BY InitTyped, NoDraftHas, NoOpen, NoRowsIs
   DEF Init, Keyed, OldRows, Exclusive, OneKey, RouteOf, RowsOf, KeysOf, OpenFor, Ended

LEMMA KeyedOneOpen == Keyed => OneOpenAlert
<1>1. ASSUME Keyed, NEW r \in Rules
      PROVE  Cardinality(OpenFor(alerts, r)) <= 1
  <2>1. CASE OpenFor(alerts, r) = {}
    <3>1. Cardinality({}) = 0
      BY FS_EmptySet
    <3>2. QED
      BY <2>1, <3>1
  <2>2. ASSUME NEW a \in OpenFor(alerts, r)
        PROVE  Cardinality(OpenFor(alerts, r)) <= 1
    <3>1. OpenFor(alerts, r) = {a}
      BY <1>1, <2>2 DEF Keyed, OneKey
    <3>2. Cardinality({a}) = 1
      BY FS_Singleton
    <3>3. QED
      BY <3>1, <3>2
  <2>3. QED
    BY <2>1, <2>2
<1>2. QED
  BY <1>1 DEF OneOpenAlert

-----------------------------------------------------------------------------
(* The links of the alerts.                                                *)

OldLinks == \A l \in links : l[1] \in DOMAIN offenses /\ pc[l[2][1]] \in Ended

(* What t has yet to link.                                                 *)
NotYet(t) == IF pc[t] \in {"look", "settle"} THEN {Newcomer(t)} ELSE {}

(* A rule that t has yet to evaluate has made no alert of t.               *)
FreshOf(t) ==
  /\ Detects(t) /\ pc[t] \in {"rules", "insert", "look", "settle"} =>
       \A r \in todo[t] : <<t, r>> \notin DOMAIN draft[t].alerts
  /\ pc[t] = "insert" =>
       <<t, rule[t]>> \notin DOMAIN draft[t].alerts /\ (Detects(t) => rule[t] \notin todo[t])

LinksOf(t) ==
  /\ \A l \in draft[t].links :
       /\ l[2][1] = t /\ l[1] \in DOMAIN draft[t].offenses /\ l[2] \notin NotYet(t)
       /\ l[2][2] = "event" \/ l[2] \in DOMAIN draft[t].alerts
       /\ \A m \in draft[t].links : m[2] = l[2] => m = l
  /\ \A a \in DOMAIN draft[t].alerts \ NotYet(t) : a[1] = t => \E l \in draft[t].links : l[2] = a
  /\ kind[t] = "event" /\ pc[t] \in {"look", "settle"} => draft[t].links = {}
  /\ kind[t] # "event" => NotYet(t) \subseteq DOMAIN draft[t].alerts

Filed == Keyed /\ OldLinks /\ AlertsGrouped /\ \A t \in Txns : FreshOf(t) /\ LinksOf(t)

(* An alert that is committed is of another transaction.                   *)
LEMMA NotMine ==
  ASSUME Keyed, NEW t \in Txns, pc[t] \notin Ended
  PROVE  t \notin DOMAIN offenses /\ \A a \in DOMAIN alerts : a[1] # t
BY DEF Keyed, OldRows

LEMMA StatementFresh ==
  ASSUME Filed, NEW t \in Txns, Statement(t)
  PROVE  FreshOf(t)'
<1>1. /\ Keyed /\ Typed /\ TxnTypes /\ kind' = kind /\ RouteOf(t) /\ FreshOf(t)
      /\ \A a \in DOMAIN alerts : a[1] # t
  BY StatementApart, StatementNotEnded, NotMine DEF Filed, Keyed, Typed
<1>2. CASE StartDetection(t)
  BY <1>1, <1>2, NoDraftHas DEF StartDetection, Goto, TxnTypes, RouteOf, FreshOf, Detects
<1>3. CASE EvaluateRule(t)
  <2>1. PICK r \in todo[t] :
             /\ todo' = [todo EXCEPT ![t] = @ \ {r}]
             /\ IF RecentlyClosed(t, r)
                THEN UNCHANGED <<pc, rule>>
                ELSE rule' = [rule EXCEPT ![t] = r] /\ Goto(t, "insert")
    BY <1>3 DEF EvaluateRule
  <2>2. /\ draft' = draft /\ pc[t] = "rules" /\ todo'[t] = todo[t] \ {r}
        /\ pc'[t] = "rules" \/ (pc'[t] = "insert" /\ rule'[t] = r)
    BY <1>1, <1>3, <2>1 DEF EvaluateRule, Goto, TxnTypes
  <2>3. QED
    BY <1>1, <2>2 DEF FreshOf, Detects, RouteOf
<1>4. CASE EndDetection(t)
  BY <1>1, <1>4 DEF EndDetection, Goto, TxnTypes, FreshOf, Detects
<1>5. CASE InsertAlert(t)
  <2>1. CASE draft' = draft
    BY <1>1, <1>5, <2>1, Inserts DEF InsertAlert, FreshOf, RouteOf, Detects, AfterAlert
  <2>2. CASE pc'[t] = "look" /\ draft'[t].alerts = Put(draft[t].alerts, <<t, rule[t]>>, NewAlert)
    <3>1. DOMAIN draft'[t].alerts = DOMAIN draft[t].alerts \cup {<<t, rule[t]>>}
      BY <2>2 DEF Put
    <3>2. pc[t] = "insert" /\ todo' = todo
      BY <1>5 DEF InsertAlert
    <3>3. QED
      BY <1>1, <2>2, <3>1, <3>2 DEF FreshOf, Detects
  <2>3. QED
    BY <1>1, <1>5, <2>1, <2>2, Inserts
<1>6. CASE StartEvent(t)
  BY <1>1, <1>6 DEF StartEvent, Goto, TxnTypes, FreshOf, Detects
<1>7. CASE LookForOffense(t)
  BY <1>1, <1>7 DEF LookForOffense, Goto, TxnTypes, FreshOf, Detects
<1>8. CASE CreateOffense(t)
  <2>1. draft'[t].alerts = draft[t].alerts /\ pc[t] = "settle" /\ pc'[t] \in {AfterAlert(t), "settle"} /\ todo' = todo
    BY <1>1, <1>8, Creates DEF CreateOffense
  <2>2. QED
    BY <1>1, <2>1 DEF FreshOf, AfterAlert, Detects
<1>9. CASE JoinOffense(t)
  <2>1. draft'[t].alerts = draft[t].alerts /\ pc[t] = "settle" /\ pc'[t] \in {AfterAlert(t), "settle"} /\ todo' = todo
    BY <1>1, <1>9, Joins DEF JoinOffense
  <2>2. QED
    BY <1>1, <2>1 DEF FreshOf, AfterAlert, Detects
<1>10. CASE LoadAlert(t)
  BY <1>1, <1>10 DEF LoadAlert, Goto, TxnTypes, FreshOf, Detects
<1>11. CASE WriteAlert(t)
  BY <1>1, <1>11, Titles DEF FreshOf
<1>12. CASE CheckHosts(t)
  <2>1. pc[t] = "hosts" /\ draft' = draft /\ pc'[t] \in {"flushed", "insert"} /\ kind[t] = "triage"
    BY <1>1, <1>12 DEF CheckHosts, Goto, TxnTypes, RouteOf
  <2>2. \A r : <<t, r>> \notin DOMAIN draft[t].alerts
    <3>1. \A r : <<t, r>> \notin DOMAIN alerts
      BY <1>1
    <3>2. QED
      BY <1>1, <2>1, <3>1 DEF RouteOf
  <2>3. QED
    BY <1>1, <2>1, <2>2 DEF FreshOf, Detects
<1>13. CASE LoadOffense(t)
  BY <1>1, <1>13 DEF LoadOffense, Goto, TxnTypes, FreshOf, Detects
<1>14. CASE WriteOffense(t)
  BY <1>1, <1>14, Restates DEF FreshOf
<1>15. CASE Promote(t)
  BY <1>1, <1>15, Promotes DEF FreshOf
<1>16. QED
  BY <1>2, <1>3, <1>4, <1>5, <1>6, <1>7, <1>8, <1>9, <1>10, <1>11, <1>12, <1>13, <1>14, <1>15 DEF Statement

LEMMA LinkedOnce ==
  ASSUME Typed, NEW t \in Txns, LinksOf(t), pc[t] = "settle", pc'[t] = AfterAlert(t), kind' = kind, NEW o, NEW row,
         draft'[t].offenses = Put(draft[t].offenses, o, row), draft'[t].alerts = draft[t].alerts,
         draft'[t].links = draft[t].links \cup {<<o, Newcomer(t)>>}
  PROVE  LinksOf(t)'
<1>1. NotYet(t) = {Newcomer(t)} /\ NotYet(t)' = {}
  BY DEF NotYet, AfterAlert
<1>2. DOMAIN draft'[t].offenses = DOMAIN draft[t].offenses \cup {o}
  BY DEF Put
<1>3. DEFINE n == Newcomer(t)
<1>4. n[1] = t /\ (n[2] = "event" \/ n \in DOMAIN draft[t].alerts)
  BY <1>1 DEF LinksOf, Newcomer
<1>5. pc'[t] \notin {"look", "settle"}
  BY DEF AfterAlert
<1>6. DEFINE k == <<o, n>>
<1>7. k[1] = o /\ k[2] = n
  OBVIOUS
<1> HIDE DEF n
<1>8. draft'[t].links = draft[t].links \cup {k} /\ NotYet(t) = {n}
  BY <1>1 DEF n
<1> HIDE DEF k
<1>9. \A l \in draft'[t].links :
        /\ l[2][1] = t /\ l[1] \in DOMAIN draft'[t].offenses
        /\ l[2][2] = "event" \/ l[2] \in DOMAIN draft'[t].alerts
        /\ \A m \in draft'[t].links : m[2] = l[2] => m = l
  BY <1>2, <1>4, <1>7, <1>8 DEF LinksOf
<1>10. \A a \in DOMAIN draft'[t].alerts : a[1] = t => \E l \in draft'[t].links : l[2] = a
  BY <1>7, <1>8 DEF LinksOf
<1>11. QED
  BY <1>1, <1>5, <1>9, <1>10 DEF LinksOf

LEMMA StatementLinks ==
  ASSUME Filed, NEW t \in Txns, Statement(t)
  PROVE  LinksOf(t)'
<1>1. /\ Keyed /\ Typed /\ TxnTypes /\ kind' = kind /\ RouteOf(t) /\ LinksOf(t) /\ FreshOf(t)
      /\ \A a \in DOMAIN alerts : a[1] # t
  BY StatementApart, StatementNotEnded, NotMine DEF Filed, Keyed, Typed
<1>2. rule[t] \in Rules /\ draft[t] \in Written
  BY <1>1 DEF TxnTypes
<1>3. CASE StartDetection(t)
  <2>1. draft' = draft /\ draft[t] = NoDraft /\ pc'[t] \in {"rules", "write", "look"} /\ (pc'[t] = "look" => kind[t] = "event")
    BY <1>1, <1>3 DEF StartDetection, Goto, TxnTypes, RouteOf
  <2>2. QED
    BY <1>1, <2>1, NoDraftHas DEF LinksOf, NotYet
<1>4. CASE EvaluateRule(t)
  <2>1. draft' = draft /\ pc[t] \in {"rules", "hosts"} /\ pc'[t] \in {"rules", "insert", "flushed"}
    BY <1>1, <1>4 DEF EvaluateRule, Goto, TxnTypes
  <2>2. QED
    BY <1>1, <2>1 DEF LinksOf, NotYet
<1>5. CASE EndDetection(t)
  <2>1. draft' = draft /\ pc[t] \in {"rules", "hosts"} /\ pc'[t] \in {"rules", "insert", "flushed"}
    BY <1>1, <1>5 DEF EndDetection, Goto, TxnTypes
  <2>2. QED
    BY <1>1, <2>1 DEF LinksOf, NotYet
<1>6. CASE InsertAlert(t)
  <2>1. CASE draft' = draft /\ pc'[t] = AfterAlert(t)
    <3>1. pc[t] = "insert" /\ pc'[t] \notin {"look", "settle"}
      BY <1>6, <2>1 DEF AfterAlert, InsertAlert
    <3>2. QED
      BY <1>1, <2>1, <3>1 DEF LinksOf, NotYet
  <2>2. CASE /\ pc'[t] = "look" /\ draft'[t].alerts = Put(draft[t].alerts, <<t, rule[t]>>, NewAlert)
             /\ draft'[t].offenses = draft[t].offenses /\ draft'[t].links = draft[t].links
    <3>1. DOMAIN draft'[t].alerts = DOMAIN draft[t].alerts \cup {<<t, rule[t]>>}
      BY <2>2 DEF Put
    <3>2. pc[t] = "insert" /\ rule' = rule /\ <<t, rule[t]>> \notin DOMAIN draft[t].alerts /\ kind[t] # "event"
      BY <1>1, <1>6 DEF InsertAlert, FreshOf, RouteOf, Detects
    <3>3. NotYet(t)' = {<<t, rule[t]>>} /\ NotYet(t) = {}
      BY <1>1, <2>2, <3>2 DEF NotYet, Newcomer
    <3>4. \A l \in draft[t].links : l[2] # <<t, rule[t]>>
      BY <1>1, <1>2, <3>2, RulesAssumption DEF LinksOf
    <3>5. QED
      BY <1>1, <2>2, <3>1, <3>2, <3>3, <3>4 DEF LinksOf
  <2>3. QED
    <3>1. \/ draft' = draft /\ pc'[t] = AfterAlert(t)
          \/ /\ pc'[t] = "look" /\ draft'[t].alerts = Put(draft[t].alerts, <<t, rule[t]>>, NewAlert)
             /\ draft'[t].offenses = draft[t].offenses /\ draft'[t].links = draft[t].links
      BY <1>1, <1>6, Inserts
    <3>2. QED
      BY <2>1, <2>2, <3>1
<1>7. CASE StartEvent(t)
  <2>1. draft' = draft /\ draft[t] = NoDraft /\ pc'[t] \in {"rules", "write", "look"} /\ (pc'[t] = "look" => kind[t] = "event")
    BY <1>1, <1>7 DEF StartEvent, Goto, TxnTypes, RouteOf
  <2>2. QED
    BY <1>1, <2>1, NoDraftHas DEF LinksOf, NotYet
<1>8. CASE LookForOffense(t)
  <2>1. draft' = draft /\ pc[t] = "look" /\ pc'[t] = "settle" /\ rule' = rule
    BY <1>1, <1>8 DEF LookForOffense, Goto, TxnTypes
  <2>2. NotYet(t)' = NotYet(t)
    BY <1>1, <2>1 DEF NotYet, Newcomer
  <2>3. QED
    BY <1>1, <2>1, <2>2 DEF LinksOf
<1>9. CASE CreateOffense(t)
  <2>1. /\ pc[t] = "settle" /\ pc'[t] = AfterAlert(t)
        /\ draft'[t].offenses = Put(draft[t].offenses, t, Linked(t, NewOffense(t)))
        /\ draft'[t].links = draft[t].links \cup {<<t, Newcomer(t)>>} /\ draft'[t].alerts = draft[t].alerts
    BY <1>1, <1>9, Creates
  <2>2. QED
    BY <1>1, <2>1, LinkedOnce
<1>10. CASE JoinOffense(t)
  <2>1. PICK s \in seen[t] :
           \/ /\ pc'[t] = AfterAlert(t)
              /\ draft'[t].offenses = Put(draft[t].offenses, s[1], Linked(t, OffensesOf(t)[s[1]]))
              /\ draft'[t].links = draft[t].links \cup {<<s[1], Newcomer(t)>>}
              /\ draft'[t].alerts = draft[t].alerts
           \/ pc' = pc /\ draft' = draft
    BY <1>1, <1>10, Joins
  <2>2. pc[t] = "settle" /\ rule' = rule
    BY <1>10 DEF JoinOffense
  <2>3. CASE pc' = pc /\ draft' = draft
    <3>1. NotYet(t)' = NotYet(t)
      BY <1>1, <2>2, <2>3 DEF NotYet, Newcomer
    <3>2. QED
      BY <1>1, <2>3, <3>1 DEF LinksOf
  <2>4. CASE pc'[t] = AfterAlert(t)
    BY <1>1, <2>1, <2>2, <2>3, <2>4, LinkedOnce
  <2>5. QED
    BY <2>1, <2>3, <2>4
<1>11. CASE LoadAlert(t)
  <2>1. draft' = draft /\ draft[t] = NoDraft /\ pc'[t] \in {"rules", "write", "look"} /\ (pc'[t] = "look" => kind[t] = "event")
    BY <1>1, <1>11 DEF LoadAlert, Goto, TxnTypes, RouteOf
  <2>2. QED
    BY <1>1, <2>1, NoDraftHas DEF LinksOf, NotYet
<1>12. CASE WriteAlert(t)
  <2>1. /\ draft[t] = NoDraft /\ draft'[t].links = {} /\ pc'[t] = "hosts"
        /\ \A a \in DOMAIN draft'[t].alerts : a[1] # t
    BY <1>1, <1>12, Titles, TitleKeys, NoDraftHas DEF RouteOf
  <2>2. QED
    BY <1>1, <2>1 DEF LinksOf, NotYet
<1>13. CASE CheckHosts(t)
  <2>1. draft' = draft /\ pc[t] \in {"rules", "hosts"} /\ pc'[t] \in {"rules", "insert", "flushed"}
    BY <1>1, <1>13 DEF CheckHosts, Goto, TxnTypes
  <2>2. QED
    BY <1>1, <2>1 DEF LinksOf, NotYet
<1>14. CASE LoadOffense(t)
  <2>1. draft' = draft /\ draft[t] = NoDraft /\ pc'[t] \in {"rules", "write", "look"} /\ (pc'[t] = "look" => kind[t] = "event")
    BY <1>1, <1>14 DEF LoadOffense, Goto, TxnTypes, RouteOf
  <2>2. QED
    BY <1>1, <2>1, NoDraftHas DEF LinksOf, NotYet
<1>15. CASE WriteOffense(t)
  <2>1. /\ draft[t] = NoDraft /\ draft'[t].links = {} /\ pc'[t] = "flushed"
        /\ DOMAIN draft'[t].alerts = {}
    BY <1>1, <1>15, Restates, NoDraftHas DEF RouteOf
  <2>2. QED
    BY <1>1, <2>1 DEF LinksOf, NotYet
<1>16. CASE Promote(t)
  <2>1. /\ draft[t] = NoDraft /\ draft'[t].links = {} /\ pc'[t] = "flushed"
        /\ DOMAIN draft'[t].alerts = {}
    BY <1>1, <1>16, Promotes, NoDraftHas DEF RouteOf
  <2>2. QED
    BY <1>1, <2>1 DEF LinksOf, NotYet
<1>17. QED
  BY <1>3, <1>4, <1>5, <1>6, <1>7, <1>8, <1>9, <1>10, <1>11, <1>12, <1>13, <1>14, <1>15, <1>16 DEF Statement

(* What another transaction commits is of no concern.                      *)
LEMMA OthersLinks ==
  ASSUME Filed, NEW t \in Txns, Apart(t), kind' = kind, NEW u \in Txns \ {t}
  PROVE  FreshOf(u)' /\ LinksOf(u)'
<1>1. /\ draft'[u] = draft[u] /\ pc'[u] = pc[u] /\ todo'[u] = todo[u] /\ rule'[u] = rule[u]
      /\ FreshOf(u) /\ LinksOf(u)
  BY DEF Filed, Apart
<1>2. NotYet(u)' = NotYet(u)
  BY <1>1 DEF NotYet, Newcomer
<1>3. FreshOf(u)'
  BY <1>1 DEF FreshOf, Detects
<1>4. LinksOf(u)'
  BY <1>1, <1>2 DEF LinksOf
<1>5. QED
  BY <1>3, <1>4

LEMMA NothingLinked ==
  ASSUME NEW t \in Txns, draft'[t] = NoDraft, pc'[t] \in Ended
  PROVE  FreshOf(t)' /\ LinksOf(t)'
BY NoDraftHas DEF FreshOf, LinksOf, NotYet, Ended

LEMMA QuietFiled ==
  ASSUME Filed, Keyed', NEW t \in Txns, Apart(t), UNCHANGED <<tables, kind>>, Told,
         pc[t] \in Ended => pc'[t] \in Ended, FreshOf(t)', LinksOf(t)'
  PROVE  Filed'
<1>1. OldLinks'
  <2>1. \A l \in links : l[2][1] \in Txns
    BY DEF Filed, Keyed, Typed, TableTypes, Links, AlertIds, EventIds
  <2>2. QED
    BY <2>1 DEF Filed, OldLinks, Apart, tables
<1>2. AlertsGrouped'
  BY DEF Told, Filed, AlertsGrouped, tables
<1>3. QED
  BY <1>1, <1>2, OthersLinks DEF Filed

LEMMA CommitFiled ==
  ASSUME Filed, Keyed', NEW t \in Txns, Commit(t)
  PROVE  Filed'
<1>1. /\ Typed /\ Keyed /\ LinksOf(t) /\ RowsOf(t) /\ Typed'
  BY DEF Filed, Keyed
<1>2. /\ Apart(t) /\ kind' = kind /\ announced' = announced /\ swallowed' = swallowed
      /\ draft'[t] = NoDraft /\ pc[t] = "flushed" /\ pc'[t] \in Ended
  BY <1>1, CommitApart DEF Ended
<1>3. /\ DOMAIN alerts' = DOMAIN draft[t].alerts \cup DOMAIN alerts
      /\ DOMAIN offenses' = DOMAIN draft[t].offenses \cup DOMAIN offenses
      /\ links' = links \cup draft[t].links
  BY <1>1, CommitTables
<1>4. \A l \in links : l[2][1] \in Txns /\ l[2][1] # t
  BY <1>1, <1>2 DEF Filed, OldLinks, Typed, TableTypes, Links, AlertIds, EventIds, Ended
<1>5. \A l \in draft[t].links : l[2][1] = t /\ l[1] \in DOMAIN draft[t].offenses
  BY <1>1 DEF LinksOf
<1>6. OldLinks'
  BY <1>2, <1>3, <1>4, <1>5 DEF Filed, OldLinks, Apart
<1>7. ASSUME NEW a \in DOMAIN alerts' \cup (announced' \ swallowed')
      PROVE  \E o \in DOMAIN offenses' :
                /\ <<o, a>> \in links'
                /\ \A p \in Txns : <<p, a>> \in links' => p = o
  <2>1. CASE a \in DOMAIN alerts
    <3>1. a[1] # t
      BY <1>1, <1>2, <2>1, NotMine DEF Ended
    <3>2. \A p : <<p, a>> \in links' <=> <<p, a>> \in links
      BY <1>3, <1>5, <3>1
    <3>3. QED
      BY <1>3, <2>1, <3>2 DEF Filed, AlertsGrouped
  <2>2. CASE a \notin DOMAIN alerts
    <3>1. a \in DOMAIN draft[t].alerts /\ a[1] = t
      BY <1>1, <1>2, <1>3, <2>2 DEF Keyed, OldRows, RowsOf
    <3>2. PICK l \in draft[t].links : l[2] = a
      BY <1>1, <1>2, <3>1 DEF LinksOf, NotYet
    <3>3. l = <<l[1], a>>
      BY <1>1, <3>2 DEF Typed, TxnTypes, Written, Links
    <3>4. ASSUME NEW p \in Txns, <<p, a>> \in links'
          PROVE  p = l[1]
      <4>1. <<p, a>> \in draft[t].links
        BY <1>3, <1>4, <3>1, <3>4
      <4>2. <<p, a>> = l
        BY <1>1, <3>2, <4>1 DEF LinksOf
      <4>3. QED
        BY <3>3, <4>2
    <3>5. QED
      BY <1>3, <1>5, <3>2, <3>3, <3>4
  <2>3. QED
    BY <2>1, <2>2
<1>8. AlertsGrouped'
  BY <1>7 DEF AlertsGrouped
<1>9. QED
  BY <1>2, <1>6, <1>8, NothingLinked, OthersLinks DEF Filed

LEMMA FiledStep ==
  ASSUME Filed, [Next]_vars
  PROVE  Filed'
<1>1. Keyed /\ Typed /\ Keyed'
  BY KeyedStep DEF Filed, Keyed
<1>2. CASE UNCHANGED vars \/ Tick
  <2>1. UNCHANGED <<tables, announced, swallowed, kind, draft, pc, todo, rule>>
    BY <1>2 DEF vars, Tick, tables
  <2>2. OldLinks' /\ AlertsGrouped'
    BY <2>1 DEF tables, Filed, OldLinks, AlertsGrouped
  <2>3. ASSUME NEW u \in Txns
        PROVE  FreshOf(u)' /\ LinksOf(u)'
    <3>1. FreshOf(u) /\ LinksOf(u)
      BY DEF Filed
    <3>2. NotYet(u)' = NotYet(u)
      BY <2>1 DEF NotYet, Newcomer
    <3>3. FreshOf(u)'
      BY <2>1, <3>1 DEF FreshOf, Detects
    <3>4. LinksOf(u)'
      BY <2>1, <3>1, <3>2 DEF LinksOf
    <3>5. QED
      BY <3>3, <3>4
  <2>4. QED
    BY <1>1, <2>2, <2>3 DEF Filed
<1>3. ASSUME NEW t \in Txns, Statement(t)
      PROVE  Filed'
  <2>1. Apart(t) /\ UNCHANGED <<tables, kind>> /\ Told /\ pc[t] \notin Ended
    BY <1>1, <1>3, StatementApart, StatementNotEnded DEF Told
  <2>2. QED
    BY <1>1, <1>3, <2>1, StatementFresh, StatementLinks, QuietFiled
<1>4. ASSUME NEW t \in Txns, Undone(t)
      PROVE  Filed'
  <2>1. /\ Apart(t) /\ UNCHANGED <<tables, kind>> /\ Told
        /\ draft'[t] = NoDraft /\ pc'[t] \in Ended
    BY <1>1, <1>4, UndoneApart DEF Ended, Told
  <2>2. QED
    BY <1>1, <2>1, NothingLinked, QuietFiled
<1>5. ASSUME NEW t \in Txns, EndHooks(t)
      PROVE  Filed'
  <2>1. /\ Apart(t) /\ UNCHANGED <<tables, kind, draft>> /\ pc[t] \in Ended /\ pc'[t] \in Ended /\ Told
    BY <1>1, <1>5, HooksApart DEF Ended, Told
  <2>2. draft'[t] = NoDraft
    BY <1>1, <2>1 DEF Keyed, RouteOf
  <2>3. QED
    BY <1>1, <2>1, <2>2, NothingLinked, QuietFiled
<1>6. QED
  BY <1>1, <1>2, <1>3, <1>4, <1>5, Steps, CommitFiled

LEMMA InitFiled == Init => Filed
<1>1. ASSUME Init
      PROVE  /\ Keyed /\ links = {} /\ DOMAIN alerts = {} /\ announced = {}
             /\ \A t \in Txns : draft[t] = NoDraft /\ pc[t] = "new"
  BY <1>1, InitKeyed, NoRowsIs DEF Init
<1>2. QED
  BY <1>1, NoDraftHas DEF Filed, OldLinks, AlertsGrouped, FreshOf, LinksOf, NotYet

(* A rule has one open alert, and every alert that is stored is in one     *)
(* offense, and every one that is announced, unless a request swallowed    *)
(* the error that undid it (services/detection.py create_alert, services/  *)
(* offense_engine.py, pipeline/processor.py).                              *)
THEOREM EveryAlertGrouped == Spec => []Grouped
<1>1. Filed => Grouped
  BY TypedIsTypeOK, KeyedOneOpen DEF Filed, Keyed, Grouped
<1>2. QED
  BY <1>1, InitFiled, FiledStep, PTL DEF Spec

-----------------------------------------------------------------------------
(* Offenses: whose links are added, what they count, their incident.       *)

LinkedEvents(o, set) == {e \in EventIds : <<o, e>> \in set}

(* The offenses an alert or event is added to are not closed, and stay so: *)
(* t has their rows.                                                       *)
OpenOf(t) ==
  /\ Linking(t) => \A o \in DOMAIN draft[t].offenses :
       /\ draft[t].offenses[o].status \in Grouping /\ draft[t].offenses[o].updated = now
       /\ o \in DOMAIN offenses => offenses[o].status \in Grouping
  /\ ~Linking(t) => draft[t].links = {}

(* What t has changed it finds again, so that it makes one offense.        *)
SeenOf(t) ==
  pc[t] = "settle" => \A o \in DOMAIN draft[t].offenses : <<o, now>> \in seen[t]

CountsOf(t) ==
  \A o \in DOMAIN draft[t].offenses :
    /\ draft[t].offenses[o].alerts = Cardinality(LinkedAlerts(o, links \cup draft[t].links))
    /\ draft[t].offenses[o].events = Cardinality(LinkedEvents(o, links \cup draft[t].links))

IncidentsOf(t) ==
  /\ \A i \in incidents : i.of \in DOMAIN draft[t].offenses => draft[t].offenses[i.of].incident = i.by
  /\ \A i, j \in draft[t].incidents : i = j
  /\ \A i \in draft[t].incidents :
       /\ i.by = t /\ i.of \in DOMAIN draft[t].offenses \cap DOMAIN offenses
       /\ draft[t].offenses[i.of].incident = t /\ offenses[i.of].incident = None
       /\ \A a \in i.alerts : <<i.of, a>> \in links

Finite == IsFiniteSet(links) /\ \A t \in Txns : IsFiniteSet(draft[t].links)

OldIncidents == \A i \in incidents : i.of \in DOMAIN offenses

Settled ==
  /\ Filed /\ Finite /\ CountsMatchLinks /\ PromotedOnce /\ OldIncidents
  /\ \A t \in Txns : OpenOf(t) /\ SeenOf(t) /\ CountsOf(t) /\ IncidentsOf(t)

(* What a statement does to the offenses, in terms of the row t sees.      *)
RowOf(t, o, row) ==
  /\ o \in DOMAIN draft[t].offenses => row = draft[t].offenses[o]
  /\ o \in DOMAIN offenses \ DOMAIN draft[t].offenses => row = offenses[o]
  /\ o \notin DOMAIN draft[t].offenses \cup DOMAIN offenses => o = t /\ row = NewOffense(t)

KeepsOffenses(t) ==
  /\ draft'[t].offenses = draft[t].offenses /\ draft'[t].links = draft[t].links
  /\ draft'[t].incidents = draft[t].incidents

AddsLink(t) ==
  \E o \in Txns, row \in Offense :
    /\ RowOf(t, o, row) /\ row.status \in Grouping
    /\ draft'[t].offenses = Put(draft[t].offenses, o, Linked(t, row))
    /\ draft'[t].links = draft[t].links \cup {<<o, Newcomer(t)>>}
    /\ draft'[t].incidents = draft[t].incidents
    /\ pc[t] = "settle" /\ pc'[t] = AfterAlert(t)

SetsStatus(t) ==
  \E o \in DOMAIN offenses, row \in Offense :
    /\ draft[t] = NoDraft /\ ~Linking(t)
    /\ draft'[t].offenses = Put(draft[t].offenses, o, row)
    /\ draft'[t].links = {} /\ draft'[t].incidents = {}
    /\ row.alerts = offenses[o].alerts /\ row.events = offenses[o].events
    /\ row.incident = offenses[o].incident

MakesIncident(t) ==
  \E o \in DOMAIN offenses, row \in Offense :
    /\ draft[t] = NoDraft /\ ~Linking(t)
    /\ draft'[t].offenses = Put(draft[t].offenses, o, row) /\ draft'[t].links = {}
    /\ draft'[t].incidents = {[by |-> t, of |-> o, alerts |-> LinkedAlerts(o, links)]}
    /\ row.alerts = offenses[o].alerts /\ row.events = offenses[o].events
    /\ offenses[o].incident = None /\ row.incident = t

LEMMA StatementEffect ==
  ASSUME Settled, NEW t \in Txns, Statement(t)
  PROVE  KeepsOffenses(t) \/ AddsLink(t) \/ SetsStatus(t) \/ MakesIncident(t)
<1>1. Typed /\ RouteOf(t) /\ SeenOf(t) /\ t \notin DOMAIN offenses
  BY StatementNotEnded, NotMine DEF Settled, Filed, Keyed
<1>2. CASE StartDetection(t)
  BY <1>1, <1>2 DEF StartDetection, KeepsOffenses
<1>3. CASE EvaluateRule(t)
  BY <1>1, <1>3 DEF EvaluateRule, KeepsOffenses
<1>4. CASE EndDetection(t)
  BY <1>1, <1>4 DEF EndDetection, KeepsOffenses
<1>5. CASE InsertAlert(t)
  BY <1>1, <1>5, Inserts DEF InsertAlert, KeepsOffenses
<1>6. CASE StartEvent(t)
  BY <1>1, <1>6 DEF StartEvent, KeepsOffenses
<1>7. CASE LookForOffense(t)
  BY <1>1, <1>7 DEF LookForOffense, KeepsOffenses
<1>8. CASE CreateOffense(t)
  <2>1. DOMAIN draft[t].offenses = {}
    BY <1>1, <1>8 DEF SeenOf, CreateOffense
  <2>2. RowOf(t, t, NewOffense(t)) /\ NewOffense(t) \in Offense /\ NewOffense(t).status \in Grouping
    BY <1>1, <2>1, NewOffenseIs DEF RowOf, Grouping
  <2>3. /\ pc[t] = "settle" /\ pc'[t] = AfterAlert(t) /\ draft'[t].incidents = draft[t].incidents
        /\ draft'[t].offenses = Put(draft[t].offenses, t, Linked(t, NewOffense(t)))
        /\ draft'[t].links = draft[t].links \cup {<<t, Newcomer(t)>>}
    BY <1>1, <1>8, Creates
  <2>4. AddsLink(t)
    BY <2>2, <2>3 DEF AddsLink
  <2>5. QED
    BY <2>4
<1>9. CASE JoinOffense(t)
  <2>1. PICK s \in seen[t] :
             /\ s[1] \in DOMAIN OffensesOf(t)
             /\ \/ /\ OffensesOf(t)[s[1]].status \in Grouping /\ pc'[t] = AfterAlert(t)
                   /\ draft'[t].offenses = Put(draft[t].offenses, s[1], Linked(t, OffensesOf(t)[s[1]]))
                   /\ draft'[t].links = draft[t].links \cup {<<s[1], Newcomer(t)>>}
                   /\ draft'[t].alerts = draft[t].alerts /\ draft'[t].incidents = draft[t].incidents
                \/ draft' = draft
    BY <1>1, <1>9, Joins
  <2>2. pc[t] = "settle"
    BY <1>9 DEF JoinOffense
  <2>3. /\ s[1] \in Txns /\ OffensesOf(t)[s[1]] \in Offense
        /\ RowOf(t, s[1], OffensesOf(t)[s[1]])
    BY <1>1, <2>1, SeenRows DEF RowOf, Typed, TableTypes, IsTable
  <2>4. AddsLink(t) \/ draft' = draft
    BY <2>1, <2>2, <2>3 DEF AddsLink
  <2>5. QED
    BY <2>4 DEF KeepsOffenses
<1>10. CASE LoadAlert(t)
  BY <1>1, <1>10 DEF LoadAlert, KeepsOffenses
<1>11. CASE WriteAlert(t)
  BY <1>1, <1>11, Titles DEF WriteAlert, KeepsOffenses
<1>12. CASE CheckHosts(t)
  BY <1>1, <1>12 DEF CheckHosts, KeepsOffenses
<1>13. CASE LoadOffense(t)
  BY <1>1, <1>13 DEF LoadOffense, KeepsOffenses
<1>14. CASE WriteOffense(t)
  <2>1. PICK row \in Offense :
             /\ draft'[t].offenses = Put(draft[t].offenses, target[t].id, row)
             /\ row.alerts = offenses[target[t].id].alerts /\ row.events = offenses[target[t].id].events
             /\ row.incident = offenses[target[t].id].incident
    BY <1>1, <1>14, Restates
  <2>2. /\ target[t].id \in DOMAIN offenses /\ draft[t] = NoDraft /\ ~Linking(t)
        /\ draft'[t].links = {} /\ draft'[t].incidents = {}
    BY <1>1, <1>14, Restates, NoDraftHas DEF RouteOf, Linking
  <2>3. QED
    BY <2>1, <2>2 DEF SetsStatus
<1>15. CASE Promote(t)
  <2>1. PICK o \in DOMAIN offenses :
             \/ draft' = draft
             \/ /\ offenses[o].incident = None
                /\ draft'[t].incidents = {[by |-> t, of |-> o, alerts |-> LinkedAlerts(o, links)]}
                /\ \E row \in Offense :
                     /\ draft'[t].offenses = Put(draft[t].offenses, o, row)
                     /\ row.alerts = offenses[o].alerts /\ row.events = offenses[o].events
                     /\ row.incident = t
    BY <1>1, <1>15, Promotes
  <2>2. draft[t] = NoDraft /\ ~Linking(t) /\ draft'[t].links = {}
    BY <1>1, <1>15, Promotes, NoDraftHas DEF RouteOf, Linking
  <2>3. MakesIncident(t) \/ draft' = draft
    BY <2>1, <2>2 DEF MakesIncident
  <2>4. QED
    BY <2>3 DEF KeepsOffenses
<1>16. QED
  BY <1>2, <1>3, <1>4, <1>5, <1>6, <1>7, <1>8, <1>9, <1>10, <1>11, <1>12, <1>13, <1>14, <1>15 DEF Statement

LEMMA StatementOpen ==
  ASSUME Settled, NEW t \in Txns, Statement(t)
  PROVE  OpenOf(t)'
<1>1. /\ Typed /\ OpenOf(t) /\ RouteOf(t) /\ kind' = kind /\ now' = now /\ offenses' = offenses
      /\ t \notin DOMAIN offenses
  BY StatementApart, StatementNotEnded, NotMine DEF Settled, Filed, Keyed, tables
<1>2. CASE KeepsOffenses(t)
  BY <1>1, <1>2 DEF KeepsOffenses, OpenOf, Linking
<1>3. CASE AddsLink(t)
  <2>1. PICK o \in Txns, row \in Offense :
             /\ RowOf(t, o, row) /\ row.status \in Grouping /\ pc[t] = "settle"
             /\ draft'[t].offenses = Put(draft[t].offenses, o, Linked(t, row))
    BY <1>3 DEF AddsLink
  <2>2. Linked(t, row).status = row.status /\ Linked(t, row).updated = now
    BY <1>1, LinkedIs
  <2>3. /\ DOMAIN draft'[t].offenses = DOMAIN draft[t].offenses \cup {o}
        /\ draft'[t].offenses[o] = Linked(t, row)
        /\ \A p \in DOMAIN draft[t].offenses \ {o} : draft'[t].offenses[p] = draft[t].offenses[p]
    BY <2>1 DEF Put
  <2>4. Linking(t)
    BY <1>1, <2>1 DEF RouteOf
  <2>5. o \in DOMAIN offenses => offenses[o].status \in Grouping
    BY <1>1, <2>1, <2>4 DEF RowOf, OpenOf
  <2>6. QED
    BY <1>1, <2>1, <2>2, <2>3, <2>4, <2>5 DEF OpenOf, Linking
<1>4. CASE SetsStatus(t) \/ MakesIncident(t)
  <2>1. ~Linking(t) /\ draft'[t].links = {}
    BY <1>4 DEF SetsStatus, MakesIncident
  <2>2. QED
    BY <1>1, <2>1 DEF OpenOf, Linking
<1>5. QED
  BY <1>2, <1>3, <1>4, StatementEffect

LEMMA StatementSeen ==
  ASSUME Settled, NEW t \in Txns, Statement(t)
  PROVE  SeenOf(t)'
<1>1. Typed /\ OpenOf(t) /\ RouteOf(t) /\ SeenOf(t) /\ now' = now /\ now \in Nat /\ TxnTypes
  BY StatementApart, TimeAssumption DEF Settled, Filed, Keyed, Typed, TableTypes, Times
<1>2. CASE StartDetection(t)
  <2>1. pc'[t] # "settle"
    BY <1>1, <1>2 DEF StartDetection, Goto, TxnTypes
  <2>2. QED
    BY <2>1 DEF SeenOf
<1>3. CASE EvaluateRule(t)
  <2>1. pc'[t] # "settle"
    BY <1>1, <1>3 DEF EvaluateRule, Goto, TxnTypes
  <2>2. QED
    BY <2>1 DEF SeenOf
<1>4. CASE EndDetection(t)
  <2>1. pc'[t] # "settle"
    BY <1>1, <1>4 DEF EndDetection, Goto, TxnTypes
  <2>2. QED
    BY <2>1 DEF SeenOf
<1>5. CASE InsertAlert(t)
  <2>1. pc'[t] # "settle"
    BY <1>1, <1>5, Inserts DEF AfterAlert
  <2>2. QED
    BY <2>1 DEF SeenOf
<1>6. CASE StartEvent(t)
  <2>1. pc'[t] # "settle"
    BY <1>1, <1>6 DEF StartEvent, Goto, TxnTypes
  <2>2. QED
    BY <2>1 DEF SeenOf
<1>7. CASE LookForOffense(t)
  <2>1. /\ pc[t] = "look" /\ draft' = draft
        /\ seen'[t] = {<<o, OffensesOf(t)[o].updated>> : o \in {p \in DOMAIN OffensesOf(t) :
            /\ OffensesOf(t)[p].status \in Grouping
            /\ OffensesOf(t)[p].updated >= now - OffenseWindow}}
    BY <1>1, <1>7 DEF LookForOffense, TxnTypes
  <2>2. ASSUME NEW o \in DOMAIN draft[t].offenses
        PROVE  <<o, now>> \in seen'[t]
    <3>1. o \in DOMAIN OffensesOf(t) /\ OffensesOf(t)[o] = draft[t].offenses[o]
      BY <1>1, SeenRows
    <3>2. OffensesOf(t)[o].status \in Grouping /\ OffensesOf(t)[o].updated = now
      BY <1>1, <2>1, <3>1 DEF OpenOf, RouteOf
    <3>3. now >= now - OffenseWindow
      BY <1>1, TimeAssumption
    <3>4. QED
      BY <2>1, <3>1, <3>2, <3>3
  <2>3. QED
    BY <1>1, <2>1, <2>2 DEF SeenOf
<1>8. CASE CreateOffense(t)
  <2>1. pc'[t] # "settle"
    BY <1>1, <1>8, Creates DEF AfterAlert
  <2>2. QED
    BY <2>1 DEF SeenOf
<1>9. CASE JoinOffense(t)
  <2>1. PICK s \in seen[t] :
             \/ pc'[t] = AfterAlert(t)
             \/ /\ OffensesOf(t)[s[1]].status \notin Grouping
                /\ seen'[t] = seen[t] \ {s} /\ pc' = pc /\ draft' = draft
    BY <1>1, <1>9, Joins
  <2>2. pc[t] = "settle"
    BY <1>9 DEF JoinOffense
  <2>3. CASE pc'[t] = AfterAlert(t)
    BY <2>3 DEF SeenOf, AfterAlert
  <2>4. CASE /\ OffensesOf(t)[s[1]].status \notin Grouping
             /\ seen'[t] = seen[t] \ {s} /\ pc' = pc /\ draft' = draft
    <3>1. ASSUME NEW o \in DOMAIN draft[t].offenses
          PROVE  <<o, now>> \in seen'[t]
      <4>1. OffensesOf(t)[o].status \in Grouping /\ <<o, now>> \in seen[t]
        <5>1. OffensesOf(t)[o] = draft[t].offenses[o]
          BY <1>1, SeenRows
        <5>2. QED
          BY <1>1, <2>2, <5>1 DEF OpenOf, RouteOf, SeenOf
      <4>2. s # <<o, now>>
        BY <2>4, <4>1
      <4>3. QED
        BY <2>4, <4>1, <4>2
    <3>2. QED
      BY <1>1, <2>4, <3>1 DEF SeenOf
  <2>5. QED
    BY <2>1, <2>3, <2>4
<1>10. CASE LoadAlert(t)
  <2>1. pc'[t] # "settle"
    BY <1>1, <1>10 DEF LoadAlert, Goto, TxnTypes
  <2>2. QED
    BY <2>1 DEF SeenOf
<1>11. CASE WriteAlert(t)
  <2>1. pc'[t] # "settle"
    BY <1>1, <1>11, Titles DEF AfterAlert
  <2>2. QED
    BY <2>1 DEF SeenOf
<1>12. CASE CheckHosts(t)
  <2>1. pc'[t] # "settle"
    BY <1>1, <1>12 DEF CheckHosts, Goto, TxnTypes
  <2>2. QED
    BY <2>1 DEF SeenOf
<1>13. CASE LoadOffense(t)
  <2>1. pc'[t] # "settle"
    BY <1>1, <1>13 DEF LoadOffense, Goto, TxnTypes
  <2>2. QED
    BY <2>1 DEF SeenOf
<1>14. CASE WriteOffense(t)
  <2>1. pc'[t] # "settle"
    BY <1>1, <1>14, Restates DEF AfterAlert
  <2>2. QED
    BY <2>1 DEF SeenOf
<1>15. CASE Promote(t)
  <2>1. pc'[t] # "settle"
    BY <1>1, <1>15, Promotes DEF AfterAlert
  <2>2. QED
    BY <2>1 DEF SeenOf
<1>16. QED
  BY <1>2, <1>3, <1>4, <1>5, <1>6, <1>7, <1>8, <1>9, <1>10, <1>11, <1>12, <1>13, <1>14, <1>15 DEF Statement

(* A link adds one to one count of one offense.                            *)
LEMMA LinkedFinite ==
  ASSUME NEW S, IsFiniteSet(S), NEW o
  PROVE  IsFiniteSet(LinkedAlerts(o, S)) /\ IsFiniteSet(LinkedEvents(o, S))
<1>1. IsFiniteSet({l[2] : l \in S})
  <2>1. DEFINE f == [l \in S |-> l[2]]
  <2>2. f \in Surjection(S, {l[2] : l \in S})
    BY DEF Surjection
  <2>3. QED
    BY <2>2, FS_Surjection
<1>2. LinkedAlerts(o, S) \subseteq {l[2] : l \in S}
  <2>1. ASSUME NEW a \in LinkedAlerts(o, S)
        PROVE  a \in {l[2] : l \in S}
    <3>1. <<o, a>> \in S /\ <<o, a>>[2] = a
      BY DEF LinkedAlerts
    <3>2. QED
      BY <3>1
  <2>2. QED
    BY <2>1
<1>3. LinkedEvents(o, S) \subseteq {l[2] : l \in S}
  <2>1. ASSUME NEW a \in LinkedEvents(o, S)
        PROVE  a \in {l[2] : l \in S}
    <3>1. <<o, a>> \in S /\ <<o, a>>[2] = a
      BY DEF LinkedEvents
    <3>2. QED
      BY <3>1
  <2>2. QED
    BY <2>1
<1>4. QED
  BY <1>1, <1>2, <1>3, FS_Subset

LEMMA CardAdd ==
  ASSUME NEW S, IsFiniteSet(S), NEW x, x \notin S
  PROVE  Cardinality(S \cup {x}) = Cardinality(S) + 1
BY FS_AddElement

LEMMA NewcomerIs ==
  ASSUME Typed, NEW t \in Txns
  PROVE  /\ kind[t] = "event" => Newcomer(t) \in EventIds /\ Newcomer(t) \notin AlertIds
         /\ kind[t] # "event" => Newcomer(t) \in AlertIds /\ Newcomer(t) \notin EventIds
<1>1. rule[t] \in Rules /\ rule[t] # "event"
  BY RulesAssumption DEF Typed, TxnTypes
<1>2. QED
  BY <1>1, RulesAssumption DEF Newcomer, EventIds, AlertIds

LEMMA AddedCounts ==
  ASSUME Typed, NEW t \in Txns, NEW o, NEW S, IsFiniteSet(S), <<o, Newcomer(t)>> \notin S, NEW row \in Offense,
         row.alerts = Cardinality(LinkedAlerts(o, S)), row.events = Cardinality(LinkedEvents(o, S))
  PROVE  /\ Linked(t, row).alerts = Cardinality(LinkedAlerts(o, S \cup {<<o, Newcomer(t)>>}))
         /\ Linked(t, row).events = Cardinality(LinkedEvents(o, S \cup {<<o, Newcomer(t)>>}))
<1>1. DEFINE n == Newcomer(t)
             more == S \cup {<<o, n>>}
<1>2. /\ kind[t] = "event" => n \in EventIds /\ n \notin AlertIds
      /\ kind[t] # "event" => n \in AlertIds /\ n \notin EventIds
  BY NewcomerIs
<1>3. /\ Linked(t, row).alerts = (IF kind[t] = "event" THEN row.alerts ELSE row.alerts + 1)
      /\ Linked(t, row).events = (IF kind[t] = "event" THEN row.events + 1 ELSE row.events)
  BY LinkedIs
<1>4. IsFiniteSet(LinkedAlerts(o, S)) /\ IsFiniteSet(LinkedEvents(o, S))
  BY LinkedFinite
<1> HIDE DEF n
<1>5. CASE kind[t] = "event"
  <2>1. LinkedAlerts(o, more) = LinkedAlerts(o, S) /\ LinkedEvents(o, more) = LinkedEvents(o, S) \cup {n}
    BY <1>2, <1>5 DEF LinkedAlerts, LinkedEvents
  <2>2. n \notin LinkedEvents(o, S)
    BY DEF LinkedEvents, n
  <2>3. Cardinality(LinkedEvents(o, S) \cup {n}) = Cardinality(LinkedEvents(o, S)) + 1
    BY <1>4, <2>2, CardAdd
  <2>4. QED
    BY <1>3, <1>5, <2>1, <2>3 DEF n
<1>6. CASE kind[t] # "event"
  <2>1. LinkedEvents(o, more) = LinkedEvents(o, S) /\ LinkedAlerts(o, more) = LinkedAlerts(o, S) \cup {n}
    BY <1>2, <1>6 DEF LinkedAlerts, LinkedEvents
  <2>2. n \notin LinkedAlerts(o, S)
    BY DEF LinkedAlerts, n
  <2>3. Cardinality(LinkedAlerts(o, S) \cup {n}) = Cardinality(LinkedAlerts(o, S)) + 1
    BY <1>4, <2>2, CardAdd
  <2>4. QED
    BY <1>3, <1>6, <2>1, <2>3 DEF n
<1>7. QED
  BY <1>5, <1>6

(* Nobody else's link changes the count of an offense.                     *)
LEMMA SameCounts ==
  ASSUME NEW o, NEW S, NEW more, \A l \in more : l[1] # o
  PROVE  /\ LinkedAlerts(o, S \cup more) = LinkedAlerts(o, S)
         /\ LinkedEvents(o, S \cup more) = LinkedEvents(o, S)
<1>1. \A a : <<o, a>> \notin more
  <2>1. ASSUME NEW a, <<o, a>> \in more
        PROVE  FALSE
    <3>1. <<o, a>>[1] = o
      OBVIOUS
    <3>2. QED
      BY <2>1, <3>1
  <2>2. QED
    BY <2>1
<1>2. QED
  BY <1>1 DEF LinkedAlerts, LinkedEvents

(* Newcomers have no link yet, and a new offense has none.                 *)
LEMMA RowCounts ==
  ASSUME Settled, NEW t \in Txns, NEW o, NEW row, RowOf(t, o, row)
  PROVE  /\ row.alerts = Cardinality(LinkedAlerts(o, links \cup draft[t].links))
         /\ row.events = Cardinality(LinkedEvents(o, links \cup draft[t].links))
<1>1. /\ Typed /\ CountsOf(t) /\ CountsMatchLinks
      /\ \A l \in draft[t].links : l[1] \in DOMAIN draft[t].offenses
      /\ \A l \in links : l[1] \in DOMAIN offenses
  BY DEF Settled, Filed, Keyed, LinksOf, OldLinks
<1>2. CASE o \in DOMAIN draft[t].offenses
  BY <1>1, <1>2 DEF RowOf, CountsOf
<1>3. CASE o \in DOMAIN offenses \ DOMAIN draft[t].offenses
  <2>1. /\ LinkedAlerts(o, links \cup draft[t].links) = LinkedAlerts(o, links)
        /\ LinkedEvents(o, links \cup draft[t].links) = LinkedEvents(o, links)
    <3>1. \A l \in draft[t].links : l[1] # o
      BY <1>1, <1>3
    <3>2. QED
      BY <3>1, SameCounts
  <2>2. /\ offenses[o].alerts = Cardinality(LinkedAlerts(o, links))
        /\ offenses[o].events = Cardinality(LinkedEvents(o, links))
    BY <1>1, <1>3 DEF CountsMatchLinks, LinkedAlerts, LinkedEvents
  <2>3. QED
    BY <1>3, <2>1, <2>2 DEF RowOf
<1>4. CASE o \notin DOMAIN draft[t].offenses \cup DOMAIN offenses
  <2>1. \A l \in links \cup draft[t].links : l[1] # o
    BY <1>1, <1>4
  <2>2. /\ LinkedAlerts(o, links \cup draft[t].links) = {}
        /\ LinkedEvents(o, links \cup draft[t].links) = {}
    <3>1. /\ LinkedAlerts(o, {} \cup (links \cup draft[t].links)) = LinkedAlerts(o, {})
          /\ LinkedEvents(o, {} \cup (links \cup draft[t].links)) = LinkedEvents(o, {})
      BY <2>1, SameCounts
    <3>2. {} \cup (links \cup draft[t].links) = links \cup draft[t].links
      OBVIOUS
    <3>3. LinkedAlerts(o, {}) = {} /\ LinkedEvents(o, {}) = {}
      BY DEF LinkedAlerts, LinkedEvents
    <3>4. QED
      BY <3>1, <3>2, <3>3
  <2>3. row.alerts = 0 /\ row.events = 0
    BY <1>1, <1>4, NewOffenseIs DEF RowOf
  <2>4. Cardinality({}) = 0
    BY FS_EmptySet
  <2>5. QED
    BY <2>2, <2>3, <2>4
<1>5. QED
  BY <1>2, <1>3, <1>4

LEMMA StatementCounts ==
  ASSUME Settled, NEW t \in Txns, Statement(t)
  PROVE  CountsOf(t)' /\ IsFiniteSet(draft'[t].links)
<1>1. /\ Typed /\ Filed /\ CountsOf(t) /\ RouteOf(t) /\ LinksOf(t) /\ links' = links /\ IsFiniteSet(links)
      /\ IsFiniteSet(draft[t].links) /\ pc[t] \notin Ended
  BY StatementApart, StatementNotEnded DEF Settled, Finite, Filed, Keyed, tables
<1>2. CASE KeepsOffenses(t)
  BY <1>1, <1>2 DEF KeepsOffenses, CountsOf
<1>3. CASE AddsLink(t)
  <2>1. PICK o \in Txns, row \in Offense :
             /\ RowOf(t, o, row) /\ pc[t] = "settle"
             /\ draft'[t].offenses = Put(draft[t].offenses, o, Linked(t, row))
             /\ draft'[t].links = draft[t].links \cup {<<o, Newcomer(t)>>}
    BY <1>3 DEF AddsLink
  <2>2. DEFINE k == <<o, Newcomer(t)>>
               S == links \cup draft[t].links
  <2>3. k \notin S
    <3>1. k[2] = Newcomer(t) /\ k[2][1] = t
      BY DEF Newcomer
    <3>2. k \notin draft[t].links
      BY <1>1, <2>1, <3>1 DEF LinksOf, NotYet
    <3>3. k \notin links
      BY <1>1, <3>1 DEF Filed, OldLinks
    <3>4. QED
      BY <3>2, <3>3
  <2>4. IsFiniteSet(S) /\ IsFiniteSet(draft'[t].links)
    BY <1>1, <2>1, FS_Union, FS_AddElement
  <2>5. row.alerts = Cardinality(LinkedAlerts(o, S)) /\ row.events = Cardinality(LinkedEvents(o, S))
    BY <2>1, RowCounts
  <2>6. /\ Linked(t, row).alerts = Cardinality(LinkedAlerts(o, S \cup {k}))
        /\ Linked(t, row).events = Cardinality(LinkedEvents(o, S \cup {k}))
    BY <1>1, <2>3, <2>4, <2>5, AddedCounts
  <2>7. links' \cup draft'[t].links = S \cup {k}
    BY <1>1, <2>1
  <2>8. /\ DOMAIN draft'[t].offenses = DOMAIN draft[t].offenses \cup {o}
        /\ draft'[t].offenses[o] = Linked(t, row)
        /\ \A p \in DOMAIN draft[t].offenses \ {o} : draft'[t].offenses[p] = draft[t].offenses[p]
    BY <2>1 DEF Put
  <2>9. \A l \in {k} : l[1] = o
    OBVIOUS
  <2> HIDE DEF k, S
  <2>10. ASSUME NEW p \in DOMAIN draft'[t].offenses
         PROVE  /\ draft'[t].offenses[p].alerts = Cardinality(LinkedAlerts(p, S \cup {k}))
                /\ draft'[t].offenses[p].events = Cardinality(LinkedEvents(p, S \cup {k}))
    <3>1. CASE p = o
      BY <2>6, <2>8, <3>1
    <3>2. CASE p # o
      <4>1. LinkedAlerts(p, S \cup {k}) = LinkedAlerts(p, S) /\ LinkedEvents(p, S \cup {k}) = LinkedEvents(p, S)
        BY <2>9, <3>2, SameCounts
      <4>2. /\ draft[t].offenses[p].alerts = Cardinality(LinkedAlerts(p, S))
            /\ draft[t].offenses[p].events = Cardinality(LinkedEvents(p, S))
        BY <1>1, <2>8, <2>10, <3>2 DEF CountsOf, S
      <4>3. QED
        BY <2>8, <2>10, <3>2, <4>1, <4>2
    <3>3. QED
      BY <3>1, <3>2
  <2>11. CountsOf(t)'
    BY <2>7, <2>10 DEF CountsOf
  <2>12. QED
    BY <2>4, <2>11
<1>4. CASE SetsStatus(t) \/ MakesIncident(t)
  <2>1. PICK o \in DOMAIN offenses, row \in Offense :
             /\ draft[t] = NoDraft /\ draft'[t].links = {}
             /\ draft'[t].offenses = Put(draft[t].offenses, o, row)
             /\ row.alerts = offenses[o].alerts /\ row.events = offenses[o].events
    BY <1>4 DEF SetsStatus, MakesIncident
  <2>2. DOMAIN draft'[t].offenses = {o} /\ draft'[t].offenses[o] = row
    BY <2>1, NoDraftHas DEF Put
  <2>3. /\ row.alerts = Cardinality(LinkedAlerts(o, links))
        /\ row.events = Cardinality(LinkedEvents(o, links))
    BY <2>1 DEF Settled, CountsMatchLinks, LinkedAlerts, LinkedEvents
  <2>4. links' \cup draft'[t].links = links
    BY <1>1, <2>1
  <2>5. CountsOf(t)'
    BY <2>2, <2>3, <2>4 DEF CountsOf
  <2>6. QED
    BY <2>1, <2>5, FS_EmptySet
<1>5. QED
  BY <1>2, <1>3, <1>4, StatementEffect

LEMMA StatementIncidents ==
  ASSUME Settled, NEW t \in Txns, Statement(t)
  PROVE  IncidentsOf(t)'
<1>1. /\ Typed /\ IncidentsOf(t) /\ PromotedOnce /\ OldIncidents /\ incidents \subseteq Incident
      /\ links' = links /\ incidents' = incidents /\ offenses' = offenses /\ t \notin DOMAIN offenses
  BY StatementApart, StatementNotEnded, NotMine DEF Settled, Filed, Keyed, Typed, TableTypes, tables
<1>2. CASE KeepsOffenses(t)
  BY <1>1, <1>2 DEF KeepsOffenses, IncidentsOf
<1>3. CASE AddsLink(t)
  <2>1. PICK o \in Txns, row \in Offense :
             /\ RowOf(t, o, row)
             /\ draft'[t].offenses = Put(draft[t].offenses, o, Linked(t, row))
             /\ draft'[t].incidents = draft[t].incidents
    BY <1>3 DEF AddsLink
  <2>2. Linked(t, row).incident = row.incident
    BY <1>1, LinkedIs
  <2>3. /\ DOMAIN draft'[t].offenses = DOMAIN draft[t].offenses \cup {o}
        /\ draft'[t].offenses[o].incident = row.incident
        /\ \A p \in DOMAIN draft[t].offenses \ {o} : draft'[t].offenses[p] = draft[t].offenses[p]
    BY <2>1, <2>2 DEF Put
  <2>4. ASSUME NEW i \in incidents, i.of \in DOMAIN draft'[t].offenses
        PROVE  draft'[t].offenses[i.of].incident = i.by
    <3>1. i.of \in DOMAIN offenses /\ offenses[i.of].incident = i.by
      BY <1>1 DEF OldIncidents, PromotedOnce
    <3>2. CASE i.of \in DOMAIN draft[t].offenses
      BY <1>1, <2>1, <2>3, <3>2 DEF IncidentsOf, RowOf
    <3>3. CASE i.of \notin DOMAIN draft[t].offenses
      BY <2>1, <2>3, <2>4, <3>1, <3>3 DEF RowOf
    <3>4. QED
      BY <3>2, <3>3
  <2>5. ASSUME NEW i \in draft[t].incidents
        PROVE  /\ i.of \in DOMAIN draft'[t].offenses \cap DOMAIN offenses
               /\ draft'[t].offenses[i.of].incident = t
    BY <1>1, <2>1, <2>3 DEF IncidentsOf, RowOf
  <2>6. QED
    BY <1>1, <2>1, <2>4, <2>5 DEF IncidentsOf
<1>4. CASE SetsStatus(t)
  <2>1. PICK o \in DOMAIN offenses, row \in Offense :
             /\ draft[t] = NoDraft /\ draft'[t].incidents = {}
             /\ draft'[t].offenses = Put(draft[t].offenses, o, row)
             /\ row.incident = offenses[o].incident
    BY <1>4 DEF SetsStatus
  <2>2. DOMAIN draft'[t].offenses = {o} /\ draft'[t].offenses[o] = row
    BY <2>1, NoDraftHas DEF Put
  <2>3. QED
    BY <1>1, <2>1, <2>2 DEF IncidentsOf, PromotedOnce
<1>5. CASE MakesIncident(t)
  <2>1. PICK o \in DOMAIN offenses, row \in Offense :
             /\ draft[t] = NoDraft
             /\ draft'[t].offenses = Put(draft[t].offenses, o, row)
             /\ draft'[t].incidents = {[by |-> t, of |-> o, alerts |-> LinkedAlerts(o, links)]}
             /\ offenses[o].incident = None /\ row.incident = t
    BY <1>5 DEF MakesIncident
  <2>2. DOMAIN draft'[t].offenses = {o} /\ draft'[t].offenses[o] = row
    BY <2>1, NoDraftHas DEF Put
  <2>3. \A i \in incidents : i.of # o
    <3>1. \A i \in incidents : i.by \in Txns /\ i.by # None
      BY <1>1, TimeAssumption DEF Incident
    <3>2. QED
      BY <1>1, <2>1, <3>1 DEF PromotedOnce
  <2>4. ASSUME NEW i \in draft'[t].incidents
        PROVE  /\ i.by = t /\ i.of = o /\ \A a \in i.alerts : <<o, a>> \in links
               /\ \A j \in draft'[t].incidents : i = j
    BY <2>1 DEF LinkedAlerts
  <2>5. QED
    BY <1>1, <2>1, <2>2, <2>3, <2>4 DEF IncidentsOf
<1>6. QED
  BY <1>2, <1>3, <1>4, <1>5, StatementEffect

OfferingOf(t) == OpenOf(t) /\ SeenOf(t) /\ CountsOf(t) /\ IncidentsOf(t)

LEMMA NothingOffered ==
  ASSUME NEW t \in Txns, draft'[t] = NoDraft, pc'[t] # "settle"
  PROVE  OfferingOf(t)' /\ IsFiniteSet(draft'[t].links)
BY NoDraftHas, FS_EmptySet DEF OfferingOf, OpenOf, SeenOf, CountsOf, IncidentsOf

LEMMA OthersOffered ==
  ASSUME Settled, NEW t \in Txns, Apart(t), UNCHANGED <<tables, kind, now>>, NEW u \in Txns \ {t}
  PROVE  OfferingOf(u)' /\ IsFiniteSet(draft'[u].links)
<1>1. /\ draft'[u] = draft[u] /\ pc'[u] = pc[u] /\ seen'[u] = seen[u] /\ IsFiniteSet(draft[u].links)
      /\ OpenOf(u) /\ SeenOf(u) /\ CountsOf(u) /\ IncidentsOf(u)
      /\ offenses' = offenses /\ links' = links /\ incidents' = incidents /\ kind' = kind /\ now' = now
  BY DEF Settled, Finite, Apart, tables
<1>2. OpenOf(u)'
  BY <1>1 DEF OpenOf, Linking
<1>3. SeenOf(u)'
  BY <1>1 DEF SeenOf
<1>4. CountsOf(u)'
  BY <1>1 DEF CountsOf
<1>5. IncidentsOf(u)'
  BY <1>1 DEF IncidentsOf
<1>6. QED
  BY <1>1, <1>2, <1>3, <1>4, <1>5 DEF OfferingOf

LEMMA QuietSettled ==
  ASSUME Settled, Filed', NEW t \in Txns, Apart(t), UNCHANGED <<tables, kind, now>>,
         OfferingOf(t)', IsFiniteSet(draft'[t].links)
  PROVE  Settled'
<1>1. ASSUME NEW u \in Txns
      PROVE  OpenOf(u)' /\ SeenOf(u)' /\ CountsOf(u)' /\ IncidentsOf(u)' /\ IsFiniteSet(draft'[u].links)
  BY OthersOffered DEF OfferingOf
<1>2. CountsMatchLinks' /\ PromotedOnce' /\ OldIncidents' /\ IsFiniteSet(links')
  BY DEF Settled, Finite, CountsMatchLinks, PromotedOnce, OldIncidents, tables
<1>3. QED
  BY <1>1, <1>2 DEF Settled, Finite

LEMMA CommitOthers ==
  ASSUME Settled, NEW t \in Txns, Commit(t), NEW u \in Txns \ {t}
  PROVE  OfferingOf(u)'
<1>1. /\ Typed /\ Filed /\ LinksOf(t) /\ IncidentsOf(t) /\ OpenOf(u) /\ SeenOf(u) /\ CountsOf(u) /\ IncidentsOf(u)
      /\ DOMAIN draft[t].offenses \cap DOMAIN draft[u].offenses = {}
  BY DEF Settled, Filed, Keyed, Exclusive
<1>2. /\ draft'[u] = draft[u] /\ pc'[u] = pc[u] /\ seen'[u] = seen[u] /\ kind' = kind /\ now' = now
  BY <1>1, CommitApart DEF Apart
<1>3. /\ DOMAIN offenses' = DOMAIN draft[t].offenses \cup DOMAIN offenses
      /\ \A o \in DOMAIN offenses \ DOMAIN draft[t].offenses : offenses'[o] = offenses[o]
      /\ links' = links \cup draft[t].links /\ incidents' = incidents \cup draft[t].incidents
  BY <1>1, CommitTables
<1>4. OpenOf(u)'
  BY <1>1, <1>2, <1>3 DEF OpenOf, Linking
<1>5. SeenOf(u)'
  BY <1>1, <1>2 DEF SeenOf
<1>6. CountsOf(u)'
  <2>1. ASSUME NEW o \in DOMAIN draft[u].offenses
        PROVE  /\ LinkedAlerts(o, links' \cup draft[u].links) = LinkedAlerts(o, links \cup draft[u].links)
               /\ LinkedEvents(o, links' \cup draft[u].links) = LinkedEvents(o, links \cup draft[u].links)
    <3>1. \A l \in draft[t].links : l[1] # o
      BY <1>1 DEF LinksOf
    <3>2. DEFINE S == links \cup draft[u].links
    <3>3. links' \cup draft[u].links = S \cup draft[t].links
      BY <1>3
    <3> HIDE DEF S
    <3>4. LinkedAlerts(o, S \cup draft[t].links) = LinkedAlerts(o, S)
      BY <3>1, SameCounts
    <3>5. LinkedEvents(o, S \cup draft[t].links) = LinkedEvents(o, S)
      BY <3>1, SameCounts
    <3>6. QED
      BY <3>3, <3>4, <3>5 DEF S
  <2>2. QED
    BY <1>1, <1>2, <2>1 DEF CountsOf
<1>7. IncidentsOf(u)'
  <2>1. ASSUME NEW i \in incidents', i.of \in DOMAIN draft[u].offenses
        PROVE  draft[u].offenses[i.of].incident = i.by
    BY <1>1, <1>3, <2>1 DEF IncidentsOf
  <2>2. ASSUME NEW i \in draft[u].incidents
        PROVE  /\ i.of \in DOMAIN offenses' /\ offenses'[i.of].incident = None
               /\ \A a \in i.alerts : <<i.of, a>> \in links'
    <3>1. i.of \in DOMAIN draft[u].offenses \cap DOMAIN offenses /\ offenses[i.of].incident = None
      BY <1>1 DEF IncidentsOf
    <3>2. \A a \in i.alerts : <<i.of, a>> \in links
      BY <1>1 DEF IncidentsOf
    <3>3. offenses'[i.of] = offenses[i.of]
      BY <1>1, <1>3, <3>1
    <3>4. QED
      BY <1>3, <3>1, <3>2, <3>3
  <2>3. QED
    BY <1>1, <1>2, <2>1, <2>2 DEF IncidentsOf
<1>8. QED
  BY <1>4, <1>5, <1>6, <1>7 DEF OfferingOf

LEMMA CommitSettled ==
  ASSUME Settled, Filed', NEW t \in Txns, Commit(t)
  PROVE  Settled'
<1>1. /\ Typed /\ Filed /\ LinksOf(t) /\ IncidentsOf(t) /\ CountsOf(t) /\ PromotedOnce /\ OldIncidents
      /\ CountsMatchLinks /\ IsFiniteSet(links) /\ IsFiniteSet(draft[t].links) /\ incidents \subseteq Incident
  BY DEF Settled, Finite, Filed, Keyed, Typed, TableTypes
<1>2. /\ Apart(t) /\ draft'[t] = NoDraft /\ pc'[t] # "settle"
  BY <1>1, CommitApart
<1>3. /\ DOMAIN offenses' = DOMAIN draft[t].offenses \cup DOMAIN offenses
      /\ \A o \in DOMAIN draft[t].offenses : offenses'[o] = draft[t].offenses[o]
      /\ \A o \in DOMAIN offenses \ DOMAIN draft[t].offenses : offenses'[o] = offenses[o]
      /\ links' = links \cup draft[t].links /\ incidents' = incidents \cup draft[t].incidents
  BY <1>1, CommitTables
<1>4. \A u \in Txns : OfferingOf(u)'
  BY <1>2, NothingOffered, CommitOthers
<1>5. Finite'
  <2>1. IsFiniteSet(links')
    BY <1>1, <1>3, FS_Union
  <2>2. \A u \in Txns : IsFiniteSet(draft'[u].links)
    BY <1>2, NoDraftHas, FS_EmptySet DEF Apart, Settled, Finite
  <2>3. QED
    BY <2>1, <2>2 DEF Finite
<1>6. CountsMatchLinks'
  <2>1. ASSUME NEW o \in DOMAIN offenses'
        PROVE  /\ offenses'[o].alerts = Cardinality(LinkedAlerts(o, links'))
               /\ offenses'[o].events = Cardinality(LinkedEvents(o, links'))
    <3>1. CASE o \in DOMAIN draft[t].offenses
      BY <1>1, <1>3, <3>1 DEF CountsOf
    <3>2. CASE o \notin DOMAIN draft[t].offenses
      <4>1. \A l \in draft[t].links : l[1] # o
        BY <1>1, <3>2 DEF LinksOf
      <4>2. LinkedAlerts(o, links') = LinkedAlerts(o, links) /\ LinkedEvents(o, links') = LinkedEvents(o, links)
        BY <1>3, <4>1, SameCounts
      <4>3. /\ offenses[o].alerts = Cardinality(LinkedAlerts(o, links))
            /\ offenses[o].events = Cardinality(LinkedEvents(o, links))
        BY <1>1, <1>3, <3>2 DEF CountsMatchLinks, LinkedAlerts, LinkedEvents
      <4>4. QED
        BY <1>3, <3>2, <4>2, <4>3
    <3>3. QED
      BY <3>1, <3>2
  <2>2. QED
    BY <2>1 DEF CountsMatchLinks, LinkedAlerts, LinkedEvents
<1>7. ASSUME NEW i \in incidents'
      PROVE  /\ i.of \in DOMAIN offenses' /\ offenses'[i.of].incident = i.by
             /\ \A a \in i.alerts : <<i.of, a>> \in links'
  <2>1. CASE i \in incidents
    <3>1. i.of \in DOMAIN offenses /\ offenses[i.of].incident = i.by /\ \A a \in i.alerts : <<i.of, a>> \in links
      BY <1>1, <2>1 DEF PromotedOnce, OldIncidents
    <3>2. i.of \in DOMAIN draft[t].offenses => draft[t].offenses[i.of].incident = i.by
      BY <1>1, <2>1 DEF IncidentsOf
    <3>3. QED
      BY <1>3, <3>1, <3>2
  <2>2. CASE i \in draft[t].incidents
    BY <1>1, <1>3, <2>2 DEF IncidentsOf
  <2>3. QED
    BY <1>3, <2>1, <2>2
<1>8. ASSUME NEW i \in incidents, NEW j \in draft[t].incidents
      PROVE  i.of # j.of
  <2>1. i.by # None /\ offenses[i.of].incident = i.by
    BY <1>1, TimeAssumption DEF Incident, PromotedOnce
  <2>2. offenses[j.of].incident = None
    BY <1>1 DEF IncidentsOf
  <2>3. QED
    BY <2>1, <2>2
<1>9. \A i, j \in incidents' : i.of = j.of => i = j
  BY <1>1, <1>3, <1>8 DEF PromotedOnce, IncidentsOf
<1>10. PromotedOnce' /\ OldIncidents'
  BY <1>7, <1>9 DEF PromotedOnce, OldIncidents
<1>11. QED
  BY <1>4, <1>5, <1>6, <1>10 DEF Settled, OfferingOf

LEMMA SettledStep ==
  ASSUME Settled, [Next]_vars
  PROVE  Settled'
<1>1. Filed /\ Keyed /\ Typed /\ Filed'
  BY FiledStep DEF Settled, Filed, Keyed
<1>2. CASE UNCHANGED vars \/ Tick
  <2>1. UNCHANGED <<tables, kind, draft, pc, seen>>
    BY <1>2 DEF vars, Tick, tables
  <2>2. CountsMatchLinks' /\ PromotedOnce' /\ OldIncidents' /\ Finite'
    BY <2>1 DEF Settled, Finite, CountsMatchLinks, PromotedOnce, OldIncidents, tables
  <2>3. ASSUME NEW u \in Txns
        PROVE  OpenOf(u)' /\ SeenOf(u)' /\ CountsOf(u)' /\ IncidentsOf(u)'
    <3>1. OpenOf(u) /\ SeenOf(u) /\ CountsOf(u) /\ IncidentsOf(u)
      BY DEF Settled
    <3>2. CountsOf(u)' /\ IncidentsOf(u)'
      BY <2>1, <3>1 DEF CountsOf, IncidentsOf, tables
    <3>3. CASE UNCHANGED vars
      <4>1. UNCHANGED <<draft, kind, offenses, now, pc, seen>>
        BY <3>3 DEF vars
      <4>2. OpenOf(u)'
        BY <3>1, <4>1 DEF OpenOf, Linking
      <4>3. SeenOf(u)'
        BY <3>1, <4>1 DEF SeenOf
      <4>4. QED
        BY <3>2, <4>2, <4>3
    <3>4. CASE Tick
      <4>1. pc[u] \in Ended \cup {"new"} /\ pc[u] \in Places
        BY <1>1, <3>4 DEF Tick, InTransaction, Ended, Typed, TxnTypes
      <4>2. draft'[u] = NoDraft /\ pc'[u] # "settle"
        BY <1>1, <2>1, <4>1 DEF Keyed, RouteOf, Ended
      <4>3. QED
        BY <3>2, <4>2, NoDraftHas DEF OpenOf, SeenOf
    <3>5. QED
      BY <1>2, <3>2, <3>3, <3>4
  <2>4. QED
    BY <1>1, <2>2, <2>3 DEF Settled
<1>3. ASSUME NEW t \in Txns, Statement(t)
      PROVE  Settled'
  <2>1. Apart(t) /\ UNCHANGED <<tables, kind, now>>
    BY <1>1, <1>3, StatementApart
  <2>2. OfferingOf(t)' /\ IsFiniteSet(draft'[t].links)
    BY <1>3, StatementOpen, StatementSeen, StatementCounts, StatementIncidents DEF OfferingOf
  <2>3. QED
    BY <1>1, <2>1, <2>2, QuietSettled
<1>4. ASSUME NEW t \in Txns, Undone(t)
      PROVE  Settled'
  <2>1. /\ Apart(t) /\ UNCHANGED <<tables, kind, now>> /\ draft'[t] = NoDraft /\ pc'[t] # "settle"
    BY <1>1, <1>4, UndoneApart
  <2>2. QED
    BY <1>1, <2>1, NothingOffered, QuietSettled
<1>5. ASSUME NEW t \in Txns, EndHooks(t)
      PROVE  Settled'
  <2>1. /\ Apart(t) /\ UNCHANGED <<tables, kind, now, draft>> /\ pc[t] \in Ended /\ pc'[t] # "settle"
    BY <1>1, <1>5, HooksApart DEF Ended
  <2>2. draft'[t] = NoDraft
    BY <1>1, <2>1 DEF Keyed, RouteOf
  <2>3. QED
    BY <1>1, <2>1, <2>2, NothingOffered, QuietSettled
<1>6. QED
  BY <1>1, <1>2, <1>3, <1>4, <1>5, Steps, CommitSettled

LEMMA InitSettled == Init => Settled
<1>1. ASSUME Init
      PROVE  /\ Filed /\ links = {} /\ incidents = {} /\ DOMAIN offenses = {}
             /\ \A t \in Txns : draft[t] = NoDraft /\ pc[t] = "new"
  BY <1>1, InitFiled, NoRowsIs DEF Init
<1>2. QED
  BY <1>1, NoDraftHas, FS_EmptySet
     DEF Settled, Finite, CountsMatchLinks, PromotedOnce, OldIncidents, OpenOf, SeenOf, CountsOf, IncidentsOf

(* alert_count and event_count of every offense are the numbers of alerts  *)
(* and events linked to it, although each transaction writes the value it  *)
(* read plus one (services/offense_engine.py link_alert_to_offense).       *)
THEOREM CountsAreRight == Spec => []CountsMatchLinks
<1>1. Settled => CountsMatchLinks
  BY DEF Settled
<1>2. QED
  BY <1>1, InitSettled, SettledStep, PTL DEF Spec

(* However many analysts promote an offense at the same time, it gets one  *)
(* incident, it says which, and the incident has alerts of the offense     *)
(* only (services/incident_promotion.py).                                  *)
THEOREM OneIncident == Spec => []PromotedOnce
<1>1. Settled => PromotedOnce
  BY DEF Settled
<1>2. QED
  BY <1>1, InitSettled, SettledStep, PTL DEF Spec

LEMMA StepTakesNoLinks ==
  ASSUME Settled, [Next]_vars
  PROVE  \A o \in DOMAIN offenses : offenses[o].status = "closed" =>
           \A l \in links' \ links : l[1] # o
<1>1. Typed
  BY DEF Settled, Filed, Keyed
<1>2. CASE UNCHANGED links
  BY <1>2
<1>3. ASSUME NEW t \in Txns, Commit(t), NEW o \in DOMAIN offenses, offenses[o].status = "closed",
             NEW l \in links' \ links
      PROVE  l[1] # o
  <2>1. l \in draft[t].links /\ OpenOf(t) /\ LinksOf(t)
    BY <1>1, <1>3, CommitTables DEF Settled, Filed
  <2>2. l[1] \in DOMAIN draft[t].offenses /\ Linking(t)
    BY <2>1 DEF LinksOf, OpenOf
  <2>3. QED
    BY <1>3, <2>1, <2>2 DEF OpenOf, Grouping
<1>4. UNCHANGED links \/ \E t \in Txns : Commit(t)
  BY <1>1, Steps, StatementApart, UndoneApart, HooksApart DEF vars, Tick, tables
<1>5. QED
  BY <1>2, <1>3, <1>4

(* An offense that is closed when a transaction commits gets none of its   *)
(* alerts or events: what was found open is locked and looked at again     *)
(* (services/offense_engine.py find_or_create_offense).                    *)
THEOREM ClosedStayClosed == Spec => ClosedTakesNoLinks
<1>1. Settled /\ [Next]_vars =>
        [\A o \in DOMAIN offenses : offenses[o].status = "closed" =>
           \A l \in links' \ links : l[1] # o]_vars
  BY StepTakesNoLinks
<1>2. QED
  BY <1>1, InitSettled, SettledStep, PTL DEF Spec, ClosedTakesNoLinks

=============================================================================
