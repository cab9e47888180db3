--------------------------- MODULE AuditChainProofs ---------------------------
(* The audit log is one chain, for any number of requests and entries, if  *)
(* a transaction calls log_audit once - as every handler of the code does. *)
(* What makes it inductive: only the holder of the lock is between nextval *)
(* and its commit, so the head it read is still the head.                  *)
EXTENDS AuditChain, FiniteSetTheorems, TLAPS

Holding == {"locked", "numbered", "logged", "flushed"}

OnlyHolder == \A t \in Requests : pc[t] \in Holding => lock = t

Numbered == \A e \in table : e.seq # Genesis /\ e.seq < nextSeq

Drawn ==
  \A t \in Requests :
    pc[t] \in {"numbered", "logged", "flushed"} =>
      seq[t] \in Nat \ {Genesis} /\ seq[t] < nextSeq /\ \A e \in table : e.seq < seq[t]

IsNext(e, t) ==
  /\ e.seq = seq[t] /\ e.address = Inet[e.hashed]
  /\ IsHead(e.prev, table)

PendingIsNext ==
  \A t \in Requests :
    IF pc[t] \in {"logged", "flushed"}
    THEN \E e \in Entry : pending[t] = {e} /\ IsNext(e, t)
    ELSE pending[t] = {}

(* The numbers name the entries, and their columns spell the addresses.    *)
Recorded ==
  /\ \A d, e \in table : d.seq = e.seq => d = e
  /\ \A e \in table : e.address = Inet[e.hashed]

IInv == TypeOK /\ OnlyHolder /\ Numbered /\ Drawn /\ PendingIsNext /\ ChainLinear /\ Recorded

(* The entry that log_audit makes.                                         *)
LEMMA NewEntryIs ==
  ASSUME NEW t \in Requests, seq[t] \in Nat, NEW h \in Nat, NEW a \in Addresses
  PROVE  /\ NewEntry(t, h, a) \in Entry
         /\ NewEntry(t, h, a).seq = seq[t] /\ NewEntry(t, h, a).prev = h
         /\ NewEntry(t, h, a).address = Inet[NewEntry(t, h, a).hashed]
<1>1. Inet[a] \in Addresses
  BY InetAssumption
<1>2. QED
  BY <1>1 DEF NewEntry, Entry

(* TypeOK holds of every behaviour of the audit log.                       *)
LEMMA TypeStep == TypeOK /\ [Next]_vars => TypeOK'
<1> SUFFICES ASSUME TypeOK, [Next]_vars PROVE TypeOK'
  OBVIOUS
<1> USE NoneAssumption, CheckAssumption
<1>a. NoReport \in Report
  BY Zenon DEF NoReport, Report
<1>b. NoWindow \in Window
  BY DEF NoWindow, Window
<1>1. CASE UNCHANGED vars
  BY <1>1 DEF TypeOK, vars
<1>2. ASSUME NEW t \in Requests, Begin(t) PROVE TypeOK'
  BY <1>2 DEF TypeOK, Begin, Goto, Kinds, Places
<1>3. ASSUME NEW t \in Requests, FlushRowFirst(t) PROVE TypeOK'
  BY <1>3 DEF TypeOK, FlushRowFirst, Goto, Places
<1>4. ASSUME NEW t \in Requests, Lock(t) PROVE TypeOK'
  BY <1>4 DEF TypeOK, Lock, Goto, Places
<1>5. ASSUME NEW t \in Requests, NextVal(t) PROVE TypeOK'
  BY <1>5 DEF TypeOK, NextVal, Goto, Places
<1>6. ASSUME NEW t \in Requests, AddEntry(t) PROVE TypeOK'
  <2>1. PICK h \in {Genesis} \cup {e.seq : e \in table}, a \in Addresses :
          pending' = [pending EXCEPT ![t] = @ \cup {NewEntry(t, h, a)}]
    BY <1>6 DEF AddEntry
  <2>2. h \in Nat /\ seq[t] \in Nat
    BY DEF TypeOK, Entry, Genesis
  <2>3. NewEntry(t, h, a) \in Entry
    BY <2>2, NewEntryIs
  <2>4. pending' \in [Requests -> SUBSET Entry]
    BY <2>1, <2>3 DEF TypeOK
  <2> QED
    BY <1>6, <2>4 DEF TypeOK, AddEntry, Goto, Places
<1>7. ASSUME NEW t \in Requests, FlushRowLast(t) PROVE TypeOK'
  BY <1>7 DEF TypeOK, FlushRowLast, Goto, Places
<1>8. ASSUME NEW t \in Requests, End(t), table' \in SUBSET Entry, nextSeq' = nextSeq
      PROVE TypeOK'
  BY <1>a, <1>b, <1>8 DEF TypeOK, End, Forget, Goto, Unless, Kinds, Places
<1>9. ASSUME NEW t \in Requests, Fetch(t) PROVE TypeOK'
  <2>1. PICK from \in FromSeqs, limit \in Limits :
          window' = [window EXCEPT ![t] =
                       [from |-> from, limit |-> limit, rows |-> WindowOf(from, limit)]]
    BY <1>9 DEF Fetch
  <2>2. WindowOf(from, limit) \in SUBSET Entry /\ from \in Nat /\ limit \in Nat
    BY DEF WindowOf, TypeOK
  <2>3. [from |-> from, limit |-> limit, rows |-> WindowOf(from, limit)] \in Window
    BY <2>2 DEF Window
  <2> QED
    BY <1>9, <2>1, <2>3 DEF TypeOK, Fetch, Goto, Places
<1>10. ASSUME NEW t \in Requests, Verify(t) PROVE TypeOK'
  <2>1. VerifyEntries(window[t].rows) \in BOOLEAN /\ WindowComplete(window[t].rows) \in BOOLEAN
    BY DEF VerifyEntries, WindowComplete
  <2>2. [valid |-> VerifyEntries(window[t].rows), complete |-> WindowComplete(window[t].rows)]
          \in Report
    BY <2>1, Zenon DEF Report
  <2> QED
    BY <1>10, <2>2 DEF TypeOK, Verify, Goto, Places
<1>11. ASSUME NEW t \in Requests, Respond(t) PROVE TypeOK'
  BY <1>a, <1>b, <1>11 DEF TypeOK, Respond, Forget, Goto, Kinds, Places
<1>12. ASSUME NEW t \in Requests, Commit(t) PROVE TypeOK'
  <2>1. table' \in SUBSET Entry /\ nextSeq' = nextSeq /\ End(t)
    BY <1>12 DEF Commit, TypeOK
  <2> QED BY <2>1, <1>8
<1>13. ASSUME NEW t \in Requests, Rollback(t) PROVE TypeOK'
  BY <1>13, <1>8 DEF Rollback, TypeOK
<1>14. ASSUME NEW t \in Requests, AbortDeadlock(t) PROVE TypeOK'
  BY <1>14, <1>8 DEF AbortDeadlock, TypeOK
<1> QED
  BY <1>1, <1>2, <1>3, <1>4, <1>5, <1>6, <1>7, <1>9, <1>10, <1>11, <1>12, <1>13, <1>14
  DEF Next, Step, LogAudit, Check

(* A transaction that has logged its one entry does not log another.       *)
LEMMA LogsOnce ==
  ASSUME EntriesPerTxn = 1, PendingIsNext, NEW t \in Requests, WantsToLog(t)
  PROVE  pc[t] = "ready"
<1> SUFFICES ASSUME pc[t] = "logged", Cardinality(pending[t]) < 1 PROVE FALSE
  BY DEF WantsToLog
<1>1. PICK x : pending[t] = {x}
  BY DEF PendingIsNext
<1>2. Cardinality(pending[t]) = 1
  BY <1>1, FS_Singleton
<1> QED
  BY <1>2

(* Steps that leave the log, its numbers and who holds what as they are.   *)
LEMMA Elsewhere ==
  ASSUME IInv, UNCHANGED <<table, nextSeq, lock, seq, pending>>,
         \A t \in Requests :
           pc'[t] # pc[t] => pc[t] \notin {"locked", "numbered", "flushed"}
                            /\ pc'[t] \notin {"locked", "numbered"}
                            /\ (pc[t] = "logged" <=> pc'[t] = "flushed")
                            /\ pc'[t] # "logged"
  PROVE  (OnlyHolder /\ Numbered /\ Drawn /\ PendingIsNext /\ ChainLinear /\ Recorded)'
<1>1. OnlyHolder'
  BY DEF IInv, OnlyHolder, Holding
<1>2. Numbered' /\ ChainLinear' /\ Recorded'
  BY DEF IInv, Numbered, ChainLinear, IsHead, Before, Recorded
<1>3. Drawn'
  BY DEF IInv, Drawn
<1>4. PendingIsNext'
  BY DEF IInv, PendingIsNext, IsNext, IsHead
<1> QED
  BY <1>1, <1>2, <1>3, <1>4

(* A transaction that ends without a commit takes its entry with it.       *)
LEMMA Ends ==
  ASSUME IInv, NEW t \in Requests, End(t), UNCHANGED <<table, nextSeq>>
  PROVE  (OnlyHolder /\ Numbered /\ Drawn /\ PendingIsNext /\ ChainLinear /\ Recorded)'
<1>1. OnlyHolder'
  BY DEF IInv, TypeOK, OnlyHolder, Holding, End, Unless, Goto
<1>2. Numbered' /\ ChainLinear' /\ Recorded'
  BY DEF IInv, Numbered, ChainLinear, IsHead, Before, Recorded
<1>3. Drawn'
  BY DEF IInv, TypeOK, Drawn, End, Forget, Goto
<1>4. PendingIsNext'
  BY DEF IInv, TypeOK, PendingIsNext, IsNext, IsHead, End, Forget, Goto
<1> QED
  BY <1>1, <1>2, <1>3, <1>4

(* What a commit adds: one entry, numbered past all others, that carries   *)
(* the hash of the newest of them.                                         *)
LEMMA CommitAdds ==
  ASSUME IInv, NEW t \in Requests, Commit(t)
  PROVE  \E n \in Entry :
           /\ table' = table \cup {n}
           /\ IsHead(n.prev, table) /\ n.address = Inet[n.hashed]
           /\ n.seq \in Nat \ {Genesis} /\ n.seq < nextSeq
           /\ \A e \in table : e.seq < n.seq
<1>1. pc[t] \in {"logged", "flushed"}
  BY DEF Commit
<1>2. PICK n \in Entry : pending[t] = {n} /\ IsNext(n, t)
  BY <1>1 DEF IInv, PendingIsNext
<1>3. seq[t] \in Nat \ {Genesis} /\ seq[t] < nextSeq /\ \A e \in table : e.seq < seq[t]
  BY <1>1 DEF IInv, Drawn
<1>4. table' = table \cup {n}
  BY <1>2 DEF Commit
<1> QED
  BY <1>2, <1>3, <1>4 DEF IsNext

LEMMA CommitStep ==
  ASSUME IInv, NEW t \in Requests, Commit(t)
  PROVE  (OnlyHolder /\ Numbered /\ Drawn /\ PendingIsNext /\ ChainLinear /\ Recorded)'
<1>1. PICK n \in Entry :
           /\ table' = table \cup {n}
           /\ IsHead(n.prev, table) /\ n.address = Inet[n.hashed]
           /\ n.seq \in Nat \ {Genesis} /\ n.seq < nextSeq
           /\ \A e \in table : e.seq < n.seq
  BY CommitAdds
<1>2. lock = t
  BY DEF Commit, IInv, OnlyHolder, Holding
<1>3. \A u \in Requests \ {t} : pc[u] \notin Holding
  BY <1>2 DEF IInv, OnlyHolder
<1>4. nextSeq' = nextSeq /\ End(t)
  BY DEF Commit
<1>5. OnlyHolder'
  BY <1>3, <1>4 DEF IInv, TypeOK, OnlyHolder, Holding, End, Goto
<1>6. Numbered'
  BY <1>1, <1>4 DEF IInv, Numbered
<1>7. Drawn'
  BY <1>3, <1>4 DEF IInv, TypeOK, Drawn, Holding, End, Forget, Goto
<1>8. PendingIsNext'
  BY <1>3, <1>4 DEF IInv, TypeOK, PendingIsNext, Holding, End, Forget, Goto
<1>9. ChainLinear'
  <2> SUFFICES ASSUME NEW e \in table' PROVE IsHead(e.prev, Before(e, table'))
    BY DEF ChainLinear
  <2>1. \A d \in table : d.seq \in Nat /\ d.seq < n.seq
    BY <1>1 DEF IInv, TypeOK, Entry
  <2>2. CASE e \in table
    <3>1. Before(e, table') = Before(e, table)
      BY <2>1, <2>2, <1>1 DEF Before
    <3> QED BY <3>1, <2>2 DEF IInv, ChainLinear
  <2>3. CASE e = n
    <3>1. Before(e, table') = table
      BY <2>1, <2>3, <1>1 DEF Before
    <3> QED BY <3>1, <2>3, <1>1
  <2> QED BY <2>2, <2>3, <1>1
<1>10. Recorded'
  <2>1. \A d \in table : d.seq \in Nat /\ d.seq < n.seq
    BY <1>1 DEF IInv, TypeOK, Entry
  <2> QED BY <2>1, <1>1 DEF IInv, Recorded
<1> QED
  BY <1>5, <1>6, <1>7, <1>8, <1>9, <1>10

LEMMA LockStep ==
  ASSUME IInv, EntriesPerTxn = 1, NEW t \in Requests, Lock(t)
  PROVE  (OnlyHolder /\ Numbered /\ Drawn /\ PendingIsNext /\ ChainLinear /\ Recorded)'
<1>1. pc[t] = "ready" /\ lock \in {None, t}
  BY LogsOnce DEF Lock, IInv
<1>2. OnlyHolder'
  BY <1>1, NoneAssumption DEF IInv, TypeOK, OnlyHolder, Holding, Lock, Goto
<1>3. Numbered' /\ ChainLinear' /\ Recorded'
  BY DEF IInv, Numbered, ChainLinear, IsHead, Before, Recorded, Lock
<1>4. Drawn'
  BY DEF IInv, TypeOK, Drawn, Lock, Goto
<1>5. PendingIsNext'
  BY <1>1 DEF IInv, TypeOK, PendingIsNext, IsNext, IsHead, Lock, Goto
<1> QED
  BY <1>2, <1>3, <1>4, <1>5

LEMMA NextValStep ==
  ASSUME IInv, NEW t \in Requests, NextVal(t)
  PROVE  (OnlyHolder /\ Numbered /\ Drawn /\ PendingIsNext /\ ChainLinear /\ Recorded)'
<1>1. lock = t /\ \A u \in Requests \ {t} : pc[u] \notin Holding
  BY DEF IInv, OnlyHolder, Holding, NextVal
<1>2. OnlyHolder'
  BY <1>1 DEF IInv, TypeOK, OnlyHolder, Holding, NextVal, Goto
<1>3. Numbered' /\ ChainLinear' /\ Recorded'
  BY DEF IInv, TypeOK, Entry, Numbered, ChainLinear, IsHead, Before, Recorded, NextVal
<1>4. Drawn'
  BY <1>1 DEF Genesis, IInv, TypeOK, Drawn, Numbered, Holding, NextVal, Goto
<1>5. PendingIsNext'
  BY <1>1 DEF IInv, TypeOK, PendingIsNext, IsNext, IsHead, Holding, NextVal, Goto
<1> QED
  BY <1>2, <1>3, <1>4, <1>5

LEMMA AddEntryStep ==
  ASSUME IInv, NEW t \in Requests, AddEntry(t)
  PROVE  (OnlyHolder /\ Numbered /\ Drawn /\ PendingIsNext /\ ChainLinear /\ Recorded)'
<1>1. OnlyHolder'
  BY DEF IInv, TypeOK, OnlyHolder, Holding, AddEntry, Goto
<1>2. Numbered' /\ ChainLinear' /\ Recorded'
  BY DEF IInv, Numbered, ChainLinear, IsHead, Before, Recorded, AddEntry
<1>3. Drawn'
  BY DEF IInv, TypeOK, Drawn, AddEntry, Goto
<1>4. PendingIsNext'
  <2>1. pending[t] = {}
    BY DEF IInv, PendingIsNext, AddEntry
  <2>2. PICK h \in {Genesis} \cup {e.seq : e \in table}, a \in Addresses :
          /\ IsHead(h, table)
          /\ pending' = [pending EXCEPT ![t] = @ \cup {NewEntry(t, h, a)}]
    BY DEF AddEntry
  <2>3. pending'[t] = {NewEntry(t, h, a)}
    BY <2>1, <2>2 DEF IInv, TypeOK
  <2>4. \A u \in Requests \ {t} : pending'[u] = pending[u] /\ pc'[u] = pc[u]
    BY <2>2 DEF IInv, TypeOK, AddEntry, Goto
  <2>5. pc'[t] = "logged" /\ table' = table /\ seq' = seq
    BY DEF IInv, TypeOK, AddEntry, Goto
  <2>6. h \in Nat /\ seq[t] \in Nat
    BY DEF IInv, TypeOK, Entry, Genesis
  <2>7. NewEntry(t, h, a) \in Entry /\ IsNext(NewEntry(t, h, a), t)
    BY <2>2, <2>6, NewEntryIs DEF IsNext
  <2>8. \A e \in Entry, u \in Requests : IsNext(e, u) => IsNext(e, u)'
    BY <2>5 DEF IsNext, IsHead
  <2> QED
    BY <2>3, <2>4, <2>5, <2>7, <2>8 DEF IInv, PendingIsNext
<1> QED
  BY <1>1, <1>2, <1>3, <1>4

LEMMA InductiveStep ==
  ASSUME EntriesPerTxn = 1, IInv, [Next]_vars
  PROVE  IInv'
<1>1. TypeOK'
  BY TypeStep DEF IInv
<1> SUFFICES (OnlyHolder /\ Numbered /\ Drawn /\ PendingIsNext /\ ChainLinear /\ Recorded)'
  BY <1>1 DEF IInv
<1>2. CASE UNCHANGED vars
  BY <1>2, Elsewhere DEF vars
<1>3. ASSUME NEW t \in Requests, Begin(t) \/ FlushRowFirst(t) \/ FlushRowLast(t)
                                \/ Fetch(t) \/ Verify(t)
      PROVE  (OnlyHolder /\ Numbered /\ Drawn /\ PendingIsNext /\ ChainLinear /\ Recorded)'
  <2>1. UNCHANGED <<table, nextSeq, lock, seq, pending>>
    BY <1>3 DEF Begin, FlushRowFirst, FlushRowLast, Fetch, Verify
  <2>2. \A u \in Requests :
           pc'[u] # pc[u] => pc[u] \notin {"locked", "numbered", "flushed"}
                            /\ pc'[u] \notin {"locked", "numbered"}
                            /\ (pc[u] = "logged" <=> pc'[u] = "flushed")
                            /\ pc'[u] # "logged"
    BY <1>3 DEF IInv, TypeOK, Begin, FlushRowFirst, FlushRowLast, Fetch, Verify, Goto
  <2> QED BY <2>1, <2>2, Elsewhere
<1>4. ASSUME NEW t \in Requests, Respond(t)
      PROVE  (OnlyHolder /\ Numbered /\ Drawn /\ PendingIsNext /\ ChainLinear /\ Recorded)'
  <2>1. pc[t] = "reported" /\ UNCHANGED <<table, nextSeq, lock>>
        /\ pc' \in {[pc EXCEPT ![t] = "idle"], [pc EXCEPT ![t] = "ready"]}
    BY <1>4 DEF Respond, Goto
  <2>2. pending[t] = {}
    BY <2>1 DEF IInv, PendingIsNext
  <2>3. \A u \in Requests : pending'[u] = pending[u]
    BY <1>4, <2>2 DEF Respond, Forget, IInv, TypeOK
  <2>4. \A u \in Requests \ {t} : seq'[u] = seq[u]
    BY <1>4 DEF Respond, Forget, IInv, TypeOK
  <2>5. OnlyHolder' /\ Drawn'
    BY <2>1, <2>4 DEF IInv, TypeOK, OnlyHolder, Holding, Drawn
  <2>6. Numbered' /\ ChainLinear' /\ Recorded'
    BY <2>1 DEF IInv, Numbered, ChainLinear, IsHead, Before, Recorded
  <2>7. PendingIsNext'
    BY <2>1, <2>3, <2>4 DEF IInv, TypeOK, PendingIsNext, IsNext, IsHead
  <2> QED BY <2>5, <2>6, <2>7
<1>5. ASSUME NEW t \in Requests, Rollback(t) \/ AbortDeadlock(t)
      PROVE  (OnlyHolder /\ Numbered /\ Drawn /\ PendingIsNext /\ ChainLinear /\ Recorded)'
  BY <1>5, Ends DEF Rollback, AbortDeadlock
<1> QED
  BY <1>2, <1>3, <1>4, <1>5, CommitStep, LockStep, NextValStep, AddEntryStep
  DEF Next, Step, LogAudit, Check

LEMMA InitHolds == Init => IInv
<1> SUFFICES ASSUME Init PROVE IInv
  OBVIOUS
<1>1. NoReport \in Report
  BY Zenon DEF NoReport, Report
<1>2. NoWindow \in Window
  BY DEF NoWindow, Window
<1>3. TypeOK
  BY <1>1, <1>2, NoneAssumption DEF Init, TypeOK, Kinds, Places
<1> QED
  BY <1>3 DEF Init, IInv, OnlyHolder, Holding, Numbered, Drawn, PendingIsNext, ChainLinear, Recorded

(* Every state of the audit log has the type the model gives it.           *)
THEOREM AuditTypes == Spec => []TypeOK
<1>1. Init => TypeOK
  BY InitHolds DEF IInv
<1> QED
  BY <1>1, TypeStep, PTL DEF Spec

LEMMA AlwaysIInv ==
  ASSUME EntriesPerTxn = 1 PROVE Spec => []IInv
<1>1. IInv /\ [Next]_vars => IInv'
  BY InductiveStep
<1> QED
  BY <1>1, InitHolds, PTL DEF Spec

(* One log_audit per transaction: the committed entries are one chain from *)
(* the genesis hash, however requests interleave, roll back or deadlock.   *)
THEOREM ChainIsLinear ==
  ASSUME EntriesPerTxn = 1 PROVE Spec => []ChainSound
<1>1. IInv => ChainSound
  BY DEF IInv, ChainSound
<1> QED
  BY <1>1, AlwaysIInv, PTL

LEMMA OnlyCommitWrites ==
  ASSUME [Next]_vars, \A t \in Requests : ~Commit(t)
  PROVE  table' = table
BY DEF Next, Step, LogAudit, Check, Begin, FlushRowFirst, FlushRowLast, Lock, NextVal,
   AddEntry, Fetch, Verify, Respond, Rollback, AbortDeadlock, vars

(* The committed rows implement the append-only log: a commit appends the  *)
(* entry that was linked to the newest row under the lock, and every other *)
(* step of every request leaves the log alone.                             *)
THEOREM ImplementsLog ==
  ASSUME EntriesPerTxn = 1 PROVE Spec => AppendsOnly
<1>1. Init => ChainLog!Init
  BY DEF Init, ChainLog!Init
<1>2. ASSUME IInv, [Next]_vars
      PROVE  [ChainLog!Append]_table
  <2>1. ASSUME NEW t \in Requests, Commit(t)
        PROVE  ChainLog!Append
    <3>1. PICK n \in Entry :
             /\ table' = table \cup {n}
             /\ IsHead(n.prev, table)
             /\ \A e \in table : e.seq < n.seq
      BY <1>2, <2>1, CommitAdds
    <3>2. n \in table' /\ ChainLog!Newest(n.prev)
      BY <3>1 DEF ChainLog!Newest, IsHead
    <3> QED
      BY <3>1, <3>2 DEF ChainLog!Append
  <2> QED
    BY <2>1, <1>2, OnlyCommitWrites
<1> QED
  BY <1>1, <1>2, AlwaysIInv, PTL DEF Spec, AppendsOnly, ChainLog!Spec

(* What the append-only log promises its readers, the table keeps: no two  *)
(* entries follow the same one, so a chain that verifies has no other      *)
(* history beside it.                                                      *)
THEOREM NoForkedHistory ==
  ASSUME EntriesPerTxn = 1 PROVE Spec => []ChainLog!NoFork
<1>1. IInv => ChainLog!NoFork
  <2> SUFFICES ASSUME IInv, NEW d \in table, NEW e \in table, d.prev = e.prev
               PROVE  d = e
    BY DEF ChainLog!NoFork
  <2>1. d \in Entry /\ e \in Entry
    BY DEF IInv, TypeOK
  <2>2. IsHead(d.prev, Before(d, table)) /\ IsHead(e.prev, Before(e, table))
    BY DEF IInv, ChainLinear
  <2>3. d.seq = e.seq
    BY <2>1, <2>2 DEF IInv, Numbered, IsHead, Before, Entry
  <2> QED
    BY <2>3 DEF IInv, Recorded
<1> QED
  BY <1>1, AlwaysIInv, PTL

-----------------------------------------------------------------------------
(* The checks.                                                             *)

(* What a check has read is the beginning, from its first number on, of    *)
(* the table of that time, and what is committed since comes after it.     *)
WindowsAreOldest ==
  \A t \in Requests : pc[t] = "fetched" =>
    /\ window[t].rows \subseteq table
    /\ \A d \in table, e \in window[t].rows :
         window[t].from <= d.seq /\ d.seq <= e.seq => d \in window[t].rows

Checking == IInv /\ IsFiniteSet(table) /\ WindowsAreOldest /\ HonestChecks

(* The oldest rows leave no gap: of two rows of the table the older one is *)
(* read if the newer one is.                                               *)
LEMMA WindowHasNoGap ==
  ASSUME TypeOK, IsFiniteSet(table), NEW from \in Nat, NEW limit \in Nat,
         NEW d \in table, NEW e \in WindowOf(from, limit), from <= d.seq, d.seq <= e.seq
  PROVE  d \in WindowOf(from, limit)
<1>1. d.seq \in Nat /\ e.seq \in Nat /\ e \in table /\ \A c \in table : c.seq \in Nat
  BY DEF TypeOK, Entry, WindowOf
<1>2. DEFINE olderD == {c \in table : from <= c.seq /\ c.seq < d.seq}
             olderE == {c \in table : from <= c.seq /\ c.seq < e.seq}
<1>3. olderD \subseteq olderE
  BY <1>1
<1>4. IsFiniteSet(olderE)
  <2>1. olderE \subseteq table
    OBVIOUS
  <2> HIDE DEF olderE
  <2>2. QED
    BY <2>1, FS_Subset
<1>5. Cardinality(olderE) < limit
  BY DEF WindowOf
<1> HIDE DEF olderD, olderE
<1>6. Cardinality(olderD) \in Nat /\ Cardinality(olderE) \in Nat /\ Cardinality(olderD) <= Cardinality(olderE)
  BY <1>3, <1>4, FS_Subset, FS_CardinalityType
<1>7. Cardinality(olderD) < limit
  BY <1>5, <1>6
<1>8. QED
  BY <1>7 DEF WindowOf, olderD

Respelled(rows) == \E e \in rows : Inet[e.hashed] # e.hashed

(* Rows without a gap, from the first entry on, verify unless the column   *)
(* spells an address otherwise: each of them finds among them the entry it *)
(* followed in the table.                                                  *)
LEMMA FullWindowVerifies ==
  ASSUME IInv, NEW rows \in SUBSET table,
         \A d \in table, e \in rows : d.seq <= e.seq => d \in rows
  PROVE  VerifyEntries(rows) \/ Respelled(rows)
<1>1. \A e \in table : e.seq \in Nat
  BY DEF IInv, TypeOK, Entry
<1>2. ASSUME NEW e \in rows
      PROVE  Before(e, rows) = Before(e, table)
  BY <1>1 DEF Before
<1>3. QED
  BY <1>2 DEF VerifyEntries, Respelled, IInv, ChainLinear, Recorded

(* A verdict on rows that a check has read.                                *)
LEMMA VerifyStep ==
  ASSUME Checking, NEW t \in Requests, Verify(t)
  PROVE  /\ window[t].from > 1 \/ report'[t].valid \/ Respelled(window[t].rows)
         /\ report'[t].complete /\ window[t].rows # {} =>
              \A e \in table : e.seq >= window[t].from => e \in window[t].rows
<1>1. /\ pc[t] = "fetched" /\ window[t].from \in Nat /\ window[t].rows \subseteq table
      /\ report' = [report EXCEPT ![t] = [valid    |-> VerifyEntries(window[t].rows),
                                         complete |-> WindowComplete(window[t].rows)]]
      /\ \A d \in table, e \in window[t].rows :
           window[t].from <= d.seq /\ d.seq <= e.seq => d \in window[t].rows
  BY DEF Checking, IInv, TypeOK, Window, WindowsAreOldest, Verify
<1>2. /\ report'[t].valid = VerifyEntries(window[t].rows)
      /\ report'[t].complete = WindowComplete(window[t].rows)
  BY <1>1 DEF Checking, IInv, TypeOK
<1>3. \A e \in table : e.seq \in Nat /\ e.seq >= 1
  BY DEF Checking, IInv, TypeOK, Entry, Numbered, Genesis
<1>4. ASSUME window[t].from <= 1
      PROVE  VerifyEntries(window[t].rows) \/ Respelled(window[t].rows)
  <2>1. \A d \in table, e \in window[t].rows : d.seq <= e.seq => d \in window[t].rows
    BY <1>1, <1>3, <1>4
  <2>2. QED
    BY <1>1, <2>1, FullWindowVerifies DEF Checking
<1>5. ASSUME WindowComplete(window[t].rows), window[t].rows # {},
             NEW e \in table, e.seq >= window[t].from
      PROVE  e \in window[t].rows
  <2>1. PICK d \in window[t].rows : e.seq <= d.seq
    BY <1>5 DEF WindowComplete
  <2>2. QED
    BY <1>1, <1>3, <1>5, <2>1
<1>6. QED
  BY <1>1, <1>2, <1>4, <1>5

LEMMA FetchStep ==
  ASSUME Checking, NEW t \in Requests, Fetch(t)
  PROVE  WindowsAreOldest'
<1>1. PICK from \in FromSeqs, limit \in Limits :
             window' = [window EXCEPT ![t] =
                          [from |-> from, limit |-> limit, rows |-> WindowOf(from, limit)]]
  BY DEF Fetch
<1>2. from \in Nat /\ limit \in Nat /\ table' = table /\ pc' = [pc EXCEPT ![t] = "fetched"]
  BY CheckAssumption DEF Fetch, Goto
<1>3. window'[t].from = from /\ window'[t].rows = WindowOf(from, limit)
  BY <1>1 DEF Checking, IInv, TypeOK
<1>4. \A u \in Requests \ {t} : window'[u] = window[u] /\ pc'[u] = pc[u]
  BY <1>1, <1>2 DEF Checking, IInv, TypeOK
<1>5. /\ window'[t].rows \subseteq table
      /\ \A d \in table, e \in window'[t].rows :
           window'[t].from <= d.seq /\ d.seq <= e.seq => d \in window'[t].rows
  <2>1. WindowOf(from, limit) \subseteq table
    BY DEF WindowOf
  <2>2. QED
    BY <1>2, <1>3, <2>1, WindowHasNoGap DEF Checking, IInv
<1>6. QED
  BY <1>2, <1>4, <1>5 DEF Checking, WindowsAreOldest

(* Steps that leave the table and the windows of running checks alone.     *)
LEMMA ChecksApart ==
  ASSUME Checking, table' = table,
         \A t \in Requests : pc'[t] = "fetched" => pc[t] = "fetched" /\ window'[t] = window[t]
  PROVE  WindowsAreOldest'
BY DEF Checking, WindowsAreOldest

LEMMA CommitKeepsWindows ==
  ASSUME Checking, NEW t \in Requests, Commit(t)
  PROVE  WindowsAreOldest' /\ IsFiniteSet(table')
<1>1. PICK n \in Entry :
           /\ table' = table \cup {n}
           /\ n.seq \in Nat /\ \A e \in table : e.seq < n.seq
  BY CommitAdds DEF Checking
<1>4. IsFiniteSet(table')
  BY <1>1, FS_AddElement DEF Checking
<1>5. \A u \in Requests : pc'[u] = "fetched" => pc[u] = "fetched" /\ window'[u] = window[u]
  BY DEF Checking, IInv, TypeOK, Commit, End, Forget, Goto
<1>6. \A e \in table : e.seq \in Nat
  BY DEF Checking, IInv, TypeOK, Entry
<1>7. ASSUME NEW u \in Requests, pc'[u] = "fetched",
             NEW d \in table', NEW e \in window[u].rows, window[u].from <= d.seq, d.seq <= e.seq
      PROVE  d \in window[u].rows
  <2>1. e \in table /\ e.seq < n.seq
    BY <1>1, <1>5, <1>7 DEF Checking, WindowsAreOldest
  <2>2. d \in table
    BY <1>1, <1>6, <1>7, <2>1
  <2>3. QED
    BY <1>5, <1>7, <2>2 DEF Checking, WindowsAreOldest
<1>8. \A u \in Requests : pc'[u] = "fetched" => window'[u].rows \subseteq table'
  BY <1>1, <1>5 DEF Checking, WindowsAreOldest
<1>9. QED
  BY <1>4, <1>5, <1>7, <1>8 DEF WindowsAreOldest

LEMMA CheckingStep ==
  ASSUME EntriesPerTxn = 1, Checking, [Next]_vars
  PROVE  Checking'
<1>1. IInv'
  BY InductiveStep DEF Checking
<1>2. WindowsAreOldest' /\ IsFiniteSet(table')
  <2>1. ASSUME NEW t \in Requests, Commit(t)
        PROVE  WindowsAreOldest' /\ IsFiniteSet(table')
    BY <2>1, CommitKeepsWindows
  <2>2. CASE \A t \in Requests : ~Commit(t)
    <3>1. table' = table
      BY <2>2, OnlyCommitWrites
    <3>2. ASSUME NEW t \in Requests, Fetch(t)
          PROVE  WindowsAreOldest'
      BY <3>2, FetchStep
    <3>3. CASE \A t \in Requests : ~Fetch(t)
      <4>1. \A t \in Requests : pc'[t] = "fetched" => pc[t] = "fetched" /\ window'[t] = window[t]
        BY <2>2, <3>3 DEF Checking, IInv, TypeOK, Next, Step, LogAudit, Check, Begin, FlushRowFirst,
           FlushRowLast, Lock, NextVal, AddEntry, Verify, Respond, Rollback, AbortDeadlock, End, Forget, Goto, vars
      <4>2. QED
        BY <3>1, <4>1, ChecksApart DEF Checking
    <3>4. QED
      BY <3>1, <3>2, <3>3 DEF Checking
  <2>3. QED
    BY <2>1, <2>2
<1>3. HonestChecks'
  <2>1. ASSUME NEW t \in Requests, Verify(t)
        PROVE  HonestChecks'
    <3>1. window' = window /\ \A u \in Requests \ {t} : pc'[u] = pc[u] /\ report'[u] = report[u]
      BY <2>1 DEF Checking, IInv, TypeOK, Verify, Goto
    <3>2. window[t].from > 1 \/ report'[t].valid \/ Respelled(window[t].rows)
      BY <2>1, VerifyStep
    <3>3. QED
      BY <3>1, <3>2 DEF Checking, HonestChecks, Respelled
  <2>2. CASE \A t \in Requests : ~Verify(t)
    <3>1. \A t \in Requests : pc'[t] = "reported" =>
             pc[t] = "reported" /\ window'[t] = window[t] /\ report'[t] = report[t]
      BY <2>2 DEF Checking, IInv, TypeOK, Next, Step, LogAudit, Check, Begin, FlushRowFirst,
         FlushRowLast, Lock, NextVal, AddEntry, Fetch, Commit, Respond, Rollback, AbortDeadlock, End, Forget, Goto, vars
    <3>2. QED
      BY <3>1 DEF Checking, HonestChecks
  <2>3. QED
    BY <2>1, <2>2
<1>4. QED
  BY <1>1, <1>2, <1>3 DEF Checking

LEMMA AlwaysChecking ==
  ASSUME EntriesPerTxn = 1 PROVE Spec => []Checking
<1>1. Init => Checking
  <2>1. SUFFICES ASSUME Init PROVE Checking
    OBVIOUS
  <2>2. IInv
    BY <2>1, InitHolds
  <2>3. table = {} /\ \A t \in Requests : pc[t] = "idle"
    BY <2>1 DEF Init
  <2>4. IsFiniteSet(table)
    BY <2>3, FS_EmptySet
  <2>5. QED
    BY <2>2, <2>3, <2>4 DEF Checking, WindowsAreOldest, HonestChecks
<1>2. Checking /\ [Next]_vars => Checking'
  BY CheckingStep
<1>3. QED
  BY <1>1, <1>2, PTL DEF Spec

(* A check that starts at the first entry accuses the program's own chain  *)
(* only if it read an entry whose address the INET column spells otherwise *)
(* than the hash, however many are committed while it runs (HonestChecks). *)
THEOREM ChecksAreHonest ==
  ASSUME EntriesPerTxn = 1 PROVE Spec => []HonestChecks
<1>1. Checking => HonestChecks
  BY DEF Checking
<1>2. QED
  BY <1>1, AlwaysChecking, PTL

(* A check that calls itself complete has read every entry committed by    *)
(* then, those committed after its query too (CompleteMeansAll): nothing   *)
(* can be committed between the rows it has read.                          *)
THEOREM CompleteChecksReadAll ==
  ASSUME EntriesPerTxn = 1 PROVE Spec => CompleteMeansAll
<1>1. ASSUME Checking, [Next]_vars
      PROVE  [\A t \in Requests :
                pc[t] = "fetched" /\ pc'[t] = "reported" /\ report'[t].complete /\ window[t].rows # {} =>
                  \A e \in table : e.seq >= window[t].from => e \in window[t].rows]_vars
  <2>1. SUFFICES ASSUME NEW t \in Requests, pc[t] = "fetched", pc'[t] = "reported",
                        report'[t].complete, window[t].rows # {}
                 PROVE  \A e \in table : e.seq >= window[t].from => e \in window[t].rows
    OBVIOUS
  <2>2. Verify(t)
    BY <1>1, <2>1 DEF Checking, IInv, TypeOK, Next, Step, LogAudit, Check, Begin, FlushRowFirst,
       FlushRowLast, Lock, NextVal, AddEntry, Fetch, Verify, Commit, Respond, Rollback, AbortDeadlock, End, Forget, Goto, vars
  <2>3. QED
    BY <1>1, <2>1, <2>2, VerifyStep
<1>2. QED
  BY <1>1, AlwaysChecking, PTL DEF Spec, CompleteMeansAll
=============================================================================
