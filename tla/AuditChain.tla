------------------------------ MODULE AuditChain ------------------------------
(***************************************************************************)
(* The tamper-evident audit log (services/audit.py, audit_chain.py and the *)
(* integrity endpoint of routers/audit.py).  A request that does something *)
(* auditable calls log_audit inside its own transaction: an advisory lock  *)
(* held to the end of the transaction, a number from a sequence, the hash  *)
(* of the newest entry, and an entry that is written when the session is   *)
(* flushed.  Other requests check the chain.                               *)
(*                                                                         *)
(* The hash of an entry is named by its chain_seq, which is part of what   *)
(* is hashed; Genesis stands for the 64 zeros.  The other part of the hash *)
(* that matters is the address: it is hashed as it was given, kept in an   *)
(* INET column and hashed again, by a check, as the column gives it back.  *)
(* Reads are READ COMMITTED.                                               *)
(* A request may also write a row that others write: some flush it before  *)
(* they take the lock (routers/auth.py update_me), some when the session   *)
(* is flushed after it (login).                                            *)
(***************************************************************************)
EXTENDS Integers, FiniteSets

CONSTANTS
  Requests,      \* requests in progress at a time
  EntriesPerTxn, \* calls of log_audit in one transaction
  Addresses,     \* spellings of addresses, none given included
  Inet,          \* how the column spells an address
  FromSeqs,      \* from_seq of the checks
  Limits,        \* limit of the checks
  MaxSeq,        \* numbers drawn from the sequence (bounds the model)
  None           \* no request

ASSUME NoneAssumption == None \notin Requests
ASSUME EntriesAssumption == EntriesPerTxn \in Nat \ {0}
ASSUME InetAssumption == Inet \in [Addresses -> Addresses]
ASSUME CheckAssumption == FromSeqs \subseteq Nat \ {0} /\ Limits \subseteq Nat \ {0}
ASSUME MaxSeqAssumption == MaxSeq \in Nat

VARIABLES
  table,    \* committed rows of audit_logs
  nextSeq,  \* audit_logs_chain_seq_seq
  lock,     \* who holds pg_advisory_xact_lock
  row,      \* who holds the lock of the shared row
  pc,       \* where each request is
  kind,     \* what it does
  seq,      \* the number log_audit has drawn
  pending,  \* entries added to the session, not flushed
  window,   \* what a check looks at: its from_seq and limit, the rows read
  report    \* what it answers

vars == <<table, nextSeq, lock, row, pc, kind, seq, pending, window, report>>

Genesis == 0

(* Its number, the hash of the previous entry, the address in its own hash *)
(* and the one in its column.                                              *)
Entry == [seq : Nat, prev : Nat, hashed : Addresses, address : Addresses]

Window == [from : Nat, limit : Nat, rows : SUBSET Entry]

Report == [valid : BOOLEAN, complete : BOOLEAN]

Places == {"idle", "begun", "ready", "locked", "numbered",
           "logged", "flushed", "fetched", "reported"}

(* early and late: the shared row is flushed before or after log_audit.    *)
Kinds == {"plain", "early", "late", "check"}

TypeOK ==
  /\ table \in SUBSET Entry
  /\ nextSeq \in Nat \ {0}
  /\ lock \in Requests \cup {None} /\ row \in Requests \cup {None}
  /\ pc \in [Requests -> Places]
  /\ kind \in [Requests -> Kinds]
  /\ seq \in [Requests -> Nat]
  /\ pending \in [Requests -> SUBSET Entry]
  /\ window \in [Requests -> Window]
  /\ report \in [Requests -> Report]

NoWindow == [from |-> 0, limit |-> 0, rows |-> {}]

NoReport == [valid |-> TRUE, complete |-> FALSE]

Init ==
  /\ table = {} /\ nextSeq = 1
  /\ lock = None /\ row = None
  /\ pc = [t \in Requests |-> "idle"]
  /\ kind = [t \in Requests |-> "plain"]
  /\ seq = [t \in Requests |-> 0]
  /\ pending = [t \in Requests |-> {}]
  /\ window = [t \in Requests |-> NoWindow]
  /\ report = [t \in Requests |-> NoReport]

Goto(t, place) == pc' = [pc EXCEPT ![t] = place]

Active == {t \in Requests : pc[t] # "idle"}

Begin(t) ==
  /\ pc[t] = "idle"
  /\ nextSeq + (Cardinality(Active) + 1) * EntriesPerTxn <= MaxSeq + 1
  /\ \E k \in Kinds :
       /\ kind' = [kind EXCEPT ![t] = k]
       /\ Goto(t, IF k \in {"plain", "late"} THEN "ready" ELSE "begun")
  /\ UNCHANGED <<table, nextSeq, lock, row, seq, pending, window, report>>

(* A flush before log_audit: UPDATE takes the row and keeps it.            *)
FlushRowFirst(t) ==
  /\ pc[t] = "begun" /\ kind[t] = "early" /\ row = None
  /\ row' = t
  /\ Goto(t, "ready")
  /\ UNCHANGED <<table, nextSeq, lock, kind, seq, pending, window, report>>

-----------------------------------------------------------------------------
(* log_audit.                                                              *)

WantsToLog(t) ==
  \/ pc[t] = "ready"
  \/ pc[t] = "logged" /\ Cardinality(pending[t]) < EntriesPerTxn

(* Mutant: the lock excludes nobody.                                       *)
LockShared(t) ==
  /\ WantsToLog(t)
  /\ lock' = t
  /\ Goto(t, "locked")
  /\ UNCHANGED <<table, nextSeq, row, kind, seq, pending, window, report>>

(* pg_advisory_xact_lock: granted again to the transaction that holds it.  *)
Lock(t) ==
  /\ WantsToLog(t) /\ lock \in {None, t}
  /\ lock' = t
  /\ Goto(t, "locked")
  /\ UNCHANGED <<table, nextSeq, row, kind, seq, pending, window, report>>

(* nextval: what a transaction has drawn is not given back.                *)
NextVal(t) ==
  /\ pc[t] = "locked"
  /\ seq' = [seq EXCEPT ![t] = nextSeq]
  /\ nextSeq' = nextSeq + 1
  /\ Goto(t, "numbered")
  /\ UNCHANGED <<table, lock, row, kind, pending, window, report>>

(* The hash of the newest of these rows, by chain_seq.                     *)
IsHead(h, rows) ==
  /\ \A e \in rows : e.seq <= h
  /\ \/ h = Genesis /\ rows = {}
     \/ \E e \in rows : e.seq = h

(* What log_audit adds: hash_audit_log is taken before the row is stored.  *)
NewEntry(t, h, a) == [seq |-> seq[t], prev |-> h, hashed |-> a, address |-> Inet[a]]

(* Mutant: the lock is given back once the entry is made.                  *)
AddEntryAndUnlock(t) ==
  /\ pc[t] = "numbered"
  /\ \E h \in {Genesis} \cup {e.seq : e \in table}, a \in Addresses :
       /\ IsHead(h, table)
       /\ pending' = [pending EXCEPT ![t] = @ \cup {NewEntry(t, h, a)}]
  /\ lock' = None
  /\ Goto(t, "logged")
  /\ UNCHANGED <<table, nextSeq, row, kind, seq, window, report>>

(* A textual SELECT does not flush the session: it sees the committed rows *)
(* and not what this transaction has added before.                         *)
AddEntry(t) ==
  /\ pc[t] = "numbered"
  /\ \E h \in {Genesis} \cup {e.seq : e \in table}, a \in Addresses :
       /\ IsHead(h, table)
       /\ pending' = [pending EXCEPT ![t] = @ \cup {NewEntry(t, h, a)}]
  /\ Goto(t, "logged")
  /\ UNCHANGED <<table, nextSeq, lock, row, kind, seq, window, report>>

-----------------------------------------------------------------------------
(* The end of a transaction.                                               *)

(* The flush after log_audit, of a request that changed the shared row.    *)
FlushRowLast(t) ==
  /\ pc[t] = "logged" /\ kind[t] = "late" /\ row = None
  /\ row' = t
  /\ Goto(t, "flushed")
  /\ UNCHANGED <<table, nextSeq, lock, kind, seq, pending, window, report>>

Unless(t, holder) == IF holder = t THEN None ELSE holder

(* What the request kept to itself.                                        *)
Forget(t) ==
  /\ kind' = [kind EXCEPT ![t] = "plain"]
  /\ seq' = [seq EXCEPT ![t] = 0]
  /\ pending' = [pending EXCEPT ![t] = {}]
  /\ window' = [window EXCEPT ![t] = NoWindow]
  /\ report' = [report EXCEPT ![t] = NoReport]

End(t) ==
  /\ lock' = Unless(t, lock)
  /\ row' = Unless(t, row)
  /\ Forget(t)
  /\ Goto(t, "idle")

(* Mutant: the lock outlives the transaction.                              *)
CommitKeepsLock(t) ==
  /\ \/ pc[t] = "flushed"
     \/ pc[t] = "logged" /\ kind[t] # "late"
  /\ table' = table \cup pending[t]
  /\ lock' = lock /\ row' = Unless(t, row)
  /\ Forget(t)
  /\ Goto(t, "idle")
  /\ UNCHANGED nextSeq

Commit(t) ==
  /\ \/ pc[t] = "flushed"
     \/ pc[t] = "logged" /\ kind[t] # "late"
  /\ table' = table \cup pending[t]
  /\ End(t)
  /\ UNCHANGED nextSeq

(* An exception, a refusal raised after log_audit (login), the request     *)
(* deadline or the end of the process.                                     *)
Rollback(t) ==
  /\ pc[t] # "idle"
  /\ End(t)
  /\ UNCHANGED <<table, nextSeq>>

WaitsForLock(t) == WantsToLog(t) /\ lock \notin {None, t}

WaitsForRow(t) ==
  /\ row \notin {None, t}
  /\ \/ pc[t] = "begun" /\ kind[t] = "early"
     \/ pc[t] = "logged" /\ kind[t] = "late"

(* Postgres ends one of two transactions that wait for each other, the     *)
(* lock and the row taken in opposite orders.                              *)
AbortDeadlock(t) ==
  /\ \/ WaitsForLock(t) /\ row = t /\ WaitsForRow(lock)
     \/ WaitsForRow(t) /\ lock = t /\ WaitsForLock(row)
  /\ End(t)
  /\ UNCHANGED <<table, nextSeq>>

-----------------------------------------------------------------------------
(* GET /audit/integrity.                                                   *)

(* Mutant: the newest rows are read, not the oldest.                       *)
WindowOfNewest(from, limit) ==
  {e \in table :
     /\ e.seq >= from
     /\ Cardinality({d \in table : d.seq > e.seq}) < limit}

(* The oldest rows from a number on.                                       *)
WindowOf(from, limit) ==
  {e \in table :
     /\ e.seq >= from
     /\ Cardinality({d \in table : from <= d.seq /\ d.seq < e.seq}) < limit}

Fetch(t) ==
  /\ pc[t] = "begun" /\ kind[t] = "check"
  /\ \E from \in FromSeqs, limit \in Limits :
       window' = [window EXCEPT ![t] =
                    [from |-> from, limit |-> limit, rows |-> WindowOf(from, limit)]]
  /\ Goto(t, "fetched")
  /\ UNCHANGED <<table, nextSeq, lock, row, kind, seq, pending, report>>

Before(e, rows) == {d \in rows : d.seq < e.seq}

(* verify_audit_entries: each row follows the one read before it, the      *)
(* first follows Genesis, and its hash is the hash of what was read back.  *)
VerifyEntries(rows) ==
  \A e \in rows : IsHead(e.prev, Before(e, rows)) /\ e.hashed = e.address

(* Mutant: whatever was read is taken for the whole chain.                 *)
WindowCompleteAlways(rows) == VerifyEntries(rows)

(* The newest entry of the table, read after the rows, is among them.      *)
WindowComplete(rows) ==
  VerifyEntries(rows) /\ (rows = {} \/ \A d \in table : \E e \in rows : d.seq <= e.seq)

(* The verdict, and the second query.  A broken chain is itself logged.    *)
Verify(t) ==
  /\ pc[t] = "fetched"
  /\ report' = [report EXCEPT ![t] = [valid    |-> VerifyEntries(window[t].rows),
                                      complete |-> WindowComplete(window[t].rows)]]
  /\ Goto(t, "reported")
  /\ UNCHANGED <<table, nextSeq, lock, row, kind, seq, pending, window>>

Respond(t) ==
  /\ pc[t] = "reported"
  /\ \/ report[t].valid /\ Forget(t) /\ Goto(t, "idle")
     \/ ~report[t].valid /\ Goto(t, "ready") /\ UNCHANGED <<kind, seq, pending, window, report>>
  /\ UNCHANGED <<table, nextSeq, lock, row>>

LogAudit(t) == Lock(t) \/ NextVal(t) \/ AddEntry(t)

Check(t) == Fetch(t) \/ Verify(t) \/ Respond(t)

Step(t) ==
  FlushRowFirst(t) \/ LogAudit(t) \/ FlushRowLast(t) \/ Commit(t) \/ Check(t)

Next == \E t \in Requests : Begin(t) \/ Step(t) \/ Rollback(t) \/ AbortDeadlock(t)

Spec == Init /\ [][Next]_vars

(* Handlers run on, waiting transactions are served in turn, and Postgres  *)
(* looks for deadlocks (deadlock_timeout).  No failure is promised.        *)
Fairness ==
  \A t \in Requests : SF_vars(Step(t)) /\ WF_vars(AbortDeadlock(t))

FairSpec == Spec /\ Fairness

-----------------------------------------------------------------------------
(* docs/ARCHITECTURE.md draws the log as one chain: every committed entry  *)
(* carries the hash of the entry before it, the first the genesis hash,    *)
(* whatever was rolled back in between.  It takes one log_audit per        *)
(* transaction (EntriesPerTxn = 1): two would follow the same entry.       *)
ChainLinear == \A e \in table : IsHead(e.prev, Before(e, table))

ChainSound == TypeOK /\ ChainLinear

(* The committed rows are an append-only log: a commit adds one entry that *)
(* links to the newest one and is numbered after it, and no other step     *)
(* changes the log.  Entries become visible in the order of their numbers. *)
ChainLog == INSTANCE AppendOnlyLog WITH log <- table

AppendsOnly == ChainLog!Spec

(* A check that starts at the first entry accuses the program's own chain  *)
(* for one reason only: it read an entry whose address the column spells   *)
(* otherwise (2001:DB8::1 is given back as 2001:db8::1).                   *)
HonestChecks ==
  \A t \in Requests : pc[t] = "reported" =>
    \/ window[t].from > 1
    \/ report[t].valid
    \/ \E e \in window[t].rows : Inet[e.hashed] # e.hashed

(* A check that calls itself complete read every committed entry from its  *)
(* first number on; one that read nothing says complete without a look at  *)
(* the newest entry.                                                       *)
CompleteMeansAll ==
  [][\A t \in Requests :
       pc[t] = "fetched" /\ pc'[t] = "reported" /\ report'[t].complete /\ window[t].rows # {} =>
         \A e \in table : e.seq >= window[t].from => e \in window[t].rows]_vars

(* Every request ends: no one keeps the lock of the log, and the two       *)
(* orders in which the lock and a row are taken hold nobody up for good.   *)
RequestsEnd == \A t \in Requests : pc[t] # "idle" ~> pc[t] = "idle"
=============================================================================
