------------------------- MODULE AuthSessionsProofs -------------------------
(***************************************************************************)
(* The tables of sessions and refresh tokens agree, a password change ends *)
(* what there was and logins keep to the limit, for any number of requests *)
(* and whatever they do.                                                   *)
(***************************************************************************)
EXTENDS AuthSessions, FiniteSetTheorems, TLAPS

-----------------------------------------------------------------------------
(* Types.                                                                  *)

TableTypes ==
  /\ tokens \subseteq Requests
  /\ DOMAIN sessions \subseteq Requests /\ IsFiniteSet(DOMAIN sessions)
  /\ \A s \in DOMAIN sessions : sessions[s] \in Session
  /\ resets \in [ResetTokens -> Requests \cup {None}] /\ clock \in Nat
  /\ kind \in Loads

RequestTypes ==
  /\ pc \in [Requests -> Places] /\ held \in [Requests -> SUBSET Rows]
  /\ uses \in [Requests -> Requests \cup {None}] /\ draft \in [Requests -> Draft]
  /\ todo \in [Requests -> SUBSET Requests] /\ old \in [Requests -> SUBSET Requests]

(* A refresh or a logout under way was sent a token.                       *)
SentOf(t) ==
  /\ pc[t] = "token" => kind[t] \in {"refresh", "logout"}
  /\ pc[t] = "session" => kind[t] = "refresh"
  /\ pc[t] \in {"delete", "flush"} => kind[t] = "logout"
  /\ kind[t] \in {"refresh", "logout"} /\ InTransaction(t) => uses[t] \in Requests

Sent == \A t \in Requests : SentOf(t)

Typed == TableTypes /\ RequestTypes /\ Sent

LEMMA TypedIsTypeOK == Typed => TypeOK
BY DEF Typed, TableTypes, RequestTypes, TypeOK

LEMMA InitTyped == Init => Typed
BY FS_EmptySet DEF Init, Typed, TableTypes, RequestTypes, Places, NoDraft, Draft, Sent, SentOf, InTransaction

LEMMA RowsOf ==
  /\ Audit \in Rows /\ UserRow \in Rows
  /\ \A x \in Requests : TokenRow(x) \in Rows /\ SessionRow(x) \in Rows
  /\ \A k \in ResetTokens : ResetRow(k) \in Rows
BY DEF Rows

LEMMA TakeTypes ==
  ASSUME RequestTypes, NEW t \in Requests, NEW row \in Rows, Take(t, row)
  PROVE  /\ held' \in [Requests -> SUBSET Rows] /\ held'[t] = held[t] \cup {row}
         /\ \A u \in Requests \ {t} : held'[u] = held[u] /\ row \notin held[u]
BY DEF RequestTypes, Take, Holders

(* The statements that write no table.                                     *)
Statement(t) ==
  \/ LogAudit(t) \/ Login(t) \/ CountSessions(t) \/ PickOldest(t)
  \/ EvictSession(t) \/ EvictToken(t) \/ Store(t)
  \/ Present(t) \/ LockToken(t) \/ LockSession(t) \/ RejectRefresh(t)
  \/ ReadToken(t) \/ DeleteToken(t) \/ FlushLogout(t)
  \/ UseResetToken(t) \/ ChangePassword(t) \/ WritePassword(t)
  \/ ReadTokens(t) \/ RevokeToken(t) \/ ReadSessions(t) \/ RevokeSession(t)
  \/ EndRevoking(t)

(* A transaction changes what it holds and has written, and nothing of     *)
(* another one.                                                            *)
Apart(t) ==
  \A u \in Requests \ {t} :
    /\ pc'[u] = pc[u] /\ held'[u] = held[u] /\ uses'[u] = uses[u]
    /\ draft'[u] = draft[u] /\ todo'[u] = todo[u] /\ old'[u] = old[u]

LEMMA RollbackApart ==
  ASSUME Typed, NEW t \in Requests, Rollback(t)
  PROVE  /\ UNCHANGED <<tables, kind>> /\ Apart(t) /\ RequestTypes'
         /\ pc'[t] = "failed" /\ held'[t] = {} /\ draft'[t] = NoDraft /\ todo'[t] = {}
         /\ uses'[t] = uses[t] /\ old'[t] = old[t]
BY DEF Rollback, Typed, RequestTypes, Apart, Goto, Places, NoDraft, Draft

LEMMA DraftWith ==
  ASSUME NEW d \in Draft, NEW some \in SUBSET Requests, NEW all \in SUBSET Requests,
         NEW keys \in SUBSET ResetTokens
  PROVE  /\ [d EXCEPT !.deleted = some] \in Draft
         /\ [d EXCEPT !.revoked = some] \in Draft
         /\ [d EXCEPT !.deleted = some, !.revoked = all] \in Draft
         /\ [d EXCEPT !.used = keys] \in Draft
BY DEF Draft

LEMMA DraftAlso ==
  ASSUME NEW d \in Draft, NEW s \in Requests
  PROVE  /\ [d EXCEPT !.revoked = d.revoked \cup {s}] \in Draft
         /\ [d EXCEPT !.stored = TRUE] \in Draft
         /\ \A n \in Nat : [d EXCEPT !.excess = n] \in Draft
BY DEF Draft

(* What a request has written, when a statement adds to it.                *)
LEMMA DraftChange ==
  ASSUME draft \in [Requests -> Draft], NEW t \in Requests, NEW d \in Draft,
         draft' = [draft EXCEPT ![t] = d]
  PROVE  draft' \in [Requests -> Draft] /\ draft'[t] = d
OBVIOUS

(* Sessions can be counted.                                                *)
LEMMA LiveIsNumber ==
  ASSUME TableTypes, NEW t
  PROVE  Cardinality(Live(t)) \in Nat
<1>1. Live(t) \in SUBSET DOMAIN sessions
  BY DEF Live
<1>2. QED
  BY <1>1, FS_Subset, FS_CardinalityType DEF TableTypes

LEMMA StatementApart ==
  ASSUME Typed, NEW t \in Requests, Statement(t)
  PROVE  UNCHANGED <<tables, kind>> /\ Apart(t) /\ RequestTypes'
<1>1. /\ TableTypes /\ pc \in [Requests -> Places] /\ held \in [Requests -> SUBSET Rows]
      /\ uses \in [Requests -> Requests \cup {None}] /\ draft \in [Requests -> Draft]
      /\ todo \in [Requests -> SUBSET Requests] /\ old \in [Requests -> SUBSET Requests]
  BY DEF Typed, RequestTypes
<1>2. CASE LogAudit(t)
  BY <1>1, <1>2, RowsOf DEF LogAudit, Apart, RequestTypes, Goto, Take, Places, Draft, AfterAudit
<1>3. CASE Login(t)
  BY <1>1, <1>3, RowsOf DEF Login, Apart, RequestTypes, Goto, Take, Places, Draft, AfterAudit
<1>4. CASE CountSessions(t)
  <2> DEFINE n == Cardinality(Live(t))
             e == IF n >= Limit THEN n - Limit + 1 ELSE 0
  <2>1. n \in Nat /\ Limit \in Nat
    BY <1>1, LiveIsNumber, LimitAssumption
  <2>2. e \in Nat
    BY <2>1
  <2> HIDE DEF n
  <2>3. draft' = [draft EXCEPT ![t] = [draft[t] EXCEPT !.excess = e]]
    BY <1>4 DEF CountSessions, n
  <2> HIDE DEF e
  <2>4. draft' \in [Requests -> Draft]
    BY <1>1, <2>2, <2>3, DraftAlso, DraftChange
  <2>5. held' \in [Requests -> SUBSET Rows] /\ \A u \in Requests \ {t} : held'[u] = held[u]
    <3>1. CASE kind[t] = "login"
      BY <1>4, <3>1, RowsOf, TakeTypes DEF CountSessions, Typed
    <3>2. CASE kind[t] # "login"
      BY <1>1, <1>4, <3>2 DEF CountSessions
    <3>3. QED
      BY <3>1, <3>2
  <2>6. pc' = [pc EXCEPT ![t] = "pick"] /\ UNCHANGED <<tables, kind, uses, todo, old>>
    BY <1>4 DEF CountSessions, Goto
  <2>7. QED
    BY <1>1, <2>3, <2>4, <2>5, <2>6 DEF Apart, RequestTypes, Places
<1>5. CASE EvictSession(t)
  <2>1. PICK s \in todo[t] :
             /\ Take(t, SessionRow(s)) /\ draft' = [draft EXCEPT ![t].revoked = @ \cup {s}]
             /\ IF s \in tokens THEN Goto(t, "evictToken") /\ UNCHANGED todo
                ELSE todo' = [todo EXCEPT ![t] = @ \ {s}] /\ UNCHANGED pc
    BY <1>5 DEF EvictSession
  <2>2. UNCHANGED <<tables, kind, uses, old>>
    BY <1>5 DEF EvictSession
  <2>3. s \in Requests /\ SessionRow(s) \in Rows
    BY <1>1, <2>1, RowsOf
  <2>4. held' \in [Requests -> SUBSET Rows]
    BY <2>1, <2>3, TakeTypes DEF Typed
  <2>5. draft' \in [Requests -> Draft]
    <3>1. [draft[t] EXCEPT !.revoked = draft[t].revoked \cup {s}] \in Draft
      BY <1>1, <2>3, DraftAlso
    <3>2. QED
      BY <1>1, <2>1, <3>1, DraftChange
  <2>6. pc' \in [Requests -> Places] /\ todo' \in [Requests -> SUBSET Requests]
    BY <1>1, <2>1, <2>3 DEF Goto, Places
  <2>7. QED
    BY <1>1, <2>1, <2>2, <2>4, <2>5, <2>6 DEF Apart, RequestTypes, Goto, Take
<1>6. CASE EvictToken(t)
  <2>1. PICK s \in todo[t] :
             IF s \in tokens
             THEN /\ Take(t, TokenRow(s)) /\ todo' = [todo EXCEPT ![t] = @ \ {s}]
                  /\ Goto(t, "evict") /\ UNCHANGED <<tables, kind, uses, draft, old>>
             ELSE Rollback(t)
    BY <1>6 DEF EvictToken
  <2>2. CASE s \notin tokens
    BY <2>1, <2>2, RollbackApart
  <2>3. CASE s \in tokens
    <3>1. s \in Requests /\ TokenRow(s) \in Rows
      BY <1>1, <2>1, RowsOf
    <3>2. held' \in [Requests -> SUBSET Rows]
      BY <2>1, <2>3, <3>1, TakeTypes DEF Typed
    <3>3. QED
      BY <1>1, <2>1, <2>3, <3>2 DEF Apart, RequestTypes, Goto, Places, Take
  <2>4. QED
    BY <2>2, <2>3
<1>7. CASE Store(t)
  <2>1. /\ draft' = [draft EXCEPT ![t] = [draft[t] EXCEPT !.stored = TRUE]]
        /\ pc' = [pc EXCEPT ![t] = "commit"] /\ UNCHANGED <<tables, kind, held, uses, todo, old>>
    BY <1>7 DEF Store, Goto
  <2>2. draft' \in [Requests -> Draft]
    BY <1>1, <2>1, DraftAlso, DraftChange
  <2>3. pc' \in [Requests -> Places]
    BY <1>1, <2>1 DEF Places
  <2>4. QED
    BY <1>1, <2>1, <2>2, <2>3 DEF Apart, RequestTypes
<1>8. CASE Present(t)
  BY <1>1, <1>8, RowsOf DEF Present, TableTypes, Apart, RequestTypes, Goto, Take, Places, Draft, AfterAudit
<1>9. CASE LockToken(t)
  <2>1. uses[t] \in Requests /\ TokenRow(uses[t]) \in Rows
    BY <1>1, <1>9, RowsOf DEF LockToken, TableTypes
  <2>2. held' \in [Requests -> SUBSET Rows]
    BY <1>9, <2>1, TakeTypes DEF LockToken, Typed
  <2>3. QED
    BY <1>1, <1>9, <2>2 DEF LockToken, Apart, RequestTypes, Goto, Places, Take
<1>10. CASE LockSession(t)
  <2>1. uses[t] \in Requests /\ SessionRow(uses[t]) \in Rows
    BY <1>1, <1>10, RowsOf DEF LockSession, Typed, Sent, SentOf, InTransaction
  <2>2. held' \in [Requests -> SUBSET Rows]
    BY <1>10, <2>1, TakeTypes DEF LockSession, Typed
  <2>3. draft' \in [Requests -> Draft]
    <3>1. [draft[t] EXCEPT !.deleted = {uses[t]}, !.revoked = {uses[t]}] \in Draft
      BY <1>1, <2>1, DraftWith
    <3>2. QED
      BY <1>1, <1>10, <3>1, DraftChange DEF LockSession
  <2>4. QED
    BY <1>1, <1>10, <2>2, <2>3 DEF LockSession, Apart, RequestTypes, Goto, Places, Take
<1>11. CASE RejectRefresh(t)
  BY <1>11, RollbackApart DEF RejectRefresh
<1>12. CASE DeleteToken(t)
  <2>1. uses[t] \in Requests /\ TokenRow(uses[t]) \in Rows
    BY <1>1, <1>12, RowsOf DEF DeleteToken, Typed, Sent, SentOf, InTransaction
  <2>2. held' \in [Requests -> SUBSET Rows]
    BY <1>12, <2>1, TakeTypes DEF DeleteToken, Typed
  <2>3. draft' \in [Requests -> Draft]
    <3>1. [draft[t] EXCEPT !.deleted = {uses[t]} \cap tokens] \in Draft
      BY <1>1, <2>1, DraftWith
    <3>2. QED
      BY <1>1, <1>12, <3>1, DraftChange DEF DeleteToken
  <2>4. todo' \in [Requests -> SUBSET Requests]
    BY <1>1, <1>12, <2>1 DEF DeleteToken
  <2>5. QED
    BY <1>1, <1>12, <2>2, <2>3, <2>4 DEF DeleteToken, Apart, RequestTypes, Goto, Places, Take
<1>13. CASE FlushLogout(t)
  <2>1. uses[t] \in Requests /\ SessionRow(uses[t]) \in Rows
    BY <1>1, <1>13, RowsOf DEF FlushLogout, Typed, Sent, SentOf, InTransaction
  <2>2. held' \in [Requests -> SUBSET Rows] /\ \A u \in Requests \ {t} : held'[u] = held[u]
    BY <1>1, <1>13, <2>1, TakeTypes DEF FlushLogout, Typed
  <2>3. draft' \in [Requests -> Draft] /\ \A u \in Requests \ {t} : draft'[u] = draft[u]
    <3>1. [draft[t] EXCEPT !.revoked = todo[t]] \in Draft
      BY <1>1, DraftWith
    <3>2. QED
      BY <1>1, <1>13, <3>1, DraftChange DEF FlushLogout
  <2>4. QED
    BY <1>1, <1>13, <2>2, <2>3 DEF FlushLogout, Apart, RequestTypes, Goto, Places
<1>14. CASE UseResetToken(t)
  <2>1. PICK k \in ResetTokens : Take(t, ResetRow(k)) /\ draft' = [draft EXCEPT ![t].used = {k}]
    BY <1>14 DEF UseResetToken
  <2>2. held' \in [Requests -> SUBSET Rows]
    BY <2>1, RowsOf, TakeTypes DEF Typed
  <2>3. draft' \in [Requests -> Draft]
    <3>1. [draft[t] EXCEPT !.used = {k}] \in Draft
      BY <1>1, <2>1, DraftWith
    <3>2. QED
      BY <1>1, <2>1, <3>1, DraftChange
  <2>4. QED
    BY <1>1, <1>14, <2>1, <2>2, <2>3 DEF UseResetToken, Apart, RequestTypes, Goto, Places, Take
<1>15. CASE ChangePassword(t)
  BY <1>1, <1>15, RowsOf DEF ChangePassword, Apart, RequestTypes, Goto, Take, Places, Draft, AfterAudit
<1>16. CASE WritePassword(t)
  BY <1>1, <1>16, RowsOf DEF WritePassword, Apart, RequestTypes, Goto, Take, Places, Draft, AfterAudit
<1>17. CASE ReadTokens(t)
  BY <1>1, <1>17, RowsOf DEF ReadTokens, TableTypes, Apart, RequestTypes, Goto, Take, Places, Draft, AfterAudit
<1>18. CASE RevokeToken(t)
  BY <1>1, <1>18, RowsOf DEF RevokeToken, Apart, RequestTypes, Goto, Take, Places, Draft, AfterAudit
<1>19. CASE ReadSessions(t)
  BY <1>1, <1>19, RowsOf DEF ReadSessions, TableTypes, Apart, RequestTypes, Goto, Take, Places, Draft, AfterAudit
<1>20. CASE RevokeSession(t)
  <2>1. PICK s \in todo[t] :
             /\ Take(t, SessionRow(s)) /\ draft' = [draft EXCEPT ![t].revoked = @ \cup {s}]
             /\ todo' = [todo EXCEPT ![t] = @ \ {s}]
    BY <1>20 DEF RevokeSession
  <2>2. s \in Requests /\ SessionRow(s) \in Rows
    BY <1>1, <2>1, RowsOf
  <2>3. held' \in [Requests -> SUBSET Rows]
    BY <2>1, <2>2, TakeTypes DEF Typed
  <2>4. draft' \in [Requests -> Draft]
    <3>1. [draft[t] EXCEPT !.revoked = draft[t].revoked \cup {s}] \in Draft
      BY <1>1, <2>2, DraftAlso
    <3>2. QED
      BY <1>1, <2>1, <3>1, DraftChange
  <2>5. QED
    BY <1>1, <1>20, <2>1, <2>3, <2>4 DEF RevokeSession, Apart, RequestTypes, Take
<1>21. CASE EndRevoking(t)
  BY <1>1, <1>21, RowsOf DEF EndRevoking, Apart, RequestTypes, Goto, Take, Places, Draft, AfterAudit
<1>23. CASE PickOldest(t)
  BY <1>1, <1>23, RowsOf DEF PickOldest, TableTypes, Apart, RequestTypes, Goto, Take, Places, Draft, AfterAudit
<1>24. CASE ReadToken(t)
  BY <1>1, <1>24, RowsOf DEF ReadToken, TableTypes, Apart, RequestTypes, Goto, Take, Places, Draft, AfterAudit
<1>22. QED
  BY <1>2, <1>3, <1>4, <1>5, <1>6, <1>7, <1>8, <1>9, <1>10, <1>11, <1>12, <1>13, <1>14, <1>15, <1>16, <1>17, <1>18, <1>19, <1>20, <1>21, <1>23, <1>24 DEF Statement

LEMMA StatementSent ==
  ASSUME Typed, NEW t \in Requests, Statement(t)
  PROVE  SentOf(t)'
<1>1. /\ TableTypes /\ pc \in [Requests -> Places] /\ kind' = kind
      /\ uses \in [Requests -> Requests \cup {None}] /\ SentOf(t)
  BY StatementApart DEF Typed, RequestTypes, Sent
<1>2. CASE LogAudit(t)
  BY <1>1, <1>2, RollbackApart DEF LogAudit, TableTypes, SentOf, Goto, InTransaction, AfterAudit, Rollback
<1>3. CASE Login(t)
  BY <1>1, <1>3, RollbackApart DEF Login, TableTypes, SentOf, Goto, InTransaction, AfterAudit, Rollback
<1>4. CASE CountSessions(t)
  BY <1>1, <1>4, RollbackApart DEF CountSessions, TableTypes, SentOf, Goto, InTransaction, AfterAudit, Rollback
<1>5. CASE EvictSession(t)
  BY <1>1, <1>5, RollbackApart DEF EvictSession, TableTypes, SentOf, Goto, InTransaction, AfterAudit, Rollback
<1>6. CASE EvictToken(t)
  BY <1>1, <1>6, RollbackApart DEF EvictToken, TableTypes, SentOf, Goto, InTransaction, AfterAudit, Rollback
<1>7. CASE Store(t)
  BY <1>1, <1>7, RollbackApart DEF Store, TableTypes, SentOf, Goto, InTransaction, AfterAudit, Rollback
<1>8. CASE Present(t)
  BY <1>1, <1>8, RollbackApart DEF Present, TableTypes, SentOf, Goto, InTransaction, AfterAudit, Rollback
<1>9. CASE LockToken(t)
  BY <1>1, <1>9, RollbackApart DEF LockToken, TableTypes, SentOf, Goto, InTransaction, AfterAudit, Rollback
<1>10. CASE LockSession(t)
  BY <1>1, <1>10, RollbackApart DEF LockSession, TableTypes, SentOf, Goto, InTransaction, AfterAudit, Rollback
<1>11. CASE RejectRefresh(t)
  BY <1>1, <1>11, RollbackApart DEF RejectRefresh, TableTypes, SentOf, Goto, InTransaction, AfterAudit, Rollback
<1>12. CASE DeleteToken(t)
  BY <1>1, <1>12, RollbackApart DEF DeleteToken, TableTypes, SentOf, Goto, InTransaction, AfterAudit, Rollback
<1>13. CASE FlushLogout(t)
  BY <1>1, <1>13, RollbackApart DEF FlushLogout, TableTypes, SentOf, Goto, InTransaction, AfterAudit, Rollback
<1>14. CASE UseResetToken(t)
  BY <1>1, <1>14, RollbackApart DEF UseResetToken, TableTypes, SentOf, Goto, InTransaction, AfterAudit, Rollback
<1>15. CASE ChangePassword(t)
  BY <1>1, <1>15, RollbackApart DEF ChangePassword, TableTypes, SentOf, Goto, InTransaction, AfterAudit, Rollback
<1>16. CASE WritePassword(t)
  BY <1>1, <1>16, RollbackApart DEF WritePassword, TableTypes, SentOf, Goto, InTransaction, AfterAudit, Rollback
<1>17. CASE ReadTokens(t)
  BY <1>1, <1>17, RollbackApart DEF ReadTokens, TableTypes, SentOf, Goto, InTransaction, AfterAudit, Rollback
<1>18. CASE RevokeToken(t)
  BY <1>1, <1>18, RollbackApart DEF RevokeToken, TableTypes, SentOf, Goto, InTransaction, AfterAudit, Rollback
<1>19. CASE ReadSessions(t)
  BY <1>1, <1>19, RollbackApart DEF ReadSessions, TableTypes, SentOf, Goto, InTransaction, AfterAudit, Rollback
<1>20. CASE RevokeSession(t)
  BY <1>1, <1>20, RollbackApart DEF RevokeSession, TableTypes, SentOf, Goto, InTransaction, AfterAudit, Rollback
<1>21. CASE EndRevoking(t)
  BY <1>1, <1>21, RollbackApart DEF EndRevoking, TableTypes, SentOf, Goto, InTransaction, AfterAudit, Rollback
<1>23. CASE PickOldest(t)
  BY <1>1, <1>23, RollbackApart DEF PickOldest, TableTypes, SentOf, Goto, InTransaction, AfterAudit, Rollback
<1>24. CASE ReadToken(t)
  BY <1>1, <1>24, RollbackApart DEF ReadToken, TableTypes, SentOf, Goto, InTransaction, AfterAudit, Rollback
<1>22. QED
  BY <1>2, <1>3, <1>4, <1>5, <1>6, <1>7, <1>8, <1>9, <1>10, <1>11, <1>12, <1>13, <1>14, <1>15, <1>16, <1>17, <1>18, <1>19, <1>20, <1>21, <1>23, <1>24 DEF Statement

(* What a commit does to the tables.                                       *)
New(t) == IF draft[t].stored THEN {t} ELSE {}

LEMMA CommitTables ==
  ASSUME Typed, NEW t \in Requests, Commit(t)
  PROVE  /\ tokens' = (tokens \ draft[t].deleted) \cup New(t)
         /\ DOMAIN sessions' = DOMAIN sessions \cup New(t)
         /\ \A s \in New(t) : sessions'[s] = NewSession(t)
         /\ \A s \in DOMAIN sessions \ New(t) :
              /\ sessions'[s].revoked = (sessions[s].revoked \/ s \in draft[t].revoked)
              /\ sessions'[s].born = sessions[s].born
              /\ sessions'[s].parent = sessions[s].parent
         /\ kind' = kind /\ TableTypes'
<1>1. draft[t] \in Draft /\ \A s \in DOMAIN sessions : sessions[s] \in Session
  BY DEF Typed, RequestTypes, TableTypes
<1>2. /\ tokens' = (tokens \ draft[t].deleted) \cup New(t) /\ kind' = kind
      /\ sessions' = [s \in DOMAIN sessions \cup New(t) |->
           IF s \in New(t) THEN NewSession(t)
           ELSE [sessions[s] EXCEPT !.revoked = @ \/ s \in draft[t].revoked]]
  BY DEF Commit, New
<1>3. /\ DOMAIN sessions' = DOMAIN sessions \cup New(t)
      /\ \A s \in New(t) : sessions'[s] = NewSession(t)
      /\ \A s \in DOMAIN sessions \ New(t) :
           sessions'[s] = [sessions[s] EXCEPT !.revoked = @ \/ s \in draft[t].revoked]
  BY <1>2
<1>4. ASSUME NEW s \in DOMAIN sessions \ New(t)
      PROVE  /\ sessions'[s].revoked = (sessions[s].revoked \/ s \in draft[t].revoked)
             /\ sessions'[s].born = sessions[s].born
             /\ sessions'[s].parent = sessions[s].parent
             /\ sessions'[s] \in Session
  <2>1. sessions[s] \in Session /\ sessions'[s] = [sessions[s] EXCEPT !.revoked = @ \/ s \in draft[t].revoked]
    BY <1>1, <1>3
  <2>2. \A r \in Session, b \in BOOLEAN :
           LET q == [r EXCEPT !.revoked = b]
           IN  q \in Session /\ q.revoked = b /\ q.born = r.born /\ q.parent = r.parent
    BY DEF Session
  <2>3. (sessions[s].revoked \/ s \in draft[t].revoked) \in BOOLEAN
    OBVIOUS
  <2>4. QED
    BY <2>1, <2>2, <2>3, Zenon
<1>5. NewSession(t) \in Session
  BY DEF NewSession, Session, Typed, TableTypes, RequestTypes
<1>6. TableTypes'
  <2>1. tokens' \subseteq Requests /\ DOMAIN sessions' \subseteq Requests
    BY <1>2, <1>3 DEF New, Typed, TableTypes
  <2>8. IsFiniteSet(DOMAIN sessions')
    <3>1. IsFiniteSet(New(t)) /\ IsFiniteSet(DOMAIN sessions)
      BY FS_EmptySet, FS_Singleton DEF New, Typed, TableTypes
    <3>2. IsFiniteSet(DOMAIN sessions \cup New(t))
      BY <3>1, FS_Union
    <3>3. QED
      BY <1>3, <3>2
  <2>2. \A s \in DOMAIN sessions' : sessions'[s] \in Session
    BY <1>3, <1>4, <1>5
  <2>3. resets' \in [ResetTokens -> Requests \cup {None}]
    BY DEF Commit, Typed, TableTypes
  <2>4. clock' = clock + Cardinality(New(t))
    BY DEF Commit, New
  <2>5. Cardinality(New(t)) \in Nat
    BY FS_EmptySet, FS_Singleton DEF New
  <2>6. clock' \in Nat
    BY <2>4, <2>5 DEF Typed, TableTypes
  <2>7. QED
    BY <2>1, <2>2, <2>3, <2>6, <2>8, <1>2 DEF TableTypes, Typed
<1>7. QED
  BY <1>2, <1>3, <1>4, <1>6

LEMMA CommitApart ==
  ASSUME Typed, NEW t \in Requests, Commit(t)
  PROVE  /\ Apart(t) /\ RequestTypes'
         /\ pc'[t] = "done" /\ held'[t] = {} /\ draft'[t] = NoDraft
         /\ uses'[t] = uses[t] /\ todo'[t] = todo[t] /\ old'[t] = old[t]
BY DEF Commit, Typed, RequestTypes, Apart, Goto, Places, NoDraft, Draft

(* Every step is a statement, an end or nothing.                           *)
LEMMA Steps ==
  ASSUME [Next]_vars
  PROVE  \/ UNCHANGED vars
         \/ \E t \in Requests : Statement(t) \/ Rollback(t) \/ Commit(t)
<1>1. ASSUME NEW t \in Requests, AbortDeadlock(t)
      PROVE  Rollback(t)
  BY <1>1 DEF AbortDeadlock
<1>2. QED
  BY <1>1 DEF Next, Work, Statement, Fail, RefuseExpired

LEMMA OthersSent ==
  ASSUME Typed, NEW t \in Requests, Apart(t), kind' = kind, SentOf(t)'
  PROVE  Sent'
BY DEF Apart, Typed, Sent, SentOf, InTransaction

LEMMA TypedStep ==
  ASSUME Typed, [Next]_vars
  PROVE  Typed'
<1>1. CASE UNCHANGED vars
  BY <1>1 DEF vars, Typed, TableTypes, RequestTypes, Sent, SentOf, InTransaction
<1>2. ASSUME NEW t \in Requests, Statement(t)
      PROVE  Typed'
  BY <1>2, StatementApart, StatementSent, OthersSent DEF Typed, TableTypes, tables
<1>3. ASSUME NEW t \in Requests, Rollback(t)
      PROVE  Typed'
  <2>1. SentOf(t)'
    BY <1>3, RollbackApart DEF SentOf, InTransaction
  <2>2. QED
    BY <1>3, <2>1, RollbackApart, OthersSent DEF Typed, TableTypes, tables
<1>4. ASSUME NEW t \in Requests, Commit(t)
      PROVE  Typed'
  <2>1. SentOf(t)'
    BY <1>4, CommitApart DEF SentOf, InTransaction
  <2>2. QED
    BY <1>4, <2>1, CommitApart, CommitTables, OthersSent DEF Typed
<1>5. QED
  BY <1>1, <1>2, <1>3, <1>4, Steps

-----------------------------------------------------------------------------
(* Where a request is, and what it has done by then.                       *)

RouteOf(t) ==
  /\ pc[t] = "new" => draft[t] = NoDraft /\ held[t] = {} /\ old[t] = {}
  /\ pc[t] \in {"count", "pick", "evict", "evictToken"} => kind[t] \in {"login", "refresh"}
  /\ pc[t] = "audit" => kind[t] # "refresh"
  /\ pc[t] \in {"user", "readTokens", "tokens", "sessions"} => kind[t] \in {"reset", "change"}
  /\ kind[t] = "logout" /\ pc[t] \in {"token", "delete", "audit", "flush"} => draft[t].revoked = {}
  /\ draft[t].stored => pc[t] = "commit" /\ kind[t] \in {"login", "refresh"}
  /\ kind[t] \notin {"reset", "change"} => old[t] = {}
  /\ kind[t] \notin {"refresh", "logout"} => uses[t] = None
  /\ uses[t] \in DOMAIN sessions \cup {None} /\ old[t] \subseteq DOMAIN sessions

(* A request that exchanges its token has it locked, and means to delete   *)
(* it.                                                                     *)
Rotating(t) == kind[t] = "refresh" /\ pc[t] \in {"session", "count", "pick", "evict", "evictToken", "commit"}

RotatesOf(t) ==
  Rotating(t) =>
    /\ uses[t] \in tokens /\ TokenRow(uses[t]) \in held[t]
    /\ pc[t] # "session" => uses[t] \in draft[t].deleted

(* A deleted token is locked, and its session is revoked, or will be by    *)
(* the same commit.                                                        *)
DeletesOf(t) ==
  \A x \in draft[t].deleted :
    /\ x \in DOMAIN sessions /\ TokenRow(x) \in held[t]
    /\ \/ sessions[x].revoked
       \/ x \in draft[t].revoked
       \/ kind[t] = "logout" /\ pc[t] \in {"audit", "flush"} /\ x \in todo[t]

LEMMA FlushWrites ==
  ASSUME Typed, NEW t \in Requests, FlushLogout(t)
  PROVE  /\ pc[t] = "flush" /\ pc'[t] = "commit" /\ uses' = uses /\ old' = old
         /\ held[t] \subseteq held'[t]
         /\ draft'[t].deleted = draft[t].deleted /\ draft'[t].stored = draft[t].stored
         /\ draft'[t].revoked = (IF todo[t] = {} THEN draft[t].revoked ELSE todo[t])
<1>1. /\ draft \in [Requests -> Draft] /\ held \in [Requests -> SUBSET Rows]
      /\ pc \in [Requests -> Places]
  BY DEF Typed, RequestTypes
<1>2. CASE todo[t] = {}
  BY <1>1, <1>2 DEF FlushLogout, Goto
<1>3. CASE todo[t] # {}
  BY <1>1, <1>3 DEF FlushLogout, Goto, Take, Draft
<1>4. QED
  BY <1>2, <1>3

LEMMA DeleteWrites ==
  ASSUME Typed, NEW t \in Requests, DeleteToken(t)
  PROVE  /\ pc[t] = "delete" /\ pc'[t] \in {"audit", "flush"}
         /\ held'[t] = held[t] \cup {TokenRow(uses[t])}
         /\ draft'[t].deleted = {uses[t]} \cap tokens /\ draft'[t].revoked = draft[t].revoked
         /\ todo'[t] = {uses[t]} \cap Live(t)
<1>1. /\ draft \in [Requests -> Draft] /\ held \in [Requests -> SUBSET Rows]
      /\ pc \in [Requests -> Places] /\ todo \in [Requests -> SUBSET Requests]
  BY DEF Typed, RequestTypes
<1>2. QED
  BY <1>1 DEF DeleteToken, Goto, Take, Draft

LEMMA StatementRoute ==
  ASSUME Typed, NEW t \in Requests, Statement(t), RouteOf(t)
  PROVE  RouteOf(t)'
<1>1. /\ TableTypes /\ RequestTypes /\ SentOf(t) /\ kind' = kind /\ sessions' = sessions
      /\ pc \in [Requests -> Places] /\ draft \in [Requests -> Draft]
      /\ kind[t] \in Kinds
  BY StatementApart, LoadsAssumption DEF Typed, TableTypes, RequestTypes, Sent, tables
<1>2. CASE LogAudit(t)
  BY <1>1, <1>2 DEF LogAudit, RouteOf, SentOf, Goto, Take, AfterAudit, Kinds, NoDraft, RequestTypes, Draft
<1>3. CASE Login(t)
  BY <1>1, <1>3 DEF Login, RouteOf, SentOf, Goto, Take, AfterAudit, Kinds, NoDraft, RequestTypes, Draft
<1>4. CASE CountSessions(t)
  BY <1>1, <1>4 DEF CountSessions, RouteOf, SentOf, Goto, Take, AfterAudit, Kinds, NoDraft, RequestTypes, Draft
<1>5. CASE EvictSession(t)
  BY <1>1, <1>5 DEF EvictSession, RouteOf, SentOf, Goto, Take, AfterAudit, Kinds, NoDraft, RequestTypes, Draft
<1>6. CASE EvictToken(t)
  BY <1>1, <1>6, RollbackApart DEF EvictToken, RouteOf, Goto, NoDraft, RequestTypes
<1>7. CASE Store(t)
  BY <1>1, <1>7 DEF Store, RouteOf, SentOf, Goto, Take, AfterAudit, Kinds, NoDraft, RequestTypes, Draft
<1>8. CASE Present(t)
  BY <1>1, <1>8 DEF Present, RouteOf, SentOf, Goto, Take, AfterAudit, Kinds, NoDraft, RequestTypes, Draft
<1>9. CASE LockToken(t)
  BY <1>1, <1>9 DEF LockToken, RouteOf, SentOf, Goto, Take, AfterAudit, Kinds, NoDraft, RequestTypes, Draft
<1>10. CASE LockSession(t)
  BY <1>1, <1>10 DEF LockSession, RouteOf, SentOf, Goto, Take, AfterAudit, Kinds, NoDraft, RequestTypes, Draft
<1>11. CASE RejectRefresh(t)
  BY <1>1, <1>11, RollbackApart DEF RejectRefresh, RouteOf, Goto, NoDraft, RequestTypes
<1>12. CASE DeleteToken(t)
  BY <1>1, <1>12 DEF DeleteToken, RouteOf, SentOf, Goto, Take, AfterAudit, Kinds, NoDraft, RequestTypes, Draft
<1>13. CASE FlushLogout(t)
  BY <1>1, <1>13, FlushWrites DEF RouteOf, SentOf
<1>14. CASE UseResetToken(t)
  BY <1>1, <1>14 DEF UseResetToken, RouteOf, SentOf, Goto, Take, AfterAudit, Kinds, NoDraft, RequestTypes, Draft
<1>15. CASE ChangePassword(t)
  BY <1>1, <1>15 DEF ChangePassword, RouteOf, SentOf, Goto, Take, AfterAudit, Kinds, NoDraft, RequestTypes, Draft
<1>16. CASE WritePassword(t)
  BY <1>1, <1>16 DEF WritePassword, RouteOf, SentOf, Goto, Take, AfterAudit, Kinds, NoDraft, RequestTypes, Draft
<1>17. CASE ReadTokens(t)
  BY <1>1, <1>17 DEF ReadTokens, RouteOf, SentOf, Goto, Take, AfterAudit, Kinds, NoDraft, RequestTypes, Draft
<1>18. CASE RevokeToken(t)
  BY <1>1, <1>18 DEF RevokeToken, RouteOf, SentOf, Goto, Take, AfterAudit, Kinds, NoDraft, RequestTypes, Draft
<1>19. CASE ReadSessions(t)
  BY <1>1, <1>19 DEF ReadSessions, RouteOf, SentOf, Goto, Take, AfterAudit, Kinds, NoDraft, RequestTypes, Draft
<1>20. CASE RevokeSession(t)
  BY <1>1, <1>20 DEF RevokeSession, RouteOf, SentOf, Goto, Take, AfterAudit, Kinds, NoDraft, RequestTypes, Draft
<1>21. CASE EndRevoking(t)
  BY <1>1, <1>21 DEF EndRevoking, RouteOf, SentOf, Goto, Take, AfterAudit, Kinds, NoDraft, RequestTypes, Draft
<1>23. CASE PickOldest(t)
  BY <1>1, <1>23 DEF PickOldest, RouteOf, SentOf, Goto, Take, AfterAudit, Kinds, NoDraft, RequestTypes, Draft
<1>24. CASE ReadToken(t)
  BY <1>1, <1>24 DEF ReadToken, RouteOf, SentOf, Goto, Take, AfterAudit, Kinds, NoDraft, RequestTypes, Draft
<1>22. QED
  BY <1>2, <1>3, <1>4, <1>5, <1>6, <1>7, <1>8, <1>9, <1>10, <1>11, <1>12, <1>13, <1>14, <1>15, <1>16, <1>17, <1>18, <1>19, <1>20, <1>21, <1>23, <1>24 DEF Statement

LEMMA StatementRotates ==
  ASSUME Typed, NEW t \in Requests, Statement(t), RouteOf(t), RotatesOf(t)
  PROVE  RotatesOf(t)'
<1>1. /\ TableTypes /\ RequestTypes /\ SentOf(t) /\ kind' = kind /\ tokens' = tokens
      /\ kind[t] \in Kinds
  BY StatementApart, LoadsAssumption DEF Typed, TableTypes, RequestTypes, Sent, tables
<1>2. CASE LogAudit(t)
  BY <1>1, <1>2 DEF LogAudit, RouteOf, SentOf, RotatesOf, Rotating, Goto, Take, AfterAudit, Kinds, RequestTypes, Draft
<1>3. CASE Login(t)
  BY <1>1, <1>3 DEF Login, RouteOf, SentOf, RotatesOf, Rotating, Goto, Take, AfterAudit, Kinds, RequestTypes, Draft
<1>4. CASE CountSessions(t)
  BY <1>1, <1>4 DEF CountSessions, RouteOf, SentOf, RotatesOf, Rotating, Goto, Take, AfterAudit, Kinds, RequestTypes, Draft
<1>5. CASE EvictSession(t)
  BY <1>1, <1>5 DEF EvictSession, RouteOf, SentOf, RotatesOf, Rotating, Goto, Take, AfterAudit, Kinds, RequestTypes, Draft
<1>6. CASE EvictToken(t)
  BY <1>1, <1>6, RollbackApart DEF EvictToken, RotatesOf, Rotating, Goto, NoDraft, RequestTypes, Take
<1>7. CASE Store(t)
  BY <1>1, <1>7 DEF Store, RouteOf, SentOf, RotatesOf, Rotating, Goto, Take, AfterAudit, Kinds, RequestTypes, Draft
<1>8. CASE Present(t)
  BY <1>1, <1>8 DEF Present, RouteOf, SentOf, RotatesOf, Rotating, Goto, Take, AfterAudit, Kinds, RequestTypes, Draft
<1>9. CASE LockToken(t)
  BY <1>1, <1>9 DEF LockToken, RouteOf, SentOf, RotatesOf, Rotating, Goto, Take, AfterAudit, Kinds, RequestTypes, Draft
<1>10. CASE LockSession(t)
  BY <1>1, <1>10 DEF LockSession, RouteOf, SentOf, RotatesOf, Rotating, Goto, Take, AfterAudit, Kinds, RequestTypes, Draft
<1>11. CASE RejectRefresh(t)
  BY <1>1, <1>11, RollbackApart DEF RejectRefresh, RotatesOf, Rotating, Goto, NoDraft, RequestTypes, Take
<1>12. CASE DeleteToken(t)
  BY <1>1, <1>12 DEF DeleteToken, RouteOf, SentOf, RotatesOf, Rotating, Goto, Take, AfterAudit, Kinds, RequestTypes, Draft
<1>13. CASE FlushLogout(t)
  BY <1>1, <1>13 DEF FlushLogout, RouteOf, SentOf, RotatesOf, Rotating, Goto, Take, AfterAudit, Kinds, RequestTypes, Draft
<1>14. CASE UseResetToken(t)
  BY <1>1, <1>14 DEF UseResetToken, RouteOf, SentOf, RotatesOf, Rotating, Goto, Take, AfterAudit, Kinds, RequestTypes, Draft
<1>15. CASE ChangePassword(t)
  BY <1>1, <1>15 DEF ChangePassword, RouteOf, SentOf, RotatesOf, Rotating, Goto, Take, AfterAudit, Kinds, RequestTypes, Draft
<1>16. CASE WritePassword(t)
  BY <1>1, <1>16 DEF WritePassword, RouteOf, SentOf, RotatesOf, Rotating, Goto, Take, AfterAudit, Kinds, RequestTypes, Draft
<1>17. CASE ReadTokens(t)
  BY <1>1, <1>17 DEF ReadTokens, RouteOf, SentOf, RotatesOf, Rotating, Goto, Take, AfterAudit, Kinds, RequestTypes, Draft
<1>18. CASE RevokeToken(t)
  BY <1>1, <1>18 DEF RevokeToken, RouteOf, SentOf, RotatesOf, Rotating, Goto, Take, AfterAudit, Kinds, RequestTypes, Draft
<1>19. CASE ReadSessions(t)
  BY <1>1, <1>19 DEF ReadSessions, RouteOf, SentOf, RotatesOf, Rotating, Goto, Take, AfterAudit, Kinds, RequestTypes, Draft
<1>20. CASE RevokeSession(t)
  BY <1>1, <1>20 DEF RevokeSession, RouteOf, SentOf, RotatesOf, Rotating, Goto, Take, AfterAudit, Kinds, RequestTypes, Draft
<1>21. CASE EndRevoking(t)
  BY <1>1, <1>21 DEF EndRevoking, RouteOf, SentOf, RotatesOf, Rotating, Goto, Take, AfterAudit, Kinds, RequestTypes, Draft
<1>23. CASE PickOldest(t)
  BY <1>1, <1>23 DEF PickOldest, RouteOf, SentOf, RotatesOf, Rotating, Goto, Take, AfterAudit, Kinds, RequestTypes, Draft
<1>24. CASE ReadToken(t)
  BY <1>1, <1>24 DEF ReadToken, RouteOf, SentOf, RotatesOf, Rotating, Goto, Take, AfterAudit, Kinds, RequestTypes, Draft
<1>22. QED
  BY <1>2, <1>3, <1>4, <1>5, <1>6, <1>7, <1>8, <1>9, <1>10, <1>11, <1>12, <1>13, <1>14, <1>15, <1>16, <1>17, <1>18, <1>19, <1>20, <1>21, <1>23, <1>24 DEF Statement

LEMMA StatementDeletes ==
  ASSUME Typed, NEW t \in Requests, Statement(t), RouteOf(t), RotatesOf(t), DeletesOf(t)
  PROVE  DeletesOf(t)'
<1>1. /\ TableTypes /\ RequestTypes /\ SentOf(t) /\ kind' = kind /\ sessions' = sessions
      /\ kind[t] \in Kinds
  BY StatementApart, LoadsAssumption DEF Typed, TableTypes, RequestTypes, Sent, tables
<1>2. CASE LogAudit(t)
  BY <1>1, <1>2 DEF LogAudit, RouteOf, SentOf, RotatesOf, Rotating, DeletesOf, Goto, Take, Live, AfterAudit, Kinds, NoDraft, RequestTypes, Draft
<1>3. CASE Login(t)
  BY <1>1, <1>3 DEF Login, RouteOf, SentOf, RotatesOf, Rotating, DeletesOf, Goto, Take, Live, AfterAudit, Kinds, NoDraft, RequestTypes, Draft
<1>4. CASE CountSessions(t)
  BY <1>1, <1>4 DEF CountSessions, RouteOf, SentOf, RotatesOf, Rotating, DeletesOf, Goto, Take, Live, AfterAudit, Kinds, NoDraft, RequestTypes, Draft
<1>5. CASE EvictSession(t)
  BY <1>1, <1>5 DEF EvictSession, RouteOf, SentOf, RotatesOf, Rotating, DeletesOf, Goto, Take, Live, AfterAudit, Kinds, NoDraft, RequestTypes, Draft
<1>6. CASE EvictToken(t)
  BY <1>1, <1>6, RollbackApart DEF EvictToken, DeletesOf, RouteOf, Goto, NoDraft, RequestTypes, Take
<1>7. CASE Store(t)
  BY <1>1, <1>7 DEF Store, RouteOf, SentOf, RotatesOf, Rotating, DeletesOf, Goto, Take, Live, AfterAudit, Kinds, NoDraft, RequestTypes, Draft
<1>8. CASE Present(t)
  BY <1>1, <1>8 DEF Present, RouteOf, SentOf, RotatesOf, Rotating, DeletesOf, Goto, Take, Live, AfterAudit, Kinds, NoDraft, RequestTypes, Draft
<1>9. CASE LockToken(t)
  BY <1>1, <1>9 DEF LockToken, RouteOf, SentOf, RotatesOf, Rotating, DeletesOf, Goto, Take, Live, AfterAudit, Kinds, NoDraft, RequestTypes, Draft
<1>10. CASE LockSession(t)
  <2>1. /\ Rotating(t) /\ pc[t] = "session" /\ uses[t] \in DOMAIN sessions
    BY <1>1, <1>10, NoneAssumption DEF LockSession, SentOf, InTransaction, Rotating, RouteOf
  <2>2. /\ draft'[t].deleted = {uses[t]} /\ draft'[t].revoked = {uses[t]}
        /\ held[t] \subseteq held'[t]
    BY <1>1, <1>10 DEF LockSession, Take, RequestTypes, Draft
  <2>3. QED
    BY <1>1, <2>1, <2>2 DEF RotatesOf, DeletesOf
<1>11. CASE RejectRefresh(t)
  BY <1>1, <1>11, RollbackApart DEF RejectRefresh, DeletesOf, RouteOf, Goto, NoDraft, RequestTypes, Take
<1>12. CASE DeleteToken(t)
  <2>1. uses[t] \in DOMAIN sessions /\ kind[t] = "logout" /\ draft[t].revoked = {}
    BY <1>1, <1>12, NoneAssumption DEF DeleteToken, SentOf, InTransaction, RouteOf
  <2>2. sessions[uses[t]].revoked \in BOOLEAN
    BY <1>1, <2>1 DEF TableTypes, Session
  <2>3. QED
    BY <1>1, <1>12, <2>1, <2>2, DeleteWrites DEF DeletesOf, Live
<1>13. CASE FlushLogout(t)
  <2>1. todo[t] \cup draft[t].revoked \subseteq draft'[t].revoked
    BY <1>1, <1>13, FlushWrites DEF RouteOf, SentOf
  <2>2. QED
    BY <1>1, <1>13, <2>1, FlushWrites DEF DeletesOf
<1>14. CASE UseResetToken(t)
  BY <1>1, <1>14 DEF UseResetToken, RouteOf, SentOf, RotatesOf, Rotating, DeletesOf, Goto, Take, Live, AfterAudit, Kinds, NoDraft, RequestTypes, Draft
<1>15. CASE ChangePassword(t)
  BY <1>1, <1>15 DEF ChangePassword, RouteOf, SentOf, RotatesOf, Rotating, DeletesOf, Goto, Take, Live, AfterAudit, Kinds, NoDraft, RequestTypes, Draft
<1>16. CASE WritePassword(t)
  BY <1>1, <1>16 DEF WritePassword, RouteOf, SentOf, RotatesOf, Rotating, DeletesOf, Goto, Take, Live, AfterAudit, Kinds, NoDraft, RequestTypes, Draft
<1>17. CASE ReadTokens(t)
  BY <1>1, <1>17 DEF ReadTokens, RouteOf, SentOf, RotatesOf, Rotating, DeletesOf, Goto, Take, Live, AfterAudit, Kinds, NoDraft, RequestTypes, Draft
<1>18. CASE RevokeToken(t)
  BY <1>1, <1>18 DEF RevokeToken, RouteOf, SentOf, RotatesOf, Rotating, DeletesOf, Goto, Take, Live, AfterAudit, Kinds, NoDraft, RequestTypes, Draft
<1>19. CASE ReadSessions(t)
  BY <1>1, <1>19 DEF ReadSessions, RouteOf, SentOf, RotatesOf, Rotating, DeletesOf, Goto, Take, Live, AfterAudit, Kinds, NoDraft, RequestTypes, Draft
<1>20. CASE RevokeSession(t)
  BY <1>1, <1>20 DEF RevokeSession, RouteOf, SentOf, RotatesOf, Rotating, DeletesOf, Goto, Take, Live, AfterAudit, Kinds, NoDraft, RequestTypes, Draft
<1>21. CASE EndRevoking(t)
  BY <1>1, <1>21 DEF EndRevoking, RouteOf, SentOf, RotatesOf, Rotating, DeletesOf, Goto, Take, Live, AfterAudit, Kinds, NoDraft, RequestTypes, Draft
<1>23. CASE PickOldest(t)
  BY <1>1, <1>23 DEF PickOldest, RouteOf, SentOf, RotatesOf, Rotating, DeletesOf, Goto, Take, Live, AfterAudit, Kinds, NoDraft, RequestTypes, Draft
<1>24. CASE ReadToken(t)
  BY <1>1, <1>24 DEF ReadToken, RouteOf, SentOf, RotatesOf, Rotating, DeletesOf, Goto, Take, Live, AfterAudit, Kinds, NoDraft, RequestTypes, Draft
<1>22. QED
  BY <1>2, <1>3, <1>4, <1>5, <1>6, <1>7, <1>8, <1>9, <1>10, <1>11, <1>12, <1>13, <1>14, <1>15, <1>16, <1>17, <1>18, <1>19, <1>20, <1>21, <1>23, <1>24 DEF Statement

-----------------------------------------------------------------------------
(* The tables and the locks.                                               *)

(* A row is locked by one transaction.                                     *)
Exclusive == \A t, u \in Requests : t # u => held[t] \cap held[u] = {}

(* A session is named by a request that has ended.                         *)
Issued == \A s \in DOMAIN sessions : pc[s] \in {"done", "failed"}

(* A token that was exchanged is gone.                                     *)
Followed ==
  \A s \in DOMAIN sessions :
     sessions[s].parent # None => sessions[s].parent \in DOMAIN sessions \ tokens

Mine(t) == RouteOf(t) /\ RotatesOf(t) /\ DeletesOf(t)

Agreeing ==
  /\ Typed /\ Exclusive /\ Issued /\ Followed /\ RotatedOnce /\ LiveHaveTokens
  /\ \A t \in Requests : Mine(t)

LEMMA InitAgreeing == Init => Agreeing
BY InitTyped DEF Init, Agreeing, Exclusive, Issued, Followed, RotatedOnce, LiveHaveTokens,
   Mine, RouteOf, RotatesOf, Rotating, DeletesOf, NoDraft

LEMMA StatementHolds ==
  ASSUME Typed, NEW t \in Requests, Statement(t)
  PROVE  /\ \A u \in Requests \ {t} : (held'[t] \ held[t]) \cap held[u] = {}
         /\ pc[t] \notin {"done", "failed"}
<1>1. /\ held \in [Requests -> SUBSET Rows] /\ pc \in [Requests -> Places]
  BY DEF Typed, RequestTypes
<1>2. CASE LogAudit(t)
  BY <1>1, <1>2 DEF LogAudit, Take, Holders
<1>3. CASE Login(t)
  BY <1>1, <1>3 DEF Login, Take, Holders
<1>4. CASE CountSessions(t)
  BY <1>1, <1>4 DEF CountSessions, Take, Holders
<1>5. CASE EvictSession(t)
  BY <1>1, <1>5 DEF EvictSession, Take, Holders
<1>6. CASE EvictToken(t)
  BY <1>1, <1>6 DEF EvictToken, Take, Holders, Rollback
<1>7. CASE Store(t)
  BY <1>1, <1>7 DEF Store, Take, Holders
<1>8. CASE Present(t)
  BY <1>1, <1>8 DEF Present, Take, Holders
<1>9. CASE LockToken(t)
  BY <1>1, <1>9 DEF LockToken, Take, Holders
<1>10. CASE LockSession(t)
  BY <1>1, <1>10 DEF LockSession, Take, Holders
<1>11. CASE RejectRefresh(t)
  BY <1>1, <1>11 DEF RejectRefresh, Take, Holders, Rollback
<1>12. CASE DeleteToken(t)
  BY <1>1, <1>12 DEF DeleteToken, Take, Holders
<1>13. CASE FlushLogout(t)
  BY <1>1, <1>13 DEF FlushLogout, Take, Holders
<1>14. CASE UseResetToken(t)
  BY <1>1, <1>14 DEF UseResetToken, Take, Holders
<1>15. CASE ChangePassword(t)
  BY <1>1, <1>15 DEF ChangePassword, Take, Holders
<1>16. CASE WritePassword(t)
  BY <1>1, <1>16 DEF WritePassword, Take, Holders
<1>17. CASE ReadTokens(t)
  BY <1>1, <1>17 DEF ReadTokens, Take, Holders
<1>18. CASE RevokeToken(t)
  BY <1>1, <1>18 DEF RevokeToken, Take, Holders
<1>19. CASE ReadSessions(t)
  BY <1>1, <1>19 DEF ReadSessions, Take, Holders
<1>20. CASE RevokeSession(t)
  BY <1>1, <1>20 DEF RevokeSession, Take, Holders
<1>21. CASE EndRevoking(t)
  BY <1>1, <1>21 DEF EndRevoking, Take, Holders
<1>23. CASE PickOldest(t)
  BY <1>1, <1>23 DEF PickOldest, Take, Holders
<1>24. CASE ReadToken(t)
  BY <1>1, <1>24 DEF ReadToken, Take, Holders
<1>22. QED
  BY <1>2, <1>3, <1>4, <1>5, <1>6, <1>7, <1>8, <1>9, <1>10, <1>11, <1>12, <1>13, <1>14, <1>15, <1>16, <1>17, <1>18, <1>19, <1>20, <1>21, <1>23, <1>24 DEF Statement

LEMMA ExclusiveStep ==
  ASSUME Exclusive, NEW t \in Requests, Apart(t),
         \A u \in Requests \ {t} : (held'[t] \ held[t]) \cap held[u] = {}
  PROVE  Exclusive'
BY DEF Exclusive, Apart

(* Another request's share is left alone when no table is written.         *)
LEMMA OthersMine ==
  ASSUME NEW t \in Requests, NEW u \in Requests \ {t}, Apart(t), UNCHANGED <<tables, kind>>, Mine(u)
  PROVE  Mine(u)'
BY DEF Apart, tables, Mine, RouteOf, RotatesOf, Rotating, DeletesOf

LEMMA QuietAgreeing ==
  ASSUME Agreeing, Typed', NEW t \in Requests, Apart(t), UNCHANGED <<tables, kind>>, Mine(t)',
         \A u \in Requests \ {t} : (held'[t] \ held[t]) \cap held[u] = {},
         t \in DOMAIN sessions => pc'[t] \in {"done", "failed"}
  PROVE  Agreeing'
<1>1. Exclusive'
  BY ExclusiveStep DEF Agreeing
<1>2. \A u \in Requests : Mine(u)'
  BY OthersMine DEF Agreeing
<1>3. Issued'
  BY DEF Agreeing, Issued, Apart, tables, Typed, TableTypes
<1>4. Followed' /\ RotatedOnce' /\ LiveHaveTokens'
  BY DEF Agreeing, Followed, RotatedOnce, LiveHaveTokens, tables
<1>5. QED
  BY <1>1, <1>2, <1>3, <1>4 DEF Agreeing

LEMMA StatementAgreeing ==
  ASSUME Agreeing, NEW t \in Requests, Statement(t)
  PROVE  Agreeing'
<1>1. Typed /\ Mine(t) /\ Issued
  BY DEF Agreeing
<1>2. Typed'
  BY <1>1, TypedStep DEF Next, Work, Statement
<1>3. Mine(t)'
  BY <1>1, StatementRoute, StatementRotates, StatementDeletes DEF Mine
<1>4. t \notin DOMAIN sessions
  BY <1>1, StatementHolds DEF Issued
<1>5. QED
  BY <1>1, <1>2, <1>3, <1>4, StatementApart, StatementHolds, QuietAgreeing

LEMMA RollbackAgreeing ==
  ASSUME Agreeing, Typed', NEW t \in Requests, Rollback(t)
  PROVE  Agreeing'
<1>1. Typed /\ Mine(t)
  BY DEF Agreeing
<1>2. Mine(t)'
  BY <1>1, RollbackApart DEF Mine, RouteOf, RotatesOf, Rotating, DeletesOf, NoDraft, tables
<1>3. QED
  BY <1>1, <1>2, RollbackApart, QuietAgreeing

(* What a request that commits has ready.                                  *)
LEMMA CommitReady ==
  ASSUME Agreeing, NEW t \in Requests, Commit(t)
  PROVE  /\ pc[t] = "commit" /\ t \notin DOMAIN sessions
         /\ New(t) \subseteq {t}
         /\ draft[t].deleted \subseteq DOMAIN sessions
         /\ \A x \in draft[t].deleted : TokenRow(x) \in held[t] /\ (sessions[x].revoked \/ x \in draft[t].revoked)
         /\ t \in New(t) /\ uses[t] # None =>
              Rotating(t) /\ uses[t] \in tokens \cap draft[t].deleted /\ TokenRow(uses[t]) \in held[t]
<1>1. pc[t] = "commit" /\ t \notin DOMAIN sessions
  BY DEF Commit, Agreeing, Issued
<1>2. RouteOf(t) /\ RotatesOf(t) /\ DeletesOf(t)
  BY DEF Agreeing, Mine
<1>3. ASSUME t \in New(t), uses[t] # None
      PROVE  Rotating(t)
  BY <1>1, <1>2, <1>3 DEF New, RouteOf, Rotating
<1>4. QED
  BY <1>1, <1>2, <1>3 DEF New, RotatesOf, DeletesOf

LEMMA CommitOthersMine ==
  ASSUME Agreeing, NEW t \in Requests, Commit(t), NEW u \in Requests \ {t}
  PROVE  Mine(u)'
<1>1. /\ pc'[u] = pc[u] /\ held'[u] = held[u] /\ uses'[u] = uses[u] /\ kind' = kind
      /\ draft'[u] = draft[u] /\ todo'[u] = todo[u] /\ old'[u] = old[u]
  BY CommitApart, CommitTables DEF Apart, Agreeing
<1>2. RouteOf(u) /\ RotatesOf(u) /\ DeletesOf(u) /\ held[u] \cap held[t] = {}
  BY DEF Agreeing, Mine, Exclusive
<1>3. /\ DOMAIN sessions' = DOMAIN sessions \cup New(t)
      /\ \A s \in DOMAIN sessions : sessions'[s].revoked = (sessions[s].revoked \/ s \in draft[t].revoked)
      /\ tokens' = (tokens \ draft[t].deleted) \cup New(t)
  BY CommitTables, CommitReady DEF Agreeing
<1>4. RouteOf(u)'
  BY <1>1, <1>2, <1>3 DEF RouteOf
<1>5. RotatesOf(u)'
  BY <1>1, <1>2, <1>3, CommitReady DEF RotatesOf, Rotating
<1>6. DeletesOf(u)'
  BY <1>1, <1>2, <1>3 DEF DeletesOf
<1>7. QED
  BY <1>4, <1>5, <1>6 DEF Mine

LEMMA CommitAgreeing ==
  ASSUME Agreeing, Typed', NEW t \in Requests, Commit(t)
  PROVE  Agreeing'
<1>1. /\ pc[t] = "commit" /\ t \notin DOMAIN sessions /\ New(t) \subseteq {t}
      /\ draft[t].deleted \subseteq DOMAIN sessions
      /\ \A x \in draft[t].deleted : sessions[x].revoked \/ x \in draft[t].revoked
      /\ t \in New(t) /\ uses[t] # None => uses[t] \in tokens \cap draft[t].deleted
  BY CommitReady
<1>2. /\ tokens' = (tokens \ draft[t].deleted) \cup New(t)
      /\ DOMAIN sessions' = DOMAIN sessions \cup New(t)
      /\ t \in New(t) => sessions'[t].parent = uses[t]
      /\ \A s \in DOMAIN sessions :
           /\ sessions'[s].revoked = (sessions[s].revoked \/ s \in draft[t].revoked)
           /\ sessions'[s].parent = sessions[s].parent
  <2>1. Typed
    BY DEF Agreeing
  <2>2. t \in New(t) => sessions'[t].parent = uses[t]
    <3>1. t \in New(t) => sessions'[t] = NewSession(t)
      BY <2>1, CommitTables
    <3>2. NewSession(t).parent = uses[t]
      BY DEF NewSession
    <3>3. QED
      BY <3>1, <3>2
  <2>3. QED
    BY <1>1, <2>1, <2>2, CommitTables
<1>3. /\ Apart(t) /\ pc'[t] = "done" /\ held'[t] = {} /\ draft'[t] = NoDraft
      /\ uses'[t] = uses[t] /\ old'[t] = old[t] /\ kind' = kind
  BY CommitApart, CommitTables DEF Agreeing
<1>4. Exclusive'
  BY <1>3, ExclusiveStep DEF Agreeing
<1>5. Issued'
  BY <1>1, <1>2, <1>3 DEF Agreeing, Issued, Apart, Typed, TableTypes
<1>6. Followed'
  <2>1. ASSUME NEW s \in DOMAIN sessions, sessions'[s].parent # None
        PROVE  sessions'[s].parent \in DOMAIN sessions' \ tokens'
    BY <1>1, <1>2, <2>1 DEF Agreeing, Followed
  <2>2. ASSUME t \in New(t), sessions'[t].parent # None
        PROVE  sessions'[t].parent \in DOMAIN sessions' \ tokens'
    BY <1>1, <1>2, <2>2
  <2>3. QED
    BY <1>1, <1>2, <2>1, <2>2 DEF Followed
<1>7. RotatedOnce'
  <2>1. ASSUME NEW s \in DOMAIN sessions, NEW r \in DOMAIN sessions,
               sessions'[s].parent = sessions'[r].parent, sessions'[s].parent # None
        PROVE  s = r
    BY <1>2, <2>1 DEF Agreeing, RotatedOnce
  <2>2. ASSUME NEW s \in DOMAIN sessions, t \in New(t), sessions'[t].parent # None
        PROVE  sessions'[s].parent # sessions'[t].parent
    BY <1>1, <1>2, <2>2 DEF Agreeing, Followed
  <2>3. QED
    BY <1>1, <1>2, <2>1, <2>2 DEF RotatedOnce
<1>8. LiveHaveTokens'
  BY <1>1, <1>2 DEF Agreeing, LiveHaveTokens
<1>9. \A u \in Requests : Mine(u)'
  <2>1. RouteOf(t)
    BY DEF Agreeing, Mine
  <2>2. RouteOf(t)'
    BY <1>2, <1>3, <2>1 DEF RouteOf, NoDraft
  <2>3. RotatesOf(t)' /\ DeletesOf(t)'
    BY <1>3 DEF RotatesOf, Rotating, DeletesOf, NoDraft
  <2>4. QED
    BY <2>2, <2>3, CommitOthersMine DEF Mine
<1>10. QED
  BY <1>4, <1>5, <1>6, <1>7, <1>8, <1>9 DEF Agreeing

LEMMA AgreeingStep ==
  ASSUME Agreeing, [Next]_vars
  PROVE  Agreeing'
<1>1. Typed /\ Typed'
  BY TypedStep DEF Agreeing
<1>2. CASE UNCHANGED vars
  BY <1>1, <1>2 DEF vars, Agreeing, Exclusive, Issued, Followed, RotatedOnce, LiveHaveTokens,
     Mine, RouteOf, RotatesOf, Rotating, DeletesOf
<1>3. QED
  BY <1>1, <1>2, Steps, StatementAgreeing, RollbackAgreeing, CommitAgreeing

(* A refresh token is exchanged once, and a session that counts has its    *)
(* token, whatever requests meet.                                          *)
THEOREM SessionsAlwaysAgree == Spec => []SessionsAgree
<1>1. Agreeing => SessionsAgree
  BY TypedIsTypeOK DEF Agreeing, SessionsAgree
<1>2. QED
  BY <1>1, InitAgreeing, AgreeingStep, PTL DEF Spec

-----------------------------------------------------------------------------
(* What a password change ends.                                            *)

(* The sessions there were, and those they were rotated into.              *)
Descends(t) == {s \in DOMAIN sessions : s \in old[t] \/ sessions[s].parent \in old[t]}

(* The tokens there were are locked first: what can still be exchanged     *)
(* from then on is none of them.  Then the sessions are read.              *)
SweepsOf(t) ==
  /\ pc[t] = "tokens" => \A p \in old[t] \cap tokens : p \in todo[t] \/ TokenRow(p) \in held[t]
  /\ kind[t] \in {"reset", "change"} /\ pc[t] \in {"sessions", "audit", "commit"} =>
       \A p \in old[t] \cap tokens : TokenRow(p) \in held[t]
  /\ pc[t] = "sessions" => Descends(t) \subseteq todo[t] \cup draft[t].revoked
  /\ kind[t] \in {"reset", "change"} /\ pc[t] \in {"audit", "commit"} =>
       Descends(t) \subseteq draft[t].revoked

(* No exchange under way brings one of them back.                          *)
Ended ==
  \A t \in Requests : pc[t] = "done" =>
    /\ \A s \in Descends(t) : sessions[s].revoked
    /\ \A u \in Requests : Rotating(u) /\ pc[u] # "session" => uses[u] \notin old[t]

Sweeping == Agreeing /\ Ended /\ \A t \in Requests : SweepsOf(t)

LEMMA StatementSweeps ==
  ASSUME Typed, NEW t \in Requests, Statement(t), RouteOf(t), SweepsOf(t)
  PROVE  SweepsOf(t)'
<1>1. /\ RequestTypes /\ SentOf(t) /\ kind' = kind /\ sessions' = sessions /\ tokens' = tokens
      /\ kind[t] \in Kinds
  BY StatementApart, LoadsAssumption DEF Typed, TableTypes, RequestTypes, Sent, tables
<1>2. CASE LogAudit(t)
  BY <1>1, <1>2 DEF LogAudit, RouteOf, SentOf, SweepsOf, Descends, Goto, Take, AfterAudit, Kinds, RequestTypes, Draft
<1>3. CASE Login(t)
  BY <1>1, <1>3 DEF Login, RouteOf, SentOf, SweepsOf, Descends, Goto, Take, AfterAudit, Kinds, RequestTypes, Draft
<1>4. CASE CountSessions(t)
  BY <1>1, <1>4 DEF CountSessions, RouteOf, SentOf, SweepsOf, Descends, Goto, Take, AfterAudit, Kinds, RequestTypes, Draft
<1>5. CASE EvictSession(t)
  BY <1>1, <1>5 DEF EvictSession, RouteOf, SentOf, SweepsOf, Descends, Goto, Take, AfterAudit, Kinds, RequestTypes, Draft
<1>6. CASE EvictToken(t)
  BY <1>1, <1>6, RollbackApart DEF EvictToken, SweepsOf, RouteOf, Goto, RequestTypes, Take
<1>7. CASE Store(t)
  BY <1>1, <1>7 DEF Store, RouteOf, SentOf, SweepsOf, Descends, Goto, Take, AfterAudit, Kinds, RequestTypes, Draft
<1>8. CASE Present(t)
  BY <1>1, <1>8 DEF Present, RouteOf, SentOf, SweepsOf, Descends, Goto, Take, AfterAudit, Kinds, RequestTypes, Draft
<1>9. CASE LockToken(t)
  BY <1>1, <1>9 DEF LockToken, RouteOf, SentOf, SweepsOf, Descends, Goto, Take, AfterAudit, Kinds, RequestTypes, Draft
<1>10. CASE LockSession(t)
  BY <1>1, <1>10 DEF LockSession, RouteOf, SentOf, SweepsOf, Descends, Goto, Take, AfterAudit, Kinds, RequestTypes, Draft
<1>11. CASE RejectRefresh(t)
  BY <1>1, <1>11, RollbackApart DEF RejectRefresh, SweepsOf, RouteOf, Goto, RequestTypes, Take
<1>12. CASE DeleteToken(t)
  BY <1>1, <1>12 DEF DeleteToken, RouteOf, SentOf, SweepsOf, Descends, Goto, Take, AfterAudit, Kinds, RequestTypes, Draft
<1>13. CASE FlushLogout(t)
  BY <1>1, <1>13 DEF FlushLogout, RouteOf, SentOf, SweepsOf, Descends, Goto, Take, AfterAudit, Kinds, RequestTypes, Draft
<1>14. CASE UseResetToken(t)
  BY <1>1, <1>14 DEF UseResetToken, RouteOf, SentOf, SweepsOf, Descends, Goto, Take, AfterAudit, Kinds, RequestTypes, Draft
<1>15. CASE ChangePassword(t)
  BY <1>1, <1>15 DEF ChangePassword, RouteOf, SentOf, SweepsOf, Descends, Goto, Take, AfterAudit, Kinds, RequestTypes, Draft
<1>16. CASE WritePassword(t)
  BY <1>1, <1>16 DEF WritePassword, RouteOf, SentOf, SweepsOf, Descends, Goto, Take, AfterAudit, Kinds, RequestTypes, Draft
<1>17. CASE ReadTokens(t)
  BY <1>1, <1>17 DEF ReadTokens, RouteOf, SentOf, SweepsOf, Descends, Goto, Take, AfterAudit, Kinds, RequestTypes, Draft
<1>18. CASE RevokeToken(t)
  BY <1>1, <1>18 DEF RevokeToken, RouteOf, SentOf, SweepsOf, Descends, Goto, Take, AfterAudit, Kinds, RequestTypes, Draft
<1>19. CASE ReadSessions(t)
  BY <1>1, <1>19 DEF ReadSessions, RouteOf, SentOf, SweepsOf, Descends, Goto, Take, AfterAudit, Kinds, RequestTypes, Draft
<1>20. CASE RevokeSession(t)
  BY <1>1, <1>20 DEF RevokeSession, RouteOf, SentOf, SweepsOf, Descends, Goto, Take, AfterAudit, Kinds, RequestTypes, Draft
<1>21. CASE EndRevoking(t)
  BY <1>1, <1>21 DEF EndRevoking, RouteOf, SentOf, SweepsOf, Descends, Goto, Take, AfterAudit, Kinds, RequestTypes, Draft
<1>23. CASE PickOldest(t)
  BY <1>1, <1>23 DEF PickOldest, RouteOf, SentOf, SweepsOf, Descends, Goto, Take, AfterAudit, Kinds, RequestTypes, Draft
<1>24. CASE ReadToken(t)
  BY <1>1, <1>24 DEF ReadToken, RouteOf, SentOf, SweepsOf, Descends, Goto, Take, AfterAudit, Kinds, RequestTypes, Draft
<1>22. QED
  BY <1>2, <1>3, <1>4, <1>5, <1>6, <1>7, <1>8, <1>9, <1>10, <1>11, <1>12, <1>13, <1>14, <1>15, <1>16, <1>17, <1>18, <1>19, <1>20, <1>21, <1>23, <1>24 DEF Statement

(* An exchange begins with a session that is not revoked.                  *)
LEMMA StatementExchanges ==
  ASSUME Typed, NEW t \in Requests, Statement(t), RouteOf(t), Rotating(t)', pc'[t] # "session"
  PROVE  /\ uses'[t] = uses[t]
         /\ \/ Rotating(t) /\ pc[t] # "session"
            \/ uses[t] \in DOMAIN sessions /\ ~sessions[uses[t]].revoked
         /\ old'[t] = old[t]
<1>1. /\ RequestTypes /\ SentOf(t) /\ kind' = kind /\ sessions' = sessions /\ kind[t] \in Kinds
  BY StatementApart, LoadsAssumption DEF Typed, TableTypes, RequestTypes, Sent, tables
<1>2. CASE LogAudit(t)
  BY <1>1, <1>2, NoneAssumption DEF LogAudit, RouteOf, SentOf, InTransaction, Rotating, Goto, AfterAudit, Kinds, RequestTypes
<1>3. CASE Login(t)
  BY <1>1, <1>3, NoneAssumption DEF Login, RouteOf, SentOf, InTransaction, Rotating, Goto, AfterAudit, Kinds, RequestTypes
<1>4. CASE CountSessions(t)
  BY <1>1, <1>4, NoneAssumption DEF CountSessions, RouteOf, SentOf, InTransaction, Rotating, Goto, AfterAudit, Kinds, RequestTypes
<1>5. CASE EvictSession(t)
  BY <1>1, <1>5, NoneAssumption DEF EvictSession, RouteOf, SentOf, InTransaction, Rotating, Goto, AfterAudit, Kinds, RequestTypes
<1>6. CASE EvictToken(t)
  BY <1>1, <1>6, RollbackApart DEF EvictToken, Rotating, RouteOf, Goto, RequestTypes, Take
<1>7. CASE Store(t)
  BY <1>1, <1>7, NoneAssumption DEF Store, RouteOf, SentOf, InTransaction, Rotating, Goto, AfterAudit, Kinds, RequestTypes
<1>8. CASE Present(t)
  BY <1>1, <1>8, NoneAssumption DEF Present, RouteOf, SentOf, InTransaction, Rotating, Goto, AfterAudit, Kinds, RequestTypes
<1>9. CASE LockToken(t)
  BY <1>1, <1>9, NoneAssumption DEF LockToken, RouteOf, SentOf, InTransaction, Rotating, Goto, AfterAudit, Kinds, RequestTypes
<1>10. CASE LockSession(t)
  BY <1>1, <1>10, NoneAssumption DEF LockSession, RouteOf, SentOf, InTransaction, Rotating, Goto, AfterAudit, Kinds, RequestTypes
<1>11. CASE RejectRefresh(t)
  BY <1>1, <1>11, RollbackApart DEF RejectRefresh, Rotating, RouteOf, Goto, RequestTypes, Take
<1>12. CASE DeleteToken(t)
  BY <1>1, <1>12, NoneAssumption DEF DeleteToken, RouteOf, SentOf, InTransaction, Rotating, Goto, AfterAudit, Kinds, RequestTypes
<1>13. CASE FlushLogout(t)
  BY <1>1, <1>13, NoneAssumption DEF FlushLogout, RouteOf, SentOf, InTransaction, Rotating, Goto, AfterAudit, Kinds, RequestTypes
<1>14. CASE UseResetToken(t)
  BY <1>1, <1>14, NoneAssumption DEF UseResetToken, RouteOf, SentOf, InTransaction, Rotating, Goto, AfterAudit, Kinds, RequestTypes
<1>15. CASE ChangePassword(t)
  BY <1>1, <1>15, NoneAssumption DEF ChangePassword, RouteOf, SentOf, InTransaction, Rotating, Goto, AfterAudit, Kinds, RequestTypes
<1>16. CASE WritePassword(t)
  BY <1>1, <1>16, NoneAssumption DEF WritePassword, RouteOf, SentOf, InTransaction, Rotating, Goto, AfterAudit, Kinds, RequestTypes
<1>17. CASE ReadTokens(t)
  BY <1>1, <1>17, NoneAssumption DEF ReadTokens, RouteOf, SentOf, InTransaction, Rotating, Goto, AfterAudit, Kinds, RequestTypes
<1>18. CASE RevokeToken(t)
  BY <1>1, <1>18, NoneAssumption DEF RevokeToken, RouteOf, SentOf, InTransaction, Rotating, Goto, AfterAudit, Kinds, RequestTypes
<1>19. CASE ReadSessions(t)
  BY <1>1, <1>19, NoneAssumption DEF ReadSessions, RouteOf, SentOf, InTransaction, Rotating, Goto, AfterAudit, Kinds, RequestTypes
<1>20. CASE RevokeSession(t)
  BY <1>1, <1>20, NoneAssumption DEF RevokeSession, RouteOf, SentOf, InTransaction, Rotating, Goto, AfterAudit, Kinds, RequestTypes
<1>21. CASE EndRevoking(t)
  BY <1>1, <1>21, NoneAssumption DEF EndRevoking, RouteOf, SentOf, InTransaction, Rotating, Goto, AfterAudit, Kinds, RequestTypes
<1>23. CASE PickOldest(t)
  BY <1>1, <1>23, NoneAssumption DEF PickOldest, RouteOf, SentOf, InTransaction, Rotating, Goto, AfterAudit, Kinds, RequestTypes
<1>24. CASE ReadToken(t)
  BY <1>1, <1>24, NoneAssumption DEF ReadToken, RouteOf, SentOf, InTransaction, Rotating, Goto, AfterAudit, Kinds, RequestTypes
<1>22. QED
  BY <1>2, <1>3, <1>4, <1>5, <1>6, <1>7, <1>8, <1>9, <1>10, <1>11, <1>12, <1>13, <1>14, <1>15, <1>16, <1>17, <1>18, <1>19, <1>20, <1>21, <1>23, <1>24 DEF Statement

LEMMA StatementNotDone ==
  ASSUME Typed, NEW t \in Requests, Statement(t)
  PROVE  pc'[t] # "done"
<1>1. pc \in [Requests -> Places]
  BY DEF Typed, RequestTypes
<1>2. QED
  BY <1>1 DEF Statement, LogAudit, Login, CountSessions, PickOldest, EvictSession, EvictToken, Store, Present, LockToken, LockSession, RejectRefresh, ReadToken, DeleteToken, FlushLogout, UseResetToken, ChangePassword, WritePassword, ReadTokens, RevokeToken, ReadSessions, RevokeSession, EndRevoking, Goto, AfterAudit, Rollback

LEMMA QuietSweeps ==
  ASSUME NEW t \in Requests, Apart(t), UNCHANGED <<tables, kind>>,
         NEW u \in Requests \ {t}, SweepsOf(u)
  PROVE  SweepsOf(u)'
BY DEF Apart, tables, SweepsOf, Descends

LEMMA StatementSweeping ==
  ASSUME Sweeping, NEW t \in Requests, Statement(t)
  PROVE  Sweeping'
<1>1. /\ Agreeing' /\ Typed /\ RouteOf(t) /\ SweepsOf(t) /\ Ended
      /\ Apart(t) /\ UNCHANGED <<tables, kind>>
  BY StatementAgreeing, StatementApart DEF Sweeping, Agreeing, Mine
<1>2. \A u \in Requests : SweepsOf(u)'
  BY <1>1, StatementSweeps, QuietSweeps DEF Sweeping
<1>3. ASSUME NEW u \in Requests, pc'[u] = "done"
      PROVE  /\ u # t
             /\ pc[u] = "done" /\ old'[u] = old[u] /\ Descends(u)' = Descends(u)
  <2>1. pc'[t] # "done"
    BY <1>1, StatementNotDone
  <2>2. QED
    BY <1>1, <1>3, <2>1 DEF Apart, Descends, tables
<1>4. ASSUME NEW u \in Requests, pc'[u] = "done",
             NEW v \in Requests, Rotating(v)', pc'[v] # "session"
      PROVE  uses'[v] \notin old'[u]
  <2>1. pc[u] = "done" /\ old'[u] = old[u]
    BY <1>3, <1>4
  <2>2. CASE v # t
    BY <1>1, <1>4, <2>1, <2>2 DEF Apart, Rotating, Ended
  <2>3. CASE v = t
    <3>1. /\ uses'[t] = uses[t]
          /\ \/ Rotating(t) /\ pc[t] # "session"
             \/ uses[t] \in DOMAIN sessions /\ ~sessions[uses[t]].revoked
      BY <1>1, <1>4, <2>3, StatementExchanges
    <3>2. QED
      BY <1>1, <2>1, <2>3, <3>1 DEF Ended, Descends
  <2>4. QED
    BY <2>2, <2>3
<1>5. \A u \in Requests : pc'[u] = "done" => \A s \in Descends(u)' : sessions'[s].revoked
  BY <1>1, <1>3 DEF Ended, tables
<1>6. Ended'
  BY <1>4, <1>5 DEF Ended
<1>7. QED
  BY <1>1, <1>2, <1>6 DEF Sweeping

LEMMA RollbackSweeping ==
  ASSUME Sweeping, Typed', NEW t \in Requests, Rollback(t)
  PROVE  Sweeping'
<1>1. /\ Agreeing' /\ Apart(t) /\ UNCHANGED <<tables, kind>> /\ pc'[t] = "failed" /\ Ended
  BY RollbackAgreeing, RollbackApart DEF Sweeping, Agreeing
<1>2. SweepsOf(t)'
  BY <1>1 DEF SweepsOf
<1>3. \A u \in Requests : SweepsOf(u)'
  BY <1>1, <1>2, QuietSweeps DEF Sweeping
<1>4. Ended'
  BY <1>1 DEF Ended, Apart, Rotating, Descends, tables
<1>5. QED
  BY <1>1, <1>3, <1>4 DEF Sweeping

LEMMA CommitSweeping ==
  ASSUME Sweeping, Typed', NEW t \in Requests, Commit(t)
  PROVE  Sweeping'
<1>1. /\ Agreeing /\ Agreeing' /\ Ended /\ Typed /\ RouteOf(t) /\ kind[t] \in Kinds
  BY CommitAgreeing, LoadsAssumption DEF Sweeping, Agreeing, Mine, Typed, TableTypes
<1>2. /\ pc[t] = "commit" /\ t \notin DOMAIN sessions /\ New(t) \subseteq {t}
      /\ t \in New(t) /\ uses[t] # None =>
           Rotating(t) /\ uses[t] \in tokens \cap draft[t].deleted /\ TokenRow(uses[t]) \in held[t]
  BY <1>1, CommitReady
<1>3. /\ tokens' = (tokens \ draft[t].deleted) \cup New(t)
      /\ DOMAIN sessions' = DOMAIN sessions \cup New(t)
      /\ \A s \in DOMAIN sessions :
           /\ sessions'[s].revoked = (sessions[s].revoked \/ s \in draft[t].revoked)
           /\ sessions'[s].parent = sessions[s].parent
  <2>1. DOMAIN sessions \ New(t) = DOMAIN sessions
    BY <1>2
  <2>2. /\ tokens' = (tokens \ draft[t].deleted) \cup New(t)
        /\ DOMAIN sessions' = DOMAIN sessions \cup New(t)
        /\ \A s \in DOMAIN sessions \ New(t) :
             /\ sessions'[s].revoked = (sessions[s].revoked \/ s \in draft[t].revoked)
             /\ sessions'[s].parent = sessions[s].parent
    BY <1>1, CommitTables, Zenon
  <2>3. QED
    BY <2>1, <2>2, Zenon
<1>4. t \in New(t) => sessions'[t].parent = uses[t]
  <2>1. t \in New(t) => sessions'[t] = NewSession(t)
    BY <1>1, CommitTables
  <2>2. NewSession(t).parent = uses[t]
    BY DEF NewSession
  <2>3. QED
    BY <2>1, <2>2
<1>5. /\ Apart(t) /\ pc'[t] = "done" /\ uses'[t] = uses[t] /\ old'[t] = old[t] /\ kind' = kind
  BY <1>1, CommitApart, CommitTables
<1>6. ASSUME NEW u \in Requests, old[u] \subseteq DOMAIN sessions, old'[u] = old[u]
      PROVE  \/ Descends(u)' = Descends(u)
             \/ t \in New(t) /\ uses[t] \in old[u] /\ uses[t] # None
  BY <1>2, <1>3, <1>4, <1>6, NoneAssumption DEF Descends, Agreeing, Typed, TableTypes
<1>7. ASSUME NEW u \in Requests \ {t}
      PROVE  SweepsOf(u)'
  <2>1. /\ pc'[u] = pc[u] /\ held'[u] = held[u] /\ draft'[u] = draft[u] /\ todo'[u] = todo[u]
        /\ old'[u] = old[u] /\ old[u] \subseteq DOMAIN sessions
        /\ SweepsOf(u) /\ RouteOf(u) /\ held[u] \cap held[t] = {}
    BY <1>1, <1>5 DEF Apart, Agreeing, Mine, RouteOf, Sweeping, Exclusive
  <2>2. old[u] \cap tokens' \subseteq old[u] \cap tokens
    BY <1>2, <1>3, <2>1
  <2>3. CASE Descends(u)' = Descends(u)
    BY <1>5, <2>1, <2>2, <2>3 DEF SweepsOf
  <2>4. CASE t \in New(t) /\ uses[t] \in old[u] /\ uses[t] # None
    <3>1. uses[t] \in old[u] \cap tokens /\ TokenRow(uses[t]) \notin held[u]
      BY <1>2, <2>1, <2>4
    <3>2. /\ pc[u] \notin {"sessions"}
          /\ ~(kind[u] \in {"reset", "change"} /\ pc[u] \in {"sessions", "audit", "commit"})
      BY <2>1, <3>1 DEF SweepsOf, RouteOf
    <3>3. QED
      BY <1>5, <2>1, <2>2, <3>2 DEF SweepsOf
  <2>5. QED
    BY <1>6, <2>1, <2>3, <2>4
<1>8. SweepsOf(t)'
  BY <1>5 DEF SweepsOf
<1>9. ASSUME NEW u \in Requests \ {t}, pc'[u] = "done"
      PROVE  \A s \in Descends(u)' : sessions'[s].revoked
  <2>1. pc[u] = "done" /\ old'[u] = old[u] /\ old[u] \subseteq DOMAIN sessions
    BY <1>1, <1>5, <1>9 DEF Apart, Agreeing, Mine, RouteOf
  <2>2. ~(t \in New(t) /\ uses[t] \in old[u] /\ uses[t] # None)
    BY <1>1, <1>2, <2>1 DEF Ended
  <2>3. Descends(u)' = Descends(u)
    BY <1>6, <2>1, <2>2
  <2>4. QED
    BY <1>1, <1>3, <2>1, <2>3 DEF Ended, Descends
<1>10. \A s \in Descends(t)' : sessions'[s].revoked
  <2>1. CASE kind[t] \in {"reset", "change"}
    <3>1. New(t) = {} /\ Descends(t)' = Descends(t)
      BY <1>1, <1>3, <1>5, <2>1 DEF New, RouteOf, Descends
    <3>2. Descends(t) \subseteq draft[t].revoked
      BY <1>2, <2>1 DEF Sweeping, SweepsOf
    <3>3. QED
      BY <1>3, <3>1, <3>2 DEF Descends
  <2>2. CASE kind[t] \notin {"reset", "change"}
    BY <1>1, <1>5, <2>2 DEF RouteOf, Descends
  <2>3. QED
    BY <2>1, <2>2
<1>11. ASSUME NEW u \in Requests, pc'[u] = "done",
              NEW v \in Requests, Rotating(v)', pc'[v] # "session"
       PROVE  uses'[v] \notin old'[u]
  <2>1. v # t /\ Rotating(v) /\ pc[v] # "session" /\ uses'[v] = uses[v] /\ held[v] \cap held[t] = {}
    BY <1>1, <1>5, <1>11 DEF Rotating, Apart, Agreeing, Exclusive
  <2>2. uses[v] \in tokens /\ TokenRow(uses[v]) \in held[v]
    BY <1>1, <2>1 DEF Agreeing, Mine, RotatesOf
  <2>3. CASE u # t
    BY <1>1, <1>5, <1>11, <2>1, <2>3 DEF Apart, Ended
  <2>4. CASE u = t /\ kind[t] \in {"reset", "change"}
    BY <1>2, <1>5, <2>1, <2>2, <2>4 DEF Sweeping, SweepsOf
  <2>5. CASE u = t /\ kind[t] \notin {"reset", "change"}
    BY <1>1, <1>5, <2>5 DEF RouteOf
  <2>6. QED
    BY <2>3, <2>4, <2>5
<1>12. Ended'
  BY <1>9, <1>10, <1>11 DEF Ended
<1>13. QED
  BY <1>1, <1>7, <1>8, <1>12 DEF Sweeping

LEMMA SweepingStep ==
  ASSUME Sweeping, [Next]_vars
  PROVE  Sweeping'
<1>1. Typed /\ Typed'
  BY TypedStep DEF Sweeping, Agreeing
<1>2. CASE UNCHANGED vars
  <2>1. Agreeing'
    BY <1>2, AgreeingStep DEF Sweeping
  <2>2. QED
    BY <1>2, <2>1 DEF vars, Sweeping, Ended, SweepsOf, Descends, Rotating
<1>3. QED
  BY <1>1, <1>2, Steps, StatementSweeping, RollbackSweeping, CommitSweeping

(* When a password change has ended, every session there was when it began *)
(* to revoke, and every one that was exchanged for such a one meanwhile,   *)
(* is revoked.                                                             *)
THEOREM ChangesEndOthers == Spec => []ChangeEndsOthers
<1>1. Init => Sweeping
  BY InitAgreeing DEF Init, Sweeping, Ended, SweepsOf
<1>2. Sweeping => ChangeEndsOthers
  BY DEF Sweeping, Ended, Descends, ChangeEndsOthers
<1>3. QED
  BY <1>1, <1>2, SweepingStep, PTL DEF Spec

-----------------------------------------------------------------------------
(* How many sessions logins leave.                                         *)

LiveSessions == {s \in DOMAIN sessions : ~sessions[s].revoked}

(* Sessions are finite in number and were created one after the other.     *)
Ordered ==
  /\ IsFiniteSet(DOMAIN sessions)
  /\ \A s \in DOMAIN sessions : sessions[s].born < clock
  /\ \A s, r \in DOMAIN sessions : sessions[s].born = sessions[r].born => s = r

(* From the count on a login has the user's row, and what it leaves and    *)
(* has still to leave alive has room for one more.  Before it picks the    *)
(* oldest that is all but the excess.  The session whose token it is about *)
(* to look at is the one it has just revoked.                              *)
CountsOf(t) ==
  kind[t] = "login" /\ pc[t] \in {"evict", "evictToken", "commit"} =>
    /\ UserRow \in held[t] /\ todo[t] \subseteq DOMAIN sessions
    /\ Cardinality(Live(t) \ todo[t]) <= Limit - 1
    /\ pc[t] = "commit" => todo[t] = {}
    /\ pc[t] = "evictToken" => \E s \in todo[t] \cap draft[t].revoked : IsNextVictim(t, s)

PicksOf(t) ==
  kind[t] = "login" /\ pc[t] = "pick" =>
    UserRow \in held[t] /\ Cardinality(Live(t)) - draft[t].excess <= Limit - 1

NoRefresh == \A t \in Requests : kind[t] # "refresh"

Counting ==
  /\ Agreeing /\ Ordered
  /\ NoRefresh => Cardinality(LiveSessions) <= Limit /\ \A t \in Requests : CountsOf(t) /\ PicksOf(t)

LEMMA Fewer ==
  ASSUME NEW S, IsFiniteSet(S), NEW T \in SUBSET S
  PROVE  /\ IsFiniteSet(T) /\ Cardinality(T) \in Nat /\ Cardinality(S) \in Nat
         /\ Cardinality(T) <= Cardinality(S)
BY FS_Subset, FS_CardinalityType

LEMMA Without ==
  ASSUME NEW S, IsFiniteSet(S), NEW T \in SUBSET S
  PROVE  Cardinality(S \ T) = Cardinality(S) - Cardinality(T)
<1>1. S \cap T = T
  OBVIOUS
<1>2. QED
  BY <1>1, FS_Difference

LEMMA LiveIsFinite ==
  ASSUME Ordered, NEW t \in Requests
  PROVE  /\ IsFiniteSet(Live(t)) /\ Live(t) \subseteq DOMAIN sessions
         /\ IsFiniteSet(LiveSessions) /\ Live(t) = LiveSessions \ draft[t].revoked
<1>1. Live(t) \in SUBSET DOMAIN sessions /\ LiveSessions \in SUBSET DOMAIN sessions
  BY DEF Live, LiveSessions
<1>2. QED
  BY <1>1, Fewer DEF Ordered, Live, LiveSessions

LEMMA StatementCounts ==
  ASSUME Typed, Ordered, NEW t \in Requests, Statement(t), RouteOf(t), CountsOf(t), PicksOf(t)
  PROVE  CountsOf(t)'
<1>1. /\ RequestTypes /\ SentOf(t) /\ kind' = kind /\ sessions' = sessions
      /\ kind[t] \in Kinds /\ Limit \in Nat \ {0}
      /\ draft \in [Requests -> Draft] /\ todo \in [Requests -> SUBSET Requests]
      /\ pc \in [Requests -> Places] /\ held \in [Requests -> SUBSET Rows]
  BY StatementApart, LoadsAssumption, LimitAssumption DEF Typed, TableTypes, RequestTypes, Sent, tables
<1>2. CASE LogAudit(t)
  BY <1>1, <1>2 DEF LogAudit, CountsOf, RouteOf, SentOf, Goto, AfterAudit
<1>3. CASE Login(t)
  BY <1>1, <1>3 DEF Login, CountsOf, RouteOf, SentOf, Goto, AfterAudit
<1>4. CASE CountSessions(t)
  BY <1>1, <1>4 DEF CountSessions, CountsOf, Goto
<1>5. CASE EvictSession(t)
  <2>1. CASE kind[t] = "login"
    <3>1. PICK s \in todo[t] :
               /\ IsNextVictim(t, s) /\ Take(t, SessionRow(s))
               /\ draft' = [draft EXCEPT ![t].revoked = @ \cup {s}]
               /\ IF s \in tokens
                  THEN Goto(t, "evictToken") /\ UNCHANGED todo
                  ELSE todo' = [todo EXCEPT ![t] = @ \ {s}] /\ UNCHANGED pc
      BY <1>5 DEF EvictSession
    <3>2. /\ pc[t] = "evict" /\ draft'[t].revoked = draft[t].revoked \cup {s}
          /\ held[t] \subseteq held'[t]
      BY <1>1, <1>5, <3>1 DEF EvictSession, Take, Draft
    <3>3. /\ UserRow \in held[t] /\ todo[t] \subseteq DOMAIN sessions
          /\ Cardinality(Live(t) \ todo[t]) <= Limit - 1
      BY <2>1, <3>2 DEF CountsOf
    <3>4. CASE s \in tokens
      <4>1. pc'[t] = "evictToken" /\ todo' = todo
        BY <1>1, <3>1, <3>4 DEF Goto
      <4>2. Live(t)' \ todo'[t] = Live(t) \ todo[t]
        BY <1>1, <3>1, <3>2, <4>1 DEF Live
      <4>3. IsNextVictim(t, s)'
        BY <1>1, <3>1, <4>1 DEF IsNextVictim
      <4>4. QED
        BY <1>1, <3>1, <3>2, <3>3, <4>1, <4>2, <4>3 DEF CountsOf
    <3>5. CASE s \notin tokens
      <4>1. pc' = pc /\ todo'[t] = todo[t] \ {s}
        BY <1>1, <3>1, <3>5
      <4>2. Live(t)' \ todo'[t] = Live(t) \ todo[t]
        BY <1>1, <3>1, <3>2, <4>1 DEF Live
      <4>3. QED
        BY <1>1, <3>2, <3>3, <4>1, <4>2 DEF CountsOf
    <3>6. QED
      BY <3>4, <3>5
  <2>2. CASE kind[t] # "login"
    BY <1>1, <2>2 DEF CountsOf
  <2>3. QED
    BY <2>1, <2>2
<1>6. CASE EvictToken(t)
  <2>1. CASE kind[t] = "login"
    <3>1. PICK s \in todo[t] :
               /\ IsNextVictim(t, s)
               /\ IF s \in tokens
                  THEN /\ Take(t, TokenRow(s)) /\ todo' = [todo EXCEPT ![t] = @ \ {s}]
                       /\ Goto(t, "evict") /\ UNCHANGED draft
                  ELSE Rollback(t)
      BY <1>6 DEF EvictToken
    <3>2. CASE s \in tokens
      <4>1. /\ pc[t] = "evictToken" /\ pc'[t] = "evict" /\ draft' = draft
            /\ todo'[t] = todo[t] \ {s} /\ held[t] \subseteq held'[t]
        BY <1>1, <1>6, <3>1, <3>2 DEF EvictToken, Take, Goto
      <4>2. /\ UserRow \in held[t] /\ todo[t] \subseteq DOMAIN sessions
            /\ Cardinality(Live(t) \ todo[t]) <= Limit - 1
            /\ \E r \in todo[t] \cap draft[t].revoked : IsNextVictim(t, r)
        BY <2>1, <4>1 DEF CountsOf
      <4>3. s \in draft[t].revoked
        <5>1. PICK r \in todo[t] \cap draft[t].revoked : IsNextVictim(t, r)
          BY <4>2
        <5>2. r \in DOMAIN sessions /\ s \in DOMAIN sessions
          BY <3>1, <4>2
        <5>3. sessions[s].born <= sessions[r].born /\ sessions[r].born <= sessions[s].born
          BY <3>1, <5>1 DEF IsNextVictim
        <5>4. sessions[s].born \in Nat /\ sessions[r].born \in Nat
          BY <5>2 DEF Typed, TableTypes, Session
        <5>5. s = r
          BY <5>2, <5>3, <5>4 DEF Ordered
        <5>6. QED
          BY <5>1, <5>5
      <4>4. Live(t)' \ todo'[t] = Live(t) \ todo[t]
        BY <1>1, <4>1, <4>3 DEF Live
      <4>5. QED
        BY <1>1, <4>1, <4>2, <4>4 DEF CountsOf
    <3>3. CASE s \notin tokens
      BY <3>1, <3>3, RollbackApart DEF CountsOf
    <3>4. QED
      BY <3>2, <3>3
  <2>2. CASE kind[t] # "login"
    BY <1>1, <2>2 DEF CountsOf
  <2>3. QED
    BY <2>1, <2>2
<1>7. CASE Store(t)
  <2>1. CASE kind[t] = "login"
    <3>1. /\ pc[t] = "evict" /\ pc'[t] = "commit" /\ todo[t] = {} /\ todo' = todo /\ held' = held
          /\ draft'[t].revoked = draft[t].revoked
      BY <1>1, <1>7 DEF Store, Goto, Draft
    <3>2. Live(t)' = Live(t)
      BY <1>1, <3>1 DEF Live
    <3>3. QED
      BY <1>1, <2>1, <3>1, <3>2 DEF CountsOf
  <2>2. CASE kind[t] # "login"
    BY <1>1, <2>2 DEF CountsOf
  <2>3. QED
    BY <2>1, <2>2
<1>8. CASE Present(t)
  BY <1>1, <1>8 DEF Present, CountsOf, RouteOf, SentOf, Goto, AfterAudit
<1>9. CASE LockToken(t)
  BY <1>1, <1>9 DEF LockToken, CountsOf, RouteOf, SentOf, Goto, AfterAudit
<1>10. CASE LockSession(t)
  BY <1>1, <1>10 DEF LockSession, CountsOf, RouteOf, SentOf, Goto, AfterAudit
<1>11. CASE RejectRefresh(t)
  BY <1>1, <1>11, RollbackApart DEF RejectRefresh, CountsOf, RouteOf, SentOf, Goto, AfterAudit
<1>12. CASE DeleteToken(t)
  BY <1>1, <1>12 DEF DeleteToken, CountsOf, RouteOf, SentOf, Goto, AfterAudit
<1>13. CASE FlushLogout(t)
  BY <1>1, <1>13 DEF FlushLogout, CountsOf, RouteOf, SentOf, Goto, AfterAudit
<1>14. CASE UseResetToken(t)
  BY <1>1, <1>14 DEF UseResetToken, CountsOf, RouteOf, SentOf, Goto, AfterAudit
<1>15. CASE ChangePassword(t)
  BY <1>1, <1>15 DEF ChangePassword, CountsOf, RouteOf, SentOf, Goto, AfterAudit
<1>16. CASE WritePassword(t)
  BY <1>1, <1>16 DEF WritePassword, CountsOf, RouteOf, SentOf, Goto, AfterAudit
<1>17. CASE ReadTokens(t)
  BY <1>1, <1>17 DEF ReadTokens, CountsOf, RouteOf, SentOf, Goto, AfterAudit
<1>18. CASE RevokeToken(t)
  BY <1>1, <1>18 DEF RevokeToken, CountsOf, RouteOf, SentOf, Goto, AfterAudit
<1>19. CASE ReadSessions(t)
  BY <1>1, <1>19 DEF ReadSessions, CountsOf, RouteOf, SentOf, Goto, AfterAudit
<1>20. CASE RevokeSession(t)
  BY <1>1, <1>20 DEF RevokeSession, CountsOf, RouteOf, SentOf, Goto, AfterAudit
<1>21. CASE EndRevoking(t)
  BY <1>1, <1>21 DEF EndRevoking, CountsOf, RouteOf, SentOf, Goto, AfterAudit
<1>23. CASE PickOldest(t)
  <2>1. CASE kind[t] = "login"
    <3>1. PICK some \in SUBSET Requests :
               IsOldest(some, draft[t].excess, t) /\ todo' = [todo EXCEPT ![t] = some]
      BY <1>23 DEF PickOldest
    <3>2. /\ pc[t] = "pick" /\ pc'[t] = "evict" /\ held' = held /\ draft' = draft /\ todo'[t] = some
      BY <1>1, <1>23, <3>1 DEF PickOldest, Goto
    <3>3. some \subseteq Live(t) /\ Live(t)' = Live(t)
      BY <1>1, <3>1, <3>2 DEF IsOldest, Live
    <3>4. /\ IsFiniteSet(Live(t)) /\ Live(t) \subseteq DOMAIN sessions
          /\ Cardinality(Live(t) \ some) = Cardinality(Live(t)) - Cardinality(some)
          /\ Cardinality(Live(t)) \in Nat /\ draft[t].excess \in Nat
      BY <1>1, <3>3, LiveIsFinite, FS_CardinalityType, Without DEF Draft
    <3>5. UserRow \in held[t] /\ Cardinality(Live(t)) - draft[t].excess <= Limit - 1
      BY <2>1, <3>2 DEF PicksOf
    <3>6. Cardinality(Live(t) \ some) <= Limit - 1
      <4>1. CASE Cardinality(some) = draft[t].excess
        BY <3>4, <3>5, <4>1
      <4>2. CASE some = Live(t)
        <5>1. Live(t) \ some = {}
          BY <4>2
        <5>2. Cardinality(Live(t) \ some) = 0
          BY <5>1, FS_EmptySet
        <5>3. QED
          BY <1>1, <5>2
      <4>3. QED
        BY <3>1, <4>1, <4>2 DEF IsOldest
    <3>7. QED
      BY <1>1, <3>2, <3>3, <3>4, <3>5, <3>6 DEF CountsOf
  <2>2. CASE kind[t] # "login"
    BY <1>1, <2>2 DEF CountsOf
  <2>3. QED
    BY <2>1, <2>2
<1>24. CASE ReadToken(t)
  BY <1>1, <1>24 DEF ReadToken, CountsOf, RouteOf, SentOf, Goto, AfterAudit
<1>22. QED
  BY <1>2, <1>3, <1>4, <1>5, <1>6, <1>7, <1>8, <1>9, <1>10, <1>11, <1>12, <1>13, <1>14, <1>15, <1>16, <1>17, <1>18, <1>19, <1>20, <1>21, <1>23, <1>24 DEF Statement

(* What was counted beyond the limit has to make room.                     *)
LEMMA StatementPicks ==
  ASSUME Typed, NEW t \in Requests, Statement(t)
  PROVE  PicksOf(t)'
<1>1. /\ RequestTypes /\ TableTypes /\ kind' = kind /\ sessions' = sessions
      /\ draft \in [Requests -> Draft] /\ Limit \in Nat \ {0}
      /\ pc \in [Requests -> Places] /\ held \in [Requests -> SUBSET Rows]
  BY StatementApart, LimitAssumption DEF Typed, RequestTypes, tables
<1>2. SUFFICES ASSUME kind[t] = "login", pc'[t] = "pick"
               PROVE  UserRow \in held'[t] /\ Cardinality(Live(t)') - draft'[t].excess <= Limit - 1
  BY <1>1 DEF PicksOf
<1>3. CountSessions(t)
  BY <1>1, <1>2 DEF Statement, LogAudit, Login, PickOldest, EvictSession, EvictToken, Store, Present, LockToken, LockSession, RejectRefresh, ReadToken, DeleteToken, FlushLogout, UseResetToken, ChangePassword, WritePassword, ReadTokens, RevokeToken, ReadSessions, RevokeSession, EndRevoking, Goto, AfterAudit, Rollback
<1>4. UserRow \in held'[t]
  BY <1>1, <1>2, <1>3 DEF CountSessions, Take
<1>5. /\ draft'[t].excess = (IF Cardinality(Live(t)) >= Limit THEN Cardinality(Live(t)) - Limit + 1 ELSE 0)
      /\ draft'[t].revoked = draft[t].revoked
  BY <1>1, <1>3 DEF CountSessions, Draft
<1>6. Live(t)' = Live(t)
  BY <1>1, <1>5 DEF Live
<1>7. Cardinality(Live(t)) \in Nat
  BY <1>1, LiveIsNumber
<1>8. QED
  BY <1>1, <1>4, <1>5, <1>6, <1>7

LEMMA QuietCounts ==
  ASSUME NEW t \in Requests, Apart(t), UNCHANGED <<tables, kind>>,
         NEW u \in Requests \ {t}, CountsOf(u), PicksOf(u)
  PROVE  CountsOf(u)' /\ PicksOf(u)'
<1>1. /\ pc'[u] = pc[u] /\ held'[u] = held[u] /\ draft'[u] = draft[u] /\ todo'[u] = todo[u]
      /\ sessions' = sessions /\ kind' = kind
  BY DEF Apart, tables
<1>2. Live(u)' = Live(u) /\ \A s : IsNextVictim(u, s)' <=> IsNextVictim(u, s)
  BY <1>1 DEF Live, IsNextVictim
<1>3. QED
  BY <1>1, <1>2 DEF CountsOf, PicksOf

LEMMA QuietCounting ==
  ASSUME Counting, Agreeing', NEW t \in Requests, Apart(t), UNCHANGED <<tables, kind>>,
         NoRefresh => CountsOf(t)' /\ PicksOf(t)'
  PROVE  Counting'
<1>1. LiveSessions' = LiveSessions /\ Ordered' /\ (NoRefresh' <=> NoRefresh)
  BY DEF Counting, LiveSessions, Ordered, NoRefresh, tables
<1>2. NoRefresh => \A u \in Requests : CountsOf(u)' /\ PicksOf(u)'
  BY QuietCounts DEF Counting
<1>3. QED
  BY <1>1, <1>2 DEF Counting

LEMMA StatementCounting ==
  ASSUME Counting, NEW t \in Requests, Statement(t)
  PROVE  Counting'
<1>1. Typed /\ RouteOf(t) /\ Ordered /\ Agreeing'
  BY StatementAgreeing DEF Counting, Agreeing, Mine
<1>2. NoRefresh => CountsOf(t)' /\ PicksOf(t)'
  BY <1>1, StatementCounts, StatementPicks DEF Counting
<1>3. QED
  BY <1>1, <1>2, StatementApart, QuietCounting

LEMMA RollbackCounting ==
  ASSUME Counting, Typed', NEW t \in Requests, Rollback(t)
  PROVE  Counting'
<1>1. Typed /\ Agreeing'
  BY RollbackAgreeing DEF Counting, Agreeing
<1>2. CountsOf(t)' /\ PicksOf(t)'
  BY <1>1, RollbackApart DEF CountsOf, PicksOf
<1>3. QED
  BY <1>1, <1>2, RollbackApart, QuietCounting

LEMMA CommitOrdered ==
  ASSUME Agreeing, Ordered, NEW t \in Requests, Commit(t)
  PROVE  Ordered'
<1>1. /\ Typed /\ t \notin DOMAIN sessions /\ New(t) \subseteq {t}
  BY CommitReady DEF Agreeing
<1>2. /\ DOMAIN sessions' = DOMAIN sessions \cup New(t)
      /\ \A s \in DOMAIN sessions : sessions'[s].born = sessions[s].born
  BY <1>1, CommitTables
<1>3. t \in New(t) => sessions'[t].born = clock
  <2>1. t \in New(t) => sessions'[t] = NewSession(t)
    BY <1>1, CommitTables
  <2>2. NewSession(t).born = clock
    BY DEF NewSession
  <2>3. QED
    BY <2>1, <2>2
<1>4. /\ clock' = clock + Cardinality(New(t)) /\ Cardinality(New(t)) \in Nat
      /\ t \in New(t) => Cardinality(New(t)) = 1
      /\ IsFiniteSet(New(t)) /\ clock \in Nat
      /\ \A s \in DOMAIN sessions : sessions[s].born \in Nat
  <2>1. clock' = clock + Cardinality(New(t))
    BY DEF Commit, New
  <2>2. New(t) = {} \/ New(t) = {t}
    BY DEF New
  <2>3. /\ Cardinality(New(t)) \in Nat /\ IsFiniteSet(New(t))
        /\ t \in New(t) => Cardinality(New(t)) = 1
    <3>1. CASE New(t) = {}
      BY <3>1, FS_EmptySet
    <3>2. CASE New(t) = {t}
      <4>1. IsFiniteSet({t}) /\ Cardinality({t}) = 1
        BY FS_Singleton
      <4>2. QED
        BY <3>2, <4>1
    <3>3. QED
      BY <2>2, <3>1, <3>2
  <2>4. clock \in Nat /\ \A s \in DOMAIN sessions : sessions[s].born \in Nat
    BY <1>1 DEF Typed, TableTypes, Session
  <2>5. QED
    BY <2>1, <2>3, <2>4
<1>5. IsFiniteSet(DOMAIN sessions')
  <2>1. IsFiniteSet(DOMAIN sessions)
    BY DEF Ordered
  <2>2. IsFiniteSet(DOMAIN sessions \cup New(t))
    BY <2>1, <1>4, FS_Union
  <2>3. QED
    BY <2>2, <1>2
<1>6. \A s \in DOMAIN sessions' : sessions'[s].born < clock'
  <2>1. \A s \in DOMAIN sessions : sessions'[s].born < clock'
    BY <1>2, <1>4 DEF Ordered
  <2>2. t \in New(t) => sessions'[t].born < clock'
    BY <1>3, <1>4
  <2>3. QED
    BY <1>1, <1>2, <2>1, <2>2
<1>7. \A s, r \in DOMAIN sessions' : sessions'[s].born = sessions'[r].born => s = r
  <2>1. \A s \in DOMAIN sessions : t \in New(t) => sessions'[s].born # sessions'[t].born
    BY <1>2, <1>3, <1>4 DEF Ordered
  <2>2. \A s, r \in DOMAIN sessions : sessions'[s].born = sessions'[r].born => s = r
    BY <1>2 DEF Ordered
  <2>3. QED
    BY <1>1, <1>2, <2>1, <2>2
<1>8. QED
  BY <1>5, <1>6, <1>7 DEF Ordered

LEMMA CommitCounting ==
  ASSUME Counting, Typed', NEW t \in Requests, Commit(t)
  PROVE  Counting'
<1>1. /\ Agreeing /\ Agreeing' /\ Ordered /\ Ordered' /\ Typed /\ RouteOf(t)
      /\ kind[t] \in Kinds /\ Limit \in Nat \ {0}
  BY CommitAgreeing, CommitOrdered, LoadsAssumption, LimitAssumption
     DEF Counting, Agreeing, Mine, Typed, TableTypes
<1>2. /\ pc[t] = "commit" /\ t \notin DOMAIN sessions /\ New(t) \subseteq {t}
  BY <1>1, CommitReady
<1>3. /\ DOMAIN sessions' = DOMAIN sessions \cup New(t) /\ kind' = kind
      /\ \A s \in DOMAIN sessions :
           /\ sessions'[s].revoked = (sessions[s].revoked \/ s \in draft[t].revoked)
           /\ sessions'[s].born = sessions[s].born
  BY <1>1, <1>2, CommitTables
<1>4. Apart(t) /\ pc'[t] = "done"
  BY <1>1, CommitApart
<1>5. NoRefresh' <=> NoRefresh
  BY <1>3 DEF NoRefresh
<1>6. ASSUME NoRefresh
      PROVE  Cardinality(LiveSessions') <= Limit
  <2>1. CASE New(t) = {}
    <3>1. LiveSessions' \in SUBSET LiveSessions
      BY <1>3, <2>1 DEF LiveSessions
    <3>2. QED
      BY <1>1, <1>6, <3>1, LiveIsFinite, Fewer DEF Counting
  <2>2. CASE New(t) # {}
    <3>1. kind[t] = "login" /\ todo[t] = {} /\ Cardinality(Live(t) \ todo[t]) <= Limit - 1
      BY <1>1, <1>2, <1>6, <2>2 DEF New, RouteOf, NoRefresh, Counting, CountsOf
    <3>2. LiveSessions' \in SUBSET (Live(t) \cup {t})
      BY <1>2, <1>3 DEF LiveSessions, Live
    <3>3. IsFiniteSet(Live(t)) /\ Cardinality(Live(t)) <= Limit - 1 /\ Cardinality(Live(t)) \in Nat
      <4>1. Live(t) \ todo[t] = Live(t)
        BY <3>1
      <4>2. QED
        BY <1>1, <3>1, <4>1, LiveIsFinite, FS_CardinalityType
    <3>4. IsFiniteSet(Live(t) \cup {t}) /\ Cardinality(Live(t) \cup {t}) <= Limit
      <4>1. /\ IsFiniteSet(Live(t) \cup {t})
            /\ \/ Cardinality(Live(t) \cup {t}) = Cardinality(Live(t))
               \/ Cardinality(Live(t) \cup {t}) = Cardinality(Live(t)) + 1
        BY <3>3, FS_AddElement
      <4>2. QED
        BY <1>1, <3>3, <4>1
    <3>5. /\ Cardinality(LiveSessions') <= Cardinality(Live(t) \cup {t})
          /\ Cardinality(LiveSessions') \in Nat /\ Cardinality(Live(t) \cup {t}) \in Nat
      BY <3>2, <3>4, Fewer
    <3>6. QED
      BY <1>1, <3>4, <3>5
  <2>3. QED
    BY <2>1, <2>2
<1>7. ASSUME NoRefresh, NEW u \in Requests \ {t}
      PROVE  CountsOf(u)'
  <2>1. /\ pc'[u] = pc[u] /\ held'[u] = held[u] /\ draft'[u] = draft[u] /\ todo'[u] = todo[u]
        /\ held[u] \cap held[t] = {}
    BY <1>1, <1>4 DEF Apart, Agreeing, Exclusive
  <2>2. SUFFICES ASSUME kind[u] = "login", pc[u] \in {"evict", "evictToken", "commit"}
                 PROVE  /\ UserRow \in held'[u] /\ todo'[u] \subseteq DOMAIN sessions'
                        /\ Cardinality(Live(u)' \ todo'[u]) <= Limit - 1
                        /\ pc'[u] = "commit" => todo'[u] = {}
                        /\ pc'[u] = "evictToken" =>
                             \E s \in todo'[u] \cap draft'[u].revoked : IsNextVictim(u, s)'
    BY <1>3, <2>1 DEF CountsOf
  <2>3. /\ UserRow \in held[u] /\ todo[u] \subseteq DOMAIN sessions
        /\ Cardinality(Live(u) \ todo[u]) <= Limit - 1
        /\ pc[u] = "commit" => todo[u] = {}
        /\ pc[u] = "evictToken" => \E s \in todo[u] \cap draft[u].revoked : IsNextVictim(u, s)
    BY <1>7, <2>2 DEF Counting, CountsOf
  <2>4. New(t) = {}
    <3>1. ~draft[t].stored
      BY <1>1, <1>2, <1>7, <2>1, <2>3 DEF RouteOf, NoRefresh, Counting, CountsOf
    <3>2. QED
      BY <3>1 DEF New
  <2>5. Cardinality(Live(u)' \ todo'[u]) <= Limit - 1
    <3>1. Live(u)' \ todo'[u] \in SUBSET (Live(u) \ todo[u])
      BY <1>3, <2>1, <2>4 DEF Live
    <3>2. IsFiniteSet(Live(u) \ todo[u])
      BY <1>1, LiveIsFinite, FS_Difference
    <3>3. QED
      BY <1>1, <2>3, <3>1, <3>2, Fewer
  <2>6. \A s \in todo[u] : IsNextVictim(u, s) => IsNextVictim(u, s)'
    BY <1>3, <2>1, <2>3 DEF IsNextVictim
  <2>7. QED
    BY <1>3, <2>1, <2>3, <2>5, <2>6
<1>8. CountsOf(t)' /\ PicksOf(t)'
  BY <1>4 DEF CountsOf, PicksOf
<1>10. ASSUME NoRefresh, NEW u \in Requests \ {t}
       PROVE  PicksOf(u)'
  <2>1. /\ pc'[u] = pc[u] /\ held'[u] = held[u] /\ draft'[u] = draft[u]
        /\ held[u] \cap held[t] = {}
    BY <1>1, <1>4 DEF Apart, Agreeing, Exclusive
  <2>2. SUFFICES ASSUME kind[u] = "login", pc[u] = "pick"
                 PROVE  UserRow \in held'[u] /\ Cardinality(Live(u)') - draft'[u].excess <= Limit - 1
    BY <1>3, <2>1 DEF PicksOf
  <2>3. UserRow \in held[u] /\ Cardinality(Live(u)) - draft[u].excess <= Limit - 1
    BY <1>10, <2>2 DEF Counting, PicksOf
  <2>4. New(t) = {}
    <3>1. ~draft[t].stored
      BY <1>1, <1>2, <1>10, <2>1, <2>3 DEF RouteOf, NoRefresh, Counting, CountsOf
    <3>2. QED
      BY <3>1 DEF New
  <2>5. Live(u)' \in SUBSET Live(u)
    BY <1>3, <2>1, <2>4 DEF Live
  <2>6. /\ Cardinality(Live(u)') <= Cardinality(Live(u))
        /\ Cardinality(Live(u)') \in Nat /\ Cardinality(Live(u)) \in Nat
    BY <1>1, <2>5, LiveIsFinite, Fewer
  <2>7. draft[u].excess \in Nat
    BY <1>1 DEF Typed, RequestTypes, Draft
  <2>8. QED
    BY <1>1, <2>1, <2>3, <2>6, <2>7
<1>9. QED
  BY <1>1, <1>5, <1>6, <1>7, <1>8, <1>10 DEF Counting

LEMMA CountingStep ==
  ASSUME Counting, [Next]_vars
  PROVE  Counting'
<1>1. Typed /\ Typed'
  BY TypedStep DEF Counting, Agreeing
<1>2. CASE UNCHANGED vars
  <2>1. Agreeing'
    BY <1>2, AgreeingStep DEF Counting
  <2>2. LiveSessions' = LiveSessions /\ Ordered' /\ (NoRefresh' <=> NoRefresh)
    BY <1>2 DEF vars, Counting, LiveSessions, Ordered, NoRefresh
  <2>3. \A t \in Requests : CountsOf(t) /\ PicksOf(t) => CountsOf(t)' /\ PicksOf(t)'
    BY <1>2 DEF vars, CountsOf, PicksOf, Live, IsNextVictim
  <2>4. QED
    BY <2>1, <2>2, <2>3 DEF Counting
<1>3. QED
  BY <1>1, <1>2, Steps, StatementCounting, RollbackCounting, CommitCounting

(* As long as nobody refreshes, there are never more live sessions than    *)
(* the limit, however many logins and logouts meet.                        *)
THEOREM LoginsRespectLimit == Spec => []LoginsKeepLimit
<1>1. Init => Counting
  <2>1. SUFFICES ASSUME Init PROVE Counting
    OBVIOUS
  <2>2. LiveSessions = {} /\ DOMAIN sessions = {}
    BY <2>1 DEF Init, LiveSessions
  <2>3. Ordered /\ Cardinality(LiveSessions) <= Limit
    BY <2>2, FS_EmptySet, LimitAssumption DEF Ordered
  <2>4. \A t \in Requests : CountsOf(t) /\ PicksOf(t)
    BY <2>1 DEF Init, CountsOf, PicksOf
  <2>5. QED
    BY <2>1, <2>3, <2>4, InitAgreeing DEF Counting
<1>2. Counting => LoginsKeepLimit
  BY DEF Counting, NoRefresh, LiveSessions, LoginsKeepLimit
<1>3. QED
  BY <1>1, <1>2, CountingStep, PTL DEF Spec
=============================================================================
