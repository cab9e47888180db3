---------------------------- MODULE AuthSessions ----------------------------
(***************************************************************************)
(* The sessions of one user (routers/auth.py login, refresh, logout,       *)
(* reset-password and change-password; services/auth_session.py).  Each    *)
(* request is one READ COMMITTED transaction: rows it has written or       *)
(* locked are held until it ends, and others wait for them.                *)
(*                                                                         *)
(* A refresh token and its session are named by the request that issued    *)
(* them.  revoked_at of a refresh token is written and never read, so only *)
(* the lock of its row is modelled.  Requests that are refused before they *)
(* write anything, and the second factor, are left out.                    *)
(***************************************************************************)
EXTENDS Integers, FiniteSets

CONSTANTS
  Requests,    \* requests, each one transaction
  ResetTokens, \* reset tokens that were sent
  Limit,       \* max_concurrent_sessions
  Loads,       \* what the requests do: functions from Requests to Kinds
  None         \* no request

Kinds == {"login", "refresh", "logout", "reset", "change"}

ASSUME NoneAssumption == None \notin Requests
ASSUME LimitAssumption == Limit \in Nat \ {0}
ASSUME LoadsAssumption == Loads \subseteq [Requests -> Kinds]

VARIABLES
  tokens,   \* committed refresh_tokens
  sessions, \* committed user_sessions: revoked, created_at, token exchanged
  resets,   \* committed password_reset_tokens: the request that used each
  clock,    \* orders created_at
  kind,     \* what each request does
  pc,       \* where it is
  held,     \* rows and the advisory lock it holds
  uses,     \* the refresh token it was sent
  draft,    \* what it has written, and how many sessions must make room
  todo,     \* rows a statement or a loop has still to do
  old       \* sessions there were when it began to revoke (history)

vars == <<tokens, sessions, resets, clock, kind, pc, held, uses, draft, todo, old>>

Session == [revoked : BOOLEAN, born : Nat, parent : Requests \cup {None}]

Draft == [deleted : SUBSET Requests, revoked : SUBSET Requests,
          stored : BOOLEAN, used : SUBSET ResetTokens, excess : Nat]

NoDraft == [deleted |-> {}, revoked |-> {}, stored |-> FALSE, used |-> {}, excess |-> 0]

(* What a transaction may hold.                                            *)
Audit == <<"audit", None>>
UserRow == <<"user", None>>
TokenRow(x) == <<"token", x>>
SessionRow(x) == <<"session", x>>
ResetRow(k) == <<"reset", k>>

Rows ==
  {Audit, UserRow} \cup {TokenRow(x) : x \in Requests}
    \cup {SessionRow(x) : x \in Requests} \cup {ResetRow(k) : k \in ResetTokens}

Places == {"new", "token", "delete", "session", "user", "audit", "count", "pick",
           "evict", "evictToken", "readTokens", "tokens", "readSessions", "sessions",
           "flush", "commit", "done", "failed"}

TypeOK ==
  /\ tokens \subseteq Requests
  /\ DOMAIN sessions \subseteq Requests
  /\ \A s \in DOMAIN sessions : sessions[s] \in Session
  /\ resets \in [ResetTokens -> Requests \cup {None}]
  /\ clock \in Nat
  /\ kind \in Loads
  /\ pc \in [Requests -> Places]
  /\ held \in [Requests -> SUBSET Rows]
  /\ uses \in [Requests -> Requests \cup {None}]
  /\ draft \in [Requests -> Draft]
  /\ todo \in [Requests -> SUBSET Requests]
  /\ old \in [Requests -> SUBSET Requests]

Init ==
  /\ tokens = {} /\ sessions = [s \in {} |-> None]
  /\ resets = [k \in ResetTokens |-> None]
  /\ clock = 0
  /\ kind \in Loads
  /\ pc = [t \in Requests |-> "new"]
  /\ held = [t \in Requests |-> {}]
  /\ uses = [t \in Requests |-> None]
  /\ draft = [t \in Requests |-> NoDraft]
  /\ todo = [t \in Requests |-> {}]
  /\ old = [t \in Requests |-> {}]

tables == <<tokens, sessions, resets, clock>>

Goto(t, place) == pc' = [pc EXCEPT ![t] = place]

Holders(t, row) == {u \in Requests \ {t} : row \in held[u]}

Take(t, row) ==
  /\ Holders(t, row) = {}
  /\ held' = [held EXCEPT ![t] = @ \cup {row}]

(* Live sessions as t sees them.                                           *)
Live(t) == {s \in DOMAIN sessions : ~sessions[s].revoked} \ draft[t].revoked

Rollback(t) ==
  /\ draft' = [draft EXCEPT ![t] = NoDraft]
  /\ held' = [held EXCEPT ![t] = {}]
  /\ todo' = [todo EXCEPT ![t] = {}]
  /\ Goto(t, "failed")
  /\ UNCHANGED <<tables, kind, uses, old>>

-----------------------------------------------------------------------------
(* log_audit: the advisory lock, held to the end.                          *)

AfterAudit(t) ==
  CASE kind[t] = "login" -> "count"
    [] kind[t] = "logout" -> "flush"
    [] OTHER -> "commit"

LogAudit(t) ==
  /\ pc[t] = "audit" /\ Take(t, Audit)
  /\ Goto(t, AfterAudit(t))
  /\ UNCHANGED <<tables, kind, uses, draft, todo, old>>

-----------------------------------------------------------------------------
(* login, and issue_auth_tokens.                                           *)

(* The user is read and the password is right.                             *)
Login(t) ==
  /\ pc[t] = "new" /\ kind[t] = "login"
  /\ Goto(t, "audit")
  /\ UNCHANGED <<tables, kind, held, uses, draft, todo, old>>

(* Mutant: one session more than the limit.                                *)
CountSessionsLoosely(t) ==
  /\ pc[t] = "count"
  /\ IF kind[t] = "login" THEN Take(t, UserRow) ELSE UNCHANGED held
  /\ LET n == Cardinality(Live(t))
     IN  draft' = [draft EXCEPT ![t].excess = IF n > Limit THEN n - Limit ELSE 0]
  /\ Goto(t, "pick")
  /\ UNCHANGED <<tables, kind, uses, todo, old>>

(* The count flushes last_login first: a login holds the user's row.       *)
CountSessions(t) ==
  /\ pc[t] = "count"
  /\ IF kind[t] = "login" THEN Take(t, UserRow) ELSE UNCHANGED held
  /\ LET n == Cardinality(Live(t))
     IN  draft' = [draft EXCEPT ![t].excess = IF n >= Limit THEN n - Limit + 1 ELSE 0]
  /\ Goto(t, "pick")
  /\ UNCHANGED <<tables, kind, uses, todo, old>>

(* The oldest n of the live sessions, or all of them.                      *)
IsOldest(some, n, t) ==
  /\ some \subseteq Live(t)
  /\ Cardinality(some) = n \/ (some = Live(t) /\ Cardinality(some) < n)
  /\ \A s \in some, r \in Live(t) \ some : sessions[s].born <= sessions[r].born

(* A statement of its own: the sessions may have changed since the count.  *)
PickOldest(t) ==
  /\ pc[t] = "pick"
  /\ \E some \in SUBSET Requests :
       /\ IsOldest(some, draft[t].excess, t)
       /\ todo' = [todo EXCEPT ![t] = some]
  /\ Goto(t, "evict")
  /\ UNCHANGED <<tables, kind, held, uses, draft, old>>

IsNextVictim(t, s) ==
  s \in todo[t] /\ \A r \in todo[t] : sessions[s].born <= sessions[r].born

(* A session was read and not locked: it may have been revoked since.      *)
EvictSession(t) ==
  /\ pc[t] = "evict"
  /\ \E s \in todo[t] :
       /\ IsNextVictim(t, s)
       /\ Take(t, SessionRow(s))
       /\ draft' = [draft EXCEPT ![t].revoked = @ \cup {s}]
       /\ IF s \in tokens
          THEN Goto(t, "evictToken") /\ UNCHANGED todo
          ELSE todo' = [todo EXCEPT ![t] = @ \ {s}] /\ UNCHANGED pc
  /\ UNCHANGED <<tables, kind, uses, old>>

(* The token is read again; StaleDataError if a logout deletes it then.    *)
EvictToken(t) ==
  /\ pc[t] = "evictToken"
  /\ \E s \in todo[t] :
       /\ IsNextVictim(t, s) /\ Holders(t, TokenRow(s)) = {}
       /\ IF s \in tokens
          THEN /\ Take(t, TokenRow(s))
               /\ todo' = [todo EXCEPT ![t] = @ \ {s}]
               /\ Goto(t, "evict")
               /\ UNCHANGED <<tables, kind, uses, draft, old>>
          ELSE Rollback(t)

Store(t) ==
  /\ pc[t] = "evict" /\ todo[t] = {}
  /\ draft' = [draft EXCEPT ![t].stored = TRUE]
  /\ Goto(t, "commit")
  /\ UNCHANGED <<tables, kind, held, uses, todo, old>>

-----------------------------------------------------------------------------
(* refresh.                                                                *)

(* The client has the tokens of the requests that have answered.           *)
Present(t) ==
  /\ pc[t] = "new" /\ kind[t] \in {"refresh", "logout"}
  /\ \E x \in DOMAIN sessions : uses' = [uses EXCEPT ![t] = x]
  /\ Goto(t, "token")
  /\ UNCHANGED <<tables, kind, held, draft, todo, old>>

(* FOR UPDATE, and looked at again after the wait.  The query also wants   *)
(* a token that has not expired: see RefuseExpired.                        *)
LockToken(t) ==
  /\ pc[t] = "token" /\ kind[t] = "refresh"
  /\ uses[t] \in tokens
  /\ Take(t, TokenRow(uses[t]))
  /\ Goto(t, "session")
  /\ UNCHANGED <<tables, kind, uses, draft, todo, old>>

(* Mutant: what is exchanged is left as it was.                            *)
LockSessionKept(t) ==
  /\ pc[t] = "session"
  /\ ~sessions[uses[t]].revoked
  /\ Take(t, SessionRow(uses[t]))
  /\ Goto(t, "count")
  /\ UNCHANGED <<tables, kind, uses, draft, todo, old>>

(* The token is deleted and the session revoked when the count flushes.    *)
LockSession(t) ==
  /\ pc[t] = "session"
  /\ ~sessions[uses[t]].revoked
  /\ Take(t, SessionRow(uses[t]))
  /\ draft' = [draft EXCEPT ![t].deleted = {uses[t]}, ![t].revoked = {uses[t]}]
  /\ Goto(t, "count")
  /\ UNCHANGED <<tables, kind, uses, todo, old>>

(* 401: the token is gone, or its session is revoked.                      *)
RejectRefresh(t) ==
  /\ \/ /\ pc[t] = "token" /\ kind[t] = "refresh"
        /\ Holders(t, TokenRow(uses[t])) = {} /\ uses[t] \notin tokens
     \/ /\ pc[t] = "session"
        /\ Holders(t, SessionRow(uses[t])) = {} /\ sessions[uses[t]].revoked
  /\ Rollback(t)

(* 401: the token is there and its time is over, which may be at any time. *)
(* The session goes on to count.                                           *)
RefuseExpired(t) ==
  /\ pc[t] = "token" /\ kind[t] = "refresh"
  /\ Rollback(t)

-----------------------------------------------------------------------------
(* logout.                                                                 *)

(* Whose token it is, for the audit entry.                                 *)
ReadToken(t) ==
  /\ pc[t] = "token" /\ kind[t] = "logout"
  /\ todo' = [todo EXCEPT ![t] = {uses[t]} \cap tokens]
  /\ Goto(t, "delete")
  /\ UNCHANGED <<tables, kind, held, uses, draft, old>>

(* DELETE, of what is there after the wait; then the session is loaded if  *)
(* it is live.  Only what was read before is audited.                      *)
DeleteToken(t) ==
  /\ pc[t] = "delete"
  /\ Take(t, TokenRow(uses[t]))
  /\ draft' = [draft EXCEPT ![t].deleted = {uses[t]} \cap tokens]
  /\ todo' = [todo EXCEPT ![t] = {uses[t]} \cap Live(t)]
  /\ Goto(t, IF todo[t] # {} THEN "audit" ELSE "flush")
  /\ UNCHANGED <<tables, kind, uses, old>>

(* The flush of the commit.                                                *)
FlushLogout(t) ==
  /\ pc[t] = "flush"
  /\ IF todo[t] = {} THEN UNCHANGED <<held, draft>>
     ELSE /\ Take(t, SessionRow(uses[t]))
          /\ draft' = [draft EXCEPT ![t].revoked = todo[t]]
  /\ todo' = [todo EXCEPT ![t] = {}]
  /\ Goto(t, "commit")
  /\ UNCHANGED <<tables, kind, uses, old>>

-----------------------------------------------------------------------------
(* reset-password and change-password.                                     *)

(* UPDATE ... WHERE used_at IS NULL RETURNING: looked at after the wait.   *)
UseResetToken(t) ==
  /\ pc[t] = "new" /\ kind[t] = "reset"
  /\ \E k \in ResetTokens :
       /\ resets[k] = None
       /\ Take(t, ResetRow(k))
       /\ draft' = [draft EXCEPT ![t].used = {k}]
  /\ Goto(t, "user")
  /\ UNCHANGED <<tables, kind, uses, todo, old>>

(* The current password is right.                                          *)
ChangePassword(t) ==
  /\ pc[t] = "new" /\ kind[t] = "change"
  /\ Goto(t, "user")
  /\ UNCHANGED <<tables, kind, held, uses, draft, todo, old>>

(* The first UPDATE flushes the new password: the user's row.              *)
WritePassword(t) ==
  /\ pc[t] = "user" /\ Take(t, UserRow)
  /\ Goto(t, "readTokens")
  /\ UNCHANGED <<tables, kind, uses, draft, todo, old>>

(* Mutant: the sessions are revoked first, and the tokens are not waited   *)
(* for.                                                                    *)
ReadSessionsFirst(t) ==
  /\ pc[t] = "readTokens"
  /\ todo' = [todo EXCEPT ![t] = DOMAIN sessions]
  /\ old' = [old EXCEPT ![t] = DOMAIN sessions]
  /\ Goto(t, "sessions")
  /\ UNCHANGED <<tables, kind, held, uses, draft>>

(* UPDATE refresh_tokens: the rows of its snapshot, one after the other.   *)
ReadTokens(t) ==
  /\ pc[t] = "readTokens"
  /\ todo' = [todo EXCEPT ![t] = tokens]
  /\ old' = [old EXCEPT ![t] = DOMAIN sessions]
  /\ Goto(t, "tokens")
  /\ UNCHANGED <<tables, kind, held, uses, draft>>

RevokeToken(t) ==
  /\ pc[t] = "tokens"
  /\ \E x \in todo[t] :
       /\ Take(t, TokenRow(x))
       /\ todo' = [todo EXCEPT ![t] = @ \ {x}]
  /\ UNCHANGED <<tables, kind, pc, uses, draft, old>>

(* UPDATE user_sessions, a statement and a snapshot of its own.            *)
ReadSessions(t) ==
  /\ pc[t] = "tokens" /\ todo[t] = {}
  /\ todo' = [todo EXCEPT ![t] = DOMAIN sessions]
  /\ Goto(t, "sessions")
  /\ UNCHANGED <<tables, kind, held, uses, draft, old>>

RevokeSession(t) ==
  /\ pc[t] = "sessions"
  /\ \E s \in todo[t] :
       /\ Take(t, SessionRow(s))
       /\ draft' = [draft EXCEPT ![t].revoked = @ \cup {s}]
       /\ todo' = [todo EXCEPT ![t] = @ \ {s}]
  /\ UNCHANGED <<tables, kind, pc, uses, old>>

EndRevoking(t) ==
  /\ pc[t] = "sessions" /\ todo[t] = {}
  /\ Goto(t, "audit")
  /\ UNCHANGED <<tables, kind, held, uses, draft, todo, old>>

-----------------------------------------------------------------------------
(* The end of a transaction.                                               *)

NewSession(t) == [revoked |-> FALSE, born |-> clock, parent |-> uses[t]]

(* Mutant: what the transaction has locked stays locked.                   *)
CommitKeepsLocks(t) ==
  /\ pc[t] = "commit"
  /\ LET new == IF draft[t].stored THEN {t} ELSE {}
     IN  /\ tokens' = (tokens \ draft[t].deleted) \cup new
         /\ sessions' = [s \in DOMAIN sessions \cup new |->
              IF s \in new THEN NewSession(t)
              ELSE [sessions[s] EXCEPT !.revoked = @ \/ s \in draft[t].revoked]]
         /\ clock' = clock + Cardinality(new)
  /\ resets' = [k \in ResetTokens |-> IF k \in draft[t].used THEN t ELSE resets[k]]
  /\ Goto(t, "done")
  /\ UNCHANGED <<kind, held, uses, draft, todo, old>>

Commit(t) ==
  /\ pc[t] = "commit"
  /\ LET new == IF draft[t].stored THEN {t} ELSE {}
     IN  /\ tokens' = (tokens \ draft[t].deleted) \cup new
         /\ sessions' = [s \in DOMAIN sessions \cup new |->
              IF s \in new THEN NewSession(t)
              ELSE [sessions[s] EXCEPT !.revoked = @ \/ s \in draft[t].revoked]]
         /\ clock' = clock + Cardinality(new)
  /\ resets' = [k \in ResetTokens |-> IF k \in draft[t].used THEN t ELSE resets[k]]
  /\ draft' = [draft EXCEPT ![t] = NoDraft]
  /\ held' = [held EXCEPT ![t] = {}]
  /\ Goto(t, "done")
  /\ UNCHANGED <<kind, uses, todo, old>>

InTransaction(t) == pc[t] \notin {"new", "done", "failed"}

(* An error, or the end of the process.                                    *)
Fail(t) == InTransaction(t) /\ Rollback(t)

(* Whom t waits for.                                                       *)
Wants(t) ==
  CASE pc[t] = "audit" -> {Audit}
    [] pc[t] = "user" \/ (pc[t] = "count" /\ kind[t] = "login") -> {UserRow}
    [] pc[t] = "evict" -> {SessionRow(s) : s \in {r \in todo[t] : IsNextVictim(t, r)}}
    [] pc[t] = "evictToken" -> {TokenRow(s) : s \in {r \in todo[t] : IsNextVictim(t, r)}}
    [] pc[t] = "delete" \/ (pc[t] = "token" /\ kind[t] = "refresh") -> {TokenRow(uses[t])}
    [] pc[t] = "session" \/ (pc[t] = "flush" /\ todo[t] # {}) -> {SessionRow(uses[t])}
    [] pc[t] = "tokens" -> {TokenRow(x) : x \in todo[t]}
    [] pc[t] = "sessions" -> {SessionRow(s) : s \in todo[t]}
    [] OTHER -> {}

Blocked(t) == Wants(t) # {} /\ \A row \in Wants(t) : Holders(t, row) # {}

WaitsFor(t) == IF Blocked(t) THEN UNION {Holders(t, row) : row \in Wants(t)} ELSE {}

(* deadlock_timeout: one of a circle of transactions is aborted.           *)
AbortDeadlock(t) ==
  /\ \E circle \in SUBSET Requests :
       /\ t \in circle
       /\ \A u \in circle : \E v \in circle : u \in WaitsFor(v)
       /\ \A u \in circle : \E v \in circle : v \in WaitsFor(u)
  /\ Rollback(t)

Work(t) ==
  \/ LogAudit(t) \/ Login(t) \/ CountSessions(t) \/ PickOldest(t)
  \/ EvictSession(t) \/ EvictToken(t) \/ Store(t)
  \/ Present(t) \/ LockToken(t) \/ LockSession(t) \/ RejectRefresh(t)
  \/ ReadToken(t) \/ DeleteToken(t) \/ FlushLogout(t)
  \/ UseResetToken(t) \/ ChangePassword(t) \/ WritePassword(t)
  \/ ReadTokens(t) \/ RevokeToken(t) \/ ReadSessions(t) \/ RevokeSession(t) \/ EndRevoking(t)
  \/ Commit(t)

Next == \E t \in Requests : Work(t) \/ RefuseExpired(t) \/ Fail(t) \/ AbortDeadlock(t)

Spec == Init /\ [][Next]_vars

(* A transaction goes on, and is not left in a circle of waiting ones.     *)
FairSpec ==
  /\ Spec
  /\ \A t \in Requests : WF_vars(InTransaction(t) /\ Work(t)) /\ WF_vars(AbortDeadlock(t))

-----------------------------------------------------------------------------
(* Properties.                                                             *)

(* However requests with the same refresh token interleave, it is          *)
(* exchanged once: no two sessions follow the same one.                    *)
RotatedOnce ==
  \A s, r \in DOMAIN sessions :
     sessions[s].parent = sessions[r].parent /\ sessions[s].parent # None => s = r

(* A session that counts against the limit has its token, whichever of     *)
(* logout, rotation, eviction and password change have met: until the      *)
(* token expires it can be refreshed.                                      *)
LiveHaveTokens == \A s \in DOMAIN sessions : ~sessions[s].revoked => s \in tokens

SessionsAgree == TypeOK /\ RotatedOnce /\ LiveHaveTokens

(* A password change ends the sessions there were and what they have been  *)
(* rotated into while it was waiting for their rows.                       *)
ChangeEndsOthers ==
  \A t \in Requests : pc[t] = "done" =>
    \A s \in DOMAIN sessions :
       s \in old[t] \/ sessions[s].parent \in old[t] => sessions[s].revoked

(* Logins alone never leave more live sessions than the limit, however     *)
(* many count at the same time: the oldest make room.                      *)
LoginsKeepLimit ==
  (\A t \in Requests : kind[t] # "refresh") =>
     Cardinality({s \in DOMAIN sessions : ~sessions[s].revoked}) <= Limit

(* Every request ends, although they wait for each other's rows.           *)
RequestsEnd == \A t \in Requests : InTransaction(t) ~> ~InTransaction(t)

=============================================================================
