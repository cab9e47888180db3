--------------------------- MODULE BrowserSession ---------------------------
(***************************************************************************)
(* The signed-in session as the tabs of one browser see it: the cookies    *)
(* they share, the bearer token each keeps in memory, the request wrapper  *)
(* that refreshes after a 401 and tries again, the guards of the dashboard *)
(* and the sign-in page.                                                   *)
(*                                                                         *)
(* Signing in or rotating issues token n: an access token, which is valid  *)
(* until it expires whatever becomes of the session, and a refresh token,  *)
(* which the server accepts once.  0 is no token.  Only refusals are       *)
(* answered in one step; an answer that sets cookies travels.              *)
(***************************************************************************)
EXTENDS Integers, FiniteSets

CONSTANTS
  Tabs,
  Requests,     \* the queries and mutations a tab can have under way
  SignIns,      \* sign-ins and logouts to come (bounds the model)
  Disturbances  \* expiries, faults, requests, page loads to come (bounds the model)

ASSUME BrowserAssumption ==
  /\ IsFiniteSet(Tabs) /\ Tabs # {} /\ IsFiniteSet(Requests)
  /\ SignIns \in Nat /\ Disturbances \in Nat
  /\ Requests \cap {"guard", "check", "form"} = {}

VARIABLES
  last,     \* the newest token
  expired,  \* access tokens up to this one are no longer valid
  live,     \* refresh tokens that the server accepts
  jar,      \* the cookies: access, refresh and ss_auth
  page,     \* where each tab is
  shown,    \* the tab's guard has let the dashboard through
  memory,   \* accessToken of the tab's lib/api
  op,       \* what each tab has under way
  out,      \* a logout has ended the session: nothing was under way that grants one
  lost,     \* a rotation's answer was lost, or the session was revoked elsewhere
  signs,    \* sign-ins and logouts to come
  left      \* disturbances to come

server == <<last, expired, live>>
vars == <<server, jar, page, shown, memory, op, out, lost, signs, left>>

Slots == {"guard", "check", "form"} \cup Requests
Token == Nat

Op == [kind : {"none", "guard", "check", "confirm", "request", "raw", "login", "mfa", "logout"},
       st : {"idle", "ask", "refresh", "granted", "again", "cleared"},
       bearer : BOOLEAN, token : Token]

Idle == [kind |-> "none", st |-> "idle", bearer |-> FALSE, token |-> 0]
NoOps == [s \in Slots |-> Idle]

TypeOK ==
  /\ last \in Token /\ expired \in 0..last /\ live \subseteq 1..last
  /\ jar \in [access : Token, refresh : Token, ssAuth : BOOLEAN]
  /\ page \in [Tabs -> {"login", "dash"}] /\ shown \in [Tabs -> BOOLEAN]
  /\ memory \in [Tabs -> Token] /\ op \in [Tabs -> [Slots -> Op]]
  /\ out \in BOOLEAN /\ lost \in BOOLEAN /\ signs \in 0..SignIns /\ left \in 0..Disturbances

Disturb == left > 0 /\ left' = left - 1 /\ UNCHANGED signs
Sign == signs > 0 /\ signs' = signs - 1 /\ UNCHANGED left

(* The headers of a request are built once; without a bearer token the     *)
(* cookie of the moment counts.                                            *)
Ask(kind, mem, cookies) ==
  LET bearer == kind # "raw" /\ mem # 0
  IN  [kind |-> kind, st |-> "ask", bearer |-> bearer, token |-> IF bearer THEN mem ELSE cookies.access]

Valid(token) == token > expired
Cleared == [jar EXCEPT !.ssAuth = FALSE]

(* The tabs are opened without cookies, or some were left of an earlier    *)
(* visit whose session is live.                                            *)
Init ==
  /\ last \in {0, 1} /\ live = 1..last
  /\ expired \in 0..last
  /\ jar = [access |-> last, refresh |-> last, ssAuth |-> last = 1]
  /\ page = [t \in Tabs |-> IF jar.ssAuth THEN "dash" ELSE "login"] /\ shown = [t \in Tabs |-> FALSE]
  /\ memory = [t \in Tabs |-> 0]
  /\ op = [t \in Tabs |-> IF jar.ssAuth THEN [NoOps EXCEPT !["guard"] = Ask("guard", 0, jar)]
                            ELSE [NoOps EXCEPT !["check"] = Ask("check", 0, jar)]]
  /\ out = FALSE /\ lost = FALSE /\ signs = SignIns /\ left = Disturbances

-----------------------------------------------------------------------------
(* Where a tab goes.                                                       *)

(* router.push and router.replace: what is under way in the tab goes on,   *)
(* the guard's request too, for nobody: its query client is gone.          *)
Abandon(ops) == IF ops["guard"].kind = "guard" THEN [ops EXCEPT !["guard"].kind = "request"] ELSE ops

ToLogin(t, cookies) ==
  /\ page' = [page EXCEPT ![t] = "login"] /\ shown' = [shown EXCEPT ![t] = FALSE]
  /\ jar' = cookies

(* An abandoned request of the guard ends before there is a new one        *)
(* (bounds the model).                                                     *)
ToDash(t) ==
  /\ op[t]["guard"].st = "idle"
  /\ page' = [page EXCEPT ![t] = "dash"] /\ shown' = [shown EXCEPT ![t] = FALSE]
  /\ jar' = [jar EXCEPT !.ssAuth = TRUE]

(* The sign-in page begins with a check; one under way stands for both.    *)
Checking(ops, mem, cookies) ==
  IF ops["check"].st = "idle" THEN [ops EXCEPT !["check"] = Ask("check", mem, cookies)] ELSE ops

Granted(t) == {op[t][s].token : s \in {x \in Slots : op[t][x].st = "granted"}}
Riding(t) == {op[t][s].token : s \in {x \in Slots : op[t][x].st = "refresh" \/ op[t][x].kind = "logout"}}

(* A page load drops the tab's memory and its requests.  The server may    *)
(* already have one that ends a token, and the browser may already have    *)
(* the cookies of an answer.                                               *)
Load(t, cookies) ==
  \E kept \in {0} \cup Granted(t), gone \in SUBSET (Riding(t) \cap live) :
    /\ memory' = [memory EXCEPT ![t] = 0] /\ shown' = [shown EXCEPT ![t] = FALSE]
    /\ live' = live \ gone
    /\ lost' = (lost \/ gone # {} \/ Granted(t) \ {kept} # {} \/ op[t]["form"].st = "cleared")
    /\ jar' = IF kept = 0 THEN cookies ELSE [cookies EXCEPT !.access = kept, !.refresh = kept]
    /\ page' = [page EXCEPT ![t] = IF cookies.ssAuth THEN "dash" ELSE "login"]
    /\ op' = [op EXCEPT ![t] = IF cookies.ssAuth THEN [NoOps EXCEPT !["guard"] = Ask("guard", 0, jar')]
                                ELSE [NoOps EXCEPT !["check"] = Ask("check", 0, jar')]]

-----------------------------------------------------------------------------
(* The request wrapper.                                                    *)

End(t, s) == [op[t] EXCEPT ![s] = Idle]
ClearTokens(t) == memory' = [memory EXCEPT ![t] = 0]

(* What the caller of api() does with the answer.                          *)
Succeed(t, s) ==
  LET kind == op[t][s].kind
  IN  /\ \/ /\ kind = "guard"
            /\ shown' = [shown EXCEPT ![t] = TRUE]
            /\ op' = [op EXCEPT ![t] = End(t, s)] /\ UNCHANGED <<page, jar>>
         \/ /\ kind = "check"
            /\ op' = [op EXCEPT ![t][s] = Ask("confirm", memory[t], jar)]
            /\ UNCHANGED <<page, shown, jar>>
         \/ /\ kind = "confirm" /\ page[t] = "login" /\ ToDash(t)
            /\ op' = [op EXCEPT ![t] = [End(t, s) EXCEPT !["guard"] = Ask("guard", memory[t], jar)]]
         \/ /\ kind = "confirm" /\ page[t] = "dash"
            /\ jar' = [jar EXCEPT !.ssAuth = TRUE]
            /\ op' = [op EXCEPT ![t] = End(t, s)] /\ UNCHANGED <<page, shown>>
         \/ /\ kind \in {"request", "raw"}
            /\ op' = [op EXCEPT ![t] = End(t, s)] /\ UNCHANGED <<page, shown, jar>>
      /\ UNCHANGED memory

(* Mutant: the guard clears the tokens and stays where it is.              *)
FailInPlace(t, s, cookies) ==
  /\ IF op[t][s].kind = "guard" \/ s = "check" THEN ClearTokens(t) /\ jar' = [cookies EXCEPT !.ssAuth = FALSE]
     ELSE jar' = cookies /\ UNCHANGED memory
  /\ op' = [op EXCEPT ![t] = End(t, s)] /\ UNCHANGED <<page, shown>>

(* The guard and the check of the sign-in page clear the tokens whatever   *)
(* the error was; the guard then leaves for the sign-in page.              *)
FailWith(t, s, cookies) ==
  \/ /\ op[t][s].kind = "guard"
     /\ ClearTokens(t) /\ ToLogin(t, [cookies EXCEPT !.ssAuth = FALSE])
     /\ op' = [op EXCEPT ![t] = Checking(End(t, s), 0, cookies)]
  \/ /\ op[t][s].kind # "guard" /\ s = "check"
     /\ ClearTokens(t) /\ jar' = [cookies EXCEPT !.ssAuth = FALSE]
     /\ op' = [op EXCEPT ![t] = End(t, s)] /\ UNCHANGED <<page, shown>>
  \/ /\ op[t][s].kind # "guard" /\ s # "check"
     /\ jar' = cookies /\ op' = [op EXCEPT ![t] = End(t, s)]
     /\ UNCHANGED <<page, shown, memory>>

Answer(t, s) ==
  /\ op[t][s].st \in {"ask", "again"} /\ op[t][s].kind \notin {"login", "mfa", "logout"}
  /\ IF Valid(op[t][s].token) THEN Succeed(t, s)
     ELSE IF op[t][s].st = "again" THEN FailWith(t, s, jar)
     ELSE /\ op' = [op EXCEPT ![t][s].st = "refresh", ![t][s].token = jar.refresh]
          /\ UNCHANGED <<jar, page, shown, memory>>
  /\ UNCHANGED <<server, out, lost, signs, left>>

(* The network fails: fetch throws, in the first request, the refresh or   *)
(* the second request; what the server rotated is lost.  A sign-in that is *)
(* refused ends in the same way.                                           *)
Break(t, s) ==
  /\ op[t][s].st \in {"ask", "refresh", "granted", "again"} /\ op[t][s].kind # "logout" /\ Disturb
  /\ FailWith(t, s, jar)
  /\ lost' = (lost \/ op[t][s].st = "granted")
  /\ UNCHANGED <<server, out>>

(* POST /auth/refresh: the token is deleted and a new pair issued.         *)
Rotate(t, s) ==
  /\ op[t][s].st = "refresh" /\ op[t][s].token \in live
  /\ last' = last + 1 /\ live' = (live \ {op[t][s].token}) \cup {last + 1}
  /\ op' = [op EXCEPT ![t][s].st = "granted", ![t][s].token = last + 1]
  /\ UNCHANGED <<expired, jar, page, shown, memory, out, lost, signs, left>>

(* Mutant: the answer carries no new refresh cookie.                       *)
TakeAccessOnly(t, s) ==
  /\ op[t][s].st = "granted" /\ op[t][s].kind \notin {"login", "mfa"}
  /\ jar' = [jar EXCEPT !.access = op[t][s].token, !.ssAuth = TRUE]
  /\ memory' = [memory EXCEPT ![t] = op[t][s].token]
  /\ op' = [op EXCEPT ![t][s].st = "again", ![t][s].token = IF op[t][s].bearer THEN 0 ELSE @]
  /\ UNCHANGED <<server, page, shown, out, lost, signs, left>>

(* Its answer: new cookies, a new token in memory, and the request again   *)
(* with the headers it had.                                                *)
TakeGrant(t, s) ==
  /\ op[t][s].st = "granted" /\ op[t][s].kind \notin {"login", "mfa"}
  /\ LET n == op[t][s].token
     IN  /\ jar' = [access |-> n, refresh |-> n, ssAuth |-> TRUE]
         /\ memory' = [memory EXCEPT ![t] = n]
         /\ op' = [op EXCEPT ![t][s].st = "again", ![t][s].token = IF op[t][s].bearer THEN 0 ELSE n]
  /\ UNCHANGED <<server, page, shown, out, lost, signs, left>>

(* Any answer but a new pair: the tokens are cleared and the tab is loaded *)
(* anew at the sign-in page, unless it is there; then the caller gets the  *)
(* error.                                                                  *)
Refused(t, s) ==
  /\ IF page[t] = "dash"
       THEN Load(t, Cleared)
       ELSE /\ ClearTokens(t) /\ jar' = Cleared /\ op' = [op EXCEPT ![t] = End(t, s)]
            /\ UNCHANGED <<live, lost, page, shown>>
  /\ UNCHANGED <<last, expired, out>>

(* 401.                                                                    *)
Expel(t, s) ==
  /\ op[t][s].st = "refresh" /\ op[t][s].token \notin live
  /\ Refused(t, s) /\ UNCHANGED <<signs, left>>

(* 429 or 5xx, whatever the token is worth.                                *)
RefuseForNow(t, s) ==
  /\ op[t][s].st = "refresh" /\ Disturb
  /\ Refused(t, s)

-----------------------------------------------------------------------------
(* What the user does.                                                     *)

(* The shell asks beside the guard.                                        *)
Send(t, s) ==
  /\ page[t] = "dash" /\ s \in Requests /\ op[t][s].st = "idle" /\ Disturb
  /\ \E kind \in {"request", "raw"} : op' = [op EXCEPT ![t][s] = Ask(kind, memory[t], jar)]
  /\ UNCHANGED <<server, jar, page, shown, memory, out, lost>>

(* Sign-in, with or without a second factor.                               *)
SignIn(t) ==
  /\ page[t] = "login" /\ op[t]["form"].st = "idle" /\ Sign
  /\ \E kind \in {"login", "mfa"} : op' = [op EXCEPT ![t]["form"] = [Idle EXCEPT !.kind = kind, !.st = "ask"]]
  /\ out' = FALSE
  /\ UNCHANGED <<server, jar, page, shown, memory, lost>>

Issue(t) ==
  /\ op[t]["form"].kind \in {"login", "mfa"} /\ op[t]["form"].st = "ask"
  /\ last' = last + 1 /\ live' = live \cup {last + 1}
  /\ op' = [op EXCEPT ![t]["form"].st = "granted", ![t]["form"].token = last + 1]
  /\ UNCHANGED <<expired, jar, page, shown, memory, out, lost, signs, left>>

(* The answer to the second factor does not go into memory: the challenge  *)
(* has emptied it.  Then establishSession.                                 *)
TakeSession(t) ==
  /\ op[t]["form"].kind \in {"login", "mfa"} /\ op[t]["form"].st = "granted"
  /\ LET n == op[t]["form"].token
         mem == IF op[t]["form"].kind = "login" THEN n ELSE 0
     IN  /\ jar' = [jar EXCEPT !.access = n, !.refresh = n]
         /\ memory' = [memory EXCEPT ![t] = mem]
         /\ op' = [op EXCEPT ![t]["form"] = Ask("confirm", mem, jar')]
  /\ UNCHANGED <<server, page, shown, out, lost, signs, left>>

(* The shell has the button, whatever the guard is doing.                  *)
Logout(t) ==
  /\ page[t] = "dash" /\ op[t]["form"].st = "idle" /\ Sign
  /\ op' = [op EXCEPT ![t]["form"] = [kind |-> "logout", st |-> "ask", bearer |-> FALSE, token |-> jar.refresh]]
  /\ UNCHANGED <<server, jar, page, shown, memory, out, lost>>

(* POST /auth/logout: the refresh token of the cookie is deleted.          *)
Forget(t) ==
  /\ op[t]["form"].kind = "logout" /\ op[t]["form"].st = "ask"
  /\ live' = live \ {op[t]["form"].token}
  /\ op' = [op EXCEPT ![t]["form"].st = "cleared"]
  /\ UNCHANGED <<last, expired, jar, page, shown, memory, out, lost, signs, left>>

(* Something is under way that will hand out a session.                    *)
Granting(t, s) ==
  \/ op[t][s].kind \in {"login", "mfa"} \/ op[t][s].st = "granted"
  \/ op[t][s].st = "refresh" /\ op[t][s].token \in live

(* Mutant: the cookies are deleted for another path.                       *)
LeaveKeepsCookies(t) ==
  /\ op[t]["form"].kind = "logout" /\ op[t]["form"].st = "cleared"
  /\ ToLogin(t, Cleared) /\ ClearTokens(t)
  /\ out' = \A u \in Tabs, s \in Slots : ~Granting(u, s)
  /\ op' = [op EXCEPT ![t] = Checking(Abandon(End(t, "form")), 0, jar')]
  /\ UNCHANGED <<server, lost, signs, left>>

(* logoutApi, then router.push("/login").                                  *)
Leave(t) ==
  /\ op[t]["form"].kind = "logout"
  /\ \/ /\ op[t]["form"].st = "cleared" /\ UNCHANGED <<signs, left, lost>>
        /\ ToLogin(t, [access |-> 0, refresh |-> 0, ssAuth |-> FALSE])
        /\ out' = \A u \in Tabs, s \in Slots : ~Granting(u, s)
     \/ /\ Disturb /\ ToLogin(t, Cleared) /\ UNCHANGED out      \* best effort: it goes on without the server
        /\ lost' = (lost \/ op[t]["form"].st = "cleared")
  /\ ClearTokens(t)
  /\ op' = [op EXCEPT ![t] = Checking(Abandon(End(t, "form")), 0, jar')]
  /\ UNCHANGED server

(* A link of the dashboard, after another tab has cleared ss_auth; before  *)
(* the guard has decided it is a disturbance (bounds the model).           *)
Navigate(t) ==
  /\ page[t] = "dash" /\ ~jar.ssAuth /\ op[t]["form"].st = "idle"
  /\ ToLogin(t, jar)
  /\ op' = [op EXCEPT ![t] = Checking(Abandon(op[t]), memory[t], jar)]
  /\ IF shown[t] THEN UNCHANGED <<signs, left>> ELSE Disturb
  /\ UNCHANGED <<server, memory, out, lost>>

Reload(t) ==
  /\ Disturb /\ Load(t, jar)
  /\ UNCHANGED <<last, expired, out>>

Expire ==
  /\ expired < last /\ Disturb
  /\ expired' = last
  /\ UNCHANGED <<last, live, jar, page, shown, memory, op, out, lost>>

(* The password is changed or the session revoked on another device.       *)
Revoke ==
  /\ live # {} /\ Disturb
  /\ live' = {} /\ lost' = TRUE
  /\ UNCHANGED <<last, expired, jar, page, shown, memory, op, out>>

Next ==
  \/ \E t \in Tabs, s \in Slots : Answer(t, s) \/ Break(t, s) \/ Rotate(t, s) \/ TakeGrant(t, s) \/ Expel(t, s) \/ RefuseForNow(t, s)
                                      \/ Send(t, s)
  \/ \E t \in Tabs : SignIn(t) \/ Issue(t) \/ TakeSession(t) \/ Logout(t) \/ Forget(t) \/ Leave(t)
                       \/ Navigate(t) \/ Reload(t)
  \/ Expire \/ Revoke

Spec == Init /\ [][Next]_vars

(* The server answers what is sent to it, and the browser takes answers.   *)
FairSpec ==
  /\ Spec
  /\ \A t \in Tabs, s \in Slots : WF_vars(Answer(t, s) \/ Rotate(t, s) \/ TakeGrant(t, s) \/ Expel(t, s))
  /\ \A t \in Tabs : WF_vars(Issue(t) \/ TakeSession(t)) /\ WF_vars(Forget(t)) /\ WF_vars(Leave(t))

-----------------------------------------------------------------------------
(* Properties.                                                             *)

(* After a logout nothing brings the session back but signing in, unless a *)
(* refresh or a sign-in of some tab was under way when its answer came.    *)
LogoutHolds == TypeOK /\ (out => jar.refresh = 0 /\ \A t \in Tabs, s \in Slots : ~Granting(t, s))

(* While a session has not been ended on purpose, the browser has the one  *)
(* refresh token that keeps it alive, or is about to get it, unless the    *)
(* answer of a rotation was lost.                                          *)
SessionKept ==
  jar.refresh # 0 /\ ~lost =>
    \/ jar.refresh \in live
    \/ \E t \in Tabs, s \in Slots : op[t][s].st = "granted" /\ op[t][s].token \in live
    \/ \E t \in Tabs : op[t]["form"].st = "cleared"

(* Tabs do not go back and forth between the dashboard and the sign-in     *)
(* page for ever, and the guard of the dashboard always decides.           *)
TabsSettle ==
  /\ <>[](\A t \in Tabs, s \in Slots : op[t][s].st = "idle")
  /\ \A t \in Tabs : (page[t] = "dash" /\ ~shown[t]) ~> (page[t] = "login" \/ shown[t])
=============================================================================
