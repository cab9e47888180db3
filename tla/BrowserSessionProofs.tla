------------------------ MODULE BrowserSessionProofs ------------------------
(***************************************************************************)
(* What a logout has ended stays ended, and what nobody has ended is kept, *)
(* for any number of tabs, requests under way, sign-ins and faults.        *)
(***************************************************************************)
EXTENDS BrowserSession, TLAPS

Cookies == [access : Token, refresh : Token, ssAuth : BOOLEAN]
Kinds == {"none", "guard", "check", "confirm", "request", "raw", "login", "mfa", "logout"}
TabOps == [Slots -> Op]

-----------------------------------------------------------------------------
(* What the operators return.                                              *)

LEMMA AskIsOp ==
  ASSUME NEW kind \in Kinds, NEW mem \in Token, NEW cookies \in Cookies
  PROVE  Ask(kind, mem, cookies) \in Op
BY DEF Ask, Op, Kinds, Token, Cookies

LEMMA NoOpsAreOps == Idle \in Op /\ NoOps \in TabOps
BY DEF Idle, NoOps, Op, TabOps, Token

(* Another entry for one slot of a tab.                                    *)
LEMMA PutOp ==
  ASSUME NEW ops \in TabOps, NEW s \in Slots, NEW o \in Op
  PROVE  /\ [ops EXCEPT ![s] = o] \in TabOps
         /\ \A x \in Slots : [ops EXCEPT ![s] = o][x] = IF x = s THEN o ELSE ops[x]
BY DEF TabOps

(* A step of what is under way.                                            *)
Steps == {"idle", "ask", "refresh", "granted", "again", "cleared"}

LEMMA StepOp ==
  ASSUME NEW o \in Op, NEW st \in Steps, NEW token \in Nat
  PROVE  [o EXCEPT !.st = st, !.token = token] \in Op /\ o.token \in Nat
BY DEF Op, Steps, Token

LEMMA BoundsAreNat == SignIns \in Nat /\ Disturbances \in Nat
BY BrowserAssumption

LEMMA FixedSlots == "guard" \in Slots /\ "check" \in Slots /\ "form" \in Slots
BY DEF Slots

(* What a tab has under way when a page has been loaded.                   *)
LEMMA LoadedOps ==
  ASSUME NEW cookies \in Cookies
  PROVE  /\ [NoOps EXCEPT !["guard"] = Ask("guard", 0, cookies)] \in TabOps
         /\ [NoOps EXCEPT !["check"] = Ask("check", 0, cookies)] \in TabOps
<1>1. Ask("guard", 0, cookies) \in Op /\ Ask("check", 0, cookies) \in Op
  BY AskIsOp DEF Kinds, Token
<1>2. QED
  BY <1>1, NoOpsAreOps, FixedSlots, PutOp

LEMMA CheckingOps ==
  ASSUME NEW ops \in TabOps, NEW mem \in Token, NEW cookies \in Cookies
  PROVE  Checking(ops, mem, cookies) \in TabOps
<1>1. Ask("check", mem, cookies) \in Op
  BY AskIsOp DEF Kinds
<1>2. QED
  BY <1>1, FixedSlots, PutOp DEF Checking

LEMMA AbandonOps ==
  ASSUME NEW ops \in TabOps
  PROVE  Abandon(ops) \in TabOps /\ \A x \in Slots \ {"guard"} : Abandon(ops)[x] = ops[x]
<1> DEFINE o == [ops["guard"] EXCEPT !.kind = "request"]
<1>1. ops["guard"] \in Op /\ o \in Op
  BY FixedSlots DEF TabOps, Op
<1>2. [ops EXCEPT !["guard"].kind = "request"] = [ops EXCEPT !["guard"] = o]
  BY <1>1 DEF TabOps
<1> HIDE DEF o
<1>3. /\ [ops EXCEPT !["guard"] = o] \in TabOps
      /\ \A x \in Slots : [ops EXCEPT !["guard"] = o][x] = IF x = "guard" THEN o ELSE ops[x]
  BY <1>1, FixedSlots, PutOp
<1>4. QED
  BY <1>2, <1>3 DEF Abandon

(* Only who waits for the guard's request changes.                         *)
LEMMA AbandonIs ==
  ASSUME NEW ops \in TabOps
  PROVE  /\ Abandon(ops)["guard"].st = ops["guard"].st /\ Abandon(ops)["guard"].token = ops["guard"].token
         /\ Abandon(ops)["guard"].kind \in {ops["guard"].kind, "request"}
         /\ Abandon(ops)["guard"].kind = ops["guard"].kind \/ ops["guard"].kind = "guard"
<1> DEFINE o == [ops["guard"] EXCEPT !.kind = "request"]
<1>1. ops["guard"] \in Op
  BY FixedSlots DEF TabOps
<1>2. o.st = ops["guard"].st /\ o.token = ops["guard"].token /\ o.kind = "request"
  BY <1>1 DEF Op
<1>3. [ops EXCEPT !["guard"].kind = "request"]["guard"] = o
  BY <1>1, FixedSlots DEF TabOps
<1>4. CASE ops["guard"].kind = "guard"
  BY <1>2, <1>3, <1>4 DEF Abandon
<1>5. CASE ops["guard"].kind # "guard"
  BY <1>5 DEF Abandon
<1>6. QED
  BY <1>4, <1>5

LEMMA EndOps ==
  ASSUME TypeOK, NEW t \in Tabs, NEW s \in Slots
  PROVE  End(t, s) \in TabOps /\ op[t] \in TabOps /\ op[t][s] \in Op
<1>1. op[t] \in TabOps /\ op[t][s] \in Op
  BY DEF TypeOK, TabOps
<1>2. QED
  BY <1>1, NoOpsAreOps, PutOp DEF End

-----------------------------------------------------------------------------
(* Types.                                                                  *)

(* The variables that travel with a tab.                                   *)
TabTypes ==
  /\ jar \in Cookies
  /\ page \in [Tabs -> {"login", "dash"}] /\ shown \in [Tabs -> BOOLEAN]
  /\ memory \in [Tabs -> Token] /\ op \in [Tabs -> TabOps]

ServerTypes == last \in Token /\ expired \in 0..last /\ live \subseteq 1..last

RestTypes == out \in BOOLEAN /\ lost \in BOOLEAN /\ signs \in 0..SignIns /\ left \in 0..Disturbances

LEMMA TypeParts == TypeOK <=> ServerTypes /\ TabTypes /\ RestTypes
BY DEF TypeOK, ServerTypes, TabTypes, RestTypes, Cookies, TabOps

LEMMA DisturbTypes == RestTypes /\ Disturb => left' \in 0..Disturbances /\ signs' \in 0..SignIns
BY BoundsAreNat DEF RestTypes, Disturb

LEMMA SignTypes == RestTypes /\ Sign => left' \in 0..Disturbances /\ signs' \in 0..SignIns
BY BoundsAreNat DEF RestTypes, Sign

LEMMA InitTypes == Init => TypeOK
<1> SUFFICES ASSUME Init PROVE TypeOK
  OBVIOUS
<1>1. ServerTypes
  BY DEF Init, ServerTypes, Token
<1>2. RestTypes
  <2>1. signs = SignIns /\ left = Disturbances /\ out = FALSE /\ lost = FALSE
    BY DEF Init
  <2>2. SignIns \in 0..SignIns /\ Disturbances \in 0..Disturbances
    BY BoundsAreNat
  <2>3. QED
    BY <2>1, <2>2 DEF RestTypes
<1>3. jar \in Cookies
  BY DEF Init, Cookies, Token
<1>4. op \in [Tabs -> TabOps]
  BY <1>3, LoadedOps DEF Init
<1>5. TabTypes
  BY <1>3, <1>4 DEF Init, TabTypes, Token
<1>6. QED
  BY <1>1, <1>2, <1>5, TypeParts

LEMMA JarMarked ==
  ASSUME NEW cookies \in Cookies
  PROVE  [cookies EXCEPT !.ssAuth = TRUE] \in Cookies
BY DEF Cookies

LEMMA SucceedTypes ==
  ASSUME TypeOK, NEW t \in Tabs, NEW s \in Slots, Succeed(t, s)
  PROVE  TabTypes'
<1> USE DEF Token
<1>1. TabTypes
  BY TypeParts
<1>2. End(t, s) \in TabOps /\ op[t] \in TabOps
  BY EndOps
<1>3. memory' = memory /\ memory[t] \in Token
  BY <1>1 DEF Succeed, TabTypes
<1>4. Ask("guard", memory[t], jar) \in Op /\ Ask("confirm", memory[t], jar) \in Op
  BY <1>1, <1>3, AskIsOp DEF TabTypes, Kinds
<1>5. CASE op[t][s].kind = "check"
  <2>1. op' = [op EXCEPT ![t] = [op[t] EXCEPT ![s] = Ask("confirm", memory[t], jar)]] /\ UNCHANGED <<page, shown, jar>>
    BY <1>1, <1>5 DEF Succeed, TabTypes, TabOps
  <2>2. [op[t] EXCEPT ![s] = Ask("confirm", memory[t], jar)] \in TabOps
    BY <1>2, <1>4, PutOp
  <2>3. QED
    BY <1>1, <1>3, <2>1, <2>2 DEF TabTypes
<1>6. CASE op[t][s].kind = "confirm" /\ page[t] = "login"
  <2>1. /\ op' = [op EXCEPT ![t] = [End(t, s) EXCEPT !["guard"] = Ask("guard", memory[t], jar)]]
        /\ ToDash(t)
    BY <1>6 DEF Succeed
  <2>2. [End(t, s) EXCEPT !["guard"] = Ask("guard", memory[t], jar)] \in TabOps
    BY <1>2, <1>4, FixedSlots, PutOp
  <2>3. op' \in [Tabs -> TabOps] /\ memory' \in [Tabs -> Token]
    BY <1>1, <1>3, <2>1, <2>2 DEF TabTypes
  <2>4. page' \in [Tabs -> {"login", "dash"}] /\ shown' \in [Tabs -> BOOLEAN] /\ jar' \in Cookies
    <3>1. page' \in [Tabs -> {"login", "dash"}] /\ shown' \in [Tabs -> BOOLEAN]
      BY <1>1, <2>1 DEF TabTypes, ToDash
    <3>2. jar' = [jar EXCEPT !.ssAuth = TRUE]
      BY <2>1 DEF ToDash
    <3>3. QED
      BY <1>1, <3>1, <3>2, JarMarked DEF TabTypes
  <2>5. QED
    BY <2>3, <2>4 DEF TabTypes
<1>7. CASE ~(op[t][s].kind = "check") /\ ~(op[t][s].kind = "confirm" /\ page[t] = "login")
  <2>1. op' = [op EXCEPT ![t] = End(t, s)] /\ page' = page
    BY <1>7 DEF Succeed
  <2>2. /\ shown' = shown \/ shown' = [shown EXCEPT ![t] = TRUE]
        /\ jar' = jar \/ jar' = [jar EXCEPT !.ssAuth = TRUE]
    BY <1>7 DEF Succeed
  <2>3. jar' \in Cookies /\ shown' \in [Tabs -> BOOLEAN]
    <3>1. shown' \in [Tabs -> BOOLEAN]
      BY <1>1, <2>2 DEF TabTypes
    <3>2. QED
      BY <1>1, <2>2, <3>1, JarMarked DEF TabTypes
  <2>4. op' \in [Tabs -> TabOps]
    BY <1>1, <1>2, <2>1 DEF TabTypes
  <2>5. QED
    BY <1>1, <1>3, <2>1, <2>3, <2>4 DEF TabTypes
<1>8. QED
  BY <1>5, <1>6, <1>7

LEMMA FailTypes ==
  ASSUME TypeOK, NEW t \in Tabs, NEW s \in Slots, FailWith(t, s, jar)
  PROVE  TabTypes'
<1> USE DEF Token
<1>1. TabTypes
  BY TypeParts
<1>2. End(t, s) \in TabOps
  BY EndOps
<1>3. Checking(End(t, s), 0, jar) \in TabOps
  BY <1>1, <1>2, CheckingOps DEF TabTypes
<1>4. memory' = memory \/ memory' = [memory EXCEPT ![t] = 0]
  BY DEF FailWith, ClearTokens
<1>5. jar' = jar \/ jar' = [jar EXCEPT !.ssAuth = FALSE]
  BY DEF FailWith, ToLogin
<1>6. /\ page' = page \/ page' = [page EXCEPT ![t] = "login"]
      /\ shown' = shown \/ shown' = [shown EXCEPT ![t] = FALSE]
  BY DEF FailWith, ToLogin
<1>7. op' = [op EXCEPT ![t] = End(t, s)] \/ op' = [op EXCEPT ![t] = Checking(End(t, s), 0, jar)]
  BY DEF FailWith
<1>8. jar' \in Cookies
  BY <1>1, <1>5 DEF TabTypes, Cookies
<1>9. memory' \in [Tabs -> Token]
  BY <1>1, <1>4 DEF TabTypes
<1>10. page' \in [Tabs -> {"login", "dash"}] /\ shown' \in [Tabs -> BOOLEAN]
  BY <1>1, <1>6 DEF TabTypes
<1>11. op' \in [Tabs -> TabOps]
  BY <1>1, <1>2, <1>3, <1>7 DEF TabTypes
<1>12. QED
  BY <1>8, <1>9, <1>10, <1>11 DEF TabTypes

LEMMA LoadTypes ==
  ASSUME TypeOK, NEW t \in Tabs, NEW cookies \in Cookies, Load(t, cookies)
  PROVE  TabTypes' /\ live' \subseteq live /\ lost' \in BOOLEAN
<1> USE DEF Token
<1>1. TabTypes
  BY TypeParts
<1>2. Granted(t) \subseteq Nat
  BY DEF Granted, TypeOK, Op
<1>3. PICK kept \in {0} \cup Granted(t), gone \in SUBSET (Riding(t) \cap live) :
        /\ memory' = [memory EXCEPT ![t] = 0] /\ shown' = [shown EXCEPT ![t] = FALSE]
        /\ live' = live \ gone
        /\ lost' = (lost \/ gone # {} \/ Granted(t) \ {kept} # {} \/ op[t]["form"].st = "cleared")
        /\ jar' = IF kept = 0 THEN cookies ELSE [cookies EXCEPT !.access = kept, !.refresh = kept]
        /\ page' = [page EXCEPT ![t] = IF cookies.ssAuth THEN "dash" ELSE "login"]
        /\ op' = [op EXCEPT ![t] = IF cookies.ssAuth THEN [NoOps EXCEPT !["guard"] = Ask("guard", 0, jar')]
                                    ELSE [NoOps EXCEPT !["check"] = Ask("check", 0, jar')]]
  BY DEF Load
<1>4. jar' \in Cookies
  BY <1>2, <1>3 DEF Cookies
<1>5. op' \in [Tabs -> TabOps]
  <2>1. [NoOps EXCEPT !["guard"] = Ask("guard", 0, jar')] \in TabOps /\ [NoOps EXCEPT !["check"] = Ask("check", 0, jar')] \in TabOps
    BY <1>4, LoadedOps
  <2>2. QED
    BY <1>1, <1>3, <2>1 DEF TabTypes
<1>6. QED
  BY <1>1, <1>3, <1>4, <1>5 DEF TabTypes

(* Every step keeps the types.                                             *)
LEMMA StepTypes ==
  ASSUME TypeOK, [Next]_vars
  PROVE  TypeOK'
<1> USE DEF Token
<1>0. ServerTypes /\ TabTypes /\ RestTypes
  BY TypeParts
<1>1. SUFFICES ServerTypes' /\ TabTypes' /\ RestTypes'
  BY DEF TypeOK, ServerTypes, TabTypes, RestTypes, Cookies, TabOps
<1>2. ASSUME NEW t \in Tabs, NEW s \in Slots, NEW v \in Op, op' = [op EXCEPT ![t] = [op[t] EXCEPT ![s] = v]]
      PROVE  op' \in [Tabs -> TabOps]
  <2>1. [op[t] EXCEPT ![s] = v] \in TabOps
    BY <1>2, EndOps, PutOp
  <2>2. QED
    BY <1>0, <1>2, <2>1 DEF TabTypes
<1>3. ASSUME NEW t \in Tabs, NEW s \in Slots, Answer(t, s)
      PROVE  ServerTypes' /\ TabTypes' /\ RestTypes'
  <2>1. ServerTypes' /\ RestTypes'
    BY <1>0, <1>3 DEF Answer, server, ServerTypes, RestTypes
  <2>2. CASE Succeed(t, s)
    BY <2>1, <2>2, SucceedTypes
  <2>3. CASE FailWith(t, s, jar)
    BY <2>1, <2>3, FailTypes
  <2>4. CASE ~Succeed(t, s) /\ ~FailWith(t, s, jar)
    <3>1. /\ op' = [op EXCEPT ![t] = [op[t] EXCEPT ![s] = [op[t][s] EXCEPT !.st = "refresh", !.token = jar.refresh]]]
          /\ UNCHANGED <<jar, page, shown, memory>>
      BY <1>0, <1>3, <2>4 DEF Answer, TabTypes, TabOps, Op
    <3>2. jar.refresh \in Nat
      BY <1>0 DEF TabTypes, Cookies
    <3>3. [op[t][s] EXCEPT !.st = "refresh", !.token = jar.refresh] \in Op
      BY <3>2, EndOps, StepOp DEF Steps
    <3>4. op' \in [Tabs -> TabOps]
      BY <1>2, <3>1, <3>3
    <3>5. QED
      BY <1>0, <2>1, <3>1, <3>4 DEF TabTypes
  <2>5. QED
    BY <2>2, <2>3, <2>4
<1>4. ASSUME NEW t \in Tabs, NEW s \in Slots, Break(t, s)
      PROVE  ServerTypes' /\ TabTypes' /\ RestTypes'
  <2>1. ServerTypes' /\ RestTypes'
    BY <1>0, <1>4, DisturbTypes DEF Break, server, ServerTypes, RestTypes
  <2>2. QED
    BY <1>4, <2>1, FailTypes DEF Break
<1>5. ASSUME NEW t \in Tabs, NEW s \in Slots, Rotate(t, s)
      PROVE  ServerTypes' /\ TabTypes' /\ RestTypes'
  <2>1. op' = [op EXCEPT ![t] = [op[t] EXCEPT ![s] = [op[t][s] EXCEPT !.st = "granted", !.token = last + 1]]]
    BY <1>0, <1>5 DEF Rotate, TabTypes, TabOps, Op
  <2>2. [op[t][s] EXCEPT !.st = "granted", !.token = last + 1] \in Op
    <3>1. last + 1 \in Nat
      BY <1>0 DEF ServerTypes
    <3>2. QED
      BY <3>1, EndOps, StepOp DEF Steps
  <2>3. ServerTypes' /\ RestTypes'
    BY <1>0, <1>5 DEF Rotate, ServerTypes, RestTypes
  <2>4. op' \in [Tabs -> TabOps]
    BY <1>2, <2>1, <2>2
  <2>5. QED
    BY <1>0, <1>5, <2>3, <2>4 DEF Rotate, TabTypes
<1>6. ASSUME NEW t \in Tabs, NEW s \in Slots, TakeGrant(t, s)
      PROVE  ServerTypes' /\ TabTypes' /\ RestTypes'
  <2> DEFINE n == op[t][s].token
  <2> DEFINE o == [op[t][s] EXCEPT !.st = "again", !.token = IF op[t][s].bearer THEN 0 ELSE n]
  <2>1. n \in Nat /\ o \in Op
    BY EndOps, StepOp DEF Steps
  <2>2. op' = [op EXCEPT ![t] = [op[t] EXCEPT ![s] = o]]
    BY <1>0, <1>6 DEF TakeGrant, TabTypes, TabOps, Op
  <2>3. jar' \in Cookies /\ memory' \in [Tabs -> Token] /\ UNCHANGED <<page, shown>>
    BY <1>0, <1>6, <2>1 DEF TakeGrant, TabTypes, Cookies
  <2>4. op' \in [Tabs -> TabOps]
    BY <1>2, <2>1, <2>2
  <2>5. ServerTypes' /\ RestTypes'
    BY <1>0, <1>6 DEF TakeGrant, server, ServerTypes, RestTypes
  <2>6. QED
    BY <1>0, <2>3, <2>4, <2>5 DEF TabTypes
<1>7. ASSUME NEW t \in Tabs, NEW s \in Slots, Expel(t, s) \/ RefuseForNow(t, s)
      PROVE  ServerTypes' /\ TabTypes' /\ RestTypes'
  <2>0. Refused(t, s) /\ left' \in 0..Disturbances /\ signs' \in 0..SignIns
    BY <1>0, <1>7, DisturbTypes DEF Expel, RefuseForNow, RestTypes
  <2>1. Cleared \in Cookies
    BY <1>0 DEF Cleared, TabTypes, Cookies
  <2>2. CASE page[t] = "dash"
    <3>1. TabTypes' /\ live' \subseteq live /\ lost' \in BOOLEAN
      BY <2>0, <2>1, <2>2, LoadTypes DEF Refused
    <3>2. QED
      BY <1>0, <2>0, <3>1 DEF Refused, ServerTypes, RestTypes
  <2>3. CASE page[t] # "dash"
    <3>1. End(t, s) \in TabOps
      BY EndOps
    <3>2. /\ jar' = Cleared /\ memory' = [memory EXCEPT ![t] = 0] /\ op' = [op EXCEPT ![t] = End(t, s)]
          /\ UNCHANGED <<live, lost, page, shown, last, expired, out>>
      BY <2>0, <2>3 DEF Refused, ClearTokens
    <3>3. TabTypes'
      BY <1>0, <2>1, <3>1, <3>2 DEF TabTypes
    <3>4. QED
      BY <1>0, <2>0, <3>2, <3>3 DEF ServerTypes, RestTypes
  <2>4. QED
    BY <2>2, <2>3
<1>8. ASSUME NEW t \in Tabs, NEW s \in Slots, Send(t, s)
      PROVE  ServerTypes' /\ TabTypes' /\ RestTypes'
  <2>1. PICK kind \in {"request", "raw"} : op' = [op EXCEPT ![t][s] = Ask(kind, memory[t], jar)]
    BY <1>8 DEF Send
  <2>2. Ask(kind, memory[t], jar) \in Op
    BY <1>0, AskIsOp DEF TabTypes, Kinds
  <2>3. op' = [op EXCEPT ![t] = [op[t] EXCEPT ![s] = Ask(kind, memory[t], jar)]]
    BY <1>0, <2>1 DEF TabTypes, TabOps
  <2>4. ServerTypes' /\ RestTypes'
    BY <1>0, <1>8, DisturbTypes DEF Send, server, ServerTypes, RestTypes
  <2>5. QED
    BY <1>0, <1>2, <1>8, <2>2, <2>3, <2>4 DEF Send, TabTypes
<1>9. ASSUME NEW t \in Tabs, SignIn(t)
      PROVE  ServerTypes' /\ TabTypes' /\ RestTypes'
  <2>1. PICK kind \in {"login", "mfa"} : op' = [op EXCEPT ![t]["form"] = [Idle EXCEPT !.kind = kind, !.st = "ask"]]
    BY <1>9 DEF SignIn
  <2>2. [Idle EXCEPT !.kind = kind, !.st = "ask"] \in Op
    BY DEF Idle, Op
  <2>3. op' = [op EXCEPT ![t] = [op[t] EXCEPT !["form"] = [Idle EXCEPT !.kind = kind, !.st = "ask"]]]
    BY <1>0, <2>1 DEF TabTypes, TabOps
  <2>4. ServerTypes' /\ RestTypes'
    BY <1>0, <1>9, SignTypes DEF SignIn, server, ServerTypes, RestTypes
  <2>5. QED
    BY <1>0, <1>2, <1>9, <2>2, <2>3, <2>4, FixedSlots DEF SignIn, TabTypes
<1>10. ASSUME NEW t \in Tabs, Issue(t)
       PROVE  ServerTypes' /\ TabTypes' /\ RestTypes'
  <2>1. op' = [op EXCEPT ![t] = [op[t] EXCEPT !["form"] = [op[t]["form"] EXCEPT !.st = "granted", !.token = last + 1]]]
    BY <1>0, <1>10, FixedSlots DEF Issue, TabTypes, TabOps, Op
  <2>2. [op[t]["form"] EXCEPT !.st = "granted", !.token = last + 1] \in Op
    <3>1. last + 1 \in Nat
      BY <1>0 DEF ServerTypes
    <3>2. QED
      BY <3>1, EndOps, FixedSlots, StepOp DEF Steps
  <2>3. ServerTypes' /\ RestTypes'
    BY <1>0, <1>10 DEF Issue, ServerTypes, RestTypes
  <2>4. op' \in [Tabs -> TabOps]
    BY <1>2, <2>1, <2>2, FixedSlots
  <2>5. QED
    BY <1>0, <1>10, <2>3, <2>4 DEF Issue, TabTypes
<1>11. ASSUME NEW t \in Tabs, TakeSession(t)
       PROVE  ServerTypes' /\ TabTypes' /\ RestTypes'
  <2> DEFINE n == op[t]["form"].token
  <2> DEFINE mem == IF op[t]["form"].kind = "login" THEN n ELSE 0
  <2>1. n \in Nat /\ mem \in Nat
    BY EndOps, FixedSlots DEF Op
  <2>2. jar' \in Cookies /\ memory' = [memory EXCEPT ![t] = mem]
    BY <1>0, <1>11, <2>1 DEF TakeSession, TabTypes, Cookies
  <2>3. Ask("confirm", mem, jar') \in Op
    BY <2>1, <2>2, AskIsOp DEF Kinds
  <2>4. op' = [op EXCEPT ![t] = [op[t] EXCEPT !["form"] = Ask("confirm", mem, jar')]]
    BY <1>0, <1>11, FixedSlots DEF TakeSession, TabTypes, TabOps
  <2>5. ServerTypes' /\ RestTypes' /\ UNCHANGED <<page, shown>>
    BY <1>0, <1>11 DEF TakeSession, server, ServerTypes, RestTypes
  <2>6. QED
    BY <1>0, <1>2, <2>1, <2>2, <2>3, <2>4, <2>5, FixedSlots DEF TabTypes
<1>12. ASSUME NEW t \in Tabs, Logout(t)
       PROVE  ServerTypes' /\ TabTypes' /\ RestTypes'
  <2> DEFINE o == [kind |-> "logout", st |-> "ask", bearer |-> FALSE, token |-> jar.refresh]
  <2>1. o \in Op
    BY <1>0 DEF TabTypes, Cookies, Op
  <2>2. op' = [op EXCEPT ![t] = [op[t] EXCEPT !["form"] = o]]
    BY <1>0, <1>12, FixedSlots DEF Logout, TabTypes, TabOps
  <2>3. ServerTypes' /\ RestTypes'
    BY <1>0, <1>12, SignTypes DEF Logout, server, ServerTypes, RestTypes
  <2>4. op' \in [Tabs -> TabOps]
    BY <1>2, <2>1, <2>2, FixedSlots
  <2>5. QED
    BY <1>0, <1>12, <2>3, <2>4 DEF Logout, TabTypes
<1>13. ASSUME NEW t \in Tabs, Forget(t)
       PROVE  ServerTypes' /\ TabTypes' /\ RestTypes'
  <2>1. op' = [op EXCEPT ![t] = [op[t] EXCEPT !["form"] = [op[t]["form"] EXCEPT !.st = "cleared"]]]
    BY <1>0, <1>13, FixedSlots DEF Forget, TabTypes, TabOps, Op
  <2>2. [op[t]["form"] EXCEPT !.st = "cleared"] \in Op
    BY EndOps, FixedSlots DEF Op
  <2>3. QED
    BY <1>0, <1>2, <1>13, <2>1, <2>2, FixedSlots DEF Forget, TabTypes, ServerTypes, RestTypes
<1>14. ASSUME NEW t \in Tabs, Leave(t)
       PROVE  ServerTypes' /\ TabTypes' /\ RestTypes'
  <2>1. jar' \in Cookies
    <3>1. jar' = [access |-> 0, refresh |-> 0, ssAuth |-> FALSE] \/ jar' = [jar EXCEPT !.ssAuth = FALSE]
      BY <1>14 DEF Leave, ToLogin, Cleared
    <3>2. [access |-> 0, refresh |-> 0, ssAuth |-> FALSE] \in Cookies
      BY DEF Cookies
    <3>3. [jar EXCEPT !.ssAuth = FALSE] \in Cookies
      BY <1>0 DEF TabTypes, Cookies
    <3>4. QED
      BY <3>1, <3>2, <3>3
  <2>2. Checking(Abandon(End(t, "form")), 0, jar') \in TabOps
    BY <2>1, EndOps, AbandonOps, FixedSlots, CheckingOps
  <2>3. page' = [page EXCEPT ![t] = "login"] /\ shown' = [shown EXCEPT ![t] = FALSE]
    BY <1>14 DEF Leave, ToLogin
  <2>4. memory' = [memory EXCEPT ![t] = 0] /\ op' = [op EXCEPT ![t] = Checking(Abandon(End(t, "form")), 0, jar')]
    BY <1>14 DEF Leave, ClearTokens
  <2>5. left' \in 0..Disturbances /\ signs' \in 0..SignIns
    BY <1>0, <1>14, DisturbTypes DEF Leave, RestTypes
  <2>6. out' \in BOOLEAN /\ lost' \in BOOLEAN
    BY <1>0, <1>14 DEF Leave, RestTypes
  <2>7. ServerTypes' /\ RestTypes'
    BY <1>0, <1>14, <2>5, <2>6 DEF Leave, server, ServerTypes, RestTypes
  <2>8. QED
    BY <1>0, <2>1, <2>2, <2>3, <2>4, <2>7 DEF TabTypes
<1>15. ASSUME NEW t \in Tabs, Navigate(t)
       PROVE  ServerTypes' /\ TabTypes' /\ RestTypes'
  <2>1. Checking(Abandon(op[t]), memory[t], jar) \in TabOps
    BY <1>0, CheckingOps, AbandonOps DEF TabTypes
  <2>2. TabTypes'
    BY <1>0, <1>15, <2>1 DEF Navigate, ToLogin, TabTypes
  <2>3. left' \in 0..Disturbances /\ signs' \in 0..SignIns
    BY <1>0, <1>15, DisturbTypes DEF Navigate, RestTypes
  <2>4. QED
    BY <1>0, <1>15, <2>2, <2>3 DEF Navigate, server, ServerTypes, RestTypes
<1>16. ASSUME NEW t \in Tabs, Reload(t)
       PROVE  ServerTypes' /\ TabTypes' /\ RestTypes'
  <2>1. TabTypes' /\ live' \subseteq live /\ lost' \in BOOLEAN
    BY <1>0, <1>16, LoadTypes DEF Reload, TabTypes
  <2>2. QED
    BY <1>0, <1>16, <2>1, DisturbTypes DEF Reload, ServerTypes, RestTypes
<1>17. CASE Expire \/ Revoke
  <2>1. ServerTypes'
    <3>1. CASE Expire
      BY <1>0, <3>1 DEF Expire, ServerTypes
    <3>2. CASE Revoke
      BY <1>0, <3>2 DEF Revoke, ServerTypes
    <3>3. QED
      BY <1>17, <3>1, <3>2
  <2>2. RestTypes'
    BY <1>0, <1>17, DisturbTypes DEF Expire, Revoke, RestTypes
  <2>3. TabTypes'
    BY <1>0, <1>17 DEF Expire, Revoke, TabTypes
  <2>4. QED
    BY <2>1, <2>2, <2>3
<1>18. CASE UNCHANGED vars
  BY <1>0, <1>18 DEF vars, server, TabTypes, ServerTypes, RestTypes
<1>19. QED
  BY <1>3, <1>4, <1>5, <1>6, <1>7, <1>8, <1>9, <1>10, <1>11, <1>12, <1>13, <1>14, <1>15, <1>16, <1>17, <1>18 DEF Next

-----------------------------------------------------------------------------
(* After a logout.                                                         *)

(* Nothing that could hand out a session is under way.                     *)
Calm(o) == o.kind \notin {"login", "mfa"} /\ o.st # "granted" /\ (o.st = "refresh" => o.token \notin live)

Ended == out => jar.refresh = 0 /\ \A t \in Tabs, s \in Slots : Calm(op[t][s])

LEMMA HoldsIfEnded == LogoutHolds <=> TypeOK /\ Ended
<1>1. \A t \in Tabs, s \in Slots : ~Granting(t, s) <=> Calm(op[t][s])
  BY DEF Granting, Calm
<1>2. QED
  BY <1>1 DEF LogoutHolds, Ended

(* A request, and what a page load begins with, is calm.                   *)
LEMMA AskIsCalm ==
  ASSUME NEW kind \in Kinds \ {"login", "mfa"}, NEW mem, NEW cookies
  PROVE  Calm(Ask(kind, mem, cookies)) /\ Calm(Idle)
BY DEF Ask, Idle, Calm

(* Putting something calm into one slot.                                   *)
LEMMA CalmPut ==
  ASSUME NEW ops \in TabOps, NEW s \in Slots, NEW o \in Op, Calm(o), \A x \in Slots : Calm(ops[x])
  PROVE  \A x \in Slots : Calm([ops EXCEPT ![s] = o][x])
BY PutOp

LEMMA CheckingCalm ==
  ASSUME NEW ops \in TabOps, NEW mem \in Token, NEW cookies \in Cookies, \A x \in Slots : Calm(ops[x])
  PROVE  \A x \in Slots : Calm(Checking(ops, mem, cookies)[x])
<1>1. Ask("check", mem, cookies) \in Op /\ Calm(Ask("check", mem, cookies))
  BY AskIsOp, AskIsCalm DEF Kinds
<1>2. QED
  BY <1>1, CalmPut, FixedSlots DEF Checking

LEMMA AbandonCalm ==
  ASSUME NEW ops \in TabOps, \A x \in Slots : Calm(ops[x])
  PROVE  \A x \in Slots : Calm(Abandon(ops)[x])
<1>1. Calm(ops["guard"])
  BY FixedSlots
<1>2. Calm(Abandon(ops)["guard"])
  BY <1>1, AbandonIs DEF Calm
<1>3. QED
  BY <1>2, AbandonOps

LEMMA EndIsCalm ==
  ASSUME TypeOK, NEW t \in Tabs, NEW s \in Slots, \A x \in Slots : Calm(op[t][x])
  PROVE  \A x \in Slots : Calm(End(t, s)[x])
<1>1. Calm(Idle) /\ Idle \in Op
  BY NoOpsAreOps DEF Calm, Idle
<1>2. QED
  BY <1>1, EndOps, CalmPut DEF End

(* The tabs are calm after a step that leaves the server's tokens alone,   *)
(* or ends some, and replaces what one tab has under way by what is calm.  *)
LEMMA CalmTab ==
  ASSUME NEW t \in Tabs, NEW ops, op \in [Tabs -> TabOps], live' \subseteq live,
         \A u \in Tabs, x \in Slots : Calm(op[u][x]),
         \A x \in Slots : Calm(ops[x]),
         op' = [op EXCEPT ![t] = ops]
  PROVE  \A u \in Tabs, x \in Slots : Calm(op[u][x])'
<1>1. \A u \in Tabs, x \in Slots : Calm(op'[u][x])
  BY DEF TabOps
<1>2. QED
  BY <1>1 DEF Calm

LEMMA StepEnded ==
  ASSUME TypeOK, Ended, [Next]_vars
  PROVE  Ended'
<1> DEFINE AllCalm == \A t \in Tabs, s \in Slots : Calm(op[t][s])
<1> USE DEF Token
<1>0. ServerTypes /\ TabTypes /\ RestTypes /\ op \in [Tabs -> TabOps]
  BY TypeParts DEF TabTypes
<1>1. ASSUME NEW t \in Tabs, Leave(t)
      PROVE  Ended'
  <2>1. \/ jar' = [access |-> 0, refresh |-> 0, ssAuth |-> FALSE]
        \/ jar' = [jar EXCEPT !.ssAuth = FALSE] /\ out' = out
    BY <1>1 DEF Leave, ToLogin, Cleared
  <2>2. SUFFICES ASSUME out' PROVE jar'.refresh = 0 /\ AllCalm'
    BY DEF Ended
  <2>3. AllCalm
    <3>1. CASE out
      BY <3>1 DEF Ended
    <3>2. CASE ~out
      BY <1>1, <2>2, <3>2 DEF Leave, Granting, Calm
    <3>3. QED
      BY <3>1, <3>2
  <2>4. jar'.refresh = 0 /\ jar' \in Cookies
    <3>1. CASE jar' = [access |-> 0, refresh |-> 0, ssAuth |-> FALSE]
      BY <3>1 DEF Cookies
    <3>2. CASE jar' = [jar EXCEPT !.ssAuth = FALSE] /\ out' = out
      BY <1>0, <2>2, <3>2 DEF Ended, TabTypes, Cookies
    <3>3. QED
      BY <2>1, <3>1, <3>2
  <2>5. \A x \in Slots : Calm(End(t, "form")[x])
    BY <2>3, EndIsCalm, FixedSlots
  <2>6. \A x \in Slots : Calm(Checking(Abandon(End(t, "form")), 0, jar')[x])
    <3>1. Abandon(End(t, "form")) \in TabOps /\ \A x \in Slots : Calm(Abandon(End(t, "form"))[x])
      BY <2>5, EndOps, FixedSlots, AbandonOps, AbandonCalm
    <3>2. QED
      BY <2>4, <3>1, CheckingCalm
  <2>7. op' = [op EXCEPT ![t] = Checking(Abandon(End(t, "form")), 0, jar')] /\ live' \subseteq live
    BY <1>1 DEF Leave, server
  <2>8. AllCalm'
    BY <1>0, <2>3, <2>6, <2>7, CalmTab
  <2>9. QED
    BY <2>4, <2>8
<1>2. ASSUME NEW t \in Tabs, SignIn(t)
      PROVE  Ended'
  BY <1>2 DEF SignIn, Ended
<1>3. SUFFICES ASSUME out, out' = out, \A t \in Tabs : ~Leave(t)
      PROVE  jar'.refresh = 0 /\ AllCalm'
  <2>1. out' = out \/ (\E t \in Tabs : Leave(t) \/ SignIn(t))
    <3>1. ASSUME NEW t \in Tabs, NEW s \in Slots,
                 \/ Answer(t, s) \/ Break(t, s) \/ Rotate(t, s) \/ TakeGrant(t, s)
                 \/ Expel(t, s) \/ RefuseForNow(t, s) \/ Send(t, s)
          PROVE  out' = out
      BY <3>1 DEF Answer, Break, Rotate, TakeGrant, Expel, RefuseForNow, Refused, Send
    <3>2. ASSUME NEW t \in Tabs,
                 Issue(t) \/ TakeSession(t) \/ Logout(t) \/ Forget(t) \/ Navigate(t) \/ Reload(t)
          PROVE  out' = out
      BY <3>2 DEF Issue, TakeSession, Logout, Forget, Navigate, Reload
    <3>3. ASSUME Expire \/ Revoke \/ UNCHANGED vars
          PROVE  out' = out
      BY <3>3 DEF Expire, Revoke, vars
    <3>4. QED
      BY <3>1, <3>2, <3>3 DEF Next
  <2>2. QED
    BY <1>1, <1>2, <1>3, <2>1 DEF Ended
<1>4. AllCalm /\ jar.refresh = 0
  BY <1>3 DEF Ended
<1>5. ASSUME NEW t \in Tabs, NEW cookies \in Cookies, cookies.refresh = 0, Load(t, cookies)
      PROVE  jar'.refresh = 0 /\ AllCalm'
  <2>1. Granted(t) = {}
    BY <1>4, <1>5 DEF Granted, Calm
  <2>2. jar' = cookies /\ live' \subseteq live
    BY <1>5, <2>1 DEF Load
  <2> DEFINE guard == [NoOps EXCEPT !["guard"] = Ask("guard", 0, cookies)]
  <2> DEFINE check == [NoOps EXCEPT !["check"] = Ask("check", 0, cookies)]
  <2>3. \A x \in Slots : Calm(NoOps[x])
    BY DEF NoOps, Idle, Calm
  <2>4. /\ Ask("guard", 0, cookies) \in Op /\ Calm(Ask("guard", 0, cookies))
        /\ Ask("check", 0, cookies) \in Op /\ Calm(Ask("check", 0, cookies))
    BY <1>5, AskIsOp, AskIsCalm DEF Kinds
  <2>5. (\A x \in Slots : Calm(guard[x])) /\ (\A x \in Slots : Calm(check[x]))
    BY <2>3, <2>4, NoOpsAreOps, FixedSlots, CalmPut
  <2>6. op' = [op EXCEPT ![t] = guard] \/ op' = [op EXCEPT ![t] = check]
    BY <1>5, <2>2 DEF Load
  <2>7. AllCalm'
    BY <1>0, <1>4, <2>2, <2>5, <2>6, CalmTab
  <2>8. QED
    BY <1>5, <2>2, <2>7
<1>6. ASSUME NEW t \in Tabs, NEW s \in Slots, NEW o \in Op, Calm(o), live' \subseteq live,
             op' = [op EXCEPT ![t] = [op[t] EXCEPT ![s] = o]]
      PROVE  AllCalm'
  <2>1. \A x \in Slots : Calm([op[t] EXCEPT ![s] = o][x])
    BY <1>4, <1>6, EndOps, CalmPut
  <2>2. QED
    BY <1>0, <1>4, <1>6, <2>1, CalmTab
<1>7. ASSUME NEW t \in Tabs, NEW s \in Slots, op' = [op EXCEPT ![t] = End(t, s)], live' \subseteq live
      PROVE  AllCalm'
  BY <1>0, <1>4, <1>7, EndIsCalm, CalmTab
<1>8. ASSUME NEW t \in Tabs, NEW s \in Slots, FailWith(t, s, jar), live' = live
      PROVE  jar'.refresh = 0 /\ AllCalm'
  <2>1. jar' = jar \/ jar' = [jar EXCEPT !.ssAuth = FALSE]
    BY <1>8 DEF FailWith, ToLogin
  <2>2. jar'.refresh = 0
    BY <1>0, <1>4, <2>1 DEF TabTypes, Cookies
  <2>3. \A x \in Slots : Calm(Checking(End(t, s), 0, jar)[x])
    BY <1>0, <1>4, EndOps, EndIsCalm, CheckingCalm DEF TabTypes
  <2>4. op' = [op EXCEPT ![t] = End(t, s)] \/ op' = [op EXCEPT ![t] = Checking(End(t, s), 0, jar)]
    BY <1>8 DEF FailWith
  <2>5. AllCalm'
    BY <1>0, <1>4, <1>7, <1>8, <2>3, <2>4, CalmTab
  <2>6. QED
    BY <2>2, <2>5
<1>9. ASSUME NEW t \in Tabs, NEW s \in Slots, Succeed(t, s), live' = live
      PROVE  jar'.refresh = 0 /\ AllCalm'
  <2>1. jar' = jar \/ jar' = [jar EXCEPT !.ssAuth = TRUE]
    BY <1>9 DEF Succeed, ToDash
  <2>2. jar'.refresh = 0
    BY <1>0, <1>4, <2>1 DEF TabTypes, Cookies
  <2>3. memory[t] \in Nat /\ jar \in Cookies
    BY <1>0 DEF TabTypes
  <2>4. /\ Ask("guard", memory[t], jar) \in Op /\ Calm(Ask("guard", memory[t], jar))
        /\ Ask("confirm", memory[t], jar) \in Op /\ Calm(Ask("confirm", memory[t], jar))
    BY <2>3, AskIsOp, AskIsCalm DEF Kinds
  <2>5. CASE op[t][s].kind = "check"
    <3>1. op' = [op EXCEPT ![t] = [op[t] EXCEPT ![s] = Ask("confirm", memory[t], jar)]]
      BY <1>0, <1>9, <2>5 DEF Succeed, TabOps
    <3>2. QED
      BY <1>6, <1>9, <2>2, <2>4, <3>1
  <2>6. CASE op[t][s].kind = "confirm" /\ page[t] = "login"
    <3>1. op' = [op EXCEPT ![t] = [End(t, s) EXCEPT !["guard"] = Ask("guard", memory[t], jar)]]
      BY <1>9, <2>6 DEF Succeed
    <3>2. \A x \in Slots : Calm([End(t, s) EXCEPT !["guard"] = Ask("guard", memory[t], jar)][x])
      BY <1>4, <2>4, EndOps, EndIsCalm, FixedSlots, CalmPut
    <3>3. QED
      BY <1>0, <1>4, <1>9, <2>2, <3>1, <3>2, CalmTab
  <2>7. CASE ~(op[t][s].kind = "check") /\ ~(op[t][s].kind = "confirm" /\ page[t] = "login")
    <3>1. op' = [op EXCEPT ![t] = End(t, s)]
      BY <1>9, <2>7 DEF Succeed
    <3>2. QED
      BY <1>7, <1>9, <2>2, <3>1
  <2>8. QED
    BY <2>5, <2>6, <2>7
<1>10. ASSUME NEW t \in Tabs, NEW s \in Slots, Answer(t, s)
       PROVE  jar'.refresh = 0 /\ AllCalm'
  <2>1. live' = live
    BY <1>10 DEF Answer, server
  <2>2. CASE Succeed(t, s) \/ FailWith(t, s, jar)
    BY <1>8, <1>9, <2>1, <2>2
  <2>3. CASE ~Succeed(t, s) /\ ~FailWith(t, s, jar)
    <3> DEFINE o == [op[t][s] EXCEPT !.st = "refresh", !.token = jar.refresh]
    <3>1. op' = [op EXCEPT ![t] = [op[t] EXCEPT ![s] = o]] /\ jar' = jar
      BY <1>0, <1>10, <2>3 DEF Answer, TabOps, Op
    <3>2. jar.refresh \in Nat /\ 0 \notin live
      BY <1>0, <1>4 DEF ServerTypes
    <3>3. o \in Op
      BY <3>2, EndOps, StepOp DEF Steps
    <3>4. o.kind = op[t][s].kind /\ o.st = "refresh" /\ o.token = 0
      BY <1>4, EndOps DEF Op
    <3>5. Calm(o)
      BY <1>4, <3>2, <3>4 DEF Calm
    <3> HIDE DEF o
    <3>6. QED
      BY <1>4, <1>6, <2>1, <3>1, <3>3, <3>5
  <2>4. QED
    BY <2>2, <2>3
<1>11. ASSUME NEW t \in Tabs, NEW s \in Slots, Break(t, s)
       PROVE  jar'.refresh = 0 /\ AllCalm'
  BY <1>8, <1>11 DEF Break, server
<1>12. ASSUME NEW t \in Tabs, NEW s \in Slots
       PROVE  ~Rotate(t, s) /\ ~TakeGrant(t, s)
  BY <1>4 DEF Rotate, TakeGrant, Calm
<1>13. ASSUME NEW t \in Tabs
       PROVE  ~Issue(t) /\ ~TakeSession(t)
  BY <1>4, FixedSlots DEF Issue, TakeSession, Calm
<1>14. ASSUME NEW t \in Tabs, NEW s \in Slots, Expel(t, s) \/ RefuseForNow(t, s)
       PROVE  jar'.refresh = 0 /\ AllCalm'
  <2>0. Refused(t, s)
    BY <1>14 DEF Expel, RefuseForNow
  <2>1. Cleared \in Cookies /\ Cleared.refresh = 0
    BY <1>0, <1>4 DEF Cleared, TabTypes, Cookies
  <2>2. CASE page[t] = "dash"
    BY <1>5, <2>0, <2>1, <2>2 DEF Refused
  <2>3. CASE page[t] # "dash"
    <3>1. op' = [op EXCEPT ![t] = End(t, s)] /\ jar' = Cleared /\ live' = live
      BY <2>0, <2>3 DEF Refused
    <3>2. QED
      BY <1>7, <2>1, <3>1
  <2>4. QED
    BY <2>2, <2>3
<1>15. ASSUME NEW t \in Tabs, NEW s \in Slots, Send(t, s)
       PROVE  jar'.refresh = 0 /\ AllCalm'
  <2>1. PICK kind \in {"request", "raw"} : op' = [op EXCEPT ![t][s] = Ask(kind, memory[t], jar)]
    BY <1>15 DEF Send
  <2>2. Ask(kind, memory[t], jar) \in Op
    BY <1>0, AskIsOp DEF TabTypes, Kinds
  <2>3. Calm(Ask(kind, memory[t], jar))
    BY AskIsCalm DEF Kinds
  <2>4. op' = [op EXCEPT ![t] = [op[t] EXCEPT ![s] = Ask(kind, memory[t], jar)]]
    BY <1>0, <2>1 DEF TabOps
  <2>5. jar' = jar /\ live' = live
    BY <1>15 DEF Send, server
  <2>6. QED
    BY <1>4, <1>6, <2>2, <2>3, <2>4, <2>5
<1>16. ASSUME NEW t \in Tabs, Logout(t)
       PROVE  jar'.refresh = 0 /\ AllCalm'
  <2> DEFINE o == [kind |-> "logout", st |-> "ask", bearer |-> FALSE, token |-> jar.refresh]
  <2>1. o \in Op /\ Calm(o)
    BY <1>0 DEF TabTypes, Cookies, Op, Calm
  <2>2. op' = [op EXCEPT ![t] = [op[t] EXCEPT !["form"] = o]] /\ jar' = jar /\ live' = live
    BY <1>0, <1>16, FixedSlots DEF Logout, TabOps, server
  <2>3. QED
    BY <1>4, <1>6, <2>1, <2>2, FixedSlots
<1>17. ASSUME NEW t \in Tabs, Forget(t)
       PROVE  jar'.refresh = 0 /\ AllCalm'
  <2> DEFINE o == [op[t]["form"] EXCEPT !.st = "cleared"]
  <2>1. op[t]["form"] \in Op
    BY EndOps, FixedSlots
  <2>2. o \in Op /\ Calm(o)
    BY <1>4, <2>1, FixedSlots DEF Op, Calm
  <2>3. op' = [op EXCEPT ![t] = [op[t] EXCEPT !["form"] = o]] /\ jar' = jar /\ live' \subseteq live
    BY <1>0, <1>17, FixedSlots DEF Forget, TabOps, Op
  <2>4. QED
    BY <1>4, <1>6, <2>2, <2>3, FixedSlots
<1>18. ASSUME NEW t \in Tabs, Navigate(t)
       PROVE  jar'.refresh = 0 /\ AllCalm'
  <2>1. \A x \in Slots : Calm(Checking(Abandon(op[t]), memory[t], jar)[x])
    <3>1. Abandon(op[t]) \in TabOps /\ \A x \in Slots : Calm(Abandon(op[t])[x])
      BY <1>4, EndOps, FixedSlots, AbandonOps, AbandonCalm
    <3>2. QED
      BY <1>0, <3>1, CheckingCalm DEF TabTypes
  <2>2. op' = [op EXCEPT ![t] = Checking(Abandon(op[t]), memory[t], jar)] /\ jar' = jar /\ live' = live
    BY <1>18 DEF Navigate, ToLogin, server
  <2>3. QED
    BY <1>0, <1>4, <2>1, <2>2, CalmTab
<1>19. ASSUME NEW t \in Tabs, Reload(t)
       PROVE  jar'.refresh = 0 /\ AllCalm'
  BY <1>0, <1>4, <1>5, <1>19 DEF Reload, TabTypes
<1>20. CASE Expire \/ Revoke \/ UNCHANGED vars
  <2>1. op' = op /\ jar' = jar /\ live' \subseteq live
    BY <1>20 DEF Expire, Revoke, vars, server
  <2>2. QED
    BY <1>4, <2>1 DEF Calm
<1>21. QED
  BY <1>2, <1>3, <1>10, <1>11, <1>12, <1>13, <1>14, <1>15, <1>16, <1>17, <1>18, <1>19, <1>20 DEF Next, SignIn

-----------------------------------------------------------------------------
(* After a logout nothing brings the session back but signing in: with any *)
(* number of tabs, requests and faults, the browser has no refresh token   *)
(* and nothing is under way that would hand one out (lib/auth and the      *)
(* request wrapper of lib/api).                                            *)
THEOREM LogoutIsFinal == Spec => []LogoutHolds
<1>1. Init => TypeOK /\ Ended
  BY InitTypes DEF Init, Ended
<1>2. TypeOK /\ Ended /\ [Next]_vars => (TypeOK /\ Ended)'
  BY StepTypes, StepEnded
<1>3. TypeOK /\ Ended => LogoutHolds
  BY HoldsIfEnded
<1>4. QED
  BY <1>1, <1>2, <1>3, PTL DEF Spec

-----------------------------------------------------------------------------
(* The session is kept.                                                    *)

(* What is under way carries a refresh token, or has got a new one.        *)
Rides(o) == o.st \in {"refresh", "granted"} \/ o.kind = "logout"

Known == jar.refresh <= last /\ \A t \in Tabs, s \in Slots : Rides(op[t][s]) => op[t][s].token <= last

LogoutShape(o) == (o.kind = "logout" => o.st \in {"ask", "cleared"}) /\ (o.st = "cleared" => o.kind = "logout")

(* A token that has been granted and not taken is live, and nobody else    *)
(* has it: nothing that is under way can use it up.                        *)
Sole ==
  \A t \in Tabs, s \in Slots : op[t][s].st = "granted" =>
    /\ op[t][s].token # 0 /\ op[t][s].token # jar.refresh
    /\ lost \/ op[t][s].token \in live
    /\ \A u \in Tabs, x \in Slots : Rides(op[u][x]) /\ op[u][x].token = op[t][s].token => u = t /\ x = s

Kept == Known /\ (\A t \in Tabs, s \in Slots : LogoutShape(op[t][s])) /\ Sole /\ SessionKept

LEMMA ValuesAre ==
  ASSUME TypeOK
  PROVE  /\ jar.refresh \in Nat /\ last \in Nat /\ live \subseteq 1..last /\ lost \in BOOLEAN /\ jar \in Cookies
         /\ op \in [Tabs -> TabOps]
         /\ \A t \in Tabs, s \in Slots : op[t][s] \in Op /\ op[t][s].token \in Nat
BY DEF TypeOK, TabOps, Op, Token, Cookies

(* What changes when one tab, or one slot of it, changes.                  *)
LEMMA TabOnly ==
  ASSUME TypeOK, NEW t \in Tabs, NEW ops, op' = [op EXCEPT ![t] = ops]
  PROVE  \A u \in Tabs, x \in Slots : op'[u][x] = IF u = t THEN ops[x] ELSE op[u][x]
BY ValuesAre

LEMMA SlotOnly ==
  ASSUME TypeOK, NEW t \in Tabs, NEW s \in Slots, NEW o, op' = [op EXCEPT ![t] = [op[t] EXCEPT ![s] = o]]
  PROVE  /\ op'[t][s] = o
         /\ \A u \in Tabs, x \in Slots : u # t \/ x # s => op'[u][x] = op[u][x]
BY ValuesAre DEF TabOps

Plain(o) == o.st \notin {"refresh", "granted", "cleared"} /\ o.kind # "logout"

LEMMA PlainOps ==
  ASSUME NEW kind \in Kinds \ {"logout"}, NEW mem, NEW cookies
  PROVE  Plain(Ask(kind, mem, cookies)) /\ Plain(Idle)
BY DEF Plain, Ask, Idle

(* The same request, whoever waits for it.                                 *)
Alike(o, new) == new.st = o.st /\ new.token = o.token /\ (new.kind = "logout" <=> o.kind = "logout")

(* What a slot may become while the tokens stay as they are.               *)
Quiet(o, new) ==
  \/ Alike(o, new)
  \/ /\ Plain(new)
     /\ o.st \in {"granted", "cleared"} => lost'
  \/ /\ new.token = jar.refresh /\ o.st \notin {"granted", "cleared"}
     /\ (new.st = "refresh" /\ new.kind # "logout") \/ (new.st = "ask" /\ new.kind = "logout")

LEMMA QuietStep ==
  ASSUME TypeOK, Kept, last' = last, jar'.refresh = jar.refresh, lost => lost', live' = live \/ lost',
         \A u \in Tabs, x \in Slots : Quiet(op[u][x], op'[u][x])
  PROVE  Kept'
<1> USE ValuesAre
<1>1. ASSUME NEW u \in Tabs, NEW x \in Slots
      PROVE  /\ Rides(op'[u][x]) => Alike(op[u][x], op'[u][x]) \/ op'[u][x].token = jar.refresh
             /\ op'[u][x].st = "granted" => Alike(op[u][x], op'[u][x])
             /\ LogoutShape(op'[u][x])
             /\ op[u][x].st \in {"granted", "cleared"} => Alike(op[u][x], op'[u][x]) \/ lost'
  <2>1. Quiet(op[u][x], op'[u][x]) /\ LogoutShape(op[u][x])
    BY DEF Kept
  <2>2. QED
    BY <2>1 DEF Quiet, Plain, Rides, LogoutShape, Alike
<1>2. Known'
  BY <1>1 DEF Kept, Known, Rides, Alike
<1>3. Sole'
  <2>1. ASSUME NEW t \in Tabs, NEW s \in Slots, op'[t][s].st = "granted"
        PROVE  /\ op'[t][s].token # 0 /\ op'[t][s].token # jar'.refresh
               /\ lost' \/ op'[t][s].token \in live'
               /\ \A u \in Tabs, x \in Slots : Rides(op'[u][x]) /\ op'[u][x].token = op'[t][s].token => u = t /\ x = s
    <3>1. op'[t][s].token = op[t][s].token /\ op[t][s].st = "granted"
      BY <1>1, <2>1 DEF Alike
    <3>2. /\ op[t][s].token # 0 /\ op[t][s].token # jar.refresh
          /\ lost \/ op[t][s].token \in live
          /\ \A u \in Tabs, x \in Slots : Rides(op[u][x]) /\ op[u][x].token = op[t][s].token => u = t /\ x = s
      BY <2>1, <3>1 DEF Kept, Sole
    <3>3. ASSUME NEW u \in Tabs, NEW x \in Slots, Rides(op'[u][x]), op'[u][x].token = op'[t][s].token
          PROVE  u = t /\ x = s
      <4>1. Alike(op[u][x], op'[u][x])
        BY <1>1, <3>1, <3>2, <3>3
      <4>2. Rides(op[u][x]) /\ op[u][x].token = op[t][s].token
        BY <3>1, <3>3, <4>1 DEF Alike, Rides
      <4>3. QED
        BY <3>2, <4>2
    <3>4. QED
      BY <3>1, <3>2, <3>3
  <2>2. QED
    BY <2>1 DEF Sole, Rides
<1>4. SessionKept'
  <2>1. SUFFICES ASSUME jar'.refresh # 0, ~lost'
        PROVE  \/ jar'.refresh \in live'
               \/ \E t \in Tabs, s \in Slots : op'[t][s].st = "granted" /\ op'[t][s].token \in live'
               \/ \E t \in Tabs : op'[t]["form"].st = "cleared"
    BY DEF SessionKept
  <2>2. live' = live /\ ~lost
    BY <2>1
  <2>3. \/ jar.refresh \in live
        \/ \E t \in Tabs, s \in Slots : op[t][s].st = "granted" /\ op[t][s].token \in live
        \/ \E t \in Tabs : op[t]["form"].st = "cleared"
    BY <2>1, <2>2 DEF Kept, SessionKept
  <2>4. QED
    BY <1>1, <2>1, <2>2, <2>3, FixedSlots DEF Alike
<1>5. \A t \in Tabs, s \in Slots : LogoutShape(op[t][s])'
  BY <1>1 DEF LogoutShape
<1>6. QED
  BY <1>2, <1>3, <1>4, <1>5 DEF Kept

(* The browser takes a token that has been granted.                        *)
LEMMA TakenStep ==
  ASSUME TypeOK, Kept, NEW t \in Tabs, NEW s \in Slots, op[t][s].st = "granted",
         last' = last, jar'.refresh = op[t][s].token, lost => lost', live' = live \/ lost',
         Plain(op'[t][s]),
         \A u \in Tabs, x \in Slots : op'[u][x] = op[u][x] \/ Plain(op'[u][x])
  PROVE  Kept'
<1> USE ValuesAre
<1>1. /\ op[t][s].token # 0 /\ (lost \/ op[t][s].token \in live) /\ op[t][s].token <= last
      /\ \A u \in Tabs, x \in Slots : Rides(op[u][x]) /\ op[u][x].token = op[t][s].token => u = t /\ x = s
  BY DEF Kept, Sole, Known, Rides
<1>2. Known'
  BY <1>1 DEF Kept, Known, Rides, Plain
<1>3. ASSUME NEW u \in Tabs, NEW x \in Slots, op'[u][x].st = "granted"
      PROVE  /\ op'[u][x].token # 0 /\ op'[u][x].token # jar'.refresh
             /\ lost' \/ op'[u][x].token \in live'
             /\ \A v \in Tabs, y \in Slots : Rides(op'[v][y]) /\ op'[v][y].token = op'[u][x].token => v = u /\ y = x
  <2>1. Rides(op'[u][x]) /\ op'[u][x] = op[u][x] /\ Rides(op[u][x])
    BY <1>3 DEF Rides, Plain
  <2>2. /\ op[u][x].token # 0 /\ (lost \/ op[u][x].token \in live)
        /\ \A v \in Tabs, y \in Slots : Rides(op[v][y]) /\ op[v][y].token = op[u][x].token => v = u /\ y = x
    BY <1>3, <2>1 DEF Kept, Sole
  <2>3. u # t \/ x # s
    BY <1>3 DEF Plain
  <2>4. op[u][x].token # op[t][s].token
    BY <1>1, <2>1, <2>3
  <2>5. QED
    BY <2>1, <2>2, <2>4 DEF Rides, Plain
<1>4. Sole'
  BY <1>3 DEF Sole, Rides
<1>5. SessionKept'
  BY <1>1 DEF SessionKept
<1>6. ASSUME NEW u \in Tabs, NEW x \in Slots PROVE LogoutShape(op'[u][x])
  BY DEF Kept, LogoutShape, Plain
<1>7. \A u \in Tabs, x \in Slots : LogoutShape(op[u][x])'
  BY <1>6 DEF LogoutShape
<1>8. QED
  BY <1>2, <1>4, <1>5, <1>7 DEF Kept

(* The server issues a new token, and keeps those that are granted.        *)
LEMMA IssuedStep ==
  ASSUME TypeOK, Kept, NEW t \in Tabs, NEW s \in Slots, op[t][s].st # "granted", NEW o,
         op' = [op EXCEPT ![t] = [op[t] EXCEPT ![s] = o]],
         o.st = "granted", o.token = last + 1, o.kind # "logout",
         last' = last + 1, jar' = jar, lost' = lost, last + 1 \in live',
         \A u \in Tabs, x \in Slots : op[u][x].st = "granted" /\ op[u][x].token \in live => op[u][x].token \in live'
  PROVE  Kept'
<1>1. /\ op'[t][s] = o
      /\ \A u \in Tabs, x \in Slots : u # t \/ x # s => op'[u][x] = op[u][x]
  BY SlotOnly
<1> USE ValuesAre
<1>2. Known'
  BY <1>1 DEF Kept, Known, Rides
<1>3. ASSUME NEW u \in Tabs, NEW x \in Slots, op'[u][x].st = "granted"
      PROVE  /\ op'[u][x].token # 0 /\ op'[u][x].token # jar'.refresh
             /\ lost' \/ op'[u][x].token \in live'
             /\ \A v \in Tabs, y \in Slots : Rides(op'[v][y]) /\ op'[v][y].token = op'[u][x].token => v = u /\ y = x
  <2>1. \A v \in Tabs, y \in Slots : (v # t \/ y # s) /\ Rides(op'[v][y]) => op'[v][y].token <= last /\ op'[v][y] = op[v][y]
    BY <1>1 DEF Kept, Known
  <2>2. Rides(op'[u][x])
    BY <1>3 DEF Rides, Plain
  <2>3. CASE u = t /\ x = s
    BY <1>1, <2>1, <2>3 DEF Kept, Known
  <2>4. CASE u # t \/ x # s
    <3>1. op'[u][x] = op[u][x] /\ op[u][x].token <= last
      BY <2>1, <2>2, <2>4
    <3>2. /\ op[u][x].token # 0 /\ op[u][x].token # jar.refresh /\ (lost \/ op[u][x].token \in live)
          /\ \A v \in Tabs, y \in Slots : Rides(op[v][y]) /\ op[v][y].token = op[u][x].token => v = u /\ y = x
      BY <1>3, <3>1 DEF Kept, Sole
    <3>3. op'[t][s].token # op[u][x].token
      BY <1>1, <3>1
    <3>4. QED
      BY <1>3, <2>1, <3>1, <3>2, <3>3
  <2>5. QED
    BY <2>3, <2>4
<1>4. Sole'
  BY <1>3 DEF Sole, Rides
<1>5. SessionKept'
  BY <1>1 DEF SessionKept
<1>6. ASSUME NEW u \in Tabs, NEW x \in Slots PROVE LogoutShape(op'[u][x])
  BY <1>1 DEF Kept, LogoutShape
<1>7. \A u \in Tabs, x \in Slots : LogoutShape(op[u][x])'
  BY <1>6 DEF LogoutShape
<1>8. QED
  BY <1>2, <1>4, <1>5, <1>7 DEF Kept

(* The ways in which what a tab has under way ends or goes on.             *)
LEMMA QuietPut ==
  ASSUME TypeOK, NEW t \in Tabs, NEW s \in Slots, NEW o, Quiet(op[t][s], o),
         op' = [op EXCEPT ![t] = [op[t] EXCEPT ![s] = o]]
  PROVE  \A u \in Tabs, x \in Slots : Quiet(op[u][x], op'[u][x])
<1>1. op'[t][s] = o
  BY ValuesAre DEF TabOps
<1>2. \A u \in Tabs, x \in Slots : u # t \/ x # s => op'[u][x] = op[u][x]
  BY SlotOnly
<1>3. ASSUME NEW u \in Tabs, NEW x \in Slots PROVE Quiet(op[u][x], op'[u][x])
  <2>1. CASE u = t /\ x = s
    BY <1>1, <2>1
  <2>2. CASE u # t \/ x # s
    BY <1>2, <2>2 DEF Quiet, Alike
  <2>3. QED
    BY <2>1, <2>2
<1>4. QED
  BY <1>3

LEMMA QuietTab ==
  ASSUME TypeOK, NEW t \in Tabs, NEW ops, op' = [op EXCEPT ![t] = ops],
         \A x \in Slots : Quiet(op[t][x], ops[x])
  PROVE  \A u \in Tabs, x \in Slots : Quiet(op[u][x], op'[u][x])
<1>1. ASSUME NEW u \in Tabs, NEW x \in Slots PROVE Quiet(op[u][x], op'[u][x])
  <2>1. op'[u][x] = IF u = t THEN ops[x] ELSE op[u][x]
    BY ValuesAre
  <2>2. QED
    BY <2>1 DEF Quiet, Alike
<1>2. QED
  BY <1>1

LEMMA EndIs ==
  ASSUME TypeOK, NEW t \in Tabs, NEW s \in Slots
  PROVE  End(t, s)[s] = Idle /\ \A x \in Slots \ {s} : End(t, s)[x] = op[t][x]
<1>1. op[t] \in TabOps /\ Idle \in Op
  BY EndOps, NoOpsAreOps
<1>2. \A x \in Slots : [op[t] EXCEPT ![s] = Idle][x] = IF x = s THEN Idle ELSE op[t][x]
  BY <1>1 DEF TabOps
<1>3. QED
  BY <1>2 DEF End

LEMMA QuietEnd ==
  ASSUME TypeOK, NEW t \in Tabs, NEW s \in Slots, op[t][s].st \in {"granted", "cleared"} => lost'
  PROVE  \A x \in Slots : Quiet(op[t][x], End(t, s)[x])
<1>1. Plain(Idle)
  BY DEF Plain, Idle
<1>2. QED
  BY <1>1, EndIs DEF Quiet, Alike

LEMMA QuietAbandon ==
  ASSUME NEW t \in Tabs, NEW ops \in TabOps, op[t]["guard"] = ops["guard"],
         \A x \in Slots : Quiet(op[t][x], ops[x])
  PROVE  \A x \in Slots : Quiet(op[t][x], Abandon(ops)[x])
<1>1. CASE ops["guard"].kind = "guard"
  <2>1. Alike(op[t]["guard"], Abandon(ops)["guard"])
    BY <1>1, AbandonIs DEF Alike
  <2>2. QED
    BY <2>1, AbandonOps DEF Quiet
<1>2. CASE ops["guard"].kind # "guard"
  BY <1>2 DEF Abandon
<1>3. QED
  BY <1>1, <1>2

LEMMA QuietChecking ==
  ASSUME TypeOK, NEW t \in Tabs, NEW mem \in Token, NEW cookies \in Cookies, NEW ops \in TabOps,
         \A x \in Slots : Quiet(op[t][x], ops[x])
  PROVE  \A x \in Slots : Quiet(op[t][x], Checking(ops, mem, cookies)[x])
<1>1. Ask("check", mem, cookies) \in Op /\ Plain(Ask("check", mem, cookies))
  BY AskIsOp, PlainOps DEF Kinds
<1>2. CASE ops["check"].st # "idle"
  BY <1>2 DEF Checking
<1>3. CASE ops["check"].st = "idle"
  <2> DEFINE o == Ask("check", mem, cookies)
  <2> HIDE DEF o
  <2>0. \A x \in Slots : [ops EXCEPT !["check"] = o][x] = IF x = "check" THEN o ELSE ops[x]
    BY <1>1, FixedSlots DEF o, TabOps
  <2>1. \A x \in Slots : Checking(ops, mem, cookies)[x] = IF x = "check" THEN o ELSE ops[x]
    BY <1>3, <2>0 DEF Checking, o
  <2>2. Quiet(op[t]["check"], ops["check"]) /\ ops["check"].st = "idle"
    BY <1>3, FixedSlots
  <2>3. Quiet(op[t]["check"], o)
    BY <1>1, <2>2 DEF Quiet, Alike, o
  <2>4. QED
    BY <2>1, <2>3
<1>4. QED
  BY <1>2, <1>3

(* A logout is under way in the slot of the form, and nowhere else.        *)
Placed(ops) == \A s \in Slots : ops[s].kind = "logout" => s = "form"

Guarded == \A t \in Tabs : Placed(op[t])

LEMMA PlacedPut ==
  ASSUME NEW ops \in TabOps, NEW s \in Slots, NEW o \in Op, Placed(ops),
         o.kind = ops[s].kind \/ o.kind # "logout" \/ s = "form"
  PROVE  Placed([ops EXCEPT ![s] = o])
BY PutOp DEF Placed

LEMMA PlacedChecking ==
  ASSUME NEW ops \in TabOps, NEW mem \in Token, NEW cookies \in Cookies, Placed(ops)
  PROVE  Placed(Checking(ops, mem, cookies))
<1>1. Ask("check", mem, cookies) \in Op /\ Ask("check", mem, cookies).kind = "check"
  BY AskIsOp DEF Kinds, Ask
<1>2. Placed([ops EXCEPT !["check"] = Ask("check", mem, cookies)])
  BY <1>1, FixedSlots, PlacedPut
<1>3. QED
  BY <1>2 DEF Checking

LEMMA PlacedAbandon ==
  ASSUME NEW ops \in TabOps, Placed(ops)
  PROVE  Placed(Abandon(ops))
<1>1. Abandon(ops)["guard"].kind \in {ops["guard"].kind, "request"}
  BY AbandonIs
<1>2. \A x \in Slots : Abandon(ops)[x] = ops[x] \/ x = "guard"
  BY AbandonOps
<1>3. QED
  BY <1>1, <1>2, FixedSlots DEF Placed

LEMMA PlacedEnd ==
  ASSUME TypeOK, NEW t \in Tabs, NEW s \in Slots, Placed(op[t])
  PROVE  Placed(End(t, s))
BY EndIs DEF Placed, Idle

(* What a page load begins with.                                           *)
LEMMA PlacedLoaded ==
  ASSUME NEW cookies \in Cookies
  PROVE  /\ Placed([NoOps EXCEPT !["guard"] = Ask("guard", 0, cookies)])
         /\ Placed([NoOps EXCEPT !["check"] = Ask("check", 0, cookies)])
<1>1. /\ Ask("guard", 0, cookies) \in Op /\ Ask("guard", 0, cookies).kind # "logout"
      /\ Ask("check", 0, cookies) \in Op /\ Ask("check", 0, cookies).kind # "logout"
  BY AskIsOp DEF Kinds, Ask, Token
<1>2. Placed(NoOps)
  BY DEF Placed, NoOps, Idle
<1>3. QED
  BY <1>1, <1>2, NoOpsAreOps, FixedSlots, PlacedPut

LEMMA LeaveJar ==
  ASSUME TypeOK, NEW t \in Tabs, Leave(t)
  PROVE  jar' \in Cookies /\ jar'.refresh \in {0, jar.refresh}
<1>1. jar' = [access |-> 0, refresh |-> 0, ssAuth |-> FALSE] \/ jar' = [jar EXCEPT !.ssAuth = FALSE]
  BY DEF Leave, ToLogin, Cleared
<1>2. [access |-> 0, refresh |-> 0, ssAuth |-> FALSE] \in Cookies
  BY DEF Cookies, Token
<1>3. [jar EXCEPT !.ssAuth = FALSE] \in Cookies /\ [jar EXCEPT !.ssAuth = FALSE].refresh = jar.refresh
  BY ValuesAre DEF Cookies
<1>4. CASE jar' = [access |-> 0, refresh |-> 0, ssAuth |-> FALSE]
  BY <1>2, <1>4
<1>5. CASE jar' = [jar EXCEPT !.ssAuth = FALSE]
  BY <1>3, <1>5
<1>6. QED
  BY <1>1, <1>4, <1>5

LEMMA StepGuarded ==
  ASSUME TypeOK, Guarded, [Next]_vars
  PROVE  Guarded'
<1>0. /\ jar \in Cookies /\ op \in [Tabs -> TabOps] /\ memory \in [Tabs -> Token]
      /\ jar.refresh \in Nat /\ last \in Nat /\ 0 \in Token
  BY ValuesAre DEF TypeOK, Token
<1>1. ASSUME NEW t \in Tabs, NEW ops, Placed(ops), op' = [op EXCEPT ![t] = ops]
      PROVE  Guarded'
  <2>1. ASSUME NEW u \in Tabs PROVE Placed(op'[u])
    BY <1>0, <1>1 DEF Guarded
  <2>2. QED
    BY <2>1 DEF Guarded, Placed
<1>2. ASSUME NEW t \in Tabs, NEW s \in Slots, NEW o \in Op, op' = [op EXCEPT ![t] = [op[t] EXCEPT ![s] = o]],
             o.kind = op[t][s].kind \/ o.kind # "logout" \/ s = "form"
      PROVE  Guarded'
  <2>1. Placed([op[t] EXCEPT ![s] = o])
    BY <1>0, <1>2, PlacedPut DEF Guarded
  <2>2. QED
    BY <1>1, <1>2, <2>1
<1>3. ASSUME NEW t \in Tabs, NEW s \in Slots PROVE Placed(End(t, s)) /\ End(t, s) \in TabOps
  BY PlacedEnd, EndOps DEF Guarded
<1>4. ASSUME NEW t \in Tabs, NEW s \in Slots, Succeed(t, s)
      PROVE  Guarded'
  <2>1. /\ Ask("guard", memory[t], jar) \in Op /\ Ask("guard", memory[t], jar).kind # "logout"
        /\ Ask("confirm", memory[t], jar) \in Op /\ Ask("confirm", memory[t], jar).kind # "logout"
    BY <1>0, AskIsOp DEF Kinds, Ask
  <2>2. CASE op[t][s].kind = "check"
    <3>1. op' = [op EXCEPT ![t] = [op[t] EXCEPT ![s] = Ask("confirm", memory[t], jar)]]
      BY <1>0, <1>4, <2>2 DEF Succeed, TabOps
    <3>2. QED
      BY <1>2, <2>1, <3>1
  <2>3. CASE op[t][s].kind = "confirm" /\ page[t] = "login"
    <3>1. op' = [op EXCEPT ![t] = [End(t, s) EXCEPT !["guard"] = Ask("guard", memory[t], jar)]]
      BY <1>4, <2>3 DEF Succeed
    <3>2. Placed([End(t, s) EXCEPT !["guard"] = Ask("guard", memory[t], jar)])
      BY <1>3, <2>1, FixedSlots, PlacedPut
    <3>3. QED
      BY <1>1, <3>1, <3>2
  <2>4. CASE ~(op[t][s].kind = "check") /\ ~(op[t][s].kind = "confirm" /\ page[t] = "login")
    <3>1. op' = [op EXCEPT ![t] = End(t, s)]
      BY <1>4, <2>4 DEF Succeed
    <3>2. QED
      BY <1>1, <1>3, <3>1
  <2>5. QED
    BY <2>2, <2>3, <2>4
<1>5. ASSUME NEW t \in Tabs, NEW s \in Slots, FailWith(t, s, jar)
      PROVE  Guarded'
  <2>1. op' = [op EXCEPT ![t] = End(t, s)] \/ op' = [op EXCEPT ![t] = Checking(End(t, s), 0, jar)]
    BY <1>5 DEF FailWith
  <2>2. Placed(Checking(End(t, s), 0, jar))
    BY <1>0, <1>3, PlacedChecking
  <2>3. QED
    BY <1>1, <1>3, <2>1, <2>2
<1>6. ASSUME NEW t \in Tabs, NEW cookies \in Cookies, Load(t, cookies)
      PROVE  Guarded'
  <2>1. jar' \in Cookies
    BY <1>6, LoadTypes DEF TabTypes
  <2> DEFINE g == [NoOps EXCEPT !["guard"] = Ask("guard", 0, jar')]
  <2> DEFINE c == [NoOps EXCEPT !["check"] = Ask("check", 0, jar')]
  <2>2. Placed(g) /\ Placed(c)
    BY <2>1, PlacedLoaded
  <2>3. op' = [op EXCEPT ![t] = g] \/ op' = [op EXCEPT ![t] = c]
    BY <1>6 DEF Load
  <2> HIDE DEF g, c
  <2>4. QED
    BY <1>1, <2>2, <2>3
<1>7. ASSUME NEW t \in Tabs, NEW s \in Slots, Answer(t, s) PROVE Guarded'
  <2>1. CASE Succeed(t, s)
    BY <1>4, <1>7, <2>1 DEF Answer
  <2>2. CASE FailWith(t, s, jar)
    BY <1>5, <2>2
  <2>3. CASE ~Succeed(t, s) /\ ~FailWith(t, s, jar)
    <3> DEFINE o == [op[t][s] EXCEPT !.st = "refresh", !.token = jar.refresh]
    <3>1. op[t] \in TabOps /\ op[t][s] \in Op
      BY <1>0, EndOps
    <3>2. op' = [op EXCEPT ![t][s].st = "refresh", ![t][s].token = jar.refresh]
      BY <1>7, <2>3 DEF Answer
    <3>3. op' = [op EXCEPT ![t] = [op[t] EXCEPT ![s] = o]]
      BY <3>1, <3>2 DEF TabOps, Op
    <3>4. o \in Op
      BY <1>0, EndOps, StepOp DEF Steps
    <3>5. o.kind = op[t][s].kind
      BY EndOps DEF Op
    <3> HIDE DEF o
    <3>6. QED
      BY <1>2, <3>3, <3>4, <3>5
  <2>4. QED
    BY <2>1, <2>2, <2>3
<1>8. ASSUME NEW t \in Tabs, NEW s \in Slots, Break(t, s) PROVE Guarded'
  BY <1>5, <1>8 DEF Break
<1>9. ASSUME NEW t \in Tabs, NEW s \in Slots, Rotate(t, s) PROVE Guarded'
  <2> DEFINE o == [op[t][s] EXCEPT !.st = "granted", !.token = last + 1]
  <2>1. op' = [op EXCEPT ![t] = [op[t] EXCEPT ![s] = o]]
    BY <1>0, <1>9 DEF Rotate, TabOps, Op
  <2>2. last + 1 \in Nat /\ op[t][s].token \in Nat
    BY <1>0, ValuesAre
  <2>3. o \in Op
    BY <2>2, EndOps, StepOp DEF Steps
  <2>4. o.kind = op[t][s].kind
    BY EndOps DEF Op
  <2> HIDE DEF o
  <2>5. QED
    BY <1>2, <2>1, <2>3, <2>4
<1>10. ASSUME NEW t \in Tabs, NEW s \in Slots, TakeGrant(t, s) PROVE Guarded'
  <2> DEFINE o == [op[t][s] EXCEPT !.st = "again", !.token = IF op[t][s].bearer THEN 0 ELSE op[t][s].token]
  <2>1. op' = [op EXCEPT ![t] = [op[t] EXCEPT ![s] = o]]
    BY <1>0, <1>10 DEF TakeGrant, TabOps, Op
  <2>2. last + 1 \in Nat /\ op[t][s].token \in Nat
    BY <1>0, ValuesAre
  <2>3. o \in Op
    BY <2>2, EndOps, StepOp DEF Steps
  <2>4. o.kind = op[t][s].kind
    BY EndOps DEF Op
  <2> HIDE DEF o
  <2>5. QED
    BY <1>2, <2>1, <2>3, <2>4
<1>11. ASSUME NEW t \in Tabs, NEW s \in Slots, Expel(t, s) \/ RefuseForNow(t, s) PROVE Guarded'
  <2>0. Refused(t, s)
    BY <1>11 DEF Expel, RefuseForNow
  <2>1. CASE page[t] = "dash"
    <3>1. Cleared \in Cookies
      BY <1>0 DEF Cleared, Cookies
    <3>2. QED
      BY <1>6, <2>0, <2>1, <3>1 DEF Refused
  <2>2. CASE page[t] # "dash"
    BY <1>1, <1>3, <2>0, <2>2 DEF Refused
  <2>3. QED
    BY <2>1, <2>2
<1>12. ASSUME NEW t \in Tabs, NEW s \in Slots, Send(t, s) PROVE Guarded'
  <2>1. PICK kind \in {"request", "raw"} : op' = [op EXCEPT ![t][s] = Ask(kind, memory[t], jar)]
    BY <1>12 DEF Send
  <2>2. Ask(kind, memory[t], jar) \in Op /\ Ask(kind, memory[t], jar).kind = kind
    BY <1>0, AskIsOp DEF Kinds, Ask
  <2>3. op' = [op EXCEPT ![t] = [op[t] EXCEPT ![s] = Ask(kind, memory[t], jar)]]
    BY <1>0, <1>12, <2>1 DEF Send, TabOps
  <2>4. s # "guard"
    BY <1>12, BrowserAssumption DEF Send
  <2>5. QED
    BY <1>2, <2>2, <2>3, <2>4
<1>13. ASSUME NEW t \in Tabs, SignIn(t) PROVE Guarded'
  <2>1. PICK kind \in {"login", "mfa"} : op' = [op EXCEPT ![t]["form"] = [Idle EXCEPT !.kind = kind, !.st = "ask"]]
    BY <1>13 DEF SignIn
  <2> DEFINE o == [Idle EXCEPT !.kind = kind, !.st = "ask"]
  <2>2. o \in Op /\ o.kind = kind
    BY DEF Idle, Op, Token
  <2>3. op' = [op EXCEPT ![t] = [op[t] EXCEPT !["form"] = o]]
    BY <1>0, <1>13, <2>1 DEF SignIn, TabOps
  <2> HIDE DEF o
  <2>4. QED
    BY <1>2, <2>2, <2>3, FixedSlots
<1>14. ASSUME NEW t \in Tabs, Issue(t) PROVE Guarded'
  <2> DEFINE o == [op[t]["form"] EXCEPT !.st = "granted", !.token = last + 1]
  <2>1. op' = [op EXCEPT ![t] = [op[t] EXCEPT !["form"] = o]]
    BY <1>0, <1>14, FixedSlots DEF Issue, TabOps, Op
  <2>2. last + 1 \in Nat /\ op[t]["form"] \in Op
    BY <1>0, EndOps, FixedSlots
  <2>3. o \in Op
    BY <2>2, StepOp DEF Steps
  <2>4. o.kind = op[t]["form"].kind
    BY <2>2 DEF Op
  <2> HIDE DEF o
  <2>5. QED
    BY <1>2, <2>1, <2>3, <2>4, FixedSlots
<1>15. ASSUME NEW t \in Tabs, TakeSession(t) PROVE Guarded'
  <2> DEFINE mem == IF op[t]["form"].kind = "login" THEN op[t]["form"].token ELSE 0
  <2> DEFINE o == Ask("confirm", mem, jar')
  <2>1. op' = [op EXCEPT ![t] = [op[t] EXCEPT !["form"] = o]]
    BY <1>0, <1>15, FixedSlots DEF TakeSession, TabOps
  <2>2. op[t]["form"].token \in Nat
    BY ValuesAre, FixedSlots
  <2>3. jar' \in Cookies /\ mem \in Token
    BY <1>0, <1>15, <2>2 DEF TakeSession, Cookies, Token
  <2> HIDE DEF mem
  <2>4. o \in Op /\ o.kind = "confirm"
    BY <2>3, AskIsOp DEF Kinds, Ask
  <2> HIDE DEF o
  <2>5. QED
    BY <1>2, <2>1, <2>4, FixedSlots
<1>16. ASSUME NEW t \in Tabs, Logout(t) PROVE Guarded'
  <2> DEFINE o == [kind |-> "logout", st |-> "ask", bearer |-> FALSE, token |-> jar.refresh]
  <2>1. op' = [op EXCEPT ![t] = [op[t] EXCEPT !["form"] = o]]
    BY <1>0, <1>16, FixedSlots DEF Logout, TabOps
  <2>2. o \in Op
    BY <1>0 DEF Op, Token
  <2> HIDE DEF o
  <2>3. QED
    BY <1>2, <2>1, <2>2, FixedSlots
<1>17. ASSUME NEW t \in Tabs, Forget(t) PROVE Guarded'
  <2> DEFINE o == [op[t]["form"] EXCEPT !.st = "cleared"]
  <2>1. op' = [op EXCEPT ![t] = [op[t] EXCEPT !["form"] = o]]
    BY <1>0, <1>17, FixedSlots DEF Forget, TabOps, Op
  <2>2. o \in Op /\ o.kind = op[t]["form"].kind
    BY EndOps, FixedSlots DEF Op
  <2> HIDE DEF o
  <2>3. QED
    BY <1>2, <2>1, <2>2, FixedSlots
<1>18. ASSUME NEW t \in Tabs, Leave(t) PROVE Guarded'
  <2>1. op' = [op EXCEPT ![t] = Checking(Abandon(End(t, "form")), 0, jar')]
    BY <1>18 DEF Leave
  <2>2. jar' \in Cookies
    BY <1>18, LeaveJar
  <2>3. Placed(Abandon(End(t, "form"))) /\ Abandon(End(t, "form")) \in TabOps
    BY <1>3, FixedSlots, PlacedAbandon, AbandonOps
  <2>4. Placed(Checking(Abandon(End(t, "form")), 0, jar'))
    BY <1>0, <2>2, <2>3, PlacedChecking
  <2>5. QED
    BY <1>1, <2>1, <2>4
<1>19. ASSUME NEW t \in Tabs, Navigate(t) PROVE Guarded'
  <2>1. op' = [op EXCEPT ![t] = Checking(Abandon(op[t]), memory[t], jar)]
    BY <1>19 DEF Navigate
  <2>2. Placed(Abandon(op[t])) /\ Abandon(op[t]) \in TabOps
    BY <1>0, PlacedAbandon, AbandonOps DEF Guarded
  <2>3. Placed(Checking(Abandon(op[t]), memory[t], jar))
    BY <1>0, <2>2, PlacedChecking
  <2>4. QED
    BY <1>1, <2>1, <2>3
<1>20. ASSUME NEW t \in Tabs, Reload(t) PROVE Guarded'
  BY <1>0, <1>6, <1>20 DEF Reload
<1>21. CASE Expire \/ Revoke \/ UNCHANGED vars
  BY <1>21 DEF Expire, Revoke, vars, Guarded
<1>22. QED
  BY <1>7, <1>8, <1>9, <1>10, <1>11, <1>12, <1>13, <1>14, <1>15, <1>16, <1>17, <1>18, <1>19, <1>20, <1>21 DEF Next

(* A page load keeps one token at most of those that were granted.         *)
LEMMA LoadKept ==
  ASSUME TypeOK, Kept, Guarded, NEW t \in Tabs, NEW cookies \in Cookies, cookies.refresh = jar.refresh,
         Load(t, cookies), last' = last
  PROVE  Kept'
<1>0. ServerTypes /\ TabTypes /\ jar' \in Cookies /\ lost \in BOOLEAN
  BY LoadTypes, TypeParts DEF TabTypes, RestTypes
<1>1. PICK kept \in {0} \cup Granted(t), gone \in SUBSET (Riding(t) \cap live) :
        /\ live' = live \ gone
        /\ lost' = (lost \/ gone # {} \/ Granted(t) \ {kept} # {} \/ op[t]["form"].st = "cleared")
        /\ jar' = IF kept = 0 THEN cookies ELSE [cookies EXCEPT !.access = kept, !.refresh = kept]
        /\ op' = [op EXCEPT ![t] = IF cookies.ssAuth THEN [NoOps EXCEPT !["guard"] = Ask("guard", 0, jar')]
                                    ELSE [NoOps EXCEPT !["check"] = Ask("check", 0, jar')]]
  BY DEF Load
<1>2. live' = live \/ lost'
  BY <1>1
<1>3. (lost => lost') /\ (op[t]["form"].st = "cleared" => lost')
  BY <1>1
<1>4. \A x \in Slots : Plain(op'[t][x]) /\ \A u \in Tabs \ {t} : op'[u] = op[u]
  <2> DEFINE g == Ask("guard", 0, jar')
  <2> DEFINE c == Ask("check", 0, jar')
  <2>1. Plain(g) /\ Plain(c) /\ Plain(Idle)
    BY PlainOps DEF Kinds
  <2>2. op' = [op EXCEPT ![t] = IF cookies.ssAuth THEN [NoOps EXCEPT !["guard"] = g] ELSE [NoOps EXCEPT !["check"] = c]]
    BY <1>1
  <2> HIDE DEF g, c
  <2>3. \A x \in Slots : Plain([NoOps EXCEPT !["guard"] = g][x]) /\ Plain([NoOps EXCEPT !["check"] = c][x])
    BY <2>1 DEF NoOps
  <2>4. op \in [Tabs -> TabOps]
    BY ValuesAre
  <2>5. QED
    BY <2>2, <2>3, <2>4
<1>5. \A x \in Slots : op[t][x].st = "granted" => op[t][x].token \in Granted(t) /\ op[t][x].token # 0
  BY DEF Granted, Kept, Sole
<1>6. CASE kept = 0
  <2>1. jar' = cookies
    BY <1>1, <1>6
  <2>2. \A x \in Slots : op[t][x].st = "granted" => lost'
    BY <1>1, <1>5, <1>6
  <2>3. \A x \in Slots : op[t][x].st = "cleared" => lost'
    BY <1>3 DEF Kept, LogoutShape, Guarded, Placed
  <2>4. \A u \in Tabs, x \in Slots : Quiet(op[u][x], op'[u][x])
    <3>1. \A x \in Slots : Quiet(op[t][x], op'[t][x])
      BY <1>4, <2>2, <2>3 DEF Quiet
    <3>2. \A u \in Tabs \ {t}, x \in Slots : Quiet(op[u][x], op'[u][x])
      BY <1>4 DEF Quiet, Alike
    <3>3. QED
      BY <3>1, <3>2
  <2>5. QED
    BY <1>2, <1>3, <2>1, <2>4, QuietStep
<1>7. CASE kept # 0
  <2>1. PICK s \in Slots : op[t][s].st = "granted" /\ op[t][s].token = kept
    BY <1>1, <1>7 DEF Granted
  <2>2. jar'.refresh = op[t][s].token
    BY <1>1, <1>7, <2>1 DEF Cookies
  <2>3. \A u \in Tabs, x \in Slots : op'[u][x] = op[u][x] \/ Plain(op'[u][x])
    BY <1>4
  <2>4. QED
    BY <1>2, <1>3, <1>4, <2>1, <2>2, <2>3, TakenStep
<1>8. QED
  BY <1>6, <1>7

LEMMA SucceedKept ==
  ASSUME TypeOK, Kept, NEW t \in Tabs, NEW s \in Slots, op[t][s].st \in {"ask", "again"},
         Succeed(t, s), UNCHANGED <<last, live, lost>>
  PROVE  Kept'
<1>0. jar \in Cookies /\ op \in [Tabs -> TabOps]
  BY ValuesAre
<1>1. jar'.refresh = jar.refresh
  <2>1. jar' = jar \/ jar' = [jar EXCEPT !.ssAuth = TRUE]
    BY DEF Succeed, ToDash
  <2>2. QED
    BY <1>0, <2>1 DEF Cookies
<1>2. \A x \in Slots : Quiet(op[t][x], End(t, s)[x])
  BY QuietEnd
<1>3. \A u \in Tabs, x \in Slots : Quiet(op[u][x], op'[u][x])
  <2>1. CASE op[t][s].kind = "check"
    <3>1. op' = [op EXCEPT ![t] = [op[t] EXCEPT ![s] = Ask("confirm", memory[t], jar)]]
      BY <1>0, <2>1 DEF Succeed, TabOps
    <3>2. Quiet(op[t][s], Ask("confirm", memory[t], jar))
      BY PlainOps DEF Quiet, Kinds
    <3>3. QED
      BY <3>1, <3>2, QuietPut
  <2>2. CASE op[t][s].kind = "confirm" /\ page[t] = "login"
    <3> DEFINE g == Ask("guard", memory[t], jar)
    <3>1. op' = [op EXCEPT ![t] = [End(t, s) EXCEPT !["guard"] = g]]
      BY <2>2 DEF Succeed
    <3>2. op[t]["guard"].st = "idle"
      BY <2>2 DEF Succeed, ToDash
    <3>3. Quiet(op[t]["guard"], g)
      BY <3>2, PlainOps DEF Quiet, Kinds
    <3>4. End(t, s) \in TabOps
      BY EndOps
    <3> HIDE DEF g
    <3>5. \A x \in Slots : Quiet(op[t][x], [End(t, s) EXCEPT !["guard"] = g][x])
      BY <1>2, <3>3, <3>4 DEF TabOps
    <3>6. QED
      BY <3>1, <3>5, QuietTab
  <2>3. CASE ~(op[t][s].kind = "check") /\ ~(op[t][s].kind = "confirm" /\ page[t] = "login")
    <3>1. op' = [op EXCEPT ![t] = End(t, s)]
      BY <2>3 DEF Succeed
    <3>2. QED
      BY <1>2, <3>1, QuietTab
  <2>4. QED
    BY <2>1, <2>2, <2>3
<1>4. QED
  BY <1>1, <1>3, QuietStep

LEMMA FailKept ==
  ASSUME TypeOK, Kept, NEW t \in Tabs, NEW s \in Slots, FailWith(t, s, jar),
         op[t][s].st \in {"granted", "cleared"} => lost', lost => lost', UNCHANGED <<last, live>>
  PROVE  Kept'
<1>0. jar \in Cookies /\ op \in [Tabs -> TabOps] /\ 0 \in Token
  BY ValuesAre DEF Token
<1>1. jar'.refresh = jar.refresh
  <2>1. jar' = jar \/ jar' = [jar EXCEPT !.ssAuth = FALSE]
    BY DEF FailWith, ToLogin
  <2>2. QED
    BY <1>0, <2>1 DEF Cookies
<1>2. (\A x \in Slots : Quiet(op[t][x], End(t, s)[x])) /\ End(t, s) \in TabOps
  BY QuietEnd, EndOps
<1>3. \A x \in Slots : Quiet(op[t][x], Checking(End(t, s), 0, jar)[x])
  BY <1>0, <1>2, QuietChecking
<1>4. op' = [op EXCEPT ![t] = End(t, s)] \/ op' = [op EXCEPT ![t] = Checking(End(t, s), 0, jar)]
  BY DEF FailWith
<1>5. \A u \in Tabs, x \in Slots : Quiet(op[u][x], op'[u][x])
  BY <1>2, <1>3, <1>4, QuietTab
<1>6. QED
  BY <1>1, <1>5, QuietStep

(* The server ends the token of the cookie; the browser is told.           *)
LEMMA ForgetKept == ASSUME TypeOK, Kept, NEW t \in Tabs, Forget(t) PROVE Kept'
<1> DEFINE o == [op[t]["form"] EXCEPT !.st = "cleared"]
<1>1. /\ op[t]["form"].kind = "logout" /\ live' = live \ {op[t]["form"].token}
      /\ op' = [op EXCEPT ![t] = [op[t] EXCEPT !["form"] = o]] /\ UNCHANGED <<last, jar, lost>>
  BY ValuesAre, FixedSlots DEF Forget, TabOps, Op
<1>2. o.kind = "logout" /\ o.st = "cleared" /\ o.token = op[t]["form"].token
  BY <1>1, EndOps, FixedSlots DEF Op
<1> HIDE DEF o
<1>3. op'[t]["form"] = o
  BY <1>1, FixedSlots, ValuesAre DEF TabOps
<1>4. \A u \in Tabs, x \in Slots : u # t \/ x # "form" => op'[u][x] = op[u][x]
  BY <1>1, FixedSlots, ValuesAre DEF TabOps
<1>5. ASSUME NEW u \in Tabs, NEW x \in Slots
      PROVE  /\ op'[u][x].token = op[u][x].token /\ (Rides(op'[u][x]) <=> Rides(op[u][x])) /\ LogoutShape(op'[u][x])
             /\ op'[u][x].st = "granted" => op'[u][x] = op[u][x]
  <2>1. CASE u = t /\ x = "form"
    BY <1>1, <1>2, <1>3, <2>1 DEF Rides, LogoutShape
  <2>2. CASE u # t \/ x # "form"
    BY <1>4, <2>2 DEF Kept
  <2>3. QED
    BY <2>1, <2>2
<1>6. Known'
  BY <1>1, <1>5 DEF Kept, Known, Rides
<1>7. ASSUME NEW u \in Tabs, NEW x \in Slots, op'[u][x].st = "granted"
      PROVE  /\ op'[u][x].token # 0 /\ op'[u][x].token # jar'.refresh
             /\ lost' \/ op'[u][x].token \in live'
             /\ \A v \in Tabs, y \in Slots : Rides(op'[v][y]) /\ op'[v][y].token = op'[u][x].token => v = u /\ y = x
  <2>1. op'[u][x] = op[u][x]
    BY <1>5, <1>7
  <2>2. /\ op[u][x].token # 0 /\ op[u][x].token # jar.refresh /\ (lost \/ op[u][x].token \in live)
        /\ \A v \in Tabs, y \in Slots : Rides(op[v][y]) /\ op[v][y].token = op[u][x].token => v = u /\ y = x
    BY <1>7, <2>1 DEF Kept, Sole
  <2>3. op[u][x].token # op[t]["form"].token
    <3>1. Rides(op[t]["form"]) /\ op[u][x] # op[t]["form"]
      BY <1>1, <1>2, <1>3, <1>7, <2>1, FixedSlots DEF Rides, Kept, LogoutShape
    <3>2. QED
      BY <2>2, <3>1, FixedSlots
  <2>4. QED
    BY <1>1, <1>5, <2>1, <2>2, <2>3
<1>8. Sole'
  BY <1>7 DEF Sole, Rides
<1>9. SessionKept'
  BY <1>2, <1>3 DEF SessionKept
<1>10. \A u \in Tabs, x \in Slots : LogoutShape(op[u][x])'
  BY <1>5 DEF LogoutShape
<1>11. QED
  BY <1>6, <1>8, <1>9, <1>10 DEF Kept

(* Without a refresh cookie there is no session to keep.                   *)
LEMMA LeaveKept == ASSUME TypeOK, Kept, NEW t \in Tabs, Leave(t) PROVE Kept'
<1>0. jar' \in Cookies /\ 0 \in Token /\ jar \in Cookies /\ last \in Nat /\ lost \in BOOLEAN
  BY LeaveJar, ValuesAre DEF Token
<1>1. /\ op' = [op EXCEPT ![t] = Checking(Abandon(End(t, "form")), 0, jar')] /\ op[t]["form"].kind = "logout"
      /\ last' = last /\ live' = live
  BY DEF Leave, server
<1>2. \/ jar' = [access |-> 0, refresh |-> 0, ssAuth |-> FALSE] /\ lost' = lost
      \/ jar' = Cleared /\ lost' = (lost \/ op[t]["form"].st = "cleared")
  BY DEF Leave, ToLogin
<1>3. op[t]["form"].st # "granted"
  BY <1>1, FixedSlots DEF Kept, LogoutShape
<1>4. CASE jar' = Cleared /\ lost' = (lost \/ op[t]["form"].st = "cleared")
  <2>1. jar'.refresh = jar.refresh
    BY <1>0, <1>4 DEF Cleared, Cookies
  <2>2. (op[t]["form"].st = "cleared" => lost') /\ (lost => lost')
    BY <1>4
  <2>3. (\A x \in Slots : Quiet(op[t][x], End(t, "form")[x])) /\ End(t, "form") \in TabOps
    BY <1>3, <2>2, QuietEnd, EndOps, FixedSlots
  <2>4. \A x \in Slots : Quiet(op[t][x], Checking(Abandon(End(t, "form")), 0, jar')[x])
    <3>1. op[t]["guard"] = End(t, "form")["guard"]
      BY EndIs, FixedSlots
    <3>2. \A x \in Slots : Quiet(op[t][x], Abandon(End(t, "form"))[x])
      BY <2>3, <3>1, QuietAbandon
    <3>3. Abandon(End(t, "form")) \in TabOps
      BY <2>3, AbandonOps
    <3>4. QED
      BY <1>0, <3>2, <3>3, QuietChecking
  <2>5. \A u \in Tabs, x \in Slots : Quiet(op[u][x], op'[u][x])
    BY <1>1, <2>4, QuietTab
  <2>6. QED
    BY <1>1, <2>1, <2>2, <2>5, QuietStep
<1>5. CASE jar' = [access |-> 0, refresh |-> 0, ssAuth |-> FALSE] /\ lost' = lost
  <2>1. jar'.refresh = 0
    BY <1>5
  <2>2. /\ End(t, "form") \in TabOps /\ End(t, "form")["form"] = Idle
        /\ \A x \in Slots \ {"form"} : End(t, "form")[x] = op[t][x]
    BY EndOps, EndIs, FixedSlots
  <2> DEFINE c == Ask("check", 0, jar')
  <2>3. Plain(c) /\ Plain(Idle)
    BY PlainOps DEF Kinds
  <2> DEFINE ops == Abandon(End(t, "form"))
  <2>4. Checking(ops, 0, jar') = ops \/ Checking(ops, 0, jar') = [ops EXCEPT !["check"] = c]
    BY DEF Checking
  <2> HIDE DEF c
  <2>5. ASSUME NEW x \in Slots
        PROVE  Alike(op[t][x], Checking(ops, 0, jar')[x]) \/ Plain(Checking(ops, 0, jar')[x])
    <3>1. ops \in TabOps /\ \A y \in Slots \ {"guard"} : ops[y] = End(t, "form")[y]
      BY <2>2, AbandonOps
    <3>2. Alike(op[t]["guard"], ops["guard"])
      BY <2>2, AbandonIs, FixedSlots DEF Alike
    <3> HIDE DEF ops
    <3>3. Alike(op[t][x], ops[x]) \/ Plain(ops[x])
      BY <2>2, <2>3, <3>1, <3>2 DEF Alike
    <3>4. QED
      BY <2>3, <2>4, <3>1, <3>3 DEF TabOps
  <2>6. ASSUME NEW u \in Tabs, NEW x \in Slots
        PROVE  Alike(op[u][x], op'[u][x]) \/ Plain(op'[u][x])
    <3>1. op'[u][x] = IF u = t THEN Checking(ops, 0, jar')[x] ELSE op[u][x]
      BY <1>1, ValuesAre
    <3> HIDE DEF ops
    <3>2. QED
      BY <2>5, <3>1 DEF Alike
  <2>7. Known'
    BY <1>0, <1>1, <2>1, <2>6 DEF Kept, Known, Rides, Plain, Alike
  <2>8. Sole'
    <3>1. \A u \in Tabs, x \in Slots : Rides(op'[u][x]) => Rides(op[u][x]) /\ op'[u][x].token = op[u][x].token
      BY <2>6 DEF Rides, Plain, Alike
    <3>2. ASSUME NEW u \in Tabs, NEW x \in Slots, op'[u][x].st = "granted"
          PROVE  /\ op'[u][x].token # 0 /\ (lost' \/ op'[u][x].token \in live')
                 /\ \A v \in Tabs, y \in Slots : Rides(op'[v][y]) /\ op'[v][y].token = op'[u][x].token => v = u /\ y = x
      <4>1. op[u][x].st = "granted" /\ op'[u][x].token = op[u][x].token
        BY <2>6, <3>2 DEF Plain, Alike
      <4>2. /\ op[u][x].token # 0 /\ (lost \/ op[u][x].token \in live)
            /\ \A v \in Tabs, y \in Slots : Rides(op[v][y]) /\ op[v][y].token = op[u][x].token => v = u /\ y = x
        BY <4>1 DEF Kept, Sole
      <4>3. QED
        BY <1>1, <1>5, <3>1, <4>1, <4>2
    <3>3. QED
      BY <2>1, <3>2 DEF Sole, Rides
  <2>9. SessionKept'
    BY <2>1 DEF SessionKept
  <2>10. ASSUME NEW u \in Tabs, NEW x \in Slots PROVE LogoutShape(op'[u][x])
    BY <2>6 DEF Kept, LogoutShape, Plain, Alike
  <2>11. \A u \in Tabs, x \in Slots : LogoutShape(op[u][x])'
    BY <2>10 DEF LogoutShape
  <2>12. QED
    BY <2>7, <2>8, <2>9, <2>11 DEF Kept
<1>6. QED
  BY <1>2, <1>4, <1>5

LEMMA StepKept == ASSUME TypeOK, Kept, Guarded, [Next]_vars PROVE Kept'
<1>0. /\ jar \in Cookies /\ op \in [Tabs -> TabOps] /\ jar.refresh \in Nat /\ last \in Nat /\ lost \in BOOLEAN
      /\ Cleared \in Cookies /\ Cleared.refresh = jar.refresh /\ memory \in [Tabs -> Token]
  BY ValuesAre DEF Cleared, Cookies, TypeOK
<1>1. ASSUME NEW t \in Tabs, NEW s \in Slots PROVE op[t][s] \in Op /\ LogoutShape(op[t][s])
  BY ValuesAre DEF Kept
<1>2. ASSUME NEW t \in Tabs, NEW s \in Slots, NEW o, Quiet(op[t][s], o), UNCHANGED <<last, live, jar, lost>>,
             op' = [op EXCEPT ![t] = [op[t] EXCEPT ![s] = o]]
      PROVE  Kept'
  <2>1. \A u \in Tabs, x \in Slots : Quiet(op[u][x], op'[u][x])
    BY <1>2, QuietPut
  <2>2. QED
    BY <1>2, <2>1, QuietStep
<1>3. ASSUME NEW t \in Tabs, NEW s \in Slots, Answer(t, s) PROVE Kept'
  <2>1. UNCHANGED <<last, live, lost>> /\ op[t][s].st \in {"ask", "again"} /\ op[t][s].kind # "logout"
    BY <1>3 DEF Answer, server
  <2>2. CASE Succeed(t, s)
    BY <2>1, <2>2, SucceedKept
  <2>3. CASE FailWith(t, s, jar)
    BY <2>1, <2>3, FailKept
  <2>4. CASE ~Succeed(t, s) /\ ~FailWith(t, s, jar)
    <3> DEFINE o == [op[t][s] EXCEPT !.st = "refresh", !.token = jar.refresh]
    <3>1. op' = [op EXCEPT ![t] = [op[t] EXCEPT ![s] = o]] /\ jar' = jar
      BY <1>0, <1>3, <2>4 DEF Answer, TabOps, Op
    <3>2. o.st = "refresh" /\ o.token = jar.refresh /\ o.kind = op[t][s].kind
      BY <1>1 DEF Op
    <3> HIDE DEF o
    <3>3. Quiet(op[t][s], o)
      BY <2>1, <3>2 DEF Quiet
    <3>4. QED
      BY <1>2, <2>1, <3>1, <3>3
  <2>5. QED
    BY <2>2, <2>3, <2>4
<1>4. ASSUME NEW t \in Tabs, NEW s \in Slots, Break(t, s) PROVE Kept'
  <2>1. /\ op[t][s].st # "cleared" /\ FailWith(t, s, jar) /\ lost' = (lost \/ op[t][s].st = "granted")
        /\ UNCHANGED <<last, live>>
    BY <1>4 DEF Break, server
  <2>2. (op[t][s].st \in {"granted", "cleared"} => lost') /\ (lost => lost')
    BY <2>1
  <2>3. QED
    BY <2>1, <2>2, FailKept
<1>5. ASSUME NEW t \in Tabs, NEW s \in Slots, Rotate(t, s) PROVE Kept'
  <2> DEFINE o == [op[t][s] EXCEPT !.st = "granted", !.token = last + 1]
  <2>1. op' = [op EXCEPT ![t] = [op[t] EXCEPT ![s] = o]]
    BY <1>0, <1>5 DEF Rotate, TabOps, Op
  <2>2. o.st = "granted" /\ o.token = last + 1 /\ o.kind = op[t][s].kind
    BY <1>1 DEF Op
  <2> HIDE DEF o
  <2>3. /\ op[t][s].st = "refresh" /\ last' = last + 1 /\ live' = (live \ {op[t][s].token}) \cup {last + 1}
        /\ jar' = jar /\ lost' = lost
    BY <1>5 DEF Rotate
  <2>4. o.kind # "logout"
    BY <1>1, <2>2, <2>3 DEF LogoutShape
  <2>5. ASSUME NEW u \in Tabs, NEW x \in Slots, op[u][x].st = "granted", op[u][x].token \in live
        PROVE  op[u][x].token \in live'
    <3>1. op[u][x].token # op[t][s].token
      BY <2>3, <2>5 DEF Kept, Sole, Rides
    <3>2. QED
      BY <2>3, <2>5, <3>1
  <2>6. op[t][s].st # "granted" /\ last + 1 \in live'
    BY <2>3
  <2>7. QED
    BY <2>1, <2>2, <2>3, <2>4, <2>5, <2>6, IssuedStep
<1>6. ASSUME NEW t \in Tabs, NEW s \in Slots, TakeGrant(t, s) PROVE Kept'
  <2> DEFINE o == [op[t][s] EXCEPT !.st = "again", !.token = IF op[t][s].bearer THEN 0 ELSE op[t][s].token]
  <2>1. op' = [op EXCEPT ![t] = [op[t] EXCEPT ![s] = o]]
    BY <1>0, <1>6 DEF TakeGrant, TabOps, Op
  <2>2. o.st = "again" /\ o.kind = op[t][s].kind
    BY <1>1 DEF Op
  <2> HIDE DEF o
  <2>3. op[t][s].st = "granted" /\ jar'.refresh = op[t][s].token /\ UNCHANGED <<last, live, lost>>
    BY <1>6 DEF TakeGrant, server
  <2>4. Plain(o)
    BY <1>1, <2>2, <2>3 DEF LogoutShape, Plain
  <2>5. op'[t][s] = o /\ \A u \in Tabs, x \in Slots : op'[u][x] = op[u][x] \/ op'[u][x] = o
    BY <1>0, <2>1 DEF TabOps
  <2>6. QED
    BY <2>3, <2>4, <2>5, TakenStep
<1>7. ASSUME NEW t \in Tabs, NEW s \in Slots, Expel(t, s) \/ RefuseForNow(t, s) PROVE Kept'
  <2>1. op[t][s].st = "refresh" /\ last' = last /\ Refused(t, s)
    BY <1>7 DEF Expel, RefuseForNow, Refused
  <2>2. CASE page[t] = "dash"
    <3>1. Load(t, Cleared)
      BY <2>1, <2>2 DEF Refused
    <3>2. QED
      BY <1>0, <2>1, <3>1, LoadKept
  <2>3. CASE page[t] # "dash"
    <3>1. jar' = Cleared /\ op' = [op EXCEPT ![t] = End(t, s)] /\ UNCHANGED <<live, lost>>
      BY <2>1, <2>3 DEF Refused
    <3>2. \A x \in Slots : Quiet(op[t][x], End(t, s)[x])
      BY <2>1, QuietEnd
    <3>3. \A u \in Tabs, x \in Slots : Quiet(op[u][x], op'[u][x])
      BY <3>1, <3>2, QuietTab
    <3>4. QED
      BY <1>0, <2>1, <3>1, <3>3, QuietStep
  <2>4. QED
    BY <2>2, <2>3
<1>8. ASSUME NEW t \in Tabs, NEW s \in Slots, Send(t, s) PROVE Kept'
  <2>1. PICK kind \in {"request", "raw"} : op' = [op EXCEPT ![t][s] = Ask(kind, memory[t], jar)]
    BY <1>8 DEF Send
  <2>2. Quiet(op[t][s], Ask(kind, memory[t], jar))
    BY <1>8, PlainOps DEF Send, Quiet, Kinds
  <2>3. op' = [op EXCEPT ![t] = [op[t] EXCEPT ![s] = Ask(kind, memory[t], jar)]] /\ UNCHANGED <<last, live, jar, lost>>
    BY <1>0, <1>8, <2>1 DEF Send, TabOps, server
  <2>4. QED
    BY <1>2, <2>2, <2>3
<1>9. ASSUME NEW t \in Tabs, SignIn(t) PROVE Kept'
  <2>1. PICK kind \in {"login", "mfa"} : op' = [op EXCEPT ![t]["form"] = [Idle EXCEPT !.kind = kind, !.st = "ask"]]
    BY <1>9 DEF SignIn
  <2> DEFINE o == [Idle EXCEPT !.kind = kind, !.st = "ask"]
  <2>2. Plain(o)
    BY DEF Idle, Plain
  <2>3. op' = [op EXCEPT ![t] = [op[t] EXCEPT !["form"] = o]] /\ UNCHANGED <<last, live, jar, lost>> /\ op[t]["form"].st = "idle"
    BY <1>0, <1>9, <2>1 DEF SignIn, TabOps, server
  <2> HIDE DEF o
  <2>4. Quiet(op[t]["form"], o)
    BY <2>2, <2>3 DEF Quiet
  <2>5. QED
    BY <1>2, <2>3, <2>4, FixedSlots
<1>10. ASSUME NEW t \in Tabs, Issue(t) PROVE Kept'
  <2> DEFINE o == [op[t]["form"] EXCEPT !.st = "granted", !.token = last + 1]
  <2>1. op' = [op EXCEPT ![t] = [op[t] EXCEPT !["form"] = o]]
    BY <1>0, <1>10, FixedSlots DEF Issue, TabOps, Op
  <2>2. o.st = "granted" /\ o.token = last + 1 /\ o.kind = op[t]["form"].kind
    BY <1>1, FixedSlots DEF Op
  <2> HIDE DEF o
  <2>3. /\ op[t]["form"].st = "ask" /\ op[t]["form"].kind \in {"login", "mfa"}
        /\ last' = last + 1 /\ live' = live \cup {last + 1} /\ jar' = jar /\ lost' = lost
    BY <1>10 DEF Issue
  <2>4. op[t]["form"].st # "granted" /\ last + 1 \in live' /\ o.kind # "logout"
    BY <2>2, <2>3
  <2>5. \A u \in Tabs, x \in Slots : op[u][x].st = "granted" /\ op[u][x].token \in live => op[u][x].token \in live'
    BY <2>3
  <2>6. QED
    BY <2>1, <2>2, <2>3, <2>4, <2>5, FixedSlots, IssuedStep
<1>11. ASSUME NEW t \in Tabs, TakeSession(t) PROVE Kept'
  <2> DEFINE mem == IF op[t]["form"].kind = "login" THEN op[t]["form"].token ELSE 0
  <2> DEFINE o == Ask("confirm", mem, jar')
  <2>1. op' = [op EXCEPT ![t] = [op[t] EXCEPT !["form"] = o]]
    BY <1>0, <1>11, FixedSlots DEF TakeSession, TabOps
  <2>2. Plain(o)
    BY PlainOps DEF Kinds
  <2> HIDE DEF o
  <2>3. op[t]["form"].st = "granted" /\ jar'.refresh = op[t]["form"].token /\ UNCHANGED <<last, live, lost>>
    BY <1>0, <1>11 DEF TakeSession, server, Cookies
  <2>4. op'[t]["form"] = o /\ \A u \in Tabs, x \in Slots : op'[u][x] = op[u][x] \/ op'[u][x] = o
    BY <1>0, <2>1, FixedSlots DEF TabOps
  <2>5. QED
    BY <2>2, <2>3, <2>4, FixedSlots, TakenStep
<1>12. ASSUME NEW t \in Tabs, Logout(t) PROVE Kept'
  <2> DEFINE o == [kind |-> "logout", st |-> "ask", bearer |-> FALSE, token |-> jar.refresh]
  <2>1. op' = [op EXCEPT ![t] = [op[t] EXCEPT !["form"] = o]] /\ UNCHANGED <<last, live, jar, lost>> /\ op[t]["form"].st = "idle"
    BY <1>0, <1>12 DEF Logout, TabOps, server
  <2>2. Quiet(op[t]["form"], o)
    BY <2>1 DEF Quiet
  <2> HIDE DEF o
  <2>3. QED
    BY <1>2, <2>1, <2>2, FixedSlots
<1>13. ASSUME NEW t \in Tabs, Navigate(t) PROVE Kept'
  <2>1. op' = [op EXCEPT ![t] = Checking(Abandon(op[t]), memory[t], jar)] /\ UNCHANGED <<last, live, jar, lost>>
    BY <1>13 DEF Navigate, ToLogin, server
  <2>2. (\A x \in Slots : Quiet(op[t][x], op[t][x])) /\ op[t] \in TabOps
    BY <1>0 DEF Quiet, Alike
  <2>3. \A x \in Slots : Quiet(op[t][x], Checking(Abandon(op[t]), memory[t], jar)[x])
    <3>1. Abandon(op[t]) \in TabOps /\ \A x \in Slots : Quiet(op[t][x], Abandon(op[t])[x])
      BY <2>2, AbandonOps, QuietAbandon
    <3>2. QED
      BY <1>0, <3>1, QuietChecking
  <2>4. \A u \in Tabs, x \in Slots : Quiet(op[u][x], op'[u][x])
    BY <2>1, <2>3, QuietTab
  <2>5. QED
    BY <2>1, <2>4, QuietStep
<1>14. ASSUME NEW t \in Tabs, Reload(t) PROVE Kept'
  BY <1>0, <1>14, LoadKept DEF Reload
<1>15. CASE Expire \/ Revoke \/ UNCHANGED vars
  <2>1. op' = op /\ jar' = jar /\ last' = last /\ (lost => lost') /\ (live' = live \/ lost')
    BY <1>15 DEF Expire, Revoke, vars, server
  <2>2. \A u \in Tabs, x \in Slots : Quiet(op[u][x], op'[u][x])
    BY <2>1 DEF Quiet, Alike
  <2>3. QED
    BY <2>1, <2>2, QuietStep
<1>16. QED
  BY <1>3, <1>4, <1>5, <1>6, <1>7, <1>8, <1>9, <1>10, <1>11, <1>12, <1>13, <1>14, <1>15, ForgetKept, LeaveKept DEF Next

LEMMA InitKept == Init => Kept /\ Guarded
<1> SUFFICES ASSUME Init PROVE Kept /\ Guarded
  OBVIOUS
<1>0. TypeOK /\ jar \in Cookies
  BY InitTypes, ValuesAre
<1>1. /\ last \in {0, 1} /\ live = 1..last /\ jar = [access |-> last, refresh |-> last, ssAuth |-> last = 1]
      /\ page = [t \in Tabs |-> IF jar.ssAuth THEN "dash" ELSE "login"] /\ shown = [t \in Tabs |-> FALSE]
      /\ lost = FALSE
  BY DEF Init
<1> DEFINE g == Ask("guard", 0, jar)
<1> DEFINE c == Ask("check", 0, jar)
<1> DEFINE ops == IF jar.ssAuth THEN [NoOps EXCEPT !["guard"] = g] ELSE [NoOps EXCEPT !["check"] = c]
<1>2. op = [t \in Tabs |-> ops]
  BY DEF Init
<1>3. Placed(ops)
  BY <1>0, PlacedLoaded
<1>4. Guarded
  BY <1>1, <1>2, <1>3 DEF Guarded
<1>5. Plain(g) /\ Plain(c) /\ Plain(Idle)
  BY PlainOps DEF Kinds
<1>6. \A x \in Slots : Plain(ops[x])
  <2> HIDE DEF g, c
  <2>1. QED
    BY <1>5 DEF NoOps
<1> HIDE DEF ops
<1>7. \A t \in Tabs, s \in Slots : Plain(op[t][s])
  BY <1>2, <1>6
<1>8. Known /\ Sole
  BY <1>1, <1>7 DEF Known, Sole, Plain, Rides
<1>9. \A t \in Tabs, s \in Slots : LogoutShape(op[t][s])
  BY <1>7 DEF Plain, LogoutShape
<1>10. SessionKept
  <2>1. jar.refresh # 0 => jar.refresh \in live
    BY <1>1
  <2>2. QED
    BY <2>1 DEF SessionKept
<1>11. QED
  BY <1>4, <1>8, <1>9, <1>10 DEF Kept

(* While nobody has ended the session the browser keeps the refresh token  *)
(* that is live, or is about to get it, however many tabs refresh, reload  *)
(* and fail at once, unless an answer that held it was lost (SessionKept). *)
THEOREM SessionIsKept == Spec => []SessionKept
<1>1. Init => TypeOK /\ Kept /\ Guarded
  BY InitTypes, InitKept
<1>2. TypeOK /\ Kept /\ Guarded /\ [Next]_vars => (TypeOK /\ Kept /\ Guarded)'
  BY StepTypes, StepKept, StepGuarded
<1>3. Kept => SessionKept
  BY DEF Kept
<1>4. QED
  BY <1>1, <1>2, <1>3, PTL DEF Spec

=============================================================================
