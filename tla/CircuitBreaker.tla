--------------------------- MODULE CircuitBreaker ---------------------------
(***************************************************************************)
(* One named circuit breaker (core/circuit_breaker.py) and the outbound    *)
(* calls that run behind it (core/circuit_guard.py).                       *)
(*                                                                         *)
(* The breaker is an object shared by every coroutine of the process.      *)
(* allow_request and the two record_* methods never await, so each is one  *)
(* atomic step, but the outbound call between them does: any number of     *)
(* calls admitted in one state of the breaker report in another.           *)
(*                                                                         *)
(* The code keeps the monotonic time of the opening and compares it with   *)
(* the present; only the difference matters, so the model keeps that       *)
(* difference, saturated at the recovery window.  The master switch        *)
(* circuit_breakers_enabled is on.                                         *)
(*                                                                         *)
(* Names that every module here has (Init, Next, ...) are prefixed: the    *)
(* jobs of JobQueue make such calls, and one module extends both.          *)
(***************************************************************************)
EXTENDS Integers, FiniteSets

CONSTANTS
  Calls,             \* the coroutines that make outbound calls
  FailureThreshold,  \* settings.circuit_breaker_failure_threshold
  RecoverySeconds    \* settings.circuit_breaker_recovery_seconds, in ticks

ASSUME ThresholdAssumption == FailureThreshold \in Nat \ {0}
ASSUME RecoveryAssumption  == RecoverySeconds \in Nat \ {0}

VARIABLES
  failures,       \* _failures
  openedFor,      \* time since _opened_at, or NotOpened when it is None
  halfOpenTrial,  \* _half_open_trial
  call,           \* what each coroutine is doing
  abandoned       \* history: some call holding the trial was cancelled

breakerVars == <<failures, openedFor, halfOpenTrial, call, abandoned>>

NotOpened == -1

(* "normal": admitted by a closed breaker; "trial": admitted as the probe. *)
CallStates == {"idle", "normal", "trial"}

BreakerTypes ==
  /\ failures \in Nat
  /\ openedFor \in {NotOpened} \cup 0..RecoverySeconds
  /\ halfOpenTrial \in BOOLEAN
  /\ call \in [Calls -> CallStates]
  /\ abandoned \in BOOLEAN

BreakerInit ==
  /\ failures = 0
  /\ openedFor = NotOpened
  /\ halfOpenTrial = FALSE
  /\ call = [c \in Calls |-> "idle"]
  /\ abandoned = FALSE

-----------------------------------------------------------------------------
(* Mutant: the elapsed time is compared with > instead of >=.              *)
StateStrictlyAfter ==
  CASE openedFor = NotOpened      -> "closed"
    [] openedFor > RecoverySeconds -> "half_open"
    [] OTHER                       -> "open"

State ==
  CASE openedFor = NotOpened       -> "closed"
    [] openedFor = RecoverySeconds -> "half_open"
    [] OTHER                       -> "open"

(* The breaker lets call c through.  A refused call (CircuitOpenError, or  *)
(* run_thread's fallback) changes nothing and is no step.                  *)
AllowRequest(c) ==
  \/ /\ State = "closed"
     /\ call' = [call EXCEPT ![c] = "normal"]
     /\ UNCHANGED halfOpenTrial
  \/ /\ State = "half_open"
     /\ ~halfOpenTrial
     /\ halfOpenTrial' = TRUE
     /\ call' = [call EXCEPT ![c] = "trial"]

Admit(c) ==
  /\ call[c] = "idle"
  /\ AllowRequest(c)
  /\ UNCHANGED <<failures, openedFor, abandoned>>

(* Mutant: a success closes the breaker and forgets to clear the count.    *)
RecordSuccessKeepsCount ==
  /\ openedFor' = NotOpened
  /\ halfOpenTrial' = FALSE
  /\ UNCHANGED failures

RecordSuccess ==
  /\ failures' = 0
  /\ openedFor' = NotOpened
  /\ halfOpenTrial' = FALSE

(* Mutant: the flag is not dropped.                                        *)
RecordFailureKeepsTrial ==
  /\ UNCHANGED halfOpenTrial
  /\ \/ /\ State = "half_open"
        /\ openedFor' = 0
        /\ failures' = FailureThreshold
     \/ /\ State # "half_open"
        /\ failures' = failures + 1
        /\ openedFor' = IF failures + 1 >= FailureThreshold THEN 0 ELSE openedFor

(* The trial flag goes first; then a half-open breaker re-opens, and any   *)
(* other one counts the failure, even if it is open already: the count     *)
(* passes the threshold and the recovery window starts over.               *)
RecordFailure ==
  /\ halfOpenTrial' = FALSE
  /\ \/ /\ State = "half_open"
        /\ openedFor' = 0
        /\ failures' = FailureThreshold
     \/ /\ State # "half_open"
        /\ failures' = failures + 1
        /\ openedFor' = IF failures + 1 >= FailureThreshold THEN 0 ELSE openedFor

Return(c) ==
  /\ call[c] # "idle"
  /\ call' = [call EXCEPT ![c] = "idle"]

Succeed(c) == Return(c) /\ RecordSuccess /\ UNCHANGED abandoned

Fail(c) == Return(c) /\ RecordFailure /\ UNCHANGED abandoned

(* asyncio.CancelledError is no Exception: a call that a request deadline, *)
(* a job timeout or the shutdown cancels reports nothing at all.           *)
Cancel(c) ==
  /\ Return(c)
  /\ abandoned' = (abandoned \/ call[c] = "trial")
  /\ UNCHANGED <<failures, openedFor, halfOpenTrial>>

Tick ==
  /\ openedFor \in 0..(RecoverySeconds - 1)
  /\ openedFor' = openedFor + 1
  /\ UNCHANGED <<failures, halfOpenTrial, call, abandoned>>

BreakerNext ==
  \/ Tick
  \/ \E c \in Calls : Admit(c) \/ Succeed(c) \/ Fail(c) \/ Cancel(c)

BreakerSpec == BreakerInit /\ [][BreakerNext]_breakerVars

(* Time passes, and every outbound call ends: each has a client timeout.   *)
BreakerFairness ==
  /\ WF_breakerVars(Tick)
  /\ \A c \in Calls : WF_breakerVars(Succeed(c) \/ Fail(c) \/ Cancel(c))

BreakerFairSpec == BreakerSpec /\ BreakerFairness

-----------------------------------------------------------------------------
(* The breaker is tripped exactly while the failure count has reached the  *)
(* threshold, whatever order stale calls report in: no path of record_*    *)
(* leaves a tripped breaker with a small count (it would close without a   *)
(* success) or a full count without a trip.                                *)
OpenIffThreshold == (failures >= FailureThreshold) <=> (openedFor # NotOpened)

(* The trial flag is only ever up in a half-open breaker: neither a closed *)
(* nor an open breaker carries one over into its next half-open phase.     *)
TrialOnlyHalfOpen == halfOpenTrial => State = "half_open"

(* The breaker's count, trip and trial flag agree.                         *)
Consistent == BreakerTypes /\ OpenIffThreshold /\ TrialOnlyHalfOpen

(* While the trial flag is up the probe that raised it is still running,   *)
(* unless it was cancelled: stale reports may drop the flag early but      *)
(* never leave it behind.                                                  *)
TrialFlagOwned == halfOpenTrial => (abandoned \/ \E c \in Calls : call[c] = "trial")

(* An open breaker does not stay open: the calls admitted before it opened *)
(* can restart the window only finitely often.  And a probe resolves the   *)
(* half-open phase, unless it is cancelled: then the flag stays up and no  *)
(* call is admitted any more.                                              *)
Recovers ==
  /\ (State = "open") ~> (State # "open")
  /\ halfOpenTrial ~> (~halfOpenTrial \/ abandoned)
=============================================================================
