----------------------------- MODULE LoginLimiter -----------------------------
(***************************************************************************)
(* The failures SlidingWindowRateLimiter keeps for one key                 *)
(* (core/rate_limit.py) and the logins that check and record them          *)
(* (api/v1/endpoints/auth.py): the check comes before the user's row is    *)
(* awaited, the record after it.  Time is a clock of whole ticks, and the  *)
(* list of times is the set of the failures, numbered since the last       *)
(* success: their order plays no part.                                     *)
(***************************************************************************)
EXTENDS Naturals, FiniteSets

CONSTANTS
  LoginSlot, \* the logins of one key that may be in flight at once
  LoginCap,  \* max_attempts
  Span,      \* window_seconds
  MaxClock   \* bound: ticks of the clock

ASSUME LoginAssumption ==
  IsFiniteSet(LoginSlot) /\ LoginCap \in Nat /\ Span \in Nat /\ MaxClock \in Nat

VARIABLES
  clock,
  failures, \* _failures[key]
  login,    \* each slot: "idle", or "checked" while the user's row is awaited
  since,    \* history: all failures since the last success
  blame     \* history: how many of them were in the window at the last refusal

loginVars == <<clock, failures, login, since, blame>>

LoginInit ==
  /\ clock = 0 /\ failures = {} /\ since = {}
  /\ login = [s \in LoginSlot |-> "idle"] /\ blame = LoginCap

\* The failures after the cutoff.
Recent(some) == {f \in some : f.time + Span > clock}

Tick ==
  /\ clock < MaxClock /\ clock' = clock + 1
  /\ UNCHANGED <<failures, login, since, blame>>

\* check, of a login that comes in: 429, or on to the user's row.
CheckKey(s) ==
  /\ login[s] = "idle"
  /\ failures' = IF LoginCap = 0 THEN failures ELSE Recent(failures)
  /\ IF LoginCap = 0 \/ Cardinality(failures') < LoginCap
     THEN login' = [login EXCEPT ![s] = "checked"] /\ UNCHANGED blame
     ELSE blame' = Cardinality(Recent(since)) /\ UNCHANGED login
  /\ UNCHANGED <<clock, since>>

\* No such user, or not that password: record_failure and 401.
FailLogin(s) == LET failure == [nr |-> Cardinality(since) + 1, time |-> clock] IN
  /\ login[s] = "checked"
  /\ failures' = Recent(failures) \cup {failure}
  /\ login' = [login EXCEPT ![s] = "idle"]
  /\ since' = since \cup {failure}
  /\ UNCHANGED <<clock, blame>>

\* A mutant of Succeed: nothing is forgotten.
SucceedOnly(s) ==
  /\ login[s] = "checked"
  /\ login' = [login EXCEPT ![s] = "idle"]
  /\ since' = {}
  /\ UNCHANGED <<clock, failures, blame>>

\* record_success, and the tokens.
Succeed(s) ==
  /\ login[s] = "checked"
  /\ failures' = {} /\ since' = {}
  /\ login' = [login EXCEPT ![s] = "idle"]
  /\ UNCHANGED <<clock, blame>>

LoginNext == Tick \/ \E s \in LoginSlot : CheckKey(s) \/ FailLogin(s) \/ Succeed(s)

LoginSpec == LoginInit /\ [][LoginNext]_loginVars

-----------------------------------------------------------------------------

\* However the logins of a key overlap, no more failures fall in a window (since its
\* last success) than the limiter admits, but for those that were past the check
\* together; and a login is refused only when that many do: neither a success nor a
\* failure that has left the window counts (SlidingWindowRateLimiter).
LoginsAreLimited ==
  /\ LoginCap > 0 => Cardinality(Recent(since)) <= LoginCap - 1 + Cardinality(LoginSlot)
  /\ blame >= LoginCap
=============================================================================
