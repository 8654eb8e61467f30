--------------------------- MODULE SoftwareTimer ----------------------------
(***************************************************************************)
(* modm::GenericTimeout and modm::GenericPeriodicTimer, on a clock and on  *)
(* time stamps that wrap around.                                           *)
(***************************************************************************)
EXTENDS Integers, FiniteSetsExt

CONSTANTS
  Ticks,      \* 2^16 or 2^32, the number of time stamps
  Intervals,  \* the durations in use
  Never,
  MaxTime     \* bound: how long the clock runs

ASSUME TimerAssumption ==
  /\ Ticks \in Nat \ {0} /\ MaxTime \in Nat
  /\ Intervals \subseteq 0..(Ticks - 1)
  /\ Never \notin Int

VARIABLES
  kind,       \* which of the two classes
  time,       \* history: the ticks of the clock since it was started
  _start,     \* GenericTimeout::_start
  _interval,  \* GenericTimeout::_interval
  _state,     \* GenericTimeout::_state, the set of its bits
  began,      \* history: the time that _start stands for
  returned    \* what the last execute() has returned

timerVars == << kind, time, _start, _interval, _state, began, returned >>

(* now(): the clock, cut to the width of a time stamp.                      *)
Now == time % Ticks

Minus(a, b) == (a - b) % Ticks

TimerInit ==
  /\ kind \in {"Timeout", "PeriodicTimer"}
  /\ time = 0
  /\ _start = 0 /\ began = 0
  /\ _interval = 0
  /\ _state = {"STOPPED"}
  /\ returned = 0

-----------------------------------------------------------------------------
Restart(i) ==
  /\ _start' = Now /\ began' = time
  /\ _interval' = i
  /\ _state' = {"ARMED"}
  /\ UNCHANGED << kind, time, returned >>

Stop ==
  /\ _state' = {"STOPPED"}
  /\ _interval' = 0
  /\ UNCHANGED << kind, time, _start, began, returned >>

(* checkExpiration().  And a mutant that compares two time stamps.          *)
CheckDeadline == "ARMED" \in _state /\ Now >= (_start + _interval) % Ticks

CheckExpiration == "ARMED" \in _state /\ Minus(Now, _start) >= _interval

(* state(), which isArmed() and isExpired() call.                           *)
LookedAt ==
  IF CheckExpiration THEN (_state \ {"ARMED"}) \cup {"EXPIRED"} ELSE _state

State ==
  /\ _state' = LookedAt
  /\ UNCHANGED << kind, time, _start, _interval, began, returned >>

(* GenericTimeout::execute() returns true.                                  *)
Expires ==
  /\ _state \cap {"EXECUTED", "STOPPED"} = {}
  /\ _state = {"EXPIRED"} \/ CheckExpiration

ExecuteFalse ==
  /\ ~Expires
  /\ returned' = 0
  /\ UNCHANGED << kind, time, _start, _interval, _state, began >>

ExecuteTimeout ==
  /\ kind = "Timeout" /\ Expires
  /\ _state' = {"EXPIRED", "EXECUTED"}
  /\ returned' = 1
  /\ UNCHANGED << kind, time, _start, _interval, began >>

(* GenericPeriodicTimer::execute(): the loop adds the interval to _start    *)
(* until less than one interval is left.                                    *)
Diff(k) == Minus(Now, _start + k * _interval)

Loops == Min({k \in 1..Ticks : Diff(k) < _interval})

Count == Cardinality({k \in 1..Loops : Diff(k) # _interval})

(* _start after execute(), and a mutant that restarts the timer.            *)
FromNow == time

NewStart == IF _interval = 0 THEN time ELSE began + Loops * _interval

ExecutePeriodicTimer ==
  /\ kind = "PeriodicTimer" /\ Expires
  /\ began' = NewStart
  /\ _start' = NewStart % Ticks
  /\ returned' = IF _interval = 0 THEN 1 ELSE Count
  /\ _state' = {"ARMED"}
  /\ UNCHANGED << kind, time, _interval >>

(* remaining(), in a wider signed type.                                     *)
Remaining ==
  IF _state = {"STOPPED"} THEN 0 ELSE _interval + _start - Now

-----------------------------------------------------------------------------
(* Somebody looks at a timer, and executes a periodic one, before its start *)
(* is as old as the time stamps reach.                                      *)
LookedAtInTime ==
  \/ time + 1 - began < Ticks
  \/ kind = "Timeout" /\ "ARMED" \notin _state
  \/ _state = {"STOPPED"}

Tick ==
  /\ time < MaxTime
  /\ LookedAtInTime
  /\ time' = time + 1
  /\ UNCHANGED << kind, _start, _interval, _state, began, returned >>

TimerNext ==
  \/ Tick
  \/ \E i \in Intervals \cup {_interval} : Restart(i)
  \/ Stop
  \/ State
  \/ ExecuteFalse
  \/ ExecuteTimeout
  \/ ExecutePeriodicTimer

TimerSpec == TimerInit /\ [][TimerNext]_timerVars

-----------------------------------------------------------------------------
(* A timer whose time stamps wrap around behaves as one on a clock that     *)
(* never does: it fires once and on time, it keeps its phase, and it counts *)
(* the periods that have ended, although nobody looks at it for a while.    *)
deadline ==
  IF _state \cap {"STOPPED", "EXECUTED"} = {} THEN began + _interval ELSE Never

Ideal == INSTANCE IdealTimer WITH interval <- _interval

TimerIsIdeal == Ideal!IdealSpec

(* state() says Expired when the time is up, whether it was asked before or *)
(* not and also after execute(), and Armed until then.                      *)
StatusIsTrue ==
  LET status == LookedAt \cap {"ARMED", "EXPIRED", "STOPPED"}
  IN  /\ Cardinality(status) = 1
      /\ "STOPPED" \notin status =>
           ("EXPIRED" \in status <=> time >= began + _interval)

(* remaining() is the time until or since the expiration.                   *)
RemainingIsTrue ==
  _state # {"STOPPED"} => Remaining = began + _interval - time
=============================================================================
