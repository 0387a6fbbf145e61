------------------------------ MODULE Timeouts -------------------------------
(***************************************************************************)
(* Time on Unix: cOS::sleepMillisecond and sleepMicroseconds over the      *)
(* system's nanosleep, and a TimeoutMonitor over a clock of whole seconds. *)
(* A unit of time here is one the second is divided into; milliseconds,    *)
(* microseconds and nanoseconds are Scale times finer each, and a `uint'   *)
(* wraps at UintRange.                                                     *)
(***************************************************************************)
EXTENDS Integers

CONSTANTS Second,            \* milliseconds in a second
          Scale,             \* microseconds in a millisecond, and so on
          UintRange,         \* 2^32
          INFINITE_TIMEOUT,  \* the timeout that never expires
          Durations,         \* the lengths of sleeps and timeouts, milliseconds
          MaxElapsed,        \* bound: how long a timeout is looked at
          MaxSignals         \* bound: signals that reach one sleep

VARIABLES phase,             \* the milliseconds of the second that passes
          asked,             \* the sleep that is under way: its length
          tv_nsec,           \* what is left of it, as the system is told
          left,              \* milliseconds until the system wakes the caller
          signals,           \* how many signals have reached it
          sleeping,          \* "no", "called", "asleep", "returned"
          m_timeoutMilliseconds,
          seconds,           \* the seconds the clock has counted since m_startTime
          elapsed            \* ghost: the milliseconds since then

timeVars == <<phase, asked, tv_nsec, left, signals, sleeping,
              m_timeoutMilliseconds, seconds, elapsed>>
sleepVars == <<asked, tv_nsec, left, signals, sleeping>>
monitorVars == <<m_timeoutMilliseconds, seconds, elapsed>>

TimeInit ==
  /\ phase = 0
  /\ asked = 0 /\ tv_nsec = 0 /\ left = 0 /\ signals = 0 /\ sleeping = "no"
  /\ m_timeoutMilliseconds = INFINITE_TIMEOUT /\ seconds = 0 /\ elapsed = 0

(* A timeout that was looked at long enough is given up.                    *)
Tick ==
  /\ ~(sleeping = "asleep" /\ left = 0)
  /\ phase' = (phase + 1) % Second
  /\ left' = IF sleeping = "asleep" THEN left - 1 ELSE left
  /\ IF m_timeoutMilliseconds = INFINITE_TIMEOUT \/ elapsed = MaxElapsed
       THEN m_timeoutMilliseconds' = INFINITE_TIMEOUT /\ seconds' = 0 /\ elapsed' = 0
       ELSE /\ elapsed' = elapsed + 1
            /\ seconds' = IF phase' = 0 THEN seconds + 1 ELSE seconds
            /\ UNCHANGED m_timeoutMilliseconds
  /\ UNCHANGED <<asked, tv_nsec, signals, sleeping>>

(* The two products of sleepMillisecond, each a uint.                       *)
Nanoseconds(milisecond) == (((milisecond * Scale) % UintRange) * Scale) % UintRange

sleepMillisecond(milisecond) ==
  /\ sleeping \in {"no", "returned"}
  /\ asked' = milisecond /\ sleeping' = "called" /\ left' = 0 /\ signals' = 0
  /\ tv_nsec' = Nanoseconds(milisecond)
  /\ UNCHANGED <<phase, monitorVars>>

(* nanosleep accepts less than a second of nanoseconds.  What it refuses    *)
(* with EINVAL is asked again unchanged.                                    *)
Accepts == tv_nsec < Second * Scale * Scale
RoundedUp(nanoseconds) == (nanoseconds + Scale * Scale - 1) \div (Scale * Scale)
nanosleep ==
  /\ sleeping = "called"
  /\ IF Accepts THEN sleeping' = "asleep" /\ left' = RoundedUp(tv_nsec)
     ELSE UNCHANGED <<sleeping, left>>
  /\ UNCHANGED <<phase, asked, tv_nsec, signals, monitorVars>>

(* A signal ends it early, with what is left in the same variable: no more  *)
(* than there was.                                                          *)
Lesser(a, b) == IF a < b THEN a ELSE b
Interrupted ==
  /\ sleeping = "asleep" /\ left > 0 /\ signals < MaxSignals
  /\ signals' = signals + 1 /\ sleeping' = "called"
  /\ tv_nsec' = Lesser(tv_nsec, left * Scale * Scale)
  /\ UNCHANGED <<phase, asked, left, monitorVars>>
Wake ==
  /\ sleeping = "asleep" /\ left = 0 /\ sleeping' = "returned"
  /\ UNCHANGED <<phase, asked, tv_nsec, left, signals, monitorVars>>

restart(timeoutMilliseconds) ==
  /\ m_timeoutMilliseconds' = timeoutMilliseconds
  /\ seconds' = 0 /\ elapsed' = 0
  /\ UNCHANGED <<phase, sleepVars>>

ElapsedSeconds == seconds                             \* a faulty variant
getElapsedMilliseconds == seconds * Second
isExpired ==
  /\ m_timeoutMilliseconds # INFINITE_TIMEOUT
  /\ getElapsedMilliseconds > m_timeoutMilliseconds

SleepMoves == nanosleep \/ Wake
TimeNext ==
  \/ Tick \/ SleepMoves \/ Interrupted
  \/ \E d \in Durations : sleepMillisecond(d) \/ restart(d)
-----------------------------------------------------------------------------
TimeTypeOK ==
  /\ phase \in 0 .. Second - 1 /\ asked \in Durations \cup {0} /\ left \in Nat
  /\ tv_nsec \in 0 .. UintRange - 1 /\ sleeping \in {"no", "called", "asleep", "returned"}
  /\ m_timeoutMilliseconds \in Durations \cup {INFINITE_TIMEOUT} /\ elapsed \in 0 .. MaxElapsed

(* What a timeout means over a clock of whole seconds: it expires at most a *)
(* second early and at most a second late, but for the one that stands for  *)
(* never.                                                                   *)
ExpiresWithinASecond ==
  /\ isExpired => elapsed + Second > m_timeoutMilliseconds + 1
  /\ m_timeoutMilliseconds # INFINITE_TIMEOUT /\ elapsed > m_timeoutMilliseconds + Second
       => isExpired

(* A sleep of less than a second is accepted, and so is, after a signal, the *)
(* rest of every sleep.                                                     *)
ShortSleepIsAccepted ==
  sleeping = "called" /\ (asked < Second \/ signals > 0) => Accepts

(* A sleep of less than a second returns, if the time goes on.              *)
ShortSleepReturns == (sleeping = "called" /\ asked < Second) ~> (sleeping = "returned")
=============================================================================
