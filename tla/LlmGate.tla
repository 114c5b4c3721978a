------------------------------- MODULE LlmGate -------------------------------
(***************************************************************************)
(* The way to the language model: the retry series of with_llm_retry, the  *)
(* rate limiter in front of every call of a series, and the circuit        *)
(* breaker that a failed series feeds (utils/retry_decorator.py,           *)
(* rate_limiter.py, circuit_breaker.py).                                   *)
(*                                                                         *)
(* Time is relative: an instant is kept as its age, and an age stops       *)
(* growing where no comparison of the code can tell it from an older one.  *)
(* One series runs at a time, because the worker runs one mail at a time   *)
(* (concurrency=1) and the graph one node at a time.                       *)
(***************************************************************************)
EXTENDS Naturals, Sequences

CONSTANTS
    Threshold,    \* failure_threshold
    Window,       \* window_seconds
    Interval      \* 60 / LLM_MAX_RPM

\* What the model assumes of its constants.
GateAssumption == Threshold \in Nat \ {0} /\ Window \in Nat \ {0} /\ Interval \in Nat \ {0}

VARIABLES
    up,           \* a call gets a usable answer; FALSE in an outage, over the rate
                  \* limit, and where the categorizer's parser refuses the answer
    open,         \* CircuitBreaker._is_open
    ages,         \* the ages of _failure_timestamps, oldest first
    since,        \* the age of last_request_time
    nap,          \* what is left of the limiter's sleep
    phase,        \* where the series is
    left,         \* attempts the series has left
    gap           \* history: time since this process's limiter last let a call through

breaker == <<open, ages>>
limiter == <<since, nap, gap>>
gateVars == <<up, breaker, limiter, phase, left>>

Older(age, limit) == IF age < limit THEN age + 1 ELSE age

Phases == {"none", "queue", "sleep", "sent", "answered", "failed"}

\* The process has just started: nothing failed yet, and last_request_time
\* is 0.0, long ago on the loop's clock.
GateInit ==
    /\ open = FALSE
    /\ ages = <<>>
    /\ since = Interval
    /\ nap = 0
    /\ phase = "none"
    /\ left = 0
    /\ gap = Interval

GateRestart ==
    /\ open' = FALSE
    /\ ages' = <<>>
    /\ since' = Interval
    /\ nap' = 0
    /\ phase' = "none"
    /\ left' = 0
    /\ gap' = Interval

-----------------------------------------------------------------------------
CanProceed == ~open

\* _prune_expired: the clock is monotonic and the oldest failure is first, so
\* what has left the window is a prefix.
Pruned(failures) ==
    LET first == CHOOSE i \in DOMAIN failures :
                    /\ failures[i] < Window
                    /\ \A j \in DOMAIN failures : failures[j] < Window => i <= j
    IN SubSeq(failures, first, Len(failures))

\* report_failure: append, drop what has left the window, open at the threshold.
ReportFailure ==
    /\ ages' = Pruned(Append(ages, 0))
    /\ open' = (open \/ Len(ages') >= Threshold)

\* async_wrapper asks the breaker once, before the first attempt; a refusal
\* is not a failure of its own.  The image analyser's series does not ask.
Call(attempts, asks) ==
    /\ phase = "none"
    /\ IF asks /\ ~CanProceed THEN phase' = "failed" /\ UNCHANGED left
                              ELSE phase' = "queue" /\ left' = attempts
    /\ UNCHANGED <<up, breaker, limiter>>

\* acquire() holds its lock from the reading of the clock to the new stamp.
EnterLimiter ==
    /\ phase = "queue"
    /\ IF since < Interval
       THEN phase' = "sleep" /\ nap' = Interval - since /\ UNCHANGED <<since, gap>>
       ELSE phase' = "sent" /\ since' = 0 /\ gap' = 0 /\ UNCHANGED nap
    /\ UNCHANGED <<up, breaker, left>>

\* As LeaveLimiter, keeping the stamp that was read before the sleep.
LeaveUnstamped ==
    /\ phase = "sleep"
    /\ nap = 0
    /\ phase' = "sent"
    /\ gap' = 0
    /\ UNCHANGED <<up, breaker, since, nap, left>>

LeaveLimiter ==
    /\ phase = "sleep"
    /\ nap = 0
    /\ phase' = "sent"
    /\ since' = 0
    /\ gap' = 0
    /\ UNCHANGED <<up, breaker, nap, left>>

Reply ==
    /\ phase = "sent"
    /\ up
    /\ phase' = "answered"
    /\ UNCHANGED <<up, breaker, limiter, left>>

\* tenacity waits and tries again, through the limiter.
Retry ==
    /\ phase = "sent"
    /\ ~up
    /\ left > 1
    /\ phase' = "queue"
    /\ left' = left - 1
    /\ UNCHANGED <<up, breaker, limiter>>

\* The last attempt failed.  reports: the series is one of with_llm_retry.
Exhaust(reports) ==
    /\ phase = "sent"
    /\ ~up
    /\ left = 1
    /\ phase' = "failed"
    /\ IF reports THEN ReportFailure ELSE UNCHANGED breaker
    /\ UNCHANGED <<up, limiter, left>>

\* A second passes.
Tick ==
    /\ ages' = [i \in DOMAIN ages |-> Older(ages[i], Window)]
    /\ since' = Older(since, Interval)
    /\ gap' = Older(gap, Interval)
    /\ nap' = IF nap > 0 THEN nap - 1 ELSE 0
    /\ UNCHANGED <<up, open, phase, left>>

\* The provider fails or comes back, whatever this process does.
Outage ==
    /\ up' = ~up
    /\ UNCHANGED <<breaker, limiter, phase, left>>

-----------------------------------------------------------------------------
(* What holds of the gate, whoever calls.                                  *)

GateTypeOK ==
    /\ up \in BOOLEAN /\ open \in BOOLEAN
    /\ ages \in Seq(0..Window)
    /\ since \in 0..Interval /\ nap \in 0..Interval /\ gap \in 0..Interval
    /\ phase \in Phases /\ left \in Nat

\* The failures are kept oldest first, and a closed breaker is below its
\* threshold: that makes the pruned part a prefix.
FailuresInOrder ==
    /\ \A i, j \in DOMAIN ages : i <= j => ages[i] >= ages[j]
    /\ Len(ages) <= Threshold
    /\ ~open => Len(ages) < Threshold

\* acquire(): last_request_time is when the last call went through, and who
\* sleeps in the limiter sleeps until Interval has passed since.
Stamped ==
    /\ gap = since
    /\ phase = "sleep" => since + nap >= Interval
=============================================================================
