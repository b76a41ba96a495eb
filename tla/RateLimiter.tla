----------------------------- MODULE RateLimiter -----------------------------
(***************************************************************************)
(* SlidingWindowRateLimiter (core/src/rate_limiter.rs), which the HTTP     *)
(* server asks before it serves a search.  allow runs under a mutex and    *)
(* reads a monotonic clock inside it, so a call is one step and calls come *)
(* in clock order.  A second is Second units of that clock.                *)
(***************************************************************************)
EXTENDS Naturals, Sequences

CONSTANTS
  MaxPerSecond, \* max_per_second
  Second,       \* resolution of the clock
  MaxTime       \* bound on the clock, for TLC

ASSUME LimiterAssumption ==
  /\ MaxPerSecond \in Nat
  /\ Second \in Nat \ {0}
  /\ MaxTime \in Nat

VARIABLES
  now,          \* Instant::now()
  timestamps,   \* the VecDeque
  granted       \* history: the times of all calls allowed so far

limiterVars == <<now, timestamps, granted>>

LimiterInit == now = 0 /\ timestamps = <<>> /\ granted = <<>>

Tick ==
  /\ now < MaxTime
  /\ now' = now + 1
  /\ UNCHANGED <<timestamps, granted>>

(* duration_since(t).as_secs() >= 1 *)
TooOld(t) == now - t >= Second

(* Mutant: at most one timestamp is popped, with "if" for "while". *)
PoppedOnce(s) == IF s # <<>> /\ TooOld(Head(s)) THEN Tail(s) ELSE s

(* The loop pops old timestamps off the front and stops at the first that  *)
(* is not.                                                                 *)
Popped(s) ==
  LET keep == {i \in 1 .. Len(s) : \E j \in 1 .. i : ~ TooOld(s[j])}
  IN  IF keep = {} THEN <<>>
      ELSE SubSeq(s, CHOOSE i \in keep : \A j \in keep : i <= j, Len(s))

Allow ==
  /\ Len(Popped(timestamps)) < MaxPerSecond
  /\ timestamps' = Append(Popped(timestamps), now)
  /\ granted' = Append(granted, now)
  /\ UNCHANGED now

Deny ==
  /\ ~ Len(Popped(timestamps)) < MaxPerSecond
  /\ timestamps' = Popped(timestamps)
  /\ UNCHANGED <<now, granted>>

LimiterNext == Tick \/ Allow \/ Deny

LimiterSpec == LimiterInit /\ [][LimiterNext]_limiterVars

-----------------------------------------------------------------------------
(* "allows up to max_per_second requests in any rolling 1-second window":  *)
(* no MaxPerSecond + 1 grants, wherever the window is laid, lie less than  *)
(* a second apart.                                                         *)
RollingWindow ==
  \A i \in 1 .. Len(granted) : i + MaxPerSecond <= Len(granted)
    => granted[i + MaxPerSecond] - granted[i] >= Second

(* RollingWindow holds, and a call is turned away only because of grants   *)
(* of the last second: the deque, once the front is popped, is the end of  *)
(* the grants from the first one that is not older.                        *)
WindowIsExact ==
  /\ RollingWindow
  /\ \E k \in 0 .. Len(granted) :
       /\ Popped(timestamps) = SubSeq(granted, k + 1, Len(granted))
       /\ \A i \in 1 .. Len(granted) : TooOld(granted[i]) <=> i <= k
=============================================================================
