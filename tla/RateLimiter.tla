----------------------------- MODULE RateLimiter -----------------------------
(***************************************************************************)
(* RateLimiter (bandwidth.rs): a token bucket that refills with time.  The *)
(* bucket is behind &mut self, so one caller uses it at a time, with       *)
(* try_take or with acquire, which retries after a sleep.  Time is counted *)
(* in ticks and tokens are whole; sleeps may end late.                     *)
(***************************************************************************)
EXTENDS Integers

CONSTANTS
    Rate,      \* tokens per tick
    Capacity,  \* the most the bucket holds
    Requests,  \* the amounts callers ask for
    MaxTime    \* bound: the clock stops here

ASSUME RateAssumption == Rate \in Nat \ {0} /\ Capacity \in Nat
ASSUME RequestsAssumption == Requests \subseteq Nat /\ MaxTime \in Nat

VARIABLES
    tokens, last,  \* the bucket
    now,           \* the clock
    pc, n, wake,   \* the caller: what it does, asks for, sleeps until
    taken, since   \* history: the tokens handed out since some moment

bucket == <<tokens, last>>
caller == <<pc, n, wake>>
window == <<taken, since>>
vars == <<bucket, now, caller, window>>

Init ==
    /\ tokens = Capacity /\ last = 0
    /\ now = 0
    /\ pc = "idle" /\ n = 0 /\ wake = 0
    /\ taken = 0 /\ since = 0

Refilled(have, elapsed) ==
    IF have + elapsed * Rate < Capacity THEN have + elapsed * Rate
    ELSE Capacity

(* Mutants of Take: the tokens are not compared, the refill is not dated.  *)
TakeUnchecked(m) ==
    /\ last' = now
    /\ tokens' = Refilled(tokens, now - last) - m
    /\ taken' = taken + m
TakeUndated(m) ==
    /\ UNCHANGED last
    /\ Refilled(tokens, now - last) >= m
    /\ tokens' = Refilled(tokens, now - last) - m
    /\ taken' = taken + m

(* try_take: refill, then take m tokens if they are there.                 *)
Take(m) ==
    /\ last' = now
    /\ Refilled(tokens, now - last) >= m
    /\ tokens' = Refilled(tokens, now - last) - m
    /\ taken' = taken + m

TakeFails(m) ==
    /\ last' = now
    /\ Refilled(tokens, now - last) < m
    /\ tokens' = Refilled(tokens, now - last)
    /\ UNCHANGED taken

try_take == \E m \in Requests :
    /\ pc = "idle"
    /\ Take(m) \/ TakeFails(m)
    /\ UNCHANGED <<now, caller, since>>

acquire == \E m \in Requests :
    /\ pc = "idle"
    /\ pc' = "try" /\ n' = m
    /\ UNCHANGED <<bucket, now, wake, window>>

AcquireTakes ==
    /\ pc = "try"
    /\ Take(n)
    /\ pc' = "idle" /\ n' = 0
    /\ UNCHANGED <<now, wake, since>>

(* Mutants of AcquireSleeps: the time is rounded down, or multiplied.      *)
AcquireSleepsShort ==
    /\ pc = "try"
    /\ TakeFails(n)
    /\ pc' = "sleep"
    /\ wake' = now + (n - tokens') \div Rate
    /\ UNCHANGED <<now, n, since>>
AcquireSleepsLong ==
    /\ pc = "try"
    /\ TakeFails(n)
    /\ pc' = "sleep"
    /\ wake' = now + (n - tokens') * Rate
    /\ UNCHANGED <<now, n, since>>

(* Sleep for the time the missing tokens need, and for some time at least. *)
AcquireSleeps ==
    /\ pc = "try"
    /\ TakeFails(n)
    /\ pc' = "sleep"
    /\ wake' = now + (n - tokens' + Rate - 1) \div Rate
    /\ UNCHANGED <<now, n, since>>

AcquireWakes ==
    /\ pc = "sleep"
    /\ now >= wake
    /\ pc' = "try" /\ wake' = 0
    /\ UNCHANGED <<bucket, now, n, window>>

(* The caller drops the future of acquire while it sleeps.                 *)
AcquireDropped ==
    /\ pc = "sleep"
    /\ pc' = "idle" /\ n' = 0 /\ wake' = 0
    /\ UNCHANGED <<bucket, now, window>>

Tick ==
    /\ now < MaxTime
    /\ now' = now + 1
    /\ UNCHANGED <<bucket, caller, window>>

(* History only: the window may start at any moment.                       *)
Observe ==
    /\ since' = now /\ taken' = 0
    /\ UNCHANGED <<bucket, now, caller>>

AcquireStep == AcquireTakes \/ AcquireSleeps \/ AcquireWakes

Next == try_take \/ acquire \/ AcquireStep \/ AcquireDropped \/ Tick \/ Observe

(* tokio polls a ready task and fires an elapsed timer; the clock runs.    *)
Spec == Init /\ [][Next]_vars
FairSpec == Spec /\ WF_vars(AcquireStep) /\ WF_vars(Tick)

-----------------------------------------------------------------------------
(* The bucket is never overdrawn and never overfull.                       *)
TypeOK ==
    /\ tokens \in 0 .. Capacity
    /\ now \in Nat /\ last \in 0 .. now /\ since \in 0 .. now
    /\ pc \in {"idle", "try", "sleep"}
    /\ n \in Nat /\ wake \in Nat /\ taken \in Nat

(* "Bursts up to `capacity` are allowed, but the long-term average is      *)
(* `rate`" (bandwidth.rs): from any moment on, the tokens handed out are   *)
(* at most one burst and what accrues since.                               *)
WindowBound == taken <= Capacity + Rate * (now - since)

(* acquire waits just long enough: the try after its first sleep succeeds. *)
(* (An amount above the capacity is never there.)                          *)
SleepsOnce ==
    [][AcquireWakes /\ n <= Capacity => Refilled(tokens, now - last) >= n]_vars

(* The time that the bucket takes to fill.                                 *)
Horizon == Capacity \div Rate + 1

(* acquire of an amount that the bucket can hold returns, however callers  *)
(* before it left the bucket.                                              *)
AcquireReturns ==
    pc = "try" /\ n <= Capacity /\ now + Horizon <= MaxTime ~> pc = "idle"
=============================================================================
