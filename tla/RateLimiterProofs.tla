-------------------------- MODULE RateLimiterProofs --------------------------
(***************************************************************************)
(* Proofs about the token bucket, for any rate, capacity and requests.     *)
(***************************************************************************)
EXTENDS RateLimiter, TLAPS

(* What the bucket holds, refilled to this moment, counts against the      *)
(* window like the tokens already handed out.                              *)
WindowInv ==
    taken + Refilled(tokens, now - last) <= Capacity + Rate * (now - since)

IInv == TypeOK /\ WindowInv

(* A refill keeps the bucket between what it held and its capacity.        *)
LEMMA RefilledBounds ==
    ASSUME NEW h \in 0 .. Capacity, NEW e \in Nat
    PROVE  Refilled(h, e) \in h .. Capacity
<1>1. e * Rate \in Nat
  BY RateAssumption
<1>2. QED
  BY <1>1, RateAssumption DEF Refilled

(* A tick adds at most Rate to what the next refill will find.             *)
LEMMA RefilledTick ==
    ASSUME NEW h \in 0 .. Capacity, NEW e \in Nat
    PROVE  Refilled(h, e + 1) <= Refilled(h, e) + Rate
<1>1. e * Rate \in Nat /\ (e + 1) * Rate = e * Rate + Rate /\ Rate \in Nat
  BY RateAssumption
<1>2. QED
  BY <1>1, RateAssumption DEF Refilled

(* A bucket that was just refilled is its own refill.                      *)
LEMMA RefilledNow ==
    ASSUME NEW h \in 0 .. Capacity
    PROVE  Refilled(h, 0) = h
<1>1. 0 * Rate = 0
  BY RateAssumption
<1>2. QED
  BY <1>1, RateAssumption DEF Refilled

(* A full bucket, nothing handed out.                                      *)
LEMMA InitInv == Init => IInv
<1> SUFFICES ASSUME Init PROVE IInv
  OBVIOUS
<1>1. TypeOK
  BY RateAssumption DEF Init, TypeOK
<1>2. Refilled(Capacity, 0) = Capacity /\ Rate * 0 = 0
  BY RefilledNow, RateAssumption
<1>3. WindowInv
  <2>1. now - last = 0 /\ now - since = 0
    BY DEF Init
  <2>2. QED
    BY <1>2, <2>1, RateAssumption DEF Init, WindowInv
<1>4. QED
  BY <1>1, <1>3 DEF IInv

(* Taking moves tokens from the bucket to the window; refilling, ticking   *)
(* and opening a new window keep the sum below the bound.                  *)
LEMMA NextInv == IInv /\ [Next]_vars => IInv'
<1> SUFFICES ASSUME IInv, [Next]_vars PROVE IInv'
  OBVIOUS
<1> DEFINE have == Refilled(tokens, now - last)
<1> USE RateAssumption, RequestsAssumption
<1>0. /\ tokens \in 0 .. Capacity /\ now - last \in Nat /\ now \in Nat
      /\ last \in 0 .. now /\ since \in 0 .. now /\ taken \in Nat
      /\ now - since \in Nat /\ Rate \in Nat /\ Capacity \in Nat
      /\ n \in Nat /\ wake \in Nat
  BY DEF IInv, TypeOK
<1>1. have \in tokens .. Capacity
  BY <1>0, RefilledBounds
<1>2. taken + have <= Capacity + Rate * (now - since)
  BY DEF IInv, WindowInv
<1>3. Rate * (now - since) \in Nat
  BY <1>0
<1> HIDE DEF have
<1>4. ASSUME NEW m \in Nat, Take(m), now' = now, since' = since
      PROVE  /\ tokens' \in 0 .. Capacity /\ last' \in 0 .. now /\ taken' \in Nat
             /\ WindowInv'
  <2>1. /\ tokens' = have - m /\ have >= m /\ taken' = taken + m /\ last' = now
    BY <1>4 DEF Take, have
  <2>2. tokens' \in 0 .. Capacity /\ taken' \in Nat
    BY <1>0, <1>1, <2>1
  <2>3. Refilled(tokens', 0) = tokens'
    BY <2>2, RefilledNow
  <2>4. now' - last' = 0
    BY <1>0, <1>4, <2>1
  <2>5. taken' + tokens' <= Capacity + Rate * (now - since)
    BY <1>0, <1>1, <1>2, <1>3, <2>1
  <2>6. WindowInv'
    BY <1>4, <2>3, <2>4, <2>5 DEF WindowInv
  <2>7. QED
    BY <1>0, <2>1, <2>2, <2>6
<1>5. ASSUME NEW m \in Nat, TakeFails(m), now' = now, since' = since
      PROVE  /\ tokens' \in 0 .. Capacity /\ last' \in 0 .. now /\ taken' \in Nat
             /\ WindowInv'
  <2>1. tokens' = have /\ taken' = taken /\ last' = now
    BY <1>5 DEF TakeFails, have
  <2>2. tokens' \in 0 .. Capacity /\ taken' \in Nat
    BY <1>0, <1>1, <2>1
  <2>3. Refilled(tokens', 0) = tokens' /\ now' - last' = 0
    BY <1>0, <1>5, <2>1, <2>2, RefilledNow
  <2>4. WindowInv'
    BY <1>2, <1>5, <2>1, <2>3 DEF WindowInv
  <2>5. QED
    BY <1>0, <2>1, <2>2, <2>4
<1>6. CASE try_take
  <2>1. PICK m \in Requests : Take(m) \/ TakeFails(m)
    BY <1>6 DEF try_take
  <2>2. m \in Nat /\ UNCHANGED <<now, pc, n, wake, since>>
    BY <1>6 DEF try_take, caller
  <2>3. QED
    BY <1>0, <1>4, <1>5, <2>1, <2>2 DEF IInv, TypeOK
<1>7. CASE acquire
  BY <1>0, <1>7 DEF acquire, IInv, TypeOK, WindowInv, bucket, window
<1>8. CASE AcquireTakes
  <2>1. Take(n) /\ UNCHANGED <<now, wake, since>> /\ pc' = "idle" /\ n' = 0
    BY <1>8 DEF AcquireTakes
  <2>2. QED
    BY <1>0, <1>4, <2>1 DEF IInv, TypeOK
<1>9. CASE AcquireSleeps
  <2>1. TakeFails(n) /\ UNCHANGED <<now, n, since>> /\ pc' = "sleep"
    BY <1>9 DEF AcquireSleeps
  <2>2. /\ tokens' \in 0 .. Capacity /\ last' \in 0 .. now /\ taken' \in Nat
        /\ WindowInv'
    BY <1>0, <1>5, <2>1
  <2>3. n > tokens'
    BY <2>1 DEF TakeFails
  <2>4. n - tokens' + Rate - 1 \in Nat
    <3>1. tokens' \in Nat /\ Rate >= 1
      BY <1>0, <2>2
    <3>2. \A a, b, r \in Nat : a > b /\ r >= 1 => a - b + r - 1 \in Nat
      OBVIOUS
    <3>3. QED
      BY <1>0, <2>3, <3>1, <3>2, Zenon
  <2>5. wake' \in Nat
    <3>1. \A x \in Nat : x \div Rate \in Nat
      BY SMT
    <3>2. wake' = now + (n - tokens' + Rate - 1) \div Rate
      BY <1>9 DEF AcquireSleeps
    <3>3. QED
      BY <1>0, <2>4, <3>1, <3>2
  <2>6. QED
    BY <1>0, <2>1, <2>2, <2>5 DEF IInv, TypeOK
<1>10. CASE AcquireWakes
  BY <1>0, <1>10 DEF AcquireWakes, IInv, TypeOK, WindowInv, bucket, window
<1>11. CASE AcquireDropped
  BY <1>0, <1>11 DEF AcquireDropped, IInv, TypeOK, WindowInv, bucket, window
<1>12. CASE Tick
  <2>1. /\ now' = now + 1 /\ tokens' = tokens /\ last' = last /\ taken' = taken
        /\ since' = since /\ TypeOK'
    BY <1>0, <1>12 DEF Tick, IInv, TypeOK, bucket, window, caller
  <2>2. now' - last' = (now - last) + 1 /\ now' - since' = (now - since) + 1
    BY <1>0, <2>1
  <2>3. Refilled(tokens, (now - last) + 1) <= have + Rate
    BY <1>0, RefilledTick DEF have
  <2>4. Rate * ((now - since) + 1) = Rate * (now - since) + Rate
    BY <1>0
  <2>5. Refilled(tokens, (now - last) + 1) \in Nat
    <3>1. Refilled(tokens, (now - last) + 1) \in tokens .. Capacity
      BY <1>0, RefilledBounds
    <3>2. QED
      BY <1>0, <3>1
  <2>6. taken + Refilled(tokens, (now - last) + 1)
           <= Capacity + Rate * ((now - since) + 1)
    BY <1>0, <1>1, <1>2, <1>3, <2>3, <2>4, <2>5
  <2>7. WindowInv'
    BY <2>1, <2>2, <2>6 DEF WindowInv
  <2>8. QED
    BY <2>1, <2>7 DEF IInv
<1>13. CASE Observe
  <2>1. /\ now' = now /\ tokens' = tokens /\ last' = last /\ taken' = 0
        /\ since' = now /\ TypeOK'
    BY <1>0, <1>13 DEF Observe, IInv, TypeOK, bucket, caller
  <2>2. now' - since' = 0 /\ Rate * 0 = 0
    BY <1>0, <2>1
  <2>3. have <= Capacity /\ 0 + have = have /\ Capacity + 0 = Capacity
    BY <1>0, <1>1
  <2>4. Refilled(tokens', now' - last') = have
    BY <2>1 DEF have
  <2>5. WindowInv'
    BY <2>1, <2>2, <2>3, <2>4 DEF WindowInv
  <2>6. QED
    BY <2>1, <2>5 DEF IInv
<1>14. CASE UNCHANGED vars
  BY <1>0, <1>14
  DEF vars, bucket, caller, window, IInv, TypeOK, WindowInv
<1>15. QED
  BY <1>6, <1>7, <1>8, <1>9, <1>10, <1>11, <1>12, <1>13, <1>14
  DEF Next, AcquireStep

(* The bucket is never overdrawn and never overfull.                       *)
THEOREM BucketInRange == Spec => []TypeOK
<1>1. IInv => TypeOK
  BY DEF IInv
<1>2. QED
  BY InitInv, NextInv, <1>1, PTL DEF Spec

(* From any moment on, the limiter hands out at most one burst of capacity *)
(* and the tokens that accrue at its rate.                                 *)
THEOREM RateIsKept == Spec => []WindowBound
<1>1. IInv => WindowBound
  <2> SUFFICES ASSUME IInv PROVE WindowBound
    OBVIOUS
  <2>1. /\ tokens \in 0 .. Capacity /\ now - last \in Nat /\ taken \in Nat
        /\ now - since \in Nat /\ Rate \in Nat /\ Capacity \in Nat
    BY RateAssumption DEF IInv, TypeOK
  <2>2. Refilled(tokens, now - last) \in tokens .. Capacity
    BY <2>1, RefilledBounds, Zenon
  <2>3. Rate * (now - since) \in Nat
    BY <2>1
  <2>4. taken + Refilled(tokens, now - last) <= Capacity + Rate * (now - since)
    BY DEF IInv, WindowInv
  <2>5. QED
    BY <2>1, <2>2, <2>3, <2>4 DEF WindowBound
<1>2. QED
  BY InitInv, NextInv, <1>1, PTL DEF Spec

-----------------------------------------------------------------------------
(* While acquire sleeps nobody touches the bucket, and the sleep is long   *)
(* enough for what was missing when it began.                              *)
SleepInv ==
    pc = "sleep" => wake - last \in Nat /\ tokens + (wake - last) * Rate >= n

(* Rounding up: d ticks bring at least the x tokens that were missing.     *)
LEMMA RoundedUp ==
    ASSUME NEW x \in Nat
    PROVE  LET d == (x + Rate - 1) \div Rate IN d \in Nat /\ d * Rate >= x
<1>1. PICK q : q = (x + Rate - 1) \div Rate
  OBVIOUS
<1>2. x + Rate - 1 \in Nat /\ Rate \in Nat \ {0}
  BY RateAssumption
<1>3. q \in Nat /\ x + Rate - 1 < q * Rate + Rate
  BY <1>1, <1>2
<1>4. q * Rate \in Nat
  BY <1>2, <1>3
<1>5. q * Rate >= x
  BY <1>2, <1>3, <1>4
<1>6. QED
  BY <1>1, <1>3, <1>5

(* Only the start of a sleep sets its end, and only its end lets others    *)
(* use the bucket again.                                                   *)
LEMMA SleepStep == IInv /\ SleepInv /\ [Next]_vars => SleepInv'
<1> SUFFICES ASSUME IInv, SleepInv, [Next]_vars, pc' = "sleep"
             PROVE  wake' - last' \in Nat /\ tokens' + (wake' - last') * Rate >= n'
  BY DEF SleepInv
<1>1. CASE AcquireSleeps
  <2>1. /\ last' = now /\ n' = n /\ tokens' = Refilled(tokens, now - last)
        /\ wake' = now + (n - tokens' + Rate - 1) \div Rate /\ tokens' < n
    BY <1>1 DEF AcquireSleeps, TakeFails
  <2>2. tokens' \in Nat /\ n \in Nat /\ now \in Nat
    <3>1. tokens \in 0 .. Capacity /\ now - last \in Nat /\ n \in Nat /\ now \in Nat
      BY RateAssumption DEF IInv, TypeOK
    <3>2. Refilled(tokens, now - last) \in tokens .. Capacity
      BY <3>1, RefilledBounds, Zenon
    <3>3. QED
      BY <2>1, <3>1, <3>2, RateAssumption
  <2>3. PICK x \in Nat : x = n - tokens'
    BY <2>1, <2>2
  <2>4. PICK d \in Nat : d = (x + Rate - 1) \div Rate /\ d * Rate >= x
    BY RoundedUp, Zenon
  <2>5. wake' = now + d
    BY <2>1, <2>3, <2>4
  <2>6. wake' - last' = d
    BY <2>1, <2>2, <2>5
  <2>7. d * Rate \in Nat
    BY RateAssumption
  <2>8. tokens' + d * Rate >= n
    BY <2>2, <2>3, <2>4, <2>7
  <2>9. QED
    BY <2>1, <2>6, <2>8
<1>2. CASE Tick \/ Observe \/ try_take \/ UNCHANGED vars
  <2>1. UNCHANGED <<bucket, caller>>
    BY <1>2 DEF Tick, Observe, try_take, vars, caller
  <2>2. QED
    BY <2>1 DEF SleepInv, bucket, caller
<1>3. CASE acquire \/ AcquireTakes \/ AcquireWakes \/ AcquireDropped
  BY <1>3 DEF acquire, AcquireTakes, AcquireWakes, AcquireDropped
<1>4. QED
  BY <1>1, <1>2, <1>3 DEF Next, AcquireStep

(* acquire of an amount that the bucket can hold sleeps at most once: when *)
(* it wakes, however late, the tokens it asked for are there.              *)
THEOREM OneSleepIsEnough == Spec => SleepsOnce
<1>1. Init => SleepInv
  BY DEF Init, SleepInv
<1>2. ASSUME IInv, SleepInv, AcquireWakes, n <= Capacity
      PROVE  Refilled(tokens, now - last) >= n
  <2>1. /\ tokens \in Nat /\ now \in Nat /\ last \in Nat /\ last <= now /\ wake \in Nat
        /\ n \in Nat /\ Rate \in Nat /\ Capacity \in Nat
    BY <1>2, RateAssumption DEF IInv, TypeOK
  <2>2. /\ wake - last \in Nat /\ tokens + (wake - last) * Rate >= n /\ now >= wake
    BY <1>2 DEF SleepInv, AcquireWakes
  <2>3. PICK d \in Nat, e \in Nat : d = wake - last /\ e = now - last
    BY <2>1, <2>2
  <2>4. d <= e
    BY <2>1, <2>2, <2>3
  <2>5. d * Rate <= e * Rate /\ d * Rate \in Nat /\ e * Rate \in Nat
    <3>1. PICK f \in Nat : e = d + f
      BY <2>4
    <3>2. e * Rate = d * Rate + f * Rate
      BY <2>1, <3>1
    <3>3. f * Rate \in Nat /\ d * Rate \in Nat
      BY <2>1
    <3>4. QED
      BY <3>2, <3>3
  <2>6. tokens + e * Rate >= n
    BY <2>1, <2>2, <2>3, <2>5
  <2>7. QED
    BY <1>2, <2>1, <2>3, <2>5, <2>6 DEF Refilled
<1>3. IInv /\ SleepInv /\ [Next]_vars
      => [AcquireWakes /\ n <= Capacity => Refilled(tokens, now - last) >= n]_vars
  BY <1>2
<1>4. QED
  BY <1>1, <1>3, SleepStep, InitInv, NextInv, PTL DEF Spec, SleepsOnce
=============================================================================
