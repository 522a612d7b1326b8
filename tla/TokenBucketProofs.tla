------------------------- MODULE TokenBucketProofs -------------------------
(***************************************************************************)
(* Proofs about TokenBucket for any number of threads, any capacity and    *)
(* refill rate, any width of the fields and any clock.                     *)
(*                                                                         *)
(* Conservation is inductive once the types and the burst ceiling are      *)
(* known: a successful compare_exchange replaces fp by at most             *)
(* fp + rate * elapsed - One and adds One to what was granted, and the     *)
(* timestamp grows by elapsed, or falls by exactly what rewound gains.     *)
(* The rate limit then needs one more fact: as long as the clock was never *)
(* set back, nobody holds a reading from the future.                       *)
(***************************************************************************)
EXTENDS TokenBucket, TLAPS

(***************************************************************************)
(* Without a clock step back, readings and the stored timestamp are past.  *)
(***************************************************************************)
NoFutureReading ==
    stepsBack = 0 => /\ state.ts <= clock
                     /\ \A t \in Threads : now[t] <= clock

IInv == TypeOK /\ BurstCeiling /\ Conservation /\ NoFutureReading

(***************************************************************************)
(* The refill of a + b seconds is the refill of a and the refill of b.     *)
(***************************************************************************)
LEMMA RefillSplits ==
    ASSUME NEW r \in Nat, NEW a \in Int, NEW b \in Int
    PROVE  r * (a + b) = r * a + r * b
  OBVIOUS

(***************************************************************************)
(* More seconds never refill less.                                         *)
(***************************************************************************)
LEMMA RefillGrows ==
    ASSUME NEW r \in Nat, NEW a \in Int, NEW b \in Int, a <= b
    PROVE  r * a <= r * b
<1>1. r * (b - a) >= 0
  BY SMT
<1>2. r * b = r * a + r * (b - a)
  BY RefillSplits
<1> QED
  BY <1>1, <1>2

(***************************************************************************)
(* The fixed-point capacity fits the 32-bit field, and holds one token     *)
(* unless it is 0.                                                         *)
(***************************************************************************)
LEMMA CapFpBounds == CapFp \in Nat /\ (Capacity > 0 => One <= CapFp) /\ CapFp <= U32Max
  BY BucketAssumption DEF CapFp, Min2, One

(***************************************************************************)
(* What allow() computes before it compares and swaps: a count within the  *)
(* capacity, at most the old count plus the refill of the elapsed seconds. *)
(***************************************************************************)
LEMMA RefilledBounds ==
    ASSUME NEW w \in Word, NEW n \in 0..MaxTime
    PROVE  /\ Refilled(w, n) \in 0..CapFp
           /\ Refilled(w, n) <= w.fp + (RefillRate * One) * SaturatingSub(n, w.ts)
<1> DEFINE elapsed == SaturatingSub(n, w.ts)
           earned  == (RefillRate * One) * elapsed
<1>1. elapsed \in Nat
  BY BucketAssumption DEF SaturatingSub, Word
<1>2. RefillRate * One \in Nat
  BY BucketAssumption DEF One
<1>3. earned \in Nat /\ earned = elapsed * (RefillRate * One)
  BY <1>1, <1>2
<1>4. w.fp \in Nat
  BY DEF Word
<1> HIDE DEF elapsed, earned
<1>5. Refilled(w, n) = Min2(Min2(w.fp + Min2(earned, U32Max), U32Max), CapFp)
  BY <1>3 DEF Refilled, elapsed
<1>6. /\ Min2(Min2(w.fp + Min2(earned, U32Max), U32Max), CapFp) \in 0..CapFp
      /\ Min2(Min2(w.fp + Min2(earned, U32Max), U32Max), CapFp) <= w.fp + earned
  BY <1>3, <1>4, CapFpBounds, BucketAssumption DEF Min2
<1> QED
  BY <1>5, <1>6 DEF elapsed, earned

(***************************************************************************)
(* With a rate of at least one token per second, a reading later than the  *)
(* stored timestamp always finds a whole token.                            *)
(***************************************************************************)
LEMMA NewSecondHasToken ==
    ASSUME Capacity > 0, RefillRate > 0, NEW w \in Word, NEW n \in 0..MaxTime, w.ts < n
    PROVE  Refilled(w, n) >= One
<1> DEFINE elapsed == SaturatingSub(n, w.ts)
           earned  == elapsed * (RefillRate * One)
<1>1. elapsed \in Nat \ {0}
  BY BucketAssumption DEF SaturatingSub, Word
<1>2. RefillRate * One \in Nat /\ RefillRate * One >= One
  BY BucketAssumption DEF One
<1>3. earned \in Nat /\ earned >= One
  <2> HIDE DEF elapsed
  <2>1. (RefillRate * One) * 1 <= (RefillRate * One) * elapsed
    BY <1>1, <1>2, RefillGrows
  <2> QED
    BY <1>1, <1>2, <2>1 DEF One
<1> HIDE DEF elapsed, earned
<1>4. Refilled(w, n) = Min2(Min2(w.fp + Min2(earned, U32Max), U32Max), CapFp)
  BY DEF Refilled, elapsed, earned
<1>5. w.fp \in Nat
  BY DEF Word
<1> QED
  BY <1>3, <1>4, <1>5, CapFpBounds, BucketAssumption DEF Min2, One

----------------------------------------------------------------------------
(***************************************************************************)
(* A new bucket is full and nobody has a clock reading yet, so the         *)
(* inductive invariant holds initially (TokenBucket::new).                 *)
(***************************************************************************)
LEMMA InitIInv == Init => IInv
<1> SUFFICES ASSUME Init PROVE IInv
  OBVIOUS
<1>1. NoWord \in Word /\ [ts |-> 0, fp |-> CapFp] \in Word
  BY CapFpBounds, BucketAssumption DEF NoWord, Word
<1>2. TypeOK
  BY <1>1, BucketAssumption DEF Init, TypeOK
<1>3. BurstCeiling
  BY CapFpBounds DEF Init, BurstCeiling
<1>4. Conservation
  <2>1. (RefillRate * One) * (0 + 0) = 0
    BY BucketAssumption DEF One
  <2> QED
    BY <2>1, CapFpBounds DEF Init, Conservation, One
<1>5. NoFutureReading
  BY DEF Init, NoFutureReading
<1> QED
  BY <1>2, <1>3, <1>4, <1>5 DEF IInv

(***************************************************************************)
(* The step that matters: a successful compare_exchange.                   *)
(***************************************************************************)
LEMMA CasOkPreserves ==
    ASSUME IInv, NEW t \in Threads, CasOk(t)
    PROVE  IInv'
<1> DEFINE r     == RefillRate * One
           left  == Refilled(old[t], now[t])
           spent == SaturatingSub(now[t], state.ts)
           back  == SaturatingSub(state.ts, now[t])
<1>1. /\ TypeOK /\ BurstCeiling /\ Conservation /\ NoFutureReading
      /\ pc[t] = "cas" /\ state = old[t]
      /\ state' = [ts |-> now[t], fp |-> left - One]
      /\ granted' = granted + 1
      /\ rewound' = rewound + back
      /\ pc' = [pc EXCEPT ![t] = "idle"]
      /\ now' = [now EXCEPT ![t] = 0]
      /\ old' = [old EXCEPT ![t] = NoWord]
      /\ UNCHANGED <<clock, stepsBack>>
  BY DEF IInv, CasOk, Return
<1>2. /\ now[t] \in 0..MaxTime /\ state \in Word /\ old[t] \in Word
      /\ state.ts \in 0..MaxTime /\ state.fp \in 0..U32Max
      /\ granted \in Nat /\ rewound \in Nat
  BY <1>1 DEF TypeOK, Word
<1>3. /\ left \in 0..CapFp
      /\ left <= state.fp + r * spent
      /\ One <= left
  <2>1. left \in 0..CapFp /\ left <= state.fp + r * spent
    BY <1>1, <1>2, RefilledBounds
  <2>2. left >= One
    BY <1>1 DEF BurstCeiling
  <2> QED
    BY <2>1, <2>2, CapFpBounds DEF One
<1>4. /\ spent \in Nat /\ back \in Nat
      /\ state.ts + spent = now[t] + back
  BY <1>2, BucketAssumption DEF SaturatingSub
<1>5. r \in Nat
  BY BucketAssumption DEF One
<1> HIDE DEF r, left, spent, back
<1>6. left - One \in 0..U32Max /\ left - One <= CapFp
  BY <1>3, CapFpBounds, BucketAssumption DEF One
<1>7. TypeOK'
  <2>1. state' \in Word
    BY <1>1, <1>2, <1>6 DEF Word
  <2>2. NoWord \in Word
    BY BucketAssumption DEF NoWord, Word
  <2>3. granted' \in Nat /\ rewound' \in Nat
    BY <1>1, <1>2, <1>4
  <2> QED
    BY <1>1, <2>1, <2>2, <2>3, BucketAssumption DEF TypeOK
<1>8. BurstCeiling'
  <2>1. state'.fp <= CapFp
    BY <1>1, <1>6
  <2>2. \A u \in Threads : pc'[u] = "cas" => Refilled(old'[u], now'[u]) >= One
    BY <1>1 DEF TypeOK, BurstCeiling
  <2> QED
    BY <2>1, <2>2 DEF BurstCeiling, Refilled, CapFp
<1>9. Conservation'
  <2>1. r * (state.ts + rewound) + r * spent = r * (now[t] + (rewound + back))
    <3>1. r * (state.ts + rewound) + r * spent = r * ((state.ts + rewound) + spent)
      BY <1>2, <1>4, <1>5, RefillSplits
    <3>2. (state.ts + rewound) + spent = now[t] + (rewound + back)
      BY <1>2, <1>4
    <3> QED
      BY <3>1, <3>2
  <2>2. granted * One + state.fp <= CapFp + r * (state.ts + rewound)
    BY <1>1 DEF Conservation, r
  <2>3. /\ r * (state.ts + rewound) \in Int /\ r * spent \in Int
        /\ r * (now[t] + (rewound + back)) \in Int
    BY <1>2, <1>4, <1>5
  <2>4. (granted + 1) * One + (left - One) <= CapFp + r * (now[t] + (rewound + back))
    BY <1>2, <1>3, <2>1, <2>2, <2>3, CapFpBounds DEF One
  <2> QED
    BY <1>1, <2>4 DEF Conservation, r, CapFp
<1>10. NoFutureReading'
  BY <1>1, <1>2 DEF NoFutureReading, TypeOK
<1> QED
  BY <1>7, <1>8, <1>9, <1>10 DEF IInv

(***************************************************************************)
(* Every other step leaves the word and the accounts alone.                *)
(***************************************************************************)
LEMMA StepPreserves == IInv /\ [Next]_vars => IInv'
<1> SUFFICES ASSUME IInv, [Next]_vars PROVE IInv'
  OBVIOUS
<1> USE BucketAssumption
<1>1. NoWord \in Word
  BY DEF NoWord, Word
<1>2. ASSUME NEW t \in Threads, Call(t) PROVE IInv'
  <2>1. TypeOK'
    BY <1>2 DEF IInv, TypeOK, Call
  <2>2. BurstCeiling' /\ Conservation'
    BY <1>2 DEF IInv, TypeOK, BurstCeiling, Conservation, Call, Refilled, CapFp
  <2>3. NoFutureReading'
    BY <1>2 DEF IInv, TypeOK, NoFutureReading, Call
  <2> QED
    BY <2>1, <2>2, <2>3 DEF IInv
<1>3. ASSUME NEW t \in Threads, Load(t) PROVE IInv'
  <2>1. TypeOK'
    BY <1>3 DEF IInv, TypeOK, Load
  <2>2. BurstCeiling' /\ Conservation'
    BY <1>3 DEF IInv, TypeOK, BurstCeiling, Conservation, Load, Refilled, CapFp
  <2>3. NoFutureReading'
    BY <1>3 DEF IInv, TypeOK, NoFutureReading, Load
  <2> QED
    BY <2>1, <2>2, <2>3 DEF IInv
<1>4. ASSUME NEW t \in Threads, Reject(t) PROVE IInv'
  <2>1. TypeOK'
    BY <1>1, <1>4 DEF IInv, TypeOK, Reject, Return
  <2>2. BurstCeiling' /\ Conservation'
    BY <1>4 DEF IInv, TypeOK, BurstCeiling, Conservation, Reject, Return, Refilled, CapFp
  <2>3. NoFutureReading'
    BY <1>4 DEF IInv, TypeOK, NoFutureReading, Reject, Return
  <2> QED
    BY <2>1, <2>2, <2>3 DEF IInv
<1>5. ASSUME NEW t \in Threads, CasOk(t) PROVE IInv'
  BY <1>5, CasOkPreserves
<1>6. ASSUME NEW t \in Threads, CasErr(t) PROVE IInv'
  <2>1. TypeOK'
    BY <1>1, <1>6 DEF IInv, TypeOK, CasErr
  <2>2. BurstCeiling' /\ Conservation'
    BY <1>6 DEF IInv, TypeOK, BurstCeiling, Conservation, CasErr, Refilled, CapFp
  <2>3. NoFutureReading'
    BY <1>6 DEF IInv, TypeOK, NoFutureReading, CasErr
  <2> QED
    BY <2>1, <2>2, <2>3 DEF IInv
<1>7. CASE Tick \/ StepBack
  <2>1. TypeOK'
    BY <1>7 DEF IInv, TypeOK, Tick, StepBack
  <2>2. BurstCeiling' /\ Conservation'
    BY <1>7 DEF IInv, BurstCeiling, Conservation, Tick, StepBack, Refilled, CapFp
  <2>3. NoFutureReading'
    BY <1>7 DEF IInv, TypeOK, Word, NoFutureReading, Tick, StepBack
  <2> QED
    BY <2>1, <2>2, <2>3 DEF IInv
<1>8. CASE UNCHANGED vars
  BY <1>8 DEF IInv, TypeOK, BurstCeiling, Conservation, NoFutureReading, vars,
              Refilled, CapFp
<1> QED
  BY <1>2, <1>3, <1>4, <1>5, <1>6, <1>7, <1>8 DEF Next, Thread

(***************************************************************************)
(* Every step of allow() and of the clock keeps the inductive invariant.   *)
(***************************************************************************)
THEOREM Invariance == Spec => []IInv
  BY InitIInv, StepPreserves, PTL DEF Spec

(***************************************************************************)
(* The burst ceiling of token_bucket.rs:68: never more than the capacity   *)
(* is stored, and the decrement at line 90 never wraps, for any number of  *)
(* threads.                                                                *)
(***************************************************************************)
THEOREM BurstCeilingHolds == Spec => [](TypeOK /\ BurstCeiling)
<1>1. IInv => TypeOK /\ BurstCeiling
  BY DEF IInv
<1> QED
  BY <1>1, Invariance, PTL

(***************************************************************************)
(* Tokens are conserved by the compare_exchange loop of token_bucket.rs:   *)
(* 74-103, whatever the interleaving and whatever the clock does.          *)
(***************************************************************************)
THEOREM ConservationHolds == Spec => []Conservation
<1>1. IInv => Conservation
  BY DEF IInv
<1> QED
  BY <1>1, Invariance, PTL

(***************************************************************************)
(* Where no store has moved the timestamp back and the clock has not       *)
(* stepped back, at most Capacity + RefillRate * elapsed requests passed.  *)
(***************************************************************************)
THEOREM RateLimitHolds == Spec => []RateLimitUnlessRewound
<1>1. ASSUME IInv, rewound = 0, stepsBack = 0 PROVE RateLimit
  <2> DEFINE r == RefillRate * One
  <2>1. r \in Nat
    BY BucketAssumption DEF One
  <2>2. /\ state.ts \in Nat /\ clock \in Nat /\ state.ts <= clock
        /\ state.fp \in Nat /\ granted \in Nat
    BY <1>1, BucketAssumption DEF IInv, TypeOK, Word, NoFutureReading
  <2>3. granted * One + state.fp <= CapFp + r * (state.ts + 0)
    BY <1>1 DEF IInv, Conservation
  <2> HIDE DEF r
  <2>4. r * state.ts <= r * clock /\ r * state.ts \in Nat /\ r * clock \in Nat
    BY <2>1, <2>2, RefillGrows
  <2>5. granted * One <= CapFp + r * clock
    BY <2>2, <2>3, <2>4, CapFpBounds DEF One
  <2> QED
    BY <2>5 DEF RateLimit, r
<1>2. IInv => RateLimitUnlessRewound
  BY <1>1 DEF RateLimitUnlessRewound
<1> QED
  BY <1>2, Invariance, PTL

(***************************************************************************)
(* The reject at token_bucket.rs:87 happens only in a second from which    *)
(* the bucket has already been refilled, where there is a refill at all.   *)
(***************************************************************************)
THEOREM RefusalHolds == Spec => RefusedOnlyWithinSpentSecond
<1>1. ASSUME Capacity > 0, RefillRate > 0, IInv, NEW t \in Threads, Reject(t)
      PROVE  now[t] <= state.ts
  <2>1. state \in Word /\ now[t] \in 0..MaxTime /\ state.ts \in 0..MaxTime
    BY <1>1 DEF IInv, TypeOK, Word
  <2>2. ~(Refilled(state, now[t]) >= One)
    <3>1. Refilled(state, now[t]) \in 0..CapFp
      BY <2>1, RefilledBounds
    <3> QED
      BY <1>1, <3>1, CapFpBounds DEF Reject, One
  <2>3. ~(state.ts < now[t])
    BY <1>1, <2>1, <2>2, NewSecondHasToken
  <2> QED
    BY <2>1, <2>3, BucketAssumption
<1>2. IInv => [Capacity > 0 /\ RefillRate > 0 =>
                  \A t \in Threads : Reject(t) => now[t] <= state.ts]_vars
  BY <1>1
<1> QED
  BY <1>2, Invariance, PTL DEF RefusedOnlyWithinSpentSecond
============================================================================
