---------------------------- MODULE TokenBucket ----------------------------
(***************************************************************************)
(* The per-client token bucket of lib/rust/policy/src/token_bucket.rs: one *)
(* 64-bit word <<seconds, tokens * 1000>> that request threads update with *)
(* a compare-and-swap loop.                                                *)
(*                                                                         *)
(* A call of allow() is three kinds of atomic step: it reads the wall      *)
(* clock ONCE (token_bucket.rs:71), then loops { load the word; refill and *)
(* decide; compare_exchange }.  The clock read is outside the loop, so the *)
(* `now' a thread writes back can be older than the timestamp another      *)
(* thread has stored meanwhile.                                            *)
(*                                                                         *)
(* The clock is SystemTime: it advances between any two steps and, when    *)
(* ClockMayStepBack, may also be set back by the administrator or by NTP.  *)
(***************************************************************************)
EXTENDS Integers

CONSTANTS Threads,          \* request threads sharing this bucket
          Capacity,         \* rate_limit.capacity, whole tokens
          RefillRate,       \* rate_limit.refill_rate, tokens per second
          U32Max,           \* u32::MAX
          MaxTime,          \* bound: the clock stops here
          ClockMayStepBack, \* may SystemTime go backwards?
          MaxStepsBack      \* bound: how often it does

One == 1000                 \* fixed-point representation of one token

(***************************************************************************)
(* The validation of lib/rust/config/src/lib.rs:61-76 asks for a positive  *)
(* capacity and refill rate only of an enabled global limit: a route's     *)
(* limit and the builder may have 0.  u32::MAX holds at least one          *)
(* fixed-point token.                                                      *)
(***************************************************************************)
ASSUME BucketAssumption ==
    /\ Capacity \in Nat
    /\ RefillRate \in Nat
    /\ U32Max \in Nat /\ U32Max >= One
    /\ MaxTime \in Nat
    /\ ClockMayStepBack \in BOOLEAN
    /\ MaxStepsBack \in Nat

VARIABLES
    clock,      \* SystemTime in seconds (now_secs)
    state,      \* the AtomicU64, unpacked: [ts, fp]
    pc,         \* where each thread is in allow()
    now,        \* the `now' local of each thread
    old,        \* the `old' local of each thread: the word it loaded
    granted,    \* history: how many calls returned true
    rewound,    \* history: seconds by which stores moved the timestamp back
    stepsBack   \* history: how often the clock was set back

vars == <<clock, state, pc, now, old, granted, rewound, stepsBack>>

Min2(a, b) == IF a <= b THEN a ELSE b

Word == [ts : 0..MaxTime, fp : 0..U32Max]

NoWord == [ts |-> 0, fp |-> 0]

(***************************************************************************)
(* (capacity * 1000).min(u32::MAX)                                         *)
(***************************************************************************)
CapFp == Min2(Capacity * One, U32Max)

SaturatingSub(a, b) == IF a >= b THEN a - b ELSE 0

----------------------------------------------------------------------------
(***************************************************************************)
(* Mutants, used to show that the properties can fail: a refill that is    *)
(* not capped, and one that never happens.                                 *)
(***************************************************************************)
Refilled_uncapped(w, n) ==
    Min2(w.fp + Min2(SaturatingSub(n, w.ts) * (RefillRate * One), U32Max), U32Max)

Refilled_stuck(w, n) == Min2(w.fp, CapFp)
----------------------------------------------------------------------------
(***************************************************************************)
(* The fixed-point tokens a thread whose clock reading is n sees in word w *)
(***************************************************************************)
Refilled(w, n) ==
    LET elapsed == SaturatingSub(n, w.ts)
        refill  == Min2(elapsed * (RefillRate * One), U32Max)
    IN  Min2(Min2(w.fp + refill, U32Max), CapFp)

Init ==
    /\ clock = 0
    /\ state = [ts |-> 0, fp |-> CapFp]         \* TokenBucket::new: full
    /\ pc = [t \in Threads |-> "idle"]
    /\ now = [t \in Threads |-> 0]
    /\ old = [t \in Threads |-> NoWord]
    /\ granted = 0
    /\ rewound = 0
    /\ stepsBack = 0

(***************************************************************************)
(* allow() returns and its locals are dropped                              *)
(***************************************************************************)
Return(t) ==
    /\ pc' = [pc EXCEPT ![t] = "idle"]
    /\ now' = [now EXCEPT ![t] = 0]
    /\ old' = [old EXCEPT ![t] = NoWord]

(***************************************************************************)
(* allow() is called: let now = now_secs();                                *)
(***************************************************************************)
Call(t) ==
    /\ pc[t] = "idle"
    /\ now' = [now EXCEPT ![t] = clock]
    /\ pc' = [pc EXCEPT ![t] = "load"]
    /\ UNCHANGED <<clock, state, old, granted, rewound, stepsBack>>

(***************************************************************************)
(* let old = self.state.load(): the word holds a whole token once refilled *)
(* to this thread's `now', so the thread goes on to its compare_exchange   *)
(***************************************************************************)
Load(t) ==
    /\ pc[t] = "load"
    /\ Refilled(state, now[t]) >= One
    /\ old' = [old EXCEPT ![t] = state]
    /\ pc' = [pc EXCEPT ![t] = "cas"]
    /\ UNCHANGED <<clock, state, now, granted, rewound, stepsBack>>

(***************************************************************************)
(* The load finds less than one token: return false, writing nothing       *)
(***************************************************************************)
Reject(t) ==
    /\ pc[t] = "load"
    /\ Refilled(state, now[t]) < One
    /\ Return(t)
    /\ UNCHANGED <<clock, state, granted, rewound, stepsBack>>

\* Mutant: a plain store in place of the compare_exchange.
CasOk_blind(t) ==
    /\ pc[t] = "cas"
    /\ state' = [ts |-> now[t], fp |-> Refilled(old[t], now[t]) - One]
    /\ granted' = granted + 1
    /\ rewound' = rewound + SaturatingSub(state.ts, now[t])
    /\ Return(t)
    /\ UNCHANGED <<clock, stepsBack>>

(***************************************************************************)
(* compare_exchange(old, pack(now, tokens - 1000)) succeeds: return true   *)
(***************************************************************************)
CasOk(t) ==
    /\ pc[t] = "cas"
    /\ state = old[t]
    /\ state' = [ts |-> now[t], fp |-> Refilled(old[t], now[t]) - One]
    /\ granted' = granted + 1
    /\ rewound' = rewound + SaturatingSub(state.ts, now[t])
    /\ Return(t)
    /\ UNCHANGED <<clock, stepsBack>>

(***************************************************************************)
(* It fails because the word changed: spin, and load again with the same   *)
(* `now'                                                                   *)
(***************************************************************************)
CasErr(t) ==
    /\ pc[t] = "cas"
    /\ state # old[t]
    /\ pc' = [pc EXCEPT ![t] = "load"]
    /\ old' = [old EXCEPT ![t] = NoWord]
    /\ UNCHANGED <<clock, state, now, granted, rewound, stepsBack>>

(***************************************************************************)
(* The environment: time passes, or the system clock is set back           *)
(***************************************************************************)
Tick ==
    /\ clock < MaxTime
    /\ clock' = clock + 1
    /\ UNCHANGED <<state, pc, now, old, granted, rewound, stepsBack>>

StepBack ==
    /\ ClockMayStepBack
    /\ stepsBack < MaxStepsBack
    /\ \E c \in 0..MaxTime : c < clock /\ clock' = c
    /\ stepsBack' = stepsBack + 1
    /\ UNCHANGED <<state, pc, now, old, granted, rewound>>

Thread(t) == Call(t) \/ Load(t) \/ Reject(t) \/ CasOk(t) \/ CasErr(t)

Next == Tick \/ StepBack \/ \E t \in Threads : Thread(t)

Spec == Init /\ [][Next]_vars

----------------------------------------------------------------------------
(***************************************************************************)
(* Types: the word is a pair of 32-bit fields and every local is one the   *)
(* loop of token_bucket.rs:70-104 can hold.                                *)
(***************************************************************************)
TypeOK ==
    /\ clock \in 0..MaxTime
    /\ state \in Word
    /\ pc \in [Threads -> {"idle", "load", "cas"}]
    /\ now \in [Threads -> 0..MaxTime]
    /\ old \in [Threads -> Word]
    /\ granted \in Nat
    /\ rewound \in Nat
    /\ stepsBack \in Nat

(***************************************************************************)
(* The burst ceiling ("capacity: max tokens (burst ceiling)",              *)
(* token_bucket.rs:68): whatever the interleaving and the clock do, the    *)
(* stored word never holds more than Capacity tokens, and no thread is     *)
(* about to store a negative count (the subtraction at token_bucket.rs:90  *)
(* cannot wrap).                                                           *)
(***************************************************************************)
BurstCeiling ==
    /\ state.fp <= CapFp
    /\ \A t \in Threads : pc[t] = "cas" => Refilled(old[t], now[t]) >= One

(***************************************************************************)
(* Conservation of tokens: what was granted and what is left never exceed  *)
(* the initial burst plus the refill of the seconds counted in, where the  *)
(* seconds counted in are those up to the stored timestamp PLUS those by   *)
(* which stores have moved it back.  No concurrent update loses a          *)
(* deduction, and the only source of extra tokens is a timestamp that goes *)
(* back (token_bucket.rs:71 with 90).                                      *)
(***************************************************************************)
Conservation ==
    granted * One + state.fp <= CapFp + (RefillRate * One) * (state.ts + rewound)

(***************************************************************************)
(* With a capacity and a refill rate of at least one token, a client is    *)
(* refused only when its clock reading is not later than the stored        *)
(* timestamp: whatever others took and the clock did, a second that has    *)
(* passed since the last grant is a whole token (token_bucket.rs:79-87).   *)
(***************************************************************************)
RefusedOnlyWithinSpentSecond ==
    [][Capacity > 0 /\ RefillRate > 0 =>
        \A t \in Threads : Reject(t) => now[t] <= state.ts]_vars

(***************************************************************************)
(* The limit a reader of the interface expects ("tokens_per_sec: refill    *)
(* rate", token_bucket.rs:69): at most Capacity + RefillRate * elapsed     *)
(* requests pass.                                                          *)
(***************************************************************************)
RateLimit ==
    granted * One <= CapFp + (RefillRate * One) * clock

(***************************************************************************)
(* The same limit for as long as no store moved the timestamp back.        *)
(***************************************************************************)
RateLimitUnlessRewound ==
    (rewound = 0 /\ stepsBack = 0) => RateLimit
============================================================================
