------------------------------- MODULE AutoBan -------------------------------
(***************************************************************************)
(* Violation tracking and temporary bans (lib/rust/policy/src/auto_ban.rs, *)
(* lib/go/policy/auto_ban.go) as PolicyEngine::check drives them: requests *)
(* that pass the blocklist check and are refused by the limiter, the       *)
(* sliding window of violations, the ban table, the host route a ban puts  *)
(* into the engine, and the sweeper that lifts expired bans.               *)
(*                                                                         *)
(* Rust reads the clock before it has the entry's lock and inserts the     *)
(* host route after releasing it; Go does everything under one mutex.  In  *)
(* both the sweeper removes host routes after it has let go of the table.  *)
(***************************************************************************)
EXTENDS Integers, Sequences, FiniteSets

CONSTANTS Langs,          \* the implementations considered, "rust" and "go"
          Ips, Threads, Nil,
          Threshold,      \* threshold_violations
          Window,         \* window_seconds
          BanDuration,    \* ban_duration_seconds
          MaxDelay,       \* a request finishes within this time of its blocklist check
          Operator,       \* an operator also inserts host routes
          Horizon,        \* bound: no request arrives from this time on
          MaxTime         \* bound: the clock stops here

ASSUME ConstantsAssumption ==
    /\ Threshold \in Nat \ {0}
    /\ {Window, BanDuration, MaxDelay, Horizon, MaxTime} \subseteq Nat
    /\ Operator \in BOOLEAN
    /\ Nil \notin Nat /\ Nil \notin {"auto", "operator"}

VARIABLES lang,         \* the implementation that runs
          clock,
          violations,   \* ip -> times of the violations in the window
          banned,       \* ip -> expiry of its ban, or Nil
          blocked,      \* ip -> its host route in the engine: "auto", "operator" or Nil
          th,           \* thread -> [pc, ip, start, now]
          sweep,        \* [pc, now, scan, expired, lift]
          evidence      \* history: the violation times behind the last ban

vars == <<lang, clock, violations, banned, blocked, th, sweep, evidence>>

Idle == [pc |-> "idle", ip |-> Nil, start |-> 0, now |-> 0]
Asleep == [pc |-> "sleep", now |-> 0, scan |-> {}, expired |-> {}, lift |-> {}]

Init ==
    /\ lang \in Langs
    /\ clock = 0
    /\ violations = [ip \in Ips |-> <<>>]
    /\ banned = [ip \in Ips |-> Nil]
    /\ blocked = [ip \in Ips |-> Nil]
    /\ th = [t \in Threads |-> Idle]
    /\ sweep = Asleep
    /\ evidence = <<>>
----------------------------------------------------------------------------
(***************************************************************************)
(* PolicyEngine::check up to the violation: the address is not blocked and *)
(* its bucket is empty.  Any other outcome changes nothing here.           *)
(***************************************************************************)
Request(t, ip) ==
    /\ th[t].pc = "idle"
    /\ clock < Horizon
    /\ blocked[ip] = Nil
    /\ th' = [th EXCEPT ![t] = [pc |-> "violation", ip |-> ip, start |-> clock, now |-> 0]]
    /\ UNCHANGED <<clock, violations, banned, blocked, sweep, evidence>>

\* Rust: the clock is read before the entry is locked
ReadClock(t) ==
    /\ lang = "rust" /\ th[t].pc = "violation"
    /\ th' = [th EXCEPT ![t] = [@ EXCEPT !.pc = "record", !.now = clock]]
    /\ UNCHANGED <<clock, violations, banned, blocked, sweep, evidence>>

\* Mutant: nothing is pruned.
Kept_all(times, now) == times

InWindow(time, now) ==
    IF lang = "rust" THEN time >= now - Window ELSE time > now - Window

\* the times retain keeps, as Go's loop collects them
Kept(times, now) ==
    LET kept[i \in 0..Len(times)] ==
            IF i = 0 THEN <<>>
            ELSE IF InWindow(times[i], now) THEN Append(kept[i - 1], times[i])
            ELSE kept[i - 1]
    IN  kept[Len(times)]

Counted(ip, now) == Append(Kept(violations[ip], now), now)

\* the threshold is reached: the counter restarts and the ban is recorded
Ban(ip, now) ==
    /\ violations' = [violations EXCEPT ![ip] = <<>>]
    /\ banned' = [banned EXCEPT ![ip] = now + BanDuration]
    /\ evidence' = Counted(ip, now)

\* record_violation under the entry's lock
Record(t) ==
    LET ip == th[t].ip
        now == th[t].now
    IN  /\ th[t].pc = "record"
        /\ IF Len(Counted(ip, now)) < Threshold
           THEN /\ violations' = [violations EXCEPT ![ip] = Counted(ip, now)]
                /\ th' = [th EXCEPT ![t] = Idle]
                /\ UNCHANGED <<banned, evidence>>
           ELSE /\ Ban(ip, now)
                /\ th' = [th EXCEPT ![t].pc = "insert"]
        /\ UNCHANGED <<clock, blocked, sweep>>

\* Mutant: no insert for an address the table already lists.
InsertBan_once(t) ==
    /\ th[t].pc = "insert"
    /\ blocked' = [blocked EXCEPT ![th[t].ip] = IF banned[th[t].ip] = Nil THEN "auto" ELSE @]
    /\ th' = [th EXCEPT ![t] = Idle]
    /\ UNCHANGED <<clock, violations, banned, sweep, evidence>>

\* insert_ban, after the lock is released
InsertBan(t) ==
    /\ th[t].pc = "insert"
    /\ blocked' = [blocked EXCEPT ![th[t].ip] = "auto"]
    /\ th' = [th EXCEPT ![t] = Idle]
    /\ UNCHANGED <<clock, violations, banned, sweep, evidence>>

\* RecordViolation and ban of auto_ban.go: all under the tracker's mutex
GoRecordViolation(t) ==
    LET ip == th[t].ip IN
    /\ lang = "go" /\ th[t].pc = "violation"
    /\ IF Len(Counted(ip, clock)) < Threshold
       THEN /\ violations' = [violations EXCEPT ![ip] = Counted(ip, clock)]
            /\ UNCHANGED <<banned, blocked, evidence>>
       ELSE /\ Ban(ip, clock)
            /\ blocked' = [blocked EXCEPT ![ip] = "auto"]
    /\ th' = [th EXCEPT ![t] = Idle]
    /\ UNCHANGED <<clock, sweep>>
----------------------------------------------------------------------------
\* Mutant: the expiry is not looked at.
Expired_always(ip) == banned[ip] # Nil

Expired(ip) == banned[ip] # Nil /\ sweep.now >= banned[ip]

\* Mutant: a pass that drops the ban from the table only.
Unban_tableOnly(ip) ==
    /\ lang = "rust" /\ sweep.pc = "scan" /\ sweep.scan = {} /\ ip \in sweep.expired
    /\ banned' = [banned EXCEPT ![ip] = Nil]
    /\ sweep' = [sweep EXCEPT !.expired = @ \ {ip}]
    /\ UNCHANGED <<clock, violations, blocked, th, evidence>>

\* the sweeper wakes up
Wake ==
    /\ sweep.pc = "sleep"
    /\ \E ip \in Ips : banned[ip] # Nil
    /\ sweep' = [Asleep EXCEPT !.pc = "scan", !.now = clock, !.scan = Ips]
    /\ UNCHANGED <<clock, violations, banned, blocked, th, evidence>>

\* Rust: the table is scanned shard by shard
Scan(ip) ==
    /\ lang = "rust" /\ sweep.pc = "scan" /\ ip \in sweep.scan
    /\ sweep' = [sweep EXCEPT !.scan = @ \ {ip},
                              !.expired = IF Expired(ip) THEN @ \cup {ip} ELSE @]
    /\ UNCHANGED <<clock, violations, banned, blocked, th, evidence>>

\* Rust: banned.remove of every collected address, whatever its expiry is by now
Unban(ip) ==
    /\ lang = "rust" /\ sweep.pc = "scan" /\ sweep.scan = {} /\ ip \in sweep.expired
    /\ banned' = [banned EXCEPT ![ip] = Nil]
    /\ sweep' = [sweep EXCEPT !.expired = @ \ {ip}, !.lift = @ \cup {ip}]
    /\ UNCHANGED <<clock, violations, blocked, th, evidence>>

\* Go: collecting and deleting under the mutex
GoSweep ==
    /\ lang = "go" /\ sweep.pc = "scan" /\ sweep.scan # {}
    /\ banned' = [ip \in Ips |-> IF Expired(ip) THEN Nil ELSE banned[ip]]
    /\ sweep' = [sweep EXCEPT !.scan = {}, !.lift = {ip \in Ips : Expired(ip)}]
    /\ UNCHANGED <<clock, violations, blocked, th, evidence>>

\* Mutant: the host route is removed only while the ban table still has it.
Lift_checked(ip) ==
    /\ sweep.scan = {} /\ sweep.expired = {} /\ ip \in sweep.lift
    /\ blocked' = IF banned[ip] # Nil THEN [blocked EXCEPT ![ip] = Nil] ELSE blocked
    /\ sweep' = [sweep EXCEPT !.lift = @ \ {ip}]
    /\ UNCHANGED <<clock, violations, banned, th, evidence>>

\* engine.remove(host_prefix(ip))
Lift(ip) ==
    /\ sweep.scan = {} /\ sweep.expired = {} /\ ip \in sweep.lift
    /\ blocked' = [blocked EXCEPT ![ip] = Nil]
    /\ sweep' = [sweep EXCEPT !.lift = @ \ {ip}]
    /\ UNCHANGED <<clock, violations, banned, th, evidence>>

Sleep ==
    /\ sweep.pc = "scan" /\ sweep.scan = {} /\ sweep.expired = {} /\ sweep.lift = {}
    /\ sweep' = Asleep
    /\ UNCHANGED <<clock, violations, banned, blocked, th, evidence>>
----------------------------------------------------------------------------
\* an operator's own host route, through the engine
OperatorInsert(ip) ==
    /\ Operator
    /\ blocked' = [blocked EXCEPT ![ip] = "operator"]
    /\ UNCHANGED <<clock, violations, banned, th, sweep, evidence>>

Tick ==
    /\ clock < MaxTime
    /\ \A t \in Threads : th[t].pc # "idle" => clock < th[t].start + MaxDelay
    /\ clock' = clock + 1
    /\ UNCHANGED <<violations, banned, blocked, th, sweep, evidence>>

Finish(t) == ReadClock(t) \/ Record(t) \/ InsertBan(t) \/ GoRecordViolation(t)

Sweeper ==
    \/ Wake \/ GoSweep \/ Sleep
    \/ \E ip \in Ips : Scan(ip) \/ Unban(ip) \/ Lift(ip)

Next ==
    /\ \/ \E t \in Threads : Finish(t) \/ \E ip \in Ips : Request(t, ip)
       \/ Sweeper
       \/ \E ip \in Ips : OperatorInsert(ip)
       \/ Tick
    /\ UNCHANGED lang

Spec == Init /\ [][Next]_vars

(***************************************************************************)
(* Requests in progress finish, the sweeper's thread keeps running (it     *)
(* loops forever) and time passes.                                         *)
(***************************************************************************)
FairSpec ==
    /\ Spec
    /\ \A t \in Threads : WF_vars(Finish(t) /\ UNCHANGED lang)
    /\ WF_vars(Sweeper /\ UNCHANGED lang)
    /\ WF_vars(Tick /\ UNCHANGED lang)
----------------------------------------------------------------------------
TypeOK ==
    /\ lang \in Langs
    /\ clock \in Nat
    /\ violations \in [Ips -> Seq(Int)]
    /\ banned \in [Ips -> Int \cup {Nil}]
    /\ blocked \in [Ips -> {"auto", "operator", Nil}]
    /\ th \in [Threads -> [pc : {"idle", "violation", "record", "insert"},
                           ip : Ips \cup {Nil}, start : Nat, now : Nat]]
    /\ \A t \in Threads : th[t].pc # "idle" => th[t].ip \in Ips
    /\ sweep \in [pc : {"sleep", "scan"}, now : Nat, scan : SUBSET Ips,
                  expired : SUBSET Ips, lift : SUBSET Ips]
    /\ evidence \in Seq(Int)

Inserting(ip) == \E t \in Threads : th[t].pc = "insert" /\ th[t].ip = ip

(***************************************************************************)
(* An active ban blocks: while is_banned would say yes (auto_ban.rs:116)   *)
(* and no insert_ban is outstanding, the engine has a host route for the   *)
(* address, although the table and the engine are changed in separate      *)
(* steps by requests and by the sweeper.                                   *)
(***************************************************************************)
ActiveBanBlocks ==
    \A ip \in Ips : banned[ip] # Nil /\ clock < banned[ip] /\ ~Inserting(ip)
                        => blocked[ip] # Nil

(***************************************************************************)
(* A ban's host route is never left behind: the ban table still lists it   *)
(* or the sweeper is about to remove it (auto_ban.rs:148-155).             *)
(***************************************************************************)
NoOrphanRoute ==
    \A ip \in Ips : blocked[ip] = "auto" => banned[ip] # Nil \/ ip \in sweep.lift

(***************************************************************************)
(* A ban needs threshold violations inside the window (auto_ban.rs:3-4),   *)
(* up to the time a request may take: timestamps are taken before the      *)
(* lock, so they may be recorded out of order.  The stored list stays      *)
(* below the threshold.                                                    *)
(***************************************************************************)
BanNeedsThreshold ==
    /\ evidence # <<>> =>
        /\ Len(evidence) >= Threshold
        /\ \A i, j \in DOMAIN evidence : evidence[i] - evidence[j] <= Window + MaxDelay
    /\ \A ip \in Ips : Len(violations[ip]) < Threshold

(***************************************************************************)
(* "Every 30 s it removes expired bans from both the in-memory map and the *)
(* RadixIP engine" (auto_ban.rs:133-134): a ban leaves the table only once *)
(* it has run out, and the engine loses the host route of an address only  *)
(* while no ban of it is active, although the sweeper collects, unbans and *)
(* lifts in separate steps.                                                *)
(***************************************************************************)
SweepLiftsExpiredBans ==
    [][\A ip \in Ips :
        (\/ banned[ip] # Nil /\ banned'[ip] = Nil
         \/ blocked[ip] # Nil /\ blocked'[ip] = Nil)
            => banned[ip] = Nil \/ banned[ip] <= clock]_vars

(***************************************************************************)
(* "automatic temporary ban injection" (auto_ban.rs:1): a banned address   *)
(* is eventually let in again.                                             *)
(***************************************************************************)
BanIsTemporary == \A ip \in Ips : blocked[ip] = "auto" ~> blocked[ip] # "auto"
=============================================================================
