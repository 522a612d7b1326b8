---------------------------- MODULE AutoBanProofs ----------------------------
(***************************************************************************)
(* The ban table and the engine agree, for any addresses, threads,         *)
(* threshold, window and clock, as long as a request takes less than half  *)
(* a ban: then no request is still in flight for an address whose ban has  *)
(* run out, so the sweeper's separate steps meet no ban in the making.     *)
(* Go needs no such assumption for its host routes to be cleaned up.       *)
(*                                                                         *)
(* The last part shows what a ban rests on, without that assumption: the   *)
(* times in the lists are past, and the filter keeps those in the window.  *)
(***************************************************************************)
EXTENDS AutoBan, WellFoundedInduction, TLAPS

Types ==
    /\ clock \in Nat
    /\ banned \in [Ips -> Int \cup {Nil}]
    /\ blocked \in [Ips -> {"auto", "operator", Nil}]
    /\ th \in [Threads -> [pc : {"idle", "violation", "record", "insert"},
                           ip : Ips \cup {Nil}, start : Nat, now : Nat]]
    /\ \A t \in Threads : th[t].pc # "idle" => th[t].ip \in Ips
    /\ sweep \in [pc : {"sleep", "scan"}, now : Nat, scan : SUBSET Ips,
                  expired : SUBSET Ips, lift : SUBSET Ips]

InFlight(t, ip) == th[t].pc # "idle" /\ th[t].ip = ip

\* clock readings are past, and no request has outlived its time
Timing ==
    /\ sweep.now <= clock
    /\ \A t \in Threads :
        /\ th[t].pc # "idle" => th[t].start <= clock /\ clock <= th[t].start + MaxDelay
        /\ th[t].pc \in {"record", "insert"} => th[t].start <= th[t].now /\ th[t].now <= clock

\* a ban in the table is in the engine, or the thread that recorded it is about to insert it
RecordedBan ==
    \A ip \in Ips : banned[ip] # Nil =>
        \/ blocked[ip] # Nil
        \/ \E t \in Threads : th[t].pc = "insert" /\ th[t].ip = ip
                              /\ banned[ip] = th[t].now + BanDuration

\* a ban outlives the requests that passed the blocklist check before it was inserted
RequestsEnd ==
    \A t \in Threads, ip \in Ips : InFlight(t, ip) =>
        /\ banned[ip] # Nil => banned[ip] >= th[t].start + BanDuration - MaxDelay
        /\ th[t].pc = "insert" => banned[ip] # Nil

\* what the sweeper has collected and what it has yet to lift
Collected ==
    /\ lang = "go" => sweep.expired = {}
    /\ sweep.pc = "sleep" => sweep.lift = {}
    /\ sweep.scan # {} => sweep.lift = {}
    /\ \A ip \in sweep.expired : banned[ip] # Nil /\ banned[ip] <= clock
    /\ \A ip \in sweep.lift :
        /\ banned[ip] = Nil /\ blocked[ip] # Nil
        /\ \A t \in Threads : ~InFlight(t, ip)

Agreement == Timing /\ RecordedBan /\ RequestsEnd /\ Collected /\ NoOrphanRoute

IInv == Types /\ Agreement

Timely == 2 * MaxDelay < BanDuration
----------------------------------------------------------------------------
(***************************************************************************)
(* Nobody is in flight for an address whose ban has run out.               *)
(***************************************************************************)
LEMMA NobodyInFlight ==
    ASSUME Timely, Types, Timing, RequestsEnd, NEW ip \in Ips, NEW t \in Threads,
           banned[ip] # Nil, banned[ip] <= clock
    PROVE  ~InFlight(t, ip)
<1> SUFFICES ASSUME InFlight(t, ip) PROVE FALSE
  OBVIOUS
<1>1. banned[ip] >= th[t].start + BanDuration - MaxDelay
  BY DEF RequestsEnd
<1>2. clock <= th[t].start + MaxDelay
  BY DEF Timing, InFlight
<1>3. /\ clock \in Nat /\ banned[ip] \in Int /\ th[t].start \in Nat
      /\ MaxDelay \in Nat /\ BanDuration \in Nat
  BY ConstantsAssumption DEF Types
<1> QED
  BY <1>1, <1>2, <1>3 DEF Timely

(***************************************************************************)
(* Initially there are no bans and no requests.                            *)
(***************************************************************************)
LEMMA InitIInv == Init => IInv
<1> SUFFICES ASSUME Init PROVE IInv
  OBVIOUS
<1> USE DEF Init, Idle, Asleep
<1>1. Types
  BY DEF Types
<1>2. \A t \in Threads : th[t].pc = "idle"
  OBVIOUS
<1>3. \A ip \in Ips : banned[ip] = Nil /\ blocked[ip] = Nil
  OBVIOUS
<1>4. clock = 0 /\ sweep.now = 0 /\ sweep.expired = {} /\ sweep.lift = {}
  OBVIOUS
<1> HIDE DEF Init, Idle, Asleep
<1>5. Timing
  BY <1>2, <1>4 DEF Timing
<1>6. RecordedBan /\ RequestsEnd
  BY <1>2, <1>3 DEF RecordedBan, RequestsEnd, InFlight
<1>7. Collected
  BY <1>4 DEF Collected
<1>8. NoOrphanRoute
  BY <1>3, ConstantsAssumption DEF NoOrphanRoute
<1> QED
  BY <1>1, <1>5, <1>6, <1>7, <1>8 DEF IInv, Agreement

(***************************************************************************)
(* Every step keeps the types.                                             *)
(***************************************************************************)
LEMMA NextTypes == Types /\ [Next]_vars => Types'
<1> SUFFICES ASSUME Types, [Next]_vars PROVE Types'
  OBVIOUS
<1>0. BanDuration \in Nat
  BY ConstantsAssumption
<1> USE <1>0 DEF Types, Idle, Asleep
<1>1. ASSUME NEW t \in Threads, NEW ip \in Ips, Request(t, ip) PROVE Types'
  BY <1>1 DEF Request
<1>2. ASSUME NEW t \in Threads, ReadClock(t) PROVE Types'
  <2>1. th' \in [Threads -> [pc : {"idle", "violation", "record", "insert"},
                              ip : Ips \cup {Nil}, start : Nat, now : Nat]]
    <3>1. [th[t] EXCEPT !.pc = "record", !.now = clock]
            \in [pc : {"idle", "violation", "record", "insert"},
                 ip : Ips \cup {Nil}, start : Nat, now : Nat]
      OBVIOUS
    <3>2. th' = [th EXCEPT ![t] = [th[t] EXCEPT !.pc = "record", !.now = clock]]
      BY <1>2 DEF ReadClock
    <3> QED
      BY <3>1, <3>2
  <2>2. \A u \in Threads : th'[u].pc # "idle" => th'[u].ip \in Ips
    BY <1>2 DEF ReadClock
  <2> QED
    BY <1>2, <2>1, <2>2 DEF ReadClock
<1>3. ASSUME NEW t \in Threads, Record(t) PROVE Types'
  <2>0. th[t].ip \in Ips /\ th[t].now + BanDuration \in Int
    BY <1>3 DEF Record
  <2>1. CASE Len(Counted(th[t].ip, th[t].now)) < Threshold
    <3>1. th' = [th EXCEPT ![t] = Idle] /\ UNCHANGED <<clock, banned, blocked, sweep>>
      BY <1>3, <2>1 DEF Record
    <3> QED
      BY <3>1
  <2>2. CASE ~(Len(Counted(th[t].ip, th[t].now)) < Threshold)
    <3>1. banned' \in [Ips -> Int \cup {Nil}]
      BY <1>3, <2>0, <2>2 DEF Record, Ban
    <3>2. th' = [th EXCEPT ![t].pc = "insert"] /\ UNCHANGED <<clock, blocked, sweep>>
      BY <1>3, <2>2 DEF Record
    <3>3. th' \in [Threads -> [pc : {"idle", "violation", "record", "insert"},
                                ip : Ips \cup {Nil}, start : Nat, now : Nat]]
      BY <3>2
    <3>4. \A u \in Threads : th'[u].pc # "idle" => th'[u].ip \in Ips
      BY <2>0, <3>2
    <3> QED
      BY <3>1, <3>2, <3>3, <3>4
  <2> QED
    BY <2>1, <2>2
<1>4. ASSUME NEW t \in Threads, InsertBan(t) PROVE Types'
  BY <1>4 DEF InsertBan
<1>5. ASSUME NEW t \in Threads, GoRecordViolation(t) PROVE Types'
  <2>0. th[t].ip \in Ips /\ clock + BanDuration \in Int
    BY <1>5 DEF GoRecordViolation
  <2>1. banned' \in [Ips -> Int \cup {Nil}] /\ blocked' \in [Ips -> {"auto", "operator", Nil}]
    BY <1>5, <2>0 DEF GoRecordViolation, Ban
  <2>2. th' = [th EXCEPT ![t] = Idle] /\ UNCHANGED <<clock, sweep>>
    BY <1>5 DEF GoRecordViolation
  <2> QED
    BY <2>1, <2>2
<1>6. CASE Wake
  BY <1>6 DEF Wake
<1>7. ASSUME NEW ip \in Ips, Scan(ip) PROVE Types'
  BY <1>7 DEF Scan
<1>8. ASSUME NEW ip \in Ips, Unban(ip) PROVE Types'
  BY <1>8 DEF Unban
<1>9. CASE GoSweep
  BY <1>9 DEF GoSweep
<1>10. ASSUME NEW ip \in Ips, Lift(ip) PROVE Types'
  BY <1>10 DEF Lift
<1>11. CASE Sleep
  BY <1>11 DEF Sleep
<1>12. ASSUME NEW ip \in Ips, OperatorInsert(ip) PROVE Types'
  BY <1>12 DEF OperatorInsert
<1>13. CASE Tick
  BY <1>13 DEF Tick
<1>14. CASE UNCHANGED vars
  BY <1>14 DEF vars
<1> QED
  BY <1>1, <1>2, <1>3, <1>4, <1>5, <1>6, <1>7, <1>8, <1>9, <1>10, <1>11, <1>12, <1>13, <1>14
     DEF Next, Finish, Sweeper

(***************************************************************************)
(* A request that enters, reads the clock, or records a violation keeps    *)
(* the table and the engine in agreement.                                  *)
(***************************************************************************)
LEMMA RequestAgreement ==
    ASSUME Timely, IInv, Types', lang' = lang, NEW t \in Threads, NEW ip \in Ips, Request(t, ip)
    PROVE  Agreement'
<1>0. /\ th[t].pc = "idle" /\ blocked[ip] = Nil
      /\ \A u \in Threads : u # t => th'[u] = th[u]
      /\ th'[t].pc = "violation" /\ th'[t].ip = ip /\ th'[t].start = clock
      /\ UNCHANGED <<clock, banned, blocked, sweep>>
  BY DEF Request, IInv, Types
<1>1. clock \in Nat /\ MaxDelay \in Nat /\ BanDuration \in Nat
  BY ConstantsAssumption DEF IInv, Types
<1>2. Timing'
  BY <1>0, <1>1 DEF IInv, Agreement, Timing
<1>3. RecordedBan'
  BY <1>0 DEF IInv, Agreement, RecordedBan
<1>4. banned[ip] # Nil => banned[ip] >= clock + BanDuration - MaxDelay
  <2> SUFFICES ASSUME banned[ip] # Nil PROVE banned[ip] >= clock + BanDuration - MaxDelay
    OBVIOUS
  <2>1. PICK u \in Threads : th[u].pc = "insert" /\ banned[ip] = th[u].now + BanDuration
    BY <1>0 DEF IInv, Agreement, RecordedBan
  <2>2. th[u].start <= th[u].now /\ clock <= th[u].start + MaxDelay
    BY <2>1 DEF IInv, Agreement, Timing
  <2>3. th[u].start \in Nat /\ th[u].now \in Nat
    BY DEF IInv, Types
  <2> QED
    BY <1>1, <2>1, <2>2, <2>3
<1>5. RequestsEnd'
  BY <1>0, <1>4 DEF IInv, Agreement, RequestsEnd, InFlight
<1>6. Collected'
  BY <1>0 DEF IInv, Agreement, Collected, InFlight
<1>7. NoOrphanRoute'
  BY <1>0 DEF IInv, Agreement, NoOrphanRoute
<1> QED
  BY <1>2, <1>3, <1>5, <1>6, <1>7 DEF Agreement

(***************************************************************************)
(* So does writing a ban into the table, whether the host route goes into  *)
(* the engine in the same step (Go) or in the thread's next one (Rust).    *)
(***************************************************************************)
LEMMA BanAgreement ==
    ASSUME Timely, IInv, Types', lang' = lang, NEW t \in Threads, NEW ip \in Ips, NEW now \in Nat,
           InFlight(t, ip), th[t].pc # "insert",
           th[t].start <= now, now <= clock,
           \A u \in Threads : u # t => th'[u] = th[u],
           \A i \in Ips : i # ip => banned'[i] = banned[i] /\ blocked'[i] = blocked[i],
           banned'[ip] = now + BanDuration,
           \/ /\ th'[t].pc = "insert" /\ th'[t].ip = ip /\ th'[t].now = now
              /\ th'[t].start = th[t].start /\ blocked'[ip] = blocked[ip]
           \/ th'[t].pc = "idle" /\ blocked'[ip] = "auto",
           UNCHANGED <<clock, sweep>>
    PROVE  Agreement'
<1>1. /\ clock \in Nat /\ MaxDelay \in Nat /\ BanDuration \in Nat
      /\ \A u \in Threads : th[u].start \in Nat
  BY ConstantsAssumption DEF IInv, Types
<1>2. banned'[ip] # Nil
  BY <1>1, ConstantsAssumption
<1>3. ip \notin sweep.expired /\ ip \notin sweep.lift
  BY NobodyInFlight DEF IInv, Agreement, Collected
<1>4. Timing'
  BY <1>1 DEF IInv, Agreement, Timing, InFlight
<1>5. RecordedBan'
  BY <1>2, ConstantsAssumption DEF IInv, Agreement, RecordedBan, InFlight
<1>6. \A u \in Threads : InFlight(u, ip) => now + BanDuration >= th[u].start + BanDuration - MaxDelay
  <2> SUFFICES ASSUME NEW u \in Threads, InFlight(u, ip)
               PROVE  now + BanDuration >= th[u].start + BanDuration - MaxDelay
    OBVIOUS
  <2>1. th[u].start <= clock /\ clock <= th[t].start + MaxDelay
    BY DEF IInv, Agreement, Timing, InFlight
  <2> QED
    BY <1>1, <2>1
<1>7. RequestsEnd'
  BY <1>2, <1>6 DEF IInv, Agreement, RequestsEnd, InFlight
<1>8. Collected'
  <2>1. sweep.expired \subseteq Ips /\ sweep.lift \subseteq Ips
    BY DEF IInv, Types
  <2>2. \A u \in Threads, i \in Ips : i # ip /\ ~InFlight(u, i) => ~InFlight(u, i)'
    BY DEF InFlight
  <2> QED
    BY <1>3, <2>1, <2>2 DEF IInv, Agreement, Collected
<1>9. NoOrphanRoute'
  BY <1>2 DEF IInv, Agreement, NoOrphanRoute
<1> QED
  BY <1>4, <1>5, <1>7, <1>8, <1>9 DEF Agreement

(***************************************************************************)
(* The sweeper's deletions from the table keep the agreement: the          *)
(* addresses it deletes are blocked and nobody is in flight for them.      *)
(***************************************************************************)
LEMMA UnbanAgreement ==
    ASSUME Timely, IInv, Types', lang' = lang, NEW S \in SUBSET Ips,
           \A ip \in S : banned[ip] # Nil /\ banned[ip] <= clock /\ banned'[ip] = Nil,
           \A ip \in Ips \ S : banned'[ip] = banned[ip],
           sweep'.lift = sweep.lift \cup S, sweep'.expired = sweep.expired \ S,
           sweep'.scan = {}, sweep'.pc = "scan", sweep'.now = sweep.now,
           UNCHANGED <<clock, blocked, th>>
    PROVE  Agreement'
<1>1. \A ip \in S, t \in Threads : ~InFlight(t, ip)
  BY NobodyInFlight DEF IInv, Agreement
<1>2. \A ip \in S : blocked[ip] # Nil
  BY <1>1 DEF IInv, Agreement, RecordedBan, InFlight
<1>3. Timing'
  BY DEF IInv, Agreement, Timing
<1>4. RecordedBan'
  BY DEF IInv, Agreement, RecordedBan
<1>5. RequestsEnd'
  BY <1>1 DEF IInv, Agreement, RequestsEnd, InFlight
<1>6. Collected'
  <2>1. sweep.expired \subseteq Ips /\ sweep.lift \subseteq Ips
    BY DEF IInv, Types
  <2>2. \A t \in Threads, ip \in Ips : InFlight(t, ip)' <=> InFlight(t, ip)
    BY DEF InFlight
  <2> QED
    BY <1>1, <1>2, <2>1, <2>2 DEF IInv, Agreement, Collected
<1>7. NoOrphanRoute'
  BY DEF IInv, Agreement, NoOrphanRoute
<1> QED
  BY <1>3, <1>4, <1>5, <1>6, <1>7 DEF Agreement

(***************************************************************************)
(* Every step keeps the agreement of table and engine.                     *)
(***************************************************************************)
LEMMA NextAgreement == ASSUME Timely, IInv, Types', [Next]_vars PROVE Agreement'
<1>0. clock \in Nat /\ MaxDelay \in Nat /\ BanDuration \in Nat /\ Nil # "operator" /\ Nil # "auto"
  BY ConstantsAssumption DEF IInv, Types
<1> lang' = lang
  BY DEF Next, vars
<1> USE DEF Idle, Asleep
<1>1. ASSUME NEW t \in Threads, NEW ip \in Ips, Request(t, ip) PROVE Agreement'
  BY <1>1, RequestAgreement
<1>2. ASSUME NEW t \in Threads, ReadClock(t) PROVE Agreement'
  <2>1. /\ th[t].pc = "violation" /\ \A u \in Threads : u # t => th'[u] = th[u]
        /\ th'[t].pc = "record" /\ th'[t].ip = th[t].ip /\ th'[t].start = th[t].start
        /\ th'[t].now = clock /\ UNCHANGED <<clock, banned, blocked, sweep>>
    BY <1>2 DEF ReadClock, IInv, Types
  <2>2. Timing' /\ RecordedBan'
    BY <1>0, <2>1 DEF IInv, Agreement, Timing, RecordedBan
  <2>3. RequestsEnd' /\ Collected' /\ NoOrphanRoute'
    BY <2>1 DEF IInv, Agreement, RequestsEnd, Collected, NoOrphanRoute, InFlight
  <2> QED
    BY <2>2, <2>3 DEF Agreement
<1>3. ASSUME NEW t \in Threads, Record(t) PROVE Agreement'
  <2>0. /\ th[t].pc = "record" /\ th[t].ip \in Ips /\ th[t].now \in Nat
        /\ th[t].start <= th[t].now /\ th[t].now <= clock
    BY <1>3 DEF Record, IInv, Types, Agreement, Timing
  <2>1. CASE Len(Counted(th[t].ip, th[t].now)) < Threshold
    <3>1. /\ \A u \in Threads : u # t => th'[u] = th[u]
          /\ th'[t].pc = "idle" /\ UNCHANGED <<clock, banned, blocked, sweep>>
      BY <1>3, <2>1 DEF Record, IInv, Types
    <3>2. Timing' /\ RecordedBan'
      BY <2>0, <3>1 DEF IInv, Agreement, Timing, RecordedBan
    <3>3. RequestsEnd' /\ Collected' /\ NoOrphanRoute'
      BY <3>1 DEF IInv, Agreement, RequestsEnd, Collected, NoOrphanRoute, InFlight
    <3> QED
      BY <3>2, <3>3 DEF Agreement
  <2>2. CASE ~(Len(Counted(th[t].ip, th[t].now)) < Threshold)
    <3>1. /\ th' = [th EXCEPT ![t].pc = "insert"] /\ UNCHANGED <<clock, blocked, sweep>>
          /\ banned' = [banned EXCEPT ![th[t].ip] = th[t].now + BanDuration]
      BY <1>3, <2>2 DEF Record, Ban
    <3>2. /\ \A u \in Threads : u # t => th'[u] = th[u]
          /\ th'[t].pc = "insert" /\ th'[t].ip = th[t].ip /\ th'[t].now = th[t].now
          /\ th'[t].start = th[t].start
      BY <3>1 DEF IInv, Types
    <3>3. /\ \A i \in Ips : i # th[t].ip => banned'[i] = banned[i] /\ blocked'[i] = blocked[i]
          /\ banned'[th[t].ip] = th[t].now + BanDuration /\ blocked'[th[t].ip] = blocked[th[t].ip]
      BY <2>0, <3>1 DEF IInv, Types
    <3>4. InFlight(t, th[t].ip)
      BY <2>0 DEF InFlight
    <3> QED
      BY <2>0, <3>1, <3>2, <3>3, <3>4, BanAgreement
  <2> QED
    BY <2>1, <2>2
<1>4. ASSUME NEW t \in Threads, InsertBan(t) PROVE Agreement'
  <2>1. /\ th[t].pc = "insert" /\ th[t].ip \in Ips
        /\ \A u \in Threads : u # t => th'[u] = th[u]
        /\ th'[t].pc = "idle" /\ UNCHANGED <<clock, banned, sweep>>
        /\ blocked'[th[t].ip] = "auto"
        /\ \A i \in Ips : i # th[t].ip => blocked'[i] = blocked[i]
    BY <1>4 DEF InsertBan, IInv, Types
  <2>2. banned[th[t].ip] # Nil
    BY <2>1 DEF IInv, Agreement, RequestsEnd, InFlight
  <2>3. Timing' /\ RecordedBan'
    BY <1>0, <2>1 DEF IInv, Agreement, Timing, RecordedBan
  <2>4. RequestsEnd' /\ NoOrphanRoute'
    BY <2>1, <2>2 DEF IInv, Agreement, RequestsEnd, NoOrphanRoute, InFlight
  <2>5. Collected'
    <3>1. sweep.lift \subseteq Ips
      BY DEF IInv, Types
    <3> QED
      BY <1>0, <2>1, <3>1 DEF IInv, Agreement, Collected, InFlight
  <2> QED
    BY <2>3, <2>4, <2>5 DEF Agreement
<1>5. ASSUME NEW t \in Threads, GoRecordViolation(t) PROVE Agreement'
  <2>0. /\ th[t].pc = "violation" /\ th[t].ip \in Ips /\ th[t].start <= clock
        /\ \A u \in Threads : u # t => th'[u] = th[u]
        /\ th'[t].pc = "idle" /\ UNCHANGED <<clock, sweep>>
    BY <1>5 DEF GoRecordViolation, IInv, Types, Agreement, Timing
  <2>1. CASE Len(Counted(th[t].ip, clock)) < Threshold
    <3>1. UNCHANGED <<banned, blocked>>
      BY <1>5, <2>1 DEF GoRecordViolation
    <3>2. Timing' /\ RecordedBan'
      BY <2>0, <3>1 DEF IInv, Agreement, Timing, RecordedBan
    <3>3. RequestsEnd' /\ Collected' /\ NoOrphanRoute'
      BY <2>0, <3>1 DEF IInv, Agreement, RequestsEnd, Collected, NoOrphanRoute, InFlight
    <3> QED
      BY <3>2, <3>3 DEF Agreement
  <2>2. CASE ~(Len(Counted(th[t].ip, clock)) < Threshold)
    <3>1. /\ banned' = [banned EXCEPT ![th[t].ip] = clock + BanDuration]
          /\ blocked' = [blocked EXCEPT ![th[t].ip] = "auto"]
      BY <1>5, <2>2 DEF GoRecordViolation, Ban
    <3>2. /\ \A i \in Ips : i # th[t].ip => banned'[i] = banned[i] /\ blocked'[i] = blocked[i]
          /\ banned'[th[t].ip] = clock + BanDuration /\ blocked'[th[t].ip] = "auto"
      BY <2>0, <3>1 DEF IInv, Types
    <3>3. InFlight(t, th[t].ip) /\ clock <= clock
      BY <1>0, <2>0 DEF InFlight
    <3> QED
      BY <1>0, <2>0, <3>2, <3>3, BanAgreement
  <2> QED
    BY <2>1, <2>2
<1>6. CASE Wake
  <2>1. sweep.lift = {} /\ UNCHANGED <<clock, banned, blocked, th>>
    BY <1>6 DEF Wake, IInv, Agreement, Collected
  <2>2. sweep'.now = clock /\ sweep'.lift = {} /\ sweep'.expired = {}
    BY <1>6 DEF Wake
  <2>3. Timing' /\ RecordedBan' /\ RequestsEnd'
    BY <1>0, <2>1, <2>2 DEF IInv, Agreement, Timing, RecordedBan, RequestsEnd, InFlight
  <2>4. Collected' /\ NoOrphanRoute'
    BY <2>1, <2>2 DEF IInv, Agreement, Collected, NoOrphanRoute
  <2> QED
    BY <2>3, <2>4 DEF Agreement
<1>7. ASSUME NEW ip \in Ips, Scan(ip) PROVE Agreement'
  <2>1. /\ UNCHANGED <<clock, banned, blocked, th>> /\ sweep.lift = {} /\ lang # "go"
        /\ sweep'.now = sweep.now /\ sweep'.lift = sweep.lift
        /\ sweep'.expired = IF Expired(ip) THEN sweep.expired \cup {ip} ELSE sweep.expired
    BY <1>7 DEF Scan, IInv, Types, Agreement, Collected
  <2>2. Expired(ip) => banned[ip] # Nil /\ banned[ip] <= clock
    <3>1. sweep.now <= clock /\ sweep.now \in Nat /\ banned[ip] \in Int \cup {Nil}
      BY DEF IInv, Types, Agreement, Timing
    <3> QED
      BY <1>0, <3>1 DEF Expired
  <2>3. Timing' /\ RecordedBan' /\ RequestsEnd' /\ NoOrphanRoute'
    BY <2>1 DEF IInv, Agreement, Timing, RecordedBan, RequestsEnd, NoOrphanRoute, InFlight
  <2>4. Collected'
    BY <2>1, <2>2 DEF IInv, Agreement, Collected
  <2> QED
    BY <2>3, <2>4 DEF Agreement
<1>8. ASSUME NEW ip \in Ips, Unban(ip) PROVE Agreement'
  <2>1. /\ sweep'.lift = sweep.lift \cup {ip} /\ sweep'.expired = sweep.expired \ {ip}
        /\ sweep'.scan = {} /\ sweep'.pc = "scan" /\ sweep'.now = sweep.now
        /\ UNCHANGED <<clock, blocked, th>>
    BY <1>8 DEF Unban, IInv, Types
  <2>2. /\ banned[ip] # Nil /\ banned[ip] <= clock /\ banned'[ip] = Nil
        /\ \A i \in Ips \ {ip} : banned'[i] = banned[i]
    BY <1>8 DEF Unban, IInv, Types, Agreement, Collected
  <2>3. {ip} \in SUBSET Ips
    OBVIOUS
  <2>4. \A i \in {ip} : banned[i] # Nil /\ banned[i] <= clock /\ banned'[i] = Nil
    BY <2>2
  <2> QED
    BY <2>1, <2>2, <2>3, <2>4, UnbanAgreement
<1>9. CASE GoSweep
  <2> DEFINE S == {ip \in Ips : Expired(ip)}
  <2>1. /\ sweep.lift = {} /\ sweep'.lift = S /\ sweep.expired = {} /\ sweep'.expired = {}
        /\ sweep'.scan = {} /\ sweep'.pc = "scan" /\ sweep'.now = sweep.now
        /\ UNCHANGED <<clock, blocked, th>>
        /\ banned' = [ip \in Ips |-> IF Expired(ip) THEN Nil ELSE banned[ip]]
    BY <1>9 DEF GoSweep, IInv, Types, Agreement, Collected
  <2>2. \A ip \in S : banned[ip] # Nil /\ banned[ip] <= clock /\ banned'[ip] = Nil
    <3>1. sweep.now <= clock /\ sweep.now \in Nat /\ \A ip \in Ips : banned[ip] \in Int \cup {Nil}
      BY DEF IInv, Types, Agreement, Timing
    <3> QED
      BY <1>0, <2>1, <3>1 DEF Expired
  <2>3. \A ip \in Ips \ S : banned'[ip] = banned[ip]
    BY <2>1
  <2>4. S \in SUBSET Ips /\ sweep'.lift = sweep.lift \cup S /\ sweep'.expired = sweep.expired \ S
    BY <2>1
  <2> HIDE DEF S
  <2> QED
    BY <2>1, <2>2, <2>3, <2>4, UnbanAgreement
<1>10. ASSUME NEW ip \in Ips, Lift(ip) PROVE Agreement'
  <2>1. /\ ip \in sweep.lift /\ sweep'.lift = sweep.lift \ {ip}
        /\ sweep'.expired = sweep.expired /\ sweep'.scan = sweep.scan
        /\ sweep'.pc = sweep.pc /\ sweep'.now = sweep.now
        /\ UNCHANGED <<clock, banned, th>> /\ blocked'[ip] = Nil
        /\ \A i \in Ips : i # ip => blocked'[i] = blocked[i]
    BY <1>10 DEF Lift, IInv, Types
  <2>2. banned[ip] = Nil
    BY <2>1 DEF IInv, Agreement, Collected
  <2>3. Timing' /\ RecordedBan' /\ RequestsEnd'
    BY <2>1, <2>2 DEF IInv, Agreement, Timing, RecordedBan, RequestsEnd, InFlight
  <2>4. NoOrphanRoute'
    BY <1>0, <2>1 DEF IInv, Agreement, NoOrphanRoute
  <2>5. Collected'
    <3>1. sweep.lift \subseteq Ips
      BY DEF IInv, Types
    <3> QED
      BY <2>1, <3>1 DEF IInv, Agreement, Collected, InFlight
  <2> QED
    BY <2>3, <2>4, <2>5 DEF Agreement
<1>11. CASE Sleep
  <2>1. sweep.lift = {} /\ UNCHANGED <<clock, banned, blocked, th>>
    BY <1>11 DEF Sleep
  <2>2. sweep'.now = 0 /\ sweep'.lift = {} /\ sweep'.expired = {}
    BY <1>11 DEF Sleep
  <2>3. Timing' /\ RecordedBan' /\ RequestsEnd'
    BY <1>0, <2>1, <2>2 DEF IInv, Agreement, Timing, RecordedBan, RequestsEnd, InFlight
  <2>4. Collected' /\ NoOrphanRoute'
    BY <2>1, <2>2 DEF IInv, Agreement, Collected, NoOrphanRoute
  <2> QED
    BY <2>3, <2>4 DEF Agreement
<1>12. ASSUME NEW ip \in Ips, OperatorInsert(ip) PROVE Agreement'
  <2>1. /\ blocked'[ip] = "operator" /\ \A i \in Ips : i # ip => blocked'[i] = blocked[i]
        /\ UNCHANGED <<clock, banned, th, sweep>>
    BY <1>12 DEF OperatorInsert, IInv, Types
  <2>2. Timing' /\ RecordedBan' /\ RequestsEnd' /\ NoOrphanRoute'
    <3>1. Timing' /\ RequestsEnd'
      BY <2>1 DEF IInv, Agreement, Timing, RequestsEnd, InFlight
    <3>2. RecordedBan'
      BY <1>0, <2>1 DEF IInv, Agreement, RecordedBan
    <3>3. NoOrphanRoute'
      BY <1>0, <2>1 DEF IInv, Agreement, NoOrphanRoute
    <3> QED
      BY <3>1, <3>2, <3>3
  <2>3. Collected'
    <3>1. sweep.lift \subseteq Ips
      BY DEF IInv, Types
    <3> QED
      BY <1>0, <2>1, <3>1 DEF IInv, Agreement, Collected, InFlight
  <2> QED
    BY <2>2, <2>3 DEF Agreement
<1>13. CASE Tick
  <2>1. /\ clock' = clock + 1 /\ UNCHANGED <<banned, blocked, th, sweep>>
        /\ \A t \in Threads : th[t].pc # "idle" => clock < th[t].start + MaxDelay
    BY <1>13 DEF Tick
  <2>2. /\ \A t \in Threads : th[t].start \in Nat /\ th[t].now \in Nat
        /\ sweep.now \in Nat /\ sweep.expired \subseteq Ips
        /\ \A ip \in Ips : banned[ip] \in Int \cup {Nil}
    BY DEF IInv, Types
  <2>3. Timing'
    BY <1>0, <2>1, <2>2 DEF IInv, Agreement, Timing
  <2>4. RecordedBan' /\ RequestsEnd' /\ NoOrphanRoute'
    BY <2>1 DEF IInv, Agreement, RecordedBan, RequestsEnd, NoOrphanRoute, InFlight
  <2>5. Collected'
    BY <1>0, <2>1, <2>2 DEF IInv, Agreement, Collected, InFlight
  <2> QED
    BY <2>3, <2>4, <2>5 DEF Agreement
<1>14. CASE UNCHANGED vars
  BY <1>14 DEF vars, IInv, Agreement, Timing, RecordedBan, RequestsEnd, Collected, NoOrphanRoute, InFlight
<1> QED
  BY <1>1, <1>2, <1>3, <1>4, <1>5, <1>6, <1>7, <1>8, <1>9, <1>10, <1>11, <1>12, <1>13, <1>14
     DEF Next, Finish, Sweeper

(***************************************************************************)
(* While requests take less than half a ban, an active ban blocks and no   *)
(* host route is left behind (auto_ban.rs:79-157): for any number of       *)
(* addresses and threads, threshold and window, in Rust and in Go, with or *)
(* without an operator's own routes.                                       *)
(***************************************************************************)
THEOREM BansAgree == ASSUME Timely PROVE Spec => [](ActiveBanBlocks /\ NoOrphanRoute)
<1>1. IInv => ActiveBanBlocks /\ NoOrphanRoute
  BY DEF IInv, Agreement, RecordedBan, ActiveBanBlocks, Inserting
<1>2. IInv /\ [Next]_vars => IInv'
  BY NextTypes, NextAgreement DEF IInv
<1> QED
  BY InitIInv, <1>1, <1>2, PTL DEF Spec

(***************************************************************************)
(* Under the same assumption the table and the engine lose an address only *)
(* while no ban of it is active (auto_ban.rs:133-155).                     *)
(***************************************************************************)
THEOREM SweepIsSafe == ASSUME Timely PROVE Spec => SweepLiftsExpiredBans
<1>1. IInv /\ [Next]_vars => IInv'
  BY NextTypes, NextAgreement DEF IInv
<1>2. IInv /\ [Next]_vars =>
        \A ip \in Ips :
            (\/ banned[ip] # Nil /\ banned'[ip] = Nil
             \/ blocked[ip] # Nil /\ blocked'[ip] = Nil)
                => banned[ip] = Nil \/ banned[ip] <= clock
  <2> SUFFICES ASSUME IInv, [Next]_vars, NEW ip \in Ips
               PROVE  (\/ banned[ip] # Nil /\ banned'[ip] = Nil
                       \/ blocked[ip] # Nil /\ blocked'[ip] = Nil)
                           => banned[ip] = Nil \/ banned[ip] <= clock
    OBVIOUS
  <2>1. ASSUME blocked[ip] # Nil, blocked'[ip] = Nil
        PROVE  banned[ip] = Nil \/ banned[ip] <= clock
    <3>0. blocked \in [Ips -> {"auto", "operator", Nil}] /\ Nil # "auto" /\ Nil # "operator"
      BY ConstantsAssumption DEF IInv, Types
    <3>1. CASE \E t \in Threads : Finish(t) \/ \E i \in Ips : Request(t, i)
      BY <2>1, <3>0, <3>1 DEF Finish, Request, ReadClock, Record, InsertBan, GoRecordViolation
    <3>2. ASSUME NEW i \in Ips, Lift(i) PROVE banned[ip] = Nil \/ banned[ip] <= clock
      <4>1. i = ip
        BY <2>1, <3>0, <3>2 DEF Lift
      <4> QED
        BY <3>2, <4>1 DEF IInv, Agreement, Collected, Lift
    <3>3. CASE \/ Wake \/ GoSweep \/ Sleep \/ Tick \/ UNCHANGED vars
               \/ \E i \in Ips : Scan(i) \/ Unban(i) \/ OperatorInsert(i)
      BY <2>1, <3>0, <3>3 DEF Wake, GoSweep, Sleep, Tick, vars, Scan, Unban, OperatorInsert
    <3> QED
      BY <3>1, <3>2, <3>3 DEF Next, Sweeper
  <2>2. ASSUME banned[ip] # Nil, banned'[ip] = Nil PROVE banned[ip] <= clock
    <3>0. /\ banned \in [Ips -> Int \cup {Nil}] /\ clock \in Nat /\ sweep.now \in Nat
          /\ sweep.now <= clock /\ BanDuration \in Nat /\ \A n \in Nat : n # Nil
          /\ \A t \in Threads : th[t].now \in Nat
      BY ConstantsAssumption DEF IInv, Types, Agreement, Timing
    <3>1. CASE \E t \in Threads : Finish(t) \/ \E i \in Ips : Request(t, i)
      <4>1. banned' # banned
        BY <2>2
      <4>2. PICK t \in Threads : Record(t) \/ GoRecordViolation(t)
        BY <3>1, <4>1 DEF Finish, Request, ReadClock, InsertBan
      <4>3. PICK n \in Nat : banned' = [banned EXCEPT ![th[t].ip] = n]
        <5>1. th[t].now + BanDuration \in Nat /\ clock + BanDuration \in Nat
          BY <3>0
        <5> QED
          BY <4>1, <4>2, <5>1 DEF Record, GoRecordViolation, Ban
      <4> QED
        BY <2>2, <3>0, <4>3
    <3>2. CASE GoSweep
      BY <2>2, <3>0, <3>2 DEF GoSweep, Expired
    <3>3. ASSUME NEW i \in Ips, Unban(i) PROVE banned[ip] <= clock
      BY <2>2, <3>0, <3>3 DEF Unban, IInv, Agreement, Collected
    <3>4. CASE \/ Wake \/ Sleep \/ Tick \/ UNCHANGED vars
               \/ \E i \in Ips : Scan(i) \/ Lift(i) \/ OperatorInsert(i)
      BY <2>2, <3>4 DEF Wake, Sleep, Tick, vars, Scan, Lift, OperatorInsert
    <3> QED
      BY <3>1, <3>2, <3>3, <3>4 DEF Next, Sweeper
  <2> QED
    BY <2>1, <2>2
<1> QED
  BY InitIInv, <1>1, <1>2, PTL DEF Spec, SweepLiftsExpiredBans
----------------------------------------------------------------------------
(***************************************************************************)
(* Go changes table and engine under one mutex, so its host routes are     *)
(* cleaned up however long requests take (auto_ban.go:55-167).             *)
(***************************************************************************)
THEOREM GoNoOrphan == Spec /\ lang = "go" => []NoOrphanRoute
<1> DEFINE GoInv ==
        /\ lang = "go" /\ Types /\ NoOrphanRoute
        /\ \A t \in Threads : th[t].pc \in {"idle", "violation"}
        /\ sweep.pc = "sleep" \/ sweep.scan # {} => sweep.lift = {}
<1>1. Init /\ lang = "go" => GoInv
  <2> SUFFICES ASSUME Init, lang = "go" PROVE GoInv
    OBVIOUS
  <2>1. Types /\ NoOrphanRoute
    BY InitIInv DEF IInv, Agreement
  <2> QED
    BY <2>1 DEF Init, Idle, Asleep
<1>2. GoInv /\ [Next]_vars => GoInv'
  <2> SUFFICES ASSUME GoInv, [Next]_vars PROVE GoInv'
    OBVIOUS
  <2> lang' = lang
    BY DEF Next, vars
  <2>0. /\ Types' /\ Nil # "auto" /\ Nil # "operator"
        /\ \A n \in Nat : n + BanDuration # Nil
    BY NextTypes, ConstantsAssumption
  <2>1. ASSUME NEW t \in Threads, NEW ip \in Ips, Request(t, ip) PROVE GoInv'
    BY <2>0, <2>1 DEF Request, Types, NoOrphanRoute
  <2>2. ASSUME NEW t \in Threads, ReadClock(t) \/ Record(t) \/ InsertBan(t) PROVE FALSE
    BY <2>2 DEF ReadClock, Record, InsertBan
  <2>3. ASSUME NEW t \in Threads, GoRecordViolation(t) PROVE GoInv'
    <3>1. /\ th' = [th EXCEPT ![t] = Idle] /\ UNCHANGED <<clock, sweep>> /\ th[t].ip \in Ips
          /\ \/ UNCHANGED <<banned, blocked>>
             \/ /\ banned' = [banned EXCEPT ![th[t].ip] = clock + BanDuration]
                /\ blocked' = [blocked EXCEPT ![th[t].ip] = "auto"]
      BY <2>3 DEF GoRecordViolation, Ban, Types
    <3>2. NoOrphanRoute'
      BY <2>0, <3>1 DEF NoOrphanRoute, Types
    <3> QED
      BY <2>0, <3>1, <3>2 DEF Types, Idle
  <2>4. CASE Wake
    BY <2>0, <2>4 DEF Wake, Asleep, NoOrphanRoute
  <2>5. ASSUME NEW ip \in Ips, Scan(ip) \/ Unban(ip) PROVE FALSE
    BY <2>5 DEF Scan, Unban
  <2>6. CASE GoSweep
    BY <2>0, <2>6 DEF GoSweep, Types, NoOrphanRoute
  <2>7. ASSUME NEW ip \in Ips, Lift(ip) PROVE GoInv'
    BY <2>0, <2>7 DEF Lift, Types, NoOrphanRoute
  <2>8. CASE Sleep
    BY <2>0, <2>8 DEF Sleep, Asleep, NoOrphanRoute
  <2>9. ASSUME NEW ip \in Ips, OperatorInsert(ip) PROVE GoInv'
    BY <2>0, <2>9 DEF OperatorInsert, Types, NoOrphanRoute
  <2>10. CASE Tick \/ UNCHANGED vars
    BY <2>0, <2>10 DEF Tick, vars, NoOrphanRoute
  <2> QED
    BY <2>1, <2>2, <2>3, <2>4, <2>5, <2>6, <2>7, <2>8, <2>9, <2>10 DEF Next, Finish, Sweeper
<1>3. GoInv => NoOrphanRoute
  OBVIOUS
<1> QED
  BY <1>1, <1>2, <1>3, PTL DEF Spec
----------------------------------------------------------------------------
(***************************************************************************)
(* A non-empty set of naturals has a least element.                        *)
(***************************************************************************)
LEMMA LeastNat ==
    ASSUME NEW T \in SUBSET Nat, T # {}
    PROVE  \E x \in T : \A y \in T : x <= y
<1> DEFINE Less == {ss \in Nat \X Nat : ss[1] < ss[2]}
<1>1. IsWellFoundedOn(Less, Nat)
  BY NatLessThanWellFounded DEF OpToRel
<1> HIDE DEF Less
<1>2. PICK x \in T : \A y \in T : ~ (<<y, x>> \in Less)
  BY <1>1, WFMin
<1>3. \A y \in T : x <= y
  <2> TAKE y \in T
  <2>1. ~ (<<y, x>> \in Less)
    BY <1>2
  <2> QED
    BY <2>1 DEF Less
<1> QED
  BY <1>3

(***************************************************************************)
(* A set that holds 0 and the successor of each of its naturals holds all  *)
(* naturals.                                                               *)
(***************************************************************************)
LEMMA InductionOnSet ==
    ASSUME NEW S, 0 \in S, \A n \in Nat : n \in S => n + 1 \in S
    PROVE  \A n \in Nat : n \in S
<1> SUFFICES ASSUME Nat \ S # {} PROVE FALSE
  OBVIOUS
<1>1. PICK x \in Nat \ S : \A y \in Nat \ S : x <= y
  BY LeastNat
<1>2. x - 1 \in Nat /\ x - 1 \notin Nat \ S
  BY <1>1
<1> QED
  BY <1>1, <1>2

\* f collects the times of the window among the first n
Collects(f, s, now, n) ==
    f = [i \in 0..n |-> IF i = 0 THEN <<>>
                        ELSE IF InWindow(s[i], now) THEN Append(f[i - 1], s[i])
                        ELSE f[i - 1]]

(***************************************************************************)
(* The loop of RecordViolation, and retain, are defined for every list and *)
(* every part of it (auto_ban.rs:92-94).                                   *)
(***************************************************************************)
LEMMA CollectsExists ==
    ASSUME NEW s, NEW now
    PROVE  \A n \in Nat : \E f : Collects(f, s, now, n)
<1> PICK S : S = {n \in Nat : \E f : Collects(f, s, now, n)}
  OBVIOUS
<1>1. 0 \in S
  <2>1. Collects([i \in 0..0 |-> <<>>], s, now, 0)
    BY DEF Collects
  <2> QED
    BY <2>1
<1>2. ASSUME NEW n \in Nat, n \in S PROVE n + 1 \in S
  <2>1. PICK f : Collects(f, s, now, n)
    BY <1>2
  <2>2. PICK x : x = IF InWindow(s[n + 1], now) THEN Append(f[n], s[n + 1]) ELSE f[n]
    OBVIOUS
  <2>3. PICK g : g = [i \in 0..(n + 1) |-> IF i = n + 1 THEN x ELSE f[i]]
    OBVIOUS
  <2>4. ASSUME NEW i \in 0..(n + 1)
        PROVE  g[i] = IF i = 0 THEN <<>>
                      ELSE IF InWindow(s[i], now) THEN Append(g[i - 1], s[i]) ELSE g[i - 1]
    <3>1. CASE i = n + 1
      <4>1. i # 0 /\ i - 1 = n /\ n \in 0..(n + 1) /\ n # n + 1
        BY <3>1
      <4>2. g[i] = x /\ g[i - 1] = f[n]
        BY <2>3, <3>1, <4>1
      <4> QED
        BY <2>2, <3>1, <4>1, <4>2
    <3>2. CASE i # n + 1
      <4>1. i \in 0..n /\ (i # 0 => i - 1 \in 0..n /\ i - 1 \in 0..(n + 1) /\ i - 1 # n + 1)
        BY <3>2
      <4>2. g[i] = f[i] /\ (i # 0 => g[i - 1] = f[i - 1])
        BY <2>3, <3>2, <4>1
      <4>3. f[i] = IF i = 0 THEN <<>>
                   ELSE IF InWindow(s[i], now) THEN Append(f[i - 1], s[i]) ELSE f[i - 1]
        BY <2>1, <4>1 DEF Collects
      <4> QED
        BY <4>2, <4>3
    <3> QED
      BY <3>1, <3>2
  <2>5. Collects(g, s, now, n + 1)
    <3>1. g = [i \in 0..(n + 1) |-> g[i]]
      BY <2>3
    <3> QED
      BY <2>4, <3>1 DEF Collects
  <2> QED
    BY <2>5
<1>3. \A n \in Nat : n \in S
  BY <1>1, <1>2, InductionOnSet
<1> QED
  BY <1>3

(***************************************************************************)
(* What pruning keeps lies between the start of the window and any bound   *)
(* on the times stored (auto_ban.rs:92-94).                                *)
(***************************************************************************)
LEMMA KeptTimes ==
    ASSUME NEW s \in Seq(Int), NEW now \in Int, NEW hi \in Int, \A i \in 1..Len(s) : s[i] <= hi
    PROVE  /\ Kept(s, now) \in Seq(Int)
           /\ \A k \in 1..Len(Kept(s, now)) : Kept(s, now)[k] \in (now - Window)..hi
<1>0. Window \in Nat /\ Len(s) \in Nat
  BY ConstantsAssumption
<1>1. PICK f : f = (CHOOSE h : Collects(h, s, now, Len(s)))
  OBVIOUS
<1>2. Kept(s, now) = f[Len(s)]
  BY <1>1 DEF Kept, Collects
<1>3. Collects(f, s, now, Len(s))
  BY <1>0, <1>1, CollectsExists
<1> DEFINE Good(q) == q \in Seq(Int) /\ \A k \in 1..Len(q) : q[k] \in (now - Window)..hi
<1> PICK S : S = {n \in Nat : n <= Len(s) => Good(f[n])}
  OBVIOUS
<1>4. 0 \in S
  <2>1. 0 \in 0..Len(s)
    BY <1>0
  <2>2. f[0] = <<>>
    BY <1>3, <2>1 DEF Collects
  <2>3. <<>> \in Seq(Int) /\ Len(<<>>) = 0
    OBVIOUS
  <2>4. Good(f[0])
    BY <2>2, <2>3
  <2> QED
    BY <2>4
<1>5. ASSUME NEW n \in Nat, n \in S PROVE n + 1 \in S
  <2> SUFFICES ASSUME n + 1 <= Len(s) PROVE Good(f[n + 1])
    OBVIOUS
  <2>1. n + 1 \in 0..Len(s) /\ n + 1 # 0 /\ (n + 1) - 1 = n /\ n <= Len(s) /\ n + 1 \in 1..Len(s)
    BY <1>0
  <2>2. Good(f[n])
    BY <1>5, <2>1
  <2>3. f[n + 1] = IF InWindow(s[n + 1], now) THEN Append(f[n], s[n + 1]) ELSE f[n]
    BY <1>3, <2>1 DEF Collects
  <2>4. s[n + 1] \in Int /\ s[n + 1] <= hi
    BY <2>1
  <2>5. CASE InWindow(s[n + 1], now)
    <3>1. s[n + 1] \in (now - Window)..hi
      BY <1>0, <2>4, <2>5 DEF InWindow
    <3> PICK q \in Seq(Int), x \in Int : q = f[n] /\ x = s[n + 1]
      BY <2>2, <2>4
    <3>2. /\ Append(q, x) \in Seq(Int) /\ Len(Append(q, x)) = Len(q) + 1 /\ Len(q) \in Nat
          /\ \A k \in 1..Len(q) : Append(q, x)[k] = q[k] /\ Append(q, x)[Len(q) + 1] = x
          /\ Append(q, x)[Len(q) + 1] = x
      OBVIOUS
    <3>3. \A k \in 1..(Len(q) + 1) : k \in 1..Len(q) \/ k = Len(q) + 1
      BY <3>2
    <3> QED
      BY <2>2, <2>3, <2>5, <3>1, <3>2, <3>3
  <2>6. CASE ~InWindow(s[n + 1], now)
    BY <2>2, <2>3, <2>6
  <2> QED
    BY <2>5, <2>6
<1>6. Len(s) \in S
  BY <1>0, <1>4, <1>5, InductionOnSet
<1> QED
  BY <1>0, <1>2, <1>6

\* stored violation times are past
Recorded ==
    /\ violations \in [Ips -> Seq(Int)]
    /\ evidence \in Seq(Int)
    /\ \A ip \in Ips : \A i \in 1..Len(violations[ip]) : violations[ip][i] <= clock

Counting == Types /\ Timing /\ Recorded /\ BanNeedsThreshold

(***************************************************************************)
(* Every step keeps the clock readings past and the requests in time; no   *)
(* assumption on the length of a ban is needed for that.                   *)
(***************************************************************************)
LEMMA NextTiming == ASSUME Types, Timing, Types', [Next]_vars PROVE Timing'
<1>0. clock \in Nat /\ MaxDelay \in Nat /\ sweep.now \in Nat
  BY ConstantsAssumption DEF Types
<1>00. th \in [Threads -> [pc : {"idle", "violation", "record", "insert"},
                           ip : Ips \cup {Nil}, start : Nat, now : Nat]]
  BY DEF Types
<1> USE <1>0 DEF Idle, Asleep
<1>1. ASSUME NEW t \in Threads, NEW ip \in Ips, Request(t, ip) PROVE Timing'
  <2>1. /\ \A u \in Threads : u # t => th'[u] = th[u]
        /\ th'[t].pc = "violation" /\ th'[t].start = clock /\ UNCHANGED <<clock, sweep>>
    BY <1>1, <1>00 DEF Request
  <2> QED
    BY <2>1 DEF Timing
<1>2. ASSUME NEW t \in Threads, ReadClock(t) PROVE Timing'
  <2>1. /\ \A u \in Threads : u # t => th'[u] = th[u]
        /\ th[t].pc = "violation" /\ th'[t].start = th[t].start
        /\ th'[t].now = clock /\ UNCHANGED <<clock, sweep>>
    BY <1>2, <1>00 DEF ReadClock
  <2> QED
    BY <2>1 DEF Timing
<1>3. ASSUME NEW t \in Threads, Record(t) \/ InsertBan(t) \/ GoRecordViolation(t) PROVE Timing'
  <2>1. /\ \A u \in Threads : u # t => th'[u] = th[u]
        /\ \/ th'[t].pc = "idle"
           \/ th[t].pc = "record" /\ th'[t].start = th[t].start /\ th'[t].now = th[t].now
        /\ UNCHANGED <<clock, sweep>>
    BY <1>3, <1>00 DEF Record, InsertBan, GoRecordViolation
  <2> QED
    BY <2>1 DEF Timing
<1>4. CASE Sweeper
  <2>1. UNCHANGED <<clock, th>>
    BY <1>4 DEF Sweeper, Wake, Scan, Unban, GoSweep, Lift, Sleep
  <2>2. sweep'.now \in {sweep.now, clock, 0}
    <3>1. sweep \in [pc : {"sleep", "scan"}, now : Nat, scan : SUBSET Ips,
                     expired : SUBSET Ips, lift : SUBSET Ips]
      BY DEF Types
    <3>2. CASE Wake
      BY <3>2 DEF Wake
    <3>7. CASE Sleep
      BY <3>7 DEF Sleep
    <3>3. CASE GoSweep
      BY <3>1, <3>3 DEF GoSweep
    <3>4. ASSUME NEW ip \in Ips, Scan(ip) PROVE sweep'.now = sweep.now
      BY <3>1, <3>4 DEF Scan
    <3>5. ASSUME NEW ip \in Ips, Unban(ip) PROVE sweep'.now = sweep.now
      BY <3>1, <3>5 DEF Unban
    <3>6. ASSUME NEW ip \in Ips, Lift(ip) PROVE sweep'.now = sweep.now
      BY <3>1, <3>6 DEF Lift
    <3> QED
      BY <1>4, <3>2, <3>3, <3>4, <3>5, <3>6, <3>7 DEF Sweeper
  <2> QED
    BY <2>1, <2>2 DEF Timing
<1>5. ASSUME NEW ip \in Ips, OperatorInsert(ip) PROVE Timing'
  BY <1>5 DEF OperatorInsert, Timing
<1>6. CASE Tick
  <2>1. /\ \A t \in Threads : th[t].pc # "idle" => clock < th[t].start + MaxDelay
        /\ clock' = clock + 1 /\ UNCHANGED <<th, sweep>>
    BY <1>6 DEF Tick
  <2>2. \A t \in Threads : th[t].start \in Nat /\ th[t].now \in Nat
    BY <1>00
  <2> QED
    BY <2>1, <2>2 DEF Timing
<1>7. CASE UNCHANGED vars
  BY <1>7 DEF vars, Timing
<1> QED
  BY <1>1, <1>2, <1>3, <1>4, <1>5, <1>6, <1>7 DEF Next, Finish

(***************************************************************************)
(* The times counted against the threshold lie between the start of the    *)
(* window and the present.                                                 *)
(***************************************************************************)
LEMMA CountedTimes ==
    ASSUME Types, Recorded, NEW ip \in Ips, NEW now \in Nat, now <= clock
    PROVE  /\ Counted(ip, now) \in Seq(Int) /\ Len(Counted(ip, now)) # 0
           /\ \A k \in 1..Len(Counted(ip, now)) : Counted(ip, now)[k] \in (now - Window)..clock
<1>0. clock \in Nat /\ Window \in Nat
  BY ConstantsAssumption DEF Types
<1>1. violations[ip] \in Seq(Int) /\ \A i \in 1..Len(violations[ip]) : violations[ip][i] <= clock
  BY DEF Recorded
<1>2. PICK q \in Seq(Int) :
        q = Kept(violations[ip], now) /\ \A k \in 1..Len(q) : q[k] \in (now - Window)..clock
  <2>1. clock \in Int /\ now \in Int
    BY <1>0
  <2> QED
    BY <1>1, <2>1, KeptTimes
<1>3. \A k \in 1..Len(q) : q[k] \in (now - Window)..clock
  BY <1>2
<1>4. /\ Append(q, now) \in Seq(Int) /\ Len(Append(q, now)) = Len(q) + 1 /\ Len(q) \in Nat
      /\ \A k \in 1..Len(q) : Append(q, now)[k] = q[k]
      /\ Append(q, now)[Len(q) + 1] = now
  OBVIOUS
<1>5. \A k \in 1..(Len(q) + 1) : k \in 1..Len(q) \/ k = Len(q) + 1
  BY <1>4
<1>6. now \in (now - Window)..clock
  BY <1>0
<1>7. Counted(ip, now) = Append(q, now)
  BY <1>2 DEF Counted
<1> QED
  BY <1>3, <1>4, <1>5, <1>6, <1>7

(***************************************************************************)
(* Recording a violation (record_violation, RecordViolation) keeps the     *)
(* list below the threshold, and bans only on times no further apart than  *)
(* the window and the time a request may take.                             *)
(***************************************************************************)
LEMMA RecordCounting ==
    ASSUME Counting, NEW ip \in Ips, NEW now \in Nat, now <= clock, clock <= now + MaxDelay,
           clock' = clock,
           \/ /\ Len(Counted(ip, now)) < Threshold
              /\ violations' = [violations EXCEPT ![ip] = Counted(ip, now)]
              /\ UNCHANGED evidence
           \/ ~(Len(Counted(ip, now)) < Threshold) /\ Ban(ip, now)
    PROVE  Recorded' /\ BanNeedsThreshold'
<1>0. clock \in Nat /\ Window \in Nat /\ MaxDelay \in Nat /\ Threshold \in Nat \ {0}
  BY ConstantsAssumption DEF Counting, Types
<1>1. PICK c \in Seq(Int) :
        /\ c = Counted(ip, now) /\ Len(c) # 0
        /\ \A k \in 1..Len(c) : c[k] \in (now - Window)..clock
  BY CountedTimes DEF Counting
<1>2. violations \in [Ips -> Seq(Int)] /\ evidence \in Seq(Int)
  BY DEF Counting, Recorded
<1>3. PICK v \in Seq(Int) :
        /\ violations' = [violations EXCEPT ![ip] = v] /\ Len(v) < Threshold
        /\ \A k \in 1..Len(v) : v[k] <= clock
  <2>1. CASE Len(c) < Threshold /\ violations' = [violations EXCEPT ![ip] = c]
    <3>1. \A k \in 1..Len(c) : c[k] <= clock
      BY <1>0, <1>1
    <3> QED
      BY <2>1, <3>1
  <2>2. CASE violations' = [violations EXCEPT ![ip] = <<>>]
    <3>1. <<>> \in Seq(Int) /\ Len(<<>>) = 0 /\ 0 < Threshold /\ 1..0 = {}
      BY <1>0
    <3> QED
      BY <2>2, <3>1
  <2> QED
    BY <1>1, <2>1, <2>2 DEF Ban
<1>4. /\ violations' \in [Ips -> Seq(Int)] /\ violations'[ip] = v
      /\ \A i \in Ips : i # ip => violations'[i] = violations[i]
  BY <1>2, <1>3
<1>5. \A i \in Ips : Len(violations'[i]) < Threshold
  BY <1>3, <1>4 DEF Counting, BanNeedsThreshold
<1>6. \A i \in Ips : \A k \in 1..Len(violations'[i]) : violations'[i][k] <= clock'
  BY <1>3, <1>4 DEF Counting, Recorded
<1>7. CASE UNCHANGED evidence
  BY <1>2, <1>4, <1>5, <1>6, <1>7 DEF Counting, Recorded, BanNeedsThreshold
<1>8. CASE evidence' = c /\ ~(Len(c) < Threshold)
  <2>1. Len(c) >= Threshold
    BY <1>0, <1>8
  <2>2. ASSUME NEW i \in DOMAIN c, NEW j \in DOMAIN c PROVE c[i] - c[j] <= Window + MaxDelay
    <3>1. c[i] \in (now - Window)..clock /\ c[j] \in (now - Window)..clock
      BY <1>1
    <3> QED
      BY <1>0, <3>1
  <2> QED
    BY <1>4, <1>5, <1>6, <1>8, <2>1, <2>2 DEF Recorded, BanNeedsThreshold
<1> QED
  BY <1>1, <1>7, <1>8 DEF Ban

(***************************************************************************)
(* Every step keeps the stored times past and the evidence behind a ban    *)
(* sufficient.                                                             *)
(***************************************************************************)
LEMMA NextCounting == ASSUME Counting, [Next]_vars PROVE Counting'
<1>1. Types' /\ Timing'
  BY NextTypes, NextTiming DEF Counting
<1>0. clock \in Nat /\ MaxDelay \in Nat /\ \A t \in Threads : th[t].now \in Nat /\ th[t].start \in Nat
  BY ConstantsAssumption DEF Counting, Types
<1>2. ASSUME NEW t \in Threads, Record(t) PROVE Recorded' /\ BanNeedsThreshold'
  <2>1. th[t].pc = "record" /\ th[t].ip \in Ips /\ clock' = clock
    BY <1>2 DEF Record, Counting, Types
  <2>2. th[t].now <= clock /\ clock <= th[t].now + MaxDelay
    BY <1>0, <2>1 DEF Counting, Timing
  <2>3. \/ /\ Len(Counted(th[t].ip, th[t].now)) < Threshold
           /\ violations' = [violations EXCEPT ![th[t].ip] = Counted(th[t].ip, th[t].now)]
           /\ UNCHANGED evidence
        \/ ~(Len(Counted(th[t].ip, th[t].now)) < Threshold) /\ Ban(th[t].ip, th[t].now)
    BY <1>2 DEF Record
  <2> QED
    BY <1>0, <2>1, <2>2, <2>3, RecordCounting
<1>3. ASSUME NEW t \in Threads, GoRecordViolation(t) PROVE Recorded' /\ BanNeedsThreshold'
  <2>1. th[t].ip \in Ips /\ clock' = clock
    BY <1>3 DEF GoRecordViolation, Counting, Types
  <2>2. clock <= clock /\ clock <= clock + MaxDelay
    BY <1>0
  <2>3. \/ /\ Len(Counted(th[t].ip, clock)) < Threshold
           /\ violations' = [violations EXCEPT ![th[t].ip] = Counted(th[t].ip, clock)]
           /\ UNCHANGED evidence
        \/ ~(Len(Counted(th[t].ip, clock)) < Threshold) /\ Ban(th[t].ip, clock)
    BY <1>3 DEF GoRecordViolation
  <2> QED
    BY <1>0, <2>1, <2>2, <2>3, RecordCounting
<1>4. CASE Tick
  <2>1. clock' = clock + 1 /\ UNCHANGED <<violations, evidence>>
    BY <1>4 DEF Tick
  <2>2. \A ip \in Ips : \A i \in 1..Len(violations[ip]) : violations[ip][i] <= clock + 1
    <3> TAKE ip \in Ips
    <3> TAKE i \in 1..Len(violations[ip])
    <3>1. violations[ip][i] \in Int /\ violations[ip][i] <= clock
      BY DEF Counting, Recorded
    <3> QED
      BY <1>0, <3>1
  <2>3. Recorded'
    BY <2>1, <2>2 DEF Counting, Recorded
  <2>4. BanNeedsThreshold'
    BY <2>1, Zenon DEF Counting, BanNeedsThreshold
  <2> QED
    BY <1>1, <2>3, <2>4 DEF Counting
<1>5. CASE UNCHANGED <<clock, violations, evidence>>
  <2>1. clock' = clock /\ violations' = violations /\ evidence' = evidence
    BY <1>5
  <2>2. Recorded' /\ BanNeedsThreshold'
    BY <2>1, Zenon DEF Counting, Recorded, BanNeedsThreshold
  <2> QED
    BY <1>1, <2>2 DEF Counting
<1>6. \/ \E t \in Threads : Record(t) \/ GoRecordViolation(t)
      \/ Tick
      \/ UNCHANGED <<clock, violations, evidence>>
  BY DEF Next, vars, Finish, Sweeper, Request, ReadClock, InsertBan, Wake, Scan, Unban, GoSweep,
         Lift, Sleep, OperatorInsert
<1> QED
  BY <1>1, <1>2, <1>3, <1>4, <1>5, <1>6 DEF Counting

(***************************************************************************)
(* A ban needs the threshold of violations inside the window, up to the    *)
(* time a request may take (auto_ban.rs:3-4), and the stored list stays    *)
(* below the threshold: for both languages, any addresses, threads,        *)
(* threshold and window, and without an assumption on the length of a ban. *)
(***************************************************************************)
THEOREM BansNeedThreshold == Spec => []BanNeedsThreshold
<1>1. Init => Counting
  <2> SUFFICES ASSUME Init PROVE Counting
    OBVIOUS
  <2>1. Types /\ Timing
    BY InitIInv DEF IInv, Agreement
  <2>2. <<>> \in Seq(Int) /\ Len(<<>>) = 0 /\ 1..0 = {} /\ 0 < Threshold
    BY ConstantsAssumption
  <2>3. evidence = <<>> /\ violations = [ip \in Ips |-> <<>>]
    BY DEF Init
  <2>4. Recorded /\ BanNeedsThreshold
    BY <2>2, <2>3 DEF Recorded, BanNeedsThreshold
  <2> QED
    BY <2>1, <2>4 DEF Counting
<1>2. Counting /\ [Next]_vars => Counting'
  BY NextCounting
<1>3. Counting => BanNeedsThreshold
  BY DEF Counting
<1> QED
  BY <1>1, <1>2, <1>3, PTL DEF Spec
=============================================================================
