------------------------------ MODULE HybridSync ------------------------------
(***************************************************************************)
(* HybridEngine (lib/rust/engine/src/hybrid.rs, lib/go/engine/hybrid.go):  *)
(* every process writes to its own control plane, to the Redis hash        *)
(* radixip:entries and to a Pub/Sub channel, and answers lookups from a    *)
(* data plane that only the channel changes.  Redis delivers a publication *)
(* to the connections subscribed at that moment, in one order for all.     *)
(*                                                                         *)
(* Rust spawns the publication of an insert as a task and drops the        *)
(* futures that would publish a remove or a clear; Go publishes inside the *)
(* call.  The two languages encode prefixes differently.                   *)
(*                                                                         *)
(* Callers may write a prefix with host bits (10.0.0.1/8): the planes go   *)
(* by its network, the field of the hash by how it is written.             *)
(***************************************************************************)
EXTENDS Integers, Sequences

\* s without its i-th element
RemoveAt(s, i) == SubSeq(s, 1, i - 1) \o SubSeq(s, i + 1, Len(s))

CONSTANTS Procs, Prefixes, Metas, Nil,
          Written,     \* prefixes as callers write them: [net, host]
          Deployments, \* the deployments considered: [lang, redis, writes]
          Ops,         \* the operations called: "insert", "remove", "clear"
          MaxCalls,    \* bound on the calls made
          MaxFaults    \* bound on crashes, broken subscriptions and failing Redis commands

ASSUME ConstantsAssumption ==
    /\ Deployments \subseteq [lang : [Procs -> {"rust", "go"}], redis : BOOLEAN,
                              writes : [Procs -> SUBSET Written]]
    /\ Ops \subseteq {"insert", "remove", "clear"}
    /\ MaxCalls \in Nat /\ MaxFaults \in Nat
    /\ \A w \in Written : w.net \in Prefixes
    /\ Nil \notin Metas

VARIABLES deploy,      \* the deployment: each process's language, whether Redis is configured,
                       \* and how each process's callers write prefixes
          hash,        \* Redis: radixip:entries, by field; Nil where there is none
          state,       \* process -> "down", "booted", "subscribed" or "ended"
          cp, dp,      \* process -> its control plane and data plane
          inbox,       \* process -> publications delivered and not yet applied
          task,        \* process -> spawned publications, in no order (Rust)
          call,        \* process -> the call in progress
          calls, faults,
          missed,      \* history: process -> prefixes it missed the last update of
          unsynced     \* history: prefixes whose hash writes and publications got out of step,
                       \* or that the hash has written differently

vars == <<deploy, hash, state, cp, dp, inbox, task, call, calls, faults, missed, unsynced>>

Lang(p) == deploy.lang[p]
WithRedis == deploy.redis

Empty == [x \in Prefixes |-> Nil]
Tables == [Prefixes -> Metas \cup {Nil}]
Idle == [pc |-> "idle", op |-> Nil, w |-> Nil, x |-> Nil, v |-> Nil]

Init ==
    /\ deploy \in Deployments
    /\ hash = [w \in Written |-> Nil]
    /\ state = [p \in Procs |-> "down"]
    /\ cp = [p \in Procs |-> Empty]
    /\ dp = [p \in Procs |-> Empty]
    /\ inbox = [p \in Procs |-> <<>>]
    /\ task = [p \in Procs |-> <<>>]
    /\ call = [p \in Procs |-> Idle]
    /\ calls = 0 /\ faults = 0
    /\ missed = [p \in Procs |-> {}]
    /\ unsynced = {}
----------------------------------------------------------------------------
\* a Redis command succeeds or fails
Outcome(ok) == /\ ok \/ faults < MaxFaults
               /\ faults' = IF ok THEN faults ELSE faults + 1

About(m, x) == m.op = "clear" \/ m.x = x

\* publications about x that the other calls and the tasks have yet to make
Pending(x) ==
    \/ \E q \in Procs : call[q].pc = "publish" /\ About(call[q], x)
    \/ \E q \in Procs : \E i \in DOMAIN task[q] : About(task[q][i], x)

Touched(m) == {x \in Prefixes : About(m, x)}

Message(p, c) == [op |-> c.op, x |-> c.x, v |-> c.v, from |-> Lang(p)]

Applied(table, m) ==
    CASE m.op = "insert" -> [table EXCEPT ![m.x] = m.v]
      [] m.op = "remove" -> [table EXCEPT ![m.x] = Nil]
      [] m.op = "clear"  -> Empty

\* both languages encode a clear alike, and prefixes differently
Decodes(p, m) == m.op = "clear" \/ m.from = Lang(p)

\* the prefixes whose entries a publication leaves wrong at a subscriber that cannot decode it
Garbled(p, m) == IF Lang(p) = "rust" THEN Prefixes ELSE Touched(m)

\* Redis PUBLISH
Publish(m) ==
    /\ inbox' = [q \in Procs |-> IF state[q] = "subscribed" THEN Append(inbox[q], m) ELSE inbox[q]]
    /\ missed' = [q \in Procs |->
                    CASE state[q] = "subscribed" /\ Decodes(q, m)  -> missed[q] \ Touched(m)
                      [] state[q] = "subscribed" /\ ~Decodes(q, m) -> missed[q] \cup Garbled(q, m)
                      [] state[q] = "down" -> {}
                      [] state[q] \in {"booted", "ended"} -> missed[q] \cup Touched(m)]
----------------------------------------------------------------------------
\* the fields of the hash that parse as network x
Fields(x) == {w \in Written : w.net = x /\ hash[w] # Nil}

\* what loading them may leave under x: the order of the hash decides which is last
Loads(x) == IF Fields(x) = {} THEN {Nil} ELSE {hash[w] : w \in Fields(x)}

\* HybridEngine::new: both planes are loaded from the hash; a failing read leaves them empty
Boot(p, ok) ==
    /\ state[p] = "down" /\ (ok \/ WithRedis)
    /\ Outcome(ok)
    /\ \E loaded \in Tables :
        /\ IF WithRedis /\ ok THEN \A x \in Prefixes : loaded[x] \in Loads(x) ELSE loaded = Empty
        /\ cp' = [cp EXCEPT ![p] = loaded]
        /\ dp' = [dp EXCEPT ![p] = loaded]
    /\ missed' = [missed EXCEPT ![p] = IF ok THEN {} ELSE Prefixes]
    /\ state' = [state EXCEPT ![p] = "booted"]
    /\ UNCHANGED <<hash, inbox, task, call, calls, unsynced>>

\* start_sync: the subscription of the spawned task takes effect; Rust's task
\* ends when it fails, Go's client library keeps trying
Subscribe(p, ok) ==
    /\ WithRedis /\ state[p] = "booted"
    /\ Outcome(ok)
    /\ ok \/ Lang(p) = "rust"
    /\ state' = [state EXCEPT ![p] = IF ok THEN "subscribed" ELSE "ended"]
    /\ UNCHANGED <<hash, cp, dp, inbox, task, call, calls, missed, unsynced>>

\* the first step of insert, remove and clear: the control plane
Call(p, c) ==
    /\ state[p] # "down" /\ call[p] = Idle /\ calls < MaxCalls /\ c.op \in Ops
    /\ cp' = [cp EXCEPT ![p] = Applied(@, c)]
    /\ calls' = calls + 1
    /\ call' = [call EXCEPT ![p] = c]
    /\ UNCHANGED <<hash, state, dp, inbox, task, faults, missed, unsynced>>

Insert(p) == \E w \in deploy.writes[p], v \in Metas :
                Call(p, [pc |-> "hset", op |-> "insert", w |-> w, x |-> w.net, v |-> v])
Remove(p) == \E w \in deploy.writes[p] :
                Call(p, [pc |-> "hdel", op |-> "remove", w |-> w, x |-> w.net, v |-> Nil])
Clear(p) == Call(p, [pc |-> "clear", op |-> "clear", w |-> Nil, x |-> Nil, v |-> Nil])

\* without Redis the data plane is written directly
LocalSync(p) ==
    /\ ~WithRedis /\ call[p].pc \in {"hset", "hdel", "clear"}
    /\ dp' = [dp EXCEPT ![p] = Applied(@, call[p])]
    /\ call' = [call EXCEPT ![p] = Idle]
    /\ UNCHANGED <<hash, state, cp, inbox, task, calls, faults, missed, unsynced>>

(***************************************************************************)
(* The hash field is written, or the failure is dropped.  The prefix is in *)
(* step when no other publication about it is on its way and the hash has  *)
(* it under no other spelling.                                             *)
(***************************************************************************)
InStep(c) == ~Pending(c.x) /\ Fields(c.x) \subseteq {c.w}

WriteField(p, ok) ==
    LET c == call[p] IN
    /\ hash' = IF ok THEN [hash EXCEPT ![c.w] = c.v] ELSE hash
    /\ unsynced' = IF ok /\ InStep(c) THEN unsynced \ {c.x} ELSE unsynced \cup {c.x}

\* Rust: hset, then the publication is left to a task
HSet(p, ok) ==
    /\ WithRedis /\ Lang(p) = "rust" /\ call[p].pc = "hset"
    /\ Outcome(ok)
    /\ WriteField(p, ok)
    /\ task' = [task EXCEPT ![p] = Append(@, Message(p, call[p]))]
    /\ call' = [call EXCEPT ![p] = Idle]
    /\ UNCHANGED <<state, cp, dp, inbox, calls, missed>>

\* Rust: hdel; the future that would publish the remove is never polled
HDel(p, ok) ==
    /\ WithRedis /\ Lang(p) = "rust" /\ call[p].pc = "hdel"
    /\ Outcome(ok)
    /\ hash' = IF ok THEN [hash EXCEPT ![call[p].w] = Nil] ELSE hash
    /\ unsynced' = unsynced \cup {call[p].x}
    /\ call' = [call EXCEPT ![p] = Idle]
    /\ UNCHANGED <<state, cp, dp, inbox, task, calls, missed>>

\* Rust: nothing but the control plane is cleared, for the same reason
ReturnClear(p) ==
    /\ WithRedis /\ Lang(p) = "rust" /\ call[p].pc = "clear"
    /\ call' = [call EXCEPT ![p] = Idle]
    /\ UNCHANGED <<hash, state, cp, dp, inbox, task, calls, faults, missed, unsynced>>

\* Rust: the runtime runs some spawned task
RunTask(p, ok) ==
    /\ Outcome(ok)
    /\ \E i \in DOMAIN task[p] :
        /\ IF ok THEN Publish(task[p][i]) /\ UNCHANGED unsynced
           ELSE unsynced' = unsynced \cup {task[p][i].x} /\ UNCHANGED <<inbox, missed>>
        /\ task' = [task EXCEPT ![p] = RemoveAt(@, i)]
    /\ UNCHANGED <<hash, state, cp, dp, call, calls>>

\* Mutant: the hash is not written.
GoWriteField_skipped(p, ok) ==
    /\ WithRedis /\ Lang(p) = "go" /\ call[p].pc \in {"hset", "hdel"}
    /\ Outcome(ok)
    /\ unsynced' = IF ok /\ InStep(call[p]) THEN unsynced \ {call[p].x} ELSE unsynced \cup {call[p].x}
    /\ call' = [call EXCEPT ![p].pc = "publish"]
    /\ UNCHANGED <<hash, state, cp, dp, inbox, task, calls, missed>>

\* Go: HSet and HDel
GoWriteField(p, ok) ==
    /\ WithRedis /\ Lang(p) = "go" /\ call[p].pc \in {"hset", "hdel"}
    /\ Outcome(ok)
    /\ WriteField(p, ok)
    /\ call' = [call EXCEPT ![p].pc = "publish"]
    /\ UNCHANGED <<state, cp, dp, inbox, task, calls, missed>>

\* Go: Clear leaves the hash as it is and goes on to publish
GoClear(p) ==
    /\ WithRedis /\ Lang(p) = "go" /\ call[p].pc = "clear"
    /\ unsynced' = Prefixes
    /\ call' = [call EXCEPT ![p].pc = "publish"]
    /\ UNCHANGED <<hash, state, cp, dp, inbox, task, calls, faults, missed>>

\* Go: PublishInsert, PublishRemove, PublishClear
GoPublish(p, ok) ==
    /\ call[p].pc = "publish"
    /\ Outcome(ok)
    /\ IF ok THEN Publish(Message(p, call[p])) /\ UNCHANGED unsynced
       ELSE unsynced' = unsynced \cup Touched(call[p]) /\ UNCHANGED <<inbox, missed>>
    /\ call' = [call EXCEPT ![p] = Idle]
    /\ UNCHANGED <<hash, state, cp, dp, task, calls>>

(***************************************************************************)
(* What a subscriber makes of a publication: Rust expects a prefix as a    *)
(* string and Go as an object; Rust clears its data plane when decoding    *)
(* fails, Go drops the publication.                                        *)
(***************************************************************************)
Received(p, table, m) ==
    CASE Decodes(p, m) -> Applied(table, m)
      [] ~Decodes(p, m) /\ Lang(p) = "rust" -> Empty
      [] ~Decodes(p, m) /\ Lang(p) = "go" -> table

\* Mutant: publications are handled concurrently, not one after the other.
Apply_anyOrder(p) ==
    /\ \E i \in DOMAIN inbox[p] :
        /\ dp' = [dp EXCEPT ![p] = Received(p, @, inbox[p][i])]
        /\ inbox' = [inbox EXCEPT ![p] = RemoveAt(@, i)]
    /\ UNCHANGED <<hash, state, cp, task, call, calls, faults, missed, unsynced>>

\* the subscription's loop applies the next publication to the data plane
Apply(p) ==
    /\ inbox[p] # <<>>
    /\ dp' = [dp EXCEPT ![p] = Received(p, @, Head(inbox[p]))]
    /\ inbox' = [inbox EXCEPT ![p] = Tail(@)]
    /\ UNCHANGED <<hash, state, cp, task, call, calls, faults, missed, unsynced>>
----------------------------------------------------------------------------
\* publications that die with the process
Lost(p) ==
    {x \in Prefixes : \/ call[p].pc = "publish" /\ About(call[p], x)
                      \/ \E i \in DOMAIN task[p] : About(task[p][i], x)}

Crash(p) ==
    /\ state[p] # "down" /\ faults < MaxFaults
    /\ state' = [state EXCEPT ![p] = "down"]
    /\ cp' = [cp EXCEPT ![p] = Empty]
    /\ dp' = [dp EXCEPT ![p] = Empty]
    /\ inbox' = [inbox EXCEPT ![p] = <<>>]
    /\ task' = [task EXCEPT ![p] = <<>>]
    /\ call' = [call EXCEPT ![p] = Idle]
    /\ missed' = [missed EXCEPT ![p] = {}]
    /\ unsynced' = unsynced \cup Lost(p)
    /\ faults' = faults + 1
    /\ UNCHANGED <<hash, calls>>

(***************************************************************************)
(* The subscription's connection breaks, and what it has not yet handed    *)
(* over is lost.  Rust's loop ends with the stream and nothing starts it   *)
(* again; Go's client library subscribes again.                            *)
(***************************************************************************)
Disconnect(p) ==
    /\ state[p] = "subscribed" /\ faults < MaxFaults
    /\ state' = [state EXCEPT ![p] = IF Lang(p) = "rust" THEN "ended" ELSE "booted"]
    /\ \E n \in 0..Len(inbox[p]) :
        /\ inbox' = [inbox EXCEPT ![p] = SubSeq(@, 1, n)]
        /\ missed' = [missed EXCEPT ![p] = @ \cup UNION {Touched(inbox[p][i]) : i \in n+1..Len(inbox[p])}]
    /\ faults' = faults + 1
    /\ UNCHANGED <<hash, cp, dp, task, call, calls, unsynced>>

Progress(p) ==
    \/ LocalSync(p) \/ ReturnClear(p) \/ GoClear(p)
    \/ \E ok \in BOOLEAN :
        Subscribe(p, ok) \/ HSet(p, ok) \/ HDel(p, ok) \/ GoWriteField(p, ok) \/ GoPublish(p, ok)

Publications(p) == \E ok \in BOOLEAN : RunTask(p, ok)

Next ==
    /\ \E p \in Procs :
        \/ \E ok \in BOOLEAN : Boot(p, ok)
        \/ Insert(p) \/ Remove(p) \/ Clear(p)
        \/ Progress(p) \/ Publications(p) \/ Apply(p)
        \/ Crash(p) \/ Disconnect(p)
    /\ UNCHANGED deploy

Spec == Init /\ [][Next]_vars

(***************************************************************************)
(* While a call has yet to return, a spawned task to run or a publication  *)
(* to be applied, some process goes on; nothing makes anybody boot or      *)
(* call.                                                                   *)
(***************************************************************************)
Work == \E p \in Procs : Progress(p) \/ Publications(p) \/ Apply(p)

FairSpec == Spec /\ WF_vars(Work /\ UNCHANGED deploy)
----------------------------------------------------------------------------
Messages == [op : {"insert", "remove", "clear"}, x : Prefixes \cup {Nil}, v : Metas \cup {Nil},
             from : {"rust", "go"}]

TypeOK ==
    /\ deploy \in Deployments
    /\ hash \in [Written -> Metas \cup {Nil}]
    /\ state \in [Procs -> {"down", "booted", "subscribed", "ended"}]
    /\ cp \in [Procs -> Tables] /\ dp \in [Procs -> Tables]
    /\ inbox \in [Procs -> Seq(Messages)] /\ task \in [Procs -> Seq(Messages)]
    /\ \A p \in Procs : call[p] = Idle \/ call[p].pc \in {"hset", "hdel", "clear", "publish"}
    /\ missed \in [Procs -> SUBSET Prefixes] /\ unsynced \subseteq Prefixes

AtRest == \A p \in Procs : call[p] = Idle /\ task[p] = <<>> /\ inbox[p] = <<>>

\* a process that booted now would hold under x what p holds
Agrees(p, x) == IF WithRedis THEN Loads(x) = {dp[p][x]} ELSE dp[p][x] = cp[p][x]

Serving(p) == state[p] = IF WithRedis THEN "subscribed" ELSE "booted"

(***************************************************************************)
(* When nothing is in progress, a subscribed process answers from what the *)
(* hash holds (hybrid.rs:113-162, hybrid.go:84-134), for every prefix      *)
(* whose last update it did not miss, being unsubscribed or of the other   *)
(* language, and whose last write was published in step: alone,            *)
(* completely, by Go if it was a remove or a clear, and under the spelling *)
(* the hash has.  Without Redis the data plane is what the control plane   *)
(* is.                                                                     *)
(***************************************************************************)
ConvergesUnlessDisturbed ==
    AtRest => \A p \in Procs, x \in Prefixes :
                Serving(p) /\ x \notin missed[p] \cup unsynced => Agrees(p, x)

(***************************************************************************)
(* "Every subscribed instance receives the message" and "Each instance     *)
(* applies the change to its local tree" (docs/guides/architecture.md:     *)
(* 75-78): the same for the prefixes whose last update was published while *)
(* the process was subscribed.                                             *)
(***************************************************************************)
SubscribersApply ==
    AtRest => \A p \in Procs, x \in Prefixes :
                Serving(p) /\ x \notin missed[p] => Agrees(p, x)

(***************************************************************************)
(* "Cross-instance consistency is eventually consistent"                   *)
(* (docs/guides/architecture.md:102-104): with the calls and faults over,  *)
(* subscribed processes come to agree with the hash and stay so, except    *)
(* where an update was missed or got out of step.                          *)
(***************************************************************************)
EventuallyConsistent ==
    <>[](\A p \in Procs, x \in Prefixes :
            state[p] = "subscribed" /\ x \notin missed[p] \cup unsynced => Agrees(p, x))
=============================================================================
