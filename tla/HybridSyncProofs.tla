-------------------------- MODULE HybridSyncProofs --------------------------
(***************************************************************************)
(* Data planes converge to the hash, for any number of processes, calls    *)
(* and faults: what a process will hold after its inbox is what the last   *)
(* publication in it says, and the hash, which has the prefix under one    *)
(* spelling, says the same.                                                *)
(***************************************************************************)
EXTENDS HybridSync, SequenceTheorems, TLAPS

Inserts == [op : {"insert"}, x : Prefixes, v : Metas, from : {"rust", "go"}]

Pubs == Inserts \cup [op : {"remove"}, x : Prefixes, v : {Nil}, from : {"rust", "go"}]
                \cup [op : {"clear"}, x : {Nil}, v : {Nil}, from : {"rust", "go"}]

Writing == [pc : {"hset", "publish"}, op : {"insert"}, w : Written, x : Prefixes, v : Metas]
           \cup [pc : {"hdel", "publish"}, op : {"remove"}, w : Written, x : Prefixes, v : {Nil}]

Running == {c \in Writing : c.x = c.w.net}
           \cup [pc : {"clear", "publish"}, op : {"clear"}, w : {Nil}, x : {Nil}, v : {Nil}]

\* the types, with the values that go with each operation
Shape ==
    /\ deploy \in Deployments /\ hash \in [Written -> Metas \cup {Nil}]
    /\ state \in [Procs -> {"down", "booted", "subscribed", "ended"}]
    /\ cp \in [Procs -> Tables] /\ dp \in [Procs -> Tables]
    /\ call \in [Procs -> {Idle} \cup Running]
    /\ inbox \in [Procs -> Seq(Pubs)] /\ task \in [Procs -> Seq(Inserts)]
    /\ missed \in [Procs -> SUBSET Prefixes] /\ unsynced \subseteq Prefixes
    /\ \A p \in Procs : state[p] = "down" => inbox[p] = <<>> /\ call[p] = Idle

\* what loading the hash leaves under a prefix that has one field or none
Store == [x \in Prefixes |-> CHOOSE v \in Metas \cup {Nil} : Loads(x) = {v}]

\* so it is with those in step: the hash has them under one spelling
Plain == \A x \in Prefixes \ unsynced : Loads(x) = {Store[x]}

\* a subscriber of language l changes x when it receives m, and to what
Sets(l, m, x) == IF m.op = "clear" \/ m.from = l THEN About(m, x) ELSE l = "rust"
ValueOf(l, m) == IF m.op = "clear" \/ m.from = l THEN m.v ELSE Nil

\* having received s, it holds v under x where it held d
Ends(l, x, s, d, v) ==
    \/ d = v /\ \A i \in 1..Len(s) : ~Sets(l, s[i], x)
    \/ \E k \in 1..Len(s) : /\ Sets(l, s[k], x) /\ ValueOf(l, s[k]) = v
                            /\ \A i \in (k + 1)..Len(s) : ~Sets(l, s[i], x)

\* the publications about x still to be made say what the hash holds
Told(x) ==
    /\ \A q \in Procs : call[q].pc = "publish" /\ About(call[q], x) => call[q].v = Store[x]
    /\ \A q \in Procs : \A i \in DOMAIN task[q] : About(task[q][i], x) => task[q][i].v = Store[x]

Follows(p, x) ==
    state[p] \in {"booted", "subscribed"} /\ x \notin missed[p]
    => Ends(Lang(p), x, inbox[p], dp[p][x], Store[x])

Synced ==
    \A x \in Prefixes \ unsynced :
        Told(x) /\ (~Pending(x) => \A p \in Procs : Follows(p, x))

\* without Redis there is nothing but the two planes
Alone ==
    \A p \in Procs :
        /\ inbox[p] = <<>> /\ task[p] = <<>>
        /\ call[p].pc # "publish" /\ state[p] # "subscribed"
        /\ cp[p] = IF call[p] = Idle THEN dp[p] ELSE Applied(dp[p], call[p])

SyncInv == Shape /\ (WithRedis => Synced) /\ (~WithRedis => Alone)
----------------------------------------------------------------------------
\* nothing is in an empty queue
LEMMA EmptyQueue == Len(<<>>) = 0 /\ DOMAIN <<>> = {}
OBVIOUS

\* the table is that of the hash
LEMMA StoreSame ==
    ASSUME UNCHANGED hash
    PROVE  UNCHANGED Store /\ \A x : Loads(x)' = Loads(x)
BY DEF Store, Loads, Fields

\* a prefix with one value has that one in the table
LEMMA StoreValue ==
    ASSUME NEW x \in Prefixes, NEW v \in Metas \cup {Nil}, Loads(x) = {v}
    PROVE  Store[x] = v
<1>1. Store[x] = CHOOSE u \in Metas \cup {Nil} : {v} = {u}
  BY DEF Store
<1>2. \E u \in Metas \cup {Nil} : {v} = {u}
  OBVIOUS
<1>3. {v} = {CHOOSE u \in Metas \cup {Nil} : {v} = {u}}
  BY <1>2
<1> QED
  BY <1>1, <1>3

(***************************************************************************)
(* Writing a field concerns its network alone, and leaves one value there  *)
(* if the hash has no other spelling of it.                                *)
(***************************************************************************)
LEMMA StoreWrite ==
    ASSUME hash \in [Written -> Metas \cup {Nil}], NEW w \in Written, NEW v \in Metas \cup {Nil},
           hash' = [hash EXCEPT ![w] = v]
    PROVE  /\ \A x \in Prefixes : x # w.net => Loads(x)' = Loads(x) /\ Store'[x] = Store[x]
           /\ Fields(w.net) \subseteq {w} => Loads(w.net)' = {v} /\ Store'[w.net] = v
<1>1. ASSUME NEW x \in Prefixes, x # w.net PROVE Loads(x)' = Loads(x) /\ Store'[x] = Store[x]
  <2>1. \A u \in Written : u.net = x => hash'[u] = hash[u]
    BY <1>1
  <2>2. Fields(x)' = Fields(x)
    BY <2>1 DEF Fields
  <2>3. \A u \in Fields(x) : hash'[u] = hash[u]
    BY <2>1 DEF Fields
  <2>4. Loads(x)' = Loads(x)
    BY <2>2, <2>3 DEF Loads
  <2>5. Store[x] = CHOOSE u \in Metas \cup {Nil} : Loads(x) = {u}
    BY DEF Store
  <2>6. Store'[x] = CHOOSE u \in Metas \cup {Nil} : Loads(x)' = {u}
    BY DEF Store
  <2> QED
    BY <2>4, <2>5, <2>6
<1>2. ASSUME Fields(w.net) \subseteq {w} PROVE Loads(w.net)' = {v} /\ Store'[w.net] = v
  <2>1. w.net \in Prefixes
    BY ConstantsAssumption
  <2>2. hash'[w] = v /\ \A u \in Written : u # w /\ u.net = w.net => hash'[u] = Nil
    BY <1>2 DEF Fields
  <2>3. Fields(w.net)' = IF v = Nil THEN {} ELSE {w}
    BY <2>2 DEF Fields
  <2>4. Loads(w.net)' = {v}
    BY <2>2, <2>3 DEF Loads
  <2>5. Store'[w.net] = CHOOSE u \in Metas \cup {Nil} : {v} = {u}
    BY <2>1, <2>4 DEF Store
  <2>6. {v} = {CHOOSE u \in Metas \cup {Nil} : {v} = {u}}
    OBVIOUS
  <2> QED
    BY <2>4, <2>5, <2>6
<1> QED
  BY <1>1, <1>2

\* with nothing left to apply, the value is what the inbox leads to
LEMMA EndsEmpty ==
    ASSUME NEW l, NEW x, NEW d, NEW v, Ends(l, x, <<>>, d, v)
    PROVE  d = v
<1>1. 1..Len(<<>>) = {}
  BY EmptyQueue
<1> QED
  BY <1>1, Zenon DEF Ends

\* a publication or call in progress sets what it is about to its value
LEMMA AppliedValue ==
    ASSUME NEW table \in Tables, NEW m \in Pubs \cup Running
    PROVE  /\ Applied(table, m) \in Tables
           /\ \A x \in Prefixes : Applied(table, m)[x] = IF About(m, x) THEN m.v ELSE table[x]
<1>1. CASE m.op = "insert"
  <2>1. m.x \in Prefixes /\ m.v \in Metas
    BY <1>1 DEF Pubs, Running, Writing, Inserts
  <2> QED
    BY <1>1, <2>1 DEF Applied, About, Tables
<1>2. CASE m.op = "remove"
  <2>1. m.x \in Prefixes /\ m.v = Nil
    BY <1>2 DEF Pubs, Running, Writing, Inserts
  <2> QED
    BY <1>2, <2>1 DEF Applied, About, Tables
<1>3. CASE m.op = "clear"
  <2>1. m.v = Nil
    BY <1>3 DEF Pubs, Running, Writing, Inserts
  <2> QED
    BY <1>3, <2>1 DEF Applied, About, Tables, Empty
<1> QED
  BY <1>1, <1>2, <1>3 DEF Pubs, Running, Writing, Inserts

\* what a subscriber makes of a publication
LEMMA ReceivedValue ==
    ASSUME NEW p \in Procs, Lang(p) \in {"rust", "go"}, NEW table \in Tables, NEW m \in Pubs
    PROVE  /\ Received(p, table, m) \in Tables
           /\ \A x \in Prefixes : Received(p, table, m)[x] =
                IF Sets(Lang(p), m, x) THEN ValueOf(Lang(p), m) ELSE table[x]
<1>1. CASE Decodes(p, m)
  BY <1>1, AppliedValue DEF Received, Decodes, Sets, ValueOf
<1>2. CASE ~Decodes(p, m) /\ Lang(p) = "rust"
  BY <1>2 DEF Received, Decodes, Sets, ValueOf, Tables, Empty
<1>3. CASE ~Decodes(p, m) /\ Lang(p) = "go"
  BY <1>3 DEF Received, Decodes, Sets, ValueOf
<1> QED
  BY <1>1, <1>2, <1>3

\* receiving the first publication
LEMMA EndsTail ==
    ASSUME NEW l, NEW x, NEW s \in Seq(Pubs), s # <<>>, NEW d, NEW v, Ends(l, x, s, d, v)
    PROVE  Ends(l, x, Tail(s), IF Sets(l, Head(s), x) THEN ValueOf(l, Head(s)) ELSE d, v)
<1> DEFINE t == Tail(s)
           e == IF Sets(l, Head(s), x) THEN ValueOf(l, Head(s)) ELSE d
<1>1. /\ Len(s) \in Nat /\ Len(s) > 0 /\ Len(t) = Len(s) - 1 /\ Head(s) = s[1]
      /\ \A i \in 1..Len(t) : t[i] = s[i + 1] /\ i + 1 \in 1..Len(s)
  OBVIOUS
<1> HIDE DEF t
<1>2. CASE d = v /\ \A i \in 1..Len(s) : ~Sets(l, s[i], x)
  <2>1. ~Sets(l, s[1], x) /\ \A i \in 1..Len(t) : ~Sets(l, t[i], x)
    BY <1>1, <1>2
  <2> QED
    BY <1>1, <1>2, <2>1 DEF Ends, t
<1>3. ASSUME NEW k \in 1..Len(s), Sets(l, s[k], x), ValueOf(l, s[k]) = v,
             \A i \in (k + 1)..Len(s) : ~Sets(l, s[i], x)
      PROVE  Ends(l, x, t, e, v)
  <2>1. \A i \in 1..Len(t) : i >= k => ~Sets(l, t[i], x)
    BY <1>1, <1>3
  <2>2. CASE k = 1
    <3>1. e = v
      BY <1>1, <1>3, <2>2
    <3>2. \A i \in 1..Len(t) : ~Sets(l, t[i], x)
      BY <1>1, <2>1, <2>2
    <3> QED
      BY <3>1, <3>2 DEF Ends
  <2>3. CASE k > 1
    <3>1. k - 1 \in 1..Len(t) /\ t[k - 1] = s[k]
      BY <1>1, <2>3
    <3>2. \A i \in ((k - 1) + 1)..Len(t) : ~Sets(l, t[i], x)
      BY <1>1, <2>1, <2>3
    <3> HIDE DEF e
    <3> QED
      BY <1>3, <3>1, <3>2 DEF Ends
  <2> QED
    BY <2>2, <2>3
<1> QED
  BY <1>2, <1>3 DEF Ends, t

\* a publication delivered decides about what it sets and leaves the rest
LEMMA EndsAppend ==
    ASSUME NEW l, NEW x, NEW s \in Seq(Pubs), NEW m \in Pubs, NEW d, NEW v,
           IF Sets(l, m, x) THEN ValueOf(l, m) = v ELSE Ends(l, x, s, d, v)
    PROVE  Ends(l, x, Append(s, m), d, v)
<1> DEFINE t == Append(s, m)
<1>1. /\ Len(s) \in Nat /\ Len(t) = Len(s) + 1 /\ t[Len(s) + 1] = m
      /\ \A i \in 1..Len(s) : t[i] = s[i]
  OBVIOUS
<1> HIDE DEF t
<1>2. CASE Sets(l, m, x)
  <2>1. Len(s) + 1 \in 1..Len(t) /\ (Len(s) + 1) + 1 > Len(t)
    BY <1>1
  <2> QED
    BY <1>1, <1>2, <2>1 DEF Ends, t
<1>3. CASE ~Sets(l, m, x)
  <2>1. CASE d = v /\ \A i \in 1..Len(s) : ~Sets(l, s[i], x)
    <3>1. \A i \in 1..Len(t) : ~Sets(l, t[i], x)
      BY <1>1, <1>3, <2>1
    <3> QED
      BY <2>1, <3>1 DEF Ends, t
  <2>2. ASSUME NEW k \in 1..Len(s), Sets(l, s[k], x), ValueOf(l, s[k]) = v,
               \A i \in (k + 1)..Len(s) : ~Sets(l, s[i], x)
        PROVE  Ends(l, x, t, d, v)
    <3>1. k \in 1..Len(t) /\ t[k] = s[k]
      BY <1>1
    <3>2. \A i \in (k + 1)..Len(t) : ~Sets(l, t[i], x)
      BY <1>1, <1>3, <2>2
    <3> QED
      BY <2>2, <3>1, <3>2 DEF Ends
  <2> QED
    BY <1>3, <2>1, <2>2 DEF Ends, t
<1> QED
  BY <1>2, <1>3

\* losing the end of the inbox matters only to what the lost publications set
LEMMA EndsCut ==
    ASSUME NEW l, NEW x, NEW s \in Seq(Pubs), NEW n \in 0..Len(s), NEW d, NEW v,
           Ends(l, x, s, d, v), \A i \in (n + 1)..Len(s) : ~Sets(l, s[i], x)
    PROVE  Ends(l, x, SubSeq(s, 1, n), d, v)
<1> DEFINE t == SubSeq(s, 1, n)
<1>1. Len(s) \in Nat /\ n \in Nat /\ n <= Len(s) /\ \A i \in 1..n : s[i] \in Pubs
  OBVIOUS
<1>2. Len(t) = n /\ \A i \in 1..n : t[i] = s[i]
  BY <1>1, SubSeqProperties
<1> HIDE DEF t
<1>3. CASE d = v /\ \A i \in 1..Len(s) : ~Sets(l, s[i], x)
  <2>1. \A i \in 1..Len(t) : ~Sets(l, t[i], x)
    BY <1>1, <1>2, <1>3
  <2> QED
    BY <1>3, <2>1 DEF Ends, t
<1>4. ASSUME NEW k \in 1..Len(s), Sets(l, s[k], x), ValueOf(l, s[k]) = v,
             \A i \in (k + 1)..Len(s) : ~Sets(l, s[i], x)
      PROVE  Ends(l, x, t, d, v)
  <2>1. k \in 1..Len(t)
    BY <1>1, <1>2, <1>4
  <2>2. t[k] = s[k] /\ \A i \in (k + 1)..Len(t) : ~Sets(l, t[i], x)
    BY <1>1, <1>2, <1>4, <2>1
  <2> QED
    BY <1>4, <2>1, <2>2 DEF Ends
<1> QED
  BY <1>3, <1>4 DEF Ends, t

\* the tasks left when one has run
LEMMA RemoveAtElements ==
    ASSUME NEW S, NEW s \in Seq(S), NEW i \in 1..Len(s)
    PROVE  /\ RemoveAt(s, i) \in Seq(S)
           /\ \A j \in DOMAIN RemoveAt(s, i) :
                 \E k \in DOMAIN s : RemoveAt(s, i)[j] = s[k]
           /\ \A k \in DOMAIN s : k # i =>
                 \E j \in DOMAIN RemoveAt(s, i) : RemoveAt(s, i)[j] = s[k]
<1> DEFINE a == SubSeq(s, 1, i - 1)
           b == SubSeq(s, i + 1, Len(s))
           r == a \o b
<1>1. /\ Len(s) \in Nat /\ i \in Nat /\ i >= 1 /\ i <= Len(s) /\ DOMAIN s = 1..Len(s)
      /\ \A k \in 1..Len(s) : s[k] \in S
  OBVIOUS
<1>2. a \in Seq(S) /\ Len(a) = i - 1 /\ \A k \in 1..(i - 1) : a[k] = s[k]
  <2>1. \A k \in 1..(i - 1) : s[k] \in S
    BY <1>1
  <2>2. /\ a \in Seq(S) /\ Len(a) = (IF 1 <= i - 1 THEN (i - 1) - 1 + 1 ELSE 0)
        /\ \A k \in 1..((i - 1) - 1 + 1) : a[k] = s[1 + k - 1]
    BY <1>1, <2>1, SubSeqProperties
  <2> HIDE DEF a
  <2> QED
    BY <1>1, <2>2
<1>3. b \in Seq(S) /\ Len(b) = Len(s) - i /\ \A k \in 1..(Len(s) - i) : b[k] = s[i + k]
  <2>1. \A k \in (i + 1)..Len(s) : s[k] \in S
    BY <1>1
  <2>2. /\ b \in Seq(S) /\ Len(b) = (IF i + 1 <= Len(s) THEN Len(s) - (i + 1) + 1 ELSE 0)
        /\ \A k \in 1..(Len(s) - (i + 1) + 1) : b[k] = s[(i + 1) + k - 1]
    BY <1>1, <2>1, SubSeqProperties
  <2> HIDE DEF b
  <2>3. Len(b) = Len(s) - i
    <3>1. CASE i + 1 <= Len(s)
      BY <1>1, <2>2, <3>1
    <3>2. CASE ~(i + 1 <= Len(s))
      <4>1. PICK n : n = Len(s)
        OBVIOUS
      <4>2. n \in Nat /\ i \in Nat /\ i <= n /\ ~(i + 1 <= n)
        BY <1>1, <3>2, <4>1
      <4>3. n - i = 0
        BY <4>2
      <4> QED
        BY <2>2, <3>2, <4>1, <4>3
    <3> QED
      BY <3>1, <3>2
  <2>4. ASSUME NEW k \in 1..(Len(s) - i) PROVE b[k] = s[i + k]
    <3>1. k \in 1..(Len(s) - (i + 1) + 1) /\ (i + 1) + k - 1 = i + k
      BY <1>1
    <3> QED
      BY <2>2, <3>1
  <2> QED
    BY <2>2, <2>3, <2>4
<1> HIDE DEF a, b
<1>4. /\ r \in Seq(S) /\ Len(r) = Len(a) + Len(b)
      /\ \A k \in 1..(Len(a) + Len(b)) : r[k] = IF k <= Len(a) THEN a[k] ELSE b[k - Len(a)]
  BY <1>2, <1>3, ConcatProperties
<1>5. RemoveAt(s, i) = r
  BY DEF RemoveAt, a, b
<1> HIDE DEF r
<1>6. DOMAIN r = 1..(Len(s) - 1)
  BY <1>1, <1>2, <1>3, <1>4
<1>7. ASSUME NEW j \in 1..(Len(s) - 1) PROVE r[j] = IF j < i THEN s[j] ELSE s[j + 1]
  <2>1. CASE j < i
    BY <1>1, <1>2, <1>3, <1>4, <2>1
  <2>2. CASE j >= i
    <3>1. j - (i - 1) \in 1..(Len(s) - i) /\ i + (j - (i - 1)) = j + 1
      BY <1>1, <2>2
    <3>2. j \in 1..(Len(a) + Len(b)) /\ ~(j <= Len(a)) /\ Len(a) = i - 1
      BY <1>1, <1>2, <1>3, <2>2
    <3>3. r[j] = b[j - (i - 1)]
      BY <1>4, <3>2
    <3> QED
      BY <1>1, <1>3, <2>2, <3>1, <3>3
  <2> QED
    BY <1>1, <2>1, <2>2
<1>8. ASSUME NEW j \in DOMAIN r PROVE \E k \in DOMAIN s : r[j] = s[k]
  <2>1. j \in 1..Len(s) /\ j + 1 \in 1..Len(s)
    BY <1>1, <1>6
  <2> QED
    BY <1>1, <1>6, <1>7, <2>1
<1>9. ASSUME NEW k \in DOMAIN s, k # i PROVE \E j \in DOMAIN r : r[j] = s[k]
  <2>1. CASE k < i
    <3>1. k \in 1..(Len(s) - 1)
      BY <1>1, <2>1
    <3> QED
      BY <1>6, <1>7, <2>1, <3>1
  <2>2. CASE k > i
    <3>1. k - 1 \in 1..(Len(s) - 1) /\ ~(k - 1 < i) /\ (k - 1) + 1 = k
      BY <1>1, <2>2
    <3> QED
      BY <1>6, <1>7, <3>1
  <2> QED
    BY <1>1, <1>9, <2>1, <2>2
<1> QED
  BY <1>4, <1>5, <1>8, <1>9
----------------------------------------------------------------------------
\* the language of a process
LEMMA LangType == ASSUME Shape PROVE \A p \in Procs : Lang(p) \in {"rust", "go"}
BY ConstantsAssumption DEF Shape, Lang

\* the messages of calls and tasks
LEMMA MessageType ==
    ASSUME Shape, NEW p \in Procs, call[p] \in Running
    PROVE  /\ Message(p, call[p]) \in Pubs
           /\ call[p].op = "insert" => Message(p, call[p]) \in Inserts
           /\ \A x : About(Message(p, call[p]), x) <=> About(call[p], x)
           /\ Message(p, call[p]).v = call[p].v
BY LangType DEF Running, Writing, Message, Pubs, Inserts, About

\* every publication is one of the model's messages
LEMMA ShapeTypes == Shape => TypeOK
<1> SUFFICES ASSUME Shape PROVE TypeOK
  OBVIOUS
<1>1. Pubs \subseteq Messages /\ Inserts \subseteq Messages
  BY DEF Pubs, Inserts, Messages
<1>2. Seq(Pubs) \subseteq Seq(Messages) /\ Seq(Inserts) \subseteq Seq(Messages)
  BY <1>1
<1>3. inbox \in [Procs -> Seq(Messages)] /\ task \in [Procs -> Seq(Messages)]
  BY <1>2 DEF Shape
<1>4. \A p \in Procs : call[p] = Idle \/ call[p].pc \in {"hset", "hdel", "clear", "publish"}
  BY DEF Shape, Running, Writing
<1> QED
  BY <1>3, <1>4 DEF Shape, TypeOK

\* what PUBLISH does to a subscriber that follows, or is told now
LEMMA PublishFollows ==
    ASSUME Shape, NEW m \in Pubs, Publish(m), UNCHANGED <<deploy, Store, state, dp>>,
           NEW p \in Procs, NEW x \in Prefixes, About(m, x) => m.v = Store[x],
           Follows(p, x) \/ About(m, x)
    PROVE  Follows(p, x)'
<1> SUFFICES ASSUME state[p] \in {"booted", "subscribed"}, x \notin missed'[p]
             PROVE  Ends(Lang(p), x, inbox'[p], dp[p][x], Store[x])
  BY DEF Follows, Lang
<1>1. inbox[p] \in Seq(Pubs) /\ (x \in Touched(m) <=> About(m, x))
  BY DEF Shape, Touched
<1>2. CASE state[p] = "booted"
  <2>1. inbox'[p] = inbox[p] /\ missed'[p] = missed[p] \cup Touched(m)
    BY <1>2 DEF Publish
  <2> QED
    BY <1>1, <1>2, <2>1 DEF Follows
<1>3. CASE state[p] = "subscribed" /\ Decodes(p, m)
  <2>1. inbox'[p] = Append(inbox[p], m) /\ missed'[p] = missed[p] \ Touched(m)
    BY <1>3 DEF Publish
  <2>2. (Sets(Lang(p), m, x) <=> About(m, x)) /\ ValueOf(Lang(p), m) = m.v
    BY <1>3 DEF Sets, ValueOf, Decodes
  <2>3. CASE About(m, x)
    <3>1. Sets(Lang(p), m, x) /\ ValueOf(Lang(p), m) = Store[x]
      BY <2>2, <2>3
    <3> QED
      BY <1>1, <2>1, <3>1, EndsAppend
  <2>4. CASE ~About(m, x)
    <3>1. Ends(Lang(p), x, inbox[p], dp[p][x], Store[x])
      BY <1>1, <1>3, <2>1, <2>4 DEF Follows
    <3> QED
      BY <1>1, <2>1, <2>2, <2>4, <3>1, EndsAppend
  <2> QED
    BY <2>3, <2>4
<1>4. CASE state[p] = "subscribed" /\ ~Decodes(p, m)
  <2>1. inbox'[p] = Append(inbox[p], m) /\ missed'[p] = missed[p] \cup Garbled(p, m)
    BY <1>4 DEF Publish
  <2>2. Lang(p) # "rust" /\ x \notin missed[p] /\ ~About(m, x)
    BY <1>1, <2>1 DEF Garbled
  <2>3. ~Sets(Lang(p), m, x)
    BY <1>4, <2>2 DEF Sets, Decodes
  <2>4. Ends(Lang(p), x, inbox[p], dp[p][x], Store[x])
    BY <1>4, <2>2 DEF Follows
  <2> QED
    BY <1>1, <2>1, <2>3, <2>4, EndsAppend
<1> QED
  BY <1>2, <1>3, <1>4

\* PUBLISH keeps the types
LEMMA PublishShape ==
    ASSUME Shape, NEW m \in Pubs, Publish(m), UNCHANGED state
    PROVE  /\ inbox' \in [Procs -> Seq(Pubs)] /\ missed' \in [Procs -> SUBSET Prefixes]
           /\ \A p \in Procs : state'[p] = "down" => inbox'[p] = <<>>
<1>1. \A q \in Procs : Append(inbox[q], m) \in Seq(Pubs)
  BY AppendProperties DEF Shape
<1>2. inbox' \in [Procs -> Seq(Pubs)] /\ \A p \in Procs : state'[p] = "down" => inbox'[p] = <<>>
  BY <1>1 DEF Publish, Shape
<1>3. \A q \in Procs : Touched(m) \subseteq Prefixes /\ Garbled(q, m) \subseteq Prefixes
  BY DEF Touched, Garbled
<1>4. missed' \in [Procs -> SUBSET Prefixes]
  BY <1>3 DEF Publish, Shape
<1> QED
  BY <1>2, <1>4

\* steps that neither make nor take a publication
SamePubs ==
    /\ UNCHANGED <<deploy, task>>
    /\ \A q \in Procs : call'[q] = call[q] \/ (call[q].pc # "publish" /\ call'[q].pc # "publish")

LEMMA SyncedSame ==
    ASSUME Synced, SamePubs, unsynced \subseteq unsynced',
           \A x \in Prefixes \ unsynced' : Store'[x] = Store[x],
           \A p \in Procs, x \in Prefixes \ unsynced' : Follows(p, x) => Follows(p, x)'
    PROVE  Synced'
<1> SUFFICES ASSUME NEW x \in Prefixes \ unsynced'
             PROVE  Told(x)' /\ (~Pending(x)' => \A p \in Procs : Follows(p, x)')
  BY DEF Synced
<1>1. Told(x) /\ (~Pending(x) => \A p \in Procs : Follows(p, x))
  BY DEF Synced
<1>2. Told(x)'
  BY <1>1 DEF Told, SamePubs, About
<1>3. Pending(x)' <=> Pending(x)
  BY DEF Pending, SamePubs, About
<1> QED
  BY <1>1, <1>2, <1>3
----------------------------------------------------------------------------
\* a process that has loaded the hash follows it
LEMMA BootInv ==
    ASSUME SyncInv, Plain, NEW p \in Procs, NEW ok \in BOOLEAN, Boot(p, ok), UNCHANGED deploy
    PROVE  SyncInv'
<1>1. PICK loaded \in Tables :
        /\ IF WithRedis /\ ok THEN \A x \in Prefixes : loaded[x] \in Loads(x) ELSE loaded = Empty
        /\ cp' = [cp EXCEPT ![p] = loaded] /\ dp' = [dp EXCEPT ![p] = loaded]
  BY DEF Boot
<1>2. Shape'
  BY <1>1 DEF SyncInv, Shape, Boot
<1>3. ASSUME WithRedis PROVE Synced'
  <2>1. SamePubs /\ UNCHANGED <<hash, Store, unsynced, inbox>>
    BY StoreSame DEF Boot, SamePubs
  <2>2. ASSUME NEW q \in Procs, NEW x \in Prefixes \ unsynced', Follows(q, x) PROVE Follows(q, x)'
    <3>1. CASE q # p
      BY <1>1, <2>1, <2>2, <3>1 DEF Follows, Boot, SyncInv, Shape, Lang
    <3>2. CASE q = p
      <4> SUFFICES ASSUME x \notin missed'[p] PROVE Ends(Lang(p), x, inbox[p], dp'[p][x], Store[x])
        BY <2>1, <3>2 DEF Follows, Lang, Boot
      <4>1. ok
        BY DEF Boot, SyncInv, Shape
      <4>2. inbox[p] = <<>> /\ dp'[p] = loaded
        BY <1>1 DEF Boot, SyncInv, Shape
      <4>3. loaded[x] = Store[x]
        BY <1>1, <1>3, <2>1, <4>1 DEF Plain
      <4> QED
        BY <4>2, <4>3 DEF Ends
    <3> QED
      BY <3>1, <3>2
  <2> QED
    BY <1>3, <2>1, <2>2, SyncedSame DEF SyncInv
<1>4. ASSUME ~WithRedis PROVE Alone'
  <2>1. cp'[p] = dp'[p] /\ state'[p] = "booted" /\ UNCHANGED <<inbox, task, call>>
    BY <1>1, <1>4 DEF Boot, SyncInv, Shape
  <2>2. call[p] = Idle
    BY DEF Boot, SyncInv, Shape
  <2> QED
    BY <1>1, <1>4, <2>1, <2>2 DEF Boot, SyncInv, Alone, Shape
<1> QED
  BY <1>2, <1>3, <1>4 DEF SyncInv, WithRedis

\* a subscription adds nothing to what a process holds or will receive
LEMMA SubscribeInv ==
    ASSUME SyncInv, NEW p \in Procs, NEW ok \in BOOLEAN, Subscribe(p, ok), UNCHANGED deploy
    PROVE  SyncInv'
<1>1. Shape'
  BY DEF SyncInv, Shape, Subscribe
<1>2. SamePubs /\ UNCHANGED <<hash, Store, unsynced, inbox, missed, dp>> /\ WithRedis
  BY StoreSame DEF Subscribe, SamePubs
<1>3. \A q \in Procs : state'[q] \in {"booted", "subscribed"} => state[q] \in {"booted", "subscribed"}
  BY DEF Subscribe, SyncInv, Shape
<1>4. \A q \in Procs, x \in Prefixes : Follows(q, x) => Follows(q, x)'
  BY <1>2, <1>3 DEF Follows, Lang, SamePubs
<1>5. Synced'
  BY <1>2, <1>4, SyncedSame DEF SyncInv
<1> QED
  BY <1>1, <1>2, <1>5 DEF SyncInv, WithRedis

\* a call begins at the control plane
LEMMA CallInv ==
    ASSUME SyncInv, NEW p \in Procs, NEW c \in Running, c.pc # "publish", Call(p, c),
           UNCHANGED deploy
    PROVE  SyncInv'
<1>1. cp[p] \in Tables /\ Applied(cp[p], c) \in Tables
  BY AppliedValue DEF SyncInv, Shape
<1>2. Shape'
  BY <1>1 DEF SyncInv, Shape, Call
<1>3. ASSUME WithRedis PROVE Synced'
  <2>1. UNCHANGED <<hash, Store, unsynced, inbox, missed, dp, state>>
    BY StoreSame DEF Call
  <2>2. SamePubs
    BY DEF Call, SamePubs, SyncInv, Shape, Idle
  <2>3. \A q \in Procs, x \in Prefixes : Follows(q, x) => Follows(q, x)'
    BY <2>1 DEF Follows, Lang
  <2> QED
    BY <1>3, <2>1, <2>2, <2>3, SyncedSame DEF SyncInv
<1>4. ASSUME ~WithRedis PROVE Alone'
  <2>1. cp[p] = dp[p] /\ c # Idle
    BY <1>4 DEF Call, SyncInv, Alone, Running, Writing, Idle
  <2>2. cp'[p] = Applied(dp[p], c) /\ call'[p] = c
    BY <2>1 DEF Call, SyncInv, Shape
  <2>3. \A q \in Procs \ {p} : cp'[q] = cp[q] /\ call'[q] = call[q]
    BY DEF Call, SyncInv, Shape
  <2> QED
    BY <1>4, <2>1, <2>2, <2>3 DEF Call, SyncInv, Alone
<1> QED
  BY <1>2, <1>3, <1>4 DEF SyncInv, WithRedis

\* without Redis the data plane gets what the control plane got
LEMMA LocalInv ==
    ASSUME SyncInv, NEW p \in Procs, LocalSync(p), UNCHANGED deploy
    PROVE  SyncInv'
<1>1. call[p] \in Running /\ call[p] # Idle /\ dp[p] \in Tables
  BY DEF LocalSync, SyncInv, Shape, Idle
<1>2. Applied(dp[p], call[p]) \in Tables
  BY <1>1, AppliedValue
<1>3. Shape'
  BY <1>2 DEF SyncInv, Shape, LocalSync
<1>4. cp[p] = Applied(dp[p], call[p]) /\ Alone /\ ~WithRedis
  BY <1>1 DEF LocalSync, SyncInv, Alone
<1>5. dp'[p] = cp'[p] /\ call'[p] = Idle
  BY <1>4 DEF LocalSync, SyncInv, Shape
<1>6. \A q \in Procs \ {p} : dp'[q] = dp[q] /\ call'[q] = call[q]
  BY DEF LocalSync, SyncInv, Shape
<1>7. Idle.pc # "publish"
  BY DEF Idle
<1>8. Alone'
  BY <1>4, <1>5, <1>6, <1>7 DEF LocalSync, Alone
<1> QED
  BY <1>3, <1>4, <1>8 DEF SyncInv, WithRedis

(***************************************************************************)
(* A field written while nothing about it is pending is in step again: the *)
(* publication to come says what the hash now holds.                       *)
(***************************************************************************)
LEMMA WriteSynced ==
    ASSUME Shape, Synced, NEW p \in Procs, NEW ok \in BOOLEAN, WriteField(p, ok),
           call[p] \in Running, call[p].op \in {"insert", "remove"}, call[p].pc # "publish",
           UNCHANGED <<deploy, state, dp, inbox, missed>>,
           \A q \in Procs \ {p} : call'[q] = call[q] /\ task'[q] = task[q],
           \/ /\ call'[p].pc # "publish"
              /\ task'[p] = Append(task[p], Message(p, call[p])) /\ call[p].op = "insert"
           \/ call'[p] = [call[p] EXCEPT !.pc = "publish"] /\ task'[p] = task[p]
    PROVE  Synced'
<1> PICK c : c = call[p]
  OBVIOUS
<1>1. /\ c \in Running /\ c.x \in Prefixes /\ c.op # "clear"
      /\ \A x : About(c, x) <=> c.x = x
      /\ c.w \in Written /\ c.x = c.w.net /\ c.v \in Metas \cup {Nil}
  BY DEF Running, Writing, About
<1>2. /\ \A x \in Prefixes : x # c.x => Store'[x] = Store[x]
      /\ ok /\ InStep(c) => Store'[c.x] = c.v
  <2>1. CASE ok
    <3>1. hash' = [hash EXCEPT ![c.w] = c.v]
      BY <2>1 DEF WriteField
    <3>2. hash \in [Written -> Metas \cup {Nil}]
      BY DEF Shape
    <3>3. /\ \A x \in Prefixes : x # c.w.net => Store'[x] = Store[x]
          /\ Fields(c.w.net) \subseteq {c.w} => Store'[c.w.net] = c.v
      BY <1>1, <3>1, <3>2, StoreWrite, Zenon
    <3>4. InStep(c) => Fields(c.w.net) \subseteq {c.w}
      BY <1>1 DEF InStep, Fields
    <3> QED
      BY <1>1, <3>3, <3>4
  <2>2. CASE ~ok
    BY <2>2, StoreSame DEF WriteField
  <2> QED
    BY <2>1, <2>2
<1>3. unsynced' = IF ok /\ InStep(c) THEN unsynced \ {c.x} ELSE unsynced \cup {c.x}
  BY DEF WriteField
<1>4. task[p] \in Seq(Inserts)
  BY DEF Shape
\* the publications pending afterwards are those before and the one of the call
<1>5. ASSUME NEW x \in Prefixes
      PROVE  /\ Pending(x)' <=> Pending(x) \/ x = c.x
             /\ x # c.x /\ Told(x) => Told(x)'
             /\ x = c.x /\ ok /\ InStep(c) => Told(x)'
  <2>1. CASE /\ call'[p].pc # "publish"
             /\ task'[p] = Append(task[p], Message(p, call[p])) /\ call[p].op = "insert"
    <3> PICK m : m = Message(p, call[p])
      OBVIOUS
    <3>1. m \in Inserts /\ m.v = c.v /\ (About(m, x) <=> x = c.x)
      BY <1>1, <2>1, MessageType
    <3>2. /\ DOMAIN task'[p] = DOMAIN task[p] \cup {Len(task[p]) + 1}
          /\ task'[p][Len(task[p]) + 1] = m
          /\ \A i \in DOMAIN task[p] : task'[p][i] = task[p][i]
      BY <1>4, <2>1, <3>1
    <3>3. Pending(x)' <=> Pending(x) \/ x = c.x
      <4>1. (\E i \in DOMAIN task'[p] : About(task'[p][i], x))
            <=> (\E i \in DOMAIN task[p] : About(task[p][i], x)) \/ x = c.x
        BY <3>1, <3>2
      <4> QED
        BY <2>1, <4>1 DEF Pending
    <3>4. ASSUME x # c.x, Told(x) PROVE Told(x)'
      <4>1. Store'[x] = Store[x] /\ ~About(m, x)
        BY <1>2, <3>1, <3>4
      <4>2. \A q \in Procs : call'[q].pc = "publish" => call'[q] = call[q]
        BY <2>1
      <4>3. \A q \in Procs : \A i \in DOMAIN task'[q] :
               ~About(task'[q][i], x) \/ (i \in DOMAIN task[q] /\ task'[q][i] = task[q][i])
        BY <3>2, <4>1
      <4> QED
        BY <3>4, <4>1, <4>2, <4>3 DEF Told
    <3>5. ASSUME x = c.x, ok, InStep(c) PROVE Told(x)'
      <4>1. Store'[x] = m.v
        BY <1>2, <3>1, <3>5
      <4>2. \A q \in Procs : ~(call'[q].pc = "publish" /\ About(call'[q], x))
        BY <2>1, <3>5 DEF Pending, InStep
      <4>3. \A q \in Procs : \A i \in DOMAIN task[q] : ~About(task[q][i], x)
        BY <3>5 DEF Pending, InStep
      <4>4. \A i \in DOMAIN task'[p] : About(task'[p][i], x) => task'[p][i].v = Store'[x]
        BY <3>2, <4>1, <4>3
      <4>5. \A q \in Procs \ {p} : \A i \in DOMAIN task'[q] : ~About(task'[q][i], x)
        BY <4>3
      <4> QED
        BY <4>2, <4>4, <4>5 DEF Told, About
    <3> QED
      BY <3>3, <3>4, <3>5
  <2>2. CASE call'[p] = [call[p] EXCEPT !.pc = "publish"] /\ task'[p] = task[p]
    <3>1. call'[p].pc = "publish" /\ call'[p].v = c.v /\ (About(call'[p], x) <=> x = c.x)
      BY <1>1, <2>2 DEF About, Running, Writing
    <3>2. Pending(x)' <=> Pending(x) \/ x = c.x
      BY <2>2, <3>1 DEF Pending
    <3>3. x # c.x /\ Told(x) => Told(x)'
      BY <1>2, <2>2, <3>1 DEF Told
    <3>4. x = c.x /\ ok /\ InStep(c) => Told(x)'
      <4> SUFFICES ASSUME x = c.x, ok, InStep(c) PROVE Told(x)'
        OBVIOUS
      <4>1. Store'[x] = c.v
        BY <1>2
      <4>2. \A q \in Procs \ {p} : ~(call'[q].pc = "publish" /\ About(call'[q], x))
        BY DEF Pending, InStep
      <4>3. \A q \in Procs : \A i \in DOMAIN task'[q] : ~About(task'[q][i], x)
        BY <2>2 DEF Pending, InStep
      <4> QED
        BY <3>1, <4>1, <4>2, <4>3 DEF Told, About
    <3> QED
      BY <3>2, <3>3, <3>4
  <2> QED
    BY <2>1, <2>2
<1>6. SUFFICES ASSUME NEW x \in Prefixes \ unsynced'
               PROVE  Told(x)' /\ (~Pending(x)' => \A q \in Procs : Follows(q, x)')
  BY DEF Synced
<1>7. CASE x = c.x
  BY <1>3, <1>5, <1>6, <1>7
<1>8. CASE x # c.x
  <2>1. x \in Prefixes \ unsynced /\ Store'[x] = Store[x]
    BY <1>2, <1>3, <1>6, <1>8
  <2>2. \A q \in Procs : Follows(q, x) => Follows(q, x)'
    BY <2>1 DEF Follows, Lang
  <2> QED
    BY <1>5, <1>8, <2>1, <2>2 DEF Synced
<1> QED
  BY <1>7, <1>8

\* HSet, and Go's HSet and HDel
LEMMA WriteInv ==
    ASSUME SyncInv, NEW p \in Procs, NEW ok \in BOOLEAN, HSet(p, ok) \/ GoWriteField(p, ok),
           UNCHANGED deploy
    PROVE  SyncInv'
<1>1. /\ call[p] \in Running /\ call[p].op \in {"insert", "remove"} /\ call[p].x \in Prefixes
      /\ call[p].pc # "publish" /\ (call[p].pc = "hset" => call[p].op = "insert")
      /\ WithRedis /\ Shape /\ Synced /\ WriteField(p, ok)
  BY DEF HSet, GoWriteField, SyncInv, Shape, Running, Writing, Idle
<1>2. hash' \in [Written -> Metas \cup {Nil}] /\ unsynced' \subseteq Prefixes
  BY <1>1 DEF WriteField, Shape, Running, Writing
<1>3. Idle.pc # "publish"
  BY DEF Idle
<1>4. CASE HSet(p, ok)
  <2>1. task[p] \in Seq(Inserts) /\ Message(p, call[p]) \in Inserts
    BY <1>1, <1>4, MessageType DEF HSet, Shape
  <2>2. Append(task[p], Message(p, call[p])) \in Seq(Inserts)
    BY <2>1, AppendProperties
  <2>3. Shape'
    BY <1>1, <1>2, <1>4, <2>2 DEF HSet, Shape
  <2>4. call'[p] = Idle /\ task'[p] = Append(task[p], Message(p, call[p]))
    BY <1>1, <1>4 DEF HSet, Shape
  <2>5. \A q \in Procs \ {p} : call'[q] = call[q] /\ task'[q] = task[q]
    BY <1>1, <1>4 DEF HSet, Shape
  <2>6. UNCHANGED <<deploy, state, dp, inbox, missed>> /\ call[p].op = "insert"
    BY <1>1, <1>4 DEF HSet
  <2>7. Synced'
    BY <1>1, <1>3, <2>4, <2>5, <2>6, WriteSynced
  <2> QED
    BY <1>1, <2>3, <2>7 DEF SyncInv, WithRedis
<1>5. CASE GoWriteField(p, ok)
  <2>1. call'[p] = [call[p] EXCEPT !.pc = "publish"] /\ UNCHANGED task
    BY <1>1, <1>5 DEF GoWriteField, Shape
  <2>2. call'[p] \in Running
    BY <1>1, <2>1 DEF Running, Writing
  <2>3. \A q \in Procs \ {p} : call'[q] = call[q]
    BY <1>1, <1>5 DEF GoWriteField, Shape
  <2>4. call' \in [Procs -> {Idle} \cup Running]
    BY <1>1, <1>5, <2>2, <2>3 DEF GoWriteField, Shape
  <2>5. state[p] # "down"
    BY <1>1, <1>5 DEF Shape, GoWriteField, Idle
  <2>6. UNCHANGED <<deploy, state, cp, dp, inbox, missed>>
    BY <1>5 DEF GoWriteField
  <2>7. Shape'
    BY <1>1, <1>2, <2>1, <2>3, <2>4, <2>5, <2>6 DEF Shape
  <2>8. Synced'
    BY <1>1, <2>1, <2>3, <2>6, WriteSynced
  <2> QED
    BY <1>1, <2>7, <2>8 DEF SyncInv, WithRedis
<1> QED
  BY <1>4, <1>5

\* a remove in Rust is out of step, and a clear changes only the control plane
LEMMA HDelInv ==
    ASSUME SyncInv, NEW p \in Procs, NEW ok \in BOOLEAN, HDel(p, ok) \/ ReturnClear(p),
           UNCHANGED deploy
    PROVE  SyncInv'
<1>1. /\ call[p] \in Running /\ call[p].pc # "publish" /\ WithRedis /\ Shape /\ Synced
      /\ call[p].pc = "hdel" =>
            call[p].x \in Prefixes /\ call[p].w \in Written /\ call[p].x = call[p].w.net
  <2>1. WithRedis /\ call[p].pc \in {"hdel", "clear"}
    BY DEF HDel, ReturnClear
  <2>2. Shape /\ Synced
    BY <2>1 DEF SyncInv
  <2>3. call[p] \in {Idle} \cup Running
    BY <2>2 DEF Shape
  <2>4. call[p] \in Running
    BY <2>1, <2>3 DEF Idle
  <2>5. call[p].pc = "hdel" =>
            call[p].x \in Prefixes /\ call[p].w \in Written /\ call[p].x = call[p].w.net
    BY <2>4 DEF Running, Writing
  <2> QED
    BY <2>1, <2>2, <2>4, <2>5
<1>2. UNCHANGED <<deploy, state, cp, dp, inbox, task, missed>>
  BY DEF HDel, ReturnClear
<1>3. /\ call' = [call EXCEPT ![p] = Idle] /\ call'[p] = Idle /\ Idle.pc # "publish"
      /\ \A q \in Procs \ {p} : call'[q] = call[q]
  BY <1>1 DEF HDel, ReturnClear, Shape, Idle
<1>4. /\ hash' \in [Written -> Metas \cup {Nil}]
      /\ unsynced' \subseteq Prefixes /\ unsynced \subseteq unsynced'
      /\ \A x \in Prefixes \ unsynced' : Store'[x] = Store[x]
  <2>1. CASE HDel(p, ok)
    <3>1. /\ call[p].x \in Prefixes /\ call[p].w \in Written /\ call[p].x = call[p].w.net
          /\ hash' = IF ok THEN [hash EXCEPT ![call[p].w] = Nil] ELSE hash
          /\ unsynced' = unsynced \cup {call[p].x}
      BY <1>1, <2>1 DEF HDel
    <3>2. \A x \in Prefixes : x # call[p].x => Store'[x] = Store[x]
      BY <1>1, <3>1, StoreWrite, StoreSame DEF Shape
    <3> QED
      BY <1>1, <3>1, <3>2 DEF Shape
  <2>2. CASE ReturnClear(p)
    BY <1>1, <2>2, StoreSame DEF ReturnClear, Shape
  <2> QED
    BY <2>1, <2>2
<1>5. Shape'
  BY <1>1, <1>2, <1>3, <1>4 DEF Shape
<1>6. SamePubs
  BY <1>1, <1>2, <1>3 DEF SamePubs
<1>7. \A q \in Procs, x \in Prefixes \ unsynced' : Follows(q, x) => Follows(q, x)'
  BY <1>2, <1>4 DEF Follows, Lang
<1>8. Synced'
  BY <1>1, <1>4, <1>6, <1>7, SyncedSame
<1> QED
  BY <1>1, <1>5, <1>8 DEF SyncInv, WithRedis

\* from a clear in Go on everything is out of step
LEMMA GoClearInv ==
    ASSUME SyncInv, NEW p \in Procs, GoClear(p), UNCHANGED deploy
    PROVE  SyncInv'
<1>1. call[p] \in Running /\ call[p].op = "clear" /\ WithRedis /\ Shape /\ state[p] # "down"
  BY DEF GoClear, SyncInv, Shape, Running, Writing, Idle
<1>2. call'[p] = [call[p] EXCEPT !.pc = "publish"] /\ \A q \in Procs \ {p} : call'[q] = call[q]
  BY <1>1 DEF GoClear, Shape
<1>3. call'[p] \in Running
  BY <1>1, <1>2 DEF Running, Writing
<1>4. call' \in [Procs -> {Idle} \cup Running]
  BY <1>1, <1>2, <1>3 DEF GoClear, Shape
<1>5. Shape' /\ Synced'
  BY <1>1, <1>2, <1>4 DEF GoClear, Shape, Synced
<1> QED
  BY <1>1, <1>5 DEF SyncInv, WithRedis

\* a task publishes, or its prefix gets out of step
LEMMA RunTaskInv ==
    ASSUME SyncInv, NEW p \in Procs, NEW ok \in BOOLEAN, RunTask(p, ok), UNCHANGED deploy
    PROVE  SyncInv'
<1>1. PICK i \in DOMAIN task[p] :
        /\ IF ok THEN Publish(task[p][i]) /\ UNCHANGED unsynced
           ELSE unsynced' = unsynced \cup {task[p][i].x} /\ UNCHANGED <<inbox, missed>>
        /\ task' = [task EXCEPT ![p] = RemoveAt(@, i)]
  BY DEF RunTask
<1>2. UNCHANGED <<deploy, hash, Store, state, cp, dp, call>>
  BY StoreSame DEF RunTask
<1> PICK m : m = task[p][i]
  OBVIOUS
<1>3. Shape /\ task[p] \in Seq(Inserts) /\ i \in 1..Len(task[p]) /\ m \in Inserts
  BY DEF SyncInv, Shape
<1>4. m \in Pubs /\ m.x \in Prefixes /\ \A x : About(m, x) <=> m.x = x
  BY <1>3 DEF Pubs, Inserts, About
<1>5. WithRedis /\ Synced
  <2>1. task[p] # <<>>
    BY <1>3
  <2> QED
    BY <2>1 DEF SyncInv, Alone
<1>6. task'[p] = RemoveAt(task[p], i) /\ \A q \in Procs \ {p} : task'[q] = task[q]
  BY <1>1, <1>3 DEF Shape
<1>7. /\ task'[p] \in Seq(Inserts)
      /\ \A j \in DOMAIN task'[p] : \E k \in DOMAIN task[p] : task'[p][j] = task[p][k]
      /\ \A k \in DOMAIN task[p] : k # i => \E j \in DOMAIN task'[p] : task'[p][j] = task[p][k]
  BY <1>3, <1>6, RemoveAtElements
<1>8. task' \in [Procs -> Seq(Inserts)]
  BY <1>1, <1>3, <1>6, <1>7 DEF Shape
<1>9. Shape'
  <2>1. CASE ok
    BY <1>1, <1>2, <1>3, <1>4, <1>8, <2>1, PublishShape DEF Shape
  <2>2. CASE ~ok
    BY <1>1, <1>2, <1>3, <1>4, <1>8, <2>2 DEF Shape
  <2> QED
    BY <2>1, <2>2
<1>10. ASSUME NEW x \in Prefixes
       PROVE  (Told(x) => Told(x)') /\ (~Pending(x)' => ~Pending(x) \/ About(m, x))
  <2>1. Told(x) => Told(x)'
    BY <1>2, <1>6, <1>7 DEF Told
  <2>2. ~Pending(x)' => ~Pending(x) \/ About(m, x)
    <3> SUFFICES ASSUME Pending(x), ~About(m, x) PROVE Pending(x)'
      OBVIOUS
    <3>1. CASE \E q \in Procs : call[q].pc = "publish" /\ About(call[q], x)
      BY <1>2, <3>1 DEF Pending, About
    <3>2. CASE \E q \in Procs : \E k \in DOMAIN task[q] : About(task[q][k], x)
      <4> PICK q \in Procs : \E k \in DOMAIN task[q] : About(task[q][k], x)
        BY <3>2
      <4> PICK k \in DOMAIN task[q] : About(task[q][k], x)
        OBVIOUS
      <4>1. \E j \in DOMAIN task'[q] : task'[q][j] = task[q][k]
        <5>1. CASE q = p
          BY <1>7, <5>1
        <5>2. CASE q # p
          BY <1>6, <5>2
        <5> QED
          BY <5>1, <5>2
      <4>2. \E j \in DOMAIN task'[q] : About(task'[q][j], x)
        BY <4>1
      <4> QED
        BY <4>2, Zenon DEF Pending, About
    <3> QED
      BY <3>1, <3>2 DEF Pending
  <2> QED
    BY <2>1, <2>2
<1>11. ASSUME NEW x \in Prefixes \ unsynced'
       PROVE  Told(x)' /\ (~Pending(x)' => \A q \in Procs : Follows(q, x)')
  <2>1. x \in Prefixes \ unsynced /\ Told(x) /\ (~Pending(x) => \A q \in Procs : Follows(q, x))
    BY <1>1, <1>5, <1>11 DEF Synced
  <2>2. About(m, x) => m.v = Store[x]
    BY <2>1 DEF Told
  <2>3. CASE ok
    <3>1. ASSUME ~Pending(x)', NEW q \in Procs PROVE Follows(q, x)'
      BY <1>1, <1>2, <1>3, <1>4, <1>10, <2>1, <2>2, <2>3, <3>1, PublishFollows
    <3> QED
      BY <1>10, <2>1, <3>1
  <2>4. CASE ~ok
    <3>1. ~About(m, x) /\ UNCHANGED <<inbox, missed>>
      BY <1>1, <1>4, <1>11, <2>4
    <3>2. \A q \in Procs : Follows(q, x) => Follows(q, x)'
      BY <1>2, <3>1 DEF Follows, Lang
    <3> QED
      BY <1>10, <2>1, <3>1, <3>2
  <2> QED
    BY <2>3, <2>4
<1> QED
  BY <1>2, <1>5, <1>9, <1>11 DEF SyncInv, WithRedis, Synced

\* the same for a publication inside a call
LEMMA GoPublishInv ==
    ASSUME SyncInv, NEW p \in Procs, NEW ok \in BOOLEAN, GoPublish(p, ok), UNCHANGED deploy
    PROVE  SyncInv'
<1>1. UNCHANGED <<deploy, hash, Store, state, cp, dp, task>>
  BY StoreSame DEF GoPublish
<1>2. Shape /\ WithRedis /\ Synced /\ call[p] \in Running /\ call[p].pc = "publish"
  BY DEF GoPublish, SyncInv, Shape, Alone, Idle
<1> PICK m : m = Message(p, call[p])
  OBVIOUS
<1>3. m \in Pubs /\ m.v = call[p].v /\ \A x : About(m, x) <=> About(call[p], x)
  BY <1>2, MessageType
<1>4. IF ok THEN Publish(m) /\ UNCHANGED unsynced
      ELSE unsynced' = unsynced \cup Touched(call[p]) /\ UNCHANGED <<inbox, missed>>
  BY DEF GoPublish
<1>5. /\ call' = [call EXCEPT ![p] = Idle] /\ call'[p] = Idle /\ Idle.pc # "publish"
      /\ \A q \in Procs \ {p} : call'[q] = call[q]
  BY <1>2 DEF GoPublish, Shape, Idle
<1>6. Touched(call[p]) \subseteq Prefixes
  BY DEF Touched
<1>7. Shape'
  <2>1. CASE ok
    BY <1>1, <1>2, <1>3, <1>4, <1>5, <2>1, PublishShape DEF Shape
  <2>2. CASE ~ok
    BY <1>1, <1>2, <1>4, <1>5, <1>6, <2>2 DEF Shape
  <2> QED
    BY <2>1, <2>2
<1>8. ASSUME NEW x \in Prefixes
      PROVE  (Told(x) => Told(x)') /\ (~Pending(x)' => ~Pending(x) \/ About(m, x))
  <2>1. Told(x) => Told(x)'
    BY <1>1, <1>5 DEF Told
  <2>2. ~Pending(x)' => ~Pending(x) \/ About(m, x)
    BY <1>1, <1>3, <1>5 DEF Pending
  <2> QED
    BY <2>1, <2>2
<1>9. ASSUME NEW x \in Prefixes \ unsynced'
      PROVE  Told(x)' /\ (~Pending(x)' => \A q \in Procs : Follows(q, x)')
  <2>1. x \in Prefixes \ unsynced /\ Told(x) /\ (~Pending(x) => \A q \in Procs : Follows(q, x))
    BY <1>2, <1>4, <1>9 DEF Synced
  <2>2. About(m, x) => m.v = Store[x]
    BY <1>2, <1>3, <2>1 DEF Told
  <2>3. CASE ok
    <3>1. ASSUME ~Pending(x)', NEW q \in Procs PROVE Follows(q, x)'
      BY <1>1, <1>2, <1>3, <1>4, <1>8, <2>1, <2>2, <2>3, <3>1, PublishFollows
    <3> QED
      BY <1>8, <2>1, <3>1
  <2>4. CASE ~ok
    <3>1. ~About(m, x) /\ UNCHANGED <<inbox, missed>>
      BY <1>3, <1>4, <1>9, <2>4 DEF Touched
    <3>2. \A q \in Procs : Follows(q, x) => Follows(q, x)'
      BY <1>1, <3>1 DEF Follows, Lang
    <3> QED
      BY <1>8, <2>1, <3>1, <3>2
  <2> QED
    BY <2>3, <2>4
<1> QED
  BY <1>1, <1>2, <1>7, <1>9 DEF SyncInv, WithRedis, Synced

\* applying a publication does not change where the inbox leads
LEMMA ApplyInv ==
    ASSUME SyncInv, NEW p \in Procs, Apply(p), UNCHANGED deploy
    PROVE  SyncInv'
<1>1. UNCHANGED <<hash, Store, state, cp, task, call, missed, unsynced>> /\ inbox[p] # <<>>
  BY StoreSame DEF Apply
<1>2. Shape /\ WithRedis /\ Synced /\ inbox[p] \in Seq(Pubs) /\ dp[p] \in Tables
  BY <1>1 DEF SyncInv, Shape, Alone
<1>3. Head(inbox[p]) \in Pubs /\ Tail(inbox[p]) \in Seq(Pubs)
  BY <1>1, <1>2, HeadTailProperties
<1>4. /\ Received(p, dp[p], Head(inbox[p])) \in Tables
      /\ \A x \in Prefixes : Received(p, dp[p], Head(inbox[p]))[x] =
            IF Sets(Lang(p), Head(inbox[p]), x) THEN ValueOf(Lang(p), Head(inbox[p])) ELSE dp[p][x]
  BY <1>2, <1>3, LangType, ReceivedValue
<1>5. /\ dp'[p] = Received(p, dp[p], Head(inbox[p])) /\ inbox'[p] = Tail(inbox[p])
      /\ \A q \in Procs \ {p} : dp'[q] = dp[q] /\ inbox'[q] = inbox[q]
  BY <1>2 DEF Apply, Shape
<1>6. Shape'
  BY <1>1, <1>2, <1>3, <1>4, <1>5 DEF Apply, Shape
<1>7. ASSUME NEW q \in Procs, NEW x \in Prefixes, Follows(q, x) PROVE Follows(q, x)'
  <2>1. CASE q # p
    BY <1>1, <1>5, <1>7, <2>1 DEF Follows, Lang
  <2>2. CASE q = p
    <3>1. SUFFICES ASSUME state[p] \in {"booted", "subscribed"}, x \notin missed[p]
                   PROVE  Ends(Lang(p), x, inbox'[p], dp'[p][x], Store[x])
      BY <1>1, <2>2 DEF Follows, Lang
    <3>2. Ends(Lang(p), x, inbox[p], dp[p][x], Store[x])
      BY <1>7, <2>2, <3>1 DEF Follows
    <3> QED
      BY <1>1, <1>2, <1>4, <1>5, <3>2, EndsTail
  <2> QED
    BY <2>1, <2>2
<1>8. Synced'
  BY <1>1, <1>2, <1>7, SyncedSame DEF SamePubs
<1> QED
  BY <1>2, <1>6, <1>8 DEF SyncInv, WithRedis

\* what a crash takes along gets out of step
LEMMA CrashInv ==
    ASSUME SyncInv, NEW p \in Procs, Crash(p), UNCHANGED deploy
    PROVE  SyncInv'
<1>1. Empty \in Tables /\ Lost(p) \subseteq Prefixes /\ Shape
  BY DEF SyncInv, Empty, Tables, Lost
<1>2. /\ state'[p] = "down" /\ call'[p] = Idle /\ task'[p] = <<>> /\ inbox'[p] = <<>>
      /\ cp'[p] = Empty /\ dp'[p] = Empty /\ Idle.pc # "publish"
      /\ Store' = Store /\ unsynced' = unsynced \cup Lost(p)
  BY <1>1, StoreSame DEF Crash, Shape, Idle
<1>3. \A q \in Procs \ {p} :
        /\ state'[q] = state[q] /\ call'[q] = call[q] /\ task'[q] = task[q]
        /\ inbox'[q] = inbox[q] /\ cp'[q] = cp[q] /\ dp'[q] = dp[q] /\ missed'[q] = missed[q]
  BY <1>1 DEF Crash, Shape
<1>4. <<>> \in Seq(Pubs) /\ <<>> \in Seq(Inserts)
  OBVIOUS
<1>5. Shape'
  BY <1>1, <1>4 DEF Crash, Shape
<1>6. ASSUME WithRedis, NEW x \in Prefixes \ unsynced'
      PROVE  Told(x)' /\ (~Pending(x)' => \A q \in Procs : Follows(q, x)')
  <2>1. x \in Prefixes \ unsynced /\ x \notin Lost(p)
    BY <1>2, <1>6
  <2>2. Told(x) /\ (~Pending(x) => \A q \in Procs : Follows(q, x))
    BY <1>6, <2>1 DEF SyncInv, Synced
  <2>3. Told(x)'
    <3>1. \A q \in Procs : call'[q].pc = "publish" /\ About(call'[q], x) => call'[q].v = Store'[x]
      BY <1>2, <1>3, <2>2 DEF Told
    <3>2. DOMAIN task'[p] = {}
      BY <1>2, EmptyQueue, Zenon
    <3>3. \A q \in Procs : \A i \in DOMAIN task'[q] :
            About(task'[q][i], x) => task'[q][i].v = Store'[x]
      <4>1. \A q \in Procs \ {p} : \A i \in DOMAIN task[q] :
              About(task[q][i], x) => task[q][i].v = Store[x]
        BY <2>2 DEF Told
      <4>2. \A q \in Procs \ {p} : task'[q] = task[q]
        BY <1>3
      <4>3. Store' = Store
        BY <1>2
      <4> QED
        BY <3>2, <4>1, <4>2, <4>3, Zenon
    <3> QED
      BY <3>1, <3>3 DEF Told, About
  <2>4. Pending(x) => Pending(x)'
    <3>1. /\ ~(call[p].pc = "publish" /\ About(call[p], x))
          /\ \A i \in DOMAIN task[p] : ~About(task[p][i], x)
      BY <2>1 DEF Lost
    <3> QED
      BY <1>3, <3>1 DEF Pending
  <2>5. \A q \in Procs : Follows(q, x) => Follows(q, x)'
    BY <1>2, <1>3 DEF Follows, Lang
  <2> QED
    BY <2>2, <2>3, <2>4, <2>5
<1>7. ASSUME ~WithRedis PROVE Alone'
  BY <1>2, <1>3, <1>7 DEF Alone, SyncInv
<1> QED
  BY <1>5, <1>6, <1>7 DEF SyncInv, WithRedis, Synced

\* a broken connection ends Rust's subscription; Go misses what was lost
LEMMA DisconnectInv ==
    ASSUME SyncInv, NEW p \in Procs, Disconnect(p), UNCHANGED deploy
    PROVE  SyncInv'
<1>1. PICK n \in 0..Len(inbox[p]) :
        /\ inbox' = [inbox EXCEPT ![p] = SubSeq(@, 1, n)]
        /\ missed' = [missed EXCEPT ![p] =
                        @ \cup UNION {Touched(inbox[p][i]) : i \in n+1..Len(inbox[p])}]
  BY DEF Disconnect
<1>2. UNCHANGED <<hash, Store, cp, dp, task, call, unsynced>> /\ state[p] = "subscribed"
  BY StoreSame DEF Disconnect
<1>3. Shape /\ WithRedis /\ Synced /\ inbox[p] \in Seq(Pubs)
  BY <1>2 DEF SyncInv, Shape, Alone
<1>4. SubSeq(inbox[p], 1, n) \in Seq(Pubs)
  BY <1>3
<1>5. UNION {Touched(inbox[p][i]) : i \in n+1..Len(inbox[p])} \subseteq Prefixes
  BY DEF Touched
<1>6. state' = [state EXCEPT ![p] = IF Lang(p) = "rust" THEN "ended" ELSE "booted"]
  BY DEF Disconnect
<1>7. Shape'
  BY <1>1, <1>2, <1>3, <1>4, <1>5, <1>6 DEF Shape
<1>8. ASSUME NEW q \in Procs, NEW x \in Prefixes, Follows(q, x) PROVE Follows(q, x)'
  <2>1. CASE q # p
    BY <1>1, <1>2, <1>3, <1>6, <1>8, <2>1 DEF Follows, Lang, Shape
  <2>2. CASE q = p
    <3>1. SUFFICES ASSUME state'[p] \in {"booted", "subscribed"}, x \notin missed'[p]
                   PROVE  Ends(Lang(p), x, inbox'[p], dp[p][x], Store[x])
      BY <1>2, <2>2 DEF Follows, Lang
    <3>2. Lang(p) # "rust" /\ inbox'[p] = SubSeq(inbox[p], 1, n)
      BY <1>1, <1>3, <1>6, <3>1 DEF Shape
    <3>3. missed'[p] = missed[p] \cup UNION {Touched(inbox[p][i]) : i \in n+1..Len(inbox[p])}
      BY <1>1, <1>3 DEF Shape
    <3>4. x \notin missed[p] /\ \A i \in (n + 1)..Len(inbox[p]) : ~About(inbox[p][i], x)
      <4>1. ASSUME NEW i \in (n + 1)..Len(inbox[p]) PROVE x \notin Touched(inbox[p][i])
        BY <3>1, <3>3
      <4> QED
        BY <3>1, <3>3, <4>1 DEF Touched
    <3>5. \A i \in (n + 1)..Len(inbox[p]) : ~Sets(Lang(p), inbox[p][i], x)
      BY <3>2, <3>4 DEF Sets
    <3>6. Ends(Lang(p), x, inbox[p], dp[p][x], Store[x])
      BY <1>2, <1>8, <2>2, <3>4 DEF Follows
    <3> QED
      BY <1>3, <3>2, <3>5, <3>6, EndsCut
  <2> QED
    BY <2>1, <2>2
<1>9. Synced'
  BY <1>2, <1>3, <1>8, SyncedSame DEF SamePubs
<1> QED
  BY <1>3, <1>7, <1>9 DEF SyncInv, WithRedis
----------------------------------------------------------------------------
\* nothing has happened yet
LEMMA InitInv == Init => SyncInv
<1> SUFFICES ASSUME Init PROVE SyncInv
  OBVIOUS
<1>1. Empty \in Tables /\ <<>> \in Seq(Pubs) /\ <<>> \in Seq(Inserts) /\ Idle.pc = "idle"
  BY DEF Empty, Tables, Idle
<1>2. Shape
  BY <1>1 DEF Init, Shape
<1>3. Synced
  <2>1. \A q \in Procs : call[q].pc # "publish" /\ task[q] = <<>> /\ state[q] = "down"
    BY <1>1 DEF Init
  <2>2. \A x : Told(x)
    BY <2>1 DEF Told
  <2>3. \A q \in Procs : \A x : Follows(q, x)
    BY <2>1 DEF Follows
  <2> QED
    BY <2>2, <2>3 DEF Synced
<1>4. Alone
  BY <1>1 DEF Init, Alone
<1> QED
  BY <1>2, <1>3, <1>4 DEF SyncInv

\* nor is there a field in the hash
LEMMA InitPlain == Init => Plain
<1> SUFFICES ASSUME Init, NEW x \in Prefixes PROVE Loads(x) = {Store[x]}
  BY DEF Plain
<1>1. Fields(x) = {}
  BY DEF Init, Fields
<1>2. Loads(x) = {Nil}
  BY <1>1 DEF Loads
<1> QED
  BY <1>2, StoreValue

\* what callers write is a spelling of a prefix
LEMMA SpelledType ==
    ASSUME SyncInv, NEW p \in Procs, NEW w \in deploy.writes[p]
    PROVE  w \in Written /\ w.net \in Prefixes
BY ConstantsAssumption DEF SyncInv, Shape

(***************************************************************************)
(* A prefix in step has one field or none: its last write found no other   *)
(* spelling, and only another write adds one.                              *)
(***************************************************************************)
LEMMA NextPlain == Shape /\ Plain /\ [Next]_vars => Plain'
<1> SUFFICES ASSUME Shape, Plain, [Next]_vars, NEW x \in Prefixes, x \notin unsynced'
             PROVE  Loads(x)' = {Store'[x]}
  BY DEF Plain
<1>1. ASSUME UNCHANGED hash, unsynced \subseteq unsynced' PROVE Loads(x)' = {Store'[x]}
  BY <1>1, StoreSame DEF Plain
<1>2. ASSUME NEW p \in Procs, NEW ok \in BOOLEAN, call[p] \in Running, call[p].op # "clear",
             WriteField(p, ok)
      PROVE  Loads(x)' = {Store'[x]}
  <2> PICK c : c = call[p]
    OBVIOUS
  <2>1. c.w \in Written /\ c.x = c.w.net /\ c.v \in Metas \cup {Nil}
    BY <1>2 DEF Running, Writing
  <2>2. CASE ok
    <3>1. hash' = [hash EXCEPT ![c.w] = c.v] /\ hash \in [Written -> Metas \cup {Nil}]
      BY <1>2, <2>2 DEF WriteField, Shape
    <3>2. unsynced' = IF InStep(c) THEN unsynced \ {c.x} ELSE unsynced \cup {c.x}
      BY <1>2, <2>2 DEF WriteField
    <3>3. /\ \A y \in Prefixes : y # c.w.net => Loads(y)' = Loads(y) /\ Store'[y] = Store[y]
          /\ Fields(c.w.net) \subseteq {c.w} => Loads(c.w.net)' = {c.v} /\ Store'[c.w.net] = c.v
      BY <2>1, <3>1, StoreWrite, Zenon
    <3>4. CASE x = c.x
      <4>1. Fields(c.w.net) \subseteq {c.w}
        BY <2>1, <3>2, <3>4 DEF InStep, Fields
      <4>2. Loads(c.w.net)' = {Store'[c.w.net]}
        BY <3>3, <4>1, Zenon
      <4> QED
        BY <2>1, <3>4, <4>2 DEF Loads, Fields
    <3>5. CASE x # c.x
      <4>1. x \in Prefixes \ unsynced
        BY <3>2, <3>5
      <4> QED
        BY <2>1, <3>3, <3>5, <4>1, Zenon DEF Plain
    <3> QED
      BY <3>4, <3>5
  <2>3. CASE ~ok
    BY <1>1, <1>2, <2>3 DEF WriteField
  <2> QED
    BY <2>2, <2>3
<1>3. ASSUME NEW p \in Procs, NEW ok \in BOOLEAN, HDel(p, ok) PROVE Loads(x)' = {Store'[x]}
  <2>1. call[p] \in Running /\ call[p].pc = "hdel"
    BY <1>3 DEF HDel, Shape, Idle
  <2>2. call[p].w \in Written /\ call[p].x = call[p].w.net
    BY <2>1 DEF Running, Writing
  <2>3. /\ hash' = IF ok THEN [hash EXCEPT ![call[p].w] = Nil] ELSE hash
        /\ unsynced' = unsynced \cup {call[p].x} /\ hash \in [Written -> Metas \cup {Nil}]
    BY <1>3 DEF HDel, Shape
  <2>4. CASE ok
    <3>1. x # call[p].w.net /\ x \in Prefixes \ unsynced
      BY <2>2, <2>3
    <3>2. hash' = [hash EXCEPT ![call[p].w] = Nil] /\ Nil \in Metas \cup {Nil}
      BY <2>3, <2>4
    <3>3. Loads(x)' = Loads(x) /\ Store'[x] = Store[x]
      BY <2>2, <2>3, <3>1, <3>2, StoreWrite, Zenon
    <3> QED
      BY <3>1, <3>3, Zenon DEF Plain
  <2>5. CASE ~ok
    BY <1>1, <2>3, <2>5
  <2> QED
    BY <2>4, <2>5
<1>4. ASSUME NEW p \in Procs, NEW ok \in BOOLEAN, HSet(p, ok) \/ GoWriteField(p, ok)
      PROVE  Loads(x)' = {Store'[x]}
  <2>1. call[p] \in Running /\ call[p].op # "clear" /\ WriteField(p, ok)
    BY <1>4 DEF HSet, GoWriteField, Shape, Running, Writing, Idle
  <2> QED
    BY <1>2, <2>1
<1>5. ASSUME NEW p \in Procs, Progress(p) PROVE Loads(x)' = {Store'[x]}
  <2>1. CASE LocalSync(p) \/ ReturnClear(p) \/ \E ok \in BOOLEAN : Subscribe(p, ok)
    BY <1>1, <2>1 DEF LocalSync, ReturnClear, Subscribe
  <2>2. CASE GoClear(p)
    BY <2>2 DEF GoClear
  <2>3. ASSUME NEW ok \in BOOLEAN, GoPublish(p, ok) PROVE Loads(x)' = {Store'[x]}
    BY <1>1, <2>3 DEF GoPublish
  <2> QED
    BY <1>3, <1>4, <1>5, <2>1, <2>2, <2>3 DEF Progress
<1>6. ASSUME NEW p \in Procs,
             \/ \E ok \in BOOLEAN : Boot(p, ok)
             \/ Insert(p) \/ Remove(p) \/ Clear(p) \/ Publications(p) \/ Apply(p)
             \/ Crash(p) \/ Disconnect(p)
      PROVE  Loads(x)' = {Store'[x]}
  <2>1. UNCHANGED hash /\ unsynced \subseteq unsynced'
    <3>1. CASE \E ok \in BOOLEAN : Boot(p, ok)
      BY <3>1 DEF Boot
    <3>2. CASE Insert(p) \/ Remove(p) \/ Clear(p)
      BY <3>2 DEF Insert, Remove, Clear, Call
    <3>3. CASE Publications(p)
      BY <3>3 DEF Publications, RunTask
    <3>4. CASE Apply(p) \/ Crash(p) \/ Disconnect(p)
      BY <3>4 DEF Apply, Crash, Disconnect
    <3> QED
      BY <1>6, <3>1, <3>2, <3>3, <3>4
  <2> QED
    BY <1>1, <2>1
<1>7. CASE UNCHANGED vars
  BY <1>1, <1>7 DEF vars
<1> QED
  BY <1>5, <1>6, <1>7 DEF Next

\* every step keeps the invariant
LEMMA NextInv == SyncInv /\ Plain /\ [Next]_vars => SyncInv' /\ Plain'
<1> SUFFICES ASSUME SyncInv, Plain, [Next]_vars PROVE SyncInv'
  BY NextPlain DEF SyncInv
<1>1. CASE UNCHANGED vars
  <2>1. Shape' /\ (WithRedis' <=> WithRedis) /\ Store' = Store
    BY <1>1, StoreSame DEF vars, SyncInv, Shape, WithRedis
  <2>2. \A p \in Procs, x \in Prefixes : Follows(p, x) => Follows(p, x)'
    BY <1>1, <2>1 DEF vars, Follows, Lang
  <2>3. WithRedis => Synced'
    BY <1>1, <2>1, <2>2, SyncedSame DEF vars, SyncInv, SamePubs
  <2>4. ~WithRedis => Alone'
    BY <1>1 DEF vars, SyncInv, Alone
  <2> QED
    BY <2>1, <2>3, <2>4 DEF SyncInv
<1>2. ASSUME NEW p \in Procs, UNCHANGED deploy,
             \/ \E ok \in BOOLEAN : Boot(p, ok)
             \/ Insert(p) \/ Remove(p) \/ Clear(p)
             \/ Progress(p) \/ Publications(p) \/ Apply(p)
             \/ Crash(p) \/ Disconnect(p)
      PROVE  SyncInv'
  <2>1. ASSUME NEW ok \in BOOLEAN, Boot(p, ok) PROVE SyncInv'
    BY <1>2, <2>1, BootInv
  <2>2. CASE Insert(p)
    <3>1. PICK w \in deploy.writes[p], v \in Metas :
            Call(p, [pc |-> "hset", op |-> "insert", w |-> w, x |-> w.net, v |-> v])
      BY <2>2 DEF Insert
    <3>2. [pc |-> "hset", op |-> "insert", w |-> w, x |-> w.net, v |-> v] \in Running
      BY <1>2, SpelledType DEF Running, Writing
    <3> QED
      BY <1>2, <3>1, <3>2, CallInv
  <2>3. CASE Remove(p)
    <3>1. PICK w \in deploy.writes[p] :
            Call(p, [pc |-> "hdel", op |-> "remove", w |-> w, x |-> w.net, v |-> Nil])
      BY <2>3 DEF Remove
    <3>2. [pc |-> "hdel", op |-> "remove", w |-> w, x |-> w.net, v |-> Nil] \in Running
      BY <1>2, SpelledType DEF Running, Writing
    <3> QED
      BY <1>2, <3>1, <3>2, CallInv
  <2>4. CASE Clear(p)
    <3>1. [pc |-> "clear", op |-> "clear", w |-> Nil, x |-> Nil, v |-> Nil] \in Running
      BY DEF Running
    <3> QED
      BY <1>2, <2>4, <3>1, CallInv DEF Clear
  <2>5. CASE Progress(p)
    BY <1>2, <2>5, LocalInv, HDelInv, GoClearInv, SubscribeInv, WriteInv, GoPublishInv DEF Progress
  <2>6. CASE Publications(p)
    BY <1>2, <2>6, RunTaskInv DEF Publications
  <2>7. CASE Apply(p) \/ Crash(p) \/ Disconnect(p)
    BY <1>2, <2>7, ApplyInv, CrashInv, DisconnectInv
  <2> QED
    BY <1>2, <2>1, <2>2, <2>3, <2>4, <2>5, <2>6, <2>7
<1> QED
  BY <1>1, <1>2 DEF Next

(***************************************************************************)
(* The planes, the hash and the messages of HybridEngine (hybrid.rs,       *)
(* hybrid.go) keep their types, for any number of processes.               *)
(***************************************************************************)
THEOREM TypesHold == Spec => []TypeOK
<1>1. SyncInv => TypeOK
  BY ShapeTypes DEF SyncInv
<1> QED
  BY <1>1, InitInv, InitPlain, NextInv, PTL DEF Spec

(***************************************************************************)
(* At rest every subscribed HybridEngine holds what the hash holds         *)
(* (hybrid.rs:113-162, hybrid.go:84-134), wherever no update was missed    *)
(* and the last write was published in step, under the spelling the hash   *)
(* has: for any number of processes of both languages, of spellings,       *)
(* calls, crashes, broken connections and failing commands.                *)
(***************************************************************************)
THEOREM ConvergesUnlessDisturbedHolds == Spec => []ConvergesUnlessDisturbed
<1>1. SyncInv /\ Plain => ConvergesUnlessDisturbed
  <2> SUFFICES ASSUME SyncInv, Plain, AtRest, NEW p \in Procs, NEW x \in Prefixes, Serving(p),
                      x \notin missed[p] \cup unsynced
               PROVE  Agrees(p, x)
    BY DEF ConvergesUnlessDisturbed
  <2>1. \A q \in Procs : call[q].pc # "publish" /\ task[q] = <<>> /\ inbox[q] = <<>>
    <3>1. Idle.pc # "publish"
      BY DEF Idle
    <3> QED
      BY <3>1 DEF AtRest
  <2>2. CASE WithRedis
    <3>1. ~Pending(x)
      <4>1. \A q \in Procs : DOMAIN task[q] = {}
        BY <2>1, EmptyQueue, Zenon
      <4> QED
        BY <2>1, <4>1 DEF Pending
    <3>2. Ends(Lang(p), x, inbox[p], dp[p][x], Store[x])
      BY <2>2, <3>1 DEF SyncInv, Synced, Follows, Serving
    <3>3. Ends(Lang(p), x, <<>>, dp[p][x], Store[x])
      BY <2>1, <3>2, Zenon
    <3>4. dp[p][x] = Store[x]
      BY <3>3, EndsEmpty, Zenon
    <3> QED
      BY <2>2, <3>4 DEF Agrees, Plain
  <2>3. CASE ~WithRedis
    BY <2>3 DEF SyncInv, Alone, AtRest, Agrees
  <2> QED
    BY <2>2, <2>3
<1> QED
  BY <1>1, InitInv, InitPlain, NextInv, PTL DEF Spec
=============================================================================
