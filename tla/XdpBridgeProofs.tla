-------------------------- MODULE XdpBridgeProofs --------------------------
(***************************************************************************)
(* What the XDP blocklist guarantees whatever the Redis set holds, for any *)
(* address widths, configurations and map sizes, and through any number of *)
(* restarts on the pinned maps.  Then, that a loader that has lost nothing *)
(* mirrors the Redis set: subscribing before the snapshot is read, and     *)
(* applying the messages after it has been written, catches every change   *)
(* in between.                                                             *)
(***************************************************************************)
EXTENDS XdpBridge, SequenceTheorems, TLAPS

Messages == [op : {"add", "bare", "del"}, item : Items]

\* what is announced as added has been in the Redis set
Announced(m, L) == m \in Messages /\ (m.op # "del" => m.item \in L)

\* a map entry is what some configuration in use made of a listed member
Made(p, L, U) == p # Nil /\ \E i \in L, c \in U : p = Net(c, i)

Provenance ==
    /\ redisSet \subseteq listed /\ todo \subseteq listed
    /\ outbox # Nil => Announced(outbox, listed)
    /\ channel \in Seq(Messages)
    /\ \A k \in 1..Len(channel) : Announced(channel[k], listed)
    /\ \A p \in blocklist : Made(p, listed, used)

InForce ==
    /\ phase # "down" => cfg \in used
    /\ \A c \in used : c.never # Nil

IInv == TypeOK /\ Provenance /\ InForce /\ FailClosed
----------------------------------------------------------------------------
(***************************************************************************)
(* normalize refuses a prefix that overlaps a never-block prefix, so what  *)
(* it returns covers no address of one.                                    *)
(***************************************************************************)
LEMMA NeverCovered ==
    ASSUME NEW c \in Configs, NEW i \in Items, NEW a \in Addrs,
           c.never # Nil, Net(c, i) # Nil, Protected(c, a)
    PROVE  ~Contains(Net(c, i), a)
<1> DEFINE p == Net(c, i)
<1>1. p = Unmap(Trunc(ParseNet(i))) /\ Accepts(c, p)
  BY DEF Net, Normalize
<1>2. p.bits \in Seq({0, 1})
  <2>1. i.addr \in Seq({0, 1}) /\ i.len \in 0..Len(i.addr)
    BY ConstantsAssumption
  <2>2. ParseNet(i).addr \in Seq({0, 1}) /\ ParseNet(i).len \in 0..Len(ParseNet(i).addr)
    BY <2>1 DEF ParseNet, Net
  <2>3. Trunc(ParseNet(i)).bits \in Seq({0, 1})
    BY <2>2 DEF Trunc
  <2> QED
    BY <1>1, <2>3, ConstantsAssumption DEF Unmap
<1>3. PICK n \in c.never : Contains(n, a)
  BY DEF Protected
<1>4. n.bits \in Seq({0, 1}) /\ a.bits \in Seq({0, 1})
  BY ConstantsAssumption
<1>5. ~Contains(p, n) /\ ~Contains(n, p)
  BY <1>1 DEF Accepts, Overlaps
<1> HIDE DEF p
<1>6. ASSUME Contains(p, a) PROVE FALSE
  <2>1. CASE Len(p.bits) <= Len(n.bits)
    BY <2>1, <1>2, <1>3, <1>4, <1>5, <1>6 DEF Contains
  <2>2. CASE Len(n.bits) <= Len(p.bits)
    BY <2>2, <1>2, <1>3, <1>4, <1>5, <1>6 DEF Contains
  <2> QED
    BY <2>1, <2>2, <1>2, <1>4
<1> QED
  BY <1>6 DEF p
(***************************************************************************)
(* parse_net and normalize keep to the addresses the member stands for:    *)
(* cutting off host bits and rewriting an IPv4-mapped prefix add none.     *)
(***************************************************************************)
LEMMA CoveredNamed ==
    ASSUME NEW c \in Configs, NEW i \in Items, NEW a \in Addrs,
           Net(c, i) # Nil, Contains(Net(c, i), a)
    PROVE  Names(i, a)
<1> DEFINE n == ParseNet(i)
           t == Trunc(n)
           m == Len(Mapped)
<1>1. n # Nil /\ Net(c, i) = Unmap(t)
  BY DEF Net, Normalize
<1>2. n.addr \in Seq({0, 1}) /\ n.len \in 0..Len(n.addr)
  <2>1. i.addr \in Seq({0, 1}) /\ i.len \in 0..Len(i.addr)
    BY ConstantsAssumption
  <2> QED
    BY <1>1, <2>1 DEF ParseNet
<1>3. a.bits \in Seq({0, 1}) /\ Mapped \in Seq({0, 1}) /\ m \in Nat
  BY ConstantsAssumption
<1> HIDE DEF n
<1>4. /\ t.fam = n.fam /\ t.bits \in Seq({0, 1}) /\ Len(t.bits) = n.len
      /\ \A k \in 1..n.len : t.bits[k] = n.addr[k]
  BY <1>2 DEF Trunc
<1> HIDE DEF t, m
<1>5. CASE t.fam = 6 /\ Contains([fam |-> 6, bits |-> Mapped], t)
  <2> DEFINE u == SubSeq(t.bits, m + 1, Len(t.bits))
  <2>1. m <= n.len /\ \A k \in 1..m : t.bits[k] = Mapped[k]
    BY <1>3, <1>4, <1>5 DEF Contains, m
  <2>2. Len(u) = n.len - m /\ \A k \in 1..(n.len - m) : u[k] = t.bits[m + k]
    <3>1. Len(t.bits) \in Int /\ m + 1 \in Int /\ \A k \in (m + 1)..Len(t.bits) : t.bits[k] \in {0, 1}
      BY <1>2, <1>3, <1>4
    <3>2. /\ Len(u) = IF m + 1 <= Len(t.bits) THEN Len(t.bits) - (m + 1) + 1 ELSE 0
          /\ \A k \in 1..(Len(t.bits) - (m + 1) + 1) : u[k] = t.bits[m + 1 + k - 1]
      BY <3>1, SubSeqProperties
    <3> HIDE DEF u
    <3>3. n.len \in Nat /\ Len(t.bits) = n.len
      BY <1>2, <1>4
    <3> QED
      BY <3>2, <3>3, <1>3, <2>1
  <2>3. a.fam = 4 /\ Len(u) <= Len(a.bits) /\ \A k \in 1..Len(u) : u[k] = a.bits[k]
    BY <1>1, <1>5 DEF Contains, Unmap, m
  <2> HIDE DEF u
  <2>4. n.len <= Len(Mapped \o a.bits)
    BY <1>2, <1>3, <2>2, <2>3 DEF m
  <2>5. ASSUME NEW k \in 1..n.len PROVE n.addr[k] = (Mapped \o a.bits)[k]
    <3>1. CASE k <= m
      BY <3>1, <1>2, <1>3, <1>4, <2>1, <2>5 DEF m
    <3>2. CASE k > m
      <4>1. k - m \in 1..(n.len - m)
        BY <3>2, <1>2, <1>3, <2>1
      <4>2. n.addr[k] = a.bits[k - m]
        BY <4>1, <1>2, <1>3, <1>4, <2>2, <2>3
      <4> QED
        BY <4>1, <4>2, <3>2, <1>2, <1>3, <2>2, <2>3 DEF m
    <3>3. k <= m \/ k > m
      BY <1>3
    <3> QED
      BY <3>1, <3>2, <3>3
  <2> QED
    BY <1>1, <1>4, <1>5, <2>1, <2>3, <2>4, <2>5 DEF Names, n, m
<1>6. CASE ~(t.fam = 6 /\ Contains([fam |-> 6, bits |-> Mapped], t))
  <2>1. Net(c, i) = t
    BY <1>1, <1>6 DEF Unmap
  <2>2. /\ n.fam = a.fam /\ n.len <= Len(a.bits)
        /\ \A k \in 1..n.len : n.addr[k] = a.bits[k]
    BY <2>1, <1>4 DEF Contains
  <2> QED
    BY <1>1, <2>2 DEF Names, n
<1> QED
  BY <1>5, <1>6
----------------------------------------------------------------------------
\* more members and more configurations leave a map entry accounted for
LEMMA MadeStays ==
    ASSUME NEW p, NEW L, NEW L2, NEW U, NEW U2, L \subseteq L2, U \subseteq U2, Made(p, L, U)
    PROVE  Made(p, L2, U2)
BY DEF Made

\* Maps::put adds at most the one entry, and keeps entries inside the map
LEMMA PutAdds ==
    ASSUME NEW p, Put(p), entries \subseteq blocklist, reliable \in BOOLEAN
    PROVE  /\ blocklist' \subseteq blocklist \cup {p}
           /\ entries' \subseteq blocklist'
           /\ reliable' \in BOOLEAN
BY Zenon DEF Put

\* start(): nothing is in the maps before the first process
LEMMA InitInv == Init => IInv
<1> SUFFICES ASSUME Init PROVE IInv
  OBVIOUS
<1>1. TypeOK
  BY DEF Init, TypeOK
<1>2. Provenance
  BY DEF Init, Provenance
<1>3. InForce /\ FailClosed
  BY DEF Init, InForce, FailClosed
<1> QED
  BY <1>1, <1>2, <1>3 DEF IInv
(***************************************************************************)
(* A process that starts on the pinned maps adds its configuration to      *)
(* those the entries come from.                                            *)
(***************************************************************************)
LEMMA LoadInv ==
    ASSUME IInv, NEW c \in Configs, Load(c) PROVE IInv'
<1> USE DEF IInv, Load, redis, ConfigFromEnv
<1>1. TypeOK'
  BY DEF TypeOK
<1>2. Provenance'
  <2>1. ASSUME NEW p \in blocklist' PROVE Made(p, listed', used')
    BY <2>1, MadeStays DEF Provenance
  <2> QED
    BY <2>1 DEF Provenance
<1>3. InForce' /\ FailClosed'
  BY DEF InForce, FailClosed
<1> QED
  BY <1>1, <1>2, <1>3

\* start() up to the snapshot touches no map
LEMMA StartInv ==
    ASSUME IInv, NEW ok \in BOOLEAN, Subscribe(ok) \/ ReadSnapshot(ok) PROVE IInv'
<1> USE DEF IInv, Subscribe, ReadSnapshot, redis
<1>1. TypeOK'
  BY DEF TypeOK
<1>2. Provenance'
  BY DEF Provenance
<1>3. InForce' /\ FailClosed'
  BY DEF InForce, FailClosed
<1> QED
  BY <1>1, <1>2, <1>3

\* the end of a process leaves the maps, and what they come from
LEMMA EndedInv ==
    ASSUME IInv, Ended PROVE IInv'
<1> USE DEF IInv, Ended, redis
<1>1. TypeOK'
  BY DEF TypeOK
<1>2. Provenance'
  BY DEF Provenance
<1>3. InForce' /\ FailClosed'
  BY DEF InForce, FailClosed
<1> QED
  BY <1>1, <1>2, <1>3

\* the program is attached after the fail_closed test
LEMMA AttachInv ==
    ASSUME IInv, NEW ok \in BOOLEAN, Attach(ok) PROVE IInv'
<1>1. CASE Ended
  BY <1>1, EndedInv
<1>2. CASE ~Ended
  <2> USE <1>2 DEF IInv, Attach, redis
  <2>1. TypeOK'
    BY DEF TypeOK
  <2>2. Provenance'
    BY DEF Provenance
  <2>3. InForce' /\ FailClosed'
    BY DEF InForce, FailClosed, Refuse
  <2> QED
    BY <2>1, <2>2, <2>3
<1> QED
  BY <1>1, <1>2

\* a member of the snapshot is written as the configuration in force makes it
LEMMA SeedInv ==
    ASSUME IInv, NEW i \in todo, SeedItem(i) PROVE IInv'
<1> USE DEF IInv, SeedItem, redis
<1>1. /\ blocklist' \subseteq blocklist \cup (IF Net(cfg, i) = Nil THEN {} ELSE {Net(cfg, i)})
      /\ entries' \subseteq blocklist' /\ reliable' \in BOOLEAN
  BY PutAdds DEF TypeOK
<1>2. TypeOK'
  BY <1>1 DEF TypeOK
<1>3. Provenance'
  <2>1. Net(cfg, i) # Nil => Made(Net(cfg, i), listed, used)
    BY DEF Made, Provenance, InForce
  <2> QED
    BY <1>1, <2>1 DEF Provenance
<1>4. InForce' /\ FailClosed'
  BY DEF InForce, FailClosed
<1> QED
  BY <1>2, <1>3, <1>4
\* apply_event writes what is announced as added, or removes
LEMMA MessageInv ==
    ASSUME IInv, Message PROVE IInv'
<1> USE DEF IInv, redis
<1> DEFINE m == Head(channel)
           p == Net(cfg, m.item)
<1>1. m = channel[1] /\ Announced(m, listed)
  BY DEF Message, Provenance
<1>2. ApplyEvent(m)
  BY DEF Message
<1>3. /\ \A q \in blocklist' : q \in blocklist \/ (q = p /\ p # Nil /\ m.op # "del")
      /\ entries' \subseteq blocklist' /\ reliable' \in BOOLEAN
  <2> HIDE DEF m
  <2>1. CASE p = Nil
    BY <1>2, <2>1 DEF ApplyEvent, TypeOK
  <2>2. CASE p # Nil /\ m.op = "del"
    BY <1>2, <2>2 DEF ApplyEvent, TypeOK, Delete
  <2>3. CASE p # Nil /\ m.op # "del"
    <3>1. Put(p)
      BY <1>2, <2>3 DEF ApplyEvent
    <3> QED
      BY <3>1, <2>3, PutAdds DEF TypeOK
  <2> QED
    BY <2>1, <2>2, <2>3
<1>4. TypeOK'
  BY <1>3 DEF TypeOK, Message
<1>5. Provenance'
  <2>1. /\ channel' \in Seq(Messages)
        /\ \A k \in 1..Len(channel') : channel'[k] = channel[k + 1] /\ k + 1 \in 1..Len(channel)
    BY DEF Message, Provenance
  <2>2. p # Nil /\ m.op # "del" => Made(p, listed, used)
    BY <1>1 DEF Made, Announced, InForce, Message
  <2>3. \A q \in blocklist' : Made(q, listed, used)
    BY <1>3, <2>2 DEF Provenance
  <2>4. UNCHANGED <<redisSet, outbox, listed, todo, used>>
    BY DEF Message
  <2> QED
    BY <2>1, <2>3, <2>4 DEF Provenance
<1>6. InForce' /\ FailClosed'
  BY DEF InForce, FailClosed, Message
<1> QED
  BY <1>4, <1>5, <1>6

\* a lost connection takes its messages with it
LEMMA ClosedInv ==
    ASSUME IInv, Closed PROVE IInv'
<1> USE DEF IInv, Closed, redis
<1>1. TypeOK'
  BY DEF TypeOK
<1>2. Provenance'
  BY DEF Provenance
<1>3. InForce' /\ FailClosed'
  BY DEF InForce, FailClosed
<1> QED
  BY <1>1, <1>2, <1>3

\* the maintainer records a member before it announces it
LEMMA ChangeInv ==
    ASSUME IInv, NEW i \in Items, NEW op \in {"add", "bare", "del"}, Change(i, op) PROVE IInv'
<1> USE DEF IInv, Change
<1>1. TypeOK'
  BY DEF TypeOK
<1>2. listed \subseteq listed' /\ redisSet' \subseteq listed'
  OBVIOUS
<1>3. Provenance'
  <2>1. Announced(outbox', listed')
    BY <1>2 DEF Announced, Messages
  <2>2. \A k \in 1..Len(channel) : Announced(channel[k], listed')
    BY <1>2 DEF Announced, Provenance
  <2>3. \A q \in blocklist : Made(q, listed', used)
    BY <1>2, MadeStays DEF Provenance
  <2> QED
    BY <1>2, <2>1, <2>2, <2>3 DEF Provenance
<1>4. InForce' /\ FailClosed'
  BY DEF InForce, FailClosed
<1> QED
  BY <1>1, <1>3, <1>4

\* a publication reaches whoever is subscribed
LEMMA PublishInv ==
    ASSUME IInv, Publish PROVE IInv'
<1> USE DEF IInv, Publish
<1>1. TypeOK'
  BY DEF TypeOK
<1>2. Provenance'
  <2>1. outbox \in Messages /\ Announced(outbox, listed)
    BY DEF Provenance, Announced
  <2>2. /\ channel' \in Seq(Messages)
        /\ \A k \in 1..Len(channel') : Announced(channel'[k], listed)
    BY <2>1 DEF Provenance
  <2> QED
    BY <2>2 DEF Provenance
<1>3. InForce' /\ FailClosed'
  BY DEF InForce, FailClosed
<1> QED
  BY <1>1, <1>2, <1>3
\* every step of the loader, the maintainer and the faults keeps the invariant
LEMMA NextInv == IInv /\ [Next]_vars => IInv'
<1> SUFFICES ASSUME IInv, [Next]_vars PROVE IInv'
  OBVIOUS
<1>1. ASSUME NEW c \in Configs, Load(c) PROVE IInv'
  BY <1>1, LoadInv
<1>2. ASSUME NEW ok \in BOOLEAN, Subscribe(ok) \/ ReadSnapshot(ok) \/ Attach(ok) PROVE IInv'
  BY <1>2, StartInv, AttachInv
<1>3. ASSUME NEW i \in todo, SeedItem(i) PROVE IInv'
  BY <1>3, SeedInv
<1>4. CASE BailOut \/ Exit
  BY <1>4, EndedInv DEF BailOut, Exit
<1>5. CASE Message
  BY <1>5, MessageInv
<1>6. CASE Closed
  BY <1>6, ClosedInv
<1>7. ASSUME NEW i \in Items, NEW op \in {"add", "bare", "del"}, Change(i, op) PROVE IInv'
  BY <1>7, ChangeInv
<1>8. CASE Publish
  BY <1>8, PublishInv
<1>9. CASE UNCHANGED vars
  BY <1>9 DEF vars, IInv, TypeOK, Provenance, InForce, FailClosed
<1> QED
  BY <1>1, <1>2, <1>3, <1>4, <1>5, <1>6, <1>7, <1>8, <1>9 DEF Next, Loader
----------------------------------------------------------------------------
(***************************************************************************)
(* The variables keep their types; in particular the loader's own record   *)
(* (Maps.entries) never names an entry the kernel maps do not have.        *)
(***************************************************************************)
THEOREM TypesHold == Spec => []TypeOK
<1>1. IInv => TypeOK
  BY DEF IInv
<1> QED
  BY <1>1, InitInv, NextInv, PTL DEF Spec

(***************************************************************************)
(* The self-lockout guard of normalize, for all address widths, never-     *)
(* block lists and minimum lengths: a frame from an address that every     *)
(* configuration since the maps were created protects is not dropped.      *)
(***************************************************************************)
THEOREM ProtectedPassesHolds == Spec => []ProtectedPasses
<1>1. ASSUME IInv PROVE ProtectedPasses
  <2> SUFFICES ASSUME NEW a \in Addrs, \A c \in used : Protected(c, a),
                      NEW f \in Frames, f.src = a, Verdict(f) # "pass"
               PROVE  FALSE
    BY DEF ProtectedPasses
  <2>1. Hit(a)
    BY DEF Verdict, TryXdp
  <2>2. PICK p \in blocklist : Contains(p, a)
    BY <2>1 DEF Hit
  <2>3. PICK i \in listed, c \in used : p = Net(c, i) /\ p # Nil
    BY <1>1, <2>2 DEF IInv, Provenance, Made
  <2>4. i \in Items /\ c \in Configs /\ c.never # Nil
    BY <1>1 DEF IInv, TypeOK, InForce
  <2> QED
    BY <2>2, <2>3, <2>4, NeverCovered
<1> QED
  BY <1>1, InitInv, NextInv, PTL DEF Spec

(***************************************************************************)
(* Only the sources that a current or former member of the Redis set       *)
(* stands for are dropped, however its text was cut and rewritten on the   *)
(* way into the maps and whichever process wrote it.                       *)
(***************************************************************************)
THEOREM OnlyListedDroppedHolds == Spec => []OnlyListedDropped
<1>1. ASSUME IInv PROVE OnlyListedDropped
  <2> SUFFICES ASSUME NEW f \in Frames, Verdict(f) = "drop"
               PROVE  \E i \in listed : Names(i, f.src)
    BY DEF OnlyListedDropped
  <2>1. f.src \in Addrs /\ Hit(f.src)
    BY DEF Frames, Verdict, TryXdp
  <2>2. PICK p \in blocklist : Contains(p, f.src)
    BY <2>1 DEF Hit
  <2>3. PICK i \in listed, c \in used : p = Net(c, i) /\ p # Nil
    BY <1>1, <2>2 DEF IInv, Provenance, Made
  <2>4. i \in Items /\ c \in Configs
    BY <1>1 DEF IInv, TypeOK
  <2> QED
    BY <2>1, <2>2, <2>3, <2>4, CoveredNamed
<1> QED
  BY <1>1, InitInv, NextInv, PTL DEF Spec

(***************************************************************************)
(* "refusing to attach" (loader lib.rs:197-201): under fail_closed the     *)
(* program runs only after a snapshot has been read.                       *)
(***************************************************************************)
THEOREM FailClosedHolds == Spec => []FailClosed
<1>1. IInv => FailClosed
  BY DEF IInv
<1> QED
  BY <1>1, InitInv, NextInv, PTL DEF Spec
----------------------------------------------------------------------------
\* the changes that have not reached the maps, in their order
Pending == IF outbox = Nil THEN channel ELSE Append(channel, outbox)

\* of each member the last message says whether it is in the set
Tells(s, S) ==
    \A k \in 1..Len(s) :
        (\A l \in (k + 1)..Len(s) : s[l].item # s[k].item)
            => (s[k].op # "del" <=> s[k].item \in S)

About(c, s, p) == \E k \in 1..Len(s) : Net(c, s[k].item) = p

Lists(c, S, p) == \E i \in S : Net(c, i) = p

\* a prefix no message is about is in the map, or about to be, iff it is listed
Mirrors(c, s, S, T, B) ==
    \A p : p # Nil /\ ~About(c, s, p) =>
        (p \in B \/ Lists(c, T, p) <=> Lists(c, S, p))

MirrorInv ==
    /\ (~sub => channel = <<>>) /\ (phase = "loaded" => ~sub)
    /\ Tells(Pending, redisSet)
    /\ reliable => /\ phase # "down"
                   /\ phase \in {"loaded", "subscribed"} => blocklist = {}
                   /\ phase # "loaded" => sub
                   /\ phase \in {"seeding", "running"} =>
                        Mirrors(cfg, Pending, redisSet, todo, blocklist)
----------------------------------------------------------------------------
\* taking the first message off leaves what the last ones say
LEMMA TellsTail ==
    ASSUME NEW s \in Seq(Messages), NEW S, s # <<>>, Tells(s, S)
    PROVE  Tells(Tail(s), S)
<1> DEFINE t == Tail(s)
<1>1. /\ t \in Seq(Messages) /\ Len(s) \in Nat /\ Len(t) = Len(s) - 1
      /\ \A k \in 1..Len(t) : t[k] = s[k + 1] /\ k + 1 \in 1..Len(s)
  OBVIOUS
<1> HIDE DEF t
<1>2. SUFFICES ASSUME NEW k \in 1..Len(t), \A l \in (k + 1)..Len(t) : t[l].item # t[k].item
               PROVE  t[k].op # "del" <=> t[k].item \in S
  BY DEF Tells, t
<1>3. ASSUME NEW l \in (k + 2)..Len(s) PROVE s[l].item # s[k + 1].item
  <2>1. l - 1 \in (k + 1)..Len(t) /\ l - 1 \in 1..Len(t) /\ l = (l - 1) + 1
    BY <1>1
  <2>2. t[l - 1] = s[l]
    BY <1>1, <2>1
  <2> QED
    BY <1>1, <1>2, <2>1, <2>2
<1>4. k + 1 \in 1..Len(s) /\ t[k] = s[k + 1] /\ (k + 1) + 1 = k + 2
  BY <1>1
<1> QED
  BY <1>3, <1>4 DEF Tells

\* the message of a change tells of its member, and the earlier ones of the others
LEMMA TellsChange ==
    ASSUME NEW s \in Seq(Messages), NEW S, NEW m \in Messages, Tells(s, S)
    PROVE  Tells(Append(s, m), IF m.op = "del" THEN S \ {m.item} ELSE S \cup {m.item})
<1> DEFINE t == Append(s, m)
           R == IF m.op = "del" THEN S \ {m.item} ELSE S \cup {m.item}
<1>1. /\ Len(s) \in Nat /\ Len(t) = Len(s) + 1 /\ t[Len(s) + 1] = m
      /\ \A k \in 1..Len(s) : t[k] = s[k]
  OBVIOUS
<1> HIDE DEF t
<1>2. SUFFICES ASSUME NEW k \in 1..Len(t), \A l \in (k + 1)..Len(t) : t[l].item # t[k].item
               PROVE  t[k].op # "del" <=> t[k].item \in R
  BY DEF Tells, t
<1>3. CASE k = Len(s) + 1
  BY <1>1, <1>3
<1>4. CASE k \in 1..Len(s)
  <2>1. t[k] = s[k] /\ m.item # s[k].item
    BY <1>1, <1>2, <1>4
  <2>2. \A l \in (k + 1)..Len(s) : s[l].item # s[k].item
    BY <1>1, <1>2, <1>4
  <2>3. s[k].op # "del" <=> s[k].item \in S
    BY <1>4, <2>2 DEF Tells
  <2> QED
    BY <2>1, <2>3
<1> QED
  BY <1>1, <1>3, <1>4
\* what is pending are messages
LEMMA PendingType == IInv => Pending \in Seq(Messages) /\ (outbox # Nil => outbox \in Messages)
BY DEF IInv, Provenance, Announced, Pending

\* when the channel goes, at most the change that is not published remains
LEMMA TellsOutbox ==
    ASSUME IInv, MirrorInv, channel' = <<>>, UNCHANGED <<outbox, redisSet>>
    PROVE  Tells(Pending', redisSet')
<1>1. CASE outbox = Nil
  BY <1>1 DEF Pending, Tells
<1>2. CASE outbox # Nil
  <2> DEFINE n == Len(channel)
  <2>1. channel \in Seq(Messages) /\ n \in Nat
    BY DEF IInv, Provenance
  <2>2. Pending = Append(channel, outbox) /\ Pending' = <<outbox>>
    BY <1>2 DEF Pending
  <2>3. Len(Pending) = n + 1 /\ Pending[n + 1] = outbox
    BY <2>1, <2>2
  <2>4. outbox.op # "del" <=> outbox.item \in redisSet
    BY <2>1, <2>3 DEF MirrorInv, Tells
  <2> QED
    BY <2>2, <2>4 DEF Tells
<1> QED
  BY <1>1, <1>2

\* starting, subscribing and reading the snapshot
LEMMA StartMirror ==
    ASSUME IInv, MirrorInv, NEW c \in Configs, NEW ok \in BOOLEAN,
           Load(c) \/ Subscribe(ok) \/ ReadSnapshot(ok)
    PROVE  MirrorInv'
<1>1. UNCHANGED <<redisSet, outbox, channel, blocklist>> /\ Pending' = Pending
  BY DEF Load, Subscribe, ReadSnapshot, redis, Pending
<1>2. Tells(Pending', redisSet')
  BY <1>1 DEF MirrorInv
<1>3. CASE Load(c)
  BY <1>1, <1>2, <1>3 DEF Load, MirrorInv, IInv, TypeOK
<1>4. CASE Subscribe(ok)
  BY <1>1, <1>2, <1>4 DEF Subscribe, MirrorInv, IInv, TypeOK
<1>5. CASE ReadSnapshot(ok)
  <2>1. phase' = "seeding" /\ (~sub' => channel' = <<>>)
    BY <1>5 DEF ReadSnapshot, MirrorInv
  <2>2. ASSUME reliable' PROVE sub' /\ todo' = redisSet' /\ blocklist' = {} /\ phase' = "seeding"
    BY <1>1, <1>5, <2>2 DEF ReadSnapshot, MirrorInv
  <2>3. ASSUME reliable' PROVE Mirrors(cfg', Pending', redisSet', todo', blocklist')
    BY <2>2, <2>3 DEF Mirrors
  <2> QED
    BY <1>2, <2>1, <2>2, <2>3 DEF MirrorInv
<1> QED
  BY <1>3, <1>4, <1>5

\* what ends a process or its connection makes it unreliable
LEMMA LossMirror ==
    ASSUME IInv, MirrorInv, Ended \/ Closed PROVE MirrorInv'
<1>1. Tells(Pending', redisSet')
  BY TellsOutbox DEF Ended, Closed, redis
<1> QED
  BY <1>1 DEF Ended, Closed, MirrorInv

\* attaching changes no state of the mirror
LEMMA AttachMirror ==
    ASSUME IInv, MirrorInv, NEW ok \in BOOLEAN, Attach(ok) PROVE MirrorInv'
<1>1. CASE Ended
  BY <1>1, LossMirror
<1>2. CASE ~Ended
  <2>1. /\ UNCHANGED <<redisSet, outbox, channel, blocklist, cfg, sub, todo, reliable>>
        /\ phase = "seeding" /\ phase' = "running" /\ Pending' = Pending
    BY <1>2 DEF Attach, redis, Pending
  <2> QED
    BY <2>1 DEF MirrorInv
<1> QED
  BY <1>1, <1>2

\* a member that is written leaves todo and enters the map
LEMMA SeedMirror ==
    ASSUME IInv, MirrorInv, NEW i \in todo, SeedItem(i) PROVE MirrorInv'
<1>1. /\ UNCHANGED <<redisSet, outbox, channel, phase, cfg, sub>>
      /\ phase = "seeding" /\ todo' = todo \ {i} /\ Pending' = Pending
  BY DEF SeedItem, redis, Pending
<1>2. ASSUME reliable'
      PROVE  reliable /\ blocklist' = IF Net(cfg, i) = Nil THEN blocklist
                                      ELSE blocklist \cup {Net(cfg, i)}
  BY <1>2 DEF SeedItem, Put
<1>3. ASSUME reliable' PROVE Mirrors(cfg', Pending', redisSet', todo', blocklist')
  <2>1. Mirrors(cfg, Pending, redisSet, todo, blocklist)
    BY <1>1, <1>2, <1>3 DEF MirrorInv
  <2>2. ASSUME NEW p, p # Nil
        PROVE  (p \in blocklist' \/ Lists(cfg, todo', p)) <=> (p \in blocklist \/ Lists(cfg, todo, p))
    BY <1>1, <1>2, <1>3, <2>2 DEF Lists
  <2> QED
    BY <1>1, <2>1, <2>2 DEF Mirrors
<1> QED
  BY <1>1, <1>2, <1>3 DEF MirrorInv
\* a change is pending from the moment the set has it
LEMMA ChangeMirror ==
    ASSUME IInv, MirrorInv, NEW i \in Items, NEW op \in {"add", "bare", "del"}, Change(i, op)
    PROVE  MirrorInv'
<1> DEFINE m == [op |-> op, item |-> i]
<1>1. /\ UNCHANGED <<channel, blocklist, phase, cfg, sub, todo, reliable>>
      /\ outbox = Nil /\ outbox' = m
      /\ redisSet' = IF op = "del" THEN redisSet \ {i} ELSE redisSet \cup {i}
  BY DEF Change
<1>2. m \in Messages /\ m # Nil /\ m.op = op /\ m.item = i
  BY ConstantsAssumption DEF Messages
<1> HIDE DEF m
<1>3. Pending = channel /\ Pending' = Append(Pending, m) /\ Pending \in Seq(Messages)
  BY <1>1, <1>2, PendingType DEF Pending
<1>4. Tells(Pending', redisSet')
  <2>1. Tells(Pending, redisSet)
    BY DEF MirrorInv
  <2> QED
    BY <1>1, <1>2, <1>3, <2>1, TellsChange
<1>5. ASSUME Mirrors(cfg, Pending, redisSet, todo, blocklist)
      PROVE  Mirrors(cfg, Pending', redisSet', todo, blocklist)
  <2>1. SUFFICES ASSUME NEW p, p # Nil, ~About(cfg, Pending', p)
                 PROVE  p \in blocklist \/ Lists(cfg, todo, p) <=> Lists(cfg, redisSet', p)
    BY DEF Mirrors
  <2>2. /\ Len(Pending) \in Nat /\ Len(Pending') = Len(Pending) + 1
        /\ Pending'[Len(Pending) + 1] = m
        /\ \A k \in 1..Len(Pending) : Pending'[k] = Pending[k]
    BY <1>3
  <2>3. ~About(cfg, Pending, p) /\ Net(cfg, i) # p
    BY <1>2, <2>1, <2>2 DEF About
  <2>4. Lists(cfg, redisSet', p) <=> Lists(cfg, redisSet, p)
    BY <1>1, <2>3 DEF Lists
  <2> QED
    BY <1>5, <2>1, <2>3, <2>4 DEF Mirrors
<1> QED
  BY <1>1, <1>4, <1>5 DEF MirrorInv

\* publishing to a subscriber keeps what is pending
LEMMA PublishMirror ==
    ASSUME IInv, MirrorInv, Publish PROVE MirrorInv'
<1>1. /\ UNCHANGED <<redisSet, blocklist, phase, cfg, sub, todo, reliable>>
      /\ outbox # Nil /\ outbox' = Nil
  BY DEF Publish
<1>2. CASE sub
  <2>1. Pending' = Pending
    BY <1>1, <1>2 DEF Publish, Pending
  <2> QED
    BY <1>1, <1>2, <2>1 DEF MirrorInv
<1>3. CASE ~sub
  <2>1. channel' = <<>> /\ Pending' = <<>>
    BY <1>1, <1>3 DEF Publish, Pending, MirrorInv
  <2>2. Tells(Pending', redisSet')
    BY <2>1 DEF Tells
  <2>3. reliable => phase = "loaded"
    BY <1>3 DEF MirrorInv
  <2> QED
    BY <1>1, <1>3, <2>1, <2>2, <2>3 DEF MirrorInv
<1> QED
  BY <1>2, <1>3

\* the last message about a prefix leaves the map as the set has it
LEMMA MessageMirror ==
    ASSUME IInv, MirrorInv, Message PROVE MirrorInv'
<1> DEFINE m == Head(channel)
           p == Net(cfg, m.item)
<1>1. /\ UNCHANGED <<redisSet, outbox, phase, cfg, sub, todo>>
      /\ phase = "running" /\ sub /\ channel # <<>> /\ channel' = Tail(channel)
      /\ ApplyEvent(m)
  BY DEF Message, redis
<1>2. channel \in Seq(Messages) /\ Pending \in Seq(Messages)
  BY PendingType DEF IInv, Provenance
<1>3. Pending # <<>> /\ Pending' = Tail(Pending) /\ Pending[1] = m
  <2>1. CASE outbox = Nil
    BY <1>1, <1>2, <2>1 DEF Pending
  <2>2. CASE outbox # Nil
    <3>1. outbox \in Messages
      BY <2>2, PendingType
    <3>2. Pending = Append(channel, outbox) /\ Pending' = Append(Tail(channel), outbox)
      BY <1>1, <2>2 DEF Pending
    <3>3. Tail(Append(channel, outbox)) = Append(Tail(channel), outbox)
      BY <1>1, <1>2, <3>1
    <3>4. Append(channel, outbox) # <<>> /\ Append(channel, outbox)[1] = Head(channel)
      BY <1>1, <1>2, <3>1
    <3> QED
      BY <3>2, <3>3, <3>4
  <2> QED
    BY <2>1, <2>2
<1>4. Tells(Pending, redisSet) /\ Tells(Pending', redisSet')
  BY <1>1, <1>2, <1>3, TellsTail DEF MirrorInv
<1> HIDE DEF m
<1>5. /\ Len(Pending) \in Nat \ {0} /\ Len(Pending') = Len(Pending) - 1
      /\ \A k \in 1..Len(Pending') : Pending'[k] = Pending[k + 1]
  BY <1>2, <1>3
<1>6. ASSUME reliable'
      PROVE  /\ reliable
             /\ p = Nil => blocklist' = blocklist
             /\ p # Nil /\ m.op = "del" =>
                    blocklist' = blocklist \ {p} /\ \A j \in redisSet \ {m.item} : Net(cfg, j) # p
             /\ p # Nil /\ m.op # "del" => blocklist' = blocklist \cup {p}
  <2>1. CASE p = Nil
    BY <1>1, <1>6, <2>1 DEF ApplyEvent
  <2>2. CASE p # Nil /\ m.op = "del"
    BY <1>1, <1>6, <2>2 DEF ApplyEvent, Delete
  <2>3. CASE p # Nil /\ m.op # "del"
    BY <1>1, <1>6, <2>3 DEF ApplyEvent, Put
  <2> QED
    BY <2>1, <2>2, <2>3
<1>7. ASSUME reliable' PROVE Mirrors(cfg, Pending', redisSet, todo, blocklist')
  <2>1. Mirrors(cfg, Pending, redisSet, todo, blocklist) /\ todo = {}
    BY <1>1, <1>6, <1>7 DEF MirrorInv, IInv, TypeOK
  <2>2. SUFFICES ASSUME NEW q, q # Nil, ~About(cfg, Pending', q)
                 PROVE  q \in blocklist' \/ Lists(cfg, todo, q) <=> Lists(cfg, redisSet, q)
    BY DEF Mirrors
  <2>3. ASSUME NEW k \in 2..Len(Pending) PROVE Net(cfg, Pending[k].item) # q
    <3>1. k - 1 \in 1..Len(Pending') /\ (k - 1) + 1 = k
      BY <1>5
    <3>2. Pending'[k - 1] = Pending[k]
      BY <1>5, <3>1
    <3> QED
      BY <2>2, <3>1, <3>2 DEF About
  <2>4. CASE q # p
    <3>1. ~About(cfg, Pending, q)
      BY <1>3, <1>5, <2>3, <2>4 DEF About
    <3>2. q \in blocklist' <=> q \in blocklist
      BY <1>6, <1>7, <2>2, <2>4
    <3> QED
      BY <2>1, <2>2, <3>1, <3>2 DEF Mirrors
  <2>5. CASE q = p
    <3>1. \A l \in 2..Len(Pending) : Pending[l].item # m.item
      BY <2>3, <2>5
    <3>2. m.op # "del" <=> m.item \in redisSet
      BY <1>3, <1>4, <1>5, <3>1 DEF Tells
    <3>3. CASE m.op = "del"
      BY <1>6, <1>7, <2>1, <2>2, <2>5, <3>2, <3>3 DEF Lists
    <3>4. CASE m.op # "del"
      BY <1>6, <1>7, <2>2, <2>5, <3>2, <3>4 DEF Lists
    <3> QED
      BY <3>3, <3>4
  <2> QED
    BY <2>4, <2>5
<1> QED
  BY <1>1, <1>4, <1>7 DEF MirrorInv
\* every step keeps both invariants
LEMMA NextMirror == IInv /\ MirrorInv /\ [Next]_vars => MirrorInv'
<1> SUFFICES ASSUME IInv, MirrorInv, [Next]_vars PROVE MirrorInv'
  OBVIOUS
<1>1. ASSUME NEW c \in Configs, Load(c) PROVE MirrorInv'
  BY <1>1, StartMirror
<1>2. ASSUME NEW ok \in BOOLEAN, Subscribe(ok) \/ ReadSnapshot(ok) PROVE MirrorInv'
  <2>1. cfg \in Configs
    BY DEF IInv, TypeOK
  <2> QED
    BY <1>2, <2>1, StartMirror
<1>3. ASSUME NEW ok \in BOOLEAN, Attach(ok) PROVE MirrorInv'
  BY <1>3, AttachMirror
<1>4. ASSUME NEW i \in todo, SeedItem(i) PROVE MirrorInv'
  BY <1>4, SeedMirror
<1>5. CASE BailOut \/ Exit \/ Closed
  BY <1>5, LossMirror DEF BailOut, Exit
<1>6. CASE Message
  BY <1>6, MessageMirror
<1>7. ASSUME NEW i \in Items, NEW op \in {"add", "bare", "del"}, Change(i, op) PROVE MirrorInv'
  BY <1>7, ChangeMirror
<1>8. CASE Publish
  BY <1>8, PublishMirror
<1>9. CASE UNCHANGED vars
  <2>1. Pending' = Pending
    BY <1>9 DEF vars, Pending
  <2> QED
    BY <1>9, <2>1 DEF vars, MirrorInv
<1> QED
  BY <1>1, <1>2, <1>3, <1>4, <1>5, <1>6, <1>7, <1>8, <1>9 DEF Next, Loader
----------------------------------------------------------------------------
\* IPv6 sources are native ones: an IPv4-mapped one would be looked up in the
\* IPv6 map, into which normalize never puts a mapped prefix
NativeSources == \A a \in Addrs : ~Contains([fam |-> 6, bits |-> Mapped], a)

\* the converse of CoveredNamed
LEMMA NamedCovered ==
    ASSUME NEW c \in Configs, NEW i \in Items, NEW a \in Addrs, NativeSources,
           Net(c, i) # Nil, Names(i, a)
    PROVE  Contains(Net(c, i), a)
<1> DEFINE n == ParseNet(i)
           t == Trunc(n)
           m == Len(Mapped)
           inside == Contains([fam |-> 6, bits |-> Mapped], t)
<1>1. n # Nil /\ Net(c, i) = Unmap(t)
  BY DEF Net, Normalize
<1>2. n.addr \in Seq({0, 1}) /\ n.len \in 0..Len(n.addr)
  <2>1. i.addr \in Seq({0, 1}) /\ i.len \in 0..Len(i.addr)
    BY ConstantsAssumption
  <2> QED
    BY <1>1, <2>1 DEF ParseNet
<1>3. a.bits \in Seq({0, 1}) /\ Mapped \in Seq({0, 1}) /\ m \in Nat
  BY ConstantsAssumption
<1>4. \/ /\ n.fam = a.fam /\ n.len <= Len(a.bits)
         /\ \A k \in 1..n.len : n.addr[k] = a.bits[k]
      \/ /\ n.fam = 6 /\ a.fam = 4 /\ n.len >= m /\ n.len <= Len(Mapped \o a.bits)
         /\ \A k \in 1..n.len : n.addr[k] = (Mapped \o a.bits)[k]
  BY DEF Names
<1> HIDE DEF n
<1>5. /\ t.fam = n.fam /\ t.bits \in Seq({0, 1}) /\ Len(t.bits) = n.len
      /\ \A k \in 1..n.len : t.bits[k] = n.addr[k]
  BY <1>2 DEF Trunc
<1> HIDE DEF t
<1>6. CASE /\ n.fam = a.fam /\ n.len <= Len(a.bits)
           /\ \A k \in 1..n.len : n.addr[k] = a.bits[k]
  <2>1. Contains(t, a)
    BY <1>5, <1>6 DEF Contains
  <2>2. ~(t.fam = 6 /\ inside)
    <3>1. SUFFICES ASSUME inside PROVE FALSE
      OBVIOUS
    <3>2. m <= n.len /\ t.fam = 6 /\ \A k \in 1..m : Mapped[k] = t.bits[k]
      BY <3>1, <1>5 DEF Contains
    <3>3. Contains([fam |-> 6, bits |-> Mapped], a)
      BY <3>2, <1>2, <1>3, <1>5, <1>6 DEF Contains
    <3> QED
      BY <3>3 DEF NativeSources
  <2> QED
    BY <1>1, <2>1, <2>2 DEF Unmap
<1>7. CASE /\ n.fam = 6 /\ a.fam = 4 /\ n.len >= m /\ n.len <= Len(Mapped \o a.bits)
           /\ \A k \in 1..n.len : n.addr[k] = (Mapped \o a.bits)[k]
  <2> DEFINE u == SubSeq(t.bits, m + 1, Len(t.bits))
  <2>1. /\ Len(Mapped \o a.bits) = m + Len(a.bits)
        /\ \A k \in 1..(m + Len(a.bits)) :
              (Mapped \o a.bits)[k] = IF k <= m THEN Mapped[k] ELSE a.bits[k - m]
    BY <1>3, ConcatProperties
  <2> HIDE DEF m
  <2>2. n.len \in Nat /\ Len(a.bits) \in Nat /\ n.len <= m + Len(a.bits)
    BY <1>2, <1>3, <1>7, <2>1
  <2>3. ASSUME NEW k \in 1..n.len
        PROVE  t.bits[k] = IF k <= m THEN Mapped[k] ELSE a.bits[k - m]
    <3>1. k \in 1..(m + Len(a.bits))
      BY <1>3, <2>2
    <3>2. t.bits[k] = (Mapped \o a.bits)[k]
      BY <1>5, <1>7
    <3> QED
      BY <3>1, <3>2, <2>1
  <2>4. t.fam = 6 /\ inside
    BY <1>3, <1>5, <1>7, <2>2, <2>3 DEF Contains, m
  <2>5. Len(u) = n.len - m /\ \A k \in 1..(n.len - m) : u[k] = t.bits[m + k]
    <3>1. Len(t.bits) \in Int /\ m + 1 \in Int /\ \A k \in (m + 1)..Len(t.bits) : t.bits[k] \in {0, 1}
      BY <1>2, <1>3, <1>5
    <3>2. /\ Len(u) = IF m + 1 <= Len(t.bits) THEN Len(t.bits) - (m + 1) + 1 ELSE 0
          /\ \A k \in 1..(Len(t.bits) - (m + 1) + 1) : u[k] = t.bits[m + 1 + k - 1]
      BY <3>1, SubSeqProperties
    <3> HIDE DEF u
    <3>3. n.len \in Nat /\ Len(t.bits) = n.len /\ m <= n.len
      BY <2>2, <1>3, <1>5, <1>7
    <3> QED
      BY <3>2, <3>3, <1>3
  <2>6. Net(c, i) = [fam |-> 4, bits |-> u]
    BY <1>1, <2>4 DEF Unmap, m
  <2> HIDE DEF u
  <2>7. ASSUME NEW k \in 1..Len(u) PROVE u[k] = a.bits[k]
    <3>1. m + k \in 1..n.len /\ ~(m + k <= m) /\ (m + k) - m = k /\ k \in 1..(n.len - m)
      BY <1>3, <2>2, <2>5, <1>7
    <3>2. t.bits[m + k] = a.bits[(m + k) - m]
      BY <3>1, <2>3
    <3> QED
      BY <3>1, <3>2, <2>5
  <2>8. Len(u) <= Len(a.bits)
    BY <1>3, <2>2, <2>5
  <2> QED
    BY <1>7, <2>6, <2>7, <2>8 DEF Contains
<1> QED
  BY <1>4, <1>6, <1>7

(***************************************************************************)
(* "subscribe and seed from Redis, then attach" (loader lib.rs:117-118): a *)
(* loader that started on empty maps and has lost nothing since drops,     *)
(* once it has caught up, exactly what the Redis set lists.                *)
(***************************************************************************)
THEOREM MirrorAtRestHolds ==
    ASSUME NativeSources PROVE Spec => []MirrorAtRest
<1>1. Init => MirrorInv
  BY DEF Init, MirrorInv, Pending, Tells
<1>2. ASSUME IInv, MirrorInv PROVE MirrorAtRest
  <2> SUFFICES ASSUME AtRest, reliable, NEW a \in Addrs PROVE Hit(a) <=> Listed(a)
    BY DEF MirrorAtRest
  <2>1. Pending = <<>> /\ todo = {} /\ phase = "running"
    BY <1>2 DEF AtRest, Pending, IInv, TypeOK
  <2>2. Mirrors(cfg, Pending, redisSet, todo, blocklist)
    BY <1>2, <2>1 DEF MirrorInv
  <2>3. \A p : p # Nil => (p \in blocklist <=> Lists(cfg, redisSet, p))
    BY <2>1, <2>2 DEF Mirrors, About, Lists
  <2>4. cfg \in Configs /\ redisSet \subseteq Items /\ \A p \in blocklist : p # Nil
    BY <1>2 DEF IInv, TypeOK, Provenance, Made
  <2>5. \A i \in redisSet : Net(cfg, i) # Nil => (Names(i, a) <=> Contains(Net(cfg, i), a))
    BY <2>4, NamedCovered, CoveredNamed
  <2> QED
    BY <2>3, <2>4, <2>5 DEF Hit, Listed, Lists
<1> QED
  BY <1>1, <1>2, InitInv, NextInv, NextMirror, PTL DEF Spec
=============================================================================
