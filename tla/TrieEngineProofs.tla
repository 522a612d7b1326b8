-------------------------- MODULE TrieEngineProofs --------------------------
(***************************************************************************)
(* Proofs about the uncompressed trie, for any number of writers, lookups, *)
(* shards, nodes, prefixes and addresses.                                  *)
(*                                                                         *)
(* The argument gives every node that was ever allocated a place P[n], the *)
(* bits that led to it when it was linked.  Places never change, although  *)
(* writers overwrite each other's links and clear() cuts the tree while    *)
(* other threads stand inside it.  A is the set of nodes that still hang   *)
(* on the root.  Base(P, A) says of such P and A that child pointers,      *)
(* prefixes and metadata agree with the places (Shape), that each thread   *)
(* stands at the place its bits lead to (WriterOK, ReaderOK), and that a   *)
(* lookup has read, or still has below it in the tree, each route that     *)
(* stayed in the table since it began (Finds).                             *)
(*                                                                         *)
(* First the tree and its table, then the writers' steps and the lookups'  *)
(* steps.  WriterBase and ReaderBase say that every step keeps Base.  The  *)
(* part about a single writer follows, and the theorems are at the end.    *)
(***************************************************************************)
EXTENDS TrieEngine, TLAPS

\* A leaf that names no prover is given to Zenon, which keeps the proofs of
\* sets, records and quantifiers apart from the SMT solver's arithmetic.
USE Zenon

\* Places in the tree
Bits == Seq({0, 1})

\* The bits s begin with the bits w
Under(s, w) == Len(w) <= Len(s) /\ SubSeq(s, 1, Len(w)) = w

(***************************************************************************)
(* Every nonempty set of naturals has a least element.  The invariant      *)
(* carries this fact; LeastNat, near the end, proves it.                   *)
(***************************************************************************)
WellOrdered == \A T \in SUBSET Nat : T # {} => \E x \in T : \A y \in T : x <= y

(***************************************************************************)
(* A is the set of nodes that hang on the root by the child pointers h,    *)
(* each once, at the place P says.                                         *)
(***************************************************************************)
Tree(h, P, A) ==
    /\ WellOrdered
    /\ Root \in A /\ P[Root] = <<>>
    /\ \A n \in A, b \in {0, 1} :
          h[n][b] # Nil => h[n][b] \in A /\ P[h[n][b]] = Append(P[n], b)
    /\ \A n \in A \ {Root} : \E m \in A, b \in {0, 1} : h[m][b] = n
    /\ \A m, n \in A : P[m] = P[n] => m = n

Pointers == [Nodes -> [{0, 1} -> Nodes \cup {Nil}]]
Places == [Nodes -> Bits]
----------------------------------------------------------------------------
\* Bits are equal when they are as long and agree everywhere.
LEMMA SameBits ==
    ASSUME NEW s \in Bits, NEW t \in Bits, Len(s) = Len(t), \A i \in 1..Len(s) : s[i] = t[i]
    PROVE  s = t
BY SMT DEF Bits

\* What the assumptions on the constants say of the numbers and of the root.
LEMMA Constants ==
    /\ NumShards \in Nat \ {0} /\ SizeMod \in Nat \ {0} /\ MaxNodes \in Nat \ {0}
    /\ MaxClears \in Nat /\ MaxNodes < SizeMod
    /\ Root \in Nodes /\ Nil \notin Nodes
BY ConstantsAssumption, SMT DEF Nodes, Root

\* One bit more at the end of a sequence of bits.
LEMMA AppendBits ==
    ASSUME NEW s \in Bits, NEW b \in {0, 1}
    PROVE  /\ Append(s, b) \in Bits /\ Append(s, b) # <<>>
           /\ Len(Append(s, b)) = Len(s) + 1
           /\ \A i \in 1..Len(s) : Append(s, b)[i] = s[i]
           /\ Append(s, b)[Len(s) + 1] = b
BY SMT DEF Bits

\* A sequence with one bit more determines both.
LEMMA AppendSame ==
    ASSUME NEW s \in Bits, NEW t \in Bits, NEW b \in {0, 1}, NEW c \in {0, 1},
           Append(s, b) = Append(t, c)
    PROVE  s = t /\ b = c
BY SMT DEF Bits

\* By elements.
LEMMA UnderDef ==
    ASSUME NEW s \in Bits, NEW w \in Bits
    PROVE  Under(s, w) <=> Len(w) <= Len(s) /\ \A i \in 1..Len(w) : s[i] = w[i]
<1> PICK k \in Nat : k = Len(w)
  BY SMT DEF Bits
<1>1. ASSUME k <= Len(s)
      PROVE  /\ SubSeq(s, 1, k) \in Bits /\ Len(SubSeq(s, 1, k)) = k
             /\ \A i \in 1..k : SubSeq(s, 1, k)[i] = s[i]
  BY <1>1, SMT DEF Bits
<1>2. ASSUME k <= Len(s), \A i \in 1..k : s[i] = w[i]
      PROVE  SubSeq(s, 1, k) = w
  <2>1. /\ SubSeq(s, 1, k) \in Bits /\ w \in Bits
        /\ Len(SubSeq(s, 1, k)) = Len(w)
        /\ \A i \in 1..Len(SubSeq(s, 1, k)) : SubSeq(s, 1, k)[i] = w[i]
    BY <1>1, <1>2 DEF Bits
  <2> QED
    BY <2>1, SameBits
<1> QED
  BY <1>1, <1>2 DEF Under

\* What is under w and one bit longer was under w before, or is w.
LEMMA UnderAppend ==
    ASSUME NEW s \in Bits, NEW w \in Bits, NEW b \in {0, 1}
    PROVE  Under(Append(s, b), w) <=> Under(s, w) \/ Append(s, b) = w
<1> PICK a : a = Append(s, b)
  OBVIOUS
<1>1. /\ a \in Bits /\ Len(a) = Len(s) + 1 /\ a[Len(s) + 1] = b
      /\ \A i \in 1..Len(s) : a[i] = s[i]
  BY AppendBits
<1>2. Len(s) \in Nat /\ Len(w) \in Nat
  BY SMT DEF Bits
<1>3. Under(s, w) <=> Len(w) <= Len(s) /\ \A i \in 1..Len(w) : s[i] = w[i]
  BY UnderDef
<1>4. Under(a, w) <=> Len(w) <= Len(a) /\ \A i \in 1..Len(w) : a[i] = w[i]
  BY <1>1, UnderDef
<1>5. Under(s, w) => Under(a, w)
  BY <1>1, <1>2, <1>3, <1>4, SMT
<1>6. a = w => Under(a, w)
  BY <1>2, <1>4, SMT
<1>7. Under(a, w) /\ Len(w) <= Len(s) => Under(s, w)
  BY <1>1, <1>2, <1>3, <1>4, SMT
<1>8. ASSUME Under(a, w), ~(Len(w) <= Len(s)) PROVE a = w
  <2>1. Len(a) = Len(w)
    BY <1>1, <1>2, <1>4, <1>8, SMT
  <2>2. \A i \in 1..Len(a) : a[i] = w[i]
    BY <1>4, <1>8, <2>1
  <2> QED
    BY <1>1, <2>1, <2>2, SameBits
<1> QED
  BY <1>5, <1>6, <1>7, <1>8
----------------------------------------------------------------------------
\* One bit further along s.
LEMMA UnderStep ==
    ASSUME NEW s \in Bits, NEW w \in Bits, Under(s, w)
    PROVE  /\ Len(w) = Len(s) => w = s
           /\ Len(w) < Len(s) => /\ s[Len(w) + 1] \in {0, 1}
                                 /\ Under(s, Append(w, s[Len(w) + 1]))
<1>1. Len(w) <= Len(s) /\ \A i \in 1..Len(w) : s[i] = w[i]
  BY UnderDef
<1>2. Len(s) \in Nat /\ Len(w) \in Nat
  BY SMT DEF Bits
<1>3. ASSUME Len(w) = Len(s) PROVE w = s
  <2>1. Len(w) = Len(s) /\ \A i \in 1..Len(w) : w[i] = s[i]
    BY <1>1, <1>3
  <2> QED
    BY <2>1, SameBits
<1>4. ASSUME Len(w) < Len(s)
      PROVE  s[Len(w) + 1] \in {0, 1} /\ Under(s, Append(w, s[Len(w) + 1]))
  <2>1. s[Len(w) + 1] \in {0, 1}
    BY <1>2, <1>4, SMT DEF Bits
  <2> PICK b \in {0, 1} : b = s[Len(w) + 1]
    BY <2>1
  <2> PICK a : a = Append(w, b)
    OBVIOUS
  <2>2. /\ a \in Bits /\ Len(a) = Len(w) + 1 /\ a[Len(w) + 1] = b
        /\ \A i \in 1..Len(w) : a[i] = w[i]
    BY AppendBits
  <2>3. Len(a) <= Len(s) /\ \A i \in 1..Len(a) : s[i] = a[i]
    BY <1>1, <1>2, <1>4, <2>2, SMT
  <2>4. Under(s, a)
    BY <2>2, <2>3, UnderDef
  <2> QED
    BY <2>1, <2>4
<1> QED
  BY <1>3, <1>4

(***************************************************************************)
(* Where the tree has no pointer it has no node further down.              *)
(***************************************************************************)
LEMMA NoneUnder ==
    ASSUME NEW h \in Pointers, NEW P \in Places, NEW A \in SUBSET Nodes, Tree(h, P, A),
           NEW m \in A, NEW side \in {0, 1}, h[m][side] = Nil, NEW n \in A
    PROVE  ~Under(P[n], Append(P[m], side))
<1> PICK w : w = Append(P[m], side)
  OBVIOUS
<1>1. w \in Bits /\ Len(w) = Len(P[m]) + 1 /\ \A y \in A : P[y] \in Bits /\ Len(P[y]) \in Nat
  <2>1. \A y \in A : P[y] \in Bits /\ Len(P[y]) \in Nat
    BY SMT DEF Places, Bits
  <2> QED
    BY <2>1, AppendBits
<1> PICK T : T = {Len(P[y]) : y \in {x \in A : Under(P[x], w)}}
  OBVIOUS
<1> SUFFICES ASSUME T # {} PROVE FALSE
  OBVIOUS
<1>2. T \in SUBSET Nat
  BY <1>1
<1>3. PICK k \in T : \A j \in T : k <= j
  BY <1>2 DEF Tree, WellOrdered
<1>4. PICK y \in A : Under(P[y], w) /\ k = Len(P[y])
  BY <1>3
<1>5. y # Root
  <2>1. P[Root] = <<>>
    BY DEF Tree
  <2> QED
    BY <1>1, <1>4, <2>1, SMT DEF Under
<1>6. PICK x \in A, b \in {0, 1} : h[x][b] = y
  BY <1>5 DEF Tree
<1>7. y # Nil
  BY Constants
<1>8. P[y] = Append(P[x], b)
  BY <1>6, <1>7 DEF Tree
<1>9. P[x] \in Bits /\ P[m] \in Bits /\ Len(P[y]) = Len(P[x]) + 1
  <2>1. P[x] \in Bits /\ P[m] \in Bits
    BY <1>1
  <2> QED
    BY <1>8, <2>1, AppendBits
<1>10. ~Under(P[x], w)
  <2> SUFFICES ASSUME Under(P[x], w) PROVE FALSE
    OBVIOUS
  <2>1. Len(P[x]) \in T
    OBVIOUS
  <2> QED
    BY <1>1, <1>3, <1>4, <1>9, <2>1, SMT
<1>11. Under(Append(P[x], b), w) <=> Under(P[x], w) \/ Append(P[x], b) = w
  BY <1>1, <1>9, UnderAppend
<1>12. Append(P[x], b) = Append(P[m], side)
  BY <1>4, <1>8, <1>10, <1>11
<1>13. P[x] = P[m] /\ b = side
  <2>1. P[x] \in Bits /\ P[m] \in Bits
    BY <1>9
  <2> QED
    BY <1>12, <2>1, AppendSame, SMTT(20)
<1>14. x = m
  BY <1>13 DEF Tree
<1> QED
  BY <1>6, <1>7, <1>13, <1>14
----------------------------------------------------------------------------
\* The nodes left when the pointer of m to one side is cut
Cut(P, A, m, side) == {n \in A : ~Under(P[n], Append(P[m], side))}

(***************************************************************************)
(* Cutting a pointer takes exactly the places under it off the tree.       *)
(***************************************************************************)
LEMMA CutTree ==
    ASSUME NEW h \in Pointers, NEW P \in Places, NEW A \in SUBSET Nodes, Tree(h, P, A),
           NEW m \in A, NEW side \in {0, 1}
    PROVE  Tree([h EXCEPT ![m][side] = Nil], P, Cut(P, A, m, side))
<1> PICK w : w = Append(P[m], side)
  OBVIOUS
<1> PICK g : g = [h EXCEPT ![m][side] = Nil]
  OBVIOUS
<1> PICK B : B = Cut(P, A, m, side)
  OBVIOUS
<1>1. w \in Bits /\ \A n \in A : P[n] \in Bits
  BY AppendBits DEF Places
<1>2. B \subseteq A /\ \A n \in A : n \in B <=> ~Under(P[n], w)
  BY DEF Cut
<1>3. /\ g[m][side] = Nil
      /\ \A n \in A, b \in {0, 1} : ~(n = m /\ b = side) => g[n][b] = h[n][b]
  BY DEF Pointers
<1>4. Root \in B /\ P[Root] = <<>>
  <2>1. Root \in A /\ P[Root] = <<>>
    BY DEF Tree
  <2>2. Len(w) = Len(P[m]) + 1 /\ Len(P[m]) \in Nat
    BY <1>1, AppendBits, SMT DEF Bits
  <2>3. ~Under(<<>>, w)
    BY <2>2, SMT DEF Under
  <2> QED
    BY <1>2, <2>1, <2>3
<1>5. ASSUME NEW n \in B, NEW b \in {0, 1}, g[n][b] # Nil
      PROVE  g[n][b] \in B /\ P[g[n][b]] = Append(P[n], b)
  <2> PICK c : c = h[n][b]
    OBVIOUS
  <2>1. n \in A /\ g[n][b] = c /\ ~(n = m /\ b = side)
    BY <1>2, <1>3, <1>5
  <2>2. c \in A /\ P[c] = Append(P[n], b)
    BY <1>5, <2>1, SMT DEF Tree
  <2>3. ~Under(P[n], w)
    BY <1>2, <2>1
  <2>4. Append(P[n], b) # w
    <3> SUFFICES ASSUME Append(P[n], b) = w PROVE FALSE
      OBVIOUS
    <3>1. P[n] \in Bits /\ P[m] \in Bits
      BY <1>1, <2>1
    <3>2. P[n] = P[m] /\ b = side
      BY <3>1, AppendSame
    <3> QED
      BY <2>1, <3>2 DEF Tree
  <2>5. ~Under(P[c], w)
    <3>1. P[n] \in Bits
      BY <1>1, <2>1
    <3>2. Under(Append(P[n], b), w) <=> Under(P[n], w) \/ Append(P[n], b) = w
      BY <1>1, <3>1, UnderAppend
    <3> QED
      BY <2>2, <2>3, <2>4, <3>2
  <2> QED
    BY <1>2, <2>1, <2>2, <2>5
<1>6. ASSUME NEW n \in B \ {Root}
      PROVE  \E y \in B, b \in {0, 1} : g[y][b] = n
  <2>1. PICK y \in A, b \in {0, 1} : h[y][b] = n
    BY <1>2 DEF Tree
  <2>2. n # Nil /\ P[n] = Append(P[y], b)
    <3>1. n \in Nodes
      BY <1>2
    <3>2. n # Nil
      BY <3>1, Constants
    <3> QED
      BY <2>1, <3>2 DEF Tree
  <2>3. ~Under(P[n], w)
    BY <1>2
  <2>4. ~Under(P[y], w) /\ P[n] # w
    <3>1. P[y] \in Bits
      BY <1>1
    <3>2. Under(Append(P[y], b), w) <=> Under(P[y], w) \/ Append(P[y], b) = w
      BY <1>1, <3>1, UnderAppend
    <3> QED
      BY <2>2, <2>3, <3>2
  <2>5. ~(y = m /\ b = side)
    BY <2>2, <2>4
  <2>6. y \in B /\ g[y][b] = n
    BY <1>2, <1>3, <2>1, <2>4, <2>5
  <2> QED
    BY <2>6
<1>7. \A y, n \in B : P[y] = P[n] => y = n
  BY <1>2 DEF Tree
<1>8. Tree(g, P, B)
  BY <1>4, <1>5, <1>6, <1>7 DEF Tree
<1> QED
  BY <1>8

(***************************************************************************)
(* The pointers g and places Q are h and P with c, which has no child, as  *)
(* the child of m.                                                         *)
(***************************************************************************)
Linked(h, P, m, side, c, g, Q) ==
    /\ \A b \in {0, 1} : h[c][b] = Nil
    /\ g[m][side] = c
    /\ \A n \in Nodes, b \in {0, 1} : ~(n = m /\ b = side) => g[n][b] = h[n][b]
    /\ Q[c] = Append(P[m], side)
    /\ \A n \in Nodes : n # c => Q[n] = P[n]

(***************************************************************************)
(* A fresh node can be hung where no pointer is.                           *)
(***************************************************************************)
LEMMA GrowTree ==
    ASSUME NEW h \in Pointers, NEW P \in Places, NEW A \in SUBSET Nodes, Tree(h, P, A),
           NEW m \in A, NEW side \in {0, 1}, h[m][side] = Nil,
           NEW c \in Nodes \ A, NEW g, NEW Q, Linked(h, P, m, side, c, g, Q)
    PROVE  Tree(g, Q, A \cup {c})
\* Bits begin with themselves.
<1>UnderSelf. \A w \in Bits : Under(w, w)
  <2> SUFFICES ASSUME NEW w \in Bits PROVE Under(w, w)
    OBVIOUS
  <2>1. Len(w) \in Nat
    BY SMT DEF Bits
  <2> QED
    BY <2>1, UnderDef, SMT
<1>1. \A n \in A : P[n] \in Bits /\ n \in Nodes /\ n # c /\ n # Nil
  BY Constants DEF Places
<1>2. Q[c] = Append(P[m], side) /\ \A n \in A : Q[n] = P[n]
  BY <1>1 DEF Linked
<1>3. /\ g[m][side] = c /\ \A b \in {0, 1} : g[c][b] = Nil
      /\ \A n \in A, b \in {0, 1} : ~(n = m /\ b = side) => g[n][b] = h[n][b]
  BY <1>1 DEF Linked
<1>4. Root \in A /\ Q[Root] = <<>> /\ c # Nil /\ c # Root
  BY <1>1, <1>2, Constants DEF Tree
<1>5. ASSUME NEW n \in A \cup {c}, NEW b \in {0, 1}, g[n][b] # Nil
      PROVE  g[n][b] \in A \cup {c} /\ Q[g[n][b]] = Append(Q[n], b)
  <2>1. n \in A
    BY <1>3, <1>5, SMT
  <2>2. CASE n = m /\ b = side
    BY <1>2, <1>3, <2>1, <2>2
  <2>3. CASE ~(n = m /\ b = side)
    <3>1. g[n][b] = h[n][b]
      BY <1>3, <2>1, <2>3
    <3>2. h[n][b] \in A /\ P[h[n][b]] = Append(P[n], b)
      BY <1>5, <2>1, <3>1 DEF Tree
    <3> QED
      BY <1>2, <2>1, <3>1, <3>2
  <2> QED
    BY <2>2, <2>3
<1>6. ASSUME NEW n \in (A \cup {c}) \ {Root}
      PROVE  \E y \in A \cup {c}, b \in {0, 1} : g[y][b] = n
  <2>1. CASE n = c
    BY <1>3, <2>1
  <2>2. CASE n # c
    <3>1. n \in A \ {Root}
      BY <2>2
    <3>2. PICK y \in A, b \in {0, 1} : h[y][b] = n
      BY <3>1 DEF Tree
    <3>3. ~(y = m /\ b = side)
      BY <1>1, <3>1, <3>2
    <3> QED
      BY <1>3, <3>2, <3>3
  <2> QED
    BY <2>1, <2>2
<1>7. \A n \in A : P[n] # Append(P[m], side)
  <2>1. \A n \in A : ~Under(P[n], Append(P[m], side))
    BY NoneUnder
  <2> QED
    BY <1>1, <2>1, <1>UnderSelf
<1>8. \A y, n \in A \cup {c} : Q[y] = Q[n] => y = n
  <2>1. \A y, n \in A : Q[y] = Q[n] => y = n
    BY <1>2 DEF Tree
  <2>2. \A n \in A : Q[n] # Q[c]
    BY <1>2, <1>7
  <2> QED
    BY <2>1, <2>2
<1>9. Tree(g, Q, A \cup {c})
  BY <1>4, <1>5, <1>6, <1>8 DEF Tree
<1> QED
  BY <1>9
----------------------------------------------------------------------------
(***************************************************************************)
(* Following bits from the root leads to the node of the tree placed there *)
(* and to none when there is none.                                         *)
(***************************************************************************)
LEMMA NodeAtPlace ==
    ASSUME NEW h \in Pointers, NEW P \in Places, NEW A \in SUBSET Nodes, Tree(h, P, A),
           NEW s \in Bits
    PROVE  /\ NodeAt(h, s) \in A \cup {Nil}
           /\ NodeAt(h, s) # Nil => P[NodeAt(h, s)] = s
           /\ \A n \in A : P[n] = s => NodeAt(h, s) = n
\* Induction, for a set of naturals.
<1>InductionOnSet.
      ASSUME NEW S, 0 \in S, \A n \in Nat : n \in S => n + 1 \in S
      PROVE  \A n \in Nat : n \in S
  <2> USE <1>InductionOnSet
  <2> SUFFICES ASSUME Nat \ S # {} PROVE FALSE
    OBVIOUS
  <2>1. PICK x \in Nat \ S : \A y \in Nat \ S : x <= y
    BY DEF Tree, WellOrdered
  <2>2. x - 1 \in Nat /\ x - 1 \notin Nat \ S
    BY <2>1, SMT
  <2> QED
    BY <2>1, <2>2, SMT
<1> DEFINE Step(f, i) == IF i = 0 THEN Root
                         ELSE IF f[i - 1] = Nil THEN Nil ELSE h[f[i - 1]][s[i]]
           IsWalk(f) == f = [i \in 0..Len(s) |-> Step(f, i)]
           Stop(i) == IF \E n \in A : P[n] = SubSeq(s, 1, i)
                    THEN CHOOSE n \in A : P[n] = SubSeq(s, 1, i) ELSE Nil
           walk == [i \in 0..Len(s) |-> Stop(i)]
<1>1. Len(s) \in Nat
  BY SMT DEF Bits
<1>2. /\ Nil \notin A
      /\ \A n \in A : P[n] \in Bits
      /\ \A m, n \in A : P[m] = P[n] => m = n
  BY Constants DEF Tree, Places
<1>3. \A i \in 0..Len(s) : /\ Stop(i) \in A \cup {Nil}
                           /\ Stop(i) # Nil => P[Stop(i)] = SubSeq(s, 1, i)
                           /\ \A n \in A : P[n] = SubSeq(s, 1, i) => Stop(i) = n
  BY <1>2
<1> HIDE DEF Stop
<1>4. Stop(0) = Root
  <2>1. SubSeq(s, 1, 0) = <<>>
    BY SMT DEF Bits
  <2>2. Root \in A /\ P[Root] = <<>>
    BY DEF Tree
  <2>3. 0 \in 0..Len(s)
    BY <1>1, SMT
  <2>4. \A n \in A : P[n] = SubSeq(s, 1, 0) => Stop(0) = n
    BY <1>3, <2>3
  <2> QED
    BY <2>1, <2>2, <2>4
<1>5. ASSUME NEW i \in 1..Len(s)
      PROVE  Stop(i) = IF Stop(i - 1) = Nil THEN Nil ELSE h[Stop(i - 1)][s[i]]
  <2> PICK b \in {0, 1} : b = s[i]
    BY SMT DEF Bits
  <2>0. i \in 0..Len(s) /\ i - 1 \in 0..Len(s)
    BY <1>1, SMT
  <2>1. SubSeq(s, 1, i) = Append(SubSeq(s, 1, i - 1), b) /\ SubSeq(s, 1, i - 1) \in Bits
    BY <1>1, SMT DEF Bits
  <2>2. ASSUME Stop(i - 1) = Nil PROVE Stop(i) = Nil
    <3> SUFFICES ASSUME Stop(i) # Nil PROVE FALSE
      OBVIOUS
    <3> PICK n \in A : n = Stop(i)
      BY <1>3, <2>0
    <3>1. P[n] = Append(SubSeq(s, 1, i - 1), b)
      BY <1>3, <2>0, <2>1
    <3>2. n # Root
      BY <2>1, <3>1, AppendBits, SMT DEF Tree
    <3>3. PICK y \in A, c \in {0, 1} : h[y][c] = n
      BY <3>2 DEF Tree
    <3>4. P[n] = Append(P[y], c)
      BY <1>2, <3>3, SMT DEF Tree
    <3>5. P[y] \in Bits
      BY <1>2
    <3>6. Append(P[y], c) = Append(SubSeq(s, 1, i - 1), b)
      BY <3>1, <3>4
    <3>7. P[y] = SubSeq(s, 1, i - 1)
      BY <2>1, <3>5, <3>6, AppendSame
    <3>8. Stop(i - 1) = y
      BY <1>3, <2>0, <3>7
    <3> QED
      BY <1>2, <2>2, <3>8
  <2>3. ASSUME Stop(i - 1) # Nil PROVE Stop(i) = h[Stop(i - 1)][b]
    <3> PICK m \in A : m = Stop(i - 1)
      BY <1>3, <2>0, <2>3
    <3>1. P[m] = SubSeq(s, 1, i - 1)
      BY <1>3, <2>0, <2>3
    <3>2. ASSUME h[m][b] # Nil PROVE Stop(i) = h[m][b]
      <4>1. h[m][b] \in A /\ P[h[m][b]] = Append(P[m], b)
        BY <3>2 DEF Tree
      <4> QED
        BY <1>3, <2>0, <2>1, <3>1, <4>1
    <3>3. ASSUME h[m][b] = Nil PROVE Stop(i) = Nil
      <4> SUFFICES ASSUME Stop(i) # Nil PROVE FALSE
        OBVIOUS
      <4> PICK n \in A : n = Stop(i)
        BY <1>3, <2>0
      <4>1. P[n] = Append(P[m], b)
        BY <1>3, <2>0, <2>1, <3>1
      <4>2. ~Under(P[n], Append(P[m], b))
        BY <3>3, NoneUnder
      <4> QED
        BY <1>2, <4>1, <4>2, SMT DEF Under, Bits
    <3> QED
      BY <3>2, <3>3
  <2> QED
    BY <2>2, <2>3
<1>6. IsWalk(walk)
  <2>1. \A i \in 0..Len(s) : Stop(i) = Step(walk, i)
    <3> TAKE i \in 0..Len(s)
    <3>1. CASE i = 0
      BY <1>4, <3>1
    <3>2. CASE i # 0
      <4>1. i \in 1..Len(s) /\ i - 1 \in 0..Len(s)
        BY <1>1, <3>2, SMT
      <4>2. walk[i - 1] = Stop(i - 1)
        BY <4>1
      <4> QED
        BY <1>5, <3>2, <4>1, <4>2
    <3> QED
      BY <3>1, <3>2
  <2> QED
    BY <2>1
<1>7. ASSUME NEW f, IsWalk(f) PROVE f[Len(s)] = Stop(Len(s))
  <2> PICK S : S = {k \in Nat : k <= Len(s) => f[k] = Stop(k)}
    OBVIOUS
  <2>0. \A i \in 0..Len(s) : f[i] = Step(f, i)
    BY <1>7
  <2>1. 0 \in S
    BY <1>1, <1>4, <2>0, SMT
  <2>2. ASSUME NEW k \in Nat, k \in S PROVE k + 1 \in S
    <3> SUFFICES ASSUME k + 1 <= Len(s) PROVE f[k + 1] = Stop(k + 1)
      BY SMT
    <3>1. k + 1 \in 0..Len(s) /\ k + 1 \in 1..Len(s) /\ (k + 1) - 1 = k /\ k <= Len(s)
      BY <1>1, SMT
    <3>2. f[k + 1] = IF f[k] = Nil THEN Nil ELSE h[f[k]][s[k + 1]]
      BY <2>0, <3>1, SMT
    <3>3. f[k] = Stop(k)
      BY <2>2, <3>1
    <3> QED
      BY <1>5, <3>1, <3>2, <3>3
  <2>3. \A k \in Nat : k \in S
    BY <2>1, <2>2, <1>InductionOnSet
  <2> QED
    BY <1>1, <2>3, SMT
<1>8. NodeAt(h, s) = (CHOOSE f : IsWalk(f))[Len(s)]
  BY DEF NodeAt
<1>9. IsWalk(CHOOSE f : IsWalk(f))
  BY <1>6
<1> HIDE DEF IsWalk
<1>10. NodeAt(h, s) = Stop(Len(s))
  BY <1>7, <1>8, <1>9
<1>11. SubSeq(s, 1, Len(s)) = s
  BY SMT DEF Bits
<1> QED
  BY <1>1, <1>3, <1>10, <1>11, SMT
----------------------------------------------------------------------------
\* Metadata, with the prefix it was stored for, and the heap's type
Entry == [p : Prefixes, v : Vals]

Heap == [Nodes -> [child : [{0, 1} -> Nodes \cup {Nil}], prefix : Prefixes \cup {Nil},
                   meta : Entry \cup {Nil}]]

(***************************************************************************)
(* The nodes nd, al of them allocated, are placed by P: every pointer,     *)
(* prefix and metadata agrees with the places, detached nodes included,    *)
(* and A are the nodes that hang on the root.                              *)
(***************************************************************************)
Shape(nd, al, P, A) ==
    /\ nd \in Heap /\ al \in Nodes /\ P \in Places /\ A \subseteq 1..al
    /\ Tree(Kids(nd), P, A)
    /\ \A n \in Nodes, b \in {0, 1} :
          nd[n].child[b] # Nil => /\ nd[n].child[b] \in 1..al
                                  /\ P[nd[n].child[b]] = Append(P[n], b)
    /\ \A n \in Nodes : nd[n].prefix # Nil => nd[n].prefix.bits = P[n]
    /\ \A n \in Nodes : nd[n].meta # Nil => nd[n].meta.p = nd[n].prefix
    /\ \A n \in Nodes : n > al => nd[n] = NewNode

\* The types of the parts of a well-shaped heap.
LEMMA ShapeTypes ==
    ASSUME NEW nd, NEW al, NEW P, NEW A, Shape(nd, al, P, A)
    PROVE  /\ nd \in Heap /\ P \in Places /\ al \in Nat /\ al \in Nodes /\ 1..al \subseteq Nodes
           /\ A \subseteq Nodes /\ A \subseteq 1..al /\ Root \in A /\ Nil \notin A
           /\ \A n \in Nodes : P[n] \in Bits /\ Len(P[n]) \in Nat
<1>1. /\ nd \in Heap /\ P \in Places /\ al \in Nat /\ al \in Nodes /\ 1..al \subseteq Nodes
      /\ A \subseteq 1..al /\ Root \in A
  BY Constants, SMT DEF Shape, Nodes, Tree
<1>2. \A n \in Nodes : P[n] \in Bits
  BY <1>1 DEF Places
<1>3. \A n \in Nodes : Len(P[n]) \in Nat
  BY <1>2, SMT DEF Bits
<1> QED
  BY <1>1, <1>2, <1>3, Constants

\* Prefixes and addresses carry bits.
LEMMA PrefixBits ==
    /\ \A p \in Prefixes : p.bits \in Bits /\ Len(p.bits) \in Nat
    /\ \A a \in Ips : a.bits \in Bits /\ Len(a.bits) \in Nat
BY ConstantsAssumption, SMT DEF Bits

\* Option::None is neither a prefix, nor a value, nor metadata.
LEMMA NilIsNone ==
    Nil \notin Prefixes /\ Nil \notin Vals /\ Nil \notin Entry
BY ConstantsAssumption DEF Entry

\* The child pointers of a heap, and those of its left half, are pointers.
LEMMA KidsPointers ==
    ASSUME NEW nd \in Heap
    PROVE  /\ Kids(nd) \in Pointers /\ LeftHalf(Kids(nd)) \in Pointers
           /\ \A n \in Nodes : Kids(nd)[n] = nd[n].child
BY Constants DEF Heap, Kids, LeftHalf, Pointers

\* The table of the whole tree, and of its left half
Full(nd) == TableOf(nd, Kids(nd))
Left(nd) == TableOf(nd, LeftHalf(Kids(nd)))

(***************************************************************************)
(* A route is in the table T when the node of B at its bits has metadata,  *)
(* and its value is the one there.                                         *)
(***************************************************************************)
Shows(nd, P, B, T) ==
    /\ T \in [Prefixes -> Vals \cup {Nil}]
    /\ \A p \in Prefixes, n \in B : P[n] = p.bits =>
          IF nd[n].meta = Nil THEN T[p] = Nil ELSE nd[n].meta.p = p /\ nd[n].meta.v = T[p]
    /\ \A p \in Prefixes : T[p] # Nil => \E n \in B : P[n] = p.bits

\* The whole tree shows the metadata of its nodes, and its left half that of the
\* nodes that are not below the root's right child.
LEMMA TableShown ==
    ASSUME NEW nd, NEW al, NEW P, NEW A, Shape(nd, al, P, A)
    PROVE  /\ Shows(nd, P, A, Full(nd))
           /\ Shows(nd, P, Cut(P, A, Root, 1), Left(nd))
\* Looking up each prefix from the root, along pointers that form a tree, shows
\* the metadata at the prefix's place.
<1>TableIs.
      ASSUME NEW h \in Pointers, NEW B \in SUBSET A, Tree(h, P, B)
      PROVE  Shows(nd, P, B, TableOf(nd, h))
  <2> USE <1>TableIs
  <2> PICK T : T = TableOf(nd, h)
    OBVIOUS
  <2>1. h \in Pointers /\ B \subseteq Nodes /\ P \in Places /\ Nil \notin B
    <3>1. nd \in Heap /\ A \subseteq Nodes /\ P \in Places
      BY ShapeTypes
    <3> QED
      BY <3>1, KidsPointers, Constants
  <2>2. ASSUME NEW n \in B, nd[n].meta # Nil, NEW p \in Prefixes, P[n] = p.bits
        PROVE  nd[n].meta \in Entry /\ nd[n].meta.p = p
    <3>1. nd[n].meta \in Entry /\ nd[n].meta.p \in Prefixes
      BY <2>1, <2>2 DEF Shape, Heap, Entry
    <3>2. nd[n].prefix = nd[n].meta.p /\ nd[n].prefix # Nil
      BY <2>1, <2>2, <3>1, NilIsNone DEF Shape
    <3>3. nd[n].meta.p.bits = p.bits
      BY <2>1, <2>2, <3>2 DEF Shape
    <3> QED
      BY <3>1, <3>3, PrefixAssumption
  <2>3. ASSUME NEW p \in Prefixes
        PROVE  /\ NodeAt(h, p.bits) \in B \cup {Nil}
               /\ NodeAt(h, p.bits) # Nil => P[NodeAt(h, p.bits)] = p.bits
               /\ \A n \in B : P[n] = p.bits => NodeAt(h, p.bits) = n
    BY <2>1, PrefixBits, NodeAtPlace, SMT
  <2>4. ASSUME NEW p \in Prefixes, NEW n \in B, P[n] = p.bits
        PROVE  /\ T[p] \in Vals \cup {Nil}
               /\ IF nd[n].meta = Nil THEN T[p] = Nil ELSE nd[n].meta.p = p /\ nd[n].meta.v = T[p]
    <3>1. NodeAt(h, p.bits) = n /\ n # Nil
      BY <2>1, <2>3, <2>4
    <3>2. T[p] = IF nd[n].meta # Nil /\ nd[n].meta.p = p THEN nd[n].meta.v ELSE Nil
      BY <3>1 DEF TableOf
    <3> QED
      BY <2>2, <2>4, <3>2 DEF Entry
  <2>5. ASSUME NEW p \in Prefixes, \A n \in B : P[n] # p.bits PROVE T[p] = Nil
    <3>1. NodeAt(h, p.bits) = Nil
      BY <2>3, <2>5
    <3> QED
      BY <3>1 DEF TableOf
  <2>6. \A p \in Prefixes : T[p] \in Vals \cup {Nil}
    BY <2>4, <2>5
  <2>7. T \in [Prefixes -> Vals \cup {Nil}]
    BY <2>6 DEF TableOf
  <2> QED
    BY <2>4, <2>5, <2>7 DEF Shows
<1>1. /\ Kids(nd) \in Pointers /\ LeftHalf(Kids(nd)) \in Pointers
      /\ P \in Places /\ A \in SUBSET Nodes /\ Root \in A
  BY ShapeTypes, KidsPointers
<1>2. Tree(Kids(nd), P, A)
  BY DEF Shape
<1>3. Tree(LeftHalf(Kids(nd)), P, Cut(P, A, Root, 1))
  BY <1>1, <1>2, CutTree DEF LeftHalf
<1>4. Cut(P, A, Root, 1) \in SUBSET A
  BY DEF Cut
<1>5. Shows(nd, P, A, Full(nd))
  BY <1>1, <1>2, <1>TableIs DEF Full
<1>6. Shows(nd, P, Cut(P, A, Root, 1), Left(nd))
  BY <1>1, <1>3, <1>4, <1>TableIs DEF Left
<1> QED
  BY <1>5, <1>6

\* The same metadata at the same nodes show the same table.
LEMMA ShownSame ==
    ASSUME NEW nd, NEW nd2, NEW P, NEW B, NEW T, NEW U,
           Shows(nd, P, B, T), Shows(nd2, P, B, U), \A n \in B : nd2[n].meta = nd[n].meta
    PROVE  U = T
<1>1. \A p \in Prefixes : U[p] = T[p]
  <2> TAKE p \in Prefixes
  <2>1. CASE \E n \in B : P[n] = p.bits
    <3>1. PICK n \in B : P[n] = p.bits
      BY <2>1
    <3>2. nd2[n].meta = nd[n].meta
      OBVIOUS
    <3>3. IF nd[n].meta = Nil THEN T[p] = Nil ELSE nd[n].meta.p = p /\ nd[n].meta.v = T[p]
      BY <3>1, SMT DEF Shows
    <3>4. IF nd2[n].meta = Nil THEN U[p] = Nil ELSE nd2[n].meta.p = p /\ nd2[n].meta.v = U[p]
      BY <3>1, SMT DEF Shows
    <3> QED
      BY <3>2, <3>3, <3>4
  <2>2. CASE ~\E n \in B : P[n] = p.bits
    BY <2>2 DEF Shows
  <2> QED
    BY <2>1, <2>2
<1>2. T \in [Prefixes -> Vals \cup {Nil}] /\ U \in [Prefixes -> Vals \cup {Nil}]
  BY DEF Shows
<1> QED
  BY <1>1, <1>2, SMT
----------------------------------------------------------------------------
(***************************************************************************)
(* What a step of a writer leaves alone, for the other threads: places and *)
(* prefixes do not change, and a node on the way to a route still in the   *)
(* table stays in the tree.                                                *)
(***************************************************************************)
Evolves(nd, al, P, A, nd2, al2, P2, A2) ==
    /\ 1..al \subseteq 1..al2
    /\ \A n \in 1..al : P2[n] = P[n]
    /\ \A n \in 1..al : nd[n].prefix # Nil => nd2[n].prefix = nd[n].prefix
    /\ \A n \in A, p \in Prefixes :
          Full(nd2)[p] # Nil /\ Under(p.bits, P[n]) => n \in A2

----------------------------------------------------------------------------
\* The way to a node that is left when a pointer is cut is left too.
LEMMA CutKeeps ==
    ASSUME NEW P \in Places, NEW A \in SUBSET Nodes, NEW m \in A, NEW side \in {0, 1},
           NEW y \in Cut(P, A, m, side), NEW n \in A, Under(P[y], P[n])
    PROVE  n \in Cut(P, A, m, side)
\* A beginning of a beginning is a beginning.
<1>UnderTrans.
      ASSUME NEW s \in Bits, NEW w \in Bits, NEW v \in Bits, Under(s, w), Under(w, v)
      PROVE  Under(s, v)
  <2> USE <1>UnderTrans
  <2>1. /\ Len(w) <= Len(s) /\ \A i \in 1..Len(w) : s[i] = w[i]
        /\ Len(v) <= Len(w) /\ \A i \in 1..Len(v) : w[i] = v[i]
    BY UnderDef
  <2>2. Len(s) \in Nat /\ Len(w) \in Nat /\ Len(v) \in Nat
    BY SMT DEF Bits
  <2>3. Len(v) <= Len(s) /\ \A i \in 1..Len(v) : s[i] = v[i]
    BY <2>1, <2>2, SMT
  <2> QED
    BY <2>3, UnderDef
<1>1. P[y] \in Bits /\ P[n] \in Bits /\ P[m] \in Bits
  BY DEF Places, Cut
<1> PICK w : w = Append(P[m], side)
  OBVIOUS
<1>2. w \in Bits
  BY <1>1, AppendBits
<1>3. ~Under(P[y], w)
  BY DEF Cut
<1>4. ~Under(P[n], w)
  BY <1>1, <1>2, <1>3, <1>UnderTrans
<1> QED
  BY <1>4 DEF Cut

(***************************************************************************)
(* Once the left half is gone and the right half does not count there is   *)
(* no route left but the default route.                                    *)
(***************************************************************************)
LEMMA NothingLeft ==
    ASSUME NEW nd, NEW al, NEW P, NEW A, Shape(nd, al, P, A), nd[Root].child[0] = Nil,
           "clear" \in Ops
    PROVE  Left(nd) = EmptyTable
<1> PICK B : B = Cut(P, A, Root, 1)
  OBVIOUS
<1>1. /\ P \in Places /\ A \in SUBSET Nodes /\ Root \in A /\ Kids(nd) \in Pointers
      /\ Kids(nd)[Root][0] = Nil /\ Tree(Kids(nd), P, A)
  <2>1. P \in Places /\ A \in SUBSET Nodes /\ Root \in A /\ nd \in Heap
    BY ShapeTypes
  <2>2. Kids(nd) \in Pointers /\ Kids(nd)[Root] = nd[Root].child
    BY <2>1, KidsPointers, Constants
  <2>3. Tree(Kids(nd), P, A)
    BY DEF Shape
  <2> QED
    BY <2>1, <2>2, <2>3
<1>2. Shows(nd, P, B, Left(nd))
  BY TableShown
<1>3. ASSUME NEW p \in Prefixes, Left(nd)[p] # Nil PROVE FALSE
  <2>1. PICK y \in B : P[y] = p.bits
    BY <1>2, <1>3 DEF Shows
  <2>2. p.bits # <<>> /\ p.bits \in Bits /\ <<>> \in Bits /\ P[Root] = <<>>
    BY <1>1, PrefixAssumption, PrefixBits, SMT DEF Tree, Bits
  <2>3. Len(<<>>) < Len(p.bits) /\ Under(p.bits, <<>>)
    BY <2>2, SMT DEF Under, Bits
  <2>4. PICK b \in {0, 1} : Under(p.bits, Append(P[Root], b))
    <3>1. p.bits[Len(<<>>) + 1] \in {0, 1} /\ Under(p.bits, Append(<<>>, p.bits[Len(<<>>) + 1]))
      BY <2>2, <2>3, UnderStep
    <3> QED
      BY <2>2, <3>1
  <2>5. y \in A /\ ~Under(P[y], Append(P[Root], 1))
    BY DEF Cut
  <2>6. ~Under(P[y], Append(P[Root], 0))
    BY <1>1, <2>5, NoneUnder
  <2> QED
    BY <2>1, <2>4, <2>5, <2>6
<1> QED
  BY <1>2, <1>3 DEF Shows, EmptyTable

\* A fresh node may take the place of a child that is there already, as it does
\* when two inserts link at the same pointer: what hung there is cut off.
LEMMA LinkTree ==
    ASSUME NEW h \in Pointers, NEW P \in Places, NEW A \in SUBSET Nodes, Tree(h, P, A),
           NEW m \in A, NEW side \in {0, 1}, NEW c \in Nodes \ A,
           NEW g, NEW Q, Linked(h, P, m, side, c, g, Q)
    PROVE  Tree(g, Q, Cut(P, A, m, side) \cup {c})
<1>1. PICK f \in Pointers : /\ Tree(f, P, Cut(P, A, m, side)) /\ f[m][side] = Nil
                            /\ \A n \in Nodes, b \in {0, 1} :
                                  ~(n = m /\ b = side) => f[n][b] = h[n][b]
  <2> PICK f : f = [h EXCEPT ![m][side] = Nil]
    OBVIOUS
  <2>1. Tree(f, P, Cut(P, A, m, side))
    BY CutTree
  <2>2. /\ f \in Pointers /\ f[m][side] = Nil
        /\ \A n \in Nodes, b \in {0, 1} : ~(n = m /\ b = side) => f[n][b] = h[n][b]
    BY DEF Pointers
  <2> QED
    BY <2>1, <2>2
<1>2. m \in Cut(P, A, m, side)
  <2>1. P[m] \in Bits
    BY DEF Places
  <2>2. Len(Append(P[m], side)) = Len(P[m]) + 1 /\ Len(P[m]) \in Nat
    BY <2>1, AppendBits, SMT DEF Bits
  <2>3. ~Under(P[m], Append(P[m], side))
    BY <2>2, SMT DEF Under
  <2> QED
    BY <2>3 DEF Cut
<1>3. Cut(P, A, m, side) \in SUBSET Nodes /\ c \in Nodes \ Cut(P, A, m, side)
  BY DEF Cut
<1>4. Linked(f, P, m, side, c, g, Q)
  BY <1>1, SMT DEF Linked
<1> QED
  BY <1>1, <1>2, <1>3, <1>4, GrowTree, SMT

\* Nd2 is nd with the next node hung below m, in place of any child m had there
Grafts(nd, al, P, A, m, side, nd2, P2, A2) ==
    /\ nd2[m].child[side] = al + 1
    /\ \A n \in Nodes, b \in {0, 1} :
          ~(n = m /\ b = side) => nd2[n].child[b] = nd[n].child[b]
    /\ \A n \in Nodes : /\ nd2[n].meta = nd[n].meta /\ nd2[n].prefix = nd[n].prefix
                        /\ n # m => nd2[n] = nd[n]
    /\ P2[al + 1] = Append(P[m], side)
    /\ \A n \in Nodes : n # al + 1 => P2[n] = P[n]
    /\ A2 = IF m \in A THEN Cut(P, A, m, side) \cup {al + 1} ELSE A

----------------------------------------------------------------------------
\* Where insert and remove are once their walk has ended, where clear is, and where
\* a lookup is between two reads
Inserting == {"is_new", "set_prefix", "set_metadata", "count"}
Removing == {"take", "clear_metadata", "uncount"}
Erasing == {"set_left_none", "set_right_none", "store_zero"}
Reading == {"read_prefix", "read_metadata", "read_child"}

Pcs == {"idle", "walk", "link", "return"} \cup Inserting \cup Removing \cup Erasing \cup Reading

Locals == [pc : Pcs, op : {"insert", "remove", "clear", "lookup", Nil},
           arg : Prefixes \cup Ips \cup {Nil}, v : Vals \cup {Nil},
           node : Nodes \cup {Nil}, depth : Nat, shard : Shards,
           isNew : BOOLEAN, best : Entry \cup {Nil}]

(***************************************************************************)
(* insert and remove stand at the place that the first bits of their       *)
(* prefix lead to, whether or not that node still hangs on the root.       *)
(***************************************************************************)
Walking(nd, al, P, l) ==
    /\ l.op \in {"insert", "remove"} /\ l.arg \in Prefixes /\ l.node \in 1..al
    /\ Under(l.arg.bits, P[l.node]) /\ l.depth = Len(P[l.node])
    /\ l.op = "insert" => l.v \in Vals
    /\ \/ l.pc = "walk" /\ l.depth < Len(l.arg.bits)
       \/ l.pc = "link" /\ l.op = "insert" /\ l.depth < Len(l.arg.bits)
       \/ l.pc \in Inserting /\ l.op = "insert" /\ l.depth = Len(l.arg.bits)
       \/ l.pc \in Removing /\ l.op = "remove" /\ l.depth = Len(l.arg.bits)
    /\ l.pc = "set_metadata" => nd[l.node].prefix = l.arg

\* A call of clear, and any position of a writer
Clears(l) == l.op = "clear" /\ "clear" \in Ops /\ l.pc \in Erasing

WriterOK(nd, al, P, l) == l = Idle \/ Clears(l) \/ Walking(nd, al, P, l)

\* Where the writer t is about to put a node, and the tree its next step leaves
NextP(P, t) ==
    IF th[t].pc = "link"
    THEN [P EXCEPT ![alloc + 1] = Append(P[th[t].node], GetBit(th[t].arg, th[t].depth))]
    ELSE P

NextA(P, A, t) ==
    CASE th[t].pc = "link" ->
            IF th[t].node \in A
            THEN Cut(P, A, th[t].node, GetBit(th[t].arg, th[t].depth)) \cup {alloc + 1} ELSE A
      [] th[t].pc = "set_left_none" -> Cut(P, A, Root, 0)
      [] th[t].pc = "set_right_none" -> Cut(P, A, Root, 1)
      [] OTHER -> A
----------------------------------------------------------------------------
\* A thread between two calls.
LEMMA IdleLocals == Idle \in Locals
<1>1. 1 \in Shards /\ "idle" \in Pcs
  BY Constants, SMT DEF Shards, Pcs
<1> QED
  BY <1>1 DEF Idle, Locals

\* The next position along the walk.
LEMMA Arrive ==
    ASSUME NEW nd, NEW al, NEW P, NEW l,
           l.op \in {"insert", "remove"}, l.arg \in Prefixes, l.node \in 1..al,
           P[l.node] \in Bits, Under(l.arg.bits, P[l.node]), l.depth = Len(P[l.node]),
           l.op = "insert" => l.v \in Vals, l.pc = At(l.op, l.arg, l.depth)
    PROVE  WriterOK(nd, al, P, l)
<1>1. Len(P[l.node]) <= Len(l.arg.bits) /\ Len(P[l.node]) \in Nat /\ Len(l.arg.bits) \in Nat
  BY PrefixBits, SMT DEF Under, Bits
<1>2. CASE l.depth < Len(l.arg.bits)
  <2>1. l.pc = "walk"
    BY <1>2 DEF At
  <2> QED
    BY <1>2, <2>1 DEF WriterOK, Walking
<1>3. CASE ~(l.depth < Len(l.arg.bits))
  <2>1. l.depth = Len(l.arg.bits)
    BY <1>1, <1>3, SMT
  <2>2. l.pc = IF l.op = "insert" THEN "is_new" ELSE "take"
    BY <1>3 DEF At
  <2> QED
    BY <2>1, <2>2 DEF WriterOK, Walking, Inserting, Removing
<1> QED
  BY <1>2, <1>3

\* The child on the way to the prefix.
LEMMA NextPlace ==
    ASSUME NEW nd, NEW al, NEW P, NEW A, Shape(nd, al, P, A), NEW l, Walking(nd, al, P, l),
           l.depth < Len(l.arg.bits)
    PROVE  /\ GetBit(l.arg, l.depth) \in {0, 1} /\ l.node \in Nodes /\ l.node \in 1..al
           /\ Under(l.arg.bits, Append(P[l.node], GetBit(l.arg, l.depth)))
           /\ Append(P[l.node], GetBit(l.arg, l.depth)) \in Bits
           /\ Len(Append(P[l.node], GetBit(l.arg, l.depth))) = l.depth + 1
<1>1. l.node \in Nodes /\ l.node \in 1..al /\ P[l.node] \in Bits /\ l.arg.bits \in Bits
  BY ShapeTypes, PrefixBits DEF Walking
<1>2. GetBit(l.arg, l.depth) = l.arg.bits[Len(P[l.node]) + 1]
  BY DEF GetBit, Walking
<1>3. /\ l.arg.bits[Len(P[l.node]) + 1] \in {0, 1}
      /\ Under(l.arg.bits, Append(P[l.node], l.arg.bits[Len(P[l.node]) + 1]))
  BY <1>1, UnderStep DEF Walking
<1>4. /\ Append(P[l.node], GetBit(l.arg, l.depth)) \in Bits
      /\ Len(Append(P[l.node], GetBit(l.arg, l.depth))) = Len(P[l.node]) + 1
  BY <1>1, <1>2, <1>3, AppendBits
<1>5. Len(P[l.node]) = l.depth
  BY DEF Walking
<1> QED
  BY <1>1, <1>2, <1>3, <1>4, <1>5

\* What the position tells about the operation.
LEMMA WriterAt ==
    ASSUME NEW nd, NEW al, NEW P, NEW l, WriterOK(nd, al, P, l)
    PROVE  /\ l.pc \in {"walk", "link"} \cup Inserting \cup Removing => Walking(nd, al, P, l)
           /\ l.pc \in Erasing => Clears(l)
BY SMT DEF WriterOK, Walking, Clears, Inserting, Removing, Erasing, Idle

\* Thread t alone has moved
Moved(t) == th' \in [Threads -> Locals] /\ \A u \in Threads : u # t => th'[u] = th[u]

\* A step that sets the locals of one thread.
LEMMA GotoMoves ==
    ASSUME th \in [Threads -> Locals], NEW t \in Threads, NEW l \in Locals,
           th' = [th EXCEPT ![t] = l]
    PROVE  Moved(t) /\ th'[t] = l
BY DEF Moved

\* Where insert and remove may continue at a node.
LEMMA AtPcs ==
    ASSUME NEW op, NEW p, NEW d
    PROVE  At(op, p, d) \in Pcs /\ At(op, p, d) \in {"walk", "is_new", "take"}
BY DEF At, Pcs, Inserting, Removing

\* The next shard starts from the root, or the call returns.
LEMMA NextShardMoves ==
    ASSUME th \in [Threads -> Locals], NEW t \in Threads, NextShard(t)
    PROVE  /\ Moved(t)
           /\ th[t].shard < NumShards =>
                 /\ th'[t].op = th[t].op /\ th'[t].arg = th[t].arg /\ th'[t].v = th[t].v
                 /\ th'[t].node = Root /\ th'[t].depth = 0 /\ th'[t].shard = th[t].shard + 1
                 /\ th'[t].pc = IF th[t].op = "clear" THEN "set_left_none"
                                ELSE At(th[t].op, th[t].arg, 0)
                 /\ expect' = expect
           /\ ~(th[t].shard < NumShards) => th'[t] = Idle /\ expect' = Effect(th[t], expect)
<1> PICK l \in Locals : l = th[t]
  OBVIOUS
<1>1. CASE l.shard < NumShards
  <2> PICK pc : pc = IF l.op = "clear" THEN "set_left_none" ELSE At(l.op, l.arg, 0)
    OBVIOUS
  <2>1. pc \in Pcs
    BY AtPcs DEF Pcs, Erasing
  <2> PICK k : k = [l EXCEPT !.shard = l.shard + 1, !.node = Root, !.depth = 0,
                             !.isNew = FALSE, !.pc = pc]
    OBVIOUS
  <2>2. l.shard + 1 \in Shards
    BY <1>1, Constants, SMT DEF Shards, Locals
  <2>3. k \in Locals
    BY <2>1, <2>2, Constants DEF Locals
  <2>4. /\ k.op = l.op /\ k.arg = l.arg /\ k.v = l.v /\ k.node = Root /\ k.depth = 0
        /\ k.shard = l.shard + 1 /\ k.pc = pc
    BY DEF Locals
  <2>5. th' = [th EXCEPT ![t] = k] /\ expect' = expect
    BY <1>1 DEF NextShard, Goto
  <2>6. Moved(t) /\ th'[t] = k
    BY <2>3, <2>5, GotoMoves
  <2> QED
    BY <1>1, <2>4, <2>5, <2>6
<1>2. CASE ~(l.shard < NumShards)
  <2>1. th' = [th EXCEPT ![t] = Idle] /\ expect' = Effect(l, expect)
    BY <1>2 DEF NextShard
  <2>2. Moved(t) /\ th'[t] = Idle
    BY <2>1, IdleLocals, GotoMoves
  <2> QED
    BY <1>2, <2>1, <2>2
<1> QED
  BY <1>1, <1>2

\* The next shard's walk starts at the root, whatever the tree.
LEMMA NextShardOK ==
    ASSUME NEW nd, NEW al, NEW P, NEW nd2, NEW al2, NEW P2, NEW A2, Shape(nd2, al2, P2, A2),
           th \in [Threads -> Locals], NEW t \in Threads, NextShard(t),
           Clears(th[t]) \/ Walking(nd, al, P, th[t])
    PROVE  WriterOK(nd2, al2, P2, th'[t])
<1>1. CASE ~(th[t].shard < NumShards)
  BY <1>1, NextShardMoves DEF WriterOK
<1>2. CASE th[t].shard < NumShards
  <2> PICK l : l = th[t]
    OBVIOUS
  <2> PICK k : k = th'[t]
    OBVIOUS
  <2>1. /\ k.op = l.op /\ k.arg = l.arg /\ k.v = l.v
        /\ k.node = Root /\ k.depth = 0
        /\ k.pc = IF l.op = "clear" THEN "set_left_none" ELSE At(l.op, l.arg, 0)
    BY <1>2, NextShardMoves
  <2>2. CASE Clears(l)
    BY <2>1, <2>2 DEF Clears, WriterOK, Erasing
  <2>3. CASE Walking(nd, al, P, l)
    <3>1. k.op \in {"insert", "remove"} /\ k.arg \in Prefixes /\ (k.op = "insert" => k.v \in Vals)
      BY <2>1, <2>3 DEF Walking
    <3>2. Root \in 1..al2 /\ P2[Root] = <<>>
      BY ShapeTypes DEF Shape, Tree
    <3>3. <<>> \in Bits /\ Len(<<>>) = 0 /\ Under(k.arg.bits, <<>>)
      BY <3>1, PrefixBits, SMT DEF Bits, Under
    <3>4. k.pc = At(k.op, k.arg, k.depth)
      BY <2>1, <3>1
    <3>5. P2[k.node] \in Bits /\ Under(k.arg.bits, P2[k.node]) /\ k.depth = Len(P2[k.node])
      BY <2>1, <3>2, <3>3
    <3> QED
      BY <2>1, <3>1, <3>2, <3>4, <3>5, Arrive, SMT
  <2> QED
    BY <2>2, <2>3
<1> QED
  BY <1>1, <1>2

----------------------------------------------------------------------------
\* What a step of the writer t establishes
StepOK(P, A, t) ==
    /\ Shape(node', alloc', NextP(P, t), NextA(P, A, t))
    /\ Evolves(node, alloc, P, A, node', alloc', NextP(P, t), NextA(P, A, t))
    /\ WriterOK(node', alloc', NextP(P, t), th'[t])
    /\ Moved(t)

\* A step of a writer that stores nothing in the tree.
LEMMA QuietStep ==
    ASSUME NEW P, NEW A, NEW t, Shape(node, alloc, P, A), node' = node, alloc' = alloc,
           th[t].pc \notin {"link", "set_left_none", "set_right_none"},
           WriterOK(node, alloc, P, th'[t]), Moved(t)
    PROVE  StepOK(P, A, t) /\ NextP(P, t) = P /\ NextA(P, A, t) = A
\* A step that stores nothing changes nothing for the others.
<1>EvolvesSame.
      ASSUME NEW nd, NEW al, NEW Q, NEW B
      PROVE  Evolves(nd, al, Q, B, nd, al, Q, B)
  BY DEF Evolves
<1>1. NextP(P, t) = P /\ NextA(P, A, t) = A
  BY DEF NextP, NextA
<1> QED
  BY <1>1, <1>EvolvesSame DEF StepOK

\* What every action of a writer starts from
Ready(P, A, t) ==
    /\ t \in Writers /\ t \in Threads
    /\ th \in [Threads -> Locals]
    /\ Shape(node, alloc, P, A)
    /\ WriterOK(node, alloc, P, th[t])

\* Insert stores the prefix.
LEMMA SetPrefixStep ==
    ASSUME NEW P, NEW A, NEW t, Ready(P, A, t), SetPrefix(t)
    PROVE  /\ StepOK(P, A, t) /\ NextP(P, t) = P /\ NextA(P, A, t) = A
           /\ Full(node') = Full(node) /\ Left(node') = Left(node) /\ alloc' = alloc
           /\ \A n \in Nodes : node'[n].meta = node[n].meta /\ node'[n].child = node[n].child
\* Insert's store of node.prefix at the place of that prefix: the table stays.
<1>SetPrefixShape.
      ASSUME NEW nd, NEW al, NEW Q, NEW B, Shape(nd, al, Q, B),
             NEW n \in 1..al, NEW p \in Prefixes, Q[n] = p.bits,
             NEW nd2 \in Heap, nd2[n].prefix = p,
             \A x \in Nodes : /\ nd2[x].meta = nd[x].meta /\ nd2[x].child = nd[x].child
                              /\ x # n => nd2[x] = nd[x]
      PROVE  /\ Shape(nd2, al, Q, B) /\ Evolves(nd, al, Q, B, nd2, al, Q, B)
             /\ Full(nd2) = Full(nd) /\ Left(nd2) = Left(nd)
  <2> USE <1>SetPrefixShape
  <2>1. nd \in Heap /\ n \in Nodes /\ Q \in Places /\ al \in Nat
    BY ShapeTypes
  <2>2. nd[n].prefix # Nil => nd[n].prefix = p
    <3>1. nd[n].prefix \in Prefixes \cup {Nil}
      BY <2>1 DEF Heap
    <3> QED
      BY <2>1, <3>1, PrefixAssumption, SMT DEF Shape
  <2>3. nd[n].meta # Nil => nd[n].prefix # Nil
    <3>1. nd[n].meta # Nil => nd[n].meta \in Entry
      BY <2>1 DEF Heap
    <3>2. nd[n].meta # Nil => nd[n].meta.p \in Prefixes
      BY <3>1 DEF Entry
    <3> QED
      BY <2>1, <3>2, NilIsNone DEF Shape
  <2>4. /\ nd2 \in Heap /\ nd2[n].prefix = p
        /\ \A x \in Nodes : /\ nd2[x].meta = nd[x].meta /\ nd2[x].child = nd[x].child
                            /\ x # n => nd2[x] = nd[x]
    OBVIOUS
  <2>5. Kids(nd2) = Kids(nd)
    BY <2>4 DEF Kids
  <2>6. \A x \in Nodes : nd2[x].prefix # Nil => nd2[x].prefix.bits = Q[x]
    BY <2>4 DEF Shape
  <2>7. \A x \in Nodes : nd2[x].meta # Nil => nd2[x].meta.p = nd2[x].prefix
    BY <2>2, <2>3, <2>4, SMT DEF Shape
  <2>8. \A x \in Nodes : x > al => nd2[x] = NewNode
    <3>1. \A x \in Nodes : x > al => x # n
      BY <2>1, SMT DEF Nodes
    <3> QED
      BY <2>4, <3>1 DEF Shape
  <2>9. Shape(nd2, al, Q, B)
    <3>1. Tree(Kids(nd2), Q, B)
      BY <2>5 DEF Shape
    <3>2. \A x \in Nodes, b \in {0, 1} :
             nd2[x].child[b] # Nil => /\ nd2[x].child[b] \in 1..al
                                      /\ Q[nd2[x].child[b]] = Append(Q[x], b)
      <4>1. ASSUME NEW x \in Nodes, NEW b \in {0, 1}, nd2[x].child[b] # Nil
            PROVE  nd2[x].child[b] \in 1..al /\ Q[nd2[x].child[b]] = Append(Q[x], b)
        <5>1. nd2[x].child = nd[x].child
          BY <2>4
        <5> QED
          BY <4>1, <5>1 DEF Shape
      <4> QED
        BY <4>1
    <3>3. al \in Nodes /\ Q \in Places /\ B \subseteq 1..al
      BY DEF Shape
    <3> QED
      BY <2>4, <2>6, <2>7, <2>8, <3>1, <3>2, <3>3 DEF Shape
  <2>10. Full(nd2) = Full(nd) /\ Left(nd2) = Left(nd)
    <3>1. Shows(nd, Q, B, Full(nd)) /\ Shows(nd2, Q, B, Full(nd2))
      BY <2>9, TableShown
    <3>2. Shows(nd, Q, Cut(Q, B, Root, 1), Left(nd)) /\ Shows(nd2, Q, Cut(Q, B, Root, 1), Left(nd2))
      BY <2>9, TableShown
    <3>3. \A x \in B : nd2[x].meta = nd[x].meta
      BY <2>4, ShapeTypes
    <3>4. \A x \in Cut(Q, B, Root, 1) : nd2[x].meta = nd[x].meta
      BY <3>3 DEF Cut
    <3>5. Full(nd2) = Full(nd)
      BY <3>1, <3>3, ShownSame, SMT
    <3>6. Left(nd2) = Left(nd)
      BY <3>2, <3>4, ShownSame
    <3> QED
      BY <3>5, <3>6
  <2>11. Evolves(nd, al, Q, B, nd2, al, Q, B)
    <3>1. \A x \in 1..al : nd[x].prefix # Nil => nd2[x].prefix = nd[x].prefix
      <4> TAKE x \in 1..al
      <4>1. x \in Nodes
        BY ShapeTypes
      <4> QED
        BY <2>2, <2>4, <4>1
    <3> QED
      BY <3>1 DEF Evolves
  <2> QED
    BY <2>9, <2>10, <2>11
<1> PICK l : l = th[t]
  OBVIOUS
<1>0. t \in Threads /\ th \in [Threads -> Locals] /\ Shape(node, alloc, P, A) /\ l \in Locals
  BY DEF Ready
<1>1. l.pc = "set_prefix" /\ alloc' = alloc
  BY DEF SetPrefix, SetField
<1>2. Walking(node, alloc, P, l)
  BY <1>1, WriterAt DEF Ready, Inserting, Removing
<1>3. NextP(P, t) = P /\ NextA(P, A, t) = A
  BY <1>1 DEF NextP, NextA
<1>4. node \in Heap /\ l.node \in Nodes /\ l.node \in 1..alloc
  BY <1>0, <1>2, ShapeTypes DEF Walking
<1>5. /\ node' \in Heap /\ node'[l.node].prefix = l.arg
      /\ \A x \in Nodes : /\ node'[x].meta = node[x].meta /\ node'[x].child = node[x].child
                          /\ x # l.node => node'[x] = node[x]
  <2>1. l.arg \in Prefixes
    BY <1>2 DEF Walking
  <2>2. node' = [node EXCEPT ![l.node].prefix = l.arg]
    BY <1>4 DEF SetPrefix, SetField, Heap
  <2> QED
    BY <1>4, <2>1, <2>2, SMT DEF Heap
<1>6. P[l.node] = l.arg.bits
  <2>1. /\ P[l.node] \in Bits /\ l.arg.bits \in Bits /\ Under(l.arg.bits, P[l.node])
        /\ Len(P[l.node]) = Len(l.arg.bits)
    BY <1>0, <1>1, <1>2, <1>4, ShapeTypes, PrefixBits DEF Walking, Inserting, Removing
  <2> QED
    BY <2>1, UnderStep
<1>7. /\ Shape(node', alloc, P, A) /\ Evolves(node, alloc, P, A, node', alloc, P, A)
      /\ Full(node') = Full(node) /\ Left(node') = Left(node)
  <2>1. l.arg \in Prefixes
    BY <1>2 DEF Walking
  <2> HIDE DEF SetPrefix
  <2> QED
    BY <1>0, <1>4, <1>5, <1>6, <2>1, <1>SetPrefixShape, SMT
<1>8. PICK k \in Locals : /\ th' = [th EXCEPT ![t] = k]
                          /\ k.pc = "set_metadata" /\ k.op = l.op /\ k.arg = l.arg /\ k.v = l.v
                          /\ k.node = l.node /\ k.depth = l.depth
  <2> PICK k : k = [l EXCEPT !.pc = "set_metadata"]
    OBVIOUS
  <2>1. /\ k \in Locals /\ k.pc = "set_metadata" /\ k.op = l.op /\ k.arg = l.arg /\ k.v = l.v
        /\ k.node = l.node /\ k.depth = l.depth
    BY <1>0 DEF Locals, Pcs, Inserting
  <2>2. th' = [th EXCEPT ![t] = k]
    BY DEF SetPrefix, Goto
  <2> QED
    BY <2>1, <2>2
<1>9. WriterOK(node', alloc, P, k)
  BY <1>1, <1>2, <1>5, <1>8 DEF WriterOK, Walking, Inserting, Removing
<1>10. Moved(t) /\ th'[t] = k
  BY <1>0, <1>8, GotoMoves
<1> QED
  BY <1>1, <1>3, <1>5, <1>7, <1>9, <1>10 DEF StepOK

\* Nd2 is nd with the metadata x, None or an entry of the prefix p, at the node
\* n, whose place p is
Stores(nd, al, P, n, p, x, nd2) ==
    /\ n \in 1..al /\ p \in Prefixes /\ P[n] = p.bits
    /\ x \in Entry \cup {Nil} /\ (x # Nil => x.p = p /\ nd[n].prefix = p)
    /\ nd2 \in Heap /\ nd2[n].meta = x /\ nd2[n].prefix = nd[n].prefix
    /\ nd2[n].child = nd[n].child /\ \A y \in Nodes : y # n => nd2[y] = nd[y]

\* The two stores to a node's metadata.
LEMMA SetMetaStep ==
    ASSUME NEW P, NEW A, NEW t, Ready(P, A, t), SetMetadata(t) \/ ClearMetadata(t)
    PROVE  /\ StepOK(P, A, t) /\ NextP(P, t) = P /\ NextA(P, A, t) = A /\ alloc' = alloc
           /\ th[t].node \in A => \A q \in Prefixes :
                 /\ q # th[t].arg => Full(node')[q] = Full(node)[q]
                 /\ q = th[t].arg /\ th[t].pc = "set_metadata" => Full(node')[q] = th[t].v
                 /\ q = th[t].arg /\ th[t].pc # "set_metadata" => Full(node')[q] = Nil
           /\ \A n \in Nodes : node'[n].child = node[n].child
           /\ \A n \in Nodes : n # th[t].node => node'[n] = node[n]
           /\ IF th[t].pc = "set_metadata"
              THEN /\ node'[th[t].node].meta \in Entry
                   /\ node'[th[t].node].meta.p = th[t].arg /\ node'[th[t].node].meta.v = th[t].v
              ELSE node'[th[t].node].meta = Nil
\* A store of node.metadata: only the table's entry of that prefix changes, and
\* only if the node still hangs on the root.
<1>SetMetaShape.
      ASSUME NEW nd, NEW al, NEW Q, NEW B, NEW n, NEW p, NEW x, NEW nd2,
             Shape(nd, al, Q, B), Stores(nd, al, Q, n, p, x, nd2)
      PROVE  /\ Shape(nd2, al, Q, B) /\ Evolves(nd, al, Q, B, nd2, al, Q, B)
             /\ n \in B /\ x = Nil => Full(nd2) = [Full(nd) EXCEPT ![p] = Nil]
             /\ n \in B /\ x # Nil => Full(nd2) = [Full(nd) EXCEPT ![p] = x.v]
  <2> USE <1>SetMetaShape DEF Stores
  <2>1. nd \in Heap /\ n \in Nodes /\ Q \in Places /\ al \in Nat /\ B \subseteq Nodes
    BY ShapeTypes
  <2>2. /\ nd2 \in Heap /\ nd2[n].meta = x /\ nd2[n].prefix = nd[n].prefix
        /\ \A y \in Nodes : nd2[y].child = nd[y].child /\ nd2[y].prefix = nd[y].prefix
        /\ \A y \in Nodes : y # n => nd2[y] = nd[y]
    OBVIOUS
  <2>3. Kids(nd2) = Kids(nd)
    BY <2>2 DEF Kids
  <2>4. \A y \in Nodes : nd2[y].prefix # Nil => nd2[y].prefix.bits = Q[y]
    BY <2>2 DEF Shape
  <2>5. \A y \in Nodes : nd2[y].meta # Nil => nd2[y].meta.p = nd2[y].prefix
    BY <2>2 DEF Shape
  <2>6. \A y \in Nodes : y > al => nd2[y] = NewNode
    <3>1. \A y \in Nodes : y > al => y # n
      BY <2>1, SMT DEF Nodes
    <3> QED
      BY <2>2, <3>1 DEF Shape
  <2>7. Tree(Kids(nd2), Q, B) /\ Tree(Kids(nd), Q, B)
    BY <2>3 DEF Shape
  <2>8. Shape(nd2, al, Q, B)
    <3>1. \A y \in Nodes, b \in {0, 1} :
             nd2[y].child[b] # Nil => /\ nd2[y].child[b] \in 1..al
                                      /\ Q[nd2[y].child[b]] = Append(Q[y], b)
      <4>1. ASSUME NEW y \in Nodes, NEW b \in {0, 1}, nd2[y].child[b] # Nil
            PROVE  nd2[y].child[b] \in 1..al /\ Q[nd2[y].child[b]] = Append(Q[y], b)
        <5>1. nd2[y].child = nd[y].child
          BY <2>2
        <5> QED
          BY <4>1, <5>1 DEF Shape
      <4> QED
        BY <4>1
    <3>2. al \in Nodes /\ Q \in Places /\ B \subseteq 1..al
      BY DEF Shape
    <3> QED
      BY <2>2, <2>4, <2>5, <2>6, <2>7, <3>1, <3>2 DEF Shape
  <2>9. Evolves(nd, al, Q, B, nd2, al, Q, B)
    <3>1. \A y \in 1..al : nd[y].prefix # Nil => nd2[y].prefix = nd[y].prefix
      BY <2>2, ShapeTypes
    <3> QED
      BY <3>1 DEF Evolves
  <2>10. ASSUME n \in B
         PROVE  Full(nd2) = [Full(nd) EXCEPT ![p] = IF x = Nil THEN Nil ELSE x.v]
    <3> SUFFICES ASSUME NEW T, NEW U, Shows(nd, Q, B, T), Shows(nd2, Q, B, U)
                 PROVE  U = [T EXCEPT ![p] = IF x = Nil THEN Nil ELSE x.v]
      BY <2>8, TableShown
    <3>1. Shows(nd, Q, B, T) /\ Shows(nd2, Q, B, U)
      OBVIOUS
    <3>2. U[p] = IF x = Nil THEN Nil ELSE x.v
      <4>1. IF nd2[n].meta = Nil THEN U[p] = Nil ELSE nd2[n].meta.p = p /\ nd2[n].meta.v = U[p]
        BY <2>10, <3>1, SMT DEF Shows
      <4> QED
        BY <4>1
    <3>3. ASSUME NEW q \in Prefixes, q # p PROVE U[q] = T[q]
      <4>0. Q[n] # q.bits
        BY <3>3, PrefixAssumption
      <4>1. CASE \E y \in B : Q[y] = q.bits
        <5>1. PICK y \in B : Q[y] = q.bits
          BY <4>1
        <5>2. nd2[y].meta = nd[y].meta
          BY <2>1, <2>2, <4>0, <5>1
        <5>3. IF nd[y].meta = Nil THEN T[q] = Nil ELSE nd[y].meta.p = q /\ nd[y].meta.v = T[q]
          BY <3>1, <5>1, SMT DEF Shows
        <5>4. IF nd2[y].meta = Nil THEN U[q] = Nil ELSE nd2[y].meta.p = q /\ nd2[y].meta.v = U[q]
          BY <3>1, <5>1, SMT DEF Shows
        <5> QED
          BY <5>2, <5>3, <5>4
      <4>2. CASE ~\E y \in B : Q[y] = q.bits
        BY <3>1, <4>2 DEF Shows
      <4> QED
        BY <4>1, <4>2
    <3>4. T \in [Prefixes -> Vals \cup {Nil}] /\ U \in [Prefixes -> Vals \cup {Nil}]
      BY <3>1 DEF Shows
    <3> QED
      BY <3>2, <3>3, <3>4
  <2> QED
    BY <2>8, <2>9, <2>10
<1> PICK l : l = th[t]
  OBVIOUS
<1>0. t \in Threads /\ th \in [Threads -> Locals] /\ Shape(node, alloc, P, A) /\ l \in Locals
  BY DEF Ready
<1>1. l.pc \in {"set_metadata", "clear_metadata"} /\ alloc' = alloc
  BY DEF SetMetadata, ClearMetadata, SetField
<1>a. SetMetadata(t) <=> l.pc = "set_metadata"
  BY DEF SetMetadata, ClearMetadata
<1>2. Walking(node, alloc, P, l)
  BY <1>1, WriterAt DEF Ready, Inserting, Removing
<1>3. NextP(P, t) = P /\ NextA(P, A, t) = A
  BY <1>1 DEF NextP, NextA
<1>4. node \in Heap /\ l.node \in Nodes /\ l.node \in 1..alloc /\ l.arg \in Prefixes
  BY <1>0, <1>2, ShapeTypes DEF Walking
<1>5. P[l.node] = l.arg.bits
  <2>1. /\ P[l.node] \in Bits /\ l.arg.bits \in Bits /\ Under(l.arg.bits, P[l.node])
        /\ Len(P[l.node]) = Len(l.arg.bits)
    BY <1>0, <1>1, <1>2, <1>4, ShapeTypes, PrefixBits DEF Walking, Inserting, Removing
  <2> QED
    BY <2>1, UnderStep
<1>6. PICK x \in Entry \cup {Nil} :
         /\ node' = [node EXCEPT ![l.node].meta = x]
         /\ SetMetadata(t) => x = [p |-> l.arg, v |-> l.v] /\ x # Nil /\ node[l.node].prefix = l.arg
         /\ ~SetMetadata(t) => x = Nil
  <2>1. CASE SetMetadata(t)
    <3>1. l.pc = "set_metadata" /\ l.op = "insert" /\ l.v \in Vals /\ node[l.node].prefix = l.arg
      BY <1>2, <2>1 DEF SetMetadata, Walking, Inserting, Removing
    <3>2. [p |-> l.arg, v |-> l.v] \in Entry
      BY <1>4, <3>1 DEF Entry
    <3>3. node' = [node EXCEPT ![l.node].meta = [p |-> l.arg, v |-> l.v]]
      BY <1>4, <2>1 DEF SetMetadata, SetField, Heap
    <3> QED
      BY <2>1, <3>1, <3>2, <3>3, NilIsNone
  <2>2. CASE ~SetMetadata(t)
    <3>1. node' = [node EXCEPT ![l.node].meta = Nil]
      BY <1>4, <2>2 DEF ClearMetadata, SetField, Heap
    <3> QED
      BY <2>2, <3>1
  <2> QED
    BY <2>1, <2>2
<1>7. /\ node' \in Heap /\ node'[l.node].meta = x /\ node'[l.node].prefix = node[l.node].prefix
      /\ \A y \in Nodes : node'[y].child = node[y].child
      /\ \A y \in Nodes : y # l.node => node'[y] = node[y]
  BY <1>4, <1>6 DEF Heap
<1>8. /\ Shape(node', alloc, P, A) /\ Evolves(node, alloc, P, A, node', alloc, P, A)
      /\ l.node \in A /\ x = Nil => Full(node') = [Full(node) EXCEPT ![l.arg] = Nil]
      /\ l.node \in A /\ x # Nil => Full(node') = [Full(node) EXCEPT ![l.arg] = x.v]
  <2>1. x # Nil => x.p = l.arg /\ node[l.node].prefix = l.arg
    BY <1>6, SMT
  <2>2. Stores(node, alloc, P, l.node, l.arg, x, node')
    BY <1>4, <1>5, <1>7, <2>1 DEF Stores
  <2> QED
    BY <1>0, <2>2, <1>SetMetaShape
<1>9. WriterOK(node', alloc, P, th'[t]) /\ Moved(t)
  <2>1. CASE NextShard(t)
    <3>1. WriterOK(node', alloc, P, th'[t])
      BY <1>0, <1>2, <1>8, <2>1, NextShardOK
    <3> QED
      BY <1>0, <2>1, <3>1, NextShardMoves
  <2>2. CASE ~NextShard(t)
    <3>1. PICK pc \in Pcs : /\ th' = [th EXCEPT ![t] = [l EXCEPT !.pc = pc]]
                            /\ \/ pc = "count" /\ l.pc = "set_metadata"
                               \/ pc = "uncount" /\ l.pc = "clear_metadata"
      <4>1. "count" \in Pcs /\ "uncount" \in Pcs
        BY DEF Pcs, Inserting, Removing
      <4> QED
        BY <2>2, <4>1 DEF SetMetadata, ClearMetadata, Goto
    <3>2. PICK k \in Locals : /\ th' = [th EXCEPT ![t] = k] /\ k.pc = pc
                              /\ k.op = l.op /\ k.arg = l.arg /\ k.v = l.v
                              /\ k.node = l.node /\ k.depth = l.depth
      <4> PICK k : k = [l EXCEPT !.pc = pc]
        OBVIOUS
      <4>1. /\ k \in Locals /\ k.pc = pc /\ k.op = l.op /\ k.arg = l.arg /\ k.v = l.v
            /\ k.node = l.node /\ k.depth = l.depth
        BY <1>0 DEF Locals
      <4> QED
        BY <3>1, <4>1
    <3>3. Walking(node', alloc, P, k)
      BY <1>2, <3>1, <3>2 DEF Walking, Inserting, Removing
    <3>4. Moved(t) /\ th'[t] = k
      BY <1>0, <3>2, GotoMoves
    <3> QED
      BY <3>3, <3>4 DEF WriterOK
  <2> QED
    BY <2>1, <2>2
<1>10. SetMetadata(t) => x.v = l.v
  BY <1>6, SMT
<1>11. StepOK(P, A, t)
  BY <1>1, <1>3, <1>8, <1>9 DEF StepOK
<1>12. /\ l.node \in A /\ SetMetadata(t) => Full(node') = [Full(node) EXCEPT ![l.arg] = l.v]
       /\ l.node \in A /\ ~SetMetadata(t) => Full(node') = [Full(node) EXCEPT ![l.arg] = Nil]
  BY <1>6, <1>8, <1>10
<1>14. l.node \in A => \A q \in Prefixes :
          /\ q # l.arg => Full(node')[q] = Full(node)[q]
          /\ q = l.arg /\ l.pc = "set_metadata" => Full(node')[q] = l.v
          /\ q = l.arg /\ l.pc # "set_metadata" => Full(node')[q] = Nil
  <2>1. Full(node) \in [Prefixes -> Vals \cup {Nil}]
    BY <1>0, TableShown DEF Shows
  <2> QED
    BY <1>a, <1>4, <1>12, <2>1
<1>13. IF l.pc = "set_metadata"
       THEN /\ node'[l.node].meta \in Entry
            /\ node'[l.node].meta.p = l.arg /\ node'[l.node].meta.v = l.v
       ELSE node'[l.node].meta = Nil
  BY <1>a, <1>6, <1>7, SMT
<1> QED
  BY <1>1, <1>3, <1>7, <1>11, <1>13, <1>14

\* What the store by l leaves, U being the table after it
MetaAt(P, A, t, l, U) ==
    /\ StepOK(P, A, t) /\ U[l.arg] = IF l.pc = "set_metadata" THEN l.v ELSE Nil
    /\ \A q \in Prefixes : q # l.arg => U[q] = Full(node)[q]
    /\ \A n \in Nodes : node'[n].child = node[n].child
    /\ \A n \in Nodes : n # l.node => node'[n] = node[n]
    /\ IF l.pc = "set_metadata"
       THEN /\ node'[l.node].meta \in Entry
            /\ node'[l.node].meta.p = l.arg /\ node'[l.node].meta.v = l.v
       ELSE node'[l.node].meta = Nil

\* The same store, seen from the table after it.
LEMMA SetMetaAt ==
    ASSUME NEW P, NEW A, NEW t, NEW l, NEW U, l = th[t], U = Full(node'), Ready(P, A, t),
           SetMetadata(t) \/ ClearMetadata(t), l.node \in A, l.arg \in Prefixes
    PROVE  MetaAt(P, A, t, l, U)
BY SetMetaStep, SMT DEF MetaAt

\* Insert links a node it allocated.
LEMMA LinkStep ==
    ASSUME NEW P, NEW A, NEW t, Ready(P, A, t), Link(t)
    PROVE  /\ StepOK(P, A, t) /\ alloc' = alloc + 1
           /\ th[t].node \in A /\ NextNode(t) = Nil =>
                 Full(node') = Full(node) /\ NextA(P, A, t) = A \cup {alloc + 1}
           /\ \A n \in Nodes : node'[n].meta = node[n].meta
           /\ \A n \in Nodes, b \in {0, 1} :
                 node'[n].child[b] = node[n].child[b] \/ node'[n].child[b] = alloc + 1
           /\ node'[alloc + 1] = NewNode
           /\ th'[t].op = th[t].op /\ th'[t].arg = th[t].arg /\ th'[t].v = th[t].v
           /\ th'[t].shard = th[t].shard /\ th'[t].node = alloc + 1
           /\ th'[t].pc \in {"walk", "is_new"}
\* Insert's store of a child pointer: where no child was, the table stays.
<1>LinkShape.
      ASSUME NEW nd, NEW al, NEW Q, NEW B, Shape(nd, al, Q, B), al < MaxNodes,
             NEW m \in 1..al, NEW side \in {0, 1}, NEW nd2 \in Heap, NEW Q2 \in Places, NEW B2,
             Grafts(nd, al, Q, B, m, side, nd2, Q2, B2)
      PROVE  /\ Shape(nd2, al + 1, Q2, B2)
             /\ Evolves(nd, al, Q, B, nd2, al + 1, Q2, B2)
             /\ m \in B /\ nd[m].child[side] = Nil => Full(nd2) = Full(nd) /\ B2 = B \cup {al + 1}
  <2> USE <1>LinkShape
  \* Nodes off the tree do not matter to it.
  <2>TreeSame.
        ASSUME NEW h, NEW h2, NEW R, NEW R2, NEW C, Tree(h, R, C),
               \A n \in C : h2[n] = h[n] /\ R2[n] = R[n]
        PROVE  Tree(h2, R2, C)
    <3> USE <2>TreeSame
    <3>1. Root \in C /\ R2[Root] = <<>>
      BY DEF Tree
    <3>2. ASSUME NEW n \in C, NEW b \in {0, 1}, h2[n][b] # Nil
          PROVE  h2[n][b] \in C /\ R2[h2[n][b]] = Append(R2[n], b)
      <4>1. h2[n][b] = h[n][b] /\ R2[n] = R[n]
        OBVIOUS
      <4>2. h[n][b] \in C /\ R[h[n][b]] = Append(R[n], b)
        BY <3>2, <4>1 DEF Tree
      <4> QED
        BY <4>1, <4>2
    <3>3. ASSUME NEW n \in C \ {Root} PROVE \E k \in C, b \in {0, 1} : h2[k][b] = n
      <4>1. PICK k \in C, b \in {0, 1} : h[k][b] = n
        BY DEF Tree
      <4> QED
        BY <4>1
    <3>4. \A k, n \in C : R2[k] = R2[n] => k = n
      BY SMT DEF Tree
    <3> QED
      BY <3>1, <3>2, <3>3, <3>4 DEF Tree
  <2>1. /\ nd \in Heap /\ Q \in Places /\ al \in Nat /\ al \in Nodes /\ 1..al \subseteq Nodes
        /\ B \subseteq Nodes /\ B \subseteq 1..al /\ Root \in B
    BY ShapeTypes
  <2> PICK c : c = al + 1
    OBVIOUS
  <2>2. c \in Nodes /\ c \notin 1..al /\ c \in 1..(al + 1) /\ c > al /\ c # m
    BY <2>1, Constants, SMT DEF Nodes
  <2>4. Q2 \in Places /\ Q2[c] = Append(Q[m], side) /\ \A n \in Nodes : n # c => Q2[n] = Q[n]
    BY DEF Grafts
  <2>5. \A n \in 1..al : n # c /\ Q2[n] = Q[n]
    BY <2>1, <2>2, <2>4
  <2>6. nd[c] = NewNode /\ nd2[c] = NewNode
    BY <2>2 DEF Shape, Grafts
  <2>7. /\ Kids(nd) \in Pointers /\ Kids(nd2) \in Pointers /\ Tree(Kids(nd), Q, B)
        /\ \A n \in Nodes : Kids(nd)[n] = nd[n].child /\ Kids(nd2)[n] = nd2[n].child
    BY <2>1, KidsPointers DEF Shape
  <2>8. /\ nd2[m].child[side] = c
        /\ \A n \in Nodes, b \in {0, 1} : ~(n = m /\ b = side) => nd2[n].child[b] = nd[n].child[b]
        /\ \A n \in Nodes : /\ nd2[n].meta = nd[n].meta /\ nd2[n].prefix = nd[n].prefix
                            /\ n # m => nd2[n] = nd[n]
        /\ m \in B => B2 = Cut(Q, B, m, side) \cup {c}
        /\ m \notin B => B2 = B
    BY DEF Grafts
  <2>9. Tree(Kids(nd2), Q2, B2) /\ B2 \subseteq 1..(al + 1)
    <3>1. CASE m \in B
      <4>1. \A b \in {0, 1} : Kids(nd)[c][b] = Nil
        BY <2>2, <2>6, <2>7, SMT DEF NewNode
      <4>2. Linked(Kids(nd), Q, m, side, c, Kids(nd2), Q2)
        <5>1. /\ Kids(nd2)[m][side] = c
              /\ \A n \in Nodes, b \in {0, 1} :
                    ~(n = m /\ b = side) => Kids(nd2)[n][b] = Kids(nd)[n][b]
          BY <2>1, <2>7, <2>8, SMT
        <5> QED
          BY <2>4, <4>1, <5>1 DEF Linked
      <4>3. c \in Nodes \ B /\ B \in SUBSET Nodes
        BY <2>1, <2>2
      <4>4. Tree(Kids(nd2), Q2, Cut(Q, B, m, side) \cup {c})
        BY <2>1, <2>7, <3>1, <4>2, <4>3, LinkTree
      <4>5. B2 = Cut(Q, B, m, side) \cup {c} /\ B2 \subseteq 1..(al + 1)
        <5>1. Cut(Q, B, m, side) \subseteq 1..al
          BY <2>1 DEF Cut
        <5> QED
          BY <2>8, <2>1, <2>2, <3>1, <5>1, SMT
      <4> QED
        BY <4>4, <4>5
    <3>2. CASE m \notin B
      <4>1. \A n \in B : Kids(nd2)[n] = Kids(nd)[n] /\ Q2[n] = Q[n]
        <5>1. \A n \in B : n \in Nodes /\ n # m /\ nd2[n] = nd[n] /\ Q2[n] = Q[n]
          BY <2>8, <2>1, <2>5, <3>2
        <5> QED
          BY <2>7, <5>1
      <4>2. Tree(Kids(nd), Q, B)
        BY <2>7
      <4>3. Tree(Kids(nd2), Q2, B)
        BY <4>1, <4>2, <2>TreeSame
      <4>4. B \subseteq 1..(al + 1)
        BY <2>1, SMT
      <4> QED
        BY <2>8, <3>2, <4>3, <4>4
    <3> QED
      BY <3>1, <3>2
  <2>10. ASSUME NEW n \in Nodes, NEW b \in {0, 1}, nd2[n].child[b] # Nil
         PROVE  /\ nd2[n].child[b] \in 1..(al + 1)
                /\ Q2[nd2[n].child[b]] = Append(Q2[n], b)
    <3>1. n # c
      BY <2>6, <2>10, SMT DEF NewNode
    <3>2. Q2[n] = Q[n]
      BY <2>4, <3>1
    <3>3. CASE n = m /\ b = side
      BY <2>2, <2>4, <2>8, <3>2, <3>3
    <3>4. CASE ~(n = m /\ b = side)
      <4>1. nd2[n].child[b] = nd[n].child[b]
        BY <2>8, <3>4
      <4>2. nd[n].child[b] \in 1..al /\ Q[nd[n].child[b]] = Append(Q[n], b)
        BY <2>10, <4>1 DEF Shape
      <4>3. Q2[nd[n].child[b]] = Q[nd[n].child[b]]
        BY <2>5, <4>2
      <4>4. nd[n].child[b] \in 1..(al + 1)
        BY <2>1, <4>2, SMT
      <4> QED
        BY <3>2, <4>1, <4>2, <4>3, <4>4
    <3> QED
      BY <3>3, <3>4
  <2>11. \A n \in Nodes : nd2[n].prefix # Nil => nd2[n].prefix.bits = Q2[n]
    <3> TAKE n \in Nodes
    <3>1. nd2[c].prefix = Nil
      BY <2>6, SMT DEF NewNode
    <3> QED
      BY <2>8, <2>4, <3>1 DEF Shape
  <2>12. \A n \in Nodes : nd2[n].meta # Nil => nd2[n].meta.p = nd2[n].prefix
    BY <2>8 DEF Shape
  <2>13. \A n \in Nodes : n > al + 1 => nd2[n] = NewNode
    <3> SUFFICES ASSUME NEW n \in Nodes, n > al + 1 PROVE nd2[n] = NewNode
      OBVIOUS
    <3>1. n > al /\ n # m
      BY <2>1, SMT DEF Nodes
    <3> QED
      BY <2>8, <3>1 DEF Shape
  <2>14. Shape(nd2, al + 1, Q2, B2)
    <3>1. al + 1 \in Nodes
      BY <2>2
    <3> QED
      BY <2>4, <2>9, <2>10, <2>11, <2>12, <2>13, <3>1 DEF Shape
  <2>15. Shows(nd2, Q2, B2, Full(nd2)) /\ Shows(nd, Q, B, Full(nd)) /\ nd2[c].meta = Nil
    <3>1. nd2[c].meta = Nil
      BY <2>6, SMT DEF NewNode
    <3>2. Shows(nd2, Q2, B2, Full(nd2))
      BY <2>14, TableShown
    <3>3. Shows(nd, Q, B, Full(nd))
      BY TableShown
    <3> QED
      BY <3>1, <3>2, <3>3
  <2>16. ASSUME NEW n \in B, NEW p \in Prefixes, Full(nd2)[p] # Nil, Under(p.bits, Q[n])
         PROVE  n \in B2
    <3>1. CASE m \in B
      <4>1. PICK y \in B2 : Q2[y] = p.bits
        BY <2>15, <2>16 DEF Shows
      <4>2. y # c
        BY <2>15, <2>16, <4>1, SMT DEF Shows
      <4>3. y \in Cut(Q, B, m, side) /\ B2 = Cut(Q, B, m, side) \cup {c}
        BY <2>8, <3>1, <4>2, SMT
      <4>4. Q[y] = p.bits
        BY <2>1, <2>5, <4>1, <4>3 DEF Cut
      <4>5. n \in Cut(Q, B, m, side)
        BY <2>1, <2>16, <3>1, <4>3, <4>4, CutKeeps
      <4> QED
        BY <4>3, <4>5
    <3>2. CASE m \notin B
      BY <2>8, <3>2
    <3> QED
      BY <3>1, <3>2
  <2>17. Evolves(nd, al, Q, B, nd2, al + 1, Q2, B2)
    <3>1. 1..al \subseteq 1..(al + 1)
      BY <2>1, SMT
    <3>2. \A n \in 1..al : Q2[n] = Q[n] /\ nd2[n].prefix = nd[n].prefix
      BY <2>8, <2>1, <2>5
    <3> QED
      BY <2>16, <3>1, <3>2 DEF Evolves
  <2>18. ASSUME m \in B, nd[m].child[side] = Nil
         PROVE  Full(nd2) = Full(nd) /\ B2 = B \cup {c}
    <3>1. \A n \in B : ~Under(Q[n], Append(Q[m], side))
      BY <2>1, <2>7, <2>18, NoneUnder
    <3>2. B2 = B \cup {c}
      BY <2>8, <2>18, <3>1 DEF Cut
    <3> SUFFICES ASSUME NEW T, NEW U, Shows(nd2, Q2, B2, U), Shows(nd, Q, B, T) PROVE U = T
      BY <2>15, <3>2
    <3>3. \A n \in B : Q2[n] = Q[n] /\ nd2[n].meta = nd[n].meta
      BY <2>8, <2>1, <2>5
    <3>4. ASSUME NEW p \in Prefixes PROVE U[p] = T[p]
      <4>1. CASE \E n \in B : Q[n] = p.bits
        <5>1. PICK n \in B : Q[n] = p.bits
          BY <4>1
        <5>2. n \in B2 /\ Q2[n] = p.bits /\ nd2[n].meta = nd[n].meta
          BY <3>2, <3>3, <5>1
        <5>3. IF nd[n].meta = Nil THEN T[p] = Nil ELSE nd[n].meta.p = p /\ nd[n].meta.v = T[p]
          BY <5>1, SMT DEF Shows
        <5>4. IF nd2[n].meta = Nil THEN U[p] = Nil ELSE nd2[n].meta.p = p /\ nd2[n].meta.v = U[p]
          BY <5>2 DEF Shows
        <5> QED
          BY <5>2, <5>3, <5>4
      <4>2. CASE ~\E n \in B : Q[n] = p.bits
        <5>1. T[p] = Nil
          BY <4>2 DEF Shows
        <5>2. ASSUME U[p] # Nil PROVE FALSE
          <6>1. PICK y \in B2 : Q2[y] = p.bits
            BY <5>2 DEF Shows
          <6>2. y = c
            BY <3>2, <3>3, <4>2, <6>1
          <6>3. IF nd2[y].meta = Nil THEN U[p] = Nil ELSE nd2[y].meta.p = p /\ nd2[y].meta.v = U[p]
            BY <6>1, SMT DEF Shows
          <6> QED
            BY <2>15, <5>2, <6>2, <6>3
        <5> QED
          BY <5>1, <5>2
      <4> QED
        BY <4>1, <4>2
    <3>5. T \in [Prefixes -> Vals \cup {Nil}] /\ U \in [Prefixes -> Vals \cup {Nil}]
      BY DEF Shows
    <3> QED
      BY <3>4, <3>5, SMT
  <2> QED
    BY <2>14, <2>17, <2>18
<1> PICK l : l = th[t]
  OBVIOUS
<1>0. t \in Threads /\ th \in [Threads -> Locals] /\ Shape(node, alloc, P, A) /\ l \in Locals
  BY DEF Ready
<1>1. l.pc = "link" /\ alloc' = alloc + 1 /\ alloc < MaxNodes
  BY DEF Link
<1>2. Walking(node, alloc, P, l)
  BY <1>1, WriterAt DEF Ready, Inserting, Removing
<1>3. l.op = "insert" /\ l.depth < Len(l.arg.bits) /\ l.arg \in Prefixes /\ l.v \in Vals
  BY <1>1, <1>2 DEF Walking, Inserting, Removing
<1>4. PICK side \in {0, 1} :
         /\ side = GetBit(l.arg, l.depth) /\ l.node \in Nodes /\ l.node \in 1..alloc
         /\ Under(l.arg.bits, Append(P[l.node], side)) /\ Append(P[l.node], side) \in Bits
         /\ Len(Append(P[l.node], side)) = l.depth + 1
  BY <1>0, <1>2, <1>3, NextPlace, SMT
<1>5. /\ node \in Heap /\ P \in Places /\ alloc \in Nat /\ alloc + 1 \in Nodes
      /\ alloc + 1 # l.node /\ alloc + 1 > alloc /\ alloc + 1 \in 1..(alloc + 1)
  BY <1>0, <1>1, <1>4, ShapeTypes, Constants, SMT DEF Nodes
<1>6. node' = [node EXCEPT ![l.node].child[side] = alloc + 1]
  BY <1>4 DEF Link
<1>7. /\ node' \in Heap /\ node'[l.node].child[side] = alloc + 1
      /\ \A n \in Nodes, b \in {0, 1} :
            ~(n = l.node /\ b = side) => node'[n].child[b] = node[n].child[b]
      /\ \A n \in Nodes : /\ node'[n].meta = node[n].meta /\ node'[n].prefix = node[n].prefix
                          /\ n # l.node => node'[n] = node[n]
  BY <1>4, <1>5, <1>6, SMT DEF Heap
<1>8. /\ NextP(P, t) \in Places /\ NextP(P, t)[alloc + 1] = Append(P[l.node], side)
      /\ \A n \in Nodes : n # alloc + 1 => NextP(P, t)[n] = P[n]
  BY <1>1, <1>4, <1>5 DEF NextP, Places
<1>9. NextA(P, A, t) = IF l.node \in A THEN Cut(P, A, l.node, side) \cup {alloc + 1} ELSE A
  BY <1>1, <1>4 DEF NextA
<1>10. Grafts(node, alloc, P, A, l.node, side, node', NextP(P, t), NextA(P, A, t))
  BY <1>7, <1>8, <1>9, ZenonT(30) DEF Grafts
<1>11. /\ Shape(node', alloc + 1, NextP(P, t), NextA(P, A, t))
       /\ Evolves(node, alloc, P, A, node', alloc + 1, NextP(P, t), NextA(P, A, t))
       /\ l.node \in A /\ node[l.node].child[side] = Nil =>
             Full(node') = Full(node) /\ NextA(P, A, t) = A \cup {alloc + 1}
  BY <1>0, <1>1, <1>4, <1>7, <1>8, <1>10, <1>LinkShape, SMT
<1>12. NextNode(t) = node[l.node].child[side]
  BY <1>4 DEF NextNode
<1>13. node'[alloc + 1] = NewNode
  BY <1>0, <1>5, <1>7 DEF Shape
<1>14. PICK k \in Locals :
         /\ th' = [th EXCEPT ![t] = k]
         /\ k.op = l.op /\ k.arg = l.arg /\ k.v = l.v /\ k.node = alloc + 1
         /\ k.depth = l.depth + 1 /\ k.shard = l.shard
         /\ k.pc = At(k.op, k.arg, k.depth)
  <2> PICK k : k = [l EXCEPT !.node = alloc + 1, !.depth = l.depth + 1,
                             !.pc = At("insert", l.arg, l.depth + 1)]
    OBVIOUS
  <2>1. At("insert", l.arg, l.depth + 1) \in Pcs
    BY AtPcs
  <2>2. l.depth + 1 \in Nat
    BY <1>0, SMT DEF Locals
  <2>3. k \in Locals
    BY <1>0, <1>5, <2>1, <2>2 DEF Locals
  <2>4. /\ k.op = l.op /\ k.arg = l.arg /\ k.v = l.v /\ k.node = alloc + 1
        /\ k.depth = l.depth + 1 /\ k.shard = l.shard
        /\ k.pc = At(k.op, k.arg, k.depth)
    BY <1>0, <1>3 DEF Locals
  <2>5. th' = [th EXCEPT ![t] = k]
    BY DEF Link, Goto
  <2> QED
    BY <2>3, <2>4, <2>5
<1>15. Moved(t) /\ th'[t] = k
  BY <1>0, <1>14, GotoMoves
<1>16. WriterOK(node', alloc + 1, NextP(P, t), k)
  <2>1. k.op \in {"insert", "remove"} /\ k.arg \in Prefixes /\ k.v \in Vals
    BY <1>3, <1>14
  <2>2. /\ k.node \in 1..(alloc + 1) /\ NextP(P, t)[k.node] \in Bits
        /\ Under(k.arg.bits, NextP(P, t)[k.node]) /\ k.depth = Len(NextP(P, t)[k.node])
    BY <1>4, <1>5, <1>8, <1>14
  <2> QED
    BY <1>14, <2>1, <2>2, Arrive, SMT
<1>17. StepOK(P, A, t)
  BY <1>1, <1>11, <1>15, <1>16 DEF StepOK
<1>18. k.pc \in {"walk", "is_new"}
  BY <1>3, <1>14 DEF At
<1>19. \A n \in Nodes, b \in {0, 1} :
          node'[n].child[b] = node[n].child[b] \/ node'[n].child[b] = alloc + 1
  BY <1>7
<1> QED
  BY <1>1, <1>7, <1>11, <1>12, <1>13, <1>14, <1>15, <1>17, <1>18, <1>19

\* Clear drops the root's left child, then its right one.
LEMMA ClearStep ==
    ASSUME NEW P, NEW A, NEW t, Ready(P, A, t), SetLeftNone(t) \/ SetRightNone(t)
    PROVE  /\ StepOK(P, A, t) /\ alloc' = alloc /\ NextP(P, t) = P
           /\ NextA(P, A, t) \subseteq A
           /\ \A n \in Nodes : node'[n].meta = node[n].meta
           /\ \A n \in Nodes, b \in {0, 1} :
                 node'[n].child[b] = node[n].child[b] \/ node'[n].child[b] = Nil
           /\ SetLeftNone(t) => node'[Root].child[0] = Nil
           /\ SetRightNone(t) => Full(node') = Left(node)
           /\ th'[t].op = th[t].op /\ th'[t].shard = th[t].shard
           /\ th'[t].pc = IF SetLeftNone(t) THEN "set_right_none" ELSE "store_zero"
\* The root loses one child.
<1>CutShape.
      ASSUME NEW nd, NEW al, NEW Q, NEW C, Shape(nd, al, Q, C), NEW side \in {0, 1},
             NEW nd2 \in Heap, Kids(nd2) = [Kids(nd) EXCEPT ![Root][side] = Nil],
             \A x \in Nodes : /\ nd2[x].meta = nd[x].meta /\ nd2[x].prefix = nd[x].prefix
                              /\ x # Root => nd2[x] = nd[x]
      PROVE  /\ Shape(nd2, al, Q, Cut(Q, C, Root, side))
             /\ Evolves(nd, al, Q, C, nd2, al, Q, Cut(Q, C, Root, side))
  <2> USE <1>CutShape
  <2> PICK B : B = Cut(Q, C, Root, side)
    OBVIOUS
  <2>1. /\ nd \in Heap /\ Q \in Places /\ al \in Nat /\ al \in Nodes /\ 1..al \subseteq Nodes
        /\ C \subseteq Nodes /\ C \subseteq 1..al /\ Root \in C
    BY ShapeTypes
  <2>2. B \subseteq C
    BY DEF Cut
  <2>3. Tree(Kids(nd2), Q, B)
    <3>1. Kids(nd) \in Pointers /\ C \in SUBSET Nodes /\ Tree(Kids(nd), Q, C)
      BY <2>1, KidsPointers DEF Shape
    <3>2. Tree([Kids(nd) EXCEPT ![Root][side] = Nil], Q, Cut(Q, C, Root, side))
      BY <2>1, <3>1, CutTree
    <3> QED
      BY <3>2
  <2>4. ASSUME NEW n \in Nodes, NEW b \in {0, 1}, nd2[n].child[b] # Nil
        PROVE  /\ nd2[n].child[b] \in 1..al
               /\ Q[nd2[n].child[b]] = Append(Q[n], b)
    <3>1. Kids(nd2)[n] = nd2[n].child /\ Kids(nd)[n] = nd[n].child /\ Kids(nd) \in Pointers
      BY <2>1, KidsPointers
    <3>2. nd2[n].child[b] = nd[n].child[b]
      BY <2>4, <3>1, SMT DEF Pointers
    <3> QED
      BY <2>4, <3>2, SMT DEF Shape
  <2>5. \A n \in Nodes : nd2[n].prefix # Nil => nd2[n].prefix.bits = Q[n]
    BY DEF Shape
  <2>6. \A n \in Nodes : nd2[n].meta # Nil => nd2[n].meta.p = nd2[n].prefix
    BY DEF Shape
  <2>7. ASSUME NEW n \in Nodes, n > al PROVE nd2[n] = NewNode
    <3>1. n # Root
      BY <2>1, <2>7, SMT DEF Root, Nodes
    <3> QED
      BY <2>7, <3>1 DEF Shape
  <2>8. Shape(nd2, al, Q, B)
    BY <2>1, <2>2, <2>3, <2>4, <2>5, <2>6, <2>7 DEF Shape
  <2>9. ASSUME NEW n \in C, NEW p \in Prefixes, Full(nd2)[p] # Nil, Under(p.bits, Q[n])
        PROVE  n \in B
    <3>1. Shows(nd2, Q, B, Full(nd2))
      BY <2>8, TableShown
    <3>2. PICK y \in B : Q[y] = p.bits
      BY <2>9, <3>1 DEF Shows
    <3> QED
      BY <2>1, <2>9, <3>2, CutKeeps
  <2>10. Evolves(nd, al, Q, C, nd2, al, Q, B)
    BY <2>1, <2>9 DEF Evolves
  <2> QED
    BY <2>8, <2>10
<1> PICK l : l = th[t]
  OBVIOUS
<1>0. t \in Threads /\ th \in [Threads -> Locals] /\ Shape(node, alloc, P, A) /\ l \in Locals
  BY DEF Ready
<1>1. PICK side \in {0, 1} : /\ SetChild(Root, side, Nil)
                             /\ SetLeftNone(t) => side = 0 /\ l.pc = "set_left_none"
                             /\ ~SetLeftNone(t) => side = 1 /\ l.pc = "set_right_none"
  <2>1. CASE SetLeftNone(t)
    <3>1. SetChild(Root, 0, Nil) /\ l.pc = "set_left_none"
      BY <2>1 DEF SetLeftNone
    <3> QED
      BY <2>1, <3>1
  <2>2. CASE ~SetLeftNone(t)
    <3>1. SetChild(Root, 1, Nil) /\ l.pc = "set_right_none"
      BY <2>2 DEF SetRightNone
    <3> QED
      BY <2>2, <3>1
  <2> QED
    BY <2>1, <2>2
<1>2. l.pc \in {"set_left_none", "set_right_none"} /\ Clears(l)
  <2>1. l.pc \in {"set_left_none", "set_right_none"}
    BY <1>1
  <2> QED
    BY <2>1, WriterAt DEF Ready, Erasing
<1>3. NextP(P, t) = P /\ NextA(P, A, t) = Cut(P, A, Root, side)
  BY <1>1, <1>2 DEF NextP, NextA
<1>4. node \in Heap /\ Root \in Nodes
  BY <1>0, ShapeTypes, Constants
<1>5. alloc' = alloc /\ node' = [node EXCEPT ![Root].child[side] = Nil]
  BY <1>1, <1>4 DEF SetChild, SetField, Heap
<1>6. /\ node' \in Heap /\ node'[Root].child[side] = Nil
      /\ \A n \in Nodes, b \in {0, 1} :
            ~(n = Root /\ b = side) => node'[n].child[b] = node[n].child[b]
      /\ \A n \in Nodes : /\ node'[n].meta = node[n].meta /\ node'[n].prefix = node[n].prefix
                          /\ n # Root => node'[n] = node[n]
  BY <1>4, <1>5 DEF Heap
<1>7. Kids(node') = [Kids(node) EXCEPT ![Root][side] = Nil]
  BY <1>4, <1>5 DEF Kids, Heap
<1>8. /\ Shape(node', alloc, P, Cut(P, A, Root, side))
      /\ Evolves(node, alloc, P, A, node', alloc, P, Cut(P, A, Root, side))
  BY <1>0, <1>6, <1>7, <1>CutShape
<1>9. ASSUME side = 1 PROVE Full(node') = Left(node)
  <2>1. Kids(node') = LeftHalf(Kids(node))
    BY <1>7, <1>9 DEF LeftHalf
  <2>2. Shows(node', P, Cut(P, A, Root, 1), Full(node'))
    BY <1>8, <1>9, TableShown
  <2>3. Shows(node, P, Cut(P, A, Root, 1), Left(node))
    BY <1>0, TableShown
  <2>4. \A n \in Cut(P, A, Root, 1) : node'[n].meta = node[n].meta
    BY <1>0, <1>6, ShapeTypes DEF Cut
  <2> QED
    BY <2>2, <2>3, <2>4, ShownSame
<1>10. PICK pc \in Pcs : /\ th' = [th EXCEPT ![t] = [l EXCEPT !.pc = pc]]
                         /\ pc = IF SetLeftNone(t) THEN "set_right_none" ELSE "store_zero"
  <2>1. "set_right_none" \in Pcs /\ "store_zero" \in Pcs
    BY DEF Pcs, Erasing
  <2> QED
    BY <2>1 DEF SetLeftNone, SetRightNone, Goto
<1>11. PICK k \in Locals : /\ th' = [th EXCEPT ![t] = k] /\ k.pc = pc
                           /\ k.op = l.op /\ k.shard = l.shard
  <2> PICK k : k = [l EXCEPT !.pc = pc]
    OBVIOUS
  <2>1. k \in Locals /\ k.pc = pc /\ k.op = l.op /\ k.shard = l.shard
    BY <1>0 DEF Locals
  <2> QED
    BY <1>10, <2>1
<1>12. Moved(t) /\ th'[t] = k
  BY <1>0, <1>11, GotoMoves
<1>13. WriterOK(node', alloc, P, k)
  BY <1>2, <1>10, <1>11 DEF WriterOK, Clears, Erasing
<1>14. StepOK(P, A, t)
  BY <1>3, <1>5, <1>8, <1>12, <1>13 DEF StepOK
<1>15. NextA(P, A, t) \subseteq A
  BY <1>3 DEF Cut
<1>16. \A n \in Nodes, b \in {0, 1} :
          node'[n].child[b] = node[n].child[b] \/ node'[n].child[b] = Nil
  BY <1>6
<1>17. SetLeftNone(t) => node'[Root].child[0] = Nil
  BY <1>1, <1>6
<1>18. SetRightNone(t) => Full(node') = Left(node)
  <2>1. SetRightNone(t) => ~SetLeftNone(t)
    BY DEF SetRightNone, SetLeftNone
  <2> QED
    BY <1>1, <1>9, <2>1
<1> QED
  BY <1>3, <1>5, <1>6, <1>10, <1>11, <1>12, <1>14, <1>15, <1>16, <1>17, <1>18

\* Every step of a writer keeps the heap's shape and the place of each thread in
\* it, however the writers interleave.
LEMMA WriteStep ==
    ASSUME NEW P, NEW A, NEW t, Ready(P, A, t), Write(t)
    PROVE  StepOK(P, A, t)
\* Insert, remove and clear are called.
<1>CallStep.
      ASSUME CallInsert(t) \/ CallRemove(t) \/ CallClear(t)
      PROVE  StepOK(P, A, t)
  <2> USE <1>CallStep
  <2>0. t \in Threads /\ th \in [Threads -> Locals] /\ Shape(node, alloc, P, A)
    BY ZenonT(30) DEF Ready
  <2>1. Root \in 1..alloc /\ Root \in Nodes /\ P[Root] = <<>> /\ <<>> \in Bits /\ Len(<<>>) = 0
    <3>1. <<>> \in Bits /\ Len(<<>>) = 0
      BY SMT DEF Bits
    <3>2. P[Root] = <<>>
      BY <2>0 DEF Shape, Tree
    <3>3. Root \in 1..alloc /\ Root \in Nodes
      BY <2>0, ShapeTypes
    <3> QED
      BY <3>1, <3>2, <3>3
  <2>2. th[t] = Idle /\ node' = node /\ alloc' = alloc
    BY DEF CallInsert, CallRemove, CallClear, Local, Goto
  <2>3. th[t].pc \notin {"link", "set_left_none", "set_right_none"}
    BY <2>2, SMT DEF Idle
  <2>4. ASSUME NEW op \in {"insert", "remove"}, NEW p \in Prefixes, NEW k \in Locals,
               k.op = op, k.arg = p, op = "insert" => k.v \in Vals, k.node = Root, k.depth = 0,
               k.pc = At(op, p, 0)
        PROVE  WriterOK(node, alloc, P, k)
    <3>1. P[k.node] \in Bits /\ Under(k.arg.bits, P[k.node]) /\ k.depth = Len(P[k.node])
      <4>1. Under(k.arg.bits, <<>>)
        BY <2>1, <2>4, PrefixBits, SMT DEF Under, Bits
      <4> QED
        BY <2>1, <2>4, <4>1
    <3> QED
      BY <2>1, <2>4, <3>1, Arrive, SMT
  <2>5. CASE CallInsert(t)
    <3>1. PICK p \in Prefixes, v \in Vals :
             th' = [th EXCEPT ![t] = [Idle EXCEPT !.op = "insert", !.arg = p, !.v = v,
                                                  !.node = Root, !.pc = At("insert", p, 0)]]
      BY <2>5 DEF CallInsert, Local, Goto
    <3> PICK k : k = [Idle EXCEPT !.op = "insert", !.arg = p, !.v = v,
                                  !.node = Root, !.pc = At("insert", p, 0)]
      OBVIOUS
    <3>2. /\ k \in Locals /\ k.op = "insert" /\ k.arg = p /\ k.v = v /\ k.node = Root
          /\ k.depth = 0 /\ k.pc = At("insert", p, 0)
      <4>1. At("insert", p, 0) \in Pcs
        BY AtPcs
      <4> QED
        BY <2>1, <4>1, IdleLocals DEF Idle, Locals
    <3>3. WriterOK(node, alloc, P, k)
      BY <2>4, <3>2
    <3>4. Moved(t) /\ th'[t] = k
      BY <2>0, <3>1, <3>2, GotoMoves
    <3> QED
      BY <2>0, <2>2, <2>3, <3>3, <3>4, QuietStep
  <2>6. CASE CallRemove(t)
    <3>1. PICK p \in Prefixes :
             th' = [th EXCEPT ![t] = [Idle EXCEPT !.op = "remove", !.arg = p,
                                                  !.node = Root, !.pc = At("remove", p, 0)]]
      BY <2>6 DEF CallRemove, Local, Goto
    <3> PICK k : k = [Idle EXCEPT !.op = "remove", !.arg = p,
                                  !.node = Root, !.pc = At("remove", p, 0)]
      OBVIOUS
    <3>2. /\ k \in Locals /\ k.op = "remove" /\ k.arg = p /\ k.node = Root
          /\ k.depth = 0 /\ k.pc = At("remove", p, 0)
      <4>1. At("remove", p, 0) \in Pcs
        BY AtPcs
      <4> QED
        BY <2>1, <4>1, IdleLocals DEF Idle, Locals
    <3>3. WriterOK(node, alloc, P, k)
      BY <2>4, <3>2
    <3>4. Moved(t) /\ th'[t] = k
      BY <2>0, <3>1, <3>2, GotoMoves
    <3> QED
      BY <2>0, <2>2, <2>3, <3>3, <3>4, QuietStep
  <2>7. CASE CallClear(t)
    <3> PICK k : k = [Idle EXCEPT !.op = "clear", !.node = Root, !.pc = "set_left_none"]
      OBVIOUS
    <3>1. th' = [th EXCEPT ![t] = k] /\ "clear" \in Ops
      BY <2>7 DEF CallClear, Goto
    <3>2. k \in Locals /\ k.op = "clear" /\ k.pc = "set_left_none"
      BY <2>1, IdleLocals DEF Idle, Locals, Pcs, Erasing
    <3>3. WriterOK(node, alloc, P, k)
      BY <3>1, <3>2 DEF WriterOK, Clears, Erasing
    <3>4. Moved(t) /\ th'[t] = k
      BY <2>0, <3>1, <3>2, GotoMoves
    <3> QED
      BY <2>0, <2>2, <2>3, <3>3, <3>4, QuietStep
  <2> QED
    BY <2>5, <2>6, <2>7
\* Insert and remove go down the tree or find the node they look for.
<1>WalkStep.
      ASSUME Descend(t) \/ MissInsert(t) \/ MissRemove(t) \/ IsNew(t) \/ Take(t)
      PROVE  StepOK(P, A, t)
  <2> USE <1>WalkStep
  <2> PICK l : l = th[t]
    OBVIOUS
  <2>0. /\ t \in Threads /\ th \in [Threads -> Locals] /\ Shape(node, alloc, P, A) /\ l \in Locals
    BY DEF Ready
  <2>1. l.pc \in {"walk", "is_new", "take"} /\ node' = node /\ alloc' = alloc
    BY DEF Descend, MissInsert, MissRemove, IsNew, Take, Local, Quiet
  <2>2. Walking(node, alloc, P, l)
    BY <2>1, WriterAt DEF Ready, Inserting, Removing
  <2>3. th[t].pc \notin {"link", "set_left_none", "set_right_none"}
    BY <2>1
  <2>4. CASE NextShard(t)
    <3>1. WriterOK(node, alloc, P, th'[t])
      BY <2>0, <2>2, <2>4, NextShardOK
    <3>2. Moved(t)
      BY <2>0, <2>4, NextShardMoves
    <3> QED
      BY <2>0, <2>1, <2>3, <3>1, <3>2, QuietStep
  <2>5. CASE Descend(t)
    <3> PICK c : c = NextNode(t)
      OBVIOUS
    <3>1. c # Nil /\ l.pc = "walk"
      BY <2>5 DEF Descend
    <3>2. l.depth < Len(l.arg.bits)
      BY <2>2, <3>1 DEF Walking, Inserting, Removing
    <3>3. /\ GetBit(l.arg, l.depth) \in {0, 1} /\ l.node \in Nodes
          /\ Under(l.arg.bits, Append(P[l.node], GetBit(l.arg, l.depth)))
          /\ Append(P[l.node], GetBit(l.arg, l.depth)) \in Bits
          /\ Len(Append(P[l.node], GetBit(l.arg, l.depth))) = l.depth + 1
      BY <2>0, <2>2, <3>2, NextPlace
    <3>4. c = node[l.node].child[GetBit(l.arg, l.depth)]
      BY DEF NextNode
    <3>5. c \in 1..alloc /\ P[c] = Append(P[l.node], GetBit(l.arg, l.depth))
      <4> PICK b \in {0, 1} : b = GetBit(l.arg, l.depth)
        BY <3>3
      <4>1. node[l.node].child[b] # Nil
        BY <3>1, <3>4
      <4>2. /\ node[l.node].child[b] \in 1..alloc
            /\ P[node[l.node].child[b]] = Append(P[l.node], b)
        BY <2>0, <3>3, <4>1 DEF Shape
      <4> QED
        BY <3>4, <4>2
    <3>6. c \in Nodes
      BY <2>0, <3>5, ShapeTypes
    <3>7. PICK k \in Locals :
             /\ th' = [th EXCEPT ![t] = k]
             /\ k.op = l.op /\ k.arg = l.arg /\ k.v = l.v /\ k.node = c /\ k.depth = l.depth + 1
             /\ k.pc = At(k.op, k.arg, k.depth)
      <4> PICK k : k = [l EXCEPT !.node = c, !.depth = l.depth + 1,
                                 !.pc = At(l.op, l.arg, l.depth + 1)]
        OBVIOUS
      <4>1. At(l.op, l.arg, l.depth + 1) \in Pcs
        BY AtPcs
      <4>2. l.depth + 1 \in Nat
        BY <2>0, SMT DEF Locals
      <4>3. k \in Locals
        BY <2>0, <3>6, <4>1, <4>2 DEF Locals
      <4>4. /\ k.op = l.op /\ k.arg = l.arg /\ k.v = l.v /\ k.node = c /\ k.depth = l.depth + 1
            /\ k.pc = At(k.op, k.arg, k.depth)
        BY <2>0 DEF Locals
      <4>5. th' = [th EXCEPT ![t] = k]
        BY <2>5 DEF Descend, Local, Goto
      <4> QED
        BY <4>3, <4>4, <4>5
    <3>9. WriterOK(node, alloc, P, k)
      <4>1. k.op \in {"insert", "remove"} /\ k.arg \in Prefixes /\ (k.op = "insert" => k.v \in Vals)
        BY <2>2, <3>7 DEF Walking
      <4>2. /\ k.node \in 1..alloc /\ P[k.node] \in Bits
            /\ Under(k.arg.bits, P[k.node]) /\ k.depth = Len(P[k.node])
        BY <3>3, <3>5, <3>7
      <4> QED
        BY <3>7, <4>1, <4>2, Arrive, SMT
    <3>10. Moved(t) /\ th'[t] = k
      BY <2>0, <3>7, GotoMoves
    <3> QED
      BY <2>0, <2>1, <2>3, <3>9, <3>10, QuietStep
  <2>6. ASSUME NEW k \in Locals, th' = [th EXCEPT ![t] = k], WriterOK(node, alloc, P, k)
        PROVE  StepOK(P, A, t)
    <3>1. Moved(t) /\ th'[t] = k
      BY <2>0, <2>6, GotoMoves
    <3> QED
      BY <2>0, <2>1, <2>3, <2>6, <3>1, QuietStep
  <2>7. CASE MissInsert(t)
    <3> PICK k : k = [l EXCEPT !.pc = "link"]
      OBVIOUS
    <3>1. th' = [th EXCEPT ![t] = k] /\ l.pc = "walk" /\ l.op = "insert"
      BY <2>7 DEF MissInsert, Local, Goto
    <3>2. /\ k \in Locals /\ k.pc = "link" /\ k.op = l.op /\ k.arg = l.arg /\ k.v = l.v
          /\ k.node = l.node /\ k.depth = l.depth
      BY <2>0 DEF Locals, Pcs
    <3>3. Walking(node, alloc, P, k)
      BY <2>2, <3>1, <3>2 DEF Walking, Inserting, Removing
    <3> QED
      BY <2>6, <3>1, <3>2, <3>3 DEF WriterOK
  <2>8. CASE IsNew(t)
    <3> PICK b \in BOOLEAN : b <=> node[l.node].meta = Nil
      OBVIOUS
    <3> PICK k : k = [l EXCEPT !.isNew = (node[l.node].meta = Nil), !.pc = "set_prefix"]
      OBVIOUS
    <3>1. th' = [th EXCEPT ![t] = k] /\ l.pc = "is_new"
      BY <2>8 DEF IsNew, Local, Goto
    <3>2. /\ k \in Locals /\ k.pc = "set_prefix" /\ k.op = l.op /\ k.arg = l.arg /\ k.v = l.v
          /\ k.node = l.node /\ k.depth = l.depth
      BY <2>0 DEF Locals, Pcs, Inserting
    <3>3. Walking(node, alloc, P, k)
      BY <2>2, <3>1, <3>2 DEF Walking, Inserting, Removing
    <3> QED
      BY <2>6, <3>1, <3>2, <3>3 DEF WriterOK
  <2>9. CASE Take(t) /\ ~NextShard(t)
    <3> PICK k : k = [l EXCEPT !.pc = "clear_metadata"]
      OBVIOUS
    <3>1. th' = [th EXCEPT ![t] = k] /\ l.pc = "take"
      BY <2>9 DEF Take, Goto
    <3>2. /\ k \in Locals /\ k.pc = "clear_metadata" /\ k.op = l.op /\ k.arg = l.arg /\ k.v = l.v
          /\ k.node = l.node /\ k.depth = l.depth
      BY <2>0 DEF Locals, Pcs, Removing
    <3>3. Walking(node, alloc, P, k)
      BY <2>2, <3>1, <3>2 DEF Walking, Inserting, Removing
    <3> QED
      BY <2>6, <3>1, <3>2, <3>3 DEF WriterOK
  <2> QED
    BY <2>4, <2>5, <2>7, <2>8, <2>9 DEF MissRemove
\* The stores to a shard's size.
<1>CountStep.
      ASSUME Count(t) \/ Uncount(t) \/ StoreZero(t)
      PROVE  StepOK(P, A, t)
  <2> USE <1>CountStep
  <2>0. t \in Threads /\ th \in [Threads -> Locals] /\ Shape(node, alloc, P, A)
    BY DEF Ready
  <2>1. /\ th[t].pc \in {"count", "uncount", "store_zero"}
        /\ node' = node /\ alloc' = alloc /\ NextShard(t)
    BY DEF Count, Uncount, StoreZero, SetSize
  <2>2. Clears(th[t]) \/ Walking(node, alloc, P, th[t])
    BY <2>1, WriterAt DEF Ready, Inserting, Removing, Erasing
  <2>3. WriterOK(node, alloc, P, th'[t])
    BY <2>0, <2>1, <2>2, NextShardOK
  <2>4. Moved(t)
    BY <2>0, <2>1, NextShardMoves
  <2>5. th[t].pc \notin {"link", "set_left_none", "set_right_none"}
    BY <2>1
  <2> QED
    BY <2>0, <2>1, <2>3, <2>4, <2>5, QuietStep
<1> QED
  BY <1>CallStep, <1>WalkStep, <1>CountStep, SetPrefixStep, SetMetaStep, LinkStep, ClearStep DEF Write

----------------------------------------------------------------------------
(***************************************************************************)
(* A lookup stands at a node as deep as it has read children, and keeps    *)
(* metadata of routes that contain the address.                            *)
(***************************************************************************)
ReaderOK(nd, al, P, l) ==
    \/ l = Idle
    \/ /\ l.arg \in Ips
       /\ l.best # Nil => Covers(l.best.p, l.arg)
       /\ \/ l.pc = "return"
          \/ /\ l.pc \in Reading /\ l.node \in 1..al /\ l.depth = Len(P[l.node])
             /\ l.pc = "read_metadata" =>
                   nd[l.node].prefix # Nil /\ Covers(nd[l.node].prefix, l.arg)

\* The lookup has read the place of p; it holds a match as long as p.
Passed(l, p) == Len(p.bits) < l.depth \/ (Len(p.bits) = l.depth /\ l.pc = "read_child")

Got(l, p) == l.best # Nil /\ Len(l.best.p.bits) >= Len(p.bits)

(***************************************************************************)
(* Each route that was in the table since the lookup began has been read,  *)
(* or it is still there and the lookup stands above it in the tree.        *)
(***************************************************************************)
Finds(T, P, A, l, stable) ==
    /\ l.pc \in Reading => \A p \in stable : T[p] # Nil
    /\ l.pc \in Reading => \A p \in stable : Covers(p, l.arg) =>
          \/ Passed(l, p) /\ Got(l, p)
          \/ ~Passed(l, p) /\ l.node \in A /\ Under(p.bits, P[l.node])
    /\ l.pc = "return" => \A p \in stable : Covers(p, l.arg) => Got(l, p)

\* What a lookup's position tells about it.
LEMMA ReaderAt ==
    ASSUME NEW nd, NEW al, NEW P, NEW l, ReaderOK(nd, al, P, l)
    PROVE  /\ l.pc \in Reading =>
                 /\ l.arg \in Ips /\ l.node \in 1..al /\ l.depth = Len(P[l.node])
                 /\ l.best # Nil => Covers(l.best.p, l.arg)
           /\ l.pc = "return" => l.arg \in Ips /\ (l.best # Nil => Covers(l.best.p, l.arg))
           /\ l.pc = "read_metadata" =>
                 nd[l.node].prefix # Nil /\ Covers(nd[l.node].prefix, l.arg)
           /\ l.pc \in {"idle", "return"} \cup Reading
BY SMT DEF ReaderOK, Reading, Idle

\* What every action of a lookup starts from
ReadReady(P, A, t) ==
    /\ t \in Readers /\ t \in Threads
    /\ th \in [Threads -> Locals]
    /\ Shape(node, alloc, P, A)
    /\ ReaderOK(node, alloc, P, th[t])

\* The metadata of a route that is in the table is at the route's place.
LEMMA PresentAt ==
    ASSUME NEW nd, NEW al, NEW P, NEW A, Shape(nd, al, P, A), NEW p \in Prefixes,
           Full(nd)[p] # Nil, NEW n \in A, P[n] = p.bits
    PROVE  nd[n].meta # Nil /\ nd[n].meta.p = p /\ nd[n].prefix = p
<1>1. Shows(nd, P, A, Full(nd))
  BY TableShown
<1>2. nd[n].meta # Nil /\ nd[n].meta.p = p
  BY <1>1 DEF Shows
<1>3. n \in Nodes
  BY ShapeTypes
<1> QED
  BY <1>2, <1>3 DEF Shape

\* A lookup begins at the root, above every route.
LEMMA CallLookupStep ==
    ASSUME NEW P, NEW A, NEW t, ReadReady(P, A, t), CallLookup(t),
           NEW S \in SUBSET Prefixes, \A p \in S : Full(node)[p] # Nil
    PROVE  /\ Moved(t) /\ ReaderOK(node, alloc, P, th'[t]) /\ Finds(Full(node), P, A, th'[t], S)
           /\ th'[t].pc = "read_prefix" /\ th'[t].node = Root /\ th'[t].best = Nil
<1>0. t \in Threads /\ th \in [Threads -> Locals] /\ Shape(node, alloc, P, A)
  BY DEF ReadReady
<1>1. Root \in 1..alloc /\ Root \in Nodes /\ Root \in A /\ P[Root] = <<>> /\ Len(<<>>) = 0
  BY <1>0, ShapeTypes, Constants DEF Shape, Tree
<1>2. PICK ip \in Ips : th' = [th EXCEPT ![t] = [Idle EXCEPT !.op = "lookup", !.arg = ip,
                                                             !.node = Root, !.pc = "read_prefix"]]
  BY DEF CallLookup, Local, Goto
<1>3. PICK k \in Locals : /\ th' = [th EXCEPT ![t] = k]
                          /\ k.arg = ip /\ k.node = Root /\ k.depth = 0 /\ k.best = Nil
                          /\ k.pc = "read_prefix"
  <2> PICK k : k = [Idle EXCEPT !.op = "lookup", !.arg = ip, !.node = Root, !.pc = "read_prefix"]
    OBVIOUS
  <2>1. /\ k \in Locals /\ k.arg = ip /\ k.node = Root /\ k.depth = 0 /\ k.best = Nil
        /\ k.pc = "read_prefix"
    BY <1>1, IdleLocals DEF Idle, Locals, Pcs, Reading
  <2> QED
    BY <1>2, <2>1
<1>4. Moved(t) /\ th'[t] = k
  BY <1>0, <1>3, GotoMoves
<1>5. ReaderOK(node, alloc, P, k)
  BY <1>1, <1>3 DEF ReaderOK, Reading
<1>6. \A p \in S : ~Passed(k, p) /\ k.node \in A /\ Under(p.bits, P[k.node])
  <2> TAKE p \in S
  <2>1. Len(p.bits) \in Nat /\ p.bits \in Bits
    BY PrefixBits
  <2>2. Under(p.bits, <<>>)
    BY <2>1, SMT DEF Under, Bits
  <2>3. ~Passed(k, p)
    BY <1>3, <2>1, SMT DEF Passed
  <2> QED
    BY <1>1, <1>3, <2>2, <2>3
<1>7. Finds(Full(node), P, A, k, S)
  BY <1>3, <1>6 DEF Finds
<1> QED
  BY <1>3, <1>4, <1>5, <1>7

\* A lookup reads a node's prefix: it goes on to the metadata if the prefix
\* contains the address. No route of the table is missed if not.
LEMMA ReadPrefixStep ==
    ASSUME NEW P, NEW A, NEW t, ReadReady(P, A, t), ReadPrefix(t),
           NEW S \in SUBSET Prefixes, Finds(Full(node), P, A, th[t], S)
    PROVE  /\ Moved(t) /\ ReaderOK(node, alloc, P, th'[t]) /\ Finds(Full(node), P, A, th'[t], S)
           /\ th'[t].pc \in Reading /\ th'[t].node = th[t].node /\ th'[t].best = th[t].best
<1> PICK l : l = th[t]
  OBVIOUS
<1>0. /\ t \in Threads /\ th \in [Threads -> Locals] /\ Shape(node, alloc, P, A) /\ l \in Locals
      /\ l.pc = "read_prefix" /\ l.pc \in Reading
  BY DEF ReadReady, ReadPrefix, Reading
<1>a. \A p \in S : Full(node)[p] # Nil
  BY <1>0 DEF Finds
<1>1. /\ l.arg \in Ips /\ l.node \in 1..alloc /\ l.depth = Len(P[l.node])
      /\ l.best # Nil => Covers(l.best.p, l.arg)
  BY <1>0, ReaderAt, SMT DEF ReadReady
<1>2. PICK k \in Locals :
         /\ th' = [th EXCEPT ![t] = k]
         /\ k.arg = l.arg /\ k.node = l.node /\ k.depth = l.depth /\ k.best = l.best
         /\ k.pc = IF node[l.node].prefix # Nil /\ Covers(node[l.node].prefix, l.arg)
                   THEN "read_metadata" ELSE "read_child"
  <2> PICK pc \in Pcs : pc = IF node[l.node].prefix # Nil /\ Covers(node[l.node].prefix, l.arg)
                             THEN "read_metadata" ELSE "read_child"
    BY DEF Pcs, Reading
  <2> PICK k : k = [l EXCEPT !.pc = pc]
    OBVIOUS
  <2>1. /\ k \in Locals /\ k.arg = l.arg /\ k.node = l.node /\ k.depth = l.depth
        /\ k.best = l.best /\ k.pc = pc
    BY <1>0 DEF Locals
  <2>2. th' = [th EXCEPT ![t] = k]
    BY DEF ReadPrefix, Local, Goto
  <2> QED
    BY <2>1, <2>2
<1>3. Moved(t) /\ th'[t] = k
  BY <1>0, <1>2, GotoMoves
<1>4. k.pc \in Reading /\ ReaderOK(node, alloc, P, k)
  BY <1>1, <1>2 DEF ReaderOK, Reading
<1>5. ASSUME NEW p \in S, Covers(p, l.arg)
      PROVE  \/ Passed(k, p) /\ Got(k, p)
             \/ ~Passed(k, p) /\ k.node \in A /\ Under(p.bits, P[k.node])
  <2>1. \/ Passed(l, p) /\ Got(l, p)
        \/ ~Passed(l, p) /\ l.node \in A /\ Under(p.bits, P[l.node])
    BY <1>0, <1>5 DEF Finds
  <2>2. CASE Passed(l, p) /\ Got(l, p)
    BY <1>0, <1>2, <2>2 DEF Passed, Got
  <2>3. CASE ~Passed(l, p) /\ l.node \in A /\ Under(p.bits, P[l.node]) /\ Len(p.bits) # l.depth
    BY <1>2, <2>3 DEF Passed
  <2>4. CASE ~Passed(l, p) /\ l.node \in A /\ Under(p.bits, P[l.node]) /\ Len(p.bits) = l.depth
    <3>1. P[l.node] = p.bits
      <4>1. P[l.node] \in Bits /\ p.bits \in Bits
        BY <1>0, <2>4, ShapeTypes, PrefixBits
      <4> QED
        BY <1>1, <2>4, <4>1, UnderStep
    <3>2. Full(node)[p] # Nil /\ p \in Prefixes
      BY <1>a
    <3>3. node[l.node].prefix = p
      BY <1>0, <2>4, <3>1, <3>2, PresentAt, SMT
    <3>5. p # Nil
      BY NilIsNone
    <3>6. k.pc = "read_metadata"
      BY <1>2, <1>5, <3>3, <3>5
    <3> QED
      BY <1>0, <1>2, <2>4, <3>6 DEF Passed
  <2> QED
    BY <2>1, <2>2, <2>3, <2>4
<1>6. Finds(Full(node), P, A, k, S)
  BY <1>0, <1>2, <1>4, <1>5 DEF Finds
<1> QED
  BY <1>2, <1>3, <1>4, <1>6

\* A lookup reads a node's metadata: a later, longer match replaces the best one.
LEMMA ReadMetadataStep ==
    ASSUME NEW P, NEW A, NEW t, ReadReady(P, A, t), ReadMetadata(t),
           NEW S \in SUBSET Prefixes, Finds(Full(node), P, A, th[t], S)
    PROVE  /\ Moved(t) /\ ReaderOK(node, alloc, P, th'[t]) /\ Finds(Full(node), P, A, th'[t], S)
           /\ th'[t].pc \in Reading /\ th'[t].node = th[t].node
           /\ th'[t].best = IF node[th[t].node].meta # Nil THEN node[th[t].node].meta
                            ELSE th[t].best
<1> PICK l : l = th[t]
  OBVIOUS
<1> PICK m : m = node[l.node].meta
  OBVIOUS
<1>0. /\ t \in Threads /\ th \in [Threads -> Locals] /\ Shape(node, alloc, P, A) /\ l \in Locals
      /\ l.pc = "read_metadata" /\ l.pc \in Reading
  BY DEF ReadReady, ReadMetadata, Reading
<1>a. \A p \in S : Full(node)[p] # Nil
  BY <1>0 DEF Finds
<1>1. /\ l.arg \in Ips /\ l.node \in 1..alloc /\ l.depth = Len(P[l.node])
      /\ l.best # Nil => Covers(l.best.p, l.arg)
      /\ node[l.node].prefix # Nil /\ Covers(node[l.node].prefix, l.arg)
  BY <1>0, ReaderAt, SMT DEF ReadReady
<1>2. l.node \in Nodes /\ node \in Heap
  BY <1>0, <1>1, ShapeTypes
<1>3. m \in Entry \cup {Nil}
  BY <1>2 DEF Heap
<1>4. m # Nil => m.p = node[l.node].prefix /\ m.p.bits = P[l.node]
  BY <1>0, <1>1, <1>2 DEF Shape
<1>5. PICK k \in Locals :
         /\ th' = [th EXCEPT ![t] = k]
         /\ k.arg = l.arg /\ k.node = l.node /\ k.depth = l.depth
         /\ k.best = IF m # Nil THEN m ELSE l.best
         /\ k.pc = "read_child"
  <2>0. PICK b \in Entry \cup {Nil} : b = IF m # Nil THEN m ELSE l.best
    BY <1>0, <1>3 DEF Locals
  <2> PICK k : k = [l EXCEPT !.best = b, !.pc = "read_child"]
    OBVIOUS
  <2>3. "read_child" \in Pcs
    BY DEF Pcs, Reading
  <2>1. /\ k \in Locals /\ k.arg = l.arg /\ k.node = l.node /\ k.depth = l.depth
        /\ k.best = b /\ k.pc = "read_child"
    BY <1>0, <2>3 DEF Locals
  <2>2. th' = [th EXCEPT ![t] = k]
    BY <2>0 DEF ReadMetadata, Local, Goto
  <2> QED
    BY <2>0, <2>1, <2>2
<1>6. Moved(t) /\ th'[t] = k
  BY <1>0, <1>5, GotoMoves
<1>7. k.pc \in Reading /\ ReaderOK(node, alloc, P, k)
  BY <1>1, <1>4, <1>5 DEF ReaderOK, Reading
<1>8. ASSUME NEW p \in S, Covers(p, l.arg)
      PROVE  \/ Passed(k, p) /\ Got(k, p)
             \/ ~Passed(k, p) /\ k.node \in A /\ Under(p.bits, P[k.node])
  <2>0. Len(p.bits) \in Nat /\ l.depth \in Nat
    BY <1>0, PrefixBits DEF Locals
  <2>1. \/ Passed(l, p) /\ Got(l, p)
        \/ ~Passed(l, p) /\ l.node \in A /\ Under(p.bits, P[l.node])
    BY <1>0, <1>8 DEF Finds
  <2>2. CASE Passed(l, p) /\ Got(l, p)
    <3>1. Len(p.bits) < l.depth
      BY <1>0, <2>2 DEF Passed
    <3>2. Got(k, p)
      <4>1. CASE m # Nil
        <5>1. k.best = m /\ Len(m.p.bits) = l.depth
          BY <1>1, <1>4, <1>5, <4>1
        <5>2. l.depth >= Len(p.bits)
          BY <2>0, <3>1, SMT
        <5> QED
          BY <4>1, <5>1, <5>2 DEF Got
      <4>2. CASE m = Nil
        BY <1>5, <2>2, <4>2 DEF Got
      <4> QED
        BY <4>1, <4>2
    <3> QED
      BY <1>5, <3>1, <3>2 DEF Passed
  <2>3. CASE ~Passed(l, p) /\ l.node \in A /\ Under(p.bits, P[l.node]) /\ Len(p.bits) # l.depth
    BY <1>5, <2>3 DEF Passed
  <2>4. CASE ~Passed(l, p) /\ l.node \in A /\ Under(p.bits, P[l.node]) /\ Len(p.bits) = l.depth
    <3>1. P[l.node] = p.bits
      <4>1. P[l.node] \in Bits /\ p.bits \in Bits
        BY <1>0, <2>4, ShapeTypes, PrefixBits
      <4> QED
        BY <1>1, <2>4, <4>1, UnderStep
    <3>2. Full(node)[p] # Nil /\ p \in Prefixes
      BY <1>a
    <3>3. node[l.node].meta # Nil /\ node[l.node].meta.p = p
      BY <1>0, <2>4, <3>1, <3>2, PresentAt, SMT
    <3>5. k.best # Nil /\ k.best.p = p
      BY <1>5, <3>3
    <3> QED
      BY <1>5, <2>0, <2>4, <3>5, SMT DEF Passed, Got
  <2> QED
    BY <2>1, <2>2, <2>3, <2>4
<1>9. Finds(Full(node), P, A, k, S)
  BY <1>0, <1>5, <1>7, <1>8 DEF Finds
<1> QED
  BY <1>5, <1>6, <1>7, <1>9

\* A lookup reads the child pointer on its side and goes down or is done.
LEMMA ReadChildStep ==
    ASSUME NEW P, NEW A, NEW t, ReadReady(P, A, t), ReadChild(t),
           NEW S \in SUBSET Prefixes, Finds(Full(node), P, A, th[t], S)
    PROVE  /\ Moved(t) /\ ReaderOK(node, alloc, P, th'[t]) /\ Finds(Full(node), P, A, th'[t], S)
           /\ th'[t].pc \in Reading \cup {"return"} /\ th'[t].best = th[t].best
           /\ th'[t].pc \in Reading =>
                 \E b \in {0, 1} : th'[t].node = node[th[t].node].child[b] /\ th'[t].node # Nil
\* An address goes the way of the prefixes that contain it.
<1>CoverBit.
      ASSUME NEW p \in Prefixes, NEW ip \in Ips, Covers(p, ip), NEW d \in Nat, d < Len(p.bits)
      PROVE  GetBit(ip, d) = p.bits[d + 1]
  <2> USE <1>CoverBit
  <2>1. p.bits \in Bits /\ ip.bits \in Bits /\ Len(p.bits) \in Nat /\ Len(ip.bits) \in Nat
    BY PrefixBits
  <2>2. Under(ip.bits, p.bits)
    BY DEF Covers, Under
  <2>3. Len(p.bits) <= Len(ip.bits) /\ \A i \in 1..Len(p.bits) : ip.bits[i] = p.bits[i]
    BY <2>1, <2>2, UnderDef
  <2>4. d < Len(ip.bits) /\ d + 1 \in 1..Len(p.bits)
    BY <2>1, <2>3, SMT
  <2> QED
    BY <2>3, <2>4 DEF GetBit
\* A route that contains the address and is still ahead is on the side the lookup
\* goes to.
<1>AheadOfLookup.
      ASSUME th[t].pc = "read_child",
             NEW p \in S, Covers(p, th[t].arg), ~(Len(p.bits) <= th[t].depth)
      PROVE  NextNode(t) \in A /\ Under(p.bits, P[NextNode(t)])
  <2> USE <1>AheadOfLookup
  <2> PICK l : l = th[t]
    OBVIOUS
  <2>0. /\ t \in Threads /\ th \in [Threads -> Locals] /\ Shape(node, alloc, P, A) /\ l \in Locals
        /\ l.pc = "read_child" /\ l.pc \in Reading
    BY DEF ReadReady, Reading
  <2>1. l.arg \in Ips /\ l.depth = Len(P[l.node]) /\ l.depth \in Nat
    BY <2>0, ReaderAt, SMT DEF ReadReady, Locals
  <2>2. p \in Prefixes /\ Len(p.bits) \in Nat /\ p.bits \in Bits
    BY PrefixBits
  <2>3. l.node \in A /\ Under(p.bits, P[l.node])
    BY <2>0, <2>1, <2>2, SMT DEF Finds, Passed
  <2>4. P[l.node] \in Bits /\ l.node \in Nodes
    BY <2>0, <2>3, ShapeTypes
  <2> PICK g : g = GetBit(l.arg, l.depth)
    OBVIOUS
  <2>5. g = p.bits[l.depth + 1]
    BY <2>1, <2>2, <1>CoverBit, SMTT(20)
  <2>6. g \in {0, 1} /\ Under(p.bits, Append(P[l.node], g))
    BY <2>1, <2>2, <2>3, <2>4, <2>5, UnderStep, SMT
  <2>7. NextNode(t) = Kids(node)[l.node][g]
    BY <2>4 DEF NextNode, Kids
  <2>8. Kids(node) \in Pointers /\ P \in Places /\ A \in SUBSET Nodes /\ Tree(Kids(node), P, A)
    <3>1. Tree(Kids(node), P, A)
      BY <2>0 DEF Shape
    <3>2. node \in Heap /\ P \in Places /\ A \in SUBSET Nodes
      BY <2>0, ShapeTypes
    <3> QED
      BY <3>1, <3>2, KidsPointers
  <2>9. Kids(node)[l.node][g] # Nil
    <3>1. SUFFICES ASSUME Kids(node)[l.node][g] = Nil PROVE FALSE
      OBVIOUS
    <3>2. Full(node)[p] # Nil
      BY <2>0 DEF Finds
    <3>3. PICK n \in A : P[n] = p.bits
      <4>1. Shows(node, P, A, Full(node))
        BY <2>0, TableShown
      <4> QED
        BY <2>2, <3>2, <4>1 DEF Shows
    <3>4. ~Under(P[n], Append(P[l.node], g))
      BY <2>3, <2>6, <2>8, <3>1, <3>3, NoneUnder
    <3> QED
      BY <2>6, <3>3, <3>4
  <2>10. /\ Kids(node)[l.node][g] \in A
         /\ P[Kids(node)[l.node][g]] = Append(P[l.node], g)
    BY <2>3, <2>6, <2>8, <2>9 DEF Tree
  <2> QED
    BY <2>6, <2>7, <2>10
\* Get_bit returns 0 or 1, past the end too.
<1>GetBitOfIp.
      ASSUME NEW ip \in Ips, NEW d \in Nat
      PROVE  GetBit(ip, d) \in {0, 1}
  <2>1. ip.bits \in Seq({0, 1}) /\ Len(ip.bits) \in Nat
    BY PrefixBits DEF Bits
  <2>2. CASE d < Len(ip.bits)
    <3>1. d + 1 \in 1..Len(ip.bits)
      BY <2>1, <2>2, SMT
    <3> QED
      BY <2>1, <2>2, <3>1, SMT DEF GetBit
  <2> QED
    BY <2>2 DEF GetBit
<1> PICK l : l = th[t]
  OBVIOUS
<1>0. /\ t \in Threads /\ th \in [Threads -> Locals] /\ Shape(node, alloc, P, A) /\ l \in Locals
      /\ l.pc = "read_child" /\ l.pc \in Reading
  BY DEF ReadReady, ReadChild, Reading
<1>1. /\ l.arg \in Ips /\ l.node \in 1..alloc /\ l.depth = Len(P[l.node]) /\ l.depth \in Nat
      /\ l.best # Nil => Covers(l.best.p, l.arg)
  BY <1>0, ReaderAt, SMT DEF ReadReady, Locals
<1>a. \A n \in Nodes, b \in {0, 1} : node[n].child[b] # Nil =>
         node[n].child[b] \in 1..alloc /\ P[node[n].child[b]] = Append(P[n], b)
  BY <1>0 DEF Shape
<1>2. l.node \in Nodes /\ P[l.node] \in Bits /\ 1..alloc \subseteq Nodes
  BY <1>0, <1>1, ShapeTypes
<1> PICK g : g = GetBit(l.arg, l.depth)
  OBVIOUS
<1>3. g \in {0, 1}
  BY <1>1, <1>GetBitOfIp
<1> PICK c : c = NextNode(t)
  OBVIOUS
<1>4. c = node[l.node].child[g]
  BY DEF NextNode
<1>5. \A p \in S : Len(p.bits) \in Nat
  BY PrefixBits
<1>6. ASSUME NEW p \in S, Covers(p, l.arg)
      PROVE  IF Len(p.bits) <= l.depth THEN Got(l, p) ELSE c \in A /\ Under(p.bits, P[c])
  <2>1. CASE Len(p.bits) <= l.depth
    BY <1>0, <1>1, <1>5, <1>6, <2>1, SMT DEF Finds, Passed
  <2>2. CASE ~(Len(p.bits) <= l.depth)
    BY <1>0, <1>6, <2>2, <1>AheadOfLookup
  <2> QED
    BY <2>1, <2>2
<1>7. CASE c # Nil
  <2>1. c \in 1..alloc /\ P[c] = Append(P[l.node], g)
    BY <1>a, <1>2, <1>3, <1>4, <1>7
  <2>2. Len(P[c]) = l.depth + 1
    BY <1>1, <1>2, <1>3, <2>1, AppendBits, SMT
  <2>3. PICK k \in Locals :
           /\ th' = [th EXCEPT ![t] = k]
           /\ k.arg = l.arg /\ k.node = c /\ k.depth = l.depth + 1 /\ k.best = l.best
           /\ k.pc = "read_prefix"
    <3> PICK k : k = [l EXCEPT !.node = c, !.depth = l.depth + 1, !.pc = "read_prefix"]
      OBVIOUS
    <3>1. "read_prefix" \in Pcs /\ l.depth + 1 \in Nat /\ c \in Nodes
      BY <1>1, <1>2, <2>1, SMT DEF Pcs, Reading
    <3>2. /\ k \in Locals /\ k.arg = l.arg /\ k.node = c /\ k.depth = l.depth + 1
          /\ k.best = l.best /\ k.pc = "read_prefix"
      BY <1>0, <3>1 DEF Locals
    <3>3. th' = [th EXCEPT ![t] = k]
      BY <1>7 DEF ReadChild, Local, Goto
    <3> QED
      BY <3>2, <3>3
  <2>4. Moved(t) /\ th'[t] = k
    BY <1>0, <2>3, GotoMoves
  <2>5. k.pc \in Reading /\ ReaderOK(node, alloc, P, k)
    BY <1>1, <2>1, <2>2, <2>3 DEF ReaderOK, Reading
  <2>6. ASSUME NEW p \in S, Covers(p, k.arg)
        PROVE  \/ Passed(k, p) /\ Got(k, p)
               \/ ~Passed(k, p) /\ k.node \in A /\ Under(p.bits, P[k.node])
    <3>1. Passed(k, p) <=> Len(p.bits) <= l.depth
      BY <1>1, <1>5, <2>3, SMT DEF Passed
    <3>2. Got(l, p) => Got(k, p)
      BY <2>3 DEF Got
    <3> QED
      BY <1>6, <2>3, <2>6, <3>1, <3>2
  <2>7. \A p \in S : Full(node)[p] # Nil
    BY <1>0 DEF Finds
  <2>8. Finds(Full(node), P, A, k, S)
    BY <2>3, <2>6, <2>7 DEF Finds
  <2> QED
    BY <1>3, <1>4, <1>7, <2>3, <2>4, <2>5, <2>8
<1>8. CASE c = Nil
  <2>1. PICK k \in Locals :
           /\ th' = [th EXCEPT ![t] = k]
           /\ k.arg = l.arg /\ k.best = l.best /\ k.pc = "return"
    <3> PICK k : k = [l EXCEPT !.node = Nil, !.depth = 0, !.pc = "return"]
      OBVIOUS
    <3>1. "return" \in Pcs
      BY DEF Pcs
    <3>2. k \in Locals /\ k.arg = l.arg /\ k.best = l.best /\ k.pc = "return"
      BY <1>0, <3>1 DEF Locals
    <3>3. th' = [th EXCEPT ![t] = k]
      BY <1>8 DEF ReadChild, Local, Goto
    <3> QED
      BY <3>2, <3>3
  <2>2. Moved(t) /\ th'[t] = k
    BY <1>0, <2>1, GotoMoves
  <2>3. ReaderOK(node, alloc, P, k)
    BY <1>1, <2>1 DEF ReaderOK
  <2>4. \A p \in S : Covers(p, k.arg) => Got(k, p)
    <3> TAKE p \in S
    <3> HAVE Covers(p, k.arg)
    <3>1. Nil \notin A
      BY <1>0, ShapeTypes
    <3>2. Got(l, p)
      BY <1>6, <1>8, <2>1, <3>1
    <3> QED
      BY <2>1, <3>2 DEF Got
  <2>5. Finds(Full(node), P, A, k, S)
    BY <2>1, <2>4 DEF Finds, Reading
  <2> QED
    BY <2>1, <2>2, <2>3, <2>5 DEF Reading
<1> QED
  BY <1>7, <1>8

\* A lookup returns.
LEMMA ReturnStep ==
    ASSUME NEW P, NEW A, NEW t, ReadReady(P, A, t), Return(t), NEW S
    PROVE  Moved(t) /\ ReaderOK(node, alloc, P, th'[t]) /\ th'[t] = Idle
           /\ Finds(Full(node), P, A, th'[t], S)
<1>1. Moved(t) /\ th'[t] = Idle
  BY IdleLocals, GotoMoves DEF ReadReady, Return, Local, Goto
<1>2. Idle.pc = "idle"
  BY DEF Idle
<1> QED
  BY <1>1, <1>2 DEF ReaderOK, Finds, Reading

----------------------------------------------------------------------------
\* What Observe keeps for a lookup
Hists == [stable : SUBSET Prefixes, seen : SUBSET Entry]

\* The routes of a table and their metadata.
LEMMA EntriesOf ==
    ASSUME NEW T \in [Prefixes -> Vals \cup {Nil}]
    PROVE  /\ Abstract!Present(T) = {p \in Prefixes : T[p] # Nil}
           /\ Entries(T) \in SUBSET Entry /\ Abstract!Present(T) \in SUBSET Prefixes
           /\ \A p \in Prefixes : T[p] # Nil => [p |-> p, v |-> T[p]] \in Entries(T)
           /\ \A e \in Entries(T) : e.p \in Prefixes /\ T[e.p] # Nil /\ e.v = T[e.p]
BY SMT DEF Entries, Entry, Abstract!Present

\* What Observe records for one reader.
LEMMA HistStep ==
    ASSUME Observe, NEW r \in Readers, hist \in [Readers -> Hists],
           Full(node') \in [Prefixes -> Vals \cup {Nil}]
    PROVE  /\ hist' \in [Readers -> Hists]
           /\ th'[r].pc = "idle" => hist'[r].stable = {}
           /\ th'[r].pc # "idle" /\ th[r].pc = "idle" =>
                 /\ hist'[r].stable = Abstract!Present(Full(node'))
                 /\ hist'[r].seen = Entries(Full(node'))
           /\ th'[r].pc # "idle" /\ th[r].pc # "idle" /\ (th[r].pc = "return" \/ node' = node)
                 => hist'[r] = hist[r]
           /\ th'[r].pc # "idle" /\ th[r].pc # "idle" /\ th[r].pc # "return" /\ node' # node =>
                 /\ hist'[r].stable = hist[r].stable \cap Abstract!Present(Full(node'))
                 /\ hist'[r].seen = hist[r].seen \cup Entries(Full(node'))
<1> PICK present : present = Abstract!Present(Full(node'))
  OBVIOUS
<1> PICK entries : entries = Entries(Full(node'))
  OBVIOUS
<1>0. present \in SUBSET Prefixes /\ entries \in SUBSET Entry
  BY EntriesOf
<1>1. hist' = [t \in Readers |->
            IF th'[t].pc = "idle" THEN NoHist
            ELSE IF th[t].pc = "idle" THEN [stable |-> present, seen |-> entries]
            ELSE IF th[t].pc = "return" \/ node' = node THEN hist[t]
            ELSE [stable |-> hist[t].stable \cap present,
                  seen |-> hist[t].seen \cup entries]]
  BY DEF Observe, Table, Full
<1>2. \A t \in Readers :
         hist'[t] = IF th'[t].pc = "idle" THEN NoHist
            ELSE IF th[t].pc = "idle" THEN [stable |-> present, seen |-> entries]
            ELSE IF th[t].pc = "return" \/ node' = node THEN hist[t]
            ELSE [stable |-> hist[t].stable \cap present,
                  seen |-> hist[t].seen \cup entries]
  BY <1>1
<1>3. ASSUME NEW t \in Readers
      PROVE  /\ th'[t].pc = "idle" => hist'[t] = NoHist
             /\ th'[t].pc # "idle" /\ th[t].pc = "idle" =>
                   hist'[t] = [stable |-> present, seen |-> entries]
             /\ th'[t].pc # "idle" /\ th[t].pc # "idle" /\ (th[t].pc = "return" \/ node' = node)
                   => hist'[t] = hist[t]
             /\ th'[t].pc # "idle" /\ th[t].pc # "idle" /\ th[t].pc # "return" /\ node' # node =>
                   hist'[t] = [stable |-> hist[t].stable \cap present,
                               seen |-> hist[t].seen \cup entries]
  <2>1. CASE th'[t].pc = "idle"
    BY <1>2, <2>1
  <2>2. CASE th'[t].pc # "idle" /\ th[t].pc = "idle"
    BY <1>2, <2>2
  <2>3. CASE th'[t].pc # "idle" /\ th[t].pc # "idle" /\ (th[t].pc = "return" \/ node' = node)
    BY <1>2, <2>3
  <2>4. CASE th'[t].pc # "idle" /\ th[t].pc # "idle" /\ ~(th[t].pc = "return" \/ node' = node)
    BY <1>2, <2>4
  <2> QED
    BY <2>1, <2>2, <2>3, <2>4
<1>4. ASSUME NEW t \in Readers
      PROVE  hist'[t] \in Hists
  <2>1. NoHist \in Hists /\ hist[t] \in Hists
    BY DEF NoHist, Hists
  <2>2. [stable |-> present, seen |-> entries] \in Hists
    BY <1>0 DEF Hists
  <2>3. [stable |-> hist[t].stable \cap present, seen |-> hist[t].seen \cup entries] \in Hists
    BY <1>0, <2>1 DEF Hists
  <2> QED
    BY <1>3, <2>1, <2>2, <2>3
<1>5. hist' \in [Readers -> Hists]
  BY <1>1, <1>4
<1>6. th'[r].pc = "idle" => hist'[r].stable = {}
  <2>1. NoHist.stable = {}
    BY DEF NoHist
  <2> QED
    BY <1>3, <2>1
<1>7. th'[r].pc # "idle" /\ th[r].pc = "idle" =>
         hist'[r].stable = present /\ hist'[r].seen = entries
  <2>1. SUFFICES ASSUME hist'[r] = [stable |-> present, seen |-> entries]
                 PROVE  hist'[r].stable = present /\ hist'[r].seen = entries
    BY <1>3
  <2> QED
    BY <2>1, SMT
<1>8. th'[r].pc # "idle" /\ th[r].pc # "idle" /\ th[r].pc # "return" /\ node' # node =>
         /\ hist'[r].stable = hist[r].stable \cap present
         /\ hist'[r].seen = hist[r].seen \cup entries
  <2>1. SUFFICES ASSUME hist'[r] = [stable |-> hist[r].stable \cap present,
                                    seen |-> hist[r].seen \cup entries]
                 PROVE  /\ hist'[r].stable = hist[r].stable \cap present
                        /\ hist'[r].seen = hist[r].seen \cup entries
    BY <1>3
  <2> QED
    BY <2>1, SMT
<1> QED
  BY <1>3, <1>5, <1>6, <1>7, <1>8

\* A running lookup of another thread: its stable routes only get fewer.
LEMMA HistOther ==
    ASSUME Observe, NEW r \in Readers, hist \in [Readers -> Hists],
           Full(node') \in [Prefixes -> Vals \cup {Nil}], th'[r] = th[r],
           NEW P, NEW A, Finds(Full(node), P, A, th[r], hist[r].stable)
    PROVE  /\ hist'[r].stable \in SUBSET hist[r].stable
           /\ th[r].pc \in Reading => \A p \in hist'[r].stable : Full(node')[p] # Nil
<1>1. CASE th[r].pc = "idle"
  BY <1>1, HistStep DEF Reading
<1>2. CASE th[r].pc # "idle" /\ (th[r].pc = "return" \/ node' = node)
  <2>1. hist'[r] = hist[r]
    BY <1>2, HistStep
  <2>2. th[r].pc \in Reading => node' = node
    BY <1>2 DEF Reading
  <2> QED
    BY <2>1, <2>2 DEF Finds
<1>3. CASE th[r].pc # "idle" /\ th[r].pc # "return" /\ node' # node
  <2>1. hist'[r].stable = hist[r].stable \cap Abstract!Present(Full(node'))
    BY <1>3, HistStep
  <2> QED
    BY <2>1, EntriesOf
<1> QED
  BY <1>1, <1>2, <1>3

Base(P, A) ==
    /\ th \in [Threads -> Locals] /\ hist \in [Readers -> Hists]
    /\ size \in [Shards -> 0..(SizeMod - 1)]
    /\ Shape(node, alloc, P, A)
    /\ \A w \in Writers : WriterOK(node, alloc, P, th[w])
    /\ \A r \in Readers : /\ ReaderOK(node, alloc, P, th[r])
                          /\ Finds(Full(node), P, A, th[r], hist[r].stable)

\* The tree's table is a table.
LEMMA TableType ==
    ASSUME NEW nd, NEW al, NEW P, NEW A, Shape(nd, al, P, A)
    PROVE  Full(nd) \in [Prefixes -> Vals \cup {Nil}]
BY TableShown DEF Shows

\* One step of a lookup.
LEMMA LookupStep ==
    ASSUME NEW P, NEW A, NEW t, ReadReady(P, A, t), Read(t),
           hist \in [Readers -> Hists], Finds(Full(node), P, A, th[t], hist[t].stable), Observe
    PROVE  /\ node' = node /\ alloc' = alloc /\ size' = size /\ clears' = clears
           /\ expect' = expect /\ Moved(t)
           /\ ReaderOK(node, alloc, P, th'[t])
           /\ Finds(Full(node), P, A, th'[t], hist'[t].stable)
<1>0. /\ t \in Readers /\ Shape(node, alloc, P, A)
      /\ Full(node) \in [Prefixes -> Vals \cup {Nil}]
  BY TableType DEF ReadReady
<1>1. node' = node /\ alloc' = alloc /\ size' = size /\ clears' = clears /\ expect' = expect
  BY DEF Read, CallLookup, ReadPrefix, ReadMetadata, ReadChild, Return, Local, Goto
<1>2. Full(node') = Full(node)
  BY <1>1
<1>3. hist[t].stable \in SUBSET Prefixes
  BY <1>0 DEF Hists
<1>4. ASSUME NEW S, S = hist[t].stable, Finds(Full(node), P, A, th'[t], S),
             th[t].pc # "idle", th'[t].pc # "idle"
      PROVE  Finds(Full(node), P, A, th'[t], hist'[t].stable)
  <2>1. hist'[t] = hist[t]
    BY <1>0, <1>1, <1>2, <1>4, HistStep
  <2> QED
    BY <1>4, <2>1
<1>5. CASE CallLookup(t)
  <2>1. th[t].pc = "idle"
    BY <1>5, SMT DEF CallLookup, Idle
  <2> PICK S : S = Abstract!Present(Full(node))
    OBVIOUS
  <2>2. S \in SUBSET Prefixes /\ \A p \in S : Full(node)[p] # Nil
    BY <1>0, EntriesOf
  <2>3. /\ Moved(t) /\ ReaderOK(node, alloc, P, th'[t]) /\ Finds(Full(node), P, A, th'[t], S)
        /\ th'[t].pc = "read_prefix"
    BY <1>5, <2>2, CallLookupStep
  <2>4. hist'[t].stable = S
    BY <1>0, <1>2, <2>1, <2>3, HistStep
  <2> QED
    BY <1>1, <2>3, <2>4
<1>6. CASE ReadPrefix(t)
  <2>1. th[t].pc # "idle"
    BY <1>6 DEF ReadPrefix
  <2>2. /\ Moved(t) /\ ReaderOK(node, alloc, P, th'[t])
        /\ Finds(Full(node), P, A, th'[t], hist[t].stable) /\ th'[t].pc \in Reading
    BY <1>3, <1>6, ReadPrefixStep
  <2>3. th'[t].pc # "idle"
    BY <2>2 DEF Reading
  <2> QED
    BY <1>1, <1>4, <2>1, <2>2, <2>3
<1>7. CASE ReadMetadata(t)
  <2>1. th[t].pc # "idle"
    BY <1>7 DEF ReadMetadata
  <2>2. /\ Moved(t) /\ ReaderOK(node, alloc, P, th'[t])
        /\ Finds(Full(node), P, A, th'[t], hist[t].stable) /\ th'[t].pc \in Reading
    BY <1>3, <1>7, ReadMetadataStep
  <2>3. th'[t].pc # "idle"
    BY <2>2 DEF Reading
  <2> QED
    BY <1>1, <1>4, <2>1, <2>2, <2>3
<1>8. CASE ReadChild(t)
  <2>1. th[t].pc # "idle"
    BY <1>8 DEF ReadChild
  <2>2. /\ Moved(t) /\ ReaderOK(node, alloc, P, th'[t])
        /\ Finds(Full(node), P, A, th'[t], hist[t].stable)
        /\ th'[t].pc \in Reading \cup {"return"}
    BY <1>3, <1>8, ReadChildStep
  <2>3. th'[t].pc # "idle"
    BY <2>2 DEF Reading
  <2> QED
    BY <1>1, <1>4, <2>1, <2>2, <2>3
<1>9. CASE Return(t)
  BY <1>1, <1>9, ReturnStep
<1> QED
  BY <1>5, <1>6, <1>7, <1>8, <1>9 DEF Read

\* A step of a writer keeps the invariant, for the places and the tree it leaves.
LEMMA WriterBase ==
    ASSUME NEW P, NEW A, Base(P, A), NEW t \in Writers, Write(t), Observe,
           NEW P2, NEW A2, P2 = NextP(P, t), A2 = NextA(P, A, t)
    PROVE  Base(P2, A2)'
\* Another thread's writer after a step: its place is the same.
<1>WriterStays.
      ASSUME NEW nd, NEW al, NEW Q, NEW B, NEW nd2, NEW al2, NEW Q2, NEW B2,
             Evolves(nd, al, Q, B, nd2, al2, Q2, B2), NEW l, WriterOK(nd, al, Q, l)
      PROVE  WriterOK(nd2, al2, Q2, l)
  <2> USE <1>WriterStays
  <2>1. CASE l = Idle \/ Clears(l)
    BY <2>1 DEF WriterOK
  <2>2. CASE Walking(nd, al, Q, l)
    <3>1. l.node \in 1..al2 /\ Q2[l.node] = Q[l.node]
      BY <2>2 DEF Walking, Evolves
    <3>2. l.pc = "set_metadata" => nd2[l.node].prefix = l.arg
      BY <2>2, NilIsNone DEF Walking, Evolves
    <3> QED
      BY <2>2, <3>1, <3>2 DEF Walking, WriterOK
  <2> QED
    BY <2>1, <2>2 DEF WriterOK
\* A lookup that has not moved when another thread has.
<1>ReaderStays.
      ASSUME NEW nd, NEW al, NEW Q, NEW B, NEW nd2, NEW al2, NEW Q2, NEW B2,
             Evolves(nd, al, Q, B, nd2, al2, Q2, B2), NEW l, ReaderOK(nd, al, Q, l)
      PROVE  ReaderOK(nd2, al2, Q2, l)
  <2> USE <1>ReaderStays
  <2>1. CASE l.pc \in Reading
    <3>1. /\ l.arg \in Ips /\ l.node \in 1..al /\ l.depth = Len(Q[l.node])
          /\ l.best # Nil => Covers(l.best.p, l.arg)
          /\ l.pc = "read_metadata" => nd[l.node].prefix # Nil /\ Covers(nd[l.node].prefix, l.arg)
      BY <2>1, ReaderAt
    <3>2. /\ l.node \in 1..al2 /\ Q2[l.node] = Q[l.node]
          /\ nd[l.node].prefix # Nil => nd2[l.node].prefix = nd[l.node].prefix
      BY <3>1 DEF Evolves
    <3> QED
      BY <2>1, <3>1, <3>2 DEF ReaderOK
  <2>2. CASE l.pc \notin Reading
    BY <2>2 DEF ReaderOK
  <2> QED
    BY <2>1, <2>2
\* A step of a writer does not take a lookup off the way to a route that stays in
\* the table.
<1>FindsStays.
      ASSUME NEW nd, NEW al, NEW Q, NEW B, NEW nd2, NEW al2, NEW Q2, NEW B2,
             Evolves(nd, al, Q, B, nd2, al2, Q2, B2), NEW l, ReaderOK(nd, al, Q, l),
             NEW S \in SUBSET Prefixes, Finds(Full(nd), Q, B, l, S),
             NEW S2 \in SUBSET S, l.pc \in Reading => \A p \in S2 : Full(nd2)[p] # Nil
      PROVE  Finds(Full(nd2), Q2, B2, l, S2)
  <2> USE <1>FindsStays
  <2>1. ASSUME l.pc \in Reading, NEW p \in S2, Covers(p, l.arg)
        PROVE  \/ Passed(l, p) /\ Got(l, p)
               \/ ~Passed(l, p) /\ l.node \in B2 /\ Under(p.bits, Q2[l.node])
    <3>1. \/ Passed(l, p) /\ Got(l, p)
          \/ ~Passed(l, p) /\ l.node \in B /\ Under(p.bits, Q[l.node])
      BY <2>1 DEF Finds
    <3>2. CASE ~Passed(l, p) /\ l.node \in B /\ Under(p.bits, Q[l.node])
      <4>1. l.node \in 1..al
        BY <2>1, ReaderAt
      <4>2. Q2[l.node] = Q[l.node] /\ l.node \in B2
        BY <2>1, <3>2, <4>1 DEF Evolves
      <4> QED
        BY <3>2, <4>2
    <3> QED
      BY <3>1, <3>2
  <2>2. l.pc = "return" => \A p \in S2 : Covers(p, l.arg) => Got(l, p)
    BY DEF Finds
  <2> QED
    BY <2>1, <2>2 DEF Finds
\* A shard's size stays a usize.
<1>SizeStep.
      ASSUME size \in [Shards -> 0..(SizeMod - 1)], th \in [Threads -> Locals],
             NEW u \in Threads, Write(u)
      PROVE  size' \in [Shards -> 0..(SizeMod - 1)]
  <2> USE <1>SizeStep
  <2>1. th[u].shard \in Shards
    BY DEF Locals
  <2>2. ASSUME NEW s \in Shards, NEW x \in Int, SetSize(s, x)
        PROVE  size' \in [Shards -> 0..(SizeMod - 1)]
    <3>1. x % SizeMod \in 0..(SizeMod - 1)
      BY Constants, SMT
    <3> QED
      BY <2>2, <3>1 DEF SetSize
  <2>3. size[th[u].shard] + 1 \in Int /\ size[th[u].shard] - 1 \in Int /\ 0 \in Int
    BY <2>1, Constants, SMT
  <2>4. CASE Count(u) \/ Uncount(u) \/ StoreZero(u)
    BY <2>1, <2>2, <2>3, <2>4 DEF Count, Uncount, StoreZero
  <2>5. CASE CallInsert(u) \/ CallRemove(u) \/ CallClear(u) \/ Descend(u) \/ MissInsert(u)
             \/ MissRemove(u) \/ Link(u) \/ IsNew(u) \/ Take(u)
    BY <2>5 DEF CallInsert, CallRemove, CallClear, Descend, MissInsert, MissRemove, Link, IsNew,
                Take, Local, Quiet
  <2>6. CASE SetPrefix(u) \/ SetMetadata(u) \/ ClearMetadata(u) \/ SetLeftNone(u) \/ SetRightNone(u)
    BY <2>6 DEF SetPrefix, SetMetadata, ClearMetadata, SetLeftNone, SetRightNone, SetChild, SetField
  <2> QED
    BY <2>4, <2>5, <2>6 DEF Write
<1>0. /\ th \in [Threads -> Locals] /\ hist \in [Readers -> Hists]
      /\ size \in [Shards -> 0..(SizeMod - 1)] /\ Shape(node, alloc, P, A)
      /\ \A w \in Writers : WriterOK(node, alloc, P, th[w])
      /\ \A r \in Readers : /\ ReaderOK(node, alloc, P, th[r])
                            /\ Finds(Full(node), P, A, th[r], hist[r].stable)
  BY DEF Base
<1>1. t \in Threads /\ Ready(P, A, t)
  BY <1>0 DEF Ready, Threads
<1>2. /\ Shape(node', alloc', P2, A2) /\ Evolves(node, alloc, P, A, node', alloc', P2, A2)
      /\ WriterOK(node', alloc', P2, th'[t]) /\ Moved(t)
  BY <1>1, WriteStep DEF StepOK
<1>3. th' \in [Threads -> Locals] /\ \A u \in Threads : u # t => th'[u] = th[u]
  BY <1>2 DEF Moved
<1>4. Full(node') \in [Prefixes -> Vals \cup {Nil}]
  BY <1>2, TableType
<1>5. hist' \in [Readers -> Hists]
  <2>1. CASE Readers = {}
    <3>1. DOMAIN hist' = Readers
      BY DEF Observe
    <3>2. hist' = [r \in Readers |-> hist'[r]]
      BY DEF Observe
    <3> QED
      BY <2>1, <3>1, <3>2
  <2>2. CASE \E r : r \in Readers
    BY <1>0, <1>4, <2>2, HistStep
  <2> QED
    BY <2>1, <2>2
<1>6. ASSUME NEW w \in Writers
      PROVE  WriterOK(node', alloc', P2, th'[w])
  <2>1. CASE w = t
    BY <1>2, <2>1
  <2>2. CASE w # t
    <3>1. th'[w] = th[w]
      BY <1>3, <2>2 DEF Threads
    <3>2. WriterOK(node', alloc', P2, th[w])
      BY <1>0, <1>2, <1>WriterStays
    <3> QED
      BY <3>1, <3>2
  <2> QED
    BY <2>1, <2>2
<1>7. ASSUME NEW r \in Readers
      PROVE  /\ ReaderOK(node', alloc', P2, th'[r])
             /\ Finds(Full(node'), P2, A2, th'[r], hist'[r].stable)
  <2>1. th'[r] = th[r]
    BY <1>3, ConstantsAssumption DEF Threads
  <2>2. ReaderOK(node', alloc', P2, th[r])
    BY <1>0, <1>2, <1>ReaderStays
  <2>3. /\ hist'[r].stable \in SUBSET hist[r].stable
        /\ th[r].pc \in Reading => \A p \in hist'[r].stable : Full(node')[p] # Nil
    BY <1>0, <1>4, <2>1, HistOther
  <2>4. hist[r].stable \in SUBSET Prefixes
    BY <1>0, ZenonT(30) DEF Hists
  <2>5. Finds(Full(node'), P2, A2, th[r], hist'[r].stable)
    BY <1>0, <1>2, <2>3, <2>4, <1>FindsStays, SMT
  <2> QED
    BY <2>1, <2>2, <2>5
<1>8. size' \in [Shards -> 0..(SizeMod - 1)]
  BY <1>0, <1>1, <1>SizeStep
<1>9. /\ \A w \in Writers : WriterOK(node', alloc', P2, th'[w])
      /\ \A r \in Readers : /\ ReaderOK(node', alloc', P2, th'[r])
                            /\ Finds(Full(node'), P2, A2, th'[r], hist'[r].stable)
  BY <1>6, <1>7
<1> QED
  BY <1>2, <1>3, <1>5, <1>8, <1>9 DEF Base

\* A step of a lookup keeps the invariant and stores nothing.
LEMMA ReaderBase ==
    ASSUME NEW P, NEW A, Base(P, A), NEW t \in Readers, Read(t), Observe
    PROVE  Base(P, A)' /\ node' = node /\ alloc' = alloc /\ size' = size
           /\ expect' = expect /\ \A u \in Threads : u # t => th'[u] = th[u]
<1>0. /\ th \in [Threads -> Locals] /\ hist \in [Readers -> Hists]
      /\ size \in [Shards -> 0..(SizeMod - 1)] /\ Shape(node, alloc, P, A)
      /\ \A w \in Writers : WriterOK(node, alloc, P, th[w])
      /\ \A r \in Readers : /\ ReaderOK(node, alloc, P, th[r])
                            /\ Finds(Full(node), P, A, th[r], hist[r].stable)
  BY DEF Base
<1>1. ReadReady(P, A, t)
  BY <1>0 DEF ReadReady, Threads
<1>2. /\ node' = node /\ alloc' = alloc /\ size' = size /\ expect' = expect /\ Moved(t)
      /\ ReaderOK(node, alloc, P, th'[t]) /\ Finds(Full(node), P, A, th'[t], hist'[t].stable)
  BY <1>0, <1>1, LookupStep
<1>3. th' \in [Threads -> Locals] /\ \A u \in Threads : u # t => th'[u] = th[u]
  BY <1>2 DEF Moved
<1>4. Full(node') = Full(node) /\ Full(node) \in [Prefixes -> Vals \cup {Nil}]
  BY <1>0, <1>2, TableType
<1>5. hist' \in [Readers -> Hists]
  BY <1>0, <1>4, HistStep
<1>6. ASSUME NEW w \in Writers
      PROVE  WriterOK(node, alloc, P, th'[w])
  BY <1>0, <1>3, ConstantsAssumption DEF Threads
<1>7. ASSUME NEW r \in Readers
      PROVE  /\ ReaderOK(node, alloc, P, th'[r])
             /\ Finds(Full(node), P, A, th'[r], hist'[r].stable)
  <2>1. CASE r = t
    BY <1>2, <2>1
  <2>2. CASE r # t
    <3>1. th'[r] = th[r]
      BY <1>3, <2>2 DEF Threads
    <3>2. /\ hist'[r].stable \in SUBSET hist[r].stable
          /\ th[r].pc \in Reading => \A p \in hist'[r].stable : Full(node)[p] # Nil
      BY <1>0, <1>4, <3>1, HistOther
    <3>4. Finds(Full(node), P, A, th[r], hist'[r].stable)
      BY <1>0, <3>2 DEF Finds
    <3> QED
      BY <1>0, <3>1, <3>4
  <2> QED
    BY <2>1, <2>2
<1>8. Base(P, A)'
  BY <1>0, <1>2, <1>3, <1>4, <1>5, <1>6, <1>7 DEF Base
<1> QED
  BY <1>2, <1>3, <1>8

----------------------------------------------------------------------------
(***************************************************************************)
(* What the trie promises when only one thread writes, with any number of  *)
(* lookups beside it: calls take effect, size() counts, lookups return     *)
(* what was in the table, and the trie implements the route table.         *)
(*                                                                         *)
(* Inv adds to Base what the only writer can rely on.  Its node hangs on   *)
(* the root and what it read there still holds (Lone); the table is the    *)
(* one its finished calls left or, from its store on, the one its call     *)
(* promises (Effects); the counter is off by one at most between a store   *)
(* and its counting (Sizes).  A lookup reaches only metadata that was in   *)
(* the table while it ran, also in nodes that clear() has cut off (Seen).  *)
(***************************************************************************)

\* Tables, and the routes of one
Tables == [Prefixes -> Vals \cup {Nil}]
Present(T) == {p \in Prefixes : T[p] # Nil}

\* A writer's positions until its store, and after it
Before == {"walk", "link", "is_new", "set_prefix", "set_metadata", "take", "clear_metadata",
           "set_left_none"}
Done == {"count", "uncount", "store_zero"}

(***************************************************************************)
(* A writer that is alone stands at a node that hangs on the root, and     *)
(* what it read of that node still holds.                                  *)
(***************************************************************************)
Lone(nd, A, l) ==
    /\ l.pc \in {"walk", "link"} \cup Inserting \cup Removing => l.node \in A
    /\ l.pc = "link" => nd[l.node].child[GetBit(l.arg, l.depth)] = Nil
    /\ l.pc \in {"set_prefix", "set_metadata"} => (l.isNew <=> nd[l.node].meta = Nil)
    /\ l.pc = "clear_metadata" => nd[l.node].meta # Nil
    /\ l.pc = "set_right_none" => nd[Root].child[0] = Nil

(***************************************************************************)
(* The table is the one its finished calls left until the store in the     *)
(* first shard, and from then on the one its call promises.                *)
(***************************************************************************)
Effects(l, T, ex) ==
    /\ l.pc = "idle" \/ (l.pc \in Before /\ l.shard = 1) => T = ex
    /\ l.pc \in Done \/ (l.pc \in Before /\ l.shard # 1) => T = Effect(l, ex)

(***************************************************************************)
(* The first shard's counter is behind by one between the store and its    *)
(* counting, and no other shard finds anything to count.                   *)
(***************************************************************************)
Sizes(l, T, n) ==
    /\ l.pc = "count" => l.shard = 1 /\ n + 1 = Cardinality(Present(T))
    /\ l.pc = "uncount" => l.shard = 1 /\ n = Cardinality(Present(T)) + 1
    /\ l.pc \in {"set_right_none", "store_zero"} => (l.shard # 1 => n = 0)
    /\ l.pc \in Before \cup {"idle"} => n = Cardinality(Present(T))

\* What holds of the only writer
Sole(nd, A, l, ex, n) ==
    /\ ex \in Tables /\ n \in 0..(SizeMod - 1)
    /\ Lone(nd, A, l) /\ Effects(l, Full(nd), ex) /\ Sizes(l, Full(nd), n)

(***************************************************************************)
(* What the proofs use of the size of finite sets.  The invariant carries  *)
(* these facts; CountingHolds, near the end, proves them.                  *)
(***************************************************************************)
Counting ==
    /\ Cardinality({}) = 0
    /\ IsFiniteSet(Nodes) /\ Cardinality(Nodes) = MaxNodes
    /\ \A S : IsFiniteSet(S) => Cardinality(S) \in Nat
    /\ \A S, x : IsFiniteSet(S) /\ x \notin S => Cardinality(S \cup {x}) = Cardinality(S) + 1
    /\ \A T : \A S \in SUBSET T : IsFiniteSet(T) => IsFiniteSet(S)
    /\ \A S, T : \A f \in [S -> T] :
          IsFiniteSet(T) /\ (\A x, y \in S : f[x] = f[y] => x = y)
          => IsFiniteSet(S) /\ Cardinality(S) <= Cardinality(T)

\* Every route of the table has a node of its own.
LEMMA FewRoutes ==
    ASSUME Counting, NEW nd, NEW al, NEW P, NEW A, Shape(nd, al, P, A)
    PROVE  /\ IsFiniteSet(Present(Full(nd)))
           /\ Cardinality(Present(Full(nd))) \in Nat
           /\ Cardinality(Present(Full(nd))) < SizeMod
<1> PICK S : S = Present(Full(nd))
  OBVIOUS
<1>1. Shows(nd, P, A, Full(nd))
  BY TableShown
<1>2. \A p \in S : p \in Prefixes /\ \E n \in A : P[n] = p.bits
  BY <1>1 DEF Shows, Present
<1> PICK f : f = [p \in S |-> CHOOSE n \in A : P[n] = p.bits]
  OBVIOUS
<1>3. \A p \in S : f[p] \in A /\ P[f[p]] = p.bits
  BY <1>2
<1>4. A \subseteq Nodes
  BY ShapeTypes
<1>5. \A p, q \in S : f[p] = f[q] => p = q
  BY <1>2, <1>3, PrefixAssumption, SMT
<1>6. f \in [S -> Nodes]
  BY <1>3, <1>4
<1>7. IsFiniteSet(Nodes) /\ Cardinality(Nodes) = MaxNodes
  BY DEF Counting
<1>8. IsFiniteSet(S) /\ Cardinality(S) <= Cardinality(Nodes)
  BY <1>5, <1>6, <1>7, SMT DEF Counting
<1>9. Cardinality(S) \in Nat
  BY <1>8 DEF Counting
<1> QED
  BY <1>7, <1>8, <1>9, Constants, SMT

\* The empty table holds no route.
LEMMA NoRoutes ==
    ASSUME Counting
    PROVE  EmptyTable \in Tables /\ Cardinality(Present(EmptyTable)) = 0
<1>1. Present(EmptyTable) = {}
  BY DEF Present, EmptyTable
<1> QED
  BY <1>1 DEF Counting, EmptyTable, Tables

\* The node at the end of the walk holds the route's metadata.
LEMMA ArgAtNode ==
    ASSUME NEW nd, NEW al, NEW P, NEW A, Shape(nd, al, P, A), NEW l, Walking(nd, al, P, l),
           l.node \in A, l.pc \in Inserting \cup Removing
    PROVE  nd[l.node].meta = Nil <=> Full(nd)[l.arg] = Nil
<1>1. Shows(nd, P, A, Full(nd)) /\ l.arg \in Prefixes
  BY TableShown DEF Walking
<1>2. P[l.node] = l.arg.bits
  <2>1. P[l.node] \in Bits /\ l.arg.bits \in Bits
    BY <1>1, ShapeTypes, PrefixBits
  <2>2. Len(P[l.node]) = Len(l.arg.bits) /\ Under(l.arg.bits, P[l.node])
    BY DEF Walking, Inserting, Removing
  <2> QED
    BY <2>1, <2>2, UnderStep
<1>3. nd[l.node].meta = Nil \/ nd[l.node].meta \in Entry
  BY ShapeTypes, SMT DEF Heap
<1>4. nd[l.node].meta \in Entry => nd[l.node].meta.v # Nil
  BY ConstantsAssumption DEF Entry
<1>5. IF nd[l.node].meta = Nil THEN Full(nd)[l.arg] = Nil
      ELSE nd[l.node].meta.p = l.arg /\ nd[l.node].meta.v = Full(nd)[l.arg]
  BY <1>1, <1>2 DEF Shows
<1> QED
  BY <1>3, <1>4, <1>5

\* What an action of the only writer starts from, and what it establishes
SoleReady(P, A, t) == Counting /\ Ready(P, A, t) /\ Sole(node, A, th[t], expect, size[1])
SoleStep(P, A, t) == Sole(node', NextA(P, A, t), th'[t], expect', size'[1])

\* A writer moves on without having stored anything that shows in the table.
LEMMA SoleMoves ==
    ASSUME NEW nd, NEW A, NEW l, NEW ex, NEW n, Sole(nd, A, l, ex, n),
           NEW nd2, NEW A2, NEW k, Full(nd2) = Full(nd), Lone(nd2, A2, k), k.pc \in Before,
           \/ l.pc = "idle" /\ k.shard = 1
           \/ /\ l.pc \in Before /\ k.op = l.op /\ k.arg = l.arg /\ k.v = l.v
              /\ k.shard = l.shard
    PROVE  Sole(nd2, A2, k, ex, n)
<1> PICK T : T = Full(nd)
  OBVIOUS
<1>0. ex \in Tables /\ n \in 0..(SizeMod - 1) /\ Effects(l, T, ex) /\ Sizes(l, T, n)
  BY DEF Sole
<1>1. k.pc \notin Done \cup {"idle", "count", "uncount", "set_right_none", "store_zero"}
  BY DEF Before, Done
<1>2. Effects(k, T, ex)
  <2>1. CASE l.pc = "idle" /\ k.shard = 1
    BY <1>0, <1>1, <2>1 DEF Effects
  <2>2. CASE /\ l.pc \in Before /\ k.op = l.op /\ k.arg = l.arg /\ k.v = l.v
             /\ k.shard = l.shard
    <3>1. Effect(k, ex) = Effect(l, ex)
      BY <2>2 DEF Effect
    <3> QED
      BY <1>0, <1>1, <2>2, <3>1 DEF Effects
  <2> QED
    BY <2>1, <2>2
<1>3. Sizes(k, T, n)
  BY <1>0, <1>1 DEF Sizes
<1> QED
  BY <1>0, <1>2, <1>3 DEF Sole

\* The table that a call should leave.
LEMMA EffectType ==
    ASSUME NEW ex \in Tables, NEW l, Clears(l) \/ (\E nd, al, P : Walking(nd, al, P, l))
    PROVE  /\ Effect(l, ex) \in Tables /\ l.op \in {"insert", "remove", "clear"}
           /\ l.op = "insert" => Effect(l, ex) = [ex EXCEPT ![l.arg] = l.v]
           /\ l.op = "remove" => Effect(l, ex) = [ex EXCEPT ![l.arg] = Nil]
           /\ l.op = "clear" => Effect(l, ex) = EmptyTable
<1>1. CASE Clears(l)
  BY <1>1 DEF Clears, Effect, EmptyTable, Tables
<1>2. CASE \E nd, al, P : Walking(nd, al, P, l)
  <2>1. l.op \in {"insert", "remove"} /\ l.arg \in Prefixes /\ (l.op = "insert" => l.v \in Vals)
    BY <1>2 DEF Walking
  <2> QED
    BY <2>1 DEF Effect, Tables
<1> QED
  BY <1>1, <1>2

\* The call goes on in the next shard or returns, its effect being there.
LEMMA SoleNextShard ==
    ASSUME th \in [Threads -> Locals], NEW t \in Threads, NextShard(t), expect \in Tables,
           Clears(th[t]) \/ (\E nd, al, P : Walking(nd, al, P, th[t])),
           NEW nd2, NEW A2, Root \in A2, Full(nd2) = Effect(th[t], expect),
           NEW n \in 0..(SizeMod - 1), n = Cardinality(Present(Full(nd2)))
    PROVE  Sole(nd2, A2, th'[t], expect', n)
<1> PICK l : l = th[t]
  OBVIOUS
<1> PICK k : k = th'[t]
  OBVIOUS
<1> PICK T : T = Full(nd2)
  OBVIOUS
<1>1. Effect(l, expect) \in Tables /\ l.op \in {"insert", "remove", "clear"} /\ l.shard \in Shards
  BY EffectType DEF Locals
<1>2. CASE ~(l.shard < NumShards)
  <2>1. k = Idle /\ expect' = Effect(l, expect)
    BY <1>2, NextShardMoves
  <2>2. Idle.pc = "idle"
    BY DEF Idle
  <2>3. Lone(nd2, A2, Idle) /\ Effects(Idle, T, expect') /\ Sizes(Idle, T, n)
    BY <2>1, <2>2 DEF Lone, Effects, Sizes, Inserting, Removing, Before, Done
  <2> QED
    BY <1>1, <2>1, <2>3 DEF Sole
<1>3. CASE l.shard < NumShards
  <2>1. /\ k.op = l.op /\ k.arg = l.arg /\ k.v = l.v /\ k.node = Root
        /\ k.shard = l.shard + 1 /\ expect' = expect
        /\ k.pc = IF l.op = "clear" THEN "set_left_none" ELSE At(l.op, l.arg, 0)
    BY <1>3, NextShardMoves
  <2>2. k.pc \in {"set_left_none", "walk", "is_new", "take"}
    BY <2>1, AtPcs
  <2>3. k.shard # 1
    BY <1>1, <2>1, SMT DEF Shards
  <2>4. Effect(k, expect) = Effect(l, expect)
    BY <2>1 DEF Effect
  <2>5. Lone(nd2, A2, k)
    BY <2>1, <2>2 DEF Lone
  <2>6. Effects(k, T, expect)
    BY <2>2, <2>3, <2>4 DEF Effects, Before, Done
  <2>7. Sizes(k, T, n)
    BY <2>2 DEF Sizes
  <2> QED
    BY <2>1, <2>5, <2>6, <2>7 DEF Sole
<1> QED
  BY <1>2, <1>3

\* A step that moves only the position.
LEMMA PcMoves ==
    ASSUME th \in [Threads -> Locals], NEW t \in Threads, NEW c \in Pcs,
           th' = [th EXCEPT ![t] = [th[t] EXCEPT !.pc = c]]
    PROVE  /\ th'[t].pc = c /\ th'[t].op = th[t].op /\ th'[t].arg = th[t].arg
           /\ th'[t].v = th[t].v /\ th'[t].node = th[t].node /\ th'[t].depth = th[t].depth
           /\ th'[t].shard = th[t].shard /\ th'[t].isNew = th[t].isNew
<1> PICK l \in Locals : l = th[t]
  OBVIOUS
<1> PICK k : k = [l EXCEPT !.pc = c]
  OBVIOUS
<1>1. /\ k.pc = c /\ k.op = l.op /\ k.arg = l.arg /\ k.v = l.v /\ k.node = l.node
      /\ k.depth = l.depth /\ k.shard = l.shard /\ k.isNew = l.isNew
  BY DEF Locals
<1>2. th'[t] = k
  OBVIOUS
<1> QED
  BY <1>1, <1>2

\* What the writer's actions start from, spelled out.
LEMMA SoleAt ==
    ASSUME NEW P, NEW A, NEW t, SoleReady(P, A, t)
    PROVE  /\ t \in Threads /\ th \in [Threads -> Locals] /\ th[t] \in Locals
           /\ Shape(node, alloc, P, A) /\ Root \in A
           /\ expect \in Tables /\ size[1] \in 0..(SizeMod - 1) /\ Full(node) \in Tables
           /\ Lone(node, A, th[t]) /\ Effects(th[t], Full(node), expect)
           /\ Sizes(th[t], Full(node), size[1]) /\ Sole(node, A, th[t], expect, size[1])
           /\ th[t].pc \in {"walk", "link"} \cup Inserting \cup Removing =>
                 Walking(node, alloc, P, th[t]) /\ th[t].node \in A
           /\ th[t].pc \in Erasing => Clears(th[t])
<1>1. /\ t \in Threads /\ th \in [Threads -> Locals] /\ Shape(node, alloc, P, A)
      /\ Sole(node, A, th[t], expect, size[1]) /\ WriterOK(node, alloc, P, th[t])
  BY DEF SoleReady, Ready
<1>2. Root \in A /\ Full(node) \in Tables
  BY <1>1, ShapeTypes, TableType DEF Tables
<1>3. /\ expect \in Tables /\ size[1] \in 0..(SizeMod - 1)
      /\ Lone(node, A, th[t]) /\ Effects(th[t], Full(node), expect)
      /\ Sizes(th[t], Full(node), size[1])
  BY <1>1 DEF Sole
<1>4. th[t].pc \in {"walk", "link"} \cup Inserting \cup Removing =>
         Walking(node, alloc, P, th[t]) /\ th[t].node \in A
  BY <1>1, <1>3, WriterAt DEF Lone
<1>5. th[t].pc \in Erasing => Clears(th[t])
  BY <1>1, WriterAt
<1> QED
  BY <1>1, <1>2, <1>3, <1>4, <1>5

\* Insert stores the metadata: the step at which it takes effect.
LEMMA SoleSetMetadata ==
    ASSUME NEW P, NEW A, NEW t, SoleReady(P, A, t), SetMetadata(t)
    PROVE  /\ SoleStep(P, A, t) /\ th[t].arg \in Prefixes /\ th[t].v \in Vals
           /\ Full(node') = [Full(node) EXCEPT ![th[t].arg] = th[t].v]
\* How one route more or less changes their number.
<1>CountInserted.
      ASSUME NEW T \in Tables, IsFiniteSet(Present(T)), NEW p \in Prefixes, NEW U \in Tables,
             U[p] # Nil, \A q \in Prefixes : q # p => U[q] = T[q]
      PROVE  /\ T[p] = Nil => Cardinality(Present(U)) = Cardinality(Present(T)) + 1
             /\ T[p] # Nil => Cardinality(Present(U)) = Cardinality(Present(T))
  <2> USE <1>CountInserted
  <2>1. T[p] = Nil => Present(U) = Present(T) \cup {p} /\ p \notin Present(T)
    BY DEF Present
  <2>2. T[p] # Nil => Present(U) = Present(T)
    BY DEF Present
  <2>3. p \notin Present(T) => Cardinality(Present(T) \cup {p}) = Cardinality(Present(T)) + 1
    BY DEF SoleReady, Counting
  <2> QED
    BY <2>1, <2>2, <2>3
<1> PICK l : l = th[t]
  OBVIOUS
<1>1. l.pc = "set_metadata" /\ size' = size /\ Ready(P, A, t)
  BY DEF SetMetadata, SetField, SoleReady
<1>2. /\ t \in Threads /\ th \in [Threads -> Locals] /\ l \in Locals /\ Shape(node, alloc, P, A)
      /\ Lone(node, A, l) /\ Walking(node, alloc, P, l) /\ l.node \in A
      /\ expect \in Tables /\ size[1] \in 0..(SizeMod - 1) /\ Full(node) \in Tables /\ Root \in A
      /\ Effects(l, Full(node), expect) /\ Sizes(l, Full(node), size[1])
  BY <1>1, SoleAt DEF Inserting
<1>3. NextA(P, A, t) = A
  BY <1>1 DEF NextA
<1>4. l.op = "insert" /\ l.arg \in Prefixes /\ l.v \in Vals /\ l.v # Nil
  BY <1>1, <1>2, ConstantsAssumption DEF Walking, Removing
<1> PICK T : T = Full(node)
  OBVIOUS
<1> PICK U : U = Full(node')
  OBVIOUS
<1>5. U = [T EXCEPT ![l.arg] = l.v]
  <2>1. U \in Tables
    <3>1. StepOK(P, A, t)
      BY <1>1, SetMetaStep
    <3> QED
      BY <3>1, TableType DEF StepOK, Tables
  <2>2. \A q \in Prefixes : U[q] = IF q = l.arg THEN l.v ELSE T[q]
    <3>1. MetaAt(P, A, t, l, U)
      BY <1>1, <1>2, <1>4, SetMetaAt
    <3> QED
      BY <1>1, <3>1 DEF MetaAt
  <2> QED
    BY <1>2, <2>1, <2>2 DEF Tables
<1>6. l.isNew <=> T[l.arg] = Nil
  <2>1. l.isNew <=> node[l.node].meta = Nil
    BY <1>1, <1>2 DEF Lone
  <2>2. node[l.node].meta = Nil <=> Full(node)[l.arg] = Nil
    BY <1>1, <1>2, ArgAtNode, SMT DEF Inserting
  <2> QED
    BY <2>1, <2>2
<1>7. Effect(l, expect) = [expect EXCEPT ![l.arg] = l.v]
  BY <1>2, <1>4, EffectType
<1>8. U = Effect(l, expect) /\ (l.isNew => l.shard = 1)
  <2>1. CASE l.shard = 1
    <3>1. T = expect
      BY <1>1, <1>2, <2>1 DEF Effects, Before
    <3> QED
      BY <1>5, <1>7, <2>1, <3>1
  <2>2. CASE l.shard # 1
    <3>1. T = [expect EXCEPT ![l.arg] = l.v]
      BY <1>1, <1>2, <1>7, <2>2 DEF Effects, Before
    <3>2. T[l.arg] = l.v /\ U = T
      BY <1>2, <1>4, <1>5, <3>1 DEF Tables
    <3> QED
      BY <1>4, <1>6, <1>7, <3>1, <3>2
  <2> QED
    BY <2>1, <2>2
<1>9. size[1] = Cardinality(Present(T))
  BY <1>1, <1>2 DEF Sizes, Before
<1>10. /\ T[l.arg] = Nil => Cardinality(Present(U)) = Cardinality(Present(T)) + 1
       /\ T[l.arg] # Nil => Cardinality(Present(U)) = Cardinality(Present(T))
  <2>1. IsFiniteSet(Present(T))
    BY <1>2, FewRoutes DEF SoleReady
  <2>2. T \in Tables
    BY <1>2
  <2>3. U \in Tables /\ U[l.arg] # Nil /\ \A q \in Prefixes : q # l.arg => U[q] = T[q]
    BY <1>4, <1>5, <2>2 DEF Tables
  <2> QED
    BY <1>4, <2>1, <2>2, <2>3, <1>CountInserted
<1>11. CASE l.isNew
  <2>1. /\ th' = [th EXCEPT ![t] = [th[t] EXCEPT !.pc = "count"]]
        /\ expect' = expect /\ "count" \in Pcs
    BY <1>11 DEF SetMetadata, Goto, Pcs, Inserting
  <2> PICK k : k = th'[t]
    OBVIOUS
  <2>2. /\ k.pc = "count" /\ k.op = l.op /\ k.arg = l.arg
        /\ k.v = l.v /\ k.node = l.node /\ k.shard = l.shard
    BY <1>2, <2>1, PcMoves
  <2>3. Lone(node', A, k)
    BY <1>2, <2>2 DEF Lone
  <2>4. Effects(k, U, expect)
    <3>1. Effect(k, expect) = Effect(l, expect)
      BY <2>2 DEF Effect
    <3> QED
      BY <1>8, <2>2, <3>1 DEF Effects, Before
  <2>5. Sizes(k, U, size[1])
    BY <1>6, <1>8, <1>9, <1>10, <1>11, <2>2 DEF Sizes, Before
  <2>6. Sole(node', A, k, expect, size[1])
    BY <1>2, <2>3, <2>4, <2>5 DEF Sole
  <2> QED
    BY <1>1, <1>3, <1>4, <1>5, <2>1, <2>6 DEF SoleStep
<1>12. CASE ~l.isNew
  <2>1. NextShard(t)
    BY <1>12 DEF SetMetadata
  <2>2. size[1] = Cardinality(Present(U))
    BY <1>6, <1>9, <1>10, <1>12
  <2>3. Sole(node', A, th'[t], expect', size[1])
    BY <1>2, <1>8, <2>1, <2>2, SoleNextShard
  <2> QED
    BY <1>1, <1>3, <1>4, <1>5, <2>3 DEF SoleStep
<1> QED
  BY <1>11, <1>12

\* Remove takes the metadata: the step at which it takes effect.
LEMMA SoleClearMetadata ==
    ASSUME NEW P, NEW A, NEW t, SoleReady(P, A, t), ClearMetadata(t)
    PROVE  /\ SoleStep(P, A, t) /\ th[t].arg \in Prefixes
           /\ Full(node') = [Full(node) EXCEPT ![th[t].arg] = Nil]
\* One route less.
<1>CountRemoved.
      ASSUME NEW T \in Tables, IsFiniteSet(Present(T)), NEW p \in Prefixes, NEW U \in Tables,
             U[p] = Nil, T[p] # Nil, \A q \in Prefixes : q # p => U[q] = T[q]
      PROVE  Cardinality(Present(T)) = Cardinality(Present(U)) + 1
  <2> USE <1>CountRemoved
  <2>1. Present(T) = Present(U) \cup {p} /\ p \notin Present(U) /\ Present(U) \in SUBSET Present(T)
    BY SMT DEF Present
  <2>2. IsFiniteSet(Present(U))
    BY <2>1 DEF SoleReady, Counting
  <2>3. Cardinality(Present(U) \cup {p}) = Cardinality(Present(U)) + 1
    BY <2>1, <2>2 DEF SoleReady, Counting
  <2> QED
    BY <2>1, <2>3
<1> PICK l : l = th[t]
  OBVIOUS
<1>1. /\ l.pc = "clear_metadata" /\ size' = size /\ expect' = expect /\ Ready(P, A, t)
      /\ th' = [th EXCEPT ![t] = [th[t] EXCEPT !.pc = "uncount"]] /\ ~SetMetadata(t)
  BY DEF ClearMetadata, SetMetadata, SetField, Goto, SoleReady
<1>2. /\ t \in Threads /\ th \in [Threads -> Locals] /\ l \in Locals /\ Shape(node, alloc, P, A)
      /\ Lone(node, A, l) /\ Walking(node, alloc, P, l) /\ l.node \in A
      /\ expect \in Tables /\ size[1] \in 0..(SizeMod - 1) /\ Full(node) \in Tables
      /\ Effects(l, Full(node), expect) /\ Sizes(l, Full(node), size[1])
  BY <1>1, SoleAt DEF Removing
<1>3. NextA(P, A, t) = A
  BY <1>1 DEF NextA
<1>4. l.op = "remove" /\ l.arg \in Prefixes
  BY <1>1, <1>2 DEF Walking, Inserting
<1> PICK T : T = Full(node)
  OBVIOUS
<1> PICK U : U = Full(node')
  OBVIOUS
<1>5. U = [T EXCEPT ![l.arg] = Nil]
  <2>1. U \in Tables
    <3>1. StepOK(P, A, t)
      BY <1>1, SetMetaStep
    <3> QED
      BY <3>1, TableType DEF StepOK, Tables
  <2>2. \A q \in Prefixes : U[q] = IF q = l.arg THEN Nil ELSE T[q]
    <3>1. MetaAt(P, A, t, l, U)
      BY <1>1, <1>2, <1>4, SetMetaAt
    <3>2. l.pc # "set_metadata"
      BY <1>1
    <3> QED
      BY <3>1, <3>2 DEF MetaAt
  <2> QED
    BY <1>2, <2>1, <2>2 DEF Tables
<1>6. T[l.arg] # Nil
  <2>1. node[l.node].meta # Nil
    BY <1>1, <1>2 DEF Lone
  <2>2. node[l.node].meta = Nil <=> Full(node)[l.arg] = Nil
    BY <1>1, <1>2, ArgAtNode, SMT DEF Removing
  <2> QED
    BY <2>1, <2>2
<1>7. Effect(l, expect) = [expect EXCEPT ![l.arg] = Nil]
  BY <1>2, <1>4, EffectType
<1>8. U = Effect(l, expect) /\ l.shard = 1
  <2>1. CASE l.shard = 1
    <3>1. T = expect
      BY <1>1, <1>2, <2>1 DEF Effects, Before
    <3> QED
      BY <1>5, <1>7, <2>1, <3>1
  <2>2. CASE l.shard # 1
    <3>1. T = [expect EXCEPT ![l.arg] = Nil]
      BY <1>1, <1>2, <1>7, <2>2 DEF Effects, Before
    <3>2. T[l.arg] = Nil
      BY <1>2, <1>4, <3>1 DEF Tables
    <3> QED
      BY <1>6, <3>2
  <2> QED
    BY <2>1, <2>2
<1>9. size[1] = Cardinality(Present(T))
  BY <1>1, <1>2 DEF Sizes, Before
<1>10. Cardinality(Present(T)) = Cardinality(Present(U)) + 1
  <2>1. IsFiniteSet(Present(T))
    BY <1>2, FewRoutes DEF SoleReady
  <2>2. T \in Tables
    BY <1>2
  <2>3. U \in Tables /\ U[l.arg] = Nil /\ \A q \in Prefixes : q # l.arg => U[q] = T[q]
    BY <1>4, <1>5, <2>2 DEF Tables
  <2> QED
    BY <1>4, <1>6, <2>1, <2>2, <2>3, <1>CountRemoved
<1>11. "uncount" \in Pcs
  BY DEF Pcs, Removing
<1> PICK k : k = th'[t]
  OBVIOUS
<1>12. /\ k.pc = "uncount" /\ k.op = l.op /\ k.arg = l.arg
       /\ k.v = l.v /\ k.node = l.node /\ k.shard = l.shard
  BY <1>1, <1>2, <1>11, PcMoves
<1>13. Lone(node', A, k)
  BY <1>2, <1>12 DEF Lone
<1>14. Effects(k, U, expect)
  <2>1. Effect(k, expect) = Effect(l, expect)
    BY <1>12 DEF Effect
  <2> QED
    BY <1>8, <1>12, <2>1 DEF Effects, Before
<1>15. Sizes(k, U, size[1])
  BY <1>8, <1>9, <1>10, <1>12 DEF Sizes, Before
<1>16. Sole(node', A, k, expect, size[1])
  BY <1>2, <1>13, <1>14, <1>15 DEF Sole
<1> QED
  BY <1>1, <1>3, <1>4, <1>5, <1>16 DEF SoleStep

\* Clear drops the left child: the step at which it takes effect, for the
\* refinement.
LEMMA SoleSetLeftNone ==
    ASSUME NEW P, NEW A, NEW t, SoleReady(P, A, t), SetLeftNone(t)
    PROVE  /\ SoleStep(P, A, t) /\ Left(node') = EmptyTable /\ th'[t].pc = "set_right_none"
<1> PICK l : l = th[t]
  OBVIOUS
<1>1. l.pc = "set_left_none" /\ size' = size /\ expect' = expect /\ Ready(P, A, t)
  BY DEF SetLeftNone, SetChild, SetField, Goto, SoleReady
<1>2. /\ expect \in Tables /\ size[1] \in 0..(SizeMod - 1) /\ Clears(l)
      /\ Effects(l, Full(node), expect) /\ Sizes(l, Full(node), size[1])
  BY <1>1, SoleAt DEF Erasing
<1> PICK k : k = th'[t]
  OBVIOUS
<1>3. /\ StepOK(P, A, t) /\ node'[Root].child[0] = Nil
      /\ k.op = l.op /\ k.shard = l.shard /\ k.pc = "set_right_none"
  BY <1>1, ClearStep
<1>4. Left(node') = EmptyTable
  <2>1. Shape(node', alloc', NextP(P, t), NextA(P, A, t)) /\ "clear" \in Ops
    BY <1>2, <1>3 DEF StepOK, Clears
  <2> QED
    BY <1>3, <2>1, NothingLeft
<1>5. Lone(node', NextA(P, A, t), k)
  BY <1>3 DEF Lone, Inserting, Removing
<1>6. Effects(k, Full(node'), expect)
  BY <1>3 DEF Effects, Before, Done
<1>7. Sizes(k, Full(node'), size[1])
  <2>1. ASSUME l.shard # 1 PROVE size[1] = 0
    <3>1. Full(node) = Effect(l, expect)
      BY <1>1, <1>2, <2>1 DEF Effects, Before
    <3>2. Effect(l, expect) = EmptyTable
      BY <1>2, EffectType DEF Clears
    <3>3. size[1] = Cardinality(Present(Full(node)))
      BY <1>1, <1>2 DEF Sizes, Before
    <3> QED
      BY <3>1, <3>2, <3>3, NoRoutes DEF SoleReady
  <2> QED
    BY <1>3, <2>1 DEF Sizes, Before
<1>8. Sole(node', NextA(P, A, t), k, expect, size[1])
  BY <1>2, <1>5, <1>6, <1>7 DEF Sole
<1> QED
  BY <1>1, <1>3, <1>4, <1>8 DEF SoleStep

\* Clear drops the right child and the tree is empty.
LEMMA SoleSetRightNone ==
    ASSUME NEW P, NEW A, NEW t, SoleReady(P, A, t), SetRightNone(t)
    PROVE  /\ SoleStep(P, A, t) /\ Left(node) = EmptyTable /\ Full(node') = EmptyTable
           /\ th'[t].pc = "store_zero"
<1> PICK l : l = th[t]
  OBVIOUS
<1>1. /\ l.pc = "set_right_none" /\ size' = size /\ expect' = expect /\ Ready(P, A, t)
      /\ ~SetLeftNone(t)
  BY DEF SetLeftNone, SetRightNone, SetChild, SetField, Goto, SoleReady
<1>2. /\ expect \in Tables /\ size[1] \in 0..(SizeMod - 1) /\ Clears(l)
      /\ Sizes(l, Full(node), size[1]) /\ Lone(node, A, l) /\ Shape(node, alloc, P, A)
  BY <1>1, SoleAt DEF Erasing
<1> PICK k : k = th'[t]
  OBVIOUS
<1>3. /\ Full(node') = Left(node)
      /\ k.op = l.op /\ k.shard = l.shard /\ k.pc = "store_zero"
  BY <1>1, ClearStep, SMT
<1>4. Left(node) = EmptyTable
  <2>1. node[Root].child[0] = Nil /\ "clear" \in Ops
    BY <1>1, <1>2 DEF Lone, Clears
  <2> QED
    BY <1>2, <2>1, NothingLeft
<1>5. Lone(node', NextA(P, A, t), k)
  BY <1>3 DEF Lone, Inserting, Removing
<1>6. Effect(k, expect) = EmptyTable
  BY <1>2, <1>3 DEF Effect, Clears
<1>7. Effects(k, Full(node'), expect)
  BY <1>3, <1>4, <1>6 DEF Effects, Before
<1>8. Sizes(k, Full(node'), size[1])
  BY <1>1, <1>2, <1>3 DEF Sizes, Before
<1>9. Sole(node', NextA(P, A, t), k, expect, size[1])
  BY <1>2, <1>5, <1>7, <1>8 DEF Sole
<1> QED
  BY <1>1, <1>3, <1>4, <1>9 DEF SoleStep

\* Every step of the only writer keeps what it relies on.
LEMMA SoleWrite ==
    ASSUME NEW P, NEW A, NEW t, SoleReady(P, A, t), Write(t),
           size \in [Shards -> 0..(SizeMod - 1)]
    PROVE  SoleStep(P, A, t)
\* The writer calls insert, remove or clear.
<1>SoleCall.
      ASSUME CallInsert(t) \/ CallRemove(t) \/ CallClear(t)
      PROVE  SoleStep(P, A, t)
  <2> USE <1>SoleCall
  <2>0. /\ t \in Threads /\ th \in [Threads -> Locals] /\ Shape(node, alloc, P, A) /\ Root \in A
        /\ Sole(node, A, th[t], expect, size[1])
    BY ShapeTypes DEF SoleReady, Ready
  <2>1. th[t] = Idle /\ node' = node /\ size' = size /\ expect' = expect
    BY DEF CallInsert, CallRemove, CallClear, Local, Goto
  <2>2. Idle.pc = "idle" /\ Idle.shard = 1
    BY DEF Idle
  <2>3. NextA(P, A, t) = A
    BY <2>1, <2>2 DEF NextA
  <2>4. th'[t].pc \in {"walk", "is_new", "take", "set_left_none"} /\ th'[t].node = Root
        /\ th'[t].shard = 1
    <3>1. ASSUME NEW k, th' = [th EXCEPT ![t] = k] PROVE th'[t] = k
      BY <2>0, <3>1
    <3>2. CASE CallInsert(t)
      <4>1. PICK p \in Prefixes, v \in Vals :
               th'[t] = [Idle EXCEPT !.op = "insert", !.arg = p, !.v = v,
                                     !.node = Root, !.pc = At("insert", p, 0)]
        BY <3>1, <3>2 DEF CallInsert, Local, Goto
      <4>2. At("insert", p, 0) \in {"walk", "is_new", "take"}
        BY AtPcs
      <4> QED
        BY <4>1, <4>2, SMT DEF Idle
    <3>3. CASE CallRemove(t)
      <4>1. PICK p \in Prefixes :
               th'[t] = [Idle EXCEPT !.op = "remove", !.arg = p,
                                     !.node = Root, !.pc = At("remove", p, 0)]
        BY <3>1, <3>3 DEF CallRemove, Local, Goto
      <4>2. At("remove", p, 0) \in {"walk", "is_new", "take"}
        BY AtPcs
      <4> QED
        BY <4>1, <4>2 DEF Idle
    <3>4. CASE CallClear(t)
      <4>1. th'[t] = [Idle EXCEPT !.op = "clear", !.node = Root, !.pc = "set_left_none"]
        BY <3>1, <3>4 DEF CallClear, Goto
      <4> QED
        BY <4>1 DEF Idle
    <3> QED
      BY <3>2, <3>3, <3>4
  <2>5. Lone(node, A, th'[t]) /\ th'[t].pc \in Before
    BY <2>0, <2>4 DEF Lone, Before
  <2>6. th[t].pc = "idle"
    BY <2>1, <2>2
  <2>7. Sole(node, A, th'[t], expect, size[1])
    BY <2>0, <2>4, <2>5, <2>6, SoleMoves
  <2> QED
    BY <2>1, <2>3, <2>7 DEF SoleStep
\* Insert and remove go down to a child.
<1>SoleDescend.
      ASSUME Descend(t)
      PROVE  SoleStep(P, A, t)
  <2> USE <1>SoleDescend
  <2> PICK l : l = th[t]
    OBVIOUS
  <2>1. /\ l.pc = "walk" /\ node' = node /\ size' = size /\ expect' = expect
        /\ NextNode(t) # Nil
    BY DEF Descend, Local, Goto
  <2>2. /\ t \in Threads /\ th \in [Threads -> Locals] /\ l \in Locals /\ Shape(node, alloc, P, A)
        /\ Sole(node, A, l, expect, size[1]) /\ Walking(node, alloc, P, l) /\ l.node \in A
    BY <2>1, SoleAt
  <2>3. l.depth < Len(l.arg.bits)
    BY <2>1, <2>2 DEF Walking, Inserting, Removing
  <2>4. PICK side \in {0, 1} : side = GetBit(l.arg, l.depth)
    BY <2>2, <2>3, NextPlace
  <2>5. NextNode(t) = Kids(node)[l.node][side]
    <3>1. l.node \in Nodes
      BY <2>2, ShapeTypes
    <3> QED
      BY <2>4, <3>1 DEF NextNode, Kids
  <2>6. NextNode(t) \in A
    <3>1. Kids(node)[l.node][side] # Nil
      BY <2>5 DEF Descend
    <3>2. Tree(Kids(node), P, A)
      BY <2>2 DEF Shape
    <3>3. Kids(node)[l.node][side] \in A
      BY <2>2, <3>1, <3>2 DEF Tree
    <3> QED
      BY <2>5, <3>3
  <2>7. /\ th'[t].node = NextNode(t) /\ th'[t].op = l.op /\ th'[t].arg = l.arg /\ th'[t].v = l.v
        /\ th'[t].shard = l.shard /\ th'[t].pc \in {"walk", "is_new", "take"}
    <3>1. PICK c, d, m :
             /\ th' = [th EXCEPT ![t] = [l EXCEPT !.node = m, !.depth = d, !.pc = c]] /\ m = NextNode(t)
             /\ c = At(l.op, l.arg, l.depth + 1)
      BY DEF Descend, Local, Goto
    <3> PICK k : k = [l EXCEPT !.node = m, !.depth = d, !.pc = c]
      OBVIOUS
    <3>2. /\ k.node = m /\ k.op = l.op /\ k.arg = l.arg /\ k.v = l.v
          /\ k.shard = l.shard /\ k.pc = c
      BY <2>2 DEF Locals
    <3>3. th'[t] = k
      BY <2>2, <3>1
    <3>4. c \in {"walk", "is_new", "take"}
      BY <3>1, AtPcs
    <3> QED
      BY <3>1, <3>2, <3>3, <3>4
  <2>8. Lone(node, A, th'[t]) /\ th'[t].pc \in Before /\ l.pc \in Before
    BY <2>1, <2>6, <2>7 DEF Lone, Before
  <2>9. Sole(node, A, th'[t], expect, size[1])
    BY <2>2, <2>7, <2>8, SoleMoves
  <2>10. NextA(P, A, t) = A
    BY <2>1 DEF NextA
  <2> QED
    BY <2>1, <2>9, <2>10 DEF SoleStep
\* A child is missing: insert goes on to link one, and remove goes on to the next
\* shard, the route being absent.
<1>SoleMiss.
      ASSUME MissInsert(t) \/ MissRemove(t)
      PROVE  SoleStep(P, A, t)
  <2> USE <1>SoleMiss
  \* A child that is missing on the walk: the route is not in the table.
  <2>ArgMissing.
        ASSUME NEW nd, NEW al, NEW Q, NEW B, Shape(nd, al, Q, B), NEW l, Walking(nd, al, Q, l),
               l.node \in B, l.depth < Len(l.arg.bits),
               nd[l.node].child[GetBit(l.arg, l.depth)] = Nil
        PROVE  Full(nd)[l.arg] = Nil
    <3> USE <2>ArgMissing
    <3> SUFFICES ASSUME Full(nd)[l.arg] # Nil PROVE FALSE
      OBVIOUS
    <3>1. Shows(nd, Q, B, Full(nd)) /\ l.arg \in Prefixes
      BY TableShown DEF Walking
    <3>2. PICK n \in B : Q[n] = l.arg.bits
      BY <3>1 DEF Shows
    <3>3. PICK side \in {0, 1} :
             /\ side = GetBit(l.arg, l.depth) /\ Under(l.arg.bits, Append(Q[l.node], side))
      BY NextPlace
    <3>4. /\ Kids(nd) \in Pointers /\ Q \in Places /\ B \in SUBSET Nodes
          /\ \A x \in Nodes : Kids(nd)[x] = nd[x].child
      BY ShapeTypes, KidsPointers
    <3>5. Tree(Kids(nd), Q, B)
      BY DEF Shape
    <3>6. Kids(nd)[l.node][side] = Nil
      BY <3>3, <3>4
    <3>7. ~Under(Q[n], Append(Q[l.node], side))
      BY <3>4, <3>5, <3>6, NoneUnder
    <3> QED
      BY <3>2, <3>3, <3>7
  <2> PICK l : l = th[t]
    OBVIOUS
  <2>1. l.pc = "walk" /\ node' = node /\ size' = size /\ NextNode(t) = Nil
    BY DEF MissInsert, MissRemove, Local, Goto, Quiet
  <2>2. /\ t \in Threads /\ th \in [Threads -> Locals] /\ l \in Locals /\ Shape(node, alloc, P, A)
        /\ Sole(node, A, l, expect, size[1]) /\ Walking(node, alloc, P, l) /\ l.node \in A
        /\ expect \in Tables /\ size[1] \in 0..(SizeMod - 1) /\ Full(node) \in Tables /\ Root \in A
        /\ Effects(l, Full(node), expect) /\ Sizes(l, Full(node), size[1])
    BY <2>1, SoleAt
  <2>3. NextA(P, A, t) = A /\ node[l.node].child[GetBit(l.arg, l.depth)] = Nil
    BY <2>1 DEF NextA, NextNode
  <2>4. CASE MissInsert(t)
    <3>1. th' = [th EXCEPT ![t] = [th[t] EXCEPT !.pc = "link"]] /\ expect' = expect /\ "link" \in Pcs
      BY <2>4 DEF MissInsert, Local, Goto, Pcs
    <3>2. /\ th'[t].pc = "link" /\ th'[t].op = l.op /\ th'[t].arg = l.arg /\ th'[t].v = l.v
          /\ th'[t].node = l.node /\ th'[t].depth = l.depth /\ th'[t].shard = l.shard
      BY <2>2, <3>1, PcMoves
    <3>3. Lone(node, A, th'[t]) /\ th'[t].pc \in Before /\ l.pc \in Before
      BY <2>1, <2>2, <2>3, <3>2 DEF Lone, Before
    <3>4. Sole(node, A, th'[t], expect, size[1])
      BY <2>2, <3>2, <3>3, SoleMoves
    <3> QED
      BY <2>1, <2>3, <3>1, <3>4 DEF SoleStep
  <2>5. CASE MissRemove(t)
    <3>1. NextShard(t) /\ l.op = "remove"
      BY <2>5 DEF MissRemove
    <3>2. l.depth < Len(l.arg.bits) /\ l.arg \in Prefixes
      BY <2>1, <2>2 DEF Walking, Inserting, Removing
    <3>3. Full(node)[l.arg] = Nil
      BY <2>2, <2>3, <3>2, <2>ArgMissing, SMT
    <3>4. Full(node) = Effect(l, expect)
      <4>1. Effect(l, expect) = [expect EXCEPT ![l.arg] = Nil]
        BY <2>2, <3>1, EffectType
      <4>2. CASE l.shard = 1
        <5>1. Full(node) = expect
          BY <2>1, <2>2, <4>2 DEF Effects, Before
        <5> QED
          BY <2>2, <3>2, <3>3, <4>1, <5>1 DEF Tables
      <4>3. CASE l.shard # 1
        BY <2>1, <2>2, <4>3 DEF Effects, Before
      <4> QED
        BY <4>2, <4>3
    <3>5. size[1] = Cardinality(Present(Full(node)))
      BY <2>1, <2>2 DEF Sizes, Before
    <3>6. Sole(node, A, th'[t], expect', size[1])
      BY <2>2, <3>1, <3>4, <3>5, SoleNextShard
    <3> QED
      BY <2>1, <2>3, <3>6 DEF SoleStep
  <2> QED
    BY <2>4, <2>5
\* The writer links a node where it saw none, which is still so.
<1>SoleLink.
      ASSUME Link(t)
      PROVE  SoleStep(P, A, t)
  <2> USE <1>SoleLink
  <2> PICK l : l = th[t]
    OBVIOUS
  <2>1. l.pc = "link" /\ size' = size /\ expect' = expect /\ Ready(P, A, t)
    BY DEF Link, Goto, SoleReady
  <2>2. /\ l.node \in A /\ Sole(node, A, l, expect, size[1]) /\ Lone(node, A, l)
    BY <2>1, SoleAt
  <2>3. NextNode(t) = Nil
    BY <2>1, <2>2 DEF Lone, NextNode
  <2>4. /\ Full(node') = Full(node) /\ NextA(P, A, t) = A \cup {alloc + 1}
        /\ th'[t].op = l.op /\ th'[t].arg = l.arg /\ th'[t].v = l.v
        /\ th'[t].shard = l.shard /\ th'[t].node = alloc + 1 /\ th'[t].pc \in {"walk", "is_new"}
    BY <2>1, <2>2, <2>3, LinkStep, SMT
  <2>5. Lone(node', NextA(P, A, t), th'[t]) /\ th'[t].pc \in Before /\ l.pc \in Before
    BY <2>1, <2>4 DEF Lone, Before
  <2>6. Sole(node', NextA(P, A, t), th'[t], expect, size[1])
    BY <2>2, <2>4, <2>5, SoleMoves
  <2> QED
    BY <2>1, <2>6 DEF SoleStep
\* Insert reads whether the node has metadata.
<1>SoleIsNew.
      ASSUME IsNew(t)
      PROVE  SoleStep(P, A, t)
  <2> USE <1>SoleIsNew
  <2> PICK l : l = th[t]
    OBVIOUS
  <2>1. l.pc = "is_new" /\ node' = node /\ size' = size /\ expect' = expect
    BY DEF IsNew, Local, Goto
  <2>2. /\ t \in Threads /\ th \in [Threads -> Locals] /\ l \in Locals
        /\ Sole(node, A, l, expect, size[1]) /\ l.node \in A
    BY <2>1, SoleAt DEF Inserting
  <2>3. /\ th'[t].node = l.node /\ th'[t].op = l.op /\ th'[t].arg = l.arg /\ th'[t].v = l.v
        /\ th'[t].shard = l.shard /\ th'[t].pc = "set_prefix"
        /\ th'[t].isNew <=> node[l.node].meta = Nil
    <3>1. PICK new \in BOOLEAN : /\ th' = [th EXCEPT ![t] = [l EXCEPT !.isNew = new, !.pc = "set_prefix"]]
                                 /\ new <=> node[l.node].meta = Nil
      BY DEF IsNew, Local, Goto
    <3> PICK k : k = [l EXCEPT !.isNew = new, !.pc = "set_prefix"]
      OBVIOUS
    <3>2. /\ k.node = l.node /\ k.op = l.op /\ k.arg = l.arg /\ k.v = l.v
          /\ k.shard = l.shard /\ k.pc = "set_prefix" /\ k.isNew = new
      BY <2>2 DEF Locals
    <3>3. th'[t] = k
      BY <2>2, <3>1
    <3> QED
      BY <3>1, <3>2, <3>3
  <2>4. Lone(node, A, th'[t])
    BY <2>2, <2>3 DEF Lone
  <2>5. th'[t].pc \in Before /\ l.pc \in Before
    BY <2>1, <2>3 DEF Before
  <2>6. Sole(node, A, th'[t], expect, size[1])
    BY <2>2, <2>3, <2>4, <2>5, SoleMoves
  <2>7. NextA(P, A, t) = A
    BY <2>1 DEF NextA
  <2> QED
    BY <2>1, <2>6, <2>7 DEF SoleStep
\* Insert stores the prefix.
<1>SoleSetPrefix.
      ASSUME SetPrefix(t)
      PROVE  SoleStep(P, A, t)
  <2> USE <1>SoleSetPrefix
  <2> PICK l : l = th[t]
    OBVIOUS
  <2>1. /\ l.pc = "set_prefix" /\ size' = size /\ expect' = expect /\ Ready(P, A, t)
        /\ th' = [th EXCEPT ![t] = [th[t] EXCEPT !.pc = "set_metadata"]]
    BY DEF SetPrefix, SetField, Goto, SoleReady
  <2>2. /\ t \in Threads /\ th \in [Threads -> Locals] /\ l \in Locals /\ l.node \in A
        /\ Sole(node, A, l, expect, size[1]) /\ Lone(node, A, l) /\ Shape(node, alloc, P, A)
    BY <2>1, SoleAt DEF Inserting
  <2>3. /\ Full(node') = Full(node) /\ NextA(P, A, t) = A
        /\ \A n \in Nodes : node'[n].meta = node[n].meta
    BY <2>1, SetPrefixStep
  <2>4. "set_metadata" \in Pcs /\ l.node \in Nodes
    BY <2>2, ShapeTypes DEF Pcs, Inserting
  <2>5. /\ th'[t].pc = "set_metadata" /\ th'[t].op = l.op /\ th'[t].arg = l.arg
        /\ th'[t].v = l.v /\ th'[t].node = l.node /\ th'[t].shard = l.shard
        /\ th'[t].isNew = l.isNew
    BY <2>1, <2>2, <2>4, PcMoves, SMT
  <2>6. l.isNew <=> node[l.node].meta = Nil
    BY <2>1, <2>2 DEF Lone
  <2>7. Lone(node', A, th'[t])
    BY <2>2, <2>3, <2>4, <2>5, <2>6 DEF Lone
  <2>8. th'[t].pc \in Before /\ l.pc \in Before
    BY <2>1, <2>5 DEF Before
  <2>9. Sole(node', A, th'[t], expect, size[1])
    BY <2>2, <2>3, <2>5, <2>7, <2>8, SoleMoves, SMT
  <2> QED
    BY <2>1, <2>3, <2>9 DEF SoleStep
\* Remove reads whether there is metadata to take.
<1>SoleTake.
      ASSUME Take(t)
      PROVE  SoleStep(P, A, t)
  <2> USE <1>SoleTake
  <2> PICK l : l = th[t]
    OBVIOUS
  <2>1. l.pc = "take" /\ node' = node /\ size' = size
    BY DEF Take, Quiet
  <2>2. /\ t \in Threads /\ th \in [Threads -> Locals] /\ l \in Locals /\ Shape(node, alloc, P, A)
        /\ Sole(node, A, l, expect, size[1]) /\ Walking(node, alloc, P, l) /\ l.node \in A
        /\ expect \in Tables /\ size[1] \in 0..(SizeMod - 1) /\ Full(node) \in Tables /\ Root \in A
        /\ Effects(l, Full(node), expect) /\ Sizes(l, Full(node), size[1])
    BY <2>1, SoleAt DEF Removing
  <2>3. NextA(P, A, t) = A
    BY <2>1 DEF NextA
  <2>4. CASE node[l.node].meta # Nil
    <3>1. /\ th' = [th EXCEPT ![t] = [th[t] EXCEPT !.pc = "clear_metadata"]]
          /\ expect' = expect /\ "clear_metadata" \in Pcs
      BY <2>4 DEF Take, Goto, Pcs, Removing
    <3>2. /\ th'[t].pc = "clear_metadata" /\ th'[t].op = l.op /\ th'[t].arg = l.arg
          /\ th'[t].v = l.v /\ th'[t].node = l.node /\ th'[t].shard = l.shard
      BY <2>2, <3>1, PcMoves
    <3>3. Lone(node, A, th'[t]) /\ th'[t].pc \in Before /\ l.pc \in Before
      BY <2>1, <2>2, <2>4, <3>2 DEF Lone, Before
    <3>4. Sole(node, A, th'[t], expect, size[1])
      BY <2>2, <3>2, <3>3, SoleMoves
    <3> QED
      BY <2>1, <2>3, <3>1, <3>4 DEF SoleStep
  <2>5. CASE node[l.node].meta = Nil
    <3>1. NextShard(t) /\ l.op = "remove" /\ l.arg \in Prefixes
      BY <2>1, <2>2, <2>5 DEF Take, Walking, Inserting
    <3>3. Full(node)[l.arg] = Nil
      BY <2>1, <2>2, <2>5, ArgAtNode, SMT DEF Removing
    <3>4. Full(node) = Effect(l, expect)
      <4>1. Effect(l, expect) = [expect EXCEPT ![l.arg] = Nil]
        BY <2>2, <3>1, EffectType
      <4>2. CASE l.shard = 1
        <5>1. Full(node) = expect
          BY <2>1, <2>2, <4>2 DEF Effects, Before
        <5> QED
          BY <2>2, <3>1, <3>3, <4>1, <5>1 DEF Tables
      <4>3. CASE l.shard # 1
        BY <2>1, <2>2, <4>3 DEF Effects, Before
      <4> QED
        BY <4>2, <4>3
    <3>5. size[1] = Cardinality(Present(Full(node)))
      BY <2>1, <2>2 DEF Sizes, Before
    <3>6. Sole(node, A, th'[t], expect', size[1])
      BY <2>2, <3>1, <3>4, <3>5, SoleNextShard
    <3> QED
      BY <2>1, <2>3, <3>6 DEF SoleStep
  <2> QED
    BY <2>4, <2>5
\* Insert and remove count what they did.
<1>SoleCount.
      ASSUME Count(t) \/ Uncount(t)
      PROVE  SoleStep(P, A, t)
  <2> USE <1>SoleCount
  <2> PICK l : l = th[t]
    OBVIOUS
  <2>1. l.pc \in {"count", "uncount"} /\ node' = node /\ NextShard(t)
    BY DEF Count, Uncount, SetSize
  <2>2. /\ t \in Threads /\ th \in [Threads -> Locals] /\ l \in Locals /\ Shape(node, alloc, P, A)
        /\ Walking(node, alloc, P, l)
        /\ expect \in Tables /\ size[1] \in 0..(SizeMod - 1) /\ Root \in A
        /\ Effects(l, Full(node), expect) /\ Sizes(l, Full(node), size[1])
    BY <2>1, SoleAt DEF Inserting, Removing
  <2>3. NextA(P, A, t) = A
    BY <2>1 DEF NextA
  <2>4. Full(node) = Effect(l, expect)
    BY <2>1, <2>2 DEF Effects, Done
  <2> PICK C : C = Cardinality(Present(Full(node)))
    OBVIOUS
  <2>5. C \in Nat /\ C < SizeMod /\ SizeMod \in Nat
    BY <2>2, FewRoutes, Constants DEF SoleReady
  <2>6. 1 \in Shards
    BY Constants, SMT DEF Shards
  <2>7. size'[1] = C
    <3>1. ASSUME NEW x, SetSize(1, x), x = C PROVE size'[1] = C
      <4>1. C % SizeMod = C
        BY <2>5, SMT
      <4> QED
        BY <2>6, <3>1, <4>1 DEF SetSize
    <3>2. CASE Count(t)
      <4>1. SetSize(l.shard, size[l.shard] + 1) /\ l.pc = "count"
        BY <3>2 DEF Count
      <4>2. l.shard = 1 /\ size[1] + 1 = C
        BY <2>2, <4>1 DEF Sizes
      <4> QED
        BY <3>1, <4>1, <4>2
    <3>3. CASE Uncount(t)
      <4>1. SetSize(l.shard, size[l.shard] - 1) /\ l.pc = "uncount"
        BY <3>3 DEF Uncount
      <4>2. l.shard = 1 /\ size[1] = C + 1
        BY <2>2, <4>1 DEF Sizes
      <4>3. size[1] - 1 = C
        BY <2>5, <4>2, SMT
      <4> QED
        BY <3>1, <4>1, <4>2, <4>3
    <3> QED
      BY <3>2, <3>3
  <2>8. C \in 0..(SizeMod - 1)
    BY <2>5, SMT
  <2>9. Sole(node, A, th'[t], expect', C)
    BY <2>1, <2>2, <2>4, <2>8, SoleNextShard
  <2> QED
    BY <2>1, <2>3, <2>7, <2>9 DEF SoleStep
\* Clear sets the size to 0.
<1>SoleStoreZero.
      ASSUME StoreZero(t)
      PROVE  SoleStep(P, A, t)
  <2> USE <1>SoleStoreZero
  <2> PICK l : l = th[t]
    OBVIOUS
  <2>1. /\ l.pc = "store_zero" /\ node' = node /\ NextShard(t) /\ SetSize(l.shard, 0)
    BY DEF StoreZero, SetSize
  <2>2. /\ t \in Threads /\ th \in [Threads -> Locals] /\ l \in Locals /\ Root \in A
        /\ expect \in Tables /\ size[1] \in 0..(SizeMod - 1) /\ Clears(l)
        /\ Effects(l, Full(node), expect) /\ Sizes(l, Full(node), size[1])
    BY <2>1, SoleAt DEF Erasing
  <2>3. NextA(P, A, t) = A
    BY <2>1 DEF NextA
  <2>4. Full(node) = Effect(l, expect)
    BY <2>1, <2>2 DEF Effects, Done
  <2>5. Cardinality(Present(Full(node))) = 0
    <3>1. Effect(l, expect) = EmptyTable
      BY <2>2, EffectType DEF Clears
    <3> QED
      BY <2>4, <3>1, NoRoutes DEF SoleReady
  <2>6. 1 \in Shards /\ l.shard \in Shards /\ 0 % SizeMod = 0 /\ 0 \in 0..(SizeMod - 1)
    BY <2>2, Constants, SMT DEF Shards, Locals
  <2>7. size'[1] = 0
    <3>1. l.shard # 1 => size[1] = 0
      BY <2>1, <2>2 DEF Sizes
    <3> QED
      BY <2>1, <2>6, <3>1 DEF SetSize
  <2>8. Sole(node, A, th'[t], expect', 0)
    BY <2>1, <2>2, <2>4, <2>5, <2>6, SoleNextShard
  <2> QED
    BY <2>1, <2>3, <2>7, <2>8 DEF SoleStep
<1> QED
  BY <1>SoleCall, <1>SoleDescend, <1>SoleMiss, <1>SoleLink, <1>SoleIsNew, <1>SoleSetPrefix, SoleSetMetadata, <1>SoleCount,
     <1>SoleTake, SoleClearMetadata, SoleSetLeftNone, SoleSetRightNone, <1>SoleStoreZero DEF Write

----------------------------------------------------------------------------
(***************************************************************************)
(* From where a lookup stands it reaches only metadata that was in the     *)
(* table at some time since it began.                                      *)
(***************************************************************************)
Holds(nd, S, n, seen) ==
    /\ S \subseteq Nodes /\ n \in S
    /\ \A x \in S, b \in {0, 1} : nd[x].child[b] # Nil => nd[x].child[b] \in S
    /\ \A x \in S : nd[x].meta # Nil => nd[x].meta \in seen

\* What a lookup holds or may still read was in the table while it ran.
Seen(nd, l, seen) ==
    /\ l.pc \in Reading \cup {"return"} /\ l.best # Nil => l.best \in seen
    /\ l.pc \in Reading => Entries(Full(nd)) \subseteq seen /\ \E S : Holds(nd, S, l.node, seen)

(***************************************************************************)
(* What a step of a lone writer does to the nodes                          *)
(***************************************************************************)
Heeds(nd, al, nd2) ==
    /\ \A n \in Nodes : nd2[n].meta # Nil =>
          nd2[n].meta = nd[n].meta \/ nd2[n].meta \in Entries(Full(nd2))
    /\ \A n \in Nodes, b \in {0, 1} : nd2[n].child[b] # Nil =>
          \/ nd2[n].child[b] = nd[n].child[b]
          \/ /\ nd2[n].child[b] = al + 1 /\ al + 1 \in Nodes
             /\ nd2[al + 1].meta = Nil
             /\ nd2[al + 1].child[0] = Nil /\ nd2[al + 1].child[1] = Nil

\* What Observe adds for a lookup that stands still.
LEMMA SeenOther ==
    ASSUME Observe, NEW r \in Readers, hist \in [Readers -> Hists],
           Full(node') \in [Prefixes -> Vals \cup {Nil}], th'[r] = th[r],
           Seen(node, th[r], hist[r].seen), Heeds(node, alloc, node')
    PROVE  Seen(node', th'[r], hist'[r].seen)
\* The writer's step leaves a lookup with metadata that were in the table.
<1>SeenStays.
      ASSUME NEW nd, NEW al, NEW nd2, Heeds(nd, al, nd2), NEW l, NEW seen, Seen(nd, l, seen),
             NEW seen2, seen2 = seen \cup Entries(Full(nd2))
      PROVE  Seen(nd2, l, seen2)
  <2> USE <1>SeenStays
  <2>1. l.pc \in Reading \cup {"return"} /\ l.best # Nil => l.best \in seen2
    BY DEF Seen
  <2>2. ASSUME l.pc \in Reading PROVE \E S : Holds(nd2, S, l.node, seen2)
    <3>1. PICK S : Holds(nd, S, l.node, seen)
      BY <2>2 DEF Seen
    <3> PICK S2 : S2 = S \cup ({al + 1} \cap {n \in Nodes : /\ nd2[n].meta = Nil
                                                            /\ nd2[n].child[0] = Nil
                                                            /\ nd2[n].child[1] = Nil})
      OBVIOUS
    <3>2. S2 \subseteq Nodes /\ l.node \in S2 /\ S \subseteq Nodes
      BY <3>1 DEF Holds
    <3>3. ASSUME NEW x \in S2, NEW b \in {0, 1}, nd2[x].child[b] # Nil
          PROVE  nd2[x].child[b] \in S2
      <4>1. x \in S
        BY <3>3
      <4>2. nd[x].child[b] # Nil => nd[x].child[b] \in S
        BY <3>1, <4>1 DEF Holds
      <4>3. \/ nd2[x].child[b] = nd[x].child[b]
            \/ /\ nd2[x].child[b] = al + 1 /\ al + 1 \in Nodes
               /\ nd2[al + 1].meta = Nil
               /\ nd2[al + 1].child[0] = Nil /\ nd2[al + 1].child[1] = Nil
        BY <3>2, <3>3 DEF Heeds
      <4> QED
        BY <3>3, <4>2, <4>3
    <3>4. ASSUME NEW x \in S2, nd2[x].meta # Nil
          PROVE  nd2[x].meta \in seen2
      <4>1. x \in S
        BY <3>4
      <4>2. nd[x].meta # Nil => nd[x].meta \in seen
        BY <3>1, <4>1 DEF Holds
      <4>3. nd2[x].meta = nd[x].meta \/ nd2[x].meta \in Entries(Full(nd2))
        BY <3>2, <3>4 DEF Heeds
      <4> QED
        BY <3>4, <4>2, <4>3
    <3>5. Holds(nd2, S2, l.node, seen2)
      BY <3>2, <3>3, <3>4 DEF Holds
    <3> QED
      BY <3>5
  <2> QED
    BY <2>1, <2>2 DEF Seen
<1>1. CASE th[r].pc = "idle"
  BY <1>1 DEF Seen, Reading
<1>2. CASE th[r].pc = "return"
  <2>1. hist'[r] = hist[r]
    BY <1>2, HistStep
  <2> QED
    BY <1>2, <2>1 DEF Seen, Reading
<1>3. CASE th[r].pc # "idle" /\ node' = node
  <2>1. hist'[r] = hist[r]
    BY <1>3, HistStep
  <2> QED
    BY <1>3, <2>1
<1>4. CASE th[r].pc # "idle" /\ th[r].pc # "return" /\ node' # node
  <2>1. hist'[r].seen = hist[r].seen \cup Entries(Full(node'))
    BY <1>4, HistStep
  <2>2. Seen(node', th[r], hist'[r].seen)
    BY <2>1, <1>SeenStays
  <2> QED
    BY <2>2
<1> QED
  BY <1>1, <1>2, <1>3, <1>4

----------------------------------------------------------------------------
\* Only one thread calls insert, remove and clear
SingleWriter == \E w : Writers = {w}

Alone(A) ==
    SingleWriter => /\ Counting
                    /\ \A w \in Writers : Sole(node, A, th[w], expect, size[1])
                    /\ \A r \in Readers : Seen(node, th[r], hist[r].seen)

Inv == \E P, A : Base(P, A) /\ Alone(A)

\* A step of the only writer.
LEMMA WriterAlone ==
    ASSUME NEW P, NEW A, Base(P, A), Alone(A), NEW t \in Writers, Write(t), Observe,
           NEW P2, NEW A2, P2 = NextP(P, t), A2 = NextA(P, A, t)
    PROVE  Alone(A2)'
\* The only writer stores metadata that the table then shows, and links only
\* nodes that are empty.
<1>LoneHeeds.
      ASSUME SoleReady(P, A, t)
      PROVE  Heeds(node, alloc, node')
  <2> USE <1>LoneHeeds
  <2>0. Ready(P, A, t) /\ Shape(node, alloc, P, A)
    BY SoleAt DEF SoleReady
  <2>1. CASE node' = node
    BY <2>1 DEF Heeds
  <2>2. CASE SetPrefix(t)
    BY <2>0, <2>2, SetPrefixStep DEF Heeds
  <2>3. CASE SetLeftNone(t) \/ SetRightNone(t)
    <3>1. /\ \A n \in Nodes : node'[n].meta = node[n].meta
          /\ \A n \in Nodes, b \in {0, 1} :
                node'[n].child[b] = node[n].child[b] \/ node'[n].child[b] = Nil
      BY <2>0, <2>3, ClearStep
    <3> QED
      BY <3>1 DEF Heeds
  <2>4. CASE Link(t)
    <3>1. /\ \A n \in Nodes : node'[n].meta = node[n].meta
          /\ \A n \in Nodes, b \in {0, 1} :
                node'[n].child[b] = node[n].child[b] \/ node'[n].child[b] = alloc + 1
          /\ node'[alloc + 1] = NewNode /\ alloc' = alloc + 1 /\ StepOK(P, A, t)
      BY <2>0, <2>4, LinkStep
    <3>2. /\ node'[alloc + 1].meta = Nil
          /\ node'[alloc + 1].child[0] = Nil /\ node'[alloc + 1].child[1] = Nil
      BY <3>1, SMT DEF NewNode
    <3>3. alloc + 1 \in Nodes
      BY <3>1, ShapeTypes DEF StepOK
    <3> QED
      BY <3>1, <3>2, <3>3 DEF Heeds
  <2>5. CASE SetMetadata(t) \/ ClearMetadata(t)
    <3> PICK l : l = th[t]
      OBVIOUS
    <3>1. l.pc \in {"set_metadata", "clear_metadata"}
      BY <2>5 DEF SetMetadata, ClearMetadata
    <3>2. l.node \in A /\ l.arg \in Prefixes /\ (l.pc = "set_metadata" => l.v \in Vals)
      <4>1. l.node \in A /\ Walking(node, alloc, P, l)
        BY <3>1, SoleAt DEF Inserting, Removing
      <4> QED
        BY <3>1, <4>1 DEF Walking, Removing
    <3> PICK U : U = Full(node')
      OBVIOUS
    <3>3. /\ StepOK(P, A, t) /\ U[l.arg] = IF l.pc = "set_metadata" THEN l.v ELSE Nil
          /\ \A n \in Nodes : node'[n].child = node[n].child
          /\ \A n \in Nodes : n # l.node => node'[n] = node[n]
          /\ IF l.pc = "set_metadata"
             THEN /\ node'[l.node].meta \in Entry
                  /\ node'[l.node].meta.p = l.arg /\ node'[l.node].meta.v = l.v
             ELSE node'[l.node].meta = Nil
      <4>1. MetaAt(P, A, t, l, U)
        BY <2>0, <2>5, <3>2, SetMetaAt
      <4> QED
        BY <4>1 DEF MetaAt
    <3>4. U \in Tables
      BY <3>3, TableType DEF StepOK, Tables
    <3>5. node'[l.node].meta # Nil => node'[l.node].meta \in Entries(U)
      <4> SUFFICES ASSUME node'[l.node].meta # Nil PROVE node'[l.node].meta \in Entries(U)
        OBVIOUS
      <4> PICK m : m = node'[l.node].meta
        OBVIOUS
      <4>1. m \in Entry /\ m.p = l.arg /\ m.v = U[l.arg] /\ U[l.arg] # Nil
        BY <3>2, <3>3, ConstantsAssumption
      <4>2. m = [p |-> l.arg, v |-> U[l.arg]]
        BY <4>1 DEF Entry
      <4>3. [p |-> l.arg, v |-> U[l.arg]] \in Entries(U)
        BY <3>2, <3>4, <4>1, EntriesOf DEF Tables
      <4> QED
        BY <4>2, <4>3
    <3> QED
      BY <3>3, <3>5 DEF Heeds
  <2>6. CASE CallInsert(t) \/ CallRemove(t) \/ CallClear(t) \/ Descend(t) \/ MissInsert(t)
             \/ MissRemove(t) \/ IsNew(t) \/ Take(t) \/ Count(t) \/ Uncount(t) \/ StoreZero(t)
    <3>1. node' = node
      BY <2>6 DEF CallInsert, CallRemove, CallClear, Descend, MissInsert, MissRemove, IsNew,
                  Take, Count, Uncount, StoreZero, Local, Quiet, SetSize
    <3> QED
      BY <2>1, <3>1
  <2> QED
    BY <2>2, <2>3, <2>4, <2>5, <2>6 DEF Write
<1> SUFFICES ASSUME SingleWriter
             PROVE  /\ \A w \in Writers : Sole(node', A2, th'[w], expect', size'[1])
                    /\ \A r \in Readers : Seen(node', th'[r], hist'[r].seen)
  BY DEF Alone
<1>0. /\ th \in [Threads -> Locals] /\ hist \in [Readers -> Hists]
      /\ size \in [Shards -> 0..(SizeMod - 1)] /\ Shape(node, alloc, P, A)
      /\ WriterOK(node, alloc, P, th[t]) /\ t \in Threads
  BY DEF Base, Threads
<1>1. Writers = {t}
  BY DEF SingleWriter
<1>2. /\ Sole(node, A, th[t], expect, size[1])
      /\ \A r \in Readers : Seen(node, th[r], hist[r].seen)
  BY DEF Alone
<1>3. Ready(P, A, t) /\ SoleReady(P, A, t)
  BY <1>0, <1>2 DEF Ready, SoleReady, Alone
<1>4. Sole(node', A2, th'[t], expect', size'[1])
  BY <1>0, <1>3, SoleWrite DEF SoleStep
<1>5. Heeds(node, alloc, node')
  BY <1>3, <1>LoneHeeds
<1>6. Shape(node', alloc', P2, A2) /\ Moved(t)
  BY <1>3, WriteStep DEF StepOK
<1>7. Full(node') \in [Prefixes -> Vals \cup {Nil}]
  BY <1>6, TableType
<1>8. ASSUME NEW r \in Readers PROVE Seen(node', th'[r], hist'[r].seen)
  <2>1. th'[r] = th[r]
    BY <1>6, ConstantsAssumption DEF Threads, Moved
  <2> QED
    BY <1>0, <1>2, <1>5, <1>7, <2>1, SeenOther
<1> QED
  BY <1>1, <1>4, <1>8

\* A step of a lookup.
LEMMA ReaderAlone ==
    ASSUME NEW P, NEW A, Base(P, A), Alone(A), NEW t \in Readers, Read(t), Observe
    PROVE  Alone(A)'
\* A lookup's own step.
<1>LookupSeen.
      ASSUME ReadReady(P, A, t), hist \in [Readers -> Hists],
             Finds(Full(node), P, A, th[t], hist[t].stable), Seen(node, th[t], hist[t].seen)
      PROVE  Seen(node, th'[t], hist'[t].seen)
  <2> USE <1>LookupSeen
  \* Every node that hangs on the root holds metadata of the table.
  <2>TreeHolds.
        ASSUME NEW nd, NEW al, NEW Q, NEW B, Shape(nd, al, Q, B)
        PROVE  Holds(nd, B, Root, Entries(Full(nd)))
    <3> USE <2>TreeHolds
    <3>1. /\ B \subseteq Nodes /\ Root \in B /\ nd \in Heap
          /\ \A x \in Nodes : Kids(nd)[x] = nd[x].child
      BY ShapeTypes, KidsPointers
    <3>2. ASSUME NEW x \in B, NEW b \in {0, 1}, nd[x].child[b] # Nil
          PROVE  nd[x].child[b] \in B
      <4>1. Kids(nd)[x][b] = nd[x].child[b]
        BY <3>1
      <4> QED
        BY <3>2, <4>1 DEF Shape, Tree
    <3>3. ASSUME NEW x \in B, nd[x].meta # Nil
          PROVE  nd[x].meta \in Entries(Full(nd))
      <4> PICK m : m = nd[x].meta
        OBVIOUS
      <4> PICK T : T = Full(nd)
        OBVIOUS
      <4>1. m \in Entry /\ m.p = nd[x].prefix
        BY <3>1, <3>3 DEF Heap, Shape
      <4>2. m.p \in Prefixes /\ m.v # Nil
        BY <4>1, ConstantsAssumption DEF Entry
      <4>3. Q[x] = m.p.bits
        BY <3>1, <4>1, <4>2, NilIsNone DEF Shape
      <4>4. Shows(nd, Q, B, T) /\ T \in Tables
        BY TableShown, TableType DEF Tables
      <4>5. m.v = T[m.p]
        BY <3>3, <4>2, <4>3, <4>4 DEF Shows
      <4>6. m = [p |-> m.p, v |-> T[m.p]]
        BY <4>1, <4>5 DEF Entry
      <4>7. [p |-> m.p, v |-> T[m.p]] \in Entries(T)
        BY <4>2, <4>4, <4>5, EntriesOf DEF Tables
      <4> QED
        BY <4>6, <4>7
    <3> QED
      BY <3>1, <3>2, <3>3 DEF Holds
  <2>0. /\ t \in Readers /\ Shape(node, alloc, P, A)
        /\ Full(node) \in [Prefixes -> Vals \cup {Nil}]
    BY TableType DEF ReadReady
  <2>1. node' = node
    BY DEF Read, CallLookup, ReadPrefix, ReadMetadata, ReadChild, Return, Local, Goto
  <2>2. Full(node') = Full(node)
    BY <2>1
  <2>3. hist[t].stable \in SUBSET Prefixes
    BY <2>0 DEF Hists
  <2> PICK seen : seen = hist[t].seen
    OBVIOUS
  <2> PICK k : k = th'[t]
    OBVIOUS
  <2>4. ASSUME th[t].pc # "idle", k.pc # "idle"
        PROVE  hist'[t].seen = seen
    BY <2>0, <2>1, <2>2, <2>4, HistStep
  <2>5. CASE CallLookup(t)
    <3>1. th[t].pc = "idle"
      BY <2>5, SMT DEF CallLookup, Idle
    <3> PICK S : S = Abstract!Present(Full(node))
      OBVIOUS
    <3>2. S \in SUBSET Prefixes /\ \A p \in S : Full(node)[p] # Nil
      BY <2>0, EntriesOf
    <3>3. k.pc = "read_prefix" /\ k.node = Root /\ k.best = Nil
      BY <2>5, <3>2, CallLookupStep
    <3>4. hist'[t].seen = Entries(Full(node))
      BY <2>0, <2>2, <3>1, <3>3, HistStep
    <3>5. Holds(node, A, Root, Entries(Full(node)))
      BY <2>0, <2>TreeHolds
    <3> QED
      BY <3>3, <3>4, <3>5 DEF Seen
  <2>6. CASE ReadPrefix(t)
    <3>1. th[t].pc = "read_prefix"
      BY <2>6 DEF ReadPrefix
    <3>2. k.pc \in Reading /\ k.node = th[t].node /\ k.best = th[t].best
      BY <2>3, <2>6, ReadPrefixStep
    <3>3. hist'[t].seen = seen
      BY <2>4, <3>1, <3>2 DEF Reading
    <3> QED
      BY <3>1, <3>2, <3>3 DEF Seen, Reading
  <2>7. CASE ReadMetadata(t)
    <3>1. th[t].pc = "read_metadata"
      BY <2>7 DEF ReadMetadata
    <3>2. k.pc \in Reading /\ k.node = th[t].node
          /\ k.best = IF node[th[t].node].meta # Nil THEN node[th[t].node].meta ELSE th[t].best
      BY <2>3, <2>7, ReadMetadataStep
    <3>3. hist'[t].seen = seen
      BY <2>4, <3>1, <3>2 DEF Reading
    <3>4. Entries(Full(node)) \subseteq seen /\ \E S : Holds(node, S, th[t].node, seen)
      BY <3>1 DEF Seen, Reading
    <3>5. node[th[t].node].meta # Nil => node[th[t].node].meta \in seen
      BY <3>4 DEF Holds
    <3>6. th[t].best # Nil => th[t].best \in seen
      BY <3>1 DEF Seen, Reading
    <3> QED
      BY <3>2, <3>3, <3>4, <3>5, <3>6 DEF Seen
  <2>8. CASE ReadChild(t)
    <3>1. th[t].pc = "read_child"
      BY <2>8 DEF ReadChild
    <3>2. /\ k.pc \in Reading \cup {"return"} /\ k.best = th[t].best
          /\ k.pc \in Reading =>
                \E b \in {0, 1} : k.node = node[th[t].node].child[b] /\ k.node # Nil
      BY <2>3, <2>8, ReadChildStep
    <3>3. hist'[t].seen = seen
      BY <2>4, <3>1, <3>2 DEF Reading
    <3>4. PICK S : Entries(Full(node)) \subseteq seen /\ Holds(node, S, th[t].node, seen)
      BY <3>1 DEF Seen, Reading
    <3>5. ASSUME k.pc \in Reading PROVE Holds(node, S, k.node, seen)
      <4>1. PICK b \in {0, 1} : k.node = node[th[t].node].child[b] /\ k.node # Nil
        BY <3>2, <3>5
      <4>2. k.node \in S
        BY <3>4, <4>1 DEF Holds
      <4> QED
        BY <3>4, <4>2 DEF Holds
    <3>6. th[t].best # Nil => th[t].best \in seen
      BY <3>1 DEF Seen, Reading
    <3> QED
      BY <3>2, <3>3, <3>4, <3>5, <3>6 DEF Seen
  <2>9. CASE Return(t)
    <3>1. k = Idle /\ Idle.pc = "idle"
      BY <2>9, ReturnStep DEF Idle
    <3> QED
      BY <3>1 DEF Seen, Reading
  <2> QED
    BY <2>5, <2>6, <2>7, <2>8, <2>9 DEF Read
<1> SUFFICES ASSUME SingleWriter
             PROVE  /\ \A w \in Writers : Sole(node', A, th'[w], expect', size'[1])
                    /\ \A r \in Readers : Seen(node', th'[r], hist'[r].seen)
  BY DEF Alone
<1>0. /\ th \in [Threads -> Locals] /\ hist \in [Readers -> Hists] /\ Shape(node, alloc, P, A)
      /\ ReaderOK(node, alloc, P, th[t]) /\ t \in Threads
      /\ Finds(Full(node), P, A, th[t], hist[t].stable)
  BY DEF Base, Threads
<1>1. /\ \A w \in Writers : Sole(node, A, th[w], expect, size[1])
      /\ \A r \in Readers : Seen(node, th[r], hist[r].seen)
  BY DEF Alone
<1>2. /\ node' = node /\ alloc' = alloc /\ size' = size /\ expect' = expect
      /\ \A u \in Threads : u # t => th'[u] = th[u]
  BY ReaderBase
<1>3. ASSUME NEW w \in Writers PROVE Sole(node', A, th'[w], expect', size'[1])
  <2>1. th'[w] = th[w]
    BY <1>2, ConstantsAssumption DEF Threads
  <2> QED
    BY <1>1, <1>2, <2>1
<1>4. ReadReady(P, A, t)
  BY <1>0 DEF ReadReady
<1>5. Seen(node, th'[t], hist'[t].seen)
  BY <1>0, <1>1, <1>4, <1>LookupSeen
<1>6. ASSUME NEW r \in Readers PROVE Seen(node', th'[r], hist'[r].seen)
  <2>1. CASE r = t
    BY <1>2, <1>5, <2>1
  <2>2. CASE r # t
    <3>1. th'[r] = th[r]
      BY <1>2, <2>2 DEF Threads
    <3>2. Full(node') \in [Prefixes -> Vals \cup {Nil}] /\ Heeds(node, alloc, node')
      BY <1>0, <1>2, TableType DEF Heeds
    <3> QED
      BY <1>0, <1>1, <3>1, <3>2, SeenOther
  <2> QED
    BY <2>1, <2>2
<1> QED
  BY <1>3, <1>6

\* Every step keeps the invariant.
LEMMA InvStep == Inv /\ [Next]_vars => Inv'
<1> SUFFICES ASSUME Inv, [Next]_vars PROVE Inv'
  OBVIOUS
<1>1. PICK P, A : Base(P, A) /\ Alone(A)
  BY DEF Inv
<1>2. CASE UNCHANGED vars
  <2>1. Base(P, A)'
    BY <1>1, <1>2 DEF vars, Base
  <2>2. Alone(A)'
    BY <1>1, <1>2 DEF vars, Alone
  <2> QED
    BY <2>1, <2>2 DEF Inv
<1>3. ASSUME NEW t \in Writers, Write(t), Observe
      PROVE  Inv'
  <2>1. PICK P2, A2 : P2 = NextP(P, t) /\ A2 = NextA(P, A, t)
    OBVIOUS
  <2>2. Base(P2, A2)'
    BY <1>1, <1>3, <2>1, WriterBase
  <2>3. Alone(A2)'
    BY <1>1, <1>3, <2>1, WriterAlone
  <2> QED
    BY <2>2, <2>3 DEF Inv
<1>4. ASSUME NEW t \in Readers, Read(t), Observe
      PROVE  Inv'
  <2>1. Base(P, A)'
    BY <1>1, <1>4, ReaderBase
  <2>2. Alone(A)'
    BY <1>1, <1>4, ReaderAlone
  <2> QED
    BY <2>1, <2>2 DEF Inv
<1> QED
  BY <1>2, <1>3, <1>4 DEF Next

----------------------------------------------------------------------------
\* The table the refinement mapping shows
Mapped == TableOf(node, IF Clearing THEN LeftHalf(Kids(node)) ELSE Kids(node))

\* Only a call of clear() stands between its two stores.
LEMMA WhoClears ==
    ASSUME NEW f, NEW w, Writers = {w}, NEW nd, NEW al, NEW P,
           \A r \in Readers : ReaderOK(nd, al, P, f[r])
    PROVE  (\E t \in Threads : f[t].pc = "set_right_none") <=> f[w].pc = "set_right_none"
<1>1. \A r \in Readers : f[r].pc # "set_right_none"
  <2> TAKE r \in Readers
  <2>1. f[r].pc \in {"idle", "return"} \cup Reading
    BY ReaderAt
  <2> QED
    BY <2>1 DEF Reading
<1> QED
  BY <1>1 DEF Threads

\* The table the tree shows to the abstract specification.
LEMMA MappedIs ==
    /\ Clearing => Mapped = Left(node)
    /\ ~Clearing => Mapped = Full(node)
BY DEF Mapped, Left, Full

\* After a step.
LEMMA MappedThen ==
    /\ Clearing' => Mapped' = Left(node')
    /\ ~Clearing' => Mapped' = Full(node')
BY DEF Mapped, Left, Full

\* A step of the only writer is one step of the table or none.
LEMMA WriterRefines ==
    ASSUME NEW P, NEW A, Base(P, A), Alone(A), SingleWriter, NEW t \in Writers, Write(t), Observe
    PROVE  Abstract!Next \/ Mapped' = Mapped
\* Clear's first store is the only step to where the right half is still to go.
<1>OnlyLeftNone.
      ASSUME Ready(P, A, t), ~SetLeftNone(t)
      PROVE  th'[t].pc # "set_right_none"
  <2> USE <1>OnlyLeftNone
  <2>0. th \in [Threads -> Locals] /\ t \in Threads
    BY DEF Ready
  <2> PICK l \in Locals : l = th[t]
    BY <2>0
  <2>1. CASE NextShard(t)
    <3>1. CASE th[t].shard < NumShards
      BY <2>0, <2>1, <3>1, NextShardMoves, AtPcs, SMT
    <3>2. CASE ~(th[t].shard < NumShards)
      BY <2>0, <2>1, <3>2, NextShardMoves, SMT DEF Idle
    <3> QED
      BY <3>1, <3>2
  <2>2. ASSUME NEW c \in Pcs, c # "set_right_none",
               th' = [th EXCEPT ![t] = [th[t] EXCEPT !.pc = c]]
        PROVE  th'[t].pc # "set_right_none"
    BY <2>0, <2>2, PcMoves
  <2>3. CASE CallInsert(t) \/ CallRemove(t) \/ CallClear(t)
    <3>1. ASSUME NEW k, th' = [th EXCEPT ![t] = k] PROVE th'[t] = k
      BY <2>0, <3>1
    <3>2. CASE CallInsert(t)
      <4>1. PICK p \in Prefixes, v \in Vals :
               th'[t] = [Idle EXCEPT !.op = "insert", !.arg = p, !.v = v,
                                     !.node = Root, !.pc = At("insert", p, 0)]
        BY <3>1, <3>2 DEF CallInsert, Local, Goto
      <4>2. At("insert", p, 0) \in {"walk", "is_new", "take"}
        BY AtPcs
      <4> QED
        BY <4>1, <4>2 DEF Idle
    <3>3. CASE CallRemove(t)
      <4>1. PICK p \in Prefixes :
               th'[t] = [Idle EXCEPT !.op = "remove", !.arg = p,
                                     !.node = Root, !.pc = At("remove", p, 0)]
        BY <3>1, <3>3 DEF CallRemove, Local, Goto
      <4>2. At("remove", p, 0) \in {"walk", "is_new", "take"}
        BY AtPcs
      <4> QED
        BY <4>1, <4>2 DEF Idle
    <3>4. CASE CallClear(t)
      <4>1. th'[t] = [Idle EXCEPT !.op = "clear", !.node = Root, !.pc = "set_left_none"]
        BY <3>1, <3>4 DEF CallClear, Goto
      <4> QED
        BY <4>1 DEF Idle
    <3> QED
      BY <2>3, <3>2, <3>3, <3>4
  <2>4. CASE Descend(t)
    <3>1. PICK c, n, d :
             /\ th' = [th EXCEPT ![t] = [l EXCEPT !.node = n, !.depth = d, !.pc = c]]
             /\ c = At(l.op, l.arg, l.depth + 1)
      BY <2>4 DEF Descend, Local, Goto
    <3> PICK k : k = [l EXCEPT !.node = n, !.depth = d, !.pc = c]
      OBVIOUS
    <3>2. k.pc = c
      BY DEF Locals
    <3>3. th'[t] = k
      BY <2>0, <3>1
    <3>4. At(l.op, l.arg, l.depth + 1) \in {"walk", "is_new", "take"}
      BY AtPcs
    <3> QED
      BY <3>1, <3>2, <3>3, <3>4
  <2>8. CASE Link(t)
    BY <2>8, LinkStep
  <2>7. CASE IsNew(t)
    <3>1. PICK i : th' = [th EXCEPT ![t] = [l EXCEPT !.isNew = i, !.pc = "set_prefix"]]
      BY <2>7 DEF IsNew, Local, Goto
    <3> PICK k : k = [l EXCEPT !.isNew = i, !.pc = "set_prefix"]
      OBVIOUS
    <3>2. k.pc = "set_prefix"
      BY DEF Locals
    <3>3. th'[t] = k
      BY <2>0, <3>1
    <3> QED
      BY <3>1, <3>2, <3>3
  <2>5. CASE MissInsert(t) \/ SetPrefix(t) \/ ClearMetadata(t) \/ SetRightNone(t)
             \/ (SetMetadata(t) /\ ~NextShard(t)) \/ (Take(t) /\ ~NextShard(t))
    <3>1. PICK c \in {"link", "set_metadata", "uncount", "store_zero", "count", "clear_metadata"} :
             th' = [th EXCEPT ![t] = [th[t] EXCEPT !.pc = c]]
      BY <2>5 DEF MissInsert, SetPrefix, ClearMetadata, SetRightNone, SetMetadata, Take, Local, Goto
    <3>2. c \in Pcs /\ c # "set_right_none"
      BY DEF Pcs, Inserting, Removing, Erasing
    <3> QED
      BY <2>2, <3>1, <3>2
  <2>6. CASE MissRemove(t) \/ Count(t) \/ Uncount(t) \/ StoreZero(t)
    BY <2>1, <2>6 DEF MissRemove, Count, Uncount, StoreZero
  <2> QED
    BY <2>1, <2>3, <2>4, <2>5, <2>6, <2>7, <2>8 DEF Write
\* The steps of the abstract table, in terms of what it holds.
<1>TableInsert.
      ASSUME NEW p \in Prefixes, NEW v \in Vals, Mapped' = [Mapped EXCEPT ![p] = v]
      PROVE  Abstract!Next
  BY <1>TableInsert DEF Mapped, Abstract!Next, Abstract!Insert
\* A route leaves the table.
<1>TableRemove.
      ASSUME NEW p \in Prefixes, Mapped' = [Mapped EXCEPT ![p] = Nil]
      PROVE  Abstract!Next
  BY <1>TableRemove DEF Mapped, Abstract!Next, Abstract!Remove
\* The table is cleared.
<1>TableClear.
      ASSUME Mapped' = EmptyTable
      PROVE  Abstract!Next
  BY <1>TableClear DEF Mapped, Abstract!Next, Abstract!Clear, Abstract!Empty, EmptyTable
\* Which steps of a writer change the tree.
<1>WriterTable.
      ASSUME SoleReady(P, A, t), ~SetMetadata(t), ~ClearMetadata(t),
             ~SetLeftNone(t), ~SetRightNone(t)
      PROVE  Full(node') = Full(node) /\ th[t].pc # "set_right_none"
  <2> USE <1>WriterTable
  <2>1. Ready(P, A, t)
    BY DEF SoleReady
  <2>2. CASE Link(t)
    <3>1. th[t].pc = "link"
      BY <2>2 DEF Link
    <3>2. th[t].node \in A /\ Lone(node, A, th[t])
      BY <3>1, SoleAt
    <3>3. NextNode(t) = Nil
      BY <3>1, <3>2 DEF Lone, NextNode
    <3> QED
      BY <2>1, <2>2, <3>1, <3>2, <3>3, LinkStep
  <2>3. CASE SetPrefix(t)
    <3>1. th[t].pc = "set_prefix"
      BY <2>3 DEF SetPrefix
    <3> QED
      BY <2>1, <2>3, <3>1, SetPrefixStep
  <2>4. CASE ~Link(t) /\ ~SetPrefix(t)
    <3>1. node' = node
      BY <2>4 DEF Write, CallInsert, CallRemove, CallClear, Descend, MissInsert, MissRemove, IsNew, Count,
                  Take, Uncount, StoreZero, Local, Quiet, SetSize
    <3>2. th[t].pc # "set_right_none"
      <4>1. Idle.pc = "idle"
        BY DEF Idle
      <4>2. CASE CallInsert(t) \/ CallRemove(t) \/ CallClear(t)
        BY <4>1, <4>2 DEF CallInsert, CallRemove, CallClear
      <4>3. CASE ~(CallInsert(t) \/ CallRemove(t) \/ CallClear(t))
        BY <2>4, <4>3 DEF Write, Descend, MissInsert, MissRemove, IsNew, Count, Take, Uncount, StoreZero
      <4> QED
        BY <4>2, <4>3
    <3> QED
      BY <3>1, <3>2
  <2> QED
    BY <2>2, <2>3, <2>4
<1> PICK P2, A2 : P2 = NextP(P, t) /\ A2 = NextA(P, A, t)
  OBVIOUS
<1>1. Writers = {t}
  BY DEF SingleWriter
<1>2. SoleReady(P, A, t)
  <2>1. Ready(P, A, t)
    BY DEF Base, Ready, Threads
  <2> QED
    BY <2>1 DEF Alone, SoleReady
<1>3. Clearing <=> th[t].pc = "set_right_none"
  <2>1. \A r \in Readers : ReaderOK(node, alloc, P, th[r])
    BY DEF Base
  <2> QED
    BY <1>1, <2>1, WhoClears DEF Clearing
<1>4. Clearing' <=> th'[t].pc = "set_right_none"
  <2>1. Base(P2, A2)'
    BY WriterBase
  <2>2. \A r \in Readers : ReaderOK(node', alloc', P2, th'[r])
    BY <2>1 DEF Base
  <2> QED
    BY <1>1, <2>2, WhoClears DEF Clearing
<1>5. CASE SetLeftNone(t)
  <2>1. Left(node') = EmptyTable /\ th'[t].pc = "set_right_none"
    BY <1>2, <1>5, SoleSetLeftNone
  <2>2. Mapped' = EmptyTable
    BY <1>4, <2>1, MappedThen
  <2> QED
    BY <2>2, <1>TableClear
<1>6. CASE SetRightNone(t)
  <2>1. /\ Left(node) = EmptyTable /\ Full(node') = EmptyTable
        /\ th[t].pc = "set_right_none" /\ th'[t].pc = "store_zero"
    BY <1>2, <1>6, SoleSetRightNone DEF SetRightNone
  <2>2. Mapped = EmptyTable /\ Mapped' = EmptyTable
    BY <1>3, <1>4, <2>1, MappedIs, MappedThen
  <2> QED
    BY <2>2
<1>7. CASE ~SetLeftNone(t) /\ ~SetRightNone(t)
  <2>1. Mapped' = Full(node')
    <3>1. th'[t].pc # "set_right_none"
      BY <1>2, <1>7, <1>OnlyLeftNone DEF SoleReady
    <3> QED
      BY <1>4, <3>1, MappedThen
  <2>2. CASE SetMetadata(t)
    <3>1. Mapped = Full(node)
      <4>1. th[t].pc = "set_metadata"
        BY <2>2 DEF SetMetadata
      <4> QED
        BY <1>3, <4>1, MappedIs
    <3>2. /\ th[t].arg \in Prefixes /\ th[t].v \in Vals
          /\ Full(node') = [Full(node) EXCEPT ![th[t].arg] = th[t].v]
      BY <1>2, <2>2, SoleSetMetadata
    <3>3. Mapped' = [Mapped EXCEPT ![th[t].arg] = th[t].v]
      BY <2>1, <3>1, <3>2
    <3> QED
      BY <3>2, <3>3, <1>TableInsert
  <2>3. CASE ClearMetadata(t)
    <3>1. Mapped = Full(node)
      <4>1. th[t].pc = "clear_metadata"
        BY <2>3 DEF ClearMetadata
      <4> QED
        BY <1>3, <4>1, MappedIs
    <3>2. /\ th[t].arg \in Prefixes
          /\ Full(node') = [Full(node) EXCEPT ![th[t].arg] = Nil]
      BY <1>2, <2>3, SoleClearMetadata
    <3>3. Mapped' = [Mapped EXCEPT ![th[t].arg] = Nil]
      BY <2>1, <3>1, <3>2
    <3> QED
      BY <3>2, <3>3, <1>TableRemove
  <2>4. CASE ~SetMetadata(t) /\ ~ClearMetadata(t)
    <3>1. Full(node') = Full(node) /\ th[t].pc # "set_right_none"
      BY <1>2, <1>7, <2>4, <1>WriterTable
    <3>2. Mapped = Full(node)
      BY <1>3, <3>1, MappedIs
    <3> QED
      BY <2>1, <3>1, <3>2
  <2> QED
    BY <2>2, <2>3, <2>4
<1> QED
  BY <1>5, <1>6, <1>7

\* A step of a lookup leaves the table.
LEMMA ReaderRefines ==
    ASSUME NEW P, NEW A, Base(P, A), Alone(A), SingleWriter, NEW t \in Readers, Read(t), Observe
    PROVE  Mapped' = Mapped
<1>1. PICK w : Writers = {w}
  BY DEF SingleWriter
<1>2. Clearing <=> th[w].pc = "set_right_none"
  <2>1. \A r \in Readers : ReaderOK(node, alloc, P, th[r])
    BY DEF Base
  <2> QED
    BY <1>1, <2>1, WhoClears DEF Clearing
<1>3. Clearing' <=> th'[w].pc = "set_right_none"
  <2>1. Base(P, A)'
    BY ReaderBase
  <2>2. \A r \in Readers : ReaderOK(node', alloc', P, th'[r])
    BY <2>1 DEF Base
  <2> QED
    BY <1>1, <2>2, WhoClears DEF Clearing
<1>4. ReadReady(P, A, t) /\ hist \in [Readers -> Hists] /\ Finds(Full(node), P, A, th[t], hist[t].stable)
  BY DEF Base, ReadReady, Threads
<1>5. node' = node /\ Moved(t)
  BY <1>4, LookupStep
<1>6. th'[w] = th[w]
  <2>1. w \in Writers /\ t \in Readers /\ Writers \cap Readers = {}
    BY <1>1, ConstantsAssumption
  <2>2. w \in Threads /\ w # t
    BY <2>1 DEF Threads
  <2> QED
    BY <1>5, <2>2 DEF Moved
<1> QED
  BY <1>2, <1>3, <1>5, <1>6, MappedIs, MappedThen
----------------------------------------------------------------------------
\* The facts of the library that the invariant carries.
Library == INSTANCE FiniteSetTheorems

\* A nonempty set of naturals has a least element.
LEMMA LeastNat == WellOrdered
<1> SUFFICES ASSUME NEW T \in SUBSET Nat, T # {}
             PROVE  \E x \in T : \A y \in T : x <= y
  BY DEF WellOrdered
<1> DEFINE Less == {ss \in Nat \X Nat : ss[1] < ss[2]}
<1>1. Library!IsWellFoundedOn(Less, Nat)
  BY Library!NatLessThanWellFounded DEF Library!OpToRel
<1> HIDE DEF Less
<1>2. PICK x \in T : \A y \in T : ~ (<<y, x>> \in Less)
  BY <1>1, Library!WFMin
<1>3. \A y \in T : x <= y
  <2> TAKE y \in T
  <2>1. ~ (<<y, x>> \in Less)
    BY <1>2
  <2> QED
    BY <2>1, SMT DEF Less
<1> QED
  BY <1>3

(***************************************************************************)
(* The size of finite sets.                                                *)
(***************************************************************************)
LEMMA CountingHolds == Counting
<1>1. /\ \A S : IsFiniteSet(S) <=> Library!IsFiniteSet(S)
      /\ \A S : Cardinality(S) = Library!Cardinality(S)
  BY DEF Cardinality, Library!Cardinality, IsFiniteSet, Library!IsFiniteSet
<1>2. Cardinality({}) = 0
  BY <1>1, Library!FS_EmptySet
<1>3. IsFiniteSet(Nodes) /\ Cardinality(Nodes) = MaxNodes
  <2>1. Library!IsFiniteSet(1..MaxNodes) /\ Library!Cardinality(1..MaxNodes) = IF 1 > MaxNodes THEN 0 ELSE MaxNodes - 1 + 1
    BY Constants, Library!FS_Interval, SMT
  <2> QED
    BY <1>1, <2>1, Constants, SMT DEF Nodes
<1>4. \A S : IsFiniteSet(S) => Cardinality(S) \in Nat
  BY <1>1, Library!FS_CardinalityType
<1>5. \A S, x : IsFiniteSet(S) /\ x \notin S => Cardinality(S \cup {x}) = Cardinality(S) + 1
  BY <1>1, Library!FS_AddElement
<1>6. \A T : \A S \in SUBSET T : IsFiniteSet(T) => IsFiniteSet(S)
  BY <1>1, Library!FS_Subset
<1>7. ASSUME NEW S, NEW T, NEW f \in [S -> T], IsFiniteSet(T), \A x, y \in S : f[x] = f[y] => x = y
      PROVE  IsFiniteSet(S) /\ Cardinality(S) <= Cardinality(T)
  <2>1. f \in Library!Injection(S, T)
    BY <1>7 DEF Library!Injection, Library!IsInjective
  <2> QED
    BY <1>1, <1>7, <2>1, Library!FS_Injection
<1> QED
  BY <1>2, <1>3, <1>4, <1>5, <1>6, <1>7 DEF Counting

\* An engine that was just built has one node, the root.
LEMMA InitBase ==
    ASSUME Init
    PROVE  Base([n \in Nodes |-> <<>>], {Root})
<1> PICK P : P = [n \in Nodes |-> <<>>]
  OBVIOUS
<1> PICK A : A = {Root}
  OBVIOUS
<1>1. Shape(node, alloc, P, A)
  <2>1. node \in Heap /\ \A n \in Nodes : node[n] = NewNode
    BY DEF Init, Heap, NewNode
  <2>2. \A n \in Nodes : NewNode.prefix = Nil /\ NewNode.meta = Nil
                         /\ NewNode.child[0] = Nil /\ NewNode.child[1] = Nil
    BY DEF NewNode
  <2>3. alloc = 1 /\ alloc \in Nodes /\ A \subseteq 1..alloc
    BY Constants, SMT DEF Init, Root
  <2>4. <<>> \in Bits
    BY SMT DEF Bits
  <2>5. P \in Places /\ P[Root] = <<>>
    BY <2>4, Constants DEF Places
  <2>6. \A n \in Nodes, b \in {0, 1} : node[n].child[b] = Nil /\ Kids(node)[n][b] = Nil
    BY <2>1, <2>2 DEF Kids
  <2>7. Tree(Kids(node), P, A)
    BY <2>5, <2>6, LeastNat, Constants DEF Tree, WellOrdered
  <2> QED
    BY <2>1, <2>2, <2>3, <2>5, <2>6, <2>7 DEF Shape
<1>2. \A t \in Threads : th[t] = Idle
  BY DEF Init
<1>3. th \in [Threads -> Locals]
  BY IdleLocals DEF Init
<1>4. NoHist \in Hists
  BY DEF NoHist, Hists
<1>5. hist \in [Readers -> Hists]
  BY <1>4 DEF Init
<1>6. size \in [Shards -> 0..(SizeMod - 1)]
  BY Constants, SMT DEF Init
<1>7. \A w \in Writers : WriterOK(node, alloc, P, th[w])
  BY <1>2 DEF WriterOK, Threads
<1>8. Idle.pc = "idle"
  BY DEF Idle
<1>9. \A r \in Readers : /\ ReaderOK(node, alloc, P, th[r])
                         /\ Finds(Full(node), P, A, th[r], hist[r].stable)
  BY <1>2, <1>8 DEF ReaderOK, Finds, Reading, Threads
<1> QED
  BY <1>1, <1>3, <1>5, <1>6, <1>7, <1>9 DEF Base

\* The tree of an engine that was just built holds no route.
LEMMA EmptyAtFirst ==
    ASSUME Init
    PROVE  Full(node) = EmptyTable
<1>1. Shape(node, alloc, [n \in Nodes |-> <<>>], {Root})
  BY InitBase DEF Base
<1>2. Shows(node, [n \in Nodes |-> <<>>], {Root}, Full(node))
  BY <1>1, TableShown
<1>3. \A n \in {Root} : node[n].meta = Nil
  BY Constants DEF Init, NewNode
<1>4. Full(node) \in Tables /\ \A p \in Prefixes : Full(node)[p] = Nil
  BY <1>2, <1>3 DEF Shows, Tables
<1> QED
  BY <1>4 DEF Tables, EmptyTable

\* The invariant always holds.
LEMMA Invariance == Spec => []Inv
\* The writer of an engine that was just built stands between two calls.
<1>InitSole.
      ASSUME Init, NEW w \in Writers
      PROVE  Sole(node, {Root}, th[w], expect, size[1])
  <2> USE <1>InitSole
  <2>1. th[w] = Idle /\ expect = EmptyTable /\ size[1] = 0
    BY Constants, SMT DEF Init, Threads, Shards
  <2>2. Full(node) = EmptyTable
    BY EmptyAtFirst
  <2>3. Idle.pc = "idle"
    BY DEF Idle
  <2>4. Lone(node, {Root}, Idle) /\ Effects(Idle, EmptyTable, EmptyTable) /\ Sizes(Idle, EmptyTable, 0)
    BY <2>3, NoRoutes, CountingHolds DEF Lone, Effects, Sizes, Inserting, Removing, Before, Done
  <2>5. 0 \in 0..(SizeMod - 1)
    BY Constants, SMT
  <2> QED
    BY <2>1, <2>2, <2>4, <2>5, NoRoutes, CountingHolds DEF Sole
<1>1. Init => Inv
  <2> SUFFICES ASSUME Init PROVE Inv
    OBVIOUS
  <2>1. Base([n \in Nodes |-> <<>>], {Root})
    BY InitBase
  <2>2. \A w \in Writers : Sole(node, {Root}, th[w], expect, size[1])
    BY <1>InitSole
  <2>3. \A r \in Readers : Seen(node, th[r], hist[r].seen)
    <3> TAKE r \in Readers
    <3>1. th[r] = Idle
      BY DEF Init, Threads
    <3>2. Idle.pc = "idle"
      BY DEF Idle
    <3> QED
      BY <3>1, <3>2 DEF Seen, Reading
  <2>4. Alone({Root})
    BY <2>2, <2>3, CountingHolds DEF Alone
  <2> QED
    BY <2>1, <2>4 DEF Inv
<1> QED
  BY <1>1, InvStep, PTL DEF Spec

(***************************************************************************)
(* When only one thread writes, the size of the first shard, which is what *)
(* size() returns, is the number of routes whenever no call is running.    *)
(***************************************************************************)
THEOREM SizeCounts ==
    ASSUME SingleWriter
    PROVE  Spec => []SizeIsCount
<1>1. Inv => SizeIsCount
  <2> SUFFICES ASSUME NEW P, NEW A, Base(P, A), Alone(A),
                      \A t \in Writers : th[t] = Idle
               PROVE  size[1] = Cardinality(Abstract!Present(Table))
    BY DEF Inv, SizeIsCount
  <2>1. PICK w : w \in Writers
    BY DEF SingleWriter
  <2>2. Sizes(Idle, Full(node), size[1]) /\ Idle.pc = "idle"
    BY <2>1 DEF Alone, Sole, Idle
  <2>3. Present(Full(node)) = Abstract!Present(Table)
    BY DEF Present, Abstract!Present, Table, Full
  <2> QED
    BY <2>2, <2>3 DEF Sizes
<1> QED
  BY <1>1, Invariance, PTL

(***************************************************************************)
(* When only one thread writes, the tree holds what its calls of insert,   *)
(* remove and clear say whenever none is running: no insert is lost.       *)
(***************************************************************************)
THEOREM CallsEffective ==
    ASSUME SingleWriter
    PROVE  Spec => []CallsTakeEffect
<1>1. Inv => CallsTakeEffect
  <2> SUFFICES ASSUME NEW P, NEW A, Base(P, A), Alone(A),
                      \A t \in Writers : th[t] = Idle
               PROVE  Table = expect
    BY DEF Inv, CallsTakeEffect
  <2>1. PICK w : w \in Writers
    BY DEF SingleWriter
  <2>2. Effects(Idle, Full(node), expect) /\ Idle.pc = "idle"
    BY <2>1 DEF Alone, Sole, Idle
  <2> QED
    BY <2>2 DEF Effects, Table, Full
<1> QED
  BY <1>1, Invariance, PTL

(***************************************************************************)
(* When only one thread writes, what a lookup returns was in the table at some moment *)
(* while it ran: a result is never made up of two tables.                  *)
(***************************************************************************)
THEOREM ResultPresent ==
    ASSUME SingleWriter
    PROVE  Spec => []ResultWasPresent
<1>1. Inv => ResultWasPresent
  <2> SUFFICES ASSUME NEW P, NEW A, Base(P, A), Alone(A), NEW t \in Readers,
                      th[t].pc = "return", th[t].best # Nil
               PROVE  Covers(th[t].best.p, th[t].arg) /\ th[t].best \in hist[t].seen
    BY DEF Inv, ResultWasPresent
  <2>1. ReaderOK(node, alloc, P, th[t])
    BY DEF Base
  <2>2. Covers(th[t].best.p, th[t].arg)
    BY <2>1, ReaderAt
  <2>3. th[t].best \in hist[t].seen
    BY DEF Alone, Seen
  <2> QED
    BY <2>2, <2>3
<1> QED
  BY <1>1, Invariance, PTL
----------------------------------------------------------------------------
(***************************************************************************)
(* Every pointer and every thread stays among the nodes allocated so far;  *)
(* an insert or remove reads no bit past its prefix, a lookup keeps        *)
(* metadata of routes that contain its address, and the sizes stay         *)
(* usizes.  For any number of writers and lookups, links overwritten and   *)
(* halves cut off beside them included.                                    *)
(***************************************************************************)
THEOREM TypeCorrect == Spec => []TypeOK
<1>1. Inv => TypeOK
  <2> SUFFICES ASSUME NEW P, NEW A, Base(P, A) PROVE TypeOK
    BY DEF Inv
  <2>1. Shape(node, alloc, P, A) /\ size \in [Shards -> 0..(SizeMod - 1)]
    BY DEF Base
  <2>2. node \in Heap /\ alloc \in Nodes
    BY <2>1, ShapeTypes
  <2>3. ASSUME NEW n \in Nodes
        PROVE  node[n] \in [child : [{0, 1} -> 1..alloc \cup {Nil}],
                            prefix : Prefixes \cup {Nil}, meta : Entry \cup {Nil}]
    <3>1. \A b \in {0, 1} : node[n].child[b] \in 1..alloc \cup {Nil}
      BY <2>1 DEF Shape
    <3> QED
      BY <2>2, <3>1 DEF Heap
  <2>4. node \in [Nodes -> [child : [{0, 1} -> 1..alloc \cup {Nil}],
                            prefix : Prefixes \cup {Nil}, meta : Entry \cup {Nil}]]
    BY <2>2, <2>3 DEF Heap
  <2>5. alloc \in Nat /\ 1..alloc \subseteq Nodes /\ \A n \in Nodes : Len(P[n]) \in Nat
    BY <2>1, ShapeTypes
  <2>6. ASSUME NEW t \in Writers
        PROVE  \/ th[t] = Idle
               \/ th[t].pc \in {"set_left_none", "set_right_none", "store_zero"}
               \/ UpdateInRange(th[t])
    <3>1. WriterOK(node, alloc, P, th[t])
      BY DEF Base
    <3>2. CASE Walking(node, alloc, P, th[t])
      <4>1. /\ th[t].arg \in Prefixes /\ th[t].node \in 1..alloc /\ th[t].depth = Len(P[th[t].node])
            /\ Under(th[t].arg.bits, P[th[t].node])
        BY <3>2 DEF Walking
      <4>2. th[t].depth \in Nat /\ Len(th[t].arg.bits) \in Nat
        BY <2>5, <4>1, ConstantsAssumption, SMT
      <4>3. th[t].depth <= Len(th[t].arg.bits)
        BY <4>1 DEF Under
      <4>4. th[t].depth \in 0..Len(th[t].arg.bits)
        BY <4>2, <4>3, SMT
      <4>5. th[t].pc \in {"walk", "link"} => th[t].depth < Len(th[t].arg.bits)
        BY <3>2, SMT DEF Walking, Inserting, Removing
      <4> QED
        BY <4>1, <4>4, <4>5 DEF UpdateInRange
    <3> QED
      BY <3>1, <3>2 DEF WriterOK, Clears, Erasing
  <2>7. ASSUME NEW t \in Readers
        PROVE  th[t].pc \in {"idle", "return"} \/ LookupInRange(th[t])
    <3>1. ReaderOK(node, alloc, P, th[t]) /\ th[t] \in Locals
      BY DEF Base, Threads
    <3>2. ASSUME th[t].pc \in Reading PROVE LookupInRange(th[t])
      <4>1. /\ th[t].arg \in Ips /\ th[t].node \in 1..alloc /\ th[t].depth = Len(P[th[t].node])
            /\ th[t].best # Nil => Covers(th[t].best.p, th[t].arg)
        BY <3>1, <3>2, ReaderAt
      <4>2. th[t].depth \in Nat
        BY <2>5, <4>1
      <4>3. th[t].best # Nil => th[t].best \in Entry
        BY <3>1 DEF Locals
      <4> QED
        BY <4>1, <4>2, <4>3 DEF LookupInRange, Entry
    <3> QED
      BY <3>1, <3>2, ReaderAt
  <2> QED
    BY <2>1, <2>2, <2>4, <2>6, <2>7 DEF TypeOK, Entry
<1> QED
  BY <1>1, Invariance, PTL

(***************************************************************************)
(* A lookup that returns has found each route that contains the address    *)
(* and stayed in the table all the time it ran, or a longer one, whatever  *)
(* inserts, removes and clears ran beside it: no lock is held, and yet a   *)
(* lookup never loses a route that nobody touched.  For any number of      *)
(* writers.                                                                *)
(***************************************************************************)
THEOREM StableFound == Spec => []StableRouteFound
<1>1. Inv => StableRouteFound
  <2> SUFFICES ASSUME NEW P, NEW A, Base(P, A) PROVE StableRouteFound
    BY DEF Inv
  <2> QED
    BY DEF Base, Finds, Got, StableRouteFound
<1> QED
  BY <1>1, Invariance, PTL

(***************************************************************************)
(* When only one thread writes, the tree implements the route table: each call of *)
(* insert, remove and clear changes the table in one step, however many    *)
(* stores it makes and however many shards repeat it, and no other step    *)
(* changes it.                                                             *)
(***************************************************************************)
THEOREM Refines ==
    ASSUME SingleWriter
    PROVE  Spec => Implements
<1>1. Init => Abstract!Init
  <2> SUFFICES ASSUME Init PROVE Abstract!Init
    OBVIOUS
  <2>1. PICK w : w \in Writers
    BY DEF SingleWriter
  <2>2. Full(node) = EmptyTable
    BY EmptyAtFirst
  <2>3. ~Clearing
    <3>1. Idle.pc = "idle"
      BY DEF Idle
    <3> QED
      BY <3>1 DEF Init, Clearing
  <2>4. Mapped = EmptyTable
    BY <2>2, <2>3, MappedIs
  <2> QED
    BY <2>4 DEF Mapped, EmptyTable, Abstract!Init, Abstract!Empty
<1>2. Inv /\ [Next]_vars => [Abstract!Next]_Mapped
  <2> SUFFICES ASSUME Inv, [Next]_vars PROVE Abstract!Next \/ Mapped' = Mapped
    OBVIOUS
  <2>1. PICK P, A : Base(P, A) /\ Alone(A)
    BY DEF Inv
  <2>2. CASE UNCHANGED vars
    BY <2>2 DEF vars, Mapped, Clearing
  <2>3. ASSUME NEW t \in Writers, Write(t), Observe
        PROVE  Abstract!Next \/ Mapped' = Mapped
    BY <2>1, <2>3, WriterRefines
  <2>4. ASSUME NEW t \in Readers, Read(t), Observe
        PROVE  Mapped' = Mapped
    BY <2>1, <2>4, ReaderRefines
  <2> QED
    BY <2>2, <2>3, <2>4 DEF Next
<1> QED
  BY <1>1, <1>2, Invariance, PTL DEF Spec, Implements, Abstract!Spec, Mapped
=============================================================================
