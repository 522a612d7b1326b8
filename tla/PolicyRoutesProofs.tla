------------------------- MODULE PolicyRoutesProofs -------------------------
(***************************************************************************)
(* Proofs about the trie of routes, for any list of routes, any paths and  *)
(* any methods.                                                            *)
(*                                                                         *)
(* split_path and match_route are loops, modelled by recursive functions.  *)
(* SplitPathSeq and WalkIs unfold them; what holds at every turn of        *)
(* match_route's loop is then shown by induction over the segments, on a   *)
(* least counterexample (Climb).  Inv says what the tables of the trie     *)
(* hold while routes are inserted one after the other.                     *)
(***************************************************************************)
EXTENDS PolicyRoutes, WellFoundedInduction, TLAPS

\* A leaf that names no prover is given to Zenon, which keeps the proofs of
\* sets, records and quantifiers apart from the SMT solver's arithmetic.
USE Zenon

\* Segments of paths, and of the routes' patterns
Segment == STRING \cup {"*"}

\* f[k] holds what split_path has collected after k parts
Splits(f, path, n) ==
    f = [k \in 0..n |-> IF k = 0 THEN <<>>
                        ELSE IF path[k] = "" THEN f[k - 1] ELSE Append(f[k - 1], path[k])]

\* Where match_route starts
Start == [node |-> <<>>, wild |-> Nil, dead |-> FALSE]

\* f[k] is where match_route is after k segments
Walks(f, tr, segs, n) ==
    f = [k \in 0..n |-> IF k = 0 THEN Start ELSE Descend(tr, f[k - 1], segs[k])]

\* Places of match_route
Ats == [node : Seq(Segment), wild : Seq(Segment) \cup {Nil}, dead : BOOLEAN]

----------------------------------------------------------------------------
\* A nonempty set of naturals has a least element.
LEMMA LeastNat ==
    ASSUME NEW T \in SUBSET Nat, T # {}
    PROVE  \E x \in T : \A y \in T : x <= y
<1> DEFINE Less == {ss \in Nat \X Nat : ss[1] < ss[2]}
<1>1. IsWellFoundedOn(Less, Nat)
  BY NatLessThanWellFounded DEF OpToRel
<1> HIDE DEF Less
<1>2. PICK x \in T : \A y \in T : ~ (<<y, x>> \in Less)
  BY <1>1, WFMin
<1>3. \A y \in T : x <= y
  <2> TAKE y \in T
  <2>1. ~ (<<y, x>> \in Less)
    BY <1>2
  <2> QED
    BY <2>1, SMT DEF Less
<1> QED
  BY <1>3

\* Induction up to a bound, for a set of naturals.
LEMMA Climb ==
    ASSUME NEW n \in Nat, NEW S, 0 \in S, \A k \in 0..n : k \in S /\ k < n => k + 1 \in S
    PROVE  \A k \in 0..n : k \in S
<1> SUFFICES ASSUME (0..n) \ S # {} PROVE FALSE
  OBVIOUS
<1>1. (0..n) \ S \in SUBSET Nat
  BY SMT
<1>2. PICK x \in (0..n) \ S : \A y \in (0..n) \ S : x <= y
  BY <1>1, LeastNat
<1>3. x \in 0..n /\ x \notin S /\ x # 0
  BY <1>2
<1>4. x - 1 \in 0..n /\ x - 1 < n /\ (x - 1) + 1 = x /\ ~ (x <= x - 1)
  BY <1>3, SMT
<1>5. x - 1 \in S
  BY <1>2, <1>4
<1> QED
  BY <1>3, <1>4, <1>5

\* Induction, for a set of naturals.
LEMMA InductionOnSet ==
    ASSUME NEW S, 0 \in S, \A n \in Nat : n \in S => n + 1 \in S
    PROVE  \A n \in Nat : n \in S
<1> SUFFICES ASSUME NEW n \in Nat PROVE n \in S
  OBVIOUS
<1>1. \A k \in 0..n : k \in S /\ k < n => k + 1 \in S
  <2>1. 0..n \subseteq Nat
    BY SMT
  <2> QED
    BY <2>1
<1>2. n \in 0..n
  BY SMT
<1> QED
  BY <1>1, <1>2, Climb

\* A sequence with one element more.
LEMMA AppendAt ==
    ASSUME NEW S, NEW s \in Seq(S), NEW x \in S
    PROVE  /\ Append(s, x) \in Seq(S) /\ Len(Append(s, x)) = Len(s) + 1 /\ Len(s) \in Nat
           /\ \A i \in 1..Len(s) : Append(s, x)[i] = s[i]
           /\ Append(s, x)[Len(s) + 1] = x
           /\ Append(s, x) # <<>>
BY SMT

\* Segments with one segment more.
LEMMA AppendSegment ==
    ASSUME NEW s \in Seq(Segment), NEW x \in Segment
    PROVE  /\ Append(s, x) \in Seq(Segment) /\ Len(Append(s, x)) = Len(s) + 1
           /\ \A i \in 1..Len(s) : Append(s, x)[i] = s[i]
           /\ Append(s, x)[Len(s) + 1] = x
           /\ Append(s, x) # <<>>
BY SMT

\* The first k elements of a sequence, and one more.
LEMMA PrefixOn ==
    ASSUME NEW S, NEW s \in Seq(S), NEW k \in 0..Len(s), k < Len(s)
    PROVE  Append(SubSeq(s, 1, k), s[k + 1]) = SubSeq(s, 1, k + 1) /\ k + 1 \in 0..Len(s)
BY SMT

\* split_path's loop is defined for every number of parts.
LEMMA SplitsExists ==
    ASSUME NEW path
    PROVE  \A n \in Nat : \E f : Splits(f, path, n)
<1> PICK S : S = {n \in Nat : \E f : Splits(f, path, n)}
  OBVIOUS
<1>1. 0 \in S
  <2>0. \A i \in 0..0 : i = 0
    BY SMT
  <2>1. Splits([i \in 0..0 |-> <<>>], path, 0)
    BY <2>0 DEF Splits
  <2> QED
    BY <2>1
<1>2. ASSUME NEW n \in Nat, n \in S PROVE n + 1 \in S
  <2>1. PICK f : Splits(f, path, n)
    BY <1>2
  <2>2. PICK x : x = (IF path[n + 1] = "" THEN f[n] ELSE Append(f[n], path[n + 1]))
    OBVIOUS
  <2>3. PICK g : g = [i \in 0..(n + 1) |-> IF i = n + 1 THEN x ELSE f[i]]
    OBVIOUS
  <2>4. ASSUME NEW i \in 0..(n + 1)
        PROVE  g[i] = IF i = 0 THEN <<>> ELSE (IF path[i] = "" THEN g[i - 1] ELSE Append(g[i - 1], path[i]))
    <3>1. CASE i = n + 1
      <4>1. i # 0 /\ i - 1 = n /\ n \in 0..(n + 1) /\ n # n + 1
        BY <3>1, SMT
      <4>2. g[i] = x /\ g[i - 1] = f[n]
        BY <2>3, <3>1, <4>1
      <4> QED
        BY <2>2, <3>1, <4>1, <4>2
    <3>2. CASE i # n + 1
      <4>1. i \in 0..n /\ (i # 0 => i - 1 \in 0..n /\ i - 1 \in 0..(n + 1) /\ i - 1 # n + 1)
        BY <3>2, SMT
      <4>2. g[i] = f[i] /\ (i # 0 => g[i - 1] = f[i - 1])
        BY <2>3, <3>2, <4>1
      <4>3. f[i] = IF i = 0 THEN <<>> ELSE (IF path[i] = "" THEN f[i - 1] ELSE Append(f[i - 1], path[i]))
        BY <2>1, <4>1 DEF Splits
      <4> QED
        BY <4>2, <4>3
    <3> QED
      BY <3>1, <3>2
  <2>5. Splits(g, path, n + 1)
    <3>1. g = [i \in 0..(n + 1) |-> g[i]]
      BY <2>3
    <3> QED
      BY <2>4, <3>1 DEF Splits
  <2> QED
    BY <2>5, SMT
<1>3. \A n \in Nat : n \in S
  BY <1>1, <1>2, InductionOnSet
<1> QED
  BY <1>3

\* split_path returns a sequence of segments.
LEMMA SplitPathSeq ==
    ASSUME NEW X, NEW path \in Seq(X)
    PROVE  SplitPath(path) \in Seq(X)
<1>0. Len(path) \in Nat
  BY SMT
<1>1. PICK f : f = (CHOOSE h : Splits(h, path, Len(path)))
  OBVIOUS
<1>2. SplitPath(path) = f[Len(path)]
  BY <1>1 DEF SplitPath, Splits
<1>3. Splits(f, path, Len(path))
  BY <1>0, <1>1, SplitsExists
<1> PICK S : S = {n \in Nat : n <= Len(path) => f[n] \in Seq(X)}
  OBVIOUS
<1>4. 0 \in S
  <2>1. 0 \in 0..Len(path)
    BY <1>0, SMT
  <2>2. f[0] = <<>>
    BY <1>3, <2>1 DEF Splits
  <2>3. <<>> \in Seq(X)
    BY SMT
  <2> QED
    BY <2>2, <2>3
<1>5. ASSUME NEW n \in Nat, n \in S PROVE n + 1 \in S
  <2> SUFFICES ASSUME n + 1 <= Len(path) PROVE f[n + 1] \in Seq(X)
    BY SMT
  <2>1. n + 1 \in 0..Len(path) /\ n + 1 # 0 /\ (n + 1) - 1 = n /\ n <= Len(path) /\ n + 1 \in 1..Len(path)
    BY <1>0, SMT
  <2>2. f[n] \in Seq(X) /\ path[n + 1] \in X
    BY <1>5, <2>1, SMT
  <2>3. f[n + 1] = IF path[n + 1] = "" THEN f[n] ELSE Append(f[n], path[n + 1])
    BY <1>3, <2>1 DEF Splits
  <2>4. Append(f[n], path[n + 1]) \in Seq(X)
    BY <2>2, AppendAt
  <2> QED
    BY <2>2, <2>3, <2>4
<1>6. Len(path) \in S
  BY <1>0, <1>4, <1>5, InductionOnSet
<1> QED
  BY <1>0, <1>2, <1>6, SMT

\* match_route's loop is defined for every number of segments.
LEMMA WalksExists ==
    ASSUME NEW tr, NEW segs
    PROVE  \A n \in Nat : \E f : Walks(f, tr, segs, n)
<1> PICK S : S = {n \in Nat : \E f : Walks(f, tr, segs, n)}
  OBVIOUS
<1>1. 0 \in S
  <2>0. \A i \in 0..0 : i = 0
    BY SMT
  <2>1. Walks([i \in 0..0 |-> Start], tr, segs, 0)
    BY <2>0 DEF Walks
  <2> QED
    BY <2>1
<1>2. ASSUME NEW n \in Nat, n \in S PROVE n + 1 \in S
  <2>1. PICK f : Walks(f, tr, segs, n)
    BY <1>2
  <2>2. PICK x : x = Descend(tr, f[n], segs[n + 1])
    OBVIOUS
  <2>3. PICK g : g = [i \in 0..(n + 1) |-> IF i = n + 1 THEN x ELSE f[i]]
    OBVIOUS
  <2>4. ASSUME NEW i \in 0..(n + 1)
        PROVE  g[i] = IF i = 0 THEN Start ELSE Descend(tr, g[i - 1], segs[i])
    <3>1. CASE i = n + 1
      <4>1. i # 0 /\ i - 1 = n /\ n \in 0..(n + 1) /\ n # n + 1
        BY <3>1, SMT
      <4>2. g[i] = x /\ g[i - 1] = f[n]
        BY <2>3, <3>1, <4>1
      <4> QED
        BY <2>2, <3>1, <4>1, <4>2
    <3>2. CASE i # n + 1
      <4>1. i \in 0..n /\ (i # 0 => i - 1 \in 0..n /\ i - 1 \in 0..(n + 1) /\ i - 1 # n + 1)
        BY <3>2, SMT
      <4>2. g[i] = f[i] /\ (i # 0 => g[i - 1] = f[i - 1])
        BY <2>3, <3>2, <4>1
      <4>3. f[i] = IF i = 0 THEN Start ELSE Descend(tr, f[i - 1], segs[i])
        BY <2>1, <4>1 DEF Walks
      <4> QED
        BY <4>2, <4>3
    <3> QED
      BY <3>1, <3>2
  <2>5. Walks(g, tr, segs, n + 1)
    <3>1. g = [i \in 0..(n + 1) |-> g[i]]
      BY <2>3
    <3> QED
      BY <2>4, <3>1 DEF Walks
  <2> QED
    BY <2>5, SMT
<1>3. \A n \in Nat : n \in S
  BY <1>1, <1>2, InductionOnSet
<1> QED
  BY <1>3

\* f are the turns of match_route's loop over a path with the segments segs
Run(tr, path, segs, f) ==
    /\ segs = SplitPath(path) /\ segs \in Seq(Segment) /\ Len(segs) \in Nat
    /\ Walk(tr, path) = f[Len(segs)] /\ f[0] = Start
    /\ \A k \in 0..Len(segs) :
          k < Len(segs) => /\ k + 1 \in 1..Len(segs) /\ segs[k + 1] \in Segment
                           /\ f[k + 1] = Descend(tr, f[k], segs[k + 1])

\* match_route's loop ends after as many turns as the path has segments.
LEMMA WalkIs ==
    ASSUME NEW tr, NEW path \in Seq(Segment)
    PROVE  \E segs, f : Run(tr, path, segs, f)
<1>1. PICK segs \in Seq(Segment) : segs = SplitPath(path)
  BY SplitPathSeq
<1>2. Len(segs) \in Nat
  BY SMT
<1>3. PICK f : f = (CHOOSE h : Walks(h, tr, segs, Len(segs)))
  OBVIOUS
<1>4. Walk(tr, path) = f[Len(segs)]
  BY <1>1, <1>3 DEF Walk, Walks, Start
<1>5. Walks(f, tr, segs, Len(segs))
  BY <1>2, <1>3, WalksExists
<1>6. f[0] = Start
  <2>1. 0 \in 0..Len(segs)
    BY <1>2, SMT
  <2> QED
    BY <1>5, <2>1 DEF Walks
<1>7. ASSUME NEW k \in 0..Len(segs), k < Len(segs)
      PROVE  /\ k + 1 \in 1..Len(segs) /\ segs[k + 1] \in Segment
             /\ f[k + 1] = Descend(tr, f[k], segs[k + 1])
  <2>1. /\ k + 1 \in 1..Len(segs) /\ k + 1 \in 0..Len(segs) /\ k + 1 # 0 /\ (k + 1) - 1 = k
        /\ segs[k + 1] \in Segment
    BY <1>2, <1>7, SMT
  <2>2. f[k + 1] = Descend(tr, f[k], segs[k + 1])
    BY <1>5, <2>1 DEF Walks
  <2> QED
    BY <2>1, <2>2
<1> QED
  BY <1>1, <1>2, <1>4, <1>6, <1>7 DEF Run

\* The four ways a turn of the loop goes.
Turn(tr, at, seg, to) ==
    \/ at.dead /\ to = at
    \/ /\ ~at.dead /\ Append(at.node, seg) \in DOMAIN tr
       /\ to.node = Append(at.node, seg) /\ ~to.dead
       /\ to.wild = IF Append(at.node, "*") \in DOMAIN tr THEN Append(at.node, "*") ELSE at.wild
    \/ /\ ~at.dead /\ Append(at.node, seg) \notin DOMAIN tr /\ Append(at.node, "*") \in DOMAIN tr
       /\ to.node = Append(at.node, "*") /\ ~to.dead /\ to.wild = Append(at.node, "*")
    \/ /\ ~at.dead /\ Append(at.node, seg) \notin DOMAIN tr /\ Append(at.node, "*") \notin DOMAIN tr
       /\ to.node = at.node /\ to.dead /\ to.wild = at.wild

\* A turn of the loop goes one of these ways.
LEMMA DescendTurns ==
    ASSUME NEW tr, NEW at \in Ats, NEW seg \in Segment
    PROVE  Descend(tr, at, seg) \in Ats /\ Turn(tr, at, seg, Descend(tr, at, seg))
<1>1. PICK exact, star : exact = Append(at.node, seg) /\ star = Append(at.node, "*")
  OBVIOUS
<1>2. exact \in Seq(Segment) /\ star \in Seq(Segment)
  <2>1. at.node \in Seq(Segment)
    BY DEF Ats
  <2>2. "*" \in Segment
    BY DEF Segment
  <2> QED
    BY <1>1, <2>1, <2>2, AppendSegment
<1>3. PICK wild : wild = IF star \in DOMAIN tr THEN star ELSE at.wild
  OBVIOUS
<1>4. wild \in Seq(Segment) \cup {Nil}
  BY <1>2, <1>3 DEF Ats
<1>5. CASE at.dead
  <2>1. Descend(tr, at, seg) = at
    BY <1>5 DEF Descend
  <2> QED
    BY <1>5, <2>1 DEF Turn
<1>6. CASE ~at.dead /\ exact \in DOMAIN tr
  <2>1. PICK to : to = [at EXCEPT !.node = exact, !.wild = wild]
    OBVIOUS
  <2>2. Descend(tr, at, seg) = to
    BY <1>1, <1>3, <1>6, <2>1 DEF Descend
  <2>3. to \in Ats /\ to.node = exact /\ to.wild = wild /\ to.dead = at.dead
    BY <1>2, <1>4, <2>1 DEF Ats
  <2> QED
    BY <1>1, <1>3, <1>6, <2>2, <2>3 DEF Turn
<1>7. CASE ~at.dead /\ exact \notin DOMAIN tr /\ star \in DOMAIN tr
  <2>1. PICK to : to = [at EXCEPT !.node = star, !.wild = star]
    OBVIOUS
  <2>2. Descend(tr, at, seg) = to
    BY <1>1, <1>7, <2>1 DEF Descend
  <2>3. to \in Ats /\ to.node = star /\ to.wild = star /\ to.dead = at.dead
    BY <1>2, <2>1 DEF Ats
  <2> QED
    BY <1>1, <1>7, <2>2, <2>3 DEF Turn
<1>8. CASE ~at.dead /\ exact \notin DOMAIN tr /\ star \notin DOMAIN tr
  <2>1. PICK to : to = [at EXCEPT !.dead = TRUE]
    OBVIOUS
  <2>2. Descend(tr, at, seg) = to
    BY <1>1, <1>8, <2>1 DEF Descend
  <2>3. to \in Ats /\ to.node = at.node /\ to.wild = at.wild /\ to.dead
    BY <2>1 DEF Ats
  <2> QED
    BY <1>1, <1>8, <2>2, <2>3 DEF Turn
<1> QED
  BY <1>5, <1>6, <1>7, <1>8

----------------------------------------------------------------------------
(***************************************************************************)
(* Every limiter in a table is that of a route with the node's segments    *)
(* and the table's key.                                                    *)
(***************************************************************************)
Tabled ==
    \A n \in DOMAIN trie : \A m \in DOMAIN trie[n] :
        /\ trie[n][m] \in 1..Len(routes) /\ Segs(trie[n][m]) = n
        /\ m \in MethodKeys(routes[trie[n][m]])

\* Every route has its nodes, and each of its keys leads to it or to a later one
Stored ==
    \A i \in 1..Len(routes) :
        /\ \A k \in 0..Len(Segs(i)) : SubSeq(Segs(i), 1, k) \in DOMAIN trie
        /\ Segs(i) \in DOMAIN trie
        /\ \A m \in MethodKeys(routes[i]) : m \in DOMAIN trie[Segs(i)] /\ i <= trie[Segs(i)][m]

\* Every node but the root was made for a route
Made ==
    \A n \in DOMAIN trie \ {<<>>} :
        \E i \in 1..Len(routes) : \E k \in 0..Len(Segs(i)) : n = SubSeq(Segs(i), 1, k)

\* The inductive invariant
Inv ==
    /\ routes \in Seq(Routes) /\ Len(routes) <= MaxRoutes
    /\ DOMAIN trie \subseteq Seq(Segment) /\ <<>> \in DOMAIN trie
    /\ Tabled /\ Stored /\ Made

\* The segments of routes and of requests.
LEMMA SegsOf ==
    /\ \A route \in Routes : /\ SplitPath(route.path) \in Seq(Segment)
                             /\ SplitPath(route.path) # Nil
    /\ Paths \subseteq Seq(Segment) /\ Seq(STRING) \subseteq Seq(Segment)
<1>1. Seq(STRING) \subseteq Seq(Segment)
  <2>1. \A S, T : S \subseteq T => Seq(S) \subseteq Seq(T)
    BY SMT
  <2>2. STRING \subseteq Segment
    BY DEF Segment
  <2> QED
    BY <2>1, <2>2
<1>2. \A route \in Routes : SplitPath(route.path) \in Seq(STRING)
  BY ConstantsAssumption, SplitPathSeq
<1> QED
  BY <1>1, <1>2, ConstantsAssumption

\* The segments of the i-th route.
LEMMA SegsType ==
    ASSUME Inv, NEW i \in 1..Len(routes)
    PROVE  Segs(i) \in Seq(Segment) /\ Segs(i) # Nil /\ Len(Segs(i)) \in Nat
<1>1. routes[i] \in Routes
  BY SMT DEF Inv
<1>2. Segs(i) \in Seq(Segment) /\ Segs(i) # Nil
  BY <1>1, SegsOf DEF Segs
<1> QED
  BY <1>2, SMT

(***************************************************************************)
(* insert: all is tr with the i-th route, whose segments are segs and      *)
(* whose keys are keys.                                                    *)
(***************************************************************************)
Inserted(tr, segs, keys, i, all) ==
    /\ DOMAIN all = DOMAIN tr \cup {SubSeq(segs, 1, k) : k \in 0..Len(segs)}
    /\ segs \in DOMAIN all
    /\ \A n \in DOMAIN tr : n # segs => all[n] = tr[n]
    /\ \A n \in DOMAIN all \ DOMAIN tr : n # segs => DOMAIN all[n] = {}
    /\ \A m \in keys : m \in DOMAIN all[segs] /\ all[segs][m] = i
    /\ \A m \in DOMAIN all[segs] \ keys :
          segs \in DOMAIN tr /\ m \in DOMAIN tr[segs] /\ all[segs][m] = tr[segs][m]
    /\ segs \in DOMAIN tr => DOMAIN tr[segs] \subseteq DOMAIN all[segs]

\* What insert does to a trie.
LEMMA InsertIs ==
    ASSUME NEW tr, NEW route, NEW i, SplitPath(route.path) \in Seq(Segment)
    PROVE  Inserted(tr, SplitPath(route.path), MethodKeys(route), i, TrieInsert(tr, route, i))
<1>1. PICK segs \in Seq(Segment) : segs = SplitPath(route.path)
  OBVIOUS
<1>2. PICK keys : keys = MethodKeys(route)
  OBVIOUS
<1>3. PICK made : made = [n \in {SubSeq(segs, 1, k) : k \in 0..Len(segs)} |-> <<>>]
  OBVIOUS
<1>4. PICK whole : whole = Overlay(tr, made)
  OBVIOUS
<1>5. PICK all : all = [whole EXCEPT ![segs] = Overlay([m \in keys |-> i], @)]
  OBVIOUS
<1>6. TrieInsert(tr, route, i) = all
  BY <1>1, <1>2, <1>3, <1>4, <1>5 DEF TrieInsert
<1>7. /\ DOMAIN whole = DOMAIN tr \cup DOMAIN made
      /\ \A n \in DOMAIN tr : whole[n] = tr[n]
      /\ \A n \in DOMAIN made : n \notin DOMAIN tr => whole[n] = <<>>
  BY <1>3, <1>4 DEF Overlay
<1>8. segs \in DOMAIN made
  <2>1. Len(segs) \in 0..Len(segs) /\ SubSeq(segs, 1, Len(segs)) = segs
    BY SMT
  <2> QED
    BY <1>3, <2>1
<1>9. DOMAIN <<>> = {}
  BY SMT
<1>10. DOMAIN all = DOMAIN whole /\ \A n \in DOMAIN whole : n # segs => all[n] = whole[n]
  BY <1>4, <1>5 DEF Overlay
<1>11. all[segs] = Overlay([m \in keys |-> i], whole[segs])
  BY <1>5, <1>7, <1>8
<1>12. /\ DOMAIN all[segs] = keys \cup DOMAIN whole[segs]
       /\ \A m \in keys : all[segs][m] = i
       /\ \A m \in DOMAIN whole[segs] : m \notin keys => all[segs][m] = whole[segs][m]
  BY <1>11 DEF Overlay
<1>13. \A m \in DOMAIN whole[segs] : segs \in DOMAIN tr /\ whole[segs] = tr[segs]
  BY <1>7, <1>8, <1>9
<1>14. DOMAIN made = {SubSeq(segs, 1, k) : k \in 0..Len(segs)}
  BY <1>3
<1>15. Inserted(tr, segs, keys, i, all)
  <2>1. \A n \in DOMAIN all \ DOMAIN tr : n # segs => DOMAIN all[n] = {}
    BY <1>7, <1>9, <1>10
  <2>2. \A m \in DOMAIN all[segs] \ keys :
          segs \in DOMAIN tr /\ m \in DOMAIN tr[segs] /\ all[segs][m] = tr[segs][m]
    BY <1>12, <1>13
  <2>3. DOMAIN all = DOMAIN tr \cup {SubSeq(segs, 1, k) : k \in 0..Len(segs)}
    BY <1>7, <1>10, <1>14
  <2>4. segs \in DOMAIN all
    BY <1>7, <1>8, <1>10
  <2>5. \A n \in DOMAIN tr : n # segs => all[n] = tr[n]
    BY <1>7, <1>10
  <2>6. segs \in DOMAIN tr => DOMAIN tr[segs] \subseteq DOMAIN all[segs]
    BY <1>7, <1>12
  <2> QED
    BY <1>12, <2>1, <2>2, <2>3, <2>4, <2>5, <2>6 DEF Inserted
<1> QED
  BY <1>1, <1>2, <1>6, <1>15

\* What holds before the first route is inserted.
LEMMA InitInv == Init => Inv
<1> SUFFICES ASSUME Init PROVE Inv
  OBVIOUS
<1>1. routes = <<>> /\ trie = EmptyTrie
  BY DEF Init
<1>2. DOMAIN EmptyTrie = {<<>>} /\ DOMAIN EmptyTrie[<<>>] = {}
  <2>1. DOMAIN <<>> = {}
    BY SMT
  <2> QED
    BY <2>1 DEF EmptyTrie
<1>3. <<>> \in Seq(Segment) /\ <<>> \in Seq(Routes) /\ Len(<<>>) = 0 /\ 1..0 = {}
  BY SMT
<1>4. Len(routes) <= MaxRoutes
  BY <1>1, <1>3, ConstantsAssumption, SMT
<1>5. Tabled
  BY <1>1, <1>2 DEF Tabled
<1>6. Stored
  BY <1>1, <1>3 DEF Stored
<1>7. Made
  BY <1>1, <1>2 DEF Made
<1> QED
  BY <1>1, <1>2, <1>3, <1>4, <1>5, <1>6, <1>7 DEF Inv

\* Inserting a route keeps the invariant.
LEMMA AddRouteInv ==
    ASSUME Inv, NEW route \in Routes, AddRoute(route)
    PROVE  Inv'
<1>1. PICK n \in Nat : n = Len(routes)
  BY SMT DEF Inv
<1>2. PICK segs \in Seq(Segment) : segs = SplitPath(route.path)
  BY SegsOf
<1>3. PICK keys : keys = MethodKeys(route)
  OBVIOUS
<1>4. Inserted(trie, segs, keys, n + 1, trie')
  BY <1>1, <1>2, <1>3, InsertIs DEF AddRoute
<1>5. /\ routes' \in Seq(Routes) /\ Len(routes') = n + 1 /\ Len(routes') <= MaxRoutes
      /\ \A i \in 1..n : routes'[i] = routes[i]
      /\ routes'[n + 1] = route
  <2>1. routes \in Seq(Routes) /\ routes' = Append(routes, route) /\ n < MaxRoutes
    BY <1>1 DEF Inv, AddRoute
  <2>2. PICK more : more = Append(routes, route)
    OBVIOUS
  <2>3. /\ more \in Seq(Routes) /\ Len(more) = Len(routes) + 1
        /\ \A i \in 1..Len(routes) : more[i] = routes[i]
        /\ more[Len(routes) + 1] = route
    BY <2>1, <2>2, SMT
  <2>4. n + 1 <= MaxRoutes
    BY <2>1, ConstantsAssumption, SMT
  <2> QED
    BY <1>1, <2>1, <2>2, <2>3, <2>4
<1>6. /\ \A i \in 1..n : Segs(i)' = Segs(i) /\ MethodKeys(routes'[i]) = MethodKeys(routes[i])
      /\ Segs(n + 1)' = segs /\ MethodKeys(routes'[n + 1]) = keys
  BY <1>2, <1>3, <1>5 DEF Segs
<1>7. /\ 1..n \subseteq 1..(n + 1) /\ n + 1 \in 1..(n + 1)
      /\ \A i \in 1..(n + 1) : i = n + 1 \/ i \in 1..n
      /\ \A i \in 1..(n + 1) : i <= n + 1
  BY SMT
<1>8. DOMAIN trie' \subseteq Seq(Segment) /\ <<>> \in DOMAIN trie'
  <2>1. \A k \in 0..Len(segs) : SubSeq(segs, 1, k) \in Seq(Segment)
    BY SMT
  <2> QED
    BY <1>4, <2>1 DEF Inserted, Inv
<1>9. Tabled'
  <2> SUFFICES ASSUME NEW d \in DOMAIN trie', NEW m \in DOMAIN trie'[d]
               PROVE  /\ trie'[d][m] \in 1..(n + 1)
                      /\ SplitPath(routes'[trie'[d][m]].path) = d
                      /\ m \in MethodKeys(routes'[trie'[d][m]])
    BY <1>5 DEF Tabled, Segs
  <2>1. CASE d \in DOMAIN trie /\ m \in DOMAIN trie[d] /\ trie'[d][m] = trie[d][m]
    <3>1. /\ trie[d][m] \in 1..n /\ Segs(trie[d][m]) = d
          /\ m \in MethodKeys(routes[trie[d][m]])
      BY <1>1, <2>1 DEF Inv, Tabled
    <3>2. PICK v \in 1..n : v = trie[d][m]
      BY <3>1
    <3>3. Segs(v)' = d /\ m \in MethodKeys(routes'[v]) /\ v \in 1..(n + 1)
      BY <1>6, <1>7, <3>1, <3>2
    <3>4. trie'[d][m] = v
      BY <2>1, <3>2
    <3> QED
      BY <3>3, <3>4 DEF Segs
  <2>2. CASE d = segs /\ m \in keys
    <3>1. trie'[d][m] = n + 1
      BY <1>4, <2>2 DEF Inserted
    <3> QED
      BY <1>2, <1>5, <1>6, <1>7, <2>2, <3>1
  <2>3. CASE d = segs /\ m \notin keys
    BY <1>4, <2>1, <2>3 DEF Inserted
  <2>4. CASE d # segs
    BY <1>4, <2>1, <2>4 DEF Inserted
  <2> QED
    BY <2>2, <2>3, <2>4
<1>10. Stored'
  <2> SUFFICES ASSUME NEW i \in 1..(n + 1)
               PROVE  /\ \A k \in 0..Len(Segs(i)') : SubSeq(Segs(i)', 1, k) \in DOMAIN trie'
                      /\ Segs(i)' \in DOMAIN trie'
                      /\ \A m \in MethodKeys(routes'[i]) :
                            /\ m \in DOMAIN trie'[Segs(i)'] /\ i <= trie'[Segs(i)'][m]
    BY <1>5 DEF Stored
  <2>1. CASE i = n + 1
    <3>1. n + 1 <= n + 1
      BY SMT
    <3> QED
      BY <1>4, <1>6, <2>1, <3>1 DEF Inserted
  <2>2. CASE i \in 1..n
    <3>1. PICK w : w = Segs(i) /\ w = Segs(i)'
      BY <1>6, <2>2
    <3>2. /\ \A k \in 0..Len(w) : SubSeq(w, 1, k) \in DOMAIN trie
          /\ w \in DOMAIN trie
          /\ \A m \in MethodKeys(routes[i]) : m \in DOMAIN trie[w] /\ i <= trie[w][m]
      BY <1>1, <2>2, <3>1 DEF Inv, Stored
    <3>3. DOMAIN trie \subseteq DOMAIN trie'
      BY <1>4 DEF Inserted
    <3>4. ASSUME NEW m \in MethodKeys(routes[i])
          PROVE  m \in DOMAIN trie'[w] /\ i <= trie'[w][m]
      <4>1. CASE w = segs /\ m \in keys
        BY <1>4, <1>7, <4>1 DEF Inserted
      <4>2. CASE w = segs /\ m \notin keys
        BY <1>4, <3>2, <3>4, <4>2 DEF Inserted
      <4>3. CASE w # segs
        BY <1>4, <3>2, <3>4, <4>3 DEF Inserted
      <4> QED
        BY <4>1, <4>2, <4>3
    <3> QED
      BY <1>6, <2>2, <3>1, <3>2, <3>3, <3>4
  <2> QED
    BY <1>7, <2>1, <2>2
<1>11. Made'
  <2> SUFFICES ASSUME NEW d \in DOMAIN trie', d # <<>>
               PROVE  \E i \in 1..(n + 1) : \E k \in 0..Len(Segs(i)') : d = SubSeq(Segs(i)', 1, k)
    BY <1>5 DEF Made
  <2>1. CASE d \in DOMAIN trie
    <3>1. PICK i \in 1..n : \E k \in 0..Len(Segs(i)) : d = SubSeq(Segs(i), 1, k)
      BY <1>1, <2>1 DEF Inv, Made
    <3> QED
      BY <1>6, <1>7, <3>1
  <2>2. CASE d \notin DOMAIN trie
    <3>1. \E k \in 0..Len(segs) : d = SubSeq(segs, 1, k)
      BY <1>4, <2>2 DEF Inserted
    <3> QED
      BY <1>6, <1>7, <3>1
  <2> QED
    BY <2>1, <2>2
<1> QED
  BY <1>5, <1>8, <1>9, <1>10, <1>11 DEF Inv

\* The invariant always holds.
LEMMA Invariance == Spec => []Inv
<1>1. Inv /\ [Next]_vars => Inv'
  <2> SUFFICES ASSUME Inv, [Next]_vars PROVE Inv'
    OBVIOUS
  <2>1. CASE Next
    BY <2>1, AddRouteInv DEF Next
  <2>2. CASE UNCHANGED vars
    <3>1. routes' = routes /\ trie' = trie
      BY <2>2 DEF vars
    <3> QED
      BY <3>1 DEF Inv, Tabled, Stored, Made, Segs
  <2> QED
    BY <2>1, <2>2
<1> QED
  BY <1>1, InitInv, PTL DEF Spec

----------------------------------------------------------------------------
\* What a lookup in the table of a node returns.
LEMMA LimiterIs ==
    ASSUME Inv, NEW n \in DOMAIN trie, NEW u
    PROVE  /\ LimiterAt(trie, n, u) # Nil =>
                 /\ LimiterAt(trie, n, u) \in 1..Len(routes) /\ Segs(LimiterAt(trie, n, u)) = n
                 /\ \/ u \in MethodKeys(routes[LimiterAt(trie, n, u)])
                    \/ "" \in MethodKeys(routes[LimiterAt(trie, n, u)])
           /\ u \in DOMAIN trie[n] => LimiterAt(trie, n, u) = trie[n][u]
           /\ u \in DOMAIN trie[n] \/ "" \in DOMAIN trie[n] => LimiterAt(trie, n, u) # Nil
<1>1. PICK v : v = LimiterAt(trie, n, u)
  OBVIOUS
<1>2. \/ u \in DOMAIN trie[n] /\ v = trie[n][u]
      \/ u \notin DOMAIN trie[n] /\ "" \in DOMAIN trie[n] /\ v = trie[n][""]
      \/ u \notin DOMAIN trie[n] /\ "" \notin DOMAIN trie[n] /\ v = Nil
  BY <1>1 DEF LimiterAt
<1>3. \A m \in DOMAIN trie[n] : /\ trie[n][m] \in 1..Len(routes) /\ Segs(trie[n][m]) = n
                                /\ m \in MethodKeys(routes[trie[n][m]])
  BY DEF Inv, Tabled
<1>4. Nil \notin 1..Len(routes)
  <2>1. 1..Len(routes) \subseteq Nat
    BY SMT
  <2> QED
    BY <2>1, ConstantsAssumption
<1> QED
  BY <1>1, <1>2, <1>3, <1>4

\* match_route returns the limiter where its loop ends, or the fallback's.
LEMMA MatchIs ==
    ASSUME NEW tr, NEW method, NEW path, NEW at, at = Walk(tr, path)
    PROVE  \/ /\ ~at.dead /\ LimiterAt(tr, at.node, Upper[method]) # Nil
              /\ MatchRoute(tr, method, path) = LimiterAt(tr, at.node, Upper[method])
           \/ /\ at.dead \/ LimiterAt(tr, at.node, Upper[method]) = Nil
              /\ at.wild # Nil
              /\ MatchRoute(tr, method, path) = LimiterAt(tr, at.wild, Upper[method])
           \/ /\ at.dead \/ LimiterAt(tr, at.node, Upper[method]) = Nil
              /\ at.wild = Nil /\ MatchRoute(tr, method, path) = Nil
<1>1. PICK x, y : x = LimiterAt(tr, at.node, Upper[method]) /\ y = LimiterAt(tr, at.wild, Upper[method])
  OBVIOUS
<1>2. MatchRoute(tr, method, path)
        = IF (IF at.dead THEN Nil ELSE x) # Nil THEN (IF at.dead THEN Nil ELSE x)
          ELSE (IF at.wild = Nil THEN Nil ELSE y)
  BY <1>1 DEF MatchRoute
<1> QED
  BY <1>1, <1>2

----------------------------------------------------------------------------
\* The segments of n are those the path begins with, or wildcards
Leads(n, segs) == Len(n) <= Len(segs) /\ \A j \in 1..Len(n) : n[j] \in {"*", segs[j]}

(***************************************************************************)
(* Where match_route may be after k segments: at a node that leads along   *)
(* the path, with a fallback that does and ends in a wildcard.             *)
(***************************************************************************)
OnPath(at, k, segs) ==
    /\ at \in Ats /\ at.node \in DOMAIN trie /\ Leads(at.node, segs)
    /\ ~at.dead => Len(at.node) = k
    /\ at.wild # Nil => /\ at.wild \in DOMAIN trie /\ Leads(at.wild, segs)
                        /\ Len(at.wild) > 0 /\ at.wild[Len(at.wild)] = "*"

\* A node that leads along the path, and one segment more.
LEMMA LeadsOn ==
    ASSUME NEW segs \in Seq(Segment), NEW n \in Seq(Segment), Len(n) < Len(segs), Leads(n, segs),
           NEW x \in Segment, x \in {"*", segs[Len(n) + 1]}
    PROVE  /\ Leads(Append(n, x), segs) /\ Len(Append(n, x)) = Len(n) + 1
           /\ Len(Append(n, x)) > 0 /\ Append(n, x)[Len(Append(n, x))] = x
<1>1. PICK s : s = Append(n, x)
  OBVIOUS
<1>2. /\ Len(s) = Len(n) + 1 /\ s[Len(n) + 1] = x
      /\ \A i \in 1..Len(n) : s[i] = n[i]
  BY <1>1, AppendSegment
<1>3. \A j \in 1..(Len(n) + 1) : j \in 1..Len(n) \/ j = Len(n) + 1
  BY SMT
<1>4. \A j \in 1..(Len(n) + 1) : s[j] \in {"*", segs[j]}
  BY <1>2, <1>3 DEF Leads
<1>5. Len(n) + 1 <= Len(segs) /\ Len(n) + 1 > 0
  BY SMT
<1> QED
  BY <1>1, <1>2, <1>4, <1>5 DEF Leads

\* Where match_route starts.
LEMMA StartAt == Start.node = <<>> /\ Start.wild = Nil /\ ~Start.dead /\ Start \in Ats
<1>1. <<>> \in Seq(Segment)
  BY SMT
<1>2. Start.node = <<>> /\ Start.wild = Nil /\ ~Start.dead
  BY SMT DEF Start
<1>3. Start \in Ats
  BY <1>1 DEF Start, Ats
<1> QED
  BY <1>2, <1>3

\* match_route's loop stays on the path.
LEMMA StaysOnPath ==
    ASSUME Inv, NEW path \in Seq(Segment)
    PROVE  OnPath(Walk(trie, path), Len(SplitPath(path)), SplitPath(path))
<1>0. PICK segs, f : Run(trie, path, segs, f)
  BY WalkIs
<1>1. /\ segs = SplitPath(path) /\ segs \in Seq(Segment) /\ Len(segs) \in Nat
      /\ Walk(trie, path) = f[Len(segs)] /\ f[0] = Start
      /\ \A k \in 0..Len(segs) :
            k < Len(segs) => /\ k + 1 \in 1..Len(segs) /\ segs[k + 1] \in Segment
                             /\ f[k + 1] = Descend(trie, f[k], segs[k + 1])
  BY <1>0 DEF Run
<1> PICK S : S = {k \in Nat : OnPath(f[k], k, segs)}
  OBVIOUS
<1>2. 0 \in S
  <2>1. <<>> \in Seq(Segment) /\ Len(<<>>) = 0 /\ 1..0 = {} /\ 0 <= Len(segs)
    BY <1>1, SMT
  <2>2. f[0].node = <<>> /\ f[0].wild = Nil /\ f[0] \in Ats
    BY <1>1, StartAt
  <2>3. <<>> \in DOMAIN trie
    BY DEF Inv
  <2>4. OnPath(f[0], 0, segs)
    BY <2>1, <2>2, <2>3, StartAt, <1>1 DEF OnPath, Leads
  <2> QED
    BY <2>4, SMT
<1>3. ASSUME NEW k \in 0..Len(segs), k \in S, k < Len(segs) PROVE k + 1 \in S
  <2>1. PICK at, to : at = f[k] /\ to = f[k + 1]
    OBVIOUS
  <2>2. OnPath(at, k, segs) /\ k \in Nat
    BY <1>3, <2>1
  <2>3. PICK seg \in Segment : seg = segs[k + 1]
    BY <1>1, <1>3
  <2>4. at \in Ats /\ to = Descend(trie, at, seg)
    BY <1>1, <1>3, <2>1, <2>2, <2>3 DEF OnPath
  <2>5. to \in Ats /\ Turn(trie, at, seg, to)
    BY <2>4, DescendTurns
  <2>6. at.node \in Seq(Segment) /\ Leads(at.node, segs) /\ (~at.dead => Len(at.node) = k)
    BY <2>2 DEF OnPath, Ats
  <2>7. "*" \in Segment
    BY DEF Segment
  <2>8. PICK exact, star : exact = Append(at.node, seg) /\ star = Append(at.node, "*")
    OBVIOUS
  <2>9. ~at.dead => /\ Leads(exact, segs) /\ Len(exact) = k + 1
                    /\ Leads(star, segs) /\ Len(star) = k + 1
                    /\ Len(star) > 0 /\ star[Len(star)] = "*"
    <3> SUFFICES ASSUME ~at.dead
                 PROVE  /\ Leads(exact, segs) /\ Len(exact) = k + 1
                        /\ Leads(star, segs) /\ Len(star) = k + 1
                        /\ Len(star) > 0 /\ star[Len(star)] = "*"
      OBVIOUS
    <3>1. PICK n \in Seq(Segment) : n = at.node
      BY <2>6
    <3>2. k = Len(n) /\ Len(n) < Len(segs) /\ Leads(n, segs) /\ segs \in Seq(Segment)
      BY <1>1, <1>3, <2>6, <3>1
    <3>3. seg \in {"*", segs[Len(n) + 1]} /\ "*" \in {"*", segs[Len(n) + 1]}
      BY <2>3, <3>2
    <3>4. Leads(Append(n, seg), segs) /\ Len(Append(n, seg)) = Len(n) + 1
      BY <3>2, <3>3, LeadsOn
    <3>5. /\ Leads(Append(n, "*"), segs) /\ Len(Append(n, "*")) = Len(n) + 1
          /\ Len(Append(n, "*")) > 0 /\ Append(n, "*")[Len(Append(n, "*"))] = "*"
      BY <2>7, <3>2, <3>3, LeadsOn
    <3> QED
      BY <2>8, <3>1, <3>2, <3>4, <3>5
  <2>10. \/ at.dead /\ to = at
         \/ ~at.dead /\ exact \in DOMAIN trie /\ to.node = exact /\ ~to.dead /\ to.wild \in {star, at.wild}
            /\ (to.wild = star => star \in DOMAIN trie \/ star = at.wild)
         \/ ~at.dead /\ star \in DOMAIN trie /\ to.node = star /\ ~to.dead /\ to.wild = star
         \/ ~at.dead /\ to.node = at.node /\ to.dead /\ to.wild = at.wild
    BY <2>5, <2>8 DEF Turn
  <2>11. OnPath(to, k + 1, segs)
    BY <2>2, <2>5, <2>9, <2>10 DEF OnPath
  <2> QED
    BY <2>1, <2>2, <2>11, SMT
<1>4. \A k \in 0..Len(segs) : k \in S
  BY <1>1, <1>2, <1>3, Climb
<1>5. Len(segs) \in S
  BY <1>1, <1>4, SMT
<1> QED
  BY <1>1, <1>5

(***************************************************************************)
(* MatchSound: whatever routes are configured, the limiter match_route     *)
(* picks is that of a route whose segments fit the path and which lists    *)
(* the method.                                                             *)
(***************************************************************************)
THEOREM MatchIsSound == Spec => []MatchSound
<1>1. Inv => MatchSound
  <2> SUFFICES ASSUME Inv, NEW q \in Queries, Found(q) # Nil
               PROVE  Fits(Found(q), q[2]) /\ ForMethod(Found(q), q[1])
    BY DEF MatchSound
  <2>1. PICK path, method : path = q[2] /\ method = q[1] /\ path \in Seq(Segment)
    BY SegsOf DEF Queries
  <2>2. PICK at, segs : at = Walk(trie, path) /\ segs = SplitPath(path)
    OBVIOUS
  <2>3. OnPath(at, Len(segs), segs)
    BY <2>1, <2>2, StaysOnPath
  <2>4. \E n \in DOMAIN trie :
           /\ Found(q) = LimiterAt(trie, n, Upper[method]) /\ Leads(n, segs)
           /\ Len(n) = Len(segs) \/ (Len(n) > 0 /\ n[Len(n)] = "*")
    <3>1. PICK m : m = MatchRoute(trie, method, path)
      OBVIOUS
    <3>2. \/ ~at.dead /\ m = LimiterAt(trie, at.node, Upper[method])
          \/ at.wild # Nil /\ m = LimiterAt(trie, at.wild, Upper[method])
          \/ m = Nil
      BY <2>2, <3>1, MatchIs
    <3>3. m = Found(q)
      BY <2>1, <3>1 DEF Found
    <3> QED
      BY <2>3, <3>2, <3>3 DEF OnPath
  <2>5. PICK n \in DOMAIN trie :
           /\ Found(q) = LimiterAt(trie, n, Upper[method]) /\ Leads(n, segs)
           /\ Len(n) = Len(segs) \/ (Len(n) > 0 /\ n[Len(n)] = "*")
    BY <2>4
  <2>6. PICK v : v = Found(q)
    OBVIOUS
  <2>7. /\ v \in 1..Len(routes) /\ Segs(v) = n
        /\ Upper[method] \in MethodKeys(routes[v]) \/ "" \in MethodKeys(routes[v])
    BY <2>5, <2>6, LimiterIs
  <2>8. Fits(v, path)
    BY <2>2, <2>5, <2>7 DEF Fits, Leads
  <2> QED
    BY <2>1, <2>6, <2>7, <2>8 DEF ForMethod
<1> QED
  BY <1>1, Invariance, PTL

----------------------------------------------------------------------------
\* A path that a route spells out leads match_route to that route's node.
LEMMA ExactWalk ==
    ASSUME Inv, NEW path \in Seq(Segment), NEW i \in 1..Len(routes), Segs(i) = SplitPath(path)
    PROVE  ~Walk(trie, path).dead /\ Walk(trie, path).node = SplitPath(path)
<1>0. PICK segs, f : Run(trie, path, segs, f)
  BY WalkIs
<1>1. /\ segs = SplitPath(path) /\ segs \in Seq(Segment) /\ Len(segs) \in Nat
      /\ Walk(trie, path) = f[Len(segs)] /\ f[0] = Start
      /\ \A k \in 0..Len(segs) :
            k < Len(segs) => /\ k + 1 \in 1..Len(segs) /\ segs[k + 1] \in Segment
                             /\ f[k + 1] = Descend(trie, f[k], segs[k + 1])
  BY <1>0 DEF Run
<1>2. \A k \in 0..Len(segs) : SubSeq(segs, 1, k) \in DOMAIN trie
  BY <1>1 DEF Inv, Stored
<1> PICK S : S = {k \in Nat : f[k] \in Ats /\ ~f[k].dead /\ f[k].node = SubSeq(segs, 1, k)}
  OBVIOUS
<1>3. 0 \in S
  <2>1. SubSeq(segs, 1, 0) = <<>> /\ 0 \in Nat
    BY <1>1, SMT
  <2> QED
    BY <1>1, <2>1, StartAt
<1>4. ASSUME NEW k \in 0..Len(segs), k \in S, k < Len(segs) PROVE k + 1 \in S
  <2>1. PICK at, to : at = f[k] /\ to = f[k + 1]
    OBVIOUS
  <2>2. PICK seg \in Segment : seg = segs[k + 1]
    BY <1>1, <1>4
  <2>3. at \in Ats /\ ~at.dead /\ at.node = SubSeq(segs, 1, k) /\ to = Descend(trie, at, seg)
    BY <1>1, <1>4, <2>1, <2>2
  <2>4. to \in Ats /\ Turn(trie, at, seg, to)
    BY <2>3, DescendTurns
  <2>5. Append(SubSeq(segs, 1, k), segs[k + 1]) = SubSeq(segs, 1, k + 1) /\ k + 1 \in 0..Len(segs)
    BY <1>1, <1>4, PrefixOn
  <2>6. Append(at.node, seg) \in DOMAIN trie
    BY <1>2, <2>2, <2>3, <2>5
  <2>7. ~to.dead /\ to.node = Append(at.node, seg)
    BY <2>3, <2>4, <2>6 DEF Turn
  <2>8. k + 1 \in Nat
    BY <1>1, <1>4, SMT
  <2> QED
    BY <2>1, <2>2, <2>3, <2>4, <2>5, <2>7, <2>8
<1>5. \A k \in 0..Len(segs) : k \in S
  BY <1>1, <1>3, <1>4, Climb
<1>6. Len(segs) \in S
  BY <1>1, <1>5, SMT
<1>7. SubSeq(segs, 1, Len(segs)) = segs
  BY <1>1, SMT
<1> QED
  BY <1>1, <1>6, <1>7

(***************************************************************************)
(* ExactRouteWins: whatever routes are configured, in whatever order, a    *)
(* request that some routes spell out is limited by one of them, by the    *)
(* last that names its method if there is one.  Wildcards beside its path  *)
(* do not change that.                                                     *)
(***************************************************************************)
THEOREM ExactWins == Spec => []ExactRouteWins
<1>1. Inv => ExactRouteWins
  <2> SUFFICES ASSUME Inv, NEW q \in Queries, NEW e \in 1..Len(routes),
                      Segs(e) = SplitPath(q[2]), ForMethod(e, q[1])
               PROVE  /\ Found(q) \in 1..Len(routes) /\ Segs(Found(q)) = SplitPath(q[2])
                      /\ ForMethod(Found(q), q[1])
                      /\ \A i \in 1..Len(routes) :
                            /\ Segs(i) = SplitPath(q[2]) /\ ForMethod(i, q[1])
                            /\ Upper[q[1]] \in MethodKeys(routes[i])
                            => Upper[q[1]] \in MethodKeys(routes[Found(q)]) /\ i <= Found(q)
    BY DEF ExactRouteWins
  <2>1. PICK path, method : path = q[2] /\ method = q[1] /\ path \in Seq(Segment)
    BY SegsOf DEF Queries
  <2>2. PICK at, segs : at = Walk(trie, path) /\ segs = SplitPath(path)
    OBVIOUS
  <2>3. ~at.dead /\ at.node = segs
    BY <2>1, <2>2, ExactWalk
  <2>4. segs \in DOMAIN trie /\ \A m \in MethodKeys(routes[e]) : m \in DOMAIN trie[segs]
    BY <2>1, <2>2 DEF Inv, Stored
  <2>5. PICK u, v : u = Upper[method] /\ v = LimiterAt(trie, segs, u)
    OBVIOUS
  <2>6. u \in DOMAIN trie[segs] \/ "" \in DOMAIN trie[segs]
    BY <2>1, <2>4, <2>5 DEF ForMethod
  <2>7. /\ v # Nil /\ v \in 1..Len(routes) /\ Segs(v) = segs
        /\ u \in MethodKeys(routes[v]) \/ "" \in MethodKeys(routes[v])
        /\ u \in DOMAIN trie[segs] => v = trie[segs][u]
    BY <2>4, <2>5, <2>6, LimiterIs
  <2>8. Found(q) = v
    <3>1. PICK m : m = MatchRoute(trie, method, path)
      OBVIOUS
    <3>2. \/ ~at.dead /\ m = LimiterAt(trie, at.node, Upper[method])
          \/ at.dead \/ LimiterAt(trie, at.node, Upper[method]) = Nil
      BY <2>2, <3>1, MatchIs
    <3>3. LimiterAt(trie, at.node, Upper[method]) = v
      BY <2>3, <2>5
    <3>4. m = v
      BY <2>3, <2>7, <3>2, <3>3
    <3> QED
      BY <2>1, <3>1, <3>4 DEF Found
  <2>9. ASSUME NEW i \in 1..Len(routes), Segs(i) = segs, u \in MethodKeys(routes[i])
        PROVE  u \in MethodKeys(routes[v]) /\ i <= v
    <3>1. u \in DOMAIN trie[segs] /\ i <= trie[segs][u]
      BY <2>9 DEF Inv, Stored
    <3>2. u \in MethodKeys(routes[trie[segs][u]])
      BY <2>4, <3>1 DEF Inv, Tabled
    <3> QED
      BY <2>7, <3>1, <3>2
  <2> QED
    BY <2>1, <2>2, <2>5, <2>7, <2>8, <2>9 DEF ForMethod
<1> QED
  BY <1>1, Invariance, PTL

----------------------------------------------------------------------------
(***************************************************************************)
(* Only route i, or routes with the same segments, have nodes where a walk *)
(* over segs can go.                                                       *)
(***************************************************************************)
Unrivalled(i, segs) ==
    \A j \in 1..Len(routes) :
        Segs(j) # <<>> /\ Segs(j)[1] \in {"*", segs[1]} => Segs(j) = Segs(i)

\* A node where such a walk can go is one of the route's.
LEMMA OnlyItsNodes ==
    ASSUME Inv, NEW i \in 1..Len(routes), NEW segs, Unrivalled(i, segs),
           NEW n \in DOMAIN trie, n # <<>>, n[1] \in {"*", segs[1]}
    PROVE  Len(n) \in 1..Len(Segs(i)) /\ n = SubSeq(Segs(i), 1, Len(n))
<1>1. PICK j \in 1..Len(routes) : \E k \in 0..Len(Segs(j)) : n = SubSeq(Segs(j), 1, k)
  BY DEF Inv, Made
<1>2. PICK w \in Seq(Segment) : w = Segs(j)
  BY SegsType
<1>3. PICK k \in 0..Len(w) : n = SubSeq(w, 1, k)
  BY <1>1, <1>2
<1>4. k # 0 /\ Len(n) = k /\ Len(n) \in 1..Len(w) /\ n[1] = w[1] /\ w # <<>>
  BY <1>3, SMT
<1>5. w = Segs(i)
  BY <1>2, <1>4 DEF Unrivalled
<1> QED
  BY <1>3, <1>4, <1>5

(***************************************************************************)
(* Where match_route may be after k segments of a path that route i fits,  *)
(* w being the route's segments: on its way to the route's node, or beyond *)
(* it with the node as its fallback.                                       *)
(***************************************************************************)
Heading(at, k, w) ==
    /\ at \in Ats
    /\ k <= Len(w) => ~at.dead /\ at.node = SubSeq(w, 1, k)
    /\ k >= Len(w) /\ w[Len(w)] = "*" => at.wild = w
    /\ k > Len(w) => at.dead

\* A path that a route without rivals fits leads match_route there.
LEMMA LoneWalk ==
    ASSUME Inv, NEW path \in Seq(Segment), NEW i \in 1..Len(routes), Segs(i) # <<>>,
           Fits(i, path), Unrivalled(i, SplitPath(path))
    PROVE  Heading(Walk(trie, path), Len(SplitPath(path)), Segs(i))
<1>0. PICK segs, f : Run(trie, path, segs, f)
  BY WalkIs
<1>1. /\ segs = SplitPath(path) /\ segs \in Seq(Segment) /\ Len(segs) \in Nat
      /\ Walk(trie, path) = f[Len(segs)] /\ f[0] = Start
      /\ \A k \in 0..Len(segs) :
            k < Len(segs) => /\ k + 1 \in 1..Len(segs) /\ segs[k + 1] \in Segment
                             /\ f[k + 1] = Descend(trie, f[k], segs[k + 1])
  BY <1>0 DEF Run
<1>2. PICK w \in Seq(Segment) : w = Segs(i)
  BY SegsType
<1>3. /\ Len(w) \in Nat /\ Len(w) > 0 /\ Len(w) <= Len(segs)
      /\ \A k \in 1..Len(w) : w[k] \in {"*", segs[k]}
  <2>1. Len(w) <= Len(segs) /\ \A k \in 1..Len(w) : w[k] \in {"*", segs[k]}
    BY <1>1, <1>2 DEF Fits
  <2>2. w # <<>>
    BY <1>2
  <2>3. Len(w) \in Nat /\ Len(w) > 0
    BY <2>2, SMT
  <2> QED
    BY <2>1, <2>3
<1>4. \A k \in 0..Len(w) : SubSeq(w, 1, k) \in DOMAIN trie
  BY <1>2 DEF Inv, Stored
<1>5. Unrivalled(i, segs)
  BY <1>1
<1> PICK S : S = {k \in Nat : Heading(f[k], k, w)}
  OBVIOUS
<1>6. 0 \in S
  <2>1. SubSeq(w, 1, 0) = <<>> /\ 0 \in Nat /\ ~ (0 >= Len(w)) /\ ~ (0 > Len(w))
    BY <1>3, SMT
  <2>2. Heading(f[0], 0, w)
    BY <1>1, <2>1, StartAt DEF Heading
  <2> QED
    BY <2>1, <2>2
<1>7. ASSUME NEW k \in 0..Len(segs), k \in S, k < Len(segs) PROVE k + 1 \in S
  <2>0. k \in Nat /\ k + 1 \in Nat
    BY <1>1, <1>7, SMT
  <2>1. PICK at, to : at = f[k] /\ to = f[k + 1]
    OBVIOUS
  <2>2. PICK seg \in Segment : seg = segs[k + 1]
    BY <1>1, <1>7
  <2>3. at \in Ats /\ Heading(at, k, w) /\ to = Descend(trie, at, seg)
    BY <1>1, <1>7, <2>1, <2>2 DEF Heading
  <2>4. to \in Ats /\ Turn(trie, at, seg, to)
    BY <2>3, DescendTurns
  <2>5. CASE k < Len(w)
    <3>1. k \in 0..Len(w) /\ k + 1 \in 1..Len(w) /\ k <= Len(w) /\ ~ (k + 1 > Len(w))
      BY <1>3, <2>0, <2>5, SMT
    <3>2. ~at.dead /\ at.node = SubSeq(w, 1, k)
      BY <2>3, <3>1 DEF Heading
    <3>3. PICK n \in Seq(Segment) : n = at.node /\ Len(n) = k
      <4>1. SubSeq(w, 1, k) \in Seq(Segment) /\ Len(SubSeq(w, 1, k)) = k
        BY <3>1, SMT
      <4> QED
        BY <3>2, <4>1
    <3>4. ASSUME NEW x \in Segment, x \in {"*", seg}, Append(n, x) \in DOMAIN trie
          PROVE  Append(n, x) = SubSeq(w, 1, k + 1)
      <4>1. /\ Append(n, x) # <<>> /\ Len(Append(n, x)) = k + 1
            /\ \A j \in 1..k : Append(n, x)[j] = n[j]
            /\ Append(n, x)[k + 1] = x
        <5>1. /\ Append(n, x) # <<>> /\ Len(Append(n, x)) = Len(n) + 1
              /\ \A j \in 1..Len(n) : Append(n, x)[j] = n[j]
              /\ Append(n, x)[Len(n) + 1] = x
          BY <3>3, <3>4, AppendSegment
        <5> QED
          BY <3>3, <5>1
      <4>2. Append(n, x)[1] \in {"*", segs[1]}
        <5>1. CASE k = 0
          BY <2>2, <3>4, <4>1, <5>1, SMT
        <5>2. CASE k # 0
          <6>1. 1 \in 1..k /\ 1 \in 1..Len(w)
            BY <2>0, <3>1, <5>2, SMT
          <6>2. n[1] = w[1]
            BY <3>2, <3>3, <6>1, SMT
          <6> QED
            BY <1>3, <4>1, <6>1, <6>2
        <5> QED
          BY <5>1, <5>2
      <4> QED
        BY <1>2, <1>5, <3>4, <4>1, <4>2, OnlyItsNodes
    <3>5. w[k + 1] \in {"*", seg} /\ w[k + 1] \in Segment
      BY <1>3, <2>2, <3>1, SMT
    <3>6. Append(n, w[k + 1]) = SubSeq(w, 1, k + 1) /\ Append(n, w[k + 1]) \in DOMAIN trie
      <4>1. Append(SubSeq(w, 1, k), w[k + 1]) = SubSeq(w, 1, k + 1) /\ k + 1 \in 0..Len(w)
        BY <2>5, <3>1, PrefixOn
      <4> QED
        BY <1>4, <3>2, <3>3, <4>1
    <3>7. "*" \in Segment
      BY DEF Segment
    <3>8. \/ Append(n, seg) \in DOMAIN trie
          \/ Append(n, "*") \in DOMAIN trie
      BY <3>5, <3>6
    <3>9. ~to.dead /\ to.node = SubSeq(w, 1, k + 1)
      BY <2>2, <2>4, <3>2, <3>3, <3>4, <3>7, <3>8 DEF Turn
    <3>10. ASSUME k + 1 >= Len(w), w[Len(w)] = "*" PROVE to.wild = w
      <4>1. k + 1 = Len(w) /\ SubSeq(w, 1, k + 1) = w
        BY <1>3, <2>0, <3>1, <3>10, SMT
      <4>2. Append(n, "*") = w /\ Append(n, "*") \in DOMAIN trie
        BY <3>6, <3>10, <4>1
      <4> QED
        BY <2>4, <3>2, <3>3, <4>2 DEF Turn
    <3> QED
      BY <2>0, <2>1, <2>4, <3>1, <3>9, <3>10 DEF Heading
  <2>6. CASE k = Len(w)
    <3>1. k <= Len(w) /\ k >= Len(w) /\ ~ (k + 1 <= Len(w)) /\ k + 1 > Len(w) /\ k > 0
      BY <1>3, <2>6, SMT
    <3>2. at.node = w /\ ~at.dead /\ (w[Len(w)] = "*" => at.wild = w)
      <4>1. SubSeq(w, 1, k) = w
        BY <2>6, SMT
      <4> QED
        BY <2>3, <3>1, <4>1 DEF Heading
    <3>3. ASSUME NEW x \in Segment PROVE Append(w, x) \notin DOMAIN trie
      <4> SUFFICES ASSUME Append(w, x) \in DOMAIN trie PROVE FALSE
        OBVIOUS
      <4>1. /\ Append(w, x) # <<>> /\ Len(Append(w, x)) = Len(w) + 1
            /\ \A j \in 1..Len(w) : Append(w, x)[j] = w[j]
        BY <1>2, <3>3, AppendSegment
      <4>2. 1 \in 1..Len(w)
        BY <1>3, SMT
      <4>3. Append(w, x)[1] \in {"*", segs[1]}
        BY <1>3, <4>1, <4>2
      <4>4. Len(w) + 1 \in 1..Len(w)
        BY <1>2, <1>5, <4>1, <4>3, OnlyItsNodes
      <4> QED
        BY <1>3, <4>4, SMT
    <3>4. "*" \in Segment
      BY DEF Segment
    <3>5. to.dead /\ to.wild = at.wild
      BY <2>4, <3>2, <3>3, <3>4 DEF Turn
    <3> QED
      BY <2>0, <2>1, <2>4, <3>1, <3>2, <3>5 DEF Heading
  <2>7. CASE k > Len(w)
    <3>1. k >= Len(w) /\ ~ (k + 1 <= Len(w))
      BY <1>3, <2>0, <2>7, SMT
    <3>2. at.dead /\ (w[Len(w)] = "*" => at.wild = w)
      BY <2>3, <2>7, <3>1 DEF Heading
    <3>3. to = at
      BY <2>4, <3>2 DEF Turn
    <3> QED
      BY <2>0, <2>1, <2>4, <3>1, <3>2, <3>3 DEF Heading
  <2> QED
    BY <1>3, <2>0, <2>5, <2>6, <2>7, SMT
<1>8. \A k \in 0..Len(segs) : k \in S
  BY <1>1, <1>6, <1>7, Climb
<1>9. Len(segs) \in S
  BY <1>1, <1>8, SMT
<1> QED
  BY <1>1, <1>2, <1>9

(***************************************************************************)
(* LoneRouteFound: a request that a route fits gets a limiter, whatever    *)
(* the other routes are, if none of them leads the walk away.              *)
(***************************************************************************)
THEOREM LoneFound == Spec => []LoneRouteFound
<1>1. Inv => LoneRouteFound
  <2> SUFFICES ASSUME Inv, NEW q \in Queries, NEW i \in 1..Len(routes), Fits(i, q[2]),
                      ForMethod(i, q[1]), Segs(i) # <<>>, Rivals(i, q[2]) = {}
               PROVE  Found(q) # Nil
    BY DEF LoneRouteFound
  <2>1. PICK path, method : path = q[2] /\ method = q[1] /\ path \in Seq(Segment)
    BY SegsOf DEF Queries
  <2>2. PICK at, segs : at = Walk(trie, path) /\ segs = SplitPath(path)
    OBVIOUS
  <2>3. Unrivalled(i, segs)
    BY <2>1, <2>2 DEF Unrivalled, Rivals
  <2>4. PICK w : w = Segs(i) /\ w \in Seq(Segment) /\ w # Nil /\ Len(w) \in Nat
    BY SegsType
  <2>5. Heading(at, Len(segs), w)
    BY <2>1, <2>2, <2>3, <2>4, LoneWalk
  <2>6. w \in DOMAIN trie /\ \A m \in MethodKeys(routes[i]) : m \in DOMAIN trie[w]
    BY <2>4 DEF Inv, Stored
  <2>7. LimiterAt(trie, w, Upper[method]) # Nil
    BY <2>1, <2>6, LimiterIs DEF ForMethod
  <2>8. PICK m : m = MatchRoute(trie, method, path)
    OBVIOUS
  <2>9. \/ ~at.dead /\ m = LimiterAt(trie, at.node, Upper[method]) /\ m # Nil
        \/ /\ at.dead \/ LimiterAt(trie, at.node, Upper[method]) = Nil
           /\ at.wild # Nil => m = LimiterAt(trie, at.wild, Upper[method])
    BY <2>2, <2>8, MatchIs
  <2>10. m # Nil
    <3>1. CASE Len(w) = Len(segs)
      <4>1. SubSeq(w, 1, Len(w)) = w /\ Len(w) <= Len(w)
        BY <2>4, SMT
      <4>2. ~at.dead /\ at.node = w
        BY <2>5, <3>1, <4>1 DEF Heading
      <4> QED
        BY <2>7, <2>9, <4>2
    <3>2. CASE Len(w) # Len(segs)
      <4>1. Len(w) <= Len(segs) /\ Len(w) > 0 /\ w[Len(w)] = "*"
        BY <2>1, <2>2, <2>4, <3>2 DEF Fits
      <4>2. Len(segs) \in Nat
        BY <2>1, <2>2, SplitPathSeq, SMT
      <4>3. Len(segs) >= Len(w) /\ Len(segs) > Len(w)
        BY <2>4, <3>2, <4>1, <4>2, SMT
      <4>4. at.wild = w /\ at.dead
        BY <2>5, <4>1, <4>3 DEF Heading
      <4> QED
        BY <2>4, <2>7, <2>9, <4>4
    <3> QED
      BY <3>1, <3>2
  <2> QED
    BY <2>1, <2>8, <2>10 DEF Found
<1> QED
  BY <1>1, Invariance, PTL

\* The routes stay within their bound, every node's ancestors are there, and
\* limiters stand at the nodes of their routes' segments.
THEOREM RoutesTyped == Spec => []TypeOK
<1>1. Inv => TypeOK
  <2> SUFFICES ASSUME Inv, NEW n \in DOMAIN trie
               PROVE  /\ \A k \in 0..Len(n) : SubSeq(n, 1, k) \in DOMAIN trie
                      /\ \A m \in DOMAIN trie[n] : Segs(trie[n][m]) = n
    BY DEF TypeOK, Inv
  <2>1. \A m \in DOMAIN trie[n] : Segs(trie[n][m]) = n
    BY DEF Inv, Tabled
  <2>2. ASSUME NEW k \in 0..Len(n) PROVE SubSeq(n, 1, k) \in DOMAIN trie
    <3>1. CASE n = <<>>
      <4>1. SubSeq(n, 1, k) = <<>>
        BY <2>2, <3>1, SMT
      <4> QED
        BY <4>1 DEF Inv
    <3>2. CASE n # <<>>
      <4>1. PICK i \in 1..Len(routes) : \E j \in 0..Len(Segs(i)) : n = SubSeq(Segs(i), 1, j)
        BY <3>2 DEF Inv, Made
      <4>2. PICK w \in Seq(Segment) : w = Segs(i)
        BY SegsType
      <4>3. PICK j \in 0..Len(w) : n = SubSeq(w, 1, j)
        BY <4>1, <4>2
      <4>4. k \in 0..Len(w) /\ SubSeq(n, 1, k) = SubSeq(w, 1, k)
        BY <2>2, <4>3, SMT
      <4> QED
        BY <4>2, <4>4 DEF Inv, Stored
    <3> QED
      BY <3>1, <3>2
  <2> QED
    BY <2>1, <2>2
<1> QED
  BY <1>1, Invariance, PTL
=============================================================================
