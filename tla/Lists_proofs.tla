---------------------------- MODULE Lists_proofs ----------------------------
(***************************************************************************)
(* Lemmas about lists that the proofs about the components cite.  What is  *)
(* said of Select needs induction over the length of a list; Induction is  *)
(* that principle in a first-order form, for a set of naturals.            *)
(***************************************************************************)
EXTENDS Lists, SequencesExt, SequenceTheorems, WellFoundedInduction, TLAPS

-----------------------------------------------------------------------------
(* Induction *)

LEMMA LessThanIsWellFounded ==
  IsWellFoundedOn({ss \in Nat \X Nat : ss[1] < ss[2]}, Nat)
BY NatLessThanWellFounded, Zenon DEF OpToRel

\* A set of naturals has a least element.
LEMMA LeastElement ==
  ASSUME NEW T \in SUBSET Nat, T # {}
  PROVE  \E x \in T : \A y \in T : x <= y
<1> DEFINE R == {ss \in Nat \X Nat : ss[1] < ss[2]}
<1>1. IsWellFoundedOn(R, Nat)
  BY LessThanIsWellFounded
<1> HIDE DEF R
<1>2. PICK x \in T : \A y \in T : ~(<<y, x>> \in R)
  BY <1>1, WFMin
<1>3. ASSUME NEW y \in T
      PROVE  x <= y
  <2>1. ~(<<y, x>> \in R)
    BY <1>2
  <2> QED
    BY <2>1 DEF R
<1> QED
  BY <1>2, <1>3

\* A set that has 0 and the successor of each of its elements has them all.
LEMMA Induction ==
  ASSUME NEW P \in SUBSET Nat, 0 \in P, \A n \in P : n + 1 \in P
  PROVE  P = Nat
<1> DEFINE T == Nat \ P
<1> SUFFICES ASSUME T # {}
             PROVE  FALSE
  OBVIOUS
<1>1. PICK x \in T : \A y \in T : x <= y
  BY LeastElement
<1>2. x \in Nat /\ x # 0 /\ x \notin P
  OBVIOUS
<1>3. x - 1 \in Nat /\ x - 1 \notin T
  BY <1>1, <1>2
<1> QED
  BY <1>2, <1>3

-----------------------------------------------------------------------------
(* Recursion *)

\* f starts with first and goes on with Step.
Follows(f, N, first, Step) ==
  f[0] = first /\ \A i \in 1 .. N : f[i] = Step[i][f[i - 1]]

\* A function may be defined by recursion.
LEMMA Recursion ==
  ASSUME NEW N \in Nat, NEW S, NEW first \in S, NEW Step \in [1 .. N -> [S -> S]]
  PROVE  \E f \in [0 .. N -> S] : Follows(f, N, first, Step)
<1> DEFINE Rec(f, n) == f = [i \in 0 .. n |-> IF i = 0 THEN first ELSE Step[i][f[i - 1]]]
           P == {n \in Nat : n <= N => \E f \in [0 .. n -> S] : Rec(f, n)}
<1>1. 0 \in P
  <2> DEFINE f == [i \in 0 .. 0 |-> first]
  <2>1. f \in [0 .. 0 -> S] /\ Rec(f, 0)
    OBVIOUS
  <2> QED
    BY <2>1
<1>2. ASSUME NEW n \in P
      PROVE  n + 1 \in P
  <2>0. n \in Nat /\ n + 1 \in Nat
    OBVIOUS
  <2> SUFFICES ASSUME n + 1 <= N
               PROVE  \E f \in [0 .. n + 1 -> S] : Rec(f, n + 1)
    <3> HIDE DEF Rec
    <3> QED
      BY <2>0
  <2>1. PICK f \in [0 .. n -> S] : Rec(f, n)
    OBVIOUS
  <2> DEFINE g == [i \in 0 .. n + 1 |-> IF i <= n THEN f[i] ELSE Step[n + 1][f[n]]]
  <2>2. n \in Nat /\ n + 1 \in 1 .. N /\ f[n] \in S
    OBVIOUS
  <2>3. Step[n + 1][f[n]] \in S
    BY <2>2
  <2>4. g \in [0 .. n + 1 -> S]
    BY <2>2, <2>3
  <2>5. ASSUME NEW i \in 0 .. n + 1
        PROVE  g[i] = IF i = 0 THEN first ELSE Step[i][g[i - 1]]
    <3>1. CASE i = 0
      BY <2>1, <2>2, <3>1
    <3>2. CASE i \in 1 .. n
      <4>1. i \in 0 .. n /\ i - 1 \in 0 .. n /\ i # 0
        BY <2>2, <3>2
      <4>2. g[i] = f[i] /\ g[i - 1] = f[i - 1]
        BY <2>2, <4>1
      <4>3. f[i] = Step[i][f[i - 1]]
        BY <2>1, <4>1
      <4> QED
        BY <4>1, <4>2, <4>3
    <3>3. CASE i = n + 1
      <4>1. g[i] = Step[n + 1][f[n]] /\ g[i - 1] = f[n] /\ i # 0
        BY <2>2, <3>3
      <4> QED
        BY <3>3, <4>1
    <3> QED
      BY <2>2, <3>1, <3>2, <3>3
  <2> HIDE DEF g
  <2>6. Rec(g, n + 1)
    BY <2>4, <2>5
  <2> QED
    BY <2>4, <2>6
<1>3. P = Nat
  <2>1. P \in SUBSET Nat
    OBVIOUS
  <2> HIDE DEF P
  <2> QED
    BY <1>1, <1>2, <2>1, Induction
<1>4. PICK f \in [0 .. N -> S] : Rec(f, N)
  <2>1. N \in P /\ N <= N
    BY <1>3
  <2> HIDE DEF Rec
  <2> QED
    BY <2>1
<1>5. Follows(f, N, first, Step)
  BY <1>4 DEF Follows
<1> QED
  BY <1>5

-----------------------------------------------------------------------------
(* Adding and removing elements *)

\* RemoveAt, as erase of a list.
LEMMA RemoveAtProperties ==
  ASSUME NEW S, NEW s \in Seq(S), NEW i \in DOMAIN s
  PROVE  /\ RemoveAt(s, i) \in Seq(S)
         /\ Len(RemoveAt(s, i)) = Len(s) - 1
         /\ \A k \in 1 .. Len(s) - 1 :
              RemoveAt(s, i)[k] = IF k < i THEN s[k] ELSE s[k + 1]
<1> DEFINE a == SubSeq(s, 1, i - 1)
           b == SubSeq(s, i + 1, Len(s))
<1>1. i \in 1 .. Len(s) /\ Len(s) \in Nat
  BY LenProperties
<1>2. /\ a \in Seq(S) /\ Len(a) = i - 1
      /\ \A k \in 1 .. i - 1 : a[k] = s[k]
  BY <1>1
<1>3. /\ b \in Seq(S) /\ Len(b) = Len(s) - i
      /\ \A k \in 1 .. Len(s) - i : b[k] = s[i + k]
  BY <1>1
<1> HIDE DEF a, b
<1>4. /\ a \o b \in Seq(S)
      /\ Len(a \o b) = Len(a) + Len(b)
      /\ \A k \in 1 .. Len(a) + Len(b) :
           (a \o b)[k] = IF k <= Len(a) THEN a[k] ELSE b[k - Len(a)]
  BY <1>2, <1>3, ConcatProperties
<1>5. Len(a \o b) = Len(s) - 1
  BY <1>1, <1>2, <1>3, <1>4
<1>6. ASSUME NEW k \in 1 .. Len(s) - 1
      PROVE  (a \o b)[k] = IF k < i THEN s[k] ELSE s[k + 1]
  <2>1. k \in 1 .. Len(a) + Len(b)
    BY <1>1, <1>2, <1>3
  <2>2. CASE k < i
    BY <1>1, <1>2, <1>4, <2>1, <2>2
  <2>3. CASE k >= i
    <3>1. k - (i - 1) \in 1 .. Len(s) - i
      BY <1>1, <2>3
    <3>2. (a \o b)[k] = b[k - (i - 1)]
      BY <1>1, <1>2, <1>4, <2>1, <2>3
    <3>3. b[k - (i - 1)] = s[i + (k - (i - 1))]
      BY <1>3, <3>1
    <3>4. i + (k - (i - 1)) = k + 1
      BY <1>1
    <3> QED
      BY <1>1, <2>3, <3>2, <3>3, <3>4
  <2>4. k < i \/ k >= i
    BY <1>1
  <2> QED
    BY <2>2, <2>3, <2>4
<1> QED
  BY <1>4, <1>5, <1>6 DEF RemoveAt, a, b

\* Front, as pop_back.
LEMMA FrontProperties ==
  ASSUME NEW S, NEW s \in Seq(S), s # <<>>
  PROVE  /\ Front(s) \in Seq(S) /\ Len(Front(s)) = Len(s) - 1
         /\ \A i \in 1 .. Len(s) - 1 : Front(s)[i] = s[i]
<1> DEFINE n == Len(s)  m == n - 1  t == SubSeq(s, 1, m)
<1>1. n \in Nat \ {0} /\ \A i \in 1 .. n : s[i] \in S
  BY EmptySeq, LenProperties, ElementOfSeq
<1>2. Front(s) = t
  BY DEF Front
<1> HIDE DEF n
<1>3. m \in Nat /\ \A i \in 1 .. m : s[i] \in S
  BY <1>1
<1> HIDE DEF m
<1>4. /\ t \in Seq(S) /\ Len(t) = IF 1 <= m THEN m - 1 + 1 ELSE 0
      /\ \A i \in 1 .. m - 1 + 1 : t[i] = s[1 + i - 1]
  BY <1>3, SubSeqProperties
<1> HIDE DEF t
<1>5. Len(t) = m /\ \A i \in 1 .. m : t[i] = s[i]
  BY <1>3, <1>4
<1> QED
  BY <1>2, <1>4, <1>5 DEF m, n

LEMMA HeadAndTail ==
  ASSUME NEW S, NEW s \in Seq(S), s # <<>>
  PROVE  Head(s) \in S /\ Tail(s) \in Seq(S)
  OBVIOUS

LEMMA RangeAppend ==
  ASSUME NEW S, NEW s \in Seq(S), NEW e \in S
  PROVE  Range(Append(s, e)) = Range(s) \cup {e}
<1> DEFINE a == Append(s, e)
<1>1. /\ DOMAIN s = 1 .. Len(s) /\ DOMAIN a = 1 .. Len(s) + 1 /\ Len(s) \in Nat
      /\ \A k \in 1 .. Len(s) : a[k] = s[k]
      /\ a[Len(s) + 1] = e
  BY AppendProperties, LenProperties
<1> HIDE DEF a
<1>2. Range(a) = Range(s) \cup {e}
  BY <1>1 DEF Range
<1> QED
  BY <1>2 DEF a

LEMMA RangeTail ==
  ASSUME NEW S, NEW s \in Seq(S), s # <<>>
  PROVE  Range(s) = Range(Tail(s)) \cup {Head(s)}
<1> DEFINE r == Tail(s)
<1>1. /\ DOMAIN s = 1 .. Len(s) /\ Len(s) \in Nat \ {0}
      /\ DOMAIN r = 1 .. Len(s) - 1
      /\ \A k \in 1 .. Len(s) - 1 : r[k] = s[k + 1]
      /\ Head(s) = s[1]
  BY HeadTailProperties, LenProperties, EmptySeq
<1> HIDE DEF r
<1>2. ASSUME NEW k \in 1 .. Len(s)
      PROVE  s[k] \in Range(r) \cup {s[1]}
  <2>1. k = 1 \/ (k - 1 \in 1 .. Len(s) - 1 /\ r[k - 1] = s[k])
    BY <1>1
  <2> QED
    BY <1>1, <2>1 DEF Range
<1>3. Range(r) \cup {s[1]} \subseteq Range(s)
  BY <1>1 DEF Range
<1>4. Range(s) \subseteq Range(r) \cup {s[1]}
  <2>1. Range(s) = {s[k] : k \in 1 .. Len(s)}
    BY <1>1 DEF Range
  <2> QED
    BY <1>2, <2>1
<1> QED
  BY <1>1, <1>3, <1>4 DEF r

LEMMA RemovedDomain ==
  ASSUME NEW S, NEW s \in Seq(S), NEW i \in DOMAIN s
  PROVE  /\ DOMAIN s = 1 .. Len(s) /\ Len(s) \in Nat \ {0} /\ i \in 1 .. Len(s)
         /\ DOMAIN RemoveAt(s, i) = 1 .. Len(s) - 1
         /\ \A k \in 1 .. Len(s) - 1 :
              RemoveAt(s, i)[k] = IF k < i THEN s[k] ELSE s[k + 1]
<1>1. DOMAIN s = 1 .. Len(s) /\ Len(s) \in Nat /\ i \in 1 .. Len(s)
  BY LenProperties
<1>2. /\ RemoveAt(s, i) \in Seq(S)
      /\ Len(RemoveAt(s, i)) = Len(s) - 1
      /\ \A k \in 1 .. Len(s) - 1 :
           RemoveAt(s, i)[k] = IF k < i THEN s[k] ELSE s[k + 1]
  BY RemoveAtProperties
<1>3. DOMAIN RemoveAt(s, i) = 1 .. Len(s) - 1
  BY <1>2, LenProperties
<1> QED
  BY <1>1, <1>2, <1>3

\* What is on a list after the i-th element was removed.
LEMMA RangeRemoveAt ==
  ASSUME NEW S, NEW s \in Seq(S), NEW i \in DOMAIN s
  PROVE  /\ Range(RemoveAt(s, i)) \subseteq Range(s)
         /\ Range(s) \subseteq Range(RemoveAt(s, i)) \cup {s[i]}
<1> DEFINE r == RemoveAt(s, i)
<1>1. /\ DOMAIN s = 1 .. Len(s) /\ Len(s) \in Nat \ {0} /\ i \in 1 .. Len(s)
      /\ DOMAIN r = 1 .. Len(s) - 1
      /\ \A k \in 1 .. Len(s) - 1 : r[k] = IF k < i THEN s[k] ELSE s[k + 1]
  BY RemovedDomain
<1> HIDE DEF r
<1>2. ASSUME NEW k \in 1 .. Len(s) - 1 PROVE r[k] \in Range(s)
  <2>1. k \in 1 .. Len(s) /\ k + 1 \in 1 .. Len(s)
    BY <1>1
  <2> QED
    BY <1>1, <2>1 DEF Range
<1>3. ASSUME NEW k \in 1 .. Len(s) PROVE s[k] \in Range(r) \cup {s[i]}
  <2>1. CASE k < i
    <3>1. k \in 1 .. Len(s) - 1 /\ r[k] = s[k]
      BY <1>1, <2>1
    <3> QED
      BY <1>1, <3>1 DEF Range
  <2>2. CASE k > i
    <3>1. k - 1 \in 1 .. Len(s) - 1 /\ r[k - 1] = s[k]
      BY <1>1, <2>2
    <3> QED
      BY <1>1, <3>1 DEF Range
  <2> QED
    BY <1>1, <2>1, <2>2
<1> QED
  BY <1>1, <1>2, <1>3 DEF r, Range

LEMMA DistinctAfterRemoveAt ==
  ASSUME NEW S, NEW s \in Seq(S), NEW i \in DOMAIN s,
         \A j, k \in DOMAIN s : s[j] = s[k] => j = k
  PROVE  /\ \A j, k \in DOMAIN RemoveAt(s, i) :
              RemoveAt(s, i)[j] = RemoveAt(s, i)[k] => j = k
         /\ s[i] \notin Range(RemoveAt(s, i))
<1> DEFINE r == RemoveAt(s, i)
<1>1. /\ DOMAIN s = 1 .. Len(s) /\ Len(s) \in Nat \ {0} /\ i \in 1 .. Len(s)
      /\ DOMAIN r = 1 .. Len(s) - 1
      /\ \A k \in 1 .. Len(s) - 1 : r[k] = IF k < i THEN s[k] ELSE s[k + 1]
  BY RemovedDomain
<1> HIDE DEF r
<1> DEFINE at(k) == IF k < i THEN k ELSE k + 1
<1>2. \A k \in DOMAIN r : at(k) \in DOMAIN s /\ r[k] = s[at(k)] /\ at(k) # i
  BY <1>1
<1>3. ASSUME NEW j \in DOMAIN r, NEW k \in DOMAIN r, r[j] = r[k]
      PROVE  j = k
  <2>1. at(j) = at(k)
    BY <1>2, <1>3
  <2> QED
    BY <1>1, <2>1
<1>4. ASSUME NEW k \in DOMAIN r PROVE r[k] # s[i]
  BY <1>2
<1> QED
  BY <1>3, <1>4 DEF r, Range

LEMMA DistinctAfterAppend ==
  ASSUME NEW S, NEW s \in Seq(S), NEW e \in S, e \notin Range(s),
         \A j, k \in DOMAIN s : s[j] = s[k] => j = k
  PROVE  \A j, k \in DOMAIN Append(s, e) :
           Append(s, e)[j] = Append(s, e)[k] => j = k
<1> DEFINE a == Append(s, e)
<1>1. /\ DOMAIN s = 1 .. Len(s) /\ DOMAIN a = 1 .. Len(s) + 1 /\ Len(s) \in Nat
      /\ \A k \in 1 .. Len(s) : a[k] = s[k]
      /\ a[Len(s) + 1] = e
  BY AppendProperties, LenProperties
<1>2. \A k \in DOMAIN s : s[k] # e
  BY DEF Range
<1> HIDE DEF a
<1>3. \A j, k \in DOMAIN a : a[j] = a[k] => j = k
  BY <1>1, <1>2
<1> QED
  BY <1>3 DEF a

-----------------------------------------------------------------------------
(* Select *)

\* The recursion in Select defines what it says.
LEMMA SelectUnfolds ==
  ASSUME NEW s, Len(s) \in Nat, NEW S
  PROVE  \E kept :
           /\ kept = [i \in 0 .. Len(s) |->
                        IF i = 0 THEN <<>>
                        ELSE IF s[i] \in S THEN Append(kept[i - 1], s[i])
                        ELSE kept[i - 1]]
           /\ Select(s, S) = kept[Len(s)]
<1> DEFINE Step(kept, i) == IF i = 0 THEN <<>>
                            ELSE IF s[i] \in S THEN Append(kept[i - 1], s[i])
                            ELSE kept[i - 1]
           P == {n \in Nat : \E kept : kept = [i \in 0 .. n |-> Step(kept, i)]}
<1>1. 0 \in P
  <2>1. [i \in 0 .. 0 |-> <<>>] = [i \in 0 .. 0 |-> Step([j \in 0 .. 0 |-> <<>>], i)]
    OBVIOUS
  <2> QED
    BY <2>1
<1>2. ASSUME NEW n \in P
      PROVE  n + 1 \in P
  <2>1. PICK kept : kept = [i \in 0 .. n |-> Step(kept, i)]
    OBVIOUS
  <2> DEFINE more == [i \in 0 .. n + 1 |-> IF i <= n THEN kept[i] ELSE Step(kept, i)]
  <2>2. ASSUME NEW i \in 0 .. n + 1
        PROVE  more[i] = Step(more, i)
    <3>1. Step(more, i) = Step(kept, i)
      OBVIOUS
    <3>2. i <= n => kept[i] = Step(kept, i)
      <4> HIDE DEF Step
      <4> QED
        BY <2>1
    <3> QED
      BY <3>1, <3>2
  <2>3. more = [i \in 0 .. n + 1 |-> more[i]]
    OBVIOUS
  <2> HIDE DEF more, Step
  <2>4. more = [i \in 0 .. n + 1 |-> Step(more, i)]
    BY <2>2, <2>3
  <2> QED
    BY <2>4
<1>3. P = Nat
  <2>1. P \in SUBSET Nat
    OBVIOUS
  <2> HIDE DEF P
  <2> QED
    BY <1>1, <1>2, <2>1, Induction
<1>4. \E kept : kept = [i \in 0 .. Len(s) |-> Step(kept, i)]
  BY <1>3
<1> DEFINE kept == CHOOSE f : f = [i \in 0 .. Len(s) |-> Step(f, i)]
<1>5. kept = [i \in 0 .. Len(s) |-> Step(kept, i)]
  <2> HIDE DEF Step
  <2> QED
    BY <1>4, Zenon
<1>6. Select(s, S) = kept[Len(s)]
  BY DEF Select
<1> QED
  BY <1>5, <1>6

\* r is what is in S of the first n elements of s, in their order: at says
\* where each element of r is in s.
Picks(r, s, n, S) ==
  \E at \in [1 .. Len(r) -> 1 .. n] :
    /\ \A j, k \in 1 .. Len(r) : j < k => at[j] < at[k]
    /\ \A k \in 1 .. Len(r) : r[k] = s[at[k]]
    /\ \A i \in 1 .. n : s[i] \in S => \E k \in 1 .. Len(r) : at[k] = i

LEMMA SelectPicks ==
  ASSUME NEW A, NEW s \in Seq(A), NEW S
  PROVE  Select(s, S) \in Seq(A \cap S) /\ Picks(Select(s, S), s, Len(s), S)
<1>1. PICK kept :
        /\ kept = [i \in 0 .. Len(s) |->
                     IF i = 0 THEN <<>>
                     ELSE IF s[i] \in S THEN Append(kept[i - 1], s[i])
                     ELSE kept[i - 1]]
        /\ Select(s, S) = kept[Len(s)]
  BY SelectUnfolds, LenProperties
<1> DEFINE P == {n \in Nat : n <= Len(s) =>
                   kept[n] \in Seq(A \cap S) /\ Picks(kept[n], s, n, S)}
<1>2. 0 \in P
  <2>1. kept[0] = <<>>
    BY <1>1, LenProperties
  <2>2. <<>> \in Seq(A \cap S) /\ Picks(<<>>, s, 0, S)
    <3> DEFINE at == [k \in 1 .. 0 |-> k]
    <3>1. Len(<<>>) = 0 /\ 1 .. 0 = {} /\ <<>> \in Seq(A \cap S)
      OBVIOUS
    <3>2. at \in [1 .. Len(<<>>) -> 1 .. 0]
      BY <3>1
    <3> HIDE DEF at
    <3> QED
      BY <3>1, <3>2 DEF Picks
  <2> QED
    BY <2>1, <2>2
<1>3. ASSUME NEW n \in P
      PROVE  n + 1 \in P
  <2> SUFFICES ASSUME n + 1 <= Len(s)
               PROVE  kept[n + 1] \in Seq(A \cap S) /\ Picks(kept[n + 1], s, n + 1, S)
    OBVIOUS
  <2> DEFINE r == kept[n]
  <2>1. n \in Nat /\ Len(s) \in Nat /\ n + 1 \in 1 .. Len(s) /\ s[n + 1] \in A
    BY LenProperties, ElementOfSeq
  <2>2. r \in Seq(A \cap S) /\ Picks(r, s, n, S)
    BY <2>1
  <2>3. kept[n + 1] = IF s[n + 1] \in S THEN Append(r, s[n + 1]) ELSE r
    <3>1. n + 1 \in 0 .. Len(s) /\ n + 1 # 0 /\ (n + 1) - 1 = n
      BY <2>1
    <3> HIDE DEF P
    <3> QED
      BY <1>1, <3>1
  <2> HIDE DEF r
  <2>4. Len(r) \in Nat /\ DOMAIN r = 1 .. Len(r)
    BY <2>2, LenProperties
  <2>5. PICK at \in [1 .. Len(r) -> 1 .. n] :
          /\ \A j, k \in 1 .. Len(r) : j < k => at[j] < at[k]
          /\ \A k \in 1 .. Len(r) : r[k] = s[at[k]]
          /\ \A i \in 1 .. n : s[i] \in S => \E k \in 1 .. Len(r) : at[k] = i
    BY <2>2 DEF Picks
  <2>6. CASE s[n + 1] \notin S
    <3>1. at \in [1 .. Len(r) -> 1 .. n + 1]
      BY <2>1
    <3>2. \A i \in 1 .. n + 1 : s[i] \in S => i \in 1 .. n
      BY <2>1, <2>6
    <3>3. Picks(r, s, n + 1, S)
      BY <2>5, <3>1, <3>2 DEF Picks
    <3> QED
      BY <2>2, <2>3, <2>6, <3>3
  <2>7. CASE s[n + 1] \in S
    <3> DEFINE t == Append(r, s[n + 1])
               further == [k \in 1 .. Len(r) + 1 |->
                             IF k = Len(r) + 1 THEN n + 1 ELSE at[k]]
    <3>1. /\ t \in Seq(A \cap S) /\ Len(t) = Len(r) + 1
          /\ \A k \in 1 .. Len(r) : t[k] = r[k]
          /\ t[Len(r) + 1] = s[n + 1]
      BY <2>1, <2>2, <2>7, AppendProperties
    <3>2. further \in [1 .. Len(t) -> 1 .. n + 1]
      BY <2>1, <2>4, <3>1
    <3>3. ASSUME NEW j \in 1 .. Len(t), NEW k \in 1 .. Len(t), j < k
          PROVE  further[j] < further[k]
      <4>1. j \in 1 .. Len(r) /\ further[j] = at[j] /\ at[j] \in 1 .. n
        BY <2>4, <3>1, <3>3
      <4>2. k = Len(r) + 1 => further[k] = n + 1
        BY <2>4, <3>1
      <4>3. k # Len(r) + 1 => k \in 1 .. Len(r) /\ further[k] = at[k]
        BY <2>4, <3>1
      <4> HIDE DEF t, further
      <4> QED
        BY <2>1, <2>5, <3>3, <4>1, <4>2, <4>3
    <3>4. \A k \in 1 .. Len(t) : t[k] = s[further[k]]
      BY <2>1, <2>4, <2>5, <3>1
    <3>5. ASSUME NEW i \in 1 .. n + 1, s[i] \in S
          PROVE  \E k \in 1 .. Len(t) : further[k] = i
      <4>1. CASE i = n + 1
        BY <2>4, <3>1, <4>1
      <4>2. CASE i \in 1 .. n
        <5>1. PICK k \in 1 .. Len(r) : at[k] = i
          BY <2>5, <3>5, <4>2
        <5>2. k \in 1 .. Len(t) /\ further[k] = i
          BY <2>4, <3>1, <5>1
        <5> QED
          BY <5>2
      <4> QED
        BY <2>1, <4>1, <4>2
    <3> HIDE DEF t, further
    <3>6. Picks(t, s, n + 1, S)
      BY <3>2, <3>3, <3>4, <3>5 DEF Picks
    <3> QED
      BY <2>3, <2>7, <3>1, <3>6 DEF t
  <2> QED
    BY <2>6, <2>7
<1>4. P = Nat
  <2>1. P \in SUBSET Nat
    OBVIOUS
  <2> HIDE DEF P
  <2> QED
    BY <1>2, <1>3, <2>1, Induction
<1>5. kept[Len(s)] \in Seq(A \cap S) /\ Picks(kept[Len(s)], s, Len(s), S)
  <2>1. Len(s) \in P /\ Len(s) <= Len(s)
    BY <1>4, LenProperties
  <2> QED
    BY <2>1
<1> QED
  BY <1>1, <1>5

\* Select leaves the elements of S and only those.
LEMMA RangeOfSelect ==
  ASSUME NEW A, NEW s \in Seq(A), NEW S
  PROVE  Range(Select(s, S)) = Range(s) \cap S
<1> DEFINE r == Select(s, S)
<1>1. /\ r \in Seq(A \cap S) /\ Picks(r, s, Len(s), S)
      /\ DOMAIN r = 1 .. Len(r) /\ DOMAIN s = 1 .. Len(s)
  BY SelectPicks, LenProperties
<1> HIDE DEF r
<1>2. PICK at \in [1 .. Len(r) -> 1 .. Len(s)] :
        /\ \A k \in 1 .. Len(r) : r[k] = s[at[k]]
        /\ \A i \in 1 .. Len(s) : s[i] \in S => \E k \in 1 .. Len(r) : at[k] = i
  BY <1>1 DEF Picks
<1>3. \A k \in 1 .. Len(r) : r[k] \in S
  BY <1>1, ElementOfSeq
<1>4. Range(r) \subseteq Range(s) \cap S
  <2> SUFFICES ASSUME NEW k \in 1 .. Len(r)
               PROVE  r[k] \in Range(s) \cap S
    BY <1>1 DEF Range
  <2>1. at[k] \in DOMAIN s /\ r[k] = s[at[k]]
    BY <1>1, <1>2
  <2> QED
    BY <1>3, <2>1 DEF Range
<1>5. Range(s) \cap S \subseteq Range(r)
  <2> SUFFICES ASSUME NEW i \in 1 .. Len(s), s[i] \in S
               PROVE  s[i] \in Range(r)
    BY <1>1 DEF Range
  <2>1. PICK k \in 1 .. Len(r) : at[k] = i
    BY <1>2
  <2>2. r[k] = s[i] /\ k \in DOMAIN r
    BY <1>1, <1>2, <2>1
  <2> QED
    BY <2>2 DEF Range
<1> QED
  BY <1>4, <1>5 DEF r

\* If nothing is in S nothing is left.
LEMMA SelectNothing ==
  ASSUME NEW A, NEW s \in Seq(A), NEW S, \A i \in 1 .. Len(s) : s[i] \notin S
  PROVE  Select(s, S) = <<>>
<1> DEFINE r == Select(s, S)
<1>1. r \in Seq(A \cap S) /\ Picks(r, s, Len(s), S) /\ Len(r) \in Nat
  BY SelectPicks, LenProperties
<1>2. PICK at \in [1 .. Len(r) -> 1 .. Len(s)] :
        \A k \in 1 .. Len(r) : r[k] = s[at[k]]
  BY <1>1 DEF Picks
<1>3. ASSUME Len(r) # 0
      PROVE  FALSE
  <2>1. 1 \in 1 .. Len(r)
    BY <1>1, <1>3
  <2>2. r[1] \in S /\ r[1] = s[at[1]] /\ at[1] \in 1 .. Len(s)
    BY <1>1, <1>2, <2>1, ElementOfSeq
  <2> QED
    BY <2>2
<1> QED
  BY <1>1, <1>3, EmptySeq

\* Another element is kept or not, and changes nothing else.
LEMMA SelectAppend ==
  ASSUME NEW A, NEW s \in Seq(A), NEW x \in A, NEW S
  PROVE  Select(Append(s, x), S) =
           IF x \in S THEN Append(Select(s, S), x) ELSE Select(s, S)
<1> DEFINE t == Append(s, x)
           n == Len(s)
<1>1. /\ n \in Nat /\ Len(t) = n + 1 /\ t[n + 1] = x
      /\ \A i \in 1 .. n : t[i] = s[i]
  BY AppendProperties, LenProperties
<1>2. PICK a :
        /\ a = [i \in 0 .. n |-> IF i = 0 THEN <<>>
                  ELSE IF s[i] \in S THEN Append(a[i - 1], s[i]) ELSE a[i - 1]]
        /\ Select(s, S) = a[n]
  BY <1>1, SelectUnfolds
<1> HIDE DEF t, n
<1>3. PICK b :
        /\ b = [i \in 0 .. n + 1 |-> IF i = 0 THEN <<>>
                  ELSE IF t[i] \in S THEN Append(b[i - 1], t[i]) ELSE b[i - 1]]
        /\ Select(t, S) = b[n + 1]
  <2>1. Len(t) \in Nat
    BY <1>1
  <2>2. \E b :
          /\ b = [i \in 0 .. Len(t) |-> IF i = 0 THEN <<>>
                    ELSE IF t[i] \in S THEN Append(b[i - 1], t[i]) ELSE b[i - 1]]
          /\ Select(t, S) = b[Len(t)]
    BY <2>1, SelectUnfolds
  <2>3. Len(t) = n + 1
    BY <1>1
  <2> QED
    BY <2>2, <2>3
<1> DEFINE P == {i \in Nat : i <= n => a[i] = b[i]}
<1>4. 0 \in P
  BY <1>1, <1>2, <1>3
<1>5. ASSUME NEW i \in P
      PROVE  i + 1 \in P
  <2> SUFFICES ASSUME i + 1 <= n
               PROVE  a[i + 1] = b[i + 1]
    OBVIOUS
  <2>1. /\ i \in Nat /\ i + 1 \in 1 .. n /\ i + 1 # 0 /\ (i + 1) - 1 = i
        /\ i + 1 \in 0 .. n /\ i + 1 \in 0 .. n + 1 /\ a[i] = b[i]
    BY <1>1
  <2>2. t[i + 1] = s[i + 1]
    BY <1>1, <2>1
  <2> HIDE DEF P
  <2>3. a[i + 1] = IF s[i + 1] \in S THEN Append(a[i], s[i + 1]) ELSE a[i]
    BY <1>2, <2>1
  <2>4. b[i + 1] = IF t[i + 1] \in S THEN Append(b[i], t[i + 1]) ELSE b[i]
    BY <1>3, <2>1
  <2> QED
    BY <2>1, <2>2, <2>3, <2>4
<1>6. a[n] = b[n]
  <2>1. P \in SUBSET Nat
    OBVIOUS
  <2>2. P = Nat
    <3> HIDE DEF P
    <3> QED
      BY <1>4, <1>5, <2>1, Induction
  <2> QED
    BY <1>1, <2>2
<1>7. b[n + 1] = IF t[n + 1] \in S THEN Append(b[n], t[n + 1]) ELSE b[n]
  <2>1. n + 1 \in 0 .. n + 1 /\ n + 1 # 0 /\ (n + 1) - 1 = n
    BY <1>1
  <2> QED
    BY <1>3, <2>1
<1> QED
  BY <1>1, <1>2, <1>3, <1>6, <1>7 DEF t

\* Only what S says of the elements matters.
LEMMA SelectAgree ==
  ASSUME NEW A, NEW s \in Seq(A), NEW S, NEW T,
         \A i \in 1 .. Len(s) : s[i] \in S <=> s[i] \in T
  PROVE  Select(s, S) = Select(s, T)
<1> DEFINE n == Len(s)
<1>1. n \in Nat
  BY LenProperties
<1>2. PICK a :
        /\ a = [i \in 0 .. n |-> IF i = 0 THEN <<>>
                  ELSE IF s[i] \in S THEN Append(a[i - 1], s[i]) ELSE a[i - 1]]
        /\ Select(s, S) = a[n]
  BY <1>1, SelectUnfolds
<1>3. PICK b :
        /\ b = [i \in 0 .. n |-> IF i = 0 THEN <<>>
                  ELSE IF s[i] \in T THEN Append(b[i - 1], s[i]) ELSE b[i - 1]]
        /\ Select(s, T) = b[n]
  BY <1>1, SelectUnfolds
<1>4. \A i \in 1 .. n : s[i] \in S <=> s[i] \in T
  OBVIOUS
<1> HIDE DEF n
<1> DEFINE P == {i \in Nat : i <= n => a[i] = b[i]}
<1>5. 0 \in P
  BY <1>1, <1>2, <1>3
<1>6. ASSUME NEW i \in P
      PROVE  i + 1 \in P
  <2> SUFFICES ASSUME i + 1 <= n
               PROVE  a[i + 1] = b[i + 1]
    OBVIOUS
  <2>1. /\ i + 1 \in 1 .. n /\ i + 1 \in 0 .. n /\ i + 1 # 0 /\ (i + 1) - 1 = i
        /\ a[i] = b[i]
    BY <1>1
  <2> HIDE DEF P
  <2>2. a[i + 1] = IF s[i + 1] \in S THEN Append(a[i], s[i + 1]) ELSE a[i]
    BY <1>2, <2>1
  <2>3. b[i + 1] = IF s[i + 1] \in T THEN Append(b[i], s[i + 1]) ELSE b[i]
    BY <1>3, <2>1
  <2> QED
    BY <1>4, <2>1, <2>2, <2>3
<1>7. P = Nat
  <2>1. P \in SUBSET Nat
    OBVIOUS
  <2> HIDE DEF P
  <2> QED
    BY <1>5, <1>6, <2>1, Induction
<1>8. a[n] = b[n]
  BY <1>1, <1>7
<1> HIDE DEF P
<1> QED
  BY <1>2, <1>3, <1>8

-----------------------------------------------------------------------------
(* Two queues, one behind the other *)

\* The head of the second moves to the end of the first.
LEMMA HeadMoves ==
  ASSUME NEW A, NEW s \in Seq(A), NEW t \in Seq(A), t # <<>>
  PROVE  Append(s, Head(t)) \o Tail(t) = s \o t
<1> DEFINE h == Append(s, Head(t))
           r == Tail(t)
           n == Len(s)
           m == Len(t)
<1>1. /\ Head(t) = t[1] /\ Head(t) \in A /\ r \in Seq(A) /\ m \in Nat \ {0}
      /\ Len(r) = m - 1 /\ \A k \in 1 .. m - 1 : r[k] = t[k + 1]
  BY HeadTailProperties, HeadAndTail, LenProperties, EmptySeq
<1>2. /\ n \in Nat /\ h \in Seq(A) /\ Len(h) = n + 1 /\ h[n + 1] = t[1]
      /\ \A k \in 1 .. n : h[k] = s[k]
  BY <1>1, AppendProperties, LenProperties
<1> HIDE DEF h, r
<1>3. /\ h \o r \in Seq(A) /\ Len(h \o r) = Len(h) + Len(r)
      /\ \A k \in 1 .. Len(h) + Len(r) :
           (h \o r)[k] = IF k <= Len(h) THEN h[k] ELSE r[k - Len(h)]
  BY <1>1, <1>2, ConcatProperties
<1>4. /\ s \o t \in Seq(A) /\ Len(s \o t) = n + m
      /\ \A k \in 1 .. n + m : (s \o t)[k] = IF k <= n THEN s[k] ELSE t[k - n]
  BY ConcatProperties
<1> HIDE DEF n, m
<1>5. Len(h \o r) = n + m
  BY <1>1, <1>2, <1>3
<1>6. ASSUME NEW k \in 1 .. n + m
      PROVE  (h \o r)[k] = (s \o t)[k]
  <2>1. CASE k <= n
    BY <1>1, <1>2, <1>3, <1>4, <2>1
  <2>2. CASE k = n + 1
    <3>1. k - n = 1 /\ ~(k <= n) /\ k <= Len(h)
      BY <1>2, <2>2
    <3>2. (s \o t)[k] = t[1]
      BY <1>4, <3>1
    <3>3. (h \o r)[k] = h[k]
      BY <1>1, <1>2, <1>3, <3>1
    <3> QED
      BY <1>2, <2>2, <3>2, <3>3
  <2>3. CASE k > n + 1
    <3>1. k - (n + 1) \in 1 .. m - 1 /\ (k - (n + 1)) + 1 = k - n
      BY <1>1, <1>2, <2>3
    <3>2. (h \o r)[k] = r[k - (n + 1)]
      BY <1>1, <1>2, <1>3, <2>3
    <3>3. (s \o t)[k] = t[k - n]
      BY <1>1, <1>2, <1>4, <2>3
    <3> QED
      BY <1>1, <3>1, <3>2, <3>3
  <2>4. k <= n \/ k = n + 1 \/ k > n + 1
    BY <1>1, <1>2
  <2> QED
    BY <2>1, <2>2, <2>3, <2>4
<1>7. h \o r = s \o t
  BY <1>3, <1>4, <1>5, <1>6, SeqEqual
<1> QED
  BY <1>7 DEF h, r

\* What is appended to the second is appended to both.
LEMMA AppendBehind ==
  ASSUME NEW A, NEW s \in Seq(A), NEW t \in Seq(A), NEW x \in A
  PROVE  s \o Append(t, x) = Append(s \o t, x)
<1> DEFINE a == Append(t, x)
           b == s \o t
           n == Len(s)
           m == Len(t)
<1>1. /\ m \in Nat /\ a \in Seq(A) /\ Len(a) = m + 1 /\ a[m + 1] = x
      /\ \A k \in 1 .. m : a[k] = t[k]
  BY AppendProperties, LenProperties
<1>2. /\ n \in Nat /\ b \in Seq(A) /\ Len(b) = n + m
      /\ \A k \in 1 .. n + m : b[k] = IF k <= n THEN s[k] ELSE t[k - n]
  BY ConcatProperties, LenProperties
<1> HIDE DEF a, b
<1>3. /\ s \o a \in Seq(A) /\ Len(s \o a) = n + Len(a)
      /\ \A k \in 1 .. n + Len(a) : (s \o a)[k] = IF k <= n THEN s[k] ELSE a[k - n]
  BY <1>1, ConcatProperties
<1>4. /\ Append(b, x) \in Seq(A) /\ Len(Append(b, x)) = Len(b) + 1
      /\ \A k \in 1 .. Len(b) : Append(b, x)[k] = b[k]
      /\ Append(b, x)[Len(b) + 1] = x
  BY <1>2, AppendProperties
<1> HIDE DEF n, m
<1>5. Len(s \o a) = n + m + 1 /\ Len(Append(b, x)) = n + m + 1
  BY <1>1, <1>2, <1>3, <1>4
<1>6. ASSUME NEW k \in 1 .. n + m + 1
      PROVE  (s \o a)[k] = Append(b, x)[k]
  <2>1. (s \o a)[k] = IF k <= n THEN s[k] ELSE a[k - n]
    <3>1. k \in 1 .. n + Len(a)
      BY <1>1, <1>2
    <3> QED
      BY <1>3, <3>1
  <2>2. CASE k <= n + m
    <3>1. Append(b, x)[k] = IF k <= n THEN s[k] ELSE t[k - n]
      BY <1>1, <1>2, <1>4, <2>2
    <3>2. ~(k <= n) => k - n \in 1 .. m
      BY <1>1, <1>2, <2>2
    <3> QED
      BY <1>1, <2>1, <3>1, <3>2
  <2>3. CASE k = n + m + 1
    <3>1. ~(k <= n) /\ k - n = m + 1
      BY <1>1, <1>2, <2>3
    <3> QED
      BY <1>1, <1>2, <1>4, <2>1, <2>3, <3>1
  <2>4. k <= n + m \/ k = n + m + 1
    BY <1>1, <1>2
  <2> QED
    BY <2>2, <2>3, <2>4
<1>7. s \o a = Append(b, x)
  BY <1>3, <1>4, <1>5, <1>6, SeqEqual
<1> QED
  BY <1>7 DEF a, b
=============================================================================
