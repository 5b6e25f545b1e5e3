----------------------------- MODULE DataLemmas -----------------------------
(* What the list operations (List.h: InsertTailList, RemoveHeadList) do to a  *)
(* queue without repetitions and to the set of what is in it; and what the    *)
(* sum of a function over a finite set, MapThenSumSet of the community        *)
(* modules, amounts to.                                                       *)
EXTENDS Integers, Sequences, Functions, FiniteSetsExt,
        SequenceTheorems, FiniteSetTheorems, TLAPS

\* Inserting at the tail something that is not in the queue.
LEMMA InsertTail ==
  ASSUME NEW S, NEW q \in Seq(S), NEW e \in S, IsInjective(q), e \notin Range(q)
  PROVE  /\ Append(q, e) \in Seq(S)
         /\ Append(q, e) # <<>>
         /\ Range(Append(q, e)) = Range(q) \cup {e}
         /\ IsInjective(Append(q, e))
<1> DEFINE r == Append(q, e)
<1>1. /\ r \in Seq(S) /\ Len(r) = Len(q) + 1 /\ Len(q) \in Nat
      /\ \A i \in 1 .. Len(q) : r[i] = q[i]
      /\ r[Len(q) + 1] = e
  OBVIOUS
<1>2. DOMAIN r = 1 .. Len(q) + 1 /\ DOMAIN q = 1 .. Len(q)
  BY <1>1
<1>3. Range(r) = Range(q) \cup {e}
  <2>1. ASSUME NEW x \in Range(r) PROVE x \in Range(q) \cup {e}
    <3>1. PICK i \in 1 .. Len(q) + 1 : x = r[i]
      BY <1>2, <2>1 DEF Range
    <3>2. CASE i = Len(q) + 1
      BY <3>1, <3>2, <1>1
    <3>3. CASE i \in 1 .. Len(q)
      BY <3>1, <3>3, <1>1, <1>2 DEF Range
    <3> QED BY <3>1, <3>2, <3>3, <1>1
  <2>2. ASSUME NEW x \in Range(q) PROVE x \in Range(r)
    <3>1. PICK i \in 1 .. Len(q) : x = q[i]
      BY <1>2, <2>2 DEF Range
    <3> QED BY <3>1, <1>1, <1>2 DEF Range
  <2>3. e \in Range(r)
    <3>1. Len(q) + 1 \in DOMAIN r
      BY <1>1, <1>2
    <3> QED BY <3>1, <1>1 DEF Range
  <2> QED BY <2>1, <2>2, <2>3
<1>4. IsInjective(r)
  <2>1. SUFFICES ASSUME NEW i \in 1 .. Len(q) + 1, NEW j \in 1 .. Len(q) + 1,
                        r[i] = r[j]
                 PROVE  i = j
    BY <1>2 DEF IsInjective
  <2>2. ASSUME NEW k \in 1 .. Len(q) PROVE q[k] # e
    BY <1>2 DEF Range
  <2>3. CASE i \in 1 .. Len(q) /\ j \in 1 .. Len(q)
    BY <2>1, <2>3, <1>1, <1>2 DEF IsInjective
  <2>4. CASE i = Len(q) + 1 \/ j = Len(q) + 1
    BY <2>1, <2>2, <2>4, <1>1
  <2> QED BY <2>3, <2>4, <1>1
<1> QED BY <1>1, <1>3, <1>4

\* Removing the head of a queue.
LEMMA RemoveHead ==
  ASSUME NEW S, NEW q \in Seq(S), q # <<>>, IsInjective(q)
  PROVE  /\ Head(q) \in S
         /\ Head(q) \in Range(q)
         /\ Tail(q) \in Seq(S)
         /\ Range(Tail(q)) = Range(q) \ {Head(q)}
         /\ IsInjective(Tail(q))
<1> DEFINE r == Tail(q)
<1>1. /\ Len(q) \in Nat \ {0} /\ r \in Seq(S) /\ Len(r) = Len(q) - 1
      /\ Head(q) = q[1] /\ Head(q) \in S
      /\ \A i \in 1 .. Len(q) - 1 : r[i] = q[i + 1]
  BY EmptySeq, LenProperties, HeadTailProperties
<1>2. DOMAIN r = 1 .. Len(q) - 1 /\ DOMAIN q = 1 .. Len(q)
  BY <1>1
<1>3. Head(q) \in Range(q)
  BY <1>1, <1>2 DEF Range
<1>4. ASSUME NEW x \in Range(r) PROVE x \in Range(q) \ {Head(q)}
  <2>1. PICK i \in 1 .. Len(q) - 1 : x = q[i + 1]
    BY <1>1, <1>2, <1>4 DEF Range
  <2>2. i + 1 \in DOMAIN q /\ 1 \in DOMAIN q /\ i + 1 # 1
    BY <1>1, <1>2
  <2> QED BY <2>1, <2>2, <1>1 DEF Range, IsInjective
<1>5. ASSUME NEW x \in Range(q) \ {Head(q)} PROVE x \in Range(r)
  <2>1. PICK i \in 1 .. Len(q) : x = q[i]
    BY <1>2, <1>5 DEF Range
  <2>2. i # 1
    BY <2>1, <1>1, <1>5
  <2>3. i - 1 \in 1 .. Len(q) - 1 /\ r[i - 1] = q[(i - 1) + 1] /\ (i - 1) + 1 = i
    BY <2>2, <1>1
  <2>4. i - 1 \in DOMAIN r /\ r[i - 1] = x
    BY <2>1, <2>3, <1>2
  <2> QED BY <2>4 DEF Range
<1>6. IsInjective(r)
  <2>1. SUFFICES ASSUME NEW i \in 1 .. Len(q) - 1, NEW j \in 1 .. Len(q) - 1,
                        r[i] = r[j]
                 PROVE  i = j
    BY <1>2 DEF IsInjective
  <2>2. i + 1 \in DOMAIN q /\ j + 1 \in DOMAIN q /\ q[i + 1] = q[j + 1]
    BY <2>1, <1>1, <1>2
  <2>3. i + 1 = j + 1
    BY <2>2 DEF IsInjective
  <2> QED BY <2>3
<1> QED BY <1>1, <1>3, <1>4, <1>5, <1>6

\* Appending a whole queue to another one they share nothing with.
LEMMA Concat ==
  ASSUME NEW S, NEW q \in Seq(S), NEW w \in Seq(S),
         IsInjective(q), IsInjective(w), Range(q) \cap Range(w) = {}
  PROVE  /\ q \o w \in Seq(S)
         /\ Range(q \o w) = Range(q) \cup Range(w)
         /\ IsInjective(q \o w)
<1> DEFINE r == q \o w
<1>1. /\ r \in Seq(S) /\ Len(r) = Len(q) + Len(w)
      /\ Len(q) \in Nat /\ Len(w) \in Nat
      /\ \A i \in 1 .. Len(q) : r[i] = q[i]
      /\ \A i \in Len(q) + 1 .. Len(q) + Len(w) : r[i] = w[i - Len(q)]
  BY ConcatProperties, LenProperties
<1>2. /\ DOMAIN r = 1 .. Len(q) + Len(w)
      /\ DOMAIN q = 1 .. Len(q) /\ DOMAIN w = 1 .. Len(w)
  BY <1>1
<1>3. Range(r) = Range(q) \cup Range(w)
  BY RangeConcatenation
<1>4. ASSUME NEW i \in 1 .. Len(q) PROVE r[i] \in Range(q)
  BY <1>1, <1>2 DEF Range
<1>5. ASSUME NEW i \in Len(q) + 1 .. Len(q) + Len(w) PROVE r[i] \in Range(w)
  <2>1. i - Len(q) \in DOMAIN w
    BY <1>1, <1>2
  <2> QED BY <2>1, <1>1 DEF Range
<1>6. IsInjective(r)
  <2>1. SUFFICES ASSUME NEW i \in DOMAIN r, NEW j \in DOMAIN r, r[i] = r[j]
                 PROVE  i = j
    BY DEF IsInjective
  <2>2. CASE i \in 1 .. Len(q) /\ j \in 1 .. Len(q)
    BY <2>1, <2>2, <1>1, <1>2 DEF IsInjective
  <2>3. CASE /\ i \in Len(q) + 1 .. Len(q) + Len(w)
             /\ j \in Len(q) + 1 .. Len(q) + Len(w)
    <3>1. /\ i - Len(q) \in DOMAIN w /\ j - Len(q) \in DOMAIN w
          /\ w[i - Len(q)] = w[j - Len(q)]
      BY <2>1, <2>3, <1>1, <1>2
    <3>2. i - Len(q) = j - Len(q)
      BY <3>1 DEF IsInjective
    <3> QED BY <3>2, <2>3, <1>1
  <2>4. CASE i \in 1 .. Len(q) /\ j \in Len(q) + 1 .. Len(q) + Len(w)
    BY <2>1, <2>4, <1>4, <1>5
  <2>5. CASE j \in 1 .. Len(q) /\ i \in Len(q) + 1 .. Len(q) + Len(w)
    BY <2>1, <2>5, <1>4, <1>5
  <2> QED BY <2>2, <2>3, <2>4, <2>5, <1>1, <1>2
<1> QED BY <1>1, <1>3, <1>6

\* The rest of a sequence after its first k elements.
LEMMA RestOf ==
  ASSUME NEW S, NEW q \in Seq(S), NEW k \in 0 .. Len(q)
  PROVE  /\ SubSeq(q, k + 1, Len(q)) \in Seq(S)
         /\ Len(SubSeq(q, k + 1, Len(q))) = Len(q) - k
         /\ \A i \in 1 .. Len(q) - k : SubSeq(q, k + 1, Len(q))[i] = q[k + i]
<1> DEFINE b == SubSeq(q, k + 1, Len(q))
<1>1. Len(q) \in Nat /\ \A i \in k + 1 .. Len(q) : q[i] \in S
  OBVIOUS
<1>2. /\ b \in Seq(S)
      /\ Len(b) = IF k + 1 <= Len(q) THEN Len(q) - (k + 1) + 1 ELSE 0
      /\ \A i \in 1 .. Len(q) - (k + 1) + 1 : b[i] = q[(k + 1) + i - 1]
  BY <1>1, SubSeqProperties
<1> HIDE DEF b
<1>3. Len(q) - (k + 1) + 1 = Len(q) - k /\ \A i \in Nat : (k + 1) + i - 1 = k + i
  BY <1>1
<1>4. ASSUME NEW i \in 1 .. Len(q) - k PROVE b[i] = q[k + i]
  <2>1. i \in 1 .. Len(q) - (k + 1) + 1 /\ (k + 1) + i - 1 = k + i
    BY <1>1
  <2>2. b[i] = q[(k + 1) + i - 1]
    BY <1>2, <2>1
  <2> QED BY <2>1, <2>2
<1>5. Len(b) = Len(q) - k
  <2>1. ~(k + 1 <= Len(q)) => Len(q) - k = 0
    BY <1>1
  <2>2. CASE k + 1 <= Len(q)
    BY <2>2, <1>2, <1>3
  <2>3. CASE ~(k + 1 <= Len(q))
    BY <2>1, <2>3, <1>2
  <2> QED BY <2>2, <2>3
<1> QED BY <1>2, <1>4, <1>5 DEF b

\* The same of what has the elements of q and then e.
LEMMA ExtendedBy ==
  ASSUME NEW S, NEW q \in Seq(S), NEW e \in S, NEW r \in Seq(S),
         Len(r) = Len(q) + 1,
         \A i \in 1 .. Len(q) : r[i] = q[i], r[Len(q) + 1] = e,
         IsInjective(q), e \notin Range(q)
  PROVE  IsInjective(r) /\ Range(r) = Range(q) \cup {e}
<1> DEFINE a == Append(q, e)
           n == Len(q)
<1>1. /\ n \in Nat /\ a \in Seq(S) /\ Len(a) = n + 1
      /\ \A i \in 1 .. n : a[i] = q[i]
      /\ a[n + 1] = e
  OBVIOUS
<1>2. a = [i \in 1 .. n + 1 |-> a[i]]
  <2> HIDE DEF a
  <2> QED BY <1>1
<1> HIDE DEF a
<1>3. \A i \in 1 .. n + 1 : i \in 1 .. n \/ i = n + 1
  BY <1>1
<1>4. \A i \in 1 .. n + 1 : a[i] = r[i]
  BY <1>1, <1>3
<1>5. r = a
  BY <1>2, <1>4
<1>6. IsInjective(a) /\ Range(a) = Range(q) \cup {e}
  BY InsertTail DEF a
<1> QED BY <1>5, <1>6

\* A function on 1 .. m with values in S is a sequence.
LEMMA FunctionIsSeq ==
  ASSUME NEW S, NEW m \in Nat, NEW r, r = [i \in 1 .. m |-> r[i]],
         \A i \in 1 .. m : r[i] \in S
  PROVE  r \in Seq(S) /\ Len(r) = m
OBVIOUS

\* The first k elements of a queue and the rest of it share what it had.
SplitsInto(q, k, a, b) ==
  /\ k \in 0 .. Len(q) /\ Len(a) = k /\ Len(b) = Len(q) - k
  /\ \A i \in 1 .. k : a[i] = q[i]
  /\ \A i \in 1 .. Len(q) - k : b[i] = q[k + i]

\* A queue of different elements that is split: the parts share nothing.
LEMMA SplitAt ==
  ASSUME NEW S, NEW q \in Seq(S), NEW k, NEW a \in Seq(S), NEW b \in Seq(S),
         SplitsInto(q, k, a, b), IsInjective(q)
  PROVE  /\ IsInjective(a) /\ IsInjective(b)
         /\ Range(a) \cup Range(b) = Range(q)
         /\ Range(a) \cap Range(b) = {}
<1> USE DEF SplitsInto
<1>1. /\ Len(q) \in Nat /\ DOMAIN q = 1 .. Len(q) /\ \A i \in 1 .. Len(q) : q[i] \in S
      /\ \A i, j \in 1 .. Len(q) : q[i] = q[j] => i = j
  <2>1. Len(q) \in Nat /\ DOMAIN q = 1 .. Len(q) /\ \A i \in 1 .. Len(q) : q[i] \in S
    OBVIOUS
  <2> QED BY <2>1 DEF IsInjective
<1>2. DOMAIN b = 1 .. Len(q) - k
  BY <1>1
<1>3. a \in Seq(S) /\ DOMAIN a = 1 .. k /\ \A i \in 1 .. k : a[i] = q[i]
  BY <1>1
<1>4. IsInjective(a)
  BY <1>1, <1>3 DEF IsInjective
<1>5. IsInjective(b)
  <2>1. ASSUME NEW i \in 1 .. Len(q) - k, NEW j \in 1 .. Len(q) - k, b[i] = b[j]
        PROVE  i = j
    <3>1. k + i \in 1 .. Len(q) /\ k + j \in 1 .. Len(q) /\ q[k + i] = q[k + j]
      BY <1>1, <2>1
    <3>2. k + i = k + j
      BY <1>1, <3>1
    <3> QED BY <3>2
  <2> QED BY <1>2, <2>1 DEF IsInjective
<1>6. ASSUME NEW x \in Range(b) PROVE \E j \in k + 1 .. Len(q) : x = q[j]
  <2>1. PICK i \in 1 .. Len(q) - k : x = b[i]
    BY <1>2 DEF Range
  <2>2. k + i \in k + 1 .. Len(q) /\ x = q[k + i]
    BY <1>1, <2>1
  <2> QED BY <2>2
<1>7. ASSUME NEW x \in Range(q) PROVE x \in Range(a) \cup Range(b)
  <2>1. PICK j \in 1 .. Len(q) : x = q[j]
    BY <1>1 DEF Range
  <2>2. CASE j <= k
    <3>1. j \in 1 .. k
      BY <1>1, <2>2
    <3>2. j \in DOMAIN a /\ a[j] = x
      BY <1>3, <2>1, <3>1
    <3> QED BY <3>2 DEF Range
  <2>3. CASE ~(j <= k)
    <3>1. j - k \in 1 .. Len(q) - k /\ k + (j - k) = j
      BY <1>1, <2>3
    <3>2. j - k \in DOMAIN b /\ b[j - k] = x
      BY <1>2, <2>1, <3>1
    <3> QED BY <3>2 DEF Range
  <2> QED BY <2>2, <2>3
<1>8. ASSUME NEW x \in Range(a) PROVE x \in Range(q) /\ x \notin Range(b)
  <2>1. PICK i \in 1 .. k : x = q[i]
    BY <1>3 DEF Range
  <2>2. i \in 1 .. Len(q) /\ \A j \in k + 1 .. Len(q) : j \in 1 .. Len(q) /\ i # j
    BY <1>1
  <2>3. x \in Range(q)
    BY <1>1, <2>1, <2>2 DEF Range
  <2> QED BY <1>1, <1>6, <2>1, <2>2, <2>3
<1>9. ASSUME NEW x \in Range(b) PROVE x \in Range(q)
  <2>1. PICK j \in k + 1 .. Len(q) : x = q[j]
    BY <1>6
  <2>2. j \in DOMAIN q
    BY <1>1
  <2> QED BY <2>1, <2>2 DEF Range
<1> QED BY <1>3, <1>4, <1>5, <1>7, <1>8, <1>9

-----------------------------------------------------------------------------
(* Sums over finite sets.  The induction is on the size of the set, in the    *)
(* form of a least counterexample.                                            *)

\* A set of natural numbers that is not empty has a least element.
LEMMA LeastNat ==
  ASSUME NEW T, T \subseteq Nat, T # {}
  PROVE  \E n \in T : \A m \in T : n <= m
<1> DEFINE R == {ss \in Nat \X Nat : ss[1] < ss[2]}
<1>1. IsWellFoundedOn(R, Nat)
  BY NatLessThanWellFounded DEF OpToRel
<1>2. \A a, b \in Nat : a < b => <<a, b>> \in R
  OBVIOUS
<1> HIDE DEF R
<1>3. PICK n \in T : \A m \in T : ~ (<<m, n>> \in R)
  BY <1>1, WFMin
<1>4. ASSUME NEW m \in T PROVE n <= m
  <2>1. m \in Nat /\ n \in Nat /\ <<m, n>> \notin R
    BY <1>3
  <2>2. ~ (m < n)
    BY <2>1, <1>2
  <2> QED BY <2>1, <2>2
<1> QED BY <1>4

\* f has natural numbers to add up on S, which is finite.
Summable(f, S) == IsFiniteSet(S) /\ \A x \in S : f[x] \in Nat

\* g is the function that the fold of + over f on S (MapThenFoldSet) computes with.
IsSum(g, f, S) ==
  g = [s \in SUBSET S |->
         IF s = {} THEN 0
         ELSE f[CHOOSE x \in s : TRUE] + g[s \ {CHOOSE x \in s : TRUE}]]

Total(f, S) == (CHOOSE g : IsSum(g, f, S))[S]

\* The sum of the community modules.
LEMMA TotalIs ==
  ASSUME NEW f, NEW S
  PROVE  MapThenSumSet(LAMBDA x : f[x], S) = Total(f, S)
BY DEF MapThenSumSet, MapThenFoldSet, Total, IsSum

\* Such a function exists: it is built on the sets of one size after another.
LEMMA SumExists ==
  ASSUME NEW S, NEW f, Summable(f, S)
  PROVE  \E g : IsSum(g, f, S)
<1> USE DEF Summable
<1> DEFINE c(s) == CHOOSE x \in s : TRUE
           Small(n) == {s \in SUBSET S : Cardinality(s) <= n}
           Upto(n, g) == /\ g \in [Small(n) -> Nat]
                         /\ \A s \in Small(n) :
                              g[s] = IF s = {} THEN 0 ELSE f[c(s)] + g[s \ {c(s)}]
           Bad == {n \in Nat : ~ \E g : Upto(n, g)}
<1>1. \A s \in SUBSET S : IsFiniteSet(s) /\ Cardinality(s) \in Nat
  BY FS_Subset, FS_CardinalityType
<1>2. \A s \in SUBSET S : s # {} =>
        /\ c(s) \in s /\ s \ {c(s)} \in SUBSET S
        /\ Cardinality(s \ {c(s)}) = Cardinality(s) - 1
  BY <1>1, FS_RemoveElement
<1>3. Bad = {}
  <2> SUFFICES ASSUME Bad # {} PROVE FALSE
    OBVIOUS
  <2>1. PICK n \in Bad : \A m \in Bad : n <= m
    <3>1. Bad \subseteq Nat
      OBVIOUS
    <3> HIDE DEF Bad
    <3> QED BY <3>1, LeastNat
  <2>2. n \in Nat /\ ~ \E g : Upto(n, g)
    OBVIOUS
  <2>3. CASE n = 0
    <3> DEFINE g == [s \in Small(0) |-> 0]
    <3>1. \A s \in Small(0) : s = {}
      BY <1>1, FS_EmptySet
    <3>2. g \in [Small(0) -> Nat] /\ \A s \in Small(0) : g[s] = 0
      OBVIOUS
    <3>3. Upto(0, g)
      BY <3>1, <3>2
    <3> QED BY <2>2, <2>3, <3>3
  <2>4. CASE n # 0
    <3>1. n - 1 \in Nat /\ n - 1 \notin Bad
      <4>1. n - 1 \in Nat /\ ~ (n <= n - 1)
        BY <2>2, <2>4
      <4> HIDE DEF Bad
      <4> QED BY <4>1, <2>1
    <3>2. PICK h : Upto(n - 1, h)
      BY <3>1
    <3> DEFINE g == [s \in Small(n) |-> IF s = {} THEN 0 ELSE f[c(s)] + h[s \ {c(s)}]]
    <3>3. \A s \in Small(n) : s # {} => s \ {c(s)} \in Small(n - 1) /\ c(s) \in S
      BY <1>1, <1>2, <2>2
    <3>4. \A s \in Small(n - 1) : s \in Small(n)
      BY <1>1, <2>2
    <3>5. g \in [Small(n) -> Nat]
      BY <3>2, <3>3
    <3>6. \A s \in Small(n - 1) : g[s] = h[s]
      BY <3>2, <3>4
    <3>7. ASSUME NEW s \in Small(n)
          PROVE  g[s] = IF s = {} THEN 0 ELSE f[c(s)] + g[s \ {c(s)}]
      <4>1. g[s] = IF s = {} THEN 0 ELSE f[c(s)] + h[s \ {c(s)}]
        OBVIOUS
      <4> HIDE DEF g, Small, c
      <4> QED BY <4>1, <3>3, <3>6
    <3>8. Upto(n, g)
      BY <3>5, <3>7
    <3> QED BY <2>2, <3>8
  <2> QED BY <2>3, <2>4
<1>4. Cardinality(S) \in Nat /\ Small(Cardinality(S)) = SUBSET S
  <2>1. \A s \in SUBSET S : Cardinality(s) <= Cardinality(S)
    BY FS_Subset
  <2> QED BY <1>1, <2>1
<1>5. PICK g : Upto(Cardinality(S), g)
  BY <1>3, <1>4
<1>6. IsSum(g, f, S)
  BY <1>4, <1>5 DEF IsSum
<1> QED BY <1>6

\* Its values, and that any element can be taken out first.
Adds(g, f, S) ==
  /\ g \in [SUBSET S -> Nat] /\ g[{}] = 0
  /\ \A s \in SUBSET S : \A x \in s : g[s] = f[x] + g[s \ {x}]

\* A sum over a finite set is the value at any one element plus the sum over the rest.
LEMMA SumSplit ==
  ASSUME NEW S, NEW f, Summable(f, S), NEW g, IsSum(g, f, S)
  PROVE  Adds(g, f, S)
<1> USE DEF Summable
<1> DEFINE c(s) == CHOOSE x \in s : TRUE
           Splits(s) == /\ g[s] \in Nat
                        /\ \A x \in s : g[s] = f[x] + g[s \ {x}]
           Bad == {Cardinality(s) : s \in {r \in SUBSET S : ~ Splits(r)}}
<1>1. \A s \in SUBSET S : IsFiniteSet(s) /\ Cardinality(s) \in Nat
  BY FS_Subset, FS_CardinalityType
<1>2. \A s \in SUBSET S : \A x \in s :
        s \ {x} \in SUBSET S /\ Cardinality(s \ {x}) = Cardinality(s) - 1
  BY <1>1, FS_RemoveElement
<1>3. g[{}] = 0
  BY DEF IsSum
<1>4. \A s \in SUBSET S : s # {} => c(s) \in s /\ g[s] = f[c(s)] + g[s \ {c(s)}]
  BY DEF IsSum
<1>5. DOMAIN g = SUBSET S /\ g = [s \in SUBSET S |-> g[s]]
  BY DEF IsSum
<1> HIDE DEF c
<1>6. ASSUME NEW s \in SUBSET S, \A r \in SUBSET S : Cardinality(r) < Cardinality(s) => Splits(r)
      PROVE  Splits(s)
  <2>1. CASE s = {}
    BY <2>1, <1>3
  <2>2. CASE s # {}
    <3> DEFINE k == c(s)
    <3>1. k \in s /\ g[s] = f[k] + g[s \ {k}]
      BY <2>2, <1>4
    <3> HIDE DEF k
    <3>2. \A x \in s : Splits(s \ {x})
      <4> TAKE x \in s
      <4>1. s \ {x} \in SUBSET S /\ Cardinality(s \ {x}) < Cardinality(s)
        BY <1>1, <1>2
      <4> QED BY <4>1, <1>6
    <3>3. ASSUME NEW x \in s PROVE g[s] = f[x] + g[s \ {x}]
      <4>1. CASE x = k
        BY <4>1, <3>1
      <4>2. CASE x # k
        <5>1. g[s \ {k}] = f[x] + g[(s \ {k}) \ {x}]
          BY <4>2, <3>1, <3>2
        <5>2. g[s \ {x}] = f[k] + g[(s \ {x}) \ {k}]
          BY <4>2, <3>1, <3>2
        <5>3. (s \ {k}) \ {x} = (s \ {x}) \ {k}
          OBVIOUS
        <5>4. f[x] \in Nat /\ f[k] \in Nat /\ g[(s \ {x}) \ {k}] \in Nat
          <6>1. (s \ {x}) \ {k} \in SUBSET S
            OBVIOUS
          <6>2. Cardinality((s \ {x}) \ {k}) < Cardinality(s)
            <7>1. /\ Cardinality(s \ {x}) = Cardinality(s) - 1
                  /\ k \in s \ {x} /\ s \ {x} \in SUBSET S
              BY <1>2, <3>1, <4>2
            <7>2. Cardinality((s \ {x}) \ {k}) = Cardinality(s \ {x}) - 1
              BY <1>2, <7>1
            <7> QED BY <7>1, <7>2, <1>1
          <6> QED BY <6>1, <6>2, <1>6, <3>1
        <5> QED BY <5>1, <5>2, <5>3, <5>4, <3>1
      <4> QED BY <4>1, <4>2
    <3>4. g[s] \in Nat
      <4>1. f[k] \in Nat /\ g[s \ {k}] \in Nat
        BY <3>1, <3>2
      <4> QED BY <4>1, <3>1
    <3> QED BY <3>3, <3>4
  <2> QED BY <2>1, <2>2
<1> HIDE DEF Splits
<1>7. \A s \in SUBSET S : Splits(s)
  <2> SUFFICES ASSUME Bad # {} PROVE FALSE
    OBVIOUS
  <2>1. Bad \subseteq Nat
    BY <1>1
  <2>2. PICK n \in Bad : \A m \in Bad : n <= m
    <3> HIDE DEF Bad
    <3> QED BY <2>1, LeastNat
  <2>3. PICK s \in SUBSET S : ~ Splits(s) /\ n = Cardinality(s)
    OBVIOUS
  <2>4. ASSUME NEW r \in SUBSET S, Cardinality(r) < Cardinality(s) PROVE Splits(r)
    <3>1. ~ Splits(r) => Cardinality(r) \in Bad
      OBVIOUS
    <3>2. Cardinality(r) \in Nat /\ Cardinality(s) \in Nat
      BY <1>1
    <3> HIDE DEF Bad
    <3> QED BY <3>1, <3>2, <2>2, <2>3, <2>4
  <2> QED BY <2>3, <2>4, <1>6
<1> QED BY <1>3, <1>5, <1>7 DEF Splits, Adds


\* The sum is a natural number.
LEMMA TotalType ==
  ASSUME NEW S, NEW f, Summable(f, S)
  PROVE  /\ IsSum(CHOOSE g : IsSum(g, f, S), f, S)
         /\ Total(f, S) \in Nat
         /\ S = {} => Total(f, S) = 0
<1> DEFINE g == CHOOSE q : IsSum(q, f, S)
<1>1. IsSum(g, f, S)
  BY SumExists
<1> HIDE DEF g
<1>2. g \in [SUBSET S -> Nat] /\ g[{}] = 0
  <2>1. Adds(g, f, S)
    BY <1>1, SumSplit
  <2> QED BY <2>1 DEF Adds
<1>3. Total(f, S) = g[S]
  BY DEF Total, g
<1> QED BY <1>1, <1>2, <1>3 DEF g

\* Two such functions agree where the functions summed do.
LEMMA SumSame ==
  ASSUME NEW S, NEW f, Summable(f, S), NEW g, IsSum(g, f, S),
         NEW T, NEW e, Summable(e, T), NEW h, IsSum(h, e, T),
         NEW s \in SUBSET S, s \in SUBSET T, \A x \in s : f[x] = e[x]
  PROVE  g[s] = h[s]
<1> DEFINE Bad == {Cardinality(r) : r \in {q \in SUBSET s : g[q] # h[q]}}
<1>1. \A r \in SUBSET s : IsFiniteSet(r) /\ Cardinality(r) \in Nat
  BY FS_Subset, FS_CardinalityType DEF Summable
<1>2. g[{}] = 0 /\ \A r \in SUBSET S : \A x \in r : g[r] = f[x] + g[r \ {x}]
  <2>1. Adds(g, f, S)
    BY SumSplit
  <2> QED BY <2>1 DEF Adds
<1>3. h[{}] = 0 /\ \A r \in SUBSET T : \A x \in r : h[r] = e[x] + h[r \ {x}]
  <2>1. Adds(h, e, T)
    BY SumSplit
  <2> QED BY <2>1 DEF Adds
<1> SUFFICES ASSUME Bad # {} PROVE FALSE
  OBVIOUS
<1>4. PICK n \in Bad : \A m \in Bad : n <= m
  <2>1. Bad \subseteq Nat
    BY <1>1
  <2> HIDE DEF Bad
  <2> QED BY <2>1, LeastNat
<1>5. PICK r \in SUBSET s : g[r] # h[r] /\ n = Cardinality(r)
  OBVIOUS
<1>6. PICK x \in r : TRUE
  BY <1>2, <1>3, <1>5
<1>7. g[r \ {x}] = h[r \ {x}]
  <2>1. r \ {x} \in SUBSET s /\ Cardinality(r \ {x}) = Cardinality(r) - 1
    BY <1>1, FS_RemoveElement
  <2>2. Cardinality(r) \in Nat /\ ~ (Cardinality(r) <= Cardinality(r) - 1)
    BY <1>1
  <2>3. g[r \ {x}] # h[r \ {x}] => Cardinality(r \ {x}) \in Bad
    BY <2>1
  <2> HIDE DEF Bad
  <2> QED BY <2>1, <2>2, <2>3, <1>4, <1>5
<1>8. g[r] = f[x] + g[r \ {x}] /\ h[r] = e[x] + h[r \ {x}]
  BY <1>2, <1>3
<1> QED BY <1>5, <1>7, <1>8 DEF Summable

\* The sum depends on the values on S alone.
LEMMA TotalSame ==
  ASSUME NEW S, NEW f, Summable(f, S), NEW e, \A x \in S : e[x] = f[x]
  PROVE  Total(e, S) = Total(f, S)
<1> DEFINE g == CHOOSE q : IsSum(q, f, S)
           h == CHOOSE q : IsSum(q, e, S)
<1>1. Summable(e, S)
  BY DEF Summable
<1>2. IsSum(g, f, S) /\ IsSum(h, e, S)
  BY <1>1, TotalType
<1>3. Total(f, S) = g[S] /\ Total(e, S) = h[S]
  BY DEF Total
<1> HIDE DEF g, h
<1>4. h[S] = g[S]
  BY <1>1, <1>2, SumSame
<1> QED BY <1>3, <1>4

\* One element more.
LEMMA TotalAdd ==
  ASSUME NEW S, NEW f, Summable(f, S), NEW x, x \notin S, f[x] \in Nat
  PROVE  Total(f, S \cup {x}) = Total(f, S) + f[x]
<1> DEFINE T == S \cup {x}
           g == CHOOSE q : IsSum(q, f, S)
           h == CHOOSE q : IsSum(q, f, T)
<1>1. Summable(f, T) /\ T \ {x} = S /\ S \subseteq T
  BY FS_AddElement DEF Summable
<1>2. IsSum(g, f, S) /\ IsSum(h, f, T) /\ Total(f, S) \in Nat
  BY <1>1, TotalType
<1>3. Total(f, S) = g[S] /\ Total(f, T) = h[T]
  BY DEF Total
<1> HIDE DEF g, h, T
<1>4. \A r \in SUBSET T : \A y \in r : h[r] = f[y] + h[r \ {y}]
  <2>1. Adds(h, f, T)
    BY <1>1, <1>2, SumSplit
  <2> QED BY <2>1 DEF Adds
<1>5. h[S] = g[S]
  BY <1>1, <1>2, SumSame
<1>6. T \in SUBSET T /\ x \in T
  BY DEF T
<1>7. h[T] = f[x] + h[T \ {x}]
  BY <1>4, <1>6
<1>8. Total(f, T) = Total(f, S) + f[x]
  <2>1. f[x] \in Nat /\ g[S] \in Nat
    BY <1>2, <1>3
  <2>2. h[T] = f[x] + h[S]
    BY <1>1, <1>7
  <2> QED BY <2>1, <2>2, <1>3, <1>5
<1> QED BY <1>8 DEF T

\* A function that is 0 everywhere.
LEMMA TotalZero ==
  ASSUME NEW S, IsFiniteSet(S), NEW f, \A x \in S : f[x] = 0
  PROVE  Total(f, S) = 0
<1> DEFINE Z(n) == \A s \in SUBSET S : Cardinality(s) = n => Total(f, s) = 0
           Bad == {n \in Nat : ~Z(n)}
<1>1. \A s \in SUBSET S : Summable(f, s) /\ IsFiniteSet(s) /\ Cardinality(s) \in Nat
  BY FS_Subset, FS_CardinalityType DEF Summable
<1> SUFFICES Bad = {}
  BY <1>1
<1> SUFFICES ASSUME Bad # {} PROVE FALSE
  OBVIOUS
<1>2. PICK n \in Bad : \A m \in Bad : n <= m
  <2>1. Bad \subseteq Nat
    OBVIOUS
  <2> HIDE DEF Bad
  <2> QED BY <2>1, LeastNat
<1>3. PICK s \in SUBSET S : Cardinality(s) = n /\ Total(f, s) # 0
  OBVIOUS
<1>4. PICK x \in s : TRUE
  BY <1>1, <1>3, TotalType
<1>5. n \in Nat /\ Cardinality(s \ {x}) = n - 1 /\ n - 1 \in Nat
  <2>1. IsFiniteSet(s) /\ Cardinality(s) = n /\ n \in Nat
    BY <1>1, <1>3
  <2>2. Cardinality(s \ {x}) = Cardinality(s) - 1
    BY <2>1, FS_RemoveElement
  <2>3. s \ {x} \in SUBSET S
    OBVIOUS
  <2>4. Cardinality(s \ {x}) \in Nat
    BY <1>1, <2>3
  <2> QED BY <2>1, <2>2, <2>4
<1>6. Total(f, s \ {x}) = 0
  <2>1. ~(n <= n - 1)
    BY <1>5
  <2>2. n - 1 \notin Bad
    <3> HIDE DEF Bad
    <3> QED BY <1>2, <2>1
  <2> QED BY <1>5, <2>2
<1>7. Total(f, (s \ {x}) \cup {x}) = Total(f, s \ {x}) + f[x]
  <2>1. Summable(f, s \ {x}) /\ x \notin s \ {x} /\ f[x] \in Nat
    BY <1>1
  <2> QED BY <2>1, TotalAdd
<1>8. (s \ {x}) \cup {x} = s /\ f[x] = 0
  OBVIOUS
<1> QED BY <1>3, <1>6, <1>7, <1>8

\* One value grows by n.
LEMMA TotalGrows ==
  ASSUME NEW S, NEW f, Summable(f, S), NEW e, NEW x \in S, NEW n \in Nat,
         e[x] = f[x] + n, \A y \in S \ {x} : e[y] = f[y]
  PROVE  Summable(e, S) /\ Total(e, S) = Total(f, S) + n
<1> DEFINE R == S \ {x}
<1>1. /\ Summable(f, R) /\ Summable(e, R) /\ S = R \cup {x} /\ x \notin R
      /\ f[x] \in Nat /\ e[x] \in Nat /\ \A y \in R : e[y] = f[y]
  BY FS_RemoveElement DEF Summable
<1>2. Summable(e, S)
  BY <1>1 DEF Summable
<1> HIDE DEF R
<1>3. Total(f, S) = Total(f, R) + f[x]
  BY <1>1, TotalAdd
<1>4. Total(e, S) = Total(e, R) + e[x]
  BY <1>1, TotalAdd
<1>5. Total(e, R) = Total(f, R) /\ Total(f, R) \in Nat
  BY <1>1, TotalSame, TotalType
<1>6. Total(e, S) = Total(f, S) + n
  BY <1>1, <1>3, <1>4, <1>5
<1> QED BY <1>2, <1>6
=============================================================================
