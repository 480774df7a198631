---------------------------- MODULE SeqOpsProofs ---------------------------
(***************************************************************************)
(* Lemmas that the proofs about several components need: the operations of *)
(* SeqOps on sequences without duplicates, induction over the natural      *)
(* numbers, functions that are defined by iteration, and finite graphs.    *)
(***************************************************************************)
EXTENDS SeqOps, FiniteSetTheorems, SequenceTheorems, WellFoundedInduction, TLAPS

-----------------------------------------------------------------------------
\* A sequence is the function of its elements.
LEMMA SeqIsFunction ==
  ASSUME NEW S, NEW s \in Seq(S), NEW n \in Nat, Len(s) = n
  PROVE  s = [k \in 1 .. n |-> s[k]]
<1>1. s \in [1 .. n -> S]
  BY LenProperties
<1> QED
  BY <1>1

\* Sequences without duplicates under the operations of std::list.

\* Taking the first element.
LEMMA TailFacts ==
  ASSUME NEW S, NEW s \in Seq(S), s # <<>>, NoDuplicates(s)
  PROVE  /\ Head(s) \in S /\ InSeq(Head(s), s)
         /\ Tail(s) \in Seq(S) /\ NoDuplicates(Tail(s))
         /\ \A e : InSeq(e, Tail(s)) <=> InSeq(e, s) /\ e # Head(s)
<1>1. /\ Len(s) \in Nat /\ Len(s) > 0
      /\ Tail(s) \in Seq(S) /\ Len(Tail(s)) = Len(s) - 1
      /\ Head(s) = s[1]
      /\ \A i \in 1 .. Len(s) - 1 : Tail(s)[i] = s[i + 1]
  OBVIOUS
<1>2. Head(s) \in S /\ InSeq(Head(s), s)
  BY <1>1 DEF InSeq
<1>3. NoDuplicates(Tail(s))
  BY <1>1 DEF NoDuplicates
<1>4. ASSUME NEW e PROVE InSeq(e, Tail(s)) <=> InSeq(e, s) /\ e # Head(s)
  <2>1. ASSUME InSeq(e, Tail(s)) PROVE InSeq(e, s) /\ e # Head(s)
    <3>1. PICK i \in 1 .. Len(s) - 1 : s[i + 1] = e
      BY <1>1, <2>1 DEF InSeq
    <3>2. i + 1 \in 1 .. Len(s) /\ i + 1 # 1 /\ 1 \in 1 .. Len(s)
      BY <1>1
    <3> QED
      BY <1>1, <3>1, <3>2 DEF InSeq, NoDuplicates
  <2>2. ASSUME InSeq(e, s), e # Head(s) PROVE InSeq(e, Tail(s))
    <3>1. PICK i \in 1 .. Len(s) : s[i] = e
      BY <2>2 DEF InSeq
    <3>2. i - 1 \in 1 .. Len(s) - 1 /\ (i - 1) + 1 = i
      BY <1>1, <2>2, <3>1
    <3>3. Tail(s)[i - 1] = e
      BY <1>1, <3>1, <3>2
    <3> QED
      BY <1>1, <3>2, <3>3 DEF InSeq
  <2> QED
    BY <2>1, <2>2
<1> QED
  BY <1>1, <1>2, <1>3, <1>4

\* Appending an element that is not there.
LEMMA AppendFacts ==
  ASSUME NEW S, NEW s \in Seq(S), NEW e \in S, NoDuplicates(s), ~InSeq(e, s)
  PROVE  /\ Append(s, e) \in Seq(S) /\ NoDuplicates(Append(s, e))
         /\ \A x : InSeq(x, Append(s, e)) <=> InSeq(x, s) \/ x = e
<1>1. /\ Append(s, e) \in Seq(S) /\ Len(s) \in Nat
      /\ Len(Append(s, e)) = Len(s) + 1
      /\ Append(s, e)[Len(s) + 1] = e
      /\ \A i \in 1 .. Len(s) : Append(s, e)[i] = s[i]
  OBVIOUS
<1>2. NoDuplicates(Append(s, e))
  <2> SUFFICES ASSUME NEW i \in 1 .. Len(s) + 1, NEW j \in 1 .. Len(s) + 1,
                      Append(s, e)[i] = Append(s, e)[j]
               PROVE  i = j
    BY <1>1 DEF NoDuplicates
  <2>1. i \in 1 .. Len(s) \/ i = Len(s) + 1
    BY <1>1
  <2>2. j \in 1 .. Len(s) \/ j = Len(s) + 1
    BY <1>1
  <2> QED
    BY <1>1, <2>1, <2>2 DEF NoDuplicates, InSeq
<1>3. ASSUME NEW x PROVE InSeq(x, Append(s, e)) <=> InSeq(x, s) \/ x = e
  <2>1. \A i \in 1 .. Len(s) + 1 : i \in 1 .. Len(s) \/ i = Len(s) + 1
    BY <1>1
  <2>2. 1 .. Len(s) \subseteq 1 .. Len(s) + 1 /\ Len(s) + 1 \in 1 .. Len(s) + 1
    BY <1>1
  <2> QED
    BY <1>1, <2>1, <2>2 DEF InSeq
<1> QED
  BY <1>1, <1>2, <1>3

\* Erasing an element.
LEMMA WithoutFacts ==
  ASSUME NEW S, NEW s \in Seq(S), NEW e, NoDuplicates(s)
  PROVE  /\ Without(s, e) \in Seq(S) /\ NoDuplicates(Without(s, e))
         /\ \A x : InSeq(x, Without(s, e)) <=> InSeq(x, s) /\ x # e
<1>1. CASE ~InSeq(e, s)
  <2>1. Without(s, e) = s
    BY <1>1 DEF Without
  <2> QED
    BY <1>1, <2>1
<1>2. CASE InSeq(e, s)
  <2> DEFINE k == CHOOSE i \in 1 .. Len(s) : s[i] = e
             w == DropAt(s, k)
  <2>1. k \in 1 .. Len(s) /\ s[k] = e
    BY <1>2 DEF InSeq
  <2>2. Len(s) \in Nat /\ Len(s) > 0 /\ k \in Nat
    BY <2>1
  <2> HIDE DEF k
  <2>3. /\ w \in Seq(S) /\ Len(w) = Len(s) - 1
        /\ \A j \in 1 .. Len(s) - 1 : w[j] = IF j < k THEN s[j] ELSE s[j + 1]
    <3>1. w \in [1 .. Len(s) - 1 -> S]
      BY <2>1, <2>2 DEF DropAt
    <3>2. Len(s) - 1 \in Nat
      BY <2>2
    <3> QED
      BY <2>2, <3>1, <3>2 DEF DropAt
  <2>4. Without(s, e) = w
    BY <1>2 DEF Without, k
  <2> HIDE DEF w
  <2>5. NoDuplicates(w)
    BY <2>2, <2>3 DEF NoDuplicates
  <2>6. ASSUME NEW x PROVE InSeq(x, w) <=> InSeq(x, s) /\ x # e
    <3>1. ASSUME InSeq(x, w) PROVE InSeq(x, s) /\ x # e
      <4>1. PICK j \in 1 .. Len(s) - 1 : w[j] = x
        BY <2>3, <3>1 DEF InSeq
      <4>2. PICK i \in 1 .. Len(s) : i # k /\ s[i] = x
        <5>1. CASE j < k
          BY <2>2, <2>3, <4>1, <5>1
        <5>2. CASE ~(j < k)
          <6>1. j + 1 \in 1 .. Len(s) /\ j + 1 # k /\ s[j + 1] = x
            BY <2>2, <2>3, <4>1, <5>2
          <6> QED
            BY <6>1
        <5> QED
          BY <5>1, <5>2
      <4> QED
        BY <2>1, <4>2 DEF InSeq, NoDuplicates
    <3>2. ASSUME InSeq(x, s), x # e PROVE InSeq(x, w)
      <4>1. PICK i \in 1 .. Len(s) : s[i] = x
        BY <3>2 DEF InSeq
      <4>2. i # k
        BY <2>1, <3>2, <4>1
      <4>3. CASE i < k
        <5>1. i \in 1 .. Len(s) - 1 /\ w[i] = x
          BY <2>1, <2>2, <2>3, <4>1, <4>3
        <5> QED
          BY <2>3, <5>1 DEF InSeq
      <4>4. CASE i > k
        <5>1. i - 1 \in 1 .. Len(s) - 1 /\ ~(i - 1 < k) /\ (i - 1) + 1 = i
          BY <2>1, <2>2, <4>4
        <5>2. w[i - 1] = x
          BY <2>3, <4>1, <5>1
        <5> QED
          BY <2>3, <5>1, <5>2 DEF InSeq
      <4> QED
        BY <2>2, <4>2, <4>3, <4>4
    <3> QED
      BY <3>1, <3>2
  <2> QED
    BY <2>3, <2>4, <2>5, <2>6
<1> QED
  BY <1>1, <1>2

-----------------------------------------------------------------------------
\* Induction, stated with a set in place of a predicate.

\* A set of natural numbers has a least element.
LEMMA LeastNatural ==
  ASSUME NEW T, T \subseteq Nat, T # {}
  PROVE  \E m \in T : \A n \in T : m <= n
<1> DEFINE R == {ss \in Nat \X Nat : ss[1] < ss[2]}
<1>1. IsWellFoundedOn(R, Nat)
  <2>1. R = OpToRel(<, Nat)
    BY DEF OpToRel
  <2> QED
    BY <2>1, NatLessThanWellFounded
<1> HIDE DEF R
<1>2. PICK m \in T : \A n \in T : ~ (<<n, m>> \in R)
  BY <1>1, WFMin
<1>3. \A n \in T : ~ (n < m)
  BY <1>2 DEF R
<1> QED
  BY <1>3

\* A set that has 0 and the successor of each of its numbers has them all.
LEMMA NatSetInduction ==
  ASSUME NEW S, 0 \in S, \A n \in Nat : n \in S => n + 1 \in S
  PROVE  Nat \subseteq S
<1> SUFFICES ASSUME Nat \ S # {} PROVE FALSE
  OBVIOUS
<1>1. PICK m \in Nat \ S : \A n \in Nat \ S : m <= n
  BY LeastNatural
<1>2. m # 0 /\ m - 1 \in Nat /\ m - 1 + 1 = m
  BY <1>1
<1>3. m - 1 \in S
  BY <1>1, <1>2
<1> QED
  BY <1>2, <1>3

-----------------------------------------------------------------------------
\* Two sequences of steps of g from the same start agree as far as both go.
LEMMA IterationUnique ==
  ASSUME NEW g, NEW n \in Nat, NEW w, NEW h,
         w[0] = h[0],
         \A k \in 0 .. n - 1 : w[k + 1] = g[w[k]] /\ h[k + 1] = g[h[k]]
  PROVE  \A k \in 0 .. n : w[k] = h[k]
<1> DEFINE S == {k \in Nat : k <= n => w[k] = h[k]}
<1>1. 0 \in S
  OBVIOUS
<1>2. \A k \in Nat : k \in S => k + 1 \in S
  <2> SUFFICES ASSUME NEW k \in Nat, k \in S, k + 1 <= n PROVE w[k + 1] = h[k + 1]
    OBVIOUS
  <2>1. k \in 0 .. n - 1 /\ w[k] = h[k]
    OBVIOUS
  <2> QED
    BY <2>1
<1> HIDE DEF S
<1>3. Nat \subseteq S
  BY <1>1, <1>2, NatSetInduction
<1> QED
  BY <1>3 DEF S

\* w iterates g from a.
Iterates(w, g, a) == w = [k \in Nat |-> IF k = 0 THEN a ELSE g[w[k - 1]]]

\* The function that iterates g from a exists, so the recursive definition of it says
\* what it seems to say.
LEMMA IterationExists ==
  ASSUME NEW V, NEW g, NEW a \in V, \A v \in V : g[v] \in V
  PROVE  \E w : Iterates(w, g, a)
<1> DEFINE Run(n, h) == h[0] = a /\ \A k \in 0 .. n - 1 : h[k + 1] = g[h[k]]
           S == {n \in Nat : \E h \in [0 .. n -> V] : Run(n, h)}
<1>1. 0 \in S
  <2> DEFINE h == [k \in 0 .. 0 |-> a]
  <2>1. h \in [0 .. 0 -> V] /\ Run(0, h)
    OBVIOUS
  <2> QED
    BY <2>1
<1>2. ASSUME NEW n \in Nat, n \in S PROVE n + 1 \in S
  <2>1. PICK h \in [0 .. n -> V] : Run(n, h)
    BY <1>2
  <2> DEFINE j == [k \in 0 .. n + 1 |-> IF k = n + 1 THEN g[h[n]] ELSE h[k]]
  <2>2. g[h[n]] \in V
    OBVIOUS
  <2>3. j \in [0 .. n + 1 -> V]
    BY <2>2
  <2>4. j[0] = a
    BY <2>1
  <2>5. ASSUME NEW k \in 0 .. n PROVE j[k + 1] = g[j[k]]
    <3>1. CASE k = n
      BY <3>1
    <3>2. CASE k # n
      <4>1. k \in 0 .. n - 1 /\ k + 1 \in 0 .. n + 1 /\ k + 1 # n + 1 /\ k # n + 1
        BY <3>2
      <4> QED
        BY <2>1, <4>1
    <3> QED
      BY <3>1, <3>2
  <2> HIDE DEF j
  <2>6. Run(n + 1, j)
    BY <2>4, <2>5
  <2> QED
    BY <2>3, <2>6
<1>3. Nat \subseteq S
  <2> HIDE DEF S
  <2> QED
    BY <1>1, <1>2, NatSetInduction
<1> DEFINE run == [n \in Nat |-> CHOOSE h \in [0 .. n -> V] : Run(n, h)]
           w == [n \in Nat |-> run[n][n]]
<1>4. \A n \in Nat : run[n] \in [0 .. n -> V] /\ Run(n, run[n])
  BY <1>3
<1> HIDE DEF run
<1>5. \A n \in Nat : w[n] \in V
  BY <1>4
<1>6. w[0] = a
  BY <1>4
<1>7. ASSUME NEW n \in Nat PROVE w[n + 1] = g[w[n]]
  <2>1. Run(n, run[n]) /\ Run(n + 1, run[n + 1])
    BY <1>4
  <2>2. \A k \in 0 .. n - 1 : /\ run[n][k + 1] = g[run[n][k]]
                              /\ run[n + 1][k + 1] = g[run[n + 1][k]]
    BY <2>1
  <2>3. run[n][0] = run[n + 1][0]
    BY <2>1
  <2>4. run[n][n] = run[n + 1][n]
    <3> DEFINE u == run[n]
               v == run[n + 1]
    <3>1. u[0] = v[0] /\ \A k \in 0 .. n - 1 : u[k + 1] = g[u[k]] /\ v[k + 1] = g[v[k]]
      BY <2>2, <2>3
    <3> HIDE DEF u, v
    <3>2. \A k \in 0 .. n : u[k] = v[k]
      BY <3>1, IterationUnique
    <3> QED
      BY <3>2 DEF u, v
  <2>5. run[n + 1][n + 1] = g[run[n + 1][n]]
    BY <2>1
  <2> QED
    BY <2>4, <2>5
<1>8. ASSUME NEW k \in Nat PROVE w[k] = IF k = 0 THEN a ELSE g[w[k - 1]]
  <2>1. CASE k = 0
    BY <1>6, <2>1
  <2>2. CASE k # 0
    <3>1. k - 1 \in Nat /\ (k - 1) + 1 = k
      BY <2>2
    <3> QED
      BY <1>7, <2>2, <3>1
  <2> QED
    BY <2>1, <2>2
<1>9. Iterates(w, g, a)
  BY <1>8 DEF Iterates
<1> QED
  BY <1>9

\* What the function that iterates g from a is.
LEMMA IterationFacts ==
  ASSUME NEW V, NEW g, NEW a \in V, \A v \in V : g[v] \in V,
         NEW w, Iterates(w, g, a)
  PROVE  /\ w[0] = a
         /\ \A k \in Nat : w[k] \in V /\ w[k + 1] = g[w[k]]
<1>1. ASSUME NEW k \in Nat PROVE w[k] = IF k = 0 THEN a ELSE g[w[k - 1]]
  BY Zenon DEF Iterates
<1>2. w[0] = a
  BY <1>1
<1>3. ASSUME NEW k \in Nat PROVE w[k + 1] = g[w[k]]
  <2>1. k + 1 \in Nat /\ k + 1 # 0 /\ (k + 1) - 1 = k
    OBVIOUS
  <2> QED
    BY <1>1, <2>1
<1>4. \A k \in Nat : w[k] \in V
  <2> DEFINE T == {k \in Nat : w[k] \in V}
  <2>1. 0 \in T /\ \A k \in Nat : k \in T => k + 1 \in T
    BY <1>2, <1>3
  <2> HIDE DEF T
  <2>2. Nat \subseteq T
    BY <2>1, NatSetInduction
  <2> QED
    BY <2>2 DEF T
<1> QED
  BY <1>2, <1>3, <1>4

-----------------------------------------------------------------------------
\* Functions that are defined by a recursion on the tail.

\* f takes steps from its argument until it stops, and returns what out says there.
TailRecursive(f, D, stop, out, step) ==
  f = [x \in D |-> IF x \in stop THEN out[x] ELSE f[step[x]]]

\* Such a function exists whenever the steps stay inside its domain.
LEMMA TailRecursionExists ==
  ASSUME NEW D, NEW stop, NEW out, NEW step, \A x \in D \ stop : step[x] \in D
  PROVE  \E f : TailRecursive(f, D, stop, out, step)
<1> DEFINE go == [x \in D |-> IF x \in stop THEN x ELSE step[x]]
           Runs(w, x) == w[0] = x /\ \A k \in Nat : w[k] \in D /\ w[k + 1] = go[w[k]]
           run == [x \in D |-> CHOOSE w : Runs(w, x)]
           Ends(x, y) == y \in stop /\ \E n \in Nat : run[x][n] = y
           f == [x \in D |-> IF \E y : Ends(x, y) THEN out[CHOOSE y : Ends(x, y)] ELSE {}]
<1>1. \A x \in D : go[x] \in D /\ go[x] = IF x \in stop THEN x ELSE step[x]
  OBVIOUS
<1> HIDE DEF go
<1>2. ASSUME NEW x \in D PROVE Runs(run[x], x)
  <2>1. PICK w : Iterates(w, go, x)
    BY <1>1, IterationExists
  <2>2. Runs(w, x)
    BY <1>1, <2>1, IterationFacts
  <2> HIDE DEF Runs
  <2> QED
    BY <2>2
<1> HIDE DEF run
<1>3. ASSUME NEW x \in D, x \in stop PROVE f[x] = out[x]
  <2> DEFINE S == {k \in Nat : run[x][k] = x}
  <2>1. 0 \in S
    BY <1>2
  <2>2. \A k \in Nat : k \in S => k + 1 \in S
    BY <1>1, <1>2, <1>3
  <2> HIDE DEF S
  <2>3. Nat \subseteq S
    BY <2>1, <2>2, NatSetInduction
  <2>4. \A y : Ends(x, y) <=> y = x
    BY <1>3, <2>3 DEF S
  <2> HIDE DEF Ends
  <2> QED
    BY <2>4
<1>4. ASSUME NEW x \in D, x \notin stop PROVE f[x] = f[step[x]]
  <2> DEFINE z == step[x]
             S == {k \in Nat : run[x][k + 1] = run[z][k]}
  <2>1. z \in D /\ go[x] = z
    BY <1>1, <1>4
  <2> HIDE DEF z
  <2>2. 0 \in S
    BY <1>2, <2>1
  <2>3. ASSUME NEW k \in Nat, k \in S PROVE k + 1 \in S
    <3>1. run[x][k + 1] = run[z][k]
      BY <2>3
    <3>2. Runs(run[x], x) /\ Runs(run[z], z) /\ k + 1 \in Nat
      BY <1>2, <2>1
    <3>3. run[x][(k + 1) + 1] = go[run[x][k + 1]] /\ run[z][k + 1] = go[run[z][k]]
      BY <3>2
    <3> QED
      BY <3>1, <3>2, <3>3
  <2> HIDE DEF S
  <2>4. Nat \subseteq S
    BY <2>2, <2>3, NatSetInduction
  <2>5. ASSUME NEW y PROVE Ends(x, y) <=> Ends(z, y)
    <3>1. ASSUME y \in stop, NEW n \in Nat, run[x][n] = y PROVE Ends(z, y)
      <4>1. n # 0
        BY <1>2, <1>4, <3>1
      <4>2. n - 1 \in Nat /\ (n - 1) + 1 = n
        BY <4>1
      <4> QED
        BY <2>4, <3>1, <4>2 DEF S
    <3>2. ASSUME y \in stop, NEW n \in Nat, run[z][n] = y PROVE Ends(x, y)
      <4>1. n + 1 \in Nat
        OBVIOUS
      <4> QED
        BY <2>4, <3>2, <4>1 DEF S
    <3> QED
      BY <3>1, <3>2
  <2> HIDE DEF Ends
  <2>6. (CHOOSE y : Ends(x, y)) = (CHOOSE y : Ends(z, y))
    BY <2>5
  <2> QED
    BY <2>1, <2>5, <2>6 DEF z
<1>5. f = [x \in D |-> IF x \in stop THEN out[x] ELSE f[step[x]]]
  <2> HIDE DEF f
  <2>1. f = [x \in D |-> f[x]]
    BY DEF f
  <2> QED
    BY <1>3, <1>4, <2>1
<1> QED
  BY <1>5 DEF TailRecursive

\* Where the steps go down a rank they end, at an argument that has every property (the
\* members of C) that the steps keep.
LEMMA TailRecursionEnds ==
  ASSUME NEW D, NEW stop, NEW out, NEW step, NEW f, TailRecursive(f, D, stop, out, step),
         NEW C, C \subseteq D, \A x \in C \ stop : step[x] \in C,
         NEW rank, \A x \in C : rank[x] \in Nat,
         \A x \in C \ stop : rank[step[x]] < rank[x]
  PROVE  \A x \in C : \E y \in C \cap stop : f[x] = out[y]
<1> DEFINE Good(x) == \E y \in C \cap stop : f[x] = out[y]
           T == {n \in Nat : \E x \in C : rank[x] = n /\ ~Good(x)}
<1> SUFFICES ASSUME T # {} PROVE FALSE
  <2>1. \A x \in C : rank[x] \in T \/ Good(x)
    OBVIOUS
  <2> QED
    BY <2>1
<1>1. \A x \in C : f[x] = IF x \in stop THEN out[x] ELSE f[step[x]]
  <2>1. f = [x \in D |-> IF x \in stop THEN out[x] ELSE f[step[x]]]
    BY DEF TailRecursive
  <2> QED
    BY <2>1
<1>2. PICK m \in T : \A n \in T : m <= n
  <2>1. T \subseteq Nat
    OBVIOUS
  <2> HIDE DEF T
  <2> QED
    BY <2>1, LeastNatural
<1>3. PICK x \in C : rank[x] = m /\ ~Good(x)
  BY <1>2
<1>4. x \notin stop /\ step[x] \in C
  BY <1>1, <1>3
<1>5. ~Good(step[x])
  BY <1>1, <1>3, <1>4
<1>6. rank[step[x]] \in T
  BY <1>4, <1>5
<1> QED
  BY <1>2, <1>3, <1>4, <1>6

-----------------------------------------------------------------------------
\* Finite sets of numbers, and finite graphs.

\* A finite set of natural numbers has a greatest element.
LEMMA GreatestNatural ==
  ASSUME NEW T, T \subseteq Nat, IsFiniteSet(T), T # {}
  PROVE  \E m \in T : \A n \in T : m >= n
<1> DEFINE Above(m) == {n \in T : n > m}
           R == {Cardinality(Above(m)) : m \in T}
<1>1. ASSUME NEW m \in T PROVE IsFiniteSet(Above(m)) /\ Cardinality(Above(m)) \in Nat
  BY FS_Subset, FS_CardinalityType
<1>2. R \subseteq Nat /\ R # {}
  BY <1>1
<1>3. PICK c \in R : \A d \in R : c <= d
  <2> HIDE DEF R
  <2> QED
    BY <1>2, LeastNatural
<1>4. PICK m \in T : Cardinality(Above(m)) = c
  OBVIOUS
<1>5. ASSUME NEW n \in T, n > m PROVE FALSE
  <2>1. Above(n) \subseteq Above(m) /\ n \in Above(m) /\ n \notin Above(n)
    <3>1. n \in Nat /\ m \in Nat
      OBVIOUS
    <3>2. \A k \in T : k \in Nat /\ (k > n => k > m)
      BY <1>5, <3>1
    <3> HIDE DEF R
    <3>3. Above(n) \subseteq Above(m)
      BY <3>2
    <3>4. n \in Above(m)
      BY <1>5
    <3>5. n \notin Above(n)
      BY <3>1
    <3> QED
      BY <3>3, <3>4, <3>5
  <2>2. Cardinality(Above(n)) \in R
    OBVIOUS
  <2>3. c <= Cardinality(Above(n))
    BY <1>3, <2>2
  <2>4. IsFiniteSet(Above(m)) /\ Cardinality(Above(m)) \in Nat /\ Cardinality(Above(n)) \in Nat
    BY <1>1
  <2>5. Above(n) # Above(m)
    BY <2>1
  <2> HIDE DEF Above, R
  <2>6. Cardinality(Above(n)) <= Cardinality(Above(m)) /\ Cardinality(Above(n)) # Cardinality(Above(m))
    BY <2>1, <2>4, <2>5, FS_Subset
  <2> QED
    BY <1>4, <2>3, <2>4, <2>6
<1> QED
  BY <1>5

\* A graph is a function c from nodes to the sets of their children.  left takes those
\* without a child in the set away until there are none.
Drains(left, T, c) ==
  left = [s \in SUBSET T |-> LET n == {t \in s : c[t] \cap s # {}}
                            IN IF n = s THEN s ELSE left[n]]

\* There is such a function, and what it leaves of a finite graph is the largest set in
\* which every node has a child.
LEMMA DrainFacts ==
  ASSUME NEW T, IsFiniteSet(T), NEW c
  PROVE  /\ \E left : Drains(left, T, c)
         /\ \A left : Drains(left, T, c) =>
              /\ left[T] \subseteq T
              /\ \A t \in left[T] : c[t] \cap left[T] # {}
              /\ \A S \in SUBSET T :
                   (\A t \in S : c[t] \cap S # {}) => S \subseteq left[T]
<1> DEFINE n(s) == {t \in s : c[t] \cap s # {}}
           D == SUBSET T
           stop == {s \in D : n(s) = s}
           out == [s \in D |-> s]
           step == [s \in D |-> n(s)]
           rank == [s \in D |-> Cardinality(s)]
<1>1. \A f : Drains(f, T, c) <=> TailRecursive(f, D, stop, out, step)
  <2> SUFFICES ASSUME NEW f PROVE Drains(f, T, c) <=> TailRecursive(f, D, stop, out, step)
    OBVIOUS
  <2>1. [s \in SUBSET T |-> LET m == {t \in s : c[t] \cap s # {}}
                            IN IF m = s THEN s ELSE f[m]]
        = [s \in D |-> IF s \in stop THEN out[s] ELSE f[step[s]]]
    OBVIOUS
  <2> QED
    BY <2>1, Zenon DEF Drains, TailRecursive
<1>2. \A s \in D : step[s] \in D /\ out[s] = s /\ rank[s] = Cardinality(s)
  OBVIOUS
<1>3. \A s \in D : IsFiniteSet(s) /\ Cardinality(s) \in Nat
  BY FS_Subset, FS_CardinalityType
<1>4. ASSUME NEW s \in D \ stop PROVE rank[step[s]] < rank[s]
  <2>1. step[s] \subseteq s /\ step[s] # s
    BY <1>4
  <2>2. s \in D /\ step[s] \in D
    BY <1>2
  <2> HIDE DEF D, step, rank
  <2>3. Cardinality(step[s]) <= Cardinality(s) /\ Cardinality(step[s]) # Cardinality(s)
    BY <1>3, <2>1, <2>2, FS_Subset
  <2> QED
    BY <1>2, <1>3, <2>2, <2>3
<1>5. \E left : Drains(left, T, c)
  <2> HIDE DEF D, stop, out, step
  <2>1. \E f : TailRecursive(f, D, stop, out, step)
    BY <1>2, TailRecursionExists
  <2> QED
    BY <1>1, <2>1
<1>6. ASSUME NEW left, Drains(left, T, c), NEW S \in SUBSET T, \A t \in S : c[t] \cap S # {}
      PROVE  left[T] \in D /\ n(left[T]) = left[T] /\ S \subseteq left[T]
  <2> DEFINE C == {s \in D : S \subseteq s}
  <2>1. C \subseteq D /\ T \in C /\ \A x \in C : S \subseteq x
    OBVIOUS
  <2>2. \A x \in C \ stop : step[x] \in C
    <3> SUFFICES ASSUME NEW x \in C \ stop PROVE n(x) \in C
      OBVIOUS
    <3>1. \A t \in S : t \in x /\ c[t] \cap x # {}
      BY <1>6
    <3> QED
      BY <3>1
  <2>3. TailRecursive(left, D, stop, out, step)
    BY <1>1, <1>6
  <2>4. \A s \in C : rank[s] \in Nat
    BY <1>3
  <2>5. PICK y \in C \cap stop : left[T] = out[y]
    <3> HIDE DEF D, stop, out, step, rank, C
    <3>1. \A x \in C \ stop : rank[step[x]] < rank[x]
      BY <1>4, <2>1
    <3>2. \A x \in C : \E y \in C \cap stop : left[x] = out[y]
      BY <2>1, <2>2, <2>3, <2>4, <3>1, TailRecursionEnds
    <3> QED
      BY <2>1, <3>2
  <2>6. left[T] = y
    BY <1>2, <2>5
  <2> QED
    BY <2>1, <2>5, <2>6
<1>7. ASSUME NEW left, Drains(left, T, c)
      PROVE  left[T] \in D /\ n(left[T]) = left[T]
  <2>1. \A t \in {} : c[t] \cap {} # {}
    OBVIOUS
  <2> HIDE DEF n, D
  <2> QED
    BY <1>6, <1>7, <2>1 DEF D
<1> QED
  <2>1. ASSUME NEW left, Drains(left, T, c)
        PROVE  /\ left[T] \subseteq T
               /\ \A t \in left[T] : c[t] \cap left[T] # {}
               /\ \A S \in SUBSET T :
                    (\A t \in S : c[t] \cap S # {}) => S \subseteq left[T]
    BY <1>6, <1>7, <2>1
  <2> HIDE DEF n, D
  <2> QED
    BY <1>5, <2>1
=============================================================================
