------------------------ MODULE CycleDetectionProofs ------------------------
(***************************************************************************)
(* The depth-first search of the cycle detection finds every cycle and     *)
(* computes the closed form that LockManager is modelled with, for every   *)
(* number of transactions and every graph, however often a pass has        *)
(* searched before.                                                        *)
(***************************************************************************)
EXTENDS CycleDetection, SeqOpsProofs

-----------------------------------------------------------------------------
(* The closed form.                                                        *)

\* The transactions from which a cycle can be reached are the largest set in which each
\* waits for another.
LEMMA DoomedFacts ==
  ASSUME NEW g
  PROVE  /\ Doomed(g) \subseteq Txns
         /\ \A t \in Txns : t \in Doomed(g) <=> Children(g, t) \cap Doomed(g) # {}
         /\ \A S \in SUBSET Txns :
              (\A t \in S : Children(g, t) \cap S # {}) => S \subseteq Doomed(g)
<1> DEFINE c == [t \in Txns |-> Children(g, t)]
           n(s) == {t \in s : Children(g, t) \cap s # {}}
           Draining(f) == f = [s \in SUBSET Txns |-> IF n(s) = s THEN s ELSE f[n(s)]]
           left == CHOOSE f : Draining(f)
<1>1. ASSUME NEW f PROVE Draining(f) <=> Drains(f, Txns, c)
  <2>1. [s \in SUBSET Txns |-> IF n(s) = s THEN s ELSE f[n(s)]]
        = [s \in SUBSET Txns |-> LET m == {t \in s : c[t] \cap s # {}}
                                 IN IF m = s THEN s ELSE f[m]]
    <3>1. ASSUME NEW s \in SUBSET Txns PROVE n(s) = {t \in s : c[t] \cap s # {}}
      OBVIOUS
    <3> HIDE DEF n, c
    <3> QED
      BY <3>1
  <2> QED
    BY <2>1, Zenon DEF Drains
<1>2. Draining(left)
  <2> HIDE DEF Draining, c
  <2>1. PICK f : Drains(f, Txns, c)
    BY TxnsAssumption, DrainFacts
  <2>2. Draining(f)
    BY <1>1, <2>1
  <2> QED
    BY <2>2
<1>3. Doomed(g) = left[Txns]
  BY DEF Doomed
<1>4. Drains(left, Txns, c)
  BY <1>1, <1>2
<1>5. \A t \in Txns : c[t] = Children(g, t)
  OBVIOUS
<1> HIDE DEF left, c
<1> DEFINE M == left[Txns]
<1>6. /\ M \subseteq Txns
      /\ \A t \in M : c[t] \cap M # {}
      /\ \A S \in SUBSET Txns : (\A t \in S : c[t] \cap S # {}) => S \subseteq M
  BY <1>4, TxnsAssumption, DrainFacts
<1> HIDE DEF M
<1>7. ASSUME NEW t \in Txns, Children(g, t) \cap M # {} PROVE t \in M
  <2>1. \A u \in M \cup {t} : c[u] \cap (M \cup {t}) # {}
    BY <1>5, <1>6, <1>7
  <2>2. M \cup {t} \in SUBSET Txns
    BY <1>6
  <2>3. M \cup {t} \subseteq M
    BY <1>6, <2>1, <2>2
  <2> QED
    BY <2>3
<1>8. \A S \in SUBSET Txns : (\A t \in S : Children(g, t) \cap S # {}) => S \subseteq M
  BY <1>5, <1>6
<1> QED
  BY <1>3, <1>5, <1>6, <1>7, <1>8 DEF M

\* The smallest number of a set.
LEMMA MinFacts ==
  ASSUME NEW T, T \subseteq Nat, T # {}
  PROVE  Min(T) \in T /\ \A n \in T : Min(T) <= n
<1>1. \E m \in T : \A n \in T : m =< n
  BY LeastNatural
<1> QED
  BY <1>1 DEF Min

\* A member that no other member is less than is the smallest.
LEMMA MinIs ==
  ASSUME NEW T, T \subseteq Nat, NEW m \in T, \A n \in T : m <= n
  PROVE  Min(T) = m
<1>1. Min(T) \in T /\ Min(T) <= m /\ m <= Min(T)
  BY MinFacts
<1>2. Min(T) \in Nat /\ m \in Nat
  BY <1>1
<1> QED
  BY <1>1, <1>2

\* path is the recursive function of DfsPath.
Descends(path, g) ==
  path = [at \in Doomed(g) \X SUBSET Txns |->
            IF at[1] \in at[2] THEN at[2]
            ELSE path[<<Min(Children(g, at[1]) \cap Doomed(g)), at[2] \cup {at[1]}>>]]

PathOf(g) == CHOOSE path : Descends(path, g)

\* What it returns in t with the active transactions A.
PathTurn(g, t, A) ==
  IF t \in A THEN A ELSE PathOf(g)[<<Min(Children(g, t) \cap Doomed(g)), A \cup {t}>>]

\* The path of the closed form goes from each transaction to its smallest doomed child.
LEMMA PathFacts ==
  ASSUME NEW g, NEW t \in Doomed(g), NEW A \in SUBSET Txns
  PROVE  /\ DfsPath(g, t) = PathOf(g)[<<t, {}>>]
         /\ PathOf(g)[<<t, A>>] = PathTurn(g, t, A)
<1> DEFINE D == Doomed(g) \X SUBSET Txns
           below(u) == Min(Children(g, u) \cap Doomed(g))
           stop == {x \in D : x[1] \in x[2]}
           out == [x \in D |-> x[2]]
           step == [x \in D |-> <<below(x[1]), x[2] \cup {x[1]}>>]
           path == PathOf(g)
<1>1. Doomed(g) \subseteq Txns /\ \A u \in Doomed(g) : below(u) \in Doomed(g)
  <2>1. Doomed(g) \subseteq Txns
    BY DoomedFacts
  <2>2. ASSUME NEW u \in Doomed(g) PROVE below(u) \in Doomed(g)
    <3>1. /\ Children(g, u) \cap Doomed(g) # {}
          /\ Children(g, u) \cap Doomed(g) \subseteq Nat
      BY <2>1, DoomedFacts, TxnsAssumption
    <3> QED
      BY <3>1, MinFacts
  <2> QED
    BY <2>1, <2>2
<1> HIDE DEF below
<1>2. \A f : Descends(f, g) <=> TailRecursive(f, D, stop, out, step)
  <2> SUFFICES ASSUME NEW f
               PROVE  Descends(f, g) <=> TailRecursive(f, D, stop, out, step)
    OBVIOUS
  <2>1. [at \in D |-> IF at[1] \in at[2] THEN at[2]
                     ELSE f[<<below(at[1]), at[2] \cup {at[1]}>>]]
        = [x \in D |-> IF x \in stop THEN out[x] ELSE f[step[x]]]
    OBVIOUS
  <2> QED
    BY <2>1, Zenon DEF Descends, TailRecursive, below
<1>3. ASSUME NEW x \in D PROVE step[x] \in D
  BY <1>1
<1>4. Descends(path, g)
  <2> HIDE DEF D, stop, out, step
  <2>1. \E f : TailRecursive(f, D, stop, out, step)
    BY <1>3, TailRecursionExists
  <2> QED
    BY <1>2, <2>1 DEF PathOf
<1>5. DfsPath(g, t) = path[<<t, {}>>]
  BY DEF DfsPath, Descends, PathOf
<1> HIDE DEF path
<1>6. \A x \in D : path[x] = IF x[1] \in x[2] THEN x[2]
                            ELSE path[<<below(x[1]), x[2] \cup {x[1]}>>]
  BY <1>4, Zenon DEF Descends, below
<1>7. <<t, A>> \in D
  OBVIOUS
<1>8. path[<<t, A>>] = IF t \in A THEN A ELSE path[<<below(t), A \cup {t}>>]
  BY <1>6, <1>7
<1> QED
  BY <1>5, <1>8 DEF path, below, PathTurn

\* Each of these facts alone.
LEMMA PathStart ==
  ASSUME NEW g, NEW t \in Doomed(g)
  PROVE  DfsPath(g, t) = PathOf(g)[<<Min(Children(g, t) \cap Doomed(g)), {t}>>]
<1>1. {} \in SUBSET Txns /\ t \notin {} /\ {} \cup {t} = {t}
  OBVIOUS
<1>2. DfsPath(g, t) = PathOf(g)[<<t, {}>>]
  BY <1>1, PathFacts
<1>3. PathOf(g)[<<t, {}>>] = PathTurn(g, t, {})
  BY <1>1, PathFacts
<1> QED
  BY <1>1, <1>2, <1>3 DEF PathTurn

\* PathStop: a transaction that is active ends the path.
LEMMA PathStop ==
  ASSUME NEW g, NEW t \in Doomed(g), NEW A \in SUBSET Txns, t \in A
  PROVE  PathOf(g)[<<t, A>>] = A
<1>1. PathOf(g)[<<t, A>>] = PathTurn(g, t, A)
  BY PathFacts
<1> QED
  BY <1>1 DEF PathTurn

\* PathStep: it goes on with the smallest doomed child.
LEMMA PathStep ==
  ASSUME NEW g, NEW t \in Doomed(g), NEW A \in SUBSET Txns, t \notin A
  PROVE  PathOf(g)[<<t, A>>] = PathOf(g)[<<Min(Children(g, t) \cap Doomed(g)), A \cup {t}>>]
<1>1. PathOf(g)[<<t, A>>] = PathTurn(g, t, A)
  BY PathFacts
<1> QED
  BY <1>1 DEF PathTurn

-----------------------------------------------------------------------------
(* The function that dfs is.                                               *)

Calls == Txns \X (SUBSET Txns) \X (SUBSET Txns) \X (SUBSET Txns)
Results == [found : BOOLEAN, active : SUBSET Txns, safe : SUBSET Txns]

\* What a call of the loop of dfs returns, f being what the calls in it return.
Turn(f, g, t, rest, active, safe) ==
  LET next_node == Min(rest)
      r == f[<<next_node, Children(g, next_node), active \cup {next_node}, safe>>]
  IN IF rest = {}
       THEN [found |-> FALSE, active |-> active \ {t}, safe |-> safe \cup {t}]
     ELSE IF next_node \in active
       THEN [found |-> TRUE, active |-> active, safe |-> safe]
     ELSE IF next_node \in safe
       THEN f[<<t, rest \ {next_node}, active, safe>>]
     ELSE IF r.found THEN r
     ELSE f[<<t, rest \ {next_node}, r.active, r.safe>>]

Visits(visit, g) ==
  visit = [call \in Calls |-> Turn(visit, g, call[1], call[2], call[3], call[4])]

VisitOf(g) == CHOOSE visit : Visits(visit, g)

\* It goes down from call to call: fewer transactions are not active, or fewer are left.
Rank(rest, active) ==
  Cardinality(Txns \ active) * (Cardinality(Txns) + 1) + Cardinality(rest)

\* The rank of a call, and how it goes down.
LEMMA RankFacts ==
  ASSUME NEW rest \in SUBSET Txns, NEW A \in SUBSET Txns
  PROVE  /\ Rank(rest, A) \in Nat
         /\ Rank(rest, A) < Cardinality(Txns) * (Cardinality(Txns) + 1) + Cardinality(Txns) + 1
         /\ \A n \in rest : Rank(rest \ {n}, A) < Rank(rest, A)
         /\ \A n \in Txns \ A, R \in SUBSET Txns : Rank(R, A \cup {n}) < Rank(rest, A)
<1> DEFINE N == Cardinality(Txns)
           k == Cardinality(Txns \ A)
           c == Cardinality(rest)
<1>1. ASSUME NEW S \in SUBSET Txns
      PROVE  IsFiniteSet(S) /\ Cardinality(S) \in Nat /\ Cardinality(S) <= N
  BY TxnsAssumption, FS_Subset, FS_CardinalityType
<1>2. /\ N \in Nat /\ k \in Nat /\ c \in Nat /\ k <= N /\ c <= N
      /\ IsFiniteSet(rest) /\ IsFiniteSet(Txns \ A)
  BY <1>1, TxnsAssumption, FS_CardinalityType
<1>3. \A i, j, m \in Nat : i <= j => i * m <= j * m
  OBVIOUS
<1>4. k * (N + 1) \in Nat /\ N * (N + 1) \in Nat /\ k * (N + 1) <= N * (N + 1)
  <2> HIDE DEF N, k
  <2>1. N + 1 \in Nat
    BY <1>2
  <2>2. k * (N + 1) \in Nat /\ N * (N + 1) \in Nat
    BY <1>2, <2>1
  <2>3. k * (N + 1) <= N * (N + 1)
    BY <1>2, <1>3, <2>1
  <2> QED
    BY <2>2, <2>3
<1>5. ASSUME NEW n \in rest PROVE Cardinality(rest \ {n}) = c - 1
  BY <1>2, FS_RemoveElement
<1>6. ASSUME NEW n \in Txns \ A, NEW R \in SUBSET Txns
      PROVE  Rank(R, A \cup {n}) < Rank(rest, A)
  <2>1. Txns \ (A \cup {n}) = (Txns \ A) \ {n}
    OBVIOUS
  <2>2. Cardinality(Txns \ (A \cup {n})) = k - 1
    <3> DEFINE left == Txns \ A
    <3>1. IsFiniteSet(left) /\ n \in left
      BY <1>2
    <3> HIDE DEF left
    <3>2. Cardinality(left \ {n}) = Cardinality(left) - 1
      BY <3>1, FS_RemoveElement
    <3> QED
      BY <2>1, <3>2 DEF left
  <2>3. k - 1 \in Nat
    BY <1>1, <2>2
  <2>4. Cardinality(R) \in Nat /\ Cardinality(R) <= N
    BY <1>1
  <2> DEFINE d == Cardinality(R)
  <2>5. Rank(R, A \cup {n}) = (k - 1) * (N + 1) + d /\ Rank(rest, A) = k * (N + 1) + c
    BY <2>2 DEF Rank
  <2> HIDE DEF N, k, c, d
  <2>6. (k - 1) * (N + 1) = k * (N + 1) - (N + 1)
    BY <1>2
  <2> QED
    BY <1>2, <1>4, <2>4, <2>5, <2>6 DEF d
<1>7. ASSUME NEW n \in rest PROVE Rank(rest \ {n}, A) < Rank(rest, A)
  <2>1. Rank(rest \ {n}, A) = k * (N + 1) + (c - 1) /\ Rank(rest, A) = k * (N + 1) + c
    BY <1>5 DEF Rank
  <2> HIDE DEF N, k, c
  <2> QED
    BY <1>2, <1>4, <2>1
<1>8. Rank(rest, A) \in Nat /\ Rank(rest, A) < N * (N + 1) + N + 1
  <2>1. Rank(rest, A) = k * (N + 1) + c
    BY DEF Rank
  <2> HIDE DEF N, k, c
  <2> QED
    BY <1>2, <1>4, <2>1
<1> QED
  BY <1>6, <1>7, <1>8

\* The first of these facts alone.
LEMMA RankNat ==
  ASSUME NEW rest \in SUBSET Txns, NEW A \in SUBSET Txns
  PROVE  Rank(rest, A) \in Nat
BY RankFacts

\* A search from t that finds no cycle takes t from active_set_ again, and no other.
Fits(r, t, A) == r \in Results /\ (~r.found => r.active = A \ {t})

\* So do the calls of f that have a rank less than k.
Typed(f, k) ==
  \A t \in Txns, rest, A, S \in SUBSET Txns :
    Rank(rest, A) < k => Fits(f[<<t, rest, A, S>>], t, A)

Agree(f, h, k) ==
  \A t \in Txns, rest, A, S \in SUBSET Txns :
    Rank(rest, A) < k => f[<<t, rest, A, S>>] = h[<<t, rest, A, S>>]

\* A call depends on calls of lower rank only.
LEMMA TurnFacts ==
  ASSUME NEW g, NEW f, NEW h, NEW k \in Nat, Typed(f, k), Agree(f, h, k),
         NEW t \in Txns, NEW rest \in SUBSET Txns, NEW A \in SUBSET Txns,
         NEW S \in SUBSET Txns, Rank(rest, A) <= k
  PROVE  /\ Turn(f, g, t, rest, A, S) = Turn(h, g, t, rest, A, S)
         /\ Fits(Turn(f, g, t, rest, A, S), t, A)
<1> DEFINE n == Min(rest)
           x == <<n, Children(g, n), A \cup {n}, S>>
           r == f[x]
<1>1. CASE rest = {}
  BY <1>1 DEF Turn, Fits, Results
<1>2. CASE rest # {}
  <2>1. n \in rest /\ n \in Txns
    BY <1>2, MinFacts, TxnsAssumption
  <2>2. Children(g, n) \in SUBSET Txns
    BY DEF Children
  <2> HIDE DEF n
  <2>3. CASE n \in A
    BY <1>2, <2>3 DEF Turn, Fits, Results, n
  <2>4. CASE n \notin A
    <3>1. Rank(rest \ {n}, A) < k
      <4>1. Rank(rest \ {n}, A) < Rank(rest, A) /\ Rank(rest \ {n}, A) \in Nat /\ Rank(rest, A) \in Nat
        BY <2>1, RankFacts
      <4> QED
        BY <4>1
    <3>2. Rank(Children(g, n), A \cup {n}) < k
      <4>1. /\ Rank(Children(g, n), A \cup {n}) < Rank(rest, A)
            /\ Rank(Children(g, n), A \cup {n}) \in Nat /\ Rank(rest, A) \in Nat
        BY <2>1, <2>2, <2>4, RankFacts
      <4> QED
        BY <4>1
    <3>3. /\ r \in Results /\ r = h[x]
          /\ ~r.found => r.active = A
      <4>1. A \cup {n} \in SUBSET Txns /\ (A \cup {n}) \ {n} = A
        BY <2>1, <2>4
      <4>2. Fits(r, n, A \cup {n}) /\ r = h[x]
        BY <2>1, <2>2, <3>2, <4>1 DEF Typed, Agree
      <4> HIDE DEF r
      <4> QED
        BY <4>1, <4>2 DEF Fits
    <3>4. ASSUME NEW Q \in SUBSET Txns
          PROVE  /\ f[<<t, rest \ {n}, A, Q>>] = h[<<t, rest \ {n}, A, Q>>]
                 /\ Fits(f[<<t, rest \ {n}, A, Q>>], t, A)
      BY <2>1, <3>1 DEF Typed, Agree
    <3> HIDE DEF r
    <3>5. CASE n \in S
      <4>1. \A e : Turn(e, g, t, rest, A, S) = e[<<t, rest \ {n}, A, S>>]
        BY <1>2, <2>4, <3>5 DEF Turn, n
      <4> QED
        BY <3>4, <4>1
    <3>6. CASE n \notin S /\ r.found
      <4>1. Turn(f, g, t, rest, A, S) = r /\ Turn(h, g, t, rest, A, S) = r
        BY <1>2, <2>4, <3>3, <3>6 DEF Turn, n, r
      <4> QED
        BY <3>3, <3>6, <4>1 DEF Fits
    <3>7. CASE n \notin S /\ ~r.found
      <4>1. /\ Turn(f, g, t, rest, A, S) = f[<<t, rest \ {n}, A, r.safe>>]
            /\ Turn(h, g, t, rest, A, S) = h[<<t, rest \ {n}, A, r.safe>>]
        BY <1>2, <2>4, <3>3, <3>7 DEF Turn, n, r
      <4>2. r.safe \in SUBSET Txns
        BY <3>3 DEF Results
      <4> QED
        BY <3>4, <4>1, <4>2
    <3> QED
      BY <3>5, <3>6, <3>7
  <2> QED
    BY <2>3, <2>4
<1> QED
  BY <1>1, <1>2

\* The recursive definition of dfs says what it seems to say.
LEMMA VisitFacts ==
  ASSUME NEW g
  PROVE  \A t \in Txns, rest, A, S \in SUBSET Txns :
           /\ VisitOf(g)[<<t, rest, A, S>>] = Turn(VisitOf(g), g, t, rest, A, S)
           /\ Fits(VisitOf(g)[<<t, rest, A, S>>], t, A)
<1> DEFINE Solves(f, k) ==
             /\ Typed(f, k)
             /\ \A t \in Txns, rest, A, S \in SUBSET Txns :
                  Rank(rest, A) < k =>
                    f[<<t, rest, A, S>>] = Turn(f, g, t, rest, A, S)
           K == {k \in Nat : \E f : Solves(f, k)}
           Next1(f) == [call \in Calls |-> Turn(f, g, call[1], call[2], call[3], call[4])]
<1>1. \A f : \A t \in Txns, rest, A, S \in SUBSET Txns :
        Next1(f)[<<t, rest, A, S>>] = Turn(f, g, t, rest, A, S)
  BY DEF Calls
<1> HIDE DEF Next1
<1>2. 0 \in K
  <2>1. \A rest, A \in SUBSET Txns : ~(Rank(rest, A) < 0)
    BY RankFacts
  <2>2. Solves(0, 0)
    BY <2>1 DEF Typed
  <2> HIDE DEF Solves
  <2> QED
    BY <2>2
<1>3. ASSUME NEW k \in Nat, k \in K PROVE k + 1 \in K
  <2>1. PICK f : Solves(f, k)
    BY <1>3
  <2> DEFINE h == Next1(f)
  <2>2. \A t \in Txns, rest, A, S \in SUBSET Txns :
          h[<<t, rest, A, S>>] = Turn(f, g, t, rest, A, S)
    BY <1>1
  <2> HIDE DEF h
  <2>3. Agree(f, h, k) /\ Typed(f, k)
    BY <2>1, <2>2 DEF Agree
  <2>4. ASSUME NEW t \in Txns, NEW rest \in SUBSET Txns, NEW A \in SUBSET Txns,
               NEW S \in SUBSET Txns, Rank(rest, A) < k + 1
        PROVE  /\ h[<<t, rest, A, S>>] = Turn(h, g, t, rest, A, S)
               /\ Fits(h[<<t, rest, A, S>>], t, A)
    <3>1. Rank(rest, A) <= k
      BY <2>4, RankNat
    <3>2. /\ Turn(f, g, t, rest, A, S) = Turn(h, g, t, rest, A, S)
          /\ Fits(Turn(f, g, t, rest, A, S), t, A)
      BY <2>3, <3>1, TurnFacts
    <3> QED
      BY <2>2, <3>2
  <2>5. Solves(h, k + 1)
    BY <2>4 DEF Typed
  <2> HIDE DEF Solves
  <2> QED
    BY <2>5
<1> DEFINE M == Cardinality(Txns) * (Cardinality(Txns) + 1) + Cardinality(Txns) + 1
<1>4. M \in Nat
  <2>1. Cardinality(Txns) \in Nat
    BY TxnsAssumption, FS_CardinalityType
  <2>2. \A i \in Nat : i * (i + 1) + i + 1 \in Nat
    OBVIOUS
  <2> QED
    BY <2>1, <2>2
<1>5. \A rest, A \in SUBSET Txns : Rank(rest, A) < M
  BY RankFacts
<1> HIDE DEF M
<1>6. PICK f : Solves(f, M)
  <2> HIDE DEF K, Solves
  <2>1. M \in K
    BY <1>2, <1>3, <1>4, NatSetInduction
  <2> QED
    BY <2>1 DEF K
<1> DEFINE h == Next1(f)
<1>7. Agree(f, h, M) /\ Typed(f, M)
  BY <1>1, <1>6 DEF Agree
<1>8. \A t \in Txns, rest, A, S \in SUBSET Txns :
        Turn(f, g, t, rest, A, S) = Turn(h, g, t, rest, A, S)
  <2> HIDE DEF h
  <2> SUFFICES ASSUME NEW t \in Txns, NEW rest \in SUBSET Txns, NEW A \in SUBSET Txns,
                      NEW S \in SUBSET Txns
               PROVE  Turn(f, g, t, rest, A, S) = Turn(h, g, t, rest, A, S)
    OBVIOUS
  <2>1. Rank(rest, A) <= M
    BY <1>4, <1>5, RankNat
  <2> QED
    BY <1>4, <1>7, <2>1, TurnFacts
<1>9. Visits(h, g)
  <2>1. \A call \in Calls : Turn(f, g, call[1], call[2], call[3], call[4])
                            = Turn(h, g, call[1], call[2], call[3], call[4])
    <3> HIDE DEF h
    <3> QED
      BY <1>8 DEF Calls
  <2>2. h = [call \in Calls |-> Turn(f, g, call[1], call[2], call[3], call[4])]
    BY DEF Next1
  <2> HIDE DEF h
  <2> QED
    BY <2>1, <2>2 DEF Visits
<1> DEFINE v == VisitOf(g)
<1>10. Visits(v, g)
  <2> HIDE DEF h
  <2> QED
    BY <1>9 DEF VisitOf
<1> HIDE DEF v, h
<1>11. \A t \in Txns, rest, A, S \in SUBSET Txns :
         v[<<t, rest, A, S>>] = Turn(v, g, t, rest, A, S)
  <2>1. \A call \in Calls : v[call] = Turn(v, g, call[1], call[2], call[3], call[4])
    BY <1>10, Zenon DEF Visits
  <2> QED
    BY <2>1 DEF Calls
<1>12. ASSUME NEW k \in Nat, Typed(v, k) PROVE Typed(v, k + 1)
  <2> SUFFICES ASSUME NEW t \in Txns, NEW rest \in SUBSET Txns, NEW A \in SUBSET Txns,
                      NEW S \in SUBSET Txns, Rank(rest, A) < k + 1
               PROVE  Fits(v[<<t, rest, A, S>>], t, A)
    BY DEF Typed
  <2>1. Rank(rest, A) <= k
    BY RankNat
  <2>2. Agree(v, v, k)
    BY DEF Agree
  <2>3. Fits(Turn(v, g, t, rest, A, S), t, A)
    BY <1>12, <2>1, <2>2, TurnFacts
  <2> QED
    BY <1>11, <2>3
<1>13. Typed(v, M)
  <2> DEFINE L == {k \in Nat : Typed(v, k)}
  <2>1. Typed(v, 0)
    <3>1. \A rest, A \in SUBSET Txns : ~(Rank(rest, A) < 0)
      BY RankFacts
    <3> QED
      BY <3>1 DEF Typed
  <2>2. 0 \in L /\ \A k \in Nat : k \in L => k + 1 \in L
    BY <1>12, <2>1
  <2> HIDE DEF L
  <2>3. M \in L
    BY <1>4, <2>2, NatSetInduction
  <2> QED
    BY <2>3 DEF L
<1>14. \A t \in Txns, rest, A, S \in SUBSET Txns :
         /\ v[<<t, rest, A, S>>] = Turn(v, g, t, rest, A, S)
         /\ Fits(v[<<t, rest, A, S>>], t, A)
  BY <1>5, <1>11, <1>13 DEF Typed
<1> QED
  BY <1>14 DEF v

-----------------------------------------------------------------------------
(* What the search finds.                                                  *)

\* Where the loop of dfs(t) can be with rest left: every active transaction but t waits
\* for an active one, and neither safe transactions nor the children behind it are
\* doomed.
Ready(g, t, rest, active, safe) ==
  /\ t \in active
  /\ \A a \in active \ {t} : Children(g, a) \cap active # {}
  /\ safe \cap Doomed(g) = {}
  /\ rest \subseteq Children(g, t)
  /\ (Children(g, t) \ rest) \cap Doomed(g) = {}

\* What it returns there: a cycle is found when one of the rest is doomed, and then the
\* path of the closed form is active.
Found(g, rest, active, r) ==
  /\ r.found \in BOOLEAN /\ (r.found <=> rest \cap Doomed(g) # {})
  /\ r.safe \in SUBSET Txns /\ r.safe \cap Doomed(g) = {}
  /\ r.found => r.active = PathOf(g)[<<Min(rest \cap Doomed(g)), active>>]

\* The first of the rest is doomed: it is the one that the closed form goes to.
LEMMA FirstDoomed ==
  ASSUME NEW g, NEW rest \in SUBSET Txns, rest # {}, Min(rest) \in Doomed(g)
  PROVE  Min(rest \cap Doomed(g)) = Min(rest)
<1>1. Min(rest) \in rest /\ \A n \in rest : Min(rest) <= n
  BY MinFacts, TxnsAssumption
<1>2. rest \cap Doomed(g) \subseteq Nat
  BY TxnsAssumption
<1>3. PICK m \in rest \cap Doomed(g) : m = Min(rest)
  BY <1>1
<1>4. \A n \in rest \cap Doomed(g) : m <= n
  BY <1>1, <1>3
<1> QED
  BY <1>2, <1>3, <1>4, MinIs

\* One turn of the loop, the calls in it being right.
LEMMA TurnFound ==
  ASSUME NEW g, NEW f, NEW t \in Txns, NEW rest \in SUBSET Txns, NEW A \in SUBSET Txns,
         NEW S \in SUBSET Txns, Ready(g, t, rest, A, S),
         \A u \in Txns, R, B, Q \in SUBSET Txns : Fits(f[<<u, R, B, Q>>], u, B),
         \A u \in Txns, R, B, Q \in SUBSET Txns :
           Rank(R, B) < Rank(rest, A) /\ Ready(g, u, R, B, Q) =>
             Found(g, R, B, f[<<u, R, B, Q>>])
  PROVE  Found(g, rest, A, Turn(f, g, t, rest, A, S))
<1> DEFINE n == Min(rest)
           D == Doomed(g)
           r == f[<<n, Children(g, n), A \cup {n}, S>>]
           result == Turn(f, g, t, rest, A, S)
<1> SUFFICES Found(g, rest, A, result)
  OBVIOUS
<1>1. D \subseteq Txns /\ \A u \in Txns : u \in D <=> Children(g, u) \cap D # {}
  BY DoomedFacts
<1>2. CASE rest = {}
  <2>1. result = [found |-> FALSE, active |-> A \ {t}, safe |-> S \cup {t}]
    BY <1>2 DEF Turn
  <2>2. t \notin D
    BY <1>1, <1>2 DEF Ready
  <2> HIDE DEF result
  <2> QED
    BY <1>2, <2>1, <2>2 DEF Ready, Found
<1>3. CASE rest # {}
  <2>1. n \in rest /\ n \in Txns /\ n \in Children(g, t)
    BY <1>3, MinFacts, TxnsAssumption DEF Ready
  <2>2. n \in D => Min(rest \cap D) = n /\ rest \cap D # {}
    BY <1>3, <2>1, FirstDoomed
  <2>3. Children(g, n) \in SUBSET Txns
    BY DEF Children
  <2>4. ASSUME n \notin D, NEW Q \in SUBSET Txns, Q \cap D = {}
        PROVE  /\ Found(g, rest, A, f[<<t, rest \ {n}, A, Q>>])
    <3>1. Ready(g, t, rest \ {n}, A, Q)
      BY <2>4 DEF Ready
    <3>2. Rank(rest \ {n}, A) < Rank(rest, A)
      BY <2>1, RankFacts
    <3>3. Found(g, rest \ {n}, A, f[<<t, rest \ {n}, A, Q>>])
      BY <3>1, <3>2
    <3>4. (rest \ {n}) \cap D = rest \cap D
      BY <2>4
    <3> QED
      BY <3>3, <3>4 DEF Found
  <2> HIDE DEF n
  <2>5. CASE n \in A
    <3>1. result = [found |-> TRUE, active |-> A, safe |-> S]
      BY <1>3, <2>5 DEF Turn, n
    <3>2. A \subseteq D
      <4>1. \A a \in A : Children(g, a) \cap A # {}
        BY <2>1, <2>5 DEF Ready
      <4> QED
        BY <4>1, DoomedFacts
    <3>3. PathOf(g)[<<n, A>>] = A
      BY <2>5, <3>2, PathStop
    <3> HIDE DEF result
    <3> QED
      BY <2>2, <2>5, <3>1, <3>2, <3>3 DEF Found, Ready
  <2>6. CASE n \notin A /\ n \in S
    <3>1. result = f[<<t, rest \ {n}, A, S>>]
      BY <1>3, <2>6 DEF Turn, n
    <3>2. n \notin D /\ S \cap D = {}
      BY <2>6 DEF Ready
    <3> QED
      BY <2>4, <3>1, <3>2
  <2>7. CASE n \notin A /\ n \notin S
    <3>1. Ready(g, n, Children(g, n), A \cup {n}, S)
      <4>1. \A a \in A : Children(g, a) \cap (A \cup {n}) # {}
        BY <2>1 DEF Ready
      <4> QED
        BY <2>7, <4>1 DEF Ready
    <3>2. Rank(Children(g, n), A \cup {n}) < Rank(rest, A)
      BY <2>1, <2>3, <2>7, RankFacts
    <3>3. Found(g, Children(g, n), A \cup {n}, r) /\ Fits(r, n, A \cup {n})
      BY <2>1, <2>3, <3>1, <3>2
    <3> HIDE DEF r
    <3>4. r.found <=> n \in D
      BY <1>1, <2>1, <3>3 DEF Found
    <3>5. CASE r.found
      <4>1. result = r
        BY <1>3, <2>7, <3>5 DEF Turn, n, r
      <4>2. PathOf(g)[<<n, A>>] = PathOf(g)[<<Min(Children(g, n) \cap D), A \cup {n}>>]
        BY <2>7, <3>4, <3>5, PathStep
      <4> HIDE DEF result
      <4> QED
        BY <2>2, <3>3, <3>4, <3>5, <4>1, <4>2 DEF Found
    <3>6. CASE ~r.found
      <4>1. r.active = A
        BY <2>7, <3>3, <3>6 DEF Fits
      <4>2. result = f[<<t, rest \ {n}, A, r.safe>>]
        BY <1>3, <2>7, <3>6, <4>1 DEF Turn, n, r
      <4>3. r.safe \in SUBSET Txns /\ r.safe \cap D = {}
        BY <3>3 DEF Found
      <4> QED
        BY <2>4, <3>4, <3>6, <4>2, <4>3
    <3> QED
      BY <3>3, <3>5, <3>6 DEF Fits, Results
  <2> QED
    BY <2>5, <2>6, <2>7
<1> QED
  BY <1>2, <1>3

\* Every turn of the loop.
LEMMA VisitFound ==
  ASSUME NEW g, NEW t \in Txns, NEW rest \in SUBSET Txns, NEW A \in SUBSET Txns,
         NEW S \in SUBSET Txns, Ready(g, t, rest, A, S)
  PROVE  Found(g, rest, A, VisitOf(g)[<<t, rest, A, S>>])
<1> DEFINE v == VisitOf(g)
           Wrong(k) == \E u \in Txns, R, B, Q \in SUBSET Txns :
                         /\ Rank(R, B) = k /\ Ready(g, u, R, B, Q)
                         /\ ~Found(g, R, B, v[<<u, R, B, Q>>])
           K == {k \in Nat : Wrong(k)}
<1>1. \A u \in Txns, R, B, Q \in SUBSET Txns :
        /\ v[<<u, R, B, Q>>] = Turn(v, g, u, R, B, Q)
        /\ Fits(v[<<u, R, B, Q>>], u, B)
  BY VisitFacts
<1> HIDE DEF v
<1>2. ASSUME K # {} PROVE FALSE
  <2>1. PICK k \in K : \A j \in K : k <= j
    <3>1. K \subseteq Nat
      OBVIOUS
    <3> HIDE DEF K
    <3> QED
      BY <1>2, <3>1, LeastNatural
  <2>2. PICK u \in Txns, R \in SUBSET Txns, B \in SUBSET Txns, Q \in SUBSET Txns :
          /\ Rank(R, B) = k /\ Ready(g, u, R, B, Q)
          /\ ~Found(g, R, B, v[<<u, R, B, Q>>])
    BY <2>1
  <2>3. ASSUME NEW w \in Txns, NEW T \in SUBSET Txns, NEW C \in SUBSET Txns,
               NEW P \in SUBSET Txns, Rank(T, C) < Rank(R, B), Ready(g, w, T, C, P)
        PROVE  Found(g, T, C, v[<<w, T, C, P>>])
    <3>1. Rank(T, C) \in Nat /\ k \in Nat
      BY RankNat
    <3>2. ~(k <= Rank(T, C))
      BY <2>2, <2>3, <3>1
    <3> HIDE DEF Wrong
    <3>3. ~Wrong(Rank(T, C))
      BY <2>1, <3>1, <3>2
    <3> QED
      BY <2>3, <3>3 DEF Wrong
  <2>4. Found(g, R, B, Turn(v, g, u, R, B, Q))
    <3> HIDE DEF K
    <3> QED
      BY <1>1, <2>2, <2>3, TurnFound
  <2> QED
    BY <1>1, <2>2, <2>4
<1>3. Rank(rest, A) \in Nat
  BY RankNat
<1>4. Found(g, rest, A, v[<<t, rest, A, S>>])
  BY <1>2, <1>3
<1> QED
  BY <1>4 DEF v

\* A search from one transaction.
LEMMA DfsFacts ==
  ASSUME NEW g, NEW start \in Txns, NEW S \in SUBSET Txns, S \cap Doomed(g) = {}
  PROVE  /\ Dfs(g, start, S).found \in BOOLEAN
         /\ Dfs(g, start, S).found <=> start \in Doomed(g)
         /\ Dfs(g, start, S).safe \in SUBSET Txns /\ Dfs(g, start, S).safe \cap Doomed(g) = {}
         /\ Dfs(g, start, S).found => Dfs(g, start, S).active = DfsPath(g, start)
<1> DEFINE r == VisitOf(g)[<<start, Children(g, start), {start}, S>>]
<1>1. Dfs(g, start, S) = IF start \in S THEN [found |-> FALSE, active |-> {}, safe |-> S] ELSE r
  BY DEF Dfs, VisitOf, Visits, Turn, Calls
<1>2. CASE start \in S
  <2>1. Dfs(g, start, S) = [found |-> FALSE, active |-> {}, safe |-> S]
    BY <1>1, <1>2
  <2>2. start \notin Doomed(g)
    BY <1>2
  <2> QED
    BY <2>1, <2>2
<1>3. CASE start \notin S
  <2>1. Children(g, start) \in SUBSET Txns /\ {start} \in SUBSET Txns
    BY DEF Children
  <2>2. Ready(g, start, Children(g, start), {start}, S)
    BY DEF Ready
  <2>3. Found(g, Children(g, start), {start}, r)
    BY <2>1, <2>2, VisitFound
  <2>4. start \in Doomed(g) <=> Children(g, start) \cap Doomed(g) # {}
    BY DoomedFacts
  <2>5. start \in Doomed(g) => DfsPath(g, start) =
          PathOf(g)[<<Min(Children(g, start) \cap Doomed(g)), {start}>>]
    BY PathStart
  <2>7. Dfs(g, start, S) = r
    BY <1>1, <1>3
  <2> HIDE DEF r
  <2> QED
    BY <2>3, <2>4, <2>5, <2>7 DEF Found
<1> QED
  BY <1>2, <1>3

\* A search puts transactions into safe_set_, whatever was in it.
LEMMA DfsSafe ==
  ASSUME NEW g, NEW start \in Txns, NEW S \in SUBSET Txns
  PROVE  Dfs(g, start, S).safe \in SUBSET Txns
<1> DEFINE r == VisitOf(g)[<<start, Children(g, start), {start}, S>>]
<1>1. Dfs(g, start, S) = IF start \in S THEN [found |-> FALSE, active |-> {}, safe |-> S] ELSE r
  BY DEF Dfs, VisitOf, Visits, Turn, Calls
<1>2. Children(g, start) \in SUBSET Txns /\ {start} \in SUBSET Txns
  BY DEF Children
<1>3. Fits(r, start, {start})
  BY <1>2, VisitFacts
<1> HIDE DEF r
<1>4. r.safe \in SUBSET Txns
  BY <1>3 DEF Fits, Results
<1> QED
  BY <1>1, <1>4

\* from is the recursive function of Search.
Searches(from, g) ==
  from = [call \in (SUBSET Txns) \X (SUBSET Txns) |->
            LET starts == call[1]
                r == Dfs(g, Min(starts), call[2])
            IN IF starts = {}
                 THEN [found |-> FALSE, starts |-> {}, safe |-> call[2], active |-> {}]
               ELSE IF r.found
                 THEN [found |-> TRUE, starts |-> starts, safe |-> r.safe, active |-> r.active]
               ELSE from[<<starts \ {Min(starts)}, r.safe>>]]

\* What HasCycle returns for a graph and the transactions it searches from.
SearchFound(g, T, r) ==
  /\ r.found \in BOOLEAN
  /\ r.found <=> Doomed(g) \cap T # {}
  /\ r.starts \in SUBSET Txns /\ Doomed(g) \cap T \subseteq r.starts
  /\ r.safe \in SUBSET Txns /\ r.safe \cap Doomed(g) = {}
  /\ r.found => r.active = DfsPath(g, Min(Doomed(g) \cap T))

\* A search from several transactions finds a cycle when one of them is doomed, keeps
\* the doomed ones in txn_set_ and out of safe_set_, and ends with the path of the closed
\* form.
LEMMA SearchFacts ==
  ASSUME NEW g, NEW T \in SUBSET Txns, NEW S \in SUBSET Txns, S \cap Doomed(g) = {},
         NEW r, r = Search(g, T, S)
  PROVE  SearchFound(g, T, r)
<1> DEFINE dfs(x) == Dfs(g, Min(x[1]), x[2])
           D == (SUBSET Txns) \X (SUBSET Txns)
           stop == {x \in D : x[1] = {} \/ dfs(x).found}
           out == [x \in D |->
                     IF x[1] = {}
                       THEN [found |-> FALSE, starts |-> {}, safe |-> x[2], active |-> {}]
                       ELSE [found |-> TRUE, starts |-> x[1], safe |-> dfs(x).safe,
                             active |-> dfs(x).active]]
           step == [x \in D |-> <<x[1] \ {Min(x[1])}, dfs(x).safe>>]
           C == {x \in D : /\ x[2] \cap Doomed(g) = {}
                           /\ x[1] \subseteq T /\ Doomed(g) \cap T \subseteq x[1]}
           rank == [x \in D |-> Cardinality(x[1])]
           from == CHOOSE f : Searches(f, g)
<1>1. ASSUME NEW x \in D, x[1] # {}
      PROVE  Min(x[1]) \in x[1] /\ Min(x[1]) \in Txns /\ \A n \in x[1] : Min(x[1]) <= n
  BY <1>1, MinFacts, TxnsAssumption
<1>2. ASSUME NEW x \in D, x[1] # {} PROVE dfs(x).safe \in SUBSET Txns
  <2>1. x[2] \in SUBSET Txns
    OBVIOUS
  <2> QED
    BY <1>1, <1>2, <2>1, DfsSafe
<1>3. ASSUME NEW x \in C, x[1] # {}
      PROVE  /\ dfs(x).found \in BOOLEAN
             /\ dfs(x).found <=> Min(x[1]) \in Doomed(g)
             /\ dfs(x).safe \in SUBSET Txns /\ dfs(x).safe \cap Doomed(g) = {}
             /\ dfs(x).found => dfs(x).active = DfsPath(g, Min(x[1]))
  <2>1. x[2] \in SUBSET Txns /\ x[2] \cap Doomed(g) = {} /\ x \in D
    OBVIOUS
  <2>2. Min(x[1]) \in Txns
    BY <1>1, <1>3
  <2> QED
    BY <2>1, <2>2, DfsFacts
<1> HIDE DEF dfs
<1>4. \A f : Searches(f, g) <=> TailRecursive(f, D, stop, out, step)
  <2> SUFFICES ASSUME NEW f PROVE Searches(f, g) <=> TailRecursive(f, D, stop, out, step)
    OBVIOUS
  <2>1. [x \in D |-> IF x[1] = {}
                       THEN [found |-> FALSE, starts |-> {}, safe |-> x[2], active |-> {}]
                     ELSE IF dfs(x).found
                       THEN [found |-> TRUE, starts |-> x[1], safe |-> dfs(x).safe,
                             active |-> dfs(x).active]
                     ELSE f[<<x[1] \ {Min(x[1])}, dfs(x).safe>>]]
        = [x \in D |-> IF x \in stop THEN out[x] ELSE f[step[x]]]
    OBVIOUS
  <2> QED
    BY <2>1, Zenon DEF Searches, TailRecursive, dfs
<1>5. ASSUME NEW x \in D \ stop PROVE step[x] \in D
  BY <1>2
<1>6. TailRecursive(from, D, stop, out, step)
  <2> HIDE DEF D, stop, out, step
  <2>1. \E f : TailRecursive(f, D, stop, out, step)
    BY <1>5, TailRecursionExists
  <2> QED
    BY <1>4, <2>1
<1>7. ASSUME NEW x \in C \ stop PROVE step[x] \in C /\ rank[step[x]] < rank[x]
  <2> DEFINE m == Min(x[1])
  <2>1. x \in D /\ x[1] # {} /\ ~dfs(x).found /\ x[1] \subseteq Txns
    OBVIOUS
  <2>2. m \in x[1] /\ m \notin Doomed(g)
    BY <1>1, <1>3, <2>1
  <2>3. step[x] = <<x[1] \ {m}, dfs(x).safe>> /\ step[x] \in D
    BY <1>5
  <2>4. dfs(x).safe \cap Doomed(g) = {}
    BY <1>3, <2>1
  <2> HIDE DEF m
  <2>5. step[x] \in C
    BY <2>2, <2>3, <2>4
  <2>6. Cardinality(x[1] \ {m}) = Cardinality(x[1]) - 1 /\ Cardinality(x[1]) \in Nat
    <3> DEFINE X == x[1]
    <3>1. IsFiniteSet(X) /\ m \in X
      BY <2>1, <2>2, TxnsAssumption, FS_Subset
    <3> HIDE DEF X
    <3>2. Cardinality(X \ {m}) = Cardinality(X) - 1 /\ Cardinality(X) \in Nat
      BY <3>1, FS_RemoveElement, FS_CardinalityType
    <3> QED
      BY <3>2 DEF X
  <2>7. rank[step[x]] = Cardinality(x[1] \ {m}) /\ rank[x] = Cardinality(x[1])
    BY <2>1, <2>3
  <2> QED
    BY <2>5, <2>6, <2>7
<1>8. ASSUME NEW x \in C PROVE rank[x] \in Nat
  <2>1. x[1] \subseteq Txns /\ rank[x] = Cardinality(x[1])
    OBVIOUS
  <2>2. IsFiniteSet(x[1])
    BY <2>1, TxnsAssumption, FS_Subset
  <2> QED
    BY <2>1, <2>2, FS_CardinalityType
<1>9. PICK y \in C \cap stop : from[<<T, S>>] = out[y]
  <2>1. C \subseteq D /\ <<T, S>> \in C
    OBVIOUS
  <2> HIDE DEF D, stop, out, step, rank, from, C
  <2>2. \A x \in C : \E y \in C \cap stop : from[x] = out[y]
    BY <1>6, <1>7, <1>8, <2>1, TailRecursionEnds
  <2> QED
    BY <2>1, <2>2
<1>10. r = out[y]
  <2>1. Search(g, T, S) = from[<<T, S>>]
    BY DEF Search, Searches
  <2> QED
    BY <1>9, <2>1
<1>11. Doomed(g) \subseteq Txns
  BY DoomedFacts
<1>12. CASE y[1] = {}
  <2>1. r = [found |-> FALSE, starts |-> {}, safe |-> y[2], active |-> {}]
    BY <1>10, <1>12
  <2>2. Doomed(g) \cap T = {} /\ y[2] \in SUBSET Txns /\ y[2] \cap Doomed(g) = {}
    BY <1>12
  <2> QED
    BY <2>1, <2>2 DEF SearchFound
<1>13. CASE y[1] # {}
  <2>1. r = [found |-> TRUE, starts |-> y[1], safe |-> dfs(y).safe, active |-> dfs(y).active]
    BY <1>10, <1>13
  <2>2. /\ Min(y[1]) \in Doomed(g)
        /\ dfs(y).safe \in SUBSET Txns /\ dfs(y).safe \cap Doomed(g) = {}
        /\ dfs(y).active = DfsPath(g, Min(y[1]))
    BY <1>3, <1>13
  <2>3. y[1] \in SUBSET Txns /\ y[1] \subseteq T /\ Doomed(g) \cap T \subseteq y[1]
    OBVIOUS
  <2>4. Min(Doomed(g) \cap T) = Min(y[1])
    <3>1. PICK m \in Doomed(g) \cap T : m = Min(y[1])
      BY <1>1, <1>13, <2>2, <2>3
    <3>2. \A n \in Doomed(g) \cap T : m <= n
      BY <1>1, <1>13, <2>3, <3>1
    <3>3. Doomed(g) \cap T \subseteq Nat
      BY TxnsAssumption
    <3> QED
      BY <3>1, <3>2, <3>3, MinIs
  <2>5. Doomed(g) \cap T # {}
    BY <1>1, <1>13, <2>2, <2>3
  <2> HIDE DEF C, stop
  <2> QED
    BY <2>1, <2>2, <2>3, <2>4, <2>5 DEF SearchFound
<1> QED
  BY <1>12, <1>13

-----------------------------------------------------------------------------
(* Cycles.                                                                 *)

\* The descendants of a transaction are in every set that holds its children and, with
\* a transaction, the children of it; they are such a set.
LEMMA DescendantsIn ==
  ASSUME NEW g, NEW t \in Txns, NEW X \in SUBSET Txns, Children(g, t) \subseteq X,
         \A u \in X : Children(g, u) \subseteq X
  PROVE  /\ Children(g, t) \subseteq Descendants(g, t) /\ Descendants(g, t) \subseteq X
         /\ \A u \in Descendants(g, t) : Children(g, u) \subseteq Descendants(g, t)
<1> DEFINE n(s) == s \cup UNION {Children(g, u) : u \in s}
           D == SUBSET Txns
           stop == {s \in D : n(s) = s}
           out == [s \in D |-> s]
           step == [s \in D |-> n(s)]
           Reaches(f) == f = [s \in D |-> IF n(s) = s THEN s ELSE f[n(s)]]
           reach == CHOOSE f : Reaches(f)
           C == {s \in D : Children(g, t) \subseteq s /\ s \subseteq X}
           rank == [s \in D |-> Cardinality(Txns \ s)]
<1>1. ASSUME NEW s \in D PROVE n(s) \in D /\ s \subseteq n(s)
  BY DEF Children
<1>2. ASSUME NEW s \in C PROVE n(s) \in C
  <2>1. n(s) \in D /\ s \subseteq n(s) /\ Children(g, t) \subseteq s
    BY <1>1
  <2>2. n(s) \subseteq X
    OBVIOUS
  <2> HIDE DEF n
  <2> QED
    BY <2>1, <2>2
<1>3. ASSUME NEW s \in D PROVE n(s) = s => \A u \in s : Children(g, u) \subseteq s
  OBVIOUS
<1> HIDE DEF n
<1>4. \A f : Reaches(f) <=> TailRecursive(f, D, stop, out, step)
  <2> SUFFICES ASSUME NEW f PROVE Reaches(f) <=> TailRecursive(f, D, stop, out, step)
    OBVIOUS
  <2>1. [s \in D |-> IF n(s) = s THEN s ELSE f[n(s)]]
        = [s \in D |-> IF s \in stop THEN out[s] ELSE f[step[s]]]
    OBVIOUS
  <2> QED
    BY <2>1, Zenon DEF TailRecursive
<1>5. ASSUME NEW s \in D \ stop PROVE step[s] \in D
  BY <1>1
<1>6. TailRecursive(reach, D, stop, out, step)
  <2> HIDE DEF D, stop, out, step, Reaches
  <2>1. \E f : TailRecursive(f, D, stop, out, step)
    BY <1>5, TailRecursionExists
  <2> QED
    BY <1>4, <2>1
<1>7. ASSUME NEW s \in D PROVE rank[s] \in Nat
  <2>1. IsFiniteSet(Txns \ s)
    BY TxnsAssumption, FS_Subset
  <2> QED
    BY <2>1, FS_CardinalityType
<1>8. ASSUME NEW s \in C \ stop PROVE step[s] \in C /\ rank[step[s]] < rank[s]
  <2>1. s \in D /\ n(s) # s /\ step[s] = n(s) /\ n(s) \in D /\ s \subseteq n(s) /\ n(s) \in C
    BY <1>1, <1>2
  <2> HIDE DEF C
  <2>2. Txns \ n(s) \subseteq Txns \ s /\ Txns \ n(s) # Txns \ s
    BY <2>1
  <2>3. IsFiniteSet(Txns \ s)
    BY TxnsAssumption, FS_Subset
  <2>4. Cardinality(Txns \ n(s)) <= Cardinality(Txns \ s)
        /\ Cardinality(Txns \ n(s)) # Cardinality(Txns \ s)
    BY <2>2, <2>3, FS_Subset
  <2>5. rank[s] = Cardinality(Txns \ s) /\ rank[n(s)] = Cardinality(Txns \ n(s))
    BY <2>1
  <2>6. rank[s] \in Nat /\ rank[n(s)] \in Nat
    BY <1>7, <2>1
  <2> HIDE DEF rank
  <2> QED
    BY <2>1, <2>4, <2>5, <2>6
<1>9. PICK y \in C \cap stop : reach[Children(g, t)] = out[y]
  <2>1. C \subseteq D /\ Children(g, t) \in C
    OBVIOUS
  <2> HIDE DEF D, stop, out, step, rank, reach, C
  <2>2. \A x \in C : \E y \in C \cap stop : reach[x] = out[y]
    BY <1>6, <1>7, <1>8, <2>1, TailRecursionEnds
  <2> QED
    BY <2>1, <2>2
<1>10. Descendants(g, t) = reach[Children(g, t)]
  BY DEF Descendants, n
<1>11. Descendants(g, t) = y /\ n(y) = y /\ y \in D /\ Children(g, t) \subseteq y /\ y \subseteq X
  BY <1>9, <1>10
<1> HIDE DEF C, stop, reach, out
<1> QED
  BY <1>3, <1>11

\* They are transactions.
LEMMA DescendantsFacts ==
  ASSUME NEW g, NEW t \in Txns
  PROVE  /\ Descendants(g, t) \in SUBSET Txns /\ Children(g, t) \subseteq Descendants(g, t)
         /\ \A u \in Descendants(g, t) : Children(g, u) \subseteq Descendants(g, t)
<1>1. \A u \in Txns : Children(g, u) \subseteq Txns
  BY DEF Children
<1>2. Txns \in SUBSET Txns /\ Children(g, t) \subseteq Txns
  BY <1>1
<1> QED
  BY <1>1, <1>2, DescendantsIn

\* A transaction on a cycle is one from which a cycle can be reached.
LEMMA OnCycleIsDoomed ==
  ASSUME NEW g, NEW t \in OnCycle(g)
  PROVE  t \in Doomed(g)
<1> DEFINE S == {u \in Txns : t \in Descendants(g, u)}
<1>1. t \in S /\ t \in Txns
  BY DEF OnCycle
<1>2. ASSUME NEW u \in S PROVE Children(g, u) \cap S # {}
  <2> SUFFICES ASSUME Children(g, u) \cap S = {} PROVE FALSE
    OBVIOUS
  <2> DEFINE X == Children(g, u) \cup UNION {Descendants(g, c) : c \in Children(g, u)}
  <2>1. Children(g, u) \subseteq Txns /\ u \in Txns /\ t \in Descendants(g, u)
    BY DEF Children
  <2>2. \A c \in Children(g, u) : t # c /\ t \notin Descendants(g, c)
    BY <1>1, <2>1
  <2>3. X \in SUBSET Txns
    <3>1. \A c \in Children(g, u) : Descendants(g, c) \subseteq Txns
      BY <2>1, DescendantsFacts
    <3> QED
      BY <2>1, <3>1
  <2>4. ASSUME NEW w \in X PROVE Children(g, w) \subseteq X
    <3>1. CASE w \in Children(g, u)
      <4>1. Children(g, w) \subseteq Descendants(g, w)
        BY <2>1, <3>1, DescendantsFacts
      <4> QED
        BY <3>1, <4>1
    <3>2. CASE w \notin Children(g, u)
      <4>1. PICK c \in Children(g, u) : w \in Descendants(g, c)
        BY <3>2
      <4>2. Children(g, w) \subseteq Descendants(g, c)
        BY <2>1, <4>1, DescendantsFacts
      <4> QED
        BY <4>1, <4>2
    <3> QED
      BY <3>1, <3>2
  <2>5. Children(g, u) \subseteq X /\ t \notin X
    BY <2>2
  <2> HIDE DEF X
  <2>6. Descendants(g, u) \subseteq X
    BY <2>1, <2>3, <2>4, <2>5, DescendantsIn
  <2> QED
    BY <2>1, <2>5, <2>6
<1>3. S \subseteq Doomed(g)
  BY <1>2, DoomedFacts
<1> QED
  BY <1>1, <1>3

\* Where a cycle can be reached, there is one.
LEMMA DoomedHasCycle ==
  ASSUME NEW g, Doomed(g) # {}
  PROVE  OnCycle(g) # {}
<1> DEFINE size(u) == Cardinality(Descendants(g, u))
           sizes == {size(u) : u \in Doomed(g)}
<1>1. Doomed(g) \subseteq Txns
  BY DoomedFacts
<1>2. ASSUME NEW u \in Txns PROVE IsFiniteSet(Descendants(g, u)) /\ size(u) \in Nat
  <2>1. Descendants(g, u) \subseteq Txns
    BY DescendantsFacts
  <2>2. IsFiniteSet(Descendants(g, u))
    BY <2>1, TxnsAssumption, FS_Subset
  <2> QED
    BY <2>2, FS_CardinalityType
<1>3. PICK t \in Doomed(g) : \A u \in Doomed(g) : size(t) =< size(u)
  <2>1. sizes \subseteq Nat /\ sizes # {}
    BY <1>1, <1>2
  <2>2. PICK m \in sizes : \A n \in sizes : m =< n
    <3> HIDE DEF sizes
    <3> QED
      BY <2>1, LeastNatural
  <2>3. PICK t \in Doomed(g) : m = size(t)
    OBVIOUS
  <2>4. \A u \in Doomed(g) : size(u) \in sizes
    OBVIOUS
  <2> HIDE DEF size, sizes
  <2> QED
    BY <2>2, <2>3, <2>4
<1>4. PICK c \in Children(g, t) \cap Doomed(g) : TRUE
  BY <1>1, DoomedFacts
<1>5. t \in Txns /\ c \in Txns
  BY <1>1
<1>6. Children(g, c) \subseteq Descendants(g, t) /\ c \in Descendants(g, t)
  BY <1>5, DescendantsFacts
<1>7. Descendants(g, c) \subseteq Descendants(g, t)
  <2> DEFINE X == Descendants(g, t)
  <2>1. X \in SUBSET Txns /\ \A u \in X : Children(g, u) \subseteq X
    BY <1>5, DescendantsFacts
  <2>2. Children(g, c) \subseteq X
    BY <1>6
  <2> HIDE DEF X
  <2>3. Descendants(g, c) \subseteq X
    BY <1>5, <2>1, <2>2, DescendantsIn
  <2> QED
    BY <2>3 DEF X
<1>8. Descendants(g, c) = Descendants(g, t)
  <2>1. size(c) <= size(t)
    BY <1>2, <1>5, <1>7, FS_Subset
  <2>2. size(t) =< size(c) /\ size(c) \in Nat /\ size(t) \in Nat
    BY <1>2, <1>3, <1>5
  <2>3. size(c) = size(t)
    <3> HIDE DEF size
    <3> QED
      BY <2>1, <2>2
  <2> QED
    BY <1>2, <1>5, <1>7, <2>3, FS_Subset
<1> QED
  BY <1>5, <1>6, <1>8 DEF OnCycle
-----------------------------------------------------------------------------
(* The invariant of a pass.                                                *)

WaitGraphs == [Txns \X Txns -> Nat]

\* Fewer edges doom fewer transactions.
LEMMA FewerDoomed ==
  ASSUME NEW g, NEW h, \A t \in Txns : Children(h, t) \subseteq Children(g, t)
  PROVE  Doomed(h) \subseteq Doomed(g)
<1>1. Doomed(h) \in SUBSET Txns
  BY DoomedFacts
<1>2. \A t \in Doomed(h) : Children(h, t) \cap Doomed(h) # {}
  BY <1>1, DoomedFacts
<1>3. \A t \in Doomed(h) : Children(g, t) \cap Doomed(h) # {}
  BY <1>1, <1>2
<1> QED
  BY <1>1, <1>3, DoomedFacts

\* DeleteNode leaves a graph with no more edges.
LEMMA DeletedNode ==
  ASSUME NEW g \in WaitGraphs, NEW v, NEW W
  PROVE  /\ DeleteNode(g, v, W) \in WaitGraphs
         /\ Doomed(DeleteNode(g, v, W)) \subseteq Doomed(g)
<1> DEFINE h == DeleteNode(g, v, W)
           k == EraseNode(g, v)
<1>1. k \in WaitGraphs /\ \A e \in Txns \X Txns : k[e] <= g[e]
  BY DEF EraseNode, WaitGraphs
<1>2. ASSUME NEW t \in Txns, NEW e \in Txns \X Txns
      PROVE  RemoveEdge(k, t, v)[e] \in Nat /\ RemoveEdge(k, t, v)[e] <= k[e]
  <2> HIDE DEF k
  <2>1. <<t, t>> \in Txns \X Txns /\ k[<<t, t>>] \in Nat /\ k[e] \in Nat
    BY <1>1 DEF WaitGraphs
  <2>2. RemoveEdge(k, t, v)[e] = IF e = <<t, t>> THEN (IF k[e] = 0 THEN 0 ELSE k[e] - 1) ELSE k[e]
    BY <1>1 DEF RemoveEdge, WaitGraphs
  <2> QED
    BY <2>1, <2>2
<1>3. h = [e \in Txns \X Txns |-> IF e[1] \in W THEN RemoveEdge(k, e[1], v)[e] ELSE k[e]]
  BY DEF DeleteNode
<1> HIDE DEF h, k
<1>4. ASSUME NEW e \in Txns \X Txns PROVE h[e] \in Nat /\ h[e] <= g[e]
  <2>1. e[1] \in Txns /\ k[e] \in Nat /\ g[e] \in Nat /\ k[e] <= g[e]
    BY <1>1 DEF WaitGraphs
  <2>2. RemoveEdge(k, e[1], v)[e] \in Nat /\ RemoveEdge(k, e[1], v)[e] <= k[e]
    BY <1>2, <2>1
  <2>3. h[e] = RemoveEdge(k, e[1], v)[e] \/ h[e] = k[e]
    BY <1>3
  <2> QED
    BY <2>1, <2>2, <2>3
<1>5. h \in WaitGraphs
  BY <1>3, <1>4 DEF WaitGraphs
<1>6. \A t \in Txns : Children(h, t) \subseteq Children(g, t)
  <2> SUFFICES ASSUME NEW t \in Txns, NEW u \in Txns, h[<<t, u>>] > 0 PROVE g[<<t, u>>] > 0
    BY DEF Children
  <2>1. <<t, u>> \in Txns \X Txns
    OBVIOUS
  <2>2. g[<<t, u>>] \in Nat
    BY <2>1 DEF WaitGraphs
  <2> QED
    BY <1>4, <2>1, <2>2
<1> QED
  BY <1>5, <1>6, FewerDoomed DEF h

\* What earlier rounds leave: safe_set_ holds no transaction from which a cycle can be
\* reached, and txn_set_ still holds all of them.
SearchInv ==
  /\ waits_for \in WaitGraphs
  /\ txn_set \in SUBSET Txns
  /\ safe_set \in SUBSET Txns
  /\ safe_set \cap Doomed(waits_for) = {}
  /\ Doomed(waits_for) \subseteq txn_set

\* A pass starts with it.
LEMMA SearchInvInit == Init => SearchInv
<1> SUFFICES ASSUME Init PROVE SearchInv
  OBVIOUS
<1>1. Doomed(waits_for) \subseteq Txns
  BY DoomedFacts
<1> QED
  BY <1>1, GraphsAssumption DEF Init, SearchInv, WaitGraphs

\* What a search finds then.
LEMMA SearchFinds ==
  ASSUME SearchInv, NEW r, r = Search(waits_for, txn_set, safe_set)
  PROVE  /\ r.found \in BOOLEAN
         /\ r.found <=> Doomed(waits_for) # {}
         /\ r.starts \in SUBSET Txns /\ Doomed(waits_for) \subseteq r.starts
         /\ r.safe \in SUBSET Txns /\ r.safe \cap Doomed(waits_for) = {}
         /\ r.found => r.active = DfsPath(waits_for, Min(Doomed(waits_for)))
<1>1. Doomed(waits_for) \cap txn_set = Doomed(waits_for)
  BY DEF SearchInv
<1>2. SearchFound(waits_for, txn_set, r)
  BY SearchFacts DEF SearchInv
<1> QED
  BY <1>1, <1>2 DEF SearchFound

\* A round that breaks a cycle, and the last one, keep it.
LEMMA SearchInvNext == SearchInv /\ [Next]_vars => SearchInv'
<1> SUFFICES ASSUME SearchInv, [Next]_vars PROVE SearchInv'
  OBVIOUS
<1>1. CASE Break
  <2>1. PICK r \in {Search(waits_for, txn_set, safe_set)} :
          /\ txn_set' = r.starts
          /\ safe_set' = r.safe
          /\ \/ \E v, W : waits_for' = DeleteNode(waits_for, v, W)
             \/ waits_for' = waits_for
    BY <1>1 DEF Break
  <2>2. /\ r.starts \in SUBSET Txns /\ Doomed(waits_for) \subseteq r.starts
        /\ r.safe \in SUBSET Txns /\ r.safe \cap Doomed(waits_for) = {}
    BY SearchFinds
  <2>3. waits_for' \in WaitGraphs /\ Doomed(waits_for') \subseteq Doomed(waits_for)
    <3>1. waits_for \in WaitGraphs
      BY DEF SearchInv
    <3>2. CASE \E v, W : waits_for' = DeleteNode(waits_for, v, W)
      BY <3>1, <3>2, DeletedNode
    <3>3. CASE waits_for' = waits_for
      BY <3>1, <3>3
    <3> QED
      BY <2>1, <3>2, <3>3
  <2>4. Doomed(waits_for') \subseteq r.starts /\ r.safe \cap Doomed(waits_for') = {}
    BY <2>2, <2>3
  <2> QED
    BY <2>1, <2>2, <2>3, <2>4 DEF SearchInv
<1>2. CASE UNCHANGED vars
  BY <1>2 DEF SearchInv, vars
<1>3. CASE Done
  BY <1>2, <1>3 DEF Done
<1> QED
  BY <1>1, <1>2, <1>3 DEF Next

\* What LockManager is modelled with: HasCycle and its victim in closed form.
SearchIsClosedForm ==
  LET r == Search(waits_for, txn_set, safe_set)
  IN /\ r.found = HasCycle(waits_for, Txns)
     /\ r.found => Max(r.active) = CycleVictim(waits_for, Txns)

\* The invariant says that a search finds a cycle exactly when there is one, and
\* returns what the closed form does.
LEMMA SearchInvSays == SearchInv => FindsCycle /\ SearchIsClosedForm
<1> SUFFICES ASSUME SearchInv PROVE FindsCycle /\ SearchIsClosedForm
  OBVIOUS
<1> DEFINE r == Search(waits_for, txn_set, safe_set)
           D == Doomed(waits_for)
<1>1. /\ r.found \in BOOLEAN
      /\ r.found <=> D # {}
      /\ r.found => r.active = DfsPath(waits_for, Min(D))
  BY SearchFinds
<1>2. D \cap Txns = D
  BY DoomedFacts
<1>3. OnCycle(waits_for) # {} <=> D # {}
  BY OnCycleIsDoomed, DoomedHasCycle
<1>4. HasCycle(waits_for, Txns) <=> D # {}
  BY <1>2 DEF HasCycle
<1>5. CycleVictim(waits_for, Txns) = Max(DfsPath(waits_for, Min(D)))
  BY <1>2 DEF CycleVictim
<1>6. r.found = HasCycle(waits_for, Txns)
  <2> HIDE DEF r, D
  <2>1. HasCycle(waits_for, Txns) \in BOOLEAN
    BY DEF HasCycle
  <2> QED
    BY <1>1, <1>4, <2>1
<1>7. r.found = (OnCycle(waits_for) # {})
  BY <1>1, <1>3
<1>8. r.found => Max(r.active) = CycleVictim(waits_for, Txns)
  BY <1>1, <1>5
<1> QED
  BY <1>6, <1>7, <1>8 DEF FindsCycle, SearchIsClosedForm

\* Whatever the graph and the number of transactions, each search of a pass finds a
\* cycle exactly when there is one, though earlier ones have filled safe_set_, emptied
\* txn_set_ and deleted edges.
THEOREM FindsCycleTheorem == Spec => []FindsCycle
<1>1. Spec => []SearchInv
  BY SearchInvInit, SearchInvNext, PTL DEF Spec
<1> QED
  BY <1>1, SearchInvSays, PTL

\* The closed form that LockManager takes for HasCycle is what the search computes.
\* The victim is the newest transaction of the whole path from the start, on the
\* cycle or before it; lock_manager.h:128 promises the newest in the cycle.
THEOREM SearchClosedFormTheorem == Spec => []SearchIsClosedForm
<1>1. Spec => []SearchInv
  BY SearchInvInit, SearchInvNext, PTL DEF Spec
<1> QED
  BY <1>1, SearchInvSays, PTL
=============================================================================
