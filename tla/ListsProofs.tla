---------------------------- MODULE ListsProofs -----------------------------
(***************************************************************************)
(* Lemmas about positions in a list, for the proofs of the other modules.  *)
(* None of the provers applies an induction theorem, which takes an        *)
(* operator as a parameter; what is proved by induction here is proved by  *)
(* taking the smallest counterexample instead.                             *)
(***************************************************************************)
EXTENDS Lists, WellFoundedInduction, TLAPS

(* Every set of natural numbers has a smallest element.                    *)
LEMMA Smallest ==
    ASSUME NEW T, T \subseteq Nat, T # {}
    PROVE  \E n \in T : \A m \in T : n <= m
<1> DEFINE R == OpToRel(<, Nat)
<1>1. IsWellFoundedOn(R, Nat)
  BY NatLessThanWellFounded
<1>2. \A x, y \in Nat : <<y, x>> \in R <=> y < x
  BY DEF OpToRel
<1> HIDE DEF R
<1>3. PICK x \in T : \A y \in T : ~ (<<y, x>> \in R)
  BY <1>1, WFMin
<1>4. \A y \in T : x <= y
  <2> SUFFICES ASSUME NEW y \in T PROVE x <= y
    OBVIOUS
  <2>1. x \in Nat /\ y \in Nat /\ ~ (<<y, x>> \in R)
    BY <1>3
  <2>2. ~ (y < x)
    BY <1>2, <2>1
  <2> QED BY <2>1, <2>2
<1> QED BY <1>4

(* Among finitely many positions compared by a total order R, one is best. *)
LEMMA Best ==
    ASSUME NEW n \in Nat, NEW T, T \subseteq 1..n, T # {}, NEW R,
           \A i, j \in T : <<i, j>> \in R \/ <<j, i>> \in R,
           \A i, j, k \in T : <<i, j>> \in R /\ <<j, k>> \in R => <<i, k>> \in R
    PROVE  \E i \in T : \A j \in T : <<i, j>> \in R
<1> DEFINE First(m) == {i \in T : i <= m}
<1> DEFINE IsBest(i, m) == i \in First(m) /\ \A j \in First(m) : <<i, j>> \in R
<1> DEFINE Bad == {m \in 0..n : First(m) # {} /\ ~ \E i : IsBest(i, m)}
<1>1. Bad = {}
  <2> SUFFICES ASSUME Bad # {} PROVE FALSE
    OBVIOUS
  <2>1. PICK m \in Bad : \A k \in Bad : m <= k
    <3>1. Bad \subseteq Nat
      OBVIOUS
    <3> HIDE DEF Bad
    <3> QED BY <3>1, Smallest
  <2>2. m \in 0..n /\ First(m) # {} /\ ~ \E i : IsBest(i, m)
    OBVIOUS
  <2>3. m \in 1..n /\ m - 1 \in 0..n /\ ~ (m <= m - 1)
    BY <2>2
  <2>4. m - 1 \notin Bad
    <3> HIDE DEF Bad
    <3> QED BY <2>1, <2>3
  <2>5. \A i \in T : i <= m <=> i <= m - 1 \/ i = m
    BY <2>3
  <2>6. CASE First(m - 1) = {}
    <3>1. IsBest(m, m)
      BY <2>2, <2>5, <2>6
    <3> HIDE DEF IsBest
    <3> QED BY <2>2, <3>1
  <2>7. CASE First(m - 1) # {}
    <3>1. PICK i : IsBest(i, m - 1)
      BY <2>3, <2>4, <2>7
    <3>2. CASE m \notin T
      <4>1. IsBest(i, m)
        BY <2>5, <3>1, <3>2
      <4> HIDE DEF IsBest
      <4> QED BY <2>2, <4>1
    <3>3. CASE m \in T /\ <<i, m>> \in R
      <4>1. IsBest(i, m)
        BY <2>5, <3>1, <3>3
      <4> HIDE DEF IsBest
      <4> QED BY <2>2, <4>1
    <3>4. CASE m \in T /\ <<i, m>> \notin R
      <4>1. <<m, i>> \in R /\ <<m, m>> \in R /\ i \in T
        BY <3>1, <3>4
      <4>2. m \in First(m)
        BY <2>3, <3>4
      <4>3. ASSUME NEW j \in First(m) PROVE <<m, j>> \in R
        <5>1. j = m \/ j \in First(m - 1)
          BY <2>5
        <5> QED BY <3>1, <3>4, <4>1, <5>1
      <4>4. IsBest(m, m)
        BY <4>2, <4>3
      <4> HIDE DEF IsBest
      <4> QED BY <2>2, <4>4
    <3> QED BY <3>2, <3>3, <3>4
  <2> QED BY <2>6, <2>7
<1>2. (\A i \in T : i <= n) /\ n \in 0..n
  OBVIOUS
<1>3. First(n) = T
  BY <1>2
<1> QED BY <1>1, <1>2, <1>3

(* The only function on 0..L with first value b and the given steps in X.  *)
Iterates(g, X, L, b, step) ==
    /\ g \in [0..L -> X]
    /\ g[0] = b /\ \A n \in 1..L : g[n] = step[<<g[n - 1], n>>]
    /\ \A h : /\ h = [n \in 0..L |-> h[n]]
              /\ h[0] = b
              /\ \A n \in 1..L : h[n - 1] \in X => h[n] = step[<<h[n - 1], n>>]
              => h = g

(* A function defined step by step from its first value exists and is      *)
(* unique.                                                                 *)
LEMMA Recursion ==
    ASSUME NEW X, NEW L \in Nat, NEW b \in X, NEW step \in [X \X (1..L) -> X]
    PROVE  \E g : Iterates(g, X, L, b, step)
<1> DEFINE Good(m, g) == g[0] = b /\ \A n \in 1..m : g[n] = step[<<g[n - 1], n>>]
<1> DEFINE Bad == {m \in 0..L : ~ \E g \in [0..m -> X] : Good(m, g)}
<1>1. Bad = {}
  <2> SUFFICES ASSUME Bad # {} PROVE FALSE
    OBVIOUS
  <2>1. PICK m \in Bad : \A k \in Bad : m <= k
    <3>1. Bad \subseteq Nat
      OBVIOUS
    <3> HIDE DEF Bad
    <3> QED BY <3>1, Smallest
  <2>2. m \in 0..L /\ ~ \E g \in [0..m -> X] : Good(m, g)
    OBVIOUS
  <2>3. CASE m = 0
    <3> DEFINE g == [n \in 0..m |-> b]
    <3>1. g \in [0..m -> X] /\ g[0] = b /\ 1..m = {}
      BY <2>3
    <3> QED BY <2>2, <3>1
  <2>4. CASE m # 0
    <3>1. m - 1 \in 0..L /\ m - 1 \notin Bad
      <4>1. m - 1 \in 0..L /\ ~ (m <= m - 1)
        BY <2>2, <2>4
      <4> HIDE DEF Bad
      <4> QED BY <2>1, <4>1
    <3>2. PICK g \in [0..(m - 1) -> X] : Good(m - 1, g)
      BY <3>1
    <3> DEFINE e == step[<<g[m - 1], m>>]
    <3> DEFINE h == [n \in 0..m |-> IF n = m THEN e ELSE g[n]]
    <3>3. g[m - 1] \in X /\ m \in 1..L
      BY <2>2, <2>4, <3>2
    <3>4. e \in X
      BY <3>3
    <3>5. h \in [0..m -> X] /\ h[0] = b
      BY <2>2, <2>4, <3>2, <3>4
    <3>6. ASSUME NEW n \in 1..m PROVE h[n] = step[<<h[n - 1], n>>]
      <4>1. h[n - 1] = g[n - 1] /\ n - 1 \in 0..(m - 1)
        BY <2>2
      <4>2. CASE n = m
        <5>1. h[m] = e
          BY <2>2
        <5> HIDE DEF h
        <5> QED BY <4>1, <4>2, <5>1
      <4>3. CASE n # m
        <5>1. n \in 1..(m - 1) /\ h[n] = g[n]
          BY <2>2, <4>3
        <5> QED BY <3>2, <4>1, <5>1
      <4> QED BY <4>2, <4>3
    <3> HIDE DEF h
    <3> QED BY <2>2, <3>5, <3>6
  <2> QED BY <2>3, <2>4
<1>2. PICK g \in [0..L -> X] : Good(L, g)
  <2>1. L \in 0..L
    OBVIOUS
  <2> QED BY <1>1, <2>1
<1>3. ASSUME NEW h, h = [n \in 0..L |-> h[n]], h[0] = b,
             \A n \in 1..L : h[n - 1] \in X => h[n] = step[<<h[n - 1], n>>]
      PROVE  h = g
  <2> DEFINE Differ == {n \in 0..L : h[n] # g[n]}
  <2>1. Differ = {}
    <3> SUFFICES ASSUME Differ # {} PROVE FALSE
      OBVIOUS
    <3>1. PICK m \in Differ : \A k \in Differ : m <= k
      <4>1. Differ \subseteq Nat
        OBVIOUS
      <4> HIDE DEF Differ
      <4> QED BY <4>1, Smallest
    <3>2. m \in 0..L /\ m # 0
      BY <1>2, <1>3
    <3>3. m - 1 \in 0..L /\ m \in 1..L /\ ~ (m <= m - 1)
      BY <3>2
    <3>4. m - 1 \notin Differ
      <4> HIDE DEF Differ
      <4> QED BY <3>1, <3>3
    <3>5. h[m - 1] = g[m - 1] /\ g[m - 1] \in X
      BY <1>2, <3>3, <3>4
    <3>6. h[m] = g[m]
      BY <1>2, <1>3, <3>3, <3>5
    <3> QED BY <3>6
  <2> QED BY <1>2, <1>3, <2>1
<1> QED BY <1>2, <1>3 DEF Iterates

-----------------------------------------------------------------------------
(* Select unfolded: the choice among the first n elements, for every n.    *)
LEMMA SelectRecursion ==
    ASSUME NEW S, NEW seq \in Seq(S), NEW K
    PROVE  \E sel \in [0..Len(seq) -> Seq(S)] :
              /\ Select(seq, K) = sel[Len(seq)]
              /\ sel[0] = <<>>
              /\ \A n \in 1..Len(seq) :
                    sel[n] = IF n \in K THEN Append(sel[n - 1], seq[n]) ELSE sel[n - 1]
<1> DEFINE L == Len(seq)
<1> DEFINE X == Seq(S)
<1> DEFINE b == <<>>
<1> DEFINE step == [p \in X \X (1..L) |-> IF p[2] \in K THEN Append(p[1], seq[p[2]]) ELSE p[1]]
<1>1. L \in Nat /\ b \in X /\ \A n \in 1..L : seq[n] \in S
  OBVIOUS
<1>2. step \in [X \X (1..L) -> X]
  BY <1>1
<1>3. PICK g : Iterates(g, X, L, b, step)
  <2> HIDE DEF X, L, step, b
  <2> QED BY <1>1, <1>2, Recursion
<1> USE DEF Iterates
<1>4. ASSUME NEW x \in X, NEW n \in 1..L
      PROVE  step[<<x, n>>] = IF n \in K THEN Append(x, seq[n]) ELSE x
  <2>1. <<x, n>> \in X \X (1..L)
    OBVIOUS
  <2> QED BY <2>1
<1> HIDE DEF step
<1> DEFINE Unfold(f, n) == IF n \in K THEN Append(f[n - 1], seq[n]) ELSE f[n - 1]
<1>5. \A n \in 1..L : g[n - 1] \in X /\ g[n] = Unfold(g, n)
  <2> SUFFICES ASSUME NEW n \in 1..L PROVE g[n - 1] \in X /\ g[n] = Unfold(g, n)
    OBVIOUS
  <2>1. g[n - 1] \in X
    BY <1>1, <1>3
  <2> QED BY <1>3, <1>4, <2>1
<1> DEFINE Unfolds(f) == f = [n \in 0..L |-> IF n = 0 THEN <<>> ELSE Unfold(f, n)]
<1> DEFINE sel == CHOOSE f : Unfolds(f)
<1>6. Unfolds(g)
  <2> HIDE DEF Unfold, X
  <2>1. ASSUME NEW n \in 0..L PROVE g[n] = IF n = 0 THEN <<>> ELSE Unfold(g, n)
    <3>1. n # 0 => n \in 1..L
      OBVIOUS
    <3> QED BY <1>3, <1>5, <3>1
  <2> QED BY <1>3, <2>1
<1>7. Unfolds(sel)
  <2> HIDE DEF Unfolds
  <2> QED BY <1>6
<1>8. Select(seq, K) = sel[L]
  BY DEF Select
<1>9. sel = g
  <2> HIDE DEF sel
  <2>1. sel = [n \in 0..L |-> sel[n]] /\ sel[0] = b
    BY <1>1, <1>7
  <2>2. ASSUME NEW n \in 1..L, sel[n - 1] \in X PROVE sel[n] = step[<<sel[n - 1], n>>]
    <3>1. n \in 0..L /\ n # 0
      OBVIOUS
    <3>2. sel[n] = Unfold(sel, n)
      BY <1>7, <3>1
    <3> QED BY <1>4, <2>2, <3>2
  <2> HIDE DEF X, b
  <2> QED BY <1>3, <2>1, <2>2
<1> HIDE DEF sel
<1> QED BY <1>3, <1>5, <1>8, <1>9

(* e lists the positions up to n that belong to K, in their order, and r   *)
(* the elements of seq there.                                              *)
Enumerates(e, r, seq, K, n) ==
    /\ e \in [1..Len(r) -> 1..n]
    /\ \A i, j \in 1..Len(r) : i < j => e[i] < e[j]
    /\ \A i \in 1..Len(r) : e[i] \in K /\ r[i] = seq[e[i]]
    /\ \A k \in 1..n : k \in K => \E i \in 1..Len(r) : e[i] = k

(* Select keeps the elements at K, in order, and nothing else.             *)
LEMMA SelectEnumerates ==
    ASSUME NEW S, NEW seq \in Seq(S), NEW K
    PROVE  /\ Select(seq, K) \in Seq(S)
           /\ \E e : Enumerates(e, Select(seq, K), seq, K, Len(seq))
<1> DEFINE L == Len(seq)
<1>1. PICK sel \in [0..L -> Seq(S)] :
         /\ Select(seq, K) = sel[L]
         /\ sel[0] = <<>>
         /\ \A n \in 1..L : sel[n] = IF n \in K THEN Append(sel[n - 1], seq[n]) ELSE sel[n - 1]
  BY SelectRecursion
<1> DEFINE Bad == {n \in 0..L : ~ \E e : Enumerates(e, sel[n], seq, K, n)}
<1>2. L \in Nat /\ L \in 0..L
  OBVIOUS
<1> HIDE DEF L
<1>3. Bad = {}
  <2> SUFFICES ASSUME Bad # {} PROVE FALSE
    OBVIOUS
  <2>1. PICK n \in Bad : \A k \in Bad : n <= k
    <3>1. Bad \subseteq Nat
      BY <1>2
    <3> HIDE DEF Bad
    <3> QED BY <3>1, Smallest
  <2>2. n \in 0..L /\ ~ \E e : Enumerates(e, sel[n], seq, K, n)
    OBVIOUS
  <2>3. CASE n = 0
    <3>1. sel[n] = <<>>
      BY <1>1, <2>3
    <3>2. Len(sel[n]) = 0 /\ 1..Len(sel[n]) = {} /\ 1..n = {}
      BY <2>3, <3>1
    <3> DEFINE e == [i \in 1..Len(sel[n]) |-> 1]
    <3>3. Enumerates(e, sel[n], seq, K, n)
      BY <3>2 DEF Enumerates
    <3> QED BY <2>2, <3>3
  <2>4. CASE n # 0
    <3>1. n \in 1..L /\ n - 1 \in 0..L /\ ~ (n <= n - 1)
      BY <1>2, <2>2, <2>4
    <3>2. n - 1 \notin Bad
      <4> HIDE DEF Bad
      <4> QED BY <2>1, <3>1
    <3>3. PICK e : Enumerates(e, sel[n - 1], seq, K, n - 1)
      BY <3>1, <3>2
    <3> DEFINE q == sel[n - 1]
    <3>4. q \in Seq(S) /\ Len(q) \in Nat
      BY <1>1, <3>1
    <3>5. CASE n \notin K
      <4>1. sel[n] = q
        BY <1>1, <3>1, <3>5
      <4>2. Enumerates(e, q, seq, K, n)
        <5> HIDE DEF q
        <5>1. Enumerates(e, q, seq, K, n - 1)
          BY <3>3 DEF q
        <5>2. n - 1 \in Nat /\ n \in Nat /\ 1..(n - 1) \subseteq 1..n
          BY <1>2, <3>1
        <5>3. e \in [1..Len(q) -> 1..n]
          BY <5>1, <5>2 DEF Enumerates
        <5>4. ASSUME NEW k \in 1..n, k \in K PROVE \E i \in 1..Len(q) : e[i] = k
          <6>1. k \in 1..(n - 1)
            BY <3>5, <5>2, <5>4
          <6> QED BY <5>1, <5>4, <6>1 DEF Enumerates
        <5> QED BY <5>1, <5>3, <5>4 DEF Enumerates
      <4> QED BY <2>2, <4>1, <4>2
    <3>6. CASE n \in K
      <4> DEFINE r == Append(q, seq[n])
      <4>1. sel[n] = r
        BY <1>1, <3>1, <3>6
      <4>2. seq[n] \in S
        BY <3>1 DEF L
      <4>3. /\ Len(r) = Len(q) + 1 /\ r[Len(q) + 1] = seq[n]
            /\ \A i \in 1..Len(q) : r[i] = q[i]
        BY <3>4, <4>2
      <4> DEFINE d == [i \in 1..Len(r) |-> IF i = Len(r) THEN n ELSE e[i]]
      <4>4. Enumerates(e, q, seq, K, n - 1)
        BY <3>3
      <4> HIDE DEF q, r
      <4>5. d \in [1..Len(r) -> 1..n]
        BY <1>2, <3>1, <3>4, <4>3, <4>4 DEF Enumerates
      <4>6. ASSUME NEW i \in 1..Len(r), NEW j \in 1..Len(r), i < j PROVE d[i] < d[j]
        <5>1. i \in 1..Len(q) /\ d[i] = e[i] /\ e[i] \in 1..(n - 1)
          <6>1. i \in 1..Len(q) /\ i # Len(r)
            BY <3>4, <4>3, <4>6
          <6>2. d[i] = e[i]
            BY <6>1
          <6> QED BY <4>4, <6>1, <6>2 DEF Enumerates
        <5>2. CASE j = Len(r)
          BY <1>2, <3>1, <5>1, <5>2
        <5>3. CASE j # Len(r)
          <6>1. j \in 1..Len(q) /\ d[j] = e[j]
            BY <3>4, <4>3, <5>3
          <6> QED BY <4>4, <4>6, <5>1, <6>1 DEF Enumerates
        <5> QED BY <5>2, <5>3
      <4>7. ASSUME NEW i \in 1..Len(r) PROVE d[i] \in K /\ r[i] = seq[d[i]]
        <5>1. CASE i = Len(r)
          BY <3>4, <3>6, <4>3, <5>1
        <5>2. CASE i # Len(r)
          <6>1. i \in 1..Len(q) /\ d[i] = e[i]
            BY <3>4, <4>3, <5>2
          <6> QED BY <4>3, <4>4, <6>1 DEF Enumerates
        <5> QED BY <5>1, <5>2
      <4>8. ASSUME NEW k \in 1..n, k \in K PROVE \E i \in 1..Len(r) : d[i] = k
        <5>1. CASE k = n
          <6>1. Len(r) \in 1..Len(r)
            BY <3>4, <4>3
          <6> QED BY <5>1, <6>1
        <5>2. CASE k # n
          <6>1. k \in 1..(n - 1)
            BY <1>2, <3>1, <5>2
          <6>2. PICK i \in 1..Len(q) : e[i] = k
            BY <4>4, <4>8, <6>1 DEF Enumerates
          <6>3. i \in 1..Len(r) /\ i # Len(r)
            BY <3>4, <4>3, <6>2
          <6> QED BY <6>2, <6>3
        <5> QED BY <5>1, <5>2
      <4> HIDE DEF d
      <4>9. Enumerates(d, r, seq, K, n)
        BY <4>5, <4>6, <4>7, <4>8 DEF Enumerates
      <4> QED BY <2>2, <4>1, <4>9
    <3> QED BY <3>5, <3>6
  <2> QED BY <2>3, <2>4
<1>4. Select(seq, K) \in Seq(S)
  BY <1>1, <1>2
<1>5. \E e : Enumerates(e, sel[L], seq, K, L)
  BY <1>2, <1>3
<1> QED BY <1>1, <1>4, <1>5 DEF L

(* What comes before the first position left out stays in place.           *)
LEMMA SelectPrefix ==
    ASSUME NEW S, NEW seq \in Seq(S), NEW K, NEW p \in 0..Len(seq), 1..p \subseteq K
    PROVE  p <= Len(Select(seq, K)) /\ \A i \in 1..p : Select(seq, K)[i] = seq[i]
<1> DEFINE L == Len(seq)
<1> DEFINE r == Select(seq, K)
<1>1. r \in Seq(S) /\ L \in Nat /\ Len(r) \in Nat /\ p \in 0..L
  BY SelectEnumerates
<1>2. PICK e : Enumerates(e, r, seq, K, L)
  BY SelectEnumerates
<1> HIDE DEF r, L
<1> DEFINE Bad == {i \in 1..p : i > Len(r) \/ e[i] # i}
<1>3. Bad = {}
  <2> SUFFICES ASSUME Bad # {} PROVE FALSE
    OBVIOUS
  <2>1. PICK i \in Bad : \A k \in Bad : i <= k
    <3>1. Bad \subseteq Nat
      BY <1>1
    <3> HIDE DEF Bad
    <3> QED BY <3>1, Smallest
  <2>2. i \in 1..p /\ i \in 1..L /\ i \in K
    BY <1>1
  <2>3. PICK j \in 1..Len(r) : e[j] = i
    BY <1>2, <2>2 DEF Enumerates
  <2>4. ASSUME NEW k \in 1..p, k < i PROVE k <= Len(r) /\ e[k] = k
    <3>1. k \notin Bad
      <4>1. ~ (i <= k)
        BY <1>1, <2>2, <2>4
      <4> HIDE DEF Bad
      <4> QED BY <2>1, <4>1
    <3> QED BY <1>1, <3>1
  <2>5. ~ (j < i)
    <3> SUFFICES ASSUME j < i PROVE FALSE
      OBVIOUS
    <3>1. j \in 1..p
      BY <1>1, <2>2
    <3> QED BY <1>1, <2>2, <2>3, <2>4, <3>1
  <2>6. ~ (j > i)
    <3> SUFFICES ASSUME j > i PROVE FALSE
      OBVIOUS
    <3>1. i \in 1..Len(r) /\ e[i] < i /\ e[i] \in 1..L
      <4>1. i \in 1..Len(r)
        BY <1>1, <2>2
      <4>2. e[i] < e[j] /\ e[i] \in 1..L
        BY <1>2, <4>1 DEF Enumerates
      <4> QED BY <2>3, <4>1, <4>2
    <3>2. e[i] \in 1..p /\ e[i] < i
      BY <1>1, <2>2, <3>1
    <3>3. e[e[i]] = e[i] /\ e[i] \in 1..Len(r)
      BY <1>1, <2>4, <3>2
    <3>4. e[e[i]] < e[i]
      BY <1>2, <3>1, <3>3 DEF Enumerates
    <3> QED BY <1>1, <3>1, <3>3, <3>4
  <2>7. j = i
    BY <1>1, <2>2, <2>5, <2>6
  <2> QED BY <1>1, <2>2, <2>3, <2>7
<1>4. ASSUME NEW i \in 1..p PROVE i \in 1..Len(r) /\ e[i] = i
  <2>1. ~ (i > Len(r)) /\ e[i] = i
    BY <1>3
  <2> QED BY <1>1, <2>1
<1>5. p <= Len(r)
  BY <1>1, <1>4
<1>6. \A i \in 1..p : r[i] = seq[i]
  BY <1>2, <1>4 DEF Enumerates
<1> QED BY <1>5, <1>6 DEF r

(* The selections from the beginnings of t, with that from seq among them. *)
Passes(sel, S, t, H, seq, K) ==
    /\ sel \in [0..Len(t) -> Seq(S)]
    /\ Select(t, H) = sel[Len(t)]
    /\ Select(seq, K) = sel[Len(seq)]
    /\ \A n \in 1..Len(t) : sel[n] = IF n \in H THEN Append(sel[n - 1], t[n]) ELSE sel[n - 1]

(* A selection from t passes the selection from any beginning of t.        *)
LEMMA SelectWithin ==
    ASSUME NEW S, NEW seq \in Seq(S), NEW t \in Seq(S), NEW K, NEW H, Len(seq) <= Len(t),
           \A k \in 1..Len(seq) : t[k] = seq[k] /\ (k \in H <=> k \in K)
    PROVE  \E sel : Passes(sel, S, t, H, seq, K)
<1> DEFINE L == Len(seq)
<1>1. PICK sel \in [0..Len(t) -> Seq(S)] :
         /\ Select(t, H) = sel[Len(t)]
         /\ sel[0] = <<>>
         /\ \A n \in 1..Len(t) :
               sel[n] = IF n \in H THEN Append(sel[n - 1], t[n]) ELSE sel[n - 1]
  BY SelectRecursion
<1>2. PICK own \in [0..L -> Seq(S)] :
         /\ Select(seq, K) = own[L]
         /\ own[0] = <<>>
         /\ \A n \in 1..L : own[n] = IF n \in K THEN Append(own[n - 1], seq[n]) ELSE own[n - 1]
  BY SelectRecursion
<1>3. L \in Nat /\ Len(t) \in Nat /\ L \in 0..L /\ L <= Len(t)
  OBVIOUS
<1>4. \A k \in 1..L : t[k] = seq[k] /\ (k \in H <=> k \in K)
  OBVIOUS
<1> HIDE DEF L
<1> DEFINE Bad == {n \in 0..L : sel[n] # own[n]}
<1>5. Bad = {}
  <2> SUFFICES ASSUME Bad # {} PROVE FALSE
    OBVIOUS
  <2>1. PICK n \in Bad : \A k \in Bad : n <= k
    <3>1. Bad \subseteq Nat
      BY <1>3
    <3> HIDE DEF Bad
    <3> QED BY <3>1, Smallest
  <2>2. n \in 0..L /\ sel[n] # own[n]
    OBVIOUS
  <2>3. n # 0
    BY <1>1, <1>2, <2>2
  <2>4. n \in 1..L /\ n \in 1..Len(t) /\ n - 1 \in 0..L /\ ~ (n <= n - 1)
    BY <1>3, <2>2, <2>3
  <2>5. n - 1 \notin Bad
    <3> HIDE DEF Bad
    <3> QED BY <2>1, <2>4
  <2>6. sel[n - 1] = own[n - 1]
    BY <2>4, <2>5
  <2>7. sel[n] = IF n \in H THEN Append(sel[n - 1], t[n]) ELSE sel[n - 1]
    BY <1>1, <2>4
  <2>8. own[n] = IF n \in K THEN Append(own[n - 1], seq[n]) ELSE own[n - 1]
    BY <1>2, <2>4
  <2> QED BY <1>4, <2>2, <2>4, <2>6, <2>7, <2>8
<1>6. Select(seq, K) = sel[L]
  BY <1>2, <1>3, <1>5
<1> QED BY <1>1, <1>6 DEF L, Passes

(* Selecting from a list with one more element.                            *)
LEMMA SelectAppend ==
    ASSUME NEW S, NEW seq \in Seq(S), NEW x \in S, NEW K, NEW H,
           \A k \in 1..Len(seq) : k \in H <=> k \in K
    PROVE  Select(Append(seq, x), H) =
               IF Len(seq) + 1 \in H THEN Append(Select(seq, K), x) ELSE Select(seq, K)
<1> DEFINE t == Append(seq, x)
<1>1. /\ t \in Seq(S) /\ Len(t) = Len(seq) + 1 /\ Len(seq) <= Len(t) /\ t[Len(seq) + 1] = x
      /\ \A k \in 1..Len(seq) : t[k] = seq[k]
      /\ Len(seq) \in Nat
  OBVIOUS
<1> HIDE DEF t
<1>2. PICK sel : Passes(sel, S, t, H, seq, K)
  BY <1>1, SelectWithin
<1>3. Len(t) \in 1..Len(t) /\ Len(t) - 1 = Len(seq)
  BY <1>1
<1>4. sel[Len(t)] = IF Len(t) \in H THEN Append(sel[Len(seq)], x) ELSE sel[Len(seq)]
  BY <1>1, <1>2, <1>3 DEF Passes
<1> QED BY <1>1, <1>2, <1>4 DEF t, Passes

Begins(b, q) == Len(b) <= Len(q) /\ \A i \in 1..Len(b) : q[i] = b[i]

(* The selection from a beginning is a beginning of the selection.         *)
LEMMA SelectInitial ==
    ASSUME NEW S, NEW seq \in Seq(S), NEW t \in Seq(S), NEW K, NEW H, Len(seq) <= Len(t),
           \A k \in 1..Len(seq) : t[k] = seq[k] /\ (k \in H <=> k \in K)
    PROVE  Begins(Select(seq, K), Select(t, H))
<1>1. PICK sel : Passes(sel, S, t, H, seq, K)
  BY SelectWithin
<1> DEFINE p == Len(seq)
<1> DEFINE L == Len(t)
<1> DEFINE b == sel[p]
<1>2. p \in Nat /\ L \in Nat /\ p <= L /\ p \in 0..L /\ \A n \in 1..L : t[n] \in S
  OBVIOUS
<1>3. b \in Seq(S) /\ Len(b) \in Nat
  BY <1>1, <1>2 DEF Passes
<1> HIDE DEF p, L, b
<1> DEFINE Bad == {n \in p..L : ~ Begins(b, sel[n])}
<1>4. Bad = {}
  <2> SUFFICES ASSUME Bad # {} PROVE FALSE
    OBVIOUS
  <2>1. PICK n \in Bad : \A k \in Bad : n <= k
    <3>1. Bad \subseteq Nat
      BY <1>2
    <3> HIDE DEF Bad
    <3> QED BY <3>1, Smallest
  <2>2. n \in p..L /\ ~ Begins(b, sel[n])
    OBVIOUS
  <2>3. n # p
    BY <1>3, <2>2 DEF b, Begins
  <2>4. n \in 1..L /\ n - 1 \in p..L /\ n - 1 \in 0..L /\ ~ (n <= n - 1)
    BY <1>2, <2>2, <2>3
  <2>5. n - 1 \notin Bad
    <3> HIDE DEF Bad
    <3> QED BY <2>1, <2>4
  <2> DEFINE q == sel[n - 1]
  <2>6. Begins(b, q) /\ q \in Seq(S)
    BY <1>1, <2>4, <2>5 DEF L, Passes
  <2>7. sel[n] = Append(q, t[n]) \/ sel[n] = q
    BY <1>1, <2>4 DEF L, Passes
  <2>8. t[n] \in S
    BY <1>2, <2>4
  <2> HIDE DEF q
  <2>9. Begins(b, Append(q, t[n]))
    <3>1. /\ Len(q) \in Nat /\ Len(Append(q, t[n])) = Len(q) + 1
          /\ \A i \in 1..Len(q) : Append(q, t[n])[i] = q[i]
      BY <2>6, <2>8
    <3>2. Len(b) <= Len(q) + 1 /\ \A i \in 1..Len(b) : i \in 1..Len(q)
      BY <1>3, <2>6, <3>1 DEF Begins
    <3> QED BY <2>6, <3>1, <3>2 DEF Begins
  <2> QED BY <2>2, <2>6, <2>7, <2>9
<1>5. Begins(b, sel[L])
  <2>1. L \in p..L
    BY <1>2
  <2> QED BY <1>4, <2>1
<1> QED BY <1>1, <1>5 DEF b, p, L, Passes
=============================================================================
