----------------------------- MODULE DataProofs -----------------------------
(***************************************************************************)
(* Induction over data.  A property is given as the set of the numbers that *)
(* have it, so every fact here is first-order.                              *)
(***************************************************************************)
EXTENDS Filter, WellFoundedInduction, SequenceTheorems, TLAPS

\* The least-number principle.
LEMMA LeastNatural ==
  ASSUME NEW T \in SUBSET Nat, T # {}
  PROVE  \E n \in T : \A m \in T : n <= m
<1>1. PICK n \in T : \A m \in T : ~(<<m, n>> \in OpToRel(<, Nat))
  BY NatLessThanWellFounded, WFMin, Zenon
<1>2. OpToRel(<, Nat) = {p \in Nat \X Nat : p[1] < p[2]}
  BY DEF OpToRel
<1>3. ASSUME NEW m \in T
      PROVE  n <= m
  <2>1. <<m, n>> \notin {p \in Nat \X Nat : p[1] < p[2]}
    BY <1>1, <1>2
  <2>2. QED
    BY <2>1
<1>4. QED
  BY <1>3

\* Induction up to a bound: T is the set of the numbers that have the property.
LEMMA BoundedInduction ==
  ASSUME NEW L \in Nat, NEW T, 0 \in T,
         \A n \in 1 .. L : n - 1 \in T => n \in T
  PROVE  \A n \in 0 .. L : n \in T
<1> DEFINE Bad == {n \in 0 .. L : n \notin T}
<1>1. SUFFICES ASSUME Bad # {} PROVE FALSE
  BY Zenon
<1>2. PICK n \in Bad : \A m \in Bad : n <= m
  <2>1. Bad \in SUBSET Nat
    OBVIOUS
  <2>2. QED
    BY <1>1, <2>1, LeastNatural, Zenon
<1>3. n \in 1 .. L /\ n - 1 \in 0 .. L /\ n - 1 \notin Bad
  BY <1>2
<1>4. QED
  BY <1>2, <1>3

\* The runs of a loop over 1 .. L that starts with `base` and whose n-th turn
\* is step[n].
Runs(L, D, base, step) ==
  {g \in [0 .. L -> D] : g[0] = base /\ \A n \in 1 .. L : g[n] = step[n][g[n - 1]]}

\* Every such loop has a run: what justifies a recursive function.
LEMMA RecursionExists ==
  ASSUME NEW L \in Nat, NEW D, NEW base \in D, NEW step \in [1 .. L -> [D -> D]]
  PROVE  \E g : g \in Runs(L, D, base, step)
<1> DEFINE Upto(m, g) == g[0] = base /\ \A n \in 1 .. m : g[n] = step[n][g[n - 1]]
           T == {m \in 0 .. L : \E g \in [0 .. m -> D] : Upto(m, g)}
<1>1. 0 \in T
  <2>1. [n \in 0 .. 0 |-> base] \in [0 .. 0 -> D] /\ Upto(0, [n \in 0 .. 0 |-> base])
    OBVIOUS
  <2>2. \E g \in [0 .. 0 -> D] : Upto(0, g)
    BY <2>1, Zenon
  <2>3. QED
    BY <2>2
<1>2. ASSUME NEW m \in 1 .. L, m - 1 \in T
      PROVE  m \in T
  <2>1. PICK g \in [0 .. m - 1 -> D] : Upto(m - 1, g)
    BY <1>2
  <2> DEFINE h == [n \in 0 .. m |-> IF n = m THEN step[m][g[m - 1]] ELSE g[n]]
  <2>2. h \in [0 .. m -> D]
    <3>1. g[m - 1] \in D
      BY <2>1
    <3>2. step[m][g[m - 1]] \in D
      BY <3>1
    <3>3. QED
      BY <3>2
  <2>3. h[0] = base
    BY <2>1, m # 0
  <2>4. ASSUME NEW n \in 1 .. m
        PROVE  h[n] = step[n][h[n - 1]]
    <3>1. CASE n = m
      BY <3>1
    <3>2. CASE n # m
      BY <3>2, <2>1
    <3>3. QED
      BY <3>1, <3>2
  <2>5. QED
    <3> HIDE DEF h
    <3>1. \E f \in [0 .. m -> D] : Upto(m, f)
      BY <2>2, <2>3, <2>4, Zenon
    <3>2. m \in 0 .. L
      OBVIOUS
    <3>3. QED
      BY <3>1, <3>2, Zenon
<1>3. L \in T
  <2>1. \A m \in 1 .. L : m - 1 \in T => m \in T
    BY <1>2
  <2>2. \A n \in 0 .. L : n \in T
    <3> HIDE DEF T
    <3> QED BY <1>1, <2>1, BoundedInduction, Zenon
  <2>3. QED
    <3> HIDE DEF T
    <3> QED BY <2>2
<1>4. QED
  BY <1>3 DEF Runs

-----------------------------------------------------------------------------
(* Division.                                                                *)

\* Division with remainder.
LEMMA DivMod ==
  ASSUME NEW n \in Nat, NEW m \in Nat, m > 0
  PROVE  /\ n \div m \in Nat /\ n % m \in 0 .. m - 1
         /\ n = (n \div m) * m + (n % m)
<1>1. n % m \in 0 .. m - 1 /\ n \div m \in Int /\ n % m = n - m * (n \div m)
  OBVIOUS
<1>2. n \div m \in Nat
  OBVIOUS
<1>3. n = (n \div m) * m + (n % m)
  OBVIOUS
<1>4. QED
  BY <1>1, <1>2, <1>3

\* Quotient and remainder are unique.
LEMMA DivUnique ==
  ASSUME NEW q \in Nat, NEW m \in Nat, m > 0, NEW r \in 0 .. m - 1
  PROVE  (q * m + r) \div m = q
<1> DEFINE n == q * m + r
           d == n \div m
           e == n % m
<1>1. n \in Nat
  <2>1. q * m \in Nat
    OBVIOUS
  <2>2. QED
    BY <2>1
<1>2. d \in Nat /\ e \in 0 .. m - 1 /\ n = d * m + e
  BY <1>1, DivMod
<1>3. q * m + r = d * m + e
  BY <1>2
<1> HIDE DEF d, e
<1>4. ASSUME NEW a \in Nat, NEW b \in Nat, NEW x \in 0 .. m - 1, NEW y \in 0 .. m - 1,
             a * m + x = b * m + y, a < b
      PROVE  FALSE
  <2>1. PICK t \in Nat : b = a + 1 + t
    <3>1. b - a - 1 \in Nat /\ b = a + 1 + (b - a - 1)
      BY <1>4
    <3>2. QED
      BY <3>1
  <2>2. (a + 1 + t) * m = a * m + m + t * m /\ t * m \in Nat /\ a * m \in Nat
    OBVIOUS
  <2>3. QED
    BY <1>4, <2>1, <2>2
<1>5. ~(q < d) /\ ~(d < q)
  BY <1>2, <1>3, <1>4
<1>6. QED
  BY <1>2, <1>5 DEF d

\* Dividing twice is dividing by the product.
LEMMA DivDiv ==
  ASSUME NEW n \in Nat, NEW p \in Nat, p > 0, NEW b \in Nat, b > 0
  PROVE  n \div (p * b) = (n \div p) \div b
<1> DEFINE q == n \div p
           r == n % p
           s == q \div b
           t == q % b
<1>1. q \in Nat /\ r \in 0 .. p - 1 /\ n = q * p + r
  BY DivMod
<1>2. s \in Nat /\ t \in 0 .. b - 1 /\ q = s * b + t
  BY <1>1, DivMod
<1> HIDE DEF q, r, s, t
<1>3. p * b \in Nat /\ p * b > 0
  OBVIOUS
<1>4. n = s * (p * b) + (t * p + r)
  <2>1. (s * b + t) * p = s * (p * b) + t * p
    BY <1>2
  <2>2. QED
    BY <1>1, <1>2, <2>1
<1>5. t * p + r \in 0 .. p * b - 1
  <2>1. PICK u \in Nat : b = t + 1 + u
    <3>1. b - t - 1 \in Nat /\ b = t + 1 + (b - t - 1)
      BY <1>2
    <3>2. QED
      BY <3>1
  <2>2. p * (t + 1 + u) = t * p + p + u * p /\ u * p \in Nat /\ t * p \in Nat
    BY <1>2
  <2>3. QED
    BY <1>1, <2>1, <2>2
<1>6. n \div (p * b) = s
  BY <1>2, <1>3, <1>4, <1>5, DivUnique
<1>7. QED
  BY <1>6 DEF s, q

-----------------------------------------------------------------------------
(* Sequences.                                                               *)

\* Lists of one and two elements.
LEMMA ShortLists ==
  ASSUME NEW S, NEW x \in S, NEW y \in S
  PROVE  <<x>> \in Seq(S) /\ <<x>> # <<>> /\ <<x, y>> \in Seq(S) /\ <<x, y>> # <<>>
OBVIOUS

\* A function on 1 .. n is a list of n elements.
LEMMA ListOfFunction ==
  ASSUME NEW n \in Nat, NEW S, NEW f \in [1 .. n -> S]
  PROVE  f \in Seq(S) /\ Len(f) = n
OBVIOUS

\* c has the elements of a and then those of b.
OneAfter(a, b, c) ==
  /\ DOMAIN c = 1 .. Len(c) /\ Len(c) = Len(a) + Len(b)
  /\ \A i \in 1 .. Len(a) : i \in 1 .. Len(c) /\ c[i] = a[i]
  /\ \A i \in 1 .. Len(b) : i + Len(a) \in 1 .. Len(c) /\ c[i + Len(a)] = b[i]
  /\ \A k \in 1 .. Len(c) : k \in 1 .. Len(a) \/ \E i \in 1 .. Len(b) : k = i + Len(a)

\* Concatenation puts one list after another.
LEMMA ListAfterList ==
  ASSUME NEW S, NEW a \in Seq(S), NEW b \in Seq(S)
  PROVE  OneAfter(a, b, a \o b)
<1> DEFINE c == a \o b
<1>1. c \in Seq(S) /\ Len(c) = Len(a) + Len(b) /\ Len(a) \in Nat /\ Len(b) \in Nat
  OBVIOUS
<1>2. \A i \in 1 .. Len(a) : c[i] = a[i]
  OBVIOUS
<1>3. \A i \in 1 .. Len(b) : c[i + Len(a)] = b[i]
  OBVIOUS
<1> HIDE DEF c
<1>4. DOMAIN c = 1 .. Len(c)
  BY <1>1
<1>5. \A i \in 1 .. Len(a) : i \in 1 .. Len(c)
  BY <1>1
<1>6. \A i \in 1 .. Len(b) : i + Len(a) \in 1 .. Len(c)
  BY <1>1
<1>7. ASSUME NEW k \in 1 .. Len(c), k \notin 1 .. Len(a)
      PROVE  \E i \in 1 .. Len(b) : k = i + Len(a)
  <2>1. k - Len(a) \in 1 .. Len(b) /\ k = (k - Len(a)) + Len(a)
    BY <1>1, <1>7
  <2>2. QED
    BY <2>1, Zenon
<1>8. QED
  BY <1>1, <1>2, <1>3, <1>4, <1>5, <1>6, <1>7, Zenon DEF c, OneAfter

\* What is put in front of a list is its head.
LEMMA HeadTailOfPair ==
  ASSUME NEW S, NEW x \in S, NEW f \in Seq(S)
  PROVE  LET key == <<x>> \o f
         IN  key \in Seq(S) /\ Len(key) = Len(f) + 1 /\ Head(key) = x /\ Tail(key) = f
<1> DEFINE key == <<x>> \o f
<1>1. key \in Seq(S) /\ Len(key) = Len(f) + 1 /\ key[1] = x
  OBVIOUS
<1>2. \A i \in 1 .. Len(f) : key[i + 1] = f[i]
  OBVIOUS
<1> HIDE DEF key
<1>3. key # <<>> /\ Head(key) = key[1] /\ Len(f) \in Nat
  BY <1>1
<1>4. Tail(key) = f
  <2>1. Tail(key) \in Seq(S) /\ Len(Tail(key)) = Len(f)
    BY <1>1, <1>3, HeadTailProperties
  <2>2. \A i \in 1 .. Len(f) : Tail(key)[i] = f[i]
    BY <1>1, <1>2, <1>3, <2>1, HeadTailProperties
  <2>3. QED
    BY <2>1, <2>2, SeqEqual
<1>5. QED
  BY <1>1, <1>3, <1>4 DEF key

\* A list is its head and its tail.
LEMMA HeadThenTail ==
  ASSUME NEW S, NEW key \in Seq(S), key # <<>>
  PROVE  /\ Head(key) \in S /\ Tail(key) \in Seq(S) /\ Len(Tail(key)) = Len(key) - 1
         /\ key = <<Head(key)>> \o Tail(key)
<1>1. /\ Head(key) = key[1] /\ Head(key) \in S
      /\ Tail(key) \in Seq(S) /\ Len(Tail(key)) = Len(key) - 1
  OBVIOUS
<1>2. <<Head(key)>> \o Tail(key) \in Seq(S) /\ Len(<<Head(key)>> \o Tail(key)) = Len(key)
  BY <1>1
<1>3. \A i \in 1 .. Len(key) : (<<Head(key)>> \o Tail(key))[i] = key[i]
  BY <1>1
<1>4. key = <<Head(key)>> \o Tail(key)
  BY <1>2, <1>3
<1>5. QED
  BY <1>1, <1>4, Zenon

-----------------------------------------------------------------------------
(* Filter.                                                                  *)

\* What filter's loop has collected after each element of the list.
FilterRuns(X, s, S) ==
  {M \in [0 .. Len(s) -> Seq(X)] :
     /\ M[0] = <<>>
     /\ \A n \in 1 .. Len(s) :
          M[n] = IF s[n] \in S THEN Append(M[n - 1], s[n]) ELSE M[n - 1]}

\* Filter does what a loop over the list does: the first n elements
\* filtered are the first n - 1 filtered, and then the n-th if it passes.
LEMMA FilterUnfolds ==
  ASSUME NEW X, NEW s \in Seq(X), NEW S
  PROVE  \E M \in FilterRuns(X, s, S) : Filter(s, S) = M[Len(s)]
<1> DEFINE L == Len(s)
           Body(g) == [n \in 0 .. L |->
                         IF n = 0 THEN <<>>
                         ELSE IF s[n] \in S THEN Append(g[n - 1], s[n]) ELSE g[n - 1]]
           M == CHOOSE g : g = Body(g)
           step == [n \in 1 .. L |-> [q \in Seq(X) |-> IF s[n] \in S THEN Append(q, s[n]) ELSE q]]
<1>1. L \in Nat /\ \A n \in 1 .. L : s[n] \in X
  OBVIOUS
<1>2. step \in [1 .. L -> [Seq(X) -> Seq(X)]]
  BY <1>1
<1>3. <<>> \in Seq(X)
  OBVIOUS
<1>4. PICK g : g \in [0 .. L -> Seq(X)] /\ g[0] = <<>> /\ \A n \in 1 .. L : g[n] = step[n][g[n - 1]]
  <2>1. PICK g : g \in Runs(L, Seq(X), <<>>, step)
    <3> HIDE DEF step, L
    <3> QED BY <1>1, <1>2, <1>3, RecursionExists
  <2>2. QED
    <3> HIDE DEF step, L
    <3> QED BY <2>1, Zenon DEF Runs
<1>5. ASSUME NEW n \in 1 .. L
      PROVE  /\ n \in 0 .. L /\ n # 0 /\ n - 1 \in 0 .. L
             /\ \A q \in Seq(X) : Append(q, s[n]) \in Seq(X)
  BY <1>1
<1>6. ASSUME NEW n \in 1 .. L
      PROVE  g[n] = IF s[n] \in S THEN Append(g[n - 1], s[n]) ELSE g[n - 1]
  <2>1. g[n - 1] \in Seq(X)
    BY <1>4, <1>5, Zenon
  <2>2. step[n][g[n - 1]] = IF s[n] \in S THEN Append(g[n - 1], s[n]) ELSE g[n - 1]
    BY <2>1, Zenon
  <2>3. QED
    BY <1>4, <2>2, Zenon
<1>7. g = Body(g)
  <2>1. ASSUME NEW n \in 0 .. L
        PROVE  g[n] = Body(g)[n]
    <3>1. CASE n = 0
      BY <3>1, <1>4, Zenon
    <3>2. CASE n # 0
      <4>1. n \in 1 .. L
        BY <1>1, <3>2
      <4>2. QED
        BY <3>2, <4>1, <1>6, Zenon
    <3>3. QED
      BY <3>1, <3>2
  <2>2. QED
    BY <2>1, <1>4, Zenon
<1>8. M = Body(M)
  <2> HIDE DEF Body
  <2> QED BY <1>7, Zenon
<1>9. M[0] = <<>>
  <2> HIDE DEF M
  <2>1. 0 \in 0 .. L
    BY <1>1
  <2>2. QED
    BY <1>8, <2>1, Zenon
<1>10. ASSUME NEW n \in 1 .. L
       PROVE  M[n] = IF s[n] \in S THEN Append(M[n - 1], s[n]) ELSE M[n - 1]
  <2> HIDE DEF M
  <2> QED BY <1>5, <1>8, Zenon
<1>11. M \in [0 .. L -> Seq(X)]
  <2> DEFINE T == {n \in 0 .. L : M[n] \in Seq(X)}
  <2> HIDE DEF M
  <2>1. 0 \in T
    <3>1. 0 \in 0 .. L
      BY <1>1
    <3>2. QED
      BY <1>3, <1>9, <3>1, Zenon
  <2>2. \A n \in 1 .. L : n - 1 \in T => n \in T
    BY <1>5, <1>10, Zenon
  <2>3. \A n \in 0 .. L : n \in T
    <3> HIDE DEF T, L
    <3> QED BY <1>1, <2>1, <2>2, BoundedInduction, Zenon
  <2>4. QED
    BY <1>8, <2>3, Zenon
<1>12. Filter(s, S) = M[L]
  BY Zenon DEF Filter
<1>13. M \in FilterRuns(X, s, S)
  <2> HIDE DEF M
  <2> QED BY <1>9, <1>10, <1>11, Zenon DEF FilterRuns
<1>14. QED
  <2> HIDE DEF M
  <2> QED BY <1>12, <1>13, Zenon

\* A filtered list is a list of the same elements' type.
LEMMA FilterType ==
  ASSUME NEW X, NEW s \in Seq(X), NEW S
  PROVE  Filter(s, S) \in Seq(X)
<1>1. Len(s) \in 0 .. Len(s)
  OBVIOUS
<1>2. PICK M \in FilterRuns(X, s, S) : Filter(s, S) = M[Len(s)]
  BY FilterUnfolds
<1>3. QED
  BY <1>1, <1>2, Zenon DEF FilterRuns


\* F holds what is in S of the first n elements of s, and none of it twice if
\* s has nothing twice.
FilteredOf(s, n, S, F) ==
  /\ \A i \in 1 .. Len(F) : F[i] \in S /\ \E j \in 1 .. n : s[j] = F[i]
  /\ \A j \in 1 .. n : s[j] \in S => \E i \in 1 .. Len(F) : F[i] = s[j]
  /\ (\A i, j \in 1 .. n : s[i] = s[j] => i = j) =>
       \A i, j \in 1 .. Len(F) : F[i] = F[j] => i = j

\* A turn of filter's loop.
LEMMA FilterTurn ==
  ASSUME NEW X, NEW s \in Seq(X), NEW n \in 1 .. Len(s), NEW S, NEW q \in Seq(X),
         FilteredOf(s, n - 1, S, q)
  PROVE  FilteredOf(s, n, S, IF s[n] \in S THEN Append(q, s[n]) ELSE q)
<1>0. s[n] \in X /\ n \in Int /\ Len(s) \in Nat /\ Len(q) \in Nat
  OBVIOUS
<1>1. CASE s[n] \notin S
  <2>1. \A j \in 1 .. n : j # n => j \in 1 .. n - 1
    OBVIOUS
  <2>2. \A j \in 1 .. n - 1 : j \in 1 .. n
    OBVIOUS
  <2>3. QED
    BY <1>1, <2>1, <2>2, Zenon DEF FilteredOf
<1>2. CASE s[n] \in S
  <2> DEFINE F == Append(q, s[n])
  <2>1. /\ Len(F) = Len(q) + 1 /\ F[Len(q) + 1] = s[n]
        /\ \A i \in 1 .. Len(q) : F[i] = q[i]
    BY <1>0
  <2>2. \A i \in 1 .. Len(F) : i = Len(q) + 1 \/ i \in 1 .. Len(q)
    BY <1>0, <2>1
  <2>3. Len(q) + 1 \in 1 .. Len(F) /\ \A i \in 1 .. Len(q) : i \in 1 .. Len(F)
    BY <1>0, <2>1
  <2>4. n \in 1 .. n /\ \A j \in 1 .. n - 1 : j \in 1 .. n /\ j # n
    BY <1>0
  <2>5. \A j \in 1 .. n : j = n \/ j \in 1 .. n - 1
    BY <1>0
  <2> HIDE DEF F
  <2>6. ASSUME NEW i \in 1 .. Len(F) PROVE F[i] \in S /\ \E j \in 1 .. n : s[j] = F[i]
    <3>1. CASE i = Len(q) + 1
      BY <1>2, <2>1, <2>4, <3>1, Zenon
    <3>2. CASE i \in 1 .. Len(q)
      <4>1. q[i] \in S
        BY <3>2, Zenon DEF FilteredOf
      <4>2. PICK j \in 1 .. n - 1 : s[j] = q[i]
        BY <3>2, Zenon DEF FilteredOf
      <4>3. QED
        BY <2>1, <2>4, <3>2, <4>1, <4>2, Zenon
    <3>3. QED
      BY <2>2, <3>1, <3>2
  <2>7. ASSUME NEW j \in 1 .. n, s[j] \in S PROVE \E i \in 1 .. Len(F) : F[i] = s[j]
    <3>1. CASE j = n
      BY <2>1, <2>3, <3>1, Zenon
    <3>2. CASE j \in 1 .. n - 1
      <4>1. PICK i \in 1 .. Len(q) : q[i] = s[j]
        BY <2>7, <3>2, Zenon DEF FilteredOf
      <4>2. QED
        BY <2>1, <2>3, <4>1, Zenon
    <3>3. QED
      BY <2>5, <3>1, <3>2
  <2>8. ASSUME \A i, j \in 1 .. n : s[i] = s[j] => i = j,
               NEW i \in 1 .. Len(F), NEW j \in 1 .. Len(F), F[i] = F[j]
        PROVE  i = j
    <3>1. ASSUME NEW k \in 1 .. Len(q), q[k] = s[n] PROVE FALSE
      <4>1. PICK l \in 1 .. n - 1 : s[l] = q[k]
        BY Zenon DEF FilteredOf
      <4>2. QED
        BY <2>4, <2>8, <3>1, <4>1, Zenon
    <3>2. \A k, l \in 1 .. Len(q) : q[k] = q[l] => k = l
      BY <2>4, <2>8, Zenon DEF FilteredOf
    <3>3. QED
      BY <2>1, <2>2, <2>8, <3>1, <3>2, Zenon
  <2>9. FilteredOf(s, n, S, F)
    BY <2>6, <2>7, <2>8, Zenon DEF FilteredOf
  <2>10. QED
    BY <1>2, <2>9 DEF F
<1>3. QED
  BY <1>1, <1>2

\* A filtered list has the elements that are in the set, and each as often.
LEMMA FilterElements ==
  ASSUME NEW X, NEW s \in Seq(X), NEW S
  PROVE  FilteredOf(s, Len(s), S, Filter(s, S))
<1>1. PICK M \in FilterRuns(X, s, S) : Filter(s, S) = M[Len(s)]
  BY FilterUnfolds
<1>2. /\ M \in [0 .. Len(s) -> Seq(X)] /\ M[0] = <<>>
      /\ \A n \in 1 .. Len(s) : M[n] = IF s[n] \in S THEN Append(M[n - 1], s[n]) ELSE M[n - 1]
  BY DEF FilterRuns
<1> DEFINE T == {n \in 0 .. Len(s) : FilteredOf(s, n, S, M[n])}
<1>3. 0 \in T
  <2>1. 0 \in 0 .. Len(s)
    OBVIOUS
  <2>2. FilteredOf(s, 0, S, <<>>)
    BY DEF FilteredOf
  <2>3. QED
    BY <1>2, <2>1, <2>2
<1>4. ASSUME NEW n \in 1 .. Len(s), n - 1 \in T PROVE n \in T
  <2>1. n - 1 \in 0 .. Len(s) /\ n \in 0 .. Len(s)
    OBVIOUS
  <2>2. M[n - 1] \in Seq(X) /\ FilteredOf(s, n - 1, S, M[n - 1])
    BY <1>2, <1>4, <2>1
  <2>3. FilteredOf(s, n, S, M[n])
    BY <1>2, <2>2, FilterTurn
  <2>4. QED
    BY <2>1, <2>3
<1> HIDE DEF T
<1>5. Len(s) \in Nat /\ Len(s) \in 0 .. Len(s)
  OBVIOUS
<1>6. \A n \in 0 .. Len(s) : n \in T
  BY <1>3, <1>4, <1>5, BoundedInduction
<1>7. QED
  BY <1>1, <1>5, <1>6 DEF T
=============================================================================
