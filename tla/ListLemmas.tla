----------------------------- MODULE ListLemmas -----------------------------
(***************************************************************************)
(* Facts about sequences that the proofs of several modules rest on.  What *)
(* is defined by recursion is shown by looking at the least number that    *)
(* would be an exception.                                                  *)
(***************************************************************************)
EXTENDS Integers, SequencesExt, SequenceTheorems, WellFoundedInduction, TLAPS

\* A set of natural numbers that is not empty has a least element.
LEMMA LeastNatural ==
  ASSUME NEW T, T \subseteq Nat, T # {}
  PROVE  \E n \in T : \A m \in T : n <= m
<1>1. \E R : IsWellFoundedOn(R, Nat) /\ \A x, y \in Nat : y < x => <<y, x>> \in R
  <2>1. IsWellFoundedOn(OpToRel(<, Nat), Nat)
    BY NatLessThanWellFounded
  <2>2. \A x, y \in Nat : y < x => <<y, x>> \in OpToRel(<, Nat)
    BY DEF OpToRel
  <2>. QED  BY <2>1, <2>2, Zenon
<1>2. PICK R : IsWellFoundedOn(R, Nat) /\ \A x, y \in Nat : y < x => <<y, x>> \in R
  BY <1>1
<1>3. PICK x \in T : \A y \in T : ~ (<<y, x>> \in R)
  BY <1>2, WFMin
<1>4. ASSUME NEW y \in T PROVE x <= y
  <2>1. x \in Nat /\ y \in Nat
    OBVIOUS
  <2>2. ~(y < x)
    BY <1>2, <1>3, <2>1, Zenon
  <2>. QED  BY <2>1, <2>2
<1>. QED  BY <1>4

\* SelectInSeq looks for the least index.
LEMMA LeastIndex ==
  ASSUME NEW I, I \subseteq Nat, I # {}
  PROVE  Min(I) \in I /\ \A j \in I : Min(I) <= j
<1>1. \E x \in I : \A y \in I : x <= y
  BY LeastNatural
<1>. QED  BY <1>1 DEF Min

\* The first element of one sequence goes to the end of another.
LEMMA HandOver ==
  ASSUME NEW T, NEW s \in Seq(T), NEW t \in Seq(T), t # <<>>
  PROVE  Append(s, Head(t)) \o Tail(t) = s \o t
<1>1. Head(t) \in T /\ Tail(t) \in Seq(T) /\ t = <<Head(t)>> \o Tail(t)
  OBVIOUS
<1>2. PICK h \in T, u \in Seq(T) : h = Head(t) /\ u = Tail(t)
  BY <1>1
<1>3. Append(s, h) = s \o <<h>>
  OBVIOUS
<1>4. (s \o <<h>>) \o u = s \o (<<h>> \o u)
  OBVIOUS
<1>. QED  BY <1>1, <1>2, <1>3, <1>4

-----------------------------------------------------------------------------
(* Recursive functions on 0..n.                                            *)

\* What one value hands on to the next is true of all of them.
LEMMA Follows ==
  ASSUME NEW n \in Nat, NEW G, NEW f, f[0] \in G[0],
         \A j \in 1..n : f[j - 1] \in G[j - 1] => f[j] \in G[j]
  PROVE  \A j \in 0..n : f[j] \in G[j]
<1>. DEFINE Bad == {j \in 0..n : f[j] \notin G[j]}
<1>1. SUFFICES ASSUME Bad # {} PROVE FALSE
  OBVIOUS
<1>2. Bad \subseteq Nat
  OBVIOUS
<1>3. PICK j \in Bad : \A k \in Bad : j <= k
  <2>. HIDE DEF Bad
  <2>. QED  BY <1>1, <1>2, LeastNatural
<1>4. j \in 1..n /\ j - 1 \in 0..n /\ ~(j <= j - 1)
  BY <1>2
<1>5. j - 1 \notin Bad
  <2>. HIDE DEF Bad
  <2>. QED  BY <1>3, <1>4
<1>6. f[j - 1] \in G[j - 1]
  BY <1>4, <1>5
<1>. QED  BY <1>4, <1>6

\* Steps op that lead from each set to the next make a function.
Leads(n, U, G, op) ==
  /\ \A j \in 0..n : G[j] \subseteq U
  /\ \A j \in 1..n : \A s \in G[j - 1] : op[<<s, j>>] \in G[j]
Traces(g, n, x0, G, op) ==
  g[0] = x0 /\ \A j \in 1..n : g[j - 1] \in G[j - 1] /\ g[j] = op[<<g[j - 1], j>>]
LEMMA Iterates ==
  ASSUME NEW n \in Nat, NEW U, NEW G, NEW op, NEW x0 \in G[0], Leads(n, U, G, op)
  PROVE  \E g \in [0..n -> U] : Traces(g, n, x0, G, op)
<1>0. /\ \A j \in 0..n : G[j] \subseteq U
      /\ \A j \in 1..n : \A s \in G[j - 1] : op[<<s, j>>] \in G[j]
  BY DEF Leads
<1>. USE <1>0
<1>. DEFINE Fits(g, m) == /\ g[0] = x0 /\ \A j \in 0..m : g[j] \in G[j]
                          /\ \A j \in 1..m : g[j] = op[<<g[j - 1], j>>]
            Bad == {m \in 0..n : ~ \E g \in [0..m -> U] : Fits(g, m)}
<1>1. Bad = {}
  <2>1. SUFFICES ASSUME Bad # {} PROVE FALSE
    OBVIOUS
  <2>2. Bad \subseteq Nat
    OBVIOUS
  <2>3. PICK m \in Bad : \A k \in Bad : m <= k
    <3>. HIDE DEF Bad
    <3>. QED  BY <2>1, <2>2, LeastNatural
  <2>4. m # 0
    <3>. DEFINE g == [j \in 0..0 |-> x0]
    <3>1. x0 \in U
      OBVIOUS
    <3>2. g \in [0..0 -> U] /\ Fits(g, 0)
      BY <3>1
    <3>3. 0 \notin Bad
      BY <3>2
    <3>. QED  BY <3>3
  <2>5. m \in 1..n /\ m - 1 \in 0..n /\ ~(m <= m - 1)
    BY <2>2, <2>4
  <2>6. m - 1 \notin Bad
    <3>. HIDE DEF Bad
    <3>. QED  BY <2>3, <2>5
  <2>7. PICK g \in [0..(m - 1) -> U] : Fits(g, m - 1)
    BY <2>5, <2>6
  <2>. DEFINE h == [j \in 0..m |-> IF j = m THEN op[<<g[m - 1], m>>] ELSE g[j]]
  <2>8. /\ \A j \in 0..(m - 1) : j \in 0..m /\ j # m /\ h[j] = g[j]
        /\ h[m] = op[<<g[m - 1], m>>] /\ m - 1 \in 0..(m - 1)
    BY <2>5
  <2>9. h[m] \in G[m]
    BY <2>5, <2>7, <2>8
  <2>10. ASSUME NEW j \in 0..m PROVE h[j] \in G[j] /\ j \in 0..n
    <3>1. j = m \/ j \in 0..(m - 1)
      BY <2>5
    <3>. HIDE DEF h
    <3>. QED  BY <2>5, <2>7, <2>8, <2>9, <3>1
  <2>11. ASSUME NEW j \in 1..m PROVE h[j] = op[<<h[j - 1], j>>]
    <3>1. j - 1 \in 0..(m - 1) /\ (j = m \/ j \in 1..(m - 1))
      BY <2>5
    <3>2. j \in 1..(m - 1) => j \in 0..(m - 1)
      BY <2>5
    <3>. HIDE DEF h
    <3>. QED  BY <2>7, <2>8, <3>1, <3>2
  <2>12. h \in [0..m -> U] /\ h[0] = x0
    <3>1. \A j \in 0..m : h[j] \in U
      BY <2>10
    <3>2. h = [j \in 0..m |-> h[j]]
      OBVIOUS
    <3>3. 0 \in 0..(m - 1)
      BY <2>5
    <3>4. h[0] = g[0] /\ g[0] = x0
      BY <2>7, <2>8, <3>3
    <3>. HIDE DEF h
    <3>. QED  BY <3>1, <3>2, <3>4
  <2>13. Fits(h, m)
    <3>. HIDE DEF h
    <3>. QED  BY <2>10, <2>11, <2>12
  <2>14. m \notin Bad
    BY <2>12, <2>13
  <2>. QED  BY <2>14
<1>2. PICK g \in [0..n -> U] : Fits(g, n)
  <2>1. n \in 0..n /\ n \notin Bad
    BY <1>1
  <2>. HIDE DEF Fits
  <2>. QED  BY <2>1
<1>3. \A j \in 1..n : j - 1 \in 0..n
  OBVIOUS
<1>. QED  BY <1>2, <1>3 DEF Traces

\* A function that does not change from one number to the next is constant.
LEMMA Constant ==
  ASSUME NEW n \in Nat, NEW f, \A j \in 1..n : f[j] = f[j - 1]
  PROVE  f[n] = f[0]
<1>. DEFINE G == [j \in 0..n |-> {f[0]}]
<1>1. f[0] \in G[0]
  OBVIOUS
<1>2. \A j \in 1..n : f[j - 1] \in G[j - 1] => f[j] \in G[j]
  <2>1. \A j \in 1..n : j \in 0..n /\ j - 1 \in 0..n
    OBVIOUS
  <2>. QED  BY <2>1
<1>3. n \in 0..n /\ G[n] = {f[0]}
  OBVIOUS
<1>. HIDE DEF G
<1>. QED  BY <1>1, <1>2, <1>3, Follows

-----------------------------------------------------------------------------
(* FlattenSeq.                                                             *)

\* g is the function by which FlattenSeq is defined, up to n.
Flattens(g, s, n) == \A i \in 1..n : g[i] = IF i = 1 THEN s[i] ELSE g[i - 1] \o s[i]

\* There is one.
LEMMA FlattenExists ==
  ASSUME NEW T, NEW s \in Seq(Seq(T)), NEW n \in 1..Len(s)
  PROVE  \E g \in [1..n -> Seq(T)] : Flattens(g, s, n)
<1>. DEFINE Bad == {m \in 1..Len(s) : ~ \E g \in [1..m -> Seq(T)] : Flattens(g, s, m)}
<1>1. SUFFICES ASSUME Bad # {} PROVE FALSE
  OBVIOUS
<1>2. Bad \subseteq Nat
  OBVIOUS
<1>3. PICK m \in Bad : \A k \in Bad : m <= k
  <2>. HIDE DEF Bad
  <2>. QED  BY <1>1, <1>2, LeastNatural
<1>4. CASE m = 1
  <2>. DEFINE g == [i \in 1..m |-> s[i]]
  <2>1. g \in [1..m -> Seq(T)] /\ Flattens(g, s, m)
    BY <1>4 DEF Flattens
  <2>. QED  BY <2>1
<1>5. CASE m # 1
  <2>1. m - 1 \in 1..Len(s) /\ m - 1 \notin Bad
    <3>1. m \in Nat /\ m \in 1..Len(s) /\ ~(m <= m - 1)
      BY <1>2
    <3>2. m - 1 \in 1..Len(s)
      BY <1>5, <3>1
    <3>. HIDE DEF Bad
    <3>. QED  BY <1>3, <3>1, <3>2
  <2>2. PICK g \in [1..(m - 1) -> Seq(T)] : Flattens(g, s, m - 1)
    BY <2>1
  <2>. DEFINE h == [i \in 1..m |-> IF i = 1 THEN s[i] ELSE g[i - 1] \o s[i]]
  <2>3. \A i \in 1..m : i # 1 => i - 1 \in 1..(m - 1)
    BY <1>2
  <2>4. h \in [1..m -> Seq(T)]
    <3>1. ASSUME NEW i \in 1..m PROVE h[i] \in Seq(T)
      <4>1. s[i] \in Seq(T)
        OBVIOUS
      <4>2. i # 1 => g[i - 1] \in Seq(T)
        BY <2>3
      <4>. QED  BY <4>1, <4>2, ConcatProperties
    <3>. QED  BY <3>1
  <2>5. \A i \in 1..(m - 1) : h[i] = g[i]
    <3>1. \A i \in 1..(m - 1) : i \in 1..m
      BY <1>2
    <3>. QED  BY <2>2, <3>1 DEF Flattens
  <2>6. Flattens(h, s, m)
    <3>1. \A i \in 1..m : h[i] = IF i = 1 THEN s[i] ELSE h[i - 1] \o s[i]
      BY <2>3, <2>5
    <3>. QED  BY <3>1 DEF Flattens
  <2>. QED  BY <2>4, <2>6
<1>. QED  BY <1>4, <1>5

\* There are no two, whatever the length.
LEMMA FlattenUnique ==
  ASSUME NEW s, NEW n \in Nat, NEW m \in Nat, NEW g, NEW h, Flattens(g, s, n), Flattens(h, s, m),
         NEW k \in 1..n, k <= m
  PROVE  g[k] = h[k]
<1>. DEFINE Bad == {j \in 1..n : j <= m /\ g[j] # h[j]}
<1>1. SUFFICES ASSUME Bad # {} PROVE FALSE
  OBVIOUS
<1>2. Bad \subseteq Nat
  OBVIOUS
<1>3. PICK j \in Bad : \A i \in Bad : j <= i
  <2>. HIDE DEF Bad
  <2>. QED  BY <1>1, <1>2, LeastNatural
<1>4. /\ g[j] = IF j = 1 THEN s[j] ELSE g[j - 1] \o s[j]
      /\ h[j] = IF j = 1 THEN s[j] ELSE h[j - 1] \o s[j]
  BY DEF Flattens
<1>5. j # 1 => j - 1 \in 1..n /\ j - 1 <= m /\ j - 1 \notin Bad
  BY <1>2, <1>3
<1>. QED  BY <1>4, <1>5

\* What FlattenSeq is, for any such function.
LEMMA FlattenValue ==
  ASSUME NEW T, NEW s \in Seq(Seq(T)), Len(s) # 0, NEW g, Flattens(g, s, Len(s))
  PROVE  FlattenSeq(s) = g[Len(s)]
<1>. DEFINE n == Len(s)
            step(h) == [i \in 1..n |-> IF i = 1 THEN s[i] ELSE h[i - 1] \o s[i]]
            f == CHOOSE h : h = step(h)
            w == step(f)
<1>1. FlattenSeq(s) = f[n]
  BY DEF FlattenSeq
<1>2. \E h : h = step(h)
  <2>1. PICK h \in [1..n -> Seq(T)] : Flattens(h, s, n)
    BY FlattenExists
  <2>2. h = step(h)
    BY <2>1 DEF Flattens
  <2>. QED  BY <2>2
<1>3. f = w
  BY <1>2
<1>4. \A i \in 1..n : w[i] = IF i = 1 THEN s[i] ELSE f[i - 1] \o s[i]
  <2>. HIDE DEF f
  <2>. QED  OBVIOUS
<1>. HIDE DEF f, w
<1>5. Flattens(f, s, n)
  BY <1>3, <1>4 DEF Flattens
<1>6. n \in Nat /\ n \in 1..n
  OBVIOUS
<1>. HIDE DEF n
<1>. QED  BY <1>1, <1>5, <1>6, FlattenUnique DEF n

\* The elements of what is flattened keep their type.
LEMMA FlattenType ==
  ASSUME NEW T, NEW s \in Seq(Seq(T))
  PROVE  FlattenSeq(s) \in Seq(T)
<1>1. CASE Len(s) = 0
  BY <1>1 DEF FlattenSeq
<1>2. CASE Len(s) # 0
  <2>1. PICK g \in [1..Len(s) -> Seq(T)] : Flattens(g, s, Len(s))
    BY <1>2, FlattenExists
  <2>2. FlattenSeq(s) = g[Len(s)]
    BY <1>2, <2>1, FlattenValue
  <2>3. Len(s) \in 1..Len(s)
    BY <1>2
  <2>. QED  BY <2>1, <2>2, <2>3
<1>. QED  BY <1>1, <1>2

\* One sequence more.
LEMMA FlattenAppend ==
  ASSUME NEW T, NEW s \in Seq(Seq(T)), NEW x \in Seq(T)
  PROVE  FlattenSeq(Append(s, x)) = FlattenSeq(s) \o x
<1>. DEFINE n == Len(s)
<1>1. PICK t \in Seq(Seq(T)) : t = Append(s, x)
  BY AppendProperties
<1>2. Len(t) = n + 1 /\ t[n + 1] = x /\ (\A i \in 1..n : t[i] = s[i]) /\ n \in Nat /\ n + 1 \in 1..(n + 1)
  BY <1>1
<1>3. PICK g \in [1..(n + 1) -> Seq(T)] : Flattens(g, t, n + 1)
  BY <1>2, FlattenExists
<1>4. FlattenSeq(t) = g[n + 1]
  BY <1>2, <1>3, FlattenValue
<1>5. g[n + 1] = IF n = 0 THEN x ELSE g[n] \o x
  <2>1. PICK m \in 1..(n + 1) : m = n + 1
    BY <1>2
  <2>2. g[m] = IF m = 1 THEN t[m] ELSE g[m - 1] \o t[m]
    <3>. HIDE DEF n
    <3>. QED  BY <1>3, Zenon DEF Flattens
  <2>3. m - 1 = n /\ (m = 1 <=> n = 0) /\ t[m] = x
    BY <1>2, <2>1
  <2>. QED  BY <2>1, <2>2, <2>3, Zenon
<1>6. CASE n = 0
  <2>1. FlattenSeq(s) = <<>>
    BY <1>6 DEF FlattenSeq
  <2>. QED  BY <1>1, <1>6, <1>4, <1>5, <2>1
<1>7. CASE n # 0
  <2>. DEFINE h == [i \in 1..n |-> g[i]]
  <2>1. Flattens(h, s, n)
    <3>1. \A i \in 1..n : h[i] = IF i = 1 THEN s[i] ELSE h[i - 1] \o s[i]
      <4>1. \A i \in 1..n : i \in 1..(n + 1) /\ (i # 1 => i - 1 \in 1..n)
        BY <1>2
      <4>. HIDE DEF n
      <4>. QED  BY <1>2, <1>3, <4>1 DEF Flattens
    <3>. QED  BY <3>1 DEF Flattens
  <2>2. FlattenSeq(s) = g[n]
    <3>1. FlattenSeq(s) = h[n]
      <4>. HIDE DEF h
      <4>. QED  BY <1>7, <2>1, FlattenValue
    <3>. QED  BY <1>7, <3>1
  <2>. QED  BY <1>1, <1>7, <1>4, <1>5, <2>2
<1>. QED  BY <1>6, <1>7

\* Nothing is lost.
LEMMA FlattenContains ==
  ASSUME NEW T, NEW s \in Seq(Seq(T)), NEW i \in 1..Len(s), NEW e \in Range(s[i])
  PROVE  e \in Range(FlattenSeq(s))
<1>. DEFINE n == Len(s)
<1>1. PICK g \in [1..n -> Seq(T)] : Flattens(g, s, n)
  BY FlattenExists
<1>2. FlattenSeq(s) = g[n]
  BY <1>1, FlattenValue
<1>. DEFINE Bad == {m \in 1..n : i <= m /\ e \notin Range(g[m])}
<1>3. SUFFICES ASSUME Bad # {} PROVE FALSE
  <2>1. n \in 1..n /\ i <= n
    OBVIOUS
  <2>2. n \in Bad \/ e \in Range(g[n])
    BY <2>1
  <2>. QED  BY <1>2, <2>2
<1>4. Bad \subseteq Nat
  OBVIOUS
<1>5. PICK m \in Bad : \A k \in Bad : m <= k
  <2>. HIDE DEF Bad
  <2>. QED  BY <1>3, <1>4, LeastNatural
<1>6. m \in 1..n /\ i <= m /\ e \notin Range(g[m]) /\ s[m] \in Seq(T)
  OBVIOUS
<1>7. g[m] = IF m = 1 THEN s[m] ELSE g[m - 1] \o s[m]
  BY <1>1 DEF Flattens
<1>8. CASE m = 1
  BY <1>6, <1>7, <1>8
<1>9. CASE m # 1
  <2>1. m - 1 \in 1..n /\ g[m - 1] \in Seq(T) /\ ~(m <= m - 1)
    <3>1. m - 1 \in 1..n /\ ~(m <= m - 1)
      BY <1>6, <1>9
    <3>. QED  BY <1>1, <3>1
  <2>2. Range(g[m]) = Range(g[m - 1]) \cup Range(s[m])
    BY <1>6, <1>7, <1>9, <2>1, RangeConcatenation
  <2>3. CASE i = m
    BY <1>6, <2>2, <2>3
  <2>4. CASE i # m
    <3>1. i <= m - 1
      BY <1>6, <2>4
    <3>2. m - 1 \notin Bad
      <4>. HIDE DEF Bad
      <4>. QED  BY <1>5, <2>1
    <3>. QED  BY <1>6, <2>1, <2>2, <3>1, <3>2
  <2>. QED  BY <2>3, <2>4
<1>. QED  BY <1>8, <1>9
=============================================================================
